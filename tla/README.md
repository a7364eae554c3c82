# Verification of hugind

hugind runs language models on one machine: a server that keeps many chat sessions on one
llama.cpp context, and agents, workflows and teams of agents that talk to it, driven from a
command line or by a host program over a pipe. This directory holds TLA+ modules that model its
core, TLC configurations that check them on small instances, and proofs that TLAPS checks for
every size.

    tlc -config EngineServe.cfg MCEngine.tla      # one run; the others are listed below
    tlapm EngineProofs.tla                        # the proofs of one module

`PROJECT.json` maps every definition to the lines of source it stands for, and lists the runs,
the findings, the hazards of the code and the theorems. Paths below are relative to `src/src/`.

## 1. The system

| Part | State it keeps | Operations | Hard behaviour | What makes it correct |
| --- | --- | --- | --- | --- |
| Task queue, `core/orchestrator/task.rs` | tasks with dependencies and a status | `load_tasks`, `add`, `start`, `complete` (+ promotion), `fail` (+ cascade) | order of completions and failures over levels and diamonds | dependencies first; a failure reaches exactly its dependents; terminal is final |
| Workflow runner, `core/orchestrator/runner.rs` | queue, shared memory, thread handles | waves: start all ready tasks, join them in order | OS threads, a semaphore, panics | ends; stops only when stuck; results are there before dependents run |
| Team command, `cli/agent.rs`, `coordinator.rs` | plan, team session, queue | plan, waves of agents in threads, synthesis, clean-up | failures and panics in every phase, sessions on several servers | ends; a completed team has no thread left, and its session only for known reasons |
| Message bus, shared memory, `messaging.rs`, `memory.rs` | messages, read marks, entries | send, broadcast, receive; set, summary | threads of several agents; a cut in the middle of a character | each message reaches each reader once, in order |
| Agentic loop, `core/orchestrator/agentic.rs`, `runner.rs` | conversation, turn count, globals all tool calls share | model request, tool calls, clean-up of the session | promises given up and resolved later, interrupts, a session that comes into being after its deletion | results belong to their calls; thoughts are not acted on; ends |
| MCP client, `core/mcp/mod.rs` | pending map, ids, a reader task | `initialize`, `list_tools`, `call_tool` | answers out of order, twice, or never | a call gets its own answer |
| Runtimes and capabilities, `core/js/`, `core/wasm/` | one host call, the result of the run | files, processes, fetches, chats, streams, input, tools | timeouts that drop futures, redirects, chunks cut anywhere | permissions hold at every hop; nothing is left running |
| File access, `core/fs.rs` | permissions of an agent | read, list, write, mkdir, remove, rename, copy | symbolic links, sequences of calls that build a way out | only allowed places are seen and changed |
| KV cache manager, `server/engine/kv_cache.rs` | session table (tier, sequence, RAM copy, path, counters, pending action) behind a lock; state files | `register_session`, `evict`, `restore`, `save_to_disk`, `save_ram_to_disk`, `set_vram_seq`, `release_sequence`, `evict_seq_owner`, `remove_session` | write failures half way; state in three places; two threads | a sequence has one owner; what is restored is what was kept |
| Inference engine, `server/engine/mod.rs` | request table, queue, slots, preparation worker, llama.cpp context | `push`, `pull` = drain, preparation, state actions, scheduling, batch, decode, sampling, retirement | handlers run between any two of its steps; retries; eviction under load | a request is in one place and is answered; a conversation keeps its tokens at the right positions and no others |
| HTTP routes, `server/routes.rs` | none of their own; read and write the session table, send into the engine's channel | `chat_completions`, `embeddings`, `save_state`, `idle_state`, `delete_state`, `get_state`, monitor | decisions from a table that changes before they are used; full channel | accepted actions happen; a reported session can be continued |
| Server command, `cli/server.rs` | the engine thread, the listening port | start, list, stop (kill) | killed at any point, then started with the files left | a restored conversation is the saved one or none |
| Model repository, `core/model/`, `cli/model.rs` | files, part files, directories | add (list, download, resume, verify, move), remove | kills between any two steps, a new remote version, two programs | a verified file is whole |
| stdio bridge, `stdio/mod.rs` | the request in hand, an output channel, tasks that watch servers | one method per command, in NDJSON and in MCP | events and answers from several places; a status that comes after its answer | one answer per request, in order, after its events |
| Thinking budget, bindings, configuration, migration | counters, parameters, directory layout | see section 6 | | |

How they interact. A handler reads the session table under its lock, builds a request and sends
it over a bounded `tokio` channel; the engine thread calls `pull()` for ever and answers over a
channel of the request. Handlers ask for state actions by writing `pending_action` of a session,
which the engine finds in its next pull. The engine alone moves sessions between sequences, RAM
and files, always through the manager. The workflow runner and its task threads share the
memory and a semaphore; everything else goes through join handles. A team runs the same loop, with
the message bus and one session for all agents besides. An agentic run asks a server over HTTP and
its MCP servers over pipes; its tools run in a JavaScript runtime whose host calls go through the
permissions of `agent.yaml`. The bridge handles one line after the other in one task, and calls the
same functions as the command line on the same directories. `serverold/` is in no module tree of
the build.

## 2. Modules

| Module | Models | Extends / used by |
| --- | --- | --- |
| `TaskQueue` | `task.rs`: one operator per method of the queue | `Workflow` |
| `Workflow` | `run_workflow_v2`: coordinator, task threads, semaphore | `Team`, `MCWorkflow` |
| `DagRun` | abstract: what running a task graph promises | refined by `Workflow`, and by `Team` |
| `Team` | `agent team`: plan, agents with bus and memory, synthesis, clean-up, around `Workflow` | `MCTeam`, `WorkflowProofs` |
| `Mcp` | `McpClient` with its reader task and a child that does what it likes | `Agent` |
| `ToolText` | what the loop reads in a reply: thoughts and tool calls | `Agent` |
| `Agent` | `run_agent` for an agentic agent, its loop, tools and clean-up, with one session at the server | `MCAgent`, `AgentProofs` |
| `HostFs` | `FsAccess` over a tree with links | `Host` |
| `Host` | one run of a module by either runtime, and its host calls | `MCHost`, `HostProofs` |
| `KvCache` | `kv_cache.rs` and the llama.cpp memory under it, as operators from cache to cache | `Engine` |
| `Engine` | `pull()` and what it calls, the handlers, a kill and a start | `MCEngine`, `EngineProofs`, `EngineOwnProofs`, `EngineLogProofs` |
| `SessionLog` | abstract: what a client may rely on about a session | refined by `Engine` |
| `Models` | the model repository and the programs that download into it | `Bridge` |
| `Bridge` | the stdio bridge, with servers as processes, beside the command line | `MCBridge`, `BridgeProofs` |
| `Filtering` | `iter().filter().collect()` as a recursive function: inboxes, files to download, lines of a stream | `Team`, `Models`, `Host`, `FilteringProofs` |
| `MC...`, `...Proofs` | instances for TLC; theorems | |

### Workflow

Task *i* of the file is the number *i*, so the queue's insertion order is `<`. `LoadTask` is one
turn of `load_tasks` and picks any set of dependencies, including `Missing`, a title no task of
the file has (`load_tasks` keeps it as it stands). `check_cycles` is the definition "some
non-empty set in which every task depends on a member" and `cascade_failures` the least set closed
under its frontier step: both are what the searches compute, so the module has no recursion.
`Inspect` is the head of the loop, `Launch` one turn of the spawning loop, `Acquire` and
`EndThread` the task thread (its runtime may panic before it has a permit), `JoinResult` and
`JoinFailure` the join of the oldest handle with all that follows it: storing the result, then
`complete` with its promotion, or `fail` with its cascade.

### Engine

A cache is a record (`sess`, `kv`, `file`, `unified`); each method of the manager is an operator
from the cache before to the cache after, with the caches a failing write can leave as a set of
its own (`WriteFailures`, `EvictFailures`, `SaveFailures`): the file may not have been created,
or be cut short. A sequence of the llama.cpp context is the sequence of its cells, each with its
position and the request it belongs to: that is what the properties tell apart.

`pull()` is split where another thread can come between: each receive from the channel, each
result of the preparation worker, the copying of the pending actions, each action, the clearing
of its field, each turn of the scheduling loop, and the batch. A handler is two steps,
`BuildPrompt` (which decides on the system prompt) and `Send` (which waits for room);
`AskForAction` is `save_state`, `idle_state` or `delete_state`. `Step` is the whole rest of the
pull: a batch of at most `NBatch` tokens, one per slot that generates and the prefill of the
others in any order the slot map may give, at most one image evaluated, decoding, the counters,
sampling, which ends a request at `MaxTokens` and may end it earlier, and retirement.
`StepFails` is the early return of a failed decode. `Restart` is a kill and a start: the files
remain.

How state corresponds: `cache.sess[s].head` is `kv_head`, `ntok` the length of `tokens`, `vram` `vram_seq_id`; `slots`
the slot map; `req[r].st` the request's stage (on the way to the engine, then its `RequestState`, `"gone"` once it is
finished), `off` `pos_offset`, `n` the prompt items decoded, `gen` the tokens sampled; `answer` what the handler was
sent last.

Some behaviour of the code that the model keeps because it matters: sampled tokens count in
`kv_head` when they are decoded, one pull after they are sampled; a request without a session
leaves its cells until the sequence is next used; an image whose evaluation fails clears and
releases the sequence and leaves the session's counters; a restore that fails leaves them too;
idling or deleting takes the slot and not the request; deleting a session deletes the file at its
path; a fork copies its parent's cells to a sequence that is not cleared, at offset 0, and for a
session that was not registered; an eviction whose write fails has cleared the sequence already;
an image counts in `kv_head` and not in `tokens`.

### Team

`Team` extends `Workflow`: the command's loop is the runner's, so `Waves` is `Inspect`, `LoadTask`,
`Launch`, `Acquire`, `JoinResult` and `JoinFailure` while the command runs, and a thread ends with
`EndThread` when its agent does (`Ends`). `Plan` takes any assignment a coordinator's reply may give,
names no agent has included (`"nobody"`). `Begin` is the head of `run_agent_with_team`: the agent and
its server are looked up, the messages received, the memory summed up. `Says`, `Hears` and
`Remembers` are what a script or tool may do in any turn. A value for the shared memory is `"plain"`
or `"wide"`, text whose 200th byte lies inside a character: `summary()` panics when there is one of the
second kind (`wideKept`, `memory.rs:78`), in an agent's thread, or in the synthesis.

Of the servers `Team` has what matters to the session all agents share. `Ask` puts a request into
its server's queue (`queued`); `Serve` gives it a slot, which registers the session there unless it
exists (`sessions`, with the request that did it), and only then `Answered` may follow. `Fails` is a
request that does not arrive or is refused, or one whose client gives it up, after its 300 s or with the
connection, while the server keeps it: such requests are `late`, and `Serve` may come at any time, after
the command too. `CleanUp` sends the DELETE to the coordinator's backend, or fails to, and does not look
at the result; `delete_state` leaves a pending action if the session is there, which `DeleteSession` carries out
later (`deletion`).

### Agent, Mcp, ToolText

`phase` is where `run_agent` is: `checks`, the MCP servers' `hello`, `setup` in the runtime,
`turn`/`asked` for the loop, `tool`/`poll` for `execute_js_tool`, `asked_last` for the answer after
the last turn, `cleanup`. `done` and `value` are the globals `__tc_done` and `__tc_result`, with the
number of the call whose result it is; `late` are the promises the loop has given up after its
polls and that a later tool call may resolve. The server is one request (`chat`) and one session:
a request waits before it registers its session, and goes on when the connection of its client
breaks. `Mcp` has one record per call and the map `pending`; `Read` is one turn of the reader task. The
child may answer in any order, repeat itself, write lines nobody waits for, and end. `ToolText` gives
replies as sequences of tags, words and tools; `InThought` says what a thought is without searching.

### Host, HostFs

An agent is a record: runtime, permissions, the calls it makes. `turn` says who runs: a
WebAssembly guest stands still during a host call, a JavaScript module goes on and its callbacks
run when a call settles. One call is under way at a time. `CheckHop`, `SendHop` and `HopAnswered` are one turn of the
redirect loop: a name is looked up for the check, any non-empty part of its addresses (`Found`), and the client looks
it up again when it sends, so a site has a set `addrs` of the kinds of address it may resolve to, and a request records
the one it went to. A streamed body is a sequence of pieces, some of them `Newline`; `ReceiveChunk` takes any part of
what is left of it, and may cut a piece in two: both hosts decode each chunk by itself, so a character that is cut is
`Garbled` on both sides. `Lines` splits at the newlines, and `Data` are the lines that hold text. `HostFs` holds a tree as a
function from places to directories, files and links; `Resolve` is `resolve_path` with all its
checks, and each operation is one action over any arguments. A link may have lost its target: then `CanonSoft`
takes the link's own place for the path, as `canonicalize_soft` does, and opening the path for writing makes a file where
the link leads (`Opened`).

### Models, Bridge

Names of files point at inodes, because a program that writes keeps writing to its open file after
another one has renamed or removed it; a content is a sequence of chunks with the version of the
remote file they come from. Every await and every system call of `download_file_with_sink` is an
action, but for `StartsOver`, which removes the part file and creates it, and `VerifyFails`, which reads it and removes it;
a kill may come between any two. In `Bridge`, `cur` is the request in hand, `out` what was
put into the channel to the output task, `watch` the tasks `spawn_server_start_status` and
`spawn_server_stop_status` start, `sink` the emitter an agent's run has installed. One action per
method; `Refuse` is every error before anything is done. Servers are seen from outside: `booting`
processes load, one binds the port, `KilledByPort` ends what listens. The command line works on
the same repository, agents directory and port.

## 3. Runs

| Run | Question | Instance | Result |
| --- | --- | --- | --- |
| `Workflow` | order, cascade, results, termination, refinement of `DagRun` | 4 tasks, all graphs over them and an unknown title, 2 permits | holds |
| `WorkflowSuccess` | is success reported only when all completed? | 2 tasks | violated |
| `EngineServe` | does each conversation keep its own tokens at the right positions, wherever it is? | 2 sessions, 1 sequence, 4 requests (one without a session), 2 actions or restarts | holds |
| `EngineFaults` | do sequences and requests stay exclusive under every fault? | 2 sessions, 2 sequences, 3 overlapping requests with a fork and an image, 1 action or restart | holds |
| `EngineLive` | is every request answered? | 2 sessions, 2 sequences, 3 requests, failing evictions and decodes | holds |
| `EngineSystemPrompt` | is a redundant system prompt the worst case? | 1 session, 2 turns, 1 delete | violated |
| `EngineAccepted` | are accepted actions carried out? | 1 session, 2 actions | violated |
| `EngineIdle` | is a request answered when its session is idled? | 1 session, 1 request, 1 idle | violated |
| `Agent` | do results go to their calls, are thoughts only thoughts, does a run end and leave no session? | 3 tools (one computes, one asks an MCP server twice at once, one resolves late), 2 turns, 4 ids, 5 replies, all faults | holds |
| `Host` | do permissions hold at every step, is a stream whole, is nothing left running? | both runtimes, 3 trees: with a link out, with one in, and with one out that has no target, 8 permissions, 4 sites of which one resolves to both kinds of address, 2 processes, a reply of 2 lines in 6 pieces and one whose last line has no newline, cut anywhere | holds |
| `Team` | does each message arrive once, is a session that is left explained, does the command end? | 2 tasks, 2 agents on two servers, 2 messages to one or to all, 1 turn | holds |
| `Bridge` | is each request answered once, in turn, after its events; are downloaded files whole? | 11 sequences of up to 3 requests, 1 file of 2 chunks, 2 versions, 1 kill, 1 loading server, 1 command beside the bridge | holds |

Why the bounds are enough to be of interest. Four tasks are what a diamond takes and give chains,
joins, two roots and every position of an unknown title; two permits are fewer than the widest
wave, so threads wait (the runner has 4). One sequence for two sessions makes every turn of
the other an eviction and the next one a restore, in both memory modes, which `Init` chooses;
two actions are what it takes to save and then idle or delete, or to act and restart. Two
sequences for three requests let a fork run beside its parent and an image beside text. A prompt
of two tokens with `NBatch` one above the number of sequences splits a prompt over two batches
whenever a second slot is active. `ActionBudget`
bounds state actions and restarts together; every other counter is bounded by the requests.
Two MCP calls at once, with one id left for a second page or a second tool call, are what it takes to mix
answers up; one poll (`MaxPolls`, 600 in the code) gives a promise up before or after it is resolved, and two turns let
the late one meet a later call. Two messages are what it takes to miss, repeat or swap
one; two agents of one task each run in any order, and both tasks may have one agent; one turn each is a request
that is awaited, given up while it is queued, or served after the end of the command, beside another one. A fetch of
six hops over four sites meets every order of a site that is allowed, one that is not, one that is private and one that is
both. In the tree a
link leads into the allowed part or out of it, and every operation may follow
another, so a way out that is built in several calls is found. A file of two chunks has every
kind of part: none, half, whole, and a half of each version. Two requests in a row show
what the first leaves to the second; one kill may fall between any two steps of either.

`Together = 1` lets one program download at a time. With two, the code keeps neither property of
the files: both write to one part file, and what one has verified the other changes before it is
moved. `Faulty` and `MayClose` switch faults that some properties exclude; both are on.

Deadlock is checked in the workflow, engine and agent runs: the engine never stops, and the returns of the
others are the actions `Returned` and `Terminated`. A module's run, a team's command and a host that has
sent its last request do end (`CHECK_DEADLOCK FALSE`).

Fairness. The engine thread is a loop around `pull()` (`WF(Pull)`), a `send` waiting for room is woken
(`WF(Send(r))`), and the preparation worker answers each job it takes, though one pull may look too early
(`SF(CollectPrep(r))`). `SF(Step)` and `SF(Schedule)` assume that decoding and eviction do not fail for ever; nothing
in the code guarantees that, and a fault that never ends does keep requests waiting. In `Workflow` the coordinating
thread runs, an agent that was started ends, and the semaphore is `tokio`'s, which is fair; an agent that never ends
(see the hazards) does hold the runner. `Team` assumes that the main thread and the threads of the agents go on, and
that a server gives every request it has a slot some time: the agentic loop gives up after 300 s in any case, but the
client a script uses waits as long as it takes (`js/capabilities/llm.rs`), and so does the DELETE. In `Agent` the
runtime polls its tasks, the server gets to each request (the HTTP client has no total timeout), and a child that is
up answers what it has read (`SF(ChildAnswers(i))`); `RunEnds` asks that the child stays up, as a call that waits when
it ends is never woken. In `Bridge` only the polling tasks need fairness, and they have deadlines.

What the violated runs show is listed under `findings` in `PROJECT.json`:

1. A task waiting for an unknown title never runs, and the runner reports success
   (`runner.rs:353`); the check the comment in `add` announces is not there.
2. A session deleted after `should_apply_system_prompt` has looked, and before its request is
   scheduled, restarts with no system prompt; the comment calls a redundant prompt the worst case.
3. A second `202 Accepted` overwrites the first action, and an action that arrives while the
   engine carries out the previous one is cleared with it.
4. Idling a session whose request is in a slot leaves that request unanswered for ever.

What each property is about is said above its definition. Some definitions state what documents
or comments promise and the code does not do: `SessionDeletedAtRunEnd`, `ClosedIsReported`,
`CompleteAnnounced` (`Agent`), `TrapsFailTheRun`, `JsStreamWhole`, `PrivateStaysBlocked` (`Host`), `EscapesAreDenied`
(`HostFs`) and `TeamSessionDeleted` (`Team`). No run lists them; added to the configuration of their module's run, each
is violated. Section 5 says what they show.

## 4. Proofs

Every invariant and every action property that a passing run checks is also proved with TLAPS, for every value of the
constants that meets the assumptions named below; so is that `Engine` implements `SessionLog` and `Workflow` and `Team`
implement `DagRun`. What is left to TLC is liveness.

| Module | Proves | Assumes |
| --- | --- | --- |
| `WorkflowProofs` | `TypeOK`, `DependenciesFirst`, `FailureReachesDependents`, `FailureHasCause`, `ResultsBeforeDependents`, `StopsOnlyWhenStuck`, `TerminalIsFinal`, `ImplementsDagRun`; of teams: every step their queue sees is one of `Workflow`, hence order, cascade and `DagRun` again, `LeftSessionHasCause`, `InboxComplete` | `TaskAssumption` (at least one task, `Missing` is none of them), `PermitAssumption` (at least one permit), `AddressedAssumption` (types) |
| `EngineProofs` | `TypeOK`, `VramExclusive`, `OnePlace`; `NothingLost` where clients only save | `CacheAssumption`, `EngineAssumption` (types; a batch has room for one token per sequence and one more), `NullAssumption` |
| `EngineOwnProofs` | `Isolated` | the same, and `Separate` |
| `EngineLogProofs` | `Aligned`, `Continued`, `ImplementsSessionLog` | the same, and `Orderly` |
| `AgentProofs` | `OwnAnswer` and `CanBeWoken` of the client alone and in a run, `ResultsComplete`, `ResultsAreOwn`, `ThoughtsAreNotActedOn`, `CompletedRunLeavesNoSession` | `McpAssumption`, `AgentAssumption` (types; a tool waits for the client or is resolved by a later call, not both), `ReplyAssumption` (a reply is a text) |
| `HostProofs` | `RequestsPermitted`, `NoProcessLeft`, `WasmStreamWhole`, `OnlyScopeChanges`, `PermissionsHold`, `OutsideStaysUnseen` | `AgentAssumption`, `BodyAssumption`, `FsAssumption` (types), `SiteAssumption` (a site has an address, a literal one only one); the last three also `[]Straight` |
| `BridgeProofs` | `AnsweredInTurn`, `EventsBeforeTheAnswer`, `VerifiedFilesAreWhole`, `ResumedFilesAreWhole` | types; the last two also `Together = 1` |
| `FilteringProofs` | lemmas: what `Chosen` returns, of whole sequences and of parts; counting up over sets of numbers | |

The hypotheses beyond types say where the code keeps its promise and where it does not; each is met by the runs that
check the property.

- `NothingLost` for clients that only save: idling and deleting do lose a request, as the run `EngineIdle` shows.
- `Separate`: no request forks another one, and the template ids of a session are no session's id and no other session's.
  A fork copies its parent's cells on purpose, and ids that are shared share a state file (see the hazards).
- `Orderly` is `Separate`, one turn of a session at a time (`Serial`), no images, and a context that gives the state of a
  sequence when it is evicted. Without it the positions go astray in the code: two turns at once write to two
  sequences, an image counts in the head and not in the tokens, and a failed `evict` leaves a file that is cut short.
- `Together = 1`: see section 3.
- `[]Straight`: no link leads over another link, which is what `HostFs` says of its links at the start. It stays so:
  `LinksStayStraight` proves that only a link that has lost its target can change that.
- `OutsideStaysUnseen` also takes the allowed directories to name the same places throughout, as an agent may be allowed to
  move a link to the place of one, and takes what is outside at the start to be out of scope.

*Workflow.* The dependency properties are not inductive. What a cascade may reach is known only
if a pending task's dependencies have all completed (`PendingIsReady`): then nothing pending,
running or completed depends on the failed task, and the cascade stays within the blocked ones.
A blocked task is one that still lacks a completed dependency (`BlockedWaits`), which is what
`StopsOnlyWhenStuck` needs at the end; `CoordInv` ties the handles to the tasks in progress,
`ThreadInv` threads to statuses, and `MemoryInv` says the memory holds exactly the completed tasks.
The cascade's two facts, that it is closed and that each member has a cause in it, are
lemmas about a least fixed point. The refinement has one lemma per action of the coordinator;
the threads' own steps are stutters until they are joined.

*Team.* `Workflow`'s invariant holds of a team because each of its steps is one of `Workflow`'s or leaves
its variables alone (`TeamIsWorkflow`). At the return of the loop `CoordInv` says that no handle is
left, so no thread can ask a server afterwards. `AwaitedInv` says that a queued request which nobody has given up has its
thread waiting for it; after the loop only the others are left, so a session that a server registers after the deletion is
one of those requests'. Why the session may be left at all is a matter of the DELETE, in the same invariant.

*Engine.* The methods of the manager come first. Each keeps the type of the cache and hands no
session a sequence, except `set_vram_seq` and `restore`, which hand one to the session they
are called for; this is the relation `Moves(S, c, d)`, with a lemma per method. The only caller of
the two is `schedule_requests`, after `evict_seq_owner` has left nobody else as owner, so
exclusiveness is kept. `TodoOK` is the strengthening: the actions `process_state_actions` has copied
are of registered sessions, one of each. Without it a delete and a save copied together could
write the record of a session that is gone; the code relies on it too, as only the
engine removes sessions. The types themselves carry something: that no counter or position
is ever negative needs `save` to clamp the head to the tokens and never below, and each batch,
whatever part of a prompt it takes, to place its cells from the request's own offset.

*Places of a request.* The places follow from the request's stage, and neither property is inductive without that: that a
request received from the channel is not in the queue already follows from its stage alone (`ChanInv`, `QueueInv`,
`SlotsInv`), and that a queued one has no slot from `Apart`. The stage of a request in a slot changes in `Step`, where
`SlotOf` finds its slot again because no request has two.

*Mcp.* An id belongs to one call for as long as anything can still arrive for it: the ids in the map, on the
wire, in the lines not read and in the records of the calls are all below `next_id`, and an entry of the map
is under the id of the call it names, or is left over from a write that failed: then the child is gone and nothing can
arrive for it.

*Agent.* `RoundInv` follows the last reply: the results so far and the calls still to do make up its calls
(`OpenRound`), and each earlier round is answered by the message after it. `ResultInv` is about the globals: numbers
of calls only grow, the number of a promise that was given up has not been reported as a value (`LateIsOpen`), and the
globals hold nothing, the current call's result, or that of such a promise, resolved once (`GlobalsAreFresh`).
`CallsInv` says when requests to an MCP server may be under way: only while the tool that made them is polled, so that
a new tool call forgets none that waits.

*Host.* The hops are as many as the requests, at most six, and between the check and the sending the target is
permitted and, where private networks are blocked, has a public address among its own (`Cleared`); what the client
then connects to is any of them, which is a private one only if the site has both and is a name. A process is alive
because the pending call started it, or because a timeout gave one up.

*Bridge.* `LogInv(log, read, hand)` says of a log of messages, the lines read and the request in hand
that every request read but the one in hand has one answer, that answers are in order, that no message is of
a line not read, and that no event of a request follows its answer. Four lemmas say what appending an
event, an answer, and the answer to a line that is no request, and reading a line, do to it; one lemma then covers every
handler that answers in its own step. The strengthening the properties lack is that the request in hand is the last
line read, and that the sink of a run is that request's.

*What the recursive functions return.* `Chosen`, `Canon`, `Lines` and the searches of `ToolText` are functions
defined by recursion. The induction theorems of the library take an operator and cannot be used, so the
induction is over sets of numbers: `CountingUp` says that a set of numbers with 0 and every successor has them all, and
rests on the least number of a set (`LeastNumber`). For each function a first lemma shows that the recursion defines one
(`ChosenIs`, `LinesIs`, `CanonIs`, `StripIs`, `CallsBetweenIs`), and every fact after it counts up or down.

*Sequences of the context.* `OwnInv` says for each place cells are kept in, a sequence, a RAM snapshot or a state file,
whose cells it holds: the session the place belongs to (`Own`), the request in the slot (`SlotsOwn`), and that saves
which have been asked for go to a template of their session (`AskedOwn`). A sequence that changes hands is cleared first, or
restored over.

*Positions.* `LogInv` says of each registered session that it is in its sequence or in the one snapshot `restore` will
take, and whole there: as many cells as the head says, numbered from 0 (`Sound`); of a request in a slot how far it
has come (`Progress`); and that a session has one request in flight. A step moves or drops what sessions hold, adds
the next cells to those in slots, or opens a session: these are the steps of `SessionLog`, with the tiers and the
sequences hidden.

*Inboxes.* What an agent has got is what the bus held when it last received, filtered for it: the messages marked
read are those up to there (`ReadInv`), so filtering the whole bus by the marks is filtering its end, and
what filtering returns of two parts is what it returns of the whole.

*Thoughts.* A tag that opens a thought is removed with all up to the one that closes it, or up to the end. What is left is a
subsequence of the reply of which every element was outside of every thought (`StripIs`), and the calls found in
it are tools of it (`CallsBetweenIs`).

*Files.* `Canon` follows a path from link to link, and where no link leads over another it leads to a path free of
links (`CanonIsFree`). So what `resolve_path` has checked is the place the operation reaches, unless links are
followed and the path ends in one that has lost its target: then the place is where that link leads, `MadeThroughLink`
(`Lost`). Each operation is one of five effects (`Effect`: read, put, make, remove, move), and each property is proved
of the effects.

*Streams.* `StreamInv`: the text is that of the complete lines of what has arrived, and the buffer the line that is
not complete. A chunk keeps it because splitting the buffer followed by the chunk gives the lines that splitting
everything gives (`LinesGoOn`).

*Model files.* `RepoInv` follows the download step by step: the part file is the beginning of a version as long as the
job's count says, or has been taken away; no other name leads to the open file; and when the hash has been verified,
the file that is renamed is whole. That an open file is never under its final name is what needs one download at a
time.

Model-checked only: liveness (`Terminates`, `Answered`, `RunEnds`, `TeamEnds`, `StatusFollows`), which is out of the
prover's reach.

## 5. Divergences seen while modelling

Besides the findings of the violated runs. The first group has a definition that states the promise.

- `docs/wasm_runtime.md:192` wants a trap to fail the run; with a run timeout the inner result is dropped and the run
  succeeds (`wasm/runtime.rs:332`). `TrapsFailTheRun`.
- The JavaScript chat stream parses every chunk by itself and loses a line that is split over two
  (`js/capabilities/llm.rs:303`); the WebAssembly one keeps it. `JsStreamWhole`. Both decode every chunk by itself, so a
  character that is split over two is replaced in the text (`wasm/runtime.rs:811`).
- A fresh session is not deleted after an early error or a panic, and comes back when its request is still queued at
  the deletion (`docs/agent_manifest.md:81`). `SessionDeletedAtRunEnd`.
- At the end of its output the MCP reader leaves the map of waiting calls as it is (`mcp/mod.rs:327`): they wait for
  ever. `ClosedIsReported`.
- The answer after the last turn is returned without the event `agent.complete`. `CompleteAnnounced`.
- With `follow_symlinks`, a write through a link that has lost its target makes a file where the link leads, outside of the
  allowed directories too: `canonicalize_soft` (`core/fs.rs:384`) takes the link's own place, which is allowed, and
  `fs::write` (`core/fs.rs:106`) follows it. The test at `core/fs.rs:609` says "symlink escape should be denied".
  `EscapesAreDenied`.
- With `block_private_networks` a name is looked up for the check (`js/capabilities/net.rs:54`, `wasm/runtime.rs:597`) and
  again by the client that connects: when the answer has changed meanwhile, the request goes to a private
  address. `PrivateStaysBlocked`.
- The team's session, "fresh, deleted after team completes" (`cli/agent.rs:345`), may be left (`TeamSessionDeleted`):
  by an early return or a panic of the command; on the servers of the other agents, which are not told
  (`cli/agent.rs:464`); when the DELETE is not sent, not received or refused, as its result is ignored
  (`cli/agent.rs:466`); for the time it is a pending action; and when a request that an agent has given up gets its
  slot after it and registers the session again (`server/engine/mod.rs:1306`).
- Two downloads of one file share its part file (`docs/cli_model.md:31`; see `Together` above), and the
  move `downloader.rs:136` calls atomic removes the old file first.
- The team's loop looks for tool calls in thoughts too (`cli/agent.rs:641`); the runner's does not.
- After an image a session evicted to its file starts from nothing in its next turn, because `restore`
  compares a head that counts images with a token list that does not (`kv_cache.rs:166`).
- A removed model's directory is looked for with a function that needs a GGUF file in it, so an empty directory is never
  removed (`cli/model.rs:208`, `stdio/mod.rs:1328`).
- Installing an agent from a local zip fails always: the directory it was unpacked to is gone when its manifest is
  read (`stdio/mod.rs:1693`, `cli/agent.rs:714`; `docs/cli_agent.md:80`). Installing the installed directory
  over itself leaves it empty and reports success.
- Installing from a URL in the bridge uses a blocking HTTP client inside the asynchronous loop (`stdio/mod.rs:1715`).
- At the end of standard input the bridge waits for its output task, whose channel it still holds open
  (`stdio/mod.rs:165`).
- `server.stop` while the server loads its model reports that it was stopped already, and the server comes up later; `lsof`
  lists clients of the port too, which are killed with the server (`stdio/mod.rs:1604`).
- The automatic migration of models runs only when the models directory is new, and creates it first
  (`shared/bootstrap.rs:21`): a start that is interrupted is not taken up by the next.
- A file copied onto itself is empty afterwards (`core/fs.rs:180`).
- `tasks.spawn` is declared and never connected.

## 6. What is abstracted or left out

- Text: prompts are counts of tokens, formatting and streaming chunks are left out, and so are
  grammars, sampling parameters, authentication and statistics. Tokenizing does not fail.
- Task titles are taken to be unique in a workflow file, so a title names one task.
- A template is used by one session, and its id is no session's id; the code would share a file.
- llama.cpp's `seq_rm`, `seq_cp` and `state_seq_{get,set}_data` remove, append and copy a
  sequence's cells: external facts, from how the engine uses them.
- Cancellation is left out because nothing in the server sets a request's flag: when a client
  disconnects its request runs on. Embeddings mode, the context shift and a sampler
  that cannot be created are not in `Engine`: the first has its own loop without sessions, the second moves cells
  inside llama.cpp, the third depends on grammars.
- A kill in the middle of writing a session's file is not modelled.
- `Engine` leaves out the header by which a request asks for a fresh session (`server/routes.rs:178`), and requests
  that bring a system prompt of their own (`server/routes.rs:380`). The evaluation of an image either succeeds or
  fails as `MmEvals` has it: the return out of `pull()` with an error (`server/engine/mod.rs:1929`, from 792 and
  1008) is left out. An image is one cell and one token, so the correction of positions by `n_pos - n_tokens`
  (`server/engine/mod.rs:1572`) is the identity.
- In `Mcp` a write succeeds only while the child is up; in the code one may, into the pipe of a child that has closed its
  output and not yet its input.
- Of the servers of a team their queues and the team's session only: restarts, other clients' actions on that session, and a
  server that never gives a request a slot are left out. The look-up of a server, the health check and the finding of an
  agent are one step that may fail.
- A name of a site may change its address between two look-ups in any way; that a client connects to several addresses
  in turn is one request to any of them.
- A JavaScript module may have several host calls pending; `Host` has one. File access from the callbacks of a
  stream is left out, and nobody else changes the tree between the check of a path and its use.
- A link of the tree of `HostFs` leads to a place without crossing another link.
- `Bridge` has one configuration, one port and one agent; `config.info` and settings change nothing else.
  The end of standard input, and a line that is not UTF-8, which ends the bridge without an answer
  (`stdio/mod.rs:96`), are left out. `EndRun` takes the sink away, sends the finish event and answers in one step:
  only events of requests answered before could come between. `StopServer` takes the server to be found when it
  is up, where the code counts the processes `lsof` names.
- The thinking budget counts tokens of one request and touches nothing requests share; the configuration, the bindings
  and system information keep no state over time; the migration moves directories once;
  `scheduler.rs` and `serverold/` are not used by the program.

## 7. Plan

Done: the engine with its cache, the workflow runner, the team, the agentic loop with its MCP client, the
runtimes' host calls and file access, the model repository and the bridge. What could follow:

1. The context shift (`server/engine/mod.rs`, from line 1595) composed with `Engine`'s `off` and `head`.
2. A run of `Engine` with a template two sessions share, and one with embeddings.
3. The migration of the model directory beside `Models`, with a kill between its steps.
4. Proofs: `SequencesAreIsolated` with forks, whose cells belong to the parent's conversation as well; what a team's
   agents see of the shared memory.
