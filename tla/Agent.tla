------------------------------- MODULE Agent -------------------------------
(***************************************************************************)
(* run_agent of core/orchestrator/runner.rs for an agentic agent: checks,  *)
(* set-up in a JavaScript runtime with an MCP client, the loop of model    *)
(* requests and tool calls, and the deletion of the session the run made.  *)
(* The model server is reduced to one request and one session: a request   *)
(* waits in the engine's queue, and registers its session when it gets a   *)
(* slot.  Mcp is the client the tools use.                                 *)
(***************************************************************************)
EXTENDS Mcp, ToolText, Functions

CONSTANTS Hello,     \* the call of initialize, one of Call
          Replies,   \* what the model may reply, as texts of ToolText
          MaxTurns,  \* bound: turns an agent or its manifest may ask for
          MaxPolls,  \* polls of a tool's done flag (600)
          Asking,    \* tools whose promise waits for tools.list and tools.call
          Deferring, \* tools whose promise a later tool call resolves
          Faulty     \* whether runs are interrupted, connections break, tools panic

ASSUME AgentAssumption ==
  /\ Hello \in Call
  /\ MaxTurns \in Nat /\ MaxPolls \in Nat \ {0}
  /\ Asking \cup Deferring \subseteq Tool /\ Asking \cap Deferring = {}
  /\ Faulty \in BOOLEAN

VARIABLES
  phase,     \* where run_agent is
  mode,      \* config.runtime_session.mode
  maxTurns,  \* max_turns of the loop
  turn,      \* turn of the loop
  history,   \* messages
  todo,      \* tool calls of the turn not run yet
  results,   \* results of the turn's tool calls so far
  ran,       \* tool calls run so far; the number of the current one
  done,      \* __tc_done
  value,     \* __tc_result: the number of the call whose value it is, or 0 for null
  late,      \* deferred promises the loop has given up
  polls,     \* polls of the current tool call
  complete,  \* whether the event agent.complete has been emitted
  outcome,   \* what run_agent returns
  chat,      \* the model request at the server
  session    \* the session at the server: [there, deleting]

loopVars == <<maxTurns, turn, history, complete>>
toolVars == <<todo, results, ran, done, value, late, polls>>
serverVars == <<chat, session>>
agentVars == <<phase, mode, loopVars, toolVars, outcome, serverVars>>
vars == <<agentVars, mcpVars>>

Phase == {"checks", "hello", "setup", "turn", "asked", "tool", "poll",
          "asked_last", "cleanup", "ended"}

\* Phases inside the future that Ctrl+C cancels.
Running == {"hello", "setup", "turn", "asked", "tool", "poll", "asked_last"}

Init ==
  /\ McpInit
  /\ phase = "checks"
  /\ mode \in {"fresh", "resume"}
  /\ maxTurns = 0 /\ turn = 0 /\ history = <<>> /\ complete = FALSE
  /\ todo = <<>> /\ results = <<>> /\ ran = 0 /\ done = FALSE /\ value = 0
  /\ late = {} /\ polls = 0
  /\ outcome = "none"
  /\ chat = "none"
  /\ session = [there |-> mode = "resume", deleting |-> FALSE]

Leave(next, result) == phase' = next /\ outcome' = result

\* Entry point, hugind_version, backend, health and env: an error here returns at
\* once; the session gets its id, and the server hears nothing of it.
Check ==
  /\ phase = "checks"
  /\ Leave("ended", "error") \/ Leave("hello", "none")
  /\ UNCHANGED <<mode, loopVars, toolVars, serverVars, mcpVars>>

\* JsRuntime::new_with_team starts the MCP servers and waits for their initialize.
Greet ==
  /\ phase = "hello"
  /\ \/ BeginCall(Hello) /\ UNCHANGED agentVars
     \/ /\ call[Hello].pc \in Finished
        /\ IF call[Hello].pc = "answered" THEN Leave("setup", "none") ELSE Leave("cleanup", "error")
        /\ UNCHANGED <<mode, loopVars, toolVars, serverVars, mcpVars>>

\* What agentic.set_max_turns or the manifest asks for.
AskedTurns == 0 .. MaxTurns

\* The messages the loop starts with: perhaps a system prompt, and the user's prompt.
FirstMessages ==
  LET user == [role |-> "user", results |-> <<>>]
  IN  {<<user>>, <<[role |-> "system"], user>>}

\* The entry module registers tools, the system prompt and perhaps a number of
\* turns, or fails; the loop's first messages are there.
SetUp ==
  /\ phase = "setup"
  /\ \/ Leave("cleanup", "error") /\ UNCHANGED <<maxTurns, history>>
     \/ /\ Leave("turn", "none")
        /\ maxTurns' \in AskedTurns
        /\ history' \in FirstMessages
  /\ UNCHANGED <<mode, turn, complete, toolVars, serverVars, mcpVars>>

\* The head of the loop: the model gets all messages; after the last turn it is
\* asked for a final answer.
Ask ==
  /\ phase = "turn"
  /\ chat' = "queued"
  /\ \/ turn < maxTurns /\ phase' = "asked" /\ UNCHANGED history
     \/ /\ turn = maxTurns
        /\ phase' = "asked_last"
        /\ history' = Append(history, [role |-> "user", results |-> <<>>])
  /\ UNCHANGED <<mode, maxTurns, turn, complete, toolVars, outcome, session, mcpVars>>

\* The request failed, had another status than success, or held no message: the
\* loop gives up.  When the connection broke the server goes on with the request.
AskFails ==
  /\ phase = "asked"
  /\ chat' = "none" \/ (Faulty /\ UNCHANGED chat)
  /\ Leave("cleanup", "error")
  /\ UNCHANGED <<mode, loopVars, toolVars, session, mcpVars>>

\* A wrong loop: the reply is searched for tool calls with its thoughts.
CallsInAll(text) == ParseToolCalls(text)

\* The tool calls the loop finds in a reply.
CallsIn(text) == ParseToolCalls(StripThinking(text))

\* A reply is a text, with any tokens in any order.
ASSUME ReplyAssumption == \A text \in Replies : text \in Seq(Range(text))

\* A reply without tool calls ends the run, one with tool calls starts them.
Reply ==
  /\ phase = "asked"
  /\ chat = "running"
  /\ chat' = "none"
  /\ \E text \in Replies :
       /\ history' = Append(history, [role |-> "assistant", text |-> text])
       /\ todo' = CallsIn(text)
  /\ results' = <<>>
  /\ IF todo' = <<>> THEN Leave("cleanup", "answer") /\ complete' = TRUE
     ELSE Leave("tool", "none") /\ UNCHANGED complete
  /\ UNCHANGED <<mode, maxTurns, turn, ran, done, value, late, polls, session, mcpVars>>

\* The answer after the last turn; whatever goes wrong with it, the run is a
\* success, its text perhaps empty, and no event says that it is complete.
LastReply ==
  /\ phase = "asked_last"
  /\ \/ chat = "running" /\ chat' = "none"
     \/ chat' = "none"
     \/ (Faulty /\ UNCHANGED chat)
  /\ Leave("cleanup", "answer")
  /\ UNCHANGED <<mode, loopVars, toolVars, session, mcpVars>>

(***************************************************************************)
(* execute_js_tool: the flag and the result are reset, the tool's function *)
(* is called and its promise awaited, and the flag is polled whenever the  *)
(* runtime is idle, which it is not while a promise waits for the host.    *)
(***************************************************************************)

\* A wrong start: the result of the tool before is left in place.
StartToolUnreset ==
  /\ phase = "tool"
  /\ todo # <<>>
  /\ ran' = ran + 1
  /\ polls' = 0
  /\ IF Head(todo) \in Asking \cup Deferring
       THEN done' = FALSE /\ UNCHANGED <<value, late>>
       ELSE done' = TRUE /\ value' = ran' /\ UNCHANGED late
  /\ call' = [c \in Call |-> [pc |-> "idle", id |-> NoId, got |-> NoId]]
  /\ phase' = "poll"
  /\ UNCHANGED <<mode, loopVars, todo, results, outcome, serverVars>>
  /\ UNCHANGED <<nextId, pending, wire, lines, child>>

\* A tool that only computes, a tool that throws, an unknown tool and activate_skill
\* are done at once.  Its code may also resolve a promise that was given up, whose
\* continuation runs after the tool's own and sets flag and result again.
StartTool ==
  /\ phase = "tool"
  /\ todo # <<>>
  /\ ran' = ran + 1
  /\ polls' = 0
  /\ \E of \in late \cup {0} :
       /\ late' = late \ {of}
       /\ IF Head(todo) \in Asking \cup Deferring
            THEN done' = (of # 0) /\ value' = of
            ELSE done' = TRUE /\ value' = IF of # 0 THEN of ELSE ran'
  /\ call' = [c \in Call |-> [pc |-> "idle", id |-> NoId, got |-> NoId]]
  /\ phase' = "poll"
  /\ UNCHANGED <<mode, loopVars, todo, results, outcome, serverVars>>
  /\ UNCHANGED <<nextId, pending, wire, lines, child>>

\* The promise of an asking tool makes its calls, all at once, ...
ToolCalls ==
  /\ phase = "poll"
  /\ Head(todo) \in Asking
  /\ \E c \in Call \ {Hello} : BeginCall(c)
  /\ UNCHANGED agentVars

\* The calls are over; a call for which MaxId leaves no id is not made.
CallsOver ==
  \A c \in Call \ {Hello} : call[c].pc \in Finished \/ (call[c].pc = "idle" /\ nextId \notin Id)

\* ... and is resolved or rejected when they are over.
ToolSettles ==
  /\ phase = "poll"
  /\ Head(todo) \in Asking
  /\ CallsOver
  /\ value # ran
  /\ done' = TRUE
  /\ value' = ran
  /\ UNCHANGED <<phase, mode, loopVars, todo, results, ran, late, polls, outcome, serverVars, mcpVars>>

\* js.wait_idle() returns: no future is left that could run.
JsIdle == Head(todo) \in Asking => value = ran

\* A wrong poll: there is no limit to the polls.
PollForEver ==
  /\ phase = "poll"
  /\ JsIdle
  /\ ~done
  /\ polls' = 0
  /\ UNCHANGED <<phase, mode, loopVars, todo, results, ran, done, value, late, outcome, serverVars, mcpVars>>

\* One poll that finds the flag not set.
PollAgain ==
  /\ phase = "poll"
  /\ JsIdle
  /\ ~done
  /\ polls < MaxPolls
  /\ polls' = polls + 1
  /\ UNCHANGED <<phase, mode, loopVars, todo, results, ran, done, value, late, outcome, serverVars, mcpVars>>

\* A wrong end of a tool call: the model is told after each call.
CollectOne ==
  /\ phase = "poll"
  /\ JsIdle
  /\ done \/ polls = MaxPolls
  /\ late' = IF Head(todo) \in Deferring THEN late \cup {ran} ELSE late
  /\ results' = Append(results, [tool |-> Head(todo), call |-> ran, value |-> value])
  /\ todo' = <<>>
  /\ phase' = "turn"
  /\ turn' = turn + 1
  /\ history' = Append(history, [role |-> "user", results |-> results'])
  /\ UNCHANGED <<mode, maxTurns, complete, ran, done, value, polls, outcome, serverVars, mcpVars>>

(***************************************************************************)
(* The result is read, null as "OK", and after the turn's last tool call   *)
(* all results go to the model as one message.  A result of more than 2048 *)
(* bytes is cut for the event inside a character: the run panics.          *)
(***************************************************************************)
Collect ==
  /\ phase = "poll"
  /\ JsIdle
  /\ done \/ polls = MaxPolls
  /\ late' = IF Head(todo) \in Deferring THEN late \cup {ran} ELSE late
  /\ results' = Append(results, [tool |-> Head(todo), call |-> ran, value |-> value])
  /\ todo' = Tail(todo)
  /\ IF todo' # <<>>
       THEN phase' = "tool" /\ UNCHANGED <<turn, history>>
       ELSE /\ phase' = "turn"
            /\ turn' = turn + 1
            /\ history' = Append(history, [role |-> "user", results |-> results'])
  /\ UNCHANGED <<mode, maxTurns, complete, ran, done, value, polls, outcome, serverVars, mcpVars>>

Panic ==
  /\ Faulty
  /\ phase = "poll"
  /\ JsIdle
  /\ done
  /\ Leave("ended", "panic")
  /\ UNCHANGED <<mode, loopVars, toolVars, serverVars, mcpVars>>

Interrupt ==
  /\ Faulty
  /\ phase \in Running
  /\ Leave("cleanup", "error")
  /\ UNCHANGED <<mode, loopVars, toolVars, serverVars, mcpVars>>

\* A wrong clean-up: the mode is looked up in the manifest, which declares no session.
CleanUpDeclared ==
  /\ phase = "cleanup"
  /\ phase' = "ended"
  /\ session' = [session EXCEPT !.deleting = mode # "fresh" /\ session.there]
  /\ UNCHANGED <<mode, loopVars, toolVars, outcome, chat, mcpVars>>

\* cleanup_fresh_session: delete_state accepts the deletion of a session the server
\* knows, and answers 404, which is as good, for one it does not know.
CleanUp ==
  /\ phase = "cleanup"
  /\ phase' = "ended"
  /\ session' = [session EXCEPT !.deleting = mode = "fresh" /\ session.there]
  /\ UNCHANGED <<mode, loopVars, toolVars, outcome, chat, mcpVars>>

\* The engine gives the waiting request a slot and registers its session, ...
ServerSchedules ==
  /\ chat = "queued"
  /\ chat' = "running"
  /\ session' = [session EXCEPT !.there = TRUE]
  /\ UNCHANGED <<phase, mode, loopVars, toolVars, outcome, mcpVars>>

\* ... finishes one nobody waits for any more, ...
ServerFinishes ==
  /\ chat = "running"
  /\ phase \in {"cleanup", "ended"}
  /\ chat' = "none"
  /\ UNCHANGED <<phase, mode, loopVars, toolVars, outcome, session, mcpVars>>

\* ... and carries out an accepted deletion, with the slot of a running request.
ServerDeletes ==
  /\ session.deleting
  /\ session' = [there |-> FALSE, deleting |-> FALSE]
  /\ chat' = IF chat = "running" THEN "none" ELSE chat
  /\ UNCHANGED <<phase, mode, loopVars, toolVars, outcome, mcpVars>>

Loop ==
  \/ Check \/ Greet \/ SetUp \/ Ask \/ AskFails \/ Reply \/ LastReply
  \/ StartTool \/ ToolCalls \/ ToolSettles \/ PollAgain \/ Collect \/ CleanUp

Server == ServerSchedules \/ ServerFinishes \/ ServerDeletes

Client == (\E c \in Call : McpStep(c)) \/ Read

Terminated ==
  /\ phase = "ended"
  /\ UNCHANGED vars

Next ==
  \/ Loop \/ Panic \/ Interrupt
  \/ Server
  \/ (Client \/ Child) /\ UNCHANGED agentVars
  \/ Terminated

Spec == Init /\ [][Next]_vars

(***************************************************************************)
(* Fairness: the runtime polls its tasks, the server gets to every request *)
(* and deletion, and a child that is up answers what it has read.          *)
(***************************************************************************)
Fairness ==
  /\ WF_vars(Loop)
  /\ WF_vars(Server)
  /\ WF_vars(Read /\ UNCHANGED agentVars)
  /\ \A c \in Call : WF_vars(McpStep(c) /\ UNCHANGED agentVars)
  /\ \A i \in Id : SF_vars(ChildAnswers(i) /\ UNCHANGED agentVars)

FairSpec == Spec /\ Fairness

(***************************************************************************)
(* Properties.                                                             *)
(***************************************************************************)

Rounds == {i \in 1 .. Len(history) : history[i].role = "assistant" /\ CallsIn(history[i].text) # <<>>}

\* What the model sees of its tool calls: whenever a request goes out, every reply of
\* the model that called tools is followed by one message with the results of all of
\* its calls, in their order.
ResultsComplete ==
  phase \in {"asked", "asked_last"} =>
    \A i \in Rounds :
      LET answer == history[i + 1].results
          calls == CallsIn(history[i].text)
      IN  /\ Len(answer) = Len(calls)
          /\ \A k \in 1 .. Len(calls) : answer[k].tool = calls[k]

Told == UNION {Range(history[i].results) : i \in {j \in 1 .. Len(history) : history[j].role = "user"}}

Reported == Told \cup Range(results)

\* A result reported for a tool call is its own, or "OK" (0) when its promise was given
\* up, or that of an earlier call that was given up and has resolved meanwhile: the
\* globals all calls share never hand on a result that has been reported already.
ResultsAreOwn ==
  /\ \A r \in Reported :
       r.value \in {0, r.call} \/ \E q \in Reported : q.call = r.value /\ q.tool \in Deferring
  /\ \A q, r \in Reported : q.value = r.value => q = r \/ q.value = 0

\* No tool runs because the model only thought of calling it.
ThoughtsAreNotActedOn ==
  \A i \in Rounds : \A k \in 1 .. Len(CallsIn(history[i].text)) :
    CallsIn(history[i].text)[k] \in SpokenTools(history[i].text)

\* When a run that has completed is over and the server has nothing left to do, no
\* session of the run's own is left (cleanup_fresh_session).
CompletedRunLeavesNoSession ==
  mode = "fresh" /\ phase = "ended" /\ complete /\ ~session.deleting => ~session.there

\* Every run ends, whatever its tools' promises do, if the server gets to each request and
\* the child of the MCP client stays up and answers what it has read: a call that waits for
\* it is never given up by the client.
RunEnds == [](child = "up") => <>(phase = "ended")

\* The session of a run with a fresh session is deleted at the end of the run.
SessionDeletedAtRunEnd ==
  mode = "fresh" /\ phase = "ended" /\ outcome # "panic" /\ chat = "none" /\ ~session.deleting
    => ~session.there

\* A request whose server has closed is told so: every call of the client returns.
ClosedIsReported == \A c \in Call : call[c].pc = "waiting" ~> call[c].pc \in Finished \cup {"idle"}

\* A run that answers has said so: agent.complete is emitted with the final answer.
CompleteAnnounced == phase = "ended" /\ outcome = "answer" => complete
=============================================================================
