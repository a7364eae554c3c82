-------------------------------- MODULE Team --------------------------------
(***************************************************************************)
(* The command `agent team` of cli/agent.rs: a coordinator plans the tasks *)
(* with the model, the loop of Workflow runs each in a thread of its own   *)
(* as an agent with the team's memory and messages, a last request sums    *)
(* the results up, and the session all agents share is to be deleted.  Of  *)
(* the agents' servers it has what matters to that session.                *)
(***************************************************************************)
EXTENDS Workflow, Filtering, Functions

CONSTANTS
  Agent,        \* names of the team's agents
  Home,         \* the backend of the coordinator
  BackendOf,    \* the backend each agent's agent.yaml names
  Scripted,     \* agents whose mode is not agentic
  MaxTurns,     \* max_turns
  Addressed,    \* bound: to whom messages are sent, agents or "*", which is all
  MaxMessages   \* bound: messages on the bus

ASSUME AddressedAssumption == Addressed \subseteq Agent \cup {"*"}

VARIABLES
  command,   \* where the command is
  assignee,  \* Task::assignee; a name the team does not have is "nobody"
  at,        \* where the run of each task's agent is
  turns,     \* turns each agent has taken
  output,    \* what the agent returned: "plain", or "wide" text, which cannot be cut at byte 200
  bus,       \* MessageBus::messages
  nextId,    \* MessageBus::next_id
  readBy,    \* MessageBus::read_by
  got,       \* what each agent has received, in order
  seenUpto,  \* how long the bus was when each agent last received
  wideKept,  \* whether SharedMemory has a value that cannot be cut at byte 200
  queued,    \* requests that servers have and that have no slot yet: <<task, turn>>
  late,      \* those of them, of any time, that their agent does not wait for any more
  sessions,  \* the team's session where a backend has it: [at, by], by the request that
             \* registered it
  deletion   \* what became of the DELETE: "unsent", "lost", "unknown" when there was no
             \* session, "pending" as the session's action, or "done"

busVars == <<bus, nextId, readBy, got, seenUpto>>
runVars == <<at, turns, output>>
serverVars == <<queued, late, sessions, deletion>>
teamVars == <<command, assignee, runVars, busVars, wideKept, serverVars>>

TeamInit ==
  /\ Init
  /\ command = "plan"
  /\ assignee = [t \in Task |-> "nobody"]
  /\ at = [t \in Task |-> "new"]
  /\ turns = [t \in Task |-> 0]
  /\ output = [t \in Task |-> "plain"]
  /\ bus = <<>> /\ nextId = 0
  /\ readBy = [a \in Agent |-> {}]
  /\ got = [a \in Agent |-> <<>>]
  /\ seenUpto = [a \in Agent |-> 0]
  /\ wideKept = FALSE
  /\ queued = {} /\ late = {} /\ sessions = {} /\ deletion = "unsent"

\* Half a character at the end of the preview: SharedMemory::summary panics.
SummaryPanics == wideKept

\* SharedMemory::set under a new key, or one whose value goes: the last wide one or not.
Stores(v) == wideKept' \in {v = "wide", wideKept \/ v = "wide"}

(***************************************************************************)
(* MessageBus.  Every operation holds the lock of the messages to its end. *)
(***************************************************************************)
For(a) == {m \in Range(bus) : m.to \in {a, "*"} /\ m.from # a}

\* A wrong send: the next message gets the same id.
SendKeepingId(a, to) ==
  /\ Len(bus) < MaxMessages
  /\ bus' = Append(bus, [id |-> nextId, from |-> a, to |-> to, n |-> Len(bus) + 1])
  /\ UNCHANGED <<nextId, readBy, got, seenUpto>>

\* send and broadcast.
SendTo(a, to) ==
  /\ Len(bus) < MaxMessages
  /\ bus' = Append(bus, [id |-> nextId, from |-> a, to |-> to, n |-> Len(bus) + 1])
  /\ nextId' = nextId + 1
  /\ UNCHANGED <<readBy, got, seenUpto>>

\* receive.
Receive(a) ==
  LET new == Chosen(bus, {m \in For(a) : m.id \notin readBy[a]})
  IN  /\ readBy' = [readBy EXCEPT ![a] = @ \cup {new[n].id : n \in DOMAIN new}]
      /\ got' = [got EXCEPT ![a] = @ \o new]
      /\ seenUpto' = [seenUpto EXCEPT ![a] = Len(bus)]
      /\ UNCHANGED <<bus, nextId>>

(***************************************************************************)
(* Planning.                                                               *)
(***************************************************************************)

\* parse_coordinator_tasks: the tasks and their assignees are the model's; the
\* dependencies are chosen as the queue loads.
Plan ==
  /\ command = "plan"
  /\ \/ command' = "run" /\ assignee' \in [Task -> Agent \cup {"nobody"}]
     \/ command' = "failed" /\ UNCHANGED assignee
  /\ UNCHANGED <<vars, runVars, busVars, wideKept, serverVars>>

(***************************************************************************)
(* run_agent_with_team, in the thread of task t.                           *)
(***************************************************************************)
Running(t) == command = "run" /\ thread[t] = "running"

Ends(t, o) == EndThread(t) /\ thread'[t] = o

\* The thread cannot build its runtime.
NoRuntime(t) ==
  /\ command = "run" /\ thread[t] = "spawned"
  /\ Ends(t, "panic")
  /\ UNCHANGED teamVars

\* The agent is looked up and the server asked for its health; then the messages are
\* received and the memory is summed up for the prompt.
Begin(t) ==
  /\ Running(t) /\ at[t] = "new"
  /\ \/ /\ Ends(t, "error")
        /\ UNCHANGED <<at, busVars>>
     \/ /\ assignee[t] \in Agent
        /\ Receive(assignee[t])
        /\ IF SummaryPanics THEN Ends(t, "panic") /\ UNCHANGED at
           ELSE at' = [at EXCEPT ![t] = "turn"] /\ UNCHANGED vars
  /\ UNCHANGED <<command, assignee, turns, output, wideKept, serverVars>>

\* A script or a tool uses the team, in its first code or in any turn: it sends to one
\* or to all, ...
Says(t) ==
  /\ Running(t) /\ at[t] = "turn"
  /\ \E to \in Addressed : SendTo(assignee[t], to)
  /\ UNCHANGED <<vars, command, assignee, runVars, wideKept, serverVars>>

\* ... receives, ...
Hears(t) ==
  /\ Running(t) /\ at[t] = "turn"
  /\ Receive(assignee[t])
  /\ UNCHANGED <<vars, command, assignee, runVars, wideKept, serverVars>>

\* ... or writes to the memory.
Remembers(t) ==
  /\ Running(t) /\ at[t] = "turn"
  /\ \E v \in {"plain", "wide"} : Stores(v)
  /\ UNCHANGED <<vars, command, assignee, runVars, busVars, serverVars>>

\* The request of t's agent that it waits for.
Request(t) == <<t, turns[t]>>

\* A turn of the loop, or a script, asks the agent's backend under the team's session.
Ask(t) ==
  /\ Running(t) /\ at[t] = "turn" /\ turns[t] < MaxTurns
  /\ at' = [at EXCEPT ![t] = "asked"]
  /\ turns' = [turns EXCEPT ![t] = @ + 1]
  /\ queued' = queued \cup {<<t, turns[t] + 1>>}
  /\ UNCHANGED <<vars, command, assignee, output, busVars, wideKept, late, sessions, deletion>>

\* The reply of a request that has had a slot: it calls tools, or is the result, or an
\* error.  A script goes on whatever its promise brings.
Answered(t) ==
  /\ Running(t) /\ at[t] = "asked" /\ Request(t) \notin queued
  /\ \/ at' = [at EXCEPT ![t] = "turn"] /\ UNCHANGED <<vars, output>>
     \/ /\ assignee[t] \notin Scripted
        /\ Ends(t, "ok")
        /\ \E v \in {"plain", "wide"} : output' = [output EXCEPT ![t] = v]
        /\ UNCHANGED at
     \/ assignee[t] \notin Scripted /\ Ends(t, "error") /\ UNCHANGED <<at, output>>
  /\ UNCHANGED <<command, assignee, turns, busVars, wideKept, serverVars>>

\* The request does not arrive or is refused; or its client's time is up, or the connection
\* breaks, and the server keeps it.
Fails(t) ==
  /\ Running(t) /\ at[t] = "asked"
  /\ IF assignee[t] \in Scripted THEN at' = [at EXCEPT ![t] = "turn"] /\ UNCHANGED vars
     ELSE Ends(t, "error") /\ UNCHANGED at
  /\ queued' \in {queued, queued \ {Request(t)}}
  /\ late' = late \cup ({Request(t)} \cap queued')
  /\ UNCHANGED <<command, assignee, turns, output, busVars, wideKept, sessions, deletion>>

\* No turn is left, which is an empty result; or the script fails before the loop.
OutOfTurns(t) ==
  /\ Running(t) /\ at[t] = "turn" /\ assignee[t] \notin Scripted
  /\ \/ turns[t] = MaxTurns /\ Ends(t, "ok")
     \/ turns[t] = 0 /\ Ends(t, "error")
  /\ UNCHANGED teamVars

\* The module of an agent that is not agentic returns or fails when it likes.
ScriptEnds(t) ==
  /\ Running(t) /\ at[t] = "turn" /\ assignee[t] \in Scripted
  /\ \/ Ends(t, "ok") /\ \E v \in {"plain", "wide"} : output' = [output EXCEPT ![t] = v]
     \/ Ends(t, "error") /\ UNCHANGED output
  /\ UNCHANGED <<command, assignee, at, turns, busVars, wideKept, serverVars>>

AgentOf(t) ==
  \/ NoRuntime(t) \/ ScriptEnds(t)
  \/ Begin(t) \/ Says(t) \/ Hears(t) \/ Remembers(t)
  \/ Ask(t) \/ Answered(t) \/ Fails(t) \/ OutOfTurns(t)

(***************************************************************************)
(* The servers of the agents, as far as they keep the team's session.      *)
(***************************************************************************)
ServerOf(r) == BackendOf[assignee[r[1]]]

HasSession(b) == \E s \in sessions : s.at = b

\* schedule_requests: a request gets a slot and its session is registered, whether or not
\* anybody waits; one that nobody waits for may also be refused.
Serve(r) ==
  /\ queued' = queued \ {r}
  /\ \/ sessions' = IF HasSession(ServerOf(r)) THEN sessions
                     ELSE sessions \cup {[at |-> ServerOf(r), by |-> r]}
     \/ r \in late /\ UNCHANGED sessions
  /\ UNCHANGED <<vars, command, assignee, runVars, busVars, wideKept, late, deletion>>

\* Action::Delete of process_state_actions.
DeleteSession ==
  /\ deletion = "pending"
  /\ deletion' = "done"
  /\ sessions' = {s \in sessions : s.at # Home}
  /\ UNCHANGED <<vars, command, assignee, runVars, busVars, wideKept, queued, late>>

Servers == DeleteSession \/ \E r \in queued : Serve(r)

(***************************************************************************)
(* The loop, which is the one of run_workflow_v2.                          *)
(***************************************************************************)

\* A wrong loop: it does not wait for the threads of its last wave.
LeaveUnjoined == command = "run" /\ phase \in {"join", "done"}

\* The loop is left.
LoopLeft == command = "run" /\ phase = "done"

Waves ==
  /\ command = "run"
  /\ \/ /\ Inspect \/ \E t \in Task : LoadTask(t) \/ Launch(t) \/ Acquire(t) \/ JoinFailure(t)
        /\ UNCHANGED wideKept
     \/ \E t \in Task : JoinResult(t) /\ Stores(output[t])
  /\ UNCHANGED <<command, assignee, runVars, busVars, serverVars>>

LoadRefused ==
  /\ command = "run" /\ phase = "rejected"
  /\ command' = "failed"
  /\ UNCHANGED <<vars, assignee, runVars, busVars, wideKept, serverVars>>

\* build_synthesis_prompt, when no task has failed; the model's answer is only printed.
Synthesize ==
  /\ LoopLeft
  /\ command' = IF Success /\ SummaryPanics THEN "panicked" ELSE "clean"
  /\ UNCHANGED <<vars, assignee, runVars, busVars, wideKept, serverVars>>

\* delete_state: the deletion becomes the pending action of a session that is there.
Accepted == IF HasSession(Home) THEN "pending" ELSE "unknown"

\* DELETE /state/team-... is sent to the coordinator's backend, if one can be made out;
\* what becomes of it is ignored.
CleanUp ==
  /\ command = "clean"
  /\ command' = "completed"
  /\ deletion' \in {"lost", Accepted}
  /\ UNCHANGED <<vars, assignee, runVars, busVars, wideKept, queued, late, sessions>>

Main == Plan \/ Waves \/ LoadRefused \/ Synthesize \/ CleanUp

TeamNext == Main \/ Servers \/ \E t \in Task : AgentOf(t)

TeamSpec == TeamInit /\ [][TeamNext]_<<vars, teamVars>>

\* The semaphore is fair and the main thread runs; agents end, for turns are limited and an
\* agentic agent gives a request up after 300 s.  A script waits for its answer as long as
\* it takes: that a server gives every request a slot is an assumption.
TeamFairness ==
  /\ WF_<<vars, teamVars>>(Plan \/ LoadRefused \/ Synthesize \/ CleanUp)
  /\ WF_<<vars, teamVars>>(Waves)
  /\ WF_<<vars, teamVars>>(\E r \in queued : Serve(r))
  /\ \A t \in Task :
       WF_<<vars, teamVars>>(\/ Begin(t) \/ Ask(t) \/ Answered(t) \/ OutOfTurns(t) \/ ScriptEnds(t)
                             \/ assignee[t] \notin Scripted /\ Fails(t))

TeamFairSpec == TeamSpec /\ TeamFairness

(***************************************************************************)
(* Properties.                                                             *)
(***************************************************************************)
Over == command \in {"completed", "failed", "panicked"}

\* What an agent has received is exactly what others had sent to it, or to all, when it
\* last asked: each message once, in order, whichever of its threads asked.
InboxComplete ==
  \A a \in Agent : got[a] = Chosen(SubSeq(bus, 1, seenUpto[a]), For(a))

\* Once the command has completed none of its threads is alive, and when the coordinator's
\* server then holds the team's session, the DELETE was lost or waits for its turn, or the
\* session was registered again after it, by a request that its agent had given up while it
\* was queued.
LeftSessionHasCause ==
  command = "completed" =>
    /\ \A t \in Task : thread[t] \notin {"spawned", "running"}
    /\ \A s \in sessions : s.at = Home => deletion \in {"lost", "pending"} \/ s.by \in late

\* The command ends, whatever its agents do, if their servers serve them.
TeamEnds == <>Over

\* The team's session is "fresh, deleted after team completes".  The program does not keep
\* this: see LeftSessionHasCause; and nothing is deleted at the other agents' servers.
TeamSessionDeleted == Over => sessions = {}
=============================================================================
