------------------------------ MODULE Workflow ------------------------------
(***************************************************************************)
(* run_workflow_v2 of core/orchestrator/runner.rs, whose loop the team     *)
(* command of cli/agent.rs repeats: load the tasks, then in waves start    *)
(* one OS thread for every ready task, let at most Permits of them run at  *)
(* a time, and join all of the wave, in the order it was started, before   *)
(* the queue is looked at again.                                           *)
(***************************************************************************)
EXTENDS TaskQueue

CONSTANT Permits    \* permits of the semaphore the task threads share

ASSUME PermitAssumption == Permits \in Nat \ {0}

VARIABLES phase,    \* where the coordinating thread is
          wave,     \* ready tasks of this wave not started yet
          handles,  \* threads started in this wave and not joined yet
          thread,   \* what the thread of each task is doing
          memory    \* tasks whose result is in SharedMemory

coordVars == <<phase, wave, handles, memory>>
vars == <<deps, status, phase, wave, handles, thread, memory>>

Phase == {"load", "rejected", "loop", "launch", "join", "done"}
ThreadState == {"none", "spawned", "running", "ok", "error", "panic"}
Ended == {"ok", "error", "panic"}

\* t is the first of the tasks S in insertion order.
IsFirst(t, S) == t \in S /\ \A u \in S : t <= u

RunningThreads == {t \in Task : thread[t] = "running"}

Init ==
  /\ QueueInit
  /\ phase = "load"
  /\ wave = {}
  /\ handles = {}
  /\ thread = [t \in Task |-> "none"]
  /\ memory = {}

\* One turn of load_tasks: the next task of the file is added, or the whole
\* workflow is refused because the graph it closes has a cycle.
LoadTask(t) ==
  /\ phase = "load"
  /\ IsFirst(t, Task \ Loaded)
  /\ \E D \in SUBSET (Task \cup {Missing}) :
       \/ /\ Add(t, D)
          /\ phase' = IF Loaded \cup {t} = Task THEN "loop" ELSE "load"
       \/ /\ AddRefused(t, D)
          /\ phase' = "rejected"
          /\ UNCHANGED queueVars
  /\ UNCHANGED <<wave, handles, thread, memory>>

\* The head of the loop: stop when every task is terminal or nothing is ready,
\* otherwise take the ready tasks as the next wave.
Inspect ==
  /\ phase = "loop"
  /\ \/ /\ IsDone \/ (Ready = {} /\ ~HasInProgress)
        /\ phase' = "done"
        /\ UNCHANGED wave
     \/ /\ ~IsDone
        /\ Ready # {}
        /\ phase' = "launch"
        /\ wave' = Ready
  /\ UNCHANGED <<queueVars, handles, thread, memory>>

\* One turn of the spawning loop: the queue marks the task, a thread is spawned.
Launch(t) ==
  /\ phase = "launch"
  /\ IsFirst(t, wave)
  /\ Start(t)
  /\ wave' = wave \ {t}
  /\ handles' = handles \cup {t}
  /\ thread' = [thread EXCEPT ![t] = "spawned"]
  /\ phase' = IF wave' = {} THEN "join" ELSE "launch"
  /\ UNCHANGED memory

\* The thread of t gets a permit of the semaphore and runs the agent ...
Acquire(t) ==
  /\ thread[t] = "spawned"
  /\ Cardinality(RunningThreads) < Permits
  /\ thread' = [thread EXCEPT ![t] = "running"]
  /\ UNCHANGED <<queueVars, coordVars>>

\* ... and ends with a result, an error, or a panic; building its runtime can
\* panic before it has a permit.
EndThread(t) ==
  /\ \/ thread[t] = "running" /\ \E o \in Ended : thread' = [thread EXCEPT ![t] = o]
     \/ thread[t] = "spawned" /\ thread' = [thread EXCEPT ![t] = "panic"]
  /\ UNCHANGED <<queueVars, coordVars>>

\* A wrong join: the result is stored only after the queue has moved on.
JoinResultUnstored(t) ==
  /\ phase = "join"
  /\ IsFirst(t, handles)
  /\ thread[t] = "ok"
  /\ Complete(t)
  /\ handles' = handles \ {t}
  /\ phase' = IF handles' = {} THEN "loop" ELSE "join"
  /\ UNCHANGED <<wave, thread, memory>>

\* A wrong join: an agent's error is taken for an interruption and the task is queued again.
JoinFailureRetries(t) ==
  /\ phase = "join"
  /\ IsFirst(t, handles)
  /\ thread[t] \in {"error", "panic"}
  /\ status' = [status EXCEPT ![t] = "pending"]
  /\ handles' = handles \ {t}
  /\ phase' = IF handles' = {} THEN "loop" ELSE "join"
  /\ UNCHANGED <<deps, wave, thread, memory>>

\* handle.join() of the oldest handle returned a result: it is stored in the
\* shared memory, then the queue completes the task.
JoinResult(t) ==
  /\ phase = "join"
  /\ IsFirst(t, handles)
  /\ thread[t] = "ok"
  /\ memory' = memory \cup {t}
  /\ Complete(t)
  /\ handles' = handles \ {t}
  /\ phase' = IF handles' = {} THEN "loop" ELSE "join"
  /\ UNCHANGED <<wave, thread>>

\* handle.join() returned the agent's error or the thread's panic.
JoinFailure(t) ==
  /\ phase = "join"
  /\ IsFirst(t, handles)
  /\ thread[t] \in {"error", "panic"}
  /\ Fail(t)
  /\ handles' = handles \ {t}
  /\ phase' = IF handles' = {} THEN "loop" ELSE "join"
  /\ UNCHANGED <<wave, thread, memory>>

\* The runner has returned: its result is Success below, or the load error.
Returned ==
  /\ phase \in {"done", "rejected"}
  /\ UNCHANGED vars

Coordinator ==
  \/ Inspect
  \/ \E t \in Task : LoadTask(t) \/ Launch(t) \/ JoinResult(t) \/ JoinFailure(t)

Thread(t) == Acquire(t) \/ EndThread(t)

Next == Coordinator \/ (\E t \in Task : Thread(t)) \/ Returned

Spec == Init /\ [][Next]_vars

(***************************************************************************)
(* Fairness: the coordinating thread is never descheduled for ever, a      *)
(* started agent ends, and the semaphore is fair: each waiter gets its     *)
(* permit when permits keep being returned.                                *)
(***************************************************************************)
Fairness ==
  /\ WF_vars(Coordinator)
  /\ \A t \in Task : WF_vars(Acquire(t)) /\ WF_vars(EndThread(t))

FairSpec == Spec /\ Fairness

(***************************************************************************)
(* Properties.                                                             *)
(***************************************************************************)

\* TypeOK: every variable has its type.
TypeOK ==
  /\ QueueTypeOK
  /\ phase \in Phase
  /\ wave \subseteq Task
  /\ handles \subseteq Task
  /\ thread \in [Task -> ThreadState]
  /\ memory \subseteq Task

\* While an agent runs, the results of everything it depends on are already in the
\* shared memory its prompt is built from: join stores a result before the queue
\* promotes the dependents.
ResultsBeforeDependents ==
  \A t \in RunningThreads : deps[t] \subseteq memory

\* When the runner returns it has not given up on anything that could run: what is
\* neither completed nor failed waits, directly or through others, for a
\* dependency that no task of the file has.
StopsOnlyWhenStuck ==
  phase = "done" =>
    \A t \in Task :
      \/ status[t] \in Terminal
      \/ status[t] = "blocked" /\ \E d \in deps[t] : d = Missing \/ status[d] = "blocked"

\* A failure is never blamed on a task without cause: a failed task's own agent
\* failed, or something it depends on failed.
FailureHasCause ==
  \A t \in Having("failed") :
    thread[t] \in {"error", "panic"} \/ deps[t] \cap Having("failed") # {}

\* A task that completed or failed keeps that status, whatever its siblings in the
\* same wave do afterwards.
TerminalIsFinal ==
  [][\A t \in Task : status[t] \in Terminal => status'[t] = status[t]]_vars

\* Every workflow run ends: it is refused, or the loop is left.
Terminates == <>(phase \in {"done", "rejected"})

\* The runner implements the abstract run: a task thread's outcome becomes visible
\* when it is joined.
AbstractOf(st, th) ==
  CASE st = "absent" -> "unknown"
    [] st \in {"blocked", "pending"} -> "todo"
    [] st = "in_progress" -> "running"
    [] st = "completed" -> "ok"
    [] st = "failed" -> IF th = "none" THEN "skipped" ELSE "failed"

AbstractState == [t \in Task |-> AbstractOf(status[t], thread[t])]

Dag == INSTANCE DagRun WITH needs <- deps, state <- AbstractState

ImplementsDagRun == Dag!Spec

\* What the runner reports as "success".
Success == Having("failed") = {}

\* "Workflow completed successfully." is printed, and success reported, only for a
\* workflow all of whose tasks have completed.
SuccessMeansCompleted ==
  phase = "done" /\ Success => \A t \in Task : status[t] = "completed"
=============================================================================
