--------------------------- MODULE WorkflowProofs ---------------------------
(***************************************************************************)
(* Proofs about Workflow, for every number of tasks and permits and every  *)
(* dependency graph, and, as a team's loop is the same, about Team.        *)
(*                                                                         *)
(* IInv is the inductive invariant of Workflow: the dependency properties  *)
(* of the queue alone are not inductive, because what the cascade of       *)
(* fail() may reach depends on what pending and blocked mean, and what     *)
(* join may do depends on which tasks have a thread.                       *)
(***************************************************************************)
EXTENDS Team, FilteringProofs

\* Before the loop nothing has been started; in the loop every task is loaded.
LoadInv ==
  /\ phase = "load" => \A t \in Task : status[t] \in {"absent", "blocked", "pending"}
  /\ phase \notin {"load", "rejected"} => Loaded = Task

\* What pending and blocked mean.
PendingIsReady == \A t \in Having("pending") : deps[t] \subseteq Having("completed")
BlockedWaits == \A t \in Having("blocked") : ~(deps[t] \subseteq Having("completed"))

\* What the coordinating thread knows of the queue.
CoordInv ==
  /\ wave \subseteq Having("pending")
  /\ phase # "launch" => wave = {}
  /\ handles = Having("in_progress")
  /\ phase = "done" => Having("pending") = {} /\ Having("in_progress") = {}

\* A thread exists for the tasks that were started, and for those only.
ThreadInv ==
  \A t \in Task :
    /\ status[t] \in {"absent", "blocked", "pending"} => thread[t] = "none"
    /\ status[t] \in {"in_progress", "completed"} => thread[t] # "none"
    /\ thread[t] \in {"spawned", "running"} => status[t] = "in_progress"

\* The shared memory holds the results of the completed tasks.
MemoryInv == memory = Having("completed")

IInv ==
  /\ TypeOK
  /\ LoadInv
  /\ PendingIsReady
  /\ BlockedWaits
  /\ DependenciesFirst
  /\ FailureReachesDependents
  /\ CoordInv
  /\ ThreadInv
  /\ MemoryInv
  /\ FailureHasCause

(***************************************************************************)
(* The cascade.                                                            *)
(***************************************************************************)

\* The set cascade_failures computes is closed under the step of its search.
LEMMA CascadeClosed == \A t \in Task : ClosedUnderFailure(Cascade(t), t)
<1> SUFFICES ASSUME NEW t \in Task,
                    NEW u \in Loaded \ {t},
                    status[u] \notin Terminal,
                    deps[u] \cap (Cascade(t) \cup {t}) # {},
                    NEW S \in SUBSET Task, ClosedUnderFailure(S, t)
             PROVE  u \in S
  BY DEF ClosedUnderFailure, Cascade, Loaded
<1>1. Cascade(t) \subseteq S
  BY DEF Cascade
<1>2. deps[u] \cap (S \cup {t}) # {}
  BY <1>1
<1> QED
  BY <1>2 DEF ClosedUnderFailure

\* ... and every member of it is there because a dependency of it is.
LEMMA CascadeCaused ==
  \A t \in Task : \A u \in Cascade(t) : deps[u] \cap (Cascade(t) \cup {t}) # {}
<1> SUFFICES ASSUME NEW t \in Task
             PROVE  \A u \in Cascade(t) : deps[u] \cap (Cascade(t) \cup {t}) # {}
  OBVIOUS
<1> DEFINE S == {u \in Cascade(t) : deps[u] \cap (Cascade(t) \cup {t}) # {}}
<1>1. S \in SUBSET Task
  BY DEF Cascade
<1>2. ClosedUnderFailure(S, t)
  <2> SUFFICES ASSUME NEW u \in Loaded \ {t},
                      status[u] \notin Terminal,
                      deps[u] \cap (S \cup {t}) # {}
               PROVE  u \in S
    BY DEF ClosedUnderFailure
  <2>1. deps[u] \cap (Cascade(t) \cup {t}) # {}
    OBVIOUS
  <2>2. u \in Cascade(t)
    BY <2>1, CascadeClosed DEF ClosedUnderFailure
  <2> QED
    BY <2>1, <2>2
<1> QED
  BY <1>1, <1>2 DEF Cascade

\* In a queue whose pending and running tasks have all they depend on, the cascade
\* reaches blocked tasks only.
LEMMA CascadeIsBlocked ==
  ASSUME QueueTypeOK, PendingIsReady, DependenciesFirst,
         NEW t \in Task, status[t] = "in_progress"
  PROVE  Cascade(t) \subseteq Having("blocked")
<1>1. ClosedUnderFailure(Having("blocked"), t)
  <2> SUFFICES ASSUME NEW u \in Loaded \ {t},
                      status[u] \notin Terminal,
                      deps[u] \cap (Having("blocked") \cup {t}) # {}
               PROVE  status[u] = "blocked"
    BY DEF ClosedUnderFailure, Having, Loaded
  <2>1. status[u] \in {"blocked", "pending", "in_progress"}
    BY DEF QueueTypeOK, Status, Terminal, Loaded
  <2>2. ~(deps[u] \subseteq Having("completed"))
    BY DEF Having
  <2> QED
    BY <2>1, <2>2 DEF PendingIsReady, DependenciesFirst, Having, Loaded
<1> QED
  BY <1>1 DEF Cascade, Having

(***************************************************************************)
(* Every action preserves the invariant.                                   *)
(***************************************************************************)

\* Nothing is loaded at first.
LEMMA InitIInv == Init => IInv
BY TaskAssumption, PermitAssumption
   DEF Init, QueueInit, IInv, TypeOK, QueueTypeOK, Status, Phase, ThreadState, LoadInv,
       PendingIsReady, BlockedWaits, DependenciesFirst, FailureReachesDependents, CoordInv,
       ThreadInv, MemoryInv, FailureHasCause, Having, Loaded

\* A task added to the queue was absent, and nothing has started yet.
LEMMA LoadTaskIInv ==
  ASSUME IInv, NEW t \in Task, LoadTask(t)
  PROVE  IInv'
<1> USE DEF Having, Loaded
<1>1. /\ phase = "load"
      /\ status[t] = "absent"
      /\ UNCHANGED <<wave, handles, thread, memory>>
  BY DEF LoadTask, IsFirst
<1>2. CASE phase' = "rejected" /\ UNCHANGED queueVars
  BY <1>1, <1>2
     DEF IInv, queueVars, TypeOK, QueueTypeOK, Phase, LoadInv, PendingIsReady, BlockedWaits,
         DependenciesFirst, FailureReachesDependents, CoordInv, ThreadInv, MemoryInv, FailureHasCause
<1>3. ASSUME NEW D \in SUBSET (Task \cup {Missing}), Add(t, D),
             phase' = IF Loaded \cup {t} = Task THEN "loop" ELSE "load"
      PROVE  IInv'
  <2>1. /\ deps' = [deps EXCEPT ![t] = D]
        /\ status' = [status EXCEPT ![t] = IF D \subseteq Having("completed")
                                             THEN "pending" ELSE "blocked"]
    BY <1>3 DEF Add
  <2>2. /\ TypeOK'
        /\ status'[t] \in {"pending", "blocked"}
        /\ \A u \in Task \ {t} : status'[u] = status[u] /\ deps'[u] = deps[u]
    BY <2>1, <1>1, <1>3 DEF IInv, TypeOK, QueueTypeOK, Status, Phase
  <2>3. \A u \in Task : status'[u] \in {"absent", "blocked", "pending"}
    BY <2>2, <1>1 DEF IInv, LoadInv
  <2>4. Having("completed") = {} /\ Having("completed")' = {}
    BY <2>3, <1>1 DEF IInv, LoadInv
  <2>5. LoadInv'
    BY <2>2, <2>3, <1>3 DEF LoadInv
  <2>6. PendingIsReady' /\ BlockedWaits'
    BY <2>1, <2>2, <2>4 DEF IInv, PendingIsReady, BlockedWaits, TypeOK, QueueTypeOK
  <2>7. DependenciesFirst' /\ FailureReachesDependents' /\ FailureHasCause'
    BY <2>3 DEF DependenciesFirst, FailureReachesDependents, FailureHasCause
  <2>8. CoordInv' /\ MemoryInv' /\ ThreadInv'
    BY <2>2, <2>3, <2>4, <1>1, <1>3 DEF IInv, LoadInv, CoordInv, MemoryInv, ThreadInv
  <2> QED
    BY <2>2, <2>5, <2>6, <2>7, <2>8 DEF IInv
<1> QED
  BY <1>2, <1>3 DEF LoadTask

\* Looking at the queue changes the coordinator's place only.
LEMMA InspectIInv ==
  ASSUME IInv, Inspect
  PROVE  IInv'
<1>1. UNCHANGED <<queueVars, handles, thread, memory>> /\ phase = "loop"
  BY DEF Inspect
<1>2. CoordInv' /\ phase' \in {"launch", "done"} /\ wave' \subseteq Task
  BY DEF IInv, CoordInv, Inspect, queueVars, Ready, HasInProgress, IsDone, Having, Loaded, TypeOK
<1> QED
  BY <1>1, <1>2
     DEF IInv, queueVars, TypeOK, QueueTypeOK, Phase, LoadInv, PendingIsReady, BlockedWaits,
         DependenciesFirst, FailureReachesDependents, ThreadInv, MemoryInv, FailureHasCause,
         Having, Loaded

\* The launched task was pending, so all it depends on has completed.
LEMMA LaunchIInv ==
  ASSUME IInv, NEW t \in Task, Launch(t)
  PROVE  IInv'
<1> USE DEF Having, Loaded
<1>1. /\ phase = "launch" /\ t \in wave
      /\ status' = [status EXCEPT ![t] = "in_progress"]
      /\ thread' = [thread EXCEPT ![t] = "spawned"]
      /\ wave' = wave \ {t} /\ handles' = handles \cup {t}
      /\ phase' = IF wave' = {} THEN "join" ELSE "launch"
      /\ UNCHANGED <<deps, memory>>
  BY DEF Launch, IsFirst, Start
<1>2. status[t] = "pending"
  BY <1>1 DEF IInv, CoordInv
<1>3. /\ TypeOK'
      /\ \A u \in Task \ {t} : status'[u] = status[u] /\ thread'[u] = thread[u]
      /\ status'[t] = "in_progress" /\ thread'[t] = "spawned"
  BY <1>1 DEF IInv, TypeOK, QueueTypeOK, Status, Phase, ThreadState
<1>4. LoadInv' /\ CoordInv' /\ ThreadInv' /\ MemoryInv'
  BY <1>1, <1>2, <1>3 DEF IInv, LoadInv, CoordInv, ThreadInv, MemoryInv, TypeOK
<1>5. PendingIsReady' /\ BlockedWaits' /\ DependenciesFirst'
  BY <1>1, <1>2, <1>3 DEF IInv, PendingIsReady, BlockedWaits, DependenciesFirst
<1>6. FailureReachesDependents' /\ FailureHasCause'
  BY <1>1, <1>2, <1>3 DEF IInv, FailureReachesDependents, FailureHasCause
<1> QED
  BY <1>3, <1>4, <1>5, <1>6 DEF IInv

\* What the spawned threads do leaves the queue alone.
LEMMA ThreadIInv ==
  ASSUME IInv, NEW t \in Task, Thread(t)
  PROVE  IInv'
<1>1. /\ thread[t] \in {"spawned", "running"}
      /\ \E s \in {"running", "ok", "error", "panic"} : thread' = [thread EXCEPT ![t] = s]
      /\ UNCHANGED <<queueVars, coordVars>>
  BY DEF Thread, Acquire, EndThread, Ended
<1>2. TypeOK'
  BY <1>1 DEF IInv, TypeOK, QueueTypeOK, queueVars, coordVars, ThreadState
<1>3. status[t] = "in_progress"
  BY <1>1 DEF IInv, ThreadInv
<1>4. ThreadInv' /\ FailureHasCause'
  BY <1>1, <1>3 DEF IInv, ThreadInv, FailureHasCause, queueVars, coordVars, Having, TypeOK
<1> QED
  BY <1>1, <1>2, <1>4
     DEF IInv, queueVars, coordVars, LoadInv, PendingIsReady, BlockedWaits, DependenciesFirst,
         FailureReachesDependents, CoordInv, MemoryInv, Having, Loaded

\* A completed task promotes exactly the blocked tasks that waited for it last.
LEMMA JoinResultIInv ==
  ASSUME IInv, NEW t \in Task, JoinResult(t)
  PROVE  IInv'
<1> USE DEF Having, Loaded
<1> DEFINE done == Having("completed") \cup {t}
<1>1. /\ phase = "join" /\ t \in handles /\ thread[t] = "ok"
      /\ memory' = memory \cup {t} /\ handles' = handles \ {t}
      /\ phase' \in {"join", "loop"}
      /\ UNCHANGED <<wave, thread, deps>>
  BY DEF JoinResult, IsFirst, Complete
<1>2. status' = [u \in Task |-> IF u = t THEN "completed"
                                ELSE IF status[u] = "blocked" /\ deps[u] \subseteq done
                                  THEN "pending"
                                ELSE status[u]]
  BY DEF JoinResult, Complete
<1>3. status[t] = "in_progress"
  BY <1>1 DEF IInv, CoordInv
<1>4. TypeOK' /\ Having("completed")' = done
  BY <1>1, <1>2 DEF IInv, TypeOK, QueueTypeOK, Status, Phase
<1>5. PendingIsReady' /\ BlockedWaits' /\ DependenciesFirst'
  BY <1>1, <1>2, <1>3, <1>4 DEF IInv, PendingIsReady, BlockedWaits, DependenciesFirst
<1>6. LoadInv' /\ CoordInv' /\ ThreadInv' /\ MemoryInv'
  BY <1>1, <1>2, <1>3, <1>4 DEF IInv, LoadInv, CoordInv, ThreadInv, MemoryInv, TypeOK, QueueTypeOK
<1>7. \A u \in Task : status'[u] = "failed" <=> status[u] = "failed"
  BY <1>2, <1>3
<1>8. \A u \in Task : status'[u] = "absent" <=> status[u] = "absent"
  BY <1>2, <1>3
<1>9. FailureReachesDependents' /\ FailureHasCause'
  BY <1>1, <1>7, <1>8 DEF IInv, FailureReachesDependents, FailureHasCause
<1> QED
  BY <1>4, <1>5, <1>6, <1>9 DEF IInv

\* A failed task takes with it blocked tasks only, and all that depend on it.
LEMMA JoinFailureIInv ==
  ASSUME IInv, NEW t \in Task, JoinFailure(t)
  PROVE  IInv'
<1> USE DEF Having, Loaded
<1>1. /\ phase = "join" /\ t \in handles /\ thread[t] \in {"error", "panic"}
      /\ handles' = handles \ {t}
      /\ phase' \in {"join", "loop"}
      /\ UNCHANGED <<wave, thread, memory, deps>>
  BY DEF JoinFailure, IsFirst, Fail
<1>2. status' = [u \in Task |-> IF u = t \/ u \in Cascade(t) THEN "failed" ELSE status[u]]
  BY DEF JoinFailure, Fail
<1>3. status[t] = "in_progress"
  BY <1>1 DEF IInv, CoordInv
<1>4. \A u \in Cascade(t) : u \in Task /\ status[u] = "blocked"
  BY <1>3, CascadeIsBlocked DEF IInv, TypeOK
<1>5. TypeOK' /\ Having("completed")' = Having("completed")
  BY <1>1, <1>2, <1>3, <1>4 DEF IInv, TypeOK, QueueTypeOK, Status, Phase
<1>6. PendingIsReady' /\ BlockedWaits' /\ DependenciesFirst'
  BY <1>1, <1>2, <1>3, <1>5 DEF IInv, PendingIsReady, BlockedWaits, DependenciesFirst
<1>7. LoadInv' /\ CoordInv' /\ ThreadInv' /\ MemoryInv'
  BY <1>1, <1>2, <1>3, <1>4, <1>5
     DEF IInv, LoadInv, CoordInv, ThreadInv, MemoryInv, TypeOK, QueueTypeOK
<1>8. FailureReachesDependents'
  <2> SUFFICES ASSUME NEW u \in Task, status'[u] # "absent",
                      NEW d \in deps[u], d \in Task, status'[d] = "failed"
               PROVE  status'[u] = "failed"
    BY <1>1 DEF FailureReachesDependents
  <2>0. status[u] # "absent"
    BY <1>2, <1>3, <1>4
  <2>1. CASE status[d] = "failed"
    BY <2>0, <2>1, <1>2 DEF IInv, FailureReachesDependents
  <2>2. CASE d \in Cascade(t) \cup {t} /\ status[u] \notin Terminal
    <3>1. u = t \/ u \in Cascade(t)
      BY <2>0, <2>2, CascadeClosed DEF ClosedUnderFailure
    <3> QED
      BY <3>1, <1>2
  <2>3. CASE d \in Cascade(t) \cup {t} /\ status[u] \in Terminal
    BY <2>3, <1>2, <1>3, <1>4 DEF IInv, DependenciesFirst, Terminal
  <2> QED
    BY <2>1, <2>2, <2>3, <1>2
<1>9. FailureHasCause'
  BY <1>1, <1>2, CascadeCaused DEF IInv, FailureHasCause, Cascade
<1> QED
  BY <1>5, <1>6, <1>7, <1>8, <1>9 DEF IInv

\* Every step keeps the invariant.
LEMMA NextIInv == IInv /\ [Next]_vars => IInv'
<1> SUFFICES ASSUME IInv, [Next]_vars PROVE IInv'
  OBVIOUS
<1>1. CASE UNCHANGED vars
  BY <1>1 DEF vars, IInv, TypeOK, QueueTypeOK, LoadInv, PendingIsReady, BlockedWaits,
              DependenciesFirst, FailureReachesDependents, CoordInv, ThreadInv, MemoryInv,
              FailureHasCause, Having, Loaded
<1>2. ASSUME NEW t \in Task, Thread(t) PROVE IInv'
  BY <1>2, ThreadIInv
<1>3. CASE Coordinator
  BY <1>3, InspectIInv, LoadTaskIInv, LaunchIInv, JoinResultIInv, JoinFailureIInv DEF Coordinator
<1> QED
  BY <1>1, <1>2, <1>3 DEF Next, Returned

\* IInv holds in every reachable state.
LEMMA Invariance == Spec => []IInv
BY InitIInv, NextIInv, PTL DEF Spec

(***************************************************************************)
(* The theorems.                                                           *)
(***************************************************************************)

\* TypeOK: every variable of the runner keeps its type.
THEOREM TypeCorrect == Spec => []TypeOK
BY Invariance, PTL DEF IInv

\* A task is started or completed only when all it depends on has completed.
THEOREM DependenciesComeFirst == Spec => []DependenciesFirst
BY Invariance, PTL DEF IInv

\* fail() leaves no task with a failed dependency that could still run.
THEOREM FailuresReachDependents == Spec => []FailureReachesDependents
BY Invariance, PTL DEF IInv

\* A task fails only by its own agent or by something it depends on.
THEOREM FailuresHaveCauses == Spec => []FailureHasCause
BY Invariance, PTL DEF IInv

\* A running agent finds the results of its dependencies in the shared memory.
THEOREM ResultsAreThere == Spec => []ResultsBeforeDependents
<1>1. IInv => ResultsBeforeDependents
  BY DEF IInv, ResultsBeforeDependents, RunningThreads, ThreadInv, DependenciesFirst,
         MemoryInv, Having
<1> QED
  BY <1>1, Invariance, PTL

\* The runner stops only when what is left waits for an unknown title.
THEOREM StopsWhenStuck == Spec => []StopsOnlyWhenStuck
<1>1. IInv => StopsOnlyWhenStuck
  <2> SUFFICES ASSUME IInv, phase = "done", NEW t \in Task, status[t] \notin Terminal
               PROVE  status[t] = "blocked" /\ \E d \in deps[t] : d = Missing \/ status[d] = "blocked"
    BY DEF StopsOnlyWhenStuck
  <2>1. \A u \in Task : status[u] \in {"blocked", "completed", "failed"}
    BY DEF IInv, LoadInv, CoordInv, TypeOK, QueueTypeOK, Status, Having, Loaded
  <2>2. status[t] = "blocked"
    BY <2>1 DEF Terminal
  <2>3. PICK d \in deps[t] : d \notin Having("completed")
    BY <2>2 DEF IInv, BlockedWaits, Having
  <2>4. CASE d = Missing
    BY <2>2, <2>4
  <2>5. CASE d \in Task
    <3>1. status[d] # "failed"
      BY <2>2, <2>5 DEF IInv, FailureReachesDependents, Having, Loaded
    <3> QED
      BY <2>1, <2>2, <2>3, <2>5, <3>1 DEF Having
  <2> QED
    BY <2>4, <2>5 DEF IInv, TypeOK, QueueTypeOK
<1> QED
  BY <1>1, Invariance, PTL

\* No step takes a completed or a failed task out of its status.
THEOREM TerminalStatusIsFinal == Spec => TerminalIsFinal
<1>1. IInv /\ [Next]_vars => [\A t \in Task : status[t] \in Terminal => status'[t] = status[t]]_vars
  <2> SUFFICES ASSUME IInv, Next, NEW u \in Task, status[u] \in Terminal
               PROVE  status'[u] = status[u]
    OBVIOUS
  <2>1. ASSUME NEW t \in Task, LoadTask(t) PROVE status'[u] = status[u]
    BY <2>1 DEF LoadTask, IsFirst, Loaded, Add, queueVars, Terminal, IInv, TypeOK, QueueTypeOK
  <2>2. CASE Inspect
    BY <2>2 DEF Inspect, queueVars
  <2>3. ASSUME NEW t \in Task, Launch(t) PROVE status'[u] = status[u]
    BY <2>3 DEF Launch, IsFirst, Start, Terminal, Having, IInv, CoordInv, TypeOK, QueueTypeOK
  <2>4. ASSUME NEW t \in Task, JoinResult(t) PROVE status'[u] = status[u]
    BY <2>4 DEF JoinResult, IsFirst, Complete, Terminal, Having, IInv, CoordInv
  <2>5. ASSUME NEW t \in Task, JoinFailure(t) PROVE status'[u] = status[u]
    <3>1. status[t] = "in_progress"
      BY <2>5 DEF JoinFailure, IsFirst, Having, IInv, CoordInv
    <3>2. Cascade(t) \subseteq Having("blocked")
      BY <3>1, CascadeIsBlocked DEF IInv, TypeOK
    <3> QED
      BY <2>5, <3>1, <3>2 DEF JoinFailure, Fail, Terminal, Having
  <2>6. ASSUME NEW t \in Task, Thread(t) PROVE status'[u] = status[u]
    BY <2>6 DEF Thread, Acquire, EndThread, queueVars
  <2> QED
    BY <2>1, <2>2, <2>3, <2>4, <2>5, <2>6 DEF Next, Coordinator, Returned, vars
<1> QED
  BY <1>1, Invariance, PTL DEF Spec, TerminalIsFinal

(***************************************************************************)
(* The runner implements DagRun.                                           *)
(***************************************************************************)

\* The cases of AbstractOf.
LEMMA AbstractCases ==
  \A st \in Status, th \in ThreadState :
    /\ AbstractOf(st, th) = "unknown" <=> st = "absent"
    /\ AbstractOf(st, th) = "todo" <=> st \in {"blocked", "pending"}
    /\ AbstractOf(st, th) = "running" <=> st = "in_progress"
    /\ AbstractOf(st, th) = "ok" <=> st = "completed"
    /\ AbstractOf(st, th) = "failed" <=> st = "failed" /\ th # "none"
    /\ AbstractOf(st, th) = "skipped" <=> st = "failed" /\ th = "none"
BY DEF AbstractOf, Status

\* The thread matters for failed tasks only.
LEMMA AbstractIgnoresThread ==
  \A st \in Status \ {"failed"} : \A th1, th2 : AbstractOf(st, th1) = AbstractOf(st, th2)
BY DEF AbstractOf, Status

\* The abstract state before and after a step, task by task.
LEMMA AbstractStateOf ==
  /\ \A t \in Task : /\ AbstractState[t] = AbstractOf(status[t], thread[t])
                     /\ AbstractState'[t] = AbstractOf(status'[t], thread'[t])
  /\ AbstractState = [t \in Task |-> AbstractState[t]]
  /\ AbstractState' = [t \in Task |-> AbstractState'[t]]
BY DEF AbstractState

\* A task that keeps its status, and whose thread moves only if it has not failed,
\* keeps its abstract state.
LEMMA AbstractStateKept ==
  ASSUME QueueTypeOK, NEW t \in Task, status'[t] = status[t],
         thread'[t] = thread[t] \/ status[t] # "failed"
  PROVE  AbstractState'[t] = AbstractState[t]
<1>1. status[t] \in Status
  BY DEF QueueTypeOK
<1> QED
  BY <1>1, AbstractIgnoresThread, AbstractStateOf

\* Types of what AbstractCases is applied to.
LEMMA StateTypes ==
  ASSUME IInv, IInv', NEW t \in Task
  PROVE  /\ status[t] \in Status /\ status'[t] \in Status
         /\ thread[t] \in ThreadState /\ thread'[t] \in ThreadState
         /\ QueueTypeOK
BY DEF IInv, TypeOK, QueueTypeOK

\* Adding a task is an addition to the abstract run.
LEMMA LoadTaskImplements ==
  ASSUME IInv, IInv', NEW t \in Task, LoadTask(t)
  PROVE  Dag!Declare(t) \/ UNCHANGED Dag!vars
<1>1. UNCHANGED thread /\ status[t] = "absent"
  BY DEF LoadTask, IsFirst, Loaded
<1>2. CASE UNCHANGED queueVars
  BY <1>1, <1>2 DEF queueVars, Dag!vars, AbstractState
<1>3. ASSUME NEW D \in SUBSET (Task \cup {Missing}), Add(t, D)
      PROVE  Dag!Declare(t)
  <2>1. /\ deps' = [deps EXCEPT ![t] = D]
        /\ status'[t] \in {"blocked", "pending"}
        /\ \A u \in Task \ {t} : status'[u] = status[u]
    BY <1>3 DEF Add, IInv, TypeOK, QueueTypeOK
  <2>2. \A u \in Task \ {t} : AbstractState'[u] = AbstractState[u]
    BY <2>1, <1>1, AbstractStateKept, StateTypes
  <2>3. AbstractState[t] = "unknown" /\ AbstractState'[t] = "todo"
    BY <2>1, <1>1, AbstractStateOf, AbstractCases, StateTypes
  <2>4. AbstractState' = [AbstractState EXCEPT ![t] = "todo"]
    BY <2>2, <2>3, AbstractStateOf
  <2> QED
    BY <2>1, <2>3, <2>4 DEF Dag!Declare
<1> QED
  BY <1>2, <1>3 DEF LoadTask

\* Starting a task is a start of the abstract run.
LEMMA LaunchImplements ==
  ASSUME IInv, IInv', NEW t \in Task, Launch(t)
  PROVE  Dag!Begin(t)
<1>1. /\ status[t] = "pending" /\ status'[t] = "in_progress"
      /\ \A u \in Task \ {t} : status'[u] = status[u] /\ thread'[u] = thread[u]
      /\ UNCHANGED deps
  BY DEF Launch, IsFirst, Start, IInv, CoordInv, Having, TypeOK, QueueTypeOK
<1>2. \A u \in Task \ {t} : AbstractState'[u] = AbstractState[u]
  BY <1>1, AbstractStateKept, StateTypes
<1>3. AbstractState[t] = "todo" /\ AbstractState'[t] = "running"
  BY <1>1, AbstractStateOf, AbstractCases, StateTypes
<1>4. AbstractState' = [AbstractState EXCEPT ![t] = "running"]
  BY <1>2, <1>3, AbstractStateOf
<1>5. \A d \in deps[t] : d \in Task /\ AbstractState[d] = "ok"
  BY <1>1, AbstractStateOf, AbstractCases, StateTypes DEF IInv, PendingIsReady, Having
<1> QED
  BY <1>1, <1>3, <1>4, <1>5 DEF Dag!Begin

\* A joined result is a completion of the abstract run.
LEMMA JoinResultImplements ==
  ASSUME IInv, IInv', NEW t \in Task, JoinResult(t)
  PROVE  Dag!Succeed(t)
<1>1. /\ status[t] = "in_progress" /\ status'[t] = "completed"
      /\ UNCHANGED <<deps, thread>>
  BY DEF JoinResult, IsFirst, Complete, IInv, CoordInv, Having
<1>2. \A u \in Task \ {t} :
        \/ status'[u] = status[u]
        \/ status[u] = "blocked" /\ status'[u] = "pending"
  BY DEF JoinResult, Complete
<1>3. ASSUME NEW u \in Task \ {t} PROVE AbstractState'[u] = AbstractState[u]
  <2>1. CASE status'[u] = status[u]
    BY <1>1, <2>1, AbstractStateKept, StateTypes
  <2>2. CASE status[u] = "blocked" /\ status'[u] = "pending"
    BY <2>2, AbstractStateOf, AbstractCases, StateTypes
  <2> QED
    BY <1>2, <2>1, <2>2
<1>4. AbstractState[t] = "running" /\ AbstractState'[t] = "ok"
  BY <1>1, AbstractStateOf, AbstractCases, StateTypes
<1>5. AbstractState' = [AbstractState EXCEPT ![t] = "ok"]
  BY <1>3, <1>4, AbstractStateOf
<1> QED
  BY <1>1, <1>4, <1>5 DEF Dag!Succeed

\* A failure skips exactly what the abstract step skips: the cascade.
LEMMA JoinFailureImplements ==
  ASSUME IInv, IInv', NEW t \in Task, JoinFailure(t)
  PROVE  Dag!Break(t)
<1>1. /\ status[t] = "in_progress" /\ thread[t] # "none"
      /\ status' = [u \in Task |-> IF u = t \/ u \in Cascade(t) THEN "failed" ELSE status[u]]
      /\ UNCHANGED <<deps, thread>>
  BY DEF JoinFailure, IsFirst, Fail, IInv, CoordInv, Having
<1>2. Cascade(t) \subseteq Having("blocked")
  BY <1>1, CascadeIsBlocked DEF IInv, TypeOK
<1>3. Dag!DependsOnFailure(Cascade(t), t)
  <2>1. \A u \in Cascade(t) : u \in Task /\ AbstractState[u] = "todo"
    BY <1>2, AbstractStateOf, AbstractCases, StateTypes DEF Having
  <2>2. ASSUME NEW u \in Task, AbstractState[u] = "todo",
               deps[u] \cap (Cascade(t) \cup {t}) # {}
        PROVE  u \in Cascade(t)
    <3>1. status[u] \in {"blocked", "pending"}
      BY <2>2, AbstractStateOf, AbstractCases, StateTypes
    <3>2. u \in Loaded \ {t} /\ status[u] \notin Terminal
      BY <3>1, <1>1 DEF Loaded, Terminal
    <3> QED
      BY <3>2, <2>2, CascadeClosed DEF ClosedUnderFailure
  <2> QED
    BY <2>1, <2>2, CascadeCaused DEF Dag!DependsOnFailure
<1>4. AbstractState[t] = "running" /\ AbstractState'[t] = "failed"
  BY <1>1, AbstractStateOf, AbstractCases, StateTypes
<1>5. \A u \in Cascade(t) \ {t} : AbstractState'[u] = "skipped"
  <2>1. \A u \in Cascade(t) : u \in Task /\ thread[u] = "none"
    BY <1>2 DEF IInv, ThreadInv, Having
  <2> QED
    BY <2>1, <1>1, AbstractStateOf, AbstractCases, StateTypes
<1>6. \A u \in Task \ (Cascade(t) \cup {t}) : AbstractState'[u] = AbstractState[u]
  BY <1>1, AbstractStateKept, StateTypes
<1>7. AbstractState' = [u \in Task |-> IF u = t THEN "failed"
                                       ELSE IF u \in Cascade(t) THEN "skipped"
                                       ELSE AbstractState[u]]
  BY <1>4, <1>5, <1>6, AbstractStateOf
<1>8. Cascade(t) \in SUBSET Task
  BY DEF Cascade
<1> QED
  BY <1>1, <1>3, <1>4, <1>7, <1>8 DEF Dag!Break

\* The wave-by-wave runner with its threads and semaphore implements the abstract run.
THEOREM Implementation == Spec => ImplementsDagRun
<1>1. Init => Dag!Init
  BY DEF Init, QueueInit, Dag!Init, AbstractState, AbstractOf
<1>2. IInv /\ IInv' /\ [Next]_vars => [Dag!Next]_(Dag!vars)
  <2> SUFFICES ASSUME IInv, IInv', [Next]_vars
               PROVE  Dag!Next \/ UNCHANGED Dag!vars
    OBVIOUS
  <2>1. CASE UNCHANGED vars
    BY <2>1 DEF vars, Dag!vars, AbstractState
  <2>2. CASE Inspect
    BY <2>2 DEF Inspect, queueVars, Dag!vars, AbstractState
  <2>3. ASSUME NEW t \in Task, Thread(t)
        PROVE  UNCHANGED Dag!vars
    <3>1. /\ status[t] = "in_progress" /\ UNCHANGED <<deps, status>>
          /\ \A u \in Task \ {t} : thread'[u] = thread[u]
      BY <2>3 DEF Thread, Acquire, EndThread, queueVars, IInv, ThreadInv, TypeOK
    <3>2. \A u \in Task : AbstractState'[u] = AbstractState[u]
      BY <3>1, AbstractStateKept, StateTypes
    <3> QED
      BY <3>1, <3>2, AbstractStateOf DEF Dag!vars
  <2> QED
    BY <2>1, <2>2, <2>3, LoadTaskImplements, LaunchImplements, JoinResultImplements,
       JoinFailureImplements
       DEF Next, Coordinator, Returned, Dag!Next
<1> QED
  BY <1>1, <1>2, Invariance, PTL DEF Spec, ImplementsDagRun, Dag!Spec

-----------------------------------------------------------------------------
(***************************************************************************)
(* Teams, for every number of agents, tasks, permits, turns and messages.  *)
(* The command's loop is the one of Workflow: a run of a team is a run of  *)
(* Workflow with more around it, so what is proved of Workflow holds of    *)
(* teams.  From the inductive invariant of Workflow it also follows that   *)
(* no thread is left when the session is to be deleted.                    *)
(***************************************************************************)

\* What a thread of the team does is what Workflow's threads do, or invisible to it.
LEMMA AgentIsThread ==
  ASSUME NEW t \in Task, AgentOf(t)
  PROVE  /\ EndThread(t) \/ UNCHANGED vars
         /\ UNCHANGED command /\ command = "run"
         /\ thread[t] \in {"spawned", "running"}
<1> USE DEF Running, Ends, teamVars, runVars, busVars, serverVars, vars
<1>1. CASE NoRuntime(t) \/ ScriptEnds(t)
  BY <1>1 DEF NoRuntime, ScriptEnds
<1>2. CASE Begin(t)
  BY <1>2 DEF Begin
<1>3. CASE Says(t) \/ Hears(t) \/ Remembers(t)
  BY <1>3 DEF Says, Hears, Remembers
<1>4. CASE Ask(t) \/ Answered(t) \/ OutOfTurns(t)
  BY <1>4 DEF Ask, Answered, OutOfTurns
<1>5. CASE Fails(t)
  BY <1>5 DEF Fails
<1> QED
  BY <1>1, <1>2, <1>3, <1>4, <1>5 DEF AgentOf

\* The same of the main thread; after the loop it leaves the tasks alone.
LEMMA MainIsCoordinator ==
  ASSUME Main
  PROVE  Next \/ UNCHANGED vars
<1>1. CASE Waves
  BY <1>1 DEF Waves, Next, Coordinator, Thread
<1> QED
  BY <1>1 DEF Main, Plan, LoadRefused, Synthesize, CleanUp

\* The servers see to requests and to the session only.
LEMMA ServersApart ==
  ASSUME Servers
  PROVE  UNCHANGED <<vars, command, assignee, runVars, busVars, late>>
  BY DEF Servers, Serve, DeleteSession

LEMMA StepIsStep == [TeamNext]_<<vars, teamVars>> => [Next]_vars
  BY AgentIsThread, MainIsCoordinator, ServersApart DEF TeamNext, Next, Thread

\* The team's loop implements run_workflow_v2.
THEOREM TeamIsWorkflow == TeamSpec => Spec
<1>1. TeamInit => Init
  BY DEF TeamInit
<1> QED
  BY <1>1, StepIsStep, PTL DEF TeamSpec, Spec

\* In a team, too, a task runs or has completed only after everything it depends on
\* has completed, ...
THEOREM TeamsKeepDependencies == TeamSpec => []DependenciesFirst
  BY TeamIsWorkflow, DependenciesComeFirst, PTL

\* ... a failure reaches all that depends on it, ...
THEOREM TeamsFailDependents == TeamSpec => []FailureReachesDependents
  BY TeamIsWorkflow, FailuresReachDependents, PTL

\* ... and the run of the tasks implements the abstract one.
THEOREM TeamsImplementDagRun == TeamSpec => ImplementsDagRun
  BY TeamIsWorkflow, Implementation, PTL

(***************************************************************************)
(* The session.  No thread is left when the loop is over (CoordInv and     *)
(* ThreadInv of Workflow), and a queued request that nobody has given up   *)
(* has its thread waiting for it: after the command only the others are    *)
(* left to register the session.                                           *)
(***************************************************************************)
NoThreads == \A t \in Task : thread[t] \notin {"spawned", "running"}

AfterTheLoop == command \in {"clean", "completed", "panicked"} => NoThreads

RunTypes ==
  /\ queued \subseteq Task \X Nat
  /\ DOMAIN at = Task
  /\ turns \in [Task -> Nat]

AwaitedInv ==
  \A r \in queued \ late :
    thread[r[1]] = "running" /\ at[r[1]] = "asked" /\ r[2] = turns[r[1]]

SessionInv == RunTypes /\ AwaitedInv /\ AfterTheLoop /\ LeftSessionHasCause

LEMMA DoneHasNoThreads == IInv /\ phase = "done" => NoThreads
  BY DEF IInv, CoordInv, ThreadInv, NoThreads, Having

\* What an agent does that neither asks nor ends a wait.
LEMMA AgentAwaits ==
  ASSUME SessionInv, NEW t \in Task, AgentOf(t), thread \in [Task -> ThreadState]
  PROVE  RunTypes' /\ AwaitedInv'
<1> USE DEF SessionInv, RunTypes
<1>0. \A r \in queued : r[1] \in Task /\ r[2] \in Nat /\ r = <<r[1], r[2]>>
  OBVIOUS
<1>1. \A u \in Task \ {t} : thread'[u] = thread[u]
  BY AgentIsThread DEF EndThread, vars
<1>2. CASE Ask(t)
  <2>1. /\ at' = [at EXCEPT ![t] = "asked"]
        /\ turns' = [turns EXCEPT ![t] = turns[t] + 1]
        /\ queued' = queued \cup {<<t, turns[t] + 1>>}
        /\ thread[t] = "running" /\ at[t] = "turn" /\ UNCHANGED <<thread, late>>
    BY <1>2 DEF Ask, Running, vars
  <2>2. AwaitedInv'
    <3> SUFFICES ASSUME NEW r \in queued' \ late'
                 PROVE  thread'[r[1]] = "running" /\ at'[r[1]] = "asked" /\ r[2] = turns'[r[1]]
      BY DEF AwaitedInv
    <3>1. CASE r \in queued
      <4>1. thread[r[1]] = "running" /\ at[r[1]] = "asked" /\ r[2] = turns[r[1]] /\ r[1] \in Task
        BY <1>0, <2>1, <3>1 DEF AwaitedInv
      <4> QED
        BY <2>1, <4>1
    <3>2. CASE r = <<t, turns[t] + 1>>
      BY <2>1, <3>2
    <3> QED
      BY <2>1, <3>1, <3>2
  <2> QED
    BY <2>1, <2>2
<1>3. CASE \/ /\ UNCHANGED <<turns, queued, late>> /\ DOMAIN at' = Task
              /\ \A u \in Task \ {t} : at'[u] = at[u]
              /\ \/ at[t] # "asked" \/ thread[t] # "running" \/ Request(t) \notin queued
                 \/ at'[t] = at[t] /\ thread'[t] = thread[t]
  BY <1>0, <1>1, <1>3 DEF AwaitedInv, Request
<1>4. CASE Fails(t)
  <2>1. /\ UNCHANGED turns /\ DOMAIN at' = Task /\ \A u \in Task \ {t} : at'[u] = at[u]
        /\ queued' \subseteq queued /\ late \subseteq late'
        /\ Request(t) \in queued' => Request(t) \in late'
    BY <1>4 DEF Fails
  <2>2. AwaitedInv'
    <3> SUFFICES ASSUME NEW r \in queued' \ late'
                 PROVE  thread'[r[1]] = "running" /\ at'[r[1]] = "asked" /\ r[2] = turns'[r[1]]
      BY DEF AwaitedInv
    <3>1. /\ thread[r[1]] = "running" /\ at[r[1]] = "asked" /\ r[2] = turns[r[1]] /\ r[1] \in Task
          /\ r = <<r[1], r[2]>>
      BY <1>0, <2>1 DEF AwaitedInv
    <3>2. r[1] # t
      BY <2>1, <3>1 DEF Request
    <3> QED
      BY <1>1, <2>1, <3>1, <3>2
  <2> QED
    BY <2>1, <2>2
<1>5. CASE Begin(t)
  BY <1>3, <1>5 DEF Begin, serverVars
<1>6. CASE Says(t) \/ Hears(t) \/ Remembers(t)
  BY <1>3, <1>6 DEF Says, Hears, Remembers, runVars, serverVars
<1>7. CASE Answered(t)
  BY <1>3, <1>7 DEF Answered, serverVars
<1>8. CASE NoRuntime(t) \/ OutOfTurns(t)
  BY <1>3, <1>8 DEF NoRuntime, OutOfTurns, teamVars, runVars, serverVars
<1>9. CASE ScriptEnds(t)
  BY <1>3, <1>9 DEF ScriptEnds, serverVars
<1> QED
  BY <1>2, <1>4, <1>5, <1>6, <1>7, <1>8, <1>9 DEF AgentOf

\* The main thread starts and joins threads that wait for nothing.
LEMMA MainAwaits ==
  ASSUME IInv, SessionInv, Main
  PROVE  RunTypes' /\ AwaitedInv'
<1>1. UNCHANGED <<at, turns, queued, late>>
  BY DEF Main, Plan, Waves, LoadRefused, Synthesize, CleanUp, runVars, serverVars
<1>2. \A u \in Task : thread[u] = "running" => thread'[u] = "running"
  <2>1. CASE \E t \in Task : Launch(t)
    <3>1. PICK t \in Task : Launch(t)
      BY <2>1
    <3>2. thread[t] = "none"
      BY <3>1 DEF Launch, IsFirst, IInv, CoordInv, ThreadInv, Having
    <3> QED
      BY <3>1, <3>2 DEF Launch, IInv, TypeOK
  <2>2. CASE \E t \in Task : Acquire(t)
    BY <2>2 DEF Acquire, IInv, TypeOK
  <2>3. CASE UNCHANGED thread
    BY <2>3
  <2>4. CASE \/ Inspect
             \/ \E t \in Task : LoadTask(t) \/ JoinFailure(t) \/ JoinResult(t)
    BY <2>3, <2>4 DEF Inspect, LoadTask, JoinFailure, JoinResult
  <2>5. CASE Plan \/ LoadRefused \/ Synthesize \/ CleanUp
    BY <2>3, <2>5 DEF Plan, LoadRefused, Synthesize, CleanUp, vars
  <2> QED
    BY <2>1, <2>2, <2>4, <2>5 DEF Main, Waves
<1> QED
  BY <1>1, <1>2 DEF SessionInv, RunTypes, AwaitedInv

\* A request that is given its slot after the command is one that was given up.
LEMMA ServersKeepSession ==
  ASSUME SessionInv, Servers
  PROVE  SessionInv'
<1> USE DEF SessionInv, AfterTheLoop, NoThreads, LeftSessionHasCause
<1>1. /\ UNCHANGED <<thread, command, at, turns, late>> /\ queued' \subseteq queued
  BY ServersApart DEF vars, runVars, Servers, Serve, DeleteSession
<1>2. RunTypes' /\ AwaitedInv'
  BY <1>1 DEF RunTypes, AwaitedInv
<1>3. CASE DeleteSession
  BY <1>1, <1>2, <1>3 DEF DeleteSession
<1>4. ASSUME NEW r \in queued, Serve(r) PROVE SessionInv'
  <2>1. \A s \in sessions' : s \in sessions \/ s.by = r
    BY <1>4 DEF Serve
  <2>2. command = "completed" => r \in late
    <3>1. r[1] \in Task
      BY DEF RunTypes
    <3> QED
      BY <3>1 DEF AwaitedInv
  <2>3. deletion' = deletion
    BY <1>4 DEF Serve
  <2> QED
    BY <1>1, <1>2, <2>1, <2>2, <2>3
<1> QED
  BY <1>3, <1>4 DEF Servers

LEMMA SessionStep ==
  ASSUME IInv, SessionInv, [TeamNext]_<<vars, teamVars>>
  PROVE  SessionInv'
<1> USE DEF SessionInv, AfterTheLoop, LeftSessionHasCause, NoThreads
<1>1. CASE UNCHANGED <<vars, teamVars>>
  BY <1>1 DEF vars, teamVars, runVars, serverVars, RunTypes, AwaitedInv
<1>2. CASE Main
  <2>1. RunTypes' /\ AwaitedInv'
    BY <1>2, MainAwaits
  <2>2. CASE Plan \/ Waves \/ LoadRefused
    BY <2>1, <2>2 DEF Plan, Waves, LoadRefused
  <2>3. CASE Synthesize
    BY <2>1, <2>3, DoneHasNoThreads DEF Synthesize, LoopLeft, vars
  <2>4. CASE CleanUp
    <3>1. /\ command = "clean" /\ UNCHANGED <<thread, sessions>>
          /\ deletion' \in {"lost", Accepted}
      BY <2>4 DEF CleanUp, vars
    <3>2. \A s \in sessions' : s.at = Home => deletion' \in {"lost", "pending"}
      BY <3>1 DEF Accepted, HasSession
    <3> QED
      BY <2>1, <3>1, <3>2
  <2> QED
    BY <1>2, <2>2, <2>3, <2>4 DEF Main
<1>3. CASE Servers
  BY <1>3, ServersKeepSession
<1>4. ASSUME NEW t \in Task, AgentOf(t) PROVE SessionInv'
  <2>1. RunTypes' /\ AwaitedInv'
    BY <1>4, AgentAwaits DEF IInv, TypeOK
  <2>2. command' = command /\ command = "run"
    BY <1>4, AgentIsThread
  <2> QED
    BY <2>1, <2>2
<1> QED
  BY <1>1, <1>2, <1>3, <1>4 DEF TeamNext

\* When the command has completed, none of its threads is left, and the coordinator's
\* server keeps or gets the team's session only by the three ways LeftSessionHasCause
\* names, for every team, every choice of backends and every order in which the
\* servers see to requests and to the deletion.
THEOREM LeftSessionsHaveCauses == TeamSpec => []LeftSessionHasCause
<1>1. TeamInit => SessionInv
  BY DEF TeamInit, SessionInv, AfterTheLoop, LeftSessionHasCause, RunTypes, AwaitedInv
<1>2. TeamSpec => []IInv
  BY TeamIsWorkflow, Invariance, PTL
<1> QED
  BY <1>1, <1>2, SessionStep, PTL DEF TeamSpec, SessionInv

(***************************************************************************)
(* The messages.  The ids of the bus are its positions, so what an agent   *)
(* has not read of what is for it is what came after its last receive.     *)
(***************************************************************************)
Sent == [id : Nat, from : Agent \cup {"nobody"}, to : Agent \cup {"*"}, n : Nat]

ReadInv ==
  \A a \in Agent :
    /\ seenUpto[a] \in 0 .. Len(bus)
    /\ \A x : x \in readBy[a] <=> \E i \in 1 .. seenUpto[a] : bus[i] \in For(a) /\ x = bus[i].id

BusInv ==
  /\ assignee \in [Task -> Agent \cup {"nobody"}]
  /\ bus \in Seq(Sent) /\ nextId = Len(bus)
  /\ \A i \in 1 .. Len(bus) : bus[i].id = i - 1
  /\ got \in [Agent -> Seq(Sent)] /\ seenUpto \in [Agent -> Nat]
  /\ DOMAIN readBy = Agent
  /\ ReadInv
  /\ InboxComplete

LEMMA ForFacts ==
  ASSUME BusInv, NEW a, NEW i \in 1 .. Len(bus)
  PROVE  /\ bus[i] \in Sent
         /\ bus[i] \in For(a) <=> bus[i].to \in {a, "*"} /\ bus[i].from # a
<1>1. bus \in Seq(Sent)
  BY DEF BusInv
<1>2. bus[i] \in Sent /\ i \in DOMAIN bus
  BY <1>1
<1>3. bus[i] \in Range(bus)
  BY <1>2 DEF Range
<1> QED
  BY <1>2, <1>3 DEF For

\* A receive that finds all that came after the last one.
LEMMA ReceiveBus ==
  ASSUME BusInv, NEW a, Receive(a), UNCHANGED assignee
  PROVE  BusInv'
<1> DEFINE L == {m \in For(a) : m.id \notin readBy[a]}
           new == Chosen(bus, L)
           u == seenUpto[a]
<1>1. /\ readBy' = [readBy EXCEPT ![a] = readBy[a] \cup {new[n].id : n \in DOMAIN new}]
      /\ got' = [got EXCEPT ![a] = got[a] \o new]
      /\ seenUpto' = [seenUpto EXCEPT ![a] = Len(bus)]
      /\ UNCHANGED <<bus, nextId>>
  BY DEF Receive
<1>2. Len(bus) \in Nat /\ bus \in Seq(Sent) /\ DOMAIN bus = 1 .. Len(bus)
  BY DEF BusInv
<1>3. /\ new \in Seq(Sent)
      /\ \A i \in DOMAIN new : \E n \in DOMAIN bus : bus[n] \in L /\ new[i] = bus[n]
      /\ \A n \in DOMAIN bus : bus[n] \in L => \E i \in DOMAIN new : new[i] = bus[n]
  <2> HIDE DEF L
  <2>1. bus \in Seq(Sent)
    BY <1>2
  <2> QED
    BY <2>1, ChosenElements
<1> HIDE DEF new
<1>4. /\ got' \in [Agent -> Seq(Sent)] /\ seenUpto' \in [Agent -> Nat] /\ DOMAIN readBy' = Agent
  <2>1. a \in Agent => got[a] \o new \in Seq(Sent)
    BY <1>3 DEF BusInv
  <2>2. got' \in [Agent -> Seq(Sent)]
    BY <1>1, <2>1 DEF BusInv
  <2> QED
    BY <1>1, <1>2, <2>2 DEF BusInv
<1>5. \A b \in Agent \ {a} : got'[b] = got[b] /\ seenUpto'[b] = seenUpto[b] /\ readBy'[b] = readBy[b]
  BY <1>1 DEF BusInv
<1>6. \A b : For(b)' = For(b)
  BY <1>1 DEF For
<1>7. ASSUME a \in Agent
      PROVE  /\ seenUpto'[a] = Len(bus) /\ got'[a] = Chosen(bus, For(a))
             /\ \A x : x \in readBy'[a] <=> \E i \in 1 .. Len(bus) : bus[i] \in For(a) /\ x = bus[i].id
  <2>0. \A i \in 1 .. Len(bus) : bus[i].id = i - 1
    BY DEF BusInv
  <2>1. /\ u \in 0 .. Len(bus) /\ got[a] = Chosen(SubSeq(bus, 1, u), For(a))
        /\ \A x : x \in readBy[a] <=> \E i \in 1 .. u : bus[i] \in For(a) /\ x = bus[i].id
    BY <1>7 DEF BusInv, ReadInv, InboxComplete
  <2>2. /\ seenUpto'[a] = Len(bus) /\ got'[a] = got[a] \o new
        /\ readBy'[a] = readBy[a] \cup {new[n].id : n \in DOMAIN new}
    BY <1>1, <1>7 DEF BusInv
  <2> HIDE DEF u
  <2>3. \A n \in 1 .. u : bus[n] \notin L
    BY <2>1
  <2>4. ASSUME NEW n \in u + 1 .. Len(bus) PROVE bus[n] \in For(a) <=> bus[n] \in L
    <3>1. n \in 1 .. Len(bus) /\ bus[n].id = n - 1 /\ n > u
      <4>1. n \in 1 .. Len(bus) /\ n > u
        BY <1>2, <2>1
      <4> QED
        BY <2>0, <4>1
    <3>2. bus[n].id \notin readBy[a]
      <4> SUFFICES ASSUME NEW i \in 1 .. u, bus[n].id = bus[i].id PROVE FALSE
        BY <2>1
      <4>1. i \in 1 .. Len(bus) /\ i < n
        BY <1>2, <2>1, <3>1
      <4>2. bus[i].id = i - 1
        BY <2>0, <4>1
      <4> QED
        <5>1. n - 1 # i - 1
          BY <1>2, <3>1, <4>1
        <5> QED
          BY <3>1, <4>2, <5>1, Zenon
    <3> QED
      BY <3>2
  <2>5. Chosen(bus, For(a)) = Chosen(SubSeq(bus, 1, u), For(a)) \o Chosen(bus, L)
    <3>1. u \in 0 .. Len(bus) /\ bus \in Seq(Sent)
      BY <1>2, <2>1
    <3> HIDE DEF L
    <3> QED
      BY <2>3, <2>4, <3>1, ChosenSplit
  <2>6. got'[a] = Chosen(bus, For(a))
    BY <2>1, <2>2, <2>5 DEF new
  <2>7. ASSUME NEW x
        PROVE  x \in readBy'[a] <=> \E i \in 1 .. Len(bus) : bus[i] \in For(a) /\ x = bus[i].id
    <3>1. ASSUME x \in readBy[a] PROVE \E i \in 1 .. Len(bus) : bus[i] \in For(a) /\ x = bus[i].id
      <4>1. PICK i \in 1 .. u : bus[i] \in For(a) /\ x = bus[i].id
        BY <2>1, <3>1
      <4> QED
        BY <1>2, <2>1, <4>1
    <3>2. ASSUME NEW n \in DOMAIN new, x = new[n].id
          PROVE  \E i \in 1 .. Len(bus) : bus[i] \in For(a) /\ x = bus[i].id
      BY <1>2, <1>3, <3>2
    <3>3. ASSUME NEW i \in 1 .. Len(bus), bus[i] \in For(a), x = bus[i].id, x \notin readBy[a]
          PROVE  \E n \in DOMAIN new : x = new[n].id
      BY <1>2, <1>3, <3>3
    <3> QED
      BY <2>2, <3>1, <3>2, <3>3
  <2> QED
    BY <2>2, <2>6, <2>7
<1>8. ReadInv'
  <2> SUFFICES ASSUME NEW b \in Agent
               PROVE  /\ seenUpto'[b] \in 0 .. Len(bus')
                      /\ \A x : x \in readBy'[b] <=>
                           \E i \in 1 .. seenUpto'[b] : bus'[i] \in For(b)' /\ x = bus'[i].id
    BY DEF ReadInv
  <2>0. bus' = bus /\ For(b)' = For(b)
    BY <1>1, <1>6
  <2>1. CASE b = a
    <3>1. Len(bus) \in 0 .. Len(bus)
      BY <1>2
    <3> QED
      BY <1>7, <2>0, <2>1, <3>1
  <2>2. CASE b # a
    BY <1>5, <2>0, <2>2 DEF BusInv, ReadInv
  <2> QED
    BY <2>1, <2>2
<1>9. InboxComplete'
  <2> SUFFICES ASSUME NEW b \in Agent
               PROVE  got'[b] = Chosen(SubSeq(bus, 1, seenUpto'[b]), For(b))
    BY <1>1, <1>6 DEF InboxComplete
  <2>1. CASE b = a
    <3>1. SubSeq(bus, 1, Len(bus)) = bus
      BY <1>2
    <3> QED
      BY <1>7, <2>1, <3>1
  <2>2. CASE b # a
    BY <1>5, <2>2 DEF BusInv, InboxComplete
  <2> QED
    BY <2>1, <2>2
<1> QED
  BY <1>1, <1>4, <1>8, <1>9 DEF BusInv

\* A send, behind all that anybody has received.
LEMMA SendBus ==
  ASSUME BusInv, NEW a \in Agent \cup {"nobody"}, NEW to \in Agent \cup {"*"}, SendTo(a, to),
         UNCHANGED assignee
  PROVE  BusInv'
<1> DEFINE m == [id |-> nextId, from |-> a, to |-> to, n |-> Len(bus) + 1]
<1>1. bus' = Append(bus, m) /\ nextId' = nextId + 1 /\ UNCHANGED <<readBy, got, seenUpto>>
  BY DEF SendTo
<1>2. bus \in Seq(Sent) /\ nextId = Len(bus) /\ Len(bus) \in Nat
  BY DEF BusInv
<1>3. m \in Sent /\ m.id = nextId
  BY <1>2 DEF Sent
<1> HIDE DEF m
<1>4. /\ bus' \in Seq(Sent) /\ Len(bus') = Len(bus) + 1 /\ bus'[Len(bus) + 1] = m
      /\ DOMAIN bus' = 1 .. Len(bus) + 1
      /\ \A i \in 1 .. Len(bus) : bus'[i] = bus[i]
  BY <1>1, <1>2, <1>3
<1>5. \A i \in 1 .. Len(bus') : bus'[i].id = i - 1
  <2> SUFFICES ASSUME NEW i \in 1 .. Len(bus') PROVE bus'[i].id = i - 1
    OBVIOUS
  <2>1. CASE i \in 1 .. Len(bus)
    BY <1>4, <2>1 DEF BusInv
  <2>2. CASE i = Len(bus) + 1
    BY <1>2, <1>3, <1>4, <2>2
  <2> QED
    BY <1>2, <1>4, <2>1, <2>2
<1>6. ASSUME NEW b, NEW i \in 1 .. Len(bus) PROVE bus'[i] \in For(b)' <=> bus[i] \in For(b)
  <2>1. i \in DOMAIN bus' /\ bus'[i] = bus[i]
    BY <1>2, <1>4
  <2>2. bus'[i] \in Range(bus')
    BY <2>1 DEF Range
  <2> QED
    BY <2>1, <2>2, ForFacts DEF For
<1>7. ReadInv'
  <2> SUFFICES ASSUME NEW b \in Agent
               PROVE  /\ seenUpto'[b] \in 0 .. Len(bus')
                      /\ \A x : x \in readBy'[b] <=>
                           \E i \in 1 .. seenUpto'[b] : bus'[i] \in For(b)' /\ x = bus'[i].id
    BY DEF ReadInv
  <2>1. /\ seenUpto[b] \in 0 .. Len(bus)
        /\ \A x : x \in readBy[b] <=> \E i \in 1 .. seenUpto[b] : bus[i] \in For(b) /\ x = bus[i].id
    BY DEF BusInv, ReadInv
  <2>2. \A i \in 1 .. seenUpto[b] :
          i \in 1 .. Len(bus) /\ bus'[i] = bus[i] /\ (bus'[i] \in For(b)' <=> bus[i] \in For(b))
    BY <1>2, <1>4, <1>6, <2>1
  <2>3. seenUpto[b] \in 0 .. Len(bus')
    BY <1>2, <1>4, <2>1
  <2> QED
    BY <1>1, <2>1, <2>2, <2>3
<1>8. InboxComplete'
  <2> SUFFICES ASSUME NEW b \in Agent
               PROVE  got'[b] = Chosen(SubSeq(bus', 1, seenUpto'[b]), For(b)')
    BY DEF InboxComplete
  <2> DEFINE u == seenUpto[b]
             s == SubSeq(bus, 1, u)
             t == SubSeq(bus', 1, u)
  <2>1. u \in 0 .. Len(bus) /\ got[b] = Chosen(s, For(b))
    BY DEF BusInv, ReadInv, InboxComplete
  <2> HIDE DEF u
  <2>2. /\ s \in Seq(Sent) /\ Len(s) = u /\ \A i \in 1 .. u : s[i] = bus[i]
        /\ t \in Seq(Sent) /\ Len(t) = u /\ \A i \in 1 .. u : t[i] = bus'[i]
    BY <1>2, <1>4, <2>1
  <2>3. \A i \in 1 .. u : i \in 1 .. Len(bus) /\ s[i] = t[i] /\ (s[i] \in For(b) <=> s[i] \in For(b)')
    BY <1>2, <1>4, <1>6, <2>1, <2>2
  <2> HIDE DEF s, t
  <2>4. s = t
    BY <2>2, <2>3
  <2>5. \A i \in 1 .. Len(s) : s[i] \in For(b) <=> s[i] \in For(b)'
    BY <2>2, <2>3
  <2>6. Chosen(s, For(b)) = Chosen(t, For(b)')
    BY <2>2, <2>4, <2>5, ChosenSame
  <2> QED
    BY <1>1, <2>1, <2>6 DEF t, u
<1> QED
  BY <1>1, <1>2, <1>4, <1>5, <1>7, <1>8 DEF BusInv

LEMMA InitBus == TeamInit => BusInv
<1> SUFFICES ASSUME TeamInit PROVE BusInv
  OBVIOUS
<1> USE DEF TeamInit
<1>1. bus = <<>> /\ bus \in Seq(Sent) /\ Len(bus) = 0
  OBVIOUS
<1>2. ReadInv
  BY <1>1 DEF ReadInv
<1>3. InboxComplete
  <2> SUFFICES ASSUME NEW a \in Agent PROVE got[a] = Chosen(SubSeq(bus, 1, seenUpto[a]), For(a))
    BY DEF InboxComplete
  <2> DEFINE s == SubSeq(bus, 1, seenUpto[a])
             c == Chosen(s, For(a))
  <2>1. s \in Seq(Sent) /\ DOMAIN s = {}
    BY <1>1
  <2> HIDE DEF s
  <2>2. c \in Seq(Sent) /\ \A i \in DOMAIN c : \E n \in DOMAIN s : c[i] = s[n]
    BY <2>1, ChosenElements
  <2> HIDE DEF c
  <2>3. Len(c) = 0
    <3>1. DOMAIN c = 1 .. Len(c) /\ Len(c) \in Nat
      BY <2>2
    <3>2. 1 \notin DOMAIN c
      BY <2>1, <2>2, Zenon
    <3>3. 1 \notin 1 .. Len(c)
      BY <3>1, <3>2, Zenon
    <3> QED
      BY <3>1, <3>3, 1 <= 1
  <2>4. c = <<>>
    <3>1. c \in Seq(Sent)
      BY <2>2
    <3> QED
      BY <2>3, <3>1
  <2> QED
    BY <2>4 DEF c, s
<1> QED
  BY <1>1, <1>2, <1>3 DEF BusInv

LEMMA UnchangedBus ==
  ASSUME BusInv, UNCHANGED busVars, assignee' \in [Task -> Agent \cup {"nobody"}]
  PROVE  BusInv'
  BY DEF BusInv, busVars, ReadInv, InboxComplete, For

LEMMA AgentBus == ASSUME BusInv, NEW t \in Task, AgentOf(t) PROVE BusInv'
<1>1. assignee' = assignee /\ assignee[t] \in Agent \cup {"nobody"}
  BY DEF AgentOf, NoRuntime, ScriptEnds, Begin, Says, Hears, Remembers, Ask, Answered, Fails,
         OutOfTurns, teamVars, BusInv
<1>2. \/ UNCHANGED busVars \/ Receive(assignee[t])
      \/ \E to \in Agent \cup {"*"} : SendTo(assignee[t], to)
  BY AddressedAssumption DEF AgentOf, NoRuntime, ScriptEnds, Begin, Says, Hears, Remembers, Ask, Answered, Fails,
         OutOfTurns, teamVars
<1>3. CASE UNCHANGED busVars
  BY <1>1, <1>3, UnchangedBus DEF BusInv
<1> QED
  BY <1>1, <1>2, <1>3, ReceiveBus, SendBus

LEMMA MainBus == ASSUME BusInv, Main PROVE BusInv'
<1>1. UNCHANGED busVars
  BY DEF Main, Plan, Waves, LoadRefused, Synthesize, CleanUp
<1>2. assignee' \in [Task -> Agent \cup {"nobody"}]
  BY DEF Main, Plan, Waves, LoadRefused, Synthesize, CleanUp, BusInv
<1> QED
  BY <1>1, <1>2, UnchangedBus

\* What an agent has received when it asks, from any of its threads and however the
\* others send meanwhile, is exactly what was sent to it, or to all, by others until
\* then, each message once and in order; for every number of agents and messages.
THEOREM InboxesAreComplete == TeamSpec => []InboxComplete
<1>1. BusInv /\ [TeamNext]_<<vars, teamVars>> => BusInv'
  <2> SUFFICES ASSUME BusInv, [TeamNext]_<<vars, teamVars>> PROVE BusInv'
    OBVIOUS
  <2>1. CASE UNCHANGED <<vars, teamVars>>
    BY <2>1, UnchangedBus DEF teamVars, BusInv
  <2>2. CASE Servers
    BY <2>2, ServersApart, UnchangedBus DEF BusInv
  <2> QED
    BY <2>1, <2>2, AgentBus, MainBus DEF TeamNext
<1>2. BusInv => InboxComplete
  BY DEF BusInv
<1> QED
  BY <1>1, <1>2, InitBus, PTL DEF TeamSpec
=============================================================================
