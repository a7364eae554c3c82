----------------------------- MODULE TaskQueue -----------------------------
(***************************************************************************)
(* The task queue of core/orchestrator/task.rs: a set of tasks with        *)
(* dependencies and a status each, and the operations the workflow runner  *)
(* performs on it.  Task i of the workflow file is the number i, which is  *)
(* the queue's insertion order; a dependency title no task of the file has *)
(* is kept by load_tasks as it stands and is the value Missing here.       *)
(***************************************************************************)
EXTENDS Integers, FiniteSets

CONSTANTS NTasks,   \* number of tasks of the workflow
          Missing   \* a dependency that names no task

ASSUME TaskAssumption == NTasks \in Nat \ {0} /\ Missing \notin 1 .. NTasks

Task == 1 .. NTasks

VARIABLES deps,     \* deps[t]: what t depends on (Task::depends_on)
          status    \* status[t]: Task::status, "absent" while t is not in the queue

queueVars == <<deps, status>>

Status == {"absent", "blocked", "pending", "in_progress", "completed", "failed"}

Terminal == {"completed", "failed"}

Loaded == {t \in Task : status[t] # "absent"}

Having(s) == {t \in Task : status[t] = s}

QueueInit ==
  /\ deps = [t \in Task |-> {}]
  /\ status = [t \in Task |-> "absent"]

(***************************************************************************)
(* check_cycles: the graph d has a cycle among the tasks of S exactly when *)
(* some non-empty part of S has, for each member, a dependency inside it.  *)
(***************************************************************************)
Cyclic(d, S) == \E C \in (SUBSET S) \ {{}} : \A t \in C : d[t] \cap C # {}

\* TaskQueue::add is refused: the task depends on itself or closes a cycle.
AddRefused(t, D) == Cyclic([deps EXCEPT ![t] = D], Loaded \cup {t})

\* A wrong add: a task is ready as soon as the dependencies it has in the queue are done.
AddSkippingUnknown(t, D) ==
  /\ ~AddRefused(t, D)
  /\ deps' = [deps EXCEPT ![t] = D]
  /\ status' = [status EXCEPT ![t] = IF D \cap Loaded \subseteq Having("completed")
                                       THEN "pending" ELSE "blocked"]

\* TaskQueue::add of task t with dependencies D.
Add(t, D) ==
  /\ ~AddRefused(t, D)
  /\ deps' = [deps EXCEPT ![t] = D]
  /\ status' = [status EXCEPT ![t] = IF D \subseteq Having("completed")
                                       THEN "pending" ELSE "blocked"]

\* next_ready, has_in_progress and is_done.
Ready == Having("pending")
HasInProgress == Having("in_progress") # {}
IsDone == Loaded \subseteq Having("completed") \cup Having("failed")

Start(t) ==
  /\ status' = [status EXCEPT ![t] = "in_progress"]
  /\ UNCHANGED deps

\* A wrong complete: one completed dependency is enough to promote a task.
CompletePromotesEarly(t) ==
  LET done == Having("completed") \cup {t}
  IN  /\ status' = [u \in Task |->
                      IF u = t THEN "completed"
                      ELSE IF status[u] = "blocked" /\ deps[u] \cap done # {}
                             THEN "pending"
                      ELSE status[u]]
      /\ UNCHANGED deps

\* A wrong complete: promote_blocked is forgotten.
CompleteWithoutPromotion(t) ==
  /\ status' = [status EXCEPT ![t] = "completed"]
  /\ UNCHANGED deps

\* complete: t is completed, then promote_blocked runs over the whole queue.
Complete(t) ==
  LET done == Having("completed") \cup {t}
  IN  /\ status' = [u \in Task |->
                      IF u = t THEN "completed"
                      ELSE IF status[u] = "blocked" /\ deps[u] \subseteq done
                             THEN "pending"
                      ELSE status[u]]
      /\ UNCHANGED deps

(***************************************************************************)
(* cascade_failures: what the frontier search from t reaches, walking from *)
(* a task to its dependents that are not yet terminal.  It is the least    *)
(* set of tasks closed under that step.                                    *)
(***************************************************************************)
ClosedUnderFailure(S, t) ==
  \A u \in Loaded \ {t} :
    (status[u] \notin Terminal /\ deps[u] \cap (S \cup {t}) # {}) => u \in S

\* A wrong cascade: only the direct dependents fail.
DirectDependents(t) == {u \in Loaded : status[u] \notin Terminal /\ t \in deps[u]}

\* A wrong cascade: the siblings of the failed task, which wait for the same, fail too.
CascadeToSiblings(t) ==
  {u \in Loaded \ {t} : /\ status[u] \notin Terminal
                        /\ deps[u] \cap (deps[t] \cup {t}) # {}}

\* A wrong cascade: tasks that have completed already are not spared.
CascadeToCompleted(t) == {u \in Loaded \ {t} : status[u] \in Terminal \/ t \in deps[u]}

Cascade(t) == {u \in Task : \A S \in SUBSET Task : ClosedUnderFailure(S, t) => u \in S}

\* A wrong fail: the search enters the unknown titles it meets into the queue as well.
FailUnknownTitles(t) ==
  /\ status' = [u \in Task \cup UNION {deps[v] : v \in Cascade(t)} |->
                  IF u \in Task \ (Cascade(t) \cup {t}) THEN status[u] ELSE "failed"]
  /\ UNCHANGED deps

\* fail: t fails, then cascade_failures fails all the search reaches.
Fail(t) ==
  /\ status' = [u \in Task |-> IF u = t \/ u \in Cascade(t) THEN "failed" ELSE status[u]]
  /\ UNCHANGED deps

(***************************************************************************)
(* What the queue promises about dependencies.                             *)
(***************************************************************************)

\* TypeOK: the queue's variables have their types.
QueueTypeOK ==
  /\ deps \in [Task -> SUBSET (Task \cup {Missing})]
  /\ status \in [Task -> Status]

\* A task runs, or has completed, only when everything it depends on is a task of
\* the queue that has completed (add, promote_blocked and next_ready together).
DependenciesFirst ==
  \A t \in Having("in_progress") \cup Having("completed") : deps[t] \subseteq Having("completed")

\* When a task has failed no dependent of it is left that could still run: the
\* cascade of fail() reached every one of them.
FailureReachesDependents ==
  \A t \in Loaded : deps[t] \cap Having("failed") # {} => status[t] = "failed"
=============================================================================
