------------------------------- MODULE DagRun -------------------------------
(***************************************************************************)
(* What running a workflow promises, with no queue, threads, waves or      *)
(* semaphore: tasks with needs, each run at most once, after everything it *)
(* needs has succeeded; when a task fails, at once everything that needed  *)
(* it, directly or through others, is skipped.                             *)
(***************************************************************************)
CONSTANTS Task,
          Missing

VARIABLES needs, state

vars == <<needs, state>>

Init ==
  /\ needs = [t \in Task |-> {}]
  /\ state = [t \in Task |-> "unknown"]

Declare(t) ==
  /\ state[t] = "unknown"
  /\ state' = [state EXCEPT ![t] = "todo"]
  /\ \E D \in SUBSET (Task \cup {Missing}) : needs' = [needs EXCEPT ![t] = D]

Begin(t) ==
  /\ state[t] = "todo"
  /\ \A d \in needs[t] : d \in Task /\ state[d] = "ok"
  /\ state' = [state EXCEPT ![t] = "running"]
  /\ UNCHANGED needs

Succeed(t) ==
  /\ state[t] = "running"
  /\ state' = [state EXCEPT ![t] = "ok"]
  /\ UNCHANGED needs

\* S is the part of what is still to do that cannot be done without t.
DependsOnFailure(S, t) ==
  S = {u \in Task : state[u] = "todo" /\ needs[u] \cap (S \cup {t}) # {}}

Break(t) ==
  /\ state[t] = "running"
  /\ \E S \in SUBSET Task :
       /\ DependsOnFailure(S, t)
       /\ state' = [u \in Task |-> IF u = t THEN "failed"
                                   ELSE IF u \in S THEN "skipped"
                                   ELSE state[u]]
  /\ UNCHANGED needs

Next == \E t \in Task : Declare(t) \/ Begin(t) \/ Succeed(t) \/ Break(t)

Spec == Init /\ [][Next]_vars
=============================================================================
