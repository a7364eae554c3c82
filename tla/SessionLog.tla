----------------------------- MODULE SessionLog -----------------------------
(***************************************************************************)
(* What a client of the server may rely on.  A session is a log of the     *)
(* tokens its requests put into the model's context: it is opened empty,   *)
(* it only ever grows, by tokens of its own requests at consecutive        *)
(* positions, and it may be given up.  Where the engine keeps the tokens,  *)
(* in a sequence, a RAM snapshot or a state file, cannot be seen here.     *)
(***************************************************************************)
EXTENDS Integers, Sequences, SequencesExt

CONSTANTS Session, Req, SessionOf, Null

VARIABLE log    \* log[s]: the tokens of session s, Null while there is no such session

Cell == [pos : Nat, of : Req]

Init == log = [s \in Session |-> Null]

Open(s) ==
  /\ log[s] = Null
  /\ log' = [log EXCEPT ![s] = <<>>]

\* new is old with tokens of session s after it.
Extends(s, new, old) ==
  /\ IsPrefix(old, new)
  /\ \A i \in Len(old) + 1 .. Len(new) :
       new[i].pos = i - 1 /\ SessionOf[new[i].of] = s

\* A batch may hold tokens of several sessions.
Extend ==
  /\ log' \in [Session -> Seq(Cell) \cup {Null}]
  /\ \A s \in Session :
       \/ log'[s] = log[s]
       \/ log[s] # Null /\ log'[s] # Null /\ Extends(s, log'[s], log[s])

\* A client deletes a session, or the server goes down with all of them.
End(S) == log' = [s \in Session |-> IF s \in S THEN Null ELSE log[s]]

Next ==
  \/ \E s \in Session : Open(s)
  \/ Extend
  \/ \E S \in SUBSET Session : End(S)

Spec == Init /\ [][Next]_log
=============================================================================
