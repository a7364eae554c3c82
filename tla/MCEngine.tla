------------------------------ MODULE MCEngine ------------------------------
(***************************************************************************)
(* Engine for TLC: who makes the requests, which of them is a fork, and    *)
(* which session is saved under a template.                                *)
(***************************************************************************)
EXTENDS Engine

CONSTANTS a, b

NoParent == [r \in Req |-> Null]
OwnTemplate == [s \in Session |-> IF s = a THEN Template ELSE {}]
ForkOfFirst == [r \in Req |-> IF r = 2 THEN 1 ELSE Null]
OneRequest == <<a>>
TwoTurns == <<a, a>>
ThreeRequests == <<a, b, a>>
TurnsAndFork == <<a, a, b>>
FourRequests == <<a, b, a, Null>>
=============================================================================
