------------------------------ MODULE Filtering ------------------------------
(***************************************************************************)
(* iter().filter(...).collect(), which several parts of the program use:   *)
(* the elements of a sequence that are in a set, in their order.           *)
(*                                                                         *)
(* It is SelectSeq with a set in the place of the test, and recursion in a *)
(* function in that of a recursive operator, so that it can be reasoned    *)
(* about (module FilteringProofs).                                         *)
(***************************************************************************)
EXTENDS Integers, Sequences

Chosen(s, K) ==
  LET upTo[n \in 0 .. Len(s)] ==
        IF n = 0 THEN <<>>
        ELSE IF s[n] \in K THEN Append(upTo[n - 1], s[n]) ELSE upTo[n - 1]
  IN  upTo[Len(s)]
=============================================================================
