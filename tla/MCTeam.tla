------------------------------- MODULE MCTeam -------------------------------
(***************************************************************************)
(* Team for TLC: two tasks, two agents that may share or swap them, one of *)
(* which names a backend of its own, two messages and a turn each.         *)
(***************************************************************************)
EXTENDS Team

MCAgent == {"writer", "tester"}
OwnBackend == [a \in MCAgent |-> IF a = "tester" THEN "away" ELSE "home"]
=============================================================================
