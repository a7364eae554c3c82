----------------------------- MODULE MCWorkflow -----------------------------
(***************************************************************************)
(* Workflow for TLC.  Four tasks with every dependency graph over them and *)
(* over an unknown title: four is what a diamond takes, and two permits    *)
(* are fewer than the widest wave.                                         *)
(***************************************************************************)
EXTENDS Workflow
=============================================================================
