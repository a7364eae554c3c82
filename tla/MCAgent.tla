------------------------------ MODULE MCAgent ------------------------------
(***************************************************************************)
(* Agent for TLC: two tools, of which one asks the MCP server twice, two   *)
(* turns, and replies with and without thoughts and calls.                 *)
(***************************************************************************)
EXTENDS Agent

ModelReplies ==
  { <<"words">>,
    <<"think", "call", "plain", "/call", "/think", "words">>,
    <<"call", "asks", "/call", "call", "plain", "/call">>,
    <<"channel", "think", "/channel", "|call", "plain", "call|", "/think", "|call", "asks", "call|">>,
    <<"call", "defers", "/call", "call", "plain", "/call">> }

MCTool == {"plain", "asks", "defers"}
=============================================================================
