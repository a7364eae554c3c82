------------------------------ MODULE ToolText ------------------------------
(***************************************************************************)
(* core/orchestrator/agentic.rs: what the agentic loop reads in a model's  *)
(* reply.  A reply is a sequence of tokens: the tags the functions search  *)
(* for, "words", and a tool t of Tool for a piece of text that parses as a *)
(* call of t (as JSON, after quoting its keys, or as call:t{...}).         *)
(***************************************************************************)
EXTENDS Integers, Sequences

CONSTANT Tool      \* names of tools

\* THINKING_MARKER_PAIRS, and the tags of parse_tool_calls in the order they are tried.
ThinkingPairs == << <<"think", "/think">>, <<"channel", "/channel">> >>
CallTags == << <<"call", "/call">>, <<"|call", "call|">>, <<"|call|", "|/call|">> >>

\* The first position of x in s from position i on, or 0.
Find(s, x, i) ==
  LET at == {j \in i .. Len(s) : s[j] = x}
  IN  IF at = {} THEN 0 ELSE CHOOSE j \in at : \A k \in at : j <= k

\* One pair of strip_thinking: every block goes, from an opening tag to the first
\* closing tag after it, and all of the text after an opening tag without one.
Strip(s, pair) ==
  LET rest[i \in 1 .. Len(s) + 1] ==
        IF i > Len(s) THEN <<>>
        ELSE IF s[i] # pair[1] THEN <<s[i]>> \o rest[i + 1]
        ELSE LET j == Find(s, pair[2], i) IN IF j = 0 THEN <<>> ELSE rest[j + 1]
  IN  rest[1]

StripThinking(s) == Strip(Strip(s, ThinkingPairs[1]), ThinkingPairs[2])

\* try_parse_json_tool_call and try_parse_call_colon_format on the inside of a block.
Parses(inner) == Len(inner) = 1 /\ inner[1] \in Tool

\* parse_tool_calls_with_tags: the calls between one pair of tags, in order; a block
\* that does not parse is passed over.
CallsBetween(s, pair) ==
  LET rest[i \in 1 .. Len(s) + 1] ==
        LET start == Find(s, pair[1], i)
            end == IF start = 0 THEN 0 ELSE Find(s, pair[2], start)
            inner == SubSeq(s, start + 1, end - 1)
        IN  IF end = 0 THEN <<>>
            ELSE (IF Parses(inner) THEN inner ELSE <<>>) \o rest[end + 1]
  IN  rest[1]

\* parse_tool_calls: the first kind of tags that gives any call.
ParseToolCalls(s) ==
  LET by[k \in 1 .. Len(CallTags) + 1] ==
        IF k > Len(CallTags) THEN <<>>
        ELSE IF CallsBetween(s, CallTags[k]) # <<>> THEN CallsBetween(s, CallTags[k])
        ELSE by[k + 1]
  IN  by[1]

(***************************************************************************)
(* What the functions are for, said without searching: a position is       *)
(* inside a thought when a tag before it opens one that no tag up to it    *)
(* closes; tags of the second kind inside a thought of the first are text. *)
(***************************************************************************)
InFirst(s, i) ==
  \E j \in 1 .. i - 1 : s[j] = "think" /\ \A k \in j .. i - 1 : s[k] # "/think"

InThought(s, i) ==
  \/ InFirst(s, i)
  \/ \E j \in 1 .. i - 1 :
       /\ s[j] = "channel" /\ ~InFirst(s, j)
       /\ \A k \in j .. i - 1 : s[k] = "/channel" => InFirst(s, k)

SpokenTools(s) == {s[i] : i \in {j \in 1 .. Len(s) : s[j] \in Tool /\ ~InThought(s, j)}}
=============================================================================
