-------------------------------- MODULE Host --------------------------------
(***************************************************************************)
(* One run of an agent's module by JsRuntime or WasmRuntime, and the host  *)
(* calls it makes: files (HostFs), net.fetch, run_command and spawn, and   *)
(* the streamed chat.  A JavaScript module runs until it waits and its     *)
(* callbacks run when a call settles; a WebAssembly guest stands still     *)
(* during a call.                                                          *)
(***************************************************************************)
EXTENDS HostFs, Filtering

CONSTANTS
  Agents,      \* agents: [host, calls, perm, mode, tree, net, shell, timeout]
  Site,        \* targets of fetches: [name, http, literal, addrs], addrs the kinds
               \* of address that the resolver gives for the name, now or later
  Program,     \* programs
  Bodies,      \* bodies of streamed answers, as sequences of pieces
  Data,        \* lines that hold text
  MaxChildren  \* bound: operating system processes alive at once

ASSUME AgentAssumption ==
  \A g \in Agents : IsTree(g.tree) /\ g.perm.allowed \subseteq Seq(Name)

ASSUME SiteAssumption ==
  \A s \in Site :
    s.addrs \in {{"public"}, {"private"}} \cup (IF s.literal THEN {} ELSE {{"public", "private"}})

ASSUME BodyAssumption == \A body \in Bodies : body \in Seq(Range(body))

VARIABLES
  agent,     \* the AgentConfig
  turn,      \* "start", then "guest" or "host": who runs, then "end"
  call,      \* the host call under way
  requests,  \* requests the last fetch has sent, in order: [site, to]
  children,  \* processes that are alive
  cut,       \* whether a timeout abandoned a call
  result,    \* result_json, explicit_output
  returned,  \* what the module's code did: "pending", "value" or "error"
  outcome    \* what run_module returned

runVars == <<agent, turn, call, requests, children, cut, result, returned, outcome>>
hostVars == <<fsVars, runVars>>

NoCall ==
  [kind |-> "none", site |-> {}, hop |-> 0, step |-> "check", left |-> <<>>, got |-> <<>>, buffer |-> <<>>, text |-> <<>>]

Init ==
  /\ agent \in Agents
  /\ FsInit(agent.tree, agent.perm, agent.mode)
  /\ turn = "start"
  /\ call = NoCall
  /\ requests = <<>>
  /\ children = 0 /\ cut = FALSE
  /\ result = "unset" /\ returned = "pending" /\ outcome = "none"

Js == agent.host = "js"
Wasm == agent.host = "wasm"

(***************************************************************************)
(* run_module: an entry or mount that does not fit ends it at once.        *)
(***************************************************************************)
Start ==
  /\ turn = "start"
  /\ \/ turn' = "guest" /\ UNCHANGED outcome
     \/ turn' = "end" /\ outcome' = "error"
  /\ UNCHANGED <<fsVars, agent, call, requests, children, cut, result, returned>>

SetResult ==
  /\ turn = "guest" /\ "result" \in agent.calls
  /\ result' = "set"
  /\ UNCHANGED <<fsVars, agent, turn, call, requests, children, cut, returned, outcome>>

\* A fs call returns before the guest goes on, on both hosts.
FileCall ==
  /\ turn = "guest" /\ "fs" \in agent.calls
  /\ FsNext
  /\ UNCHANGED runVars

\* A call begins: JavaScript has a promise and goes on, the guest of Wasm waits.
Begins(c) ==
  /\ turn = "guest" /\ call = NoCall
  /\ call' = c
  /\ turn' = IF Wasm THEN "host" ELSE turn
  /\ UNCHANGED <<fsVars, agent, cut, result, returned, outcome>>

\* A call settles: the callbacks of its promise run, or the guest goes on.
Returns ==
  /\ call' = NoCall
  /\ turn' = "guest"
  /\ UNCHANGED <<fsVars, agent, result, returned, outcome>>

\* What a module that has failed leaves behind: with a run timeout only the timeout's
\* own error is looked at.
Trapped == IF agent.timeout THEN IF result = "unset" THEN "null" ELSE result ELSE "error"

\* An error is a rejected promise for JavaScript and a trap for Wasm.
Fails ==
  /\ call' = NoCall
  /\ IF Js THEN turn' = "guest" /\ UNCHANGED <<returned, outcome>>
     ELSE turn' = "end" /\ returned' = "error" /\ outcome' = Trapped
  /\ UNCHANGED <<fsVars, agent, result>>

Pending(kind) == turn = "host" /\ call.kind = kind

(***************************************************************************)
(* net.fetch: at most six requests.  A name is looked up for the check,    *)
(* and once more by the client when it sends: its address may have changed.*)
(***************************************************************************)
MaxRedirects == 5

\* validate_net_fetch_target.
TargetPermitted(s) ==
  /\ agent.net.allow
  /\ s.http
  /\ agent.net.sites = {} \/ s.name \in agent.net.sites

\* JavaScript looks a name up only when there is something to check.
LooksUp == Wasm \/ agent.net.block

\* The addresses a check looks at; a literal address is its own.
Found(s) == IF LooksUp THEN (SUBSET s.addrs) \ {{}} ELSE {{}}

\* ensure_public_network_access.
AddressesPermitted(found) == agent.net.block => "private" \notin found

\* A wrong check: only the address that was asked for is looked at.
PermittedFirst(s, hop, found) == TargetPermitted(s) /\ (hop > 0 \/ AddressesPermitted(found))

HopPermitted(s, hop, found) == TargetPermitted(s) /\ AddressesPermitted(found)

GoesOn(hop) == hop < MaxRedirects

Fetch ==
  /\ "fetch" \in agent.calls
  /\ \E s \in Site : Begins([NoCall EXCEPT !.kind = "fetch", !.site = s])
  /\ requests' = <<>>
  /\ UNCHANGED children

\* The target is checked, with what the lookup of its name has given; it may fail.
CheckHop ==
  /\ Pending("fetch") /\ call.step = "check"
  /\ \/ \E found \in Found(call.site) :
          IF HopPermitted(call.site, call.hop, found)
            THEN /\ call' = [call EXCEPT !.step = "send"]
                 /\ UNCHANGED <<fsVars, agent, turn, result, returned, outcome>>
            ELSE Fails
     \/ LooksUp /\ ~call.site.literal /\ Fails
  /\ UNCHANGED <<requests, children, cut>>

\* The client connects to an address of its own lookup.
SendHop ==
  /\ Pending("fetch") /\ call.step = "send"
  /\ \E to \in call.site.addrs : requests' = Append(requests, [site |-> call.site, to |-> to])
  /\ call' = [call EXCEPT !.step = "answer"]
  /\ UNCHANGED <<fsVars, agent, turn, children, cut, result, returned, outcome>>

\* No answer, an answer, or a redirect, whose target is checked like the first.
HopAnswered ==
  /\ Pending("fetch") /\ call.step = "answer"
  /\ \/ Returns
     \/ Fails
     \/ \E s \in Site :
          IF GoesOn(call.hop)
            THEN /\ call' = [call EXCEPT !.site = s, !.hop = @ + 1, !.step = "check"]
                 /\ UNCHANGED <<fsVars, agent, turn, result, returned, outcome>>
            ELSE Fails
  /\ UNCHANGED <<requests, children, cut>>

(***************************************************************************)
(* run_command and spawn.  Wasm hands run_command to a shell unseen.       *)
(***************************************************************************)
ProgramAllowed(p, viaShell) ==
  /\ agent.shell.allow
  /\ (Wasm /\ viaShell) \/ (p \in agent.shell.only /\ p \notin agent.shell.never)

RunProcess ==
  /\ "process" \in agent.calls
  /\ children < MaxChildren
  /\ \E p \in Program, viaShell \in BOOLEAN : ProgramAllowed(p, viaShell)
  /\ Begins([NoCall EXCEPT !.kind = "process"])
  /\ children' = children + 1
  /\ UNCHANGED requests

\* A refused program fails the call before it waits.
RefuseProcess ==
  /\ turn = "guest" /\ call = NoCall /\ "process" \in agent.calls
  /\ \E p \in Program, viaShell \in BOOLEAN : ~ProgramAllowed(p, viaShell)
  /\ Fails
  /\ UNCHANGED <<requests, children, cut>>

ProcessEnds ==
  /\ Pending("process")
  /\ Returns
  /\ children' = children - 1
  /\ UNCHANGED <<requests, cut>>

\* The future of Command::output is dropped; the process goes on.
ProcessTimesOut ==
  /\ Pending("process") /\ agent.shell.timeout
  /\ Fails
  /\ cut' = TRUE
  /\ UNCHANGED <<requests, children>>

LeftProcessEnds ==
  /\ children > (IF call.kind = "process" THEN 1 ELSE 0)
  /\ children' = children - 1
  /\ UNCHANGED <<fsVars, agent, turn, call, requests, cut, result, returned, outcome>>

(***************************************************************************)
(* chat_stream: lines in chunks cut anywhere, each decoded by itself       *)
(* (from_utf8_lossy): a piece that is cut in two is garbled in both.       *)
(***************************************************************************)
Newline == "newline"
Garbled == "garbled"

\* What the next chunk may hold, and the rest of the body.
Chunks(left) ==
  {<<SubSeq(left, 1, n), SubSeq(left, n + 1, Len(left))>> : n \in 1 .. Len(left)}
  \cup {<<Append(SubSeq(left, 1, n - 1), Garbled), <<Garbled>> \o SubSeq(left, n + 1, Len(left))>> :
          n \in {k \in 1 .. Len(left) : left[k] \notin {Newline, Garbled}}}

AddTo(lines, x) ==
  IF x = Newline THEN Append(lines, <<>>) ELSE Append(Front(lines), Append(Last(lines), x))

\* The lines of s; the last one has no newline yet.
Lines(s) ==
  LET upTo[n \in 0 .. Len(s)] == IF n = 0 THEN << <<>> >> ELSE AddTo(upTo[n - 1], s[n])
  IN  upTo[Len(s)]

\* Those of the lines that hold text.
Deltas(lines) == Chosen(lines, Data)

\* The JavaScript host reads every chunk by itself.
PerChunk(c, chunk) == [c EXCEPT !.text = @ \o Deltas(Lines(chunk))]

\* The Wasm host keeps the line that is not complete.
Buffered(c, chunk) ==
  LET lines == Lines(c.buffer \o chunk)
  IN  [c EXCEPT !.text = @ \o Deltas(Front(lines)), !.buffer = Last(lines)]

ChatStream ==
  /\ "stream" \in agent.calls
  /\ \E body \in Bodies : Begins([NoCall EXCEPT !.kind = "stream", !.left = body])
  /\ UNCHANGED <<requests, children>>

\* The callbacks of a stream, of both hosts, may set the result.
ReceiveChunk ==
  /\ Pending("stream")
  /\ \E part \in Chunks(call.left) :
       LET c == [call EXCEPT !.got = @ \o part[1], !.left = part[2]]
       IN  call' = IF Js THEN PerChunk(c, part[1]) ELSE Buffered(c, part[1])
  /\ result' \in {result} \cup IF "result" \in agent.calls THEN {"set"} ELSE {}
  /\ UNCHANGED <<fsVars, agent, turn, requests, children, cut, returned, outcome>>

\* The body ends, whole or early: what is left in the buffer is a line too.
FullText(c) == c.text \o Deltas(<<c.buffer>>)

StreamEnds ==
  /\ Pending("stream")
  /\ Returns \/ Fails
  /\ UNCHANGED <<requests, children, cut>>

(***************************************************************************)
(* The module's code ends.                                                 *)
(***************************************************************************)

\* A JavaScript module waits: its default export has returned, thrown, or returned a
\* promise that settles now or in a later callback.
JsWaits ==
  /\ Js /\ turn = "guest"
  /\ returned' \in IF returned = "pending" THEN {"pending", "value", "error"} ELSE {returned}
  /\ turn' = "host"
  /\ UNCHANGED <<fsVars, agent, call, requests, children, cut, result, outcome>>

\* A wrong run_module: it takes the result as soon as there is one.
AnsweredAlready == returned # "pending" \/ call = NoCall

\* wait_idle: no promise is left.
Idle == call = NoCall

JsEnds ==
  /\ Js /\ turn = "host" /\ Idle
  /\ turn' = "end"
  /\ outcome' = IF result # "unset" THEN result ELSE IF returned = "pending" THEN "null" ELSE returned
  /\ UNCHANGED <<fsVars, agent, call, requests, children, cut, result, returned>>

WasmEnds ==
  /\ Wasm /\ turn = "guest"
  /\ turn' = "end"
  /\ returned' \in {"value", "error"}
  /\ outcome' = IF returned' = "error" THEN Trapped ELSE IF result = "unset" THEN "null" ELSE result
  /\ UNCHANGED <<fsVars, agent, call, requests, children, cut, result>>

\* tokio's timeout, which fires only while the guest waits for a call.
RunTimesOut ==
  /\ Wasm /\ turn = "host" /\ agent.timeout
  /\ turn' = "end"
  /\ outcome' = "error"
  /\ call' = NoCall /\ cut' = TRUE
  /\ UNCHANGED <<fsVars, agent, requests, children, result, returned>>

(***************************************************************************)
(* Calls of which only the order matters: a line of input, a chat that is  *)
(* not streamed, and the MCP tools.                                        *)
(***************************************************************************)
Consultation == {"input", "chat", "tools"}

Consults(kind) ==
  /\ kind \in agent.calls
  /\ Begins([NoCall EXCEPT !.kind = kind])
  /\ UNCHANGED <<requests, children>>

ReadInput == Consults("input")

AskModel == Consults("chat")

UseTools == Consults("tools")

\* It returns, or the input is at its end, the request fails, or no server has the tool.
Consulted ==
  /\ \E kind \in Consultation : Pending(kind)
  /\ Returns \/ Fails
  /\ UNCHANGED <<requests, children, cut>>

Module == Start \/ SetResult \/ FileCall \/ JsWaits \/ JsEnds \/ WasmEnds \/ RunTimesOut
Fetches == Fetch \/ CheckHop \/ SendHop \/ HopAnswered
Processes == RunProcess \/ RefuseProcess \/ ProcessEnds \/ ProcessTimesOut \/ LeftProcessEnds
Streams == ChatStream \/ ReceiveChunk \/ StreamEnds

Consultations == ReadInput \/ AskModel \/ UseTools \/ Consulted

Next == Module \/ Fetches \/ Processes \/ Streams \/ Consultations

Spec == Init /\ [][Next]_hostVars

(***************************************************************************)
(* Properties.                                                             *)
(***************************************************************************)

\* However sites redirect, and whatever names come to stand for between a check and the
\* request it is made for: no more than six requests leave, all for targets the agent may
\* name, and with private networks blocked one reaches a private address only through a
\* name that has a public one too, never by an address that was written out.
RequestsPermitted ==
  /\ Len(requests) <= MaxRedirects + 1
  /\ \A n \in DOMAIN requests :
       LET r == requests[n]
       IN  /\ TargetPermitted(r.site)
           /\ agent.net.block /\ r.to = "private" => ~r.site.literal /\ "public" \in r.site.addrs

\* What block_private_networks is for.  The program does not do so: a name that is public
\* when it is checked may be private when the client looks it up again.
PrivateStaysBlocked ==
  agent.net.block => \A n \in DOMAIN requests : requests[n].to # "private"

\* The text a streamed chat has when its body ends is that of all the lines it was sent,
\* as decoded, wherever the network cut them.
WholeText(c) == FullText(c) = Deltas(Lines(c.got))

WasmStreamWhole == Wasm /\ call.kind = "stream" => WholeText(call)
JsStreamWhole == Js /\ call.kind = "stream" => WholeText(call)

\* A process is alive after the run only when a timeout gave up on one.
NoProcessLeft == turn = "end" /\ children > 0 => cut

\* A trap or a failed call of a Wasm guest fails the run.
TrapsFailTheRun == Wasm /\ returned = "error" => outcome = "error"
=============================================================================
