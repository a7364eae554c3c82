----------------------------- MODULE HostProofs -----------------------------
(***************************************************************************)
(* Proofs about Host, for all agents, sites and file trees: where a fetch  *)
(* sends requests, what becomes of the processes an agent starts, whether  *)
(* a streamed answer arrives whole, and which files are seen or changed.   *)
(*                                                                         *)
(* Which request is the next one is known only with the hop the call is at *)
(* (FetchInv), and that a run ends without a call under way only with what *)
(* each host does while a call waits (TurnInv).  A stream is whole because *)
(* the text is that of the complete lines of what has arrived, and the     *)
(* buffer the line that is not complete (StreamInv).                       *)
(*                                                                         *)
(* The theorems on files take the links of the tree to be as HostFs says:  *)
(* none leads over another one (Straight).  LinksStayStraight says when a  *)
(* tree that is so at the start remains so.                                *)
(***************************************************************************)
EXTENDS Host, FilteringProofs, FiniteSetTheorems

CallFields ==
  call = [kind |-> call.kind, site |-> call.site, hop |-> call.hop, step |-> call.step,
          left |-> call.left, got |-> call.got, buffer |-> call.buffer, text |-> call.text]

Request == [site : Site, to : {"public", "private"}]

\* What a check that has let a target through has found.
Cleared(s) ==
  /\ TargetPermitted(s)
  /\ agent.net.block => "public" \in s.addrs /\ (s.literal => s.addrs = {"public"})

\* A fetch under way has sent one request for every hop before the one it is at, and sends
\* the next one only to a target that has been checked.
FetchInv ==
  call.kind = "fetch" =>
    /\ call.site \in Site
    /\ call.hop \in 0 .. MaxRedirects
    /\ call.step \in {"check", "send", "answer"}
    /\ Len(requests) = call.hop + (IF call.step = "answer" THEN 1 ELSE 0)
    /\ call.step = "send" => Cleared(call.site)

\* A guest of Wasm that runs has no call under way, nor has a module before or after.
TurnInv ==
  /\ turn \in {"start", "end"} => call = NoCall
  /\ Wasm /\ turn = "guest" => call = NoCall

\* Unless a timeout gave up on one, there is a process exactly while a call waits for it.
ChildrenInv == ~cut => children = IF call.kind = "process" THEN 1 ELSE 0

IInv ==
  /\ CallFields
  /\ requests \in Seq(Request)
  /\ FetchInv
  /\ RequestsPermitted
  /\ TurnInv
  /\ ChildrenInv

LEMMA InitIInv == Init => IInv
  BY DEF Init, IInv, CallFields, FetchInv, RequestsPermitted, TurnInv, ChildrenInv, NoCall,
         MaxRedirects

LEMMA NoCallFields == NoCall.kind = "none"
  BY DEF NoCall

\* A step that settles or leaves the call and sends nothing keeps what is known of requests.
LEMMA QuietStep ==
  ASSUME IInv, CallFields', UNCHANGED <<requests, agent>>,
         call'.kind # "fetch" \/ call' = call
  PROVE  /\ requests' \in Seq(Request)
         /\ FetchInv' /\ RequestsPermitted'
  BY DEF IInv, FetchInv, RequestsPermitted, Cleared, TargetPermitted

LEMMA ModuleStep ==
  ASSUME IInv, Module
  PROVE  IInv'
<1> USE DEF CallFields, TurnInv, ChildrenInv, Wasm, Js, NoCall
<1>1. CASE Start
  <2>1. UNCHANGED <<call, requests, agent, children, cut>> /\ turn = "start"
    BY <1>1 DEF Start
  <2> QED BY <2>1, QuietStep DEF IInv
<1>2. CASE SetResult \/ FileCall
  <2>1. UNCHANGED <<call, requests, agent, children, cut, turn>>
    BY <1>2 DEF SetResult, FileCall, runVars
  <2> QED BY <2>1, QuietStep DEF IInv
<1>3. CASE JsWaits \/ JsEnds
  <2>1. UNCHANGED <<call, requests, agent, children, cut>>
    BY <1>3 DEF JsWaits, JsEnds
  <2>2. turn' = "host" \/ (turn' = "end" /\ call = NoCall)
    BY <1>3 DEF JsWaits, JsEnds, Idle
  <2> QED BY <2>1, <2>2, QuietStep DEF IInv
<1>4. CASE WasmEnds
  <2>1. UNCHANGED <<call, requests, agent, children, cut>> /\ turn' = "end" /\ call = NoCall
    BY <1>4 DEF WasmEnds, IInv
  <2> QED BY <2>1, QuietStep DEF IInv
<1>5. CASE RunTimesOut
  <2>1. UNCHANGED <<requests, agent, children>> /\ call' = NoCall /\ cut'
    BY <1>5 DEF RunTimesOut
  <2> QED BY <2>1, QuietStep DEF IInv
<1> QED
  BY <1>1, <1>2, <1>3, <1>4, <1>5 DEF Module

\* What beginning, settling and failing do to the call and to whose turn it is.
LEMMA BeginsTurn ==
  ASSUME NEW c, Begins(c)
  PROVE  /\ call = NoCall /\ call' = c
         /\ turn' = (IF Wasm THEN "host" ELSE turn) /\ turn = "guest"
         /\ UNCHANGED <<agent, cut>>
  BY DEF Begins

LEMMA SettlesTurn ==
  ASSUME Returns \/ Fails
  PROVE  call' = NoCall /\ turn' \in {"guest", "end"} /\ UNCHANGED agent
  BY DEF Returns, Fails

LEMMA FetchStep ==
  ASSUME IInv, Fetches
  PROVE  IInv'
<1> USE DEF CallFields, TurnInv, ChildrenInv
<1>1. CASE Fetch
  <2>1. PICK s \in Site : Begins([NoCall EXCEPT !.kind = "fetch", !.site = s])
    BY <1>1 DEF Fetch
  <2>2. /\ call' = [NoCall EXCEPT !.kind = "fetch", !.site = s]
        /\ call = NoCall /\ turn = "guest" /\ turn' = (IF Wasm THEN "host" ELSE turn)
        /\ UNCHANGED <<agent, cut, children>>
    BY <2>1, <1>1, BeginsTurn DEF Fetch
  <2>3. requests' = <<>>
    BY <1>1 DEF Fetch
  <2>4. CallFields' /\ call'.kind = "fetch" /\ call'.site = s /\ call'.hop = 0 /\ call'.step = "check"
    BY <2>2 DEF NoCall
  <2>5. FetchInv' /\ RequestsPermitted'
    <3>1. requests' \in Seq(Request) /\ Len(requests') = 0
      BY <2>3
    <3> HIDE DEF CallFields
    <3>2. FetchInv'
      <4>1. call'.site \in Site
        BY <2>4
      <4>2. call'.hop \in 0 .. MaxRedirects
        BY <2>4 DEF MaxRedirects
      <4>3. call'.step = "check"
        BY <2>4
      <4>4. Len(requests') = call'.hop + (IF call'.step = "answer" THEN 1 ELSE 0)
        BY <2>4, <3>1, <4>3
      <4> QED BY <4>1, <4>2, <4>3, <4>4 DEF FetchInv
    <3>3. RequestsPermitted'
      BY <3>1 DEF RequestsPermitted, MaxRedirects
    <3> QED BY <3>2, <3>3
  <2>6. TurnInv' /\ ChildrenInv'
    BY <2>2, <2>4, NoCallFields DEF IInv, Wasm
  <2>7. requests' \in Seq(Request)
    BY <2>3
  <2> QED BY <2>4, <2>5, <2>6, <2>7 DEF IInv
<1>2. CASE CheckHop
  <2>1. call.kind = "fetch" /\ turn = "host" /\ call.step = "check" /\ UNCHANGED <<requests, children, cut>>
    BY <1>2 DEF CheckHop, Pending
  <2>2. CASE Fails
    BY <2>1, <2>2, SettlesTurn, QuietStep, NoCallFields DEF IInv, NoCall
  <2>3. ASSUME NEW found \in Found(call.site), HopPermitted(call.site, call.hop, found),
               call' = [call EXCEPT !.step = "send"], UNCHANGED <<agent, turn>>
        PROVE  IInv'
    <3>1. /\ CallFields'
          /\ call'.kind = "fetch" /\ call'.site = call.site /\ call'.hop = call.hop /\ call'.step = "send"
      BY <2>3, <2>1 DEF IInv
    <3>2. /\ call.site \in Site /\ call.hop \in 0 .. MaxRedirects
          /\ Len(requests) = call.hop /\ requests \in Seq(Request)
      BY <2>1 DEF IInv, FetchInv
    <3>3. Cleared(call.site)
      <4>1. TargetPermitted(call.site) /\ AddressesPermitted(found)
        BY <2>3 DEF HopPermitted
      <4>2. ASSUME agent.net.block
            PROVE  "public" \in call.site.addrs /\ (call.site.literal => call.site.addrs = {"public"})
        <5>1. found \subseteq call.site.addrs /\ found # {} /\ "private" \notin found
          BY <2>3, <4>1, <4>2 DEF Found, LooksUp, AddressesPermitted
        <5>2. /\ call.site.addrs \subseteq {"public", "private"}
              /\ call.site.literal => call.site.addrs \in {{"public"}, {"private"}}
          BY <3>2, SiteAssumption
        <5>3. "public" \in call.site.addrs
          BY <5>1, <5>2
        <5> QED
          BY <5>2, <5>3
      <4> QED
        BY <4>1, <4>2 DEF Cleared
    <3>4. FetchInv'
      BY <2>1, <2>3, <3>1, <3>2, <3>3 DEF FetchInv, Cleared, TargetPermitted
    <3>5. RequestsPermitted'
      BY <2>1, <2>3 DEF IInv, RequestsPermitted, TargetPermitted
    <3> QED BY <3>1, <3>2, <3>4, <3>5, <2>1, <2>3, NoCallFields DEF IInv, Wasm
  <2> QED BY <1>2, <2>2, <2>3 DEF CheckHop
<1>3. CASE SendHop
  <2>1. /\ call.kind = "fetch" /\ turn = "host" /\ call.step = "send"
        /\ call' = [call EXCEPT !.step = "answer"]
        /\ UNCHANGED <<agent, turn, children, cut>>
    BY <1>3 DEF SendHop, Pending
  <2>2. PICK to \in call.site.addrs : requests' = Append(requests, [site |-> call.site, to |-> to])
    BY <1>3 DEF SendHop
  <2>3. /\ CallFields'
        /\ call'.kind = "fetch" /\ call'.site = call.site /\ call'.hop = call.hop /\ call'.step = "answer"
    BY <2>1 DEF IInv
  <2>4. /\ call.site \in Site /\ call.hop \in 0 .. MaxRedirects /\ Cleared(call.site)
        /\ Len(requests) = call.hop /\ requests \in Seq(Request)
    BY <2>1 DEF IInv, FetchInv
  <2> DEFINE r == [site |-> call.site, to |-> to]
  <2>5. r \in Request
    BY <2>4, SiteAssumption DEF Request
  <2>6. /\ TargetPermitted(r.site)
        /\ agent.net.block /\ r.to = "private" => ~r.site.literal /\ "public" \in r.site.addrs
    BY <2>4 DEF Cleared
  <2> HIDE DEF r
  <2>7. requests' \in Seq(Request) /\ Len(requests') = Len(requests) + 1
        /\ \A n \in DOMAIN requests' : requests'[n] = r \/ (n \in DOMAIN requests /\ requests'[n] = requests[n])
    BY <2>2, <2>4, <2>5 DEF r
  <2>8. FetchInv'
    BY <2>3, <2>4, <2>7 DEF FetchInv
  <2>9. RequestsPermitted'
    <3>1. \A n \in DOMAIN requests' :
             /\ TargetPermitted(requests'[n].site)
             /\ agent.net.block /\ requests'[n].to = "private" =>
                  ~requests'[n].site.literal /\ "public" \in requests'[n].site.addrs
      BY <2>6, <2>7 DEF IInv, RequestsPermitted
    <3>2. Len(requests') <= MaxRedirects + 1
      BY <2>4, <2>7 DEF MaxRedirects
    <3> QED BY <3>1, <3>2, <2>1 DEF RequestsPermitted, TargetPermitted
  <2> QED BY <2>1, <2>3, <2>7, <2>8, <2>9, NoCallFields DEF IInv, Wasm
<1>4. CASE HopAnswered
  <2>1. call.kind = "fetch" /\ turn = "host" /\ call.step = "answer" /\ UNCHANGED <<requests, children, cut>>
    BY <1>4 DEF HopAnswered, Pending
  <2>2. CASE Returns \/ Fails
    BY <2>1, <2>2, SettlesTurn, QuietStep, NoCallFields DEF IInv, NoCall
  <2>3. ASSUME NEW s \in Site, GoesOn(call.hop),
               call' = [call EXCEPT !.site = s, !.hop = @ + 1, !.step = "check"],
               UNCHANGED <<agent, turn>>
        PROVE  IInv'
    <3>1. /\ CallFields'
          /\ call'.kind = "fetch" /\ call'.site = s /\ call'.hop = call.hop + 1 /\ call'.step = "check"
      BY <2>3, <2>1 DEF IInv
    <3>2. FetchInv'
      BY <3>1, <2>1, <2>3 DEF IInv, FetchInv, GoesOn, MaxRedirects
    <3>3. RequestsPermitted'
      BY <2>1, <2>3 DEF IInv, RequestsPermitted, TargetPermitted
    <3> QED BY <3>1, <3>2, <3>3, <2>1, <2>3, NoCallFields DEF IInv, Wasm
  <2> QED BY <2>2, <2>3, <1>4 DEF HopAnswered
<1> QED
  BY <1>1, <1>2, <1>3, <1>4 DEF Fetches

LEMMA ProcessStep ==
  ASSUME IInv, Processes
  PROVE  IInv'
<1> USE DEF CallFields, TurnInv, ChildrenInv
<1>1. CASE RunProcess
  <2>1. /\ call' = [NoCall EXCEPT !.kind = "process"] /\ children' = children + 1
        /\ call = NoCall /\ turn = "guest" /\ turn' = (IF Wasm THEN "host" ELSE turn)
        /\ UNCHANGED <<agent, cut, requests>>
    BY <1>1, BeginsTurn DEF RunProcess
  <2>2. CallFields' /\ call'.kind = "process"
    BY <2>1 DEF NoCall
  <2> QED BY <2>1, <2>2, QuietStep, NoCallFields DEF IInv, Wasm
<1>2. CASE RefuseProcess
  <2>1. Fails /\ call = NoCall /\ UNCHANGED <<requests, children, cut>>
    BY <1>2 DEF RefuseProcess
  <2> QED BY <2>1, SettlesTurn, QuietStep, NoCallFields DEF IInv, NoCall
<1>3. CASE ProcessEnds
  <2>1. Returns /\ call.kind = "process" /\ children' = children - 1 /\ UNCHANGED <<requests, cut>>
    BY <1>3 DEF ProcessEnds, Pending
  <2> QED BY <2>1, SettlesTurn, QuietStep, NoCallFields DEF IInv, NoCall
<1>4. CASE ProcessTimesOut
  <2>1. Fails /\ cut' /\ UNCHANGED <<requests, children>>
    BY <1>4 DEF ProcessTimesOut
  <2> QED BY <2>1, SettlesTurn, QuietStep, NoCallFields DEF IInv, NoCall
<1>5. CASE LeftProcessEnds
  <2>1. /\ children > (IF call.kind = "process" THEN 1 ELSE 0)
        /\ UNCHANGED <<agent, turn, call, requests, cut>>
    BY <1>5 DEF LeftProcessEnds
  <2>2. cut
    BY <2>1 DEF IInv
  <2> QED BY <2>1, <2>2, QuietStep DEF IInv, Wasm
<1> QED
  BY <1>1, <1>2, <1>3, <1>4, <1>5 DEF Processes

LEMMA StreamStep ==
  ASSUME IInv, Streams \/ Consultations
  PROVE  IInv'
<1> USE DEF CallFields, TurnInv, ChildrenInv
<1>1. CASE ChatStream \/ ReadInput \/ AskModel \/ UseTools
  <2>1. PICK c : /\ Begins(c) /\ UNCHANGED <<requests, children>>
                 /\ \/ \E body \in Bodies : c = [NoCall EXCEPT !.kind = "stream", !.left = body]
                    \/ \E kind \in Consultation : c = [NoCall EXCEPT !.kind = kind]
    BY <1>1 DEF ChatStream, ReadInput, AskModel, UseTools, Consults, Consultation
  <2>2. /\ call' = c /\ call = NoCall /\ turn = "guest" /\ turn' = (IF Wasm THEN "host" ELSE turn)
        /\ UNCHANGED <<agent, cut>>
    BY <2>1, BeginsTurn
  <2>3. CallFields' /\ call'.kind \in {"stream", "input", "chat", "tools"}
    BY <2>1, <2>2 DEF NoCall, Consultation
  <2> QED BY <2>1, <2>2, <2>3, QuietStep, NoCallFields DEF IInv, Wasm
<1>2. CASE ReceiveChunk
  <2>1. /\ call.kind = "stream" /\ turn = "host"
        /\ UNCHANGED <<agent, turn, requests, children, cut>>
    BY <1>2 DEF ReceiveChunk, Pending
  <2>2. CallFields' /\ call'.kind = "stream"
    BY <1>2, <2>1 DEF ReceiveChunk, PerChunk, Buffered, IInv
  <2> QED BY <2>1, <2>2, QuietStep, NoCallFields DEF IInv, Wasm
<1>3. CASE StreamEnds \/ Consulted
  <2>1. /\ Returns \/ Fails
        /\ call.kind \in {"stream", "input", "chat", "tools"}
        /\ UNCHANGED <<requests, children, cut>>
    BY <1>3 DEF StreamEnds, Consulted, Pending, Consultation
  <2> QED BY <2>1, SettlesTurn, QuietStep, NoCallFields DEF IInv, NoCall
<1> QED
  BY <1>1, <1>2, <1>3 DEF Streams, Consultations

LEMMA Invariance == Spec => []IInv
<1>1. IInv /\ UNCHANGED hostVars => IInv'
  BY DEF hostVars, runVars, IInv, CallFields, FetchInv, RequestsPermitted, Cleared, TargetPermitted, TurnInv,
         ChildrenInv, Wasm
<1> QED
  BY <1>1, InitIInv, ModuleStep, FetchStep, ProcessStep, StreamStep, PTL DEF Spec, Next

(***************************************************************************)
(* However often and wherever a site redirects, no request leaves for a    *)
(* site the agent's permissions do not name, and at most six do.           *)
(***************************************************************************)
THEOREM FetchesArePermitted == Spec => []RequestsPermitted
  BY Invariance, PTL DEF IInv

\* A run that is over has left no process behind, unless a timeout cut a call off.
THEOREM ProcessesEnd == Spec => []NoProcessLeft
<1>1. IInv => NoProcessLeft
  BY NoCallFields DEF IInv, TurnInv, ChildrenInv, NoProcessLeft
<1> QED
  BY <1>1, Invariance, PTL

(***************************************************************************)
(* Streams.  Lines is a recursive function; all that is needed of it is    *)
(* what it gives for nothing and for one piece more, and that is proved by *)
(* counting up.                                                            *)
(***************************************************************************)
Splitting(f, s, m) == f = [n \in 0 .. m |-> IF n = 0 THEN << <<>> >> ELSE AddTo(f[n - 1], s[n])]

LEMMA SplittingStep ==
  ASSUME NEW f, NEW s, NEW m \in Nat, Splitting(f, s, m)
  PROVE  f[0] = << <<>> >> /\ \A n \in 0 .. m - 1 : f[n + 1] = AddTo(f[n], s[n + 1])
<1>1. \A n \in 0 .. m : f[n] = IF n = 0 THEN << <<>> >> ELSE AddTo(f[n - 1], s[n])
  BY DEF Splitting
<1>2. ASSUME NEW n \in 0 .. m - 1 PROVE f[n + 1] = AddTo(f[n], s[n + 1])
  <2>1. n + 1 \in 0 .. m /\ n + 1 # 0 /\ n + 1 - 1 = n
    OBVIOUS
  <2> QED
    BY <1>1, <2>1
<1> QED
  BY <1>1, <1>2

LEMMA SplittingExists ==
  ASSUME NEW s, NEW m \in Nat
  PROVE  \E f : Splitting(f, s, m)
<1> DEFINE T == {n \in Nat : \E f : Splitting(f, s, n)}
<1>1. 0 \in T
  <2> DEFINE g == [n \in 0 .. 0 |-> << <<>> >>]
  <2>1. Splitting(g, s, 0)
    BY DEF Splitting
  <2> QED
    BY <2>1
<1>2. ASSUME NEW n \in Nat, n \in T PROVE n + 1 \in T
  <2>1. PICK f : Splitting(f, s, n)
    BY <1>2
  <2> DEFINE g == [k \in 0 .. n + 1 |-> IF k = n + 1 THEN AddTo(f[n], s[n + 1]) ELSE f[k]]
  <2>2. \A k \in 0 .. n : f[k] = IF k = 0 THEN << <<>> >> ELSE AddTo(f[k - 1], s[k])
    BY <2>1 DEF Splitting
  <2>3. ASSUME NEW k \in 0 .. n + 1 PROVE g[k] = IF k = 0 THEN << <<>> >> ELSE AddTo(g[k - 1], s[k])
    <3>1. CASE k = n + 1
      <4>1. k # 0 /\ k - 1 = n /\ n \in 0 .. n + 1 /\ n # n + 1
        BY <3>1
      <4> QED
        BY <3>1, <4>1
    <3>2. CASE k \in 0 .. n
      <4>1. g[k] = f[k] /\ (k # 0 => k - 1 \in 0 .. n + 1 /\ k - 1 # n + 1)
        BY <3>2
      <4>2. k # 0 => g[k - 1] = f[k - 1]
        BY <4>1
      <4> HIDE DEF g
      <4> QED
        BY <2>2, <3>2, <4>1, <4>2
    <3> QED
      BY <3>1, <3>2
  <2>4. Splitting(g, s, n + 1)
    <3>1. g = [k \in 0 .. n + 1 |-> g[k]]
      OBVIOUS
    <3> HIDE DEF g
    <3> QED
      BY <2>3, <3>1 DEF Splitting
  <2> QED
    BY <2>4
<1> HIDE DEF T
<1>3. Nat \subseteq T
  BY <1>1, <1>2, CountingUp
<1> QED
  BY <1>3 DEF T

LEMMA LinesIs ==
  ASSUME NEW X, NEW s \in Seq(X)
  PROVE  \E f : Splitting(f, s, Len(s)) /\ Lines(s) = f[Len(s)]
<1> DEFINE IsF(f) == Splitting(f, s, Len(s))
<1>1. \E f : IsF(f)
  BY Len(s) \in Nat, SplittingExists, Zenon
<1>2. Lines(s) = (CHOOSE f : IsF(f))[Len(s)]
  BY DEF Lines, Splitting
<1> HIDE DEF IsF
<1>3. IsF(CHOOSE f : IsF(f))
  BY <1>1
<1> QED
  BY <1>2, <1>3 DEF IsF

LEMMA LinesOfNothing == Lines(<<>>) = << <<>> >>
<1>1. <<>> \in Seq({}) /\ Len(<<>>) = 0 /\ 0 \in Nat
  OBVIOUS
<1>2. PICK f : Splitting(f, <<>>, Len(<<>>)) /\ Lines(<<>>) = f[Len(<<>>)]
  BY <1>1, LinesIs
<1> QED
  BY <1>1, <1>2, SplittingStep

LEMMA LinesOfOneMore ==
  ASSUME NEW X, NEW s \in Seq(X), NEW x \in X
  PROVE  Lines(Append(s, x)) = AddTo(Lines(s), x)
<1> DEFINE m == Len(s)
           t == Append(s, x)
<1>1. m \in Nat /\ t \in Seq(X) /\ Len(t) = m + 1 /\ t[m + 1] = x /\ \A n \in 1 .. m : t[n] = s[n]
  OBVIOUS
<1>2. PICK f : Splitting(f, s, m) /\ Lines(s) = f[m]
  BY LinesIs
<1> HIDE DEF m, t
<1>3. PICK g : Splitting(g, t, m + 1) /\ Lines(t) = g[m + 1]
  BY <1>1, LinesIs
<1>4. f[0] = << <<>> >> /\ \A n \in 0 .. m - 1 : f[n + 1] = AddTo(f[n], s[n + 1])
  BY <1>1, <1>2, SplittingStep
<1>5. g[0] = << <<>> >> /\ \A n \in 0 .. m : g[n + 1] = AddTo(g[n], t[n + 1])
  <2> DEFINE k == m + 1
  <2>1. k \in Nat /\ k - 1 = m /\ Splitting(g, t, k)
    BY <1>1, <1>3
  <2> HIDE DEF k
  <2>2. g[0] = << <<>> >> /\ \A n \in 0 .. k - 1 : g[n + 1] = AddTo(g[n], t[n + 1])
    BY <2>1, SplittingStep
  <2> QED
    BY <2>1, <2>2
<1> DEFINE T == {n \in Nat : n <= m => f[n] = g[n]}
<1>6. 0 \in T
  BY <1>4, <1>5
<1>7. ASSUME NEW n \in Nat, n \in T PROVE n + 1 \in T
  <2>1. ASSUME n + 1 <= m PROVE f[n + 1] = g[n + 1]
    <3>1. n \in 0 .. m - 1 /\ n \in 0 .. m /\ n + 1 \in 1 .. m /\ n <= m
      BY <1>1, <2>1
    <3> QED
      BY <1>1, <1>4, <1>5, <1>7, <3>1
  <2>2. n + 1 \in Nat
    OBVIOUS
  <2> QED
    BY <2>1, <2>2
<1> HIDE DEF T
<1>8. Nat \subseteq T
  BY <1>6, <1>7, CountingUp
<1>9. f[m] = g[m]
  BY <1>1, <1>8 DEF T
<1>10. m \in 0 .. m
  BY <1>1
<1> QED
  BY <1>1, <1>2, <1>3, <1>5, <1>9, <1>10 DEF t

LEMMA LastAppended ==
  ASSUME NEW S, NEW q \in Seq(S), NEW e \in S
  PROVE  Last(Append(q, e)) = e /\ Front(Append(q, e)) = q
<1>1. Last(Append(q, e)) = e
  BY DEF Last
<1>2. Front(Append(q, e)) = SubSeq(Append(q, e), 1, Len(q))
  BY DEF Front
<1>3. SubSeq(Append(q, e), 1, Len(q)) = q
  OBVIOUS
<1> QED
  BY <1>1, <1>2, <1>3

\* Lines that have been split off already are not looked at again.
LEMMA AddToIs ==
  ASSUME NEW X, NEW x \in X, NEW lines \in Seq(Seq(X)), lines # <<>>
  PROVE  /\ AddTo(lines, x) \in Seq(Seq(X)) /\ AddTo(lines, x) # <<>>
         /\ Last(AddTo(lines, x)) = IF x = Newline THEN <<>> ELSE Append(Last(lines), x)
         /\ Last(lines) \in Seq(X) /\ Front(lines) \in Seq(Seq(X))
         /\ lines = Append(Front(lines), Last(lines))
<1>1. /\ Len(lines) \in Nat /\ Len(lines) >= 1
      /\ Last(lines) = lines[Len(lines)] /\ Last(lines) \in Seq(X)
      /\ Front(lines) = SubSeq(lines, 1, Len(lines) - 1) /\ Front(lines) \in Seq(Seq(X))
  BY DEF Last, Front
<1>2. lines = Append(Front(lines), Last(lines))
  BY <1>1
<1>3. CASE x = Newline
  <2>1. AddTo(lines, x) = Append(lines, <<>>) /\ <<>> \in Seq(X)
    BY <1>3 DEF AddTo
  <2> QED
    BY <1>1, <1>2, <1>3, <2>1 DEF Last
<1>4. CASE x # Newline
  <2> DEFINE a == Append(Last(lines), x)
             b == Front(lines)
  <2>1. a \in Seq(X) /\ b \in Seq(Seq(X)) /\ AddTo(lines, x) = Append(b, a)
    BY <1>1, <1>4 DEF AddTo
  <2>2. a = Append(Last(lines), x)
    OBVIOUS
  <2> HIDE DEF a, b
  <2> DEFINE S == Seq(X)
  <2>3. b \in Seq(S) /\ a \in S
    BY <2>1
  <2> HIDE DEF S
  <2>4. Append(b, a) \in Seq(S) /\ Append(b, a) # <<>>
    <3>1. Append(b, a) \in Seq(S) /\ Len(Append(b, a)) = Len(b) + 1 /\ Len(b) \in Nat
      BY <2>3
    <3>2. Len(Append(b, a)) # 0
      BY <3>1
    <3> QED
      BY <3>1, <3>2, EmptySeq, Zenon
  <2>5. Last(Append(b, a)) = a
    BY <2>3, LastAppended, Zenon
  <2>6. Append(b, a) \in Seq(Seq(X))
    BY <2>4 DEF S
  <2> QED
    BY <1>1, <1>2, <1>4, <2>1, <2>2, <2>4, <2>5, <2>6
<1> QED
  BY <1>3, <1>4

LEMMA AddToAfter ==
  ASSUME NEW X, NEW x \in X, NEW p \in Seq(Seq(X)), NEW q \in Seq(Seq(X)), q # <<>>
  PROVE  AddTo(p \o q, x) = p \o AddTo(q, x)
<1> DEFINE b == Front(q)
           l == Last(q)
<1>1. b \in Seq(Seq(X)) /\ l \in Seq(X) /\ q = Append(b, l)
  BY AddToIs
<1> HIDE DEF b, l
<1>2. p \o q = Append(p \o b, l) /\ p \o b \in Seq(Seq(X))
  BY <1>1, AppendAfter
<1>3. CASE x = Newline
  <2>1. <<>> \in Seq(X)
    OBVIOUS
  <2>2. p \o Append(q, <<>>) = Append(p \o q, <<>>)
    BY <2>1, AppendAfter
  <2> QED
    BY <1>3, <2>2 DEF AddTo
<1>4. CASE x # Newline
  <2> DEFINE c == p \o b
  <2>0. c \in Seq(Seq(X)) /\ p \o q = Append(c, l)
    BY <1>2
  <2> HIDE DEF c
  <2>1. Last(p \o q) = l /\ Front(p \o q) = c /\ Last(q) = l /\ Front(q) = b
    BY <1>1, <2>0, LastAppended
  <2> DEFINE a == Append(l, x)
  <2>2. AddTo(p \o q, x) = Append(c, a) /\ AddTo(q, x) = Append(b, a) /\ a \in Seq(X)
    BY <1>1, <1>4, <2>1 DEF AddTo
  <2> HIDE DEF a
  <2>3. p \o Append(b, a) = Append(p \o b, a)
    BY SMTT(30), <1>1, <2>2, AppendAfter
  <2> QED
    BY <2>2, <2>3 DEF c
<1> QED
  BY <1>3, <1>4

\* What has been split is made of lines without a newline.
LEMMA LinesAre ==
  ASSUME NEW X, NEW s \in Seq(X)
  PROVE  /\ Lines(s) \in Seq(Seq(X)) /\ Lines(s) # <<>>
         /\ \A n \in 1 .. Len(Last(Lines(s))) : Last(Lines(s))[n] # Newline
<1> DEFINE Fine(t) == /\ Lines(t) \in Seq(Seq(X)) /\ Lines(t) # <<>>
                      /\ \A n \in 1 .. Len(Last(Lines(t))) : Last(Lines(t))[n] # Newline
           T == {n \in Nat : n <= Len(s) => Fine(SubSeq(s, 1, n))}
<1>1. 0 \in T
  <2>1. SubSeq(s, 1, 0) = <<>> /\ <<>> \in Seq(X)
    OBVIOUS
  <2>2. << <<>> >> \in Seq(Seq(X)) /\ << <<>> >> # <<>> /\ Last(<< <<>> >>) = <<>> /\ Len(<<>>) = 0
    BY <2>1 DEF Last
  <2> DEFINE z == SubSeq(s, 1, 0)
  <2>3. z = <<>>
    BY <2>1
  <2> HIDE DEF z
  <2> DEFINE y == << <<>> >>
  <2>4. y \in Seq(Seq(X)) /\ y # <<>> /\ Last(y) = <<>> /\ Len(<<>>) = 0
    BY <2>2
  <2>5. Lines(z) = y
    BY <2>3, LinesOfNothing
  <2> HIDE DEF y
  <2>6. Fine(z)
    BY <2>4, <2>5
  <2> QED
    BY <2>6 DEF z
<1>2. ASSUME NEW n \in Nat, n \in T PROVE n + 1 \in T
  <2>1. ASSUME n + 1 <= Len(s) PROVE Fine(SubSeq(s, 1, n + 1))
    <3> DEFINE t == SubSeq(s, 1, n)
               x == s[n + 1]
    <3>1. t \in Seq(X) /\ x \in X /\ SubSeq(s, 1, n + 1) = Append(t, x) /\ n <= Len(s)
      BY <2>1
    <3>2. Fine(t)
      BY <1>2, <3>1
    <3> HIDE DEF t, x
    <3> DEFINE l == Lines(t)
    <3>3. Lines(Append(t, x)) = AddTo(l, x)
      BY <3>1, LinesOfOneMore
    <3>4. l \in Seq(Seq(X)) /\ l # <<>> /\ \A k \in 1 .. Len(Last(l)) : Last(l)[k] # Newline
      BY <3>2
    <3> HIDE DEF l
    <3>5. /\ AddTo(l, x) \in Seq(Seq(X)) /\ AddTo(l, x) # <<>>
          /\ Last(AddTo(l, x)) = IF x = Newline THEN <<>> ELSE Append(Last(l), x)
          /\ Last(l) \in Seq(X)
      BY ZenonT(30), <3>1, <3>4, AddToIs
    <3>6. \A k \in 1 .. Len(Last(AddTo(l, x))) : Last(AddTo(l, x))[k] # Newline
      <4>1. CASE x = Newline
        BY <3>5, <4>1
      <4>2. CASE x # Newline
        <5> DEFINE u == Last(l)
        <5>1. u \in Seq(X) /\ \A k \in 1 .. Len(u) : u[k] # Newline
          BY <3>4, <3>5
        <5> HIDE DEF u
        <5>2. \A k \in 1 .. Len(Append(u, x)) : Append(u, x)[k] # Newline
          BY <3>1, <4>2, <5>1
        <5>3. Last(AddTo(l, x)) = Append(u, x)
          BY <3>5, <4>2 DEF u
        <5> QED
          BY <5>2, <5>3
      <4> QED
        BY <4>1, <4>2
    <3> QED
      BY <3>1, <3>3, <3>5, <3>6
  <2>2. n + 1 \in Nat
    OBVIOUS
  <2> QED
    BY <2>1, <2>2
<1> HIDE DEF T
<1>3. Nat \subseteq T
  BY <1>1, <1>2, CountingUp
<1>4. Len(s) \in Nat /\ SubSeq(s, 1, Len(s)) = s
  OBVIOUS
<1>5. Fine(SubSeq(s, 1, Len(s)))
  BY <1>3, <1>4 DEF T
<1> QED
  BY <1>4, <1>5

\* A line without a newline is one line.
LEMMA OneLine ==
  ASSUME NEW X, NEW l \in Seq(X), \A n \in 1 .. Len(l) : l[n] # Newline
  PROVE  Lines(l) = <<l>>
<1> DEFINE T == {n \in Nat : n <= Len(l) => Lines(SubSeq(l, 1, n)) = <<SubSeq(l, 1, n)>>}
<1>1. 0 \in T
  <2>1. SubSeq(l, 1, 0) = <<>>
    OBVIOUS
  <2> QED
    BY <2>1, LinesOfNothing
<1>2. ASSUME NEW n \in Nat, n \in T PROVE n + 1 \in T
  <2>1. ASSUME n + 1 <= Len(l) PROVE Lines(SubSeq(l, 1, n + 1)) = <<SubSeq(l, 1, n + 1)>>
    <3> DEFINE t == SubSeq(l, 1, n)
               x == l[n + 1]
    <3>1. t \in Seq(X) /\ x \in X /\ x # Newline /\ SubSeq(l, 1, n + 1) = Append(t, x) /\ n <= Len(l)
      BY <2>1
    <3>2. Lines(t) = <<t>>
      BY <1>2, <3>1
    <3> HIDE DEF t, x
    <3>3. Lines(Append(t, x)) = AddTo(<<t>>, x)
      BY <3>1, <3>2, LinesOfOneMore
    <3>4. Last(<<t>>) = t /\ Front(<<t>>) = <<>>
      BY <3>1 DEF Last, Front
    <3>5. AddTo(<<t>>, x) = Append(<<>>, Append(t, x))
      BY <3>1, <3>4 DEF AddTo
    <3> DEFINE u == Append(t, x)
    <3>6. Append(<<>>, u) = <<u>>
      OBVIOUS
    <3> QED
      BY <3>1, <3>3, <3>5, <3>6
  <2>2. n + 1 \in Nat
    OBVIOUS
  <2> QED
    BY <2>1, <2>2
<1> HIDE DEF T
<1>3. Nat \subseteq T
  BY <1>1, <1>2, CountingUp
<1> DEFINE m == Len(l)
<1>4. m \in Nat /\ m <= m /\ SubSeq(l, 1, m) = l
  OBVIOUS
<1> HIDE DEF m
<1>5. m \in {n \in Nat : n <= Len(l) => Lines(SubSeq(l, 1, n)) = <<SubSeq(l, 1, n)>>}
  BY <1>3, <1>4 DEF T
<1>6. Lines(SubSeq(l, 1, m)) = <<SubSeq(l, 1, m)>>
  BY <1>4, <1>5 DEF m
<1> QED
  BY <1>4, <1>6

\* What is kept of a text when its whole lines are taken is enough for what comes.
LEMMA LinesGoOn ==
  ASSUME NEW X, NEW a \in Seq(X), NEW b \in Seq(X)
  PROVE  Lines(a \o b) = Front(Lines(a)) \o Lines(Last(Lines(a)) \o b)
<1> DEFINE f == Front(Lines(a))
           l == Last(Lines(a))
<1>1. Lines(a) \in Seq(Seq(X)) /\ Lines(a) # <<>> /\ \A n \in 1 .. Len(l) : l[n] # Newline
  BY LinesAre
<1>2. f \in Seq(Seq(X)) /\ l \in Seq(X) /\ Lines(a) = Append(f, l)
  <2> DEFINE s == Lines(a)
  <2>1. s \in Seq(Seq(X)) /\ s # <<>>
    BY <1>1
  <2> HIDE DEF s
  <2>2. Len(s) \in Nat /\ Len(s) >= 1 /\ Last(s) \in Seq(X) /\ Front(s) \in Seq(Seq(X)) /\ s = Append(Front(s), Last(s))
    BY <2>1 DEF Last, Front
  <2> QED
    BY <2>2 DEF s
<1> HIDE DEF f, l
<1> DEFINE T == {n \in Nat : n <= Len(b) => Lines(a \o SubSeq(b, 1, n)) = f \o Lines(l \o SubSeq(b, 1, n))}
<1>3. 0 \in T
  <2>1. SubSeq(b, 1, 0) = <<>> /\ a \o <<>> = a /\ l \o <<>> = l /\ f \o <<l>> = Append(f, l)
    BY <1>2
  <2>2. Lines(l) = <<l>>
    BY <1>1, <1>2, OneLine
  <2>3. Lines(a) = f \o Lines(l)
    BY <1>2, <2>1, <2>2
  <2>4. Lines(a \o SubSeq(b, 1, 0)) = f \o Lines(l \o SubSeq(b, 1, 0))
    BY <2>1, <2>3
  <2> QED
    BY <2>4
<1>4. ASSUME NEW n \in Nat, n \in T PROVE n + 1 \in T
  <2>1. ASSUME n + 1 <= Len(b)
        PROVE  Lines(a \o SubSeq(b, 1, n + 1)) = f \o Lines(l \o SubSeq(b, 1, n + 1))
    <3> DEFINE t == SubSeq(b, 1, n)
               x == b[n + 1]
    <3>1. t \in Seq(X) /\ x \in X /\ SubSeq(b, 1, n + 1) = Append(t, x) /\ n <= Len(b)
      BY <2>1
    <3>2. Lines(a \o t) = f \o Lines(l \o t)
      BY <1>4, <3>1
    <3> HIDE DEF t, x
    <3>3. a \o Append(t, x) = Append(a \o t, x) /\ l \o Append(t, x) = Append(l \o t, x)
      BY SMTT(30), <1>2, <3>1, AppendAfter
    <3>4. a \o t \in Seq(X) /\ l \o t \in Seq(X)
      BY <1>2, <3>1
    <3> DEFINE at == a \o t
               lt == l \o t
    <3>5. Lines(at) = f \o Lines(lt) /\ at \in Seq(X) /\ lt \in Seq(X)
      BY <3>2, <3>4
    <3> HIDE DEF at, lt
    <3>6. Lines(Append(at, x)) = AddTo(Lines(at), x) /\ Lines(Append(lt, x)) = AddTo(Lines(lt), x)
      BY <3>1, <3>5, LinesOfOneMore
    <3>7. Lines(lt) \in Seq(Seq(X)) /\ Lines(lt) # <<>>
      BY <3>5, LinesAre
    <3>8. AddTo(f \o Lines(lt), x) = f \o AddTo(Lines(lt), x)
      BY <1>2, <3>1, <3>7, AddToAfter
    <3>9. Lines(Append(at, x)) = f \o Lines(Append(lt, x))
      BY <3>5, <3>6, <3>8
    <3> QED
      BY <3>1, <3>3, <3>9 DEF at, lt
  <2>2. n + 1 \in Nat
    OBVIOUS
  <2> QED
    BY <2>1, <2>2
<1> HIDE DEF T
<1>5. Nat \subseteq T
  BY <1>3, <1>4, CountingUp
<1> DEFINE m == Len(b)
<1>6. m \in Nat /\ m <= m /\ SubSeq(b, 1, m) = b
  OBVIOUS
<1> HIDE DEF m
<1>7. m \in {n \in Nat : n <= Len(b) => Lines(a \o SubSeq(b, 1, n)) = f \o Lines(l \o SubSeq(b, 1, n))}
  BY <1>5, <1>6 DEF T
<1>8. Lines(a \o SubSeq(b, 1, m)) = f \o Lines(l \o SubSeq(b, 1, m))
  BY <1>6, <1>7 DEF m
<1>9. Lines(a \o b) = f \o Lines(l \o b)
  BY <1>6, <1>8
<1> QED
  BY <1>9 DEF f, l

Piece == {Garbled} \cup UNION {Range(body) : body \in Bodies}

LEMMA BodyIs ==
  ASSUME NEW body \in Bodies
  PROVE  body \in Seq(Piece)
<1>1. body \in Seq(Range(body)) /\ Range(body) \subseteq Piece
  BY BodyAssumption DEF Piece
<1> QED
  BY <1>1, SeqMonotonic

LEMMA ChunksAre ==
  ASSUME NEW X, Garbled \in X, NEW left \in Seq(X), NEW part \in Chunks(left)
  PROVE  part[1] \in Seq(X) /\ part[2] \in Seq(X)
<1>1. ASSUME NEW n \in 1 .. Len(left), part = <<SubSeq(left, 1, n), SubSeq(left, n + 1, Len(left))>>
      PROVE  part[1] \in Seq(X) /\ part[2] \in Seq(X)
  BY <1>1
<1>2. ASSUME NEW n \in 1 .. Len(left),
             part = <<Append(SubSeq(left, 1, n - 1), Garbled), <<Garbled>> \o SubSeq(left, n + 1, Len(left))>>
      PROVE  part[1] \in Seq(X) /\ part[2] \in Seq(X)
  <2>1. SubSeq(left, 1, n - 1) \in Seq(X) /\ SubSeq(left, n + 1, Len(left)) \in Seq(X) /\ <<Garbled>> \in Seq(X)
    OBVIOUS
  <2> DEFINE a == SubSeq(left, 1, n - 1)
             b == SubSeq(left, n + 1, Len(left))
             g == <<Garbled>>
  <2>2. a \in Seq(X) /\ b \in Seq(X) /\ g \in Seq(X) /\ part = <<Append(a, Garbled), g \o b>>
    BY <1>2, <2>1
  <2> HIDE DEF a, b, g
  <2> QED
    BY <2>2
<1> QED
  BY <1>1, <1>2 DEF Chunks

\* The host has the text of the lines that are complete, and the one that is not.
StreamInv ==
  Wasm /\ call.kind = "stream" =>
    /\ call.left \in Seq(Piece) /\ call.got \in Seq(Piece)
    /\ call.text = Deltas(Front(Lines(call.got)))
    /\ call.buffer = Last(Lines(call.got))

\* One more chunk, read after what is kept.
LEMMA OneMoreChunk ==
  ASSUME NEW X, NEW a \in Seq(X), NEW b \in Seq(X)
  PROVE  /\ Last(Lines(a \o b)) = Last(Lines(Last(Lines(a)) \o b))
         /\ Deltas(Front(Lines(a \o b))) = Deltas(Front(Lines(a))) \o Deltas(Front(Lines(Last(Lines(a)) \o b)))
<1> DEFINE f == Front(Lines(a))
           l == Last(Lines(a))
           more == Lines(l \o b)
           g == Front(more)
           r == Last(more)
<1>1. f \in Seq(Seq(X)) /\ l \in Seq(X)
  <2> DEFINE s == Lines(a)
  <2>1. s \in Seq(Seq(X)) /\ s # <<>>
    BY LinesAre
  <2> HIDE DEF s
  <2>2. Len(s) \in Nat /\ Len(s) >= 1 /\ Last(s) \in Seq(X) /\ Front(s) \in Seq(Seq(X))
    BY <2>1 DEF Last, Front
  <2> QED
    BY <2>2 DEF s
<1>2. Lines(a \o b) = f \o more
  BY LinesGoOn
<1> HIDE DEF f, l
<1>3. g \in Seq(Seq(X)) /\ r \in Seq(X) /\ more = Append(g, r)
  <2>0. l \o b \in Seq(X)
    BY <1>1
  <2>1. more \in Seq(Seq(X)) /\ more # <<>>
    BY <2>0, LinesAre
  <2> HIDE DEF more
  <2>2. Len(more) \in Nat /\ Len(more) >= 1 /\ Last(more) \in Seq(X) /\ Front(more) \in Seq(Seq(X))
        /\ more = Append(Front(more), Last(more))
    BY <2>1 DEF Last, Front
  <2> QED
    BY <2>2
<1> HIDE DEF g, r, more
<1>4. f \o more = Append(f \o g, r)
  BY SMTT(30), <1>1, <1>3, AppendAfter
<1> DEFINE fg == f \o g
<1>5. fg \in Seq(Seq(X)) /\ Lines(a \o b) = Append(fg, r)
  BY <1>1, <1>2, <1>3, <1>4
<1> HIDE DEF fg
<1>6. Last(Lines(a \o b)) = r /\ Front(Lines(a \o b)) = fg
  BY <1>3, <1>5, LastAppended
<1>7. Deltas(fg) = Deltas(f) \o Deltas(g)
  BY <1>1, <1>3, ChosenConcat DEF Deltas, fg
<1> QED
  BY <1>6, <1>7 DEF f, l, more, g, r

LEMMA AllLines ==
  ASSUME NEW X, NEW a \in Seq(X)
  PROVE  Deltas(Front(Lines(a))) \o Deltas(<<Last(Lines(a))>>) = Deltas(Lines(a))
<1> DEFINE f == Front(Lines(a))
           l == Last(Lines(a))
           s == Lines(a)
<1>1. s \in Seq(Seq(X)) /\ s # <<>>
  BY LinesAre
<1> HIDE DEF s
<1>2. Len(s) \in Nat /\ Len(s) >= 1 /\ Last(s) \in Seq(X) /\ Front(s) \in Seq(Seq(X)) /\ s = Append(Front(s), Last(s))
  BY <1>1 DEF Last, Front
<1>3. l \in Seq(X) /\ f \in Seq(Seq(X)) /\ s = Append(f, l)
  BY <1>2 DEF s
<1> HIDE DEF f, l
<1> DEFINE o == <<l>>
<1>4. o \in Seq(Seq(X))
  BY <1>3
<1>5. s = f \o o
  BY <1>3, AppendIsConcat
<1> HIDE DEF o
<1>6. Deltas(f \o o) = Deltas(f) \o Deltas(o)
  BY <1>3, <1>4, ChosenConcat DEF Deltas
<1> QED
  BY <1>5, <1>6 DEF f, l, o, s

LEMMA ReceiveStreamInv ==
  ASSUME IInv, StreamInv, ReceiveChunk, Wasm
  PROVE  StreamInv'
<1>1. PICK part \in Chunks(call.left) :
        call' = Buffered([call EXCEPT !.got = @ \o part[1], !.left = part[2]], part[1])
  BY DEF ReceiveChunk, Wasm, Js
<1> DEFINE a == call.got
           b == part[1]
           l == Last(Lines(a))
           f == Front(Lines(a))
           more == Lines(l \o b)
<1>2. /\ call.left \in Seq(Piece) /\ a \in Seq(Piece)
      /\ call.text = Deltas(f) /\ call.buffer = l
  BY DEF StreamInv, ReceiveChunk, Pending
<1>3. part[1] \in Seq(Piece) /\ part[2] \in Seq(Piece)
  <2>1. Garbled \in Piece
    BY DEF Piece
  <2> QED
    BY <1>2, <2>1, ChunksAre
<1>4. /\ call'.got = a \o b /\ call'.left = part[2]
      /\ call'.text = call.text \o Deltas(Front(Lines(call.buffer \o b)))
      /\ call'.buffer = Last(Lines(call.buffer \o b))
  BY <1>1 DEF IInv, CallFields, Buffered
<1> HIDE DEF a, b, l, f
<1>5. a \o b \in Seq(Piece) /\ b \in Seq(Piece)
  BY <1>2, <1>3 DEF b
<1>6. /\ Last(Lines(a \o b)) = Last(Lines(l \o b))
      /\ Deltas(Front(Lines(a \o b))) = Deltas(f) \o Deltas(Front(Lines(l \o b)))
  BY <1>2, <1>5, OneMoreChunk DEF l, f
<1>7. /\ call'.left \in Seq(Piece) /\ call'.got \in Seq(Piece)
      /\ call'.text = Deltas(Front(Lines(call'.got)))
      /\ call'.buffer = Last(Lines(call'.got))
  BY <1>2, <1>3, <1>4, <1>5, <1>6
<1> QED
  BY <1>7 DEF StreamInv

\* A stream begins with nothing read.
LEMMA BeginStreamInv ==
  ASSUME ChatStream
  PROVE  StreamInv'
<1>1. PICK body \in Bodies : call' = [NoCall EXCEPT !.kind = "stream", !.left = body]
  BY DEF ChatStream, Begins
<1>2. call'.left = body /\ call'.got = <<>> /\ call'.text = <<>> /\ call'.buffer = <<>>
  BY <1>1 DEF NoCall
<1>3. Front(<< <<>> >>) = <<>> /\ Last(<< <<>> >>) = <<>>
  BY DEF Front, Last
<1>4. Deltas(<<>>) = <<>>
  BY ChosenOfNothing DEF Deltas
<1>5. body \in Seq(Piece) /\ <<>> \in Seq(Piece)
  BY BodyIs
<1> QED
  BY <1>2, <1>3, <1>4, <1>5, LinesOfNothing DEF StreamInv

LEMMA NextStreamInv == IInv /\ StreamInv /\ [Next]_hostVars => StreamInv'
<1> SUFFICES ASSUME IInv, StreamInv, [Next]_hostVars PROVE StreamInv'
  OBVIOUS
<1>1. CASE ReceiveChunk
  <2>1. Wasm' <=> Wasm
    BY <1>1 DEF ReceiveChunk, Wasm
  <2>2. ~Wasm => StreamInv'
    BY <2>1 DEF StreamInv
  <2> QED
    BY <1>1, <2>2, ReceiveStreamInv
<1>2. CASE ChatStream
  BY <1>2, BeginStreamInv
<1>3. ASSUME UNCHANGED <<call, agent>> PROVE StreamInv'
  BY <1>3 DEF StreamInv, Wasm
<1>4. ASSUME call'.kind # "stream" PROVE StreamInv'
  BY <1>4 DEF StreamInv
<1>5. NoCall.kind # "stream"
  BY DEF NoCall
<1>6. Returns \/ Fails => StreamInv'
  BY <1>4, <1>5, SettlesTurn
<1>7. CASE Module
  BY <1>3, <1>4, <1>5, <1>7
  DEF Module, Start, SetResult, FileCall, runVars, JsWaits, JsEnds, WasmEnds, RunTimesOut
<1>8. CASE Fetches
  <2>1. CASE Fetch
    <3>1. PICK s \in Site : call' = [NoCall EXCEPT !.kind = "fetch", !.site = s]
      BY <2>1 DEF Fetch, Begins
    <3>2. call'.kind = "fetch"
      BY <3>1 DEF NoCall
    <3> QED
      BY <1>4, <3>2
  <2>2. CASE CheckHop \/ SendHop
    <3>1. call.kind = "fetch" /\ (Fails \/ \E s \in {"send", "answer"} : call' = [call EXCEPT !.step = s])
      BY <2>2 DEF CheckHop, SendHop, Pending
    <3>2. ASSUME NEW s, call' = [call EXCEPT !.step = s] PROVE call'.kind = "fetch"
      BY <3>1, <3>2 DEF IInv, CallFields
    <3> QED
      BY <1>4, <1>6, <3>1, <3>2
  <2>3. CASE HopAnswered
    <3>1. /\ call.kind = "fetch"
          /\ \/ Returns \/ Fails
             \/ \E s \in Site : call' = [call EXCEPT !.site = s, !.hop = @ + 1, !.step = "check"]
      BY <2>3 DEF HopAnswered, Pending
    <3>2. ASSUME NEW s \in Site, call' = [call EXCEPT !.site = s, !.hop = @ + 1, !.step = "check"]
          PROVE  call'.kind = "fetch"
      BY <3>1, <3>2 DEF IInv, CallFields
    <3> QED
      BY <1>4, <1>6, <3>1, <3>2
  <2> QED
    BY <1>8, <2>1, <2>2, <2>3 DEF Fetches
<1>9. CASE Processes
  <2>1. CASE RunProcess
    <3>1. call' = [NoCall EXCEPT !.kind = "process"]
      BY <2>1 DEF RunProcess, Begins
    <3>2. call'.kind = "process"
      BY <3>1 DEF NoCall
    <3> QED
      BY <1>4, <3>2
  <2>2. CASE RefuseProcess \/ ProcessEnds \/ ProcessTimesOut
    BY <1>6, <2>2 DEF RefuseProcess, ProcessEnds, ProcessTimesOut
  <2>3. CASE LeftProcessEnds
    BY <1>3, <2>3 DEF LeftProcessEnds
  <2> QED
    BY <1>9, <2>1, <2>2, <2>3 DEF Processes
<1>10. CASE StreamEnds \/ Consulted
  BY <1>6, <1>10 DEF StreamEnds, Consulted
<1>11. CASE ReadInput \/ AskModel \/ UseTools
  <2>1. PICK kind \in Consultation : call' = [NoCall EXCEPT !.kind = kind]
    BY <1>11 DEF ReadInput, AskModel, UseTools, Consults, Begins, Consultation
  <2>2. call'.kind = kind /\ kind # "stream"
    BY <2>1 DEF NoCall, Consultation
  <2> QED
    BY <1>4, <2>2
<1>12. CASE UNCHANGED hostVars
  BY <1>3, <1>12 DEF hostVars, runVars
<1> QED
  BY <1>1, <1>2, <1>7, <1>8, <1>9, <1>10, <1>11, <1>12 DEF Next, Streams, Consultations

(***************************************************************************)
(* WasmStreamWhole: however the network cuts a streamed body, whatever it  *)
(* holds, the host finds the text of every line, that of the last one,     *)
(* which no newline ends, included.                                        *)
(***************************************************************************)
THEOREM StreamsAreWhole == Spec => []WasmStreamWhole
<1>1. Init => StreamInv
  BY DEF Init, StreamInv, NoCall
<1>2. StreamInv => WasmStreamWhole
  <2> SUFFICES ASSUME StreamInv, Wasm, call.kind = "stream" PROVE WholeText(call)
    BY DEF WasmStreamWhole
  <2>1. /\ call.got \in Seq(Piece) /\ call.text = Deltas(Front(Lines(call.got)))
        /\ call.buffer = Last(Lines(call.got))
    BY DEF StreamInv
  <2>2. Deltas(Front(Lines(call.got))) \o Deltas(<<Last(Lines(call.got))>>) = Deltas(Lines(call.got))
    BY <2>1, AllLines
  <2> QED
    BY <2>1, <2>2 DEF WholeText, FullText
<1> QED
  BY <1>1, <1>2, Invariance, NextStreamInv, PTL DEF Spec

(***************************************************************************)
(* The file tree.  Canon is a recursive function; what is known of it is   *)
(* proved by counting up along the path.  Free paths are those without a   *)
(* link on them; Straight says of a tree what HostFs says of its links.    *)
(***************************************************************************)
Free(p) == \A n \in 1 .. Len(p) : At(Upto(p, n)).kind # "link"

Straight == \A p \in Path : At(p).kind = "link" => Free(At(p).to)

\* One step along a path, and all of them.
Follow(x, a) == IF At(Append(x, a)).kind = "link" THEN At(Append(x, a)).to ELSE Append(x, a)

Walk(f, p, m) == f = [n \in 0 .. m |-> IF n = 0 THEN <<>> ELSE Follow(f[n - 1], p[n])]

LEMMA WalkStep ==
  ASSUME NEW f, NEW p, NEW m \in Nat, Walk(f, p, m)
  PROVE  f[0] = <<>> /\ \A n \in 0 .. m - 1 : f[n + 1] = Follow(f[n], p[n + 1])
<1>1. \A n \in 0 .. m : f[n] = IF n = 0 THEN <<>> ELSE Follow(f[n - 1], p[n])
  BY DEF Walk
<1>2. ASSUME NEW n \in 0 .. m - 1 PROVE f[n + 1] = Follow(f[n], p[n + 1])
  <2>1. n + 1 \in 0 .. m /\ n + 1 # 0 /\ n + 1 - 1 = n
    OBVIOUS
  <2> QED
    BY <1>1, <2>1
<1> QED
  BY <1>1, <1>2

LEMMA WalkExists ==
  ASSUME NEW p, NEW m \in Nat
  PROVE  \E f : Walk(f, p, m)
<1> DEFINE T == {n \in Nat : \E f : Walk(f, p, n)}
<1>1. 0 \in T
  <2> DEFINE g == [n \in 0 .. 0 |-> <<>>]
  <2>1. Walk(g, p, 0)
    BY DEF Walk
  <2> QED
    BY <2>1
<1>2. ASSUME NEW k \in Nat, k \in T PROVE k + 1 \in T
  <2>1. PICK f : Walk(f, p, k)
    BY <1>2
  <2> DEFINE g == [n \in 0 .. k + 1 |-> IF n <= k THEN f[n] ELSE Follow(f[n - 1], p[n])]
  <2>2. \A n \in 0 .. k : g[n] = f[n]
    OBVIOUS
  <2>3. \A n \in 0 .. k : f[n] = IF n = 0 THEN <<>> ELSE Follow(f[n - 1], p[n])
    BY <2>1 DEF Walk
  <2>4. ASSUME NEW n \in 0 .. k + 1
        PROVE  g[n] = IF n = 0 THEN <<>> ELSE Follow(g[n - 1], p[n])
    BY <2>2, <2>3
  <2>5. g = [n \in 0 .. k + 1 |-> IF n = 0 THEN <<>> ELSE Follow(g[n - 1], p[n])]
    BY <2>4
  <2> HIDE DEF g
  <2>6. Walk(g, p, k + 1)
    BY <2>5, Zenon DEF Walk
  <2> QED
    BY <2>6
<1> HIDE DEF T
<1>3. Nat \subseteq T
  BY <1>1, <1>2, CountingUp
<1> QED
  BY <1>3 DEF T

\* Two walks agree as far as their paths do.
LEMMA WalkAgree ==
  ASSUME NEW p, NEW q, NEW f, NEW g, NEW k \in Nat, NEW m \in Nat, k <= m,
         Walk(f, p, k), Walk(g, q, m), \A n \in 1 .. k : p[n] = q[n]
  PROVE  f[k] = g[k]
<1> DEFINE T == {n \in Nat : n <= k => f[n] = g[n]}
<1>1. 0 \in T
  BY WalkStep
<1>2. ASSUME NEW n \in Nat, n \in T PROVE n + 1 \in T
  <2> SUFFICES ASSUME n + 1 <= k PROVE f[n + 1] = g[n + 1]
    OBVIOUS
  <2>1. n \in 0 .. k - 1 /\ n \in 0 .. m - 1 /\ f[n] = g[n] /\ n + 1 \in 1 .. k
    BY <1>2
  <2>2. f[n + 1] = Follow(f[n], p[n + 1])
    BY <2>1, WalkStep
  <2>3. g[n + 1] = Follow(g[n], q[n + 1])
    BY <2>1, WalkStep
  <2> QED
    BY <2>1, <2>2, <2>3
<1> HIDE DEF T
<1>3. Nat \subseteq T
  BY <1>1, <1>2, CountingUp
<1> QED
  BY <1>3 DEF T

LEMMA CanonIs ==
  ASSUME NEW p \in Seq(Name)
  PROVE  \E f : Walk(f, p, Len(p)) /\ Canon(p) = f[Len(p)]
<1> DEFINE IsF(f) == Walk(f, p, Len(p))
<1>1. \E f : IsF(f)
  BY Len(p) \in Nat, WalkExists, Zenon
<1>2. Canon(p) = (CHOOSE f : IsF(f))[Len(p)]
  BY DEF Canon, Walk, Follow
<1> HIDE DEF IsF
<1>3. IsF(CHOOSE f : IsF(f))
  BY <1>1
<1> QED
  BY <1>2, <1>3 DEF IsF

\* What is canonical of the path up to n is where the walk along the path is after n.
LEMMA CanonWalk ==
  ASSUME NEW p \in Seq(Name), NEW g, Walk(g, p, Len(p)), NEW n \in 0 .. Len(p)
  PROVE  Canon(Upto(p, n)) = g[n]
<1> DEFINE q == Upto(p, n)
           m == Len(p)
<1>1. q \in Seq(Name) /\ Len(q) = n /\ n \in Nat /\ m \in Nat /\ n <= m
  BY DEF Upto
<1>2. \A i \in 1 .. n : q[i] = p[i]
  BY DEF Upto
<1>3. Walk(g, p, m)
  OBVIOUS
<1> HIDE DEF q, m
<1>4. PICK f : Walk(f, q, n) /\ Canon(q) = f[n]
  BY <1>1, CanonIs
<1>5. f[n] = g[n]
  BY <1>1, <1>2, <1>3, <1>4, WalkAgree
<1> QED
  BY <1>4, <1>5 DEF q

LEMMA CanonStep ==
  ASSUME NEW p \in Seq(Name), NEW n \in 0 .. Len(p) - 1
  PROVE  Canon(Upto(p, n + 1)) = Follow(Canon(Upto(p, n)), p[n + 1])
<1>1. PICK f : Walk(f, p, Len(p))
  BY CanonIs
<1>2. n \in 0 .. Len(p) /\ n + 1 \in 0 .. Len(p) /\ Len(p) \in Nat
  OBVIOUS
<1>3. f[n + 1] = Follow(f[n], p[n + 1])
  BY <1>1, <1>2, WalkStep
<1> QED
  BY <1>1, <1>2, <1>3, CanonWalk

LEMMA CanonStart == ASSUME NEW p \in Seq(Name) PROVE Canon(Upto(p, 0)) = <<>>
<1>1. PICK f : Walk(f, p, Len(p))
  BY CanonIs
<1>2. f[0] = <<>> /\ 0 \in 0 .. Len(p)
  BY <1>1, Len(p) \in Nat, WalkStep
<1> QED
  BY <1>1, <1>2, CanonWalk

LEMMA UptoFacts ==
  ASSUME NEW p \in Seq(Name)
  PROVE  /\ Upto(p, Len(p)) = p /\ Upto(p, 0) = <<>>
         /\ \A n \in 0 .. Len(p) : /\ Upto(p, n) \in Seq(Name) /\ Len(Upto(p, n)) = n
                                   /\ \A k \in 0 .. n : Upto(Upto(p, n), k) = Upto(p, k)
         /\ \A n \in 0 .. Len(p) - 1 : Append(Upto(p, n), p[n + 1]) = Upto(p, n + 1)
  BY DEF Upto

(***************************************************************************)
(* What holds of the tree throughout: it is one.                           *)
(***************************************************************************)
LEMMA RootIsDir ==
  ASSUME IsTree(tree)
  PROVE  /\ At(<<>>).kind = "dir"
         /\ \A p \in Seq(Name) : Canon(Upto(p, 0)) = <<>> /\ Exists(Upto(p, 0))
<1>1. At(<<>>).kind = "dir"
  BY FsAssumption DEF IsTree, At
<1>2. \A p \in Seq(Name) : Canon(Upto(p, 0)) = <<>>
  BY CanonStart
<1> QED
  BY <1>1, <1>2 DEF Exists

\* Only a directory holds something.
LEMMA AboveIsDir ==
  ASSUME IsTree(tree), NEW p \in Seq(Name), At(p).kind # "none", NEW n \in 0 .. Len(p) - 1
  PROVE  p \in Path /\ At(Upto(p, n)).kind = "dir"
<1>1. p \in Path
  BY DEF At, Nothing
<1>2. tree[Upto(p, n)].kind = "dir" /\ Upto(p, n) \in Path
  <2>1. n \in 0 .. Len(p)
    OBVIOUS
  <2> QED
    BY ZenonT(30), <1>1, <2>1, FsAssumption DEF IsTree, At, Upto
<1> QED
  BY <1>1, <1>2 DEF At

\* A link leads where it says, and says it of a path.
LEMMA LinkFacts ==
  ASSUME IsTree(tree), Straight, NEW p, At(p).kind = "link"
  PROVE  p \in Path /\ At(p).to \in Seq(Name) /\ Free(At(p).to)
<1>1. p \in Path
  BY DEF At, Nothing
<1> QED
  BY <1>1 DEF IsTree, At, Straight

\* A path without links is canonical.
LEMMA CanonFree ==
  ASSUME NEW p \in Seq(Name), Free(p)
  PROVE  Canon(p) = p
<1> DEFINE T == {n \in Nat : n <= Len(p) => Canon(Upto(p, n)) = Upto(p, n)}
<1>1. 0 \in T
  BY UptoFacts, CanonStart
<1>2. ASSUME NEW n \in Nat, n \in T PROVE n + 1 \in T
  <2> SUFFICES ASSUME n + 1 <= Len(p) PROVE Canon(Upto(p, n + 1)) = Upto(p, n + 1)
    OBVIOUS
  <2>1. n \in 0 .. Len(p) - 1 /\ n + 1 \in 1 .. Len(p) /\ Canon(Upto(p, n)) = Upto(p, n)
    BY <1>2
  <2>2. Canon(Upto(p, n + 1)) = Follow(Upto(p, n), p[n + 1])
    BY <2>1, CanonStep
  <2>3. Append(Upto(p, n), p[n + 1]) = Upto(p, n + 1)
    BY <2>1, UptoFacts
  <2> QED
    BY <2>1, <2>2, <2>3 DEF Follow, Free
<1> HIDE DEF T
<1>3. Nat \subseteq T
  BY <1>1, <1>2, CountingUp
<1>4. Len(p) \in Nat /\ Upto(p, Len(p)) = p
  BY UptoFacts
<1> QED
  BY <1>3, <1>4 DEF T

\* What is canonical has no link on it.
LEMMA CanonIsFree ==
  ASSUME IsTree(tree), Straight, NEW p \in Seq(Name)
  PROVE  Canon(p) \in Seq(Name) /\ Free(Canon(p))
<1> DEFINE Good(c) == c \in Seq(Name) /\ Free(c)
           T == {n \in Nat : n <= Len(p) => Good(Canon(Upto(p, n)))}
<1>1. Good(<<>>)
  BY DEF Free
<1>2. ASSUME NEW c \in Seq(Name), Free(c), NEW a \in Name PROVE Good(Follow(c, a))
  <2>1. CASE At(Append(c, a)).kind = "link"
    BY <2>1, LinkFacts DEF Follow
  <2>2. CASE At(Append(c, a)).kind # "link"
    <3> DEFINE d == Append(c, a)
    <3>1. d \in Seq(Name) /\ Len(d) = Len(c) + 1 /\ Len(c) \in Nat
      OBVIOUS
    <3>4. Upto(d, Len(d)) = d
      BY <3>1, UptoFacts
    <3>2. \A n \in 1 .. Len(c) : Upto(d, n) = Upto(c, n)
      BY DEF Upto
    <3>3. Free(d)
      <4> HIDE DEF d
      <4>1. \A n \in 1 .. Len(d) : n \in 1 .. Len(c) \/ n = Len(d)
        BY <3>1
      <4> QED
        BY <1>2, <2>2, <3>1, <3>2, <3>4, <4>1 DEF Free, d
    <3> QED
      BY <2>2, <3>1, <3>3 DEF Follow
  <2> QED
    BY <2>1, <2>2
<1> HIDE DEF Good
<1>3. 0 \in T
  BY <1>1, CanonStart
<1>4. ASSUME NEW n \in Nat, n \in T PROVE n + 1 \in T
  <2> SUFFICES ASSUME n + 1 <= Len(p) PROVE Good(Canon(Upto(p, n + 1)))
    OBVIOUS
  <2>1. n \in 0 .. Len(p) - 1 /\ p[n + 1] \in Name /\ Good(Canon(Upto(p, n)))
    BY <1>4
  <2>2. Canon(Upto(p, n + 1)) = Follow(Canon(Upto(p, n)), p[n + 1])
    BY <2>1, CanonStep
  <2> QED
    BY <1>2, <2>1, <2>2 DEF Good
<1> HIDE DEF T
<1>5. Nat \subseteq T
  BY <1>3, <1>4, CountingUp
<1>6. Len(p) \in Nat /\ Upto(p, Len(p)) = p
  BY UptoFacts
<1> QED
  BY <1>5, <1>6 DEF T, Good

\* Nothing is there below what is not there.
LEMMA NothingBelow ==
  ASSUME IsTree(tree), Straight, NEW p \in Seq(Name), NEW k \in 0 .. Len(p), ~Exists(Upto(p, k))
  PROVE  ~Exists(p)
<1> DEFINE T == {n \in Nat : k <= n /\ n <= Len(p) => ~Exists(Upto(p, n))}
<1>1. 0 \in T
  BY DEF T
<1>2. ASSUME NEW n \in Nat, n \in T PROVE n + 1 \in T
  <2> SUFFICES ASSUME k <= n + 1, n + 1 <= Len(p) PROVE ~Exists(Upto(p, n + 1))
    OBVIOUS
  <2>1. CASE k = n + 1
    BY <2>1
  <2>2. CASE k # n + 1
    <3>1. n \in 0 .. Len(p) - 1 /\ k <= n /\ ~Exists(Upto(p, n)) /\ p[n + 1] \in Name
      BY <1>2, <2>2
    <3> DEFINE c == Canon(Upto(p, n))
               d == Append(c, p[n + 1])
    <3>2. Canon(Upto(p, n + 1)) = Follow(c, p[n + 1])
      BY <3>1, CanonStep
    <3>3. At(c).kind \notin {"dir", "file"}
      BY <3>1 DEF Exists
    <3>4. At(d).kind = "none"
      <4> SUFFICES ASSUME At(d).kind # "none" PROVE FALSE
        OBVIOUS
      <4>1. d \in Path /\ d \in Seq(Name)
        BY FsAssumption DEF At, Nothing
      <4>2. c \in Seq(Name)
        BY <3>1, UptoFacts, CanonIsFree
      <4> HIDE DEF c
      <4>3. Len(d) - 1 \in 0 .. Len(d) - 1 /\ Upto(d, Len(d) - 1) = c
        BY <3>1, <4>2 DEF Upto
      <4> HIDE DEF d
      <4> QED
        BY <3>3, <4>1, <4>3, AboveIsDir
    <3> QED
      BY <3>2, <3>4 DEF Follow, Exists
  <2> QED
    BY <2>1, <2>2
<1> HIDE DEF T
<1>3. Nat \subseteq T
  BY <1>1, <1>2, CountingUp
<1>4. Len(p) \in Nat /\ Upto(p, Len(p)) = p
  BY UptoFacts
<1> QED
  BY <1>3, <1>4 DEF T

(***************************************************************************)
(* What an operation goes on with: a path in scope, without links when     *)
(* there is something.                                                     *)
(***************************************************************************)
PermOK == perm.allowed \subseteq Seq(Name)

LEMMA LargestNumber ==
  ASSUME NEW m \in Nat, NEW T \in SUBSET (0 .. m), T # {}
  PROVE  \E n \in T : \A k \in T : k <= n
<1> DEFINE U == {m - k : k \in T}
<1>1. U \in SUBSET Nat /\ U # {}
  <2>1. \A k \in T : k \in 0 .. m /\ m - k \in Nat
    OBVIOUS
  <2>2. PICK k \in T : TRUE
    OBVIOUS
  <2>3. m - k \in U
    BY <2>2
  <2> QED
    BY <2>1, <2>3
<1>2. PICK u \in U : \A v \in U : u <= v
  <2> HIDE DEF U
  <2> QED
    BY <1>1, LeastNumber
<1>3. PICK n \in T : u = m - n
  BY <1>2
<1>4. ASSUME NEW k \in T PROVE k <= n
  BY <1>2, <1>3
<1> QED
  BY <1>4

\* The longest part of a path that is there, and the rest after it.
LEMMA SoftParts ==
  ASSUME IsTree(tree), Straight, NEW p \in Seq(Name)
  PROVE  \E n \in 0 .. Len(p), c \in Seq(Name) :
           /\ c = Canon(Upto(p, n)) /\ Free(c) /\ Exists(Upto(p, n))
           /\ \A k \in 0 .. Len(p) : Exists(Upto(p, k)) => k <= n
           /\ CanonSoft(p) = c \o SubSeq(p, n + 1, Len(p))
<1> DEFINE there == {n \in 0 .. Len(p) : Exists(Upto(p, n))}
           Longest(n) == n \in there /\ \A m \in there : m <= n
           l == CHOOSE n \in there : \A m \in there : m <= n
<1>1. \E n \in there : \A m \in there : m <= n
  <2>1. 0 \in there /\ there \in SUBSET (0 .. Len(p)) /\ Len(p) \in Nat
    BY RootIsDir
  <2> HIDE DEF there
  <2> QED
    BY <2>1, LargestNumber
<1>2. l \in there /\ \A m \in there : m <= l
  <2> HIDE DEF there
  <2> QED
    BY <1>1
<1>3. CanonSoft(p) = Canon(Upto(p, l)) \o SubSeq(p, l + 1, Len(p))
  BY DEF CanonSoft
<1> HIDE DEF l
<1>4. Canon(Upto(p, l)) \in Seq(Name) /\ Free(Canon(Upto(p, l)))
  BY <1>2, UptoFacts, CanonIsFree
<1> QED
  BY <1>2, <1>3, <1>4

\* canonicalize_soft gives a path without links or one that is not there, and no link
\* unless one leads nowhere.
LEMMA CanonSoftFacts ==
  ASSUME IsTree(tree), Straight, NEW p \in Seq(Name)
  PROVE  /\ CanonSoft(p) \in Seq(Name)
         /\ Exists(CanonSoft(p)) => Free(CanonSoft(p)) /\ Canon(CanonSoft(p)) = CanonSoft(p)
         /\ At(CanonSoft(p)).kind = "link" => At(At(CanonSoft(p)).to).kind = "none"
         /\ Exists(p) => Free(CanonSoft(p))
<1>1. PICK n \in 0 .. Len(p), c \in Seq(Name) :
           /\ c = Canon(Upto(p, n)) /\ Free(c) /\ Exists(Upto(p, n))
           /\ \A k \in 0 .. Len(p) : Exists(Upto(p, k)) => k <= n
           /\ CanonSoft(p) = c \o SubSeq(p, n + 1, Len(p))
  BY SoftParts
<1> DEFINE q == CanonSoft(p)
<1>2. q \in Seq(Name)
  BY <1>1
<1>3. At(c).kind \in {"dir", "file"}
  BY <1>1 DEF Exists
<1>4. CASE n = Len(p)
  <2>1. q = c
    BY <1>1, <1>4
  <2> QED
    BY <1>1, <1>2, <1>3, <2>1, CanonFree
<1>5. CASE n # Len(p)
  <2>1. n \in 0 .. Len(p) - 1 /\ n + 1 \in 0 .. Len(p) /\ Len(p) \in Nat /\ ~(n + 1 <= n)
    BY <1>5
  <2>2. ~Exists(Upto(p, n + 1))
    BY <1>1, <2>1
  <2> DEFINE a == p[n + 1]
             k == Len(c)
  <2>3. a \in Name /\ k \in Nat
    BY <2>1
  <2>4. /\ k \in 0 .. Len(q) - 1 /\ k + 1 \in 0 .. Len(q) /\ q[k + 1] = a
        /\ Upto(q, k) = c /\ Upto(q, k + 1) = Append(c, a)
    <3> DEFINE r == SubSeq(p, n + 1, Len(p))
    <3>1. r \in Seq(Name) /\ Len(r) = Len(p) - n /\ r[1] = a
      BY <2>1
    <3>2. q = c \o r /\ Len(r) >= 1 /\ Len(r) \in Nat
      BY <1>1, <2>1, <3>1
    <3> HIDE DEF r, q, a
    <3>3. Len(q) = k + Len(r) /\ q[k + 1] = a /\ \A i \in 1 .. k : q[i] = c[i]
      BY <2>3, <3>1, <3>2
    <3>4. k \in 0 .. Len(q) - 1 /\ k + 1 \in 0 .. Len(q)
      BY <2>3, <3>2, <3>3
    <3>5. Upto(q, k) = c
      BY <1>2, <3>3, <3>4 DEF Upto
    <3>6. Upto(q, k + 1) = Append(c, a)
      BY SMTT(30), <1>2, <3>3, <3>4, <3>5, UptoFacts
    <3> QED
      BY <3>3, <3>4, <3>5, <3>6
  <2>5. Canon(Upto(p, n + 1)) = Follow(c, a)
    BY <1>1, <2>1, CanonStep
  <2> HIDE DEF q, a, k
  <2>6. Canon(Upto(q, k + 1)) = Follow(c, a)
    <3>1. Canon(Upto(q, k)) = c
      BY <1>1, <2>4, CanonFree
    <3> QED
      BY <1>2, <2>4, <3>1, CanonStep
  <2>7. ~Exists(Upto(q, k + 1))
    BY <2>2, <2>5, <2>6 DEF Exists
  <2>8. ~Exists(q)
    BY <1>2, <2>4, <2>7, NothingBelow
  <2>9. ~Exists(p)
    BY <2>1, <2>2, NothingBelow
  <2>10. ASSUME At(q).kind = "link" PROVE At(At(q).to).kind = "none"
    <3>1. At(Append(c, a)).kind # "dir"
      BY <2>2, <2>5 DEF Exists, Follow
    <3>2. q = Append(c, a)
      <4>1. CASE k + 1 = Len(q)
        BY <1>2, <2>4, <4>1, UptoFacts
      <4>2. CASE k + 1 # Len(q)
        <5>1. k + 1 \in 0 .. Len(q) - 1
          BY <1>2, <2>4, <4>2
        <5> QED
          BY <1>2, <2>4, <2>10, <3>1, <5>1, AboveIsDir
      <4> QED
        BY <4>1, <4>2
    <3> DEFINE t == At(q).to
    <3>3. t \in Seq(Name) /\ Free(t)
      BY <2>10, LinkFacts
    <3>4. At(t).kind \notin {"dir", "file"}
      BY <2>2, <2>5, <2>10, <3>2 DEF Exists, Follow
    <3>5. At(t).kind # "link"
      BY <3>3, <3>4, UptoFacts, RootIsDir DEF Free
    <3> QED
      BY <3>4, <3>5 DEF IsTree, At, Nothing
  <2> QED
    BY <1>2, <2>8, <2>9, <2>10 DEF q
<1> QED
  BY <1>4, <1>5

LEMMA UnderIs ==
  ASSUME NEW p \in Seq(Name), NEW d \in Seq(Name)
  PROVE  Under(p, d) <=> Len(d) <= Len(p) /\ \A i \in 1 .. Len(d) : p[i] = d[i]
<1>1. Upto(d, Len(d)) = d
  BY UptoFacts
<1>2. ASSUME Len(d) <= Len(p)
      PROVE  Upto(p, Len(d)) = d <=> \A i \in 1 .. Len(d) : p[i] = d[i]
  BY <1>2 DEF Upto
<1> QED
  BY <1>1, <1>2 DEF Under, IsPrefix, Upto

LEMMA ScopeTyped ==
  ASSUME IsTree(tree), Straight, PermOK
  PROVE  Scope \subseteq Seq(Name)
<1>1. ASSUME NEW p \in perm.allowed PROVE Expanded(p) \in Seq(Name)
  <2>1. p \in Seq(Name)
    BY DEF PermOK
  <2> QED
    BY <2>1, CanonSoftFacts DEF Expanded
<1> QED
  BY <1>1, FsAssumption DEF Scope

\* What is below a place in scope is in scope.
LEMMA ScopeBelow ==
  ASSUME IsTree(tree), Straight, PermOK, NEW p \in Seq(Name), NEW q \in Seq(Name),
         InScope(p), Under(q, p)
  PROVE  InScope(q)
<1>1. ASSUME NEW d \in Scope, Under(p, d) PROVE Under(q, d)
  <2>1. d \in Seq(Name)
    BY ScopeTyped
  <2> QED
    BY <1>1, <2>1, UnderIs
<1> QED
  BY <1>1 DEF InScope

LEMMA ResolveFacts ==
  ASSUME IsTree(tree), Straight, NEW a \in Arg, Resolve(a) # NoPath
  PROVE  /\ Resolve(a) \in Seq(Name) /\ InScope(Resolve(a))
         /\ Exists(Resolve(a)) => /\ Free(Resolve(a)) /\ Canon(Resolve(a)) = Resolve(a)
                                  /\ Resolve(a) \in Path
                                  /\ At(Resolve(a)).kind \in {"dir", "file"}
         /\ At(Resolve(a)).kind = "link" => perm.follow /\ At(At(Resolve(a)).to).kind = "none"
<1> DEFINE p == Normalized(a)
           q == Resolve(a)
<1>1. p # NoPath /\ InScope(q) /\ q = (IF perm.follow THEN CanonSoft(p) ELSE p)
      /\ (~perm.follow => ~Rejected(p))
  BY DEF Resolve, Enforced
<1>2. p \in Seq(Name)
  BY <1>1, FsAssumption DEF Normalized
<1> HIDE DEF p, q
<1>3. q \in Seq(Name)
  BY <1>1, <1>2, CanonSoftFacts
<1>4. Exists(q) => Free(q) /\ Canon(q) = q
  <2>1. CASE perm.follow
    BY <1>1, <1>2, <2>1, CanonSoftFacts
  <2>2. CASE ~perm.follow
    BY <1>1, <1>2, <2>2, CanonFree DEF Rejected, Free
  <2> QED
    BY <2>1, <2>2
<1>5. At(q).kind = "link" => perm.follow /\ At(At(q).to).kind = "none"
  <2>1. CASE perm.follow
    BY <1>1, <1>2, <2>1, CanonSoftFacts
  <2>2. CASE ~perm.follow
    <3>1. Free(q)
      BY <1>1, <2>2 DEF Rejected, Free
    <3>2. Upto(q, Len(q)) = q /\ Upto(q, 0) = <<>> /\ Len(q) \in Nat
      BY <1>3, UptoFacts
    <3> QED
      BY <3>1, <3>2, RootIsDir DEF Free
  <2> QED
    BY <2>1, <2>2
<1>6. Exists(q) => q \in Path /\ At(q).kind \in {"dir", "file"}
  BY <1>4 DEF Exists, At, Nothing
<1> QED
  BY <1>1, <1>3, <1>4, <1>5, <1>6 DEF q

\* What the other ways to resolve a path add.
LEMMA ExistingFacts ==
  ASSUME NEW a \in Arg, ResolveExisting(a) # NoPath
  PROVE  ResolveExisting(a) = Resolve(a) /\ Exists(Resolve(a)) /\ Resolve(a) # NoPath
  BY DEF ResolveExisting

LEMMA WritableFacts ==
  ASSUME NEW a \in Arg, ResolveWritable(a) # NoPath
  PROVE  /\ ResolveWritable(a) = Resolve(a) /\ Resolve(a) # NoPath
         /\ "write" \in perm.ops
         /\ Exists(Resolve(a)) \/ "create" \in perm.ops
  BY DEF ResolveWritable, May

(***************************************************************************)
(* What the operations come to: five ways to change the tree or what was   *)
(* seen, and what is known of the places they are about.                   *)
(***************************************************************************)
EffectRead ==
  /\ UNCHANGED tree
  /\ \E p \in Path : InScope(p) /\ seen' = seen \cup ({tree[p].data} \cap {"outside"})

\* What a write or a copy is about: a place in scope, or one that a link in scope has
\* lost.
Lost(p) ==
  perm.follow /\ At(p).kind = "none" /\ \E l \in Path : At(l).kind = "link" /\ At(l).to = p /\ InScope(l)

EffectPut(p, d) ==
  /\ p # <<>> /\ tree[Upto(p, Len(p) - 1)].kind = "dir" /\ tree[p].kind # "dir"
  /\ tree' = [tree EXCEPT ![p] = File(d)]
  /\ "write" \in perm.ops
  /\ tree[p].kind # "none" \/ "create" \in perm.ops
  /\ InScope(p) \/ Lost(p)
  /\ d = "outside" => \E q \in Path : InScope(q) /\ tree[q].data = "outside"
  /\ UNCHANGED seen

EffectMake(p) ==
  LET missing == {q \in Path : Under(p, q) /\ tree[q].kind = "none"}
  IN  /\ InScope(p) /\ "create" \in perm.ops
      /\ \A q \in Path : Under(p, q) => q \in missing \/ tree[q].kind = "dir"
      /\ tree' = [q \in Path |-> IF q \in missing THEN Dir ELSE tree[q]]
      /\ UNCHANGED seen

EffectRemove(p) ==
  /\ p # <<>> /\ InScope(p) /\ "delete" \in perm.ops
  /\ tree' = Without(p)
  /\ UNCHANGED seen

EffectMove(p, q) ==
  /\ p # <<>> /\ q # <<>> /\ InScope(p) /\ InScope(q)
  /\ {"write", "delete"} \subseteq perm.ops
  /\ tree[Upto(q, Len(q) - 1)].kind = "dir"
  /\ ~Under(q, p)
  /\ IF tree[p].kind = "dir"
       THEN \A r \in Path : Under(r, q) => tree[r].kind = "none" \/ (r = q /\ tree[q].kind = "dir")
       ELSE tree[p].kind = "file" /\ tree[q].kind # "dir"
  /\ tree' = Moved(p, q)
  /\ UNCHANGED seen

Effect ==
  \/ UNCHANGED <<tree, seen>>
  \/ EffectRead
  \/ \E p \in Path, d \in {"new", "no data"} \cup {tree[q].data : q \in Path} : EffectPut(p, d)
  \/ \E p \in Path : EffectMake(p) \/ EffectRemove(p)
  \/ \E p, q \in Path : EffectMove(p, q)

LEMMA ReadEffect ==
  ASSUME IsTree(tree), Straight, NEW a \in Arg, ReadFile(a)
  PROVE  Effect
<1> DEFINE p == Resolve(a)
<1>1. ResolveExisting(a) = p /\ p \in Path /\ Canon(p) = p /\ InScope(p) /\ UNCHANGED tree
      /\ seen' = seen \cup ({At(Canon(p)).data} \cap {"outside"})
  BY ExistingFacts, ResolveFacts DEF ReadFile
<1> HIDE DEF p
<1>2. At(Canon(p)).data = tree[p].data
  BY <1>1 DEF At
<1> QED
  BY <1>1, <1>2 DEF Effect, EffectRead

\* A file is put where it was written, or there is no place for it.
LEMMA PutEffect ==
  ASSUME IsTree(tree), Straight, NEW a \in Arg, Resolve(a) # NoPath,
         NEW p, p = Opened(Resolve(a)), ~DirAt(p),
         NEW d \in {"new", "no data"} \cup {tree[q].data : q \in Path},
         d = "outside" => \E q \in Path : InScope(q) /\ tree[q].data = "outside",
         "write" \in perm.ops, Exists(Resolve(a)) \/ "create" \in perm.ops,
         tree' = With(p, File(d)), UNCHANGED seen
  PROVE  Effect
<1>1. CASE tree' = tree
  BY <1>1 DEF Effect
<1>2. CASE tree' # tree
  <2>1. p \in Path /\ p # <<>> /\ DirAt(Upto(p, Len(p) - 1)) /\ tree' = [tree EXCEPT ![p] = File(d)]
    BY <1>2 DEF With
  <2>2. tree[p].kind # "dir" /\ tree[Upto(p, Len(p) - 1)].kind = "dir"
    BY <2>1 DEF DirAt, At, Nothing
  <2>3. tree[p].kind # "none" \/ "create" \in perm.ops
    <3>1. CASE Exists(Resolve(a))
      <4>1. At(Resolve(a)).kind \in {"dir", "file"}
        BY <3>1, ResolveFacts
      <4>2. p = Resolve(a)
        BY <4>1 DEF Opened
      <4> QED
        BY <2>1, <4>1, <4>2 DEF At
    <3> QED
      BY <3>1
  <2>4. InScope(p) \/ Lost(p)
    <3>1. CASE At(Resolve(a)).kind = "link"
      <4>1. perm.follow /\ At(p).kind = "none" /\ InScope(Resolve(a)) /\ p = At(Resolve(a)).to
        BY <3>1, ResolveFacts DEF Opened
      <4>2. Resolve(a) \in Path
        BY <3>1 DEF At, Nothing
      <4> QED
        BY <3>1, <4>1, <4>2 DEF Lost
    <3>2. CASE At(Resolve(a)).kind # "link"
      BY <3>2, ResolveFacts DEF Opened
    <3> QED
      BY <3>1, <3>2
  <2> QED
    BY <2>1, <2>2, <2>3, <2>4 DEF Effect, EffectPut
<1> QED
  BY <1>1, <1>2

LEMMA WriteEffect ==
  ASSUME IsTree(tree), Straight, NEW a \in Arg, Write(a, "new")
  PROVE  Effect
<1>1. ResolveWritable(a) # NoPath /\ UNCHANGED seen
  BY DEF Write
<1>2. /\ ResolveWritable(a) = Resolve(a) /\ Resolve(a) # NoPath
      /\ "write" \in perm.ops /\ (Exists(Resolve(a)) \/ "create" \in perm.ops)
  BY <1>1, WritableFacts
<1>3. ~DirAt(Opened(Resolve(a))) /\ tree' = With(Opened(Resolve(a)), File("new"))
  BY <1>2 DEF Write
<1> QED
  BY <1>1, <1>2, <1>3, PutEffect

LEMMA CopyEffect ==
  ASSUME IsTree(tree), Straight, NEW a \in Arg, NEW b \in Arg, Copy(a, b)
  PROVE  Effect
<1> DEFINE p == Resolve(a)
           q == Opened(Resolve(b))
           d == IF p = q THEN "no data" ELSE At(p).data
<1>1. /\ ResolveExisting(a) # NoPath /\ Resolve(b) # NoPath /\ "write" \in perm.ops
      /\ (Exists(Resolve(b)) \/ "create" \in perm.ops) /\ ~DirAt(q) /\ UNCHANGED seen
  BY DEF Copy
<1>2. ResolveExisting(a) = p /\ p \in Path /\ InScope(p)
  BY <1>1, ExistingFacts, ResolveFacts
<1>3. tree' = With(q, File(d))
  BY <1>2 DEF Copy
<1>4. /\ d \in {"new", "no data"} \cup {tree[r].data : r \in Path}
      /\ d = "outside" => \E r \in Path : InScope(r) /\ tree[r].data = "outside"
  BY <1>2 DEF At
<1> HIDE DEF d
<1> QED
  BY <1>1, <1>3, <1>4, PutEffect

LEMMA MkdirEffect ==
  ASSUME IsTree(tree), Straight, NEW a \in Arg, NEW recursive \in BOOLEAN, Mkdir(a, recursive)
  PROVE  Effect
<1> DEFINE p == Resolve(a)
           missing == {Upto(p, n) : n \in {m \in 1 .. Len(p) : At(Upto(p, m)).kind = "none"}}
           gone == {q \in Path : Under(p, q) /\ tree[q].kind = "none"}
<1>1. /\ p # NoPath /\ missing # {} /\ missing \subseteq Path /\ "create" \in perm.ops
      /\ \A n \in 0 .. Len(p) : Upto(p, n) \in missing \/ DirAt(Upto(p, n))
      /\ tree' = [q \in Path |-> IF q \in missing THEN Dir ELSE tree[q]]
      /\ UNCHANGED seen
  BY DEF Mkdir, May
<1>2. p \in Seq(Name) /\ InScope(p)
  BY <1>1, ResolveFacts
<1> HIDE DEF p
<1>3. \A n \in 0 .. Len(p) : Upto(p, n) \in Path /\ (n = 0 => tree[Upto(p, n)].kind = "dir")
  <2> SUFFICES ASSUME NEW n \in 0 .. Len(p)
               PROVE  Upto(p, n) \in Path /\ (n = 0 => tree[Upto(p, n)].kind = "dir")
    OBVIOUS
  <2>1. Upto(p, n) \in Path
    BY <1>1 DEF DirAt, At, Nothing
  <2>2. n = 0 => Upto(p, n) = <<>>
    BY <1>2, UptoFacts
  <2> QED
    BY <2>1, <2>2, FsAssumption DEF IsTree
<1>4. p \in Path
  BY <1>2, <1>3, UptoFacts, Len(p) \in 0 .. Len(p)
<1>5. \A q \in Path : Under(p, q) => Len(q) \in 0 .. Len(p) /\ q = Upto(p, Len(q))
  <2> SUFFICES ASSUME NEW q \in Path, Under(p, q) PROVE Len(q) \in 0 .. Len(p) /\ q = Upto(p, Len(q))
    OBVIOUS
  <2>1. q \in Seq(Name)
    BY FsAssumption
  <2>2. Len(q) <= Len(p) /\ \A i \in 1 .. Len(q) : p[i] = q[i]
    BY <1>2, <2>1, UnderIs
  <2> QED
    BY <1>2, <2>1, <2>2 DEF Upto
<1>6. \A n \in 0 .. Len(p) : Under(p, Upto(p, n))
  <2> SUFFICES ASSUME NEW n \in 0 .. Len(p) PROVE Under(p, Upto(p, n))
    OBVIOUS
  <2>1. /\ Upto(p, n) \in Seq(Name) /\ Len(Upto(p, n)) = n /\ n <= Len(p)
        /\ \A i \in 1 .. n : Upto(p, n)[i] = p[i]
    BY <1>2 DEF Upto
  <2> QED
    BY <1>2, <2>1, UnderIs
<1>7. missing = gone
  <2>1. ASSUME NEW q \in missing PROVE q \in gone
    <3>1. PICK n \in 1 .. Len(p) : q = Upto(p, n) /\ At(Upto(p, n)).kind = "none"
      BY <2>1
    <3>2. n \in 0 .. Len(p)
      OBVIOUS
    <3> QED
      BY <1>3, <1>6, <3>1, <3>2 DEF At
  <2>2. ASSUME NEW q \in gone PROVE q \in missing
    <3>1. Len(q) \in 0 .. Len(p) /\ q = Upto(p, Len(q)) /\ At(q).kind = "none"
      BY <1>5, <2>2 DEF At
    <3>2. Len(q) \in 1 .. Len(p)
      BY <1>3, <2>2, <3>1
    <3> QED
      BY <3>1, <3>2
  <2> QED
    BY <2>1, <2>2
<1>8. \A q \in Path : Under(p, q) => q \in gone \/ tree[q].kind = "dir"
  <2> SUFFICES ASSUME NEW q \in Path, Under(p, q), q \notin gone PROVE tree[q].kind = "dir"
    OBVIOUS
  <2>1. Len(q) \in 0 .. Len(p) /\ q = Upto(p, Len(q))
    BY <1>5
  <2> HIDE DEF missing, gone
  <2> QED
    BY <1>1, <1>7, <2>1 DEF DirAt, At
<1>9. EffectMake(p)
  <2> HIDE DEF missing
  <2> QED
    BY <1>1, <1>2, <1>7, <1>8 DEF EffectMake
<1> QED
  BY <1>4, <1>9 DEF Effect

LEMMA RemoveEffect ==
  ASSUME IsTree(tree), Straight, NEW a \in Arg, NEW recursive \in BOOLEAN, RemovePath(a, recursive)
  PROVE  Effect
<1> DEFINE p == Resolve(a)
<1>1. ResolveExisting(a) = p /\ p \in Path /\ InScope(p)
  BY ExistingFacts, ResolveFacts DEF RemovePath
<1>2. p # <<>> /\ "delete" \in perm.ops /\ tree' = Without(p) /\ UNCHANGED seen
  BY <1>1 DEF RemovePath, May
<1> QED
  BY <1>1, <1>2 DEF Effect, EffectRemove

LEMMA RenameEffect ==
  ASSUME IsTree(tree), Straight, NEW a \in Arg, NEW b \in Arg, Rename(a, b)
  PROVE  Effect
<1> DEFINE p == Resolve(a)
           q == Resolve(b)
<1>1. ResolveExisting(a) # NoPath
  BY DEF Rename
<1>2. /\ ResolveExisting(a) = p /\ p \in Path /\ InScope(p) /\ At(p).kind \in {"dir", "file"}
  BY <1>1, ExistingFacts, ResolveFacts
<1>3. /\ q # NoPath /\ p # <<>> /\ q # <<>> /\ q \in Path /\ DirAt(Upto(q, Len(q) - 1)) /\ ~Under(q, p)
      /\ "write" \in perm.ops /\ "delete" \in perm.ops
      /\ tree' = Moved(p, q) /\ UNCHANGED seen
      /\ IF DirAt(p) THEN \A r \in Path : Under(r, q) => At(r).kind = "none" \/ (r = q /\ DirAt(q))
         ELSE ~DirAt(q)
  BY <1>2 DEF Rename, May
<1>4. InScope(q)
  BY <1>3, ResolveFacts
<1> HIDE DEF p, q
<1>5. tree[Upto(q, Len(q) - 1)].kind = "dir"
  BY <1>3 DEF DirAt, At, Nothing
<1>6. IF tree[p].kind = "dir"
       THEN \A r \in Path : Under(r, q) => tree[r].kind = "none" \/ (r = q /\ tree[q].kind = "dir")
       ELSE tree[p].kind = "file" /\ tree[q].kind # "dir"
  BY <1>2, <1>3 DEF DirAt, At
<1> QED
  BY <1>2, <1>3, <1>4, <1>5, <1>6 DEF Effect, EffectMove

LEMMA Effects ==
  ASSUME IsTree(tree), Straight, FsNext
  PROVE  Effect /\ UNCHANGED <<perm, fsMode>>
<1>1. UNCHANGED <<perm, fsMode>>
  BY DEF FsNext, Reads, Writes, ReadFile, Look, Stat, ListDir, Write, Mkdir, RemovePath, Rename,
         Copy, fsVars
<1>2. CASE Reads
  <2>1. CASE \E a \in Arg : Look(a) \/ Stat(a) \/ ListDir(a)
    BY <2>1 DEF Look, Stat, ListDir, fsVars, Effect
  <2>2. ASSUME NEW a \in Arg, ReadFile(a) PROVE Effect
    BY <2>2, ReadEffect
  <2> QED
    BY <1>1, <1>2, <2>1, <2>2, Zenon DEF Reads
<1>3. CASE Writes
  <2>1. ASSUME NEW a \in Arg, Write(a, "new") PROVE Effect
    BY <2>1, WriteEffect
  <2>2. ASSUME NEW a \in Arg, NEW recursive \in BOOLEAN, Mkdir(a, recursive) PROVE Effect
    BY <2>2, MkdirEffect
  <2>3. ASSUME NEW a \in Arg, NEW recursive \in BOOLEAN, RemovePath(a, recursive) PROVE Effect
    BY <2>3, RemoveEffect
  <2>4. ASSUME NEW a \in Arg, NEW b \in Arg, Rename(a, b) PROVE Effect
    BY <2>4, RenameEffect
  <2>5. ASSUME NEW a \in Arg, NEW b \in Arg, Copy(a, b) PROVE Effect
    BY <2>5, CopyEffect
  <2> QED
    BY <1>1, <1>3, <2>1, <2>2, <2>3, <2>4, <2>5, Zenon DEF Writes
<1> QED
  BY <1>1, <1>2, <1>3 DEF FsNext

(***************************************************************************)
(* The tree stays a tree.                                                  *)
(***************************************************************************)
LEMMA KindFacts ==
  /\ Nothing.kind = "none" /\ Nothing.data = "no data"
  /\ Dir.kind = "dir" /\ Dir.data = "no data"
  /\ \A d : File(d).kind = "file" /\ File(d).data = d
  BY DEF Nothing, Dir, File

\* What a place is under.
LEMMA UnderFacts ==
  /\ \A p \in Path : Under(p, p)
  /\ \A p \in Path : Under(<<>>, p) => p = <<>>
  /\ \A p \in Path : \A n \in 0 .. Len(p) :
       Upto(p, n) \in Path /\ Len(Upto(p, n)) = n /\ Under(p, Upto(p, n))
  /\ \A p, q, r \in Path : Under(p, q) /\ Under(q, r) => Under(p, r)
  /\ \A p, q \in Path : Under(p, q) => Len(q) \in 0 .. Len(p) /\ q = Upto(p, Len(q))
<1>1. \A p \in Path : p \in Seq(Name)
  BY FsAssumption
<1>2. ASSUME NEW p \in Path, NEW n \in 0 .. Len(p)
      PROVE  Upto(p, n) \in Path /\ Len(Upto(p, n)) = n /\ Under(p, Upto(p, n))
  <2>1. Upto(p, n) \in Path
    BY FsAssumption DEF Upto
  <2>2. /\ Upto(p, n) \in Seq(Name) /\ Len(Upto(p, n)) = n /\ n <= Len(p)
        /\ \A i \in 1 .. n : Upto(p, n)[i] = p[i]
    BY <1>1 DEF Upto
  <2> QED
    BY <1>1, <2>1, <2>2, UnderIs
<1>3. ASSUME NEW p \in Path, NEW q \in Path, Under(p, q)
      PROVE  Len(q) \in 0 .. Len(p) /\ q = Upto(p, Len(q))
  <2>1. Len(q) <= Len(p) /\ \A i \in 1 .. Len(q) : p[i] = q[i]
    BY <1>1, <1>3, UnderIs
  <2> QED
    BY <1>1, <2>1 DEF Upto
<1>4. ASSUME NEW p \in Path, NEW q \in Path, NEW r \in Path, Under(p, q), Under(q, r)
      PROVE  Under(p, r)
  <2>1. /\ p \in Seq(Name) /\ q \in Seq(Name) /\ r \in Seq(Name)
        /\ Len(q) <= Len(p) /\ (\A i \in 1 .. Len(q) : p[i] = q[i])
        /\ Len(r) <= Len(q) /\ (\A i \in 1 .. Len(r) : q[i] = r[i])
    BY <1>1, <1>4, UnderIs
  <2> QED
    BY <2>1, UnderIs
<1>5. ASSUME NEW p \in Path PROVE Under(p, p) /\ (Under(<<>>, p) => p = <<>>)
  <2>1. p \in Seq(Name) /\ <<>> \in Seq(Name) /\ Len(<<>>) = 0
    BY <1>1
  <2>2. Under(<<>>, p) => Len(p) <= 0
    BY <2>1, UnderIs
  <2> QED
    BY <2>1, <2>2, UnderIs
<1> QED
  BY <1>2, <1>3, <1>4, <1>5

\* Where what moves from p to q comes from.
From(p, q, r) == p \o SubSeq(r, Len(q) + 1, Len(r))

LEMMA FromIs ==
  ASSUME NEW p \in Path, NEW q \in Path, NEW r \in Path, Under(r, q)
  PROVE  /\ From(p, q, r) \in Seq(Name) /\ Len(From(p, q, r)) = Len(p) + Len(r) - Len(q)
         /\ \A i \in 1 .. Len(p) : From(p, q, r)[i] = p[i]
         /\ \A i \in Len(q) + 1 .. Len(r) : From(p, q, r)[Len(p) + i - Len(q)] = r[i]
<1>1. p \in Seq(Name) /\ q \in Seq(Name) /\ r \in Seq(Name)
  BY FsAssumption
<1>2. Len(q) <= Len(r) /\ \A i \in 1 .. Len(q) : r[i] = q[i]
  BY <1>1, UnderIs
<1> QED
  BY <1>1, <1>2 DEF From

LEMMA FromFacts ==
  ASSUME NEW p \in Path, NEW q \in Path, NEW r \in Path, Under(r, q)
  PROVE  /\ From(p, q, r) \in Seq(Name)
         /\ From(p, q, r) \in Path => Under(From(p, q, r), p)
         /\ \A n \in Len(q) .. Len(r) :
              From(p, q, Upto(r, n)) = Upto(From(p, q, r), Len(p) + n - Len(q))
         /\ Len(From(p, q, r)) = Len(p) + Len(r) - Len(q)
         /\ \A s \in Path : Under(s, q) /\ From(p, q, s) = From(p, q, r) => s = r
<1>1. p \in Seq(Name) /\ q \in Seq(Name) /\ r \in Seq(Name)
  BY FsAssumption
<1>2. Len(q) <= Len(r) /\ \A i \in 1 .. Len(q) : r[i] = q[i]
  BY <1>1, UnderIs
<1> DEFINE f == From(p, q, r)
<1>3. /\ f \in Seq(Name) /\ Len(f) = Len(p) + Len(r) - Len(q)
      /\ \A i \in 1 .. Len(p) : f[i] = p[i]
      /\ \A i \in Len(q) + 1 .. Len(r) : f[Len(p) + i - Len(q)] = r[i]
  BY FromIs
<1>4. Under(f, p)
  <2> HIDE DEF f
  <2> QED
    BY <1>1, <1>2, <1>3, UnderIs
<1>5. ASSUME NEW n \in Len(q) .. Len(r)
      PROVE  From(p, q, Upto(r, n)) = Upto(f, Len(p) + n - Len(q))
  <2> DEFINE u == Upto(r, n)
             g == From(p, q, u)
             h == Upto(f, Len(p) + n - Len(q))
  <2>1. u \in Seq(Name) /\ Len(u) = n /\ (\A i \in 1 .. n : u[i] = r[i])
    BY <1>1, <1>2 DEF Upto
  <2> HIDE DEF u
  <2>2. /\ g \in Seq(Name) /\ Len(g) = Len(p) + n - Len(q)
        /\ \A i \in 1 .. Len(p) : g[i] = p[i]
        /\ \A i \in Len(p) + 1 .. Len(g) : g[i] = r[i - Len(p) + Len(q)]
    BY SMTT(30), <1>1, <1>2, <2>1 DEF From
  <2> HIDE DEF g, f
  <2>3. /\ h \in Seq(Name) /\ Len(h) = Len(p) + n - Len(q)
        /\ \A i \in 1 .. Len(h) : h[i] = f[i]
    BY <1>1, <1>2, <1>3 DEF Upto
  <2>4. \A i \in Len(p) + 1 .. Len(g) : f[i] = r[i - Len(p) + Len(q)]
    <3> SUFFICES ASSUME NEW i \in Len(p) + 1 .. Len(g) PROVE f[i] = r[i - Len(p) + Len(q)]
      OBVIOUS
    <3> DEFINE j == i - Len(p) + Len(q)
    <3>1. j \in Len(q) + 1 .. Len(r) /\ Len(p) + j - Len(q) = i
      BY <1>1, <2>2
    <3> HIDE DEF j
    <3>2. f[Len(p) + j - Len(q)] = r[j]
      BY <1>3, <3>1
    <3> QED
      BY <3>1, <3>2 DEF j
  <2> HIDE DEF h
  <2>5. \A i \in 1 .. Len(g) : g[i] = h[i]
    <3> SUFFICES ASSUME NEW i \in 1 .. Len(g) PROVE g[i] = h[i]
      OBVIOUS
    <3>1. h[i] = f[i]
      BY <2>2, <2>3
    <3>2. CASE i \in 1 .. Len(p)
      BY <1>3, <2>2, <3>1, <3>2
    <3>3. CASE i \in Len(p) + 1 .. Len(g)
      BY <2>2, <2>4, <3>1, <3>3
    <3>4. Len(p) \in Nat /\ Len(g) \in Nat
      BY <1>1, <2>2
    <3> QED
      BY <3>2, <3>3, <3>4
  <2>6. g = h
    <3>1. Len(g) = Len(h)
      BY <2>2, <2>3
    <3> QED
      BY <2>2, <2>3, <2>5, <3>1, SeqEqual, Zenon
  <2> QED
    BY <2>6 DEF g, h, u
<1>6. ASSUME NEW s \in Path, Under(s, q), From(p, q, s) = f PROVE s = r
  <2>1. s \in Seq(Name)
    BY FsAssumption
  <2>2. Len(q) <= Len(s) /\ \A i \in 1 .. Len(q) : s[i] = q[i]
    BY <1>1, <1>6, <2>1, UnderIs
  <2>3. /\ Len(f) = Len(p) + Len(s) - Len(q)
        /\ \A i \in Len(q) + 1 .. Len(s) : f[Len(p) + i - Len(q)] = s[i]
    <3> DEFINE g == From(p, q, s)
    <3>1. /\ Len(g) = Len(p) + Len(s) - Len(q)
          /\ \A i \in Len(q) + 1 .. Len(s) : g[Len(p) + i - Len(q)] = s[i]
      BY ZenonT(30), <1>6, FromIs
    <3>2. g = f
      BY <1>6
    <3> HIDE DEF f, g
    <3> QED
      BY <3>1, <3>2
  <2> HIDE DEF f
  <2>4. Len(s) = Len(r)
    BY <1>1, <1>3, <2>1, <2>3
  <2>5. \A i \in 1 .. Len(r) : s[i] = r[i]
    <3> SUFFICES ASSUME NEW i \in 1 .. Len(r) PROVE s[i] = r[i]
      OBVIOUS
    <3>1. Len(q) \in Nat /\ Len(r) \in Nat
      BY <1>1
    <3>2. CASE i \in 1 .. Len(q)
      BY <1>2, <2>2, <3>2
    <3>3. CASE i \in Len(q) + 1 .. Len(r)
      BY <1>3, <2>3, <2>4, <3>3
    <3> QED
      BY <3>1, <3>2, <3>3
  <2> QED
    BY <1>1, <2>1, <2>4, <2>5
<1> QED
  BY <1>3, <1>4, <1>5, <1>6

\* The parts of IsTree, and that only they are needed: every place that is taken has
\* directories above it.
Above(t, p) == \A n \in 0 .. Len(p) - 1 : t[Upto(p, n)].kind = "dir"

Entry(x) == /\ x.kind \in {"none", "dir", "file", "link"}
            /\ x.kind = "link" => x.to \in Seq(Name)

LEMMA TreeIs ==
  ASSUME NEW t
  PROVE  IsTree(t) <=> /\ t = [p \in Path |-> t[p]]
                       /\ t[<<>>].kind = "dir"
                       /\ \A p \in Path : Entry(t[p]) /\ (t[p].kind # "none" => Above(t, p))
  BY DEF IsTree, Above, Entry, Upto

LEMMA NewEntry == /\ Entry(Nothing) /\ Entry(Dir) /\ \A d : Entry(File(d))
  BY KindFacts DEF Entry

LEMMA PutTree ==
  ASSUME IsTree(tree), NEW p \in Path, NEW d, EffectPut(p, d)
  PROVE  IsTree(tree')
<1>1. /\ p # <<>> /\ tree[Upto(p, Len(p) - 1)].kind = "dir" /\ tree[p].kind # "dir"
      /\ tree' = [tree EXCEPT ![p] = File(d)] /\ tree = [r \in Path |-> tree[r]]
  BY DEF EffectPut, IsTree
<1>2. tree' = [r \in Path |-> IF r = p THEN File(d) ELSE tree[r]]
  BY <1>1
<1>3. \A r \in Path : tree'[r] = IF r = p THEN File(d) ELSE tree[r]
  BY <1>2
<1>4. tree'[<<>>].kind = "dir" /\ tree' = [r \in Path |-> tree'[r]]
  BY <1>1, <1>2, <1>3, FsAssumption DEF IsTree
<1>5. ASSUME NEW r \in Path, tree'[r].kind # "none", NEW n \in 0 .. Len(r) - 1
      PROVE  tree'[Upto(r, n)].kind = "dir"
  <2>1. r \in Seq(Name) /\ n \in 0 .. Len(r) /\ Len(r) \in Nat
    BY FsAssumption
  <2>2. Upto(r, n) \in Path
    BY <2>1, UnderFacts
  <2>3. tree[Upto(r, n)].kind = "dir"
    <3>1. CASE r # p
      BY <1>3, <1>5, <3>1, TreeIs DEF Above
    <3>2. CASE r = p /\ n = Len(p) - 1
      BY <1>1, <3>2
    <3>3. CASE r = p /\ n # Len(p) - 1
      <4> DEFINE u == Upto(p, Len(p) - 1)
      <4>1. Len(p) - 1 \in 0 .. Len(p) /\ n \in 0 .. Len(p) - 1 - 1
        BY <2>1, <3>3
      <4>2. u \in Path /\ Len(u) = Len(p) - 1 /\ tree[u].kind = "dir"
        BY <1>1, <4>1, UnderFacts
      <4>3. Upto(u, n) = Upto(p, n)
        BY <2>1, <3>3, <4>1, UptoFacts
      <4> HIDE DEF u
      <4>4. Above(tree, u)
        BY <4>2, TreeIs
      <4> QED
        BY <3>3, <4>1, <4>2, <4>3, <4>4 DEF Above
    <3> QED
      BY <3>1, <3>2, <3>3
  <2> QED
    BY <1>1, <1>3, <2>2, <2>3
<1>6. \A r \in Path : Entry(tree'[r])
  BY <1>3, NewEntry, TreeIs
<1> QED
  BY <1>4, <1>5, <1>6, TreeIs DEF Above

LEMMA MakeTree ==
  ASSUME IsTree(tree), NEW p \in Path, EffectMake(p)
  PROVE  IsTree(tree')
<1> DEFINE missing == {q \in Path : Under(p, q) /\ tree[q].kind = "none"}
<1>1. /\ \A q \in Path : Under(p, q) => q \in missing \/ tree[q].kind = "dir"
      /\ tree' = [q \in Path |-> IF q \in missing THEN Dir ELSE tree[q]]
  BY DEF EffectMake
<1>2. \A r \in Path : tree'[r] = IF r \in missing THEN Dir ELSE tree[r]
  BY <1>1
<1>3. \A r \in Path : tree[r].kind = "dir" => tree'[r].kind = "dir"
  BY <1>2
<1>4. tree'[<<>>].kind = "dir" /\ tree' = [r \in Path |-> tree'[r]]
  BY <1>1, <1>3, FsAssumption DEF IsTree
<1>5. ASSUME NEW r \in Path, tree'[r].kind # "none", NEW n \in 0 .. Len(r) - 1
      PROVE  tree'[Upto(r, n)].kind = "dir"
  <2>1. Upto(r, n) \in Path /\ Under(r, Upto(r, n))
    <3>1. n \in 0 .. Len(r)
      BY FsAssumption
    <3> QED
      BY <3>1, UnderFacts
  <2>2. CASE r \in missing
    <3>1. Under(p, Upto(r, n))
      BY <2>1, <2>2, UnderFacts
    <3> QED
      BY <1>1, <1>2, <1>3, <2>1, <3>1, KindFacts
  <2>3. CASE r \notin missing
    <3>1. Above(tree, r)
      BY <1>2, <1>5, <2>3, TreeIs
    <3> QED
      BY <1>3, <2>1, <3>1 DEF Above
  <2> QED
    BY <2>2, <2>3
<1>6. \A r \in Path : Entry(tree'[r])
  BY <1>2, NewEntry, TreeIs
<1> QED
  BY <1>4, <1>5, <1>6, TreeIs DEF Above

LEMMA RemoveTree ==
  ASSUME IsTree(tree), NEW p \in Path, EffectRemove(p)
  PROVE  IsTree(tree')
<1>1. p # <<>> /\ tree' = [q \in Path |-> IF Under(q, p) THEN Nothing ELSE tree[q]]
  BY DEF EffectRemove, Without
<1>2. \A r \in Path : tree'[r] = IF Under(r, p) THEN Nothing ELSE tree[r]
  BY <1>1
<1>3. tree'[<<>>].kind = "dir" /\ tree' = [r \in Path |-> tree'[r]]
  BY <1>1, <1>2, FsAssumption, UnderFacts DEF IsTree
<1>4. ASSUME NEW r \in Path, tree'[r].kind # "none", NEW n \in 0 .. Len(r) - 1
      PROVE  tree'[Upto(r, n)].kind = "dir"
  <2>1. Upto(r, n) \in Path /\ Under(r, Upto(r, n))
    <3>1. n \in 0 .. Len(r)
      BY FsAssumption
    <3> QED
      BY <3>1, UnderFacts
  <2>2. ~Under(r, p) /\ tree[r].kind # "none"
    BY <1>2, <1>4, KindFacts
  <2>3. ~Under(Upto(r, n), p)
    BY <2>1, <2>2, UnderFacts
  <2>4. tree[Upto(r, n)].kind = "dir"
    BY <2>2, TreeIs DEF Above
  <2> QED
    BY <1>2, <2>1, <2>3, <2>4
<1>5. \A r \in Path : Entry(tree'[r])
  BY <1>2, NewEntry, TreeIs
<1> QED
  BY <1>3, <1>4, <1>5, TreeIs DEF Above

LEMMA MovedIs ==
  ASSUME NEW p \in Path, NEW q \in Path, EffectMove(p, q)
  PROVE  /\ tree' = [r \in Path |-> tree'[r]]
         /\ \A r \in Path :
              tree'[r] = IF Under(r, q) /\ From(p, q, r) \in Path THEN tree[From(p, q, r)]
                         ELSE IF Under(r, p) \/ Under(r, q) THEN Nothing ELSE tree[r]
<1>1. tree' = [r \in Path |->
         IF Under(r, q) /\ From(p, q, r) \in Path THEN tree[From(p, q, r)]
         ELSE IF Under(r, p) \/ Under(r, q) THEN Nothing ELSE tree[r]]
  BY DEF EffectMove, Moved, From
<1> QED
  BY <1>1

LEMMA MoveTree ==
  ASSUME IsTree(tree), NEW p \in Path, NEW q \in Path, EffectMove(p, q)
  PROVE  IsTree(tree')
<1>1. /\ p # <<>> /\ q # <<>> /\ tree[Upto(q, Len(q) - 1)].kind = "dir" /\ ~Under(q, p)
  BY DEF EffectMove
<1>2. /\ p \in Seq(Name) /\ q \in Seq(Name) /\ Len(p) \in Nat /\ Len(q) \in Nat
      /\ \A r \in Path : r \in Seq(Name) /\ Len(r) \in Nat
  BY FsAssumption
<1>3. tree'[<<>>].kind = "dir"
  BY <1>1, FsAssumption, MovedIs, UnderFacts DEF IsTree
<1>4. ASSUME NEW r \in Path, tree'[r].kind # "none", NEW n \in 0 .. Len(r) - 1
      PROVE  tree'[Upto(r, n)].kind = "dir"
  <2> DEFINE u == Upto(r, n)
  <2>1. u \in Path /\ Under(r, u) /\ Len(u) = n /\ n \in 0 .. Len(r)
    <3>1. n \in 0 .. Len(r)
      BY <1>2
    <3> QED
      BY <3>1, UnderFacts
  <2>2. CASE Under(r, q) /\ From(p, q, r) \in Path /\ n < Len(q)
    <3>1. q = Upto(r, Len(q)) /\ Len(q) \in 0 .. Len(r)
      BY <2>2, UnderFacts
    <3>2. u = Upto(q, n) /\ n \in 0 .. Len(q) - 1 /\ n \in 0 .. Len(q)
      <4>1. n \in 0 .. Len(q) - 1 /\ n \in 0 .. Len(q)
        BY <1>2, <2>2
      <4> QED
        BY <1>2, <3>1, <4>1, UptoFacts
    <3>3. Under(q, u) /\ ~Under(u, q) /\ ~Under(u, p)
      <4>1. Under(q, u)
        BY <3>2, UnderFacts
      <4>2. ~Under(u, q)
        BY <1>2, <2>1, <2>2, UnderFacts
      <4> QED
        BY <1>1, <2>1, <4>1, <4>2, UnderFacts
    <3>4. tree[u].kind = "dir"
      <4> DEFINE v == Upto(q, Len(q) - 1)
      <4>1. Len(q) - 1 \in 0 .. Len(q)
        BY <1>2, <3>2
      <4>2. v \in Path /\ Len(v) = Len(q) - 1 /\ tree[v].kind = "dir"
        BY <1>1, <4>1, UnderFacts
      <4>3. Above(tree, v)
        BY <4>2, TreeIs
      <4>4. CASE n = Len(q) - 1
        BY <3>2, <4>2, <4>4
      <4>5. CASE n # Len(q) - 1
        <5>1. n \in 0 .. Len(q) - 1 - 1 /\ n \in 0 .. Len(q) - 1
          BY <1>2, <3>2, <4>5
        <5>2. Upto(v, n) = Upto(q, n)
          BY <1>2, <4>1, <5>1, UptoFacts
        <5> HIDE DEF v, u
        <5> QED
          BY <3>2, <4>2, <4>3, <5>1, <5>2 DEF Above
      <4> QED
        BY <4>4, <4>5
    <3> HIDE DEF u
    <3>5. tree'[u] = tree[u]
      BY <2>1, <3>3, MovedIs
    <3> QED
      BY <3>4, <3>5 DEF u
  <2>3. CASE Under(r, q) /\ From(p, q, r) \in Path /\ ~(n < Len(q))
    <3> DEFINE f == From(p, q, r)
               k == Len(p) + n - Len(q)
    <3>1. /\ Len(f) = Len(p) + Len(r) - Len(q) /\ tree'[r] = tree[f] /\ n \in Len(q) .. Len(r)
      <4>1. Len(f) = Len(p) + Len(r) - Len(q)
        BY <2>3, FromIs
      <4>2. tree'[r] = tree[f]
        BY <2>3, MovedIs
      <4>3. n \in Len(q) .. Len(r)
        BY <1>2, <2>1, <2>3
      <4> QED
        BY <4>1, <4>2, <4>3
    <3>2. k \in 0 .. Len(f) - 1 /\ k \in 0 .. Len(f)
      BY <1>2, <2>1, <3>1
    <3>3. From(p, q, u) = Upto(f, k)
      BY <2>3, <3>1, FromFacts
    <3>4. Upto(f, k) \in Path /\ tree[Upto(f, k)].kind = "dir"
      <4> HIDE DEF f, k
      <4>1. f \in Path
        BY <2>3 DEF f
      <4>2. Above(tree, f)
        BY <1>4, <3>1, <4>1, TreeIs
      <4> QED
        BY <3>2, <4>1, <4>2, UnderFacts DEF Above
    <3>5. Under(u, q)
      <4>1. q = Upto(r, Len(q)) /\ Len(q) \in 0 .. n
        BY <1>2, <2>1, <2>3, UnderFacts
      <4>2. Upto(u, Len(q)) = q
        BY <1>2, <2>1, <4>1, UptoFacts
      <4> QED
        BY <2>1, <4>1, <4>2, UnderFacts
    <3> HIDE DEF u, f, k
    <3> QED
      BY <2>1, <3>3, <3>4, <3>5, MovedIs DEF u
  <2>4. CASE ~(Under(r, q) /\ From(p, q, r) \in Path)
    <3>1. ~Under(r, p) /\ ~Under(r, q) /\ tree'[r] = tree[r]
      BY ZenonT(30), <1>4, <2>4, MovedIs, KindFacts
    <3>2. ~Under(u, p) /\ ~Under(u, q)
      BY <2>1, <3>1, UnderFacts
    <3>3. tree[u].kind = "dir"
      BY <1>4, <3>1, TreeIs DEF Above
    <3> HIDE DEF u
    <3>4. tree'[u] = tree[u]
      BY <2>1, <3>2, MovedIs
    <3> QED
      BY <3>3, <3>4 DEF u
  <2> QED
    BY <2>2, <2>3, <2>4
<1>5. \A r \in Path : Entry(tree'[r])
  BY MovedIs, NewEntry, TreeIs
<1> QED
  BY <1>3, <1>4, <1>5, MovedIs, TreeIs DEF Above

LEMMA EffectTree == ASSUME IsTree(tree), Effect PROVE IsTree(tree')
  BY PutTree, MakeTree, RemoveTree, MoveTree DEF Effect, EffectRead

(***************************************************************************)
(* The run: only the fs calls touch the tree.                              *)
(***************************************************************************)
TreeInv == IsTree(tree) /\ PermOK

LEMMA InitTree == Init => TreeInv
  BY AgentAssumption DEF Init, FsInit, TreeInv, PermOK

LEMMA OnlyFileCalls == ASSUME [Next]_hostVars PROVE FsNext \/ UNCHANGED fsVars
<1>1. CASE UNCHANGED hostVars
  BY <1>1 DEF hostVars
<1>2. CASE Module
  BY <1>2 DEF Module, Start, SetResult, FileCall, JsWaits, JsEnds, WasmEnds, RunTimesOut
<1>3. CASE Fetches
  BY <1>3 DEF Fetches, Fetch, CheckHop, SendHop, HopAnswered, Begins, Returns, Fails
<1>4. CASE Processes
  BY <1>4 DEF Processes, RunProcess, RefuseProcess, ProcessEnds, ProcessTimesOut, LeftProcessEnds,
              Begins, Returns, Fails
<1>5. CASE Streams \/ Consultations
  BY <1>5 DEF Streams, Consultations, ChatStream, ReceiveChunk, StreamEnds, ReadInput, AskModel,
              UseTools, Consults, Consulted, Begins, Returns, Fails
<1> QED
  BY <1>1, <1>2, <1>3, <1>4, <1>5 DEF Next

LEMMA StepEffect ==
  ASSUME TreeInv, Straight, [Next]_hostVars
  PROVE  (Effect /\ UNCHANGED <<perm, fsMode>>) \/ UNCHANGED fsVars
  BY OnlyFileCalls, Effects DEF TreeInv

LEMMA TreeInvariance == Spec /\ []Straight => []TreeInv
<1>1. TreeInv /\ Straight /\ [Next]_hostVars => TreeInv'
  <2> SUFFICES ASSUME TreeInv, Straight, [Next]_hostVars PROVE TreeInv'
    OBVIOUS
  <2>1. CASE UNCHANGED fsVars
    BY <2>1 DEF fsVars, TreeInv, IsTree, PermOK
  <2>2. CASE Effect /\ UNCHANGED <<perm, fsMode>>
    <3>1. IsTree(tree')
      BY <2>2, EffectTree DEF TreeInv
    <3> QED
      BY <2>2, <3>1 DEF TreeInv, PermOK
  <2> QED
    BY <2>1, <2>2, StepEffect
<1> QED
  BY <1>1, InitTree, PTL DEF Spec

(***************************************************************************)
(* Scope.                                                                  *)
(***************************************************************************)
ScopeStep ==
  \A p \in Path : tree'[p] # tree[p] => InScope(p) \/ MadeOnTheWay(p) \/ MadeThroughLink(p)

LEMMA EffectScope == ASSUME TreeInv, Straight, Effect PROVE ScopeStep
<1> SUFFICES ASSUME NEW r \in Path, tree'[r] # tree[r], ~InScope(r)
             PROVE  MadeOnTheWay(r) \/ MadeThroughLink(r)
  BY DEF ScopeStep
<1>1. /\ IsTree(tree) /\ PermOK /\ tree = [p \in Path |-> tree[p]]
      /\ \A p \in Path : p \in Seq(Name)
  BY FsAssumption DEF TreeInv, IsTree
<1>2. \A p \in Path : InScope(p) => ~Under(r, p)
  BY <1>1, ScopeBelow
<1>3. ASSUME NEW p \in Path, NEW d, EffectPut(p, d) PROVE MadeThroughLink(r)
  <2>1. (InScope(p) \/ Lost(p)) /\ tree' = [tree EXCEPT ![p] = File(d)]
    BY <1>3 DEF EffectPut
  <2>2. r = p
    BY <1>1, <2>1
  <2>3. Lost(r) /\ tree'[r] = File(d)
    BY <1>1, <2>1, <2>2
  <2> QED
    BY <2>3, KindFacts DEF Lost, MadeThroughLink
<1>4. ASSUME NEW p \in Path, EffectMake(p) PROVE MadeOnTheWay(r)
  <2> DEFINE missing == {q \in Path : Under(p, q) /\ tree[q].kind = "none"}
  <2>1. InScope(p) /\ tree' = [q \in Path |-> IF q \in missing THEN Dir ELSE tree[q]]
    BY <1>4 DEF EffectMake
  <2>2. tree'[r] = Dir /\ Under(p, r) /\ tree[r].kind = "none"
    BY <2>1
  <2>3. PICK d \in Scope : Under(p, d)
    BY <2>1 DEF InScope
  <2>4. d \in Seq(Name) /\ ~Under(r, d)
    BY <1>1, <2>3, ScopeTyped DEF InScope
  <2>5. Under(d, r)
    <3>1. /\ Len(d) <= Len(p) /\ (\A i \in 1 .. Len(d) : p[i] = d[i])
          /\ Len(r) <= Len(p) /\ (\A i \in 1 .. Len(r) : p[i] = r[i])
      BY <1>1, <2>2, <2>3, <2>4, UnderIs
    <3>2. ~(Len(d) <= Len(r))
      <4> SUFFICES ASSUME Len(d) <= Len(r) PROVE FALSE
        OBVIOUS
      <4>1. \A i \in 1 .. Len(d) : r[i] = d[i]
        BY <1>1, <2>4, <3>1
      <4> QED
        BY <1>1, <2>4, <4>1, UnderIs
    <3>3. Len(r) <= Len(d) /\ \A i \in 1 .. Len(r) : d[i] = r[i]
      BY <1>1, <2>4, <3>1, <3>2
    <3> QED
      BY <1>1, <2>4, <3>3, UnderIs
  <2> QED
    BY <2>2, <2>3, <2>5 DEF MadeOnTheWay, At
<1>5. ASSUME NEW p \in Path, EffectRemove(p) PROVE FALSE
  <2>1. InScope(p) /\ tree' = [q \in Path |-> IF Under(q, p) THEN Nothing ELSE tree[q]]
    BY <1>5 DEF EffectRemove, Without
  <2> QED
    BY <1>2, <2>1
<1>6. ASSUME NEW p \in Path, NEW q \in Path, EffectMove(p, q) PROVE FALSE
  <2>1. InScope(p) /\ InScope(q)
    BY <1>6 DEF EffectMove
  <2>2. ~Under(r, p) /\ ~Under(r, q)
    BY <1>2, <2>1
  <2> QED
    BY <1>6, <2>2, MovedIs
<1>7. CASE UNCHANGED <<tree, seen>> \/ EffectRead
  BY <1>7 DEF EffectRead
<1> QED
  BY <1>3, <1>4, <1>5, <1>6, <1>7 DEF Effect

(***************************************************************************)
(* Permissions.                                                            *)
(***************************************************************************)
LEMMA TakenFinite ==
  ASSUME NEW t
  PROVE  /\ Taken(t) \subseteq Path /\ IsFiniteSet(Taken(t)) /\ Cardinality(Taken(t)) \in Nat
         /\ \A s \in SUBSET Taken(t) : Cardinality(s) <= Cardinality(Taken(t))
<1>1. Taken(t) \subseteq Path
  BY DEF Taken
<1>2. IsFiniteSet(Taken(t))
  BY <1>1, FsAssumption, FS_Subset
<1> QED
  BY <1>1, <1>2, FS_CardinalityType, FS_Subset

\* What moves takes no more places than it gives up.
LEMMA MovedTaken ==
  ASSUME NEW p \in Path, NEW q \in Path, EffectMove(p, q)
  PROVE  Cardinality(Taken(tree')) <= Cardinality(Taken(tree))
<1> DEFINE S == Taken(tree')
           T == Taken(tree)
           Comes(r) == Under(r, q) /\ From(p, q, r) \in Path
           f == [r \in S |-> IF Comes(r) THEN From(p, q, r) ELSE r]
<1>1. ASSUME NEW r \in S PROVE f[r] \in T /\ (Comes(r) <=> Under(f[r], p))
  <2>1. r \in Path /\ tree'[r].kind # "none"
    BY DEF Taken
  <2>2. CASE Comes(r)
    <3>1. tree[From(p, q, r)].kind # "none"
      BY <2>1, <2>2, MovedIs
    <3>2. Under(From(p, q, r), p)
      BY <2>1, <2>2, FromFacts
    <3> QED
      BY <2>2, <3>1, <3>2 DEF Taken
  <2>3. CASE ~Comes(r)
    <3>1. ~Under(r, p) /\ tree[r].kind # "none"
      BY ZenonT(30), <2>1, <2>3, MovedIs, KindFacts
    <3> QED
      BY <2>1, <2>3, <3>1 DEF Taken
  <2> QED
    BY <2>2, <2>3
<1>2. ASSUME NEW r \in S, NEW s \in S, f[r] = f[s] PROVE r = s
  <2>1. r \in Path /\ s \in Path
    BY DEF Taken
  <2>2. Comes(r) <=> Comes(s)
    <3> HIDE DEF f, Comes, S
    <3> QED
      BY <1>1, <1>2
  <2>3. CASE Comes(r)
    <3>1. Under(r, q) /\ Under(s, q) /\ From(p, q, r) = From(p, q, s)
      BY <1>2, <2>2, <2>3
    <3> HIDE DEF f, Comes, S
    <3> QED
      BY <2>1, <3>1, FromFacts
  <2>4. CASE ~Comes(r)
    BY <1>2, <2>2, <2>4
  <2> QED
    BY <2>3, <2>4
<1>3. f \in Injection(S, T)
  <2>1. f \in [S -> T]
    BY <1>1
  <2> HIDE DEF f, S, T
  <2> QED
    BY <1>2, <2>1 DEF Injection, IsInjective
<1> HIDE DEF f, S, T
<1>4. IsFiniteSet(T)
  BY TakenFinite DEF T
<1>5. Cardinality(S) <= Cardinality(T)
  BY <1>3, <1>4, FS_Injection
<1> QED
  BY <1>5 DEF S, T

PermissionStep ==
  /\ ~(Taken(tree) \subseteq Taken(tree')) => "delete" \in perm.ops
  /\ Cardinality(Taken(tree')) > Cardinality(Taken(tree)) => "create" \in perm.ops
  /\ (\E p \in Path : {tree[p].kind, tree'[p].kind} = {"file"} /\ tree[p] # tree'[p])
       => "write" \in perm.ops

LEMMA SameKinds ==
  ASSUME NEW p, {tree[p].kind, tree'[p].kind} = {"file"}
  PROVE  tree[p].kind = "file" /\ tree'[p].kind = "file"
  OBVIOUS

LEMMA EffectPermission == ASSUME TreeInv, Effect PROVE PermissionStep
<1>1. tree = [r \in Path |-> tree[r]]
  BY DEF TreeInv, IsTree
<1>2. /\ Cardinality(Taken(tree)) \in Nat /\ Cardinality(Taken(tree')) \in Nat
      /\ Taken(tree') \subseteq Taken(tree) => Cardinality(Taken(tree')) <= Cardinality(Taken(tree))
  BY TakenFinite
<1>3. CASE UNCHANGED <<tree, seen>> \/ EffectRead
  <2>1. UNCHANGED tree
    BY <1>3 DEF EffectRead
  <2> QED
    BY <1>2, <2>1 DEF PermissionStep
<1>4. ASSUME NEW p \in Path, NEW d, EffectPut(p, d) PROVE PermissionStep
  <2>1. /\ tree' = [tree EXCEPT ![p] = File(d)] /\ "write" \in perm.ops
        /\ tree[p].kind # "none" \/ "create" \in perm.ops
    BY <1>4 DEF EffectPut
  <2>2. \A r \in Path : tree'[r] = IF r = p THEN File(d) ELSE tree[r]
    BY <1>1, <2>1
  <2>3. Taken(tree) \subseteq Taken(tree') /\ (tree[p].kind # "none" => Taken(tree') \subseteq Taken(tree))
    BY <2>2, KindFacts DEF Taken
  <2>4. Cardinality(Taken(tree')) > Cardinality(Taken(tree)) => "create" \in perm.ops
    <3> SUFFICES ASSUME tree[p].kind # "none"
                 PROVE  ~(Cardinality(Taken(tree')) > Cardinality(Taken(tree)))
      BY <2>1
    <3>1. Cardinality(Taken(tree')) <= Cardinality(Taken(tree))
      BY <1>2, <2>3
    <3> QED
      BY <1>2, <3>1
  <2> QED
    BY <2>1, <2>3, <2>4 DEF PermissionStep
<1>5. ASSUME NEW p \in Path, EffectMake(p) PROVE PermissionStep
  <2> DEFINE missing == {q \in Path : Under(p, q) /\ tree[q].kind = "none"}
  <2>1. /\ "create" \in perm.ops
        /\ tree' = [q \in Path |-> IF q \in missing THEN Dir ELSE tree[q]]
    BY <1>5 DEF EffectMake
  <2>2. \A r \in Path : tree'[r] = IF r \in missing THEN Dir ELSE tree[r]
    BY <2>1
  <2>3. Taken(tree) \subseteq Taken(tree')
    BY <2>2, KindFacts DEF Taken
  <2>4. \A r \in Path : tree'[r] # tree[r] => tree'[r].kind = "dir"
    BY <2>2, KindFacts
  <2> QED
    BY <2>1, <2>3, <2>4, SameKinds DEF PermissionStep
<1>6. ASSUME NEW p \in Path, EffectRemove(p) PROVE PermissionStep
  <2>1. /\ "delete" \in perm.ops
        /\ tree' = [q \in Path |-> IF Under(q, p) THEN Nothing ELSE tree[q]]
    BY <1>6 DEF EffectRemove, Without
  <2>2. \A r \in Path : tree'[r] = Nothing \/ tree'[r] = tree[r]
    BY <2>1
  <2>3. Taken(tree') \subseteq Taken(tree)
    BY <2>2, KindFacts DEF Taken
  <2>4. \A r \in Path : tree'[r] # tree[r] => tree'[r].kind = "none"
    BY <2>2, KindFacts
  <2> QED
    BY <1>2, <2>1, <2>3, <2>4, SameKinds DEF PermissionStep
<1>7. ASSUME NEW p \in Path, NEW q \in Path, EffectMove(p, q) PROVE PermissionStep
  <2>1. "write" \in perm.ops /\ "delete" \in perm.ops
    BY <1>7 DEF EffectMove
  <2>2. Cardinality(Taken(tree')) <= Cardinality(Taken(tree))
    BY <1>7, MovedTaken
  <2> QED
    BY <1>2, <2>1, <2>2 DEF PermissionStep
<1> QED
  BY <1>3, <1>4, <1>5, <1>6, <1>7 DEF Effect

(***************************************************************************)
(* What lies outside.                                                      *)
(***************************************************************************)
Outside(t) == {p \in Path : t[p].data = "outside"}

LEMMA EffectOutside ==
  ASSUME TreeInv, Straight, Effect
  PROVE  /\ "outside" \in seen' => "outside" \in seen \/ \E p \in Outside(tree) : InScope(p)
         /\ \A p \in Outside(tree') :
              InScope(p) => \E q \in Outside(tree) : InScope(q)
<1>1. tree = [r \in Path |-> tree[r]]
  BY DEF TreeInv, IsTree
<1>2. CASE UNCHANGED <<tree, seen>>
  BY <1>2
<1>3. CASE EffectRead
  BY <1>3 DEF EffectRead, Outside
<1>4. ASSUME NEW p \in Path, NEW d, EffectPut(p, d),
             NEW r \in Outside(tree'), InScope(r)
      PROVE  \E q \in Outside(tree) : InScope(q)
  <2>1. /\ tree' = [tree EXCEPT ![p] = File(d)]
        /\ d = "outside" => \E q \in Path : InScope(q) /\ tree[q].data = "outside"
    BY <1>4 DEF EffectPut
  <2>2. r \in Path /\ tree'[r] = (IF r = p THEN File(d) ELSE tree[r])
    BY <1>1, <2>1 DEF Outside
  <2>3. CASE r = p
    <3>1. tree'[r].data = d
      BY <2>2, <2>3, KindFacts
    <3> QED
      BY <1>4, <2>1, <3>1 DEF Outside
  <2>4. CASE r # p
    BY <1>4, <2>2, <2>4 DEF Outside
  <2> QED
    BY <2>3, <2>4
<1>5. ASSUME NEW p \in Path, EffectMake(p), NEW r \in Outside(tree'), InScope(r)
      PROVE  \E q \in Outside(tree) : InScope(q)
  <2>1. r \in Path /\ tree'[r] \in {Dir, tree[r]}
    BY <1>5 DEF EffectMake, Outside
  <2> QED
    BY <1>5, <2>1, KindFacts DEF Outside
<1>6. ASSUME NEW p \in Path, EffectRemove(p), NEW r \in Outside(tree'), InScope(r)
      PROVE  \E q \in Outside(tree) : InScope(q)
  <2>1. r \in Path /\ tree'[r] \in {Nothing, tree[r]}
    BY <1>6 DEF EffectRemove, Without, Outside
  <2> QED
    BY <1>6, <2>1, KindFacts DEF Outside
<1>7. ASSUME NEW p \in Path, NEW q \in Path, EffectMove(p, q),
             NEW r \in Outside(tree'), InScope(r)
      PROVE  \E x \in Outside(tree) : InScope(x)
  <2>1. r \in Path /\ tree'[r].data = "outside"
    BY DEF Outside
  <2>2. CASE Under(r, q) /\ From(p, q, r) \in Path
    <3>1. tree'[r] = tree[From(p, q, r)]
      BY <1>7, <2>1, <2>2, MovedIs
    <3>2. Under(From(p, q, r), p) /\ From(p, q, r) \in Seq(Name) /\ p \in Seq(Name)
      BY <2>1, <2>2, FromFacts, FsAssumption
    <3>3. InScope(p)
      BY <1>7 DEF EffectMove
    <3>4. InScope(From(p, q, r))
      BY <1>7, <3>2, <3>3, ScopeBelow DEF TreeInv
    <3> QED
      BY <2>1, <2>2, <3>1, <3>4 DEF Outside
  <2>3. CASE ~(Under(r, q) /\ From(p, q, r) \in Path)
    <3>1. tree'[r] \in {Nothing, tree[r]}
      BY <1>7, <2>1, <2>3, MovedIs
    <3> QED
      BY <1>7, <2>1, <3>1, KindFacts DEF Outside
  <2> QED
    BY <2>2, <2>3
<1> QED
  BY <1>2, <1>3, <1>4, <1>5, <1>6, <1>7 DEF Effect, EffectPut, EffectMake, EffectRemove, EffectMove

\* As long as what is allowed stays what it was, outside stays outside.
SeenInv == Scope # {} => "outside" \notin seen /\ \A p \in Outside(tree) : ~InScope(p)

LEMMA SeenIs == SeenInv <=> OutsideStaysUnseen
  BY DEF SeenInv, Outside, OutsideStaysUnseen

LEMMA SeenStep ==
  ASSUME TreeInv, Straight, SeenInv, [Next]_hostVars, Scope' = Scope
  PROVE  SeenInv'
<1>1. \A p : InScope(p)' <=> InScope(p)
  BY DEF InScope
<1>2. CASE UNCHANGED fsVars
  BY <1>1, <1>2 DEF fsVars, SeenInv, Outside
<1>3. CASE Effect
  BY <1>1, <1>3, EffectOutside DEF SeenInv
<1> QED
  BY <1>2, <1>3, StepEffect

(***************************************************************************)
(* The theorems.                                                           *)
(***************************************************************************)

\* Whatever calls an agent makes in whatever order, and wherever links lead as long as none
\* leads over another one, a place that changes is in scope, or held nothing and is now a
\* directory on the way to an allowed one or a file where a link in scope leads.
THEOREM ChangesStayInScope == Spec /\ []Straight => OnlyScopeChanges
<1>1. TreeInv /\ Straight /\ [Next]_hostVars => [ScopeStep]_fsVars
  BY StepEffect, EffectScope DEF TreeInv
<1> QED
  BY <1>1, TreeInvariance, PTL DEF Spec, OnlyScopeChanges, ScopeStep

\* No operation does what a permission that the agent does not have is for: none gives
\* up a place, takes one more, or changes a file's content without it.
THEOREM PermissionsAreKept == Spec /\ []Straight => PermissionsHold
<1>1. TreeInv /\ Straight /\ [Next]_hostVars => [PermissionStep]_fsVars
  BY StepEffect, EffectPermission
<1> QED
  BY <1>1, TreeInvariance, PTL DEF Spec, PermissionsHold, PermissionStep

\* What is outside at the start is out of scope.
OutsideIsOut == Scope # {} => \A p \in Path : tree[p].data = "outside" => ~InScope(p)

\* As long as the allowed directories stay the same (a link moved to the place of one
\* could change what it names), no data from outside is ever returned or brought into
\* scope, whatever is read, copied and moved and wherever links lead.
THEOREM OutsideIsNotSeen ==
  ASSUME NEW S
  PROVE  Spec /\ OutsideIsOut /\ []Straight /\ [](Scope = S) => []OutsideStaysUnseen
<1>1. Init /\ OutsideIsOut => SeenInv
  BY DEF Init, FsInit, OutsideIsOut, SeenInv, Outside
<1>2. /\ TreeInv /\ Straight /\ SeenInv /\ [Next]_hostVars /\ Scope = S /\ (Scope = S)'
      => SeenInv'
  BY SeenStep
<1> QED
  BY <1>1, <1>2, SeenIs, TreeInvariance, PTL DEF Spec

(***************************************************************************)
(* When the hypothesis of these theorems holds.                            *)
(***************************************************************************)

\* No operation makes a link: each is one that was there, at its place or moved.
LEMMA LinksAreOld ==
  ASSUME TreeInv, Effect, NEW x \in Path, tree'[x].kind = "link"
  PROVE  \/ tree'[x] = tree[x]
         \/ \E p, q \in Path : EffectMove(p, q) /\ Under(x, q) /\ From(p, q, x) \in Path
                               /\ tree'[x] = tree[From(p, q, x)]
<1>1. tree = [r \in Path |-> tree[r]]
  BY DEF TreeInv, IsTree
<1>2. CASE UNCHANGED <<tree, seen>> \/ EffectRead
  BY <1>2 DEF EffectRead
<1>3. ASSUME NEW p \in Path, NEW d, EffectPut(p, d) PROVE tree'[x] = tree[x]
  <2>1. tree'[x] \in {File(d), tree[x]}
    BY <1>1, <1>3 DEF EffectPut
  <2> QED
    BY <2>1, KindFacts
<1>4. ASSUME NEW p \in Path, EffectMake(p) PROVE tree'[x] = tree[x]
  <2>1. tree'[x] \in {Dir, tree[x]}
    BY <1>4 DEF EffectMake
  <2> QED
    BY <2>1, KindFacts
<1>5. ASSUME NEW p \in Path, EffectRemove(p) PROVE tree'[x] = tree[x]
  <2>1. tree'[x] \in {Nothing, tree[x]}
    BY <1>5 DEF EffectRemove, Without
  <2> QED
    BY <2>1, KindFacts
<1>6. ASSUME NEW p \in Path, NEW q \in Path, EffectMove(p, q)
      PROVE  \/ tree'[x] = tree[x]
             \/ Under(x, q) /\ From(p, q, x) \in Path /\ tree'[x] = tree[From(p, q, x)]
  <2>1. tree'[x] # Nothing
    BY KindFacts
  <2>2. tree'[x] = IF Under(x, q) /\ From(p, q, x) \in Path THEN tree[From(p, q, x)]
                   ELSE IF Under(x, p) \/ Under(x, q) THEN Nothing ELSE tree[x]
    BY <1>6, MovedIs
  <2> QED
    BY <2>1, <2>2
<1> QED
  BY <1>2, <1>3, <1>4, <1>5, <1>6 DEF Effect

LEMMA EffectStraight == ASSUME TreeInv, Straight, ~Dangling, Effect PROVE Straight'
<1>1. IsTree(tree) /\ \A p \in Path : p \in Seq(Name)
  BY FsAssumption DEF TreeInv
<1> SUFFICES ASSUME NEW x \in Path, tree'[x].kind = "link",
                    NEW n \in 1 .. Len(tree'[x].to),
                    NEW u \in Path, u = Upto(tree'[x].to, n), tree'[u].kind = "link"
             PROVE  FALSE
  BY DEF Straight, Free, At, Nothing
<1>2. PICK y \in Path : tree[y] = tree'[x]
  BY LinksAreOld
<1> DEFINE t == tree[y].to
<1>3. t \in Seq(Name) /\ Free(t) /\ At(y).kind = "link" /\ At(y).to = t
  BY <1>1, <1>2, LinkFacts DEF At
<1>4. u = Upto(t, n) /\ n \in 1 .. Len(t)
  BY <1>2
<1>5. tree[u].kind # "link"
  BY <1>3, <1>4 DEF Free, At
<1>6. PICK p \in Path, q \in Path : /\ EffectMove(p, q) /\ Under(u, q) /\ From(p, q, u) \in Path
                                    /\ tree[From(p, q, u)].kind = "link"
  BY <1>5, LinksAreOld
<1> HIDE DEF t
<1>7. At(t).kind # "none"
  BY <1>3 DEF Dangling
<1>8. t \in Path /\ tree[t].kind # "none"
  BY <1>7 DEF At, Nothing
<1>9. Under(t, u) /\ Len(u) = n /\ Under(t, q)
  <2>1. n \in 0 .. Len(t)
    BY <1>3, <1>4
  <2>2. Under(t, u) /\ Len(u) = n
    BY <1>4, <1>8, <2>1, UnderFacts
  <2> QED
    BY <1>6, <1>8, <2>2, UnderFacts
<1>10. tree[p].kind = "dir" \/ tree[p].kind = "file"
  BY <1>6 DEF EffectMove
<1> DEFINE f == From(p, q, u)
<1>11. f \in Path /\ tree[f].kind = "link" /\ Under(f, p) /\ Len(f) = Len(p) + Len(u) - Len(q)
  BY <1>6, FromFacts
<1> HIDE DEF f
<1>12. Len(p) \in 0 .. Len(f) /\ p = Upto(f, Len(p)) /\ p # f
  BY <1>10, <1>11, UnderFacts
<1>13. Len(p) # Len(f)
  BY <1>1, <1>11, <1>12, UptoFacts
<1>14. tree[p].kind = "dir"
  <2>1. Len(p) \in 0 .. Len(f) - 1
    <3>1. Len(f) \in Nat /\ Len(p) \in 0 .. Len(f) /\ Len(p) # Len(f)
      BY <1>1, <1>11, <1>12, <1>13
    <3> QED
      BY <3>1
  <2>2. Above(tree, f)
    BY <1>1, <1>11, TreeIs
  <2> QED
    BY <1>12, <2>1, <2>2 DEF Above
<1>15. t = q
  BY <1>6, <1>8, <1>9, <1>14 DEF EffectMove
<1>16. Len(u) = Len(q)
  <2>1. Len(q) \in 0 .. Len(u) /\ Len(u) \in 0 .. Len(q)
    BY <1>6, <1>9, <1>15, UnderFacts
  <2> QED
    BY <2>1
<1> QED
  BY <1>1, <1>11, <1>13, <1>16

\* Links that do not lead over links at the start do so at no time, unless one has lost
\* its target: only then a directory with a link in it can be moved onto its way.
THEOREM LinksStayStraight == Spec /\ Straight /\ []~Dangling => []Straight
<1>1. TreeInv /\ Straight /\ ~Dangling /\ [Next]_hostVars => TreeInv' /\ Straight'
  <2> SUFFICES ASSUME TreeInv, Straight, ~Dangling, [Next]_hostVars PROVE TreeInv' /\ Straight'
    OBVIOUS
  <2>1. CASE UNCHANGED fsVars
    BY <2>1 DEF fsVars, TreeInv, IsTree, PermOK, Straight, Free, At
  <2>2. CASE Effect /\ UNCHANGED <<perm, fsMode>>
    BY <2>2, EffectTree, EffectStraight DEF TreeInv, PermOK
  <2> QED
    BY <2>1, <2>2, StepEffect
<1> QED
  BY <1>1, InitTree, PTL DEF Spec
=============================================================================
