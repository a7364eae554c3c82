----------------------------- MODULE AgentProofs ----------------------------
(***************************************************************************)
(* Proofs about module Agent: for any tools, replies, numbers of turns and *)
(* polls, and any child of the MCP client, the results the model sees are  *)
(* those of its calls, the globals all tool calls share hand on no result  *)
(* twice, a run that has completed leaves no session of its own, and what  *)
(* is shown of the client alone, for any calls and any order in which the  *)
(* child answers, is true of the client as the run uses it: a call returns *)
(* with the answer to its own request and can always be woken.             *)
(*                                                                         *)
(* A reply may be any text.  What the parser finds in it, whatever tags it *)
(* holds in whatever order, is shown to be tools that stand outside of     *)
(* every thought, before the tags are: the lemmas on Find, Strip and       *)
(* CallsBetween follow the searches from one tag to the next, by counting  *)
(* down what is left of the text.                                          *)
(***************************************************************************)
EXTENDS Agent, FilteringProofs

(***************************************************************************)
(* What the two properties rest on.  An entry of the map belongs to the    *)
(* waiting call whose request has its id, or nothing can arrive for it any *)
(* more, as its line was not written because the child is gone; ids above  *)
(* the counter are unused; and a request whose line is not written is      *)
(* unknown to the child.                                                   *)
(***************************************************************************)
Orphan(i) ==
  child = "down" /\ i \notin wire /\ \A k \in 1 .. Len(lines) : lines[k].id # i

EntriesHaveOwners ==
  \A i \in DOMAIN pending :
    \/ call[pending[i]].id = i /\ call[pending[i]].pc \in Waiting
    \/ Orphan(i)

IdsAreFresh ==
  /\ \A i \in DOMAIN pending : i < nextId
  /\ \A i \in wire : i < nextId
  /\ \A k \in 1 .. Len(lines) : lines[k].id < nextId

UnwrittenIsUnknown ==
  \A c \in Call : call[c].pc = "registered" =>
    /\ call[c].got = NoId
    /\ call[c].id # NoId
    /\ call[c].id \notin wire
    /\ \A k \in 1 .. Len(lines) : lines[k].id # call[c].id

Inv ==
  /\ McpTypeOK
  /\ CanBeWoken
  /\ OwnAnswer
  /\ EntriesHaveOwners
  /\ IdsAreFresh
  /\ UnwrittenIsUnknown

LEMMA InitInv == McpInit => Inv
  BY McpAssumption DEF McpInit, Inv, McpTypeOK, CanBeWoken, OwnAnswer, EntriesHaveOwners,
     IdsAreFresh, UnwrittenIsUnknown, InFlight, CallPc, Waiting, Finished, Id, NoId, Line

LEMMA RegisterInv ==
  ASSUME Inv, NEW c \in Call, BeginCall(c)
  PROVE  Inv'
<1> USE McpAssumption DEF Inv, McpTypeOK, Id, NoId, CallPc, Waiting, Finished
<1>1. /\ nextId \in Id /\ nextId' = nextId + 1
      /\ call[c].pc = "idle"
      /\ call'[c] = [pc |-> "registered", id |-> nextId, got |-> NoId]
      /\ \A d \in Call : d # c => call'[d] = call[d]
      /\ pending' = [i \in DOMAIN pending \cup {nextId} |-> IF i = nextId THEN c ELSE pending[i]]
      /\ UNCHANGED <<wire, lines, child>>
  BY DEF BeginCall, Register
<1>2. McpTypeOK'
  BY <1>1 DEF BeginCall, Register
<1>3. CanBeWoken'
  BY <1>1 DEF CanBeWoken, InFlight, IdsAreFresh
<1>4. OwnAnswer'
  BY <1>1 DEF OwnAnswer
<1>5. EntriesHaveOwners'
  BY <1>1 DEF EntriesHaveOwners, Orphan
<1>6. IdsAreFresh'
  <2>1. \A k \in 1 .. Len(lines) : lines[k] \in Line
    OBVIOUS
  <2> QED BY <2>1, <1>1 DEF IdsAreFresh, Line
<1>7. UnwrittenIsUnknown'
  <2>1. /\ \A i \in wire : i # nextId
        /\ \A k \in 1 .. Len(lines) : lines[k].id # nextId
    <3>1. \A k \in 1 .. Len(lines) : lines[k] \in Line
      OBVIOUS
    <3> QED BY <3>1, <1>1 DEF IdsAreFresh, Line
  <2>2. ASSUME NEW d \in Call, call'[d].pc = "registered"
        PROVE  /\ call'[d].got = NoId
               /\ call'[d].id # NoId
               /\ call'[d].id \notin wire
               /\ \A k \in 1 .. Len(lines) : lines[k].id # call'[d].id
    BY <2>1, <2>2, <1>1 DEF UnwrittenIsUnknown
  <2> QED BY <2>2, <1>1 DEF UnwrittenIsUnknown
<1> QED BY <1>2, <1>3, <1>4, <1>5, <1>6, <1>7

LEMMA WriteInv ==
  ASSUME Inv, NEW c \in Call, McpStep(c)
  PROVE  Inv'
<1> USE McpAssumption DEF Inv, McpTypeOK, Id, NoId, CallPc, Waiting, Finished
<1> DEFINE id == call[c].id
           pc == IF child = "up" THEN "waiting" ELSE "failed"
<1>1. /\ call[c].pc = "registered"
      /\ call' = [call EXCEPT ![c] = [pc |-> pc, id |-> id, got |-> call[c].got]]
      /\ wire' = IF child = "up" THEN wire \cup {id} ELSE wire
      /\ UNCHANGED <<nextId, pending, lines, child>>
  BY DEF McpStep, Write, WriteFails
<1>2. id \in Id /\ call[c].got = NoId /\ id \in DOMAIN pending /\ pending[id] = c
  BY <1>1 DEF UnwrittenIsUnknown, CanBeWoken, InFlight
<1>3. /\ call'[c] = [pc |-> pc, id |-> id, got |-> NoId]
      /\ \A d \in Call : d # c => call'[d] = call[d]
  BY <1>1, <1>2
<1>4. McpTypeOK'
  BY <1>1, <1>2
<1>5. CanBeWoken'
  BY <1>1, <1>2, <1>3 DEF CanBeWoken, InFlight
<1>6. OwnAnswer'
  BY <1>3 DEF OwnAnswer
<1>7. EntriesHaveOwners'
  <2>1. child = "up" => ~ \E i \in DOMAIN pending : Orphan(i)
    BY DEF Orphan
  <2>2. child = "down" => Orphan(id)
    BY <1>1, <1>2 DEF UnwrittenIsUnknown, Orphan
  <2> QED BY <1>1, <1>2, <1>3, <2>1, <2>2 DEF EntriesHaveOwners, Orphan
<1>8. IdsAreFresh'
  BY <1>1, <1>2 DEF IdsAreFresh
<1>9. UnwrittenIsUnknown'
  <2>1. \A d \in Call : d # c /\ call[d].pc = "registered" => call[d].id # id
    BY <1>2 DEF CanBeWoken, InFlight
  <2>2. \A d \in Call : call'[d].pc = "registered" => d # c /\ call'[d] = call[d]
    BY <1>3
  <2> QED BY <2>1, <2>2, <1>1 DEF UnwrittenIsUnknown
<1> QED BY <1>4, <1>5, <1>6, <1>7, <1>8, <1>9

LEMMA ReadInv ==
  ASSUME Inv, Read
  PROVE  Inv'
<1> USE McpAssumption DEF Inv, McpTypeOK, Id, NoId, CallPc, Waiting, Finished
<1> DEFINE line == Head(lines)
           i == Matched(line.id)
<1>1. /\ line \in Line /\ line = lines[1] /\ Len(lines) >= 1 /\ Tail(lines) \in Seq(Line)
      /\ \A k \in 1 .. Len(Tail(lines)) : k + 1 \in 1 .. Len(lines) /\ Tail(lines)[k] = lines[k + 1]
  BY DEF Read
<1>2. lines' = Tail(lines) /\ UNCHANGED <<nextId, wire, child>>
  BY DEF Read
<1>3. CASE i = NoId
  <2>1. UNCHANGED <<call, pending>>
    BY <1>3, <1>1 DEF Read, Matched, Line
  <2>2. IdsAreFresh' /\ UnwrittenIsUnknown'
    BY <2>1, <1>1, <1>2 DEF IdsAreFresh, UnwrittenIsUnknown, Line
  <2> QED BY <2>1, <2>2, <1>1, <1>2 DEF CanBeWoken, InFlight, OwnAnswer, EntriesHaveOwners, Orphan
<1>4. CASE i # NoId
  <2> DEFINE c == pending[i]
  <2>1. i = line.id /\ i \in DOMAIN pending /\ c \in Call /\ call[c].id = i
        /\ call[c].pc = "waiting"
    BY <1>4, <1>1 DEF Matched, EntriesHaveOwners, Orphan, UnwrittenIsUnknown, Line
  <2>2. pending' = [j \in DOMAIN pending \ {i} |-> pending[j]]
    BY <1>4 DEF Read
  <2>3. call' = [call EXCEPT ![c] =
                   IF call[c].pc # "waiting" THEN call[c]
                   ELSE [call[c] EXCEPT !.pc = IF c \in Lists /\ line.more /\ nextId \in Id
                                                 THEN "idle" ELSE "answered",
                                        !.got = line.id]]
    BY <1>4 DEF Read
  <2> HIDE DEF i, line, c
  <2> DEFINE woken == [pc |-> IF c \in Lists /\ line.more /\ nextId \in Id THEN "idle" ELSE "answered",
                       id |-> i, got |-> i]
             entry == IF call[c].pc = "waiting" THEN woken ELSE call[c]
  <2>4. call' = [call EXCEPT ![c] = entry] /\ entry \in [pc : CallPc, id : Id \cup {NoId}, got : Id \cup {NoId}]
    <3> DEFINE to == woken.pc
    <3>1. i \in Id /\ line.id = i
      BY <2>1
    <3>2. to = (IF c \in Lists /\ line.more /\ nextId \in Id THEN "idle" ELSE "answered")
          /\ to \in CallPc /\ woken = [pc |-> to, id |-> i, got |-> i]
      OBVIOUS
    <3> HIDE DEF to, woken
    <3>3. call[c] = [pc |-> call[c].pc, id |-> i, got |-> call[c].got]
      BY <2>1
    <3>4. [call[c] EXCEPT !.pc = to] = [pc |-> to, id |-> i, got |-> call[c].got]
      <4> DEFINE pc == call[c].pc
                 got == call[c].got
      <4> HIDE DEF pc, got
      <4>1. call[c] = [pc |-> pc, id |-> i, got |-> got]
        BY <3>3 DEF pc, got
      <4>2. [[pc |-> pc, id |-> i, got |-> got] EXCEPT !.pc = to] = [pc |-> to, id |-> i, got |-> got]
        OBVIOUS
      <4>3. [call[c] EXCEPT !.pc = to] = [pc |-> to, id |-> i, got |-> got]
        BY <4>1, <4>2, Zenon
      <4> QED BY <4>3 DEF got
    <3>5. [[pc |-> to, id |-> i, got |-> call[c].got] EXCEPT !.got = i] = woken
      BY <3>2
    <3>6. [call[c] EXCEPT !.pc = to, !.got = i] = woken
      BY <3>4, <3>5, Zenon
    <3>7. call' = [call EXCEPT ![c] = entry]
      BY <2>3, <3>1, <3>2, <3>6, Zenon
    <3>8. entry \in [pc : CallPc, id : Id \cup {NoId}, got : Id \cup {NoId}]
      BY <2>1, <3>1, <3>2
    <3> QED BY <3>7, <3>8
  <2>5. /\ \A d \in Call : d # c => call'[d] = call[d]
        /\ call'[c].id = i
        /\ call[c].pc = "waiting" => call'[c].pc \in {"idle", "answered"} /\ call'[c].got = i
        /\ call[c].pc = "failed" => call'[c] = call[c]
    BY <2>1, <2>4
  <2>11. McpTypeOK'
    <3>1. DOMAIN pending' \subseteq Id /\ \A j \in DOMAIN pending' : pending'[j] \in Call
      BY <2>2
    <3>2. call' \in [Call -> [pc : CallPc, id : Id \cup {NoId}, got : Id \cup {NoId}]]
      BY <2>1, <2>4
    <3> QED BY <3>1, <3>2, <1>1, <1>2
  <2>6. CanBeWoken'
    <3> SUFFICES ASSUME NEW d \in Call, call'[d].pc \in Waiting
                 PROVE  call'[d].id \in DOMAIN pending' /\ pending'[call'[d].id] = d
      BY DEF CanBeWoken, InFlight
    <3>1. d # c /\ call'[d] = call[d]
      BY <2>1, <2>5
    <3>2. call[d].id \in DOMAIN pending /\ pending[call[d].id] = d
      BY <3>1 DEF CanBeWoken, InFlight
    <3>3. call[d].id # i
      BY <3>1, <3>2 DEF c
    <3> QED BY <3>1, <3>2, <3>3, <2>2
  <2>7. OwnAnswer'
    BY <2>1, <2>5 DEF OwnAnswer
  <2>8. EntriesHaveOwners'
    <3>1. \A j : Orphan(j) => Orphan(j)'
      BY <1>1, <1>2 DEF Orphan
    <3>2. \A j \in DOMAIN pending' : j # i /\ j \in DOMAIN pending /\ pending'[j] = pending[j]
      BY <2>2
    <3>3. \A j \in DOMAIN pending' : call[pending[j]].id = j => pending[j] # c
      BY <2>1, <3>2
    <3> QED BY <2>5, <3>1, <3>2, <3>3 DEF EntriesHaveOwners
  <2>9. IdsAreFresh'
    BY <2>2, <1>1, <1>2 DEF IdsAreFresh
  <2>10. UnwrittenIsUnknown'
    <3>1. \A d \in Call : call'[d].pc = "registered" => call'[d] = call[d]
      BY <2>1, <2>5
    <3>2. \A j : (\A k \in 1 .. Len(lines) : lines[k].id # j)
                 => \A k \in 1 .. Len(lines') : lines'[k].id # j
      BY <1>1, <1>2
    <3> QED BY <3>1, <3>2, <1>2 DEF UnwrittenIsUnknown
  <2> QED BY <2>6, <2>7, <2>8, <2>9, <2>10, <2>11
<1> QED BY <1>3, <1>4

LEMMA ChildInv ==
  ASSUME Inv, Child
  PROVE  Inv'
<1> USE McpAssumption DEF Inv, McpTypeOK, Id, NoId, CallPc, Waiting, Finished
<1>1. CASE \E i \in Id : ChildAnswers(i)
  <2> PICK i \in Id : ChildAnswers(i)
    BY <1>1
  <2> PICK more \in BOOLEAN : lines' = Append(lines, [id |-> i, more |-> more])
    BY DEF ChildAnswers
  <2>1. i \in wire /\ wire' = wire \ {i} /\ UNCHANGED <<call, nextId, pending, child>>
    BY DEF ChildAnswers
  <2>2. McpTypeOK'
    BY <2>1 DEF Line
  <2>3. IdsAreFresh' /\ UnwrittenIsUnknown'
    BY <2>1 DEF IdsAreFresh, UnwrittenIsUnknown, Line
  <2>4. EntriesHaveOwners'
    <3>1. child = "up"
      BY DEF ChildAnswers
    <3> QED BY <2>1, <3>1 DEF EntriesHaveOwners, Orphan
  <2> QED BY <2>1, <2>2, <2>3, <2>4 DEF CanBeWoken, InFlight, OwnAnswer
<1>2. CASE ChildBabbles
  <2> PICK i \in {NoId} \cup AnsweredIds : lines' = Append(lines, [id |-> i, more |-> FALSE])
    BY <1>2 DEF ChildBabbles
  <2>1. UNCHANGED <<call, nextId, pending, wire, child>>
    BY <1>2 DEF ChildBabbles
  <2>2. i \in Id \cup {NoId} /\ i < nextId
    BY DEF AnsweredIds
  <2>3. \A c \in Call : call[c].pc = "registered" => call[c].id # i
    BY DEF AnsweredIds, UnwrittenIsUnknown
  <2>4. McpTypeOK'
    BY <2>1, <2>2 DEF Line
  <2>5. IdsAreFresh' /\ UnwrittenIsUnknown'
    BY <2>1, <2>2, <2>3 DEF IdsAreFresh, UnwrittenIsUnknown, Line
  <2>6. EntriesHaveOwners'
    <3>1. child = "up"
      BY <1>2 DEF ChildBabbles
    <3> QED BY <2>1, <3>1 DEF EntriesHaveOwners, Orphan
  <2> QED BY <2>1, <2>4, <2>5, <2>6 DEF CanBeWoken, InFlight, OwnAnswer
<1>3. CASE ChildCloses
  BY <1>3 DEF ChildCloses, CanBeWoken, InFlight, OwnAnswer, EntriesHaveOwners, Orphan, IdsAreFresh,
     UnwrittenIsUnknown
<1> QED BY <1>1, <1>2, <1>3 DEF Child

LEMMA NextInv == Inv /\ [McpNext]_mcpVars => Inv'
<1> SUFFICES ASSUME Inv, [McpNext]_mcpVars PROVE Inv'
  OBVIOUS
<1>1. CASE \E c \in Call : Caller(c)
  BY <1>1, RegisterInv, WriteInv DEF Caller
<1>2. CASE Read
  BY <1>2, ReadInv
<1>3. CASE Child
  BY <1>3, ChildInv
<1>4. CASE UNCHANGED mcpVars
  BY <1>4 DEF mcpVars, Inv, McpTypeOK, CanBeWoken, InFlight, OwnAnswer, EntriesHaveOwners, Orphan,
     IdsAreFresh, UnwrittenIsUnknown
<1> QED BY <1>1, <1>2, <1>3, <1>4 DEF McpNext

(* The inductive invariant holds in every reachable state. *)
THEOREM Invariance == McpSpec => []Inv
  BY InitInv, NextInv, PTL DEF McpSpec

(* The client's map, its counter and the lines keep their types. *)
THEOREM TypeCorrect == McpSpec => []McpTypeOK
  BY Invariance, PTL DEF Inv

(***************************************************************************)
(* request(): whoever waits gets the answer that carries its own id, for   *)
(* every number of concurrent calls and every order of answers.            *)
(***************************************************************************)
THEOREM AnswersAreOwn == McpSpec => []OwnAnswer
  BY Invariance, PTL DEF Inv

(* A waiting request is always found by the reader under its id. *)
THEOREM CallsCanBeWoken == McpSpec => []CanBeWoken
  BY Invariance, PTL DEF Inv

(***************************************************************************)
(* Replies, whatever the model writes.  The functions of ToolText recur to *)
(* a later position each time; Chain is the form they all have.            *)
(***************************************************************************)
Link(f, m, piece, next, i) == f[i] = IF i > m THEN <<>> ELSE piece[i] \o f[next[i]]

LinksFrom(f, m, piece, next, n) == \A i \in n .. m + 1 : Link(f, m, piece, next, i)

Chain(f, m, piece, next) == LinksFrom(f, m, piece, next, 1)

LEMMA ChainExists ==
  ASSUME NEW T, NEW m \in Nat, NEW piece \in [1 .. m -> Seq(T)],
         NEW next \in [1 .. m -> 1 .. m + 1], \A i \in 1 .. m : next[i] > i
  PROVE  \E f \in [1 .. m + 1 -> Seq(T)] : Chain(f, m, piece, next)
<1> DEFINE D == {n \in Nat : n <= m => \E f \in [1 .. m + 1 -> Seq(T)] :
                                        LinksFrom(f, m, piece, next, m + 1 - n)}
<1>1. \E f \in [1 .. m + 1 -> Seq(T)] : LinksFrom(f, m, piece, next, m + 1 - 0)
  <2> DEFINE f == [i \in 1 .. m + 1 |-> <<>>]
  <2>1. f \in [1 .. m + 1 -> Seq(T)]
    OBVIOUS
  <2>2. LinksFrom(f, m, piece, next, m + 1 - 0)
    <3> SUFFICES ASSUME NEW i \in m + 1 - 0 .. m + 1 PROVE Link(f, m, piece, next, i)
      BY DEF LinksFrom
    <3>1. i > m /\ f[i] = <<>>
      OBVIOUS
    <3> HIDE DEF f
    <3> QED
      BY <3>1 DEF Link
  <2> HIDE DEF f
  <2> QED
    BY <2>1, <2>2
<1>2. ASSUME NEW n \in Nat, n + 1 <= m, NEW f \in [1 .. m + 1 -> Seq(T)],
             LinksFrom(f, m, piece, next, m + 1 - n)
      PROVE  \E g \in [1 .. m + 1 -> Seq(T)] : LinksFrom(g, m, piece, next, m + 1 - (n + 1))
  <2> DEFINE k == m - n
             g == [f EXCEPT ![k] = piece[k] \o f[next[k]]]
  <2>1. k \in 1 .. m /\ next[k] \in 1 .. m + 1 /\ next[k] > k /\ piece[k] \in Seq(T)
    BY <1>2
  <2>2. g \in [1 .. m + 1 -> Seq(T)]
    BY <2>1
  <2>3. \A i \in 1 .. m + 1 : g[i] = IF i = k THEN piece[k] \o f[next[k]] ELSE f[i]
    BY <2>1
  <2>4. ASSUME NEW i \in m + 1 - (n + 1) .. m + 1 PROVE Link(g, m, piece, next, i)
    <3>1. i \in 1 .. m + 1 /\ (i = k \/ i \in m + 1 - n .. m + 1)
      BY <2>1, <2>4
    <3>2. CASE i = k
      <4> HIDE DEF g, k
      <4>1. g[next[k]] = f[next[k]] /\ ~(k > m)
        BY <2>1, <2>3
      <4> QED
        BY <2>1, <2>3, <3>1, <3>2, <4>1 DEF Link
    <3>3. CASE i \in m + 1 - n .. m + 1
      <4>1. Link(f, m, piece, next, i) /\ i # k /\ i > k
        BY <1>2, <3>3 DEF LinksFrom
      <4> HIDE DEF g, k
      <4>2. g[i] = f[i]
        BY <2>3, <3>1, <4>1
      <4>3. ~(i > m) => next[i] \in 1 .. m + 1 /\ next[i] # k /\ g[next[i]] = f[next[i]]
        <5> SUFFICES ASSUME ~(i > m) PROVE next[i] \in 1 .. m + 1 /\ next[i] # k
          BY <2>3
        <5>1. i \in 1 .. m
          BY <3>1
        <5>2. next[i] \in 1 .. m + 1 /\ next[i] > i
          BY <5>1
        <5> QED
          BY <2>1, <4>1, <5>1, <5>2
      <4> QED
        BY <4>1, <4>2, <4>3 DEF Link
    <3> QED
      BY <3>1, <3>2, <3>3
  <2> HIDE DEF g
  <2> QED
    BY <2>2, <2>4 DEF LinksFrom
<1>3. Nat \subseteq D
  <2>1. 0 \in D
    BY <1>1
  <2>2. ASSUME NEW n \in Nat, n \in D PROVE n + 1 \in D
    <3>1. n + 1 \in Nat
      OBVIOUS
    <3>2. ASSUME n + 1 <= m
          PROVE  \E f \in [1 .. m + 1 -> Seq(T)] : LinksFrom(f, m, piece, next, m + 1 - (n + 1))
      <4>1. n <= m
        BY <3>2
      <4>2. \E f \in [1 .. m + 1 -> Seq(T)] : LinksFrom(f, m, piece, next, m + 1 - n)
        BY <2>2, <4>1
      <4> QED
        BY <1>2, <3>2, <4>2
    <3> QED
      BY <3>1, <3>2, Zenon
  <2> HIDE DEF D
  <2> QED
    BY <2>1, <2>2, CountingUp
<1>4. \E f \in [1 .. m + 1 -> Seq(T)] : LinksFrom(f, m, piece, next, m + 1 - m)
  BY <1>3
<1>5. m + 1 - m = 1
  OBVIOUS
<1> QED
  BY <1>4, <1>5 DEF Chain

\* What is found is the first, and nothing is not there.
LEMMA FindIs ==
  ASSUME NEW T, NEW s \in Seq(T), NEW x, NEW i \in 1 .. Len(s) + 1
  PROVE  \/ Find(s, x, i) = 0 /\ \A k \in i .. Len(s) : s[k] # x
         \/ /\ Find(s, x, i) \in i .. Len(s) /\ s[Find(s, x, i)] = x
            /\ \A k \in i .. Find(s, x, i) - 1 : s[k] # x
<1> DEFINE at == {j \in i .. Len(s) : s[j] = x}
<1>1. CASE at = {}
  BY <1>1 DEF Find
<1>2. CASE at # {}
  <2>1. at \in SUBSET Nat
    OBVIOUS
  <2> HIDE DEF at
  <2>2. \E j \in at : \A k \in at : j <= k
    BY <1>2, <2>1, LeastNumber
  <2> DEFINE j == CHOOSE j \in at : \A k \in at : j <= k
  <2>3. j \in at /\ \A k \in at : j <= k
    BY <2>2
  <2>4. Find(s, x, i) = j
    BY <1>2 DEF Find, at
  <2> HIDE DEF j
  <2>5. j \in i .. Len(s) /\ s[j] = x /\ \A k \in i .. j - 1 : s[k] # x
    BY <2>3 DEF at
  <2> QED
    BY <2>4, <2>5
<1> QED
  BY <1>1, <1>2

(***************************************************************************)
(* What stripping keeps: the tokens that are neither an opening tag nor    *)
(* within a block, in their order.  Picks says of pos that it gives for    *)
(* each token of t its position in s, which is one of K from i on, and     *)
(* that none of these is left out.                                         *)
(***************************************************************************)
Within(s, pair, i) == \E j \in 1 .. i - 1 : s[j] = pair[1] /\ \A k \in j .. i - 1 : s[k] # pair[2]

Kept(s, pair) == {i \in 1 .. Len(s) : s[i] # pair[1] /\ ~Within(s, pair, i)}

Picks(pos, s, t, K, i) ==
  /\ \A k \in 1 .. Len(t) : pos[k] \in K /\ pos[k] \in i .. Len(s) /\ t[k] = s[pos[k]]
  /\ \A k, l \in 1 .. Len(t) : k < l => pos[k] < pos[l]
  /\ \A x \in K : x \in i .. Len(s) => \E k \in 1 .. Len(t) : pos[k] = x

LEMMA PicksNone ==
  ASSUME NEW s, NEW K, NEW i, \A x \in K : x \notin i .. Len(s)
  PROVE  \E pos : Picks(pos, s, <<>>, K, i)
  BY DEF Picks

LEMMA PicksSkip ==
  ASSUME NEW T, NEW s \in Seq(T), NEW t \in Seq(T), NEW K, NEW i \in 1 .. Len(s), NEW j \in i .. Len(s),
         \A x \in K : x \notin i .. j, NEW pos, Picks(pos, s, t, K, j + 1)
  PROVE  Picks(pos, s, t, K, i)
<1>1. ASSUME NEW x, x \in j + 1 .. Len(s) PROVE x \in i .. Len(s)
  BY <1>1
<1>2. ASSUME NEW x \in K, x \in i .. Len(s) PROVE x \in j + 1 .. Len(s)
  BY <1>2
<1> QED
  BY <1>1, <1>2 DEF Picks

LEMMA PicksOne ==
  ASSUME NEW T, NEW s \in Seq(T), NEW t \in Seq(T), NEW K, NEW i \in 1 .. Len(s), i \in K,
         NEW pos, Picks(pos, s, t, K, i + 1)
  PROVE  \E p : Picks(p, s, <<s[i]>> \o t, K, i)
<1> DEFINE u == <<s[i]>> \o t
           p == [k \in 1 .. Len(t) + 1 |-> IF k = 1 THEN i ELSE pos[k - 1]]
<1>1. /\ Len(u) = Len(t) + 1 /\ Len(t) \in Nat /\ u[1] = s[i]
      /\ \A k \in 2 .. Len(t) + 1 : u[k] = t[k - 1] /\ k - 1 \in 1 .. Len(t)
  OBVIOUS
<1>2. p[1] = i /\ \A k \in 2 .. Len(t) + 1 : p[k] = pos[k - 1]
  BY <1>1
<1> HIDE DEF u, p
<1>3. ASSUME NEW k \in 1 .. Len(u) PROVE p[k] \in K /\ p[k] \in i .. Len(s) /\ u[k] = s[p[k]]
  <2>1. CASE k = 1
    BY <1>1, <1>2, <2>1
  <2>2. CASE k \in 2 .. Len(t) + 1
    <3>1. k - 1 \in 1 .. Len(t) /\ p[k] = pos[k - 1] /\ u[k] = t[k - 1]
      BY <1>1, <1>2, <2>2
    <3>2. pos[k - 1] \in K /\ pos[k - 1] \in i + 1 .. Len(s) /\ t[k - 1] = s[pos[k - 1]]
      BY <3>1 DEF Picks
    <3> QED
      BY <3>1, <3>2
  <2> QED
    BY <1>1, <2>1, <2>2
<1>4. ASSUME NEW k \in 1 .. Len(u), NEW l \in 1 .. Len(u), k < l PROVE p[k] < p[l]
  <2>1. l \in 2 .. Len(t) + 1 /\ l - 1 \in 1 .. Len(t) /\ p[l] = pos[l - 1]
    BY <1>1, <1>2, <1>4
  <2>2. pos[l - 1] \in i + 1 .. Len(s)
    BY <2>1 DEF Picks
  <2>3. CASE k = 1
    BY <1>2, <2>1, <2>2, <2>3
  <2>4. CASE k \in 2 .. Len(t) + 1
    <3>1. k - 1 \in 1 .. Len(t) /\ p[k] = pos[k - 1] /\ k - 1 < l - 1
      BY <1>1, <1>2, <1>4, <2>1, <2>4
    <3> QED
      BY <2>1, <3>1 DEF Picks
  <2> QED
    BY <1>1, <2>3, <2>4
<1>5. ASSUME NEW x \in K, x \in i .. Len(s) PROVE \E k \in 1 .. Len(u) : p[k] = x
  <2>1. CASE x = i
    BY <1>1, <1>2, <2>1
  <2>2. CASE x \in i + 1 .. Len(s)
    <3>1. PICK k \in 1 .. Len(t) : pos[k] = x
      BY <2>2 DEF Picks
    <3>2. k \in Nat /\ k + 1 \in 2 .. Len(t) + 1 /\ (k + 1) - 1 = k
      BY <1>1
    <3>3. p[k + 1] = pos[(k + 1) - 1]
      BY <1>2, <3>2
    <3>4. p[k + 1] = x
      BY <3>1, <3>2, <3>3
    <3>5. k + 1 \in 1 .. Len(u)
      BY <1>1, <3>2
    <3> QED
      BY <3>4, <3>5
  <2> QED
    BY <1>5, <2>1, <2>2
<1> QED
  BY <1>3, <1>4, <1>5 DEF Picks, u

\* The function in Strip, and where it goes on from i.
StripStep(f, s, pair, i) ==
  IF i > Len(s) THEN <<>>
  ELSE IF s[i] # pair[1] THEN <<s[i]>> \o f[i + 1]
  ELSE LET j == Find(s, pair[2], i) IN IF j = 0 THEN <<>> ELSE f[j + 1]

Stripping(f, s, pair) == f = [i \in 1 .. Len(s) + 1 |-> StripStep(f, s, pair, i)]

LEMMA StrippingExists ==
  ASSUME NEW T, NEW s \in Seq(T), NEW pair
  PROVE  \E f \in [1 .. Len(s) + 1 -> Seq(T)] : Stripping(f, s, pair)
<1> DEFINE m == Len(s)
           piece == [i \in 1 .. m |-> IF s[i] # pair[1] THEN <<s[i]>> ELSE <<>>]
           next == [i \in 1 .. m |-> IF s[i] # pair[1] THEN i + 1
                                     ELSE IF Find(s, pair[2], i) = 0 THEN m + 1
                                     ELSE Find(s, pair[2], i) + 1]
<1>1. m \in Nat /\ \A i \in 1 .. m : s[i] \in T
  OBVIOUS
<1>2. piece \in [1 .. m -> Seq(T)]
  BY <1>1
<1>3. \A i \in 1 .. m : next[i] \in 1 .. m + 1 /\ next[i] > i
  <2> SUFFICES ASSUME NEW i \in 1 .. m PROVE next[i] \in 1 .. m + 1 /\ next[i] > i
    OBVIOUS
  <2>1. i \in 1 .. m + 1
    BY <1>1
  <2>2. Find(s, pair[2], i) = 0 \/ Find(s, pair[2], i) \in i .. m
    BY <2>1, FindIs
  <2> QED
    BY <1>1, <2>2
<1>4. next \in [1 .. m -> 1 .. m + 1]
  <2>1. \A i \in 1 .. m : next[i] \in 1 .. m + 1
    BY <1>3
  <2> QED
    BY <2>1
<1> HIDE DEF piece, next, m
<1>5. PICK f \in [1 .. m + 1 -> Seq(T)] : Chain(f, m, piece, next)
  BY <1>1, <1>2, <1>3, <1>4, ChainExists
<1>6. ASSUME NEW i \in 1 .. m + 1 PROVE f[i] = StripStep(f, s, pair, i)
  <2>1. f[i] = IF i > m THEN <<>> ELSE piece[i] \o f[next[i]]
    BY <1>5, <1>6 DEF Chain, LinksFrom, Link
  <2>2. CASE i > m
    BY <2>1, <2>2 DEF StripStep, m
  <2>3. CASE i \in 1 .. m
    <3>0. ~(i > m) /\ ~(i > Len(s))
      BY <1>1, <2>3 DEF m
    <3>1. f[i] = piece[i] \o f[next[i]] /\ next[i] \in 1 .. m + 1 /\ f[next[i]] \in Seq(T) /\ ~(i > Len(s))
      BY <1>3, <1>5, <2>1, <2>3, <3>0
    <3>2. m + 1 \in 1 .. m + 1 /\ f[m + 1] = <<>>
      <4>1. m + 1 \in 1 .. m + 1 /\ m + 1 > m
        BY <1>1
      <4> QED
        BY <1>5, <4>1 DEF Chain, LinksFrom, Link
    <3>3. CASE s[i] # pair[1]
      BY <2>3, <3>1, <3>3 DEF piece, next, StripStep
    <3>4. CASE s[i] = pair[1]
      <4>1. f[i] = f[next[i]]
        BY <2>3, <3>1, <3>4 DEF piece
      <4> QED
        BY <2>3, <3>1, <3>2, <3>4, <4>1 DEF next, StripStep
    <3> QED
      BY <3>3, <3>4
  <2> QED
    BY <1>1, <2>2, <2>3
<1>7. f = [i \in 1 .. m + 1 |-> StripStep(f, s, pair, i)]
  BY <1>6
<1>8. Stripping(f, s, pair)
  BY <1>7 DEF Stripping, m
<1> QED
  BY <1>5, <1>8 DEF m

\* From the end of a text to its start.
LEMMA CountingDown ==
  ASSUME NEW m \in Nat, NEW D, \A i \in 1 .. m + 1 : (\A k \in i + 1 .. m + 1 : k \in D) => i \in D
  PROVE  1 .. m + 1 \subseteq D
<1> DEFINE B == {n \in 0 .. m : m + 1 - n \notin D}
<1>1. SUFFICES ASSUME NEW i \in 1 .. m + 1, i \notin D PROVE FALSE
  OBVIOUS
<1>2. m + 1 - i \in 0 .. m /\ m + 1 - (m + 1 - i) = i
  OBVIOUS
<1>3. m + 1 - i \in B /\ B \in SUBSET Nat
  BY <1>1, <1>2
<1> HIDE DEF B
<1>4. PICK n \in B : \A l \in B : n <= l
  BY <1>3, LeastNumber
<1>5. n \in 0 .. m /\ m + 1 - n \notin D /\ m + 1 - n \in 1 .. m + 1
  BY DEF B
<1>6. ASSUME NEW k \in m + 1 - n + 1 .. m + 1 PROVE k \in D
  <2>1. m + 1 - k \in 0 .. m /\ m + 1 - k < n /\ m + 1 - (m + 1 - k) = k
    BY <1>5
  <2>2. m + 1 - k \notin B
    BY <1>4, <1>5, <2>1
  <2> QED
    BY <2>1, <2>2 DEF B
<1> QED
  BY <1>5, <1>6

LEMMA StripIs ==
  ASSUME NEW T, NEW s \in Seq(T), NEW pair, pair[1] # pair[2]
  PROVE  /\ Strip(s, pair) \in Seq(T)
         /\ \E pos : Picks(pos, s, Strip(s, pair), Kept(s, pair), 1)
<1> DEFINE f == CHOOSE f : Stripping(f, s, pair)
           m == Len(s)
           K == Kept(s, pair)
           Good(i) == f[i] \in Seq(T) /\ (~Within(s, pair, i) => \E pos : Picks(pos, s, f[i], K, i))
           D == {i \in 1 .. m + 1 : Good(i)}
<1>1. Strip(s, pair) = f[1]
  BY DEF Strip, Stripping, StripStep
<1>2. Stripping(f, s, pair)
  <2>1. \E g : Stripping(g, s, pair)
    BY StrippingExists
  <2> QED
    BY <2>1
<1> HIDE DEF f
<1>3. m \in Nat /\ \A i \in 1 .. m : s[i] \in T
  OBVIOUS
<1>4. ASSUME NEW i \in 1 .. m + 1, \A k \in i + 1 .. m + 1 : Good(k) PROVE Good(i)
  <2>1. f[i] = StripStep(f, s, pair, i)
    BY <1>2 DEF Stripping
  <2>2. CASE i > m
    <3>1. f[i] = <<>>
      BY <2>1, <2>2 DEF StripStep
    <3>2. \A x \in K : x \notin i .. Len(s)
      BY <1>3, <2>2
    <3> HIDE DEF K
    <3>3. \E pos : Picks(pos, s, <<>>, K, i)
      BY <3>2, PicksNone
    <3> QED
      BY <3>1, <3>3
  <2>3. CASE i \in 1 .. m /\ s[i] # pair[1]
    <3>1. f[i] = <<s[i]>> \o f[i + 1] /\ Good(i + 1)
      BY <1>3, <1>4, <2>1, <2>3 DEF StripStep
    <3>2. f[i] \in Seq(T)
      BY <1>3, <2>3, <3>1
    <3>3. ASSUME ~Within(s, pair, i) PROVE \E pos : Picks(pos, s, f[i], K, i)
      <4>1. ~Within(s, pair, i + 1)
        BY <1>3, <2>3, <3>3 DEF Within
      <4>2. i \in K
        BY <2>3, <3>3 DEF Kept
      <4>3. PICK pos : Picks(pos, s, f[i + 1], K, i + 1)
        BY <3>1, <4>1
      <4> HIDE DEF K
      <4>4. \E p : Picks(p, s, <<s[i]>> \o f[i + 1], K, i)
        BY <2>3, <3>1, <4>2, <4>3, PicksOne
      <4> QED
        BY <3>1, <4>4
    <3> QED
      BY <3>2, <3>3
  <2>4. CASE i \in 1 .. m /\ s[i] = pair[1]
    <3> DEFINE j == Find(s, pair[2], i)
    <3>1. f[i] = IF j = 0 THEN <<>> ELSE f[j + 1]
      BY <1>3, <2>1, <2>4 DEF StripStep
    <3>2. \/ j = 0 /\ \A k \in i .. m : s[k] # pair[2]
          \/ j \in i .. m /\ s[j] = pair[2] /\ \A k \in i .. j - 1 : s[k] # pair[2]
      BY <1>3, FindIs
    <3> HIDE DEF j
    <3>3. CASE j = 0
      <4>1. ASSUME NEW x \in K, x \in i .. m PROVE FALSE
        <5>1. x # i
          BY <2>4 DEF Kept
        <5>2. i \in 1 .. x - 1 /\ \A k \in i .. x - 1 : s[k] # pair[2]
          BY <1>3, <2>4, <3>2, <3>3, <4>1, <5>1
        <5> QED
          BY <2>4, <5>2 DEF Kept, Within
      <4>2. f[i] = <<>>
        BY <3>1, <3>3
      <4> HIDE DEF K
      <4>3. \E pos : Picks(pos, s, <<>>, K, i)
        BY <4>1, PicksNone
      <4> QED
        BY <4>2, <4>3
    <3>4. CASE j \in i .. m /\ s[j] = pair[2] /\ \A k \in i .. j - 1 : s[k] # pair[2]
      <4>1. ASSUME NEW x \in K, x \in i .. j PROVE FALSE
        <5>1. x # i
          BY <2>4 DEF Kept
        <5>2. i \in 1 .. x - 1 /\ \A k \in i .. x - 1 : s[k] # pair[2]
          BY <1>3, <2>4, <3>4, <4>1, <5>1
        <5> QED
          BY <2>4, <5>2 DEF Kept, Within
      <4>2. f[i] = f[j + 1] /\ Good(j + 1)
        BY <1>3, <1>4, <3>1, <3>4
      <4>3. ~Within(s, pair, j + 1)
        <5>1. ASSUME NEW l \in 1 .. (j + 1) - 1 PROVE j \in l .. (j + 1) - 1
          BY <3>4
        <5> QED
          BY <3>4, <5>1 DEF Within
      <4>4. PICK pos : Picks(pos, s, f[j + 1], K, j + 1)
        BY <4>2, <4>3
      <4>5. \A x \in K : x \notin i .. j
        BY <4>1
      <4> HIDE DEF K
      <4>6. Picks(pos, s, f[j + 1], K, i)
        BY <2>4, <3>4, <4>2, <4>4, <4>5, PicksSkip
      <4> QED
        BY <4>2, <4>6
    <3> QED
      BY <3>2, <3>3, <3>4
  <2> QED
    BY <1>3, <2>2, <2>3, <2>4
<1>5. ASSUME NEW i \in 1 .. m + 1, \A k \in i + 1 .. m + 1 : k \in D PROVE i \in D
  BY <1>4, <1>5
<1> HIDE DEF D
<1>6. 1 .. m + 1 \subseteq D
  BY <1>3, <1>5, CountingDown
<1>7. 1 \in D
  BY <1>3, <1>6
<1>8. Good(1)
  BY <1>7 DEF D
<1>9. ~Within(s, pair, 1)
  BY DEF Within
<1> QED
  BY <1>1, <1>8, <1>9

\* A block of parse_tool_calls_with_tags from i on, and what it gives.
Start(s, pair, i) == Find(s, pair[1], i)
End(s, pair, i) == IF Start(s, pair, i) = 0 THEN 0 ELSE Find(s, pair[2], Start(s, pair, i))
Inner(s, pair, i) == SubSeq(s, Start(s, pair, i) + 1, End(s, pair, i) - 1)
Given(s, pair, i) == IF Parses(Inner(s, pair, i)) THEN Inner(s, pair, i) ELSE <<>>

Said(s) == {t \in Tool : \E n \in 1 .. Len(s) : s[n] = t}

LEMMA BlockIs ==
  ASSUME NEW T, NEW s \in Seq(T), NEW pair, NEW i \in 1 .. Len(s) + 1
  PROVE  End(s, pair, i) = 0 \/ (End(s, pair, i) \in i .. Len(s) /\ Given(s, pair, i) \in Seq(Said(s)))
<1> DEFINE a == Start(s, pair, i)
           b == End(s, pair, i)
<1>1. a = 0 \/ a \in i .. Len(s)
  BY FindIs DEF Start
<1>2. CASE a = 0
  <2>1. End(s, pair, i) = 0
    BY <1>2 DEF End
  <2> QED
    BY <2>1
<1>3. CASE a \in i .. Len(s)
  <2>1. a \in 1 .. Len(s) + 1 /\ a # 0
    BY <1>3
  <2> HIDE DEF a
  <2>2. b = 0 \/ b \in a .. Len(s)
    <3>1. Find(s, pair[2], a) = 0 \/ Find(s, pair[2], a) \in a .. Len(s)
      BY <2>1, FindIs
    <3> QED
      BY <2>1, <3>1 DEF End, a
  <2> HIDE DEF b
  <2>3. ASSUME b \in a .. Len(s) PROVE Given(s, pair, i) \in Seq(Said(s))
    <3> DEFINE inner == SubSeq(s, a + 1, b - 1)
    <3>1. Given(s, pair, i) = IF Parses(inner) THEN inner ELSE <<>>
      BY DEF Given, Inner, a, b
    <3>2. CASE Parses(inner)
      <4>1. Len(inner) = 1 /\ inner[1] \in Tool /\ inner \in Seq(T)
        BY <2>1, <2>3, <3>2 DEF Parses
      <4>2. b - 1 = a + 1 /\ inner[1] = s[a + 1] /\ a + 1 \in 1 .. Len(s)
        BY <2>1, <2>3, <4>1
      <4>3. inner[1] \in Said(s)
        BY <4>1, <4>2 DEF Said
      <4> HIDE DEF inner
      <4>4. inner = <<inner[1]>>
        BY <4>1
      <4>5. <<inner[1]>> \in Seq(Said(s))
        BY <4>3
      <4>6. inner \in Seq(Said(s))
        BY <4>4, <4>5, Zenon
      <4> QED
        BY <3>1, <3>2, <4>6
    <3>3. CASE ~Parses(inner)
      <4>1. <<>> \in Seq(Said(s))
        OBVIOUS
      <4> HIDE DEF inner
      <4> QED
        BY <3>1, <3>3, <4>1
    <3> QED
      BY <3>2, <3>3
  <2>4. b = 0 \/ (b \in i .. Len(s) /\ Given(s, pair, i) \in Seq(Said(s)))
    BY <1>3, <2>2, <2>3
  <2> QED
    BY <2>4 DEF b
<1> QED
  BY <1>1, <1>2, <1>3

CallsStep(f, s, pair, i) ==
  IF End(s, pair, i) = 0 THEN <<>> ELSE Given(s, pair, i) \o f[End(s, pair, i) + 1]

Calling(f, s, pair) == f = [i \in 1 .. Len(s) + 1 |-> CallsStep(f, s, pair, i)]

LEMMA CallingExists ==
  ASSUME NEW T, NEW s \in Seq(T), NEW pair
  PROVE  \E f : Calling(f, s, pair)
<1> DEFINE m == Len(s)
           end(i) == End(s, pair, i)
           piece == [i \in 1 .. m |-> IF end(i) = 0 THEN <<>> ELSE Given(s, pair, i)]
           next == [i \in 1 .. m |-> IF end(i) = 0 THEN m + 1 ELSE end(i) + 1]
<1>1. m \in Nat
  OBVIOUS
<1>2. \A i \in 1 .. m + 1 : end(i) = 0 \/ (end(i) \in i .. m /\ Given(s, pair, i) \in Seq(Said(s)))
  BY BlockIs
<1> HIDE DEF m, end
<1>3. piece \in [1 .. m -> Seq(Said(s))]
  <2>1. \A i \in 1 .. m : piece[i] \in Seq(Said(s))
    <3>1. <<>> \in Seq(Said(s))
      OBVIOUS
    <3> QED
      BY <1>1, <1>2, <3>1
  <2> QED
    BY <2>1
<1>4. \A i \in 1 .. m : next[i] \in 1 .. m + 1 /\ next[i] > i
  BY <1>1, <1>2
<1>5. next \in [1 .. m -> 1 .. m + 1]
  BY <1>4
<1> HIDE DEF piece, next
<1>6. PICK f \in [1 .. m + 1 -> Seq(Said(s))] : Chain(f, m, piece, next)
  BY <1>1, <1>3, <1>4, <1>5, ChainExists
<1>7. ASSUME NEW i \in 1 .. m + 1 PROVE f[i] = CallsStep(f, s, pair, i)
  <2>1. f[i] = IF i > m THEN <<>> ELSE piece[i] \o f[next[i]]
    BY <1>6, <1>7 DEF Chain, LinksFrom, Link
  <2>2. CASE i > m
    <3>1. end(i) = 0
      BY <1>1, <1>2, <2>2
    <3> QED
      BY <2>1, <2>2, <3>1 DEF CallsStep, end
  <2>3. CASE i \in 1 .. m
    <3>0. ~(i > m)
      BY <1>1, <2>3
    <3>1. f[i] = piece[i] \o f[next[i]] /\ f[next[i]] \in Seq(Said(s))
      BY <1>4, <1>6, <2>1, <2>3, <3>0
    <3>2. f[m + 1] = <<>>
      <4>1. m + 1 \in 1 .. m + 1 /\ m + 1 > m
        BY <1>1
      <4> QED
        BY <1>6, <4>1 DEF Chain, LinksFrom, Link
    <3>3. CASE end(i) = 0
      <4>1. piece[i] = <<>> /\ next[i] = m + 1
        BY <2>3, <3>3 DEF piece, next
      <4>2. f[i] = <<>>
        BY <3>1, <3>2, <4>1
      <4> QED
        BY <3>3, <4>2 DEF CallsStep, end
    <3>4. CASE end(i) # 0
      <4>1. piece[i] = Given(s, pair, i) /\ next[i] = end(i) + 1
        BY <2>3, <3>4 DEF piece, next
      <4> QED
        BY <3>1, <3>4, <4>1 DEF CallsStep, end
    <3> QED
      BY <3>3, <3>4
  <2> QED
    BY <1>1, <2>2, <2>3
<1>8. f = [i \in 1 .. m + 1 |-> CallsStep(f, s, pair, i)]
  BY <1>7
<1> QED
  BY <1>8 DEF Calling, m

LEMMA CallsBetweenIs ==
  ASSUME NEW T, NEW s \in Seq(T), NEW pair
  PROVE  CallsBetween(s, pair) \in Seq(Said(s))
<1> DEFINE f == CHOOSE f : Calling(f, s, pair)
           m == Len(s)
           D == {i \in 1 .. m + 1 : f[i] \in Seq(Said(s))}
<1>1. CallsBetween(s, pair) = f[1]
  BY DEF CallsBetween, Calling, CallsStep, Start, End, Inner, Given
<1>2. Calling(f, s, pair)
  <2>1. \E g : Calling(g, s, pair)
    BY CallingExists
  <2> QED
    BY <2>1
<1> HIDE DEF f
<1>3. m \in Nat
  OBVIOUS
<1>4. ASSUME NEW i \in 1 .. m + 1, \A k \in i + 1 .. m + 1 : k \in D PROVE i \in D
  <2>1. f[i] = CallsStep(f, s, pair, i)
    BY <1>2 DEF Calling
  <2>2. CASE End(s, pair, i) = 0
    <3>1. f[i] = <<>> /\ <<>> \in Seq(Said(s))
      BY <2>1, <2>2 DEF CallsStep
    <3> QED
      BY <3>1
  <2>3. CASE End(s, pair, i) # 0
    <3>1. End(s, pair, i) \in i .. m /\ Given(s, pair, i) \in Seq(Said(s))
      BY <2>3, BlockIs
    <3>2. f[End(s, pair, i) + 1] \in Seq(Said(s))
      BY <1>3, <1>4, <3>1
    <3>3. f[i] = Given(s, pair, i) \o f[End(s, pair, i) + 1]
      BY <2>1, <2>3 DEF CallsStep
    <3>4. f[i] \in Seq(Said(s))
      BY <3>1, <3>2, <3>3
    <3> QED
      BY <3>4
  <2> QED
    BY <2>2, <2>3
<1> HIDE DEF D
<1>5. 1 .. m + 1 \subseteq D
  BY <1>3, <1>4, CountingDown
<1>6. 1 \in D
  BY <1>3, <1>5
<1> QED
  BY <1>1, <1>6 DEF D

\* The function in ParseToolCalls.
ByTags(f, s) ==
  f = [k \in 1 .. Len(CallTags) + 1 |->
         IF k > Len(CallTags) THEN <<>>
         ELSE IF CallsBetween(s, CallTags[k]) # <<>> THEN CallsBetween(s, CallTags[k])
         ELSE f[k + 1]]

LEMMA ParseToolCallsIs ==
  ASSUME NEW T, NEW s \in Seq(T)
  PROVE  ParseToolCalls(s) \in Seq(Said(s))
<1> DEFINE c(k) == CallsBetween(s, CallTags[k])
           g3 == c(3)
           g2 == IF c(2) # <<>> THEN c(2) ELSE g3
           g1 == IF c(1) # <<>> THEN c(1) ELSE g2
           g == [k \in 1 .. 4 |-> IF k = 1 THEN g1 ELSE IF k = 2 THEN g2 ELSE IF k = 3 THEN g3 ELSE <<>>]
           f == CHOOSE f : ByTags(f, s)
<1>1. Len(CallTags) = 3
  BY DEF CallTags
<1>2. \A k \in 1 .. 3 : c(k) \in Seq(Said(s))
  BY CallsBetweenIs
<1> HIDE DEF c
<1>3. \E h : ByTags(h, s)
  <2>1. ASSUME NEW k \in 1 .. 4
        PROVE  g[k] = IF k > 3 THEN <<>> ELSE IF c(k) # <<>> THEN c(k) ELSE g[k + 1]
    <3>1. g[1] = g1 /\ g[2] = g2 /\ g[3] = g3 /\ g[4] = <<>>
      OBVIOUS
    <3> HIDE DEF g
    <3>2. k = 1 \/ k = 2 \/ k = 3 \/ k = 4
      OBVIOUS
    <3> QED
      BY <3>1, <3>2
  <2>2. g = [k \in 1 .. 4 |-> IF k > 3 THEN <<>> ELSE IF c(k) # <<>> THEN c(k) ELSE g[k + 1]]
    BY <2>1
  <2> HIDE DEF g
  <2>3. ByTags(g, s)
    BY <1>1, <2>2 DEF ByTags, c
  <2> QED
    BY <2>3
<1>4. ByTags(f, s)
  BY <1>3
<1>5. ParseToolCalls(s) = f[1]
  BY DEF ParseToolCalls, ByTags
<1> HIDE DEF f, g
<1>6. ASSUME NEW k \in 1 .. 4
      PROVE  f[k] = IF k > 3 THEN <<>> ELSE IF c(k) # <<>> THEN c(k) ELSE f[k + 1]
  BY <1>1, <1>4 DEF ByTags, c
<1>7. f[1] \in Seq(Said(s))
  <2>1. f[4] = <<>> /\ <<>> \in Seq(Said(s))
    BY <1>6
  <2>2. f[3] \in Seq(Said(s))
    BY <1>2, <1>6, <2>1
  <2>3. f[2] \in Seq(Said(s))
    BY <1>2, <1>6, <2>2
  <2> QED
    BY <1>2, <1>6, <2>3
<1> QED
  BY <1>5, <1>7

\* A tool that is left after both kinds of thoughts are stripped stands outside of
\* them in the reply.
LEMMA SaidIsSpoken ==
  ASSUME NEW T, NEW s \in Seq(T), NEW i \in Said(StripThinking(s))
  PROVE  i \in SpokenTools(s)
<1> DEFINE first == ThinkingPairs[1]
           second == ThinkingPairs[2]
           t == Strip(s, first)
           u == Strip(t, second)
<1>1. /\ first[1] = "think" /\ first[2] = "/think"
      /\ second[1] = "channel" /\ second[2] = "/channel"
  BY DEF ThinkingPairs
<1>2. first[1] # first[2] /\ second[1] # second[2] /\ "channel" # first[1] /\ "/channel" # first[1]
  BY <1>1
<1>3. StripThinking(s) = u
  BY DEF StripThinking
<1> HIDE DEF first, second
<1>4. t \in Seq(T) /\ \E p : Picks(p, s, t, Kept(s, first), 1)
  BY <1>2, StripIs
<1> HIDE DEF t
<1>5. u \in Seq(T) /\ \E q : Picks(q, t, u, Kept(t, second), 1)
  BY <1>2, <1>4, StripIs
<1> HIDE DEF u
<1>6. PICK p : Picks(p, s, t, Kept(s, first), 1)
  BY <1>4
<1>7. PICK q : Picks(q, t, u, Kept(t, second), 1)
  BY <1>5
<1>8. PICK n \in 1 .. Len(u) : u[n] = i /\ i \in Tool
  BY <1>3 DEF Said
<1> DEFINE k == q[n]
           j == p[q[n]]
<1>9. k \in Kept(t, second) /\ k \in 1 .. Len(t) /\ u[n] = t[k]
  BY <1>7, <1>8 DEF Picks
<1> HIDE DEF k
<1>10. j = p[k]
  BY DEF k
<1> HIDE DEF j
<1>11. j \in Kept(s, first) /\ j \in 1 .. Len(s) /\ t[k] = s[j]
  BY <1>6, <1>9, <1>10 DEF Picks
<1>12. \A x : Within(s, first, x) <=> InFirst(s, x)
  BY <1>1 DEF Within, InFirst
<1>13. ~InFirst(s, j)
  BY <1>11, <1>12 DEF Kept
<1>14. \A x, y \in 1 .. Len(t) : p[x] \in Kept(s, first) /\ p[x] \in 1 .. Len(s) /\ t[x] = s[p[x]]
                                 /\ (x < y => p[x] < p[y])
  BY <1>6 DEF Picks
<1>15. ASSUME NEW l \in 1 .. j - 1, s[l] = "channel", ~InFirst(s, l),
              \A x \in l .. j - 1 : s[x] = "/channel" => InFirst(s, x)
       PROVE  FALSE
  <2>1. l \in Kept(s, first) /\ l \in 1 .. Len(s)
    BY <1>2, <1>11, <1>12, <1>15 DEF Kept
  <2>2. PICK a \in 1 .. Len(t) : p[a] = l
    BY <1>6, <2>1 DEF Picks
  <2>3. t[a] = "channel" /\ a < k
    <3>1. ~(k < a) /\ k # a
      BY <1>9, <1>10, <1>11, <1>14, <2>2
    <3> QED
      BY <1>9, <1>14, <1>15, <2>2, <3>1
  <2>4. PICK b \in a .. k - 1 : t[b] = "/channel"
    <3>1. ~Within(t, second, k) /\ a \in 1 .. k - 1
      BY <1>9, <2>3 DEF Kept
    <3> QED
      BY <1>1, <2>3, <3>1 DEF Within
  <2>5. b \in 1 .. Len(t) /\ b < k /\ (a < b \/ a = b)
    BY <1>9, <2>4
  <2>6. p[b] \in Kept(s, first) /\ p[b] \in 1 .. Len(s) /\ s[p[b]] = "/channel"
    BY <1>14, <2>4, <2>5
  <2>7. p[b] < j /\ l <= p[b]
    BY <1>9, <1>10, <1>14, <2>2, <2>5, <2>6
  <2>8. p[b] \in l .. j - 1
    BY <1>11, <2>1, <2>6, <2>7
  <2> QED
    BY <1>12, <1>15, <2>6, <2>8 DEF Kept
<1>16. ~InThought(s, j)
  BY <1>13, <1>15 DEF InThought
<1> QED
  BY <1>8, <1>9, <1>11, <1>16 DEF SpokenTools

LEMMA CallsAreSpoken ==
  ASSUME NEW T, NEW s \in Seq(T)
  PROVE  ParseToolCalls(StripThinking(s)) \in Seq(SpokenTools(s))
<1> DEFINE u == StripThinking(s)
<1>1. u \in Seq(T)
  <2>1. /\ ThinkingPairs[1][1] # ThinkingPairs[1][2]
        /\ ThinkingPairs[2][1] # ThinkingPairs[2][2]
    BY DEF ThinkingPairs
  <2>2. Strip(s, ThinkingPairs[1]) \in Seq(T)
    BY <2>1, StripIs
  <2> QED
    BY <2>1, <2>2, StripIs DEF StripThinking
<1> HIDE DEF u
<1>2. ParseToolCalls(u) \in Seq(Said(u))
  BY <1>1, ParseToolCallsIs
<1>3. Said(u) \subseteq SpokenTools(s)
  BY SaidIsSpoken DEF u
<1> HIDE DEF u
<1>4. ParseToolCalls(u) \in Seq(SpokenTools(s))
  BY <1>2, <1>3
<1> QED
  BY <1>4 DEF u

(***************************************************************************)
(* The agentic run.                                                        *)
(***************************************************************************)

Result == [tool : Tool, call : Nat, value : Nat]

Message ==
  [role : {"system"}]
    \cup [role : {"user"}, results : Seq(Result)]
    \cup [role : {"assistant"}, text : Replies]

LoopTypeOK ==
  /\ phase \in Phase
  /\ history \in Seq(Message)
  /\ todo \in Seq(Tool)
  /\ results \in Seq(Result)
  /\ ran \in Nat /\ value \in Nat /\ late \subseteq Nat

\* Before the loop there is nothing to tell.
Before ==
  phase \in {"checks", "hello", "setup"} => history = <<>> /\ results = <<>> /\ late = {}

(***************************************************************************)
(* Rounds.  A round of tool calls is answered when the message after it    *)
(* holds the results; in the loop only the last message can be a round     *)
(* that is not answered, and then the results there are and the calls to   *)
(* do make up its calls.                                                   *)
(***************************************************************************)
LastMessage == history[Len(history)]

RoundAnswered(i) ==
  LET calls == CallsIn(history[i].text)
  IN  /\ history[i + 1].role = "user"
      /\ Len(history[i + 1].results) = Len(calls)
      /\ \A k \in 1 .. Len(calls) : history[i + 1].results[k].tool = calls[k]

PastRounds == \A i \in Rounds : i < Len(history) => RoundAnswered(i)

UserIsLast ==
  phase \in {"turn", "asked", "asked_last"} => history # <<>> /\ LastMessage.role = "user"

OpenRound ==
  phase \in {"tool", "poll"} =>
    LET calls == CallsIn(LastMessage.text)
    IN  /\ history # <<>> /\ LastMessage.role = "assistant"
        /\ todo # <<>>
        /\ Len(results) + Len(todo) = Len(calls)
        /\ \A k \in 1 .. Len(results) : results[k].tool = calls[k]
        /\ \A k \in 1 .. Len(todo) : todo[k] = calls[Len(results) + k]

RoundInv == PastRounds /\ UserIsLast /\ OpenRound

(***************************************************************************)
(* Results.  Numbers of calls grow; a promise that was given up belongs to *)
(* a call of a deferring tool, and its number has not been reported as a   *)
(* value; what the globals hold is null, the current call's, or such a     *)
(* number that is not to come again.                                       *)
(***************************************************************************)
AllTold == phase \in {"turn", "asked", "asked_last"} => Range(results) \subseteq Told

Settled == IF phase = "poll" THEN ran - 1 ELSE ran

NumbersGrow == \A r \in Reported : r.call <= Settled /\ r.value <= Settled

GivenUp(w) == \E q \in Reported : q.call = w /\ q.tool \in Deferring

NotReported(w) == \A r \in Reported : r.value # w

LateIsOpen == \A w \in late : w # 0 /\ GivenUp(w) /\ NotReported(w)

GlobalsAreFresh ==
  phase = "poll" =>
    /\ ran > 0
    /\ \/ value = 0
       \/ value = ran /\ Head(todo) \notin Deferring
       \/ GivenUp(value) /\ NotReported(value) /\ value \notin late

ResultInv == AllTold /\ NumbersGrow /\ LateIsOpen /\ GlobalsAreFresh /\ ResultsAreOwn

\* A run that has completed has left the loop, and no request of it is at the server.
CompleteInv == complete => phase \in {"cleanup", "ended"} /\ chat = "none"

AgentInv == LoopTypeOK /\ Before /\ RoundInv /\ ResultInv

-----------------------------------------------------------------------------
\* A new message changes nothing of those before it.
LEMMA HistoryAppend ==
  ASSUME history \in Seq(Message), NEW m \in Message, history' = Append(history, m)
  PROVE  /\ history' \in Seq(Message) /\ history' # <<>>
         /\ Len(history) \in Nat /\ Len(history') = Len(history) + 1
         /\ \A i \in 1 .. Len(history) : history'[i] = history[i]
         /\ history'[Len(history')] = m
         /\ m.role # "user" => Told' = Told
         /\ m.role = "user" => Told' = Told \cup Range(m.results)
<1>1. /\ history' \in Seq(Message) /\ history' # <<>>
      /\ Len(history) \in Nat /\ Len(history') = Len(history) + 1
      /\ \A i \in 1 .. Len(history) : history'[i] = history[i]
      /\ history'[Len(history) + 1] = m
  OBVIOUS
<1>2. \A i \in 1 .. Len(history') : i \in 1 .. Len(history) \/ i = Len(history) + 1
  BY <1>1
<1>3. Len(history) + 1 \in 1 .. Len(history')
      /\ \A i \in 1 .. Len(history) : i \in 1 .. Len(history')
  BY <1>1
<1>4. \A x : x \in Told' <=> \/ x \in Told
                             \/ m.role = "user" /\ x \in Range(m.results)
  BY <1>1, <1>2, <1>3 DEF Told
<1> QED
  BY <1>1, <1>4

\* A round that is answered stays so when messages are added.
LEMMA PastKept ==
  ASSUME history \in Seq(Message), NEW m \in Message, history' = Append(history, m),
         PastRounds, history # <<>> => Len(history) \notin Rounds
  PROVE  PastRounds'
<1>1. /\ Len(history) \in Nat /\ Len(history') = Len(history) + 1
      /\ \A i \in 1 .. Len(history) : history'[i] = history[i]
  BY HistoryAppend
<1> SUFFICES ASSUME NEW i \in Rounds', i < Len(history')
             PROVE  RoundAnswered(i)'
  BY DEF PastRounds
<1>2. i \in 1 .. Len(history) /\ history'[i] = history[i]
  BY <1>1 DEF Rounds
<1>3. i \in Rounds /\ i < Len(history)
  BY <1>1, <1>2 DEF Rounds
<1>4. i + 1 \in 1 .. Len(history) /\ history'[i + 1] = history[i + 1]
  BY <1>1, <1>3 DEF Rounds
<1>5. RoundAnswered(i)
  BY <1>3 DEF PastRounds
<1> QED
  BY <1>2, <1>4, <1>5 DEF RoundAnswered

\* A message of the user is no round.
LEMMA UserIsNoRound ==
  ASSUME history \in Seq(Message), history # <<>>, LastMessage.role = "user"
  PROVE  Len(history) \notin Rounds
BY DEF Rounds, LastMessage

\* What is reported are results.
LEMMA ReportedType ==
  ASSUME LoopTypeOK
  PROVE  Reported \subseteq Result /\ Range(results) \subseteq Result
<1>1. Range(results) \subseteq Result
  BY DEF LoopTypeOK, Range
<1>2. ASSUME NEW i \in 1 .. Len(history), history[i].role = "user"
      PROVE  Range(history[i].results) \subseteq Result
  <2>1. history[i] \in Message
    BY DEF LoopTypeOK
  <2>2. history[i].results \in Seq(Result)
    BY <1>2, <2>1 DEF Message
  <2> QED
    BY <2>2 DEF Range
<1> QED
  BY <1>1, <1>2 DEF Reported, Told

\* The initial state.
LEMMA InitAgentInv == Init => AgentInv /\ CompleteInv
<1> SUFFICES ASSUME Init PROVE AgentInv /\ CompleteInv
  OBVIOUS
<1>1. /\ phase = "checks" /\ history = <<>> /\ todo = <<>> /\ results = <<>>
      /\ ran = 0 /\ value = 0 /\ late = {} /\ complete = FALSE
  BY DEF Init
<1>2. LoopTypeOK /\ Before /\ CompleteInv
  BY <1>1 DEF LoopTypeOK, Before, CompleteInv, Phase
<1>3. Reported = {} /\ Told = {}
  BY <1>1 DEF Reported, Told, Range
<1>4. RoundInv
  BY <1>1 DEF RoundInv, PastRounds, UserIsLast, OpenRound, Rounds
<1>5. ResultInv
  BY <1>1, <1>3
  DEF ResultInv, AllTold, NumbersGrow, LateIsOpen, GlobalsAreFresh, ResultsAreOwn
<1> QED
  BY <1>2, <1>4, <1>5 DEF AgentInv

\* A step that leaves the loop's data alone and stays in its phase, or leaves the loop.
LEMMA DataUnchanged ==
  ASSUME AgentInv, UNCHANGED <<history, todo, results, ran, value, late>>,
         \/ phase' = phase
         \/ phase' \in {"cleanup", "ended"}
         \/ phase \in {"checks", "hello"} /\ phase' \in {"hello", "setup"}
  PROVE  AgentInv'
<1>1. LoopTypeOK' /\ Before'
  BY DEF AgentInv, LoopTypeOK, Before, Phase
<1>2. Reported' = Reported /\ Told' = Told
  BY DEF Reported, Told
<1>3. PastRounds' /\ UserIsLast' /\ OpenRound'
  BY DEF AgentInv, RoundInv, PastRounds, UserIsLast, OpenRound, Rounds, RoundAnswered, LastMessage
<1>4. NumbersGrow'
  <2>1. ran \in Nat /\ (phase' # phase => Settled' = ran) /\ (phase' = phase => Settled' = Settled)
    BY DEF AgentInv, LoopTypeOK, Settled
  <2>2. \A r \in Reported : r.call \in Nat /\ r.value \in Nat
    BY ReportedType DEF AgentInv, Result
  <2> QED
    BY <1>2, <2>1, <2>2 DEF AgentInv, ResultInv, NumbersGrow, Settled
<1>5. AllTold' /\ LateIsOpen' /\ GlobalsAreFresh' /\ ResultsAreOwn'
  BY <1>2 DEF AgentInv, ResultInv, AllTold, LateIsOpen, GlobalsAreFresh, ResultsAreOwn, GivenUp, NotReported
<1> QED
  BY <1>1, <1>3, <1>4, <1>5 DEF AgentInv, RoundInv, ResultInv

\* What is known of the loop's data.
LEMMA Parts ==
  ASSUME AgentInv
  PROVE  /\ LoopTypeOK /\ Before /\ PastRounds /\ UserIsLast /\ OpenRound /\ AllTold
         /\ NumbersGrow /\ LateIsOpen /\ GlobalsAreFresh /\ ResultsAreOwn
         /\ Reported = Told \cup Range(results)
BY DEF AgentInv, RoundInv, ResultInv, Reported

\* The sequences the loop may start with.
LEMMA FirstAre ==
  ASSUME NEW S, NEW u \in S, NEW v \in S, NEW h, h = <<u>> \/ h = <<v, u>>
  PROVE  /\ h \in Seq(S) /\ h # <<>> /\ h[Len(h)] = u
         /\ \A i \in 1 .. Len(h) : h[i] \in {u, v}
<1>1. CASE h = <<u>>
  BY <1>1
<1>2. CASE h = <<v, u>>
  <2>1. Len(h) = 2 /\ h[1] = v /\ h[2] = u /\ \A i \in 1 .. 2 : i = 1 \/ i = 2
    BY <1>2
  <2> QED
    BY <1>2, <2>1
<1> QED
  BY <1>1, <1>2

\* The entry module: the loop starts with messages that hold no results.
LEMMA SetUpInv ==
  ASSUME AgentInv, SetUp
  PROVE  AgentInv'
<1>1. UNCHANGED <<todo, results, ran, done, value, late>> /\ phase = "setup"
  BY DEF SetUp, toolVars
<1>2. CASE Leave("cleanup", "error") /\ UNCHANGED <<maxTurns, history>>
  BY <1>1, <1>2, DataUnchanged DEF Leave
<1>3. CASE Leave("turn", "none") /\ history' \in FirstMessages
  <2> DEFINE user == [role |-> "user", results |-> <<>>]
             system == [role |-> "system"]
  <2>1. user \in Message /\ system \in Message
    BY DEF Message
  <2>2. history' = <<user>> \/ history' = <<system, user>>
    BY <1>3 DEF FirstMessages
  <2>3. /\ history' \in Seq(Message) /\ history' # <<>> /\ history'[Len(history')] = user
        /\ \A i \in 1 .. Len(history') : history'[i] \in {user, system}
    BY <2>1, <2>2, FirstAre
  <2>4. user.role = "user" /\ user.results = <<>> /\ system.role = "system"
    OBVIOUS
  <2> HIDE DEF user, system
  <2>5. phase' = "turn" /\ results = <<>> /\ late = {} /\ Rounds' = {}
    BY <1>1, <1>3, <2>3, <2>4 DEF Leave, AgentInv, Before, Rounds
  <2>6. LoopTypeOK' /\ Before'
    BY <1>1, <2>3, <2>5 DEF AgentInv, LoopTypeOK, Before, Phase
  <2>7. RoundInv'
    BY <2>3, <2>4, <2>5 DEF RoundInv, PastRounds, UserIsLast, OpenRound, LastMessage
  <2>8. Range(<<>>) = {}
    BY DEF Range
  <2>9. Reported' = {} /\ Range(results)' = {}
    BY <1>1, <2>3, <2>4, <2>5, <2>8 DEF Reported, Told
  <2>10. ResultInv'
    BY <1>1, <2>5, <2>9
    DEF ResultInv, AllTold, NumbersGrow, LateIsOpen, GlobalsAreFresh, ResultsAreOwn
  <2> QED
    BY <2>6, <2>7, <2>10 DEF AgentInv
<1> QED
  BY <1>2, <1>3 DEF SetUp

\* A request to the model, after the last turn with a message that asks for the answer.
LEMMA AskInv ==
  ASSUME AgentInv, Ask
  PROVE  AgentInv'
<1>1. UNCHANGED <<todo, results, ran, value, late>> /\ phase = "turn"
      /\ phase' \in {"asked", "asked_last"}
  BY DEF Ask, toolVars
<1>2. /\ LoopTypeOK /\ PastRounds /\ UserIsLast /\ AllTold
      /\ NumbersGrow /\ LateIsOpen /\ ResultsAreOwn
      /\ Reported = Told \cup Range(results)
  BY Parts
<1>3. /\ LoopTypeOK' /\ PastRounds' /\ UserIsLast' /\ Told' = Told
  <2>1. CASE UNCHANGED history
    BY <1>1, <1>2, <2>1
    DEF LoopTypeOK, Phase, PastRounds, UserIsLast, Told, Rounds, RoundAnswered, LastMessage
  <2>2. CASE history' = Append(history, [role |-> "user", results |-> <<>>])
    <3> DEFINE m == [role |-> "user", results |-> <<>>]
    <3>1. m \in Message /\ m.role = "user" /\ Range(m.results) = {}
      BY DEF Message, Range
    <3> HIDE DEF m
    <3>2. history \in Seq(Message) /\ history' = Append(history, m)
      BY <1>2, <2>2 DEF LoopTypeOK, m
    <3>3. /\ history' \in Seq(Message) /\ history' # <<>> /\ Told' = Told
          /\ history'[Len(history')] = m
      BY <3>1, <3>2, HistoryAppend
    <3>4. PastRounds'
      BY <1>1, <1>2, <3>1, <3>2, UserIsNoRound, PastKept DEF UserIsLast
    <3> QED
      BY <1>1, <1>2, <3>1, <3>3, <3>4 DEF LoopTypeOK, Phase, UserIsLast, LastMessage
  <2> QED
    BY <2>1, <2>2 DEF Ask
<1>4. Reported' = Reported
  BY <1>1, <1>2, <1>3 DEF Reported, Told
<1>5. AllTold' /\ NumbersGrow' /\ LateIsOpen' /\ GlobalsAreFresh' /\ ResultsAreOwn'
  BY <1>1, <1>2, <1>3, <1>4
  DEF AllTold, NumbersGrow, Settled, LateIsOpen, GlobalsAreFresh, ResultsAreOwn, GivenUp, NotReported
<1>6. Before' /\ OpenRound'
  BY <1>1 DEF Before, OpenRound
<1> QED
  BY <1>3, <1>5, <1>6 DEF AgentInv, RoundInv, ResultInv

\* A reply: with calls in it, a round begins.
LEMMA ReplyInv ==
  ASSUME AgentInv, Reply
  PROVE  AgentInv'
<1>1. /\ UNCHANGED <<ran, value, late>> /\ phase = "asked" /\ results' = <<>>
      /\ IF todo' = <<>> THEN phase' = "cleanup" ELSE phase' = "tool"
  BY DEF Reply, Leave
<1>2. PICK text \in Replies : /\ history' = Append(history, [role |-> "assistant", text |-> text])
                              /\ todo' = CallsIn(text)
  BY DEF Reply
<1>3. /\ LoopTypeOK /\ PastRounds /\ UserIsLast /\ AllTold
      /\ NumbersGrow /\ LateIsOpen /\ ResultsAreOwn
      /\ Reported = Told \cup Range(results)
  BY Parts
<1> DEFINE m == [role |-> "assistant", text |-> text]
<1>4. m \in Message /\ m.role = "assistant" /\ m.text = text
  BY DEF Message
<1> HIDE DEF m
<1>5. history \in Seq(Message) /\ history' = Append(history, m)
  BY <1>2, <1>3 DEF LoopTypeOK, m
<1>6. /\ history' \in Seq(Message) /\ history' # <<>> /\ Told' = Told
      /\ history'[Len(history')] = m
  BY <1>4, <1>5, HistoryAppend
<1>7. todo' \in Seq(Tool)
  <2>1. text \in Seq(Range(text))
    BY <1>2, ReplyAssumption
  <2> DEFINE T == Range(text)
  <2>2. text \in Seq(T)
    BY <2>1
  <2> HIDE DEF T
  <2>3. CallsIn(text) \in Seq(SpokenTools(text))
    BY <2>2, CallsAreSpoken DEF CallsIn
  <2>4. SpokenTools(text) \subseteq Tool
    BY DEF SpokenTools
  <2> QED
    BY <1>2, <2>3, <2>4
<1>8. LoopTypeOK'
  BY <1>1, <1>3, <1>6, <1>7 DEF LoopTypeOK, Phase
<1>9. PastRounds'
  BY <1>1, <1>3, <1>5, <1>4, UserIsNoRound, PastKept DEF UserIsLast
<1>10. OpenRound'
  <2> SUFFICES ASSUME phase' = "tool", todo' # <<>>
               PROVE  LET calls == CallsIn(LastMessage'.text)
                      IN  /\ history' # <<>> /\ LastMessage'.role = "assistant"
                          /\ Len(results') + Len(todo') = Len(calls)
                          /\ \A k \in 1 .. Len(results') : results'[k].tool = calls[k]
                          /\ \A k \in 1 .. Len(todo') : todo'[k] = calls[Len(results') + k]
    BY <1>1 DEF OpenRound
  <2>1. LastMessage' = m /\ CallsIn(LastMessage'.text) = todo'
    BY <1>2, <1>4, <1>6 DEF LastMessage
  <2>2. Len(results') = 0 /\ Len(todo') \in Nat /\ \A k \in 1 .. Len(todo') : 0 + k = k
    BY <1>1, <1>7
  <2> QED
    BY <1>4, <1>6, <2>1, <2>2
<1>11. UserIsLast' /\ Before' /\ AllTold' /\ GlobalsAreFresh'
  BY <1>1 DEF UserIsLast, Before, AllTold, GlobalsAreFresh
<1>12. Reported' = Reported
  <2>1. Reported = Told
    BY <1>1, <1>3 DEF AllTold
  <2>2. Range(results)' = {}
    BY <1>1 DEF Range
  <2> QED
    BY <1>6, <2>1, <2>2 DEF Reported, Told
<1>13. NumbersGrow' /\ LateIsOpen' /\ ResultsAreOwn'
  BY <1>1, <1>3, <1>12
  DEF NumbersGrow, Settled, LateIsOpen, ResultsAreOwn, GivenUp, NotReported
<1> QED
  BY <1>8, <1>9, <1>10, <1>11, <1>13 DEF AgentInv, RoundInv, ResultInv

\* A tool call starts: it takes the next number, and a promise given up earlier may be
\* resolved by it, which is then given up no longer.
LEMMA StartToolInv ==
  ASSUME AgentInv, StartTool
  PROVE  AgentInv'
<1>1. /\ UNCHANGED <<history, todo, results>> /\ phase = "tool" /\ phase' = "poll"
      /\ ran' = ran + 1
  BY DEF StartTool, loopVars
<1>2. PICK of \in late \cup {0} :
        /\ late' = late \ {of}
        /\ IF Head(todo) \in Asking \cup Deferring
             THEN value' = of ELSE value' = IF of # 0 THEN of ELSE ran'
  BY DEF StartTool
<1>3. /\ LoopTypeOK /\ PastRounds /\ OpenRound /\ NumbersGrow /\ LateIsOpen /\ ResultsAreOwn
  BY Parts
<1>4. Reported' = Reported
  BY <1>1 DEF Reported, Told
<1>5. ran \in Nat /\ late \subseteq Nat /\ of \in Nat
  BY <1>2, <1>3 DEF LoopTypeOK
<1>6. LoopTypeOK' /\ Before'
  <2>1. value' \in Nat /\ ran' \in Nat /\ late' \subseteq Nat
    BY <1>1, <1>2, <1>5
  <2> QED
    BY <1>1, <1>3, <2>1 DEF LoopTypeOK, Before, Phase
<1>7. RoundInv'
  BY <1>1, <1>3
  DEF RoundInv, PastRounds, UserIsLast, OpenRound, Rounds, RoundAnswered, LastMessage
<1>8. AllTold' /\ NumbersGrow' /\ ResultsAreOwn'
  BY <1>1, <1>3, <1>4, <1>5 DEF AllTold, NumbersGrow, Settled, ResultsAreOwn
<1>9. LateIsOpen'
  BY <1>2, <1>3, <1>4 DEF LateIsOpen, GivenUp, NotReported
<1>10. GlobalsAreFresh'
  <2>1. of # 0 => GivenUp(of) /\ NotReported(of) /\ of \notin late'
    BY <1>2, <1>3 DEF LateIsOpen
  <2>2. CASE value' = of
    BY <1>1, <1>4, <1>5, <2>1, <2>2 DEF GlobalsAreFresh, GivenUp, NotReported
  <2>3. CASE value' # of
    BY <1>1, <1>2, <1>5, <2>3 DEF GlobalsAreFresh
  <2> QED
    BY <2>2, <2>3
<1> QED
  BY <1>6, <1>7, <1>8, <1>9, <1>10 DEF AgentInv, ResultInv

\* The promise of an asking tool settles: the value is the call's own.
LEMMA ToolSettlesInv ==
  ASSUME AgentInv, ToolSettles
  PROVE  AgentInv'
<1>1. /\ UNCHANGED <<phase, history, todo, results, ran, late>> /\ phase = "poll"
      /\ Head(todo) \in Asking /\ value' = ran
  BY DEF ToolSettles, loopVars
<1>2. Reported' = Reported /\ Told' = Told
  BY <1>1 DEF Reported, Told
<1>3. LoopTypeOK' /\ Before' /\ RoundInv'
  BY <1>1, Parts
  DEF LoopTypeOK, Before, RoundInv, PastRounds, UserIsLast, OpenRound, Rounds, RoundAnswered,
      LastMessage
<1>4. GlobalsAreFresh'
  BY <1>1, Parts, AgentAssumption DEF GlobalsAreFresh
<1>5. AllTold' /\ NumbersGrow' /\ LateIsOpen' /\ ResultsAreOwn'
  BY <1>1, <1>2, Parts
  DEF AllTold, NumbersGrow, Settled, LateIsOpen, ResultsAreOwn, GivenUp, NotReported
<1> QED
  BY <1>3, <1>4, <1>5 DEF AgentInv, ResultInv

\* The result n of the call that is over, in the results of its round.
LEMMA NewResult ==
  ASSUME AgentInv, NEW n \in Result, n.call = ran, n.value = value, n.tool = Head(todo),
         phase = "poll", phase' # "poll", UNCHANGED ran,
         late' = IF Head(todo) \in Deferring THEN late \cup {ran} ELSE late,
         Reported' = Reported \cup {n}
  PROVE  NumbersGrow' /\ LateIsOpen' /\ GlobalsAreFresh' /\ ResultsAreOwn'
<1>1. /\ LoopTypeOK /\ NumbersGrow /\ LateIsOpen /\ GlobalsAreFresh /\ ResultsAreOwn
      /\ \A r \in Reported : r \in Result
  BY Parts, ReportedType
<1>2. /\ ran \in Nat /\ ran > 0 /\ Settled = ran - 1 /\ Settled' = ran
      /\ \A r \in Reported : /\ r.call \in Nat /\ r.value \in Nat
                             /\ r.call < ran /\ r.value < ran
  BY <1>1 DEF LoopTypeOK, NumbersGrow, Settled, GlobalsAreFresh, Result
<1>3. \/ value = 0
      \/ value = ran /\ Head(todo) \notin Deferring
      \/ GivenUp(value) /\ NotReported(value) /\ value \notin late
  BY <1>1 DEF GlobalsAreFresh
<1>4. GivenUp(value) => value < ran
  BY <1>2 DEF GivenUp
<1>5. NumbersGrow'
  <2>1. n.call <= ran /\ n.value <= ran
    BY <1>1, <1>2, <1>3, <1>4 DEF LoopTypeOK
  <2>2. \A r \in Reported : r.call <= ran /\ r.value <= ran
    BY <1>2
  <2> QED
    BY <1>2, <2>1, <2>2 DEF NumbersGrow
<1>6. value # 0 => NotReported(value)
  BY <1>2, <1>3 DEF NotReported
<1>7. GlobalsAreFresh'
  BY DEF GlobalsAreFresh
<1>8. LateIsOpen'
  <2>1. ASSUME NEW w \in late
        PROVE  w # 0 /\ GivenUp(w)' /\ NotReported(w)'
    <3>1. w # 0 /\ GivenUp(w) /\ NotReported(w) /\ w < ran
      BY <1>1, <1>2 DEF LateIsOpen, GivenUp
    <3>2. w # value
      BY <1>2, <1>3, <3>1
    <3> QED
      BY <3>1, <3>2 DEF GivenUp, NotReported
  <2>2. ASSUME Head(todo) \in Deferring
        PROVE  ran # 0 /\ GivenUp(ran)' /\ NotReported(ran)'
    <3>1. value # ran
      BY <1>2, <1>3, <1>4, <2>2
    <3>2. GivenUp(ran)'
      BY <2>2 DEF GivenUp
    <3>3. NotReported(ran)'
      BY <1>2, <3>1 DEF NotReported
    <3> QED
      BY <1>2, <3>2, <3>3
  <2> QED
    BY <2>1, <2>2 DEF LateIsOpen, GivenUp, NotReported
<1>9. ResultsAreOwn'
  <2>1. ASSUME NEW r \in Reported'
        PROVE  r.value \in {0, r.call} \/ \E q \in Reported' : q.call = r.value /\ q.tool \in Deferring
    <3>1. CASE r \in Reported
      BY <1>1, <3>1 DEF ResultsAreOwn
    <3>2. CASE r = n
      BY <1>3, <3>2 DEF GivenUp
    <3> QED
      BY <3>1, <3>2
  <2>2. ASSUME NEW q \in Reported', NEW r \in Reported', q.value = r.value
        PROVE  q = r \/ q.value = 0
    <3>1. CASE q \in Reported /\ r \in Reported
      BY <1>1, <2>2, <3>1 DEF ResultsAreOwn
    <3>2. CASE q = n \/ r = n
      BY <1>6, <2>2, <3>2 DEF NotReported
    <3> QED
      BY <3>1, <3>2
  <2> QED
    BY <2>1, <2>2 DEF ResultsAreOwn
<1> QED
  BY <1>5, <1>7, <1>8, <1>9

\* A tool call is over: its result joins those of the round, and after the round's last
\* call the model is told.
LEMMA CollectInv ==
  ASSUME AgentInv, Collect
  PROVE  AgentInv'
<1> DEFINE n == [tool |-> Head(todo), call |-> ran, value |-> value]
<1>1. /\ phase = "poll" /\ UNCHANGED <<ran, value>>
      /\ late' = IF Head(todo) \in Deferring THEN late \cup {ran} ELSE late
      /\ results' = Append(results, n) /\ todo' = Tail(todo)
      /\ IF todo' # <<>>
           THEN phase' = "tool" /\ UNCHANGED history
           ELSE /\ phase' = "turn"
                /\ history' = Append(history, [role |-> "user", results |-> results'])
  BY DEF Collect
<1>2. LoopTypeOK /\ PastRounds /\ OpenRound /\ Reported = Told \cup Range(results)
  BY Parts
<1>3. /\ history \in Seq(Message) /\ todo \in Seq(Tool) /\ results \in Seq(Result)
      /\ ran \in Nat /\ value \in Nat /\ late \subseteq Nat
  BY <1>2 DEF LoopTypeOK
<1> DEFINE calls == CallsIn(LastMessage.text)
<1>4. /\ history # <<>> /\ LastMessage.role = "assistant"
      /\ todo # <<>>
      /\ Len(results) + Len(todo) = Len(calls)
      /\ \A k \in 1 .. Len(results) : results[k].tool = calls[k]
      /\ \A k \in 1 .. Len(todo) : todo[k] = calls[Len(results) + k]
  BY <1>1, <1>2 DEF OpenRound
<1>5. n \in Result /\ n.call = ran /\ n.value = value /\ n.tool = Head(todo)
  BY <1>3, <1>4 DEF Result
<1> HIDE DEF n, calls
<1>6. /\ results' \in Seq(Result) /\ Len(results) \in Nat /\ Len(results') = Len(results) + 1
      /\ \A k \in 1 .. Len(results) : results'[k] = results[k]
      /\ results'[Len(results) + 1] = n
  BY <1>1, <1>3, <1>5
<1>7. /\ todo' \in Seq(Tool) /\ Len(todo) \in Nat /\ Len(todo') = Len(todo) - 1 /\ Len(todo) > 0
      /\ Head(todo) = todo[1]
      /\ \A k \in 1 .. Len(todo') : todo'[k] = todo[k + 1]
  BY <1>1, <1>3, <1>4
<1>8. Range(results') = Range(results) \cup {n}
  <2>1. \A k \in 1 .. Len(results') : k \in 1 .. Len(results) \/ k = Len(results) + 1
    BY <1>6
  <2>2. /\ Len(results) + 1 \in 1 .. Len(results')
        /\ \A k \in 1 .. Len(results) : k \in 1 .. Len(results')
    BY <1>6
  <2>3. DOMAIN results' = 1 .. Len(results') /\ DOMAIN results = 1 .. Len(results)
    BY <1>3, <1>6
  <2> QED
    BY <1>6, <2>1, <2>2, <2>3 DEF Range
<1>9. Len(results') + Len(todo') = Len(calls)
      /\ \A k \in 1 .. Len(results') : results'[k].tool = calls[k]
  <2>1. calls[Len(results) + 1] = n.tool
    <3>1. 1 \in 1 .. Len(todo)
      BY <1>7
    <3> QED
      BY <1>4, <1>5, <1>7, <3>1
  <2>2. Len(results') + Len(todo') = Len(calls)
    <3>1. \A l, k \in Nat : (l + 1) + (k - 1) = l + k
      OBVIOUS
    <3>2. Len(results') + Len(todo') = (Len(results) + 1) + (Len(todo) - 1)
      BY <1>6, <1>7, Zenon
    <3> QED
      BY <1>4, <1>6, <1>7, <3>1, <3>2, Zenon
  <2>3. \A k \in 1 .. Len(results') : k \in 1 .. Len(results) \/ k = Len(results) + 1
    BY <1>6
  <2> QED
    BY <1>4, <1>6, <2>1, <2>2, <2>3
<1>10. CASE todo' # <<>>
  <2>1. phase' = "tool" /\ history' = history
    BY <1>1, <1>10
  <2>2. LoopTypeOK' /\ Before'
    BY <1>1, <1>3, <1>6, <1>7, <2>1 DEF LoopTypeOK, Before, Phase
  <2>3. Told' = Told /\ Reported' = Reported \cup {n}
    BY <1>2, <1>8, <2>1 DEF Reported, Told
  <2>4. PastRounds' /\ UserIsLast'
    BY <1>2, <2>1 DEF PastRounds, UserIsLast, Rounds, RoundAnswered
  <2>5. OpenRound'
    <3>1. \A k \in 1 .. Len(todo') : todo'[k] = calls[Len(results') + k]
      <4>1. \A k \in 1 .. Len(todo') :
              k + 1 \in 1 .. Len(todo) /\ Len(results') + k = Len(results) + (k + 1)
        BY <1>6, <1>7
      <4> QED
        BY <1>4, <1>7, <4>1
    <3>2. LastMessage' = LastMessage /\ calls' = calls
      BY <2>1 DEF LastMessage, calls
    <3> QED
      BY <1>4, <1>9, <1>10, <2>1, <3>1, <3>2 DEF OpenRound, calls
  <2>6. NumbersGrow' /\ LateIsOpen' /\ GlobalsAreFresh' /\ ResultsAreOwn'
    BY <1>1, <1>5, <2>1, <2>3, NewResult
  <2>7. AllTold'
    BY <2>1 DEF AllTold
  <2> QED
    BY <2>2, <2>4, <2>5, <2>6, <2>7 DEF AgentInv, RoundInv, ResultInv
<1>11. CASE todo' = <<>>
  <2> DEFINE m == [role |-> "user", results |-> results']
  <2>1. phase' = "turn" /\ history' = Append(history, m)
    BY <1>1, <1>11
  <2>2. m \in Message /\ m.role = "user" /\ m.results = results'
    BY <1>6 DEF Message
  <2> HIDE DEF m
  <2>3. /\ history' \in Seq(Message) /\ history' # <<>>
        /\ Len(history) \in Nat /\ Len(history') = Len(history) + 1
        /\ \A i \in 1 .. Len(history) : history'[i] = history[i]
        /\ history'[Len(history')] = m
        /\ Told' = Told \cup Range(results')
    BY <1>3, <2>1, <2>2, HistoryAppend
  <2>4. LoopTypeOK' /\ Before'
    BY <1>1, <1>3, <1>6, <1>7, <2>1, <2>3 DEF LoopTypeOK, Before, Phase
  <2>5. Reported' = Reported \cup {n}
    BY <1>2, <1>8, <2>3 DEF Reported
  <2>6. Len(calls) = Len(results')
    <3>1. Len(todo') = 0
      BY <1>11
    <3> QED
      BY <1>6, <1>9, <3>1
  <2>7. PastRounds'
    <3> SUFFICES ASSUME NEW i \in Rounds', i < Len(history')
                 PROVE  RoundAnswered(i)'
      BY DEF PastRounds
    <3>1. /\ i \in 1 .. Len(history) /\ history'[i] = history[i] /\ i + 1 \in 1 .. Len(history')
          /\ i = Len(history) \/ i + 1 \in 1 .. Len(history)
      BY <2>3 DEF Rounds
    <3>2. CASE i = Len(history)
      <4>1. history'[i + 1] = m /\ CallsIn(history'[i].text) = calls
        BY <2>3, <3>1, <3>2 DEF LastMessage, calls
      <4> QED
        BY <1>9, <2>2, <2>6, <4>1 DEF RoundAnswered
    <3>3. CASE i + 1 \in 1 .. Len(history)
      <4>1. i \in Rounds /\ i < Len(history) /\ history'[i + 1] = history[i + 1]
        BY <2>3, <3>1, <3>3 DEF Rounds
      <4> QED
        BY <1>2, <3>1, <4>1 DEF PastRounds, RoundAnswered
    <3> QED
      BY <3>1, <3>2, <3>3
  <2>8. UserIsLast' /\ OpenRound'
    BY <2>1, <2>2, <2>3 DEF UserIsLast, OpenRound, LastMessage
  <2>9. NumbersGrow' /\ LateIsOpen' /\ GlobalsAreFresh' /\ ResultsAreOwn'
    BY <1>1, <1>5, <2>1, <2>5, NewResult
  <2>10. AllTold'
    BY <2>3 DEF AllTold
  <2> QED
    BY <2>4, <2>7, <2>8, <2>9, <2>10 DEF AgentInv, RoundInv, ResultInv
<1> QED
  BY <1>10, <1>11

\* Every step keeps the invariant.
LEMMA NextAgentInv == AgentInv /\ [Next]_vars => AgentInv'
<1> SUFFICES ASSUME AgentInv, [Next]_vars PROVE AgentInv'
  OBVIOUS
<1> USE DEF Leave, loopVars, toolVars, agentVars
<1>1. CASE Check \/ Greet \/ CleanUp
  BY <1>1, DataUnchanged DEF Check, Greet, CleanUp
<1>2. CASE AskFails \/ LastReply \/ Panic \/ Interrupt
  BY <1>2, DataUnchanged DEF AskFails, LastReply, Panic, Interrupt
<1>3. CASE ToolCalls \/ PollAgain
  BY <1>3, DataUnchanged DEF ToolCalls, PollAgain
<1>4. CASE Server \/ Terminated \/ UNCHANGED vars \/ UNCHANGED agentVars
  BY <1>4, DataUnchanged
  DEF Server, ServerSchedules, ServerFinishes, ServerDeletes, Terminated, vars
<1> QED
  BY <1>1, <1>2, <1>3, <1>4, SetUpInv, AskInv, ReplyInv, StartToolInv, ToolSettlesInv, CollectInv
  DEF Next, Loop

LEMMA AgentInvariant == Spec => []AgentInv
<1>1. Init => AgentInv
  BY InitAgentInv
<1> QED
  BY <1>1, NextAgentInv, PTL DEF Spec

-----------------------------------------------------------------------------
(***************************************************************************)
(* The MCP client of a run.  A tool call makes its requests anew, which is *)
(* no step of the client: it must not happen to one that waits.            *)
(***************************************************************************)
AllQuiet == \A c \in Call : call[c].pc \notin Waiting

CallsInv ==
  /\ phase = "checks" => \A c \in Call : call[c].pc = "idle"
  /\ phase = "hello" => \A c \in Call \ {Hello} : call[c].pc = "idle"
  /\ phase \in {"setup", "turn", "asked", "tool", "asked_last"} => AllQuiet
  /\ phase = "poll" => /\ call[Hello].pc \notin Waiting
                       /\ Head(todo) \notin Asking => AllQuiet
                       /\ Head(todo) \in Asking /\ value = ran => CallsOver

ClientInv == Inv /\ CallsInv

\* Requests that are over may be forgotten: what is left in the map has no owner.
LEMMA ForgetCalls ==
  ASSUME Inv, AllQuiet, UNCHANGED <<nextId, pending, wire, lines, child>>,
         call' = [c \in Call |-> [pc |-> "idle", id |-> NoId, got |-> NoId]]
  PROVE  Inv' /\ \A c \in Call : call'[c].pc = "idle"
<1>1. /\ call' \in [Call -> [pc : CallPc, id : Id \cup {NoId}, got : Id \cup {NoId}]]
      /\ \A c \in Call : call'[c].pc = "idle" /\ call'[c].got = NoId
  BY DEF CallPc
<1>2. \A i \in DOMAIN pending : Orphan(i)
  BY DEF Inv, EntriesHaveOwners, McpTypeOK, AllQuiet
<1>3. "idle" \notin Waiting /\ "idle" # "registered"
  BY DEF Waiting
<1>4. McpTypeOK' /\ CanBeWoken' /\ OwnAnswer'
  BY <1>1, <1>3 DEF Inv, McpTypeOK, CanBeWoken, InFlight, OwnAnswer
<1>5. EntriesHaveOwners' /\ IdsAreFresh' /\ UnwrittenIsUnknown'
  BY <1>1, <1>2, <1>3 DEF Inv, EntriesHaveOwners, Orphan, IdsAreFresh, UnwrittenIsUnknown
<1> QED
  BY <1>1, <1>4, <1>5 DEF Inv

\* Neither the reader nor the child nor a write changes a call that does not wait.
LEMMA OthersUnchanged ==
  ASSUME Inv, Client \/ Child
  PROVE  nextId' = nextId /\ \A c \in Call : call[c].pc \notin Waiting => call'[c] = call[c]
<1>1. CASE \E c \in Call : McpStep(c)
  <2> PICK c \in Call : McpStep(c)
    BY <1>1
  <2>1. call[c].pc \in Waiting /\ nextId' = nextId
    BY DEF McpStep, Write, WriteFails, Waiting
  <2>2. \A d \in Call \ {c} : call'[d] = call[d]
    BY DEF McpStep, Write, WriteFails, Inv, McpTypeOK
  <2> QED
    BY <2>1, <2>2
<1>2. CASE Read
  <2>1. nextId' = nextId
    BY <1>2 DEF Read
  <2>2. PICK i : \/ UNCHANGED <<call, pending>>
                 \/ \E e : call' = [call EXCEPT ![pending[i]] =
                                      IF call[pending[i]].pc # "waiting" THEN call[pending[i]] ELSE e]
    BY <1>2 DEF Read
  <2>3. \A c \in Call : call[c].pc \notin Waiting => call'[c] = call[c]
    BY <2>2 DEF Inv, McpTypeOK, Waiting
  <2> QED
    BY <2>1, <2>3
<1>3. CASE Child
  BY <1>3 DEF Child, ChildAnswers, ChildBabbles, ChildCloses
<1> QED
  BY <1>1, <1>2, <1>3 DEF Client

\* A request leaves the calls that are not asked for as they were.
LEMMA BeginCallFacts ==
  ASSUME Inv, NEW c \in Call, BeginCall(c)
  PROVE  /\ Inv' /\ call[c].pc = "idle" /\ nextId \in Id
         /\ \A d \in Call \ {c} : call'[d] = call[d]
<1>1. \A d \in Call \ {c} : call'[d] = call[d]
  BY DEF BeginCall, Register, Inv, McpTypeOK
<1> QED
  BY <1>1, RegisterInv DEF BeginCall, Register

\* Every step of the run keeps what is known of its client.
LEMMA NextClientInv == AgentInv /\ ClientInv /\ [Next]_vars => ClientInv'
<1> SUFFICES ASSUME AgentInv, ClientInv, [Next]_vars PROVE ClientInv'
  OBVIOUS
<1>1. Inv /\ CallsInv /\ Hello \in Call
  BY AgentAssumption DEF ClientInv
<1>2. UNCHANGED mcpVars => Inv'
  BY <1>1, NextInv
<1>3. UNCHANGED mcpVars => (AllQuiet => AllQuiet') /\ (UNCHANGED todo /\ CallsOver => CallsOver')
  BY DEF mcpVars, AllQuiet, CallsOver
<1>4. "idle" \notin Waiting /\ \A pc \in Finished : pc \notin Waiting
  BY DEF Waiting, Finished
<1> USE DEF Leave, loopVars, toolVars, agentVars
<1>5. CASE Check
  <2>1. phase = "checks" /\ phase' \in {"hello", "ended"} /\ UNCHANGED mcpVars
    BY <1>5 DEF Check
  <2> QED
    BY <1>1, <1>2, <2>1 DEF ClientInv, CallsInv, mcpVars
<1>6. CASE Greet
  <2>1. phase = "hello" /\ \A c \in Call \ {Hello} : call[c].pc = "idle"
    BY <1>1, <1>6 DEF Greet, CallsInv
  <2>2. CASE BeginCall(Hello) /\ UNCHANGED agentVars
    BY <1>1, <2>1, <2>2, BeginCallFacts DEF ClientInv, CallsInv
  <2>3. CASE call[Hello].pc \in Finished /\ phase' \in {"setup", "cleanup"} /\ UNCHANGED mcpVars
    <3>1. AllQuiet
      BY <1>4, <2>1, <2>3 DEF AllQuiet
    <3> QED
      BY <1>2, <1>3, <2>3, <3>1 DEF ClientInv, CallsInv
  <2> QED
    BY <1>6, <2>2, <2>3 DEF Greet
<1>7. CASE SetUp \/ Ask \/ AskFails \/ Reply \/ LastReply
  <2>1. /\ phase \in {"setup", "turn", "asked", "asked_last"}
        /\ phase' \in {"turn", "asked", "asked_last", "tool", "cleanup"}
        /\ UNCHANGED mcpVars
    BY <1>7 DEF SetUp, Ask, AskFails, Reply, LastReply
  <2>2. AllQuiet'
    BY <1>1, <1>3, <2>1 DEF CallsInv
  <2> QED
    BY <1>2, <2>1, <2>2 DEF ClientInv, CallsInv
<1>8. CASE StartTool
  <2>1. /\ phase = "tool" /\ phase' = "poll" /\ ran' = ran + 1
        /\ todo' = todo /\ UNCHANGED <<nextId, pending, wire, lines, child>>
        /\ call' = [c \in Call |-> [pc |-> "idle", id |-> NoId, got |-> NoId]]
    BY <1>8 DEF StartTool
  <2>2. Inv' /\ \A c \in Call : call'[c].pc = "idle"
    BY <1>1, <2>1, ForgetCalls DEF CallsInv
  <2>3. Head(todo) \in Asking => value' # ran'
    <3>1. Head(todo) \in Asking => \E of \in late \cup {0} : value' = of
      BY <1>8 DEF StartTool
    <3>2. /\ LoopTypeOK /\ LateIsOpen /\ NumbersGrow /\ Settled = ran
          /\ \A r \in Reported : r \in Result
      BY <2>1, Parts, ReportedType DEF Settled
    <3>3. \A w \in late : w <= ran
      BY <3>2 DEF LateIsOpen, GivenUp, NumbersGrow
    <3> QED
      BY <2>1, <3>1, <3>2, <3>3 DEF LoopTypeOK
  <2>4. AllQuiet'
    BY <1>4, <2>2 DEF AllQuiet
  <2> QED
    BY <1>1, <1>4, <2>1, <2>2, <2>3, <2>4 DEF ClientInv, CallsInv
<1>9. CASE ToolCalls
  <2> PICK c \in Call \ {Hello} : BeginCall(c)
    BY <1>9 DEF ToolCalls
  <2>1. /\ phase = "poll" /\ Head(todo) \in Asking /\ UNCHANGED agentVars
    BY <1>9 DEF ToolCalls
  <2>2. Inv' /\ call[c].pc = "idle" /\ nextId \in Id /\ call'[Hello] = call[Hello]
    BY <1>1, BeginCallFacts
  <2>3. value # ran
    BY <1>1, <2>1, <2>2 DEF CallsInv, CallsOver, Finished
  <2> QED
    BY <1>1, <2>1, <2>2, <2>3 DEF ClientInv, CallsInv
<1>10. CASE ToolSettles
  <2>1. /\ phase = "poll" /\ Head(todo) \in Asking /\ CallsOver
        /\ UNCHANGED <<phase, todo>> /\ UNCHANGED mcpVars
    BY <1>10 DEF ToolSettles
  <2>2. CallsOver' /\ call' = call
    BY <1>3, <2>1 DEF mcpVars
  <2> QED
    BY <1>1, <1>2, <2>1, <2>2 DEF ClientInv, CallsInv
<1>11. CASE Collect
  <2>1. phase = "poll" /\ JsIdle /\ phase' \in {"tool", "turn"} /\ UNCHANGED mcpVars
    BY <1>11 DEF Collect
  <2>2. AllQuiet
    <3>1. CASE Head(todo) \in Asking
      BY <1>1, <1>4, <2>1, <3>1 DEF CallsInv, JsIdle, CallsOver, AllQuiet
    <3>2. CASE Head(todo) \notin Asking
      BY <1>1, <2>1, <3>2 DEF CallsInv
    <3> QED
      BY <3>1, <3>2
  <2> QED
    BY <1>2, <1>3, <2>1, <2>2 DEF ClientInv, CallsInv
<1>12. CASE CleanUp \/ Panic \/ Interrupt
  <2>1. phase' \in {"cleanup", "ended"} /\ UNCHANGED mcpVars
    BY <1>12 DEF CleanUp, Panic, Interrupt
  <2> QED
    BY <1>2, <2>1 DEF ClientInv, CallsInv
<1>13. CASE PollAgain \/ Server \/ Terminated \/ UNCHANGED vars
  <2>1. UNCHANGED <<phase, todo, value, ran>> /\ UNCHANGED mcpVars
    BY <1>13
    DEF PollAgain, Server, ServerSchedules, ServerFinishes, ServerDeletes, Terminated, vars
  <2> QED
    BY <1>1, <1>2, <1>3, <2>1 DEF ClientInv, CallsInv, mcpVars
<1>14. CASE (Client \/ Child) /\ UNCHANGED agentVars
  <2>1. nextId' = nextId /\ \A c \in Call : call[c].pc \notin Waiting => call'[c] = call[c]
    BY <1>1, <1>14, OthersUnchanged
  <2>2. Inv'
    BY <1>1, <1>14, NextInv DEF McpNext, Caller, Client
  <2>3. UNCHANGED <<phase, todo, value, ran>>
    BY <1>14
  <2>4. (AllQuiet => AllQuiet') /\ (CallsOver => CallsOver')
    BY <1>4, <2>1, <2>3 DEF AllQuiet, CallsOver
  <2>5. CallsInv'
    BY <1>1, <1>4, <2>1, <2>3, <2>4 DEF CallsInv
  <2> QED
    BY <2>2, <2>5 DEF ClientInv
<1> QED
  BY <1>5, <1>6, <1>7, <1>8, <1>9, <1>10, <1>11, <1>12, <1>13, <1>14 DEF Next, Loop

LEMMA ClientInvariant == Spec => []ClientInv
<1>1. Init => ClientInv
  <2> SUFFICES ASSUME Init PROVE ClientInv
    OBVIOUS
  <2>1. Inv
    BY InitInv DEF Init
  <2>2. phase = "checks" /\ \A c \in Call : call[c].pc = "idle"
    BY DEF Init, McpInit
  <2> QED
    BY <2>1, <2>2 DEF ClientInv, CallsInv
<1> QED
  BY <1>1, AgentInvariant, NextClientInv, PTL DEF Spec

\* OwnAnswer: in a run, whose tools reuse their requests from call to call, an answer
\* still goes to the request that carries its id.
THEOREM AgentAnswersAreOwn == Spec => []OwnAnswer
<1>1. ClientInv => OwnAnswer
  BY DEF ClientInv, Inv
<1> QED
  BY <1>1, ClientInvariant, PTL

\* CanBeWoken: and the reader finds every request of a run that waits.
THEOREM AgentCallsCanBeWoken == Spec => []CanBeWoken
<1>1. ClientInv => CanBeWoken
  BY DEF ClientInv, Inv
<1> QED
  BY <1>1, ClientInvariant, PTL

-----------------------------------------------------------------------------
\* ResultsComplete: whatever tools do and however the child of the MCP client behaves,
\* the model is asked again only with the results of all its calls, in their order.
THEOREM RoundsAreComplete == Spec => []ResultsComplete
<1>1. AgentInv => ResultsComplete
  <2> SUFFICES ASSUME AgentInv, phase \in {"asked", "asked_last"}, NEW i \in Rounds
               PROVE  RoundAnswered(i)
    BY DEF ResultsComplete, RoundAnswered
  <2>1. history \in Seq(Message) /\ PastRounds /\ history # <<>> /\ LastMessage.role = "user"
    BY Parts DEF LoopTypeOK, UserIsLast
  <2>2. i # Len(history)
    BY <2>1, UserIsNoRound
  <2>3. i < Len(history)
    BY <2>1, <2>2 DEF Rounds
  <2> QED
    BY <2>1, <2>3 DEF PastRounds
<1> QED
  BY <1>1, AgentInvariant, PTL

\* ResultsAreOwn: the globals all tool calls share give a call its own result, none, or
\* that of a call that was given up, and no result twice.
THEOREM ResultsAreOfTheirCalls == Spec => []ResultsAreOwn
<1>1. AgentInv => ResultsAreOwn
  BY Parts
<1> QED
  BY <1>1, AgentInvariant, PTL

\* ThoughtsAreNotActedOn: whatever the model writes, tags that are nested, out of order
\* or never closed included, a tool that runs was called outside of every thought.
THEOREM ThoughtsStayThoughts == Spec => []ThoughtsAreNotActedOn
<1>1. AgentInv => ThoughtsAreNotActedOn
  <2> SUFFICES ASSUME AgentInv, NEW i \in Rounds, NEW k \in 1 .. Len(CallsIn(history[i].text))
               PROVE  CallsIn(history[i].text)[k] \in SpokenTools(history[i].text)
    BY DEF ThoughtsAreNotActedOn
  <2> DEFINE text == history[i].text
             T == Range(text)
  <2>1. history \in Seq(Message)
    BY Parts DEF LoopTypeOK
  <2>2. i \in 1 .. Len(history) /\ history[i].role = "assistant"
    BY DEF Rounds
  <2>3. history[i] \in Message
    BY <2>1, <2>2
  <2>4. text \in Replies
    BY <2>2, <2>3 DEF Message
  <2>5. text \in Seq(T)
    BY <2>4, ReplyAssumption
  <2> HIDE DEF text, T
  <2>6. CallsIn(text) \in Seq(SpokenTools(text))
    BY <2>5, CallsAreSpoken DEF CallsIn
  <2>7. k \in 1 .. Len(CallsIn(text))
    BY DEF text
  <2>8. CallsIn(text)[k] \in SpokenTools(text)
    BY <2>6, <2>7
  <2> QED
    BY <2>8 DEF text
<1> QED
  BY <1>1, AgentInvariant, PTL

\* CompletedRunLeavesNoSession: the deletion comes after the last request, so that no
\* request can register the session again.
THEOREM CompletedRunsCleanUp == Spec => []CompletedRunLeavesNoSession
<1> DEFINE CleanInv ==
    /\ session \in [there : BOOLEAN, deleting : BOOLEAN]
    /\ CompleteInv /\ CompletedRunLeavesNoSession
<1> USE DEF CompleteInv, CompletedRunLeavesNoSession
<1>1. Init => CleanInv
  BY DEF Init
<1>2. CleanInv /\ [Next]_vars => CleanInv'
  <2> SUFFICES ASSUME CleanInv, [Next]_vars PROVE CleanInv'
    OBVIOUS
  <2> USE DEF Leave, loopVars, toolVars, serverVars, agentVars
  <2>1. CASE Check \/ Greet \/ SetUp \/ Ask \/ AskFails \/ LastReply
    BY <2>1 DEF Check, Greet, SetUp, Ask, AskFails, LastReply
  <2>2. CASE Reply
    BY <2>2 DEF Reply
  <2>3. CASE StartTool \/ ToolCalls \/ ToolSettles \/ PollAgain \/ Collect
    BY <2>3 DEF StartTool, ToolCalls, ToolSettles, PollAgain, Collect
  <2>4. CASE CleanUp
    BY <2>4 DEF CleanUp
  <2>5. CASE Panic \/ Interrupt
    BY <2>5 DEF Panic, Interrupt, Running
  <2>6. CASE Server
    <3>1. CASE ServerSchedules
      BY <3>1 DEF ServerSchedules
    <3>2. CASE ServerFinishes
      BY <3>2 DEF ServerFinishes
    <3>3. CASE ServerDeletes
      <4>1. session' = [there |-> FALSE, deleting |-> FALSE]
            /\ (chat = "none" => chat' = "none") /\ UNCHANGED <<phase, mode, complete>>
        BY <3>3 DEF ServerDeletes
      <4> QED
        BY <4>1
    <3> QED
      BY <2>6, <3>1, <3>2, <3>3 DEF Server
  <2>7. CASE Terminated \/ UNCHANGED vars \/ UNCHANGED agentVars
    BY <2>7 DEF Terminated, vars
  <2> QED
    BY <2>1, <2>2, <2>3, <2>4, <2>5, <2>6, <2>7 DEF Next, Loop
<1> QED
  BY <1>1, <1>2, PTL DEF Spec
=============================================================================
