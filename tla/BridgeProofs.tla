---------------------------- MODULE BridgeProofs ----------------------------
(***************************************************************************)
(* Proofs about Bridge, for every sequence of requests, every number of    *)
(* servers being watched, and whatever the command line and the remote     *)
(* repository do meanwhile: answers are complete and in turn, and what a   *)
(* request reports precedes its answer.  The log of messages is described  *)
(* by LogInv, given the lines read and the request in hand; the lemmas say *)
(* what appending an event or an answer does to a log so described.        *)
(*                                                                         *)
(* Then the files of the repository, as long as one program downloads at a *)
(* time (Together = 1): RepoInv says what the open part file of a download *)
(* holds at each of its steps, and that no other name leads to it.         *)
(***************************************************************************)
EXTENDS Bridge, FilteringProofs, FiniteSetTheorems

OfARequest == {"agent.run.start", "agent_event", "agent.run.finish", "progress"}

What == {"ok", "error"} \union OfARequest \union Statuses

Message == [kind : {"answer", "event"}, id : Nat, what : What]

Unanswered == {"malformed", "notification"}

AnswersIn(log, id) == {i \in DOMAIN log : log[i].kind = "answer" /\ log[i].id = id}

Single(S) == \E i : S = {i}

IdsInv(log, read) == \A i \in DOMAIN log : log[i].id \in 0 .. Len(read)

\* Every request read is answered once, but for the one in hand.
OnceInv(log, read, hand) ==
    \A id \in 1 .. Len(read) :
        /\ id = hand \/ read[id] \in Unanswered => AnswersIn(log, id) = {}
        /\ id # hand /\ read[id] \notin Unanswered => Single(AnswersIn(log, id))

TurnInv(log) ==
    \A i, j \in DOMAIN log :
        log[i].kind = "answer" /\ log[j].kind = "answer" /\ log[i].id # Unknown
            /\ log[j].id # Unknown /\ i < j => log[i].id < log[j].id

EventsInv(log) ==
    \A i, j \in DOMAIN log :
        (/\ log[i].kind = "answer"
         /\ log[j].kind = "event"
         /\ log[i].id = log[j].id
         /\ log[j].what \in OfARequest) => j < i

LogInv(log, read, hand) ==
    /\ log \in Seq(Message)
    /\ IdsInv(log, read)
    /\ OnceInv(log, read, hand)
    /\ TurnInv(log)
    /\ EventsInv(log)

HandInv ==
    \/ cur = Nothing
    \/ /\ cur \in [id : Nat, kind : Kind \union {"adding"}]
       /\ cur.id = Len(lines)
       /\ cur.id \in 1 .. Len(lines)
       /\ lines[cur.id] \notin Unanswered

SinkInv == sink = NoSink \/ (cur # Nothing /\ sink = cur.id /\ cur.kind = "run")

WatchInv == \A w \in watch : w.id \in 1 .. Len(lines)

IInv ==
    /\ lines \in Seq(Kind)
    /\ HandInv
    /\ SinkInv
    /\ WatchInv
    /\ LogInv(out, lines, cur.id)

\* What appending a message does to the indices of a log.
LEMMA Appended ==
    ASSUME NEW log \in Seq(Message), NEW m \in Message
    PROVE  /\ Append(log, m) \in Seq(Message)
           /\ Len(log) \in Nat
           /\ DOMAIN log = 1 .. Len(log) /\ DOMAIN Append(log, m) = 1 .. (Len(log) + 1)
           /\ \A i \in 1 .. Len(log) : Append(log, m)[i] = log[i]
           /\ Append(log, m)[Len(log) + 1] = m
  OBVIOUS

LEMMA AppendEvent ==
    ASSUME NEW log, NEW read \in Seq(Kind), NEW hand \in Nat, NEW e \in Message,
           LogInv(log, read, hand), e.kind = "event", e.id \in 0 .. Len(read),
           e.what \in OfARequest => e.id = hand /\ hand \in 1 .. Len(read)
    PROVE  LogInv(Append(log, e), read, hand)
<1> DEFINE more == Append(log, e)
<1>1. /\ more \in Seq(Message) /\ Len(log) \in Nat
      /\ DOMAIN log = 1 .. Len(log) /\ DOMAIN more = 1 .. (Len(log) + 1)
      /\ \A i \in 1 .. Len(log) : more[i] = log[i]
      /\ more[Len(log) + 1] = e
  BY Appended DEF LogInv
<1> HIDE DEF more
<1>2. ASSUME NEW id PROVE AnswersIn(more, id) = AnswersIn(log, id)
  BY <1>1 DEF AnswersIn
<1>3. IdsInv(more, read)
  BY <1>1 DEF LogInv, IdsInv
<1>4. OnceInv(more, read, hand)
  BY <1>2 DEF LogInv, OnceInv
<1>5. TurnInv(more)
  <2> SUFFICES ASSUME NEW i \in DOMAIN more, NEW j \in DOMAIN more,
                      more[i].kind = "answer", more[j].kind = "answer", i < j,
                      more[i].id # Unknown, more[j].id # Unknown
               PROVE  more[i].id < more[j].id
    BY DEF TurnInv
  <2>1. i \in DOMAIN log /\ j \in DOMAIN log
    BY <1>1
  <2> QED BY <1>1, <2>1 DEF LogInv, TurnInv
<1>6. EventsInv(more)
  <2> SUFFICES ASSUME NEW i \in DOMAIN more, NEW j \in DOMAIN more,
                      more[i].kind = "answer", more[j].kind = "event",
                      more[i].id = more[j].id, more[j].what \in OfARequest
               PROVE  j < i
    BY DEF EventsInv
  <2>1. i \in DOMAIN log /\ more[i] = log[i]
    BY <1>1
  <2>2. CASE j \in DOMAIN log
    BY <1>1, <2>1, <2>2 DEF LogInv, EventsInv
  <2>3. CASE j \notin DOMAIN log
    <3>1. hand \in 1 .. Len(read) /\ log[i].id = hand /\ log[i].kind = "answer"
      BY <1>1, <2>1, <2>3
    <3>2. AnswersIn(log, hand) = {}
      BY <3>1 DEF LogInv, OnceInv
    <3> QED BY <2>1, <3>1, <3>2 DEF AnswersIn
  <2> QED BY <2>2, <2>3
<1> QED BY <1>1, <1>3, <1>4, <1>5, <1>6 DEF LogInv, more

LEMMA AppendAnswer ==
    ASSUME NEW log, NEW read \in Seq(Kind), NEW hand \in 1 .. Len(read), NEW a \in Message,
           LogInv(log, read, hand), a.kind = "answer", a.id = hand, hand = Len(read),
           read[hand] \notin Unanswered
    PROVE  LogInv(Append(log, a), read, 0)
<1> DEFINE more == Append(log, a)
<1>1. /\ more \in Seq(Message) /\ Len(log) \in Nat
      /\ DOMAIN log = 1 .. Len(log) /\ DOMAIN more = 1 .. (Len(log) + 1)
      /\ \A i \in 1 .. Len(log) : more[i] = log[i]
      /\ more[Len(log) + 1] = a
  BY Appended DEF LogInv
<1> HIDE DEF more
<1>2. AnswersIn(log, hand) = {}
  BY DEF LogInv, OnceInv
<1>3. Single(AnswersIn(more, hand))
  <2>1. AnswersIn(more, hand) = {Len(log) + 1}
    BY <1>1, <1>2 DEF AnswersIn
  <2> QED BY <2>1 DEF Single
<1>4. ASSUME NEW id, id # hand PROVE AnswersIn(more, id) = AnswersIn(log, id)
  BY <1>1, <1>4 DEF AnswersIn
<1>5. IdsInv(more, read)
  BY <1>1 DEF LogInv, IdsInv
<1>6. OnceInv(more, read, 0)
  <2> SUFFICES ASSUME NEW id \in 1 .. Len(read)
               PROVE  /\ read[id] \in Unanswered => AnswersIn(more, id) = {}
                      /\ read[id] \notin Unanswered => Single(AnswersIn(more, id))
    BY DEF OnceInv
  <2> QED BY <1>3, <1>4 DEF LogInv, OnceInv
<1>7. TurnInv(more)
  <2> SUFFICES ASSUME NEW i \in DOMAIN more, NEW j \in DOMAIN more,
                      more[i].kind = "answer", more[j].kind = "answer", i < j,
                      more[i].id # Unknown, more[j].id # Unknown
               PROVE  more[i].id < more[j].id
    BY DEF TurnInv
  <2>1. i \in DOMAIN log /\ more[i] = log[i]
    BY <1>1
  <2>2. CASE j \in DOMAIN log
    BY <1>1, <2>1, <2>2 DEF LogInv, TurnInv
  <2>3. CASE j \notin DOMAIN log
    <3>1. more[j].id = hand
      BY <1>1, <2>3
    <3>2. log[i].id # hand
      BY <1>2, <2>1 DEF AnswersIn
    <3>3. log[i].id \in 0 .. hand
      BY <2>1 DEF LogInv, IdsInv
    <3> QED BY <2>1, <3>1, <3>2, <3>3
  <2> QED BY <2>2, <2>3
<1>8. EventsInv(more)
  <2> SUFFICES ASSUME NEW i \in DOMAIN more, NEW j \in DOMAIN more,
                      more[i].kind = "answer", more[j].kind = "event",
                      more[i].id = more[j].id, more[j].what \in OfARequest
               PROVE  j < i
    BY DEF EventsInv
  <2>1. j \in DOMAIN log
    BY <1>1
  <2> QED BY <1>1, <2>1 DEF LogInv, EventsInv
<1> QED BY <1>1, <1>5, <1>6, <1>7, <1>8 DEF LogInv, more

\* Reading a line that is a request puts it in hand, with nothing said of it yet; one
\* that is no request adds nothing to answer.
LEMMA ReadKind ==
    ASSUME NEW log, NEW read \in Seq(Kind), NEW kind \in Kind, NEW hand \in Nat,
           LogInv(log, read, 0),
           \/ kind \notin Unanswered /\ hand = Len(read) + 1
           \/ kind \in Unanswered /\ hand = 0
    PROVE  LogInv(log, Append(read, kind), hand)
<1> DEFINE more == Append(read, kind)
<1>1. /\ more \in Seq(Kind) /\ Len(more) = Len(read) + 1 /\ Len(read) \in Nat
      /\ \A id \in 1 .. Len(read) : more[id] = read[id]
      /\ more[Len(read) + 1] = kind
  OBVIOUS
<1> HIDE DEF more
<1>2. AnswersIn(log, Len(read) + 1) = {}
  BY <1>1 DEF AnswersIn, LogInv, IdsInv
<1>3. IdsInv(log, more)
  BY <1>1 DEF LogInv, IdsInv
<1>4. OnceInv(log, more, hand)
  <2> SUFFICES ASSUME NEW id \in 1 .. Len(more)
               PROVE  /\ id = hand \/ more[id] \in Unanswered => AnswersIn(log, id) = {}
                      /\ id # hand /\ more[id] \notin Unanswered => Single(AnswersIn(log, id))
    BY DEF OnceInv
  <2>1. CASE id = Len(read) + 1
    BY <1>1, <1>2, <2>1
  <2>2. CASE id \in 1 .. Len(read)
    BY <1>1, <2>2 DEF LogInv, OnceInv
  <2> QED BY <1>1, <2>1, <2>2
<1> QED BY <1>3, <1>4 DEF LogInv, more

LEMMA AppendUnknown ==
    ASSUME NEW log, NEW read \in Seq(Kind), NEW a \in Message,
           LogInv(log, read, 0), a.kind = "answer", a.id = Unknown
    PROVE  LogInv(Append(log, a), read, 0)
<1> DEFINE more == Append(log, a)
<1>1. /\ more \in Seq(Message) /\ Len(log) \in Nat
      /\ DOMAIN log = 1 .. Len(log) /\ DOMAIN more = 1 .. (Len(log) + 1)
      /\ \A i \in 1 .. Len(log) : more[i] = log[i]
      /\ more[Len(log) + 1] = a
  BY Appended DEF LogInv
<1> HIDE DEF more
<1>2. ASSUME NEW id, id # Unknown PROVE AnswersIn(more, id) = AnswersIn(log, id)
  BY <1>1, <1>2 DEF AnswersIn
<1>3. IdsInv(more, read)
  BY <1>1 DEF LogInv, IdsInv, Unknown
<1>4. OnceInv(more, read, 0)
  BY <1>2 DEF LogInv, OnceInv, Unknown
<1>5. TurnInv(more)
  BY <1>1 DEF LogInv, TurnInv
<1>6. EventsInv(more)
  <2> SUFFICES ASSUME NEW i \in DOMAIN more, NEW j \in DOMAIN more,
                      more[i].kind = "answer", more[j].kind = "event",
                      more[i].id = more[j].id, more[j].what \in OfARequest
               PROVE  j < i
    BY DEF EventsInv
  <2>1. j \in DOMAIN log
    BY <1>1
  <2> QED BY <1>1, <2>1 DEF LogInv, EventsInv
<1> QED BY <1>1, <1>3, <1>4, <1>5, <1>6 DEF LogInv, more

-----------------------------------------------------------------------------
LEMMA EmptyLog == LogInv(<<>>, <<>>, 0)
  BY DEF LogInv, IdsInv, OnceInv, TurnInv, EventsInv

LEMMA Starts ==
    ASSUME lines = <<>>, cur = Nothing, out = <<>>, sink = NoSink, watch = {}
    PROVE  IInv
<1>1. LogInv(<<>>, <<>>, 0)
  BY EmptyLog
<1>2. lines \in Seq(Kind) /\ cur.id = 0
  BY DEF Nothing
<1> QED BY <1>1, <1>2 DEF IInv, HandInv, SinkInv, WatchInv

LEMMA Answering ==
    ASSUME NEW id \in Nat, NEW ok
    PROVE  /\ Answer(id, ok) \in Message
           /\ Answer(id, ok).kind = "answer" /\ Answer(id, ok).id = id
  BY DEF Answer, Message, What

LEMMA Reporting ==
    ASSUME NEW id \in Nat, NEW what \in What
    PROVE  /\ Event(id, what) \in Message
           /\ Event(id, what).kind = "event" /\ Event(id, what).id = id
           /\ Event(id, what).what = what
  BY DEF Event, Message, What

\* A request in hand is the last line that was read.
LEMMA InHand ==
    ASSUME IInv, cur # Nothing
    PROVE  /\ cur \in [id : Nat, kind : Kind \union {"adding"}]
           /\ cur.id \in 1 .. Len(lines) /\ cur.id = Len(lines) /\ Len(lines) \in Nat
           /\ lines[cur.id] \notin Unanswered
           /\ cur.id \in Nat /\ cur.id # 0
  BY DEF IInv, HandInv

LEMMA ReadLineKeeps == ASSUME NEW kind \in Kind, IInv, ReadLine(kind) PROVE IInv'
<1>1. /\ cur = Nothing /\ cur.id = 0 /\ lines \in Seq(Kind) /\ Len(lines) \in Nat
      /\ LogInv(out, lines, 0) /\ lines' = Append(lines, kind)
      /\ sink = NoSink /\ sink' = sink /\ watch' = watch
  BY DEF IInv, SinkInv, ReadLine, Nothing
<1>2. /\ lines' \in Seq(Kind) /\ Len(lines') = Len(lines) + 1
      /\ lines'[Len(lines) + 1] = kind
  BY <1>1
<1>3. WatchInv'
  BY <1>1, <1>2 DEF IInv, WatchInv
<1>4. SinkInv'
  BY <1>1 DEF SinkInv
<1>5. CASE kind \in Unanswered
  <2>1. cur' = Nothing /\ cur'.id = 0
    BY <1>1, <1>5 DEF ReadLine, Unanswered
  <2>2. LogInv(out, lines', 0)
    BY <1>1, <1>5, ReadKind
  <2>3. out' = out \/ out' = Append(out, Answer(Unknown, FALSE))
    BY <1>5 DEF ReadLine, Unanswered
  <2>4. LogInv(Append(out, Answer(Unknown, FALSE)), lines', 0)
    <3>1. /\ Answer(Unknown, FALSE) \in Message /\ Answer(Unknown, FALSE).kind = "answer"
          /\ Answer(Unknown, FALSE).id = Unknown
      BY DEF Answer, Message, Unknown, What
    <3> QED BY <1>2, <2>2, <3>1, AppendUnknown
  <2>5. LogInv(out', lines', cur'.id)
    BY <2>1, <2>2, <2>3, <2>4
  <2> QED BY <1>2, <1>3, <1>4, <2>1, <2>5 DEF IInv, HandInv
<1>6. CASE kind \notin Unanswered
  <2>1. cur' = [id |-> Len(lines'), kind |-> kind] /\ out' = out
    BY <1>6 DEF ReadLine, Unanswered
  <2>2. cur' \in [id : Nat, kind : Kind \union {"adding"}] /\ cur'.id = Len(lines')
    BY <1>1, <1>2, <2>1 DEF Kind
  <2>3. LogInv(out, lines', Len(lines) + 1)
    BY <1>1, <1>6, ReadKind
  <2>4. LogInv(out', lines', cur'.id)
    BY <1>2, <2>1, <2>2, <2>3
  <2>5. HandInv'
    BY <1>1, <1>2, <1>6, <2>2 DEF HandInv
  <2> QED BY <1>2, <1>3, <1>4, <2>4, <2>5 DEF IInv
<1> QED BY <1>5, <1>6

\* The answer to the request in hand, with whatever it leaves to be watched.
LEMMA RepliesKeeps ==
    ASSUME NEW ok, IInv, cur # Nothing, Replies(ok), sink' = NoSink,
           \A w \in watch' : w \in watch \/ w.id = cur.id
    PROVE  IInv'
<1>1. /\ cur.id \in 1 .. Len(lines) /\ cur.id = Len(lines) /\ lines[cur.id] \notin Unanswered
      /\ cur.id \in Nat
  BY InHand
<1>2. /\ cur' = Nothing /\ cur'.id = 0 /\ out' = Append(out, Answer(cur.id, ok))
      /\ lines' = lines
  BY DEF Replies, Nothing
<1>3. /\ Answer(cur.id, ok) \in Message /\ Answer(cur.id, ok).kind = "answer"
      /\ Answer(cur.id, ok).id = cur.id
  BY <1>1, Answering
<1>4. lines \in Seq(Kind) /\ LogInv(out, lines, cur.id) /\ WatchInv
  BY DEF IInv
<1>5. LogInv(Append(out, Answer(cur.id, ok)), lines, 0)
  BY <1>1, <1>3, <1>4, AppendAnswer
<1>6. WatchInv'
  BY <1>1, <1>2, <1>4 DEF WatchInv
<1> QED BY <1>2, <1>4, <1>5, <1>6 DEF IInv, HandInv, SinkInv

\* An event of the request in hand.
LEMMA EventKeepsLog ==
    ASSUME IInv, cur # Nothing, NEW what \in What
    PROVE  /\ LogInv(Append(out, Event(cur.id, what)), lines, cur.id)
           /\ LogInv(Sent(out, Event(cur.id, what)), lines, cur.id)
<1>1. cur.id \in 1 .. Len(lines) /\ cur.id \in Nat /\ cur.id \in 0 .. Len(lines)
  BY InHand
<1>2. lines \in Seq(Kind) /\ LogInv(out, lines, cur.id)
  BY DEF IInv
<1>3. /\ Event(cur.id, what) \in Message /\ Event(cur.id, what).kind = "event"
      /\ Event(cur.id, what).id = cur.id
  BY <1>1, Reporting
<1>4. LogInv(Append(out, Event(cur.id, what)), lines, cur.id)
  BY <1>1, <1>2, <1>3, AppendEvent
<1> QED BY <1>2, <1>4 DEF Sent

\* A step after which the same request is in hand, with some event of it reported or none.
LEMMA ReportKeeps ==
    ASSUME IInv, cur # Nothing, NEW what \in What, lines' = lines, watch' = watch,
           cur' \in [id : Nat, kind : Kind \union {"adding"}], cur'.id = cur.id,
           sink' = NoSink \/ (sink' = cur.id /\ cur'.kind = "run"),
           \/ out' = out
           \/ out' = Append(out, Event(cur.id, what))
           \/ out' = Sent(out, Event(cur.id, what))
    PROVE  IInv'
<1>1. /\ cur.id \in 1 .. Len(lines) /\ cur.id = Len(lines) /\ lines[cur.id] \notin Unanswered
      /\ cur.id # 0
  BY InHand
<1>2. lines \in Seq(Kind) /\ LogInv(out, lines, cur.id) /\ WatchInv
  BY DEF IInv
<1>3. LogInv(out', lines, cur.id)
  BY <1>2, EventKeepsLog
<1>4. HandInv'
  BY <1>1 DEF HandInv
<1>5. cur' # Nothing
  BY <1>1 DEF Nothing
<1>6. SinkInv'
  BY <1>5 DEF SinkInv
<1>7. WatchInv'
  BY <1>2 DEF WatchInv
<1> QED BY <1>2, <1>3, <1>4, <1>6, <1>7 DEF IInv

LEMMA UnchangedKeeps ==
    ASSUME IInv, lines' = lines, cur' = cur, out' = out, sink' = sink, watch' = watch
    PROVE  IInv'
  BY DEF IInv, HandInv, SinkInv, WatchInv

LEMMA RunKeeps ==
    ASSUME IInv, \/ StartRun
                 \/ AgentReports
                 \/ \E ok \in BOOLEAN : EndRun(ok)
    PROVE  IInv'
<1>1. CASE StartRun
  <2>1. /\ cur # Nothing /\ cur' = cur /\ cur.kind = "run" /\ sink' = cur.id
        /\ out' = Append(out, Event(cur.id, "agent.run.start"))
        /\ lines' = lines /\ watch' = watch
    BY <1>1 DEF StartRun, Handling, Nothing
  <2>2. cur' \in [id : Nat, kind : Kind \union {"adding"}]
    BY <2>1, InHand
  <2>3. "agent.run.start" \in What
    BY DEF What, OfARequest
  <2> QED BY <2>1, <2>2, <2>3, ReportKeeps
<1>2. CASE AgentReports
  <2>1. /\ cur # Nothing /\ cur' = cur /\ cur.kind = "run" /\ sink = cur.id /\ sink' = sink
        /\ out' = Sent(out, Event(sink, "agent_event"))
        /\ lines' = lines /\ watch' = watch
    BY <1>2 DEF AgentReports, IInv, SinkInv
  <2>2. cur' \in [id : Nat, kind : Kind \union {"adding"}]
    BY <2>1, InHand
  <2>3. out' = Sent(out, Event(cur.id, "agent_event")) /\ "agent_event" \in What
    BY <2>1 DEF What, OfARequest
  <2> QED BY <2>1, <2>2, <2>3, ReportKeeps
<1>3. ASSUME NEW ok \in BOOLEAN, EndRun(ok) PROVE IInv'
  <2> DEFINE log == IF ok THEN Append(out, Event(cur.id, "agent.run.finish")) ELSE out
  <2>1. /\ cur # Nothing /\ cur' = Nothing /\ cur'.id = 0 /\ sink' = NoSink
        /\ out' = Append(log, Answer(cur.id, ok)) /\ lines' = lines /\ watch' = watch
    BY <1>3 DEF EndRun, IInv, SinkInv, Nothing
  <2>2. lines \in Seq(Kind) /\ LogInv(out, lines, cur.id) /\ WatchInv
    BY DEF IInv
  <2>3. LogInv(log, lines, cur.id)
    <3>1. "agent.run.finish" \in What
      BY DEF What, OfARequest
    <3> QED BY <2>1, <2>2, <3>1, EventKeepsLog
  <2> HIDE DEF log
  <2>4. /\ cur.id \in 1 .. Len(lines) /\ cur.id = Len(lines)
        /\ lines[cur.id] \notin Unanswered /\ cur.id \in Nat
    BY <2>1, InHand
  <2>5. /\ Answer(cur.id, ok) \in Message /\ Answer(cur.id, ok).kind = "answer"
        /\ Answer(cur.id, ok).id = cur.id
    BY <2>4, Answering
  <2>6. LogInv(Append(log, Answer(cur.id, ok)), lines, 0)
    BY <2>2, <2>3, <2>4, <2>5, AppendAnswer
  <2> QED BY <2>1, <2>2, <2>6 DEF IInv, HandInv, SinkInv, WatchInv
<1> QED BY <1>1, <1>2, <1>3

LEMMA AddKeeps ==
    ASSUME IInv, \/ \E files \in Selection[Bridge] : StartAdd(files)
                 \/ Adding
    PROVE  IInv'
<1>1. ASSUME NEW files \in Selection[Bridge], StartAdd(files) PROVE IInv'
  <2>1. /\ cur # Nothing /\ cur.kind = "add" /\ cur' = [cur EXCEPT !.kind = "adding"]
        /\ lines' = lines /\ out' = out /\ sink' = sink /\ watch' = watch
    BY <1>1 DEF StartAdd, Handling, Nothing
  <2>2. cur \in [id : Nat, kind : Kind \union {"adding"}]
    BY <2>1, InHand
  <2>3. cur' \in [id : Nat, kind : Kind \union {"adding"}] /\ cur'.id = cur.id
    BY <2>1, <2>2
  <2>4. sink' = NoSink
    BY <2>1 DEF IInv, SinkInv
  <2>5. "progress" \in What
    BY DEF What, OfARequest
  <2> QED BY <2>1, <2>3, <2>4, <2>5, ReportKeeps
<1>2. CASE Adding
  <2>1. /\ cur # Nothing /\ cur.kind = "adding" /\ cur' = cur
        /\ lines' = lines /\ sink' = sink /\ watch' = watch
        /\ out' = out \/ out' = Sent(out, Event(cur.id, "progress"))
    BY <1>2 DEF Adding, Handling, Nothing
  <2>2. cur' \in [id : Nat, kind : Kind \union {"adding"}]
    BY <2>1, InHand
  <2>3. sink' = NoSink /\ "progress" \in What
    BY <2>1 DEF IInv, SinkInv, What, OfARequest
  <2> QED BY <2>1, <2>2, <2>3, ReportKeeps
<1> QED BY <1>1, <1>2

\* Every other request is answered by the step that handles it.
LEMMA AnswerKeeps ==
    ASSUME IInv,
           \/ Refuse
           \/ List
           \/ AddRefused
           \/ EndAdd
           \/ RemoveModel
           \/ \E source \in Source, approved, overwrite \in BOOLEAN :
                 Install(source, approved, overwrite)
           \/ RemoveAgent
           \/ \E overwrite \in BOOLEAN : InitConfig(overwrite)
           \/ \E confirm \in BOOLEAN : RemoveConfig(confirm)
           \/ StartServer
           \/ StopServer
    PROVE  IInv'
<1>1. ASSUME NEW kind, kind # "run", Handling(kind) PROVE cur # Nothing /\ sink = NoSink
  BY <1>1 DEF Handling, Nothing, IInv, SinkInv
<1>2. ASSUME NEW ok, cur # Nothing, sink = NoSink, Replies(ok), sink' = sink, watch' = watch
      PROVE  IInv'
  BY <1>2, RepliesKeeps
<1>3. CASE Refuse
  BY <1>2, <1>3 DEF Refuse
<1>4. CASE List
  <2>1. PICK kind \in Kind \ {"run"} : Answered(kind)
    BY <1>4 DEF List, Initialize, ListTools, ListAgents, ListConfigs, CheckConfig, SetDefaults,
                ListModels, ShowModel, ListServers, Kind
  <2> QED BY <1>1, <1>2, <2>1 DEF Answered
<1>5. CASE AddRefused
  BY <1>1, <1>2, <1>5 DEF AddRefused
<1>6. CASE EndAdd
  <2>1. Handling("adding") /\ sink' = sink /\ watch' = watch
    BY <1>6 DEF EndAdd
  <2>2. PICK ok : Replies(ok)
    BY <1>6 DEF EndAdd
  <2> QED BY <1>1, <1>2, <2>1, <2>2
<1>7. CASE RemoveModel
  <2>1. /\ Handling("removeRepo") \/ Handling("removeFiles")
        /\ Replies(TRUE) /\ sink' = sink /\ watch' = watch
    BY <1>7 DEF RemoveModel
  <2> QED BY <1>1, <1>2, <2>1
<1>8. ASSUME NEW source, NEW approved, NEW overwrite, Install(source, approved, overwrite)
      PROVE  IInv'
  <2>1. Handling("install") /\ sink' = sink /\ watch' = watch
    BY <1>8 DEF Install
  <2>2. \E ok : Replies(ok)
    BY <1>8 DEF Install
  <2> QED BY <1>1, <1>2, <2>1, <2>2
<1>9. CASE RemoveAgent
  BY <1>1, <1>2, <1>9 DEF RemoveAgent
<1>10. ASSUME NEW overwrite, InitConfig(overwrite) PROVE IInv'
  <2>1. Handling("initConfig") /\ sink' = sink /\ watch' = watch
    BY <1>10 DEF InitConfig
  <2>2. PICK ok : Replies(ok)
    BY <1>10 DEF InitConfig
  <2> QED BY <1>1, <1>2, <2>1, <2>2
<1>11. ASSUME NEW confirm, RemoveConfig(confirm) PROVE IInv'
  BY <1>1, <1>2, <1>11 DEF RemoveConfig
<1>12. CASE StartServer
  <2>1. /\ Handling("start") /\ sink' = sink /\ Replies(TRUE)
        /\ watch' = watch \union {[id |-> cur.id, for |-> "up", found |-> FALSE]}
    BY <1>12 DEF StartServer
  <2>2. cur # Nothing /\ sink' = NoSink
    BY <1>1, <2>1
  <2>3. \A w \in watch' : w \in watch \/ w.id = cur.id
    BY <2>1
  <2> QED BY <2>1, <2>2, <2>3, RepliesKeeps
<1>13. CASE StopServer
  <2>1. /\ Handling("stop") /\ sink' = sink /\ Replies(TRUE)
        /\ watch' = watch \union {[id |-> cur.id, for |-> "down", found |-> up]}
    BY <1>13 DEF StopServer
  <2>2. cur # Nothing /\ sink' = NoSink
    BY <1>1, <2>1
  <2>3. \A w \in watch' : w \in watch \/ w.id = cur.id
    BY <2>1
  <2> QED BY <2>1, <2>2, <2>3, RepliesKeeps
<1> QED BY <1>3, <1>4, <1>5, <1>6, <1>7, <1>8, <1>9, <1>10, <1>11, <1>12, <1>13

\* What becomes of a server is reported under the id that asked for it, at any time.
LEMMA WatchKeeps == ASSUME NEW w \in watch, IInv, WatchEnds(w) PROVE IInv'
<1>1. PICK what \in Statuses : Reports(w, what)
  BY DEF WatchEnds, Statuses
<1>2. /\ lines' = lines /\ cur' = cur /\ sink' = sink /\ watch' = watch \ {w}
      /\ out' = Append(out, Event(w.id, what))
  BY <1>1 DEF Reports
<1>3. lines \in Seq(Kind) /\ LogInv(out, lines, cur.id) /\ HandInv /\ SinkInv /\ WatchInv
  BY DEF IInv
<1>4. w.id \in Nat /\ w.id \in 0 .. Len(lines) /\ cur.id \in Nat
  BY <1>3 DEF WatchInv, HandInv, Nothing
<1>5. what \in What /\ what \notin OfARequest
  BY <1>1 DEF Statuses, OfARequest, What
<1>6. /\ Event(w.id, what) \in Message /\ Event(w.id, what).kind = "event"
      /\ Event(w.id, what).id = w.id /\ Event(w.id, what).what = what
  BY <1>4, <1>5, Reporting
<1>7. LogInv(Append(out, Event(w.id, what)), lines, cur.id)
  BY <1>3, <1>4, <1>5, <1>6, AppendEvent
<1> QED BY <1>2, <1>3, <1>7 DEF IInv, HandInv, SinkInv, WatchInv

LEMMA Invariance == Spec => []IInv
<1>1. Init => IInv
  BY Starts DEF Init
<1>2. IInv /\ [Next]_vars => IInv'
  <2> SUFFICES ASSUME IInv, [Next]_vars PROVE IInv'
    OBVIOUS
  <2>1. ASSUME NEW kind \in Kind, ReadLine(kind) PROVE IInv'
    BY <2>1, ReadLineKeeps
  <2>2. CASE Handle
    BY <2>2, AnswerKeeps, AddKeeps, RunKeeps DEF Handle
  <2>3. CASE AgentReports
    BY <2>3, RunKeeps
  <2>4. ASSUME NEW w \in watch, WatchEnds(w) PROVE IInv'
    BY <2>4, WatchKeeps
  <2>5. CASE ServerBinds
    BY <2>5, UnchangedKeeps DEF ServerBinds
  <2>6. CASE ServerEnds
    BY <2>6, UnchangedKeeps DEF ServerEnds
  <2>7. CASE BridgeDies
    <3>1. lines' = <<>> /\ cur' = Nothing /\ out' = <<>> /\ sink' = NoSink /\ watch' = {}
      BY <2>7 DEF BridgeDies
    <3>2. LogInv(<<>>, <<>>, 0)
      BY EmptyLog
    <3>3. lines' \in Seq(Kind) /\ cur'.id = 0
      BY <3>1 DEF Nothing
    <3> QED BY <3>1, <3>2, <3>3 DEF IInv, HandInv, SinkInv, WatchInv
  <2>8. ASSUME NEW p \in Proc \ {Bridge}, CommandLine(p) PROVE IInv'
    BY <2>8, UnchangedKeeps DEF CommandLine
  <2>9. ASSUME NEW f \in File, Publish(f) /\ UNCHANGED bridgeVars PROVE IInv'
    BY <2>9, UnchangedKeeps DEF bridgeVars
  <2>10. CASE LoadFails
    BY <2>10, UnchangedKeeps DEF LoadFails
  <2>11. CASE Cli
    BY <2>11, UnchangedKeeps
       DEF Cli, CliRunServer, CliStopServer, CliRemoveAgent, CliInstall, CliOverwrites, CliCopies
  <2>12. CASE UNCHANGED vars
    BY <2>12, UnchangedKeeps DEF vars, bridgeVars
  <2> QED BY <2>1, <2>2, <2>3, <2>4, <2>5, <2>6, <2>7, <2>8, <2>9, <2>10, <2>11, <2>12 DEF Next
<1> QED BY <1>1, <1>2, PTL DEF Spec

(***************************************************************************)
(* Whatever a host sends and whenever agents, downloads and servers end,   *)
(* the loop of run() answers each request once, under its id, and in the   *)
(* order of the requests.                                                  *)
(***************************************************************************)
THEOREM AnswersInTurn == Spec => []AnsweredInTurn
<1>1. IInv => AnsweredInTurn
  <2> SUFFICES ASSUME IInv PROVE AnsweredInTurn
    OBVIOUS
  <2>1. LogInv(out, lines, cur.id)
    BY DEF IInv
  <2>2. ASSUME NEW id \in 1 .. Len(lines)
        PROVE  Cardinality(Answers(id)) =
                  IF id = cur.id \/ lines[id] \in Unanswered THEN 0 ELSE 1
    <3>1. Answers(id) = AnswersIn(out, id)
      BY DEF Answers, AnswersIn
    <3>2. CASE id = cur.id \/ lines[id] \in Unanswered
      <4>1. Answers(id) = {}
        BY <2>1, <3>1, <3>2 DEF LogInv, OnceInv
      <4> QED BY <3>2, <4>1, FS_EmptySet
    <3>3. CASE ~ (id = cur.id \/ lines[id] \in Unanswered)
      <4>1. Single(Answers(id))
        BY <2>1, <3>1, <3>3 DEF LogInv, OnceInv
      <4> QED BY <3>3, <4>1, FS_Singleton DEF Single
    <3> QED BY <3>2, <3>3
  <2>3. TurnInv(out)
    BY <2>1 DEF LogInv
  <2> QED BY <2>2, <2>3 DEF AnsweredInTurn, TurnInv, Unanswered
<1> QED BY <1>1, Invariance, PTL

(***************************************************************************)
(* What a run or a download reports is in the channel before the answer    *)
(* to it, for every request and however many events there are.             *)
(***************************************************************************)
THEOREM EventsComeFirst == Spec => []EventsBeforeTheAnswer
<1>1. IInv => EventsBeforeTheAnswer
  BY DEF IInv, LogInv, EventsInv, EventsBeforeTheAnswer, OfARequest
<1> QED BY <1>1, Invariance, PTL

(***************************************************************************)
(* The repository, with one download at a time (Together = 1): what a file *)
(* is renamed from is whole.  Two programs that download one file share    *)
(* its part, and then it need not be.                                      *)
(*                                                                         *)
(* Nothing a name points at is written under another name (NamesInv,       *)
(* OpenInv), so between the moment a part is found whole and the moment it *)
(* is renamed it can only lose its name.  That a resumed file is whole     *)
(* rests on its part: it is the beginning of the file (PartsInv), and as   *)
(* long as the length the job counts with (JobOK).                         *)
(***************************************************************************)
Place == Inode \union {NoFile}

At == {"send", "answer", "receive", "verify", "unlink", "rename", "succeeded", "failed"}

JobType ==
    [at : At, todo : Seq(File), listed : [File -> Nat], fd : Place, appends : BOOLEAN,
     received : Nat, version : Nat, failed : BOOLEAN]

RepoTypeOK ==
    /\ checked \subseteq File
    /\ remote \in [File -> 1 .. MaxVersion]
    /\ final \in [File -> Place] /\ part \in [File -> Place]
    /\ data \in [Inode -> Seq(Nat \X Nat)]
    /\ job \in [Proc -> JobType]

NamesInv ==
    /\ \A f, g \in File : final[f] = final[g] /\ final[f] # NoFile => f = g
    /\ \A f, g \in File : part[f] = part[g] /\ part[f] # NoFile => f = g
    /\ \A f, g \in File : final[f] = part[g] => final[f] = NoFile

\* The beginning of the first version.
Begun(c) == \A i \in DOMAIN c : c[i] = <<1, i>>

PartsInv ==
    \A f \in File : part[f] # NoFile =>
        /\ Len(data[part[f]]) <= Chunks
        /\ remote[f] = 1 => Begun(data[part[f]])

OneJob == \A p, q \in Proc : Busy(p) /\ Busy(q) => p = q

\* The open file of a job has no name or is the part of the file in hand.
OpenOK(j) ==
    /\ j.fd # NoFile => j.at \notin {"succeeded", "failed"}
    /\ \A g \in File : j.fd = final[g] => final[g] = NoFile
    /\ \A g \in File : j.fd = part[g] /\ part[g] # NoFile => g = Head(j.todo)

\* What a job knows of the part of the file in hand, if the name is still there.
JobOK(j) ==
    LET f == Head(j.todo)
    IN  /\ j.todo # <<>>
        /\ j.listed \in [File -> 1 .. MaxVersion]
        /\ j.at \in {"send", "answer"} => j.fd = NoFile
        /\ j.at = "answer" /\ part[f] # NoFile => j.received = Len(data[part[f]])
        /\ j.at = "receive" =>
              /\ j.fd # NoFile /\ part[f] \in {j.fd, NoFile} /\ j.received <= Chunks
              /\ part[f] = j.fd => Len(data[j.fd]) = j.received
              /\ remote[f] = 1 => j.version = 1
        /\ j.at \in {"verify", "unlink", "rename"} /\ part[f] # NoFile /\ remote[f] = 1 =>
              data[part[f]] = Whole(1)
        /\ j.at \in {"unlink", "rename"} /\ part[f] # NoFile /\ f \in checked =>
              data[part[f]] = Whole(j.listed[f])

FinalsInv == VerifiedFilesAreWhole /\ ResumedFilesAreWhole

RepoInv ==
    /\ RepoTypeOK
    /\ NamesInv
    /\ PartsInv
    /\ OneJob
    /\ \A p \in Proc : OpenOK(job[p])
    /\ \A p \in Proc : Busy(p) => JobOK(job[p])
    /\ FinalsInv

LEMMA BegunWhole ==
    ASSUME NEW c \in Seq(Nat \X Nat), Begun(c), Len(c) = Chunks
    PROVE  c = Whole(1)
<1>1. DOMAIN c = 1 .. Chunks
  OBVIOUS
<1>2. c = [i \in 1 .. Chunks |-> c[i]]
  BY <1>1
<1> QED
  BY <1>1, <1>2 DEF Begun, Whole

LEMMA RestingType == Resting \in JobType /\ Resting.fd = NoFile /\ Resting.at = "succeeded"
  BY DEF Resting, JobType, Place, At

LEMMA InitRepo == Init => RepoInv
<1> SUFFICES ASSUME Init PROVE RepoInv
  OBVIOUS
<1> USE DEF Init, ModelsInit
<1>1. 1 \in 1 .. MaxVersion
  BY ModelsAssumption
<1>2. RepoTypeOK
  BY <1>1, RestingType DEF RepoTypeOK, Place
<1>3. \A p \in Proc : ~ Busy(p) /\ job[p].fd = NoFile
  BY RestingType DEF Busy
<1>4. NamesInv /\ PartsInv /\ FinalsInv
  BY DEF NamesInv, PartsInv, FinalsInv, VerifiedFilesAreWhole, ResumedFilesAreWhole
<1>5. \A p \in Proc : OpenOK(job[p])
  BY <1>3 DEF OpenOK
<1> QED
  BY <1>2, <1>3, <1>4, <1>5 DEF RepoInv, OneJob

\* The job in hand, with its file.
LEMMA JobFacts ==
    ASSUME RepoInv, NEW p \in Proc
    PROVE  /\ job[p] \in JobType /\ OpenOK(job[p]) /\ (Busy(p) => JobOK(job[p]))
           /\ Busy(p) => Now(p) \in File /\ Tail(job[p].todo) \in Seq(File)
           /\ Busy(p) => \A q \in Proc \ {p} : ~ Busy(q) /\ job[q].fd = NoFile
<1>1. job[p] \in JobType /\ OpenOK(job[p]) /\ (Busy(p) => JobOK(job[p]))
  BY DEF RepoInv, RepoTypeOK
<1>2. ASSUME Busy(p) PROVE Now(p) \in File /\ Tail(job[p].todo) \in Seq(File)
  <2>1. job[p].todo \in Seq(File) /\ job[p].todo # <<>>
    BY <1>1, <1>2 DEF JobType, JobOK
  <2> QED
    BY <2>1 DEF Now
<1>3. ASSUME Busy(p), NEW q \in Proc \ {p} PROVE ~ Busy(q) /\ job[q].fd = NoFile
  BY <1>3 DEF RepoInv, OneJob, OpenOK, Busy
<1> QED
  BY <1>1, <1>2, <1>3

\* What comes after a file.
LEMMA EndedFacts ==
    ASSUME RepoInv, NEW p \in Proc, Busy(p), NEW ok \in BOOLEAN
    PROVE  LET e == FileEnded(p, ok)
           IN  /\ e \in JobType /\ e.fd = NoFile /\ e.at \in {"send", "succeeded", "failed"}
               /\ e.at = "send" => e.todo # <<>> /\ e.listed \in [File -> 1 .. MaxVersion]
<1> DEFINE rest == IF ok \/ p # Bridge THEN Tail(job[p].todo) ELSE <<>>
           failed == job[p].failed \/ ~ ok
           at == CASE rest # <<>> -> "send"
                   [] rest = <<>> /\ failed -> "failed"
                   [] OTHER -> "succeeded"
           e == FileEnded(p, ok)
<1>1. rest \in Seq(File) /\ failed \in BOOLEAN /\ job[p] \in JobType /\ JobOK(job[p])
  BY JobFacts DEF JobType
<1>2. /\ at \in {"send", "succeeded", "failed"}
      /\ at = "send" => rest # <<>>
  OBVIOUS
<1>3. e = [Resting EXCEPT !.at = at, !.todo = rest, !.failed = failed /\ rest # <<>>,
                          !.listed = IF rest # <<>> THEN job[p].listed ELSE @]
  BY DEF FileEnded
<1> HIDE DEF rest, failed, at, e
<1> DEFINE l == IF rest # <<>> THEN job[p].listed ELSE [f \in File |-> 0]
<1>4. e = [at |-> at, todo |-> rest, listed |-> l, fd |-> NoFile, appends |-> FALSE,
           received |-> 0, version |-> 0, failed |-> failed /\ rest # <<>>]
  BY <1>3 DEF Resting
<1>5. l \in [File -> Nat]
  BY <1>1 DEF JobType
<1>6. rest # <<>> => l \in [File -> 1 .. MaxVersion]
  BY <1>1 DEF JobOK
<1>7. at \in At /\ NoFile \in Place
  BY <1>2 DEF At, Place
<1> HIDE DEF l
<1>8. e \in JobType
  BY <1>1, <1>4, <1>5, <1>7 DEF JobType
<1> QED
  BY <1>2, <1>4, <1>6, <1>8 DEF e

\* A job changes and names may go, and with them what they pointed at: the end of a
\* file or of a job, its beginning, and a removal.
LEMMA Released ==
    ASSUME RepoInv, RepoTypeOK', NEW p \in Proc,
           checked' = checked, remote' = remote,
           \A f \in File : final'[f] \in {final[f], NoFile} /\ part'[f] \in {part[f], NoFile},
           \A i \in Inode :
               (\/ \E f \in File : i \in {final'[f], part'[f]}
                \/ \E q \in Proc : i = job'[q].fd) => data'[i] = data[i],
           \A q \in Proc \ {p} : job'[q] = job[q],
           job'[p].fd = NoFile, job'[p].at \in {"send", "succeeded", "failed"},
           job'[p].at = "send" =>
               /\ job'[p].todo # <<>> /\ job'[p].listed \in [File -> 1 .. MaxVersion]
               /\ \A q \in Proc \ {p} : ~ Busy(q)
    PROVE  RepoInv'
<1>1. ASSUME NEW f \in File
      PROVE  /\ final'[f] # NoFile =>
                   final'[f] = final[f] /\ final[f] \in Inode /\ data'[final[f]] = data[final[f]]
             /\ part'[f] # NoFile =>
                   part'[f] = part[f] /\ part[f] \in Inode /\ data'[part[f]] = data[part[f]]
  BY DEF RepoInv, RepoTypeOK, Place
<1>2. NamesInv'
  BY <1>1 DEF RepoInv, NamesInv
<1>3. PartsInv'
  BY <1>1 DEF RepoInv, PartsInv
<1>4. FinalsInv'
  <2>1. ASSUME NEW f \in File, f \in checked, final'[f] # NoFile PROVE WholeAt(final[f])'
    <3>1. WholeAt(final[f]) /\ final'[f] = final[f] /\ data'[final[f]] = data[final[f]]
      BY <1>1, <2>1 DEF RepoInv, FinalsInv, VerifiedFilesAreWhole
    <3> QED
      BY <3>1 DEF WholeAt
  <2>2. VerifiedFilesAreWhole'
    BY <2>1 DEF VerifiedFilesAreWhole, RepoInv, RepoTypeOK
  <2>3. ResumedFilesAreWhole'
    BY <1>1 DEF RepoInv, FinalsInv, ResumedFilesAreWhole
  <2> QED
    BY <2>2, <2>3 DEF FinalsInv
<1>5. ASSUME NEW q \in Proc, q # p
      PROVE  /\ job'[q] = job[q] /\ (Busy(q)' <=> Busy(q)) /\ Now(q)' = Now(q)
  BY <1>5 DEF Busy, Now
<1>6. Busy(p)' => job'[p].at = "send"
  BY DEF Busy
<1>7. OneJob'
  BY <1>5, <1>6 DEF RepoInv, OneJob
<1>8. ASSUME NEW q \in Proc PROVE OpenOK(job[q])'
  <2>1. CASE q = p
    BY <2>1 DEF OpenOK
  <2>2. CASE q # p
    <3>1. OpenOK(job[q])
      BY DEF RepoInv
    <3> QED
      BY <1>1, <1>5, <2>2, <3>1 DEF OpenOK
  <2> QED
    BY <2>1, <2>2
<1>9. ASSUME NEW q \in Proc, Busy(q)' PROVE JobOK(job[q])'
  <2>1. CASE q = p
    BY <1>6, <1>9, <2>1 DEF JobOK
  <2>2. CASE q # p
    <3>1. JobOK(job[q]) /\ job[q] \in JobType /\ Now(q) \in File
      BY <1>5, <1>9, <2>2, JobFacts
    <3>2. job[q].fd # NoFile => job[q].fd \in Inode /\ data'[job[q].fd] = data[job[q].fd]
      BY <1>5, <2>2, <3>1 DEF JobType, Place
    <3>3. part'[Now(q)] # NoFile =>
              part'[Now(q)] = part[Now(q)] /\ data'[part[Now(q)]] = data[part[Now(q)]]
      BY <1>1, <3>1
    <3>4. part'[Now(q)] \in {part[Now(q)], NoFile}
      BY <3>1
    <3>5. job'[q] = job[q] /\ Now(q)' = Now(q)
      BY <1>5, <2>2
    <3> QED
      BY <3>1, <3>2, <3>3, <3>4, <3>5 DEF JobOK, Now
  <2> QED
    BY <2>1, <2>2
<1> QED
  BY <1>2, <1>3, <1>4, <1>7, <1>8, <1>9 DEF RepoInv

\* A job goes on and leaves the files alone.
LEMMA Advanced ==
    ASSUME RepoInv, NEW p \in Proc, Busy(p),
           UNCHANGED <<checked, remote, final, part, data>>,
           NEW j \in JobType, job' = [job EXCEPT ![p] = j],
           j.at \notin {"succeeded", "failed"}, OpenOK(j), JobOK(j)
    PROVE  RepoInv'
<1>1. /\ job' \in [Proc -> JobType] /\ job'[p] = j
      /\ \A q \in Proc \ {p} : job'[q] = job[q]
  BY DEF RepoInv, RepoTypeOK
<1>2. RepoTypeOK'
  BY <1>1 DEF RepoInv, RepoTypeOK
<1>3. NamesInv' /\ PartsInv' /\ FinalsInv'
  BY DEF RepoInv, NamesInv, PartsInv, FinalsInv, VerifiedFilesAreWhole, ResumedFilesAreWhole,
         WholeAt
<1>4. ASSUME NEW q \in Proc, q # p PROVE ~ Busy(q)' /\ OpenOK(job[q])'
  <2>1. ~ Busy(q) /\ job[q].fd = NoFile /\ job'[q] = job[q]
    BY <1>1, <1>4, JobFacts
  <2> QED
    BY <2>1 DEF Busy, OpenOK
<1>5. OpenOK(job[p])' /\ JobOK(job[p])'
  BY <1>1 DEF OpenOK, JobOK
<1>6. /\ OneJob' /\ \A q \in Proc : OpenOK(job[q])'
      /\ \A q \in Proc : Busy(q)' => JobOK(job[q])'
  BY <1>4, <1>5 DEF OneJob
<1> QED
  BY <1>2, <1>3, <1>6 DEF RepoInv

\* A job in hand that has got as far as step at.
LEMMA JobAt ==
    ASSUME RepoInv, NEW p \in Proc, job[p].at \in At \ {"succeeded", "failed"}
    PROVE  /\ Busy(p) /\ job[p] \in JobType /\ OpenOK(job[p]) /\ JobOK(job[p])
           /\ Now(p) \in File /\ Now(p) = Head(job[p].todo)
           /\ \A q \in Proc \ {p} : ~ Busy(q) /\ job[q].fd = NoFile
<1>1. Busy(p)
  BY DEF Busy
<1> QED
  BY <1>1, JobFacts DEF Now

LEMMA SendRepo == ASSUME RepoInv, NEW p \in Proc, SendRequest(p) PROVE RepoInv'
<1> DEFINE n == Len(Content(part, Now(p)))
           j == [job[p] EXCEPT !.at = "answer", !.received = n]
<1>1. /\ Busy(p) /\ Now(p) \in File /\ Now(p) = Head(job[p].todo)
      /\ job[p] \in JobType /\ OpenOK(job[p]) /\ JobOK(job[p])
  BY JobAt DEF SendRequest, At
<1>2. n \in Nat /\ (part[Now(p)] # NoFile => n = Len(data[part[Now(p)]]))
  BY <1>1 DEF RepoInv, RepoTypeOK, Place, Content
<1>3. job' = [job EXCEPT ![p] = j]
  BY DEF SendRequest
<1> HIDE DEF n
<1>4. /\ j \in JobType /\ j.at = "answer" /\ j.received = n
      /\ j.todo = job[p].todo /\ j.fd = job[p].fd /\ j.listed = job[p].listed
  BY <1>1, <1>2 DEF JobType, At
<1> HIDE DEF j
<1>5. OpenOK(j)
  BY <1>1, <1>4 DEF OpenOK
<1>6. JobOK(j)
  BY <1>1, <1>2, <1>4 DEF JobOK, SendRequest
<1> QED
  BY <1>1, <1>3, <1>4, <1>5, <1>6, Advanced DEF SendRequest

LEMMA PastTheEndRepo == ASSUME RepoInv, NEW p \in Proc, PastTheEnd(p) PROVE RepoInv'
<1> DEFINE j == [job[p] EXCEPT !.at = "verify"]
           f == Now(p)
<1>1. /\ Busy(p) /\ f \in File /\ f = Head(job[p].todo)
      /\ job[p] \in JobType /\ OpenOK(job[p]) /\ JobOK(job[p])
  BY JobAt DEF PastTheEnd, At
<1>2. /\ j \in JobType /\ j.at = "verify" /\ j.received = job[p].received
      /\ j.todo = job[p].todo /\ j.fd = job[p].fd /\ j.listed = job[p].listed
  BY <1>1 DEF JobType, At
<1>3. job' = [job EXCEPT ![p] = j]
  BY DEF PastTheEnd
<1> HIDE DEF j, f
<1>4. OpenOK(j)
  BY <1>1, <1>2 DEF OpenOK
<1>5. part[f] # NoFile /\ remote[f] = 1 => data[part[f]] = Whole(1)
  <2> SUFFICES ASSUME part[f] # NoFile, remote[f] = 1 PROVE data[part[f]] = Whole(1)
    OBVIOUS
  <2>1. data[part[f]] \in Seq(Nat \X Nat)
    BY <1>1 DEF RepoInv, RepoTypeOK, Place
  <2>2. Len(data[part[f]]) <= Chunks /\ Begun(data[part[f]])
    BY <1>1 DEF RepoInv, PartsInv
  <2>3. Len(data[part[f]]) = Chunks
    BY SMTT(30), <1>1, <2>1, <2>2, ModelsAssumption DEF JobOK, PastTheEnd
  <2> QED
    BY <2>1, <2>2, <2>3, BegunWhole
<1>6. JobOK(j)
  BY <1>1, <1>2, <1>5 DEF JobOK
<1> QED
  BY <1>1, <1>2, <1>3, <1>4, <1>6, Advanced DEF PastTheEnd

LEMMA ResumesRepo == ASSUME RepoInv, NEW p \in Proc, Resumes(p) PROVE RepoInv'
<1> DEFINE f == Now(p)
           j == [job[p] EXCEPT !.at = "receive", !.fd = part[f], !.appends = TRUE,
                               !.version = remote[f]]
<1>1. /\ Busy(p) /\ f \in File /\ f = Head(job[p].todo)
      /\ job[p] \in JobType /\ OpenOK(job[p]) /\ JobOK(job[p])
  BY JobAt DEF Resumes, At
<1>2. part[f] # NoFile /\ part[f] \in Inode /\ remote[f] \in Nat
  BY <1>1 DEF RepoInv, RepoTypeOK, Place, Resumes
<1>3. job' = [job EXCEPT ![p] = j]
  BY DEF Resumes
<1> HIDE DEF f
<1>4. /\ j \in JobType /\ j.at = "receive" /\ j.received = job[p].received
      /\ j.todo = job[p].todo /\ j.fd = part[f] /\ j.listed = job[p].listed
      /\ j.version = remote[f]
  BY <1>1, <1>2 DEF JobType, At, Place
<1> HIDE DEF j
<1>5. OpenOK(j)
  BY <1>1, <1>2, <1>4 DEF OpenOK, RepoInv, NamesInv
<1>6. job[p].received = Len(data[part[f]]) /\ job[p].received <= Chunks
  BY <1>1, <1>2, ModelsAssumption DEF JobOK, Resumes
<1>7. JobOK(j)
  BY <1>1, <1>2, <1>4, <1>6 DEF JobOK
<1> QED
  BY <1>1, <1>3, <1>4, <1>5, <1>7, Advanced DEF Resumes

LEMMA ReceivedAllRepo == ASSUME RepoInv, NEW p \in Proc, ReceivedAll(p) PROVE RepoInv'
<1> DEFINE j == [job[p] EXCEPT !.at = "verify"]
           f == Now(p)
<1>1. /\ Busy(p) /\ f \in File /\ f = Head(job[p].todo)
      /\ job[p] \in JobType /\ OpenOK(job[p]) /\ JobOK(job[p])
  BY JobAt DEF ReceivedAll, At
<1>2. /\ j \in JobType /\ j.at = "verify" /\ j.received = job[p].received
      /\ j.todo = job[p].todo /\ j.fd = job[p].fd /\ j.listed = job[p].listed
  BY <1>1 DEF JobType, At
<1>3. job' = [job EXCEPT ![p] = j]
  BY DEF ReceivedAll
<1> HIDE DEF j, f
<1>4. OpenOK(j)
  BY <1>1, <1>2 DEF OpenOK
<1>5. ASSUME part[f] # NoFile, remote[f] = 1 PROVE data[part[f]] = Whole(1)
  <2>1. data[part[f]] \in Seq(Nat \X Nat)
    BY <1>1, <1>5 DEF RepoInv, RepoTypeOK, Place
  <2>2. Begun(data[part[f]])
    BY <1>1, <1>5 DEF RepoInv, PartsInv
  <2>3. Len(data[part[f]]) = Chunks
    BY <1>1, <1>5 DEF JobOK, ReceivedAll
  <2> QED
    BY <2>1, <2>2, <2>3, BegunWhole
<1>6. JobOK(j)
  BY <1>1, <1>2, <1>5 DEF JobOK
<1> QED
  BY <1>1, <1>2, <1>3, <1>4, <1>6, Advanced DEF ReceivedAll

LEMMA VerifyPassesRepo == ASSUME RepoInv, NEW p \in Proc, VerifyPasses(p) PROVE RepoInv'
<1> DEFINE j == [job[p] EXCEPT !.at = "unlink"]
           f == Now(p)
<1>1. /\ Busy(p) /\ f \in File /\ f = Head(job[p].todo)
      /\ job[p] \in JobType /\ OpenOK(job[p]) /\ JobOK(job[p])
  BY JobAt DEF VerifyPasses, At
<1>2. /\ j \in JobType /\ j.at = "unlink" /\ j.received = job[p].received
      /\ j.todo = job[p].todo /\ j.fd = job[p].fd /\ j.listed = job[p].listed
  BY <1>1 DEF JobType, At
<1>3. /\ job' = [job EXCEPT ![p] = j]
      /\ f \in checked => data[part[f]] = Whole(job[p].listed[f])
  BY DEF VerifyPasses, Verified
<1> HIDE DEF j, f
<1>4. OpenOK(j)
  BY <1>1, <1>2 DEF OpenOK
<1>5. JobOK(j)
  BY <1>1, <1>2, <1>3 DEF JobOK, VerifyPasses
<1> QED
  BY <1>1, <1>2, <1>3, <1>4, <1>5, Advanced DEF VerifyPasses

\* A chunk goes behind those that are there, if the part has still its name.
LEMMA ChunkWritten ==
    ASSUME NEW c \in Seq(Nat \X Nat), NEW at \in Nat \ {0}, NEW x \in Nat \X Nat
    PROVE  /\ Written(c, at, x) \in Seq(Nat \X Nat)
           /\ at = Len(c) + 1 => Written(c, at, x) = Append(c, x)
<1> DEFINE m == IF at > Len(c) THEN at ELSE Len(c)
           w == Written(c, at, x)
<1>1. Len(c) \in Nat /\ m \in Nat /\ DOMAIN c = 1 .. Len(c)
  OBVIOUS
<1>2. Hole \in Nat \X Nat
  BY DEF Hole
<1> DEFINE e(i) == CASE i = at -> x
                     [] i # at /\ i <= Len(c) -> c[i]
                     [] OTHER -> Hole
<1>3. \A i \in 1 .. m : e(i) \in Nat \X Nat
  BY <1>1, <1>2
<1>4. w = [i \in 1 .. m |-> e(i)]
  BY DEF Written
<1> HIDE DEF e, w, m
<1>5. w \in Seq(Nat \X Nat)
  BY <1>1, <1>3, <1>4
<1>6. ASSUME at = Len(c) + 1 PROVE w = Append(c, x)
  <2>1. m = Len(c) + 1
    BY <1>1, <1>6 DEF m
  <2>2. Len(w) = m /\ \A i \in 1 .. m : w[i] = e(i)
    BY <1>1, <1>4
  <2>3. \A i \in 1 .. Len(c) : e(i) = c[i]
    BY <1>1, <1>6 DEF e
  <2>4. e(Len(c) + 1) = x
    BY <1>6 DEF e
  <2> QED
    BY <1>1, <1>5, <2>1, <2>2, <2>3, <2>4
<1> QED
  BY <1>5, <1>6 DEF w

\* While one job is in hand, the others have nothing open and the invariant asks nothing
\* of them.
LEMMA OthersRest ==
    ASSUME RepoInv, NEW p \in Proc, Busy(p), NEW j \in JobType,
           job' = [job EXCEPT ![p] = j], OpenOK(job[p])', Busy(p)' => JobOK(job[p])'
    PROVE  /\ OneJob' /\ \A q \in Proc : OpenOK(job[q])'
           /\ \A q \in Proc : Busy(q)' => JobOK(job[q])'
           /\ job' \in [Proc -> JobType]
<1>1. /\ job' \in [Proc -> JobType] /\ job'[p] = j
      /\ \A q \in Proc \ {p} : job'[q] = job[q]
  BY DEF RepoInv, RepoTypeOK
<1>2. ASSUME NEW q \in Proc, q # p PROVE ~ Busy(q)' /\ OpenOK(job[q])'
  <2>1. ~ Busy(q) /\ job[q].fd = NoFile /\ job'[q] = job[q]
    BY <1>1, <1>2, JobFacts
  <2> QED
    BY <2>1 DEF Busy, OpenOK
<1> QED
  BY <1>1, <1>2 DEF OneJob

LEMMA ReceiveChunkRepo == ASSUME RepoInv, NEW p \in Proc, ReceiveChunk(p) PROVE RepoInv'
<1> DEFINE f == Now(p)
           fd == job[p].fd
           n == job[p].received + 1
           at == IF job[p].appends THEN Len(data[fd]) + 1 ELSE n
           w == Written(data[fd], at, <<job[p].version, n>>)
           j == [job[p] EXCEPT !.received = n]
<1>1. /\ Busy(p) /\ f \in File /\ f = Head(job[p].todo) /\ job[p].at = "receive"
      /\ job[p] \in JobType /\ OpenOK(job[p]) /\ JobOK(job[p])
  BY JobAt DEF ReceiveChunk, At
<1>2. fd \in Inode /\ data[fd] \in Seq(Nat \X Nat) /\ n \in Nat \ {0} /\ job[p].version \in Nat
  BY <1>1 DEF JobOK, JobType, RepoInv, RepoTypeOK, Place
<1>3. /\ data' = [data EXCEPT ![fd] = w] /\ job' = [job EXCEPT ![p] = j] /\ n <= Chunks
      /\ UNCHANGED <<checked, remote, repo, final, part, crashes>>
  BY DEF ReceiveChunk
<1>4. at \in Nat \ {0} /\ <<job[p].version, n>> \in Nat \X Nat
  BY <1>2
<1>5. /\ w \in Seq(Nat \X Nat)
      /\ at = Len(data[fd]) + 1 => w = Append(data[fd], <<job[p].version, n>>)
  BY <1>2, <1>4, ChunkWritten
<1> HIDE DEF w
<1>6. data' \in [Inode -> Seq(Nat \X Nat)] /\ data'[fd] = w /\ \A i \in Inode \ {fd} : data'[i] = data[i]
  BY <1>2, <1>3, <1>5 DEF RepoInv, RepoTypeOK
<1>7. /\ j \in JobType /\ j.at = "receive" /\ j.received = n /\ j.todo = job[p].todo
      /\ j.fd = fd /\ j.listed = job[p].listed /\ j.version = job[p].version
  BY <1>1, <1>2 DEF JobType
<1>8. ASSUME part[f] = fd
      PROVE  Len(w) = n /\ (remote[f] = 1 => Begun(w))
  <2>1. Len(data[fd]) = job[p].received /\ (remote[f] = 1 => job[p].version = 1)
    BY <1>1, <1>8 DEF JobOK
  <2>2. w = Append(data[fd], <<job[p].version, n>>)
    BY <1>5, <2>1
  <2>3. remote[f] = 1 => Begun(data[fd])
    BY <1>1, <1>2, <1>8, ModelsAssumption DEF RepoInv, PartsInv, Place
  <2> DEFINE c == data[fd]
             x == <<job[p].version, n>>
  <2>4. /\ Len(w) = n /\ DOMAIN w = 1 .. n /\ w[n] = x
        /\ \A i \in 1 .. n - 1 : w[i] = c[i] /\ i \in DOMAIN c
    <3>1. c \in Seq(Nat \X Nat) /\ x \in Nat \X Nat /\ n = Len(c) + 1 /\ w = Append(c, x)
      BY <1>2, <1>4, <2>1, <2>2
    <3> HIDE DEF c, x, n
    <3> QED
      BY <3>1
  <2> QED
    BY <2>1, <2>3, <2>4 DEF Begun
<1> HIDE DEF j, n, at, fd, f
<1>9. \A g \in File : /\ final[g] # NoFile => final[g] \in Inode /\ data'[final[g]] = data[final[g]]
                      /\ part[g] # NoFile /\ g # f => part[g] \in Inode /\ data'[part[g]] = data[part[g]]
  BY <1>1, <1>6 DEF OpenOK, RepoInv, RepoTypeOK, Place, fd
<1>10. part[f] # NoFile => part[f] = fd /\ data'[part[f]] = w
  BY <1>1, <1>6 DEF JobOK, fd
<1>11. NamesInv'
  BY <1>3 DEF RepoInv, NamesInv
<1>12. PartsInv'
  BY <1>3, <1>8, <1>9, <1>10 DEF RepoInv, PartsInv
<1>13. FinalsInv'
  <2>1. VerifiedFilesAreWhole'
    BY <1>3, <1>9 DEF RepoInv, RepoTypeOK, FinalsInv, VerifiedFilesAreWhole, WholeAt
  <2>2. ResumedFilesAreWhole'
    BY <1>3, <1>9 DEF RepoInv, FinalsInv, ResumedFilesAreWhole
  <2> QED
    BY <2>1, <2>2 DEF FinalsInv
<1>14. job'[p] = j
  BY <1>3 DEF RepoInv, RepoTypeOK
<1>15. OpenOK(job[p])'
  BY <1>14, <1>1, <1>3, <1>7 DEF OpenOK, fd
<1>16. JobOK(job[p])'
  BY <1>14, <1>1, <1>3, <1>6, <1>7, <1>8, <1>10 DEF JobOK, fd
<1>17. RepoTypeOK'
  BY <1>1, <1>3, <1>6, <1>7, <1>15, <1>16, OthersRest DEF RepoInv, RepoTypeOK
<1> QED
  BY <1>1, <1>3, <1>7, <1>11, <1>12, <1>13, <1>15, <1>16, <1>17, OthersRest DEF RepoInv

\* There are more inodes than names.
LEMMA SomeInodeFree ==
    ASSUME RepoInv
    PROVE  \E i \in Inode : \A f \in File : i \notin {final[f], part[f]}
<1> DEFINE A == {final[f] : f \in File}
           B == {part[f] : f \in File}
<1>1. IsFiniteSet(File) /\ IsFiniteSet(Proc) /\ Bridge \in Proc
  BY ModelsAssumption
<1>2. Cardinality(File) \in Nat /\ Cardinality(Proc) \in Nat /\ Cardinality(Proc) # 0
  BY <1>1, FS_CardinalityType, FS_EmptySet
<1>3. IsFiniteSet(A) /\ Cardinality(A) <= Cardinality(File)
  <2>1. final \in Surjection(File, A)
    BY DEF RepoInv, RepoTypeOK, Surjection
  <2> QED
    BY <1>1, <2>1, FS_Surjection
<1>4. IsFiniteSet(B) /\ Cardinality(B) <= Cardinality(File)
  <2>1. part \in Surjection(File, B)
    BY DEF RepoInv, RepoTypeOK, Surjection
  <2> QED
    BY <1>1, <2>1, FS_Surjection
<1> HIDE DEF A, B
<1>5. /\ IsFiniteSet(A \union B)
      /\ Cardinality(A \union B) = Cardinality(A) + Cardinality(B) - Cardinality(A \intersect B)
  BY <1>3, <1>4, FS_Union
<1>6. /\ Cardinality(A) \in Nat /\ Cardinality(B) \in Nat /\ Cardinality(A \union B) \in Nat
      /\ Cardinality(A \intersect B) \in Nat
  BY <1>3, <1>4, <1>5, FS_CardinalityType, FS_Intersection
<1>7. Cardinality(Inode) = 2 * Cardinality(File) + Cardinality(Proc)
  BY <1>2, FS_Interval DEF Inode
<1>8. ~ (Inode \subseteq A \union B)
  BY <1>2, <1>3, <1>4, <1>5, <1>6, <1>7, FS_Subset
<1> QED
  BY <1>8 DEF A, B

LEMMA NewInodeIsFree ==
    ASSUME RepoInv, NEW p \in Proc, job[p].at = "answer"
    PROVE  /\ NewInode \in Inode
           /\ \A f \in File : NewInode # final[f] /\ NewInode # part[f]
<1>1. \A q \in Proc : job[q].fd = NoFile
  <2>1. job[p].fd = NoFile /\ \A q \in Proc \ {p} : job[q].fd = NoFile
    BY JobAt DEF At, JobOK
  <2> QED
    BY <2>1
<1>2. \E i \in Inode : /\ \A f \in File : i \notin {final[f], part[f]}
                       /\ \A q \in Proc : i # job[q].fd
  BY <1>1, SomeInodeFree, ModelsAssumption
<1> QED
  BY <1>2 DEF NewInode

\* What is kept.
LEMMA Kept ==
    ASSUME NEW d, Keeping(d), NEW i \in Inode, NoFile \notin Inode,
           \/ \E f \in File : i \in {final'[f], part'[f]}
           \/ \E q \in Proc : i = job'[q].fd
    PROVE  data'[i] = d[i]
  BY DEF Keeping, InUse

LEMMA KeptType ==
    ASSUME NEW d \in [Inode -> Seq(Nat \X Nat)], Keeping(d)
    PROVE  data' \in [Inode -> Seq(Nat \X Nat)]
<1>1. <<>> \in Seq(Nat \X Nat)
  OBVIOUS
<1> QED
  BY <1>1 DEF Keeping

LEMMA StartsOverRepo == ASSUME RepoInv, NEW p \in Proc, StartsOver(p) PROVE RepoInv'
<1> DEFINE f == Now(p)
           inode == IF part[f] # NoFile /\ job[p].received = 0 THEN part[f] ELSE NewInode
           d == [data EXCEPT ![inode] = <<>>]
           j == [job[p] EXCEPT !.at = "receive", !.fd = inode, !.received = 0,
                               !.version = remote[f]]
<1>1. /\ Busy(p) /\ f \in File /\ f = Head(job[p].todo) /\ job[p].at = "answer"
      /\ job[p] \in JobType /\ OpenOK(job[p]) /\ JobOK(job[p])
  BY JobAt DEF StartsOver, At
<1>2. /\ inode \in Inode /\ inode # NoFile /\ remote[f] \in Nat
      /\ \A g \in File : final[g] # inode /\ (part[g] = inode => g = f)
  <2>1. CASE inode = part[f] /\ part[f] # NoFile
    BY <1>1, <2>1, ModelsAssumption DEF RepoInv, RepoTypeOK, Place, NamesInv
  <2>2. CASE inode = NewInode
    BY <1>1, <2>2, NewInodeIsFree, ModelsAssumption DEF RepoInv, RepoTypeOK
  <2> QED
    BY <2>1, <2>2
<1>3. /\ job' = [job EXCEPT ![p] = j] /\ part' = [part EXCEPT ![f] = inode] /\ Keeping(d)
      /\ UNCHANGED <<checked, remote, repo, final, crashes>>
  BY DEF StartsOver
<1> HIDE DEF inode, f
<1>4. /\ j \in JobType /\ j.at = "receive" /\ j.received = 0 /\ j.todo = job[p].todo
      /\ j.fd = inode /\ j.listed = job[p].listed /\ j.version = remote[f]
  BY <1>1, <1>2 DEF JobType, At, Place
<1> HIDE DEF j
<1>5. /\ d \in [Inode -> Seq(Nat \X Nat)] /\ d[inode] = <<>>
      /\ \A i \in Inode \ {inode} : d[i] = data[i]
  <2>1. <<>> \in Seq(Nat \X Nat)
    OBVIOUS
  <2> QED
    BY <1>2, <2>1 DEF RepoInv, RepoTypeOK
<1> HIDE DEF d
<1>6. /\ part' \in [File -> Place] /\ part'[f] = inode /\ \A g \in File \ {f} : part'[g] = part[g]
      /\ job'[p] = j
  BY <1>1, <1>2, <1>3 DEF RepoInv, RepoTypeOK, Place
<1>7. data' \in [Inode -> Seq(Nat \X Nat)] /\ data'[inode] = <<>>
  <2>1. data'[inode] = d[inode]
    BY <1>1, <1>2, <1>3, <1>6, Kept, ModelsAssumption
  <2> QED
    BY <1>3, <1>5, <2>1, KeptType
<1>8. ASSUME NEW g \in File
      PROVE  /\ final[g] # NoFile => final[g] \in Inode /\ data'[final[g]] = data[final[g]]
             /\ part[g] # NoFile /\ g # f => part[g] \in Inode /\ data'[part[g]] = data[part[g]]
  <2>1. ASSUME final[g] # NoFile PROVE final[g] \in Inode /\ data'[final[g]] = data[final[g]]
    <3>1. final[g] \in Inode /\ final[g] # inode /\ final'[g] = final[g]
      BY <1>2, <1>3, <2>1 DEF RepoInv, RepoTypeOK, Place
    <3>2. data'[final[g]] = d[final[g]]
      BY <1>3, <3>1, Kept, ModelsAssumption
    <3> QED
      BY <1>5, <3>1, <3>2
  <2>2. ASSUME part[g] # NoFile, g # f PROVE part[g] \in Inode /\ data'[part[g]] = data[part[g]]
    <3>1. part[g] \in Inode /\ part[g] # inode /\ part'[g] = part[g]
      BY <1>2, <1>6, <2>2 DEF RepoInv, RepoTypeOK, Place
    <3>2. data'[part[g]] = d[part[g]]
      BY <1>3, <3>1, Kept, ModelsAssumption
    <3> QED
      BY <1>5, <3>1, <3>2
  <2> QED
    BY <2>1, <2>2
<1>9. NamesInv'
  BY <1>2, <1>3, <1>6 DEF RepoInv, NamesInv
<1>10. PartsInv'
  <2>1. Len(<<>>) <= Chunks /\ Begun(<<>>)
    BY ModelsAssumption DEF Begun
  <2> QED
    BY <1>3, <1>6, <1>7, <1>8, <2>1 DEF RepoInv, PartsInv, RepoTypeOK
<1>11. FinalsInv'
  <2>1. VerifiedFilesAreWhole'
    BY ZenonT(30), <1>3, <1>8 DEF RepoInv, RepoTypeOK, FinalsInv, VerifiedFilesAreWhole, WholeAt
  <2>2. ResumedFilesAreWhole'
    BY <1>3, <1>8 DEF RepoInv, FinalsInv, ResumedFilesAreWhole
  <2> QED
    BY <2>1, <2>2 DEF FinalsInv
<1>12. OpenOK(job[p])'
  BY <1>1, <1>2, <1>3, <1>4, <1>6 DEF OpenOK
<1>13. JobOK(job[p])'
  <2>1. job[p].todo # <<>> /\ job[p].listed \in [File -> 1 .. MaxVersion]
    BY <1>1 DEF JobOK
  <2>2. /\ job'[p].todo # <<>> /\ Head(job'[p].todo) = f
        /\ job'[p].listed \in [File -> 1 .. MaxVersion]
        /\ job'[p].at = "receive" /\ job'[p].fd = inode /\ job'[p].received = 0
        /\ job'[p].version = remote[f]
    BY <1>1, <1>4, <1>6, <2>1
  <2>3. inode # NoFile /\ part'[f] = inode /\ Len(data'[inode]) = 0 /\ remote'[f] = remote[f]
    BY <1>2, <1>3, <1>6, <1>7
  <2> QED
    BY <2>2, <2>3, ModelsAssumption DEF JobOK
<1>14. RepoTypeOK'
  BY <1>1, <1>3, <1>4, <1>6, <1>7, <1>12, <1>13, OthersRest DEF RepoInv, RepoTypeOK
<1> QED
  BY <1>1, <1>3, <1>4, <1>9, <1>10, <1>11, <1>12, <1>13, <1>14, OthersRest DEF RepoInv

LEMMA RemoveOldRepo == ASSUME RepoInv, NEW p \in Proc, RemoveOld(p) PROVE RepoInv'
<1> DEFINE f == Now(p)
           j == [job[p] EXCEPT !.at = "rename"]
<1>1. /\ Busy(p) /\ f \in File /\ f = Head(job[p].todo) /\ job[p].at = "unlink"
      /\ job[p] \in JobType /\ OpenOK(job[p]) /\ JobOK(job[p])
  BY JobAt DEF RemoveOld, At
<1>2. /\ job' = [job EXCEPT ![p] = j] /\ final' = [final EXCEPT ![f] = NoFile] /\ Keeping(data)
      /\ UNCHANGED <<checked, remote, repo, part, crashes>>
  BY DEF RemoveOld
<1> HIDE DEF f
<1>3. /\ j \in JobType /\ j.at = "rename" /\ j.received = job[p].received
      /\ j.todo = job[p].todo /\ j.fd = job[p].fd /\ j.listed = job[p].listed
  BY <1>1 DEF JobType, At
<1> HIDE DEF j
<1>4. /\ final' \in [File -> Place] /\ job'[p] = j
      /\ \A g \in File : final'[g] \in {final[g], NoFile}
  BY <1>1, <1>2 DEF RepoInv, RepoTypeOK, Place
<1>5. ASSUME NEW g \in File
      PROVE  /\ final'[g] # NoFile =>
                   final'[g] = final[g] /\ final[g] \in Inode /\ data'[final[g]] = data[final[g]]
             /\ part[g] # NoFile => part[g] \in Inode /\ data'[part[g]] = data[part[g]]
  <2>1. ASSUME final'[g] # NoFile
        PROVE  final'[g] = final[g] /\ final[g] \in Inode /\ data'[final[g]] = data[final[g]]
    <3>1. final'[g] = final[g] /\ final[g] \in Inode
      BY <1>4, <2>1 DEF RepoInv, RepoTypeOK, Place
    <3> QED
      BY <1>2, <3>1, Kept, ModelsAssumption
  <2>2. ASSUME part[g] # NoFile PROVE part[g] \in Inode /\ data'[part[g]] = data[part[g]]
    <3>1. part'[g] = part[g] /\ part[g] \in Inode
      BY <1>2, <2>2 DEF RepoInv, RepoTypeOK, Place
    <3> QED
      BY <1>2, <3>1, Kept, ModelsAssumption
  <2> QED
    BY <2>1, <2>2
<1>6. NamesInv'
  BY <1>2, <1>4 DEF RepoInv, NamesInv
<1>7. PartsInv'
  BY <1>2, <1>5 DEF RepoInv, PartsInv
<1>8. FinalsInv'
  <2>1. ASSUME NEW g \in File, g \in checked, final'[g] # NoFile
        PROVE  \E v \in 1 .. MaxVersion : data'[final'[g]] = Whole(v)
    <3>1. WholeAt(final[g]) /\ final'[g] = final[g] /\ data'[final[g]] = data[final[g]]
      BY <1>5, <2>1 DEF RepoInv, FinalsInv, VerifiedFilesAreWhole
    <3> QED
      BY <3>1 DEF WholeAt
  <2>2. VerifiedFilesAreWhole'
    BY <1>2, <2>1 DEF VerifiedFilesAreWhole, WholeAt, RepoInv, RepoTypeOK
  <2>3. ResumedFilesAreWhole'
    BY <1>2, <1>5 DEF RepoInv, FinalsInv, ResumedFilesAreWhole
  <2> QED
    BY <2>2, <2>3 DEF FinalsInv
<1>9. OpenOK(job[p])'
  BY <1>1, <1>2, <1>3, <1>4 DEF OpenOK
<1>10. JobOK(job[p])'
  BY <1>1, <1>2, <1>3, <1>4, <1>5 DEF JobOK
<1>11. RepoTypeOK'
  BY <1>1, <1>2, <1>3, <1>4, <1>9, <1>10, KeptType, OthersRest DEF RepoInv, RepoTypeOK
<1> QED
  BY <1>1, <1>2, <1>3, <1>6, <1>7, <1>8, <1>9, <1>10, <1>11, OthersRest DEF RepoInv

LEMMA RenameRepo == ASSUME RepoInv, NEW p \in Proc, Rename(p) PROVE RepoInv'
<1> DEFINE f == Now(p)
           j == FileEnded(p, TRUE)
<1>1. /\ Busy(p) /\ f \in File /\ f = Head(job[p].todo) /\ job[p].at = "rename"
      /\ job[p] \in JobType /\ OpenOK(job[p]) /\ JobOK(job[p])
  BY JobAt DEF Rename, At
<1>2. /\ job' = [job EXCEPT ![p] = j] /\ final' = [final EXCEPT ![f] = part[f]]
      /\ part' = [part EXCEPT ![f] = NoFile] /\ Keeping(data) /\ part[f] # NoFile
      /\ UNCHANGED <<checked, remote, repo, crashes>>
  BY DEF Rename
<1>3. /\ j \in JobType /\ j.fd = NoFile /\ j.at \in {"send", "succeeded", "failed"}
      /\ j.at = "send" => j.todo # <<>> /\ j.listed \in [File -> 1 .. MaxVersion]
  BY <1>1, EndedFacts
<1> HIDE DEF f, j
<1>4. /\ final' \in [File -> Place] /\ part' \in [File -> Place] /\ job'[p] = j
      /\ final'[f] = part[f] /\ part'[f] = NoFile /\ part[f] \in Inode
      /\ \A g \in File \ {f} : final'[g] = final[g] /\ part'[g] = part[g]
  BY <1>1, <1>2 DEF RepoInv, RepoTypeOK, Place
<1>5. data'[part[f]] = data[part[f]]
  BY <1>1, <1>2, <1>4, Kept, ModelsAssumption
<1>6. ASSUME NEW g \in File, g # f
      PROVE  /\ final[g] # NoFile => final[g] \in Inode /\ data'[final[g]] = data[final[g]]
             /\ part[g] # NoFile => part[g] \in Inode /\ data'[part[g]] = data[part[g]]
  <2>1. ASSUME final[g] # NoFile PROVE final[g] \in Inode /\ data'[final[g]] = data[final[g]]
    <3>1. final'[g] = final[g] /\ final[g] \in Inode
      BY <1>4, <1>6, <2>1 DEF RepoInv, RepoTypeOK, Place
    <3> QED
      BY <1>2, <3>1, Kept, ModelsAssumption
  <2>2. ASSUME part[g] # NoFile PROVE part[g] \in Inode /\ data'[part[g]] = data[part[g]]
    <3>1. part'[g] = part[g] /\ part[g] \in Inode
      BY <1>4, <1>6, <2>2 DEF RepoInv, RepoTypeOK, Place
    <3> QED
      BY <1>2, <3>1, Kept, ModelsAssumption
  <2> QED
    BY <2>1, <2>2
<1>7. NamesInv'
  BY <1>1, <1>2, <1>4 DEF RepoInv, NamesInv
<1>8. PartsInv'
  BY <1>2, <1>4, <1>6 DEF RepoInv, PartsInv
<1>9. FinalsInv'
  <2>1. ASSUME NEW g \in File, g \in checked, final'[g] # NoFile
        PROVE  \E v \in 1 .. MaxVersion : data'[final'[g]] = Whole(v)
    <3>1. CASE g = f
      <4>1. data[part[f]] = Whole(job[p].listed[f]) /\ job[p].listed[f] \in 1 .. MaxVersion
        BY <1>1, <1>2, <2>1, <3>1 DEF JobOK
      <4> QED
        BY <1>4, <1>5, <3>1, <4>1
    <3>2. CASE g # f
      <4>1. WholeAt(final[g]) /\ final'[g] = final[g] /\ data'[final[g]] = data[final[g]]
        BY <1>4, <1>6, <2>1, <3>2 DEF RepoInv, FinalsInv, VerifiedFilesAreWhole
      <4> QED
        BY <4>1 DEF WholeAt
    <3> QED
      BY <3>1, <3>2
  <2>2. VerifiedFilesAreWhole'
    BY <1>2, <2>1 DEF VerifiedFilesAreWhole, WholeAt, RepoInv, RepoTypeOK
  <2>3. ASSUME NEW g \in File, final'[g] # NoFile, remote[g] = 1
        PROVE  data'[final'[g]] = Whole(1)
    <3>1. CASE g = f
      BY <1>1, <1>2, <1>4, <1>5, <2>3, <3>1 DEF JobOK
    <3>2. CASE g # f
      BY <1>4, <1>6, <2>3, <3>2 DEF RepoInv, FinalsInv, ResumedFilesAreWhole
    <3> QED
      BY <3>1, <3>2
  <2>4. ResumedFilesAreWhole'
    BY <1>2, <2>3 DEF ResumedFilesAreWhole
  <2> QED
    BY <2>2, <2>4 DEF FinalsInv
<1>10. OpenOK(job[p])'
  BY <1>3, <1>4 DEF OpenOK
<1>11. Busy(p)' => JobOK(job[p])'
  BY <1>3, <1>4 DEF JobOK, Busy
<1>12. RepoTypeOK'
  BY <1>1, <1>2, <1>3, <1>4, <1>10, <1>11, KeptType, OthersRest DEF RepoInv, RepoTypeOK
<1> QED
  BY <1>1, <1>2, <1>3, <1>7, <1>8, <1>9, <1>10, <1>11, <1>12, OthersRest DEF RepoInv

\* The end of a file that is not renamed, ...
LEMMA EndsRepo ==
    ASSUME RepoInv, NEW p \in Proc, Busy(p), NEW e \in JobType, e.fd = NoFile,
           e.at \in {"send", "succeeded", "failed"},
           e.at = "send" => e.todo # <<>> /\ e.listed \in [File -> 1 .. MaxVersion],
           job' = [job EXCEPT ![p] = e], UNCHANGED <<checked, remote, final>>, Keeping(data),
           part' \in [File -> Place], \A f \in File : part'[f] \in {part[f], NoFile}
    PROVE  RepoInv'
<1>1. /\ job' \in [Proc -> JobType] /\ job'[p] = e
      /\ \A q \in Proc \ {p} : job'[q] = job[q] /\ ~ Busy(q)
  BY JobFacts DEF RepoInv, RepoTypeOK
<1>2. RepoTypeOK'
  BY <1>1, KeptType DEF RepoInv, RepoTypeOK
<1>3. ASSUME NEW i \in Inode,
             \/ \E f \in File : i \in {final'[f], part'[f]}
             \/ \E q \in Proc : i = job'[q].fd
      PROVE  data'[i] = data[i]
  BY <1>3, Kept, ModelsAssumption
<1> QED
  BY <1>1, <1>2, <1>3, Released

LEMMA FileFailsRepo == ASSUME RepoInv, NEW p \in Proc, Busy(p), FileFails(p) PROVE RepoInv'
  BY EndedFacts, EndsRepo DEF FileFails, RepoInv, RepoTypeOK

LEMMA VerifyFailsRepo == ASSUME RepoInv, NEW p \in Proc, VerifyFails(p) PROVE RepoInv'
<1>1. Busy(p)
  BY DEF VerifyFails, Busy
<1>2. /\ part' \in [File -> Place] /\ \A f \in File : part'[f] \in {part[f], NoFile}
  BY DEF VerifyFails, RepoInv, RepoTypeOK, Place
<1> QED
  BY <1>1, <1>2, EndedFacts, EndsRepo DEF VerifyFails

LEMMA DownloadRepo == ASSUME RepoInv, NEW p \in Proc, Download(p) PROVE RepoInv'
<1>1. CASE AnswerFails(p) \/ ReceiveFails(p) \/ RenameFails(p)
  BY <1>1, FileFailsRepo DEF AnswerFails, ReceiveFails, RenameFails, Busy
<1> QED
  BY <1>1, SendRepo, PastTheEndRepo, ResumesRepo, StartsOverRepo, ReceiveChunkRepo,
     ReceivedAllRepo, VerifyPassesRepo, VerifyFailsRepo, RemoveOldRepo, RenameRepo
     DEF Download

\* ... a download begun when there is no other, ...
LEMMA AddRepo ==
    ASSUME RepoInv, Together = 1, NEW p \in Proc, NEW files \in Selection[p], Add(p, files)
    PROVE  RepoInv'
<1> DEFINE todo == ToDownload(p, files)
           j == IF todo = <<>> THEN Resting
                ELSE [Resting EXCEPT !.at = "send", !.todo = todo, !.listed = remote]
<1>1. todo \in Seq(File)
  <2>1. files \in Seq(File)
    BY ModelsAssumption
  <2> QED
    BY <2>1, ChosenElements DEF ToDownload
<1>2. \A q \in Proc : ~ Busy(q)
  <2> DEFINE B == {q \in Proc : Busy(q)}
  <2>1. IsFiniteSet(B)
    BY ModelsAssumption, FS_Subset
  <2>2. Cardinality(B) < 1
    BY DEF Add
  <2>3. B = {}
    BY <2>1, <2>2, FS_CardinalityType, FS_EmptySet
  <2> QED
    BY <2>3
<1>3. remote \in [File -> Nat] /\ remote \in [File -> 1 .. MaxVersion]
  BY ModelsAssumption DEF RepoInv, RepoTypeOK
<1>4. job' = [job EXCEPT ![p] = j] /\ UNCHANGED <<checked, remote, repo, final, part, data, crashes>>
  BY DEF Add
<1> HIDE DEF todo
<1>5. j \in JobType
  BY <1>1, <1>3 DEF Resting, JobType, At, Place
<1>6. /\ j.fd = NoFile /\ j.at \in {"send", "succeeded"}
      /\ j.at = "send" => j.todo # <<>> /\ j.listed = remote
  <2>1. CASE todo = <<>>
    BY <2>1, RestingType
  <2>2. CASE todo # <<>>
    BY <2>2 DEF Resting
  <2> QED
    BY <2>1, <2>2
<1> HIDE DEF j
<1>7. /\ job' \in [Proc -> JobType] /\ job'[p] = j
      /\ \A q \in Proc \ {p} : job'[q] = job[q]
  BY <1>4, <1>5 DEF RepoInv, RepoTypeOK
<1>8. RepoTypeOK'
  BY <1>4, <1>7 DEF RepoInv, RepoTypeOK
<1> QED
  BY <1>2, <1>3, <1>4, <1>6, <1>7, <1>8, Released

\* ... a removal, by a program that does not download, ...
LEMMA RemovedRepo ==
    ASSUME RepoInv, NEW p \in Proc, ~ Busy(p), UNCHANGED <<checked, remote, job>>, Keeping(data),
           final' \in [File -> Place], \A f \in File : final'[f] \in {final[f], NoFile},
           part' \in [File -> Place], \A f \in File : part'[f] \in {part[f], NoFile}
    PROVE  RepoInv'
<1>1. RepoTypeOK'
  BY KeptType DEF RepoInv, RepoTypeOK
<1>2. ASSUME NEW i \in Inode,
             \/ \E f \in File : i \in {final'[f], part'[f]}
             \/ \E q \in Proc : i = job'[q].fd
      PROVE  data'[i] = data[i]
  BY <1>2, Kept, ModelsAssumption
<1>3. job[p].fd = NoFile /\ job[p].at \in {"succeeded", "failed"}
  BY JobFacts DEF OpenOK, Busy
<1> QED
  BY <1>1, <1>2, <1>3, Released

LEMMA DeleteRepoRepo == ASSUME RepoInv, NEW p \in Proc, DeleteRepo(p) PROVE RepoInv'
<1>1. NoFile \in Place
  BY DEF Place
<1> QED
  BY <1>1, RemovedRepo DEF DeleteRepo

LEMMA DeleteFilesRepo ==
    ASSUME RepoInv, NEW p \in Proc, NEW files, DeleteFiles(p, files)
    PROVE  RepoInv'
<1>1. NoFile \in Place
  BY DEF Place
<1>2. final' = [f \in File |-> IF f \in files THEN NoFile ELSE final[f]]
  BY DEF DeleteFiles
<1>3. final' \in [File -> Place] /\ \A f \in File : final'[f] \in {final[f], NoFile}
  BY <1>1, <1>2 DEF RepoInv, RepoTypeOK
<1>4. part' \in [File -> Place] /\ \A f \in File : part'[f] \in {part[f], NoFile}
  BY DEF DeleteFiles, RepoInv, RepoTypeOK
<1> QED
  BY <1>3, <1>4, RemovedRepo DEF DeleteFiles

\* ... and a program that is killed.
LEMMA KilledRepo ==
    ASSUME RepoInv, NEW p \in Proc, NEW e \in JobType, e.fd = NoFile,
           e.at \in {"succeeded", "failed"}, job' = [job EXCEPT ![p] = e],
           UNCHANGED <<checked, remote, final, part>>, Keeping(data)
    PROVE  RepoInv'
<1>1. /\ job' \in [Proc -> JobType] /\ job'[p] = e
      /\ \A q \in Proc \ {p} : job'[q] = job[q]
  BY DEF RepoInv, RepoTypeOK
<1>2. RepoTypeOK'
  BY <1>1, KeptType DEF RepoInv, RepoTypeOK
<1>3. ASSUME NEW i \in Inode,
             \/ \E f \in File : i \in {final'[f], part'[f]}
             \/ \E q \in Proc : i = job'[q].fd
      PROVE  data'[i] = data[i]
  BY <1>3, Kept, ModelsAssumption
<1> QED
  BY <1>1, <1>2, <1>3, Released

LEMMA CrashRepo == ASSUME RepoInv, NEW p \in Proc, Crash(p) PROVE RepoInv'
<1> DEFINE e == [Resting EXCEPT !.at = "failed"]
<1>1. e \in JobType /\ e.fd = NoFile /\ e.at = "failed"
  <2>1. e \in JobType
    BY RestingType DEF JobType, At
  <2> QED
    BY <2>1, RestingType DEF Resting
<1>2. job' = [job EXCEPT ![p] = e]
  BY DEF Crash
<1> HIDE DEF e
<1> QED
  BY <1>1, <1>2, KilledRepo DEF Crash

LEMMA BridgeDiesRepo == ASSUME RepoInv, BridgeDies PROVE RepoInv'
  BY RestingType, KilledRepo, ModelsAssumption DEF BridgeDies

\* A new version makes less of what is there the first one.
LEMMA PublishRepo == ASSUME RepoInv, NEW f \in File, Publish(f) PROVE RepoInv'
<1>1. /\ remote' = [remote EXCEPT ![f] = remote[f] + 1] /\ remote[f] < MaxVersion
      /\ UNCHANGED <<checked, repo, final, part, data, job, crashes>>
  BY DEF Publish
<1>2. remote' \in [File -> 1 .. MaxVersion] /\ \A g \in File : remote'[g] = 1 => remote[g] = 1
  BY <1>1, ModelsAssumption DEF RepoInv, RepoTypeOK
<1>3. RepoTypeOK' /\ NamesInv' /\ OneJob'
  BY <1>1, <1>2 DEF RepoInv, RepoTypeOK, NamesInv, OneJob, Busy
<1>4. PartsInv' /\ FinalsInv'
  BY <1>1, <1>2 DEF RepoInv, PartsInv, FinalsInv, VerifiedFilesAreWhole, ResumedFilesAreWhole, WholeAt
<1>5. ASSUME NEW p \in Proc PROVE OpenOK(job[p])' /\ (Busy(p)' => JobOK(job[p])')
  <2>1. OpenOK(job[p]) /\ (Busy(p) => JobOK(job[p]) /\ Now(p) \in File)
    BY JobFacts
  <2> QED
    BY <1>1, <1>2, <2>1 DEF OpenOK, JobOK, Busy, Now
<1> QED
  BY <1>3, <1>4, <1>5 DEF RepoInv

LEMMA UnchangedRepo == ASSUME RepoInv, UNCHANGED modelVars PROVE RepoInv'
  BY ZenonT(30) DEF modelVars, RepoInv, RepoTypeOK, NamesInv, PartsInv, OneJob, OpenOK, JobOK, FinalsInv,
         VerifiedFilesAreWhole, ResumedFilesAreWhole, WholeAt, Busy

LEMMA NextRepo == ASSUME RepoInv, Together = 1, [Next]_vars PROVE RepoInv'
<1>1. CASE Handle
  <2>1. ASSUME NEW files \in Selection[Bridge], StartAdd(files) PROVE RepoInv'
    BY <2>1, AddRepo, ModelsAssumption DEF StartAdd
  <2>2. CASE Adding
    BY <2>2, DownloadRepo, ModelsAssumption DEF Adding
  <2>3. CASE RemoveModel
    BY <2>3, DeleteRepoRepo, DeleteFilesRepo, ModelsAssumption DEF RemoveModel
  <2>4. CASE UNCHANGED modelVars
    BY <2>4, UnchangedRepo
  <2>5. \/ \E files \in Selection[Bridge] : StartAdd(files)
        \/ Adding \/ RemoveModel \/ UNCHANGED modelVars
    BY <1>1
    DEF Handle, Refuse, List, Answered, Initialize, ListTools, ListAgents, ListConfigs, CheckConfig,
        SetDefaults, ListModels, ShowModel, ListServers, StartRun, EndRun, AddRefused, EndAdd,
        Install, RemoveAgent, InitConfig, RemoveConfig, StartServer, StopServer
  <2> QED
    BY <2>1, <2>2, <2>3, <2>4, <2>5
<1>2. ASSUME NEW p \in Proc \ {Bridge}, CommandLine(p) PROVE RepoInv'
  BY <1>2, AddRepo, DeleteRepoRepo, DeleteFilesRepo, DownloadRepo, CrashRepo DEF CommandLine
<1>3. CASE BridgeDies
  BY <1>3, BridgeDiesRepo
<1>4. ASSUME NEW f \in File, Publish(f) PROVE RepoInv'
  BY <1>4, PublishRepo
<1>5. CASE \/ \E kind \in Kind : ReadLine(kind)
           \/ AgentReports \/ \E w \in watch : WatchEnds(w)
           \/ ServerBinds \/ LoadFails \/ ServerEnds \/ Cli \/ UNCHANGED vars
  BY <1>5, UnchangedRepo
  DEF ReadLine, AgentReports, WatchEnds, Reports, ServerBinds, LoadFails, ServerEnds, Cli, vars,
      CliRunServer, CliStopServer, CliRemoveAgent, CliOverwrites, CliCopies, CliInstall
<1> QED
  BY <1>1, <1>2, <1>3, <1>4, <1>5 DEF Next

LEMMA RepoInvariant == Together = 1 => (Spec => []RepoInv)
<1> SUFFICES ASSUME Together = 1 PROVE Spec => []RepoInv
  OBVIOUS
<1>1. RepoInv /\ [Next]_vars => RepoInv'
  BY NextRepo
<1> QED
  BY <1>1, InitRepo, PTL DEF Spec

\* A file with a hash is, under its own name, a whole version of the remote file, however
\* often downloads break off, are killed and are tried again, new versions appear, and the
\* other programs remove files meanwhile.
THEOREM VerifiedIsWhole ==
  ASSUME Together = 1
  PROVE  Spec => []VerifiedFilesAreWhole
<1>1. RepoInv => VerifiedFilesAreWhole
  BY DEF RepoInv, FinalsInv
<1> QED
  BY <1>1, RepoInvariant, PTL

\* And a file without one, put together from any number of resumed downloads, is whole
\* while the remote file has not changed.
THEOREM ResumedIsWhole ==
  ASSUME Together = 1
  PROVE  Spec => []ResumedFilesAreWhole
<1>1. RepoInv => ResumedFilesAreWhole
  BY DEF RepoInv, FinalsInv
<1> QED
  BY <1>1, RepoInvariant, PTL
=============================================================================
