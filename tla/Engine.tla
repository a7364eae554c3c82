------------------------------- MODULE Engine -------------------------------
(***************************************************************************)
(* The inference engine of server/engine/mod.rs and the HTTP handlers of   *)
(* server/routes.rs that talk to it.  The engine is one thread that calls  *)
(* pull() for ever; the handlers run beside it: they read and write the    *)
(* session table under its lock, and send requests over a bounded channel. *)
(* One pull goes through the phases                                        *)
(*                                                                         *)
(*   drain     push what is in the channel                                 *)
(*   prep      collect results of the multimodal preparation worker        *)
(*   actions   process_state_actions, one pending action after the other   *)
(*   schedule  schedule_requests, one queued request after the other       *)
(*   step      build a batch, decode it, sample, retire finished slots     *)
(*                                                                         *)
(* and every handler may run between any two of the steps below.           *)
(***************************************************************************)
EXTENDS KvCache, FiniteSets

CONSTANTS NReq,        \* chat requests, numbered in the order their clients made them
          SessionOf,   \* SessionOf[r]: the session id of request r, Null without one
          ParentOf,    \* ParentOf[r]: the request r forks from, Null without one
          Images,      \* requests whose prompt starts with an image
          PromptLen,   \* text tokens of every prompt
          MaxTokens,   \* max_output_tokens of every request
          ChanCap,     \* capacity of the engine channel
          NBatch,      \* min(n_batch, n_ubatch)
          Actions,     \* state actions clients ask for: subset of {"save", "idle", "delete"}
          TemplatesOf, \* TemplatesOf[s]: the template ids session s is saved under
          ActionBudget,\* how many of them, and of restarts (bounds the model)
          Serial,      \* a client waits for the answer before its session's next turn
          Faults       \* what can fail: subset of {"evict", "save", "decode", "restart"}

Req == 1 .. NReq

ASSUME EngineAssumption ==
  /\ NReq \in Nat
  /\ SessionOf \in [Req -> Session \cup {Null}]
  /\ ParentOf \in [Req -> Req \cup {Null}]
  /\ Images \subseteq Req
  /\ PromptLen \in Nat \ {0} /\ MaxTokens \in Nat /\ ChanCap \in Nat \ {0}
  /\ NBatch \in Nat /\ NBatch > NSeq
  /\ Actions \subseteq {"save", "idle", "delete"}
  /\ TemplatesOf \in [Session -> SUBSET Template]
  /\ ActionBudget \in Nat
  /\ Serial \in BOOLEAN
  /\ Faults \subseteq {"evict", "save", "decode", "restart"}

VARIABLES cache,    \* the session table and the llama.cpp context
          chan,     \* the channel from the handlers to the engine
          queue,    \* RequestQueue::pending
          slots,    \* slots[q]: the request of sequence q's slot, Null when it is free
          req,      \* req[r]: the request, see NewRequest
          answer,   \* answer[r]: what the handler of r was sent last: "none", "finish", "error"
          phase,    \* where pull() is
          todo,     \* actions process_state_actions has taken a copy of
          acting,   \* the one of them that is done and not cleared yet, or Null
          budget    \* state actions and restarts still to come

workVars == <<queue, slots, req, answer>>
pullVars == <<phase, todo, acting>>
vars == <<cache, chan, queue, slots, req, answer, phase, todo, acting, budget>>

\* st is the request's way through the server; sys, whether the handler put the system
\* prompt in; off, pos_offset; n, the prompt items in the KV cache; gen, the tokens sampled.
NewRequest == [st |-> "new", sys |-> FALSE, off |-> 0, n |-> 0, gen |-> 0]

RequestState ==
  {"new", "built", "sent", "preparing", "waiting", "processing", "gone"}

\* The parts of a prompt: an image, if there is one, then the text tokens.
PromptItems(r) == PromptLen + IF r \in Images THEN 1 ELSE 0

Free == {q \in SeqId : slots[q] = Null}
Active == SeqId \ Free
ActiveOf(s) == {q \in Active : SessionOf[slots[q]] = s}

Init ==
  /\ \E unified \in BOOLEAN : cache = EmptyCache(unified)
  /\ chan = <<>>
  /\ queue = <<>>
  /\ slots = [q \in SeqId |-> Null]
  /\ req = [r \in Req |-> NewRequest]
  /\ answer = [r \in Req |-> "none"]
  /\ phase = "drain"
  /\ todo = {}
  /\ acting = Null
  /\ budget = ActionBudget

(***************************************************************************)
(* The handlers.                                                           *)
(***************************************************************************)

\* should_apply_system_prompt.
ApplySystemPrompt(s) ==
  \/ s = Null
  \/ s \notin Registered(cache)
  \/ cache.sess[s].ntok = 0

MayAsk(r) ==
  Serial /\ SessionOf[r] # Null =>
    \A p \in 1 .. r - 1 : SessionOf[p] = SessionOf[r] => answer[p] # "none"

\* chat_completions up to the channel: the prompt is built, with or without the system
\* prompt, from what the session table says now.
BuildPrompt(r) ==
  /\ req[r].st = "new"
  /\ MayAsk(r)
  /\ req' = [req EXCEPT ![r].st = "built", ![r].sys = ApplySystemPrompt(SessionOf[r])]
  /\ UNCHANGED <<cache, chan, queue, slots, answer, pullVars, budget>>

\* engine_tx.send(req).await: waits for room in the channel.
Send(r) ==
  /\ req[r].st = "built"
  /\ Len(chan) < ChanCap
  /\ chan' = Append(chan, r)
  /\ req' = [req EXCEPT ![r].st = "sent"]
  /\ UNCHANGED <<cache, queue, slots, answer, pullVars, budget>>

StateAction ==
  [kind : {"save"} \cap Actions, path : Template]
    \cup [kind : {"idle", "delete"} \cap Actions, path : {Null}]

\* save_state, idle_state and delete_state of a registered session: answered 202.
AskForAction(s, a) ==
  /\ budget > 0
  /\ s \in Registered(cache)
  /\ a.kind = "save" => a.path \in TemplatesOf[s]
  /\ cache' = [cache EXCEPT !.sess[s].pending = a]
  /\ budget' = budget - 1
  /\ UNCHANGED <<chan, workVars, pullVars>>

Handlers ==
  \/ \E r \in Req : BuildPrompt(r) \/ Send(r)
  \/ \E s \in Session : \E a \in StateAction : AskForAction(s, a)

(***************************************************************************)
(* pull(): the channel and the preparation worker.                         *)
(***************************************************************************)

\* push of the next request in the channel: an image goes to the preparation worker,
\* a text prompt is tokenized and queued.
Receive ==
  /\ phase = "drain"
  /\ chan # <<>>
  /\ LET r == Head(chan)
     IN  IF r \in Images
           THEN /\ req' = [req EXCEPT ![r].st = "preparing"]
                /\ UNCHANGED queue
           ELSE /\ req' = [req EXCEPT ![r].st = "waiting"]
                /\ queue' = Append(queue, r)
  /\ chan' = Tail(chan)
  /\ UNCHANGED <<cache, slots, answer, pullVars, budget>>

Drained ==
  /\ phase = "drain"
  /\ chan = <<>>
  /\ phase' = "prep"
  /\ UNCHANGED <<cache, chan, workVars, todo, acting, budget>>

\* A wrong collection: an error is answered and the request queued all the same.
CollectPrepQueued(r) ==
  /\ phase = "prep"
  /\ req[r].st = "preparing"
  /\ req' = [req EXCEPT ![r].st = "waiting"]
  /\ queue' = Append(queue, r)
  /\ answer' \in {answer, [answer EXCEPT ![r] = "error"]}
  /\ UNCHANGED <<cache, chan, slots, pullVars, budget>>

\* Another: an error is not answered.
CollectPrepSilent(r) ==
  /\ phase = "prep"
  /\ req[r].st = "preparing"
  /\ \/ req' = [req EXCEPT ![r].st = "waiting"] /\ queue' = Append(queue, r)
     \/ req' = [req EXCEPT ![r].st = "gone"] /\ UNCHANGED queue
  /\ UNCHANGED <<cache, chan, slots, answer, pullVars, budget>>

\* A result of the worker: the request is queued, or answered with the error.
CollectPrep(r) ==
  /\ phase = "prep"
  /\ req[r].st = "preparing"
  /\ \/ /\ req' = [req EXCEPT ![r].st = "waiting"]
        /\ queue' = Append(queue, r)
        /\ UNCHANGED answer
     \/ /\ req' = [req EXCEPT ![r].st = "gone"]
        /\ answer' = [answer EXCEPT ![r] = "error"]
        /\ UNCHANGED queue
  /\ UNCHANGED <<cache, chan, slots, pullVars, budget>>

(***************************************************************************)
(* process_state_actions.                                                  *)
(***************************************************************************)

\* The pending actions are copied under the read lock ...
CopyActions ==
  /\ phase = "prep"
  /\ todo' = {<<s, cache.sess[s].pending>> :
                s \in {t \in Registered(cache) : cache.sess[t].pending # Null}}
  /\ phase' = IF todo' = {} THEN "schedule" ELSE "actions"
  /\ UNCHANGED <<cache, chan, workVars, acting, budget>>

NextAction(s, a) ==
  /\ phase = "actions"
  /\ acting = Null
  /\ <<s, a>> \in todo
  /\ acting' = <<s, a>>
  /\ todo' = todo \ {<<s, a>>}

\* The sequence a save or an idle of s reads: that of a slot of the session, else the
\* one the session owns.
Source(s) ==
  IF ActiveOf(s) # {} THEN ActiveOf(s)
  ELSE IF s \in Registered(cache) /\ cache.sess[s].vram # Null THEN {cache.sess[s].vram}
  ELSE {}

\* Action::Save: from the sequence, or from the RAM snapshot when there is no sequence
\* or (no slot being active) reading it fails.
Save(s, a) ==
  /\ NextAction(s, a)
  /\ a.kind = "save"
  /\ LET failures(c) == IF "save" \in Faults THEN SaveFailures(c, s, a.path) ELSE {}
         fromRam(c) == IF c.sess[s].ram = Null THEN {c}
                       ELSE {SavedRamToDisk(c, s, a.path)} \cup failures(c)
     IN  \/ \E q \in Source(s) : cache' = SavedToDisk(cache, q, s, a.path)
         \/ Source(s) = {} /\ cache' \in fromRam(cache)
         \/ /\ Source(s) # {} /\ "save" \in Faults
            /\ \E c \in {cache} \cup failures(cache) :
                 cache' \in IF ActiveOf(s) = {} THEN fromRam(c) ELSE {c}
  /\ UNCHANGED <<chan, workVars, phase, budget>>

\* Action::Idle: the sequence is evicted; if a slot of the session was active on it, the
\* slot goes, the request stays where it is.
Idle(s, a) ==
  /\ NextAction(s, a)
  /\ a.kind = "idle"
  /\ \/ Source(s) = {} /\ UNCHANGED <<cache, slots>>
     \/ \E q \in Source(s) :
          \/ /\ cache' = Evicted(cache, q, s)
             /\ slots' = IF q \in ActiveOf(s) THEN [slots EXCEPT ![q] = Null] ELSE slots
          \/ /\ "evict" \in Faults
             /\ cache' \in EvictFailures(cache, q, s)
             /\ UNCHANGED slots
  /\ UNCHANGED <<chan, queue, req, answer, phase, budget>>

\* Action::Delete: the sequence is cleared, the slot and the session go, and with the
\* session the file at its path.
Delete(s, a) ==
  /\ NextAction(s, a)
  /\ a.kind = "delete"
  /\ LET Gone(c) == [c EXCEPT !.sess[s] = Null, !.file[c.sess[s].path] = Null]
     IN  \/ Source(s) = {} /\ cache' = Gone(cache) /\ UNCHANGED slots
         \/ \E q \in Source(s) :
              /\ cache' = Gone(ClearSequence(cache, q))
              /\ slots' = IF q \in ActiveOf(s) THEN [slots EXCEPT ![q] = Null] ELSE slots
  /\ UNCHANGED <<chan, queue, req, answer, phase, budget>>

\* ... and cleared afterwards, whatever is pending by then.
ClearAction ==
  /\ phase = "actions"
  /\ acting # Null
  /\ LET s == acting[1]
     IN  cache' = IF s \in Registered(cache)
                    THEN [cache EXCEPT !.sess[s].pending = Null] ELSE cache
  /\ acting' = Null
  /\ phase' = IF todo = {} THEN "schedule" ELSE "actions"
  /\ UNCHANGED <<chan, workVars, todo, budget>>

(***************************************************************************)
(* schedule_requests.                                                      *)
(***************************************************************************)

\* A wrong choice: sequences are counted from 1.
TargetFromOne(s) ==
  IF s # Null /\ s \in Registered(cache) /\ cache.sess[s].vram \in Free
    THEN cache.sess[s].vram
    ELSE CHOOSE q \in (1 .. NSeq) \ Active : \A p \in (1 .. NSeq) \ Active : q <= p

\* The sequence for a request of session s: the one the session owns, if it is free,
\* else the lowest free one.
Target(s) ==
  IF s # Null /\ s \in Registered(cache) /\ cache.sess[s].vram \in Free
    THEN cache.sess[s].vram
    ELSE CHOOSE q \in Free : \A p \in Free : q <= p

ParentSlots(r) == {p \in Active : ParentOf[r] # Null /\ slots[p] = ParentOf[r]}

\* What the sequence q holds when request r starts on it, and the position r starts at.
\* A fork gets the cells of its parent's sequence; a session continues where it was, in
\* its sequence or restored from a snapshot; everything else starts on a cleared sequence.
Placed(c, q, r) ==
  LET s == SessionOf[r]
      known == IF s = Null THEN c ELSE Register(c, s)
      forked(p) == SetVramSeq([c EXCEPT !.kv[q] = @ \o c.kv[p]], s, q)
  IN  IF ParentSlots(r) # {}
        THEN [cache |-> forked(CHOOSE p \in ParentSlots(r) : TRUE), off |-> 0]
      ELSE IF s # Null /\ known.sess[s].vram = q
        THEN [cache |-> known, off |-> known.sess[s].head]
      ELSE IF s # Null /\ Restorable(known, s)
        THEN [cache |-> Restored(known, q, s), off |-> Restored(known, q, s).sess[s].head]
      ELSE [cache |-> FreshSequence(known, q, s), off |-> 0]

\* evict_seq_owner(q, except s): what the cache can be once the owner of q is out.
OwnerEvicted(q, s) ==
  LET others == Owners(cache, q) \ {s}
  IN  IF others = {} THEN {cache} ELSE {Evicted(cache, q, t) : t \in others}

\* One turn of the loop: the head of the queue gets a slot.
Schedule ==
  /\ phase = "schedule"
  /\ Free # {} /\ queue # <<>>
  /\ LET r == Head(queue)
         q == Target(SessionOf[r])
     IN  \E c \in OwnerEvicted(q, SessionOf[r]) :
           LET placed == Placed(c, q, r)
           IN  /\ cache' = placed.cache
               /\ slots' = [slots EXCEPT ![q] = r]
               /\ req' = [req EXCEPT ![r].off = placed.off]
  /\ queue' = Tail(queue)
  /\ UNCHANGED <<chan, answer, pullVars, budget>>

\* A wrong retreat: the request is not put back.
ScheduleFailsDropped ==
  /\ phase = "schedule"
  /\ "evict" \in Faults
  /\ Free # {} /\ queue # <<>>
  /\ LET s == SessionOf[Head(queue)]
         q == Target(s)
     IN  \E t \in Owners(cache, q) \ {s} : cache' \in EvictFailures(cache, q, t)
  /\ queue' = Tail(queue)
  /\ phase' = "step"
  /\ UNCHANGED <<chan, slots, req, answer, todo, acting, budget>>

\* The owner of the target sequence cannot be evicted: the request goes back to the
\* front and scheduling is over for this pull.
ScheduleFails ==
  /\ phase = "schedule"
  /\ "evict" \in Faults
  /\ Free # {} /\ queue # <<>>
  /\ LET s == SessionOf[Head(queue)]
         q == Target(s)
     IN  \E t \in Owners(cache, q) \ {s} : cache' \in EvictFailures(cache, q, t)
  /\ phase' = "step"
  /\ UNCHANGED <<chan, workVars, todo, acting, budget>>

Scheduled ==
  /\ phase = "schedule"
  /\ Free = {} \/ queue = <<>>
  /\ phase' = "step"
  /\ UNCHANGED <<cache, chan, workVars, todo, acting, budget>>

(***************************************************************************)
(* The rest of pull(): decode, sample, retire.                             *)
(***************************************************************************)

InState(st) == {q \in Active : req[slots[q]].st = st}

\* The slots whose next prompt item is an image, and those whose next is a text token.
AtImage == {q \in InState("waiting") : slots[q] \in Images /\ req[slots[q]].n = 0}
AtText == InState("waiting") \ AtImage

\* Text tokens left to prefill.
Left(q) == PromptItems(slots[q]) - req[slots[q]].n

Room == NBatch - Cardinality(InState("processing"))
Used(take) == Cardinality({b \in AtText \X (1 .. Room) : b[2] <= take[b[1]]})

\* The ways the prefill budget can be spent: on one slot after the other, in any order.
Prefills ==
  {take \in [AtText -> 0 .. Room] :
     /\ \A q \in AtText : take[q] <= Left(q)
     /\ Used(take) <= Room
     /\ Used(take) < Room => \A q \in AtText : take[q] = Left(q)
     /\ Cardinality({q \in AtText : 0 < take[q] /\ take[q] < Left(q)}) <= 1}

\* The cells a batch adds to sequence q: prefilled tokens, or the token sampled last.
BatchCells(q, take) ==
  LET r == slots[q]
  IN  IF q \in AtText
        THEN [i \in 1 .. take[q] |-> [pos |-> req[r].off + req[r].n + i - 1, of |-> r]]
      ELSE IF q \in InState("processing")
        THEN <<[pos |-> req[r].off + PromptItems(r) + req[r].gen - 1, of |-> r]>>
      ELSE <<>>

ImageCell(q) == [pos |-> req[slots[q]].off, of |-> slots[q]]

\* The slots whose logits are sampled, and the ways sampling can end some of them: at
\* max_output_tokens it must, at an end-of-generation token it does.
Sampled(take) ==
  InState("processing") \cup {q \in AtText : take[q] = Left(q)}

Stops(take) ==
  {S \in SUBSET Sampled(take) :
     \A q \in Sampled(take) : req[slots[q]].gen >= MaxTokens => q \in S}

\* The image slot evaluated in this pull, with its outcome.  An image is found when the
\* prefill pass gets to it before the budget is spent.
MmEvals(take) ==
  AtImage \X {"ok", "failed"}
    \cup IF AtImage = {} \/ Used(take) = Room THEN {<<Null, "ok">>} ELSE {}

Evaluated(mm) == IF mm[2] = "ok" THEN {mm[1]} \ {Null} ELSE {}
Aborted(mm) == IF mm[2] = "failed" THEN {mm[1]} ELSE {}

\* The tokens of a batch: sequence, index.
BatchTokens(take) ==
  {b \in Active \X (1 .. NBatch) : b[2] \in DOMAIN BatchCells(b[1], take)}

\* A wrong step: sampled tokens are not counted when they are decoded.
CountedPromptOnly(s, take) ==
  Cardinality({b \in BatchTokens(take) : SessionOf[slots[b[1]]] = s /\ b[1] \in AtText})

\* The tokens a batch adds to the counters of session s.
Counted(s, take) ==
  Cardinality({b \in BatchTokens(take) : SessionOf[slots[b[1]]] = s})

\* The cache after the batch is decoded and the image evaluated: an image counts in the
\* head of its session and not in its tokens.
Decoded(take, mm) ==
  [cache EXCEPT
     !.kv = [q \in SeqId |->
               IF q \in Free THEN cache.kv[q]
               ELSE IF q = mm[1] THEN Append(cache.kv[q], ImageCell(q))
               ELSE cache.kv[q] \o BatchCells(q, take)],
     !.sess = [s \in Session |->
                 IF s \in Registered(cache)
                   THEN [cache.sess[s] EXCEPT
                           !.head = @ + Counted(s, take)
                                      + Cardinality(ActiveOf(s) \cap Evaluated(mm)),
                           !.ntok = @ + Counted(s, take)]
                   ELSE Null]]

\* The request of slot q once the batch is through.
Progressed(q, take, mm, stops) ==
  LET r == slots[q]
  IN  IF q \in stops \cup Aborted(mm) THEN [req[r] EXCEPT !.st = "gone"]
      ELSE IF q \in Sampled(take)
        THEN [req[r] EXCEPT !.st = "processing", !.n = PromptItems(r), !.gen = @ + 1]
      ELSE IF q \in AtText THEN [req[r] EXCEPT !.n = @ + take[q]]
      ELSE IF q \in Evaluated(mm) THEN [req[r] EXCEPT !.n = 1]
      ELSE req[r]

SlotOf(r) == CHOOSE q \in Active : slots[q] = r

\* The effects of a batch that was decoded.
AfterBatch(take, stops, mm) ==
  /\ cache' = IF mm[2] = "failed"
                THEN ReleaseSequence(ClearSequence(Decoded(take, mm), mm[1]), mm[1])
                ELSE Decoded(take, mm)
  /\ req' = [r \in Req |-> IF \E q \in Active : slots[q] = r
                             THEN Progressed(SlotOf(r), take, mm, stops) ELSE req[r]]
  /\ slots' = [q \in SeqId |-> IF q \in stops \cup Aborted(mm) THEN Null ELSE slots[q]]
  /\ answer' = [r \in Req |->
       IF \E q \in stops : slots[q] = r THEN "finish"
       ELSE IF \E q \in Aborted(mm) : slots[q] = r THEN "error"
       ELSE answer[r]]

Step ==
  /\ phase = "step"
  /\ \E take \in Prefills : \E stops \in Stops(take) : \E mm \in MmEvals(take) :
       AfterBatch(take, stops, mm)
  /\ phase' = "drain"
  /\ UNCHANGED <<chan, queue, todo, acting, budget>>

\* decode() fails: pull() returns the error and the same batch is built again.
StepFails ==
  /\ phase = "step"
  /\ "decode" \in Faults
  /\ InState("processing") \cup AtText # {}
  /\ phase' = "drain"
  /\ UNCHANGED <<cache, chan, workVars, todo, acting, budget>>

Actioned == \E s \in Session : \E a \in StateAction : Save(s, a) \/ Idle(s, a) \/ Delete(s, a)

(***************************************************************************)
(* The server process is killed and started again: what is left is the     *)
(* state files.  Its clients see their connections close.                  *)
(***************************************************************************)
InFlight == {r \in Req : req[r].st \notin {"new", "gone"}}

Restart ==
  /\ "restart" \in Faults
  /\ budget > 0
  /\ cache' = [EmptyCache(cache.unified) EXCEPT !.file = cache.file]
  /\ chan' = <<>>
  /\ queue' = <<>>
  /\ slots' = [q \in SeqId |-> Null]
  /\ req' = [r \in Req |-> IF r \in InFlight THEN [req[r] EXCEPT !.st = "gone"] ELSE req[r]]
  /\ answer' = [r \in Req |-> IF r \in InFlight THEN "error" ELSE answer[r]]
  /\ phase' = "drain"
  /\ todo' = {}
  /\ acting' = Null
  /\ budget' = budget - 1

Pull ==
  \/ Receive \/ Drained
  \/ \E r \in Req : CollectPrep(r)
  \/ CopyActions \/ Actioned \/ ClearAction
  \/ Schedule \/ ScheduleFails \/ Scheduled
  \/ Step \/ StepFails

Next == Handlers \/ Pull \/ Restart

Spec == Init /\ [][Next]_vars

\* The engine thread calls pull() for ever and a blocked send is woken up; the
\* preparation worker answers every job it takes.  The last two conjuncts assume that
\* what can fail, decoding and making room for a request, does not fail for ever.
FairSpec ==
  /\ Spec
  /\ WF_vars(Pull)
  /\ \A r \in Req : WF_vars(Send(r)) /\ SF_vars(CollectPrep(r))
  /\ SF_vars(Step) /\ SF_vars(Schedule)

(***************************************************************************)
(* Properties.                                                             *)
(***************************************************************************)

Cell == [pos : Nat, of : Req]
SnapshotType == [data : Seq(Cell), head : Nat]
SessionType ==
  [tier : Tier, vram : SeqId \cup {Null}, ram : SnapshotType \cup {Null}, path : Path,
   pending : StateAction \cup {Null}, head : Nat, ntok : Nat]

\* Null, which stands for the lack of each of these, is none of them.
ASSUME NullAssumption ==
  /\ Null \notin SnapshotType
  /\ Null \notin SessionType
  /\ Null \notin StateAction
  /\ Null \notin Seq(Cell)

CacheType ==
  [sess : [Session -> SessionType \cup {Null}],
   kv : [SeqId -> Seq(Cell)],
   file : [Path -> SnapshotType \cup {Null}],
   unified : BOOLEAN]

RequestType == [st : RequestState, sys : BOOLEAN, off : Nat, n : Nat, gen : Nat]

\* TypeOK: every variable has its type.
TypeOK ==
  /\ cache \in CacheType
  /\ chan \in Seq(Req)
  /\ queue \in Seq(Req)
  /\ slots \in [SeqId -> Req \cup {Null}]
  /\ req \in [Req -> RequestType]
  /\ answer \in [Req -> {"none", "finish", "error"}]
  /\ phase \in {"drain", "prep", "actions", "schedule", "step"}
  /\ todo \subseteq Session \X StateAction
  /\ acting \in (Session \X StateAction) \cup {Null}
  /\ budget \in Nat

\* A sequence of the context belongs to at most one session, whatever is evicted,
\* restored, forked, idled and deleted.
VramExclusive == ExclusiveIn(cache)

InChan(r) == {i \in DOMAIN chan : chan[i] = r}
InQueue(r) == {i \in DOMAIN queue : queue[i] = r}
InSlots(r) == {q \in SeqId : slots[q] = r}
Places(r) == Cardinality(InChan(r)) + Cardinality(InQueue(r)) + Cardinality(InSlots(r))

\* A request is worked on in one place at a time, and it is nowhere once it is answered.
OnePlace ==
  \A r \in Req : /\ Places(r) <= 1
                 /\ answer[r] # "none" => Places(r) = 0

\* A request that was sent and not answered is somewhere: in the channel, with the
\* worker, queued, or in a slot.
NothingLost ==
  \A r \in Req : req[r].st \notin {"new", "built", "preparing", "gone"} => Places(r) = 1

\* Every request that is sent gets an answer, a finish or an error.
Answered == \A r \in Req : req[r].st = "sent" ~> answer[r] # "none"

\* Positions are handed out without gaps or repetitions: the head a session is
\* continued from is the number of cells it holds, wherever they are.
Aligned ==
  \A s \in Registered(cache) :
    LET cells == Content(cache, s)
    IN  /\ cache.sess[s].head = Len(cells)
        /\ \A i \in DOMAIN cells : cells[i].pos = i - 1

\* What a client sees of the sessions, whatever moves between the tiers and whoever
\* takes over a sequence, is a log per session: the engine implements SessionLog.
Log == [s \in Session |-> IF s \in Registered(cache) THEN Content(cache, s) ELSE Null]

SessionLogs == INSTANCE SessionLog WITH log <- Log

ImplementsSessionLog == SessionLogs!Spec

\* "Call this endpoint before continuing a prior chat session": a session that GET
\* /state/:id reports is continued at its end, not from scratch.
Continued ==
  [][\A r \in Req :
       LET s == SessionOf[r]
       IN  InSlots(r) = {} /\ InSlots(r)' # {} /\ s # Null /\ Available(cache, s) =>
             /\ req'[r].off = Len(Content(cache, s))
             /\ Content(cache', s) = Content(cache, s)]_vars

\* A slot's sequence holds only what its own conversation put there.
Isolated ==
  \A q \in Active : \A i \in DOMAIN cache.kv[q] :
    LET r == slots[q]
        by == cache.kv[q][i].of
    IN  by = r \/ (SessionOf[r] # Null /\ SessionOf[by] = SessionOf[r])

\* "The worst case is a redundant system prompt on one turn": a conversation that starts
\* from nothing has the system prompt.
SystemPromptFirst ==
  \A q \in Active : req[slots[q]].off = 0 => req[slots[q]].sys

\* "202 Accepted: state mutation requests queued": an action that was accepted stays
\* until it has been carried out.
AcceptedActionsHappen ==
  [][\A s \in Registered(cache) :
       LET asked == cache.sess[s].pending
       IN  \/ asked = Null
           \/ s \in Registered(cache') /\ cache'.sess[s].pending = asked
           \/ <<s, asked>> \in {acting, acting'}]_vars
=============================================================================
