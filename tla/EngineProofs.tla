---------------------------- MODULE EngineProofs ----------------------------
(***************************************************************************)
(* Proofs about module Engine: TypeOK and VramExclusive are invariants for *)
(* every number of requests, sessions and sequences, every prompt and      *)
(* batch size and every choice of faults; then where a request is.         *)
(*                                                                         *)
(* The argument follows the code.  The methods of KvCacheManager come      *)
(* first: each keeps the type of the cache and hands no session a sequence *)
(* (Moves({}, c, d)), except set_vram_seq and restore, which hand one to   *)
(* the session they are called for (Moves({s}, c, d)).  The only caller of *)
(* these two is schedule_requests, after evict_seq_owner has made sure     *)
(* that nobody else owns the sequence.  Then one lemma per action.         *)
(***************************************************************************)
EXTENDS Engine, TLAPS, FiniteSetTheorems, WellFoundedInduction

\* The parts of a cache have the types of its fields.
LEMMA CacheParts ==
  ASSUME NEW c \in CacheType
  PROVE  /\ \A s \in Registered(c) : s \in Session /\ c.sess[s] \in SessionType
         /\ \A q \in SeqId : c.kv[q] \in Seq(Cell)
         /\ \A p \in Path : c.file[p] \in SnapshotType \cup {Null}
BY DEF CacheType, Registered

\* A cleared sequence is a sequence of cells.
LEMMA NoCells == <<>> \in Seq(Cell)
OBVIOUS

\* Writing one entry of the session table.
LEMMA SessUpdate ==
  ASSUME NEW c \in CacheType, NEW s \in Session, NEW e \in SessionType \cup {Null}
  PROVE  LET d == [c EXCEPT !.sess[s] = e]
         IN  /\ d \in CacheType
             /\ d.sess = [c.sess EXCEPT ![s] = e] /\ d.sess[s] = e
             /\ \A t \in Session \ {s} : d.sess[t] = c.sess[t]
BY DEF CacheType

\* Writing the cells of one sequence.
LEMMA KvUpdate ==
  ASSUME NEW c \in CacheType, NEW q \in SeqId, NEW cells \in Seq(Cell)
  PROVE  LET d == [c EXCEPT !.kv[q] = cells]
         IN  d \in CacheType /\ d.sess = c.sess
BY DEF CacheType

\* What both saves do first touches the counters only.
LEMMA ClampedFacts ==
  ASSUME NEW e \in SessionType
  PROVE  /\ Clamped(e) \in SessionType
         /\ Clamped(e).vram = e.vram /\ Clamped(e).ram = e.ram /\ Clamped(e).head \in Nat
BY DEF SessionType, Clamped

\* From cache c to cache d no session but those in S gets a sequence.
TakenOnlyBy(S, c, d) ==
  \A t \in Registered(d) \ S :
    d.sess[t].vram = Null \/ (t \in Registered(c) /\ d.sess[t].vram = c.sess[t].vram)

\* A change of the cache that registers and forgets no session.
Moves(S, c, d) ==
  /\ d \in CacheType
  /\ Registered(d) = Registered(c)
  /\ TakenOnlyBy(S, c, d)

\* The entry of session s has become e, the others are as they were.
OneEntry(s, e, c, d) ==
  d.sess[s] = e /\ \A t \in Session \ {s} : d.sess[t] = c.sess[t]

\* Rewriting the entry of one session hands a sequence to that session at most, and to
\* none if the entry keeps its sequence or gives it up.
LEMMA EntryMoves ==
  ASSUME NEW c \in CacheType, NEW d \in CacheType, NEW s \in Registered(c),
         NEW e \in SessionType, OneEntry(s, e, c, d)
  PROVE  /\ Moves({s}, c, d) /\ d.sess[s] = e
         /\ (e.vram = Null \/ e.vram = c.sess[s].vram) => Moves({}, c, d)
<1>1. s \in Session /\ d.sess[s] = e /\ e # Null
      /\ \A t \in Session \ {s} : d.sess[t] = c.sess[t]
  BY NullAssumption DEF CacheType, Registered, OneEntry
<1>2. Registered(d) = Registered(c)
  BY <1>1 DEF Registered
<1>3. TakenOnlyBy({s}, c, d)
  BY <1>1, <1>2 DEF TakenOnlyBy, Registered
<1>4. (e.vram = Null \/ e.vram = c.sess[s].vram) => TakenOnlyBy({}, c, d)
  BY <1>1, <1>2 DEF TakenOnlyBy, Registered
<1> QED
  BY <1>1, <1>2, <1>3, <1>4 DEF Moves

\* A change outside the session table hands out nothing.
LEMMA SameSessMoves ==
  ASSUME NEW c, NEW d \in CacheType, d.sess = c.sess
  PROVE  Moves({}, c, d)
BY DEF Moves, TakenOnlyBy, Registered

\* A method followed by another one.
LEMMA MovesTransitive ==
  ASSUME NEW S, NEW c, NEW d, NEW f, Moves({}, c, d), Moves(S, d, f)
  PROVE  Moves(S, c, f)
BY DEF Moves, TakenOnlyBy

\* When no sequence is handed out, ownership stays exclusive.
LEMMA NoneTaken ==
  ASSUME NEW c, NEW d, TakenOnlyBy({}, c, d)
  PROVE  /\ \A q \in SeqId : Owners(d, q) \subseteq Owners(c, q)
         /\ ExclusiveIn(c) => ExclusiveIn(d)
BY CacheAssumption DEF TakenOnlyBy, Owners, ExclusiveIn, SeqId

\* When a sequence is handed to one session and nobody else owned it, ownership stays
\* exclusive.
LEMMA OneTaken ==
  ASSUME NEW c, NEW d, NEW q \in SeqId, NEW s, TakenOnlyBy({s}, c, d),
         ExclusiveIn(c), Owners(c, q) \subseteq {s},
         s \in Registered(d) => d.sess[s].vram = q
  PROVE  ExclusiveIn(d)
BY CacheAssumption DEF TakenOnlyBy, Owners, ExclusiveIn, SeqId

\* register_session: a new session owns no sequence.
LEMMA RegisterFacts ==
  ASSUME NEW c \in CacheType, NEW s \in Session
  PROVE  /\ Register(c, s) \in CacheType
         /\ TakenOnlyBy({}, c, Register(c, s))
         /\ s \in Registered(Register(c, s))
         /\ Registered(c) \subseteq Registered(Register(c, s))
<1>1. NewSession(s) \in SessionType
  BY CacheAssumption DEF NewSession, SessionType, Tier, Path
<1>2. NewSession(s).vram = Null
  BY DEF NewSession
<1>3. CASE s \in Registered(c)
  BY <1>3 DEF Register, TakenOnlyBy
<1>4. CASE s \notin Registered(c)
  <2> DEFINE d == [c EXCEPT !.sess[s] = NewSession(s)]
  <2>1. d \in CacheType /\ d.sess[s] = NewSession(s)
        /\ \A t \in Session \ {s} : d.sess[t] = c.sess[t]
    BY <1>1, SessUpdate
  <2>2. Register(c, s) = d
    BY <1>4 DEF Register
  <2>3. NewSession(s) # Null
    BY <1>1, NullAssumption
  <2> QED
    BY <1>2, <2>1, <2>2, <2>3 DEF Registered, TakenOnlyBy
<1> QED
  BY <1>3, <1>4

\* set_vram_seq hands q to s.
LEMMA SetVramSeqFacts ==
  ASSUME NEW c \in CacheType, NEW q \in SeqId, NEW s
  PROVE  /\ Moves({s}, c, SetVramSeq(c, s, q))
         /\ s \in Registered(SetVramSeq(c, s, q)) => SetVramSeq(c, s, q).sess[s].vram = q
<1>1. CASE s \in Registered(c)
  <2> DEFINE e == [c.sess[s] EXCEPT !.vram = q, !.tier = "vram"]
  <2>1. s \in Session /\ c.sess[s] \in SessionType
    BY <1>1, CacheParts
  <2>2. e \in SessionType /\ e.vram = q
    BY <2>1 DEF SessionType, Tier
  <2> DEFINE d == [c EXCEPT !.sess[s] = e]
  <2>3. SetVramSeq(c, s, q) = d
    BY <1>1 DEF SetVramSeq
  <2> HIDE DEF e
  <2>4. d \in CacheType
    BY <2>1, <2>2 DEF CacheType
  <2>5. OneEntry(s, e, c, d)
    BY <2>1, <2>2 DEF CacheType, OneEntry
  <2> HIDE DEF d
  <2> QED
    BY <1>1, <2>2, <2>3, <2>4, <2>5, EntryMoves
<1>2. CASE s \notin Registered(c)
  BY <1>2 DEF SetVramSeq, Moves, TakenOnlyBy
<1> QED
  BY <1>1, <1>2

\* release_sequence hands out nothing.
LEMMA ReleaseSequenceFacts ==
  ASSUME NEW c \in CacheType, NEW q \in SeqId
  PROVE  Moves({}, c, ReleaseSequence(c, q))
<1>1. \A s \in Owners(c, q) : /\ [c.sess[s] EXCEPT !.vram = Null] \in SessionType
                              /\ [c.sess[s] EXCEPT !.vram = Null].vram = Null
  BY CacheParts DEF Owners, SessionType
<1> DEFINE sess == [s \in Session |-> IF s \in Owners(c, q)
                                         THEN [c.sess[s] EXCEPT !.vram = Null]
                                         ELSE c.sess[s]]
<1>2. sess \in [Session -> SessionType \cup {Null}]
  BY <1>1 DEF CacheType
<1>3. [c EXCEPT !.sess = sess] \in CacheType /\ [c EXCEPT !.sess = sess].sess = sess
  BY <1>2 DEF CacheType
<1> HIDE DEF sess
<1>4. ReleaseSequence(c, q) = [c EXCEPT !.sess = sess]
  BY DEF ReleaseSequence, sess
<1>5. TakenOnlyBy({}, c, [c EXCEPT !.sess = sess])
  BY <1>1, <1>3 DEF TakenOnlyBy, Registered, Owners, sess
<1>6. Registered([c EXCEPT !.sess = sess]) = Registered(c)
  <2>1. \A t \in Session : sess[t] # Null <=> c.sess[t] # Null
    BY <1>1, NullAssumption DEF Registered, Owners, sess
  <2> QED
    BY <1>3, <2>1 DEF Registered
<1> QED
  BY <1>3, <1>4, <1>5, <1>6 DEF Moves

\* Clearing a sequence does not touch the session table.
LEMMA ClearSequenceFacts ==
  ASSUME NEW c \in CacheType, NEW q \in SeqId
  PROVE  ClearSequence(c, q) \in CacheType /\ ClearSequence(c, q).sess = c.sess
BY NoCells, KvUpdate DEF ClearSequence

\* evict gives up the session's sequence.
LEMMA EvictedFacts ==
  ASSUME NEW c \in CacheType, NEW q \in SeqId, NEW s \in Registered(c)
  PROVE  /\ Moves({}, c, Evicted(c, q, s))
         /\ Evicted(c, q, s).sess[s].vram = Null
<1> DEFINE snap == Snapshot(c, q, s)
           p == c.sess[s].path
           toDisk == [c.sess[s] EXCEPT !.vram = Null, !.tier = "disk", !.ram = Null]
           toRam == [c.sess[s] EXCEPT !.vram = Null, !.tier = "ram", !.ram = snap]
<1>1. s \in Session /\ c.sess[s] \in SessionType /\ p \in Path
  BY CacheParts DEF SessionType
<1>2. snap \in SnapshotType
  BY <1>1, CacheParts DEF Snapshot, SnapshotType, SessionType
<1>3. toDisk \in SessionType /\ toDisk.vram = Null
  BY <1>1 DEF SessionType, Tier
<1>4. toRam \in SessionType /\ toRam.vram = Null
  BY <1>1, <1>2 DEF SessionType, Tier
<1>5. CASE c.unified
  <2> DEFINE d == [c EXCEPT !.kv[q] = <<>>, !.sess[s] = toDisk, !.file[p] = snap]
  <2>1. Evicted(c, q, s) = d
    BY <1>5 DEF Evicted
  <2> HIDE DEF snap, p, toDisk
  <2>2. d \in CacheType
    BY <1>1, <1>2, <1>3, NoCells DEF CacheType
  <2>3. OneEntry(s, toDisk, c, d)
    BY <1>1, <1>2, <1>3 DEF CacheType, OneEntry
  <2> HIDE DEF d
  <2>4. d.sess[s] = toDisk /\ (toDisk.vram = Null \/ toDisk.vram = c.sess[s].vram => Moves({}, c, d))
    BY <1>3, <2>2, <2>3, EntryMoves
  <2> QED
    BY <1>3, <2>1, <2>4
<1>6. CASE ~c.unified
  <2> DEFINE d == [c EXCEPT !.kv[q] = <<>>, !.sess[s] = toRam]
  <2>1. Evicted(c, q, s) = d
    BY <1>6 DEF Evicted
  <2> HIDE DEF toRam
  <2>2. d \in CacheType
    BY <1>1, <1>4, NoCells DEF CacheType
  <2>3. OneEntry(s, toRam, c, d)
    BY <1>1, <1>4 DEF CacheType, OneEntry
  <2> HIDE DEF d
  <2>4. d.sess[s] = toRam /\ (toRam.vram = Null \/ toRam.vram = c.sess[s].vram => Moves({}, c, d))
    BY <1>4, <2>2, <2>3, EntryMoves
  <2> QED
    BY <1>4, <2>1, <2>4
<1> QED
  BY <1>5, <1>6

\* A state file that could not be written is the only change.
LEMMA WriteFailuresFacts ==
  ASSUME NEW c \in CacheType, NEW p \in Path, NEW head \in Nat,
         NEW d \in WriteFailures(c, p, head)
  PROVE  Moves({}, c, d)
<1> DEFINE cut == [data |-> <<>>, head |-> head]
<1>1. cut \in SnapshotType
  BY DEF SnapshotType
<1>2. d = c \/ d = [c EXCEPT !.file[p] = Null] \/ d = [c EXCEPT !.file[p] = cut]
  BY DEF WriteFailures
<1> HIDE DEF cut
<1>3. d \in CacheType /\ d.sess = c.sess
  BY <1>1, <1>2 DEF CacheType
<1> QED
  BY <1>3, SameSessMoves

\* A failed evict hands out nothing.
LEMMA EvictFailuresFacts ==
  ASSUME NEW c \in CacheType, NEW q \in SeqId, NEW s \in Registered(c),
         NEW d \in EvictFailures(c, q, s)
  PROVE  Moves({}, c, d)
<1> DEFINE e == [c.sess[s] EXCEPT !.vram = Null]
           cleared == [c EXCEPT !.kv[q] = <<>>, !.sess[s] = e]
<1>1. /\ s \in Session /\ c.sess[s].path \in Path /\ c.sess[s].head \in Nat
      /\ e \in SessionType /\ e.vram = Null
  BY CacheParts DEF SessionType
<1>2. d = c \/ d \in WriteFailures(cleared, c.sess[s].path, c.sess[s].head)
  BY DEF EvictFailures
<1> HIDE DEF e
<1>3. cleared \in CacheType /\ OneEntry(s, e, c, cleared)
  BY <1>1, NoCells DEF CacheType, OneEntry
<1> HIDE DEF cleared
<1>4. Moves({}, c, cleared)
  BY <1>1, <1>3, EntryMoves
<1>5. Moves({}, c, c)
  BY SameSessMoves
<1> QED
  BY <1>1, <1>2, <1>3, <1>4, <1>5, WriteFailuresFacts, MovesTransitive

\* save_to_disk leaves the session in its sequence.
LEMMA SavedToDiskFacts ==
  ASSUME NEW c \in CacheType, NEW q \in SeqId, NEW s \in Registered(c), NEW p \in Path
  PROVE  Moves({}, c, SavedToDisk(c, q, s, p))
<1> DEFINE e == [Clamped(c.sess[s]) EXCEPT !.path = p]
           snap == [data |-> c.kv[q], head |-> Clamped(c.sess[s]).head]
           d == [c EXCEPT !.sess[s] = e, !.file[p] = snap]
<1>1. s \in Session /\ c.sess[s] \in SessionType
  BY CacheParts
<1>2. e \in SessionType /\ e.vram = c.sess[s].vram
  BY <1>1, ClampedFacts DEF SessionType
<1>3. snap \in SnapshotType
  BY <1>1, ClampedFacts, CacheParts DEF SnapshotType
<1>4. SavedToDisk(c, q, s, p) = d
  BY DEF SavedToDisk
<1> HIDE DEF e, snap
<1>5. d \in CacheType
  BY <1>1, <1>2, <1>3 DEF CacheType
<1>6. OneEntry(s, e, c, d)
  BY <1>1, <1>2 DEF CacheType, OneEntry
<1> HIDE DEF d
<1> QED
  BY <1>2, <1>4, <1>5, <1>6, EntryMoves

\* save_ram_to_disk hands out nothing.
LEMMA SavedRamToDiskFacts ==
  ASSUME NEW c \in CacheType, NEW s \in Registered(c), NEW p \in Path, c.sess[s].ram # Null
  PROVE  Moves({}, c, SavedRamToDisk(c, s, p))
<1> DEFINE k == Clamped(c.sess[s])
           e == [k EXCEPT !.path = p, !.tier = "disk",
                          !.ram = IF c.unified THEN k.ram ELSE Null]
           snap == [data |-> k.ram.data, head |-> k.head]
           d == [c EXCEPT !.sess[s] = e, !.file[p] = snap]
<1>1. s \in Session /\ c.sess[s] \in SessionType
  BY CacheParts
<1>2. /\ k \in SessionType /\ k.vram = c.sess[s].vram
      /\ k.ram = c.sess[s].ram /\ k.head \in Nat
  BY <1>1, ClampedFacts
<1>3. SavedRamToDisk(c, s, p) = d
  BY DEF SavedRamToDisk
<1> HIDE DEF k
<1>4. e \in SessionType /\ e.vram = c.sess[s].vram
  BY <1>2 DEF SessionType, Tier
<1>5. snap \in SnapshotType
  BY <1>1, <1>2 DEF SnapshotType, SessionType
<1> HIDE DEF e, snap
<1>6. d \in CacheType
  BY <1>1, <1>4, <1>5 DEF CacheType
<1>7. OneEntry(s, e, c, d)
  BY <1>1, <1>4 DEF CacheType, OneEntry
<1> HIDE DEF d
<1> QED
  BY <1>3, <1>4, <1>6, <1>7, EntryMoves

\* Neither does a failed save.
LEMMA SaveFailuresFacts ==
  ASSUME NEW c \in CacheType, NEW s \in Registered(c), NEW p \in Path,
         NEW d \in SaveFailures(c, s, p)
  PROVE  Moves({}, c, d)
<1> DEFINE e == Clamped(c.sess[s])
           clamped == [c EXCEPT !.sess[s] = e]
<1>1. s \in Session /\ c.sess[s] \in SessionType
  BY CacheParts
<1>2. e \in SessionType /\ e.vram = c.sess[s].vram /\ e.head \in Nat
  BY <1>1, ClampedFacts
<1>3. d \in WriteFailures(clamped, p, e.head)
  BY DEF SaveFailures
<1> HIDE DEF e
<1>4. clamped \in CacheType /\ OneEntry(s, e, c, clamped)
  BY <1>1, <1>2 DEF CacheType, OneEntry
<1> HIDE DEF clamped
<1>5. Moves({}, c, clamped)
  BY <1>2, <1>4, EntryMoves
<1> QED
  BY <1>2, <1>3, <1>4, <1>5, WriteFailuresFacts, MovesTransitive

\* restore hands q to s.
LEMMA RestoredFacts ==
  ASSUME NEW c \in CacheType, NEW q \in SeqId, NEW s \in Registered(c), Restorable(c, s)
  PROVE  /\ Moves({s}, c, Restored(c, q, s))
         /\ Restored(c, q, s).sess[s].vram = q
         /\ Restored(c, q, s).sess[s].head \in Nat
<1> DEFINE k == c.sess[s]
           snap == IF k.ram # Null THEN k.ram ELSE c.file[k.path]
           e == [k EXCEPT !.tier = "vram", !.vram = q, !.head = snap.head,
                          !.ram = IF c.unified THEN k.ram ELSE Null]
           d == [c EXCEPT !.kv[q] = snap.data, !.sess[s] = e]
<1>1. s \in Session /\ k \in SessionType /\ k.ram \in SnapshotType \cup {Null}
  BY CacheParts DEF SessionType
<1>2. snap \in SnapshotType
  BY <1>1, CacheParts DEF Restorable, SessionType
<1>3. snap.data \in Seq(Cell) /\ snap.head \in Nat
  BY <1>2 DEF SnapshotType
<1>4. Restored(c, q, s) = d
  BY DEF Restored
<1> HIDE DEF snap
<1>5. e \in SessionType /\ e.vram = q /\ e.head \in Nat
  BY <1>1, <1>3 DEF SessionType, Tier
<1> HIDE DEF e
<1>6. d \in CacheType
  BY <1>1, <1>3, <1>5 DEF CacheType
<1>7. OneEntry(s, e, c, d)
  BY <1>1, <1>5 DEF CacheType, OneEntry
<1> HIDE DEF d
<1> QED
  BY <1>4, <1>5, <1>6, <1>7, EntryMoves

\* So does a fresh start.
LEMMA FreshSequenceFacts ==
  ASSUME NEW c \in CacheType, NEW q \in SeqId, NEW s
  PROVE  /\ Moves({s}, c, FreshSequence(c, q, s))
         /\ s \in Registered(FreshSequence(c, q, s)) =>
              FreshSequence(c, q, s).sess[s].vram = q
<1>1. ClearSequence(c, q) \in CacheType /\ Moves({}, c, ClearSequence(c, q))
  BY ClearSequenceFacts, SameSessMoves
<1> QED
  BY <1>1, SetVramSeqFacts, MovesTransitive DEF FreshSequence

\* Making room for a request: whatever evict_seq_owner leaves, only the request's own
\* session can still own the sequence.
LEMMA OwnerEvictedFacts ==
  ASSUME TypeOK, VramExclusive, NEW q \in SeqId, NEW s, NEW c \in OwnerEvicted(q, s)
  PROVE  Moves({}, cache, c) /\ Owners(c, q) \subseteq {s}
<1>1. cache \in CacheType
  BY DEF TypeOK
<1>2. CASE Owners(cache, q) \ {s} = {}
  BY <1>1, <1>2, SameSessMoves DEF OwnerEvicted
<1>3. CASE Owners(cache, q) \ {s} # {}
  <2>1. PICK t \in Owners(cache, q) \ {s} : c = Evicted(cache, q, t)
    BY <1>3 DEF OwnerEvicted
  <2>2. t \in Registered(cache) /\ Owners(cache, q) = {t}
    BY <2>1 DEF VramExclusive, ExclusiveIn, Owners
  <2>3. Moves({}, cache, c) /\ c.sess[t].vram = Null
    BY <1>1, <2>1, <2>2, EvictedFacts
  <2>4. Owners(c, q) \subseteq Owners(cache, q)
    BY <2>3, NoneTaken DEF Moves
  <2>5. t \notin Owners(c, q)
    BY <2>3, CacheAssumption DEF Owners, SeqId
  <2> QED
    BY <2>2, <2>3, <2>4, <2>5
<1> QED
  BY <1>2, <1>3

\* Starting a request on a sequence that at most its own session owns.
LEMMA PlacedFacts ==
  ASSUME NEW c \in CacheType, ExclusiveIn(c), NEW q \in SeqId, NEW r \in Req,
         Owners(c, q) \subseteq {SessionOf[r]}, slots \in [SeqId -> Req \cup {Null}]
  PROVE  /\ Placed(c, q, r).cache \in CacheType
         /\ ExclusiveIn(Placed(c, q, r).cache)
         /\ Registered(c) \subseteq Registered(Placed(c, q, r).cache)
         /\ Placed(c, q, r).off \in Nat
<1> DEFINE s == SessionOf[r]
           known == IF s = Null THEN c ELSE Register(c, s)
           forked(p) == [c EXCEPT !.kv[q] = @ \o c.kv[p]]
<1>1. s \in Session \cup {Null}
  BY EngineAssumption
<1>2. /\ known \in CacheType /\ TakenOnlyBy({}, c, known)
      /\ Registered(c) \subseteq Registered(known)
      /\ s # Null => s \in Registered(known)
  <2>1. CASE s = Null
    BY <2>1 DEF TakenOnlyBy
  <2>2. CASE s \in Session
    BY <2>2, RegisterFacts, CacheAssumption
  <2> QED
    BY <1>1, <2>1, <2>2
<1>3. ExclusiveIn(known) /\ Owners(known, q) \subseteq {s}
  BY <1>2, NoneTaken
<1>4. CASE ParentSlots(r) # {}
  <2> DEFINE p == CHOOSE p \in ParentSlots(r) : TRUE
  <2>1. p \in SeqId
    BY <1>4 DEF ParentSlots, Active
  <2>2. c.kv[q] \o c.kv[p] \in Seq(Cell)
    BY <2>1, CacheParts
  <2>3. forked(p) \in CacheType /\ forked(p).sess = c.sess
    BY <2>2, KvUpdate DEF CacheType
  <2>4. Placed(c, q, r) = [cache |-> SetVramSeq(forked(p), s, q), off |-> 0]
    BY <1>4 DEF Placed
  <2> HIDE DEF forked, p
  <2>5. Moves({}, c, forked(p))
    BY <2>3, SameSessMoves
  <2>6. Moves({s}, c, SetVramSeq(forked(p), s, q))
    BY ZenonT(30), <2>3, <2>5, SetVramSeqFacts, MovesTransitive
  <2>7. ExclusiveIn(SetVramSeq(forked(p), s, q))
    <3>1. s \in Registered(SetVramSeq(forked(p), s, q)) =>
            SetVramSeq(forked(p), s, q).sess[s].vram = q
      BY <2>3, SetVramSeqFacts
    <3>2. TakenOnlyBy({s}, c, SetVramSeq(forked(p), s, q))
      BY <2>6 DEF Moves
    <3> QED
      BY <3>1, <3>2, OneTaken
  <2> QED
    BY <2>4, <2>6, <2>7 DEF Moves
<1>5. CASE ParentSlots(r) = {} /\ s # Null /\ known.sess[s].vram = q
  <2>1. Placed(c, q, r) = [cache |-> known, off |-> known.sess[s].head]
    BY <1>5 DEF Placed
  <2>2. known.sess[s].head \in Nat
    BY <1>2, <1>5, CacheParts DEF SessionType
  <2> QED
    BY <1>2, <1>3, <2>1, <2>2
<1>6. CASE /\ ParentSlots(r) = {} /\ s # Null
           /\ known.sess[s].vram # q /\ Restorable(known, s)
  <2>1. Placed(c, q, r) = [cache |-> Restored(known, q, s),
                           off |-> Restored(known, q, s).sess[s].head]
    BY <1>6 DEF Placed
  <2> HIDE DEF known
  <2>2. /\ Moves({s}, known, Restored(known, q, s))
        /\ Restored(known, q, s).sess[s].vram = q
        /\ Restored(known, q, s).sess[s].head \in Nat
    BY <1>2, <1>6, RestoredFacts
  <2>3. ExclusiveIn(Restored(known, q, s))
    BY <1>3, <2>2, OneTaken DEF Moves
  <2> QED
    BY <1>2, <2>1, <2>2, <2>3 DEF Moves
<1>7. CASE /\ ParentSlots(r) = {}
           /\ s = Null \/ (known.sess[s].vram # q /\ ~Restorable(known, s))
  <2>1. Placed(c, q, r) = [cache |-> FreshSequence(known, q, s), off |-> 0]
    BY <1>7 DEF Placed
  <2> HIDE DEF known
  <2>2. /\ Moves({s}, known, FreshSequence(known, q, s))
        /\ s \in Registered(FreshSequence(known, q, s)) =>
             FreshSequence(known, q, s).sess[s].vram = q
    BY <1>2, FreshSequenceFacts
  <2>3. ExclusiveIn(FreshSequence(known, q, s))
    BY <1>3, <2>2, OneTaken DEF Moves
  <2> QED
    BY <1>2, <2>1, <2>2, <2>3 DEF Moves
<1> QED
  BY <1>4, <1>5, <1>6, <1>7

-----------------------------------------------------------------------------
\* The actions process_state_actions has copied and not started are at most one per
\* session, and their sessions are registered: no other action of the batch deletes them.
TodoOK ==
  /\ \A x \in todo : x[1] \in Registered(cache)
  /\ \A x, y \in todo : x[1] = y[1] => x = y

IInv == TypeOK /\ VramExclusive /\ TodoOK

\* The initial state.
LEMMA InitIInv == Init => IInv
<1> SUFFICES ASSUME Init PROVE IInv
  OBVIOUS
<1>1. PICK unified \in BOOLEAN : cache = EmptyCache(unified)
  BY DEF Init
<1>2. cache \in CacheType /\ Registered(cache) = {}
  BY <1>1, NoCells DEF EmptyCache, CacheType, Registered
<1>3. VramExclusive
  BY <1>2 DEF VramExclusive, ExclusiveIn, Owners
<1>4. TypeOK
  <2>1. NewRequest \in RequestType
    BY DEF NewRequest, RequestType, RequestState
  <2> QED
    BY <1>2, <2>1, EngineAssumption DEF Init, TypeOK
<1> QED
  BY <1>3, <1>4 DEF IInv, TodoOK, Init

\* An action that leaves every session where it is keeps the cache part of the invariant.
LEMMA MovesKeep ==
  ASSUME VramExclusive, Moves({}, cache, cache')
  PROVE  cache' \in CacheType /\ VramExclusive' /\ Registered(cache)' = Registered(cache)
<1>1. ExclusiveIn(cache) => ExclusiveIn(cache')
  BY NoneTaken DEF Moves
<1>2. Registered(cache)' = Registered(cache')
  BY DEF Registered
<1>3. VramExclusive' <=> ExclusiveIn(cache')
  BY DEF VramExclusive, ExclusiveIn, Owners, Registered
<1> QED
  BY <1>1, <1>2, <1>3 DEF Moves, VramExclusive

\* So does a step that does not touch the cache and the copied actions.
LEMMA CacheUnchanged ==
  ASSUME IInv, cache' = cache, todo' = todo
  PROVE  VramExclusive' /\ TodoOK' /\ cache' \in CacheType /\ todo' \subseteq Session \X StateAction
<1>1. Registered(cache)' = Registered(cache)
  BY DEF Registered
<1>2. VramExclusive'
  BY <1>1 DEF IInv, VramExclusive, ExclusiveIn, Owners, Registered
<1> QED
  BY <1>1, <1>2 DEF IInv, TypeOK, TodoOK

\* Changing one request.
LEMMA RequestUpdate ==
  ASSUME NEW f \in [Req -> RequestType], NEW r \in Req, NEW st \in RequestState
  PROVE  [f EXCEPT ![r].st = st] \in [Req -> RequestType]
BY DEF RequestType

\* Changing its stage together with the decision on the system prompt.
LEMMA PromptUpdate ==
  ASSUME NEW f \in [Req -> RequestType], NEW r \in Req,
         NEW st \in RequestState, NEW sys \in BOOLEAN
  PROVE  [f EXCEPT ![r].st = st, ![r].sys = sys] \in [Req -> RequestType]
<1>1. [f[r] EXCEPT !.st = st, !.sys = sys] \in RequestType
  BY DEF RequestType
<1>2. [f EXCEPT ![r].st = st, ![r].sys = sys]
        = [f EXCEPT ![r] = [f[r] EXCEPT !.st = st, !.sys = sys]]
  OBVIOUS
<1> QED
  BY <1>1, <1>2

\* The handlers. Building a prompt.
LEMMA BuildPromptIInv ==
  ASSUME IInv, NEW r \in Req, BuildPrompt(r)
  PROVE  IInv'
<1>1. ApplySystemPrompt(SessionOf[r]) \in BOOLEAN
  BY DEF ApplySystemPrompt
<1>2. req' \in [Req -> RequestType]
  <2>1. req \in [Req -> RequestType] /\ "built" \in RequestState
    BY DEF IInv, TypeOK, RequestState
  <2>2. req' = [req EXCEPT ![r].st = "built", ![r].sys = ApplySystemPrompt(SessionOf[r])]
    BY DEF BuildPrompt
  <2> HIDE DEF ApplySystemPrompt
  <2> QED
    BY <1>1, <2>1, <2>2, PromptUpdate
<1>3. TypeOK'
  BY <1>2 DEF IInv, TypeOK, BuildPrompt, pullVars
<1> QED
  BY <1>3, CacheUnchanged DEF IInv, BuildPrompt, pullVars

\* Sending a request over the channel.
LEMMA SendIInv ==
  ASSUME IInv, NEW r \in Req, Send(r)
  PROVE  IInv'
<1>1. req' \in [Req -> RequestType]
  BY RequestUpdate DEF IInv, TypeOK, Send, RequestState
<1>2. TypeOK'
  BY <1>1 DEF IInv, TypeOK, Send, pullVars
<1> QED
  BY <1>2, CacheUnchanged DEF IInv, Send, pullVars

\* Asking for a state action writes the pending field of one session.
LEMMA AskForActionIInv ==
  ASSUME IInv, NEW s \in Session, NEW a \in StateAction, AskForAction(s, a)
  PROVE  IInv'
<1> DEFINE e == [cache.sess[s] EXCEPT !.pending = a]
<1>1. cache \in CacheType /\ s \in Registered(cache) /\ cache.sess[s] \in SessionType
  BY CacheParts DEF IInv, TypeOK, AskForAction
<1>2. e \in SessionType /\ e.vram = cache.sess[s].vram
  BY <1>1 DEF SessionType
<1>3. cache' = [cache EXCEPT !.sess[s] = e]
  BY DEF AskForAction
<1> HIDE DEF e
<1>4. cache' \in CacheType /\ OneEntry(s, e, cache, cache')
  BY <1>1, <1>2, <1>3 DEF CacheType, OneEntry
<1>5. Moves({}, cache, cache')
  BY <1>1, <1>2, <1>4, EntryMoves
<1>6. cache' \in CacheType /\ VramExclusive' /\ Registered(cache)' = Registered(cache)
  BY <1>5, MovesKeep DEF IInv
<1>7. TypeOK'
  BY <1>6 DEF IInv, TypeOK, AskForAction, workVars, pullVars
<1> QED
  BY <1>6, <1>7 DEF IInv, TodoOK, AskForAction, pullVars

\* pull() up to the state actions. Taking a request from the channel.
LEMMA ReceiveIInv ==
  ASSUME IInv, Receive
  PROVE  IInv'
<1>1. Head(chan) \in Req /\ Tail(chan) \in Seq(Req)
  BY DEF IInv, TypeOK, Receive
<1>2. PICK st \in RequestState : req' = [req EXCEPT ![Head(chan)].st = st]
  BY DEF Receive, RequestState
<1>3. req' \in [Req -> RequestType]
  <2>1. req \in [Req -> RequestType]
    BY DEF IInv, TypeOK
  <2> QED
    BY <1>1, <1>2, <2>1, RequestUpdate
<1>4. queue' = queue \/ queue' = Append(queue, Head(chan))
  BY DEF Receive
<1>5. queue' \in Seq(Req)
  <2>1. queue \in Seq(Req)
    BY DEF IInv, TypeOK
  <2> QED
    BY <1>1, <1>4, <2>1
<1>6. chan' \in Seq(Req)
  <2>1. chan \in Seq(Req) /\ chan # <<>> /\ chan' = Tail(chan)
    BY DEF IInv, TypeOK, Receive
  <2> QED
    BY <2>1
<1>7. TypeOK'
  BY <1>3, <1>5, <1>6 DEF IInv, TypeOK, Receive, pullVars
<1> QED
  BY <1>7, CacheUnchanged DEF IInv, Receive, pullVars

\* A result of the preparation worker.
LEMMA CollectPrepIInv ==
  ASSUME IInv, NEW r \in Req, CollectPrep(r)
  PROVE  IInv'
<1>1. PICK st \in RequestState : req' = [req EXCEPT ![r].st = st]
  BY DEF CollectPrep, RequestState
<1>2. req' \in [Req -> RequestType]
  <2>1. req \in [Req -> RequestType]
    BY DEF IInv, TypeOK
  <2> QED
    BY <1>1, <2>1, RequestUpdate
<1>3. queue' = queue \/ queue' = Append(queue, r)
  BY DEF CollectPrep
<1>4. queue' \in Seq(Req)
  BY <1>3 DEF IInv, TypeOK
<1>5. answer' = answer \/ answer' = [answer EXCEPT ![r] = "error"]
  BY DEF CollectPrep
<1>6. answer' \in [Req -> {"none", "finish", "error"}]
  BY <1>5 DEF IInv, TypeOK
<1>7. TypeOK'
  BY <1>2, <1>4, <1>6 DEF IInv, TypeOK, CollectPrep, pullVars
<1> QED
  BY <1>7, CacheUnchanged DEF IInv, CollectPrep, pullVars

\* Copying the pending actions establishes TodoOK.
LEMMA CopyActionsIInv ==
  ASSUME IInv, CopyActions
  PROVE  IInv'
<1> DEFINE asking == {t \in Registered(cache) : cache.sess[t].pending # Null}
<1>1. \A s \in asking : s \in Session /\ s \in Registered(cache)
                        /\ cache.sess[s].pending \in StateAction
  BY CacheParts DEF IInv, TypeOK, SessionType
<1>2. todo' = {<<s, cache.sess[s].pending>> : s \in asking}
  BY DEF CopyActions
<1> HIDE DEF asking
<1>3. todo' \subseteq Session \X StateAction
  BY <1>1, <1>2
<1>4. cache' = cache /\ Registered(cache)' = Registered(cache)
  BY DEF CopyActions, Registered
<1>5. TodoOK'
  BY <1>1, <1>2, <1>4 DEF TodoOK
<1>6. TypeOK'
  BY <1>3 DEF IInv, TypeOK, CopyActions, workVars
<1> QED
  BY <1>5, <1>6 DEF IInv, CopyActions, VramExclusive, ExclusiveIn, Owners, Registered

\* Taking the next copied action.
LEMMA NextActionFacts ==
  ASSUME IInv, NEW s \in Session, NEW a \in StateAction, NextAction(s, a)
  PROVE  /\ s \in Registered(cache)
         /\ acting' \in Session \X StateAction
         /\ todo' \subseteq Session \X StateAction
         /\ \A x \in todo' : x \in todo /\ x[1] # s
<1>1. <<s, a>> \in todo /\ todo' = todo \ {<<s, a>>} /\ acting' = <<s, a>>
  BY DEF NextAction
<1>2. s \in Registered(cache)
  BY <1>1 DEF IInv, TodoOK
<1>3. \A x \in todo' : x \in todo /\ x[1] # s
  BY <1>1 DEF IInv, TodoOK
<1> QED
  BY <1>1, <1>2, <1>3 DEF IInv, TypeOK

\* An action that keeps every session registered.
LEMMA ActionMoves ==
  ASSUME IInv, NEW s \in Session, NEW a \in StateAction, NextAction(s, a),
         Moves({}, cache, cache')
  PROVE  cache' \in CacheType /\ VramExclusive' /\ TodoOK'
<1>1. cache' \in CacheType /\ VramExclusive' /\ Registered(cache)' = Registered(cache)
  BY MovesKeep DEF IInv
<1> QED
  BY <1>1, NextActionFacts DEF IInv, TodoOK

\* A save or an idle reads a sequence of the context.
LEMMA SourceFacts ==
  ASSUME IInv, NEW s \in Session
  PROVE  Source(s) \subseteq SeqId /\ ActiveOf(s) \subseteq SeqId
BY CacheParts DEF IInv, TypeOK, Source, ActiveOf, Active, SessionType

\* Action::Save, whichever of its sources is read and whatever fails.
LEMMA SaveIInv ==
  ASSUME IInv, NEW s \in Session, NEW a \in StateAction, Save(s, a)
  PROVE  IInv'
<1> DEFINE failures(c) == IF "save" \in Faults THEN SaveFailures(c, s, a.path) ELSE {}
           fromRam(c) == IF c.sess[s].ram = Null THEN {c}
                         ELSE {SavedRamToDisk(c, s, a.path)} \cup failures(c)
<1>1. /\ cache \in CacheType /\ s \in Registered(cache) /\ a.path \in Path
      /\ NextAction(s, a) /\ Source(s) \subseteq SeqId
  BY NextActionFacts, SourceFacts DEF IInv, TypeOK, Save, StateAction, Path
<1>2. ASSUME NEW c, Moves({}, cache, c)
      PROVE  (\A d \in failures(c) : Moves({}, cache, d))
             /\ (\A d \in fromRam(c) : Moves({}, cache, d))
  <2>1. c \in CacheType /\ s \in Registered(c)
    BY <1>1, <1>2 DEF Moves
  <2>2. \A d \in failures(c) : Moves({}, cache, d)
    BY <1>1, <1>2, <2>1, SaveFailuresFacts, MovesTransitive
  <2>3. c.sess[s].ram # Null => Moves({}, cache, SavedRamToDisk(c, s, a.path))
    BY <1>1, <1>2, <2>1, SavedRamToDiskFacts, MovesTransitive
  <2> QED
    BY <1>2, <2>2, <2>3
<1>3. \/ \E q \in Source(s) : cache' = SavedToDisk(cache, q, s, a.path)
      \/ cache' \in fromRam(cache)
      \/ \E c \in {cache} \cup failures(cache) : cache' \in fromRam(c) \/ cache' = c
  BY DEF Save
<1> HIDE DEF failures, fromRam
<1>4. Moves({}, cache, cache)
  BY <1>1, SameSessMoves
<1>5. Moves({}, cache, cache')
  BY <1>1, <1>2, <1>3, <1>4, SavedToDiskFacts
<1>6. cache' \in CacheType /\ VramExclusive' /\ TodoOK'
  BY <1>1, <1>5, ActionMoves
<1>7. TypeOK'
  BY <1>1, <1>6, NextActionFacts DEF IInv, TypeOK, Save, workVars
<1> QED
  BY <1>6, <1>7 DEF IInv

\* Action::Idle.
LEMMA IdleIInv ==
  ASSUME IInv, NEW s \in Session, NEW a \in StateAction, Idle(s, a)
  PROVE  IInv'
<1>1. /\ cache \in CacheType /\ s \in Registered(cache) /\ NextAction(s, a)
      /\ Source(s) \subseteq SeqId
  BY NextActionFacts, SourceFacts DEF IInv, TypeOK, Idle
<1>2. \/ cache' = cache
      \/ \E q \in Source(s) : cache' = Evicted(cache, q, s)
      \/ \E q \in Source(s) : cache' \in EvictFailures(cache, q, s)
  BY DEF Idle
<1>3. Moves({}, cache, cache')
  BY <1>1, <1>2, EvictedFacts, EvictFailuresFacts, SameSessMoves
<1>4. cache' \in CacheType /\ VramExclusive' /\ TodoOK'
  BY <1>1, <1>3, ActionMoves
<1>5. slots' = slots \/ \E q \in Source(s) : slots' = [slots EXCEPT ![q] = Null]
  BY DEF Idle
<1>6. slots' \in [SeqId -> Req \cup {Null}]
  BY <1>1, <1>5 DEF IInv, TypeOK
<1>7. TypeOK'
  BY <1>1, <1>4, <1>6, NextActionFacts DEF IInv, TypeOK, Idle
<1> QED
  BY <1>4, <1>7 DEF IInv

\* Action::Delete is the one action that forgets a session.
LEMMA DeleteIInv ==
  ASSUME IInv, NEW s \in Session, NEW a \in StateAction, Delete(s, a)
  PROVE  IInv'
<1> DEFINE Gone(c) == [c EXCEPT !.sess[s] = Null, !.file[c.sess[s].path] = Null]
<1>1. /\ cache \in CacheType /\ s \in Registered(cache) /\ NextAction(s, a)
      /\ Source(s) \subseteq SeqId
  BY NextActionFacts, SourceFacts DEF IInv, TypeOK, Delete
<1>2. ASSUME NEW c \in CacheType, c.sess = cache.sess
      PROVE  /\ Gone(c) \in CacheType /\ Gone(c).sess[s] = Null
             /\ \A t \in Session \ {s} : Gone(c).sess[t] = cache.sess[t]
  <2>1. c.sess[s].path \in Path
    BY <1>1, <1>2, CacheParts DEF SessionType
  <2> QED
    BY <1>2, <2>1 DEF CacheType
<1>3. \/ cache' = Gone(cache)
      \/ \E q \in Source(s) : cache' = Gone(ClearSequence(cache, q))
  BY DEF Delete
<1> HIDE DEF Gone
<1>4. /\ cache' \in CacheType /\ cache'.sess[s] = Null
      /\ \A t \in Session \ {s} : cache'.sess[t] = cache.sess[t]
  BY <1>1, <1>2, <1>3, ClearSequenceFacts
<1>5. Registered(cache') = Registered(cache) \ {s}
  BY <1>4 DEF Registered
<1>6. TakenOnlyBy({}, cache, cache')
  BY <1>4, <1>5 DEF TakenOnlyBy, Registered
<1>7. VramExclusive'
  <2>1. ExclusiveIn(cache')
    BY <1>6, NoneTaken DEF IInv, VramExclusive
  <2> QED
    BY <2>1 DEF VramExclusive, ExclusiveIn, Owners, Registered
<1>8. TodoOK'
  <2>1. Registered(cache)' = Registered(cache) \ {s}
    BY <1>5 DEF Registered
  <2> QED
    BY <1>1, <2>1, NextActionFacts DEF IInv, TodoOK
<1>9. slots' = slots \/ \E q \in Source(s) : slots' = [slots EXCEPT ![q] = Null]
  BY DEF Delete
<1>10. slots' \in [SeqId -> Req \cup {Null}]
  BY <1>1, <1>9 DEF IInv, TypeOK
<1>11. TypeOK'
  BY <1>1, <1>4, <1>10, NextActionFacts DEF IInv, TypeOK, Delete
<1> QED
  BY <1>7, <1>8, <1>11 DEF IInv

\* Clearing a pending action.
LEMMA ClearActionIInv ==
  ASSUME IInv, ClearAction
  PROVE  IInv'
<1> DEFINE s == acting[1]
           e == [cache.sess[s] EXCEPT !.pending = Null]
<1>1. cache \in CacheType /\ s \in Session
  BY CacheAssumption DEF IInv, TypeOK, ClearAction
<1>2. cache' = IF s \in Registered(cache) THEN [cache EXCEPT !.sess[s] = e] ELSE cache
  BY DEF ClearAction
<1>3. Moves({}, cache, cache')
  <2>1. CASE s \in Registered(cache)
    <3>1. e \in SessionType /\ e.vram = cache.sess[s].vram
      BY <1>1, <2>1, CacheParts DEF SessionType
    <3> HIDE DEF e, s
    <3>2. cache' \in CacheType /\ OneEntry(s, e, cache, cache')
      BY <1>1, <1>2, <2>1, <3>1 DEF CacheType, OneEntry
    <3> QED
      BY <1>1, <2>1, <3>1, <3>2, EntryMoves
  <2>2. CASE s \notin Registered(cache)
    BY <1>1, <1>2, <2>2, SameSessMoves
  <2> QED
    BY <2>1, <2>2
<1>4. cache' \in CacheType /\ VramExclusive' /\ Registered(cache)' = Registered(cache)
  BY <1>3, MovesKeep DEF IInv
<1>5. TypeOK'
  BY <1>4 DEF IInv, TypeOK, ClearAction, workVars
<1> QED
  BY <1>4, <1>5 DEF IInv, TodoOK, ClearAction

\* schedule_requests.  There is a lowest free sequence when there is a free one.
LEMMA TargetFacts ==
  ASSUME IInv, NEW s, Free # {}
  PROVE  Target(s) \in Free /\ Target(s) \in SeqId
<1>1. Free \subseteq Nat /\ Free \subseteq SeqId
  BY DEF Free, SeqId
<1> DEFINE less == {x \in Nat \X Nat : x[1] < x[2]}
<1>2. OpToRel(<, Nat) = less
  BY Zenon DEF OpToRel
<1>3. IsWellFoundedOn(less, Nat)
  BY <1>2, NatLessThanWellFounded
<1>4. PICK x \in Free : \A y \in Free : <<y, x>> \notin less
  BY <1>1, <1>3, WFMin
<1>5. ASSUME NEW y \in Free PROVE x <= y
  <2>1. x \in Nat /\ y \in Nat
    BY <1>1
  <2>2. y < x => <<y, x>> \in less
    BY <2>1
  <2>3. ~(y < x)
    BY <1>4, <2>2
  <2> QED
    BY <2>1, <2>3
<1>6. Target(s) \in Free
  BY <1>5 DEF Target
<1> QED
  BY <1>1, <1>6

\* A request gets a slot.
LEMMA ScheduleIInv ==
  ASSUME IInv, Schedule
  PROVE  IInv'
<1> DEFINE r == Head(queue)
           q == Target(SessionOf[r])
<1>1. r \in Req /\ Tail(queue) \in Seq(Req) /\ q \in SeqId
  BY TargetFacts DEF IInv, TypeOK, Schedule
<1>2. PICK c \in OwnerEvicted(q, SessionOf[r]) :
        /\ cache' = Placed(c, q, r).cache
        /\ slots' = [slots EXCEPT ![q] = r]
        /\ req' = [req EXCEPT ![r].off = Placed(c, q, r).off]
  BY DEF Schedule
<1> HIDE DEF r, q
<1>3. Moves({}, cache, c) /\ Owners(c, q) \subseteq {SessionOf[r]}
  BY <1>1, <1>2, OwnerEvictedFacts DEF IInv
<1>4. c \in CacheType /\ ExclusiveIn(c) /\ Registered(c) = Registered(cache)
  BY <1>3, NoneTaken DEF Moves, IInv, VramExclusive
<1>5. /\ cache' \in CacheType /\ ExclusiveIn(cache')
      /\ Registered(c) \subseteq Registered(cache')
      /\ Placed(c, q, r).off \in Nat
  BY <1>1, <1>2, <1>3, <1>4, PlacedFacts DEF IInv, TypeOK
<1>6. VramExclusive'
  BY <1>5 DEF VramExclusive, ExclusiveIn, Owners, Registered
<1>7. TodoOK'
  BY <1>4, <1>5 DEF IInv, TodoOK, Schedule, pullVars, Registered
<1>8. slots' \in [SeqId -> Req \cup {Null}]
  BY <1>1, <1>2 DEF IInv, TypeOK
<1>9. req' \in [Req -> RequestType]
  <2> DEFINE off == Placed(c, q, r).off
  <2>1. req \in [Req -> RequestType] /\ off \in Nat /\ req' = [req EXCEPT ![r].off = off]
    BY <1>2, <1>5 DEF IInv, TypeOK
  <2> HIDE DEF off
  <2> QED
    BY <1>1, <2>1 DEF RequestType
<1>10. TypeOK'
  BY <1>1, <1>5, <1>8, <1>9 DEF IInv, TypeOK, Schedule, pullVars, r
<1> QED
  BY <1>6, <1>7, <1>10 DEF IInv

\* Or its sequence cannot be made free.
LEMMA ScheduleFailsIInv ==
  ASSUME IInv, ScheduleFails
  PROVE  IInv'
<1> DEFINE q == Target(SessionOf[Head(queue)])
<1>1. q \in SeqId /\ cache \in CacheType
  BY TargetFacts DEF IInv, TypeOK, ScheduleFails
<1>2. PICK t \in Owners(cache, q) : cache' \in EvictFailures(cache, q, t)
  BY DEF ScheduleFails
<1> HIDE DEF q
<1>3. Moves({}, cache, cache')
  BY <1>1, <1>2, EvictFailuresFacts DEF Owners
<1>4. cache' \in CacheType /\ VramExclusive' /\ Registered(cache)' = Registered(cache)
  BY <1>3, MovesKeep DEF IInv
<1>5. TypeOK'
  BY <1>4 DEF IInv, TypeOK, ScheduleFails, workVars
<1> QED
  BY <1>4, <1>5 DEF IInv, TodoOK, ScheduleFails

\* The ends of the phases, and a decode that fails, change nothing but the phase.
LEMMA PhasesIInv ==
  ASSUME IInv, Drained \/ Scheduled \/ StepFails
  PROVE  IInv'
<1>1. UNCHANGED <<cache, chan, queue, slots, req, answer, todo, acting, budget>>
  BY DEF Drained, Scheduled, StepFails, workVars
<1>2. phase' \in {"drain", "prep", "actions", "schedule", "step"}
  BY DEF Drained, Scheduled, StepFails
<1>3. TypeOK'
  BY <1>1, <1>2 DEF IInv, TypeOK
<1> QED
  BY <1>1, <1>3, CacheUnchanged DEF IInv

\* The rest of pull(): the slots of a batch are sequences with a request.
LEMMA SlotFacts ==
  ASSUME TypeOK
  PROVE  /\ Active \subseteq SeqId /\ Free \subseteq SeqId
         /\ \A q \in Active : slots[q] \in Req /\ req[slots[q]] \in RequestType
         /\ AtText \subseteq Active /\ AtImage \subseteq Active
         /\ \A st \in RequestState : InState(st) \subseteq Active
BY DEF TypeOK, Active, Free, AtText, AtImage, InState

\* Sets of sequences and of batch tokens are finite.
LEMMA FiniteSequences ==
  /\ IsFiniteSet(SeqId)
  /\ \A S \in SUBSET SeqId : Cardinality(S) \in Nat
  /\ \A B \in SUBSET (SeqId \X (1 .. NBatch)) : Cardinality(B) \in Nat
<1>1. IsFiniteSet(SeqId)
  BY CacheAssumption, FS_Interval DEF SeqId
<1>2. IsFiniteSet(1 .. NBatch)
  BY EngineAssumption, FS_Interval
<1>3. IsFiniteSet(SeqId \X (1 .. NBatch))
  BY <1>1, <1>2, FS_Product
<1> QED
  BY <1>1, <1>3, FS_Subset, FS_CardinalityType

\* The part of the prefill budget a slot gets is a number of tokens.
LEMMA TakeFacts ==
  ASSUME TypeOK, NEW take \in Prefills, NEW q \in AtText
  PROVE  take[q] \in Nat
<1>1. Cardinality(InState("processing")) \in Nat
  BY SlotFacts, FiniteSequences DEF RequestState
<1>2. Room \in Int
  BY <1>1, EngineAssumption DEF Room
<1> QED
  BY <1>2 DEF Prefills

\* The cells a batch adds are cells, at positions that are natural numbers.
LEMMA BatchCellsType ==
  ASSUME TypeOK, NEW take \in Prefills, NEW q \in Active
  PROVE  BatchCells(q, take) \in Seq(Cell)
<1> DEFINE r == slots[q]
<1>1. /\ r \in Req /\ req[r].off \in Nat /\ req[r].n \in Nat /\ req[r].gen \in Nat
      /\ PromptItems(r) \in Nat \ {0}
  BY SlotFacts, EngineAssumption DEF RequestType, PromptItems
<1>2. CASE q \in AtText
  <2> DEFINE cells == [i \in 1 .. take[q] |-> [pos |-> req[r].off + req[r].n + i - 1, of |-> r]]
  <2>1. take[q] \in Nat
    BY <1>2, TakeFacts
  <2>2. \A i \in 1 .. take[q] : [pos |-> req[r].off + req[r].n + i - 1, of |-> r] \in Cell
    BY <1>1, <2>1 DEF Cell
  <2>3. cells \in [1 .. take[q] -> Cell]
    BY <2>2
  <2>4. BatchCells(q, take) = cells
    BY <1>2 DEF BatchCells
  <2> HIDE DEF cells
  <2> QED
    BY <2>1, <2>3, <2>4
<1>3. CASE q \notin AtText /\ q \in InState("processing")
  <2>1. BatchCells(q, take) = <<[pos |-> req[r].off + PromptItems(r) + req[r].gen - 1, of |-> r]>>
    BY <1>3 DEF BatchCells
  <2>2. [pos |-> req[r].off + PromptItems(r) + req[r].gen - 1, of |-> r] \in Cell
    BY <1>1 DEF Cell
  <2> QED
    BY <2>1, <2>2
<1>4. CASE q \notin AtText /\ q \notin InState("processing")
  BY <1>4, NoCells DEF BatchCells
<1> QED
  BY <1>2, <1>3, <1>4

\* What is added to a session's counters is a natural number.
LEMMA CountedFacts ==
  ASSUME TypeOK, NEW s, NEW take, NEW mm
  PROVE  Counted(s, take) \in Nat /\ Cardinality(ActiveOf(s) \cap Evaluated(mm)) \in Nat
<1>1. BatchTokens(take) \subseteq SeqId \X (1 .. NBatch)
  BY SlotFacts DEF BatchTokens
<1>2. Counted(s, take) \in Nat
  BY <1>1, FiniteSequences DEF Counted
<1>3. ActiveOf(s) \cap Evaluated(mm) \subseteq SeqId
  BY SlotFacts DEF ActiveOf
<1> QED
  BY <1>2, <1>3, FiniteSequences

\* Advancing the counters of a session.
LEMMA CountersUpdate ==
  ASSUME NEW e \in SessionType, NEW n \in Nat, NEW m \in Nat
  PROVE  LET f == [e EXCEPT !.head = @ + n + m, !.ntok = @ + n]
         IN  f \in SessionType /\ f.vram = e.vram
<1> DEFINE h == e.head + n + m
           k == e.ntok + n
<1>1. h \in Nat /\ k \in Nat
  BY DEF SessionType
<1>2. [e EXCEPT !.head = e.head + n + m, !.ntok = e.ntok + n] = [e EXCEPT !.head = h, !.ntok = k]
  OBVIOUS
<1> HIDE DEF h, k
<1>3. /\ [e EXCEPT !.head = h, !.ntok = k] \in SessionType
      /\ [e EXCEPT !.head = h, !.ntok = k].vram = e.vram
  BY <1>1 DEF SessionType
<1> QED
  BY <1>2, <1>3

\* A decoded batch hands out nothing.
LEMMA DecodedFacts ==
  ASSUME TypeOK, NEW take \in Prefills, NEW mm \in MmEvals(take)
  PROVE  Moves({}, cache, Decoded(take, mm))
<1> DEFINE kv == [q \in SeqId |->
                    IF q \in Free THEN cache.kv[q]
                    ELSE IF q = mm[1] THEN Append(cache.kv[q], ImageCell(q))
                    ELSE cache.kv[q] \o BatchCells(q, take)]
           entry(s) == [cache.sess[s] EXCEPT
                          !.head = @ + Counted(s, take)
                                     + Cardinality(ActiveOf(s) \cap Evaluated(mm)),
                          !.ntok = @ + Counted(s, take)]
           sess == [s \in Session |-> IF s \in Registered(cache) THEN entry(s) ELSE Null]
           d == [cache EXCEPT !.kv = kv, !.sess = sess]
<1>1. cache \in CacheType
  BY DEF TypeOK
<1>2. ASSUME NEW q \in SeqId PROVE kv[q] \in Seq(Cell)
  <2>1. cache.kv[q] \in Seq(Cell)
    BY <1>1, CacheParts
  <2>2. CASE q \in Free
    BY <2>1, <2>2
  <2>3. CASE q \in Active /\ q = mm[1]
    <3>1. slots[q] \in Req /\ req[slots[q]].off \in Nat
      BY <2>3, SlotFacts DEF RequestType
    <3>2. ImageCell(q) \in Cell
      BY <3>1 DEF ImageCell, Cell
    <3> QED
      BY <2>1, <2>3, <3>2 DEF Active
  <2>4. CASE q \in Active /\ q # mm[1]
    <3>1. BatchCells(q, take) \in Seq(Cell)
      BY <2>4, BatchCellsType
    <3> QED
      BY <2>1, <2>4, <3>1 DEF Active
  <2> QED
    BY <2>2, <2>3, <2>4 DEF Active
<1>3. ASSUME NEW s \in Registered(cache)
      PROVE  entry(s) \in SessionType /\ entry(s).vram = cache.sess[s].vram
  <2>1. cache.sess[s] \in SessionType
    BY <1>1, CacheParts
  <2>2. Counted(s, take) \in Nat /\ Cardinality(ActiveOf(s) \cap Evaluated(mm)) \in Nat
    BY CountedFacts
  <2> QED
    BY <2>1, <2>2, CountersUpdate
<1>4. Decoded(take, mm) = d
  BY DEF Decoded
<1>5. kv \in [SeqId -> Seq(Cell)]
  BY <1>2
<1>6. sess \in [Session -> SessionType \cup {Null}]
  BY <1>3
<1>7. /\ \A s \in Registered(cache) : sess[s] # Null /\ sess[s].vram = cache.sess[s].vram
      /\ \A s \in Session \ Registered(cache) : sess[s] = Null
  BY <1>3, NullAssumption DEF Registered
<1> HIDE DEF kv, sess
<1>8. d \in CacheType /\ d.sess = sess
  BY <1>1, <1>5, <1>6 DEF CacheType
<1> HIDE DEF d
<1>9. Registered(d) = Registered(cache)
  BY <1>7, <1>8 DEF Registered
<1>10. TakenOnlyBy({}, cache, d)
  BY <1>7, <1>8, <1>9 DEF TakenOnlyBy
<1> QED
  BY <1>4, <1>8, <1>9, <1>10 DEF Moves

\* The request of a slot after the batch.
LEMMA ProgressedType ==
  ASSUME TypeOK, NEW take \in Prefills, NEW mm, NEW stops, NEW q \in Active
  PROVE  Progressed(q, take, mm, stops) \in RequestType
<1> DEFINE r == slots[q]
           e == req[r]
<1>1. r \in Req /\ e \in RequestType /\ PromptItems(r) \in Nat
  BY SlotFacts, EngineAssumption DEF PromptItems
<1>2. q \in AtText => take[q] \in Nat
  BY TakeFacts
<1>3. \/ Progressed(q, take, mm, stops) = [e EXCEPT !.st = "gone"]
      \/ Progressed(q, take, mm, stops) =
           [e EXCEPT !.st = "processing", !.n = PromptItems(r), !.gen = @ + 1]
      \/ q \in AtText /\ Progressed(q, take, mm, stops) = [e EXCEPT !.n = @ + take[q]]
      \/ Progressed(q, take, mm, stops) = [e EXCEPT !.n = 1]
      \/ Progressed(q, take, mm, stops) = e
  BY DEF Progressed
<1>4. e.n \in Nat /\ e.gen \in Nat /\ e.gen + 1 \in Nat /\ (q \in AtText => e.n + take[q] \in Nat)
  BY <1>1, <1>2 DEF RequestType
<1> HIDE DEF e, r
<1>5. /\ [e EXCEPT !.st = "gone"] \in RequestType
      /\ [e EXCEPT !.n = 1] \in RequestType
      /\ \A n, g \in Nat : [e EXCEPT !.st = "processing", !.n = n, !.gen = g] \in RequestType
      /\ \A n \in Nat : [e EXCEPT !.n = n] \in RequestType
  BY <1>1 DEF RequestType, RequestState
<1> QED
  BY <1>1, <1>3, <1>4, <1>5

\* A step of pull() that decodes.
LEMMA StepIInv ==
  ASSUME IInv, Step
  PROVE  IInv'
<1>1. TypeOK
  BY DEF IInv
<1>2. PICK take \in Prefills : \E stops \in Stops(take) : \E mm \in MmEvals(take) :
        AfterBatch(take, stops, mm)
  BY DEF Step
<1>3. PICK stops \in Stops(take) : \E mm \in MmEvals(take) : AfterBatch(take, stops, mm)
  BY <1>2
<1>4. PICK mm \in MmEvals(take) : AfterBatch(take, stops, mm)
  BY <1>3
<1>5. Moves({}, cache, Decoded(take, mm))
  BY <1>1, DecodedFacts
<1>6. Moves({}, cache, cache')
  <2>1. CASE mm[2] = "failed"
    <3>1. mm[1] \in SeqId
      BY <1>1, <2>1, SlotFacts DEF MmEvals
    <3>2. /\ ClearSequence(Decoded(take, mm), mm[1]) \in CacheType
          /\ Moves({}, cache, ClearSequence(Decoded(take, mm), mm[1]))
      <4>1. Decoded(take, mm) \in CacheType
        BY <1>5 DEF Moves
      <4>2. /\ ClearSequence(Decoded(take, mm), mm[1]) \in CacheType
            /\ ClearSequence(Decoded(take, mm), mm[1]).sess = Decoded(take, mm).sess
        BY <3>1, <4>1, ClearSequenceFacts
      <4>3. Moves({}, Decoded(take, mm), ClearSequence(Decoded(take, mm), mm[1]))
        BY <4>2, SameSessMoves
      <4> QED
        BY <1>5, <4>2, <4>3, MovesTransitive
    <3>3. cache' = ReleaseSequence(ClearSequence(Decoded(take, mm), mm[1]), mm[1])
      BY <1>4, <2>1 DEF AfterBatch
    <3>4. Moves({}, ClearSequence(Decoded(take, mm), mm[1]), cache')
      BY <3>1, <3>2, <3>3, ReleaseSequenceFacts
    <3> QED
      BY <3>2, <3>4, MovesTransitive
  <2>2. CASE mm[2] # "failed"
    BY <1>4, <1>5, <2>2 DEF AfterBatch
  <2> QED
    BY <2>1, <2>2
<1>7. cache' \in CacheType /\ VramExclusive' /\ Registered(cache)' = Registered(cache)
  BY <1>6, MovesKeep DEF IInv
<1>8. req' \in [Req -> RequestType]
  <2>1. ASSUME NEW r \in Req, \E q \in Active : slots[q] = r
        PROVE  Progressed(SlotOf(r), take, mm, stops) \in RequestType
    <3>1. SlotOf(r) \in Active
      BY <2>1 DEF SlotOf
    <3> QED
      BY <1>1, <3>1, ProgressedType
  <2> QED
    BY <1>1, <1>4, <2>1 DEF TypeOK, AfterBatch
<1>9. slots' \in [SeqId -> Req \cup {Null}] /\ answer' \in [Req -> {"none", "finish", "error"}]
  BY <1>1, <1>4 DEF TypeOK, AfterBatch
<1>10. TypeOK'
  BY <1>1, <1>7, <1>8, <1>9 DEF TypeOK, Step
<1> QED
  BY <1>7, <1>10 DEF IInv, TodoOK, Step

\* A restart keeps the files.
LEMMA RestartIInv ==
  ASSUME IInv, Restart
  PROVE  IInv'
<1>1. cache' = [EmptyCache(cache.unified) EXCEPT !.file = cache.file]
  BY DEF Restart
<1>2. cache' \in CacheType /\ Registered(cache') = {}
  BY <1>1, NoCells DEF IInv, TypeOK, CacheType, EmptyCache, Registered
<1>3. VramExclusive'
  BY <1>2 DEF VramExclusive, ExclusiveIn, Owners, Registered
<1>4. \A r \in InFlight : [req[r] EXCEPT !.st = "gone"] \in RequestType
  BY DEF IInv, TypeOK, InFlight, RequestType, RequestState
<1>5. req' \in [Req -> RequestType]
  BY <1>4 DEF IInv, TypeOK, Restart
<1>6. answer' \in [Req -> {"none", "finish", "error"}]
  BY DEF IInv, TypeOK, Restart
<1>7. TypeOK'
  BY <1>2, <1>5, <1>6 DEF IInv, TypeOK, Restart
<1> QED
  BY <1>3, <1>7 DEF IInv, TodoOK, Restart

\* Every step keeps the invariant.
LEMMA NextIInv == IInv /\ [Next]_vars => IInv'
<1> SUFFICES ASSUME IInv, [Next]_vars PROVE IInv'
  OBVIOUS
<1>1. CASE Handlers
  BY <1>1, BuildPromptIInv, SendIInv, AskForActionIInv DEF Handlers
<1>2. CASE Receive
  BY <1>2, ReceiveIInv
<1>3. CASE \E r \in Req : CollectPrep(r)
  BY <1>3, CollectPrepIInv
<1>4. CASE CopyActions
  BY <1>4, CopyActionsIInv
<1>5. CASE Actioned
  BY <1>5, SaveIInv, IdleIInv, DeleteIInv DEF Actioned
<1>6. CASE ClearAction
  BY <1>6, ClearActionIInv
<1>7. CASE Schedule
  BY <1>7, ScheduleIInv
<1>8. CASE ScheduleFails
  BY <1>8, ScheduleFailsIInv
<1>9. CASE Drained \/ Scheduled \/ StepFails
  BY <1>9, PhasesIInv
<1>10. CASE Step
  BY <1>10, StepIInv
<1>11. CASE Restart
  BY <1>11, RestartIInv
<1>12. CASE UNCHANGED vars
  <2>1. TypeOK'
    BY <1>12 DEF IInv, TypeOK, vars
  <2> QED
    BY <1>12, <2>1, CacheUnchanged DEF IInv, vars
<1> QED
  BY <1>1, <1>2, <1>3, <1>4, <1>5, <1>6, <1>7, <1>8, <1>9, <1>10, <1>11, <1>12 DEF Next, Pull

\* The invariant holds in every behaviour.
THEOREM InductiveInvariant == Spec => []IInv
<1> QED
  BY InitIInv, NextIInv, PTL DEF Spec

\* TypeOK: every variable of the engine has its type, and so no handler and no phase of
\* pull() ever produces a position, a counter or a sequence out of range.
THEOREM TypeCorrect == Spec => []TypeOK
<1>1. IInv => TypeOK
  BY DEF IInv
<1> QED
  BY <1>1, InductiveInvariant, PTL

\* VramExclusive: whatever is evicted, restored, forked, idled, deleted or retried, and
\* however the handlers interleave, set_vram_seq and restore never give a sequence that
\* another session still owns.
THEOREM SequencesAreExclusive == Spec => []VramExclusive
<1>1. IInv => VramExclusive
  BY DEF IInv
<1> QED
  BY <1>1, InductiveInvariant, PTL

(***************************************************************************)
(* OnePlace for every instance, and NothingLost for every instance whose   *)
(* clients neither idle nor delete a session, as both take the slot of a   *)
(* request and leave the request.                                          *)
(*                                                                         *)
(* The places of a request (the channel, the queue, the slots) follow from *)
(* its stage: only a request on its way is in the channel, only a waiting  *)
(* one queued, only a waiting or processing one in a slot.  Neither        *)
(* property speaks of the stage, so the invariant does.                    *)
(***************************************************************************)
\* An element of a sequence, and a sequence without repetitions.
In(e, s) == \E i \in DOMAIN s : s[i] = e
Once(s) == \A i, j \in DOMAIN s : s[i] = s[j] => i = j

\* Appending what is not there.
LEMMA AppendOnce ==
  ASSUME NEW s \in Seq(Req), NEW e \in Req
  PROVE  /\ \A r : In(r, Append(s, e)) <=> In(r, s) \/ r = e
         /\ Once(s) /\ ~In(e, s) => Once(Append(s, e))
<1>1. /\ DOMAIN s = 1 .. Len(s) /\ Len(s) \in Nat
      /\ DOMAIN Append(s, e) = 1 .. (Len(s) + 1)
      /\ \A i \in 1 .. Len(s) : Append(s, e)[i] = s[i]
      /\ Append(s, e)[Len(s) + 1] = e
  OBVIOUS
<1>2. \A i \in DOMAIN Append(s, e) : i \in DOMAIN s \/ i = Len(s) + 1
  BY <1>1
<1>3. /\ Len(s) + 1 \in DOMAIN Append(s, e) /\ Len(s) + 1 \notin DOMAIN s
      /\ \A i \in DOMAIN s : i \in DOMAIN Append(s, e)
  BY <1>1
<1> QED
  BY <1>1, <1>2, <1>3 DEF In, Once

\* Taking the first.
LEMMA TailOnce ==
  ASSUME NEW s \in Seq(Req), s # <<>>, Once(s)
  PROVE  /\ Head(s) \in Req /\ In(Head(s), s) /\ Once(Tail(s))
         /\ \A r : In(r, Tail(s)) <=> In(r, s) /\ r # Head(s)
<1>1. /\ Len(s) \in Nat /\ Len(s) >= 1 /\ DOMAIN s = 1 .. Len(s)
      /\ DOMAIN Tail(s) = 1 .. (Len(s) - 1)
      /\ \A i \in 1 .. (Len(s) - 1) : Tail(s)[i] = s[i + 1]
      /\ Head(s) = s[1] /\ Head(s) \in Req
  OBVIOUS
<1>2. \A i \in DOMAIN Tail(s) : i + 1 \in DOMAIN s /\ i + 1 # 1
  BY <1>1
<1>3. \A i \in DOMAIN s : i # 1 => i - 1 \in DOMAIN Tail(s) /\ Tail(s)[i - 1] = s[i]
  BY <1>1
<1>4. 1 \in DOMAIN s
  BY <1>1
<1>5. Once(Tail(s))
  BY <1>1, <1>2 DEF Once
<1>6. \A r : In(r, Tail(s)) => In(r, s) /\ r # Head(s)
  BY <1>1, <1>2, <1>4 DEF In, Once
<1>7. \A r : In(r, s) /\ r # Head(s) => In(r, Tail(s))
  BY <1>1, <1>3 DEF In
<1> QED
  BY <1>1, <1>4, <1>5, <1>6, <1>7 DEF In

-----------------------------------------------------------------------------
\* A request in the channel is on its way to the engine.
ChanInv ==
  /\ Once(chan)
  /\ \A r \in Req : In(r, chan) => req[r].st = "sent"

\* A queued request waits.
QueueInv ==
  /\ Once(queue)
  /\ \A r \in Req : In(r, queue) => req[r].st = "waiting"

\* A request in a slot waits for its prefill or is processed, and is in no other slot.
SlotsInv ==
  \A q \in SeqId : slots[q] # Null =>
    /\ req[slots[q]].st \in {"waiting", "processing"}
    /\ \A p \in SeqId : slots[p] = slots[q] => p = q

\* The two places a waiting request can be in exclude each other.
Apart == \A q \in SeqId : ~In(slots[q], queue)

\* An answered request is finished.
AnsweredIsGone == \A r \in Req : answer[r] # "none" => req[r].st = "gone"

PlaceInv == ChanInv /\ QueueInv /\ SlotsInv /\ Apart /\ AnsweredIsGone

\* A request that is not finished is where its stage says.
Present ==
  \A r \in Req :
    /\ req[r].st = "sent" => In(r, chan)
    /\ req[r].st \in {"waiting", "processing"} =>
         In(r, queue) \/ \E q \in SeqId : slots[q] = r

\* Null is no request.
LEMMA NullIsNoRequest == Null \notin Req
BY CacheAssumption, EngineAssumption DEF Req

\* The initial state.
LEMMA InitPlace == Init => PlaceInv /\ Present
<1> SUFFICES ASSUME Init PROVE PlaceInv /\ Present
  OBVIOUS
<1>1. /\ chan = <<>> /\ queue = <<>> /\ \A q \in SeqId : slots[q] = Null
      /\ \A r \in Req : req[r].st = "new" /\ answer[r] = "none"
  BY DEF Init, NewRequest
<1>2. \A e : ~In(e, <<>>)
  BY DEF In
<1>3. Once(<<>>)
  BY DEF Once
<1> QED
  BY <1>1, <1>2, <1>3
  DEF PlaceInv, Present, ChanInv, QueueInv, SlotsInv, Apart, AnsweredIsGone

\* What leaves the places and the stages alone keeps them.
LEMMA PlacesUnchanged ==
  ASSUME UNCHANGED <<chan, queue, slots, req, answer>>
  PROVE  (PlaceInv => PlaceInv') /\ (Present => Present')
BY DEF PlaceInv, Present, ChanInv, QueueInv, SlotsInv, Apart, AnsweredIsGone, In, Once

\* The stages when one request changes.
OneStage(r, st) ==
  req'[r].st = st /\ \A p \in Req \ {r} : req'[p].st = req[p].st

LEMMA BuildPromptPlace ==
  ASSUME IInv, PlaceInv, NEW r \in Req, BuildPrompt(r)
  PROVE  PlaceInv' /\ (Present => Present')
<1>1. req \in [Req -> RequestType]
  BY DEF IInv, TypeOK
<1>2. req[r].st = "new" /\ UNCHANGED <<chan, queue, slots, answer>>
  BY DEF BuildPrompt
<1>3. OneStage(r, "built")
  BY <1>1 DEF BuildPrompt, OneStage, RequestType
<1>4. ChanInv' /\ QueueInv'
  BY <1>2, <1>3 DEF PlaceInv, OneStage, ChanInv, QueueInv, In, Once
<1>5. SlotsInv'
  <2>1. slots \in [SeqId -> Req \cup {Null}]
    BY DEF IInv, TypeOK
  <2> QED
    BY <1>2, <1>3, <2>1 DEF PlaceInv, OneStage, SlotsInv
<1>6. Apart' /\ AnsweredIsGone'
  BY <1>2, <1>3 DEF PlaceInv, OneStage, Apart, AnsweredIsGone, In
<1>7. Present => Present'
  BY <1>2, <1>3 DEF Present, OneStage, In
<1> QED
  BY <1>4, <1>5, <1>6, <1>7 DEF PlaceInv

\* A request enters the channel.
LEMMA SendPlace ==
  ASSUME IInv, PlaceInv, NEW r \in Req, Send(r)
  PROVE  PlaceInv' /\ (Present => Present')
<1>1. req \in [Req -> RequestType] /\ slots \in [SeqId -> Req \cup {Null}] /\ chan \in Seq(Req)
  BY DEF IInv, TypeOK
<1>2. req[r].st = "built" /\ chan' = Append(chan, r) /\ UNCHANGED <<queue, slots, answer>>
  BY DEF Send
<1>3. OneStage(r, "sent")
  BY <1>1 DEF Send, OneStage, RequestType
<1>4. Once(chan) /\ ~In(r, chan)
  BY <1>2 DEF PlaceInv, ChanInv
<1>5. Once(chan') /\ \A e : In(e, chan') <=> In(e, chan) \/ e = r
  BY <1>1, <1>2, <1>4, AppendOnce
<1>6. ChanInv'
  BY <1>3, <1>5 DEF PlaceInv, OneStage, ChanInv
<1>7. QueueInv'
  BY <1>2, <1>3 DEF PlaceInv, OneStage, QueueInv, In, Once
<1>8. SlotsInv'
  BY <1>1, <1>2, <1>3 DEF PlaceInv, OneStage, SlotsInv
<1>9. Apart' /\ AnsweredIsGone'
  BY <1>2, <1>3 DEF PlaceInv, OneStage, Apart, AnsweredIsGone, In
<1>10. Present => Present'
  BY <1>2, <1>3, <1>5 DEF Present, OneStage, In
<1> QED
  BY <1>6, <1>7, <1>8, <1>9, <1>10 DEF PlaceInv

\* A request that is in no place is queued: its stage says that it was not queued before.
LEMMA QueuedPlace ==
  ASSUME IInv, PlaceInv, NEW r \in Req, req[r].st \in {"sent", "preparing"},
         OneStage(r, "waiting"), queue' = Append(queue, r), UNCHANGED <<slots, answer>>
  PROVE  QueueInv' /\ SlotsInv' /\ Apart' /\ AnsweredIsGone'
         /\ \A e : In(e, queue') <=> In(e, queue) \/ e = r
<1>1. slots \in [SeqId -> Req \cup {Null}] /\ queue \in Seq(Req)
  BY DEF IInv, TypeOK
<1>2. Once(queue) /\ ~In(r, queue)
  BY DEF PlaceInv, QueueInv
<1>3. Once(queue') /\ \A e : In(e, queue') <=> In(e, queue) \/ e = r
  BY <1>1, <1>2, AppendOnce
<1>4. QueueInv'
  BY <1>3 DEF PlaceInv, OneStage, QueueInv
<1>5. SlotsInv'
  BY <1>1 DEF PlaceInv, OneStage, SlotsInv
<1>6. \A q \in SeqId : slots[q] # r
  BY NullIsNoRequest DEF PlaceInv, SlotsInv
<1>7. Apart' /\ AnsweredIsGone'
  <2>1. \A q \in SeqId : slots'[q] = slots[q] /\ ~In(slots[q], queue')
    BY <1>3, <1>6 DEF PlaceInv, Apart
  <2>2. Apart'
    BY <2>1 DEF Apart
  <2>3. AnsweredIsGone'
    BY DEF PlaceInv, OneStage, AnsweredIsGone
  <2> QED
    BY <2>2, <2>3
<1> QED
  BY <1>3, <1>4, <1>5, <1>7

\* push: an image goes to the worker, a text prompt is queued.
LEMMA ReceivePlace ==
  ASSUME IInv, PlaceInv, Receive
  PROVE  PlaceInv' /\ (Present => Present')
<1> DEFINE r == Head(chan)
<1>1. req \in [Req -> RequestType] /\ slots \in [SeqId -> Req \cup {Null}] /\ chan \in Seq(Req)
  BY DEF IInv, TypeOK
<1>2. chan # <<>> /\ chan' = Tail(chan) /\ UNCHANGED <<slots, answer>>
  BY DEF Receive
<1>3. r \in Req /\ In(r, chan) /\ Once(chan') /\ \A e : In(e, chan') <=> In(e, chan) /\ e # r
  BY <1>1, <1>2, TailOnce DEF PlaceInv, ChanInv
<1>4. req[r].st = "sent"
  BY <1>3 DEF PlaceInv, ChanInv
<1>5. CASE r \in Images
  <2>1. req' = [req EXCEPT ![r].st = "preparing"] /\ queue' = queue
    BY <1>5 DEF Receive
  <2> HIDE DEF r
  <2>2. OneStage(r, "preparing")
    BY <1>1, <1>3, <2>1 DEF OneStage, RequestType
  <2>3. ChanInv'
    BY <1>3, <2>2 DEF PlaceInv, OneStage, ChanInv
  <2>4. QueueInv'
    BY <1>4, <2>1, <2>2 DEF PlaceInv, OneStage, QueueInv, In, Once
  <2>5. SlotsInv'
    BY <1>1, <1>2, <1>4, <2>2 DEF PlaceInv, OneStage, SlotsInv
  <2>6. Apart' /\ AnsweredIsGone'
    BY <1>2, <1>4, <2>1, <2>2 DEF PlaceInv, OneStage, Apart, AnsweredIsGone, In
  <2>7. Present => Present'
    <3>1. \A e : In(e, queue') <=> In(e, queue)
      BY <2>1 DEF In
    <3> QED
      BY <1>2, <1>3, <2>2, <3>1 DEF Present, OneStage
  <2> QED
    BY <2>3, <2>4, <2>5, <2>6, <2>7 DEF PlaceInv
<1>6. CASE r \notin Images
  <2>1. req' = [req EXCEPT ![r].st = "waiting"] /\ queue' = Append(queue, r)
    BY <1>6 DEF Receive
  <2> HIDE DEF r
  <2>2. OneStage(r, "waiting")
    BY <1>1, <1>3, <2>1 DEF OneStage, RequestType
  <2>3. QueueInv' /\ SlotsInv' /\ Apart' /\ AnsweredIsGone'
        /\ \A e : In(e, queue') <=> In(e, queue) \/ e = r
    BY <1>2, <1>3, <1>4, <2>1, <2>2, QueuedPlace
  <2>4. ChanInv'
    BY <1>3, <2>2 DEF PlaceInv, OneStage, ChanInv
  <2>5. Present => Present'
    BY <1>2, <1>3, <2>2, <2>3 DEF Present, OneStage
  <2> QED
    BY <2>3, <2>4, <2>5 DEF PlaceInv
<1> QED
  BY <1>5, <1>6

\* A request in no place is finished with an error.
LEMMA CollectPrepPlace ==
  ASSUME IInv, PlaceInv, NEW r \in Req, CollectPrep(r)
  PROVE  PlaceInv' /\ (Present => Present')
<1>1. /\ req \in [Req -> RequestType] /\ slots \in [SeqId -> Req \cup {Null}]
      /\ answer \in [Req -> {"none", "finish", "error"}]
  BY DEF IInv, TypeOK
<1>2. req[r].st = "preparing" /\ UNCHANGED <<chan, slots>>
  BY DEF CollectPrep
<1>3. \A st : OneStage(r, st) /\ st # "sent" => ChanInv'
  BY <1>2 DEF PlaceInv, OneStage, ChanInv, In, Once
<1>4. CASE /\ req' = [req EXCEPT ![r].st = "waiting"]
           /\ queue' = Append(queue, r)
           /\ UNCHANGED answer
  <2>1. OneStage(r, "waiting")
    BY <1>1, <1>4 DEF OneStage, RequestType
  <2>2. QueueInv' /\ SlotsInv' /\ Apart' /\ AnsweredIsGone'
        /\ \A e : In(e, queue') <=> In(e, queue) \/ e = r
    BY <1>2, <1>4, <2>1, QueuedPlace
  <2>3. Present => Present'
    <3>1. \A e : In(e, chan') <=> In(e, chan)
      BY <1>2 DEF In
    <3> QED
      BY <1>2, <2>1, <2>2, <3>1 DEF Present, OneStage
  <2> QED
    BY <1>3, <2>1, <2>2, <2>3 DEF PlaceInv
<1>5. CASE /\ req' = [req EXCEPT ![r].st = "gone"]
           /\ answer' = [answer EXCEPT ![r] = "error"]
           /\ UNCHANGED queue
  <2>1. OneStage(r, "gone")
    BY <1>1, <1>5 DEF OneStage, RequestType
  <2>2. QueueInv'
    BY <1>2, <1>5, <2>1 DEF PlaceInv, OneStage, QueueInv, In, Once
  <2>3. SlotsInv'
    BY <1>1, <1>2, <2>1 DEF PlaceInv, OneStage, SlotsInv
  <2>4. Apart'
    BY <1>2, <1>5 DEF PlaceInv, Apart, In
  <2>5. AnsweredIsGone'
    BY <1>1, <1>5, <2>1 DEF PlaceInv, OneStage, AnsweredIsGone
  <2>6. Present => Present'
    BY <1>2, <1>5, <2>1 DEF Present, OneStage, In
  <2> QED
    BY <1>3, <2>1, <2>2, <2>3, <2>4, <2>5, <2>6 DEF PlaceInv
<1> QED
  BY <1>4, <1>5 DEF CollectPrep

\* A state action takes at most the slots of requests away; a save takes none.
LEMMA ActionedPlace ==
  ASSUME IInv, PlaceInv, Actioned
  PROVE  PlaceInv' /\ (Actions \subseteq {"save"} /\ Present => Present')
<1>1. PICK s \in Session, a \in StateAction : Save(s, a) \/ Idle(s, a) \/ Delete(s, a)
  BY DEF Actioned
<1>2. UNCHANGED <<chan, queue, req, answer>>
  BY <1>1 DEF Save, Idle, Delete, workVars
<1>3. slots \in [SeqId -> Req \cup {Null}]
  BY DEF IInv, TypeOK
<1>4. \A q \in SeqId : slots'[q] = slots[q] \/ slots'[q] = Null
  <2>1. slots' = slots \/ \E q \in Source(s) : slots' = [slots EXCEPT ![q] = Null]
    BY <1>1 DEF Save, Idle, Delete, workVars
  <2> QED
    BY <1>3, <2>1
<1>5. ChanInv' /\ QueueInv' /\ AnsweredIsGone'
  BY <1>2 DEF PlaceInv, ChanInv, QueueInv, AnsweredIsGone, In, Once
<1>6. SlotsInv'
  BY <1>2, <1>3, <1>4 DEF PlaceInv, SlotsInv
<1>7. Apart'
  <2>1. ~In(Null, queue)
    BY NullIsNoRequest DEF IInv, TypeOK, In
  <2> QED
    BY <1>2, <1>4, <2>1 DEF PlaceInv, Apart, In
<1>8. ASSUME Actions \subseteq {"save"}, Present
      PROVE  Present'
  <2>1. a.kind = "save"
    BY <1>8 DEF StateAction
  <2>2. slots' = slots
    BY <1>1, <2>1 DEF Save, Idle, Delete, workVars
  <2> QED
    BY <1>2, <1>8, <2>2 DEF Present, In
<1> QED
  BY <1>5, <1>6, <1>7, <1>8 DEF PlaceInv

\* The head of the queue moves to a free slot.
LEMMA SchedulePlace ==
  ASSUME IInv, PlaceInv, Schedule
  PROVE  PlaceInv' /\ (Present => Present')
<1> DEFINE r == Head(queue)
           q == Target(SessionOf[r])
<1>1. /\ req \in [Req -> RequestType] /\ slots \in [SeqId -> Req \cup {Null}]
      /\ queue \in Seq(Req)
  BY DEF IInv, TypeOK
<1>2. queue # <<>> /\ queue' = Tail(queue) /\ UNCHANGED <<chan, answer>>
  BY DEF Schedule
<1>3. r \in Req /\ In(r, queue) /\ Once(queue')
      /\ \A e : In(e, queue') <=> In(e, queue) /\ e # r
  BY <1>1, <1>2, TailOnce DEF PlaceInv, QueueInv
<1>4. q \in SeqId /\ slots[q] = Null
  BY TargetFacts DEF Schedule, Free
<1>5. slots' = [slots EXCEPT ![q] = r] /\ \E off : req' = [req EXCEPT ![r].off = off]
  BY DEF Schedule
<1> HIDE DEF r, q
<1>6. \A p \in Req : req'[p].st = req[p].st
  BY <1>1, <1>3, <1>5 DEF RequestType
<1>7. /\ slots'[q] = r
      /\ \A p \in SeqId \ {q} : slots'[p] = slots[p] /\ slots[p] # r
  BY <1>1, <1>3, <1>4, <1>5 DEF PlaceInv, Apart
<1>8. req[r].st = "waiting"
  BY <1>3 DEF PlaceInv, QueueInv
<1>9. ChanInv' /\ AnsweredIsGone'
  BY <1>2, <1>6 DEF PlaceInv, ChanInv, AnsweredIsGone, In, Once
<1>10. QueueInv'
  BY <1>3, <1>6 DEF PlaceInv, QueueInv
<1>11. SlotsInv'
  BY <1>1, <1>3, <1>4, <1>6, <1>7, <1>8 DEF PlaceInv, SlotsInv
<1>12. Apart'
  BY <1>3, <1>7 DEF PlaceInv, Apart
<1>13. ASSUME Present PROVE Present'
  <2>1. \A p \in SeqId : slots[p] # Null => slots'[p] = slots[p]
    BY <1>4, <1>7
  <2>2. \A e \in Req : (\E p \in SeqId : slots[p] = e) => \E p \in SeqId : slots'[p] = e
    BY <2>1, NullIsNoRequest
  <2>3. \A e \in Req : In(e, queue) => In(e, queue') \/ \E p \in SeqId : slots'[p] = e
    BY <1>3, <1>4, <1>7
  <2>4. \A e : In(e, chan)' <=> In(e, chan)
    BY <1>2 DEF In
  <2> QED
    BY <1>6, <1>13, <2>2, <2>3, <2>4 DEF Present
<1> QED
  BY <1>9, <1>10, <1>11, <1>12, <1>13 DEF PlaceInv

\* After a batch a request is in its slot still, or it is finished, answered and its slot
\* free; requests without a slot are as they were.
LEMMA StepPlace ==
  ASSUME IInv, PlaceInv, Step
  PROVE  PlaceInv' /\ (Present => Present')
<1>1. /\ TypeOK /\ slots \in [SeqId -> Req \cup {Null}] /\ req \in [Req -> RequestType]
      /\ \A p \in Active : p \in SeqId /\ slots[p] \in Req /\ slots[p] # Null
  BY NullIsNoRequest DEF IInv, TypeOK, Active, Free
<1>2. PICK take \in Prefills : \E stops \in Stops(take) : \E mm \in MmEvals(take) :
        AfterBatch(take, stops, mm)
  BY DEF Step
<1>3. PICK stops \in Stops(take) : \E mm \in MmEvals(take) : AfterBatch(take, stops, mm)
  BY <1>2
<1>4. PICK mm \in MmEvals(take) : AfterBatch(take, stops, mm)
  BY <1>3
<1> DEFINE over == stops \cup Aborted(mm)
<1>5. over \subseteq Active /\ Sampled(take) \subseteq Active
  BY <1>1, SlotFacts DEF Stops, Sampled, Aborted, MmEvals, RequestState
<1>6. \A p \in SeqId : slots'[p] = IF p \in over THEN Null ELSE slots[p]
  BY <1>4 DEF AfterBatch
<1>7. UNCHANGED <<chan, queue>>
  BY DEF Step
<1>8. ASSUME NEW p \in Active
      PROVE  /\ req'[slots[p]] = Progressed(p, take, mm, stops)
             /\ \E w \in Active : slots[w] = slots[p]
  <2>1. SlotOf(slots[p]) \in Active /\ slots[SlotOf(slots[p])] = slots[p]
    BY DEF SlotOf
  <2>2. SlotOf(slots[p]) = p
    BY <1>1, <2>1 DEF PlaceInv, SlotsInv
  <2> QED
    BY <1>1, <1>4, <2>2 DEF AfterBatch
<1>9. ASSUME NEW r \in Req, \A p \in Active : slots[p] # r
      PROVE  req'[r] = req[r] /\ answer'[r] = answer[r]
  BY <1>4, <1>5, <1>9 DEF AfterBatch
<1>10. ASSUME NEW p \in Active
       PROVE  /\ p \in over => req'[slots[p]].st = "gone"
              /\ p \notin over => /\ req'[slots[p]].st \in {"waiting", "processing"}
                                  /\ answer'[slots[p]] = answer[slots[p]]
  <2> DEFINE e == req[slots[p]]
  <2>1. e \in RequestType /\ e.st \in {"waiting", "processing"}
    BY <1>1 DEF PlaceInv, SlotsInv
  <2>2. CASE p \in over
    BY <1>8, <2>1, <2>2 DEF Progressed, RequestType
  <2>3. CASE p \notin over
    <3>1. \/ req'[slots[p]] =
              [e EXCEPT !.st = "processing", !.n = PromptItems(slots[p]), !.gen = @ + 1]
          \/ req'[slots[p]] = [e EXCEPT !.n = @ + take[p]]
          \/ req'[slots[p]] = [e EXCEPT !.n = 1]
          \/ req'[slots[p]] = e
      BY <1>8, <2>3 DEF Progressed
    <3>2. req'[slots[p]].st \in {"waiting", "processing"}
      <4> HIDE DEF e
      <4> QED
        BY <2>1, <3>1 DEF RequestType
    <3>3. \A w \in over : slots[w] # slots[p]
      BY <1>1, <1>5, <2>3 DEF PlaceInv, SlotsInv
    <3>4. answer'[slots[p]] = answer[slots[p]]
      BY <1>1, <1>4, <3>3 DEF AfterBatch
    <3> QED
      BY <2>3, <3>2, <3>4
  <2> QED
    BY <2>2, <2>3
<1> HIDE DEF over
<1>11. \A p \in SeqId : slots[p] # Null => p \in Active
  BY DEF Active, Free
<1>12. \A r \in Req : In(r, chan) \/ In(r, queue) => req'[r] = req[r]
  <2>1. \A r \in Req : In(r, chan) => \A p \in Active : slots[p] # r
    BY <1>1 DEF PlaceInv, ChanInv, SlotsInv
  <2>2. \A r \in Req : In(r, queue) => \A p \in Active : slots[p] # r
    BY <1>1 DEF PlaceInv, Apart
  <2> QED
    BY <1>9, <2>1, <2>2
<1>13. ChanInv' /\ QueueInv'
  BY <1>7, <1>12 DEF PlaceInv, ChanInv, QueueInv, In, Once
<1>14. SlotsInv'
  BY <1>6, <1>10, <1>11 DEF PlaceInv, SlotsInv
<1>15. Apart'
  <2>1. ~In(Null, queue)
    BY NullIsNoRequest DEF IInv, TypeOK, In
  <2>2. \A p \in SeqId : ~In(slots'[p], queue)
    BY <1>6, <2>1 DEF PlaceInv, Apart
  <2> QED
    BY <1>7, <2>2 DEF Apart, In
<1>16. AnsweredIsGone'
  <2> SUFFICES ASSUME NEW r \in Req, answer'[r] # "none"
               PROVE  req'[r].st = "gone"
    BY DEF AnsweredIsGone
  <2>1. CASE \A p \in Active : slots[p] # r
    BY <1>9, <2>1 DEF PlaceInv, AnsweredIsGone
  <2>2. ASSUME NEW p \in Active, slots[p] = r
        PROVE  req'[r].st = "gone"
    <3>1. p \notin over => answer[r] = "none"
      BY <1>1, <2>2 DEF PlaceInv, AnsweredIsGone, SlotsInv
    <3> QED
      BY <1>10, <2>2, <3>1
  <2> QED
    BY <2>1, <2>2
<1>17. ASSUME Present PROVE Present'
  <2> SUFFICES ASSUME NEW r \in Req
               PROVE  /\ req'[r].st = "sent" => In(r, chan)
                      /\ req'[r].st \in {"waiting", "processing"} =>
                           In(r, queue) \/ \E q \in SeqId : slots'[q] = r
    BY <1>7 DEF Present, In
  <2>1. CASE \A p \in Active : slots[p] # r
    <3>1. \A p \in SeqId : slots[p] # r
      BY <1>11, <2>1, NullIsNoRequest
    <3> QED
      BY <1>9, <1>17, <2>1, <3>1 DEF Present
  <2>2. ASSUME NEW p \in Active, slots[p] = r
        PROVE  \/ req'[r].st = "gone"
               \/ req'[r].st \in {"waiting", "processing"} /\ p \in SeqId /\ slots'[p] = r
    BY <1>1, <1>6, <1>10, <2>2
  <2> QED
    BY <2>1, <2>2
<1> QED
  BY <1>13, <1>14, <1>15, <1>16, <1>17 DEF PlaceInv

\* Nothing that is on its way survives a kill.
LEMMA RestartPlace ==
  ASSUME IInv, PlaceInv, Restart
  PROVE  PlaceInv' /\ Present'
<1>1. req \in [Req -> RequestType]
  BY DEF IInv, TypeOK
<1>2. /\ chan' = <<>> /\ queue' = <<>> /\ \A q \in SeqId : slots'[q] = Null
      /\ req' = [r \in Req |-> IF r \in InFlight THEN [req[r] EXCEPT !.st = "gone"] ELSE req[r]]
      /\ answer' = [r \in Req |-> IF r \in InFlight THEN "error" ELSE answer[r]]
  BY DEF Restart
<1>3. \A r \in Req : /\ r \in InFlight => req'[r].st = "gone"
                     /\ r \notin InFlight => req'[r] = req[r] /\ req[r].st \in {"new", "gone"}
  BY <1>1, <1>2 DEF InFlight, RequestType
<1>4. (\A e : ~In(e, chan')) /\ (\A e : ~In(e, queue')) /\ Once(chan') /\ Once(queue')
  BY <1>2 DEF In, Once
<1>5. ChanInv' /\ QueueInv' /\ SlotsInv' /\ Apart'
  BY <1>2, <1>4 DEF ChanInv, QueueInv, SlotsInv, Apart
<1>6. AnsweredIsGone'
  BY <1>2, <1>3 DEF PlaceInv, AnsweredIsGone
<1>7. Present'
  BY <1>3 DEF Present
<1> QED
  BY <1>5, <1>6, <1>7 DEF PlaceInv

\* Every step keeps the invariant, and the second part when nothing but saves is asked for.
LEMMA NextPlace ==
  ASSUME IInv, PlaceInv, [Next]_vars
  PROVE  PlaceInv' /\ (Actions \subseteq {"save"} /\ Present => Present')
<1>1. CASE Handlers
  <2>1. CASE \E s \in Session : \E a \in StateAction : AskForAction(s, a)
    BY <2>1, PlacesUnchanged DEF AskForAction, workVars
  <2> QED
    BY <1>1, <2>1, BuildPromptPlace, SendPlace DEF Handlers
<1>2. CASE Receive
  BY <1>2, ReceivePlace
<1>3. CASE \E r \in Req : CollectPrep(r)
  BY <1>3, CollectPrepPlace
<1>4. CASE CopyActions \/ ClearAction \/ ScheduleFails \/ Drained \/ Scheduled \/ StepFails
  BY <1>4, PlacesUnchanged
  DEF CopyActions, ClearAction, ScheduleFails, Drained, Scheduled, StepFails, workVars
<1>5. CASE Actioned
  BY <1>5, ActionedPlace
<1>6. CASE Schedule
  BY <1>6, SchedulePlace
<1>7. CASE Step
  BY <1>7, StepPlace
<1>8. CASE Restart
  BY <1>8, RestartPlace
<1>9. CASE UNCHANGED vars
  BY <1>9, PlacesUnchanged DEF vars
<1> QED
  BY <1>1, <1>2, <1>3, <1>4, <1>5, <1>6, <1>7, <1>8, <1>9 DEF Next, Pull

LEMMA PlaceInvariant == Spec => []PlaceInv
<1>1. Init => PlaceInv
  BY InitPlace
<1>2. IInv /\ PlaceInv /\ [Next]_vars => PlaceInv'
  BY NextPlace
<1> QED
  BY <1>1, <1>2, InductiveInvariant, PTL DEF Spec

-----------------------------------------------------------------------------
\* A set all of whose elements are equal has at most one.
LEMMA AtMostOne ==
  ASSUME NEW S, \A x, y \in S : x = y
  PROVE  /\ Cardinality(S) \in {0, 1}
         /\ S = {} => Cardinality(S) = 0
         /\ S # {} => Cardinality(S) = 1
<1>1. S = {} \/ \E x \in S : S = {x}
  OBVIOUS
<1> QED
  BY <1>1, FS_EmptySet, FS_Singleton

\* A request's places, as the invariant has them.
LEMMA PlacesOf ==
  ASSUME IInv, PlaceInv, NEW r \in Req
  PROVE  /\ Places(r) \in {0, 1}
         /\ Places(r) = 1 <=>
              In(r, chan) \/ In(r, queue) \/ \E q \in SeqId : slots[q] = r
         /\ req[r].st = "gone" => Places(r) = 0
<1>1. \A x, y \in InChan(r) : x = y
  BY DEF PlaceInv, ChanInv, Once, InChan
<1>2. \A x, y \in InQueue(r) : x = y
  BY DEF PlaceInv, QueueInv, Once, InQueue
<1>3. \A x, y \in InSlots(r) : x = y
  BY NullIsNoRequest DEF PlaceInv, SlotsInv, InSlots
<1>4. InChan(r) # {} => InQueue(r) = {} /\ InSlots(r) = {} /\ req[r].st # "gone"
  BY NullIsNoRequest DEF PlaceInv, ChanInv, QueueInv, SlotsInv, In, InChan, InQueue, InSlots
<1>5. InQueue(r) # {} => InSlots(r) = {} /\ req[r].st # "gone"
  BY DEF PlaceInv, QueueInv, Apart, In, InQueue, InSlots
<1>6. InSlots(r) # {} => req[r].st # "gone"
  BY NullIsNoRequest DEF PlaceInv, SlotsInv, InSlots
<1>7. /\ InChan(r) # {} <=> In(r, chan)
      /\ InQueue(r) # {} <=> In(r, queue)
      /\ InSlots(r) # {} <=> \E q \in SeqId : slots[q] = r
  BY DEF In, InChan, InQueue, InSlots
<1>8. /\ InChan(r) = {} => Cardinality(InChan(r)) = 0
      /\ InChan(r) # {} => Cardinality(InChan(r)) = 1
  BY <1>1, AtMostOne
<1>9. /\ InQueue(r) = {} => Cardinality(InQueue(r)) = 0
      /\ InQueue(r) # {} => Cardinality(InQueue(r)) = 1
  BY <1>2, AtMostOne
<1>10. /\ InSlots(r) = {} => Cardinality(InSlots(r)) = 0
       /\ InSlots(r) # {} => Cardinality(InSlots(r)) = 1
  BY <1>3, AtMostOne
<1> QED
  BY <1>4, <1>5, <1>6, <1>7, <1>8, <1>9, <1>10 DEF Places

\* OnePlace: however handlers, worker, scheduler and retries interleave, a request is never
\* queued twice or given two slots, and nothing goes on for one that has its answer.
THEOREM RequestsInOnePlace == Spec => []OnePlace
<1>1. IInv /\ PlaceInv => OnePlace
  BY PlacesOf DEF OnePlace, PlaceInv, AnsweredIsGone
<1> QED
  BY <1>1, InductiveInvariant, PlaceInvariant, PTL

\* NothingLost: unless a client idles or deletes a session, a request that was sent is
\* somewhere until it is finished, whatever fails and is tried again.
THEOREM NoRequestLost ==
  ASSUME Actions \subseteq {"save"}
  PROVE  Spec => []NothingLost
<1>1. Init => Present
  BY InitPlace
<1>2. IInv /\ PlaceInv /\ Present /\ [Next]_vars => Present'
  BY NextPlace
<1>3. IInv /\ PlaceInv /\ Present => NothingLost
  <2> SUFFICES ASSUME IInv, PlaceInv, Present, NEW r \in Req,
                      req[r].st \notin {"new", "built", "preparing", "gone"}
               PROVE  Places(r) = 1
    BY DEF NothingLost
  <2>1. req[r].st \in {"sent", "waiting", "processing"}
    BY DEF IInv, TypeOK, RequestType, RequestState
  <2> QED
    BY <2>1, PlacesOf DEF Present
<1> QED
  BY <1>1, <1>2, <1>3, InductiveInvariant, PlaceInvariant, PTL DEF Spec
=============================================================================
