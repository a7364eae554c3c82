--------------------------- MODULE EngineOwnProofs ---------------------------
(***************************************************************************)
(* Proofs about module Engine: what the sessions hold.                     *)
(*                                                                         *)
(* Whatever is in a sequence, a RAM snapshot or a state file got there for *)
(* one session, and every move between the tiers takes it along with the   *)
(* session it belongs to.  This is Isolated, for every number of requests, *)
(* sessions and sequences, whatever is asked for and whatever fails.       *)
(***************************************************************************)
EXTENDS EngineProofs

\* No request forks another one (a fork inherits the cells of its parent), and templates
\* name files of their own: a template id that is a session's id, or that two sessions
\* use, names one state file for both.
Separate ==
  /\ \A r \in Req : ParentOf[r] = Null
  /\ \A s \in Session : TemplatesOf[s] \cap Session = {}
  /\ \A s, t \in Session : s # t => TemplatesOf[s] \cap TemplatesOf[t] = {}

\* The files a session is saved in.
Paths(s) == {s} \cup TemplatesOf[s]

\* Every cell was put there by a request of session s.
Of(s, cells) == \A i \in DOMAIN cells : SessionOf[cells[i].of] = s

\* A snapshot, if there is one, holds cells of session s only.
Mine(s, snap) == snap # Null => Of(s, snap.data)

\* A save that is asked for goes to a template of its session.
OwnSave(s, a) == a # Null /\ a.kind = "save" => a.path \in TemplatesOf[s]

\* What an entry of the session table says of its session's snapshots.
OwnEntry(s, e) == Mine(s, e.ram) /\ e.path \in Paths(s) /\ OwnSave(s, e.pending)

Own(c) ==
  /\ \A s \in Registered(c) :
       /\ OwnEntry(s, c.sess[s])
       /\ c.sess[s].vram # Null => Of(s, c.kv[c.sess[s].vram])
  /\ \A s \in Session : \A p \in Paths(s) : Mine(s, c.file[p])

\* The cells of a slot belong to the session of its request, or to the request if it has
\* no session; and nobody else owns its sequence.
SlotOwn(q, r) ==
  /\ Owners(cache, q) \subseteq {SessionOf[r]}
  /\ SessionOf[r] # Null => Of(SessionOf[r], cache.kv[q])
  /\ SessionOf[r] = Null => \A i \in DOMAIN cache.kv[q] : cache.kv[q][i].of = r

SlotsOwn == \A q \in Active : SlotOwn(q, slots[q])

\* The copied saves.
AskedOwn == \A x \in todo : OwnSave(x[1], x[2])

OwnInv == Own(cache) /\ SlotsOwn /\ AskedOwn

\* The files of two sessions are different files.
LEMMA PathsFacts ==
  ASSUME Separate, NEW s \in Session
  PROVE  /\ Paths(s) \subseteq Path /\ s \in Paths(s)
         /\ \A t \in Session \ {s} : Paths(s) \cap Paths(t) = {}
BY EngineAssumption DEF Separate, Paths, Path

\* No cells belong to everybody.
LEMMA NoCellsOf == \A s : Of(s, <<>>)
BY DEF Of

\* What the methods have in common that move session s, or change its counters: they
\* hand out no sequence, clear some, and write nothing but files of s.
Quiet(s, c, d) ==
  /\ Moves({}, c, d)
  /\ \A q \in SeqId : d.kv[q] = c.kv[q] \/ d.kv[q] = <<>>
  /\ \A t \in Session \ {s} : d.sess[t] = c.sess[t]
  /\ OwnEntry(s, d.sess[s])
  /\ \A p \in Path : d.file[p] = c.file[p] \/ (p \in Paths(s) /\ Mine(s, d.file[p]))

LEMMA QuietTransitive ==
  ASSUME NEW s, NEW c, NEW d, NEW f, Quiet(s, c, d), Quiet(s, d, f)
  PROVE  Quiet(s, c, f)
<1>1. Moves({}, c, f)
  BY MovesTransitive DEF Quiet
<1> QED
  BY <1>1 DEF Quiet

LEMMA QuietSame ==
  ASSUME NEW c \in CacheType, Own(c), NEW s \in Registered(c)
  PROVE  Quiet(s, c, c)
BY SameSessMoves DEF Quiet, Own

LEMMA QuietOwn ==
  ASSUME Separate, NEW c \in CacheType, NEW d, NEW s \in Registered(c), Own(c), Quiet(s, c, d)
  PROVE  Own(d)
<1>1. d \in CacheType /\ Registered(d) = Registered(c) /\ s \in Session
  BY DEF Quiet, Moves, Registered
<1>2. \A t \in Registered(d) : OwnEntry(t, d.sess[t])
  BY <1>1 DEF Quiet, Own, Registered
<1>3. ASSUME NEW t \in Registered(d), d.sess[t].vram # Null
      PROVE  Of(t, d.kv[d.sess[t].vram])
  <2>1. d.sess[t].vram = c.sess[t].vram /\ d.sess[t].vram \in SeqId
    BY <1>1, <1>3, CacheParts DEF Quiet, Moves, TakenOnlyBy, SessionType
  <2>2. Of(t, c.kv[c.sess[t].vram])
    BY <1>1, <1>3, <2>1 DEF Own
  <2> QED
    BY <2>1, <2>2, NoCellsOf DEF Quiet
<1>4. ASSUME NEW t \in Session, NEW p \in Paths(t)
      PROVE  Mine(t, d.file[p])
  <2>1. p \in Path /\ (p \in Paths(s) => t = s)
    BY <1>1, PathsFacts
  <2> QED
    BY <2>1 DEF Quiet, Own
<1> QED
  BY <1>2, <1>3, <1>4 DEF Own

-----------------------------------------------------------------------------
\* A state file of the session that could not be written.
LEMMA WriteFailuresQuiet ==
  ASSUME NEW c \in CacheType, NEW s \in Registered(c), OwnEntry(s, c.sess[s]),
         NEW p \in Path, p \in Paths(s), NEW head \in Nat, NEW d \in WriteFailures(c, p, head)
  PROVE  Quiet(s, c, d)
<1> DEFINE cut == [data |-> <<>>, head |-> head]
<1>1. d = c \/ d = [c EXCEPT !.file[p] = Null] \/ d = [c EXCEPT !.file[p] = cut]
  BY DEF WriteFailures
<1>2. Mine(s, cut) /\ Mine(s, Null)
  BY NoCellsOf DEF Mine
<1> HIDE DEF cut
<1>3. /\ d.kv = c.kv /\ d.sess = c.sess
      /\ \A f \in Path : d.file[f] = c.file[f] \/ (f = p /\ d.file[f] \in {Null, cut})
  BY <1>1 DEF CacheType
<1>4. Moves({}, c, d)
  BY WriteFailuresFacts
<1> QED
  BY <1>2, <1>3, <1>4 DEF Quiet

\* evict: the snapshot takes the cells of the sequence.
LEMMA EvictedQuiet ==
  ASSUME NEW c \in CacheType, NEW q \in SeqId, NEW s \in Registered(c),
         OwnEntry(s, c.sess[s]), Of(s, c.kv[q])
  PROVE  Quiet(s, c, Evicted(c, q, s))
<1> DEFINE snap == Snapshot(c, q, s)
           p == c.sess[s].path
           toDisk == [c.sess[s] EXCEPT !.vram = Null, !.tier = "disk", !.ram = Null]
           toRam == [c.sess[s] EXCEPT !.vram = Null, !.tier = "ram", !.ram = snap]
           d == Evicted(c, q, s)
<1>1. s \in Session /\ c.sess[s] \in SessionType /\ p \in Path /\ p \in Paths(s)
  BY CacheParts DEF SessionType, OwnEntry
<1>2. Mine(s, snap)
  BY DEF Mine, Snapshot
<1>3. OwnEntry(s, toDisk) /\ OwnEntry(s, toRam)
  BY <1>1, <1>2 DEF OwnEntry, Mine, SessionType
<1>4. Moves({}, c, d)
  BY EvictedFacts
<1>5. CASE c.unified
  <2>1. d = [c EXCEPT !.kv[q] = <<>>, !.sess[s] = toDisk, !.file[p] = snap]
    BY <1>5 DEF Evicted
  <2> HIDE DEF d, snap, p, toDisk
  <2>2. /\ d.sess[s] = toDisk /\ \A t \in Session \ {s} : d.sess[t] = c.sess[t]
        /\ \A x \in SeqId : d.kv[x] = c.kv[x] \/ d.kv[x] = <<>>
        /\ \A f \in Path : d.file[f] = c.file[f] \/ (f = p /\ d.file[f] = snap)
    BY <1>1, <2>1 DEF CacheType
  <2> QED
    BY <1>1, <1>2, <1>3, <1>4, <2>2 DEF Quiet, d
<1>6. CASE ~c.unified
  <2>1. d = [c EXCEPT !.kv[q] = <<>>, !.sess[s] = toRam]
    BY <1>6 DEF Evicted
  <2> HIDE DEF d, toRam
  <2>2. /\ d.sess[s] = toRam /\ \A t \in Session \ {s} : d.sess[t] = c.sess[t]
        /\ \A x \in SeqId : d.kv[x] = c.kv[x] \/ d.kv[x] = <<>>
        /\ d.file = c.file
    BY <1>1, <2>1 DEF CacheType
  <2> QED
    BY <1>3, <1>4, <2>2 DEF Quiet, d
<1> QED
  BY <1>5, <1>6

\* A failed evict leaves a file of the session cut short at worst.
LEMMA EvictFailuresQuiet ==
  ASSUME NEW c \in CacheType, Own(c), NEW q \in SeqId, NEW s \in Registered(c),
         NEW d \in EvictFailures(c, q, s)
  PROVE  Quiet(s, c, d)
<1> DEFINE e == [c.sess[s] EXCEPT !.vram = Null]
           cleared == [c EXCEPT !.kv[q] = <<>>, !.sess[s] = e]
<1>1. /\ s \in Session /\ c.sess[s].path \in Path /\ c.sess[s].head \in Nat
      /\ e \in SessionType /\ e.vram = Null
  BY CacheParts DEF SessionType
<1>2. OwnEntry(s, e) /\ c.sess[s].path \in Paths(s)
  <2>1. OwnEntry(s, c.sess[s])
    BY DEF Own
  <2> QED
    BY <2>1, CacheParts DEF OwnEntry, SessionType
<1>3. d = c \/ d \in WriteFailures(cleared, c.sess[s].path, c.sess[s].head)
  BY DEF EvictFailures
<1> HIDE DEF e
<1>4. cleared \in CacheType /\ OneEntry(s, e, c, cleared) /\ cleared.file = c.file
      /\ \A x \in SeqId : cleared.kv[x] = c.kv[x] \/ cleared.kv[x] = <<>>
  BY <1>1, NoCells DEF CacheType, OneEntry
<1> HIDE DEF cleared
<1>5. Moves({}, c, cleared)
  BY <1>1, <1>4, EntryMoves
<1>6. Quiet(s, c, cleared) /\ OwnEntry(s, cleared.sess[s]) /\ s \in Registered(cleared)
  BY <1>2, <1>4, <1>5 DEF Quiet, OneEntry, Moves
<1>7. Quiet(s, c, c)
  BY QuietSame
<1> QED
  BY <1>1, <1>2, <1>3, <1>4, <1>6, <1>7, WriteFailuresQuiet, QuietTransitive

\* save_to_disk: the file takes the cells of the sequence.
LEMMA SavedToDiskQuiet ==
  ASSUME NEW c \in CacheType, NEW q \in SeqId, NEW s \in Registered(c),
         OwnEntry(s, c.sess[s]), Of(s, c.kv[q]), NEW p \in Path, p \in Paths(s)
  PROVE  Quiet(s, c, SavedToDisk(c, q, s, p))
<1> DEFINE e == [Clamped(c.sess[s]) EXCEPT !.path = p]
           snap == [data |-> c.kv[q], head |-> Clamped(c.sess[s]).head]
           d == SavedToDisk(c, q, s, p)
<1>1. s \in Session /\ c.sess[s] \in SessionType
  BY CacheParts
<1>2. Mine(s, snap)
  BY DEF Mine
<1>3. OwnEntry(s, e)
  BY <1>1 DEF OwnEntry, SessionType, Clamped
<1>4. Moves({}, c, d)
  BY SavedToDiskFacts
<1>5. d = [c EXCEPT !.sess[s] = e, !.file[p] = snap]
  BY DEF SavedToDisk
<1> HIDE DEF d, e, snap
<1>6. /\ d.sess[s] = e /\ \A t \in Session \ {s} : d.sess[t] = c.sess[t]
      /\ d.kv = c.kv
      /\ \A f \in Path : d.file[f] = c.file[f] \/ (f = p /\ d.file[f] = snap)
  BY <1>1, <1>5 DEF CacheType
<1> QED
  BY <1>2, <1>3, <1>4, <1>6 DEF Quiet, d

\* save_ram_to_disk: the file takes the cells of the snapshot.
LEMMA SavedRamToDiskQuiet ==
  ASSUME NEW c \in CacheType, NEW s \in Registered(c), OwnEntry(s, c.sess[s]),
         c.sess[s].ram # Null, NEW p \in Path, p \in Paths(s)
  PROVE  Quiet(s, c, SavedRamToDisk(c, s, p))
<1> DEFINE k == Clamped(c.sess[s])
           e == [k EXCEPT !.path = p, !.tier = "disk",
                          !.ram = IF c.unified THEN k.ram ELSE Null]
           snap == [data |-> k.ram.data, head |-> k.head]
           d == SavedRamToDisk(c, s, p)
<1>1. s \in Session /\ c.sess[s] \in SessionType
  BY CacheParts
<1>2. k \in SessionType /\ k.ram = c.sess[s].ram /\ k.pending = c.sess[s].pending
  BY <1>1 DEF SessionType, Clamped
<1>3. d = [c EXCEPT !.sess[s] = e, !.file[p] = snap]
  BY DEF SavedRamToDisk
<1> HIDE DEF k
<1>4. OwnEntry(s, e)
  BY <1>2 DEF OwnEntry, Mine, SessionType
<1>5. Mine(s, snap)
  BY <1>2 DEF OwnEntry, Mine
<1>6. Moves({}, c, d)
  BY SavedRamToDiskFacts
<1> HIDE DEF d, e, snap
<1>7. /\ d.sess[s] = e /\ \A t \in Session \ {s} : d.sess[t] = c.sess[t]
      /\ d.kv = c.kv
      /\ \A f \in Path : d.file[f] = c.file[f] \/ (f = p /\ d.file[f] = snap)
  BY <1>1, <1>3 DEF CacheType
<1> QED
  BY <1>4, <1>5, <1>6, <1>7 DEF Quiet, d

\* A failed save.
LEMMA SaveFailuresQuiet ==
  ASSUME NEW c \in CacheType, NEW s \in Registered(c), OwnEntry(s, c.sess[s]),
         NEW p \in Path, p \in Paths(s), NEW d \in SaveFailures(c, s, p)
  PROVE  Quiet(s, c, d)
<1> DEFINE e == Clamped(c.sess[s])
           clamped == [c EXCEPT !.sess[s] = e]
<1>1. s \in Session /\ c.sess[s] \in SessionType
  BY CacheParts
<1>2. e \in SessionType /\ e.vram = c.sess[s].vram /\ e.head \in Nat
  BY <1>1, ClampedFacts
<1>3. OwnEntry(s, e)
  BY <1>1 DEF OwnEntry, SessionType, Clamped
<1>4. d \in WriteFailures(clamped, p, e.head)
  BY DEF SaveFailures
<1> HIDE DEF e
<1>5. /\ clamped \in CacheType /\ OneEntry(s, e, c, clamped)
      /\ clamped.kv = c.kv /\ clamped.file = c.file
  BY <1>1, <1>2 DEF CacheType, OneEntry
<1> HIDE DEF clamped
<1>6. Moves({}, c, clamped)
  BY <1>2, <1>5, EntryMoves
<1>7. Quiet(s, c, clamped) /\ s \in Registered(clamped) /\ OwnEntry(s, clamped.sess[s])
  BY <1>3, <1>5, <1>6 DEF Quiet, OneEntry, Moves
<1> QED
  BY <1>2, <1>4, <1>5, <1>7, WriteFailuresQuiet, QuietTransitive

-----------------------------------------------------------------------------
\* Slots keep their cells and their owners, or lose them.
LEMMA SlotsKeep ==
  ASSUME SlotsOwn, \A q \in SeqId : slots'[q] = slots[q] \/ slots'[q] = Null,
         \A q \in SeqId : cache'.kv[q] = cache.kv[q] \/ cache'.kv[q] = <<>>,
         \A q \in SeqId : Owners(cache', q) \subseteq Owners(cache, q)
  PROVE  SlotsOwn'
<1>1. ASSUME NEW q \in Active'
      PROVE  SlotOwn(q, slots[q])'
  <2>1. q \in SeqId /\ slots'[q] # Null /\ slots'[q] = slots[q] /\ q \in Active
    BY <1>1 DEF Active, Free
  <2>2. SlotOwn(q, slots[q])
    BY <2>1 DEF SlotsOwn
  <2>3. cache'.kv[q] = cache.kv[q] \/ cache'.kv[q] = <<>>
    BY <2>1
  <2>4. Owners(cache', q) \subseteq {SessionOf[slots[q]]}
    BY <2>1, <2>2 DEF SlotOwn
  <2>5. SessionOf[slots[q]] # Null => Of(SessionOf[slots[q]], cache'.kv[q])
    BY <2>2, <2>3, NoCellsOf DEF SlotOwn
  <2>6. SessionOf[slots[q]] = Null =>
          \A i \in DOMAIN cache'.kv[q] : cache'.kv[q][i].of = slots[q]
    BY <2>2, <2>3 DEF SlotOwn
  <2> QED
    BY <2>1, <2>4, <2>5, <2>6 DEF SlotOwn, Owners, Registered
<1> QED
  BY <1>1 DEF SlotsOwn

\* A quiet change of the cache, with the slots as they were or given up.
LEMMA QuietStep ==
  ASSUME Separate, IInv, OwnInv, NEW s \in Registered(cache), Quiet(s, cache, cache'),
         \A q \in SeqId : slots'[q] = slots[q] \/ slots'[q] = Null,
         \A x \in todo' : x \in todo
  PROVE  OwnInv'
<1>1. Own(cache')
  BY QuietOwn DEF OwnInv, IInv, TypeOK
<1>2. \A q \in SeqId : Owners(cache', q) \subseteq Owners(cache, q)
  BY NoneTaken DEF Quiet, Moves
<1>3. SlotsOwn'
  BY <1>2, SlotsKeep DEF Quiet, OwnInv
<1>4. AskedOwn'
  BY DEF OwnInv, AskedOwn
<1> QED
  BY <1>1, <1>3, <1>4 DEF OwnInv, Own, Registered

\* What touches neither the cache nor the slots.
LEMMA OwnUnchanged ==
  ASSUME OwnInv, UNCHANGED <<cache, slots>>, \A x \in todo' : OwnSave(x[1], x[2])
  PROVE  OwnInv'
<1>1. Own(cache)' /\ Active' = Active
  BY DEF OwnInv, Own, Registered, Active, Free
<1>2. SlotsOwn'
  BY <1>1 DEF OwnInv, SlotsOwn, SlotOwn, Owners, Registered
<1> QED
  BY <1>1, <1>2 DEF OwnInv, AskedOwn

\* Initially nothing is stored.
LEMMA InitOwn == Init => OwnInv
<1> SUFFICES ASSUME Init PROVE OwnInv
  OBVIOUS
<1>1. PICK unified \in BOOLEAN : cache = EmptyCache(unified)
  BY DEF Init
<1>2. Registered(cache) = {} /\ \A p \in Path : cache.file[p] = Null
  BY <1>1 DEF EmptyCache, Registered
<1>3. \A s \in Session : Paths(s) \subseteq Path
  BY EngineAssumption DEF Paths, Path
<1>4. Own(cache)
  BY <1>2, <1>3 DEF Own, Mine
<1>5. Active = {} /\ todo = {}
  BY DEF Init, Active, Free
<1> QED
  BY <1>4, <1>5 DEF OwnInv, SlotsOwn, AskedOwn

\* Asking for a state action, and clearing one, writes the pending field of a session.
LEMMA PendingOwn ==
  ASSUME Separate, IInv, OwnInv, NEW s \in Registered(cache),
         NEW a \in StateAction \cup {Null}, OwnSave(s, a),
         cache' = [cache EXCEPT !.sess[s].pending = a], UNCHANGED <<slots, todo>>
  PROVE  OwnInv'
<1> DEFINE e == [cache.sess[s] EXCEPT !.pending = a]
<1>1. cache \in CacheType /\ s \in Session /\ cache.sess[s] \in SessionType
  BY CacheParts DEF IInv, TypeOK
<1>2. e \in SessionType /\ e.vram = cache.sess[s].vram
  BY <1>1 DEF SessionType
<1>3. OwnEntry(s, e)
  BY <1>1 DEF OwnInv, Own, OwnEntry, SessionType
<1>4. cache' = [cache EXCEPT !.sess[s] = e]
  OBVIOUS
<1> HIDE DEF e
<1>5. /\ cache' \in CacheType /\ OneEntry(s, e, cache, cache')
      /\ cache'.kv = cache.kv /\ cache'.file = cache.file
  <2>1. cache' \in CacheType
    BY <1>1, <1>2, <1>4, SessUpdate
  <2>2. OneEntry(s, e, cache, cache')
    BY <1>1, <1>4 DEF CacheType, OneEntry
  <2>3. cache'.kv = cache.kv /\ cache'.file = cache.file
    BY <1>1, <1>4 DEF CacheType
  <2> QED
    BY <2>1, <2>2, <2>3
<1>6. Moves({}, cache, cache')
  BY <1>1, <1>2, <1>5, EntryMoves
<1>7. Quiet(s, cache, cache')
  BY <1>3, <1>5, <1>6 DEF Quiet, OneEntry
<1> QED
  BY <1>7, QuietStep

\* The sequence a save or an idle reads holds the session's own cells.
LEMMA SourceOwn ==
  ASSUME IInv, OwnInv, NEW s \in Registered(cache), NEW q \in Source(s)
  PROVE  q \in SeqId /\ Of(s, cache.kv[q])
<1>1. s \in Session /\ s # Null
  BY CacheAssumption DEF Registered
<1>2. q \in SeqId
  BY <1>1, SourceFacts
<1>3. CASE q \in ActiveOf(s)
  <2>1. q \in Active /\ SessionOf[slots[q]] = s
    BY <1>3 DEF ActiveOf
  <2>2. SlotOwn(q, slots[q])
    BY <2>1 DEF OwnInv, SlotsOwn
  <2> QED
    BY <1>1, <1>2, <2>1, <2>2 DEF SlotOwn
<1>4. CASE q \notin ActiveOf(s)
  <2>1. cache.sess[s].vram # Null /\ q = cache.sess[s].vram
    BY <1>4 DEF Source
  <2> QED
    BY <1>2, <2>1 DEF OwnInv, Own
<1> QED
  BY <1>2, <1>3, <1>4

\* Action::Save, whichever of its sources is read and whatever fails.
LEMMA SaveOwn ==
  ASSUME Separate, IInv, OwnInv, NEW s \in Session, NEW a \in StateAction, Save(s, a)
  PROVE  OwnInv'
<1> DEFINE failures(c) == IF "save" \in Faults THEN SaveFailures(c, s, a.path) ELSE {}
           fromRam(c) == IF c.sess[s].ram = Null THEN {c}
                         ELSE {SavedRamToDisk(c, s, a.path)} \cup failures(c)
<1>1. /\ cache \in CacheType /\ Own(cache) /\ s \in Registered(cache)
      /\ NextAction(s, a) /\ Source(s) \subseteq SeqId
  BY NextActionFacts, SourceFacts DEF IInv, TypeOK, OwnInv, Save
<1>2. a.path \in Paths(s) /\ a.path \in Path
  <2>1. OwnSave(s, a) /\ a # Null /\ a.kind = "save"
    BY <1>1, NullAssumption DEF OwnInv, AskedOwn, NextAction, Save
  <2> QED
    BY <2>1, PathsFacts DEF OwnSave, Paths
<1>3. ASSUME NEW c, Quiet(s, cache, c)
      PROVE  (\A d \in failures(c) : Quiet(s, cache, d))
             /\ (\A d \in fromRam(c) : Quiet(s, cache, d))
  <2>1. c \in CacheType /\ s \in Registered(c) /\ OwnEntry(s, c.sess[s])
    BY <1>1, <1>3 DEF Quiet, Moves
  <2>2. \A d \in failures(c) : Quiet(s, cache, d)
    BY <1>2, <1>3, <2>1, SaveFailuresQuiet, QuietTransitive
  <2>3. c.sess[s].ram # Null => Quiet(s, cache, SavedRamToDisk(c, s, a.path))
    BY <1>2, <1>3, <2>1, SavedRamToDiskQuiet, QuietTransitive
  <2> QED
    BY <1>3, <2>2, <2>3
<1>4. \/ \E q \in Source(s) : cache' = SavedToDisk(cache, q, s, a.path)
      \/ cache' \in fromRam(cache)
      \/ \E c \in {cache} \cup failures(cache) : cache' \in fromRam(c) \/ cache' = c
  BY DEF Save
<1> HIDE DEF failures, fromRam
<1>5. Quiet(s, cache, cache)
  BY <1>1, QuietSame
<1>6. \A q \in Source(s) : Quiet(s, cache, SavedToDisk(cache, q, s, a.path))
  BY <1>1, <1>2, SourceOwn, SavedToDiskQuiet DEF Own
<1>7. Quiet(s, cache, cache')
  BY <1>3, <1>4, <1>5, <1>6
<1>8. slots' = slots /\ \A x \in todo' : x \in todo
  BY <1>1 DEF Save, NextAction, workVars
<1> QED
  BY <1>1, <1>7, <1>8, QuietStep

\* Action::Idle.
LEMMA IdleOwn ==
  ASSUME Separate, IInv, OwnInv, NEW s \in Session, NEW a \in StateAction, Idle(s, a)
  PROVE  OwnInv'
<1>1. /\ cache \in CacheType /\ Own(cache) /\ s \in Registered(cache) /\ NextAction(s, a)
      /\ Source(s) \subseteq SeqId /\ slots \in [SeqId -> Req \cup {Null}]
  BY NextActionFacts, SourceFacts DEF IInv, TypeOK, OwnInv, Idle
<1>2. \/ cache' = cache
      \/ \E q \in Source(s) : cache' = Evicted(cache, q, s)
      \/ \E q \in Source(s) : cache' \in EvictFailures(cache, q, s)
  BY DEF Idle
<1>3. \A q \in Source(s) : Quiet(s, cache, Evicted(cache, q, s))
  BY <1>1, SourceOwn, EvictedQuiet DEF Own
<1>4. Quiet(s, cache, cache')
  BY <1>1, <1>2, <1>3, QuietSame, EvictFailuresQuiet
<1>5. slots' = slots \/ \E q \in Source(s) : slots' = [slots EXCEPT ![q] = Null]
  BY DEF Idle
<1>6. \A q \in SeqId : slots'[q] = slots[q] \/ slots'[q] = Null
  BY <1>1, <1>5
<1>7. \A x \in todo' : x \in todo
  BY <1>1 DEF NextAction
<1> QED
  BY <1>1, <1>4, <1>6, <1>7, QuietStep

\* Action::Delete forgets the session, its sequence and its file.
LEMMA DeleteOwn ==
  ASSUME Separate, IInv, OwnInv, NEW s \in Session, NEW a \in StateAction, Delete(s, a)
  PROVE  OwnInv'
<1> DEFINE Gone(c) == [c EXCEPT !.sess[s] = Null, !.file[c.sess[s].path] = Null]
<1>1. /\ cache \in CacheType /\ s \in Registered(cache) /\ NextAction(s, a)
      /\ Source(s) \subseteq SeqId /\ slots \in [SeqId -> Req \cup {Null}]
  BY NextActionFacts, SourceFacts DEF IInv, TypeOK, Delete
<1>2. ASSUME NEW c \in CacheType, c.sess = cache.sess, c.file = cache.file,
             \A q \in SeqId : c.kv[q] = cache.kv[q] \/ c.kv[q] = <<>>
      PROVE  /\ Gone(c) \in CacheType /\ Gone(c).sess[s] = Null
             /\ \A t \in Session \ {s} : Gone(c).sess[t] = cache.sess[t]
             /\ \A q \in SeqId : Gone(c).kv[q] = cache.kv[q] \/ Gone(c).kv[q] = <<>>
             /\ \A p \in Path : Gone(c).file[p] = cache.file[p] \/ Gone(c).file[p] = Null
  <2>1. c.sess[s].path \in Path
    BY <1>1, <1>2, CacheParts DEF SessionType
  <2>2. /\ Gone(c) \in CacheType /\ Gone(c).sess[s] = Null
        /\ \A t \in Session \ {s} : Gone(c).sess[t] = cache.sess[t]
    BY <1>2, <2>1 DEF CacheType
  <2>3. Gone(c).kv = c.kv /\ \A p \in Path : Gone(c).file[p] = c.file[p] \/ Gone(c).file[p] = Null
    BY <2>1 DEF CacheType
  <2> QED
    BY <1>2, <2>2, <2>3
<1>3. \A q \in Source(s) : LET c == ClearSequence(cache, q)
                           IN  /\ c \in CacheType /\ c.sess = cache.sess /\ c.file = cache.file
                               /\ \A p \in SeqId : c.kv[p] = cache.kv[p] \/ c.kv[p] = <<>>
  <2>1. ASSUME NEW q \in SeqId
        PROVE  /\ ClearSequence(cache, q).file = cache.file
               /\ \A p \in SeqId : \/ ClearSequence(cache, q).kv[p] = cache.kv[p]
                                   \/ ClearSequence(cache, q).kv[p] = <<>>
    BY <1>1 DEF ClearSequence, CacheType
  <2> QED
    BY <1>1, <2>1, ClearSequenceFacts
<1>4. \/ cache' = Gone(cache)
      \/ \E q \in Source(s) : cache' = Gone(ClearSequence(cache, q))
  BY DEF Delete
<1> HIDE DEF Gone
<1>5. /\ cache' \in CacheType /\ cache'.sess[s] = Null
      /\ \A t \in Session \ {s} : cache'.sess[t] = cache.sess[t]
      /\ \A q \in SeqId : cache'.kv[q] = cache.kv[q] \/ cache'.kv[q] = <<>>
      /\ \A p \in Path : cache'.file[p] = cache.file[p] \/ cache'.file[p] = Null
  BY <1>1, <1>2, <1>3, <1>4
<1>6. \A t \in Registered(cache') : t \in Registered(cache) /\ cache'.sess[t] = cache.sess[t]
  BY <1>5 DEF Registered
<1>7. Own(cache')
  <2>1. ASSUME NEW t \in Registered(cache')
        PROVE  /\ OwnEntry(t, cache'.sess[t])
               /\ cache'.sess[t].vram # Null => Of(t, cache'.kv[cache'.sess[t].vram])
    <3>1. /\ t \in Registered(cache) /\ cache'.sess[t] = cache.sess[t]
          /\ cache.sess[t].vram # Null => cache.sess[t].vram \in SeqId
      BY <1>1, <1>6, CacheParts DEF SessionType
    <3>2. /\ OwnEntry(t, cache.sess[t])
          /\ cache.sess[t].vram # Null => Of(t, cache.kv[cache.sess[t].vram])
      BY <3>1 DEF OwnInv, Own
    <3> QED
      BY <1>5, <3>1, <3>2, NoCellsOf
  <2>2. ASSUME NEW t \in Session, NEW p \in Paths(t)
        PROVE  Mine(t, cache'.file[p])
    <3>1. p \in Path /\ Mine(t, cache.file[p])
      BY PathsFacts DEF OwnInv, Own
    <3> QED
      BY <1>5, <3>1 DEF Mine
  <2> QED
    BY <2>1, <2>2 DEF Own
<1>8. \A q \in SeqId : Owners(cache', q) \subseteq Owners(cache, q)
  BY <1>6 DEF Owners
<1>9. slots' = slots \/ \E q \in Source(s) : slots' = [slots EXCEPT ![q] = Null]
  BY DEF Delete
<1>10. \A q \in SeqId : slots'[q] = slots[q] \/ slots'[q] = Null
  BY <1>1, <1>9
<1>11. SlotsOwn'
  BY <1>5, <1>8, <1>10, SlotsKeep DEF OwnInv
<1>12. AskedOwn'
  BY <1>1 DEF OwnInv, AskedOwn, NextAction
<1> QED
  BY <1>7, <1>11, <1>12 DEF OwnInv, Own, Registered

\* Clearing a pending action.
LEMMA ClearActionOwn ==
  ASSUME Separate, IInv, OwnInv, ClearAction
  PROVE  OwnInv'
<1>1. slots' = slots /\ todo' = todo
  BY DEF ClearAction, workVars
<1>2. CASE acting[1] \in Registered(cache)
  <2>1. cache' = [cache EXCEPT !.sess[acting[1]].pending = Null]
    BY <1>2 DEF ClearAction
  <2>2. OwnSave(acting[1], Null)
    BY DEF OwnSave
  <2> QED
    BY <1>1, <1>2, <2>1, <2>2, PendingOwn
<1>3. CASE acting[1] \notin Registered(cache)
  <2>1. cache' = cache
    BY <1>3 DEF ClearAction
  <2>2. \A x \in todo' : OwnSave(x[1], x[2])
    BY <1>1 DEF OwnInv, AskedOwn
  <2> QED
    BY <1>1, <2>1, <2>2, OwnUnchanged
<1> QED
  BY <1>2, <1>3

-----------------------------------------------------------------------------
\* What happens when q becomes the sequence of session s, or of nobody if s is Null: the
\* cells it holds then are the session's, nothing else moves.
Taken(q, s, c, d) ==
  /\ d \in CacheType
  /\ TakenOnlyBy({s}, c, d)
  /\ \A p \in SeqId \ {q} : d.kv[p] = c.kv[p]
  /\ d.file = c.file
  /\ \A t \in Session \ {s} : d.sess[t] = c.sess[t]
  /\ s # Null => /\ s \in Registered(d) /\ d.sess[s].vram = q
                 /\ OwnEntry(s, d.sess[s]) /\ Of(s, d.kv[q])
  /\ s = Null => d.kv[q] = <<>>

LEMMA TakenOwn ==
  ASSUME NEW c \in CacheType, Own(c), NEW q \in SeqId, NEW s \in Session \cup {Null}, NEW d,
         Owners(c, q) \subseteq {s}, Taken(q, s, c, d)
  PROVE  Own(d)
<1>1. ASSUME NEW t \in Registered(d)
      PROVE  OwnEntry(t, d.sess[t]) /\ (d.sess[t].vram # Null => Of(t, d.kv[d.sess[t].vram]))
  <2>1. CASE t = s
    BY <1>1, <2>1, CacheAssumption DEF Taken, Registered
  <2>2. CASE t # s
    <3>1. t \in Registered(c) /\ d.sess[t] = c.sess[t] /\ t \notin Owners(c, q)
      BY <1>1, <2>2 DEF Taken, Registered
    <3>2. c.sess[t].vram # q /\ (c.sess[t].vram # Null => c.sess[t].vram \in SeqId)
      BY <3>1, CacheParts DEF Owners, SessionType
    <3>3. OwnEntry(t, c.sess[t]) /\ (c.sess[t].vram # Null => Of(t, c.kv[c.sess[t].vram]))
      BY <3>1 DEF Own
    <3> QED
      BY <3>1, <3>2, <3>3 DEF Taken
  <2> QED
    BY <2>1, <2>2
<1>2. \A t \in Session : \A p \in Paths(t) : Mine(t, d.file[p])
  BY DEF Own, Taken
<1> QED
  BY <1>1, <1>2 DEF Own

\* register_session: a session's record is its own from the start.
LEMMA RegisterOwn ==
  ASSUME NEW c \in CacheType, Own(c), NEW s \in Session
  PROVE  LET d == Register(c, s)
         IN  /\ d.kv = c.kv /\ d.file = c.file
             /\ \A t \in Session \ {s} : d.sess[t] = c.sess[t]
             /\ OwnEntry(s, d.sess[s])
             /\ s \in Registered(c) => d = c
             /\ s \notin Registered(c) => d.sess[s] = NewSession(s)
<1>1. OwnEntry(s, NewSession(s))
  BY DEF OwnEntry, Mine, OwnSave, Paths, NewSession
<1>2. CASE s \in Registered(c)
  BY <1>2 DEF Register, Own
<1>3. CASE s \notin Registered(c)
  <2> DEFINE e == NewSession(s)
             d == [c EXCEPT !.sess[s] = e]
  <2>1. Register(c, s) = d
    BY <1>3 DEF Register
  <2>2. OwnEntry(s, e) /\ e = NewSession(s)
    BY <1>1
  <2> HIDE DEF e
  <2>3. /\ d.kv = c.kv /\ d.file = c.file
        /\ \A t \in Session \ {s} : d.sess[t] = c.sess[t]
        /\ d.sess[s] = e
    BY DEF CacheType
  <2> HIDE DEF d
  <2> QED
    BY <1>3, <2>1, <2>2, <2>3
<1> QED
  BY <1>2, <1>3

\* A fresh start leaves no cells.
LEMMA FreshSequenceTaken ==
  ASSUME NEW c \in CacheType, NEW q \in SeqId, NEW s \in Session \cup {Null},
         s # Null => s \in Registered(c) /\ OwnEntry(s, c.sess[s])
  PROVE  Taken(q, s, c, FreshSequence(c, q, s))
<1> DEFINE k == ClearSequence(c, q)
           e == [c.sess[s] EXCEPT !.vram = q, !.tier = "vram"]
           d == FreshSequence(c, q, s)
<1>1. k \in CacheType /\ k.sess = c.sess /\ k.file = c.file /\ k.kv[q] = <<>>
      /\ \A p \in SeqId \ {q} : k.kv[p] = c.kv[p]
  <2>1. /\ k.file = c.file /\ k.kv[q] = <<>> /\ \A p \in SeqId \ {q} : k.kv[p] = c.kv[p]
    BY DEF ClearSequence, CacheType
  <2> QED
    BY <2>1, ClearSequenceFacts
<1>2. Moves({s}, k, d)
  BY <1>1, SetVramSeqFacts DEF FreshSequence
<1>3. TakenOnlyBy({s}, c, d) /\ d \in CacheType /\ Registered(d) = Registered(c)
  BY <1>1, <1>2 DEF Moves, TakenOnlyBy, Registered
<1>4. CASE s = Null
  <2>1. s \notin Registered(k)
    BY <1>4, CacheAssumption DEF Registered
  <2>2. d = k
    BY <2>1 DEF FreshSequence, SetVramSeq
  <2> HIDE DEF d, k
  <2>3. Taken(q, s, c, d)
    BY <1>1, <1>3, <1>4, <2>2 DEF Taken
  <2> QED
    BY <2>3 DEF d
<1>5. CASE s # Null
  <2>1. s \in Registered(k) /\ s \in Registered(c) /\ s \in Session /\ c.sess[s] \in SessionType
    BY <1>1, <1>5, CacheParts DEF Registered
  <2>2. d = [k EXCEPT !.sess[s] = e]
    BY <1>1, <2>1 DEF FreshSequence, SetVramSeq
  <2>3. OwnEntry(s, e) /\ e.vram = q
    BY <1>5, <2>1 DEF OwnEntry, SessionType
  <2> HIDE DEF d, k, e
  <2>4. /\ d.kv = k.kv /\ d.file = k.file /\ d.sess[s] = e
        /\ \A t \in Session \ {s} : d.sess[t] = k.sess[t]
    BY <1>1, <2>1, <2>2 DEF CacheType
  <2>5. Of(s, d.kv[q])
    BY <1>1, <2>4, NoCellsOf
  <2>6. Taken(q, s, c, d)
    BY <1>1, <1>3, <1>5, <2>1, <2>3, <2>4, <2>5 DEF Taken
  <2> QED
    BY <2>6 DEF d
<1> QED
  BY <1>4, <1>5

\* restore puts a snapshot of the session into its sequence.
LEMMA RestoredTaken ==
  ASSUME NEW c \in CacheType, NEW q \in SeqId, NEW s \in Registered(c), Restorable(c, s),
         OwnEntry(s, c.sess[s]), \A p \in Paths(s) : Mine(s, c.file[p]), s # Null
  PROVE  Taken(q, s, c, Restored(c, q, s))
<1> DEFINE k == c.sess[s]
           snap == IF k.ram # Null THEN k.ram ELSE c.file[k.path]
           e == [k EXCEPT !.tier = "vram", !.vram = q, !.head = snap.head,
                          !.ram = IF c.unified THEN k.ram ELSE Null]
           d == Restored(c, q, s)
<1>1. s \in Session /\ k \in SessionType
  BY CacheParts
<1>2. Of(s, snap.data)
  BY DEF Restorable, OwnEntry, Mine
<1>3. d = [c EXCEPT !.kv[q] = snap.data, !.sess[s] = e]
  BY DEF Restored
<1>4. Moves({s}, c, d) /\ d.sess[s].vram = q
  BY RestoredFacts
<1> DEFINE data == snap.data
<1>5. Of(s, data) /\ d = [c EXCEPT !.kv[q] = data, !.sess[s] = e]
  BY <1>2, <1>3
<1> HIDE DEF snap, data
<1>6. OwnEntry(s, e)
  BY <1>1 DEF OwnEntry, Mine, SessionType
<1> HIDE DEF e, d
<1>7. /\ d.kv[q] = data /\ \A p \in SeqId \ {q} : d.kv[p] = c.kv[p]
      /\ d.file = c.file
      /\ d.sess[s] = e /\ \A t \in Session \ {s} : d.sess[t] = c.sess[t]
  BY <1>1, <1>5 DEF CacheType
<1>8. Taken(q, s, c, d)
  BY <1>4, <1>5, <1>6, <1>7 DEF Taken, Moves
<1> QED
  BY <1>8 DEF d

\* A request starts on cells of its own session.
LEMMA PlacedTaken ==
  ASSUME Separate, NEW c \in CacheType, Own(c), NEW q \in SeqId, NEW r \in Req
  PROVE  Taken(q, SessionOf[r], c, Placed(c, q, r).cache)
<1> DEFINE s == SessionOf[r]
           known == IF s = Null THEN c ELSE Register(c, s)
           d == Placed(c, q, r).cache
<1>1. s \in Session \cup {Null} /\ ParentSlots(r) = {}
  BY EngineAssumption DEF Separate, ParentSlots
<1>2. CASE s = Null
  <2>1. d = FreshSequence(c, q, s)
    BY <1>1, <1>2 DEF Placed
  <2> QED
    BY <1>2, <2>1, FreshSequenceTaken
<1>3. CASE s # Null
  <2>1. s \in Session /\ known = Register(c, s)
    BY <1>1, <1>3
  <2>2. /\ known.kv = c.kv /\ known.file = c.file
        /\ \A t \in Session \ {s} : known.sess[t] = c.sess[t]
        /\ OwnEntry(s, known.sess[s])
        /\ s \in Registered(c) => known = c
        /\ s \notin Registered(c) => known.sess[s] = NewSession(s)
    BY <2>1, RegisterOwn
  <2>3. /\ known \in CacheType /\ s \in Registered(known) /\ TakenOnlyBy({}, c, known)
        /\ Registered(c) \subseteq Registered(known)
    BY <2>1, RegisterFacts
  <2>4. ASSUME NEW f, Taken(q, s, known, f)
        PROVE  Taken(q, s, c, f)
    <3>1. TakenOnlyBy({s}, c, f)
      BY <2>3, <2>4 DEF Taken, TakenOnlyBy
    <3> QED
      BY <1>3, <2>2, <2>4, <3>1 DEF Taken
  <2>5. CASE known.sess[s].vram = q
    <3>1. d = known
      BY <1>1, <1>3, <2>5 DEF Placed
    <3>2. s \in Registered(c) /\ known = c
      BY <2>2, <2>5, CacheAssumption DEF NewSession, SeqId
    <3>3. Of(s, c.kv[q])
      BY <2>5, <3>2, CacheAssumption DEF Own, SeqId
    <3>4. Taken(q, s, known, known)
      BY <1>3, <2>2, <2>3, <2>5, <3>2, <3>3 DEF Taken, TakenOnlyBy
    <3> QED
      BY <2>4, <3>1, <3>4
  <2>6. CASE known.sess[s].vram # q /\ Restorable(known, s)
    <3>1. d = Restored(known, q, s)
      BY <1>1, <1>3, <2>6 DEF Placed
    <3>2. \A p \in Paths(s) : Mine(s, known.file[p])
      BY <2>1, <2>2 DEF Own
    <3> HIDE DEF known
    <3>3. Taken(q, s, known, Restored(known, q, s))
      BY <1>3, <2>2, <2>3, <2>6, <3>2, RestoredTaken
    <3> QED
      BY <2>4, <3>1, <3>3
  <2>7. CASE known.sess[s].vram # q /\ ~Restorable(known, s)
    <3>1. d = FreshSequence(known, q, s)
      BY <1>1, <1>3, <2>7 DEF Placed
    <3> HIDE DEF known
    <3>2. Taken(q, s, known, FreshSequence(known, q, s))
      BY <1>1, <2>2, <2>3, FreshSequenceTaken
    <3> QED
      BY <2>4, <3>1, <3>2
  <2> QED
    BY <2>5, <2>6, <2>7
<1> QED
  BY <1>2, <1>3

\* Making room for a request.
LEMMA OwnerEvictedOwn ==
  ASSUME Separate, IInv, OwnInv, NEW q \in SeqId, NEW s, NEW c \in OwnerEvicted(q, s)
  PROVE  /\ c \in CacheType /\ Own(c) /\ TakenOnlyBy({}, cache, c)
         /\ \A p \in SeqId \ {q} : c.kv[p] = cache.kv[p]
<1>1. cache \in CacheType
  BY DEF IInv, TypeOK
<1>2. CASE Owners(cache, q) \ {s} = {}
  BY <1>1, <1>2 DEF OwnerEvicted, OwnInv, TakenOnlyBy
<1>3. CASE Owners(cache, q) \ {s} # {}
  <2>1. PICK t \in Owners(cache, q) \ {s} : c = Evicted(cache, q, t)
    BY <1>3 DEF OwnerEvicted
  <2>2. t \in Registered(cache) /\ cache.sess[t].vram = q /\ q # Null
    BY <2>1, CacheAssumption DEF Owners, SeqId
  <2>3. OwnEntry(t, cache.sess[t]) /\ Of(t, cache.kv[q])
    BY <2>2 DEF OwnInv, Own
  <2>4. Quiet(t, cache, c)
    BY <1>1, <2>1, <2>2, <2>3, EvictedQuiet
  <2>5. \A p \in SeqId \ {q} : c.kv[p] = cache.kv[p]
    <3>1. c.kv = [cache.kv EXCEPT ![q] = <<>>]
      BY <1>1, <2>1 DEF Evicted, CacheType
    <3> QED
      BY <1>1, <3>1 DEF CacheType
  <2>6. Own(c)
    BY <1>1, <2>2, <2>4, QuietOwn DEF OwnInv
  <2> QED
    BY <2>4, <2>5, <2>6 DEF Quiet, Moves
<1> QED
  BY <1>2, <1>3

\* schedule_requests.
LEMMA ScheduleOwn ==
  ASSUME Separate, IInv, OwnInv, Schedule
  PROVE  OwnInv'
<1> DEFINE r == Head(queue)
           q == Target(SessionOf[r])
<1>1. /\ r \in Req /\ q \in SeqId /\ slots[q] = Null
      /\ slots \in [SeqId -> Req \cup {Null}] /\ cache \in CacheType
  BY TargetFacts DEF IInv, TypeOK, Schedule, Free
<1>2. PICK c \in OwnerEvicted(q, SessionOf[r]) :
        cache' = Placed(c, q, r).cache /\ slots' = [slots EXCEPT ![q] = r]
  BY DEF Schedule
<1> HIDE DEF r, q
<1> DEFINE s == SessionOf[r]
<1>3. /\ c \in CacheType /\ Own(c) /\ TakenOnlyBy({}, cache, c)
      /\ \A p \in SeqId \ {q} : c.kv[p] = cache.kv[p]
  BY <1>1, <1>2, OwnerEvictedOwn
<1>4. Owners(c, q) \subseteq {s} /\ s \in Session \cup {Null}
  BY <1>1, <1>2, OwnerEvictedFacts, EngineAssumption DEF IInv
<1>5. Taken(q, s, c, cache')
  BY <1>1, <1>2, <1>3, PlacedTaken
<1> HIDE DEF s
<1>6. Own(cache')
  BY <1>1, <1>3, <1>4, <1>5, TakenOwn
<1>7. Owners(cache', q) \subseteq {s}
  <2>1. \A t \in Registered(cache') \ {s} : cache'.sess[t] = c.sess[t] /\ t \in Registered(c)
    BY <1>5 DEF Taken, Registered
  <2> QED
    BY <1>4, <2>1 DEF Owners
<1>8. \A p \in SeqId \ {q} : Owners(cache', p) \subseteq Owners(cache, p)
  <2> SUFFICES ASSUME NEW p \in SeqId \ {q}, NEW t \in Owners(cache', p)
               PROVE  t \in Owners(cache, p)
    OBVIOUS
  <2>1. t \in Registered(cache') /\ cache'.sess[t].vram = p /\ t \in Session /\ p # Null
    BY CacheAssumption DEF Owners, Registered, SeqId
  <2>2. t # s
    BY <1>5, <2>1, CacheAssumption DEF Taken, Registered
  <2>3. t \in Registered(c) /\ c.sess[t].vram = p
    BY <1>5, <2>1, <2>2 DEF Taken, Registered
  <2> QED
    BY <1>3, <2>1, <2>3 DEF TakenOnlyBy, Owners
<1>9. ASSUME NEW p \in Active'
      PROVE  SlotOwn(p, slots[p])'
  <2>1. p \in SeqId
    BY <1>9 DEF Active
  <2>2. CASE p = q
    <3>1. slots'[p] = r
      BY <1>1, <1>2, <2>2
    <3>2. s # Null => Of(s, cache'.kv[p])
      BY <1>5, <2>2 DEF Taken
    <3>3. s = Null => \A i \in DOMAIN cache'.kv[p] : cache'.kv[p][i].of = r
      BY <1>5, <2>2 DEF Taken
    <3>4. Owners(cache, p)' = Owners(cache', p)
      BY DEF Owners, Registered
    <3> QED
      BY <1>7, <2>2, <3>1, <3>2, <3>3, <3>4 DEF SlotOwn, s
  <2>3. CASE p # q
    <3>1. slots'[p] = slots[p] /\ p \in Active
      BY <1>1, <1>2, <1>9, <2>1, <2>3 DEF Active, Free
    <3>2. SlotOwn(p, slots[p])
      BY <3>1 DEF OwnInv, SlotsOwn
    <3>3. cache'.kv[p] = cache.kv[p] /\ Owners(cache', p) \subseteq Owners(cache, p)
      BY <1>3, <1>5, <1>8, <2>1, <2>3 DEF Taken
    <3>4. Owners(cache, p)' = Owners(cache', p)
      BY DEF Owners, Registered
    <3> QED
      BY <3>1, <3>2, <3>3, <3>4 DEF SlotOwn
  <2> QED
    BY <2>2, <2>3
<1>10. AskedOwn'
  BY DEF OwnInv, AskedOwn, Schedule, pullVars
<1> QED
  BY <1>6, <1>9, <1>10 DEF OwnInv, SlotsOwn, Own, Registered

\* The owner of a sequence cannot be evicted.
LEMMA ScheduleFailsOwn ==
  ASSUME Separate, IInv, OwnInv, ScheduleFails
  PROVE  OwnInv'
<1> DEFINE q == Target(SessionOf[Head(queue)])
<1>1. q \in SeqId /\ cache \in CacheType
  BY TargetFacts DEF IInv, TypeOK, ScheduleFails
<1>2. PICK t \in Owners(cache, q) : cache' \in EvictFailures(cache, q, t)
  BY DEF ScheduleFails
<1> HIDE DEF q
<1>3. t \in Registered(cache) /\ Quiet(t, cache, cache')
  BY <1>1, <1>2, EvictFailuresQuiet DEF Owners, OwnInv
<1> QED
  BY <1>3, QuietStep DEF ScheduleFails, workVars

-----------------------------------------------------------------------------
\* A batch adds cells of the slot's request.
LEMMA BatchCellsOf ==
  ASSUME NEW take, NEW q, NEW i \in DOMAIN BatchCells(q, take)
  PROVE  BatchCells(q, take)[i].of = slots[q]
<1>1. CASE q \in AtText
  BY <1>1 DEF BatchCells
<1>2. CASE q \notin AtText /\ q \in InState("processing")
  <2> DEFINE cell == [pos |-> req[slots[q]].off + PromptItems(slots[q])
                                + req[slots[q]].gen - 1, of |-> slots[q]]
  <2>1. BatchCells(q, take) = <<cell>> /\ cell.of = slots[q]
    BY <1>2 DEF BatchCells
  <2> HIDE DEF cell
  <2>2. i = 1
    BY <2>1
  <2> QED
    BY <2>1, <2>2
<1>3. CASE q \notin AtText /\ q \notin InState("processing")
  BY <1>3 DEF BatchCells
<1> QED
  BY <1>1, <1>2, <1>3

\* The cells of a sequence after others have been added.
LEMMA CellsAdded ==
  ASSUME NEW cells \in Seq(Cell), NEW more \in Seq(Cell), NEW i \in DOMAIN (cells \o more)
  PROVE  \/ i \in DOMAIN cells /\ (cells \o more)[i] = cells[i]
         \/ i - Len(cells) \in DOMAIN more /\ (cells \o more)[i] = more[i - Len(cells)]
OBVIOUS

\* A decoded batch leaves the cells of free sequences alone and adds to an active one
\* cells of its request; of the session table it changes the counters.
LEMMA DecodedOwn ==
  ASSUME TypeOK, NEW take \in Prefills, NEW mm \in MmEvals(take)
  PROVE  LET d == Decoded(take, mm)
         IN  /\ \A q \in Free : d.kv[q] = cache.kv[q]
             /\ \A q \in Active : \A i \in DOMAIN d.kv[q] :
                  \/ d.kv[q][i].of = slots[q]
                  \/ i \in DOMAIN cache.kv[q] /\ d.kv[q][i] = cache.kv[q][i]
             /\ \A s \in Registered(cache) :
                  /\ d.sess[s].ram = cache.sess[s].ram
                  /\ d.sess[s].path = cache.sess[s].path
                  /\ d.sess[s].pending = cache.sess[s].pending
             /\ d.file = cache.file
<1> DEFINE d == Decoded(take, mm)
<1>1. cache \in CacheType /\ Free \subseteq SeqId
  BY SlotFacts DEF TypeOK
<1>2. /\ d.file = cache.file
      /\ d.kv = [q \in SeqId |-> IF q \in Free THEN cache.kv[q]
                   ELSE IF q = mm[1] THEN Append(cache.kv[q], ImageCell(q))
                   ELSE cache.kv[q] \o BatchCells(q, take)]
      /\ d.sess = [s \in Session |->
                 IF s \in Registered(cache)
                   THEN [cache.sess[s] EXCEPT
                           !.head = @ + Counted(s, take)
                                      + Cardinality(ActiveOf(s) \cap Evaluated(mm)),
                           !.ntok = @ + Counted(s, take)]
                   ELSE Null]
  BY <1>1 DEF Decoded, CacheType
<1> HIDE DEF d
<1>3. \A q \in Free : d.kv[q] = cache.kv[q]
  BY <1>1, <1>2
<1>4. ASSUME NEW q \in Active, NEW i \in DOMAIN d.kv[q]
      PROVE  \/ d.kv[q][i].of = slots[q]
             \/ i \in DOMAIN cache.kv[q] /\ d.kv[q][i] = cache.kv[q][i]
  <2>1. q \in SeqId /\ q \notin Free /\ cache.kv[q] \in Seq(Cell)
        /\ slots[q] \in Req /\ req[slots[q]].off \in Nat
    BY <1>1, SlotFacts, CacheParts DEF Active, RequestType
  <2>2. CASE q = mm[1]
    <3>1. ImageCell(q) \in Cell /\ ImageCell(q).of = slots[q]
      BY <2>1 DEF ImageCell, Cell
    <3> DEFINE cell == ImageCell(q)
    <3>2. d.kv[q] = Append(cache.kv[q], cell)
      BY <1>2, <2>1, <2>2
    <3> HIDE DEF cell
    <3>3. cell \in Cell /\ cell.of = slots[q]
      BY <3>1 DEF cell
    <3> QED
      BY <1>4, <2>1, <3>2, <3>3
  <2>3. CASE q # mm[1]
    <3>1. BatchCells(q, take) \in Seq(Cell)
      BY BatchCellsType
    <3>2. d.kv[q] = cache.kv[q] \o BatchCells(q, take)
      BY <1>2, <2>1, <2>3
    <3> QED
      BY <1>4, <2>1, <3>1, <3>2, CellsAdded, BatchCellsOf
  <2> QED
    BY <2>2, <2>3
<1>5. ASSUME NEW s \in Registered(cache)
      PROVE  /\ d.sess[s].ram = cache.sess[s].ram
             /\ d.sess[s].path = cache.sess[s].path
             /\ d.sess[s].pending = cache.sess[s].pending
  <2> DEFINE h == cache.sess[s].head + Counted(s, take)
                    + Cardinality(ActiveOf(s) \cap Evaluated(mm))
             n == cache.sess[s].ntok + Counted(s, take)
  <2>1. s \in Session /\ cache.sess[s] \in SessionType
    BY <1>1, CacheParts
  <2>2. d.sess[s] = [cache.sess[s] EXCEPT !.head = h, !.ntok = n]
    BY <1>2, <2>1
  <2> HIDE DEF h, n
  <2> QED
    BY <2>1, <2>2 DEF SessionType
<1> QED
  BY <1>2, <1>3, <1>4, <1>5 DEF d

\* An aborted image: the sequence is cleared and given up.
LEMMA AbortedOwn ==
  ASSUME NEW c \in CacheType, Own(c), NEW q \in SeqId
  PROVE  LET d == ReleaseSequence(ClearSequence(c, q), q)
         IN  /\ Own(d) /\ TakenOnlyBy({}, c, d)
             /\ d.kv[q] = <<>> /\ \A p \in SeqId \ {q} : d.kv[p] = c.kv[p]
<1> DEFINE k == ClearSequence(c, q)
           d == ReleaseSequence(k, q)
<1>1. k \in CacheType /\ k.sess = c.sess /\ k.file = c.file
      /\ k.kv[q] = <<>> /\ \A p \in SeqId \ {q} : k.kv[p] = c.kv[p]
  <2>1. /\ k.file = c.file /\ k.kv[q] = <<>> /\ \A p \in SeqId \ {q} : k.kv[p] = c.kv[p]
    BY DEF ClearSequence, CacheType
  <2> QED
    BY <2>1, ClearSequenceFacts
<1> HIDE DEF k
<1>2. Moves({}, k, d)
  BY <1>1, ReleaseSequenceFacts
<1>3. /\ d.kv = k.kv /\ d.file = k.file
      /\ \A s \in Registered(k) : /\ d.sess[s].ram = k.sess[s].ram
                                  /\ d.sess[s].path = k.sess[s].path
                                  /\ d.sess[s].pending = k.sess[s].pending
  <2>1. /\ d.kv = k.kv /\ d.file = k.file
        /\ d.sess = [s \in Session |-> IF s \in Owners(k, q)
                                         THEN [k.sess[s] EXCEPT !.vram = Null]
                                         ELSE k.sess[s]]
    BY <1>1 DEF ReleaseSequence, CacheType
  <2>2. \A s \in Registered(k) : s \in Session /\ k.sess[s] \in SessionType
    BY <1>1, CacheParts
  <2> HIDE DEF d
  <2>3. ASSUME NEW s \in Registered(k)
        PROVE  d.sess[s] = k.sess[s] \/ d.sess[s] = [k.sess[s] EXCEPT !.vram = Null]
    BY <2>1, <2>2
  <2>4. \A s \in Registered(k) : /\ d.sess[s].ram = k.sess[s].ram
                                 /\ d.sess[s].path = k.sess[s].path
                                 /\ d.sess[s].pending = k.sess[s].pending
    BY <2>2, <2>3 DEF SessionType
  <2> QED
    BY <2>1, <2>4
<1> HIDE DEF d
<1>4. TakenOnlyBy({}, c, d) /\ Registered(d) = Registered(c) /\ d \in CacheType
  BY <1>1, <1>2 DEF Moves, TakenOnlyBy, Registered
<1>5. ASSUME NEW s \in Registered(d)
      PROVE  OwnEntry(s, d.sess[s]) /\ (d.sess[s].vram # Null => Of(s, d.kv[d.sess[s].vram]))
  <2>1. s \in Registered(c) /\ s \in Registered(k) /\ c.sess[s] \in SessionType
    BY <1>1, <1>4, CacheParts DEF Registered
  <2>2. OwnEntry(s, c.sess[s]) /\ (c.sess[s].vram # Null => Of(s, c.kv[c.sess[s].vram]))
    BY <2>1 DEF Own
  <2>3. OwnEntry(s, d.sess[s])
    BY <1>1, <1>3, <2>1, <2>2 DEF OwnEntry
  <2>4. d.sess[s].vram # Null => d.sess[s].vram = c.sess[s].vram /\ c.sess[s].vram \in SeqId
    BY <1>4, <2>1 DEF TakenOnlyBy, SessionType
  <2> QED
    BY <1>1, <1>3, <2>2, <2>3, <2>4, NoCellsOf
<1>6. \A s \in Session : \A p \in Paths(s) : Mine(s, d.file[p])
  BY <1>1, <1>3 DEF Own
<1>7. Own(d)
  BY <1>5, <1>6 DEF Own
<1> QED
  BY <1>1, <1>3, <1>4, <1>7 DEF d, k

\* The rest of pull().
LEMMA StepOwn ==
  ASSUME Separate, IInv, OwnInv, Step
  PROVE  OwnInv'
<1>1. TypeOK /\ cache \in CacheType /\ slots \in [SeqId -> Req \cup {Null}]
  BY DEF IInv, TypeOK
<1>2. PICK take \in Prefills : \E stops \in Stops(take) : \E mm \in MmEvals(take) :
        AfterBatch(take, stops, mm)
  BY DEF Step
<1>3. PICK stops \in Stops(take) : \E mm \in MmEvals(take) : AfterBatch(take, stops, mm)
  BY <1>2
<1>4. PICK mm \in MmEvals(take) : AfterBatch(take, stops, mm)
  BY <1>3
<1> DEFINE d == Decoded(take, mm)
<1>5. /\ Moves({}, cache, d)
      /\ \A q \in Free : d.kv[q] = cache.kv[q]
      /\ \A q \in Active : \A i \in DOMAIN d.kv[q] :
           \/ d.kv[q][i].of = slots[q]
           \/ i \in DOMAIN cache.kv[q] /\ d.kv[q][i] = cache.kv[q][i]
      /\ \A s \in Registered(cache) : /\ d.sess[s].ram = cache.sess[s].ram
                                      /\ d.sess[s].path = cache.sess[s].path
                                      /\ d.sess[s].pending = cache.sess[s].pending
      /\ d.file = cache.file
  BY <1>1, DecodedFacts, DecodedOwn
<1>6. cache' = IF mm[2] = "failed" THEN ReleaseSequence(ClearSequence(d, mm[1]), mm[1]) ELSE d
  BY <1>4 DEF AfterBatch
<1> HIDE DEF d
<1>7. d \in CacheType /\ TakenOnlyBy({}, cache, d) /\ Registered(d) = Registered(cache)
  BY <1>5 DEF Moves
<1>8. ASSUME NEW q \in Active
      PROVE  /\ SessionOf[slots[q]] # Null => Of(SessionOf[slots[q]], d.kv[q])
             /\ SessionOf[slots[q]] = Null => \A i \in DOMAIN d.kv[q] : d.kv[q][i].of = slots[q]
  <2>1. SlotOwn(q, slots[q])
    BY DEF OwnInv, SlotsOwn
  <2> QED
    BY <1>5, <2>1 DEF SlotOwn, Of
<1>9. Own(d)
  <2>1. ASSUME NEW s \in Registered(d)
        PROVE  OwnEntry(s, d.sess[s]) /\ (d.sess[s].vram # Null => Of(s, d.kv[d.sess[s].vram]))
    <3>1. /\ s \in Registered(cache) /\ s \in Session /\ s # Null
          /\ cache.sess[s] \in SessionType
      BY <1>1, <1>7, CacheParts, CacheAssumption DEF Registered
    <3>2. OwnEntry(s, cache.sess[s]) /\ (cache.sess[s].vram # Null => Of(s, cache.kv[cache.sess[s].vram]))
      BY <3>1 DEF OwnInv, Own
    <3>3. OwnEntry(s, d.sess[s])
      BY <1>5, <3>1, <3>2 DEF OwnEntry
    <3>4. ASSUME d.sess[s].vram # Null
          PROVE  Of(s, d.kv[d.sess[s].vram])
      <4> DEFINE q == d.sess[s].vram
      <4>1. q = cache.sess[s].vram /\ q \in SeqId /\ Of(s, cache.kv[q])
        BY <1>7, <3>1, <3>2, <3>4 DEF TakenOnlyBy, SessionType
      <4> HIDE DEF q
      <4>2. CASE q \in Free
        BY <1>5, <4>1, <4>2 DEF q
      <4>3. CASE q \notin Free
        <5>1. q \in Active /\ s \in Owners(cache, q)
          BY <3>1, <4>1, <4>3 DEF Active, Owners
        <5>2. SessionOf[slots[q]] = s
          BY <5>1 DEF OwnInv, SlotsOwn, SlotOwn
        <5> QED
          BY <1>8, <3>1, <5>1, <5>2 DEF q
      <4> QED
        BY <4>2, <4>3
    <3> QED
      BY <3>3, <3>4
  <2>2. \A s \in Session : \A p \in Paths(s) : Mine(s, d.file[p])
    BY <1>5 DEF OwnInv, Own
  <2> QED
    BY <2>1, <2>2 DEF Own
<1>10. /\ Own(cache') /\ TakenOnlyBy({}, d, cache')
       /\ \A q \in SeqId : cache'.kv[q] = d.kv[q] \/ cache'.kv[q] = <<>>
  <2>1. CASE mm[2] = "failed"
    <3>1. mm[1] \in SeqId
      BY <1>1, <2>1, SlotFacts DEF MmEvals
    <3> QED
      BY <1>6, <1>7, <1>9, <2>1, <3>1, AbortedOwn
  <2>2. CASE mm[2] # "failed"
    BY <1>6, <1>9, <2>2 DEF TakenOnlyBy
  <2> QED
    BY <2>1, <2>2
<1>11. \A q \in SeqId : Owners(cache', q) \subseteq Owners(cache, q)
  <2>1. \A q \in SeqId : Owners(cache', q) \subseteq Owners(d, q)
    BY <1>10, NoneTaken
  <2>2. \A q \in SeqId : Owners(d, q) \subseteq Owners(cache, q)
    BY <1>7, NoneTaken
  <2> QED
    BY <2>1, <2>2
<1>12. \A q \in SeqId : slots'[q] = slots[q] \/ slots'[q] = Null
  BY <1>4 DEF AfterBatch
<1>13. ASSUME NEW q \in Active'
       PROVE  SlotOwn(q, slots[q])'
  <2>1. q \in SeqId /\ q \in Active /\ slots'[q] = slots[q]
    BY <1>12, <1>13 DEF Active, Free
  <2>2. SlotOwn(q, slots[q])
    BY <2>1 DEF OwnInv, SlotsOwn
  <2>3. Owners(cache', q) \subseteq {SessionOf[slots[q]]}
    BY <1>11, <2>1, <2>2 DEF SlotOwn
  <2>4. SessionOf[slots[q]] # Null => Of(SessionOf[slots[q]], cache'.kv[q])
    BY <1>8, <1>10, <2>1, NoCellsOf
  <2>5. SessionOf[slots[q]] = Null => \A i \in DOMAIN cache'.kv[q] : cache'.kv[q][i].of = slots[q]
    BY <1>8, <1>10, <2>1
  <2> QED
    BY <2>1, <2>3, <2>4, <2>5 DEF SlotOwn, Owners, Registered
<1>14. AskedOwn'
  BY DEF OwnInv, AskedOwn, Step
<1> QED
  BY <1>10, <1>13, <1>14 DEF OwnInv, SlotsOwn, Own, Registered

\* A restart keeps the files.
LEMMA RestartOwn ==
  ASSUME Separate, IInv, OwnInv, Restart
  PROVE  OwnInv'
<1>1. cache' = [EmptyCache(cache.unified) EXCEPT !.file = cache.file]
  BY DEF Restart
<1>2. Registered(cache') = {} /\ cache'.file = cache.file
  BY <1>1 DEF IInv, TypeOK, CacheType, EmptyCache, Registered
<1>3. Own(cache')
  BY <1>2 DEF OwnInv, Own
<1>4. Active' = {} /\ todo' = {}
  BY DEF Restart, Active, Free
<1> QED
  BY <1>3, <1>4 DEF OwnInv, SlotsOwn, AskedOwn, Own, Registered

\* Every step keeps the invariant.
LEMMA NextOwn ==
  ASSUME Separate, IInv, OwnInv, [Next]_vars
  PROVE  OwnInv'
<1> USE DEF workVars, pullVars
<1>1. CASE Handlers
  <2>1. CASE \E r \in Req : BuildPrompt(r) \/ Send(r)
    BY <2>1, OwnUnchanged DEF BuildPrompt, Send, OwnInv, AskedOwn
  <2>2. ASSUME NEW s \in Session, NEW a \in StateAction, AskForAction(s, a)
        PROVE  OwnInv'
    <3>1. s \in Registered(cache) /\ OwnSave(s, a)
      BY <2>2 DEF AskForAction, OwnSave
    <3> QED
      BY <2>2, <3>1, PendingOwn DEF AskForAction
  <2> QED
    BY <1>1, <2>1, <2>2 DEF Handlers
<1>2. CASE Receive \/ (\E r \in Req : CollectPrep(r)) \/ Drained \/ Scheduled \/ StepFails
  BY <1>2, OwnUnchanged
  DEF Receive, CollectPrep, Drained, Scheduled, StepFails, OwnInv, AskedOwn
<1>3. CASE CopyActions
  <2>1. \A x \in todo' : OwnSave(x[1], x[2])
    BY <1>3 DEF CopyActions, OwnInv, Own, OwnEntry
  <2> QED
    BY <1>3, <2>1, OwnUnchanged DEF CopyActions
<1>4. CASE Actioned
  BY <1>4, SaveOwn, IdleOwn, DeleteOwn DEF Actioned
<1>5. CASE ClearAction
  BY <1>5, ClearActionOwn
<1>6. CASE Schedule
  BY <1>6, ScheduleOwn
<1>7. CASE ScheduleFails
  BY <1>7, ScheduleFailsOwn
<1>8. CASE Step
  BY <1>8, StepOwn
<1>9. CASE Restart
  BY <1>9, RestartOwn
<1>10. CASE UNCHANGED vars
  BY <1>10, OwnUnchanged DEF vars, OwnInv, AskedOwn
<1> QED
  BY <1>1, <1>2, <1>3, <1>4, <1>5, <1>6, <1>7, <1>8, <1>9, <1>10 DEF Next, Pull

LEMMA OwnInvariant == Separate => (Spec => []OwnInv)
<1> SUFFICES ASSUME Separate PROVE Spec => []OwnInv
  OBVIOUS
<1>1. IInv /\ OwnInv /\ [Next]_vars => OwnInv'
  BY NextOwn
<1> QED
  BY <1>1, InitOwn, InductiveInvariant, PTL DEF Spec

\* Isolated: whoever used a sequence before, however it is evicted, restored, cleared,
\* saved, cut short or killed in between, and whatever handlers ask for at the time, a
\* slot's sequence never holds a token of another conversation.
THEOREM SequencesAreIsolated ==
  ASSUME Separate
  PROVE  Spec => []Isolated
<1>1. IInv /\ OwnInv => Isolated
  <2> SUFFICES ASSUME IInv, OwnInv, NEW q \in Active, NEW i \in DOMAIN cache.kv[q]
               PROVE  LET r == slots[q]
                          by == cache.kv[q][i].of
                      IN  by = r \/ (SessionOf[r] # Null /\ SessionOf[by] = SessionOf[r])
    BY DEF Isolated
  <2>1. SlotOwn(q, slots[q])
    BY DEF OwnInv, SlotsOwn
  <2> QED
    BY <2>1 DEF SlotOwn, Of
<1> QED
  BY <1>1, InductiveInvariant, OwnInvariant, PTL
=============================================================================
