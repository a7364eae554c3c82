--------------------------- MODULE EngineLogProofs ---------------------------
(***************************************************************************)
(* Proofs about module Engine: a session's tokens are where its counters   *)
(* say.  They have the positions 0, 1, ... (Aligned), a turn goes on from  *)
(* the end of the turns before it (Continued), and so, wherever a session  *)
(* is kept and however it gets from one tier to another, the engine is to  *)
(* its client an append-only log (ImplementsSessionLog).                   *)
(*                                                                         *)
(* Each step does one of three things to the sessions: it moves or drops   *)
(* what they hold, it adds the next cells to those that have a slot, or it *)
(* opens one.  NextLog tells them apart.                                   *)
(***************************************************************************)
EXTENDS EngineOwnProofs

\* Clients wait for the answer before a session's next turn, prompts are text, and the
\* context always gives the state of a sequence.  Without one of these the positions of a
\* session do go astray: two turns at once write to two sequences, an image counts in the
\* head only, and a failed evict leaves a session whose file was cut short.
Orderly == Separate /\ Serial /\ Images = {} /\ "evict" \notin Faults

\* Cells numbered from 0, as many as the counter says.
Whole(cells, head) == Len(cells) = head /\ \A i \in DOMAIN cells : cells[i].pos = i - 1

\* The snapshot restore takes.
Outside(c, s) == IF c.sess[s].ram # Null THEN c.sess[s].ram ELSE c.file[c.sess[s].path]

\* Session s is in its sequence, or else in one snapshot that restore accepts; and it is
\* whole there.
Sound(c, s) ==
  LET e == c.sess[s]
  IN  /\ e.head <= e.ntok
      /\ c.unified => e.ram = Null
      /\ e.vram # Null => e.ram = Null /\ Whole(c.kv[e.vram], e.head)
      /\ e.vram = Null => /\ Outside(c, s) # Null
                          /\ Outside(c, s).head = e.head
                          /\ Whole(Outside(c, s).data, e.head)

\* The file that a session registered anew finds under its id.
Headed(c, s) == c.file[s] # Null => c.file[s].head = Len(c.file[s].data)

LogCache(c) ==
  /\ \A s \in Registered(c) : Sound(c, s)
  /\ \A s \in Session : Headed(c, s)

\* A session has one request in flight.
TurnsInv ==
  \A p, r \in Req :
    p < r /\ SessionOf[p] = SessionOf[r] /\ SessionOf[r] # Null /\ req[r].st # "new" =>
      answer[p] # "none"

\* A request that has no slot yet has put nothing in a sequence.
FreshInv ==
  \A r \in Req :
    req[r].st \in {"new", "built", "sent", "preparing"} \/ In(r, queue) =>
      req[r].n = 0 /\ req[r].gen = 0

\* What request r has put in the sequence of its slot q.
Progress(q, r) ==
  /\ req[r].st = "waiting" =>
       Len(cache.kv[q]) = req[r].off + req[r].n /\ req[r].gen = 0 /\ req[r].n <= PromptLen
  /\ req[r].st = "processing" =>
       Len(cache.kv[q]) = req[r].off + PromptLen + req[r].gen - 1

\* The session of a request in slot q owns the sequence q.
Holds(q, r) == SessionOf[r] # Null => SessionOf[r] \in Owners(cache, q)

ActiveInv == \A q \in Active : Holds(q, slots[q]) /\ Progress(q, slots[q])

LogInv == LogCache(cache) /\ TurnsInv /\ FreshInv /\ ActiveInv

\* What a session holds, where it is.
LEMMA ContentOf ==
  ASSUME NEW c, NEW s, Sound(c, s)
  PROVE  /\ c.sess[s].vram # Null => Content(c, s) = c.kv[c.sess[s].vram]
         /\ c.sess[s].vram = Null => Content(c, s) = Outside(c, s).data
         /\ Whole(Content(c, s), c.sess[s].head)
BY DEF Sound, Content, Outside

\* From c to d nothing changes for any session but s.
Others(s, c, d) ==
  /\ d.unified = c.unified
  /\ \A t \in Session \ {s} : d.sess[t] = c.sess[t]
  /\ \A t \in Registered(c) \ {s} :
       c.sess[t].vram # Null => d.kv[c.sess[t].vram] = c.kv[c.sess[t].vram]
  /\ \A p \in Path \ Paths(s) : d.file[p] = c.file[p]

LEMMA OthersSound ==
  ASSUME Separate, NEW c \in CacheType, Own(c), LogCache(c), NEW s \in Session, NEW d,
         Others(s, c, d)
  PROVE  /\ \A t \in Registered(c) \ {s} : /\ t \in Registered(d) /\ Sound(d, t)
                                           /\ Content(d, t) = Content(c, t)
         /\ \A t \in Session \ {s} : Headed(d, t) /\ (t \in Registered(d) <=> t \in Registered(c))
<1>1. ASSUME NEW t \in Registered(c) \ {s}
      PROVE  t \in Registered(d) /\ Sound(d, t) /\ Content(d, t) = Content(c, t)
  <2>1. t \in Session /\ d.sess[t] = c.sess[t] /\ d.sess[t] # Null
    BY DEF Others, Registered
  <2>2. c.sess[t].path \in Path \ Paths(s)
    <3>1. c.sess[t].path \in Paths(t)
      BY DEF Own, OwnEntry
    <3> QED
      BY <2>1, <3>1, PathsFacts
  <2>3. d.file[c.sess[t].path] = c.file[c.sess[t].path]
    BY <2>2 DEF Others
  <2>4. Outside(d, t) = Outside(c, t)
    BY <2>1, <2>3 DEF Outside
  <2>5. c.sess[t].vram # Null => d.kv[c.sess[t].vram] = c.kv[c.sess[t].vram]
    BY DEF Others
  <2>6. Sound(c, t)
    BY DEF LogCache
  <2>7. Sound(d, t)
    BY <2>1, <2>4, <2>5, <2>6 DEF Sound, Others
  <2>8. Content(d, t) = Content(c, t)
    BY <2>1, <2>4, <2>5, <2>6, <2>7, ContentOf
  <2> QED
    BY <2>1, <2>7, <2>8 DEF Registered
<1>2. ASSUME NEW t \in Session \ {s}
      PROVE  Headed(d, t) /\ (t \in Registered(d) <=> t \in Registered(c))
  <2>1. t \in Path /\ t \notin Paths(s)
    BY PathsFacts DEF Path
  <2> QED
    BY <2>1 DEF Others, LogCache, Headed, Registered
<1> QED
  BY <1>1, <1>2

\* A method that moves session s around: everybody holds what they held.
Settled(s, c, d) ==
  /\ d \in CacheType /\ Registered(d) = Registered(c)
  /\ LogCache(d)
  /\ \A t \in Registered(c) : Content(d, t) = Content(c, t)
  /\ \A t \in Session \ {s} : d.sess[t] = c.sess[t]

LEMMA OneSettled ==
  ASSUME Separate, NEW c \in CacheType, Own(c), LogCache(c), NEW s \in Registered(c),
         NEW d \in CacheType, Others(s, c, d), s \in Registered(d), Sound(d, s), Headed(d, s),
         Content(d, s) = Content(c, s)
  PROVE  Settled(s, c, d)
<1>1. s \in Session
  BY DEF Registered
<1>2. LogCache(d) /\ \A t \in Registered(c) : Content(d, t) = Content(c, t)
  BY <1>1, OthersSound DEF LogCache, Registered
<1>3. Registered(d) = Registered(c)
  BY <1>1, OthersSound DEF Registered
<1> QED
  BY <1>2, <1>3 DEF Settled, Others

\* The session of the sequence q.
LEMMA OwnerFacts ==
  ASSUME IInv, NEW q \in SeqId, NEW s \in Owners(cache, q)
  PROVE  /\ s \in Registered(cache) /\ s \in Session /\ cache.sess[s] \in SessionType
         /\ cache.sess[s].vram = q /\ q # Null
         /\ \A t \in Registered(cache) \ {s} : cache.sess[t].vram # q
BY CacheParts, CacheAssumption
DEF IInv, TypeOK, VramExclusive, ExclusiveIn, Owners, SeqId, Registered

\* evict moves the cells with the head they are counted by.
LEMMA EvictedSettled ==
  ASSUME Separate, IInv, OwnInv, LogCache(cache), NEW q \in SeqId, NEW s \in Owners(cache, q)
  PROVE  /\ Settled(s, cache, Evicted(cache, q, s))
         /\ Evicted(cache, q, s).sess[s].vram = Null
         /\ \A p \in SeqId \ {q} : Evicted(cache, q, s).kv[p] = cache.kv[p]
<1> DEFINE k == cache.sess[s]
           snap == Snapshot(cache, q, s)
           p == k.path
           toDisk == [k EXCEPT !.vram = Null, !.tier = "disk", !.ram = Null]
           toRam == [k EXCEPT !.vram = Null, !.tier = "ram", !.ram = snap]
           d == Evicted(cache, q, s)
<1>1. /\ s \in Registered(cache) /\ s \in Session /\ k \in SessionType /\ k.vram = q /\ q # Null
      /\ \A t \in Registered(cache) \ {s} : cache.sess[t].vram # q
      /\ cache \in CacheType /\ Own(cache) /\ p \in Path /\ p \in Paths(s)
  BY OwnerFacts DEF IInv, TypeOK, OwnInv, SessionType, Own, OwnEntry
<1>2. d \in CacheType /\ Registered(d) = Registered(cache) /\ d.sess[s].vram = Null
  BY <1>1, EvictedFacts DEF Moves
<1>3. /\ snap.data = cache.kv[q] /\ snap.head = k.head /\ snap # Null
      /\ Whole(snap.data, snap.head) /\ k.head <= k.ntok
  <2>1. snap \in SnapshotType
    BY <1>1, CacheParts DEF Snapshot, SnapshotType, SessionType
  <2>2. Sound(cache, s)
    BY <1>1 DEF LogCache
  <2>3. snap # Null
    BY NullAssumption, <2>1
  <2> QED
    BY <1>1, <2>2, <2>3 DEF Sound, Snapshot
<1>4. \A t \in Registered(cache) \ {s} : cache.sess[t].vram # Null =>
        cache.sess[t].vram \in SeqId \ {q}
  BY <1>1, CacheParts DEF SessionType
<1>5. CASE cache.unified
  <2>1. d = [cache EXCEPT !.kv[q] = <<>>, !.sess[s] = toDisk, !.file[p] = snap]
    BY <1>5 DEF Evicted
  <2>2. /\ toDisk.vram = Null /\ toDisk.ram = Null /\ toDisk.path = p
        /\ toDisk.head = k.head /\ toDisk.ntok = k.ntok
    BY <1>1 DEF SessionType
  <2> HIDE DEF d, snap, p, toDisk, k
  <2>3. /\ d.sess[s] = toDisk /\ \A t \in Session \ {s} : d.sess[t] = cache.sess[t]
        /\ d.kv[q] = <<>> /\ \A x \in SeqId \ {q} : d.kv[x] = cache.kv[x]
        /\ d.file[p] = snap /\ \A f \in Path \ {p} : d.file[f] = cache.file[f]
        /\ d.unified = cache.unified
    BY <1>1, <2>1 DEF CacheType
  <2>4. Others(s, cache, d)
    BY <1>1, <1>4, <2>3 DEF Others
  <2>5. Outside(d, s) = snap
    BY <2>2, <2>3 DEF Outside
  <2>6. Sound(d, s)
    BY <1>3, <2>2, <2>3, <2>5 DEF Sound
  <2>7. Content(d, s) = Content(cache, s)
    <3>1. Content(d, s) = snap.data
      BY <2>2, <2>3, <2>5, <2>6, ContentOf
    <3>2. Content(cache, s) = cache.kv[q]
      BY <1>1, ContentOf DEF LogCache, k
    <3> QED
      BY <1>3, <3>1, <3>2
  <2>8. Headed(d, s)
    <3>1. s \in Path
      BY <1>1 DEF Path
    <3> QED
      BY <1>1, <1>3, <2>3, <3>1 DEF Headed, LogCache, Whole
  <2>9. Settled(s, cache, d)
    BY <1>1, <1>2, <2>4, <2>6, <2>7, <2>8, OneSettled
  <2> QED
    BY <1>2, <2>3, <2>9 DEF d
<1>6. CASE ~cache.unified
  <2>1. d = [cache EXCEPT !.kv[q] = <<>>, !.sess[s] = toRam]
    BY <1>6 DEF Evicted
  <2>2. /\ toRam.vram = Null /\ toRam.ram = snap
        /\ toRam.head = k.head /\ toRam.ntok = k.ntok
    BY <1>1 DEF SessionType
  <2> HIDE DEF d, snap, p, toRam, k
  <2>3. /\ d.sess[s] = toRam /\ \A t \in Session \ {s} : d.sess[t] = cache.sess[t]
        /\ d.kv[q] = <<>> /\ \A x \in SeqId \ {q} : d.kv[x] = cache.kv[x]
        /\ d.file = cache.file
        /\ d.unified = cache.unified
    BY <1>1, <2>1 DEF CacheType
  <2>4. Others(s, cache, d)
    BY <1>1, <1>4, <2>3 DEF Others
  <2>5. Outside(d, s) = snap
    BY <1>3, <2>2, <2>3 DEF Outside
  <2>6. Sound(d, s)
    BY <1>3, <1>6, <2>2, <2>3, <2>5 DEF Sound
  <2>7. Content(d, s) = Content(cache, s)
    <3>1. Content(d, s) = snap.data
      BY <2>2, <2>3, <2>5, <2>6, ContentOf
    <3>2. Content(cache, s) = cache.kv[q]
      BY <1>1, ContentOf DEF LogCache, k
    <3> QED
      BY <1>3, <3>1, <3>2
  <2>8. Headed(d, s)
    BY <1>1, <2>3 DEF Headed, LogCache
  <2>9. Settled(s, cache, d)
    BY <1>1, <1>2, <2>4, <2>6, <2>7, <2>8, OneSettled
  <2> QED
    BY <1>2, <2>3, <2>9 DEF d
<1> QED
  BY <1>5, <1>6

\* A save from the sequence changes where the session's file is.
LEMMA SavedToDiskSettled ==
  ASSUME Separate, IInv, OwnInv, LogCache(cache), NEW q \in SeqId, NEW s \in Owners(cache, q),
         NEW p \in TemplatesOf[s]
  PROVE  /\ Settled(s, cache, SavedToDisk(cache, q, s, p))
         /\ SavedToDisk(cache, q, s, p).kv = cache.kv
         /\ SavedToDisk(cache, q, s, p).sess[s].vram = q
<1> DEFINE k == cache.sess[s]
           e == [Clamped(k) EXCEPT !.path = p]
           snap == [data |-> cache.kv[q], head |-> Clamped(k).head]
           d == SavedToDisk(cache, q, s, p)
<1>1. /\ s \in Registered(cache) /\ s \in Session /\ k \in SessionType /\ k.vram = q /\ q # Null
      /\ cache \in CacheType /\ Own(cache) /\ p \in Path /\ p \in Paths(s)
  <2>1. p \in Paths(s)
    BY DEF Paths
  <2> QED
    BY <2>1, OwnerFacts, PathsFacts DEF IInv, TypeOK, OwnInv
<1>2. d \in CacheType /\ Registered(d) = Registered(cache)
  BY <1>1, SavedToDiskFacts DEF Moves
<1>3. k.head <= k.ntok /\ Whole(cache.kv[q], k.head) /\ k.ram = Null
  BY <1>1 DEF LogCache, Sound
<1>4. e.vram = q /\ e.ram = Null /\ e.head = k.head /\ e.ntok = k.head
  BY <1>1, <1>3 DEF SessionType, Clamped
<1>5. d = [cache EXCEPT !.sess[s] = e, !.file[p] = snap]
  BY DEF SavedToDisk
<1> HIDE DEF d, e, snap
<1>6. /\ d.sess[s] = e /\ \A t \in Session \ {s} : d.sess[t] = cache.sess[t]
      /\ d.kv = cache.kv /\ d.unified = cache.unified
      /\ \A f \in Path \ {p} : d.file[f] = cache.file[f]
  BY <1>1, <1>5 DEF CacheType
<1>7. Others(s, cache, d)
  BY <1>1, <1>6 DEF Others
<1>8. Sound(d, s)
  <2>1. e.head \in Nat
    BY <1>1, <1>4 DEF SessionType
  <2> QED
    BY <1>1, <1>3, <1>4, <1>6, <2>1 DEF Sound
<1>9. Content(d, s) = Content(cache, s)
  BY <1>1, <1>4, <1>6 DEF Content
<1>10. Headed(d, s)
  <2>1. s \in Path /\ s # p
    BY <1>1 DEF Path, Separate
  <2> QED
    BY <1>1, <1>6, <2>1 DEF Headed, LogCache
<1>11. Settled(s, cache, d)
  BY <1>1, <1>2, <1>7, <1>8, <1>9, <1>10, OneSettled
<1> QED
  BY <1>4, <1>6, <1>11 DEF d

\* So does a save of the RAM snapshot, which becomes the file.
LEMMA SavedRamToDiskSettled ==
  ASSUME Separate, IInv, OwnInv, LogCache(cache), NEW s \in Registered(cache),
         cache.sess[s].ram # Null, NEW p \in TemplatesOf[s]
  PROVE  /\ Settled(s, cache, SavedRamToDisk(cache, s, p))
         /\ SavedRamToDisk(cache, s, p).kv = cache.kv
         /\ SavedRamToDisk(cache, s, p).sess[s].vram = cache.sess[s].vram
<1> DEFINE k == cache.sess[s]
           m == Clamped(k)
           e == [m EXCEPT !.path = p, !.tier = "disk",
                          !.ram = IF cache.unified THEN m.ram ELSE Null]
           snap == [data |-> m.ram.data, head |-> m.head]
           d == SavedRamToDisk(cache, s, p)
<1>1. /\ s \in Session /\ k \in SessionType /\ k.ram \in SnapshotType
      /\ cache \in CacheType /\ Own(cache) /\ p \in Path /\ p \in Paths(s)
  <2>1. p \in Paths(s)
    BY DEF Paths
  <2>2. s \in Session /\ k \in SessionType /\ cache \in CacheType /\ Own(cache)
    BY CacheParts DEF IInv, TypeOK, OwnInv
  <2> QED
    BY <2>1, <2>2, PathsFacts DEF SessionType
<1>2. d \in CacheType /\ Registered(d) = Registered(cache)
  BY <1>1, SavedRamToDiskFacts DEF Moves
<1>3. /\ ~cache.unified /\ k.vram = Null /\ Outside(cache, s) = k.ram
      /\ k.head <= k.ntok /\ k.ram.head = k.head /\ Whole(k.ram.data, k.head)
  <2>1. Sound(cache, s) /\ Outside(cache, s) = k.ram
    BY DEF LogCache, Outside
  <2> QED
    BY <2>1 DEF Sound
<1>4. m \in SessionType /\ m.vram = Null /\ m.ram = k.ram /\ m.head = k.head /\ m.ntok = k.head
  BY <1>1, <1>3 DEF SessionType, Clamped
<1>5. d = [cache EXCEPT !.sess[s] = e, !.file[p] = snap]
  BY DEF SavedRamToDisk
<1> HIDE DEF m, k
<1>6. e.vram = Null /\ e.ram = Null /\ e.head = k.head /\ e.ntok = k.head /\ e.path = p
  BY <1>3, <1>4 DEF SessionType
<1>7. snap.data = k.ram.data /\ snap.head = k.head /\ snap # Null
  <2>1. snap \in SnapshotType
    BY <1>1, <1>4 DEF SnapshotType, SessionType
  <2> QED
    BY <1>4, <2>1, NullAssumption
<1> HIDE DEF d, e, snap
<1>8. /\ d.sess[s] = e /\ \A t \in Session \ {s} : d.sess[t] = cache.sess[t]
      /\ d.kv = cache.kv /\ d.unified = cache.unified
      /\ d.file[p] = snap /\ \A f \in Path \ {p} : d.file[f] = cache.file[f]
  BY <1>1, <1>5 DEF CacheType
<1>9. Others(s, cache, d)
  BY <1>1, <1>8 DEF Others
<1>10. Outside(d, s) = snap
  BY <1>6, <1>8 DEF Outside
<1>11. Sound(d, s)
  <2>1. e.head \in Nat
    BY <1>1, <1>6 DEF SessionType, k
  <2> QED
    BY <1>3, <1>6, <1>7, <1>8, <1>10, <2>1 DEF Sound
<1>12. Content(d, s) = Content(cache, s)
  <2>1. Content(d, s) = snap.data
    BY <1>6, <1>8, <1>10, <1>11, ContentOf
  <2>2. Content(cache, s) = k.ram.data
    BY <1>3, ContentOf DEF LogCache, k
  <2> QED
    BY <1>7, <2>1, <2>2
<1>13. Headed(d, s)
  <2>1. s \in Path /\ s # p
    BY <1>1 DEF Path, Separate
  <2> QED
    BY <1>1, <1>8, <2>1 DEF Headed, LogCache
<1>14. Settled(s, cache, d)
  BY <1>1, <1>2, <1>9, <1>11, <1>12, <1>13, OneSettled
<1> QED
  BY <1>3, <1>6, <1>8, <1>14 DEF d, k

\* A save that fails spoils a template's file, which the session does not need as long as
\* it is in a sequence or in RAM.
LEMMA SaveFailuresSettled ==
  ASSUME Separate, IInv, OwnInv, LogCache(cache), NEW s \in Registered(cache),
         cache.sess[s].vram # Null \/ cache.sess[s].ram # Null, NEW p \in TemplatesOf[s],
         NEW d \in SaveFailures(cache, s, p)
  PROVE  /\ Settled(s, cache, d) /\ d.kv = cache.kv
         /\ d.sess[s].vram = cache.sess[s].vram /\ d.sess[s].ram = cache.sess[s].ram
<1> DEFINE k == cache.sess[s]
           e == Clamped(k)
           clamped == [cache EXCEPT !.sess[s] = e]
           cut == [data |-> <<>>, head |-> e.head]
<1>1. /\ s \in Session /\ k \in SessionType
      /\ cache \in CacheType /\ Own(cache) /\ p \in Path /\ p \in Paths(s)
  <2>1. p \in Paths(s)
    BY DEF Paths
  <2>2. s \in Session /\ k \in SessionType /\ cache \in CacheType /\ Own(cache)
    BY CacheParts DEF IInv, TypeOK, OwnInv
  <2> QED
    BY <2>1, <2>2, PathsFacts
<1>2. d \in CacheType /\ Registered(d) = Registered(cache)
  BY <1>1, SaveFailuresFacts DEF Moves
<1>3. Sound(cache, s) /\ k.head <= k.ntok
  BY DEF LogCache, Sound
<1>4. /\ e \in SessionType /\ e.vram = k.vram /\ e.ram = k.ram
      /\ e.head = k.head /\ e.ntok = k.head
  <2>1. e \in SessionType /\ e.vram = k.vram /\ e.ram = k.ram
    BY <1>1, ClampedFacts
  <2> QED
    BY <1>1, <1>3, <2>1 DEF SessionType, Clamped
<1>5. d = clamped \/ d = [clamped EXCEPT !.file[p] = Null] \/ d = [clamped EXCEPT !.file[p] = cut]
  BY DEF SaveFailures, WriteFailures
<1> HIDE DEF e, cut, k
<1>6. /\ clamped \in CacheType /\ clamped.sess[s] = e
      /\ \A t \in Session \ {s} : clamped.sess[t] = cache.sess[t]
      /\ clamped.kv = cache.kv /\ clamped.file = cache.file /\ clamped.unified = cache.unified
  <2>1. clamped \in CacheType /\ clamped.sess[s] = e
        /\ \A t \in Session \ {s} : clamped.sess[t] = cache.sess[t]
    BY <1>1, <1>4, SessUpdate
  <2>2. clamped.kv = cache.kv /\ clamped.file = cache.file /\ clamped.unified = cache.unified
    BY <1>1 DEF CacheType
  <2> QED
    BY <2>1, <2>2
<1> HIDE DEF clamped
<1>7. /\ d.sess = clamped.sess /\ d.kv = clamped.kv /\ d.unified = clamped.unified
      /\ \A f \in Path \ {p} : d.file[f] = clamped.file[f]
  BY <1>1, <1>5, <1>6 DEF CacheType
<1>8. Others(s, cache, d)
  BY <1>1, <1>6, <1>7 DEF Others
<1>9. Sound(d, s) /\ Content(d, s) = Content(cache, s)
  <2>1. d.sess[s] = e /\ e.head \in Nat
    BY <1>4, <1>6, <1>7 DEF SessionType
  <2>2. CASE k.vram # Null
    <3>1. Sound(d, s)
      BY <1>3, <1>4, <1>6, <1>7, <2>1, <2>2 DEF Sound, k
    <3> QED
      BY <1>3, <1>4, <1>6, <1>7, <2>1, <2>2, <3>1, ContentOf DEF k
  <2>3. CASE k.vram = Null /\ k.ram # Null
    <3>1. Outside(d, s) = k.ram /\ Outside(cache, s) = k.ram
      BY <1>4, <2>1, <2>3 DEF Outside, k
    <3>2. Sound(d, s)
      BY <1>3, <1>4, <1>6, <1>7, <2>1, <2>3, <3>1 DEF Sound, k
    <3> QED
      BY <1>3, <1>4, <2>1, <2>3, <3>1, <3>2, ContentOf DEF k
  <2> QED
    BY <2>2, <2>3 DEF k
<1>10. Headed(d, s)
  <2>1. s \in Path /\ s # p
    BY <1>1 DEF Path, Separate
  <2> QED
    BY <1>1, <1>6, <1>7, <2>1 DEF Headed, LogCache
<1>11. Settled(s, cache, d)
  BY <1>1, <1>2, <1>8, <1>9, <1>10, OneSettled
<1> QED
  BY <1>4, <1>6, <1>7, <1>11 DEF k

-----------------------------------------------------------------------------
\* restore, field by field.
LEMMA RestoredParts ==
  ASSUME NEW c \in CacheType, NEW q \in SeqId, NEW s \in Registered(c), Restorable(c, s),
         c.unified => c.sess[s].ram = Null
  PROVE  LET d == Restored(c, q, s)
         IN  /\ d.kv[q] = Outside(c, s).data /\ \A p \in SeqId \ {q} : d.kv[p] = c.kv[p]
             /\ d.file = c.file /\ d.unified = c.unified
             /\ \A t \in Session \ {s} : d.sess[t] = c.sess[t]
             /\ d.sess[s].vram = q /\ d.sess[s].ram = Null
             /\ d.sess[s].head = Outside(c, s).head /\ d.sess[s].ntok = c.sess[s].ntok
             /\ d \in CacheType /\ Registered(d) = Registered(c) /\ Outside(c, s) \in SnapshotType
<1> DEFINE k == c.sess[s]
           snap == Outside(c, s)
           data == snap.data
           ram == IF c.unified THEN k.ram ELSE Null
           e == [k EXCEPT !.tier = "vram", !.vram = q, !.head = snap.head, !.ram = ram]
           d == Restored(c, q, s)
<1>1. s \in Session /\ k \in SessionType
  BY CacheParts
<1>2. snap \in SnapshotType
  BY <1>1, CacheParts DEF Restorable, SessionType, Outside
<1>3. d = [c EXCEPT !.kv[q] = data, !.sess[s] = e]
  BY DEF Restored, Outside
<1>4. d \in CacheType /\ Registered(d) = Registered(c)
  BY RestoredFacts DEF Moves
<1>5. ram = Null
  OBVIOUS
<1> DEFINE head == snap.head
<1> HIDE DEF k, snap, data, ram, d
<1>6. e.vram = q /\ e.ram = Null /\ e.head = head /\ e.ntok = k.ntok
  BY <1>1, <1>5 DEF SessionType
<1> HIDE DEF e
<1>7. /\ d.kv[q] = data /\ \A p \in SeqId \ {q} : d.kv[p] = c.kv[p]
      /\ d.file = c.file /\ d.unified = c.unified
      /\ d.sess[s] = e /\ \A t \in Session \ {s} : d.sess[t] = c.sess[t]
  BY <1>1, <1>3 DEF CacheType
<1> QED
  BY <1>2, <1>4, <1>6, <1>7 DEF d, k, snap, data

\* A sequence cleared and owned, field by field.
LEMMA FreshParts ==
  ASSUME NEW c \in CacheType, NEW q \in SeqId, NEW s \in Registered(c)
  PROVE  LET d == FreshSequence(c, q, s)
         IN  /\ d.kv[q] = <<>> /\ \A p \in SeqId \ {q} : d.kv[p] = c.kv[p]
             /\ d.file = c.file /\ d.unified = c.unified
             /\ \A t \in Session \ {s} : d.sess[t] = c.sess[t]
             /\ d.sess[s].vram = q /\ d.sess[s].ram = c.sess[s].ram
             /\ d.sess[s].head = c.sess[s].head /\ d.sess[s].ntok = c.sess[s].ntok
             /\ d \in CacheType /\ Registered(d) = Registered(c)
<1> DEFINE k == ClearSequence(c, q)
           e == [c.sess[s] EXCEPT !.vram = q, !.tier = "vram"]
           d == FreshSequence(c, q, s)
<1>1. /\ k \in CacheType /\ k.sess = c.sess /\ k.file = c.file /\ k.unified = c.unified
      /\ k.kv[q] = <<>> /\ \A p \in SeqId \ {q} : k.kv[p] = c.kv[p]
  <2>1. /\ k.file = c.file /\ k.unified = c.unified
        /\ k.kv[q] = <<>> /\ \A p \in SeqId \ {q} : k.kv[p] = c.kv[p]
    BY DEF ClearSequence, CacheType
  <2> QED
    BY <2>1, ClearSequenceFacts
<1>2. s \in Registered(k) /\ s \in Session /\ c.sess[s] \in SessionType
  BY <1>1, CacheParts DEF Registered
<1>3. d \in CacheType /\ Registered(d) = Registered(c)
  <2>1. Moves({s}, k, d)
    BY <1>1, SetVramSeqFacts DEF FreshSequence
  <2> QED
    BY <1>1, <2>1 DEF Moves, Registered
<1>4. d = [k EXCEPT !.sess[s] = e]
  BY <1>1, <1>2 DEF FreshSequence, SetVramSeq
<1>5. /\ e.vram = q /\ e.ram = c.sess[s].ram
      /\ e.head = c.sess[s].head /\ e.ntok = c.sess[s].ntok
  BY <1>2 DEF SessionType
<1> HIDE DEF d, k, e
<1>6. /\ d.kv = k.kv /\ d.file = k.file /\ d.unified = k.unified
      /\ d.sess[s] = e /\ \A t \in Session \ {s} : d.sess[t] = k.sess[t]
  BY <1>1, <1>2, <1>4 DEF CacheType
<1> QED
  BY <1>1, <1>3, <1>5, <1>6 DEF d

\* A new session, field by field.
LEMMA RegisterParts ==
  ASSUME NEW c \in CacheType, NEW s \in Session, s \notin Registered(c)
  PROVE  LET d == Register(c, s)
         IN  /\ d.kv = c.kv /\ d.file = c.file /\ d.unified = c.unified
             /\ \A t \in Session \ {s} : d.sess[t] = c.sess[t]
             /\ d.sess[s] = NewSession(s)
             /\ d \in CacheType /\ Registered(d) = Registered(c) \cup {s}
<1> DEFINE e == NewSession(s)
           d == Register(c, s)
<1>1. d = [c EXCEPT !.sess[s] = e]
  BY DEF Register
<1>2. d \in CacheType /\ s \in Registered(d)
  BY RegisterFacts
<1> HIDE DEF d, e
<1>3. /\ d.kv = c.kv /\ d.file = c.file /\ d.unified = c.unified
      /\ \A t \in Session \ {s} : d.sess[t] = c.sess[t]
      /\ d.sess[s] = e
  BY <1>1 DEF CacheType
<1>4. Registered(d) = Registered(c) \cup {s}
  BY <1>2, <1>3 DEF Registered
<1> QED
  BY <1>2, <1>3, <1>4 DEF d, e

\* From c to d session s starts or goes on in sequence q, at position off; everybody else
\* holds what they held, and so does s if it was there.
Started(q, s, c, d, off) ==
  /\ LogCache(d)
  /\ Registered(d) = Registered(c) \cup ({s} \ {Null})
  /\ \A t \in Registered(c) : Content(d, t) = Content(c, t)
  /\ \A t \in Session \ {s} : d.sess[t] = c.sess[t]
  /\ \A p \in SeqId \ {q} : d.kv[p] = c.kv[p]
  /\ off = Len(d.kv[q])
  /\ s # Null => s \in Owners(d, q) /\ (s \notin Registered(c) => Content(d, s) = <<>>)

\* A session that comes from outside its sequence, or from nowhere.
LEMMA ArrivedStarted ==
  ASSUME Separate, NEW c \in CacheType, Own(c), LogCache(c), NEW q \in SeqId, NEW s \in Session,
         Owners(c, q) = {}, NEW d \in CacheType,
         d.unified = c.unified, d.file = c.file,
         \A p \in SeqId \ {q} : d.kv[p] = c.kv[p],
         \A t \in Session \ {s} : d.sess[t] = c.sess[t],
         s \in Registered(d), d.sess[s].vram = q, d.sess[s].ram = Null,
         d.sess[s].head <= d.sess[s].ntok, Whole(d.kv[q], d.sess[s].head),
         s \in Registered(c) => d.kv[q] = Content(c, s),
         s \notin Registered(c) => d.kv[q] = <<>>
  PROVE  Started(q, s, c, d, d.sess[s].head)
<1>1. q # Null /\ s # Null
  BY CacheAssumption DEF SeqId
<1>2. Others(s, c, d)
  <2>1. \A t \in Registered(c) \ {s} :
          c.sess[t].vram # Null => d.kv[c.sess[t].vram] = c.kv[c.sess[t].vram]
    <3> SUFFICES ASSUME NEW t \in Registered(c) \ {s}, c.sess[t].vram # Null
                 PROVE  d.kv[c.sess[t].vram] = c.kv[c.sess[t].vram]
      OBVIOUS
    <3>1. c.sess[t].vram \in SeqId /\ c.sess[t].vram # q
      BY CacheParts DEF SessionType, Owners
    <3> QED
      BY <3>1
  <2> QED
    BY <2>1 DEF Others
<1>3. Sound(d, s)
  BY <1>1 DEF Sound
<1>4. Content(d, s) = d.kv[q]
  BY <1>1, <1>3, ContentOf
<1>5. Headed(d, s)
  BY DEF Headed, LogCache
<1>6. LogCache(d)
  <2>1. \A t \in Registered(d) : Sound(d, t)
    BY <1>2, <1>3, OthersSound DEF Registered
  <2>2. \A t \in Session : Headed(d, t)
    BY <1>2, <1>5, OthersSound
  <2> QED
    BY <2>1, <2>2 DEF LogCache
<1>7. Registered(d) = Registered(c) \cup {s}
  BY <1>2, OthersSound DEF Registered
<1>8. \A t \in Registered(c) : Content(d, t) = Content(c, t)
  <2>1. \A t \in Registered(c) \ {s} : /\ t \in Registered(d) /\ Sound(d, t)
                                       /\ Content(d, t) = Content(c, t)
    BY <1>2, OthersSound, Zenon
  <2>2. s \in Registered(c) => Content(d, s) = Content(c, s)
    BY <1>4
  <2> QED
    BY <2>1, <2>2
<1>9. d.sess[s].head = Len(d.kv[q])
  BY DEF Whole
<1>10. s \in Owners(d, q)
  BY DEF Owners
<1> QED
  BY <1>1, <1>4, <1>6, <1>7, <1>8, <1>9, <1>10 DEF Started

\* Where a request starts.  s is in q or in no sequence.
LEMMA PlacedStarted ==
  ASSUME Separate, NEW c \in CacheType, Own(c), LogCache(c), NEW q \in SeqId, NEW r \in Req,
         Owners(c, q) \subseteq {SessionOf[r]},
         SessionOf[r] \in Registered(c) =>
           c.sess[SessionOf[r]].vram = q \/ c.sess[SessionOf[r]].vram = Null
  PROVE  Started(q, SessionOf[r], c, Placed(c, q, r).cache, Placed(c, q, r).off)
<1> DEFINE s == SessionOf[r]
           known == IF s = Null THEN c ELSE Register(c, s)
           d == Placed(c, q, r).cache
           off == Placed(c, q, r).off
<1>1. /\ s \in Session \cup {Null} /\ ParentSlots(r) = {}
      /\ q # Null /\ Null \notin Session /\ Null \notin Registered(c)
  BY EngineAssumption, CacheAssumption DEF Separate, ParentSlots, SeqId, Registered
<1>2. CASE s = Null
  <2>1. d = FreshSequence(c, q, s) /\ off = 0
    BY <1>1, <1>2 DEF Placed
  <2>2. d = ClearSequence(c, q)
    <3>1. s \notin Registered(ClearSequence(c, q))
      BY <1>1, <1>2 DEF Registered
    <3> QED
      BY <2>1, <3>1 DEF FreshSequence, SetVramSeq
  <2>3. /\ d.sess = c.sess /\ d.file = c.file /\ d.unified = c.unified
        /\ d.kv[q] = <<>> /\ \A p \in SeqId \ {q} : d.kv[p] = c.kv[p]
    BY <2>2 DEF ClearSequence, CacheType
  <2>4. Owners(c, q) = {}
    BY <1>1, <1>2 DEF Owners
  <2> HIDE DEF d, off
  <2>5. ASSUME NEW t \in Registered(c)
        PROVE  Sound(d, t) /\ Content(d, t) = Content(c, t)
    <3>1. c.sess[t].vram # Null => c.sess[t].vram \in SeqId /\ c.sess[t].vram # q
      BY <2>4, CacheParts DEF Owners, SessionType
    <3>2. Sound(c, t)
      BY DEF LogCache
    <3>3. Outside(d, t) = Outside(c, t)
      BY <2>3 DEF Outside
    <3>4. Sound(d, t)
      BY <2>3, <3>1, <3>2, <3>3 DEF Sound
    <3> QED
      BY <2>3, <3>1, <3>2, <3>3, <3>4, ContentOf
  <2>6. LogCache(d) /\ Registered(d) = Registered(c)
    BY <2>3, <2>5 DEF LogCache, Headed, Registered
  <2>7. off = Len(d.kv[q])
    BY <2>1, <2>3
  <2>8. Registered(d) = Registered(c) \cup ({s} \ {Null})
    BY <1>2, <2>6
  <2>9. Started(q, s, c, d, off)
    BY <1>2, <2>3, <2>5, <2>6, <2>7, <2>8 DEF Started
  <2> QED
    BY <2>9 DEF d, off
<1>3. CASE s \in Registered(c) /\ c.sess[s].vram = q
  <2>1. known = c /\ s # Null
    BY <1>1, <1>3 DEF Register
  <2>2. d = c /\ off = c.sess[s].head
    BY <1>1, <1>3, <2>1 DEF Placed
  <2>3. off = Len(c.kv[q])
    BY <1>1, <1>3, <2>2 DEF LogCache, Sound, Whole
  <2> HIDE DEF d, off
  <2>4. Started(q, s, c, c, off)
    BY <1>3, <2>3 DEF Started, Owners
  <2> QED
    BY <2>2, <2>4 DEF d, off
<1>4. CASE s \in Registered(c) /\ c.sess[s].vram # q
  <2>1. known = c /\ s # Null /\ c.sess[s].vram = Null /\ s \in Session
    BY <1>1, <1>4 DEF Register
  <2>2. /\ Sound(c, s) /\ Owners(c, q) = {}
        /\ c.sess[s].head <= c.sess[s].ntok
        /\ Outside(c, s) # Null /\ Outside(c, s).head = c.sess[s].head
        /\ Whole(Outside(c, s).data, c.sess[s].head)
        /\ c.unified => c.sess[s].ram = Null
        /\ Content(c, s) = Outside(c, s).data
    <3>1. Sound(c, s)
      BY <1>4 DEF LogCache
    <3> QED
      BY <1>1, <1>4, <2>1, <3>1, ContentOf DEF Sound, Owners
  <2>3. Restorable(c, s)
    BY <2>2 DEF Restorable, Outside
  <2>4. d = Restored(c, q, s) /\ off = d.sess[s].head
    BY <1>1, <1>4, <2>1, <2>3 DEF Placed
  <2> HIDE DEF d, off
  <2>5. /\ d.kv[q] = Outside(c, s).data /\ \A p \in SeqId \ {q} : d.kv[p] = c.kv[p]
        /\ d.file = c.file /\ d.unified = c.unified
        /\ \A t \in Session \ {s} : d.sess[t] = c.sess[t]
        /\ d.sess[s].vram = q /\ d.sess[s].ram = Null
        /\ d.sess[s].head = Outside(c, s).head /\ d.sess[s].ntok = c.sess[s].ntok
        /\ d \in CacheType /\ Registered(d) = Registered(c)
    BY <1>4, <2>2, <2>3, <2>4, RestoredParts
  <2>6. Started(q, s, c, d, d.sess[s].head)
    BY <1>4, <2>1, <2>2, <2>5, ArrivedStarted
  <2> QED
    BY <2>4, <2>6 DEF d, off
<1>5. CASE s # Null /\ s \notin Registered(c)
  <2>1. /\ s \in Session /\ known = Register(c, s) /\ Owners(c, q) = {}
    BY <1>1, <1>5 DEF Owners
  <2>2. /\ known.kv = c.kv /\ known.file = c.file /\ known.unified = c.unified
        /\ \A t \in Session \ {s} : known.sess[t] = c.sess[t]
        /\ known.sess[s] = NewSession(s)
        /\ known \in CacheType /\ Registered(known) = Registered(c) \cup {s}
    BY <1>5, <2>1, RegisterParts
  <2>3. /\ NewSession(s).vram = Null /\ NewSession(s).ram = Null /\ NewSession(s).path = s
        /\ NewSession(s).head = 0 /\ NewSession(s).ntok = 0
    BY DEF NewSession
  <2>4. known.sess[s].vram # q
    BY <1>1, <2>2, <2>3
  <2>5. ASSUME NEW f \in CacheType, f.kv[q] = <<>>, f.file = known.file, f.unified = known.unified,
               \A p \in SeqId \ {q} : f.kv[p] = known.kv[p],
               \A t \in Session \ {s} : f.sess[t] = known.sess[t],
               f.sess[s].vram = q, f.sess[s].ram = Null, f.sess[s].head = 0, f.sess[s].ntok = 0,
               Registered(f) = Registered(known)
        PROVE  Started(q, s, c, f, f.sess[s].head)
    <3>1. Whole(<<>>, 0)
      BY DEF Whole
    <3> HIDE DEF known
    <3> QED
      BY <1>5, <2>1, <2>2, <2>5, <3>1, ArrivedStarted
  <2>6. CASE Restorable(known, s)
    <3>1. d = Restored(known, q, s) /\ off = d.sess[s].head
      BY <1>1, <1>5, <2>4, <2>6 DEF Placed
    <3>2. Outside(known, s) = c.file[s] /\ c.file[s] # Null /\ c.file[s].head <= 0
      BY <2>2, <2>3, <2>6 DEF Restorable, Outside
    <3> HIDE DEF known, d, off
    <3>3. /\ d.kv[q] = Outside(known, s).data /\ \A p \in SeqId \ {q} : d.kv[p] = known.kv[p]
          /\ d.file = known.file /\ d.unified = known.unified
          /\ \A t \in Session \ {s} : d.sess[t] = known.sess[t]
          /\ d.sess[s].vram = q /\ d.sess[s].ram = Null
          /\ d.sess[s].head = Outside(known, s).head /\ d.sess[s].ntok = known.sess[s].ntok
          /\ d \in CacheType /\ Registered(d) = Registered(known)
          /\ Outside(known, s) \in SnapshotType
      BY <2>2, <2>3, <2>6, <3>1, RestoredParts
    <3>4. c.file[s].head = 0 /\ c.file[s].data = <<>>
      <4>1. c.file[s] \in SnapshotType /\ c.file[s].head = Len(c.file[s].data)
        BY <2>1, <3>2, <3>3 DEF LogCache, Headed
      <4>2. c.file[s].head \in Nat /\ c.file[s].data \in Seq(Cell)
        BY <4>1 DEF SnapshotType
      <4> QED
        BY <3>2, <4>1, <4>2
    <3>5. d.kv[q] = <<>> /\ d.sess[s].head = 0 /\ d.sess[s].ntok = 0
      BY <2>2, <2>3, <3>2, <3>3, <3>4
    <3>6. Started(q, s, c, d, d.sess[s].head)
      BY <2>5, <3>3, <3>5
    <3> QED
      BY <3>1, <3>6 DEF d, off
  <2>7. CASE ~Restorable(known, s)
    <3>1. d = FreshSequence(known, q, s) /\ off = 0
      BY <1>1, <1>5, <2>4, <2>7 DEF Placed
    <3> HIDE DEF known, d, off
    <3>2. /\ d.kv[q] = <<>> /\ \A p \in SeqId \ {q} : d.kv[p] = known.kv[p]
          /\ d.file = known.file /\ d.unified = known.unified
          /\ \A t \in Session \ {s} : d.sess[t] = known.sess[t]
          /\ d.sess[s].vram = q /\ d.sess[s].ram = Null
          /\ d.sess[s].head = 0 /\ d.sess[s].ntok = 0
          /\ d \in CacheType /\ Registered(d) = Registered(known)
      BY <2>2, <2>3, <3>1, FreshParts
    <3>3. Started(q, s, c, d, d.sess[s].head)
      BY <2>5, <3>2
    <3> QED
      BY <3>1, <3>2, <3>3 DEF d, off
  <2> QED
    BY <2>6, <2>7
<1> QED
  BY <1>1, <1>2, <1>3, <1>4, <1>5

\* One request of a session is in flight.
LEMMA InFlightOnce ==
  ASSUME PlaceInv, TurnsInv, NEW p \in Req, NEW r \in Req,
         SessionOf[p] = SessionOf[r], SessionOf[r] # Null,
         req[p].st \notin {"new", "gone"}, req[r].st \notin {"new", "gone"}
  PROVE  p = r
<1>1. answer[p] = "none" /\ answer[r] = "none"
  BY DEF PlaceInv, AnsweredIsGone
<1>2. ~(p < r) /\ ~(r < p)
  BY <1>1 DEF TurnsInv
<1>3. p \in Int /\ r \in Int
  BY DEF Req
<1> QED
  BY <1>2, <1>3

\* No slot works for the session of a queued request, so that the session's sequence, if
\* it has one, is free.
LEMMA QueuedAlone ==
  ASSUME IInv, PlaceInv, OwnInv, LogInv, NEW r \in Req, In(r, queue),
         NEW s, s = SessionOf[r], s # Null
  PROVE  /\ \A q \in Active : SessionOf[slots[q]] # s
         /\ s \in Registered(cache) => cache.sess[s].vram \in Free \cup {Null}
<1>1. ASSUME NEW q \in Active, SessionOf[slots[q]] = s
      PROVE  FALSE
  <2>1. q \in SeqId /\ slots[q] \in Req /\ slots[q] # Null
    BY SlotFacts, NullIsNoRequest DEF IInv
  <2>2. req[slots[q]].st \in {"waiting", "processing"} /\ req[r].st = "waiting"
    BY <2>1 DEF PlaceInv, SlotsInv, QueueInv
  <2>3. slots[q] = r
    BY <1>1, <2>1, <2>2, InFlightOnce DEF LogInv
  <2> QED
    BY <2>1, <2>3 DEF PlaceInv, Apart
<1>2. ASSUME s \in Registered(cache), cache.sess[s].vram # Null, cache.sess[s].vram \notin Free
      PROVE  FALSE
  <2>1. cache.sess[s].vram \in Active
    BY <1>2, CacheParts DEF IInv, TypeOK, SessionType, Active
  <2>2. s \in Owners(cache, cache.sess[s].vram)
    BY <1>2 DEF Owners
  <2>3. SlotOwn(cache.sess[s].vram, slots[cache.sess[s].vram])
    BY <2>1 DEF OwnInv, SlotsOwn
  <2> QED
    BY <1>1, <2>1, <2>2, <2>3 DEF SlotOwn
<1> QED
  BY <1>1, <1>2

\* Making room moves the owner of the sequence and nobody else.
LEMMA OwnerEvictedSettled ==
  ASSUME Separate, IInv, OwnInv, LogCache(cache), NEW q \in SeqId, NEW s,
         NEW c \in OwnerEvicted(q, s)
  PROVE  /\ LogCache(c) /\ Registered(c) = Registered(cache)
         /\ \A t \in Registered(cache) : Content(c, t) = Content(cache, t)
         /\ \A t \in Session : cache.sess[t] = Null \/ cache.sess[t].vram # q \/ t = s =>
              c.sess[t] = cache.sess[t]
<1>1. CASE Owners(cache, q) \ {s} = {}
  BY <1>1 DEF OwnerEvicted
<1>2. CASE Owners(cache, q) \ {s} # {}
  <2>1. PICK t \in Owners(cache, q) \ {s} : c = Evicted(cache, q, t)
    BY <1>2 DEF OwnerEvicted
  <2>2. Settled(t, cache, c)
    BY <2>1, EvictedSettled
  <2>3. cache.sess[t] # Null /\ cache.sess[t].vram = q
    BY <2>1 DEF Owners, Registered
  <2> QED
    BY <2>1, <2>2, <2>3 DEF Settled
<1> QED
  BY <1>1, <1>2

\* A turn of schedule_requests: the request's session starts or goes on at its end.
LEMMA ScheduleStarted ==
  ASSUME Orderly, IInv, PlaceInv, OwnInv, LogInv, Schedule,
         NEW r, r = Head(queue), NEW s, s = SessionOf[r], NEW q, q = Target(s)
  PROVE  /\ r \in Req /\ In(r, queue) /\ s \in Session \cup {Null}
         /\ q \in SeqId /\ slots[q] = Null /\ slots' = [slots EXCEPT ![q] = r]
         /\ LogCache(cache')
         /\ Registered(cache') = Registered(cache) \cup ({s} \ {Null})
         /\ \A t \in Registered(cache) : Content(cache', t) = Content(cache, t)
         /\ \A p \in SeqId \ {q} :
              /\ cache'.kv[p] = cache.kv[p]
              /\ \A t \in Owners(cache, p) \ {s} : t \in Owners(cache', p)
         /\ s # Null => /\ s \in Owners(cache', q)
                        /\ s \notin Registered(cache) => Content(cache', s) = <<>>
         /\ \E off : off = Len(cache'.kv[q]) /\ req' = [req EXCEPT ![r].off = off]
<1>1. /\ r \in Req /\ In(r, queue) /\ s \in Session \cup {Null}
      /\ q \in SeqId /\ q \in Free /\ slots[q] = Null /\ cache \in CacheType
  <2>1. queue \in Seq(Req) /\ queue # <<>> /\ Free # {}
    BY DEF IInv, TypeOK, Schedule
  <2>2. r \in Req /\ In(r, queue)
    BY <2>1, TailOnce DEF PlaceInv, QueueInv
  <2> QED
    BY <2>1, <2>2, TargetFacts, EngineAssumption DEF IInv, TypeOK, Free
<1>2. PICK c \in OwnerEvicted(q, s) :
        /\ cache' = Placed(c, q, r).cache
        /\ slots' = [slots EXCEPT ![q] = r]
        /\ req' = [req EXCEPT ![r].off = Placed(c, q, r).off]
  BY DEF Schedule
<1>3. Separate /\ LogCache(cache)
  BY DEF Orderly, LogInv
<1>4. /\ c \in CacheType /\ Own(c)
      /\ \A p \in SeqId \ {q} : c.kv[p] = cache.kv[p]
      /\ Owners(c, q) \subseteq {s}
      /\ LogCache(c) /\ Registered(c) = Registered(cache)
      /\ \A t \in Registered(cache) : Content(c, t) = Content(cache, t)
      /\ \A t \in Session : cache.sess[t] = Null \/ cache.sess[t].vram # q \/ t = s =>
           c.sess[t] = cache.sess[t]
  BY <1>1, <1>2, <1>3, OwnerEvictedOwn, OwnerEvictedFacts, OwnerEvictedSettled DEF IInv
<1>5. s \in Registered(c) => c.sess[s].vram = q \/ c.sess[s].vram = Null
  <2> SUFFICES ASSUME s \in Registered(c), c.sess[s].vram # Null
               PROVE  c.sess[s].vram = q
    OBVIOUS
  <2>1. s \in Registered(cache) /\ c.sess[s] = cache.sess[s] /\ s # Null
    BY <1>4, CacheAssumption DEF Registered
  <2>2. cache.sess[s].vram \in Free
    BY <1>1, <2>1, QueuedAlone
  <2> QED
    BY <2>1, <2>2 DEF Target
<1>6. Started(q, s, c, cache', Placed(c, q, r).off)
  BY <1>1, <1>2, <1>3, <1>4, <1>5, PlacedStarted
<1>7. /\ LogCache(cache')
      /\ Registered(cache') = Registered(cache) \cup ({s} \ {Null})
      /\ \A t \in Registered(cache) : Content(cache', t) = Content(cache, t)
      /\ s # Null => /\ s \in Owners(cache', q)
                     /\ s \notin Registered(cache) => Content(cache', s) = <<>>
      /\ Placed(c, q, r).off = Len(cache'.kv[q])
  BY <1>4, <1>6 DEF Started
<1>8. ASSUME NEW p \in SeqId \ {q}
      PROVE  /\ cache'.kv[p] = cache.kv[p]
             /\ \A t \in Owners(cache, p) \ {s} : t \in Owners(cache', p)
  <2>1. cache'.kv[p] = cache.kv[p]
    BY <1>4, <1>6 DEF Started
  <2>2. ASSUME NEW t \in Owners(cache, p) \ {s}
        PROVE  t \in Owners(cache', p)
    <3>1. t \in Registered(cache) /\ t \in Session /\ cache.sess[t].vram = p
      BY DEF Owners, Registered
    <3>2. cache'.sess[t] = c.sess[t] /\ c.sess[t] = cache.sess[t]
      BY <1>4, <1>6, <3>1 DEF Started
    <3> QED
      BY <1>7, <3>1, <3>2 DEF Owners
  <2> QED
    BY <2>1, <2>2
<1>9. \E off : off = Len(cache'.kv[q]) /\ req' = [req EXCEPT ![r].off = off]
  BY <1>2, <1>7
<1> QED
  BY <1>1, <1>2, <1>7, <1>8, <1>9

\* A turn of schedule_requests keeps the invariant.
LEMMA ScheduleLog ==
  ASSUME Orderly, IInv, PlaceInv, OwnInv, LogInv, Schedule
  PROVE  LogInv'
<1> SUFFICES ASSUME NEW r, r = Head(queue), NEW s, s = SessionOf[r], NEW q, q = Target(s)
             PROVE  LogInv'
  OBVIOUS
<1>1. /\ r \in Req /\ In(r, queue) /\ s \in Session \cup {Null}
      /\ q \in SeqId /\ slots[q] = Null /\ slots' = [slots EXCEPT ![q] = r]
      /\ LogCache(cache')
      /\ \A p \in SeqId \ {q} :
           /\ cache'.kv[p] = cache.kv[p]
           /\ \A t \in Owners(cache, p) \ {s} : t \in Owners(cache', p)
      /\ s # Null => s \in Owners(cache', q)
      /\ \E off : off = Len(cache'.kv[q]) /\ req' = [req EXCEPT ![r].off = off]
  BY ScheduleStarted
<1>2. PICK off : off = Len(cache'.kv[q]) /\ req' = [req EXCEPT ![r].off = off]
  BY <1>1
<1>3. /\ req \in [Req -> RequestType] /\ slots \in [SeqId -> Req \cup {Null}]
      /\ answer' = answer /\ queue' = Tail(queue) /\ queue # <<>> /\ queue \in Seq(Req)
  BY DEF IInv, TypeOK, Schedule
<1>4. \A p \in Req : /\ req'[p].st = req[p].st /\ req'[p].n = req[p].n
                     /\ req'[p].gen = req[p].gen /\ (p # r => req'[p].off = req[p].off)
  <2>1. r \in Req /\ req \in [Req -> RequestType] /\ req' = [req EXCEPT ![r].off = off]
    BY <1>1, <1>2, <1>3
  <2> SUFFICES ASSUME NEW p \in Req
               PROVE  /\ req'[p].st = req[p].st /\ req'[p].n = req[p].n
                      /\ req'[p].gen = req[p].gen /\ (p # r => req'[p].off = req[p].off)
    OBVIOUS
  <2>2. CASE p = r
    <3>1. req'[p] = [req[p] EXCEPT !.off = off] /\ req[p] \in RequestType
      BY <2>1, <2>2
    <3> QED
      BY <2>2, <3>1 DEF RequestType
  <2>3. CASE p # r
    BY <2>1, <2>3
  <2> QED
    BY <2>2, <2>3
<1>5. req'[r].off = off
  <2>1. req'[r] = [req[r] EXCEPT !.off = off] /\ req[r] \in RequestType
    BY <1>1, <1>2, <1>3
  <2> QED
    BY <2>1 DEF RequestType
<1>6. TurnsInv'
  BY <1>3, <1>4 DEF LogInv, TurnsInv
<1>7. FreshInv'
  <2>1. \A e \in Req : In(e, queue') => In(e, queue)
    BY <1>3, TailOnce DEF PlaceInv, QueueInv
  <2> QED
    BY <1>4, <2>1 DEF LogInv, FreshInv
<1>8. \A p \in Active : SessionOf[slots[p]] # Null => SessionOf[slots[p]] # s
  BY <1>1, QueuedAlone
<1>9. ASSUME NEW p \in Active'
      PROVE  Holds(p, slots[p])' /\ Progress(p, slots[p])'
  <2>1. p \in SeqId
    BY <1>9 DEF Active
  <2>2. Owners(cache, p)' = Owners(cache', p)
    BY DEF Owners, Registered
  <2>3. CASE p = q
    <3>1. slots'[p] = r
      BY <1>1, <1>3, <2>3
    <3>2. Holds(p, r)'
      BY <1>1, <2>2, <2>3 DEF Holds
    <3>3. req[r].st = "waiting" /\ req[r].n = 0 /\ req[r].gen = 0
      BY <1>1 DEF LogInv, FreshInv, PlaceInv, QueueInv
    <3>4. cache' \in CacheType
      BY ScheduleIInv DEF IInv, TypeOK
    <3>5. off \in Nat
      BY <1>1, <1>2, <3>4, CacheParts
    <3>6. /\ req'[r].st = "waiting" /\ req'[r].n = 0 /\ req'[r].gen = 0
          /\ req'[r].off = Len(cache'.kv[p]) /\ Len(cache'.kv[p]) \in Nat
      BY <1>1, <1>2, <1>4, <1>5, <2>3, <3>3, <3>5
    <3>7. PromptLen \in Nat
      BY EngineAssumption
    <3>8. Progress(p, r)'
      BY <3>6, <3>7 DEF Progress
    <3> QED
      BY <3>1, <3>2, <3>8 DEF Holds, Progress
  <2>4. CASE p # q
    <3>1. slots'[p] = slots[p] /\ p \in Active /\ slots[p] \in Req
      BY <1>1, <1>3, <1>9, <2>1, <2>4, SlotFacts DEF Active, Free, IInv
    <3>2. slots[p] # r
      BY <1>1, <2>1 DEF PlaceInv, Apart
    <3>3. Holds(p, slots[p]) /\ Progress(p, slots[p]) /\ cache'.kv[p] = cache.kv[p]
      BY <1>1, <2>1, <2>4, <3>1 DEF LogInv, ActiveInv
    <3>4. Progress(p, slots[p])'
      BY <1>4, <3>1, <3>2, <3>3 DEF Progress
    <3>5. Holds(p, slots[p])'
      BY <1>1, <1>8, <2>1, <2>2, <2>4, <3>1, <3>3 DEF Holds
    <3> QED
      BY <3>4, <3>5
  <2> QED
    BY <2>3, <2>4
<1> QED
  BY <1>1, <1>6, <1>7, <1>9 DEF LogInv, ActiveInv, LogCache, Registered, Sound, Headed, Outside

\* What a client sees of the sessions is as it was.
Kept(c, d) ==
  Registered(d) = Registered(c) /\ \A t \in Registered(c) : Content(d, t) = Content(c, t)

\* Slots that stay keep their request, their cells and their owner.
LEMMA SlotsLog ==
  ASSUME IInv, LogInv, LogCache(cache'), TurnsInv', FreshInv',
         \A q \in SeqId : slots'[q] # Null =>
           /\ slots'[q] = slots[q] /\ req'[slots[q]] = req[slots[q]]
           /\ cache'.kv[q] = cache.kv[q] /\ Owners(cache, q) \subseteq Owners(cache', q)
  PROVE  LogInv'
<1>1. ASSUME NEW q \in Active'
      PROVE  Holds(q, slots[q])' /\ Progress(q, slots[q])'
  <2>1. q \in SeqId /\ slots'[q] # Null
    BY <1>1 DEF Active, Free
  <2>2. /\ slots'[q] = slots[q] /\ req'[slots[q]] = req[slots[q]]
        /\ cache'.kv[q] = cache.kv[q] /\ Owners(cache, q) \subseteq Owners(cache', q)
    BY <2>1
  <2>3. Holds(q, slots[q]) /\ Progress(q, slots[q])
    BY <2>1, <2>2 DEF LogInv, ActiveInv, Active, Free
  <2>4. Holds(q, slots[q])'
    BY <2>2, <2>3 DEF Holds, Owners, Registered
  <2>5. Progress(q, slots[q])'
    BY <2>2, <2>3 DEF Progress
  <2> QED
    BY <2>4, <2>5
<1> QED
  BY <1>1 DEF LogInv, ActiveInv, LogCache, Registered, Sound, Headed, Outside

\* A handler, or the engine taking a request in: one request moves on towards its slot,
\* having put nothing in a sequence.
LEMMA RequestLog ==
  ASSUME IInv, PlaceInv, LogInv, NEW r \in Req,
         req[r].st \in {"new", "built", "sent", "preparing"}, req[r].st = "new" => MayAsk(r),
         Serial, UNCHANGED <<cache, slots>>,
         req'[r].n = req[r].n, req'[r].gen = req[r].gen,
         \A p \in Req \ {r} : req'[p] = req[p],
         \A p \in Req : answer[p] # "none" => answer'[p] # "none",
         \A p \in Req : In(p, queue') => In(p, queue) \/ p = r
  PROVE  LogInv' /\ Kept(cache, cache')
<1>1. TurnsInv'
  <2> SUFFICES ASSUME NEW p \in Req, NEW e \in Req, p < e, SessionOf[p] = SessionOf[e],
                      SessionOf[e] # Null, req'[e].st # "new"
               PROVE  answer[p] # "none"
    BY DEF TurnsInv
  <2>1. CASE req[e].st # "new"
    BY <2>1 DEF LogInv, TurnsInv
  <2>2. CASE req[e].st = "new"
    <3>1. e = r /\ MayAsk(r)
      BY <2>2
    <3>2. p \in 1 .. e - 1
      BY DEF Req
    <3> QED
      BY <3>1, <3>2 DEF MayAsk
  <2> QED
    BY <2>1, <2>2
<1>2. FreshInv'
  BY DEF LogInv, FreshInv
<1>3. ASSUME NEW q \in SeqId, slots'[q] # Null
      PROVE  req'[slots[q]] = req[slots[q]]
  <2>1. slots[q] \in Req /\ req[slots[q]].st \in {"waiting", "processing"}
    BY <1>3 DEF PlaceInv, SlotsInv, IInv, TypeOK
  <2> QED
    BY <2>1
<1>4. LogCache(cache')
  BY DEF LogInv
<1>5. LogInv'
  BY <1>1, <1>2, <1>3, <1>4, SlotsLog
<1> QED
  BY <1>5 DEF Kept

LEMMA BuildPromptLog ==
  ASSUME Serial, IInv, PlaceInv, LogInv, NEW r \in Req, BuildPrompt(r)
  PROVE  LogInv' /\ Kept(cache, cache')
<1>1. req \in [Req -> RequestType]
  BY DEF IInv, TypeOK
<1>2. req' = [req EXCEPT ![r].st = "built", ![r].sys = ApplySystemPrompt(SessionOf[r])]
  BY DEF BuildPrompt
<1>3. req'[r].n = req[r].n /\ req'[r].gen = req[r].gen /\ \A p \in Req \ {r} : req'[p] = req[p]
  BY <1>1, <1>2 DEF RequestType
<1>4. /\ UNCHANGED <<cache, slots, answer, queue>> /\ req[r].st = "new" /\ MayAsk(r)
      /\ \A p \in Req : In(p, queue') => In(p, queue)
  BY DEF BuildPrompt, In
<1> QED
  BY <1>3, <1>4, RequestLog

LEMMA SendLog ==
  ASSUME Serial, IInv, PlaceInv, LogInv, NEW r \in Req, Send(r)
  PROVE  LogInv' /\ Kept(cache, cache')
<1>1. req \in [Req -> RequestType]
  BY DEF IInv, TypeOK
<1>2. req' = [req EXCEPT ![r].st = "sent"]
  BY DEF Send
<1>3. req'[r].n = req[r].n /\ req'[r].gen = req[r].gen /\ \A p \in Req \ {r} : req'[p] = req[p]
  BY <1>1, <1>2 DEF RequestType
<1>4. /\ UNCHANGED <<cache, slots, answer, queue>> /\ req[r].st = "built"
      /\ \A p \in Req : In(p, queue') => In(p, queue)
  BY DEF Send, In
<1> QED
  BY <1>3, <1>4, RequestLog

LEMMA ReceiveLog ==
  ASSUME Serial, IInv, PlaceInv, LogInv, Receive
  PROVE  LogInv' /\ Kept(cache, cache')
<1> SUFFICES ASSUME NEW r, r = Head(chan) PROVE LogInv' /\ Kept(cache, cache')
  OBVIOUS
<1>1. /\ req \in [Req -> RequestType] /\ queue \in Seq(Req) /\ r \in Req /\ req[r].st = "sent"
  <2>1. chan \in Seq(Req) /\ chan # <<>>
    BY DEF IInv, TypeOK, Receive
  <2>2. r \in Req /\ In(r, chan)
    BY <2>1, TailOnce DEF PlaceInv, ChanInv
  <2> QED
    BY <2>2 DEF IInv, TypeOK, PlaceInv, ChanInv
<1>2. \E st \in {"preparing", "waiting"} : req' = [req EXCEPT ![r].st = st]
  BY DEF Receive
<1>3. req'[r].n = req[r].n /\ req'[r].gen = req[r].gen /\ \A p \in Req \ {r} : req'[p] = req[p]
  BY <1>1, <1>2 DEF RequestType
<1>4. \A p \in Req : In(p, queue') => In(p, queue) \/ p = r
  <2>1. queue' = queue \/ queue' = Append(queue, r)
    BY DEF Receive
  <2>2. \A p : In(p, Append(queue, r)) <=> In(p, queue) \/ p = r
    BY <1>1, AppendOnce
  <2> QED
    BY <2>1, <2>2
<1>5. UNCHANGED <<cache, slots, answer>>
  BY DEF Receive
<1> QED
  BY <1>1, <1>3, <1>4, <1>5, RequestLog

LEMMA CollectPrepLog ==
  ASSUME Serial, IInv, PlaceInv, LogInv, NEW r \in Req, CollectPrep(r)
  PROVE  LogInv' /\ Kept(cache, cache')
<1>1. /\ req \in [Req -> RequestType] /\ queue \in Seq(Req) /\ req[r].st = "preparing"
      /\ answer \in [Req -> {"none", "finish", "error"}]
  BY DEF IInv, TypeOK, CollectPrep
<1>2. \E st \in {"gone", "waiting"} : req' = [req EXCEPT ![r].st = st]
  BY DEF CollectPrep
<1>3. req'[r].n = req[r].n /\ req'[r].gen = req[r].gen /\ \A p \in Req \ {r} : req'[p] = req[p]
  BY <1>1, <1>2 DEF RequestType
<1>4. \A p \in Req : In(p, queue') => In(p, queue) \/ p = r
  <2>1. queue' = queue \/ queue' = Append(queue, r)
    BY DEF CollectPrep
  <2>2. \A p : In(p, Append(queue, r)) <=> In(p, queue) \/ p = r
    BY <1>1, AppendOnce
  <2> QED
    BY <2>1, <2>2
<1>5. \A p \in Req : answer[p] # "none" => answer'[p] # "none"
  <2>1. answer' = answer \/ answer' = [answer EXCEPT ![r] = "error"]
    BY DEF CollectPrep
  <2> QED
    BY <1>1, <2>1
<1>6. UNCHANGED <<cache, slots>>
  BY DEF CollectPrep
<1> QED
  BY <1>1, <1>3, <1>4, <1>5, <1>6, RequestLog

\* The steps between the phases.
LEMMA UnchangedLog ==
  ASSUME IInv, LogInv, UNCHANGED <<cache, queue, slots, req, answer>>
  PROVE  LogInv' /\ Kept(cache, cache')
<1>1. LogCache(cache') /\ TurnsInv' /\ FreshInv'
  BY DEF LogInv, TurnsInv, FreshInv, In
<1>2. LogInv'
  BY <1>1, SlotsLog
<1> QED
  BY <1>2 DEF Kept

-----------------------------------------------------------------------------
\* The sequence a save or an idle of session s reads is the session's own, and there is
\* one if the session has one.
LEMMA SourceLog ==
  ASSUME IInv, OwnInv, LogInv, NEW s \in Registered(cache)
  PROVE  /\ \A q \in Source(s) : /\ q \in SeqId /\ s \in Owners(cache, q)
                                 /\ slots[q] # Null => q \in ActiveOf(s)
         /\ Source(s) = {} => cache.sess[s].vram = Null
<1>1. s \in Session /\ s # Null
  BY CacheAssumption DEF Registered
<1>2. ASSUME NEW q \in Source(s)
      PROVE  q \in SeqId /\ s \in Owners(cache, q) /\ (slots[q] # Null => q \in ActiveOf(s))
  <2>1. q \in SeqId
    BY <1>1, SourceFacts
  <2>2. s \in Owners(cache, q)
    <3>1. CASE q \in ActiveOf(s)
      <4>1. q \in Active /\ SessionOf[slots[q]] = s
        BY <3>1 DEF ActiveOf
      <4> QED
        BY <1>1, <4>1 DEF LogInv, ActiveInv, Holds
    <3>2. CASE q \notin ActiveOf(s)
      BY <3>2 DEF Source, Owners
    <3> QED
      BY <3>1, <3>2
  <2>3. slots[q] # Null => q \in ActiveOf(s)
    <3> SUFFICES ASSUME slots[q] # Null PROVE q \in ActiveOf(s)
      OBVIOUS
    <3>1. q \in Active
      BY <2>1 DEF Active, Free
    <3>2. SlotOwn(q, slots[q])
      BY <3>1 DEF OwnInv, SlotsOwn
    <3> QED
      BY <2>2, <3>1, <3>2 DEF SlotOwn, ActiveOf
  <2> QED
    BY <2>1, <2>2, <2>3
<1>3. Source(s) = {} => cache.sess[s].vram = Null
  BY DEF Source
<1> QED
  BY <1>2, <1>3

\* A session is moved around.
LEMMA SettledLog ==
  ASSUME IInv, LogInv, NEW s \in Registered(cache), Settled(s, cache, cache'),
         UNCHANGED <<queue, req, answer>>,
         \A q \in SeqId : slots'[q] # Null =>
           /\ slots'[q] = slots[q] /\ cache'.kv[q] = cache.kv[q]
           /\ cache.sess[s].vram = q => cache'.sess[s].vram = q
  PROVE  LogInv' /\ Kept(cache, cache')
<1>1. LogCache(cache') /\ Kept(cache, cache') /\ Registered(cache') = Registered(cache)
  BY DEF Settled, Kept
<1>2. TurnsInv' /\ FreshInv'
  BY DEF LogInv, TurnsInv, FreshInv, In
<1>3. ASSUME NEW q \in SeqId, slots'[q] # Null
      PROVE  Owners(cache, q) \subseteq Owners(cache', q)
  <2>1. \A t \in Registered(cache) \ {s} : cache'.sess[t] = cache.sess[t]
    BY DEF Settled, Registered
  <2> QED
    BY <1>1, <1>3, <2>1 DEF Owners
<1> QED
  BY <1>1, <1>2, <1>3, SlotsLog

\* A pending action moves nothing.
LEMMA PendingLog ==
  ASSUME Separate, IInv, OwnInv, LogInv, NEW s \in Registered(cache),
         NEW a \in StateAction \cup {Null},
         cache' = [cache EXCEPT !.sess[s].pending = a], UNCHANGED workVars
  PROVE  LogInv' /\ Kept(cache, cache')
<1> DEFINE k == cache.sess[s]
           e == [k EXCEPT !.pending = a]
<1>1. cache \in CacheType /\ s \in Session /\ k \in SessionType
  BY CacheParts DEF IInv, TypeOK
<1>2. /\ e \in SessionType /\ e.vram = k.vram /\ e.ram = k.ram /\ e.path = k.path
      /\ e.head = k.head /\ e.ntok = k.ntok
  BY <1>1 DEF SessionType
<1>3. cache' = [cache EXCEPT !.sess[s] = e]
  OBVIOUS
<1>4. cache' \in CacheType
  BY <1>1, <1>2, <1>3, SessUpdate
<1> HIDE DEF e
<1>5. /\ cache'.sess[s] = e /\ \A t \in Session \ {s} : cache'.sess[t] = cache.sess[t]
      /\ cache'.kv = cache.kv /\ cache'.file = cache.file /\ cache'.unified = cache.unified
  BY <1>1, <1>3 DEF CacheType
<1>6. Others(s, cache, cache')
  BY <1>5 DEF Others
<1>7. s \in Registered(cache')
  BY <1>1, <1>2, <1>5, NullAssumption DEF Registered
<1>8. Sound(cache, s) /\ Headed(cache, s)
  BY <1>1 DEF LogInv, LogCache
<1>9. Outside(cache', s) = Outside(cache, s)
  BY <1>2, <1>5 DEF Outside
<1>10. Sound(cache', s) /\ Headed(cache', s)
  BY <1>2, <1>5, <1>8, <1>9 DEF Sound, Headed
<1>11. Content(cache', s) = Content(cache, s)
  <2>1. cache'.sess[s].vram = cache.sess[s].vram
    BY <1>2, <1>5
  <2>2. /\ cache.sess[s].vram # Null => /\ Content(cache, s) = cache.kv[cache.sess[s].vram]
                                       /\ Content(cache', s) = cache'.kv[cache'.sess[s].vram]
        /\ cache.sess[s].vram = Null => /\ Content(cache, s) = Outside(cache, s).data
                                       /\ Content(cache', s) = Outside(cache', s).data
    BY <1>8, <1>10, <2>1, ContentOf, ZenonT(30)
  <2> QED
    BY <1>5, <1>9, <2>1, <2>2
<1>12. Settled(s, cache, cache')
  BY <1>1, <1>4, <1>6, <1>7, <1>10, <1>11, OneSettled DEF OwnInv, LogInv
<1>13. cache'.sess[s].vram = cache.sess[s].vram
  BY <1>2, <1>5
<1> QED
  BY <1>5, <1>12, <1>13, SettledLog DEF workVars

LEMMA ClearActionLog ==
  ASSUME Separate, IInv, OwnInv, LogInv, ClearAction
  PROVE  LogInv' /\ Kept(cache, cache')
<1>1. UNCHANGED workVars
  BY DEF ClearAction
<1>2. CASE acting[1] \in Registered(cache)
  <2>1. cache' = [cache EXCEPT !.sess[acting[1]].pending = Null]
    BY <1>2 DEF ClearAction
  <2> QED
    BY <1>1, <1>2, <2>1, PendingLog
<1>3. CASE acting[1] \notin Registered(cache)
  <2>1. cache' = cache
    BY <1>3 DEF ClearAction
  <2> QED
    BY <1>1, <2>1, UnchangedLog DEF workVars
<1> QED
  BY <1>2, <1>3

\* Action::Save, whichever of its sources is read and whatever fails: nobody moves.
LEMMA SaveLog ==
  ASSUME Separate, IInv, OwnInv, LogInv, NEW s \in Session, NEW a \in StateAction, Save(s, a)
  PROVE  LogInv' /\ Kept(cache, cache')
<1> DEFINE failures(c) == IF "save" \in Faults THEN SaveFailures(c, s, a.path) ELSE {}
           fromRam(c) == IF c.sess[s].ram = Null THEN {c}
                         ELSE {SavedRamToDisk(c, s, a.path)} \cup failures(c)
           Fixed(c) == /\ Settled(s, cache, c) /\ c.kv = cache.kv
                       /\ c.sess[s].vram = cache.sess[s].vram
<1>1. s \in Registered(cache) /\ NextAction(s, a) /\ LogCache(cache) /\ cache \in CacheType
  BY NextActionFacts DEF Save, LogInv, IInv, TypeOK
<1>2. a.path \in TemplatesOf[s]
  <2>1. OwnSave(s, a) /\ a # Null /\ a.kind = "save"
    BY <1>1, NullAssumption DEF OwnInv, AskedOwn, NextAction, Save
  <2> QED
    BY <2>1 DEF OwnSave
<1>3. Fixed(cache)
  BY <1>1 DEF Settled
<1>4. ASSUME cache.sess[s].vram # Null \/ cache.sess[s].ram # Null, NEW d \in failures(cache)
      PROVE  Fixed(d) /\ d.sess[s].ram = cache.sess[s].ram
  <2>1. d \in SaveFailures(cache, s, a.path)
    BY <1>4
  <2> QED
    BY <1>1, <1>2, <1>4, <2>1, SaveFailuresSettled
<1>5. \/ \E q \in Source(s) : cache' = SavedToDisk(cache, q, s, a.path)
      \/ Source(s) = {} /\ cache' \in fromRam(cache)
      \/ /\ Source(s) # {}
         /\ \E c \in {cache} \cup failures(cache) : cache' \in fromRam(c) \/ cache' = c
  BY DEF Save
<1> HIDE DEF failures
<1>6. ASSUME \E q \in Source(s) : cache' = SavedToDisk(cache, q, s, a.path)
      PROVE  Fixed(cache')
  <2>1. PICK q \in Source(s) : cache' = SavedToDisk(cache, q, s, a.path)
    BY <1>6
  <2>2. q \in SeqId /\ s \in Owners(cache, q)
    BY <1>1, SourceLog
  <2>3. /\ Settled(s, cache, SavedToDisk(cache, q, s, a.path))
        /\ SavedToDisk(cache, q, s, a.path).kv = cache.kv
        /\ SavedToDisk(cache, q, s, a.path).sess[s].vram = q
    BY <1>1, <1>2, <2>2, SavedToDiskSettled
  <2>4. cache.sess[s].vram = q
    BY <2>2 DEF Owners
  <2>5. Fixed(cache')
    BY <2>1, <2>3, <2>4
  <2> QED
    BY <2>5
<1>7. ASSUME Source(s) = {}, cache' \in fromRam(cache)
      PROVE  Fixed(cache')
  <2>1. CASE cache.sess[s].ram = Null
    BY <1>3, <1>7, <2>1
  <2>2. CASE cache.sess[s].ram # Null
    <3>1. Fixed(SavedRamToDisk(cache, s, a.path))
      BY <1>1, <1>2, <2>2, SavedRamToDiskSettled
    <3> QED
      BY <1>4, <1>7, <2>2, <3>1
  <2> QED
    BY <2>1, <2>2
<1>8. ASSUME Source(s) # {},
             \E c \in {cache} \cup failures(cache) : cache' \in fromRam(c) \/ cache' = c
      PROVE  Fixed(cache')
  <2>1. PICK c \in {cache} \cup failures(cache) : cache' \in fromRam(c) \/ cache' = c
    BY <1>8
  <2>2. cache.sess[s].vram # Null /\ cache.sess[s].ram = Null
    <3>1. cache.sess[s].vram \in SeqId
      BY <1>1, <1>8, SourceLog DEF Owners
    <3> QED
      BY <1>1, <3>1, CacheAssumption DEF LogCache, Sound, SeqId
  <2>3. Fixed(c) /\ c.sess[s].ram = Null
    BY <1>3, <1>4, <2>1, <2>2
  <2> QED
    BY <2>1, <2>3
<1>9. Fixed(cache')
  BY <1>5, <1>6, <1>7, <1>8
<1>10. UNCHANGED workVars
  BY DEF Save
<1> QED
  BY <1>1, <1>9, <1>10, SettledLog DEF workVars

\* Action::Idle: the session leaves its sequence, and its slot goes.
LEMMA IdleLog ==
  ASSUME Separate, "evict" \notin Faults, IInv, OwnInv, LogInv,
         NEW s \in Session, NEW a \in StateAction, Idle(s, a)
  PROVE  LogInv' /\ Kept(cache, cache')
<1>1. /\ s \in Registered(cache) /\ UNCHANGED <<queue, req, answer>>
      /\ slots \in [SeqId -> Req \cup {Null}]
  BY NextActionFacts DEF Idle, IInv, TypeOK
<1>2. CASE UNCHANGED <<cache, slots>>
  BY <1>1, <1>2, UnchangedLog
<1>3. ASSUME NEW q \in Source(s), cache' = Evicted(cache, q, s),
             slots' = IF q \in ActiveOf(s) THEN [slots EXCEPT ![q] = Null] ELSE slots
      PROVE  LogInv' /\ Kept(cache, cache')
  <2>1. q \in SeqId /\ s \in Owners(cache, q) /\ (slots[q] # Null => q \in ActiveOf(s))
    BY <1>1, SourceLog
  <2>2. /\ Settled(s, cache, cache')
        /\ \A p \in SeqId \ {q} : cache'.kv[p] = cache.kv[p]
    BY <1>3, <2>1, EvictedSettled DEF LogInv
  <2>3. slots'[q] = Null /\ \A p \in SeqId \ {q} : slots'[p] = slots[p]
    BY <1>1, <1>3, <2>1
  <2>4. cache.sess[s].vram = q
    BY <2>1 DEF Owners
  <2> QED
    BY <1>1, <2>2, <2>3, <2>4, SettledLog
<1> QED
  BY <1>2, <1>3 DEF Idle

\* Action::Delete: the session goes, with its sequence, its slot and its file.
LEMMA DeleteLog ==
  ASSUME Separate, IInv, OwnInv, LogInv, NEW s \in Session, NEW a \in StateAction, Delete(s, a)
  PROVE  /\ LogInv' /\ Registered(cache') = Registered(cache) \ {s}
         /\ \A t \in Registered(cache') : Content(cache', t) = Content(cache, t)
<1> DEFINE Gone(c) == [c EXCEPT !.sess[s] = Null, !.file[c.sess[s].path] = Null]
           path == cache.sess[s].path
<1>1. /\ cache \in CacheType /\ s \in Registered(cache) /\ Own(cache) /\ LogCache(cache)
      /\ slots \in [SeqId -> Req \cup {Null}] /\ UNCHANGED <<queue, req, answer>>
  BY NextActionFacts DEF IInv, TypeOK, OwnInv, LogInv, Delete
<1>2. path \in Path /\ path \in Paths(s)
  BY <1>1, CacheParts DEF SessionType, Own, OwnEntry
<1>3. ASSUME NEW c \in CacheType, c.sess = cache.sess, c.file = cache.file,
             c.unified = cache.unified
      PROVE  /\ Gone(c).kv = c.kv /\ Gone(c).unified = cache.unified
             /\ Gone(c).sess[s] = Null
             /\ \A t \in Session \ {s} : Gone(c).sess[t] = cache.sess[t]
             /\ Gone(c).file[path] = Null
             /\ \A p \in Path \ {path} : Gone(c).file[p] = cache.file[p]
  BY <1>1, <1>2, <1>3 DEF CacheType
<1>4. \/ Source(s) = {} /\ cache' = Gone(cache) /\ slots' = slots
      \/ \E q \in Source(s) :
           /\ cache' = Gone(ClearSequence(cache, q))
           /\ slots' = IF q \in ActiveOf(s) THEN [slots EXCEPT ![q] = Null] ELSE slots
  BY DEF Delete
<1> HIDE DEF Gone, path
<1>5. /\ cache'.unified = cache.unified /\ cache'.sess[s] = Null
      /\ \A t \in Session \ {s} : cache'.sess[t] = cache.sess[t]
      /\ cache'.file[path] = Null /\ \A p \in Path \ {path} : cache'.file[p] = cache.file[p]
      /\ \A q \in SeqId : \/ /\ cache'.kv[q] = cache.kv[q] /\ slots'[q] = slots[q]
                             /\ cache.sess[s].vram # q
                          \/ slots'[q] = Null /\ cache.sess[s].vram = q
  <2>1. CASE Source(s) = {} /\ cache' = Gone(cache) /\ slots' = slots
    <3>1. cache.sess[s].vram = Null /\ \A q \in SeqId : q # Null
      BY <1>1, <2>1, SourceLog, CacheAssumption DEF SeqId
    <3> QED
      BY <1>1, <1>3, <2>1, <3>1
  <2>2. ASSUME NEW q \in Source(s), cache' = Gone(ClearSequence(cache, q)),
               slots' = IF q \in ActiveOf(s) THEN [slots EXCEPT ![q] = Null] ELSE slots
        PROVE  /\ cache'.unified = cache.unified /\ cache'.sess[s] = Null
               /\ \A t \in Session \ {s} : cache'.sess[t] = cache.sess[t]
               /\ cache'.file[path] = Null /\ \A p \in Path \ {path} : cache'.file[p] = cache.file[p]
               /\ \A o \in SeqId : \/ /\ cache'.kv[o] = cache.kv[o] /\ slots'[o] = slots[o]
                                      /\ cache.sess[s].vram # o
                                   \/ slots'[o] = Null /\ cache.sess[s].vram = o
    <3>1. q \in SeqId /\ s \in Owners(cache, q) /\ (slots[q] # Null => q \in ActiveOf(s))
      BY <1>1, SourceLog
    <3>2. slots'[q] = Null /\ \A p \in SeqId \ {q} : slots'[p] = slots[p]
      BY <1>1, <2>2, <3>1
    <3>3. ClearSequence(cache, q) \in CacheType /\ ClearSequence(cache, q).sess = cache.sess
      BY <1>1, <3>1, ClearSequenceFacts
    <3>4. /\ ClearSequence(cache, q).file = cache.file
          /\ ClearSequence(cache, q).unified = cache.unified
          /\ \A p \in SeqId \ {q} : ClearSequence(cache, q).kv[p] = cache.kv[p]
      BY <1>1, <3>1 DEF ClearSequence, CacheType
    <3>5. cache.sess[s].vram = q
      BY <3>1 DEF Owners
    <3> QED
      BY <1>3, <2>2, <3>2, <3>3, <3>4, <3>5
  <2> QED
    BY <1>4, <2>1, <2>2
<1>6. Registered(cache') = Registered(cache) \ {s}
  BY <1>5 DEF Registered
<1>7. Others(s, cache, cache')
  <2>1. \A t \in Registered(cache) \ {s} :
          cache.sess[t].vram # Null => cache'.kv[cache.sess[t].vram] = cache.kv[cache.sess[t].vram]
    <3> SUFFICES ASSUME NEW t \in Registered(cache) \ {s}, cache.sess[t].vram # Null
                 PROVE  cache'.kv[cache.sess[t].vram] = cache.kv[cache.sess[t].vram]
      OBVIOUS
    <3>1. cache.sess[t].vram \in SeqId
      BY <1>1, CacheParts DEF SessionType
    <3>2. cache.sess[s].vram # cache.sess[t].vram
      BY <1>1, <3>1 DEF IInv, VramExclusive, ExclusiveIn, Owners
    <3> QED
      BY <1>5, <3>1, <3>2
  <2>2. \A p \in Path \ Paths(s) : cache'.file[p] = cache.file[p]
    BY <1>2, <1>5
  <2> QED
    BY <1>5, <2>1, <2>2 DEF Others
<1>8. /\ \A t \in Registered(cache) \ {s} : Sound(cache', t) /\ Content(cache', t) = Content(cache, t)
      /\ \A t \in Session \ {s} : Headed(cache', t)
  BY <1>1, <1>7, OthersSound
<1>9. Headed(cache', s)
  <2>1. s \in Path
    BY DEF Path
  <2> QED
    BY <1>1, <1>5, <2>1 DEF LogCache, Headed
<1>10. LogCache(cache')
  BY <1>6, <1>8, <1>9 DEF LogCache
<1>11. TurnsInv' /\ FreshInv'
  BY <1>1 DEF LogInv, TurnsInv, FreshInv, In
<1>12. ASSUME NEW q \in SeqId, slots'[q] # Null
       PROVE  /\ slots'[q] = slots[q] /\ cache'.kv[q] = cache.kv[q]
              /\ Owners(cache, q) \subseteq Owners(cache', q)
  <2>1. slots'[q] = slots[q] /\ cache'.kv[q] = cache.kv[q] /\ cache.sess[s].vram # q
    BY <1>5, <1>12
  <2>2. \A t \in Registered(cache) \ {s} : t \in Registered(cache') /\ cache'.sess[t] = cache.sess[t]
    BY <1>5, <1>6 DEF Registered
  <2> QED
    BY <2>1, <2>2 DEF Owners
<1>13. LogInv'
  BY <1>1, <1>10, <1>11, <1>12, SlotsLog
<1> QED
  BY <1>6, <1>8, <1>13

-----------------------------------------------------------------------------
\* A pull in which no slot is at an image.
LEMMA TextOnly ==
  ASSUME Images = {}, TypeOK, NEW take \in Prefills, NEW mm \in MmEvals(take)
  PROVE  /\ mm = <<Null, "ok">> /\ Evaluated(mm) = {} /\ Aborted(mm) = {}
         /\ AtText = InState("waiting") /\ \A r \in Req : PromptItems(r) = PromptLen
<1>1. AtImage = {} /\ AtText = InState("waiting")
  BY DEF AtImage, AtText
<1>2. mm = <<Null, "ok">>
  BY <1>1 DEF MmEvals
<1>3. \A r \in Req : PromptItems(r) = PromptLen
  BY EngineAssumption DEF PromptItems
<1> QED
  BY <1>1, <1>2, <1>3 DEF Evaluated, Aborted

\* The cells a batch adds to the sequence of a slot.
LEMMA BatchParts ==
  ASSUME Images = {}, TypeOK, NEW take \in Prefills, NEW q \in Active
  PROVE  LET r == slots[q]
             cells == BatchCells(q, take)
         IN  /\ cells \in Seq(Cell) /\ Len(cells) \in 0 .. NBatch
             /\ req[r].st = "waiting" =>
                  /\ Len(cells) = take[q] /\ take[q] <= PromptLen - req[r].n
                  /\ \A i \in DOMAIN cells : cells[i].pos = req[r].off + req[r].n + i - 1
             /\ req[r].st = "processing" =>
                  /\ Len(cells) = 1
                  /\ \A i \in DOMAIN cells : cells[i].pos = req[r].off + PromptLen + req[r].gen - 1
<1> DEFINE r == slots[q]
           cells == BatchCells(q, take)
<1>1. /\ AtText = InState("waiting") /\ PromptItems(r) = PromptLen
      /\ r \in Req /\ req[r].off \in Nat /\ req[r].n \in Nat /\ req[r].gen \in Nat
  <2>1. AtText = InState("waiting")
    BY DEF AtText, AtImage
  <2>2. r \in Req /\ req[r] \in RequestType
    BY SlotFacts
  <2> QED
    BY <2>1, <2>2, EngineAssumption DEF RequestType, PromptItems
<1>2. cells \in Seq(Cell)
  BY BatchCellsType
<1>3. NBatch \in Nat /\ NBatch >= 1
  BY EngineAssumption, CacheAssumption
<1>4. CASE req[r].st = "waiting"
  <2>1. q \in AtText
    BY <1>1, <1>4 DEF InState
  <2>2. Room \in Int /\ Room <= NBatch
    <3>1. Cardinality(InState("processing")) \in Nat
      BY SlotFacts, FiniteSequences DEF RequestState
    <3> QED
      BY <1>3, <3>1 DEF Room
  <2>3. take[q] \in Nat /\ take[q] <= Room /\ take[q] <= Left(q)
    <3>1. take[q] \in 0 .. Room /\ take[q] <= Left(q)
      BY <2>1 DEF Prefills
    <3>2. take[q] \in Nat
      BY <2>1, TakeFacts
    <3> QED
      BY <2>2, <3>1, <3>2
  <2>4. cells = [i \in 1 .. take[q] |-> [pos |-> req[r].off + req[r].n + i - 1, of |-> r]]
    BY <2>1 DEF BatchCells
  <2> DEFINE k == take[q]
             off == req[r].off + req[r].n
  <2> HIDE DEF cells, r, k, off
  <2>5. cells = [i \in 1 .. k |-> [pos |-> off + i - 1, of |-> r]] /\ k \in Nat
    BY <2>3, <2>4 DEF k, off
  <2>6. DOMAIN cells = 1 .. k /\ \A i \in 1 .. k : cells[i].pos = off + i - 1
    BY <2>5
  <2>7. Len(cells) = k
    BY <1>2, <2>5, <2>6
  <2>8. k <= PromptLen - req[r].n
    BY <1>1, <2>3 DEF Left, k, r
  <2> QED
    BY <1>2, <1>3, <1>4, <2>2, <2>3, <2>6, <2>7, <2>8 DEF k, off, r, cells
<1>5. CASE req[r].st = "processing"
  <2>1. q \notin AtText /\ q \in InState("processing")
    BY <1>1, <1>5 DEF InState
  <2> DEFINE cell == [pos |-> req[r].off + PromptLen + req[r].gen - 1, of |-> r]
  <2>2. cells = <<cell>> /\ cell.pos = req[r].off + PromptLen + req[r].gen - 1
    BY <1>1, <2>1 DEF BatchCells
  <2> HIDE DEF cells, cell
  <2>3. Len(cells) = 1 /\ \A i \in DOMAIN cells : cells[i] = cell
    BY <2>2
  <2> QED
    BY <1>2, <1>3, <1>5, <2>2, <2>3 DEF cells
<1>6. CASE req[r].st \notin {"waiting", "processing"}
  <2>1. cells = <<>>
    BY <1>1, <1>6 DEF BatchCells, InState
  <2> HIDE DEF cells
  <2>2. Len(cells) = 0
    BY <2>1
  <2> QED
    BY <1>2, <1>3, <1>6, <2>2 DEF cells
<1> QED
  BY <1>4, <1>5, <1>6

\* What a batch adds to the counters of a session with one slot, or with none.
LEMMA CountedIs ==
  ASSUME Images = {}, TypeOK, NEW take \in Prefills, NEW s
  PROVE  /\ ActiveOf(s) = {} => Counted(s, take) = 0
         /\ \A q \in Active : ActiveOf(s) = {q} => Counted(s, take) = Len(BatchCells(q, take))
<1> DEFINE tokens == {b \in BatchTokens(take) : SessionOf[slots[b[1]]] = s}
<1>1. \A b \in tokens : /\ b = <<b[1], b[2]>> /\ b[1] \in ActiveOf(s)
                        /\ b[2] \in 1 .. NBatch /\ b[2] \in DOMAIN BatchCells(b[1], take)
  BY DEF BatchTokens, ActiveOf
<1>2. CASE ActiveOf(s) = {}
  <2>1. tokens = {}
    BY <1>1, <1>2
  <2>2. Counted(s, take) = 0
    BY <2>1, FS_EmptySet DEF Counted
  <2> QED
    BY <1>2, <2>2
<1>3. ASSUME NEW q \in Active, ActiveOf(s) = {q}
      PROVE  Counted(s, take) = Len(BatchCells(q, take))
  <2> DEFINE n == Len(BatchCells(q, take))
  <2>1. n \in 0 .. NBatch /\ DOMAIN BatchCells(q, take) = 1 .. n
    BY BatchParts
  <2>2. NBatch \in Nat
    BY EngineAssumption
  <2> HIDE DEF n
  <2>3. tokens \subseteq {q} \X (1 .. n)
    BY <1>1, <1>3, <2>1
  <2>4. {q} \X (1 .. n) \subseteq tokens
    <3> SUFFICES ASSUME NEW i \in 1 .. n PROVE <<q, i>> \in tokens
      OBVIOUS
    <3>1. i \in 1 .. NBatch
      BY <2>1, <2>2
    <3>2. SessionOf[slots[q]] = s
      BY <1>3 DEF ActiveOf
    <3> QED
      BY <2>1, <3>1, <3>2 DEF BatchTokens
  <2>5. tokens = {q} \X (1 .. n)
    BY <2>3, <2>4
  <2>6. IsFiniteSet({q}) /\ Cardinality({q}) = 1
    BY FS_Singleton
  <2>7. IsFiniteSet(1 .. n) /\ Cardinality(1 .. n) = n
    BY <2>1, <2>2, FS_Interval
  <2>8. Cardinality({q} \X (1 .. n)) = n
    <3>1. Cardinality({q} \X (1 .. n)) = Cardinality({q}) * Cardinality(1 .. n)
      BY <2>6, <2>7, FS_Product
    <3> QED
      BY <2>1, <2>2, <2>6, <2>7, <3>1
  <2> QED
    BY <2>5, <2>8 DEF Counted, n
<1> QED
  BY <1>2, <1>3

\* The batch continues the positions of a sequence.
LEMMA BatchPositions ==
  ASSUME Images = {}, IInv, PlaceInv, LogInv, NEW take \in Prefills, NEW q \in Active
  PROVE  \A i \in DOMAIN BatchCells(q, take) :
           BatchCells(q, take)[i].pos = Len(cache.kv[q]) + i - 1
<1>1. req[slots[q]].st \in {"waiting", "processing"}
  BY DEF PlaceInv, SlotsInv, Active, Free
<1>2. Progress(q, slots[q])
  BY DEF LogInv, ActiveInv
<1> QED
  BY <1>1, <1>2, BatchParts DEF IInv, Progress

LEMMA WholeAdded ==
  ASSUME NEW cells \in Seq(Cell), NEW more \in Seq(Cell), NEW head, Whole(cells, head),
         \A i \in DOMAIN more : more[i].pos = Len(cells) + i - 1
  PROVE  Whole(cells \o more, head + Len(more))
<1>1. Len(cells \o more) = head + Len(more)
  <2>1. Len(cells \o more) = Len(cells) + Len(more)
    OBVIOUS
  <2> QED
    BY <2>1 DEF Whole
<1>2. ASSUME NEW i \in DOMAIN (cells \o more)
      PROVE  (cells \o more)[i].pos = i - 1
  <2>1. CASE i \in DOMAIN cells /\ (cells \o more)[i] = cells[i]
    BY <2>1 DEF Whole
  <2>2. CASE i - Len(cells) \in DOMAIN more /\ (cells \o more)[i] = more[i - Len(cells)]
    <3>1. more[i - Len(cells)].pos = Len(cells) + (i - Len(cells)) - 1
      BY <2>2
    <3>2. Len(cells) \in Int /\ i \in Int
      OBVIOUS
    <3> QED
      BY <2>2, <3>1, <3>2
  <2> QED
    BY <1>2, <2>1, <2>2, CellsAdded
<1> QED
  BY <1>1, <1>2 DEF Whole

\* A decoded batch.
LEMMA DecodedParts ==
  ASSUME Images = {}, TypeOK, NEW take \in Prefills, NEW mm \in MmEvals(take),
         NEW d, d = Decoded(take, mm)
  PROVE  /\ Registered(d) = Registered(cache) /\ d.file = cache.file /\ d.unified = cache.unified
         /\ \A q \in Free : d.kv[q] = cache.kv[q]
         /\ \A q \in Active : d.kv[q] = cache.kv[q] \o BatchCells(q, take)
         /\ \A s \in Registered(cache) :
              /\ d.sess[s].vram = cache.sess[s].vram /\ d.sess[s].ram = cache.sess[s].ram
              /\ d.sess[s].path = cache.sess[s].path
              /\ d.sess[s].head = cache.sess[s].head + Counted(s, take)
              /\ d.sess[s].ntok = cache.sess[s].ntok + Counted(s, take)
<1> DEFINE kv == [q \in SeqId |->
                    IF q \in Free THEN cache.kv[q]
                    ELSE IF q = mm[1] THEN Append(cache.kv[q], ImageCell(q))
                    ELSE cache.kv[q] \o BatchCells(q, take)]
           entry(s) == [cache.sess[s] EXCEPT
                          !.head = @ + Counted(s, take)
                                     + Cardinality(ActiveOf(s) \cap Evaluated(mm)),
                          !.ntok = @ + Counted(s, take)]
           sess == [s \in Session |-> IF s \in Registered(cache) THEN entry(s) ELSE Null]
<1>1. cache \in CacheType /\ mm = <<Null, "ok">> /\ Evaluated(mm) = {}
  BY TextOnly DEF TypeOK
<1>2. d = [cache EXCEPT !.kv = kv, !.sess = sess]
  BY DEF Decoded
<1>3. Registered(d) = Registered(cache)
  BY DecodedFacts DEF Moves
<1>4. /\ \A q \in Free : kv[q] = cache.kv[q]
      /\ \A q \in Active : kv[q] = cache.kv[q] \o BatchCells(q, take)
  <2>1. \A q \in Active : q \in SeqId /\ q \notin Free /\ q # mm[1]
    BY <1>1, CacheAssumption DEF Active, SeqId
  <2>2. \A q \in Free : q \in SeqId
    BY DEF Free
  <2> QED
    BY <2>1, <2>2
<1>5. ASSUME NEW s \in Registered(cache)
      PROVE  /\ sess[s].vram = cache.sess[s].vram /\ sess[s].ram = cache.sess[s].ram
             /\ sess[s].path = cache.sess[s].path
             /\ sess[s].head = cache.sess[s].head + Counted(s, take)
             /\ sess[s].ntok = cache.sess[s].ntok + Counted(s, take)
  <2> DEFINE e == cache.sess[s]
             h == e.head + Counted(s, take) + Cardinality(ActiveOf(s) \cap Evaluated(mm))
             k == e.ntok + Counted(s, take)
  <2>1. s \in Session /\ e \in SessionType /\ Counted(s, take) \in Nat
    BY <1>1, CacheParts, CountedFacts
  <2>2. Cardinality(ActiveOf(s) \cap Evaluated(mm)) = 0
    BY <1>1, FS_EmptySet
  <2>3. h = e.head + Counted(s, take)
    BY <2>1, <2>2 DEF SessionType
  <2>4. sess[s] = [e EXCEPT !.head = h, !.ntok = k]
    BY <2>1
  <2> HIDE DEF e, sess, h, k
  <2>5. /\ sess[s].vram = e.vram /\ sess[s].ram = e.ram /\ sess[s].path = e.path
        /\ sess[s].head = h /\ sess[s].ntok = k
    BY <2>1, <2>4 DEF SessionType
  <2> QED
    BY <2>3, <2>5 DEF e, k
<1> HIDE DEF kv, sess
<1>6. d.kv = kv /\ d.sess = sess /\ d.file = cache.file /\ d.unified = cache.unified
  BY <1>1, <1>2 DEF CacheType
<1> QED
  BY <1>3, <1>4, <1>5, <1>6

\* From c to d sessions only get tokens of their own requests, at the positions that
\* follow.
Grown(c, d) ==
  /\ Registered(d) = Registered(c)
  /\ \A s \in Registered(c) : \E more \in Seq(Cell) :
       /\ Content(d, s) = Content(c, s) \o more
       /\ \A i \in DOMAIN more : /\ more[i].pos = Len(Content(c, s)) + i - 1
                                 /\ SessionOf[more[i].of] = s

\* The active slots of a session: its sequence's, if that is active.
LEMMA ActiveOfSession ==
  ASSUME IInv, OwnInv, LogInv, NEW s \in Registered(cache)
  PROVE  /\ cache.sess[s].vram \in Active =>
              ActiveOf(s) = {cache.sess[s].vram} /\ SessionOf[slots[cache.sess[s].vram]] = s
         /\ cache.sess[s].vram \notin Active => ActiveOf(s) = {}
<1>1. s # Null
  BY CacheAssumption DEF Registered
<1>2. \A q \in ActiveOf(s) : q = cache.sess[s].vram /\ q \in Active
  BY <1>1 DEF ActiveOf, LogInv, ActiveInv, Holds, Owners
<1>3. ASSUME cache.sess[s].vram \in Active
      PROVE  SessionOf[slots[cache.sess[s].vram]] = s
  <2>1. SlotOwn(cache.sess[s].vram, slots[cache.sess[s].vram])
    BY <1>3 DEF OwnInv, SlotsOwn
  <2>2. s \in Owners(cache, cache.sess[s].vram)
    BY DEF Owners
  <2> QED
    BY <2>1, <2>2 DEF SlotOwn
<1> QED
  BY <1>2, <1>3 DEF ActiveOf

LEMMA DecodedLog ==
  ASSUME Images = {}, IInv, PlaceInv, OwnInv, LogInv,
         NEW take \in Prefills, NEW mm \in MmEvals(take), NEW d, d = Decoded(take, mm)
  PROVE  LogCache(d) /\ Grown(cache, d)
<1>1. /\ TypeOK /\ cache \in CacheType /\ LogCache(cache)
      /\ Registered(d) = Registered(cache) /\ d.file = cache.file /\ d.unified = cache.unified
      /\ \A q \in Free : d.kv[q] = cache.kv[q]
      /\ \A q \in Active : d.kv[q] = cache.kv[q] \o BatchCells(q, take)
      /\ \A s \in Registered(cache) :
           /\ d.sess[s].vram = cache.sess[s].vram /\ d.sess[s].ram = cache.sess[s].ram
           /\ d.sess[s].path = cache.sess[s].path
           /\ d.sess[s].head = cache.sess[s].head + Counted(s, take)
           /\ d.sess[s].ntok = cache.sess[s].ntok + Counted(s, take)
  BY SMTT(30), DecodedParts DEF IInv, TypeOK, LogInv
<1>2. ASSUME NEW s \in Registered(cache)
      PROVE  /\ Sound(d, s)
             /\ \E more \in Seq(Cell) :
                  /\ Content(d, s) = Content(cache, s) \o more
                  /\ \A i \in DOMAIN more : /\ more[i].pos = Len(Content(cache, s)) + i - 1
                                            /\ SessionOf[more[i].of] = s
  <2> DEFINE e == cache.sess[s]
             q == e.vram
  <2>1. e \in SessionType /\ e.head \in Nat /\ e.ntok \in Nat /\ Sound(cache, s)
    BY <1>1, CacheParts DEF SessionType, LogCache
  <2>2. Outside(d, s) = Outside(cache, s)
    BY <1>1 DEF Outside
  <2>3. CASE q \in Active
    <3> DEFINE more == BatchCells(q, take)
    <3>1. ActiveOf(s) = {q} /\ SessionOf[slots[q]] = s
      BY <2>3, ActiveOfSession
    <3>2. /\ more \in Seq(Cell) /\ Len(more) \in Nat /\ Counted(s, take) = Len(more)
          /\ \A i \in DOMAIN more : /\ more[i].pos = Len(cache.kv[q]) + i - 1
                                    /\ SessionOf[more[i].of] = s
      BY <1>1, <2>3, <3>1, BatchParts, CountedIs, BatchPositions, BatchCellsOf
    <3> HIDE DEF more
    <3>3. q # Null /\ q \in SeqId /\ cache.kv[q] \in Seq(Cell)
      BY <1>1, <2>3, CacheParts, CacheAssumption DEF Active, SeqId
    <3>4. Whole(cache.kv[q], e.head) /\ e.ram = Null
      BY <2>1, <3>3 DEF Sound
    <3>5. Whole(cache.kv[q] \o more, e.head + Len(more))
      BY <3>2, <3>3, <3>4, WholeAdded
    <3>6. d.kv[q] = cache.kv[q] \o more
      BY <1>1, <2>3 DEF more
    <3>7. Sound(d, s)
      <4>1. /\ d.sess[s].head = e.head + Len(more) /\ d.sess[s].ntok = e.ntok + Len(more)
            /\ d.sess[s].vram = q /\ d.sess[s].ram = Null
        BY <1>1, <3>2, <3>4
      <4>2. d.sess[s].head <= d.sess[s].ntok
        BY <2>1, <3>2, <4>1 DEF Sound
      <4>3. Whole(d.kv[q], d.sess[s].head)
        BY <3>5, <3>6, <4>1
      <4> HIDE DEF e, q
      <4> QED
        BY <3>3, <4>1, <4>2, <4>3 DEF Sound
    <3>8. Content(cache, s) = cache.kv[q] /\ Content(d, s) = d.kv[q]
      BY <1>1, <2>1, <3>3, <3>7, ContentOf
    <3> QED
      BY <3>2, <3>6, <3>7, <3>8
  <2>4. CASE q \notin Active
    <3>1. ActiveOf(s) = {} /\ Counted(s, take) = 0
      BY <1>1, <2>4, ActiveOfSession, CountedIs
    <3>2. d.sess[s].head = e.head /\ d.sess[s].ntok = e.ntok
      BY <1>1, <2>1, <3>1
    <3>3. q # Null => d.kv[q] = cache.kv[q]
      BY <1>1, <2>1, <2>4 DEF SessionType, Active
    <3>4. Sound(d, s)
      BY <1>1, <2>1, <2>2, <3>2, <3>3 DEF Sound
    <3>5. Content(d, s) = Content(cache, s)
      <4>1. /\ q # Null => Content(d, s) = d.kv[q] /\ Content(cache, s) = cache.kv[q]
            /\ q = Null => /\ Content(d, s) = Outside(d, s).data
                           /\ Content(cache, s) = Outside(cache, s).data
        BY <1>1, <2>1, <3>4, ContentOf
      <4> QED
        BY <2>2, <3>3, <4>1
    <3>6. Content(cache, s) \in Seq(Cell)
      <4>1. q # Null => q \in SeqId /\ cache.kv[q] \in Seq(Cell)
        BY <1>1, <2>1, CacheParts DEF SessionType
      <4>2. q = Null => Outside(cache, s).data \in Seq(Cell)
        <5> SUFFICES ASSUME q = Null PROVE Outside(cache, s).data \in Seq(Cell)
          OBVIOUS
        <5>1. Outside(cache, s) # Null
          BY <2>1 DEF Sound
        <5>2. e.ram \in SnapshotType \cup {Null} /\ cache.file[e.path] \in SnapshotType \cup {Null}
          BY <1>1, <2>1 DEF SessionType, CacheType
        <5> QED
          BY <5>1, <5>2 DEF Outside, SnapshotType
      <4> QED
        BY <2>1, <4>1, <4>2, ContentOf
    <3>7. Content(cache, s) \o <<>> = Content(cache, s)
      BY <3>6
    <3>8. \A i \in DOMAIN <<>> : FALSE
      OBVIOUS
    <3> QED
      BY <3>4, <3>5, <3>7, <3>8, NoCells, Zenon
  <2> QED
    BY <2>3, <2>4
<1>3. \A s \in Session : Headed(d, s)
  BY <1>1 DEF LogCache, Headed
<1> QED
  BY <1>1, <1>2, <1>3 DEF LogCache, Grown

\* The counters of a request follow its cells through a batch.
LEMMA ProgressedLog ==
  ASSUME Images = {}, IInv, PlaceInv, LogInv, NEW take \in Prefills, NEW mm \in MmEvals(take),
         NEW stops \in Stops(take), NEW q \in Active, q \notin stops,
         NEW f, f = Progressed(q, take, mm, stops),
         NEW cells, cells = cache.kv[q] \o BatchCells(q, take)
  PROVE  /\ f.st = "waiting" =>
              Len(cells) = f.off + f.n /\ f.gen = 0 /\ f.n <= PromptLen
         /\ f.st = "processing" => Len(cells) = f.off + PromptLen + f.gen - 1
<1> DEFINE r == slots[q]
           e == req[r]
           k == take[q]
<1>1. /\ TypeOK /\ r \in Req /\ e \in RequestType /\ q \in SeqId /\ cache.kv[q] \in Seq(Cell)
      /\ mm = <<Null, "ok">> /\ Evaluated(mm) = {} /\ Aborted(mm) = {}
      /\ AtText = InState("waiting") /\ PromptItems(r) = PromptLen
      /\ e.st \in {"waiting", "processing"}
  BY SlotFacts, TextOnly, CacheParts
  DEF IInv, TypeOK, Active, Free, PlaceInv, SlotsInv
<1>2. Progress(q, r)
  BY DEF LogInv, ActiveInv
<1>3. e.off \in Nat /\ e.n \in Nat /\ e.gen \in Nat /\ PromptLen \in Nat
  BY <1>1, EngineAssumption DEF RequestType
<1>4. Len(cells) = Len(cache.kv[q]) + Len(BatchCells(q, take))
  BY <1>1, BatchParts
<1>5. CASE e.st = "processing"
  <2>1. q \in Sampled(take)
    BY <1>5 DEF Sampled, InState
  <2>2. f = [e EXCEPT !.st = "processing", !.n = PromptLen, !.gen = e.gen + 1]
    BY <1>1, <2>1 DEF Progressed
  <2>3. Len(BatchCells(q, take)) = 1
    BY <1>1, <1>5, BatchParts
  <2>4. Len(cache.kv[q]) = e.off + PromptLen + e.gen - 1
    BY <1>2, <1>5 DEF Progress
  <2> HIDE DEF e
  <2>5. f.st = "processing" /\ f.off = e.off /\ f.gen = e.gen + 1
    BY <1>1, <2>2 DEF RequestType
  <2> QED
    BY SMTT(30), <1>3, <1>4, <2>3, <2>4, <2>5
<1>6. CASE e.st = "waiting"
  <2>1. q \in AtText
    BY <1>1, <1>6 DEF InState
  <2>2. Len(cache.kv[q]) = e.off + e.n /\ e.gen = 0 /\ e.n <= PromptLen
    BY <1>2, <1>6 DEF Progress
  <2>3. Len(BatchCells(q, take)) = k /\ k <= PromptLen - e.n /\ k \in Nat
    BY <1>1, <1>6, <2>1, BatchParts, TakeFacts
  <2>4. CASE k = Left(q)
    <3>1. q \in Sampled(take)
      BY <2>1, <2>4 DEF Sampled
    <3>2. f = [e EXCEPT !.st = "processing", !.n = PromptLen, !.gen = e.gen + 1]
      BY <1>1, <3>1 DEF Progressed
    <3>3. k = PromptLen - e.n
      BY <1>1, <2>4 DEF Left
    <3> HIDE DEF e, k
    <3>4. f.st = "processing" /\ f.off = e.off /\ f.gen = e.gen + 1
      BY <1>1, <3>2 DEF RequestType
    <3> QED
      BY <1>3, <1>4, <2>2, <2>3, <3>3, <3>4
  <2>5. CASE k # Left(q)
    <3>1. q \notin Sampled(take)
      BY <1>1, <1>6, <2>5 DEF Sampled, InState
    <3>2. f = [e EXCEPT !.n = e.n + k]
      BY <1>1, <2>1, <3>1 DEF Progressed
    <3> HIDE DEF e, k
    <3>3. f.st = "waiting" /\ f.off = e.off /\ f.n = e.n + k /\ f.gen = e.gen
      BY <1>1, <1>6, <3>2 DEF RequestType
    <3> QED
      BY <1>3, <1>4, <2>2, <2>3, <3>3
  <2> QED
    BY <2>4, <2>5
<1> QED
  BY <1>1, <1>5, <1>6

\* The batch of a pull.
LEMMA StepLog ==
  ASSUME Images = {}, IInv, PlaceInv, OwnInv, LogInv, Step
  PROVE  LogInv' /\ Grown(cache, cache')
<1>1. PICK take \in Prefills : \E stops \in Stops(take) : \E mm \in MmEvals(take) :
        AfterBatch(take, stops, mm)
  BY DEF Step
<1>2. PICK stops \in Stops(take) : \E mm \in MmEvals(take) : AfterBatch(take, stops, mm)
  BY <1>1
<1>3. PICK mm \in MmEvals(take) : AfterBatch(take, stops, mm)
  BY <1>2
<1>4. /\ TypeOK /\ mm = <<Null, "ok">> /\ Evaluated(mm) = {} /\ Aborted(mm) = {}
      /\ \A p \in Active : p \in SeqId /\ slots[p] \in Req /\ slots[p] # Null
  BY TextOnly, SlotFacts DEF IInv, Active, Free
<1>5. /\ cache' = Decoded(take, mm) /\ queue' = queue
      /\ \A p \in SeqId : slots'[p] = IF p \in stops THEN Null ELSE slots[p]
  BY <1>3, <1>4 DEF AfterBatch, Step
<1>6. LogCache(cache') /\ Grown(cache, cache')
  BY <1>5, DecodedLog
<1>7. \A p \in Active : req'[slots[p]] = Progressed(p, take, mm, stops)
  <2> SUFFICES ASSUME NEW p \in Active PROVE req'[slots[p]] = Progressed(p, take, mm, stops)
    OBVIOUS
  <2>1. SlotOf(slots[p]) \in Active /\ slots[SlotOf(slots[p])] = slots[p]
    BY DEF SlotOf
  <2>2. SlotOf(slots[p]) = p
    BY <1>4, <2>1 DEF PlaceInv, SlotsInv
  <2> QED
    BY <1>3, <1>4, <2>2 DEF AfterBatch
<1>8. \A r \in Req : (\A p \in Active : slots[p] # r) => req'[r] = req[r]
  BY <1>3 DEF AfterBatch
<1>9. ASSUME NEW p \in Active
      PROVE  /\ req[slots[p]].st \in {"waiting", "processing"} /\ ~In(slots[p], queue)
             /\ req'[slots[p]].st \in {"waiting", "processing", "gone"}
  <2> DEFINE e == req[slots[p]]
  <2>1. e \in RequestType /\ e.st \in {"waiting", "processing"} /\ ~In(slots[p], queue)
    BY <1>4, SlotFacts DEF PlaceInv, SlotsInv, Apart
  <2>2. \/ req'[slots[p]] = [e EXCEPT !.st = "gone"]
        \/ req'[slots[p]] = [e EXCEPT !.st = "processing", !.n = PromptItems(slots[p]), !.gen = @ + 1]
        \/ req'[slots[p]] = [e EXCEPT !.n = @ + take[p]]
        \/ req'[slots[p]] = [e EXCEPT !.n = 1]
        \/ req'[slots[p]] = e
    BY <1>7 DEF Progressed
  <2> HIDE DEF e
  <2>3. req'[slots[p]].st \in {"waiting", "processing", "gone"}
    BY <2>1, <2>2 DEF RequestType
  <2> QED
    BY <2>1, <2>3 DEF e
<1>10. TurnsInv'
  <2>1. \A r \in Req : answer[r] # "none" => answer'[r] # "none"
    BY <1>3 DEF AfterBatch
  <2>2. \A r \in Req : req'[r].st # "new" => req[r].st # "new"
    BY <1>8, <1>9
  <2> QED
    BY <2>1, <2>2 DEF LogInv, TurnsInv
<1>11. FreshInv'
  <2> SUFFICES ASSUME NEW r \in Req,
                      req'[r].st \in {"new", "built", "sent", "preparing"} \/ In(r, queue)
               PROVE  req'[r].n = 0 /\ req'[r].gen = 0
    BY <1>5 DEF FreshInv, In
  <2>1. \A p \in Active : slots[p] # r
    BY <1>9
  <2> QED
    BY <1>8, <2>1 DEF LogInv, FreshInv
<1>12. ASSUME NEW q \in Active'
       PROVE  Holds(q, slots[q])' /\ Progress(q, slots[q])'
  <2>1. q \in Active /\ q \notin stops /\ slots'[q] = slots[q] /\ q \in SeqId
    BY <1>5, <1>12 DEF Active, Free
  <2>2. /\ Registered(cache') = Registered(cache)
        /\ cache'.kv[q] = cache.kv[q] \o BatchCells(q, take)
        /\ \A s \in Registered(cache) : cache'.sess[s].vram = cache.sess[s].vram
    BY SMTT(30), <1>4, <1>5, <2>1, DecodedParts
  <2>3. Holds(q, slots[q])'
    <3>1. Holds(q, slots[q])
      BY <2>1 DEF LogInv, ActiveInv
    <3>2. Owners(cache', q) = Owners(cache, q)
      BY <2>2 DEF Owners
    <3> QED
      BY <2>1, <3>1, <3>2 DEF Holds, Owners, Registered
  <2> DEFINE f == req'[slots[q]]
  <2>4. f = Progressed(q, take, mm, stops)
    BY <1>7, <2>1
  <2>5. /\ f.st = "waiting" =>
              Len(cache'.kv[q]) = f.off + f.n /\ f.gen = 0 /\ f.n <= PromptLen
        /\ f.st = "processing" => Len(cache'.kv[q]) = f.off + PromptLen + f.gen - 1
    <3> HIDE DEF f
    <3>1. \A g, cells :
            g = Progressed(q, take, mm, stops) /\ cells = cache.kv[q] \o BatchCells(q, take) =>
              /\ g.st = "waiting" =>
                   Len(cells) = g.off + g.n /\ g.gen = 0 /\ g.n <= PromptLen
              /\ g.st = "processing" => Len(cells) = g.off + PromptLen + g.gen - 1
      BY <2>1, ProgressedLog, ZenonT(30)
    <3> QED
      BY <2>2, <2>4, <3>1
  <2>6. Progress(q, slots[q])'
    BY <2>1, <2>5 DEF Progress
  <2> QED
    BY <2>3, <2>6
<1> QED
  BY <1>6, <1>10, <1>11, <1>12
  DEF LogInv, ActiveInv, LogCache, Registered, Sound, Headed, Outside

-----------------------------------------------------------------------------
LEMMA InitLog == Init => LogInv
<1> SUFFICES ASSUME Init PROVE LogInv
  OBVIOUS
<1>1. PICK unified \in BOOLEAN : cache = EmptyCache(unified)
  BY DEF Init
<1>2. Registered(cache) = {} /\ \A p \in Path : cache.file[p] = Null
  BY <1>1 DEF EmptyCache, Registered
<1>3. LogCache(cache)
  BY <1>2 DEF LogCache, Headed, Path
<1>4. Active = {} /\ \A r \in Req : req[r].st = "new" /\ req[r].n = 0 /\ req[r].gen = 0
  BY DEF Init, NewRequest, Active, Free
<1> QED
  BY <1>3, <1>4 DEF LogInv, TurnsInv, FreshInv, ActiveInv

\* A restart keeps the files and nothing else.
LEMMA RestartLog ==
  ASSUME IInv, LogInv, Restart
  PROVE  LogInv' /\ Registered(cache') = {}
<1>1. cache' = [EmptyCache(cache.unified) EXCEPT !.file = cache.file]
  BY DEF Restart
<1>2. Registered(cache') = {} /\ cache'.file = cache.file
  BY <1>1 DEF IInv, TypeOK, CacheType, EmptyCache, Registered
<1>3. LogCache(cache')
  BY <1>2 DEF LogInv, LogCache, Headed
<1>4. Active' = {} /\ queue' = <<>>
  BY DEF Restart, Active, Free
<1>5. req \in [Req -> RequestType]
  BY DEF IInv, TypeOK
<1>6. ASSUME NEW r \in Req
      PROVE  /\ req'[r].st \in {"new", "gone"} /\ (req'[r].st = "new" => req'[r] = req[r])
             /\ req'[r].st # "new" => req[r].st # "new"
             /\ answer[r] # "none" => answer'[r] # "none"
  <2>1. CASE r \in InFlight
    <3>1. req'[r] = [req[r] EXCEPT !.st = "gone"] /\ answer'[r] = "error"
      BY <2>1 DEF Restart
    <3> QED
      BY <1>5, <2>1, <3>1 DEF RequestType, InFlight
  <2>2. CASE r \notin InFlight
    <3>1. req'[r] = req[r] /\ answer'[r] = answer[r]
      BY <2>2 DEF Restart
    <3> QED
      BY <2>2, <3>1 DEF InFlight
  <2> QED
    BY <2>1, <2>2
<1>7. TurnsInv'
  BY <1>6 DEF LogInv, TurnsInv
<1>8. FreshInv'
  <2>1. \A r \in Req : ~In(r, queue')
    BY <1>4 DEF In
  <2> QED
    BY <1>6, <2>1 DEF LogInv, FreshInv
<1> QED
  BY <1>2, <1>3, <1>4, <1>7, <1>8
  DEF LogInv, ActiveInv, LogCache, Registered, Sound, Headed, Outside

\* From c to d sessions go, and who stays holds what it held.
Shrunk(c, d) ==
  /\ Registered(d) \subseteq Registered(c)
  /\ \A t \in Registered(d) : Content(d, t) = Content(c, t)

\* Session s is new in d, and empty.
Opened(s, c, d) ==
  /\ s \notin Registered(c) /\ Registered(d) = Registered(c) \cup {s}
  /\ Content(d, s) = <<>>
  /\ \A t \in Registered(c) : Content(d, t) = Content(c, t)

\* Every step keeps the invariant, and is one of three to a client.
LEMMA NextLog ==
  ASSUME Orderly, IInv, PlaceInv, OwnInv, LogInv, [Next]_vars
  PROVE  /\ LogInv'
         /\ \/ Shrunk(cache, cache') \/ Grown(cache, cache')
            \/ \E s \in Session : Opened(s, cache, cache')
<1> DEFINE Seen == \/ Shrunk(cache, cache') \/ Grown(cache, cache')
                   \/ \E s \in Session : Opened(s, cache, cache')
<1>1. Separate /\ Serial /\ Images = {} /\ "evict" \notin Faults
  BY DEF Orderly
<1>2. Kept(cache, cache') => Seen
  BY DEF Kept, Shrunk
<1>3. CASE Handlers
  <2>1. ASSUME NEW s \in Session, NEW a \in StateAction, AskForAction(s, a)
        PROVE  LogInv' /\ Kept(cache, cache')
    <3>1. /\ s \in Registered(cache) /\ cache' = [cache EXCEPT !.sess[s].pending = a]
          /\ UNCHANGED workVars
      BY <2>1 DEF AskForAction
    <3> QED
      BY <1>1, <3>1, PendingLog
  <2> QED
    BY <1>1, <1>2, <1>3, <2>1, BuildPromptLog, SendLog DEF Handlers
<1>4. CASE Receive \/ \E r \in Req : CollectPrep(r)
  BY <1>1, <1>2, <1>4, ReceiveLog, CollectPrepLog
<1>5. CASE Drained \/ CopyActions \/ Scheduled \/ StepFails \/ UNCHANGED vars
  <2>1. UNCHANGED <<cache, queue, slots, req, answer>>
    BY <1>5 DEF Drained, CopyActions, Scheduled, StepFails, vars, workVars
  <2> QED
    BY <1>2, <2>1, UnchangedLog
<1>6. CASE Actioned
  <2>1. ASSUME NEW s \in Session, NEW a \in StateAction, Save(s, a) \/ Idle(s, a)
        PROVE  LogInv' /\ Kept(cache, cache')
    BY <1>1, <2>1, SaveLog, IdleLog
  <2>2. ASSUME NEW s \in Session, NEW a \in StateAction, Delete(s, a)
        PROVE  LogInv' /\ Shrunk(cache, cache')
    BY <1>1, <2>2, DeleteLog DEF Shrunk
  <2> QED
    BY <1>2, <1>6, <2>1, <2>2 DEF Actioned
<1>7. CASE ClearAction
  BY <1>1, <1>2, <1>7, ClearActionLog
<1>8. CASE Schedule
  <2>1. LogInv'
    BY <1>8, ScheduleLog
  <2> DEFINE s == SessionOf[Head(queue)]
  <2>2. /\ s \in Session \cup {Null}
        /\ Registered(cache') = Registered(cache) \cup ({s} \ {Null})
        /\ \A t \in Registered(cache) : Content(cache', t) = Content(cache, t)
        /\ s # Null /\ s \notin Registered(cache) => Content(cache', s) = <<>>
    BY <1>8, ScheduleStarted
  <2> HIDE DEF s
  <2>3. CASE s = Null \/ s \in Registered(cache)
    <3>1. Kept(cache, cache')
      BY <2>2, <2>3 DEF Kept
    <3> QED
      BY <1>2, <2>1, <3>1
  <2>4. CASE s # Null /\ s \notin Registered(cache)
    <3>1. Opened(s, cache, cache')
      BY <2>2, <2>4 DEF Opened
    <3> QED
      BY <2>1, <2>2, <2>4, <3>1
  <2> QED
    BY <2>3, <2>4
<1>9. CASE ScheduleFails
  BY <1>1, <1>9 DEF ScheduleFails
<1>10. CASE Step
  BY <1>1, <1>10, StepLog
<1>11. CASE Restart
  BY <1>11, RestartLog DEF Shrunk
<1> HIDE DEF Seen
<1>12. LogInv' /\ Seen
  BY <1>3, <1>4, <1>5, <1>6, <1>7, <1>8, <1>9, <1>10, <1>11 DEF Next, Pull, Seen
<1> QED
  BY <1>12 DEF Seen

LEMMA LogInvariant == Orderly => (Spec => []LogInv)
<1> SUFFICES ASSUME Orderly PROVE Spec => []LogInv
  OBVIOUS
<1>1. IInv /\ PlaceInv /\ OwnInv /\ LogInv /\ [Next]_vars => LogInv'
  BY NextLog
<1>2. Spec => []OwnInv
  BY OwnInvariant DEF Orderly
<1> QED
  BY <1>1, <1>2, InitLog, InductiveInvariant, PlaceInvariant, PTL DEF Spec

\* Aligned: a session's counter is the number of its cells and their positions are
\* consecutive, through every eviction, restore, save, continuation and restart, as long
\* as what goes astray in this code is kept out.
THEOREM PositionsAreAligned ==
  ASSUME Orderly
  PROVE  Spec => []Aligned
<1>1. LogInv => Aligned
  <2> SUFFICES ASSUME LogInv, NEW s \in Registered(cache)
               PROVE  LET cells == Content(cache, s)
                      IN  /\ cache.sess[s].head = Len(cells)
                          /\ \A i \in DOMAIN cells : cells[i].pos = i - 1
    BY DEF Aligned
  <2>1. Whole(Content(cache, s), cache.sess[s].head)
    BY ContentOf DEF LogInv, LogCache
  <2> QED
    BY <2>1 DEF Whole
<1> QED
  BY <1>1, LogInvariant, PTL

\* Only schedule_requests gives a request a slot.
LEMMA SlotsOnlyFilledBySchedule ==
  ASSUME IInv, [Next]_vars, ~Schedule
  PROVE  \A q \in SeqId : slots'[q] = slots[q] \/ slots'[q] = Null
<1>1. slots \in [SeqId -> Req \cup {Null}]
  BY DEF IInv, TypeOK
<1>2. CASE Handlers \/ Receive \/ Drained \/ (\E r \in Req : CollectPrep(r)) \/ CopyActions
           \/ ClearAction \/ ScheduleFails \/ Scheduled \/ StepFails \/ UNCHANGED vars
  <2>1. slots' = slots
    BY <1>2
    DEF Handlers, BuildPrompt, Send, AskForAction, Receive, Drained, CollectPrep, CopyActions,
        ClearAction, ScheduleFails, Scheduled, StepFails, vars, workVars
  <2> QED
    BY <2>1
<1>3. CASE Actioned
  <2>1. slots' = slots \/ \E s \in Session : \E q \in Source(s) : slots' = [slots EXCEPT ![q] = Null]
    BY <1>3 DEF Actioned, Save, Idle, Delete, workVars
  <2> QED
    BY <1>1, <2>1
<1>4. CASE Step
  BY <1>4 DEF Step, AfterBatch
<1>5. CASE Restart
  BY <1>5 DEF Restart
<1> QED
  BY <1>2, <1>3, <1>4, <1>5 DEF Next, Pull

\* Continued: a session that GET /state/:id reports goes on at its end, whether it is in
\* its sequence, in RAM or in a file, and whoever has to make room.
THEOREM SessionsAreContinued ==
  ASSUME Orderly
  PROVE  Spec => Continued
<1> DEFINE Goes(r) ==
      LET s == SessionOf[r]
      IN  InSlots(r) = {} /\ InSlots(r)' # {} /\ s # Null /\ Available(cache, s) =>
            /\ req'[r].off = Len(Content(cache, s))
            /\ Content(cache', s) = Content(cache, s)
<1>1. ASSUME IInv, PlaceInv, OwnInv, LogInv, [Next]_vars, NEW r \in Req
      PROVE  Goes(r)
  <2> SUFFICES ASSUME InSlots(r) = {}, InSlots(r)' # {}, NEW s, s = SessionOf[r], s # Null,
                      Available(cache, s)
               PROVE  /\ req'[r].off = Len(Content(cache, s))
                      /\ Content(cache', s) = Content(cache, s)
    OBVIOUS
  <2>1. PICK p \in SeqId : slots'[p] = r /\ slots[p] # r
    BY DEF InSlots
  <2>2. Schedule
    BY <1>1, <2>1, SlotsOnlyFilledBySchedule, NullIsNoRequest
  <2> DEFINE h == Head(queue)
             q == Target(SessionOf[h])
  <2>3. /\ q \in SeqId /\ slots' = [slots EXCEPT ![q] = h]
        /\ SessionOf[h] # Null => SessionOf[h] \in Owners(cache', q)
        /\ LogCache(cache')
        /\ \A t \in Registered(cache) : Content(cache', t) = Content(cache, t)
        /\ \E off : off = Len(cache'.kv[q]) /\ req' = [req EXCEPT ![h].off = off]
    BY <1>1, <2>2, ScheduleStarted
  <2> HIDE DEF q
  <2>4. h = r
    BY <1>1, <2>1, <2>3 DEF IInv, TypeOK
  <2>5. s \in Owners(cache', q) /\ s \in Registered(cache)
    BY <2>3, <2>4 DEF Available
  <2>6. Content(cache', s) = cache'.kv[q]
    <3>1. s \in Registered(cache') /\ cache'.sess[s].vram = q /\ q # Null
      BY <2>3, <2>5, CacheAssumption DEF Owners, SeqId
    <3>2. Sound(cache', s)
      BY <2>3, <3>1 DEF LogCache
    <3> QED
      BY <3>1, <3>2, ContentOf
  <2>7. req'[r].off = Len(cache'.kv[q])
    <3> HIDE DEF h
    <3>1. PICK off : off = Len(cache'.kv[q]) /\ req' = [req EXCEPT ![r].off = off]
      BY <2>3, <2>4
    <3>2. req'[r] = [req[r] EXCEPT !.off = off] /\ req[r] \in RequestType
      BY <1>1, <3>1 DEF IInv, TypeOK
    <3> QED
      BY <3>1, <3>2 DEF RequestType
  <2> QED
    BY <2>3, <2>5, <2>6, <2>7
<1>2. IInv /\ PlaceInv /\ OwnInv /\ LogInv /\ [Next]_vars => [\A r \in Req : Goes(r)]_vars
  BY <1>1
<1>3. Spec => []OwnInv
  BY OwnInvariant DEF Orderly
<1> QED
  BY <1>2, <1>3, InductiveInvariant, PlaceInvariant, LogInvariant, PTL DEF Spec, Continued

-----------------------------------------------------------------------------
\* What a session holds is a sequence of cells.
LEMMA ContentType ==
  ASSUME NEW c \in CacheType, LogCache(c), NEW s \in Registered(c)
  PROVE  Content(c, s) \in Seq(Cell) /\ Content(c, s) # Null
<1>1. c.sess[s] \in SessionType /\ Sound(c, s)
  BY CacheParts DEF LogCache
<1>2. CASE c.sess[s].vram # Null
  <2>1. c.sess[s].vram \in SeqId /\ Content(c, s) = c.kv[c.sess[s].vram]
    BY <1>1, <1>2, ContentOf DEF SessionType
  <2> QED
    BY <2>1, CacheParts, NullAssumption
<1>3. CASE c.sess[s].vram = Null
  <2>1. Outside(c, s) # Null /\ Content(c, s) = Outside(c, s).data
    BY <1>1, <1>3, ContentOf DEF Sound
  <2>2. c.sess[s].ram \in SnapshotType \cup {Null}
        /\ c.file[c.sess[s].path] \in SnapshotType \cup {Null}
    BY <1>1 DEF SessionType, CacheType
  <2>3. Outside(c, s) \in SnapshotType
    BY <2>1, <2>2 DEF Outside
  <2> QED
    BY <2>1, <2>3, NullAssumption DEF SnapshotType
<1> QED
  BY <1>2, <1>3

\* The log of a client.
LEMMA LogOf ==
  ASSUME NEW s \in Session
  PROVE  /\ Log[s] = IF s \in Registered(cache) THEN Content(cache, s) ELSE Null
         /\ Log'[s] = IF s \in Registered(cache') THEN Content(cache', s) ELSE Null
         /\ Log = [t \in Session |-> Log[t]] /\ Log' = [t \in Session |-> Log'[t]]
BY DEF Log, Registered, Content

LEMMA ShrunkLog ==
  ASSUME Shrunk(cache, cache')
  PROVE  SessionLogs!Next
<1> DEFINE S == Session \ Registered(cache')
<1>1. \A s \in Session : Log'[s] = IF s \in S THEN Null ELSE Log[s]
  BY LogOf DEF Shrunk
<1>2. Log' = [s \in Session |-> Log'[s]]
  BY DEF Log, Registered, Content
<1>3. SessionLogs!End(S)
  BY <1>1, <1>2 DEF SessionLogs!End
<1> QED
  BY <1>3 DEF SessionLogs!Next

LEMMA OpenedLog ==
  ASSUME NEW s \in Session, Opened(s, cache, cache')
  PROVE  SessionLogs!Next
<1>1. Log[s] = Null
  BY LogOf DEF Opened
<1>2. \A t \in Session : Log'[t] = IF t = s THEN <<>> ELSE Log[t]
  BY LogOf DEF Opened
<1>3. Log = [t \in Session |-> Log[t]] /\ Log' = [t \in Session |-> Log'[t]]
  BY LogOf
<1>4. Log' = [Log EXCEPT ![s] = <<>>]
  BY <1>2, <1>3
<1>5. SessionLogs!Open(s)
  BY <1>1, <1>4 DEF SessionLogs!Open
<1> QED
  BY <1>5 DEF SessionLogs!Next

LEMMA GrownLog ==
  ASSUME cache \in CacheType, LogCache(cache), cache' \in CacheType, LogCache(cache'),
         Grown(cache, cache')
  PROVE  SessionLogs!Next
<1>1. Registered(cache') = Registered(cache)
  BY DEF Grown
<1>2. ASSUME NEW s \in Registered(cache)
      PROVE  /\ Log[s] \in Seq(Cell) /\ Log[s] # Null /\ Log'[s] \in Seq(Cell) /\ Log'[s] # Null
             /\ SessionLogs!Extends(s, Log'[s], Log[s])
  <2>1. s \in Session /\ Log[s] = Content(cache, s) /\ Log'[s] = Content(cache', s)
    BY <1>1, LogOf DEF Registered
  <2>2. /\ Content(cache, s) \in Seq(Cell) /\ Content(cache, s) # Null
        /\ Content(cache', s) \in Seq(Cell) /\ Content(cache', s) # Null
    BY <1>1, ContentType
  <2>3. PICK more \in Seq(Cell) :
          /\ Content(cache', s) = Content(cache, s) \o more
          /\ \A i \in DOMAIN more : /\ more[i].pos = Len(Content(cache, s)) + i - 1
                                    /\ SessionOf[more[i].of] = s
    BY DEF Grown
  <2> DEFINE old == Content(cache, s)
             new == Content(cache', s)
  <2> HIDE DEF old, new
  <2>4. new = old \o more /\ old \in Seq(Cell)
        /\ \A i \in DOMAIN more : /\ more[i].pos = Len(old) + i - 1
                                  /\ SessionOf[more[i].of] = s
    BY <2>2, <2>3 DEF old, new
  <2>5. Len(old) <= Len(new) /\ SubSeq(old, 1, Len(old)) = SubSeq(new, 1, Len(old))
    BY <2>4
  <2>6. ASSUME NEW i \in Len(old) + 1 .. Len(new)
        PROVE  new[i].pos = i - 1 /\ SessionOf[new[i].of] = s
    <3>1. i - Len(old) \in DOMAIN more /\ new[i] = more[i - Len(old)]
      BY <2>4
    <3>2. more[i - Len(old)].pos = Len(old) + (i - Len(old)) - 1
      BY <2>4, <3>1
    <3>3. Len(old) \in Int /\ i \in Int
      BY <2>4
    <3> QED
      BY <2>4, <3>1, <3>2, <3>3
  <2>7. SessionLogs!Extends(s, new, old)
    BY <2>5, <2>6 DEF SessionLogs!Extends, SessionLogs!IsPrefix
  <2> QED
    BY <2>1, <2>2, <2>7 DEF old, new
<1>3. \A s \in Session \ Registered(cache) : Log[s] = Null /\ Log'[s] = Null
  BY <1>1, LogOf
<1>4. \A s \in Session : Log'[s] \in Seq(Cell) \cup {Null}
  BY <1>2, <1>3
<1>5. Log' = [t \in Session |-> Log'[t]]
  BY DEF Log, Registered, Content
<1>6. Log' \in [Session -> Seq(Cell) \cup {Null}]
  BY <1>4, <1>5
<1>7. \A s \in Session :
        \/ Log'[s] = Log[s]
        \/ Log[s] # Null /\ Log'[s] # Null /\ SessionLogs!Extends(s, Log'[s], Log[s])
  BY <1>2, <1>3
<1>8. SessionLogs!Cell = Cell
  BY DEF SessionLogs!Cell, Cell
<1>9. SessionLogs!Extend
  BY <1>6, <1>7, <1>8 DEF SessionLogs!Extend
<1> QED
  BY <1>9 DEF SessionLogs!Next

\* ImplementsSessionLog: a session is a log that its own requests append to, at
\* consecutive positions, until it is deleted or the server goes down; the tiers, the
\* sequences, the batches and the state actions are not to be seen.
THEOREM EngineImplementsSessionLog ==
  ASSUME Orderly
  PROVE  Spec => ImplementsSessionLog
<1>1. Init => SessionLogs!Init
  <2> SUFFICES ASSUME Init PROVE SessionLogs!Init
    OBVIOUS
  <2>1. PICK unified \in BOOLEAN : cache = EmptyCache(unified)
    BY DEF Init
  <2>2. Registered(cache) = {}
    BY <2>1 DEF EmptyCache, Registered
  <2> QED
    BY <2>2 DEF SessionLogs!Init, Log
<1>2. IInv /\ PlaceInv /\ OwnInv /\ LogInv /\ IInv' /\ LogInv' /\ [Next]_vars
        => [SessionLogs!Next]_Log
  <2> SUFFICES ASSUME IInv, PlaceInv, OwnInv, LogInv, IInv', LogInv', [Next]_vars
               PROVE  SessionLogs!Next
    OBVIOUS
  <2>1. /\ cache \in CacheType /\ LogCache(cache) /\ cache' \in CacheType
    BY DEF IInv, TypeOK, LogInv
  <2>2. LogCache(cache')
    BY DEF LogInv, LogCache, Registered, Sound, Headed, Outside
  <2>3. \/ Shrunk(cache, cache') \/ Grown(cache, cache')
        \/ \E s \in Session : Opened(s, cache, cache')
    BY NextLog
  <2> QED
    BY <2>1, <2>2, <2>3, ShrunkLog, GrownLog, OpenedLog
<1>3. Spec => []OwnInv
  BY OwnInvariant DEF Orderly
<1> QED
  BY <1>1, <1>2, <1>3, InductiveInvariant, PlaceInvariant, LogInvariant, PTL
  DEF Spec, ImplementsSessionLog, SessionLogs!Spec
=============================================================================
