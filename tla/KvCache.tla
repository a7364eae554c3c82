------------------------------ MODULE KvCache ------------------------------
(***************************************************************************)
(* The session store of server/engine/kv_cache.rs together with the        *)
(* llama.cpp memory it moves sessions in and out of.  A cache is a record: *)
(*                                                                         *)
(*   sess[s]   what KvCacheManager knows of session s, Null when it is not *)
(*             registered: tier, vram (the sequence it owns), ram and path *)
(*             (where its snapshots are), pending (the state action an     *)
(*             HTTP handler has asked for), head (kv_head) and ntok (the   *)
(*             length of tokens)                                           *)
(*   kv[q]     the cells of sequence q of the context, in the order they   *)
(*             were decoded: the position and the request of each          *)
(*   file[p]   the state file at p, Null when none there can be read       *)
(*   unified   unified_memory_mode of the configuration                    *)
(*                                                                         *)
(* The operators below take the cache before a method and give the cache   *)
(* after it, so that the engine can compose them as its handlers do.       *)
(***************************************************************************)
EXTENDS Integers, Sequences

CONSTANTS Session,    \* session ids clients use
          Template,   \* template ids of POST /state/save
          NSeq,       \* n_seq_max: sequences of the llama.cpp context
          Null

ASSUME CacheAssumption ==
  /\ NSeq \in Nat \ {0}
  /\ Null \notin Session \cup Template \cup Int

SeqId == 0 .. NSeq - 1

\* A state file is named after the session (register_session) or after the template it
\* was saved for.
Path == Session \cup Template

Tier == {"vram", "ram", "disk"}

EmptyCache(unified) ==
  [sess |-> [s \in Session |-> Null],
   kv |-> [q \in SeqId |-> <<>>],
   file |-> [p \in Path |-> Null],
   unified |-> unified]

Registered(c) == {s \in Session : c.sess[s] # Null}

Owners(c, q) == {s \in Registered(c) : c.sess[s].vram = q}

Snapshot(c, q, s) == [data |-> c.kv[q], head |-> c.sess[s].head]

NewSession(s) ==
  [tier |-> "vram", vram |-> Null, ram |-> Null, path |-> s, pending |-> Null,
   head |-> 0, ntok |-> 0]

\* register_session: nothing happens to a session that is there already.
Register(c, s) ==
  IF s \in Registered(c) THEN c ELSE [c EXCEPT !.sess[s] = NewSession(s)]

\* set_vram_seq.
SetVramSeq(c, s, q) ==
  IF s \in Registered(c)
    THEN [c EXCEPT !.sess[s] = [@ EXCEPT !.vram = q, !.tier = "vram"]]
    ELSE c

\* release_sequence: nobody owns q any more.
ReleaseSequence(c, q) ==
  [c EXCEPT !.sess = [s \in Session |-> IF s \in Owners(c, q)
                                           THEN [c.sess[s] EXCEPT !.vram = Null]
                                           ELSE c.sess[s]]]

\* Context::kv_cache_seq_rm of a whole sequence.
ClearSequence(c, q) == [c EXCEPT !.kv[q] = <<>>]

\* A wrong start: the cells of whoever used the sequence before stay.
UnclearedSequence(c, q, s) == SetVramSeq(c, s, q)

\* A sequence for session s (none if Null) to start from nothing on: cleared and owned.
FreshSequence(c, q, s) == SetVramSeq(ClearSequence(c, q), s, q)

\* A wrong evict: the sequence is still marked as the session's.
EvictedStillOwner(c, q, s) ==
  IF c.unified
    THEN [c EXCEPT !.kv[q] = <<>>,
                   !.sess[s] = [@ EXCEPT !.tier = "disk", !.ram = Null],
                   !.file[c.sess[s].path] = Snapshot(c, q, s)]
    ELSE [c EXCEPT !.kv[q] = <<>>,
                   !.sess[s] = [@ EXCEPT !.tier = "ram", !.ram = Snapshot(c, q, s)]]

\* evict: the cells of q become the session's snapshot, in its file in unified memory
\* mode and in RAM otherwise, and the sequence is cleared and given up.
Evicted(c, q, s) ==
  IF c.unified
    THEN [c EXCEPT !.kv[q] = <<>>,
                   !.sess[s] = [@ EXCEPT !.vram = Null, !.tier = "disk", !.ram = Null],
                   !.file[c.sess[s].path] = Snapshot(c, q, s)]
    ELSE [c EXCEPT !.kv[q] = <<>>,
                   !.sess[s] = [@ EXCEPT !.vram = Null, !.tier = "ram",
                                         !.ram = Snapshot(c, q, s)]]

\* write_state_file to p returns an error: the file could not be created, or it is cut
\* short, and then it cannot be read, or its header can and its state does not load.
WriteFailures(c, p, head) ==
  {c} \cup {[c EXCEPT !.file[p] = f] : f \in {Null, [data |-> <<>>, head |-> head]}}

\* evict returns an error: the context would not give the state, or, once the sequence
\* is cleared already, the file could not be written.
EvictFailures(c, q, s) ==
  {c} \cup (IF c.unified
              THEN WriteFailures([c EXCEPT !.kv[q] = <<>>,
                                           !.sess[s] = [@ EXCEPT !.vram = Null]],
                                 c.sess[s].path, c.sess[s].head)
              ELSE {})

\* A wrong restore: RAM snapshots are not looked at.
RestorableFromDisk(c, s) ==
  LET e == c.sess[s]
  IN  c.file[e.path] # Null /\ c.file[e.path].head <= e.ntok

\* restore finds something to restore: a RAM snapshot, or else a state file that does
\* not claim more tokens than the session has seen.
Restorable(c, s) ==
  LET e == c.sess[s]
  IN  \/ e.ram # Null
      \/ c.file[e.path] # Null /\ c.file[e.path].head <= e.ntok

\* restore of a restorable session into sequence q.
Restored(c, q, s) ==
  LET e == c.sess[s]
      snap == IF e.ram # Null THEN e.ram ELSE c.file[e.path]
  IN  [c EXCEPT !.kv[q] = snap.data,
                !.sess[s] = [e EXCEPT !.tier = "vram", !.vram = q, !.head = snap.head,
                                      !.ram = IF c.unified THEN e.ram ELSE Null]]

\* What both saves do to the session's counters first.
Clamped(e) ==
  LET head == IF e.head <= e.ntok THEN e.head ELSE e.ntok
  IN  [e EXCEPT !.head = head, !.ntok = head]

\* save_to_disk: the live cells of q are written to path p, which is the session's
\* path from then on.
SavedToDisk(c, q, s, p) ==
  LET e == Clamped(c.sess[s])
  IN  [c EXCEPT !.sess[s] = [e EXCEPT !.path = p],
                !.file[p] = [data |-> c.kv[q], head |-> e.head]]

\* A save whose state was there fails to write it.
SaveFailures(c, s, p) ==
  LET e == Clamped(c.sess[s])
  IN  WriteFailures([c EXCEPT !.sess[s] = e], p, e.head)

\* A wrong save_ram_to_disk: the RAM snapshot is given up and the session keeps its path.
SavedRamElsewhere(c, s, p) ==
  LET e == Clamped(c.sess[s])
  IN  [c EXCEPT !.sess[s] = [e EXCEPT !.tier = "disk",
                                      !.ram = IF c.unified THEN e.ram ELSE Null],
                !.file[p] = [data |-> e.ram.data, head |-> e.head]]

\* save_ram_to_disk of a session that has a RAM snapshot.
SavedRamToDisk(c, s, p) ==
  LET e == Clamped(c.sess[s])
  IN  [c EXCEPT !.sess[s] = [e EXCEPT !.path = p, !.tier = "disk",
                                      !.ram = IF c.unified THEN e.ram ELSE Null],
                !.file[p] = [data |-> e.ram.data, head |-> e.head]]

\* What GET /state/:id answers: get_state of routes.rs.
Available(c, s) ==
  /\ s \in Registered(c)
  /\ LET e == c.sess[s]
     IN  \/ e.tier = "vram" /\ e.vram # Null
         \/ e.ram # Null
         \/ c.file[e.path] # Null

(***************************************************************************)
(* The conversation a session holds, wherever it is.                       *)
(***************************************************************************)
Content(c, s) ==
  LET e == c.sess[s]
  IN  IF e.vram # Null THEN c.kv[e.vram]
      ELSE IF e.ram # Null THEN e.ram.data
      ELSE IF c.file[e.path] # Null THEN c.file[e.path].data
      ELSE <<>>

\* No two sessions own the same sequence.
ExclusiveIn(c) == \A q \in SeqId : \A s, t \in Owners(c, q) : s = t
=============================================================================
