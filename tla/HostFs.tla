------------------------------- MODULE HostFs -------------------------------
(***************************************************************************)
(* FsAccess of core/fs.rs and the fs calls of the JavaScript and the       *)
(* WebAssembly host: a file tree, the permissions of agent.yaml, and one   *)
(* action per operation.  A path is a sequence of names; a link holds the  *)
(* path, itself free of links, that it leads to.  Data is told apart only  *)
(* by where it was at the start.                                           *)
(***************************************************************************)
EXTENDS Integers, Sequences, FiniteSets, SequencesExt

CONSTANTS Name,    \* names of files and directories
          Path,    \* bound: the places of the tree, closed under prefixes
          Root,    \* the runtime's file system root
          Arg      \* arguments of calls: [abs, path]

VARIABLES
  tree,     \* what is at each place
  perm,     \* FsAccess::perm
  fsMode,   \* runtime_fs_mode
  seen      \* data, of files that are not the agent's own, that calls have returned

fsVars == <<tree, perm, fsMode, seen>>

ASSUME FsAssumption ==
  /\ Path \subseteq Seq(Name) /\ IsFiniteSet(Path) /\ <<>> \in Path
  /\ \A p \in Path : \A n \in 0 .. Len(p) : SubSeq(p, 1, n) \in Path
  /\ Root \in Seq(Name)
  /\ \A a \in Arg : a.path \in Seq(Name)

Nothing == [kind |-> "none", to |-> <<>>, data |-> "no data"]
Dir == [Nothing EXCEPT !.kind = "dir"]
File(d) == [Nothing EXCEPT !.kind = "file", !.data = d]
Link(p) == [Nothing EXCEPT !.kind = "link", !.to = p]

\* What a tree is: only directories hold anything, the first of them the root.
IsTree(t) ==
  /\ t = [p \in Path |-> t[p]]
  /\ t[<<>>].kind = "dir"
  /\ \A p \in Path :
       /\ t[p].kind \in {"none", "dir", "file", "link"}
       /\ t[p].kind # "none" => \A n \in 0 .. Len(p) - 1 : t[SubSeq(p, 1, n)].kind = "dir"
       /\ t[p].kind = "link" => t[p].to \in Seq(Name)

\* An agent with permissions p and mode m starts on tree t.
FsInit(t, p, m) == tree = t /\ perm = p /\ fsMode = m /\ seen = {}

(***************************************************************************)
(* The file system of the operating system.                                *)
(***************************************************************************)
At(p) == IF p \in Path THEN tree[p] ELSE Nothing
Upto(p, n) == SubSeq(p, 1, n)
Under(p, d) == IsPrefix(d, p)

\* The place a path leads to when every link on the way is followed.
Canon(p) ==
  LET to[n \in 0 .. Len(p)] ==
        IF n = 0 THEN <<>>
        ELSE LET q == Append(to[n - 1], p[n]) IN IF At(q).kind = "link" THEN At(q).to ELSE q
  IN  to[Len(p)]

Exists(p) == At(Canon(p)).kind \in {"dir", "file"}
IsDir(p) == At(Canon(p)).kind = "dir"

\* Where opening p for writing writes: a last link that leads nowhere is followed.
Opened(p) == IF At(p).kind = "link" THEN At(p).to ELSE p

DirAt(p) == At(p).kind = "dir"

(***************************************************************************)
(* FsAccess.                                                               *)
(***************************************************************************)
NoPath == <<"..">>

\* resolve_path up to normalize_absolute: empty and .. arguments are errors.
Normalized(a) ==
  IF (~a.abs /\ a.path = <<>>) \/ ".." \in Range(a.path) THEN NoPath
  ELSE IF a.abs THEN a.path ELSE Root \o a.path

\* reject_symlink_components: a component that is a link, or lies below a file.
Rejected(p) ==
  \E n \in 1 .. Len(p) : At(Upto(p, n)).kind = "link" \/ (n < Len(p) /\ At(Upto(p, n)).kind = "file")

\* canonicalize_soft: the part that exists is made canonical.
CanonSoft(p) ==
  LET there == {n \in 0 .. Len(p) : Exists(Upto(p, n))}
      n == CHOOSE n \in there : \A m \in there : m <= n
  IN  Canon(Upto(p, n)) \o SubSeq(p, n + 1, Len(p))

\* expand_config_paths of an absolute path of agent.yaml.
Expanded(p) == IF perm.follow /\ Exists(p) THEN CanonSoft(p) ELSE p

\* The directories enforce_allowed lets through; none means everything.
Scope ==
  IF perm.allowed # {} THEN {Expanded(p) : p \in perm.allowed}
  ELSE IF perm.outside THEN {} ELSE {Root}

InScope(p) == LET dirs == Scope IN dirs = {} \/ \E d \in dirs : Under(p, d)

Enforced(p) == InScope(p) /\ ~\E d \in perm.denied : Under(p, Expanded(d))

\* A wrong resolve_path: the policy is applied before links are followed.
ResolveBeforeLinks(a) ==
  LET p == Normalized(a)
  IN  IF p = NoPath \/ ~Enforced(p) THEN NoPath
      ELSE IF perm.follow THEN CanonSoft(p)
      ELSE IF Rejected(p) THEN NoPath ELSE p

\* resolve_path: the path the operation goes on with, or NoPath for an error.
Resolve(a) ==
  LET p == Normalized(a)
      q == IF perm.follow THEN CanonSoft(p) ELSE p
  IN  IF p = NoPath \/ (~perm.follow /\ Rejected(p)) \/ ~Enforced(q) THEN NoPath ELSE q

ResolveExisting(a) == LET p == Resolve(a) IN IF Exists(p) THEN p ELSE NoPath

\* check_perm.
May(op) == perm.allow /\ op \in perm.ops

\* resolve_writable_path.
ResolveWritable(a) ==
  LET p == Resolve(a)
  IN  IF Exists(p) THEN (IF May("write") THEN p ELSE NoPath)
      ELSE IF May("write") /\ May("create") /\ p # NoPath /\ Exists(Upto(p, Len(p) - 1))
        THEN p ELSE NoPath

(***************************************************************************)
(* The operations.  A call that is refused or fails changes nothing.       *)
(***************************************************************************)

\* The tree with x at place p, or unchanged where the operating system refuses:
\* the parent must be a directory.
With(p, x) ==
  IF p \in Path /\ p # <<>> /\ DirAt(Upto(p, Len(p) - 1)) THEN [tree EXCEPT ![p] = x] ELSE tree

Without(p) == [q \in Path |-> IF Under(q, p) THEN Nothing ELSE tree[q]]

\* read_text and read_bytes.
ReadFile(a) ==
  LET p == ResolveExisting(a)
  IN  /\ May("read")
      /\ p # NoPath /\ ~IsDir(p)
      /\ seen' = seen \cup ({At(Canon(p)).data} \cap {"outside"})
      /\ UNCHANGED <<tree, perm, fsMode>>

\* exists, is_file, is_dir and realpath return what the tree is like, ...
Look(a) ==
  /\ May("read")
  /\ Resolve(a) # NoPath
  /\ UNCHANGED fsVars

\* ... stat of what exists, ...
Stat(a) ==
  /\ May("read")
  /\ ResolveExisting(a) # NoPath
  /\ UNCHANGED fsVars

\* ... and list_dir of a directory.
ListDir(a) == IsDir(ResolveExisting(a)) /\ Stat(a)

\* write_bytes and write_text; appending keeps what is there, which may be data of
\* two origins: the newer one stands for both.
Write(a, d) ==
  LET p == Opened(ResolveWritable(a))
  IN  /\ ResolveWritable(a) # NoPath
      /\ ~DirAt(p)
      /\ tree' = With(p, File(d))
      /\ UNCHANGED <<perm, fsMode, seen>>

\* mkdir and create_dir_all.
Mkdir(a, recursive) ==
  LET p == Resolve(a)
      missing == {Upto(p, n) : n \in {m \in 1 .. Len(p) : At(Upto(p, m)).kind = "none"}}
  IN  /\ May("create")
      /\ p # NoPath
      /\ missing # {} /\ missing \subseteq Path
      /\ recursive \/ missing = {p}
      /\ \A n \in 0 .. Len(p) : Upto(p, n) \in missing \/ DirAt(Upto(p, n))
      /\ tree' = [q \in Path |-> IF q \in missing THEN Dir ELSE tree[q]]
      /\ UNCHANGED <<perm, fsMode, seen>>

\* A wrong remove: it goes where a write may go.
RemoveWritable(a, recursive) ==
  LET p == ResolveWritable(a)
  IN  /\ p # NoPath /\ p # <<>> /\ Exists(p)
      /\ tree' = Without(p)
      /\ UNCHANGED <<perm, fsMode, seen>>

\* remove: a file, an empty directory, or a whole one.
RemovePath(a, recursive) ==
  LET p == ResolveExisting(a)
  IN  /\ May("delete")
      /\ p # NoPath /\ p # <<>>
      /\ recursive \/ \A q \in Path : Under(q, p) /\ q # p => At(q).kind = "none"
      /\ tree' = Without(p)
      /\ UNCHANGED <<perm, fsMode, seen>>

\* fs::rename as the operating system does it: a file replaces a file, a directory an
\* empty directory, and nothing moves below itself.
Moved(p, q) ==
  [r \in Path |-> IF Under(r, q) /\ p \o SubSeq(r, Len(q) + 1, Len(r)) \in Path
                    THEN tree[p \o SubSeq(r, Len(q) + 1, Len(r))]
                  ELSE IF Under(r, p) \/ Under(r, q) THEN Nothing
                  ELSE tree[r]]

Rename(a, b) ==
  LET p == ResolveExisting(a)
      q == Resolve(b)
  IN  /\ May("write") /\ "delete" \in perm.ops
      /\ p \notin {NoPath, <<>>} /\ q \notin {NoPath, <<>>} /\ q \in Path
      /\ Exists(q) \/ "create" \in perm.ops
      /\ DirAt(Upto(q, Len(q) - 1))
      /\ ~Under(q, p)
      /\ IF DirAt(p) THEN \A r \in Path : Under(r, q) => At(r).kind = "none" \/ (r = q /\ DirAt(q))
         ELSE ~DirAt(q)
      /\ tree' = Moved(p, q)
      /\ UNCHANGED <<perm, fsMode, seen>>

\* copy: the target is cut before the source is read, so a file copied onto itself
\* is empty afterwards.
Copy(a, b) ==
  LET p == ResolveExisting(a)
      q == Opened(Resolve(b))
  IN  /\ May("read") /\ "write" \in perm.ops
      /\ p # NoPath /\ ~IsDir(p)
      /\ Resolve(b) # NoPath
      /\ Exists(Resolve(b)) \/ "create" \in perm.ops
      /\ ~DirAt(q)
      /\ tree' = With(q, File(IF p = q THEN "no data" ELSE At(p).data))
      /\ UNCHANGED <<perm, fsMode, seen>>

Reads == \E a \in Arg : ReadFile(a) \/ Look(a) \/ Stat(a) \/ ListDir(a)

Writes ==
  \/ \E a \in Arg : Write(a, "new")
  \/ \E a \in Arg, recursive \in BOOLEAN : Mkdir(a, recursive) \/ RemovePath(a, recursive)
  \/ \E a, b \in Arg : Rename(a, b) \/ Copy(a, b)

\* ensure_host_fs_mode_enabled.
HostFsEnabled == fsMode # "wasi_mounts"

\* The methods of class Fs of js/capabilities/fs.rs and the imports of the module
\* hugind_fs of wasm/runtime.rs are these operations.
FsNext == HostFsEnabled /\ (Reads \/ Writes)

(***************************************************************************)
(* Properties.                                                             *)
(***************************************************************************)

\* Links whose target is missing: canonicalize_soft takes their own place for it.
Dangling == \E p \in Path : At(p).kind = "link" /\ At(At(p).to).kind = "none"

\* A directory made on the way to an allowed one that does not exist yet.
MadeOnTheWay(p) == At(p).kind = "none" /\ tree'[p] = Dir /\ \E d \in Scope : Under(d, p)

\* A file made where a followed link in an allowed directory leads and nothing was.
MadeThroughLink(p) ==
  /\ perm.follow
  /\ At(p).kind = "none" /\ tree'[p].kind = "file"
  /\ \E l \in Path : At(l).kind = "link" /\ At(l).to = p /\ InScope(l)

\* Whatever sequence of calls an agent makes and wherever links lead, no place outside its
\* allowed directories that holds something changes or is given up.  The most that comes
\* to be there is a directory on the way to an allowed one, made by mkdir, and a file at
\* the target a link of the agent's has lost, made by a write or a copy.
OnlyScopeChanges ==
  [][\A p \in Path : tree'[p] # tree[p] => InScope(p) \/ MadeOnTheWay(p) \/ MadeThroughLink(p)]_fsVars

\* What enforce_allowed is for: links that lead out are denied, those that have lost their
\* target too.  The program does not do so: see MadeThroughLink.
EscapesAreDenied ==
  [][\A p \in Path : tree'[p] # tree[p] => InScope(p) \/ MadeOnTheWay(p)]_fsVars

\* The data of a file outside the allowed directories is never returned, nor copied or
\* moved to where it could be.
OutsideStaysUnseen ==
  Scope # {} => "outside" \notin seen /\ \A p \in Path : tree[p].data = "outside" => ~InScope(p)

Taken(t) == {p \in Path : t[p].kind # "none"}

\* Without the permission to delete no place is given up, without the permission to
\* write no content changes, without the permission to create the tree does not grow:
\* by no operation, rename and copy included.
PermissionsHold ==
  [][/\ ~(Taken(tree) \subseteq Taken(tree')) => "delete" \in perm.ops
     /\ Cardinality(Taken(tree')) > Cardinality(Taken(tree)) => "create" \in perm.ops
     /\ (\E p \in Path : {tree[p].kind, tree'[p].kind} = {"file"} /\ tree[p] # tree'[p])
          => "write" \in perm.ops]_fsVars
=============================================================================
