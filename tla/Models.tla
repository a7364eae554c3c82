------------------------------- MODULE Models -------------------------------
(***************************************************************************)
(* The local model repository and the programs that download into it:      *)
(* `hugind model add` and `model remove` on the command line (cli/model.rs)*)
(* and the methods model.add and model.remove of the stdio bridge          *)
(* (stdio/mod.rs), both over Downloader and RepoManager (core/model).      *)
(*                                                                         *)
(* One repository directory holds, for every file, the file itself and its *)
(* ".part".  Names point at inodes, because a program that writes keeps    *)
(* writing to its open file after another one has renamed or removed it.   *)
(* The content of an inode is a sequence of chunks, each stamped with the  *)
(* version of the remote file it came from; Hugging Face may publish a new *)
(* version at any time.  A step of a download is one system call or one    *)
(* await, but that a .part is removed and created again in one (StartsOver)*)
(* and read and removed in one (VerifyFails); and so is a model removed.   *)
(***************************************************************************)
EXTENDS Integers, FiniteSets, Sequences, SequencesExt, Filtering

CONSTANTS
    Proc,        \* the programs that work on the repository
    Bridge,      \* the one of them that is the stdio bridge
    File,        \* the GGUF files of the remote repository
    Selection,   \* [Proc -> the sequences of files it may ask for together]
    NoFile,      \* what a name that does not exist points at
    Chunks,      \* the length of every version of every file
    MaxVersion,  \* bound: versions of a remote file
    MaxCrashes,  \* bound: programs killed
    Together     \* bound: programs that download at the same time

Inode == 1 .. (2 * Cardinality(File) + Cardinality(Proc))

ASSUME ModelsAssumption ==
    /\ Bridge \in Proc /\ IsFiniteSet(Proc)
    /\ IsFiniteSet(File) /\ NoFile \notin Inode
    /\ \A p \in Proc : Selection[p] \subseteq Seq(File)
    /\ Chunks \in Nat \ {0} /\ MaxVersion \in Nat \ {0} /\ Together \in Nat

VARIABLES
    checked,  \* the files the listing gives a size and a SHA-256 for
    remote,   \* [File -> Nat]: the version the remote repository holds
    repo,     \* BOOLEAN: the repository directory exists
    final,    \* [File -> inode]: "name"
    part,     \* [File -> inode]: "name.part"
    data,     \* [inode -> content]
    job,      \* [Proc -> record]: the download a program is at
    crashes

modelVars == <<checked, remote, repo, final, part, data, job, crashes>>

Whole(v) == [i \in 1 .. Chunks |-> <<v, i>>]
Hole == <<0, 0>>

(* Writing a chunk at a position of a file; a gap before it is a hole. *)
Written(content, at, chunk) ==
    [i \in 1 .. (IF at > Len(content) THEN at ELSE Len(content)) |->
        CASE i = at -> chunk
          [] i # at /\ i <= Len(content) -> content[i]
          [] OTHER -> Hole]

Content(names, f) == IF names[f] = NoFile THEN <<>> ELSE data[names[f]]

(***************************************************************************)
(* A job: the files still to do (the head is the one in hand), what the    *)
(* listing promised, the open file, where its next chunk goes, the version *)
(* being received and how much of it has been.                             *)
(***************************************************************************)
Resting == [at |-> "succeeded", todo |-> <<>>, listed |-> [f \in File |-> 0],
            fd |-> NoFile, appends |-> FALSE, received |-> 0, version |-> 0,
            failed |-> FALSE]

Busy(p) == job[p].at \notin {"succeeded", "failed"}
Now(p) == Head(job[p].todo)

ModelsInit ==
    /\ checked \in SUBSET File
    /\ remote = [f \in File |-> 1]
    /\ repo = FALSE
    /\ final = [f \in File |-> NoFile]
    /\ part = [f \in File |-> NoFile]
    /\ data = [i \in Inode |-> <<>>]
    /\ job = [p \in Proc |-> Resting]
    /\ crashes = 0

(* An inode without a name and without an open file is gone. *)
InUse == ({final'[f] : f \in File} \union {part'[f] : f \in File}
            \union {job'[p].fd : p \in Proc}) \ {NoFile}
Keeping(d) == data' = [i \in Inode |-> IF i \in InUse THEN d[i] ELSE <<>>]

NewInode == CHOOSE i \in Inode : /\ \A f \in File : i \notin {final[f], part[f]}
                                 /\ \A p \in Proc : i # job[p].fd

(* Publishing a new version of a file. *)
Publish(f) ==
    /\ remote[f] < MaxVersion
    /\ remote' = [remote EXCEPT ![f] = @ + 1]
    /\ UNCHANGED <<checked, repo, final, part, data, job, crashes>>

(***************************************************************************)
(* The listing is fetched once.  The command line leaves out the files     *)
(* that are there with the listed size; the bridge downloads all again.    *)
(***************************************************************************)
ToDownload(p, files) ==
    IF p = Bridge THEN files
    ELSE Chosen(files, {f \in File : ~ (/\ f \in checked
                                        /\ final[f] # NoFile
                                        /\ Len(data[final[f]]) = Chunks)})

Add(p, files) ==
    LET todo == ToDownload(p, files) IN
    /\ ~ Busy(p)
    /\ Cardinality({q \in Proc : Busy(q)}) < Together
    /\ job' = [job EXCEPT ![p] =
                  IF todo = <<>> THEN Resting
                  ELSE [Resting EXCEPT !.at = "send", !.todo = todo, !.listed = remote]]
    /\ UNCHANGED <<checked, remote, repo, final, part, data, crashes>>

(***************************************************************************)
(* The end of one file.  The bridge's loop stops at the first error, the   *)
(* command line goes on and reports at the end.                            *)
(***************************************************************************)
FileEnded(p, ok) ==
    LET j == job[p]
        failed == j.failed \/ ~ ok
        rest == IF ok \/ p # Bridge THEN Tail(j.todo) ELSE <<>>
    IN  [Resting EXCEPT !.at = CASE rest # <<>> -> "send"
                                 [] rest = <<>> /\ failed -> "failed"
                                 [] OTHER -> "succeeded",
                        !.todo = rest, !.failed = failed /\ rest # <<>>,
                        !.listed = IF rest # <<>> THEN j.listed ELSE @]

FileFails(p) ==
    /\ job' = [job EXCEPT ![p] = FileEnded(p, FALSE)]
    /\ UNCHANGED <<checked, remote, repo, final, part, crashes>>
    /\ Keeping(data)

(* The directory is made, the length of the .part read and the request sent. *)
SendRequest(p) ==
    /\ job[p].at = "send"
    /\ repo' = TRUE
    /\ job' = [job EXCEPT ![p].at = "answer", ![p].received = Len(Content(part, Now(p)))]
    /\ UNCHANGED <<checked, remote, final, part, data, crashes>>

(***************************************************************************)
(* The answers to a request.  A range that starts past the end is 416 and  *)
(* the .part taken for complete; 206 appends to the .part, which must      *)
(* still be there; 200 starts the .part anew, truncating what is there.    *)
(***************************************************************************)
PastTheEnd(p) ==
    /\ job[p].at = "answer"
    /\ job[p].received >= Chunks
    /\ job' = [job EXCEPT ![p].at = "verify"]
    /\ UNCHANGED <<checked, remote, repo, final, part, data, crashes>>

Resumes(p) ==
    LET f == Now(p) IN
    /\ job[p].at = "answer"
    /\ job[p].received \in 1 .. (Chunks - 1)
    /\ part[f] # NoFile
    /\ job' = [job EXCEPT ![p].at = "receive", ![p].fd = part[f], ![p].appends = TRUE,
                          ![p].version = remote[f]]
    /\ UNCHANGED <<checked, remote, repo, final, part, data, crashes>>

(* A bug to check against: the whole file is appended to what was there. *)
StartsOverAppending(p) ==
    LET f == Now(p)
        inode == IF part[f] # NoFile THEN part[f] ELSE NewInode
    IN  /\ job[p].at = "answer"
        /\ repo
        /\ part' = [part EXCEPT ![f] = inode]
        /\ job' = [job EXCEPT ![p].at = "receive", ![p].fd = inode, ![p].appends = TRUE,
                              ![p].received = 0, ![p].version = remote[f]]
        /\ UNCHANGED <<checked, remote, repo, final, data, crashes>>

(* 200: a .part that was to be resumed is removed before the new one is created. *)
StartsOver(p) ==
    LET f == Now(p)
        inode == IF part[f] # NoFile /\ job[p].received = 0 THEN part[f] ELSE NewInode
    IN  /\ job[p].at = "answer"
        /\ repo
        /\ part' = [part EXCEPT ![f] = inode]
        /\ job' = [job EXCEPT ![p].at = "receive", ![p].fd = inode, ![p].received = 0,
                              ![p].version = remote[f]]
        /\ UNCHANGED <<checked, remote, repo, final, crashes>>
        /\ Keeping([data EXCEPT ![inode] = <<>>])

(* An error status, no connection, or a .part or directory that has gone. *)
AnswerFails(p) ==
    /\ job[p].at = "answer"
    /\ FileFails(p)

ReceiveChunk(p) ==
    LET j == job[p]
        n == j.received + 1
        at == IF j.appends THEN Len(data[j.fd]) + 1 ELSE n
    IN  /\ j.at = "receive"
        /\ n <= Chunks
        /\ data' = [data EXCEPT ![j.fd] = Written(@, at, <<j.version, n>>)]
        /\ job' = [job EXCEPT ![p].received = n]
        /\ UNCHANGED <<checked, remote, repo, final, part, crashes>>

ReceivedAll(p) ==
    /\ job[p].at = "receive"
    /\ job[p].received = Chunks
    /\ job' = [job EXCEPT ![p].at = "verify"]
    /\ UNCHANGED <<checked, remote, repo, final, part, data, crashes>>

(* The stream breaks off: the .part stays for the next time. *)
ReceiveFails(p) ==
    /\ job[p].at = "receive"
    /\ FileFails(p)

(* A bug to check against: a range past the end counts as verified. *)
VerifiedUnlessPastTheEnd(p) ==
    LET f == Now(p) IN
    f \in checked => part[f] # NoFile /\ Len(data[part[f]]) >= Chunks

(***************************************************************************)
(* The hash is computed over the file that has the .part's name now.       *)
(***************************************************************************)
Verified(p) ==
    LET f == Now(p) IN
    f \in checked => part[f] # NoFile /\ data[part[f]] = Whole(job[p].listed[f])

VerifyPasses(p) ==
    /\ job[p].at = "verify"
    /\ Verified(p)
    /\ job' = [job EXCEPT ![p].at = "unlink"]
    /\ UNCHANGED <<checked, remote, repo, final, part, data, crashes>>

VerifyFails(p) ==
    /\ job[p].at = "verify"
    /\ ~ Verified(p)
    /\ job' = [job EXCEPT ![p] = FileEnded(p, FALSE)]
    /\ part' = [part EXCEPT ![Now(p)] = NoFile]
    /\ UNCHANGED <<checked, remote, repo, final, crashes>>
    /\ Keeping(data)

RemoveOld(p) ==
    /\ job[p].at = "unlink"
    /\ final' = [final EXCEPT ![Now(p)] = NoFile]
    /\ job' = [job EXCEPT ![p].at = "rename"]
    /\ UNCHANGED <<checked, remote, repo, part, crashes>>
    /\ Keeping(data)

Rename(p) ==
    LET f == Now(p) IN
    /\ job[p].at = "rename"
    /\ part[f] # NoFile
    /\ final' = [final EXCEPT ![f] = part[f]]
    /\ part' = [part EXCEPT ![f] = NoFile]
    /\ job' = [job EXCEPT ![p] = FileEnded(p, TRUE)]
    /\ UNCHANGED <<checked, remote, repo, crashes>>
    /\ Keeping(data)

RenameFails(p) ==
    /\ job[p].at = "rename"
    /\ part[Now(p)] = NoFile
    /\ FileFails(p)

(***************************************************************************)
(* Removing models.  get_repo sees a repository only while it holds a GGUF *)
(* file; the bridge's model.remove asks only for the directory.            *)
(***************************************************************************)
HasGguf(names) == \E f \in File : names[f] # NoFile

MayRemove(p) == IF p = Bridge THEN repo ELSE repo /\ HasGguf(final)

DeleteRepo(p) ==
    /\ ~ Busy(p)
    /\ MayRemove(p)
    /\ repo' = FALSE
    /\ final' = [f \in File |-> NoFile]
    /\ part' = [f \in File |-> NoFile]
    /\ UNCHANGED <<checked, remote, job, crashes>>
    /\ Keeping(data)

(* A repository of which no GGUF file is left is not found again, so it stays. *)
DeleteFiles(p, files) ==
    LET left == [f \in File |-> IF f \in files THEN NoFile ELSE final[f]] IN
    /\ ~ Busy(p)
    /\ MayRemove(p)
    /\ final' = left
    /\ UNCHANGED <<checked, remote, repo, part, job, crashes>>
    /\ Keeping(data)

(* A program is killed; what it had written stays. *)
Crash(p) ==
    /\ Busy(p)
    /\ crashes < MaxCrashes
    /\ crashes' = crashes + 1
    /\ job' = [job EXCEPT ![p] = [Resting EXCEPT !.at = "failed"]]
    /\ UNCHANGED <<checked, remote, repo, final, part>>
    /\ Keeping(data)

Download(p) ==
    \/ SendRequest(p)
    \/ PastTheEnd(p)
    \/ Resumes(p)
    \/ StartsOver(p)
    \/ AnswerFails(p)
    \/ ReceiveChunk(p)
    \/ ReceivedAll(p)
    \/ ReceiveFails(p)
    \/ VerifyPasses(p)
    \/ VerifyFails(p)
    \/ RemoveOld(p)
    \/ Rename(p)
    \/ RenameFails(p)

-----------------------------------------------------------------------------
(***************************************************************************)
(* docs/cli_model.md promises "SHA256 integrity verification": a file the  *)
(* listing gives a hash for is, under its own name, always a whole version *)
(* of the remote file.                                                     *)
(***************************************************************************)
WholeAt(i) == \E v \in 1 .. MaxVersion : data[i] = Whole(v)

VerifiedFilesAreWhole ==
    \A f \in checked : final[f] # NoFile => WholeAt(final[f])

(***************************************************************************)
(* And "Download resume (interrupted downloads continue from where they    *)
(* left off)": after any crashes and retries, with servers that honour a   *)
(* range or ignore it, a file without a hash is whole too while the remote *)
(* file has not changed.                                                   *)
(***************************************************************************)
ResumedFilesAreWhole ==
    \A f \in File : final[f] # NoFile /\ remote[f] = 1 => data[final[f]] = Whole(1)

=============================================================================
