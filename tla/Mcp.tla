-------------------------------- MODULE Mcp --------------------------------
(***************************************************************************)
(* McpClient of core/mcp/mod.rs: JSON-RPC requests of several tasks over   *)
(* the stdin and stdout of one child process.  A request takes an id,      *)
(* leaves a oneshot sender under it in the pending map, writes its line    *)
(* and waits; a reader task matches the lines of the child by their id.    *)
(*                                                                         *)
(* The child is not part of the repository.  It may answer in any order,   *)
(* repeat an answer, send lines that answer nothing, and, when MayClose,   *)
(* end at any time.                                                        *)
(***************************************************************************)
EXTENDS Integers, Sequences, FiniteSets

CONSTANTS Call,      \* calls of tools.list and tools.call an agent's promises make
          Lists,     \* those of them that list tools, page by page
          MaxId,     \* bound: requests that take an id in a behaviour
          MaxLines,  \* bound: lines of the child not read yet
          MayClose   \* whether the child may end while the client is in use

ASSUME McpAssumption ==
  /\ Lists \subseteq Call
  /\ MaxId \in Nat \ {0}
  /\ MaxLines \in Nat \ {0}
  /\ MayClose \in BOOLEAN

VARIABLES
  call,      \* what each call is doing, and the id of its request
  nextId,    \* McpClient::next_id
  pending,   \* pending: the call whose sender is stored under an id
  wire,      \* ids of the requests the child has read and not answered yet
  lines,     \* lines the child has written and the reader has not taken
  child      \* "up", or "down" once its stdout is at its end

mcpVars == <<call, nextId, pending, wire, lines, child>>

Id == 1 .. MaxId
NoId == 0

Waiting == {"registered", "waiting"}
Finished == {"answered", "failed"}
CallPc == {"idle"} \cup Waiting \cup Finished

InFlight == {c \in Call : call[c].pc \in Waiting}

\* Ids the child has answered at least once.
AnsweredIds ==
  {i \in Id : i < nextId /\ i \notin wire /\ \A c \in Call : call[c] # [pc |-> "registered", id |-> i, got |-> NoId]}

\* A line: an answer to id, with the page that follows it when more is TRUE, or a
\* line the reader skips (blank, not JSON, a notification), whose id is NoId.
Line == [id : Id \cup {NoId}, more : BOOLEAN]

McpInit ==
  /\ call = [c \in Call |-> [pc |-> "idle", id |-> NoId, got |-> NoId]]
  /\ nextId = 1
  /\ pending = [i \in {} |-> NoId]
  /\ wire = {}
  /\ lines = <<>>
  /\ child = "up"

\* A wrong request: ids are reused when the requests before have been answered.
RegisterReusingIds(c) ==
  LET id == Cardinality(DOMAIN pending) + 1
  IN  /\ nextId \in Id
      /\ nextId' = nextId + 1
      /\ pending' = [i \in DOMAIN pending \cup {id} |-> IF i = id THEN c ELSE pending[i]]
      /\ call' = [call EXCEPT ![c] = [pc |-> "registered", id |-> id, got |-> NoId]]
      /\ UNCHANGED <<wire, lines, child>>

\* fetch_add and the insertion into pending, as one step: the id is not known to
\* anybody else before its line is written.
Register(c) ==
  /\ nextId \in Id
  /\ nextId' = nextId + 1
  /\ pending' = [i \in DOMAIN pending \cup {nextId} |-> IF i = nextId THEN c ELSE pending[i]]
  /\ call' = [call EXCEPT ![c] = [pc |-> "registered", id |-> nextId, got |-> NoId]]
  /\ UNCHANGED <<wire, lines, child>>

\* A call starts: initialize, tools/call, or the first page of tools/list.
BeginCall(c) == call[c].pc = "idle" /\ Register(c)

\* send_message under the lock of stdin: the child gets a whole line, ...
Write(c) ==
  /\ call[c].pc = "registered"
  /\ child = "up"
  /\ wire' = wire \cup {call[c].id}
  /\ call' = [call EXCEPT ![c].pc = "waiting"]
  /\ UNCHANGED <<nextId, pending, lines, child>>

\* ... or the write fails because the child is gone; the entry stays in pending.
WriteFails(c) ==
  /\ call[c].pc = "registered"
  /\ child = "down"
  /\ call' = [call EXCEPT ![c].pc = "failed"]
  /\ UNCHANGED <<nextId, pending, wire, lines, child>>

\* The child answers any request it has read.
ChildAnswers(i) ==
  /\ child = "up"
  /\ i \in wire
  /\ Len(lines) < MaxLines
  /\ \E more \in BOOLEAN : lines' = Append(lines, [id |-> i, more |-> more])
  /\ wire' = wire \ {i}
  /\ UNCHANGED <<call, nextId, pending, child>>

\* The child repeats an answer, or writes a line that answers nothing.
ChildBabbles ==
  /\ child = "up"
  /\ Len(lines) < MaxLines
  /\ \E i \in {NoId} \cup AnsweredIds : lines' = Append(lines, [id |-> i, more |-> FALSE])
  /\ UNCHANGED <<call, nextId, pending, wire, child>>

ChildCloses ==
  /\ MayClose
  /\ child = "up"
  /\ child' = "down"
  /\ UNCHANGED <<call, nextId, pending, wire, lines>>

\* A wrong match: the reader hands the line to the request that has waited longest.
Oldest(i) ==
  IF DOMAIN pending = {} THEN NoId ELSE CHOOSE j \in DOMAIN pending : \A k \in DOMAIN pending : j <= k

Matched(i) == IF i \in DOMAIN pending THEN i ELSE NoId

(***************************************************************************)
(* start_stdout_reader takes a line: the sender stored under its id is     *)
(* removed and used, other lines are dropped.  The call it wakes returns,  *)
(* or asks for the next page of a list (list_tools).  At the end of stdout *)
(* the reader task ends and leaves pending as it is.                       *)
(***************************************************************************)
Read ==
  /\ lines # <<>>
  /\ LET line == Head(lines)
         i == Matched(line.id)
     IN  \/ /\ i = NoId
            /\ UNCHANGED <<call, pending>>
         \/ /\ i # NoId
            /\ pending' = [j \in DOMAIN pending \ {i} |-> pending[j]]
            /\ call' = [call EXCEPT ![pending[i]] =
                          IF @.pc # "waiting" THEN @
                          ELSE [@ EXCEPT !.pc = IF pending[i] \in Lists /\ line.more /\ nextId \in Id
                                                  THEN "idle" ELSE "answered",
                                         !.got = line.id]]
  /\ lines' = Tail(lines)
  /\ UNCHANGED <<nextId, wire, child>>

McpStep(c) == Write(c) \/ WriteFails(c)

\* One task of the agent, for as long as it makes calls.
Caller(c) == BeginCall(c) \/ McpStep(c)

Child == (\E i \in Id : ChildAnswers(i)) \/ ChildBabbles \/ ChildCloses

McpNext == (\E c \in Call : Caller(c)) \/ Read \/ Child

McpSpec == McpInit /\ [][McpNext]_mcpVars

(***************************************************************************)
(* Properties.                                                             *)
(***************************************************************************)

McpTypeOK ==
  /\ call \in [Call -> [pc : CallPc, id : Id \cup {NoId}, got : Id \cup {NoId}]]
  /\ nextId \in 1 .. MaxId + 1
  /\ DOMAIN pending \subseteq Id
  /\ \A i \in DOMAIN pending : pending[i] \in Call
  /\ wire \subseteq Id
  /\ lines \in Seq(Line)
  /\ child \in {"up", "down"}

\* A call returns with the answer to its own request, whatever the order in which
\* the child answers the requests of concurrent tasks.
OwnAnswer == \A c \in Call : call[c].got # NoId => call[c].got = call[c].id

\* The sender of a call that waits is where the reader looks for it, under the
\* call's own id: no answer can arrive for it and be dropped.
CanBeWoken ==
  \A c \in InFlight : call[c].id \in DOMAIN pending /\ pending[call[c].id] = c
=============================================================================
