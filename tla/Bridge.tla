------------------------------- MODULE Bridge -------------------------------
(***************************************************************************)
(* The stdio bridge (stdio/mod.rs): a host program writes one request per  *)
(* line, NDJSON or MCP JSON-RPC, and the bridge handles one line after the *)
(* other.  What it answers and reports goes through an unbounded channel   *)
(* to the task that writes standard output; the status of a server that    *)
(* was started or stopped is polled by tasks of their own, which outlive   *)
(* the request.  Beside it the command line works on the same model        *)
(* repository (module Models).                                             *)
(***************************************************************************)
EXTENDS Models

CONSTANTS
    Sessions,    \* bound: the sequences of requests a host may send
    MaxBooting,  \* bound: server processes that are loading
    MaxCommands  \* bound: commands given on the command line

VARIABLES
    lines,    \* sequence: the kinds of the lines that were read
    cur,      \* the request in hand
    out,      \* sequence of messages given to the channel
    sink,     \* the request that receives what an agent prints and reports
    watch,    \* the tasks that wait for a server to come up or go down
    booting,  \* Nat: server processes started and not listening yet
    up,       \* BOOLEAN: a server listens on the configured port
    config,   \* BOOLEAN: the configuration exists
    agent,    \* the installed agent's directory
    commands, \* Nat: commands given on the command line
    install   \* where the command line's agent install is: "no", "asking", "copying",
              \* or "itself" (asking, with the installed directory as its source)

cliVars == <<commands, install>>
bridgeVars == <<lines, cur, out, sink, watch, booting, up, config, agent, cliVars>>
vars == <<modelVars, bridgeVars>>

Kind == {"listAgents", "listConfigs", "checkConfig", "setDefaults", "listModels", "showModel",
         "listServers", "run", "add", "removeRepo", "removeFiles", "start", "stop", "install",
         "removeAgent", "initConfig", "removeConfig", "initialize", "listTools",
         "malformed", "notification"}
Nothing == [id |-> 0, kind |-> "malformed"]
NoSink == 0
Unknown == 0

Answer(id, ok) == [kind |-> "answer", id |-> id, what |-> IF ok THEN "ok" ELSE "error"]
Event(id, what) == [kind |-> "event", id |-> id, what |-> what]

(* Repeated events of one kind count as one. *)
Sent(log, message) == IF log # <<>> /\ Last(log) = message THEN log ELSE Append(log, message)

Init ==
    /\ ModelsInit
    /\ lines = <<>>
    /\ cur = Nothing
    /\ out = <<>>
    /\ sink = NoSink
    /\ watch = {}
    /\ booting = 0
    /\ up = FALSE
    /\ config = TRUE
    /\ agent = "absent"
    /\ commands = 0
    /\ install = "no"

(* A bug to check against: the next line is read while a request is handled. *)
ReadLineAtOnce(kind) ==
    /\ \E session \in Sessions : IsPrefix(Append(lines, kind), session)
    /\ lines' = Append(lines, kind)
    /\ kind \notin {"malformed", "notification"}
    /\ cur' = [id |-> Len(lines'), kind |-> kind]
    /\ UNCHANGED <<modelVars, out, sink, watch, booting, up, config, agent, cliVars>>

(***************************************************************************)
(* The loop of run().  A line that is no request is answered at once, with *)
(* the id "unknown"; an MCP notification is not answered.                  *)
(***************************************************************************)
ReadLine(kind) ==
    /\ cur = Nothing
    /\ \E session \in Sessions : IsPrefix(Append(lines, kind), session)
    /\ lines' = Append(lines, kind)
    /\ IF kind \in {"malformed", "notification"}
       THEN /\ out' = IF kind = "malformed" THEN Append(out, Answer(Unknown, FALSE)) ELSE out
            /\ UNCHANGED cur
       ELSE /\ cur' = [id |-> Len(lines'), kind |-> kind]
            /\ UNCHANGED out
    /\ UNCHANGED <<modelVars, sink, watch, booting, up, config, agent, cliVars>>

Handling(kind) == cur.id # 0 /\ cur.kind = kind

Replies(ok) ==
    /\ cur' = Nothing
    /\ out' = Append(out, Answer(cur.id, ok))
    /\ UNCHANGED lines

(* Parameters that do not parse, and every other error before anything is done; what *)
(* MCP asks of the bridge itself has none.                                           *)
Refuse ==
    /\ cur # Nothing
    /\ sink = NoSink
    /\ cur.kind \notin {"add", "adding", "initialize", "listTools"}
    /\ Replies(FALSE)
    /\ UNCHANGED <<modelVars, sink, watch, booting, up, config, agent, cliVars>>

(* Requests that only look; settings.yml, which config.defaults writes, nothing reads here. *)
Answered(kind) ==
    /\ Handling(kind)
    /\ Replies(TRUE)
    /\ UNCHANGED <<modelVars, sink, watch, booting, up, config, agent, cliVars>>

Initialize == Answered("initialize")

ListTools == Answered("listTools")

ListAgents == Answered("listAgents")

ListConfigs == Answered("listConfigs")

CheckConfig == config /\ Answered("checkConfig")

SetDefaults == Answered("setDefaults")

ListModels == Answered("listModels")

ShowModel == repo /\ HasGguf(final) /\ Answered("showModel")

(* Every configured port is asked for /v1/monitor, for a second each. *)
ListServers == Answered("listServers")

List ==
    \/ Initialize \/ ListTools \/ ListAgents \/ ListConfigs \/ CheckConfig \/ SetDefaults
    \/ ListModels \/ ShowModel \/ ListServers

(***************************************************************************)
(* agent.run: while the run has the lock its emitter is the print and the  *)
(* event sink of the process, and dropping the guards takes it away.       *)
(***************************************************************************)
StartRun ==
    /\ Handling("run")
    /\ sink = NoSink
    /\ sink' = cur.id
    /\ out' = Append(out, Event(cur.id, "agent.run.start"))
    /\ UNCHANGED <<modelVars, lines, cur, watch, booting, up, config, agent, cliVars>>

AgentReports ==
    /\ sink # NoSink
    /\ out' = Sent(out, Event(sink, "agent_event"))
    /\ UNCHANGED <<modelVars, lines, cur, sink, watch, booting, up, config, agent, cliVars>>

(* A bug to check against: the result is sent before the last event. *)
EndRunAnswerFirst(ok) ==
    /\ sink # NoSink
    /\ sink' = NoSink
    /\ out' = Append(Append(out, Answer(cur.id, ok)), Event(cur.id, "agent.run.finish"))
    /\ cur' = Nothing
    /\ UNCHANGED <<modelVars, lines, watch, booting, up, config, agent, cliVars>>

(* An error leaves through `?`, without the finish event. *)
EndRun(ok) ==
    /\ sink # NoSink
    /\ sink' = NoSink
    /\ out' = Append(IF ok THEN Append(out, Event(cur.id, "agent.run.finish")) ELSE out,
                     Answer(cur.id, ok))
    /\ cur' = Nothing
    /\ UNCHANGED <<modelVars, lines, watch, booting, up, config, agent, cliVars>>

(***************************************************************************)
(* model.add: the listing may fail or lack a file; then the files one by   *)
(* one, with progress from the first byte to the last.                     *)
(***************************************************************************)
AddRefused ==
    /\ Handling("add")
    /\ ~ Busy(Bridge)
    /\ Replies(FALSE)
    /\ UNCHANGED <<modelVars, sink, watch, booting, up, config, agent, cliVars>>

StartAdd(files) ==
    /\ Handling("add")
    /\ Add(Bridge, files)
    /\ cur' = [cur EXCEPT !.kind = "adding"]
    /\ UNCHANGED <<lines, out, sink, watch, booting, up, config, agent, cliVars>>

Adding ==
    /\ Handling("adding")
    /\ Download(Bridge)
    /\ out' = IF job[Bridge].at = "receive" \/ job'[Bridge].at = "receive"
              THEN Sent(out, Event(cur.id, "progress")) ELSE out
    /\ UNCHANGED <<lines, cur, sink, watch, booting, up, config, agent, cliVars>>

EndAdd ==
    /\ Handling("adding")
    /\ ~ Busy(Bridge)
    /\ Replies(job[Bridge].at = "succeeded")
    /\ UNCHANGED <<modelVars, sink, watch, booting, up, config, agent, cliVars>>

(* model.remove *)
RemoveModel ==
    /\ \/ Handling("removeRepo") /\ DeleteRepo(Bridge)
       \/ Handling("removeFiles") /\ \E files \in SUBSET File : DeleteFiles(Bridge, files)
    /\ Replies(TRUE)
    /\ UNCHANGED <<sink, watch, booting, up, config, agent, cliVars>>

(***************************************************************************)
(* agent.install, and `hugind agent install`.  What a source gives: BOOLEAN*)
(* as a set of outcomes.  A local zip is unpacked into a temporary         *)
(* directory that is gone when its agent.yaml is read; a URL is fetched,   *)
(* and the zip it may name must hold one agent.                            *)
(***************************************************************************)
Source == {"folder", "zip", "installed", "url", "urlOfZip"}

LocalRoot(source) == {source = "folder" \/ agent = "whole"}

LocalZip == {FALSE}

Downloaded == BOOLEAN

DownloadedZip == BOOLEAN

Loads(source) ==
    CASE source \in {"folder", "installed"} -> LocalRoot(source)
      [] source = "zip" -> LocalZip
      [] source = "url" -> Downloaded
      [] source = "urlOfZip" -> DownloadedZip

(* The copy may break off; what it meets in the directory it writes over. *)
Copied == {"whole", IF agent = "whole" THEN "whole" ELSE "part"}

(* What is installed is removed before the source is copied, and a source  *)
(* that is the installed directory itself is gone with it.                 *)
Install(source, approved, overwrite) ==
    /\ Handling("install")
    /\ \E loads \in Loads(source) :
          \/ /\ loads /\ approved /\ (agent = "absent" \/ overwrite)
             /\ IF source = "installed" THEN agent' = "empty" ELSE agent' \in {"whole", "part"}
             /\ Replies(agent' # "part")
          \/ /\ ~ (loads /\ approved /\ (agent = "absent" \/ overwrite))
             /\ Replies(FALSE)
             /\ UNCHANGED agent
    /\ UNCHANGED <<modelVars, sink, watch, booting, up, config, cliVars>>

RemoveAgent ==
    /\ Handling("removeAgent")
    /\ agent # "absent"
    /\ agent' = "absent"
    /\ Replies(TRUE)
    /\ UNCHANGED <<modelVars, sink, watch, booting, up, config, cliVars>>

(* config.init, which an existing file stops unless it may be overwritten *)
InitConfig(overwrite) ==
    /\ Handling("initConfig")
    /\ config' = TRUE
    /\ Replies(~ config \/ overwrite)
    /\ UNCHANGED <<modelVars, sink, watch, booting, up, agent, cliVars>>

RemoveConfig(confirm) ==
    /\ Handling("removeConfig")
    /\ config' = (config /\ ~ confirm)
    /\ Replies(confirm)
    /\ UNCHANGED <<modelVars, sink, watch, booting, up, agent, cliVars>>

(***************************************************************************)
(* server.start spawns a process and a task that polls the port for five   *)
(* minutes; whether the configuration exists is the new process's concern. *)
(* server.stop kills what uses the port now, which a process that is still *)
(* loading does not, and has the port polled for fifteen seconds.          *)
(***************************************************************************)
StartServer ==
    /\ Handling("start")
    /\ booting < MaxBooting
    /\ booting' = booting + 1
    /\ watch' = watch \union {[id |-> cur.id, for |-> "up", found |-> FALSE]}
    /\ Replies(TRUE)
    /\ UNCHANGED <<modelVars, sink, up, config, agent, cliVars>>

KilledByPort == {FALSE, up}

StopServer ==
    /\ Handling("stop")
    /\ config
    /\ up' \in KilledByPort
    /\ watch' = watch \union {[id |-> cur.id, for |-> "down", found |-> up]}
    /\ Replies(TRUE)
    /\ UNCHANGED <<modelVars, sink, booting, config, agent, cliVars>>

(* A process that has loaded its model binds the port, or ends when it is taken. *)
ServerBinds ==
    /\ booting > 0
    /\ booting' = booting - 1
    /\ up' = TRUE
    /\ UNCHANGED <<modelVars, lines, cur, out, sink, watch, config, agent, cliVars>>

LoadFails ==
    /\ booting > 0
    /\ booting' = booting - 1
    /\ UNCHANGED <<modelVars, lines, cur, out, sink, watch, up, config, agent, cliVars>>

ServerEnds ==
    /\ up
    /\ up' = FALSE
    /\ UNCHANGED <<modelVars, lines, cur, out, sink, watch, booting, config, agent, cliVars>>

Reports(w, what) ==
    /\ watch' = watch \ {w}
    /\ out' = Append(out, Event(w.id, what))
    /\ UNCHANGED <<modelVars, lines, cur, sink, booting, up, config, agent, cliVars>>

(* A bug to check against: only what is waited for ends the polling. *)
WatchEndsWithoutDeadline(w) ==
    \/ w.for = "up" /\ up /\ Reports(w, "started")
    \/ w.for = "down" /\ ~ up /\ Reports(w, IF w.found THEN "stopped" ELSE "already_stopped")

WatchEnds(w) ==
    \/ w.for = "up" /\ up /\ Reports(w, "started")
    \/ w.for = "up" /\ ~ up /\ Reports(w, "start_timeout")
    \/ w.for = "down" /\ ~ up /\ Reports(w, IF w.found THEN "stopped" ELSE "already_stopped")
    \/ w.for = "down" /\ up /\ Reports(w, "stop_timeout")

(***************************************************************************)
(* The bridge is killed at any moment and the host starts it again; the    *)
(* server processes live on.                                               *)
(***************************************************************************)
BridgeDies ==
    /\ crashes < MaxCrashes
    /\ crashes' = crashes + 1
    /\ job' = [job EXCEPT ![Bridge] = Resting]
    /\ UNCHANGED <<checked, remote, repo, final, part, booting, up, config, agent, cliVars>>
    /\ Keeping(data)
    /\ lines' = <<>> /\ cur' = Nothing /\ out' = <<>> /\ sink' = NoSink /\ watch' = {}

(***************************************************************************)
(* The command line, beside the bridge: each command is a process of its   *)
(* own, and at most one of them installs an agent.                         *)
(***************************************************************************)
Command == commands < MaxCommands /\ commands' = commands + 1

CommandLine(p) ==
    /\ \/ /\ Command
          /\ \/ \E files \in Selection[p] : Add(p, files)
             \/ DeleteRepo(p)
             \/ \E files \in SUBSET File : DeleteFiles(p, files)
       \/ (Download(p) \/ Crash(p)) /\ UNCHANGED commands
    /\ UNCHANGED <<lines, cur, out, sink, watch, booting, up, config, agent, install>>

CliRunServer ==
    /\ Command
    /\ booting < MaxBooting
    /\ config
    /\ booting' = booting + 1
    /\ UNCHANGED <<modelVars, lines, cur, out, sink, watch, up, config, agent, install>>

(* The processes get a moment to end before they are killed. *)
CliStopServer ==
    /\ Command
    /\ config
    /\ up' \in KilledByPort
    /\ UNCHANGED <<modelVars, lines, cur, out, sink, watch, booting, config, agent, install>>

CliRemoveAgent ==
    /\ Command
    /\ agent # "absent"
    /\ agent' = "absent"
    /\ UNCHANGED <<modelVars, lines, cur, out, sink, watch, booting, up, config, install>>

(* The source is there and its permissions are granted: what is installed  *)
(* is looked for, ...                                                      *)
CliInstall(source) ==
    /\ install = "no"
    /\ Command
    /\ TRUE \in Loads(source)
    /\ install' = CASE agent = "absent" -> "copying"
                    [] agent # "absent" /\ source # "installed" -> "asking"
                    [] OTHER -> "itself"
    /\ UNCHANGED <<modelVars, lines, cur, out, sink, watch, booting, up, config, agent>>

(* ... removed when the user wants it overwritten (and somebody else may   *)
(* have removed it meanwhile, an error), ...                               *)
CliOverwrites ==
    /\ install \in {"asking", "itself"}
    /\ \/ install' = "no" /\ UNCHANGED agent
       \/ /\ agent # "absent"
          /\ IF install = "itself" THEN agent' = "empty" /\ install' = "no"
             ELSE agent' = "absent" /\ install' = "copying"
    /\ UNCHANGED <<modelVars, lines, cur, out, sink, watch, booting, up, config, commands>>

(* ... and copied. *)
CliCopies ==
    /\ install = "copying"
    /\ install' = "no"
    /\ agent' \in Copied
    /\ UNCHANGED <<modelVars, lines, cur, out, sink, watch, booting, up, config, commands>>

Cli ==
    \/ CliRunServer \/ CliStopServer
    \/ CliRemoveAgent \/ CliOverwrites \/ CliCopies
    \/ \E source \in Source : CliInstall(source)

Handle ==
    \/ Refuse
    \/ List
    \/ StartRun
    \/ \E ok \in BOOLEAN : EndRun(ok)
    \/ AddRefused
    \/ \E files \in Selection[Bridge] : StartAdd(files)
    \/ Adding
    \/ EndAdd
    \/ RemoveModel
    \/ \E source \in Source, approved, overwrite \in BOOLEAN :
          Install(source, approved, overwrite)
    \/ RemoveAgent
    \/ \E overwrite \in BOOLEAN : InitConfig(overwrite)
    \/ \E confirm \in BOOLEAN : RemoveConfig(confirm)
    \/ StartServer
    \/ StopServer

Next ==
    \/ \E kind \in Kind : ReadLine(kind)
    \/ Handle
    \/ AgentReports
    \/ \E w \in watch : WatchEnds(w)
    \/ ServerBinds
    \/ LoadFails
    \/ ServerEnds
    \/ BridgeDies
    \/ \E p \in Proc \ {Bridge} : CommandLine(p)
    \/ Cli
    \/ \E f \in File : Publish(f) /\ UNCHANGED bridgeVars

(* The polling tasks run as long as the bridge lives, and have deadlines.  *)
Spec == Init /\ [][Next]_vars
FairSpec == Spec /\ WF_vars(\E w \in watch : WatchEnds(w))

-----------------------------------------------------------------------------
Answers(id) == {i \in DOMAIN out : out[i].kind = "answer" /\ out[i].id = id}

(***************************************************************************)
(* Every request that was read and is no longer in hand has been answered, *)
(* once, under its own id; and answers come in the order of the requests.  *)
(***************************************************************************)
AnsweredInTurn ==
    /\ \A id \in 1 .. Len(lines) :
          Cardinality(Answers(id)) =
              IF id = cur.id \/ lines[id] \in {"malformed", "notification"} THEN 0 ELSE 1
    /\ \A i, j \in DOMAIN out :
          out[i].kind = "answer" /\ out[j].kind = "answer" /\ out[i].id # Unknown
              /\ out[j].id # Unknown /\ i < j => out[i].id < out[j].id

(***************************************************************************)
(* What a run or a download reports comes before the answer to it: a host  *)
(* that has the answer may forget the request.  The status of a server is  *)
(* the exception, it is reported by a task of its own.                     *)
(***************************************************************************)
EventsBeforeTheAnswer ==
    \A i, j \in DOMAIN out :
        (/\ out[i].kind = "answer"
         /\ out[j].kind = "event"
         /\ out[i].id = out[j].id
         /\ out[j].what \in {"agent.run.start", "agent_event", "agent.run.finish", "progress"})
            => j < i

(***************************************************************************)
(* Whoever asked for a server to start or to stop is told how that ended,  *)
(* whatever became of the process, if the bridge lives on.                 *)
(***************************************************************************)
Statuses == {"started", "start_timeout", "stopped", "already_stopped", "stop_timeout"}

Told(id) == \E i \in DOMAIN out : out[i].id = id /\ out[i].what \in Statuses

StatusFollows ==
    watch # {} ~>
        /\ watch = {}
        /\ \A id \in DOMAIN lines :
              lines[id] \in {"start", "stop"} /\ (\E i \in Answers(id) : out[i].what = "ok")
                  => Told(id)

=============================================================================
