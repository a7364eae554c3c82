------------------------------- MODULE MCHost ------------------------------
EXTENDS Host

Agent == <<"agent">>
Inside(s) == Agent \o s

MCName == {"agent", "far", "d", "e", "f", "l", ".."}

MCPath ==
  { <<>>, Agent, <<"far">>, <<"far", "f">>,
    Inside(<<"d">>), Inside(<<"d", "f">>), Inside(<<"e">>), Inside(<<"e", "f">>), Inside(<<"l">>) }

\* A directory d with a file, an empty directory e or nothing there, and a link l that
\* leads to d or to the directory outside.
TreeWith(l, e) ==
  [p \in MCPath |->
     CASE p \in {<<>>, Agent, <<"far">>, Inside(<<"d">>)} -> Dir
       [] p = <<"far", "f">> -> File("outside")
       [] p = Inside(<<"d", "f">>) -> File("inside")
       [] p = Inside(<<"e">>) -> e
       [] p = Inside(<<"l">>) -> Link(l)
       [] OTHER -> Nothing]

\* In the place of e there is a link that has lost the file outside that it led to.
Cut == [TreeWith(Inside(<<"d">>), Link(<<"far", "f">>)) EXCEPT ![<<"far", "f">>] = Nothing]

MCTrees == {TreeWith(Inside(<<"d">>), Nothing), TreeWith(<<"far">>, Dir)}

Rel(s) == [abs |-> FALSE, path |-> s]
Abs(s) == [abs |-> TRUE, path |-> s]

MCArg ==
  { Rel(<<"d">>), Rel(<<"d", "f">>), Rel(<<"e">>), Rel(<<"e", "f">>), Rel(<<"l", "f">>),
    Rel(<<"..", "far", "f">>), Abs(<<"far", "f">>) }

AllOps == {"read", "write", "create", "delete"}

Perm(ops, follow, allowed, denied) ==
  [allow |-> TRUE, ops |-> ops, follow |-> follow, outside |-> FALSE, allowed |-> allowed, denied |-> denied]

\* Every permission with and without links followed; each one withdrawn; a directory
\* allowed and another denied; only a directory allowed that is not there; and everything
\* outside allowed, or nothing at all.
MCPerms ==
  {Perm(AllOps, follow, {}, {}) : follow \in BOOLEAN}
  \cup {Perm(AllOps \ {op}, TRUE, {}, {}) : op \in AllOps \ {"read"}}
  \cup {Perm(AllOps, TRUE, {Inside(<<"d">>), Inside(<<"e">>)}, {Inside(<<"d", "f">>)}),
        Perm(AllOps, TRUE, {Inside(<<"e", "f">>)}, {})}
  \cup {[Perm(AllOps, TRUE, {}, {}) EXCEPT !.outside = TRUE, !.allow = a] : a \in BOOLEAN}

\* An open name that is public or private by turns, one that is private, a private
\* address, and a target that is not of http.
MCSite ==
  {[name |-> "open", http |-> TRUE, literal |-> FALSE, addrs |-> {"public", "private"}],
   [name |-> "closed", http |-> TRUE, literal |-> FALSE, addrs |-> {"private"}],
   [name |-> "closed", http |-> TRUE, literal |-> TRUE, addrs |-> {"private"}],
   [name |-> "open", http |-> FALSE, literal |-> FALSE, addrs |-> {"public"}]}

\* Two lines of text, and one that is not followed by a newline; a piece of the text may
\* be garbled.
MCBodies ==
  { <<"data", "one", Newline, "data", "two", Newline>>, <<"event", Newline, "data", "one">> }

MCData == {<<"data", "one">>, <<"data", "two">>, <<"data", Garbled, Garbled>>}

MCProgram == {"ls", "rm", "cc"}

Defaults ==
  [host |-> "wasm", calls |-> {}, perm |-> Perm({}, FALSE, {}, {}), mode |-> "wasi_mounts",
   tree |-> TreeWith(<<"far">>, Dir), net |-> [allow |-> FALSE, sites |-> {}, block |-> FALSE],
   shell |-> [allow |-> FALSE, only |-> MCProgram, never |-> {}, timeout |-> FALSE], timeout |-> FALSE]

\* Agents that differ in what they do: files; fetches; commands; streamed chats.
FileAgents ==
  {[Defaults EXCEPT !.calls = {"fs"}, !.perm = p, !.tree = t, !.mode = "both"] :
     p \in MCPerms, t \in MCTrees}
  \cup {[Defaults EXCEPT !.calls = {"fs"}, !.perm = Perm(AllOps, TRUE, {}, {}), !.tree = Cut, !.mode = "both"],
        [Defaults EXCEPT !.calls = {"fs"}, !.perm = Perm(AllOps, TRUE, {}, {})]}

FetchAgents ==
  {[Defaults EXCEPT !.host = h, !.calls = {"fetch"}, !.net = n] :
     h \in {"js", "wasm"}, n \in [allow : {TRUE}, sites : {{}, {"open"}}, block : BOOLEAN] \cup {Defaults.net}}

ShellAgents ==
  {[Defaults EXCEPT !.host = h, !.calls = {"process", "result"}, !.shell = s, !.timeout = t] :
     h \in {"js", "wasm"}, t \in BOOLEAN,
     s \in [allow : BOOLEAN, only : {{"ls", "rm"}}, never : {{"rm"}}, timeout : BOOLEAN]}

StreamAgents(hosts) == {[Defaults EXCEPT !.host = h, !.calls = {"stream", "result"}] : h \in hosts}

ConsultingAgents ==
  {[Defaults EXCEPT !.host = h, !.calls = {"result", "process"} \cup Consultation, !.timeout = t,
                    !.shell = [allow |-> TRUE, only |-> {"ls"}, never |-> {}, timeout |-> FALSE]] :
     h \in {"js", "wasm"}, t \in BOOLEAN}

MCAgents == ConsultingAgents \cup FileAgents \cup FetchAgents \cup ShellAgents \cup StreamAgents({"js", "wasm"})
=============================================================================
