---------------------------- MODULE MCWatchScope ----------------------------
(* A workspace of four members, one inside another and two that need each  *)
(* other, and a registry crate; seen from six command lines.               *)
EXTENDS WatchScope

MCPackage == {"app", "plugin", "lib", "tool", "serde"}

Dir == [app |-> <<"ws", "app">>, plugin |-> <<"ws", "app", "plugin">>, lib |-> <<"ws", "lib">>,
        tool |-> <<"ws", "tool">>, serde |-> <<"home", "serde">>]

Below(dir) == {SubSeq(dir, 1, n) : n \in 1 .. Len(dir)}

Under(id) == Below(Append(Dir[id], "src"))

\* `lib` tests itself with `app`; `serde` is patched to come with `tool`.
Deps == [app |-> {"lib", "serde"}, plugin |-> {"app"}, lib |-> {"app"},
         tool |-> {"serde"}, serde |-> {"tool"}]

Arg(flag, text, name) == [flag |-> flag, text |-> text, name |-> name]
Relative(path) == [relative |-> TRUE, path |-> path]

\* In the directory of `app`, whose generated sources are ignored.
Workspace ==
  [known |-> TRUE, members |-> MCPackage \ {"serde"},
   name |-> [id \in MCPackage |-> id], dir |-> Dir, deps |-> Deps,
   cwd |-> Dir.app, args |-> <<>>, example |-> FALSE,
   watch |-> {Relative(<<"..", "templates">>)}, ignore |-> {Relative(<<"..", "app", "src", "generated">>)},
   dirs |-> UNION {Under(id) : id \in MCPackage}
            \cup {<<"ws", "templates">>, <<"ws", "app", "examples">>,
                  <<"ws", "app", "src", "generated">>},
   later |-> {<<"ws", "dist">>}]

MCProjects ==
  { Workspace,
    [Workspace EXCEPT !.cwd = Dir.plugin, !.example = TRUE, !.later = {<<"ws", "templates">>}],
    [Workspace EXCEPT !.cwd = <<"ws">>, !.example = TRUE,
                      !.args = << Arg("other", "-q", ""), Arg("bare", "-p", ""),
                                  Arg("other", "app", ""), Arg("joined", "-ptool", "tool") >>],
    \* the templates come with the first build, and are ignored
    [Workspace EXCEPT !.dirs = @ \ {<<"ws", "templates">>}, !.later = {<<"ws", "templates">>},
                      !.watch = {Relative(<<"..">>)},
                      !.ignore = {Relative(<<"..", "templates">>)}],
    [Workspace EXCEPT !.members = {"tool"}, !.cwd = <<"ws", "tool">>],
    [Workspace EXCEPT !.known = FALSE] }

MCFiles == {Append(dir, "file") : dir \in Workspace.dirs \cup Workspace.later}
=============================================================================
