----------------------------- MODULE WatchScope -----------------------------
(***************************************************************************)
(* What the dev server watches (src/dev_server.rs, resolve_watch_dirs,     *)
(* workspace_crates, resolve_ignore_dirs and the start of watch_loop): the *)
(* sources of the crate that cargo builds and of the workspace members it  *)
(* depends on, less what --ignore names.                                   *)
(*                                                                         *)
(* A path is the sequence of its components; only arguments contain "..".  *)
(* A project is                                                            *)
(*   known     whether `cargo metadata` succeeds                           *)
(*   members   workspace_members                                           *)
(*   name, dir, deps   of each package; deps are the resolved ids          *)
(*   cwd, args the canonical working directory, the build arguments        *)
(*   example   whether an example is built                                 *)
(*   watch, ignore   the directories of --watch and --ignore               *)
(*   dirs      the directories there are when the dev server starts        *)
(*   later     those that builds create, such as a `dist`                  *)
(***************************************************************************)
EXTENDS Naturals, FiniteSets, Sequences, SequencesExt

CONSTANTS Package,   \* ids in the resolved dependency graph
          Projects,  \* workspaces, with the command line and the file system
          Files      \* files that may change

ASSUME ProjectAssumption ==
  \A p \in Projects : /\ p.members \subseteq Package
                      /\ DOMAIN p.deps = Package

\* Directories are canonical, never the root, and none is there without those
\* above it; files are below directories.
ASSUME DirAssumption ==
  /\ \A p \in Projects :
       /\ \A dir \in p.dirs \cup p.later :
            dir \in Seq(STRING) /\ dir # <<>> /\ \A i \in 1 .. Len(dir) : dir[i] # ".."
       /\ \A dir \in p.dirs : \A n \in 1 .. Len(dir) - 1 : SubSeq(dir, 1, n) \in p.dirs
  /\ \A file \in Files : file \in Seq(STRING) /\ file # <<>>

\* What --ignore names is neither the root nor one of the files: in the model only
\* directories can be there, or not yet.
ASSUME IgnoreAssumption ==
  \A p \in Projects :
    /\ p.cwd \in Seq(STRING)
    /\ \A dir \in p.ignore :
         /\ dir.path \in Seq(STRING)
         /\ (IF dir.relative THEN p.cwd \o dir.path ELSE dir.path) \notin Files \cup {<<>>}

VARIABLES project, pc, dirs,
          stack, closure,    \* of the walk through the dependency graph
          watched, ignores,  \* directories under watch; prefixes to ignore
          last               \* the latest change, <<>> before the first; did it trigger

walk == <<stack, closure>>
scope == <<watched, ignores>>
vars == <<project, pc, dirs, walk, scope, last>>

\* packages_from_args: what follows -p or --package, or is part of the argument.
Collected(seen, arg) ==
  IF seen.pending THEN [names |-> seen.names \cup {arg.text}, pending |-> FALSE]
  ELSE IF arg.flag = "bare" THEN [seen EXCEPT !.pending = TRUE]
  ELSE IF arg.flag = "joined" THEN [seen EXCEPT !.names = @ \cup {arg.name}]
  ELSE seen

PackagesFromArgs(args) ==
  FoldLeft(Collected, [names |-> {}, pending |-> FALSE], args).names

\* The members that contain the working directory.
Around == {id \in project.members : IsPrefix(project.dir[id], project.cwd)}

Selected == PackagesFromArgs(project.args)

\* The crates cargo will build: by name, or the only one, or the one the working
\* directory is in.
Seeds == IF Selected # {} THEN {id \in project.members : project.name[id] \in Selected}
         ELSE IF Cardinality(project.members) = 1 THEN project.members
         ELSE {id \in Around : \A other \in Around :
                 Len(project.dir[other]) <= Len(project.dir[id])}

\* canonicalize() of a path that exists.
Real(path) ==
  FoldLeft(LAMBDA real, step : IF step # ".." THEN Append(real, step)
                               ELSE IF real = <<>> THEN real ELSE Front(real),
           <<>>, path)

Exists(path, there) ==
  /\ Real(path) \in there
  /\ \A n \in 1 .. Len(path) - 1 : Real(SubSeq(path, 1, n)) \in there

Joined(dir) == IF dir.relative THEN project.cwd \o dir.path ELSE dir.path

Init == /\ project \in Projects
        /\ pc = "seeds"
        /\ dirs = project.dirs
        /\ stack = {} /\ closure = {}
        /\ watched = {} /\ ignores = {}
        /\ last = [file |-> <<>>, triggered |-> FALSE]
-----------------------------------------------------------------------------
(* The walk.  Its stack is a set here: in which order, and how often, an id is *)
(* taken from it does not matter to `closure_ids.insert`.                      *)

ChooseSeeds == /\ pc = "seeds"
               /\ stack' = IF project.known THEN Seeds ELSE {}
               /\ pc' = "walk"
               /\ UNCHANGED <<project, dirs, closure, scope, last>>

\* Mutant: only what the seeds depend on themselves.
DirectOnly(id) ==
  /\ closure' = closure \cup {id}
  /\ stack' = (stack \ {id}) \cup
              (IF id \in Seeds THEN project.deps[id] \cap project.members ELSE {})

\* Mutant: registry dependencies are followed like members.
Anywhere(id) == /\ closure' = closure \cup {id}
                /\ stack' = (stack \ {id}) \cup (project.deps[id] \ closure')

\* An id is taken from the stack; if it is new, its members follow.
Visit(id) == IF id \in closure \/ id \notin project.members
             THEN stack' = stack \ {id} /\ UNCHANGED closure
             ELSE /\ closure' = closure \cup {id}
                  /\ stack' = (stack \ {id}) \cup (project.deps[id] \cap project.members)

Walk == /\ pc = "walk"
        /\ \E id \in stack : Visit(id)
        /\ UNCHANGED <<project, pc, dirs, scope, last>>

Within(id, name) == Append(project.dir[id], name)

Crates == {id \in closure : Within(id, "src") \in dirs}

Examples == {id \in Seeds : project.known /\ project.example /\ Within(id, "examples") \in dirs}

\* resolve_watch_dirs
WatchDirs == {Within(id, "src") : id \in Crates} \cup {Within(id, "examples") : id \in Examples}
             \cup {Joined(dir) : dir \in project.watch}

\* Mutant: the paths as they were given.
Unresolved == {Joined(dir) : dir \in project.ignore}

\* resolve_ignore_dirs: canonical where there is such a path, else as joined.
IgnoreDirs == {IF Exists(Joined(dir), dirs) THEN Real(Joined(dir)) ELSE Joined(dir)
                 : dir \in project.ignore}

\* The directories are resolved.
Resolve == /\ pc = "walk" /\ stack = {}
           /\ watched' = WatchDirs
           /\ ignores' = IgnoreDirs
           /\ pc' = "watch"
           /\ UNCHANGED <<project, dirs, walk, last>>

\* watch_loop puts them under watch, those that exist.
StartWatching == /\ pc = "watch"
                 /\ watched' = {Real(dir) : dir \in {d \in watched : Exists(d, dirs)}}
                 /\ pc' = "loop"
                 /\ UNCHANGED <<project, dirs, walk, ignores, last>>

\* A build creates a directory, below those that are there.
Appear(dir) == /\ dir \in project.later \ dirs
               /\ \A n \in 1 .. Len(dir) - 1 : SubSeq(dir, 1, n) \in dirs
               /\ dirs' = dirs \cup {dir}
               /\ UNCHANGED <<project, pc, walk, scope, last>>

\* A file changes; record_changed drops what is below an ignored prefix.
Change(file) ==
  /\ pc = "loop"
  /\ Front(file) \in dirs
  /\ last' = [file |-> file,
              triggered |-> /\ \E dir \in watched : IsPrefix(dir, file)
                            /\ \A dir \in ignores : ~IsPrefix(dir, file)]
  /\ UNCHANGED <<project, pc, dirs, walk, scope>>

Startup == ChooseSeeds \/ Walk \/ Resolve \/ StartWatching

Next == \/ Startup
        \/ \E dir \in project.later : Appear(dir)
        \/ \E file \in Files : Change(file)

Spec == Init /\ [][Next]_vars
-----------------------------------------------------------------------------
(* Properties                                                              *)

TypeOK == /\ project \in Projects
          /\ pc \in {"seeds", "walk", "watch", "loop"}
          /\ stack \subseteq Package /\ closure \subseteq Package
          /\ pc = "loop" => watched \subseteq dirs
          /\ last \in [file : Files \cup {<<>>}, triggered : BOOLEAN]

\* What the walk is for, defined without it: the least set of members that has
\* the seeds in it and, with a crate, the members that crate depends on.
Closed(crates) == \A id \in crates : project.deps[id] \cap project.members \subseteq crates

Required == {id \in project.members :
               \A crates \in SUBSET project.members :
                 Seeds \subseteq crates /\ Closed(crates) => id \in crates}

\* "every workspace-local crate that one depends on": whatever order the walk
\* takes, also through cycles of dev-dependencies, it finds just those.
ScopeExact == pc \in {"watch", "loop"} => closure = IF project.known THEN Required ELSE {}

\* The directories whose files matter, and those that were named to be ignored.
Wanted == (IF ~project.known THEN {} ELSE
             {Within(id, "src") : id \in Required} \cup
             {Within(id, "examples") : id \in IF project.example THEN Seeds ELSE {}})
          \cup {Real(Joined(dir)) : dir \in {d \in project.watch : Exists(Joined(d), project.dirs)}}

IgnoredIn(there, file) ==
  \E dir \in project.ignore : /\ Exists(Joined(dir), there)
                              /\ IsPrefix(Real(Joined(dir)), file)

\* "editing a path-dependency library rebuilds": no change below a directory that
\* matters is missed, unless it is ignored.
EditsTrigger ==
  /\ \E dir \in Wanted \cap project.dirs : IsPrefix(dir, last.file)
  /\ ~IgnoredIn(dirs, last.file)
  => last.triggered

\* --ignore "matches a path and everything under it", however it is spelled, if the
\* path is there when the dev server starts.
IgnoredQuiet == last.triggered => ~IgnoredIn(project.dirs, last.file)

\* Where the walk is: nothing that is needed was left behind, nothing else is on
\* its way.
Walking ==
  /\ pc = "seeds" => stack = {} /\ closure = {}
  /\ pc = "walk" => IF project.known
                   THEN /\ Seeds \subseteq stack \cup closure
                        /\ \A id \in closure :
                             project.deps[id] \cap project.members \subseteq stack \cup closure
                        /\ stack \cup closure \subseteq Required
                   ELSE stack = {} /\ closure = {}

\* Directories only come; those to be ignored that were there are ignored.
Ignoring ==
  /\ project.dirs \subseteq dirs
  /\ pc \in {"watch", "loop"} =>
       \A dir \in project.ignore :
         Exists(Joined(dir), project.dirs) => Real(Joined(dir)) \in ignores
  /\ last.triggered => pc = "loop"

\* No directory is there without those above it.
Rooted ==
  /\ dirs \subseteq project.dirs \cup project.later
  /\ \A dir \in dirs : \A n \in 1 .. Len(dir) - 1 : SubSeq(dir, 1, n) \in dirs

\* What matters is about to be watched, under some spelling, then is watched; and
\* whatever is ignored was asked for.
Watching ==
  /\ pc = "watch" => \A dir \in Wanted \cap project.dirs :
                       \E path \in watched : Exists(path, dirs) /\ Real(path) = dir
  /\ pc = "loop" => Wanted \cap project.dirs \subseteq watched
  /\ pc \in {"watch", "loop"} =>
       \A path \in ignores : \E dir \in project.ignore :
         \/ path = Joined(dir)
         \/ path = Real(Joined(dir)) /\ Exists(Joined(dir), dirs)

\* The inductive invariant behind the properties above.
IInv == /\ TypeOK /\ Walking /\ ScopeExact /\ Ignoring /\ IgnoredQuiet
        /\ Rooted /\ Watching /\ EditsTrigger

\* The comment on resolve_ignore_dirs: "a path that doesn't exist yet falls back
\* to its joined form so it still matches once it appears".
IgnoredOnceItAppears == last.triggered => ~IgnoredIn(dirs, last.file)
=============================================================================
