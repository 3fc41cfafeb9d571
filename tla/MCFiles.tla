------------------------------ MODULE MCFiles ------------------------------
(* Files on small directories, for TLC: with a directory with a space in   *)
(* its name and two names that differ in case only, or with one whose name *)
(* holds a character reference and a file on the assets' path.             *)
EXTENDS Files, TLC

MCSpelling == "b&gt" :> 4 @@ "css" :> 0 @@ "s p" :> 3 @@ "n.md" :> 1 @@ "N.md" :> 1 @@ "r s.rs" :> 2

MCPath == { <<>>, <<"s p">>, <<"n.md">>, <<"N.md">>, <<"s p", "r s.rs">>, <<"s p", "n.md">>,
            <<"b&gt">>, <<"b&gt", "n.md">>, <<"css">> }

Tree(dirs, files) ==
  [p \in MCPath |-> IF p \in dirs THEN Dir
                    ELSE IF p \in DOMAIN files THEN File(files[p]) ELSE Absent]

MCInitialTrees ==
  { Tree({<<>>, <<"s p">>}, <<"n.md">> :> "prose" @@ <<"N.md">> :> "data"
                            @@ <<"s p", "r s.rs">> :> "script" @@ <<"s p", "n.md">> :> "prose"),
    Tree({<<>>, <<"b&gt">>}, <<"b&gt", "n.md">> :> "prose" @@ <<"css">> :> "data") }

Words(text) == [tag |-> "text", text |-> text]

MCEvents ==
  "prose" :> << Words("a"), [tag |-> "code", lang |-> "rust"], Words("b"), Words("c"),
                [tag |-> "end"], [tag |-> "code", lang |-> "none"], Words("d"),
                [tag |-> "end"], Words("e") >>
  @@ "script" :> << Words("f"), Words("h") >>
  @@ "css" :> << Words("g") >>

\* A line of a highlighted block, and one of a code file.
MCHard == { Words("c"), Words("h") }

MCSize == "prose" :> 2 @@ "script" :> 1 @@ "data" :> 1 @@ "css" :> 3

Docs == <<Sep, Plain("docs")>>

MCConfigs ==
  { ServeConfig(TRUE, TRUE, FALSE, NoIndex),
    ServeConfig(TRUE, FALSE, TRUE, "n.md"),
    ServeConfig(FALSE, TRUE, TRUE, NoIndex),
    RouteConfig(Docs, <<"files with listing", "proxy">>, NoIndex),
    RouteConfig(Docs, <<"files">>, "n.md"),
    RouteConfig(<<>>, <<"files with listing">>, "n.md"),
    RouteConfig(Docs, <<"redirect">>, NoIndex) }

\* Encoded although it need not be.
Coded(name) == [name |-> name, coded |-> 1]

Dirs == { <<>>, <<Sep>>, <<Sep, Encode("s p")>>, <<Sep, Encode("s p"), Sep>>,
          <<Sep, Plain("s p")>>, <<Sep, Plain("b&gt")>>, <<Sep, Encode("b&gt")>> }

Documents == { <<Sep, Encode("s p"), Sep, Encode("r s.rs")>>,
            <<Sep, Encode("s p"), Sep, Coded("n.md")>>,
            <<Sep, Plain("css")>>, <<Sep, Coded("css")>> }

Sorted == << <<"sort", "date">>, <<"order", "desc">> >>
Html == << <<"render", "html">> >>
Json == << <<"render", "">>, <<"render", "json">> >>

MCTyped == {typed \in [text : UNION {{text, Docs \o text} : text \in Dirs}, query : {<<>>, Sorted}]
                     \cup [text : UNION {{text, Docs \o text} : text \in Documents}, query : {<<>>, Html, Json}]
                     : typed.text # <<>>}
=============================================================================
