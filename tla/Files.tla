------------------------------- MODULE Files -------------------------------
(***************************************************************************)
(* Requests for files: the handlers that `serve` puts one after the other  *)
(* (src/serve.rs) or that a route of the gateway is built from (src/       *)
(* gateway/build.rs), a browser that follows the links of the pages it     *)
(* gets, and a directory that changes in the meantime.                     *)
(*                                                                         *)
(* A handler runs until one halts; then before_send runs, where Render     *)
(* replaces the body.  Handlers keep nothing between requests, so one      *)
(* request at a time shows all that the changing directory can do.         *)
(***************************************************************************)
EXTENDS Render

CONSTANTS Path,          \* paths below the root, as sequences of names
          InitialTrees,  \* what the directory holds at the start
          Size,          \* length of each content
          Css,           \* the stylesheet's segment, served by the assets handler
          CssContent,    \* and its content
          Configs,       \* configurations, built by ServeConfig and RouteConfig
          Typed,         \* paths and queries that are typed by hand
          MaxEdits       \* bound: changes of the directory

Own == "of the body itself"
Garbled == Plain("garbled")

ASSUME PathAssumption == /\ \A p \in Path : p = <<>> \/ Front(p) \in Path
                         /\ Size \in [Content -> Nat]
                         /\ CssContent \in Content
                         /\ {NoContent, Own} \cap Content = {} /\ NoContent # Own
                         /\ Css \notin Special \cup {"/"} /\ Garbled.name \notin Name

\* A mount ends with the segment before the wildcard; the renderable names are those
\* that the program knows.
ASSUME ConfigAssumption ==
  \A c \in Configs :
    /\ c.stack \in Seq(STRING)
    /\ c.mount \in Seq(Range(c.mount))
    /\ c.mount # <<>> => c.routed /\ Last(c.mount) # Sep
    /\ c.renderable \subseteq IsRenderable
    /\ c.renderable # {} => ~c.routed /\ \E i \in DOMAIN c.stack : c.stack[i] = "render"

\* A path starts with a separator.
ASSUME TypedAssumption ==
  \A typed \in Typed : /\ typed.text \in Seq(Range(typed.text))
                       /\ typed.text # <<>> /\ typed.text[1] = Sep

VARIABLES cfg,     \* how the server was started
          fs,      \* what is at each path
          edits,   \* how often that has changed
          conn,    \* the request under way
          shown    \* what the browser shows

vars == <<cfg, fs, edits, conn, shown>>

NoPath == <<"nowhere">>
NoIndex == "no index"

Absent == [is |-> "absent", content |-> NoContent, modified |-> 0]
Dir == [is |-> "dir", content |-> NoContent, modified |-> 0]
File(content) == [is |-> "file", content |-> content, modified |-> 0]
Nodes == {Absent, Dir} \cup {File(content) : content \in Content}

ASSUME TreeAssumption == /\ InitialTrees \subseteq [Path -> Nodes]
                         /\ MaxEdits \in Nat /\ NoPath \notin Path
-----------------------------------------------------------------------------
(* How the handlers are put together                                       *)

Only(condition, handler) == IF condition THEN <<handler>> ELSE <<>>

\* StaticCli::run, less the handlers that touch neither path nor body.
ServeConfig(render, listing, forward, index) ==
  [routed |-> FALSE, mount |-> <<>>, index |-> index,
   renderable |-> IF render THEN IsRenderable ELSE {},
   stack |-> Only(render \/ listing, "assets") \o Only(forward, "forward") \o <<"files">>
             \o Only(render, "render") \o Only(listing, "listing")]

\* push_directive, push_files.
Push(directive) ==
  CASE directive = "files" -> <<"files">>
    [] directive = "files with listing" -> <<"assets", "files", "listing">>
    [] OTHER -> <<directive>>

\* route_stack, for a route "<mount>/*".
RouteConfig(mount, directives, index) ==
  [routed |-> TRUE, mount |-> mount, index |-> index, renderable |-> {},
   stack |-> FlattenSeq([i \in DOMAIN directives |-> Push(directives[i])])]
-----------------------------------------------------------------------------
(* What a path stands for                                                  *)

Routed(text) == /\ IsPrefix(cfg.mount, text)
                /\ Len(text) > Len(cfg.mount) => text[Len(cfg.mount) + 1] = Sep

\* conn.path(): a router passes on what its wildcard captured, without slashes at
\* the ends; without a router it is the whole path.
PassedOn(text) ==
  IF cfg.routed THEN TrimStart(TrimEnd(SubSeq(text, Len(cfg.mount) + 1, Len(text))))
  ELSE text

Segments(text) ==
  FoldLeft(LAMBDA kept, piece : IF piece # Sep THEN Append(kept, piece) ELSE kept, <<>>, text)

\* Two segments with no separator between them are one, with another name.
Separated(text) == \A i \in DOMAIN text : i + 1 \in DOMAIN text =>
                     Sep \in {text[i], text[i + 1]}

\* The file handler decodes each segment once, however much of it is encoded.
Decodes(segment) == segment.coded \in {0, 1}

Names(text) ==
  LET segments == Segments(text)
  IN IF /\ Routed(text) /\ Separated(text)
        /\ \A i \in DOMAIN segments : Decodes(segments[i])
     THEN LET below == Segments(PassedOn(text))
          IN [i \in DOMAIN below |-> below[i].name]
     ELSE NoPath

\* What the assets handler answers itself; it decodes nothing.
IsAsset(text) == Routed(text) /\ TrimStart(PassedOn(text)) = <<Plain(Css)>>

At(names) == IF names \in Path THEN fs[names] ELSE Absent

Children(dir) == {name \in Name : At(Append(dir, name)).is # "absent"}

\* The file that answers for a directory, if an index is configured and there.
IndexOf(dir) == IF cfg.index # NoIndex /\ At(Append(dir, cfg.index)).is = "file"
                THEN {At(Append(dir, cfg.index)).content} ELSE {}
-----------------------------------------------------------------------------
(* What the browser can ask for next                                       *)

Link(text, query, via) == [text |-> text, query |-> query, via |-> via]

\* A page's links are written as they are, so the browser takes an '&' in them for a
\* character reference.
Read(href) ==
  [i \in DOMAIN href |-> IF href[i].coded = 0 /\ href[i].name \in Mangled THEN Garbled
                         ELSE href[i]]

UpToLastSep(text) == SubSeq(text, 1, Max({i \in DOMAIN text : text[i] = Sep}))

RowLinks(page) ==
  {Link(Read(page.rows[i].href), IF page.rows[i].renders THEN << <<"render", "">> >> ELSE <<>>,
        "row") : i \in DOMAIN page.rows}

ListingLinks(page) ==
  RowLinks(page)
  \cup {Link(shown.text, HeaderCell(key, page.sort), "header") :
          key \in {"name", "size", "modified"}}
  \cup {Link(Read(page.style), <<>>, "style")}
  \cup IF page.parent = NoLink THEN {} ELSE {Link(Read(page.parent), <<>>, "parent")}

\* An empty reference is the page itself, with its query.
RawLink(page) ==
  IF page.raw = <<>> THEN Link(shown.text, shown.query, "raw")
  ELSE Link(UpToLastSep(shown.text) \o Read(page.raw), <<>>, "raw")

Links == CASE shown.body.kind = "listing" -> ListingLinks(shown.body)
           [] shown.body.kind = "page" -> {RawLink(shown.body)}
           [] OTHER -> {}
-----------------------------------------------------------------------------
Idle == [stage |-> "idle"]
Blank == [text |-> <<>>, query |-> <<>>, via |-> "none", status |-> 0, body |-> NoBody,
          etag |-> NoContent, source |-> NoContent, resolved |-> NoPath]

Init == /\ cfg \in Configs
        /\ fs \in InitialTrees
        /\ edits = 0
        /\ conn = Idle
        /\ shown = Blank

\* The browser requests what a link names or what was typed: the whole of it, a
\* range, or only if it has changed.
Request(link, kind) ==
  /\ conn.stage = "idle"
  /\ conn' = [stage |-> "run", text |-> link.text, query |-> link.query,
              via |-> link.via, wants |-> kind, at |-> 1,
              status |-> 0, body |-> NoBody, etag |-> NoContent, source |-> NoContent,
              resolved |-> NoPath, todo |-> {}, entries |-> <<>>]
  /\ shown' = Blank
  /\ UNCHANGED <<cfg, fs, edits>>

\* Something in the directory is written, replaced or removed.
Edit(path, node) ==
  /\ edits < MaxEdits
  /\ path # <<>>
  /\ fs[Front(path)].is = "dir"
  /\ fs[path].is # node.is \/ fs[path].content # node.content
  /\ fs' = [p \in Path |-> IF p = path THEN [node EXCEPT !.modified = edits + 1]
                           ELSE IF IsStrictPrefix(path, p) THEN Absent ELSE fs[p]]
  /\ edits' = edits + 1
  /\ UNCHANGED <<cfg, conn, shown>>
-----------------------------------------------------------------------------
(* The handlers                                                            *)

Runs(handler) == /\ conn.stage = "run"
                 /\ conn.at <= Len(cfg.stack)
                 /\ cfg.stack[conn.at] = handler
                 /\ Routed(conn.text)

Pass == conn' = [conn EXCEPT !.at = @ + 1]

Halt(status, body, etag, source) ==
  conn' = [conn EXCEPT !.stage = "send", !.status = status, !.body = body,
                       !.etag = etag, !.source = source]

\* The router has no route for the path.
RunNoRoute == /\ conn.stage = "run"
              /\ ~Routed(conn.text)
              /\ conn' = [conn EXCEPT !.stage = "send"]
              /\ UNCHANGED <<cfg, fs, edits, shown>>

\* A hit halts, a miss falls through to the user's files.
RunAssets == /\ Runs("assets")
             /\ IF IsAsset(conn.text)
                THEN Halt(200, Raw(CssContent), CssContent, CssContent) ELSE Pass
             /\ UNCHANGED <<cfg, fs, edits, shown>>

\* `serve --forward`: the upstream is asked first, its 404 falls through.
RunForward == /\ Runs("forward")
              /\ \/ Pass
                 \/ \E content \in Utf8 : Halt(200, Raw(content), content, content)
              /\ UNCHANGED <<cfg, fs, edits, shown>>

\* A proxy route is terminal: its 404 is the answer too.
RunProxy == /\ Runs("proxy")
            /\ \/ Halt(404, NoBody, NoContent, NoContent)
               \/ \E content \in Utf8 : Halt(200, Raw(content), content, content)
            /\ UNCHANGED <<cfg, fs, edits, shown>>

RunRedirect == /\ Runs("redirect")
               /\ Halt(302, NoBody, NoContent, NoContent)
               /\ UNCHANGED <<cfg, fs, edits, shown>>

\* The file handler sends a file or a directory's index, or a part of it, or
\* nothing when the browser has it already.
SendFile(content) ==
  \/ conn.wants \in {"whole", "changed"} /\ Halt(200, Raw(content), content, content)
  \/ conn.wants = "range" /\ Halt(206, [kind |-> "part"], content, content)
  \/ conn.wants = "changed" /\ Halt(304, NoBody, content, content)

RunFiles ==
  /\ Runs("files")
  /\ LET names == Names(conn.text) IN
     CASE At(names).is = "file" -> SendFile(At(names).content)
       [] At(names).is = "dir" /\ IndexOf(names) # {} ->
            \E content \in IndexOf(names) : SendFile(content)
       [] At(names).is = "dir" /\ IndexOf(names) = {} ->
            conn' = [conn EXCEPT !.at = @ + 1, !.resolved = names]
       [] OTHER -> Pass
  /\ UNCHANGED <<cfg, fs, edits, shown>>

\* Render has no run of its own.
RunRender == /\ Runs("render")
             /\ Pass
             /\ UNCHANGED <<cfg, fs, edits, shown>>

\* DirectoryListing: nothing resolved, or a directory that can be opened or that
\* is gone by now.
RunListing ==
  /\ Runs("listing")
  /\ IF conn.resolved # NoPath /\ At(conn.resolved).is = "dir"
     THEN conn' = [conn EXCEPT !.stage = "list", !.at = @ + 1,
                               !.todo = Children(conn.resolved)]
     ELSE Pass
  /\ UNCHANGED <<cfg, fs, edits, shown>>

Stat(name, node) ==
  [name |-> name, is_dir |-> node.is = "dir",
   len |-> IF node.is = "file" THEN Size[node.content] ELSE None,
   modified |-> IF node.is = "absent" THEN None ELSE node.modified]

\* read_entries: the next entry, in whatever order read_dir has them.
ReadEntry(name) ==
  /\ conn.stage = "list"
  /\ name \in conn.todo
  /\ conn' = [conn EXCEPT !.todo = @ \ {name},
                          !.entries = Append(@, Stat(name, At(Append(conn.resolved, name))))]
  /\ UNCHANGED <<cfg, fs, edits, shown>>

\* The directory cannot be opened, or an entry not be read: there is no listing.
ReadFails ==
  /\ conn.stage = "list"
  /\ conn' = [conn EXCEPT !.stage = "run", !.todo = {}, !.entries = <<>>]
  /\ UNCHANGED <<cfg, fs, edits, shown>>

\* The listing of the entries as they were read.
List ==
  /\ conn.stage = "list"
  /\ conn.todo = {}
  /\ LET sort == FromQuery(conn.query)
         prefix == MountPrefix(conn.text, PassedOn(conn.text))
         page == ListingPage(conn.text, prefix, SortEntries(conn.entries, sort), sort,
                             cfg.renderable, <<Sep, Plain(Css)>>)
     IN Halt(200, page, NoContent, NoContent)
  /\ UNCHANGED <<cfg, fs, edits, shown>>

\* No handler halted.
RunOut == /\ conn.stage = "run"
          /\ conn.at > Len(cfg.stack)
          /\ conn' = [conn EXCEPT !.stage = "send"]
          /\ UNCHANGED <<cfg, fs, edits, shown>>

\* Render's before_send acts on a request that asks for it, was not for a
\* directory, and has a body of a whole file.
Renders == /\ \E i \in DOMAIN cfg.stack : cfg.stack[i] = "render"
           /\ RequestedFormat(conn.query) # "none"
           /\ conn.resolved = NoPath
           /\ conn.status = 200
           /\ conn.body # NoBody

RenderSends(answer) ==
  IF Renders THEN {Unreadable(answer),
                   Rendered(answer, RequestedFormat(conn.query), PassedOn(conn.text),
                            conn.body.content)}
  ELSE {answer}

\* Etag's before_send, after it: what the program wrote gets a validator of its own,
\* unless it has one.
Tagged(answer) ==
  IF answer.body.kind \in {"page", "json", "listing"} /\ answer.etag = NoContent
  THEN [answer EXCEPT !.etag = Own]
  ELSE answer

\* The browser may have what it asks for.
EtagSends(answer) ==
  IF \E i \in DOMAIN cfg.stack : cfg.stack[i] = "assets"
  THEN {Tagged(answer)}
       \cup IF conn.wants # "changed" \/ Tagged(answer).etag = NoContent THEN {}
            ELSE {[Tagged(answer) EXCEPT !.status = 304, !.body = NoBody]}
  ELSE {answer}

BeforeSend(answer) == UNION {EtagSends(rendered) : rendered \in RenderSends(answer)}

\* before_send, then the browser has its answer: 404 when nobody gave one.
Send ==
  /\ conn.stage = "send"
  /\ \E answer \in BeforeSend([status |-> IF conn.status = 0 THEN 404 ELSE conn.status,
                               body |-> conn.body, etag |-> conn.etag]) :
       shown' = [text |-> conn.text, query |-> conn.query, via |-> conn.via,
                 status |-> answer.status, body |-> answer.body, etag |-> answer.etag,
                 source |-> conn.source, resolved |-> conn.resolved]
  /\ conn' = Idle
  /\ UNCHANGED <<cfg, fs, edits>>

Wants == {"whole", "range", "changed"}

Next == \/ \E typed \in Typed, kind \in Wants :
             Request(Link(typed.text, typed.query, "typed"), kind)
        \/ \E link \in Links : Request(link, "whole")
        \/ \E path \in Path, node \in Nodes : Edit(path, node)
        \/ RunNoRoute \/ RunAssets \/ RunForward \/ RunProxy \/ RunRedirect
        \/ RunFiles \/ RunRender \/ RunListing
        \/ \E name \in Name : ReadEntry(name)
        \/ ReadFails \/ List \/ RunOut \/ Send

Spec == Init /\ [][Next]_vars
-----------------------------------------------------------------------------
(* Properties                                                              *)

Bodies == {"none", "raw", "part", "page", "json", "listing"}

\* Every variable has its type, and every request gets an answer with a status,
\* whatever handlers it passes.
TypeOK == /\ cfg \in Configs
          /\ fs \in [Path -> [is : {"absent", "dir", "file"},
                              content : Content \cup {NoContent}, modified : 0..MaxEdits]]
          /\ edits \in 0..MaxEdits
          /\ conn.stage \in {"idle", "run", "list", "send"}
          /\ conn.stage # "idle" => /\ conn.at \in 1..(Len(cfg.stack) + 1)
                                   /\ conn.resolved \in Path \cup {NoPath}
                                   /\ conn.todo \subseteq Name
                                   /\ conn.status \in {0, 200, 206, 302, 304, 404}
                                   /\ conn.body.kind \in Bodies
                                   /\ {conn.etag, conn.source} \subseteq Content \cup {NoContent}
          /\ shown = Blank \/ shown.status \in {200, 206, 302, 304, 404, 500}
          /\ shown.body.kind \in Bodies
          /\ shown.etag \in Content \cup {NoContent, Own}
          /\ shown.source \in Content \cup {NoContent}

\* No two separators in a row.
Single(text) == \A i \in DOMAIN text : i + 1 \in DOMAIN text =>
                  text[i] # Sep \/ text[i + 1] # Sep

\* The browser gets from the link to the path; only an entry with the assets' own
\* path has them in front of it.
LeadsTo(href, names) == /\ Names(Read(href)) = names
                        /\ IsAsset(Read(href)) => names = <<Css>>

\* Every link of a listing leads where it says, at whatever depth, under whatever
\* route, and however much of the page's own path was encoded when it was typed:
\* a row to its entry, the parent link to the directory above, which only the top
\* of what is mounted has not, and the stylesheet to the assets of the same route.
\* Two spellings of the page's path break its links and are left out: with doubled
\* slashes a browser takes a link for another host's, and an '&' that is not
\* encoded is read as a character reference.
LinksLead ==
  shown.body.kind = "listing" /\ Single(shown.text) /\ Read(shown.text) = shown.text =>
    /\ \A i \in DOMAIN shown.body.rows :
         LeadsTo(shown.body.rows[i].href,
                 Append(shown.resolved, shown.body.rows[i].entry.name))
    /\ IF shown.resolved = <<>> THEN shown.body.parent = NoLink
       ELSE /\ shown.body.parent # NoLink
            /\ LeadsTo(shown.body.parent, Front(shown.resolved))
    /\ IsAsset(Read(shown.body.style))

\* A click on the header of the column that is sorted by turns each group over
\* (but for names that differ in case only), a second one turns it back; the
\* directories stay in front.
ClickTurnsOver ==
  shown.body.kind = "listing" =>
    LET sort == shown.body.sort
        entries == [i \in DOMAIN shown.body.rows |-> shown.body.rows[i].entry]
        clicked == FromQuery(HeaderCell(sort.key, sort))
        turned == SortEntries(entries, clicked)
        PlaceIn(seq, entry) == CHOOSE i \in DOMAIN seq : seq[i] = entry
    IN /\ SortEntries(turned, FromQuery(HeaderCell(clicked.key, clicked))) = entries
       /\ \A i, j \in DOMAIN entries : i < j =>
            /\ entries[j].is_dir => entries[i].is_dir
            /\ /\ entries[i].is_dir = entries[j].is_dir
               /\ Spelling[entries[i].name] # Spelling[entries[j].name]
               => PlaceIn(turned, entries[j]) < PlaceIn(turned, entries[i])

\* A row that links to `?render` shows a page, whatever the file has become in
\* the meantime, as long as it is text: the listing (is_renderable) and the two
\* places that read the link (requested_format, render_html) agree.
RenderLinkRenders ==
  /\ shown.via = "row" /\ shown.query # <<>>
  /\ shown.status = 200 /\ shown.resolved = NoPath /\ shown.source \in Utf8
  => shown.body.kind = "page"

\* The text of a rendered body, in order.
TextOf(body) == FlattenSeq(body.html)

\* Line by line, with a gap for some of those that the highlighter gave up on.
Matches(put, text) ==
  /\ Len(put) = Len(text)
  /\ \A i \in DOMAIN text : put[i] = text[i] \/ (put[i] = Gap /\ text[i] \in Hard)

\* Whatever way an answer takes through the handlers, its body is that of the
\* file (or of the upstream's answer).  Put back or rendered as JSON it is whole;
\* a page has every line in its place, but for those that the highlighter gave
\* up on (whose errors spans() drops).
NothingLost ==
  shown.status = 200 /\ shown.source # NoContent =>
    CASE shown.body.kind = "page" -> Matches(TextOf(shown.body), Text(Events[shown.source]))
      [] shown.body.kind = "json" ->
           TextOf(shown.body) = IF shown.source \in Utf8 THEN Text(Events[shown.source])
                                ELSE <<>>
      [] OTHER -> shown.body = Raw(shown.source)

\* An answer with the validators of a file has the bytes of that file: a page
\* made of it has none, or its own.
ValidatorsFit == shown.status = 200 /\ shown.etag \in Content => shown.body = Raw(shown.etag)

\* src/serve/render.rs: the raw link "resolves against the current `.../name?render`
\* URL back to `.../name`, dropping the query".
RawLinkLeadsBack ==
  shown.body.kind = "page" => /\ Names(RawLink(shown.body).text) = Names(shown.text)
                              /\ RequestedFormat(RawLink(shown.body).query) = "none"
=============================================================================
