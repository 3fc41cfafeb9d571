------------------------------- MODULE Render -------------------------------
(***************************************************************************)
(* What `?render` makes of a file that is about to be sent (src/serve/     *)
(* render.rs).                                                             *)
(*                                                                         *)
(* A file's content is a model value; Events gives its text as the events  *)
(* of the markdown parser: [tag |-> "text", text], [tag |-> "code", lang]  *)
(* (a code block begins) and [tag |-> "end"] (it ends).                    *)
(***************************************************************************)
EXTENDS Listing

CONSTANTS Content,       \* contents that files have
          Utf8,          \* those that are text
          Shebang,       \* those whose first line names a syntax
          Events,        \* the markdown events of each text
          Language,      \* language tokens the syntax set knows
          Hard,          \* lines on which the highlighter gives up
          Markdown,      \* names with a markdown extension
          Highlighted,   \* names whose extension the syntax set knows
          Mangled        \* names with an '&' that HTML takes for a reference

ASSUME ContentAssumption == /\ Shebang \subseteq Utf8 /\ Utf8 \subseteq Content
                            /\ DOMAIN Events = Utf8
                            /\ "/" \notin Markdown \cup Highlighted
                            /\ Mangled \subseteq Special

\* The parser's promise: blocks end, one before the next begins.
ASSUME EventsAssumption ==
  \A content \in Utf8 :
    LET events == Events[content] IN
    /\ events \in Seq(Range(events))
    /\ \E inside \in [0 .. Len(events) -> BOOLEAN] :
         /\ ~inside[0] /\ ~inside[Len(events)]
         /\ \A i \in 1 .. Len(events) :
              \/ events[i].tag = "code" /\ ~inside[i - 1] /\ inside[i]
              \/ events[i].tag = "end" /\ inside[i - 1] /\ ~inside[i]
              \/ events[i].tag = "text" /\ inside[i] = inside[i - 1]

NoBody == [kind |-> "none"]
NoContent == "no content"

\* What is put out for a line that got lost.
Gap == [tag |-> "gap"]

\* Mutant: `?render` without a value is not seen, as in a query library.
RequestedFormatNeedsValue(query) ==
  LET asked == {i \in Values(query, "render") : query[i][2] # ""} IN
  IF asked = {} THEN "none" ELSE IF query[Max(asked)][2] = "json" THEN "json" ELSE "html"

\* requested_format: the last `render` pair counts.
RequestedFormat(query) ==
  IF Values(query, "render") = {} THEN "none"
  ELSE IF query[Max(Values(query, "render"))][2] = "json" THEN "json" ELSE "html"

IsRenderable == Markdown \cup Highlighted

Text(source) ==
  FoldLeft(LAMBDA text, event : IF event.tag = "text" THEN Append(text, event) ELSE text,
           <<>>, source)

\* spans() drops the error of a line, and with it the line: the generator has put out
\* nothing of it by then.
Emitted(line) == IF line \in Hard THEN Gap ELSE line
Spans(source) == [i \in DOMAIN source |-> Emitted(source[i])]

\* A fenced block whose language is unknown is escaped, not highlighted.
HighlightFenced(lang, source) == IF lang \in Language THEN Spans(source) ELSE source

\* markdown_to_html: `code` is None or the source of the block that is open.
RewriteStep(done, event) ==
  CASE event.tag = "code" -> [done EXCEPT !.open = TRUE, !.lang = event.lang, !.code = <<>>]
    [] event.tag = "text" /\ done.open -> [done EXCEPT !.code = Append(@, event)]
    [] event.tag = "end" -> [done EXCEPT !.open = FALSE,
                               !.html = Append(@, HighlightFenced(done.lang, done.code))]
    [] OTHER -> [done EXCEPT !.html = Append(@, <<event>>)]

MarkdownToHtml(events) ==
  FoldLeft(RewriteStep, [open |-> FALSE, lang |-> "", code |-> <<>>, html |-> <<>>],
           events).html

Raw(content) == [kind |-> "raw", content |-> content]

\* raw_href: the last piece of the path, encoded (again, when it already was); '&' is
\* not in RAW_SEGMENT.
RawHref(path) ==
  IF Last(path) = Sep THEN <<>>
  ELSE << [Last(path) EXCEPT !.coded = IF @ > 0 \/ Last(path).name \in Special \ Mangled
                                       THEN @ + 1 ELSE @] >>

Page(path, html) == [kind |-> "page", raw |-> RawHref(path), html |-> html]

\* The name whose extension decides: the last of the path, if there is one.  It is
\* read off the path as it was requested, where encoding all of a name hides the
\* extension, and encoding what is special in it does not.
LastName(path) ==
  LET trimmed == TrimEnd(path) IN
  IF trimmed # <<>> /\ (Last(trimmed).coded = 0 \/ Last(trimmed).name \in Special)
  THEN {Last(trimmed).name} ELSE {}

\* highlight(): one block.
Highlight(content) == <<Spans(Text(Events[content]))>>

\* Mutant: an unrecognized text is not handed back.
RenderHtmlMissLost(path, content) ==
  IF content \notin Utf8 THEN Raw(content)
  ELSE IF LastName(path) \cap Markdown # {}
       THEN Page(path, MarkdownToHtml(Events[content]))
  ELSE IF LastName(path) \cap Highlighted # {} \/ content \in Shebang
       THEN Page(path, Highlight(content))
  ELSE NoBody

RenderHtml(path, content) ==
  IF content \notin Utf8 THEN Raw(content)
  ELSE IF LastName(path) \cap Markdown # {}
       THEN Page(path, MarkdownToHtml(Events[content]))
  ELSE IF LastName(path) \cap Highlighted # {} \/ content \in Shebang
       THEN Page(path, Highlight(content))
  ELSE Raw(content)

\* The text as it is: nothing is highlighted.
RenderJson(content) ==
  [kind |-> "json",
   html |-> IF content \in Utf8 THEN <<Text(Events[content])>> ELSE <<>>]

\* Mutant: the page keeps the validators of the file.
FinalizeKeepsValidators(answer, body) == [answer EXCEPT !.body = body]

\* finalize: the page has no validators of its own.
Finalize(answer, body) == [answer EXCEPT !.body = body, !.etag = NoContent]

\* What becomes of an answer whose body holds `content`: a page or JSON, or the
\* bytes put back with the headers they came with.
Rendered(answer, format, path, content) ==
  LET body == IF format = "json" THEN RenderJson(content) ELSE RenderHtml(path, content)
  IN IF body.kind = "raw" THEN [answer EXCEPT !.body = body] ELSE Finalize(answer, body)

\* The body could not be read to its end.
Unreadable(answer) == [answer EXCEPT !.status = 500, !.body = NoBody]
=============================================================================
