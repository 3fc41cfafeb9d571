------------------------------ MODULE Listing ------------------------------
(***************************************************************************)
(* The page that DirectoryListing renders for a directory: its order, its  *)
(* links and the way back up (src/directory_listing.rs).                   *)
(*                                                                         *)
(* The text of a path is a sequence of separators and segments, so /d/f/   *)
(* is <<Sep, d, Sep, f, Sep>>.  A segment is [name, coded]: coded is how   *)
(* often the name was percent-encoded.  The listing encodes the names in   *)
(* Special only; in a path that is typed any name may be encoded, and one  *)
(* in Special may be left as it is.  Names are Unicode, and none is an     *)
(* encoding of another.  A query is a sequence of <<key, value>> pairs.    *)
(***************************************************************************)
EXTENDS Integers, Sequences, SequencesExt, FiniteSets

CONSTANTS Name,       \* names of files and directories
          Special,    \* those with a character of SEGMENT
          Spelling    \* rank of each name when the case of letters is ignored

ASSUME NameAssumption == /\ "/" \notin Name
                         /\ Special \subseteq Name
                         /\ Spelling \in [Name -> Nat]

\* The separator is a piece like any other, with a name that no file has.
Sep == [name |-> "/", coded |-> 0]
NoLink == <<>>

\* Option<u64> and Option<SystemTime>: None is before every value.
None == -1

Plain(name) == [name |-> name, coded |-> 0]
Encode(name) == [name |-> name, coded |-> IF name \in Special THEN 1 ELSE 0]

TrimEnd(text) == LET last == {i \in DOMAIN text : text[i] # Sep}
                 IN SubSeq(text, 1, Max(last \cup {0}))
TrimStart(text) == LET kept == {i \in DOMAIN text : text[i] # Sep}
                   IN SubSeq(text, Min(kept \cup {Len(text) + 1}), Len(text))

StripSuffix(text, suffix) ==
  IF IsSuffix(suffix, text) THEN SubSeq(text, 1, Len(text) - Len(suffix)) ELSE <<>>

\* Where the router's prefix ends: the whole path less the path it passed on.
MountPrefix(full, path) ==
  TrimEnd(StripSuffix(TrimEnd(full), TrimStart(TrimEnd(path))))
-----------------------------------------------------------------------------
(* The order of the rows                                                   *)

Values(query, key) == {i \in DOMAIN query : query[i][1] = key}
Value(query, key) == IF Values(query, key) = {} THEN "absent"
                     ELSE query[Min(Values(query, key))][2]

ParseKey(value) == CASE value = "size" -> "size"
                     [] value \in {"modified", "date"} -> "modified"
                     [] OTHER -> "name"
ParseOrder(value) == IF value = "desc" THEN "desc" ELSE "asc"
Flipped(order) == IF order = "asc" THEN "desc" ELSE "asc"

FromQuery(query) == [key |-> ParseKey(Value(query, "sort")),
                     order |-> ParseOrder(Value(query, "order"))]

\* The query that the header of column `key` links to.
HeaderCell(key, sort) ==
  << <<"sort", key>>,
     <<"order", IF sort.key = key THEN Flipped(sort.order) ELSE "asc">> >>

\* Orderings are negative, zero or positive, as in Ordering.
Then(first, second) == IF first # 0 THEN first ELSE second
Directed(order, ordering) == IF order = "desc" THEN -ordering ELSE ordering

Within(a, b, key) == CASE key = "name" -> 0
                       [] key = "size" -> a.len - b.len
                       [] key = "modified" -> a.modified - b.modified

\* Mutant: the order is not turned over for the name, the final tie break.
CompareNameAscending(a, b, sort) ==
  IF a.is_dir # b.is_dir THEN IF a.is_dir THEN -1 ELSE 1
  ELSE Then(Directed(sort.order, Within(a, b, sort.key)),
            Spelling[a.name] - Spelling[b.name])

Compare(a, b, sort) ==
  IF a.is_dir # b.is_dir THEN IF a.is_dir THEN -1 ELSE 1
  ELSE Then(Directed(sort.order, Within(a, b, sort.key)),
            Directed(sort.order, Spelling[a.name] - Spelling[b.name]))

\* sort_by is stable: rows that compare equal keep the order they were read in.
SortEntries(entries, sort) ==
  LET Before(i, j) == \/ Compare(entries[i], entries[j], sort) < 0
                      \/ Compare(entries[i], entries[j], sort) = 0 /\ i < j
      Place(i) == 1 + Cardinality({j \in DOMAIN entries : Before(j, i)})
  IN [k \in DOMAIN entries |-> entries[CHOOSE i \in DOMAIN entries : Place(i) = k]]
-----------------------------------------------------------------------------
(* The page                                                                *)

\* Mutant: the base is the path as it was requested.
BaseAsRequested(full) == full

Base(full) == IF Last(full) = Sep THEN full ELSE Append(full, Sep)

\* trimmed[..=idx], up to and with the last separator.
ParentPath(base) ==
  LET trimmed == TrimEnd(base)
      seps == {i \in DOMAIN trimmed : trimmed[i] = Sep}
  IN IF seps = {} THEN <<Sep>> ELSE SubSeq(trimmed, 1, Max(seps))

Row(base, entry, renderable) ==
  [entry |-> entry,
   href |-> base \o <<Encode(entry.name)>> \o (IF entry.is_dir THEN <<Sep>> ELSE <<>>),
   renders |-> ~entry.is_dir /\ entry.name \in renderable]

\* render(): full is the path of the request, renderable the names that get a
\* `?render` link, css the path of the stylesheet below the prefix.
ListingPage(full, prefix, entries, sort, renderable, css) ==
  LET base == Base(full) IN
  [kind |-> "listing",
   sort |-> sort,
   style |-> prefix \o css,
   parent |-> IF base # Append(prefix, Sep) THEN ParentPath(base) ELSE NoLink,
   rows |-> [i \in DOMAIN entries |-> Row(base, entries[i], renderable)]]
=============================================================================
