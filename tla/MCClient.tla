------------------------------ MODULE MCClient ------------------------------
(* A few command lines of the client, for TLC.                             *)
EXTENDS Client

\* trillium client get URL, at a terminal.
Get == [idempotent |-> TRUE, file |-> FALSE, body |-> FALSE, stdin |-> "terminal",
        sse |-> FALSE, dry_run |-> FALSE, tty |-> TRUE, always_log |-> FALSE,
        verbose |-> FALSE, quiet |-> FALSE, retry |-> 0, all_methods |-> FALSE, output |-> "no",
        timeout |-> TRUE]

Piped(line) == [line EXCEPT !.tty = FALSE]
Post(line) == [line EXCEPT !.idempotent = FALSE]
Retry(line) == [line EXCEPT !.retry = 2, !.always_log = TRUE]

MCCommand ==
  { [Get EXCEPT !.verbose = TRUE], Retry(Get),
    Piped(Retry(Get)), Piped(Post(Retry([Get EXCEPT !.body = TRUE]))),
    Piped(Post(Retry([Get EXCEPT !.body = TRUE, !.all_methods = TRUE]))),
    Piped(Retry([Get EXCEPT !.file = TRUE])),
    Piped(Retry([Get EXCEPT !.stdin = "pipe"])),
    Piped(Post([Get EXCEPT !.stdin = "pipe", !.timeout = FALSE])),
    Piped(Retry([Get EXCEPT !.sse = TRUE])),
    Piped([Get EXCEPT !.quiet = TRUE]), Piped([Get EXCEPT !.quiet = TRUE, !.sse = TRUE]),
    Piped(Post([Get EXCEPT !.quiet = TRUE, !.stdin = "unreadable", !.output = "named"])),
    Piped([Get EXCEPT !.output = "named", !.verbose = TRUE]),
    [Get EXCEPT !.output = "nameless"],
    Piped(Post([Get EXCEPT !.dry_run = TRUE, !.file = TRUE])),
    Post([Get EXCEPT !.dry_run = TRUE, !.file = TRUE, !.body = TRUE]),
    Post([Get EXCEPT !.dry_run = TRUE, !.stdin = "pipe"]) }

Reply(status, kind, parts, valid) ==
  [status |-> status, kind |-> kind, parts |-> parts, valid |-> valid]

MCAnswer ==
  { Reply(200, "other", <<"p1", "p2">>, FALSE), Reply(404, "other", <<"p1">>, FALSE),
    Reply(200, "json", <<"p1", "p2">>, TRUE), Reply(200, "json", <<>>, FALSE),
    Reply(503, "json", <<"p1">>, TRUE), Reply(200, "events", <<"e1", "e2">>, FALSE) }

MCFileBytes == <<"f1", "f2">>
MCArgBytes == <<"a1", "a2">>
MCStdinBytes == <<"s1", "s2", "s3">>
=============================================================================
