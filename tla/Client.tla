------------------------------- MODULE Client -------------------------------
(***************************************************************************)
(* `trillium client` (src/client.rs): one request and what becomes of its  *)
(* answer, between whoever writes to its stdin, the server, and whoever    *)
(* reads its stdout.                                                       *)
(*                                                                         *)
(* The conn is trillium-client's and its retries are RetryHandler's: both  *)
(* are as the options' help describes them.  Redirects, TLS, DNS and the   *)
(* encoding of bodies are left out.                                        *)
(***************************************************************************)
EXTENDS Integers, Sequences, SequencesExt

CONSTANTS Command,     \* command lines
          Byte,        \* what bodies are made of
          FileBytes,   \* what --file names
          ArgBytes,    \* what --body gives
          StdinBytes,  \* what the writer of stdin has to say
          Part,        \* what answers' bodies are made of
          Answer       \* what the server may answer

ASSUME CommandAssumption ==
  /\ FileBytes \in Seq(Byte) /\ ArgBytes \in Seq(Byte) /\ StdinBytes \in Seq(Byte)
  /\ \A line \in Command : /\ line.retry \in Nat
                           /\ line.sse => line.output = "no"   \* conflicts_with

ASSUME AnswerAssumption == \A result \in Answer : result.parts \in Seq(Part)

VARIABLES cmd,     \* the options
          stdin,   \* what was written to it, how much of it is read, whether it is closed
          pc,      \* where run() is
          body,    \* the request's body: where from, and what is at hand of it
          sent,    \* for each attempt what the server got, and whether to its end
          spent,   \* the retry budget (--retry-max-time) ended the attempts
          answer,  \* head and parts of the last attempt's answer
          got,     \* how many parts of it have arrived
          closed,  \* whether its end has, after the last of them
          buffer,  \* parts that Unblock has not written to stdout yet
          reader,  \* "reads", or "gone": stdout is a pipe nobody reads
          broken,  \* whether Unblock's thread has failed
          stdout, stderr, saved,   \* what is printed, what is in the output file
          exit     \* "running", "ok", "failed" (-1) or "panic"

request == <<body, sent, spent>>
response == <<answer, got, closed>>
output == <<buffer, broken, stdout, stderr, saved>>
vars == <<cmd, stdin, pc, request, response, output, reader, exit>>

NoAnswer == [status |-> 0, kind |-> "none", parts |-> <<>>, valid |-> FALSE]

\* Log level Warn or above, -v.  By default it is Error, and -q turns logs off.
Verbose == cmd.verbose

Init == /\ cmd \in Command
        /\ stdin = [written |-> <<>>, read |-> 0, closed |-> FALSE]
        /\ pc = "build"
        /\ body = [from |-> "none", rest |-> <<>>]
        /\ sent = <<>> /\ spent = FALSE
        /\ answer = NoAnswer /\ got = 0 /\ closed = FALSE
        /\ buffer = <<>> /\ broken = FALSE
        /\ stdout = <<>> /\ stderr = <<>> /\ saved = <<>>
        /\ reader = "reads"
        /\ exit = "running"

End(how) == /\ exit' = how
            /\ pc' = "ended"
Goto(place) == /\ pc' = place
               /\ UNCHANGED exit
-----------------------------------------------------------------------------
(* The processes at both ends of the pipes                                 *)

WriteStdin == /\ cmd.stdin = "pipe" /\ ~stdin.closed
              /\ Len(stdin.written) < Len(StdinBytes)
              /\ stdin' = [stdin EXCEPT !.written = Append(@, StdinBytes[Len(@) + 1])]
              /\ UNCHANGED <<cmd, pc, request, response, output, reader, exit>>

CloseStdin == /\ cmd.stdin = "pipe" /\ ~stdin.closed
              /\ stdin' = [stdin EXCEPT !.closed = TRUE]
              /\ UNCHANGED <<cmd, pc, request, response, output, reader, exit>>

\* `| head` has seen enough.
ReaderGoes == /\ ~cmd.tty /\ reader = "reads"
              /\ reader' = "gone"
              /\ UNCHANGED <<cmd, stdin, pc, request, response, output, exit>>
-----------------------------------------------------------------------------
(* build                                                                   *)

\* Mutant: the logger prints inline also when stdout is piped.
LoggerInline == IF cmd.tty \/ cmd.always_log THEN "stdout" ELSE "none"

Logger == IF cmd.tty THEN "stdout" ELSE IF cmd.always_log THEN "stderr" ELSE "none"

\* Mutant: `--retry N` counts attempts.
MaxAttemptsIsRetry(retry) == retry

MaxAttempts(retry) == retry + 1

BuildFile == /\ pc = "build" /\ cmd.file
             /\ \/ body' = [from |-> "file", rest |-> FileBytes] /\ Goto("built")
                \/ UNCHANGED body /\ End("panic")   \* it cannot be read
             /\ UNCHANGED <<cmd, stdin, sent, spent, response, output, reader>>

BuildArg == /\ pc = "build" /\ ~cmd.file /\ cmd.body
            /\ body' = [from |-> "arg", rest |-> ArgBytes]
            /\ Goto("built")
            /\ UNCHANGED <<cmd, stdin, sent, spent, response, output, reader>>

\* Nobody is asked for a body; or the probe's read fails, which is ignored.
BuildNoBody == /\ pc = "build" /\ ~cmd.file /\ ~cmd.body
               /\ cmd.stdin \in {"terminal", "unreadable"}
               /\ Goto("built")
               /\ UNCHANGED <<cmd, stdin, request, response, output, reader>>

\* Mutant: the probed byte is not put in front of the rest.
BuildProbeLost ==
  /\ pc = "build" /\ ~cmd.file /\ ~cmd.body
  /\ cmd.stdin = "pipe" /\ (stdin.written # <<>> \/ stdin.closed)
  /\ IF stdin.written = <<>> THEN UNCHANGED <<stdin, body>>
     ELSE /\ stdin' = [stdin EXCEPT !.read = 1]
          /\ body' = [from |-> "stdin", rest |-> <<>>]
  /\ Goto("built")
  /\ UNCHANGED <<cmd, sent, spent, response, output, reader>>

\* The read of one byte blocks until something is written or stdin is closed.
BuildProbe ==
  /\ pc = "build" /\ ~cmd.file /\ ~cmd.body
  /\ cmd.stdin = "pipe" /\ (stdin.written # <<>> \/ stdin.closed)
  /\ IF stdin.written = <<>> THEN UNCHANGED <<stdin, body>>
     ELSE /\ stdin' = [stdin EXCEPT !.read = 1]
          /\ body' = [from |-> "stdin", rest |-> <<Head(stdin.written)>>]
  /\ Goto("built")
  /\ UNCHANGED <<cmd, sent, spent, response, output, reader>>

\* print_request: what it shows of the body.
ShownBody == IF cmd.body THEN "arg" ELSE IF cmd.file THEN "file" ELSE body.from

DryRun == /\ pc = "built" /\ cmd.dry_run
          /\ IF reader = "gone" THEN End("panic") /\ UNCHANGED stdout
             ELSE End("ok") /\ stdout' = <<"request", ShownBody>>
          /\ UNCHANGED <<cmd, stdin, request, response, buffer, broken, stderr, saved, reader>>
-----------------------------------------------------------------------------
(* The conn, with RetryHandler                                             *)

\* A body given as text can be sent again, a stream goes on where it is.
StartAttempt ==
  /\ pc = "built" /\ ~cmd.dry_run
  /\ sent' = Append(sent, [bytes |-> <<>>, whole |-> FALSE])
  /\ body' = IF body.from = "arg" THEN [body EXCEPT !.rest = ArgBytes] ELSE body
  /\ Goto("upload")
  /\ UNCHANGED <<cmd, stdin, spent, response, output, reader>>

Put(byte) == sent' = [sent EXCEPT ![Len(sent)].bytes = Append(@, byte)]

UploadChained == /\ pc = "upload" /\ body.rest # <<>>
                 /\ Put(Head(body.rest))
                 /\ body' = [body EXCEPT !.rest = Tail(@)]
                 /\ UNCHANGED <<cmd, stdin, pc, spent, response, output, reader, exit>>

UploadStdin == /\ pc = "upload" /\ body.rest = <<>> /\ body.from = "stdin"
               /\ stdin.read < Len(stdin.written)
               /\ Put(stdin.written[stdin.read + 1])
               /\ stdin' = [stdin EXCEPT !.read = @ + 1]
               /\ UNCHANGED <<cmd, pc, body, spent, response, output, reader, exit>>

UploadEnds == /\ pc = "upload" /\ body.rest = <<>>
              /\ body.from = "stdin" => stdin.closed /\ stdin.read = Len(stdin.written)
              /\ sent' = [sent EXCEPT ![Len(sent)].whole = TRUE]
              /\ Goto("wait")
              /\ UNCHANGED <<cmd, stdin, body, spent, response, output, reader>>

Retryable(status) == status \in {0, 429, 503}   \* 0: the transport failed

Eligible == /\ cmd.retry > 0
            /\ cmd.idempotent \/ cmd.all_methods
            /\ body.from \notin {"file", "stdin"}

\* The attempt is over, and logged: once more, or this is the outcome.
AttemptOver(result) ==
  LET again == Eligible /\ Retryable(result.status) /\ Len(sent) < MaxAttempts(cmd.retry) IN
  /\ pc \in {"upload", "wait"}
  /\ stdout' = IF Logger = "stdout" THEN Append(stdout, "log") ELSE stdout
  /\ stderr' = IF Logger = "stderr" THEN Append(stderr, "log") ELSE stderr
  /\ \/ again /\ pc' = "built" /\ UNCHANGED <<spent, answer>>
     \/ /\ pc' = "opened"
        /\ spent' = again
        /\ answer' = result
  /\ UNCHANGED <<cmd, stdin, body, sent, got, closed, buffer, broken, saved, reader, exit>>

ServerAnswers == \E result \in Answer : AttemptOver(result)
TransportFails == AttemptOver(NoAnswer)

\* Mutant: the default is taken for "no timeout".
TimeoutDropped == /\ ~cmd.timeout
                  /\ AttemptOver(NoAnswer)

\* --timeout, 10 s by default.
TimesOut == /\ cmd.timeout
            /\ AttemptOver(NoAnswer)
-----------------------------------------------------------------------------
(* run, from the response's head on                                        *)

\* log::error!, which -q filters out.
Report == stderr' = IF cmd.quiet THEN stderr ELSE Append(stderr, "error")

\* "could not reach", "protocol error", "could not open event stream".
OpenFails == /\ pc = "opened"
             /\ \/ answer = NoAnswer
                \/ cmd.sse /\ (answer.kind # "events" \/ answer.status # 200)
             /\ Report
             /\ End("ok")
             /\ UNCHANGED <<cmd, stdin, request, response, buffer, broken, stdout, saved, reader>>

OpenEvents == /\ pc = "opened" /\ cmd.sse
              /\ answer.kind = "events" /\ answer.status = 200
              /\ Goto("events")
              /\ UNCHANGED <<cmd, stdin, request, response, output, reader>>

\* The status line and, with -v, what belongs to it, at a terminal only.
PrintHead ==
  /\ pc = "opened" /\ ~cmd.sse /\ answer # NoAnswer
  /\ stdout' = IF ~cmd.tty THEN stdout
               ELSE stdout \o (IF answer.status # 200 \/ Verbose THEN <<"status">> ELSE <<>>)
                           \o (IF Verbose THEN <<"head">> ELSE <<>>)
  /\ Goto("output")
  /\ UNCHANGED <<cmd, stdin, request, response, buffer, broken, stderr, saved, reader>>

\* output_body.
ChooseOutput ==
  /\ pc = "output"
  /\ \/ cmd.output = "nameless" /\ stderr' = Append(stderr, "no filename") /\ End("failed")
     \/ cmd.output = "named" /\ UNCHANGED stderr /\ (Goto("copy") \/ End("panic"))
     \/ cmd.output = "no" /\ UNCHANGED stderr
        /\ Goto(IF answer.kind = "json" THEN "buffer" ELSE "copy")
  /\ UNCHANGED <<cmd, stdin, request, response, buffer, broken, stdout, saved, reader>>

Arrives == /\ got < Len(answer.parts)
           /\ got' = got + 1
           /\ UNCHANGED <<answer, closed>>

\* Parts or the end of the answer are still to come.
Awaiting == pc \in {"buffer", "copy", "events"} /\ ~closed

AnswerEnds == /\ Awaiting /\ got = Len(answer.parts)
              /\ closed' = TRUE
              /\ UNCHANGED <<cmd, stdin, pc, request, answer, got, output, reader, exit>>

AllArrived == closed /\ got = Len(answer.parts)

\* response_json: nothing is printed before all of it is there.
BufferPart == /\ pc = "buffer" /\ Arrives
              /\ UNCHANGED <<cmd, stdin, pc, request, output, reader, exit>>

BufferEnds == /\ pc = "buffer" /\ AllArrived
              /\ IF answer.valid /\ reader = "reads"
                 THEN Goto("trailers") /\ stdout' = Append(stdout, "json")
                 ELSE End("panic") /\ UNCHANGED stdout
              /\ UNCHANGED <<cmd, stdin, request, response, buffer, broken, stderr, saved, reader>>

CopyToFile == /\ pc = "copy" /\ cmd.output = "named" /\ Arrives
              /\ saved' = Append(saved, answer.parts[got'])
              /\ UNCHANGED <<cmd, stdin, pc, request, buffer, broken, stdout, stderr, reader, exit>>

\* copy() writes to Unblock, which says WriteZero once its thread has failed.
CopyToStdout == /\ pc = "copy" /\ cmd.output = "no" /\ Arrives
                /\ IF broken THEN End("ok") /\ UNCHANGED buffer
                   ELSE buffer' = Append(buffer, answer.parts[got']) /\ UNCHANGED <<pc, exit>>
                /\ UNCHANGED <<cmd, stdin, request, broken, stdout, stderr, saved, reader>>

\* Unblock's thread.
WriteOut == /\ buffer # <<>> /\ exit = "running"
            /\ IF reader = "gone"
               THEN broken' = TRUE /\ buffer' = <<>> /\ UNCHANGED stdout
               ELSE /\ stdout' = Append(stdout, Head(buffer))
                    /\ buffer' = Tail(buffer)
                    /\ UNCHANGED broken
            /\ UNCHANGED <<cmd, stdin, pc, request, response, stderr, saved, reader, exit>>

\* The flush at the end waits for the thread and reports its failure.
CopyEnds ==
  /\ pc = "copy" /\ AllArrived /\ buffer = <<>>
  /\ IF broken \/ (cmd.output = "named" /\ Verbose /\ reader = "gone")
     THEN End("panic") /\ UNCHANGED stdout
     ELSE /\ Goto("trailers")
          /\ stdout' = IF cmd.output = "named" /\ Verbose THEN Append(stdout, "wrote")
                       ELSE stdout
  /\ UNCHANGED <<cmd, stdin, request, response, buffer, broken, stderr, saved, reader>>

\* Mutant: whatever ends the copy is fine.
BodyBreaksQuietly ==
  /\ pc \in {"buffer", "copy"} /\ Awaiting
  /\ Goto("trailers")
  /\ UNCHANGED <<cmd, stdin, request, response, output, reader>>

\* The connection breaks before the body's end: unwrap.
BodyBreaks ==
  /\ pc \in {"buffer", "copy"} /\ Awaiting
  /\ End("panic")
  /\ UNCHANGED <<cmd, stdin, request, response, output, reader>>

Trailers == /\ pc = "trailers"
            /\ stdout' \in {stdout} \cup
                 (IF cmd.tty /\ Verbose THEN {Append(stdout, "trailers")} ELSE {})
            /\ End("ok")
            /\ UNCHANGED <<cmd, stdin, request, response, buffer, broken, stderr, saved, reader>>

\* stream_sse: each event is written and flushed; a reader that is gone ends it.
PrintEvent == /\ pc = "events" /\ Arrives
              /\ IF reader = "gone" THEN End("ok") /\ UNCHANGED stdout
                 ELSE stdout' = Append(stdout, answer.parts[got']) /\ UNCHANGED <<pc, exit>>
              /\ UNCHANGED <<cmd, stdin, request, buffer, broken, stderr, saved, reader>>

EventsEnd == /\ pc = "events" /\ AllArrived
             /\ End("ok")
             /\ UNCHANGED <<cmd, stdin, request, response, output, reader>>

EventsBreak == /\ pc = "events" /\ Awaiting
               /\ Report
               /\ End("ok")
               /\ UNCHANGED <<cmd, stdin, request, response, buffer, broken, stdout, saved, reader>>
-----------------------------------------------------------------------------
\* What the client does on its own.
ClientStep == \/ BuildFile \/ BuildArg \/ BuildNoBody \/ BuildProbe \/ DryRun
              \/ StartAttempt \/ UploadChained \/ UploadStdin \/ UploadEnds \/ TimesOut
              \/ OpenFails \/ OpenEvents \/ PrintHead \/ ChooseOutput
              \/ BufferEnds \/ WriteOut \/ CopyEnds \/ EventsEnd \/ Trailers

\* What it does when more of the answer, or its end, comes in.
AnswerStep == BufferPart \/ CopyToFile \/ CopyToStdout \/ PrintEvent \/ AnswerEnds

Next == \/ ClientStep \/ AnswerStep
        \/ ServerAnswers \/ TransportFails \/ BodyBreaks \/ EventsBreak
        \/ WriteStdin \/ CloseStdin \/ ReaderGoes

Spec == Init /\ [][Next]_vars

\* The client runs, its timer and the thread that writes too: the reader of stdout
\* reads on or goes.  Nothing is assumed of the server, before or after it begins
\* to answer, or of the writer of stdin.
Fairness == WF_vars(ClientStep) /\ WF_vars(WriteOut) /\ WF_vars(TimesOut)

FairSpec == Spec /\ Fairness
-----------------------------------------------------------------------------
(* Properties                                                              *)

\* The body that was given: -f, -b, or what has been written to stdin.
Given == IF cmd.file THEN FileBytes ELSE IF cmd.body THEN ArgBytes ELSE stdin.written

\* Every attempt carries the body that was given, from its first byte, the probed
\* one, on; if its upload ended, all of it, also when it is sent again.
BodyWhole == \A i \in DOMAIN sent :
               /\ IsPrefix(sent[i].bytes, Given)
               /\ sent[i].whole => sent[i].bytes = Given

\* src/client.rs:183-199: a request is only sent again when it may be, and then as
\* often as was asked for, unless the budget is spent or it got through.
RetriesAsAsked ==
  /\ Len(sent) > 1 => Eligible /\ Len(sent) <= cmd.retry + 1
  /\ pc = "opened" /\ Eligible /\ ~spent /\ Retryable(answer.status)
     => Len(sent) = cmd.retry + 1

\* What the user wants of an answer.
Wanted == IF answer.kind = "json" /\ ~cmd.sse THEN <<"json">> ELSE answer.parts

\* When stdout is piped it gets the last answer's body and nothing else: no log
\* line, status or trailer comes between, in whatever order attempts, events and
\* the thread that writes take their turns.
OutputClean == ~cmd.tty /\ ~cmd.dry_run /\ cmd.output = "no" => IsPrefix(stdout, Wanted)

\* Output that is not all of the answer never passes for it: the exit tells, or
\* stderr, or its reader has gone away on its own.  -q silences the errors of a
\* request and of an event stream: then nothing came out at all, or the beginning of
\* a stream, but never the beginning of a body.
OutputWhole ==
  exit = "ok" /\ ~cmd.dry_run /\ ~cmd.tty =>
    \/ reader = "gone"
    \/ "error" \in {stderr[i] : i \in DOMAIN stderr}
    \/ IF cmd.output = "no" THEN stdout = Wanted ELSE saved = answer.parts
    \/ cmd.quiet /\ (cmd.sse \/ (stdout = <<>> /\ saved = <<>>))

\* With a timeout the client ends, once its stdin, if it has to look at it, says
\* anything or is closed, however slow or silent the server is: unless that has begun
\* an answer and never ends it, which --timeout does not bound.
EndsInTime ==
  /\ cmd.timeout
  /\ cmd.stdin = "pipe" /\ ~cmd.file /\ ~cmd.body => <>(stdin.closed \/ stdin.written # <<>>)
  => <>(exit # "running") \/ <>[]Awaiting

\* docs/guide/client.md: --dry-run shows "exactly what would go over the wire —
\* method, URL, headers, and body".
DryRunShowsWhatIsSent == cmd.dry_run /\ exit = "ok" => Last(stdout) = body.from
=============================================================================
