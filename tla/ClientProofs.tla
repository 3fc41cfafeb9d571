---------------------------- MODULE ClientProofs ----------------------------
(***************************************************************************)
(* Proofs that requests are sent again only when they may be, and as often *)
(* as was asked for, for every number of retries; and that every attempt   *)
(* carries the body that was given, for bodies of any length; and that     *)
(* what is piped on is the answer, all of it when the client says so.      *)
(***************************************************************************)
EXTENDS Client, SequenceTheorems, TLAPS

Attempt == [bytes : Seq(Byte), whole : BOOLEAN]

RequestType ==
  /\ cmd \in Command
  /\ stdin \in [written : Seq(Byte), read : Nat, closed : BOOLEAN]
  /\ body \in [from : {"none", "file", "arg", "stdin"}, rest : Seq(Byte)]
  /\ sent \in Seq(Attempt)

\* Before the request is built there are no attempts, and an attempt that another
\* one follows left room for it.
Room == /\ pc = "build" => Len(sent) = 0
        /\ pc = "built" /\ Len(sent) > 0 => Eligible /\ Len(sent) <= cmd.retry
        /\ pc = "upload" => Len(sent) > 0

IInv == RequestType /\ Room /\ RetriesAsAsked

\* The variables the invariant is about.
about == <<cmd, stdin, body, sent, spent, answer>>

LEMMA RetryIsNat == ASSUME RequestType PROVE cmd.retry \in Nat
BY CommandAssumption DEF RequestType

\* A step that leaves all of it alone and begins nothing anew.
LEMMA ElsewhereKeeps ==
  ASSUME IInv, UNCHANGED about, pc' \in {pc, "wait", "ended"} \/ (pc' # "build" /\
         pc' # "built" /\ pc' # "upload" /\ pc' # "opened")
  PROVE  IInv'
BY DEF IInv, RequestType, Room, RetriesAsAsked, Eligible, about

LEMMA InitHolds == Init => IInv
BY DEF Init, IInv, RequestType, Room, RetriesAsAsked, Attempt, Eligible

LEMMA BuildKeeps ==
  ASSUME IInv, BuildFile \/ BuildArg \/ BuildNoBody \/ BuildProbe
  PROVE  IInv'
<1>1. /\ pc = "build" /\ pc' \in {"built", "ended"}
      /\ UNCHANGED <<cmd, sent, spent, answer>>
  BY DEF BuildFile, BuildArg, BuildNoBody, BuildProbe, Goto, End, request, response
<1>2. RequestType'
  <2>1. CASE BuildFile
    BY <2>1, CommandAssumption DEF BuildFile, IInv, RequestType
  <2>2. CASE BuildArg
    BY <2>2, CommandAssumption DEF BuildArg, IInv, RequestType
  <2>3. CASE BuildNoBody
    BY <2>3 DEF BuildNoBody, IInv, RequestType, request
  <2>4. CASE BuildProbe
    <3>1. CASE stdin.written = <<>>
      BY <2>4, <3>1 DEF BuildProbe, IInv, RequestType
    <3>2. CASE stdin.written # <<>>
      <4>1. Head(stdin.written) \in Byte
        BY <3>2 DEF IInv, RequestType
      <4>2. /\ stdin' = [stdin EXCEPT !.read = 1]
            /\ body' = [from |-> "stdin", rest |-> <<Head(stdin.written)>>]
            /\ UNCHANGED <<cmd, sent>>
        BY <2>4, <3>2 DEF BuildProbe
      <4>3. PICK byte \in Byte : body' = [from |-> "stdin", rest |-> <<byte>>]
        BY <4>1, <4>2
      <4> QED
        BY <4>2, <4>3 DEF IInv, RequestType
    <3> QED
      BY <3>1, <3>2
  <2> QED
    BY <2>1, <2>2, <2>3, <2>4
<1> QED
  BY <1>1, <1>2 DEF IInv, Room, RetriesAsAsked

LEMMA StartKeeps ==
  ASSUME IInv, StartAttempt
  PROVE  IInv'
<1>1. /\ pc = "built" /\ pc' = "upload"
      /\ UNCHANGED <<cmd, stdin, spent, answer>>
      /\ sent' = Append(sent, [bytes |-> <<>>, whole |-> FALSE])
  BY DEF StartAttempt, Goto, response
<1>2. body' \in [from : {"none", "file", "arg", "stdin"}, rest : Seq(Byte)]
      /\ body'.from = body.from
  BY CommandAssumption DEF StartAttempt, IInv, RequestType
<1>3. sent' \in Seq(Attempt) /\ Len(sent') = Len(sent) + 1
  BY <1>1 DEF IInv, RequestType, Attempt
<1>4. RequestType'
  BY <1>1, <1>2, <1>3 DEF IInv, RequestType
<1>5. Eligible' = Eligible
  BY <1>1, <1>2 DEF Eligible
<1>6. Len(sent) \in Nat /\ cmd.retry \in Nat
  BY RetryIsNat DEF IInv, RequestType
<1> QED
  BY <1>1, <1>3, <1>4, <1>5, <1>6 DEF IInv, Room, RetriesAsAsked

\* What becomes of the attempt that is under way, the last one.
LEMMA LastAttempt ==
  ASSUME sent \in Seq(Attempt), Len(sent) > 0, NEW attempt \in Attempt,
         sent' = [sent EXCEPT ![Len(sent)] = attempt]
  PROVE  sent' \in Seq(Attempt) /\ Len(sent') = Len(sent)
<1>1. Len(sent) \in 1..Len(sent)
  OBVIOUS
<1> QED
  BY <1>1, ExceptSeq

LEMMA PutKeeps ==
  ASSUME sent \in Seq(Attempt), Len(sent) > 0, NEW byte \in Byte, Put(byte)
  PROVE  sent' \in Seq(Attempt) /\ Len(sent') = Len(sent)
<1> DEFINE last == sent[Len(sent)]
           attempt == [last EXCEPT !.bytes = Append(@, byte)]
<1>1. last \in Attempt
  OBVIOUS
<1>2. attempt \in Attempt
  <2>1. Append(last.bytes, byte) \in Seq(Byte)
    BY <1>1 DEF Attempt
  <2>2. PICK bytes \in Seq(Byte) : attempt = [last EXCEPT !.bytes = bytes]
    BY <2>1
  <2> QED
    BY <1>1, <2>2 DEF Attempt
<1>3. sent' = [sent EXCEPT ![Len(sent)] = attempt]
  BY DEF Put
<1> QED
  BY <1>2, <1>3, LastAttempt

LEMMA UploadKeeps ==
  ASSUME IInv, UploadChained \/ UploadStdin \/ UploadEnds
  PROVE  IInv'
<1>1. /\ pc = "upload" /\ pc' \in {"upload", "wait"}
      /\ UNCHANGED <<cmd, spent, answer>>
  BY DEF UploadChained, UploadStdin, UploadEnds, Goto, response
<1>2. sent \in Seq(Attempt) /\ Len(sent) > 0
  BY <1>1 DEF IInv, Room, RequestType
<1>3. RequestType' /\ body'.from = body.from /\ Len(sent') = Len(sent)
  <2>1. CASE UploadChained
    <3>1. Head(body.rest) \in Byte /\ Tail(body.rest) \in Seq(Byte)
      BY <2>1 DEF UploadChained, IInv, RequestType
    <3> QED
      BY <1>2, <2>1, <3>1, PutKeeps DEF UploadChained, IInv, RequestType
  <2>2. CASE UploadStdin
    <3>1. stdin.written[stdin.read + 1] \in Byte
      BY <2>2 DEF UploadStdin, IInv, RequestType
    <3>2. sent' \in Seq(Attempt) /\ Len(sent') = Len(sent)
      BY <1>2, <2>2, <3>1, PutKeeps DEF UploadStdin
    <3>3. stdin' \in [written : Seq(Byte), read : Nat, closed : BOOLEAN]
      BY <2>2 DEF UploadStdin, IInv, RequestType
    <3> QED
      BY <2>2, <3>2, <3>3 DEF UploadStdin, IInv, RequestType
  <2>3. CASE UploadEnds
    <3> DEFINE last == sent[Len(sent)]
               attempt == [last EXCEPT !.whole = TRUE]
    <3>1. last \in Attempt
      BY <1>2
    <3>2. attempt \in Attempt
      BY <3>1 DEF Attempt
    <3>3. sent' = [sent EXCEPT ![Len(sent)] = attempt]
      BY <2>3 DEF UploadEnds
    <3> QED
      BY <1>2, <2>3, <3>2, <3>3, LastAttempt DEF UploadEnds, IInv, RequestType
  <2> QED
    BY <2>1, <2>2, <2>3
<1>4. Eligible' = Eligible
  BY <1>1, <1>3 DEF Eligible
<1> QED
  BY <1>1, <1>3, <1>4 DEF IInv, Room, RetriesAsAsked

LEMMA AttemptKeeps ==
  ASSUME IInv, NEW result, AttemptOver(result)
  PROVE  IInv'
<1>1. UNCHANGED <<cmd, stdin, body, sent>>
  BY DEF AttemptOver
<1>2. Len(sent) \in Nat /\ cmd.retry \in Nat
  BY RetryIsNat DEF IInv, RequestType
<1>3. Eligible' = Eligible
  BY <1>1 DEF Eligible
<1> DEFINE again == Eligible /\ Retryable(result.status) /\ Len(sent) < MaxAttempts(cmd.retry)
<1>4. CASE again /\ pc' = "built" /\ UNCHANGED <<spent, answer>>
  BY <1>1, <1>2, <1>3, <1>4 DEF IInv, RequestType, Room, RetriesAsAsked, MaxAttempts
<1>5. CASE pc' = "opened" /\ spent' = again /\ answer' = result
  <2>1. ASSUME Eligible, ~spent', Retryable(answer'.status)
        PROVE  Len(sent) = cmd.retry + 1
    <3>1. ~(Len(sent) < cmd.retry + 1)
      BY <1>5, <2>1 DEF MaxAttempts
    <3>2. Len(sent) <= cmd.retry + 1
      BY <1>2 DEF IInv, RetriesAsAsked
    <3> QED
      BY <1>2, <3>1, <3>2
  <2> HIDE DEF again
  <2> QED
    BY <1>1, <1>2, <1>3, <1>5, <2>1 DEF IInv, RequestType, Room, RetriesAsAsked
<1> QED
  BY <1>4, <1>5 DEF AttemptOver

LEMMA StepKeeps == IInv /\ [Next]_vars => IInv'
<1> SUFFICES ASSUME IInv, [Next]_vars
             PROVE  IInv'
  OBVIOUS
<1> USE DEF about, request, response, output, Goto, End
<1>1. CASE BuildFile \/ BuildArg \/ BuildNoBody \/ BuildProbe
  BY <1>1, BuildKeeps
<1>2. CASE StartAttempt
  BY <1>2, StartKeeps
<1>3. CASE UploadChained \/ UploadStdin \/ UploadEnds
  BY <1>3, UploadKeeps
<1>4. CASE TimesOut \/ TransportFails \/ ServerAnswers
  BY <1>4, AttemptKeeps DEF TimesOut, TransportFails, ServerAnswers
<1>5. CASE DryRun \/ OpenFails \/ OpenEvents \/ PrintHead \/ ChooseOutput
  BY <1>5, ElsewhereKeeps DEF DryRun, OpenFails, OpenEvents, PrintHead, ChooseOutput
<1>10. CASE BufferEnds \/ WriteOut \/ CopyEnds \/ EventsEnd \/ Trailers
  BY <1>10, ElsewhereKeeps DEF BufferEnds, WriteOut, CopyEnds, EventsEnd, Trailers
<1>6. CASE AnswerStep
  BY <1>6, ElsewhereKeeps DEF AnswerStep, BufferPart, CopyToFile, CopyToStdout,
     PrintEvent, AnswerEnds, Arrives
<1>7. CASE BodyBreaks \/ EventsBreak \/ ReaderGoes
  BY <1>7, ElsewhereKeeps DEF BodyBreaks, EventsBreak, ReaderGoes
<1>8. CASE WriteStdin \/ CloseStdin
  <2>1. RequestType'
    <3>1. CASE WriteStdin
      <4>1. StdinBytes[Len(stdin.written) + 1] \in Byte
        BY <3>1, CommandAssumption DEF WriteStdin, IInv, RequestType
      <4>2. stdin' = [stdin EXCEPT !.written = Append(stdin.written,
                                     StdinBytes[Len(stdin.written) + 1])]
        BY <3>1 DEF WriteStdin
      <4>3. Append(stdin.written, StdinBytes[Len(stdin.written) + 1]) \in Seq(Byte)
        BY <4>1 DEF IInv, RequestType
      <4>4. PICK written \in Seq(Byte) : stdin' = [stdin EXCEPT !.written = written]
        BY <4>2, <4>3, Zenon
      <4> QED
        BY <3>1, <4>4 DEF WriteStdin, IInv, RequestType, request
    <3>2. CASE CloseStdin
      BY <3>2 DEF CloseStdin, IInv, RequestType
    <3> QED
      BY <1>8, <3>1, <3>2
  <2>2. UNCHANGED <<cmd, pc, body, sent, spent, answer>>
    BY <1>8 DEF WriteStdin, CloseStdin
  <2> QED
    BY <2>1, <2>2 DEF IInv, Room, RetriesAsAsked, Eligible
<1>9. CASE UNCHANGED vars
  BY <1>9, ElsewhereKeeps DEF vars
<1> QED
  BY <1>1, <1>2, <1>3, <1>4, <1>5, <1>6, <1>7, <1>8, <1>9, <1>10 DEF Next, ClientStep

\* RetryHandler::with_max_attempts(retry + 1) and with_all_methods: what may not be
\* repeated, a stream or a method with an effect, is sent once; what may be is
\* tried as often as --retry says.
THEOREM RetriesAlwaysAsAsked == Spec => []RetriesAsAsked
<1>1. IInv => RetriesAsAsked
  BY DEF IInv
<1> QED
  BY <1>1, InitHolds, StepKeeps, PTL DEF Spec
-----------------------------------------------------------------------------
(* Bodies                                                                  *)

\* Where the body comes from, once the request is built.
Source ==
  \/ body.from = "file" /\ cmd.file
  \/ body.from = "arg" /\ ~cmd.file /\ cmd.body
  \/ body.from = "stdin" /\ ~cmd.file /\ ~cmd.body
  \/ /\ body.from = "none" /\ body.rest = <<>>
     /\ ~cmd.file /\ ~cmd.body
     /\ stdin.written = <<>> /\ (stdin.closed \/ cmd.stdin # "pipe")

Prefixed(bytes) == /\ Len(bytes) <= Len(Given)
                   /\ \A k \in 1..Len(bytes) : bytes[k] = Given[k]

\* What is at hand of the body goes on where these bytes end; behind it comes what
\* is unread of stdin.
GoesOn(bytes) == /\ Len(bytes) + Len(body.rest)
                      = IF body.from = "stdin" THEN stdin.read ELSE Len(Given)
                 /\ \A j \in 1..Len(body.rest) : body.rest[j] = Given[Len(bytes) + j]

\* Nothing more can be written to a stdin whose end was sent.
Whole(attempt) == /\ Len(attempt.bytes) = Len(Given)
                  /\ body.from = "stdin" => stdin.closed

Carried ==
  /\ pc = "build" => body.from = "none" /\ body.rest = <<>>
  /\ cmd.stdin # "pipe" => stdin.written = <<>>
  /\ pc = "built" \/ sent # <<>> => Source
  /\ pc = "wait" => sent # <<>>
  /\ body.from = "stdin" => stdin.read <= Len(stdin.written)
  /\ pc = "built" /\ sent = <<>> => GoesOn(<<>>)
  /\ pc = "upload" => sent # <<>> /\ GoesOn(sent[Len(sent)].bytes)
  /\ \A i \in 1..Len(sent) : /\ Prefixed(sent[i].bytes)
                             /\ sent[i].whole => Whole(sent[i])

LEMMA GivenIsBytes == RequestType => Given \in Seq(Byte)
BY CommandAssumption DEF RequestType, Given

\* What the invariants say of bytes and parts is what IsPrefix says.
LEMMA PrefixByElements ==
  ASSUME NEW Of, NEW s \in Seq(Of), NEW t \in Seq(Of), Len(s) <= Len(t),
         \A k \in 1..Len(s) : s[k] = t[k]
  PROVE  IsPrefix(s, t) /\ (Len(s) = Len(t) => s = t)
<1>1. Len(s) \in Nat /\ Len(t) \in Nat
  BY LenProperties
<1>2. \A k \in 1..Len(s) : t[k] \in Of
  <2> SUFFICES ASSUME NEW k \in 1..Len(s) PROVE t[k] \in Of
    OBVIOUS
  <2>1. k \in 1..Len(t)
    BY <1>1
  <2> QED
    BY <2>1, ElementOfSeq
<1>3. /\ SubSeq(t, 1, Len(s)) \in Seq(Of)
      /\ Len(SubSeq(t, 1, Len(s))) = IF 1 <= Len(s) THEN Len(s) - 1 + 1 ELSE 0
      /\ \A k \in 1..Len(s)-1+1 : SubSeq(t, 1, Len(s))[k] = t[1+k-1]
  BY <1>1, <1>2, SubSeqProperties
<1>4. Len(SubSeq(t, 1, Len(s))) = Len(s)
  BY <1>1, <1>3
<1>5. \A k \in 1..Len(s) : s[k] = SubSeq(t, 1, Len(s))[k]
  BY <1>1, <1>3
<1>6. s = SubSeq(t, 1, Len(s))
  BY <1>3, <1>4, <1>5, SeqEqual
<1>7. SubSeq(s, 1, Len(s)) = s
  BY SubSeqFull
<1>8. Len(s) = Len(t) => s = t
  BY SeqEqual
<1> QED
  BY <1>6, <1>7, <1>8 DEF IsPrefix

LEMMA CarriedIsWhole == RequestType /\ Carried => BodyWhole
<1> SUFFICES ASSUME RequestType, Carried, NEW i \in DOMAIN sent
             PROVE  /\ IsPrefix(sent[i].bytes, Given)
                    /\ sent[i].whole => sent[i].bytes = Given
  BY DEF BodyWhole
<1>1. i \in 1..Len(sent) /\ sent[i].bytes \in Seq(Byte)
  <2>1. sent \in Seq(Attempt)
    BY DEF RequestType
  <2>2. i \in 1..Len(sent)
    BY <2>1, LenProperties
  <2>3. sent[i] \in Attempt
    BY <2>1, <2>2, ElementOfSeq
  <2> QED
    BY <2>2, <2>3 DEF Attempt
<1>2. Prefixed(sent[i].bytes) /\ (sent[i].whole => Len(sent[i].bytes) = Len(Given))
  BY <1>1 DEF Carried, Whole
<1> QED
  BY <1>1, <1>2, GivenIsBytes, PrefixByElements DEF Prefixed

LEMMA CarriedElsewhere ==
  ASSUME Carried, UNCHANGED <<cmd, stdin, body, sent>>,
         pc' = pc \/ pc' \notin {"build", "built", "upload", "wait"}
  PROVE  Carried'
<1>1. Given' = Given
  BY DEF Given
<1>2. /\ Source => Source'
      /\ GoesOn(<<>>) => GoesOn(<<>>)'
      /\ GoesOn(sent[Len(sent)].bytes) => GoesOn(sent[Len(sent)].bytes)'
  BY <1>1 DEF Source, GoesOn
<1>3. ASSUME NEW i \in 1..Len(sent')
      PROVE  /\ Prefixed(sent[i].bytes)'
             /\ sent'[i].whole => Whole(sent[i])'
  <2>1. i \in 1..Len(sent) /\ sent'[i] = sent[i]
    OBVIOUS
  <2>2. Prefixed(sent[i].bytes) /\ (sent[i].whole => Whole(sent[i]))
    BY <2>1 DEF Carried
  <2> QED
    BY <1>1, <2>1, <2>2 DEF Prefixed, Whole
<1>4. /\ pc' = "build" => body'.from = "none" /\ body'.rest = <<>>
      /\ cmd'.stdin # "pipe" => stdin'.written = <<>>
      /\ body'.from = "stdin" => stdin'.read <= Len(stdin'.written)
  BY DEF Carried
<1>5. /\ pc' = "built" \/ sent' # <<>> => Source'
      /\ pc' = "wait" => sent' # <<>>
      /\ pc' = "built" /\ sent' = <<>> => GoesOn(<<>>)'
      /\ pc' = "upload" => sent' # <<>> /\ GoesOn(sent[Len(sent)].bytes)'
  <2> HIDE DEF GoesOn, Source
  <2> QED
    BY <1>2 DEF Carried
<1> QED
  BY <1>3, <1>4, <1>5 DEF Carried

LEMMA InitCarried == Init => Carried
<1> SUFFICES ASSUME Init PROVE Carried
  OBVIOUS
<1>1. sent = <<>> /\ pc = "build" /\ body.from = "none" /\ body.rest = <<>> /\ stdin.written = <<>>
  BY DEF Init
<1>2. \A i \in 1..Len(sent) : FALSE
  BY <1>1
<1> QED
  BY <1>1, <1>2 DEF Carried

\* All of the body is at hand, or nothing, of no body.
LEMMA StartOfAll ==
  ASSUME body'.rest = Given', body'.from # "stdin", Given' \in Seq(Byte)
  PROVE  GoesOn(<<>>)'
<1>1. Len(<<>>) = 0 /\ Len(Given') \in Nat
  BY EmptySeq, LenProperties
<1> QED
  BY <1>1 DEF GoesOn

\* A file, a text, nothing, or the byte that was probed.
LEMMA BuildCarries ==
  ASSUME IInv, IInv', Carried, BuildFile \/ BuildArg \/ BuildNoBody \/ BuildProbe
  PROVE  Carried'
<1>1. /\ pc = "build" /\ pc' \in {"built", "ended"}
      /\ sent' = sent /\ cmd' = cmd /\ stdin'.written = stdin.written
  BY DEF BuildFile, BuildArg, BuildNoBody, BuildProbe, Goto, End, request, IInv, RequestType
<1>2. sent' = <<>> /\ \A i \in 1..Len(sent') : FALSE
  BY <1>1 DEF IInv, RequestType, Room
<1>3. body' \in [from : {"none", "file", "arg", "stdin"}, rest : Seq(Byte)]
  BY DEF IInv, RequestType
<1>4. /\ pc' = "built" => Source' /\ GoesOn(<<>>)'
      /\ body'.from = "stdin" => stdin'.read <= Len(stdin'.written)
  <2>1. CASE BuildFile
    <3>1. stdin' = stdin
      BY <2>1 DEF BuildFile
    <3>2. CASE body' = [from |-> "file", rest |-> FileBytes]
      <4>1. cmd'.file /\ Given' = FileBytes /\ body'.from = "file" /\ body'.rest = FileBytes
        BY <1>1, <2>1, <3>2 DEF BuildFile, Given
      <4> QED
        BY <4>1, StartOfAll, CommandAssumption DEF Source
    <3>3. CASE UNCHANGED body /\ pc' = "ended"
      BY <3>1, <3>3 DEF Carried
    <3> QED
      BY <2>1, <3>2, <3>3 DEF BuildFile, End
  <2>2. CASE BuildArg
    <3>1. /\ ~cmd'.file /\ cmd'.body /\ Given' = ArgBytes
          /\ body'.from = "arg" /\ body'.rest = ArgBytes
      BY <1>1, <2>2 DEF BuildArg, Given
    <3> QED
      BY <3>1, StartOfAll, CommandAssumption DEF Source
  <2>3. CASE BuildNoBody
    <3>1. UNCHANGED <<stdin, body>> /\ ~cmd.file /\ ~cmd.body /\ cmd.stdin # "pipe"
      BY <2>3 DEF BuildNoBody, request
    <3>2. body.from = "none" /\ body.rest = <<>> /\ stdin.written = <<>>
      BY <1>1, <3>1 DEF Carried
    <3>3. /\ Given' = <<>> /\ <<>> \in Seq(Byte)
          /\ body'.rest = <<>> /\ body'.from = "none"
      BY <1>1, <3>1, <3>2 DEF Given
    <3> QED
      BY <1>1, <3>1, <3>2, <3>3, StartOfAll DEF Source
  <2>4. CASE BuildProbe
    <3>1. ~cmd.file /\ ~cmd.body /\ Given' = stdin'.written
      BY <1>1, <2>4 DEF BuildProbe, Given
    <3>2. CASE stdin.written = <<>>
      <4>1. UNCHANGED <<stdin, body>> /\ stdin.closed
        BY <2>4, <3>2 DEF BuildProbe
      <4>2. body.from = "none" /\ body.rest = <<>>
        BY <1>1 DEF Carried
      <4>3. /\ Given' = <<>> /\ <<>> \in Seq(Byte)
            /\ body'.rest = <<>> /\ body'.from = "none"
        BY <3>1, <3>2, <4>1, <4>2
      <4> QED
        BY <1>1, <3>1, <3>2, <4>1, <4>3, StartOfAll DEF Source
    <3>3. CASE stdin.written # <<>>
      <4>1. /\ stdin' = [stdin EXCEPT !.read = 1]
            /\ body' = [from |-> "stdin", rest |-> <<Head(stdin.written)>>]
        BY <2>4, <3>3 DEF BuildProbe
      <4>2. stdin.written \in Seq(Byte)
        BY DEF IInv, RequestType
      <4>3. /\ stdin'.written = stdin.written /\ stdin'.read = 1
            /\ body'.from = "stdin" /\ body'.rest = <<stdin.written[1]>>
        BY <4>1, <4>2 DEF IInv, RequestType
      <4>4. 1 <= Len(stdin.written)
        BY <3>3, <4>2, EmptySeq
      <4>5. Source'
        BY <1>1, <3>1, <4>3 DEF Source
      <4>6. GoesOn(<<>>)'
        BY <3>1, <4>3, EmptySeq DEF GoesOn
      <4> QED
        BY <4>3, <4>4, <4>5, <4>6
    <3> QED
      BY <3>2, <3>3
  <2> QED
    BY <2>1, <2>2, <2>3, <2>4
<1> QED
  BY <1>1, <1>2, <1>4 DEF Carried

LEMMA StartCarries ==
  ASSUME IInv, IInv', Carried, StartAttempt
  PROVE  Carried'
<1> DEFINE attempt == [bytes |-> <<>>, whole |-> FALSE]
<1>1. /\ pc = "built" /\ pc' = "upload" /\ UNCHANGED <<cmd, stdin>>
      /\ sent' = Append(sent, attempt) /\ body'.from = body.from
  BY DEF StartAttempt, Goto, IInv, RequestType
<1>2. attempt \in Attempt /\ sent \in Seq(Attempt)
  BY DEF Attempt, IInv, RequestType
<1>3. /\ sent' # <<>> /\ Len(sent') = Len(sent) + 1 /\ Len(sent) \in Nat
      /\ \A i \in 1..Len(sent) : sent'[i] = sent[i]
      /\ sent'[Len(sent')] = attempt
  BY <1>1, <1>2, AppendProperties, LenProperties
<1>4. Given' = Given /\ Given \in Seq(Byte) /\ Len(Given) \in Nat
  BY <1>1, GivenIsBytes, LenProperties DEF Given, IInv
<1>5. Source /\ (body.from = "none" => body' = body)
  BY <1>1 DEF Carried, StartAttempt
<1>6. Source'
  BY <1>1, <1>5 DEF Source
<1>7. GoesOn(<<>>)'
  <2>1. CASE body.from = "arg"
    <3>1. body'.rest = ArgBytes /\ Given = ArgBytes
      BY <1>5, <2>1 DEF StartAttempt, Source, Given, IInv, RequestType
    <3> QED
      BY <1>1, <1>4, <2>1, <3>1, StartOfAll
  <2>2. CASE body.from = "none"
    <3>1. body'.rest = <<>> /\ Given = <<>>
      BY <1>5, <2>2 DEF Source, Given
    <3> QED
      BY <1>1, <1>4, <2>2, <3>1, StartOfAll
  <2>3. CASE body.from \in {"file", "stdin"}
    <3>1. Len(sent) = 0
      BY <1>1, <1>3, <2>3 DEF IInv, Room, Eligible
    <3>2. sent = <<>> /\ body' = body
      BY <1>2, <2>3, <3>1, EmptySeq DEF StartAttempt
    <3>3. GoesOn(<<>>)
      BY <1>1, <3>2 DEF Carried
    <3> QED
      BY <1>1, <1>4, <3>2, <3>3 DEF GoesOn
  <2> QED
    BY <2>1, <2>2, <2>3 DEF IInv, RequestType
<1>8. ASSUME NEW i \in 1..Len(sent')
      PROVE  Prefixed(sent[i].bytes)' /\ (sent'[i].whole => Whole(sent[i])')
  <2>1. CASE i \in 1..Len(sent)
    <3>1. sent'[i] = sent[i] /\ Prefixed(sent[i].bytes) /\ (sent[i].whole => Whole(sent[i]))
      BY <1>3, <2>1 DEF Carried
    <3> QED
      BY <1>1, <1>4, <3>1 DEF Prefixed, Whole
  <2>2. CASE i = Len(sent')
    <3>1. sent'[i].bytes = <<>> /\ ~sent'[i].whole
      BY <1>3, <2>2
    <3> QED
      BY <1>4, <3>1, EmptySeq DEF Prefixed
  <2> QED
    BY <1>3, <2>1, <2>2
<1>9. GoesOn(sent[Len(sent)].bytes)'
  BY <1>3, <1>7 DEF GoesOn
<1> QED
  BY <1>1, <1>3, <1>6, <1>8, <1>9 DEF Carried

\* The last attempt changes, those before it do not.
LEMMA Sending ==
  ASSUME sent \in Seq(Attempt), sent # <<>>, NEW attempt \in Attempt,
         sent' = [sent EXCEPT ![Len(sent)] = attempt]
  PROVE  /\ sent' # <<>> /\ Len(sent') = Len(sent) /\ Len(sent) \in 1..Len(sent)
         /\ sent'[Len(sent')] = attempt
         /\ \A i \in 1..Len(sent) : i # Len(sent) => sent'[i] = sent[i]
<1>1. Len(sent) \in Nat /\ Len(sent) > 0
  BY EmptySeq
<1>2. /\ sent' \in Seq(Attempt) /\ Len(sent') = Len(sent) /\ Len(sent) \in 1..Len(sent)
      /\ \A j \in 1..Len(sent) : sent'[j] = IF j = Len(sent) THEN attempt ELSE sent[j]
  BY <1>1, ExceptSeq
<1>3. sent' # <<>>
  BY <1>1, <1>2, EmptySeq
<1> QED
  BY <1>2, <1>3

\* A byte of the body that is the next one.
LEMMA PutCarries ==
  ASSUME RequestType, Carried, sent # <<>>, NEW byte \in Byte, Put(byte),
         Len(sent[Len(sent)].bytes) < Len(Given),
         byte = Given[Len(sent[Len(sent)].bytes) + 1],
         Given' = Given, body'.from = body.from, stdin'.closed = stdin.closed
  PROVE  /\ sent' # <<>>
         /\ sent'[Len(sent')].bytes = Append(sent[Len(sent)].bytes, byte)
         /\ \A i \in 1..Len(sent') : /\ Prefixed(sent[i].bytes)'
                                     /\ sent'[i].whole => Whole(sent[i])'
<1> DEFINE last == sent[Len(sent)]
           attempt == [last EXCEPT !.bytes = Append(last.bytes, byte)]
<1>1. Len(sent) \in 1..Len(sent) /\ sent \in Seq(Attempt)
  BY EmptySeq, LenProperties DEF RequestType
<1>2. last \in Attempt /\ last.bytes \in Seq(Byte)
  <2>1. last \in Attempt
    BY <1>1, ElementOfSeq
  <2> HIDE DEF last
  <2> QED
    BY <2>1 DEF Attempt
<1>3. /\ Append(last.bytes, byte) \in Seq(Byte)
      /\ Len(Append(last.bytes, byte)) = Len(last.bytes) + 1 /\ Len(last.bytes) \in Nat
      /\ \A k \in 1..Len(last.bytes) : Append(last.bytes, byte)[k] = last.bytes[k]
      /\ Append(last.bytes, byte)[Len(last.bytes) + 1] = byte
  BY <1>2, AppendProperties, LenProperties
<1>4. /\ attempt \in Attempt /\ attempt.bytes = Append(last.bytes, byte)
      /\ attempt.whole = last.whole
  <2>1. PICK bytes \in Seq(Byte) : bytes = Append(last.bytes, byte)
    BY <1>3
  <2>2. attempt = [last EXCEPT !.bytes = bytes]
    BY <2>1
  <2> HIDE DEF last
  <2>3. /\ [last EXCEPT !.bytes = bytes] \in Attempt
        /\ [last EXCEPT !.bytes = bytes].bytes = bytes
        /\ [last EXCEPT !.bytes = bytes].whole = last.whole
    BY <1>2 DEF Attempt
  <2> QED
    BY <2>1, <2>2, <2>3
<1>5. sent' = [sent EXCEPT ![Len(sent)] = attempt]
  BY DEF Put
<1>6. /\ sent' # <<>> /\ Len(sent') = Len(sent)
      /\ sent'[Len(sent')] = attempt
      /\ \A i \in 1..Len(sent) : i # Len(sent) => sent'[i] = sent[i]
  <2> HIDE DEF attempt
  <2> QED
    BY <1>1, <1>4, <1>5, Sending
<1>7. Prefixed(last.bytes) /\ ~last.whole
  <2>1. Prefixed(last.bytes) /\ (last.whole => Whole(last))
    BY <1>1 DEF Carried
  <2>2. Given \in Seq(Byte) /\ Len(Given) \in Nat
    BY GivenIsBytes, LenProperties
  <2> QED
    BY <1>3, <2>1, <2>2 DEF Whole
<1>8. Len(Given) \in Nat
  BY GivenIsBytes, LenProperties
<1>9. /\ Len(attempt.bytes) <= Len(Given')
      /\ \A k \in 1..Len(attempt.bytes) : attempt.bytes[k] = Given'[k]
  <2>1. \A k \in 1..Len(last.bytes) : Append(last.bytes, byte)[k] = Given[k]
    BY <1>3, <1>7 DEF Prefixed
  <2>2. \A k \in 1..Len(last.bytes) + 1 : k \in 1..Len(last.bytes) \/ k = Len(last.bytes) + 1
    BY <1>3
  <2> QED
    BY <1>3, <1>4, <1>8, <2>1, <2>2
<1>10. ASSUME NEW i \in 1..Len(sent')
       PROVE  Prefixed(sent[i].bytes)' /\ (sent'[i].whole => Whole(sent[i])')
  <2>1. CASE i # Len(sent)
    <3>1. sent'[i] = sent[i] /\ Prefixed(sent[i].bytes) /\ (sent[i].whole => Whole(sent[i]))
      BY <1>6, <2>1 DEF Carried
    <3> QED
      BY <3>1 DEF Prefixed, Whole
  <2>2. CASE i = Len(sent)
    <3>1. sent'[i] = attempt
      BY <1>6, <2>2
    <3> HIDE DEF attempt
    <3> QED
      BY <1>4, <1>7, <1>9, <3>1 DEF Prefixed
  <2> QED
    BY <2>1, <2>2
<1> QED
  BY <1>4, <1>6, <1>10

\* Byte by byte, first what is at hand, then what stdin still has; and the end.
LEMMA UploadCarries ==
  ASSUME IInv, Carried, UploadChained \/ UploadStdin \/ UploadEnds
  PROVE  Carried'
<1>0. PICK bytes : bytes = sent[Len(sent)].bytes
  OBVIOUS
<1>1. /\ pc = "upload" /\ sent # <<>> /\ Source /\ GoesOn(bytes) /\ cmd' = cmd
      /\ RequestType
  BY <1>0 DEF UploadChained, UploadStdin, UploadEnds, Carried, IInv
<1>2. /\ sent \in Seq(Attempt) /\ Len(sent) \in 1..Len(sent)
      /\ bytes \in Seq(Byte) /\ Len(bytes) \in Nat
  <2>1. sent \in Seq(Attempt) /\ Len(sent) \in 1..Len(sent)
    BY <1>1, EmptySeq, LenProperties DEF RequestType
  <2>2. PICK last \in Attempt : last = sent[Len(sent)]
    BY <2>1, ElementOfSeq
  <2>3. last.bytes \in Seq(Byte)
    BY DEF Attempt
  <2> QED
    BY <1>0, <2>1, <2>2, <2>3, LenProperties
<1>3. /\ Given \in Seq(Byte) /\ Len(Given) \in Nat
      /\ body.rest \in Seq(Byte) /\ Len(body.rest) \in Nat
      /\ stdin.read \in Nat
  BY <1>1, GivenIsBytes, LenProperties DEF RequestType
<1>4. /\ Len(bytes) + Len(body.rest) = IF body.from = "stdin" THEN stdin.read ELSE Len(Given)
      /\ \A j \in 1..Len(body.rest) : body.rest[j] = Given[Len(bytes) + j]
      /\ body.from = "stdin" => Given = stdin.written /\ stdin.read <= Len(stdin.written)
      /\ Len(bytes) + Len(body.rest) <= Len(Given)
  <2>1. body.from = "stdin" => Given = stdin.written /\ stdin.read <= Len(stdin.written)
    BY <1>1 DEF Source, Given, Carried
  <2> QED
    BY <1>1, <1>3, <2>1 DEF GoesOn
<1>5. CASE UploadChained
  <2>1. /\ body.rest # <<>> /\ Put(Head(body.rest)) /\ body' = [body EXCEPT !.rest = Tail(@)]
        /\ UNCHANGED <<cmd, stdin, pc>>
    BY <1>5 DEF UploadChained
  <2>2. /\ Head(body.rest) \in Byte /\ Head(body.rest) = body.rest[1]
        /\ Len(Tail(body.rest)) = Len(body.rest) - 1 /\ Len(body.rest) > 0
        /\ \A j \in 1..Len(Tail(body.rest)) : Tail(body.rest)[j] = body.rest[j + 1]
    BY <1>3, <2>1, HeadTailProperties, EmptySeq
  <2>3. Given' = Given /\ body'.from = body.from /\ body'.rest = Tail(body.rest)
    BY <1>1, <2>1 DEF Given, RequestType
  <2>4. Len(bytes) < Len(Given) /\ Head(body.rest) = Given[Len(bytes) + 1]
    BY <1>2, <1>3, <1>4, <2>2
  <2>5. /\ sent' # <<>> /\ sent'[Len(sent')].bytes = Append(bytes, Head(body.rest))
        /\ \A i \in 1..Len(sent') : /\ Prefixed(sent[i].bytes)'
                                    /\ sent'[i].whole => Whole(sent[i])'
    BY <1>0, <1>1, <2>1, <2>2, <2>3, <2>4, PutCarries
  <2>6. GoesOn(sent[Len(sent)].bytes)'
    <3>1. Len(Append(bytes, Head(body.rest))) = Len(bytes) + 1
      BY <1>2, <2>2, AppendProperties
    <3>2. \A j \in 1..Len(Tail(body.rest)) :
             Tail(body.rest)[j] = Given[(Len(bytes) + 1) + j]
      <4> SUFFICES ASSUME NEW j \in 1..Len(Tail(body.rest))
                   PROVE  Tail(body.rest)[j] = Given[(Len(bytes) + 1) + j]
        OBVIOUS
      <4>1. j + 1 \in 1..Len(body.rest) /\ Len(bytes) + (j + 1) = (Len(bytes) + 1) + j
        BY <1>2, <1>3, <2>2
      <4> QED
        BY <1>4, <2>2, <4>1
    <3>3. (Len(bytes) + 1) + Len(Tail(body.rest)) = Len(bytes) + Len(body.rest)
      <4>1. /\ Len(bytes) \in Nat /\ Len(body.rest) \in Nat
            /\ Len(Tail(body.rest)) = Len(body.rest) - 1
        BY <1>2, <1>3, <2>2
      <4>2. PICK m \in Nat, n \in Nat : m = Len(bytes) /\ n = Len(body.rest)
        BY <4>1
      <4>3. (m + 1) + (n - 1) = m + n
        OBVIOUS
      <4> QED
        BY <4>1, <4>2, <4>3
    <3> QED
      BY <1>4, <2>1, <2>3, <2>5, <3>1, <3>2, <3>3 DEF GoesOn
  <2>7. Source' /\ pc' = "upload"
    BY <1>1, <2>1, <2>2, <2>3 DEF Source
  <2>8. stdin' = stdin /\ (cmd'.stdin # "pipe" => stdin'.written = <<>>)
        /\ (body'.from = "stdin" => stdin'.read <= Len(stdin'.written))
    BY <2>1, <2>3 DEF Carried
  <2> QED
    BY <2>5, <2>6, <2>7, <2>8 DEF Carried
<1>6. CASE UploadStdin
  <2>1. /\ body.rest = <<>> /\ body.from = "stdin" /\ stdin.read < Len(stdin.written)
        /\ Put(stdin.written[stdin.read + 1])
        /\ stdin' = [stdin EXCEPT !.read = @ + 1]
        /\ UNCHANGED <<cmd, pc, body>>
    BY <1>6 DEF UploadStdin
  <2>2. /\ stdin'.read = stdin.read + 1 /\ stdin'.written = stdin.written
        /\ stdin'.closed = stdin.closed
    BY <1>1, <2>1 DEF RequestType
  <2>3. Given' = Given
    BY <2>1, <2>2 DEF Given
  <2>4. Len(body.rest) = 0 /\ Len(bytes) = stdin.read
    BY <1>2, <1>3, <1>4, <2>1, EmptySeq
  <2>5. /\ Len(bytes) < Len(Given)
        /\ stdin.written[stdin.read + 1] = Given[Len(bytes) + 1]
        /\ stdin.written[stdin.read + 1] \in Byte
    <3>1. Given = stdin.written /\ stdin.read + 1 \in 1..Len(Given)
      BY <1>3, <1>4, <2>1
    <3> QED
      BY <1>3, <2>1, <2>4, <3>1, ElementOfSeq
  <2>6. /\ sent' # <<>>
        /\ sent'[Len(sent')].bytes = Append(bytes, stdin.written[stdin.read + 1])
        /\ \A i \in 1..Len(sent') : /\ Prefixed(sent[i].bytes)'
                                    /\ sent'[i].whole => Whole(sent[i])'
    BY <1>0, <1>1, <2>1, <2>2, <2>3, <2>5, PutCarries
  <2>7. Len(sent'[Len(sent')].bytes) = stdin.read + 1
    BY <1>2, <2>4, <2>5, <2>6, AppendProperties
  <2>8. GoesOn(sent[Len(sent)].bytes)'
    BY <1>3, <2>1, <2>2, <2>4, <2>7 DEF GoesOn
  <2>9. Source' /\ pc' = "upload"
    BY <1>1, <2>1, <2>2 DEF Source
  <2>10. /\ cmd'.stdin # "pipe" => stdin'.written = <<>>
         /\ stdin'.read <= Len(stdin'.written)
    <3>1. stdin.read + 1 <= Len(stdin.written)
      BY <1>3, <1>4, <2>1
    <3> QED
      BY <2>1, <2>2, <3>1 DEF Carried
  <2> QED
    BY <2>6, <2>8, <2>9, <2>10 DEF Carried
<1>7. CASE UploadEnds
  <2>1. /\ body.rest = <<>> /\ pc' = "wait"
        /\ body.from = "stdin" => stdin.closed /\ stdin.read = Len(stdin.written)
        /\ sent' = [sent EXCEPT ![Len(sent)].whole = TRUE]
        /\ UNCHANGED <<cmd, stdin, body>>
    BY <1>7 DEF UploadEnds, Goto
  <2>2. PICK last \in Attempt : last = sent[Len(sent)]
    BY <1>2, ElementOfSeq
  <2>3. PICK attempt \in Attempt : /\ attempt = [last EXCEPT !.whole = TRUE]
                                   /\ attempt.bytes = last.bytes
    <3>1. /\ [last EXCEPT !.whole = TRUE] \in Attempt
          /\ [last EXCEPT !.whole = TRUE].bytes = last.bytes
      BY DEF Attempt
    <3> QED
      BY <3>1
  <2>4. /\ sent' # <<>> /\ Len(sent') = Len(sent) /\ sent'[Len(sent')] = attempt
        /\ \A i \in 1..Len(sent) : i # Len(sent) => sent'[i] = sent[i]
    BY <1>1, <1>2, <2>1, <2>2, <2>3, Sending
  <2>5. Given' = Given
    BY <2>1 DEF Given
  <2>6. Len(bytes) = Len(Given)
    BY <1>2, <1>3, <1>4, <2>1, EmptySeq
  <2>7. ASSUME NEW i \in 1..Len(sent')
        PROVE  Prefixed(sent[i].bytes)' /\ (sent'[i].whole => Whole(sent[i])')
    <3>1. Prefixed(sent[i].bytes) /\ (sent[i].whole => Whole(sent[i]))
      BY <2>4 DEF Carried
    <3>2. CASE i # Len(sent)
      <4>1. sent'[i] = sent[i]
        BY <2>4, <3>2
      <4> QED
        BY <2>1, <2>5, <3>1, <4>1 DEF Prefixed, Whole
    <3>3. CASE i = Len(sent)
      <4>1. sent'[i].bytes = sent[i].bytes
        BY <2>2, <2>3, <2>4, <3>3
      <4> QED
        BY <1>0, <2>1, <2>5, <2>6, <3>1, <3>3, <4>1 DEF Prefixed, Whole
    <3> QED
      BY <3>2, <3>3
  <2>8. Source'
    BY <1>1, <2>1 DEF Source
  <2>9. /\ cmd'.stdin # "pipe" => stdin'.written = <<>>
        /\ body'.from = "stdin" => stdin'.read <= Len(stdin'.written)
    BY <2>1 DEF Carried
  <2> QED
    BY <2>1, <2>4, <2>7, <2>8, <2>9 DEF Carried
<1> QED
  BY <1>5, <1>6, <1>7

\* The next attempt begins later; what was sent stays.
LEMMA AttemptCarries ==
  ASSUME Carried, NEW result, AttemptOver(result)
  PROVE  Carried'
<1>1. /\ UNCHANGED <<cmd, stdin, body, sent>> /\ pc \in {"upload", "wait"}
      /\ pc' \in {"built", "opened"}
  BY DEF AttemptOver
<1>2. sent # <<>> /\ Source
  BY <1>1 DEF Carried
<1>3. CASE pc' = "opened"
  BY <1>1, <1>3, CarriedElsewhere
<1>4. CASE pc' = "built"
  <2>1. Given' = Given /\ Source'
    BY <1>1, <1>2 DEF Given, Source
  <2>2. ASSUME NEW i \in 1..Len(sent')
        PROVE  Prefixed(sent[i].bytes)' /\ (sent'[i].whole => Whole(sent[i])')
    <3>1. i \in 1..Len(sent) /\ sent'[i] = sent[i]
      BY <1>1
    <3>2. Prefixed(sent[i].bytes) /\ (sent[i].whole => Whole(sent[i]))
      BY <3>1 DEF Carried
    <3> QED
      BY <1>1, <2>1, <3>1, <3>2 DEF Prefixed, Whole
  <2>3. /\ cmd'.stdin # "pipe" => stdin'.written = <<>>
        /\ body'.from = "stdin" => stdin'.read <= Len(stdin'.written)
    BY <1>1 DEF Carried
  <2> QED
    BY <1>1, <1>2, <1>4, <2>1, <2>2, <2>3 DEF Carried
<1> QED
  BY <1>1, <1>3, <1>4

\* More of stdin does not change what is sent of it, and after its end nothing
\* comes.
LEMMA StdinCarries ==
  ASSUME RequestType, Carried, WriteStdin \/ CloseStdin
  PROVE  Carried'
<1>1. UNCHANGED <<cmd, pc, body, sent>> /\ cmd.stdin = "pipe" /\ ~stdin.closed
  BY DEF WriteStdin, CloseStdin, request
<1>2. /\ stdin'.read = stdin.read
      /\ stdin.written \in Seq(Byte) /\ Len(stdin.written) \in Nat
      /\ Len(stdin'.written) \in Nat
      /\ Len(stdin.written) <= Len(stdin'.written)
      /\ \A k \in 1..Len(stdin.written) : stdin'.written[k] = stdin.written[k]
  <2>1. stdin.written \in Seq(Byte) /\ Len(stdin.written) \in Nat
    BY LenProperties DEF RequestType
  <2>2. CASE WriteStdin
    <3>1. PICK byte \in Byte : stdin' = [stdin EXCEPT !.written = Append(stdin.written, byte)]
      <4>1. StdinBytes[Len(stdin.written) + 1] \in Byte
        BY <2>1, <2>2, CommandAssumption DEF WriteStdin
      <4> QED
        BY <2>2, <4>1 DEF WriteStdin
    <3>2. stdin'.written = Append(stdin.written, byte) /\ stdin'.read = stdin.read
      BY <3>1 DEF RequestType
    <3> QED
      BY <2>1, <3>2, AppendProperties, LenProperties
  <2>3. CASE CloseStdin
    BY <2>1, <2>3 DEF CloseStdin, RequestType
  <2> QED
    BY <2>1, <2>2, <2>3
<1>3. /\ body.from # "stdin" /\ Source => Given' = Given
      /\ body.from = "stdin" /\ Source => Given = stdin.written /\ Given' = stdin'.written
      /\ Source => Source'
  BY <1>1 DEF Source, Given
<1>4. ASSUME NEW i \in 1..Len(sent')
      PROVE  Prefixed(sent[i].bytes)' /\ (sent'[i].whole => Whole(sent[i])')
  <2>1. i \in 1..Len(sent) /\ sent'[i] = sent[i]
    BY <1>1
  <2>2. Source
    BY <2>1, EmptySeq DEF Carried
  <2>3. Prefixed(sent[i].bytes) /\ (sent[i].whole => Whole(sent[i]))
    BY <2>1 DEF Carried
  <2>4. CASE body.from # "stdin"
    BY <1>1, <1>3, <2>1, <2>2, <2>3, <2>4 DEF Prefixed, Whole
  <2>5. CASE body.from = "stdin"
    <3>1. ~sent[i].whole
      BY <1>1, <2>3, <2>5 DEF Whole
    <3>2. Len(sent[i].bytes) \in Nat
      <4>1. PICK attempt \in Attempt : attempt = sent[i]
        BY <2>1, ElementOfSeq DEF RequestType
      <4> QED
        BY <4>1, LenProperties DEF Attempt
    <3>3. /\ Len(sent[i].bytes) <= Len(stdin'.written)
          /\ \A k \in 1..Len(sent[i].bytes) : sent[i].bytes[k] = stdin'.written[k]
      <4>1. /\ Len(sent[i].bytes) <= Len(stdin.written)
            /\ \A k \in 1..Len(sent[i].bytes) : sent[i].bytes[k] = stdin.written[k]
        BY <1>3, <2>2, <2>3, <2>5 DEF Prefixed
      <4>2. \A k \in 1..Len(sent[i].bytes) : k \in 1..Len(stdin.written)
        BY <1>2, <3>2, <4>1
      <4> QED
        BY <1>2, <3>2, <4>1, <4>2
    <3> QED
      BY <1>3, <2>1, <2>2, <2>5, <3>1, <3>3 DEF Prefixed
  <2> QED
    BY <2>4, <2>5
<1>5. ASSUME NEW bytes, Len(bytes) \in Nat, Source, GoesOn(bytes),
             body.from = "stdin" => stdin.read <= Len(stdin.written)
      PROVE  /\ Len(bytes) + Len(body'.rest)
                  = IF body'.from = "stdin" THEN stdin'.read ELSE Len(Given')
             /\ \A j \in 1..Len(body'.rest) : body'.rest[j] = Given'[Len(bytes) + j]
  <2>1. Len(body.rest) \in Nat /\ stdin.read \in Nat
    BY LenProperties DEF RequestType
  <2>2. CASE body.from # "stdin"
    BY <1>1, <1>3, <1>5, <2>2 DEF GoesOn
  <2>3. CASE body.from = "stdin"
    <3>1. Given = stdin.written /\ Given' = stdin'.written
      BY <1>3, <1>5, <2>3
    <3>2. /\ Len(bytes) + Len(body.rest) = stdin.read /\ stdin.read <= Len(stdin.written)
          /\ \A j \in 1..Len(body.rest) : body.rest[j] = stdin.written[Len(bytes) + j]
      BY <1>5, <2>3, <3>1 DEF GoesOn
    <3>3. \A j \in 1..Len(body.rest) : Len(bytes) + j \in 1..Len(stdin.written)
      BY <1>2, <1>5, <2>1, <3>2
    <3> QED
      BY <1>1, <1>2, <2>3, <3>1, <3>2, <3>3
  <2> QED
    BY <2>2, <2>3
<1>6. pc' = "built" /\ sent' = <<>> => GoesOn(<<>>)'
  <2> SUFFICES ASSUME pc' = "built", sent' = <<>> PROVE GoesOn(<<>>)'
    OBVIOUS
  <2>1. /\ Source /\ GoesOn(<<>>) /\ Len(<<>>) \in Nat
        /\ body.from = "stdin" => stdin.read <= Len(stdin.written)
    BY <1>1, EmptySeq DEF Carried
  <2> QED
    BY <1>5, <2>1 DEF GoesOn
<1>7. pc' = "upload" => sent' # <<>> /\ GoesOn(sent[Len(sent)].bytes)'
  <2> SUFFICES ASSUME pc' = "upload" PROVE sent' # <<>> /\ GoesOn(sent[Len(sent)].bytes)'
    OBVIOUS
  <2>1. /\ sent # <<>> /\ Source /\ GoesOn(sent[Len(sent)].bytes)
        /\ body.from = "stdin" => stdin.read <= Len(stdin.written)
    BY <1>1 DEF Carried
  <2>2. Len(sent[Len(sent)].bytes) \in Nat
    <3>1. sent \in Seq(Attempt) /\ Len(sent) \in 1..Len(sent)
      BY <2>1, EmptySeq, LenProperties DEF RequestType
    <3>2. PICK last \in Attempt : last = sent[Len(sent)]
      BY <3>1, ElementOfSeq
    <3> QED
      BY <3>2, LenProperties DEF Attempt
  <2>3. sent' = sent
    BY <1>1
  <2> QED
    BY <1>5, <2>1, <2>2, <2>3 DEF GoesOn
<1>8. /\ body'.from = "stdin" => stdin'.read <= Len(stdin'.written)
      /\ pc' = "build" => body'.from = "none" /\ body'.rest = <<>>
  <2>1. body.from = "stdin" => stdin.read <= Len(stdin.written) /\ stdin.read \in Nat
    BY DEF Carried, RequestType
  <2> QED
    BY <1>1, <1>2, <2>1 DEF Carried
<1>9. /\ pc' = "built" \/ sent' # <<>> => Source'
      /\ pc' = "wait" => sent' # <<>>
      /\ cmd'.stdin # "pipe" => stdin'.written = <<>>
  BY <1>1, <1>3 DEF Carried
<1> QED
  BY <1>4, <1>6, <1>7, <1>8, <1>9 DEF Carried

LEMMA StepCarries == IInv /\ Carried /\ [Next]_vars => Carried'
<1> SUFFICES ASSUME IInv, Carried, [Next]_vars PROVE Carried'
  OBVIOUS
<1> USE DEF request, response, output, Goto, End
<1>1. IInv'
  BY StepKeeps
<1>2. CASE BuildFile \/ BuildArg \/ BuildNoBody \/ BuildProbe
  BY <1>1, <1>2, BuildCarries
<1>3. CASE StartAttempt
  BY <1>1, <1>3, StartCarries
<1>4. CASE UploadChained \/ UploadStdin \/ UploadEnds
  BY <1>4, UploadCarries
<1>5. CASE TimesOut \/ TransportFails \/ ServerAnswers
  BY <1>5, AttemptCarries DEF TimesOut, TransportFails, ServerAnswers
<1>6. CASE WriteStdin \/ CloseStdin
  BY <1>6, StdinCarries DEF IInv
<1>7. CASE DryRun \/ OpenFails \/ OpenEvents \/ PrintHead
  BY <1>7, CarriedElsewhere DEF DryRun, OpenFails, OpenEvents, PrintHead
<1>8. CASE ChooseOutput \/ BufferEnds \/ WriteOut \/ CopyEnds \/ EventsEnd \/ Trailers
  BY <1>8, CarriedElsewhere DEF ChooseOutput, BufferEnds, WriteOut, CopyEnds, EventsEnd, Trailers
<1>9. CASE AnswerStep
  BY <1>9, CarriedElsewhere DEF AnswerStep, BufferPart, CopyToFile, CopyToStdout,
     PrintEvent, AnswerEnds, Arrives
<1>10. CASE BodyBreaks \/ EventsBreak \/ ReaderGoes \/ UNCHANGED vars
  BY <1>10, CarriedElsewhere DEF BodyBreaks, EventsBreak, ReaderGoes, vars
<1> QED
  BY <1>2, <1>3, <1>4, <1>5, <1>6, <1>7, <1>8, <1>9, <1>10 DEF Next, ClientStep

\* Whatever is given as a body, and however writing, probing, sending and trying
\* again take their turns: an attempt carries it from its first byte on, and an
\* upload that ended carried all of it.
THEOREM BodiesAreWhole == Spec => []BodyWhole
<1>1. IInv /\ Carried => BodyWhole
  BY CarriedIsWhole DEF IInv
<1> QED
  BY <1>1, InitHolds, InitCarried, StepKeeps, StepCarries, PTL DEF Spec
-----------------------------------------------------------------------------
(* Output                                                                  *)

ForPipe == ~cmd.tty /\ ~cmd.dry_run

\* The parts that got to stdout are the first ones of the answer.
Begun == /\ stdout \in Seq(Part)
         /\ Len(stdout) <= got
         /\ \A i \in 1..Len(stdout) : stdout[i] = answer.parts[i]

\* Those that arrived and are not there yet wait in the buffer, unless the thread
\* has failed: then its reader is gone.
Behind == /\ buffer \in Seq(Part)
          /\ IF broken THEN reader = "gone" /\ buffer = <<>>
             ELSE /\ Len(stdout) + Len(buffer) = got
                  /\ \A j \in 1..Len(buffer) : buffer[j] = answer.parts[Len(stdout) + j]

Saved == /\ saved \in Seq(Part)
         /\ Len(saved) = got
         /\ \A i \in 1..Len(saved) : saved[i] = answer.parts[i]

Complete == IF cmd.output = "no" THEN stdout = Wanted ELSE saved = answer.parts

Told == "error" \in {stderr[i] : i \in DOMAIN stderr}

\* With -q: an event stream, or nothing.
Hushed == cmd.quiet /\ (cmd.sse \/ (stdout = <<>> /\ saved = <<>>))

\* What may be on stderr.
Said == {"log", "error", "no filename"}

PrintTypes ==
  /\ answer \in Answer \cup {NoAnswer}
  /\ got \in 0..Len(answer.parts)
  /\ stderr \in Seq(Said)
  /\ exit = "running" \/ pc = "ended"
  /\ cmd.sse => cmd.output = "no"

\* Before any of the answer's body is asked for.
Early == {"build", "built", "upload", "wait", "opened", "output"}

Nothing == got = 0 /\ stdout = <<>> /\ buffer = <<>> /\ saved = <<>> /\ ~broken

Collecting == /\ ~cmd.sse /\ cmd.output = "no" /\ answer.kind = "json"
              /\ buffer = <<>> /\ stdout = <<>>

Copying == /\ ~cmd.sse
           /\ IF cmd.output = "no" THEN answer.kind # "json" /\ Begun /\ Behind
              ELSE cmd.output = "named" /\ buffer = <<>> /\ ~broken /\ Saved

Streaming == cmd.sse /\ buffer = <<>> /\ Begun /\ Len(stdout) = got

Over == /\ exit # "running"
        /\ cmd.output = "no" => IsPrefix(stdout, Wanted)
        /\ exit = "ok" => reader = "gone" \/ Told \/ Complete \/ Hushed

\* What is where, for each place run() can be at.
Printing ==
  /\ PrintTypes
  /\ \/ pc \in Early /\ Nothing /\ (pc = "output" => ~cmd.sse)
     \/ pc = "buffer" /\ Collecting
     \/ pc = "copy" /\ Copying
     \/ pc = "events" /\ Streaming
     \/ pc = "trailers" /\ ~cmd.sse /\ buffer = <<>> /\ Complete
     \/ pc = "ended" /\ Over

LEMMA AnswerParts == \A result \in Answer \cup {NoAnswer} : result.parts \in Seq(Part)
<1>1. \A result \in Answer : result.parts \in Seq(Part)
  BY AnswerAssumption
<1>2. NoAnswer.parts \in Seq(Part)
  BY EmptySeq DEF NoAnswer
<1> QED
  BY <1>1, <1>2
LEMMA InitPrints == Init => Printing
<1> SUFFICES ASSUME Init PROVE Printing
  OBVIOUS
<1>1. /\ answer = NoAnswer /\ got = 0 /\ pc = "build" /\ stderr = <<>> /\ exit = "running"
      /\ cmd \in Command /\ stdout = <<>> /\ buffer = <<>> /\ saved = <<>> /\ ~broken
  BY DEF Init
<1>2. got \in 0..Len(answer.parts)
  BY <1>1, EmptySeq DEF NoAnswer
<1>3. cmd.sse => cmd.output = "no"
  BY <1>1, CommandAssumption
<1>4. PrintTypes
  BY <1>1, <1>2, <1>3, EmptySeq DEF PrintTypes
<1> QED
  BY <1>1, <1>4 DEF Printing, Early, Nothing

\* Wherever it is, what is on a piped stdout is a beginning of what is wanted.
LEMMA PrintedIsClean ==
  ASSUME Printing, cmd.output = "no"
  PROVE  IsPrefix(stdout, Wanted)
<1>1. answer.parts \in Seq(Part) /\ Len(answer.parts) \in Nat /\ got \in 0..Len(answer.parts)
  BY AnswerParts, LenProperties DEF Printing, PrintTypes
<1>2. PICK Of : Wanted \in Seq(Of)
  <2>1. <<"json">> \in Seq({"json"})
    OBVIOUS
  <2> QED
    BY <1>1, <2>1 DEF Wanted
<1>3. ASSUME stdout = <<>> PROVE IsPrefix(stdout, Wanted)
  <2>1. stdout \in Seq(Of) /\ Len(stdout) = 0
    BY <1>3, EmptySeq
  <2>2. Len(Wanted) \in Nat
    BY <1>2, LenProperties
  <2>3. Len(stdout) <= Len(Wanted) /\ \A i \in 1..Len(stdout) : stdout[i] = Wanted[i]
    BY <2>1, <2>2
  <2> QED
    BY <1>2, <2>1, <2>3, PrefixByElements
<1>4. ASSUME Begun, Wanted = answer.parts PROVE IsPrefix(stdout, Wanted)
  <2>1. Len(stdout) \in Nat /\ Len(stdout) <= Len(answer.parts)
    BY <1>1, <1>4, LenProperties DEF Begun
  <2> QED
    BY <1>1, <1>4, <2>1, PrefixByElements DEF Begun
<1>5. ASSUME Complete PROVE IsPrefix(stdout, Wanted)
  <2>1. stdout = Wanted
    BY <1>5 DEF Complete
  <2> QED
    BY <1>2, <2>1, LenProperties, PrefixByElements
<1>6. CASE Nothing \/ Collecting
  BY <1>3, <1>6 DEF Nothing, Collecting
<1>7. CASE Copying
  BY <1>4, <1>7 DEF Copying, Wanted
<1>8. CASE Streaming
  BY <1>4, <1>8 DEF Streaming, Wanted
<1> QED
  BY <1>5, <1>6, <1>7, <1>8 DEF Printing, Over

\* A step in which nobody writes, and nothing of the answer comes.
LEMMA QuietPrints ==
  ASSUME Printing,
         UNCHANGED <<cmd, answer, got, stderr, output, exit>>,
         reader' = reader \/ reader' = "gone",
         pc' = pc \/ (pc \in Early /\ pc' \in Early \ {"output"})
  PROVE  Printing'
<1> USE DEF output
<1>1. PrintTypes'
  BY DEF Printing, PrintTypes, Early
<1>2. Wanted' = Wanted
  BY DEF Wanted
<1>3. /\ Nothing => Nothing'
      /\ Collecting => Collecting'
      /\ Begun => Begun'
      /\ Behind => Behind'
      /\ Saved => Saved'
      /\ Complete => Complete'
      /\ Told => Told'
      /\ Hushed => Hushed'
  BY <1>2 DEF Nothing, Collecting, Begun, Behind, Saved, Complete, Told, Hushed
<1>4. /\ Copying => Copying'
      /\ Streaming => Streaming'
      /\ Over => Over'
  BY <1>2, <1>3 DEF Copying, Streaming, Over
<1> QED
  BY <1>1, <1>3, <1>4 DEF Printing, Early

\* The end by a panic, or with the exit code of a failure.
LEMMA FailurePrints ==
  ASSUME Printing, UNCHANGED <<cmd, answer, got, output>> \/ UNCHANGED <<cmd, answer, stdout, got>>,
         stderr' \in Seq(Said),
         pc' = "ended", exit' \in {"failed", "panic"}
  PROVE  Printing'
<1>1. PrintTypes'
  BY DEF Printing, PrintTypes, output
<1>2. Wanted' = Wanted /\ stdout' = stdout /\ cmd' = cmd
  BY DEF Wanted, output
<1>3. Over'
  BY <1>2, PrintedIsClean DEF Over
<1> QED
  BY <1>1, <1>3 DEF Printing

LEMMA Reporting ==
  ASSUME stderr \in Seq(Said), Report
  PROVE  stderr' \in Seq(Said) /\ (cmd.quiet \/ Told')
<1> SUFFICES ASSUME ~cmd.quiet PROVE stderr' \in Seq(Said) /\ Told'
  BY DEF Report
<1>1. /\ stderr' \in Seq(Said)
      /\ Len(stderr') = Len(stderr) + 1 /\ stderr'[Len(stderr) + 1] = "error"
      /\ Len(stderr) \in Nat
  <2>1. "error" \in Said
    BY DEF Said
  <2> QED
    BY <2>1, AppendProperties, LenProperties DEF Report
<1>2. Len(stderr') \in DOMAIN stderr' /\ stderr'[Len(stderr')] = "error"
  BY <1>1, LenProperties
<1> QED
  BY <1>1, <1>2 DEF Told

LEMMA AttemptPrints ==
  ASSUME ForPipe, Printing, TimesOut \/ TransportFails \/ ServerAnswers
  PROVE  Printing'
<1>1. PICK result \in Answer \cup {NoAnswer} : AttemptOver(result)
  BY DEF TimesOut, TransportFails, ServerAnswers
<1>2. /\ pc \in {"upload", "wait"} /\ pc' \in {"built", "opened"}
      /\ answer' \in {answer, result}
      /\ UNCHANGED <<cmd, got, buffer, broken, saved, reader, exit>>
      /\ stdout' = IF Logger = "stdout" THEN Append(stdout, "log") ELSE stdout
      /\ stderr' = IF Logger = "stderr" THEN Append(stderr, "log") ELSE stderr
  BY <1>1 DEF AttemptOver
<1>3. stdout' = stdout
  BY <1>2 DEF Logger, ForPipe
<1>4. Nothing /\ answer' \in Answer \cup {NoAnswer} /\ exit = "running"
  BY <1>1, <1>2 DEF Printing, PrintTypes
<1>5. stderr' \in Seq(Said)
  <2>1. "log" \in Said
    BY DEF Said
  <2> QED
    BY <1>2, <2>1, AppendProperties DEF Printing, PrintTypes
<1>6. got' \in 0..Len(answer'.parts)
  <2>1. Len(answer'.parts) \in Nat
    BY <1>4, AnswerParts, LenProperties
  <2> QED
    BY <1>2, <1>4, <2>1 DEF Nothing
<1>7. PrintTypes'
  BY <1>2, <1>4, <1>5, <1>6 DEF Printing, PrintTypes
<1>8. Nothing'
  BY <1>2, <1>3, <1>4 DEF Nothing
<1> QED
  BY <1>2, <1>7, <1>8 DEF Printing, Early

\* The parts as they arrive, in a file, in the buffer of Unblock, on stdout.
LEMMA ArrivalPrints ==
  ASSUME ForPipe, Printing, CopyToFile \/ CopyToStdout \/ PrintEvent
  PROVE  Printing'
<1>1. /\ answer.parts \in Seq(Part) /\ Len(answer.parts) \in Nat /\ got \in Nat
      /\ got < Len(answer.parts) /\ got' = got + 1 /\ UNCHANGED <<cmd, answer, reader>>
  BY AnswerParts, LenProperties DEF Printing, PrintTypes, CopyToFile, CopyToStdout, PrintEvent,
     Arrives
<1>2. got' \in 0..Len(answer.parts) /\ answer.parts[got'] \in Part
  BY <1>1, ElementOfSeq
<1>3. Wanted' = Wanted
  BY <1>1 DEF Wanted
<1>4. CASE CopyToFile
  <2>1. /\ pc = "copy" /\ cmd.output = "named" /\ saved' = Append(saved, answer.parts[got'])
        /\ UNCHANGED <<pc, stdout, stderr, buffer, broken, exit>>
    BY <1>4 DEF CopyToFile
  <2>2. Saved /\ ~cmd.sse /\ buffer = <<>> /\ ~broken
    BY <2>1 DEF Printing, Copying, Early
  <2>3. Saved'
    <3>1. saved \in Seq(Part) /\ Len(saved) = got
      BY <2>2 DEF Saved
    <3>2. /\ saved' \in Seq(Part) /\ Len(saved') = got + 1
          /\ saved'[got + 1] = answer.parts[got + 1]
          /\ \A i \in 1..got : saved'[i] = saved[i]
      BY <1>1, <1>2, <2>1, <3>1, AppendProperties
    <3> QED
      BY <1>1, <2>2, <3>1, <3>2 DEF Saved
  <2>4. PrintTypes'
    BY <1>1, <1>2, <2>1 DEF Printing, PrintTypes
  <2> QED
    BY <1>1, <2>1, <2>2, <2>3, <2>4 DEF Printing, Copying
<1>5. CASE CopyToStdout
  <2>1. /\ pc = "copy" /\ cmd.output = "no"
        /\ IF broken THEN pc' = "ended" /\ exit' = "ok" /\ buffer' = buffer
           ELSE buffer' = Append(buffer, answer.parts[got']) /\ pc' = pc /\ exit' = exit
        /\ UNCHANGED <<stdout, stderr, broken, saved>>
    BY <1>5 DEF CopyToStdout, End
  <2>2. Begun /\ Behind /\ ~cmd.sse /\ answer.kind # "json"
    BY <2>1 DEF Printing, Copying, Early
  <2>3. PrintTypes'
    BY <1>1, <1>2, <2>1 DEF Printing, PrintTypes
  <2>4. CASE broken
    <3>1. reader' = "gone"
      BY <1>1, <2>2, <2>4 DEF Behind
    <3>2. Over'
      BY <1>1, <1>3, <2>1, <2>4, <3>1, PrintedIsClean DEF Over
    <3> QED
      BY <2>1, <2>3, <2>4, <3>2 DEF Printing
  <2>5. CASE ~broken
    <3>1. Begun'
      BY <1>1, <2>1, <2>2, LenProperties DEF Begun
    <3>2. /\ buffer \in Seq(Part) /\ Len(buffer) \in Nat /\ Len(stdout) \in Nat
          /\ Len(stdout) + Len(buffer) = got
          /\ \A j \in 1..Len(buffer) : buffer[j] = answer.parts[Len(stdout) + j]
      BY <2>2, <2>5, LenProperties DEF Behind, Begun
    <3>3. /\ buffer' \in Seq(Part) /\ Len(buffer') = Len(buffer) + 1
          /\ \A j \in 1..Len(buffer) : buffer'[j] = buffer[j]
          /\ buffer'[Len(buffer) + 1] = answer.parts[got + 1]
      <4>1. /\ buffer' = Append(buffer, answer.parts[got + 1])
            /\ answer.parts[got + 1] \in Part
        BY <1>1, <1>2, <2>1, <2>5
      <4> QED
        BY <3>2, <4>1, AppendProperties
    <3>4. Len(stdout) + (Len(buffer) + 1) = got + 1
      BY <3>2
    <3>5. \A j \in 1..Len(buffer') : buffer'[j] = answer.parts[Len(stdout) + j]
      BY <3>2, <3>3, <3>4
    <3>6. Behind'
      BY <1>1, <2>1, <2>5, <3>3, <3>4, <3>5 DEF Behind
    <3> QED
      BY <1>1, <2>1, <2>2, <2>3, <2>5, <3>1, <3>6 DEF Printing, Copying
  <2> QED
    BY <2>4, <2>5
<1>6. CASE PrintEvent
  <2>1. /\ pc = "events"
        /\ IF reader = "gone" THEN pc' = "ended" /\ exit' = "ok" /\ stdout' = stdout
           ELSE stdout' = Append(stdout, answer.parts[got']) /\ pc' = pc /\ exit' = exit
        /\ UNCHANGED <<stderr, buffer, broken, saved>>
    BY <1>6 DEF PrintEvent, End
  <2>2. cmd.sse /\ buffer = <<>> /\ Begun /\ Len(stdout) = got /\ cmd.output = "no"
    BY <2>1 DEF Printing, PrintTypes, Streaming, Early
  <2>3. PrintTypes'
    BY <1>1, <1>2, <2>1 DEF Printing, PrintTypes
  <2>4. CASE reader = "gone"
    <3>1. Over'
      BY <1>1, <1>3, <2>1, <2>4, PrintedIsClean DEF Over
    <3> QED
      BY <2>1, <2>3, <2>4, <3>1 DEF Printing
  <2>5. CASE reader # "gone"
    <3>1. stdout \in Seq(Part) /\ Len(stdout) = got
      BY <2>2 DEF Begun
    <3>2. /\ stdout' \in Seq(Part) /\ Len(stdout') = got + 1
          /\ stdout'[got + 1] = answer.parts[got + 1]
          /\ \A i \in 1..got : stdout'[i] = stdout[i]
      BY <1>1, <1>2, <2>1, <2>5, <3>1, AppendProperties
    <3>3. Begun'
      BY <1>1, <2>2, <3>1, <3>2 DEF Begun
    <3> QED
      BY <1>1, <2>1, <2>2, <2>3, <2>5, <3>2, <3>3 DEF Printing, Streaming
  <2> QED
    BY <2>4, <2>5
<1> QED
  BY <1>4, <1>5, <1>6

\* The thread of Unblock moves one part on, or finds out that nobody reads.
LEMMA WriteOutPrints ==
  ASSUME Printing, WriteOut
  PROVE  Printing'
<1>1. /\ buffer # <<>> /\ exit = "running"
      /\ IF reader = "gone"
         THEN broken' = TRUE /\ buffer' = <<>> /\ stdout' = stdout
         ELSE stdout' = Append(stdout, Head(buffer)) /\ buffer' = Tail(buffer) /\ broken' = broken
      /\ UNCHANGED <<cmd, pc, answer, got, stderr, saved, reader, exit>>
  BY DEF WriteOut, response
<1>2. PrintTypes'
  BY <1>1 DEF Printing, PrintTypes
<1>3. pc # "ended"
  BY <1>1 DEF Printing, Over, Early
<1>4. CASE pc # "ended"
  <2>1. pc = "copy" /\ cmd.output = "no" /\ answer.kind # "json" /\ Begun /\ Behind /\ ~cmd.sse
    BY <1>1, <1>3 DEF Printing, Nothing, Collecting, Streaming, Copying
  <2>2. /\ answer.parts \in Seq(Part) /\ Len(answer.parts) \in Nat /\ got \in Nat
        /\ stdout \in Seq(Part) /\ buffer \in Seq(Part) /\ Len(stdout) \in Nat
        /\ Len(buffer) \in Nat /\ Len(buffer) > 0 /\ ~broken
        /\ Len(stdout) + Len(buffer) = got
        /\ \A i \in 1..Len(stdout) : stdout[i] = answer.parts[i]
        /\ \A j \in 1..Len(buffer) : buffer[j] = answer.parts[Len(stdout) + j]
    BY <1>1, <2>1, AnswerParts, LenProperties, EmptySeq DEF Printing, PrintTypes, Begun, Behind
  <2>3. CASE reader = "gone"
    <3>1. Begun' /\ Behind'
      BY <1>1, <2>1, <2>2, <2>3, EmptySeq DEF Begun, Behind
    <3> QED
      BY <1>1, <1>2, <2>1, <3>1 DEF Printing, Copying
  <2>4. CASE reader # "gone"
    <3>1. /\ Head(buffer) \in Part /\ Head(buffer) = buffer[1]
          /\ Tail(buffer) \in Seq(Part) /\ Len(Tail(buffer)) = Len(buffer) - 1
          /\ \A j \in 1..Len(Tail(buffer)) : Tail(buffer)[j] = buffer[j + 1]
      BY <1>1, <2>2, HeadTailProperties
    <3>2. /\ stdout' \in Seq(Part) /\ Len(stdout') = Len(stdout) + 1
          /\ \A i \in 1..Len(stdout) : stdout'[i] = stdout[i]
          /\ stdout'[Len(stdout) + 1] = answer.parts[Len(stdout) + 1]
      <4>1. stdout' = Append(stdout, buffer[1]) /\ buffer[1] \in Part
        BY <1>1, <2>4, <3>1
      <4>2. buffer[1] = answer.parts[Len(stdout) + 1]
        BY <2>2
      <4>3. /\ stdout' \in Seq(Part) /\ Len(stdout') = Len(stdout) + 1
            /\ \A i \in 1..Len(stdout) : stdout'[i] = stdout[i]
            /\ stdout'[Len(stdout) + 1] = buffer[1]
        BY <2>2, <4>1, AppendProperties
      <4> QED
        BY <4>2, <4>3
    <3>3. Begun'
      <4>1. Len(stdout) + 1 <= got
        BY <2>2
      <4>2. \A i \in 1..Len(stdout') : stdout'[i] = answer.parts[i]
        BY <2>2, <3>2
      <4> QED
        BY <1>1, <3>2, <4>1, <4>2 DEF Begun
    <3>4. (Len(stdout) + 1) + (Len(buffer) - 1) = got
      <4>1. PICK m \in Nat, n \in Nat : m = Len(stdout) /\ n = Len(buffer) /\ m + n = got
        BY <2>2
      <4>2. (m + 1) + (n - 1) = m + n
        OBVIOUS
      <4> QED
        BY <4>1, <4>2
    <3>5. \A j \in 1..Len(Tail(buffer)) : Tail(buffer)[j] = answer.parts[(Len(stdout) + 1) + j]
      <4> SUFFICES ASSUME NEW j \in 1..Len(Tail(buffer))
                   PROVE  Tail(buffer)[j] = answer.parts[(Len(stdout) + 1) + j]
        OBVIOUS
      <4>1. j + 1 \in 1..Len(buffer) /\ Len(stdout) + (j + 1) = (Len(stdout) + 1) + j
        BY <2>2, <3>1
      <4> QED
        BY <2>2, <3>1, <4>1
    <3>6. Behind'
      BY <1>1, <2>2, <2>4, <3>1, <3>2, <3>4, <3>5 DEF Behind
    <3> QED
      BY <1>1, <1>2, <2>1, <3>3, <3>6 DEF Printing, Copying
  <2> QED
    BY <2>3, <2>4
<1> QED
  BY <1>3, <1>4

\* Up to where the body begins, and at its end.
LEMMA HeadPrints ==
  ASSUME ForPipe, Printing, OpenFails \/ OpenEvents \/ PrintHead \/ ChooseOutput
  PROVE  Printing'
<1>1. /\ pc \in Early /\ Nothing /\ exit = "running" /\ (pc = "output" => ~cmd.sse)
      /\ UNCHANGED <<cmd, answer, got, buffer, broken, saved, reader>> /\ stdout' = stdout
  BY DEF OpenFails, OpenEvents, PrintHead, ChooseOutput, response, output, ForPipe, Printing,
     PrintTypes, Early
<1>2. Wanted' = Wanted /\ Nothing'
  BY <1>1 DEF Wanted, Nothing
<1>3. CASE OpenFails
  <2>1. pc' = "ended" /\ exit' = "ok" /\ Report
    BY <1>3 DEF OpenFails, End
  <2>2. stderr' \in Seq(Said) /\ (cmd.quiet \/ Told')
    BY <2>1, Reporting DEF Printing, PrintTypes
  <2>3. Over'
    <3>1. Told' \/ Hushed'
      BY <1>1, <1>2, <2>2 DEF Hushed, Nothing
    <3> QED
      BY <1>1, <1>2, <2>1, <3>1, PrintedIsClean DEF Over
  <2>4. PrintTypes'
    BY <1>1, <2>1, <2>2 DEF Printing, PrintTypes
  <2> QED
    BY <2>1, <2>3, <2>4 DEF Printing
<1>4. CASE OpenEvents
  <2>1. pc' = "events" /\ cmd.sse /\ exit' = exit /\ stderr' = stderr
    BY <1>4 DEF OpenEvents, Goto, output
  <2>2. Streaming'
    BY <1>1, <1>2, <2>1, EmptySeq DEF Nothing, Streaming, Begun
  <2>3. PrintTypes'
    BY <1>1, <2>1 DEF Printing, PrintTypes
  <2> QED
    BY <2>1, <2>2, <2>3 DEF Printing
<1>5. CASE PrintHead
  <2>1. pc' = "output" /\ ~cmd.sse /\ exit' = exit /\ stderr' = stderr
    BY <1>5 DEF PrintHead, Goto
  <2>2. PrintTypes'
    BY <1>1, <2>1 DEF Printing, PrintTypes
  <2> QED
    BY <1>1, <1>2, <2>1, <2>2 DEF Printing, Early
<1>6. CASE ChooseOutput
  <2>1. \/ pc' = "ended" /\ exit' \in {"failed", "panic"}
        \/ pc' = "copy" /\ cmd.output = "named" /\ exit' = exit
        \/ pc' = "copy" /\ cmd.output = "no" /\ exit' = exit /\ answer.kind # "json"
        \/ pc' = "buffer" /\ cmd.output = "no" /\ exit' = exit /\ answer.kind = "json"
    BY <1>6 DEF ChooseOutput, Goto, End
  <2>2. stderr' \in Seq(Said) /\ ~cmd.sse
    <3>1. "no filename" \in Said /\ stderr \in Seq(Said)
      BY DEF Said, Printing, PrintTypes
    <3> QED
      BY <1>1, <1>6, <3>1, AppendProperties DEF ChooseOutput
  <2>3. Begun' /\ Behind' /\ Saved'
    BY <1>2, EmptySeq DEF Nothing, Begun, Behind, Saved
  <2>4. CASE pc' = "ended"
    BY <1>1, <2>1, <2>2, <2>4, FailurePrints
  <2>5. CASE pc' # "ended"
    <3>1. PrintTypes'
      BY <1>1, <2>1, <2>2, <2>5 DEF Printing, PrintTypes
    <3>2. pc' = "buffer" => Collecting'
      BY <1>1, <1>2, <2>1, <2>2 DEF Nothing, Collecting
    <3>3. pc' = "copy" => Copying'
      BY <1>1, <1>2, <2>1, <2>2, <2>3 DEF Nothing, Copying
    <3> QED
      BY <2>1, <2>5, <3>1, <3>2, <3>3 DEF Printing
  <2> QED
    BY <2>4, <2>5
<1> QED
  BY <1>3, <1>4, <1>5, <1>6

LEMMA EndPrints ==
  ASSUME ForPipe, Printing, \/ BufferPart \/ BufferEnds \/ CopyEnds \/ Trailers \/ EventsEnd
                            \/ BodyBreaks \/ EventsBreak
  PROVE  Printing'
<1>1. /\ UNCHANGED <<cmd, answer, buffer, broken, saved, reader>>
      /\ got' = got \/ BufferPart
      /\ stderr' = stderr \/ EventsBreak
  BY DEF BufferPart, BufferEnds, CopyEnds, Trailers, EventsEnd, BodyBreaks, EventsBreak,
     response, output, Arrives
<1>2. /\ answer.parts \in Seq(Part) /\ Len(answer.parts) \in Nat /\ got \in Nat
      /\ stderr \in Seq(Said) /\ Wanted' = Wanted
  BY <1>1, AnswerParts, LenProperties DEF Printing, PrintTypes, Wanted
<1>3. CASE BufferPart
  <2>1. /\ pc = "buffer" /\ pc' = pc /\ exit' = exit /\ got' = got + 1
        /\ got < Len(answer.parts) /\ UNCHANGED <<stdout, stderr>>
    BY <1>3 DEF BufferPart, Arrives, output
  <2>2. PrintTypes'
    BY <1>1, <1>2, <2>1 DEF Printing, PrintTypes
  <2>3. Collecting'
    BY <1>1, <2>1 DEF Printing, Early, Collecting
  <2> QED
    BY <2>1, <2>2, <2>3 DEF Printing
<1>4. CASE BufferEnds
  <2>1. /\ pc = "buffer" /\ Collecting /\ UNCHANGED <<got, stderr>>
        /\ \/ pc' = "trailers" /\ exit' = exit /\ stdout' = Append(stdout, "json")
           \/ pc' = "ended" /\ exit' = "panic" /\ stdout' = stdout
    BY <1>4 DEF BufferEnds, AllArrived, response, Printing, Early, Goto, End
  <2>2. CASE pc' = "trailers"
    <3>1. stdout' = <<"json">> /\ exit' = exit
      BY <2>1, <2>2 DEF Collecting
    <3>2. Complete' /\ ~cmd'.sse /\ buffer' = <<>>
      BY <1>1, <2>1, <3>1 DEF Complete, Wanted, Collecting
    <3>3. PrintTypes'
      BY <1>1, <2>1, <3>1 DEF Printing, PrintTypes
    <3> QED
      BY <2>2, <3>2, <3>3 DEF Printing
  <2>3. CASE pc' = "ended"
    BY <1>1, <1>2, <2>1, <2>3, FailurePrints
  <2> QED
    BY <2>1, <2>2, <2>3
<1>5. CASE CopyEnds
  <2>1. /\ pc = "copy" /\ Copying /\ got = Len(answer.parts) /\ buffer = <<>>
        /\ UNCHANGED <<got, stderr>>
        /\ \/ pc' = "trailers" /\ exit' = exit /\ ~broken /\ stdout' = stdout
           \/ pc' = "trailers" /\ exit' = exit /\ ~broken /\ cmd.output = "named"
           \/ pc' = "ended" /\ exit' = "panic" /\ stdout' = stdout
    BY <1>5 DEF CopyEnds, AllArrived, response, Printing, Early, Goto, End
  <2>2. CASE pc' = "trailers"
    <3>1. exit' = exit /\ ~broken
      BY <2>1, <2>2
    <3>2. CASE cmd.output = "no"
      <4>1. Begun /\ Behind /\ answer.kind # "json" /\ stdout' = stdout
        BY <2>1, <2>2, <3>2 DEF Copying
      <4>2. /\ stdout \in Seq(Part) /\ Len(stdout) = Len(answer.parts)
            /\ \A i \in 1..Len(stdout) : stdout[i] = answer.parts[i]
        BY <2>1, <3>1, <4>1, EmptySeq, LenProperties DEF Begun, Behind
      <4>3. stdout = answer.parts
        BY <1>2, <4>2, SeqEqual
      <4>4. Complete'
        BY <1>1, <3>2, <4>1, <4>3 DEF Complete, Wanted
      <4> QED
        BY <1>1, <2>1, <2>2, <3>1, <4>4 DEF Printing, PrintTypes, Copying
    <3>3. CASE cmd.output # "no"
      <4>1. /\ saved \in Seq(Part) /\ Len(saved) = Len(answer.parts)
            /\ \A i \in 1..Len(saved) : saved[i] = answer.parts[i]
        BY <2>1, <3>3 DEF Copying, Saved
      <4>2. saved = answer.parts
        BY <1>2, <4>1, SeqEqual
      <4>3. Complete'
        BY <1>1, <3>3, <4>2 DEF Complete
      <4> QED
        BY <1>1, <2>1, <2>2, <3>1, <4>3 DEF Printing, PrintTypes, Copying
    <3> QED
      BY <3>2, <3>3
  <2>3. CASE pc' = "ended"
    BY <1>1, <1>2, <2>1, <2>3, FailurePrints
  <2> QED
    BY <2>1, <2>2, <2>3
<1>6. CASE Trailers
  <2>1. pc = "trailers" /\ pc' = "ended" /\ exit' = "ok" /\ UNCHANGED <<stdout, got, stderr>>
    BY <1>6 DEF Trailers, response, ForPipe, End
  <2>2. Complete'
    BY <1>1, <1>2, <2>1 DEF Printing, Early, Complete
  <2>3. PrintTypes'
    BY <1>1, <2>1 DEF Printing, PrintTypes
  <2>4. Over'
    BY <1>1, <1>2, <2>1, <2>2, PrintedIsClean DEF Over
  <2> QED
    BY <2>1, <2>3, <2>4 DEF Printing
<1>7. CASE EventsEnd
  <2>1. /\ pc = "events" /\ got = Len(answer.parts) /\ pc' = "ended" /\ exit' = "ok"
        /\ UNCHANGED <<stdout, got, stderr>>
    BY <1>7 DEF EventsEnd, AllArrived, response, output, End
  <2>2. Begun /\ Len(stdout) = got /\ cmd.sse /\ cmd.output = "no"
    BY <2>1 DEF Printing, PrintTypes, Early, Streaming
  <2>3. stdout = answer.parts
    BY <1>2, <2>1, <2>2, SeqEqual DEF Begun
  <2>4. Complete'
    BY <1>1, <2>1, <2>2, <2>3 DEF Complete, Wanted
  <2>5. PrintTypes'
    BY <1>1, <2>1 DEF Printing, PrintTypes
  <2>6. Over'
    BY <1>1, <1>2, <2>1, <2>4, PrintedIsClean DEF Over
  <2> QED
    BY <2>1, <2>5, <2>6 DEF Printing
<1>8. CASE BodyBreaks
  <2>1. pc' = "ended" /\ exit' = "panic" /\ UNCHANGED <<stdout, stderr, got>>
    BY <1>8 DEF BodyBreaks, response, output, End
  <2> QED
    BY <1>1, <1>2, <2>1, FailurePrints
<1>9. CASE EventsBreak
  <2>1. /\ pc' = "ended" /\ exit' = "ok" /\ Report /\ UNCHANGED <<stdout, got>>
        /\ cmd.sse
    BY <1>9 DEF EventsBreak, response, End, Printing, Early, Streaming
  <2>2. stderr' \in Seq(Said) /\ (cmd.quiet \/ Told')
    BY <1>2, <2>1, Reporting
  <2>3. Over'
    <3>1. Told' \/ Hushed'
      BY <1>1, <2>1, <2>2 DEF Hushed
    <3> QED
      BY <1>1, <1>2, <2>1, <3>1, PrintedIsClean DEF Over
  <2>4. PrintTypes'
    BY <1>1, <2>1, <2>2 DEF Printing, PrintTypes
  <2> QED
    BY <2>1, <2>3, <2>4 DEF Printing
<1> QED
  BY <1>3, <1>4, <1>5, <1>6, <1>7, <1>8, <1>9

LEMMA StepPrints == ForPipe /\ Printing /\ [Next]_vars => Printing'
<1> SUFFICES ASSUME ForPipe, Printing, [Next]_vars PROVE Printing'
  OBVIOUS
<1> USE DEF request, response
<1>1. CASE BuildFile \/ BuildArg \/ BuildNoBody \/ BuildProbe
  <2>1. UNCHANGED <<cmd, answer, got, stderr, output, reader>> /\ pc \in Early
    BY <1>1 DEF BuildFile, BuildArg, BuildNoBody, BuildProbe, output, Early
  <2>2. \/ pc' = "built" /\ exit' = exit
        \/ pc' = "ended" /\ exit' = "panic"
    BY <1>1 DEF BuildFile, BuildArg, BuildNoBody, BuildProbe, Goto, End
  <2>3. CASE pc' = "built"
    BY <2>1, <2>2, <2>3, QuietPrints DEF Early
  <2>4. CASE pc' = "ended"
    <3>1. stderr' \in Seq(Said)
      BY <2>1 DEF Printing, PrintTypes
    <3> QED
      BY <2>1, <2>2, <2>4, <3>1, FailurePrints
  <2> QED
    BY <2>2, <2>3, <2>4
<1>2. CASE DryRun
  BY <1>2 DEF DryRun, ForPipe
<1>3. CASE StartAttempt \/ UploadChained \/ UploadStdin \/ UploadEnds
  <2>1. /\ UNCHANGED <<cmd, answer, got, stderr, output, reader, exit>> /\ pc \in Early
        /\ pc' \in {"upload", "wait"}
    BY <1>3 DEF StartAttempt, UploadChained, UploadStdin, UploadEnds, output, Early, Goto
  <2> QED
    BY <2>1, QuietPrints DEF Early
<1>4. CASE TimesOut \/ TransportFails \/ ServerAnswers
  BY <1>4, AttemptPrints
<1>5. CASE OpenFails \/ OpenEvents \/ PrintHead \/ ChooseOutput
  BY <1>5, HeadPrints
<1>6. CASE CopyToFile \/ CopyToStdout \/ PrintEvent
  BY <1>6, ArrivalPrints
<1>7. CASE WriteOut
  BY <1>7, WriteOutPrints
<1>8. CASE \/ BufferPart \/ BufferEnds \/ CopyEnds \/ Trailers \/ EventsEnd
           \/ BodyBreaks \/ EventsBreak
  BY <1>8, EndPrints
<1>9. CASE WriteStdin \/ CloseStdin \/ ReaderGoes \/ AnswerEnds \/ UNCHANGED vars
  <2>1. /\ UNCHANGED <<cmd, answer, got, stderr, output, exit, pc>>
        /\ reader' = reader \/ reader' = "gone"
    <3>1. CASE WriteStdin \/ CloseStdin
      BY <3>1 DEF WriteStdin, CloseStdin, output
    <3>2. CASE ReaderGoes \/ AnswerEnds \/ UNCHANGED vars
      BY <3>2 DEF ReaderGoes, AnswerEnds, vars, output
    <3> QED
      BY <1>9, <3>1, <3>2
  <2> QED
    BY <2>1, QuietPrints
<1> QED
  BY <1>1, <1>2, <1>3, <1>4, <1>5, <1>6, <1>7, <1>8, <1>9 DEF Next, ClientStep, AnswerStep

LEMMA CommandStays == [Next]_vars => cmd' = cmd
BY DEF Next, ClientStep, AnswerStep, BuildFile, BuildArg, BuildNoBody, BuildProbe, DryRun,
   StartAttempt, UploadChained, UploadStdin, UploadEnds, TimesOut, OpenFails, OpenEvents,
   PrintHead, ChooseOutput, WriteOut, Trailers, BufferPart, BufferEnds, CopyToFile,
   CopyToStdout, CopyEnds, PrintEvent, EventsEnd, AnswerEnds, ServerAnswers, TransportFails, BodyBreaks,
   EventsBreak, WriteStdin, CloseStdin, ReaderGoes, AttemptOver, vars

\* A command line for a pipe stays one; for any other there is nothing to show.
Printed == ForPipe => Printing

LEMMA PrintedKept == Printed /\ [Next]_vars => Printed'
BY CommandStays, StepPrints DEF Printed, ForPipe

\* `trillium client URL | ...`, whatever attempts, parts, the writing thread and the
\* reader of the pipe do in turns: nothing but the last answer's body gets there,
\* from its beginning, in order.
THEOREM PipedOutputIsClean == Spec => []OutputClean
<1>1. Printed => OutputClean
  BY PrintedIsClean DEF Printed, ForPipe, OutputClean
<1>2. Init => Printed
  BY InitPrints DEF Printed
<1> QED
  BY <1>1, <1>2, PrintedKept, PTL DEF Spec

\* Success is never reported for a part of the answer: neither on stdout nor in the
\* file of --output, unless stderr says so or nobody reads on; under -q, for nothing at all
\* or for the beginning of an event stream only.
THEOREM PipedOutputIsWhole == Spec => []OutputWhole
<1>1. Printed => OutputWhole
  <2> SUFFICES ASSUME Printed, ForPipe, exit = "ok" PROVE  reader = "gone" \/ Told \/ Complete \/ Hushed
    BY DEF OutputWhole, ForPipe, Told, Complete, Hushed
  <2>1. pc = "ended" /\ Over
    BY DEF Printed, Printing, PrintTypes, Early
  <2> QED
    BY <2>1 DEF Over
<1>2. Init => Printed
  BY InitPrints DEF Printed
<1> QED
  BY <1>1, <1>2, PrintedKept, PTL DEF Spec
=============================================================================
