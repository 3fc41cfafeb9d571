---------------------------- MODULE FilesProofs ----------------------------
(***************************************************************************)
(* Proofs about Files, for any handlers, files, links and edits of the     *)
(* directory: no answer carries validators that do not fit its body, none  *)
(* loses a line of its file but to the highlighter, a row that links       *)
(* to `?render` shows a page, every link of a listing leads where it says, *)
(* and a click on a header turns its rows over.                            *)
(***************************************************************************)
EXTENDS Files, SequenceTheorems, FiniteSetTheorems, FunctionTheorems, WellFoundedInduction,
        TLAPS

-----------------------------------------------------------------------------
(* Induction, and folds over sequences                                     *)

\* Induction: a set with 0 in it, and with each number its successor, has them all.
LEMMA Induction ==
  ASSUME NEW T, 0 \in T, \A n \in Nat : n \in T => n + 1 \in T
  PROVE  \A n \in Nat : n \in T
<1> DEFINE R == {ss \in Nat \X Nat : ss[1] < ss[2]}
           Out == Nat \ T
<1> SUFFICES ASSUME Out # {} PROVE FALSE
  OBVIOUS
<1>1. IsWellFoundedOn(R, Nat)
  BY NatLessThanWellFounded DEF OpToRel
<1>2. PICK x \in Out : \A y \in Out : ~ (<<y, x>> \in R)
  <2>1. Out \subseteq Nat
    OBVIOUS
  <2> HIDE DEF R, Out
  <2> QED
    BY <1>1, <2>1, WFMin
<1>3. x \in Nat /\ x # 0 /\ x - 1 \in Nat
  OBVIOUS
<1>4. x - 1 \in Out
  <2>1. x - 1 \in T => (x - 1) + 1 \in T
    BY <1>3
  <2>2. (x - 1) + 1 = x
    BY <1>3
  <2> QED
    BY <1>3, <2>1, <2>2
<1>5. <<x - 1, x>> \in R
  BY <1>3
<1> QED
  BY <1>2, <1>4, <1>5

\* The maximum of a set with a largest number in it.
LEMMA MaxOfTop ==
  ASSUME NEW m \in Nat, NEW s \in SUBSET (1..m), m \in s
  PROVE  Max(s) = m
<1>1. \A y \in s : m >= y
  OBVIOUS
<1>2. Max(s) \in s /\ \A y \in s : Max(s) >= y
  BY <1>1 DEF Max
<1> DEFINE top == Max(s)
<1>3. top \in 1..m /\ top >= m
  BY <1>2
<1>4. top = m
  <2> HIDE DEF top
  <2> QED
    BY <1>3
<1> QED
  BY <1>4

\* Every set of numbers up to n but the empty one has a largest.
LEMMA HasTop ==
  ASSUME NEW n \in Nat, NEW s \in SUBSET (1..n), s # {}
  PROVE  \E x \in s : \A y \in s : x >= y
<1> DEFINE T == {m \in Nat : \A t \in SUBSET (1..m) :
                              t # {} => \E x \in t : \A y \in t : x >= y}
<1>1. 0 \in T
  <2>1. 1..0 = {}
    OBVIOUS
  <2> QED
    BY <2>1
<1>2. ASSUME NEW m \in Nat, m \in T PROVE m + 1 \in T
  <2> SUFFICES ASSUME NEW t \in SUBSET (1..m+1), t # {}
               PROVE  \E x \in t : \A y \in t : x >= y
    OBVIOUS
  <2>1. CASE m + 1 \in t
    <3>1. \A y \in t : m + 1 >= y
      OBVIOUS
    <3> QED
      BY <2>1, <3>1
  <2>2. CASE m + 1 \notin t
    <3>1. \A x \in t : x \in 1..m
      BY <2>2
    <3>2. t \in SUBSET (1..m)
      BY <3>1
    <3> QED
      BY <1>2, <3>2
  <2> QED
    BY <2>1, <2>2
<1>3. n \in T
  <2> HIDE DEF T
  <2> QED
    BY <1>1, <1>2, Induction
<1> QED
  BY <1>3

LEMMA MaxIsIn ==
  ASSUME NEW n \in Nat, NEW s \in SUBSET (1..n), s # {}
  PROVE  Max(s) \in s
BY HasTop DEF Max

\* What a fold by a step that keeps to a set computes on sets of indices.
IsFold(g, A, base, step, m) ==
  /\ g \in [SUBSET (1..m) -> A]
  /\ \A s \in SUBSET (1..m) :
       g[s] = IF s = {} THEN base ELSE step[<<g[s \ {Max(s)}], Max(s)>>]

\* A fold over m elements goes on to one more.
LEMMA FoldGrows ==
  ASSUME NEW A, NEW base \in A, NEW n \in Nat, NEW step \in [A \X (1..n) -> A],
         NEW m \in Nat, m < n, NEW g, IsFold(g, A, base, step, m)
  PROVE  \E h : IsFold(h, A, base, step, m + 1)
<1> DEFINE h == [s \in SUBSET (1..m+1) |-> IF m + 1 \in s THEN step[<<g[s \ {m + 1}], m + 1>>]
                                           ELSE g[s]]
<1>1. ASSUME NEW s \in SUBSET (1..m+1), m + 1 \in s
      PROVE  /\ s \ {m + 1} \in SUBSET (1..m) /\ Max(s) = m + 1
             /\ h[s] \in A /\ h[s] = step[<<h[s \ {Max(s)}], Max(s)>>]
  <2>1. s \ {m + 1} \in SUBSET (1..m) /\ s \ {m + 1} \in SUBSET (1..m+1)
    BY <1>1
  <2>2. Max(s) = m + 1
    BY <1>1, MaxOfTop
  <2>3. g[s \ {m + 1}] \in A /\ m + 1 \in 1..n
    BY <2>1 DEF IsFold
  <2>4. h[s \ {m + 1}] = g[s \ {m + 1}]
    BY <2>1
  <2>5. h[s] = step[<<g[s \ {m + 1}], m + 1>>]
    BY <1>1
  <2> QED
    BY <2>1, <2>2, <2>3, <2>4, <2>5
<1>2. ASSUME NEW s \in SUBSET (1..m+1), m + 1 \notin s
      PROVE  /\ h[s] \in A
             /\ h[s] = IF s = {} THEN base ELSE step[<<h[s \ {Max(s)}], Max(s)>>]
  <2>1. s \in SUBSET (1..m) /\ s \ {Max(s)} \in SUBSET (1..m)
    <3>1. \A x \in s : x \in 1..m
      BY <1>2
    <3> QED
      BY <3>1
  <2>2. h[s] = g[s] /\ h[s \ {Max(s)}] = g[s \ {Max(s)}]
    BY <1>2, <2>1
  <2> QED
    BY <2>1, <2>2 DEF IsFold
<1>3. h \in [SUBSET (1..m+1) -> A]
  BY <1>1, <1>2
<1>4. \A s \in SUBSET (1..m+1) :
        h[s] = IF s = {} THEN base ELSE step[<<h[s \ {Max(s)}], Max(s)>>]
  BY <1>1, <1>2
<1> HIDE DEF h
<1> QED
  BY <1>3, <1>4 DEF IsFold

\* Such a fold is there, however long the sequence.
LEMMA FoldExists ==
  ASSUME NEW A, NEW base \in A, NEW n \in Nat, NEW step \in [A \X (1..n) -> A]
  PROVE  \E g : IsFold(g, A, base, step, n)
<1> DEFINE T == {m \in Nat : m <= n => \E g : IsFold(g, A, base, step, m)}
<1>1. 0 \in T
  <2> DEFINE g == [s \in SUBSET (1..0) |-> base]
  <2>1. IsFold(g, A, base, step, 0)
    BY DEF IsFold
  <2> QED
    BY <2>1
<1>2. ASSUME NEW m \in Nat, m \in T PROVE m + 1 \in T
  BY <1>2, FoldGrows
<1>3. n \in T
  <2> HIDE DEF T
  <2> QED
    BY <1>1, <1>2, Induction
<1> QED
  BY <1>3

\* The numbers up to n, one by one.
LEMMA EmptyUpto == ASSUME NEW n PROVE 1 .. 0 = {} /\ {} \in SUBSET (1 .. n)
OBVIOUS

LEMMA TopOfUpto ==
  ASSUME NEW n \in Nat, NEW k \in 0 .. n - 1
  PROVE  /\ 1 .. k + 1 \in SUBSET (1 .. n) /\ 1 .. k + 1 # {} /\ Max(1 .. k + 1) = k + 1
         /\ (1 .. k + 1) \ {k + 1} = 1 .. k
<1>1. k + 1 \in Nat /\ 1 .. k + 1 \in SUBSET (1 .. k + 1) /\ k + 1 \in 1 .. k + 1
  OBVIOUS
<1>2. Max(1 .. k + 1) = k + 1
  BY <1>1, MaxOfTop
<1>3. 1 .. k + 1 \in SUBSET (1 .. n)
  OBVIOUS
<1>4. (1 .. k + 1) \ {k + 1} = 1 .. k
  OBVIOUS
<1> QED
  BY <1>1, <1>2, <1>3, <1>4

-----------------------------------------------------------------------------
(* Flattening                                                              *)

\* What FlattenSeq computes on the first m of the sequences it is given.
IsFlat(f, seqs, m) ==
  f = [i \in 1 .. m |-> IF i = 1 THEN seqs[i] ELSE f[i - 1] \o seqs[i]]

\* One more sequence is appended to what the first k are flattened to.
LEMMA FlatStep ==
  ASSUME NEW f, NEW seqs, NEW m \in Nat, IsFlat(f, seqs, m), NEW k \in Nat, k + 1 <= m
  PROVE  f[k + 1] = IF k = 0 THEN seqs[k + 1] ELSE f[k] \o seqs[k + 1]
<1>1. k + 1 \in 1 .. m
  OBVIOUS
<1>2. \A i \in 1 .. m : f[i] = IF i = 1 THEN seqs[i] ELSE f[i - 1] \o seqs[i]
  BY DEF IsFlat
<1>3. k + 1 - 1 = k /\ (k + 1 = 1 <=> k = 0)
  OBVIOUS
<1> QED
  BY <1>1, <1>2, <1>3

LEMMA FlatGrows ==
  ASSUME NEW f, NEW seqs, NEW m \in Nat, IsFlat(f, seqs, m)
  PROVE  \E g : IsFlat(g, seqs, m + 1)
<1> DEFINE g == [i \in 1 .. m + 1 |-> IF i = m + 1
                   THEN IF i = 1 THEN seqs[i] ELSE f[i - 1] \o seqs[i] ELSE f[i]]
<1>1. ASSUME NEW i \in 1 .. m + 1
      PROVE  g[i] = IF i = 1 THEN seqs[i] ELSE g[i - 1] \o seqs[i]
  <2>1. i # 1 => i - 1 \in 1 .. m + 1 /\ i - 1 # m + 1 /\ g[i - 1] = f[i - 1]
    OBVIOUS
  <2>2. CASE i = m + 1
    BY <2>1, <2>2
  <2>3. CASE i # m + 1
    <3>1. i \in 1 .. m
      BY <2>3
    <3>2. g[i] = f[i]
      BY <2>3
    <3>3. f[i] = IF i = 1 THEN seqs[i] ELSE f[i - 1] \o seqs[i]
      BY <3>1 DEF IsFlat
    <3> QED
      BY <2>1, <3>2, <3>3
  <2> QED
    BY <2>2, <2>3
<1>2. g = [i \in 1 .. m + 1 |-> g[i]]
  OBVIOUS
<1> HIDE DEF g
<1>3. g = [i \in 1 .. m + 1 |-> IF i = 1 THEN seqs[i] ELSE g[i - 1] \o seqs[i]]
  BY <1>1, <1>2
<1> QED
  BY <1>3 DEF IsFlat

LEMMA FlatExists ==
  ASSUME NEW seqs, NEW n \in Nat
  PROVE  \E f : IsFlat(f, seqs, n)
<1> DEFINE T == {m \in Nat : \E f : IsFlat(f, seqs, m)}
<1>1. 0 \in T
  <2> DEFINE f == [i \in 1 .. 0 |-> seqs[1]]
  <2>1. f = [i \in 1 .. 0 |-> IF i = 1 THEN seqs[i] ELSE f[i - 1] \o seqs[i]]
    OBVIOUS
  <2> QED
    BY <2>1 DEF IsFlat
<1>2. ASSUME NEW m \in Nat, m \in T PROVE m + 1 \in T
  BY <1>2, FlatGrows
<1>3. n \in T
  <2> HIDE DEF T
  <2> QED
    BY <1>1, <1>2, Induction
<1> QED
  BY <1>3

\* Its values are sequences.
LEMMA FlatTypes ==
  ASSUME NEW E, NEW seqs \in Seq(Seq(E)), NEW f, IsFlat(f, seqs, Len(seqs))
  PROVE  \A i \in 1 .. Len(seqs) : f[i] \in Seq(E)
<1> DEFINE n == Len(seqs)
           T == {m \in Nat : m \in 1 .. n => f[m] \in Seq(E)}
<1>1. n \in Nat /\ \A i \in 1 .. n : seqs[i] \in Seq(E)
  BY LenProperties, ElementOfSeq
<1>2. 0 \in T
  OBVIOUS
<1>3. ASSUME NEW m \in Nat, m \in T PROVE m + 1 \in T
  <2> SUFFICES ASSUME m + 1 \in 1 .. n PROVE f[m + 1] \in Seq(E)
    OBVIOUS
  <2>1. f[m + 1] = IF m = 0 THEN seqs[m + 1] ELSE f[m] \o seqs[m + 1]
    BY <1>1, FlatStep
  <2>2. CASE m = 0
    BY <1>1, <2>1, <2>2
  <2>3. CASE m # 0
    <3>1. f[m] \in Seq(E) /\ seqs[m + 1] \in Seq(E)
      BY <1>1, <1>3, <2>3
    <3>2. f[m] \o seqs[m + 1] \in Seq(E)
      BY <3>1, ConcatProperties
    <3> QED
      BY <2>1, <2>3, <3>2
  <2> QED
    BY <2>2, <2>3
<1>4. \A m \in Nat : m \in T
  <2> HIDE DEF T
  <2> QED
    BY <1>2, <1>3, Induction
<1> QED
  BY <1>1, <1>4

\* It depends on the sequences up to an index only.
LEMMA FlatAgrees ==
  ASSUME NEW s, NEW t, NEW f, NEW g, NEW j \in Nat, NEW k \in Nat,
         IsFlat(f, s, j), IsFlat(g, t, k), NEW n \in Nat, n <= j, n <= k,
         \A i \in 1 .. n : s[i] = t[i]
  PROVE  \A i \in 1 .. n : f[i] = g[i]
<1> DEFINE T == {m \in Nat : m \in 1 .. n => f[m] = g[m]}
<1>1. 0 \in T
  OBVIOUS
<1>2. ASSUME NEW m \in Nat, m \in T PROVE m + 1 \in T
  <2> SUFFICES ASSUME m + 1 \in 1 .. n PROVE f[m + 1] = g[m + 1]
    OBVIOUS
  <2>1. /\ f[m + 1] = IF m = 0 THEN s[m + 1] ELSE f[m] \o s[m + 1]
        /\ g[m + 1] = IF m = 0 THEN t[m + 1] ELSE g[m] \o t[m + 1]
    BY FlatStep
  <2>2. m # 0 => f[m] = g[m]
    BY <1>2
  <2> QED
    BY <2>1, <2>2
<1>3. \A m \in Nat : m \in T
  <2> HIDE DEF T
  <2> QED
    BY <1>1, <1>2, Induction
<1> QED
  BY <1>3

LEMMA FlatExtends ==
  ASSUME NEW s, NEW t, NEW f, NEW g, NEW n \in Nat, IsFlat(f, s, n), IsFlat(g, t, n + 1),
         \A i \in 1 .. n : s[i] = t[i]
  PROVE  \A i \in 1 .. n : f[i] = g[i]
<1>1. n <= n /\ n <= n + 1 /\ n + 1 \in Nat
  OBVIOUS
<1> QED
  BY <1>1, FlatAgrees

\* FlattenSeq takes its value from there.
LEMMA FlattenIsFlat ==
  ASSUME NEW seqs, NEW n \in Nat, n = Len(seqs), NEW f, IsFlat(f, seqs, n)
  PROVE  FlattenSeq(seqs) = IF n = 0 THEN seqs ELSE f[n]
<1> DEFINE flat == CHOOSE g : IsFlat(g, seqs, n)
<1>1. FlattenSeq(seqs) = IF n = 0 THEN seqs ELSE flat[n]
  BY DEF FlattenSeq, IsFlat
<1>2. IsFlat(flat, seqs, n)
  BY FlatExists
<1>3. \A i \in 1 .. n : f[i] = flat[i]
  <2>1. n <= n /\ \A i \in 1 .. n : seqs[i] = seqs[i]
    OBVIOUS
  <2> HIDE DEF flat
  <2> QED
    BY <1>2, <2>1, FlatAgrees
<1> HIDE DEF flat
<1> QED
  BY <1>1, <1>3

\* Flattening gives a sequence, and goes from left to right.
LEMMA FlattenAppend ==
  ASSUME NEW E, NEW seqs \in Seq(Seq(E)), NEW seq \in Seq(E)
  PROVE  /\ FlattenSeq(seqs) \in Seq(E)
         /\ FlattenSeq(Append(seqs, seq)) = FlattenSeq(seqs) \o seq
<1>1. PICK n \in Nat : n = Len(seqs)
  BY LenProperties
<1>2. PICK more : more = Append(seqs, seq)
  OBVIOUS
<1>3. /\ more \in Seq(Seq(E)) /\ Len(more) = n + 1 /\ n + 1 \in Nat
      /\ more[n + 1] = seq /\ \A i \in 1 .. n : seqs[i] = more[i]
  BY <1>1, <1>2, AppendProperties
<1>4. PICK f : IsFlat(f, seqs, n)
  BY FlatExists
<1>5. PICK g : IsFlat(g, more, n + 1)
  BY <1>3, FlatExists
<1>6. \A i \in 1 .. n : f[i] = g[i]
  BY <1>3, <1>4, <1>5, FlatExtends
<1>7. FlattenSeq(seqs) = IF n = 0 THEN seqs ELSE f[n]
  BY <1>1, <1>4, FlattenIsFlat
<1>8. FlattenSeq(more) = g[n + 1]
  BY <1>3, <1>5, FlattenIsFlat
<1>9. g[n + 1] = IF n = 0 THEN more[n + 1] ELSE g[n] \o more[n + 1]
  BY <1>3, <1>5, n + 1 <= n + 1, FlatStep
<1>10. CASE n = 0
  <2>1. seqs = <<>>
    BY <1>1, <1>10, EmptySeq
  <2>2. FlattenSeq(seqs) = <<>> /\ FlattenSeq(more) = seq
    BY <1>3, <1>7, <1>8, <1>9, <1>10, <2>1
  <2> QED
    BY <1>2, <2>2, ConcatEmptySeq, EmptySeq
<1>11. CASE n # 0
  <2>1. f[n] \in Seq(E) /\ g[n] = f[n]
    BY <1>1, <1>4, <1>6, <1>11, FlatTypes
  <2> QED
    BY <1>2, <1>3, <1>7, <1>8, <1>9, <1>11, <2>1
<1> QED
  BY <1>10, <1>11

-----------------------------------------------------------------------------
(* Rendering                                                               *)

\* Text, one event at a time.
LEMMA TextBySteps ==
  ASSUME NEW E, NEW source \in Seq(E), NEW n \in Nat, n = Len(source)
  PROVE  \E text : /\ text[0] = <<>> /\ text[n] = Text(source)
                   /\ \A k \in 0 .. n - 1 :
                        text[k + 1] = IF source[k + 1].tag = "text"
                                      THEN Append(text[k], source[k + 1]) ELSE text[k]
<1> DEFINE Step(text, event) == IF event.tag = "text" THEN Append(text, event) ELSE text
           step == [a \in Seq(E) \X (1 .. n) |-> Step(a[1], source[a[2]])]
           IsIter(g) == g = [s \in SUBSET (1 .. n) |->
                               IF s = {} THEN <<>> ELSE Step(g[s \ {Max(s)}], source[Max(s)])]
           iter == CHOOSE g : IsIter(g)
<1>1. DOMAIN source = 1 .. n
  BY LenProperties
<1>2. Text(source) = iter[1 .. n]
  BY <1>1 DEF Text, FoldLeft, MapThenFoldSet
<1>3. \E g : IsIter(g)
  <2>1. <<>> \in Seq(E) /\ step \in [Seq(E) \X (1 .. n) -> Seq(E)]
    <3>1. ASSUME NEW text \in Seq(E), NEW i \in 1 .. n PROVE Step(text, source[i]) \in Seq(E)
      BY ElementOfSeq, AppendProperties
    <3> QED
      BY <3>1, EmptySeq
  <2>2. PICK g : IsFold(g, Seq(E), <<>>, step, n)
    <3> HIDE DEF step
    <3> QED
      BY <2>1, FoldExists
  <2>3. ASSUME NEW s \in SUBSET (1 .. n), s # {}
        PROVE  g[s] = Step(g[s \ {Max(s)}], source[Max(s)])
    <3>1. Max(s) \in 1 .. n
      BY <2>3, MaxIsIn
    <3>2. g[s \ {Max(s)}] \in Seq(E) /\ g[s] = step[<<g[s \ {Max(s)}], Max(s)>>]
      <4>1. s \ {Max(s)} \in SUBSET (1 .. n)
        OBVIOUS
      <4> QED
        BY <2>2, <2>3, <4>1 DEF IsFold
    <3> QED
      BY <3>1, <3>2
  <2>4. g \in [SUBSET (1 .. n) -> Seq(E)] /\ g[{}] = <<>>
    <3>1. {} \in SUBSET (1 .. n)
      OBVIOUS
    <3> QED
      BY <2>2, <3>1 DEF IsFold
  <2>5. \A s \in SUBSET (1 .. n) :
          g[s] = IF s = {} THEN <<>> ELSE Step(g[s \ {Max(s)}], source[Max(s)])
    BY <2>3, <2>4
  <2>6. IsIter(g)
    <3> HIDE DEF Step
    <3> QED
      BY <2>4, <2>5
  <2> QED
    BY <2>6
<1>4. IsIter(iter)
  <2> HIDE DEF IsIter
  <2> QED
    BY <1>3
<1> HIDE DEF iter, Step
<1> DEFINE text == [k \in 0 .. n |-> iter[1 .. k]]
<1>5. text[0] = <<>> /\ text[n] = iter[1 .. n]
  BY <1>4, EmptyUpto
<1>6. ASSUME NEW k \in 0 .. n - 1 PROVE text[k + 1] = Step(text[k], source[k + 1])
  <2>1. /\ 1 .. k + 1 \in SUBSET (1 .. n) /\ 1 .. k + 1 # {} /\ Max(1 .. k + 1) = k + 1
        /\ (1 .. k + 1) \ {k + 1} = 1 .. k
    BY TopOfUpto
  <2>2. iter[1 .. k + 1] = Step(iter[1 .. k], source[k + 1])
    BY <1>4, <2>1
  <2> QED
    BY <2>2
<1> QED
  <2> HIDE DEF text
  <2> QED
    BY <1>2, <1>5, <1>6 DEF Step

\* What markdown_to_html keeps while it goes through the events of a source.
DoneOf(source, E) ==
  [open : BOOLEAN, lang : {""} \cup {source[i].lang : i \in 1 .. Len(source)},
   code : Seq(E), html : Seq(Seq(E \cup {Gap}))]

Nothing == [open |-> FALSE, lang |-> "", code |-> <<>>, html |-> <<>>]

\* What is put out for a source has its length, and its lines or gaps.
LEMMA FencedTypes ==
  ASSUME NEW E, NEW source \in Seq(E), NEW lang
  PROVE  /\ HighlightFenced(lang, source) \in Seq(E \cup {Gap})
         /\ Spans(source) \in Seq(E \cup {Gap}) /\ Len(Spans(source)) = Len(source)
         /\ \A i \in 1 .. Len(source) : Spans(source)[i] = Emitted(source[i])
<1>1. PICK n \in Nat : n = Len(source)
  BY LenProperties
<1>2. /\ DOMAIN source = 1 .. n /\ source \in [1 .. n -> E]
      /\ \A i \in 1 .. n : source[i] \in E /\ Emitted(source[i]) \in E \cup {Gap}
  BY <1>1, LenProperties, ElementOfSeq DEF Emitted
<1>3. Spans(source) \in [1 .. n -> E \cup {Gap}] /\ source \in [1 .. n -> E \cup {Gap}]
  BY <1>2 DEF Spans
<1>4. Spans(source) \in Seq(E \cup {Gap}) /\ source \in Seq(E \cup {Gap})
  BY <1>3, SeqDef
<1> QED
  BY <1>1, <1>2, <1>3, <1>4, LenProperties DEF HighlightFenced, Spans

\* An event of the source leaves what markdown_to_html keeps well typed.
LEMMA RewriteTypes ==
  ASSUME NEW E, NEW source \in Seq(E), NEW done \in DoneOf(source, E), NEW i \in 1 .. Len(source)
  PROVE  RewriteStep(done, source[i]) \in DoneOf(source, E)
<1>1. /\ source[i] \in E /\ source[i].lang \in {source[j].lang : j \in 1 .. Len(source)}
      /\ <<>> \in Seq(E)
  BY ElementOfSeq, EmptySeq
<1>2. Append(done.code, source[i]) \in Seq(E)
  BY <1>1, AppendProperties DEF DoneOf
<1>0. <<source[i]>> \in Seq(E \cup {Gap})
  <2>1. <<source[i]>> = Append(<<>>, source[i]) /\ <<>> \in Seq(E \cup {Gap})
    BY EmptySeq
  <2> QED
    BY <1>1, <2>1, AppendProperties
<1>3. ASSUME NEW block \in Seq(E \cup {Gap})
      PROVE  Append(done.html, block) \in Seq(Seq(E \cup {Gap}))
  BY AppendProperties DEF DoneOf
<1> DEFINE event == source[i]
<1>4. CASE event.tag = "code"
  <2>1. RewriteStep(done, event) = [done EXCEPT !.open = TRUE, !.lang = event.lang, !.code = <<>>]
    BY <1>4 DEF RewriteStep
  <2> QED
    BY <1>1, <2>1 DEF DoneOf
<1>5. CASE event.tag = "text" /\ done.open
  <2>1. RewriteStep(done, event) = [done EXCEPT !.code = Append(@, event)]
    BY <1>5 DEF RewriteStep
  <2> QED
    BY <1>2, <2>1 DEF DoneOf
<1>6. CASE event.tag = "end"
  <2> DEFINE html == Append(done.html, HighlightFenced(done.lang, done.code))
  <2>1. RewriteStep(done, event) = [done EXCEPT !.open = FALSE, !.html = html]
    BY <1>6 DEF RewriteStep
  <2>2. done.code \in Seq(E)
    BY DEF DoneOf
  <2>3. html \in Seq(Seq(E \cup {Gap}))
    BY <1>3, <2>2, FencedTypes
  <2> HIDE DEF html
  <2> QED
    BY <2>1, <2>3 DEF DoneOf
<1>7. CASE event.tag # "code" /\ ~(event.tag = "text" /\ done.open) /\ event.tag # "end"
  <2>1. RewriteStep(done, event) = [done EXCEPT !.html = Append(@, <<event>>)]
    BY <1>7 DEF RewriteStep
  <2> QED
    BY <1>0, <1>3, <2>1 DEF DoneOf
<1> QED
  BY <1>4, <1>5, <1>6, <1>7

\* markdown_to_html, one event at a time.
LEMMA RewriteBySteps ==
  ASSUME NEW E, NEW source \in Seq(E), NEW n \in Nat, n = Len(source)
  PROVE  \E done : /\ done[0] = Nothing /\ done[n].html = MarkdownToHtml(source)
                   /\ \A k \in 0 .. n - 1 : done[k + 1] = RewriteStep(done[k], source[k + 1])
<1> DEFINE A == DoneOf(source, E)
           step == [a \in A \X (1 .. n) |-> RewriteStep(a[1], source[a[2]])]
           IsIter(g) == g = [s \in SUBSET (1 .. n) |->
                               IF s = {} THEN Nothing
                               ELSE RewriteStep(g[s \ {Max(s)}], source[Max(s)])]
           iter == CHOOSE g : IsIter(g)
<1>1. DOMAIN source = 1 .. n
  BY LenProperties
<1>2. MarkdownToHtml(source) = iter[1 .. n].html
  BY <1>1 DEF MarkdownToHtml, FoldLeft, MapThenFoldSet, Nothing
<1>3. \E g : IsIter(g)
  <2>1. Nothing \in A /\ step \in [A \X (1 .. n) -> A]
    <3>1. \A done \in A : \A i \in 1 .. n : RewriteStep(done, source[i]) \in A
      BY RewriteTypes
    <3>2. Nothing \in A
      BY EmptySeq DEF Nothing, DoneOf
    <3> HIDE DEF A
    <3> QED
      BY <3>1, <3>2
  <2> HIDE DEF A
  <2>2. PICK g : IsFold(g, A, Nothing, step, n)
    <3> HIDE DEF step
    <3> QED
      BY <2>1, FoldExists
  <2>3. ASSUME NEW s \in SUBSET (1 .. n), s # {}
        PROVE  g[s] = RewriteStep(g[s \ {Max(s)}], source[Max(s)])
    <3>1. Max(s) \in 1 .. n
      BY <2>3, MaxIsIn
    <3>2. g[s \ {Max(s)}] \in A /\ g[s] = step[<<g[s \ {Max(s)}], Max(s)>>]
      <4>1. s \ {Max(s)} \in SUBSET (1 .. n)
        OBVIOUS
      <4> QED
        BY <2>2, <2>3, <4>1 DEF IsFold
    <3> QED
      BY <3>1, <3>2
  <2>4. g \in [SUBSET (1 .. n) -> A] /\ g[{}] = Nothing
    <3>1. {} \in SUBSET (1 .. n)
      OBVIOUS
    <3> QED
      BY <2>2, <3>1 DEF IsFold
  <2>5. \A s \in SUBSET (1 .. n) :
          g[s] = IF s = {} THEN Nothing ELSE RewriteStep(g[s \ {Max(s)}], source[Max(s)])
    BY <2>3, <2>4
  <2>6. IsIter(g)
    BY <2>4, <2>5
  <2> QED
    BY <2>6
<1>4. IsIter(iter)
  <2> HIDE DEF IsIter
  <2> QED
    BY <1>3
<1> HIDE DEF iter
<1> DEFINE done == [k \in 0 .. n |-> iter[1 .. k]]
<1>5. done[0] = Nothing /\ done[n] = iter[1 .. n]
  BY <1>4, EmptyUpto
<1>6. ASSUME NEW k \in 0 .. n - 1 PROVE done[k + 1] = RewriteStep(done[k], source[k + 1])
  <2>1. /\ 1 .. k + 1 \in SUBSET (1 .. n) /\ 1 .. k + 1 # {} /\ Max(1 .. k + 1) = k + 1
        /\ (1 .. k + 1) \ {k + 1} = 1 .. k
    BY TopOfUpto
  <2>2. iter[1 .. k + 1] = RewriteStep(iter[1 .. k], source[k + 1])
    BY <1>4, <2>1
  <2> QED
    BY <2>2
<1> QED
  <2> HIDE DEF done
  <2> QED
    BY <1>2, <1>5, <1>6

\* What markdown_to_html has of the text after some events: what it has put out and,
\* in a block, the source of that block.
Keeps(done, text, source, E) ==
  /\ done \in DoneOf(source, E)
  /\ text \in Seq(E)
  /\ done.open => Matches(FlattenSeq(done.html) \o done.code, text)
  /\ ~done.open => Matches(FlattenSeq(done.html), text)

\* One event more on both sides.
LEMMA MatchesAppend ==
  ASSUME NEW E, NEW put \in Seq(E \cup {Gap}), NEW text \in Seq(E), NEW event \in E,
         Matches(put, text)
  PROVE  Matches(Append(put, event), Append(text, event))
<1>1. PICK n \in Nat : n = Len(text) /\ n = Len(put)
  BY LenProperties DEF Matches
<1>2. DOMAIN text = 1 .. n
  BY <1>1, LenProperties
<1>3. PICK more : more = Append(text, event)
  OBVIOUS
<1>4. PICK out : out = Append(put, event)
  OBVIOUS
<1>5. /\ more \in Seq(E) /\ Len(more) = n + 1 /\ more[n + 1] = event
      /\ \A i \in 1 .. n : more[i] = text[i]
  <2>1. /\ Append(text, event) \in Seq(E) /\ Len(Append(text, event)) = Len(text) + 1
        /\ Append(text, event)[Len(text) + 1] = event
        /\ \A i \in 1 .. Len(text) : Append(text, event)[i] = text[i]
    BY AppendProperties
  <2> QED
    BY <1>1, <1>3, <2>1
<1>6. /\ Len(out) = n + 1 /\ out[n + 1] = event
      /\ \A i \in 1 .. n : out[i] = put[i]
  BY <1>1, <1>4, AppendProperties
<1>7. DOMAIN more = 1 .. n + 1
  BY <1>5, LenProperties
<1>8. \A i \in 1 .. n : put[i] = text[i] \/ (put[i] = Gap /\ text[i] \in Hard)
  BY <1>2 DEF Matches
<1>9. \A i \in 1 .. n + 1 : out[i] = more[i] \/ (out[i] = Gap /\ more[i] \in Hard)
  BY <1>5, <1>6, <1>8
<1> QED
  BY <1>3, <1>4, <1>5, <1>6, <1>7, <1>9 DEF Matches

\* The source of a block, and what is put out for it.
LEMMA MatchesFenced ==
  ASSUME NEW E, NEW put \in Seq(E \cup {Gap}), NEW code \in Seq(E), NEW text \in Seq(E),
         NEW lang, Matches(put \o code, text)
  PROVE  Matches(put \o HighlightFenced(lang, code), text)
<1>1. CASE HighlightFenced(lang, code) = code
  BY <1>1
<1>2. CASE HighlightFenced(lang, code) = Spans(code)
  <2>1. PICK k \in Nat, n \in Nat : k = Len(put) /\ n = Len(code)
    BY LenProperties
  <2>2. PICK spans \in Seq(E \cup {Gap}) :
          /\ spans = Spans(code) /\ Len(spans) = n
          /\ \A i \in 1 .. n : spans[i] = Emitted(code[i])
    BY <2>1, FencedTypes
  <2>3. code \in Seq(E \cup {Gap})
    <3>1. code \in [1 .. n -> E]
      BY <2>1, LenProperties
    <3>2. code \in [1 .. n -> E \cup {Gap}]
      BY <3>1
    <3> QED
      BY <3>2, SeqDef
  <2>4. PICK was : was = put \o code
    OBVIOUS
  <2>5. PICK is : is = put \o spans
    OBVIOUS
  <2>6. /\ Len(was) = k + n /\ Len(is) = k + n
        /\ \A i \in 1 .. k + n : was[i] = IF i <= k THEN put[i] ELSE code[i - k]
        /\ \A i \in 1 .. k + n : is[i] = IF i <= k THEN put[i] ELSE spans[i - k]
    <3>1. \A tail \in Seq(E \cup {Gap}) :
            /\ Len(put \o tail) = Len(put) + Len(tail)
            /\ \A i \in 1 .. Len(put) + Len(tail) :
                 (put \o tail)[i] = IF i <= Len(put) THEN put[i] ELSE tail[i - Len(put)]
      BY ConcatProperties
    <3>2. /\ Len(put \o code) = Len(put) + Len(code)
          /\ \A i \in 1 .. Len(put) + Len(code) :
               (put \o code)[i] = IF i <= Len(put) THEN put[i] ELSE code[i - Len(put)]
      BY <2>3, <3>1
    <3>3. /\ Len(put \o spans) = Len(put) + Len(spans)
          /\ \A i \in 1 .. Len(put) + Len(spans) :
               (put \o spans)[i] = IF i <= Len(put) THEN put[i] ELSE spans[i - Len(put)]
      BY <3>1
    <3>4. /\ Len(was) = k + n
          /\ \A i \in 1 .. k + n : was[i] = IF i <= k THEN put[i] ELSE code[i - k]
      BY <2>1, <2>4, <3>2
    <3>5. /\ Len(is) = k + n
          /\ \A i \in 1 .. k + n : is[i] = IF i <= k THEN put[i] ELSE spans[i - k]
      BY <2>1, <2>2, <2>5, <3>3
    <3> QED
      BY <3>4, <3>5
  <2>7. /\ Len(text) = k + n /\ DOMAIN text = 1 .. k + n
        /\ \A i \in 1 .. k + n : was[i] = text[i] \/ (was[i] = Gap /\ text[i] \in Hard)
    BY <2>4, <2>6, LenProperties DEF Matches
  <2>8. ASSUME NEW i \in 1 .. k + n
        PROVE  is[i] = text[i] \/ (is[i] = Gap /\ text[i] \in Hard)
    <3>1. CASE i <= k
      BY <2>6, <2>7, <3>1
    <3>2. CASE ~(i <= k)
      <4>1. i - k \in 1 .. n
        BY <3>2
      <4>2. was[i] = code[i - k] /\ is[i] = Emitted(code[i - k])
        BY <2>2, <2>6, <3>2, <4>1
      <4> QED
        BY <2>7, <4>2 DEF Emitted
    <3> QED
      BY <3>1, <3>2
  <2> QED
    BY <1>2, <2>2, <2>5, <2>6, <2>7, <2>8 DEF Matches
<1> QED
  BY <1>1, <1>2 DEF HighlightFenced

\* An event appended to the second of two texts is appended to both.
LEMMA AppendedToBoth ==
  ASSUME NEW E, NEW put \in Seq(E), NEW code \in Seq(E), NEW event \in E
  PROVE  put \o Append(code, event) = Append(put \o code, event)
<1>1. PICK last \in Seq(E) : last = <<event>>
  BY EmptySeq, AppendProperties, Append(<<>>, event) = <<event>>
<1>2. (put \o code) \o last = put \o (code \o last)
  BY ConcatAssociative
<1>3. put \o code \in Seq(E)
  BY ConcatProperties
<1>4. /\ Append(code, event) = code \o last
      /\ Append(put \o code, event) = (put \o code) \o last
  BY <1>1, <1>3, AppendIsConcat
<1> QED
  BY <1>2, <1>4

\* Every event that may come next leaves the text kept, and opens or closes a block.
LEMMA StepKeeps ==
  ASSUME NEW E, NEW source \in Seq(E), NEW i \in 1 .. Len(source), NEW done, NEW text,
         Keeps(done, text, source, E),
         \/ source[i].tag = "code" /\ ~done.open
         \/ source[i].tag = "end" /\ done.open
         \/ source[i].tag = "text"
  PROVE  LET next == RewriteStep(done, source[i]) IN
         /\ Keeps(next, IF source[i].tag = "text" THEN Append(text, source[i]) ELSE text,
                  source, E)
         /\ source[i].tag = "code" => next.open
         /\ source[i].tag = "end" => ~next.open
         /\ source[i].tag = "text" => next.open = done.open
<1> DEFINE event == source[i]
           F == E \cup {Gap}
           flat == FlattenSeq(done.html)
<1>0. PICK next : next = RewriteStep(done, event)
  OBVIOUS
<1>1. next \in DoneOf(source, E) /\ event \in E
  BY <1>0, RewriteTypes, ElementOfSeq DEF Keeps
<1>2. /\ done \in DoneOf(source, E) /\ text \in Seq(E)
      /\ done.html \in Seq(Seq(F)) /\ done.code \in Seq(E) /\ done.code \in Seq(F)
      /\ done.open => Matches(flat \o done.code, text)
      /\ ~done.open => Matches(flat, text)
  <2>1. done.html \in Seq(Seq(F)) /\ done.code \in Seq(E)
    BY DEF Keeps, DoneOf
  <2>2. PICK n \in Nat : n = Len(done.code) /\ done.code \in [1 .. n -> E]
    BY <2>1, LenProperties
  <2>3. done.code \in [1 .. n -> F]
    BY <2>2
  <2>4. done.code \in Seq(F)
    BY <2>3, SeqDef
  <2> QED
    BY <2>1, <2>4 DEF Keeps
<1>3. flat \in Seq(F)
  BY <1>2, EmptySeq, FlattenAppend
<1>4. ASSUME NEW block \in Seq(F)
      PROVE  FlattenSeq(Append(done.html, block)) = flat \o block
  BY <1>2, FlattenAppend
<1> HIDE DEF flat
<1>5. CASE event.tag = "code"
  <2>1. next = [done EXCEPT !.open = TRUE, !.lang = event.lang, !.code = <<>>]
    BY <1>0, <1>5 DEF RewriteStep
  <2>2. next.open = TRUE /\ next.code = <<>> /\ next.html = done.html
    BY <1>2, <2>1 DEF DoneOf
  <2>3. Matches(flat, text) /\ flat \o <<>> = flat
    BY <1>2, <1>3, <1>5, ConcatEmptySeq
  <2>4. Keeps(next, text, source, E)
    BY <1>1, <1>2, <2>2, <2>3 DEF Keeps, flat
  <2> QED
    BY <1>0, <1>5, <2>2, <2>4
<1>6. CASE event.tag = "end"
  <2>1. PICK put : put = HighlightFenced(done.lang, done.code)
    OBVIOUS
  <2>2. next = [done EXCEPT !.open = FALSE, !.html = Append(@, put)]
    BY <1>0, <1>6, <2>1 DEF RewriteStep
  <2>3. next.open = FALSE /\ next.html = Append(done.html, put)
    BY <1>2, <2>2 DEF DoneOf
  <2>4. FlattenSeq(next.html) = flat \o put
    BY <1>2, <1>4, <2>1, <2>3, FencedTypes
  <2>5. Matches(flat \o put, text)
    BY <1>2, <1>3, <1>6, <2>1, MatchesFenced
  <2>6. Keeps(next, text, source, E)
    BY <1>1, <1>2, <2>3, <2>4, <2>5 DEF Keeps
  <2> QED
    BY <1>0, <1>6, <2>3, <2>6
<1>7. CASE event.tag = "text" /\ done.open
  <2>1. next = [done EXCEPT !.code = Append(@, event)]
    BY <1>0, <1>7 DEF RewriteStep
  <2>2. next.open = done.open /\ next.code = Append(done.code, event) /\ next.html = done.html
    BY <1>2, <2>1 DEF DoneOf
  <2>3. Matches(flat \o done.code, text) /\ flat \o done.code \in Seq(F)
    BY <1>2, <1>3, <1>7, ConcatProperties
  <2>4. flat \o Append(done.code, event) = Append(flat \o done.code, event)
    <3>1. flat \in Seq(F) /\ done.code \in Seq(F) /\ event \in F
      BY <1>1, <1>2, <1>3
    <3> HIDE DEF event, F
    <3> QED
      BY <3>1, AppendedToBoth
  <2>5. Append(text, event) \in Seq(E)
    BY <1>1, <1>2, AppendProperties
  <2>6. Matches(Append(flat \o done.code, event), Append(text, event))
    <3>1. event \in E /\ text \in Seq(E)
      BY <1>1, <1>2
    <3> HIDE DEF event
    <3> QED
      BY <2>3, <3>1, MatchesAppend
  <2>7. Keeps(next, Append(text, event), source, E)
    BY <1>1, <1>7, <2>2, <2>4, <2>5, <2>6 DEF Keeps, flat
  <2> QED
    BY <1>0, <1>7, <2>2, <2>7
<1>8. CASE event.tag = "text" /\ ~done.open
  <2>1. next = [done EXCEPT !.html = Append(@, <<event>>)]
    BY <1>0, <1>8 DEF RewriteStep
  <2>2. next.open = done.open /\ next.html = Append(done.html, <<event>>)
    BY <1>2, <2>1 DEF DoneOf
  <2>3. <<event>> \in Seq(F)
    BY <1>1, EmptySeq, AppendProperties, Append(<<>>, event) = <<event>>
  <2>4. FlattenSeq(next.html) = flat \o <<event>> /\ flat \o <<event>> = Append(flat, event)
    <3>1. FlattenSeq(next.html) = flat \o <<event>>
      BY <1>4, <2>2, <2>3
    <3>2. flat \in Seq(F) /\ event \in F
      BY <1>1, <1>3
    <3>3. flat \o <<event>> = Append(flat, event)
      <4> HIDE DEF event, F
      <4> QED
        BY <3>2, AppendIsConcat
    <3> QED
      BY <3>1, <3>3
  <2>5. Matches(Append(flat, event), Append(text, event))
    <3>1. event \in E /\ text \in Seq(E) /\ Matches(flat, text)
      BY <1>1, <1>2, <1>8
    <3> HIDE DEF event
    <3> QED
      BY <1>3, <3>1, MatchesAppend
  <2>6. Append(text, event) \in Seq(E)
    BY <1>1, <1>2, AppendProperties
  <2>7. Keeps(next, Append(text, event), source, E)
    BY <1>1, <1>8, <2>2, <2>4, <2>5, <2>6 DEF Keeps
  <2> QED
    BY <1>0, <1>8, <2>2, <2>7
<1> QED
  BY <1>5, <1>6, <1>7, <1>8

\* Whatever a source's events, their text is what markdown_to_html puts out, but for
\* the gaps.
LEMMA MarkdownKeepsText ==
  ASSUME NEW content \in Utf8
  PROVE  /\ Text(Events[content]) \in Seq(Range(Events[content]))
         /\ Matches(FlattenSeq(MarkdownToHtml(Events[content])), Text(Events[content]))
<1>1. PICK source : source = Events[content]
  OBVIOUS
<1>2. PICK E : E = Range(source)
  OBVIOUS
<1>3. source \in Seq(E)
  BY <1>1, <1>2, EventsAssumption
<1>4. PICK n \in Nat : n = Len(source)
  BY <1>3, LenProperties
<1>5. PICK inside \in [0 .. n -> BOOLEAN] :
        /\ ~inside[0] /\ ~inside[n]
        /\ \A i \in 1 .. n :
             \/ source[i].tag = "code" /\ ~inside[i - 1] /\ inside[i]
             \/ source[i].tag = "end" /\ inside[i - 1] /\ ~inside[i]
             \/ source[i].tag = "text" /\ inside[i] = inside[i - 1]
  BY <1>1, <1>4, EventsAssumption
<1>6. PICK text : /\ text[0] = <<>> /\ text[n] = Text(source)
                  /\ \A k \in 0 .. n - 1 :
                       text[k + 1] = IF source[k + 1].tag = "text"
                                     THEN Append(text[k], source[k + 1]) ELSE text[k]
  BY <1>3, <1>4, TextBySteps
<1>7. PICK done : /\ done[0] = Nothing /\ done[n].html = MarkdownToHtml(source)
                  /\ \A k \in 0 .. n - 1 : done[k + 1] = RewriteStep(done[k], source[k + 1])
  BY <1>3, <1>4, RewriteBySteps
<1> DEFINE T == {k \in Nat : k <= n => /\ Keeps(done[k], text[k], source, E)
                                       /\ done[k].open <=> inside[k]}
<1>8. 0 \in T
  <2>1. Nothing.open = FALSE /\ Nothing.html = <<>> /\ Nothing \in DoneOf(source, E)
    BY EmptySeq DEF Nothing, DoneOf
  <2>2. FlattenSeq(<<>>) = <<>> /\ Matches(<<>>, <<>>)
    BY DEF FlattenSeq, Matches
  <2>3. Keeps(Nothing, <<>>, source, E)
    BY <2>1, <2>2, EmptySeq DEF Keeps
  <2> QED
    BY <1>5, <1>6, <1>7, <2>1, <2>3
<1>9. ASSUME NEW k \in Nat, k \in T PROVE k + 1 \in T
  <2> SUFFICES ASSUME k + 1 <= n
               PROVE  /\ Keeps(done[k + 1], text[k + 1], source, E)
                      /\ done[k + 1].open <=> inside[k + 1]
    OBVIOUS
  <2>1. Keeps(done[k], text[k], source, E) /\ (done[k].open <=> inside[k])
    BY <1>9
  <2>2. k \in 0 .. n - 1 /\ k + 1 \in 1 .. n /\ (k + 1) - 1 = k
    OBVIOUS
  <2>3. \/ source[k + 1].tag = "code" /\ ~inside[k] /\ inside[k + 1]
        \/ source[k + 1].tag = "end" /\ inside[k] /\ ~inside[k + 1]
        \/ source[k + 1].tag = "text" /\ inside[k + 1] = inside[k]
    BY <1>5, <2>2
  <2>4. PICK i \in 1 .. Len(source) : i = k + 1
    BY <1>4, <2>2
  <2>5. /\ text[i] = IF source[i].tag = "text" THEN Append(text[k], source[i]) ELSE text[k]
        /\ done[i] = RewriteStep(done[k], source[i])
    BY <1>6, <1>7, <2>2, <2>4
  <2>6. /\ Keeps(done[i], text[i], source, E)
        /\ source[i].tag = "code" => done[i].open
        /\ source[i].tag = "end" => ~done[i].open
        /\ source[i].tag = "text" => done[i].open = done[k].open
    <3>1. \/ source[i].tag = "code" /\ ~done[k].open
          \/ source[i].tag = "end" /\ done[k].open
          \/ source[i].tag = "text"
      BY <2>1, <2>3, <2>4
    <3> QED
      BY <1>3, <2>1, <2>5, <3>1, StepKeeps
  <2> QED
    BY <2>1, <2>3, <2>4, <2>6
<1>10. n \in T
  <2> HIDE DEF T
  <2> QED
    BY <1>8, <1>9, Induction
<1> QED
  BY <1>1, <1>2, <1>5, <1>6, <1>7, <1>10 DEF Keeps
-----------------------------------------------------------------------------
(* Validators                                                              *)

\* The fields of a request under way.
Fields == {"stage", "text", "query", "via", "wants", "at", "status", "body", "etag",
           "source", "resolved", "todo", "entries"}

ConnType == conn.stage # "idle" =>
              /\ conn = [field \in Fields |-> conn[field]]
              /\ conn.wants \in Wants

\* Between the handler that answers and before_send the validators are those of
\* the body already.
ConnFits == conn.stage # "idle" /\ conn.status = 200 /\ conn.etag \in Content
              => conn.body = Raw(conn.etag)

IInv == ConnType /\ ConnFits /\ ValidatorsFit

\* What render_html hands back is the content it was given.
LEMMA HandedBack ==
  ASSUME NEW path, NEW content, RenderHtml(path, content).kind = "raw"
  PROVE  RenderHtml(path, content) = Raw(content)
BY DEF RenderHtml, Raw, Page

\* An answer that before_send lets pass has the validators of what it was made of
\* only with the bytes of it.
LEMMA RenderedFits ==
  ASSUME NEW answer, NEW format, NEW path, NEW etag,
         answer = [status |-> 200, body |-> Raw(etag), etag |-> etag],
         Rendered(answer, format, path, etag).etag \in Content
  PROVE  Rendered(answer, format, path, etag).body = Raw(etag)
<1> DEFINE body == IF format = "json" THEN RenderJson(etag) ELSE RenderHtml(path, etag)
<1>1. CASE body.kind = "raw"
  <2>1. format # "json"
    BY <1>1 DEF RenderJson
  <2>2. body = Raw(etag)
    BY <1>1, <2>1, HandedBack
  <2>3. Rendered(answer, format, path, etag) = [answer EXCEPT !.body = body]
    BY <1>1 DEF Rendered
  <2> QED
    BY <2>2, <2>3
<1>2. CASE body.kind # "raw"
  <2>1. Rendered(answer, format, path, etag) = Finalize(answer, body)
    BY <1>2 DEF Rendered
  <2> QED
    BY <2>1, PathAssumption DEF Finalize
<1> QED
  BY <1>1, <1>2

\* What is sent in the end: what Render left, maybe with a validator of its own, or
\* the word that it has not changed.
LEMMA Sent ==
  ASSUME NEW before, before = [status |-> before.status, body |-> before.body,
                               etag |-> before.etag],
         NEW answer \in BeforeSend(before)
  PROVE  \E rendered \in RenderSends(before) :
           /\ answer.etag \in {rendered.etag, Own}
           /\ \/ answer.status = rendered.status /\ answer.body = rendered.body
              \/ answer.status = 304 /\ answer.body = NoBody
<1>1. PICK rendered \in RenderSends(before) : answer \in EtagSends(rendered)
  BY DEF BeforeSend
<1>2. PICK status, body, etag : rendered = [status |-> status, body |-> body, etag |-> etag]
  <2>1. PICK s, b, e : before = [status |-> s, body |-> b, etag |-> e]
    OBVIOUS
  <2>2. \/ rendered = before
        \/ rendered = [before EXCEPT !.status = 500, !.body = NoBody]
        \/ \E made : \/ rendered = [before EXCEPT !.body = made]
                     \/ rendered = [before EXCEPT !.body = made, !.etag = NoContent]
    BY <1>1 DEF RenderSends, Unreadable, Rendered, Finalize
  <2> QED
    BY <2>1, <2>2
<1>3. PICK tag \in {etag, Own} :
        Tagged(rendered) = [status |-> status, body |-> body, etag |-> tag]
  BY <1>2 DEF Tagged
<1>4. PICK tagged : tagged = [status |-> status, body |-> body, etag |-> tag]
  OBVIOUS
<1>5. \/ answer = rendered \/ answer = tagged
      \/ answer = [tagged EXCEPT !.status = 304, !.body = NoBody]
  BY <1>1, <1>3, <1>4 DEF EtagSends
<1>6. \/ answer = rendered \/ answer = tagged
      \/ answer = [status |-> 304, body |-> NoBody, etag |-> tag]
  BY <1>4, <1>5
<1> QED
  BY <1>1, <1>2, <1>3, <1>4, <1>6
-----------------------------------------------------------------------------
(* The handlers' moves, as far as the invariant looks                      *)

LEMMA PassFits ==
  ASSUME IInv, conn.stage # "idle", Pass, UNCHANGED shown
  PROVE  IInv'
BY DEF IInv, ConnType, ConnFits, ValidatorsFit, Pass, Fields

LEMMA HaltFits ==
  ASSUME IInv, conn.stage # "idle", NEW status, NEW body, NEW etag, NEW source,
         Halt(status, body, etag, source), UNCHANGED shown,
         status = 200 /\ etag \in Content => body = Raw(etag)
  PROVE  IInv'
BY DEF IInv, ConnType, ConnFits, ValidatorsFit, Halt, Fields

LEMMA SendFileFits ==
  ASSUME IInv, conn.stage # "idle", NEW content, SendFile(content), UNCHANGED shown
  PROVE  IInv'
<1>1. CASE Halt(200, Raw(content), content, content)
  BY <1>1, HaltFits
<1>2. CASE Halt(206, [kind |-> "part"], content, content)
  BY <1>2, HaltFits
<1>3. CASE Halt(304, NoBody, content, content)
  BY <1>3, HaltFits
<1> QED
  BY <1>1, <1>2, <1>3 DEF SendFile

\* before_send takes the validators off whatever it renders.
LEMMA SendFits ==
  ASSUME IInv, Send
  PROVE  IInv'
<1> DEFINE before == [status |-> IF conn.status = 0 THEN 404 ELSE conn.status,
                      body |-> conn.body, etag |-> conn.etag]
<1>0. PICK sent \in BeforeSend(before) :
        /\ shown'.status = sent.status
        /\ shown'.body = sent.body
        /\ shown'.etag = sent.etag
  BY DEF Send
<1>1. PICK answer \in RenderSends(before) :
        /\ shown'.etag \in {answer.etag, Own}
        /\ shown'.status = 200 => shown'.status = answer.status /\ shown'.body = answer.body
  <2> HIDE DEF before
  <2> QED
    <3>1. before = [status |-> before.status, body |-> before.body, etag |-> before.etag]
      BY DEF before
    <3> QED
      BY <1>0, <3>1, Sent
<1>2. conn.stage = "send" /\ conn' = Idle
  BY DEF Send
<1>3. before.status = 200 /\ before.etag \in Content => before.body = Raw(before.etag)
  BY <1>2 DEF IInv, ConnFits
<1>4. ASSUME answer.status = 200, answer.etag \in Content
      PROVE  answer.body = Raw(answer.etag)
  <2>1. CASE answer = before
    BY <1>3, <1>4, <2>1
  <2>2. CASE answer = Unreadable(before)
    BY <1>4, <2>2 DEF Unreadable
  <2>3. CASE Renders /\ answer = Rendered(before, RequestedFormat(conn.query),
                                          PassedOn(conn.text), conn.body.content)
    <3> DEFINE format == RequestedFormat(conn.query)
               made == IF format = "json" THEN RenderJson(conn.body.content)
                       ELSE RenderHtml(PassedOn(conn.text), conn.body.content)
    <3>1. answer.etag = before.etag \/ answer.etag = NoContent
      BY <2>3 DEF Rendered, Finalize
    <3>2. before.status = 200
      BY <2>3 DEF Renders
    <3>3. before.body = Raw(before.etag) /\ before.etag \in Content
      BY <1>3, <1>4, <3>1, <3>2, PathAssumption
    <3>4. conn.body.content = before.etag
      BY <3>3 DEF Raw
    <3>5. before = [status |-> 200, body |-> Raw(before.etag), etag |-> before.etag]
      BY <3>2, <3>3
    <3>6. answer = Rendered(before, format, PassedOn(conn.text), before.etag)
      BY <2>3, <3>4
    <3>7. answer.etag = before.etag
      BY <1>4, <3>1, PathAssumption
    <3> HIDE DEF before, format
    <3> QED
      BY <1>4, <3>5, <3>6, <3>7, RenderedFits
  <2> QED
    BY <1>1, <2>1, <2>2, <2>3 DEF RenderSends
<1>5. ValidatorsFit'
  BY <1>1, <1>4, PathAssumption DEF ValidatorsFit
<1> QED
  BY <1>2, <1>5 DEF IInv, ConnType, ConnFits, Idle
-----------------------------------------------------------------------------
LEMMA InitFits == Init => IInv
BY PathAssumption DEF Init, IInv, ConnType, ConnFits, ValidatorsFit, Idle, Blank

LEMMA RequestFits ==
  ASSUME IInv, NEW link, NEW kind \in Wants, Request(link, kind)
  PROVE  IInv'
BY PathAssumption DEF IInv, ConnType, ConnFits, ValidatorsFit, Request, Blank, Fields

LEMMA StepFits == IInv /\ [Next]_vars => IInv'
<1> SUFFICES ASSUME IInv, [Next]_vars
             PROVE  IInv'
  OBVIOUS
<1>1. CASE \E typed \in Typed, kind \in Wants :
             Request(Link(typed.text, typed.query, "typed"), kind)
  BY <1>1, RequestFits
<1>2. CASE \E link \in Links : Request(link, "whole")
  BY <1>2, RequestFits DEF Wants
<1>3. CASE \E path \in Path, node \in Nodes : Edit(path, node)
  BY <1>3 DEF Edit, IInv, ConnType, ConnFits, ValidatorsFit
<1>4. CASE RunNoRoute
  BY <1>4 DEF RunNoRoute, IInv, ConnType, ConnFits, ValidatorsFit, Fields
<1>5. CASE RunAssets
  <2>1. conn.stage # "idle" /\ UNCHANGED shown
    BY <1>5 DEF RunAssets, Runs
  <2>2. Halt(200, Raw(CssContent), CssContent, CssContent) \/ Pass
    BY <1>5 DEF RunAssets
  <2> QED
    BY <2>1, <2>2, HaltFits, PassFits
<1>6. CASE RunForward
  <2>1. conn.stage # "idle" /\ UNCHANGED shown
    BY <1>6 DEF RunForward, Runs
  <2>2. Pass \/ \E content \in Utf8 : Halt(200, Raw(content), content, content)
    BY <1>6 DEF RunForward
  <2> QED
    BY <2>1, <2>2, HaltFits, PassFits
<1>7. CASE RunProxy
  <2>1. conn.stage # "idle" /\ UNCHANGED shown
    BY <1>7 DEF RunProxy, Runs
  <2>2. \/ Halt(404, NoBody, NoContent, NoContent)
        \/ \E content \in Utf8 : Halt(200, Raw(content), content, content)
    BY <1>7 DEF RunProxy
  <2> QED
    BY <2>1, <2>2, HaltFits
<1>8. CASE RunRedirect
  <2>1. conn.stage # "idle" /\ UNCHANGED shown /\ Halt(302, NoBody, NoContent, NoContent)
    BY <1>8 DEF RunRedirect, Runs
  <2> QED
    BY <2>1, HaltFits
<1>9. CASE RunFiles
  <2>1. conn.stage # "idle" /\ UNCHANGED shown
    BY <1>9 DEF RunFiles, Runs
  <2>2. \/ \E content : SendFile(content)
        \/ conn' = [conn EXCEPT !.at = @ + 1, !.resolved = Names(conn.text)]
        \/ Pass
    BY <1>9 DEF RunFiles
  <2>3. CASE conn' = [conn EXCEPT !.at = @ + 1, !.resolved = Names(conn.text)]
    BY <2>1, <2>3 DEF IInv, ConnType, ConnFits, ValidatorsFit, Fields
  <2> QED
    BY <2>1, <2>2, <2>3, SendFileFits, PassFits
<1>10. CASE RunRender
  BY <1>10, PassFits DEF RunRender, Runs
<1>11. CASE RunListing
  <2>1. conn.stage # "idle" /\ UNCHANGED shown
    BY <1>11 DEF RunListing, Runs
  <2>2. \/ conn' = [conn EXCEPT !.stage = "list", !.at = @ + 1,
                                 !.todo = Children(conn.resolved)]
        \/ Pass
    BY <1>11 DEF RunListing
  <2>3. CASE conn' = [conn EXCEPT !.stage = "list", !.at = @ + 1,
                                  !.todo = Children(conn.resolved)]
    BY <2>1, <2>3 DEF IInv, ConnType, ConnFits, ValidatorsFit, Fields
  <2> QED
    BY <2>1, <2>2, <2>3, PassFits
<1>12. CASE \E name \in Name : ReadEntry(name)
  <2>1. PICK todo, entries : conn' = [conn EXCEPT !.todo = todo, !.entries = entries]
    BY <1>12 DEF ReadEntry
  <2>2. conn.stage = "list" /\ UNCHANGED shown
    BY <1>12 DEF ReadEntry
  <2> QED
    BY <2>1, <2>2 DEF IInv, ConnType, ConnFits, ValidatorsFit, Fields
<1>13. CASE List
  <2>1. conn.stage # "idle" /\ UNCHANGED shown
    BY <1>13 DEF List
  <2>2. \E page : Halt(200, page, NoContent, NoContent)
    BY <1>13 DEF List
  <2> QED
    BY <2>1, <2>2, HaltFits, PathAssumption
<1>14. CASE RunOut \/ ReadFails
  <2>1. CASE RunOut
    BY <2>1 DEF RunOut, IInv, ConnType, ConnFits, ValidatorsFit, Fields
  <2>2. CASE ReadFails
    <3>1. PICK todo, entries :
            conn' = [conn EXCEPT !.stage = "run", !.todo = todo, !.entries = entries]
      BY <2>2 DEF ReadFails
    <3>2. conn.stage = "list" /\ UNCHANGED shown
      BY <2>2 DEF ReadFails
    <3> QED
      BY <3>1, <3>2 DEF IInv, ConnType, ConnFits, ValidatorsFit, Fields
  <2> QED
    BY <1>14, <2>1, <2>2
<1>15. CASE Send
  BY <1>15, SendFits
<1>16. CASE UNCHANGED vars
  BY <1>16 DEF vars, IInv, ConnType, ConnFits, ValidatorsFit
<1> QED
  BY <1>1, <1>2, <1>3, <1>4, <1>5, <1>6, <1>7, <1>8, <1>9, <1>10, <1>11, <1>12, <1>13,
     <1>14, <1>15, <1>16 DEF Next

-----------------------------------------------------------------------------
(* Types                                                                   *)

ContentOf == Content \cup {NoContent}

LEMMA PassTypes ==
  ASSUME TypeOK, ConnType, NEW handler, Runs(handler), Pass, UNCHANGED <<cfg, fs, edits, shown>>
  PROVE  TypeOK'
<1>1. conn.stage = "run" /\ conn.at <= Len(cfg.stack) /\ Len(cfg.stack) \in Nat
  BY ConfigAssumption DEF Runs, TypeOK
<1>2. conn' = [conn EXCEPT !.at = conn.at + 1] /\ conn = [field \in Fields |-> conn[field]]
  BY <1>1 DEF Pass, ConnType
<1> QED
  BY <1>1, <1>2 DEF TypeOK, Fields

LEMMA HaltTypes ==
  ASSUME TypeOK, ConnType, conn.stage # "idle", UNCHANGED <<cfg, fs, edits, shown>>,
         NEW status \in {200, 206, 302, 304, 404}, NEW body, body.kind \in Bodies,
         NEW etag \in ContentOf, NEW of \in ContentOf, Halt(status, body, etag, of)
  PROVE  TypeOK'
BY DEF TypeOK, ConnType, Halt, Fields, ContentOf

LEMMA SendFileTypes ==
  ASSUME TypeOK, ConnType, conn.stage # "idle", UNCHANGED <<cfg, fs, edits, shown>>,
         NEW content \in ContentOf, SendFile(content)
  PROVE  TypeOK'
<1>1. Raw(content).kind \in Bodies /\ NoBody.kind \in Bodies /\ [kind |-> "part"].kind \in Bodies
  BY DEF Raw, NoBody, Bodies
<1>2. CASE Halt(200, Raw(content), content, content)
  BY <1>1, <1>2, HaltTypes
<1>3. CASE Halt(206, [kind |-> "part"], content, content)
  BY <1>1, <1>3, HaltTypes
<1>4. CASE Halt(304, NoBody, content, content)
  BY <1>1, <1>4, HaltTypes
<1> QED
  BY <1>2, <1>3, <1>4 DEF SendFile

LEMMA EditTypes ==
  ASSUME TypeOK, NEW path \in Path, NEW node \in Nodes, Edit(path, node)
  PROVE  TypeOK'
<1>1. /\ edits' = edits + 1 /\ edits + 1 \in 0..MaxEdits
      /\ UNCHANGED <<cfg, conn, shown>>
  BY TreeAssumption DEF Edit, TypeOK
<1>2. \A p \in Path : fs'[p] \in {[node EXCEPT !.modified = edits + 1], Absent, fs[p]}
  BY DEF Edit
<1>3. [node EXCEPT !.modified = edits + 1]
        \in [is : {"absent", "dir", "file"}, content : ContentOf, modified : 0..MaxEdits]
  BY <1>1 DEF Nodes, Absent, Dir, File, ContentOf
<1>4. Absent \in [is : {"absent", "dir", "file"}, content : ContentOf, modified : 0..MaxEdits]
  BY TreeAssumption DEF Absent, ContentOf
<1>5. fs' \in [Path -> [is : {"absent", "dir", "file"}, content : ContentOf, modified : 0..MaxEdits]]
  BY <1>2, <1>3, <1>4 DEF TypeOK, Edit, ContentOf
<1> QED
  BY <1>1, <1>5 DEF TypeOK, ContentOf

LEMMA SendTypes == ASSUME TypeOK, ConnType, Send PROVE TypeOK'
<1> DEFINE before == [status |-> IF conn.status = 0 THEN 404 ELSE conn.status,
                      body |-> conn.body, etag |-> conn.etag]
<1>0. PICK sent \in BeforeSend(before) :
        shown' = [text |-> conn.text, query |-> conn.query, via |-> conn.via,
                  status |-> sent.status, body |-> sent.body, etag |-> sent.etag,
                  source |-> conn.source, resolved |-> conn.resolved]
  BY DEF Send
<1>1. PICK answer \in RenderSends(before) :
        /\ sent.etag \in {answer.etag, Own}
        /\ \/ sent.status = answer.status /\ sent.body = answer.body
           \/ sent.status = 304 /\ sent.body = NoBody
  <2> HIDE DEF before
  <2> QED
    <3>1. before = [status |-> before.status, body |-> before.body, etag |-> before.etag]
      BY DEF before
    <3> QED
      BY <3>1, Sent
<1>2. conn.stage = "send" /\ conn' = Idle /\ UNCHANGED <<cfg, fs, edits>>
  BY DEF Send
<1>3. /\ before.status \in {200, 206, 302, 304, 404} /\ before.body.kind \in Bodies
      /\ before.etag \in ContentOf /\ conn.source \in ContentOf
  BY <1>2 DEF TypeOK, ContentOf
<1>4. /\ answer.status \in {200, 206, 302, 304, 404, 500} /\ answer.body.kind \in Bodies
      /\ answer.etag \in ContentOf
  <2>1. CASE answer = before
    BY <1>3, <2>1
  <2>2. CASE answer = Unreadable(before)
    BY <1>3, <2>2 DEF Unreadable, NoBody, Bodies
  <2>3. CASE answer = Rendered(before, RequestedFormat(conn.query), PassedOn(conn.text),
                               conn.body.content)
    <3> DEFINE format == RequestedFormat(conn.query)
               path == PassedOn(conn.text)
               content == conn.body.content
               made == IF format = "json" THEN RenderJson(content) ELSE RenderHtml(path, content)
    <3>1. made.kind \in Bodies
      BY DEF RenderJson, RenderHtml, Raw, Page, Bodies
    <3>2. answer = IF made.kind = "raw" THEN [before EXCEPT !.body = made]
                   ELSE [before EXCEPT !.body = made, !.etag = NoContent]
      BY <2>3 DEF Rendered, Finalize
    <3> HIDE DEF made
    <3>3. /\ answer.status = before.status /\ answer.body = made
          /\ answer.etag \in {before.etag, NoContent}
      BY <3>2
    <3> QED
      BY <1>3, <3>1, <3>3 DEF ContentOf
  <2> QED
    BY <1>1, <2>1, <2>2, <2>3 DEF RenderSends
<1> HIDE DEF before
<1>5. /\ sent.status \in {200, 206, 302, 304, 404, 500} /\ sent.body.kind \in Bodies
      /\ sent.etag \in ContentOf \cup {Own}
  BY <1>1, <1>4 DEF NoBody, Bodies
<1> QED
  BY <1>0, <1>2, <1>3, <1>5 DEF TypeOK, Idle, ContentOf

LEMMA StepTypes == TypeOK /\ ConnType /\ [Next]_vars => TypeOK'
<1> SUFFICES ASSUME TypeOK, ConnType, [Next]_vars PROVE TypeOK'
  OBVIOUS
<1>a. \A content \in ContentOf : Raw(content).kind \in Bodies
  BY DEF Raw, Bodies
<1>b. NoBody.kind \in Bodies /\ NoContent \in ContentOf
  BY DEF NoBody, Bodies, ContentOf
<1>c. \A names : At(names).content \in ContentOf
  BY DEF At, Absent, TypeOK, ContentOf
<1>d. Utf8 \subseteq ContentOf /\ CssContent \in ContentOf
  BY ContentAssumption, PathAssumption DEF ContentOf
<1>1. ASSUME NEW link, NEW kind, Request(link, kind) PROVE TypeOK'
  <2>1. Len(cfg.stack) \in Nat
    BY ConfigAssumption DEF TypeOK
  <2> QED
    BY <1>1, <1>b, <2>1 DEF Request, TypeOK, Blank, NoBody, Bodies, ContentOf
<1>2. ASSUME NEW path \in Path, NEW node \in Nodes, Edit(path, node) PROVE TypeOK'
  BY <1>2, EditTypes
<1>3. CASE RunNoRoute \/ RunOut \/ ReadFails
  <2>1. CASE RunNoRoute \/ RunOut
    BY <2>1 DEF RunNoRoute, RunOut, TypeOK, ConnType, Fields
  <2>2. CASE ReadFails
    <3>1. PICK entries :
            conn' = [conn EXCEPT !.stage = "run", !.todo = {}, !.entries = entries]
      BY <2>2 DEF ReadFails
    <3>2. conn.stage = "list" /\ UNCHANGED <<cfg, fs, edits, shown>>
      BY <2>2 DEF ReadFails
    <3> QED
      BY <3>1, <3>2 DEF TypeOK, ConnType, Fields
  <2> QED
    BY <1>3, <2>1, <2>2
<1>4. CASE RunAssets
  <2>1. Runs("assets") /\ UNCHANGED <<cfg, fs, edits, shown>> /\ conn.stage # "idle"
    BY <1>4 DEF RunAssets, Runs
  <2>2. Halt(200, Raw(CssContent), CssContent, CssContent) \/ Pass
    BY <1>4 DEF RunAssets
  <2> QED
    BY <1>a, <1>b, <1>d, <2>1, <2>2, HaltTypes, PassTypes
<1>5. CASE RunForward
  <2>1. Runs("forward") /\ UNCHANGED <<cfg, fs, edits, shown>> /\ conn.stage # "idle"
    BY <1>5 DEF RunForward, Runs
  <2>2. Pass \/ \E content \in Utf8 : Halt(200, Raw(content), content, content)
    BY <1>5 DEF RunForward
  <2> QED
    BY <1>a, <1>d, <2>1, <2>2, HaltTypes, PassTypes
<1>6. CASE RunProxy
  <2>1. UNCHANGED <<cfg, fs, edits, shown>> /\ conn.stage # "idle"
    BY <1>6 DEF RunProxy, Runs
  <2>2. \/ Halt(404, NoBody, NoContent, NoContent)
        \/ \E content \in Utf8 : Halt(200, Raw(content), content, content)
    BY <1>6 DEF RunProxy
  <2> QED
    BY <1>a, <1>b, <1>d, <2>1, <2>2, HaltTypes
<1>7. CASE RunRedirect
  <2>1. UNCHANGED <<cfg, fs, edits, shown>> /\ conn.stage # "idle"
    BY <1>7 DEF RunRedirect, Runs
  <2>2. Halt(302, NoBody, NoContent, NoContent)
    BY <1>7 DEF RunRedirect
  <2> QED
    BY <1>b, <2>1, <2>2, HaltTypes
<1>8. CASE RunFiles
  <2>1. Runs("files") /\ UNCHANGED <<cfg, fs, edits, shown>> /\ conn.stage = "run"
    BY <1>8 DEF RunFiles, Runs
  <2>2. \/ \E content \in ContentOf : SendFile(content)
        \/ /\ At(Names(conn.text)).is = "dir"
           /\ conn' = [conn EXCEPT !.at = @ + 1, !.resolved = Names(conn.text)]
        \/ Pass
    BY <1>8, <1>c DEF RunFiles, IndexOf
  <2>3. ASSUME At(Names(conn.text)).is = "dir",
               conn' = [conn EXCEPT !.at = @ + 1, !.resolved = Names(conn.text)]
        PROVE  TypeOK'
    <3>1. Names(conn.text) \in Path
      BY <2>3 DEF At, Absent
    <3>2. conn.at <= Len(cfg.stack) /\ Len(cfg.stack) \in Nat
      BY <2>1, ConfigAssumption DEF Runs, TypeOK
    <3> QED
      BY <2>1, <2>3, <3>1, <3>2 DEF TypeOK, ConnType, Fields
  <2> QED
    BY <2>1, <2>2, <2>3, SendFileTypes, PassTypes
<1>9. CASE RunRender
  BY <1>9, PassTypes DEF RunRender
<1>10. CASE RunListing
  <2>1. Runs("listing") /\ UNCHANGED <<cfg, fs, edits, shown>> /\ conn.stage = "run"
    BY <1>10 DEF RunListing, Runs
  <2>2. \/ conn' = [conn EXCEPT !.stage = "list", !.at = @ + 1,
                                 !.todo = Children(conn.resolved)]
        \/ Pass
    BY <1>10 DEF RunListing
  <2>3. CASE conn' = [conn EXCEPT !.stage = "list", !.at = @ + 1,
                                  !.todo = Children(conn.resolved)]
    <3>1. Children(conn.resolved) \subseteq Name
      BY DEF Children
    <3>2. conn.at <= Len(cfg.stack) /\ Len(cfg.stack) \in Nat
      BY <2>1, ConfigAssumption DEF Runs, TypeOK
    <3> QED
      BY <2>1, <2>3, <3>1, <3>2 DEF TypeOK, ConnType, Fields
  <2> QED
    BY <2>1, <2>2, <2>3, PassTypes
<1>11. ASSUME NEW name \in Name, ReadEntry(name) PROVE TypeOK'
  <2>1. PICK entries : conn' = [conn EXCEPT !.todo = conn.todo \ {name}, !.entries = entries]
    BY <1>11 DEF ReadEntry
  <2>2. conn.stage = "list" /\ UNCHANGED <<cfg, fs, edits, shown>>
    BY <1>11 DEF ReadEntry
  <2> QED
    BY <2>1, <2>2 DEF TypeOK, ConnType, Fields
<1>12. CASE List
  <2>1. conn.stage # "idle" /\ UNCHANGED <<cfg, fs, edits, shown>>
    BY <1>12 DEF List
  <2>2. \E page : page.kind = "listing" /\ Halt(200, page, NoContent, NoContent)
    BY <1>12 DEF List, ListingPage
  <2> QED
    BY <1>b, <2>1, <2>2, HaltTypes DEF Bodies
<1>13. CASE Send
  BY <1>13, SendTypes
<1>14. CASE UNCHANGED vars
  BY <1>14 DEF vars, TypeOK
<1> QED
  BY <1>1, <1>2, <1>3, <1>4, <1>5, <1>6, <1>7, <1>8, <1>9, <1>10, <1>11, <1>12, <1>13, <1>14
     DEF Next

LEMMA InitTypes == Init => TypeOK
<1> SUFFICES ASSUME Init PROVE TypeOK
  OBVIOUS
<1>1. fs \in [Path -> [is : {"absent", "dir", "file"},
                      content : Content \cup {NoContent}, modified : 0..MaxEdits]]
  BY TreeAssumption DEF Init, Nodes, Absent, Dir, File
<1> QED
  BY <1>1, TreeAssumption DEF Init, TypeOK, Idle, Blank, NoBody, Bodies

\* Every request is answered with one of six statuses and a body the handlers make,
\* whatever has become of the file by the time it is read.
THEOREM TypeCorrect == Spec => []TypeOK
<1>1. TypeOK /\ IInv /\ [Next]_vars => TypeOK'
  BY StepTypes DEF IInv
<1> QED
  BY <1>1, InitTypes, InitFits, StepFits, PTL DEF Spec
-----------------------------------------------------------------------------
\* serve --render and the gateway's routes: whatever a request passes through and
\* however the directory changes meanwhile, an answer that names a file's etag
\* has that file's bytes (finalize and the bodies put back in src/serve/render.rs).
THEOREM ValidatorsAlwaysFit == Spec => []ValidatorsFit
<1>1. IInv => ValidatorsFit
  BY DEF IInv
<1> QED
  BY <1>1, InitFits, StepFits, PTL DEF Spec
-----------------------------------------------------------------------------
(* Nothing of a file is lost                                               *)

\* An answer under way has the bytes of what it was made of, all of them.
ConnHolds == conn.stage # "idle" /\ conn.status = 200 /\ conn.source # NoContent
               => conn.body = Raw(conn.source)

Holds == ConnHolds /\ NothingLost

\* One block is its own text.
LEMMA FlattenOne ==
  ASSUME NEW F, NEW block \in Seq(F)
  PROVE  FlattenSeq(<<block>>) = block
<1>1. <<>> \in Seq(Seq(F)) /\ <<block>> = Append(<<>>, block)
  BY EmptySeq
<1>2. FlattenSeq(<<block>>) = FlattenSeq(<<>>) \o block
  BY <1>1, FlattenAppend
<1>3. FlattenSeq(<<>>) = <<>>
  BY DEF FlattenSeq
<1> QED
  BY <1>2, <1>3, ConcatEmptySeq

\* One highlighted block has the lines of its source, but for the gaps.
LEMMA HighlightKeepsText ==
  ASSUME NEW content \in Utf8
  PROVE  Matches(FlattenSeq(Highlight(content)), Text(Events[content]))
<1>1. PICK text : text = Text(Events[content])
  OBVIOUS
<1>2. PICK E : text \in Seq(E)
  BY <1>1, MarkdownKeepsText
<1>3. /\ Spans(text) \in Seq(E \cup {Gap}) /\ Len(Spans(text)) = Len(text)
      /\ \A i \in 1 .. Len(text) : Spans(text)[i] = Emitted(text[i])
  BY <1>2, FencedTypes
<1>4. FlattenSeq(Highlight(content)) = Spans(text)
  BY <1>1, <1>3, FlattenOne DEF Highlight
<1>5. DOMAIN text = 1 .. Len(text)
  BY <1>2, LenProperties
<1> QED
  BY <1>1, <1>3, <1>4, <1>5 DEF Matches, Emitted

\* The text of a JSON envelope is the file's.
LEMMA JsonKeepsText ==
  ASSUME NEW content \in Utf8
  PROVE  FlattenSeq(<<Text(Events[content])>>) = Text(Events[content])
BY MarkdownKeepsText, FlattenOne

\* What before_send makes of a whole file has the lines of that file.
LEMMA RenderedKeepsText ==
  ASSUME NEW answer, NEW format, NEW path, NEW content, NEW made,
         answer = [status |-> 200, body |-> Raw(content), etag |-> answer.etag],
         made = Rendered(answer, format, path, content)
  PROVE  CASE made.body.kind = "page" -> Matches(TextOf(made.body), Text(Events[content]))
           [] made.body.kind = "json" ->
                TextOf(made.body) = IF content \in Utf8 THEN Text(Events[content]) ELSE <<>>
           [] OTHER -> made.body = Raw(content)
<1>1. PICK body : body = IF format = "json" THEN RenderJson(content) ELSE RenderHtml(path, content)
  OBVIOUS
<1>2. made.body = body
  BY <1>1 DEF Rendered, Finalize
<1>3. CASE format = "json"
  <2>1. /\ body.kind = "json"
        /\ body.html = IF content \in Utf8 THEN <<Text(Events[content])>> ELSE <<>>
    BY <1>1, <1>3 DEF RenderJson
  <2>2. CASE content \in Utf8
    BY <1>2, <2>1, <2>2, JsonKeepsText DEF TextOf
  <2>3. CASE content \notin Utf8
    <3>1. FlattenSeq(<<>>) = <<>>
      BY DEF FlattenSeq
    <3> QED
      BY <1>2, <2>1, <2>3, <3>1 DEF TextOf
  <2> QED
    BY <2>2, <2>3
<1>4. CASE format # "json"
  <2>1. body = RenderHtml(path, content)
    BY <1>1, <1>4
  <2>2. \/ body = Raw(content)
        \/ content \in Utf8 /\ body = Page(path, MarkdownToHtml(Events[content]))
        \/ content \in Utf8 /\ body = Page(path, Highlight(content))
    BY <2>1 DEF RenderHtml
  <2>3. CASE body = Raw(content)
    BY <1>2, <2>3 DEF Raw
  <2>4. CASE content \in Utf8 /\ body = Page(path, MarkdownToHtml(Events[content]))
    <3>1. body.kind = "page" /\ body.html = MarkdownToHtml(Events[content])
      BY <2>4 DEF Page
    <3> QED
      BY <1>2, <2>4, <3>1, MarkdownKeepsText DEF TextOf
  <2>5. CASE content \in Utf8 /\ body = Page(path, Highlight(content))
    <3>1. body.kind = "page" /\ body.html = Highlight(content)
      BY <2>5 DEF Page
    <3> QED
      BY <1>2, <2>5, <3>1, HighlightKeepsText DEF TextOf
  <2> QED
    BY <2>2, <2>3, <2>4, <2>5
<1> QED
  BY <1>3, <1>4

\* before_send keeps what the answer is made of.
LEMMA SendHolds ==
  ASSUME Holds, Send
  PROVE  Holds'
<1>1. PICK before : before = [status |-> IF conn.status = 0 THEN 404 ELSE conn.status,
                              body |-> conn.body, etag |-> conn.etag]
  OBVIOUS
<1>0. PICK sent \in BeforeSend(before) :
        /\ shown'.status = sent.status
        /\ shown'.body = sent.body
        /\ shown'.source = conn.source
  BY <1>1 DEF Send
<1>2. PICK answer \in RenderSends(before) :
        /\ shown'.status = 200 => shown'.status = answer.status /\ shown'.body = answer.body
        /\ shown'.source = conn.source
  BY <1>0, <1>1, Sent
<1>3. conn.stage = "send" /\ conn' = Idle
  BY DEF Send
<1>4. ASSUME answer.status = 200, conn.source # NoContent
      PROVE  CASE answer.body.kind = "page" ->
                    Matches(TextOf(answer.body), Text(Events[conn.source]))
               [] answer.body.kind = "json" ->
                    TextOf(answer.body) = IF conn.source \in Utf8 THEN Text(Events[conn.source])
                                          ELSE <<>>
               [] OTHER -> answer.body = Raw(conn.source)
  <2>1. CASE answer = before
    <3>1. conn.status = 200
      BY <1>1, <1>4, <2>1
    <3>2. answer.body = Raw(conn.source)
      BY <1>1, <1>3, <1>4, <2>1, <3>1 DEF Holds, ConnHolds
    <3> QED
      BY <3>2 DEF Raw
  <2>2. CASE answer = Unreadable(before)
    BY <1>1, <1>4, <2>2 DEF Unreadable
  <2>3. CASE Renders /\ answer = Rendered(before, RequestedFormat(conn.query),
                                          PassedOn(conn.text), conn.body.content)
    <3>1. conn.status = 200
      BY <2>3 DEF Renders
    <3>2. conn.body = Raw(conn.source)
      BY <1>3, <1>4, <3>1 DEF Holds, ConnHolds
    <3>3. conn.body.content = conn.source
      BY <3>2 DEF Raw
    <3>4. before = [status |-> 200, body |-> Raw(conn.source), etag |-> before.etag]
      BY <1>1, <3>1, <3>2
    <3>5. PICK format, path : answer = Rendered(before, format, path, conn.source)
      BY <2>3, <3>3
    <3> QED
      BY <3>4, <3>5, RenderedKeepsText
  <2> QED
    BY <1>2, <2>1, <2>2, <2>3 DEF RenderSends
<1>5. NothingLost'
  BY <1>2, <1>4 DEF NothingLost
<1> QED
  BY <1>3, <1>5 DEF Holds, ConnHolds, Idle

\* The moves of a request between its start and its answer: it goes on as it is, or a
\* handler halts it, with a whole body if the answer was made of something.
LEMMA MoveKinds ==
  ASSUME ConnType,
         \/ RunNoRoute \/ RunAssets \/ RunForward \/ RunProxy \/ RunRedirect
         \/ RunFiles \/ RunRender \/ RunListing
         \/ \E name \in Name : ReadEntry(name)
         \/ ReadFails \/ List \/ RunOut
  PROVE  /\ conn.stage # "idle" /\ UNCHANGED <<cfg, shown>>
         /\ conn'.stage # "idle" /\ UNCHANGED <<conn.text, conn.query, conn.via>>
         /\ \/ UNCHANGED <<conn.status, conn.body, conn.source>>
            \/ /\ conn'.body.kind \in {"raw", "part", "none"}
               /\ conn'.status = 200 /\ conn'.source # NoContent => conn'.body = Raw(conn'.source)
            \/ /\ conn'.source = NoContent
               /\ \E entries, sort :
                    conn'.body = ListingPage(conn.text, MountPrefix(conn.text, PassedOn(conn.text)),
                                             entries, sort, cfg.renderable, <<Sep, Plain(Css)>>)
<1>0. ASSUME conn.stage # "idle"
      PROVE  /\ Pass => /\ conn'.stage # "idle"
                        /\ UNCHANGED <<conn.text, conn.query, conn.via, conn.status, conn.body,
                                       conn.source>>
             /\ \A status, body, etag, source : Halt(status, body, etag, source) =>
                  /\ conn'.stage # "idle" /\ UNCHANGED <<conn.text, conn.query, conn.via>>
                  /\ conn'.status = status /\ conn'.body = body /\ conn'.source = source
  BY <1>0 DEF ConnType, Fields, Pass, Halt
<1>a. \A content : Raw(content).kind = "raw"
  BY DEF Raw
<1>b. NoBody.kind = "none" /\ [kind |-> "part"].kind = "part"
  BY DEF NoBody
<1>1. CASE RunNoRoute \/ RunOut \/ ReadFails
  <2>1. CASE RunNoRoute \/ RunOut
    BY <2>1 DEF RunNoRoute, RunOut, ConnType, Fields
  <2>2. CASE ReadFails
    <3>1. PICK todo, entries :
            conn' = [conn EXCEPT !.stage = "run", !.todo = todo, !.entries = entries]
      BY <2>2 DEF ReadFails
    <3>2. conn.stage = "list" /\ UNCHANGED <<cfg, shown>>
      BY <2>2 DEF ReadFails
    <3> QED
      BY <3>1, <3>2 DEF ConnType, Fields
  <2> QED
    BY <1>1, <2>1, <2>2
<1>2. CASE RunAssets
  <2>1. conn.stage # "idle" /\ UNCHANGED <<cfg, shown>>
    BY <1>2 DEF RunAssets, Runs
  <2>2. Halt(200, Raw(CssContent), CssContent, CssContent) \/ Pass
    BY <1>2 DEF RunAssets
  <2> QED
    BY <1>0, <1>a, <2>1, <2>2
<1>3. CASE RunForward \/ RunProxy \/ RunRedirect
  <2>1. conn.stage # "idle" /\ UNCHANGED <<cfg, shown>>
    BY <1>3 DEF RunForward, RunProxy, RunRedirect, Runs
  <2>2. \/ Pass
        \/ Halt(404, NoBody, NoContent, NoContent)
        \/ Halt(302, NoBody, NoContent, NoContent)
        \/ \E content \in Utf8 : Halt(200, Raw(content), content, content)
    BY <1>3 DEF RunForward, RunProxy, RunRedirect
  <2> QED
    BY <1>0, <1>a, <1>b, <2>1, <2>2
<1>4. CASE RunFiles
  <2>1. conn.stage # "idle" /\ UNCHANGED <<cfg, shown>>
    BY <1>4 DEF RunFiles, Runs
  <2>2. \/ \E content : SendFile(content)
        \/ conn' = [conn EXCEPT !.at = @ + 1, !.resolved = Names(conn.text)]
        \/ Pass
    BY <1>4 DEF RunFiles
  <2>3. CASE conn' = [conn EXCEPT !.at = @ + 1, !.resolved = Names(conn.text)]
    BY <2>1, <2>3 DEF ConnType, Fields
  <2>4. ASSUME NEW content, SendFile(content)
        PROVE  \/ Halt(200, Raw(content), content, content)
               \/ Halt(206, [kind |-> "part"], content, content)
               \/ Halt(304, NoBody, content, content)
    BY <2>4 DEF SendFile
  <2>5. CASE \E content : SendFile(content)
    BY <1>0, <1>a, <1>b, <2>1, <2>4, <2>5
  <2> QED
    BY <1>0, <2>1, <2>2, <2>3, <2>5
<1>5. CASE RunRender
  BY <1>0, <1>5 DEF RunRender, Runs
<1>6. CASE RunListing
  <2>1. conn.stage # "idle" /\ UNCHANGED <<cfg, shown>>
    BY <1>6 DEF RunListing, Runs
  <2>2. \/ conn' = [conn EXCEPT !.stage = "list", !.at = @ + 1,
                                 !.todo = Children(conn.resolved)]
        \/ Pass
    BY <1>6 DEF RunListing
  <2>3. CASE conn' = [conn EXCEPT !.stage = "list", !.at = @ + 1,
                                  !.todo = Children(conn.resolved)]
    BY <2>1, <2>3 DEF ConnType, Fields
  <2> QED
    BY <1>0, <2>1, <2>2, <2>3
<1>7. CASE \E name \in Name : ReadEntry(name)
  <2>1. PICK todo, entries : conn' = [conn EXCEPT !.todo = todo, !.entries = entries]
    BY <1>7 DEF ReadEntry
  <2>2. conn.stage = "list" /\ UNCHANGED <<cfg, shown>>
    BY <1>7 DEF ReadEntry
  <2> QED
    BY <2>1, <2>2 DEF ConnType, Fields
<1>8. CASE List
  <2>1. conn.stage # "idle" /\ UNCHANGED <<cfg, shown>>
    BY <1>8 DEF List
  <2>2. \E entries, sort :
          Halt(200, ListingPage(conn.text, MountPrefix(conn.text, PassedOn(conn.text)),
                                entries, sort, cfg.renderable, <<Sep, Plain(Css)>>),
               NoContent, NoContent)
    BY <1>8 DEF List
  <2> QED
    BY <1>0, <2>1, <2>2
<1> QED
  BY <1>1, <1>2, <1>3, <1>4, <1>5, <1>6, <1>7, <1>8

LEMMA StepHolds == ConnType /\ Holds /\ [Next]_vars => Holds'
<1> SUFFICES ASSUME ConnType, Holds, [Next]_vars
             PROVE  Holds'
  OBVIOUS
<1>1. ASSUME NEW link, NEW kind, Request(link, kind)
      PROVE  Holds'
  BY <1>1 DEF Request, Holds, ConnHolds, NothingLost, Blank
<1>2. CASE \/ \E path \in Path, node \in Nodes : Edit(path, node)
           \/ UNCHANGED vars
  BY <1>2 DEF Edit, vars, Holds, ConnHolds, NothingLost
<1>3. CASE Send
  BY <1>3, SendHolds
<1>4. CASE \/ RunNoRoute \/ RunAssets \/ RunForward \/ RunProxy \/ RunRedirect
           \/ RunFiles \/ RunRender \/ RunListing
           \/ \E name \in Name : ReadEntry(name)
           \/ ReadFails \/ List \/ RunOut
  BY <1>4, MoveKinds DEF Holds, ConnHolds, NothingLost
<1> QED
  BY <1>1, <1>2, <1>3, <1>4 DEF Next

LEMMA InitHolds == Init => Holds
BY DEF Init, Holds, ConnHolds, NothingLost, Idle, Blank

\* serve --render, --forward and the gateway's routes: rendered as a page or as JSON
\* or put back, an answer has the lines of its file in order, whatever blocks its
\* markdown is made of, but for those that the highlighter gave up on (before_send,
\* markdown_to_html and spans in src/serve/render.rs).
THEOREM NothingIsLost == Spec => []NothingLost
<1>1. IInv /\ Holds /\ [Next]_vars => Holds'
  BY StepHolds DEF IInv
<1>2. Holds => NothingLost
  BY DEF Holds
<1> QED
  BY <1>1, <1>2, InitFits, StepFits, InitHolds, PTL DEF Spec
-----------------------------------------------------------------------------
(* Paths, as requests and links have them                                  *)

IsText(text) == \E A : text \in Seq(A)
IsPath(text) == IsText(text) /\ text # <<>> /\ text[1] = Sep

\* A path has a length, and its indices are those up to it.
LEMMA TextLength ==
  ASSUME NEW text, IsText(text)
  PROVE  /\ Len(text) \in Nat /\ DOMAIN text = 1 .. Len(text)
         /\ text = <<>> <=> Len(text) = 0
BY LenProperties, EmptySeq DEF IsText

\* The largest and the least of some indices.
LEMMA TopIndex ==
  ASSUME NEW n \in Nat, NEW s \in SUBSET (1 .. n)
  PROVE  /\ Max(s \cup {0}) \in 0 .. n
         /\ s # {} => Max(s) \in s
         /\ n \in s => Max(s \cup {0}) = n
<1>1. ASSUME s # {} PROVE Max(s) \in s /\ \A y \in s : Max(s) >= y
  <2>1. Max(s) \in s
    BY <1>1, MaxIsIn
  <2>2. \E x \in s : \A y \in s : x >= y
    BY <1>1, HasTop
  <2> QED
    BY <2>2 DEF Max
<1>2. \E x \in s \cup {0} : \A y \in s \cup {0} : x >= y
  <2>1. CASE s = {}
    BY <2>1
  <2>2. CASE s # {}
    <3>1. PICK x \in s : \A y \in s : x >= y
      BY <2>2, HasTop
    <3>2. x >= 0
      OBVIOUS
    <3> QED
      BY <3>1, <3>2
  <2> QED
    BY <2>1, <2>2
<1>3. PICK top : top = Max(s \cup {0})
  OBVIOUS
<1>4. top \in s \cup {0} /\ \A y \in s \cup {0} : top >= y
  BY <1>2, <1>3 DEF Max
<1>5. top \in 0 .. n /\ (n \in s => top = n)
  BY <1>4
<1> QED
  BY <1>1, <1>3, <1>5

\* An index is found, or the one after the last.
LEMMA LeastIndex ==
  ASSUME NEW n \in Nat, NEW s \in SUBSET (1 .. n)
  PROVE  Min(s \cup {n + 1}) \in 1 .. n + 1
<1> DEFINE t == {n + 2 - i : i \in s \cup {n + 1}}
<1>1. t \in SUBSET (1 .. n + 1) /\ t # {} /\ n + 1 \in Nat
  OBVIOUS
<1>2. PICK top \in t : \A y \in t : top >= y
  <2> HIDE DEF t
  <2> QED
    BY <1>1, HasTop
<1>3. PICK x \in s \cup {n + 1} : top = n + 2 - x
  OBVIOUS
<1>4. \A y \in s \cup {n + 1} : x <= y
  <2> SUFFICES ASSUME NEW y \in s \cup {n + 1} PROVE x <= y
    OBVIOUS
  <2>1. top >= n + 2 - y
    BY <1>2
  <2> QED
    BY <1>3, <2>1
<1>5. PICK least : least = Min(s \cup {n + 1})
  OBVIOUS
<1>6. least \in s \cup {n + 1}
  BY <1>4, <1>5 DEF Min
<1>7. least \in 1 .. n + 1
  BY <1>6
<1> QED
  BY <1>5, <1>7

\* What is cut out of a sequence has the same elements.
LEMMA PartOfText ==
  ASSUME NEW A, NEW text \in Seq(A), NEW m \in Int, NEW n \in Int, 1 <= m, n <= Len(text)
  PROVE  SubSeq(text, m, n) \in Seq(A)
<1>1. \A i \in m .. n : text[i] \in A
  BY LenProperties, ElementOfSeq
<1> QED
  BY <1>1, SubSeqProperties

\* The beginning of a path is a path.
LEMMA PrefixOfPath ==
  ASSUME NEW text, IsPath(text), NEW n \in 1 .. Len(text)
  PROVE  IsPath(SubSeq(text, 1, n))
<1>1. PICK A : text \in Seq(A)
  BY DEF IsPath, IsText
<1>2. Len(text) \in Nat /\ \A i \in 1 .. n : text[i] \in A
  BY <1>1, LenProperties, ElementOfSeq
<1>3. PICK part : part = SubSeq(text, 1, n)
  OBVIOUS
<1>4. part \in Seq(A) /\ Len(part) = n /\ part[1] = text[1]
  BY <1>2, <1>3, SubSeqProperties
<1>5. part # <<>>
  BY <1>4, EmptySeq
<1> QED
  BY <1>3, <1>4, <1>5 DEF IsPath, IsText

\* What is joined on starts as its first part does.
LEMMA TextAfterText ==
  ASSUME NEW some, NEW more, IsText(some), IsText(more)
  PROVE  /\ IsText(some \o more)
         /\ IsPath(some) => IsPath(some \o more)
         /\ some = <<>> /\ IsPath(more) => IsPath(some \o more)
<1>1. PICK A : some \in Seq(A)
  BY DEF IsText
<1>2. PICK B : more \in Seq(B)
  BY DEF IsText
<1>3. some \in Seq(A \cup B) /\ more \in Seq(A \cup B)
  BY <1>1, <1>2
<1>4. PICK all : all = some \o more
  OBVIOUS
<1>5. /\ all \in Seq(A \cup B) /\ Len(all) = Len(some) + Len(more)
      /\ Len(some) \in Nat /\ Len(more) \in Nat
      /\ \A i \in 1 .. Len(some) + Len(more) :
           all[i] = IF i <= Len(some) THEN some[i] ELSE more[i - Len(some)]
  BY <1>3, <1>4, ConcatProperties, LenProperties
<1>6. IsText(all)
  BY <1>5 DEF IsText
<1>7. ASSUME IsPath(some) PROVE IsPath(all)
  <2>1. Len(some) # 0 /\ some[1] = Sep
    BY <1>7, TextLength DEF IsPath
  <2>2. all[1] = Sep /\ Len(all) # 0
    BY <1>5, <2>1
  <2> QED
    BY <1>6, <2>2, TextLength DEF IsPath
<1>8. ASSUME some = <<>>, IsPath(more) PROVE IsPath(all)
  BY <1>2, <1>4, <1>8, ConcatEmptySeq
<1> QED
  BY <1>4, <1>6, <1>7, <1>8

LEMMA OnePiece ==
  ASSUME NEW piece
  PROVE  IsText(<<piece>>) /\ IsText(<<>>) /\ (piece = Sep => IsPath(<<piece>>))
<1>1. <<piece>> \in Seq({piece}) /\ <<>> \in Seq({piece})
  BY EmptySeq
<1> QED
  BY <1>1 DEF IsText, IsPath

\* trim_end_matches takes the end away, and nothing if there is no slash at it.
LEMMA TrimmedEnd ==
  ASSUME NEW text, IsText(text)
  PROVE  /\ \E n \in 0 .. Len(text) : TrimEnd(text) = SubSeq(text, 1, n)
         /\ IsText(TrimEnd(text))
         /\ text # <<>> /\ Last(text) # Sep => TrimEnd(text) = text
<1>1. PICK A : text \in Seq(A)
  BY DEF IsText
<1>2. PICK s : s = {i \in DOMAIN text : text[i] # Sep}
  OBVIOUS
<1>3. /\ Len(text) \in Nat /\ s \in SUBSET (1 .. Len(text)) /\ DOMAIN text = 1 .. Len(text)
      /\ text # <<>> => Len(text) \in DOMAIN text
  BY <1>2, TextLength
<1>4. PICK n \in 0 .. Len(text) : n = Max(s \cup {0}) /\ (Len(text) \in s => n = Len(text))
  <2>1. /\ Max(s \cup {0}) \in 0 .. Len(text)
        /\ Len(text) \in s => Max(s \cup {0}) = Len(text)
    BY <1>3, TopIndex
  <2> QED
    BY <2>1
<1>5. TrimEnd(text) = SubSeq(text, 1, n)
  BY <1>2, <1>4 DEF TrimEnd
<1>6. SubSeq(text, 1, n) \in Seq(A)
  BY <1>1, <1>3, PartOfText
<1>7. ASSUME text # <<>>, Last(text) # Sep PROVE TrimEnd(text) = text
  <2>1. Len(text) \in s
    BY <1>2, <1>3, <1>7 DEF Last
  <2> QED
    BY <1>1, <1>4, <1>5, <2>1, SubSeqFull
<1> QED
  BY <1>5, <1>6, <1>7 DEF IsText

LEMMA TrimmedStart ==
  ASSUME NEW text, IsText(text)
  PROVE  IsText(TrimStart(text))
<1>1. PICK A : text \in Seq(A)
  BY DEF IsText
<1>2. PICK s : s = {i \in DOMAIN text : text[i] # Sep}
  OBVIOUS
<1>3. Len(text) \in Nat /\ s \in SUBSET (1 .. Len(text))
  BY <1>2, TextLength
<1>4. Min(s \cup {Len(text) + 1}) \in 1 .. Len(text) + 1
  BY <1>3, LeastIndex
<1>5. PICK m \in Int : m = Min(s \cup {Len(text) + 1}) /\ 1 <= m
  <2>1. 1 .. Len(text) + 1 \subseteq Int /\ \A m \in 1 .. Len(text) + 1 : 1 <= m
    BY <1>3
  <2> QED
    BY <1>4, <2>1
<1>6. SubSeq(text, m, Len(text)) \in Seq(A)
  <2>1. PICK n \in Int : n = Len(text) /\ n <= Len(text)
    BY <1>3
  <2>2. SubSeq(text, m, n) \in Seq(A)
    BY <1>1, <1>5, <2>1, PartOfText
  <2> QED
    BY <2>1, <2>2
<1> QED
  BY <1>2, <1>5, <1>6 DEF TrimStart, IsText

EmptyOrPath(text) == text = <<>> \/ IsPath(text)

LEMMA EmptyOrPathTypes ==
  ASSUME NEW text, EmptyOrPath(text)
  PROVE  IsText(text) /\ Len(text) \in Nat
BY OnePiece, TextLength DEF EmptyOrPath, IsPath

\* A beginning of any length, also none, is a path or empty.
LEMMA ShorterPath ==
  ASSUME NEW text, EmptyOrPath(text), NEW n \in Int, n <= Len(text)
  PROVE  EmptyOrPath(SubSeq(text, 1, n))
<1>1. CASE n < 1
  BY <1>1, SubSeqEmpty DEF EmptyOrPath
<1>2. CASE n >= 1
  <2>1. IsPath(text) /\ n \in 1 .. Len(text)
    BY <1>2, EmptyOrPathTypes, TextLength DEF EmptyOrPath
  <2> QED
    BY <2>1, PrefixOfPath DEF EmptyOrPath
<1> QED
  BY <1>1, <1>2

LEMMA TrimmedPath ==
  ASSUME NEW text, EmptyOrPath(text)
  PROVE  EmptyOrPath(TrimEnd(text))
<1>1. PICK n \in 0 .. Len(text) : TrimEnd(text) = SubSeq(text, 1, n)
  BY EmptyOrPathTypes, TrimmedEnd
<1>2. n \in Int /\ n <= Len(text)
  BY EmptyOrPathTypes
<1> QED
  BY <1>1, <1>2, ShorterPath

\* The router passes on a sequence of pieces.
LEMMA PassedOnIsText ==
  ASSUME cfg \in Configs, NEW text, IsPath(text)
  PROVE  IsText(PassedOn(text))
<1>1. CASE cfg.routed
  <2>1. Len(cfg.mount) \in Nat
    BY ConfigAssumption, LenProperties
  <2>2. PICK A : text \in Seq(A)
    BY DEF IsPath, IsText
  <2>3. PICK m \in Int, n \in Int :
          m = Len(cfg.mount) + 1 /\ n = Len(text) /\ 1 <= m /\ n <= Len(text)
    BY <2>1, <2>2, LenProperties
  <2>4. SubSeq(text, m, n) \in Seq(A)
    BY <2>2, <2>3, PartOfText
  <2>5. PICK rest : rest = SubSeq(text, Len(cfg.mount) + 1, Len(text))
    OBVIOUS
  <2>6. IsText(rest)
    BY <2>3, <2>4, <2>5 DEF IsText
  <2>7. IsText(TrimStart(TrimEnd(rest)))
    BY <2>6, TrimmedEnd, TrimmedStart
  <2> QED
    BY <1>1, <2>5, <2>7 DEF PassedOn
<1>2. CASE ~cfg.routed
  BY <1>2 DEF PassedOn, IsPath
<1> QED
  BY <1>1, <1>2

\* A mount prefix is a path or empty.
LEMMA PrefixIsPath ==
  ASSUME NEW full, IsPath(full), NEW path, IsText(path)
  PROVE  EmptyOrPath(MountPrefix(full, path))
<1>1. PICK whole : whole = TrimEnd(full)
  OBVIOUS
<1>2. PICK suffix : suffix = TrimStart(TrimEnd(path))
  OBVIOUS
<1>3. EmptyOrPath(whole) /\ Len(whole) \in Nat
  <2>1. EmptyOrPath(full)
    BY DEF EmptyOrPath
  <2>2. EmptyOrPath(whole)
    BY <1>1, <2>1, TrimmedPath
  <2> QED
    BY <2>2, EmptyOrPathTypes
<1>4. Len(suffix) \in Nat
  <2>1. IsText(TrimEnd(path))
    BY TrimmedEnd
  <2>2. IsText(suffix)
    BY <1>2, <2>1, TrimmedStart
  <2> QED
    BY <2>2, TextLength
<1>5. PICK n \in Int : n = Len(whole) - Len(suffix) /\ n <= Len(whole)
  BY <1>3, <1>4
<1>6. EmptyOrPath(SubSeq(whole, 1, n))
  BY <1>3, <1>5, ShorterPath
<1>7. EmptyOrPath(StripSuffix(whole, suffix))
  BY <1>5, <1>6 DEF StripSuffix, EmptyOrPath
<1>8. EmptyOrPath(TrimEnd(StripSuffix(whole, suffix)))
  BY <1>7, TrimmedPath
<1> QED
  BY <1>1, <1>2, <1>8 DEF MountPrefix

\* The base of the rows' links is a path.
LEMMA BaseIsPath ==
  ASSUME NEW full, IsPath(full)
  PROVE  IsPath(Base(full))
<1>1. CASE Last(full) = Sep
  BY <1>1 DEF Base
<1>2. CASE Last(full) # Sep
  <2>1. PICK A : full \in Seq(A)
    BY DEF IsPath, IsText
  <2>2. full \in Seq(A \cup {Sep}) /\ Sep \in A \cup {Sep}
    BY <2>1
  <2>3. Append(full, Sep) = full \o <<Sep>>
    BY <2>2, AppendIsConcat
  <2>4. IsPath(full \o <<Sep>>)
    BY OnePiece, TextAfterText DEF IsPath
  <2> QED
    BY <1>2, <2>3, <2>4 DEF Base
<1> QED
  BY <1>1, <1>2

\* The parent link is a path.
LEMMA ParentIsPath ==
  ASSUME NEW base, IsPath(base)
  PROVE  IsPath(ParentPath(base))
<1>1. PICK trimmed : trimmed = TrimEnd(base)
  OBVIOUS
<1>2. EmptyOrPath(trimmed) /\ Len(trimmed) \in Nat
  BY <1>1, TrimmedPath, EmptyOrPathTypes DEF EmptyOrPath
<1>3. PICK seps : seps = {i \in DOMAIN trimmed : trimmed[i] = Sep}
  OBVIOUS
<1>4. CASE seps = {}
  BY <1>1, <1>3, <1>4, OnePiece DEF ParentPath
<1>5. CASE seps # {}
  <2>1. seps \in SUBSET (1 .. Len(trimmed))
    BY <1>2, <1>3, EmptyOrPathTypes, TextLength
  <2>2. Max(seps) \in 1 .. Len(trimmed)
    BY <1>2, <1>5, <2>1, MaxIsIn
  <2>3. IsPath(trimmed)
    BY <1>2, <2>2, EmptySeq DEF EmptyOrPath
  <2>4. IsPath(SubSeq(trimmed, 1, Max(seps)))
    BY <2>2, <2>3, PrefixOfPath
  <2> QED
    BY <1>1, <1>3, <1>5, <2>4 DEF ParentPath
<1> QED
  BY <1>4, <1>5

\* What a relative link is joined to is a path.
LEMMA CutIsPath ==
  ASSUME NEW text, IsPath(text)
  PROVE  IsPath(UpToLastSep(text))
<1>1. PICK seps : seps = {i \in DOMAIN text : text[i] = Sep}
  OBVIOUS
<1>2. Len(text) \in Nat /\ DOMAIN text = 1 .. Len(text) /\ Len(text) # 0 /\ text[1] = Sep
  BY TextLength DEF IsPath
<1>3. seps \in SUBSET (1 .. Len(text)) /\ 1 \in seps
  BY <1>1, <1>2
<1>4. Max(seps) \in 1 .. Len(text)
  BY <1>2, <1>3, MaxIsIn
<1>5. IsPath(SubSeq(text, 1, Max(seps)))
  BY <1>4, PrefixOfPath
<1> QED
  BY <1>1, <1>5 DEF UpToLastSep
-----------------------------------------------------------------------------
(* What the browser reads                                                  *)

\* A piece that is read as it is written.
Clear(piece) == piece.coded = 0 => piece.name \notin Mangled

\* Reading changes the pieces that are not clear, and nothing else.
LEMMA ReadIs ==
  ASSUME NEW text, IsText(text)
  PROVE  /\ IsText(Read(text)) /\ Len(Read(text)) = Len(text)
         /\ \A i \in 1 .. Len(text) : Read(text)[i] = IF Clear(text[i]) THEN text[i] ELSE Garbled
         /\ Read(text) = text <=> \A i \in 1 .. Len(text) : Clear(text[i])
<1>1. PICK A : text \in Seq(A)
  BY DEF IsText
<1>2. PICK n \in Nat : n = Len(text) /\ DOMAIN text = 1 .. n
  BY <1>1, LenProperties
<1>3. PICK read : read = Read(text)
  OBVIOUS
<1>4. read = [i \in 1 .. n |-> IF Clear(text[i]) THEN text[i] ELSE Garbled]
  BY <1>2, <1>3 DEF Read, Clear
<1>5. \A i \in 1 .. n : text[i] \in A
  BY <1>1, <1>2, ElementOfSeq
<1>6. read \in Seq(A \cup {Garbled}) /\ Len(read) = n
  BY <1>4, <1>5
<1>7. ASSUME NEW piece, ~Clear(piece) PROVE piece # Garbled
  <2>1. piece.name \in Name /\ Garbled.name \notin Name
    BY <1>7, ContentAssumption, NameAssumption, PathAssumption DEF Clear
  <2> QED
    BY <2>1
<1>8. read = text <=> \A i \in 1 .. n : Clear(text[i])
  <2>1. ASSUME read = text, NEW i \in 1 .. n PROVE Clear(text[i])
    BY <1>4, <1>7, <2>1
  <2>2. ASSUME \A i \in 1 .. n : Clear(text[i]) PROVE read = text
    <3>1. text \in Seq(A \cup {Garbled}) /\ \A i \in 1 .. n : read[i] = text[i]
      BY <1>1, <1>4, <2>2
    <3> QED
      BY <1>2, <1>6, <3>1, SeqEqual
  <2> QED
    BY <2>1, <2>2
<1> QED
  BY <1>2, <1>3, <1>4, <1>6, <1>8 DEF IsText

\* A path is read as a path.
LEMMA ReadIsPath ==
  ASSUME NEW text, IsPath(text)
  PROVE  IsPath(Read(text))
<1>1. Len(text) \in Nat /\ Len(text) # 0
  BY TextLength DEF IsPath
<1>2. Clear(Sep)
  BY ContentAssumption, NameAssumption DEF Clear, Sep
<1>3. Read(text)[1] = Sep /\ IsText(Read(text)) /\ Len(Read(text)) # 0
  BY <1>1, <1>2, ReadIs DEF IsPath
<1> QED
  BY <1>3, TextLength DEF IsPath

\* What the listing has encoded is clear.
LEMMA EncodedIsClear == \A name : Clear(Encode(name))
BY ContentAssumption DEF Clear, Encode

\* So the last piece of a row's link stays.
LEMMA ReadsLast ==
  ASSUME NEW text, IsPath(text), Clear(Last(text))
  PROVE  Last(Read(text)) = Last(text)
<1>1. Len(text) \in 1 .. Len(text)
  BY TextLength DEF IsPath
<1> QED
  BY <1>1, ReadIs DEF Last, IsPath
-----------------------------------------------------------------------------
(* Links to rendered pages                                                 *)

Encoded(names) == {Encode(name) : name \in names}

\* Every link of a body is a path; a row that links to a rendered page names a file
\* that can be rendered.
Fine(body) ==
  /\ body.kind = "page" => IsText(body.raw)
  /\ body.kind = "listing" =>
       /\ IsPath(body.style)
       /\ body.parent # NoLink => IsPath(body.parent)
       /\ \A i \in DOMAIN body.rows :
            /\ IsPath(body.rows[i].href)
            /\ body.rows[i].renders => Last(body.rows[i].href) \in Encoded(cfg.renderable)

\* What a request that comes from such a row asks for.
Asked(link) == link.via = "row" /\ link.query # <<>> =>
                 /\ link.query = << <<"render", "">> >>
                 /\ Last(link.text) \in Encoded(cfg.renderable)

Linked ==
  /\ conn.stage # "idle" => /\ IsPath(conn.text) /\ Asked(conn) /\ Fine(conn.body)
                           /\ conn.body.kind \in {"raw", "part", "none", "listing"}
  /\ shown.body.kind \in {"listing", "page"} => IsPath(shown.text) /\ Fine(shown.body)

\* A row links to a path; with `?render`, to a renderable name.
LEMMA RowIsFine ==
  ASSUME NEW base, IsPath(base), NEW entry, NEW renderable, NEW row,
         row = Row(base, entry, renderable)
  PROVE  IsPath(row.href) /\ (row.renders => Last(row.href) \in Encoded(renderable))
<1>1. PICK piece : piece = Encode(entry.name)
  OBVIOUS
<1>2. entry.name \in renderable => piece \in Encoded(renderable)
  BY <1>1 DEF Encoded
<1>3. PICK text : text = base \o <<piece>>
  OBVIOUS
<1>4. IsPath(text)
  BY <1>3, OnePiece, TextAfterText DEF IsPath
<1>5. PICK rest : rest = IF entry.is_dir THEN <<Sep>> ELSE <<>>
  OBVIOUS
<1>6. row.href = text \o rest /\ (row.renders <=> ~entry.is_dir /\ entry.name \in renderable)
  BY <1>1, <1>3, <1>5 DEF Row
<1>7. IsText(rest)
  BY <1>5, OnePiece
<1>8. IsPath(row.href)
  BY <1>4, <1>6, <1>7, TextAfterText DEF IsPath
<1>9. ASSUME row.renders PROVE Last(row.href) = piece
  <2>1. rest = <<>>
    BY <1>5, <1>6, <1>9
  <2>2. row.href = text
    BY <1>4, <1>6, <2>1, ConcatEmptySeq DEF IsPath, IsText
  <2>3. PICK A : base \in Seq(A)
    BY DEF IsPath, IsText
  <2>4. base \in Seq(A \cup {piece}) /\ piece \in A \cup {piece}
    BY <2>3
  <2>5. text = Append(base, piece)
    BY <1>3, <2>4, AppendIsConcat
  <2>6. Last(text) = piece
    BY <2>4, <2>5, AppendProperties DEF Last
  <2> QED
    BY <2>2, <2>6
<1> QED
  BY <1>2, <1>6, <1>8, <1>9

\* So do all the rows of a listing, and the other links too.
LEMMA ListingIsFine ==
  ASSUME cfg \in Configs, NEW text, IsPath(text), NEW entries, NEW sort, NEW body,
         body = ListingPage(text, MountPrefix(text, PassedOn(text)), entries, sort,
                            cfg.renderable, <<Sep, Plain(Css)>>)
  PROVE  Fine(body) /\ body.kind = "listing"
<1>1. PICK base : base = Base(text)
  OBVIOUS
<1>2. PICK prefix : prefix = MountPrefix(text, PassedOn(text))
  OBVIOUS
<1>3. IsPath(base)
  BY <1>1, BaseIsPath
<1>4. /\ body.kind = "listing" /\ body.style = prefix \o <<Sep, Plain(Css)>>
      /\ body.parent = IF base # Append(prefix, Sep) THEN ParentPath(base) ELSE NoLink
      /\ DOMAIN body.rows = DOMAIN entries
      /\ \A i \in DOMAIN body.rows : body.rows[i] = Row(base, entries[i], cfg.renderable)
  BY <1>1, <1>2 DEF ListingPage
<1>5. IsPath(body.style)
  <2>1. IsPath(<<Sep, Plain(Css)>>)
    <3>1. <<Sep, Plain(Css)>> = <<Sep>> \o <<Plain(Css)>>
      OBVIOUS
    <3> QED
      BY <3>1, OnePiece, TextAfterText
  <2>2. EmptyOrPath(prefix)
    BY <1>2, PassedOnIsText, PrefixIsPath
  <2>3. IsText(prefix) /\ IsText(<<Sep, Plain(Css)>>)
    BY <2>1, <2>2, EmptyOrPathTypes DEF IsPath
  <2> QED
    BY <1>4, <2>1, <2>2, <2>3, TextAfterText DEF EmptyOrPath
<1>6. body.parent # NoLink => IsPath(body.parent)
  BY <1>3, <1>4, ParentIsPath
<1>7. \A i \in DOMAIN body.rows :
        /\ IsPath(body.rows[i].href)
        /\ body.rows[i].renders => Last(body.rows[i].href) \in Encoded(cfg.renderable)
  BY <1>3, <1>4, RowIsFine
<1> QED
  BY <1>4, <1>5, <1>6, <1>7 DEF Fine

\* Whatever is followed from a page that is fine asks for a path.
LEMMA LinkIsFine ==
  ASSUME Linked, NEW link \in Links
  PROVE  IsPath(link.text) /\ Asked(link)
<1>1. CASE shown.body.kind = "listing"
  <2> DEFINE page == shown.body
  <2>1. Fine(page) /\ IsPath(shown.text) /\ link \in ListingLinks(page)
    BY <1>1 DEF Linked, Links
  <2>2. CASE link \in RowLinks(page)
    <3>1. PICK i \in DOMAIN page.rows :
            link = Link(Read(page.rows[i].href),
                        IF page.rows[i].renders THEN << <<"render", "">> >> ELSE <<>>, "row")
      BY <2>2 DEF RowLinks
    <3>2. /\ link.text = Read(page.rows[i].href)
          /\ link.query = IF page.rows[i].renders THEN << <<"render", "">> >> ELSE <<>>
      BY <3>1 DEF Link
    <3>3. /\ IsPath(page.rows[i].href)
          /\ page.rows[i].renders => Last(page.rows[i].href) \in Encoded(cfg.renderable)
      BY <1>1, <2>1 DEF Fine
    <3> HIDE DEF page
    <3>4. /\ IsPath(link.text)
          /\ page.rows[i].renders => Last(link.text) \in Encoded(cfg.renderable)
      BY <3>2, <3>3, ReadIsPath, ReadsLast, EncodedIsClear DEF Encoded
    <3> QED
      BY <3>2, <3>4 DEF Asked
  <2>3. CASE \E query : link = Link(shown.text, query, "header")
    BY <2>1, <2>3 DEF Link, Asked
  <2>4. CASE link = Link(Read(page.style), <<>>, "style")
    BY <1>1, <2>1, <2>4, ReadIsPath DEF Link, Asked, Fine
  <2>5. CASE page.parent # NoLink /\ link = Link(Read(page.parent), <<>>, "parent")
    BY <1>1, <2>1, <2>5, ReadIsPath DEF Link, Asked, Fine
  <2> QED
    BY <2>1, <2>2, <2>3, <2>4, <2>5 DEF ListingLinks
<1>2. CASE shown.body.kind = "page"
  <2>1. IsText(shown.body.raw) /\ IsPath(shown.text) /\ link = RawLink(shown.body)
    BY <1>2 DEF Linked, Links, Fine
  <2>2. IsPath(UpToLastSep(shown.text) \o Read(shown.body.raw))
    BY <2>1, CutIsPath, ReadIs, TextAfterText DEF IsPath
  <2> QED
    BY <2>1, <2>2 DEF RawLink, Link, Asked
<1> QED
  BY <1>1, <1>2 DEF Links

\* A request starts with the path and the query of its link.
LEMMA RequestLinked ==
  ASSUME Linked, NEW link, IsPath(link.text), Asked(link), NEW kind, Request(link, kind)
  PROVE  Linked'
<1>1. /\ conn'.text = link.text /\ conn'.query = link.query /\ conn'.via = link.via
      /\ conn'.body = NoBody /\ shown' = Blank /\ cfg' = cfg
  BY DEF Request
<1>2. Asked(conn)'
  BY <1>1 DEF Asked
<1> QED
  BY <1>1, <1>2 DEF Linked, Fine, NoBody, Blank

\* The query of a row asks for a page.
LEMMA RowAsksForHtml == RequestedFormat(<< <<"render", "">> >>) = "html"
<1>1. PICK pair : pair = <<"render", "">>
  OBVIOUS
<1>2. pair[1] = "render" /\ pair[2] = ""
  BY <1>1
<1>3. <<pair>> \in Seq({pair}) /\ Len(<<pair>>) = 1 /\ <<pair>>[1] = pair
  OBVIOUS
<1>4. PICK query : query = <<pair>>
  OBVIOUS
<1>5. DOMAIN query = 1 .. 1 /\ query[1] = pair
  BY <1>3, <1>4
<1>6. 1 .. 1 = {1}
  OBVIOUS
<1>7. Values(query, "render") = {1}
  <2>1. \A i \in DOMAIN query : i = 1
    BY <1>5, <1>6
  <2>2. 1 \in DOMAIN query /\ query[1][1] = "render"
    BY <1>2, <1>5, <1>6
  <2> QED
    BY <2>1, <2>2 DEF Values
<1>8. Max({1}) = 1
  BY MaxOfTop
<1> QED
  BY <1>1, <1>2, <1>4, <1>5, <1>7, <1>8 DEF RequestedFormat

\* The row's `?render` is honoured: a text is sent as a page.
LEMMA RowRenders ==
  ASSUME cfg \in Configs, IsPath(conn.text), Asked(conn), conn.via = "row", conn.query # <<>>,
         conn.status = 200, conn.resolved = NoPath, NEW content \in Utf8, conn.body = Raw(content),
         NEW etag, NEW before, before = [status |-> 200, body |-> conn.body, etag |-> etag],
         NEW answer \in RenderSends(before), answer.status = 200
  PROVE  answer.body.kind = "page"
<1>1. /\ conn.query = << <<"render", "">> >>
      /\ Last(conn.text).name \in Markdown \cup Highlighted
      /\ Last(conn.text) = Encode(Last(conn.text).name)
      /\ ~cfg.routed /\ \E i \in DOMAIN cfg.stack : cfg.stack[i] = "render"
  <2>1. /\ conn.query = << <<"render", "">> >>
        /\ Last(conn.text).name \in cfg.renderable /\ Last(conn.text) = Encode(Last(conn.text).name)
    <3>1. conn.query = << <<"render", "">> >> /\ Last(conn.text) \in Encoded(cfg.renderable)
      BY DEF Asked
    <3>2. PICK name \in cfg.renderable : Last(conn.text) = Encode(name)
      BY <3>1 DEF Encoded
    <3>3. PICK piece : piece = Last(conn.text)
      OBVIOUS
    <3>4. piece.name = name
      BY <3>2, <3>3 DEF Encode
    <3> QED
      BY <3>1, <3>2, <3>3, <3>4
  <2>2. /\ cfg.renderable \subseteq Markdown \cup Highlighted
        /\ cfg.renderable # {} =>
             ~cfg.routed /\ \E i \in DOMAIN cfg.stack : cfg.stack[i] = "render"
    BY ConfigAssumption DEF IsRenderable
  <2> QED
    BY <2>1, <2>2
<1>2. RequestedFormat(conn.query) = "html"
  BY <1>1, RowAsksForHtml
<1>3. Renders
  <2>1. conn.body # NoBody
    <3>1. conn.body.kind = "raw" /\ NoBody.kind = "none"
      BY DEF Raw, NoBody
    <3> QED
      BY <3>1
  <2>2. RequestedFormat(conn.query) # "none"
    BY <1>2
  <2> QED
    BY <1>1, <2>1, <2>2 DEF Renders
<1>4. answer = Rendered(before, "html", PassedOn(conn.text), content)
  <2>1. answer # Unreadable(before)
    <3>1. Unreadable(before).status = 500
      BY DEF Unreadable
    <3> QED
      BY <3>1
  <2>2. conn.body.content = content
    BY DEF Raw
  <2> QED
    BY <1>2, <1>3, <2>1, <2>2 DEF RenderSends
<1>5. LastName(PassedOn(conn.text)) = {Last(conn.text).name}
  <2>1. PassedOn(conn.text) = conn.text
    BY <1>1 DEF PassedOn
  <2>2. Last(conn.text) # Sep
    <3>1. Sep.name = "/"
      BY DEF Sep
    <3>2. "/" \notin Markdown \cup Highlighted
      BY ContentAssumption
    <3>3. PICK name : name = Last(conn.text).name
      OBVIOUS
    <3>4. name \in Markdown \cup Highlighted
      BY <1>1, <3>3
    <3>5. name # "/"
      BY <3>2, <3>4
    <3> QED
      BY <3>1, <3>3, <3>5
  <2>3. TrimEnd(conn.text) = conn.text /\ conn.text # <<>>
    BY <2>2, TrimmedEnd DEF IsPath
  <2>4. Last(conn.text).coded = 0 \/ Last(conn.text).name \in Special
    <3>1. PICK name : name = Last(conn.text).name
      OBVIOUS
    <3>2. Last(conn.text) = Encode(name)
      BY <1>1, <3>1
    <3>3. Last(conn.text).coded = IF name \in Special THEN 1 ELSE 0
      BY <3>2 DEF Encode
    <3> QED
      BY <3>1, <3>3
  <2> QED
    BY <2>1, <2>3, <2>4 DEF LastName
<1>6. PICK html : RenderHtml(PassedOn(conn.text), content) = Page(PassedOn(conn.text), html)
  BY <1>1, <1>5 DEF RenderHtml
<1> QED
  BY <1>4, <1>6 DEF Rendered, Finalize, Page

\* A `?render` row whose file is text is answered with a page.
LEMMA SendLinked ==
  ASSUME cfg \in Configs, Linked, ConnHolds, Send
  PROVE  Linked' /\ RenderLinkRenders'
<1>1. PICK before : before = [status |-> IF conn.status = 0 THEN 404 ELSE conn.status,
                              body |-> conn.body, etag |-> conn.etag]
  OBVIOUS
<1>0. PICK sent \in BeforeSend(before) :
        /\ shown'.status = sent.status /\ shown'.body = sent.body
        /\ shown'.text = conn.text /\ shown'.query = conn.query /\ shown'.via = conn.via
        /\ shown'.source = conn.source /\ shown'.resolved = conn.resolved
  BY <1>1 DEF Send
<1>2. PICK answer \in RenderSends(before) :
        \/ sent.status = answer.status /\ sent.body = answer.body
        \/ sent.status = 304 /\ sent.body = NoBody
  BY <1>1, Sent
<1>3. conn.stage = "send" /\ conn' = Idle /\ cfg' = cfg
  BY DEF Send
<1>4. /\ IsPath(conn.text) /\ Asked(conn) /\ Fine(conn.body)
      /\ conn.body.kind \in {"raw", "part", "none", "listing"}
  BY <1>3 DEF Linked
<1>5. Fine(answer.body) /\ (answer.status = 200 => before.status = 200)
  <2>1. CASE answer = before
    BY <1>1, <1>4, <2>1
  <2>2. CASE answer = Unreadable(before)
    BY <2>2 DEF Unreadable, NoBody, Fine
  <2>3. CASE \E format, path, content : answer = Rendered(before, format, path, content)
    <3>1. PICK format, path, content : answer = Rendered(before, format, path, content)
      BY <2>3
    <3>2. PICK body :
            body = IF format = "json" THEN RenderJson(content) ELSE RenderHtml(path, content)
      OBVIOUS
    <3>3. answer.body = body /\ answer.status = before.status
      BY <1>1, <3>1, <3>2 DEF Rendered, Finalize
    <3>4. \/ body.kind \in {"json", "raw"}
          \/ \E html : body = Page(path, html)
      BY <3>2 DEF RenderJson, RenderHtml, Raw
    <3>5. ASSUME NEW html, body = Page(path, html) PROVE body.kind = "page" /\ IsText(body.raw)
      BY <3>5, OnePiece DEF Page, RawHref
    <3> QED
      BY <3>3, <3>4, <3>5 DEF Fine
  <2> QED
    BY <1>2, <2>1, <2>2, <2>3 DEF RenderSends
<1>6. Linked'
  <2>1. PICK body : body = shown'.body
    OBVIOUS
  <2>2. Fine(body)
    BY <1>0, <1>2, <1>5, <2>1 DEF Fine, NoBody
  <2>3. IsPath(shown'.text) /\ Fine(body)'
    BY <1>0, <1>3, <1>4, <2>2 DEF Fine
  <2> QED
    BY <1>3, <2>1, <2>3 DEF Linked, Fine, Idle
<1>7. RenderLinkRenders'
  <2> SUFFICES ASSUME conn.via = "row", conn.query # <<>>, answer.status = 200,
                      conn.resolved = NoPath, conn.source \in Utf8
               PROVE  answer.body.kind = "page"
    BY <1>0, <1>2 DEF RenderLinkRenders
  <2>1. conn.status = 200 /\ before.status = 200 /\ before.body = conn.body
    BY <1>1, <1>5
  <2>2. conn.source # NoContent
    BY ContentAssumption, PathAssumption
  <2>3. conn.body = Raw(conn.source)
    BY <1>3, <2>1, <2>2 DEF ConnHolds
  <2> QED
    BY <1>1, <1>2, <1>4, <2>1, <2>3, RowRenders
<1> QED
  BY <1>6, <1>7

LEMMA StepLinked ==
  TypeOK /\ ConnType /\ Holds /\ Linked /\ RenderLinkRenders /\ [Next]_vars
    => Linked' /\ RenderLinkRenders'
<1> SUFFICES ASSUME TypeOK, ConnType, Holds, Linked, RenderLinkRenders, [Next]_vars
             PROVE  Linked' /\ RenderLinkRenders'
  OBVIOUS
<1>0. cfg \in Configs
  BY DEF TypeOK
<1>1. ASSUME NEW link, NEW kind, Request(link, kind), IsPath(link.text), Asked(link)
      PROVE  Linked' /\ RenderLinkRenders'
  BY <1>1, RequestLinked DEF Request, RenderLinkRenders, Blank
<1>2. CASE \E typed \in Typed, kind \in Wants :
             Request(Link(typed.text, typed.query, "typed"), kind)
  <2>1. PICK typed \in Typed, kind \in Wants :
          Request(Link(typed.text, typed.query, "typed"), kind)
    BY <1>2
  <2>2. PICK link : link = Link(typed.text, typed.query, "typed")
    OBVIOUS
  <2>3. IsPath(link.text) /\ Asked(link)
    BY <2>2, TypedAssumption DEF Link, Asked, IsPath, IsText
  <2> QED
    BY <1>1, <2>1, <2>2, <2>3
<1>3. CASE \E link \in Links : Request(link, "whole")
  BY <1>1, <1>3, LinkIsFine
<1>4. CASE \/ \E path \in Path, node \in Nodes : Edit(path, node)
           \/ UNCHANGED vars
  <2>1. UNCHANGED <<cfg, conn, shown>>
    BY <1>4 DEF Edit, vars
  <2> QED
    <3>1. conn' = conn /\ shown' = shown /\ cfg' = cfg
      BY <2>1
    <3>2. Linked'
      BY <3>1 DEF Linked, Fine, Asked
    <3>3. RenderLinkRenders'
      BY <3>1 DEF RenderLinkRenders
    <3> QED
      BY <3>2, <3>3
<1>5. CASE Send
  BY <1>0, <1>5, SendLinked DEF Holds
<1>6. CASE \/ RunNoRoute \/ RunAssets \/ RunForward \/ RunProxy \/ RunRedirect
           \/ RunFiles \/ RunRender \/ RunListing
           \/ \E name \in Name : ReadEntry(name)
           \/ ReadFails \/ List \/ RunOut
  <2>1. /\ conn.stage # "idle" /\ UNCHANGED <<cfg, shown>>
        /\ UNCHANGED <<conn.text, conn.query, conn.via>>
        /\ \/ conn'.body = conn.body
           \/ conn'.body.kind \in {"raw", "part", "none"}
           \/ \E entries, sort :
                conn'.body = ListingPage(conn.text, MountPrefix(conn.text, PassedOn(conn.text)),
                                         entries, sort, cfg.renderable, <<Sep, Plain(Css)>>)
    BY <1>6, MoveKinds
  <2>2. IsPath(conn.text) /\ Asked(conn) /\ Fine(conn.body)
        /\ conn.body.kind \in {"raw", "part", "none", "listing"}
    BY <2>1 DEF Linked
  <2>3. Fine(conn'.body) /\ conn'.body.kind \in {"raw", "part", "none", "listing"}
    BY <1>0, <2>1, <2>2, ListingIsFine DEF Fine
  <2>4. Linked'
    <3>1. /\ conn'.text = conn.text /\ conn'.query = conn.query /\ conn'.via = conn.via
          /\ shown' = shown /\ cfg' = cfg
      BY <2>1
    <3>2. Asked(conn)'
      BY <2>2, <3>1 DEF Asked
    <3>3. Fine(conn.body)'
      BY <2>3, <3>1 DEF Fine
    <3>4. (shown.body.kind \in {"listing", "page"} => IsPath(shown.text) /\ Fine(shown.body))'
      BY <3>1 DEF Linked, Fine
    <3> QED
      BY <2>2, <2>3, <3>1, <3>2, <3>3, <3>4 DEF Linked
  <2>5. RenderLinkRenders'
    BY <2>1 DEF RenderLinkRenders
  <2> QED
    BY <2>4, <2>5
<1> QED
  BY <1>2, <1>3, <1>4, <1>5, <1>6 DEF Next

LEMMA InitLinked == Init => Linked /\ RenderLinkRenders
BY DEF Init, Linked, RenderLinkRenders, Idle, Blank, NoBody

\* The listing, the browser and before_send agree on which files are rendered, and how
\* a link says so: for every directory, whatever links were followed before, a row that
\* links to `?render` leads to a page as long as the file is text (is_renderable,
\* requested_format and render_html in src/serve/render.rs, render in
\* src/directory_listing.rs).
THEOREM RenderLinksRender == Spec => []RenderLinkRenders
<1>1. Init => TypeOK
  BY InitTypes
<1>2. TypeOK /\ IInv /\ [Next]_vars => TypeOK'
  BY StepTypes DEF IInv
<1>3. IInv /\ Holds /\ [Next]_vars => Holds'
  BY StepHolds DEF IInv
<1>4. TypeOK /\ IInv /\ Holds /\ Linked /\ RenderLinkRenders /\ [Next]_vars
        => Linked' /\ RenderLinkRenders'
  BY StepLinked DEF IInv
<1> QED
  BY <1>1, <1>2, <1>3, <1>4, InitFits, StepFits, InitHolds, InitLinked, PTL DEF Spec
-----------------------------------------------------------------------------
(* Segments                                                                *)

\* Paths with the same pieces are the same.
LEMMA SameText ==
  ASSUME NEW some, IsText(some), NEW other, IsText(other), Len(some) = Len(other),
         \A i \in 1 .. Len(some) : some[i] = other[i]
  PROVE  some = other
<1>1. PICK A, B : some \in Seq(A) /\ other \in Seq(B)
  BY DEF IsText
<1>2. some \in Seq(A \cup B) /\ other \in Seq(A \cup B)
  BY <1>1
<1> QED
  BY <1>2, SeqEqual

\* The pieces of a path with one more.
LEMMA AppendedText ==
  ASSUME NEW text, IsText(text), NEW piece
  PROVE  /\ IsText(Append(text, piece)) /\ Append(text, piece) # <<>>
         /\ Len(text) \in Nat /\ Len(Append(text, piece)) = Len(text) + 1
         /\ \A i \in 1 .. Len(text) : Append(text, piece)[i] = text[i]
         /\ Append(text, piece)[Len(text) + 1] = piece
<1>1. PICK A : text \in Seq(A)
  BY DEF IsText
<1>2. text \in Seq(A \cup {piece}) /\ piece \in A \cup {piece} /\ Len(text) \in Nat
  BY <1>1, LenProperties
<1>3. Append(text, piece) \in Seq(A \cup {piece})
  BY <1>2, AppendProperties
<1>4. IsText(Append(text, piece))
  BY <1>3 DEF IsText
<1> QED
  BY <1>2, <1>4, AppendProperties

\* The pieces of a beginning.
LEMMA PrefixText ==
  ASSUME NEW text, IsText(text), NEW n \in 0 .. Len(text)
  PROVE  /\ IsText(SubSeq(text, 1, n)) /\ Len(SubSeq(text, 1, n)) = n
         /\ \A i \in 1 .. n : SubSeq(text, 1, n)[i] = text[i]
         /\ n = Len(text) => SubSeq(text, 1, n) = text
<1>1. PICK A : text \in Seq(A)
  BY DEF IsText
<1>2. Len(text) \in Nat /\ \A i \in 1 .. Len(text) : text[i] \in A
  BY <1>1, LenProperties, ElementOfSeq
<1>3. PICK part : part = SubSeq(text, 1, n)
  OBVIOUS
<1>4. /\ part \in Seq(A) /\ Len(part) = n
      /\ \A i \in 1 .. n : part[i] = text[i]
  <2>1. \A i \in 1 .. n : text[i] \in A
    BY <1>2
  <2> QED
    BY <1>2, <1>3, <2>1, SubSeqProperties
<1>5. n = Len(text) => part = text
  BY <1>1, <1>4, SeqEqual
<1> QED
  BY <1>3, <1>4, <1>5 DEF IsText

\* The pieces of an end.
LEMMA SuffixText ==
  ASSUME NEW text, IsText(text), NEW m \in 0 .. Len(text)
  PROVE  /\ IsText(SubSeq(text, m + 1, Len(text)))
         /\ Len(SubSeq(text, m + 1, Len(text))) = Len(text) - m
         /\ \A i \in 1 .. Len(text) - m : SubSeq(text, m + 1, Len(text))[i] = text[m + i]
<1>1. PICK A : text \in Seq(A)
  BY DEF IsText
<1>2. Len(text) \in Nat /\ \A i \in 1 .. Len(text) : text[i] \in A
  BY <1>1, LenProperties, ElementOfSeq
<1>3. PICK part : part = SubSeq(text, m + 1, Len(text))
  OBVIOUS
<1>4. PICK n \in Int, k \in Int : n = Len(text) /\ k = m + 1
  BY <1>2
<1>5. /\ part \in Seq(A) /\ Len(part) = IF k <= n THEN n - k + 1 ELSE 0
      /\ \A i \in 1 .. n - k + 1 : part[i] = text[k + i - 1]
  <2>1. \A i \in k .. n : text[i] \in A
    BY <1>2, <1>4
  <2> QED
    BY <1>3, <1>4, <2>1, SubSeqProperties
<1>6. Len(part) = n - m
  BY <1>2, <1>4, <1>5
<1>7. ASSUME NEW i \in 1 .. n - m PROVE part[i] = text[m + i]
  <2>1. i \in 1 .. n - k + 1 /\ k + i - 1 = m + i
    BY <1>2, <1>4
  <2> QED
    BY <1>5, <2>1
<1> QED
  BY <1>3, <1>4, <1>5, <1>6, <1>7 DEF IsText

\* A text is what is before its last piece, and that.
LEMMA SplitText ==
  ASSUME NEW text, IsText(text), text # <<>>
  PROVE  /\ IsText(Front(text)) /\ Len(text) \in Nat \ {0} /\ Len(Front(text)) = Len(text) - 1
         /\ \A i \in 1 .. Len(text) - 1 : Front(text)[i] = text[i]
         /\ text = Append(Front(text), Last(text))
<1>1. Len(text) \in Nat \ {0}
  BY TextLength
<1>2. PICK before, last : before = Front(text) /\ last = Last(text)
  OBVIOUS
<1>3. PICK n \in 0 .. Len(text) : n = Len(text) - 1 /\ before = SubSeq(text, 1, n)
  BY <1>1, <1>2 DEF Front
<1>4. IsText(before) /\ Len(before) = n /\ \A i \in 1 .. n : before[i] = text[i]
  BY <1>3, PrefixText
<1>5. PICK again : again = Append(before, last)
  OBVIOUS
<1>6. /\ IsText(again) /\ Len(again) = n + 1 /\ again[n + 1] = last
      /\ \A i \in 1 .. n : again[i] = before[i]
  BY <1>4, <1>5, AppendedText
<1>7. again = text
  <2>1. \A i \in 1 .. n + 1 : again[i] = text[i]
    BY <1>1, <1>2, <1>3, <1>4, <1>6 DEF Last
  <2> QED
    BY <1>1, <1>3, <1>6, <2>1, SameText
<1> QED
  BY <1>1, <1>2, <1>3, <1>4, <1>5, <1>7

\* Segments, one piece at a time.
InSteps(kept, text) ==
  /\ kept[0] = <<>> /\ kept[Len(text)] = Segments(text)
  /\ \A k \in 0 .. Len(text) - 1 :
       kept[k + 1] = IF text[k + 1] # Sep THEN Append(kept[k], text[k + 1]) ELSE kept[k]
  /\ \A k \in 0 .. Len(text) : IsText(kept[k])

\* The fold of Segments goes through a path piece by piece.
LEMMA SegmentsBySteps == ASSUME NEW text, IsText(text) PROVE \E kept : InSteps(kept, text)
<1>e. PICK E : text \in Seq(E)
  BY DEF IsText
<1>n. PICK n \in Nat : n = Len(text)
  BY <1>e, LenProperties
<1> DEFINE Step(kept, piece) == IF piece # Sep THEN Append(kept, piece) ELSE kept
           step == [a \in Seq(E) \X (1 .. n) |-> Step(a[1], text[a[2]])]
           IsIter(g) == g = [s \in SUBSET (1 .. n) |->
                               IF s = {} THEN <<>> ELSE Step(g[s \ {Max(s)}], text[Max(s)])]
           iter == CHOOSE g : IsIter(g)
<1>1. DOMAIN text = 1 .. n
  BY <1>e, <1>n, LenProperties
<1>2. Segments(text) = iter[1 .. n]
  BY <1>1 DEF Segments, FoldLeft, MapThenFoldSet
<1>3. \E g : IsIter(g) /\ g \in [SUBSET (1 .. n) -> Seq(E)]
  <2>1. <<>> \in Seq(E) /\ step \in [Seq(E) \X (1 .. n) -> Seq(E)]
    <3>1. ASSUME NEW kept \in Seq(E), NEW i \in 1 .. n PROVE Step(kept, text[i]) \in Seq(E)
      BY <1>e, <1>n, ElementOfSeq, AppendProperties
    <3> QED
      BY <3>1, EmptySeq
  <2>2. PICK g : IsFold(g, Seq(E), <<>>, step, n)
    <3> HIDE DEF step
    <3> QED
      BY <2>1, FoldExists
  <2>3. ASSUME NEW s \in SUBSET (1 .. n), s # {}
        PROVE  g[s] = Step(g[s \ {Max(s)}], text[Max(s)])
    <3>1. Max(s) \in 1 .. n
      BY <2>3, MaxIsIn
    <3>2. g[s \ {Max(s)}] \in Seq(E) /\ g[s] = step[<<g[s \ {Max(s)}], Max(s)>>]
      <4>1. s \ {Max(s)} \in SUBSET (1 .. n)
        OBVIOUS
      <4> QED
        BY <2>2, <2>3, <4>1 DEF IsFold
    <3> QED
      BY <3>1, <3>2
  <2>4. g \in [SUBSET (1 .. n) -> Seq(E)] /\ g[{}] = <<>>
    <3>1. {} \in SUBSET (1 .. n)
      OBVIOUS
    <3> QED
      BY <2>2, <3>1 DEF IsFold
  <2>5. \A s \in SUBSET (1 .. n) :
          g[s] = IF s = {} THEN <<>> ELSE Step(g[s \ {Max(s)}], text[Max(s)])
    BY <2>3, <2>4
  <2>6. IsIter(g)
    <3> HIDE DEF Step
    <3> QED
      BY <2>4, <2>5
  <2> QED
    BY <2>4, <2>6
<1>4. IsIter(iter)
  <2> HIDE DEF IsIter
  <2> QED
    BY <1>3
<1> HIDE DEF iter, Step
<1> DEFINE kept == [k \in 0 .. n |-> iter[1 .. k]]
<1>5. kept[0] = <<>> /\ kept[n] = iter[1 .. n]
  BY <1>4, EmptyUpto
<1>6. ASSUME NEW k \in 0 .. n - 1 PROVE kept[k + 1] = Step(kept[k], text[k + 1])
  <2>1. /\ 1 .. k + 1 \in SUBSET (1 .. n) /\ 1 .. k + 1 # {} /\ Max(1 .. k + 1) = k + 1
        /\ (1 .. k + 1) \ {k + 1} = 1 .. k
    BY TopOfUpto
  <2>2. iter[1 .. k + 1] = Step(iter[1 .. k], text[k + 1])
    BY <1>4, <2>1
  <2> QED
    BY <2>2
<1>7. \A k \in 0 .. n : kept[k] \in Seq(E)
  <2> HIDE DEF kept
  <2> DEFINE T == {k \in Nat : k <= n => kept[k] \in Seq(E)}
  <2>1. 0 \in T
    BY <1>5, EmptySeq
  <2>2. ASSUME NEW k \in Nat, k \in T PROVE k + 1 \in T
    <3> SUFFICES ASSUME k + 1 <= n PROVE kept[k + 1] \in Seq(E)
      OBVIOUS
    <3>1. k \in 0 .. n - 1 /\ k + 1 \in 1 .. n /\ kept[k] \in Seq(E)
      BY <2>2
    <3>2. text[k + 1] \in E
      BY <1>e, <1>n, <3>1, ElementOfSeq
    <3> QED
      BY <1>6, <3>1, <3>2, AppendProperties DEF Step
  <2>3. \A k \in Nat : k \in T
    <3> HIDE DEF T
    <3> QED
      BY <2>1, <2>2, Induction
  <2> QED
    BY <2>3
<1> QED
  <2> HIDE DEF kept
  <2>1. InSteps(kept, text)
    BY <1>n, <1>2, <1>5, <1>6, <1>7 DEF Step, InSteps, IsText
  <2> QED
    BY <2>1

LEMMA SegmentsEmpty == Segments(<<>>) = <<>>
<1>1. <<>> \in Seq({}) /\ Len(<<>>) = 0
  BY EmptySeq
<1>2. PICK kept : InSteps(kept, <<>>)
  BY OnePiece, SegmentsBySteps
<1> QED
  BY <1>1, <1>2 DEF InSteps

\* A piece more is a segment more, if it is no separator.
LEMMA SegmentsAppend ==
  ASSUME NEW text, IsText(text), NEW piece
  PROVE  /\ Segments(Append(text, piece)) = IF piece # Sep THEN Append(Segments(text), piece)
                                            ELSE Segments(text)
         /\ IsText(Segments(text))
<1>1. PICK A : text \in Seq(A)
  BY DEF IsText
<1>2. PICK E : E = A \cup {piece}
  OBVIOUS
<1>3. PICK more : more = Append(text, piece)
  OBVIOUS
<1>4. text \in Seq(E) /\ more \in Seq(E)
  BY <1>1, <1>2, <1>3, AppendProperties
<1>5. PICK n \in Nat : n = Len(text) /\ Len(more) = n + 1
  BY <1>3, AppendedText
<1>6. PICK m \in Nat : m = n + 1
  OBVIOUS
<1>7. (\A i \in 1 .. n : more[i] = text[i]) /\ more[m] = piece
  BY <1>3, <1>5, <1>6, AppendedText
<1>a. PICK g : InSteps(g, text)
  BY SegmentsBySteps
<1>b. PICK h : InSteps(h, more)
  BY <1>4, SegmentsBySteps DEF IsText
<1>8. /\ g[0] = <<>> /\ g[n] = Segments(text)
      /\ \A k \in 0 .. n - 1 :
           g[k + 1] = IF text[k + 1] # Sep THEN Append(g[k], text[k + 1]) ELSE g[k]
      /\ IsText(g[n])
  BY <1>5, <1>a DEF InSteps
<1>9. /\ h[0] = <<>> /\ h[m] = Segments(more)
      /\ \A k \in 0 .. m - 1 :
           h[k + 1] = IF more[k + 1] # Sep THEN Append(h[k], more[k + 1]) ELSE h[k]
  BY <1>5, <1>6, <1>b DEF InSteps
<1> DEFINE T == {k \in Nat : k <= n => g[k] = h[k]}
<1>10. 0 \in T
  BY <1>8, <1>9
<1>11. ASSUME NEW k \in Nat, k \in T PROVE k + 1 \in T
  <2> SUFFICES ASSUME k + 1 <= n PROVE g[k + 1] = h[k + 1]
    OBVIOUS
  <2>1. k \in 0 .. n - 1 /\ k \in 0 .. m - 1 /\ k + 1 \in 1 .. n /\ g[k] = h[k]
    BY <1>6, <1>11
  <2> QED
    BY <1>7, <1>8, <1>9, <2>1
<1>12. n \in T
  <2> HIDE DEF T
  <2> QED
    BY <1>10, <1>11, Induction
<1>13. h[m] = IF piece # Sep THEN Append(h[n], piece) ELSE h[n]
  <2>1. n \in 0 .. m - 1 /\ n + 1 = m
    BY <1>6
  <2> QED
    BY <1>7, <1>9, <2>1
<1>14. g[n] = h[n]
  BY <1>12
<1> QED
  BY <1>3, <1>8, <1>9, <1>13, <1>14

\* A separator in front makes no difference.
LEMMA SegmentsTail ==
  ASSUME NEW text, IsPath(text)
  PROVE  Segments(SubSeq(text, 1 + 1, Len(text))) = Segments(text)
<1>2. PICK n \in Nat : n = Len(text) /\ n # 0
  BY TextLength DEF IsPath
<1>3. PICK rest : rest = SubSeq(text, 1 + 1, Len(text))
  OBVIOUS
<1>4. PICK m \in Nat : m = n - 1
  BY <1>2
<1>5. IsText(rest) /\ Len(rest) = m /\ \A i \in 1 .. m : rest[i] = text[1 + i]
  <2>1. 1 \in 0 .. Len(text) /\ Len(text) - 1 = m
    BY <1>2, <1>4
  <2> QED
    BY <1>3, <2>1, SuffixText DEF IsPath
<1>6. PICK g : InSteps(g, rest)
  BY <1>5, SegmentsBySteps
<1>7. PICK h : InSteps(h, text)
  BY SegmentsBySteps DEF IsPath
<1>8. /\ g[0] = <<>> /\ g[m] = Segments(rest)
      /\ \A k \in 0 .. m - 1 :
           g[k + 1] = IF rest[k + 1] # Sep THEN Append(g[k], rest[k + 1]) ELSE g[k]
  BY <1>5, <1>6 DEF InSteps
<1>9. /\ h[0] = <<>> /\ h[n] = Segments(text)
      /\ \A k \in 0 .. n - 1 :
           h[k + 1] = IF text[k + 1] # Sep THEN Append(h[k], text[k + 1]) ELSE h[k]
  BY <1>2, <1>7 DEF InSteps
<1> DEFINE T == {k \in Nat : k <= m => g[k] = h[k + 1]}
<1>10. 0 \in T
  <2>1. 0 \in 0 .. n - 1 /\ text[0 + 1] = Sep /\ 0 + 1 = 1
    BY <1>2 DEF IsPath
  <2>2. h[0 + 1] = h[0]
    BY <1>9, <2>1
  <2> QED
    BY <1>8, <1>9, <2>2
<1>11. ASSUME NEW k \in Nat, k \in T PROVE k + 1 \in T
  <2> SUFFICES ASSUME k + 1 <= m PROVE g[k + 1] = h[(k + 1) + 1]
    OBVIOUS
  <2>1. k \in 0 .. m - 1 /\ k + 1 \in 0 .. n - 1 /\ k + 1 \in 1 .. m /\ g[k] = h[k + 1]
    BY <1>4, <1>11
  <2>2. rest[k + 1] = text[(k + 1) + 1]
    <3>1. rest[k + 1] = text[1 + (k + 1)] /\ 1 + (k + 1) = (k + 1) + 1
      BY <1>5, <2>1
    <3> QED
      BY <3>1
  <2> QED
    BY <1>8, <1>9, <2>1, <2>2
<1>12. m \in T
  <2> HIDE DEF T
  <2> QED
    BY <1>10, <1>11, Induction
<1> QED
  BY <1>3, <1>4, <1>8, <1>9, <1>12

\* An index is the least if none of those found comes before it.
LEMMA LeastIs ==
  ASSUME NEW n \in Nat, NEW s \in SUBSET (1 .. n), NEW m \in 1 .. n + 1,
         m \in s \/ (m = n + 1 /\ s = {}), \A y \in s : m <= y
  PROVE  Min(s \cup {n + 1}) = m
<1>1. m \in s \cup {n + 1} /\ \A y \in s \cup {n + 1} : m <= y
  OBVIOUS
<1>2. PICK least : least = Min(s \cup {n + 1})
  OBVIOUS
<1>3. least \in s \cup {n + 1} /\ \A y \in s \cup {n + 1} : least <= y
  BY <1>1, <1>2 DEF Min
<1>4. least = m
  BY <1>1, <1>3
<1> QED
  BY <1>2, <1>4

\* A piece more leaves single and separated what does not repeat its kind.
LEMMA SingleAppend ==
  ASSUME NEW text, IsText(text), NEW piece
  PROVE  /\ Single(Append(text, piece)) <=>
              Single(text) /\ (text = <<>> \/ Last(text) # Sep \/ piece # Sep)
         /\ Separated(Append(text, piece)) <=>
              Separated(text) /\ (text = <<>> \/ Last(text) = Sep \/ piece = Sep)
<1>1. PICK n \in Nat : n = Len(text)
  BY TextLength
<1>2. PICK more : more = Append(text, piece)
  OBVIOUS
<1>3. /\ DOMAIN text = 1 .. n /\ DOMAIN more = 1 .. n + 1 /\ more[n + 1] = piece
      /\ \A i \in 1 .. n : more[i] = text[i]
      /\ n = 0 <=> text = <<>>
      /\ Last(text) = text[n]
  BY <1>1, <1>2, AppendedText, TextLength DEF Last
<1>4. Single(more) <=> Single(text) /\ (n = 0 \/ text[n] # Sep \/ piece # Sep)
  <2>1. ASSUME Single(more) PROVE Single(text) /\ (n = 0 \/ text[n] # Sep \/ piece # Sep)
    <3>1. ASSUME NEW i \in 1 .. n, i + 1 \in 1 .. n PROVE text[i] # Sep \/ text[i + 1] # Sep
      <4>1. i \in 1 .. n + 1 /\ i + 1 \in 1 .. n + 1
        BY <3>1
      <4> QED
        BY <1>3, <2>1, <3>1, <4>1 DEF Single
    <3>2. n # 0 => n \in 1 .. n + 1 /\ n + 1 \in 1 .. n + 1 /\ n \in 1 .. n
      OBVIOUS
    <3>3. n # 0 => text[n] # Sep \/ piece # Sep
      BY <1>3, <2>1, <3>2 DEF Single
    <3> QED
      BY <1>3, <3>1, <3>3 DEF Single
  <2>2. ASSUME Single(text), n = 0 \/ text[n] # Sep \/ piece # Sep PROVE Single(more)
    <3>1. ASSUME NEW i \in 1 .. n + 1, i + 1 \in 1 .. n + 1 PROVE more[i] # Sep \/ more[i + 1] # Sep
      <4>1. CASE i = n
        BY <1>3, <2>2, <3>1, <4>1
      <4>2. CASE i # n
        <5>1. i \in 1 .. n /\ i + 1 \in 1 .. n
          BY <3>1, <4>2
        <5> QED
          BY <1>3, <2>2, <5>1 DEF Single
      <4> QED
        BY <4>1, <4>2
    <3> QED
      BY <1>3, <3>1 DEF Single
  <2> QED
    BY <2>1, <2>2
<1>5. Separated(more) <=> Separated(text) /\ (n = 0 \/ text[n] = Sep \/ piece = Sep)
  <2>1. ASSUME Separated(more) PROVE Separated(text) /\ (n = 0 \/ text[n] = Sep \/ piece = Sep)
    <3>1. ASSUME NEW i \in 1 .. n, i + 1 \in 1 .. n PROVE Sep \in {text[i], text[i + 1]}
      <4>1. i \in 1 .. n + 1 /\ i + 1 \in 1 .. n + 1
        BY <3>1
      <4> QED
        BY <1>3, <2>1, <3>1, <4>1 DEF Separated
    <3>2. n # 0 => n \in 1 .. n + 1 /\ n + 1 \in 1 .. n + 1 /\ n \in 1 .. n
      OBVIOUS
    <3>3. n # 0 => text[n] = Sep \/ piece = Sep
      BY <1>3, <2>1, <3>2 DEF Separated
    <3> QED
      BY <1>3, <3>1, <3>3 DEF Separated
  <2>2. ASSUME Separated(text), n = 0 \/ text[n] = Sep \/ piece = Sep PROVE Separated(more)
    <3>1. ASSUME NEW i \in 1 .. n + 1, i + 1 \in 1 .. n + 1 PROVE Sep \in {more[i], more[i + 1]}
      <4>1. CASE i = n
        BY <1>3, <2>2, <3>1, <4>1
      <4>2. CASE i # n
        <5>1. i \in 1 .. n /\ i + 1 \in 1 .. n
          BY <3>1, <4>2
        <5> QED
          BY <1>3, <2>2, <5>1 DEF Separated
      <4> QED
        BY <4>1, <4>2
    <3> QED
      BY <1>3, <3>1 DEF Separated
  <2> QED
    BY <2>1, <2>2
<1> QED
  BY <1>2, <1>3, <1>4, <1>5

\* Trimming takes a separator away at the end, and one at the start.
LEMMA TrimEndIs ==
  ASSUME NEW text, IsText(text), text = <<>> \/ Last(text) # Sep
  PROVE  TrimEnd(text) = text /\ TrimEnd(Append(text, Sep)) = text
<1>1. PICK n \in Nat : n = Len(text)
  BY TextLength
<1>2. PICK more : more = Append(text, Sep)
  OBVIOUS
<1>3. /\ IsText(more) /\ Len(more) = n + 1 /\ DOMAIN text = 1 .. n /\ DOMAIN more = 1 .. n + 1
      /\ more[n + 1] = Sep /\ \A i \in 1 .. n : more[i] = text[i]
      /\ n = 0 <=> text = <<>>
      /\ Last(text) = text[n]
  BY <1>1, <1>2, AppendedText, TextLength DEF Last
<1>4. PICK s : s = {i \in 1 .. n + 1 : more[i] # Sep}
  OBVIOUS
<1>5. s = {i \in 1 .. n : text[i] # Sep} /\ s \in SUBSET (1 .. n) /\ (n # 0 => n \in s)
  BY <1>3, <1>4
<1>6. Max(s \cup {0}) = n
  <2>1. Max(s \cup {0}) \in 0 .. n /\ (n \in s => Max(s \cup {0}) = n)
    <3>1. s \in SUBSET (1 .. n)
      BY <1>5
    <3> QED
      BY <3>1, TopIndex
  <2> QED
    BY <1>5, <2>1
<1>7. TrimEnd(text) = SubSeq(text, 1, n) /\ TrimEnd(more) = SubSeq(more, 1, n)
  BY <1>3, <1>4, <1>5, <1>6 DEF TrimEnd
<1>8. SubSeq(text, 1, n) = text
  BY <1>1, PrefixText
<1>9. PICK part : part = SubSeq(more, 1, n)
  OBVIOUS
<1>10. IsText(part) /\ Len(part) = n /\ \A i \in 1 .. n : part[i] = more[i]
  <2>1. n \in 0 .. Len(more)
    BY <1>3
  <2> QED
    BY <1>3, <1>9, <2>1, PrefixText
<1>11. part = text
  BY <1>1, <1>3, <1>10, SameText
<1> QED
  BY <1>2, <1>7, <1>8, <1>9, <1>11

\* trim_start_matches takes a single slash away.
LEMMA TrimStartIs ==
  ASSUME NEW text, IsText(text)
  PROVE  /\ text = <<>> \/ text[1] # Sep => TrimStart(text) = text
         /\ Len(text) = 1 /\ text[1] = Sep => TrimStart(text) = <<>>
         /\ Len(text) >= 2 /\ text[1] = Sep /\ text[2] # Sep
              => TrimStart(text) = SubSeq(text, 1 + 1, Len(text))
<1>1. PICK n \in Nat : n = Len(text)
  BY TextLength
<1>2. DOMAIN text = 1 .. n /\ (n = 0 <=> text = <<>>)
  BY <1>1, TextLength
<1>3. PICK s : s = {i \in 1 .. n : text[i] # Sep}
  OBVIOUS
<1>4. PICK least : least = Min(s \cup {n + 1})
  OBVIOUS
<1>5. TrimStart(text) = SubSeq(text, least, n)
  BY <1>1, <1>2, <1>3, <1>4 DEF TrimStart
<1>6. ASSUME text = <<>> \/ text[1] # Sep PROVE TrimStart(text) = text
  <2>1. least = 1
    <3>1. 1 \in 1 .. n + 1 /\ (1 \in s \/ (1 = n + 1 /\ s = {})) /\ s \in SUBSET (1 .. n)
      BY <1>2, <1>3, <1>6
    <3>2. \A y \in s : 1 <= y
      BY <1>3
    <3> QED
      BY <1>4, <3>1, <3>2, LeastIs
  <2>2. SubSeq(text, 1, n) = text
    BY <1>1, PrefixText
  <2> QED
    BY <1>5, <2>1, <2>2
<1>7. ASSUME n >= 2, text[1] = Sep, text[2] # Sep PROVE TrimStart(text) = SubSeq(text, 1 + 1, n)
  <2>1. least = 2
    <3>1. 2 \in 1 .. n + 1 /\ 2 \in s /\ s \in SUBSET (1 .. n)
      BY <1>3, <1>7
    <3>2. \A y \in s : 2 <= y
      BY <1>3, <1>7
    <3> QED
      BY <1>4, <3>1, <3>2, LeastIs
  <2> QED
    BY <1>5, <2>1
<1>8. ASSUME n = 1, text[1] = Sep PROVE TrimStart(text) = <<>>
  <2>1. least = 2
    <3>1. s = {} /\ 2 = n + 1
      BY <1>3, <1>8
    <3> QED
      BY <1>4, <3>1, LeastIs
  <2> QED
    BY <1>5, <1>8, <2>1, SubSeqEmpty
<1> QED
  BY <1>1, <1>6, <1>7, <1>8

\* What is between the slashes at a path's ends.
LEMMA Core ==
  ASSUME NEW text, EmptyOrPath(text), Single(text),
         NEW end, end = TrimEnd(text), NEW core, core = TrimStart(end)
  PROVE  /\ Segments(core) = Segments(text)
         /\ \/ (text = <<>> \/ text = <<Sep>>) /\ end = <<>> /\ core = <<>>
            \/ /\ IsPath(end) /\ Len(end) \in Nat /\ Len(end) >= 2 /\ Last(end) # Sep
               /\ core = SubSeq(end, 1 + 1, Len(end)) /\ IsText(core) /\ core # <<>>
               /\ core[1] # Sep /\ Last(core) # Sep
               /\ text = end \/ text = Append(end, Sep)
<1>1. IsText(text)
  BY EmptyOrPathTypes
<1>2. CASE text = <<>>
  <2>1. end = <<>>
    BY <1>1, <1>2, TrimEndIs
  <2>2. core = <<>>
    BY <1>1, <1>2, <2>1, TrimStartIs
  <2> QED
    BY <1>2, <2>1, <2>2
<1>3. CASE text = <<Sep>>
  <2>1. Append(<<>>, Sep) = <<Sep>>
    OBVIOUS
  <2>2. end = <<>>
    BY <1>3, <2>1, OnePiece, TrimEndIs
  <2>3. core = <<>>
    BY <2>2, OnePiece, TrimStartIs
  <2>4. Segments(<<Sep>>) = <<>>
    BY <2>1, OnePiece, SegmentsAppend, SegmentsEmpty
  <2> QED
    BY <1>3, <2>2, <2>3, <2>4, SegmentsEmpty
<1>4. CASE text # <<>> /\ text # <<Sep>>
  <2>1. IsPath(text) /\ text[1] = Sep
    BY <1>4 DEF EmptyOrPath, IsPath
  <2>2. /\ IsPath(end) /\ Last(end) # Sep /\ (text = end \/ text = Append(end, Sep))
        /\ Segments(end) = Segments(text) /\ Single(end)
    <3>1. CASE Last(text) # Sep
      <4>1. end = text
        BY <1>1, <3>1, TrimEndIs
      <4> QED
        BY <2>1, <3>1, <4>1
    <3>2. CASE Last(text) = Sep
      <4>1. PICK before : before = Front(text)
        OBVIOUS
      <4>2. /\ IsText(before) /\ text = Append(before, Sep) /\ Len(text) \in Nat
            /\ Len(before) = Len(text) - 1
            /\ \A i \in 1 .. Len(text) - 1 : before[i] = text[i]
        BY <1>1, <1>4, <3>2, <4>1, SplitText
      <4>3. before # <<>>
        <5>1. Append(<<>>, Sep) = <<Sep>>
          OBVIOUS
        <5> QED
          BY <1>4, <4>2, <5>1
      <4>4. Single(before) /\ Last(before) # Sep
        BY <4>2, <4>3, SingleAppend
      <4>5. end = before
        BY <4>2, <4>4, TrimEndIs
      <4>6. before[1] = Sep
        <5>1. 1 \in 1 .. Len(text) - 1
          BY <4>2, <4>3, TextLength
        <5> QED
          BY <2>1, <4>2, <5>1
      <4>7. Segments(before) = Segments(text)
        BY <4>2, SegmentsAppend
      <4> QED
        BY <4>2, <4>3, <4>4, <4>5, <4>6, <4>7 DEF IsPath
    <3> QED
      BY <3>1, <3>2
  <2>3. PICK n \in Nat : n = Len(end) /\ DOMAIN end = 1 .. n /\ n >= 2 /\ end[n] # Sep
    <3>1. Len(end) \in Nat /\ DOMAIN end = 1 .. Len(end) /\ Len(end) # 0
      BY <2>2, TextLength DEF IsPath
    <3>2. Len(end) # 1
      BY <2>2 DEF IsPath, Last
    <3>3. end[Len(end)] # Sep
      BY <2>2 DEF Last
    <3>4. Len(end) >= 2
      BY <3>1, <3>2
    <3> QED
      BY <3>1, <3>3, <3>4
  <2>4. end[1] = Sep /\ end[2] # Sep
    <3>1. 1 \in DOMAIN end /\ 1 + 1 \in DOMAIN end /\ 1 + 1 = 2
      BY <2>3
    <3> QED
      BY <2>2, <3>1 DEF IsPath, Single
  <2>5. core = SubSeq(end, 1 + 1, Len(end))
    BY <2>2, <2>3, <2>4, TrimStartIs DEF IsPath
  <2>6. IsText(core) /\ Len(core) = n - 1 /\ \A i \in 1 .. n - 1 : core[i] = end[1 + i]
    <3>1. 1 \in 0 .. Len(end)
      BY <2>3
    <3> QED
      BY <2>2, <2>3, <2>5, <3>1, SuffixText DEF IsPath
  <2>7. core[1] # Sep /\ core # <<>>
    <3>1. 1 \in 1 .. n - 1 /\ 1 + 1 = 2
      BY <2>3
    <3> QED
      BY <2>3, <2>4, <2>6, <3>1, TextLength
  <2>8. Last(core) # Sep
    <3>1. n - 1 \in 1 .. n - 1 /\ 1 + (n - 1) = n
      BY <2>3
    <3>2. core[n - 1] = end[n]
      BY <2>6, <3>1
    <3> QED
      BY <2>3, <2>6, <3>2 DEF Last
  <2>9. Segments(core) = Segments(end)
    BY <2>2, <2>5, SegmentsTail
  <2> QED
    BY <2>2, <2>3, <2>5, <2>6, <2>7, <2>8, <2>9
<1> QED
  BY <1>2, <1>3, <1>4

\* What comes after the mount.
Rest(text) == SubSeq(text, Len(cfg.mount) + 1, Len(text))

\* A mount is a path without a slash at its end, or empty.
LEMMA MountIs ==
  ASSUME cfg \in Configs
  PROVE  /\ IsText(cfg.mount) /\ Len(cfg.mount) \in Nat
         /\ cfg.mount = <<>> \/ Last(cfg.mount) # Sep
         /\ cfg.mount # <<>> => cfg.routed
         /\ Len(cfg.mount) = 0 <=> cfg.mount = <<>>
BY ConfigAssumption, TextLength DEF IsText

\* What comes after the mount is a path or empty.
LEMMA RestIs ==
  ASSUME cfg \in Configs, NEW text, IsText(text), Routed(text)
  PROVE  /\ Len(cfg.mount) \in 0 .. Len(text)
         /\ \A i \in 1 .. Len(cfg.mount) : text[i] = cfg.mount[i]
         /\ EmptyOrPath(Rest(text)) /\ Len(Rest(text)) = Len(text) - Len(cfg.mount)
         /\ \A i \in 1 .. Len(text) - Len(cfg.mount) : Rest(text)[i] = text[Len(cfg.mount) + i]
         /\ Single(text) => Single(Rest(text))
<1>1. PICK m \in Nat, n \in Nat : m = Len(cfg.mount) /\ n = Len(text) /\ DOMAIN text = 1 .. n
  BY MountIs, TextLength
<1>2. /\ m <= n /\ SubSeq(cfg.mount, 1, m) = SubSeq(text, 1, m)
      /\ n > m => text[m + 1] = Sep
  BY <1>1 DEF Routed, IsPrefix
<1>3. \A i \in 1 .. m : text[i] = cfg.mount[i]
  <2>1. m \in 0 .. Len(text) /\ m \in 0 .. Len(cfg.mount)
    BY <1>1, <1>2
  <2>2. /\ \A i \in 1 .. m : SubSeq(text, 1, m)[i] = text[i]
        /\ \A i \in 1 .. m : SubSeq(cfg.mount, 1, m)[i] = cfg.mount[i]
    BY <2>1, MountIs, PrefixText
  <2> QED
    BY <1>2, <2>2
<1>4. PICK rest : rest = Rest(text)
  OBVIOUS
<1>5. IsText(rest) /\ Len(rest) = n - m /\ \A i \in 1 .. n - m : rest[i] = text[m + i]
  <2>1. m \in 0 .. Len(text)
    BY <1>1, <1>2
  <2> QED
    BY <1>1, <1>4, <2>1, SuffixText DEF Rest
<1>6. EmptyOrPath(rest)
  <2>1. CASE n = m
    BY <1>5, <2>1, TextLength DEF EmptyOrPath
  <2>2. CASE n # m
    <3>1. n > m /\ 1 \in 1 .. n - m
      BY <1>2, <2>2
    <3>2. rest[1] = Sep
      BY <1>2, <1>5, <3>1
    <3> QED
      BY <1>5, <3>1, <3>2, TextLength DEF EmptyOrPath, IsPath
  <2> QED
    BY <2>1, <2>2
<1>7. ASSUME Single(text) PROVE Single(rest)
  <2>1. DOMAIN rest = 1 .. n - m
    BY <1>5, TextLength
  <2>2. ASSUME NEW i \in 1 .. n - m, i + 1 \in 1 .. n - m PROVE rest[i] # Sep \/ rest[i + 1] # Sep
    <3>1. m + i \in 1 .. n /\ (m + i) + 1 \in 1 .. n /\ (m + i) + 1 = m + (i + 1)
      BY <2>2
    <3>2. text[m + i] # Sep \/ text[(m + i) + 1] # Sep
      BY <1>1, <1>7, <3>1 DEF Single
    <3>3. rest[i] = text[m + i] /\ rest[i + 1] = text[(m + i) + 1]
      BY <1>5, <2>2, <3>1
    <3> QED
      BY <3>2, <3>3
  <2> QED
    BY <2>1, <2>2 DEF Single
<1> QED
  <2>1. m \in 0 .. n
    BY <1>2
  <2> QED
    BY <1>1, <1>3, <1>4, <1>5, <1>6, <1>7, <2>1

\* The segments below the mount.
LEMMA BelowTheMount ==
  ASSUME cfg \in Configs, NEW text, IsText(text), Routed(text), Single(text)
  PROVE  Segments(PassedOn(text)) = Segments(Rest(text))
<1>1. CASE cfg.routed
  <2>1. PICK rest : rest = Rest(text)
    OBVIOUS
  <2>2. EmptyOrPath(rest) /\ Single(rest)
    BY <2>1, RestIs
  <2>3. PassedOn(text) = TrimStart(TrimEnd(rest))
    BY <1>1, <2>1 DEF PassedOn, Rest
  <2> QED
    BY <2>1, <2>2, <2>3, Core
<1>2. CASE ~cfg.routed
  <2>1. Len(cfg.mount) = 0
    BY <1>2, MountIs
  <2>2. Rest(text) = SubSeq(text, 1, Len(text)) /\ Len(text) \in Nat
    BY <2>1, TextLength DEF Rest
  <2>3. Rest(text) = text
    BY <2>2, PrefixText
  <2> QED
    BY <1>2, <2>3 DEF PassedOn
<1> QED
  BY <1>1, <1>2

\* strip_suffix leaves what is before the suffix.
LEMMA SuffixIs ==
  ASSUME NEW text, IsText(text), NEW suffix, IsText(suffix), NEW k \in Nat,
         k + Len(suffix) = Len(text), \A i \in 1 .. Len(suffix) : suffix[i] = text[k + i]
  PROVE  StripSuffix(text, suffix) = SubSeq(text, 1, k)
<1>1. PICK p \in Nat, q \in Nat : p = Len(suffix) /\ q = Len(text) /\ k + p = q
  BY TextLength
<1>2. PICK A, B : suffix \in Seq(A) /\ text \in Seq(B)
  BY DEF IsText
<1>3. PICK s, t : s = Reverse(suffix) /\ t = Reverse(text)
  OBVIOUS
<1>4. /\ s \in Seq(A) /\ Len(s) = p /\ \A i \in 1 .. p : s[i] = suffix[(p - i) + 1]
      /\ t \in Seq(B) /\ Len(t) = q /\ \A i \in 1 .. q : t[i] = text[(q - i) + 1]
  <2>1. s = [i \in 1 .. p |-> suffix[(p - i) + 1]] /\ t = [i \in 1 .. q |-> text[(q - i) + 1]]
    BY <1>1, <1>3 DEF Reverse
  <2>2. (\A i \in 1 .. p : suffix[(p - i) + 1] \in A) /\ \A i \in 1 .. q : text[(q - i) + 1] \in B
    <3>1. \A i \in 1 .. p : (p - i) + 1 \in 1 .. p
      OBVIOUS
    <3>2. \A i \in 1 .. q : (q - i) + 1 \in 1 .. q
      OBVIOUS
    <3> QED
      BY <1>1, <1>2, <3>1, <3>2, ElementOfSeq
  <2> QED
    BY <2>1, <2>2
<1>5. IsText(s) /\ IsText(t)
  BY <1>4 DEF IsText
<1>6. SubSeq(s, 1, p) = SubSeq(t, 1, p)
  <2>1. SubSeq(s, 1, p) = s
    BY <1>4, <1>5, PrefixText
  <2>2. PICK part : part = SubSeq(t, 1, p)
    OBVIOUS
  <2>3. IsText(part) /\ Len(part) = p /\ \A i \in 1 .. p : part[i] = t[i]
    <3>1. p \in 0 .. Len(t)
      BY <1>1, <1>4
    <3> QED
      BY <1>5, <2>2, <3>1, PrefixText
  <2>4. ASSUME NEW i \in 1 .. p PROVE part[i] = s[i]
    <3>1. /\ i \in 1 .. q /\ (p - i) + 1 \in 1 .. p
          /\ (q - i) + 1 = k + ((p - i) + 1)
      BY <1>1
    <3>2. suffix[(p - i) + 1] = text[k + ((p - i) + 1)]
      BY <1>1, <3>1
    <3>3. text[(q - i) + 1] = suffix[(p - i) + 1]
      BY <3>1, <3>2
    <3> QED
      BY <1>4, <2>3, <3>1, <3>3
  <2>5. part = s
    BY <1>4, <1>5, <2>3, <2>4, SameText
  <2> QED
    BY <2>1, <2>2, <2>5
<1>7. IsSuffix(suffix, text)
  <2>1. Len(s) <= Len(t)
    BY <1>1, <1>4
  <2> QED
    BY <1>3, <1>4, <1>6, <2>1 DEF IsSuffix, IsPrefix
<1>8. q - p = k
  BY <1>1
<1> QED
  BY <1>1, <1>7, <1>8 DEF StripSuffix

\* The prefix that the listing infers from the two paths is the mount it is under.
LEMMA PrefixIsMount ==
  ASSUME cfg \in Configs, NEW text, IsPath(text), Routed(text), Single(text)
  PROVE  MountPrefix(text, PassedOn(text)) = cfg.mount
<1>1. PICK m \in Nat, n \in Nat : m = Len(cfg.mount) /\ n = Len(text)
  BY MountIs, TextLength DEF IsPath
<1>2. PICK rest, end, core : rest = Rest(text) /\ end = TrimEnd(rest) /\ core = TrimStart(end)
  OBVIOUS
<1>3. /\ m <= n /\ EmptyOrPath(rest) /\ Len(rest) = n - m /\ Single(rest)
      /\ \A i \in 1 .. m : text[i] = cfg.mount[i]
      /\ \A i \in 1 .. n - m : rest[i] = text[m + i]
  BY <1>1, <1>2, RestIs DEF IsPath
<1>c. \/ (rest = <<>> \/ rest = <<Sep>>) /\ end = <<>> /\ core = <<>>
      \/ /\ IsPath(end) /\ Len(end) \in Nat /\ Len(end) >= 2 /\ Last(end) # Sep
         /\ core = SubSeq(end, 1 + 1, Len(end)) /\ IsText(core) /\ core # <<>>
         /\ core[1] # Sep /\ Last(core) # Sep
         /\ rest = end \/ rest = Append(end, Sep)
  BY <1>2, <1>3, Core
<1>4. TrimStart(TrimEnd(PassedOn(text))) = core
  <2>1. CASE cfg.routed
    <3>1. PassedOn(text) = core
      BY <1>2, <2>1 DEF PassedOn, Rest
    <3>2. IsText(core) /\ (core = <<>> \/ (core[1] # Sep /\ Last(core) # Sep))
      BY <1>c, OnePiece
    <3>3. TrimEnd(core) = core
      BY <3>2, TrimEndIs
    <3> QED
      BY <3>1, <3>2, <3>3, TrimStartIs
  <2>2. CASE ~cfg.routed
    <3>1. m = 0
      BY <1>1, <2>2, MountIs
    <3>2. rest = SubSeq(text, 1, n)
      BY <1>1, <1>2, <3>1 DEF Rest
    <3>3. rest = text
      BY <1>1, <3>2, PrefixText DEF IsPath
    <3> QED
      BY <1>2, <2>2, <3>3 DEF PassedOn
  <2> QED
    BY <2>1, <2>2
<1>5. PICK whole : whole = TrimEnd(text)
  OBVIOUS
<1>6. MountPrefix(text, PassedOn(text)) = TrimEnd(StripSuffix(whole, core))
  BY <1>4, <1>5 DEF MountPrefix
<1>7. IsText(text) /\ text # <<>> /\ text[1] = Sep
  BY DEF IsPath
<1>8. CASE rest = <<>> \/ rest = <<Sep>>
  <2>1. end = <<>> /\ core = <<>>
    <3>1. ~(Len(rest) > 1)
      <4>1. Len(<<>>) = 0 /\ Len(<<Sep>>) = 1
        OBVIOUS
      <4>2. CASE rest = <<>>
        BY <4>1, <4>2
      <4>3. CASE rest = <<Sep>>
        BY <4>1, <4>3
      <4> QED
        BY <1>8, <4>2, <4>3
    <3>2. ASSUME IsPath(end), Len(end) \in Nat, Len(end) >= 2, rest = end \/ rest = Append(end, Sep)
          PROVE  FALSE
      <4>1. Len(Append(end, Sep)) = Len(end) + 1
        BY <3>2, AppendedText DEF IsPath
      <4> QED
        BY <3>1, <3>2, <4>1
    <3> QED
      BY <1>c, <3>2
  <2>2. whole = cfg.mount
    <3>1. CASE rest = <<>>
      <4>1. n = m
        <5>1. n - m = 0
          BY <1>3, <3>1
        <5> QED
          BY <5>1
      <4>2. text = cfg.mount
        <5>1. Len(text) = Len(cfg.mount) /\ \A i \in 1 .. Len(text) : text[i] = cfg.mount[i]
          BY <1>1, <1>3, <4>1
        <5> QED
          BY <1>7, <5>1, MountIs, SameText
      <4> QED
        BY <1>5, <1>7, <4>2, MountIs, TrimEndIs
    <3>2. CASE rest = <<Sep>>
      <4>1. n - m = 1 /\ rest[1] = Sep
        BY <1>3, <3>2
      <4>2. n = m + 1 /\ text[m + 1] = Sep
        BY <1>3, <4>1
      <4>3. PICK more : more = Append(cfg.mount, Sep)
        OBVIOUS
      <4>4. /\ IsText(more) /\ Len(more) = m + 1 /\ more[m + 1] = Sep
            /\ \A i \in 1 .. m : more[i] = cfg.mount[i]
        BY <1>1, <4>3, MountIs, AppendedText
      <4>5. \A i \in 1 .. n : more[i] = text[i]
        BY <1>3, <4>2, <4>4
      <4>6. more = text
        BY <1>1, <1>7, <4>2, <4>4, <4>5, SameText
      <4> QED
        BY <1>5, <4>3, <4>6, MountIs, TrimEndIs
    <3> QED
      BY <1>8, <3>1, <3>2
  <2>3. StripSuffix(whole, core) = cfg.mount
    <3>1. IsText(whole) /\ IsText(core) /\ Len(core) = 0 /\ Len(whole) = m
      BY <1>1, <2>1, <2>2, MountIs, OnePiece
    <3>2. m + Len(core) = Len(whole) /\ \A i \in 1 .. Len(core) : core[i] = whole[m + i]
      BY <3>1
    <3>3. StripSuffix(whole, core) = SubSeq(whole, 1, m)
      BY <3>1, <3>2, SuffixIs
    <3> QED
      BY <2>2, <3>1, <3>3, PrefixText
  <2> QED
    BY <1>6, <2>3, MountIs, TrimEndIs
<1>9. CASE ~(rest = <<>> \/ rest = <<Sep>>)
  <2>1. /\ IsPath(end) /\ Len(end) \in Nat /\ Len(end) >= 2 /\ Last(end) # Sep
        /\ core = SubSeq(end, 1 + 1, Len(end)) /\ IsText(core)
        /\ rest = end \/ rest = Append(end, Sep)
    BY <1>c, <1>9
  <2>2. PICK f \in Nat : f = Len(end) /\ f >= 2
    BY <2>1
  <2>3. /\ IsText(whole) /\ Len(whole) = m + f
        /\ \A i \in 1 .. m : whole[i] = cfg.mount[i]
        /\ \A i \in 1 .. f : whole[m + i] = end[i]
    <3>1. CASE rest = end
      <4>1. n - m = f /\ n = m + f
        BY <1>3, <2>2, <3>1
      <4>2. f \in 1 .. n - m /\ m + f = n
        BY <2>2, <4>1
      <4>3. Last(text) # Sep
        <5>1. rest[f] = text[n]
          BY <1>3, <4>2
        <5> QED
          BY <1>1, <2>1, <2>2, <3>1, <5>1 DEF Last
      <4>4. whole = text
        BY <1>5, <1>7, <4>3, TrimEndIs
      <4>5. \A i \in 1 .. f : text[m + i] = end[i]
        BY <1>3, <3>1, <4>1
      <4> QED
        BY <1>1, <1>3, <1>7, <4>1, <4>4, <4>5
    <3>2. CASE rest = Append(end, Sep)
      <4>1. Len(rest) = f + 1 /\ rest[f + 1] = Sep /\ \A i \in 1 .. f : rest[i] = end[i]
        BY <2>1, <2>2, <3>2, AppendedText DEF IsPath
      <4>2. n = (m + f) + 1 /\ n - m = f + 1 /\ n - 1 = m + f
        BY <1>3, <4>1
      <4>3. text[n] = Sep
        <5>1. f + 1 \in 1 .. n - m /\ m + (f + 1) = n
          BY <4>2
        <5> QED
          BY <1>3, <4>1, <5>1
      <4>4. PICK before : before = Front(text)
        OBVIOUS
      <4>5. /\ IsText(before) /\ Len(before) = m + f /\ text = Append(before, Sep)
            /\ \A i \in 1 .. m + f : before[i] = text[i]
        <5>1. Last(text) = Sep
          BY <1>1, <4>3 DEF Last
        <5> QED
          BY <1>1, <1>7, <4>2, <4>4, <5>1, SplitText
      <4>6. ASSUME NEW i \in 1 .. f PROVE before[m + i] = end[i]
        <5>1. i \in 1 .. n - m /\ m + i \in 1 .. m + f
          BY <4>2
        <5> QED
          BY <1>3, <4>1, <4>5, <5>1
      <4>7. before[m + f] # Sep
        <5>1. f \in 1 .. f
          BY <2>2
        <5>2. end[f] # Sep
          BY <2>1, <2>2 DEF Last
        <5> QED
          BY <4>6, <5>1, <5>2
      <4>8. whole = before
        BY <1>5, <4>5, <4>7, TrimEndIs DEF Last
      <4>9. \A i \in 1 .. m : before[i] = cfg.mount[i]
        <5>1. \A i \in 1 .. m : i \in 1 .. m + f
          OBVIOUS
        <5> QED
          BY <1>3, <4>5, <5>1
      <4> QED
        BY <4>5, <4>6, <4>8, <4>9
    <3> QED
      BY <2>1, <3>1, <3>2
  <2>4. PICK k \in Nat : k = m + 1
    OBVIOUS
  <2>5. Len(core) = f - 1 /\ \A i \in 1 .. f - 1 : core[i] = end[1 + i]
    <3>1. 1 \in 0 .. Len(end)
      BY <2>2
    <3> QED
      BY <2>1, <2>2, <3>1, SuffixText DEF IsPath
  <2>6. StripSuffix(whole, core) = SubSeq(whole, 1, k)
    <3>1. k + Len(core) = Len(whole)
      BY <2>2, <2>3, <2>4, <2>5
    <3>2. ASSUME NEW i \in 1 .. Len(core) PROVE core[i] = whole[k + i]
      <4>1. i \in 1 .. f - 1 /\ 1 + i \in 1 .. f /\ m + (1 + i) = k + i
        BY <2>2, <2>4, <2>5
      <4> QED
        BY <2>3, <2>5, <4>1
    <3> QED
      BY <2>1, <2>3, <3>1, <3>2, SuffixIs
  <2>7. PICK part, more : part = SubSeq(whole, 1, k) /\ more = Append(cfg.mount, Sep)
    OBVIOUS
  <2>8. IsText(part) /\ Len(part) = k /\ \A i \in 1 .. k : part[i] = whole[i]
    <3>1. k \in 0 .. Len(whole)
      BY <2>2, <2>3, <2>4
    <3> QED
      BY <2>3, <2>7, <3>1, PrefixText
  <2>9. /\ IsText(more) /\ Len(more) = k /\ more[k] = Sep
        /\ \A i \in 1 .. m : more[i] = cfg.mount[i]
    BY <1>1, <2>4, <2>7, MountIs, AppendedText
  <2>10. whole[k] = Sep
    <3>1. 1 \in 1 .. f /\ end[1] = Sep
      BY <2>1, <2>2 DEF IsPath
    <3> QED
      BY <2>3, <2>4, <3>1
  <2>11. part = more
    <3>1. ASSUME NEW i \in 1 .. k PROVE part[i] = more[i]
      <4>1. CASE i = k
        BY <2>8, <2>9, <2>10, <4>1
      <4>2. CASE i # k
        <5>1. i \in 1 .. m
          BY <2>4, <4>2
        <5> QED
          BY <2>3, <2>8, <2>9, <5>1
      <4> QED
        BY <4>1, <4>2
    <3> QED
      BY <2>8, <2>9, <3>1, SameText
  <2> QED
    BY <1>6, <2>6, <2>7, <2>11, MountIs, TrimEndIs
<1> QED
  BY <1>8, <1>9

\* What Names asks of a path, and what it makes of it.
Coded(text) == \A i \in DOMAIN Segments(text) : Decodes(Segments(text)[i])
Reached(text) == Routed(text) /\ Separated(text) /\ Coded(text)
NamesOf(segments) == [i \in DOMAIN segments |-> segments[i].name]

\* Names gives the decoded segments after the mount of what can be reached.
LEMMA NamesIs ==
  ASSUME cfg \in Configs, NEW text, IsText(text), Single(text)
  PROVE  Names(text) = IF Reached(text) THEN NamesOf(Segments(Rest(text))) ELSE NoPath
<1>1. CASE Reached(text)
  <2>1. Names(text) = NamesOf(Segments(PassedOn(text)))
    BY <1>1 DEF Names, Reached, Coded, NamesOf
  <2>2. Segments(PassedOn(text)) = Segments(Rest(text))
    BY <1>1, BelowTheMount DEF Reached
  <2> QED
    BY <1>1, <2>1, <2>2
<1>2. CASE ~Reached(text)
  BY <1>2 DEF Names, Reached, Coded
<1> QED
  BY <1>1, <1>2

\* A segment more is a name more.
LEMMA NamesOfAppend ==
  ASSUME NEW segments, IsText(segments), NEW piece
  PROVE  /\ NamesOf(Append(segments, piece)) = Append(NamesOf(segments), piece.name)
         /\ IsText(NamesOf(segments)) /\ Len(NamesOf(segments)) = Len(segments)
         /\ \A i \in 1 .. Len(segments) : NamesOf(segments)[i] = segments[i].name
<1>1. PICK n \in Nat : n = Len(segments) /\ DOMAIN segments = 1 .. n
  BY TextLength
<1>2. PICK more : more = Append(segments, piece)
  OBVIOUS
<1>3. /\ DOMAIN more = 1 .. n + 1 /\ more[n + 1] = piece
      /\ \A i \in 1 .. n : more[i] = segments[i]
  BY <1>1, <1>2, AppendedText, TextLength
<1>4. PICK names, longer : names = NamesOf(segments) /\ longer = NamesOf(more)
  OBVIOUS
<1>5. PICK A : A = {segments[i].name : i \in 1 .. n} \cup {piece.name}
  OBVIOUS
<1>6. /\ names \in Seq(A) /\ Len(names) = n
      /\ \A i \in 1 .. n : names[i] = segments[i].name
  <2>1. names = [i \in 1 .. n |-> segments[i].name]
    BY <1>1, <1>4 DEF NamesOf
  <2>2. \A i \in 1 .. n : segments[i].name \in A
    BY <1>5
  <2> QED
    BY <2>1, <2>2
<1>7. /\ longer \in Seq(A) /\ Len(longer) = n + 1 /\ longer[n + 1] = piece.name
      /\ \A i \in 1 .. n : longer[i] = segments[i].name
  <2>1. longer = [i \in 1 .. n + 1 |-> more[i].name]
    BY <1>3, <1>4 DEF NamesOf
  <2>2. \A i \in 1 .. n + 1 : more[i].name \in A
    <3>1. ASSUME NEW i \in 1 .. n + 1 PROVE more[i].name \in A
      <4>1. CASE i = n + 1
        BY <1>3, <1>5, <4>1
      <4>2. CASE i # n + 1
        <5>1. i \in 1 .. n
          BY <4>2
        <5> QED
          BY <1>3, <1>5, <5>1
      <4> QED
        BY <4>1, <4>2
    <3> QED
      BY <3>1
  <2>3. longer \in Seq(A) /\ Len(longer) = n + 1
    BY <2>1, <2>2
  <2>4. n + 1 \in 1 .. n + 1 /\ \A i \in 1 .. n : i \in 1 .. n + 1
    OBVIOUS
  <2> QED
    BY <1>3, <2>1, <2>3, <2>4
<1>8. PICK again : again = Append(names, piece.name)
  OBVIOUS
<1>9. IsText(names) /\ IsText(longer)
  BY <1>6, <1>7 DEF IsText
<1>10. /\ IsText(again) /\ Len(again) = n + 1 /\ again[n + 1] = piece.name
       /\ \A i \in 1 .. n : again[i] = names[i]
  BY <1>6, <1>8, <1>9, AppendedText
<1>11. ASSUME NEW i \in 1 .. n + 1 PROVE longer[i] = again[i]
  <2>1. CASE i = n + 1
    BY <1>7, <1>10, <2>1
  <2>2. CASE i # n + 1
    <3>1. i \in 1 .. n
      BY <2>2
    <3> QED
      BY <1>6, <1>7, <1>10, <3>1
  <2> QED
    BY <2>1, <2>2
<1>12. longer = again
  BY <1>7, <1>9, <1>10, <1>11, SameText
<1> QED
  BY <1>1, <1>2, <1>4, <1>6, <1>8, <1>9, <1>12

\* All of the segments can be decoded, so the new one too.
LEMMA CodedAppend ==
  ASSUME NEW text, IsText(text), NEW piece
  PROVE  Coded(Append(text, piece)) <=> Coded(text) /\ (piece = Sep \/ Decodes(piece))
<1>1. PICK s, t : s = Segments(text) /\ t = Segments(Append(text, piece))
  OBVIOUS
<1>2. IsText(s) /\ t = IF piece # Sep THEN Append(s, piece) ELSE s
  BY <1>1, SegmentsAppend
<1>3. CASE piece = Sep
  BY <1>1, <1>2, <1>3 DEF Coded
<1>4. CASE piece # Sep
  <2>1. PICK n \in Nat : n = Len(s) /\ DOMAIN s = 1 .. n
    BY <1>2, TextLength
  <2>2. /\ DOMAIN t = 1 .. n + 1 /\ t[n + 1] = piece /\ \A i \in 1 .. n : t[i] = s[i]
    BY <1>2, <1>4, <2>1, AppendedText, TextLength
  <2>3. ASSUME Coded(Append(text, piece)) PROVE Coded(text) /\ Decodes(piece)
    <3>1. \A i \in 1 .. n + 1 : Decodes(t[i])
      BY <1>1, <2>2, <2>3 DEF Coded
    <3>2. n + 1 \in 1 .. n + 1 /\ \A i \in 1 .. n : i \in 1 .. n + 1
      OBVIOUS
    <3>3. \A i \in 1 .. n : Decodes(s[i])
      BY <2>2, <3>1, <3>2
    <3> QED
      BY <1>1, <2>1, <2>2, <3>1, <3>2, <3>3 DEF Coded
  <2>4. ASSUME Coded(text), Decodes(piece) PROVE Coded(Append(text, piece))
    <3>1. \A i \in 1 .. n : Decodes(s[i])
      BY <1>1, <2>1, <2>4 DEF Coded
    <3>2. ASSUME NEW i \in 1 .. n + 1 PROVE Decodes(t[i])
      <4>1. CASE i = n + 1
        BY <2>2, <2>4, <4>1
      <4>2. CASE i # n + 1
        <5>1. i \in 1 .. n
          BY <4>2
        <5> QED
          BY <2>2, <3>1, <5>1
      <4> QED
        BY <4>1, <4>2
    <3> QED
      BY <1>1, <2>2, <3>2 DEF Coded
  <2> QED
    BY <1>4, <2>3, <2>4
<1> QED
  BY <1>3, <1>4

\* A piece more comes after the mount.
LEMMA RestAppend ==
  ASSUME cfg \in Configs, NEW text, IsText(text), Len(cfg.mount) <= Len(text), NEW piece
  PROVE  IsText(Rest(text)) /\ Rest(Append(text, piece)) = Append(Rest(text), piece)
<1>1. PICK m \in Nat, n \in Nat : m = Len(cfg.mount) /\ n = Len(text) /\ m <= n
  BY MountIs, TextLength
<1>2. PICK more, rest, longer : /\ more = Append(text, piece)
                                /\ rest = Rest(text) /\ longer = Rest(more)
  OBVIOUS
<1>3. /\ IsText(more) /\ Len(more) = n + 1 /\ more[n + 1] = piece
      /\ \A i \in 1 .. n : more[i] = text[i]
  BY <1>1, <1>2, AppendedText
<1>4. IsText(rest) /\ Len(rest) = n - m /\ \A i \in 1 .. n - m : rest[i] = text[m + i]
  <2>1. m \in 0 .. Len(text)
    BY <1>1
  <2> QED
    BY <1>1, <1>2, <2>1, SuffixText DEF Rest
<1>5. PICK k \in Nat : k = n - m
  <2>1. n - m \in Nat
    BY <1>1
  <2> QED
    BY <2>1
<1>6. IsText(longer) /\ Len(longer) = k + 1 /\ \A i \in 1 .. k + 1 : longer[i] = more[m + i]
  <2>1. m \in 0 .. Len(more) /\ Len(more) - m = k + 1
    BY <1>1, <1>3, <1>5
  <2>2. longer = SubSeq(more, m + 1, Len(more))
    BY <1>1, <1>2 DEF Rest
  <2> QED
    BY <1>3, <2>1, <2>2, SuffixText
<1>7. PICK again : again = Append(rest, piece)
  OBVIOUS
<1>8. /\ IsText(again) /\ Len(again) = k + 1 /\ again[k + 1] = piece
      /\ \A i \in 1 .. k : again[i] = rest[i]
  BY <1>4, <1>5, <1>7, AppendedText
<1>9. ASSUME NEW i \in 1 .. k + 1 PROVE longer[i] = again[i]
  <2>1. CASE i = k + 1
    <3>1. m + i = n + 1
      BY <1>5, <2>1
    <3> QED
      BY <1>3, <1>6, <1>8, <2>1, <3>1
  <2>2. CASE i # k + 1
    <3>1. i \in 1 .. k /\ m + i \in 1 .. n
      BY <1>5, <2>2
    <3> QED
      BY <1>3, <1>4, <1>5, <1>6, <1>8, <3>1
  <2> QED
    BY <2>1, <2>2
<1>10. longer = again
  BY <1>6, <1>8, <1>9, SameText
<1> QED
  BY <1>2, <1>4, <1>7, <1>10

\* A piece more does not leave the route, nor does a slash right after the mount.
LEMMA RoutedAppend ==
  ASSUME cfg \in Configs, NEW text, IsText(text), NEW piece
  PROVE  /\ Len(text) > Len(cfg.mount) => (Routed(Append(text, piece)) <=> Routed(text))
         /\ Routed(text) /\ piece = Sep => Routed(Append(text, piece))
<1>1. PICK m \in Nat, n \in Nat : m = Len(cfg.mount) /\ n = Len(text)
  BY MountIs, TextLength
<1>2. PICK more : more = Append(text, piece)
  OBVIOUS
<1>3. /\ IsText(more) /\ Len(more) = n + 1 /\ more[n + 1] = piece
      /\ \A i \in 1 .. n : more[i] = text[i]
  BY <1>1, <1>2, AppendedText
<1>4. ASSUME m <= n PROVE SubSeq(more, 1, m) = SubSeq(text, 1, m)
  <2>1. PICK some, other : some = SubSeq(more, 1, m) /\ other = SubSeq(text, 1, m)
    OBVIOUS
  <2>2. m \in 0 .. Len(more) /\ m \in 0 .. Len(text) /\ \A i \in 1 .. m : i \in 1 .. n
    BY <1>1, <1>3, <1>4
  <2>3. /\ IsText(some) /\ Len(some) = m /\ \A i \in 1 .. m : some[i] = more[i]
        /\ IsText(other) /\ Len(other) = m /\ \A i \in 1 .. m : other[i] = text[i]
    BY <1>3, <2>1, <2>2, PrefixText
  <2>4. some = other
    BY <1>3, <2>2, <2>3, SameText
  <2> QED
    BY <2>1, <2>4
<1>5. ASSUME n > m PROVE Routed(more) <=> Routed(text)
  <2>1. m + 1 \in 1 .. n /\ m <= n /\ m <= n + 1 /\ n + 1 > m
    BY <1>5
  <2>2. more[m + 1] = text[m + 1] /\ SubSeq(more, 1, m) = SubSeq(text, 1, m)
    BY <1>3, <1>4, <2>1
  <2> QED
    BY <1>1, <1>3, <1>5, <2>1, <2>2 DEF Routed, IsPrefix
<1>6. ASSUME Routed(text), piece = Sep PROVE Routed(more)
  <2>1. m <= n /\ SubSeq(cfg.mount, 1, m) = SubSeq(text, 1, m)
    BY <1>1, <1>6 DEF Routed, IsPrefix
  <2>2. CASE n > m
    BY <1>5, <1>6, <2>2
  <2>3. CASE n = m
    <3>1. SubSeq(more, 1, m) = SubSeq(text, 1, m) /\ more[m + 1] = Sep /\ m <= n + 1
      BY <1>3, <1>4, <1>6, <2>1, <2>3
    <3> QED
      BY <1>1, <1>3, <2>1, <3>1 DEF Routed, IsPrefix
  <2> QED
    BY <2>1, <2>2, <2>3
<1> QED
  BY <1>1, <1>2, <1>5, <1>6

\* A separator more at the end leads to the same place.
LEMMA SepReached ==
  ASSUME cfg \in Configs, NEW text, IsText(text), Len(cfg.mount) <= Len(text)
  PROVE  /\ Reached(text) => Reached(Append(text, Sep))
         /\ Reached(Append(text, Sep)) /\ Len(text) > Len(cfg.mount) => Reached(text)
         /\ Segments(Rest(Append(text, Sep))) = Segments(Rest(text))
<1>1. Separated(Append(text, Sep)) <=> Separated(text)
  BY SingleAppend
<1>2. Coded(Append(text, Sep)) <=> Coded(text)
  BY CodedAppend
<1>3. Segments(Rest(Append(text, Sep))) = Segments(Rest(text))
  BY RestAppend, SegmentsAppend
<1> QED
  BY <1>1, <1>2, <1>3, RoutedAppend DEF Reached

\* A piece more leads one name further down.
LEMMA PieceReached ==
  ASSUME cfg \in Configs, NEW text, IsText(text), Len(text) > Len(cfg.mount),
         text # <<>>, Last(text) = Sep, NEW piece, piece # Sep
  PROVE  /\ Reached(Append(text, piece)) <=> Reached(text) /\ Decodes(piece)
         /\ NamesOf(Segments(Rest(Append(text, piece)))) =
              Append(NamesOf(Segments(Rest(text))), piece.name)
         /\ IsText(NamesOf(Segments(Rest(text))))
<1>1. Separated(Append(text, piece)) <=> Separated(text)
  BY SingleAppend
<1>2. Coded(Append(text, piece)) <=> Coded(text) /\ Decodes(piece)
  BY CodedAppend
<1>3. Len(cfg.mount) <= Len(text)
  BY MountIs, TextLength
<1>4. /\ Segments(Rest(Append(text, piece))) = Append(Segments(Rest(text)), piece)
      /\ IsText(Segments(Rest(text)))
  <2>1. PICK rest : rest = Rest(text)
    OBVIOUS
  <2>2. IsText(rest) /\ Rest(Append(text, piece)) = Append(rest, piece)
    BY <1>3, <2>1, RestAppend
  <2>3. Segments(Append(rest, piece)) = Append(Segments(rest), piece) /\ IsText(Segments(rest))
    BY <2>2, SegmentsAppend
  <2> QED
    BY <2>1, <2>2, <2>3
<1> QED
  BY <1>1, <1>2, <1>4, RoutedAppend, NamesOfAppend DEF Reached

\* Pieces that are put after a text.
LEMMA AfterText ==
  ASSUME NEW text, IsText(text)
  PROVE  /\ text \o <<>> = text
         /\ \A one : text \o <<one>> = Append(text, one)
         /\ \A one, two : text \o <<one, two>> = Append(Append(text, one), two)
<1>1. ASSUME NEW one, NEW two
      PROVE  /\ text \o <<one>> = Append(text, one)
             /\ text \o <<one, two>> = Append(Append(text, one), two)
  <2>1. PICK A : text \in Seq(A)
    BY DEF IsText
  <2>2. PICK B : B = A \cup {one, two}
    OBVIOUS
  <2>3. text \in Seq(B) /\ one \in B /\ two \in B
    BY <2>1, <2>2
  <2>4. text \o <<one>> = Append(text, one) /\ Append(text, one) \in Seq(B)
    BY <2>3, AppendIsConcat, AppendProperties
  <2>5. Append(text, one) \o <<two>> = Append(Append(text, one), two)
    BY <2>3, <2>4, AppendIsConcat
  <2>6. <<one, two>> = <<one>> \o <<two>> /\ <<one>> \in Seq(B) /\ <<two>> \in Seq(B)
    <3>1. PICK first, second : first = <<one>> /\ second = <<two>>
      OBVIOUS
    <3>2. first \in Seq(B) /\ second \in Seq(B)
      BY <2>3, <3>1
    <3>3. Append(first, two) = <<one, two>>
      <4>1. PICK pair : pair = <<one, two>>
        OBVIOUS
      <4>2. Len(pair) = 2 /\ pair[1] = one /\ pair[2] = two /\ pair \in Seq({one, two})
        BY <4>1
      <4>3. Len(first) = 1 /\ first[1] = one /\ IsText(first)
        BY <3>1, OnePiece
      <4>4. PICK again : again = Append(first, two)
        OBVIOUS
      <4>5. IsText(again) /\ Len(again) = 2 /\ again[1] = one /\ again[2] = two
        <5>1. /\ IsText(again) /\ Len(again) = Len(first) + 1 /\ again[Len(first) + 1] = two
              /\ \A i \in 1 .. Len(first) : again[i] = first[i]
          BY <4>3, <4>4, AppendedText
        <5>2. 1 \in 1 .. 1 /\ 1 + 1 = 2
          OBVIOUS
        <5> QED
          BY <4>3, <5>1, <5>2
      <4>6. \A i \in 1 .. 2 : i = 1 \/ i = 2
        OBVIOUS
      <4>7. again = pair
        BY <4>2, <4>5, <4>6, SameText DEF IsText
      <4> QED
        BY <4>1, <4>4, <4>7
    <3>4. Append(first, two) = first \o second
      BY <2>3, <3>1, <3>2, AppendIsConcat
    <3> QED
      BY <3>1, <3>2, <3>3, <3>4
  <2>7. (text \o <<one>>) \o <<two>> = text \o (<<one>> \o <<two>>)
    BY <2>3, <2>6, ConcatAssociative
  <2> QED
    BY <2>4, <2>5, <2>6, <2>7
<1>2. text \o <<>> = text
  BY ConcatEmptySeq DEF IsText
<1> QED
  BY <1>1, <1>2

\* Nothing is below the top of what is mounted.
LEMMA TopIs ==
  ASSUME cfg \in Configs, NEW top, top = Append(cfg.mount, Sep)
  PROVE  /\ IsText(top) /\ Len(top) = Len(cfg.mount) + 1 /\ Last(top) = Sep /\ top # <<>>
         /\ Routed(top) /\ Segments(Rest(top)) = <<>> /\ Rest(top) = <<Sep>>
<1>1. PICK m \in Nat : m = Len(cfg.mount)
  BY MountIs
<1>2. IsText(cfg.mount) /\ m <= Len(cfg.mount)
  BY <1>1, MountIs
<1>3. IsText(top) /\ Len(top) = m + 1 /\ top[m + 1] = Sep /\ top # <<>>
  BY <1>1, <1>2, AppendedText
<1>4. Last(top) = Sep
  BY <1>3 DEF Last
<1>5. Routed(cfg.mount)
  BY <1>1 DEF Routed, IsPrefix
<1>6. Routed(top)
  BY <1>2, <1>5, RoutedAppend
<1>7. PICK none : none = Rest(cfg.mount)
  OBVIOUS
<1>8. IsText(none) /\ Len(none) = 0 /\ Rest(top) = Append(none, Sep)
  <2>1. Len(none) = Len(cfg.mount) - Len(cfg.mount)
    BY <1>2, <1>5, <1>7, RestIs
  <2>2. IsText(none) /\ Rest(top) = Append(none, Sep)
    BY <1>1, <1>2, <1>7, RestAppend
  <2> QED
    BY <1>1, <2>1, <2>2
<1>9. none = <<>>
  BY <1>8, TextLength
<1>10. Segments(Rest(top)) = <<>> /\ Rest(top) = <<Sep>>
  <2>1. Append(<<>>, Sep) = <<Sep>>
    OBVIOUS
  <2>2. Segments(Rest(top)) = Segments(none)
    BY <1>8, SegmentsAppend
  <2> QED
    BY <1>8, <1>9, <2>1, <2>2, SegmentsEmpty
<1> QED
  BY <1>1, <1>3, <1>4, <1>6, <1>10

\* Each piece of it is read as it is written.
Legible(text) == \A i \in 1 .. Len(text) : Clear(text[i])

LEMMA LegibleIs ==
  ASSUME NEW text, IsText(text)
  PROVE  Legible(text) <=> Read(text) = text
BY ReadIs DEF Legible

LEMMA LegibleAppend ==
  ASSUME NEW text, IsText(text), NEW piece
  PROVE  Legible(Append(text, piece)) <=> Legible(text) /\ Clear(piece)
<1>1. PICK n \in Nat : n = Len(text)
  BY TextLength
<1>2. PICK more : more = Append(text, piece)
  OBVIOUS
<1>3. Len(more) = n + 1 /\ more[n + 1] = piece /\ \A i \in 1 .. n : more[i] = text[i]
  BY <1>1, <1>2, AppendedText
<1>4. \A i : i \in 1 .. n + 1 <=> i \in 1 .. n \/ i = n + 1
  OBVIOUS
<1> QED
  BY <1>1, <1>2, <1>3, <1>4 DEF Legible

LEMMA SepIsClear == Clear(Sep)
BY ContentAssumption, NameAssumption DEF Clear, Sep

\* A segment alone, with and without the slash in front of it.
LEMMA OneSegment ==
  ASSUME NEW piece, piece # Sep, NEW two, two = Append(<<Sep>>, piece)
  PROVE  /\ TrimEnd(two) = two /\ TrimStart(two) = <<piece>> /\ TrimStart(<<piece>>) = <<piece>>
         /\ Segments(<<piece>>) = <<piece>> /\ NamesOf(<<piece>>) = <<piece.name>>
<1>1. PICK one, alone : one = <<Sep>> /\ alone = <<piece>>
  OBVIOUS
<1>2. /\ IsText(one) /\ Len(one) = 1 /\ one[1] = Sep
      /\ IsText(alone) /\ Len(alone) = 1 /\ alone[1] = piece
      /\ alone = Append(<<>>, piece) /\ IsText(<<>>)
  BY <1>1, OnePiece
<1>3. IsText(two) /\ Len(two) = 2 /\ two[1] = Sep /\ two[2] = piece
  <2>1. /\ IsText(two) /\ Len(two) = Len(one) + 1 /\ two[Len(one) + 1] = piece
        /\ \A i \in 1 .. Len(one) : two[i] = one[i]
    BY <1>1, <1>2, AppendedText
  <2>2. 1 \in 1 .. 1 /\ 1 + 1 = 2
    OBVIOUS
  <2> QED
    BY <1>2, <2>1, <2>2
<1>4. TrimEnd(two) = two
  BY <1>3, TrimEndIs DEF Last
<1>5. TrimStart(two) = alone
  <2>1. PICK rest : rest = TrimStart(two)
    OBVIOUS
  <2>2. rest = SubSeq(two, 1 + 1, Len(two))
    <3>1. Len(two) >= 2 /\ two[1] = Sep /\ two[2] # Sep
      BY <1>3
    <3> QED
      BY <1>3, <2>1, <3>1, TrimStartIs
  <2>3. IsText(rest) /\ Len(rest) = 1 /\ rest[1] = piece
    <3>1. 1 \in 0 .. Len(two) /\ Len(two) - 1 = 1 /\ 1 \in 1 .. 1 /\ 1 + 1 = 2
      BY <1>3
    <3>2. /\ IsText(rest) /\ Len(rest) = Len(two) - 1
          /\ \A i \in 1 .. Len(two) - 1 : rest[i] = two[1 + i]
      BY <1>3, <2>2, <3>1, SuffixText
    <3> QED
      BY <1>3, <3>1, <3>2
  <2>4. \A i \in 1 .. 1 : i = 1
    OBVIOUS
  <2> QED
    BY <1>2, <2>1, <2>3, <2>4, SameText
<1>6. TrimStart(alone) = alone
  BY <1>2, TrimStartIs
<1>7. Segments(alone) = alone
  <2>1. Segments(Append(<<>>, piece)) = Append(Segments(<<>>), piece)
    BY <1>2, SegmentsAppend
  <2> QED
    BY <1>2, <2>1, SegmentsEmpty
<1>8. NamesOf(alone) = <<piece.name>>
  <2>1. PICK none : none = NamesOf(<<>>)
    OBVIOUS
  <2>2. NamesOf(alone) = Append(none, piece.name) /\ IsText(none) /\ Len(none) = Len(<<>>)
    BY <1>2, <2>1, NamesOfAppend
  <2>3. none = <<>>
    BY <2>2, TextLength
  <2> QED
    BY <2>2, <2>3
<1> QED
  BY <1>1, <1>4, <1>5, <1>6, <1>7, <1>8

LEMMA StyleIsSegment == Plain(Css) # Sep /\ Plain(Css).name = Css /\ Clear(Plain(Css))
<1>1. Plain(Css).name = Css /\ Plain(Css).coded = 0 /\ Sep.name = "/"
  BY DEF Plain, Sep
<1>2. Css # "/" /\ Css \notin Mangled
  BY PathAssumption, ContentAssumption
<1> QED
  BY <1>1, <1>2 DEF Clear

\* The assets answer for one name only, right below the mount.
LEMMA AssetIs ==
  ASSUME cfg \in Configs, NEW text, IsText(text), Single(text), IsAsset(text)
  PROVE  NamesOf(Segments(Rest(text))) = <<Css>>
<1>1. PICK rest : rest = Rest(text)
  OBVIOUS
<1>2. EmptyOrPath(rest) /\ Single(rest)
  BY <1>1, RestIs DEF IsAsset
<1>3. PICK piece : piece = Plain(Css)
  OBVIOUS
<1>4. piece # Sep /\ piece.name = Css /\ TrimStart(PassedOn(text)) = <<piece>> /\ <<piece>> # <<>>
  BY <1>3, StyleIsSegment DEF IsAsset
<1>5. Segments(rest) = <<piece>>
  <2>1. CASE cfg.routed
    <3>1. PICK end, core : end = TrimEnd(rest) /\ core = TrimStart(end)
      OBVIOUS
    <3>2. PassedOn(text) = core
      BY <1>1, <2>1, <3>1 DEF PassedOn, Rest
    <3>3. /\ Segments(core) = Segments(rest)
          /\ core = <<>> \/ (IsText(core) /\ core[1] # Sep)
      BY <1>2, <3>1, Core
    <3>4. TrimStart(core) = core
      BY <3>3, OnePiece, TrimStartIs
    <3> QED
      BY <1>4, <3>2, <3>3, <3>4, OneSegment
  <2>2. CASE ~cfg.routed
    <3>1. Len(cfg.mount) = 0
      BY <2>2, MountIs
    <3>2. rest = SubSeq(text, 1, Len(text)) /\ Len(text) \in Nat
      BY <1>1, <3>1, TextLength DEF Rest
    <3>3. rest = text
      BY <3>2, PrefixText
    <3>4. TrimStart(rest) = <<piece>> /\ IsText(rest)
      BY <1>4, <2>2, <3>3 DEF PassedOn
    <3>5. rest # <<>>
      BY <1>4, <3>4, TrimStartIs
    <3>6. IsPath(rest) /\ rest[1] = Sep /\ Len(rest) \in Nat /\ Len(rest) # 0
      BY <1>2, <3>5, TextLength DEF EmptyOrPath, IsPath
    <3>7. Len(rest) >= 2
      <4>1. Len(rest) # 1
        BY <1>4, <3>4, <3>6, TrimStartIs
      <4>2. \A n \in Nat : n # 0 /\ n # 1 => n >= 2
        OBVIOUS
      <4> QED
        BY <3>6, <4>1, <4>2
    <3>8. rest[2] # Sep
      <4>1. 1 \in DOMAIN rest /\ 1 + 1 \in DOMAIN rest /\ 1 + 1 = 2
        BY <3>4, <3>7, TextLength
      <4> QED
        BY <1>2, <3>6, <4>1 DEF Single
    <3>9. TrimStart(rest) = SubSeq(rest, 1 + 1, Len(rest))
      BY <3>4, <3>6, <3>7, <3>8, TrimStartIs
    <3>10. Segments(<<piece>>) = Segments(rest)
      BY <3>4, <3>6, <3>9, SegmentsTail
    <3> QED
      BY <1>4, <3>10, OneSegment
  <2> QED
    BY <2>1, <2>2
<1> QED
  BY <1>1, <1>4, <1>5, OneSegment

\* What is legible and can be reached leads to its names.
LEMMA LeadsIs ==
  ASSUME cfg \in Configs, NEW text, IsText(text), Single(text), Legible(text), Reached(text),
         NEW names, names = NamesOf(Segments(Rest(text)))
  PROVE  LeadsTo(text, names)
<1>1. Read(text) = text
  BY LegibleIs
<1> QED
  BY <1>1, NamesIs, AssetIs DEF LeadsTo

\* The page's path as its links take it.
LEMMA BaseIs ==
  ASSUME cfg \in Configs, NEW text, IsPath(text), Single(text), Reached(text), Legible(text),
         NEW base, base = Base(text)
  PROVE  /\ IsText(base) /\ base # <<>> /\ Last(base) = Sep /\ Len(base) > Len(cfg.mount)
         /\ Single(base) /\ Reached(base) /\ Legible(base)
         /\ Segments(Rest(base)) = Segments(Rest(text))
<1>1. PICK m \in Nat, n \in Nat : m = Len(cfg.mount) /\ n = Len(text) /\ m <= n /\ n # 0
  <2>1. Len(cfg.mount) \in 0 .. Len(text)
    BY RestIs DEF IsPath, Reached
  <2> QED
    BY <2>1, MountIs, TextLength DEF IsPath
<1>2. CASE Last(text) = Sep
  <2>1. ASSUME n = m PROVE FALSE
    <3>1. /\ IsText(cfg.mount) /\ Last(cfg.mount) # Sep
      BY <1>1, <2>1, MountIs
    <3>2. text[n] = cfg.mount[n]
      <4>1. n \in 1 .. Len(cfg.mount)
        BY <1>1, <2>1
      <4> QED
        BY <4>1, RestIs DEF IsPath, Reached
    <3> QED
      BY <1>1, <1>2, <2>1, <3>1, <3>2 DEF Last
  <2>2. n > m
    BY <1>1, <2>1
  <2> QED
    BY <1>1, <1>2, <2>2 DEF Base, IsPath
<1>3. CASE Last(text) # Sep
  <2>1. base = Append(text, Sep)
    BY <1>3 DEF Base
  <2>2. IsText(text) /\ Len(cfg.mount) <= Len(text)
    BY <1>1 DEF IsPath
  <2>3. IsText(base) /\ base # <<>> /\ Len(base) = n + 1 /\ base[n + 1] = Sep
    BY <1>1, <2>1, <2>2, AppendedText
  <2>4. Single(base)
    BY <1>3, <2>1, <2>2, SingleAppend
  <2>5. Reached(base) /\ Segments(Rest(base)) = Segments(Rest(text))
    BY <2>1, <2>2, SepReached
  <2>6. Last(base) = Sep /\ Len(base) > Len(cfg.mount)
    BY <1>1, <2>3 DEF Last
  <2>7. Legible(base)
    BY <2>1, <2>2, LegibleAppend, SepIsClear
  <2> QED
    BY <2>3, <2>4, <2>5, <2>6, <2>7
<1> QED
  BY <1>2, <1>3

\* A row leads to its entry.
LEMMA RowLeads ==
  ASSUME cfg \in Configs, NEW base, IsText(base), base # <<>>, Last(base) = Sep,
         Len(base) > Len(cfg.mount), Single(base), Reached(base), Legible(base),
         NEW entry, entry.name \in Name, NEW renderable, NEW row, row = Row(base, entry, renderable)
  PROVE  LeadsTo(row.href, Append(NamesOf(Segments(Rest(base))), entry.name))
<1>1. PICK piece : piece = Encode(entry.name)
  OBVIOUS
<1>2. piece.name = entry.name /\ piece # Sep /\ Decodes(piece) /\ Clear(piece)
  <2>1. piece.name = entry.name /\ Decodes(piece) /\ Clear(piece)
    BY <1>1, EncodedIsClear DEF Encode, Decodes
  <2>2. Sep.name = "/"
    BY DEF Sep
  <2> QED
    BY <2>1, <2>2, NameAssumption
<1>3. PICK text : text = Append(base, piece)
  OBVIOUS
<1>4. row.href = IF entry.is_dir THEN Append(text, Sep) ELSE text
  <2>1. base \o <<piece>> = text /\ IsText(text)
    BY <1>3, AfterText, AppendedText
  <2>2. row.href = text \o (IF entry.is_dir THEN <<Sep>> ELSE <<>>)
    BY <1>1, <2>1 DEF Row
  <2> QED
    BY <2>1, <2>2, AfterText
<1>5. PICK m \in Nat, n \in Nat : m = Len(cfg.mount) /\ n = Len(base) /\ n > m
  BY MountIs, TextLength
<1>6. IsText(text) /\ Len(text) = n + 1 /\ text[n + 1] = piece /\ text # <<>>
  BY <1>3, <1>5, AppendedText
<1>7. Single(text) /\ Last(text) # Sep
  <2>1. Single(text)
    BY <1>2, <1>3, SingleAppend
  <2> QED
    BY <1>2, <1>6, <2>1 DEF Last
<1>8. /\ Reached(text)
      /\ NamesOf(Segments(Rest(text))) = Append(NamesOf(Segments(Rest(base))), entry.name)
  BY <1>2, <1>3, PieceReached
<1>l. Legible(text)
  BY <1>2, <1>3, LegibleAppend
<1>9. LeadsTo(text, Append(NamesOf(Segments(Rest(base))), entry.name))
  BY <1>6, <1>7, <1>8, <1>l, LeadsIs
<1>10. LeadsTo(Append(text, Sep), Append(NamesOf(Segments(Rest(base))), entry.name))
  <2>1. PICK more : more = Append(text, Sep)
    OBVIOUS
  <2>2. IsText(more) /\ Single(more) /\ Len(cfg.mount) <= Len(text)
    BY <1>5, <1>6, <1>7, <2>1, AppendedText, SingleAppend
  <2>3. Reached(more) /\ Segments(Rest(more)) = Segments(Rest(text))
    BY <1>6, <1>8, <2>1, <2>2, SepReached
  <2>4. Legible(more)
    BY <1>6, <1>l, <2>1, LegibleAppend, SepIsClear
  <2> QED
    BY <1>8, <2>1, <2>2, <2>3, <2>4, LeadsIs
<1> QED
  BY <1>4, <1>9, <1>10

\* Front takes away what Append has added.
LEMMA FrontOfAppend ==
  ASSUME NEW text, IsText(text), NEW piece
  PROVE  Append(text, piece) # <<>> /\ Front(Append(text, piece)) = text
<1>1. PICK n \in Nat : n = Len(text)
  BY TextLength
<1>2. PICK more : more = Append(text, piece)
  OBVIOUS
<1>3. /\ IsText(more) /\ Len(more) = n + 1 /\ more # <<>>
      /\ \A i \in 1 .. n : more[i] = text[i]
  BY <1>1, <1>2, AppendedText
<1>4. PICK front : front = Front(more)
  OBVIOUS
<1>5. IsText(front) /\ Len(front) = n /\ \A i \in 1 .. n : front[i] = more[i]
  <2>1. (n + 1) - 1 = n
    OBVIOUS
  <2> QED
    BY <1>3, <1>4, <2>1, SplitText
<1>6. front = text
  BY <1>1, <1>3, <1>5, SameText
<1> QED
  BY <1>2, <1>3, <1>4, <1>6

\* The parent link leads one name up; the top has none.
LEMMA ParentLeads ==
  ASSUME cfg \in Configs, NEW base, IsText(base), base # <<>>, Last(base) = Sep,
         Len(base) > Len(cfg.mount), Single(base), Reached(base), Legible(base),
         NEW names, names = NamesOf(Segments(Rest(base)))
  PROVE  /\ base = Append(cfg.mount, Sep) => names = <<>>
         /\ base # Append(cfg.mount, Sep) =>
              /\ names # <<>> /\ ParentPath(base) # NoLink
              /\ LeadsTo(ParentPath(base), Front(names))
<1>1. PICK m \in Nat, n \in Nat : m = Len(cfg.mount) /\ n = Len(base) /\ n > m
  BY MountIs, TextLength
<1>2. PICK top : top = Append(cfg.mount, Sep)
  OBVIOUS
<1>3. ASSUME base = top PROVE names = <<>>
  <2>1. Segments(Rest(base)) = <<>>
    BY <1>2, <1>3, TopIs
  <2> QED
    BY <2>1 DEF NamesOf
<1>4. /\ base[m + 1] = Sep /\ \A i \in 1 .. m : base[i] = cfg.mount[i]
      /\ base[n] = Sep
  BY <1>1, RestIs DEF Reached, Routed, Last
<1>5. ASSUME base # top
      PROVE  names # <<>> /\ ParentPath(base) # NoLink /\ LeadsTo(ParentPath(base), Front(names))
  <2>1. n # m + 1
    <3> SUFFICES ASSUME n = m + 1 PROVE FALSE
      OBVIOUS
    <3>1. /\ IsText(top) /\ Len(top) = n /\ top[m + 1] = Sep
          /\ \A i \in 1 .. m : top[i] = cfg.mount[i]
      BY <1>1, <1>2, MountIs, AppendedText
    <3>2. ASSUME NEW i \in 1 .. n PROVE base[i] = top[i]
      <4>1. CASE i = m + 1
        BY <1>4, <3>1, <4>1
      <4>2. CASE i # m + 1
        <5>1. i \in 1 .. m
          BY <1>1, <4>2
        <5> QED
          BY <1>4, <3>1, <5>1
      <4> QED
        BY <4>1, <4>2
    <3>3. base = top
      BY <1>1, <3>1, <3>2, SameText
    <3> QED
      BY <1>5, <3>3
  <2>2. n - 1 \in 1 .. n /\ n >= 2 /\ n >= m + 2 /\ n \in 1 .. n /\ (n - 1) + 1 = n
    BY <1>1, <2>1
  <2>3. PICK full : full = Front(base)
    OBVIOUS
  <2>4. /\ IsText(full) /\ Len(full) = n - 1 /\ base = Append(full, Sep)
        /\ \A i \in 1 .. n - 1 : full[i] = base[i]
    BY <1>1, <2>3, SplitText
  <2>5. full # <<>>
    BY <2>2, <2>4, TextLength
  <2>6. Last(full) # Sep /\ base[n - 1] # Sep
    <3>1. base[n - 1] # Sep
      <4>1. DOMAIN base = 1 .. n
        BY <1>1, TextLength
      <4>2. base[n - 1] # Sep \/ base[(n - 1) + 1] # Sep
        BY <2>2, <4>1 DEF Single
      <4> QED
        BY <1>4, <2>2, <4>2
    <3>2. n - 1 \in 1 .. n - 1
      BY <2>2
    <3> QED
      BY <2>4, <3>1, <3>2 DEF Last
  <2>7. n >= m + 3
    <3>1. n # m + 2
      <4> SUFFICES ASSUME n = m + 2 PROVE FALSE
        OBVIOUS
      <4>1. m + 1 = n - 1
        OBVIOUS
      <4> QED
        BY <1>4, <2>6, <4>1
    <3> QED
      BY <2>2, <3>1
  <2>8. PICK above, piece : above = Front(full) /\ piece = Last(full)
    OBVIOUS
  <2>9. /\ IsText(above) /\ Len(above) = n - 2 /\ full = Append(above, piece)
        /\ \A i \in 1 .. n - 2 : above[i] = full[i]
    <3>1. /\ IsText(above) /\ Len(above) = (n - 1) - 1 /\ full = Append(above, piece)
          /\ \A i \in 1 .. (n - 1) - 1 : above[i] = full[i]
      BY <2>4, <2>5, <2>8, SplitText
    <3>2. (n - 1) - 1 = n - 2
      OBVIOUS
    <3> QED
      BY <3>1, <3>2
  <2>10. Single(full) /\ Separated(full)
    BY <2>4, SingleAppend DEF Reached
  <2>11. full[n - 2] = Sep
    <3>1. n - 2 \in 1 .. n - 1 /\ (n - 2) + 1 = n - 1 /\ n - 1 \in 1 .. n - 1
      BY <2>7
    <3>2. DOMAIN full = 1 .. n - 1
      BY <2>4, TextLength
    <3>3. Sep \in {full[n - 2], full[n - 1]}
      BY <2>10, <3>1, <3>2 DEF Separated
    <3> QED
      BY <2>4, <2>6, <3>1, <3>3
  <2>12. ParentPath(base) = above
    <3>1. TrimEnd(base) = full
      BY <2>4, <2>6, TrimEndIs
    <3>2. PICK seps : seps = {i \in DOMAIN full : full[i] = Sep}
      OBVIOUS
    <3>3. n - 2 \in Nat /\ n - 2 \in 1 .. n - 1 /\ (n - 2) + 1 = n - 1 /\ n - 1 \in 1 .. n - 1
      BY <2>7
    <3>4. DOMAIN full = 1 .. n - 1 /\ full[n - 1] # Sep
      BY <2>4, <2>6, <3>3, TextLength
    <3>5. n - 2 \in seps
      BY <2>11, <3>2, <3>3, <3>4
    <3>6. \A i \in seps : i \in 1 .. n - 2
      <4> SUFFICES ASSUME NEW i \in seps PROVE i \in 1 .. n - 2
        OBVIOUS
      <4>1. i \in 1 .. n - 1 /\ i # n - 1
        BY <3>2, <3>4
      <4> QED
        BY <3>3, <4>1
    <3>7. PICK k \in Nat : k = n - 2
      BY <3>3
    <3>8. Max(seps) = k
      <4>1. seps \in SUBSET (1 .. k) /\ k \in seps
        BY <3>5, <3>6, <3>7
      <4> QED
        BY <4>1, MaxOfTop
    <3>9. ParentPath(base) = SubSeq(full, 1, k)
      BY <3>1, <3>2, <3>5, <3>8 DEF ParentPath
    <3>10. above = SubSeq(full, 1, k)
      BY <2>4, <2>8, <3>7 DEF Front
    <3> QED
      BY <3>9, <3>10
  <2>13. above # <<>> /\ Last(above) = Sep
    <3>1. n - 2 \in 1 .. n - 2 /\ n - 2 # 0
      BY <2>7
    <3> QED
      BY <2>9, <2>11, <3>1, TextLength DEF Last
  <2>14. Len(full) > Len(cfg.mount) /\ Len(above) > Len(cfg.mount) /\ Len(cfg.mount) <= Len(full)
    BY <1>1, <2>4, <2>7, <2>9
  <2>15. Reached(full) /\ Segments(Rest(base)) = Segments(Rest(full))
    BY <2>4, <2>14, SepReached
  <2>16. /\ Reached(above) /\ IsText(NamesOf(Segments(Rest(above))))
         /\ names = Append(NamesOf(Segments(Rest(above))), piece.name)
    <3>1. piece # Sep /\ IsText(above)
      BY <2>6, <2>8, <2>9
    <3>2. /\ Reached(Append(above, piece)) <=> Reached(above) /\ Decodes(piece)
          /\ NamesOf(Segments(Rest(Append(above, piece)))) =
               Append(NamesOf(Segments(Rest(above))), piece.name)
          /\ IsText(NamesOf(Segments(Rest(above))))
      BY <2>13, <2>14, <3>1, PieceReached
    <3> QED
      BY <2>9, <2>15, <3>2
  <2>17. Single(above)
    BY <2>9, <2>10, SingleAppend
  <2>18. Legible(above)
    <3>1. Legible(full)
      BY <2>4, LegibleAppend
    <3> QED
      BY <2>9, <3>1, LegibleAppend
  <2>19. names # <<>> /\ Front(names) = NamesOf(Segments(Rest(above)))
    BY <2>16, FrontOfAppend
  <2>20. LeadsTo(above, Front(names))
    BY <2>9, <2>16, <2>17, <2>18, <2>19, LeadsIs
  <2> QED
    BY <2>12, <2>13, <2>19, <2>20 DEF NoLink
<1> QED
  BY <1>2, <1>3, <1>5

\* The stylesheet's link leads to the assets of the same route.
LEMMA StyleLeads ==
  ASSUME cfg \in Configs, Legible(cfg.mount),
         NEW style, style = cfg.mount \o <<Sep, Plain(Css)>>
  PROVE  IsAsset(Read(style))
<1>1. PICK top, piece : top = Append(cfg.mount, Sep) /\ piece = Plain(Css)
  OBVIOUS
<1>2. style = Append(top, piece) /\ IsText(cfg.mount)
  BY <1>1, MountIs, AfterText
<1>3. /\ IsText(top) /\ Len(top) = Len(cfg.mount) + 1 /\ Routed(top) /\ Rest(top) = <<Sep>>
  BY <1>1, TopIs
<1>4. piece # Sep /\ Clear(piece)
  BY <1>1, StyleIsSegment
<1>5. Read(style) = style
  <2>1. Legible(top) /\ IsText(style)
    BY <1>1, <1>2, <1>3, LegibleAppend, SepIsClear, AppendedText
  <2>2. Legible(style)
    BY <1>2, <1>3, <1>4, <2>1, LegibleAppend
  <2> QED
    BY <2>1, <2>2, LegibleIs
<1>6. Len(top) > Len(cfg.mount) /\ Len(cfg.mount) <= Len(top)
  BY <1>3, MountIs
<1>7. Routed(style)
  BY <1>2, <1>3, <1>6, RoutedAppend
<1>8. PICK two : two = Append(<<Sep>>, piece)
  OBVIOUS
<1>9. Rest(style) = two
  BY <1>2, <1>3, <1>6, <1>8, RestAppend
<1>10. TrimStart(PassedOn(style)) = <<piece>>
  <2>1. CASE cfg.routed
    <3>1. PassedOn(style) = TrimStart(TrimEnd(two))
      BY <1>9, <2>1 DEF PassedOn, Rest
    <3> QED
      BY <1>4, <1>8, <3>1, OneSegment
  <2>2. CASE ~cfg.routed
    <3>1. Len(cfg.mount) = 0
      BY <2>2, MountIs
    <3>2. IsText(style)
      BY <1>2, <1>3, AppendedText
    <3>3. Rest(style) = SubSeq(style, 1, Len(style)) /\ Len(style) \in Nat
      BY <3>1, <3>2, TextLength DEF Rest
    <3>4. Rest(style) = style
      <4>1. SubSeq(style, 1, Len(style)) = style
        BY <3>2, PrefixText
      <4> QED
        BY <3>3, <4>1
    <3> QED
      BY <1>4, <1>8, <1>9, <2>2, <3>4, OneSegment DEF PassedOn
  <2> QED
    BY <2>1, <2>2
<1> QED
  BY <1>1, <1>5, <1>7, <1>10 DEF IsAsset
-----------------------------------------------------------------------------
(* The order of the rows                                                   *)

IsEntry(e) == e.name \in Name /\ e.is_dir \in BOOLEAN /\ e.len \in Int /\ e.modified \in Int
IsEntries(entries) == IsText(entries) /\ \A i \in DOMAIN entries : IsEntry(entries[i])
Sorts == [key : {"name", "size", "modified"}, order : {"asc", "desc"}]

\* What rows are compared by, first to last.
Group(e) == IF e.is_dir THEN 0 ELSE 1
Major(e, sort) == Directed(sort.order, CASE sort.key = "name" -> 0
                                         [] sort.key = "size" -> e.len
                                         [] sort.key = "modified" -> e.modified)
Minor(e, sort) == Directed(sort.order, Spelling[e.name])

\* Compare looks at the group, then at the key, then at the spelling.
LEMMA CompareIs ==
  ASSUME NEW a, IsEntry(a), NEW b, IsEntry(b), NEW sort \in Sorts
  PROVE  /\ {Group(a), Major(a, sort), Minor(a, sort)} \subseteq Int
         /\ Compare(a, b, sort) \in Int
         /\ Compare(a, b, sort) < 0 <=>
              \/ Group(a) < Group(b)
              \/ /\ Group(a) = Group(b)
                 /\ \/ Major(a, sort) < Major(b, sort)
                    \/ Major(a, sort) = Major(b, sort) /\ Minor(a, sort) < Minor(b, sort)
         /\ Compare(a, b, sort) = 0 <=>
              /\ Group(a) = Group(b) /\ Major(a, sort) = Major(b, sort)
              /\ Minor(a, sort) = Minor(b, sort)
<1>1. PICK x \in Int, y \in Int : x = Spelling[a.name] /\ y = Spelling[b.name]
  BY NameAssumption DEF IsEntry
<1>2. PICK u \in Int, v \in Int :
        /\ u = CASE sort.key = "name" -> 0
                 [] sort.key = "size" -> a.len
                 [] sort.key = "modified" -> a.modified
        /\ v = CASE sort.key = "name" -> 0
                 [] sort.key = "size" -> b.len
                 [] sort.key = "modified" -> b.modified
        /\ Within(a, b, sort.key) = u - v
  <2>1. sort.key \in {"name", "size", "modified"}
    BY DEF Sorts
  <2>2. a.len \in Int /\ b.len \in Int /\ a.modified \in Int /\ b.modified \in Int
    BY DEF IsEntry
  <2>3. CASE sort.key = "name"
    BY <2>3 DEF Within
  <2>4. CASE sort.key = "size"
    BY <2>2, <2>4 DEF Within
  <2>5. CASE sort.key = "modified"
    BY <2>2, <2>5 DEF Within
  <2> QED
    BY <2>1, <2>3, <2>4, <2>5
<1>3. /\ Major(a, sort) = IF sort.order = "desc" THEN -u ELSE u
      /\ Major(b, sort) = IF sort.order = "desc" THEN -v ELSE v
      /\ Minor(a, sort) = IF sort.order = "desc" THEN -x ELSE x
      /\ Minor(b, sort) = IF sort.order = "desc" THEN -y ELSE y
  BY <1>1, <1>2 DEF Major, Minor, Directed
<1>4. Compare(a, b, sort) =
        IF a.is_dir # b.is_dir THEN IF a.is_dir THEN -1 ELSE 1
        ELSE IF (IF sort.order = "desc" THEN -(u - v) ELSE u - v) # 0
             THEN IF sort.order = "desc" THEN -(u - v) ELSE u - v
             ELSE IF sort.order = "desc" THEN -(x - y) ELSE x - y
  BY <1>1, <1>2 DEF Compare, Then, Directed
<1>5. PICK g \in Int, h \in Int :
        /\ g = Group(a) /\ h = Group(b)
        /\ a.is_dir # b.is_dir <=> g # h
        /\ a.is_dir # b.is_dir => (a.is_dir <=> g < h)
  <2>1. CASE a.is_dir = TRUE /\ b.is_dir = TRUE
    <3>1. Group(a) = 0 /\ Group(b) = 0
      BY <2>1 DEF Group
    <3>2. ~(a.is_dir # b.is_dir)
      BY <2>1
    <3> QED
      BY <3>1, <3>2
  <2>2. CASE a.is_dir = TRUE /\ b.is_dir = FALSE
    BY <2>2 DEF Group
  <2>3. CASE a.is_dir = FALSE /\ b.is_dir = TRUE
    BY <2>3 DEF Group
  <2>4. CASE a.is_dir = FALSE /\ b.is_dir = FALSE
    <3>1. Group(a) = 1 /\ Group(b) = 1
      BY <2>4 DEF Group
    <3>2. ~(a.is_dir # b.is_dir)
      BY <2>4
    <3> QED
      BY <3>1, <3>2
  <2> QED
    BY <2>1, <2>2, <2>3, <2>4 DEF IsEntry
<1>6. PICK c \in Int : c = Compare(a, b, sort)
  <2>1. PICK w \in Int : w = IF a.is_dir THEN -1 ELSE 1
    OBVIOUS
  <2>2. PICK t \in Int : t = IF (IF sort.order = "desc" THEN -(u - v) ELSE u - v) # 0
                            THEN IF sort.order = "desc" THEN -(u - v) ELSE u - v
                            ELSE IF sort.order = "desc" THEN -(x - y) ELSE x - y
    <3>1. -(u - v) \in Int /\ u - v \in Int /\ -(x - y) \in Int /\ x - y \in Int
      OBVIOUS
    <3>2. PICK p, q, r, s : p = -(u - v) /\ q = u - v /\ r = -(x - y) /\ s = x - y
      OBVIOUS
    <3>3. {p, q, r, s} \subseteq Int
      BY <3>1, <3>2
    <3>4. (IF (IF sort.order = "desc" THEN p ELSE q) # 0
           THEN IF sort.order = "desc" THEN p ELSE q
           ELSE IF sort.order = "desc" THEN r ELSE s) \in Int
      BY <3>3
    <3> QED
      BY <3>2, <3>4
  <2>3. Compare(a, b, sort) = IF a.is_dir # b.is_dir THEN w ELSE t
    BY <1>4, <2>1, <2>2
  <2> QED
    BY <2>1, <2>2, <2>3
<1>7. CASE a.is_dir # b.is_dir
  <2>1. c = IF g < h THEN -1 ELSE 1
    BY <1>4, <1>5, <1>6, <1>7
  <2> QED
    BY <1>3, <1>5, <1>6, <1>7, <2>1
<1>8. CASE a.is_dir = b.is_dir
  <2>1. g = h
    BY <1>5, <1>8
  <2>2. CASE sort.order = "desc"
    <3>1. c = IF -(u - v) # 0 THEN -(u - v) ELSE -(x - y)
      BY <1>4, <1>6, <1>8, <2>2
    <3>2. Major(a, sort) = -u /\ Major(b, sort) = -v /\ Minor(a, sort) = -x /\ Minor(b, sort) = -y
      BY <1>3, <2>2
    <3> QED
      BY <1>5, <1>6, <2>1, <3>1, <3>2
  <2>3. CASE sort.order # "desc"
    <3>1. c = IF u - v # 0 THEN u - v ELSE x - y
      BY <1>4, <1>6, <1>8, <2>3
    <3>2. Major(a, sort) = u /\ Major(b, sort) = v /\ Minor(a, sort) = x /\ Minor(b, sort) = y
      BY <1>3, <2>3
    <3> QED
      BY <1>5, <1>6, <2>1, <3>1, <3>2
  <2> QED
    BY <2>2, <2>3
<1> QED
  BY <1>7, <1>8

\* Row i goes before row j; the place that gives row i.
Precedes(entries, sort, i, j) ==
  \/ Compare(entries[i], entries[j], sort) < 0
  \/ Compare(entries[i], entries[j], sort) = 0 /\ i < j
Earlier(entries, sort, i) == {j \in DOMAIN entries : Precedes(entries, sort, j, i)}
PlaceOf(entries, sort, i) == 1 + Cardinality(Earlier(entries, sort, i))

\* To precede, with the place read as the last tie break, is a strict total order.
LEMMA PrecedesIsOrder ==
  ASSUME NEW entries, IsEntries(entries), NEW sort \in Sorts
  PROVE  /\ \A i, j \in DOMAIN entries :
              Precedes(entries, sort, i, j) => ~Precedes(entries, sort, j, i)
         /\ \A i, j \in DOMAIN entries :
              i # j => Precedes(entries, sort, i, j) \/ Precedes(entries, sort, j, i)
         /\ \A i, j, k \in DOMAIN entries :
              Precedes(entries, sort, i, j) /\ Precedes(entries, sort, j, k)
                => Precedes(entries, sort, i, k)
<1>1. DOMAIN entries \subseteq Int
  BY TextLength DEF IsEntries
<1>2. PICK D : D = DOMAIN entries
  OBVIOUS
<1>3. PICK g \in [D -> Int], u \in [D -> Int], x \in [D -> Int] :
        \A i \in D : /\ g[i] = Group(entries[i])
                     /\ u[i] = Major(entries[i], sort)
                     /\ x[i] = Minor(entries[i], sort)
  <2>1. \A i \in D : /\ Group(entries[i]) \in Int /\ Major(entries[i], sort) \in Int
                     /\ Minor(entries[i], sort) \in Int
    BY <1>2, CompareIs DEF IsEntries
  <2>2. PICK g, u, x : /\ g = [i \in D |-> Group(entries[i])]
                       /\ u = [i \in D |-> Major(entries[i], sort)]
                       /\ x = [i \in D |-> Minor(entries[i], sort)]
    OBVIOUS
  <2>3. g \in [D -> Int] /\ u \in [D -> Int] /\ x \in [D -> Int]
    BY <2>1, <2>2
  <2> QED
    BY <2>2, <2>3
<1>4. ASSUME NEW i \in D, NEW j \in D
      PROVE  Precedes(entries, sort, i, j) <=>
               \/ g[i] < g[j]
               \/ /\ g[i] = g[j]
                  /\ \/ u[i] < u[j]
                     \/ u[i] = u[j] /\ (x[i] < x[j] \/ (x[i] = x[j] /\ i < j))
  <2>1. PICK a, b : a = entries[i] /\ b = entries[j]
    OBVIOUS
  <2>2. IsEntry(a) /\ IsEntry(b)
    BY <1>2, <2>1 DEF IsEntries
  <2>3. PICK c : c = Compare(a, b, sort)
    OBVIOUS
  <2>4. /\ c < 0 <=> \/ g[i] < g[j]
                     \/ /\ g[i] = g[j]
                        /\ u[i] < u[j] \/ (u[i] = u[j] /\ x[i] < x[j])
        /\ c = 0 <=> g[i] = g[j] /\ u[i] = u[j] /\ x[i] = x[j]
    BY <1>3, <2>1, <2>2, <2>3, CompareIs
  <2>5. Precedes(entries, sort, i, j) <=> c < 0 \/ (c = 0 /\ i < j)
    BY <2>1, <2>3 DEF Precedes
  <2> QED
    BY <2>4, <2>5
<1>5. \A i, j \in D : Precedes(entries, sort, i, j) => ~Precedes(entries, sort, j, i)
  BY <1>1, <1>2, <1>3, <1>4
<1>6. \A i, j \in D : i # j => Precedes(entries, sort, i, j) \/ Precedes(entries, sort, j, i)
  BY <1>1, <1>2, <1>3, <1>4
<1>7. \A i, j, k \in D : Precedes(entries, sort, i, j) /\ Precedes(entries, sort, j, k)
                           => Precedes(entries, sort, i, k)
  BY <1>1, <1>2, <1>3, <1>4
<1> QED
  BY <1>2, <1>5, <1>6, <1>7

\* Every place is taken by one row.
LEMMA PlacesAreTaken ==
  ASSUME NEW entries, IsEntries(entries), NEW sort \in Sorts
  PROVE  /\ \A i \in DOMAIN entries : PlaceOf(entries, sort, i) \in DOMAIN entries
         /\ \A i, j \in DOMAIN entries :
              Precedes(entries, sort, i, j) => PlaceOf(entries, sort, i) < PlaceOf(entries, sort, j)
         /\ \A k \in DOMAIN entries : \E i \in DOMAIN entries : PlaceOf(entries, sort, i) = k
<1>1. PICK n \in Nat : n = Len(entries) /\ DOMAIN entries = 1 .. n
  BY TextLength DEF IsEntries
<1>2. PICK D : D = 1 .. n /\ D = DOMAIN entries
  BY <1>1
<1>3. IsFiniteSet(D) /\ Cardinality(D) = n
  BY <1>2, FS_Interval
<1>4. PICK place : place = [i \in D |-> PlaceOf(entries, sort, i)]
  OBVIOUS
<1>5. PICK early : early = [i \in D |-> Earlier(entries, sort, i)]
  OBVIOUS
<1>6. ASSUME NEW i \in D
      PROVE  /\ early[i] \in SUBSET (D \ {i}) /\ IsFiniteSet(early[i])
             /\ Cardinality(early[i]) \in 0 .. n - 1
             /\ place[i] = 1 + Cardinality(early[i])
  <2>1. early[i] = {j \in D : Precedes(entries, sort, j, i)}
    BY <1>2, <1>5 DEF Earlier
  <2>2. i \notin early[i]
    BY <1>2, <2>1, PrecedesIsOrder
  <2>3. early[i] \in SUBSET (D \ {i})
    BY <2>1, <2>2
  <2>4. IsFiniteSet(D \ {i}) /\ Cardinality(D \ {i}) = n - 1
    BY <1>3, FS_RemoveElement
  <2>5. IsFiniteSet(early[i]) /\ Cardinality(early[i]) <= n - 1
    BY <2>3, <2>4, FS_Subset
  <2>6. Cardinality(early[i]) \in Nat
    BY <2>5, FS_CardinalityType
  <2> QED
    BY <1>4, <1>5, <2>3, <2>5, <2>6 DEF PlaceOf
<1>7. ASSUME NEW i \in D, NEW j \in D, Precedes(entries, sort, i, j)
      PROVE  place[i] < place[j]
  <2>1. early[i] \in SUBSET (early[j] \ {i})
    <3>1. i \notin early[i]
      BY <1>6
    <3>2. ASSUME NEW k \in early[i] PROVE k \in early[j]
      <4>1. k \in D /\ Precedes(entries, sort, k, i)
        BY <1>2, <1>5, <3>2 DEF Earlier
      <4>2. Precedes(entries, sort, k, j)
        BY <1>2, <1>7, <4>1, PrecedesIsOrder
      <4> QED
        BY <1>2, <1>5, <4>1, <4>2 DEF Earlier
    <3> QED
      BY <3>1, <3>2
  <2>2. i \in early[j]
    BY <1>2, <1>5, <1>7 DEF Earlier
  <2>3. IsFiniteSet(early[j] \ {i}) /\ Cardinality(early[j] \ {i}) = Cardinality(early[j]) - 1
    BY <1>6, <2>2, FS_RemoveElement
  <2>4. Cardinality(early[i]) <= Cardinality(early[j]) - 1
    BY <2>1, <2>3, FS_Subset
  <2> QED
    BY <1>6, <2>4
<1>8. place \in [D -> D]
  <2>1. ASSUME NEW i \in D PROVE PlaceOf(entries, sort, i) \in D
    <3>1. place[i] \in 1 .. n
      BY <1>6
    <3> QED
      BY <1>2, <1>4, <3>1
  <2> QED
    BY <1>4, <2>1
<1>9. place \in Injection(D, D)
  <2>1. ASSUME NEW i \in D, NEW j \in D, place[i] = place[j] PROVE i = j
    <3>1. place[i] \in Int
      BY <1>2, <1>8
    <3>2. ~Precedes(entries, sort, i, j) /\ ~Precedes(entries, sort, j, i)
      BY <1>7, <2>1, <3>1
    <3> QED
      BY <1>2, <3>2, PrecedesIsOrder
  <2> QED
    BY <1>8, <2>1, Fun_IsInj
<1>10. place \in Surjection(D, D)
  BY <1>3, <1>9, FS_Injection
<1>11. \A k \in D : \E i \in D : place[i] = k
  BY <1>10, Fun_SurjectionProperties
<1>12. \A i \in D : place[i] = PlaceOf(entries, sort, i)
  BY <1>4
<1>13. \A i \in D : PlaceOf(entries, sort, i) \in D
  BY <1>8, <1>12
<1>14. \A i, j \in D : Precedes(entries, sort, i, j)
                         => PlaceOf(entries, sort, i) < PlaceOf(entries, sort, j)
  BY <1>7, <1>12
<1>15. \A k \in D : \E i \in D : PlaceOf(entries, sort, i) = k
  BY <1>11, <1>12
<1> QED
  BY <1>2, <1>13, <1>14, <1>15

\* p names the entries one after the other as they are sorted.
Orders(p, entries, sort) ==
  /\ p \in [DOMAIN entries -> DOMAIN entries]
  /\ \A i, j \in DOMAIN entries : i < j => Precedes(entries, sort, p[i], p[j])
  /\ \A i \in DOMAIN entries : \E k \in DOMAIN entries : p[k] = i

\* The sorted rows are the entries, each at its place.
LEMMA SortIs ==
  ASSUME NEW entries, IsEntries(entries), NEW sort \in Sorts
  PROVE  /\ IsEntries(SortEntries(entries, sort))
         /\ Len(SortEntries(entries, sort)) = Len(entries)
         /\ \E p : /\ Orders(p, entries, sort)
                  /\ \A k \in DOMAIN entries : SortEntries(entries, sort)[k] = entries[p[k]]
<1>0. PICK D, sorted : D = DOMAIN entries /\ sorted = SortEntries(entries, sort)
  OBVIOUS
<1>1. PICK n \in Nat : n = Len(entries) /\ D = 1 .. n
  BY <1>0, TextLength DEF IsEntries
<1>2. PICK p : p = [k \in D |-> CHOOSE i \in D : PlaceOf(entries, sort, i) = k]
  OBVIOUS
<1>3. /\ \A k \in D : p[k] \in D /\ PlaceOf(entries, sort, p[k]) = k
      /\ p \in [D -> D]
  BY <1>0, <1>2, PlacesAreTaken
<1>4. sorted = [k \in D |-> entries[p[k]]]
  <2>1. sorted = [k \in D |-> entries[CHOOSE i \in D : PlaceOf(entries, sort, i) = k]]
    BY <1>0 DEF SortEntries, PlaceOf, Earlier, Precedes
  <2> QED
    BY <1>2, <2>1
<1>5. IsEntries(sorted) /\ Len(sorted) = n
  <2>1. PICK A : entries \in Seq(A)
    BY DEF IsEntries, IsText
  <2>2. \A k \in D : entries[p[k]] \in A
    BY <1>1, <1>3, <2>1, ElementOfSeq
  <2>3. sorted \in Seq(A) /\ Len(sorted) = n
    BY <1>1, <1>4, <2>2
  <2>4. \A k \in D : IsEntry(sorted[k])
    BY <1>0, <1>3, <1>4 DEF IsEntries
  <2>5. DOMAIN sorted = D
    BY <1>4
  <2> QED
    BY <2>3, <2>4, <2>5 DEF IsEntries, IsText
<1>6. ASSUME NEW i \in D, NEW j \in D, i < j
      PROVE  Precedes(entries, sort, p[i], p[j])
  <2>1. i \in Int /\ j \in Int
    BY <1>1
  <2>2. p[i] # p[j]
    BY <1>3, <1>6, <2>1
  <2>3. ASSUME Precedes(entries, sort, p[j], p[i]) PROVE FALSE
    <3>1. j < i
      BY <1>0, <1>3, <2>3, PlacesAreTaken
    <3> QED
      BY <1>6, <2>1, <3>1
  <2> QED
    BY <1>0, <1>3, <2>2, <2>3, PrecedesIsOrder
<1>7. ASSUME NEW i \in D PROVE \E k \in D : p[k] = i
  <2>1. PICK k \in D : k = PlaceOf(entries, sort, i)
    BY <1>0, PlacesAreTaken
  <2>2. k \in Int /\ PlaceOf(entries, sort, p[k]) = k
    BY <1>1, <1>3
  <2>3. ~Precedes(entries, sort, p[k], i) /\ ~Precedes(entries, sort, i, p[k])
    <3>1. ASSUME Precedes(entries, sort, p[k], i) PROVE k < k
      BY <1>0, <1>3, <2>1, <3>1, PlacesAreTaken
    <3>2. ASSUME Precedes(entries, sort, i, p[k]) PROVE k < k
      BY <1>0, <1>3, <2>1, <3>2, PlacesAreTaken
    <3> QED
      BY <2>2, <3>1, <3>2
  <2>4. p[k] = i
    BY <1>0, <1>3, <2>3, PrecedesIsOrder
  <2> QED
    BY <2>4
<1>8. Orders(p, entries, sort)
  BY <1>0, <1>3, <1>6, <1>7 DEF Orders
<1>9. \A k \in D : sorted[k] = entries[p[k]]
  BY <1>4
<1> QED
  BY <1>0, <1>1, <1>5, <1>8, <1>9

\* The indices up to q are q.
LEMMA FirstOnes == ASSUME NEW q \in Nat PROVE IsFiniteSet(1 .. q) /\ Cardinality(1 .. q) = q
  BY FS_Interval

\* There is only one way to put them in order.
LEMMA SortedOnly ==
  ASSUME NEW entries, IsEntries(entries), NEW sort \in Sorts,
         NEW r, Orders(r, entries, sort), NEW k \in DOMAIN entries
  PROVE  SortEntries(entries, sort)[k] = entries[r[k]]
<1>0. PICK D : D = DOMAIN entries
  OBVIOUS
<1>1. PICK n \in Nat : n = Len(entries) /\ D = 1 .. n
  BY <1>0, TextLength DEF IsEntries
<1>a. /\ k \in D /\ r \in [D -> D]
      /\ \A i, j \in D : i < j => Precedes(entries, sort, r[i], r[j])
      /\ \A i \in D : \E m \in D : r[m] = i
  BY <1>0 DEF Orders
<1>2. k \in 1 .. n /\ k - 1 \in Int /\ k - 1 >= 0
  BY <1>1, <1>a
<1>3. PICK S, T : S = 1 .. k - 1 /\ T = Earlier(entries, sort, r[k])
  OBVIOUS
<1>4. \A i \in S : i \in D /\ i < k /\ i \in Int
  <2>1. \A i \in 1 .. k - 1 : i \in 1 .. n /\ i < k /\ i \in Int
    BY <1>2
  <2>2. D = 1 .. n /\ S = 1 .. k - 1
    BY <1>1, <1>3
  <2> QED
    BY <2>1, <2>2
<1>5. PICK f : f = [i \in S |-> r[i]]
  OBVIOUS
<1>6. f \in [S -> T]
  <2>1. \A i \in S : r[i] \in T
    BY <1>0, <1>3, <1>4, <1>a DEF Earlier
  <2> QED
    BY <1>5, <2>1
<1>7. \A i, j \in S : f[i] = f[j] => i = j
  <2>1. ASSUME NEW i \in S, NEW j \in S, f[i] = f[j], i # j PROVE FALSE
    <3>1. i < j \/ j < i
      BY <1>4, <2>1
    <3>2. Precedes(entries, sort, r[i], r[j]) \/ Precedes(entries, sort, r[j], r[i])
      BY <1>4, <1>a, <3>1
    <3>3. r[i] = r[j] /\ r[i] \in D
      BY <1>4, <1>5, <1>a, <2>1
    <3> QED
      BY <1>0, <1>a, <3>2, <3>3, PrecedesIsOrder
  <2> QED
    BY <2>1
<1>8. \A t \in T : \E i \in S : f[i] = t
  <2> SUFFICES ASSUME NEW t \in T PROVE \E i \in S : f[i] = t
    OBVIOUS
  <2>1. t \in D /\ Precedes(entries, sort, t, r[k])
    BY <1>0, <1>3 DEF Earlier
  <2>2. PICK i \in D : r[i] = t
    BY <1>a, <2>1
  <2>3. i < k
    <3>1. i # k
      BY <1>0, <1>a, <2>1, <2>2, PrecedesIsOrder
    <3>2. ASSUME k < i PROVE FALSE
      <4>1. Precedes(entries, sort, r[k], t)
        BY <1>a, <2>2, <3>2
      <4> QED
        BY <1>0, <1>a, <2>1, <4>1, PrecedesIsOrder
    <3> QED
      BY <1>1, <1>2, <3>1, <3>2
  <2>4. i \in S
    BY <1>1, <1>2, <1>3, <2>3
  <2> QED
    BY <1>5, <2>2, <2>4
<1>9. Cardinality(T) = k - 1
  <2>1. f \in Bijection(S, T)
    BY <1>6, <1>7, <1>8, Fun_IsBij
  <2>2. ExistsBijection(S, T)
    BY <2>1 DEF ExistsBijection
  <2>3. IsFiniteSet(S) /\ Cardinality(S) = k - 1
    <3>1. PICK q \in Nat : q = k - 1
      BY <1>2
    <3>2. IsFiniteSet(1 .. q) /\ Cardinality(1 .. q) = q
      BY FirstOnes
    <3> QED
      BY <1>3, <3>1, <3>2
  <2> QED
    BY <2>2, <2>3, FS_Bijection
<1>10. r[k] \in D /\ PlaceOf(entries, sort, r[k]) = k
  BY <1>2, <1>3, <1>9, <1>a DEF PlaceOf
<1>11. ASSUME NEW i \in D, PlaceOf(entries, sort, i) = k PROVE i = r[k]
  <2>1. k \in Int
    BY <1>2
  <2>2. ASSUME Precedes(entries, sort, i, r[k]) PROVE k < k
    BY <1>0, <1>a, <1>10, <1>11, <2>2, PlacesAreTaken
  <2>3. ASSUME Precedes(entries, sort, r[k], i) PROVE k < k
    BY <1>0, <1>a, <1>10, <1>11, <2>3, PlacesAreTaken
  <2>4. ~Precedes(entries, sort, i, r[k]) /\ ~Precedes(entries, sort, r[k], i)
    BY <2>1, <2>2, <2>3
  <2> QED
    BY <1>0, <1>a, <1>10, <2>4, PrecedesIsOrder
<1>12. (CHOOSE i \in D : PlaceOf(entries, sort, i) = k) = r[k]
  BY <1>10, <1>11
<1>13. SortEntries(entries, sort)
         = [m \in D |-> entries[CHOOSE i \in D : PlaceOf(entries, sort, i) = m]]
  BY <1>0 DEF SortEntries, PlaceOf, Earlier, Precedes
<1> QED
  BY <1>12, <1>13, <1>a

\* What the other order changes.
LEMMA FlippedIs ==
  ASSUME NEW a, IsEntry(a), NEW b, IsEntry(b), NEW sort \in Sorts, NEW back \in Sorts,
         back.key = sort.key, back.order # sort.order
  PROVE  /\ Compare(a, b, sort) = 0 => Compare(b, a, back) = 0
         /\ Compare(a, b, sort) < 0 /\ a.is_dir = b.is_dir
              => Compare(b, a, back) < 0 /\ ~(Compare(a, b, back) < 0) /\ Compare(a, b, back) # 0
         /\ Compare(a, b, sort) = 0 => Spelling[a.name] = Spelling[b.name]
         /\ Compare(a, b, sort) < 0 \/ Compare(a, b, sort) = 0 => (b.is_dir => a.is_dir)
<1>1. ASSUME NEW e, IsEntry(e)
      PROVE  /\ Major(e, back) = -Major(e, sort) /\ Minor(e, back) = -Minor(e, sort)
             /\ Major(e, sort) \in Int /\ Minor(e, sort) \in Int /\ Spelling[e.name] \in Int
  <2>1. PICK u : u = CASE sort.key = "name" -> 0
                       [] sort.key = "size" -> e.len
                       [] sort.key = "modified" -> e.modified
    OBVIOUS
  <2>2. u \in Int
    <3>1. e.len \in Int /\ e.modified \in Int /\ sort.key \in {"name", "size", "modified"}
      BY <1>1 DEF IsEntry, Sorts
    <3> QED
      BY <2>1, <3>1
  <2>3. PICK x \in Int : x = Spelling[e.name]
    BY <1>1, NameAssumption DEF IsEntry
  <2>4. /\ Major(e, sort) = IF sort.order = "desc" THEN -u ELSE u
        /\ Major(e, back) = IF back.order = "desc" THEN -u ELSE u
        /\ Minor(e, sort) = IF sort.order = "desc" THEN -x ELSE x
        /\ Minor(e, back) = IF back.order = "desc" THEN -x ELSE x
    BY <2>1, <2>3 DEF Major, Minor, Directed
  <2>5. \/ sort.order = "desc" /\ back.order # "desc"
        \/ sort.order # "desc" /\ back.order = "desc"
    BY DEF Sorts
  <2> QED
    BY <2>2, <2>3, <2>4, <2>5
<1>2. PICK g \in Int, h \in Int, u \in Int, v \in Int, x \in Int, y \in Int :
        /\ g = Group(a) /\ u = Major(a, sort) /\ x = Minor(a, sort)
        /\ h = Group(b) /\ v = Major(b, sort) /\ y = Minor(b, sort)
  BY CompareIs
<1>3. PICK c, d, e : c = Compare(a, b, sort) /\ d = Compare(b, a, back) /\ e = Compare(a, b, back)
  OBVIOUS
<1>4. /\ c < 0 <=> g < h \/ (g = h /\ (u < v \/ (u = v /\ x < y)))
      /\ c = 0 <=> g = h /\ u = v /\ x = y
  BY <1>2, <1>3, CompareIs
<1>5. /\ Major(a, back) = -u /\ Minor(a, back) = -x
      /\ Major(b, back) = -v /\ Minor(b, back) = -y
  BY <1>1, <1>2
<1>6. /\ d < 0 <=> h < g \/ (h = g /\ (-v < -u \/ (-v = -u /\ -y < -x)))
      /\ d = 0 <=> h = g /\ -v = -u /\ -y = -x
      /\ e < 0 <=> g < h \/ (g = h /\ (-u < -v \/ (-u = -v /\ -x < -y)))
      /\ e = 0 <=> g = h /\ -u = -v /\ -x = -y
  BY <1>2, <1>3, <1>5, CompareIs
<1>7. a.is_dir = b.is_dir => g = h
  BY <1>2 DEF Group
<1>8. x = y => Spelling[a.name] = Spelling[b.name]
  <2>1. PICK s \in Int, t \in Int : s = Spelling[a.name] /\ t = Spelling[b.name]
    BY <1>1
  <2>2. (x = s /\ y = t) \/ (x = -s /\ y = -t)
    BY <1>2, <2>1 DEF Minor, Directed
  <2> QED
    BY <2>1, <2>2
<1>9. g <= h => (b.is_dir => a.is_dir)
  <2>1. CASE b.is_dir = TRUE /\ a.is_dir = FALSE
    <3>1. g = 1 /\ h = 0
      BY <1>2, <2>1 DEF Group
    <3> QED
      BY <3>1
  <2> QED
    BY <2>1 DEF IsEntry
<1>10. c = 0 => d = 0
  BY <1>4, <1>6
<1>11. c < 0 /\ g = h => d < 0 /\ ~(e < 0) /\ e # 0
  BY <1>4, <1>6
<1>12. c < 0 \/ c = 0 => g <= h
  BY <1>4
<1>13. c = 0 => x = y
  BY <1>4
<1> QED
  BY <1>3, <1>7, <1>8, <1>9, <1>10, <1>11, <1>12, <1>13

\* Whatever the query, it is taken for one of the sorts.
LEMMA QueryIsSort == \A query : FromQuery(query) \in Sorts
BY DEF FromQuery, ParseKey, ParseOrder, Sorts

\* What a header's link asks for.
LEMMA HeaderAsks ==
  ASSUME NEW sort \in Sorts, NEW back, back = FromQuery(HeaderCell(sort.key, sort))
  PROVE  back.key = sort.key /\ back.order # sort.order /\ back.order = Flipped(sort.order)
<1>1. PICK key, order : key = sort.key /\ order = Flipped(sort.order)
  OBVIOUS
<1>2. PICK one, two : one = <<"sort", key>> /\ two = <<"order", order>>
  OBVIOUS
<1>3. one[1] = "sort" /\ one[2] = key /\ two[1] = "order" /\ two[2] = order
  BY <1>2
<1>4. PICK query : query = <<one, two>>
  OBVIOUS
<1>5. HeaderCell(sort.key, sort) = query
  BY <1>1, <1>2, <1>4 DEF HeaderCell
<1>6. query \in Seq({one, two}) /\ Len(query) = 2 /\ query[1] = one /\ query[2] = two
  BY <1>4
<1>7. DOMAIN query = 1 .. 2 /\ \A i \in 1 .. 2 : i = 1 \/ i = 2
  BY <1>6
<1>8. Values(query, "sort") = {1}
  <2>1. \A i \in DOMAIN query : query[i][1] = "sort" <=> i = 1
    BY <1>3, <1>6, <1>7
  <2>2. 1 \in DOMAIN query
    BY <1>7
  <2> QED
    BY <2>1, <2>2 DEF Values
<1>9. Values(query, "order") = {2}
  <2>1. \A i \in DOMAIN query : query[i][1] = "order" <=> i = 2
    BY <1>3, <1>6, <1>7
  <2>2. 2 \in DOMAIN query
    BY <1>7
  <2> QED
    BY <2>1, <2>2 DEF Values
<1>10. Min({1}) = 1 /\ Min({2}) = 2
  BY DEF Min
<1>11. Value(query, "sort") = key /\ Value(query, "order") = order
  BY <1>3, <1>6, <1>8, <1>9, <1>10 DEF Value
<1>12. key \in {"name", "size", "modified"} /\ order \in {"asc", "desc"} /\ order # sort.order
  BY <1>1 DEF Sorts, Flipped
<1>13. ParseKey(key) = key /\ ParseOrder(order) = order
  BY <1>12 DEF ParseKey, ParseOrder
<1>14. back.key = ParseKey(Value(query, "sort")) /\ back.order = ParseOrder(Value(query, "order"))
  BY <1>5 DEF FromQuery
<1> QED
  BY <1>1, <1>11, <1>12, <1>13, <1>14

\* A second click is the first one's opposite.
LEMMA HeaderAsksTwice ==
  ASSUME NEW sort \in Sorts, NEW back, back = FromQuery(HeaderCell(sort.key, sort))
  PROVE  back \in Sorts /\ FromQuery(HeaderCell(back.key, back)) = sort
<1>1. back \in Sorts
  BY QueryIsSort
<1>2. PICK again : again = FromQuery(HeaderCell(back.key, back))
  OBVIOUS
<1>3. /\ again \in Sorts /\ again.key = sort.key
      /\ back.order = Flipped(sort.order) /\ again.order = Flipped(back.order)
  BY <1>1, <1>2, QueryIsSort, HeaderAsks
<1>4. again.order = sort.order
  BY <1>3 DEF Flipped, Sorts
<1>5. again = [key |-> again.key, order |-> again.order]
      /\ sort = [key |-> sort.key, order |-> sort.order]
  BY <1>3 DEF Sorts
<1> QED
  BY <1>1, <1>2, <1>3, <1>4, <1>5

\* The rows are in the order that the page says.
InOrder(entries, sort) ==
  /\ IsEntries(entries) /\ sort \in Sorts
  /\ \A i, j \in DOMAIN entries : i < j => Precedes(entries, sort, i, j)

\* What a stable sort gives is in the order asked for.
LEMMA SortedIsInOrder ==
  ASSUME NEW entries, IsEntries(entries), NEW sort \in Sorts
  PROVE  InOrder(SortEntries(entries, sort), sort)
<1>1. PICK sorted, D : sorted = SortEntries(entries, sort) /\ D = DOMAIN entries
  OBVIOUS
<1>2. /\ IsEntries(sorted) /\ Len(sorted) = Len(entries)
      /\ \E p : Orders(p, entries, sort) /\ \A k \in D : sorted[k] = entries[p[k]]
  BY <1>1, SortIs
<1>3. PICK p : /\ p \in [D -> D] /\ \A k \in D : sorted[k] = entries[p[k]]
               /\ \A i, j \in D : i < j => Precedes(entries, sort, p[i], p[j])
  BY <1>1, <1>2 DEF Orders
<1>4. DOMAIN sorted = D
  BY <1>1, <1>2, TextLength DEF IsEntries
<1>5. ASSUME NEW i \in D, NEW j \in D, i < j PROVE Precedes(sorted, sort, i, j)
  <2>1. Precedes(entries, sort, p[i], p[j])
    BY <1>3, <1>5
  <2>2. sorted[i] = entries[p[i]] /\ sorted[j] = entries[p[j]]
    BY <1>3
  <2> QED
    BY <1>5, <2>1, <2>2 DEF Precedes
<1> QED
  BY <1>1, <1>2, <1>4, <1>5 DEF InOrder

\* Turned over and turned back, the rows are where they were.
LEMMA TurnedBack ==
  ASSUME NEW entries, NEW sort, InOrder(entries, sort),
         NEW back \in Sorts, back.key = sort.key, back.order # sort.order,
         NEW turned, turned = SortEntries(entries, back)
  PROVE  SortEntries(turned, sort) = entries
<1>0. IsEntries(entries) /\ sort \in Sorts
  BY DEF InOrder
<1>d. PICK D : D = DOMAIN entries
  OBVIOUS
<1>1. PICK n \in Nat : D = DOMAIN entries /\ n = Len(entries) /\ D = 1 .. n
  BY <1>0, <1>d, TextLength DEF IsEntries
<1>2. /\ IsEntries(turned) /\ Len(turned) = Len(entries)
      /\ \E p : Orders(p, entries, back) /\ \A k \in D : turned[k] = entries[p[k]]
  BY <1>0, <1>d, SortIs
<1>3. PICK p :
        /\ p \in [D -> D] /\ \A k \in D : turned[k] = entries[p[k]]
        /\ \A i, j \in D : i < j => Precedes(entries, back, p[i], p[j])
        /\ \A i \in D : \E k \in D : p[k] = i
  BY <1>d, <1>2 DEF Orders
<1>4. DOMAIN turned = D
  BY <1>1, <1>2, TextLength DEF IsEntries
<1>5. PICK r : r = [i \in D |-> CHOOSE k \in D : p[k] = i]
  OBVIOUS
<1>6. r \in [D -> D] /\ \A i \in D : p[r[i]] = i
  BY <1>3, <1>5
<1>7. \A i, j \in D : p[i] = p[j] => i = j
  <2>1. ASSUME NEW i \in D, NEW j \in D, p[i] = p[j], i # j PROVE FALSE
    <3>1. i < j \/ j < i
      BY <1>1, <2>1
    <3>2. Precedes(entries, back, p[i], p[j]) \/ Precedes(entries, back, p[j], p[i])
      BY <1>3, <3>1
    <3>3. p[i] \in D
      BY <1>3
    <3> QED
      BY <1>0, <1>1, <2>1, <3>2, <3>3, PrecedesIsOrder
  <2> QED
    BY <2>1
<1>8. ASSUME NEW i \in D, NEW j \in D, i < j PROVE Precedes(turned, sort, r[i], r[j])
  <2>1. PICK a, b : a = entries[i] /\ b = entries[j]
    OBVIOUS
  <2>2. /\ turned[r[i]] = a /\ turned[r[j]] = b
        /\ r[i] \in D /\ r[j] \in D /\ p[r[i]] = i /\ p[r[j]] = j
    BY <1>3, <1>6, <2>1
  <2>3. IsEntry(a) /\ IsEntry(b)
    BY <1>0, <1>1, <2>1 DEF IsEntries
  <2>4. Compare(a, b, sort) < 0 \/ Compare(a, b, sort) = 0
    BY <1>1, <1>8, <2>1 DEF InOrder, Precedes
  <2>5. CASE Compare(a, b, sort) < 0
    BY <2>2, <2>5 DEF Precedes
  <2>6. CASE Compare(a, b, sort) = 0
    <3>1. Compare(b, a, back) = 0
      BY <1>0, <2>3, <2>6, FlippedIs
    <3>2. i \in Int /\ j \in Int /\ r[i] \in Int /\ r[j] \in Int
      BY <1>1, <2>2
    <3>3. r[i] # r[j]
      BY <1>8, <2>2, <3>2
    <3>4. ASSUME r[j] < r[i] PROVE FALSE
      <4>1. Precedes(entries, back, j, i)
        BY <1>3, <2>2, <3>4
      <4>2. PICK c : c = Compare(b, a, back)
        OBVIOUS
      <4>3. c < 0 \/ j < i
        BY <2>1, <4>1, <4>2 DEF Precedes
      <4> QED
        BY <1>8, <3>1, <3>2, <4>2, <4>3
    <3>5. r[i] < r[j]
      BY <3>2, <3>3, <3>4
    <3> QED
      BY <2>2, <2>6, <3>5 DEF Precedes
  <2> QED
    BY <2>4, <2>5, <2>6
<1>9. \A i \in D : r[p[i]] = i
  BY <1>3, <1>6, <1>7
<1>10. \A i \in D : \E k \in D : r[k] = i
  BY <1>3, <1>9
<1>11. \A k \in D : SortEntries(turned, sort)[k] = turned[r[k]]
  <2>1. Orders(r, turned, sort)
    BY <1>4, <1>6, <1>8, <1>10 DEF Orders
  <2> QED
    BY <1>0, <1>2, <1>4, <2>1, SortedOnly
<1>12. \A k \in D : turned[r[k]] = entries[k]
  BY <1>3, <1>6
<1>13. PICK again : again = SortEntries(turned, sort)
  OBVIOUS
<1>14. IsEntries(again) /\ Len(again) = Len(turned)
  BY <1>0, <1>2, <1>13, SortIs
<1>15. \A k \in 1 .. Len(again) : again[k] = entries[k]
  BY <1>1, <1>2, <1>11, <1>12, <1>13, <1>14
<1>16. again = entries
  BY <1>0, <1>2, <1>14, <1>15, SameText DEF IsEntries
<1> QED
  BY <1>13, <1>16

\* Of two rows of a group that are spelled differently, the later one comes first.
LEMMA TurnedOver ==
  ASSUME NEW entries, NEW sort, InOrder(entries, sort),
         NEW back \in Sorts, back.key = sort.key, back.order # sort.order,
         NEW turned, turned = SortEntries(entries, back),
         NEW i \in DOMAIN entries, NEW j \in DOMAIN entries, i < j
  PROVE  /\ entries[j].is_dir => entries[i].is_dir
         /\ /\ entries[i].is_dir = entries[j].is_dir
            /\ Spelling[entries[i].name] # Spelling[entries[j].name]
            => (CHOOSE k \in DOMAIN turned : turned[k] = entries[j])
                 < (CHOOSE k \in DOMAIN turned : turned[k] = entries[i])
<1>0. IsEntries(entries) /\ sort \in Sorts
  BY DEF InOrder
<1>d. PICK D : D = DOMAIN entries
  OBVIOUS
<1>1. PICK n \in Nat : D = DOMAIN entries /\ n = Len(entries) /\ D = 1 .. n
  BY <1>0, <1>d, TextLength DEF IsEntries
<1>2. /\ IsEntries(turned) /\ Len(turned) = Len(entries)
      /\ \E p : Orders(p, entries, back) /\ \A k \in DOMAIN entries : turned[k] = entries[p[k]]
  BY <1>0, SortIs
<1>3. PICK p :
        /\ p \in [D -> D] /\ \A k \in D : turned[k] = entries[p[k]]
        /\ \A x, y \in D : x < y => Precedes(entries, back, p[x], p[y])
        /\ \A x \in D : \E k \in D : p[k] = x
  <2>1. PICK p : Orders(p, entries, back) /\ \A k \in DOMAIN entries : turned[k] = entries[p[k]]
    BY <1>2
  <2> QED
    BY <1>d, <2>1 DEF Orders
<1>4. DOMAIN turned = D
  BY <1>1, <1>2, TextLength DEF IsEntries
<1>5. PICK a, b : a = entries[i] /\ b = entries[j]
  OBVIOUS
<1>6. IsEntry(a) /\ IsEntry(b)
  BY <1>0, <1>5 DEF IsEntries
<1>7. Compare(a, b, sort) < 0 \/ Compare(a, b, sort) = 0
  BY <1>5 DEF InOrder, Precedes
<1>8. b.is_dir => a.is_dir
  BY <1>0, <1>6, <1>7, FlippedIs
<1>9. ASSUME a.is_dir = b.is_dir, Spelling[a.name] # Spelling[b.name]
      PROVE  (CHOOSE k \in D : turned[k] = b) < (CHOOSE k \in D : turned[k] = a)
  <2>1. PICK x, y : x = (CHOOSE k \in D : turned[k] = a) /\ y = (CHOOSE k \in D : turned[k] = b)
    OBVIOUS
  <2>2. (\E k \in D : turned[k] = a) /\ (\E k \in D : turned[k] = b)
    <3>1. \A z \in D : \E k \in D : turned[k] = entries[z]
      BY <1>3
    <3> QED
      BY <1>1, <1>5, <3>1
  <2>3. x \in D /\ turned[x] = a /\ y \in D /\ turned[y] = b
    BY <2>1, <2>2
  <2>4. Compare(a, b, sort) < 0
    BY <1>0, <1>6, <1>7, <1>9, FlippedIs
  <2>5. ~(Compare(a, b, back) < 0) /\ Compare(a, b, back) # 0
    BY <1>0, <1>6, <1>9, <2>4, FlippedIs
  <2>6. x # y
    BY <1>9, <2>3
  <2>7. ASSUME x < y PROVE FALSE
    <3>1. Precedes(entries, back, p[x], p[y])
      BY <1>3, <2>3, <2>7
    <3>2. entries[p[x]] = a /\ entries[p[y]] = b
      BY <1>3, <2>3
    <3> QED
      BY <2>5, <3>1, <3>2 DEF Precedes
  <2>8. y < x
    BY <1>1, <2>3, <2>6, <2>7
  <2> QED
    BY <2>1, <2>8
<1> QED
  BY <1>4, <1>5, <1>8, <1>9

-----------------------------------------------------------------------------
(* Links that lead where they say                                          *)

\* Where the links of a listing lead.
Leads(body, resolved) ==
  /\ \A i \in DOMAIN body.rows :
       LeadsTo(body.rows[i].href, Append(resolved, body.rows[i].entry.name))
  /\ IF resolved = <<>> THEN body.parent = NoLink
     ELSE body.parent # NoLink /\ LeadsTo(body.parent, Front(resolved))
  /\ IsAsset(Read(body.style))

\* A step that leaves the configuration leaves what is reached.
LEMMA SameNames ==
  ASSUME cfg' = cfg
  PROVE  \A text : /\ Names(text)' = Names(text) /\ Routed(text)' = Routed(text)
                   /\ PassedOn(text)' = PassedOn(text) /\ IsAsset(text)' = IsAsset(text)
<1> SUFFICES ASSUME NEW text
             PROVE  /\ Names(text)' = Names(text) /\ Routed(text)' = Routed(text)
                    /\ PassedOn(text)' = PassedOn(text) /\ IsAsset(text)' = IsAsset(text)
  OBVIOUS
<1>1. Routed(text)' = Routed(text) /\ PassedOn(text)' = PassedOn(text)
  BY DEF Routed, PassedOn
<1>2. Names(text) = IF Routed(text) /\ Separated(text) /\ Coded(text)
                    THEN NamesOf(Segments(PassedOn(text))) ELSE NoPath
  BY DEF Names, Coded, NamesOf
<1>3. Names(text)' = IF Routed(text)' /\ Separated(text) /\ Coded(text)
                     THEN NamesOf(Segments(PassedOn(text)')) ELSE NoPath
  BY DEF Names, Coded, NamesOf
<1>4. IsAsset(text)' = IsAsset(text)
  BY <1>1 DEF IsAsset
<1> QED
  BY <1>1, <1>2, <1>3, <1>4

\* And so where links lead.
LEMMA SameLeads ==
  ASSUME cfg' = cfg, NEW body, NEW resolved, Leads(body, resolved)
  PROVE  Leads(body, resolved)'
<1>1. ASSUME NEW href, NEW names PROVE LeadsTo(href, names)' = LeadsTo(href, names)
  <2>1. PICK text : text = Read(href)
    OBVIOUS
  <2>2. Names(text)' = Names(text) /\ IsAsset(text)' = IsAsset(text)
    BY SameNames
  <2> QED
    BY <2>1, <2>2 DEF LeadsTo
<1>2. PICK style : style = Read(body.style)
  OBVIOUS
<1>3. IsAsset(style)'
  BY <1>2, SameNames DEF Leads
<1> QED
  BY <1>1, <1>2, <1>3 DEF Leads

\* The page of a directory has links that lead where they say.
LEMMA PageLeads ==
  ASSUME cfg \in Configs, NEW text, IsPath(text), Single(text), Read(text) = text,
         NEW resolved, resolved = Names(text), resolved # NoPath,
         NEW entries, IsEntries(entries), NEW sort, NEW body,
         body = ListingPage(text, MountPrefix(text, PassedOn(text)), entries, sort,
                            cfg.renderable, <<Sep, Plain(Css)>>)
  PROVE  Leads(body, resolved)
<1>1. Reached(text) /\ resolved = NamesOf(Segments(Rest(text))) /\ Routed(text)
  BY NamesIs DEF IsPath, Reached
<1>l. Legible(text)
  BY LegibleIs DEF IsPath
<1>2. PICK prefix : prefix = MountPrefix(text, PassedOn(text))
  OBVIOUS
<1>3. prefix = cfg.mount
  BY <1>1, <1>2, PrefixIsMount
<1>4. PICK base : base = Base(text)
  OBVIOUS
<1>5. /\ body.style = cfg.mount \o <<Sep, Plain(Css)>>
      /\ body.parent = IF base # Append(cfg.mount, Sep) THEN ParentPath(base) ELSE NoLink
      /\ DOMAIN body.rows = DOMAIN entries
      /\ \A i \in DOMAIN entries : body.rows[i] = Row(base, entries[i], cfg.renderable)
  BY <1>2, <1>3, <1>4 DEF ListingPage
<1>6. /\ IsText(base) /\ base # <<>> /\ Last(base) = Sep /\ Len(base) > Len(cfg.mount)
      /\ Single(base) /\ Reached(base) /\ Legible(base)
      /\ resolved = NamesOf(Segments(Rest(base)))
  BY <1>1, <1>l, <1>4, BaseIs
<1>7. ASSUME NEW i \in DOMAIN body.rows
      PROVE  LeadsTo(body.rows[i].href, Append(resolved, body.rows[i].entry.name))
  <2>1. PICK entry, row : entry = entries[i] /\ row = body.rows[i]
    OBVIOUS
  <2>2. entry.name \in Name /\ row = Row(base, entry, cfg.renderable) /\ row.entry = entry
    <3>1. entry.name \in Name /\ row = Row(base, entry, cfg.renderable)
      BY <1>5, <1>7, <2>1 DEF IsEntries, IsEntry
    <3>2. Row(base, entry, cfg.renderable).entry = entry
      BY DEF Row
    <3> QED
      BY <3>1, <3>2
  <2>3. LeadsTo(row.href, Append(resolved, entry.name))
    BY <1>6, <2>2, RowLeads
  <2> QED
    BY <2>1, <2>2, <2>3
<1>8. IF resolved = <<>> THEN body.parent = NoLink
      ELSE body.parent # NoLink /\ LeadsTo(body.parent, Front(resolved))
  <2>1. /\ base = Append(cfg.mount, Sep) => resolved = <<>>
        /\ base # Append(cfg.mount, Sep) =>
             /\ resolved # <<>> /\ ParentPath(base) # NoLink
             /\ LeadsTo(ParentPath(base), Front(resolved))
    BY <1>6, ParentLeads
  <2> QED
    BY <1>5, <2>1
<1>9. Legible(cfg.mount)
  <2>1. PICK m \in Nat, n \in Nat : m = Len(cfg.mount) /\ n = Len(text) /\ m <= n
    BY <1>1, MountIs, RestIs, TextLength DEF IsPath
  <2>2. \A i \in 1 .. m : text[i] = cfg.mount[i]
    BY <1>1, <2>1, RestIs DEF IsPath
  <2>3. \A i \in 1 .. m : i \in 1 .. n
    BY <2>1
  <2> QED
    BY <1>l, <2>1, <2>2, <2>3 DEF Legible
<1>10. IsAsset(Read(body.style))
  BY <1>5, <1>9, StyleLeads
<1> QED
  BY <1>7, <1>8, <1>10 DEF Leads

\* What an entry is found to be.
LEMMA StatIs ==
  ASSUME TypeOK, \A p \in Path : fs[p].is = "file" => fs[p].content \in Content,
         NEW name \in Name, NEW path, NEW entry, entry = Stat(name, At(path))
  PROVE  IsEntry(entry)
<1>1. PICK node : node = At(path)
  OBVIOUS
<1>2. node.modified \in Int /\ (node.is = "file" => node.content \in Content)
  <2>1. CASE path \in Path
    <3>1. fs[path] \in [is : {"absent", "dir", "file"},
                        content : Content \cup {NoContent}, modified : 0 .. MaxEdits]
      BY <2>1 DEF TypeOK
    <3>2. 0 .. MaxEdits \subseteq Int
      BY TreeAssumption
    <3> QED
      BY <1>1, <2>1, <3>1, <3>2 DEF At
  <2>2. CASE path \notin Path
    BY <1>1, <2>2 DEF At, Absent
  <2> QED
    BY <2>1, <2>2
<1>3. /\ entry.name = name /\ entry.is_dir = (node.is = "dir")
      /\ entry.len = IF node.is = "file" THEN Size[node.content] ELSE None
      /\ entry.modified = IF node.is = "absent" THEN None ELSE node.modified
  BY <1>1 DEF Stat
<1>4. entry.len \in Int
  <2>1. CASE node.is = "file"
    <3>1. Size[node.content] \in Nat
      BY <1>2, <2>1, PathAssumption
    <3> QED
      BY <1>3, <2>1, <3>1
  <2>2. CASE node.is # "file"
    BY <1>3, <2>2 DEF None
  <2> QED
    BY <2>1, <2>2
<1>5. entry.modified \in Int
  BY <1>2, <1>3 DEF None
<1>6. entry.is_dir \in BOOLEAN
  <2>1. (node.is = "dir") \in BOOLEAN
    OBVIOUS
  <2> QED
    BY <1>3, <2>1
<1> QED
  BY <1>3, <1>4, <1>5, <1>6 DEF IsEntry

\* The rows that a page shows, and what is said of it.
EntriesOf(body) == [i \in DOMAIN body.rows |-> body.rows[i].entry]
Leading(body, text, resolved) == /\ Single(text) /\ Read(text) = text => Leads(body, resolved)
                                 /\ InOrder(EntriesOf(body), body.sort)

\* The page that List makes of what was read leads where it says.
LEMMA ListIsLeading ==
  ASSUME cfg \in Configs, NEW text, IsPath(text),
         NEW resolved, resolved = Names(text), resolved # NoPath,
         NEW entries, IsEntries(entries), NEW sort \in Sorts, NEW body,
         body = ListingPage(text, MountPrefix(text, PassedOn(text)),
                            SortEntries(entries, sort), sort, cfg.renderable, <<Sep, Plain(Css)>>)
  PROVE  Leading(body, text, resolved)
<1>1. PICK sorted : sorted = SortEntries(entries, sort)
  OBVIOUS
<1>2. InOrder(sorted, sort) /\ IsEntries(sorted)
  BY <1>1, SortedIsInOrder DEF InOrder
<1>3. Single(text) /\ Read(text) = text => Leads(body, resolved)
  BY <1>1, <1>2, PageLeads
<1>4. body.sort = sort /\ DOMAIN body.rows = DOMAIN sorted
      /\ \A i \in DOMAIN sorted : body.rows[i].entry = sorted[i]
  BY <1>1 DEF ListingPage, Row
<1>5. EntriesOf(body) = sorted
  <2>1. PICK n \in Nat : DOMAIN sorted = 1 .. n
    BY <1>2, TextLength DEF IsEntries
  <2>2. EntriesOf(body) = [i \in DOMAIN sorted |-> sorted[i]]
    BY <1>4 DEF EntriesOf
  <2>3. PICK A : sorted \in Seq(A)
    BY <1>2 DEF IsEntries, IsText
  <2>4. sorted = [i \in DOMAIN sorted |-> sorted[i]]
    BY <2>3
  <2> QED
    BY <2>2, <2>4
<1> QED
  BY <1>2, <1>3, <1>4, <1>5 DEF Leading

\* Between the handlers the request holds what its page will show.
ConnLeads ==
  conn.stage # "idle" =>
    /\ conn.resolved \in {NoPath, Names(conn.text)}
    /\ conn.stage = "list" => conn.resolved # NoPath
    /\ IsEntries(conn.entries)
    /\ conn.body.kind = "listing" =>
         conn.stage = "send" /\ Leading(conn.body, conn.text, conn.resolved)

Led == /\ \A p \in Path : fs[p].is = "file" => fs[p].content \in Content
       /\ ConnLeads
       /\ shown.body.kind = "listing" => Leading(shown.body, shown.text, shown.resolved)

\* A page goes on leading there, as long as the configuration is the same.
LEMMA SameLeading ==
  ASSUME cfg' = cfg, NEW body, NEW text, NEW resolved, Leading(body, text, resolved)
  PROVE  Leading(body, text, resolved)'
BY SameLeads DEF Leading

\* What a handler's move leaves or puts in place.
Moved ==
  /\ conn.stage # "idle" /\ cfg' = cfg /\ fs' = fs /\ shown' = shown
  /\ conn'.text = conn.text
  /\ \/ conn'.resolved = conn.resolved
     \/ conn.stage = "run" /\ conn'.resolved = Names(conn.text)
  /\ conn'.stage = "list" => conn'.resolved # NoPath
  /\ \/ conn'.entries \in {conn.entries, <<>>}
     \/ \E name \in Name : \E path :
          conn'.entries = Append(conn.entries, Stat(name, At(path)))
  /\ \/ conn'.body = conn.body /\ (conn'.stage = "send" \/ conn.stage # "send")
     \/ conn'.body.kind # "listing"
     \/ /\ conn.stage = "list" /\ conn'.stage = "send" /\ conn'.resolved = conn.resolved
        /\ \E sort \in Sorts :
             conn'.body = ListingPage(conn.text, MountPrefix(conn.text, PassedOn(conn.text)),
                                      SortEntries(conn.entries, sort), sort,
                                      cfg.renderable, <<Sep, Plain(Css)>>)

LEMMA NoEntries == IsEntries(<<>>)
<1>1. PICK none : none = <<>>
  OBVIOUS
<1>2. IsText(none) /\ Len(none) = 0
  BY <1>1, OnePiece
<1>3. \A i \in DOMAIN none : FALSE
  BY <1>2, TextLength
<1> QED
  BY <1>1, <1>2, <1>3 DEF IsEntries

\* Whatever a handler moves, the links go on leading.
LEMMA MovedKeeps ==
  ASSUME TypeOK, Linked, Led, Moved
  PROVE  Led'
<1>1. /\ cfg \in Configs /\ cfg' = cfg /\ fs' = fs /\ shown' = shown /\ conn.stage # "idle"
      /\ conn'.text = conn.text /\ IsPath(conn.text)
  BY DEF TypeOK, Moved, Linked
<1>2. /\ conn.resolved \in {NoPath, Names(conn.text)}
      /\ conn.stage = "list" => conn.resolved # NoPath
      /\ IsEntries(conn.entries)
      /\ conn.body.kind = "listing" =>
           conn.stage = "send" /\ Leading(conn.body, conn.text, conn.resolved)
  BY <1>1 DEF Led, ConnLeads
<1>3. PICK text, resolved, entries, body :
        text = conn'.text /\ resolved = conn'.resolved /\ entries = conn'.entries /\ body = conn'.body
  OBVIOUS
<1>4. resolved \in {NoPath, Names(text)}
  BY <1>1, <1>2, <1>3 DEF Moved
<1>5. IsEntries(entries)
  <2>1. CASE entries = conn.entries \/ entries = <<>>
    BY <1>2, <2>1, NoEntries
  <2>2. ASSUME NEW name \in Name, NEW path, entries = Append(conn.entries, Stat(name, At(path)))
        PROVE  IsEntries(entries)
    <3>1. PICK before, entry : before = conn.entries /\ entry = Stat(name, At(path))
      OBVIOUS
    <3>2. IsEntry(entry)
      BY <3>1, StatIs DEF Led
    <3>3. IsText(before) /\ \A i \in DOMAIN before : IsEntry(before[i])
      BY <1>2, <3>1 DEF IsEntries
    <3>4. PICK n \in Nat : n = Len(before) /\ DOMAIN before = 1 .. n
      BY <3>3, TextLength
    <3>5. /\ IsText(entries) /\ Len(entries) = n + 1 /\ entries[n + 1] = entry
          /\ \A i \in 1 .. n : entries[i] = before[i]
      BY <2>2, <3>1, <3>3, <3>4, AppendedText
    <3>6. DOMAIN entries = 1 .. n + 1
      BY <3>5, TextLength
    <3>7. ASSUME NEW i \in 1 .. n + 1 PROVE IsEntry(entries[i])
      <4>1. CASE i = n + 1
        BY <3>2, <3>5, <4>1
      <4>2. CASE i # n + 1
        <5>1. i \in 1 .. n
          BY <4>2
        <5> QED
          BY <3>3, <3>4, <3>5, <5>1
      <4> QED
        BY <4>1, <4>2
    <3> QED
      BY <3>5, <3>6, <3>7 DEF IsEntries
  <2> QED
    BY <1>3, <2>1, <2>2 DEF Moved
<1>6. body.kind = "listing" => conn'.stage = "send" /\ Leading(body, text, resolved)
  <2> SUFFICES ASSUME body.kind = "listing"
               PROVE  conn'.stage = "send" /\ Leading(body, text, resolved)
    OBVIOUS
  <2>1. CASE body = conn.body /\ (conn'.stage = "send" \/ conn.stage # "send")
    <3>1. conn.stage = "send" /\ Leading(conn.body, conn.text, conn.resolved)
      BY <1>2, <2>1
    <3>2. resolved = conn.resolved /\ conn'.stage = "send"
      BY <1>3, <2>1, <3>1 DEF Moved
    <3> QED
      BY <1>1, <1>3, <2>1, <3>1, <3>2
  <2>2. ASSUME conn.stage = "list", conn'.stage = "send", resolved = conn.resolved,
               NEW sort \in Sorts,
               body = ListingPage(conn.text, MountPrefix(conn.text, PassedOn(conn.text)),
                                  SortEntries(conn.entries, sort), sort,
                                  cfg.renderable, <<Sep, Plain(Css)>>)
        PROVE  Leading(body, text, resolved)
    <3>1. PICK read : read = conn.entries
      OBVIOUS
    <3>2. resolved # NoPath /\ resolved = Names(text) /\ text = conn.text /\ IsEntries(read)
      BY <1>1, <1>2, <1>3, <2>2, <3>1
    <3>3. body = ListingPage(text, MountPrefix(text, PassedOn(text)), SortEntries(read, sort),
                             sort, cfg.renderable, <<Sep, Plain(Css)>>)
      BY <2>2, <3>1, <3>2
    <3>4. IsPath(text)
      BY <1>1, <3>2
    <3> QED
      BY <1>1, <3>2, <3>3, <3>4, ListIsLeading
  <2> QED
    BY <1>3, <2>1, <2>2 DEF Moved
<1>7. resolved \in {NoPath, Names(text)'}
  BY <1>1, <1>4, SameNames
<1>8. body.kind = "listing" => Leading(body, text, resolved)'
  BY <1>1, <1>6, SameLeading
<1>9. conn'.stage = "list" => resolved # NoPath
  BY <1>3 DEF Moved
<1>10. ConnLeads'
  BY <1>3, <1>5, <1>6, <1>7, <1>8, <1>9 DEF ConnLeads
<1>11. (shown.body.kind = "listing" => Leading(shown.body, shown.text, shown.resolved))'
  <2>1. PICK page : page = shown
    OBVIOUS
  <2>2. page.body.kind = "listing" => Leading(page.body, page.text, page.resolved)'
    BY <1>1, <2>1, SameLeading DEF Led
  <2> QED
    BY <1>1, <2>1, <2>2
<1> QED
  BY <1>1, <1>10, <1>11 DEF Led

\* A handler that lets pass or answers with anything but a page.
LEMMA PassMoves ==
  ASSUME ConnType, conn.stage # "idle", conn.stage # "send", cfg' = cfg, fs' = fs, shown' = shown
  PROVE  /\ Pass /\ conn.stage = "run" => Moved
         /\ \A status, body, etag, source :
              Halt(status, body, etag, source) /\ body.kind # "listing" => Moved
<1>1. ASSUME Pass, conn.stage = "run" PROVE Moved
  <2>1. /\ conn'.stage = "run" /\ conn'.text = conn.text /\ conn'.resolved = conn.resolved
        /\ conn'.entries = conn.entries /\ conn'.body = conn.body
    BY <1>1 DEF ConnType, Fields, Pass
  <2> QED
    BY <1>1, <2>1 DEF Moved
<1>2. ASSUME NEW status, NEW body, NEW etag, NEW source, Halt(status, body, etag, source),
             body.kind # "listing"
      PROVE  Moved
  <2>1. /\ conn'.stage = "send" /\ conn'.text = conn.text /\ conn'.resolved = conn.resolved
        /\ conn'.entries = conn.entries /\ conn'.body = body
    BY <1>2 DEF ConnType, Fields, Halt
  <2> QED
    BY <1>2, <2>1 DEF Moved
<1> QED
  BY <1>1, <1>2

\* The moves of the handlers are these.
LEMMA HandlersMove ==
  ASSUME ConnType, Led,
         \/ RunNoRoute \/ RunAssets \/ RunForward \/ RunProxy \/ RunRedirect
         \/ RunFiles \/ RunRender \/ RunListing
         \/ \E name \in Name : ReadEntry(name)
         \/ ReadFails \/ List \/ RunOut
  PROVE  Moved
<1>a. (\A content : Raw(content).kind = "raw") /\ NoBody.kind = "none" /\ [kind |-> "part"].kind = "part"
  BY DEF Raw, NoBody
<1>1. CASE RunNoRoute \/ RunOut
  <2>1. /\ conn.stage = "run" /\ conn' = [conn EXCEPT !.stage = "send"]
        /\ cfg' = cfg /\ fs' = fs /\ shown' = shown
    BY <1>1 DEF RunNoRoute, RunOut
  <2>2. /\ conn'.stage = "send" /\ conn'.text = conn.text /\ conn'.resolved = conn.resolved
        /\ conn'.entries = conn.entries /\ conn'.body = conn.body
    BY <2>1 DEF ConnType, Fields
  <2> QED
    BY <2>1, <2>2 DEF Moved
<1>2. CASE RunAssets \/ RunForward \/ RunProxy \/ RunRedirect \/ RunRender
  <2>1. conn.stage = "run" /\ cfg' = cfg /\ fs' = fs /\ shown' = shown
    BY <1>2 DEF RunAssets, RunForward, RunProxy, RunRedirect, RunRender, Runs
  <2>2. \/ Pass
        \/ Halt(200, Raw(CssContent), CssContent, CssContent)
        \/ Halt(404, NoBody, NoContent, NoContent)
        \/ Halt(302, NoBody, NoContent, NoContent)
        \/ \E content \in Utf8 : Halt(200, Raw(content), content, content)
    BY <1>2 DEF RunAssets, RunForward, RunProxy, RunRedirect, RunRender
  <2> QED
    BY <1>a, <2>1, <2>2, PassMoves
<1>3. CASE RunFiles
  <2>1. conn.stage = "run" /\ cfg' = cfg /\ fs' = fs /\ shown' = shown
    BY <1>3 DEF RunFiles, Runs
  <2>2. \/ \E content : SendFile(content)
        \/ conn' = [conn EXCEPT !.at = @ + 1, !.resolved = Names(conn.text)]
        \/ Pass
    BY <1>3 DEF RunFiles
  <2>3. ASSUME conn' = [conn EXCEPT !.at = @ + 1, !.resolved = Names(conn.text)]
        PROVE  Moved
    <3>1. PICK names : names = Names(conn.text)
      OBVIOUS
    <3>2. /\ conn'.stage = "run" /\ conn'.text = conn.text /\ conn'.resolved = names
          /\ conn'.entries = conn.entries /\ conn'.body = conn.body
      BY <2>1, <2>3, <3>1 DEF ConnType, Fields
    <3> QED
      BY <2>1, <3>1, <3>2 DEF Moved
  <2>4. ASSUME NEW content, SendFile(content)
        PROVE  \/ Halt(200, Raw(content), content, content)
               \/ Halt(206, [kind |-> "part"], content, content)
               \/ Halt(304, NoBody, content, content)
    BY <2>4 DEF SendFile
  <2> QED
    BY <1>a, <2>1, <2>2, <2>3, <2>4, PassMoves
<1>4. CASE RunListing
  <2>1. conn.stage = "run" /\ cfg' = cfg /\ fs' = fs /\ shown' = shown
    BY <1>4 DEF RunListing, Runs
  <2>2. \/ /\ conn.resolved # NoPath
           /\ conn' = [conn EXCEPT !.stage = "list", !.at = @ + 1,
                                   !.todo = Children(conn.resolved)]
        \/ Pass
    BY <1>4 DEF RunListing
  <2>3. ASSUME conn.resolved # NoPath,
               conn' = [conn EXCEPT !.stage = "list", !.at = @ + 1,
                                    !.todo = Children(conn.resolved)]
        PROVE  Moved
    <3>1. /\ conn'.stage = "list" /\ conn'.text = conn.text /\ conn'.resolved = conn.resolved
          /\ conn'.entries = conn.entries /\ conn'.body = conn.body
      BY <2>1, <2>3 DEF ConnType, Fields
    <3> QED
      BY <2>1, <2>3, <3>1 DEF Moved
  <2> QED
    BY <2>1, <2>2, <2>3, PassMoves
<1>5. CASE \E name \in Name : ReadEntry(name)
  <2>1. PICK name \in Name : ReadEntry(name)
    BY <1>5
  <2>2. PICK path : path = Append(conn.resolved, name)
    OBVIOUS
  <2>3. PICK entries : entries = Append(conn.entries, Stat(name, At(path)))
    OBVIOUS
  <2>4. /\ conn.stage = "list" /\ cfg' = cfg /\ fs' = fs /\ shown' = shown
        /\ conn' = [conn EXCEPT !.todo = @ \ {name}, !.entries = entries]
    BY <2>1, <2>2, <2>3 DEF ReadEntry
  <2>5. /\ conn'.stage = "list" /\ conn'.text = conn.text /\ conn'.resolved = conn.resolved
        /\ conn'.entries = entries /\ conn'.body = conn.body
    BY <2>4 DEF ConnType, Fields
  <2>6. conn.resolved # NoPath
    BY <2>4 DEF Led, ConnLeads
  <2> QED
    BY <2>3, <2>4, <2>5, <2>6 DEF Moved
<1>7. CASE ReadFails
  <2>1. /\ conn.stage = "list" /\ cfg' = cfg /\ fs' = fs /\ shown' = shown
        /\ conn' = [conn EXCEPT !.stage = "run", !.todo = {}, !.entries = <<>>]
    BY <1>7 DEF ReadFails
  <2>2. /\ conn'.stage = "run" /\ conn'.text = conn.text /\ conn'.resolved = conn.resolved
        /\ conn'.entries = <<>> /\ conn'.body = conn.body
    BY <2>1 DEF ConnType, Fields
  <2> QED
    BY <2>1, <2>2 DEF Moved
<1>6. CASE List
  <2>1. PICK sort : sort = FromQuery(conn.query)
    OBVIOUS
  <2>2. PICK page : page = ListingPage(conn.text, MountPrefix(conn.text, PassedOn(conn.text)),
                                       SortEntries(conn.entries, sort), sort,
                                       cfg.renderable, <<Sep, Plain(Css)>>)
    OBVIOUS
  <2>3. /\ conn.stage = "list" /\ cfg' = cfg /\ fs' = fs /\ shown' = shown
        /\ Halt(200, page, NoContent, NoContent)
    BY <1>6, <2>1, <2>2 DEF List
  <2>4. /\ conn'.stage = "send" /\ conn'.text = conn.text /\ conn'.resolved = conn.resolved
        /\ conn'.entries = conn.entries /\ conn'.body = page
    BY <2>3 DEF ConnType, Fields, Halt
  <2>5. sort \in Sorts
    BY <2>1, QueryIsSort
  <2> QED
    BY <2>2, <2>3, <2>4, <2>5 DEF Moved
<1> QED
  BY <1>1, <1>2, <1>3, <1>4, <1>5, <1>6, <1>7

\* What the request and the page hold does not depend on the directory.
LEMMA StaysLed ==
  ASSUME Led, cfg' = cfg, conn' = conn, shown' = shown,
         \A p \in Path : fs'[p].is = "file" => fs'[p].content \in Content
  PROVE  Led'
<1>1. PICK request, page : request = conn /\ page = shown
  OBVIOUS
<1>2. request.stage # "idle" =>
        /\ request.resolved \in {NoPath, Names(request.text)}
        /\ request.stage = "list" => request.resolved # NoPath
        /\ IsEntries(request.entries)
        /\ request.body.kind = "listing" =>
             request.stage = "send" /\ Leading(request.body, request.text, request.resolved)
  BY <1>1 DEF Led, ConnLeads
<1>3. request.stage # "idle" =>
        /\ request.resolved \in {NoPath, Names(request.text)'}
        /\ request.body.kind = "listing" =>
             Leading(request.body, request.text, request.resolved)'
  BY <1>2, SameNames, SameLeading
<1>4. ConnLeads'
  BY <1>1, <1>2, <1>3 DEF ConnLeads
<1>5. page.body.kind = "listing" => Leading(page.body, page.text, page.resolved)'
  BY <1>1, SameLeading DEF Led
<1> QED
  BY <1>1, <1>4, <1>5 DEF Led

\* A change of the directory moves no link.
LEMMA EditLed ==
  ASSUME Led, NEW path, NEW node \in Nodes, Edit(path, node)
  PROVE  Led'
<1>1. conn' = conn /\ shown' = shown /\ cfg' = cfg
  BY DEF Edit
<1>2. ASSUME NEW p \in Path, fs'[p].is = "file" PROVE fs'[p].content \in Content
  <2>1. fs'[p] = IF p = path THEN [node EXCEPT !.modified = edits + 1]
                 ELSE IF IsStrictPrefix(path, p) THEN Absent ELSE fs[p]
    BY DEF Edit
  <2>2. CASE p = path
    BY <1>2, <2>1, <2>2 DEF Nodes, Absent, Dir, File
  <2>3. CASE p # path
    BY <1>2, <2>1, <2>3 DEF Led, Absent
  <2> QED
    BY <2>2, <2>3
<1> QED
  BY <1>1, <1>2, StaysLed

\* The browser shows the page that the request held.
LEMMA SendLed ==
  ASSUME Led, Send
  PROVE  Led'
<1>1. PICK before : before = [status |-> IF conn.status = 0 THEN 404 ELSE conn.status,
                              body |-> conn.body, etag |-> conn.etag]
  OBVIOUS
<1>0. PICK sent \in BeforeSend(before) :
        /\ shown'.body = sent.body /\ shown'.text = conn.text
        /\ shown'.resolved = conn.resolved
  BY <1>1 DEF Send
<1>2. PICK answer \in RenderSends(before) :
        sent.body = answer.body \/ sent.body = NoBody
  BY <1>1, Sent
<1>3. conn.stage = "send" /\ conn' = Idle /\ cfg' = cfg /\ fs' = fs
  BY DEF Send
<1>4. answer.body = conn.body \/ answer.body.kind # "listing"
  <2>1. CASE answer = before
    BY <1>1, <2>1
  <2>2. CASE answer = Unreadable(before)
    BY <2>2 DEF Unreadable, NoBody
  <2>3. CASE \E format, path, content : answer = Rendered(before, format, path, content)
    <3>1. PICK format, path, content : answer = Rendered(before, format, path, content)
      BY <2>3
    <3>2. PICK body :
            body = IF format = "json" THEN RenderJson(content) ELSE RenderHtml(path, content)
      OBVIOUS
    <3>3. answer.body = body
      BY <1>1, <3>1, <3>2 DEF Rendered, Finalize
    <3>4. body.kind \in {"json", "raw", "page"}
      BY <3>2 DEF RenderJson, RenderHtml, Raw, Page
    <3> QED
      BY <3>3, <3>4
  <2> QED
    BY <1>2, <2>1, <2>2, <2>3 DEF RenderSends
<1>5. PICK body, text, resolved :
        body = shown'.body /\ text = shown'.text /\ resolved = shown'.resolved
  OBVIOUS
<1>6. body.kind = "listing" => Leading(body, text, resolved)
  BY <1>0, <1>2, <1>3, <1>4, <1>5 DEF Led, ConnLeads, NoBody
<1>7. body.kind = "listing" => Leading(body, text, resolved)'
  BY <1>3, <1>6, SameLeading
<1>8. ConnLeads'
  BY <1>3 DEF ConnLeads, Idle
<1> QED
  BY <1>3, <1>5, <1>7, <1>8 DEF Led

\* A new request holds nothing yet.
LEMMA RequestLed ==
  ASSUME Led, NEW link, NEW kind, Request(link, kind)
  PROVE  Led'
<1>1. /\ conn'.resolved = NoPath /\ conn'.stage = "run" /\ conn'.entries = <<>>
      /\ conn'.body = NoBody /\ shown' = Blank /\ fs' = fs
  BY DEF Request
<1> QED
  BY <1>1, NoEntries DEF Led, ConnLeads, NoBody, Blank

LEMMA InitLed == Init => Led
<1> SUFFICES ASSUME Init PROVE Led
  OBVIOUS
<1>1. conn.stage = "idle" /\ shown.body.kind = "none"
  BY DEF Init, Idle, Blank, NoBody
<1>2. ASSUME NEW p \in Path, fs[p].is = "file" PROVE fs[p].content \in Content
  <2>1. fs[p] \in Nodes
    BY TreeAssumption DEF Init
  <2> QED
    BY <1>2, <2>1 DEF Nodes, Absent, Dir, File
<1> QED
  BY <1>1, <1>2 DEF Led, ConnLeads

\* No step leads a link astray.
LEMMA StepLed == TypeOK /\ ConnType /\ Linked /\ Led /\ [Next]_vars => Led'
<1> SUFFICES ASSUME TypeOK, ConnType, Linked, Led, [Next]_vars
             PROVE  Led'
  OBVIOUS
<1>1. CASE \E link, kind : Request(link, kind)
  BY <1>1, RequestLed
<1>2. CASE \E path \in Path, node \in Nodes : Edit(path, node)
  BY <1>2, EditLed
<1>3. CASE Send
  BY <1>3, SendLed
<1>4. CASE \/ RunNoRoute \/ RunAssets \/ RunForward \/ RunProxy \/ RunRedirect
           \/ RunFiles \/ RunRender \/ RunListing
           \/ \E name \in Name : ReadEntry(name)
           \/ ReadFails \/ List \/ RunOut
  BY <1>4, HandlersMove, MovedKeeps
<1>5. CASE UNCHANGED vars
  <2>1. cfg' = cfg /\ conn' = conn /\ shown' = shown /\ fs' = fs
    BY <1>5 DEF vars
  <2>2. \A p \in Path : fs'[p].is = "file" => fs'[p].content \in Content
    BY <2>1 DEF Led
  <2> QED
    BY <2>1, <2>2, StaysLed
<1> QED
  BY <1>1, <1>2, <1>3, <1>4, <1>5 DEF Next

\* A click turns a page's rows over, a second one turns them back.
LEMMA LedTurnsOver == Led => ClickTurnsOver
<1> SUFFICES ASSUME Led, shown.body.kind = "listing"
             PROVE  ClickTurnsOver
  BY DEF ClickTurnsOver
<1> DEFINE sort == shown.body.sort
           entries == [i \in DOMAIN shown.body.rows |-> shown.body.rows[i].entry]
           clicked == FromQuery(HeaderCell(sort.key, sort))
           turned == SortEntries(entries, clicked)
           PlaceIn(seq, entry) == CHOOSE i \in DOMAIN seq : seq[i] = entry
<1>1. InOrder(entries, sort)
  BY DEF Led, Leading, EntriesOf
<1>2. /\ clicked \in Sorts /\ clicked.key = sort.key /\ clicked.order # sort.order
      /\ FromQuery(HeaderCell(clicked.key, clicked)) = sort
  <2> HIDE DEF sort, entries
  <2> QED
    BY <1>1, HeaderAsks, HeaderAsksTwice DEF InOrder
<1>3. SortEntries(turned, FromQuery(HeaderCell(clicked.key, clicked))) = entries
  <2> HIDE DEF sort, entries, clicked
  <2> QED
    BY <1>1, <1>2, TurnedBack
<1>4. ASSUME NEW i \in DOMAIN entries, NEW j \in DOMAIN entries, i < j
      PROVE  /\ entries[j].is_dir => entries[i].is_dir
             /\ /\ entries[i].is_dir = entries[j].is_dir
                /\ Spelling[entries[i].name] # Spelling[entries[j].name]
                => PlaceIn(turned, entries[j]) < PlaceIn(turned, entries[i])
  <2> HIDE DEF sort, entries, clicked
  <2> QED
    BY <1>1, <1>2, <1>4, TurnedOver
<1>5. /\ SortEntries(turned, FromQuery(HeaderCell(clicked.key, clicked))) = entries
      /\ \A i, j \in DOMAIN entries : i < j =>
           /\ entries[j].is_dir => entries[i].is_dir
           /\ /\ entries[i].is_dir = entries[j].is_dir
              /\ Spelling[entries[i].name] # Spelling[entries[j].name]
              => PlaceIn(turned, entries[j]) < PlaceIn(turned, entries[i])
  <2> HIDE DEF sort, entries, clicked, turned, PlaceIn
  <2> QED
    BY <1>3, <1>4
<1> QED
  BY <1>5 DEF ClickTurnsOver

\* The invariant of a listing's links and order.
Listed == TypeOK /\ IInv /\ Holds /\ Linked /\ RenderLinkRenders /\ Led

\* The conjuncts hold together.
LEMMA ListedInvariant == Spec => []Listed
<1>1. Init => Listed
  BY InitTypes, InitFits, InitHolds, InitLinked, InitLed DEF Listed
<1>2. Listed /\ [Next]_vars => Listed'
  BY StepTypes, StepFits, StepHolds, StepLinked, StepLed DEF Listed, IInv
<1> QED
  BY <1>1, <1>2, PTL DEF Spec

\* Whatever directory is listed, however deep, with or without a slash at the end of
\* its path, below whatever mount, whatever has changed since the request came, and
\* however much of its path was encoded (but for doubled slashes, and for an '&' that is
\* not): the rows lead to their entries, the parent link one directory up, the top has
\* none, and the stylesheet is found.  Only an entry with the assets' own path has them
\* in front of it (render, mount_prefix and parent_path in src/directory_listing.rs,
\* the handler in src/assets.rs).
THEOREM LinksAlwaysLead == Spec => []LinksLead
<1>1. Listed => LinksLead
  BY DEF Listed, Led, Leading, Leads, LinksLead, NoLink
<1> QED
  BY <1>1, ListedInvariant, PTL

\* Whatever entries a page shows and whatever it is sorted by: a click on the header of
\* its column turns each group over, a second one brings the page back, and directories
\* stay in front (sort_entries and header_cell in src/directory_listing.rs).
THEOREM ClicksTurnOver == Spec => []ClickTurnsOver
<1>1. Listed => ClickTurnsOver
  BY LedTurnsOver DEF Listed
<1> QED
  BY <1>1, ListedInvariant, PTL
=============================================================================
