-------------------------- MODULE WatchScopeProofs --------------------------
(***************************************************************************)
(* Proofs about WatchScope, for any workspace, command line and files: the *)
(* walk finds the least closed set, what is ignored stays quiet, and every *)
(* other edit of what matters starts a build.                              *)
(***************************************************************************)
EXTENDS WatchScope, SequenceTheorems, WellFoundedInduction, TLAPS

\* Induction: a set with 0 in it, and with each number its successor, has them all.
LEMMA Induction ==
  ASSUME NEW T, 0 \in T, \A n \in Nat : n \in T => n + 1 \in T
  PROVE  \A n \in Nat : n \in T
<1> DEFINE R == {ss \in Nat \X Nat : ss[1] < ss[2]}
           Out == Nat \ T
<1> SUFFICES ASSUME Out # {} PROVE FALSE
  OBVIOUS
<1>1. IsWellFoundedOn(R, Nat)
  BY NatLessThanWellFounded DEF OpToRel
<1>2. PICK x \in Out : \A y \in Out : ~ (<<y, x>> \in R)
  <2>1. Out \subseteq Nat
    OBVIOUS
  <2> HIDE DEF R, Out
  <2> QED
    BY <1>1, <2>1, WFMin
<1>3. x \in Nat /\ x # 0 /\ x - 1 \in Nat
  OBVIOUS
<1>4. x - 1 \in Out
  <2>1. x - 1 \in T => (x - 1) + 1 \in T
    BY <1>3
  <2>2. (x - 1) + 1 = x
    BY <1>3
  <2> QED
    BY <1>3, <2>1, <2>2
<1>5. <<x - 1, x>> \in R
  BY <1>3
<1> QED
  BY <1>2, <1>4, <1>5

\* The maximum of a set with a largest number in it.
LEMMA MaxOfTop ==
  ASSUME NEW m \in Nat, NEW s \in SUBSET (1..m), m \in s
  PROVE  Max(s) = m
<1>1. \A y \in s : m >= y
  OBVIOUS
<1>2. Max(s) \in s /\ \A y \in s : Max(s) >= y
  BY <1>1 DEF Max
<1> DEFINE top == Max(s)
<1>3. top \in 1..m /\ top >= m
  BY <1>2
<1>4. top = m
  <2> HIDE DEF top
  <2> QED
    BY <1>3
<1> QED
  BY <1>4

\* Every set of numbers up to n but the empty one has its maximum in it.
LEMMA MaxIsIn ==
  ASSUME NEW n \in Nat, NEW s \in SUBSET (1..n), s # {}
  PROVE  Max(s) \in s
<1> DEFINE T == {m \in Nat : \A t \in SUBSET (1..m) :
                              t # {} => \E x \in t : \A y \in t : x >= y}
<1>1. 0 \in T
  <2>1. 1..0 = {}
    OBVIOUS
  <2> QED
    BY <2>1
<1>2. ASSUME NEW m \in Nat, m \in T PROVE m + 1 \in T
  <2> SUFFICES ASSUME NEW t \in SUBSET (1..m+1), t # {}
               PROVE  \E x \in t : \A y \in t : x >= y
    OBVIOUS
  <2>1. CASE m + 1 \in t
    <3>1. \A y \in t : m + 1 >= y
      OBVIOUS
    <3> QED
      BY <2>1, <3>1
  <2>2. CASE m + 1 \notin t
    <3>1. \A x \in t : x \in 1..m
      BY <2>2
    <3>2. t \in SUBSET (1..m)
      BY <3>1
    <3> QED
      BY <1>2, <3>2
  <2> QED
    BY <2>1, <2>2
<1>3. n \in T
  <2> HIDE DEF T
  <2> QED
    BY <1>1, <1>2, Induction
<1>4. \E x \in s : \A y \in s : x >= y
  BY <1>3
<1> QED
  BY <1>4 DEF Max

\* What a fold by a step that keeps to a set computes on sets of indices.
IsFold(g, A, base, step, m) ==
  /\ g \in [SUBSET (1..m) -> A]
  /\ \A s \in SUBSET (1..m) :
       g[s] = IF s = {} THEN base ELSE step[<<g[s \ {Max(s)}], Max(s)>>]

\* A fold over m elements goes on to one more.
LEMMA FoldGrows ==
  ASSUME NEW A, NEW base \in A, NEW n \in Nat, NEW step \in [A \X (1..n) -> A],
         NEW m \in Nat, m < n, NEW g, IsFold(g, A, base, step, m)
  PROVE  \E h : IsFold(h, A, base, step, m + 1)
<1> DEFINE h == [s \in SUBSET (1..m+1) |-> IF m + 1 \in s THEN step[<<g[s \ {m + 1}], m + 1>>]
                                           ELSE g[s]]
<1>1. ASSUME NEW s \in SUBSET (1..m+1), m + 1 \in s
      PROVE  /\ s \ {m + 1} \in SUBSET (1..m) /\ Max(s) = m + 1
             /\ h[s] \in A /\ h[s] = step[<<h[s \ {Max(s)}], Max(s)>>]
  <2>1. s \ {m + 1} \in SUBSET (1..m) /\ s \ {m + 1} \in SUBSET (1..m+1)
    BY <1>1
  <2>2. Max(s) = m + 1
    BY <1>1, MaxOfTop
  <2>3. g[s \ {m + 1}] \in A /\ m + 1 \in 1..n
    BY <2>1 DEF IsFold
  <2>4. h[s \ {m + 1}] = g[s \ {m + 1}]
    BY <2>1
  <2>5. h[s] = step[<<g[s \ {m + 1}], m + 1>>]
    BY <1>1
  <2> QED
    BY <2>1, <2>2, <2>3, <2>4, <2>5
<1>2. ASSUME NEW s \in SUBSET (1..m+1), m + 1 \notin s
      PROVE  /\ h[s] \in A
             /\ h[s] = IF s = {} THEN base ELSE step[<<h[s \ {Max(s)}], Max(s)>>]
  <2>1. s \in SUBSET (1..m) /\ s \ {Max(s)} \in SUBSET (1..m)
    <3>1. \A x \in s : x \in 1..m
      BY <1>2
    <3> QED
      BY <3>1
  <2>2. h[s] = g[s] /\ h[s \ {Max(s)}] = g[s \ {Max(s)}]
    BY <1>2, <2>1
  <2> QED
    BY <2>1, <2>2 DEF IsFold
<1>3. h \in [SUBSET (1..m+1) -> A]
  BY <1>1, <1>2
<1>4. \A s \in SUBSET (1..m+1) :
        h[s] = IF s = {} THEN base ELSE step[<<h[s \ {Max(s)}], Max(s)>>]
  BY <1>1, <1>2
<1> HIDE DEF h
<1> QED
  BY <1>3, <1>4 DEF IsFold

\* Such a fold is there, however long the sequence.
LEMMA FoldExists ==
  ASSUME NEW A, NEW base \in A, NEW n \in Nat, NEW step \in [A \X (1..n) -> A]
  PROVE  \E g : IsFold(g, A, base, step, n)
<1> DEFINE T == {m \in Nat : m <= n => \E g : IsFold(g, A, base, step, m)}
<1>1. 0 \in T
  <2> DEFINE g == [s \in SUBSET (1..0) |-> base]
  <2>1. IsFold(g, A, base, step, 0)
    BY DEF IsFold
  <2> QED
    BY <2>1
<1>2. ASSUME NEW m \in Nat, m \in T PROVE m + 1 \in T
  BY <1>2, FoldGrows
<1>3. n \in T
  <2> HIDE DEF T
  <2> QED
    BY <1>1, <1>2, Induction
<1> QED
  BY <1>3

\* canonicalize() leaves a path without ".." as it is: by induction over its length.
LEMMA RealOfPlain ==
  ASSUME NEW path \in Seq(STRING), \A i \in 1..Len(path) : path[i] # ".."
  PROVE  Real(path) = path
<1> DEFINE n == Len(path)
           Step(real, name) == IF name # ".." THEN Append(real, name)
                               ELSE IF real = <<>> THEN real ELSE Front(real)
           step == [a \in Seq(STRING) \X (1..n) |-> Append(a[1], path[a[2]])]
           IsIter(g) == g = [s \in SUBSET (1..n) |->
                               IF s = {} THEN <<>> ELSE Step(g[s \ {Max(s)}], path[Max(s)])]
           iter == CHOOSE g : IsIter(g)
<1>1. n \in Nat /\ DOMAIN path = 1..n
  BY LenProperties
<1>2. Real(path) = iter[1..n]
  BY <1>1 DEF Real, FoldLeft, MapThenFoldSet
<1>3. \E g : IsIter(g)
  <2>1. <<>> \in Seq(STRING) /\ step \in [Seq(STRING) \X (1..n) -> Seq(STRING)]
    <3>1. ASSUME NEW real \in Seq(STRING), NEW i \in 1..n PROVE Append(real, path[i]) \in Seq(STRING)
      BY ElementOfSeq, AppendProperties
    <3> QED
      BY <3>1, EmptySeq
  <2>2. PICK g : IsFold(g, Seq(STRING), <<>>, step, n)
    <3> HIDE DEF step
    <3> QED
      BY <1>1, <2>1, FoldExists
  <2>3. ASSUME NEW s \in SUBSET (1..n), s # {}
        PROVE  g[s] = Step(g[s \ {Max(s)}], path[Max(s)])
    <3>1. Max(s) \in 1..n
      BY <1>1, <2>3, MaxIsIn
    <3>2. g[s \ {Max(s)}] \in Seq(STRING) /\ g[s] = step[<<g[s \ {Max(s)}], Max(s)>>]
      <4>1. s \ {Max(s)} \in SUBSET (1..n)
        OBVIOUS
      <4> QED
        BY <2>2, <2>3, <4>1 DEF IsFold
    <3>3. g[s] = Append(g[s \ {Max(s)}], path[Max(s)])
      BY <3>1, <3>2
    <3> QED
      BY <3>1, <3>3
  <2>4. g \in [SUBSET (1..n) -> Seq(STRING)] /\ g[{}] = <<>>
    <3>1. {} \in SUBSET (1..n)
      OBVIOUS
    <3> QED
      BY <2>2, <3>1 DEF IsFold
  <2>5. \A s \in SUBSET (1..n) :
          g[s] = IF s = {} THEN <<>> ELSE Step(g[s \ {Max(s)}], path[Max(s)])
    BY <2>3, <2>4
  <2>6. IsIter(g)
    <3> HIDE DEF Step
    <3> QED
      BY <2>4, <2>5
  <2> QED
    BY <2>6
<1>4. IsIter(iter)
  <2> HIDE DEF IsIter
  <2> QED
    BY <1>3
<1> DEFINE T == {k \in Nat : k <= n => iter[1..k] = SubSeq(path, 1, k)}
<1>5. 0 \in T
  <2>1. 1..0 = {} /\ {} \in SUBSET (1..n)
    OBVIOUS
  <2>2. iter[{}] = <<>>
    <3> HIDE DEF iter, Step
    <3> QED
      BY <1>4, <2>1
  <2>3. SubSeq(path, 1, 0) = <<>>
    OBVIOUS
  <2> HIDE DEF iter
  <2> QED
    BY <2>1, <2>2, <2>3
<1>6. ASSUME NEW k \in Nat, k \in T PROVE k + 1 \in T
  <2> SUFFICES ASSUME k + 1 <= n PROVE iter[1..k+1] = SubSeq(path, 1, k + 1)
    <3> HIDE DEF iter, n
    <3> QED
      OBVIOUS
  <2>1. /\ 1..k+1 \in SUBSET (1..n) /\ 1..k+1 # {} /\ Max(1..k+1) = k + 1
        /\ (1..k+1) \ {k + 1} = 1..k
    <3>1. 1..k+1 \in SUBSET (1..k+1) /\ k + 1 \in 1..k+1
      OBVIOUS
    <3>2. Max(1..k+1) = k + 1
      BY <3>1, MaxOfTop
    <3>3. 1..k+1 \in SUBSET (1..n)
      BY <1>1
    <3>4. (1..k+1) \ {k + 1} = 1..k
      OBVIOUS
    <3> QED
      BY <3>1, <3>2, <3>3, <3>4
  <2>2. iter[1..k+1] = Step(iter[1..k], path[k + 1])
    <3> HIDE DEF iter, Step
    <3> QED
      BY <1>4, <2>1
  <2>3. iter[1..k] = SubSeq(path, 1, k)
    <3> HIDE DEF iter
    <3> QED
      BY <1>1, <1>6
  <2>4. k + 1 \in 1..n
    BY <1>1
  <2>5. iter[1..k+1] = Append(SubSeq(path, 1, k), path[k + 1])
    <3> HIDE DEF iter
    <3> QED
      BY <2>2, <2>3, <2>4
  <2>6. Append(SubSeq(path, 1, k), path[k + 1]) = SubSeq(path, 1, k + 1)
    BY <1>1, <2>4
  <2> QED
    BY <2>5, <2>6
<1>7. n \in T
  <2> HIDE DEF T, iter
  <2> QED
    BY <1>1, <1>5, <1>6, Induction
<1>8. SubSeq(path, 1, n) = path
  BY SubSeqFull
<1> HIDE DEF iter
<1> QED
  BY <1>1, <1>2, <1>7, <1>8

\* The seeds are members.
LEMMA SeedsAreMembers == Seeds \subseteq project.members
BY DEF Seeds, Around

\* What is required contains the seeds and what a required crate depends on.
LEMMA RequiredGrows ==
  /\ Required \subseteq project.members
  /\ Seeds \subseteq Required
  /\ Closed(Required)
<1>1. Required \subseteq project.members
  BY DEF Required
<1>2. Seeds \subseteq Required
  BY SeedsAreMembers DEF Required
<1>3. ASSUME NEW id \in Required, NEW dep \in project.deps[id] \cap project.members
      PROVE  dep \in Required
  <2>1. ASSUME NEW crates \in SUBSET project.members, Seeds \subseteq crates, Closed(crates)
        PROVE  dep \in crates
    <3>1. id \in crates
      BY <2>1 DEF Required
    <3>. QED  BY <2>1, <3>1, <1>3 DEF Closed
  <2>. QED  BY <2>1, <1>3 DEF Required
<1>. QED  BY <1>1, <1>2, <1>3 DEF Closed

\* It is contained in every closed set of members with the seeds in it.
LEMMA RequiredIsLeast ==
  ASSUME NEW crates \in SUBSET project.members, Seeds \subseteq crates, Closed(crates)
  PROVE  Required \subseteq crates
BY DEF Required

\* No step changes the project, or what depends on it alone.
LEMMA ProjectStays ==
  ASSUME [Next]_vars
  PROVE  /\ project' = project
         /\ Seeds' = Seeds
         /\ Required' = Required
         /\ \A file : IgnoredIn(project.dirs, file)' = IgnoredIn(project.dirs, file)
<1>1. project' = project
  BY DEF Next, Startup, ChooseSeeds, Walk, Visit, Resolve, StartWatching, Appear, Change, vars
<1>2. Selected' = Selected
  BY <1>1 DEF Selected
<1>3. Seeds' = Seeds
  BY <1>1, <1>2 DEF Seeds, Around
<1>4. Required' = Required
  BY <1>1, <1>3 DEF Required, Closed
<1>. QED  BY <1>1, <1>3, <1>4 DEF IgnoredIn, Joined, Exists

LEMMA TypePreserved == TypeOK /\ [Next]_vars => TypeOK'
<1> SUFFICES ASSUME TypeOK, [Next]_vars
             PROVE  TypeOK'
  OBVIOUS
<1>. USE ProjectAssumption DEF TypeOK
<1>1. CASE ChooseSeeds
  BY <1>1, SeedsAreMembers DEF ChooseSeeds, scope
<1>2. CASE Walk
  BY <1>2 DEF Walk, Visit, scope
<1>3. CASE Resolve
  BY <1>3 DEF Resolve, walk
<1>4. CASE StartWatching
  BY <1>4 DEF StartWatching, Exists, walk
<1>5. ASSUME NEW dir \in project.later, Appear(dir)
      PROVE  TypeOK'
  BY <1>5 DEF Appear, walk, scope
<1>6. ASSUME NEW file \in Files, Change(file)
      PROVE  TypeOK'
  BY <1>6 DEF Change, walk, scope
<1>7. CASE UNCHANGED vars
  BY <1>7 DEF vars, walk, scope
<1>. QED  BY <1>1, <1>2, <1>3, <1>4, <1>5, <1>6, <1>7 DEF Next, Startup

\* A visit keeps the walk complete, and within what is required.
LEMMA VisitKeepsWalking ==
  ASSUME NEW id \in stack, Visit(id), TypeOK, Walking, pc = "walk",
         UNCHANGED <<project, pc>>, Required' = Required, Seeds' = Seeds
  PROVE  Walking'
<1>1. project.known
  BY DEF Walking
<1>2. CASE id \in closure \/ id \notin project.members
  <2>1. id \in closure
    BY <1>1, <1>2, RequiredGrows DEF Walking
  <2>2. stack' \cup closure' = stack \cup closure /\ closure' = closure
    BY <1>2, <2>1 DEF Visit
  <2>. QED  BY <1>1, <2>2 DEF Walking
<1>3. CASE ~(id \in closure \/ id \notin project.members)
  <2> DEFINE deps == project.deps[id] \cap project.members
  <2>1. closure' = closure \cup {id} /\ stack' = (stack \ {id}) \cup deps
    BY <1>3 DEF Visit
  <2>2. stack' \cup closure' = (stack \cup closure) \cup deps
    BY <2>1
  <2>3. deps \subseteq Required
    BY <1>1, RequiredGrows DEF Walking, Closed
  <2>4. stack' \cup closure' \subseteq Required
    BY <1>1, <2>2, <2>3 DEF Walking
  <2>5. Seeds \subseteq stack' \cup closure'
    BY <1>1, <2>2 DEF Walking
  <2>6. ASSUME NEW x \in closure'
        PROVE  project.deps[x] \cap project.members \subseteq stack' \cup closure'
    BY <1>1, <2>1, <2>2 DEF Walking
  <2>. QED  BY <1>1, <2>4, <2>5, <2>6 DEF Walking
<1>. QED  BY <1>2, <1>3

LEMMA WalkingPreserved == TypeOK /\ Walking /\ [Next]_vars => Walking'
<1> SUFFICES ASSUME TypeOK, Walking, [Next]_vars
             PROVE  Walking'
  OBVIOUS
<1>0. project' = project /\ Seeds' = Seeds /\ Required' = Required
  BY ProjectStays
<1>1. CASE ChooseSeeds
  BY <1>0, <1>1, RequiredGrows DEF ChooseSeeds, Walking
<1>2. CASE Walk
  BY <1>0, <1>2, VisitKeepsWalking DEF Walk
<1>3. CASE Resolve
  BY <1>3 DEF Resolve, Walking
<1>4. CASE StartWatching
  BY <1>4 DEF StartWatching, Walking
<1>5. ASSUME NEW dir \in project.later, Appear(dir)
      PROVE  Walking'
  BY <1>0, <1>5 DEF Appear, Walking, walk
<1>6. ASSUME NEW file \in Files, Change(file)
      PROVE  Walking'
  BY <1>6 DEF Change, Walking
<1>7. CASE UNCHANGED vars
  BY <1>0, <1>7 DEF Walking, vars, walk
<1>. QED  BY <1>1, <1>2, <1>3, <1>4, <1>5, <1>6, <1>7 DEF Next, Startup

LEMMA ScopePreserved == TypeOK /\ Walking /\ ScopeExact /\ [Next]_vars => ScopeExact'
<1> SUFFICES ASSUME TypeOK, Walking, ScopeExact, [Next]_vars
             PROVE  ScopeExact'
  OBVIOUS
<1>0. project' = project /\ Required' = Required
  BY ProjectStays
<1>1. CASE ChooseSeeds
  BY <1>1 DEF ChooseSeeds, ScopeExact
<1>2. CASE Walk
  BY <1>2 DEF Walk, ScopeExact
<1>3. CASE Resolve
  <2>1. CASE project.known
    <3>1. Seeds \subseteq closure /\ Closed(closure) /\ closure \subseteq Required
      BY <1>3, <2>1 DEF Resolve, Walking, Closed
    <3>2. Required \subseteq closure
      BY <3>1, RequiredGrows, RequiredIsLeast
    <3>. QED  BY <1>0, <1>3, <2>1, <3>1, <3>2 DEF Resolve, ScopeExact, walk
  <2>2. CASE ~project.known
    BY <1>0, <1>3, <2>2 DEF Resolve, ScopeExact, Walking, walk
  <2>. QED  BY <2>1, <2>2
<1>4. CASE StartWatching
  BY <1>0, <1>4 DEF StartWatching, ScopeExact, walk
<1>5. ASSUME NEW dir \in project.later, Appear(dir)
      PROVE  ScopeExact'
  BY <1>0, <1>5 DEF Appear, ScopeExact, walk
<1>6. ASSUME NEW file \in Files, Change(file)
      PROVE  ScopeExact'
  BY <1>0, <1>6 DEF Change, ScopeExact, walk
<1>7. CASE UNCHANGED vars
  BY <1>0, <1>7 DEF ScopeExact, vars, walk
<1>. QED  BY <1>1, <1>2, <1>3, <1>4, <1>5, <1>6, <1>7 DEF Next, Startup

LEMMA IgnoringPreserved == Ignoring /\ [Next]_vars => Ignoring'
<1> SUFFICES ASSUME Ignoring, [Next]_vars
             PROVE  Ignoring'
  OBVIOUS
<1>0. /\ project' = project
      /\ \A dir : Joined(dir)' = Joined(dir)
  BY ProjectStays DEF Joined
<1>1. CASE ChooseSeeds
  BY <1>1 DEF ChooseSeeds, Ignoring
<1>2. CASE Walk
  BY <1>2 DEF Walk, Ignoring
<1>3. CASE Resolve
  <2>1. ASSUME NEW dir \in project.ignore, Exists(Joined(dir), project.dirs)
        PROVE  Real(Joined(dir)) \in IgnoreDirs
    <3>1. Exists(Joined(dir), dirs)
      BY <2>1 DEF Exists, Ignoring
    <3>. QED  BY <3>1 DEF IgnoreDirs
  <2>. QED  BY <1>0, <1>3, <2>1 DEF Resolve, Ignoring
<1>4. CASE StartWatching
  BY <1>0, <1>4 DEF StartWatching, Ignoring
<1>5. ASSUME NEW dir \in project.later, Appear(dir)
      PROVE  Ignoring'
  BY <1>0, <1>5 DEF Appear, Ignoring, scope
<1>6. ASSUME NEW file \in Files, Change(file)
      PROVE  Ignoring'
  BY <1>0, <1>6 DEF Change, Ignoring, scope
<1>7. CASE UNCHANGED vars
  BY <1>0, <1>7 DEF Ignoring, vars, scope
<1>. QED  BY <1>1, <1>2, <1>3, <1>4, <1>5, <1>6, <1>7 DEF Next, Startup

LEMMA RootedPreserved == TypeOK /\ Rooted /\ [Next]_vars => Rooted'
<1> SUFFICES ASSUME TypeOK, Rooted, [Next]_vars
             PROVE  Rooted'
  OBVIOUS
<1>0. project' = project
  BY ProjectStays
<1>1. CASE UNCHANGED dirs
  BY <1>0, <1>1 DEF Rooted
<1>2. ASSUME NEW dir \in project.later, Appear(dir)
      PROVE  Rooted'
  BY <1>0, <1>2 DEF Appear, Rooted
<1>. QED  BY <1>1, <1>2
     DEF Next, Startup, ChooseSeeds, Walk, Resolve, StartWatching, Change, vars

\* A directory is its own canonical path, and can be reached.
LEMMA DirsAreReached ==
  ASSUME TypeOK, Rooted, NEW dir \in dirs
  PROVE  /\ dir \in Seq(STRING) /\ dir # <<>>
         /\ Real(dir) = dir
         /\ Exists(dir, dirs)
<1>1. dir \in Seq(STRING) /\ dir # <<>> /\ \A i \in 1 .. Len(dir) : dir[i] # ".."
  BY DirAssumption DEF TypeOK, Rooted
<1>2. Real(dir) = dir
  BY <1>1, RealOfPlain
<1>3. ASSUME NEW n \in 1 .. Len(dir) - 1
      PROVE  Real(SubSeq(dir, 1, n)) \in dirs
  <2>1. SubSeq(dir, 1, n) \in dirs
    BY DEF Rooted
  <2>2. \A i \in 1 .. Len(SubSeq(dir, 1, n)) : SubSeq(dir, 1, n)[i] # ".."
    BY <2>1, DirAssumption DEF TypeOK, Rooted
  <2>3. SubSeq(dir, 1, n) \in Seq(STRING)
    BY <2>1, DirAssumption DEF TypeOK, Rooted
  <2>4. Real(SubSeq(dir, 1, n)) = SubSeq(dir, 1, n)
    BY <2>2, <2>3, RealOfPlain
  <2>. QED  BY <2>1, <2>4
<1>. QED  BY <1>1, <1>2, <1>3 DEF Exists

\* What exists goes on to exist.
LEMMA ExistsGrows ==
  ASSUME NEW path, NEW some, NEW more, some \subseteq more, Exists(path, some)
  PROVE  Exists(path, more)
BY DEF Exists

\* An ignored path that a changed file is below is a directory, as joined.
LEMMA IgnoredAboveIsDir ==
  ASSUME TypeOK, Rooted, NEW dir \in project.ignore, NEW file \in Files,
         Front(file) \in dirs, IsPrefix(Joined(dir), file)
  PROVE  Joined(dir) \in dirs
<1> DEFINE path == Joined(dir)
           n == Len(path)
<1>1. /\ path \in Seq(STRING) /\ path # file /\ path # <<>>
      /\ file \in Seq(STRING) /\ file # <<>>
  <2>1. /\ project.cwd \in Seq(STRING)
        /\ dir.path \in Seq(STRING) /\ path \notin Files \cup {<<>>}
    BY IgnoreAssumption DEF TypeOK, Joined
  <2>2. path \in Seq(STRING)
    BY <2>1, ConcatProperties DEF Joined
  <2>. QED  BY <2>1, <2>2, DirAssumption
<1>2. n \in Nat /\ n > 0
  <2> HIDE DEF path
  <2>. QED  BY <1>1, EmptySeq, LenProperties
<1>3. n <= Len(file) /\ path = SubSeq(file, 1, n)
  BY <1>1, SubSeqFull DEF IsPrefix
<1>4. n < Len(file) /\ Len(file) \in Nat
  BY <1>1, <1>2, <1>3, SubSeqFull, LenProperties
<1> DEFINE above == Front(file)
<1>5. /\ above = SubSeq(file, 1, Len(file) - 1)
      /\ above \in Seq(STRING) /\ Len(above) = Len(file) - 1
  <2>1. \A i \in 1 .. Len(file) - 1 : file[i] \in STRING
    BY <1>1, <1>4, ElementOfSeq
  <2>. QED  BY <1>2, <1>4, <2>1, SubSeqProperties DEF Front
<1>6. SubSeq(above, 1, n) = SubSeq(file, 1, n)
  BY <1>1, <1>2, <1>4, <1>5, SubSeqOfSubSeq
<1>7. CASE n = Len(file) - 1
  BY <1>3, <1>5, <1>7
<1>8. CASE n # Len(file) - 1
  <2>1. n \in 1 .. Len(above) - 1
    BY <1>2, <1>4, <1>5, <1>8
  <2>2. above \in dirs
    OBVIOUS
  <2>3. SubSeq(above, 1, n) \in dirs
    <3> HIDE DEF above, n
    <3>. QED  BY <2>1, <2>2 DEF Rooted
  <2>. QED  BY <1>3, <1>6, <2>3
<1>. QED  BY <1>7, <1>8

\* What matters and is there is about to be watched when the directories are
\* resolved.
LEMMA WantedIsResolved ==
  ASSUME TypeOK, Rooted, Ignoring, closure = IF project.known THEN Required ELSE {},
         NEW dir \in Wanted \cap project.dirs
  PROVE  \E path \in WatchDirs : Exists(path, dirs) /\ Real(path) = dir
<1>1. dir \in dirs
  BY DEF Ignoring
<1>2. CASE dir \in WatchDirs
  BY <1>1, <1>2, DirsAreReached
<1>3. CASE \E d \in project.watch : Exists(Joined(d), project.dirs) /\ dir = Real(Joined(d))
  <2>1. PICK d \in project.watch : Exists(Joined(d), project.dirs) /\ dir = Real(Joined(d))
    BY <1>3
  <2>2. Exists(Joined(d), dirs)
    BY <2>1, ExistsGrows DEF Ignoring
  <2>. QED  BY <2>1, <2>2 DEF WatchDirs
<1>4. CASE \E id \in Required : project.known /\ dir = Within(id, "src")
  BY <1>1, <1>2, <1>4 DEF WatchDirs, Crates
<1>5. CASE \E id \in Seeds : project.known /\ project.example /\ dir = Within(id, "examples")
  BY <1>1, <1>2, <1>5 DEF WatchDirs, Examples
<1>. QED  BY <1>3, <1>4, <1>5 DEF Wanted

LEMMA WatchingPreserved ==
  TypeOK /\ Walking /\ ScopeExact /\ ScopeExact' /\ Ignoring /\ Rooted /\ Watching /\ [Next]_vars
    => Watching'
<1> SUFFICES ASSUME TypeOK, Walking, ScopeExact, ScopeExact', Ignoring, Rooted, Watching, [Next]_vars
             PROVE  Watching'
  OBVIOUS
<1>0. /\ project' = project
      /\ \A dir : Joined(dir)' = Joined(dir)
      /\ Wanted' = Wanted
  <2>1. project' = project /\ Seeds' = Seeds /\ Required' = Required
    BY ProjectStays
  <2>. QED  BY <2>1 DEF Joined, Wanted, Within, Exists
<1>1. CASE ChooseSeeds
  BY <1>1 DEF ChooseSeeds, Watching
<1>2. CASE Walk
  BY <1>2 DEF Walk, Watching
<1>3. CASE Resolve
  <2>1. closure = IF project.known THEN Required ELSE {}
    <3>1. closure' = IF project'.known THEN Required' ELSE {}
      BY <1>3 DEF Resolve, ScopeExact
    <3>. QED  BY <1>0, <1>3, <3>1, ProjectStays DEF Resolve, walk
  <2>2. \A dir \in Wanted \cap project.dirs :
          \E path \in WatchDirs : Exists(path, dirs) /\ Real(path) = dir
    BY <2>1, WantedIsResolved
  <2>3. \A path \in IgnoreDirs : \E dir \in project.ignore :
          \/ path = Joined(dir)
          \/ path = Real(Joined(dir)) /\ Exists(Joined(dir), dirs)
    BY DEF IgnoreDirs
  <2>. QED  BY <1>0, <1>3, <2>2, <2>3 DEF Resolve, Watching
<1>4. CASE StartWatching
  BY <1>0, <1>4 DEF StartWatching, Watching
<1>5. ASSUME NEW new \in project.later, Appear(new)
      PROVE  Watching'
  <2>1. dirs \subseteq dirs' /\ UNCHANGED <<pc, watched, ignores>>
    BY <1>5 DEF Appear, scope
  <2>2. \A path : Exists(path, dirs) => Exists(path, dirs')
    BY <2>1, ExistsGrows
  <2>. QED  BY <1>0, <2>1, <2>2 DEF Watching
<1>6. ASSUME NEW file \in Files, Change(file)
      PROVE  Watching'
  BY <1>0, <1>6 DEF Change, Watching, scope
<1>7. CASE UNCHANGED vars
  BY <1>0, <1>7 DEF Watching, vars, scope
<1>. QED  BY <1>1, <1>2, <1>3, <1>4, <1>5, <1>6, <1>7 DEF Next, Startup

\* A change below what matters triggers, or is below what is ignored.
LEMMA ChangeTriggers ==
  ASSUME TypeOK, Rooted, Watching, NEW file \in Files, Change(file),
         NEW dir \in Wanted \cap project.dirs, IsPrefix(dir, file), ~IgnoredIn(dirs, file)
  PROVE  last'.triggered
<1>1. pc = "loop" /\ Front(file) \in dirs /\ dir \in watched
  BY DEF Change, Watching
<1>2. ASSUME NEW path \in ignores, IsPrefix(path, file)
      PROVE  FALSE
  <2>1. PICK ignore \in project.ignore :
          \/ path = Joined(ignore)
          \/ path = Real(Joined(ignore)) /\ Exists(Joined(ignore), dirs)
    BY <1>1 DEF Watching
  <2>2. CASE path = Joined(ignore)
    <3>1. Joined(ignore) \in dirs
      BY <1>1, <1>2, <2>2, IgnoredAboveIsDir
    <3>. QED  BY <1>2, <2>2, <3>1, DirsAreReached DEF IgnoredIn
  <2>3. CASE path = Real(Joined(ignore)) /\ Exists(Joined(ignore), dirs)
    BY <1>2, <2>3 DEF IgnoredIn
  <2>. QED  BY <2>1, <2>2, <2>3
<1>. QED  BY <1>1, <1>2 DEF Change

LEMMA EditsPreserved ==
  TypeOK /\ Rooted /\ Watching /\ EditsTrigger /\ [Next]_vars => EditsTrigger'
<1> SUFFICES ASSUME TypeOK, Rooted, Watching, EditsTrigger, [Next]_vars
             PROVE  EditsTrigger'
  OBVIOUS
<1>0. /\ project' = project
      /\ \A dir : Joined(dir)' = Joined(dir)
      /\ Wanted' = Wanted
  <2>1. project' = project /\ Seeds' = Seeds /\ Required' = Required
    BY ProjectStays
  <2>. QED  BY <2>1 DEF Joined, Wanted, Within, Exists
<1>1. CASE UNCHANGED <<dirs, last>>
  BY <1>0, <1>1 DEF EditsTrigger, IgnoredIn
<1>2. ASSUME NEW new \in project.later, Appear(new)
      PROVE  EditsTrigger'
  <2>1. dirs \subseteq dirs' /\ UNCHANGED last
    BY <1>2 DEF Appear
  <2>2. \A path : Exists(path, dirs) => Exists(path, dirs')
    BY <2>1, ExistsGrows
  <2>. QED  BY <1>0, <2>1, <2>2 DEF EditsTrigger, IgnoredIn
<1>3. ASSUME NEW file \in Files, Change(file)
      PROVE  EditsTrigger'
  <2>1. dirs' = dirs /\ last'.file = file
    BY <1>3 DEF Change
  <2>2. (~IgnoredIn(dirs, last.file))' => ~IgnoredIn(dirs, file)
    BY <1>0, <2>1 DEF IgnoredIn
  <2>. QED  BY <1>0, <1>3, <2>1, <2>2, ChangeTriggers DEF EditsTrigger
<1>. QED  BY <1>1, <1>2, <1>3
     DEF Next, Startup, ChooseSeeds, Walk, Resolve, StartWatching, vars

LEMMA QuietPreserved == Ignoring /\ IgnoredQuiet /\ [Next]_vars => IgnoredQuiet'
<1> SUFFICES ASSUME Ignoring, IgnoredQuiet, [Next]_vars
             PROVE  IgnoredQuiet'
  OBVIOUS
<1>0. project' = project /\ \A file : IgnoredIn(project.dirs, file)' = IgnoredIn(project.dirs, file)
  BY ProjectStays
<1>1. CASE UNCHANGED last
  BY <1>0, <1>1 DEF IgnoredQuiet, IgnoredIn, Joined, Exists
<1>2. ASSUME NEW file \in Files, Change(file)
      PROVE  IgnoredQuiet'
  <2>1. last'.triggered => \A dir \in ignores : ~IsPrefix(dir, file)
    BY <1>2 DEF Change
  <2>2. last'.triggered => ~IgnoredIn(project.dirs, file)
    BY <1>2, <2>1 DEF Change, Ignoring, IgnoredIn
  <2>3. last'.file = file
    BY <1>2 DEF Change
  <2>. QED  BY <1>0, <2>2, <2>3 DEF IgnoredQuiet, IgnoredIn, Joined, Exists
<1>. QED  BY <1>1, <1>2
     DEF Next, Startup, ChooseSeeds, Walk, Resolve, StartWatching, Appear, vars

\* At first nothing has changed, and nothing is below the empty path.
LEMMA EditsAtFirst == Init => EditsTrigger
<1> SUFFICES ASSUME Init, NEW dir \in project.dirs, IsPrefix(dir, last.file)
             PROVE  FALSE
  BY DEF EditsTrigger
<1>1. dir \in Seq(STRING) /\ dir # <<>>
  BY DirAssumption DEF Init
<1>2. Len(dir) <= 0
  BY DEF Init, IsPrefix
<1>. QED  BY <1>1, <1>2, EmptySeq, LenProperties

\* The inductive invariant of the watch scope.
THEOREM Invariance == Spec => []IInv
<1>1. Init => IInv
  <2>1. Init => TypeOK /\ Walking /\ ScopeExact /\ Ignoring /\ IgnoredQuiet
    BY DEF Init, TypeOK, Walking, ScopeExact, Ignoring, IgnoredQuiet
  <2>2. Init => Rooted /\ Watching
    BY DirAssumption DEF Init, Rooted, Watching
  <2>. QED  BY <2>1, <2>2, EditsAtFirst DEF IInv
<1>2. IInv /\ [Next]_vars => IInv'
  BY TypePreserved, WalkingPreserved, ScopePreserved, IgnoringPreserved, QuietPreserved,
     RootedPreserved, WatchingPreserved, EditsPreserved DEF IInv
<1>. QED  BY <1>1, <1>2, PTL DEF Spec

\* Types, and that only directories that exist are watched.
THEOREM TypeCorrect == Spec => []TypeOK
BY Invariance, PTL DEF IInv

\* For every dependency graph, the walk of workspace_crates finds exactly the least
\* set of members with the seeds in it that is closed under their dependencies.
THEOREM WalkIsExact == Spec => []ScopeExact
BY Invariance, PTL DEF IInv

\* However an --ignore is spelled, a change below it never triggers a build if the
\* path was there when the dev server started.
THEOREM IgnoredStaysQuiet == Spec => []IgnoredQuiet
BY Invariance, PTL DEF IInv

\* "editing a path-dependency library rebuilds": for every workspace, command line
\* and course of the builds, a change below a directory that matters triggers, unless
\* the change is ignored.
THEOREM EditsReach == Spec => []EditsTrigger
BY Invariance, PTL DEF IInv
=============================================================================
