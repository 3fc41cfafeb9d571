----------------------------- MODULE BenchProofs -----------------------------
(***************************************************************************)
(* Proofs about Bench, for any number of tasks, any budget and any cap.    *)
(*                                                                         *)
(* The counters of the code count tasks: in_flight those between its       *)
(* fetch_add and fetch_sub, the budget those that no worker has taken.     *)
(* Enters, Leaves and Stays say what a step of one task does to such a     *)
(* count; each conjunct of the inductive invariant then has a lemma with   *)
(* one step per action.                                                    *)
(***************************************************************************)
EXTENDS Bench, FiniteSetTheorems, TLAPS

\* A set of tasks can be counted, before and after a step.
LEMMA Countable == ASSUME NEW S
                   PROVE  /\ IsFiniteSet(InState(S)) /\ Cardinality(InState(S)) \in Nat
                          /\ IsFiniteSet(InState(S)') /\ Cardinality(InState(S)') \in Nat
  BY TaskAssumption, FS_Subset, FS_CardinalityType DEF InState

\* A task that comes into S adds one to the count of S.
LEMMA Enters == ASSUME TypeOK, NEW t \in Task, NEW from, NEW to, NEW S,
                       from \notin S, to \in S, Becomes(t, from, to)
                PROVE  Cardinality(InState(S)') = Cardinality(InState(S)) + 1
<1>1. InState(S)' = InState(S) \cup {t} /\ t \notin InState(S)
  BY DEF InState, Becomes, TypeOK
<1> QED
  BY <1>1, Countable, FS_AddElement

\* A task that goes out of S takes one from it.
LEMMA Leaves == ASSUME TypeOK, NEW t \in Task, NEW from, NEW to, NEW S,
                       from \in S, to \notin S, Becomes(t, from, to)
                PROVE  Cardinality(InState(S)) = Cardinality(InState(S)') + 1
<1>1. InState(S) = InState(S)' \cup {t} /\ t \notin InState(S)'
  BY DEF InState, Becomes, TypeOK
<1> QED
  BY <1>1, Countable, FS_AddElement

\* A task that stays inside or outside of S changes nothing of it.
LEMMA Stays == ASSUME TypeOK, NEW t \in Task, NEW from, NEW to, NEW S,
                      from \in S <=> to \in S, Becomes(t, from, to)
               PROVE  InState(S)' = InState(S)
  BY DEF InState, Becomes, TypeOK
-----------------------------------------------------------------------------
\* Every step but the fetch_sub keeps the types by itself; that one needs the
\* count of the requests in flight.
LEMMA TypePreserved == TypeOK /\ InFlightExact /\ [Next]_vars => TypeOK'
<1> SUFFICES ASSUME TypeOK, InFlightExact, [Next]_vars PROVE TypeOK'
  OBVIOUS
<1> USE NumberAssumption DEF TypeOK, Flying, Buckets, counters, launcher, clock, Becomes, Count
<1>1. CASE DeadlinePasses
  BY <1>1 DEF DeadlinePasses
<1>2. CASE WarmupEnds
  BY <1>2 DEF WarmupEnds
<1>3. CASE LauncherStops
  BY <1>3 DEF LauncherStops
<1>4. CASE Schedule
  BY <1>4 DEF Schedule
<1>5. CASE Drop
  BY <1>5 DEF Drop
<1>6. CASE Report
  BY <1>6 DEF Report
<1>7. ASSUME NEW t \in Task, Launch(t) PROVE TypeOK'
  BY <1>7 DEF Launch
<1>8. ASSUME NEW t \in Task, WorkerStops(t) PROVE TypeOK'
  BY <1>8 DEF WorkerStops
<1>9. ASSUME NEW t \in Task, WorkerProceeds(t) PROVE TypeOK'
  BY <1>9 DEF WorkerProceeds
<1>10. ASSUME NEW t \in Task, LoadBudget(t) PROVE TypeOK'
  BY <1>10 DEF LoadBudget
<1>11. ASSUME NEW t \in Task, BudgetSpent(t) PROVE TypeOK'
  BY <1>11 DEF BudgetSpent
<1>12. ASSUME NEW t \in Task, Acquire(t) PROVE TypeOK'
  BY <1>12 DEF Acquire
<1>13. ASSUME NEW t \in Task, AcquireFails(t) PROVE TypeOK'
  BY <1>13 DEF AcquireFails
<1>14. ASSUME NEW t \in Task, Begin(t) PROVE TypeOK'
  BY <1>14 DEF Begin
<1>15. ASSUME NEW t \in Task, Responds(t) PROVE TypeOK'
  BY <1>15 DEF Responds
<1>16. ASSUME NEW t \in Task, Fails(t) PROVE TypeOK'
  BY <1>16 DEF Fails
<1>17. ASSUME NEW t \in Task, Drains(t) PROVE TypeOK'
  BY <1>17 DEF Drains
<1>18. ASSUME NEW t \in Task, BreaksOff(t) PROVE TypeOK'
  BY <1>18 DEF BreaksOff
<1>19. ASSUME NEW t \in Task, Record(t) PROVE TypeOK'
  BY <1>19 DEF Record, Succeed, Histograms
<1>20. ASSUME NEW t \in Task, Settle(t) PROVE TypeOK'
  <2>1. t \in InState(Flying)
    BY <1>20 DEF Settle, InState
  <2>2. Cardinality(InState(Flying)) \in Nat \ {0}
    BY <2>1, Countable, FS_EmptySet
  <2>3. inFlight' \in Nat
    BY <1>20, <2>2 DEF Settle, InFlightExact
  <2> QED
    BY <1>20, <2>3 DEF Settle
<1>21. CASE UNCHANGED vars
  BY <1>21 DEF vars
<1> QED
  BY <1>1, <1>2, <1>3, <1>4, <1>5, <1>6, <1>7, <1>8, <1>9, <1>10, <1>11,
     <1>12, <1>13, <1>14, <1>15, <1>16, <1>17, <1>18, <1>19, <1>20, <1>21
     DEF Next, OpenLoop, WorkerStep, ExecuteRequest

\* Every step keeps tasks and main task in the stages of their mode.
LEMMA StagesPreserved == TypeOK /\ Stages /\ [Next]_vars => Stages'
<1> SUFFICES ASSUME TypeOK, Stages, [Next]_vars PROVE Stages'
  OBVIOUS
<1> USE NumberAssumption DEF TypeOK, Flying, Buckets, counters, launcher, clock, Becomes, Count,
       Stages, Closed, HasDeadline, InState
<1>1. CASE DeadlinePasses
  BY <1>1 DEF DeadlinePasses
<1>2. CASE WarmupEnds
  BY <1>2 DEF WarmupEnds
<1>3. CASE LauncherStops
  BY <1>3 DEF LauncherStops
<1>4. CASE Schedule
  BY <1>4 DEF Schedule
<1>5. CASE Drop
  BY <1>5 DEF Drop
<1>6. CASE Report
  BY <1>6 DEF Report
<1>7. ASSUME NEW t \in Task, Launch(t) PROVE Stages'
  BY <1>7 DEF Launch
<1>8. ASSUME NEW t \in Task, WorkerStops(t) PROVE Stages'
  BY <1>8 DEF WorkerStops
<1>9. ASSUME NEW t \in Task, WorkerProceeds(t) PROVE Stages'
  BY <1>9 DEF WorkerProceeds
<1>10. ASSUME NEW t \in Task, LoadBudget(t) PROVE Stages'
  BY <1>10 DEF LoadBudget
<1>11. ASSUME NEW t \in Task, BudgetSpent(t) PROVE Stages'
  BY <1>11 DEF BudgetSpent
<1>12. ASSUME NEW t \in Task, Acquire(t) PROVE Stages'
  BY <1>12 DEF Acquire
<1>13. ASSUME NEW t \in Task, AcquireFails(t) PROVE Stages'
  BY <1>13 DEF AcquireFails
<1>14. ASSUME NEW t \in Task, Begin(t) PROVE Stages'
  BY <1>14 DEF Begin
<1>15. ASSUME NEW t \in Task, Responds(t) PROVE Stages'
  BY <1>15 DEF Responds
<1>16. ASSUME NEW t \in Task, Fails(t) PROVE Stages'
  BY <1>16 DEF Fails
<1>17. ASSUME NEW t \in Task, Drains(t) PROVE Stages'
  BY <1>17 DEF Drains
<1>18. ASSUME NEW t \in Task, BreaksOff(t) PROVE Stages'
  BY <1>18 DEF BreaksOff
<1>19. ASSUME NEW t \in Task, Record(t) PROVE Stages'
  BY <1>19 DEF Record
<1>20. ASSUME NEW t \in Task, Settle(t) PROVE Stages'
  BY <1>20 DEF Settle
<1>21. CASE UNCHANGED vars
  BY <1>21 DEF vars
<1> QED
  BY <1>1, <1>2, <1>3, <1>4, <1>5, <1>6, <1>7, <1>8, <1>9, <1>10, <1>11,
     <1>12, <1>13, <1>14, <1>15, <1>16, <1>17, <1>18, <1>19, <1>20, <1>21
     DEF Next, OpenLoop, WorkerStep, ExecuteRequest

\* Every step keeps the cap.
LEMMA CapPreserved == TypeOK /\ Stages /\ CapRespected /\ [Next]_vars => CapRespected'
<1> SUFFICES ASSUME TypeOK, Stages, CapRespected, [Next]_vars PROVE CapRespected'
  OBVIOUS
<1> USE NumberAssumption DEF TypeOK, Flying, Buckets, counters, launcher, clock, Becomes, Count,
       Stages, Closed, HasDeadline, CapRespected
<1>1. CASE DeadlinePasses
  BY <1>1 DEF DeadlinePasses
<1>2. CASE WarmupEnds
  BY <1>2 DEF WarmupEnds
<1>3. CASE LauncherStops
  BY <1>3 DEF LauncherStops
<1>4. CASE Schedule
  BY <1>4 DEF Schedule
<1>5. CASE Drop
  BY <1>5 DEF Drop
<1>6. CASE Report
  BY <1>6 DEF Report
<1>7. ASSUME NEW t \in Task, Launch(t) PROVE CapRespected'
  BY <1>7 DEF Launch
<1>8. ASSUME NEW t \in Task, WorkerStops(t) PROVE CapRespected'
  BY <1>8 DEF WorkerStops
<1>9. ASSUME NEW t \in Task, WorkerProceeds(t) PROVE CapRespected'
  BY <1>9 DEF WorkerProceeds
<1>10. ASSUME NEW t \in Task, LoadBudget(t) PROVE CapRespected'
  BY <1>10 DEF LoadBudget
<1>11. ASSUME NEW t \in Task, BudgetSpent(t) PROVE CapRespected'
  BY <1>11 DEF BudgetSpent
<1>12. ASSUME NEW t \in Task, Acquire(t) PROVE CapRespected'
  BY <1>12 DEF Acquire
<1>13. ASSUME NEW t \in Task, AcquireFails(t) PROVE CapRespected'
  BY <1>13 DEF AcquireFails
<1>14. ASSUME NEW t \in Task, Begin(t) PROVE CapRespected'
  BY <1>14 DEF Begin
<1>15. ASSUME NEW t \in Task, Responds(t) PROVE CapRespected'
  BY <1>15 DEF Responds
<1>16. ASSUME NEW t \in Task, Fails(t) PROVE CapRespected'
  BY <1>16 DEF Fails
<1>17. ASSUME NEW t \in Task, Drains(t) PROVE CapRespected'
  BY <1>17 DEF Drains
<1>18. ASSUME NEW t \in Task, BreaksOff(t) PROVE CapRespected'
  BY <1>18 DEF BreaksOff
<1>19. ASSUME NEW t \in Task, Record(t) PROVE CapRespected'
  BY <1>19 DEF Record
<1>20. ASSUME NEW t \in Task, Settle(t) PROVE CapRespected'
  BY <1>20 DEF Settle
<1>21. CASE UNCHANGED vars
  BY <1>21 DEF vars
<1> QED
  BY <1>1, <1>2, <1>3, <1>4, <1>5, <1>6, <1>7, <1>8, <1>9, <1>10, <1>11,
     <1>12, <1>13, <1>14, <1>15, <1>16, <1>17, <1>18, <1>19, <1>20, <1>21
     DEF Next, OpenLoop, WorkerStep, ExecuteRequest

\* Every step keeps in_flight equal to the number of requests in flight.
LEMMA InFlightPreserved == TypeOK /\ InFlightExact /\ [Next]_vars => InFlightExact'
<1> SUFFICES ASSUME TypeOK, InFlightExact, [Next]_vars PROVE InFlightExact'
  OBVIOUS
<1> USE DEF counters, launcher, clock
<1>1. CASE DeadlinePasses \/ WarmupEnds \/ LauncherStops \/ Schedule \/ Drop \/ Report
  BY <1>1 DEF DeadlinePasses, WarmupEnds, LauncherStops, Schedule, Drop, Report, InFlightExact, InState
<1>2. ASSUME NEW t \in Task, Launch(t) PROVE InFlightExact'
  <2>1. "unused" \notin Flying /\ "waiting" \in Flying
    BY DEF Flying
  <2>2. Cardinality(InState(Flying)') = Cardinality(InState(Flying)) + 1
    BY <1>2, <2>1, Enters DEF Launch
  <2> QED
    BY <1>2, <2>2, Countable DEF Launch, InFlightExact
<1>3. ASSUME NEW t \in Task, WorkerStops(t) PROVE InFlightExact'
  <2>1. "idle" \in Flying <=> "ended" \in Flying
    BY DEF Flying
  <2>2. InState(Flying)' = InState(Flying)
    BY <1>3, <2>1, Stays DEF WorkerStops
  <2> QED
    BY <1>3, <2>2, Countable DEF WorkerStops, InFlightExact
<1>4. ASSUME NEW t \in Task, WorkerProceeds(t) PROVE InFlightExact'
  <2>1. "idle" \in Flying <=> "begin" \in Flying
    BY DEF Flying
  <2>2. InState(Flying)' = InState(Flying)
    BY <1>4, <2>1, Stays DEF WorkerProceeds
  <2> QED
    BY <1>4, <2>2, Countable DEF WorkerProceeds, InFlightExact
<1>5. ASSUME NEW t \in Task, LoadBudget(t) PROVE InFlightExact'
  <2>1. "idle" \in Flying <=> "acquire" \in Flying
    BY DEF Flying
  <2>2. InState(Flying)' = InState(Flying)
    BY <1>5, <2>1, Stays DEF LoadBudget
  <2> QED
    BY <1>5, <2>2, Countable DEF LoadBudget, InFlightExact
<1>6. ASSUME NEW t \in Task, BudgetSpent(t) PROVE InFlightExact'
  <2>1. "acquire" \in Flying <=> "ended" \in Flying
    BY DEF Flying
  <2>2. InState(Flying)' = InState(Flying)
    BY <1>6, <2>1, Stays DEF BudgetSpent
  <2> QED
    BY <1>6, <2>2, Countable DEF BudgetSpent, InFlightExact
<1>7. ASSUME NEW t \in Task, Acquire(t) PROVE InFlightExact'
  <2>1. "acquire" \in Flying <=> "begin" \in Flying
    BY DEF Flying
  <2>2. InState(Flying)' = InState(Flying)
    BY <1>7, <2>1, Stays DEF Acquire
  <2> QED
    BY <1>7, <2>2, Countable DEF Acquire, InFlightExact
<1>8. ASSUME NEW t \in Task, AcquireFails(t) PROVE InFlightExact'
  BY <1>8 DEF AcquireFails, InFlightExact, InState
<1>9. ASSUME NEW t \in Task, Begin(t) PROVE InFlightExact'
  <2>1. "begin" \notin Flying /\ "waiting" \in Flying
    BY DEF Flying
  <2>2. Cardinality(InState(Flying)') = Cardinality(InState(Flying)) + 1
    BY <1>9, <2>1, Enters DEF Begin
  <2> QED
    BY <1>9, <2>2, Countable DEF Begin, InFlightExact
<1>10. ASSUME NEW t \in Task, Responds(t) PROVE InFlightExact'
  <2>1. "waiting" \in Flying <=> "body" \in Flying
    BY DEF Flying
  <2>2. InState(Flying)' = InState(Flying)
    BY <1>10, <2>1, Stays DEF Responds
  <2> QED
    BY <1>10, <2>2, Countable DEF Responds, InFlightExact
<1>11. ASSUME NEW t \in Task, Fails(t) PROVE InFlightExact'
  <2>1. "waiting" \in Flying <=> "settle" \in Flying
    BY DEF Flying
  <2>2. InState(Flying)' = InState(Flying)
    BY <1>11, <2>1, Stays DEF Fails
  <2> QED
    BY <1>11, <2>2, Countable DEF Fails, InFlightExact
<1>12. ASSUME NEW t \in Task, Drains(t) PROVE InFlightExact'
  <2>1. "body" \in Flying <=> "ok" \in Flying
    BY DEF Flying
  <2>2. InState(Flying)' = InState(Flying)
    BY <1>12, <2>1, Stays DEF Drains
  <2> QED
    BY <1>12, <2>2, Countable DEF Drains, InFlightExact
<1>13. ASSUME NEW t \in Task, BreaksOff(t) PROVE InFlightExact'
  <2>1. "body" \in Flying <=> "failed" \in Flying
    BY DEF Flying
  <2>2. InState(Flying)' = InState(Flying)
    BY <1>13, <2>1, Stays DEF BreaksOff
  <2> QED
    BY <1>13, <2>2, Countable DEF BreaksOff, InFlightExact
<1>14. ASSUME NEW t \in Task, Record(t) PROVE InFlightExact'
  <2>1. Becomes(t, task[t], "settle") /\ (task[t] \in Flying <=> "settle" \in Flying)
    BY <1>14 DEF Record, Becomes, Flying
  <2>2. InState(Flying)' = InState(Flying)
    BY <2>1, Stays
  <2> QED
    BY <1>14, <2>2 DEF Record, InFlightExact
<1>15. ASSUME NEW t \in Task, Settle(t) PROVE InFlightExact'
  <2>1. "settle" \in Flying /\ "idle" \notin Flying /\ "ended" \notin Flying
    BY DEF Flying
  <2>2. Becomes(t, "settle", "idle") \/ Becomes(t, "settle", "ended")
    BY <1>15 DEF Settle, Becomes
  <2>3. Cardinality(InState(Flying)) = Cardinality(InState(Flying)') + 1
    BY <2>1, <2>2, Leaves
  <2> QED
    BY <1>15, <2>3, Countable DEF Settle, InFlightExact
<1>16. CASE UNCHANGED vars
  BY <1>16 DEF vars, InFlightExact, InState
<1> QED
  BY <1>1, <1>2, <1>3, <1>4, <1>5, <1>6, <1>7, <1>8, <1>9, <1>10, <1>11,
     <1>12, <1>13, <1>14, <1>15, <1>16
     DEF Next, OpenLoop, WorkerStep, ExecuteRequest

\* Every step keeps the account of the budget.
LEMMA BudgetPreserved == TypeOK /\ Stages /\ BudgetConserved /\ [Next]_vars => BudgetConserved'
<1> SUFFICES ASSUME TypeOK, Stages, BudgetConserved, [Next]_vars PROVE BudgetConserved'
  OBVIOUS
<1> USE NumberAssumption DEF counters, launcher, clock
<1>1. CASE DeadlinePasses \/ WarmupEnds \/ LauncherStops \/ Schedule \/ Drop \/ Report
  BY <1>1 DEF DeadlinePasses, WarmupEnds, LauncherStops, Schedule, Drop, Report, BudgetConserved, InState
<1>2. ASSUME NEW t \in Task, Launch(t) PROVE BudgetConserved'
  <2>1. mode # "requests" /\ mode' = mode
    BY <1>2 DEF Launch, Stages, Closed
  <2> QED
    BY <2>1 DEF BudgetConserved
<1>3. ASSUME NEW t \in Task, WorkerStops(t) PROVE BudgetConserved'
  <2>1. "idle" \in Taken <=> "ended" \in Taken
    BY DEF Taken
  <2>2. InState(Taken)' = InState(Taken)
    BY <1>3, <2>1, Stays DEF WorkerStops
  <2> QED
    BY <1>3, <2>2, Countable DEF WorkerStops, BudgetConserved
<1>4. ASSUME NEW t \in Task, WorkerProceeds(t) PROVE BudgetConserved'
  BY <1>4 DEF WorkerProceeds, BudgetConserved
<1>5. ASSUME NEW t \in Task, LoadBudget(t) PROVE BudgetConserved'
  <2>1. "idle" \in Taken <=> "acquire" \in Taken
    BY DEF Taken
  <2>2. InState(Taken)' = InState(Taken)
    BY <1>5, <2>1, Stays DEF LoadBudget
  <2> QED
    BY <1>5, <2>2, Countable DEF LoadBudget, BudgetConserved
<1>6. ASSUME NEW t \in Task, BudgetSpent(t) PROVE BudgetConserved'
  <2>1. "acquire" \in Taken <=> "ended" \in Taken
    BY DEF Taken
  <2>2. InState(Taken)' = InState(Taken)
    BY <1>6, <2>1, Stays DEF BudgetSpent
  <2> QED
    BY <1>6, <2>2, Countable DEF BudgetSpent, BudgetConserved
<1>7. ASSUME NEW t \in Task, Acquire(t) PROVE BudgetConserved'
  <2>1. "acquire" \notin Taken /\ "begin" \in Taken
    BY DEF Taken
  <2>2. Cardinality(InState(Taken)') = Cardinality(InState(Taken)) + 1
    BY <1>7, <2>1, Enters DEF Acquire
  <2>3. budget' = budget - 1 /\ UNCHANGED <<mode, warmup, completed>>
    BY <1>7 DEF Acquire
  <2> QED
    BY <2>2, <2>3, Countable DEF BudgetConserved, TypeOK
<1>8. ASSUME NEW t \in Task, AcquireFails(t) PROVE BudgetConserved'
  BY <1>8 DEF AcquireFails, BudgetConserved, InState
<1>9. ASSUME NEW t \in Task, Begin(t) PROVE BudgetConserved'
  <2>1. "begin" \in Taken <=> "waiting" \in Taken
    BY DEF Taken
  <2>2. InState(Taken)' = InState(Taken)
    BY <1>9, <2>1, Stays DEF Begin
  <2> QED
    BY <1>9, <2>2, Countable DEF Begin, BudgetConserved
<1>10. ASSUME NEW t \in Task, Responds(t) PROVE BudgetConserved'
  <2>1. "waiting" \in Taken <=> "body" \in Taken
    BY DEF Taken
  <2>2. InState(Taken)' = InState(Taken)
    BY <1>10, <2>1, Stays DEF Responds
  <2> QED
    BY <1>10, <2>2, Countable DEF Responds, BudgetConserved
<1>11. ASSUME NEW t \in Task, Fails(t) PROVE BudgetConserved'
  <2>1. "waiting" \in Taken /\ "settle" \notin Taken
    BY DEF Taken
  <2>2. Cardinality(InState(Taken)) = Cardinality(InState(Taken)') + 1
    BY <1>11, <2>1, Leaves DEF Fails
  <2>3. warmup' = "none" => warmup = "none" /\ completed' = completed + 1
    BY <1>11 DEF Fails
  <2>4. mode' = mode /\ budget' = budget
    BY <1>11 DEF Fails
  <2> QED
    BY <2>2, <2>3, <2>4, Countable DEF BudgetConserved, TypeOK
<1>12. ASSUME NEW t \in Task, Drains(t) PROVE BudgetConserved'
  <2>1. "body" \in Taken <=> "ok" \in Taken
    BY DEF Taken
  <2>2. InState(Taken)' = InState(Taken)
    BY <1>12, <2>1, Stays DEF Drains
  <2> QED
    BY <1>12, <2>2, Countable DEF Drains, BudgetConserved
<1>13. ASSUME NEW t \in Task, BreaksOff(t) PROVE BudgetConserved'
  <2>1. "body" \in Taken <=> "failed" \in Taken
    BY DEF Taken
  <2>2. InState(Taken)' = InState(Taken)
    BY <1>13, <2>1, Stays DEF BreaksOff
  <2> QED
    BY <1>13, <2>2, Countable DEF BreaksOff, BudgetConserved
<1>14. ASSUME NEW t \in Task, Record(t) PROVE BudgetConserved'
  <2>1. Becomes(t, task[t], "settle") /\ task[t] \in Taken /\ "settle" \notin Taken
    BY <1>14 DEF Record, Becomes, Taken
  <2>2. Cardinality(InState(Taken)) = Cardinality(InState(Taken)') + 1
    BY <2>1, Leaves
  <2>3. warmup' = "none" => warmup = "none" /\ completed' = completed + 1
    BY <1>14 DEF Record
  <2>4. mode' = mode /\ budget' = budget
    BY <1>14 DEF Record
  <2> QED
    BY <2>2, <2>3, <2>4, Countable DEF BudgetConserved, TypeOK
<1>15. ASSUME NEW t \in Task, Settle(t) PROVE BudgetConserved'
  <2>1. "settle" \notin Taken /\ "idle" \notin Taken /\ "ended" \notin Taken
    BY DEF Taken
  <2>2. Becomes(t, "settle", "idle") \/ Becomes(t, "settle", "ended")
    BY <1>15 DEF Settle, Becomes
  <2>3. InState(Taken)' = InState(Taken)
    BY <2>1, <2>2, Stays
  <2> QED
    BY <1>15, <2>3 DEF Settle, BudgetConserved
<1>16. CASE UNCHANGED vars
  BY <1>16 DEF vars, BudgetConserved, InState
<1> QED
  BY <1>1, <1>2, <1>3, <1>4, <1>5, <1>6, <1>7, <1>8, <1>9, <1>10, <1>11,
     <1>12, <1>13, <1>14, <1>15, <1>16
     DEF Next, OpenLoop, WorkerStep, ExecuteRequest
-----------------------------------------------------------------------------
\* Every step keeps the books of the report.
LEMMA ReportingPreserved == TypeOK /\ Stages /\ Reporting /\ [Next]_vars => Reporting'
<1> SUFFICES ASSUME TypeOK, Stages, Reporting, [Next]_vars, warmup' = "none"
             PROVE  Reporting'
  BY DEF Reporting
<1> DEFINE failed == Cardinality(InState({"failed"}))
           taken == Cardinality(InState(Taken))
<1>0. warmup = "none"
  <2> USE DEF counters, launcher, clock
  <2>1. CASE UNCHANGED warmup
    BY <2>1
  <2>2. CASE WarmupEnds
    BY <2>2 DEF WarmupEnds
  <2> QED
    BY <2>1, <2>2 DEF Next, DeadlinePasses, OpenLoop, LauncherStops, Schedule, Drop, Launch,
       Report, WorkerStep, WorkerStops, WorkerProceeds, LoadBudget, BudgetSpent, Acquire,
       AcquireFails, Begin, ExecuteRequest, Responds, Fails, Drains, BreaksOff, Record,
       Settle, vars
<1>a. /\ failed \in Nat /\ taken \in Nat /\ failed' \in Nat /\ taken' \in Nat
      /\ HistogramsFit
      /\ completed + failed = succeeded + errors["io"] + errors["timeout"] + errors["protocol"]
      /\ ~Closed => completed + drops + taken + (IF pc = "decide" THEN 1 ELSE 0) = tickets
  BY <1>0, Countable DEF Reporting
<1>b. ASSUME UNCHANGED <<mode, task, counters, drops, tickets>>, pc' = "decide" <=> pc = "decide"
      PROVE  Reporting'
  BY <1>a, <1>b DEF Reporting, Closed, InState, counters, HistogramsFit
<1>d. ASSUME mode' = mode, HistogramsFit',
             completed' + failed'
               = succeeded' + errors'["io"] + errors'["timeout"] + errors'["protocol"],
             ~Closed => completed' + drops' + taken' + (IF pc' = "decide" THEN 1 ELSE 0) = tickets'
      PROVE  Reporting'
  BY <1>d DEF Reporting, Closed
<1>c. ASSUME UNCHANGED <<mode, counters, drops, tickets, pc>>, failed' = failed,
             Closed \/ taken' = taken
      PROVE  Reporting'
  BY <1>a, <1>c DEF Reporting, Closed, counters, HistogramsFit
<1> HIDE DEF failed, taken
<1>1. CASE DeadlinePasses \/ WarmupEnds
  BY <1>1, <1>b DEF DeadlinePasses, WarmupEnds, launcher
<1>2. CASE LauncherStops
  BY <1>2, <1>b DEF LauncherStops, clock
<1>3. CASE Schedule
  <2>1. /\ pc = "launch" /\ pc' = "decide" /\ tickets' = tickets + 1
        /\ UNCHANGED <<mode, task, counters, drops>>
    BY <1>3 DEF Schedule, clock
  <2>2. failed' = failed /\ taken' = taken
    BY <2>1 DEF failed, taken, InState
  <2> QED
    BY <1>a, <2>1, <2>2 DEF Reporting, Closed, counters, TypeOK, HistogramsFit, failed, taken
<1>4. CASE Drop
  <2>1. /\ pc = "decide" /\ pc' = "launch" /\ drops' = drops + 1
        /\ UNCHANGED <<mode, task, counters, tickets>>
    BY <1>4 DEF Drop, clock
  <2>2. failed' = failed /\ taken' = taken
    BY <2>1 DEF failed, taken, InState
  <2> QED
    BY <1>a, <2>1, <2>2 DEF Reporting, Closed, counters, TypeOK, HistogramsFit, failed, taken
<1>5. CASE Report
  BY <1>5, <1>b DEF Report, clock
<1>6. ASSUME NEW t \in Task, Launch(t) PROVE Reporting'
  <2>1. /\ pc = "decide" /\ pc' = "launch" /\ Becomes(t, "unused", "waiting")
        /\ UNCHANGED <<mode, counters, drops, tickets>>
    BY <1>6 DEF Launch, clock
  <2>2. failed' = failed
    BY <2>1, Stays DEF failed
  <2>3. taken' = taken + 1
    BY <2>1, Enters DEF taken, Taken
  <2> QED
    BY <1>a, <2>1, <2>2, <2>3 DEF Reporting, Closed, counters, TypeOK, HistogramsFit, failed, taken
<1>7. ASSUME NEW t \in Task, WorkerStops(t) PROVE Reporting'
  <2>1. Becomes(t, "idle", "ended") /\ UNCHANGED <<mode, counters, drops, tickets, pc>>
    BY <1>7 DEF WorkerStops, clock, launcher
  <2>2. failed' = failed
    BY <2>1, Stays DEF failed
  <2>3. taken' = taken
    BY <2>1, Stays DEF taken, Taken
  <2> QED
    BY <1>c, <2>1, <2>2, <2>3
<1>8. ASSUME NEW t \in Task, WorkerProceeds(t) PROVE Reporting'
  <2>1. Becomes(t, "idle", "begin") /\ UNCHANGED <<mode, counters, drops, tickets, pc>>
    BY <1>8 DEF WorkerProceeds, clock, launcher
  <2>2. failed' = failed
    BY <2>1, Stays DEF failed
  <2>3. Closed
    BY <1>8 DEF WorkerProceeds, Becomes, Stages
  <2> QED
    BY <1>c, <2>1, <2>2, <2>3
<1>9. ASSUME NEW t \in Task, LoadBudget(t) PROVE Reporting'
  <2>1. Becomes(t, "idle", "acquire") /\ UNCHANGED <<mode, counters, drops, tickets, pc>>
    BY <1>9 DEF LoadBudget, clock, launcher
  <2>2. failed' = failed
    BY <2>1, Stays DEF failed
  <2>3. taken' = taken
    BY <2>1, Stays DEF taken, Taken
  <2> QED
    BY <1>c, <2>1, <2>2, <2>3
<1>10. ASSUME NEW t \in Task, BudgetSpent(t) PROVE Reporting'
  <2>1. Becomes(t, "acquire", "ended") /\ UNCHANGED <<mode, counters, drops, tickets, pc>>
    BY <1>10 DEF BudgetSpent, clock, launcher
  <2>2. failed' = failed
    BY <2>1, Stays DEF failed
  <2>3. taken' = taken
    BY <2>1, Stays DEF taken, Taken
  <2> QED
    BY <1>c, <2>1, <2>2, <2>3
<1>11. ASSUME NEW t \in Task, Acquire(t) PROVE Reporting'
  <2>1. Becomes(t, "acquire", "begin") /\ UNCHANGED <<mode, counters, drops, tickets, pc>>
    BY <1>11 DEF Acquire, clock, launcher
  <2>2. failed' = failed
    BY <2>1, Stays DEF failed
  <2>3. Closed
    BY <1>11 DEF Acquire, Becomes, Stages
  <2> QED
    BY <1>c, <2>1, <2>2, <2>3
<1>12. ASSUME NEW t \in Task, AcquireFails(t) PROVE Reporting'
  BY <1>12, <1>b DEF AcquireFails, clock, launcher
<1>13. ASSUME NEW t \in Task, Begin(t) PROVE Reporting'
  <2>1. Becomes(t, "begin", "waiting") /\ UNCHANGED <<mode, counters, drops, tickets, pc>>
    BY <1>13 DEF Begin, clock, launcher
  <2>2. failed' = failed
    BY <2>1, Stays DEF failed
  <2>3. taken' = taken
    BY <2>1, Stays DEF taken, Taken
  <2> QED
    BY <1>c, <2>1, <2>2, <2>3
<1>14. ASSUME NEW t \in Task, Responds(t) PROVE Reporting'
  <2>1. Becomes(t, "waiting", "body") /\ UNCHANGED <<mode, counters, drops, tickets, pc>>
    BY <1>14 DEF Responds, clock, launcher
  <2>2. failed' = failed
    BY <2>1, Stays DEF failed
  <2>3. taken' = taken
    BY <2>1, Stays DEF taken, Taken
  <2> QED
    BY <1>c, <2>1, <2>2, <2>3
<1>15. ASSUME NEW t \in Task, Fails(t) PROVE Reporting'
  <2>1. /\ Becomes(t, "waiting", "settle") /\ completed' = completed + 1
        /\ UNCHANGED <<mode, succeeded, latencies, overlong, drops, tickets, pc>>
    BY <1>0, <1>15 DEF Fails, clock, launcher
  <2>2. PICK b \in Buckets : errors' = [errors EXCEPT ![b] = @ + 1]
    BY <1>0, <1>15 DEF Fails, Count
  <2>3. errors'["io"] + errors'["timeout"] + errors'["protocol"]
          = errors["io"] + errors["timeout"] + errors["protocol"] + 1
    BY <2>2 DEF TypeOK, Buckets
  <2>4. failed' = failed
    BY <2>1, Stays DEF failed
  <2>5. taken = taken' + 1
    BY <2>1, Leaves DEF taken, Taken
  <2>6. /\ errors["io"] \in Nat /\ errors["timeout"] \in Nat /\ errors["protocol"] \in Nat
    BY DEF TypeOK, Buckets
  <2> DEFINE sum == errors["io"] + errors["timeout"] + errors["protocol"]
  <2>7. sum \in Nat /\ completed + failed = succeeded + sum
    BY <1>a, <2>6 DEF TypeOK
  <2>8. completed \in Nat /\ succeeded \in Nat /\ drops \in Nat /\ tickets \in Nat
    BY DEF TypeOK
  <2>9. completed' + failed' = succeeded' + errors'["io"] + errors'["timeout"] + errors'["protocol"]
    <3>1. succeeded' + errors'["io"] + errors'["timeout"] + errors'["protocol"]
            = succeeded + sum + 1
      BY <2>1, <2>2, <2>6, <2>8 DEF TypeOK, Buckets
    <3> QED
      BY <1>a, <2>1, <2>4, <2>7, <2>8, <3>1
  <2>10. ~Closed => completed' + drops' + taken' + (IF pc' = "decide" THEN 1 ELSE 0) = tickets'
    <3>1. completed' = completed + 1 /\ UNCHANGED <<drops, tickets, pc>>
      BY <2>1
    <3>2. ~Closed => completed + drops + taken + (IF pc = "decide" THEN 1 ELSE 0) = tickets
      BY <1>a
    <3>3. taken \in Nat /\ taken' \in Nat
      BY <1>a
    <3> DEFINE due == IF pc = "decide" THEN 1 ELSE 0
    <3>4. due \in Nat /\ (IF pc' = "decide" THEN 1 ELSE 0) = due
      BY <3>1
    <3>5. ~Closed => completed + drops + taken + due = tickets
      BY <3>2
    <3> HIDE DEF due
    <3> SUFFICES ASSUME ~Closed PROVE completed' + drops' + taken' + due = tickets'
      BY <3>4
    <3>6. completed + drops + (taken' + 1) + due = tickets
      BY <2>5, <3>5
    <3>7. (completed + 1) + drops + taken' + due = tickets
      <4>1. \A p, q, r, s \in Nat : p + q + (r + 1) + s = (p + 1) + q + r + s
        OBVIOUS
      <4>2. completed \in Nat /\ drops \in Nat /\ taken' \in Nat /\ due \in Nat
        BY <2>8, <3>3, <3>4
      <4>3. completed + drops + (taken' + 1) + due = (completed + 1) + drops + taken' + due
        BY <4>1, <4>2
      <4> QED
        BY <3>6, <4>3
    <3> QED
      BY <3>1, <3>7
  <2>11. HistogramsFit' /\ mode' = mode
    BY <1>a, <2>1 DEF HistogramsFit
  <2> QED
    BY <1>d, <2>9, <2>10, <2>11
<1>16. ASSUME NEW t \in Task, Drains(t) PROVE Reporting'
  <2>1. Becomes(t, "body", "ok") /\ UNCHANGED <<mode, counters, drops, tickets, pc>>
    BY <1>16 DEF Drains, clock, launcher
  <2>2. failed' = failed
    BY <2>1, Stays DEF failed
  <2>3. taken' = taken
    BY <2>1, Stays DEF taken, Taken
  <2> QED
    BY <1>c, <2>1, <2>2, <2>3
<1>17. ASSUME NEW t \in Task, BreaksOff(t) PROVE Reporting'
  <2>1. /\ Becomes(t, "body", "failed")
        /\ errors' = [errors EXCEPT !["io"] = @ + 1]
        /\ UNCHANGED <<mode, completed, succeeded, latencies, overlong, drops, tickets, pc>>
    BY <1>17 DEF BreaksOff, Count, clock, launcher
  <2>2. failed' = failed + 1
    <3>1. "body" \notin {"failed"} /\ "failed" \in {"failed"}
      OBVIOUS
    <3>2. Cardinality(InState({"failed"})') = Cardinality(InState({"failed"})) + 1
      BY <2>1, <3>1, Enters
    <3> QED
      BY <3>2 DEF failed
  <2>3. taken' = taken
    BY <2>1, Stays DEF taken, Taken
  <2>4. /\ errors["io"] \in Nat /\ errors["timeout"] \in Nat /\ errors["protocol"] \in Nat
        /\ errors'["io"] = errors["io"] + 1 /\ errors'["timeout"] = errors["timeout"]
        /\ errors'["protocol"] = errors["protocol"]
    BY <2>1 DEF TypeOK, Buckets
  <2>5. completed \in Nat /\ succeeded \in Nat /\ drops \in Nat /\ tickets \in Nat
    BY DEF TypeOK
  <2>6. completed' + failed' = succeeded' + errors'["io"] + errors'["timeout"] + errors'["protocol"]
    BY <1>a, <2>1, <2>2, <2>4, <2>5
  <2>7. ~Closed => completed' + drops' + taken' + (IF pc' = "decide" THEN 1 ELSE 0) = tickets'
    BY <1>a, <2>1, <2>3
  <2>8. HistogramsFit' /\ mode' = mode
    BY <1>a, <2>1 DEF HistogramsFit
  <2> QED
    BY <1>d, <2>6, <2>7, <2>8
<1>18. ASSUME NEW t \in Task, Record(t) PROVE Reporting'
  <2>1. /\ mode' = mode /\ drops' = drops /\ tickets' = tickets /\ pc' = pc
        /\ completed' = completed + 1 /\ errors' = errors
    BY <1>0, <1>18 DEF Record, clock, launcher
  <2>2. task[t] \in {"ok", "failed"} /\ Becomes(t, task[t], "settle")
    BY <1>18 DEF Record, Becomes
  <2>3. taken' = taken - 1
    <3>1. Cardinality(InState(Taken)) = Cardinality(InState(Taken)') + 1
      BY <2>2, Leaves DEF Taken
    <3> QED
      BY <3>1, Countable DEF taken
  <2>4. /\ completed \in Nat /\ succeeded \in Nat /\ overlong \in Nat
        /\ latencies \in [Histograms -> Nat]
        /\ drops \in Nat /\ tickets \in Nat
        /\ errors["io"] \in Nat /\ errors["timeout"] \in Nat /\ errors["protocol"] \in Nat
    BY DEF TypeOK, Buckets
  <2>5. ~Closed => completed' + drops' + taken' + (IF pc' = "decide" THEN 1 ELSE 0) = tickets'
    BY <1>a, <2>1, <2>3, <2>4
  <2>6. CASE task[t] = "ok"
    <3>1. failed' = failed
      BY <2>2, <2>6, Stays DEF failed
    <3>4. PICK fit \in Fitting : Succeed(fit)
      BY <1>0, <1>18, <2>6 DEF Record
    <3>2. succeeded' = succeeded + 1 /\ HistogramsFit'
      BY <1>a, <2>4, <3>4 DEF Succeed, Fitting, Histograms, HistogramsFit
    <3>3. completed' + failed'
            = succeeded' + errors'["io"] + errors'["timeout"] + errors'["protocol"]
      BY <1>a, <2>1, <2>4, <3>1, <3>2
    <3> QED
      BY <1>a, <1>d, <2>1, <2>5, <3>2, <3>3
  <2>7. CASE task[t] = "failed"
    <3>1. failed = failed' + 1
      <4>1. "failed" \in {"failed"} /\ "settle" \notin {"failed"} /\ Becomes(t, "failed", "settle")
        BY <2>2, <2>7
      <4>2. Cardinality(InState({"failed"})) = Cardinality(InState({"failed"})') + 1
        BY <4>1, Leaves
      <4> QED
        BY <4>2 DEF failed
    <3>2. succeeded' = succeeded /\ HistogramsFit'
      BY <1>a, <1>0, <1>18, <2>4, <2>7 DEF Record, HistogramsFit
    <3>3. completed' + failed'
            = succeeded' + errors'["io"] + errors'["timeout"] + errors'["protocol"]
      BY <1>a, <2>1, <2>4, <3>1, <3>2
    <3> QED
      BY <1>a, <1>d, <2>1, <2>5, <3>2, <3>3
  <2> QED
    BY <2>2, <2>6, <2>7
<1>19. ASSUME NEW t \in Task, Settle(t) PROVE Reporting'
  <2>1. \E to \in {"idle", "ended"} : Becomes(t, "settle", to)
    BY <1>19 DEF Settle
  <2>2. UNCHANGED <<mode, counters, drops, tickets, pc>>
    BY <1>19 DEF Settle, clock, launcher
  <2>3. failed' = failed /\ taken' = taken
    BY <2>1, Stays DEF failed, taken, Taken
  <2> QED
    BY <1>c, <2>2, <2>3
<1>20. CASE UNCHANGED vars
  BY <1>20, <1>b DEF vars, counters
<1> QED
  BY <1>1, <1>2, <1>3, <1>4, <1>5, <1>6, <1>7, <1>8, <1>9, <1>10, <1>11, <1>12, <1>13,
     <1>14, <1>15, <1>16, <1>17, <1>18, <1>19, <1>20
     DEF Next, OpenLoop, WorkerStep, ExecuteRequest
-----------------------------------------------------------------------------
\* Every reachable state satisfies the inductive invariant.
THEOREM Invariance == Spec => []IInv
<1>1. Init => IInv
  <2> SUFFICES ASSUME Init PROVE IInv
    OBVIOUS
  <2>1. TypeOK
    BY NumberAssumption DEF Init, TypeOK, Buckets, Histograms
  <2>2. pc \in {"join", "launch"} /\ (Closed <=> pc = "join")
    BY DEF Init, Closed
  <2>3. Stages /\ CapRespected
    BY <2>2, NumberAssumption DEF Init, Stages, CapRespected, Closed
  <2>4. InState(Flying) = {} /\ InState(Taken) = {} /\ InState({"failed"}) = {}
    BY DEF Init, InState, Flying, Taken
  <2>5. CountersExact
    BY <2>4, FS_EmptySet, NumberAssumption DEF Init, CountersExact, InFlightExact, BudgetConserved
  <2>6. Reporting
    BY <2>2, <2>4, FS_EmptySet DEF Init, Reporting, HistogramsFit, Histograms, Buckets
  <2> QED
    BY <2>1, <2>3, <2>5, <2>6 DEF IInv
<1>2. IInv /\ [Next]_vars => IInv'
  BY TypePreserved, StagesPreserved, CapPreserved, InFlightPreserved, BudgetPreserved,
     ReportingPreserved DEF IInv, CountersExact
<1> QED
  BY <1>1, <1>2, PTL DEF Spec

\* The counters of the load generator stay natural numbers: no fetch_sub and no
\* acquisition of the budget wraps around.
THEOREM TypeCorrect == Spec => []TypeOK
<1>1. IInv => TypeOK
  BY DEF IInv
<1> QED
  BY <1>1, Invariance, PTL

\* The open loop never has more requests in flight than --max-concurrency.
THEOREM CapHolds == Spec => []Capped
<1>1. IInv => Capped
  BY DEF IInv, CapRespected, CountersExact, InFlightExact, Capped
<1> QED
  BY <1>1, Invariance, PTL

\* No request of the budget is lost or made twice, whatever the workers' loops
\* around compare_exchange_weak do to each other, and in_flight is the number of
\* requests in flight, whichever way each of them ends.
THEOREM CountersAlwaysExact == Spec => []CountersExact
<1>1. IInv => CountersExact
  BY DEF IInv
<1> QED
  BY <1>1, Invariance, PTL

\* Stats::report: every completed request and every ticket is accounted for once.
THEOREM ReportAlwaysAddsUp == Spec => []ReportAddsUp
<1>1. IInv => ReportAddsUp
  <2> SUFFICES ASSUME IInv, warmup = "none", pc = "done" PROVE ReportAddsUp
    BY DEF ReportAddsUp
  <2>1. \A t \in Task : task[t] \in {"ended", "unused"}
    BY DEF IInv, Stages
  <2>2. InState(Taken) = {} /\ InState({"failed"}) = {}
    BY <2>1 DEF InState, Taken
  <2> QED
    BY <2>2, FS_EmptySet DEF IInv, TypeOK, Reporting, ReportAddsUp
<1> QED
  BY <1>1, Invariance, PTL

\* With at least one worker, a closed loop with --requests reports just as many.
THEOREM RequestsReported == ASSUME Task # {} PROVE Spec => []AllRequestsReported
<1>1. IInv => AllRequestsReported
  <2> SUFFICES ASSUME IInv, mode = "requests", warmup = "none", pc = "done"
               PROVE  completed = Requests
    BY DEF AllRequestsReported
  <2>1. \A t \in Task : task[t] = "ended"
    BY DEF IInv, Stages, Closed
  <2>2. budget = 0
    BY <2>1 DEF IInv, Stages
  <2>3. InState(Taken) = {}
    BY <2>1 DEF InState, Taken
  <2>4. budget + 0 + completed = Requests
    BY <2>3, FS_EmptySet DEF IInv, CountersExact, BudgetConserved
  <2> QED
    BY <2>2, <2>4 DEF IInv, TypeOK
<1> QED
  BY <1>1, Invariance, PTL
=============================================================================
