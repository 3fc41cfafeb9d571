------------------------------- MODULE Bench -------------------------------
(***************************************************************************)
(* The load generator (src/bench.rs): the closed loop, whose workers share *)
(* a budget of requests, the open loop, whose launcher starts a task for   *)
(* each ticket of its schedule, execute_request, and the statistics from   *)
(* which the report is made when every task has ended.                     *)
(*                                                                         *)
(* A task is a worker of the closed loop or one request of the open loop:  *)
(*   "unused"   an open loop's task that has not been launched             *)
(*   "idle"     a worker between two requests                              *)
(*   "acquire"  a worker in the loop around compare_exchange_weak          *)
(*   "begin"    about to send a request                                    *)
(*   "waiting"  for the response, then "body" while it is drained          *)
(*   "ok", "failed"   the body was drained, or could not be                *)
(*   "settle"   execute_request has returned                               *)
(*   "ended"    joined by the main task                                    *)
(***************************************************************************)
EXTENDS Naturals, FiniteSets

CONSTANTS Task,      \* --connections, or the requests an open loop can launch
          Requests,  \* --requests, the budget of a closed loop
          Cap,       \* --max-concurrency; no cap is one that is never reached
          MaxSent,   \* bound: requests sent where neither budget nor tasks end them
          MaxTickets \* bound: tickets of an open loop

ASSUME TaskAssumption == IsFiniteSet(Task)
ASSUME NumberAssumption == /\ Requests \in Nat /\ Cap \in Nat
                           /\ MaxSent \in Nat /\ MaxTickets \in Nat

VARIABLES mode,       \* "requests", "duration", "open" or "unbounded"
          limited,    \* whether there is a --timeout
          warmup,     \* "none" without --warmup, else "on" and then "over"
          overdue,    \* the deadline has passed
          pc,         \* the main task: "launch", "decide", "join" or "done"
          seen,       \* in_flight as the launcher has read it
          task, budget,
          current,    \* the budget as each worker has read it
          inFlight, completed, succeeded, drops,
          errors,     \* by bucket
          latencies,  \* entries of each of the three histograms
          overlong,   \* history: successes that some histogram has no room for
          sent,       \* request bodies counted in bytes_sent
          tickets     \* tickets the open loop has scheduled

counters == <<completed, succeeded, errors, latencies, overlong>>
launcher == <<pc, seen, tickets, drops>>
clock == <<mode, limited, warmup, overdue>>
vars == <<mode, limited, warmup, overdue, pc, seen, task, budget, current, inFlight,
          completed, succeeded, drops, errors, latencies, overlong, sent, tickets>>

Closed == mode \in {"requests", "duration"}
HasDeadline == mode \in {"duration", "open"}
Buckets == {"io", "timeout", "protocol"}
Histograms == {"ttfb", "total", "queue"}

InState(states) == {t \in Task : task[t] \in states}

\* Between the fetch_add and the fetch_sub of in_flight.
Flying == {"waiting", "body", "ok", "failed", "settle"}

TypeOK == /\ mode \in {"requests", "duration", "open", "unbounded"}
          /\ limited \in BOOLEAN
          /\ warmup \in {"none", "on", "over"}
          /\ overdue \in BOOLEAN
          /\ pc \in {"launch", "decide", "join", "done"}
          /\ seen \in Nat /\ budget \in Nat /\ inFlight \in Nat /\ completed \in Nat
          /\ succeeded \in Nat /\ drops \in Nat /\ overlong \in Nat /\ sent \in Nat
          /\ tickets \in Nat
          /\ errors \in [Buckets -> Nat]
          /\ latencies \in [Histograms -> Nat]
          /\ task \in [Task -> Flying \cup {"unused", "idle", "acquire", "begin", "ended"}]
          /\ current \in [Task -> Nat]

Init == /\ mode \in {"requests", "duration", "open", "unbounded"}
        /\ limited \in BOOLEAN
        /\ warmup \in {"none", "on"}
        /\ overdue = FALSE
        /\ pc = IF Closed THEN "join" ELSE "launch"
        /\ seen = 0
        /\ task = [t \in Task |-> IF Closed THEN "idle" ELSE "unused"]
        /\ budget = Requests
        /\ current = [t \in Task |-> 0]
        /\ inFlight = 0 /\ completed = 0 /\ succeeded = 0 /\ drops = 0
        /\ errors = [b \in Buckets |-> 0]
        /\ latencies = [h \in Histograms |-> 0]
        /\ overlong = 0 /\ sent = 0 /\ tickets = 0
-----------------------------------------------------------------------------
(* Time                                                                    *)

DeadlinePasses == /\ HasDeadline
                  /\ ~overdue
                  /\ overdue' = TRUE
                  /\ UNCHANGED <<mode, limited, warmup, launcher, task, budget, current,
                                 inFlight, counters, sent>>

WarmupEnds == /\ warmup = "on"
              /\ warmup' = "over"
              /\ UNCHANGED <<mode, limited, overdue, launcher, task, budget, current,
                             inFlight, counters, sent>>
-----------------------------------------------------------------------------
(* run_closed_loop: the top of a worker's loop                             *)

Becomes(t, from, to) == /\ task[t] = from
                        /\ task' = [task EXCEPT ![t] = to]

\* The deadline has passed.
WorkerStops(t) == /\ Closed
                  /\ overdue
                  /\ Becomes(t, "idle", "ended")
                  /\ UNCHANGED <<clock, launcher, budget, current, inFlight, counters, sent>>

\* Without a budget there is nothing to acquire.
WorkerProceeds(t) == /\ mode = "duration"
                     /\ ~overdue
                     /\ sent + Cardinality(InState({"begin"})) < MaxSent
                     /\ Becomes(t, "idle", "begin")
                     /\ UNCHANGED <<clock, launcher, budget, current, inFlight, counters, sent>>

LoadBudget(t) == /\ mode = "requests"
                 /\ Becomes(t, "idle", "acquire")
                 /\ current' = [current EXCEPT ![t] = budget]
                 /\ UNCHANGED <<clock, launcher, budget, inFlight, counters, sent>>

\* Mutant: `continue` for `break`.
TryAgain(t) == /\ current[t] = 0
               /\ Becomes(t, "acquire", "idle")
               /\ UNCHANGED <<clock, launcher, budget, current, inFlight, counters, sent>>

\* Mutant: the last request is not made.
SpentAtOne(t) == /\ current[t] <= 1
                 /\ Becomes(t, "acquire", "ended")
                 /\ UNCHANGED <<clock, launcher, budget, current, inFlight, counters, sent>>

BudgetSpent(t) == /\ current[t] = 0
                  /\ Becomes(t, "acquire", "ended")
                  /\ UNCHANGED <<clock, launcher, budget, current, inFlight, counters, sent>>

\* Mutant: a load and a store instead of the compare-and-swap.
LoadThenStore(t) == /\ current[t] # 0
                    /\ budget' = current[t] - 1
                    /\ Becomes(t, "acquire", "begin")
                    /\ UNCHANGED <<clock, launcher, current, inFlight, counters, sent>>

\* compare_exchange_weak finds the value that was read.
Acquire(t) == /\ current[t] # 0
              /\ budget = current[t]
              /\ budget' = budget - 1
              /\ Becomes(t, "acquire", "begin")
              /\ UNCHANGED <<clock, launcher, current, inFlight, counters, sent>>

\* It finds another, and returns that.  (A spurious failure changes nothing.)
AcquireFails(t) == /\ task[t] = "acquire"
                   /\ current[t] # 0
                   /\ budget # current[t]
                   /\ current' = [current EXCEPT ![t] = budget]
                   /\ UNCHANGED <<clock, launcher, task, budget, inFlight, counters, sent>>
-----------------------------------------------------------------------------
(* run_open_loop                                                           *)

\* The deadline has passed, or the next ticket would be due after it.
LauncherStops == /\ pc = "launch"
                 /\ HasDeadline
                 /\ pc' = "join"
                 /\ UNCHANGED <<clock, seen, tickets, drops, task, budget, current,
                                inFlight, counters, sent>>

\* The next ticket is due, and in_flight is read.
Schedule == /\ pc = "launch"
            /\ ~overdue
            /\ tickets < MaxTickets
            /\ InState({"unused"}) # {}
            /\ tickets' = tickets + 1
            /\ seen' = inFlight
            /\ pc' = "decide"
            /\ UNCHANGED <<clock, drops, task, budget, current, inFlight, counters, sent>>

Drop == /\ pc = "decide"
        /\ seen >= Cap
        /\ drops' = drops + 1
        /\ pc' = "launch"
        /\ UNCHANGED <<clock, seen, tickets, task, budget, current, inFlight, counters, sent>>

\* Mutant: in_flight is counted up by the launched task, as a worker does.
LaunchUncounted(t) == /\ pc = "decide"
                      /\ seen < Cap
                      /\ Becomes(t, "unused", "begin")
                      /\ pc' = "launch"
                      /\ UNCHANGED <<clock, seen, tickets, drops, budget, current,
                                     inFlight, counters, sent>>

\* in_flight is counted up before the task is spawned.
Launch(t) == /\ pc = "decide"
             /\ seen < Cap
             /\ Becomes(t, "unused", "waiting")
             /\ inFlight' = inFlight + 1
             /\ sent' = sent + 1
             /\ pc' = "launch"
             /\ UNCHANGED <<clock, seen, tickets, drops, budget, current, counters>>
-----------------------------------------------------------------------------
(* execute_request                                                         *)

\* A worker counts itself in and sends; the body's length is counted first.
Begin(t) == /\ Becomes(t, "begin", "waiting")
            /\ inFlight' = inFlight + 1
            /\ sent' = sent + 1
            /\ UNCHANGED <<clock, launcher, budget, current, counters>>

Responds(t) == /\ Becomes(t, "waiting", "body")
               /\ UNCHANGED <<clock, launcher, budget, current, inFlight, counters, sent>>

Count(bucket) == errors' = [errors EXCEPT ![bucket] = @ + 1]

\* No response: record_error, unless it is warmup.
Fails(t) == /\ Becomes(t, "waiting", "settle")
            /\ \/ /\ warmup # "on"
                  /\ completed' = completed + 1
                  /\ \E b \in Buckets : Count(b)
               \/ /\ warmup = "on"
                  /\ UNCHANGED <<completed, errors>>
            /\ UNCHANGED <<clock, launcher, budget, current, inFlight, succeeded,
                           latencies, overlong, sent>>

Drains(t) == /\ Becomes(t, "body", "ok")
             /\ UNCHANGED <<clock, launcher, budget, current, inFlight, counters, sent>>

\* The body breaks off: counted at once, whether it is warmup or not.
BreaksOff(t) == /\ Becomes(t, "body", "failed")
                /\ Count("io")
                /\ UNCHANGED <<clock, launcher, budget, current, inFlight, completed,
                               succeeded, latencies, overlong, sent>>

\* The histograms end at three minutes, and what does not fit is left out: of the
\* time to the first byte, the whole time, which is no shorter, and the time a ticket
\* waited for its launch, which a worker never has.
Fitting == {fit \in SUBSET Histograms : /\ "total" \in fit => "ttfb" \in fit
                                        /\ Closed => "queue" \in fit}

Succeed(fit) ==
  /\ succeeded' = succeeded + 1
  /\ latencies' = [h \in Histograms |-> IF h \in fit THEN latencies[h] + 1
                                        ELSE latencies[h]]
  /\ overlong' = IF fit = Histograms THEN overlong ELSE overlong + 1

\* Mutant: a broken body is also counted among the successes.
RecordAlways(t) ==
  /\ task[t] \in {"ok", "failed"}
  /\ task' = [task EXCEPT ![t] = "settle"]
  /\ \/ /\ warmup = "on"
        /\ UNCHANGED <<completed, succeeded, latencies, overlong>>
     \/ /\ warmup # "on"
        /\ completed' = completed + 1
        /\ \E fit \in Fitting : Succeed(fit)
  /\ UNCHANGED <<clock, launcher, budget, current, inFlight, errors, sent>>

\* Stats::record, unless it is warmup.
Record(t) ==
  /\ task[t] \in {"ok", "failed"}
  /\ task' = [task EXCEPT ![t] = "settle"]
  /\ completed' = IF warmup = "on" THEN completed ELSE completed + 1
  /\ \/ /\ warmup # "on"
        /\ task[t] = "ok"
        /\ \E fit \in Fitting : Succeed(fit)
     \/ /\ warmup = "on" \/ task[t] = "failed"
        /\ UNCHANGED <<succeeded, latencies, overlong>>
  /\ UNCHANGED <<clock, launcher, budget, current, inFlight, errors, sent>>

\* execute_request has returned: a worker goes on, a launched task has ended.
Settle(t) == /\ Becomes(t, "settle", IF Closed THEN "idle" ELSE "ended")
             /\ inFlight' = inFlight - 1
             /\ UNCHANGED <<clock, launcher, budget, current, counters, sent>>
-----------------------------------------------------------------------------
\* Every handle was awaited: the report is built from the counters.
Report == /\ pc = "join"
          /\ InState({"ended", "unused"}) = Task
          /\ pc' = "done"
          /\ UNCHANGED <<clock, seen, tickets, drops, task, budget, current,
                         inFlight, counters, sent>>

WorkerStep(t) == \/ WorkerStops(t) \/ WorkerProceeds(t) \/ LoadBudget(t)
                 \/ BudgetSpent(t) \/ Acquire(t) \/ AcquireFails(t) \/ Begin(t)

ExecuteRequest(t) == \/ Responds(t) \/ Fails(t) \/ Drains(t) \/ BreaksOff(t)
                     \/ Record(t) \/ Settle(t)

OpenLoop == LauncherStops \/ Schedule \/ Drop \/ \E t \in Task : Launch(t)

Next == \/ DeadlinePasses \/ WarmupEnds
        \/ OpenLoop \/ Report
        \/ \E t \in Task : WorkerStep(t) \/ ExecuteRequest(t)

Spec == Init /\ [][Next]_vars

\* Time passes and tasks are scheduled.  A request without a response is only cut
\* off by --timeout, and nothing cuts off a body.
Fairness ==
  /\ WF_vars(DeadlinePasses) /\ WF_vars(OpenLoop) /\ WF_vars(Report)
  /\ \A t \in Task : /\ WF_vars(WorkerStep(t) \/ Record(t) \/ Settle(t))
                     /\ WF_vars(limited /\ (Responds(t) \/ Fails(t)))

FairSpec == Spec /\ Fairness
-----------------------------------------------------------------------------
(* Properties                                                              *)

\* Requests a worker has taken from the budget and not reported yet.
Taken == {"begin", "waiting", "body", "ok", "failed"}

\* With --requests every unit of the budget is in one place: not taken, with one
\* worker, or completed (when there is no warmup to leave it out of the count).
\* No interleaving of the compare-and-swap loops hands one out twice.
BudgetConserved ==
  mode = "requests" /\ warmup = "none" =>
    budget + Cardinality(InState(Taken)) + completed = Requests

\* "stop after this many requests": the report counts all of them, and no more.
AllRequestsReported ==
  mode = "requests" /\ warmup = "none" /\ pc = "done" => completed = Requests

\* in_flight counts the requests in flight: it is back at zero when the report is
\* made, and no fetch_sub ever wraps it around.
InFlightExact == inFlight = Cardinality(InState(Flying))

\* --max-concurrency is a "hard cap on in-flight requests", though the launcher
\* reads in_flight before it counts the new request.
Capped == ~Closed => Cardinality(InState(Flying)) <= Cap

\* Neither the compare-and-swap loops nor the ends of requests let a counter drift.
CountersExact == BudgetConserved /\ InFlightExact

\* Each success is in all histograms but those it was too long for.
HistogramsFit ==
  /\ \A h \in Histograms : /\ latencies[h] <= succeeded
                           /\ succeeded <= latencies[h] + overlong
  /\ latencies["total"] <= latencies["ttfb"]

\* Without warmup the report adds up: what was completed succeeded or is in one
\* bucket of the errors, each success has its latencies in the histograms except
\* those that were too long for them, so that the percentiles are those of the
\* successes that fit, and every ticket of an open loop's schedule was completed or
\* counted as a saturation drop.
ReportAddsUp ==
  warmup = "none" /\ pc = "done" =>
    /\ completed = succeeded + errors["io"] + errors["timeout"] + errors["protocol"]
    /\ HistogramsFit
    /\ ~Closed => completed + drops = tickets

\* Which stages of a task and of the main task belong to which mode, and what a
\* worker knows of the budget: its copy is never below it, and it ends only when
\* nothing is left.
Stages ==
  /\ Closed => /\ pc \in {"join", "done"}
               /\ \A t \in Task : task[t] # "unused"
  /\ ~Closed => \A t \in Task : task[t] \notin {"idle", "acquire", "begin"}
  /\ pc = "done" => \A t \in Task : task[t] \in {"ended", "unused"}
  /\ mode = "requests" =>
       /\ ~overdue
       /\ \A t \in Task : /\ task[t] = "acquire" => current[t] >= budget
                          /\ task[t] = "ended" => budget = 0

\* What the launcher has read of in_flight is not exceeded until it decides: only
\* the launcher counts up.
CapRespected == ~Closed => /\ inFlight <= Cap
                           /\ pc = "decide" => inFlight <= seen

\* What the report will be made of, while requests are still under way: a body that
\* broke off is an error before it is completed, and a ticket is under way from the
\* moment it is due.
Reporting ==
  warmup = "none" =>
    /\ HistogramsFit
    /\ completed + Cardinality(InState({"failed"}))
         = succeeded + errors["io"] + errors["timeout"] + errors["protocol"]
    /\ ~Closed => completed + drops + Cardinality(InState(Taken))
                    + (IF pc = "decide" THEN 1 ELSE 0) = tickets

\* The inductive invariant behind the properties above.
IInv == /\ TypeOK /\ Stages /\ CapRespected
        /\ CountersExact /\ Reporting

\* A request that may last: the drain of a body, or without --timeout the wait for
\* an answer.
Hanging(t) == \/ task[t] = "body"
              \/ task[t] = "waiting" /\ ~limited

\* With a number of requests, a duration, or both a rate and a duration, the
\* report is made in the end, unless the server keeps one request hanging for
\* good; the main task waits for that one, whatever the deadline.
ReportIsMade == mode # "unbounded" =>
                  \/ <>(pc = "done")
                  \/ \E t \in Task : <>[]Hanging(t)
=============================================================================
