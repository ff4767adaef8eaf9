--------------------------------- MODULE Cron ---------------------------------
(***************************************************************************)
(* The cron workers (pkg/workers/queues.go) over the queues core.  A run   *)
(* of a worker fixes its now, fetches the schedules due within Lookahead   *)
(* of it, and for each of them enqueues the ticks that are not past and    *)
(* reports the next tick, one call after the other; it fetches again until *)
(* nothing is due.  Any error ends the run, and so does a crash.  Clients  *)
(* create, update and delete queues and schedules, and purges swap ids,    *)
(* between any two calls.                                                  *)
(*                                                                         *)
(* Of the tasks core only this matters here: a task enqueued under the id  *)
(* that the queue's name resolves to reaches the queue; under an id that   *)
(* was swapped or deleted, Enqueue is refused while the purge marker is    *)
(* there and lands out of reach otherwise.                                 *)
(***************************************************************************)
EXTENDS QueuesCore, SequencesExt

CONSTANTS
    Workers,              \* cron workers that are running
    Lookahead,            \* how far beyond its now a run enqueues
    Period,               \* longest time between two runs that complete
    maxDequeueSchedules,  \* limit of one DequeSchedules
    maxNumberOfEnqueueRequestEntries,
    Updates,              \* do clients update schedules?
    MaxCrashes            \* bound on the runs cut short between two calls

ASSUME CronAssumption ==
    /\ Lookahead \in Nat /\ Period \in Nat \ {0} /\ Period <= Lookahead
    /\ maxDequeueSchedules \in Nat \ {0}
    /\ maxNumberOfEnqueueRequestEntries \in Nat
    /\ Updates \in BOOLEAN /\ MaxCrashes \in Nat

VARIABLES
    run,      \* the run of each worker: its next call, its now, its entries
    enq,      \* how often each tick of a schedule was enqueued under a live id
    since,    \* when each schedule was created or last updated; -1 if its
              \* random id was not drawn yet
    lastNow,  \* the latest now of a run that completed
    crashes,  \* how many runs were cut short
    raced     \* schedules that two runs held at once, whose run was cut short
              \* after their ticks were enqueued, or that were updated

ghosts == <<crashes, raced>>
cvars == <<qdb, clock, fate, seen, run, enq, since, lastNow, crashes, raced>>

Ticks == 1 .. MaxTime + Lookahead
Idle == [call |-> "none", now |-> 0, entries |-> << >>]
Entry == [q : QueueIds, s : ScheduleIds, row : Schedule]

-------------------------------------------------------------------------------
(* One run of a worker.                                                    *)

DueBefore(x, y) ==
    \/ x[1] < y[1]
    \/ x[1] = y[1] /\ (x[2] < y[2] \/ (x[2] = y[2] /\ x[3] < y[3]))

ListDue(d, before, limit) ==
    LET due == {x \in d.scheduledIndex : x[1] <= before}
    IN  SetToSortSeq({x \in due : Cardinality({y \in due : DueBefore(y, x)}) < limit},
                     DueBefore)

\* A due schedule whose queue is gone fails the call as a whole.
DequeSchedulesFails(d, before) ==
    LET due == ListDue(d, before, maxDequeueSchedules)
    IN  \E i \in DOMAIN due : ~QueueExists(d, due[i][2])

DequeSchedules(d, before) ==
    LET due == ListDue(d, before, maxDequeueSchedules)
    IN  [i \in DOMAIN due |-> [q |-> due[i][2], s |-> due[i][3],
                               row |-> d.schedules[<<due[i][2], due[i][3]>>]]]

\* The ticks the loop of fetch visits, from the reported one on, and the one
\* it stops at.
TicksUntil(row, before) ==
    {t \in Ticks : t <= before /\ \/ t = row.nextScheduledAt
                                  \/ t > row.nextScheduledAt /\ t % row.cron = 0}

\* Mutant of NextTick: the last tick of the window is reported as the next.
lastTickAgain(row, before) ==
    LET ticks == TicksUntil(row, before)
    IN  IF ticks = {} THEN row.nextScheduledAt
        ELSE CHOOSE t \in ticks : \A u \in ticks : u <= t

NextTick(row, before) ==
    LET ticks == TicksUntil(row, before)
    IN  IF ticks = {} THEN row.nextScheduledAt
        ELSE NextTickAfter(row.cron, CHOOSE t \in ticks : \A u \in ticks : u <= t)

\* Mutant of TicksToEnqueue: a tick at the very now is taken for past.
ticksAfterNow(row, now) ==
    {t \in TicksUntil(row, now + Lookahead) : t > now}

\* Ticks before now are skipped.  A tick's ExpiresAt is after it, as every
\* ExpiresInSeconds is positive, so no other tick is dropped.
TicksToEnqueue(row, now) ==
    {t \in TicksUntil(row, now + Lookahead) : t >= now}

\* The greatest ScheduledAt enqueued, or 0.
lastEnqueued(row, now) ==
    LET ticks == TicksToEnqueue(row, now)
    IN  IF ticks = {} THEN 0 ELSE CHOOSE t \in ticks : \A u \in ticks : u <= t

Holds(entries, s) == \E i \in DOMAIN entries : entries[i].s = s

Start(w) ==
    /\ run[w].call = "none"
    /\ run' = [run EXCEPT ![w] = [Idle EXCEPT !.call = "DequeSchedules", !.now = clock]]
    /\ UNCHANGED <<qvars, enq, since, lastNow, ghosts>>

Fetch(w) ==
    LET before == run[w].now + Lookahead
        entries == DequeSchedules(qdb, before) IN
    /\ run[w].call = "DequeSchedules"
    /\ ~DequeSchedulesFails(qdb, before) /\ entries # << >>
    /\ run' = [run EXCEPT ![w].call = "Enqueue", ![w].entries = entries]
    /\ raced' = raced \cup {s \in ScheduleIds : Holds(entries, s)
                               /\ \E v \in Workers \ {w} : Holds(run[v].entries, s)}
    /\ UNCHANGED <<qvars, enq, since, lastNow, crashes>>

FetchFails(w) ==
    /\ run[w].call = "DequeSchedules"
    /\ DequeSchedulesFails(qdb, run[w].now + Lookahead)
    /\ run' = [run EXCEPT ![w] = Idle]
    /\ UNCHANGED <<qvars, enq, since, lastNow, ghosts>>

\* Nothing is due: the run completes.
Complete(w) ==
    /\ run[w].call = "DequeSchedules"
    /\ ListDue(qdb, run[w].now + Lookahead, maxDequeueSchedules) = << >>
    /\ run' = [run EXCEPT ![w] = Idle]
    /\ lastNow' = IF run[w].now > lastNow THEN run[w].now ELSE lastNow
    /\ UNCHANGED <<qvars, enq, since, ghosts>>

\* The validator refuses a request with too many entries.
EnqueueTicks(w) ==
    LET e == Head(run[w].entries)
        ticks == TicksToEnqueue(e.row, run[w].now) IN
    /\ run[w].call = "Enqueue"
    /\ Cardinality(ticks) <= maxNumberOfEnqueueRequestEntries
    /\ run' = [run EXCEPT ![w].call = "ReportSchedulesStatus"]
    /\ enq' = IF fate[e.q] # "live" THEN enq
              ELSE [x \in DOMAIN enq |->
                       IF x[1] = e.q /\ x[2] = e.s /\ x[3] \in ticks /\ enq[x] < 2
                       THEN enq[x] + 1 ELSE enq[x]]
    /\ UNCHANGED <<qvars, since, lastNow, ghosts>>

EnqueueRefused(w) ==
    LET e == Head(run[w].entries) IN
    /\ run[w].call = "Enqueue"
    /\ \/ Cardinality(TicksToEnqueue(e.row, run[w].now)) > maxNumberOfEnqueueRequestEntries
       \/ fate[e.q] # "live"
    /\ run' = [run EXCEPT ![w] = Idle]
    /\ UNCHANGED <<qvars, enq, since, lastNow, ghosts>>

Report(w) ==
    LET e == Head(run[w].entries)
        left == Tail(run[w].entries) IN
    /\ run[w].call = "ReportSchedulesStatus"
    /\ ReportSchedulesStatus(e.q, e.s, NextTick(e.row, run[w].now + Lookahead),
                             lastEnqueued(e.row, run[w].now))
    /\ run' = [run EXCEPT ![w].entries = left,
                          ![w].call = IF left = << >> THEN "DequeSchedules" ELSE "Enqueue"]
    /\ UNCHANGED <<enq, since, lastNow, ghosts>>

ReportNotFound(w) ==
    LET e == Head(run[w].entries) IN
    /\ run[w].call = "ReportSchedulesStatus"
    /\ ~ScheduleExists(qdb, e.q, e.s)
    /\ run' = [run EXCEPT ![w] = Idle]
    /\ UNCHANGED <<qvars, enq, since, lastNow, ghosts>>

\* The process stops, or the call it made is answered with an error although
\* it was applied.
Crash(w) ==
    /\ crashes < MaxCrashes /\ run[w].call # "none"
    /\ crashes' = crashes + 1
    /\ raced' = IF run[w].call = "ReportSchedulesStatus"
                THEN raced \cup {Head(run[w].entries).s} ELSE raced
    /\ run' = [run EXCEPT ![w] = Idle]
    /\ UNCHANGED <<qvars, enq, since, lastNow>>

WorkerStep(w) ==
    \/ Start(w) \/ Fetch(w) \/ FetchFails(w) \/ Complete(w)
    \/ EnqueueTicks(w) \/ EnqueueRefused(w) \/ Report(w) \/ ReportNotFound(w)

-------------------------------------------------------------------------------
(* The other processes.                                                    *)

\* Which of the unused ids is drawn makes no difference: it is the least.
LeastOf(S) == CHOOSE i \in S : \A j \in S : i <= j
FreshQueueIds == {q \in QueueIds : fate[q] = "unused"}
FreshScheduleIds == {s \in ScheduleIds : since[s] = -1}

ClientStep ==
    \/ \E n \in QueueNames :
          /\ \/ DeleteQueue(n)
             \/ /\ FreshQueueIds # {}
                /\ \/ \E x \in Settings : CreateQueue(n, LeastOf(FreshQueueIds), x)
                   \/ SwapQueueId(n, LeastOf(FreshQueueIds))
          /\ UNCHANGED <<run, enq, since, lastNow, ghosts>>
    \/ \E n \in QueueNames, sn \in ScheduleNames, c \in Crons :
          LET s == LeastOf(FreshScheduleIds) IN
          /\ FreshScheduleIds # {} /\ CreateSchedule(n, sn, s, c)
          /\ since' = [since EXCEPT ![s] = clock]
          /\ UNCHANGED <<run, enq, lastNow, ghosts>>
    \/ \E n \in QueueNames, sn \in ScheduleNames, v \in 1 .. MaxVersion, c \in Crons :
          /\ Updates /\ UpdateSchedule(n, sn, v, c)
          /\ since' = [since EXCEPT
                ![getScheduleByName(qdb, getByName(qdb, n), sn)] = clock]
          /\ raced' = raced \cup {getScheduleByName(qdb, getByName(qdb, n), sn)}
          /\ UNCHANGED <<run, enq, lastNow, crashes>>
    \/ \E n \in QueueNames, sn \in ScheduleNames :
          DeleteSchedule(n, sn) /\ UNCHANGED <<run, enq, since, lastNow, ghosts>>

Collect == RunQueuesGarbageCollection /\ UNCHANGED <<run, enq, since, lastNow, ghosts>>

\* The workers run every five seconds: the clock does not leave them behind.
CronTick ==
    /\ clock < lastNow + Period
    /\ Tick /\ UNCHANGED <<run, enq, since, lastNow, ghosts>>

CronInit ==
    /\ Init /\ lastNow = 0 /\ crashes = 0 /\ raced = {}
    /\ run = [w \in Workers |-> Idle]
    /\ enq = [x \in QueueIds \X ScheduleIds \X Ticks |-> 0]
    /\ since = [s \in ScheduleIds |-> -1]

CronNext ==
    \/ \E w \in Workers : WorkerStep(w) \/ Crash(w)
    \/ ClientStep \/ Collect \/ CronTick

CronSpec == CronInit /\ [][CronNext]_cvars

\* The interval worker starts a run every five seconds and each call returns:
\* a worker, which always has a next step, goes on taking steps.  The
\* collection is called as often.
FairCron ==
    CronSpec /\ WF_cvars(Collect) /\ \A w \in Workers : []<><<WorkerStep(w)>>_cvars

-------------------------------------------------------------------------------
(* Properties.                                                             *)

\* The variables have their types.
CronTypeOK ==
    /\ QueuesTypeOK /\ lastNow \in 0 .. MaxTime
    /\ crashes \in 0 .. MaxCrashes /\ raced \subseteq ScheduleIds
    /\ enq \in [QueueIds \X ScheduleIds \X Ticks -> 0 .. 2]
    /\ since \in [ScheduleIds -> -1 .. MaxTime]
    /\ \A w \in Workers :
          /\ run[w].call \in {"none", "DequeSchedules", "Enqueue", "ReportSchedulesStatus"}
          /\ run[w].now \in 0 .. MaxTime
          /\ \A i \in DOMAIN run[w].entries : run[w].entries[i] \in Entry

\* A tick of a schedule is enqueued twice only if two runs held the schedule
\* at once, a run stopped between the Enqueue of its ticks and the report of
\* the next one, or an update computed the next tick anew.
TickEnqueuedOnce ==
    \A q \in QueueIds, s \in ScheduleIds \ raced, t \in Ticks : enq[<<q, s, t>>] <= 1

TicksEnqueued(w, from(_)) ==
    \A q \in QueueIds, s \in ScheduleIds, t \in Ticks :
        /\ QueueExists(qdb, q) /\ ScheduleExists(qdb, q, s)
        /\ from(s) <= t /\ t <= run[w].now + Lookahead
        /\ t % qdb.schedules[<<q, s>>].cron = 0
        => \E r \in QueueIds : enq[<<r, s, t>>] > 0

\* When a run completes, every tick up to the end of its window has been
\* enqueued while the queue had its id, for each schedule that exists, from
\* one Period after it was created: no tick is lost to a crash, a purge, or
\* a queue deleted next to it.
NoTickMissed ==
    [][\A w \in Workers : Complete(w) =>
          LET from(s) == since[s] + Period IN TicksEnqueued(w, from)]_cvars

\* The same from the moment the schedule was created or updated.
EveryTickEnqueued ==
    [][\A w \in Workers : Complete(w) =>
          LET from(s) == since[s] + 1 IN TicksEnqueued(w, from)]_cvars

IsDue(k) == ScheduleExists(qdb, k[1], k[2]) /\ qdb.schedules[k].nextScheduledAt <= clock

\* A schedule that is due moves on, to a later tick or away: the workers keep
\* up with every schedule of the shard.
CronKeepsUp == \A k \in ScheduleKeys : IsDue(k) ~> ~IsDue(k)
===============================================================================
