------------------------------ MODULE Analytics ------------------------------
(***************************************************************************)
(* The analytics projection of one location.  Commands change the sessions *)
(* and assists and leave events; a projector handles each event, once or   *)
(* more often, by computing anew the day the event occurred on; managers   *)
(* have ranges of days rebuilt, archive tables and change the service      *)
(* period.  A projection reads in several statements, at READ COMMITTED,   *)
(* and holds the checkpoint row from its first write until it commits.     *)
(*                                                                         *)
(* Instants are local ticks.  An instant in UTC lies Offset ticks before.  *)
(* A row is stamped by the database when its transaction begins, its event *)
(* by the API server when it is written, and both become visible when the  *)
(* transaction commits: the stamps are any two of the last Lag ticks.      *)
(***************************************************************************)
EXTENDS Integers, Sequences, FiniteSets

CONSTANTS
    Tables,
    Sessions,   \* table_sessions
    Assists,    \* assist_requests
    TableOf,    \* the table of each
    Periods,    \* what a service period can be set to
    Workers,    \* projectors and rebuild requests at work
    DayTicks,   \* ticks of a day
    Offset,     \* of the location's timezone, positive to the east of UTC
    Lag,        \* how many ticks a stamp may lie behind its commit
    FirstTick,  \* bound: the first instant of a stamp, on day 1
    LastTick,   \* bound: the last
    MaxCommits, \* bound: commands
    MaxChanges  \* bound: changes of tables and of the service period

ASSUME AnalyticsBounds ==
    /\ DayTicks \in Nat \ {0} /\ Lag \in Nat
    /\ FirstTick \in Nat /\ DayTicks <= FirstTick /\ FirstTick < 2 * DayTicks
    /\ LastTick \in Nat /\ LastTick >= FirstTick
    /\ Offset \in Int /\ -DayTicks < Offset /\ Offset < DayTicks
    /\ MaxCommits \in Nat /\ MaxChanges \in Nat
    /\ TableOf \in [Sessions \cup Assists -> Tables]

VARIABLES
    clock,      \* local time
    sessions,   \* started_at, ended_at
    assists,    \* requested_at, acknowledged_at
    active,     \* the tables that are not archived
    occurred,   \* occurred_at of the events
    log,        \* the events in the order of their commits
    pending,    \* events the projector has not been told of for the last time
    period,     \* the service period, or NoPeriod
    changes,    \* bounded: how often managers have changed something
    projection, \* analytics_*_metrics by day
    job         \* what each worker is doing

facts == <<sessions, assists, occurred, log>>
analyticsVars == <<clock, facts, active, pending, period, changes, projection, job>>

-----------------------------------------------------------------------------
(* Time                                                                    *)

Unset == -1
DayOf(t) == t \div DayTicks
Ticks == FirstTick..LastTick
LastDay == DayOf(LastTick)
Days == 0..LastDay
DayEnd(d) == DayTicks * (d + 1)

\* Mutant: the day the event is handled on.
MutantHandledToday(t) == [start |-> DayTicks * DayOf(clock), end |-> DayEnd(DayOf(clock))]
\* The midnights around an instant.
localDateWindow(t) == [start |-> DayTicks * DayOf(t), end |-> DayEnd(DayOf(t))]
\* The year, month and day an instant has in UTC.
calendarDate(t) == (t - Offset) \div DayTicks
localCalendarDateWindow(d) == [start |-> DayTicks * d, end |-> DayEnd(d)]

\* A period whose end is not after its start ends on the next day.
ServicePeriodWindowForDate(p, d) ==
    [start |-> DayTicks * d + p.start,
     end |-> DayTicks * d + p.end + IF p.end > p.start THEN 0 ELSE DayTicks]
NoPeriod == [days |-> {}, start |-> 0, end |-> 0]

-----------------------------------------------------------------------------
(* Facts and events                                                        *)

\* A resolution is counted like an acknowledgement, a cancellation not at all.
FactEvents == ({"started", "ended"} \X Sessions) \cup ({"requested", "acknowledged"} \X Assists)
Occurred(e) == occurred[e] # Unset

NoFact == [start |-> Unset, end |-> Unset]

-----------------------------------------------------------------------------
(* Metrics: what is counted, rather than how many or how long              *)

During(t, w) == w.start <= t /\ t < w.end
\* scoped_tables: only the rows of tables that are active now.
Scoped(ts, f) == {i \in DOMAIN f : f[i].start # Unset /\ TableOf[i] \in ts}

\* An open session counts to the end of the window.
OverlapSeconds(ts, f, w) ==
    {x \in Scoped(ts, f) \X (w.start..(w.end - 1)) :
        f[x[1]].start <= x[2] /\ (f[x[1]].end = Unset \/ x[2] < f[x[1]].end)}

calculateWindowMetric(ts, ss, as, w) ==
    LET requested == {a \in Scoped(ts, as) : During(as[a].start, w)}
    IN  [tables |-> ts,
         occupancy |-> OverlapSeconds(ts, ss, w),
         completed |-> {s \in Scoped(ts, ss) : ss[s].end # Unset /\ During(ss[s].end, w)},
         requested |-> requested,
         acknowledged |-> {a \in requested : as[a].end # Unset /\ as[a].end >= as[a].start}]

NoMetric == [tables |-> {}, occupancy |-> {}, completed |-> {}, requested |-> {}, acknowledged |-> {}]
\* of: the service period the last part was computed for.
NoRows == [day |-> NoMetric, period |-> NoMetric, of |-> NoPeriod, there |-> FALSE]

\* day: the one being computed.  to: the day before which the range ends.
Idle == [stage |-> "idle", event |-> <<"none">>, day |-> 0, to |-> 0, rows |-> [d \in Days |-> NoRows]]

AnalyticsInit ==
    /\ clock = FirstTick
    /\ sessions = [s \in Sessions |-> NoFact]
    /\ assists = [a \in Assists |-> NoFact]
    /\ active = Tables
    /\ occurred = [e \in FactEvents |-> Unset] /\ log = <<>>
    /\ pending = {} /\ period = NoPeriod /\ changes = 0
    /\ projection = [d \in Days |-> NoRows]
    /\ job = [w \in Workers |-> Idle]

-----------------------------------------------------------------------------
(* Commands: the change and its event are committed together.  A table has *)
(* been active when the command locked its occupancy, and may have been    *)
(* archived since.                                                         *)

Tick ==
    /\ clock + 1 \in Ticks
    /\ clock' = clock + 1
    /\ UNCHANGED <<facts, active, pending, period, changes, projection, job>>

\* The stamps of what commits now.
Stamps == {t \in Ticks : clock - Lag <= t /\ t <= clock}

writeOperationalEvent(e) ==
    /\ Len(log) < MaxCommits
    /\ \E t \in Stamps : occurred' = [occurred EXCEPT ![e] = t]
    /\ log' = Append(log, e)
    /\ pending' = pending \cup {e}
    /\ UNCHANGED <<clock, active, period, changes, projection, job>>

OccupyTable(s) ==
    /\ sessions[s] = NoFact
    /\ \A q \in Sessions : TableOf[q] = TableOf[s] /\ sessions[q].start # Unset => sessions[q].end # Unset
    /\ \E now \in Stamps : sessions' = [sessions EXCEPT ![s].start = now]
    /\ writeOperationalEvent(<<"started", s>>)
    /\ UNCHANGED assists

\* A session does not end before it starts: a CHECK of table_sessions.
ClearTable(s) ==
    /\ sessions[s].start # Unset /\ sessions[s].end = Unset
    /\ \E now \in Stamps : now >= sessions[s].start /\ sessions' = [sessions EXCEPT ![s].end = now]
    /\ writeOperationalEvent(<<"ended", s>>)
    /\ UNCHANGED assists

RequestAssist(a) ==
    /\ assists[a] = NoFact
    /\ \E now \in Stamps : assists' = [assists EXCEPT ![a].start = now]
    /\ writeOperationalEvent(<<"requested", a>>)
    /\ UNCHANGED sessions

AcknowledgeAssist(a) ==
    /\ assists[a].start # Unset /\ assists[a].end = Unset
    /\ \E now \in Stamps : assists' = [assists EXCEPT ![a].end = now]
    /\ writeOperationalEvent(<<"acknowledged", a>>)
    /\ UNCHANGED sessions

-----------------------------------------------------------------------------
(* Managers change tables and the service period; no event tells the       *)
(* projector of it                                                         *)

Change == changes < MaxChanges /\ changes' = changes + 1

changeTableActive(t) ==
    /\ Change
    /\ active' \in {active \ {t}, active \cup {t}}
    /\ UNCHANGED <<clock, facts, pending, period, projection, job>>

SetPeriod(p) ==
    /\ Change
    /\ period' = p
    /\ UNCHANGED <<clock, facts, active, pending, projection, job>>
CreateServicePeriod(p) == period = NoPeriod /\ SetPeriod(p)
UpdateServicePeriod(p) == period # NoPeriod /\ SetPeriod(p)
ArchiveServicePeriod == period # NoPeriod /\ SetPeriod(NoPeriod)

-----------------------------------------------------------------------------
(* Projection                                                              *)

Step(w, change) ==
    /\ job' = [job EXCEPT ![w] = change]
    /\ UNCHANGED <<clock, facts, active, period, changes>>

\* Mutant: projections do not wait for each other.
MutantNoCheckpoint(w) == TRUE
\* The row of analytics_projector_checkpoints is written first.
CheckpointFree(w) == \A v \in Workers \ {w} : job[v] = Idle

\* The range is given by calendar dates: those that its ends have in UTC.
Handle(w, e) ==
    LET window == localDateWindow(occurred[e])
    IN  /\ job[w] = Idle /\ CheckpointFree(w)
        /\ e \in pending
        /\ Step(w, [Idle EXCEPT !.stage = "tables", !.event = e, !.day = calendarDate(window.start),
                                !.to = calendarDate(window.end)])
        /\ UNCHANGED <<pending, projection>>

\* A manager asks for days by name.  The run has been recorded before, and
\* is marked as completed or failed afterwards, each in its own transaction.
Rebuild(w, from, to) ==
    /\ job[w] = Idle /\ CheckpointFree(w) /\ from < to
    /\ Step(w, [Idle EXCEPT !.stage = "tables", !.day = from, !.to = to])
    /\ UNCHANGED <<pending, projection>>

\* The metrics of a window as the tables are now.
Metric(w) == calculateWindowMetric(active, sessions, assists, w)

\* Location, floors, zones, tables and hours are computed alike, one after
\* the other; they stand for each other here.
projectTables(w) ==
    /\ job[w].stage = "tables"
    /\ Step(w, [job[w] EXCEPT !.stage = "period", !.rows[job[w].day] =
                 [NoRows EXCEPT !.there = TRUE, !.day = Metric(localCalendarDateWindow(job[w].day))]])
    /\ UNCHANGED <<pending, projection>>

\* The period recurs on some days of the week only.
projectPeriods(w) ==
    LET d == job[w].day
        recurs == (d % 7) \in period.days
        metric == IF recurs THEN Metric(ServicePeriodWindowForDate(period, d)) ELSE NoMetric
    IN  [job[w].rows EXCEPT ![d].period = metric, ![d].of = period]

LastOfRange(w) == job[w].day + 1 >= job[w].to

rebuildRange(w) ==
    /\ job[w].stage = "period" /\ ~LastOfRange(w)
    /\ Step(w, [job[w] EXCEPT !.rows = projectPeriods(w), !.day = @ + 1, !.stage = "tables"])
    /\ UNCHANGED <<pending, projection>>

\* The days are cleared and written in one transaction.  The worker may fail
\* to record that an event has been handled, which is then handled again.
Commit(w) ==
    /\ job[w].stage = "period" /\ LastOfRange(w)
    /\ projection' = [d \in Days |-> IF projectPeriods(w)[d].there THEN projectPeriods(w)[d] ELSE projection[d]]
    /\ pending' \in {pending, pending \ {job[w].event}}
    /\ Step(w, Idle)

\* A statement fails or the process dies.
rollback(w) ==
    /\ job[w] # Idle
    /\ Step(w, Idle)
    /\ UNCHANGED <<pending, projection>>

-----------------------------------------------------------------------------
AnalyticsNext ==
    \/ Tick
    \/ \E s \in Sessions : OccupyTable(s) \/ ClearTable(s)
    \/ \E a \in Assists : RequestAssist(a) \/ AcknowledgeAssist(a)
    \/ \E t \in Tables : changeTableActive(t)
    \/ \E p \in Periods : CreateServicePeriod(p) \/ UpdateServicePeriod(p)
    \/ ArchiveServicePeriod
    \/ \E w \in Workers :
        \/ \E e \in FactEvents : Handle(w, e)
        \/ \E from, to \in 1..(LastDay + 1) : Rebuild(w, from, to)
        \/ projectTables(w) \/ rebuildRange(w)
        \/ Commit(w) \/ rollback(w)

AnalyticsSpec == AnalyticsInit /\ [][AnalyticsNext]_analyticsVars

-----------------------------------------------------------------------------
(* Properties                                                              *)

Quiet == pending = {} /\ \A w \in Workers : job[w] = Idle

\* The facts as far as these events tell.
Known(f, first, last, known) ==
    [i \in DOMAIN f |-> [start |-> IF <<first, i>> \in known THEN f[i].start ELSE Unset,
                         end |-> IF <<last, i>> \in known THEN f[i].end ELSE Unset]]

\* The event occurred on that day.
On(e, d) == Occurred(e) /\ DayOf(occurred[e]) = d

\* For the tables it counts, the metric is that of what had been committed at
\* some point, when every event of day d had been.
Shows(metric, d, w) ==
    \E n \in 0..Len(log) :
        LET known == {log[i] : i \in 1..n}
        IN  /\ \A e \in FactEvents : On(e, d) => e \in known
            /\ metric = calculateWindowMetric(metric.tables, Known(sessions, "started", "ended", known),
                                              Known(assists, "requested", "acknowledged", known), w)

\* When every event has been handled, in whatever order, however often and
\* among however many rebuilds, each day on which an event occurred is
\* projected, and each of its parts shows the location as it stood at some
\* commit that is no earlier than the last of them.  (What may be missing
\* until the day is rebuilt: a later acknowledgement, the night part of a
\* service period, and a row whose event occurred on another day.)
ProjectionCurrent ==
    Quiet =>
        \A e \in FactEvents : Occurred(e) =>
            LET d == DayOf(occurred[e])
                p == projection[d].of
            IN  /\ projection[d].there
                /\ Shows(projection[d].day, d, localCalendarDateWindow(d))
                /\ (d % 7) \in p.days => Shows(projection[d].period, d, ServicePeriodWindowForDate(p, d))

\* Timestamps are projected against the location's timezone: the local day
\* of an event that has been handled is a day that has been projected.
EventDayProjected ==
    Quiet => \A e \in FactEvents : Occurred(e) => projection[DayOf(occurred[e])].there
=============================================================================
