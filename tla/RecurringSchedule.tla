-------------------------- MODULE RecurringSchedule --------------------------
(***************************************************************************)
(* Recurring transactions: the schedule rows with the requests that write  *)
(* them, and the worker's processDue, which posts at most one occurrence   *)
(* of a schedule per run.  Every operation is one serializable             *)
(* transaction; recording a failure is a second one.  Amount, category     *)
(* and wallet are abstracted to "usable": whether ensureValidRelations     *)
(* accepts them.                                                           *)
(***************************************************************************)
EXTENDS Reminders

CONSTANTS
    Timings,            \* [anchor, frequency, interval, end, policy] a user sends
    RemindDays,         \* values of remindDaysBefore
    Posters             \* runs of processDue, more than one when the lock expires

\* No schedule starts before day 0, where the model's days begin.
ASSUME TimingsAssumption ==
    Timings \subseteq [anchor : Nat, frequency : Frequencies, interval : Nat \ {0},
                       end : Int, policy : {"CATCH_UP", "SKIP"}]
ASSUME RemindDaysAssumption == RemindDays \subseteq Nat
ASSUME NoneAssumption == None \notin {"POSTED", "FAILED"}

VARIABLES
    schedule,           \* schedule[s]: the row, or None before create
    usable,             \* the wallet and category of the schedules can be used
    occurrence,         \* occurrence[s][d]: None, "POSTED" or "FAILED"
    entries,            \* entries[s][d]: transactions created for that date
    posting,            \* posting[w]: the run of the worker, or None
    overtaken           \* <<s, d>> whose POSTED occurrence a late failure rewrote

scheduleVars == <<schedule, usable, occurrence, entries, posting, overtaken>>

Days == 0 .. Horizon

ScheduleRows == [anchor : Int, frequency : Frequencies, interval : Nat, end : Int,
                 policy : {"CATCH_UP", "SKIP"}, nextRunAt : Int,
                 isActive : BOOLEAN, deleted : BOOLEAN]

InitSchedules ==
    /\ schedule = [s \in Schedules |-> None]
    /\ usable = TRUE
    /\ occurrence = [s \in Schedules |-> [d \in Days |-> None]]
    /\ entries = [s \in Schedules |-> [d \in Days |-> 0]]
    /\ posting = [w \in Posters |-> None]
    /\ overtaken = {}

First(t, date) == FirstOnOrAfter(t.anchor, t.frequency, t.interval, date)

ResolveFirstRun(t, now) ==
    OrNone(IF t.policy = "CATCH_UP" THEN t.anchor ELSE First(t, now), t.end)

\* Mutant: the next run may be the date itself.
NextRunOnOrAfter(t, date) == OrNone(First(t, date), t.end)

NextRun(t, date) ==
    OrNone(NextAfter(t.anchor, t.frequency, t.interval, date), t.end)

Scheduled(t, next, active) ==
    [anchor |-> t.anchor, frequency |-> t.frequency, interval |-> t.interval,
     end |-> t.end, policy |-> t.policy, nextRunAt |-> next,
     isActive |-> active /\ next # NoDate, deleted |-> FALSE]

Exists(s) == schedule[s] # None /\ ~schedule[s].deleted

\* syncReminder: the schedule's reminder is deleted and created again.
Synced(row, days, id) ==
    LET remindAt == (IF row.nextRunAt = NoDate THEN row.anchor ELSE row.nextRunAt) - days
        p == [remindAt |-> remindAt, frequency |-> row.frequency,
              interval |-> row.interval,
              endAt |-> IF row.end = NoDate THEN NoDate ELSE row.end - days]
        next == IF remindAt <= today THEN today ELSE remindAt
    IN Row(p, IF row.isActive THEN next ELSE NoDate, row.isActive, id)

SyncReminder(s, row, days) ==
    reminder' = [reminder EXCEPT ![s] =
                    IF days = None THEN None ELSE Synced(row, days, writes')]

ReminderActive(s, active) ==
    reminder' = IF reminder[s] = None THEN reminder
                ELSE [reminder EXCEPT ![s].isActive = active]

OnlySchedule == UNCHANGED <<today, notified, hasWritten, editor, batch, stale, usable,
                            occurrence, entries, posting, overtaken>>

Create(s, t, active, days) ==
    LET row == Scheduled(t, ResolveFirstRun(t, today), active) IN
    /\ Request
    /\ schedule[s] = None /\ usable
    /\ active => row.nextRunAt # NoDate
    /\ schedule' = [schedule EXCEPT ![s] = row]
    /\ SyncReminder(s, row, days)
    /\ OnlySchedule

\* update with a change of timing: back to the first run, which for CATCH_UP
\* is the anchor.  Without remindDaysBefore an existing reminder is made
\* again with the days its URL carries, and the user may edit that URL.
UpdateTiming(s, t, days) ==
    LET row == Scheduled(t, ResolveFirstRun(t, today), schedule[s].isActive) IN
    /\ Request
    /\ Exists(s) /\ usable
    /\ schedule[s].isActive => row.nextRunAt # NoDate
    /\ schedule' = [schedule EXCEPT ![s] = row]
    /\ \/ SyncReminder(s, row, days)                  \* remindDaysBefore given
       \/ reminder[s] = None /\ UNCHANGED reminder
    /\ OnlySchedule

\* update of the other columns.
UpdateOther(s, days) ==
    LET row == Scheduled(schedule[s], schedule[s].nextRunAt, schedule[s].isActive) IN
    /\ Request
    /\ Exists(s) /\ usable
    /\ schedule' = [schedule EXCEPT ![s] = row]
    /\ SyncReminder(s, row, days) \/ UNCHANGED reminder
    /\ OnlySchedule

Pause(s) ==
    /\ Exists(s)
    /\ schedule' = [schedule EXCEPT ![s].isActive = FALSE]
    /\ ReminderActive(s, FALSE)
    /\ OnlySchedule /\ UNCHANGED writes

Resume(s) ==
    LET row  == schedule[s]
        next == IF row.nextRunAt = NoDate \/ (row.policy = "SKIP" /\ row.nextRunAt < today)
                THEN ResolveFirstRun(row, today) ELSE row.nextRunAt
    IN /\ Request
       /\ Exists(s) /\ usable
       /\ next # NoDate /\ Within(next, row.end)
       /\ schedule' = [schedule EXCEPT ![s].isActive = TRUE, ![s].nextRunAt = next]
       /\ ReminderActive(s, TRUE)
       /\ OnlySchedule

Remove(s) ==
    /\ Exists(s)
    /\ schedule' = [schedule EXCEPT ![s].isActive = FALSE, ![s].nextRunAt = NoDate,
                                    ![s].deleted = TRUE]
    /\ reminder' = [reminder EXCEPT ![s] = None]
    /\ OnlySchedule /\ UNCHANGED writes

\* The user archives or restores the wallet or the category.
ToggleUsable ==
    /\ Request
    /\ usable' = ~usable
    /\ UNCHANGED <<today, schedule, occurrence, entries, posting, overtaken>>
    /\ UNCHANGED reminderVars

-----------------------------------------------------------------------------
\* RecurringTransactionService.processDue.

DueSchedule(s, now) ==
    Exists(s) /\ schedule[s].isActive /\ OnOrBefore(schedule[s].nextRunAt, now)

OnlyWorker == UNCHANGED reminderVars /\ UNCHANGED <<today, writes, usable>>

FindDueSchedules(w) ==
    /\ posting[w] = None
    /\ \E s \in Schedules : DueSchedule(s, today)
    /\ posting' = [posting EXCEPT ![w] = [now |-> today, failed |-> None,
                       ids |-> {s \in Schedules : DueSchedule(s, today)}]]
    /\ UNCHANGED <<schedule, occurrence, entries, overtaken>>
    /\ OnlyWorker

Done(w, s) ==
    LET run  == posting[w]
        rest == run.ids \ {s}
    IN posting' = [posting EXCEPT ![w] =
                      IF rest = {} THEN None ELSE [run EXCEPT !.ids = rest, !.failed = None]]

\* The date the run of schedule s is for, at the worker's date.
ScheduledFor(s, now) ==
    LET row == schedule[s]
    IN IF row.policy = "SKIP" /\ row.nextRunAt < now THEN First(row, now) ELSE row.nextRunAt

Runs(s, now) ==
    LET date == ScheduledFor(s, now)
    IN DueSchedule(s, now) /\ Within(date, schedule[s].end) /\ date <= now

\* Mutant: the schedule stays active after its last run.
AdvanceActive(s, next) == schedule' = [schedule EXCEPT ![s].nextRunAt = next]

Advance(s, next) ==
    schedule' = [schedule EXCEPT ![s].nextRunAt = next, ![s].isActive = next # NoDate]

\* Mutant: the status of the occurrence is not looked at in time.
PostedBefore(s, date) == occurrence[s][date] = "FAILED"

Posted(s, date) == occurrence[s][date] = "POSTED"

Skip(w, s) ==
    LET now == posting[w].now IN
    /\ s \in posting[w].ids /\ posting[w].failed = None
    /\ ~Runs(s, now)
    /\ IF DueSchedule(s, now)                         \* rescheduleWithoutExecution
       THEN Advance(s, OrNone(ScheduledFor(s, now), schedule[s].end))
       ELSE UNCHANGED schedule
    /\ Done(w, s)
    /\ UNCHANGED <<occurrence, entries, overtaken>> /\ OnlyWorker

Post(w, s) ==
    LET now  == posting[w].now
        date == ScheduledFor(s, now)
    IN /\ s \in posting[w].ids /\ posting[w].failed = None
       /\ Runs(s, now)
       /\ \/ Posted(s, date) /\ UNCHANGED <<occurrence, entries>>
          \/ /\ ~Posted(s, date) /\ usable
             /\ occurrence' = [occurrence EXCEPT ![s][date] = "POSTED"]
             /\ entries' = [entries EXCEPT ![s][date] = @ + 1]
       /\ Advance(s, NextRun(schedule[s], date))
       /\ Done(w, s)
       /\ UNCHANGED overtaken /\ OnlyWorker

\* ensureValidRelations throws: the transaction is undone.
Refuse(w, s) ==
    LET now == posting[w].now IN
    /\ s \in posting[w].ids /\ posting[w].failed = None
    /\ Runs(s, now) /\ ~Posted(s, ScheduledFor(s, now)) /\ ~usable
    /\ posting' = [posting EXCEPT ![w].failed = [id |-> s, date |-> ScheduledFor(s, now)]]
    /\ UNCHANGED <<schedule, occurrence, entries, overtaken>> /\ OnlyWorker

\* recordFailure looks at neither the occurrence nor the schedule's dates.
RecordFailure(w, s) ==
    LET date == posting[w].failed.date IN
    /\ posting[w].failed # None /\ posting[w].failed.id = s
    /\ IF Exists(s)
       THEN /\ occurrence' = [occurrence EXCEPT ![s][date] = "FAILED"]
            /\ schedule' = [schedule EXCEPT ![s].isActive = FALSE]
            /\ overtaken' = IF Posted(s, date) THEN overtaken \cup {<<s, date>>}
                            ELSE overtaken
       ELSE UNCHANGED <<occurrence, schedule, overtaken>>
    /\ Done(w, s)
    /\ UNCHANGED entries /\ OnlyWorker

\* The process ends, or the transaction conflicts three times.
PostingCrash(w) ==
    /\ posting[w] # None
    /\ posting' = [posting EXCEPT ![w] = None]
    /\ UNCHANGED <<schedule, occurrence, entries, overtaken>> /\ OnlyWorker

Tick ==
    /\ today < Horizon
    /\ today' = today + 1 /\ hasWritten' = FALSE
    /\ UNCHANGED <<reminder, notified, editor, batch, writes, stale>>
    /\ UNCHANGED scheduleVars

ScheduleUser ==
    \/ \E s \in Schedules, t \in Timings, active \in BOOLEAN,
          days \in RemindDays \cup {None} : Create(s, t, active, days)
    \/ \E s \in Schedules, t \in Timings, days \in RemindDays \cup {None} :
          UpdateTiming(s, t, days)
    \/ \E s \in Schedules, days \in RemindDays \cup {None} : UpdateOther(s, days)
    \/ \E s \in Schedules : Pause(s) \/ Resume(s) \/ Remove(s)
    \/ ToggleUsable

ProcessSchedule(w) ==
    posting[w] # None /\ \E s \in Schedules : Skip(w, s) \/ Post(w, s) \/ Refuse(w, s)

SuspendFailed(w) == posting[w] # None /\ \E s \in Schedules : RecordFailure(w, s)

ScheduleWorker ==
    \E w \in Posters : FindDueSchedules(w) \/ ProcessSchedule(w) \/ SuspendFailed(w)
                        \/ PostingCrash(w)

-----------------------------------------------------------------------------
TypeOKSchedules ==
    /\ schedule \in [Schedules -> ScheduleRows \cup {None}]
    /\ occurrence \in [Schedules -> [Days -> {None, "POSTED", "FAILED"}]]
    /\ entries \in [Schedules -> [Days -> Nat]]
    /\ \A s \in Schedules : Exists(s) /\ schedule[s].isActive
                              => schedule[s].nextRunAt # NoDate

\* A date is posted once.  Edits move a schedule back to its anchor, failed
\* dates are tried again and workers overlap when the lock expires; only
\* recordFailure writing over an occurrence another worker has posted
\* makes processSchedule post that date a second time.
PostedOnce ==
    \A s \in Schedules, d \in Days : entries[s][d] > 1 => <<s, d>> \in overtaken

\* A CATCH_UP schedule leaves no date out: each date of the timing before
\* the next run has an occurrence, posted or failed, whatever was paused,
\* edited, refused or lost in a crash meanwhile.
CatchUpLeavesNoGap ==
    \A s \in Schedules :
        (Exists(s) /\ schedule[s].policy = "CATCH_UP" /\ schedule[s].nextRunAt # NoDate) =>
            \A d \in Days :
                (/\ schedule[s].anchor <= d /\ d < schedule[s].nextRunAt
                 /\ First(schedule[s], d) = d)
                => occurrence[s][d] # None
=============================================================================
