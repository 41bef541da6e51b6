----------------------------- MODULE Reminders ------------------------------
(***************************************************************************)
(* Reminder rows: the requests of ReminderService that write them and the  *)
(* worker's processDue.  A request reads the row and writes all its        *)
(* columns back in a later statement; the worker lists the due rows and    *)
(* handles its copies one by one.  Times are dates (Recurrence); title,    *)
(* message and action URL are left out, but for the URL that marks the     *)
(* reminders of a schedule and the daily reminder: they are slots of their *)
(* own.                                                                    *)
(***************************************************************************)
EXTENDS Recurrence, FiniteSets

CONSTANTS
    Generals,           \* slots of reminders the user writes
    Dailies,            \* slots of '/transactions?daily=1' reminders
    Schedules,          \* a schedule's reminder has the slot of the schedule
    Editors,            \* concurrent requests of the user
    Workers,            \* instances of the notification worker
    Plans,              \* [remindAt, frequency, interval, endAt] a user sends
    None,
    Horizon,            \* last day of the model
    MaxWrites           \* bound on the requests of users

\* The validators take whole intervals from 1 on; day 0 is before every "now".
ASSUME PlansAssumption ==
    Plans \subseteq [remindAt : Int, frequency : Frequencies \cup {"ONCE"},
                     interval : Nat \ {0}, endAt : Int]
ASSUME HorizonAssumption == Horizon \in Nat

ReminderIds == Generals \cup Dailies \cup Schedules

VARIABLES
    today,              \* the business date; every "now" is read from it
    reminder,           \* reminder[r]: the row, or None
    notified,           \* dedup keys of the notifications: <<r, born, time>>
    hasWritten,         \* a transaction was created today
    editor,             \* editor[e]: the request's copy of a row, or None
    batch,              \* batch[w]: the due rows the worker still has to handle
    writes,             \* requests made; also numbers the rows ("born" is the id)
    stale               \* rows written over by a copy that was out of date; a copy
                        \* has the notifications "told" when it was made

reminderVars == <<reminder, notified, hasWritten, editor, batch, stale>>

ReminderRows == [remindAt : Int, frequency : Frequencies \cup {"ONCE"},
                 interval : Nat, endAt : Int, nextTriggerAt : Int,
                 isActive : BOOLEAN, born : Nat]

InitReminders ==
    /\ reminder = [r \in ReminderIds |-> None]
    /\ notified = {}
    /\ hasWritten = FALSE
    /\ editor = [e \in Editors |-> None]
    /\ batch = [w \in Workers |-> None]
    /\ stale = {}

-----------------------------------------------------------------------------
\* nextOccurrenceAfter and its two callers.

After(p, now) == NextTrigger(p.remindAt, p.frequency, p.interval, now)

CanFire(p, now) ==              \* firstTrigger: no AppError
    IF p.frequency = "ONCE" THEN p.remindAt > now ELSE Within(After(p, now), p.endAt)

FirstTrigger(p, now) == IF p.frequency = "ONCE" THEN p.remindAt ELSE After(p, now)

CalculateNextTrigger(p, now) ==
    IF p.frequency = "ONCE" THEN NoDate ELSE OrNone(After(p, now), p.endAt)

Row(p, next, active, id) ==
    [remindAt |-> p.remindAt, frequency |-> p.frequency, interval |-> p.interval,
     endAt |-> p.endAt, nextTriggerAt |-> next, isActive |-> active, born |-> id]

Request == writes < MaxWrites /\ writes' = writes + 1

CreateReminder(r, p, active) ==
    /\ Request
    /\ r \in Generals /\ reminder[r] = None
    /\ active => CanFire(p, today)
    /\ reminder' = [reminder EXCEPT ![r] =
           Row(p, IF active THEN FirstTrigger(p, today) ELSE NoDate, active, writes')]
    /\ UNCHANGED <<today, notified, hasWritten, editor, batch, stale>>

RemoveReminder(r) ==
    /\ reminder[r] # None
    /\ reminder' = [reminder EXCEPT ![r] = None]
    /\ UNCHANGED <<today, notified, hasWritten, editor, batch, writes, stale>>

\* The request has read its row; "at" is the instant of the request, "number"
\* the id of a row it may create.
Reading(r) ==
    [id |-> r, row |-> reminder[r], at |-> today, number |-> writes', told |-> notified]

ReadForUpdate(e, r) ==
    /\ Request
    /\ editor[e] = None /\ reminder[r] # None
    /\ editor' = [editor EXCEPT ![e] = Reading(r)]
    /\ UNCHANGED <<today, reminder, notified, hasWritten, batch, stale>>

SameRow(r, row) == reminder[r] # None /\ reminder[r].born = row.born

Finish(e) == editor' = [editor EXCEPT ![e] = None]

\* A write of a whole row from a copy.  The copy is out of date when the row
\* is another by now, or was notified since the copy was made, though later
\* edits may have made it look the same.
WriteOver(r, copy, told, row) ==
    /\ reminder' = [reminder EXCEPT ![r] = row]
    /\ stale' = IF reminder[r] = copy /\ \A key \in notified \ told : key[1] # r
                THEN stale ELSE stale \cup {r}

\* resolveUpdate: without a change of timing the copy's nextTriggerAt stays.
WriteUpdate(e, p, active) ==
    LET q       == editor[e]
        changed == p # q.row \/ (active /\ ~q.row.isActive)
        next    == IF ~active THEN NoDate
                   ELSE IF changed THEN FirstTrigger(p, q.at)
                   ELSE q.row.nextTriggerAt
    IN /\ q # None /\ q.row # None
       /\ (active /\ changed) => CanFire(p, q.at)
       /\ Finish(e)
       /\ \/ /\ SameRow(q.id, q.row)
             /\ WriteOver(q.id, q.row, q.told, Row(p, next, active, q.row.born))
          \/ /\ ~SameRow(q.id, q.row)                       \* 404
             /\ UNCHANGED <<reminder, stale>>
       /\ UNCHANGED <<today, notified, hasWritten, batch, writes>>

\* updateDailyTransactionReminder: the service and the repository look for
\* the row, then it is updated or, when none was found, created.
ReadDaily(e) ==
    /\ Request
    /\ editor[e] = None
    /\ \E r \in Dailies :
          /\ reminder[r] # None \/ \A d \in Dailies : reminder[d] = None
          /\ editor' = [editor EXCEPT ![e] = Reading(r)]
    /\ UNCHANGED <<today, reminder, notified, hasWritten, batch, stale>>

DailyRow(active, now, id) ==
    LET p == [remindAt |-> now, frequency |-> "DAILY", interval |-> 1, endAt |-> NoDate]
    IN Row(p, IF active THEN After(p, now) ELSE NoDate, active, id)

WriteDaily(e, active) ==
    LET q == editor[e] IN
    /\ q # None /\ q.id \in Dailies
    /\ Finish(e)
    /\ \/ /\ q.row # None /\ SameRow(q.id, q.row)
          /\ WriteOver(q.id, q.row, q.told, DailyRow(active, q.at, q.row.born))
       \/ /\ q.row = None                                   \* create
          /\ \E r \in Dailies :
                /\ reminder[r] = None
                /\ reminder' = [reminder EXCEPT ![r] = DailyRow(active, q.at, q.number)]
          /\ UNCHANGED stale
       \/ /\ q.row # None /\ ~SameRow(q.id, q.row)          \* P2025
          /\ UNCHANGED <<reminder, stale>>
    /\ UNCHANGED <<today, notified, hasWritten, batch, writes>>

RecordTransaction ==
    /\ ~hasWritten /\ hasWritten' = TRUE
    /\ UNCHANGED <<today, reminder, notified, editor, batch, writes, stale>>

-----------------------------------------------------------------------------
\* ReminderService.processDue.

IsDue(r) ==
    /\ reminder[r] # None /\ reminder[r].isActive
    /\ OnOrBefore(reminder[r].nextTriggerAt, today)

FindDue(w) ==
    /\ batch[w] = None
    /\ \E r \in ReminderIds : IsDue(r)
    /\ batch' = [batch EXCEPT ![w] = [now |-> today, told |-> notified,
           rows |-> [r \in {x \in ReminderIds : IsDue(x)} |-> reminder[r]]]]
    /\ UNCHANGED <<today, reminder, notified, hasWritten, editor, writes, stale>>

Handled(w, r) ==
    LET rest == DOMAIN batch[w].rows \ {r}
    IN batch' = [batch EXCEPT ![w] =
           IF rest = {} THEN None
           ELSE [now |-> @.now, told |-> @.told, rows |-> [x \in rest |-> batch[w].rows[x]]]]

Advanced(row, now) ==
    LET next == CalculateNextTrigger(row, now)
    IN Row(row, next, next # NoDate, row.born)

\* Smart skip: a transaction was created today, the copy is written back.
SkipDaily(w, r) ==
    LET row == batch[w].rows[r] IN
    /\ r \in Dailies /\ hasWritten
    /\ \/ /\ SameRow(r, row)
          /\ WriteOver(r, row, batch[w].told, Advanced(row, batch[w].now))
          /\ Handled(w, r)
       \/ /\ ~SameRow(r, row)                \* P2025 ends the whole run
          /\ batch' = [batch EXCEPT ![w] = None]
          /\ UNCHANGED <<reminder, stale>>
    /\ UNCHANGED <<today, notified, hasWritten, editor, writes>>

\* The notification, its deliveries and the next trigger in one transaction.
Expected(r, row) ==
    /\ SameRow(r, row)
    /\ reminder[r].isActive /\ reminder[r].nextTriggerAt = row.nextTriggerAt

\* "channels": the user wants this type of notification on some channel.
TriggerDue(w, r, channels) ==
    LET row == batch[w].rows[r]
        key == <<r, row.born, row.nextTriggerAt>>
    IN /\ ~(r \in Dailies /\ hasWritten)
       /\ Handled(w, r)
       /\ \/ /\ Expected(r, row)
             /\ channels => key \notin notified
             /\ notified' = IF channels THEN notified \cup {key} ELSE notified
             /\ LET next == CalculateNextTrigger(row, batch[w].now)
                IN reminder' = [reminder EXCEPT ![r].nextTriggerAt = next,
                                                ![r].isActive = next # NoDate]
          \/ /\ ~Expected(r, row) \/ (channels /\ key \in notified)   \* P2002
             /\ UNCHANGED <<reminder, notified>>
       /\ UNCHANGED <<today, hasWritten, editor, writes, stale>>

\* The process ends between two rows: its list is lost.
ReminderCrash(w) ==
    /\ batch[w] # None
    /\ batch' = [batch EXCEPT ![w] = None]
    /\ UNCHANGED <<today, reminder, notified, hasWritten, editor, writes, stale>>

ReminderUser ==
    \/ \E r \in Generals, p \in Plans, active \in BOOLEAN : CreateReminder(r, p, active)
    \/ \E r \in ReminderIds : RemoveReminder(r)
    \/ \E e \in Editors, r \in ReminderIds : ReadForUpdate(e, r)
    \/ \E e \in Editors : editor[e] # None /\ editor[e].row # None /\
          \E p \in Plans \cup {editor[e].row}, active \in BOOLEAN : WriteUpdate(e, p, active)
    \/ \E e \in Editors : ReadDaily(e)
    \/ \E e \in Editors, active \in BOOLEAN : WriteDaily(e, active)
    \/ RecordTransaction

ReminderWorker ==
    \/ \E w \in Workers : FindDue(w) \/ ReminderCrash(w)
    \/ \E w \in Workers : batch[w] # None /\
          \E r \in DOMAIN batch[w].rows :
             SkipDaily(w, r) \/ \E channels \in BOOLEAN : TriggerDue(w, r, channels)

-----------------------------------------------------------------------------
TypeOKReminders ==
    /\ reminder \in [ReminderIds -> ReminderRows \cup {None}]
    /\ \A key \in notified : key[1] \in ReminderIds /\ key[3] \in 0 .. Horizon
    /\ stale \subseteq ReminderIds

\* No reminder is stuck: one that waits for a time it has already notified
\* would meet its own dedup key in every run and never advance.  That takes
\* a write from a copy that was out of date, as update() and the smart skip
\* of processDue make; no order of triggers, edits and crashes does.
StuckOnlyByStaleWrite ==
    \A r \in ReminderIds :
        (/\ reminder[r] # None /\ reminder[r].isActive
         /\ <<r, reminder[r].born, reminder[r].nextTriggerAt>> \in notified)
        => r \in stale
=============================================================================
