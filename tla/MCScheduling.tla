---------------------------- MODULE MCScheduling ----------------------------
(***************************************************************************)
(* The jobs of the notification worker that follow the calendar.  They     *)
(* share no rows but the reminders of schedules, so a behaviour follows    *)
(* one of three scenes: orders of steps of two scenes change nothing.      *)
(***************************************************************************)
EXTENDS RecurringSchedule, TLC

CONSTANTS
    Scenes, MaxReminderWrites, MaxReminderDay,
    Budgets, Renewers, Starts, Untils, PeriodDays, FinalDay, MaxChanges

VARIABLES budget, categoryUsable, renewing, changes, edited, scene

B == INSTANCE BudgetRenewal

\* The budgets' periods are whole days, their scene may be the longer one, and
\* null is no row.
ASSUME BudgetsAssumption ==
    /\ Starts \subseteq Nat /\ PeriodDays \in Nat \ {0} /\ Untils \subseteq Int
    /\ FinalDay \in Nat /\ Horizon <= FinalDay
    /\ None \notin B!BudgetRows

vars == <<today, reminderVars, writes, scheduleVars, budget, categoryUsable,
          renewing, changes, edited, scene>>

MCPlans == {[remindAt |-> 1, frequency |-> "ONCE", interval |-> 1, endAt |-> NoDate],
            [remindAt |-> 0, frequency |-> "DAILY", interval |-> 1, endAt |-> 2]}
MCTimings == {[anchor |-> 1, frequency |-> "DAILY", interval |-> 1, end |-> NoDate,
               policy |-> "CATCH_UP"],
              [anchor |-> 2, frequency |-> "DAILY", interval |-> 2, end |-> 4,
               policy |-> "CATCH_UP"],
              [anchor |-> 1, frequency |-> "DAILY", interval |-> 2, end |-> 2,
               policy |-> "SKIP"]}
MCReminded == {t \in MCTimings : t.anchor = 1}
MCUntils == {NoDate, 3}

Init ==
    /\ InitReminders /\ InitSchedules /\ writes = 0
    /\ B!InitBudgets
    /\ scene \in Scenes

OfPosting ==
    /\ scene = "posting"
    /\ UNCHANGED <<budget, categoryUsable, renewing, changes, edited, scene>>

Posting == OfPosting /\ (ScheduleUser \/ ScheduleWorker \/ Tick)

Reminding ==
    /\ scene = "reminding"
    /\ \/ ReminderUser /\ UNCHANGED scheduleVars
       \/ ReminderWorker /\ UNCHANGED scheduleVars
       \/ \E s \in Schedules, t \in MCReminded :
             Create(s, t, TRUE, 1) \/ UpdateTiming(s, t, 1) \/ UpdateOther(s, 1)
       \/ \E s \in Schedules : Pause(s) \/ Resume(s) \/ Remove(s)
       \/ Tick
    /\ writes' <= MaxReminderWrites /\ today' <= MaxReminderDay
    /\ UNCHANGED <<budget, categoryUsable, renewing, changes, edited, scene>>

Renewing ==
    /\ scene = "renewing"
    /\ B!NextBudgets
    /\ UNCHANGED <<reminderVars, writes, scheduleVars, scene>>

Next == Posting \/ Reminding \/ Renewing

\* The worker's timer keeps starting runs and a run goes on to its end; a
\* process that is restarted often does not die at the same point each time.
Fairness ==
    \A w \in Posters :
        /\ WF_vars(OfPosting /\ FindDueSchedules(w))
        /\ SF_vars(OfPosting /\ ProcessSchedule(w))
        /\ SF_vars(OfPosting /\ SuspendFailed(w))

Spec == Init /\ [][Next]_vars /\ Fairness

\* Every variable of every scene has its type.
TypeOK == TypeOKReminders /\ TypeOKSchedules /\ B!TypeOKBudgets

\* Every date has its occurrence, its reminder and its budget period, once and
\* without gaps, whatever races and failures there were: see PostedOnce,
\* CatchUpLeavesNoGap, StuckOnlyByStaleWrite and PeriodsFollowOn.
DatesAreKept ==
    PostedOnce /\ CatchUpLeavesNoGap /\ StuckOnlyByStaleWrite /\ B!PeriodsFollowOn

\* A due schedule does not stay due: it is posted, rescheduled, suspended
\* or changed by its owner.
DueScheduleRuns ==
    \A s \in Schedules :
        (scene = "posting" /\ DueSchedule(s, today)) ~> ~DueSchedule(s, today)
=============================================================================
