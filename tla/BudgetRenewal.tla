---------------------------- MODULE BudgetRenewal ----------------------------
(***************************************************************************)
(* Recurring budgets: the requests that write budget rows and              *)
(* BudgetService.processDueRenewals, which lists the ended periods and     *)
(* renews each from its copy of the row, at most three periods per run.    *)
(* Amounts and spending are left out: what a period rolls over is          *)
(* Figures!RolledAmount.                                                   *)
(***************************************************************************)
EXTENDS Recurrence, FiniteSets

CONSTANTS
    Budgets,            \* ids of budget rows
    Renewers,           \* instances of the notification worker
    Starts,             \* start dates a user sends
    Untils,             \* values of autoRenewUntil, NoDate for none
    None,
    PeriodDays,         \* length of a period; 7 for WEEKLY
    FinalDay,           \* last day of the model
    MaxChanges          \* bound on the requests of users

VARIABLES
    today, budget, categoryUsable, renewing,
    changes,            \* requests made; numbers the recurrence groups
    edited              \* budgets whose dates or series a user has changed

budgetVars == <<today, budget, categoryUsable, renewing, changes, edited>>

BudgetRows == [start : Int, end : Int, isArchived : BOOLEAN, autoRenew : BOOLEAN,
               group : Nat, until : Int, renewed : BOOLEAN,
               parent : Budgets \cup {None}]

InitBudgets ==
    /\ today = 0
    /\ budget = [b \in Budgets |-> None]
    /\ categoryUsable = TRUE
    /\ renewing = [w \in Renewers |-> None]
    /\ changes = 0
    /\ edited = {}

ResolveEndDate(start) == AddDays(start, PeriodDays - 1)

Period(start, group, auto, until, parent) ==
    [start |-> start, end |-> ResolveEndDate(start), isArchived |-> FALSE,
     autoRenew |-> auto, group |-> group, until |-> until,
     renewed |-> FALSE, parent |-> parent]

\* recurrence_group_id is null for a budget that does not recur.
IsRecurring(b) == b.group # 0

\* The unique index on (recurrence_group_id, start_date), null groups apart.
Unique(rows) ==
    \A a, b \in {x \in Budgets : rows[x] # None} :
        a = b \/ rows[a].group # rows[b].group \/ rows[a].start # rows[b].start
              \/ ~IsRecurring(rows[a])

ChangeRequest == changes < MaxChanges /\ changes' = changes + 1

Quiet == UNCHANGED <<today, renewing>>

CreateBudget(b, start, recurring, auto, until) ==
    /\ ChangeRequest /\ categoryUsable
    /\ budget[b] = None
    /\ budget' = [budget EXCEPT ![b] =
           Period(start, IF recurring THEN changes' ELSE 0, recurring /\ auto, until, None)]
    /\ UNCHANGED <<categoryUsable, edited>> /\ Quiet

UpdateBudget(b, start, recurring, auto, until) ==
    LET group == IF ~recurring THEN 0
                 ELSE IF IsRecurring(budget[b]) THEN budget[b].group ELSE changes'
    IN /\ ChangeRequest /\ categoryUsable
       /\ budget[b] # None /\ ~budget[b].isArchived
       /\ budget' = [budget EXCEPT ![b] =
              [Period(start, group, recurring /\ auto, until, budget[b].parent)
                  EXCEPT !.renewed = budget[b].renewed]]
       /\ Unique(budget')
       /\ edited' = edited \cup {b}
       /\ UNCHANGED categoryUsable /\ Quiet

ToggleAutoRenew(b) ==
    /\ ChangeRequest
    /\ budget[b] # None /\ IsRecurring(budget[b])
    /\ budget' = [budget EXCEPT ![b].autoRenew = ~@]
    /\ UNCHANGED <<categoryUsable, edited>> /\ Quiet

ArchiveBudget(b) ==
    /\ ChangeRequest
    /\ budget[b] # None
    /\ budget' = [budget EXCEPT ![b].isArchived = TRUE]
    /\ UNCHANGED <<categoryUsable, edited>> /\ Quiet

RestoreBudget(b) ==
    /\ ChangeRequest
    /\ budget[b] # None /\ budget[b].isArchived /\ categoryUsable
    /\ budget' = [budget EXCEPT ![b].isArchived = FALSE]
    /\ UNCHANGED <<categoryUsable, edited>> /\ Quiet

ToggleCategory ==
    /\ ChangeRequest
    /\ categoryUsable' = ~categoryUsable
    /\ UNCHANGED <<budget, edited>> /\ Quiet

-----------------------------------------------------------------------------
\* processDueRenewals: one list, then every parent and its new children.

DueForRenewal(b) ==
    /\ budget[b] # None /\ IsRecurring(budget[b])
    /\ budget[b].autoRenew /\ ~budget[b].isArchived /\ ~budget[b].renewed
    /\ budget[b].end < today
    /\ Within(today, budget[b].until)

ListRenewals(w) ==
    LET due == {b \in Budgets : DueForRenewal(b)} IN
    /\ renewing[w] = None /\ due # {}
    /\ renewing' = [renewing EXCEPT ![w] =
           [now |-> today, iteration |-> 1, current |-> None,
            rows |-> [b \in due |-> budget[b]]]]
    /\ UNCHANGED <<today, budget, categoryUsable, changes, edited>>

\* The next parent of the list, or the end of the run.
NextParent(run) ==
    IF DOMAIN run.rows = {} THEN None
    ELSE LET b == CHOOSE x \in DOMAIN run.rows :
                     \A y \in DOMAIN run.rows : run.rows[x].end <= run.rows[y].end
         IN [now |-> run.now, iteration |-> 1, current |-> [id |-> b, row |-> run.rows[b]],
             rows |-> [y \in DOMAIN run.rows \ {b} |-> run.rows[y]]]

TakeParent(w) ==
    /\ renewing[w] # None /\ renewing[w].current = None
    /\ renewing' = [renewing EXCEPT ![w] = NextParent(@)]
    /\ UNCHANGED <<today, budget, categoryUsable, changes, edited>>

LeaveParent(w) == renewing' = [renewing EXCEPT ![w].current = None]

Renews(run) ==
    /\ run.iteration <= 3
    /\ run.current.row.end < run.now
    /\ Within(AddDays(run.current.row.end, 1), run.current.row.until)

StopRenewing(w) ==
    /\ renewing[w] # None /\ renewing[w].current # None
    /\ ~Renews(renewing[w])
    /\ LeaveParent(w)
    /\ UNCHANGED <<today, budget, categoryUsable, changes, edited>>

SuspendRenewal(w) ==                  \* the category was archived
    /\ renewing[w] # None /\ renewing[w].current # None
    /\ Renews(renewing[w]) /\ ~categoryUsable
    /\ budget' = [budget EXCEPT ![renewing[w].current.id].autoRenew = FALSE]
    /\ LeaveParent(w)
    /\ UNCHANGED <<today, categoryUsable, changes, edited>>

\* renewBudgetTransaction: the parent is marked, whatever it is by now, and
\* the child is made from the copy.
Child(row, id) ==
    Period(AddDays(row.end, 1), row.group, TRUE, row.until, id)

Renew(w) ==
    LET run  == renewing[w]
        p    == run.current
        Rows(c) == [budget EXCEPT ![p.id].renewed = TRUE, ![c] = Child(p.row, p.id)]
    IN /\ run # None /\ p # None
       /\ Renews(run) /\ categoryUsable
       /\ \E c \in Budgets :
             /\ budget[c] = None
             /\ \/ /\ Unique(Rows(c))
                   /\ budget' = Rows(c)
                   /\ renewing' = [renewing EXCEPT
                          ![w].iteration = @ + 1,
                          ![w].current = [id |-> c, row |-> Child(p.row, p.id)]]
                \/ /\ ~Unique(Rows(c))                        \* P2002
                   /\ LeaveParent(w) /\ UNCHANGED budget
       /\ UNCHANGED <<today, categoryUsable, changes, edited>>

RenewalCrash(w) ==
    /\ renewing[w] # None
    /\ renewing' = [renewing EXCEPT ![w] = None]
    /\ UNCHANGED <<today, budget, categoryUsable, changes, edited>>

NextDay ==
    /\ today < FinalDay
    /\ today' = today + 1
    /\ UNCHANGED <<budget, categoryUsable, renewing, changes, edited>>

NextBudgets ==
    \/ \E b \in Budgets, start \in Starts, recurring, auto \in BOOLEAN, until \in Untils :
          CreateBudget(b, start, recurring, auto, until)
          \/ UpdateBudget(b, start, recurring, auto, until)
    \/ \E b \in Budgets : ToggleAutoRenew(b) \/ ArchiveBudget(b) \/ RestoreBudget(b)
    \/ ToggleCategory
    \/ \E w \in Renewers : ListRenewals(w) \/ TakeParent(w) \/ StopRenewing(w)
                           \/ SuspendRenewal(w) \/ Renew(w) \/ RenewalCrash(w)
    \/ NextDay

-----------------------------------------------------------------------------
TypeOKBudgets ==
    /\ today \in 0 .. FinalDay
    /\ budget \in [Budgets -> BudgetRows \cup {None}]
    /\ \A w \in Renewers : renewing[w] = None \/ renewing[w].iteration \in 1 .. 4

\* The periods the worker adds continue a series: a period nobody edited
\* starts the day after its parent ends and is the parent's only
\* continuation, although two workers may renew from old lists and nothing
\* but the unique index of renewBudgetTransaction stands between them.
PeriodsFollowOn ==
    LET Kept(b) == budget[b] # None /\ b \notin edited IN
    \A c \in Budgets :
        (Kept(c) /\ budget[c].parent # None /\ Kept(budget[c].parent)) =>
            /\ budget[c].start = budget[budget[c].parent].end + 1
            /\ \A d \in Budgets :
                  (Kept(d) /\ budget[d].parent = budget[c].parent) => d = c
=============================================================================
