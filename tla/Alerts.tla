-------------------------------- MODULE Alerts --------------------------------
(***************************************************************************)
(* Alerts about budgets and saving goals, the inbox they go to, and the    *)
(* stream that tells open pages how many are unread.  A pass of the worker *)
(* reads budgets and goals by pages and creates the alert of each, unless  *)
(* the unique key (subject, alert, amount) is taken.  A request that       *)
(* changes the inbox counts the unread rows and pushes the count: three    *)
(* steps, so counts may be pushed late.                                    *)
(***************************************************************************)
EXTENDS Naturals, FiniteSets, FiniteSetsExt

CONSTANTS
    Subjects,           \* budgets and goals: numbers, in the order of their ids
    Goals,              \* those that are saving goals
    Notes,              \* rows of notifications
    Callers,            \* requests to the inbox, and creations of rows
    Pages,              \* connections of the stream
    MaxConnections,     \* MAX_SSE_CONNECTIONS_PER_USER
    Page,               \* how many rows a page of a pass has
    Target,             \* the amount a subject starts with
    MaxChanges,         \* bound on the changes of subjects and settings
    None

VARIABLES
    subject,            \* amount, and what is spent or saved, in tenths of Target
    enabled,            \* budgetAlertsEnabled and savingGoalAlertsEnabled
    inbox,              \* the notifications
    scan,               \* a pass: the candidates of the page, and the cursor
    caller,             \* what a request does next
    badge,              \* the count a page of the stream shows
    removed,            \* keys of notifications removed since the pass began
    missed,             \* a count may have been pushed late, or not at all
    steady,             \* nothing changed since the pass began
    changes

alertVars ==
    <<subject, enabled, inbox, scan, caller, badge, removed, missed, steady, changes>>

Kinds == {"exceeded", "near", "achieved", "due"}
KeyRows == [of : Subjects, kind : Kinds, amount : Nat]
NoteRows == [key : KeyRows, isRead : BOOLEAN]
Tenths == {0, 8 * Target, 10 * Target, 11 * Target}
SubjectRows == [amount : Nat \ {0}, reached : Tenths, isDue : BOOLEAN, isArchived : BOOLEAN]
Scans ==
    [left : SUBSET [id : Subjects, row : SubjectRows], isGoal : BOOLEAN,
     cursor : Subjects \cup {0}, isFull : BOOLEAN]

\* A request that counts and pushes, and one about a row it has read.
Countings ==
    [step : {"count", "push"}, count : Nat, to : SUBSET Pages, isPass : BOOLEAN, about : {None}]
Requests == [step : {"read", "remove"}, about : Notes, wasRead : BOOLEAN, isPass : {FALSE}]

TypeOKAlerts ==
    /\ subject \in [Subjects -> SubjectRows] /\ enabled \in BOOLEAN
    /\ inbox \in [Notes -> NoteRows \cup {None}] /\ removed \subseteq KeyRows
    /\ scan \in Scans \cup {None} /\ caller \in [Callers -> Countings \cup Requests \cup {None}]
    /\ badge \in [Pages -> Nat \cup {None}] /\ missed \in BOOLEAN /\ steady \in BOOLEAN
    /\ \A m, n \in Notes :
         inbox[m] # None /\ inbox[n] # None /\ inbox[m].key = inbox[n].key => m = n
    /\ Cardinality({p \in Pages : badge[p] # None}) <= MaxConnections

\* isOver: the first budget is exceeded, and there are no others.
InitAlerts(isOver) ==
    /\ subject = [s \in Subjects |->
                    [amount |-> Target, isDue |-> FALSE, isArchived |-> isOver /\ s # 1,
                     reached |-> IF isOver /\ s = 1 THEN 11 * Target ELSE 0]]
    /\ enabled = TRUE /\ inbox = [n \in Notes |-> None]
    /\ scan = None /\ caller = [c \in Callers |-> None]
    /\ badge = [p \in Pages |-> None]
    /\ removed = {} /\ missed = FALSE /\ steady = FALSE
    /\ changes = IF isOver THEN MaxChanges ELSE 0

Unread == Cardinality({n \in Notes : inbox[n] # None /\ ~inbox[n].isRead})

-----------------------------------------------------------------------------
(***************************************************************************)
(* Which alerts a candidate gives: processBudgetCandidate and              *)
(* processSavingGoalCandidate.  A budget warns at its threshold, here 80%. *)
(***************************************************************************)
Near(row) == row.reached >= 8 * row.amount

AlertsOf(s, row) ==
    IF s \notin Goals
    THEN IF row.reached > 10 * row.amount THEN {"exceeded"}
         ELSE IF Near(row) THEN {"near"} ELSE {}
    ELSE IF row.reached >= 10 * row.amount THEN {"achieved"}
         ELSE (IF Near(row) THEN {"near"} ELSE {}) \cup (IF row.isDue THEN {"due"} ELSE {})

\* dedupKey: a new amount gives a new key, except that of a due date.
KeysOf(s, row) ==
    {[of |-> s, kind |-> k, amount |-> IF k = "due" THEN 0 ELSE row.amount] :
        k \in AlertsOf(s, row)}

-----------------------------------------------------------------------------
(***************************************************************************)
(* Money is spent and saved, budgets are edited, alerts switched.          *)
(***************************************************************************)
Change(s, row) ==
    /\ changes < MaxChanges /\ changes' = changes + 1
    /\ row # subject[s] /\ subject' = [subject EXCEPT ![s] = row] /\ steady' = FALSE
    /\ UNCHANGED <<enabled, inbox, scan, caller, badge, removed, missed>>

Edit(s) ==
    \/ \E t \in Tenths : Change(s, [subject[s] EXCEPT !.reached = t])
    \/ Change(s, [subject[s] EXCEPT !.amount = Target + 1])
    \/ s \in Goals /\ Change(s, [subject[s] EXCEPT !.isDue = TRUE])
    \/ Change(s, [subject[s] EXCEPT !.isArchived = ~@])

Switch ==
    /\ changes < MaxChanges /\ changes' = changes + 1
    /\ enabled' = ~enabled /\ steady' = FALSE
    /\ UNCHANGED <<subject, inbox, scan, caller, badge, removed, missed>>

-----------------------------------------------------------------------------
(***************************************************************************)
(* scanFinancialAlerts.  Budgets go on until a page is empty, goals until  *)
(* a page is not full.                                                     *)
(***************************************************************************)
FirstOf(S, k) == {s \in S : Cardinality({t \in S : t < s}) < k}

\* From the cursor on, and without the first: that is another row than the
\* cursor's when the cursor's was archived since.
Candidates(isGoal, cursor) ==
    LET rows == {s \in Subjects : /\ (s \in Goals) = isGoal
                                  /\ s >= cursor /\ ~subject[s].isArchived}
    IN  rows \ FirstOf(rows, IF cursor = 0 THEN 0 ELSE 1)

\* A page is a copy of its rows.
NextPage(isGoal, cursor) ==
    LET page == FirstOf(Candidates(isGoal, cursor), Page) IN
    [left |-> {[id |-> s, row |-> subject[s]] : s \in page}, isGoal |-> isGoal,
     cursor |-> IF page = {} THEN 0 ELSE Max(page), isFull |-> Cardinality(page) = Page]

BeginScan ==
    /\ scan = None /\ scan' = NextPage(FALSE, 0) /\ steady' = TRUE /\ removed' = {}
    /\ UNCHANGED <<subject, enabled, inbox, caller, badge, missed, changes>>

\* Not the code: goals have one page.
BudgetsGoOn == ~scan.isGoal /\ scan.cursor # 0
\* The page is not the last one of its kind.
GoesOn == IF scan.isGoal THEN scan.isFull ELSE scan.cursor # 0

TurnPage ==
    /\ scan # None /\ scan.left = {} /\ (GoesOn \/ ~scan.isGoal)
    /\ scan' = IF GoesOn THEN NextPage(scan.isGoal, scan.cursor) ELSE NextPage(TRUE, 0)
    /\ UNCHANGED <<subject, enabled, inbox, caller, badge, removed, missed, steady, changes>>

\* The candidate's alerts are created; a key that is taken creates nothing.
Counted == \E c \in Callers : caller[c] # None /\ caller[c].step = "push"

\* Who counts next, and the pages the count is for.
Counting(to, isPass) == 
    [step |-> "count", count |-> 0, to |-> to, isPass |-> isPass, about |-> None]

Absent(key) == key \notin {inbox[n].key : n \in {m \in Notes : inbox[m] # None}}

Create(c, n) ==
    /\ scan # None /\ enabled /\ caller[c] = None
    /\ inbox[n] = None /\ ~\E d \in Callers : caller[d] # None /\ caller[d].about = n
    /\ \E s \in scan.left : \E key \in KeysOf(s.id, s.row) :
         /\ Absent(key)
         /\ inbox' = [inbox EXCEPT ![n] = [key |-> key, isRead |-> FALSE]]
    /\ caller' = [caller EXCEPT ![c] = Counting(Pages, TRUE)]
    /\ missed' = (missed \/ Counted)
    /\ UNCHANGED <<subject, enabled, scan, badge, removed, steady, changes>>

\* All its alerts are there, or are switched off.
Processed(s) == ~enabled \/ \A key \in KeysOf(s.id, s.row) : ~Absent(key)

Process(s) ==
    /\ scan # None /\ s \in scan.left /\ Processed(s)
    /\ ~\E c \in Callers : caller[c] # None /\ caller[c].isPass
    /\ scan' = [scan EXCEPT !.left = @ \ {s}]
    /\ UNCHANGED <<subject, enabled, inbox, caller, badge, removed, missed, steady, changes>>

EndScan ==
    /\ scan # None /\ scan.left = {} /\ scan.isGoal /\ ~GoesOn
    /\ scan' = None
    /\ UNCHANGED <<subject, enabled, inbox, caller, badge, removed, missed, steady, changes>>

\* A query fails, or the process ends.
AbortScan ==
    /\ scan # None /\ scan' = None /\ steady' = FALSE
    /\ UNCHANGED <<subject, enabled, inbox, caller, badge, removed, missed, changes>>

-----------------------------------------------------------------------------
(***************************************************************************)
(* The inbox.  A request reads the row it is about first (findOwned), and  *)
(* a row that was read then pushes no count.                               *)
(***************************************************************************)
Open(c, op, n) ==
    /\ caller[c] = None /\ inbox[n] # None
    /\ caller' = [caller EXCEPT ![c] =
                     [step |-> op, about |-> n, wasRead |-> inbox[n].isRead, isPass |-> FALSE]]
    /\ UNCHANGED <<subject, enabled, inbox, scan, badge, removed, missed, steady, changes>>

\* The write of a request to a row it has read before; a row that is gone
\* by now fails the request.
Written(c, row) ==
    LET n == caller[c].about IN
    IF inbox[n] = None
    THEN caller' = [caller EXCEPT ![c] = None] /\ UNCHANGED <<inbox, missed>>
    ELSE /\ inbox' = [inbox EXCEPT ![n] = row] /\ missed' = (missed \/ Counted)
         /\ caller' = [caller EXCEPT ![c] = IF caller[c].wasRead THEN None
                                           ELSE Counting(Pages, FALSE)]

MarkRead(c) ==
    /\ caller[c] # None /\ caller[c].step = "read"
    /\ IF caller[c].wasRead
       THEN caller' = [caller EXCEPT ![c] = None] /\ UNCHANGED <<inbox, missed>>
       ELSE Written(c, [inbox[caller[c].about] EXCEPT !.isRead = TRUE])
    /\ UNCHANGED <<subject, enabled, scan, badge, removed, steady, changes>>

Remove(c) ==
    /\ caller[c] # None /\ caller[c].step = "remove"
    /\ Written(c, None)
    /\ LET row == inbox[caller[c].about] IN
       removed' = IF row = None THEN removed ELSE removed \cup {row.key}
    /\ UNCHANGED <<subject, enabled, scan, badge, steady, changes>>

\* markAllRead pushes 0 without counting.
MarkAllRead(c) ==
    /\ caller[c] = None
    /\ inbox' = [n \in Notes |-> IF inbox[n] = None THEN None
                                 ELSE [inbox[n] EXCEPT !.isRead = TRUE]]
    /\ caller' = [caller EXCEPT ![c] = [Counting(Pages, FALSE) EXCEPT !.step = "push"]]
    /\ missed' = (missed \/ Counted)
    /\ UNCHANGED <<subject, enabled, scan, badge, removed, steady, changes>>

Count(c) ==
    /\ caller[c] # None /\ caller[c].step = "count"
    /\ caller' = [caller EXCEPT ![c] = [@ EXCEPT !.step = "push", !.count = Unread]]
    /\ UNCHANGED <<subject, enabled, inbox, scan, badge, removed, missed, steady, changes>>

\* broadcastToUser
Push(c) ==
    /\ caller[c] # None /\ caller[c].step = "push"
    /\ badge' = [p \in Pages |-> IF badge[p] # None /\ p \in caller[c].to
                                 THEN caller[c].count ELSE badge[p]]
    /\ caller' = [caller EXCEPT ![c] = None]
    /\ UNCHANGED <<subject, enabled, inbox, scan, removed, missed, steady, changes>>

\* The count fails; the request succeeds without it.
CountFails(c) ==
    /\ caller[c] # None /\ caller[c].step = "count"
    /\ caller' = [caller EXCEPT ![c] = None] /\ missed' = TRUE
    /\ UNCHANGED <<subject, enabled, inbox, scan, badge, removed, steady, changes>>

\* registerClient refuses one connection too many, adds the page to those
\* of the user, and then counts for this page alone.
Connect(c, p) ==
    /\ caller[c] = None /\ badge[p] = None
    /\ Cardinality({q \in Pages : badge[q] # None}) < MaxConnections
    /\ badge' = [badge EXCEPT ![p] = 0]
    /\ caller' = [caller EXCEPT ![c] = Counting({p}, FALSE)]
    /\ UNCHANGED <<subject, enabled, inbox, scan, removed, missed, steady, changes>>

Disconnect(p) ==
    /\ badge[p] # None /\ badge' = [badge EXCEPT ![p] = None]
    /\ UNCHANGED <<subject, enabled, inbox, scan, caller, removed, missed, steady, changes>>

NextAlerts ==
    \/ \E s \in Subjects : Edit(s)
    \/ Switch \/ BeginScan \/ TurnPage \/ EndScan \/ AbortScan
    \/ scan # None /\ \E s \in scan.left : Process(s)
    \/ \E c \in Callers, n \in Notes : Create(c, n) \/ Open(c, "read", n) \/ Open(c, "remove", n)
    \/ \E c \in Callers :
         MarkRead(c) \/ Remove(c) \/ MarkAllRead(c) \/ Count(c) \/ Push(c) \/ CountFails(c)
    \/ \E c \in Callers, p \in Pages : Connect(c, p)
    \/ \E p \in Pages : Disconnect(p)

-----------------------------------------------------------------------------
\* A pass during which nothing changes leaves out no budget and no goal,
\* whatever the sizes of its pages: each has its alerts, or its owner has
\* removed them (scanFinancialAlerts).
PassTellsAll ==
    (steady /\ scan = None /\ enabled) =>
         \A s \in Subjects : ~subject[s].isArchived =>
            \A key \in KeysOf(s, subject[s]) : ~Absent(key) \/ key \in removed

\* When no request is under way a page shows the number of unread
\* notifications, unless a row was written between the count of another
\* request and its push, or a count failed (markRead, remove, create).
BadgeFollowsInbox ==
    ~missed /\ (\A c \in Callers : caller[c] = None) =>
        \A p \in Pages : badge[p] # None => badge[p] = Unread
=============================================================================
