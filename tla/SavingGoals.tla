----------------------------- MODULE SavingGoals -----------------------------
(***************************************************************************)
(* Saving goals and their contributions (saving-goal.service.ts).  Every   *)
(* handler that writes runs in one serializable transaction, which either  *)
(* commits as one step or has no effect.                                   *)
(***************************************************************************)
EXTENDS Integers, FiniteSetsExt

CONSTANTS
    Goals,
    Contributions,
    Targets,            \* target amounts, positive (saving-goal.validation.ts)
    Amounts,            \* contribution amounts, positive
    Currencies,
    Unset

VARIABLES
    goal,
    contribution        \* its currency is the goal's when it was recorded

goalVars == <<goal, contribution>>

GoalStatuses == {"ACTIVE", "PAUSED", "COMPLETED"}

GoalRows ==
    [target: Targets, currency: Currencies, status: GoalStatuses,
     completedAt: BOOLEAN, isArchived: BOOLEAN]

ContributionRows == [goal: Goals, amount: Amounts, currency: Currencies]

ASSUME TargetsAssumption == Targets \subseteq Nat \ {0}
ASSUME NoRowAssumption == Unset \notin GoalRows \cup ContributionRows

InitGoals ==
    /\ goal = [g \in Goals |-> Unset]
    /\ contribution = [c \in Contributions |-> Unset]

Existing == {g \in Goals : goal[g] # Unset}
Mutable == {g \in Existing : ~goal[g].isArchived}

\* The summary of a goal: the amounts that were contributed, by contribution.
Summary(rows, g) ==
    {<<c, rows[c].amount>> : c \in {d \in Contributions : rows[d] # Unset /\ rows[d].goal = g}}

Amount(summary) == MapThenSumSet(LAMBDA entry : entry[2], summary)

\* Mutant: the target has to be exceeded.
CompletedAbove(current, summary, target, requested) ==
    [status |-> IF Amount(summary) > target THEN "COMPLETED"
                ELSE IF requested # Unset THEN requested ELSE current.status,
     completedAt |-> Amount(summary) > target]

\* status and completedAt follow from the sum; a requested status counts
\* only below the target.
ResolveCompletion(current, summary, target, requested) ==
    IF Amount(summary) >= target
    THEN [status |-> "COMPLETED", completedAt |-> TRUE]
    ELSE [status |-> IF requested # Unset THEN requested
                     ELSE IF current.status = "COMPLETED" THEN "ACTIVE"
                     ELSE current.status,
          completedAt |-> FALSE]

WithCompletion(row, completion) ==
    [row EXCEPT !.status = completion.status, !.completedAt = completion.completedAt]

CreateGoal(g) ==
    \E target \in Targets, currency \in Currencies :
        /\ goal[g] = Unset
        /\ goal' = [goal EXCEPT ![g] =
              [target |-> target, currency |-> currency, status |-> "ACTIVE",
               completedAt |-> FALSE, isArchived |-> FALSE]]
        /\ UNCHANGED contribution

UpdateGoal(g) ==
    \E target \in Targets, currency \in Currencies, requested \in {"ACTIVE", "PAUSED", Unset} :
        LET summary == Summary(contribution, g)
        IN  /\ g \in Mutable
            /\ currency # goal[g].currency => summary = {}
            /\ goal' = [goal EXCEPT ![g] =
                  WithCompletion([@ EXCEPT !.target = target, !.currency = currency],
                                 ResolveCompletion(@, summary, target, requested))]
            /\ UNCHANGED contribution

ArchiveGoal(g) ==
    /\ g \in Mutable
    /\ goal' = [goal EXCEPT ![g].isArchived = TRUE]
    /\ UNCHANGED contribution

RestoreGoal(g) ==
    /\ g \in Existing \ Mutable
    /\ goal' = [goal EXCEPT ![g] =
          WithCompletion([@ EXCEPT !.isArchived = FALSE],
                         ResolveCompletion(@, Summary(contribution, g), @.target, Unset))]
    /\ UNCHANGED contribution

\* The end of every handler of a contribution: the goal is written from the
\* contributions as they are now.
ReconcileProgress(g) ==
    goal' = [goal EXCEPT ![g] =
        WithCompletion(@, ResolveCompletion(@, Summary(contribution', g), @.target, Unset))]

CreateContribution(g) ==
    \E c \in Contributions, amount \in Amounts :
        /\ g \in Mutable /\ goal[g].status = "ACTIVE"
        /\ contribution[c] = Unset
        /\ contribution' = [contribution EXCEPT ![c] =
              [goal |-> g, amount |-> amount, currency |-> goal[g].currency]]
        /\ ReconcileProgress(g)

\* findContributionById: a contribution of this goal.
OfGoal(g) == {c \in Contributions : contribution[c] # Unset /\ contribution[c].goal = g}

UpdateContribution(g) ==
    \E c \in OfGoal(g), amount \in Amounts :
        /\ g \in Mutable
        /\ contribution' = [contribution EXCEPT ![c].amount = amount]
        /\ ReconcileProgress(g)

DeleteContribution(g) ==
    \E c \in OfGoal(g) :
        /\ g \in Mutable
        /\ contribution' = [contribution EXCEPT ![c] = Unset]
        /\ ReconcileProgress(g)

NextGoals ==
    \E g \in Goals :
        \/ CreateGoal(g) \/ UpdateGoal(g) \/ ArchiveGoal(g) \/ RestoreGoal(g)
        \/ CreateContribution(g) \/ UpdateContribution(g) \/ DeleteContribution(g)

SpecGoals == InitGoals /\ [][NextGoals]_goalVars

TypeOKGoals ==
    /\ goal \in [Goals -> GoalRows \cup {Unset}]
    /\ contribution \in [Contributions -> ContributionRows \cup {Unset}]

(***************************************************************************)
(* A goal, archived or not, is COMPLETED exactly when its contributions    *)
(* reach its target, has a completion date exactly then, and adds up       *)
(* amounts of one currency (resolveCompletion, and the currency check of   *)
(* update).                                                                *)
(***************************************************************************)
CompletedIffReached ==
    \A g \in Existing :
        /\ goal[g].status = "COMPLETED" <=> Amount(Summary(contribution, g)) >= goal[g].target
        /\ goal[g].completedAt <=> goal[g].status = "COMPLETED"

OneCurrency ==
    \A c \in Contributions :
        contribution[c] # Unset =>
            /\ contribution[c].goal \in Existing
            /\ contribution[c].currency = goal[contribution[c].goal].currency

\* Whatever order contributions, edits, archiving and restoring come in, a
\* goal is COMPLETED when its contributions reach its target, and they are in
\* its currency: see CompletedIffReached and OneCurrency (resolveCompletion,
\* SavingGoalService.update).
GoalsFollowContributions == CompletedIffReached /\ OneCurrency
=============================================================================
