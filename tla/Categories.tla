----------------------------- MODULE Categories ------------------------------
(***************************************************************************)
(* One user's category tree under the system categories                    *)
(* (category.service.ts).  create, update and restore check in separate    *)
(* reads and write afterwards; archive runs in one serializable            *)
(* transaction that reads everything again.                                *)
(***************************************************************************)
EXTENDS Integers, FiniteSets

CONSTANTS
    Categories,         \* the user's
    SystemCategories,   \* seeded, read-only, of type SystemType
    SystemType,
    Types,
    Requests,           \* requests in flight at once
    Absent              \* no row, no parent, no request

VARIABLES
    category,
    used,       \* used[c]: the types of the transactions and budgets of c
    asked,      \* asked[r]: what r passed its checks for and has still to write
    raced       \* a request wrote although others had written since its checks

categoryVars == <<category, used, asked, raced>>

Known == Categories \cup SystemCategories

CategoryRows ==
    [parent: Known \cup {Absent}, type: Types, isArchived: BOOLEAN]

Asks ==
    [kind: {"create", "update", "restore"}, id: Categories,
     fields: SUBSET {"parent", "type"},     \* what the request writes
     parent: Known \cup {Absent}, type: Types, overtaken: BOOLEAN]

\* The rows of a user and of the system are apart, finitely many, and none of
\* them is no row.
RowsApart ==
    /\ IsFiniteSet(Categories) /\ IsFiniteSet(SystemCategories)
    /\ Categories \cap SystemCategories = {}
    /\ SystemType \in Types
    /\ Absent \notin Known \cup CategoryRows \cup Asks

ASSUME CategoriesAssumption == RowsApart

InitCategories ==
    /\ category = [c \in Known |->
          IF c \in SystemCategories
          THEN [parent |-> Absent, type |-> SystemType, isArchived |-> FALSE] ELSE Absent]
    /\ used = [c \in Categories |-> {}]
    /\ asked = [r \in Requests |-> Absent]
    /\ raced = FALSE

ValidParent(p, type) ==
    p # Absent =>
        /\ category[p] # Absent
        /\ ~category[p].isArchived
        /\ category[p].type = type

HasDependencies(c) ==
    \/ \E d \in Categories : category[d] # Absent /\ category[d].parent = c
    \/ used[c] # {}

\* The walk from the new parent to the root: it meets c, or itself.
WouldCreateCycle(c, p) ==
    LET steps == Cardinality(Known)
        up[n \in 0..steps] ==
            IF n = 0 THEN p
            ELSE IF up[n - 1] = Absent THEN Absent ELSE category[up[n - 1]].parent
    IN  up[steps] # Absent \/ \E n \in 0..steps : up[n] = c

\* The checks passed: the request goes on to its write.
Ask(r, kind, c, fields, parent, type) ==
    /\ asked[r] = Absent
    /\ asked' = [asked EXCEPT ![r] =
          [kind |-> kind, id |-> c, fields |-> fields, parent |-> parent, type |-> type,
           overtaken |-> FALSE]]
    /\ UNCHANGED <<category, used, raced>>

CheckCreate(r) ==
    \E c \in Categories, p \in Known \cup {Absent}, type \in Types :
        /\ category[c] = Absent
        /\ \A s \in Requests : asked[s] # Absent => asked[s].id # c    \* a fresh id
        /\ ValidParent(p, type)
        /\ Ask(r, "create", c, {"parent", "type"}, p, type)

CheckUpdate(r) ==
    \E c \in Categories, p \in Known \cup {Absent}, type \in Types,
       fields \in SUBSET {"parent", "type"} :
        /\ category[c] # Absent /\ ~category[c].isArchived
        /\ "parent" \notin fields => p = category[c].parent
        /\ "type" \notin fields => type = category[c].type
        /\ type # category[c].type => ~HasDependencies(c)
        /\ ValidParent(p, type)
        /\ p # Absent => ~WouldCreateCycle(c, p)
        /\ Ask(r, "update", c, fields, p, type)

CheckRestore(r) ==
    \E c \in Categories :
        /\ category[c] # Absent /\ category[c].isArchived
        /\ ValidParent(category[c].parent, category[c].type)
        /\ Ask(r, "restore", c, {}, category[c].parent, category[c].type)

\* Another request is overtaken by a write that comes after its checks.
Overtake(others) ==
    [r \in Requests |->
        IF r \in others /\ asked[r] # Absent THEN [asked[r] EXCEPT !.overtaken = TRUE]
        ELSE asked[r]]

\* Mutant: a request writes only the type.
TypeWritten(old, ask) == [type |-> ask.type, isArchived |-> FALSE]

Written(old, ask) ==
    CASE ask.kind = "create" -> [parent |-> ask.parent, type |-> ask.type, isArchived |-> FALSE]
      [] ask.kind = "update" ->
            [old EXCEPT !.parent = IF "parent" \in ask.fields THEN ask.parent ELSE @,
                        !.type = IF "type" \in ask.fields THEN ask.type ELSE @]
      [] ask.kind = "restore" -> [old EXCEPT !.isArchived = FALSE]

Write(r) ==
    LET ask == asked[r]
    IN  /\ ask # Absent
        /\ category' = [category EXCEPT ![ask.id] = Written(@, ask)]
        /\ asked' = [Overtake(Requests \ {r}) EXCEPT ![r] = Absent]
        /\ raced' = (raced \/ ask.overtaken)
        /\ UNCHANGED used

Abandon(r) ==
    /\ asked[r] # Absent
    /\ asked' = [asked EXCEPT ![r] = Absent]
    /\ UNCHANGED <<category, used, raced>>

\* Mutant: what is below an archived category stays.
OnlyItself(c) == {c}

\* archiveBranch: c and everything below it.
Branch(c) ==
    LET size == Cardinality(Categories)
        below[n \in 0..size] ==
            IF n = 0 THEN {c}
            ELSE below[n - 1] \cup
                 {d \in Categories : category[d] # Absent /\ category[d].parent \in below[n - 1]}
    IN  below[size]

ArchiveBranch ==
    \E c \in Categories :
        /\ category[c] # Absent /\ ~category[c].isArchived
        /\ category' = [d \in Known |->
              IF d \in Branch(c) THEN [category[d] EXCEPT !.isArchived = TRUE] ELSE category[d]]
        /\ asked' = Overtake(Requests)
        /\ UNCHANGED <<used, raced>>

\* A transaction or a budget of an active category takes its type.
Use ==
    \E c \in Categories :
        /\ category[c] # Absent /\ ~category[c].isArchived
        /\ used' = [used EXCEPT ![c] = @ \cup {category[c].type}]
        /\ asked' = Overtake(Requests)
        /\ UNCHANGED <<category, raced>>

Release ==
    \E c \in Categories :
        /\ used[c] # {}
        /\ used' = [used EXCEPT ![c] = {}]
        /\ UNCHANGED <<category, asked, raced>>

NextCategories ==
    \/ \E r \in Requests :
          CheckCreate(r) \/ CheckUpdate(r) \/ CheckRestore(r) \/ Write(r) \/ Abandon(r)
    \/ ArchiveBranch \/ Use \/ Release

SpecCategories == InitCategories /\ [][NextCategories]_categoryVars

TypeOKCategories ==
    /\ category \in [Known -> CategoryRows \cup {Absent}]
    /\ used \in [Categories -> SUBSET Types]
    /\ asked \in [Requests -> Asks \cup {Absent}]
    /\ raced \in BOOLEAN

(***************************************************************************)
(* The user's categories hang below roots without a cycle, a child has the *)
(* type of its parent, nothing active hangs below an archived category,    *)
(* and transactions keep the type of their category -- unless a request    *)
(* wrote after another had written since its checks: the checks of update, *)
(* create and restore are not in one transaction with the write.           *)
(***************************************************************************)
CategoriesFormForest ==
    raced \/
    \A c \in Categories :
        category[c] # Absent =>
            /\ category[c].parent # Absent => ~WouldCreateCycle(c, category[c].parent)
            /\ category[c].isArchived \/ ValidParent(category[c].parent, category[c].type)
            /\ category[c].parent # Absent => category[category[c].parent].type = category[c].type
            /\ used[c] \subseteq {category[c].type}
=============================================================================
