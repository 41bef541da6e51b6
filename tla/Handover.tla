------------------------------ MODULE Handover ------------------------------
(***************************************************************************)
(* Handing all data of one account over to another.  The session of a      *)
(* hand-over lives in the cache: initiate, claim, confirm and cancel read  *)
(* a copy of it, decide, and save the whole copy, so overlapping requests  *)
(* overwrite each other.  The data moves in one serializable transaction.  *)
(* Debts, deposits, memberships of shared wallets and webhooks stay with   *)
(* the closed account.                                                     *)
(***************************************************************************)
EXTENDS Accounts, SequencesExt

CONSTANTS
    Handovers,          \* tokens of sessions of hand-overs
    Callers,            \* requests that may run at one time
    MaxFailed,          \* MAX_FAILED_ATTEMPTS
    Wallets, Categories, Records    \* rows, a record is one that has a category

VARIABLES
    handover,           \* the session of a token, in the cache
    userKey,            \* the token of the session of a user, in the cache
    pinKey,             \* the tokens whose PIN is in the cache
    caller,             \* what a request does next
    moved,              \* tokens whose data was moved
    clobbered,          \* tokens whose session was overwritten by an older copy
    wallet, category, record

handoverVars == <<handover, userKey, pinKey, caller, moved, clobbered, wallet, category, record>>

HandoverRows ==
    [source: Users, target: Users \cup {None}, failed: 0..MaxFailed,
     status: {"PENDING_CLAIM", "CLAIMED", "COMPLETED"}]

TypeOKHandover ==
    /\ handover \in [Handovers -> HandoverRows \cup {None}]
    /\ userKey \in [Users -> Handovers \cup {None}]
    /\ pinKey \subseteq Handovers /\ moved \subseteq Handovers /\ clobbered \subseteq Handovers
    /\ \A t \in Handovers : (handover[t] # None /\ handover[t].status # "PENDING_CLAIM")
                                => handover[t].target \notin {None, handover[t].source}
    /\ \A c \in Categories : category[c] # None => category[c].owner \in Users

InitHandover(wallets, categories, records) ==
    /\ handover = [t \in Handovers |-> None] /\ userKey = [u \in Users |-> None]
    /\ pinKey = {} /\ moved = {} /\ clobbered = {}
    /\ caller = [c \in Callers |-> None]
    /\ wallet = wallets /\ category = categories /\ record = records

keepEstate == UNCHANGED <<account, wallet, category, record>>

-----------------------------------------------------------------------------
\* The transaction.

Suffixed(name, taken) ==
    LET free == {k \in 0..Cardinality(Wallets) : Append(name, k) \notin taken} IN
    Append(name, CHOOSE k \in free : \A j \in free : k <= j)

\* One wallet goes to user b: a name that b has, or took from an earlier
\* wallet, gets a suffix; a name that the unique index refuses fails it all.
MoveWallet(b, state, w) ==
    LET row == state.wallet[w]
        clash == row.name \in state.taken
        name == IF clash THEN Suffixed(row.name, state.taken) ELSE row.name IN
    [wallet |-> [state.wallet EXCEPT ![w] =
                    [owner |-> b, name |-> name, isDefault |-> row.isDefault /\ ~clash]],
     taken |-> IF clash THEN state.taken \cup {name} ELSE state.taken,
     failed |-> state.failed \/ \E v \in Wallets \ {w} :
                    state.wallet[v].owner = b /\ state.wallet[v].name = name]

MovedWallets(a, b, order) ==
    FoldLeft(LAMBDA state, w : MoveWallet(b, state, w),
             [wallet |-> wallet, failed |-> FALSE,
              taken |-> {wallet[w].name : w \in {v \in Wallets : wallet[v].owner = b}}],
             order)

\* The category of b with the name and type of c, or c itself.
Match(c, b) ==
    LET same == {d \in Categories : category[d] # None /\ category[d].owner = b
                                    /\ category[d].name = category[c].name} IN
    IF same = {} THEN c ELSE CHOOSE d \in same : TRUE

MovedCategories(a, b) ==
    [c \in Categories |->
        IF category[c] = None \/ category[c].owner # a THEN category[c]
        ELSE IF Match(c, b) # c THEN None ELSE [category[c] EXCEPT !.owner = b]]

\* Not the code: records keep the category that is merged into another.
MovedAsTheyAre(a, b) ==
    [r \in Records |-> IF record[r].owner # a THEN record[r]
                       ELSE [record[r] EXCEPT !.owner = b]]

MovedRecords(a, b) ==
    [r \in Records |->
        IF record[r].owner # a THEN record[r]
        ELSE [owner |-> b,
              category |-> IF record[r].category = None THEN None
                           ELSE Match(record[r].category, b)]]

\* The source need only exist, the target must be active.
Valid(a, b) == account[a] # None /\ Live(b)

-----------------------------------------------------------------------------
Call(c, step, t, copy) ==
    /\ caller[c] = None
    /\ caller' = [caller EXCEPT ![c] =
                    [step |-> step, token |-> t, seen |-> handover[t], copy |-> copy]]

AtStep(c, step) == caller[c] # None /\ caller[c].step = step

GoOn(c, step) == caller' = [caller EXCEPT ![c].step = step]

Return(c) == caller' = [caller EXCEPT ![c] = None]

\* deleteSession
Drop(t, u) ==
    /\ handover' = [handover EXCEPT ![t] = None] /\ pinKey' = pinKey \ {t}
    /\ userKey' = [userKey EXCEPT ![u] = None]

keepCache == UNCHANGED <<handover, userKey, pinKey>>

\* initiateHandover deletes the session the user has, then saves a new one.
Initiate(c, u, t) ==
    /\ Live(u) /\ account[u].hasEmail /\ handover[t] = None /\ t \notin moved
    /\ \A d \in Callers : caller[d] # None => caller[d].token # t
    /\ Call(c, "save", t, [source |-> u, target |-> None, failed |-> 0,
                           status |-> "PENDING_CLAIM"])
    /\ LET old == userKey[u] IN
       IF old # None /\ handover[old] # None THEN Drop(old, u) ELSE keepCache
    /\ keepEstate /\ UNCHANGED <<moved, clobbered>>

Spent(row) == row.failed >= MaxFailed

\* claimHandover by user u: a wrong signature is counted.
Claim(c, u, t, right) ==
    LET row == handover[t] IN
    /\ Live(u) /\ row # None /\ keepEstate /\ UNCHANGED <<moved, clobbered>>
    /\ \/ /\ Spent(row) /\ Drop(t, row.source) /\ UNCHANGED caller
       \/ /\ ~Spent(row) /\ ~right /\ keepCache
          /\ Call(c, "save", t, [row EXCEPT !.failed = @ + 1])
       \/ /\ ~Spent(row) /\ right /\ row.source # u
          /\ row.status = "CLAIMED" => row.target = u
          /\ row.status # "COMPLETED"
          /\ Call(c, "save", t, [row EXCEPT !.status = "CLAIMED", !.target = u])
          /\ keepCache

\* confirmHandover by the source: a wrong OTP is counted.
Confirm(c, t, right) ==
    LET row == handover[t] IN
    /\ row # None /\ row.status = "CLAIMED" /\ keepEstate /\ UNCHANGED <<moved, clobbered>>
    /\ \/ /\ Spent(row) /\ Drop(t, row.source) /\ UNCHANGED caller
       \/ /\ ~Spent(row) /\ ~right /\ keepCache
          /\ Call(c, "save", t, [row EXCEPT !.failed = @ + 1])
       \/ /\ ~Spent(row) /\ right /\ keepCache
          /\ Call(c, "execute", t, row)

\* saveSession writes the copy with its two keys.
Save(c, next) ==
    LET t == caller[c].token IN
    /\ handover' = [handover EXCEPT ![t] = caller[c].copy]
    /\ pinKey' = pinKey \cup {t}
    /\ userKey' = [userKey EXCEPT ![caller[c].copy.source] = t]
    /\ clobbered' = IF handover[t] # caller[c].seen THEN clobbered \cup {t} ELSE clobbered
    /\ IF next = None THEN Return(c) ELSE GoOn(c, next)

SaveCopy(c) == AtStep(c, "save") /\ Save(c, None) /\ keepEstate /\ UNCHANGED moved

\* executeAtomicHandover: an error leaves the session as it is.
Execute(c) ==
    LET a == caller[c].copy.source
        b == caller[c].copy.target IN
    /\ AtStep(c, "execute") /\ keepCache /\ UNCHANGED clobbered
    /\ \E order \in SetToSeqs({w \in Wallets : wallet[w].owner = a}) :
         LET result == MovedWallets(a, b, order) IN
         IF ~Valid(a, b) \/ result.failed
           THEN Return(c) /\ keepEstate /\ UNCHANGED moved
           ELSE /\ wallet' = result.wallet
                /\ category' = MovedCategories(a, b) /\ record' = MovedRecords(a, b)
                /\ account' = [account EXCEPT ![a] = Deleted(@)]
                /\ moved' = moved \cup {caller[c].token}
                /\ caller' = [caller EXCEPT ![c].step = "tell", ![c].copy.status = "COMPLETED"]

Tell(c) == AtStep(c, "tell") /\ Save(c, "drop") /\ keepEstate /\ UNCHANGED moved

\* The result stays for a while, the keys of the source go.
DropKeys(c) ==
    /\ AtStep(c, "drop") /\ Return(c) /\ pinKey' = pinKey \ {caller[c].token}
    /\ userKey' = [userKey EXCEPT ![caller[c].copy.source] = None]
    /\ keepEstate /\ UNCHANGED <<handover, moved, clobbered>>

\* cancelHandover, by the token or by the user's key.
Cancel(u, t) ==
    /\ handover[t] # None /\ handover[t].source = u /\ Drop(t, u)
    /\ keepEstate /\ UNCHANGED <<caller, moved, clobbered>>

Expire(t) ==
    /\ handover[t] # None /\ Drop(t, handover[t].source)
    /\ keepEstate /\ UNCHANGED <<caller, moved, clobbered>>

\* The process of a request dies: after the transaction nobody is told.
LoseCaller(c) ==
    /\ caller[c] # None /\ Return(c) /\ keepCache /\ keepEstate /\ UNCHANGED moved
    /\ clobbered' = IF AtStep(c, "tell") THEN clobbered \cup {caller[c].token} ELSE clobbered

HandoverStep ==
    \/ \E c \in Callers, u \in Users, t \in Handovers :
         \/ Initiate(c, u, t)
         \/ \E right \in BOOLEAN : Claim(c, u, t, right)
    \/ \E c \in Callers, t \in Handovers, right \in BOOLEAN : Confirm(c, t, right)
    \/ \E c \in Callers : SaveCopy(c) \/ Execute(c) \/ Tell(c) \/ DropKeys(c) \/ LoseCaller(c)
    \/ \E u \in Users, t \in Handovers : Cancel(u, t)
    \/ \E t \in Handovers : Expire(t)

-----------------------------------------------------------------------------
\* Once the data has moved, the session says COMPLETED or is gone: it says
\* anything else only while the request that moved it has still to save,
\* or after an overlapping request saved the copy it had read before
\* (confirmHandover, saveSession).
HandoverIsTold ==
    \A t \in moved :
        \/ handover[t] = None
        \/ handover[t].status = "COMPLETED"
        \/ t \in clobbered
        \/ \E c \in Callers : AtStep(c, "tell") /\ caller[c].token = t

\* A closed source owns nothing that moves, and a record refers to a
\* category of its own owner, the merged ones included
\* (executeAtomicHandover).
EstateIsWhole ==
    /\ \A t \in moved, w \in Wallets :
         \E u \in Users : wallet[w].owner = u /\ ~account[u].isDeleted
    /\ \A r \in Records : record[r].category # None =>
         /\ category[record[r].category] # None
         /\ category[record[r].category].owner = record[r].owner
=============================================================================
