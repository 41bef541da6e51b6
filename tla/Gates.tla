-------------------------------- MODULE Gates --------------------------------
(***************************************************************************)
(* What a request passes before its handler: the counters of the rate      *)
(* limits, the maintenance mode with the cache its setting is read from,   *)
(* and the limit of API keys.  Counters and cache live in Redis, or in the *)
(* memory of the process while Redis is away or fails.  Times are counted  *)
(* down, in ticks.                                                         *)
(***************************************************************************)
EXTENDS Naturals, Sequences, SequencesExt, FiniteSets, FiniteSetsExt

CONSTANTS
    Clients,            \* addresses, users or API keys that are counted
    Guests,             \* requests at one time
    MaxRequests, Window,
    MaxEntries,         \* MAX_RATE_LIMIT_ENTRIES
    Lifetime,           \* CACHE_TTL_SECONDS of a setting
    ApiKeys, MaxApiKeys,
    MaxBroken,          \* bound on failures and reconnections
    None

VARIABLES
    online,             \* isRedisConnected
    broken,             \* failures so far
    tally,              \* keys of Redis: count and TTL; None as TTL is for ever
    requestCounts,      \* in memory: a Map keeps the order of insertion
    cleaned,            \* ticks until the next clean-up of requestCounts
    guest,              \* what a request does next
    passed,             \* requests a store let pass, by tick, the present one first
    waited,             \* ticks since a store refused a client for the first time, if
                        \* no other answer came since
    tooLong,            \* a client was refused again a window later
    setting,            \* system.maintenance.enabled: the row
    cached,             \* its entry in a store: value, left, and why it may be old
    let,                \* the last plain request: was it let in, and should it have been
    apiKey,             \* rows of API keys
    overlapped          \* two creations of API keys overlapped

limitVars == <<tally, requestCounts, cleaned, passed, waited, tooLong>>
settingVars == <<setting, cached, let>>
apiKeyVars == <<apiKey, overlapped>>
gateVars == <<online, broken, guest, limitVars, settingVars, apiKeyVars>>

Stores == {"redis", "memory"}
Forever == Window + 1

TypeOKGates ==
    /\ \A c \in Clients : tally[c].left \in 0 .. Forever
    /\ Len(requestCounts) <= MaxEntries
    /\ \A i, j \in DOMAIN requestCounts : requestCounts[i].client = requestCounts[j].client => i = j
    /\ \A s \in Stores : cached[s] # None => cached[s].left \in 1 .. Lifetime

NoPasses == [s \in Stores |-> [c \in Clients |-> [t \in 1 .. Window |-> 0]]]

InitGates ==
    /\ online \in BOOLEAN /\ broken = 0
    /\ tally = [c \in Clients |-> [count |-> 0, left |-> 0]] /\ requestCounts = <<>> /\ cleaned = 0
    /\ guest = [g \in Guests |-> None]
    /\ passed = NoPasses /\ waited = [s \in Stores |-> [c \in Clients |-> None]]
    /\ tooLong = FALSE
    /\ setting = FALSE /\ cached = [s \in Stores |-> None] /\ let = None
    /\ apiKey = [k \in ApiKeys |-> None] /\ overlapped = FALSE

\* An entry is old for a reason that stays until it ends or is replaced.
Outdated(old) == old \cap {"late", "missed"} # {}
Deleting == \E g \in Guests : guest[g] # None /\ guest[g].step = "del"

-----------------------------------------------------------------------------
(***************************************************************************)
(* rateLimitMiddleware, its copies for the assistant and for API keys, and *)
(* createRateLimiter.                                                      *)
(***************************************************************************)
Answer(s, c, count) ==
    /\ waited' = [t \in Stores |-> [waited[t] EXCEPT ![c] =
                    IF t # s \/ count <= MaxRequests THEN None
                    ELSE IF @ = None THEN 0 ELSE @]]
    /\ tooLong' = (tooLong \/ (count > MaxRequests /\ waited[s][c] = Window))

Pass(s, c, count) ==
    passed' = IF count > MaxRequests THEN passed
              ELSE [passed EXCEPT ![s][c] = [@ EXCEPT ![1] = @ + 1]]

\* incr and pttl are one pipeline.
Incremented(c) ==
    IF tally[c].left = 0 THEN [count |-> 1, left |-> Forever]
    ELSE [tally[c] EXCEPT !.count = Min({@ + 1, MaxRequests + 1})]

\* Not the code: a key that has lost its TTL stays without.
FirstLacksWindow(row) == row.count = 1
LacksWindow(row) == row.count = 1 \/ row.left = Forever

\* A refusal is given after the key has got its TTL, if it lacks one.
Hit(g, c) ==
    /\ online /\ guest[g] = None
    /\ LET row == Incremented(c)
           asks == LacksWindow(row) IN
       /\ tally' = [tally EXCEPT ![c] = row]
       /\ guest' = IF asks THEN [guest EXCEPT ![g] =
                      [step |-> "expire", client |-> c, count |-> row.count]] ELSE guest
       /\ IF asks /\ row.count > MaxRequests THEN UNCHANGED <<waited, tooLong>>
          ELSE Answer("redis", c, row.count)
       /\ Pass("redis", c, row.count)
    /\ UNCHANGED <<online, broken, requestCounts, cleaned, settingVars, apiKeyVars>>

\* pexpire
SetWindow(g) ==
    /\ guest[g] # None /\ guest[g].step = "expire" /\ online
    /\ LET c == guest[g].client IN
       /\ tally' = [tally EXCEPT ![c].left = IF @ = 0 THEN 0 ELSE Window]
       /\ IF guest[g].count > MaxRequests THEN Answer("redis", c, guest[g].count)
          ELSE UNCHANGED <<waited, tooLong>>
    /\ guest' = [guest EXCEPT ![g] = None]
    /\ UNCHANGED <<online, broken, requestCounts, cleaned, passed, settingVars, apiKeyVars>>

\* pruneRateLimitMap: expired records, then a tenth of the Map from its front.
Live(rows) == SelectSeq(rows, LAMBDA r : r.left > 0)
Tenth == (MaxEntries + 9) \div 10
Pruned(rows) ==
    IF Len(Live(rows)) < MaxEntries THEN Live(rows)
    ELSE SubSeq(Live(rows), Tenth + 1, Len(Live(rows)))

Kept == IF cleaned = 0 \/ Len(requestCounts) >= MaxEntries THEN Pruned(requestCounts) ELSE requestCounts

Counted(rows, c) ==
    LET at == {i \in DOMAIN rows : rows[i].client = c} IN
    IF at = {} THEN Append(rows, [client |-> c, count |-> 1, left |-> Window])
    ELSE [i \in DOMAIN rows |->
            IF i \notin at THEN rows[i]
            ELSE IF rows[i].left = 0 THEN [client |-> c, count |-> 1, left |-> Window]
            ELSE [rows[i] EXCEPT !.count = Min({@ + 1, MaxRequests + 1})]]

\* A record that is pruned before its time is counted anew.
CountInMemory(c) ==
    LET rows == Counted(Kept, c)
        mine == rows[CHOOSE i \in DOMAIN rows : rows[i].client = c]
        evicted == {row.client : row \in Range(Live(requestCounts)) \ Range(Kept)} IN
    /\ requestCounts' = rows
    /\ cleaned' = IF cleaned = 0 \/ Len(requestCounts) >= MaxEntries THEN Window ELSE cleaned
    /\ Answer("memory", c, mine.count)
    /\ passed' = [passed EXCEPT !["memory"] =
         [d \in Clients |-> LET old == IF d \in evicted THEN NoPasses["memory"][d] ELSE @[d] IN
            IF d = c /\ mine.count <= MaxRequests THEN [old EXCEPT ![1] = @ + 1] ELSE old]]

Local(c) ==
    /\ ~online /\ CountInMemory(c)
    /\ UNCHANGED <<online, broken, tally, guest, settingVars, apiKeyVars>>

\* Redis fails before or after it counted.
HitFails(c) ==
    /\ online /\ broken < MaxBroken /\ broken' = broken + 1
    /\ tally' \in {tally, [tally EXCEPT ![c] = Incremented(c)]}
    /\ CountInMemory(c)
    /\ UNCHANGED <<online, guest, settingVars, apiKeyVars>>

SetWindowFails(g) ==
    /\ guest[g] # None /\ guest[g].step = "expire"
    /\ broken < MaxBroken /\ broken' = broken + 1
    /\ CountInMemory(guest[g].client) /\ guest' = [guest EXCEPT ![g] = None]
    /\ UNCHANGED <<online, tally, settingVars, apiKeyVars>>

\* The process ends: its memory is gone, and so are its requests.
GateCrash ==
    /\ broken < MaxBroken /\ broken' = broken + 1
    /\ requestCounts' = <<>> /\ cleaned' = 0 /\ guest' = [g \in Guests |-> None]
    /\ passed' = [passed EXCEPT !["memory"] = NoPasses["memory"]]
    /\ waited' = [waited EXCEPT !["memory"] = [c \in Clients |-> None]]
    /\ UNCHANGED tooLong
    /\ cached' = [cached EXCEPT !["memory"] = None,
                                !["redis"] = IF @ # None /\ Deleting
                                             THEN [@ EXCEPT !.old = @ \cup {"missed"}] ELSE @]
    /\ UNCHANGED <<online, tally, setting, let, apiKeyVars>>

\* A call of Redis takes less than a tick.
Later(row) == IF row.left = Forever \/ row.left = 0 THEN row
              ELSE [row EXCEPT !.left = @ - 1, !.count = IF row.left = 1 THEN 0 ELSE @]

Tick ==
    /\ ~\E g \in Guests : guest[g] # None /\ guest[g].step = "expire"
    /\ tally' = [c \in Clients |-> Later(tally[c])]
    /\ requestCounts' = [i \in DOMAIN requestCounts |-> [requestCounts[i] EXCEPT !.left = IF @ = 0 THEN 0 ELSE @ - 1]]
    /\ cleaned' = IF cleaned = 0 THEN 0 ELSE cleaned - 1
    /\ passed' = [s \in Stores |-> [c \in Clients |->
                    [t \in 1 .. Window |-> IF t = 1 THEN 0 ELSE passed[s][c][t - 1]]]]
    /\ waited' = [s \in Stores |-> [c \in Clients |->
                    IF waited[s][c] \in {None, Window} THEN waited[s][c] ELSE waited[s][c] + 1]]
    /\ cached' = [s \in Stores |->
         IF cached[s] = None \/ (cached[s] # None /\ cached[s].left = 1) THEN None
         ELSE [cached[s] EXCEPT !.left = @ - 1]]
    /\ UNCHANGED <<online, broken, guest, tooLong, setting, let, apiKeyVars>>

\* The events connect, close and error of the client.
Reconnect ==
    /\ broken < MaxBroken /\ broken' = broken + 1 /\ online' = ~online
    /\ UNCHANGED <<guest, limitVars, settingVars, apiKeyVars>>

LimitStep ==
    \/ \E g \in Guests, c \in Clients : Hit(g, c)
    \/ \E g \in Guests : SetWindow(g) \/ SetWindowFails(g)
    \/ \E c \in Clients : Local(c) \/ HitFails(c)
    \/ GateCrash \/ Tick \/ Reconnect

-----------------------------------------------------------------------------
(***************************************************************************)
(* getRawValue, updateSetting and maintenanceModeMiddleware.  Each call of *)
(* the cache goes to Redis and, when that fails, to memory.                *)
(***************************************************************************)
Visitors == {"bypass", "plain"}

\* The store a call of the cache ends at, and the failures that takes.
At(s) ==
    \/ online /\ s = "redis" /\ UNCHANGED broken
    \/ ~online /\ s = "memory" /\ UNCHANGED broken
    \/ online /\ s = "memory" /\ broken < MaxBroken /\ broken' = broken + 1

\* Paths of the two lists are let in before anything is read, and are left
\* out; rights to bypass the maintenance are asked for after the setting.
Admits(visitor, enabled) == visitor = "bypass" \/ ~enabled

LetIn(visitor, enabled, old) ==
    let' = IF visitor = "bypass" THEN let
           ELSE [isIn |-> Admits(visitor, enabled), row |-> setting,
                 excused |-> Outdated(old) \/ Deleting]

Visit(g, visitor) ==
    /\ guest[g] = None
    /\ \E s \in Stores :
         /\ At(s)
         /\ IF cached[s] = None
            THEN /\ guest' = [guest EXCEPT ![g] = [step |-> "fill", visitor |-> visitor,
                                                  value |-> setting, old |-> {}]]
                 /\ UNCHANGED let
            ELSE LetIn(visitor, cached[s].value, cached[s].old) /\ UNCHANGED guest
    /\ UNCHANGED <<online, limitVars, setting, cached, apiKeyVars>>

\* A value is filled in later than it was read.
Fill(g) ==
    /\ guest[g] # None /\ guest[g].step = "fill"
    /\ \E s \in Stores :
         /\ At(s)
         /\ cached' = [cached EXCEPT ![s] = [value |-> guest[g].value, left |-> Lifetime,
                                            old |-> guest[g].old]]
    /\ LetIn(guest[g].visitor, guest[g].value, guest[g].old)
    /\ guest' = [guest EXCEPT ![g] = None]
    /\ UNCHANGED <<online, limitVars, setting, apiKeyVars>>

\* What holds the value of before the write is old, until it is deleted.
Update(g) ==
    /\ guest[g] = None /\ setting' = ~setting
    /\ guest' = [d \in Guests |->
         IF d = g THEN [step |-> "del"]
         ELSE IF guest[d] # None /\ guest[d].step = "fill"
              THEN [guest[d] EXCEPT !.old = @ \cup {"late"}] ELSE guest[d]]
    /\ cached' = [s \in Stores |-> IF cached[s] = None THEN None
                                    ELSE [cached[s] EXCEPT !.old = @ \cup {"written"}]]
    /\ UNCHANGED <<online, broken, limitVars, let, apiKeyVars>>

\* The entry of the other store stays, if there is one.
Deleted(s) ==
    [t \in Stores |-> IF t = s \/ cached[t] = None THEN None
                      ELSE [cached[t] EXCEPT !.old = @ \cup {"missed"}]]

Del(g) ==
    /\ guest[g] # None /\ guest[g].step = "del"
    /\ \E s \in Stores : At(s) /\ cached' = Deleted(s)
    /\ guest' = [guest EXCEPT ![g] = None]
    /\ UNCHANGED <<online, limitVars, setting, let, apiKeyVars>>

SettingStep ==
    \/ \E g \in Guests : Fill(g) \/ Update(g) \/ Del(g)
    \/ \E g \in Guests, visitor \in Visitors : Visit(g, visitor)
    \/ Tick \/ Reconnect \/ GateCrash

-----------------------------------------------------------------------------
(***************************************************************************)
(* createApiKey counts and then creates; revokeApiKey.                     *)
(***************************************************************************)
ActiveKeys == {k \in ApiKeys : apiKey[k] = "ACTIVE"}

CountApiKeys(g) ==
    /\ guest[g] = None /\ Cardinality(ActiveKeys) < MaxApiKeys
    /\ guest' = [guest EXCEPT ![g] = [step |-> "create"]]
    /\ overlapped' = (overlapped \/ \E d \in Guests : guest[d] # None)
    /\ UNCHANGED <<online, broken, limitVars, settingVars, apiKey>>

CreateApiKey(g) ==
    /\ guest[g] # None /\ guest[g].step = "create"
    /\ \E k \in ApiKeys : apiKey[k] = None /\ apiKey' = [apiKey EXCEPT ![k] = "ACTIVE"]
    /\ guest' = [guest EXCEPT ![g] = None]
    /\ UNCHANGED <<online, broken, limitVars, settingVars, overlapped>>

\* A revoked key is deleted, and is not found again.
RevokeApiKey(k) ==
    /\ apiKey[k] = "ACTIVE" /\ apiKey' = [apiKey EXCEPT ![k] = "REVOKED"]
    /\ UNCHANGED <<online, broken, guest, limitVars, settingVars, overlapped>>

ApiKeyStep ==
    \/ \E g \in Guests : CountApiKeys(g) \/ CreateApiKey(g)
    \/ \E k \in ApiKeys : RevokeApiKey(k)

-----------------------------------------------------------------------------
\* A store lets pass no more than twice the limit in any window, whatever
\* fails; records that the Map had no room for excepted
\* (rateLimitMiddleware).
PassesAreBounded ==
    \A s \in Stores, c \in Clients :
        FoldFunction(LAMBDA n, m : n + m, 0, passed[s][c]) <= 2 * MaxRequests

\* Nobody is locked out: a client that a store refuses is not refused any
\* more a window later, also when a process ended before it had given the
\* key its TTL (rateLimitMiddleware, SEC-W0-01).
RefusedIsFreed == ~tooLong

\* A plain request is let in as the row says, but for the time of a change
\* and for an entry that outlives it (maintenanceModeMiddleware).
MaintenanceIsKept == let # None => (let.isIn = ~let.row) \/ let.excused

\* An entry that differs from the row is about to be deleted, was filled in
\* by a request that had read before the change, or was missed by the
\* deletion, which failed or went to the other store (updateSetting).
SettingTakesEffect ==
    \A s \in Stores : (cached[s] # None /\ cached[s].value # setting) =>
        Outdated(cached[s].old) \/ Deleting

\* More keys than the limit come from creations that overlapped
\* (createApiKey).
ApiKeysWithinLimit == overlapped \/ Cardinality(ActiveKeys) <= MaxApiKeys
=============================================================================
