----------------------------- MODULE MCAccounts -----------------------------
(***************************************************************************)
(* Accounts: signing in, signing up, rights and hand-overs.  The parts     *)
(* share the rows of users; a behaviour follows one of them.               *)
(***************************************************************************)
EXTENDS Sessions, AccessRights, Handover, TLC

CONSTANTS Scenes, Admin, Plain, w1, w2, w3, c1, c2, c3, t1, t2

CONSTANTS Clients, Guests, MaxRequests, Window, MaxEntries, Lifetime, ApiKeys, MaxApiKeys,
          MaxBroken

VARIABLES scene, online, broken, tally, requestCounts, cleaned, guest, passed, waited, tooLong,
          setting, cached, let, apiKey, overlapped

G == INSTANCE Gates

gateVars == <<online, broken, tally, requestCounts, cleaned, guest, passed, waited, tooLong,
              setting, cached, let, apiKey, overlapped>>
vars == <<account, signVars, rightsVars, handoverVars, gateVars, scene>>

First == CHOOSE u \in Users : TRUE
Second == CHOOSE u \in Users \ {First} : TRUE
Third == CHOOSE u \in Users \ {First, Second} : TRUE

Grants == (Admin :> {ManageRights, UpdateUsers, Other}) @@ [r \in Roles |-> {}]

\* The source has a wallet and a category that the target has too, and a
\* wallet whose name a hand-over may have given.
Row(o, n, d) == [owner |-> o, name |-> n, isDefault |-> d]

Starting(here, u) ==
    CASE here = "sessions" /\ u = First -> Member(Plain, TRUE, FALSE)
      [] here = "sign up" /\ u = First -> Member(Plain, TRUE, TRUE)
      [] here = "roles" /\ u # Third -> Member(Admin, TRUE, FALSE)
      [] here = "caches" /\ u = First -> Member(Admin, TRUE, FALSE)
      [] here = "handover" /\ u # Third -> Member(Plain, TRUE, FALSE)
      [] here = "handover" /\ u = Third -> [Member(Plain, FALSE, TRUE) EXCEPT !.password = 1]
      [] OTHER -> None

Init ==
    /\ scene \in Scenes
    /\ account = [u \in Users |-> Starting(scene, u)]
    /\ G!InitGates /\ (online \/ scene \in {"limits", "settings"})
    /\ InitSessions /\ InitRights(Grants)
    /\ InitHandover((w1 :> Row(First, <<1>>, TRUE)) @@ (w2 :> Row(First, <<1, 0>>, FALSE))
                        @@ (w3 :> Row(Second, <<1>>, TRUE)),
                    (c1 :> [owner |-> First, name |-> 1]) @@ (c2 :> [owner |-> First, name |-> 2])
                        @@ (c3 :> [owner |-> Second, name |-> 1]),
                    (t1 :> [owner |-> First, category |-> c1])
                        @@ (t2 :> [owner |-> First, category |-> c2]))

SigningIn ==
    /\ scene = "sessions" /\ (SaveStep \/ SessionStep \/ PasswordStep)
    /\ UNCHANGED rightsVars /\ UNCHANGED handoverVars /\ UNCHANGED <<gateVars, scene>>

SigningUp ==
    /\ scene = "sign up"
    /\ \/ (SaveStep \/ SignUpStep) /\ written' <= 2
       \/ \E r \in Requests : WritePassword(r) \/ Sweep(r)
       \/ \E r \in Requests, u \in Users :
            account[u] # None /\ account[u].password = 0 /\ ChangePassword(r, u)
    /\ account'[Third] = None
    /\ UNCHANGED rightsVars /\ UNCHANGED handoverVars /\ UNCHANGED <<gateVars, scene>>

Administering ==
    /\ scene = "roles" /\ excused = {} /\ RightsStep /\ account'[Third] = None
    /\ UNCHANGED signVars /\ UNCHANGED handoverVars /\ UNCHANGED <<gateVars, scene>>

\* One administrator against requests that fill the caches of one user.
Caching ==
    /\ scene = "caches" /\ excused = {}
    /\ \/ RightsStep /\ Cardinality({a \in Administrators : admin'[a] # None}) <= 1
       \/ CacheStep /\ \A r \in Readers : reader'[r] # None => reader'[r].user = First
    /\ account'[Third] = None
    /\ UNCHANGED signVars /\ UNCHANGED handoverVars /\ UNCHANGED <<gateVars, scene>>

\* Requests that overlap are about one session.
HandingOver ==
    /\ scene = "handover" /\ HandoverStep
    /\ \A c, d \in Callers :
         caller'[c] # None /\ caller'[d] # None => caller'[c].token = caller'[d].token
    /\ UNCHANGED signVars /\ UNCHANGED rightsVars /\ UNCHANGED <<gateVars, scene>>

Entering ==
    /\ \/ scene = "limits" /\ G!LimitStep
       \/ scene = "settings" /\ G!SettingStep
       \/ scene = "keys" /\ G!ApiKeyStep
    /\ UNCHANGED <<account, scene>>
    /\ UNCHANGED signVars /\ UNCHANGED rightsVars /\ UNCHANGED handoverVars

Next == SigningIn \/ SigningUp \/ Administering \/ Caching \/ HandingOver \/ Entering

Spec == Init /\ [][Next]_vars

\* Every variable of every scene has its type; rows refer to rows that exist.
TypeOK == TypeOKAccounts /\ TypeOKSessions /\ TypeOKRights /\ TypeOKHandover /\ G!TypeOKGates

\* Passwords, sessions and linked accounts agree, and rights survive the
\* changes of administrators: see PasswordEndsSessions, ProofOfIdentity,
\* AdminRemains and CachesFollowRows.
AccessFollowsRows ==
    /\ PasswordEndsSessions /\ ProofOfIdentity
    /\ scene \in {"roles", "caches"} => AdminRemains /\ CachesFollowRows

\* A hand-over is told as it went, and is whole: see HandoverIsTold and
\* EstateIsWhole.
HandoverIsSound == HandoverIsTold /\ EstateIsWhole

\* Limits hold and no one is locked out, the maintenance mode is what was
\* set: see PassesAreBounded, RefusedIsFreed, MaintenanceIsKept,
\* SettingTakesEffect and ApiKeysWithinLimit.
GatesHold ==
    /\ G!PassesAreBounded /\ G!RefusedIsFreed
    /\ G!MaintenanceIsKept /\ G!SettingTakesEffect /\ G!ApiKeysWithinLimit

Symmetry == Permutations(Requests) \cup Permutations(Administrators)
              \cup Permutations(Readers) \cup Permutations(Callers)
              \cup Permutations(Handovers)
=============================================================================
