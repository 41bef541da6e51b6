---------------------------- MODULE AccessRights ----------------------------
(***************************************************************************)
(* Roles and their permissions, the users that hold them, and the two      *)
(* caches every request asks: a user's permissions and whether the user is *)
(* active.  An administrator's request checks, writes and clears caches in *)
(* separate statements; a reader that misses a cache reads the rows and    *)
(* fills it later.                                                         *)
(***************************************************************************)
EXTENDS Accounts

CONSTANTS
    Administrators,     \* requests of administrators that may run at one time
    Readers,            \* requests that read a cache
    ManageRights, UpdateUsers, UpdateRoles, Other   \* permissions

VARIABLES
    grant,              \* the permissions of a role, None for no role
    cachedRights, cachedStatus,     \* by user: [value, late], or None
    admin,              \* what an administrator's request does next
    reader,             \* what a reader is about to put into a cache
    excused             \* how the last administrator may have been lost

rightsVars == <<grant, cachedRights, cachedStatus, admin, reader, excused>>

Permissions == {ManageRights, UpdateUsers, UpdateRoles, Other}
AdminPermissions == {ManageRights, UpdateUsers}
CriticalPermissions == {ManageRights, UpdateRoles, UpdateUsers}

Cached(Values) == [value: Values, late: BOOLEAN] \cup {None}

TypeOKRights ==
    /\ grant \in [Roles -> SUBSET Permissions \cup {None}]
    /\ \A u \in Users :
         /\ cachedRights[u] \in Cached(SUBSET Permissions)
         /\ cachedStatus[u] \in Cached(BOOLEAN)
         /\ account[u] # None => grant[account[u].role] # None
    /\ excused \subseteq {"overlap", "edit"}

InitRights(initial) ==
    /\ grant = initial /\ excused = {}
    /\ cachedRights = [u \in Users |-> None] /\ cachedStatus = [u \in Users |-> None]
    /\ admin = [a \in Administrators |-> None] /\ reader = [r \in Readers |-> None]

RightsOf(u) == grant[account[u].role]
IsAdminRole(role) == grant[role] \cap AdminPermissions # {}
ActiveAdmins == {u \in Users : Live(u) /\ IsAdminRole(account[u].role)}

\* Not the code: the one who leaves is counted as staying.
MayLoseOne(u) == IsAdminRole(account[u].role) => Cardinality(ActiveAdmins) > 0

\* The check before the last administrator loses the role or the account:
\* it is made for any administrator who is not deleted.
MayLose(u) == IsAdminRole(account[u].role) => Cardinality(ActiveAdmins) > 1

MayTake(u, role) == IsAdminRole(role) \/ MayLose(u)

\* findRolesWithPermissions counts the users of a role, deleted and inactive
\* ones with them.
OtherHolders(role, permissions) ==
    {o \in Roles \ {role} :
        /\ grant[o] # None /\ grant[o] \cap permissions # {}
        /\ \E u \in Users : account[u] # None /\ account[u].role = o}

MayAssign(role, permissions) ==
    \/ grant[role] \cap CriticalPermissions = {}
    \/ permissions \cap CriticalPermissions # {}
    \/ OtherHolders(role, CriticalPermissions) # {}

MayRemove(role, p) == p \in CriticalPermissions => OtherHolders(role, {p}) # {}

-----------------------------------------------------------------------------
Request(step, u, role, permissions) ==
    [step |-> step, user |-> u, role |-> role, permissions |-> permissions]

Order(a, request) == admin[a] = None /\ admin' = [admin EXCEPT ![a] = request]

Ordered(a, step) == admin[a] # None /\ admin[a].step = step

Done(a) == admin' = [admin EXCEPT ![a] = None]

keepCaches == UNCHANGED <<cachedRights, cachedStatus, reader>>

\* updateUserRole
ChangeRole(a, u, role) ==
    /\ Found(u) /\ grant[role] # None /\ account[u].role # role /\ MayTake(u, role)
    /\ Order(a, Request("role", u, role, {}))
    /\ keepCaches /\ UNCHANGED <<account, grant, excused>>

\* UserService.update (to inactive) and softDelete
Withdraw(a, u, step) ==
    /\ Found(u) /\ MayLose(u)
    /\ step = "deactivate" => account[u].isActive
    /\ Order(a, Request(step, u, None, {}))
    /\ keepCaches /\ UNCHANGED <<account, grant, excused>>

\* UserService.create: the address must be new, the role must exist.
CreateUser(u, role) ==
    /\ account[u] = None /\ grant[role] # None
    /\ account' = [account EXCEPT ![u] = Member(role, TRUE, FALSE)]
    /\ keepCaches /\ UNCHANGED <<grant, admin, excused>>

\* UserService.update (to active) and restore
Admit(a, u) ==
    /\ account[u] # None /\ ~Live(u)
    /\ Order(a, Request("admit", u, None, {}))
    /\ keepCaches /\ UNCHANGED <<account, grant, excused>>

Written(row, request) ==
    CASE request.step = "role" -> [row EXCEPT !.role = request.role]
      [] request.step = "deactivate" -> [row EXCEPT !.isActive = FALSE]
      [] request.step = "delete" -> Deleted(row)
      [] request.step = "admit" -> [row EXCEPT !.isActive = TRUE, !.isDeleted = FALSE]

\* The write does not check again; a role that is gone fails the reference.
WriteUser(a) ==
    LET request == admin[a] IN
    /\ \E step \in {"role", "deactivate", "delete", "admit"} : Ordered(a, step)
    /\ keepCaches /\ UNCHANGED grant
    /\ IF request.step = "role" /\ grant[request.role] = None
         THEN Done(a) /\ UNCHANGED <<account, excused>>
         ELSE /\ account' = [account EXCEPT ![request.user] = Written(@, request)]
              /\ admin' = [admin EXCEPT ![a] = Request("forget user", request.user, None, {})]
              /\ excused' = IF ActiveAdmins # {} /\ ActiveAdmins' = {}
                               /\ ~(IF request.step = "role" THEN MayTake(request.user, request.role)
                                    ELSE MayLose(request.user))
                              THEN excused \cup {"overlap"} ELSE excused

\* invalidateUserCache deletes two keys, one after the other.
ForgetRights(a) ==
    /\ Ordered(a, "forget user") /\ admin' = [admin EXCEPT ![a].step = "forget status"]
    /\ cachedRights' = [cachedRights EXCEPT ![admin[a].user] = None]
    /\ UNCHANGED <<account, grant, cachedStatus, reader, excused>>

ForgetStatus(a) ==
    /\ Ordered(a, "forget status") /\ Done(a)
    /\ cachedStatus' = [cachedStatus EXCEPT ![admin[a].user] = None]
    /\ UNCHANGED <<account, grant, cachedRights, reader, excused>>

-----------------------------------------------------------------------------
\* Roles.

CreateRole(role, permissions) ==
    /\ grant[role] = None /\ grant' = [grant EXCEPT ![role] = permissions]
    /\ keepCaches /\ UNCHANGED <<account, admin, excused>>

\* Not the code: only active users are looked at.
DeleteUnusedRole(role) ==
    /\ grant[role] # None
    /\ \A u \in Users : Live(u) => account[u].role # role
    /\ grant' = [grant EXCEPT ![role] = None]
    /\ keepCaches /\ UNCHANGED <<account, admin, excused>>

\* deleteRole: no active user may hold the role, and the foreign key
\* protects the rows of the others.
DeleteRole(role) ==
    /\ grant[role] # None
    /\ \A u \in Users : account[u] # None => account[u].role # role
    /\ grant' = [grant EXCEPT ![role] = None]
    /\ keepCaches /\ UNCHANGED <<account, admin, excused>>

\* assignRolePermissions and removeRolePermission
AssignPermissions(a, role, permissions) ==
    /\ grant[role] # None /\ permissions # grant[role] /\ MayAssign(role, permissions)
    /\ Order(a, Request("grant", None, role, permissions))
    /\ keepCaches /\ UNCHANGED <<account, grant, excused>>

RemovePermission(a, role, p) ==
    /\ grant[role] # None /\ p \in grant[role] /\ MayRemove(role, p)
    /\ Order(a, Request("remove", None, role, {p}))
    /\ keepCaches /\ UNCHANGED <<account, grant, excused>>

Granted(request) ==
    IF request.step = "grant" THEN request.permissions
    ELSE grant[request.role] \ request.permissions

WriteRole(a) ==
    LET request == admin[a] IN
    /\ Ordered(a, "grant") \/ Ordered(a, "remove")
    /\ keepCaches /\ UNCHANGED account
    /\ IF grant[request.role] = None THEN Done(a) /\ UNCHANGED <<grant, excused>>
       ELSE /\ grant' = [grant EXCEPT ![request.role] = Granted(request)]
            /\ admin' = [admin EXCEPT ![a] = Request("forget all", None, None, {})]
            /\ excused' = IF ActiveAdmins # {} /\ ActiveAdmins' = {}
                            THEN excused \cup {"edit"} ELSE excused

\* invalidateRoleCache: the permissions of every user.
ForgetAll(a) ==
    /\ Ordered(a, "forget all") /\ Done(a)
    /\ cachedRights' = [u \in Users |-> None]
    /\ UNCHANGED <<account, grant, cachedStatus, reader, excused>>

-----------------------------------------------------------------------------
\* Readers and the time to live of what they cache.

\* getUserPermissions caches nothing for a user who is not active.
ReadRights(r, u) ==
    /\ reader[r] = None /\ cachedRights[u] = None /\ Live(u)
    /\ reader' = [reader EXCEPT ![r] = [user |-> u, rights |-> RightsOf(u)]]
    /\ UNCHANGED <<account, grant, cachedRights, cachedStatus, admin, excused>>

\* authMiddleware
ReadStatus(r, u) ==
    /\ reader[r] = None /\ account[u] # None /\ cachedStatus[u] = None
    /\ reader' = [reader EXCEPT ![r] = [user |-> u, status |-> Live(u)]]
    /\ UNCHANGED <<account, grant, cachedRights, cachedStatus, admin, excused>>

FillCache(r) ==
    /\ reader[r] # None /\ reader' = [reader EXCEPT ![r] = None]
    /\ LET u == reader[r].user IN
       IF "status" \in DOMAIN reader[r]
         THEN /\ cachedStatus' = [cachedStatus EXCEPT ![u] =
                   [value |-> reader[r].status, late |-> reader[r].status # Live(u)]]
              /\ UNCHANGED cachedRights
         ELSE /\ cachedRights' = [cachedRights EXCEPT ![u] =
                   [value |-> reader[r].rights,
                    late |-> ~Live(u) \/ reader[r].rights # RightsOf(u)]]
              /\ UNCHANGED cachedStatus
    /\ UNCHANGED <<account, grant, admin, excused>>

CacheExpires(u) ==
    /\ \/ cachedRights' = [cachedRights EXCEPT ![u] = None] /\ UNCHANGED cachedStatus
       \/ cachedStatus' = [cachedStatus EXCEPT ![u] = None] /\ UNCHANGED cachedRights
    /\ UNCHANGED <<account, grant, admin, reader, excused>>

RightsStep ==
    \/ \E a \in Administrators, u \in Users :
         \/ \E role \in Roles : ChangeRole(a, u, role)
         \/ \E step \in {"deactivate", "delete"} : Withdraw(a, u, step)
         \/ Admit(a, u)
    \/ \E a \in Administrators :
         WriteUser(a) \/ ForgetRights(a) \/ ForgetStatus(a) \/ WriteRole(a) \/ ForgetAll(a)
    \/ \E role \in Roles, permissions \in SUBSET Permissions :
         CreateRole(role, permissions)
         \/ \E a \in Administrators : AssignPermissions(a, role, permissions)
    \/ \E role \in Roles : DeleteRole(role) \/ \E u \in Users : CreateUser(u, role)
    \/ \E a \in Administrators, role \in Roles, p \in Permissions : RemovePermission(a, role, p)

CacheStep ==
    \/ \E r \in Readers, u \in Users : ReadRights(r, u) \/ ReadStatus(r, u)
    \/ \E r \in Readers : FillCache(r)
    \/ \E u \in Users : CacheExpires(u)

-----------------------------------------------------------------------------
\* Somebody can administer the system: changes of role, deactivations and
\* deletions check that the last administrator stays (LAST_ADMIN_PROTECTED),
\* so none is left only after two of them overlapped, or after an edit of
\* permissions, whose check is about holders of any critical permission.
AdminRemains == excused # {} \/ ActiveAdmins # {}

\* The caches tell no more rights than the rows: what they tell otherwise
\* is about to be cleared, or was read before the change and put into the
\* cache after it (invalidateUserCache, invalidateRoleCache).
CachesFollowRows ==
    \A u \in Users :
        /\ \/ cachedRights[u] = None
           \/ cachedRights[u].late
           \/ Live(u) /\ cachedRights[u].value = RightsOf(u)
           \/ \E a \in Administrators :
                \/ Ordered(a, "forget all")
                \/ Ordered(a, "forget user") /\ admin[a].user = u
        /\ \/ cachedStatus[u] = None
           \/ cachedStatus[u].late
           \/ cachedStatus[u].value = Live(u)
           \/ \E a \in Administrators :
                (Ordered(a, "forget user") \/ Ordered(a, "forget status")) /\ admin[a].user = u
=============================================================================
