------------------------------ MODULE Sessions ------------------------------
(***************************************************************************)
(* Signing in: passwords, refresh tokens (sessions), the mailed tokens of  *)
(* verification and reset, and linked Zalo accounts.  A request runs one   *)
(* database statement per step, or a few that one transaction holds, so    *)
(* two requests on one account interleave; a request may be lost with its  *)
(* process at any step.                                                    *)
(*                                                                         *)
(* A session remembers the password its user signed in with (since) and    *)
(* whether that was no longer the password when it was written (late).     *)
(***************************************************************************)
EXTENDS Accounts, SequencesExt

CONSTANTS
    Requests,       \* requests that may run at one time
    Tokens,         \* mailed tokens
    ZaloIds,        \* accounts of the Zalo provider
    SessionLimit,   \* 10 in the code
    MaxSessions,    \* bound: sessions ever written
    MaxPasswords    \* bound: passwords of one user

VARIABLES
    session,        \* refresh_tokens, oldest first
    written,        \* sessions ever written
    mailed,         \* verification and reset tokens
    social,         \* the user a Zalo account is linked to
    request,        \* what a request does next
    unswept         \* users whose request was lost before it swept

signVars == <<session, written, mailed, social, request, unswept>>

SessionRows ==
    [id: Nat, user: Users, since: Nat, late: BOOLEAN, isExpired: BOOLEAN]

MailedRows == [user: Users, kind: {"verify", "reset"}, isExpired: BOOLEAN]

Steps == {"save", "rotate", "cleanup", "limit", "write", "spend", "sweep", "mail",
          "activate", "forget", "link", "join", "enter"}

TypeOKSessions ==
    /\ \A i \in DOMAIN session : session[i] \in SessionRows
    /\ IsInjective([i \in DOMAIN session |-> session[i].id])
    /\ mailed \in [Tokens -> MailedRows \cup {None}]
    /\ social \in [ZaloIds -> Users \cup {None}]
    /\ \A r \in Requests : request[r] # None => request[r].step \in Steps

InitSessions ==
    /\ session = <<>> /\ written = 0 /\ unswept = {}
    /\ mailed = [t \in Tokens |-> None]
    /\ social = [z \in ZaloIds |-> None]
    /\ request = [r \in Requests |-> None]

\* What a request does next for user u; about is the session, the token or
\* the Zalo account it is about, and login says that it signs the user in.
Doing(step, u, about, login) ==
    [step |-> step, user |-> u, since |-> 0, about |-> about, login |-> login]

\* ...having read the user's password.
Signing(u, about) == [Doing("save", u, about, TRUE) EXCEPT !.since = account[u].password]

Ask(r, doing) == request[r] = None /\ request' = [request EXCEPT ![r] = doing]

At(r, step) == request[r] # None /\ request[r].step = step

Then(r, step) == request' = [request EXCEPT ![r].step = step]

End(r) == request' = [request EXCEPT ![r] = None]

Without(P(_)) == session' = SelectSeq(session, LAMBDA s : ~P(s))

OfUser(u) == SelectSeq(session, LAMBDA s : s.user = u)

Session(u, since) ==
    [id |-> written + 1, user |-> u, since |-> since, isExpired |-> FALSE,
     late |-> since # account[u].password]

keepRows == UNCHANGED <<mailed, social, unswept, account>>

keepSessions == UNCHANGED <<session, written>>

-----------------------------------------------------------------------------
\* Sessions.

\* login: an active user with the right password.
Login(r, u) ==
    /\ Live(u) /\ account[u].password > 0
    /\ account[u].hasEmail \/ account[u].hasPhone
    /\ Ask(r, Signing(u, None))
    /\ keepSessions /\ keepRows

\* saveRefreshToken: a login with a password leaves the number of sessions
\* alone, one with Zalo goes on to limit it.
SaveSession(r) ==
    /\ At(r, "save") /\ written < MaxSessions
    /\ session' = Append(session, Session(request[r].user, request[r].since))
    /\ written' = written + 1
    /\ IF request[r].about = None THEN End(r) ELSE Then(r, "cleanup")
    /\ keepRows

\* refresh and switchAccount: a token of an expired session removes it.
Refresh(r, s) ==
    /\ request[r] = None /\ keepRows /\ UNCHANGED written
    /\ IF s.isExpired
         THEN Without(LAMBDA x : x.id = s.id) /\ UNCHANGED request
         ELSE /\ Live(s.user) /\ UNCHANGED session
              /\ Ask(r, [Doing("rotate", s.user, s.id, FALSE) EXCEPT !.since = s.since])

\* rotateRefreshToken: how many rows the deletion found is not looked at.
Rotate(r) ==
    /\ At(r, "rotate") /\ written < MaxSessions
    /\ session' = Append(SelectSeq(session, LAMBDA s : s.id # request[r].about),
                         Session(request[r].user, request[r].since))
    /\ written' = written + 1 /\ Then(r, "cleanup") /\ keepRows

CleanUp(r) ==
    /\ At(r, "cleanup") /\ Then(r, "limit")
    /\ Without(LAMBDA s : s.user = request[r].user /\ s.isExpired)
    /\ UNCHANGED written /\ keepRows

\* enforceSessionLimit: only the newest sessions of the user stay.
EnforceLimit(r) ==
    LET own == OfUser(request[r].user)
        kept == {own[i] : i \in {j \in DOMAIN own : j > Len(own) - SessionLimit}} IN
    /\ At(r, "limit") /\ End(r)
    /\ Without(LAMBDA s : s.user = request[r].user /\ ~s.isExpired /\ s \notin kept)
    /\ UNCHANGED written /\ keepRows

\* logout and revokeSession
EndSession(s) ==
    /\ Without(LAMBDA x : x.id = s.id) /\ UNCHANGED <<written, request>> /\ keepRows

RevokeOthers(s) ==
    /\ Without(LAMBDA x : x.user = s.user /\ x.id # s.id)
    /\ UNCHANGED <<written, request>> /\ keepRows

\* getActiveSessions removes what has expired.
ListSessions(u) ==
    /\ Without(LAMBDA s : s.user = u /\ s.isExpired)
    /\ UNCHANGED <<written, request>> /\ keepRows

\* Time passes for a session or a mailed token.
ExpireSession(i) ==
    /\ session' = [session EXCEPT ![i].isExpired = TRUE]
    /\ UNCHANGED <<written, request>> /\ keepRows

ExpireToken(t) ==
    /\ mailed[t] # None /\ mailed' = [mailed EXCEPT ![t].isExpired = TRUE]
    /\ UNCHANGED <<session, written, social, request, unswept, account>>

-----------------------------------------------------------------------------
\* Passwords and mailed tokens.

\* updatePassword asks for the old password if there is one.
ChangePassword(r, u) ==
    /\ Found(u) /\ Ask(r, Doing("write", u, None, FALSE))
    /\ keepSessions /\ keepRows

ForgetToken(t) == mailed' = [mailed EXCEPT ![t] = None]

\* resetPassword and verifyEmail remove an expired token.
UseToken(r, t) ==
    /\ mailed[t] # None /\ request[r] = None /\ keepSessions
    /\ UNCHANGED <<social, unswept, account>>
    /\ IF mailed[t].isExpired
         THEN ForgetToken(t) /\ UNCHANGED request
         ELSE /\ Ask(r, Doing(IF mailed[t].kind = "reset" THEN "write" ELSE "activate",
                              mailed[t].user, t, FALSE))
              /\ UNCHANGED mailed

WritePassword(r) ==
    /\ At(r, "write") /\ account[request[r].user].password < MaxPasswords
    /\ account' = [account EXCEPT ![request[r].user].password = @ + 1]
    /\ Then(r, IF request[r].about = None THEN "sweep" ELSE "spend")
    /\ keepSessions /\ UNCHANGED <<mailed, social, unswept>>

\* deletePasswordResetToken throws for a token that another request spent,
\* and the sessions of the user stay.
Spend(r) ==
    /\ At(r, "spend") /\ keepSessions /\ UNCHANGED <<social, account>>
    /\ ForgetToken(request[r].about)
    /\ IF mailed[request[r].about] = None
         THEN End(r) /\ unswept' = unswept \cup {request[r].user}
         ELSE Then(r, "sweep") /\ UNCHANGED unswept

\* deleteAllSessions
Sweep(r) ==
    /\ At(r, "sweep") /\ End(r)
    /\ Without(LAMBDA s : s.user = request[r].user)
    /\ UNCHANGED written /\ keepRows

\* forgotPassword for any user that is found, resendVerification for one
\* that is not active.
Mail(u, t, kind) ==
    /\ Found(u) /\ account[u].hasEmail /\ mailed[t] = None
    /\ kind = "verify" => ~account[u].isActive
    /\ mailed' = [mailed EXCEPT ![t] = [user |-> u, kind |-> kind, isExpired |-> FALSE]]
    /\ UNCHANGED <<session, written, social, request, unswept, account>>

\* register: the user is created inactive, then the token is written.
Register(r, u) ==
    /\ account[u] = None
    /\ \E role \in Roles :
         account' = [account EXCEPT ![u] = [Member(role, TRUE, FALSE) EXCEPT !.isActive = FALSE]]
    /\ Ask(r, Doing("mail", u, None, FALSE))
    /\ keepSessions /\ UNCHANGED <<mailed, social, unswept>>

MailVerification(r, t) ==
    /\ At(r, "mail") /\ mailed[t] = None /\ End(r)
    /\ mailed' = [mailed EXCEPT ![t] =
                    [user |-> request[r].user, kind |-> "verify", isExpired |-> FALSE]]
    /\ UNCHANGED <<session, written, social, unswept, account>>

\* verifyEmail activates the user whatever happened to the row meanwhile;
\* the token goes in a statement of its own.
Activate(r) ==
    /\ At(r, "activate") /\ Then(r, "forget")
    /\ account' = [account EXCEPT ![request[r].user].isActive = TRUE]
    /\ keepSessions /\ UNCHANGED <<mailed, social, unswept>>

ForgetVerification(r) ==
    /\ At(r, "forget") /\ End(r) /\ ForgetToken(request[r].about)
    /\ keepSessions /\ UNCHANGED <<social, unswept, account>>

\* softDelete: the row and the sessions in one transaction.
SoftDelete(u) ==
    /\ Found(u) /\ account' = [account EXCEPT ![u] = Deleted(@)]
    /\ Without(LAMBDA s : s.user = u)
    /\ UNCHANGED <<written, mailed, social, request, unswept>>

-----------------------------------------------------------------------------
\* Zalo accounts.

Links(u) == {z \in ZaloIds : social[z] = u}

\* loginWithZalo by the linked user, else by the user of a phone number that
\* Zalo has verified (p, or None), else as a new user.
LoginWithZalo(r, z, p) ==
    /\ p # None => Found(p) /\ account[p].hasPhone
    /\ Ask(r, IF social[z] # None THEN Doing("enter", social[z], z, TRUE)
              ELSE IF p # None THEN Doing("link", p, z, TRUE)
              ELSE Doing("join", None, z, TRUE))
    /\ keepSessions /\ keepRows

\* linkZaloAccount
LinkZalo(r, u, z) ==
    /\ Live(u) /\ Links(u) = {} /\ social[z] \in {None, u}
    /\ Ask(r, Doing("link", u, z, FALSE))
    /\ keepSessions /\ keepRows

\* linkSocialAccount: a Zalo account has one row at most, so a second link
\* of it fails.
Link(r) ==
    /\ At(r, "link") /\ keepSessions /\ UNCHANGED <<mailed, unswept, account>>
    /\ IF social[request[r].about] = None
         THEN /\ social' = [social EXCEPT ![request[r].about] = request[r].user]
              /\ IF request[r].login THEN Then(r, "enter") ELSE End(r)
         ELSE UNCHANGED social /\ End(r)

\* createSocialUser
Join(r, u) ==
    /\ At(r, "join") /\ account[u] = None /\ keepSessions /\ UNCHANGED <<mailed, unswept>>
    /\ IF social[request[r].about] = None
         THEN /\ \E role \in Roles, phone \in BOOLEAN :
                    account' = [account EXCEPT ![u] = Member(role, FALSE, phone)]
              /\ social' = [social EXCEPT ![request[r].about] = u]
              /\ request' = [request EXCEPT ![r].step = "enter", ![r].user = u]
         ELSE UNCHANGED <<account, social>> /\ End(r)

\* The user is read again before the session is written.
Enter(r) ==
    /\ At(r, "enter") /\ keepSessions /\ keepRows
    /\ request' = [request EXCEPT ![r] =
         IF Live(@.user) THEN Signing(@.user, @.about) ELSE None]

\* unlinkZaloAccount needs an e-mail address or a password.
CanUnlink(u) == account[u].hasEmail \/ account[u].password > 0

UnlinkZalo(u) ==
    /\ Live(u) /\ Links(u) # {} /\ CanUnlink(u)
    /\ social' = [z \in ZaloIds |-> IF social[z] = u THEN None ELSE social[z]]
    /\ UNCHANGED <<session, written, mailed, request, unswept, account>>

\* updateProfile may set or clear the phone number.
SetPhone(u) ==
    /\ Found(u) /\ account' = [account EXCEPT ![u].hasPhone = ~@]
    /\ UNCHANGED signVars

-----------------------------------------------------------------------------
\* A request ends with its process; what it had left to do is not done.
LoseRequest(r) ==
    /\ request[r] # None /\ End(r)
    /\ unswept' = IF request[r].step \in {"spend", "sweep"}
                    THEN unswept \cup {request[r].user} ELSE unswept
    /\ keepSessions /\ UNCHANGED <<mailed, social, account>>

SaveStep == \E r \in Requests : SaveSession(r) \/ CleanUp(r) \/ EnforceLimit(r)

SessionStep ==
    \/ \E r \in Requests : Rotate(r) \/ \E u \in Users : Login(r, u)
    \/ \E i \in DOMAIN session :
         \/ ExpireSession(i) \/ EndSession(session[i]) \/ RevokeOthers(session[i])
         \/ \E r \in Requests : Refresh(r, session[i])
    \/ \E u \in Users : ListSessions(u)

PasswordStep ==
    \/ \E r \in Requests : WritePassword(r) \/ Spend(r) \/ Sweep(r) \/ LoseRequest(r)
    \/ \E r \in Requests, u \in Users : ChangePassword(r, u)
    \/ \E r \in Requests, t \in Tokens : UseToken(r, t)
    \/ \E u \in Users, t \in Tokens : Mail(u, t, "reset")
    \/ \E t \in Tokens : ExpireToken(t)
    \/ \E u \in Users : SoftDelete(u)

SignUpStep ==
    \/ \E r \in Requests, u \in Users : Register(r, u) \/ Join(r, u)
    \/ \E r \in Requests, t \in Tokens : MailVerification(r, t)
    \/ \E u \in Users, t \in Tokens : Mail(u, t, "verify")
    \/ \E r \in Requests : Activate(r) \/ ForgetVerification(r) \/ Link(r) \/ Enter(r)
    \/ \E r \in Requests, z \in ZaloIds :
         LoginWithZalo(r, z, None) \/ \E u \in Users : LoginWithZalo(r, z, u) \/ LinkZalo(r, u, z)
    \/ \E u \in Users : UnlinkZalo(u) \/ SetPhone(u)

-----------------------------------------------------------------------------
\* A password change ends the sessions that older passwords opened
\* (updatePassword and resetPassword call deleteAllSessions): such a session
\* is left only while the change has still to sweep or was lost before it,
\* or was written by a request that read the user before the change.
PasswordEndsSessions ==
    \A i \in DOMAIN session :
        LET s == session[i] IN
        \/ s.since = account[s.user].password
        \/ s.late
        \/ s.user \in unswept
        \/ \E r \in Requests :
             (At(r, "spend") \/ At(r, "sweep")) /\ request[r].user = s.user

\* An active user can prove who they are: by an e-mail address, a password
\* or a linked Zalo account, however links, logins and passwords interleave
\* (unlinkZaloAccount).
ProofOfIdentity ==
    \A u \in Users :
        Live(u) => account[u].hasEmail \/ account[u].password > 0 \/ Links(u) # {}
=============================================================================
