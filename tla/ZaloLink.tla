------------------------------ MODULE ZaloLink -------------------------------
(***************************************************************************)
(* Linking a Zalo chat with a user by a code that the app shows and the    *)
(* user enters in the chat, with or without its dash                       *)
(* (ZaloBotLinkService, and what it writes to NotificationSetting).        *)
(***************************************************************************)
EXTENDS Naturals, FiniteSets

CONSTANTS
    Owners, Chats,
    Codes,              \* numbers, in the order they are drawn
    Linkers,            \* numbers of requests at one time
    MaxWrong,           \* wrong codes before a chat has to wait
    MaxEntered,         \* bound on codes that are entered
    MaxOutside,         \* bound on restarts, expiries and settings typed in
    None

VARIABLES
    setting,            \* NotificationSetting: zaloBotChatId and channels
    holder,             \* zalo:link:code, by code and form: the user
    wrong,              \* zalo:link:attempts
    linker,             \* what a request does next
    links,              \* links by a code that is not loose
    guesses,            \* wrong codes since a chat last had to wait or succeeded, in
                        \* chats that are not rushed
    loose,              \* codes that were used by two requests at a time, entered
                        \* without their dash, or left by a restart
    rushed,             \* chats in which two codes were entered at a time
    shared,             \* chats two requests linked at a time, or a user has typed in
    entered,            \* codes that were entered so far
    outside

linkVars == <<setting, holder, wrong, linker, links, guesses, loose, rushed, shared, entered, outside>>

Channels == {"IN_APP", "ZALO"}
Forms == {"dashed", "joined"}
Keys == Codes \X Forms

\* Lists of channels are never empty.
Choices == (SUBSET Channels) \ {{}}

\* A request by what it does next.
Entering ==
    [step : {"wrong", "found"}, chat : Chats, code : Codes \cup {None}, form : Forms,
     count : Nat, user : Owners \cup {None}]
Writing ==
    [step : {"write"}, chat : Chats, code : Codes, form : Forms, user : Owners,
     channels : Choices, others : UNION {[D -> Choices] : D \in SUBSET Owners}]
Spending == [step : {"spend"}, chat : Chats, code : Codes, form : Forms]
Unlinking == [step : {"unlink"}, user : Owners, chat : Chats, code : {None}, channels : Choices]
Requests == Entering \cup Writing \cup Spending \cup Unlinking

TypeOKLink ==
    /\ setting \in [Owners -> [chat : Chats \cup {None}, channels : Choices]]
    /\ holder \in [Keys -> Owners \cup {None}]
    /\ linker \in [Linkers -> Requests \cup {None}]
    /\ wrong \in [Chats -> 0 .. MaxWrong] /\ guesses \in [Chats -> Nat] /\ links \in [Codes -> Nat]
    /\ loose \subseteq Codes /\ rushed \subseteq Chats /\ shared \subseteq Chats

InitLink ==
    /\ setting = [u \in Owners |-> [chat |-> None, channels |-> {"IN_APP"}]]
    /\ holder = [key \in Keys |-> None] /\ wrong = [c \in Chats |-> 0]
    /\ linker = [r \in Linkers |-> None]
    /\ links = [k \in Codes |-> 0] /\ guesses = [c \in Chats |-> 0]
    /\ loose = {} /\ rushed = {} /\ shared = {} /\ entered = 0 /\ outside = 0

At(step) == {r \in Linkers : linker[r] # None /\ linker[r].step = step}
Outside == outside < MaxOutside /\ outside' = outside + 1
Free(r) == linker[r] = None /\ \A q \in Linkers : q < r => linker[q] # None
Ends(r) == linker' = [linker EXCEPT ![r] = None]

\* generateLinkCode writes both forms; no code is drawn twice.
GenerateLinkCode(u, k) ==
    /\ \A j \in Codes : j < k => links[j] > 0 \/ holder[<<j, "joined">>] # None
    /\ links[k] = 0 /\ holder[<<k, "dashed">>] = None
    /\ \A r \in Linkers : linker[r] # None => linker[r].code # k
    /\ holder' = [holder EXCEPT ![<<k, "dashed">>] = u, ![<<k, "joined">>] = u]
    /\ UNCHANGED <<setting, wrong, linker, links, guesses, loose, rushed, shared, entered, outside>>

\* The codes, or the wait of a chat, are over.
Expire ==
    /\ Outside
    /\ \/ \E k \in Codes :
            /\ holder' = [holder EXCEPT ![<<k, "dashed">>] = None, ![<<k, "joined">>] = None]
            /\ UNCHANGED <<wrong, guesses>>
       \/ \E c \in Chats :
            /\ wrong' = [wrong EXCEPT ![c] = 0] /\ guesses' = [guesses EXCEPT ![c] = 0]
            /\ UNCHANGED holder
    /\ UNCHANGED <<setting, linker, links, loose, rushed, shared, entered>>

\* A dashed code is looked up as it is, and then without its dash.
Held(k, f) == IF holder[<<k, f>>] # None THEN holder[<<k, f>>] ELSE holder[<<k, "joined">>]

Busy(c) == \E r \in Linkers : linker[r] # None /\ linker[r].chat = c

\* verifyAndConsumeLinkCode up to what it found; k is None for a code that
\* nobody was given.
Enter(r, c, k, f) ==
    /\ Free(r) /\ wrong[c] < MaxWrong /\ entered < MaxEntered /\ entered' = entered + 1
    /\ linker' = [linker EXCEPT ![r] =
         [step |-> IF k = None \/ (k # None /\ Held(k, f) = None) THEN "wrong" ELSE "found",
          chat |-> c, code |-> k, form |-> f, count |-> wrong[c],
          user |-> IF k = None THEN None ELSE Held(k, f)]]
    /\ rushed' = IF Busy(c) THEN rushed \cup {c} ELSE rushed
    /\ loose' = IF k # None /\ \E q \in Linkers : linker[q] # None /\ linker[q].code = k
                THEN loose \cup {k} ELSE loose
    /\ UNCHANGED <<setting, holder, wrong, links, guesses, shared, outside>>

CountWrong(r) ==
    /\ r \in At("wrong")
    /\ LET c == linker[r].chat IN
       /\ wrong' = [wrong EXCEPT ![c] = linker[r].count + 1]
       /\ guesses' = IF c \in rushed THEN guesses ELSE [guesses EXCEPT ![c] = @ + 1]
    /\ Ends(r)
    /\ UNCHANGED <<setting, holder, links, loose, rushed, shared, entered, outside>>

\* Channels without Zalo, and never none.
Filtered(channels) == IF channels \ {"ZALO"} = {} THEN {"IN_APP"} ELSE channels \ {"ZALO"}

Others(c, u) == {v \in Owners \ {u} : setting[v].chat = c}

\* consumeCodeForUser reads the user's channels, and
\* upsertNotificationSettingLink the other users of the chat, ...
Find(r) ==
    /\ r \in At("found")
    /\ LET c == linker[r].chat
           u == linker[r].user IN
       /\ wrong' = [wrong EXCEPT ![c] = 0] /\ guesses' = [guesses EXCEPT ![c] = 0]
       /\ linker' = [linker EXCEPT ![r] =
            [step |-> "write", chat |-> c, code |-> @.code, form |-> @.form, user |-> u,
             channels |-> setting[u].channels \cup {"ZALO"},
             others |-> [v \in Others(c, u) |-> Filtered(setting[v].channels)]]]
    /\ UNCHANGED <<setting, holder, links, loose, rushed, shared, entered, outside>>

\* ... and writes; another request may have read before.
WriteLink(r) ==
    /\ r \in At("write")
    /\ LET l == linker[r] IN
       /\ setting' = [u \in Owners |->
            IF u = l.user THEN [chat |-> l.chat, channels |-> l.channels]
            ELSE IF u \in DOMAIN l.others THEN [chat |-> None, channels |-> l.others[u]]
            ELSE setting[u]]
       /\ links' = IF l.code \in loose THEN links ELSE [links EXCEPT ![l.code] = @ + 1]
       /\ linker' = [linker EXCEPT ![r] = [step |-> "spend", chat |-> l.chat, code |-> l.code,
                                          form |-> l.form]]
       /\ shared' = IF \E q \in At("write") \ {r} : linker[q].chat = l.chat
                    THEN shared \cup {l.chat} ELSE shared
    /\ UNCHANGED <<holder, wrong, guesses, loose, rushed, entered, outside>>

\* What was entered is deleted, and the same without a dash.
Spent(k, f) == {<<k, f>>, <<k, "joined">>}

SpendCode(r) ==
    /\ r \in At("spend")
    /\ LET k == linker[r].code
           f == linker[r].form IN
       /\ holder' = [key \in Keys |-> IF key \in Spent(k, f) THEN None ELSE holder[key]]
       /\ loose' = IF f = "joined" THEN loose \cup {k} ELSE loose
    /\ Ends(r)
    /\ UNCHANGED <<setting, wrong, links, guesses, rushed, shared, entered, outside>>

\* unlinkBot, by the app or by /unlink.
BeginUnlink(r, u) ==
    /\ Free(r) /\ setting[u].chat # None
    /\ linker' = [linker EXCEPT ![r] = [step |-> "unlink", user |-> u, chat |-> setting[u].chat,
                                       code |-> None, channels |-> Filtered(setting[u].channels)]]
    /\ UNCHANGED <<setting, holder, wrong, links, guesses, loose, rushed, shared, entered, outside>>

Unlink(r) ==
    /\ r \in At("unlink")
    /\ setting' = [setting EXCEPT ![linker[r].user] =
                     [chat |-> None, channels |-> linker[r].channels]]
    /\ Ends(r)
    /\ UNCHANGED <<holder, wrong, links, guesses, loose, rushed, shared, entered, outside>>

\* NotificationService.updateSetting takes a chat as it is typed in.
UpdateSetting(u) ==
    /\ Outside
    /\ \E c \in Chats \cup {None}, s \in Choices :
         /\ setting' = [setting EXCEPT ![u] = [chat |-> c, channels |-> s]]
         /\ shared' = IF c \notin {None, setting[u].chat} THEN shared \cup {c} ELSE shared
    /\ UNCHANGED <<holder, wrong, linker, links, guesses, loose, rushed, entered>>

CrashLink ==
    /\ Outside
    /\ loose' = loose \cup {linker[r].code : r \in At("spend")}
    /\ linker' = [r \in Linkers |-> None]
    /\ UNCHANGED <<setting, holder, wrong, links, guesses, rushed, shared, entered>>

NextLink ==
    \/ Expire \/ CrashLink
    \/ \E u \in Owners, k \in Codes : GenerateLinkCode(u, k)
    \/ \E u \in Owners : UpdateSetting(u)
    \/ \E r \in Linkers, c \in Chats, f \in Forms : \E k \in Codes \cup {None} : Enter(r, c, k, f)
    \/ \E r \in Linkers : CountWrong(r) \/ Find(r) \/ WriteLink(r) \/ SpendCode(r) \/ Unlink(r)
    \/ \E r \in Linkers, u \in Owners : BeginUnlink(r, u)

-----------------------------------------------------------------------------
\* A chat belongs to one user at most; two requests that link it at a time,
\* and users who type it in, excepted (upsertNotificationSettingLink: "Đảm
\* bảo quan hệ 1-1").
OneUserPerChat ==
    \A c \in Chats : c \in shared \/ Cardinality({u \in Owners : setting[u].chat = c}) <= 1

\* A code links once, unless it was entered without its dash or by two
\* requests at a time, or a restart kept it from being deleted
\* (consumeCodeForUser).
CodesLinkOnce == \A k \in Codes : links[k] <= 1

\* After MaxWrong wrong codes no code of the chat is looked at any more, but
\* for those that were entered at the same time (verifyAndConsumeLinkCode).
GuessesAreBounded == \A c \in Chats : guesses[c] <= MaxWrong
=============================================================================
