------------------------------ MODULE MCQueues ------------------------------
(***************************************************************************)
(* Work that is done after the request that asked for it: jobs and the     *)
(* webhook deliveries they cause, statement exports, the alerts of the     *)
(* worker, the messages of the Zalo bot and the requests to the AI         *)
(* assistant.  They share no rows, so a behaviour follows one of them.     *)
(***************************************************************************)
EXTENDS AsyncJobs, TLC

CONSTANTS Scenes, Exports, ExportAttempts, Exporters, ExportCrashes
CONSTANTS Subjects, Goals, Notes, Callers, Pages, MaxConnections, Page, Target, MaxChanges
CONSTANTS Members, Messages, Rows, Handlers, MaxDelivered, MaxEvents
CONSTANTS Owners, Chats, Codes, Linkers, MaxWrong, MaxEntered, MaxOutside
CONSTANTS Askers, KeyCounts, MaxAsked, MaxMishaps

VARIABLES scene, statement, requesting, exportQueue, exporter, announced, notices, disturbed,
          exportCrashes
VARIABLES subject, enabled, inbox, scan, caller, badge, removed, missed, steady, changes
VARIABLES linked, message, delivered, dedup, handler, row, context, rowOf, replied, acted,
          last, twice, mixed, strayed, events
VARIABLES setting, holder, wrong, linker, links, guesses, loose, rushed,
          shared, entered, outside
VARIABLES keyCount, assistantOn, nextKey, ask, tried, aiLog, starts, asked, mishaps

\* Messages: a new amount with its category, a change by its words, an
\* amount alone, and one that takes back.
Says(undo, edits, bare, category) ==
    [undo |-> undo, edits |-> edits, bare |-> bare, category |-> category, type |-> FALSE,
     finds |-> IF edits THEN {"amount"} ELSE {}, amount |-> ~undo, wallet |-> None]
Whole == Says(FALSE, FALSE, FALSE, TRUE)
Templates ==
    {Whole, Says(FALSE, TRUE, FALSE, FALSE),
     Says(FALSE, FALSE, TRUE, FALSE), Says(TRUE, FALSE, FALSE, FALSE)}

S == INSTANCE Statements
A == INSTANCE Alerts
Z == INSTANCE ZaloChat
L == INSTANCE ZaloLink
G == INSTANCE Assistant

ASSUME ExportsAssumption ==
    /\ ExportAttempts \in Nat \ {0}
    /\ None \notin S!StatementRows \cup S!ExportRuns \cup S!Q!JobRows

ASSUME AlertsAssumption ==
    /\ Subjects \in SUBSET (Nat \ {0}) /\ IsFiniteSet(Subjects) /\ Goals \subseteq Subjects
    /\ IsFiniteSet(Notes) /\ IsFiniteSet(Pages) /\ MaxConnections \in Nat
    /\ Page \in Nat \ {0} /\ Target \in Nat \ {0}
    /\ None \notin A!NoteRows \cup A!Scans \cup A!Countings \cup A!Requests \cup Nat

\* Transactions and messages are numbered.
ASSUME BotsAssumption ==
    /\ KeyCounts \subseteq Nat /\ MaxWrong \in Nat
    /\ Rows \subseteq Nat /\ None \notin Rows \cup Members \cup Owners \cup Chats \cup Codes
    /\ None \notin G!Requests \cup L!Requests \cup Z!Ids
    /\ None \notin Z!Written \cup Z!Said \cup Z!Working

exportVars == <<statement, requesting, exportQueue, exporter, announced, notices, disturbed,
                exportCrashes>>
alertVars ==
    <<subject, enabled, inbox, scan, caller, badge, removed, missed, steady, changes>>
chatVars == <<linked, message, delivered, dedup, handler, row, context, rowOf, replied, acted,
              last, twice, mixed, strayed, events>>
linkVars == <<setting, holder, wrong, linker, links, guesses, loose, rushed, shared, entered, outside>>
assistVars == <<keyCount, assistantOn, nextKey, ask, tried, aiLog, starts, asked, mishaps>>
botVars == <<chatVars, linkVars, assistVars>>

vars == <<hookVars, jobVars, exportVars, alertVars, botVars, scene>>

\* Users are alike: the chat is one's at first, and so is the first code.
FirstCode == CHOOSE k \in Codes : \A j \in Codes : k <= j
FirstOwner == CHOOSE u \in Owners : TRUE
FirstJob == CHOOSE j \in Jobs : TRUE
FirstMember == CHOOSE u \in Members : TRUE

Init ==
    /\ scene \in Scenes
    /\ InitHooks(IF scene = "jobs" THEN {CHOOSE e \in Endpoints : TRUE} ELSE {})
    /\ InitJobs /\ S!InitExports /\ A!InitAlerts(scene = "badges")
    /\ Z!InitChat /\ linked = FirstMember /\ L!InitLink /\ G!InitAssist
    /\ scene # "assistant" => keyCount = 0

Opening ==
    /\ scene = "endpoints" /\ EndpointStep
    /\ UNCHANGED jobVars /\ UNCHANGED exportVars /\ UNCHANGED <<alertVars, botVars, scene>>

Submitting ==
    /\ scene = "submissions" /\ JobStep
    /\ UNCHANGED exportVars /\ UNCHANGED <<alertVars, botVars, scene>>

\* One job whose status is written, and what else is sent to its user's one
\* endpoint once the job ended; what follows its failure is in "submissions".
Sending ==
    /\ scene = "jobs"
    /\ \/ /\ JobStep /\ {j \in Jobs : job'[j] # None} \subseteq {FirstJob}
             /\ Cardinality({j \in Jobs : job'[j] # None} \cup submitting') <= 1
             /\ executor'[FirstJob] # "failed" /\ ActiveJobs' \cap lostJobs' = {}
       \/ OtherDispatch /\ job[FirstJob] = "COMPLETED" /\ executor[FirstJob] # "fail"
       \/ SenderStep /\ UNCHANGED jobVars
    /\ UNCHANGED exportVars /\ UNCHANGED <<alertVars, botVars, scene>>

Exporting ==
    /\ scene = "statements" /\ S!NextExports
    /\ UNCHANGED hookVars /\ UNCHANGED jobVars /\ UNCHANGED <<alertVars, botVars, scene>>

\* No page is open, and the inbox has one request at a time, to remove a row.
QuietInbox ==
    /\ \A p \in Pages : badge[p] = None
    /\ Cardinality({c \in Callers : caller[c] # None}) <= 1
    /\ \A c \in Callers : caller[c] # None => caller[c].step # "read"
    /\ \A n \in Notes : inbox[n] # None => ~inbox[n].isRead

Alerting ==
    /\ \/ scene = "badges" /\ A!NextAlerts
       \/ scene = "alerts" /\ A!NextAlerts /\ QuietInbox'
    /\ UNCHANGED hookVars /\ UNCHANGED jobVars /\ UNCHANGED <<exportVars, botVars, scene>>

\* The first message of a chat is a new amount with its category, and of two
\* requests to the assistant one asks for a context.
BeginsWhole == message[1] # None => message[1].says = Whole
SecondIsContext == ask[2] # None => ask[2].feature = "CONTEXT"

Chatting ==
    /\ \/ scene = "chat" /\ Z!NextChat /\ UNCHANGED linkVars /\ UNCHANGED assistVars
          /\ BeginsWhole'
       \/ scene = "assistant" /\ G!NextAssist /\ UNCHANGED chatVars /\ UNCHANGED linkVars
          /\ SecondIsContext'
       \/ scene = "linking" /\ L!NextLink /\ UNCHANGED chatVars /\ UNCHANGED assistVars
          /\ holder'[<<FirstCode, "joined">>] \in {None, FirstOwner}
    /\ UNCHANGED hookVars /\ UNCHANGED jobVars /\ UNCHANGED <<exportVars, alertVars, scene>>

Next == Opening \/ Submitting \/ Sending \/ Exporting \/ Alerting \/ Chatting

Spec == Init /\ [][Next]_vars

\* Every variable of every scene has its type, queues and attempts included.
TypeOK ==
    /\ TypeOKHooks /\ TypeOKJobs /\ S!TypeOKExports /\ A!TypeOKAlerts
    /\ Z!TypeOKChat /\ L!TypeOKLink /\ G!TypeOKAssist

\* Limits that are counted before they are used: see EndpointsWithinLimit
\* and JobsWithinLimit.
LimitsHold == EndpointsWithinLimit /\ JobsWithinLimit

\* Deliveries, jobs and statements that have not ended are at work: see
\* PendingIsInHand, ActiveIsExecuted and StatementsTellOutcome.
WorkIsInHand == PendingIsInHand /\ ActiveIsExecuted /\ S!StatementsTellOutcome

\* Alerts reach the inbox and the inbox reaches the pages: see PassTellsAll
\* and BadgeFollowsInbox.
NoticesAreTold == A!PassTellsAll /\ A!BadgeFollowsInbox

\* The Zalo bot changes what its users mean, a code and a chat stand for one
\* user, and a request to the AI assistant is logged as it was told and out of
\* reach only after every key: see EnteredOnce, ChangesWhatIsMeant,
\* OneUserPerChat, CodesLinkOnce, GuessesAreBounded, LoggedAsTold, KeysAreTried
\* and KeysTakeTurns.
BotsDoAsTheySay ==
    /\ Z!EnteredOnce /\ Z!ChangesWhatIsMeant
    /\ G!LoggedAsTold /\ G!KeysAreTried /\ G!KeysTakeTurns
    /\ L!OneUserPerChat /\ L!CodesLinkOnce /\ L!GuessesAreBounded

Symmetry == Permutations(Senders)
=============================================================================
