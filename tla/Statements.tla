----------------------------- MODULE Statements -----------------------------
(***************************************************************************)
(* Statement exports: statement.service.ts, statement.repository.ts,       *)
(* statement-queue.service.ts.  What is in a file is left out; Figures has  *)
(* the balances of a statement.                                            *)
(***************************************************************************)
EXTENDS Integers

CONSTANTS Exports, ExportAttempts, Exporters, ExportCrashes, None

VARIABLES
    statement,          \* statement[s]: [status, file, expired], or None
    requesting,         \* rows whose request has not queued them yet
    exportQueue,
    exporter,           \* exporter[x]: [id, token, stage], or None
    announced,          \* 'failed' events whose write of FAILED is on its way
    notices,            \* statements whose owner was told the file is ready
    disturbed,          \* statements with a status that could not be written, a
                        \* 'failed' event written late, a run that went on after
                        \* its job stalled, or a request or direct run that died
    exportCrashes

exportVars == <<statement, requesting, exportQueue, exporter, announced, notices, disturbed,
                exportCrashes>>

Q == INSTANCE JobQueue WITH Ids <- Exports, Attempts <- ExportAttempts, queue <- exportQueue

StatementRows == [status : {"PENDING", "PROCESSING", "COMPLETED", "FAILED"},
                  file : BOOLEAN, expired : BOOLEAN]

ExportRuns ==
    [id : Exports, token : Q!JobRows \cup {None},
     stage : {"begin", "build", "built", "notify", "catch", "returned", "thrown"}]

InitExports ==
    /\ statement = [s \in Exports |-> None]
    /\ Q!InitQueue
    /\ exporter = [x \in Exporters |-> None]
    /\ requesting = {} /\ announced = {} /\ notices = {}
    /\ disturbed = {}
    /\ exportCrashes = 0

\* initiateExport: the row, then the job.
InitiateExport(s) ==
    /\ statement[s] = None
    /\ statement' = [statement EXCEPT ![s] =
           [status |-> "PENDING", file |-> FALSE, expired |-> FALSE]]
    /\ requesting' = requesting \cup {s}
    /\ UNCHANGED <<exportQueue, exporter, announced, notices, disturbed, exportCrashes>>

Begin(x, s, token) ==
    /\ exporter[x] = None
    /\ exporter' = [exporter EXCEPT ![x] = [id |-> s, token |-> token, stage |-> "begin"]]

Enqueue(s) ==
    /\ s \in requesting
    /\ requesting' = requesting \ {s}
    /\ \/ Q!Add(s) /\ UNCHANGED exporter
       \/ (\E x \in Exporters : Begin(x, s, None)) /\ UNCHANGED exportQueue
    /\ UNCHANGED <<statement, announced, notices, disturbed, exportCrashes>>

-----------------------------------------------------------------------------
\* processExportJob.

TakeJob(x, s) ==
    /\ Q!Start(s)
    /\ Begin(x, s, exportQueue'[s])
    /\ UNCHANGED <<statement, requesting, announced, notices, disturbed, exportCrashes>>

At(x, stage) == exporter[x] # None /\ exporter[x].stage = stage

To(x, stage) == exporter' = [exporter EXCEPT ![x].stage = stage]

Exporting == UNCHANGED <<requesting, exportQueue, announced, exportCrashes>>

MarkProcessing(x) ==
    /\ At(x, "begin")
    /\ statement' = [statement EXCEPT ![exporter[x].id].status = "PROCESSING"]
    /\ To(x, "build")
    /\ UNCHANGED <<notices, disturbed>> /\ Exporting

\* The row cannot be written: the job ends as if it were done.
MarkProcessingFails(x) ==
    /\ At(x, "begin")
    /\ disturbed' = disturbed \cup {exporter[x].id}
    /\ To(x, "returned")
    /\ UNCHANGED <<statement, notices>> /\ Exporting

\* The rows are read, the file is built and stored under the key of the job.
Build(x) ==
    /\ At(x, "build")
    /\ To(x, "built")
    /\ UNCHANGED <<statement, notices, disturbed>> /\ Exporting

MarkCompleted(x) ==
    /\ At(x, "built")
    /\ statement' = [statement EXCEPT ![exporter[x].id] =
           [status |-> "COMPLETED", file |-> TRUE, expired |-> FALSE]]
    /\ To(x, "notify")
    /\ UNCHANGED <<notices, disturbed>> /\ Exporting

Notify(x) ==
    /\ At(x, "notify")
    /\ notices' = notices \cup {exporter[x].id}
    /\ To(x, "returned")
    /\ UNCHANGED <<statement, disturbed>> /\ Exporting

\* Any of these steps may throw, the notification after COMPLETED too.
ExportThrows(x) ==
    /\ At(x, "build") \/ At(x, "built") \/ At(x, "notify")
    /\ To(x, "catch")
    /\ UNCHANGED <<statement, notices, disturbed>> /\ Exporting

Rethrown(x) == To(x, "thrown")

\* The catch: FAILED, an error of that write is dropped, and the throw.
CatchExport(x, written) ==
    LET s == exporter[x].id IN
    /\ At(x, "catch")
    /\ statement' = IF written THEN [statement EXCEPT ![s].status = "FAILED"] ELSE statement
    /\ disturbed' = IF written THEN disturbed ELSE disturbed \cup {s}
    /\ Rethrown(x)
    /\ UNCHANGED notices /\ Exporting

\* The worker's event 'failed' follows every attempt that failed.
Acknowledge(x) ==
    LET r == exporter[x] IN
    /\ At(x, "returned") \/ At(x, "thrown")
    /\ exporter' = [exporter EXCEPT ![x] = None]
    /\ IF r.token = None THEN UNCHANGED <<exportQueue, announced>>
       ELSE /\ Q!Finish(r.id, r.token, r.stage = "thrown")
            /\ announced' = IF r.stage = "thrown" /\ Q!Holds(r.id, r.token)
                            THEN announced \cup {r.id} ELSE announced
    /\ UNCHANGED <<statement, requesting, notices, disturbed, exportCrashes>>

StallExport(s) ==
    /\ Q!Stall(s)
    /\ announced' = IF exportQueue'[s].state = "failed" THEN announced \cup {s} ELSE announced
    /\ disturbed' = IF \E x \in Exporters : exporter[x] # None /\ exporter[x].id = s
                    THEN disturbed \cup {s} ELSE disturbed
    /\ UNCHANGED <<statement, requesting, exporter, notices, exportCrashes>>

\* The write of the event handler, whatever happened to the job meanwhile.
WriteFailedEvent(s, written) ==
    /\ s \in announced
    /\ announced' = announced \ {s}
    /\ statement' = IF written THEN [statement EXCEPT ![s].status = "FAILED"] ELSE statement
    /\ disturbed' = IF written /\ exportQueue[s].state = "failed" THEN disturbed
                    ELSE disturbed \cup {s}
    /\ UNCHANGED <<requesting, exportQueue, exporter, notices, exportCrashes>>

ForgetExport(s) ==
    /\ s \notin announced /\ \A x \in Exporters : exporter[x] # None => exporter[x].id # s
    /\ Q!Forget(s)
    /\ UNCHANGED <<statement, requesting, exporter, announced, notices, disturbed, exportCrashes>>

Expire(s) ==
    /\ statement[s] # None /\ statement[s].file /\ ~statement[s].expired
    /\ statement' = [statement EXCEPT ![s].expired = TRUE]
    /\ UNCHANGED <<requesting, exportQueue, exporter, announced, notices, disturbed, exportCrashes>>

ExportCrash ==
    /\ exportCrashes < ExportCrashes
    /\ exportCrashes' = exportCrashes + 1
    /\ disturbed' = disturbed \cup requesting \cup announced
           \cup {s \in Exports : \E x \in Exporters : /\ exporter[x] # None
                                                     /\ exporter[x].id = s
                                                     /\ exporter[x].token = None}
    /\ requesting' = {} /\ announced' = {}
    /\ exporter' = [x \in Exporters |-> None]
    /\ UNCHANGED <<statement, exportQueue, notices>>

NextExports ==
    \/ \E s \in Exports :
          \/ InitiateExport(s) \/ Enqueue(s) \/ StallExport(s) \/ ForgetExport(s) \/ Expire(s)
          \/ \E written \in BOOLEAN : WriteFailedEvent(s, written)
          \/ \E x \in Exporters : TakeJob(x, s)
    \/ \E x \in Exporters :
          \/ MarkProcessing(x) \/ MarkProcessingFails(x) \/ Build(x) \/ MarkCompleted(x)
          \/ Notify(x) \/ ExportThrows(x) \/ Acknowledge(x)
          \/ \E written \in BOOLEAN : CatchExport(x, written)
    \/ ExportCrash

\* downloadStatement and verifyStatement.
Downloadable(s) ==
    statement[s] # None /\ statement[s].status = "COMPLETED" /\ ~statement[s].expired

Valid(s) == statement[s] # None /\ statement[s].status = "COMPLETED"

-----------------------------------------------------------------------------
TypeOKExports ==
    /\ statement \in [Exports -> StatementRows \cup {None}]
    /\ exportQueue \in [Exports -> Q!JobRows]
    /\ exporter \in [Exporters -> ExportRuns \cup {None}]
    /\ requesting \cup announced \cup notices \cup disturbed \subseteq Exports
    /\ \A x \in Exporters : exporter[x] # None => statement[exporter[x].id] # None

InHand(s) ==
    \/ s \in requesting \/ s \in announced \/ Q!Open(s)
    \/ \E x \in Exporters : exporter[x] # None /\ exporter[x].id = s

\* What a user is told about a statement comes true: an export that ended
\* well is COMPLETED and can be downloaded, and none stays PENDING or
\* PROCESSING with nobody at work on it, but for what "disturbed" names.
StatementsTellOutcome ==
    \A s \in Exports : statement[s] # None =>
        /\ (exportQueue[s].state = "completed" /\ ~InHand(s)) =>
               Valid(s) \/ s \in disturbed
        /\ statement[s].status \in {"PENDING", "PROCESSING"} =>
               InHand(s) \/ s \in disturbed
        /\ Downloadable(s) => statement[s].file
=============================================================================
