------------------------------ MODULE JobQueue ------------------------------
(***************************************************************************)
(* The BullMQ queue behind webhooks and statement exports, as those use    *)
(* it: a job has the id of its row, an id that is still known is not added *)
(* again, a failed attempt is tried again after a back-off, and a job      *)
(* whose worker has gone silent goes back to the queue once.               *)
(***************************************************************************)
EXTENDS Integers

CONSTANTS Ids, Attempts

VARIABLE queue          \* queue[j]: the job with the id j

States == {"absent", "waiting", "active", "completed", "failed"}

JobRows == [state : States, made : 0 .. Attempts, stalls : 0 .. 2]

Fresh(state) == [state |-> state, made |-> 0, stalls |-> 0]

InitQueue == queue = [j \in Ids |-> Fresh("absent")]

Open(j) == queue[j].state \in {"waiting", "active"}

\* Queue.add with an id that is known changes nothing and reports no error.
Add(j) ==
    queue' = IF queue[j].state = "absent" THEN [queue EXCEPT ![j] = Fresh("waiting")]
             ELSE queue

Start(j) ==
    /\ queue[j].state = "waiting"
    /\ queue' = [queue EXCEPT ![j].state = "active"]

\* A worker holds the lock of the attempt it began and of no later one.
Holds(j, token) == queue[j] = token /\ token.state = "active"

\* Mutant: one attempt too many.
Retries(made) == made < Attempts

Again(made) == made + 1 < Attempts

\* The end of an attempt; without the lock it is refused.
Finish(j, token, thrown) ==
    queue' = IF ~Holds(j, token) THEN queue
             ELSE [queue EXCEPT ![j] =
                      [@ EXCEPT !.made = queue[j].made + 1,
                                !.state = IF ~thrown THEN "completed"
                                          ELSE IF Again(queue[j].made)
                                          THEN "waiting" ELSE "failed"]]

\* The lock expires: once the job waits again, then it has failed.
Stall(j) ==
    /\ queue[j].state = "active"
    /\ queue' = [queue EXCEPT ![j] =
                    [@ EXCEPT !.stalls = queue[j].stalls + 1,
                              !.state = IF queue[j].stalls = 0 THEN "waiting" ELSE "failed"]]

\* removeOnComplete and removeOnFail: only so many ended jobs are kept.
Forget(j) ==
    /\ queue[j].state \in {"completed", "failed"}
    /\ queue' = [queue EXCEPT ![j] = Fresh("absent")]
=============================================================================
