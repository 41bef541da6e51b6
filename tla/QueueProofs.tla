----------------------------- MODULE QueueProofs -----------------------------
(***************************************************************************)
(* Proofs about modules Webhooks, AsyncJobs, Statements, Alerts, ZaloChat, *)
(* ZaloLink and Assistant as MCQueues composes them: for every set of      *)
(* endpoints, deliveries, jobs, statements, subjects, notices, messages,   *)
(* transactions, codes and requests, any number of workers, attempts and   *)
(* keys, any limits and sizes of pages, and any bounds on crashes.         *)
(***************************************************************************)
EXTENDS MCQueues, Totals, Sequences, FiniteSetTheorems, TLAPS
-----------------------------------------------------------------------------
(* The queue: an open job has attempts left and has stalled once at most.  *)

QueueTyped(queue, attempts) ==
  \A j \in DOMAIN queue : queue[j].state \in {"waiting", "active"} =>
     queue[j].made < attempts /\ queue[j].stalls < 2

(* A worker's copy of a job is of the attempt under way or of an earlier one. *)
NotNewer(token, known) ==
  /\ token.state = "active" /\ known.state # "absent"
  /\ token.made <= known.made /\ token.stalls <= known.stalls
  /\ known.state = "waiting" => token.made + token.stalls < known.made + known.stalls

-----------------------------------------------------------------------------
(* Webhooks.                                                               *)

HookTypes ==
  /\ endpoint \in [Endpoints -> EndpointStates \cup {None}]
  /\ opening \subseteq Openers /\ reenabled \subseteq Endpoints
  /\ delivery \in [Deliveries -> DeliveryRows \cup {None}]
  /\ hooks \in [Deliveries -> Q!JobRows]
  /\ dispatch \in [Dispatchers -> Dispatches \cup {None}]
  /\ sender \in [Senders -> Sendings \cup {None}]
  /\ lost \subseteq Deliveries /\ ignored \subseteq Deliveries

(* What is under way is about deliveries that have a row. *)
RowsFound ==
  /\ \A d \in Deliveries : hooks[d].state # "absent" => delivery[d] # None
  /\ \A x \in Dispatchers : dispatch[x] # None /\ dispatch[x].current # None =>
        delivery[dispatch[x].current] # None
  /\ \A n \in Senders : sender[n] # None => delivery[sender[n].id] # None

Tokens ==
  \A n \in Senders : sender[n] # None =>
    IF sender[n].token = None THEN sender[n].stage \in {"sending", "answered"}
    ELSE NotNewer(sender[n].token, hooks[sender[n].id])

(* Why a delivery that is PENDING will be attempted. *)
BeingQueued(d) == \E x \in Dispatchers : dispatch[x] # None /\ dispatch[x].current = d
SentDirectly(d) == \E n \in Senders : sender[n] # None /\ sender[n].id = d /\ sender[n].token = None
InAttempt(d) ==
  /\ hooks[d].state = "active"
  /\ \A n \in Senders : sender[n] # None /\ sender[n].id = d /\ Q!Holds(d, sender[n].token) =>
        sender[n].stage \in {"sending", "answered"}

AtWork(d) ==
  \/ BeingQueued(d) \/ SentDirectly(d) \/ hooks[d].state = "waiting" \/ InAttempt(d)
  \/ d \in lost \cup ignored

PendingAtWork ==
  \A d \in Deliveries : delivery[d] # None /\ delivery[d].status = "PENDING" => AtWork(d)

EndpointsCounted ==
  Cardinality(ActiveEndpoints \ reenabled) + Cardinality(opening)
     <= MaxEndpoints + Cardinality(Openers) - 1

HooksInv ==
  /\ HookTypes /\ RowsFound /\ QueueTyped(hooks, HookAttempts) /\ Tokens
  /\ PendingAtWork

-----------------------------------------------------------------------------
(* Jobs.                                                                   *)

JobTypes ==
  /\ job \in [Jobs -> JobStates \cup {None}]
  /\ executor \in [Jobs -> {None, "begin", "complete", "completed", "fail", "failed"}]
  /\ submitting \subseteq Submitters /\ lostJobs \subseteq Jobs

(* The status that the executor has written last. *)
StatusAt ==
  [begin |-> {"PENDING"}, complete |-> {"PROCESSING"}, completed |-> {"COMPLETED"},
   fail |-> {"PROCESSING", "COMPLETED"}, failed |-> {"FAILED"}]

ExecutorTells ==
  \A j \in Jobs :
    /\ executor[j] # None => job[j] \in StatusAt[executor[j]]
    /\ dispatch[j] # None => executor[j] \in {"completed", "failed"}

JobsCounted ==
  Cardinality(ActiveJobs) + Cardinality(submitting) <= MaxJobs + Cardinality(Submitters) - 1

JobsInv == JobTypes /\ ExecutorTells /\ ActiveIsExecuted

-----------------------------------------------------------------------------
(* Statements.                                                             *)

ExportTypes ==
  /\ statement \in [Exports -> S!StatementRows \cup {None}]
  /\ exportQueue \in [Exports -> S!Q!JobRows]
  /\ exporter \in [Exporters -> S!ExportRuns \cup {None}]
  /\ requesting \subseteq Exports /\ announced \subseteq Exports /\ disturbed \subseteq Exports

Runs(x, s) == exporter[x] # None /\ exporter[x].id = s

StatusWhen ==
  [begin |-> {"PENDING", "PROCESSING", "COMPLETED", "FAILED"}, build |-> {"PROCESSING"},
   built |-> {"PROCESSING"}, notify |-> {"COMPLETED"}, returned |-> {"COMPLETED"},
   catch |-> {"PROCESSING", "COMPLETED"}, thrown |-> {"FAILED"}]

(* Before a job is queued nobody works on its row. *)
NotBefore(s) ==
  /\ s \in requesting => statement[s] # None
  /\ statement[s] = None \/ s \in requesting =>
        /\ exportQueue[s].state = "absent" /\ s \notin announced
        /\ \A x \in Exporters : ~Runs(x, s)

(* Of a statement that nothing disturbed there is one run at most, of the
   attempt under way, and the row has the status this run has written. *)
OneRun(s) ==
  /\ \A x, y \in Exporters : Runs(x, s) /\ Runs(y, s) => x = y
  /\ \A x \in Exporters : Runs(x, s) =>
        /\ IF exporter[x].token = None THEN exportQueue[s].state = "absent"
           ELSE S!Q!Holds(s, exporter[x].token)
        /\ statement[s].status \in StatusWhen[exporter[x].stage]
  /\ exportQueue[s].state = "completed" => statement[s].status = "COMPLETED"
  /\ statement[s] # None /\ statement[s].status \in {"PENDING", "PROCESSING"} => S!InHand(s)

CompletedHasFile(s) ==
  statement[s] # None /\ statement[s].status = "COMPLETED" => statement[s].file

ExportSound(s) == NotBefore(s) /\ (s \notin disturbed => OneRun(s)) /\ CompletedHasFile(s)

ExportsInv ==
  ExportTypes /\ QueueTyped(exportQueue, ExportAttempts) /\ \A s \in Exports : ExportSound(s)

-----------------------------------------------------------------------------
LEMMA HookRowFields ==
  ASSUME NEW r \in Q!JobRows
  PROVE  /\ r.state \in Q!States /\ r.made \in 0 .. HookAttempts /\ r.stalls \in 0 .. 2
         /\ r # None
BY NoHookAssumption DEF Q!JobRows

LEMMA SendingFields ==
  ASSUME HooksInv, NEW n \in Senders, sender[n] # None
  PROVE  /\ sender[n] \in Sendings /\ sender[n].id \in Deliveries
         /\ sender[n].token \in Q!JobRows \cup {None}
         /\ sender[n].stage \in {"sending", "answered", "returned", "thrown"}
         /\ delivery[sender[n].id] \in DeliveryRows
BY DEF HooksInv, HookTypes, RowsFound, Sendings

LEMMA DispatchFields ==
  ASSUME HooksInv, NEW x \in Dispatchers, dispatch[x] # None
  PROVE  /\ dispatch[x] \in Dispatches
         /\ dispatch[x].left \in SUBSET Endpoints /\ dispatch[x].current \in Deliveries \cup {None}
         /\ dispatch[x].current # None => delivery[dispatch[x].current] \in DeliveryRows
BY DEF HooksInv, HookTypes, RowsFound, Dispatches

(* Endpoints and their limit are of no concern to deliveries. *)
LEMMA HooksStay ==
  ASSUME HooksInv, endpoint' \in [Endpoints -> EndpointStates \cup {None}],
         opening' \subseteq Openers, reenabled' \subseteq Endpoints,
         UNCHANGED <<delivery, hooks, dispatch, sender, lost, ignored>>
  PROVE  HooksInv'
BY DEF HooksInv, HookTypes, RowsFound, QueueTyped, Tokens, PendingAtWork, AtWork, BeingQueued,
       SentDirectly, InAttempt, NotNewer, Q!Holds, Q!JobRows, Dispatches, Sendings

LEMMA EndpointStepKeeps ==
  ASSUME HooksInv, EndpointStep
  PROVE  HooksInv'
<1>1. /\ endpoint \in [Endpoints -> EndpointStates \cup {None}]
      /\ opening \subseteq Openers /\ reenabled \subseteq Endpoints
  BY DEF HooksInv, HookTypes
<1>2. ASSUME NEW o \in Openers, CountEndpoints(o) PROVE HooksInv'
  BY <1>1, <1>2, HooksStay DEF CountEndpoints, OnlyEndpoints
<1>3. ASSUME NEW o \in Openers, NEW e \in Endpoints, CreateEndpoint(o, e) PROVE HooksInv'
  BY <1>1, <1>3, HooksStay DEF CreateEndpoint, OnlyEndpoints, EndpointStates
<1>4. ASSUME NEW e \in Endpoints, DeleteEndpoint(e) PROVE HooksInv'
  BY <1>1, <1>4, HooksStay DEF DeleteEndpoint, OnlyEndpoints, EndpointStates
<1>5. ASSUME NEW e \in Endpoints, NEW s \in {"ACTIVE", "DISABLED"}, UpdateEndpoint(e, s)
      PROVE  HooksInv'
  BY <1>1, <1>5, HooksStay DEF UpdateEndpoint, OnlyEndpoints, EndpointStates
<1> QED
  BY <1>2, <1>3, <1>4, <1>5 DEF EndpointStep

-----------------------------------------------------------------------------
(* Requests that send events.                                              *)

(* One dispatch is written, and what it was about to queue is seen to. *)
LEMMA DispatchWritten ==
  ASSUME HooksInv, NEW x \in Dispatchers, NEW r \in Dispatches \cup {None},
         dispatch' = [dispatch EXCEPT ![x] = r],
         r # None /\ r.current # None => delivery[r.current] # None,
         \A d \in Deliveries :
            dispatch[x] # None /\ dispatch[x].current = d =>
               \/ r # None /\ r.current = d
               \/ delivery[d].status # "PENDING" \/ d \in lost' \cup ignored'
               \/ hooks'[d].state = "waiting" \/ SentDirectly(d)',
         lost' \subseteq Deliveries, ignored' \subseteq Deliveries,
         \A d \in lost \cup ignored :
            d \in lost' \cup ignored' \/ hooks'[d].state = "waiting" \/ SentDirectly(d)',
         HookTypes', RowsFound', QueueTyped(hooks', HookAttempts), Tokens',
         delivery' = delivery,
         \A d \in Deliveries : hooks[d].state = "waiting" => hooks'[d].state = "waiting",
         \A d \in Deliveries : InAttempt(d) => InAttempt(d)',
         \A d \in Deliveries : SentDirectly(d) => SentDirectly(d)'
  PROVE  HooksInv'
<1>1. ASSUME NEW d \in Deliveries, AtWork(d), delivery[d].status = "PENDING"
      PROVE  AtWork(d)'
  <2>1. CASE BeingQueued(d)
    <3>1. PICK y \in Dispatchers : dispatch[y] # None /\ dispatch[y].current = d
      BY <2>1 DEF BeingQueued
    <3>2. CASE y = x
      <4>1. CASE r # None /\ r.current = d
        <5>1. dispatch'[x] = r
          BY DEF HooksInv, HookTypes
        <5> QED
          BY <4>1, <5>1 DEF AtWork, BeingQueued
      <4>2. CASE ~(r # None /\ r.current = d)
        BY <1>1, <3>1, <3>2, <4>2 DEF AtWork
      <4> QED
        BY <4>1, <4>2
    <3>3. CASE y # x
      <4>1. dispatch'[y] = dispatch[y]
        BY <3>3 DEF HooksInv, HookTypes
      <4> QED
        BY <3>1, <4>1 DEF AtWork, BeingQueued
    <3> QED
      BY <3>2, <3>3
  <2> QED
    BY <1>1, <2>1 DEF AtWork
<1>2. PendingAtWork'
  BY <1>1 DEF HooksInv, PendingAtWork
<1> QED
  BY <1>2 DEF HooksInv

(* Neither the queue nor an attempt is touched. *)
LEMMA OnlyDispatchWritten ==
  ASSUME HooksInv, NEW x \in Dispatchers, NEW r \in Dispatches \cup {None},
         dispatch' = [dispatch EXCEPT ![x] = r],
         r # None /\ r.current # None => delivery[r.current] # None,
         dispatch[x] = None \/ dispatch[x].current = None
           \/ dispatch[x].current \in lost',
         lost \subseteq lost', lost' \subseteq Deliveries,
         UNCHANGED <<delivery, hooks, sender, ignored>>, OnlyDispatch
  PROVE  HooksInv'
<1>1. HookTypes'
  BY DEF HooksInv, HookTypes, OnlyDispatch
<1>2. RowsFound'
  <2>1. ASSUME NEW y \in Dispatchers, dispatch'[y] # None, dispatch'[y].current # None
        PROVE  delivery'[dispatch'[y].current] # None
    BY <2>1 DEF HooksInv, HookTypes, RowsFound
  <2> QED
    BY <2>1 DEF HooksInv, RowsFound
<1>3. QueueTyped(hooks', HookAttempts) /\ Tokens'
  BY DEF HooksInv, QueueTyped, Tokens, NotNewer
<1>4. \A d \in Deliveries : /\ InAttempt(d) => InAttempt(d)'
                            /\ SentDirectly(d) => SentDirectly(d)'
  BY DEF InAttempt, SentDirectly, Q!Holds
<1>5. \A d \in Deliveries : dispatch[x] # None /\ dispatch[x].current = d => d \in lost'
  BY NoHookAssumption
<1> QED
  BY <1>1, <1>2, <1>3, <1>4, <1>5, DispatchWritten DEF HooksInv, HookTypes

LEMMA DispatchRow ==
  ASSUME NEW left \in SUBSET Endpoints, NEW c \in Deliveries \cup {None}
  PROVE  /\ [left |-> left, current |-> c] \in Dispatches
         /\ [left |-> left, current |-> c].current = c
BY DEF Dispatches

LEMMA DispatchKeeps ==
  ASSUME HooksInv, NEW x \in Dispatchers, NEW targets \in SUBSET Endpoints, Dispatch(x, targets)
  PROVE  HooksInv'
<1>1. PICK r \in Dispatches \cup {None} :
         /\ dispatch' = [dispatch EXCEPT ![x] = r]
         /\ r # None => r.current = None
  <2>1. CASE targets = {}
    BY <2>1 DEF Dispatch
  <2>2. CASE targets # {}
    BY <2>2, DispatchRow DEF Dispatch
  <2> QED
    BY <2>1, <2>2
<1>2. lost' = lost /\ lost \subseteq Deliveries
  BY DEF Dispatch, HooksInv, HookTypes
<1> QED
  BY <1>1, <1>2, OnlyDispatchWritten DEF Dispatch

LEMMA TestPingKeeps ==
  ASSUME HooksInv, NEW x \in Dispatchers, NEW e \in Endpoints, TestPing(x, e)
  PROVE  HooksInv'
<1>1. PICK r \in Dispatches :
         /\ dispatch' = [dispatch EXCEPT ![x] = r]
         /\ r.current = None
  BY DispatchRow DEF TestPing
<1>2. lost' = lost /\ lost \subseteq Deliveries
  BY DEF TestPing, HooksInv, HookTypes
<1> QED
  BY <1>1, <1>2, OnlyDispatchWritten DEF TestPing

LEMMA DispatchFailsKeeps ==
  ASSUME HooksInv, NEW x \in Dispatchers, DispatchFails(x)
  PROVE  HooksInv'
<1>1. dispatch[x].current \in Deliveries \cup {None}
  BY DispatchFields DEF DispatchFails
<1> QED
  BY <1>1, OnlyDispatchWritten DEF DispatchFails, HooksInv, HookTypes

(* A delivery row is written and x is about to queue it. *)
LEMMA QueuedNext ==
  ASSUME HooksInv, NEW x \in Dispatchers, NEW d \in Deliveries, NEW left \in SUBSET Endpoints,
         dispatch[x] = None \/ dispatch[x].current = None,
         NEW r \in DeliveryRows, delivery' = [delivery EXCEPT ![d] = r],
         dispatch' = [dispatch EXCEPT ![x] = [left |-> left, current |-> d]],
         UNCHANGED <<hooks, sender, lost, ignored>>, OnlyDispatch
  PROVE  HooksInv'
<1> r # None
  BY NoHookAssumption
<1>1. HookTypes'
  BY DEF HooksInv, HookTypes, OnlyDispatch, Dispatches
<1>2. \A c \in Deliveries : /\ delivery[c] # None => delivery'[c] # None
                            /\ c # d => delivery'[c] = delivery[c]
  BY DEF HooksInv, HookTypes
<1>3. delivery'[d] = r /\ dispatch'[x].current = d /\ dispatch'[x] # None
  <2>1. [left |-> left, current |-> d] \in Dispatches
    BY DEF Dispatches
  <2> QED
    BY <2>1, NoHookAssumption DEF HooksInv, HookTypes
<1>4. \A y \in Dispatchers : y # x => dispatch'[y] = dispatch[y]
  BY DEF HooksInv, HookTypes
<1>5. RowsFound'
  <2>1. \A c \in Deliveries : hooks'[c].state # "absent" => delivery'[c] # None
    BY <1>2 DEF HooksInv, RowsFound
  <2>2. ASSUME NEW y \in Dispatchers, dispatch'[y] # None, dispatch'[y].current # None
        PROVE  delivery'[dispatch'[y].current] # None
    <3>1. CASE y = x
      BY <1>3, <3>1
    <3>2. CASE y # x
      BY <1>2, <1>4, <2>2, <3>2, DispatchFields DEF HooksInv, RowsFound
    <3> QED
      BY <3>1, <3>2
  <2>3. ASSUME NEW n \in Senders, sender'[n] # None PROVE delivery'[sender'[n].id] # None
    BY <1>2, <2>3, SendingFields DEF HooksInv, RowsFound
  <2> QED
    BY <2>1, <2>2, <2>3 DEF RowsFound
<1>6. QueueTyped(hooks', HookAttempts) /\ Tokens'
  BY DEF HooksInv, QueueTyped, Tokens, NotNewer
<1>7. PendingAtWork'
  <2>1. ASSUME NEW c \in Deliveries, delivery'[c] # None, delivery'[c].status = "PENDING"
        PROVE  AtWork(c)'
    <3>1. CASE c = d
      BY <1>3, <3>1 DEF AtWork, BeingQueued
    <3>2. CASE c # d
      <4>1. AtWork(c)
        BY <1>2, <2>1, <3>2 DEF HooksInv, PendingAtWork
      <4>2. CASE BeingQueued(c)
        BY <1>4, <4>2, NoHookAssumption DEF AtWork, BeingQueued
      <4>3. CASE ~BeingQueued(c)
        BY <4>1, <4>3 DEF AtWork, SentDirectly, InAttempt, Q!Holds
      <4> QED
        BY <4>2, <4>3
    <3> QED
      BY <3>1, <3>2
  <2> QED
    BY <2>1 DEF PendingAtWork
<1> QED
  BY <1>1, <1>5, <1>6, <1>7 DEF HooksInv

LEMMA CreateDeliveryKeeps ==
  ASSUME HooksInv, NEW x \in Dispatchers, NEW d \in Deliveries, CreateDelivery(x, d)
  PROVE  HooksInv'
<1>1. dispatch[x].left \in SUBSET Endpoints
  BY DispatchFields DEF CreateDelivery
<1>2. PICK e \in dispatch[x].left :
         /\ delivery' = [delivery EXCEPT ![d] = [endpoint |-> e, status |-> "PENDING"]]
         /\ dispatch' = [dispatch EXCEPT ![x] = [left |-> @.left \ {e}, current |-> d]]
  BY DEF CreateDelivery
<1>3. dispatch' = [dispatch EXCEPT ![x] = [left |-> dispatch[x].left \ {e}, current |-> d]]
  BY <1>2 DEF HooksInv, HookTypes
<1>4. [endpoint |-> e, status |-> "PENDING"] \in DeliveryRows
      /\ dispatch[x].left \ {e} \in SUBSET Endpoints
  BY <1>1, <1>2 DEF DeliveryRows
<1>5. PICK r \in DeliveryRows, left \in SUBSET Endpoints :
         /\ delivery' = [delivery EXCEPT ![d] = r]
         /\ dispatch' = [dispatch EXCEPT ![x] = [left |-> left, current |-> d]]
  BY <1>2, <1>3, <1>4
<1>6. /\ dispatch[x].current = None
      /\ UNCHANGED <<hooks, sender, lost, ignored>> /\ OnlyDispatch
  BY DEF CreateDelivery
<1> QED
  BY <1>5, <1>6, QueuedNext

LEMMA ResetForRetryKeeps ==
  ASSUME HooksInv, NEW x \in Dispatchers, NEW d \in Deliveries, ResetForRetry(x, d)
  PROVE  HooksInv'
<1>1. delivery[d] \in DeliveryRows
  BY DEF HooksInv, HookTypes, ResetForRetry
<1>2. PICK r \in DeliveryRows : delivery' = [delivery EXCEPT ![d] = r]
  <2>1. [delivery[d] EXCEPT !.status = "PENDING"] \in DeliveryRows
    BY <1>1 DEF DeliveryRows
  <2> QED
    BY <2>1 DEF ResetForRetry
<1> QED
  BY <1>2, QueuedNext DEF ResetForRetry

LEMMA DispatchedRow ==
  ASSUME HooksInv, NEW x \in Dispatchers, dispatch[x] # None, Dispatched(x)
  PROVE  \E r \in Dispatches \cup {None} :
            /\ dispatch' = [dispatch EXCEPT ![x] = r]
            /\ r # None => r.current = None
<1>1. PICK left \in SUBSET Endpoints, c \in Deliveries \cup {None} :
         dispatch[x] = [left |-> left, current |-> c]
  BY DispatchFields DEF Dispatches
<1>2. [dispatch[x] EXCEPT !.current = None] = [left |-> left, current |-> None]
  BY <1>1
<1>3. dispatch' = [dispatch EXCEPT ![x] = IF dispatch[x].left = {} THEN None
                                          ELSE [dispatch[x] EXCEPT !.current = None]]
  BY DEF Dispatched, HooksInv, HookTypes
<1>4. CASE dispatch[x].left = {}
  BY <1>3, <1>4
<1>5. CASE dispatch[x].left # {}
  BY <1>2, <1>3, <1>5, DispatchRow
<1> QED
  BY <1>4, <1>5

(* What a queue has, a token of an earlier attempt still is one. *)
LEMMA EnqueueKeeps ==
  ASSUME HooksInv, NEW x \in Dispatchers, Enqueue(x)
  PROVE  HooksInv'
<1>1. PICK d \in Deliveries : d = dispatch[x].current
  BY DispatchFields DEF Enqueue
<1>2. /\ dispatch[x] # None /\ delivery[d] # None
      /\ hooks' = IF hooks[d].state = "absent" THEN [hooks EXCEPT ![d] = Q!Fresh("waiting")]
                  ELSE hooks
      /\ lost' = lost \ {d}
      /\ ignored' = IF hooks[d].state = "absent" THEN ignored \ {d} ELSE ignored \cup {d}
      /\ Dispatched(x)
      /\ UNCHANGED <<delivery, sender, endpoint, opening, reenabled, hookCrashes>>
  BY <1>1, NoHookAssumption DEF Enqueue, Q!Add, OnlyDispatch, HooksInv, RowsFound
<1>3. PICK r \in Dispatches \cup {None} :
         /\ dispatch' = [dispatch EXCEPT ![x] = r]
         /\ r # None => r.current = None
  BY <1>2, DispatchedRow
<1>4. Q!Fresh("waiting") \in Q!JobRows /\ Q!Fresh("waiting").state = "waiting"
      /\ Q!Fresh("waiting").made = 0 /\ Q!Fresh("waiting").stalls = 0
  BY HookLimitsAssumption DEF Q!Fresh, Q!JobRows, Q!States
<1>5. /\ hooks' \in [Deliveries -> Q!JobRows]
      /\ \A c \in Deliveries : c # d \/ hooks[c].state # "absent" => hooks'[c] = hooks[c]
      /\ hooks[d].state = "absent" => hooks'[d] = Q!Fresh("waiting")
      /\ hooks'[d].state # "absent"
  BY <1>2, <1>4 DEF HooksInv, HookTypes
<1>6. HookTypes'
  BY <1>2, <1>3, <1>5 DEF HooksInv, HookTypes
<1>7. RowsFound'
  <2>1. \A c \in Deliveries : hooks'[c].state # "absent" => delivery'[c] # None
    BY <1>2, <1>5 DEF HooksInv, RowsFound
  <2>2. \A y \in Dispatchers : dispatch'[y] # None /\ dispatch'[y].current # None =>
           delivery'[dispatch'[y].current] # None
    BY <1>2, <1>3 DEF HooksInv, RowsFound, HookTypes
  <2> QED
    BY <1>2, <2>1, <2>2 DEF HooksInv, RowsFound
<1>8. QueueTyped(hooks', HookAttempts)
  BY <1>4, <1>5, HookLimitsAssumption DEF HooksInv, HookTypes, QueueTyped
<1>9. Tokens'
  <2>1. ASSUME NEW n \in Senders, sender[n] # None, sender[n].token # None
        PROVE  NotNewer(sender[n].token, hooks'[sender[n].id])
    <3>1. NotNewer(sender[n].token, hooks[sender[n].id]) /\ sender[n].id \in Deliveries
      BY <2>1, SendingFields DEF HooksInv, Tokens
    <3>2. CASE hooks'[sender[n].id] = hooks[sender[n].id]
      BY <3>1, <3>2
    <3>3. CASE sender[n].id = d /\ hooks[d].state = "absent"
      BY <3>1, <3>3 DEF NotNewer
    <3> QED
      BY <1>5, <3>1, <3>2, <3>3
  <2> QED
    BY <1>2, <2>1 DEF HooksInv, Tokens
<1>10. \A c \in Deliveries : hooks[c].state = "waiting" => hooks'[c].state = "waiting"
  BY <1>4, <1>5
<1>11. \A c \in Deliveries : InAttempt(c) => InAttempt(c)'
  BY <1>2, <1>5 DEF InAttempt, Q!Holds
<1>12. \A c \in Deliveries : SentDirectly(c) => SentDirectly(c)'
  BY <1>2 DEF SentDirectly
<1>13. \A c \in Deliveries : dispatch[x] # None /\ dispatch[x].current = c =>
          c \in lost' \cup ignored' \/ hooks'[c].state = "waiting"
  BY <1>1, <1>2, <1>4, <1>5
<1>14. \A c \in lost \cup ignored : c \in lost' \cup ignored' \/ hooks'[c].state = "waiting"
  BY <1>2, <1>4, <1>5
<1> QED
  BY <1>2, <1>3, <1>6, <1>7, <1>8, <1>9, <1>10, <1>11, <1>12, <1>13, <1>14, DispatchWritten
     DEF HookTypes

(* An attempt in the process itself. *)
LEMMA EnqueueDirectlyKeeps ==
  ASSUME HooksInv, NEW x \in Dispatchers, EnqueueDirectly(x)
  PROVE  HooksInv'
<1>1. PICK d \in Deliveries : d = dispatch[x].current
  BY DispatchFields DEF EnqueueDirectly
<1>2. PICK n \in Senders :
      /\ sender[n] = None
      /\ sender' = [sender EXCEPT ![n] =
               [id |-> d, token |-> None, stage |-> "sending", ok |-> FALSE]]
  BY <1>1 DEF EnqueueDirectly, FallBack, DirectSend
<1>3. /\ dispatch[x] # None /\ delivery[d] # None
      /\ lost' = lost \ {d} /\ ignored' = ignored \ {d}
      /\ Dispatched(x)
      /\ UNCHANGED <<delivery, hooks, endpoint, opening, reenabled, hookCrashes>>
  BY <1>1, NoHookAssumption DEF EnqueueDirectly, OnlyDispatch, HooksInv, RowsFound
<1>4. PICK r \in Dispatches \cup {None} :
         /\ dispatch' = [dispatch EXCEPT ![x] = r]
         /\ r # None => r.current = None
  BY <1>3, DispatchedRow
<1>5. PICK s \in Sendings :
         /\ sender' = [sender EXCEPT ![n] = s]
         /\ s.id = d /\ s.token = None /\ s.stage = "sending"
  <2>1. [id |-> d, token |-> None, stage |-> "sending", ok |-> FALSE] \in Sendings
    BY DEF Sendings
  <2> QED
    BY <1>2, <2>1
<1>6. /\ sender'[n] = s /\ s # None
      /\ \A m \in Senders : m # n => sender'[m] = sender[m]
  BY <1>5, NoHookAssumption DEF HooksInv, HookTypes
<1>7. HookTypes'
  BY <1>3, <1>4, <1>5 DEF HooksInv, HookTypes
<1>8. RowsFound'
  <2>1. ASSUME NEW m \in Senders, sender'[m] # None PROVE delivery'[sender'[m].id] # None
    BY <1>3, <1>5, <1>6, <2>1 DEF HooksInv, RowsFound
  <2>2. \A y \in Dispatchers : dispatch'[y] # None /\ dispatch'[y].current # None =>
           delivery'[dispatch'[y].current] # None
    BY <1>3, <1>4 DEF HooksInv, RowsFound, HookTypes
  <2> QED
    BY <1>3, <2>1, <2>2 DEF HooksInv, RowsFound
<1>9. QueueTyped(hooks', HookAttempts)
  BY <1>3 DEF HooksInv
<1>10. Tokens'
  <2>1. ASSUME NEW m \in Senders, sender'[m] # None
        PROVE  IF sender'[m].token = None THEN sender'[m].stage \in {"sending", "answered"}
               ELSE NotNewer(sender'[m].token, hooks'[sender'[m].id])
    BY <1>3, <1>5, <1>6, <2>1 DEF HooksInv, Tokens
  <2> QED
    BY <2>1 DEF Tokens
<1>11. ASSUME NEW c \in Deliveries, InAttempt(c) PROVE InAttempt(c)'
  BY <1>3, <1>5, <1>6, <1>11 DEF InAttempt, Q!Holds
<1>12. \A c \in Deliveries : SentDirectly(c) => SentDirectly(c)'
  BY <1>2, <1>6 DEF SentDirectly
<1>13. SentDirectly(d)'
  BY <1>5, <1>6 DEF SentDirectly
<1>14. \A c \in Deliveries : dispatch[x] # None /\ dispatch[x].current = c => SentDirectly(c)'
  BY <1>1, <1>13
<1>15. \A c \in lost \cup ignored : c \in lost' \cup ignored' \/ SentDirectly(c)'
  BY <1>3, <1>13
<1> QED
  BY <1>3, <1>4, <1>7, <1>8, <1>9, <1>10, <1>11, <1>12, <1>14, <1>15, DispatchWritten
     DEF HookTypes

-----------------------------------------------------------------------------
(* Attempts.                                                               *)

(* What an attempt n of d does: its own row, the status of d, and notes. *)
LEMMA AttemptWritten ==
  ASSUME HooksInv, NEW n \in Senders, NEW d \in Deliveries, sender[n] # None, sender[n].id = d,
         NEW s \in Sendings \cup {None}, sender' = [sender EXCEPT ![n] = s],
         s # None => s.id = d /\ s.token = sender[n].token
                     /\ (s.token = None => s.stage \in {"sending", "answered"}),
         NEW r \in DeliveryRows, delivery' = [delivery EXCEPT ![d] = r],
         lost' \subseteq Deliveries, ignored' \subseteq Deliveries,
         \A c \in Deliveries \ {d} : c \in lost \cup ignored => c \in lost' \cup ignored',
         r.status # "PENDING" \/ d \in lost' \cup ignored'
           \/ /\ r.status = delivery[d].status /\ lost \subseteq lost' /\ ignored \subseteq ignored'
              /\ s # None /\ (sender[n].stage \in {"sending", "answered"} =>
                                 s.stage \in {"sending", "answered"}),
         hooks' = hooks, OnlySender
  PROVE  HooksInv'
<1> s \notin {None} => s \in Sendings
  OBVIOUS
<1> r # None
  BY NoHookAssumption
<1>1. HookTypes'
  BY DEF HooksInv, HookTypes, OnlySender
<1>2. \A c \in Deliveries : /\ delivery[c] # None => delivery'[c] # None
                            /\ c # d => delivery'[c] = delivery[c]
  BY DEF HooksInv, HookTypes
<1>3. delivery'[d] = r /\ sender'[n] = s /\ \A m \in Senders : m # n => sender'[m] = sender[m]
  BY DEF HooksInv, HookTypes
<1>4. RowsFound'
  <2>1. ASSUME NEW m \in Senders, sender'[m] # None PROVE delivery'[sender'[m].id] # None
    BY <1>2, <1>3, <2>1, SendingFields DEF HooksInv, RowsFound
  <2>2. ASSUME NEW x \in Dispatchers, dispatch[x] # None, dispatch[x].current # None
        PROVE  delivery'[dispatch[x].current] # None
    BY <1>2, <2>2, DispatchFields DEF HooksInv, RowsFound
  <2>3. \A c \in Deliveries : hooks'[c].state # "absent" => delivery'[c] # None
    BY <1>2 DEF HooksInv, RowsFound
  <2> QED
    BY <2>1, <2>2, <2>3 DEF RowsFound, OnlySender
<1>5. QueueTyped(hooks', HookAttempts)
  BY DEF HooksInv
<1>6. Tokens'
  <2>1. ASSUME NEW m \in Senders, sender'[m] # None
        PROVE  IF sender'[m].token = None THEN sender'[m].stage \in {"sending", "answered"}
               ELSE NotNewer(sender'[m].token, hooks'[sender'[m].id])
    BY <1>3, <2>1 DEF HooksInv, Tokens
  <2> QED
    BY <2>1 DEF Tokens
<1>7. ASSUME NEW c \in Deliveries, delivery'[c] # None, delivery'[c].status = "PENDING"
      PROVE  AtWork(c)'
  <2>1. CASE c = d
    <3>1. CASE d \in lost' \cup ignored'
      BY <2>1, <3>1 DEF AtWork
    <3>2. CASE d \notin lost' \cup ignored'
      <4>1. /\ r.status = delivery[d].status /\ lost \subseteq lost' /\ ignored \subseteq ignored'
            /\ s # None /\ (sender[n].stage \in {"sending", "answered"} =>
                                 s.stage \in {"sending", "answered"})
        BY <1>3, <1>7, <2>1, <3>2
      <4>2. AtWork(d)
        BY <1>3, <1>7, <2>1, <4>1, SendingFields DEF HooksInv, PendingAtWork, RowsFound
      <4>3. BeingQueued(d) => BeingQueued(d)'
        BY DEF BeingQueued, OnlySender
      <4>4. SentDirectly(d) => SentDirectly(d)'
        BY <1>3, <4>1 DEF SentDirectly
      <4>5. InAttempt(d) => InAttempt(d)'
        BY <1>3, <4>1 DEF InAttempt, Q!Holds
      <4> QED
        BY <2>1, <3>2, <4>1, <4>2, <4>3, <4>4, <4>5 DEF AtWork
    <3> QED
      BY <3>1, <3>2
  <2>2. CASE c # d
    <3>1. AtWork(c)
      BY <1>2, <1>7, <2>2 DEF HooksInv, PendingAtWork
    <3>2. BeingQueued(c) => BeingQueued(c)'
      BY DEF BeingQueued, OnlySender
    <3>3. SentDirectly(c) => SentDirectly(c)'
      BY <1>3, <2>2 DEF SentDirectly
    <3>4. InAttempt(c) => InAttempt(c)'
      <4>1. \A m \in Senders : sender'[m] # None /\ sender'[m].id = c => sender'[m] = sender[m]
        BY <1>3, <2>2
      <4> QED
        BY <4>1 DEF InAttempt, Q!Holds
    <3> QED
      BY <2>2, <3>1, <3>2, <3>3, <3>4 DEF AtWork
  <2> QED
    BY <2>1, <2>2
<1> QED
  BY <1>1, <1>4, <1>5, <1>6, <1>7 DEF HooksInv, PendingAtWork

LEMMA EndedRow ==
  ASSUME HooksInv, NEW n \in Senders, sender[n] # None, NEW thrown \in BOOLEAN, Ended(n, thrown)
  PROVE  \E s \in Sendings \cup {None} :
            /\ sender' = [sender EXCEPT ![n] = s]
            /\ s # None => s.id = sender[n].id /\ s.token = sender[n].token /\ s.token # None
<1>1. sender[n] \in Sendings
  BY SendingFields
<1>2. CASE sender[n].token = None
  BY <1>2 DEF Ended
<1>3. CASE sender[n].token # None
  <2>1. PICK stage \in {"thrown", "returned"} :
           sender' = [sender EXCEPT ![n] = [sender[n] EXCEPT !.stage = stage]]
    BY <1>3 DEF Ended
  <2>2. /\ [sender[n] EXCEPT !.stage = stage] \in Sendings
        /\ [sender[n] EXCEPT !.stage = stage].id = sender[n].id
        /\ [sender[n] EXCEPT !.stage = stage].token = sender[n].token
    BY <1>1 DEF Sendings
  <2> QED
    BY <1>3, <2>1, <2>2
<1> QED
  BY <1>2, <1>3

LEMMA StatusWritten ==
  ASSUME HooksInv, NEW d \in Deliveries, delivery[d] \in DeliveryRows,
         NEW status \in {"PENDING", "SUCCESS", "FAILED"}, WriteOutcome(d, status)
  PROVE  \E r \in DeliveryRows :
            delivery' = [delivery EXCEPT ![d] = r] /\ r.status = status
<1>1. /\ [delivery[d] EXCEPT !.status = status] \in DeliveryRows
      /\ [delivery[d] EXCEPT !.status = status].status = status
  BY DEF DeliveryRows
<1> QED
  BY <1>1 DEF WriteOutcome

LEMMA SameDelivery ==
  ASSUME HooksInv, NEW d \in Deliveries, delivery[d] \in DeliveryRows, delivery' = delivery
  PROVE  \E r \in DeliveryRows :
            delivery' = [delivery EXCEPT ![d] = r] /\ r.status = delivery[d].status
BY DEF HooksInv, HookTypes

LEMMA SendKeeps ==
  ASSUME HooksInv, NEW n \in Senders, NEW b \in BOOLEAN, Send(n, b)
  PROVE  HooksInv'
<1>1. PICK d \in Deliveries : d = sender[n].id
  BY SendingFields DEF Send
<1>2. sender[n] \in Sendings /\ delivery[d] \in DeliveryRows /\ sender[n] # None
  BY <1>1, SendingFields DEF Send
<1>3. PICK s \in Sendings :
         /\ sender' = [sender EXCEPT ![n] = s]
         /\ s.id = d /\ s.token = sender[n].token /\ s.stage = "answered"
  <2>1. sender' = [sender EXCEPT ![n] = [sender[n] EXCEPT !.stage = "answered", !.ok = b]]
    BY DEF Send
  <2>2. [sender[n] EXCEPT !.stage = "answered", !.ok = b] \in Sendings
    BY <1>2 DEF Sendings
  <2>3. /\ [sender[n] EXCEPT !.stage = "answered", !.ok = b].id = sender[n].id
        /\ [sender[n] EXCEPT !.stage = "answered", !.ok = b].token = sender[n].token
        /\ [sender[n] EXCEPT !.stage = "answered", !.ok = b].stage = "answered"
    BY <1>2 DEF Sendings
  <2> QED
    BY <1>1, <2>1, <2>2, <2>3
<1>4. PICK r \in DeliveryRows :
         delivery' = [delivery EXCEPT ![d] = r] /\ r.status = delivery[d].status
  BY <1>2, SameDelivery DEF Send
<1>5. /\ lost' = lost /\ ignored' = ignored /\ hooks' = hooks /\ OnlySender
      /\ lost \subseteq Deliveries /\ ignored \subseteq Deliveries /\ s # None
  BY <1>2, NoHookAssumption DEF Send, HooksInv, HookTypes
<1>6. /\ lost' \subseteq Deliveries /\ ignored' \subseteq Deliveries
      /\ lost \subseteq lost' /\ ignored \subseteq ignored'
      /\ \A c \in Deliveries \ {d} : c \in lost \cup ignored => c \in lost' \cup ignored'
  BY <1>5
<1>7. s.id = d /\ s.token = sender[n].token /\ s.stage \in {"sending", "answered"}
  BY <1>3
<1> QED
  BY <1>1, <1>2, <1>3, <1>4, <1>5, <1>6, <1>7, AttemptWritten

LEMMA UndecryptableKeeps ==
  ASSUME HooksInv, NEW n \in Senders, NEW b \in BOOLEAN, Undecryptable(n, b)
  PROVE  HooksInv'
<1>1. PICK d \in Deliveries : d = sender[n].id
  BY SendingFields DEF Undecryptable
<1>2. delivery[d] \in DeliveryRows /\ sender[n] # None
  BY <1>1, SendingFields DEF Undecryptable
<1>3. PICK s \in Sendings \cup {None} :
         /\ sender' = [sender EXCEPT ![n] = s]
         /\ s # None => s.id = d /\ s.token = sender[n].token /\ s.token # None
  BY <1>1, <1>2, EndedRow DEF Undecryptable
<1>4. hooks' = hooks /\ OnlySender /\ lost \subseteq Deliveries /\ ignored \subseteq Deliveries
  BY DEF Undecryptable, Ended, HooksInv, HookTypes
<1>5. CASE b
  <2>1. WriteOutcome(d, "FAILED")
    BY <1>1, <1>5 DEF Undecryptable
  <2>2. PICK r \in DeliveryRows : delivery' = [delivery EXCEPT ![d] = r] /\ r.status = "FAILED"
    BY <1>2, <2>1, StatusWritten
  <2>3. lost' = lost \ {d} /\ ignored' = ignored \ {d}
    BY <2>1 DEF WriteOutcome
  <2> QED
    BY <1>1, <1>2, <1>3, <1>4, <2>2, <2>3, AttemptWritten
<1>6. CASE ~b
  <2>1. lost' = lost \cup {d} /\ ignored' = ignored /\ delivery' = delivery
    BY <1>1, <1>6 DEF Undecryptable
  <2>2. PICK r \in DeliveryRows : delivery' = [delivery EXCEPT ![d] = r]
    BY <1>2, <2>1, SameDelivery
  <2>3. /\ d \in lost' \cup ignored'
        /\ lost' \subseteq Deliveries /\ ignored' \subseteq Deliveries
        /\ \A c \in Deliveries \ {d} : c \in lost \cup ignored => c \in lost' \cup ignored'
    BY <1>4, <2>1
  <2> QED
    BY <1>1, <1>2, <1>3, <1>4, <2>2, <2>3, AttemptWritten
<1> QED
  BY <1>5, <1>6

LEMMA RecordKeeps ==
  ASSUME HooksInv, NEW n \in Senders, NEW o \in {"SUCCESS", "FAILED"}, Record(n, o)
  PROVE  HooksInv'
<1>1. PICK d \in Deliveries : d = sender[n].id
  BY SendingFields DEF Record
<1>2. delivery[d] \in DeliveryRows /\ sender[n] # None
  BY <1>1, SendingFields DEF Record
<1>3. PICK s \in Sendings \cup {None} :
         /\ sender' = [sender EXCEPT ![n] = s]
         /\ s # None => s.id = d /\ s.token = sender[n].token /\ s.token # None
  <2>1. Ended(n, o = "FAILED") /\ (o = "FAILED") \in BOOLEAN
    BY DEF Record
  <2> QED
    BY <1>1, <1>2, <2>1, EndedRow
<1>4. hooks' = hooks /\ OnlySender /\ lost \subseteq Deliveries /\ ignored \subseteq Deliveries
  BY DEF Record, Ended, HooksInv, HookTypes
<1>5. WriteOutcome(d, o)
  BY <1>1 DEF Record
<1>6. PICK r \in DeliveryRows : delivery' = [delivery EXCEPT ![d] = r] /\ r.status = o
  BY <1>2, <1>5, StatusWritten
<1>7. lost' = lost \ {d} /\ ignored' = ignored \ {d}
  BY <1>5 DEF WriteOutcome
<1> QED
  BY <1>1, <1>2, <1>3, <1>4, <1>6, <1>7, AttemptWritten

LEMMA RecordNothingKeeps ==
  ASSUME HooksInv, NEW n \in Senders, RecordNothing(n)
  PROVE  HooksInv'
<1>1. PICK d \in Deliveries : d = sender[n].id
  BY SendingFields DEF RecordNothing
<1>2. delivery[d] \in DeliveryRows /\ sender[n] # None
  BY <1>1, SendingFields DEF RecordNothing
<1>3. PICK s \in Sendings \cup {None} :
         /\ sender' = [sender EXCEPT ![n] = s]
         /\ s # None => s.id = d /\ s.token = sender[n].token /\ s.token # None
  BY <1>1, <1>2, EndedRow DEF RecordNothing
<1>4. hooks' = hooks /\ OnlySender /\ lost \subseteq Deliveries /\ ignored \subseteq Deliveries
  BY DEF RecordNothing, Ended, HooksInv, HookTypes
<1>5. lost' = lost \cup {d} /\ ignored' = ignored /\ delivery' = delivery
  BY <1>1 DEF RecordNothing
<1>6. PICK r \in DeliveryRows : delivery' = [delivery EXCEPT ![d] = r]
  BY <1>2, <1>5, SameDelivery
<1>7. /\ d \in lost' \cup ignored'
      /\ lost' \subseteq Deliveries /\ ignored' \subseteq Deliveries
      /\ \A c \in Deliveries \ {d} : c \in lost \cup ignored => c \in lost' \cup ignored'
  BY <1>4, <1>5
<1> QED
  BY <1>1, <1>2, <1>3, <1>4, <1>6, <1>7, AttemptWritten

-----------------------------------------------------------------------------
(* The queue.                                                              *)

(* The senders after a step that writes the job of d as q: as before, or
   with a token that is no newer than q. *)
SendersAfter(d, q, after) ==
  /\ after \in [Senders -> Sendings \cup {None}]
  /\ \A m \in Senders : after[m] # None =>
        \/ /\ after[m] = sender[m]
           /\ sender[m].id = d /\ sender[m].token # None => NotNewer(sender[m].token, q)
        \/ /\ after[m].id = d /\ after[m].token # None /\ NotNewer(after[m].token, q)
           /\ sender[m] = None
  /\ \A m \in Senders : sender[m] # None /\ sender[m].token = None => after[m] = sender[m]

LEMMA JobWritten ==
  ASSUME HooksInv, NEW d \in Deliveries, NEW q \in Q!JobRows, hooks' = [hooks EXCEPT ![d] = q],
         delivery[d] # None,
         q.state \in {"waiting", "active"} => q.made < HookAttempts /\ q.stalls < 2,
         SendersAfter(d, q, sender'),
         q.state = "waiting" \/ InAttempt(d)' \/ d \in lost'
           \/ (hooks[d].state # "waiting" /\ ~InAttempt(d)),
         lost \subseteq lost', lost' \subseteq Deliveries, ignored' = ignored,
         delivery' = delivery, OnlySender
  PROVE  HooksInv'
<1> q # None
  BY NoHookAssumption
<1>1. HookTypes'
  BY DEF HooksInv, HookTypes, OnlySender, SendersAfter
<1>2. hooks'[d] = q /\ \A c \in Deliveries : c # d => hooks'[c] = hooks[c]
  BY DEF HooksInv, HookTypes
<1>3. RowsFound'
  <2>1. \A c \in Deliveries : hooks'[c].state # "absent" => delivery'[c] # None
    BY <1>2 DEF HooksInv, RowsFound
  <2>2. ASSUME NEW m \in Senders, sender'[m] # None PROVE delivery'[sender'[m].id] # None
    BY <2>2 DEF HooksInv, RowsFound, SendersAfter
  <2>3. \A x \in Dispatchers : dispatch'[x] # None /\ dispatch'[x].current # None =>
           delivery'[dispatch'[x].current] # None
    BY DEF HooksInv, RowsFound, OnlySender
  <2> QED
    BY <2>1, <2>2, <2>3 DEF RowsFound
<1>4. QueueTyped(hooks', HookAttempts)
  <2>1. DOMAIN hooks' = Deliveries /\ DOMAIN hooks = Deliveries
    BY DEF HooksInv, HookTypes
  <2> QED
    BY <1>2, <2>1 DEF HooksInv, QueueTyped
<1>5. Tokens'
  <2>1. ASSUME NEW m \in Senders, sender'[m] # None
        PROVE  IF sender'[m].token = None THEN sender'[m].stage \in {"sending", "answered"}
               ELSE NotNewer(sender'[m].token, hooks'[sender'[m].id])
    <3>1. CASE sender'[m] = sender[m] /\ (sender[m].id = d /\ sender[m].token # None
                                             => NotNewer(sender[m].token, q))
      <4>1. sender[m].id \in Deliveries
        BY <2>1, <3>1, SendingFields
      <4> QED
        BY <1>2, <2>1, <3>1, <4>1 DEF HooksInv, Tokens
    <3>2. CASE sender'[m].id = d /\ sender'[m].token # None /\ NotNewer(sender'[m].token, q)
      BY <1>2, <3>2
    <3> QED
      BY <2>1, <3>1, <3>2 DEF SendersAfter
  <2> QED
    BY <2>1 DEF Tokens
<1>6. ASSUME NEW c \in Deliveries, AtWork(c) PROVE AtWork(c)'
  <2>1. BeingQueued(c) => BeingQueued(c)'
    BY DEF BeingQueued, OnlySender
  <2>2. SentDirectly(c) => SentDirectly(c)'
    BY DEF SentDirectly, SendersAfter
  <2>3. CASE c = d
    BY <1>2, <1>6, <2>1, <2>2, <2>3 DEF AtWork
  <2>4. CASE c # d
    <3>1. \A m \in Senders : sender'[m] # None /\ sender'[m].id = c => sender'[m] = sender[m]
      BY <2>4 DEF SendersAfter
    <3>2. InAttempt(c) => InAttempt(c)'
      BY <1>2, <2>4, <3>1 DEF InAttempt, Q!Holds
    <3> QED
      BY <1>2, <1>6, <2>1, <2>2, <2>4, <3>2 DEF AtWork
  <2> QED
    BY <2>3, <2>4
<1>7. PendingAtWork'
  BY <1>6 DEF HooksInv, PendingAtWork
<1> QED
  BY <1>1, <1>3, <1>4, <1>5, <1>7 DEF HooksInv

LEMMA TakeJobKeeps ==
  ASSUME HooksInv, NEW n \in Senders, NEW d \in Deliveries, TakeJob(n, d)
  PROVE  HooksInv'
<1>1. hooks[d] \in Q!JobRows /\ hooks[d].state = "waiting" /\ sender[n] = None
  BY DEF HooksInv, HookTypes, TakeJob, Q!Start
<1>2. PICK q \in Q!JobRows :
         /\ hooks' = [hooks EXCEPT ![d] = q] /\ q.state = "active"
         /\ q.made = hooks[d].made /\ q.stalls = hooks[d].stalls
  <2>1. hooks' = [hooks EXCEPT ![d] = [hooks[d] EXCEPT !.state = "active"]]
    BY DEF TakeJob, Q!Start
  <2>2. /\ [hooks[d] EXCEPT !.state = "active"] \in Q!JobRows
        /\ [hooks[d] EXCEPT !.state = "active"].state = "active"
        /\ [hooks[d] EXCEPT !.state = "active"].made = hooks[d].made
        /\ [hooks[d] EXCEPT !.state = "active"].stalls = hooks[d].stalls
    BY <1>1 DEF Q!JobRows, Q!States
  <2> QED
    BY <2>1, <2>2
<1>3. hooks'[d] = q /\ q # None /\ q.made \in Nat /\ q.stalls \in Nat
  BY <1>2, HookRowFields DEF HooksInv, HookTypes
<1>4. PICK s \in Sendings :
         /\ sender' = [sender EXCEPT ![n] = s]
         /\ s.id = d /\ s.token = q /\ s.stage = "sending"
  <2>1. [id |-> d, token |-> q, stage |-> "sending", ok |-> FALSE] \in Sendings
    BY DEF Sendings
  <2> QED
    BY <1>3, <2>1 DEF TakeJob
<1>5. /\ sender'[n] = s /\ \A m \in Senders : m # n => sender'[m] = sender[m]
      /\ sender' \in [Senders -> Sendings \cup {None}]
  BY <1>4 DEF HooksInv, HookTypes
<1>6. NotNewer(q, q)
  BY <1>2, <1>3 DEF NotNewer
<1>7. ASSUME NEW m \in Senders, sender[m] # None, sender[m].id = d, sender[m].token # None
      PROVE  NotNewer(sender[m].token, q) /\ sender[m].token # q
  <2>1. NotNewer(sender[m].token, hooks[d])
    BY <1>7 DEF HooksInv, Tokens
  <2> QED
    BY <1>1, <1>2, <1>3, <2>1 DEF NotNewer
<1>8. SendersAfter(d, q, sender')
  <2>1. ASSUME NEW m \in Senders, sender'[m] # None, m # n
        PROVE  /\ sender'[m] = sender[m]
               /\ sender[m].id = d /\ sender[m].token # None => NotNewer(sender[m].token, q)
    BY <1>5, <1>7, <2>1
  <2>2. sender'[n].id = d /\ sender'[n].token # None /\ NotNewer(sender'[n].token, q)
    BY <1>3, <1>4, <1>5, <1>6
  <2> QED
    BY <1>1, <1>5, <2>1, <2>2 DEF SendersAfter
<1>9. InAttempt(d)'
  BY <1>2, <1>3, <1>4, <1>5, <1>7, NoHookAssumption DEF InAttempt, Q!Holds
<1>10. delivery[d] # None
  BY <1>1 DEF HooksInv, RowsFound
<1>11. q.made < HookAttempts /\ q.stalls < 2
  BY <1>1, <1>2 DEF HooksInv, HookTypes, QueueTyped
<1>12. /\ delivery' = delivery /\ lost' = lost /\ lost' \subseteq Deliveries
       /\ ignored' = ignored /\ OnlySender
  BY DEF TakeJob, HooksInv, HookTypes
<1> QED
  BY <1>2, <1>8, <1>9, <1>10, <1>11, <1>12, JobWritten

LEMMA FinishedRow ==
  ASSUME HooksInv, NEW d \in Deliveries, NEW token, NEW thrown \in BOOLEAN,
         Q!Finish(d, token, thrown), Q!Holds(d, token)
  PROVE  \E q \in Q!JobRows :
            /\ hooks' = [hooks EXCEPT ![d] = q]
            /\ q.state \in {"completed", "waiting", "failed"}
            /\ q.made = hooks[d].made + 1 /\ q.stalls = hooks[d].stalls
            /\ q.state = "waiting" => q.made < HookAttempts /\ q.stalls < 2
<1>1. hooks[d] \in Q!JobRows /\ hooks[d].state = "active"
  BY DEF HooksInv, HookTypes, Q!Holds
<1>2. hooks[d].made < HookAttempts /\ hooks[d].stalls < 2
  BY <1>1 DEF HooksInv, HookTypes, QueueTyped
<1>3. PICK g \in {"completed", "waiting", "failed"} :
         /\ hooks' = [hooks EXCEPT ![d] = [hooks[d] EXCEPT !.made = hooks[d].made + 1, !.state = g]]
         /\ g = "waiting" => hooks[d].made + 1 < HookAttempts
  <2>1. hooks' = [hooks EXCEPT ![d] =
                    [hooks[d] EXCEPT !.made = hooks[d].made + 1,
                                     !.state = IF ~thrown THEN "completed"
                                          ELSE IF Q!Again(hooks[d].made)
                                          THEN "waiting" ELSE "failed"]]
    BY DEF Q!Finish
  <2> QED
    BY <2>1 DEF Q!Again
<1>4. hooks[d].made + 1 \in 0 .. HookAttempts
  BY <1>1, <1>2, HookRowFields, HookLimitsAssumption
<1>5. PICK k \in 0 .. HookAttempts : k = hooks[d].made + 1
  BY <1>4
<1>6. /\ [hooks[d] EXCEPT !.made = k, !.state = g] \in Q!JobRows
      /\ [hooks[d] EXCEPT !.made = k, !.state = g].state = g
      /\ [hooks[d] EXCEPT !.made = k, !.state = g].made = k
      /\ [hooks[d] EXCEPT !.made = k, !.state = g].stalls = hooks[d].stalls
  BY <1>1 DEF Q!JobRows, Q!States
<1> QED
  BY <1>2, <1>3, <1>5, <1>6

LEMMA OneSenderLess ==
  ASSUME HooksInv, NEW n \in Senders, sender' = [sender EXCEPT ![n] = None]
  PROVE  /\ sender'[n] = None /\ \A m \in Senders : m # n => sender'[m] = sender[m]
         /\ sender' \in [Senders -> Sendings \cup {None}]
BY DEF HooksInv, HookTypes

LEMMA AcknowledgeKeeps ==
  ASSUME HooksInv, NEW n \in Senders, Acknowledge(n)
  PROVE  HooksInv'
<1>1. PICK d \in Deliveries : d = sender[n].id
  BY SendingFields DEF Acknowledge
<1>2. PICK t \in Q!JobRows : t = sender[n].token
  BY SendingFields DEF Acknowledge, HooksInv, Tokens
<1>3. /\ sender[n] # None /\ sender[n].stage \in {"returned", "thrown"}
      /\ Q!Finish(d, t, sender[n].stage = "thrown")
      /\ sender' = [sender EXCEPT ![n] = None]
      /\ delivery' = delivery /\ lost' = lost /\ ignored' = ignored /\ OnlySender
      /\ lost \subseteq Deliveries
  BY <1>1, <1>2 DEF Acknowledge, HooksInv, HookTypes
<1>4. delivery[d] # None /\ hooks[d] \in Q!JobRows /\ t # None
  BY <1>1, <1>3, NoHookAssumption DEF HooksInv, RowsFound, HookTypes
<1>5. /\ sender'[n] = None /\ \A m \in Senders : m # n => sender'[m] = sender[m]
      /\ sender' \in [Senders -> Sendings \cup {None}]
  BY <1>3, OneSenderLess
<1>6. CASE ~Q!Holds(d, t)
  <2>1. PICK q \in Q!JobRows : q = hooks[d] /\ hooks' = [hooks EXCEPT ![d] = q]
    BY <1>3, <1>4, <1>6 DEF Q!Finish, HooksInv, HookTypes
  <2>2. q.state \in {"waiting", "active"} => q.made < HookAttempts /\ q.stalls < 2
    BY <2>1 DEF HooksInv, HookTypes, QueueTyped
  <2>3. SendersAfter(d, q, sender')
    <3>1. ASSUME NEW m \in Senders, sender'[m] # None
          PROVE  /\ sender'[m] = sender[m]
                 /\ sender[m].id = d /\ sender[m].token # None => NotNewer(sender[m].token, q)
      BY <1>5, <2>1, <3>1 DEF HooksInv, Tokens
    <3>2. ASSUME NEW m \in Senders, sender[m] # None, sender[m].token = None
          PROVE  sender'[m] = sender[m]
      BY <1>2, <1>4, <1>5, <3>2
    <3> QED
      BY <1>5, <3>1, <3>2 DEF SendersAfter
  <2>4. InAttempt(d) => InAttempt(d)'
    BY <1>5, <2>1 DEF InAttempt, Q!Holds, HooksInv, HookTypes
  <2>5. q.state = "waiting" \/ InAttempt(d)' \/ (hooks[d].state # "waiting" /\ ~InAttempt(d))
    BY <2>1, <2>4
  <2> QED
    BY <1>3, <1>4, <2>1, <2>2, <2>3, <2>5, JobWritten
<1>7. CASE Q!Holds(d, t)
  <2>1. PICK q \in Q!JobRows :
            /\ hooks' = [hooks EXCEPT ![d] = q]
            /\ q.state \in {"completed", "waiting", "failed"}
            /\ q.made = hooks[d].made + 1 /\ q.stalls = hooks[d].stalls
            /\ q.state = "waiting" => q.made < HookAttempts /\ q.stalls < 2
    <3>1. (sender[n].stage = "thrown") \in BOOLEAN
      OBVIOUS
    <3> QED
      BY <1>3, <1>7, <3>1, FinishedRow
  <2>2. hooks[d].made \in Nat /\ hooks[d].stalls \in Nat /\ q.made \in Nat
    BY <1>4, <2>1, HookRowFields
  <2>3. SendersAfter(d, q, sender')
    <3>1. ASSUME NEW m \in Senders, sender[m] # None, sender[m].id = d, sender[m].token # None
          PROVE  NotNewer(sender[m].token, q)
      <4>1. NotNewer(sender[m].token, hooks[d])
        BY <3>1 DEF HooksInv, Tokens
      <4>2. sender[m].token.made \in Nat /\ sender[m].token.stalls \in Nat
        BY <3>1, SendingFields, HookRowFields
      <4> QED
        BY <2>1, <2>2, <4>1, <4>2 DEF NotNewer
    <3>2. ASSUME NEW m \in Senders, sender'[m] # None
          PROVE  /\ sender'[m] = sender[m]
                 /\ sender[m].id = d /\ sender[m].token # None => NotNewer(sender[m].token, q)
      BY <1>5, <3>1, <3>2
    <3>3. ASSUME NEW m \in Senders, sender[m] # None, sender[m].token = None
          PROVE  sender'[m] = sender[m]
      BY <1>2, <1>4, <1>5, <3>3
    <3> QED
      BY <1>5, <3>2, <3>3 DEF SendersAfter
  <2>4. hooks[d].state # "waiting" /\ ~InAttempt(d)
    BY <1>1, <1>2, <1>3, <1>7 DEF InAttempt, Q!Holds
  <2>5. q.state \in {"waiting", "active"} => q.made < HookAttempts /\ q.stalls < 2
    BY <2>1
  <2> QED
    BY <1>3, <1>4, <2>1, <2>3, <2>4, <2>5, JobWritten
<1> QED
  BY <1>6, <1>7

LEMMA ForgetKeeps ==
  ASSUME HooksInv, NEW d \in Deliveries, QueueStep(d), Q!Forget(d),
         \A n \in Senders : sender[n] # None => sender[n].id # d
  PROVE  HooksInv'
<1>1. Q!Fresh("absent") \in Q!JobRows /\ Q!Fresh("absent").state = "absent"
  BY HookLimitsAssumption DEF Q!Fresh, Q!JobRows, Q!States
<1>2. PICK q \in Q!JobRows : hooks' = [hooks EXCEPT ![d] = q] /\ q.state = "absent"
  BY <1>1 DEF Q!Forget
<1>3. hooks[d].state \in {"completed", "failed"} /\ delivery[d] # None
  BY DEF Q!Forget, HooksInv, RowsFound
<1>4. SendersAfter(d, q, sender')
  BY DEF SendersAfter, QueueStep, HooksInv, HookTypes
<1>5. lost' = lost /\ lost \subseteq Deliveries
  BY <1>2 DEF QueueStep, HooksInv, HookTypes
<1>6. delivery' = delivery /\ ignored' = ignored /\ OnlySender
  BY DEF QueueStep
<1>7. hooks[d].state # "waiting" /\ ~InAttempt(d)
  BY <1>3 DEF InAttempt
<1> QED
  BY <1>2, <1>3, <1>4, <1>5, <1>6, <1>7, JobWritten

LEMMA StallKeeps ==
  ASSUME HooksInv, NEW d \in Deliveries, QueueStep(d), Q!Stall(d)
  PROVE  HooksInv'
<1>1. hooks[d] \in Q!JobRows /\ hooks[d].state = "active"
  BY DEF HooksInv, HookTypes, Q!Stall
<1>2. hooks[d].made < HookAttempts /\ hooks[d].stalls < 2
  BY <1>1 DEF HooksInv, HookTypes, QueueTyped
<1>3. hooks[d].made \in Nat /\ hooks[d].stalls \in Nat
  BY <1>1, HookRowFields
<1>4. PICK k \in 0 .. 2 : k = hooks[d].stalls + 1
  BY <1>2, <1>3
<1>5. PICK q \in Q!JobRows :
         /\ hooks' = [hooks EXCEPT ![d] = q] /\ q.state \in {"waiting", "failed"}
         /\ q.made = hooks[d].made /\ q.stalls = k
         /\ q.state = "waiting" => hooks[d].stalls = 0
  <2>1. PICK g \in {"waiting", "failed"} :
          /\ hooks' = [hooks EXCEPT ![d] = [hooks[d] EXCEPT !.stalls = k, !.state = g]]
          /\ g = "waiting" => hooks[d].stalls = 0
    <3>1. hooks' = [hooks EXCEPT ![d] =
                      [hooks[d] EXCEPT !.stalls = hooks[d].stalls + 1,
                              !.state = IF hooks[d].stalls = 0 THEN "waiting" ELSE "failed"]]
      BY DEF Q!Stall
    <3> QED
      BY <1>4, <3>1
  <2>2. /\ [hooks[d] EXCEPT !.stalls = k, !.state = g] \in Q!JobRows
        /\ [hooks[d] EXCEPT !.stalls = k, !.state = g].state = g
        /\ [hooks[d] EXCEPT !.stalls = k, !.state = g].made = hooks[d].made
        /\ [hooks[d] EXCEPT !.stalls = k, !.state = g].stalls = k
    BY <1>1 DEF Q!JobRows, Q!States
  <2> QED
    BY <2>1, <2>2
<1>6. hooks'[d] = q
  BY <1>5 DEF HooksInv, HookTypes
<1>7. SendersAfter(d, q, sender')
  <2>1. ASSUME NEW m \in Senders, sender[m] # None, sender[m].id = d, sender[m].token # None
        PROVE  NotNewer(sender[m].token, q)
    <3>1. NotNewer(sender[m].token, hooks[d])
      BY <2>1 DEF HooksInv, Tokens
    <3>2. sender[m].token.made \in Nat /\ sender[m].token.stalls \in Nat
      BY <2>1, SendingFields, HookRowFields
    <3> QED
      BY <1>3, <1>4, <1>5, <3>1, <3>2 DEF NotNewer
  <2> QED
    BY <2>1 DEF SendersAfter, QueueStep, HooksInv, HookTypes
<1>8. delivery' = delivery /\ ignored' = ignored /\ OnlySender /\ delivery[d] # None
  BY <1>1 DEF QueueStep, HooksInv, RowsFound
<1>9. /\ lost \subseteq lost' /\ lost' \subseteq Deliveries
      /\ q.state = "waiting" \/ d \in lost'
  BY <1>5, <1>6 DEF QueueStep, HooksInv, HookTypes
<1>10. q.state \in {"waiting", "active"} => q.made < HookAttempts /\ q.stalls < 2
  BY <1>2, <1>4, <1>5
<1> QED
  BY <1>5, <1>7, <1>8, <1>9, <1>10, JobWritten

LEMMA HookCrashKeeps ==
  ASSUME HooksInv, HookCrash
  PROVE  HooksInv'
<1>1. /\ \A x \in Dispatchers : dispatch'[x] = None
      /\ \A n \in Senders : sender'[n] = None
      /\ UNCHANGED <<endpoint, reenabled, delivery, hooks, ignored>>
      /\ lost \subseteq lost' /\ opening' = {}
  BY DEF HookCrash
<1>2. HookTypes'
  BY DEF HookCrash, HooksInv, HookTypes
<1>3. RowsFound' /\ QueueTyped(hooks', HookAttempts) /\ Tokens'
  BY <1>1 DEF HooksInv, RowsFound, Tokens
<1>4. ASSUME NEW d \in Deliveries, AtWork(d) PROVE AtWork(d)'
  <2>1. BeingQueued(d) \/ SentDirectly(d) => d \in lost'
    BY DEF HookCrash, BeingQueued, SentDirectly
  <2>2. InAttempt(d) => InAttempt(d)'
    BY <1>1 DEF InAttempt
  <2> QED
    BY <1>1, <1>4, <2>1, <2>2 DEF AtWork
<1>5. PendingAtWork'
  BY <1>1, <1>4 DEF HooksInv, PendingAtWork
<1> QED
  BY <1>2, <1>3, <1>5 DEF HooksInv

LEMMA SenderStepKeeps ==
  ASSUME HooksInv, SenderStep
  PROVE  HooksInv'
<1>1. ASSUME NEW n \in Senders, NEW d \in Deliveries, TakeJob(n, d) PROVE HooksInv'
  BY <1>1, TakeJobKeeps
<1>2. ASSUME NEW n \in Senders, NEW b \in BOOLEAN, Send(n, b) \/ Undecryptable(n, b)
      PROVE  HooksInv'
  BY <1>2, SendKeeps, UndecryptableKeeps
<1>3. ASSUME NEW n \in Senders, NEW o \in {"SUCCESS", "FAILED"}, Record(n, o) PROVE HooksInv'
  BY <1>3, RecordKeeps
<1>4. ASSUME NEW n \in Senders, RecordNothing(n) \/ Acknowledge(n) PROVE HooksInv'
  BY <1>4, RecordNothingKeeps, AcknowledgeKeeps
<1>5. ASSUME NEW d \in Deliveries, QueueStep(d) PROVE HooksInv'
  BY <1>5, ForgetKeeps, StallKeeps DEF QueueStep
<1> QED
  BY <1>1, <1>2, <1>3, <1>4, <1>5 DEF SenderStep

LEMMA OtherDispatchKeeps ==
  ASSUME HooksInv, OtherDispatch
  PROVE  HooksInv'
<1>1. ASSUME NEW x \in Dispatchers, NEW targets \in SUBSET Endpoints, Dispatch(x, targets)
      PROVE  HooksInv'
  BY <1>1, DispatchKeeps
<1>2. ASSUME NEW x \in Dispatchers, Dispatching(x) PROVE HooksInv'
  BY <1>2, CreateDeliveryKeeps, EnqueueKeeps, EnqueueDirectlyKeeps, DispatchFailsKeeps
     DEF Dispatching
<1>3. ASSUME NEW x \in Dispatchers, RetryOrPing(x) PROVE HooksInv'
  BY <1>3, TestPingKeeps, ResetForRetryKeeps DEF RetryOrPing
<1> QED
  BY <1>1, <1>2, <1>3 DEF OtherDispatch

-----------------------------------------------------------------------------
(* Limits that are counted before they are used.                           *)

LEMMA EndpointSets ==
  ASSUME NEW T \in SUBSET Endpoints
  PROVE  /\ IsFiniteSet(T) /\ Cardinality(T) \in Nat
         /\ \A U \in SUBSET T : Cardinality(U) <= Cardinality(T)
         /\ \A e \in Endpoints : \A U : U \subseteq T \cup {e} => Cardinality(U) <= Cardinality(T) + 1
<1>1. IsFiniteSet(T) /\ Cardinality(T) \in Nat
  BY HookLimitsAssumption, FS_Subset, FS_CardinalityType
<1>2. \A U \in SUBSET T : Cardinality(U) <= Cardinality(T)
  BY <1>1, FS_Subset
<1>3. ASSUME NEW e \in Endpoints, NEW U, U \subseteq T \cup {e}
      PROVE  Cardinality(U) <= Cardinality(T) + 1
  <2>1. IsFiniteSet(T \cup {e}) /\ Cardinality(T \cup {e}) <= Cardinality(T) + 1
    BY <1>1, FS_AddElement
  <2>2. Cardinality(U) <= Cardinality(T \cup {e}) /\ IsFiniteSet(U)
    BY <1>3, <2>1, FS_Subset
  <2>3. Cardinality(U) \in Nat /\ Cardinality(T \cup {e}) \in Nat
    BY <2>1, <2>2, FS_CardinalityType
  <2> QED
    BY <1>1, <2>1, <2>2, <2>3
<1> QED
  BY <1>1, <1>2, <1>3

LEMMA OpenerSets ==
  ASSUME NEW T \in SUBSET Openers
  PROVE  /\ Cardinality(T) \in Nat /\ Cardinality(T) <= Cardinality(Openers)
         /\ Cardinality(Openers) \in Nat /\ Cardinality(Openers) > 0
         /\ \A o \in T : Cardinality(T \ {o}) = Cardinality(T) - 1
<1>1. IsFiniteSet(T) /\ Cardinality(T) \in Nat /\ Cardinality(T) <= Cardinality(Openers)
  BY HookLimitsAssumption, FS_Subset, FS_CardinalityType
<1>2. Cardinality(Openers) \in Nat /\ Cardinality(Openers) # 0
  BY HookLimitsAssumption, FS_EmptySet, FS_CardinalityType
<1>3. \A o \in T : Cardinality(T \ {o}) = Cardinality(T) - 1
  BY <1>1, FS_RemoveElement
<1> QED
  BY <1>1, <1>2, <1>3

LEMMA EndpointsCountedStep ==
  ASSUME HooksInv, EndpointsCounted, EndpointStep
  PROVE  EndpointsCounted'
<1>1. PICK a \in SUBSET Endpoints : a = ActiveEndpoints \ reenabled
  BY DEF ActiveEndpoints
<1>2. PICK b \in SUBSET Endpoints : b = (ActiveEndpoints \ reenabled)'
  BY DEF ActiveEndpoints
<1>3. PICK p \in SUBSET Openers : p = opening
  BY DEF HooksInv, HookTypes
<1>4. Cardinality(a) + Cardinality(p) <= MaxEndpoints + Cardinality(Openers) - 1
  BY <1>1, <1>3 DEF EndpointsCounted
<1>5. /\ Cardinality(a) \in Nat /\ Cardinality(b) \in Nat /\ Cardinality(p) \in Nat
      /\ Cardinality(Openers) \in Nat /\ MaxEndpoints \in Nat
  BY EndpointSets, OpenerSets, HookLimitsAssumption
<1>6. SUFFICES Cardinality(b) + Cardinality(opening') <= MaxEndpoints + Cardinality(Openers) - 1
  BY <1>2 DEF EndpointsCounted
<1>7. ASSUME NEW o \in Openers, CountEndpoints(o)
      PROVE  Cardinality(b) + Cardinality(opening') <= MaxEndpoints + Cardinality(Openers) - 1
  <2>1. b = a
    BY <1>1, <1>2, <1>7 DEF CountEndpoints, ActiveEndpoints
  <2>2. PICK q \in SUBSET Openers : q = opening'
    BY <1>3, <1>7 DEF CountEndpoints
  <2>3. PICK t \in SUBSET Endpoints : t = ActiveEndpoints
    BY DEF ActiveEndpoints
  <2>4. Cardinality(a) <= Cardinality(t) /\ Cardinality(t) \in Nat
    BY <1>1, <2>3, EndpointSets
  <2>5. Cardinality(t) < MaxEndpoints
    BY <1>7, <2>3 DEF CountEndpoints, RoomForEndpoint
  <2>6. Cardinality(q) \in Nat /\ Cardinality(q) <= Cardinality(Openers)
    BY OpenerSets
  <2> QED
    BY <1>5, <2>1, <2>2, <2>4, <2>5, <2>6
<1>8. ASSUME NEW o \in Openers, NEW e \in Endpoints, CreateEndpoint(o, e)
      PROVE  Cardinality(b) + Cardinality(opening') <= MaxEndpoints + Cardinality(Openers) - 1
  <2>1. b \subseteq a \cup {e}
    BY <1>1, <1>2, <1>8 DEF CreateEndpoint, ActiveEndpoints, HooksInv, HookTypes
  <2>2. Cardinality(b) <= Cardinality(a) + 1
    BY <2>1, EndpointSets
  <2>3. Cardinality(opening') = Cardinality(p) - 1
    BY <1>3, <1>8, OpenerSets DEF CreateEndpoint
  <2> QED
    BY <1>4, <1>5, <2>2, <2>3
<1>9. ASSUME b \subseteq a, opening' = opening
      PROVE  Cardinality(b) + Cardinality(opening') <= MaxEndpoints + Cardinality(Openers) - 1
  <2>1. Cardinality(b) <= Cardinality(a)
    BY <1>9, EndpointSets
  <2> QED
    BY <1>3, <1>4, <1>5, <1>9, <2>1
<1>10. ASSUME NEW e \in Endpoints, DeleteEndpoint(e) PROVE b \subseteq a /\ opening' = opening
  BY <1>1, <1>2, <1>10 DEF DeleteEndpoint, ActiveEndpoints, HooksInv, HookTypes
<1>11. ASSUME NEW e \in Endpoints, NEW s \in {"ACTIVE", "DISABLED"}, UpdateEndpoint(e, s)
       PROVE  b \subseteq a /\ opening' = opening
  BY <1>1, <1>2, <1>11 DEF UpdateEndpoint, ActiveEndpoints, HooksInv, HookTypes
<1> QED
  BY <1>7, <1>8, <1>9, <1>10, <1>11 DEF EndpointStep

LEMMA EndpointsCountedStay ==
  ASSUME HooksInv, EndpointsCounted, endpoint' = endpoint, reenabled' = reenabled,
         opening' \in {opening, {}}
  PROVE  EndpointsCounted'
<1>1. PICK p \in SUBSET Openers : p = opening
  BY DEF HooksInv, HookTypes
<1>2. Cardinality(p) \in Nat /\ Cardinality({}) = 0
  BY OpenerSets, FS_EmptySet
<1>3. PICK a \in SUBSET Endpoints : a = ActiveEndpoints \ reenabled /\ a = (ActiveEndpoints \ reenabled)'
  BY DEF ActiveEndpoints
<1>4. Cardinality(a) \in Nat /\ Cardinality(Openers) \in Nat /\ MaxEndpoints \in Nat
  BY EndpointSets, OpenerSets, HookLimitsAssumption
<1>5. Cardinality(opening') <= Cardinality(p)
  BY <1>1, <1>2
<1>6. PICK k \in Nat : k = Cardinality(opening')
  BY <1>1, <1>2
<1>7. Cardinality(a) + Cardinality(p) <= MaxEndpoints + Cardinality(Openers) - 1
  BY <1>1, <1>3 DEF EndpointsCounted
<1>8. Cardinality(a) + k <= MaxEndpoints + Cardinality(Openers) - 1
  BY <1>2, <1>4, <1>5, <1>6, <1>7
<1> QED
  BY <1>3, <1>6, <1>8 DEF EndpointsCounted

LEMMA EndpointsHold ==
  ASSUME HooksInv, EndpointsCounted
  PROVE  EndpointsWithinLimit
<1>1. PICK p \in SUBSET Openers : p = opening
  BY DEF HooksInv, HookTypes
<1>2. PICK a \in SUBSET Endpoints : a = ActiveEndpoints \ reenabled
  BY DEF ActiveEndpoints
<1>3. /\ Cardinality(p) \in Nat /\ Cardinality(a) \in Nat
      /\ Cardinality(Openers) \in Nat /\ MaxEndpoints \in Nat
  BY EndpointSets, OpenerSets, HookLimitsAssumption
<1>4. Cardinality(a) + Cardinality(p) <= MaxEndpoints + Cardinality(Openers) - 1
  BY <1>1, <1>2 DEF EndpointsCounted
<1>5. Cardinality(a) <= MaxEndpoints + Cardinality(Openers) - 1
  BY <1>3, <1>4
<1> QED
  BY <1>2, <1>5 DEF EndpointsWithinLimit
-----------------------------------------------------------------------------
(* Jobs.                                                                   *)

LEMMA HooksStutter ==
  ASSUME HooksInv, UNCHANGED hookVars
  PROVE  HooksInv'
<1>1. /\ endpoint' = endpoint /\ opening' = opening /\ reenabled' = reenabled
      /\ UNCHANGED <<delivery, hooks, dispatch, sender, lost, ignored>>
  BY DEF hookVars
<1>2. /\ endpoint \in [Endpoints -> EndpointStates \cup {None}]
      /\ opening \subseteq Openers /\ reenabled \subseteq Endpoints
  BY DEF HooksInv, HookTypes
<1> QED
  BY <1>1, <1>2, HooksStay

(* What a step of job j does to webhooks. *)
LEMMA JobStepKeepsHooks ==
  ASSUME HooksInv, JobStep
  PROVE  HooksInv'
<1>1. CASE UNCHANGED hookVars
  BY <1>1, HooksStutter
<1>2. CASE HookCrash
  BY <1>2, HookCrashKeeps
<1>3. ASSUME NEW j \in Jobs, NEW targets \in SUBSET Endpoints, Announce(j, targets)
      PROVE  HooksInv'
  BY <1>3, DispatchKeeps, JobsAssumption DEF Announce
<1>4. ASSUME NEW j \in Jobs, Announcing(j) PROVE HooksInv'
  BY <1>4, CreateDeliveryKeeps, EnqueueKeeps, EnqueueDirectlyKeeps, JobsAssumption DEF Announcing
<1>5. ASSUME NEW j \in Jobs, AnnouncingFails(j) PROVE HooksInv'
  BY <1>5, HooksStutter, DispatchFailsKeeps, JobsAssumption DEF AnnouncingFails
<1> QED
  BY <1>1, <1>2, <1>3, <1>4, <1>5
     DEF JobStep, CountJobs, CreateJob, WriteStatus, WriteStatusFails, JobCrash

(* A step of job j writes its status and its executor, and no other's. *)
JobMoves(j, g, k) ==
  /\ job' = [job EXCEPT ![j] = g] /\ executor' = [executor EXCEPT ![j] = k]
  /\ k # None => g \in StatusAt[k]
  /\ \A i \in Jobs : dispatch'[i] # None =>
       IF i = j THEN k \in {"completed", "failed"} ELSE dispatch[i] # None
  /\ k # None \/ j \in lostJobs' \/ g \notin {"PENDING", "PROCESSING"}
  /\ submitting' \subseteq Submitters /\ lostJobs \subseteq lostJobs' /\ lostJobs' \subseteq Jobs

LEMMA JobKeeps ==
  ASSUME JobsInv, NEW j \in Jobs, NEW g \in JobStates,
         NEW k \in {None, "begin", "complete", "completed", "fail", "failed"},
         JobMoves(j, g, k)
  PROVE  JobsInv'
<1> USE DEF JobMoves
<1>1. /\ job'[j] = g /\ executor'[j] = k
      /\ \A i \in Jobs : i # j => job'[i] = job[i] /\ executor'[i] = executor[i]
  BY DEF JobsInv, JobTypes
<1>2. JobTypes'
  BY DEF JobsInv, JobTypes
<1>3. ExecutorTells'
  BY <1>1 DEF JobsInv, ExecutorTells
<1>4. ActiveIsExecuted'
  BY <1>1 DEF JobsInv, ActiveIsExecuted, ActiveJobs
<1> QED
  BY <1>2, <1>3, <1>4 DEF JobsInv

(* Nothing of any job is written. *)
LEMMA JobsStay ==
  ASSUME JobsInv, job' = job, executor' = executor, lostJobs' = lostJobs,
         submitting' \subseteq Submitters,
         \A i \in Jobs : dispatch'[i] # None => dispatch[i] # None
  PROVE  JobsInv'
BY DEF JobsInv, JobTypes, ExecutorTells, ActiveIsExecuted, ActiveJobs

(* The statuses of a job while its executor is at work. *)
LEMMA StatusTold ==
  ASSUME JobsInv, NEW j \in Jobs, executor[j] # None
  PROVE  /\ job[j] \in JobStates
         /\ executor[j] = "begin" => job[j] = "PENDING"
         /\ executor[j] = "complete" => job[j] = "PROCESSING"
         /\ executor[j] = "completed" => job[j] = "COMPLETED"
         /\ executor[j] = "fail" => job[j] \in {"PROCESSING", "COMPLETED"}
         /\ executor[j] = "failed" => job[j] = "FAILED"
<1>1. executor[j] \in {"begin", "complete", "completed", "fail", "failed"}
  BY DEF JobsInv, JobTypes
<1>2. job[j] \in StatusAt[executor[j]]
  BY DEF JobsInv, ExecutorTells
<1> QED
  BY <1>1, <1>2 DEF StatusAt, JobStates

LEMMA StatusSets ==
  /\ StatusAt["begin"] = {"PENDING"} /\ StatusAt["complete"] = {"PROCESSING"}
  /\ StatusAt["completed"] = {"COMPLETED"} /\ StatusAt["fail"] = {"PROCESSING", "COMPLETED"}
  /\ StatusAt["failed"] = {"FAILED"}
BY DEF StatusAt

LEMMA StepsOfJobs ==
  /\ DOMAIN Steps = {"begin", "complete", "fail"}
  /\ Steps["begin"].status = "PROCESSING" /\ Steps["begin"].then = "complete"
  /\ Steps["begin"].catch = None
  /\ Steps["complete"].status = "COMPLETED" /\ Steps["complete"].then = "completed"
  /\ Steps["complete"].catch = "fail"
  /\ Steps["fail"].status = "FAILED" /\ Steps["fail"].then = "failed"
  /\ Steps["fail"].catch = None
BY DEF Steps

LEMMA WriteStatusKeeps ==
  ASSUME JobsInv, NEW j \in Jobs, WriteStatus(j) \/ WriteStatusFails(j)
  PROVE  JobsInv'
<1>1. /\ submitting' = submitting /\ submitting \subseteq Submitters /\ lostJobs \subseteq Jobs
      /\ dispatch' = dispatch /\ job \in [Jobs -> JobStates \cup {None}]
      /\ executor \in [Jobs -> {None, "begin", "complete", "completed", "fail", "failed"}]
  BY DEF WriteStatus, WriteStatusFails, hookVars, JobsInv, JobTypes
<1>2. executor[j] \in {"begin", "complete", "fail"}
  BY DEF WriteStatus, WriteStatusFails, Steps
<1>3. job[j] \in StatusAt[executor[j]] /\ executor[j] # None
  BY <1>2, JobsAssumption DEF JobsInv, ExecutorTells
<1>4. dispatch[j] = None
  BY <1>2 DEF JobsInv, ExecutorTells
<1>5. CASE WriteStatus(j)
  <2>1. PICK g \in JobStates, k \in {"complete", "completed", "failed"} :
           /\ job' = [job EXCEPT ![j] = g] /\ executor' = [executor EXCEPT ![j] = k]
           /\ g \in StatusAt[k] /\ lostJobs' = lostJobs
    <3>1. CASE executor[j] = "begin"
      <4>1. /\ job' = [job EXCEPT ![j] = "PROCESSING"]
            /\ executor' = [executor EXCEPT ![j] = "complete"] /\ lostJobs' = lostJobs
        BY <1>1, <1>5, <3>1, StepsOfJobs DEF WriteStatus
      <4> QED
        BY <4>1, StatusSets DEF JobStates
    <3>2. CASE executor[j] = "complete"
      <4>1. /\ job' = [job EXCEPT ![j] = "COMPLETED"]
            /\ executor' = [executor EXCEPT ![j] = "completed"] /\ lostJobs' = lostJobs
        BY <1>1, <1>5, <3>2, StepsOfJobs DEF WriteStatus
      <4> QED
        BY <4>1, StatusSets DEF JobStates
    <3>3. CASE executor[j] = "fail"
      <4>1. /\ job' = [job EXCEPT ![j] = "FAILED"]
            /\ executor' = [executor EXCEPT ![j] = "failed"] /\ lostJobs' = lostJobs
        BY <1>1, <1>5, <3>3, StepsOfJobs DEF WriteStatus
      <4> QED
        BY <4>1, StatusSets DEF JobStates
    <3> QED
      BY <1>2, <3>1, <3>2, <3>3
  <2>2. k # None /\ \A i \in Jobs : dispatch'[i] # None =>
            IF i = j THEN k \in {"completed", "failed"} ELSE dispatch[i] # None
    BY <1>1, <1>4, <2>1, JobsAssumption
  <2>3. JobMoves(j, g, k)
    BY <1>1, <2>1, <2>2 DEF JobMoves
  <2> QED
    BY <2>3, JobKeeps
<1>6. CASE WriteStatusFails(j)
  <2>1. PICK k \in {None, "fail"} :
           /\ executor' = [executor EXCEPT ![j] = k]
           /\ k # None => executor[j] = "complete"
    <3>1. executor' = [executor EXCEPT ![j] = Steps[executor[j]].catch]
      BY <1>6 DEF WriteStatusFails
    <3> QED
      BY <1>2, <3>1, StepsOfJobs
  <2>2. PICK g \in JobStates : g = job[j] /\ job' = [job EXCEPT ![j] = g]
    <3>1. job[j] \in JobStates
      BY <1>3, StatusTold
    <3> QED
      BY <1>1, <1>6, <3>1 DEF WriteStatusFails
  <2>3. k # None => g \in StatusAt[k]
    BY <1>3, <2>1, <2>2, StatusTold, StatusSets
  <2>4. /\ k # None \/ j \in lostJobs'
        /\ lostJobs \subseteq lostJobs' /\ lostJobs' \subseteq Jobs
    BY <1>1, <1>6, <2>1 DEF WriteStatusFails
  <2>5. \A i \in Jobs : dispatch'[i] # None =>
            IF i = j THEN k \in {"completed", "failed"} ELSE dispatch[i] # None
    BY <1>1, <1>4
  <2>6. JobMoves(j, g, k)
    BY <1>1, <2>1, <2>2, <2>3, <2>4, <2>5 DEF JobMoves
  <2> QED
    BY <2>6, JobKeeps
<1> QED
  BY <1>5, <1>6

LEMMA SameJob ==
  ASSUME JobsInv, NEW j \in Jobs, job' = job
  PROVE  job' = [job EXCEPT ![j] = job[j]]
BY DEF JobsInv, JobTypes

(* The dispatch of a job is written while the job is announced. *)
LEMMA AnnouncingKeepsJobs ==
  ASSUME JobsInv, NEW j \in Jobs, executor[j] \in {"completed", "failed"},
         NEW k \in {None, "fail", executor[j]}, executor' = [executor EXCEPT ![j] = k],
         k = "fail" => executor[j] = "completed" /\ dispatch'[j] = None,
         k = None => dispatch'[j] = None,
         \A i \in Jobs : i # j => dispatch'[i] = dispatch[i],
         job' = [job EXCEPT ![j] = job[j]], UNCHANGED <<submitting, lostJobs>>
  PROVE  JobsInv'
<1>1. submitting' \subseteq Submitters /\ lostJobs \subseteq lostJobs' /\ lostJobs' \subseteq Jobs
  BY DEF JobsInv, JobTypes
<1>2. executor[j] # None
  BY JobsAssumption
<1>3. PICK g \in JobStates : g = job[j] /\ job' = [job EXCEPT ![j] = g]
  BY <1>1, <1>2, StatusTold
<1>4. k # None => g \in StatusAt[k]
  BY <1>2, <1>3, StatusTold, StatusSets
<1>5. g \notin {"PENDING", "PROCESSING"}
  BY <1>2, <1>3, StatusTold
<1>6. \A i \in Jobs : dispatch'[i] # None =>
            IF i = j THEN k \in {"completed", "failed"} ELSE dispatch[i] # None
  OBVIOUS
<1>7. k \in {None, "begin", "complete", "completed", "fail", "failed"}
  OBVIOUS
<1>8. JobMoves(j, g, k)
  BY <1>1, <1>3, <1>4, <1>5, <1>6 DEF JobMoves
<1> QED
  BY <1>7, <1>8, JobKeeps

LEMMA OneDispatch ==
  ASSUME HooksInv, NEW x \in Dispatchers,
         \/ \E targets \in SUBSET Endpoints : Dispatch(x, targets)
         \/ \E d \in Deliveries : CreateDelivery(x, d) \/ ResetForRetry(x, d)
         \/ \E e \in Endpoints : TestPing(x, e)
         \/ Enqueue(x) \/ EnqueueDirectly(x) \/ DispatchFails(x)
  PROVE  \A y \in Dispatchers : y # x => dispatch'[y] = dispatch[y]
<1>1. \E r : dispatch' = [dispatch EXCEPT ![x] = r]
  BY DEF Dispatch, CreateDelivery, ResetForRetry, TestPing, Enqueue, EnqueueDirectly, DispatchFails,
         Dispatched
<1> QED
  BY <1>1 DEF HooksInv, HookTypes

LEMMA AnnounceKeeps ==
  ASSUME HooksInv, JobsInv, NEW j \in Jobs, NEW targets \in SUBSET Endpoints, Announce(j, targets)
  PROVE  JobsInv'
<1>1. \A i \in Jobs : i # j => dispatch'[i] = dispatch[i]
  BY OneDispatch, JobsAssumption DEF Announce
<1>2. j \in Dispatchers
  BY JobsAssumption
<1>3. targets = {} => dispatch'[j] = None
  BY <1>2 DEF Announce, Dispatch, HooksInv, HookTypes
<1>4. PICK k \in {None, executor[j]} :
         executor' = [executor EXCEPT ![j] = k] /\ (k = None => targets = {})
  <2>1. CASE targets = {}
    BY <2>1 DEF Announce
  <2>2. CASE targets # {}
    <3>1. executor' = [executor EXCEPT ![j] = executor[j]]
      BY <2>2 DEF Announce, JobsInv, JobTypes
    <3>2. executor[j] # None
      BY JobsAssumption DEF Announce
    <3> QED
      BY <3>1, <3>2
  <2> QED
    BY <2>1, <2>2
<1>5. /\ executor[j] \in {"completed", "failed"} /\ UNCHANGED <<submitting, lostJobs>>
      /\ job' = [job EXCEPT ![j] = job[j]]
  BY SameJob DEF Announce
<1>6. k # "fail" /\ (k = None => dispatch'[j] = None)
  BY <1>3, <1>4, <1>5, JobsAssumption
<1> QED
  BY <1>1, <1>4, <1>5, <1>6, AnnouncingKeepsJobs

LEMMA AnnouncingKeeps ==
  ASSUME HooksInv, JobsInv, NEW j \in Jobs, Announcing(j)
  PROVE  JobsInv'
<1>1. \A i \in Jobs : i # j => dispatch'[i] = dispatch[i]
  BY OneDispatch, JobsAssumption DEF Announcing
<1>2. executor[j] \in {"completed", "failed"}
  BY DEF Announcing, CreateDelivery, Enqueue, EnqueueDirectly, JobsInv, ExecutorTells
<1>3. executor[j] # None
  BY <1>2, JobsAssumption
<1>4. PICK k \in {None, executor[j]} :
         executor' = [executor EXCEPT ![j] = k] /\ (k = None => dispatch'[j] = None)
  <2>1. CASE dispatch'[j] = None
    BY <2>1 DEF Announcing
  <2>2. CASE dispatch'[j] # None
    <3>1. executor' = [executor EXCEPT ![j] = executor[j]]
      BY <2>2 DEF Announcing, JobsInv, JobTypes
    <3> QED
      BY <1>3, <3>1
  <2> QED
    BY <2>1, <2>2
<1>5. /\ UNCHANGED <<submitting, lostJobs>> /\ k # "fail"
      /\ job' = [job EXCEPT ![j] = job[j]]
  BY <1>2, <1>4, SameJob, JobsAssumption DEF Announcing
<1> QED
  BY <1>1, <1>2, <1>4, <1>5, AnnouncingKeepsJobs

LEMMA AnnouncingFailsKeeps ==
  ASSUME HooksInv, JobsInv, NEW j \in Jobs, AnnouncingFails(j)
  PROVE  JobsInv'
<1>1. \A i \in Jobs : i # j => dispatch'[i] = dispatch[i]
  BY OneDispatch, JobsAssumption DEF AnnouncingFails, hookVars
<1>2. dispatch'[j] = None
  BY JobsAssumption DEF AnnouncingFails, hookVars, DispatchFails, HooksInv, HookTypes
<1>3. PICK k \in {None, "fail"} :
         executor' = [executor EXCEPT ![j] = k] /\ (k = "fail" => executor[j] = "completed")
  <2>1. executor' = [executor EXCEPT ![j] = IF executor[j] = "completed" THEN "fail" ELSE None]
    BY DEF AnnouncingFails
  <2> QED
    BY <2>1, JobsAssumption
<1>4. /\ executor[j] \in {"completed", "failed"} /\ UNCHANGED <<submitting, lostJobs>>
      /\ job' = [job EXCEPT ![j] = job[j]]
  BY SameJob DEF AnnouncingFails
<1> QED
  BY <1>1, <1>2, <1>3, <1>4, AnnouncingKeepsJobs

LEMMA JobStepKeeps ==
  ASSUME HooksInv, JobsInv, JobStep
  PROVE  JobsInv'
<1>1. ASSUME NEW q \in Submitters, CountJobs(q) PROVE JobsInv'
  <2>1. submitting' \subseteq Submitters
    BY <1>1 DEF CountJobs, JobsInv, JobTypes
  <2>2. job' = job /\ executor' = executor /\ lostJobs' = lostJobs /\ dispatch' = dispatch
    BY <1>1 DEF CountJobs, hookVars
  <2> QED
    BY <2>1, <2>2, JobsStay
<1>2. ASSUME NEW q \in Submitters, NEW j \in Jobs, CreateJob(q, j) PROVE JobsInv'
  <2>1. /\ submitting' \subseteq Submitters /\ lostJobs' = lostJobs /\ lostJobs' \subseteq Jobs
        /\ dispatch' = dispatch /\ job[j] = None
        /\ job' = [job EXCEPT ![j] = "PENDING"] /\ executor' = [executor EXCEPT ![j] = "begin"]
    BY <1>2 DEF CreateJob, JobsInv, JobTypes, hookVars
  <2>2. dispatch[j] = None
    <3>1. executor[j] \notin {"completed", "failed"}
      BY <2>1, JobsAssumption DEF JobsInv, ExecutorTells, StatusAt, JobStates
    <3> QED
      BY <3>1 DEF JobsInv, ExecutorTells
  <2>3. \A i \in Jobs : dispatch'[i] # None =>
            IF i = j THEN "begin" \in {"completed", "failed"} ELSE dispatch[i] # None
    BY <2>1, <2>2
  <2>4. /\ "PENDING" \in JobStates /\ "begin" # None /\ "PENDING" \in StatusAt["begin"]
        /\ "begin" \in {None, "begin", "complete", "completed", "fail", "failed"}
    BY JobsAssumption DEF JobStates, StatusAt
  <2>5. PICK g \in JobStates, k \in {None, "begin", "complete", "completed", "fail", "failed"} :
           g = "PENDING" /\ k = "begin"
    BY <2>4
  <2>6. JobMoves(j, g, k)
    BY <2>1, <2>3, <2>4, <2>5 DEF JobMoves
  <2> QED
    BY <2>6, JobKeeps
<1>3. CASE JobCrash
  <2>1. /\ executor' = [j \in Jobs |-> None] /\ job' = job /\ submitting' = {}
        /\ lostJobs' = lostJobs \cup {j \in Jobs : executor[j] # None}
        /\ \A j \in Jobs : dispatch'[j] = None
    BY <1>3, JobsAssumption DEF JobCrash, HookCrash
  <2>2. JobTypes' /\ ExecutorTells'
    BY <2>1 DEF JobsInv, JobTypes, ExecutorTells
  <2>3. ActiveIsExecuted'
    BY <2>1 DEF JobsInv, ActiveIsExecuted, ActiveJobs
  <2> QED
    BY <2>2, <2>3 DEF JobsInv
<1>4. ASSUME NEW j \in Jobs, WriteStatus(j) \/ WriteStatusFails(j) PROVE JobsInv'
  BY <1>4, WriteStatusKeeps
<1>5. ASSUME NEW j \in Jobs, NEW targets \in SUBSET Endpoints, Announce(j, targets) PROVE JobsInv'
  BY <1>5, AnnounceKeeps
<1>6. ASSUME NEW j \in Jobs, Announcing(j) PROVE JobsInv'
  BY <1>6, AnnouncingKeeps
<1>7. ASSUME NEW j \in Jobs, AnnouncingFails(j) PROVE JobsInv'
  BY <1>7, AnnouncingFailsKeeps
<1> QED
  BY <1>1, <1>2, <1>3, <1>4, <1>5, <1>6, <1>7 DEF JobStep

LEMMA JobSets ==
  ASSUME NEW T \in SUBSET Jobs
  PROVE  /\ IsFiniteSet(T) /\ Cardinality(T) \in Nat
         /\ \A U \in SUBSET T : Cardinality(U) <= Cardinality(T)
         /\ \A j \in Jobs : \A U : U \subseteq T \cup {j} => Cardinality(U) <= Cardinality(T) + 1
<1>1. IsFiniteSet(T) /\ Cardinality(T) \in Nat
  BY JobsAssumption, FS_Subset, FS_CardinalityType
<1>2. \A U \in SUBSET T : Cardinality(U) <= Cardinality(T)
  BY <1>1, FS_Subset
<1>3. ASSUME NEW j \in Jobs, NEW U, U \subseteq T \cup {j}
      PROVE  Cardinality(U) <= Cardinality(T) + 1
  <2>1. IsFiniteSet(T \cup {j}) /\ Cardinality(T \cup {j}) <= Cardinality(T) + 1
    BY <1>1, FS_AddElement
  <2>2. Cardinality(U) <= Cardinality(T \cup {j}) /\ IsFiniteSet(U)
    BY <1>3, <2>1, FS_Subset
  <2>3. Cardinality(U) \in Nat /\ Cardinality(T \cup {j}) \in Nat
    BY <2>1, <2>2, FS_CardinalityType
  <2> QED
    BY <1>1, <2>1, <2>2, <2>3
<1> QED
  BY <1>1, <1>2, <1>3

LEMMA SubmitterSets ==
  ASSUME NEW T \in SUBSET Submitters
  PROVE  /\ Cardinality(T) \in Nat /\ Cardinality(T) <= Cardinality(Submitters)
         /\ Cardinality(Submitters) \in Nat /\ Cardinality(Submitters) > 0
         /\ \A q \in T : Cardinality(T \ {q}) = Cardinality(T) - 1
<1>1. IsFiniteSet(T) /\ Cardinality(T) \in Nat /\ Cardinality(T) <= Cardinality(Submitters)
  BY JobsAssumption, FS_Subset, FS_CardinalityType
<1>2. Cardinality(Submitters) \in Nat /\ Cardinality(Submitters) # 0
  BY JobsAssumption, FS_EmptySet, FS_CardinalityType
<1>3. \A q \in T : Cardinality(T \ {q}) = Cardinality(T) - 1
  BY <1>1, FS_RemoveElement
<1> QED
  BY <1>1, <1>2, <1>3

(* A job whose status is written was active before, but for a new one. *)
LEMMA JobsCountedStep ==
  ASSUME JobsInv, JobsCounted, JobStep
  PROVE  JobsCounted'
<1>1. PICK a \in SUBSET Jobs : a = ActiveJobs
  BY DEF ActiveJobs
<1>2. PICK b \in SUBSET Jobs : b = ActiveJobs'
  BY DEF ActiveJobs
<1>3. PICK p \in SUBSET Submitters : p = submitting
  BY DEF JobsInv, JobTypes
<1>4. Cardinality(a) + Cardinality(p) <= MaxJobs + Cardinality(Submitters) - 1
  BY <1>1, <1>3 DEF JobsCounted
<1>5. /\ Cardinality(a) \in Nat /\ Cardinality(b) \in Nat /\ Cardinality(p) \in Nat
      /\ Cardinality(Submitters) \in Nat /\ MaxJobs \in Nat
  BY JobSets, SubmitterSets, JobsAssumption
<1>6. SUFFICES Cardinality(b) + Cardinality(submitting') <= MaxJobs + Cardinality(Submitters) - 1
  BY <1>2 DEF JobsCounted
<1>7. ASSUME NEW o \in Submitters, CountJobs(o)
      PROVE  Cardinality(b) + Cardinality(submitting') <= MaxJobs + Cardinality(Submitters) - 1
  <2>1. b = a
    BY <1>1, <1>2, <1>7 DEF CountJobs, ActiveJobs
  <2>2. PICK q \in SUBSET Submitters : q = submitting'
    BY <1>3, <1>7 DEF CountJobs
  <2>3. Cardinality(a) < MaxJobs
    BY <1>1, <1>7 DEF CountJobs, RoomForJob
  <2>4. Cardinality(q) \in Nat /\ Cardinality(q) <= Cardinality(Submitters)
    BY SubmitterSets
  <2> QED
    BY <1>5, <2>1, <2>2, <2>3, <2>4
<1>8. ASSUME NEW o \in Submitters, NEW j \in Jobs, CreateJob(o, j)
      PROVE  Cardinality(b) + Cardinality(submitting') <= MaxJobs + Cardinality(Submitters) - 1
  <2>1. b \subseteq a \cup {j}
    BY <1>1, <1>2, <1>8 DEF CreateJob, ActiveJobs, JobsInv, JobTypes
  <2>2. Cardinality(b) <= Cardinality(a) + 1
    BY <2>1, JobSets
  <2>3. Cardinality(submitting') = Cardinality(p) - 1
    BY <1>3, <1>8, SubmitterSets DEF CreateJob
  <2> QED
    BY <1>4, <1>5, <2>2, <2>3
<1>9. ASSUME b \subseteq a, submitting' \in {submitting, {}}
      PROVE  Cardinality(b) + Cardinality(submitting') <= MaxJobs + Cardinality(Submitters) - 1
  <2>1. Cardinality(b) <= Cardinality(a)
    BY <1>9, JobSets
  <2>2. Cardinality({}) = 0
    BY FS_EmptySet
  <2>3. PICK k \in Nat : k = Cardinality(submitting') /\ k <= Cardinality(p)
    BY <1>3, <1>5, <1>9, <2>2
  <2> QED
    BY <1>4, <1>5, <2>1, <2>3
<1>10. ASSUME NEW j \in Jobs, WriteStatus(j) PROVE b \subseteq a /\ submitting' = submitting
  <2>1. executor[j] \in {"begin", "complete", "fail"} /\ executor[j] # None
    BY <1>10, JobsAssumption, StepsOfJobs DEF WriteStatus
  <2>2. executor[j] = "begin" => j \in a
    BY <1>1, <2>1, StatusTold DEF ActiveJobs
  <2>3. PICK g \in {"PROCESSING", "COMPLETED", "FAILED"} :
           job' = [job EXCEPT ![j] = g] /\ (g = "PROCESSING" => executor[j] = "begin")
    <3>1. job' = [job EXCEPT ![j] = Steps[executor[j]].status]
      BY <1>10 DEF WriteStatus
    <3> QED
      BY <2>1, <3>1, StepsOfJobs
  <2>4. b \subseteq a
    BY <1>1, <1>2, <2>2, <2>3 DEF ActiveJobs, JobsInv, JobTypes
  <2> QED
    BY <1>10, <2>4 DEF WriteStatus
<1>11. job' = job => b = a
  BY <1>1, <1>2 DEF ActiveJobs
<1> QED
  BY <1>7, <1>8, <1>9, <1>10, <1>11
     DEF JobStep, WriteStatusFails, Announce, Announcing, AnnouncingFails, JobCrash

LEMMA JobsHold ==
  ASSUME JobsInv, JobsCounted
  PROVE  JobsWithinLimit
<1>1. PICK p \in SUBSET Submitters : p = submitting
  BY DEF JobsInv, JobTypes
<1>2. PICK a \in SUBSET Jobs : a = ActiveJobs
  BY DEF ActiveJobs
<1>3. /\ Cardinality(p) \in Nat /\ Cardinality(a) \in Nat
      /\ Cardinality(Submitters) \in Nat /\ MaxJobs \in Nat
  BY JobSets, SubmitterSets, JobsAssumption
<1>4. Cardinality(a) + Cardinality(p) <= MaxJobs + Cardinality(Submitters) - 1
  BY <1>1, <1>2 DEF JobsCounted
<1>5. Cardinality(a) <= MaxJobs + Cardinality(Submitters) - 1
  BY <1>3, <1>4
<1> QED
  BY <1>2, <1>5 DEF JobsWithinLimit

-----------------------------------------------------------------------------
(* Webhooks and jobs together, whatever the scene.                         *)

WorkInv == HooksInv /\ EndpointsCounted /\ JobsInv /\ JobsCounted

LEMMA WorkStutters ==
  ASSUME WorkInv, UNCHANGED hookVars, UNCHANGED jobVars
  PROVE  WorkInv'
<1>1. HooksInv'
  BY HooksStutter DEF WorkInv
<1>2. EndpointsCounted'
  BY EndpointsCountedStay DEF WorkInv, hookVars
<1>3. JobsInv'
  BY JobsStay DEF WorkInv, hookVars, jobVars, JobsInv, JobTypes
<1>4. JobsCounted'
  BY DEF WorkInv, JobsCounted, ActiveJobs, jobVars
<1> QED
  BY <1>1, <1>2, <1>3, <1>4 DEF WorkInv

LEMMA EndpointStepKeepsWork ==
  ASSUME WorkInv, EndpointStep, UNCHANGED jobVars
  PROVE  WorkInv'
<1>1. dispatch' = dispatch
  BY DEF EndpointStep, CountEndpoints, CreateEndpoint, DeleteEndpoint, UpdateEndpoint, OnlyEndpoints
<1>2. JobsInv' /\ JobsCounted'
  BY <1>1, JobsStay DEF WorkInv, jobVars, JobsInv, JobTypes, JobsCounted, ActiveJobs
<1> QED
  BY <1>2, EndpointStepKeeps, EndpointsCountedStep DEF WorkInv

LEMMA JobStepKeepsWork ==
  ASSUME WorkInv, JobStep
  PROVE  WorkInv'
<1>1. endpoint' = endpoint /\ reenabled' = reenabled /\ opening' \in {opening, {}}
  BY DEF JobStep, CountJobs, CreateJob, WriteStatus, WriteStatusFails, Announce, Announcing,
         AnnouncingFails, JobCrash, hookVars, Dispatch, CreateDelivery, Enqueue, EnqueueDirectly,
         DispatchFails, OnlyDispatch, HookCrash
<1> QED
  BY <1>1, JobStepKeepsHooks, EndpointsCountedStay, JobStepKeeps, JobsCountedStep DEF WorkInv

LEMMA OtherDispatchKeepsWork ==
  ASSUME WorkInv, OtherDispatch
  PROVE  WorkInv'
<1>1. endpoint' = endpoint /\ reenabled' = reenabled /\ opening' = opening
  BY DEF OtherDispatch, Dispatching, RetryOrPing, Dispatch, TestPing, CreateDelivery, ResetForRetry,
         Enqueue, EnqueueDirectly, DispatchFails, OnlyDispatch
<1>2. \A j \in Jobs : dispatch'[j] = dispatch[j]
  <2>1. PICK x \in Dispatchers \ Jobs :
          \/ \E targets \in SUBSET Endpoints : Dispatch(x, targets)
          \/ Dispatching(x) \/ RetryOrPing(x)
    BY DEF OtherDispatch
  <2>2. HooksInv
    BY DEF WorkInv
  <2>3. \A y \in Dispatchers : y # x => dispatch'[y] = dispatch[y]
    BY <2>1, <2>2, OneDispatch DEF Dispatching, RetryOrPing
  <2> QED
    BY <2>3, JobsAssumption
<1>3. job' = job /\ executor' = executor /\ lostJobs' = lostJobs /\ submitting' = submitting
  BY DEF OtherDispatch, jobVars
<1>4. JobsInv'
  BY <1>2, <1>3, JobsStay DEF WorkInv, JobsInv, JobTypes
<1>5. JobsCounted'
  BY <1>3 DEF WorkInv, JobsCounted, ActiveJobs
<1> QED
  BY <1>1, <1>4, <1>5, OtherDispatchKeeps, EndpointsCountedStay DEF WorkInv

LEMMA SenderStepKeepsWork ==
  ASSUME WorkInv, SenderStep, UNCHANGED jobVars
  PROVE  WorkInv'
<1>1. OnlySender
  BY DEF SenderStep, TakeJob, Send, Undecryptable, Record, RecordNothing, Acknowledge, QueueStep
<1>2. endpoint' = endpoint /\ reenabled' = reenabled /\ opening' = opening /\ dispatch' = dispatch
  BY <1>1 DEF OnlySender
<1>3. job' = job /\ executor' = executor /\ lostJobs' = lostJobs /\ submitting' = submitting
  BY DEF jobVars
<1>4. JobsInv'
  BY <1>2, <1>3, JobsStay DEF WorkInv, JobsInv, JobTypes
<1>5. JobsCounted'
  BY <1>3 DEF WorkInv, JobsCounted, ActiveJobs
<1> QED
  BY <1>2, <1>4, <1>5, SenderStepKeeps, EndpointsCountedStay DEF WorkInv

LEMMA WorkStep ==
  ASSUME WorkInv, [Next]_vars
  PROVE  WorkInv'
<1>1. CASE Opening
  BY <1>1, EndpointStepKeepsWork DEF Opening
<1>2. CASE Submitting
  BY <1>2, JobStepKeepsWork DEF Submitting
<1>3. CASE Sending
  BY <1>3, JobStepKeepsWork, OtherDispatchKeepsWork, SenderStepKeepsWork DEF Sending
<1>4. CASE Exporting
  BY <1>4, WorkStutters DEF Exporting
<1>5. CASE Alerting
  BY <1>5, WorkStutters DEF Alerting
<1>6. CASE Chatting
  BY <1>6, WorkStutters DEF Chatting
<1>7. CASE UNCHANGED vars
  BY <1>7, WorkStutters DEF vars
<1> QED
  BY <1>1, <1>2, <1>3, <1>4, <1>5, <1>6, <1>7 DEF Next

-----------------------------------------------------------------------------
(* Statements.                                                             *)

LEMMA ExportRowFields ==
  ASSUME NEW r \in S!Q!JobRows
  PROVE  /\ r.state \in S!Q!States /\ r.made \in 0 .. ExportAttempts /\ r.stalls \in 0 .. 2
         /\ r # None
BY ExportsAssumption DEF S!Q!JobRows

LEMMA RunFields ==
  ASSUME ExportsInv, NEW x \in Exporters, exporter[x] # None
  PROVE  /\ exporter[x] \in S!ExportRuns /\ exporter[x].id \in Exports
         /\ exporter[x].token \in S!Q!JobRows \cup {None}
         /\ exporter[x].stage \in
              {"begin", "build", "built", "notify", "catch", "returned", "thrown"}
         /\ statement[exporter[x].id] \in S!StatementRows
         /\ exporter[x].id \notin requesting
<1>1. /\ exporter[x] \in S!ExportRuns /\ exporter[x].id \in Exports
      /\ exporter[x].token \in S!Q!JobRows \cup {None}
      /\ exporter[x].stage \in {"begin", "build", "built", "notify", "catch", "returned", "thrown"}
  BY DEF ExportsInv, ExportTypes, S!ExportRuns
<1>2. NotBefore(exporter[x].id)
  BY <1>1 DEF ExportsInv, ExportSound
<1> QED
  BY <1>1, <1>2 DEF NotBefore, Runs, ExportsInv, ExportTypes

(* Nothing happens to statement c. *)
SameFor(c) ==
  /\ statement'[c] = statement[c] /\ exportQueue'[c] = exportQueue[c]
  /\ c \in requesting' <=> c \in requesting
  /\ c \in announced' <=> c \in announced
  /\ c \in disturbed => c \in disturbed'
  /\ \A x \in Exporters : Runs(x, c) \/ Runs(x, c)' => exporter'[x] = exporter[x]

LEMMA SameForKeeps ==
  ASSUME NEW c \in Exports, ExportSound(c), SameFor(c)
  PROVE  ExportSound(c)'
<1>1. \A x \in Exporters : Runs(x, c)' => exporter'[x] = exporter[x] /\ Runs(x, c)
  BY DEF SameFor, Runs
<1>2. \A x \in Exporters : Runs(x, c) => exporter'[x] = exporter[x] /\ Runs(x, c)'
  BY DEF SameFor, Runs
<1>3. NotBefore(c)' /\ CompletedHasFile(c)'
  BY <1>1 DEF SameFor, ExportSound, NotBefore, CompletedHasFile
<1>4. ASSUME OneRun(c) PROVE OneRun(c)'
  <2>1. S!InHand(c) => S!InHand(c)'
    BY <1>2 DEF S!InHand, S!Q!Open, SameFor, Runs
  <2>2. \A x, y \in Exporters : Runs(x, c)' /\ Runs(y, c)' => x = y
    BY <1>1, <1>4 DEF OneRun
  <2>3. \A x \in Exporters : Runs(x, c)' =>
          /\ IF exporter'[x].token = None THEN exportQueue'[c].state = "absent"
             ELSE S!Q!Holds(c, exporter[x].token)
          /\ statement'[c].status \in StatusWhen[exporter'[x].stage]
    BY <1>1, <1>4 DEF OneRun, SameFor
  <2>4. \A x \in Exporters : Runs(x, c)' =>
          (S!Q!Holds(c, exporter[x].token) => S!Q!Holds(c, exporter[x].token)')
    BY <1>1 DEF SameFor, S!Q!Holds
  <2>5. \A x \in Exporters : Runs(x, c)' =>
          /\ IF exporter'[x].token = None THEN exportQueue'[c].state = "absent"
             ELSE S!Q!Holds(c, exporter[x].token)'
          /\ statement'[c].status \in StatusWhen[exporter'[x].stage]
    BY <2>3, <2>4
  <2> QED
    BY <1>4, <2>1, <2>2, <2>5 DEF OneRun, SameFor
<1> QED
  BY <1>3, <1>4 DEF ExportSound, SameFor

(* What a step does to statement s, and to no other. *)
LEMMA OneStatement ==
  ASSUME ExportsInv, NEW s \in Exports, ExportTypes', QueueTyped(exportQueue', ExportAttempts),
         ExportSound(s)', \A c \in Exports \ {s} : SameFor(c)
  PROVE  ExportsInv'
<1>1. ASSUME NEW c \in Exports PROVE ExportSound(c)'
  BY SameForKeeps DEF ExportsInv
<1> QED
  BY <1>1 DEF ExportsInv

LEMMA StatusWhenSets ==
  /\ StatusWhen["begin"] = {"PENDING", "PROCESSING", "COMPLETED", "FAILED"}
  /\ StatusWhen["build"] = {"PROCESSING"} /\ StatusWhen["built"] = {"PROCESSING"}
  /\ StatusWhen["notify"] = {"COMPLETED"} /\ StatusWhen["returned"] = {"COMPLETED"}
  /\ StatusWhen["catch"] = {"PROCESSING", "COMPLETED"} /\ StatusWhen["thrown"] = {"FAILED"}
BY DEF StatusWhen

(* A step of the run x of statement s: its stage and the row. *)
LEMMA RunWritten ==
  ASSUME ExportsInv, NEW x \in Exporters, NEW s \in Exports, Runs(x, s),
         NEW e \in S!ExportRuns, exporter' = [exporter EXCEPT ![x] = e],
         e.id = s, e.token = exporter[x].token,
         NEW r \in S!StatementRows, statement' = [statement EXCEPT ![s] = r],
         r.status \in StatusWhen[e.stage] \/ s \in disturbed',
         r.status = "COMPLETED" => r.file,
         disturbed \subseteq disturbed', disturbed' \subseteq Exports,
         UNCHANGED <<requesting, exportQueue, announced>>
  PROVE  ExportsInv'
<1> e # None /\ r # None
  BY ExportsAssumption
<1>1. /\ exporter'[x] = e /\ \A y \in Exporters : y # x => exporter'[y] = exporter[y]
      /\ statement'[s] = r /\ \A c \in Exports : c # s => statement'[c] = statement[c]
  BY DEF ExportsInv, ExportTypes
<1>2. ExportTypes' /\ QueueTyped(exportQueue', ExportAttempts)
  BY DEF ExportsInv, ExportTypes
<1>3. \A c \in Exports \ {s} : SameFor(c)
  BY <1>1 DEF SameFor, Runs
<1>4. ExportSound(s) /\ s \notin requesting
  BY RunFields DEF ExportsInv, Runs
<1>5. NotBefore(s)' /\ CompletedHasFile(s)'
  BY <1>1, <1>4 DEF NotBefore, CompletedHasFile
<1>6. ASSUME OneRun(s), r.status \in StatusWhen[e.stage] PROVE OneRun(s)'
  <2>1. \A y \in Exporters : Runs(y, s)' => y = x
    BY <1>1, <1>6 DEF OneRun, Runs
  <2>2. /\ IF exporter'[x].token = None THEN exportQueue'[s].state = "absent"
           ELSE S!Q!Holds(s, exporter[x].token)'
        /\ statement'[s].status \in StatusWhen[exporter'[x].stage]
    BY <1>1, <1>6 DEF OneRun, S!Q!Holds
  <2>3. exportQueue'[s].state # "completed"
    BY <1>6 DEF OneRun, S!Q!Holds
  <2>4. S!InHand(s)'
    BY <1>1 DEF S!InHand
  <2> QED
    BY <2>1, <2>2, <2>3, <2>4 DEF OneRun
<1>7. ExportSound(s)'
  BY <1>4, <1>5, <1>6 DEF ExportSound
<1> QED
  BY <1>2, <1>3, <1>7, OneStatement

LEMMA ToStage ==
  ASSUME ExportsInv, NEW x \in Exporters, exporter[x] # None,
         NEW g \in {"begin", "build", "built", "notify", "catch", "returned", "thrown"}, S!To(x, g)
  PROVE  \E e \in S!ExportRuns :
            /\ exporter' = [exporter EXCEPT ![x] = e]
            /\ e.id = exporter[x].id /\ e.token = exporter[x].token /\ e.stage = g
<1>1. exporter[x] \in S!ExportRuns
  BY RunFields
<1>2. /\ [exporter[x] EXCEPT !.stage = g] \in S!ExportRuns
      /\ [exporter[x] EXCEPT !.stage = g].id = exporter[x].id
      /\ [exporter[x] EXCEPT !.stage = g].token = exporter[x].token
      /\ [exporter[x] EXCEPT !.stage = g].stage = g
  BY <1>1 DEF S!ExportRuns
<1> QED
  BY <1>2 DEF S!To

LEMMA WithStatus ==
  ASSUME ExportsInv, NEW s \in Exports, statement[s] \in S!StatementRows,
         NEW g \in {"PENDING", "PROCESSING", "COMPLETED", "FAILED"},
         statement' = [statement EXCEPT ![s].status = g]
  PROVE  \E r \in S!StatementRows :
            statement' = [statement EXCEPT ![s] = r] /\ r.status = g /\ r.file = statement[s].file
<1>1. /\ [statement[s] EXCEPT !.status = g] \in S!StatementRows
      /\ [statement[s] EXCEPT !.status = g].status = g
      /\ [statement[s] EXCEPT !.status = g].file = statement[s].file
  BY DEF S!StatementRows
<1> QED
  BY <1>1

Unwritten == statement' = statement

LEMMA SameStatement ==
  ASSUME ExportsInv, NEW s \in Exports, statement[s] \in S!StatementRows, Unwritten
  PROVE  \E r \in S!StatementRows :
            statement' = [statement EXCEPT ![s] = r] /\ r = statement[s]
BY DEF ExportsInv, ExportTypes, Unwritten

(* The row before a step of the run, and the file of a completed one. *)
LEMMA RunStatus ==
  ASSUME ExportsInv, NEW x \in Exporters, exporter[x] # None
  PROVE  /\ statement[exporter[x].id].status \in StatusWhen[exporter[x].stage]
               \/ exporter[x].id \in disturbed
         /\ statement[exporter[x].id].status = "COMPLETED" => statement[exporter[x].id].file
<1>1. PICK s \in Exports : s = exporter[x].id
  BY RunFields
<1>2. ExportSound(s) /\ Runs(x, s) /\ statement[s] # None
  BY <1>1, RunFields, ExportsAssumption DEF ExportsInv, Runs
<1> QED
  BY <1>1, <1>2 DEF ExportSound, OneRun, CompletedHasFile

(* The row stays, and the run goes on to stage g. *)
LEMMA StageKeeps ==
  ASSUME ExportsInv, NEW x \in Exporters, exporter[x] # None,
         NEW g \in {"begin", "build", "built", "notify", "catch", "returned", "thrown"}, S!To(x, g),
         \/ StatusWhen[exporter[x].stage] \subseteq StatusWhen[g]
         \/ exporter[x].id \in disturbed',
         disturbed \subseteq disturbed', disturbed' \subseteq Exports,
         Unwritten, UNCHANGED <<requesting, exportQueue, announced>>
  PROVE  ExportsInv'
<1>1. PICK s \in Exports : s = exporter[x].id
  BY RunFields
<1>2. PICK e \in S!ExportRuns :
            /\ exporter' = [exporter EXCEPT ![x] = e]
            /\ e.id = exporter[x].id /\ e.token = exporter[x].token /\ e.stage = g
  BY ToStage
<1>3. PICK r \in S!StatementRows :
            statement' = [statement EXCEPT ![s] = r] /\ r = statement[s]
  BY <1>1, RunFields, SameStatement
<1>4. /\ r.status \in StatusWhen[e.stage] \/ s \in disturbed'
      /\ r.status = "COMPLETED" => r.file
  BY <1>1, <1>2, <1>3, RunStatus
<1>5. Runs(x, s)
  BY <1>1 DEF Runs
<1> QED
  BY <1>1, <1>2, <1>3, <1>4, <1>5, RunWritten

LEMMA RunStepKeeps ==
  ASSUME ExportsInv, NEW x \in Exporters,
         \/ S!MarkProcessing(x) \/ S!MarkProcessingFails(x) \/ S!Build(x) \/ S!MarkCompleted(x)
         \/ S!Notify(x) \/ S!ExportThrows(x) \/ \E written \in BOOLEAN : S!CatchExport(x, written)
  PROVE  ExportsInv'
<1>1. /\ exporter[x] # None /\ UNCHANGED <<requesting, exportQueue, announced>>
      /\ disturbed \subseteq disturbed' /\ disturbed' \subseteq Exports
  BY RunFields DEF S!MarkProcessing, S!MarkProcessingFails, S!Build, S!MarkCompleted, S!Notify,
         S!ExportThrows, S!CatchExport, S!At, S!Exporting, ExportsInv, ExportTypes
<1>2. PICK s \in Exports : s = exporter[x].id
  BY <1>1, RunFields
<1>3. Runs(x, s) /\ statement[s] \in S!StatementRows
  BY <1>1, <1>2, RunFields DEF Runs
<1>4. CASE S!MarkProcessing(x)
  <2>1. PICK e \in S!ExportRuns :
            /\ exporter' = [exporter EXCEPT ![x] = e]
            /\ e.id = exporter[x].id /\ e.token = exporter[x].token /\ e.stage = "build"
    BY <1>1, <1>4, ToStage DEF S!MarkProcessing
  <2>2. statement' = [statement EXCEPT ![s].status = "PROCESSING"]
    BY <1>2, <1>4 DEF S!MarkProcessing
  <2>3. PICK r \in S!StatementRows :
            statement' = [statement EXCEPT ![s] = r] /\ r.status = "PROCESSING"
    BY <1>3, <2>2, WithStatus
  <2>4. r.status \in StatusWhen[e.stage]
    BY <2>1, <2>3, StatusWhenSets
  <2> QED
    BY <1>1, <1>2, <1>3, <2>1, <2>3, <2>4, RunWritten
<1>5. CASE S!MarkProcessingFails(x)
  <2>1. S!To(x, "returned") /\ exporter[x].id \in disturbed' /\ Unwritten
    BY <1>5 DEF Unwritten, S!MarkProcessingFails
  <2> QED
    BY <1>1, <2>1, StageKeeps
<1>6. CASE S!Build(x)
  <2>1. S!To(x, "built") /\ exporter[x].stage = "build" /\ Unwritten
    BY <1>6 DEF Unwritten, S!Build, S!At
  <2> QED
    BY <1>1, <2>1, StageKeeps, StatusWhenSets
<1>7. CASE S!MarkCompleted(x)
  <2>1. PICK e \in S!ExportRuns :
            /\ exporter' = [exporter EXCEPT ![x] = e]
            /\ e.id = exporter[x].id /\ e.token = exporter[x].token /\ e.stage = "notify"
    BY <1>1, <1>7, ToStage DEF S!MarkCompleted
  <2>2. PICK r \in S!StatementRows :
            r = [status |-> "COMPLETED", file |-> TRUE, expired |-> FALSE]
    BY DEF S!StatementRows
  <2>3. statement' = [statement EXCEPT ![s] = r]
    BY <1>2, <1>7, <2>2 DEF S!MarkCompleted
  <2>4. r.status \in StatusWhen[e.stage] /\ r.file
    BY <2>1, <2>2, StatusWhenSets
  <2> QED
    BY <1>1, <1>2, <1>3, <2>1, <2>3, <2>4, RunWritten
<1>8. CASE S!Notify(x)
  <2>1. S!To(x, "returned") /\ exporter[x].stage = "notify" /\ Unwritten
    BY <1>8 DEF Unwritten, S!Notify, S!At
  <2> QED
    BY <1>1, <2>1, StageKeeps, StatusWhenSets
<1>9. CASE S!ExportThrows(x)
  <2>1. /\ S!To(x, "catch") /\ exporter[x].stage \in {"build", "built", "notify"}
        /\ Unwritten
    BY <1>9 DEF Unwritten, S!ExportThrows, S!At
  <2>2. StatusWhen[exporter[x].stage] \subseteq StatusWhen["catch"]
    BY <2>1, StatusWhenSets
  <2> QED
    BY <1>1, <2>1, <2>2, StageKeeps
<1>10. ASSUME NEW written \in BOOLEAN, S!CatchExport(x, written) PROVE ExportsInv'
  <2>1. S!To(x, "thrown")
    BY <1>10 DEF S!CatchExport, S!Rethrown
  <2>2. CASE written
    <3>1. PICK e \in S!ExportRuns :
            /\ exporter' = [exporter EXCEPT ![x] = e]
            /\ e.id = exporter[x].id /\ e.token = exporter[x].token /\ e.stage = "thrown"
      BY <1>1, <2>1, ToStage
    <3>2. statement' = [statement EXCEPT ![s].status = "FAILED"]
      BY <1>2, <1>10, <2>2 DEF S!CatchExport
    <3>3. PICK r \in S!StatementRows :
            statement' = [statement EXCEPT ![s] = r] /\ r.status = "FAILED"
      BY <1>3, <3>2, WithStatus
    <3>4. r.status \in StatusWhen[e.stage]
      BY <3>1, <3>3, StatusWhenSets
    <3> QED
      BY <1>1, <1>2, <1>3, <3>1, <3>3, <3>4, RunWritten
  <2>3. CASE ~written
    <3>1. Unwritten /\ exporter[x].id \in disturbed'
      BY <1>10, <2>3 DEF Unwritten, S!CatchExport
    <3> QED
      BY <1>1, <2>1, <3>1, StageKeeps
  <2> QED
    BY <2>2, <2>3
<1> QED
  BY <1>4, <1>5, <1>6, <1>7, <1>8, <1>9, <1>10

LEMMA InitiateKeeps ==
  ASSUME ExportsInv, NEW s \in Exports, S!InitiateExport(s)
  PROVE  ExportsInv'
<1>1. PICK r \in S!StatementRows :
         statement' = [statement EXCEPT ![s] = r] /\ r.status = "PENDING" /\ ~r.file
  <2>1. [status |-> "PENDING", file |-> FALSE, expired |-> FALSE] \in S!StatementRows
    BY DEF S!StatementRows
  <2> QED
    BY <2>1 DEF S!InitiateExport
<1>2. /\ requesting' = requesting \cup {s} /\ statement[s] = None
      /\ UNCHANGED <<exportQueue, exporter, announced, disturbed>>
  BY DEF S!InitiateExport
<1>3. statement'[s] = r /\ \A c \in Exports : c # s => statement'[c] = statement[c]
  BY <1>1 DEF ExportsInv, ExportTypes
<1>4. ExportTypes' /\ QueueTyped(exportQueue', ExportAttempts)
  BY <1>1, <1>2 DEF ExportsInv, ExportTypes
<1>5. \A c \in Exports \ {s} : SameFor(c)
  BY <1>2, <1>3 DEF SameFor, Runs
<1>6. NotBefore(s)
  BY DEF ExportsInv, ExportSound
<1>7. NotBefore(s)' /\ CompletedHasFile(s)'
  BY <1>1, <1>2, <1>3, <1>6, ExportsAssumption DEF NotBefore, CompletedHasFile, Runs
<1>8. OneRun(s)'
  <2>1. exportQueue'[s].state = "absent" /\ \A x \in Exporters : ~Runs(x, s)'
    BY <1>2, <1>6 DEF NotBefore, Runs
  <2>2. S!InHand(s)'
    BY <1>2 DEF S!InHand
  <2> QED
    BY <2>1, <2>2 DEF OneRun
<1> QED
  BY <1>4, <1>5, <1>7, <1>8, OneStatement DEF ExportSound

(* A run of statement s begins. *)
LEMMA RunBegins ==
  ASSUME ExportsInv, NEW s \in Exports, NEW x \in Exporters, NEW t \in S!Q!JobRows \cup {None},
         S!Begin(x, s, t)
  PROVE  \E e \in S!ExportRuns :
            /\ e.id = s /\ e.token = t /\ e.stage = "begin" /\ exporter[x] = None
            /\ exporter' \in [Exporters -> S!ExportRuns \cup {None}]
            /\ exporter'[x] = e /\ \A y \in Exporters : y # x => exporter'[y] = exporter[y]
<1>1. PICK e \in S!ExportRuns :
            /\ e = [id |-> s, token |-> t, stage |-> "begin"]
            /\ e.id = s /\ e.token = t /\ e.stage = "begin"
  <2>1. [id |-> s, token |-> t, stage |-> "begin"] \in S!ExportRuns
    BY DEF S!ExportRuns
  <2> QED
    BY <2>1
<1>2. exporter' = [exporter EXCEPT ![x] = e] /\ exporter[x] = None
  BY <1>1 DEF S!Begin
<1>3. /\ exporter' \in [Exporters -> S!ExportRuns \cup {None}]
      /\ exporter'[x] = e /\ \A y \in Exporters : y # x => exporter'[y] = exporter[y]
  BY <1>2 DEF ExportsInv, ExportTypes
<1> QED
  BY <1>1, <1>2, <1>3

LEMMA AnyStatus ==
  ASSUME ExportsInv, NEW s \in Exports, statement[s] # None
  PROVE  statement[s].status \in StatusWhen["begin"]
<1>1. statement[s] \in S!StatementRows
  BY DEF ExportsInv, ExportTypes
<1> QED
  BY <1>1, StatusWhenSets DEF S!StatementRows

LEMMA EnqueueExportKeeps ==
  ASSUME ExportsInv, NEW s \in Exports, S!Enqueue(s)
  PROVE  ExportsInv'
<1>1. /\ s \in requesting /\ requesting' = requesting \ {s}
      /\ statement' = statement /\ announced' = announced /\ disturbed' = disturbed
  BY DEF S!Enqueue
<1>2. /\ exportQueue[s].state = "absent" /\ s \notin announced
      /\ \A x \in Exporters : ~Runs(x, s)
      /\ statement[s] # None
  BY <1>1 DEF ExportsInv, ExportSound, NotBefore
<1>3. CompletedHasFile(s)' /\ NotBefore(s)'
  BY <1>1, <1>2 DEF ExportsInv, ExportSound, CompletedHasFile, NotBefore
<1>4. CASE S!Q!Add(s) /\ exporter' = exporter
  <2>1. PICK q \in S!Q!JobRows :
           /\ exportQueue' = [exportQueue EXCEPT ![s] = q]
           /\ q.state = "waiting" /\ q.made = 0 /\ q.stalls = 0
    <3>1. S!Q!Fresh("waiting") \in S!Q!JobRows /\ S!Q!Fresh("waiting").state = "waiting"
          /\ S!Q!Fresh("waiting").made = 0 /\ S!Q!Fresh("waiting").stalls = 0
      BY ExportsAssumption DEF S!Q!Fresh, S!Q!JobRows, S!Q!States
    <3> QED
      BY <1>2, <1>4, <3>1 DEF S!Q!Add
  <2>2. /\ exportQueue'[s] = q /\ \A c \in Exports : c # s => exportQueue'[c] = exportQueue[c]
        /\ DOMAIN exportQueue = Exports /\ DOMAIN exportQueue' = Exports
    BY <2>1 DEF ExportsInv, ExportTypes
  <2>3. ExportTypes'
    BY <1>1, <1>4, <2>1 DEF ExportsInv, ExportTypes
  <2>4. QueueTyped(exportQueue', ExportAttempts)
    BY <2>1, <2>2, ExportsAssumption DEF ExportsInv, QueueTyped
  <2>5. \A c \in Exports \ {s} : SameFor(c)
    BY <1>1, <1>4, <2>2 DEF SameFor, Runs
  <2>6. OneRun(s)'
    <3>1. \A x \in Exporters : ~Runs(x, s)'
      BY <1>2, <1>4 DEF Runs
    <3>2. S!InHand(s)'
      BY <2>1, <2>2 DEF S!InHand, S!Q!Open
    <3> QED
      BY <2>1, <2>2, <3>1, <3>2 DEF OneRun
  <2> QED
    BY <1>3, <2>3, <2>4, <2>5, <2>6, OneStatement DEF ExportSound
<1>5. ASSUME NEW x \in Exporters, S!Begin(x, s, None), exportQueue' = exportQueue
      PROVE  ExportsInv'
  <2>1. PICK e \in S!ExportRuns :
            /\ e.id = s /\ e.token = None /\ e.stage = "begin" /\ exporter[x] = None
            /\ exporter' \in [Exporters -> S!ExportRuns \cup {None}]
            /\ exporter'[x] = e /\ \A y \in Exporters : y # x => exporter'[y] = exporter[y]
    BY <1>5, RunBegins
  <2>2. ExportTypes' /\ QueueTyped(exportQueue', ExportAttempts)
    BY <1>1, <1>5, <2>1 DEF ExportsInv, ExportTypes
  <2>3. \A c \in Exports \ {s} : SameFor(c)
    BY <1>1, <1>5, <2>1 DEF SameFor, Runs
  <2>4. OneRun(s)'
    <3>1. e # None
      BY ExportsAssumption
    <3>2. \A y \in Exporters : Runs(y, s)' => y = x
      BY <1>2, <2>1 DEF Runs
    <3>3. S!InHand(s)'
      BY <2>1, <3>1 DEF S!InHand
    <3>4. exportQueue'[s].state = "absent" /\ statement'[s].status \in StatusWhen[exporter'[x].stage]
      BY <1>1, <1>2, <1>5, <2>1, AnyStatus
    <3> QED
      BY <2>1, <3>2, <3>3, <3>4 DEF OneRun
  <2> QED
    BY <1>3, <2>2, <2>3, <2>4, OneStatement DEF ExportSound
<1> QED
  BY <1>4, <1>5 DEF S!Enqueue

(* A step of the queue that leaves the rows and the requests alone. *)
LEMMA ExportJobWritten ==
  ASSUME ExportsInv, NEW s \in Exports, NEW q \in S!Q!JobRows,
         exportQueue' = [exportQueue EXCEPT ![s] = q],
         q.state \in {"waiting", "active"} => q.made < ExportAttempts /\ q.stalls < 2,
         exportQueue[s].state # "absent",
         exporter' \in [Exporters -> S!ExportRuns \cup {None}],
         \A x \in Exporters : exporter'[x] # exporter[x] =>
            /\ Runs(x, s) \/ exporter[x] = None
            /\ exporter'[x] = None \/ exporter'[x].id = s,
         announced' \in {announced, announced \cup {s}},
         disturbed' \in {disturbed, disturbed \cup {s}},
         s \notin disturbed' => OneRun(s)',
         UNCHANGED <<statement, requesting>>
  PROVE  ExportsInv'
<1>1. exportQueue'[s] = q /\ \A c \in Exports : c # s => exportQueue'[c] = exportQueue[c]
  BY DEF ExportsInv, ExportTypes
<1>2. ExportTypes'
  BY DEF ExportsInv, ExportTypes
<1>3. QueueTyped(exportQueue', ExportAttempts)
  <2>1. DOMAIN exportQueue = Exports /\ DOMAIN exportQueue' = Exports
    BY DEF ExportsInv, ExportTypes
  <2> QED
    BY <1>1, <2>1 DEF ExportsInv, QueueTyped
<1>4. ASSUME NEW c \in Exports \ {s} PROVE SameFor(c)
  BY <1>1 DEF SameFor, Runs
<1>5. NotBefore(s)' /\ CompletedHasFile(s)'
  <2>1. statement[s] # None /\ s \notin requesting
    BY DEF ExportsInv, ExportSound, NotBefore
  <2> QED
    BY <2>1 DEF ExportsInv, ExportSound, NotBefore, CompletedHasFile
<1> QED
  BY <1>2, <1>3, <1>4, <1>5, OneStatement DEF ExportSound

LEMMA TakeExportKeeps ==
  ASSUME ExportsInv, NEW x \in Exporters, NEW s \in Exports, S!TakeJob(x, s)
  PROVE  ExportsInv'
<1>1. exportQueue[s] \in S!Q!JobRows /\ exportQueue[s].state = "waiting"
  BY DEF ExportsInv, ExportTypes, S!TakeJob, S!Q!Start
<1>2. PICK q \in S!Q!JobRows :
         /\ exportQueue' = [exportQueue EXCEPT ![s] = q] /\ q.state = "active"
         /\ q.made = exportQueue[s].made /\ q.stalls = exportQueue[s].stalls
  <2>1. exportQueue' = [exportQueue EXCEPT ![s] = [exportQueue[s] EXCEPT !.state = "active"]]
    BY DEF S!TakeJob, S!Q!Start
  <2>2. /\ [exportQueue[s] EXCEPT !.state = "active"] \in S!Q!JobRows
        /\ [exportQueue[s] EXCEPT !.state = "active"].state = "active"
        /\ [exportQueue[s] EXCEPT !.state = "active"].made = exportQueue[s].made
        /\ [exportQueue[s] EXCEPT !.state = "active"].stalls = exportQueue[s].stalls
    BY <1>1 DEF S!Q!JobRows, S!Q!States
  <2> QED
    BY <2>1, <2>2
<1>3. exportQueue'[s] = q /\ q # None
  BY <1>2, ExportRowFields DEF ExportsInv, ExportTypes
<1>4. S!Begin(x, s, q)
  BY <1>3 DEF S!TakeJob
<1>5. PICK e \in S!ExportRuns :
            /\ e.id = s /\ e.token = q /\ e.stage = "begin" /\ exporter[x] = None
            /\ exporter' \in [Exporters -> S!ExportRuns \cup {None}]
            /\ exporter'[x] = e /\ \A y \in Exporters : y # x => exporter'[y] = exporter[y]
  BY <1>4, RunBegins
<1>6. UNCHANGED <<statement, requesting, announced, disturbed>>
  BY DEF S!TakeJob
<1>7. statement[s] # None
  BY <1>1 DEF ExportsInv, ExportSound, NotBefore
<1>8. ASSUME OneRun(s) PROVE OneRun(s)'
  <2>1. \A y \in Exporters : ~Runs(y, s)
    BY <1>1, <1>8 DEF OneRun, S!Q!Holds
  <2>2. \A y \in Exporters : Runs(y, s)' => y = x
    BY <1>5, <2>1 DEF Runs
  <2>3. S!InHand(s)'
    BY <1>2, <1>3 DEF S!InHand, S!Q!Open
  <2>4. S!Q!Holds(s, exporter[x].token)' /\ statement'[s].status \in StatusWhen[exporter'[x].stage]
    BY <1>2, <1>3, <1>5, <1>6, <1>7, AnyStatus DEF S!Q!Holds
  <2> QED
    BY <1>2, <1>3, <1>5, <2>2, <2>3, <2>4 DEF OneRun
<1>9. s \notin disturbed' => OneRun(s)'
  BY <1>6, <1>8 DEF ExportsInv, ExportSound
<1>10. q.made < ExportAttempts /\ q.stalls < 2
  BY <1>1, <1>2 DEF ExportsInv, ExportTypes, QueueTyped
<1>11. \A y \in Exporters : exporter'[y] # exporter[y] =>
            /\ Runs(y, s) \/ exporter[y] = None
            /\ exporter'[y] = None \/ exporter'[y].id = s
  BY <1>5
<1> QED
  BY <1>1, <1>2, <1>5, <1>6, <1>9, <1>10, <1>11, ExportJobWritten

LEMMA StallExportKeeps ==
  ASSUME ExportsInv, NEW s \in Exports, S!StallExport(s)
  PROVE  ExportsInv'
<1>1. exportQueue[s] \in S!Q!JobRows /\ exportQueue[s].state = "active"
  BY DEF ExportsInv, ExportTypes, S!StallExport, S!Q!Stall
<1>2. exportQueue[s].made < ExportAttempts /\ exportQueue[s].stalls < 2
  BY <1>1 DEF ExportsInv, ExportTypes, QueueTyped
<1>3. exportQueue[s].stalls \in Nat
  BY <1>1, ExportRowFields
<1>4. PICK k \in 0 .. 2 : k = exportQueue[s].stalls + 1
  BY <1>2, <1>3
<1>5. PICK q \in S!Q!JobRows :
         /\ exportQueue' = [exportQueue EXCEPT ![s] = q] /\ q.state \in {"waiting", "failed"}
         /\ q.made = exportQueue[s].made /\ q.stalls = k
         /\ q.state = "waiting" => exportQueue[s].stalls = 0
  <2>1. PICK g \in {"waiting", "failed"} :
          /\ exportQueue' = [exportQueue EXCEPT ![s] = [exportQueue[s] EXCEPT !.stalls = k, !.state = g]]
          /\ g = "waiting" => exportQueue[s].stalls = 0
    <3>1. exportQueue' = [exportQueue EXCEPT ![s] =
                      [exportQueue[s] EXCEPT !.stalls = exportQueue[s].stalls + 1,
                              !.state = IF exportQueue[s].stalls = 0 THEN "waiting" ELSE "failed"]]
      BY DEF S!StallExport, S!Q!Stall
    <3> QED
      BY <1>4, <3>1
  <2>2. /\ [exportQueue[s] EXCEPT !.stalls = k, !.state = g] \in S!Q!JobRows
        /\ [exportQueue[s] EXCEPT !.stalls = k, !.state = g].state = g
        /\ [exportQueue[s] EXCEPT !.stalls = k, !.state = g].made = exportQueue[s].made
        /\ [exportQueue[s] EXCEPT !.stalls = k, !.state = g].stalls = k
    BY <1>1 DEF S!Q!JobRows, S!Q!States
  <2> QED
    BY <2>1, <2>2
<1>6. exportQueue'[s] = q
  BY <1>5 DEF ExportsInv, ExportTypes
<1>7. /\ exporter' = exporter /\ exporter \in [Exporters -> S!ExportRuns \cup {None}]
      /\ UNCHANGED <<statement, requesting>>
      /\ announced' \in {announced, announced \cup {s}}
      /\ disturbed' \in {disturbed, disturbed \cup {s}}
      /\ q.state = "failed" => s \in announced'
      /\ (\E x \in Exporters : Runs(x, s)) => s \in disturbed'
  BY <1>6 DEF S!StallExport, ExportsInv, ExportTypes, Runs
<1>8. s \notin disturbed' => OneRun(s)'
  <2>1. SUFFICES ASSUME s \notin disturbed' PROVE OneRun(s)'
    OBVIOUS
  <2>2. \A x \in Exporters : ~Runs(x, s)'
    BY <1>7, <2>1 DEF Runs
  <2>3. S!InHand(s)'
    BY <1>5, <1>6, <1>7 DEF S!InHand, S!Q!Open
  <2> QED
    BY <1>5, <1>6, <2>2, <2>3 DEF OneRun
<1>9. q.state \in {"waiting", "active"} => q.made < ExportAttempts /\ q.stalls < 2
  BY <1>2, <1>4, <1>5
<1>10. exportQueue[s].state # "absent" /\ \A y \in Exporters : exporter'[y] = exporter[y]
  BY <1>1, <1>7
<1> QED
  BY <1>5, <1>7, <1>8, <1>9, <1>10, ExportJobWritten

LEMMA ForgetExportKeeps ==
  ASSUME ExportsInv, NEW s \in Exports, S!ForgetExport(s)
  PROVE  ExportsInv'
<1>1. PICK q \in S!Q!JobRows :
         exportQueue' = [exportQueue EXCEPT ![s] = q] /\ q.state = "absent"
  <2>1. S!Q!Fresh("absent") \in S!Q!JobRows /\ S!Q!Fresh("absent").state = "absent"
    BY ExportsAssumption DEF S!Q!Fresh, S!Q!JobRows, S!Q!States
  <2> QED
    BY <2>1 DEF S!ForgetExport, S!Q!Forget
<1>2. /\ exportQueue[s].state \in {"completed", "failed"}
      /\ \A x \in Exporters : ~Runs(x, s)
      /\ UNCHANGED <<statement, requesting, exporter, announced, disturbed>>
      /\ exporter \in [Exporters -> S!ExportRuns \cup {None}] /\ s \notin announced
  BY DEF S!ForgetExport, S!Q!Forget, Runs, ExportsInv, ExportTypes
<1>3. exportQueue'[s] = q
  BY <1>1 DEF ExportsInv, ExportTypes
<1>4. ASSUME OneRun(s) PROVE OneRun(s)'
  <2>1. ~S!InHand(s)
    <3>1. s \notin requesting
      BY <1>2 DEF ExportsInv, ExportSound, NotBefore
    <3> QED
      BY <1>2, <3>1 DEF S!InHand, S!Q!Open, Runs
  <2>2. \A x \in Exporters : ~Runs(x, s)'
    BY <1>2 DEF Runs
  <2> QED
    BY <1>1, <1>2, <1>3, <1>4, <2>1, <2>2 DEF OneRun
<1>5. s \notin disturbed' => OneRun(s)'
  BY <1>2, <1>4 DEF ExportsInv, ExportSound
<1>6. exportQueue[s].state # "absent" /\ \A y \in Exporters : exporter'[y] = exporter[y]
  BY <1>2
<1> QED
  BY <1>1, <1>2, <1>5, <1>6, ExportJobWritten

LEMMA FinishedExport ==
  ASSUME ExportsInv, NEW s \in Exports, NEW t, NEW thrown \in BOOLEAN,
         S!Q!Finish(s, t, thrown), S!Q!Holds(s, t)
  PROVE  \E q \in S!Q!JobRows :
            /\ exportQueue' = [exportQueue EXCEPT ![s] = q]
            /\ IF thrown THEN q.state \in {"waiting", "failed"} ELSE q.state = "completed"
            /\ q.state = "waiting" => q.made < ExportAttempts /\ q.stalls < 2
<1>1. exportQueue[s] \in S!Q!JobRows /\ exportQueue[s].state = "active"
  BY DEF ExportsInv, ExportTypes, S!Q!Holds
<1>2. exportQueue[s].made < ExportAttempts /\ exportQueue[s].stalls < 2
  BY <1>1 DEF ExportsInv, ExportTypes, QueueTyped
<1>3. PICK g \in {"completed", "waiting", "failed"} :
         /\ exportQueue' = [exportQueue EXCEPT ![s] =
                             [exportQueue[s] EXCEPT !.made = exportQueue[s].made + 1, !.state = g]]
         /\ g = "waiting" => exportQueue[s].made + 1 < ExportAttempts
         /\ IF thrown THEN g # "completed" ELSE g = "completed"
  <2>1. exportQueue' = [exportQueue EXCEPT ![s] =
                    [exportQueue[s] EXCEPT !.made = exportQueue[s].made + 1,
                                     !.state = IF ~thrown THEN "completed"
                                          ELSE IF S!Q!Again(exportQueue[s].made)
                                          THEN "waiting" ELSE "failed"]]
    BY DEF S!Q!Finish
  <2> QED
    BY <2>1 DEF S!Q!Again
<1>4. exportQueue[s].made + 1 \in 0 .. ExportAttempts
  BY <1>1, <1>2, ExportRowFields, ExportsAssumption
<1>5. PICK k \in 0 .. ExportAttempts : k = exportQueue[s].made + 1
  BY <1>4
<1>6. /\ [exportQueue[s] EXCEPT !.made = k, !.state = g] \in S!Q!JobRows
      /\ [exportQueue[s] EXCEPT !.made = k, !.state = g].state = g
      /\ [exportQueue[s] EXCEPT !.made = k, !.state = g].made = k
      /\ [exportQueue[s] EXCEPT !.made = k, !.state = g].stalls = exportQueue[s].stalls
  BY <1>1 DEF S!Q!JobRows, S!Q!States
<1>7. PICK q \in S!Q!JobRows : q = [exportQueue[s] EXCEPT !.made = k, !.state = g]
  BY <1>6
<1>8. exportQueue' = [exportQueue EXCEPT ![s] = q]
  BY <1>3, <1>5, <1>7
<1>9. q.state = g /\ q.made = k /\ q.stalls = exportQueue[s].stalls
  BY <1>6, <1>7
<1> QED
  BY <1>2, <1>3, <1>5, <1>8, <1>9

(* The end of the run x of statement s. *)
LEMMA AcknowledgeExportKeeps ==
  ASSUME ExportsInv, NEW x \in Exporters, S!Acknowledge(x)
  PROVE  ExportsInv'
<1>1. exporter[x] # None /\ exporter[x].stage \in {"returned", "thrown"}
  BY DEF S!Acknowledge, S!At
<1>2. PICK s \in Exports : s = exporter[x].id
  BY <1>1, RunFields
<1>3. PICK t \in S!Q!JobRows \cup {None} : t = exporter[x].token
  BY <1>1, RunFields
<1>4. /\ exporter' = [exporter EXCEPT ![x] = None]
      /\ UNCHANGED <<statement, requesting, disturbed>>
      /\ IF t = None THEN UNCHANGED <<exportQueue, announced>>
         ELSE /\ S!Q!Finish(s, t, exporter[x].stage = "thrown")
              /\ announced' = IF exporter[x].stage = "thrown" /\ S!Q!Holds(s, t)
                              THEN announced \cup {s} ELSE announced
  BY <1>2, <1>3 DEF S!Acknowledge
<1>5. /\ exporter'[x] = None /\ \A y \in Exporters : y # x => exporter'[y] = exporter[y]
      /\ exporter' \in [Exporters -> S!ExportRuns \cup {None}]
  BY <1>4 DEF ExportsInv, ExportTypes
<1>6. Runs(x, s) /\ ExportSound(s) /\ statement[s] # None /\ s \notin requesting
  BY <1>1, <1>2, RunFields, ExportsAssumption DEF Runs, ExportsInv
<1>7. ASSUME OneRun(s) PROVE /\ \A y \in Exporters : ~Runs(y, s)'
                             /\ IF t = None THEN exportQueue[s].state = "absent" ELSE S!Q!Holds(s, t)
                             /\ statement[s].status = IF exporter[x].stage = "thrown"
                                                      THEN "FAILED" ELSE "COMPLETED"
  <2>1. \A y \in Exporters : ~Runs(y, s)'
    BY <1>5, <1>6, <1>7 DEF OneRun, Runs
  <2>2. statement[s].status \in StatusWhen[exporter[x].stage]
    BY <1>6, <1>7 DEF OneRun
  <2> QED
    BY <1>1, <1>3, <1>6, <1>7, <2>1, <2>2, StatusWhenSets DEF OneRun
<1>8. CASE t = None \/ ~S!Q!Holds(s, t)
  <2>1. exportQueue' = exportQueue /\ announced' = announced
    BY <1>4, <1>8 DEF S!Q!Finish
  <2>2. ExportTypes' /\ QueueTyped(exportQueue', ExportAttempts)
    BY <1>4, <1>5, <2>1 DEF ExportsInv, ExportTypes
  <2>3. \A c \in Exports \ {s} : SameFor(c)
    BY <1>4, <1>5, <1>6, <2>1 DEF SameFor, Runs
  <2>4. NotBefore(s)' /\ CompletedHasFile(s)'
    BY <1>4, <1>6 DEF ExportSound, NotBefore, CompletedHasFile
  <2>5. ASSUME OneRun(s) PROVE OneRun(s)'
    BY <1>4, <1>7, <1>8, <2>1, <2>5 DEF OneRun
  <2>6. ExportSound(s)'
    BY <1>4, <1>6, <2>4, <2>5 DEF ExportSound
  <2> QED
    BY <2>2, <2>3, <2>6, OneStatement
<1>9. CASE t # None /\ S!Q!Holds(s, t)
  <2>1. (exporter[x].stage = "thrown") \in BOOLEAN
    OBVIOUS
  <2>2. PICK q \in S!Q!JobRows :
            /\ exportQueue' = [exportQueue EXCEPT ![s] = q]
            /\ IF exporter[x].stage = "thrown" THEN q.state \in {"waiting", "failed"}
               ELSE q.state = "completed"
            /\ q.state = "waiting" => q.made < ExportAttempts /\ q.stalls < 2
    BY <1>4, <1>9, <2>1, FinishedExport
  <2>3. exportQueue'[s] = q
    BY <2>2 DEF ExportsInv, ExportTypes
  <2>4. /\ announced' \in {announced, announced \cup {s}}
        /\ disturbed' \in {disturbed, disturbed \cup {s}}
        /\ UNCHANGED <<statement, requesting>>
        /\ exportQueue[s].state # "absent"
    BY <1>4, <1>9 DEF S!Q!Holds
  <2>5. ASSUME OneRun(s) PROVE OneRun(s)'
    BY <1>4, <1>7, <2>2, <2>3, <2>5 DEF OneRun
  <2>6. s \notin disturbed' => OneRun(s)'
    BY <1>4, <1>6, <2>5 DEF ExportSound
  <2>7. q.state \in {"waiting", "active"} => q.made < ExportAttempts /\ q.stalls < 2
    BY <2>2
  <2>8. \A y \in Exporters : exporter'[y] # exporter[y] =>
            /\ Runs(y, s) \/ exporter[y] = None
            /\ exporter'[y] = None \/ exporter'[y].id = s
    BY <1>5, <1>6
  <2> QED
    BY <1>5, <2>2, <2>4, <2>6, <2>7, <2>8, ExportJobWritten
<1> QED
  BY <1>8, <1>9

(* The write of a 'failed' event is the last of its statement, or disturbs it. *)
LEMMA FailedEventKeeps ==
  ASSUME ExportsInv, NEW s \in Exports, NEW written \in BOOLEAN, S!WriteFailedEvent(s, written)
  PROVE  ExportsInv'
<1>1. /\ s \in announced /\ announced' = announced \ {s}
      /\ UNCHANGED <<requesting, exportQueue, exporter>>
      /\ disturbed \subseteq disturbed' /\ disturbed' \subseteq Exports
      /\ s \notin disturbed' => written /\ exportQueue[s].state = "failed"
      /\ \A c \in Exports \ {s} : c \in disturbed' <=> c \in disturbed
  BY DEF S!WriteFailedEvent, ExportsInv, ExportTypes
<1>2. ExportSound(s)
  BY DEF ExportsInv
<1>3. statement[s] \in S!StatementRows /\ s \notin requesting
  BY <1>1, <1>2 DEF ExportSound, NotBefore, ExportsInv, ExportTypes
<1>4. PICK r \in S!StatementRows :
         /\ statement' = [statement EXCEPT ![s] = r]
         /\ IF written THEN r.status = "FAILED" ELSE r = statement[s]
  <2>1. CASE written
    <3>1. statement' = [statement EXCEPT ![s].status = "FAILED"]
      BY <2>1 DEF S!WriteFailedEvent
    <3> QED
      BY <1>3, <2>1, <3>1, WithStatus
  <2>2. CASE ~written
    <3>1. Unwritten
      BY <2>2 DEF S!WriteFailedEvent, Unwritten
    <3> QED
      BY <1>3, <2>2, <3>1, SameStatement
  <2> QED
    BY <2>1, <2>2
<1>5. statement'[s] = r /\ \A c \in Exports : c # s => statement'[c] = statement[c]
  BY <1>4 DEF ExportsInv, ExportTypes
<1>6. ExportTypes' /\ QueueTyped(exportQueue', ExportAttempts)
  BY <1>1, <1>4 DEF ExportsInv, ExportTypes
<1>7. \A c \in Exports \ {s} : SameFor(c)
  BY <1>1, <1>5 DEF SameFor, Runs
<1>8. NotBefore(s)' /\ CompletedHasFile(s)'
  <2>1. r # None
    BY ExportsAssumption
  <2> QED
    BY <1>1, <1>2, <1>3, <1>4, <1>5, <2>1, ExportsAssumption
       DEF ExportSound, NotBefore, CompletedHasFile
<1>9. ASSUME s \notin disturbed' PROVE OneRun(s)'
  <2>1. OneRun(s) /\ exportQueue[s].state = "failed" /\ r.status = "FAILED"
    BY <1>1, <1>2, <1>4, <1>9 DEF ExportSound
  <2>2. \A x \in Exporters : ~Runs(x, s)
    BY <2>1 DEF OneRun, S!Q!Holds
  <2>3. \A x \in Exporters : ~Runs(x, s)'
    BY <1>1, <2>2 DEF Runs
  <2> QED
    BY <1>1, <1>5, <2>1, <2>3 DEF OneRun
<1> QED
  BY <1>6, <1>7, <1>8, <1>9, OneStatement DEF ExportSound

LEMMA ExpireKeeps ==
  ASSUME ExportsInv, NEW s \in Exports, S!Expire(s)
  PROVE  ExportsInv'
<1>1. statement[s] \in S!StatementRows /\ statement[s] # None
  BY DEF S!Expire, ExportsInv, ExportTypes
<1>2. PICK r \in S!StatementRows :
         /\ statement' = [statement EXCEPT ![s] = r]
         /\ r.status = statement[s].status /\ r.file = statement[s].file
  <2>1. /\ [statement[s] EXCEPT !.expired = TRUE] \in S!StatementRows
        /\ [statement[s] EXCEPT !.expired = TRUE].status = statement[s].status
        /\ [statement[s] EXCEPT !.expired = TRUE].file = statement[s].file
    BY <1>1 DEF S!StatementRows
  <2> QED
    BY <2>1 DEF S!Expire
<1>3. UNCHANGED <<requesting, exportQueue, exporter, announced, disturbed>> /\ r # None
  BY ExportsAssumption DEF S!Expire
<1>4. statement'[s] = r /\ \A c \in Exports : c # s => statement'[c] = statement[c]
  BY <1>2 DEF ExportsInv, ExportTypes
<1>5. ExportTypes' /\ QueueTyped(exportQueue', ExportAttempts)
  BY <1>2, <1>3 DEF ExportsInv, ExportTypes
<1>6. \A c \in Exports \ {s} : SameFor(c)
  BY <1>3, <1>4 DEF SameFor, Runs
<1>7. ExportSound(s)
  BY DEF ExportsInv
<1>8. NotBefore(s)' /\ CompletedHasFile(s)'
  BY <1>1, <1>2, <1>3, <1>4, <1>7 DEF ExportSound, NotBefore, CompletedHasFile, Runs
<1>9. ASSUME OneRun(s) PROVE OneRun(s)'
  <2>1. S!InHand(s)' <=> S!InHand(s)
    BY <1>3 DEF S!InHand, S!Q!Open
  <2>2. \A x \in Exporters : /\ Runs(x, s)' <=> Runs(x, s)
                             /\ S!Q!Holds(s, exporter[x].token)' <=> S!Q!Holds(s, exporter[x].token)
    BY <1>3 DEF Runs, S!Q!Holds
  <2> QED
    BY <1>1, <1>2, <1>3, <1>4, <1>9, <2>1, <2>2 DEF OneRun
<1>10. ExportSound(s)'
  BY <1>3, <1>7, <1>8, <1>9 DEF ExportSound
<1> QED
  BY <1>5, <1>6, <1>10, OneStatement

(* After a death of the process a job that was begun is open, and all else
   that was under way is disturbed. *)
LEMMA ExportCrashKeeps ==
  ASSUME ExportsInv, S!ExportCrash
  PROVE  ExportsInv'
<1>1. /\ UNCHANGED <<statement, exportQueue>> /\ requesting' = {} /\ announced' = {}
      /\ \A x \in Exporters : exporter'[x] = None
      /\ disturbed \subseteq disturbed' /\ requesting \subseteq disturbed'
      /\ announced \subseteq disturbed'
      /\ \A x \in Exporters, s \in Exports : Runs(x, s) /\ exporter[x].token = None => s \in disturbed'
  BY DEF S!ExportCrash, Runs
<1>2. ExportTypes' /\ QueueTyped(exportQueue', ExportAttempts)
  BY <1>1 DEF S!ExportCrash, ExportsInv, ExportTypes
<1>3. ASSUME NEW s \in Exports PROVE ExportSound(s)'
  <2>1. ExportSound(s)
    BY DEF ExportsInv
  <2>2. NotBefore(s)' /\ CompletedHasFile(s)'
    BY <1>1, <2>1 DEF ExportSound, NotBefore, CompletedHasFile, Runs
  <2>3. ASSUME s \notin disturbed' PROVE OneRun(s)'
    <3>1. OneRun(s) /\ s \notin requesting \cup announced
      BY <1>1, <2>1, <2>3 DEF ExportSound
    <3>2. \A x \in Exporters : Runs(x, s) => exportQueue[s].state = "active"
      BY <1>1, <2>3, <3>1 DEF OneRun, S!Q!Holds
    <3>3. S!InHand(s) => S!InHand(s)'
      BY <1>1, <3>1, <3>2 DEF S!InHand, S!Q!Open, Runs
    <3>4. \A x \in Exporters : ~Runs(x, s)'
      BY <1>1 DEF Runs
    <3> QED
      BY <1>1, <3>1, <3>3, <3>4 DEF OneRun
  <2> QED
    BY <2>2, <2>3 DEF ExportSound
<1> QED
  BY <1>2, <1>3 DEF ExportsInv

LEMMA ExportsStep ==
  ASSUME ExportsInv, S!NextExports
  PROVE  ExportsInv'
<1>1. ASSUME NEW s \in Exports,
             S!InitiateExport(s) \/ S!Enqueue(s) \/ S!StallExport(s) \/ S!ForgetExport(s) \/ S!Expire(s)
      PROVE  ExportsInv'
  BY <1>1, InitiateKeeps, EnqueueExportKeeps, StallExportKeeps, ForgetExportKeeps, ExpireKeeps
<1>2. ASSUME NEW s \in Exports, NEW written \in BOOLEAN, S!WriteFailedEvent(s, written)
      PROVE  ExportsInv'
  BY <1>2, FailedEventKeeps
<1>3. ASSUME NEW s \in Exports, NEW x \in Exporters, S!TakeJob(x, s) PROVE ExportsInv'
  BY <1>3, TakeExportKeeps
<1>4. ASSUME NEW x \in Exporters,
             \/ S!MarkProcessing(x) \/ S!MarkProcessingFails(x) \/ S!Build(x) \/ S!MarkCompleted(x)
             \/ S!Notify(x) \/ S!ExportThrows(x) \/ \E written \in BOOLEAN : S!CatchExport(x, written)
      PROVE  ExportsInv'
  BY <1>4, RunStepKeeps
<1>5. ASSUME NEW x \in Exporters, S!Acknowledge(x) PROVE ExportsInv'
  BY <1>5, AcknowledgeExportKeeps
<1>6. CASE S!ExportCrash
  BY <1>6, ExportCrashKeeps
<1> QED
  BY <1>1, <1>2, <1>3, <1>4, <1>5, <1>6 DEF S!NextExports

LEMMA ExportsStutter ==
  ASSUME ExportsInv, UNCHANGED exportVars
  PROVE  ExportsInv'
<1>1. ExportTypes' /\ QueueTyped(exportQueue', ExportAttempts)
  BY DEF exportVars, ExportsInv, ExportTypes
<1>2. \A s \in Exports : SameFor(s)
  BY DEF SameFor, Runs, exportVars
<1>3. ASSUME NEW s \in Exports PROVE ExportSound(s)'
  BY <1>2, SameForKeeps DEF ExportsInv
<1> QED
  BY <1>1, <1>3 DEF ExportsInv

LEMMA ExportsNext ==
  ASSUME ExportsInv, [Next]_vars
  PROVE  ExportsInv'
BY ExportsStep, ExportsStutter
   DEF Next, Opening, Submitting, Sending, Exporting, Alerting, Chatting, vars

-----------------------------------------------------------------------------
(* The initial states.                                                     *)

LEMMA HooksInit ==
  ASSUME Init
  PROVE  HooksInv
<1>1. Q!Fresh("absent") \in Q!JobRows /\ Q!Fresh("absent").state = "absent"
  BY HookLimitsAssumption DEF Q!Fresh, Q!JobRows, Q!States
<1>2. HookTypes
  BY <1>1 DEF Init, InitHooks, HookTypes, Q!InitQueue, EndpointStates
<1>3. /\ \A d \in Deliveries : hooks[d].state = "absent" /\ delivery[d] = None
      /\ \A x \in Dispatchers : dispatch[x] = None
      /\ \A n \in Senders : sender[n] = None
      /\ DOMAIN hooks = Deliveries
  BY <1>1 DEF Init, InitHooks, Q!InitQueue
<1> QED
  BY <1>2, <1>3 DEF HooksInv, RowsFound, QueueTyped, Tokens, PendingAtWork

LEMMA EndpointsInit ==
  ASSUME Init
  PROVE  EndpointsCounted
<1>1. PICK existing \in {{CHOOSE e \in Endpoints : TRUE}, {}} :
         endpoint = [e \in Endpoints |-> IF e \in existing THEN "ACTIVE" ELSE None]
  BY DEF Init, InitHooks
<1>2. PICK a \in SUBSET Endpoints : a = ActiveEndpoints \ reenabled
  BY DEF ActiveEndpoints
<1>3. PICK k : existing \subseteq {k}
  BY <1>1
<1>4. a \subseteq {k}
  BY <1>1, <1>2, <1>3, NoHookAssumption DEF ActiveEndpoints, EndpointStates
<1>5. IsFiniteSet({k}) /\ Cardinality({k}) = 1
  BY FS_Singleton
<1>6. Cardinality(a) <= 1
  BY <1>4, <1>5, FS_Subset
<1>7. opening = {} /\ Cardinality({}) = 0
  BY FS_EmptySet DEF Init, InitHooks
<1>8. Cardinality(Openers) \in Nat /\ Cardinality(Openers) > 0 /\ Cardinality(a) \in Nat
  BY OpenerSets, EndpointSets
<1>9. Cardinality(a) + 0 <= MaxEndpoints + Cardinality(Openers) - 1
  BY <1>6, <1>8, HookLimitsAssumption
<1> QED
  BY <1>2, <1>7, <1>9 DEF EndpointsCounted

LEMMA JobsInit ==
  ASSUME Init
  PROVE  JobsInv /\ JobsCounted
<1>1. /\ job = [j \in Jobs |-> None] /\ executor = [j \in Jobs |-> None]
      /\ submitting = {} /\ lostJobs = {} /\ \A j \in Jobs : dispatch[j] = None
  BY JobsAssumption DEF Init, InitJobs, InitHooks
<1>2. ActiveJobs = {}
  BY <1>1, JobsAssumption DEF ActiveJobs, JobStates
<1>3. JobsInv
  BY <1>1, <1>2 DEF JobsInv, JobTypes, ExecutorTells, ActiveIsExecuted
<1>4. Cardinality({}) = 0 /\ Cardinality(Submitters) \in Nat /\ Cardinality(Submitters) > 0
  BY FS_EmptySet, SubmitterSets
<1>5. Cardinality(ActiveJobs) + Cardinality(submitting) = 0
  BY <1>1, <1>2, <1>4
<1> QED
  BY <1>3, <1>4, <1>5, JobsAssumption DEF JobsCounted

LEMMA ExportsInit ==
  ASSUME Init
  PROVE  ExportsInv
<1>1. S!Q!Fresh("absent") \in S!Q!JobRows /\ S!Q!Fresh("absent").state = "absent"
  BY ExportsAssumption DEF S!Q!Fresh, S!Q!JobRows, S!Q!States
<1>2. ExportTypes
  BY <1>1 DEF Init, S!InitExports, ExportTypes, S!Q!InitQueue
<1>3. /\ \A s \in Exports : exportQueue[s].state = "absent" /\ statement[s] = None
      /\ \A x \in Exporters : exporter[x] = None
      /\ DOMAIN exportQueue = Exports /\ announced = {} /\ requesting = {}
  BY <1>1 DEF Init, S!InitExports, S!Q!InitQueue
<1>4. \A s \in Exports : ExportSound(s)
  BY <1>3 DEF ExportSound, NotBefore, OneRun, CompletedHasFile, Runs
<1> QED
  BY <1>2, <1>3, <1>4 DEF ExportsInv, QueueTyped

LEMMA DeliveriesAreInHand ==
  ASSUME HooksInv
  PROVE  PendingIsInHand
BY DEF HooksInv, PendingAtWork, AtWork, BeingQueued, SentDirectly, InAttempt, PendingIsInHand,
       HookInHand, Q!Open

LEMMA StatementsAreTold ==
  ASSUME ExportsInv
  PROVE  S!StatementsTellOutcome
BY DEF ExportsInv, ExportSound, OneRun, CompletedHasFile, S!StatementsTellOutcome, S!Valid,
       S!Downloadable

-----------------------------------------------------------------------------
LEMMA WorkAlways == Spec => [](WorkInv /\ ExportsInv)
<1>1. Init => WorkInv /\ ExportsInv
  BY HooksInit, EndpointsInit, JobsInit, ExportsInit DEF WorkInv
<1>2. WorkInv /\ ExportsInv /\ [Next]_vars => WorkInv' /\ ExportsInv'
  BY WorkStep, ExportsNext
<1> QED
  BY <1>1, <1>2, PTL DEF Spec

(* A user passes the limits of active endpoints and of unfinished jobs by the
   requests that run at the same time, less one, and by nothing else but
   endpoints enabled again. *)
THEOREM QueueLimits == Spec => []LimitsHold
<1>1. WorkInv => LimitsHold
  BY EndpointsHold, JobsHold DEF WorkInv, LimitsHold
<1> QED
  BY <1>1, WorkAlways, PTL

(* A delivery that is PENDING, an unfinished job and a statement that has not
   ended are at work, and what ended well has its file, unless a named event
   lost it: a death of the process, a stall, a write that failed, a retry that
   the queue ignored. *)
THEOREM QueueWork == Spec => []WorkIsInHand
<1>1. WorkInv /\ ExportsInv => WorkIsInHand
  BY DeliveriesAreInHand, StatementsAreTold DEF WorkInv, JobsInv, WorkIsInHand
<1> QED
  BY <1>1, WorkAlways, PTL

-----------------------------------------------------------------------------
(* The alerts: pages of a set, in order of its numbers.                    *)

(* The module that MCQueues instantiates has a Cardinality of its own. *)
LEMMA SameCardinality == \A T : A!Cardinality(T) = Cardinality(T)
BY DEF A!Cardinality, Cardinality

LEMMA MaxOf ==
  ASSUME NEW T, T \subseteq Nat, IsFiniteSet(T), T # {}
  PROVE  A!Max(T) \in T /\ \A t \in T : t <= A!Max(T)
<1> DEFINE above(t) == {u \in T : u > t}
<1>1. PICK B \in SUBSET SUBSET T : B = {above(t) : t \in T} /\ B # {}
  <2>1. {above(t) : t \in T} \in SUBSET SUBSET T /\ {above(t) : t \in T} # {}
    OBVIOUS
  <2> QED
    BY <2>1
<1>2. PICK b \in B : \A c \in B : ~(c \subseteq b /\ c # b)
  <2>1. B # {} /\ IsFiniteSet(T)
    BY <1>1
  <2> QED
    BY ONLY <2>1, B \in SUBSET SUBSET T, SmallestSubset
<1>3. PICK t \in T : b = above(t)
  BY <1>1
<1>4. \A u \in T : u <= t
  <2>1. ASSUME NEW u \in T PROVE ~(u > t)
    <3> SUFFICES ASSUME u > t PROVE FALSE
      OBVIOUS
    <3>1. ASSUME NEW x \in T, x > u PROVE x > t
      <4>1. x \in Nat /\ u \in Nat /\ t \in Nat
        OBVIOUS
      <4> QED
        BY <3>1, <4>1
    <3>2. u \in above(t) /\ u \notin above(u)
      <4>1. u \in Nat
        OBVIOUS
      <4> QED
        BY <4>1
    <3>3. above(u) \in B /\ above(u) \subseteq above(t)
      BY <1>1, <3>1
    <3> HIDE DEF above
    <3> QED
      BY <1>2, <1>3, <3>2, <3>3
  <2>2. ASSUME NEW u \in T PROVE u <= t
    <3>1. u \in Nat /\ t \in Nat
      OBVIOUS
    <3> QED
      BY <2>1, <3>1
  <2> QED
    BY <2>2
<1> QED
  BY <1>4 DEF A!Max

(* The first k of a set are k, or all of it, and lie below the others. *)
LEMMA FirstOnes ==
  ASSUME NEW T \in SUBSET Nat, IsFiniteSet(T), NEW k \in Nat \ {0},
         NEW s \in T, s \notin A!FirstOf(T, k)
  PROVE  /\ Cardinality(A!FirstOf(T, k)) = k
         /\ \A t \in A!FirstOf(T, k) : t < s
<1> DEFINE below(x) == {t \in T : t < x}
           first == A!FirstOf(T, k)
<1>1. first = {x \in T : Cardinality(below(x)) < k}
  BY SameCardinality DEF A!FirstOf
<1> HIDE DEF first
<1>2. ASSUME NEW x \in T
      PROVE  IsFiniteSet(below(x)) /\ Cardinality(below(x)) \in Nat
  BY FS_Subset, FS_CardinalityType
<1>3. ASSUME NEW x \in T, NEW y \in T, x <= y
      PROVE  Cardinality(below(x)) <= Cardinality(below(y))
  <2>1. ASSUME NEW t \in T, t < x PROVE t < y
    <3>1. t \in Nat /\ x \in Nat /\ y \in Nat
      OBVIOUS
    <3> QED
      BY <1>3, <2>1, <3>1
  <2>2. below(x) \subseteq below(y)
    BY <2>1
  <2> QED
    BY <1>2, <2>2, FS_Subset
<1>4. ASSUME NEW x \in first, NEW y \in T, y \notin first PROVE x < y
  <2>1. x \in T /\ x \in Nat /\ y \in Nat
    BY <1>1
  <2>2. CASE y <= x
    <3> DEFINE cx == Cardinality(below(x))
               cy == Cardinality(below(y))
    <3>1. cy <= cx /\ cx \in Nat /\ cy \in Nat /\ cx < k /\ ~(cy < k)
      BY <1>1, <1>2, <1>3, <1>4, <2>1, <2>2
    <3> HIDE DEF cx, cy
    <3> QED
      BY <3>1
  <2> QED
    BY <2>1, <2>2
<1>5. first \subseteq T /\ first \in SUBSET Nat /\ IsFiniteSet(first) /\ Cardinality(first) \in Nat
  BY <1>1, FS_Subset, FS_CardinalityType
<1>6. PICK y \in T \ first : \A z \in T \ first : y <= z
  <2>1. T \ first \in SUBSET Nat /\ T \ first # {}
    BY DEF first
  <2> QED
    BY <2>1, SmallestNumber
<1>7. below(y) = first
  <2>1. ASSUME NEW t \in T, t < y, t \notin first PROVE FALSE
    <3>1. t \in Nat /\ y \in Nat /\ y <= t
      BY <1>6, <2>1
    <3> QED
      BY <2>1, <3>1
  <2> QED
    BY <1>4, <1>5, <1>6, <2>1
<1>8. Cardinality(first) >= k
  <2>1. ~(Cardinality(first) < k)
    BY <1>1, <1>6, <1>7
  <2> QED
    BY <2>1, <1>5
<1>9. Cardinality(first) <= k
  <2>1. CASE first = {}
    BY <2>1, FS_EmptySet
  <2>2. CASE first # {}
    <3>1. PICK m \in first : \A x \in first : x <= m
      BY <2>2, <1>5, MaxOf
    <3>2. first = below(m) \cup {m}
      <4>1. ASSUME NEW x \in T, x < m PROVE x \in first
        <5>1. x \in Nat /\ m \in Nat /\ ~(m < x)
          BY <4>1, <1>5
        <5> QED
          BY <1>4, <5>1
      <4>2. ASSUME NEW x \in first, x # m PROVE x < m
        <5>1. x \in Nat /\ m \in Nat /\ x <= m
          BY <3>1, <1>5
        <5> QED
          BY <4>2, <5>1
      <4> QED
        BY <3>1, <1>5, <4>1, <4>2
    <3>3. m \notin below(m)
      <4>1. m \in Nat
        BY <1>5
      <4> QED
        BY <4>1
    <3>4. Cardinality(first) = Cardinality(below(m)) + 1
      BY <3>2, <3>3, <1>2, <1>5, FS_AddElement
    <3>5. Cardinality(below(m)) \in Nat /\ Cardinality(below(m)) < k
      BY <1>1, <1>2, <3>1
    <3> QED
      BY <3>4, <3>5
  <2> QED
    BY <2>1, <2>2
<1>10. Cardinality(first) = k
  BY <1>5, <1>8, <1>9
<1>11. \A t \in first : t < s
  BY <1>4 DEF first
<1> QED
  BY <1>10, <1>11 DEF first

-----------------------------------------------------------------------------
(* Notices.                                                                *)

(* What was read when a request read it is read still, or gone. *)
ReadStays ==
  \A c \in Callers :
     caller[c] # None /\ caller[c].step \in {"read", "remove"} /\ caller[c].wasRead
        /\ inbox[caller[c].about] # None => inbox[caller[c].about].isRead

(* A page shows the number of unread notices, or a request will tell it, and
   a count that is about to be told is that number. *)
WillTell(p) ==
  \E c \in Callers : caller[c] # None /\ caller[c].step \in {"count", "push"} /\ p \in caller[c].to

BadgesFollow ==
  ~missed =>
    /\ \A p \in Pages : badge[p] # None => badge[p] = A!Unread \/ WillTell(p)
    /\ \A c \in Callers : caller[c] # None /\ caller[c].step = "push" => caller[c].count = A!Unread

(* Of a pass during which nothing changed: a subject was told, is on the page,
   or comes on a later one. *)
Told(s) == enabled => \A key \in A!KeysOf(s, subject[s]) : ~A!Absent(key) \/ key \in removed
Listed(s) == \E r \in scan.left : r.id = s
ToCome(s) ==
  \/ (s \in Goals) = scan.isGoal /\ scan.cursor # 0 /\ s > scan.cursor /\ (scan.isGoal => scan.isFull)
  \/ s \in Goals /\ ~scan.isGoal

CopiesTrue == \A r \in scan.left : r.row = subject[r.id]
CursorStands ==
  scan.cursor # 0 => ~subject[scan.cursor].isArchived /\ (scan.cursor \in Goals) = scan.isGoal

PassTells ==
  steady =>
    IF scan = None THEN \A s \in Subjects : ~subject[s].isArchived => Told(s)
    ELSE /\ \A s \in Subjects : ~subject[s].isArchived => Told(s) \/ Listed(s) \/ ToCome(s)
         /\ CopiesTrue /\ CursorStands

NoticesInv == A!TypeOKAlerts /\ ReadStays /\ BadgesFollow /\ PassTells

-----------------------------------------------------------------------------
(* The pages of a pass.                                                    *)

RowsFrom(g, c) ==
  {s \in Subjects : (s \in Goals) = g /\ s >= c /\ ~subject[s].isArchived}

LEMMA CandidateSets ==
  ASSUME NEW g \in BOOLEAN, NEW c \in Subjects \cup {0}
  PROVE  /\ A!Candidates(g, c) \subseteq RowsFrom(g, c)
         /\ A!Candidates(g, c) \in SUBSET Nat /\ IsFiniteSet(A!Candidates(g, c))
         /\ c = 0 => A!Candidates(g, c) = RowsFrom(g, c)
<1>1. A!Candidates(g, c) \subseteq RowsFrom(g, c)
  BY DEF A!Candidates, RowsFrom
<1>2. RowsFrom(g, c) \subseteq Subjects /\ IsFiniteSet(Subjects) /\ Subjects \subseteq Nat
  BY AlertsAssumption DEF RowsFrom
<1>3. ASSUME c = 0 PROVE A!FirstOf(RowsFrom(g, c), 0) = {}
  <2>1. \A s \in RowsFrom(g, c) : ~(Cardinality({t \in RowsFrom(g, c) : t < s}) < 0)
    BY <1>2, FS_Subset, FS_CardinalityType
  <2> QED
    BY <2>1, SameCardinality DEF A!FirstOf
<1>4. A!Candidates(g, c) = RowsFrom(g, c) \ A!FirstOf(RowsFrom(g, c), IF c = 0 THEN 0 ELSE 1)
  BY DEF A!Candidates, RowsFrom
<1>5. A!Candidates(g, c) \subseteq Subjects /\ IsFiniteSet(A!Candidates(g, c))
  BY <1>1, <1>2, FS_Subset
<1> QED
  BY <1>1, <1>2, <1>3, <1>4, <1>5

(* After a row that still stands come all the rows with a higher number. *)
LEMMA CandidatesAfter ==
  ASSUME NEW g \in BOOLEAN, NEW c \in Subjects, ~subject[c].isArchived, (c \in Goals) = g,
         NEW s \in Subjects, ~subject[s].isArchived, (s \in Goals) = g, s > c
  PROVE  s \in A!Candidates(g, c)
<1> DEFINE rows == RowsFrom(g, c)
           below == {t \in rows : t < s}
<1>1. s \in Nat /\ c \in Nat /\ c # 0
  BY AlertsAssumption
<1>2. s \in rows /\ c \in rows /\ c \in below
  BY <1>1 DEF RowsFrom
<1>3. rows \subseteq Subjects /\ IsFiniteSet(Subjects)
  BY AlertsAssumption DEF RowsFrom
<1>4. IsFiniteSet(below)
  <2>1. below \subseteq Subjects
    BY <1>3
  <2> QED
    BY <1>3, <2>1, FS_Subset
<1>5. ~(Cardinality(below) < 1)
  BY <1>2, <1>4, FS_EmptySet, FS_CardinalityType
<1>6. s \notin A!FirstOf(rows, 1)
  BY <1>5, SameCardinality DEF A!FirstOf
<1>7. A!Candidates(g, c) = rows \ A!FirstOf(rows, 1)
  BY <1>1 DEF A!Candidates, RowsFrom
<1> QED
  BY <1>2, <1>6, <1>7

LEMMA PageFields ==
  ASSUME NEW g \in BOOLEAN, NEW c \in Subjects \cup {0}, NEW p, p = A!NextPage(g, c),
         NEW page, page = A!FirstOf(A!Candidates(g, c), Page)
  PROVE  /\ p.left = {[id |-> s, row |-> subject[s]] : s \in page}
         /\ p.isGoal = g /\ p.isFull = (Cardinality(page) = Page)
         /\ p.cursor = IF page = {} THEN 0 ELSE A!Max(page)
         /\ page \subseteq RowsFrom(g, c) /\ page \subseteq Subjects
         /\ page # {} => A!Max(page) \in page /\ \A t \in page : t <= A!Max(page)
         /\ A!TypeOKAlerts => p \in A!Scans
<1>1. /\ p.left = {[id |-> s, row |-> subject[s]] : s \in page}
      /\ p.isGoal = g /\ p.isFull = (Cardinality(page) = Page)
      /\ p.cursor = IF page = {} THEN 0 ELSE A!Max(page)
  BY SameCardinality DEF A!NextPage
<1>2. page \subseteq A!Candidates(g, c)
  BY DEF A!FirstOf
<1>3. page \subseteq RowsFrom(g, c) /\ page \subseteq Subjects /\ page \subseteq Nat
  BY <1>2, CandidateSets DEF RowsFrom
<1>4. IsFiniteSet(page)
  BY <1>2, CandidateSets, FS_Subset
<1>5. page # {} => A!Max(page) \in page /\ \A t \in page : t <= A!Max(page)
  BY <1>3, <1>4, MaxOf
<1>6. ASSUME A!TypeOKAlerts PROVE p \in A!Scans
  <2>1. \A s \in page : [id |-> s, row |-> subject[s]] \in [id : Subjects, row : A!SubjectRows]
    BY <1>3, <1>6 DEF A!TypeOKAlerts
  <2>2. p = [left |-> p.left, isGoal |-> p.isGoal, cursor |-> p.cursor, isFull |-> p.isFull]
    BY DEF A!NextPage
  <2>3. p.cursor \in Subjects \cup {0}
    BY <1>1, <1>3, <1>5
  <2> QED
    BY <1>1, <2>1, <2>2, <2>3 DEF A!Scans
<1> QED
  BY <1>1, <1>3, <1>5, <1>6

LEMMA PageRows ==
  ASSUME NEW g \in BOOLEAN, NEW c \in Subjects \cup {0}, NEW p, p = A!NextPage(g, c)
  PROVE  /\ p.isGoal = g /\ (A!TypeOKAlerts => p \in A!Scans /\ p # None)
         /\ \A r \in p.left : r.row = subject[r.id]
         /\ p.cursor # 0 => ~subject[p.cursor].isArchived /\ (p.cursor \in Goals) = g
<1> DEFINE page == A!FirstOf(A!Candidates(g, c), Page)
<1>1. /\ p.left = {[id |-> s, row |-> subject[s]] : s \in page}
      /\ p.isGoal = g /\ (A!TypeOKAlerts => p \in A!Scans)
      /\ p.cursor = IF page = {} THEN 0 ELSE A!Max(page)
      /\ page \subseteq RowsFrom(g, c)
      /\ page # {} => A!Max(page) \in page
  BY PageFields
<1> HIDE DEF page
<1>2. \A r \in p.left : r.row = subject[r.id]
  BY <1>1
<1> QED
  BY <1>1, <1>2, AlertsAssumption DEF RowsFrom

(* Who comes after the cursor is on the next page, or after its last row,
   and then that page is full. *)
LEMMA PageOrLater ==
  ASSUME NEW g \in BOOLEAN, NEW c \in Subjects \cup {0}, NEW p, p = A!NextPage(g, c),
         c # 0 => ~subject[c].isArchived /\ (c \in Goals) = g,
         NEW s \in Subjects, ~subject[s].isArchived, (s \in Goals) = g, s > c
  PROVE  (\E r \in p.left : r.id = s) \/ (p.cursor # 0 /\ s > p.cursor /\ p.isFull)
<1> DEFINE page == A!FirstOf(A!Candidates(g, c), Page)
<1>1. /\ p.left = {[id |-> t, row |-> subject[t]] : t \in page}
      /\ p.isFull = (Cardinality(page) = Page)
      /\ p.cursor = IF page = {} THEN 0 ELSE A!Max(page)
      /\ page # {} => A!Max(page) \in page
      /\ page \subseteq Subjects
  BY PageFields
<1>2. s \in A!Candidates(g, c)
  <2>1. CASE c = 0
    <3>1. s \in Nat
      BY AlertsAssumption
    <3> QED
      BY <2>1, <3>1, CandidateSets DEF RowsFrom
  <2>2. CASE c # 0
    BY <2>2, CandidatesAfter
  <2> QED
    BY <2>1, <2>2
<1>3. CASE s \in page
  <2> DEFINE copy == [id |-> s, row |-> subject[s]]
  <2>1. copy \in p.left /\ copy.id = s
    BY <1>1, <1>3
  <2> HIDE DEF copy
  <2> QED
    BY <2>1
<1>4. CASE s \notin page
  <2>1. A!Candidates(g, c) \in SUBSET Nat /\ IsFiniteSet(A!Candidates(g, c))
    BY CandidateSets
  <2>2. Cardinality(page) = Page /\ \A t \in page : t < s
    BY <1>2, <1>4, <2>1, FirstOnes, AlertsAssumption
  <2>3. page # {}
    BY <2>2, FS_EmptySet, AlertsAssumption
  <2>4. p.cursor \in page /\ p.cursor \in Nat \ {0} /\ s \in Nat /\ p.cursor < s
    BY <1>1, <2>2, <2>3, AlertsAssumption
  <2> QED
    BY <1>1, <2>2, <2>4
<1> QED
  BY <1>3, <1>4

-----------------------------------------------------------------------------
(* Steps that change what is told about.                                   *)

(* The pass after a step that creates notices or removes them. *)
LEMMA TellingKept ==
  ASSUME PassTells, UNCHANGED <<subject, enabled, scan>>, steady' => steady,
         removed \subseteq removed',
         \A key \in A!KeyRows : ~A!Absent(key) => ~A!Absent(key)' \/ key \in removed',
         A!TypeOKAlerts
  PROVE  PassTells'
<1>1. ASSUME NEW s \in Subjects, Told(s) PROVE Told(s)'
  <2>1. A!KeysOf(s, subject[s]) \subseteq A!KeyRows
    BY DEF A!TypeOKAlerts, A!SubjectRows, A!KeysOf, A!AlertsOf, A!KeyRows, A!Kinds
  <2>2. A!KeysOf(s, subject[s])' = A!KeysOf(s, subject[s])
    BY DEF A!KeysOf, A!AlertsOf, A!Near
  <2> QED
    BY <1>1, <2>1, <2>2 DEF Told
<1>2. \A s \in Subjects : (Listed(s)' <=> Listed(s)) /\ (ToCome(s)' <=> ToCome(s))
  BY DEF Listed, ToCome
<1>3. (CopiesTrue' <=> CopiesTrue) /\ (CursorStands' <=> CursorStands)
  BY DEF CopiesTrue, CursorStands
<1> QED
  BY <1>1, <1>2, <1>3 DEF PassTells

(* The pass when nothing it depends on is written but the pass itself. *)
LEMMA ToldAlike ==
  ASSUME UNCHANGED <<subject, enabled, inbox, removed>>, NEW s \in Subjects
  PROVE  Told(s)' <=> Told(s)
BY DEF Told, A!KeysOf, A!AlertsOf, A!Near, A!Absent

LEMMA InboxAlike ==
  ASSUME ReadStays, BadgesFollow, UNCHANGED <<inbox, caller, badge, missed>>
  PROVE  ReadStays' /\ BadgesFollow'
BY DEF ReadStays, BadgesFollow, WillTell, A!Unread

LEMMA ChangesKeep ==
  ASSUME NoticesInv, (\E s \in Subjects : A!Edit(s)) \/ A!Switch
  PROVE  NoticesInv'
<1>1. ASSUME NEW s \in Subjects, A!Edit(s) PROVE NoticesInv'
  <2>1. subject[s] \in A!SubjectRows /\ Target \in Nat \ {0}
    BY AlertsAssumption DEF NoticesInv, A!TypeOKAlerts
  <2>2. PICK r \in A!SubjectRows : A!Change(s, r)
    <3>1. \A t \in A!Tenths : [subject[s] EXCEPT !.reached = t] \in A!SubjectRows
      BY <2>1 DEF A!SubjectRows
    <3>2. [subject[s] EXCEPT !.amount = Target + 1] \in A!SubjectRows
      BY <2>1 DEF A!SubjectRows
    <3>3. [subject[s] EXCEPT !.isDue = TRUE] \in A!SubjectRows
      BY <2>1 DEF A!SubjectRows
    <3>4. [subject[s] EXCEPT !.isArchived = ~@] \in A!SubjectRows
      BY <2>1 DEF A!SubjectRows
    <3> QED
      BY <1>1, <3>1, <3>2, <3>3, <3>4 DEF A!Edit
  <2>3. A!TypeOKAlerts'
    BY <2>2 DEF A!Change, NoticesInv, A!TypeOKAlerts
  <2> QED
    BY <2>2, <2>3, InboxAlike DEF A!Change, NoticesInv, PassTells
<1>2. CASE A!Switch
  BY <1>2, InboxAlike DEF A!Switch, NoticesInv, A!TypeOKAlerts, PassTells
<1> QED
  BY <1>1, <1>2

-----------------------------------------------------------------------------
(* Steps of a pass.                                                        *)

LEMMA BeginScanKeeps ==
  ASSUME NoticesInv, A!BeginScan
  PROVE  NoticesInv'
<1> DEFINE p == A!NextPage(FALSE, 0)
<1>1. /\ scan' = p /\ steady' = TRUE /\ removed' = {}
      /\ UNCHANGED <<subject, enabled, inbox, caller, badge, missed, changes>>
  BY DEF A!BeginScan
<1> HIDE DEF p
<1>2. p \in A!Scans /\ p.isGoal = FALSE
  BY PageRows DEF NoticesInv, p
<1>3. A!TypeOKAlerts'
  BY <1>1, <1>2 DEF NoticesInv, A!TypeOKAlerts
<1>4. \A r \in p.left : r.row = subject[r.id]
  BY PageRows DEF p
<1>5. p.cursor # 0 => ~subject[p.cursor].isArchived /\ (p.cursor \in Goals) = FALSE
  BY PageRows DEF p
<1>6. ASSUME NEW s \in Subjects, ~subject[s].isArchived PROVE Listed(s)' \/ ToCome(s)'
  <2>1. s > 0
    BY AlertsAssumption
  <2>2. s \notin Goals => (\E r \in p.left : r.id = s) \/ (p.cursor # 0 /\ s > p.cursor)
    <3> SUFFICES ASSUME s \notin Goals
                 PROVE  (\E r \in p.left : r.id = s) \/ (p.cursor # 0 /\ s > p.cursor)
      OBVIOUS
    <3>1. (s \in Goals) = FALSE
      OBVIOUS
    <3> QED
      BY <1>6, <2>1, <3>1, PageOrLater DEF p
  <2>3. CASE s \in Goals
    BY <1>1, <1>2, <2>3 DEF ToCome
  <2>4. CASE s \notin Goals
    <3>1. (s \in Goals) = p.isGoal
      <4>1. (s \in Goals) = FALSE
        BY <2>4
      <4> QED
        BY <4>1, <1>2
    <3> QED
      BY <1>1, <1>2, <2>2, <2>4, <3>1 DEF Listed, ToCome
  <2> QED
    BY <2>3, <2>4
<1>7. scan' # None
  BY <1>1, <1>2, AlertsAssumption
<1>8. PassTells'
  BY <1>1, <1>2, <1>4, <1>5, <1>6, <1>7 DEF PassTells, CopiesTrue, CursorStands
<1> QED
  BY <1>1, <1>3, <1>8, InboxAlike DEF NoticesInv

LEMMA TurnPageKeeps ==
  ASSUME NoticesInv, A!TurnPage
  PROVE  NoticesInv'
<1> DEFINE g == IF A!GoesOn THEN scan.isGoal ELSE TRUE
           c == IF A!GoesOn THEN scan.cursor ELSE 0
           p == A!NextPage(g, c)
<1>1. /\ scan # None /\ scan.left = {} /\ (A!GoesOn \/ ~scan.isGoal) /\ scan' = p
      /\ UNCHANGED <<subject, enabled, inbox, caller, badge, removed, missed, steady, changes>>
  BY DEF A!TurnPage
<1>2. scan \in A!Scans
  BY <1>1 DEF NoticesInv, A!TypeOKAlerts
<1>3. /\ g \in BOOLEAN /\ c \in Subjects \cup {0}
      /\ scan.isGoal \in BOOLEAN /\ scan.isFull \in BOOLEAN
  BY <1>2 DEF A!Scans
<1> HIDE DEF p, g, c
<1>4. p \in A!Scans /\ p.isGoal = g /\ p # None
  BY <1>3, PageRows DEF NoticesInv, p
<1>5. A!TypeOKAlerts'
  BY <1>1, <1>4 DEF NoticesInv, A!TypeOKAlerts
<1>6. \A r \in p.left : r.row = subject[r.id]
  BY <1>3, PageRows DEF p
<1>7. p.cursor # 0 => ~subject[p.cursor].isArchived /\ (p.cursor \in Goals) = g
  BY <1>3, PageRows DEF p
<1>8. ASSUME steady, NEW s \in Subjects, ~subject[s].isArchived
      PROVE  Told(s)' \/ Listed(s)' \/ ToCome(s)'
  <2>1. Told(s) \/ ToCome(s)
    BY <1>1, <1>8 DEF NoticesInv, PassTells, Listed
  <2>2. CASE Told(s)
    BY <1>1, <2>2, ToldAlike
  <2>3. CASE ToCome(s) /\ s \in Goals /\ ~g
    BY <1>1, <1>4, <2>3 DEF ToCome
  <2>4. CASE ToCome(s) /\ ~(s \in Goals /\ ~g)
    <3>1. c # 0 => ~subject[c].isArchived /\ (c \in Goals) = g
      BY <1>1, <1>8 DEF NoticesInv, PassTells, CursorStands, c, g
    <3>2. s \in Nat \ {0}
      BY AlertsAssumption
    <3>3. (s \in Goals) = g /\ s > c
      <4>1. CASE A!GoesOn
        <5>1. g = scan.isGoal /\ c = scan.cursor
          BY <4>1 DEF c, g
        <5> QED
          BY <5>1, <1>3, <2>4 DEF ToCome
      <4>2. CASE ~A!GoesOn
        <5>1. g = TRUE /\ c = 0 /\ ~scan.isGoal /\ ~(scan.cursor # 0)
          BY <4>2, <1>1 DEF c, g, A!GoesOn
        <5>2. s \in Goals
          BY <5>1, <2>4 DEF ToCome
        <5>3. (s \in Goals) = TRUE
          BY <5>2
        <5>4. s > 0
          BY <3>2
        <5> QED
          BY <5>1, <5>3, <5>4
      <4> QED
        BY <4>1, <4>2
    <3>4. (\E r \in p.left : r.id = s) \/ (p.cursor # 0 /\ s > p.cursor /\ p.isFull)
      BY <1>3, <1>8, <3>1, <3>3, PageOrLater DEF p
    <3> QED
      BY <1>1, <1>4, <3>3, <3>4 DEF Listed, ToCome
  <2> QED
    BY <2>1, <2>2, <2>3, <2>4
<1>9. PassTells'
  BY <1>1, <1>4, <1>6, <1>7, <1>8 DEF PassTells, CopiesTrue, CursorStands
<1> QED
  BY <1>1, <1>5, <1>9, InboxAlike DEF NoticesInv

LEMMA ProcessKeeps ==
  ASSUME NoticesInv, scan # None, NEW r \in scan.left, A!Process(r)
  PROVE  NoticesInv'
<1> DEFINE left == scan.left \ {r}
<1>1. /\ scan' = [scan EXCEPT !.left = left] /\ A!Processed(r)
      /\ UNCHANGED <<subject, enabled, inbox, caller, badge, removed, missed, steady, changes>>
  BY DEF A!Process
<1>2. scan \in A!Scans /\ left \in SUBSET [id : Subjects, row : A!SubjectRows]
  BY DEF NoticesInv, A!TypeOKAlerts, A!Scans
<1> HIDE DEF left
<1>3. /\ scan' \in A!Scans /\ scan'.left = left /\ scan'.isGoal = scan.isGoal
      /\ scan'.cursor = scan.cursor /\ scan'.isFull = scan.isFull
  BY <1>1, <1>2 DEF A!Scans
<1>4. A!TypeOKAlerts' /\ scan' # None
  BY <1>1, <1>3, AlertsAssumption DEF NoticesInv, A!TypeOKAlerts
<1>5. ASSUME steady, NEW s \in Subjects, ~subject[s].isArchived
      PROVE  Told(s)' \/ Listed(s)' \/ ToCome(s)'
  <2>1. Told(s) \/ Listed(s) \/ ToCome(s)
    BY <1>5 DEF NoticesInv, PassTells
  <2>2. CASE Told(s)
    BY <1>1, <2>2, ToldAlike
  <2>3. CASE ToCome(s)
    BY <1>3, <2>3 DEF ToCome
  <2>4. CASE Listed(s) /\ r.id # s
    BY <1>3, <2>4 DEF Listed, left
  <2>5. CASE r.id = s
    <3>1. r.row = subject[s]
      BY <1>5, <2>5 DEF NoticesInv, PassTells, CopiesTrue
    <3>2. Told(s)
      BY <1>1, <2>5, <3>1 DEF Told, A!Processed
    <3> QED
      BY <1>1, <3>2, ToldAlike
  <2> QED
    BY <2>1, <2>2, <2>3, <2>4, <2>5
<1>6. PassTells'
  <2>1. left \subseteq scan.left
    BY DEF left
  <2> QED
    BY <1>1, <1>3, <1>4, <1>5, <2>1 DEF NoticesInv, PassTells, CopiesTrue, CursorStands
<1> QED
  BY <1>1, <1>4, <1>6, InboxAlike DEF NoticesInv

LEMMA EndScanKeeps ==
  ASSUME NoticesInv, A!EndScan \/ A!AbortScan
  PROVE  NoticesInv'
<1>1. /\ scan # None /\ scan' = None
      /\ UNCHANGED <<subject, enabled, inbox, caller, badge, removed, missed, changes>>
  BY DEF A!EndScan, A!AbortScan
<1>2. CASE A!EndScan
  <2>1. steady' = steady /\ scan.left = {} /\ scan.isGoal /\ ~scan.isFull
    BY <1>2 DEF A!EndScan, A!GoesOn
  <2>2. ASSUME steady, NEW s \in Subjects, ~subject[s].isArchived PROVE Told(s)'
    <3>1. Told(s)
      BY <1>1, <2>1, <2>2 DEF NoticesInv, PassTells, Listed, ToCome
    <3> QED
      BY <1>1, <3>1, ToldAlike
  <2> QED
    BY <1>1, <2>1, <2>2, InboxAlike DEF NoticesInv, A!TypeOKAlerts, PassTells
<1>3. CASE A!AbortScan
  <2>1. steady' = FALSE
    BY <1>3 DEF A!AbortScan
  <2> QED
    BY <1>1, <2>1, InboxAlike DEF NoticesInv, A!TypeOKAlerts, PassTells
<1> QED
  BY <1>2, <1>3

-----------------------------------------------------------------------------
(* Requests to the inbox.                                                  *)

LEMMA CallerFields ==
  ASSUME A!TypeOKAlerts, NEW c \in Callers, caller[c] # None
  PROVE  /\ caller[c] \in A!Countings \cup A!Requests
         /\ caller[c].step \in {"count", "push"} => caller[c] \in A!Countings
         /\ caller[c].step \in {"read", "remove"} =>
               caller[c] \in A!Requests /\ caller[c].about \in Notes
BY DEF A!TypeOKAlerts, A!Countings, A!Requests

(* One request is written; the inbox and the pages stay. *)
LEMMA CallerWritten ==
  ASSUME NoticesInv, NEW c \in Callers, NEW q \in A!Countings \cup A!Requests \cup {None},
         caller' = [caller EXCEPT ![c] = q],
         UNCHANGED <<subject, enabled, inbox, scan, removed, steady>>,
         badge' \in [Pages -> Nat \cup {None}],
         A!Cardinality({p \in Pages : badge'[p] # None}) <= MaxConnections,
         missed' \in BOOLEAN, missed => missed',
         q # None /\ q.step \in {"read", "remove"} =>
            (q.wasRead /\ inbox[q.about] # None => inbox[q.about].isRead),
         ~missed' =>
            /\ q # None /\ q.step = "push" => q.count = A!Unread
            /\ \A p \in Pages : badge'[p] # None =>
                 \/ badge'[p] = A!Unread
                 \/ q # None /\ q.step \in {"count", "push"} /\ p \in q.to
                 \/ badge'[p] = badge[p] /\ (WillTell(p) => \E d \in Callers \ {c} :
                        caller[d] # None /\ caller[d].step \in {"count", "push"} /\ p \in caller[d].to)
  PROVE  NoticesInv'
<1>1. caller'[c] = q /\ \A d \in Callers \ {c} : caller'[d] = caller[d]
  BY DEF NoticesInv, A!TypeOKAlerts
<1>2. A!TypeOKAlerts'
  BY DEF NoticesInv, A!TypeOKAlerts
<1>3. ReadStays'
  BY <1>1 DEF NoticesInv, ReadStays
<1>4. A!Unread' = A!Unread
  BY DEF A!Unread
<1>5. BadgesFollow'
  <2> SUFFICES ASSUME ~missed' PROVE BadgesFollow'
    BY DEF BadgesFollow
  <2>1. ~missed
    OBVIOUS
  <2>2. ASSUME NEW d \in Callers, caller'[d] # None, caller'[d].step = "push"
        PROVE  caller'[d].count = A!Unread
    BY <1>1, <2>1, <2>2 DEF NoticesInv, BadgesFollow
  <2>3. ASSUME NEW p \in Pages, badge'[p] # None
        PROVE  badge'[p] = A!Unread \/ WillTell(p)'
    <3>1. CASE q # None /\ q.step \in {"count", "push"} /\ p \in q.to
      BY <1>1, <3>1 DEF WillTell
    <3>2. CASE badge'[p] = badge[p] /\ (WillTell(p) => \E d \in Callers \ {c} :
                  caller[d] # None /\ caller[d].step \in {"count", "push"} /\ p \in caller[d].to)
      <4>1. badge[p] = A!Unread \/ WillTell(p)
        BY <2>1, <2>3, <3>2 DEF NoticesInv, BadgesFollow
      <4> QED
        BY <1>1, <3>2, <4>1 DEF WillTell
    <3> QED
      BY <2>3, <3>1, <3>2
  <2> QED
    BY <1>4, <2>2, <2>3 DEF BadgesFollow
<1>6. PassTells'
  BY TellingKept DEF NoticesInv, A!Absent
<1> QED
  BY <1>2, <1>3, <1>5, <1>6 DEF NoticesInv

(* The inbox is written with one request; a push of a count that was taken
   before is late then. *)
LEMMA InboxWritten ==
  ASSUME NoticesInv, NEW c \in Callers, NEW q \in A!Countings \cup {None},
         caller' = [caller EXCEPT ![c] = q],
         UNCHANGED <<subject, enabled, scan, badge, steady>>,
         inbox' \in [Notes -> A!NoteRows \cup {None}],
         \A m, n \in Notes :
            inbox'[m] # None /\ inbox'[n] # None /\ inbox'[m].key = inbox'[n].key => m = n,
         removed' \subseteq A!KeyRows, removed \subseteq removed',
         \A key \in A!KeyRows : ~A!Absent(key) => ~A!Absent(key)' \/ key \in removed',
         missed' = (missed \/ A!Counted),
         \A d \in Callers \ {c} : caller[d] # None /\ caller[d].step \in {"read", "remove"} =>
            (inbox'[caller[d].about] # None =>
               /\ inbox[caller[d].about] # None
               /\ inbox[caller[d].about].isRead => inbox'[caller[d].about].isRead),
         q # None => q.to = Pages /\ (q.step = "push" => q.count = A!Unread'),
         q = None => /\ A!Unread' = A!Unread
                     /\ ~(caller[c] # None /\ caller[c].step \in {"count", "push"})
  PROVE  NoticesInv'
<1>1. caller'[c] = q /\ \A d \in Callers \ {c} : caller'[d] = caller[d]
  BY DEF NoticesInv, A!TypeOKAlerts
<1>2. missed' \in BOOLEAN
  BY DEF NoticesInv, A!TypeOKAlerts, A!Counted
<1>3. A!TypeOKAlerts'
  BY <1>2 DEF NoticesInv, A!TypeOKAlerts
<1>4. q # None => q.step \in {"count", "push"}
  BY DEF A!Countings
<1>5. ReadStays'
  BY <1>1, <1>4 DEF NoticesInv, ReadStays
<1>6. BadgesFollow'
  <2> SUFFICES ASSUME ~missed' PROVE BadgesFollow'
    BY DEF BadgesFollow
  <2>1. ~missed /\ \A d \in Callers : ~(caller[d] # None /\ caller[d].step = "push")
    BY DEF A!Counted
  <2>2. ASSUME NEW d \in Callers, caller'[d] # None, caller'[d].step = "push"
        PROVE  caller'[d].count = A!Unread'
    BY <1>1, <2>1, <2>2
  <2>3. ASSUME NEW p \in Pages, badge'[p] # None
        PROVE  badge'[p] = A!Unread' \/ WillTell(p)'
    <3>1. CASE q # None
      BY <1>1, <1>4, <3>1 DEF WillTell
    <3>2. CASE q = None
      <4>1. badge[p] = A!Unread \/ WillTell(p)
        BY <2>1, <2>3 DEF NoticesInv, BadgesFollow
      <4> QED
        BY <1>1, <3>2, <4>1 DEF WillTell
    <3> QED
      BY <3>1, <3>2
  <2> QED
    BY <2>2, <2>3 DEF BadgesFollow
<1>7. PassTells'
  BY TellingKept DEF NoticesInv
<1> QED
  BY <1>3, <1>5, <1>6, <1>7 DEF NoticesInv

LEMMA CountingFields ==
  ASSUME NEW to \in SUBSET Pages, NEW b \in BOOLEAN
  PROVE  /\ A!Counting(to, b) \in A!Countings /\ A!Counting(to, b) # None
         /\ A!Counting(to, b).step = "count" /\ A!Counting(to, b).to = to
BY AlertsAssumption DEF A!Counting, A!Countings

LEMMA CreateKeeps ==
  ASSUME NoticesInv, NEW c \in Callers, NEW n \in Notes, A!Create(c, n)
  PROVE  NoticesInv'
<1>1. PICK s \in scan.left : \E key \in A!KeysOf(s.id, s.row) :
         A!Absent(key) /\ inbox' = [inbox EXCEPT ![n] = [key |-> key, isRead |-> FALSE]]
  BY DEF A!Create
<1>2. scan \in A!Scans /\ s.id \in Subjects /\ s.row \in A!SubjectRows
  BY DEF A!Create, NoticesInv, A!TypeOKAlerts, A!Scans
<1>3. PICK key \in A!KeyRows :
         A!Absent(key) /\ inbox' = [inbox EXCEPT ![n] = [key |-> key, isRead |-> FALSE]]
  <2>1. A!KeysOf(s.id, s.row) \subseteq A!KeyRows
    BY <1>2 DEF A!SubjectRows, A!KeysOf, A!AlertsOf, A!KeyRows, A!Kinds
  <2> QED
    BY <1>1, <2>1
<1> DEFINE new == [key |-> key, isRead |-> FALSE]
<1>4. new \in A!NoteRows /\ new # None /\ new.key = key
  <2>1. new \in A!NoteRows /\ new.key = key
    BY DEF A!NoteRows
  <2> HIDE DEF new
  <2> QED
    BY <2>1, AlertsAssumption
<1> HIDE DEF new
<1>5. /\ inbox[n] = None /\ inbox' = [inbox EXCEPT ![n] = new]
      /\ inbox \in [Notes -> A!NoteRows \cup {None}]
  BY <1>3 DEF A!Create, NoticesInv, A!TypeOKAlerts, new
<1>6. inbox'[n] = new /\ \A m \in Notes \ {n} : inbox'[m] = inbox[m]
  BY <1>5
<1>7. \A m \in Notes : inbox[m] # None => inbox[m].key # key
  BY <1>3 DEF A!Absent
<1>8. \A m, k \in Notes :
         inbox'[m] # None /\ inbox'[k] # None /\ inbox'[m].key = inbox'[k].key => m = k
  BY <1>4, <1>6, <1>7 DEF NoticesInv, A!TypeOKAlerts
<1>9. \A k \in A!KeyRows : ~A!Absent(k) => ~A!Absent(k)'
  BY <1>5, <1>6 DEF A!Absent
<1>10. \A d \in Callers : caller[d] # None => caller[d].about # n
  BY DEF A!Create
<1>11. /\ caller' = [caller EXCEPT ![c] = A!Counting(Pages, TRUE)]
       /\ missed' = (missed \/ A!Counted)
       /\ UNCHANGED <<subject, enabled, scan, badge, removed, steady>>
  BY DEF A!Create
<1>12. \A d \in Callers : caller[d] # None /\ caller[d].step \in {"read", "remove"} =>
          caller[d].about \in Notes /\ inbox'[caller[d].about] = inbox[caller[d].about]
  BY <1>6, <1>10, CallerFields DEF NoticesInv
<1>13. inbox' \in [Notes -> A!NoteRows \cup {None}] /\ removed \subseteq A!KeyRows
  BY <1>4, <1>5 DEF NoticesInv, A!TypeOKAlerts
<1> QED
  BY <1>8, <1>9, <1>11, <1>12, <1>13, CountingFields, InboxWritten

(* A request ends with nothing written. *)
LEMMA CallerEnds ==
  ASSUME NoticesInv, NEW c \in Callers, caller' = [caller EXCEPT ![c] = None],
         caller[c] # None, caller[c].step \in {"read", "remove"},
         UNCHANGED <<subject, enabled, inbox, scan, badge, removed, missed, steady>>
  PROVE  NoticesInv'
<1>1. \A p \in Pages : WillTell(p) =>
        \E d \in Callers \ {c} : caller[d] # None /\ caller[d].step \in {"count", "push"}
                                 /\ p \in caller[d].to
  BY DEF WillTell
<1>2. badge \in [Pages -> Nat \cup {None}] /\ missed \in BOOLEAN
      /\ A!Cardinality({p \in Pages : badge[p] # None}) <= MaxConnections
  BY DEF NoticesInv, A!TypeOKAlerts
<1> QED
  BY <1>1, <1>2, CallerWritten

LEMMA OpenKeeps ==
  ASSUME NoticesInv, NEW c \in Callers, NEW n \in Notes, NEW op \in {"read", "remove"},
         A!Open(c, op, n)
  PROVE  NoticesInv'
<1> DEFINE q == [step |-> op, about |-> n, wasRead |-> inbox[n].isRead, isPass |-> FALSE]
<1>1. /\ caller[c] = None /\ inbox[n] # None /\ caller' = [caller EXCEPT ![c] = q]
      /\ UNCHANGED <<subject, enabled, inbox, scan, badge, removed, missed, steady>>
  BY DEF A!Open
<1>2. inbox[n].isRead \in BOOLEAN
  BY <1>1 DEF NoticesInv, A!TypeOKAlerts, A!NoteRows
<1>3. /\ q \in A!Requests /\ q.step \in {"read", "remove"} /\ q.about = n
      /\ q.wasRead = inbox[n].isRead
  BY <1>2 DEF A!Requests
<1> HIDE DEF q
<1>4. \A p \in Pages : WillTell(p) =>
        \E d \in Callers \ {c} : caller[d] # None /\ caller[d].step \in {"count", "push"}
                                 /\ p \in caller[d].to
  BY <1>1 DEF WillTell
<1>5. badge \in [Pages -> Nat \cup {None}] /\ missed \in BOOLEAN
      /\ A!Cardinality({p \in Pages : badge[p] # None}) <= MaxConnections
  BY DEF NoticesInv, A!TypeOKAlerts
<1> QED
  BY <1>1, <1>3, <1>4, <1>5, CallerWritten

(* A request writes its row, if it is there, and counts unless it was read. *)
LEMMA WrittenKeeps ==
  ASSUME NoticesInv, NEW c \in Callers, caller[c] # None, caller[c].step \in {"read", "remove"},
         NEW r, A!Written(c, r), UNCHANGED <<subject, enabled, scan, badge, steady>>,
         inbox[caller[c].about] # None =>
            /\ \/ r = None /\ removed' = removed \cup {inbox[caller[c].about].key}
               \/ r \in A!NoteRows /\ r.key = inbox[caller[c].about].key /\ r.isRead
                  /\ removed' = removed /\ ~caller[c].wasRead,
         inbox[caller[c].about] = None => removed' = removed
  PROVE  NoticesInv'
<1> DEFINE n == caller[c].about
<1>1. n \in Notes /\ caller[c] \in A!Requests /\ inbox \in [Notes -> A!NoteRows \cup {None}]
      /\ removed \subseteq A!KeyRows
  BY CallerFields DEF NoticesInv, A!TypeOKAlerts
<1>2. CASE inbox[n] = None
  <2>1. caller' = [caller EXCEPT ![c] = None] /\ UNCHANGED <<inbox, missed, removed>>
    BY <1>2 DEF A!Written
  <2> QED
    BY <2>1, CallerEnds
<1>3. CASE inbox[n] # None
  <2> DEFINE q == IF caller[c].wasRead THEN None ELSE A!Counting(Pages, FALSE)
  <2>1. /\ inbox' = [inbox EXCEPT ![n] = r] /\ missed' = (missed \/ A!Counted)
        /\ caller' = [caller EXCEPT ![c] = q]
    BY <1>3 DEF A!Written
  <2>2. q \in A!Countings \cup {None} /\ (q # None => q.to = Pages /\ q.step = "count")
        /\ (q = None <=> caller[c].wasRead)
    BY CountingFields
  <2> HIDE DEF q
  <2>3. inbox[n] \in A!NoteRows /\ inbox[n].key \in A!KeyRows /\ r \in A!NoteRows \cup {None}
    BY <1>1, <1>3 DEF A!NoteRows
  <2> HIDE DEF n
  <2>4. inbox'[n] = r /\ \A m \in Notes \ {n} : inbox'[m] = inbox[m]
    BY <1>1, <2>1
  <2>5. inbox' \in [Notes -> A!NoteRows \cup {None}]
    BY <1>1, <2>1, <2>3
  <2>6. \A m \in Notes : inbox'[m] # None => inbox[m] # None /\ inbox'[m].key = inbox[m].key
                                            /\ (inbox[m].isRead => inbox'[m].isRead)
    BY <1>3, <2>4 DEF n
  <2>7. \A m, k \in Notes :
          inbox'[m] # None /\ inbox'[k] # None /\ inbox'[m].key = inbox'[k].key => m = k
    BY <2>6 DEF NoticesInv, A!TypeOKAlerts
  <2>8. removed' \subseteq A!KeyRows /\ removed \subseteq removed'
    BY <1>1, <1>3, <2>3 DEF n
  <2>9. ASSUME NEW key \in A!KeyRows, ~A!Absent(key) PROVE ~A!Absent(key)' \/ key \in removed'
    <3>1. PICK m \in Notes : inbox[m] # None /\ inbox[m].key = key
      BY <2>9 DEF A!Absent
    <3>2. CASE inbox'[m] # None
      <4>1. inbox'[m].key = key
        BY <2>6, <3>1, <3>2
      <4> QED
        BY <3>2, <4>1 DEF A!Absent
    <3>3. CASE inbox'[m] = None
      <4>1. m = n /\ r = None
        BY <2>4, <3>1, <3>3
      <4> QED
        BY <1>3, <3>1, <4>1, AlertsAssumption DEF n
    <3> QED
      BY <3>2, <3>3
  <2>10. ASSUME q = None PROVE A!Unread' = A!Unread
    <3>1. caller[c].wasRead /\ r = None /\ inbox[n].isRead
      BY <1>3, <2>2, <2>10, AlertsAssumption DEF NoticesInv, ReadStays, n
    <3>2. {m \in Notes : inbox'[m] # None /\ ~inbox'[m].isRead}
            = {m \in Notes : inbox[m] # None /\ ~inbox[m].isRead}
      BY <2>4, <3>1
    <3> QED
      BY <3>2 DEF A!Unread
  <2>11. \A d \in Callers : caller[d] # None /\ caller[d].step \in {"read", "remove"} =>
            caller[d].about \in Notes
    BY CallerFields DEF NoticesInv
  <2> QED
    BY <2>1, <2>2, <2>5, <2>6, <2>7, <2>8, <2>9, <2>10, <2>11, InboxWritten
<1> QED
  BY <1>2, <1>3

LEMMA MarkReadKeeps ==
  ASSUME NoticesInv, NEW c \in Callers, A!MarkRead(c)
  PROVE  NoticesInv'
<1>1. /\ caller[c] # None /\ caller[c].step = "read"
      /\ UNCHANGED <<subject, enabled, scan, badge, removed, steady>>
  BY DEF A!MarkRead
<1>2. CASE caller[c].wasRead
  BY <1>1, <1>2, CallerEnds DEF A!MarkRead
<1>3. CASE ~caller[c].wasRead
  <2> DEFINE was == inbox[caller[c].about]
             now == [was EXCEPT !.isRead = TRUE]
  <2>1. A!Written(c, now)
    BY <1>3 DEF A!MarkRead
  <2>2. ASSUME was # None PROVE now \in A!NoteRows /\ now.key = was.key /\ now.isRead
    <3>1. was \in A!NoteRows
      BY <1>1, <2>2, CallerFields DEF NoticesInv, A!TypeOKAlerts
    <3> HIDE DEF was
    <3> QED
      BY <3>1 DEF A!NoteRows
  <2> HIDE DEF now
  <2> QED
    BY <1>1, <1>3, <2>1, <2>2, WrittenKeeps
<1> QED
  BY <1>2, <1>3

LEMMA RemoveKeeps ==
  ASSUME NoticesInv, NEW c \in Callers, A!Remove(c)
  PROVE  NoticesInv'
<1>1. /\ caller[c] # None /\ caller[c].step = "remove" /\ A!Written(c, None)
      /\ UNCHANGED <<subject, enabled, scan, badge, steady>>
      /\ removed' = IF inbox[caller[c].about] = None THEN removed
                    ELSE removed \cup {inbox[caller[c].about].key}
  BY DEF A!Remove
<1> QED
  BY <1>1, WrittenKeeps

LEMMA MarkAllReadKeeps ==
  ASSUME NoticesInv, NEW c \in Callers, A!MarkAllRead(c)
  PROVE  NoticesInv'
<1> DEFINE q == [A!Counting(Pages, FALSE) EXCEPT !.step = "push"]
<1>1. /\ inbox' = [n \in Notes |-> IF inbox[n] = None THEN None
                                   ELSE [inbox[n] EXCEPT !.isRead = TRUE]]
      /\ caller' = [caller EXCEPT ![c] = q] /\ missed' = (missed \/ A!Counted)
      /\ UNCHANGED <<subject, enabled, scan, badge, removed, steady>>
  BY DEF A!MarkAllRead
<1>2. q \in A!Countings /\ q.to = Pages /\ q.count = 0
  BY DEF A!Counting, A!Countings
<1> HIDE DEF q
<1>3. \A n \in Notes :
        /\ inbox[n] \in A!NoteRows \cup {None} /\ inbox'[n] \in A!NoteRows \cup {None}
        /\ inbox[n] = None <=> inbox'[n] = None
        /\ inbox[n] # None => inbox'[n].key = inbox[n].key /\ inbox'[n].isRead
  <2> SUFFICES ASSUME NEW n \in Notes
               PROVE  /\ inbox[n] \in A!NoteRows \cup {None} /\ inbox'[n] \in A!NoteRows \cup {None}
                      /\ inbox[n] = None <=> inbox'[n] = None
                      /\ inbox[n] # None => inbox'[n].key = inbox[n].key /\ inbox'[n].isRead
    OBVIOUS
  <2>1. inbox[n] \in A!NoteRows \cup {None}
    BY DEF NoticesInv, A!TypeOKAlerts
  <2>2. CASE inbox[n] = None
    BY <1>1, <2>2
  <2>3. CASE inbox[n] # None
    <3> DEFINE now == [inbox[n] EXCEPT !.isRead = TRUE]
    <3>1. now \in A!NoteRows /\ now.key = inbox[n].key /\ now.isRead
      BY <2>1, <2>3 DEF A!NoteRows
    <3>2. inbox'[n] = now
      BY <1>1, <2>3
    <3> HIDE DEF now
    <3> QED
      BY <2>1, <2>3, <3>1, <3>2, AlertsAssumption
  <2> QED
    BY <2>2, <2>3
<1>4. inbox' \in [Notes -> A!NoteRows \cup {None}]
  BY <1>1, <1>3
<1>5. \A m, n \in Notes :
        inbox'[m] # None /\ inbox'[n] # None /\ inbox'[m].key = inbox'[n].key => m = n
  BY <1>3 DEF NoticesInv, A!TypeOKAlerts
<1>6. \A key \in A!KeyRows : ~A!Absent(key) => ~A!Absent(key)'
  BY <1>3 DEF A!Absent
<1>7. A!Unread' = 0
  <2>1. {n \in Notes : inbox'[n] # None /\ ~inbox'[n].isRead} = {}
    BY <1>3
  <2> QED
    BY <2>1, SameCardinality, FS_EmptySet DEF A!Unread
<1>8. \A d \in Callers : caller[d] # None /\ caller[d].step \in {"read", "remove"} =>
         caller[d].about \in Notes
  BY CallerFields DEF NoticesInv
<1>9. removed' \subseteq A!KeyRows /\ q # None
  BY <1>1, <1>2, AlertsAssumption DEF NoticesInv, A!TypeOKAlerts
<1> QED
  BY <1>1, <1>2, <1>3, <1>4, <1>5, <1>6, <1>7, <1>8, <1>9, InboxWritten

-----------------------------------------------------------------------------
(* Counts and pages.                                                       *)

(* Another request will tell what this one does not. *)
LEMMA OthersTell ==
  ASSUME NEW c \in Callers, NEW p \in Pages, WillTell(p),
         ~(caller[c] # None /\ caller[c].step \in {"count", "push"} /\ p \in caller[c].to)
  PROVE  \E d \in Callers \ {c} :
            caller[d] # None /\ caller[d].step \in {"count", "push"} /\ p \in caller[d].to
BY DEF WillTell

LEMMA UnreadTyped == A!Unread \in Nat
<1>1. IsFiniteSet({n \in Notes : inbox[n] # None /\ ~inbox[n].isRead})
  BY AlertsAssumption, FS_Subset
<1> QED
  BY <1>1, SameCardinality, FS_CardinalityType DEF A!Unread

LEMMA PagesTyped ==
  ASSUME NoticesInv
  PROVE  /\ badge \in [Pages -> Nat \cup {None}] /\ missed \in BOOLEAN
         /\ A!Cardinality({p \in Pages : badge[p] # None}) <= MaxConnections
BY DEF NoticesInv, A!TypeOKAlerts

LEMMA CountKeeps ==
  ASSUME NoticesInv, NEW c \in Callers, A!Count(c)
  PROVE  NoticesInv'
<1> DEFINE q == [caller[c] EXCEPT !.step = "push", !.count = A!Unread]
<1>1. /\ caller[c] # None /\ caller[c].step = "count" /\ caller' = [caller EXCEPT ![c] = q]
      /\ UNCHANGED <<subject, enabled, inbox, scan, badge, removed, missed, steady>>
  BY DEF A!Count
<1>2. caller[c] \in A!Countings
  BY <1>1, CallerFields DEF NoticesInv
<1>3. q \in A!Countings /\ q.step = "push" /\ q.count = A!Unread /\ q.to = caller[c].to
  BY <1>2, UnreadTyped DEF A!Countings
<1> HIDE DEF q
<1>4. q # None
  BY <1>3, AlertsAssumption
<1>5. \A p \in Pages : p \in q.to \/ (WillTell(p) => \E d \in Callers \ {c} :
          caller[d] # None /\ caller[d].step \in {"count", "push"} /\ p \in caller[d].to)
  BY <1>3, OthersTell
<1> QED
  BY <1>1, <1>3, <1>4, <1>5, PagesTyped, CallerWritten

LEMMA CountFailsKeeps ==
  ASSUME NoticesInv, NEW c \in Callers, A!CountFails(c)
  PROVE  NoticesInv'
<1>1. /\ caller' = [caller EXCEPT ![c] = None] /\ missed' = TRUE
      /\ UNCHANGED <<subject, enabled, inbox, scan, badge, removed, steady>>
  BY DEF A!CountFails
<1> QED
  BY <1>1, PagesTyped, CallerWritten

LEMMA PushKeeps ==
  ASSUME NoticesInv, NEW c \in Callers, A!Push(c)
  PROVE  NoticesInv'
<1>1. /\ caller[c] # None /\ caller[c].step = "push" /\ caller' = [caller EXCEPT ![c] = None]
      /\ badge' = [p \in Pages |-> IF badge[p] # None /\ p \in caller[c].to
                                   THEN caller[c].count ELSE badge[p]]
      /\ UNCHANGED <<subject, enabled, inbox, scan, removed, missed, steady>>
  BY DEF A!Push
<1>2. caller[c].count \in Nat /\ caller[c].count # None
  BY <1>1, CallerFields, AlertsAssumption DEF NoticesInv, A!Countings
<1>3. badge' \in [Pages -> Nat \cup {None}]
  BY <1>1, <1>2, PagesTyped
<1>4. {p \in Pages : badge'[p] # None} = {p \in Pages : badge[p] # None}
  BY <1>1, <1>2
<1>5. ASSUME ~missed, NEW p \in Pages, badge'[p] # None
      PROVE  \/ badge'[p] = A!Unread
             \/ badge'[p] = badge[p] /\ (WillTell(p) => \E d \in Callers \ {c} :
                   caller[d] # None /\ caller[d].step \in {"count", "push"} /\ p \in caller[d].to)
  <2>1. CASE p \in caller[c].to
    <3>1. caller[c].count = A!Unread
      BY <1>1, <1>5 DEF NoticesInv, BadgesFollow
    <3> QED
      BY <1>1, <1>5, <2>1, <3>1
  <2>2. CASE p \notin caller[c].to
    BY <1>1, <2>2, OthersTell
  <2> QED
    BY <2>1, <2>2
<1> QED
  BY <1>1, <1>3, <1>4, <1>5, PagesTyped, CallerWritten

LEMMA ConnectKeeps ==
  ASSUME NoticesInv, NEW c \in Callers, NEW p \in Pages, A!Connect(c, p)
  PROVE  NoticesInv'
<1> DEFINE open == {q \in Pages : badge[q] # None}
<1>1. /\ caller[c] = None /\ badge[p] = None /\ A!Cardinality(open) < MaxConnections
      /\ badge' = [badge EXCEPT ![p] = 0]
      /\ caller' = [caller EXCEPT ![c] = A!Counting({p}, FALSE)]
      /\ UNCHANGED <<subject, enabled, inbox, scan, removed, missed, steady>>
  BY DEF A!Connect
<1>2. badge' \in [Pages -> Nat \cup {None}] /\ badge'[p] = 0 /\ 0 # None
      /\ \A q \in Pages \ {p} : badge'[q] = badge[q]
  BY <1>1, PagesTyped, AlertsAssumption
<1>3. A!Cardinality({q \in Pages : badge'[q] # None}) <= MaxConnections
  <2>1. {q \in Pages : badge'[q] # None} = open \cup {p} /\ p \notin open
    BY <1>1, <1>2
  <2>2. IsFiniteSet(open)
    BY AlertsAssumption, FS_Subset
  <2>3. Cardinality(open \cup {p}) = Cardinality(open) + 1 /\ Cardinality(open) \in Nat
    BY <2>1, <2>2, FS_AddElement, FS_CardinalityType
  <2>4. Cardinality(open) < MaxConnections /\ MaxConnections \in Nat
    BY <1>1, SameCardinality, AlertsAssumption
  <2> HIDE DEF open
  <2> QED
    BY <2>1, <2>3, <2>4, SameCardinality
<1>4. \A q \in Pages : WillTell(q) =>
         \E d \in Callers \ {c} :
            caller[d] # None /\ caller[d].step \in {"count", "push"} /\ q \in caller[d].to
  BY <1>1, OthersTell
<1> DEFINE new == A!Counting({p}, FALSE)
<1>5. new \in A!Countings /\ new # None /\ new.step = "count" /\ new.to = {p}
  BY CountingFields
<1> HIDE DEF new
<1>6. caller' = [caller EXCEPT ![c] = new]
  BY <1>1 DEF new
<1>7. missed \in BOOLEAN
  BY PagesTyped
<1>8. UNCHANGED <<subject, enabled, inbox, scan, removed, missed, steady>>
  BY <1>1
<1> HIDE DEF open
<1> QED
  BY <1>2, <1>3, <1>4, <1>5, <1>6, <1>7, <1>8, CallerWritten

LEMMA DisconnectKeeps ==
  ASSUME NoticesInv, NEW p \in Pages, A!Disconnect(p)
  PROVE  NoticesInv'
<1> DEFINE open == {q \in Pages : badge[q] # None}
           rest == {q \in Pages : badge'[q] # None}
<1>1. /\ badge' = [badge EXCEPT ![p] = None]
      /\ UNCHANGED <<subject, enabled, inbox, scan, caller, removed, missed, steady>>
  BY DEF A!Disconnect
<1>2. badge' \in [Pages -> Nat \cup {None}] /\ \A q \in Pages : badge'[q] \in {badge[q], None}
  BY <1>1, PagesTyped
<1>3. A!Cardinality(rest) <= MaxConnections
  <2>1. rest \subseteq open /\ IsFiniteSet(open)
    BY <1>2, AlertsAssumption, FS_Subset
  <2>2. Cardinality(rest) <= Cardinality(open) /\ Cardinality(rest) \in Nat /\ Cardinality(open) \in Nat
    BY <2>1, FS_Subset, FS_CardinalityType
  <2>3. Cardinality(open) <= MaxConnections /\ MaxConnections \in Nat
    BY PagesTyped, SameCardinality, AlertsAssumption
  <2> HIDE DEF open, rest
  <2> QED
    BY <2>2, <2>3, SameCardinality
<1>4. A!TypeOKAlerts'
  BY <1>1, <1>2, <1>3 DEF NoticesInv, A!TypeOKAlerts
<1>5. BadgesFollow'
  BY <1>1, <1>2 DEF NoticesInv, BadgesFollow, WillTell, A!Unread
<1>6. ReadStays' /\ PassTells'
  BY <1>1, TellingKept DEF NoticesInv, ReadStays, A!Absent
<1> QED
  BY <1>4, <1>5, <1>6 DEF NoticesInv

LEMMA NoticesNext ==
  ASSUME NoticesInv, [Next]_vars
  PROVE  NoticesInv'
<1>1. CASE A!NextAlerts
  <2>1. CASE \E c \in Callers, n \in Notes :
               A!Create(c, n) \/ A!Open(c, "read", n) \/ A!Open(c, "remove", n)
    BY <2>1, CreateKeeps, OpenKeeps
  <2>2. CASE \E c \in Callers : A!MarkRead(c) \/ A!Remove(c) \/ A!MarkAllRead(c) \/ A!Count(c)
                               \/ A!Push(c) \/ A!CountFails(c)
    BY <2>2, MarkReadKeeps, RemoveKeeps, MarkAllReadKeeps, CountKeeps, PushKeeps, CountFailsKeeps
  <2>3. CASE \/ \E c \in Callers, p \in Pages : A!Connect(c, p)
             \/ \E p \in Pages : A!Disconnect(p)
    BY <2>3, ConnectKeeps, DisconnectKeeps
  <2> QED
    BY <1>1, <2>1, <2>2, <2>3, ChangesKeep, BeginScanKeeps, TurnPageKeeps, ProcessKeeps, EndScanKeeps
       DEF A!NextAlerts
<1>2. CASE UNCHANGED alertVars
  <2>1. UNCHANGED <<subject, enabled, inbox, scan, caller, badge, removed, missed, steady>>
    BY <1>2 DEF alertVars
  <2>2. A!TypeOKAlerts' /\ ReadStays'
    BY <2>1 DEF NoticesInv, A!TypeOKAlerts, ReadStays
  <2>3. BadgesFollow'
    BY <2>1, InboxAlike DEF NoticesInv
  <2>4. PassTells'
    BY <2>1, TellingKept DEF NoticesInv, A!Absent
  <2> QED
    BY <2>2, <2>3, <2>4 DEF NoticesInv
<1> QED
  BY <1>1, <1>2 DEF Next, Opening, Submitting, Sending, Exporting, Alerting, Chatting, vars

LEMMA NoticesInit ==
  ASSUME Init
  PROVE  NoticesInv
<1>1. PICK isOver \in BOOLEAN : A!InitAlerts(isOver)
  BY DEF Init
<1>2. /\ inbox = [n \in Notes |-> None] /\ caller = [c \in Callers |-> None]
      /\ badge = [p \in Pages |-> None] /\ scan = None /\ enabled = TRUE
      /\ removed = {} /\ missed = FALSE /\ steady = FALSE
  BY <1>1 DEF A!InitAlerts
<1>3. subject \in [Subjects -> A!SubjectRows]
  BY <1>1, AlertsAssumption DEF A!InitAlerts, A!SubjectRows, A!Tenths
<1>4. A!Cardinality({p \in Pages : badge[p] # None}) <= MaxConnections
  <2>1. {p \in Pages : badge[p] # None} = {}
    BY <1>2
  <2>2. Cardinality({}) = 0
    BY FS_EmptySet
  <2> QED
    BY <2>1, <2>2, SameCardinality, AlertsAssumption
<1>5. A!TypeOKAlerts
  BY <1>2, <1>3, <1>4 DEF A!TypeOKAlerts
<1> QED
  BY <1>2, <1>5 DEF NoticesInv, ReadStays, BadgesFollow, PassTells

(* A pass of the financial alerts during which nothing changed tells all that
   is due, however its pages fall; and while no count failed, a page shows the
   number of unread notices or a request is about to tell it. *)
THEOREM QueueNotices == Spec => []NoticesAreTold
<1>1. Init => NoticesInv
  BY NoticesInit
<1>2. NoticesInv /\ [Next]_vars => NoticesInv'
  BY NoticesNext
<1>3. NoticesInv => NoticesAreTold
  <2>1. ASSUME NoticesInv PROVE A!PassTellsAll
    BY <2>1 DEF NoticesInv, PassTells, Told, A!PassTellsAll
  <2>2. ASSUME NoticesInv PROVE A!BadgeFollowsInbox
    BY <2>2 DEF NoticesInv, BadgesFollow, WillTell, A!BadgeFollowsInbox
  <2> QED
    BY <2>1, <2>2 DEF NoticesAreTold
<1> QED
  BY <1>1, <1>2, <1>3, PTL DEF Spec

-----------------------------------------------------------------------------
(* The assistant.                                                          *)

(* What a request has tried and logged when it does its next step. *)
LoggedWhen(q, log) ==
  IF q.step # "told" THEN log = <<>>
  ELSE /\ q.told = "answer" => log = <<"SUCCESS">>
       /\ q.told = "invalid" => log \in {<<"SUCCESS">>, <<"FAILED">>}
       /\ q.told \in {"unavailable", "unconfigured"} => log = <<"FAILED">>
       /\ q.told \in {"forbidden", "refused"} => log = <<>>
       /\ q.told = "error" => log \in {<<>>, <<"FAILED">>}

TriedWhen(q, keys) ==
  /\ q.step \in {"check", "start"} => keys = <<>>
  /\ q.step = "try" =>
       /\ q.start < keyCount /\ q.offset < keyCount /\ Len(keys) = q.offset
       /\ \A i \in 1 .. Len(keys) : keys[i] = G!KeyAt(q.start, i - 1)
  /\ q.step = "fail" /\ q.reason = "UNAVAILABLE" => Len(keys) = keyCount

Once(keys) == \A i, j \in 1 .. Len(keys) : keys[i] = keys[j] => i = j

AskHolds(r) ==
  /\ ask[r] = None => tried[r] = <<>> /\ aiLog[r] = <<>>
  /\ ask[r] # None => LoggedWhen(ask[r], aiLog[r]) /\ TriedWhen(ask[r], tried[r])
  /\ Once(tried[r])

InTurn ==
  /\ keyCount > 0 => nextKey < keyCount
  /\ \E b \in Nat : \A k \in 0 .. keyCount - 1 : starts[k] = IF k < nextKey THEN b + 1 ELSE b

AssistInv == G!TypeOKAssist /\ (\A r \in Askers : AskHolds(r)) /\ InTurn

-----------------------------------------------------------------------------
LEMMA Wraps ==
  ASSUME NEW K \in Nat \ {0}, NEW x \in Nat, x < 2 * K
  PROVE  x % K = IF x < K THEN x ELSE x - K
<1> DEFINE d == x \div K
            m == x % K
<1>1. d \in Nat /\ m \in 0 .. K - 1 /\ x = K * d + m
  OBVIOUS
<1>2. CASE d = 0
  BY <1>1, <1>2
<1>3. CASE d = 1
  BY <1>1, <1>3
<1>4. CASE d >= 2
  <2>1. PICK e \in Nat : d = e + 2
    BY <1>1, <1>4
  <2>2. K * (e + 2) = K * e + 2 * K /\ K * e >= 0
    BY <2>1
  <2> QED
    BY <1>1, <2>1, <2>2
<1> HIDE DEF d, m
<1> QED
  BY <1>1, <1>2, <1>3, <1>4 DEF d, m

LEMMA OtherKeys ==
  ASSUME NEW K \in Nat \ {0}, NEW s \in 0 .. K - 1, NEW a \in 0 .. K - 1, NEW b \in 0 .. K - 1,
         (s + a) % K = (s + b) % K
  PROVE  a = b
BY Wraps

(* The keys of a request are as many as its tries. *)
LEMMA AsManyKeys ==
  ASSUME NEW V, NEW keys \in Seq(V), Once(keys)
  PROVE  G!Cardinality({keys[i] : i \in DOMAIN keys}) = Len(keys)
<1> DEFINE T == {keys[i] : i \in DOMAIN keys}
<1>1. DOMAIN keys = 1 .. Len(keys) /\ Len(keys) \in Nat
  OBVIOUS
<1>2. IsFiniteSet(1 .. Len(keys)) /\ Cardinality(1 .. Len(keys)) = Len(keys)
  BY <1>1, FS_Interval
<1>3. keys \in Bijection(1 .. Len(keys), T)
  BY <1>1 DEF Once, Bijection, Injection, Surjection, IsInjective
<1>4. Cardinality(T) = Len(keys)
  BY <1>2, <1>3, FS_Bijection DEF ExistsBijection
<1>5. G!Cardinality(T) = Cardinality(T)
  BY DEF G!Cardinality, Cardinality
<1> QED
  BY <1>4, <1>5

LEMMA AssistSays ==
  ASSUME AssistInv
  PROVE  G!LoggedAsTold /\ G!KeysAreTried /\ G!KeysTakeTurns
<1>1. G!LoggedAsTold
  <2> SUFFICES ASSUME NEW r \in Askers
               PROVE  /\ Len(aiLog[r]) <= 1
                      /\ G!AtEnd(r, "answer") => aiLog[r] = <<"SUCCESS">>
                      /\ G!AtEnd(r, "invalid") => aiLog[r] # <<>>
                      /\ G!AtEnd(r, "unavailable") \/ G!AtEnd(r, "unconfigured") => aiLog[r] = <<"FAILED">>
                      /\ G!AtEnd(r, "forbidden") \/ G!AtEnd(r, "refused") => aiLog[r] = <<>>
                      /\ G!AtEnd(r, "error") => aiLog[r] \in {<<>>, <<"FAILED">>}
    BY DEF G!LoggedAsTold
  <2>1. AskHolds(r)
    BY DEF AssistInv
  <2>2. ask[r] # None => ask[r] \in G!Requests
    BY DEF AssistInv, G!TypeOKAssist
  <2>3. ask[r] # None /\ ask[r].step = "told" => ask[r].told \in G!Ends
    BY <2>2 DEF G!Requests, G!Plain, G!Trying, G!Logging, G!Failing, G!Ended
  <2>4. aiLog[r] \in {<<>>, <<"SUCCESS">>, <<"FAILED">>}
    BY <2>1, <2>3 DEF AskHolds, LoggedWhen, G!Ends
  <2>5. Len(aiLog[r]) <= 1
    <3>1. Len(<<>>) = 0 /\ Len(<<"SUCCESS">>) = 1 /\ Len(<<"FAILED">>) = 1
      OBVIOUS
    <3>2. CASE aiLog[r] = <<>>
      BY <3>1, <3>2
    <3>3. CASE aiLog[r] = <<"SUCCESS">>
      BY <3>1, <3>3
    <3>4. CASE aiLog[r] = <<"FAILED">>
      BY <3>1, <3>4
    <3> QED
      BY <2>4, <3>2, <3>3, <3>4
  <2>6. <<"SUCCESS">> # <<>> /\ <<"FAILED">> # <<>>
    OBVIOUS
  <2> QED
    BY <2>1, <2>5, <2>6 DEF AskHolds, LoggedWhen, G!AtEnd, G!Asking
<1>2. G!KeysAreTried
  <2> SUFFICES ASSUME NEW r \in Askers
               PROVE  /\ G!Cardinality({tried[r][i] : i \in DOMAIN tried[r]}) = Len(tried[r])
                      /\ G!Asking(r, "fail") => (ask[r].reason = "UNAVAILABLE" =>
                           G!Cardinality({tried[r][i] : i \in DOMAIN tried[r]}) = keyCount)
    BY DEF G!KeysAreTried
  <2>1. AskHolds(r) /\ tried[r] \in Seq(0 .. keyCount - 1)
    BY DEF AssistInv, G!TypeOKAssist
  <2>2. G!Cardinality({tried[r][i] : i \in DOMAIN tried[r]}) = Len(tried[r])
    BY <2>1, AsManyKeys DEF AskHolds
  <2>3. G!Asking(r, "fail") => (ask[r].reason = "UNAVAILABLE" => Len(tried[r]) = keyCount)
    BY <2>1 DEF AskHolds, TriedWhen, G!Asking
  <2> QED
    BY <2>2, <2>3
<1>3. G!KeysTakeTurns
  <2> SUFFICES ASSUME NEW k \in DOMAIN starts, NEW j \in DOMAIN starts
               PROVE  starts[k] <= starts[j] + 1
    BY DEF G!KeysTakeTurns
  <2>1. PICK b \in Nat : \A i \in 0 .. keyCount - 1 : starts[i] = IF i < nextKey THEN b + 1 ELSE b
    BY DEF AssistInv, InTurn
  <2>2. k \in 0 .. keyCount - 1 /\ j \in 0 .. keyCount - 1
    BY DEF AssistInv, G!TypeOKAssist
  <2> QED
    BY <2>1, <2>2
<1> QED
  BY <1>1, <1>2, <1>3

-----------------------------------------------------------------------------
(* Each step writes one request, what it tried and what it logged.         *)
LEMMA AskWritten ==
  ASSUME AssistInv, NEW r \in Askers, NEW q \in G!Requests \cup {None},
         NEW keys \in Seq(0 .. keyCount - 1), NEW log \in Seq(G!Statuses),
         keyCount' = keyCount, ask' = [ask EXCEPT ![r] = q],
         tried' = [tried EXCEPT ![r] = keys], aiLog' = [aiLog EXCEPT ![r] = log],
         q = None => keys = <<>> /\ log = <<>>,
         q # None => LoggedWhen(q, log) /\ TriedWhen(q, keys),
         Once(keys)
  PROVE  /\ ask' \in [Askers -> G!Requests \cup {None}]
         /\ tried' \in [Askers -> Seq(0 .. keyCount' - 1)]
         /\ aiLog' \in [Askers -> Seq(G!Statuses)]
         /\ \A s \in Askers : AskHolds(s)'
<1>1. /\ ask \in [Askers -> G!Requests \cup {None}] /\ aiLog \in [Askers -> Seq(G!Statuses)]
      /\ tried \in [Askers -> Seq(0 .. keyCount - 1)]
  BY DEF AssistInv, G!TypeOKAssist
<1>2. /\ ask' \in [Askers -> G!Requests \cup {None}]
      /\ tried' \in [Askers -> Seq(0 .. keyCount' - 1)]
      /\ aiLog' \in [Askers -> Seq(G!Statuses)]
  BY <1>1
<1>3. ASSUME NEW s \in Askers PROVE AskHolds(s)'
  <2>1. CASE s = r
    <3>1. ask'[s] = q /\ tried'[s] = keys /\ aiLog'[s] = log
      BY <1>1, <2>1
    <3> QED
      BY <3>1 DEF AskHolds, TriedWhen, LoggedWhen, Once, G!KeyAt
  <2>2. CASE s # r
    <3>1. ask'[s] = ask[s] /\ tried'[s] = tried[s] /\ aiLog'[s] = aiLog[s]
      BY <1>1, <2>2
    <3>2. AskHolds(s)
      BY DEF AssistInv
    <3> QED
      BY <3>1, <3>2 DEF AskHolds, TriedWhen, LoggedWhen, Once, G!KeyAt
  <2> QED
    BY <2>1, <2>2
<1> QED
  BY <1>2, <1>3

LEMMA RequestFields ==
  ASSUME NEW q \in G!Requests
  PROVE  /\ q.feature \in G!Features
         /\ q.step \in {"check", "start", "validate", "try", "log", "fail", "told"}
         /\ q.step = "try" => q \in G!Trying
         /\ q.step = "log" => q \in G!Logging
         /\ q.step = "fail" => q \in G!Failing
         /\ q.step = "told" => q \in G!Ended
BY DEF G!Requests, G!Plain, G!Trying, G!Logging, G!Failing, G!Ended

(* A request that is sent on with what it has. *)
LEMMA GoesOn ==
  ASSUME AssistInv, NEW r \in Askers, NEW q \in G!Requests,
         keyCount' = keyCount, ask' = [ask EXCEPT ![r] = q], tried' = tried, aiLog' = aiLog,
         LoggedWhen(q, aiLog[r]), TriedWhen(q, tried[r])
  PROVE  /\ ask' \in [Askers -> G!Requests \cup {None}]
         /\ tried' \in [Askers -> Seq(0 .. keyCount' - 1)]
         /\ aiLog' \in [Askers -> Seq(G!Statuses)]
         /\ \A s \in Askers : AskHolds(s)'
<1>1. aiLog \in [Askers -> Seq(G!Statuses)] /\ tried \in [Askers -> Seq(0 .. keyCount - 1)]
  BY DEF AssistInv, G!TypeOKAssist
<1>2. Once(tried[r])
  BY DEF AssistInv, AskHolds
<1>3. tried' = [tried EXCEPT ![r] = tried[r]] /\ aiLog' = [aiLog EXCEPT ![r] = aiLog[r]]
  BY <1>1
<1>4. q # None
  BY BotsAssumption
<1>5. q \in G!Requests \cup {None}
  OBVIOUS
<1>6. tried[r] \in Seq(0 .. keyCount - 1) /\ aiLog[r] \in Seq(G!Statuses)
  BY <1>1
<1> QED
  BY <1>2, <1>3, <1>4, <1>5, <1>6, AskWritten

AssistKept == UNCHANGED <<keyCount, nextKey, starts>> /\ assistantOn' \in BOOLEAN

LEMMA AssistAgain ==
  ASSUME AssistInv, AssistKept,
         ask' \in [Askers -> G!Requests \cup {None}],
         tried' \in [Askers -> Seq(0 .. keyCount' - 1)],
         aiLog' \in [Askers -> Seq(G!Statuses)],
         \A s \in Askers : AskHolds(s)'
  PROVE  AssistInv'
BY DEF AssistInv, AssistKept, G!TypeOKAssist, InTurn

LEMMA AskKeeps ==
  ASSUME AssistInv, NEW r \in Askers, G!Ask(r)
  PROVE  AssistInv'
<1>1. PICK f \in G!Features :
         \/ G!Becomes(r, [feature |-> f, step |-> "check"])
         \/ f # "RECEIPT" /\ G!Becomes(r, [feature |-> f, step |-> "told", told |-> "refused"])
  BY DEF G!Ask
<1>2. PICK q \in {[feature |-> f, step |-> "check"], [feature |-> f, step |-> "told", told |-> "refused"]} :
         ask' = [ask EXCEPT ![r] = q]
  BY <1>1 DEF G!Becomes
<1>3. tried[r] = <<>> /\ aiLog[r] = <<>>
  BY DEF AssistInv, AskHolds, G!Ask
<1>4. q \in G!Requests
  BY <1>2 DEF G!Requests, G!Plain, G!Ended, G!Ends
<1>5. LoggedWhen(q, aiLog[r]) /\ TriedWhen(q, tried[r])
  BY <1>2, <1>3 DEF LoggedWhen, TriedWhen
<1>6. AssistKept /\ tried' = tried /\ aiLog' = aiLog
  BY DEF G!Ask, AssistKept, AssistInv, G!TypeOKAssist
<1> QED
  BY <1>2, <1>4, <1>5, <1>6, GoesOn, AssistAgain DEF AssistKept

LEMMA EnsureKeeps ==
  ASSUME AssistInv, NEW r \in Askers, G!EnsureAiAssistantEnabled(r)
  PROVE  AssistInv'
<1> DEFINE q == IF assistantOn THEN G!Goes(r, "start") ELSE G!Told(r, "forbidden")
<1>1. ask[r] # None /\ ask[r].step = "check" /\ ask' = [ask EXCEPT ![r] = q]
  BY DEF G!EnsureAiAssistantEnabled, G!Asking, G!Becomes
<1>2. ask[r] \in G!Requests
  BY <1>1 DEF AssistInv, G!TypeOKAssist
<1>3. tried[r] = <<>> /\ aiLog[r] = <<>>
  BY <1>1 DEF AssistInv, AskHolds, LoggedWhen, TriedWhen
<1>4. q \in G!Requests
  BY <1>2, RequestFields DEF G!Requests, G!Plain, G!Ended, G!Ends, G!Goes, G!Told
<1>5. LoggedWhen(q, aiLog[r]) /\ TriedWhen(q, tried[r])
  BY <1>3 DEF LoggedWhen, TriedWhen, G!Goes, G!Told
<1>6. AssistKept /\ tried' = tried /\ aiLog' = aiLog
  BY DEF G!EnsureAiAssistantEnabled, AssistKept, AssistInv, G!TypeOKAssist
<1> QED
  BY <1>1, <1>4, <1>5, <1>6, GoesOn, AssistAgain DEF AssistKept

LEMMA StartKeeps ==
  ASSUME AssistInv, NEW r \in Askers, G!Start(r)
  PROVE  AssistInv'
<1>1. ask[r] # None /\ ask[r].step = "start" /\ tried' = tried /\ aiLog' = aiLog
      /\ keyCount' = keyCount /\ assistantOn' = assistantOn
  BY DEF G!Start, G!Asking
<1>2. ask[r] \in G!Requests /\ keyCount \in Nat /\ nextKey \in 0 .. keyCount
  BY <1>1 DEF AssistInv, G!TypeOKAssist
<1>3. tried[r] = <<>> /\ aiLog[r] = <<>>
  BY <1>1 DEF AssistInv, AskHolds, LoggedWhen, TriedWhen
<1>4. CASE keyCount = 0 /\ G!Becomes(r, G!Fails(r, "NOT_CONFIGURED")) /\ UNCHANGED <<nextKey, starts>>
  <2>1. G!Fails(r, "NOT_CONFIGURED") \in G!Requests
    BY <1>2, RequestFields DEF G!Requests, G!Failing, G!Reasons, G!Fails
  <2>2. LoggedWhen(G!Fails(r, "NOT_CONFIGURED"), aiLog[r])
        /\ TriedWhen(G!Fails(r, "NOT_CONFIGURED"), tried[r])
    BY <1>3 DEF LoggedWhen, TriedWhen, G!Fails
  <2>3. AssistKept
    BY <1>1, <1>4 DEF AssistKept, AssistInv, G!TypeOKAssist
  <2> QED
    BY <1>1, <1>4, <2>1, <2>2, <2>3, GoesOn, AssistAgain DEF G!Becomes
<1>5. CASE /\ keyCount > 0 /\ nextKey' = (nextKey + 1) % keyCount
           /\ starts' = [starts EXCEPT ![nextKey] = @ + 1]
           /\ G!Becomes(r, [feature |-> ask[r].feature, step |-> "try", start |-> nextKey, offset |-> 0])
  <2> DEFINE q == [feature |-> ask[r].feature, step |-> "try", start |-> nextKey, offset |-> 0]
  <2>1. nextKey \in 0 .. keyCount - 1
    BY <1>2, <1>5 DEF AssistInv, InTurn
  <2>2. q \in G!Requests
    BY <1>2, <2>1, RequestFields DEF G!Requests, G!Trying
  <2>3. LoggedWhen(q, aiLog[r]) /\ TriedWhen(q, tried[r])
    BY <1>2, <1>3, <1>5, <2>1 DEF LoggedWhen, TriedWhen
  <2>4. /\ ask' \in [Askers -> G!Requests \cup {None}]
        /\ tried' \in [Askers -> Seq(0 .. keyCount' - 1)]
        /\ aiLog' \in [Askers -> Seq(G!Statuses)]
        /\ \A s \in Askers : AskHolds(s)'
    BY <1>1, <1>5, <2>2, <2>3, GoesOn DEF G!Becomes
  <2>5. nextKey' = IF nextKey + 1 < keyCount THEN nextKey + 1 ELSE 0
    BY <1>2, <1>5, <2>1, Wraps
  <2>6. starts \in [0 .. keyCount - 1 -> Nat]
    BY DEF AssistInv, G!TypeOKAssist
  <2>7. starts' \in [0 .. keyCount' - 1 -> Nat] /\ nextKey' \in 0 .. keyCount' - 1
    BY <1>1, <1>2, <1>5, <2>1, <2>5, <2>6
  <2>9. keyCount' > 0 /\ nextKey' < keyCount'
    BY <1>1, <1>2, <1>5, <2>7
  <2>8. InTurn'
    <3>1. PICK b \in Nat : \A k \in 0 .. keyCount - 1 : starts[k] = IF k < nextKey THEN b + 1 ELSE b
      BY DEF AssistInv, InTurn
    <3>2. \A k \in 0 .. keyCount - 1 : starts'[k] = IF k <= nextKey THEN b + 1 ELSE b
      BY <1>5, <2>1, <2>6, <3>1
    <3>3. CASE nextKey + 1 < keyCount
      <4>1. \A k \in 0 .. keyCount' - 1 : starts'[k] = IF k < nextKey' THEN b + 1 ELSE b
        BY <1>1, <1>2, <2>1, <2>5, <3>2, <3>3
      <4> QED
        BY <4>1, <2>9 DEF InTurn
    <3>4. CASE nextKey + 1 >= keyCount
      <4>1. \A k \in 0 .. keyCount' - 1 : starts'[k] = IF k < nextKey' THEN (b + 1) + 1 ELSE b + 1
        BY <1>1, <1>2, <2>1, <2>5, <3>2, <3>4
      <4>2. b + 1 \in Nat
        OBVIOUS
      <4> QED
        BY <4>1, <4>2, <2>9 DEF InTurn
    <3> QED
      BY <1>2, <2>1, <3>3, <3>4
  <2> QED
    BY <1>1, <1>2, <2>4, <2>7, <2>8 DEF AssistInv, G!TypeOKAssist
<1> QED
  BY <1>4, <1>5 DEF G!Start

LEMMA TryKeeps ==
  ASSUME AssistInv, NEW r \in Askers, NEW outcome \in G!Outcomes, G!Try(r, outcome)
  PROVE  AssistInv'
<1> DEFINE q == ask[r]
            key == G!KeyAt(q.start, q.offset)
            keys == Append(tried[r], key)
<1>1. q # None /\ q.step = "try" /\ q \in G!Requests
  BY DEF G!Try, G!Asking, AssistInv, G!TypeOKAssist
<1>2. q \in G!Trying
  BY <1>1, RequestFields
<1>3. AskHolds(r) /\ keyCount \in Nat
  BY DEF AssistInv, G!TypeOKAssist
<1>4. /\ q.start \in Nat /\ q.offset \in Nat /\ q.start < keyCount /\ q.offset < keyCount
      /\ Len(tried[r]) = q.offset /\ aiLog[r] = <<>>
      /\ \A i \in 1 .. Len(tried[r]) : tried[r][i] = G!KeyAt(q.start, i - 1)
  BY <1>1, <1>2, <1>3 DEF AskHolds, TriedWhen, LoggedWhen, G!Trying
<1>5. /\ tried \in [Askers -> Seq(0 .. keyCount - 1)] /\ tried[r] \in Seq(0 .. keyCount - 1)
      /\ aiLog \in [Askers -> Seq(G!Statuses)] /\ aiLog[r] \in Seq(G!Statuses)
  BY DEF AssistInv, G!TypeOKAssist
<1>6. key \in 0 .. keyCount - 1
  BY <1>3, <1>4 DEF G!KeyAt
<1>7. /\ keys \in Seq(0 .. keyCount - 1) /\ Len(keys) = q.offset + 1
      /\ keys[q.offset + 1] = key
      /\ \A i \in 1 .. q.offset : keys[i] = tried[r][i]
  <2> HIDE DEF key
  <2> QED
    BY <1>4, <1>5, <1>6
<1>8. \A i \in 1 .. Len(keys) : keys[i] = G!KeyAt(q.start, i - 1)
  <2> SUFFICES ASSUME NEW i \in 1 .. q.offset + 1 PROVE keys[i] = G!KeyAt(q.start, i - 1)
    BY <1>7
  <2>1. CASE i = q.offset + 1
    <3>1. i - 1 = q.offset
      BY <1>4, <2>1
    <3> QED
      BY <1>7, <2>1, <3>1
  <2>2. CASE i \in 1 .. q.offset
    BY <1>4, <1>7, <2>2
  <2> QED
    BY <1>4, <2>1, <2>2
<1> HIDE DEF keys, key
<1>9. Once(keys)
  <2> SUFFICES ASSUME NEW i \in 1 .. Len(keys), NEW j \in 1 .. Len(keys), keys[i] = keys[j]
               PROVE  i = j
    BY DEF Once
  <2>1. (q.start + (i - 1)) % keyCount = (q.start + (j - 1)) % keyCount
    BY <1>8 DEF G!KeyAt
  <2>2. i - 1 \in 0 .. keyCount - 1 /\ j - 1 \in 0 .. keyCount - 1 /\ q.start \in 0 .. keyCount - 1
    <3>1. i \in 1 .. q.offset + 1 /\ j \in 1 .. q.offset + 1
      BY <1>7
    <3>2. /\ q.offset \in Nat /\ q.start \in Nat /\ keyCount \in Nat
          /\ q.offset < keyCount /\ q.start < keyCount
      BY <1>3, <1>4
    <3> QED
      BY <3>1, <3>2
  <2>4. keyCount \in Nat \ {0}
    BY <1>3, <1>4
  <2>5. \A a, b \in 0 .. keyCount - 1 : (q.start + a) % keyCount = (q.start + b) % keyCount => a = b
    BY <2>2, <2>4, OtherKeys
  <2>3. i - 1 = j - 1
    BY <2>1, <2>2, <2>5
  <2> QED
    BY <1>7, <1>4, <2>3
<1>10. PICK next \in G!Requests : ask' = [ask EXCEPT ![r] = next] /\ TriedWhen(next, keys)
                                  /\ next.step # "told"
  <2>1. q.feature \in G!Features
    BY <1>1, RequestFields
  <2>2. CASE outcome = "answer" /\ G!Becomes(r, G!Goes(r, "validate"))
    <3>1. G!Goes(r, "validate") \in G!Requests
      BY <2>1 DEF G!Requests, G!Plain, G!Goes
    <3>2. TriedWhen(G!Goes(r, "validate"), keys) /\ G!Goes(r, "validate").step # "told"
      BY DEF TriedWhen, G!Goes
    <3> QED
      BY <2>2, <3>1, <3>2 DEF G!Becomes
  <2>3. ASSUME NEW reason \in G!Reasons \ {"UNAVAILABLE"}, G!Becomes(r, G!Fails(r, reason))
        PROVE  \E next \in G!Requests : ask' = [ask EXCEPT ![r] = next] /\ TriedWhen(next, keys)
                                  /\ next.step # "told"
    <3>1. G!Fails(r, reason) \in G!Requests
      BY <2>1 DEF G!Requests, G!Failing, G!Fails
    <3>2. TriedWhen(G!Fails(r, reason), keys) /\ G!Fails(r, reason).step # "told"
      BY DEF TriedWhen, G!Fails
    <3> QED
      BY <2>3, <3>1, <3>2 DEF G!Becomes
  <2>4. CASE G!Becomes(r, IF q.offset + 1 < keyCount THEN [q EXCEPT !.offset = @ + 1]
                          ELSE G!Fails(r, "UNAVAILABLE"))
    <3>1. CASE q.offset + 1 < keyCount
      <4> DEFINE next == [q EXCEPT !.offset = q.offset + 1]
      <4>1. next \in G!Trying
        BY <1>2, <1>4 DEF G!Trying
      <4>2. next.step = "try" /\ next.start = q.start /\ next.offset = q.offset + 1
        BY <1>1, <1>2 DEF G!Trying
      <4>3. next \in G!Requests
        BY <4>1 DEF G!Requests
      <4>4. ask' = [ask EXCEPT ![r] = next]
        BY <2>4, <3>1 DEF G!Becomes
      <4> HIDE DEF next
      <4>5. TriedWhen(next, keys)
        BY <1>4, <1>7, <1>8, <3>1, <4>2 DEF TriedWhen
      <4> QED
        BY <4>2, <4>3, <4>4, <4>5
    <3>2. CASE ~(q.offset + 1 < keyCount)
      <4>1. G!Fails(r, "UNAVAILABLE") \in G!Requests
        BY <2>1 DEF G!Requests, G!Failing, G!Fails, G!Reasons
      <4>2. Len(keys) = keyCount
        BY <1>3, <1>4, <1>7, <3>2
      <4>3. TriedWhen(G!Fails(r, "UNAVAILABLE"), keys) /\ G!Fails(r, "UNAVAILABLE").step # "told"
        BY <4>2 DEF TriedWhen, G!Fails
      <4> QED
        BY <2>4, <3>2, <4>1, <4>3 DEF G!Becomes
    <3> QED
      BY <3>1, <3>2
  <2> QED
    BY <2>2, <2>3, <2>4 DEF G!Try, G!Reasons
<1>11. AssistKept /\ aiLog' = [aiLog EXCEPT ![r] = aiLog[r]] /\ tried' = [tried EXCEPT ![r] = keys]
  BY <1>5 DEF G!Try, AssistKept, AssistInv, G!TypeOKAssist, keys, key
<1>12. LoggedWhen(next, aiLog[r])
  BY <1>4, <1>10 DEF LoggedWhen
<1>13. next # None /\ next \in G!Requests \cup {None}
  BY BotsAssumption
<1>14. /\ ask' \in [Askers -> G!Requests \cup {None}]
       /\ tried' \in [Askers -> Seq(0 .. keyCount' - 1)]
       /\ aiLog' \in [Askers -> Seq(G!Statuses)]
       /\ \A s \in Askers : AskHolds(s)'
  BY <1>5, <1>7, <1>9, <1>10, <1>11, <1>12, <1>13, AskWritten DEF AssistKept
<1> QED
  BY <1>11, <1>14, AssistAgain

LEMMA ValidateKeeps ==
  ASSUME AssistInv, NEW r \in Askers, G!Validate(r)
  PROVE  AssistInv'
<1>1. PICK status \in G!Statuses :
         ask' = [ask EXCEPT ![r] = [feature |-> ask[r].feature, step |-> "log", status |-> status]]
  BY DEF G!Validate, G!Becomes
<1> DEFINE q == [feature |-> ask[r].feature, step |-> "log", status |-> status]
<1>2. ask[r] # None /\ ask[r].step = "validate" /\ ask[r] \in G!Requests
  BY DEF G!Validate, G!Asking, AssistInv, G!TypeOKAssist
<1>3. aiLog[r] = <<>>
  BY <1>2 DEF AssistInv, AskHolds, LoggedWhen
<1>4. q \in G!Requests
  BY <1>2, RequestFields DEF G!Requests, G!Logging
<1>5. LoggedWhen(q, aiLog[r]) /\ TriedWhen(q, tried[r])
  BY <1>3 DEF LoggedWhen, TriedWhen
<1>6. AssistKept /\ tried' = tried /\ aiLog' = aiLog
  BY DEF G!Validate, AssistKept, AssistInv, G!TypeOKAssist
<1> QED
  BY <1>1, <1>4, <1>5, <1>6, GoesOn, AssistAgain DEF AssistKept

(* A request that ends, with a row or without. *)
LEMMA LogsOne ==
  ASSUME AssistInv, NEW r \in Askers, aiLog[r] = <<>>, NEW status \in G!Statuses, NEW end \in G!Ends,
         ask[r] \in G!Requests, AssistKept, tried' = tried, G!Logs(r, status),
         G!Becomes(r, G!Told(r, end)), LoggedWhen(G!Told(r, end), <<status>>)
  PROVE  AssistInv'
<1>1. /\ tried \in [Askers -> Seq(0 .. keyCount - 1)] /\ tried[r] \in Seq(0 .. keyCount - 1)
      /\ aiLog \in [Askers -> Seq(G!Statuses)]
  BY DEF AssistInv, G!TypeOKAssist
<1>2. Append(<<>>, status) = <<status>> /\ <<status>> \in Seq(G!Statuses)
  OBVIOUS
<1>3. aiLog' = [aiLog EXCEPT ![r] = <<status>>] /\ tried' = [tried EXCEPT ![r] = tried[r]]
  <2>1. aiLog' = [aiLog EXCEPT ![r] = Append(aiLog[r], status)]
    BY DEF G!Logs
  <2> QED
    BY <1>1, <1>2, <2>1
<1>4. Once(tried[r])
  BY DEF AssistInv, AskHolds
<1>5. G!Told(r, end) \in G!Requests
  BY RequestFields DEF G!Requests, G!Ended, G!Told
<1>6. TriedWhen(G!Told(r, end), tried[r])
  BY DEF TriedWhen, G!Told
<1>7. G!Told(r, end) # None /\ G!Told(r, end) \in G!Requests \cup {None}
  BY <1>5, BotsAssumption
<1>8. ask' = [ask EXCEPT ![r] = G!Told(r, end)] /\ keyCount' = keyCount
  BY DEF G!Becomes, AssistKept
<1>9. /\ ask' \in [Askers -> G!Requests \cup {None}]
      /\ tried' \in [Askers -> Seq(0 .. keyCount' - 1)]
      /\ aiLog' \in [Askers -> Seq(G!Statuses)]
      /\ \A s \in Askers : AskHolds(s)'
  BY <1>1, <1>2, <1>3, <1>4, <1>6, <1>7, <1>8, AskWritten
<1> QED
  BY <1>9, AssistAgain

LEMMA CreateLogKeeps ==
  ASSUME AssistInv, NEW r \in Askers, G!CreateLog(r)
  PROVE  AssistInv'
<1>1. ask[r] # None /\ ask[r].step = "log" /\ ask[r] \in G!Requests
  BY DEF G!CreateLog, G!Asking, AssistInv, G!TypeOKAssist
<1>2. aiLog[r] = <<>> /\ ask[r].status \in G!Statuses
  BY <1>1, RequestFields DEF AssistInv, AskHolds, LoggedWhen, G!Logging
<1>3. AssistKept /\ tried' = tried
  BY DEF G!CreateLog, AssistKept, AssistInv, G!TypeOKAssist
<1>4. CASE G!Logs(r, ask[r].status) /\ ask[r].status = "SUCCESS" /\ G!Becomes(r, G!Told(r, "answer"))
  <2>1. LoggedWhen(G!Told(r, "answer"), <<ask[r].status>>)
    BY <1>4 DEF LoggedWhen, G!Told
  <2> QED
    BY <1>1, <1>2, <1>3, <1>4, <2>1, LogsOne DEF G!Ends
<1>5. CASE G!Logs(r, ask[r].status) /\ G!Becomes(r, G!Told(r, "invalid"))
  <2>1. LoggedWhen(G!Told(r, "invalid"), <<ask[r].status>>)
    BY <1>2 DEF LoggedWhen, G!Told, G!Statuses
  <2> QED
    BY <1>1, <1>2, <1>3, <1>5, <2>1, LogsOne DEF G!Ends
<1>6. CASE G!Becomes(r, G!Fails(r, "DATABASE")) /\ UNCHANGED aiLog
  <2>1. G!Fails(r, "DATABASE") \in G!Requests
    BY <1>1, RequestFields DEF G!Requests, G!Failing, G!Reasons, G!Fails
  <2>2. LoggedWhen(G!Fails(r, "DATABASE"), aiLog[r]) /\ TriedWhen(G!Fails(r, "DATABASE"), tried[r])
    BY <1>2 DEF LoggedWhen, TriedWhen, G!Fails
  <2> QED
    BY <1>3, <1>6, <2>1, <2>2, GoesOn, AssistAgain DEF G!Becomes, AssistKept
<1> QED
  BY <1>4, <1>5, <1>6 DEF G!CreateLog

LEMMA LogFailureKeeps ==
  ASSUME AssistInv, NEW r \in Askers, G!LogFailure(r)
  PROVE  AssistInv'
<1>1. ask[r] # None /\ ask[r].step = "fail" /\ ask[r] \in G!Requests
  BY DEF G!LogFailure, G!Asking, AssistInv, G!TypeOKAssist
<1>2. aiLog[r] = <<>> /\ ask[r].reason \in G!Reasons
  BY <1>1, RequestFields DEF AssistInv, AskHolds, LoggedWhen, G!Failing
<1>3. AssistKept /\ tried' = tried
  BY DEF G!LogFailure, AssistKept, AssistInv, G!TypeOKAssist
<1>4. CASE G!Logs(r, "FAILED") /\ G!Becomes(r, G!Told(r, G!ErrorOf(ask[r].reason)))
  <2> DEFINE end == G!ErrorOf(ask[r].reason)
  <2>1. end \in {"unconfigured", "invalid", "unavailable", "error"}
    BY <1>2 DEF G!ErrorOf, G!Reasons
  <2>2. LoggedWhen(G!Told(r, end), <<"FAILED">>)
    BY <2>1 DEF LoggedWhen, G!Told
  <2>3. end \in G!Ends /\ "FAILED" \in G!Statuses
    BY <2>1 DEF G!Ends, G!Statuses
  <2> HIDE DEF end
  <2> QED
    BY <1>1, <1>2, <1>3, <1>4, <2>2, <2>3, LogsOne DEF end
<1>5. CASE G!Becomes(r, G!Told(r, "error")) /\ UNCHANGED aiLog
  <2>1. G!Told(r, "error") \in G!Requests
    BY <1>1, RequestFields DEF G!Requests, G!Ended, G!Ends, G!Told
  <2>2. LoggedWhen(G!Told(r, "error"), aiLog[r]) /\ TriedWhen(G!Told(r, "error"), tried[r])
    BY <1>2 DEF LoggedWhen, TriedWhen, G!Told
  <2> QED
    BY <1>3, <1>5, <2>1, <2>2, GoesOn, AssistAgain DEF G!Becomes, AssistKept
<1> QED
  BY <1>4, <1>5 DEF G!LogFailure

LEMMA EmptyOnce == Once(<<>>) /\ \A V : <<>> \in Seq(V)
BY DEF Once

LEMMA LeaveKeeps ==
  ASSUME AssistInv, NEW r \in Askers, G!Leave(r)
  PROVE  AssistInv'
<1>1. /\ ask' = [ask EXCEPT ![r] = None] /\ tried' = [tried EXCEPT ![r] = <<>>]
      /\ aiLog' = [aiLog EXCEPT ![r] = <<>>] /\ AssistKept
  BY DEF G!Leave, G!Becomes, G!Forget, AssistKept, AssistInv, G!TypeOKAssist
<1>2. keyCount' = keyCount
  BY <1>1 DEF AssistKept
<1>3. /\ ask' \in [Askers -> G!Requests \cup {None}]
      /\ tried' \in [Askers -> Seq(0 .. keyCount' - 1)]
      /\ aiLog' \in [Askers -> Seq(G!Statuses)]
      /\ \A s \in Askers : AskHolds(s)'
  BY <1>1, <1>2, EmptyOnce, AskWritten
<1> QED
  BY <1>1, <1>3, AssistAgain

LEMMA ToggleKeeps ==
  ASSUME AssistInv, G!ToggleFeature
  PROVE  AssistInv'
<1>1. UNCHANGED <<keyCount, nextKey, ask, tried, aiLog, starts>> /\ assistantOn' \in BOOLEAN
  BY DEF G!ToggleFeature, AssistInv, G!TypeOKAssist
<1> QED
  BY <1>1 DEF AssistInv, G!TypeOKAssist, AskHolds, LoggedWhen, TriedWhen, G!KeyAt, InTurn

LEMMA RestartKeeps ==
  ASSUME AssistInv, G!Restart
  PROVE  AssistInv'
<1>1. /\ keyCount \in Nat /\ starts \in [0 .. keyCount - 1 -> Nat] /\ assistantOn \in BOOLEAN
  BY DEF AssistInv, G!TypeOKAssist
<1>2. /\ nextKey' = 0 /\ starts' = [k \in 0 .. keyCount - 1 |-> 0]
      /\ ask' = [r \in Askers |-> None] /\ tried' = [r \in Askers |-> <<>>]
      /\ aiLog' = [r \in Askers |-> <<>>] /\ keyCount' = keyCount /\ assistantOn' = assistantOn
  BY <1>1 DEF G!Restart
<1>3. G!TypeOKAssist'
  BY <1>1, <1>2, EmptyOnce DEF G!TypeOKAssist
<1>4. ASSUME NEW r \in Askers
      PROVE  AskHolds(r)'
  <2>1. ask'[r] = None /\ tried'[r] = <<>> /\ aiLog'[r] = <<>>
    BY ONLY <1>2, r \in Askers
  <2> QED
    BY ONLY <2>1, EmptyOnce DEF AskHolds
<1>5. InTurn'
  <2>1. nextKey' = 0 /\ keyCount' = keyCount /\ \A k \in 0 .. keyCount - 1 : starts'[k] = 0
    BY ONLY <1>2
  <2>2. \A k \in 0 .. keyCount' - 1 : starts'[k] = IF k < nextKey' THEN 0 + 1 ELSE 0
    BY ONLY <1>1, <2>1
  <2>3. keyCount' > 0 => nextKey' < keyCount'
    BY ONLY <2>1
  <2> QED
    BY ONLY <2>2, <2>3, 0 \in Nat DEF InTurn
<1> QED
  BY <1>3, <1>4, <1>5 DEF AssistInv

LEMMA AssistNext ==
  ASSUME AssistInv, G!NextAssist
  PROVE  AssistInv'
BY AskKeeps, EnsureKeeps, StartKeeps, TryKeeps, ValidateKeeps, CreateLogKeeps, LogFailureKeeps,
   LeaveKeeps, ToggleKeeps, RestartKeeps DEF G!NextAssist

LEMMA AssistStutters ==
  ASSUME AssistInv, UNCHANGED assistVars
  PROVE  AssistInv'
BY DEF AssistInv, assistVars, G!TypeOKAssist, AskHolds, LoggedWhen, TriedWhen, G!KeyAt, InTurn

LEMMA AssistInit ==
  ASSUME G!InitAssist
  PROVE  AssistInv
<1>1. /\ keyCount \in Nat /\ assistantOn = TRUE /\ nextKey = 0 /\ ask = [r \in Askers |-> None]
      /\ tried = [r \in Askers |-> <<>>] /\ aiLog = [r \in Askers |-> <<>>]
      /\ starts = [k \in 0 .. keyCount - 1 |-> 0]
  BY BotsAssumption DEF G!InitAssist
<1>2. G!TypeOKAssist
  BY <1>1, EmptyOnce DEF G!TypeOKAssist
<1>3. \A r \in Askers : AskHolds(r)
  BY <1>1, EmptyOnce DEF AskHolds
<1>4. InTurn
  BY <1>1 DEF InTurn
<1> QED
  BY <1>2, <1>3, <1>4 DEF AssistInv

-----------------------------------------------------------------------------
(* Linking.                                                                *)

(* The chat of a user is what was written last, so a request that is about
   to write has to know of all others of the chat. *)
AloneInChat ==
  \A c \in Chats \ shared :
    /\ \A u, v \in Owners : setting[u].chat = c /\ setting[v].chat = c => u = v
    /\ \A r \in L!At("write") : linker[r].chat = c =>
         \A v \in Owners \ {linker[r].user} : setting[v].chat = c => v \in DOMAIN linker[r].others

(* A code that is not loose is in the hands of one request, and once it has
   linked it is being spent or gone. *)
Works(r, k) == linker[r] # None /\ linker[r].code = k
Gone(k) == holder[<<k, "dashed">>] = None /\ holder[<<k, "joined">>] = None

CodesAreSpent ==
  \A k \in Codes \ loose :
    /\ \A q, r \in Linkers : Works(q, k) /\ Works(r, k) => q = r
    /\ \A r \in Linkers : Works(r, k) /\ linker[r].step \in {"found", "write"} => links[k] = 0
    /\ links[k] > 0 => Gone(k) \/ \E r \in L!At("spend") : Works(r, k)

(* A chat that is not rushed has one request that has a code. *)
Guesses(r, c) == linker[r] # None /\ linker[r].chat = c /\ linker[r].step # "unlink"

GuessesCounted ==
  \A c \in Chats \ rushed :
    /\ \A q, r \in Linkers : Guesses(q, c) /\ Guesses(r, c) => q = r
    /\ guesses[c] <= wrong[c]
    /\ \A r \in L!At("wrong") : linker[r].chat = c => guesses[c] <= linker[r].count

EntersInTime ==
  /\ \A r \in L!At("wrong") : linker[r].count < MaxWrong
  /\ \A r \in L!At("found") : linker[r].code # None /\ linker[r].user # None

LinkInv ==
  /\ L!TypeOKLink /\ EntersInTime /\ AloneInChat /\ CodesAreSpent
  /\ GuessesCounted /\ L!CodesLinkOnce /\ L!GuessesAreBounded

-----------------------------------------------------------------------------
LEMMA LinkSays ==
  ASSUME LinkInv
  PROVE  L!OneUserPerChat /\ L!CodesLinkOnce /\ L!GuessesAreBounded
<1>1. ASSUME NEW c \in Chats, c \notin shared
      PROVE  L!Cardinality({u \in Owners : setting[u].chat = c}) <= 1
  <2> DEFINE T == {u \in Owners : setting[u].chat = c}
  <2>1. \A u, v \in T : u = v
    BY <1>1 DEF LinkInv, AloneInChat
  <2>2. L!Cardinality(T) = Cardinality(T)
    BY DEF L!Cardinality, Cardinality
  <2>3. CASE T = {}
    BY <2>2, <2>3, FS_EmptySet
  <2>4. CASE T # {}
    <3>1. PICK u \in T : TRUE
      BY <2>4
    <3>2. T = {u}
      BY <2>1, <3>1
    <3>3. Cardinality({u}) = 1
      BY FS_Singleton
    <3> QED
      BY <2>2, <3>2, <3>3
  <2> QED
    BY <2>3, <2>4
<1> QED
  BY <1>1 DEF LinkInv, L!OneUserPerChat

LEMMA LinkerFields ==
  ASSUME NEW q \in L!Requests
  PROVE  /\ q.chat \in Chats /\ q.code \in Codes \cup {None}
         /\ q.step \in {"wrong", "found", "write", "spend", "unlink"}
         /\ q.step \in {"wrong", "found"} => q \in L!Entering
         /\ q.step = "write" => q \in L!Writing
         /\ q.step = "spend" => q \in L!Spending
         /\ q.step = "unlink" => q \in L!Unlinking
BY DEF L!Requests, L!Entering, L!Writing, L!Spending, L!Unlinking

LEMMA LinkerTyped ==
  ASSUME LinkInv, NEW r \in Linkers, linker[r] # None
  PROVE  linker[r] \in L!Requests
BY DEF LinkInv, L!TypeOKLink

(* Requests that write nothing of a linker but their own. *)
LEMMA OneLinker ==
  ASSUME LinkInv, NEW r \in Linkers, NEW q \in L!Requests \cup {None},
         linker' = [linker EXCEPT ![r] = q]
  PROVE  /\ linker' \in [Linkers -> L!Requests \cup {None}] /\ linker'[r] = q
         /\ \A s \in Linkers \ {r} : linker'[s] = linker[s]
BY DEF LinkInv, L!TypeOKLink

LEMMA GenerateKeeps ==
  ASSUME LinkInv, NEW u \in Owners, NEW k \in Codes, L!GenerateLinkCode(u, k)
  PROVE  LinkInv'
<1>1. UNCHANGED <<setting, wrong, linker, links, guesses, loose, rushed, shared>>
  BY DEF L!GenerateLinkCode
<1>2. holder' = [holder EXCEPT ![<<k, "dashed">>] = u, ![<<k, "joined">>] = u] /\ links[k] = 0
  BY DEF L!GenerateLinkCode
<1>3. holder \in [L!Keys -> Owners \cup {None}]
  BY DEF LinkInv, L!TypeOKLink
<1>4. holder' \in [L!Keys -> Owners \cup {None}]
  BY <1>2, <1>3
<1>5. \A j \in Codes \ {k} : Gone(j) => Gone(j)'
  <2> SUFFICES ASSUME NEW j \in Codes \ {k} PROVE Gone(j) => Gone(j)'
    OBVIOUS
  <2>1. /\ <<j, "dashed">> # <<k, "dashed">> /\ <<j, "dashed">> # <<k, "joined">>
        /\ <<j, "joined">> # <<k, "dashed">> /\ <<j, "joined">> # <<k, "joined">>
        /\ <<j, "dashed">> \in L!Keys /\ <<j, "joined">> \in L!Keys
    BY DEF L!Keys, L!Forms
  <2> QED
    BY <1>2, <1>3, <2>1 DEF Gone
<1>6. L!TypeOKLink'
  BY <1>1, <1>4 DEF LinkInv, L!TypeOKLink
<1>7. CodesAreSpent'
  <2> SUFFICES ASSUME NEW j \in Codes \ loose
               PROVE  /\ \A q, r \in Linkers : Works(q, j) /\ Works(r, j) => q = r
                      /\ \A r \in Linkers : Works(r, j) /\ linker[r].step \in {"found", "write"} => links[j] = 0
                      /\ links[j] > 0 => Gone(j)' \/ \E r \in L!At("spend") : Works(r, j)
    BY <1>1 DEF CodesAreSpent, Works, L!At
  <2>1. CASE j = k
    BY <1>2, <2>1 DEF LinkInv, CodesAreSpent
  <2>2. CASE j # k
    BY <1>5, <2>2 DEF LinkInv, CodesAreSpent
  <2> QED
    BY <2>1, <2>2
<1> QED
  BY <1>1, <1>6, <1>7 DEF LinkInv, EntersInTime, AloneInChat, GuessesCounted, Guesses, L!At,
     L!CodesLinkOnce, L!GuessesAreBounded

LEMMA ExpireKeepsLinks ==
  ASSUME LinkInv, L!Expire
  PROVE  LinkInv'
<1>1. UNCHANGED <<setting, linker, links, loose, rushed, shared>>
  BY DEF L!Expire
<1>2. /\ holder \in [L!Keys -> Owners \cup {None}] /\ wrong \in [Chats -> 0 .. MaxWrong]
      /\ guesses \in [Chats -> Nat]
  BY DEF LinkInv, L!TypeOKLink
<1>3. ASSUME NEW k \in Codes,
             holder' = [holder EXCEPT ![<<k, "dashed">>] = None, ![<<k, "joined">>] = None]
      PROVE  holder' \in [L!Keys -> Owners \cup {None}] /\ \A j \in Codes : Gone(j) => Gone(j)'
  <2>1. holder' \in [L!Keys -> Owners \cup {None}]
    BY <1>2, <1>3
  <2>2. \A x \in L!Keys : holder'[x] = None \/ holder'[x] = holder[x]
    BY <1>2, <1>3
  <2>3. \A j \in Codes : <<j, "dashed">> \in L!Keys /\ <<j, "joined">> \in L!Keys
    BY DEF L!Keys, L!Forms
  <2> QED
    BY <2>1, <2>2, <2>3 DEF Gone
<1>4. ASSUME NEW c \in Chats, wrong' = [wrong EXCEPT ![c] = 0], guesses' = [guesses EXCEPT ![c] = 0]
      PROVE  /\ wrong' \in [Chats -> 0 .. MaxWrong] /\ guesses' \in [Chats -> Nat]
             /\ GuessesCounted' /\ L!GuessesAreBounded'
  <2>1. wrong' \in [Chats -> 0 .. MaxWrong] /\ guesses' \in [Chats -> Nat]
    BY <1>2, <1>4, BotsAssumption
  <2>2. \A d \in Chats : (guesses'[d] = guesses[d] /\ wrong'[d] = wrong[d]) \/ (guesses'[d] = 0 /\ wrong'[d] = 0)
    BY <1>2, <1>4
  <2>3. L!GuessesAreBounded'
    BY <2>2, BotsAssumption DEF LinkInv, L!GuessesAreBounded
  <2>4. \A r \in L!At("wrong") : linker[r].count \in Nat
    BY LinkerTyped, LinkerFields DEF L!At, L!Entering
  <2>5. GuessesCounted'
    BY <1>1, <2>2, <2>4 DEF LinkInv, GuessesCounted, Guesses, L!At
  <2> QED
    BY <2>1, <2>3, <2>5
<1>5. CASE \E k \in Codes : /\ holder' = [holder EXCEPT ![<<k, "dashed">>] = None, ![<<k, "joined">>] = None]
                            /\ UNCHANGED <<wrong, guesses>>
  <2>1. holder' \in [L!Keys -> Owners \cup {None}] /\ \A j \in Codes : Gone(j) => Gone(j)'
    BY <1>3, <1>5
  <2>2. CodesAreSpent'
    BY <1>1, <2>1 DEF LinkInv, CodesAreSpent, Works, L!At
  <2> QED
    BY <1>1, <1>5, <2>1, <2>2 DEF LinkInv, L!TypeOKLink, EntersInTime, AloneInChat, GuessesCounted,
       Guesses, L!At, L!CodesLinkOnce, L!GuessesAreBounded
<1>6. CASE \E c \in Chats : /\ wrong' = [wrong EXCEPT ![c] = 0] /\ guesses' = [guesses EXCEPT ![c] = 0]
                            /\ UNCHANGED holder
  <2>1. /\ wrong' \in [Chats -> 0 .. MaxWrong] /\ guesses' \in [Chats -> Nat]
        /\ GuessesCounted' /\ L!GuessesAreBounded' /\ holder' = holder
    BY <1>4, <1>6
  <2>2. L!TypeOKLink'
    BY <1>1, <2>1 DEF LinkInv, L!TypeOKLink
  <2> QED
    BY <1>1, <2>1, <2>2 DEF LinkInv, EntersInTime, AloneInChat, CodesAreSpent, Works, Gone,
       L!At, L!CodesLinkOnce
<1> QED
  BY <1>5, <1>6 DEF L!Expire

LEMMA EnterKeeps ==
  ASSUME LinkInv, NEW r \in Linkers, NEW c \in Chats, NEW k \in Codes \cup {None}, NEW f \in L!Forms,
         L!Enter(r, c, k, f)
  PROVE  LinkInv'
<1> DEFINE q == [step |-> IF k = None \/ (k # None /\ L!Held(k, f) = None) THEN "wrong" ELSE "found",
                 chat |-> c, code |-> k, form |-> f, count |-> wrong[c],
                 user |-> IF k = None THEN None ELSE L!Held(k, f)]
<1>1. /\ UNCHANGED <<setting, holder, wrong, links, guesses, shared>>
      /\ linker[r] = None /\ wrong[c] < MaxWrong /\ linker' = [linker EXCEPT ![r] = q]
      /\ rushed' = IF L!Busy(c) THEN rushed \cup {c} ELSE rushed
      /\ loose' = IF k # None /\ \E s \in Linkers : linker[s] # None /\ linker[s].code = k
                  THEN loose \cup {k} ELSE loose
  BY DEF L!Enter, L!Free
<1>2. /\ holder \in [L!Keys -> Owners \cup {None}] /\ wrong \in [Chats -> 0 .. MaxWrong]
      /\ guesses \in [Chats -> Nat] /\ loose \subseteq Codes /\ rushed \subseteq Chats
      /\ links \in [Codes -> Nat]
  BY DEF LinkInv, L!TypeOKLink
<1>3. k # None => <<k, f>> \in L!Keys /\ <<k, "joined">> \in L!Keys
  BY DEF L!Keys, L!Forms
<1>4. k # None => L!Held(k, f) \in Owners \cup {None}
  BY <1>2, <1>3 DEF L!Held
<1>5. q \in L!Requests
  BY <1>2, <1>4 DEF L!Requests, L!Entering
<1>6. /\ q.step \in {"wrong", "found"} /\ q.chat = c /\ q.code = k /\ q.count = wrong[c]
      /\ q.step = "found" => k # None /\ L!Held(k, f) # None /\ q.user = L!Held(k, f)
  OBVIOUS
<1> HIDE DEF q
<1>7. /\ linker' \in [Linkers -> L!Requests \cup {None}] /\ linker'[r] = q
      /\ \A s \in Linkers \ {r} : linker'[s] = linker[s]
  BY <1>1, <1>5, OneLinker
<1>8. loose' \subseteq Codes /\ rushed' \subseteq Chats /\ loose \subseteq loose' /\ rushed \subseteq rushed'
  BY <1>1, <1>2
<1>9. L!TypeOKLink'
  BY <1>1, <1>7, <1>8 DEF LinkInv, L!TypeOKLink
<1>10. EntersInTime'
  BY <1>1, <1>6, <1>7 DEF LinkInv, EntersInTime, L!At
<1>11. AloneInChat'
  BY <1>1, <1>6, <1>7 DEF LinkInv, AloneInChat, L!At
<1>12. CodesAreSpent'
  <2> SUFFICES ASSUME NEW j \in Codes, j \notin loose'
               PROVE  /\ \A x, y \in Linkers : Works(x, j)' /\ Works(y, j)' => x = y
                      /\ \A x \in Linkers : Works(x, j)' /\ linker'[x].step \in {"found", "write"} => links[j] = 0
                      /\ links[j] > 0 => Gone(j) \/ \E x \in L!At("spend")' : Works(x, j)'
    BY <1>1 DEF CodesAreSpent, Gone
  <2>1. j \notin loose
    BY <1>8
  <2>2. /\ \A x, y \in Linkers : Works(x, j) /\ Works(y, j) => x = y
        /\ \A x \in Linkers : Works(x, j) /\ linker[x].step \in {"found", "write"} => links[j] = 0
        /\ links[j] > 0 => Gone(j) \/ \E x \in L!At("spend") : Works(x, j)
    BY <2>1 DEF LinkInv, CodesAreSpent
  <2>3. \A s \in Linkers \ {r} : Works(s, j)' = Works(s, j)
    BY <1>7 DEF Works
  <2>4. \A s \in L!At("spend") : s # r /\ s \in L!At("spend")'
    BY <1>1, <1>7 DEF L!At
  <2>5. links[j] > 0 => Gone(j) \/ \E x \in L!At("spend")' : Works(x, j)'
    BY <2>2, <2>3, <2>4 DEF L!At
  <2>6. CASE k # j
    <3>1. ~Works(r, j)'
      BY <1>6, <1>7, <2>6 DEF Works
    <3> QED
      BY <1>7, <2>2, <2>3, <2>5, <3>1
  <2>7. CASE k = j
    <3>1. \A s \in Linkers : ~Works(s, j)
      BY <1>1, <2>7, BotsAssumption DEF Works
    <3>2. q.step = "found" => links[j] = 0
      <4>1. SUFFICES ASSUME q.step = "found", links[j] # 0 PROVE FALSE
        OBVIOUS
      <4>2. Gone(j)
        BY <1>2, <2>2, <3>1, <4>1 DEF L!At
      <4>3. holder[<<j, "joined">>] = None /\ holder[<<j, f>>] = None
        BY <4>2 DEF Gone, L!Forms
      <4> QED
        BY <1>6, <2>7, <4>1, <4>3 DEF L!Held
    <3> QED
      BY <1>6, <1>7, <2>3, <2>5, <3>1, <3>2
  <2> QED
    BY <2>6, <2>7
<1>13. GuessesCounted'
  <2> SUFFICES ASSUME NEW d \in Chats, d \notin rushed'
               PROVE  /\ \A x, y \in Linkers : Guesses(x, d)' /\ Guesses(y, d)' => x = y
                      /\ guesses[d] <= wrong[d]
                      /\ \A x \in L!At("wrong")' : linker'[x].chat = d => guesses[d] <= linker'[x].count
    BY <1>1 DEF GuessesCounted
  <2>1. d \notin rushed
    BY <1>8
  <2>2. /\ \A x, y \in Linkers : Guesses(x, d) /\ Guesses(y, d) => x = y
        /\ guesses[d] <= wrong[d]
        /\ \A x \in L!At("wrong") : linker[x].chat = d => guesses[d] <= linker[x].count
    BY <2>1 DEF LinkInv, GuessesCounted
  <2>3. \A x \in L!At("wrong")' : linker'[x].chat = d => guesses[d] <= linker'[x].count
    BY <1>6, <1>7, <2>2 DEF L!At
  <2>4. \A s \in Linkers \ {r} : Guesses(s, d)' = Guesses(s, d)
    BY <1>7 DEF Guesses
  <2>5. CASE d # c
    <3>1. ~Guesses(r, d)'
      BY <1>6, <1>7, <2>5 DEF Guesses
    <3> QED
      BY <2>2, <2>3, <2>4, <3>1
  <2>6. CASE d = c
    <3>1. \A s \in Linkers : ~Guesses(s, d)
      BY <1>1, <2>6 DEF Guesses, L!Busy
    <3> QED
      BY <2>2, <2>3, <2>4, <3>1
  <2> QED
    BY <2>5, <2>6
<1> QED
  BY <1>1, <1>9, <1>10, <1>11, <1>12, <1>13 DEF LinkInv, L!CodesLinkOnce, L!GuessesAreBounded

LEMMA CountWrongKeeps ==
  ASSUME LinkInv, NEW r \in Linkers, L!CountWrong(r)
  PROVE  LinkInv'
<1> DEFINE c == linker[r].chat
           n == linker[r].count
<1>1. /\ UNCHANGED <<setting, holder, links, loose, rushed, shared>>
      /\ linker[r] # None /\ linker[r].step = "wrong" /\ linker' = [linker EXCEPT ![r] = None]
      /\ wrong' = [wrong EXCEPT ![c] = n + 1]
      /\ guesses' = IF c \in rushed THEN guesses ELSE [guesses EXCEPT ![c] = guesses[c] + 1]
  BY DEF L!CountWrong, L!At, L!Ends
<1>2. linker[r] \in L!Entering
  BY <1>1, LinkerTyped, LinkerFields
<1>3. c \in Chats /\ n \in Nat /\ n < MaxWrong
  BY <1>1, <1>2 DEF L!Entering, LinkInv, EntersInTime, L!At
<1>4. /\ wrong \in [Chats -> 0 .. MaxWrong] /\ guesses \in [Chats -> Nat]
  BY DEF LinkInv, L!TypeOKLink
<1>5. /\ linker' \in [Linkers -> L!Requests \cup {None}] /\ linker'[r] = None
      /\ \A s \in Linkers \ {r} : linker'[s] = linker[s]
  BY <1>1, OneLinker
<1> HIDE DEF c, n
<1>6. n + 1 \in 0 .. MaxWrong
  BY <1>3, BotsAssumption
<1>7. wrong' \in [Chats -> 0 .. MaxWrong] /\ guesses' \in [Chats -> Nat]
  BY <1>1, <1>3, <1>4, <1>6
<1>8. L!TypeOKLink'
  BY <1>1, <1>5, <1>7 DEF LinkInv, L!TypeOKLink
<1>9. c \notin rushed => guesses[c] <= n /\ \A s \in Linkers \ {r} : ~Guesses(s, c)
  BY <1>1, <1>3 DEF LinkInv, GuessesCounted, Guesses, L!At, c, n
<1>10. L!GuessesAreBounded'
  <2> SUFFICES ASSUME NEW d \in Chats PROVE guesses'[d] <= MaxWrong
    BY DEF L!GuessesAreBounded
  <2>1. guesses[d] <= MaxWrong
    BY DEF LinkInv, L!GuessesAreBounded
  <2>2. CASE d = c /\ c \notin rushed
    BY <1>1, <1>3, <1>4, <1>9, <2>2, BotsAssumption
  <2> QED
    BY <1>1, <1>4, <2>1, <2>2
<1>11. GuessesCounted'
  <2> SUFFICES ASSUME NEW d \in Chats, d \notin rushed
               PROVE  /\ \A x, y \in Linkers : Guesses(x, d)' /\ Guesses(y, d)' => x = y
                      /\ guesses'[d] <= wrong'[d]
                      /\ \A x \in L!At("wrong")' : linker'[x].chat = d => guesses'[d] <= linker'[x].count
    BY <1>1 DEF GuessesCounted
  <2>1. /\ \A x, y \in Linkers : Guesses(x, d) /\ Guesses(y, d) => x = y
        /\ guesses[d] <= wrong[d]
        /\ \A x \in L!At("wrong") : linker[x].chat = d => guesses[d] <= linker[x].count
    BY DEF LinkInv, GuessesCounted
  <2>2. ~Guesses(r, d)' /\ \A x \in Linkers \ {r} : Guesses(x, d)' = Guesses(x, d)
    BY <1>5 DEF Guesses
  <2>3. \A x \in L!At("wrong")' : x # r /\ x \in L!At("wrong") /\ linker'[x] = linker[x]
    BY <1>5 DEF L!At
  <2>4. CASE d = c
    <3>1. guesses'[d] = guesses[d] + 1 /\ wrong'[d] = n + 1
      BY <1>1, <1>3, <1>4, <2>4
    <3>2. \A x \in L!At("wrong")' : linker'[x].chat # d
      BY <1>9, <2>3, <2>4 DEF Guesses, L!At
    <3> QED
      BY <1>3, <1>4, <1>9, <2>1, <2>2, <2>4, <3>1, <3>2
  <2>5. CASE d # c
    <3>1. guesses'[d] = guesses[d] /\ wrong'[d] = wrong[d]
      BY <1>1, <1>3, <1>4, <2>5
    <3> QED
      BY <2>1, <2>2, <2>3, <3>1
  <2> QED
    BY <2>4, <2>5
<1>12. AloneInChat'
  BY <1>1, <1>5 DEF LinkInv, AloneInChat, L!At
<1>13. CodesAreSpent'
  <2> SUFFICES ASSUME NEW j \in Codes \ loose
               PROVE  /\ \A x, y \in Linkers : Works(x, j)' /\ Works(y, j)' => x = y
                      /\ \A x \in Linkers : Works(x, j)' /\ linker'[x].step \in {"found", "write"} => links[j] = 0
                      /\ links[j] > 0 => Gone(j) \/ \E x \in L!At("spend")' : Works(x, j)'
    BY <1>1 DEF CodesAreSpent, Gone
  <2>1. /\ \A x, y \in Linkers : Works(x, j) /\ Works(y, j) => x = y
        /\ \A x \in Linkers : Works(x, j) /\ linker[x].step \in {"found", "write"} => links[j] = 0
        /\ links[j] > 0 => Gone(j) \/ \E x \in L!At("spend") : Works(x, j)
    BY DEF LinkInv, CodesAreSpent
  <2>2. \A s \in Linkers : Works(s, j)' => Works(s, j) /\ s # r
    BY <1>5 DEF Works
  <2>3. \A s \in L!At("spend") : Works(s, j) => s \in L!At("spend")' /\ Works(s, j)'
    BY <1>1, <1>5 DEF Works, L!At
  <2> QED
    BY <1>5, <2>1, <2>2, <2>3
<1>14. EntersInTime'
  BY <1>1, <1>5 DEF LinkInv, EntersInTime, L!At
<1> QED
  BY <1>1, <1>8, <1>10, <1>11, <1>12, <1>13, <1>14 DEF LinkInv, L!CodesLinkOnce

LEMMA ChoicesKept ==
  ASSUME NEW s \in L!Choices
  PROVE  L!Filtered(s) \in L!Choices /\ s \cup {"ZALO"} \in L!Choices
BY DEF L!Choices, L!Filtered, L!Channels

LEMMA FindKeeps ==
  ASSUME LinkInv, NEW r \in Linkers, L!Find(r)
  PROVE  LinkInv'
<1> DEFINE c == linker[r].chat
           u == linker[r].user
           q == [step |-> "write", chat |-> c, code |-> linker[r].code, form |-> linker[r].form, user |-> u,
                 channels |-> setting[u].channels \cup {"ZALO"},
                 others |-> [v \in L!Others(c, u) |-> L!Filtered(setting[v].channels)]]
<1>1. /\ UNCHANGED <<setting, holder, links, loose, rushed, shared>>
      /\ linker[r] # None /\ linker[r].step = "found" /\ linker' = [linker EXCEPT ![r] = q]
      /\ wrong' = [wrong EXCEPT ![c] = 0] /\ guesses' = [guesses EXCEPT ![c] = 0]
  BY DEF L!Find, L!At
<1>2. linker[r] \in L!Entering /\ linker[r].code # None /\ linker[r].user # None
  BY <1>1, LinkerTyped, LinkerFields DEF LinkInv, EntersInTime, L!At
<1>3. c \in Chats /\ u \in Owners /\ linker[r].code \in Codes /\ linker[r].form \in L!Forms
  BY <1>2 DEF L!Entering
<1>4. /\ wrong \in [Chats -> 0 .. MaxWrong] /\ guesses \in [Chats -> Nat]
      /\ setting \in [Owners -> [chat : Chats \cup {None}, channels : L!Choices]]
  BY DEF LinkInv, L!TypeOKLink
<1>5. \A v \in Owners : setting[v].channels \in L!Choices
  BY <1>4
<1>6. L!Others(c, u) \in SUBSET Owners
  BY DEF L!Others
<1>7. [v \in L!Others(c, u) |-> L!Filtered(setting[v].channels)] \in [L!Others(c, u) -> L!Choices]
  BY <1>5, <1>6, ChoicesKept
<1>8. q \in L!Writing
  <2>1. q.others \in UNION {[D -> L!Choices] : D \in SUBSET Owners}
    BY <1>6, <1>7
  <2>2. setting[u].channels \cup {"ZALO"} \in L!Choices
    BY <1>3, <1>5, ChoicesKept
  <2> QED
    BY <1>3, <2>1, <2>2 DEF L!Writing
<1>9. /\ q.step = "write" /\ q.chat = c /\ q.code = linker[r].code /\ q.user = u
      /\ DOMAIN q.others = L!Others(c, u)
  OBVIOUS
<1> HIDE DEF q, c, u
<1>10. q \in L!Requests \cup {None}
  BY <1>8 DEF L!Requests
<1>11. /\ linker' \in [Linkers -> L!Requests \cup {None}] /\ linker'[r] = q
       /\ \A s \in Linkers \ {r} : linker'[s] = linker[s]
  BY <1>1, <1>10, OneLinker
<1>12. wrong' \in [Chats -> 0 .. MaxWrong] /\ guesses' \in [Chats -> Nat]
  <2>1. 0 \in 0 .. MaxWrong
    BY BotsAssumption
  <2>2. wrong \in [Chats -> 0 .. MaxWrong] /\ guesses \in [Chats -> Nat]
    BY <1>4
  <2> QED
    BY <1>1, <2>1, <2>2
<1>13. L!TypeOKLink'
  BY <1>1, <1>11, <1>12 DEF LinkInv, L!TypeOKLink
<1>14. \A d \in Chats : (guesses'[d] = guesses[d] /\ wrong'[d] = wrong[d]) \/ (guesses'[d] = 0 /\ wrong'[d] = 0)
  BY <1>1, <1>4
<1>15. L!GuessesAreBounded'
  BY <1>14, BotsAssumption DEF LinkInv, L!GuessesAreBounded
<1>16. q # None
  BY <1>8, BotsAssumption DEF L!Requests
<1>17. GuessesCounted'
  <2>1. \A s \in Linkers : \A d \in Chats : Guesses(s, d)' = Guesses(s, d)
    BY <1>1, <1>9, <1>11, <1>16 DEF Guesses, c
  <2>2. \A s \in L!At("wrong")' : s \in L!At("wrong") /\ linker'[s] = linker[s]
    BY <1>9, <1>11 DEF L!At
  <2>3. \A s \in L!At("wrong") : linker[s].count \in Nat
    BY LinkerTyped, LinkerFields DEF L!At, L!Entering
  <2> QED
    BY <1>1, <1>14, <2>1, <2>2, <2>3 DEF LinkInv, GuessesCounted
<1>18. AloneInChat'
  <2> SUFFICES ASSUME NEW d \in Chats \ shared, NEW s \in L!At("write")', linker'[s].chat = d,
                      NEW v \in Owners \ {linker'[s].user}, setting[v].chat = d
               PROVE  v \in DOMAIN linker'[s].others
    BY <1>1 DEF LinkInv, AloneInChat
  <2>1. CASE s = r
    BY <1>9, <1>11, <2>1 DEF L!Others
  <2>2. CASE s # r
    BY <1>11, <2>2 DEF LinkInv, AloneInChat, L!At
  <2> QED
    BY <2>1, <2>2
<1>19. CodesAreSpent'
  <2>1. \A s \in Linkers : \A j \in Codes : Works(s, j)' = Works(s, j)
    BY <1>1, <1>9, <1>11, <1>16 DEF Works
  <2>2. \A s \in Linkers : linker'[s].step \in {"found", "write"} /\ linker'[s] # None =>
                             linker[s].step \in {"found", "write"}
    BY <1>1, <1>11
  <2>3. \A s \in L!At("spend") : s \in L!At("spend")'
    BY <1>1, <1>11 DEF L!At
  <2> SUFFICES ASSUME NEW j \in Codes \ loose
               PROVE  /\ \A x, y \in Linkers : Works(x, j)' /\ Works(y, j)' => x = y
                      /\ \A x \in Linkers : Works(x, j)' /\ linker'[x].step \in {"found", "write"} => links[j] = 0
                      /\ links[j] > 0 => Gone(j) \/ \E x \in L!At("spend")' : Works(x, j)'
    BY <1>1 DEF CodesAreSpent, Gone
  <2>4. /\ \A x, y \in Linkers : Works(x, j) /\ Works(y, j) => x = y
        /\ \A x \in Linkers : Works(x, j) /\ linker[x].step \in {"found", "write"} => links[j] = 0
        /\ links[j] > 0 => Gone(j) \/ \E x \in L!At("spend") : Works(x, j)
    BY DEF LinkInv, CodesAreSpent
  <2>5. \A x \in Linkers : Works(x, j)' => linker'[x] # None
    BY DEF Works
  <2>6. \A x \in L!At("spend") : x \in Linkers
    BY DEF L!At
  <2> QED
    BY <2>1, <2>2, <2>3, <2>4, <2>5, <2>6
<1>20. EntersInTime'
  BY <1>9, <1>11 DEF LinkInv, EntersInTime, L!At
<1> QED
  BY <1>1, <1>13, <1>15, <1>17, <1>18, <1>19, <1>20 DEF LinkInv, L!CodesLinkOnce

LEMMA WriteLinkKeeps ==
  ASSUME LinkInv, NEW r \in Linkers, L!WriteLink(r)
  PROVE  LinkInv'
<1> DEFINE l == linker[r]
           q == [step |-> "spend", chat |-> l.chat, code |-> l.code, form |-> l.form]
<1>1. /\ UNCHANGED <<holder, wrong, guesses, loose, rushed>>
      /\ l # None /\ l.step = "write" /\ linker' = [linker EXCEPT ![r] = q]
      /\ setting' = [u \in Owners |->
            IF u = l.user THEN [chat |-> l.chat, channels |-> l.channels]
            ELSE IF u \in DOMAIN l.others THEN [chat |-> None, channels |-> l.others[u]]
            ELSE setting[u]]
      /\ links' = IF l.code \in loose THEN links ELSE [links EXCEPT ![l.code] = links[l.code] + 1]
      /\ shared' = IF \E s \in L!At("write") \ {r} : linker[s].chat = l.chat
                   THEN shared \cup {l.chat} ELSE shared
  BY DEF L!WriteLink, L!At
<1>2. l \in L!Writing
  BY <1>1, LinkerTyped, LinkerFields
<1>3. /\ l.chat \in Chats /\ l.code \in Codes /\ l.user \in Owners /\ l.form \in L!Forms
      /\ l.channels \in L!Choices
  BY <1>2 DEF L!Writing
<1>4. \A u \in DOMAIN l.others : l.others[u] \in L!Choices
  <2>1. PICK D \in SUBSET Owners : l.others \in [D -> L!Choices]
    BY <1>2 DEF L!Writing
  <2> QED
    BY <2>1
<1>5. /\ setting \in [Owners -> [chat : Chats \cup {None}, channels : L!Choices]]
      /\ links \in [Codes -> Nat] /\ shared \subseteq Chats
  BY DEF LinkInv, L!TypeOKLink
<1>6. q \in L!Spending
  BY <1>3 DEF L!Spending
<1>7. q.step = "spend" /\ q.chat = l.chat /\ q.code = l.code
  OBVIOUS
<1> HIDE DEF q
<1>8. q \in L!Requests \cup {None} /\ q # None
  BY <1>6, BotsAssumption DEF L!Requests
<1>9. /\ linker' \in [Linkers -> L!Requests \cup {None}] /\ linker'[r] = q
      /\ \A s \in Linkers \ {r} : linker'[s] = linker[s]
  BY <1>1, <1>8, OneLinker
<1> HIDE DEF l
<1>10. setting' \in [Owners -> [chat : Chats \cup {None}, channels : L!Choices]]
  BY <1>1, <1>3, <1>4, <1>5
<1>11. links' \in [Codes -> Nat] /\ shared' \subseteq Chats /\ shared \subseteq shared'
  BY <1>1, <1>3, <1>5
<1>12. L!TypeOKLink'
  BY <1>1, <1>9, <1>10, <1>11 DEF LinkInv, L!TypeOKLink
<1>13. /\ r \in L!At("write") /\ r \notin L!At("write")'
       /\ \A s \in L!At("write")' : s # r /\ s \in L!At("write") /\ linker'[s] = linker[s]
  BY <1>1, <1>7, <1>9 DEF L!At, l
<1>14. AloneInChat'
  <2> SUFFICES ASSUME NEW d \in Chats, d \notin shared'
               PROVE  /\ \A u, v \in Owners : setting'[u].chat = d /\ setting'[v].chat = d => u = v
                      /\ \A s \in L!At("write")' : linker'[s].chat = d =>
                           \A v \in Owners \ {linker'[s].user} : setting'[v].chat = d => v \in DOMAIN linker'[s].others
    BY DEF AloneInChat
  <2>1. /\ \A u, v \in Owners : setting[u].chat = d /\ setting[v].chat = d => u = v
        /\ \A s \in L!At("write") : linker[s].chat = d =>
             \A v \in Owners \ {linker[s].user} : setting[v].chat = d => v \in DOMAIN linker[s].others
    BY <1>11 DEF LinkInv, AloneInChat
  <2>2. d # None
    BY BotsAssumption
  <2>3. CASE d = l.chat
    <3>1. \A v \in Owners : setting'[v].chat = d => v = l.user
      BY <1>1, <1>13, <2>1, <2>2, <2>3 DEF l
    <3>2. \A s \in L!At("write")' : linker'[s].chat # d
      BY <1>1, <1>3, <1>13, <2>3
    <3> QED
      BY <3>1, <3>2
  <2>4. CASE d # l.chat
    <3>1. \A v \in Owners : setting'[v].chat = d => setting[v].chat = d
      BY <1>1, <2>2, <2>4
    <3> QED
      BY <1>13, <2>1, <3>1
  <2> QED
    BY <2>3, <2>4
<1>15. l.code \notin loose => links[l.code] = 0 /\ \A s \in Linkers \ {r} : ~Works(s, l.code)
  BY <1>1, <1>3 DEF LinkInv, CodesAreSpent, Works, l
<1>16. L!CodesLinkOnce'
  BY <1>1, <1>3, <1>5, <1>15 DEF LinkInv, L!CodesLinkOnce
<1>17. CodesAreSpent'
  <2> SUFFICES ASSUME NEW j \in Codes \ loose
               PROVE  /\ \A x, y \in Linkers : Works(x, j)' /\ Works(y, j)' => x = y
                      /\ \A x \in Linkers : Works(x, j)' /\ linker'[x].step \in {"found", "write"} => links'[j] = 0
                      /\ links'[j] > 0 => Gone(j) \/ \E x \in L!At("spend")' : Works(x, j)'
    BY <1>1 DEF CodesAreSpent, Gone
  <2>1. \A s \in Linkers : Works(s, j)' = Works(s, j)
    BY <1>1, <1>7, <1>8, <1>9 DEF Works, l
  <2>2. \A s \in L!At("spend") : s \in Linkers /\ s \in L!At("spend")'
    BY <1>1, <1>9 DEF L!At, l
  <2>3. /\ \A x, y \in Linkers : Works(x, j) /\ Works(y, j) => x = y
        /\ \A x \in Linkers : Works(x, j) /\ linker[x].step \in {"found", "write"} => links[j] = 0
        /\ links[j] > 0 => Gone(j) \/ \E x \in L!At("spend") : Works(x, j)
    BY DEF LinkInv, CodesAreSpent
  <2>4. CASE j = l.code
    <3>1. Works(r, j)' /\ r \in L!At("spend")' /\ linker'[r].step = "spend"
      BY <1>7, <1>8, <1>9, <2>4 DEF Works, L!At
    <3> QED
      BY <1>15, <2>1, <2>3, <2>4, <3>1
  <2>5. CASE j # l.code
    <3>1. links'[j] = links[j]
      BY <1>1, <1>5, <2>5
    <3>2. ~Works(r, j)
      BY <2>5 DEF Works, l
    <3> QED
      BY <1>9, <2>1, <2>2, <2>3, <3>1, <3>2
  <2> QED
    BY <2>4, <2>5
<1>18. GuessesCounted'
  <2>1. \A s \in Linkers : \A d \in Chats : Guesses(s, d)' = Guesses(s, d)
    BY <1>1, <1>7, <1>8, <1>9 DEF Guesses, l
  <2>2. \A s \in L!At("wrong")' : s \in L!At("wrong") /\ linker'[s] = linker[s]
    BY <1>7, <1>9 DEF L!At
  <2> QED
    BY <1>1, <2>1, <2>2 DEF LinkInv, GuessesCounted
<1>19. EntersInTime'
  BY <1>7, <1>9 DEF LinkInv, EntersInTime, L!At
<1> QED
  BY <1>1, <1>12, <1>14, <1>16, <1>17, <1>18, <1>19 DEF LinkInv, L!GuessesAreBounded

LEMMA SpendCodeKeeps ==
  ASSUME LinkInv, NEW r \in Linkers, L!SpendCode(r)
  PROVE  LinkInv'
<1> DEFINE k == linker[r].code
           f == linker[r].form
<1>1. /\ UNCHANGED <<setting, wrong, links, guesses, rushed, shared>>
      /\ linker[r] # None /\ linker[r].step = "spend" /\ linker' = [linker EXCEPT ![r] = None]
      /\ holder' = [key \in L!Keys |-> IF key \in L!Spent(k, f) THEN None ELSE holder[key]]
      /\ loose' = IF f = "joined" THEN loose \cup {k} ELSE loose
  BY DEF L!SpendCode, L!At, L!Ends
<1>2. k \in Codes /\ f \in L!Forms
  BY <1>1, LinkerTyped, LinkerFields DEF L!Spending
<1>3. holder \in [L!Keys -> Owners \cup {None}] /\ loose \subseteq Codes
  BY DEF LinkInv, L!TypeOKLink
<1>4. /\ linker' \in [Linkers -> L!Requests \cup {None}] /\ linker'[r] = None
      /\ \A s \in Linkers \ {r} : linker'[s] = linker[s]
  BY <1>1, OneLinker
<1>5. Works(r, k)
  BY <1>1 DEF Works
<1> HIDE DEF k, f
<1>6. /\ holder' \in [L!Keys -> Owners \cup {None}] /\ loose' \subseteq Codes /\ loose \subseteq loose'
      /\ \A x \in L!Keys : holder'[x] = None \/ holder'[x] = holder[x]
  BY <1>1, <1>2, <1>3
<1>7. \A j \in Codes : <<j, "dashed">> \in L!Keys /\ <<j, "joined">> \in L!Keys
  BY DEF L!Keys, L!Forms
<1>8. ASSUME f = "dashed" PROVE holder'[<<k, "dashed">>] = None /\ holder'[<<k, "joined">>] = None
  <2>1. <<k, "dashed">> \in L!Spent(k, f) /\ <<k, "joined">> \in L!Spent(k, f)
    BY <1>8 DEF L!Spent
  <2> QED
    BY <1>1, <1>2, <1>7, <2>1
<1>9. CodesAreSpent'
  <2> SUFFICES ASSUME NEW j \in Codes, j \notin loose'
               PROVE  /\ \A x, y \in Linkers : Works(x, j)' /\ Works(y, j)' => x = y
                      /\ \A x \in Linkers : Works(x, j)' /\ linker'[x].step \in {"found", "write"} => links[j] = 0
                      /\ links[j] > 0 => Gone(j)' \/ \E x \in L!At("spend")' : Works(x, j)'
    BY <1>1 DEF CodesAreSpent
  <2>1. /\ \A x, y \in Linkers : Works(x, j) /\ Works(y, j) => x = y
        /\ \A x \in Linkers : Works(x, j) /\ linker[x].step \in {"found", "write"} => links[j] = 0
        /\ links[j] > 0 => Gone(j) \/ \E x \in L!At("spend") : Works(x, j)
    BY <1>6 DEF LinkInv, CodesAreSpent
  <2>2. \A x \in Linkers : Works(x, j)' => x # r /\ Works(x, j) /\ linker'[x] = linker[x]
    BY <1>4 DEF Works
  <2>3. Gone(j) => Gone(j)'
    BY <1>6, <1>7 DEF Gone
  <2>4. CASE j = k
    <3>2. f # "joined"
      BY <1>1, <2>4
    <3>1. f = "dashed"
      BY <1>2, <3>2 DEF L!Forms
    <3>3. Gone(j)'
      BY <1>8, <2>4, <3>1 DEF Gone
    <3> QED
      BY <2>1, <2>2, <2>4, <3>3
  <2>5. CASE j # k
    <3>1. ~Works(r, j)
      BY <2>5 DEF Works, k
    <3>2. \A x \in L!At("spend") : Works(x, j) => x \in L!At("spend")' /\ Works(x, j)'
      BY <1>4, <3>1 DEF L!At, Works
    <3> QED
      BY <2>1, <2>2, <2>3, <3>2
  <2> QED
    BY <2>4, <2>5
<1>10. L!TypeOKLink'
  BY <1>1, <1>4, <1>6 DEF LinkInv, L!TypeOKLink
<1>11. AloneInChat'
  BY <1>1, <1>4 DEF LinkInv, AloneInChat, L!At
<1>12. GuessesCounted'
  BY <1>1, <1>4 DEF LinkInv, GuessesCounted, Guesses, L!At
<1>13. EntersInTime'
  BY <1>4 DEF LinkInv, EntersInTime, L!At
<1> QED
  BY <1>1, <1>9, <1>10, <1>11, <1>12, <1>13 DEF LinkInv, L!CodesLinkOnce, L!GuessesAreBounded

LEMMA BeginUnlinkKeeps ==
  ASSUME LinkInv, NEW r \in Linkers, NEW u \in Owners, L!BeginUnlink(r, u)
  PROVE  LinkInv'
<1> DEFINE q == [step |-> "unlink", user |-> u, chat |-> setting[u].chat, code |-> None,
                 channels |-> L!Filtered(setting[u].channels)]
<1>1. /\ UNCHANGED <<setting, holder, wrong, links, guesses, loose, rushed, shared>>
      /\ linker[r] = None /\ setting[u].chat # None /\ linker' = [linker EXCEPT ![r] = q]
  BY DEF L!BeginUnlink, L!Free
<1>2. setting \in [Owners -> [chat : Chats \cup {None}, channels : L!Choices]]
  BY DEF LinkInv, L!TypeOKLink
<1>3. q \in L!Unlinking
  <2>1. setting[u].channels \in L!Choices /\ setting[u].chat \in Chats
    BY <1>1, <1>2
  <2> QED
    BY <2>1, ChoicesKept DEF L!Unlinking
<1>4. q.step = "unlink" /\ q.code = None
  OBVIOUS
<1> HIDE DEF q
<1>5. q \in L!Requests \cup {None}
  BY <1>3 DEF L!Requests
<1>6. /\ linker' \in [Linkers -> L!Requests \cup {None}] /\ linker'[r] = q
      /\ \A s \in Linkers \ {r} : linker'[s] = linker[s]
  BY <1>1, <1>5, OneLinker
<1>7. \A step \in {"wrong", "found", "write", "spend"} :
         \A s : s \in L!At(step)' <=> s \in L!At(step)
  BY <1>1, <1>4, <1>6 DEF L!At
<1>8. /\ \A j \in Codes : ~Works(r, j)' /\ ~Works(r, j)
      /\ \A c \in Chats : ~Guesses(r, c)' /\ ~Guesses(r, c)
  BY <1>1, <1>4, <1>6, BotsAssumption DEF Works, Guesses
<1>9. /\ \A s \in Linkers \ {r} : \A j \in Codes : Works(s, j)' = Works(s, j)
      /\ \A s \in Linkers \ {r} : \A c \in Chats : Guesses(s, c)' = Guesses(s, c)
  BY <1>6 DEF Works, Guesses
<1>10. \A step \in {"wrong", "found", "write", "spend"} :
         \A s \in L!At(step) : s \in Linkers \ {r}
  BY <1>1 DEF L!At
<1>11. L!TypeOKLink'
  BY <1>1, <1>6 DEF LinkInv, L!TypeOKLink
<1>12. AloneInChat'
  BY <1>1, <1>6, <1>7, <1>10 DEF LinkInv, AloneInChat
<1>13. GuessesCounted'
  BY <1>1, <1>6, <1>7, <1>8, <1>9, <1>10 DEF LinkInv, GuessesCounted
<1>14. EntersInTime'
  BY <1>6, <1>7, <1>10 DEF LinkInv, EntersInTime
<1>15. CodesAreSpent'
  <2> SUFFICES ASSUME NEW j \in Codes \ loose
               PROVE  /\ \A x, y \in Linkers : Works(x, j)' /\ Works(y, j)' => x = y
                      /\ \A x \in Linkers : Works(x, j)' /\ linker'[x].step \in {"found", "write"} => links[j] = 0
                      /\ links[j] > 0 => Gone(j) \/ \E x \in L!At("spend")' : Works(x, j)'
    BY <1>1 DEF CodesAreSpent, Gone
  <2>1. /\ \A x, y \in Linkers : Works(x, j) /\ Works(y, j) => x = y
        /\ \A x \in Linkers : Works(x, j) /\ linker[x].step \in {"found", "write"} => links[j] = 0
        /\ links[j] > 0 => Gone(j) \/ \E x \in L!At("spend") : Works(x, j)
    BY DEF LinkInv, CodesAreSpent
  <2> QED
    BY <1>6, <1>7, <1>8, <1>9, <1>10, <2>1
<1> QED
  BY <1>1, <1>11, <1>12, <1>13, <1>14, <1>15 DEF LinkInv, L!CodesLinkOnce, L!GuessesAreBounded

(* A request ends that had neither linked nor counted. *)
LEMMA UnlinkKeeps ==
  ASSUME LinkInv, NEW r \in Linkers, L!Unlink(r)
  PROVE  LinkInv'
<1>1. /\ UNCHANGED <<holder, wrong, links, guesses, loose, rushed, shared>>
      /\ linker[r] # None /\ linker[r].step = "unlink" /\ linker' = [linker EXCEPT ![r] = None]
      /\ setting' = [setting EXCEPT ![linker[r].user] = [chat |-> None, channels |-> linker[r].channels]]
  BY DEF L!Unlink, L!At, L!Ends
<1>2. linker[r].user \in Owners /\ linker[r].channels \in L!Choices
  BY <1>1, LinkerTyped, LinkerFields DEF L!Unlinking
<1>3. setting \in [Owners -> [chat : Chats \cup {None}, channels : L!Choices]]
  BY DEF LinkInv, L!TypeOKLink
<1>4. /\ setting' \in [Owners -> [chat : Chats \cup {None}, channels : L!Choices]]
      /\ \A v \in Owners : setting'[v].chat \in {None, setting[v].chat}
  BY <1>1, <1>2, <1>3
<1>5. /\ linker' \in [Linkers -> L!Requests \cup {None}] /\ linker'[r] = None
      /\ \A s \in Linkers \ {r} : linker'[s] = linker[s]
  BY <1>1, OneLinker
<1>6. L!TypeOKLink'
  BY <1>1, <1>4, <1>5 DEF LinkInv, L!TypeOKLink
<1>7. \A step \in {"wrong", "found", "write", "spend"} :
         \A s : s \in L!At(step)' <=> s \in L!At(step) /\ s # r
  BY <1>1, <1>5 DEF L!At
<1>8. \A step \in {"wrong", "found", "write", "spend"} : \A s \in L!At(step) : s \in Linkers /\ s # r
  BY <1>1 DEF L!At
<1>9. AloneInChat'
  <2>1. \A c \in Chats : c # None
    BY BotsAssumption
  <2> QED
    BY <1>1, <1>4, <1>5, <1>7, <1>8, <2>1 DEF LinkInv, AloneInChat
<1>10. \A s \in Linkers : /\ \A j \in Codes : Works(s, j)' => Works(s, j) /\ s # r
                          /\ \A c \in Chats : Guesses(s, c)' => Guesses(s, c)
  BY <1>5 DEF Works, Guesses
<1>11. \A s \in Linkers \ {r} : \A j \in Codes : Works(s, j) => Works(s, j)'
  BY <1>5 DEF Works
<1>12. GuessesCounted'
  BY <1>1, <1>5, <1>7, <1>8, <1>10 DEF LinkInv, GuessesCounted
<1>13. EntersInTime'
  BY <1>5, <1>7, <1>8 DEF LinkInv, EntersInTime
<1>14. CodesAreSpent'
  <2> SUFFICES ASSUME NEW j \in Codes \ loose
               PROVE  /\ \A x, y \in Linkers : Works(x, j)' /\ Works(y, j)' => x = y
                      /\ \A x \in Linkers : Works(x, j)' /\ linker'[x].step \in {"found", "write"} => links[j] = 0
                      /\ links[j] > 0 => Gone(j) \/ \E x \in L!At("spend")' : Works(x, j)'
    BY <1>1 DEF CodesAreSpent, Gone
  <2>1. /\ \A x, y \in Linkers : Works(x, j) /\ Works(y, j) => x = y
        /\ \A x \in Linkers : Works(x, j) /\ linker[x].step \in {"found", "write"} => links[j] = 0
        /\ links[j] > 0 => Gone(j) \/ \E x \in L!At("spend") : Works(x, j)
    BY DEF LinkInv, CodesAreSpent
  <2> QED
    BY <1>5, <1>7, <1>8, <1>10, <1>11, <2>1
<1> QED
  BY <1>1, <1>6, <1>9, <1>12, <1>13, <1>14 DEF LinkInv, L!CodesLinkOnce, L!GuessesAreBounded

LEMMA UpdateSettingKeeps ==
  ASSUME LinkInv, NEW u \in Owners, L!UpdateSetting(u)
  PROVE  LinkInv'
<1>1. UNCHANGED <<holder, wrong, linker, links, guesses, loose, rushed>>
  BY DEF L!UpdateSetting
<1>2. PICK c \in Chats \cup {None}, s \in L!Choices :
         /\ setting' = [setting EXCEPT ![u] = [chat |-> c, channels |-> s]]
         /\ shared' = IF c \notin {None, setting[u].chat} THEN shared \cup {c} ELSE shared
  BY DEF L!UpdateSetting
<1>3. /\ setting \in [Owners -> [chat : Chats \cup {None}, channels : L!Choices]] /\ shared \subseteq Chats
  BY DEF LinkInv, L!TypeOKLink
<1>4. /\ setting' \in [Owners -> [chat : Chats \cup {None}, channels : L!Choices]]
      /\ shared' \subseteq Chats /\ shared \subseteq shared'
  BY <1>2, <1>3
<1>5. \A d \in Chats \ shared' : \A v \in Owners : setting'[v].chat = d => setting[v].chat = d
  <2> SUFFICES ASSUME NEW d \in Chats, d \notin shared', NEW v \in Owners, setting'[v].chat = d
               PROVE  setting[v].chat = d
    OBVIOUS
  <2>1. d # None
    BY BotsAssumption
  <2>2. CASE v = u
    BY <1>2, <1>3, <2>1, <2>2
  <2>3. CASE v # u
    BY <1>2, <1>3, <2>3
  <2> QED
    BY <2>2, <2>3
<1>6. AloneInChat'
  BY <1>1, <1>4, <1>5 DEF LinkInv, AloneInChat, L!At
<1>7. L!TypeOKLink'
  BY <1>1, <1>4 DEF LinkInv, L!TypeOKLink
<1> QED
  BY <1>1, <1>6, <1>7 DEF LinkInv, EntersInTime, CodesAreSpent, Works, Gone, GuessesCounted, Guesses,
     L!At, L!CodesLinkOnce, L!GuessesAreBounded

LEMMA CrashLinkKeeps ==
  ASSUME LinkInv, L!CrashLink
  PROVE  LinkInv'
<1>1. /\ UNCHANGED <<setting, holder, wrong, links, guesses, rushed, shared>>
      /\ loose' = loose \cup {linker[r].code : r \in L!At("spend")}
      /\ linker' = [r \in Linkers |-> None]
  BY DEF L!CrashLink
<1>2. \A r \in L!At("spend") : linker[r].code \in Codes
  BY LinkerTyped, LinkerFields DEF L!At, L!Spending
<1>3. loose \subseteq Codes
  BY DEF LinkInv, L!TypeOKLink
<1>4. L!TypeOKLink'
  BY <1>1, <1>2, <1>3 DEF LinkInv, L!TypeOKLink
<1>5. L!At("wrong")' = {} /\ L!At("found")' = {} /\ L!At("write")' = {} /\ L!At("spend")' = {}
  <2>1. \A r \in Linkers : linker'[r] = None
    BY <1>1
  <2> QED
    BY <2>1 DEF L!At
<1>6. CodesAreSpent'
  <2> SUFFICES ASSUME NEW j \in Codes, j \notin loose'
               PROVE  /\ \A x, y \in Linkers : Works(x, j)' /\ Works(y, j)' => x = y
                      /\ \A x \in Linkers : Works(x, j)' /\ linker'[x].step \in {"found", "write"} => links[j] = 0
                      /\ links[j] > 0 => Gone(j) \/ \E x \in L!At("spend")' : Works(x, j)'
    BY <1>1 DEF CodesAreSpent, Gone
  <2>1. \A x \in Linkers : ~Works(x, j)'
    BY <1>1 DEF Works
  <2>2. j \notin loose /\ \A x \in L!At("spend") : linker[x].code # j
    BY <1>1
  <2>3. links[j] > 0 => Gone(j)
    BY <2>2 DEF LinkInv, CodesAreSpent, Works
  <2> QED
    BY <2>1, <2>3
<1>7. AloneInChat' /\ GuessesCounted' /\ EntersInTime'
  BY <1>1, <1>5 DEF LinkInv, AloneInChat, GuessesCounted, Guesses, EntersInTime
<1> QED
  BY <1>1, <1>4, <1>6, <1>7 DEF LinkInv, L!CodesLinkOnce, L!GuessesAreBounded

LEMMA LinkNext ==
  ASSUME LinkInv, L!NextLink
  PROVE  LinkInv'
BY ExpireKeepsLinks, CrashLinkKeeps, GenerateKeeps, UpdateSettingKeeps, EnterKeeps, CountWrongKeeps,
   FindKeeps, WriteLinkKeeps, SpendCodeKeeps, UnlinkKeeps, BeginUnlinkKeeps DEF L!NextLink

LEMMA LinkStutters ==
  ASSUME LinkInv, UNCHANGED linkVars
  PROVE  LinkInv'
BY DEF LinkInv, linkVars, L!TypeOKLink, EntersInTime, AloneInChat, CodesAreSpent, Works, Gone,
   GuessesCounted, Guesses, L!At, L!CodesLinkOnce, L!GuessesAreBounded

LEMMA LinkInit ==
  ASSUME L!InitLink
  PROVE  LinkInv
<1>1. /\ setting = [u \in Owners |-> [chat |-> None, channels |-> {"IN_APP"}]]
      /\ holder = [key \in L!Keys |-> None] /\ wrong = [c \in Chats |-> 0]
      /\ linker = [r \in Linkers |-> None] /\ links = [k \in Codes |-> 0]
      /\ guesses = [c \in Chats |-> 0] /\ loose = {} /\ rushed = {} /\ shared = {}
  BY DEF L!InitLink
<1>2. {"IN_APP"} \in L!Choices
  BY DEF L!Choices, L!Channels
<1>3. L!TypeOKLink
  BY <1>1, <1>2, BotsAssumption DEF L!TypeOKLink
<1>4. \A step : L!At(step) = {}
  BY <1>1 DEF L!At
<1>5. \A c \in Chats : c # None
  BY BotsAssumption
<1>6. AloneInChat /\ EntersInTime /\ CodesAreSpent /\ GuessesCounted
  BY <1>1, <1>4, <1>5 DEF AloneInChat, EntersInTime, CodesAreSpent, Works, GuessesCounted, Guesses
<1>7. L!CodesLinkOnce /\ L!GuessesAreBounded
  BY <1>1, BotsAssumption DEF L!CodesLinkOnce, L!GuessesAreBounded
<1> QED
  BY <1>3, <1>6, <1>7 DEF LinkInv

-----------------------------------------------------------------------------
(* The chat.                                                               *)

(* What a delivery is about: its user's, and what its quote stands for. *)
Quotes(m) == message[m].quotes
DeliveryMeans(q) ==
  /\ message[q.message] # None
  /\ q.step = "change" =>
       /\ q.row \in Rows /\ row[q.row] # None /\ row[q.row].user = q.user
       /\ Quotes(q.message) # None => q.row \in acted[Quotes(q.message)[1]]
  /\ q.step \in {"save", "map", "map reply"} => q.row \in acted[q.message]

RepliesMean == \A id \in Z!Ids : rowOf[id] # None => rowOf[id] \in acted[id[1]]

(* Handled one by one, messages without a quote are about the last row. *)
OneByOne ==
  ~mixed =>
    /\ \A g, h \in Handlers : handler[g] # None /\ handler[h] # None => g = h
    /\ \A h \in Z!At("change") : Quotes(handler[h].message) = None => handler[h].row = last
    /\ \A h \in Z!At("save") : handler[h].row = last
    /\ context # None /\ Z!At("save") = {} /\ Z!At("clear") = {} => context = last

(* A message that is not excepted is past its mark once, and enters a row
   only then. *)
Past(h, m) == handler[h] # None /\ handler[h].message = m /\ handler[h].step # "mark"
From(t, m) == row[t] # None /\ row[t].from = m

EnteringOnce(m) ==
  /\ m \notin dedup => (\A t \in Rows : ~From(t, m)) /\ \A h \in Handlers : ~Past(h, m)
  /\ \A g, h \in Handlers : Past(g, m) /\ Past(h, m) => g = h
  /\ \A h \in Handlers : Past(h, m) /\ handler[h].step \in {"parse", "create"} =>
       \A t \in Rows : ~From(t, m)
  /\ \A t, s \in Rows : From(t, m) /\ From(s, m) => t = s

ChatInv ==
  /\ Z!TypeOKChat /\ ~strayed
  /\ \A h \in Handlers : handler[h] # None => DeliveryMeans(handler[h])
  /\ RepliesMean /\ OneByOne
  /\ \A m \in Messages : m \in twice \/ EnteringOnce(m)

-----------------------------------------------------------------------------
LEMMA ChatSays ==
  ASSUME ChatInv
  PROVE  Z!EnteredOnce /\ Z!ChangesWhatIsMeant
<1>1. ASSUME NEW m \in Messages, m \notin twice
      PROVE  Z!Cardinality({t \in Rows : row[t] # None /\ row[t].from = m}) <= 1
  <2> DEFINE T == {t \in Rows : row[t] # None /\ row[t].from = m}
  <2>1. \A s, t \in T : s = t
    BY <1>1 DEF ChatInv, EnteringOnce, From
  <2>2. Z!Cardinality(T) = Cardinality(T)
    BY DEF Z!Cardinality, Cardinality
  <2> HIDE DEF T
  <2>3. Z!Cardinality(T) <= 1
    <3>1. CASE T = {}
      BY <2>2, <3>1, FS_EmptySet
    <3>2. CASE T # {}
      <4>1. PICK t \in T : TRUE
        BY <3>2
      <4>2. T = {t}
        BY <2>1, <4>1
      <4>3. Cardinality({t}) = 1
        BY FS_Singleton
      <4> QED
        BY <2>2, <4>2, <4>3
    <3> QED
      BY <3>1, <3>2
  <2> QED
    BY <2>3 DEF T
<1> QED
  BY <1>1 DEF ChatInv, Z!EnteredOnce, Z!ChangesWhatIsMeant

LEMMA DeliveryFields ==
  ASSUME NEW q \in Z!Working
  PROVE  /\ q.message \in Messages /\ q # None
         /\ q.step \in {"mark", "parse", "create", "change", "save", "clear", "map", "map reply"}
         /\ q.step = "parse" => q \in Z!Parsing /\ q.user \in Members
         /\ q.step \in {"create", "change", "save", "clear", "map", "map reply"} =>
              q \in Z!Doing /\ q.user \in Members /\ q.row \in Rows \cup {None}
BY BotsAssumption DEF Z!Working, Z!Taken, Z!Parsing, Z!Doing

LEMMA DeliveryTyped ==
  ASSUME ChatInv, NEW h \in Handlers, handler[h] # None
  PROVE  handler[h] \in Z!Working
BY DEF ChatInv, Z!TypeOKChat

(* What the next step keeps: rows have their users and messages, messages
   their words, and what a message acted on stays so. *)
Kept ==
  /\ \A t \in Rows : row[t] # None =>
       row'[t] # None /\ row'[t].user = row[t].user /\ row'[t].from = row[t].from
  /\ \A m \in Messages : acted[m] \subseteq acted'[m]
  /\ \A m \in Messages : message[m] # None => message'[m] = message[m]

LEMMA MeansStill ==
  ASSUME ChatInv, Kept, NEW h \in Handlers, handler[h] # None, handler'[h] = handler[h]
  PROVE  DeliveryMeans(handler[h])'
<1> DEFINE q == handler[h]
<1>1. q \in Z!Working /\ q.message \in Messages
  BY DeliveryTyped, DeliveryFields
<1>2. DeliveryMeans(q)
  BY DEF ChatInv
<1>3. message[q.message] # None /\ message'[q.message] = message[q.message]
  BY <1>1, <1>2 DEF DeliveryMeans, Kept
<1>4. message[q.message] \in Z!Said
  BY <1>1, <1>3 DEF ChatInv, Z!TypeOKChat
<1>5. Quotes(q.message) # None => Quotes(q.message)[1] \in Messages
  BY <1>4 DEF Quotes, Z!Said, Z!Ids
<1>6. message'[q.message].quotes = message[q.message].quotes
  BY <1>3
<1> QED
  BY <1>1, <1>2, <1>3, <1>5, <1>6 DEF DeliveryMeans, Kept, Quotes

(* A step that takes up and enters nothing. *)
LEMMA EnteringStays ==
  ASSUME ChatInv, twice \subseteq twice',
         \A m \in Messages \ twice' :
           /\ m \in dedup => m \in dedup'
           /\ \A t \in Rows : From(t, m)' => From(t, m)
           /\ \A h \in Handlers : Past(h, m)' =>
                Past(h, m) /\ (handler'[h].step \in {"parse", "create"} =>
                                 handler[h].step \in {"parse", "create"})
  PROVE  \A m \in Messages : m \in twice' \/ EnteringOnce(m)'
<1> SUFFICES ASSUME NEW m \in Messages, m \notin twice' PROVE EnteringOnce(m)'
  OBVIOUS
<1>1. EnteringOnce(m)
  BY DEF ChatInv
<1> QED
  BY <1>1 DEF EnteringOnce

LEMMA OneDelivery ==
  ASSUME ChatInv, NEW h \in Handlers, NEW q \in Z!Working \cup {None},
         handler' = [handler EXCEPT ![h] = q]
  PROVE  /\ handler' \in [Handlers -> Z!Working \cup {None}] /\ handler'[h] = q
         /\ \A g \in Handlers \ {h} : handler'[g] = handler[g]
BY DEF ChatInv, Z!TypeOKChat

(* The deliveries that a step does not touch, and the one it does. *)
LEMMA AllMean ==
  ASSUME ChatInv, Kept, NEW h \in Handlers, NEW q \in Z!Working \cup {None},
         handler' = [handler EXCEPT ![h] = q], q # None => DeliveryMeans(q)'
  PROVE  \A g \in Handlers : handler'[g] # None => DeliveryMeans(handler[g])'
<1> SUFFICES ASSUME NEW g \in Handlers, handler'[g] # None PROVE DeliveryMeans(handler[g])'
  OBVIOUS
<1>1. CASE g = h
  <2>1. handler'[g] = q
    BY <1>1, OneDelivery
  <2> QED
    BY <2>1 DEF DeliveryMeans, Quotes
<1>2. CASE g # h
  <2>1. handler'[g] = handler[g]
    BY <1>2, OneDelivery
  <2> QED
    BY <2>1, MeansStill
<1> QED
  BY <1>1, <1>2

-----------------------------------------------------------------------------
LEMMA DeliverKeeps ==
  ASSUME ChatInv, NEW h \in Handlers, NEW m \in Messages, Z!Deliver(h, m)
  PROVE  ChatInv'
<1>1. /\ UNCHANGED <<linked, dedup, row, context, rowOf, replied, acted, last, twice, strayed>>
      /\ handler[h] = None
      /\ handler' = IF m \in dedup THEN handler
                    ELSE [handler EXCEPT ![h] = [step |-> "mark", message |-> m]]
      /\ mixed' = (mixed \/ (m \notin dedup /\ \E g \in Handlers : handler[g] # None))
  BY DEF Z!Deliver
<1>2. /\ message \in [Messages -> Z!Said \cup {None}] /\ replied \subseteq Messages /\ mixed \in BOOLEAN
      /\ handler \in [Handlers -> Z!Working \cup {None}]
  BY DEF ChatInv, Z!TypeOKChat
<1>3. /\ message' \in [Messages -> Z!Said \cup {None}] /\ message'[m] # None
      /\ \A n \in Messages : message[n] # None => message'[n] = message[n]
  <2>1. CASE message[m] # None
    BY <1>2, <2>1 DEF Z!Deliver
  <2>2. CASE message[m] = None
    <3>1. PICK says \in Templates, quotes \in Z!Quotable(m) :
            message' = [message EXCEPT ![m] = [says |-> says, quotes |-> quotes]]
      BY <2>2 DEF Z!Deliver
    <3>2. quotes \in Z!Ids \cup {None}
      BY <1>2 DEF Z!Quotable, Z!Ids
    <3>3. [says |-> says, quotes |-> quotes] \in Z!Said
      BY <3>2 DEF Z!Said
    <3>4. [says |-> says, quotes |-> quotes] # None
      BY <3>3, BotsAssumption
    <3> HIDE DEF Z!Said
    <3> QED
      BY <1>2, <2>2, <3>1, <3>3, <3>4
  <2> QED
    BY <2>1, <2>2
<1>4. Kept
  BY <1>1, <1>3 DEF Kept
<1>6. PICK q \in Z!Working \cup {None} :
         handler' = [handler EXCEPT ![h] = q] /\ (q # None => q.step = "mark" /\ q.message = m)
  <2>1. CASE m \in dedup
    <3>1. handler' = [handler EXCEPT ![h] = None]
      BY <1>1, <1>2, <2>1
    <3> QED
      BY <3>1
  <2>2. CASE m \notin dedup
    <3> DEFINE new == [step |-> "mark", message |-> m]
    <3>1. new \in Z!Working /\ new.step = "mark" /\ new.message = m
      BY DEF Z!Working, Z!Taken
    <3>2. handler' = [handler EXCEPT ![h] = new]
      BY <1>1, <2>2
    <3> HIDE DEF new
    <3> QED
      BY <3>1, <3>2
  <2> QED
    BY <2>1, <2>2
<1>5. q \in Z!Working \cup {None} /\ (q # None => q.step = "mark" /\ q.message = m)
  BY <1>6
<1>7. /\ handler' \in [Handlers -> Z!Working \cup {None}] /\ handler'[h] = q
      /\ \A g \in Handlers \ {h} : handler'[g] = handler[g]
  BY <1>5, <1>6, OneDelivery
<1>8. q # None => DeliveryMeans(q)'
  BY <1>3, <1>5 DEF DeliveryMeans
<1>9. \A g \in Handlers : handler'[g] # None => DeliveryMeans(handler[g])'
  BY <1>4, <1>5, <1>6, <1>8, AllMean
<1>10. Z!TypeOKChat'
  BY <1>1, <1>2, <1>3, <1>7 DEF ChatInv, Z!TypeOKChat
<1>11. RepliesMean'
  BY <1>1 DEF ChatInv, RepliesMean
<1>12. OneByOne'
  <2>1. \A step \in {"change", "save", "clear"} : \A g : g \in Z!At(step)' <=> g \in Z!At(step)
    BY <1>1, <1>5, <1>7 DEF Z!At
  <2>2. \A step \in {"change", "save", "clear"} : \A g \in Z!At(step) : g \in Handlers /\ g # h /\ handler[g] # None
    BY <1>1 DEF Z!At
  <2>3. \A g \in Handlers : handler[g] # None => message'[handler[g].message] = message[handler[g].message]
    BY <1>3, DeliveryTyped, DeliveryFields DEF ChatInv, DeliveryMeans
  <2>4. ASSUME ~mixed' PROVE \A f, g \in Handlers : handler'[f] # None /\ handler'[g] # None => f = g
    <3>1. ~mixed
      BY <1>1, <1>2, <2>4
    <3>2. CASE m \in dedup
      BY <1>1, <3>1, <3>2 DEF ChatInv, OneByOne
    <3>3. CASE m \notin dedup
      <4>1. \A g \in Handlers : handler[g] = None
        BY <1>1, <2>4, <3>3
      <4> QED
        BY <1>7, <4>1
    <3> QED
      BY <3>2, <3>3
  <2>5. ~mixed' => ~mixed
    BY <1>1, <1>2
  <2>6. Z!At("save")' = Z!At("save") /\ Z!At("clear")' = Z!At("clear")
    BY <2>1
  <2>7. ASSUME ~mixed', NEW g \in Z!At("change")', Quotes(handler[g].message)' = None
        PROVE  handler'[g].row = last'
    <3>1. g \in Z!At("change") /\ handler'[g] = handler[g] /\ handler[g] # None /\ g \in Handlers
      BY <1>7, <2>1, <2>2, <2>7
    <3>2. Quotes(handler[g].message) = None
      BY <2>3, <2>7, <3>1 DEF Quotes
    <3> QED
      BY <1>1, <2>5, <2>7, <3>1, <3>2 DEF ChatInv, OneByOne
  <2>8. ASSUME ~mixed', NEW g \in Z!At("save")' PROVE handler'[g].row = last'
    BY <1>1, <1>7, <2>1, <2>2, <2>5, <2>8 DEF ChatInv, OneByOne
  <2>9. ASSUME ~mixed', context' # None, Z!At("save")' = {}, Z!At("clear")' = {} PROVE context' = last'
    BY <1>1, <2>5, <2>6, <2>9 DEF ChatInv, OneByOne
  <2> QED
    BY <2>4, <2>7, <2>8, <2>9 DEF OneByOne
<1>13. \A n \in Messages : n \in twice' \/ EnteringOnce(n)'
  <2>1. \A n \in Messages : \A g \in Handlers : Past(g, n)' =>
           Past(g, n) /\ (handler'[g].step \in {"parse", "create"} => handler[g].step \in {"parse", "create"})
    BY <1>5, <1>7 DEF Past
  <2> QED
    BY <1>1, <2>1, EnteringStays DEF From
<1> QED
  BY <1>1, <1>9, <1>10, <1>11, <1>12, <1>13 DEF ChatInv

(* What a delivery does next concerns its own message, and is one by one as
   before. *)
LEMMA GoesAlone ==
  ASSUME ChatInv, NEW h \in Handlers, handler[h] # None, NEW q \in Z!Working \cup {None},
         handler' = [handler EXCEPT ![h] = q]
  PROVE  /\ ~mixed => /\ \A f, g \in Handlers : handler'[f] # None /\ handler'[g] # None => f = g
                      /\ \A step : \A g \in Z!At(step)' : g = h
                      /\ \A step : \A g \in Z!At(step) : g = h
         /\ \A step : h \in Z!At(step)' <=> q # None /\ q.step = step
<1>1. /\ handler'[h] = q /\ \A g \in Handlers \ {h} : handler'[g] = handler[g]
  BY OneDelivery
<1>2. ~mixed => \A g \in Handlers : handler[g] # None => g = h
  BY DEF ChatInv, OneByOne
<1> QED
  BY <1>1, <1>2 DEF Z!At

LEMMA MarkKeeps ==
  ASSUME ChatInv, NEW h \in Handlers, Z!Mark(h)
  PROVE  ChatInv'
<1> DEFINE m == handler[h].message
           next == IF linked = None THEN None ELSE [step |-> "parse", message |-> m, user |-> linked]
<1>1. /\ UNCHANGED <<linked, message, row, context, rowOf, replied, acted, last, mixed, strayed>>
      /\ handler[h] # None /\ handler[h].step = "mark" /\ dedup' = dedup \cup {m}
      /\ twice' = IF m \in dedup THEN twice \cup {m} ELSE twice
      /\ handler' = [handler EXCEPT ![h] = next]
  BY DEF Z!Mark, Z!At
<1>2. m \in Messages /\ message[m] # None
  BY <1>1, DeliveryTyped, DeliveryFields DEF ChatInv, DeliveryMeans
<1>3. linked \in Members \cup {None} /\ dedup \cup replied \cup twice \subseteq Messages
  BY DEF ChatInv, Z!TypeOKChat
<1>14. next \in Z!Working \cup {None} /\ (next # None => next.step = "parse" /\ next.message = m)
  BY <1>2, <1>3 DEF Z!Working, Z!Parsing
<1> HIDE DEF next
<1>4. PICK q \in Z!Working \cup {None} :
         handler' = [handler EXCEPT ![h] = q] /\ (q # None => q.step = "parse" /\ q.message = m)
  BY <1>1, <1>14
<1>5. /\ handler' \in [Handlers -> Z!Working \cup {None}] /\ handler'[h] = q
      /\ \A g \in Handlers \ {h} : handler'[g] = handler[g]
  BY <1>1, <1>4, OneDelivery
<1>6. Kept
  BY <1>1 DEF Kept
<1>7. q # None => DeliveryMeans(q)'
  <2>1. message' = message
    BY <1>1
  <2> HIDE DEF m
  <2> QED
    BY <2>1, <1>2, <1>4 DEF DeliveryMeans
<1>8. \A g \in Handlers : handler'[g] # None => DeliveryMeans(handler[g])'
  BY <1>1, <1>4, <1>6, <1>7, AllMean
<1> HIDE DEF m
<1>9. dedup' \cup replied' \cup twice' \subseteq Messages
  BY <1>1, <1>2, <1>3
<1>10. Z!TypeOKChat'
  BY <1>1, <1>5, <1>9 DEF ChatInv, Z!TypeOKChat
<1>11. RepliesMean'
  BY <1>1 DEF ChatInv, RepliesMean
<1>12. OneByOne'
  <2> SUFFICES ASSUME ~mixed PROVE OneByOne'
    BY <1>1 DEF OneByOne
  <2>1. /\ \A f, g \in Handlers : handler'[f] # None /\ handler'[g] # None => f = g
        /\ \A step : \A g \in Z!At(step)' : g = h
        /\ \A step : \A g \in Z!At(step) : g = h
        /\ \A step : h \in Z!At(step)' <=> q # None /\ q.step = step
    BY <1>1, <1>4, GoesAlone
  <2>2. Z!At("change")' = {} /\ Z!At("save")' = {} /\ Z!At("clear")' = {}
    BY <1>4, <2>1
  <2>3. Z!At("save") = {} /\ Z!At("clear") = {}
    BY <1>1, <2>1 DEF Z!At
  <2>4. context # None => context = last
    BY <2>3 DEF ChatInv, OneByOne
  <2> QED
    BY <1>1, <2>1, <2>2, <2>4 DEF OneByOne
<1>13. \A n \in Messages : n \in twice' \/ EnteringOnce(n)'
  <2> SUFFICES ASSUME NEW n \in Messages, n \notin twice' PROVE EnteringOnce(n)'
    OBVIOUS
  <2>1. EnteringOnce(n) /\ n \notin twice
    BY <1>1 DEF ChatInv
  <2>2. \A t \in Rows : From(t, n)' = From(t, n)
    BY <1>1 DEF From
  <2>3. \A g \in Handlers \ {h} : Past(g, n)' = Past(g, n) /\ handler'[g] = handler[g]
    BY <1>5 DEF Past
  <2>4. CASE n # m
    <3>1. ~Past(h, n)'
      BY <1>4, <1>5, <2>4 DEF Past
    <3>2. n \in dedup => n \in dedup'
      BY <1>1
    <3>3. n \notin dedup' => n \notin dedup
      BY <1>1
    <3> QED
      BY <2>1, <2>2, <2>3, <3>1, <3>3 DEF EnteringOnce
  <2>5. CASE n = m
    <3>1. m \notin dedup /\ n \in dedup'
      BY <1>1, <2>5
    <3>2. (\A t \in Rows : ~From(t, n)) /\ \A g \in Handlers : ~Past(g, n)
      BY <2>1, <2>5, <3>1 DEF EnteringOnce
    <3> QED
      BY <2>2, <2>3, <3>1, <3>2 DEF EnteringOnce
  <2> QED
    BY <2>4, <2>5
<1> QED
  BY <1>1, <1>8, <1>10, <1>11, <1>12, <1>13 DEF ChatInv

(* A delivery that is past its mark goes on, or ends. *)
LEMMA EnteringGoesOn ==
  ASSUME ChatInv, NEW h \in Handlers, handler[h] # None, handler[h].step # "mark",
         NEW q \in Z!Working \cup {None}, handler' = [handler EXCEPT ![h] = q],
         UNCHANGED <<dedup, twice>>,
         \A m \in Messages : \A t \in Rows : From(t, m)' => From(t, m),
         q # None => /\ q.message = handler[h].message
                     /\ q.step \in {"parse", "create"} => handler[h].step \in {"parse", "create"}
  PROVE  \A m \in Messages : m \in twice' \/ EnteringOnce(m)'
<1>1. /\ handler'[h] = q /\ \A g \in Handlers \ {h} : handler'[g] = handler[g]
  BY OneDelivery
<1>2. \A m \in Messages : \A g \in Handlers : Past(g, m)' =>
         Past(g, m) /\ (handler'[g].step \in {"parse", "create"} => handler[g].step \in {"parse", "create"})
  BY <1>1 DEF Past
<1> QED
  BY <1>2, EnteringStays

LEMMA OneByOneGoesOn ==
  ASSUME ChatInv, NEW h \in Handlers, handler[h] # None, NEW q \in Z!Working \cup {None},
         handler' = [handler EXCEPT ![h] = q], UNCHANGED <<message, mixed>>,
         ~mixed => /\ q # None /\ q.step = "change" /\ Quotes(q.message) = None => q.row = last'
                   /\ q # None /\ q.step = "save" => q.row = last'
                   /\ context' # None /\ (q = None \/ q.step \notin {"save", "clear"}) => context' = last'
  PROVE  OneByOne'
<1> SUFFICES ASSUME ~mixed PROVE OneByOne'
  BY DEF OneByOne
<1>1. /\ \A f, g \in Handlers : handler'[f] # None /\ handler'[g] # None => f = g
      /\ \A step : \A g \in Z!At(step)' : g = h
      /\ \A step : h \in Z!At(step)' <=> q # None /\ q.step = step
  BY GoesAlone
<1>2. handler'[h] = q
  BY OneDelivery
<1>3. \A g \in Z!At("change")' : Quotes(handler[g].message)' = None => handler'[g].row = last'
  <2> SUFFICES ASSUME NEW g \in Z!At("change")', Quotes(handler[g].message)' = None
               PROVE  handler'[g].row = last'
    OBVIOUS
  <2>1. g = h /\ q # None /\ q.step = "change"
    BY <1>1
  <2>2. Quotes(q.message) = None
    BY <1>2, <2>1 DEF Quotes
  <2> QED
    BY <1>2, <2>1, <2>2
<1>4. \A g \in Z!At("save")' : handler'[g].row = last'
  <2> SUFFICES ASSUME NEW g \in Z!At("save")' PROVE handler'[g].row = last'
    OBVIOUS
  <2>1. g = h /\ q # None /\ q.step = "save"
    BY <1>1
  <2> QED
    BY <1>2, <2>1
<1>5. ASSUME context' # None, Z!At("save")' = {}, Z!At("clear")' = {} PROVE context' = last'
  <2>1. q = None \/ q.step \notin {"save", "clear"}
    BY <1>1, <1>5
  <2> QED
    BY <1>5, <2>1
<1> QED
  BY <1>1, <1>3, <1>4, <1>5 DEF OneByOne

LEMMA AloneNow ==
  ASSUME ChatInv, ~mixed, NEW h \in Handlers, handler[h] # None
  PROVE  /\ handler[h].step = "change" /\ Quotes(handler[h].message) = None => handler[h].row = last
         /\ handler[h].step = "save" => handler[h].row = last
         /\ handler[h].step \notin {"save", "clear"} /\ context # None => context = last
<1>1. \A g \in Handlers : handler[g] # None => g = h
  BY DEF ChatInv, OneByOne
<1>2. handler[h].step \notin {"save", "clear"} => Z!At("save") = {} /\ Z!At("clear") = {}
  BY <1>1 DEF Z!At
<1> QED
  BY <1>2 DEF ChatInv, OneByOne, Z!At

LEMMA ParseKeeps ==
  ASSUME ChatInv, NEW h \in Handlers, Z!Parse(h)
  PROVE  ChatInv'
<1> DEFINE m == handler[h].message
           u == handler[h].user
           about == Z!Conversation(message[m].quotes)
           intent == Z!Intent(message[m].says, about, message[m].quotes # None, TRUE)
           new == [step |-> IF intent = "create" THEN "create" ELSE "change", intent |-> intent,
                   message |-> m, user |-> u, row |-> about]
           next == IF intent \notin {"create", "patch", "undo"} THEN None
                   ELSE IF intent # "create" /\ ~Z!Own(about, u) THEN None ELSE new
<1>1. /\ UNCHANGED <<linked, message, dedup, row, context, rowOf, replied, acted, last, twice, mixed, strayed>>
      /\ handler[h] # None /\ handler[h].step = "parse" /\ handler' = [handler EXCEPT ![h] = next]
  BY DEF Z!Parse, Z!At
<1>2. m \in Messages /\ u \in Members /\ message[m] # None
  BY <1>1, DeliveryTyped, DeliveryFields DEF ChatInv, DeliveryMeans
<1>3. /\ message[m] \in Z!Said /\ context \in Rows \cup {None} /\ rowOf \in [Z!Ids -> Rows \cup {None}]
  BY <1>2 DEF ChatInv, Z!TypeOKChat
<1>4. message[m].quotes \in Z!Ids \cup {None}
  BY <1>3 DEF Z!Said
<1>5. about \in Rows \cup {None}
  BY <1>3, <1>4 DEF Z!Conversation
<1>6. intent \in {"patch", "undo"} => about # None
  <2> HIDE DEF about, m
  <2> QED
    BY DEF Z!Intent, Z!Mutation
<1> HIDE DEF intent
<1>7. new \in Z!Working \/ intent \notin {"create", "patch", "undo"}
  <2> HIDE DEF about, m, u
  <2> QED
    BY <1>2, <1>5 DEF Z!Working, Z!Doing
<1>8. new.message = m /\ new.row = about /\ new.user = u /\ new.step = IF intent = "create" THEN "create" ELSE "change"
  OBVIOUS
<1>9. intent \in {"patch", "undo"} /\ Z!Own(about, u) => about \in Rows /\ row[about] # None /\ row[about].user = u
  BY <1>5, <1>6 DEF Z!Own, Z!Exists
<1>10. message[m].quotes # None /\ about # None => about \in acted[message[m].quotes[1]]
  BY <1>4 DEF Z!Conversation, ChatInv, RepliesMean
<1>11. next # None => /\ next = new /\ intent \in {"create", "patch", "undo"}
                      /\ intent = "create" \/ Z!Own(about, u)
  OBVIOUS
<1> HIDE DEF new
<1>12. next # None => DeliveryMeans(next)
  <2> SUFFICES ASSUME next # None PROVE DeliveryMeans(new)
    BY <1>11
  <2>1. new.step \notin {"save", "map", "map reply"}
    BY <1>8
  <2>2. CASE intent = "create"
    <3>1. new.step = "create"
      BY <1>8, <2>2
    <3> QED
      BY <1>2, <1>8, <2>1, <3>1 DEF DeliveryMeans
  <2>3. CASE intent # "create"
    <3>1. about \in Rows /\ row[about] # None /\ row[about].user = u /\ about # None
      BY <1>6, <1>9, <1>11, <2>3
    <3> QED
      BY <1>2, <1>8, <1>10, <2>1, <3>1 DEF DeliveryMeans, Quotes
  <2> QED
    BY <2>2, <2>3
<1>13. ~mixed /\ next # None /\ next.step = "change" /\ Quotes(next.message) = None => next.row = last
  <2> SUFFICES ASSUME ~mixed, next # None, next.step = "change", Quotes(next.message) = None
               PROVE  next.row = last
    OBVIOUS
  <2>1. next = new /\ new.row = about /\ about # None
    BY <1>6, <1>8, <1>11
  <2>2. about = context
    BY <1>8, <2>1 DEF Quotes, Z!Conversation
  <2> QED
    BY <1>1, <2>1, <2>2, AloneNow
<1>14. next \in Z!Working \cup {None} /\ (next # None => next.message = m /\ next.step \in {"create", "change"})
  BY <1>7, <1>8, <1>11
<1> HIDE DEF next
<1>15. PICK q \in Z!Working \cup {None} :
          /\ handler' = [handler EXCEPT ![h] = q]
          /\ q # None => q.message = m /\ q.step \in {"create", "change"} /\ DeliveryMeans(q)
          /\ ~mixed /\ q # None /\ q.step = "change" /\ Quotes(q.message) = None => q.row = last
  BY <1>1, <1>12, <1>13, <1>14
<1>16. handler' \in [Handlers -> Z!Working \cup {None}]
  BY <1>15, OneDelivery
<1>17. Kept
  BY <1>1 DEF Kept
<1>18. q # None => DeliveryMeans(q)'
  BY <1>1, <1>15 DEF DeliveryMeans, Quotes
<1>19. \A g \in Handlers : handler'[g] # None => DeliveryMeans(handler[g])'
  BY <1>15, <1>17, <1>18, AllMean
<1>20. Z!TypeOKChat' /\ RepliesMean'
  BY <1>1, <1>16 DEF ChatInv, Z!TypeOKChat, RepliesMean
<1>21. OneByOne'
  <2>1. ~mixed /\ context # None => context = last
    BY <1>1, AloneNow
  <2> QED
    BY <1>1, <1>15, <2>1, OneByOneGoesOn
<1>22. \A n \in Messages : n \in twice' \/ EnteringOnce(n)'
  BY <1>1, <1>15, EnteringGoesOn DEF From
<1> QED
  BY <1>1, <1>19, <1>20, <1>21, <1>22 DEF ChatInv

(* A delivery that ends, and has nothing to keep of the conversation. *)
LEMMA EndKeeps ==
  ASSUME ChatInv, NEW h \in Handlers, handler[h] # None,
         handler[h].step \notin {"mark", "save", "clear"}, Z!Ends(h),
         UNCHANGED <<linked, message, dedup, row, context, rowOf, replied, acted, last, twice,
                     mixed, strayed>>
  PROVE  ChatInv'
<1>1. PICK q \in Z!Working \cup {None} : q = None /\ handler' = [handler EXCEPT ![h] = q]
  BY DEF Z!Ends
<1>2. handler' \in [Handlers -> Z!Working \cup {None}]
  BY <1>1, OneDelivery
<1>3. Kept
  BY DEF Kept
<1>4. \A g \in Handlers : handler'[g] # None => DeliveryMeans(handler[g])'
  BY <1>1, <1>3, AllMean
<1>5. Z!TypeOKChat' /\ RepliesMean'
  BY <1>2 DEF ChatInv, Z!TypeOKChat, RepliesMean
<1>6. OneByOne'
  <2>1. ~mixed /\ context # None => context = last
    BY AloneNow
  <2> QED
    BY <1>1, <2>1, OneByOneGoesOn
<1>7. \A n \in Messages : n \in twice' \/ EnteringOnce(n)'
  BY <1>1, EnteringGoesOn DEF From
<1> QED
  BY <1>4, <1>5, <1>6, <1>7 DEF ChatInv

LEMMA EnterRowKeeps ==
  ASSUME ChatInv, NEW h \in Handlers, Z!Create(h)
  PROVE  ChatInv'
<1> DEFINE m == handler[h].message
           t == Z!First({x \in Rows : row[x] = None})
           new == [user |-> handler[h].user, from |-> m, deleted |-> FALSE]
           next == [handler[h] EXCEPT !.step = "save", !.row = t]
<1>1. /\ UNCHANGED <<linked, message, dedup, context, rowOf, replied, twice, mixed, strayed>>
      /\ handler[h] # None /\ handler[h].step = "create" /\ h \in Handlers
  BY DEF Z!Create, Z!At
<1>2. handler[h] \in Z!Doing /\ m \in Messages /\ handler[h].user \in Members /\ message[m] # None
  BY <1>1, DeliveryTyped, DeliveryFields DEF ChatInv, DeliveryMeans
<1>3. /\ row \in [Rows -> Z!Written \cup {None}] /\ acted \in [Messages -> SUBSET Rows]
      /\ handler \in [Handlers -> Z!Working \cup {None}] /\ last \in Rows \cup {None}
  BY DEF ChatInv, Z!TypeOKChat
<1>4. CASE UNCHANGED <<row, acted, last>> /\ Z!Ends(h)
  BY <1>1, <1>4, EndKeeps
<1>5. CASE /\ \E x \in Rows : row[x] = None
           /\ row' = [row EXCEPT ![t] = new] /\ handler' = [handler EXCEPT ![h] = next]
           /\ acted' = [acted EXCEPT ![m] = acted[m] \cup {t}] /\ last' = t
  <2>1. t \in Rows /\ row[t] = None
    <3> DEFINE free == {x \in Rows : row[x] = None}
    <3>1. free # {} /\ free \in SUBSET Nat
      BY <1>5, BotsAssumption
    <3>2. \E x \in free : \A y \in free : x <= y
      BY <3>1, SmallestNumber
    <3>3. Z!First(free) \in free
      BY <3>2 DEF Z!First
    <3> QED
      BY <3>3
  <2>2. new \in Z!Written /\ new # None /\ new.from = m
    <3>1. new \in Z!Written
      BY <1>2 DEF Z!Written
    <3> QED
      BY <3>1, BotsAssumption
  <2>3. next \in Z!Working /\ next # None /\ next.step = "save" /\ next.row = t /\ next.message = m
    <3> HIDE DEF t
    <3>1. next \in Z!Doing /\ next.step = "save" /\ next.row = t /\ next.message = handler[h].message
      BY <1>2, <2>1 DEF Z!Doing
    <3> HIDE DEF next
    <3>2. next \in Z!Working
      BY <3>1 DEF Z!Working
    <3> QED
      BY <3>1, <3>2, BotsAssumption
  <2> HIDE DEF t, new, next
  <2>4. /\ row' \in [Rows -> Z!Written \cup {None}] /\ row'[t] # None /\ row'[t].from = m
        /\ \A x \in Rows \ {t} : row'[x] = row[x]
    BY <1>3, <1>5, <2>1, <2>2
  <2>5. /\ acted' \in [Messages -> SUBSET Rows] /\ t \in acted'[m]
        /\ \A n \in Messages : acted[n] \subseteq acted'[n]
    BY <1>2, <1>3, <1>5, <2>1
  <2>6. Kept
    BY <1>1, <2>1, <2>4, <2>5 DEF Kept
  <2>7. PICK q \in Z!Working \cup {None} : q = next /\ handler' = [handler EXCEPT ![h] = q]
    BY <1>5, <2>3
  <2>8. q # None /\ q.step = "save" /\ q.row = t /\ q.message = m
    BY <2>3, <2>7
  <2>9. /\ handler' \in [Handlers -> Z!Working \cup {None}] /\ handler'[h] = q
        /\ \A g \in Handlers \ {h} : handler'[g] = handler[g]
    BY <2>7, OneDelivery
  <2>10. DeliveryMeans(q)'
    <3>1. q.row \in acted'[q.message] /\ message'[q.message] # None
      BY <1>1, <1>2, <2>5, <2>8
    <3> QED
      BY <2>8, <3>1 DEF DeliveryMeans
  <2>11. \A g \in Handlers : handler'[g] # None => DeliveryMeans(handler[g])'
    BY <2>6, <2>7, <2>10, AllMean
  <2>12. last' \in Rows
    BY <1>5, <2>1
  <2>13. Z!TypeOKChat'
    BY <1>1, <2>4, <2>5, <2>9, <2>12 DEF ChatInv, Z!TypeOKChat
  <2>14. RepliesMean'
    <3>1. ASSUME NEW id \in Z!Ids, rowOf[id] # None PROVE rowOf[id] \in acted'[id[1]]
      <4>1. id[1] \in Messages
        BY DEF Z!Ids
      <4> QED
        BY <2>5, <3>1, <4>1 DEF ChatInv, RepliesMean
    <3> QED
      BY <1>1, <3>1 DEF RepliesMean
  <2>15. OneByOne'
    <3>1. q.row = last'
      BY <1>5, <2>8
    <3> QED
      BY <1>1, <2>7, <2>8, <3>1, OneByOneGoesOn
  <2>16. \A n \in Messages : n \in twice' \/ EnteringOnce(n)'
    <3> SUFFICES ASSUME NEW n \in Messages, n \notin twice' PROVE EnteringOnce(n)'
      OBVIOUS
    <3>1. EnteringOnce(n)
      BY <1>1 DEF ChatInv
    <3>2. \A g \in Handlers \ {h} : (Past(g, n)' <=> Past(g, n)) /\ handler'[g] = handler[g]
      BY <2>9 DEF Past
    <3>3. (Past(h, n)' <=> n = m) /\ (Past(h, n) <=> n = m) /\ handler'[h].step = "save"
      BY <1>1, <2>8, <2>9 DEF Past
    <3>4. \A x \in Rows \ {t} : From(x, n)' <=> From(x, n)
      BY <2>4 DEF From
    <3>5. \A x \in Rows : x = t => (From(x, n)' <=> n = m)
      BY <2>4 DEF From
    <3>6. CASE n = m
      <4>1. n \in dedup'
        BY <1>1, <3>1, <3>3, <3>6 DEF EnteringOnce
      <4>2. \A x \in Rows : ~From(x, n)
        BY <1>1, <3>1, <3>3, <3>6 DEF EnteringOnce
      <4>3. \A x, y \in Rows : From(x, n)' /\ From(y, n)' => x = y
        BY <3>4, <4>2
      <4>4. \A g \in Handlers \ {h} : ~Past(g, n)
        BY <3>1, <3>3, <3>6 DEF EnteringOnce
      <4>5. \A g \in Handlers : Past(g, n)' => g = h
        BY <3>2, <4>4
      <4> QED
        BY <3>3, <4>1, <4>3, <4>5 DEF EnteringOnce
    <3>7. CASE n # m
      <4>1. \A x \in Rows : From(x, n)' => From(x, n)
        BY <3>4, <3>5, <3>7
      <4>2. \A g \in Handlers : Past(g, n)' => Past(g, n) /\ handler'[g] = handler[g]
        BY <3>2, <3>3, <3>7
      <4> QED
        BY <1>1, <3>1, <4>1, <4>2 DEF EnteringOnce
    <3> QED
      BY <3>6, <3>7
  <2> QED
    BY <1>1, <2>11, <2>13, <2>14, <2>15, <2>16 DEF ChatInv
<1> QED
  BY <1>4, <1>5 DEF Z!Create

LEMMA ChangeKeeps ==
  ASSUME ChatInv, NEW h \in Handlers, Z!ChangeRow(h)
  PROVE  ChatInv'
<1> DEFINE m == handler[h].message
           t == handler[h].row
           u == handler[h].user
           patch == handler[h].intent = "patch"
<1>1. /\ UNCHANGED <<linked, message, dedup, context, rowOf, replied, twice, mixed>>
      /\ handler[h] # None /\ handler[h].step = "change" /\ h \in Handlers
  BY DEF Z!ChangeRow, Z!At
<1>2. /\ handler[h] \in Z!Doing /\ m \in Messages /\ message[m] # None
      /\ t \in Rows /\ row[t] # None /\ row[t].user = u
      /\ Quotes(m) # None => t \in acted[Quotes(m)[1]]
  BY <1>1, DeliveryTyped, DeliveryFields DEF ChatInv, DeliveryMeans
<1>3. /\ row \in [Rows -> Z!Written \cup {None}] /\ acted \in [Messages -> SUBSET Rows]
      /\ handler \in [Handlers -> Z!Working \cup {None}] /\ last \in Rows \cup {None}
  BY DEF ChatInv, Z!TypeOKChat
<1>4. CASE UNCHANGED <<row, acted, last, strayed>> /\ Z!Ends(h)
  BY <1>1, <1>4, EndKeeps
<1>5. CASE /\ row' = [row EXCEPT ![t].deleted = ~patch]
           /\ handler' = [handler EXCEPT ![h].step = IF patch THEN "save" ELSE "clear"]
           /\ strayed' = (strayed \/ t \notin Z!Meant(m) \/ row[t].user # u)
           /\ acted' = IF patch THEN [acted EXCEPT ![m] = acted[m] \cup {t}] ELSE acted
           /\ last' = IF patch THEN t ELSE None
  <2>1. t \in Z!Meant(m)
    <3>1. CASE Quotes(m) # None
      BY <1>2, <3>1 DEF Z!Meant, Quotes
    <3>2. CASE Quotes(m) = None
      <4>1. mixed \/ t = last
        BY <1>1, <3>2, AloneNow
      <4> QED
        BY <1>2, <3>2, <4>1 DEF Z!Meant, Quotes
    <3> QED
      BY <3>1, <3>2
  <2>2. ~strayed'
    BY <1>2, <1>5, <2>1 DEF ChatInv
  <2>3. PICK q \in Z!Working \cup {None} :
           /\ handler' = [handler EXCEPT ![h] = q] /\ q # None
           /\ q.step = (IF patch THEN "save" ELSE "clear") /\ q.row = t /\ q.message = m
    <3> DEFINE step == IF patch THEN "save" ELSE "clear"
               new == [handler[h] EXCEPT !.step = step]
    <3>1. step \in {"save", "clear"}
      OBVIOUS
    <3> HIDE DEF step
    <3>2. new \in Z!Doing /\ new.step = step /\ new.row = t /\ new.message = m
      BY <1>2, <3>1 DEF Z!Doing
    <3>3. handler' = [handler EXCEPT ![h] = new]
      BY <1>3, <1>5 DEF step
    <3> HIDE DEF new
    <3>4. new \in Z!Working /\ new # None
      BY <3>2, BotsAssumption DEF Z!Working
    <3> QED
      BY <3>2, <3>3, <3>4 DEF step
  <2>4. PICK c \in BOOLEAN : c <=> patch
    OBVIOUS
  <2>5. PICK y \in Messages, x \in Rows : y = m /\ x = t
    BY <1>2
  <2>6. /\ row' \in [Rows -> Z!Written \cup {None}]
        /\ \A z \in Rows : row[z] # None =>
             row'[z] # None /\ row'[z].user = row[z].user /\ row'[z].from = row[z].from
        /\ \A z \in Rows : row[z] = None => row'[z] = None
    <3> DEFINE new == [row[t] EXCEPT !.deleted = ~patch]
    <3>1. new \in Z!Written /\ new.user = row[t].user /\ new.from = row[t].from
      BY <1>2, <1>3 DEF Z!Written
    <3>2. row' = [row EXCEPT ![t] = new]
      BY <1>2, <1>3, <1>5
    <3> HIDE DEF new, t
    <3> QED
      BY <1>2, <1>3, <3>1, <3>2, BotsAssumption
  <2>7. /\ acted' \in [Messages -> SUBSET Rows] /\ (c => x \in acted'[y])
        /\ \A n \in Messages : acted[n] \subseteq acted'[n]
    BY <1>2, <1>3, <1>5, <2>4, <2>5
  <2>8. Kept
    BY <1>1, <2>6, <2>7 DEF Kept
  <2>9. q.step = (IF c THEN "save" ELSE "clear") /\ q.row = x /\ q.message = y /\ last' = IF c THEN x ELSE None
    BY <1>5, <2>3, <2>4, <2>5
  <2> HIDE DEF patch, t, u, m
  <2>10. handler' \in [Handlers -> Z!Working \cup {None}]
    BY <2>3, OneDelivery
  <2>11. DeliveryMeans(q)'
    <3>1. message'[q.message] # None
      BY <1>1, <1>2, <2>3
    <3> QED
      BY <2>7, <2>9, <3>1 DEF DeliveryMeans
  <2>12. \A g \in Handlers : handler'[g] # None => DeliveryMeans(handler[g])'
    BY <2>3, <2>8, <2>11, AllMean
  <2>13. Z!TypeOKChat'
    <3>1. last' \in Rows \cup {None} /\ strayed' \in BOOLEAN
      BY <2>2, <2>9, <1>5 DEF ChatInv, Z!TypeOKChat
    <3> QED
      BY <1>1, <2>6, <2>7, <2>10, <3>1 DEF ChatInv, Z!TypeOKChat
  <2>14. RepliesMean'
    <3>1. ASSUME NEW id \in Z!Ids, rowOf[id] # None PROVE rowOf[id] \in acted'[id[1]]
      <4>1. id[1] \in Messages
        BY DEF Z!Ids
      <4> QED
        BY <2>7, <3>1, <4>1 DEF ChatInv, RepliesMean
    <3> QED
      BY <1>1, <3>1 DEF RepliesMean
  <2>15. OneByOne'
    BY <1>1, <2>3, <2>9, OneByOneGoesOn
  <2>16. \A n \in Messages : n \in twice' \/ EnteringOnce(n)'
    <3>1. \A n \in Messages : \A z \in Rows : From(z, n)' => From(z, n)
      BY <2>6 DEF From
    <3>2. q.message = handler[h].message /\ q.step \notin {"parse", "create"}
      BY <2>3, <2>9 DEF m
    <3> QED
      BY <1>1, <2>3, <3>1, <3>2, EnteringGoesOn
  <2> QED
    BY <1>1, <2>2, <2>12, <2>13, <2>14, <2>15, <2>16 DEF ChatInv
<1> QED
  BY <1>4, <1>5 DEF Z!ChangeRow, Z!Goes

(* A delivery that has written its transaction tells the conversation and the
   replies about it, or fails to. *)
LEMMA TellKeeps ==
  ASSUME ChatInv, NEW h \in Handlers, handler[h] # None,
         handler[h].step \in {"save", "clear", "map", "map reply"},
         NEW q \in Z!Working \cup {None}, handler' = [handler EXCEPT ![h] = q],
         q # None => /\ handler[h].step \in {"save", "map"}
                     /\ q.step \in {"map", "map reply"}
                     /\ q.message = handler[h].message /\ q.row = handler[h].row,
         UNCHANGED <<linked, message, dedup, row, acted, last, twice, strayed>>,
         mixed' = mixed \/ mixed' = TRUE,
         context' \in Rows \cup {None}, rowOf' \in [Z!Ids -> Rows \cup {None}],
         replied' \in SUBSET Messages, RepliesMean',
         ~mixed' => (context' # None => context' = last)
  PROVE  ChatInv'
<1>1. handler' \in [Handlers -> Z!Working \cup {None}]
  BY OneDelivery
<1>2. Kept
  BY DEF Kept
<1>3. q # None => DeliveryMeans(q)'
  BY DEF ChatInv, DeliveryMeans
<1>4. \A g \in Handlers : handler'[g] # None => DeliveryMeans(handler[g])'
  BY <1>2, <1>3, AllMean
<1>5. Z!TypeOKChat'
  <2>1. mixed' \in BOOLEAN
    BY DEF ChatInv, Z!TypeOKChat
  <2> QED
    BY <1>1, <2>1 DEF ChatInv, Z!TypeOKChat
<1>6. OneByOne'
  <2>1. CASE mixed' = TRUE
    BY <2>1 DEF OneByOne
  <2>2. CASE mixed' # TRUE
    <3>1. mixed' = mixed /\ (~mixed => ~mixed')
      BY <2>2
    <3> QED
      BY <3>1, OneByOneGoesOn
  <2> QED
    BY <2>1, <2>2
<1>7. \A n \in Messages : n \in twice' \/ EnteringOnce(n)'
  <2>1. \A n \in Messages : \A t \in Rows : From(t, n)' => From(t, n)
    BY DEF From
  <2> QED
    BY <2>1, EnteringGoesOn
<1> QED
  BY <1>4, <1>5, <1>6, <1>7 DEF ChatInv

LEMMA MappedNext ==
  ASSUME ChatInv, NEW h \in Handlers, handler[h] \in Z!Doing, NEW step \in {"map", "map reply"},
         handler' = [handler EXCEPT ![h].step = step]
  PROVE  \E q \in Z!Working : /\ handler' = [handler EXCEPT ![h] = q] /\ q.step = step
                              /\ q.message = handler[h].message /\ q.row = handler[h].row
<1> DEFINE new == [handler[h] EXCEPT !.step = step]
<1>1. /\ new \in Z!Doing /\ new.step = step /\ new.message = handler[h].message
      /\ new.row = handler[h].row
  BY DEF Z!Doing
<1>2. handler' = [handler EXCEPT ![h] = new]
  BY DEF ChatInv, Z!TypeOKChat
<1> HIDE DEF new
<1>3. new \in Z!Working
  BY <1>1 DEF Z!Working
<1> QED
  BY <1>1, <1>2, <1>3

LEMMA RepliesGrow ==
  ASSUME ChatInv, NEW m \in Messages, NEW by \in {"user", "bot"}, NEW t \in Rows \cup {None},
         t \in acted[m], rowOf' = [rowOf EXCEPT ![<<m, by>>] = t], acted' = acted
  PROVE  rowOf' \in [Z!Ids -> Rows \cup {None}] /\ RepliesMean'
<1>1. <<m, by>> \in Z!Ids /\ rowOf \in [Z!Ids -> Rows \cup {None}]
  BY DEF Z!Ids, ChatInv, Z!TypeOKChat
<1>2. rowOf' \in [Z!Ids -> Rows \cup {None}]
  BY <1>1
<1>3. ASSUME NEW id \in Z!Ids, rowOf'[id] # None PROVE rowOf'[id] \in acted[id[1]]
  <2>1. CASE id = <<m, by>>
    BY <1>1, <2>1
  <2>2. CASE id # <<m, by>>
    <3>1. rowOf'[id] = rowOf[id]
      BY <1>1, <2>2
    <3> QED
      BY <1>3, <3>1 DEF ChatInv, RepliesMean
  <2> QED
    BY <2>1, <2>2
<1> QED
  BY <1>2, <1>3 DEF RepliesMean

LEMMA SaveContextKeeps ==
  ASSUME ChatInv, NEW h \in Handlers, Z!SaveContext(h)
  PROVE  ChatInv'
<1>1. /\ UNCHANGED <<linked, message, dedup, row, rowOf, replied, acted, last, twice, mixed, strayed>>
      /\ handler[h] # None /\ handler[h].step = "save" /\ h \in Handlers
      /\ handler' = [handler EXCEPT ![h].step = "map"] /\ context' = handler[h].row
  BY DEF Z!SaveContext, Z!At, Z!Goes
<1>2. handler[h] \in Z!Doing /\ handler[h].row \in Rows \cup {None}
  BY <1>1, DeliveryTyped, DeliveryFields
<1>3. PICK q \in Z!Working \cup {None} :
         /\ handler' = [handler EXCEPT ![h] = q]
         /\ q.step = "map" /\ q.message = handler[h].message /\ q.row = handler[h].row
  BY <1>1, <1>2, MappedNext
<1>4. ~mixed => context' = last
  BY <1>1, AloneNow
<1>5. /\ rowOf \in [Z!Ids -> Rows \cup {None}] /\ replied \in SUBSET Messages
  BY DEF ChatInv, Z!TypeOKChat
<1>6. RepliesMean'
  BY <1>1 DEF ChatInv, RepliesMean
<1> QED
  BY <1>1, <1>2, <1>3, <1>4, <1>5, <1>6, TellKeeps

LEMMA ClearContextKeeps ==
  ASSUME ChatInv, NEW h \in Handlers, Z!ClearContext(h)
  PROVE  ChatInv'
<1>1. /\ UNCHANGED <<linked, message, dedup, row, rowOf, replied, acted, last, twice, mixed, strayed>>
      /\ handler[h] # None /\ handler[h].step = "clear"
      /\ handler' = [handler EXCEPT ![h] = None] /\ context' = None
  BY DEF Z!ClearContext, Z!At, Z!Ends
<1>2. PICK q \in Z!Working \cup {None} : q = None /\ handler' = [handler EXCEPT ![h] = q]
  BY <1>1
<1>3. rowOf \in [Z!Ids -> Rows \cup {None}] /\ replied \in SUBSET Messages
  BY DEF ChatInv, Z!TypeOKChat
<1>4. RepliesMean'
  BY <1>1 DEF ChatInv, RepliesMean
<1> QED
  BY <1>1, <1>2, <1>3, <1>4, TellKeeps

LEMMA MapMessageKeeps ==
  ASSUME ChatInv, NEW h \in Handlers, Z!MapMessage(h)
  PROVE  ChatInv'
<1> DEFINE m == handler[h].message
<1>1. /\ UNCHANGED <<linked, message, dedup, row, context, acted, last, twice, strayed>>
      /\ handler[h] # None /\ handler[h].step = "map" /\ h \in Handlers
      /\ rowOf' = [rowOf EXCEPT ![<<m, "user">>] = handler[h].row]
      /\ \/ replied' = replied \cup {m} /\ handler' = [handler EXCEPT ![h].step = "map reply"] /\ mixed' = mixed
         \/ handler' = [handler EXCEPT ![h] = None] /\ mixed' = TRUE /\ replied' = replied
  BY DEF Z!MapMessage, Z!At, Z!Goes, Z!Ends
<1>2. /\ handler[h] \in Z!Doing /\ handler[h].row \in Rows \cup {None} /\ m \in Messages
      /\ handler[h].row \in acted[m]
  BY <1>1, DeliveryTyped, DeliveryFields DEF ChatInv, DeliveryMeans
<1>3. PICK q \in Z!Working \cup {None} :
         /\ handler' = [handler EXCEPT ![h] = q]
         /\ q # None => q.step = "map reply" /\ q.message = handler[h].message /\ q.row = handler[h].row
  <2>1. CASE handler' = [handler EXCEPT ![h] = None]
    BY <2>1
  <2>2. CASE handler' = [handler EXCEPT ![h].step = "map reply"]
    BY <1>1, <1>2, <2>2, MappedNext
  <2> QED
    BY <1>1, <2>1, <2>2
<1>4. ~mixed => (context # None => context = last)
  BY <1>1, AloneNow
<1>5. /\ rowOf \in [Z!Ids -> Rows \cup {None}] /\ replied \in SUBSET Messages /\ context \in Rows \cup {None}
  BY DEF ChatInv, Z!TypeOKChat
<1>6. rowOf' \in [Z!Ids -> Rows \cup {None}] /\ RepliesMean'
  BY <1>1, <1>2, <1>5, RepliesGrow
<1>7. replied' \in SUBSET Messages /\ (mixed' = mixed \/ mixed' = TRUE)
  BY <1>1, <1>2, <1>5
<1>8. ~mixed' => (context' # None => context' = last)
  <2>1. CASE mixed' = TRUE
    BY <2>1
  <2>2. CASE mixed' = mixed
    <3>1. context' = context
      BY <1>1
    <3>2. ~mixed' => ~mixed
      BY <2>2
    <3> QED
      BY <1>4, <3>1, <3>2
  <2> QED
    BY <1>7, <2>1, <2>2
<1> HIDE DEF m
<1> QED
  BY <1>1, <1>2, <1>3, <1>5, <1>6, <1>7, <1>8, TellKeeps

LEMMA MapReplyKeeps ==
  ASSUME ChatInv, NEW h \in Handlers, Z!MapReply(h)
  PROVE  ChatInv'
<1>1. /\ UNCHANGED <<linked, message, dedup, row, context, replied, acted, last, twice, mixed, strayed>>
      /\ handler[h] # None /\ handler[h].step = "map reply"
      /\ rowOf' = [rowOf EXCEPT ![<<handler[h].message, "bot">>] = handler[h].row]
      /\ handler' = [handler EXCEPT ![h] = None]
  BY DEF Z!MapReply, Z!At, Z!Ends
<1>2. /\ handler[h].row \in Rows \cup {None} /\ handler[h].message \in Messages
      /\ handler[h].row \in acted[handler[h].message]
  BY <1>1, DeliveryTyped, DeliveryFields DEF ChatInv, DeliveryMeans
<1>3. PICK q \in Z!Working \cup {None} : q = None /\ handler' = [handler EXCEPT ![h] = q]
  BY <1>1
<1>4. ~mixed => (context # None => context = last)
  BY <1>1, AloneNow
<1>5. replied \in SUBSET Messages /\ context \in Rows \cup {None}
  BY DEF ChatInv, Z!TypeOKChat
<1>6. rowOf' \in [Z!Ids -> Rows \cup {None}] /\ RepliesMean'
  BY <1>1, <1>2, RepliesGrow
<1> QED
  BY <1>1, <1>3, <1>4, <1>5, <1>6, TellKeeps

LEMMA FailKeepsChat ==
  ASSUME ChatInv, NEW h \in Handlers, Z!Fail(h)
  PROVE  ChatInv'
<1>1. /\ UNCHANGED <<linked, message, dedup, row, context, rowOf, replied, acted, last, twice, strayed>>
      /\ handler[h] # None /\ handler[h].step \in {"save", "clear", "map"}
      /\ handler' = [handler EXCEPT ![h] = None] /\ mixed' = TRUE
  BY DEF Z!Fail, Z!Ends
<1>2. PICK q \in Z!Working \cup {None} : q = None /\ handler' = [handler EXCEPT ![h] = q]
  BY <1>1
<1>3. /\ rowOf \in [Z!Ids -> Rows \cup {None}] /\ replied \in SUBSET Messages
      /\ context \in Rows \cup {None}
  BY DEF ChatInv, Z!TypeOKChat
<1>4. RepliesMean'
  BY <1>1 DEF ChatInv, RepliesMean
<1> QED
  BY <1>1, <1>2, <1>3, <1>4, TellKeeps

LEMMA CrashKeepsChat ==
  ASSUME ChatInv, Z!CrashChat
  PROVE  ChatInv'
<1>1. /\ UNCHANGED <<linked, message, dedup, row, context, rowOf, replied, acted, last, twice, strayed>>
      /\ handler' = [h \in Handlers |-> None] /\ mixed' = TRUE
  BY DEF Z!CrashChat
<1>2. handler' \in [Handlers -> Z!Working \cup {None}]
  BY <1>1
<1>3. \A h \in Handlers : handler'[h] = None
  BY <1>1
<1>4. Z!TypeOKChat' /\ RepliesMean'
  BY <1>1, <1>2 DEF ChatInv, Z!TypeOKChat, RepliesMean
<1>5. OneByOne'
  BY <1>1 DEF OneByOne
<1>6. \A n \in Messages : n \in twice' \/ EnteringOnce(n)'
  BY <1>1, <1>3, EnteringStays DEF From, Past
<1> QED
  BY <1>1, <1>3, <1>4, <1>5, <1>6 DEF ChatInv

(* What happens beside the deliveries. *)
LEMMA BesidesKeep ==
  ASSUME ChatInv, UNCHANGED <<message, handler, replied, acted, last, mixed, strayed>>,
         linked' \in Members \cup {None}, dedup' \in SUBSET Messages, twice' \in SUBSET Messages,
         twice \subseteq twice', \A m \in dedup : m \in dedup' \/ m \in twice',
         context' = context \/ context' = None,
         rowOf' \in [Z!Ids -> Rows \cup {None}],
         \A id \in Z!Ids : rowOf'[id] = rowOf[id] \/ rowOf'[id] = None,
         row' \in [Rows -> Z!Written \cup {None}],
         \A t \in Rows : row[t] # None =>
            row'[t] # None /\ row'[t].user = row[t].user /\ row'[t].from = row[t].from,
         \A t \in Rows : row[t] = None => row'[t] = None
  PROVE  ChatInv'
<1>1. Kept
  BY DEF Kept
<1>2. \A h \in Handlers : handler'[h] # None => DeliveryMeans(handler[h])'
  <2> SUFFICES ASSUME NEW h \in Handlers, handler'[h] # None PROVE DeliveryMeans(handler[h])'
    OBVIOUS
  <2> QED
    BY <1>1, MeansStill
<1>3. Z!TypeOKChat'
  BY DEF ChatInv, Z!TypeOKChat
<1>4. RepliesMean'
  BY DEF ChatInv, RepliesMean
<1>5. OneByOne'
  <2>1. \A step : Z!At(step)' = Z!At(step)
    BY DEF Z!At
  <2>2. \A h \in Handlers : Quotes(handler[h].message)' = Quotes(handler[h].message)
    BY DEF Quotes
  <2>3. \A h \in Z!At("change") : h \in Handlers
    BY DEF Z!At
  <2> SUFFICES ASSUME ~mixed PROVE OneByOne'
    BY DEF OneByOne
  <2>4. \A g, h \in Handlers : handler'[g] # None /\ handler'[h] # None => g = h
    BY DEF ChatInv, OneByOne
  <2>5. \A h \in Z!At("change") : Quotes(handler[h].message)' = None => handler'[h].row = last'
    BY <2>2, <2>3 DEF ChatInv, OneByOne
  <2>6. \A h \in Z!At("save") : handler'[h].row = last'
    BY DEF ChatInv, OneByOne
  <2>7. context' # None /\ Z!At("save") = {} /\ Z!At("clear") = {} => context' = last'
    BY DEF ChatInv, OneByOne
  <2>8. Z!At("change")' = Z!At("change") /\ Z!At("save")' = Z!At("save") /\ Z!At("clear")' = Z!At("clear")
    BY <2>1
  <2> QED
    BY <2>4, <2>5, <2>6, <2>7, <2>8 DEF OneByOne
<1>6. \A n \in Messages : n \in twice' \/ EnteringOnce(n)'
  BY EnteringStays DEF From, Past
<1> QED
  BY <1>2, <1>3, <1>4, <1>5, <1>6 DEF ChatInv

LEMMA ExpiryKeepsChat ==
  ASSUME ChatInv,
         \/ Z!ExpireContext \/ Z!Relink
         \/ \E m \in Messages : Z!Forget(m)
         \/ \E id \in Z!Ids : Z!ExpireReply(id)
  PROVE  ChatInv'
<1>1. /\ linked \in Members \cup {None} /\ dedup \in SUBSET Messages /\ twice \in SUBSET Messages
      /\ rowOf \in [Z!Ids -> Rows \cup {None}] /\ row \in [Rows -> Z!Written \cup {None}]
  BY DEF ChatInv, Z!TypeOKChat
<1>2. CASE Z!ExpireContext
  BY <1>1, <1>2, BesidesKeep DEF Z!ExpireContext
<1>3. CASE Z!Relink
  BY <1>1, <1>3, BesidesKeep DEF Z!Relink
<1>4. ASSUME NEW m \in Messages, Z!Forget(m) PROVE ChatInv'
  <2>1. /\ UNCHANGED <<linked, message, handler, row, context, rowOf, replied, acted, last, mixed, strayed>>
        /\ dedup' = dedup \ {m} /\ twice' = twice \cup {m}
    BY <1>4 DEF Z!Forget
  <2>2. /\ dedup' \in SUBSET Messages /\ twice' \in SUBSET Messages /\ twice \subseteq twice'
        /\ \A n \in dedup : n \in dedup' \/ n \in twice'
    BY <1>1, <2>1
  <2> QED
    BY <1>1, <2>1, <2>2, BesidesKeep
<1>5. ASSUME NEW id \in Z!Ids, Z!ExpireReply(id) PROVE ChatInv'
  <2>1. /\ UNCHANGED <<linked, message, dedup, handler, row, context, replied, acted, last, twice, mixed, strayed>>
        /\ rowOf' = [rowOf EXCEPT ![id] = None]
    BY <1>5 DEF Z!ExpireReply
  <2>2. /\ rowOf' \in [Z!Ids -> Rows \cup {None}]
        /\ \A i \in Z!Ids : rowOf'[i] = rowOf[i] \/ rowOf'[i] = None
    BY <1>1, <2>1
  <2> QED
    BY <1>1, <2>1, <2>2, BesidesKeep
<1> QED
  BY <1>2, <1>3, <1>4, <1>5

LEMMA DeleteRowKeeps ==
  ASSUME ChatInv, NEW t \in Rows, Z!DeleteRow(t)
  PROVE  ChatInv'
<1>1. /\ linked \in Members \cup {None} /\ dedup \in SUBSET Messages /\ twice \in SUBSET Messages
      /\ rowOf \in [Z!Ids -> Rows \cup {None}] /\ row \in [Rows -> Z!Written \cup {None}]
  BY DEF ChatInv, Z!TypeOKChat
<1>2. /\ UNCHANGED <<linked, message, dedup, handler, context, rowOf, replied, acted, last, twice, mixed, strayed>>
      /\ row[t] # None /\ row' = [row EXCEPT ![t].deleted = TRUE]
  BY DEF Z!DeleteRow, Z!Exists
<1> DEFINE new == [row[t] EXCEPT !.deleted = TRUE]
<1>3. new \in Z!Written /\ new.user = row[t].user /\ new.from = row[t].from
  BY <1>1, <1>2 DEF Z!Written
<1>4. row' = [row EXCEPT ![t] = new]
  BY <1>1, <1>2
<1> HIDE DEF new
<1>5. /\ row' \in [Rows -> Z!Written \cup {None}]
      /\ \A x \in Rows : row[x] # None =>
           row'[x] # None /\ row'[x].user = row[x].user /\ row'[x].from = row[x].from
      /\ \A x \in Rows : row[x] = None => row'[x] = None
  BY <1>1, <1>2, <1>3, <1>4, BotsAssumption
<1>6. /\ ChatInv /\ UNCHANGED <<message, handler, replied, acted, last, mixed, strayed>>
      /\ linked' \in Members \cup {None} /\ dedup' \in SUBSET Messages /\ twice' \in SUBSET Messages
      /\ twice \subseteq twice' /\ \A m \in dedup : m \in dedup' \/ m \in twice'
      /\ context' = context
      /\ rowOf' \in [Z!Ids -> Rows \cup {None}] /\ \A id \in Z!Ids : rowOf'[id] = rowOf[id]
  BY ONLY ChatInv, <1>1, <1>2
<1> QED
  BY ONLY <1>5, <1>6, BesidesKeep

LEMMA ChatNext ==
  ASSUME ChatInv, Z!NextChat
  PROVE  ChatInv'
BY DeliverKeeps, MarkKeeps, ParseKeeps, EnterRowKeeps, ChangeKeeps, SaveContextKeeps, ClearContextKeeps,
   MapMessageKeeps, MapReplyKeeps, FailKeepsChat, CrashKeepsChat, ExpiryKeepsChat, DeleteRowKeeps
DEF Z!NextChat

LEMMA ChatStutters ==
  ASSUME ChatInv, UNCHANGED chatVars
  PROVE  ChatInv'
<1>1. UNCHANGED <<linked, message, dedup, handler, row, context, rowOf, replied, acted, last, twice, mixed, strayed>>
  BY DEF chatVars
<1>2. /\ linked \in Members \cup {None} /\ dedup \in SUBSET Messages /\ twice \in SUBSET Messages
      /\ rowOf \in [Z!Ids -> Rows \cup {None}] /\ row \in [Rows -> Z!Written \cup {None}]
  BY DEF ChatInv, Z!TypeOKChat
<1> QED
  BY <1>1, <1>2, BesidesKeep

LEMMA ChatInit ==
  ASSUME Z!InitChat
  PROVE  ChatInv
<1>1. \A h \in Handlers : handler[h] = None
  BY DEF Z!InitChat
<1>2. Z!TypeOKChat
  BY DEF Z!InitChat, Z!TypeOKChat
<1>3. RepliesMean
  BY DEF Z!InitChat, RepliesMean
<1>4. OneByOne
  BY <1>1 DEF Z!InitChat, OneByOne, Z!At
<1>5. \A m \in Messages : EnteringOnce(m)
  BY <1>1 DEF Z!InitChat, EnteringOnce, Past, From
<1> QED
  BY <1>1, <1>2, <1>3, <1>4, <1>5 DEF ChatInv, Z!InitChat

-----------------------------------------------------------------------------
(* The three together, and the types.                                      *)

BotsInv == AssistInv /\ LinkInv /\ ChatInv

LEMMA BotsNext ==
  ASSUME BotsInv, [Next]_vars
  PROVE  BotsInv'
<1>1. AssistInv'
  <2>1. G!NextAssist \/ UNCHANGED assistVars
    BY DEF Next, Opening, Submitting, Sending, Exporting, Alerting, Chatting, vars, botVars
  <2> QED
    BY <2>1, AssistNext, AssistStutters DEF BotsInv
<1>2. LinkInv'
  <2>1. L!NextLink \/ UNCHANGED linkVars
    BY DEF Next, Opening, Submitting, Sending, Exporting, Alerting, Chatting, vars, botVars
  <2> QED
    BY <2>1, LinkNext, LinkStutters DEF BotsInv
<1>3. ChatInv'
  <2>1. Z!NextChat \/ UNCHANGED chatVars
    BY DEF Next, Opening, Submitting, Sending, Exporting, Alerting, Chatting, vars, botVars
  <2> QED
    BY <2>1, ChatNext, ChatStutters DEF BotsInv
<1> QED
  BY <1>1, <1>2, <1>3 DEF BotsInv

LEMMA BotsAlways == Spec => []BotsInv
<1>1. Init => BotsInv
  BY AssistInit, LinkInit, ChatInit DEF Init, BotsInv
<1> QED
  BY <1>1, BotsNext, PTL DEF Spec

(* A message enters one transaction at most and changes what it is about; a
   chat stands for one user, a code links once, and wrong guesses are counted
   before they are too many; a request to the assistant is logged as it was
   told, and out of reach only after every key, in turn. *)
THEOREM QueueBots == Spec => []BotsDoAsTheySay
<1>1. BotsInv => BotsDoAsTheySay
  BY AssistSays, LinkSays, ChatSays DEF BotsInv, BotsDoAsTheySay
<1> QED
  BY <1>1, BotsAlways, PTL

(* A notice is about a statement that some exporter built. *)
LEMMA ExportNoticesTyped ==
  ASSUME ExportsInv, notices \subseteq Exports, [Next]_vars
  PROVE  notices' \subseteq Exports
<1>1. CASE \E x \in Exporters : S!Notify(x)
  <2>1. PICK x \in Exporters : S!Notify(x)
    BY <1>1
  <2>2. exporter[x] # None /\ notices' = notices \cup {exporter[x].id}
    BY <2>1 DEF S!Notify, S!At
  <2>3. exporter[x].id \in Exports
    BY <2>2, RunFields
  <2> QED
    BY <2>2, <2>3
<1>2. CASE notices' = notices
  BY <1>2
<1>3. S!NextExports => (\E x \in Exporters : S!Notify(x)) \/ notices' = notices
  BY DEF S!NextExports, S!InitiateExport, S!Enqueue, S!StallExport, S!ForgetExport, S!Expire,
         S!WriteFailedEvent, S!TakeJob, S!MarkProcessing, S!MarkProcessingFails, S!Build,
         S!MarkCompleted, S!ExportThrows, S!Acknowledge, S!CatchExport, S!ExportCrash
<1>4. S!NextExports \/ notices' = notices
  BY DEF Next, Opening, Submitting, Sending, Exporting, Alerting, Chatting, vars, exportVars
<1> QED
  BY <1>1, <1>2, <1>3, <1>4

(* Every variable of every scene has its type: attempts and stalls stay
   within what a queue allows, and what is under way is about rows there are. *)
THEOREM QueueTypes == Spec => []TypeOK
<1>1. Init => NoticesInv /\ notices \subseteq Exports
  BY NoticesInit DEF Init, S!InitExports
<1>2. /\ NoticesInv /\ notices \subseteq Exports /\ ExportsInv /\ [Next]_vars
      => (NoticesInv /\ notices \subseteq Exports)'
  BY NoticesNext, ExportNoticesTyped
<1>3. /\ WorkInv /\ ExportsInv /\ BotsInv /\ NoticesInv /\ notices \subseteq Exports
      => TypeOK
  <2> SUFFICES ASSUME WorkInv, ExportsInv, BotsInv, NoticesInv, notices \subseteq Exports
               PROVE  TypeOK
    OBVIOUS
  <2>1. TypeOKHooks
    BY DEF WorkInv, HooksInv, HookTypes, RowsFound, TypeOKHooks
  <2>2. TypeOKJobs
    BY DEF WorkInv, JobsInv, JobTypes, ExecutorTells, TypeOKJobs
  <2>3. S!TypeOKExports
    <3>1. ASSUME NEW x \in Exporters, exporter[x] # None PROVE statement[exporter[x].id] # None
      <4>1. exporter[x].id \in Exports
        BY <3>1, RunFields
      <4> QED
        BY <3>1, <4>1 DEF ExportsInv, ExportSound, NotBefore, Runs
    <3> QED
      BY <3>1 DEF ExportsInv, ExportTypes, S!TypeOKExports
  <2>4. A!TypeOKAlerts /\ Z!TypeOKChat /\ L!TypeOKLink /\ G!TypeOKAssist
    BY DEF NoticesInv, BotsInv, AssistInv, LinkInv, ChatInv
  <2> QED
    BY <2>1, <2>2, <2>3, <2>4 DEF TypeOK
<1> QED
  BY <1>1, <1>2, <1>3, WorkAlways, BotsAlways, PTL DEF Spec

=============================================================================
