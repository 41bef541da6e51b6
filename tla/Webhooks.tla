------------------------------ MODULE Webhooks ------------------------------
(***************************************************************************)
(* Webhook endpoints of one user and the delivery of events to them:       *)
(* webhook.service.ts, webhook.repository.ts, webhook-queue.service.ts.    *)
(* Every statement of a request is a step of its own.  Events, payloads,   *)
(* signatures, addresses and the numbers of attempts on the row are left   *)
(* out; a job carries the address it was created with, so endpoints are    *)
(* not looked at again.                                                    *)
(***************************************************************************)
EXTENDS Integers, FiniteSets

CONSTANTS
    Endpoints, Deliveries,
    MaxEndpoints,       \* MAX_WEBHOOKS_PER_USER
    HookAttempts,       \* attempts of a job
    Openers,            \* concurrent requests for an endpoint
    Dispatchers,        \* concurrent requests and jobs that send events
    Senders,            \* deliveries under way at once
    HookCrashes,        \* bound on the deaths of the process
    None

ASSUME HookLimitsAssumption ==
    /\ IsFiniteSet(Endpoints) /\ MaxEndpoints \in Nat \ {0}
    /\ IsFiniteSet(Openers) /\ Openers # {}
    /\ HookAttempts \in Nat \ {0}

VARIABLES
    endpoint,           \* endpoint[e]: None, "ACTIVE", "DISABLED" or "DELETED"
    opening,            \* openers that have passed the count of endpoints
    reenabled,          \* endpoints made ACTIVE by an update, which counts nothing
    delivery,           \* delivery[d]: [endpoint, status], or None
    hooks,              \* the queue
    dispatch,           \* dispatch[x]: [left, current], or None
    sender,             \* sender[n]: [id, token, stage, ok], or None
    lost,               \* deliveries whose call or outcome was lost on the way
    ignored,            \* deliveries whose last add the queue ignored
    hookCrashes

hookVars == <<endpoint, opening, reenabled, delivery, hooks, dispatch, sender, lost,
              ignored, hookCrashes>>

Q == INSTANCE JobQueue WITH Ids <- Deliveries, Attempts <- HookAttempts, queue <- hooks

EndpointStates == {"ACTIVE", "DISABLED", "DELETED"}
DeliveryRows == [endpoint : Endpoints, status : {"PENDING", "SUCCESS", "FAILED"}]
Dispatches == [left : SUBSET Endpoints, current : Deliveries \cup {None}]
Sendings ==
    [id : Deliveries, token : Q!JobRows \cup {None},
     stage : {"sending", "answered", "returned", "thrown"}, ok : BOOLEAN]

ASSUME NoHookAssumption ==
    None \notin EndpointStates \cup Deliveries \cup DeliveryRows \cup Dispatches
                 \cup Sendings \cup Q!JobRows

InitHooks(existing) ==
    /\ endpoint = [e \in Endpoints |-> IF e \in existing THEN "ACTIVE" ELSE None]
    /\ opening = {} /\ reenabled = {} /\ lost = {} /\ ignored = {}
    /\ delivery = [d \in Deliveries |-> None]
    /\ Q!InitQueue
    /\ dispatch = [x \in Dispatchers |-> None]
    /\ sender = [n \in Senders |-> None]
    /\ hookCrashes = 0

ActiveEndpoints == {e \in Endpoints : endpoint[e] = "ACTIVE"}

OnlyEndpoints == UNCHANGED <<delivery, hooks, dispatch, sender, lost, ignored, hookCrashes>>

\* Mutant: off by one.
RoomForOneMore == Cardinality(ActiveEndpoints) <= MaxEndpoints

RoomForEndpoint == Cardinality(ActiveEndpoints) < MaxEndpoints

CountEndpoints(o) ==
    /\ o \notin opening /\ RoomForEndpoint
    /\ opening' = opening \cup {o}
    /\ UNCHANGED <<endpoint, reenabled>> /\ OnlyEndpoints

CreateEndpoint(o, e) ==
    /\ o \in opening /\ endpoint[e] = None
    /\ endpoint' = [endpoint EXCEPT ![e] = "ACTIVE"]
    /\ opening' = opening \ {o}
    /\ UNCHANGED reenabled /\ OnlyEndpoints

UpdateEndpoint(e, status) ==
    /\ endpoint[e] \in {"ACTIVE", "DISABLED"}
    /\ endpoint' = [endpoint EXCEPT ![e] = status]
    /\ reenabled' = IF endpoint[e] = "DISABLED" /\ status = "ACTIVE"
                    THEN reenabled \cup {e} ELSE reenabled
    /\ UNCHANGED opening /\ OnlyEndpoints

DeleteEndpoint(e) ==
    /\ endpoint[e] \in {"ACTIVE", "DISABLED"}
    /\ endpoint' = [endpoint EXCEPT ![e] = "DELETED"]
    /\ UNCHANGED <<opening, reenabled>> /\ OnlyEndpoints

-----------------------------------------------------------------------------
\* dispatchEventToUser, testPing and retryDelivery.

OnlyDispatch == UNCHANGED <<endpoint, opening, reenabled, hookCrashes>>

\* The active endpoints that want the event, as they are now.
Dispatch(x, targets) ==
    /\ dispatch[x] = None
    /\ targets \subseteq ActiveEndpoints
    /\ dispatch' = [dispatch EXCEPT ![x] =
           IF targets = {} THEN None ELSE [left |-> targets, current |-> None]]
    /\ UNCHANGED <<delivery, hooks, sender, lost, ignored>> /\ OnlyDispatch

\* A ping goes to a disabled endpoint as well.
TestPing(x, e) ==
    /\ dispatch[x] = None
    /\ endpoint[e] \in {"ACTIVE", "DISABLED"}
    /\ dispatch' = [dispatch EXCEPT ![x] = [left |-> {e}, current |-> None]]
    /\ UNCHANGED <<delivery, hooks, sender, lost, ignored>> /\ OnlyDispatch

CreateDelivery(x, d) ==
    /\ dispatch[x] # None /\ dispatch[x].current = None
    /\ delivery[d] = None
    /\ \E e \in dispatch[x].left :
          /\ delivery' = [delivery EXCEPT ![d] =
                 [endpoint |-> e, status |-> "PENDING"]]
          /\ dispatch' = [dispatch EXCEPT ![x] = [left |-> @.left \ {e}, current |-> d]]
    /\ UNCHANGED <<hooks, sender, lost, ignored>> /\ OnlyDispatch

\* resetDeliveryForRetry, in any status.
ResetForRetry(x, d) ==
    /\ dispatch[x] = None
    /\ delivery[d] # None /\ endpoint[delivery[d].endpoint] # "DELETED"
    /\ delivery' = [delivery EXCEPT ![d].status = "PENDING"]
    /\ dispatch' = [dispatch EXCEPT ![x] = [left |-> {}, current |-> d]]
    /\ UNCHANGED <<hooks, sender, lost, ignored>> /\ OnlyDispatch

Dispatched(x) ==
    dispatch' = [dispatch EXCEPT ![x] =
                    IF @.left = {} THEN None ELSE [@ EXCEPT !.current = None]]

Enqueue(x) ==
    LET d == dispatch[x].current IN
    /\ dispatch[x] # None /\ d # None
    /\ Q!Add(d)
    /\ lost' = lost \ {d}
    /\ ignored' = IF hooks[d].state = "absent" THEN ignored \ {d} ELSE ignored \cup {d}
    /\ Dispatched(x)
    /\ UNCHANGED <<delivery, sender>> /\ OnlyDispatch

\* Without Redis, or when add throws: setImmediate in this process.
DirectSend(d) ==
    \E n \in Senders :
        /\ sender[n] = None
        /\ sender' = [sender EXCEPT ![n] =
               [id |-> d, token |-> None, stage |-> "sending", ok |-> FALSE]]

\* Mutant: an event that cannot be queued is dropped.
NoDirectSend(d) == UNCHANGED sender

FallBack(d) == DirectSend(d)

EnqueueDirectly(x) ==
    LET d == dispatch[x].current IN
    /\ dispatch[x] # None /\ d # None
    /\ FallBack(d)
    /\ lost' = lost \ {d} /\ ignored' = ignored \ {d}
    /\ Dispatched(x)
    /\ UNCHANGED <<delivery, hooks>> /\ OnlyDispatch

\* A statement of the request throws: the rest of the endpoints get nothing.
DispatchFails(x) ==
    /\ dispatch[x] # None
    /\ dispatch' = [dispatch EXCEPT ![x] = None]
    /\ lost' = IF dispatch[x].current = None THEN lost ELSE lost \cup {dispatch[x].current}
    /\ UNCHANGED <<delivery, hooks, sender, ignored>> /\ OnlyDispatch

-----------------------------------------------------------------------------
\* WebhookQueueService.processJob.

OnlySender == UNCHANGED <<endpoint, opening, reenabled, dispatch, hookCrashes>>

TakeJob(n, d) ==
    /\ sender[n] = None
    /\ Q!Start(d)
    /\ sender' = [sender EXCEPT ![n] =
           [id |-> d, token |-> hooks'[d], stage |-> "sending", ok |-> FALSE]]
    /\ UNCHANGED <<delivery, lost, ignored>> /\ OnlySender

\* The answer of the endpoint, an error, or the timeout of 10 seconds.
Send(n, ok) ==
    /\ sender[n] # None /\ sender[n].stage = "sending"
    /\ sender' = [sender EXCEPT ![n] = [@ EXCEPT !.stage = "answered", !.ok = ok]]
    /\ UNCHANGED <<delivery, hooks, lost, ignored>> /\ OnlySender

Ended(n, thrown) ==
    LET s == sender[n] IN
    /\ sender' = [sender EXCEPT ![n] = IF s.token = None THEN None
                     ELSE [s EXCEPT !.stage = IF thrown THEN "thrown" ELSE "returned"]]
    /\ UNCHANGED hooks

WriteOutcome(d, status) ==
    /\ delivery' = [delivery EXCEPT ![d].status = status]
    /\ lost' = lost \ {d} /\ ignored' = ignored \ {d}

\* The secret cannot be decrypted: FAILED, or nothing when that write fails,
\* and the job counts as done.
Undecryptable(n, written) ==
    LET d == sender[n].id IN
    /\ sender[n] # None /\ sender[n].stage = "sending"
    /\ IF written THEN WriteOutcome(d, "FAILED")
       ELSE lost' = lost \cup {d} /\ UNCHANGED <<delivery, ignored>>
    /\ Ended(n, FALSE) /\ OnlySender

\* The outcome is written; the catch also takes a failed write of a success.
Record(n, outcome) ==
    LET d == sender[n].id IN
    /\ sender[n] # None /\ sender[n].stage = "answered"
    /\ outcome = "SUCCESS" => sender[n].ok
    /\ WriteOutcome(d, outcome)
    /\ Ended(n, outcome = "FAILED") /\ OnlySender

\* Neither write of the outcome succeeds.
RecordNothing(n) ==
    /\ sender[n] # None /\ sender[n].stage = "answered"
    /\ lost' = lost \cup {sender[n].id}
    /\ Ended(n, TRUE)
    /\ UNCHANGED <<delivery, ignored>> /\ OnlySender

Acknowledge(n) ==
    LET s == sender[n] IN
    /\ s # None /\ s.stage \in {"returned", "thrown"}
    /\ Q!Finish(s.id, s.token, s.stage = "thrown")
    /\ sender' = [sender EXCEPT ![n] = None]
    /\ UNCHANGED <<delivery, lost, ignored>> /\ OnlySender

\* An ended job is forgotten hundreds of jobs later, after all its attempts.
QueueStep(d) ==
    /\ \/ Q!Forget(d) /\ \A n \in Senders : sender[n] # None => sender[n].id # d
       \/ Q!Stall(d)
    /\ lost' = IF hooks'[d].state = "failed" THEN lost \cup {d} ELSE lost
    /\ UNCHANGED <<delivery, sender, ignored>> /\ OnlySender

\* Requests, dispatches and attempts of the process are gone.
HookCrash ==
    /\ hookCrashes < HookCrashes
    /\ hookCrashes' = hookCrashes + 1
    /\ lost' = lost \cup {d \in Deliveries :
           \/ \E x \in Dispatchers : dispatch[x] # None /\ dispatch[x].current = d
           \/ \E n \in Senders : sender[n] # None /\ sender[n].id = d /\ sender[n].token = None}
    /\ opening' = {}
    /\ dispatch' = [x \in Dispatchers |-> None]
    /\ sender' = [n \in Senders |-> None]
    /\ UNCHANGED <<endpoint, reenabled, delivery, hooks, ignored>>

EndpointStep ==
    \/ \E o \in Openers : CountEndpoints(o) \/ \E e \in Endpoints : CreateEndpoint(o, e)
    \/ \E e \in Endpoints : DeleteEndpoint(e)
                            \/ \E s \in {"ACTIVE", "DISABLED"} : UpdateEndpoint(e, s)

\* The statements of a dispatch that has begun.
Dispatching(x) ==
    \/ \E d \in Deliveries : CreateDelivery(x, d)
    \/ Enqueue(x) \/ EnqueueDirectly(x) \/ DispatchFails(x)

RetryOrPing(x) ==
    \/ \E e \in Endpoints : TestPing(x, e)
    \/ \E d \in Deliveries : ResetForRetry(x, d)

SenderStep ==
    \/ \E n \in Senders :
          \/ \E d \in Deliveries : TakeJob(n, d)
          \/ \E b \in BOOLEAN : Send(n, b) \/ Undecryptable(n, b)
          \/ \E o \in {"SUCCESS", "FAILED"} : Record(n, o)
          \/ RecordNothing(n) \/ Acknowledge(n)
    \/ \E d \in Deliveries : QueueStep(d)

-----------------------------------------------------------------------------
TypeOKHooks ==
    /\ endpoint \in [Endpoints -> EndpointStates \cup {None}]
    /\ opening \subseteq Openers /\ reenabled \subseteq Endpoints
    /\ delivery \in [Deliveries -> DeliveryRows \cup {None}]
    /\ hooks \in [Deliveries -> Q!JobRows]
    /\ dispatch \in [Dispatchers -> Dispatches \cup {None}]
    /\ sender \in [Senders -> Sendings \cup {None}]
    /\ lost \subseteq Deliveries /\ ignored \subseteq Deliveries
    /\ \A n \in Senders : sender[n] # None => delivery[sender[n].id] # None

\* A user passes the limit of active endpoints by the requests that run at
\* the same time and by re-enabling old ones, and by nothing else.
EndpointsWithinLimit ==
    Cardinality(ActiveEndpoints \ reenabled) <= MaxEndpoints + Cardinality(Openers) - 1

HookInHand(d) ==
    \/ \E x \in Dispatchers : dispatch[x] # None /\ dispatch[x].current = d
    \/ Q!Open(d)
    \/ \E n \in Senders : sender[n] # None /\ sender[n].id = d

\* A delivery that is PENDING is going to be attempted: a request is about
\* to queue it, its job is open, or an attempt is under way.  What breaks
\* that is named: a death of the process outside the queue, an error in
\* writing the outcome, a stalled job, and a retry the queue ignored.
PendingIsInHand ==
    \A d \in Deliveries :
        delivery[d] # None /\ delivery[d].status = "PENDING" =>
            HookInHand(d) \/ d \in lost \cup ignored
=============================================================================
