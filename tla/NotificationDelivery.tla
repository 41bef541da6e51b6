------------------------ MODULE NotificationDelivery ------------------------
(***************************************************************************)
(* Delivery of notifications by mail and Zalo:                             *)
(* notifications/notification-delivery.service.ts, the delivery queries of *)
(* notification.repository.ts and the retry of the administrators.         *)
(*                                                                         *)
(* A pass of the worker lists the deliveries that are due, claims each one *)
(* by a conditional update, calls the provider, and writes the outcome     *)
(* with no condition.  A pass may lose its lock, or be left by an error    *)
(* while the other items of its batch go on, so an item is an attempt of   *)
(* its own here and any number of attempts may be under way: what keeps    *)
(* them apart is the claim alone.                                          *)
(*                                                                         *)
(* Abstracted: texts, users and channels; the provider is a counter of     *)
(* what reached it.  A call that timed out and goes on in the background   *)
(* is one that fails after the provider has got the message.               *)
(***************************************************************************)
EXTENDS Integers, FiniteSets

CONSTANTS Deliveries,   \* rows of notification_deliveries
          Attempts,     \* attempts under way at once
          ClaimLimit,   \* the 5 of findDueDeliveries and claimDelivery
          MaxAttempts,  \* maxDeliveryAttempts of the environment
          StaleAfter,   \* the 5 minutes of processDue
          BaseDelay, MaxDelay,  \* of the time between attempts
          LastTime, MaxCrashes, \* bounds: the clock, lost attempts
          None

ASSUME BoundsAssumption ==
  /\ ClaimLimit \in Nat \ {0} /\ MaxAttempts \in Nat \ {0}
  /\ StaleAfter \in Nat /\ BaseDelay \in Nat /\ MaxDelay \in Nat
  /\ LastTime \in Nat /\ MaxCrashes \in Nat

ASSUME AttemptsAssumption == IsFiniteSet(Attempts)

Statuses == {"PENDING", "PROCESSING", "SENT", "FAILED", "SKIPPED"}
Stages == {"listed", "sending", "sent", "skipped", "error"}

Rows == [status : Statuses, attempts : 0..ClaimLimit, nextAttemptAt : Nat,
         updatedAt : 0..LastTime]
AttemptRows == [delivery : Deliveries, time : 0..LastTime, stage : Stages,
                number : 0..ClaimLimit]

ASSUME NoneAssumption == None \notin Rows /\ None \notin AttemptRows

VARIABLES now,
          row,      \* row[d]: [status, attempts, nextAttemptAt, updatedAt], None
          attempt,  \* attempt[a]: an item of a pass, or None
          sent,     \* sent[d]: how often d has reached the provider
          stolen,   \* auxiliary: d was taken over, or reset, under an attempt
          unsure,   \* auxiliary: d reached the provider and that is not recorded
          crashes   \* auxiliary: attempts lost

vars == <<now, row, attempt, sent, stolen, unsure, crashes>>

-----------------------------------------------------------------------------
(* createIfAbsent: a row for every external channel of a new notification. *)
Create(d) ==
  /\ row[d] = None
  /\ row' = [row EXCEPT ![d] = [status |-> "PENDING", attempts |-> 0,
                                nextAttemptAt |-> now, updatedAt |-> now]]
  /\ UNCHANGED <<now, attempt, sent, stolen, unsure, crashes>>

(* The attempt that has the row began more than StaleAfter ago. *)
Stale(r, time) == r.status = "PROCESSING" /\ r.updatedAt < time - StaleAfter

(* Mutants of Claimable: no limit, no status, no recovery of dead attempts. *)
ClaimableForever(r, time) ==
  \/ r.status \in {"PENDING", "FAILED"} /\ r.nextAttemptAt <= time
  \/ Stale(r, time)
ClaimableWhenever(r, time) ==
  r.attempts < ClaimLimit /\ r.nextAttemptAt <= time
ClaimableWhenWritten(r, time) ==
  /\ r.attempts < ClaimLimit
  /\ r.status \in {"PENDING", "FAILED"}
  /\ r.nextAttemptAt <= time

(* The condition of findDueDeliveries and claimDelivery, at the time the   *)
(* pass began.                                                             *)
Claimable(r, time) ==
  /\ r.attempts < ClaimLimit
  /\ \/ r.status \in {"PENDING", "FAILED"} /\ r.nextAttemptAt <= time
     \/ Stale(r, time)

(* findDueDeliveries, one row of the list. *)
List(a, d) ==
  /\ attempt[a] = None
  /\ row[d] # None
  /\ Claimable(row[d], now)
  /\ attempt' = [attempt EXCEPT ![a] =
                   [delivery |-> d, time |-> now, stage |-> "listed", number |-> 0]]
  /\ UNCHANGED <<now, row, sent, stolen, unsure, crashes>>

(* claimDelivery *)
Claim(a) ==
  /\ attempt[a] # None
  /\ attempt[a].stage = "listed"
  /\ LET d == attempt[a].delivery
     IN  \/ /\ Claimable(row[d], attempt[a].time)
            /\ row' = [row EXCEPT ![d].status = "PROCESSING",
                                  ![d].attempts = @ + 1, ![d].updatedAt = now]
            /\ attempt' = [attempt EXCEPT ![a].stage = "sending",
                                          ![a].number = row[d].attempts + 1]
            /\ stolen' = [stolen EXCEPT ![d] = @ \/ Stale(row[d], attempt[a].time)]
         \/ /\ ~Claimable(row[d], attempt[a].time)
            /\ attempt' = [attempt EXCEPT ![a] = None]
            /\ UNCHANGED <<row, stolen>>
  /\ UNCHANGED <<now, sent, unsure, crashes>>

(* deliver: nothing to do, sent, failed before or after the provider got   *)
(* it.                                                                     *)
Deliver(a) ==
  /\ attempt[a] # None
  /\ attempt[a].stage = "sending"
  /\ \E stage \in {"skipped", "sent", "error"}, reached \in BOOLEAN :
       /\ stage = "sent" => reached
       /\ stage = "skipped" => ~reached
       /\ attempt' = [attempt EXCEPT ![a].stage = stage]
       /\ sent' = [sent EXCEPT ![attempt[a].delivery] = IF reached THEN @ + 1 ELSE @]
       /\ unsure' = [unsure EXCEPT ![attempt[a].delivery] =
                       @ \/ (reached /\ stage = "error")]
  /\ UNCHANGED <<now, row, stolen, crashes>>

(* Mutant of Outcome: what was skipped counts as sent. *)
OutcomeAlwaysSent(stage) == "SENT"

Outcome(stage) == IF stage = "skipped" THEN "SKIPPED" ELSE "SENT"

(* completeDelivery, or its failure, which the catch of the call handles.  *)
Complete(a) ==
  /\ attempt[a] # None
  /\ attempt[a].stage \in {"sent", "skipped"}
  /\ LET d == attempt[a].delivery
     IN  \/ /\ row' = [row EXCEPT ![d].status = Outcome(attempt[a].stage),
                                  ![d].updatedAt = now]
            /\ attempt' = [attempt EXCEPT ![a] = None]
            /\ UNCHANGED unsure
         \/ /\ attempt' = [attempt EXCEPT ![a].stage = "error"]
            /\ unsure' = [unsure EXCEPT ![d] = @ \/ attempt[a].stage = "sent"]
            /\ UNCHANGED row
  /\ UNCHANGED <<now, sent, stolen, crashes>>

Lesser(m, n) == IF m < n THEN m ELSE n

RetryDelay(number) == Lesser(2 ^ number * BaseDelay, MaxDelay)

(* The catch: the last attempt leaves nextAttemptAt in the past. *)
Fail(a) ==
  /\ attempt[a] # None
  /\ attempt[a].stage = "error"
  /\ LET d == attempt[a].delivery
     IN  row' = [row EXCEPT ![d].status = "FAILED", ![d].updatedAt = now,
                            ![d].nextAttemptAt =
                               IF attempt[a].number >= MaxAttempts THEN @
                               ELSE now + RetryDelay(attempt[a].number)]
  /\ attempt' = [attempt EXCEPT ![a] = None]
  /\ UNCHANGED <<now, sent, stolen, unsure, crashes>>

(* The process dies, or the write of the catch fails. *)
Crash(a) ==
  /\ attempt[a] # None
  /\ crashes < MaxCrashes
  /\ crashes' = crashes + 1
  /\ attempt' = [attempt EXCEPT ![a] = None]
  /\ unsure' = [unsure EXCEPT ![attempt[a].delivery] =
                  @ \/ attempt[a].stage = "sent"]
  /\ UNCHANGED <<now, row, sent, stolen>>

(* retryDelivery of the administrators: whatever the status is, and        *)
(* attempts already made still count.                                      *)
AdminRetry(d) ==
  /\ row[d] # None
  /\ row' = [row EXCEPT ![d].status = "PENDING", ![d].nextAttemptAt = now,
                        ![d].updatedAt = now]
  /\ stolen' = [stolen EXCEPT ![d] = @ \/ row[d].status = "PROCESSING"]
  /\ unsure' = [unsure EXCEPT ![d] = TRUE]
  /\ UNCHANGED <<now, attempt, sent, crashes>>

Tick == /\ now < LastTime
        /\ now' = now + 1
        /\ UNCHANGED <<row, attempt, sent, stolen, unsure, crashes>>

-----------------------------------------------------------------------------
Init ==
  /\ now = 0
  /\ row = [d \in Deliveries |-> None]
  /\ attempt = [a \in Attempts |-> None]
  /\ sent = [d \in Deliveries |-> 0]
  /\ stolen = [d \in Deliveries |-> FALSE]
  /\ unsure = [d \in Deliveries |-> FALSE]
  /\ crashes = 0

AttemptStep(a) ==
  \/ \E d \in Deliveries : List(a, d)
  \/ Claim(a)
  \/ Deliver(a)
  \/ Complete(a)
  \/ Fail(a)

Next == \/ \E d \in Deliveries : Create(d) \/ AdminRetry(d)
        \/ \E a \in Attempts : AttemptStep(a) \/ Crash(a)
        \/ Tick

(* The worker's timer goes on starting passes, and an attempt comes to an  *)
(* end: the call of the provider has a timeout.                            *)
Spec == Init /\ [][Next]_vars /\ \A a \in Attempts : WF_vars(AttemptStep(a))

-----------------------------------------------------------------------------
(* What the claims of module NotificationDelivery achieve. *)

(* Rows and attempts have their fields; attempts under way are of rows     *)
(* that exist, and attemptCount never passes the limit of the queries.     *)
TypeOK ==
  /\ now \in 0..LastTime
  /\ row \in [Deliveries -> Rows \cup {None}]
  /\ attempt \in [Attempts -> AttemptRows \cup {None}]
  /\ sent \in [Deliveries -> Nat]
  /\ stolen \in [Deliveries -> BOOLEAN] /\ unsure \in [Deliveries -> BOOLEAN]
  /\ crashes \in 0..MaxCrashes

(* However many passes overlap, attempts die and administrators retry, a   *)
(* user gets a notification on a channel at most ClaimLimit times.         *)
SendsBounded == \A d \in Deliveries : sent[d] <= ClaimLimit

UnderWay(d) == {a \in Attempts : /\ attempt[a] # None
                                 /\ attempt[a].delivery = d
                                 /\ attempt[a].stage # "listed"}

(* The claim keeps attempts apart: two of one delivery are never under way *)
(* at once, unless a row in PROCESSING was taken over after StaleAfter or  *)
(* reset by an administrator; until then the row of an attempt under way   *)
(* stays in PROCESSING.                                                    *)
OneAttemptAtATime ==
  \A d \in Deliveries :
    ~stolen[d] => /\ Cardinality(UnderWay(d)) <= 1
                  /\ UnderWay(d) # {} => row[d].status = "PROCESSING"

(* Claims bound and separate the attempts: see SendsBounded and            *)
(* OneAttemptAtATime.                                                      *)
ClaimsHold == SendsBounded /\ OneAttemptAtATime

(* A message reaches a user twice only after an attempt whose success      *)
(* could not be recorded, a take-over, or a retry by an administrator; and *)
(* a delivery that is SENT has reached the user.                           *)
SentOnce ==
  \A d \in Deliveries :
    /\ sent[d] > 1 => stolen[d] \/ unsure[d]
    /\ row[d] # None /\ row[d].status = "SENT" => sent[d] > 0

(* A delivery that is due is attempted, also one whose attempt died: after *)
(* StaleAfter the next pass takes it over.                                 *)
Due(d) == row[d] # None /\ Claimable(row[d], now)

Abandoned(d) ==
  /\ row[d] # None
  /\ row[d].status = "PROCESSING"
  /\ row[d].attempts < ClaimLimit
  /\ row[d].updatedAt < now - StaleAfter

DueIsAttempted ==
  \A d \in Deliveries : Due(d) \/ Abandoned(d) ~> ~(Due(d) \/ Abandoned(d))
=============================================================================
