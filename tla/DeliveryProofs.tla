--------------------------- MODULE DeliveryProofs ---------------------------
(***************************************************************************)
(* Proofs about module NotificationDelivery, for every number of           *)
(* deliveries, attempts and retries, for any times, and for any bounds:    *)
(* MaxCrashes and LastTime are any numbers.                                *)
(***************************************************************************)
EXTENDS NotificationDelivery, FiniteSetTheorems, TLAPS

-----------------------------------------------------------------------------
(* The inductive invariant. *)

Active(a) == attempt[a] # None /\ attempt[a].stage # "listed"

(* Attempts that may still reach the provider. *)
Sending(d) == {a \in Attempts : /\ attempt[a] # None
                                /\ attempt[a].delivery = d
                                /\ attempt[a].stage = "sending"}

(* Attempts are of rows that exist, and before a row nothing was sent. *)
RowsExist ==
  /\ \A a \in Attempts : attempt[a] # None => row[attempt[a].delivery] # None
  /\ \A d \in Deliveries : row[d] = None => sent[d] = 0

(* Every call of the provider, made or to come, was counted by a claim. *)
Counted(d) == row[d] # None => sent[d] + Cardinality(Sending(d)) <= row[d].attempts

(* Of a row nobody took away there is one attempt, and the row says so. *)
Apart(d) ==
  ~stolen[d] =>
    /\ \A a, b \in UnderWay(d) : a = b
    /\ UnderWay(d) # {} => row[d].status = "PROCESSING"

(* Of a delivery whose outcomes are all recorded nothing was sent while    *)
(* another attempt may follow, or before its one attempt has sent it.      *)
Recorded(d) ==
  ~stolen[d] /\ ~unsure[d] =>
    /\ sent[d] <= 1
    /\ row[d] # None /\ row[d].status \in {"PENDING", "FAILED"} => sent[d] = 0
    /\ \A a \in UnderWay(d) : attempt[a].stage # "sent" => sent[d] = 0

(* What is SENT, or about to be, has reached the provider. *)
Reached ==
  /\ \A a \in Attempts :
        attempt[a] # None /\ attempt[a].stage = "sent" => sent[attempt[a].delivery] > 0
  /\ \A d \in Deliveries : row[d] # None /\ row[d].status = "SENT" => sent[d] > 0

IInv ==
  /\ TypeOK /\ RowsExist /\ Reached
  /\ \A d \in Deliveries : Counted(d) /\ Apart(d) /\ Recorded(d)

-----------------------------------------------------------------------------
(* Rows and attempts. *)

LEMMA RowTypes ==
  ASSUME TypeOK
  PROVE  /\ \A d \in Deliveries : row[d] # None => row[d] \in Rows
         /\ \A a \in Attempts : attempt[a] # None => attempt[a] \in AttemptRows
BY DEF TypeOK

(* A number to the power of a number of attempts is a number: it counts    *)
(* the subsets of a set.                                                   *)
LEMMA PowerIsNat == ASSUME NEW n \in Nat PROVE 2 ^ n \in Nat
PROOF
<1>1. IsFiniteSet(1..n) /\ Cardinality(1..n) = n
  BY FS_Interval
<1>2. IsFiniteSet(SUBSET (1..n)) /\ Cardinality(SUBSET (1..n)) = 2 ^ n
  BY <1>1, FS_SUBSET
<1> QED
  BY <1>2, FS_CardinalityType

LEMMA DelayIsNat == ASSUME NEW n \in Nat PROVE RetryDelay(n) \in Nat
PROOF
<1>1. 2 ^ n * BaseDelay \in Nat
  BY PowerIsNat, BoundsAssumption
<1> QED
  BY <1>1, BoundsAssumption DEF RetryDelay, Lesser

LEMMA SendingIsFinite ==
  ASSUME NEW d
  PROVE  /\ IsFiniteSet(Sending(d)) /\ Cardinality(Sending(d)) \in Nat
         /\ IsFiniteSet(Sending(d)') /\ Cardinality(Sending(d)') \in Nat
PROOF
<1>1. Sending(d) \in SUBSET Attempts /\ Sending(d)' \in SUBSET Attempts
  BY DEF Sending
<1>2. IsFiniteSet(Sending(d)) /\ IsFiniteSet(Sending(d)')
  BY <1>1, FS_Subset, AttemptsAssumption
<1> QED
  BY <1>2, FS_CardinalityType

(* A step by which no attempt begins to send. *)
LEMMA SendingShrinks ==
  ASSUME NEW d, Sending(d)' \subseteq Sending(d)
  PROVE  Cardinality(Sending(d)') <= Cardinality(Sending(d))
BY SendingIsFinite, FS_Subset

-----------------------------------------------------------------------------
(* Every action keeps the invariant. *)

LEMMA InitHolds == Init => IInv
PROOF
<1> SUFFICES ASSUME Init PROVE IInv
  OBVIOUS
<1>1. TypeOK
  BY BoundsAssumption DEF Init, TypeOK
<1>2. \A d \in Deliveries : Apart(d) /\ Recorded(d) /\ Counted(d)
  BY DEF Init, Apart, Recorded, Counted, UnderWay
<1>3. RowsExist /\ Reached
  BY DEF Init, RowsExist, Reached
<1> QED
  BY <1>1, <1>2, <1>3 DEF IInv

LEMMA CreateHolds == ASSUME IInv, NEW d \in Deliveries, Create(d) PROVE IInv'
PROOF
<1> USE NoneAssumption, RowTypes
<1>1. [status |-> "PENDING", attempts |-> 0, nextAttemptAt |-> now, updatedAt |-> now] \in Rows
  BY BoundsAssumption DEF IInv, TypeOK, Rows, Statuses
<1>2. TypeOK'
  BY <1>1 DEF IInv, TypeOK, Create
<1>3. UnderWay(d) = {} /\ sent[d] = 0 /\ Sending(d) = {}
  BY DEF IInv, RowsExist, UnderWay, Sending, Create
<1>4. \A e \in Deliveries : UnderWay(e)' = UnderWay(e) /\ Sending(e)' = Sending(e)
  BY DEF Create, UnderWay, Sending
<1>5. Cardinality(Sending(d)') = 0 /\ row'[d].attempts = 0 /\ sent'[d] = 0
  BY <1>3, <1>4, FS_EmptySet DEF IInv, Create, TypeOK
<1>6. Counted(d)' /\ Apart(d)' /\ Recorded(d)'
  BY <1>3, <1>4, <1>5 DEF Counted, Apart, Recorded
<1>7. \A e \in Deliveries \ {d} : Counted(e)' /\ Apart(e)' /\ Recorded(e)'
  BY <1>4 DEF IInv, Counted, Apart, Recorded, Create, TypeOK
<1>8. RowsExist' /\ Reached'
  BY <1>1, <1>3 DEF IInv, RowsExist, Reached, Create, TypeOK
<1> QED
  BY <1>2, <1>6, <1>7, <1>8 DEF IInv

(* A step of attempt a, which stays with its delivery, keeps what is known *)
(* of another delivery, if it writes only its own.                         *)
LEMMA OthersHold ==
  ASSUME IInv, NEW a \in Attempts, attempt[a] # None,
         \A b \in Attempts \ {a} : attempt'[b] = attempt[b],
         attempt'[a] # None => attempt'[a].delivery = attempt[a].delivery,
         NEW e \in Deliveries, e # attempt[a].delivery,
         row'[e] = row[e], sent'[e] = sent[e], stolen'[e] = stolen[e],
         unsure'[e] = unsure[e]
  PROVE  Counted(e)' /\ Apart(e)' /\ Recorded(e)'
PROOF
<1>1. UnderWay(e)' = UnderWay(e) /\ Sending(e)' = Sending(e)
  BY DEF UnderWay, Sending
<1>2. \A b \in UnderWay(e) : attempt'[b] = attempt[b]
  BY DEF UnderWay
<1>3. Counted(e) /\ Apart(e) /\ Recorded(e)
  BY DEF IInv
<1>4. Counted(e)'
  BY <1>1, <1>3 DEF Counted
<1>5. Apart(e)'
  BY <1>1, <1>3 DEF Apart
<1>6. Recorded(e)'
  BY <1>1, <1>2, <1>3 DEF Recorded
<1> QED
  BY <1>4, <1>5, <1>6

(* A step of attempt a by which it ends.                                   *)
LEMMA EndedIsGone ==
  ASSUME TypeOK, NEW a \in Attempts, attempt' = [attempt EXCEPT ![a] = None], NEW d
  PROVE  UnderWay(d)' = UnderWay(d) \ {a} /\ Sending(d)' = Sending(d) \ {a}
BY DEF TypeOK, UnderWay, Sending

LEMMA ListHolds ==
  ASSUME IInv, NEW a \in Attempts, NEW d \in Deliveries, List(a, d) PROVE IInv'
PROOF
<1> DEFINE item == [delivery |-> d, time |-> now, stage |-> "listed", number |-> 0]
<1>1. item \in AttemptRows
  BY BoundsAssumption DEF IInv, TypeOK, AttemptRows, Stages
<1>2. TypeOK'
  BY <1>1 DEF IInv, TypeOK, List
<1>3. attempt'[a] = item /\ \A b \in Attempts \ {a} : attempt'[b] = attempt[b]
  BY DEF IInv, TypeOK, List
<1>4. \A e \in Deliveries : UnderWay(e)' = UnderWay(e) /\ Sending(e)' = Sending(e)
  BY <1>3 DEF List, UnderWay, Sending
<1>5. \A e \in Deliveries : \A b \in UnderWay(e) : attempt'[b] = attempt[b]
  BY <1>3 DEF UnderWay, List
<1>6. \A e \in Deliveries : Counted(e)' /\ Apart(e)' /\ Recorded(e)'
  <2> SUFFICES ASSUME NEW e \in Deliveries PROVE Counted(e)' /\ Apart(e)' /\ Recorded(e)'
    OBVIOUS
  <2>1. Counted(e)'
    BY <1>4 DEF IInv, Counted, List
  <2>2. Apart(e)'
    BY <1>4 DEF IInv, Apart, List
  <2>3. Recorded(e)'
    BY <1>4, <1>5 DEF IInv, Recorded, List
  <2> QED
    BY <2>1, <2>2, <2>3
<1>7. RowsExist' /\ Reached'
  BY <1>3 DEF IInv, RowsExist, Reached, List
<1> QED
  BY <1>2, <1>6, <1>7 DEF IInv

(* An attempt ends and leaves the rows as they are. *)
LEMMA EndHolds ==
  ASSUME IInv, NEW a \in Attempts, attempt[a] # None,
         attempt' = [attempt EXCEPT ![a] = None],
         UNCHANGED <<now, row, sent, stolen>>,
         unsure' \in [Deliveries -> BOOLEAN], crashes' \in 0..MaxCrashes,
         \A e \in Deliveries : unsure[e] => unsure'[e]
  PROVE  IInv'
PROOF
<1>1. TypeOK'
  BY DEF IInv, TypeOK
<1>2. attempt'[a] = None /\ \A b \in Attempts \ {a} : attempt'[b] = attempt[b]
  BY DEF IInv, TypeOK
<1>3. ASSUME NEW e \in Deliveries PROVE Counted(e)' /\ Apart(e)' /\ Recorded(e)'
  <2>1. UnderWay(e)' = UnderWay(e) \ {a} /\ Sending(e)' = Sending(e) \ {a}
    BY EndedIsGone DEF IInv
  <2>2. Cardinality(Sending(e)') <= Cardinality(Sending(e))
    BY <2>1, SendingShrinks
  <2>3. Counted(e)'
    <3>1. row[e] # None => row[e].attempts \in Nat /\ sent[e] \in Nat
      BY RowTypes, BoundsAssumption DEF IInv, TypeOK, Rows
    <3> QED
      BY <2>2, <3>1, SendingIsFinite DEF IInv, Counted
  <2>4. Apart(e)'
    BY <2>1 DEF IInv, Apart
  <2>5. \A b \in UnderWay(e)' : attempt'[b] = attempt[b]
    BY <1>2, <2>1 DEF UnderWay
  <2>6. Recorded(e)'
    BY <2>1, <2>5 DEF IInv, Recorded
  <2> QED
    BY <2>3, <2>4, <2>6
<1>4. RowsExist' /\ Reached'
  BY <1>2 DEF IInv, RowsExist, Reached
<1> QED
  BY <1>1, <1>3, <1>4 DEF IInv

LEMMA ClaimHolds == ASSUME IInv, NEW a \in Attempts, Claim(a) PROVE IInv'
PROOF
<1>1. attempt[a] # None /\ attempt[a] \in AttemptRows
  BY RowTypes DEF IInv, Claim
<1>2. PICK d \in Deliveries : d = attempt[a].delivery
  BY <1>1 DEF AttemptRows
<1>3. row[d] # None /\ row[d] \in Rows
  BY <1>1, <1>2, RowTypes DEF IInv, RowsExist
<1>4. CASE Claimable(row[d], attempt[a].time)
  <2> DEFINE claimed == [row[d] EXCEPT !.status = "PROCESSING", !.attempts = @ + 1,
                                       !.updatedAt = now]
             item    == [attempt[a] EXCEPT !.stage = "sending",
                                           !.number = row[d].attempts + 1]
  <2>1. /\ row' = [row EXCEPT ![d] = claimed]
        /\ attempt' = [attempt EXCEPT ![a] = item]
        /\ stolen' = [stolen EXCEPT ![d] = @ \/ Stale(row[d], attempt[a].time)]
        /\ UNCHANGED <<now, sent, unsure, crashes>>
    BY <1>2, <1>4 DEF Claim, IInv, TypeOK
  <2>2. row[d].attempts + 1 \in 0..ClaimLimit
    BY <1>3, <1>4, BoundsAssumption DEF Claimable, Rows
  <2>3. claimed \in Rows
    BY <1>3, <2>2 DEF IInv, TypeOK, Rows, Statuses
  <2>4. item \in AttemptRows
    BY <1>1, <2>2 DEF AttemptRows, Stages
  <2>5. TypeOK'
    BY <2>1, <2>3, <2>4 DEF IInv, TypeOK, Stale
  <2>6. row'[d] = claimed /\ \A e \in Deliveries \ {d} : row'[e] = row[e]
    BY <2>1 DEF IInv, TypeOK
  <2>7. attempt'[a] = item /\ \A b \in Attempts \ {a} : attempt'[b] = attempt[b]
    BY <2>1 DEF IInv, TypeOK
  <2>8. /\ claimed # None /\ claimed.status = "PROCESSING"
        /\ claimed.attempts = row[d].attempts + 1
    BY <1>3, <2>3, NoneAssumption DEF Rows
  <2>9. item # None /\ item.delivery = d /\ item.stage = "sending"
    BY <1>1, <1>2, <2>4, NoneAssumption DEF AttemptRows
  <2> HIDE DEF claimed, item
  <2>10. /\ UnderWay(d)' = UnderWay(d) \cup {a} /\ Sending(d)' = Sending(d) \cup {a}
         /\ a \notin UnderWay(d) /\ a \notin Sending(d)
    BY <2>7, <2>9 DEF UnderWay, Sending, Claim
  <2>11. Cardinality(Sending(d)') = Cardinality(Sending(d)) + 1
    BY <2>10, SendingIsFinite, FS_AddElement
  <2>12. Counted(d)'
    <3>1. sent[d] + Cardinality(Sending(d)) <= row[d].attempts
      BY <1>3 DEF IInv, Counted
    <3> QED
      BY <1>3, <2>1, <2>6, <2>8, <2>11, <3>1, SendingIsFinite DEF Counted, IInv, TypeOK, Rows
  <2>13. ASSUME ~stolen'[d]
         PROVE  ~stolen[d] /\ row[d].status \in {"PENDING", "FAILED"} /\ UnderWay(d) = {}
    <3>1. ~stolen[d] /\ ~Stale(row[d], attempt[a].time)
      BY <2>1, <2>13 DEF IInv, TypeOK
    <3>2. row[d].status \in {"PENDING", "FAILED"}
      BY <1>4, <3>1 DEF Claimable
    <3> QED
      BY <3>1, <3>2 DEF IInv, Apart
  <2>14. Apart(d)'
    BY <2>6, <2>8, <2>10, <2>13 DEF Apart
  <2>15. Recorded(d)'
    <3> SUFFICES ASSUME ~stolen'[d], ~unsure'[d]
                 PROVE  sent'[d] = 0
      BY DEF Recorded
    <3> QED
      BY <1>3, <2>1, <2>13 DEF IInv, Recorded
  <2>16. ASSUME NEW e \in Deliveries, e # d
         PROVE  Counted(e)' /\ Apart(e)' /\ Recorded(e)'
    <3>1. stolen'[e] = stolen[e]
      BY <2>1, <2>16 DEF IInv, TypeOK
    <3> QED
      BY <1>1, <1>2, <2>1, <2>6, <2>7, <2>9, <2>16, <3>1, OthersHold
  <2>17. RowsExist' /\ Reached'
    BY <1>3, <2>1, <2>6, <2>7, <2>8, <2>9 DEF IInv, RowsExist, Reached
  <2> QED
    BY <2>5, <2>12, <2>14, <2>15, <2>16, <2>17 DEF IInv
<1>5. CASE ~Claimable(row[d], attempt[a].time)
  <2>1. attempt' = [attempt EXCEPT ![a] = None]
        /\ UNCHANGED <<now, row, sent, stolen, unsure, crashes>>
    BY <1>2, <1>5 DEF Claim
  <2> QED
    BY <1>1, <2>1, EndHolds DEF IInv, TypeOK
<1> QED
  BY <1>4, <1>5

LEMMA CrashHolds == ASSUME IInv, NEW a \in Attempts, Crash(a) PROVE IInv'
PROOF
<1>1. attempt[a].delivery \in Deliveries
  BY RowTypes DEF IInv, Crash, AttemptRows
<1>2. /\ unsure' \in [Deliveries -> BOOLEAN]
      /\ \A e \in Deliveries : unsure[e] => unsure'[e]
  BY <1>1 DEF Crash, IInv, TypeOK
<1>3. crashes' \in 0..MaxCrashes
  BY BoundsAssumption DEF Crash, IInv, TypeOK
<1> QED
  BY <1>2, <1>3, EndHolds DEF Crash

LEMMA DeliverHolds == ASSUME IInv, NEW a \in Attempts, Deliver(a) PROVE IInv'
PROOF
<1>1. attempt[a] # None /\ attempt[a] \in AttemptRows /\ attempt[a].stage = "sending"
  BY RowTypes DEF IInv, Deliver
<1>2. PICK d \in Deliveries : d = attempt[a].delivery
  BY <1>1 DEF AttemptRows
<1>3. row[d] # None /\ row[d] \in Rows
  BY <1>1, <1>2, RowTypes DEF IInv, RowsExist
<1>4. PICK stage \in {"skipped", "sent", "error"}, reached \in BOOLEAN :
        /\ stage = "sent" => reached
        /\ stage = "skipped" => ~reached
        /\ attempt' = [attempt EXCEPT ![a] = [attempt[a] EXCEPT !.stage = stage]]
        /\ sent' = [sent EXCEPT ![d] = IF reached THEN @ + 1 ELSE @]
        /\ unsure' = [unsure EXCEPT ![d] = @ \/ (reached /\ stage = "error")]
        /\ UNCHANGED <<now, row, stolen, crashes>>
  BY <1>2 DEF Deliver, IInv, TypeOK
<1> DEFINE item == [attempt[a] EXCEPT !.stage = stage]
<1>5. item \in AttemptRows
  BY <1>1 DEF AttemptRows, Stages
<1>6. TypeOK'
  BY <1>4, <1>5 DEF IInv, TypeOK
<1>7. attempt'[a] = item /\ \A b \in Attempts \ {a} : attempt'[b] = attempt[b]
  BY <1>4 DEF IInv, TypeOK
<1>8. item # None /\ item.delivery = d /\ item.stage = stage
  BY <1>1, <1>2, <1>5, NoneAssumption DEF AttemptRows
<1> HIDE DEF item
<1>9. /\ UnderWay(d)' = UnderWay(d) /\ a \in UnderWay(d)
      /\ Sending(d)' = Sending(d) \ {a} /\ a \in Sending(d)
  BY <1>1, <1>2, <1>7, <1>8 DEF UnderWay, Sending
<1>10. Cardinality(Sending(d)') = Cardinality(Sending(d)) - 1
  BY <1>9, SendingIsFinite, FS_RemoveElement
<1>11. sent[d] \in Nat /\ sent'[d] = (IF reached THEN sent[d] + 1 ELSE sent[d])
  BY <1>4 DEF IInv, TypeOK
<1>12. Counted(d)'
  <2>1. sent[d] + Cardinality(Sending(d)) <= row[d].attempts
    BY <1>3 DEF IInv, Counted
  <2> QED
    BY <1>3, <1>4, <1>10, <1>11, <2>1, SendingIsFinite DEF Counted, Rows
<1>13. Apart(d)'
  BY <1>4, <1>9 DEF IInv, Apart
<1>14. Recorded(d)'
  <2> SUFFICES ASSUME ~stolen'[d], ~unsure'[d]
               PROVE  /\ sent'[d] <= 1
                      /\ row'[d].status = "PROCESSING"
                      /\ \A b \in UnderWay(d)' : attempt'[b].stage # "sent" => sent'[d] = 0
    BY DEF Recorded
  <2>1. ~stolen[d] /\ ~unsure[d] /\ (reached => stage = "sent")
    BY <1>4 DEF IInv, TypeOK
  <2>2. row[d].status = "PROCESSING" /\ \A b \in UnderWay(d) : b = a
    BY <1>9, <2>1 DEF IInv, Apart
  <2>3. sent[d] = 0
    BY <1>1, <1>9, <2>1 DEF IInv, Recorded
  <2> QED
    BY <1>4, <1>7, <1>8, <1>9, <1>11, <2>1, <2>2, <2>3
<1>15. ASSUME NEW e \in Deliveries, e # d
       PROVE  Counted(e)' /\ Apart(e)' /\ Recorded(e)'
  <2>1. sent'[e] = sent[e] /\ unsure'[e] = unsure[e]
    BY <1>4, <1>15 DEF IInv, TypeOK
  <2> QED
    BY <1>1, <1>2, <1>4, <1>7, <1>8, <1>15, <2>1, OthersHold
<1>16. RowsExist'
  BY <1>3, <1>4, <1>7, <1>8 DEF IInv, RowsExist, TypeOK
<1>17. Reached'
  <2>1. \A e \in Deliveries : sent[e] > 0 => sent'[e] > 0
    BY <1>4 DEF IInv, TypeOK
  <2>2. \A b \in Attempts : attempt[b] # None => attempt[b].delivery \in Deliveries
    BY RowTypes DEF IInv, AttemptRows
  <2>3. stage = "sent" => sent'[d] > 0
    BY <1>4, <1>11
  <2> QED
    BY <1>4, <1>7, <1>8, <2>1, <2>2, <2>3 DEF IInv, Reached
<1> QED
  BY <1>6, <1>12, <1>13, <1>14, <1>15, <1>16, <1>17 DEF IInv

(* An attempt ends and writes the status of its row, with what was sent.   *)
Writes(a, d, r) ==
  /\ attempt[a] # None /\ Active(a) /\ d = attempt[a].delivery
  /\ r.attempts = row[d].attempts /\ r.status \in {"SENT", "SKIPPED", "FAILED"}
  /\ r.status = "FAILED" => attempt[a].stage # "sent"
  /\ r.status = "SENT" => attempt[a].stage = "sent"
  /\ row' = [row EXCEPT ![d] = r] /\ attempt' = [attempt EXCEPT ![a] = None]
  /\ UNCHANGED <<now, sent, stolen, unsure, crashes>>

LEMMA WriteHolds ==
  ASSUME IInv, NEW a \in Attempts, NEW d \in Deliveries, NEW r \in Rows, Writes(a, d, r)
  PROVE  IInv'
PROOF
<1> USE DEF Writes
<1>1. TypeOK'
  BY DEF IInv, TypeOK
<1>2. attempt'[a] = None /\ \A b \in Attempts \ {a} : attempt'[b] = attempt[b]
  BY DEF IInv, TypeOK
<1>3. row'[d] = r /\ (\A e \in Deliveries \ {d} : row'[e] = row[e]) /\ r # None /\ row[d] # None
  BY NoneAssumption DEF IInv, TypeOK, RowsExist
<1>4. UnderWay(d)' = UnderWay(d) \ {a} /\ Sending(d)' = Sending(d) \ {a} /\ a \in UnderWay(d)
  <2>1. a \in UnderWay(d)
    BY DEF UnderWay, Active
  <2> QED
    BY <2>1, EndedIsGone DEF IInv
<1>5. Counted(d)'
  <2>1. Cardinality(Sending(d)') <= Cardinality(Sending(d))
    BY <1>4, SendingShrinks
  <2>2. sent[d] + Cardinality(Sending(d)) <= row[d].attempts
    BY <1>3 DEF IInv, Counted
  <2>3. r.attempts \in Nat /\ sent[d] \in Nat
    BY BoundsAssumption DEF IInv, TypeOK, Rows
  <2> QED
    BY <1>3, <2>1, <2>2, <2>3, SendingIsFinite DEF Counted
<1>6. ~stolen[d] => UnderWay(d)' = {}
  BY <1>4 DEF IInv, Apart
<1>7. Apart(d)'
  BY <1>6 DEF Apart
<1>8. Recorded(d)'
  <2> SUFFICES ASSUME ~stolen'[d], ~unsure'[d]
               PROVE  sent'[d] <= 1 /\ (r.status = "FAILED" => sent'[d] = 0)
    BY <1>3, <1>6 DEF Recorded
  <2> QED
    BY <1>4 DEF IInv, Recorded
<1>9. ASSUME NEW e \in Deliveries, e # d
      PROVE  Counted(e)' /\ Apart(e)' /\ Recorded(e)'
  BY <1>2, <1>3, <1>9, OthersHold
<1>10. RowsExist'
  BY <1>2, <1>3 DEF IInv, RowsExist
<1>11. Reached'
  <2>1. r.status = "SENT" => sent[d] > 0
    BY DEF IInv, Reached
  <2> QED
    BY <1>2, <1>3, <2>1 DEF IInv, Reached
<1> QED
  BY <1>1, <1>5, <1>7, <1>8, <1>9, <1>10, <1>11 DEF IInv

LEMMA CompleteHolds == ASSUME IInv, NEW a \in Attempts, Complete(a) PROVE IInv'
PROOF
<1>1. /\ attempt[a] # None /\ attempt[a] \in AttemptRows /\ Active(a)
      /\ attempt[a].stage \in {"sent", "skipped"}
  BY RowTypes DEF IInv, Complete, Active
<1>2. PICK d \in Deliveries : d = attempt[a].delivery
  BY <1>1 DEF AttemptRows
<1>3. row[d] # None /\ row[d] \in Rows
  BY <1>1, <1>2, RowTypes DEF IInv, RowsExist
<1>4. CASE attempt' = [attempt EXCEPT ![a] = None] /\ UNCHANGED unsure
           /\ row' = [row EXCEPT ![d].status = Outcome(attempt[a].stage), ![d].updatedAt = now]
  <2> DEFINE r == [row[d] EXCEPT !.status = Outcome(attempt[a].stage), !.updatedAt = now]
  <2>1. Outcome(attempt[a].stage) = (IF attempt[a].stage = "skipped" THEN "SKIPPED" ELSE "SENT")
    BY DEF Outcome
  <2>2. r \in Rows
    BY <1>3, <2>1 DEF Rows, Statuses, IInv, TypeOK
  <2>3. r.attempts = row[d].attempts /\ r.status = Outcome(attempt[a].stage)
    BY <1>3 DEF Rows
  <2>4. row' = [row EXCEPT ![d] = r]
    BY <1>4 DEF IInv, TypeOK
  <2> HIDE DEF r
  <2> QED
    <3>1. /\ r.status \in {"SENT", "SKIPPED", "FAILED"} /\ r.status # "FAILED"
          /\ r.status = "SENT" => attempt[a].stage = "sent"
      BY <1>1, <2>1, <2>3
    <3>2. UNCHANGED <<now, sent, stolen, unsure, crashes>>
      BY <1>4 DEF Complete
    <3>3. Writes(a, d, r)
      BY <1>1, <1>2, <1>4, <2>3, <2>4, <3>1, <3>2 DEF Writes
    <3> QED
      BY <2>2, <3>3, WriteHolds
<1>5. CASE /\ attempt' = [attempt EXCEPT ![a].stage = "error"] /\ UNCHANGED row
           /\ unsure' = [unsure EXCEPT ![d] = @ \/ attempt[a].stage = "sent"]
  <2> DEFINE item == [attempt[a] EXCEPT !.stage = "error"]
  <2>1. item \in AttemptRows
    BY <1>1 DEF AttemptRows, Stages
  <2>2. attempt' = [attempt EXCEPT ![a] = item]
    BY <1>5 DEF IInv, TypeOK
  <2>3. UNCHANGED <<now, row, sent, stolen, crashes>>
    BY <1>5 DEF Complete
  <2>4. TypeOK'
    BY <1>5, <2>1, <2>2, <2>3 DEF IInv, TypeOK
  <2>5. attempt'[a] = item /\ \A b \in Attempts \ {a} : attempt'[b] = attempt[b]
    BY <2>2 DEF IInv, TypeOK
  <2>6. item # None /\ item.delivery = d /\ item.stage = "error"
    BY <1>1, <1>2, <2>1, NoneAssumption DEF AttemptRows
  <2> HIDE DEF item
  <2>7. UnderWay(d)' = UnderWay(d) /\ Sending(d)' = Sending(d)
    BY <1>1, <1>2, <2>5, <2>6 DEF UnderWay, Sending
  <2>8. Counted(d)' /\ Apart(d)'
    BY <2>3, <2>7 DEF IInv, Counted, Apart
  <2>9. Recorded(d)'
    <3> SUFFICES ASSUME ~stolen'[d], ~unsure'[d]
                 PROVE  ~stolen[d] /\ ~unsure[d] /\ sent'[d] = 0
      BY <2>3 DEF Recorded
    <3>1. ~stolen[d] /\ ~unsure[d] /\ attempt[a].stage # "sent"
      BY <1>5, <2>3 DEF IInv, TypeOK
    <3>2. a \in UnderWay(d)
      BY <1>1, <1>2 DEF UnderWay
    <3> QED
      BY <2>3, <3>1, <3>2 DEF IInv, Recorded
  <2>10. ASSUME NEW e \in Deliveries, e # d
         PROVE  Counted(e)' /\ Apart(e)' /\ Recorded(e)'
    <3>1. unsure'[e] = unsure[e]
      BY <1>5, <2>10 DEF IInv, TypeOK
    <3> QED
      BY <1>1, <1>2, <2>3, <2>5, <2>6, <2>10, <3>1, OthersHold
  <2>11. RowsExist' /\ Reached'
    BY <1>3, <2>3, <2>5, <2>6 DEF IInv, RowsExist, Reached
  <2> QED
    BY <2>4, <2>8, <2>9, <2>10, <2>11 DEF IInv
<1> QED
  BY <1>2, <1>4, <1>5 DEF Complete

LEMMA FailHolds == ASSUME IInv, NEW a \in Attempts, Fail(a) PROVE IInv'
PROOF
<1>1. /\ attempt[a] # None /\ attempt[a] \in AttemptRows /\ Active(a)
      /\ attempt[a].stage = "error"
  BY RowTypes DEF IInv, Fail, Active
<1>2. PICK d \in Deliveries : d = attempt[a].delivery
  BY <1>1 DEF AttemptRows
<1>3. row[d] # None /\ row[d] \in Rows
  BY <1>1, <1>2, RowTypes DEF IInv, RowsExist
<1> DEFINE next == IF attempt[a].number >= MaxAttempts THEN row[d].nextAttemptAt
                   ELSE now + RetryDelay(attempt[a].number)
           r == [row[d] EXCEPT !.status = "FAILED", !.updatedAt = now, !.nextAttemptAt = next]
<1>4. row' = [row EXCEPT ![d] = r]
  BY <1>2 DEF Fail, IInv, TypeOK
<1>5. next \in Nat
  <2>1. attempt[a].number \in Nat /\ now \in Nat /\ row[d].nextAttemptAt \in Nat
    BY <1>1, <1>3, BoundsAssumption DEF AttemptRows, Rows, IInv, TypeOK
  <2>2. RetryDelay(attempt[a].number) \in Nat
    BY <2>1, DelayIsNat
  <2> QED
    BY <2>1, <2>2
<1> HIDE DEF next
<1>6. r \in Rows
  BY <1>3, <1>5 DEF Rows, Statuses, IInv, TypeOK
<1>7. r.attempts = row[d].attempts /\ r.status = "FAILED"
  BY <1>3 DEF Rows
<1> HIDE DEF r
<1>8. Writes(a, d, r)
  BY <1>1, <1>2, <1>4, <1>7 DEF Fail, Writes
<1> QED
  BY <1>6, <1>8, WriteHolds

LEMMA AdminRetryHolds == ASSUME IInv, NEW d \in Deliveries, AdminRetry(d) PROVE IInv'
PROOF
<1>1. row[d] # None /\ row[d] \in Rows
  BY RowTypes DEF IInv, AdminRetry
<1> DEFINE r == [row[d] EXCEPT !.status = "PENDING", !.nextAttemptAt = now, !.updatedAt = now]
<1>2. row' = [row EXCEPT ![d] = r]
  BY DEF AdminRetry, IInv, TypeOK
<1>3. r \in Rows /\ r # None
  <2>1. now \in Nat /\ now \in 0..LastTime
    BY BoundsAssumption DEF IInv, TypeOK
  <2>2. r \in Rows
    BY <1>1, <2>1 DEF Rows, Statuses
  <2> QED
    BY <2>2, NoneAssumption
<1>4. r.attempts = row[d].attempts /\ r.status = "PENDING"
  BY <1>1 DEF Rows
<1> HIDE DEF r
<1>5. row'[d] = r /\ \A e \in Deliveries \ {d} : row'[e] = row[e]
  BY <1>2 DEF IInv, TypeOK
<1>6. TypeOK'
  BY <1>2, <1>3, ZenonT(40) DEF AdminRetry, IInv, TypeOK
<1>7. \A e : UnderWay(e)' = UnderWay(e) /\ Sending(e)' = Sending(e)
  BY DEF AdminRetry, UnderWay, Sending
<1>8. ASSUME NEW e \in Deliveries PROVE Counted(e)' /\ Apart(e)' /\ Recorded(e)'
  <2>1. Counted(e)'
    BY <1>1, <1>4, <1>5, <1>7 DEF IInv, Counted, AdminRetry
  <2>2. stolen'[e] = (stolen[e] \/ (e = d /\ row[d].status = "PROCESSING"))
    BY DEF AdminRetry, IInv, TypeOK
  <2>3. Apart(e)'
    BY <1>5, <1>7, <2>2 DEF IInv, Apart
  <2>4. unsure'[d] = TRUE /\ (e # d => unsure'[e] = unsure[e])
    BY DEF AdminRetry, IInv, TypeOK
  <2>5. Recorded(e)'
    BY <1>5, <1>7, <2>2, <2>4 DEF IInv, Recorded, AdminRetry
  <2> QED
    BY <2>1, <2>3, <2>5
<1>9. RowsExist'
  <2>1. \A e \in Deliveries : row'[e] = None <=> row[e] = None
    BY <1>1, <1>3, <1>5
  <2>2. \A b \in Attempts : attempt[b] # None => attempt[b].delivery \in Deliveries
    BY RowTypes DEF IInv, AttemptRows
  <2> QED
    BY <2>1, <2>2 DEF IInv, RowsExist, AdminRetry
<1>10. Reached'
  BY <1>4, <1>5 DEF IInv, Reached, AdminRetry
<1> QED
  BY <1>6, <1>8, <1>9, <1>10 DEF IInv

LEMMA NothingHolds ==
  ASSUME IInv, now' \in 0..LastTime, UNCHANGED <<row, attempt, sent, stolen, unsure, crashes>>
  PROVE  IInv'
PROOF
<1>1. TypeOK' /\ RowsExist' /\ Reached'
  BY DEF IInv, TypeOK, RowsExist, Reached
<1>2. \A e \in Deliveries : UnderWay(e)' = UnderWay(e) /\ Sending(e)' = Sending(e)
  BY DEF UnderWay, Sending
<1>3. \A e \in Deliveries : Counted(e)' /\ Apart(e)' /\ Recorded(e)'
  BY <1>2 DEF IInv, Counted, Apart, Recorded
<1> QED
  BY <1>1, <1>3 DEF IInv

LEMMA StepHolds == IInv /\ [Next]_vars => IInv'
PROOF
<1> SUFFICES ASSUME IInv, [Next]_vars PROVE IInv'
  OBVIOUS
<1>1. CASE UNCHANGED vars
  BY <1>1, NothingHolds DEF vars, IInv, TypeOK
<1>2. CASE Tick
  <2>1. now' \in 0..LastTime
    BY <1>2, BoundsAssumption DEF Tick, IInv, TypeOK
  <2> QED
    BY <1>2, <2>1, NothingHolds DEF Tick
<1>3. CASE \E d \in Deliveries : Create(d) \/ AdminRetry(d)
  BY <1>3, CreateHolds, AdminRetryHolds
<1>4. CASE \E a \in Attempts : AttemptStep(a) \/ Crash(a)
  BY <1>4, ListHolds, ClaimHolds, DeliverHolds, CompleteHolds, FailHolds, CrashHolds
     DEF AttemptStep
<1> QED
  BY <1>1, <1>2, <1>3, <1>4 DEF Next

LEMMA Inductive == Spec => []IInv
BY InitHolds, StepHolds, PTL DEF Spec

-----------------------------------------------------------------------------
(* Rows and attempts keep their types, and attemptCount the limit of the   *)
(* queries (findDueDeliveries, claimDelivery).                             *)
THEOREM TypeCorrect == Spec => []TypeOK
PROOF
<1>1. IInv => TypeOK
  BY DEF IInv
<1> QED
  BY Inductive, <1>1, PTL

(* However many passes overlap, attempts die and administrators retry, no  *)
(* delivery reaches the provider more than ClaimLimit times, and of one    *)
(* that nobody took over there is never more than one attempt under way:   *)
(* every call of the provider was counted by a claim before it.            *)
THEOREM Claims == Spec => []ClaimsHold
PROOF
<1>1. ASSUME IInv PROVE ClaimsHold
  <2>1. ASSUME NEW d \in Deliveries PROVE sent[d] <= ClaimLimit
    <3>1. row[d] # None => row[d].attempts \in 0..ClaimLimit
      BY <1>1, RowTypes DEF IInv, Rows
    <3> QED
      BY <1>1, <3>1, SendingIsFinite, BoundsAssumption
         DEF IInv, TypeOK, Counted, RowsExist
  <2>2. ASSUME NEW d \in Deliveries, ~stolen[d]
        PROVE  Cardinality(UnderWay(d)) <= 1
    <3>1. \A a, b \in UnderWay(d) : a = b
      BY <1>1, <2>2 DEF IInv, Apart
    <3>2. UnderWay(d) = {} \/ \E a : UnderWay(d) = {a}
      BY <3>1
    <3>3. Cardinality(UnderWay(d)) \in {0, 1}
      BY <3>2, FS_EmptySet, FS_Singleton
    <3> QED
      BY <3>3
  <2> QED
    BY <1>1, <2>1, <2>2 DEF ClaimsHold, SendsBounded, OneAttemptAtATime, IInv, Apart
<1> QED
  BY Inductive, <1>1, PTL

(* A user gets a message twice only after an outcome that could not be     *)
(* recorded, a take-over or a retry by an administrator, and what is SENT  *)
(* has reached the user (completeDelivery, claimDelivery).                 *)
THEOREM SentOnceHolds == Spec => []SentOnce
PROOF
<1>1. ASSUME IInv PROVE SentOnce
  <2>1. \A d \in Deliveries : sent[d] \in Nat
    BY <1>1 DEF IInv, TypeOK
  <2> QED
    BY <1>1, <2>1 DEF IInv, SentOnce, Recorded, Reached
<1> QED
  BY Inductive, <1>1, PTL
=============================================================================
