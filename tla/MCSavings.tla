------------------------------ MODULE MCSavings ------------------------------
(* One deposit, one ordinary wallet, two processes that run the worker, one *)
(* request of the owner in flight.                                          *)
EXTENDS SavingsDeposit

CONSTANTS d1, w1, k1, k2, r1

MCWallets  == {w1}
MCDeposits == {d1}
MCWorkers  == {k1, k2}
OneWorker  == {k1}
MCRequests == {r1}
MCAmounts  == {1}
MCRates    == {1}
MCStartDays == {0}

(* Edits of one field. *)
Patch(method, target, rate) == [method |-> method, target |-> target, rate |-> rate]

MCPatches == {Patch(m, None, None) : m \in Methods}
               \cup {Patch(None, t, None) : t \in {w1, "disconnect"}}
               \cup {Patch(None, None, 1)}
=============================================================================
