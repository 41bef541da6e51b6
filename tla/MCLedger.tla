------------------------------ MODULE MCLedger ------------------------------
(* The books of one user (MCLedger.cfg): two wallets, two transactions, one *)
(* transfer; and of two users who may share their wallets                   *)
(* (MCSharedLedger.cfg): two months and a monthly limit.                    *)
EXTENDS Ledger, TLC

Ids == Permutations(Users) \cup Permutations(Wallets) \cup Permutations(Txns)
=============================================================================
