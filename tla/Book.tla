-------------------------------- MODULE Book --------------------------------
(***************************************************************************)
(* What every component that moves money promises: the README's "balance   *)
(* accounting" and "mutation reversibility" rules, with nothing said about *)
(* transactions, transfers, deposits or debts.                             *)
(*                                                                         *)
(* An entry is a row of the books (a transaction, a transfer).  It has an  *)
(* effect on each wallet.  Recording, editing or deleting the row replaces *)
(* its effect and, in the same step, moves every balance by exactly the    *)
(* difference.  The owner may also declare a balance: when the wallet is   *)
(* created and whenever it is edited by hand.                              *)
(***************************************************************************)
EXTENDS Integers, FiniteSets, FiniteSetsExt

CONSTANTS Wallets,   \* the wallets of the books
          Entries,   \* the rows that may be recorded
          Effects,   \* the effects a row may have: functions Wallets -> Int
          Declared   \* the balances an owner may declare

VARIABLES balance,   \* balance[w]: the stored balance of wallet w
          declared,  \* declared[w]: what the owner's declarations add up to
          entry      \* entry[e]: the effect of row e, NoEffect when it is absent

vars == <<balance, declared, entry>>

NoEffect == [w \in Wallets |-> 0]

Init == /\ balance = NoEffect
        /\ declared = NoEffect
        /\ entry = [e \in Entries |-> NoEffect]

(* Record, edit or delete one row: reverse its old effect, apply the new one. *)
Post(e) ==
  /\ entry' \in {[entry EXCEPT ![e] = effect] : effect \in Effects}
  /\ balance' = [w \in Wallets |-> balance[w] + entry'[e][w] - entry[e][w]]
  /\ UNCHANGED declared

(* The owner states what wallet w holds. *)
Declare(w, b) ==
  /\ balance' = [balance EXCEPT ![w] = b]
  /\ declared' = [declared EXCEPT ![w] = @ + b - balance[w]]
  /\ UNCHANGED entry

Next == \/ \E e \in Entries : Post(e)
        \/ \E w \in Wallets, b \in Declared : Declare(w, b)

Spec == Init /\ [][Next]_vars

-----------------------------------------------------------------------------
TypeOK == /\ balance \in [Wallets -> Int]
          /\ declared \in [Wallets -> Int]
          /\ entry \in [Entries -> [Wallets -> Int]]

(* Balance accounting: at every moment a wallet holds what its owner has   *)
(* declared plus the effects of the rows that exist now.  Rows that were   *)
(* edited or deleted have left no trace in it.                             *)
Conserved ==
  \A w \in Wallets :
    balance[w] = declared[w] + MapThenSumSet(LAMBDA e : entry[e][w], Entries)
=============================================================================
