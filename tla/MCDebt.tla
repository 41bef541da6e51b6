-------------------------------- MODULE MCDebt --------------------------------
(* A loan taken or given over two or three months, whose principal the     *)
(* months do not divide evenly.                                            *)
EXTENDS DebtContract

Loan(type, method, principal, rate, months) ==
  [type |-> type, method |-> method, principal |-> principal, rate |-> rate,
   months |-> months]

MCLoans == {Loan("DEBT_PAYABLE", method, 5, 1, 2) : method \in AmortizationMethods}
             \cup {Loan("LOAN_RECEIVABLE", "FIXED_ANNUITY", 4, 1, 3)}

ShortLoans == {Loan("DEBT_PAYABLE", "REDUCING_BALANCE", 3, 1, 2)}
=============================================================================
