---------------------------- MODULE LeaveAccount ----------------------------
(***************************************************************************)
(* What the leave module promises, with every operation one atomic step:  *)
(* a submitted request is PENDING until it is approved, rejected or        *)
(* cancelled once and for all, and an approval checks the account and      *)
(* debits it in the same step.  LeaveTx, the transactions the code runs,   *)
(* is shown to implement this module.                                      *)
(***************************************************************************)
EXTENDS Integers

CONSTANTS Requests,       \* submissions of POST /leave/me/requests
          Accounts,       \* (employee, leave type, leave year) balances
          AcctOf,         \* [Requests -> Accounts]
          Requested,      \* [Requests -> Nat], in half days
          AllowNegative   \* accounts whose type has allow_negative_balance

VARIABLES status, balance

vars == <<status, balance>>

\* requested_days > balance is refused unless the type allows a negative balance.
Affordable(r) == Requested[r] <= balance[AcctOf[r]] \/ AcctOf[r] \in AllowNegative

Init ==
  /\ status = [r \in Requests |-> "NONE"]
  /\ balance = [a \in Accounts |-> 0]

Submit(r) ==
  /\ status[r] = "NONE"
  /\ status' = [status EXCEPT ![r] = "PENDING"]
  /\ UNCHANGED balance

Approve(r) ==
  /\ status[r] = "PENDING"
  /\ Affordable(r)
  /\ status' = [status EXCEPT ![r] = "APPROVED"]
  /\ balance' = [balance EXCEPT ![AcctOf[r]] = @ - Requested[r]]

Close(r) ==
  /\ status[r] = "PENDING"
  /\ status' \in {[status EXCEPT ![r] = s] : s \in {"REJECTED", "CANCELED"}}
  /\ UNCHANGED balance

\* HR credits one account; what it grants is not the account's business.
Credit(a) ==
  /\ balance' = [balance EXCEPT ![a] = balance'[a]]
  /\ balance'[a] >= balance[a]
  /\ UNCHANGED status

Next ==
  \/ \E r \in Requests : Submit(r) \/ Approve(r) \/ Close(r)
  \/ \E a \in Accounts : Credit(a)

Spec == Init /\ [][Next]_vars

=============================================================================
