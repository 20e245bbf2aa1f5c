------------------------------- MODULE LeaveTx -------------------------------
(***************************************************************************)
(* Leave requests as the database transactions the code runs, statement by *)
(* statement (backend/app/domains/leave/service.py and the part of         *)
(* backend/app/domains/workflow/service.py it calls).  Sessions run at     *)
(* PostgreSQL's default READ COMMITTED: a SELECT sees what is committed    *)
(* when it starts, writes are invisible until COMMIT, so every write of a  *)
(* transaction is in the action that commits it.                           *)
(*                                                                         *)
(* Locks are not variables: they follow from where a transaction stands.   *)
(* SELECT r JOIN rt ... FOR UPDATE locks the request row, then the one     *)
(* request_types row of LEAVE_REQUEST; INSERT INTO workflow.requests takes *)
(* FOR KEY SHARE on that row and reserves its idempotency key.             *)
(*                                                                         *)
(* Who may decide a step, notifications and events are in WorkflowEngine.  *)
(***************************************************************************)
EXTENDS Integers, FiniteSets, FiniteSetsExt

CONSTANTS Tx,              \* database sessions (API request threads)
          Requests,        \* submissions of POST /leave/me/requests
          Accounts,        \* (employee, leave type, leave year)
          Days,            \* calendar days
          AcctOf,          \* [Requests -> Accounts]: account a request draws on
          EmpOf,           \* [Requests -> employee]: who submits it
          DaysOf,          \* [Requests -> SUBSET Days]: its date range
          KeyOf,           \* [Requests -> idempotency key or NoKey]
          NoKey,           \* the client sent no idempotency key
          NoRequest,       \* an idle session works on no request
          OffDays,         \* weekly offs and holidays of the branch calendar
          HalfDay,         \* requests with unit HALF_DAY
          AllowNegative,   \* accounts of types with allow_negative_balance
          Allocations,     \* amounts HR may allocate, in half days
          MaxAllocations,  \* bound: allocations made in one behaviour
          NSteps           \* approval steps of the active definition

ASSUME ConstantsAssumption ==
  /\ AcctOf \in [Requests -> Accounts]
  /\ DaysOf \in [Requests -> SUBSET Days]
  /\ IsFiniteSet(Days)
  /\ HalfDay \subseteq Requests
  /\ AllowNegative \subseteq Accounts
  /\ Allocations \subseteq Int
  /\ MaxAllocations \in Nat
  /\ NSteps \in Nat \ {0}
  /\ NoRequest \notin Requests

\* "Selected range has no working days" is refused before any of this.
ASSUME WorkingDayAssumption == \A r \in Requests : DaysOf[r] \ OffDays # {}

VARIABLES lstatus,      \* leave_requests.status, "NONE" when there is no row
          wf,           \* workflow.requests.status of its workflow request
          step,         \* workflow.requests.current_step
          balance,      \* SUM(delta_days) of leave_ledger, in half days
          debited,      \* requests with a LEAVE_REQUEST ledger row
          overrides,    \* attendance.day_overrides rows: <<request, day>>
          nalloc,       \* history: how many allocations were made
          pc,           \* where each session stands
          job,          \* the request it works on
          kind          \* what it is doing to it

db == <<lstatus, wf, step, balance, debited, overrides, nalloc>>
session == <<pc, job, kind>>
vars == <<lstatus, wf, step, balance, debited, overrides, nalloc,
          pc, job, kind>>

LeaveStatuses == {"NONE", "PENDING", "APPROVED", "REJECTED", "CANCELED"}
WfStatuses == {"none", "submitted", "approved", "rejected", "cancelled"}
Kinds == {"none", "create", "approve", "reject", "cancel"}
PCs == {"idle", "overlap", "balance", "insert", "inserted",
        "lockRequest", "lockType", "locked", "debit"}

-----------------------------------------------------------------------------
(* The request's own arithmetic (compute_request_days): every countable    *)
(* day weighs a whole day, or half of one for HALF_DAY.                    *)

CountableDays(r) == DaysOf[r] \ OffDays

Requested == [r \in Requests |->
                (IF r \in HalfDay THEN 1 ELSE 2) * Cardinality(CountableDays(r))]

Affordable(r) == Requested[r] <= balance[AcctOf[r]] \/ AcctOf[r] \in AllowNegative

SameKey(q, r) == q # r /\ EmpOf[q] = EmpOf[r] /\ KeyOf[q] = KeyOf[r] /\ KeyOf[r] # NoKey

Overlap(q, r) == EmpOf[q] = EmpOf[r] /\ DaysOf[q] \cap DaysOf[r] # {}

(* Locks. *)
HoldsRequest(t, r) == job[t] = r /\ pc[t] \in {"lockType", "locked", "debit"}
HoldsType(t) == pc[t] \in {"locked", "debit"}
HoldsTypeShare(t) == pc[t] = "inserted"

-----------------------------------------------------------------------------
Init ==
  /\ lstatus = [r \in Requests |-> "NONE"]
  /\ wf = [r \in Requests |-> "none"]
  /\ step = [r \in Requests |-> 0]
  /\ balance = [a \in Accounts |-> 0]
  /\ debited = {}
  /\ overrides = {}
  /\ nalloc = 0
  /\ pc = [t \in Tx |-> "idle"]
  /\ job = [t \in Tx |-> NoRequest]
  /\ kind = [t \in Tx |-> "none"]

\* The session runs its next statement and stays in the transaction.
Goto(t, label) == pc' = [pc EXCEPT ![t] = label] /\ UNCHANGED <<job, kind>>

\* The transaction ends, by COMMIT or by an AppError and ROLLBACK.
End(t) ==
  /\ pc' = [pc EXCEPT ![t] = "idle"]
  /\ job' = [job EXCEPT ![t] = NoRequest]
  /\ kind' = [kind EXCEPT ![t] = "none"]

\* A check that lets the transaction continue at label, or refuses it.
GotoIf(t, ok, label) == (ok /\ Goto(t, label)) \/ (~ok /\ End(t))

Begin(t, r, k, label) ==
  /\ pc[t] = "idle"
  /\ pc' = [pc EXCEPT ![t] = label]
  /\ job' = [job EXCEPT ![t] = r]
  /\ kind' = [kind EXCEPT ![t] = k]
  /\ UNCHANGED db

-----------------------------------------------------------------------------
(* create_my_request.  Its three reads take no lock.                        *)

\* A key that is already stored answers with the stored request or with
\* leave.idempotency.conflict: neither changes anything.
CreateBegin(t, r) ==
  /\ lstatus[r] = "NONE"
  /\ \A u \in Tx : job[u] # r
  /\ \A q \in Requests : SameKey(q, r) => lstatus[q] = "NONE"
  /\ Begin(t, r, "create", "overlap")

CheckOverlap(t) ==
  /\ pc[t] = "overlap"
  /\ LET clear == \A q \in Requests :
                    Overlap(q, job[t]) => lstatus[q] \notin {"PENDING", "APPROVED"}
     IN  GotoIf(t, clear, "balance")
  /\ UNCHANGED db

CheckBalance(t) ==
  /\ pc[t] = "balance"
  /\ GotoIf(t, Affordable(job[t]), "insert")
  /\ UNCHANGED db

\* Mutant: no unique index on (tenant, creator, idempotency_key).
CreateInsertNoUniqueIndex(t) ==
  /\ pc[t] = "insert"
  /\ \A u \in Tx : ~HoldsType(u)
  /\ Goto(t, "inserted")
  /\ UNCHANGED db

\* INSERT INTO workflow.requests.  It waits for a decision holding the type
\* row, and for a session that has inserted the same key and not ended yet.
CreateInsert(t) ==
  /\ pc[t] = "insert"
  /\ \A u \in Tx : ~HoldsType(u)
  /\ \A u \in Tx : ~(pc[u] = "inserted" /\ SameKey(job[u], job[t]))
  /\ \A q \in Requests : SameKey(q, job[t]) => lstatus[q] = "NONE"
  /\ Goto(t, "inserted")
  /\ UNCHANGED db

\* IntegrityError: the key was committed since it was looked up.  Whether
\* create_request answers with the stored workflow request, whose leave row
\* cannot be inserted a second time, or refuses: nothing is stored.
CreateConflict(t) ==
  /\ pc[t] = "insert"
  /\ \E q \in Requests : SameKey(q, job[t]) /\ lstatus[q] # "NONE"
  /\ End(t)
  /\ UNCHANGED db

CreateCommit(t) ==
  /\ pc[t] = "inserted"
  /\ lstatus' = [lstatus EXCEPT ![job[t]] = "PENDING"]
  /\ wf' = [wf EXCEPT ![job[t]] = "submitted"]
  /\ step' = [step EXCEPT ![job[t]] = 1]
  /\ End(t)
  /\ UNCHANGED <<balance, debited, overrides, nalloc>>

-----------------------------------------------------------------------------
(* Decisions: WorkflowService._decide and cancel_request with the leave     *)
(* hooks they call in the same transaction.                                *)

\* POST /workflow/requests/{id}/approve, /reject or /cancel.
DecideBegin(t, r) ==
  /\ wf[r] # "none"
  /\ \E k \in {"approve", "reject", "cancel"} : Begin(t, r, k, "lockRequest")

\* cancel_my_request: the leave row is read without a lock, and the workflow
\* cancelled afterwards.
CancelMyRequest(t, r) ==
  /\ lstatus[r] = "PENDING"
  /\ Begin(t, r, "cancel", "lockRequest")

LockRequest(t) ==
  /\ pc[t] = "lockRequest"
  /\ \A u \in Tx : ~HoldsRequest(u, job[t])
  /\ Goto(t, "lockType")
  /\ UNCHANGED db

\* Mutant: SELECT ... FOR UPDATE OF r, which leaves the type row unlocked.
LockTypeOfRequestOnly(t) == pc[t] = "lockType" /\ Goto(t, "locked") /\ UNCHANGED db

LockType(t) ==
  /\ pc[t] = "lockType"
  /\ \A u \in Tx : ~HoldsType(u) /\ ~HoldsTypeShare(u)
  /\ Goto(t, "locked")
  /\ UNCHANGED db

\* Mutant: the refusal leaves the transaction open and its locks held.
DecideRefusedNoRollback(t) == pc[t] = "locked" /\ wf[job[t]] # "submitted" /\ UNCHANGED vars

\* workflow.step.already_decided, workflow.request.not_pending.
DecideRefused(t) ==
  /\ pc[t] = "locked"
  /\ wf[job[t]] # "submitted"
  /\ End(t)
  /\ UNCHANGED db

\* Mutant: off by one at the last step.
ApproveStepPastLast(t) ==
  /\ pc[t] = "locked" /\ kind[t] = "approve" /\ wf[job[t]] = "submitted"
  /\ step[job[t]] <= NSteps
  /\ step' = [step EXCEPT ![job[t]] = @ + 1]
  /\ End(t)
  /\ UNCHANGED <<lstatus, wf, balance, debited, overrides, nalloc>>

\* An approval that is not the last one moves to the next step.
ApproveStep(t) ==
  /\ pc[t] = "locked" /\ kind[t] = "approve" /\ wf[job[t]] = "submitted"
  /\ step[job[t]] < NSteps
  /\ step' = [step EXCEPT ![job[t]] = @ + 1]
  /\ End(t)
  /\ UNCHANGED <<lstatus, wf, balance, debited, overrides, nalloc>>

\* Mutant: the balance is only checked when the request is created.
ApproveCheckNoBalance(t) ==
  /\ pc[t] = "locked" /\ kind[t] = "approve" /\ wf[job[t]] = "submitted"
  /\ step[job[t]] = NSteps
  /\ GotoIf(t, lstatus[job[t]] = "PENDING", "debit")
  /\ UNCHANGED db

\* on_workflow_approved up to the second look at the balance.
ApproveCheck(t) ==
  /\ pc[t] = "locked" /\ kind[t] = "approve" /\ wf[job[t]] = "submitted"
  /\ step[job[t]] = NSteps
  /\ GotoIf(t, lstatus[job[t]] = "PENDING" /\ Affordable(job[t]), "debit")
  /\ UNCHANGED db

\* The rest of on_workflow_approved and COMMIT.  The ledger row and the
\* overrides are inserted ON CONFLICT DO NOTHING.
ApproveCommit(t) ==
  LET r == job[t] IN
  /\ pc[t] = "debit"
  /\ wf' = [wf EXCEPT ![r] = "approved"]
  /\ lstatus' = [lstatus EXCEPT ![r] = "APPROVED"]
  /\ balance' = IF r \in debited THEN balance
                ELSE [balance EXCEPT ![AcctOf[r]] = @ - Requested[r]]
  /\ debited' = debited \cup {r}
  /\ overrides' = overrides \cup ({r} \X CountableDays(r))
  /\ End(t)
  /\ UNCHANGED <<step, nalloc>>

\* Mutant: the status is not looked at again once the row is locked.
CloseWithoutRecheck(t, wfStatus, leaveStatus) ==
  LET r == job[t] IN
  /\ pc[t] = "locked"
  /\ wf' = [wf EXCEPT ![r] = wfStatus]
  /\ lstatus' = [lstatus EXCEPT ![r] = IF @ = "PENDING" THEN leaveStatus ELSE @]
  /\ End(t)
  /\ UNCHANGED <<step, balance, debited, overrides, nalloc>>

\* on_workflow_rejected and on_workflow_cancelled leave a leave request alone
\* that is not PENDING any more.
CloseWith(t, wfStatus, leaveStatus) ==
  LET r == job[t] IN
  /\ pc[t] = "locked" /\ wf[r] = "submitted"
  /\ wf' = [wf EXCEPT ![r] = wfStatus]
  /\ lstatus' = [lstatus EXCEPT ![r] = IF @ = "PENDING" THEN leaveStatus ELSE @]
  /\ End(t)
  /\ UNCHANGED <<step, balance, debited, overrides, nalloc>>

RejectCommit(t) == kind[t] = "reject" /\ CloseWith(t, "rejected", "REJECTED")

\* Mutant: cancelling does not look at the locked row, only at what
\* cancel_my_request read before it.
CancelCommitStaleCheck(t) ==
  LET r == job[t] IN
  /\ kind[t] = "cancel" /\ pc[t] = "locked"
  /\ wf' = [wf EXCEPT ![r] = "cancelled"]
  /\ lstatus' = [lstatus EXCEPT ![r] = "CANCELED"]
  /\ End(t)
  /\ UNCHANGED <<step, balance, debited, overrides, nalloc>>

CancelCommit(t) == kind[t] = "cancel" /\ CloseWith(t, "cancelled", "CANCELED")

-----------------------------------------------------------------------------
\* allocate_balance: one INSERT and COMMIT, no lock and no look at the sum.
Allocate(a, n) ==
  /\ nalloc < MaxAllocations
  /\ nalloc' = nalloc + 1
  /\ balance' = [balance EXCEPT ![a] = @ + n]
  /\ UNCHANGED <<lstatus, wf, step, debited, overrides>>
  /\ UNCHANGED session

\* The process dies or the connection drops: PostgreSQL rolls back.
Rollback(t) ==
  /\ pc[t] # "idle"
  /\ End(t)
  /\ UNCHANGED db

-----------------------------------------------------------------------------
Create(t) ==
  \/ \E r \in Requests : CreateBegin(t, r)
  \/ CheckOverlap(t) \/ CheckBalance(t)
  \/ CreateInsert(t) \/ CreateConflict(t) \/ CreateCommit(t)

Decide(t) ==
  \/ \E r \in Requests : DecideBegin(t, r) \/ CancelMyRequest(t, r)
  \/ LockRequest(t) \/ LockType(t)
  \/ DecideRefused(t) \/ ApproveStep(t) \/ ApproveCheck(t) \/ ApproveCommit(t)
  \/ RejectCommit(t) \/ CancelCommit(t)

Next ==
  \/ \E t \in Tx : Create(t) \/ Decide(t) \/ Rollback(t)
  \/ \E a \in Accounts, n \in Allocations : Allocate(a, n)

Spec == Init /\ [][Next]_vars

(* Every statement that is not waiting for a lock runs; a lock that keeps   *)
(* becoming free is obtained, because PostgreSQL queues the waiters of a    *)
(* row; a server does not crash for ever.                                  *)
Fairness ==
  /\ \A t \in Tx :
       /\ WF_vars(CheckOverlap(t)) /\ WF_vars(CheckBalance(t))
       /\ SF_vars(CreateInsert(t)) /\ WF_vars(CreateConflict(t)) /\ WF_vars(CreateCommit(t))
       /\ SF_vars(LockRequest(t)) /\ SF_vars(LockType(t))
       /\ WF_vars(DecideRefused(t)) /\ WF_vars(ApproveStep(t))
       /\ WF_vars(ApproveCheck(t)) /\ WF_vars(ApproveCommit(t))
       /\ WF_vars(RejectCommit(t)) /\ WF_vars(CancelCommit(t))
  /\ <>[][\A t \in Tx : ~Rollback(t)]_vars

LiveSpec == Spec /\ Fairness

-----------------------------------------------------------------------------
(* Properties.                                                              *)

\* Every variable has its type; a session holds a request exactly while it
\* is in a transaction.
TypeOK ==
  /\ lstatus \in [Requests -> LeaveStatuses]
  /\ wf \in [Requests -> WfStatuses]
  /\ step \in [Requests -> 0..NSteps]
  /\ balance \in [Accounts -> Int]
  /\ debited \in SUBSET Requests
  /\ overrides \in SUBSET (Requests \X Days)
  /\ nalloc \in 0..MaxAllocations
  /\ pc \in [Tx -> PCs]
  /\ job \in [Tx -> Requests \cup {NoRequest}]
  /\ kind \in [Tx -> Kinds]
  /\ \A t \in Tx : pc[t] # "idle" => job[t] \in Requests

\* If HR only ever adds days, no interleaving of approvals takes an account
\* below zero whose type forbids it: the balance on_workflow_approved reads
\* is still the balance it debits.
NoOverdraft ==
  Allocations \subseteq Nat => \A a \in Accounts \ AllowNegative : balance[a] >= 0

\* leave_requests.status and workflow.requests.status name the same outcomes.
Mirrors == {<<"NONE", "none">>, <<"PENDING", "submitted">>, <<"APPROVED", "approved">>,
            <<"REJECTED", "rejected">>, <<"CANCELED", "cancelled">>}

\* The leave row and its workflow request always agree, and exactly the
\* approved ones have a ledger debit and an ON_LEAVE override on each of
\* their working days: the hooks run in the deciding transaction, all or none.
AllOrNothing ==
  \A r \in Requests :
    /\ <<lstatus[r], wf[r]>> \in Mirrors
    /\ r \in debited <=> lstatus[r] = "APPROVED"
    /\ {d \in Days : <<r, d>> \in overrides} =
         IF lstatus[r] = "APPROVED" THEN CountableDays(r) ELSE {}

\* A client that retries a submission with its idempotency key, even while
\* the first attempt is still running, never gets two leave requests.
OneRequestPerKey ==
  \A q, r \in Requests : SameKey(q, r) => lstatus[q] = "NONE" \/ lstatus[r] = "NONE"

\* Approvals, rejections and cancellations race; whichever commits first is
\* final, and its ledger row and overrides are never taken back.
DecisionsFinal ==
  [][\A r \in Requests :
       wf[r] \in {"approved", "rejected", "cancelled"} =>
         /\ wf'[r] = wf[r] /\ lstatus'[r] = lstatus[r] /\ step'[r] = step[r]
         /\ r \in debited <=> r \in debited']_vars

\* LeaveTx implements the atomic account, if HR only ever adds days.
Account == INSTANCE LeaveAccount WITH status <- lstatus
ImplementsAccount == Account!Spec

\* No transaction waits for ever: the locks of creations and decisions never
\* form a cycle.
EveryTransactionEnds == \A t \in Tx : pc[t] # "idle" ~> pc[t] = "idle"

\* "Overlap protection prevents duplicate or conflicting leave requests."
NoOverlappingLeave ==
  \A q, r \in Requests :
    q # r /\ Overlap(q, r) =>
      ~({lstatus[q], lstatus[r]} \subseteq {"PENDING", "APPROVED"})

=============================================================================
