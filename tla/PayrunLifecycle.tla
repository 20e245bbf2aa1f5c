--------------------------- MODULE PayrunLifecycle ---------------------------
(***************************************************************************)
(* A payrun from generation to published payslips                          *)
(* (backend/app/domains/payroll/service_payruns.py, service_workflow.py,   *)
(* workflow_handler.py and service_payslips.py), with as much of the       *)
(* workflow engine as it uses.  A payrun is identified by what is unique   *)
(* about it, its (period, branch).                                         *)
(*                                                                         *)
(* Generation and publishing take several steps, between which other       *)
(* sessions run; publishing holds the payrun row FOR UPDATE throughout,    *)
(* and writes payslip files to disk before its transaction commits.        *)
(***************************************************************************)
EXTENDS Integers, Sequences, FiniteSets

CONSTANTS Periods,       \* (period, branch) pairs, one payrun each
          Employees,
          Users,         \* payroll admins who submit payruns
          Sessions,      \* database sessions that generate or publish
          MaxRequests,   \* bound: workflow requests created
          MaxChanges     \* bound: changes of the payroll data

ASSUME PayrunAssumption ==
  /\ IsFiniteSet(Employees)
  /\ MaxRequests \in Nat /\ MaxChanges \in Nat

VARIABLES payroll,     \* [Employees -> what computing an item now would give]
          changes,     \* how often that changed
          status,      \* payruns.status, "NONE" when there is no row
          items,       \* [Periods -> [Employees -> item status]]: payrun_items
          wr,          \* payruns.workflow_request_id, 0 when NULL
          reqs,        \* workflow requests of type PAYRUN_APPROVAL
          payslips,    \* payslips rows: <<period, employee>>
          files,       \* payslip files on disk, of committed payslips or not
          pc,          \* where each session stands, and with which payrun
          agreed       \* history: the items a payrun had when it was submitted

vars == <<payroll, changes, status, items, wr, reqs, payslips, files, pc, agreed>>

\* An employee outside the branch has no item; one without compensation or
\* attendance has an EXCLUDED one.
ItemStatuses == {"none", "INCLUDED", "EXCLUDED"}
Items == [Employees -> ItemStatuses]
NoItems == [e \in Employees |-> "none"]
Included(p) == {e \in Employees : items[p][e] = "INCLUDED"}

\* totals_json, all a workflow payload tells of a payrun's amounts.
Totals(p) == <<Cardinality(Included(p)),
               Cardinality({e \in Employees : items[p][e] = "EXCLUDED"})>>

Idle == [at |-> "idle"]
Locked(p) == \E s \in Sessions : pc[s].at = "publish" /\ pc[s].period = p

Init ==
  /\ payroll \in Items
  /\ changes = 0
  /\ status = [p \in Periods |-> "NONE"]
  /\ items = [p \in Periods |-> NoItems]
  /\ wr = [p \in Periods |-> 0]
  /\ reqs = <<>>
  /\ payslips = {}
  /\ files = {}
  /\ pc = [s \in Sessions |-> Idle]
  /\ agreed = [p \in Periods |-> NoItems]

\* Attendance, compensation or branch membership of an employee changes.
PayrollChanges ==
  /\ changes < MaxChanges
  /\ changes' = changes + 1
  /\ \E e \in Employees, i \in ItemStatuses :
       i # payroll[e] /\ payroll' = [payroll EXCEPT ![e] = i]
  /\ UNCHANGED <<status, items, wr, reqs, payslips, files, pc, agreed>>

-----------------------------------------------------------------------------
(* generate_payrun.                                                         *)

\* The unlocked look for the payrun: absent, it will be inserted; a DRAFT
\* without items is computed again; anything else is returned as it is.
GenerateBegin(s, p) ==
  /\ pc[s] = Idle
  /\ \/ status[p] = "NONE" /\ pc' = [pc EXCEPT ![s] = [at |-> "insert", period |-> p]]
     \/ /\ status[p] = "DRAFT" /\ items[p] = NoItems
        /\ pc' = [pc EXCEPT ![s] = [at |-> "compute", period |-> p]]
  /\ UNCHANGED <<payroll, changes, status, items, wr, reqs, payslips, files, agreed>>

\* Row and items are inserted in one transaction.
GenerateInsert(s) ==
  LET p == pc[s].period IN
  /\ pc[s].at = "insert" /\ status[p] = "NONE"
  /\ status' = [status EXCEPT ![p] = "DRAFT"]
  /\ items' = [items EXCEPT ![p] = payroll]
  /\ pc' = [pc EXCEPT ![s] = Idle]
  /\ UNCHANGED <<payroll, changes, wr, reqs, payslips, files, agreed>>

\* IntegrityError: another session inserted it first; its items are computed
\* once more.
GenerateConflict(s) ==
  /\ pc[s].at = "insert" /\ status[pc[s].period] # "NONE"
  /\ pc' = [pc EXCEPT ![s].at = "compute"]
  /\ UNCHANGED <<payroll, changes, status, items, wr, reqs, payslips, files, agreed>>

\* Mutant: the status is not looked at under the row lock.
ComputeItemsUnchecked(s) ==
  LET p == pc[s].period IN
  /\ pc[s].at = "compute" /\ ~Locked(p)
  /\ items' = [items EXCEPT ![p] = payroll]
  /\ pc' = [pc EXCEPT ![s] = Idle]
  /\ UNCHANGED <<payroll, changes, status, wr, reqs, payslips, files, agreed>>

\* _compute_payrun_items: under the row lock, and only in DRAFT, the items are
\* deleted and computed from what the payroll data are now.
ComputeItems(s) ==
  LET p == pc[s].period IN
  /\ pc[s].at = "compute" /\ ~Locked(p)
  /\ items' = IF status[p] = "DRAFT" THEN [items EXCEPT ![p] = payroll] ELSE items
  /\ pc' = [pc EXCEPT ![s] = Idle]
  /\ UNCHANGED <<payroll, changes, status, wr, reqs, payslips, files, agreed>>

-----------------------------------------------------------------------------
(* submit_for_approval.  Its idempotency key is payrun_approval:{payrun},  *)
(* so a user's stored request for the payrun answers a new submission: it  *)
(* is taken when the payload is the same, and refused otherwise.           *)

StoredRequests(u, p) == {i \in 1..Len(reqs) : reqs[i].payrun = p /\ reqs[i].creator = u}

Submittable(p) == status[p] = "DRAFT" /\ Included(p) # {}

MarkSubmitted(p, i) ==
  /\ status' = [status EXCEPT ![p] = "PENDING_APPROVAL"]
  /\ wr' = [wr EXCEPT ![p] = i]
  /\ agreed' = [agreed EXCEPT ![p] = items[p]]
  /\ UNCHANGED <<payroll, changes, items, payslips, files, pc>>

SubmitNew(u, p) ==
  /\ Submittable(p) /\ ~Locked(p)
  /\ StoredRequests(u, p) = {} /\ Len(reqs) < MaxRequests
  /\ reqs' = Append(reqs, [payrun |-> p, creator |-> u, payload |-> Totals(p),
                           status |-> "submitted"])
  /\ MarkSubmitted(p, Len(reqs'))

SubmitAgain(u, p) ==
  /\ Submittable(p) /\ ~Locked(p)
  /\ \E i \in StoredRequests(u, p) : reqs[i].payload = Totals(p) /\ MarkSubmitted(p, i)
  /\ UNCHANGED reqs

-----------------------------------------------------------------------------
(* What the workflow engine decides, and the hook it calls: a payrun that   *)
(* is not PENDING_APPROVAL is left alone.                                   *)

Decide(i, outcome) ==
  /\ reqs[i].status = "submitted"
  /\ reqs' = [reqs EXCEPT ![i].status = outcome]

Approve(i) ==
  LET p == reqs[i].payrun IN
  /\ Decide(i, "approved") /\ ~Locked(p)
  /\ status' = [status EXCEPT ![p] = IF @ = "PENDING_APPROVAL" THEN "APPROVED" ELSE @]
  /\ UNCHANGED <<payroll, changes, items, wr, payslips, files, pc, agreed>>

\* The payrun is DRAFT again and forgets the request; its items stay.
Reject(i) ==
  LET p == reqs[i].payrun
      pending == status[p] = "PENDING_APPROVAL"
  IN  /\ Decide(i, "rejected") /\ ~Locked(p)
      /\ status' = [status EXCEPT ![p] = IF pending THEN "DRAFT" ELSE @]
      /\ wr' = [wr EXCEPT ![p] = IF pending THEN 0 ELSE @]
      /\ UNCHANGED <<payroll, changes, items, payslips, files, pc, agreed>>

\* POST /workflow/requests/{id}/cancel; on_cancelled does nothing.
Cancel(i) ==
  /\ Decide(i, "cancelled")
  /\ UNCHANGED <<payroll, changes, status, items, wr, payslips, files, pc, agreed>>

-----------------------------------------------------------------------------
(* publish_payrun.                                                          *)

\* Mutant: a payrun that awaits approval can be published.
PublishBeginPending(s, p) ==
  /\ pc[s] = Idle /\ ~Locked(p)
  /\ status[p] \in {"PENDING_APPROVAL", "APPROVED"}
  /\ pc' = [pc EXCEPT ![s] = [at |-> "publish", period |-> p, todo |-> Included(p)]]
  /\ UNCHANGED <<payroll, changes, status, items, wr, reqs, payslips, files, agreed>>

\* The row is locked; payroll.payrun.already_published and not_approved.
PublishBegin(s, p) ==
  /\ pc[s] = Idle /\ ~Locked(p)
  /\ status[p] = "APPROVED"
  /\ pc' = [pc EXCEPT ![s] = [at |-> "publish", period |-> p, todo |-> Included(p)]]
  /\ UNCHANGED <<payroll, changes, status, items, wr, reqs, payslips, files, agreed>>

\* Mutant: the transaction only records that the file is to be written.
WritePayslipLater(s) ==
  /\ pc[s].at = "publish"
  /\ \E e \in pc[s].todo : pc' = [pc EXCEPT ![s].todo = @ \ {e}]
  /\ UNCHANGED <<payroll, changes, status, items, wr, reqs, payslips, files, agreed>>

\* The bytes of one payslip are on disk, whatever becomes of the transaction.
WritePayslip(s) ==
  /\ pc[s].at = "publish"
  /\ \E e \in pc[s].todo :
       /\ files' = files \cup {<<pc[s].period, e>>}
       /\ pc' = [pc EXCEPT ![s].todo = @ \ {e}]
  /\ UNCHANGED <<payroll, changes, status, items, wr, reqs, payslips, agreed>>

\* Payslips, documents, notifications and the status are committed together.
PublishCommit(s) ==
  LET p == pc[s].period IN
  /\ pc[s].at = "publish" /\ pc[s].todo = {}
  /\ payslips' = payslips \cup ({p} \X Included(p))
  /\ status' = [status EXCEPT ![p] = "PUBLISHED"]
  /\ pc' = [pc EXCEPT ![s] = Idle]
  /\ UNCHANGED <<payroll, changes, items, wr, reqs, files, agreed>>

\* An error or a crash: the transaction is rolled back, the files stay.
Rollback(s) ==
  /\ pc[s] # Idle
  /\ pc' = [pc EXCEPT ![s] = Idle]
  /\ UNCHANGED <<payroll, changes, status, items, wr, reqs, payslips, files, agreed>>

-----------------------------------------------------------------------------
Next ==
  \/ PayrollChanges
  \/ \E s \in Sessions :
       \/ \E p \in Periods : GenerateBegin(s, p) \/ PublishBegin(s, p)
       \/ GenerateInsert(s) \/ GenerateConflict(s) \/ ComputeItems(s)
       \/ WritePayslip(s) \/ PublishCommit(s) \/ Rollback(s)
  \/ \E u \in Users, p \in Periods : SubmitNew(u, p) \/ SubmitAgain(u, p)
  \/ \E i \in 1..Len(reqs) : Approve(i) \/ Reject(i) \/ Cancel(i)

Spec == Init /\ [][Next]_vars

-----------------------------------------------------------------------------
(* Properties.                                                              *)

\* What is approved and paid is what was submitted: a generation that lost
\* its race, or retries, never recomputes items that await or have approval.
PaidAsSubmitted ==
  \A p \in Periods :
    /\ status[p] \in {"PENDING_APPROVAL", "APPROVED", "PUBLISHED"} => items[p] = agreed[p]
    /\ {e \in Employees : <<p, e>> \in payslips} =
         IF status[p] = "PUBLISHED" THEN {e \in Employees : agreed[p][e] = "INCLUDED"} ELSE {}

\* A payrun is approved or published exactly when the workflow request it is
\* linked to was approved, and approvers never see two open requests for it,
\* whoever submitted it and however often it was sent back: a payrun that waits
\* for ever, after a cancellation or with the key of a rejected submission, is
\* not paid either.
ApprovedByItsRequest ==
  \A p \in Periods :
    /\ status[p] \in {"APPROVED", "PUBLISHED"} <=> wr[p] > 0 /\ reqs[wr[p]].status = "approved"
    /\ wr[p] > 0 => reqs[wr[p]].payrun = p
    /\ Cardinality({i \in 1..Len(reqs) : reqs[i].payrun = p /\ reqs[i].status = "submitted"}) <= 1

\* A payslip an employee can see can be downloaded: a crash in the middle of
\* publishing may leave files without payslips, never payslips without files.
PayslipsHaveFiles == payslips \subseteq files

\* "Submit a DRAFT payrun for approval.": a submission leaves the payrun with
\* a request that somebody can decide.
SubmissionCanBeDecided ==
  [][\A p \in Periods :
       status[p] = "DRAFT" /\ status'[p] = "PENDING_APPROVAL" =>
         reqs'[wr'[p]].status = "submitted"]_vars

=============================================================================
