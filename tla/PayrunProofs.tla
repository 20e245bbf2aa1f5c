---------------------------- MODULE PayrunProofs ----------------------------
(***************************************************************************)
(* Theorems about payruns, for any number of periods, employees, users,    *)
(* sessions and workflow requests: PayrollItems implements PayrunLifecycle,*)
(* and what is paid is what was submitted and approved.  And about the     *)
(* amounts, for any compensations, lines and attendance: both passes over  *)
(* the lines are folds, and what they sum up is what the lines add up to.  *)
(***************************************************************************)
EXTENDS PayrollItems, DataLemmas, FiniteSetTheorems

Statuses == {"NONE", "DRAFT", "PENDING_APPROVAL", "APPROVED", "PUBLISHED"}
RequestStatuses == {"submitted", "approved", "rejected", "cancelled"}
PayrunRequests == [payrun : Periods, creator : Users, payload : Nat \X Nat,
                   status : RequestStatuses]
Places == {Idle} \cup [at : {"insert", "compute"}, period : Periods]
                 \cup [at : {"publish"}, period : Periods, todo : SUBSET Employees]

Typed ==
  /\ payroll \in Items /\ changes \in Nat
  /\ status \in [Periods -> Statuses]
  /\ items \in [Periods -> Items] /\ agreed \in [Periods -> Items]
  /\ wr \in [Periods -> Nat]
  /\ reqs \in Seq(PayrunRequests)
  /\ payslips \in SUBSET (Periods \X Employees)
  /\ pc \in [Sessions -> Places]

\* A session that publishes is the only one to do so, its payrun stays
\* APPROVED, and the files it has gone past are on disk.
Publishing ==
  \A s \in Sessions : pc[s].at = "publish" =>
    LET p == pc[s].period IN
    /\ status[p] = "APPROVED"
    /\ \A t \in Sessions : pc[t].at = "publish" /\ pc[t].period = p => t = s
    /\ {p} \X (Included(p) \ pc[s].todo) \subseteq files

\* A payrun is linked to a request of its own from its submission until it is
\* sent back.
Linked ==
  \A p \in Periods :
    /\ wr[p] \in 0..Len(reqs)
    /\ wr[p] = 0 <=> status[p] \in {"NONE", "DRAFT"}
    /\ wr[p] > 0 => reqs[wr[p]].payrun = p
    /\ status[p] \in {"APPROVED", "PUBLISHED"} => reqs[wr[p]].status = "approved"

\* The request that is open, and the one that was approved, are the one the
\* payrun is linked to.
Followed ==
  \A i \in 1..Len(reqs) :
    LET p == reqs[i].payrun IN
    /\ reqs[i].status = "submitted" => status[p] = "PENDING_APPROVAL" /\ wr[p] = i
    /\ reqs[i].status = "approved" => status[p] \in {"APPROVED", "PUBLISHED"} /\ wr[p] = i

IInv == Typed /\ Publishing /\ Linked /\ Followed /\ PaidAsSubmitted /\ PayslipsHaveFiles

-----------------------------------------------------------------------------
\* What a workflow payload tells of a payrun are two numbers.
LEMMA TotalsType == \A p \in Periods : Totals(p) \in Nat \X Nat
<1> SUFFICES ASSUME NEW p \in Periods PROVE Totals(p) \in Nat \X Nat OBVIOUS
<1>1. IsFiniteSet(Included(p)) /\ IsFiniteSet({e \in Employees : items[p][e] = "EXCLUDED"})
  <2>1. Included(p) \in SUBSET Employees BY DEF Included
  <2>2. {e \in Employees : items[p][e] = "EXCLUDED"} \in SUBSET Employees OBVIOUS
  <2>3. QED BY <2>1, <2>2, PayrunAssumption, FS_Subset
<1>2. QED BY <1>1, FS_CardinalityType DEF Totals

\* There is no payrun at first.
LEMMA InvInit == Init => IInv
BY DEF Init, IInv, Typed, Publishing, Linked, Followed, PaidAsSubmitted, PayslipsHaveFiles,
       Statuses, Places, Items, NoItems, ItemStatuses, Idle

\* The fields of a request there is.
LEMMA RequestType ==
  ASSUME IInv, NEW i \in 1..Len(reqs)
  PROVE  reqs[i] \in PayrunRequests /\ reqs[i].payrun \in Periods
<1>1. reqs[i] \in PayrunRequests BY DEF IInv, Typed
<1>2. QED BY <1>1 DEF PayrunRequests

\* A step of one session that changes no row: it may write files, and one that
\* begins or goes on to publish has to answer for its payrun.
LEMMA SessionMoves ==
  ASSUME IInv, NEW s \in Sessions, NEW w \in Places,
         pc' = [pc EXCEPT ![s] = w], files \subseteq files',
         UNCHANGED <<payroll, changes, status, items, wr, reqs, payslips, agreed>>,
         w.at = "publish" =>
           /\ status[w.period] = "APPROVED"
           /\ \A t \in Sessions \ {s} : pc[t].at = "publish" => pc[t].period # w.period
           /\ {w.period} \X (Included(w.period) \ w.todo) \subseteq files'
  PROVE  IInv'
<1>1. pc \in [Sessions -> Places] /\ pc'[s] = w /\ \A t \in Sessions \ {s} : pc'[t] = pc[t]
  BY DEF IInv, Typed
<1>2. Typed' BY <1>1 DEF IInv, Typed
<1>3. Publishing'
  <2> SUFFICES ASSUME NEW t \in Sessions, pc'[t].at = "publish"
               PROVE  /\ status[pc'[t].period] = "APPROVED"
                      /\ \A u \in Sessions :
                           pc'[u].at = "publish" /\ pc'[u].period = pc'[t].period => u = t
                      /\ {pc'[t].period} \X (Included(pc'[t].period) \ pc'[t].todo)
                           \subseteq files'
    BY DEF Publishing, Included
  <2>1. CASE t = s BY <1>1, <2>1
  <2>2. CASE t # s BY <1>1, <2>2 DEF IInv, Publishing
  <2>3. QED BY <2>1, <2>2
<1>4. Linked' /\ Followed' /\ PaidAsSubmitted' /\ PayslipsHaveFiles'
  BY DEF IInv, Linked, Followed, PaidAsSubmitted, PayslipsHaveFiles
<1>5. QED BY <1>2, <1>3, <1>4 DEF IInv

\* Items are computed only for a payrun that is not submitted.
LEMMA DraftComputed ==
  ASSUME IInv, NEW s \in Sessions, NEW p \in Periods,
         status[p] \in {"NONE", "DRAFT"}, pc' = [pc EXCEPT ![s] = Idle],
         status' = [status EXCEPT ![p] = "DRAFT"], items' = [items EXCEPT ![p] = payroll],
         UNCHANGED <<payroll, changes, wr, reqs, payslips, files, agreed>>
  PROVE  IInv'
<1>1. /\ status'[p] = "DRAFT" /\ \A q \in Periods \ {p} : status'[q] = status[q]
      /\ \A q \in Periods \ {p} : items'[q] = items[q]
  BY DEF IInv, Typed
<1>2. pc'[s] = Idle /\ \A t \in Sessions \ {s} : pc'[t] = pc[t]
  BY DEF IInv, Typed
<1>3. Typed' BY DEF IInv, Typed, Statuses, Places
<1>4. Publishing'
  <2> SUFFICES ASSUME NEW t \in Sessions, pc'[t].at = "publish"
               PROVE  /\ status'[pc'[t].period] = "APPROVED"
                      /\ \A u \in Sessions :
                           pc'[u].at = "publish" /\ pc'[u].period = pc'[t].period => u = t
                      /\ {pc'[t].period} \X (Included(pc[t].period)' \ pc'[t].todo)
                           \subseteq files'
    BY DEF Publishing, Included
  <2>1. t # s /\ pc'[t] = pc[t] BY <1>2 DEF Idle
  <2>2. pc[t].period \in Periods BY <2>1, SMTT(30) DEF IInv, Typed, Places, Idle
  <2>3. status[pc[t].period] = "APPROVED" BY <2>1 DEF IInv, Publishing
  <2>4. pc[t].period \in Periods \ {p} BY <2>2, <2>3
  <2>5. Included(pc[t].period)' = Included(pc[t].period) BY <1>1, <2>4, <2>1 DEF Included
  <2>6. \A u \in Sessions : pc'[u].at = "publish" => u # s /\ pc'[u] = pc[u]
    BY <1>2 DEF Idle
  <2>7. {pc[t].period} \X (Included(pc[t].period) \ pc[t].todo) \subseteq files
    BY <2>1 DEF IInv, Publishing
  <2>8. \A u \in Sessions : pc[u].at = "publish" /\ pc[u].period = pc[t].period => u = t
    BY <2>1 DEF IInv, Publishing
  <2>9. QED BY <1>1, <2>1, <2>3, <2>4, <2>5, <2>6, <2>7, <2>8
<1>5. Linked' BY <1>1 DEF IInv, Linked
<1>6. Followed'
  <2>1. \A i \in 1..Len(reqs) : reqs[i].payrun \in Periods BY RequestType
  <2>2. QED BY <1>1, <2>1 DEF IInv, Followed
<1>7. PaidAsSubmitted' /\ PayslipsHaveFiles'
  BY <1>1 DEF IInv, PaidAsSubmitted, PayslipsHaveFiles
<1>8. QED BY <1>3, <1>4, <1>5, <1>6, <1>7 DEF IInv

\* A session that has a payrun has one of those there are.
LEMMA Where ==
  ASSUME IInv, NEW s \in Sessions
  PROVE  /\ pc[s].at \in {"insert", "compute"} =>
              pc[s] = [at |-> pc[s].at, period |-> pc[s].period] /\ pc[s].period \in Periods
         /\ pc[s].at = "publish" =>
              /\ pc[s] = [at |-> "publish", period |-> pc[s].period, todo |-> pc[s].todo]
              /\ pc[s].period \in Periods /\ pc[s].todo \in SUBSET Employees
<1>1. pc[s] \in Places BY DEF IInv, Typed
<1>2. QED BY <1>1 DEF Places, Idle

\* What HR changes in the setup is in no payrun.
LEMMA PayrollChangesKeeps ==
  ASSUME IInv, PayrollChanges PROVE IInv'
<1>1. Typed' BY DEF IInv, PayrollChanges, Typed, Items, ItemStatuses
<1>2. QED BY <1>1 DEF IInv, PayrollChanges, Publishing, Linked, Followed, PaidAsSubmitted,
                      PayslipsHaveFiles, Included

\* A session that generates a payrun is not one that publishes.
LEMMA GenerateBeginKeeps ==
  ASSUME IInv, NEW s \in Sessions, NEW p \in Periods, GenerateBegin(s, p) PROVE IInv'
<1>1. PICK w \in [at : {"insert", "compute"}, period : Periods] : pc' = [pc EXCEPT ![s] = w]
  BY DEF GenerateBegin
<1>2. w \in Places /\ w.at # "publish" BY DEF Places
<1>3. QED BY <1>1, <1>2, SessionMoves DEF GenerateBegin

\* Nor is one that finds the period has a payrun.
LEMMA GenerateConflictKeeps ==
  ASSUME IInv, NEW s \in Sessions, GenerateConflict(s) PROVE IInv'
<1> DEFINE w == [at |-> "compute", period |-> pc[s].period]
<1>1. pc[s] = [at |-> "insert", period |-> pc[s].period] /\ pc[s].period \in Periods
  BY Where DEF GenerateConflict
<1>2. w \in Places /\ w.at # "publish" BY <1>1 DEF Places
<1>3. [pc[s] EXCEPT !.at = "compute"] = w BY <1>1
<1>4. pc' = [pc EXCEPT ![s] = w] BY <1>3 DEF GenerateConflict
<1> HIDE DEF w
<1>5. QED BY <1>2, <1>4, SessionMoves DEF GenerateConflict

\* A payrun that is created is a draft that no request decides.
LEMMA GenerateInsertKeeps ==
  ASSUME IInv, NEW s \in Sessions, GenerateInsert(s) PROVE IInv'
BY Where, DraftComputed DEF GenerateInsert

\* Items are written into drafts only.
LEMMA ComputeItemsKeeps ==
  ASSUME IInv, NEW s \in Sessions, ComputeItems(s) PROVE IInv'
<1>1. pc[s].period \in Periods BY Where DEF ComputeItems
<1>2. CASE status[pc[s].period] = "DRAFT"
  <2>1. status' = [status EXCEPT ![pc[s].period] = "DRAFT"]
    BY <1>2 DEF ComputeItems, IInv, Typed
  <2>2. QED BY <1>1, <1>2, <2>1, DraftComputed DEF ComputeItems
<1>3. CASE status[pc[s].period] # "DRAFT"
  <2>1. Idle \in Places /\ Idle.at # "publish" BY DEF Places, Idle
  <2>2. QED BY <1>3, <2>1, SessionMoves DEF ComputeItems
<1>4. QED BY <1>2, <1>3

\* What is rolled back was not seen.
LEMMA RollbackKeeps ==
  ASSUME IInv, NEW s \in Sessions, Rollback(s) PROVE IInv'
<1>1. Idle \in Places /\ Idle.at # "publish" BY DEF Places, Idle
<1>2. QED BY <1>1, SessionMoves DEF Rollback

\* A session that publishes has an approved payrun.
LEMMA PublishBeginKeeps ==
  ASSUME IInv, NEW s \in Sessions, NEW p \in Periods, PublishBegin(s, p) PROVE IInv'
<1> DEFINE w == [at |-> "publish", period |-> p, todo |-> Included(p)]
<1>1. w \in Places BY DEF Places, Included
<1>2. \A t \in Sessions \ {s} : pc[t].at = "publish" => pc[t].period # w.period
  BY DEF PublishBegin, Locked
<1>3. /\ w.period = p /\ w.todo = Included(p) /\ pc' = [pc EXCEPT ![s] = w]
      /\ status[p] = "APPROVED"
  BY DEF PublishBegin
<1> HIDE DEF w
<1>4. {w.period} \X (Included(w.period) \ w.todo) \subseteq files' BY <1>3
<1>5. QED BY <1>1, <1>2, <1>3, <1>4, SessionMoves DEF PublishBegin

\* A payslip that a session counts as written has its file.
LEMMA WritePayslipKeeps ==
  ASSUME IInv, NEW s \in Sessions, WritePayslip(s) PROVE IInv'
<1> PICK e \in pc[s].todo : /\ files' = files \cup {<<pc[s].period, e>>}
                            /\ pc' = [pc EXCEPT ![s].todo = @ \ {e}]
  BY DEF WritePayslip
<1> DEFINE p == pc[s].period
           w == [at |-> "publish", period |-> p, todo |-> pc[s].todo \ {e}]
<1>1. pc[s] = [at |-> "publish", period |-> p, todo |-> pc[s].todo] /\ w \in Places
  BY Where DEF WritePayslip, Places
<1>2. [pc[s] EXCEPT !.todo = @ \ {e}] = w BY <1>1, SMTT(30)
<1>3. /\ status[p] = "APPROVED" /\ {p} \X (Included(p) \ pc[s].todo) \subseteq files
      /\ \A t \in Sessions \ {s} : pc[t].at = "publish" => pc[t].period # p
  BY DEF IInv, Publishing, WritePayslip
<1>4. /\ w.period = p /\ w.todo = pc[s].todo \ {e} /\ pc' = [pc EXCEPT ![s] = w]
  BY <1>2
<1> HIDE DEF w
<1>5. {p} \X (Included(p) \ w.todo) \subseteq files' BY <1>3, <1>4
<1>6. /\ files \subseteq files'
      /\ UNCHANGED <<payroll, changes, status, items, wr, reqs, payslips, agreed>>
  BY DEF WritePayslip
<1> HIDE DEF p
<1>7. QED BY <1>1, <1>3, <1>4, <1>5, <1>6, SessionMoves, ZenonT(40)

\* The files of the payslips that are committed were all written.
LEMMA PublishCommitKeeps ==
  ASSUME IInv, NEW s \in Sessions, PublishCommit(s) PROVE IInv'
<1> DEFINE p == pc[s].period
<1>1. /\ p \in Periods /\ pc[s].todo = {} /\ status[p] = "APPROVED"
      /\ {p} \X (Included(p) \ pc[s].todo) \subseteq files
      /\ \A t \in Sessions \ {s} : pc[t].at = "publish" => pc[t].period # p
  BY Where DEF PublishCommit, IInv, Publishing
<1>2. /\ status' = [status EXCEPT ![p] = "PUBLISHED"]
      /\ payslips' = payslips \cup ({p} \X Included(p)) /\ pc' = [pc EXCEPT ![s] = Idle]
      /\ UNCHANGED <<payroll, changes, items, wr, reqs, files, agreed>>
  BY DEF PublishCommit
<1> HIDE DEF p
<1>3. status'[p] = "PUBLISHED" /\ \A q \in Periods \ {p} : status'[q] = status[q]
  BY <1>1, <1>2 DEF IInv, Typed
<1>4. pc'[s] = Idle /\ \A t \in Sessions \ {s} : pc'[t] = pc[t]
  BY <1>2 DEF IInv, Typed
<1>5. Typed'
  <2>1. Included(p) \in SUBSET Employees BY DEF Included
  <2>2. status' \in [Periods -> Statuses] BY <1>1, <1>2 DEF IInv, Typed, Statuses
  <2>3. pc' \in [Sessions -> Places] BY <1>2 DEF IInv, Typed, Places
  <2>4. QED BY <1>1, <1>2, <2>1, <2>2, <2>3 DEF IInv, Typed
<1>6. Publishing'
  <2> SUFFICES ASSUME NEW t \in Sessions, pc'[t].at = "publish"
               PROVE  /\ status'[pc'[t].period] = "APPROVED"
                      /\ \A u \in Sessions :
                           pc'[u].at = "publish" /\ pc'[u].period = pc'[t].period => u = t
                      /\ {pc'[t].period} \X (Included(pc'[t].period) \ pc'[t].todo)
                           \subseteq files'
    BY <1>2 DEF Publishing, Included
  <2>1. t # s /\ pc'[t] = pc[t] BY <1>4 DEF Idle
  <2>2. pc[t].period \in Periods \ {p} BY <1>1, <2>1, Where
  <2>3. \A u \in Sessions : pc'[u].at = "publish" => u # s /\ pc'[u] = pc[u]
    BY <1>4 DEF Idle
  <2>4. QED BY <1>2, <1>3, <2>1, <2>2, <2>3 DEF IInv, Publishing
<1>7. Linked' BY <1>1, <1>2, <1>3 DEF IInv, Linked
<1>8. Followed'
  <2>1. \A i \in 1..Len(reqs) : reqs[i].payrun \in Periods BY RequestType
  <2>2. QED BY <1>1, <1>2, <1>3, <2>1 DEF IInv, Followed
<1>9. PaidAsSubmitted'
  <2>1. items[p] = agreed[p] /\ {e \in Employees : <<p, e>> \in payslips} = {}
    BY <1>1 DEF IInv, PaidAsSubmitted
  <2>2. {e \in Employees : <<p, e>> \in payslips'} = {e \in Employees : agreed[p][e] = "INCLUDED"}
    BY <1>2, <2>1 DEF Included
  <2>3. \A q \in Periods \ {p} :
          {e \in Employees : <<q, e>> \in payslips'} = {e \in Employees : <<q, e>> \in payslips}
    BY <1>2
  <2>4. QED BY <1>2, <1>3, <2>1, <2>2, <2>3 DEF IInv, PaidAsSubmitted
<1>10. PayslipsHaveFiles' BY <1>1, <1>2 DEF IInv, PayslipsHaveFiles
<1>11. QED BY <1>5, <1>6, <1>7, <1>8, <1>9, <1>10 DEF IInv

-----------------------------------------------------------------------------
\* What only changes requests, and the status of payruns that nobody publishes,
\* leaves sessions and payslips as they were.
LEMMA OthersKeep ==
  ASSUME IInv, NEW p \in Periods,
         UNCHANGED <<payroll, changes, items, payslips, files, pc>>,
         status[p] \notin {"APPROVED", "PUBLISHED"}, status'[p] # "PUBLISHED",
         \A q \in Periods \ {p} : status'[q] = status[q] /\ agreed'[q] = agreed[q],
         status'[p] \in {"PENDING_APPROVAL", "APPROVED"} => items[p] = agreed'[p]
  PROVE  Publishing' /\ PaidAsSubmitted' /\ PayslipsHaveFiles'
<1>1. Publishing'
  <2>1. \A s \in Sessions : pc[s].at = "publish" => pc[s].period \in Periods \ {p}
    BY Where DEF IInv, Publishing
  <2>2. QED BY <2>1 DEF IInv, Publishing, Included
<1>2. PaidAsSubmitted' BY DEF IInv, PaidAsSubmitted
<1>3. PayslipsHaveFiles' BY DEF IInv, PayslipsHaveFiles
<1>4. QED BY <1>1, <1>2, <1>3

\* A submission: the request it is linked to is open when it is new, and
\* neither open nor approved when it is an old one.
LEMMA SubmitNewKeeps ==
  ASSUME IInv, NEW u \in Users, NEW p \in Periods, SubmitNew(u, p) PROVE IInv'
<1> DEFINE r == [payrun |-> p, creator |-> u, payload |-> Totals(p), status |-> "submitted"]
           n == Len(reqs) + 1
<1>1. r \in PayrunRequests /\ r.payrun = p /\ r.status = "submitted"
  BY TotalsType DEF PayrunRequests, RequestStatuses
<1>2. /\ reqs' = Append(reqs, r) /\ status[p] = "DRAFT"
      /\ status' = [status EXCEPT ![p] = "PENDING_APPROVAL"]
      /\ wr' = [wr EXCEPT ![p] = Len(reqs')]
      /\ agreed' = [agreed EXCEPT ![p] = items[p]]
      /\ UNCHANGED <<payroll, changes, items, payslips, files, pc>>
  BY DEF SubmitNew, MarkSubmitted, Submittable
<1> HIDE DEF r
<1>3. /\ reqs \in Seq(PayrunRequests) /\ Len(reqs) \in Nat
      /\ reqs' \in Seq(PayrunRequests) /\ Len(reqs') = n /\ reqs'[n] = r
      /\ \A i \in 1..Len(reqs) : reqs'[i] = reqs[i]
  BY <1>1, <1>2 DEF IInv, Typed
<1>4. /\ status'[p] = "PENDING_APPROVAL" /\ wr'[p] = n /\ agreed'[p] = items[p]
      /\ \A q \in Periods \ {p} : /\ status'[q] = status[q] /\ wr'[q] = wr[q]
                                  /\ agreed'[q] = agreed[q]
  BY <1>2, <1>3 DEF IInv, Typed
<1>5. Typed' BY <1>2, <1>3 DEF IInv, Typed, Statuses
<1>6. Linked'
  <2> SUFFICES ASSUME NEW q \in Periods
               PROVE  /\ wr'[q] \in 0..n
                      /\ wr'[q] = 0 <=> status'[q] \in {"NONE", "DRAFT"}
                      /\ wr'[q] > 0 => reqs'[wr'[q]].payrun = q
                      /\ status'[q] \in {"APPROVED", "PUBLISHED"} =>
                           reqs'[wr'[q]].status = "approved"
    BY <1>3 DEF Linked
  <2>1. CASE q = p BY <1>1, <1>3, <1>4, <2>1
  <2>2. CASE q # p
    <3>1. /\ wr[q] \in 0..Len(reqs) /\ (wr[q] = 0 <=> status[q] \in {"NONE", "DRAFT"})
          /\ wr[q] > 0 => reqs[wr[q]].payrun = q
          /\ status[q] \in {"APPROVED", "PUBLISHED"} => reqs[wr[q]].status = "approved"
      BY DEF IInv, Linked
    <3>2. wr[q] > 0 => reqs'[wr[q]] = reqs[wr[q]] BY <1>3, <3>1
    <3>3. QED BY <1>3, <1>4, <2>2, <3>1, <3>2
  <2>3. QED BY <2>1, <2>2
<1>7. Followed'
  <2> SUFFICES ASSUME NEW i \in 1..n
               PROVE  LET q == reqs'[i].payrun IN
                      /\ reqs'[i].status = "submitted" =>
                           status'[q] = "PENDING_APPROVAL" /\ wr'[q] = i
                      /\ reqs'[i].status = "approved" =>
                           status'[q] \in {"APPROVED", "PUBLISHED"} /\ wr'[q] = i
    BY <1>3 DEF Followed
  <2>1. CASE i = n BY <1>1, <1>3, <1>4, <2>1
  <2>2. CASE i # n
    <3>1. i \in 1..Len(reqs) /\ reqs'[i] = reqs[i] BY <1>3, <2>2
    <3>2. reqs[i].payrun \in Periods BY <3>1, RequestType
    <3>3. QED BY <1>2, <1>4, <3>1, <3>2 DEF IInv, Followed
  <2>3. QED BY <2>1, <2>2
<1>8. QED BY <1>2, <1>4, <1>5, <1>6, <1>7, OthersKeep DEF IInv

\* A retried submission links the draft to the request stored for it.
LEMMA SubmitAgainKeeps ==
  ASSUME IInv, NEW u \in Users, NEW p \in Periods, SubmitAgain(u, p) PROVE IInv'
<1> PICK i \in 1..Len(reqs) : reqs[i].payrun = p /\ MarkSubmitted(p, i)
  BY DEF SubmitAgain, StoredRequests
<1>1. /\ status[p] = "DRAFT" /\ reqs' = reqs
      /\ status' = [status EXCEPT ![p] = "PENDING_APPROVAL"]
      /\ wr' = [wr EXCEPT ![p] = i] /\ agreed' = [agreed EXCEPT ![p] = items[p]]
      /\ UNCHANGED <<payroll, changes, items, payslips, files, pc>>
  BY DEF SubmitAgain, MarkSubmitted, Submittable
<1>2. Len(reqs) \in Nat /\ i \in Nat /\ i > 0 BY DEF IInv, Typed
<1>3. /\ status'[p] = "PENDING_APPROVAL" /\ wr'[p] = i /\ agreed'[p] = items[p]
      /\ \A q \in Periods \ {p} : /\ status'[q] = status[q] /\ wr'[q] = wr[q]
                                  /\ agreed'[q] = agreed[q]
  BY <1>1 DEF IInv, Typed
<1>4. Typed' BY <1>1, <1>2 DEF IInv, Typed, Statuses
<1>5. Linked' BY <1>1, <1>2, <1>3 DEF IInv, Linked
<1>6. Followed'
  <2>1. \A j \in 1..Len(reqs) : reqs[j].payrun \in Periods BY RequestType
  <2>2. QED BY <1>1, <1>3, <2>1 DEF IInv, Followed
<1>7. QED BY <1>1, <1>3, <1>4, <1>5, <1>6, OthersKeep DEF IInv

\* A decision is about the request the payrun waits for.
LEMMA Decided ==
  ASSUME IInv, NEW i \in 1..Len(reqs), NEW o \in RequestStatuses, Decide(i, o)
  PROVE  LET p == reqs[i].payrun IN
         /\ p \in Periods /\ status[p] = "PENDING_APPROVAL" /\ wr[p] = i
         /\ items[p] = agreed[p]
         /\ reqs' \in Seq(PayrunRequests) /\ Len(reqs') = Len(reqs)
         /\ reqs'[i].payrun = p /\ reqs'[i].status = o
         /\ \A j \in 1..Len(reqs) : j # i => reqs'[j] = reqs[j]
         /\ \A q \in Periods : q # p => wr[q] # i
<1> DEFINE r == [reqs[i] EXCEPT !.status = o]
<1>1. reqs[i] \in PayrunRequests /\ reqs[i].payrun \in Periods BY RequestType
<1>2. r \in PayrunRequests /\ r.payrun = reqs[i].payrun /\ r.status = o
  BY <1>1 DEF PayrunRequests
<1>3. reqs' = [reqs EXCEPT ![i] = r] BY DEF Decide
<1> HIDE DEF r
<1>4. /\ reqs' \in Seq(PayrunRequests) /\ Len(reqs') = Len(reqs) /\ reqs'[i] = r
      /\ \A j \in 1..Len(reqs) : j # i => reqs'[j] = reqs[j]
  BY <1>2, <1>3 DEF IInv, Typed
<1>5. status[reqs[i].payrun] = "PENDING_APPROVAL" /\ wr[reqs[i].payrun] = i
  BY DEF Decide, IInv, Followed
<1>6. items[reqs[i].payrun] = agreed[reqs[i].payrun] BY <1>1, <1>5 DEF IInv, PaidAsSubmitted
<1>7. \A q \in Periods : q # reqs[i].payrun => wr[q] # i
  BY DEF IInv, Linked
<1>8. QED BY <1>1, <1>2, <1>4, <1>5, <1>6, <1>7

\* What the three decisions have in common: the request is no longer open, and
\* the payrun is approved if and only if the request was.
LEMMA DecisionKeeps ==
  ASSUME IInv, NEW i \in 1..Len(reqs), NEW o \in RequestStatuses \ {"submitted"},
         Decide(i, o), NEW st \in {"PENDING_APPROVAL", "APPROVED", "DRAFT"}, NEW k \in {0, i},
         status' = [status EXCEPT ![reqs[i].payrun] = st],
         wr' = [wr EXCEPT ![reqs[i].payrun] = k],
         st = "APPROVED" <=> o = "approved", k = 0 <=> st = "DRAFT",
         UNCHANGED <<payroll, changes, items, payslips, files, pc, agreed>>
  PROVE  IInv'
<1> DEFINE p == reqs[i].payrun
<1>1. /\ p \in Periods /\ status[p] = "PENDING_APPROVAL" /\ wr[p] = i
      /\ items[p] = agreed[p]
      /\ reqs' \in Seq(PayrunRequests) /\ Len(reqs') = Len(reqs)
      /\ reqs'[i].payrun = p /\ reqs'[i].status = o
      /\ \A j \in 1..Len(reqs) : j # i => reqs'[j] = reqs[j]
      /\ \A q \in Periods : q # p => wr[q] # i
  BY Decided
<1>2. status' = [status EXCEPT ![p] = st] /\ wr' = [wr EXCEPT ![p] = k] OBVIOUS
<1>3. Len(reqs) \in Nat /\ i \in Nat /\ k \in Nat BY DEF IInv, Typed
<1>4. \A j \in 1..Len(reqs) : reqs[j].payrun \in Periods BY RequestType
<1> HIDE DEF p
<1>5. /\ status'[p] = st /\ wr'[p] = k
      /\ \A q \in Periods \ {p} : status'[q] = status[q] /\ wr'[q] = wr[q]
  BY <1>1, <1>2 DEF IInv, Typed
<1>6. Typed'
  <2>1. status' \in [Periods -> Statuses] BY <1>1, <1>2 DEF IInv, Typed, Statuses
  <2>2. wr' \in [Periods -> Nat] BY <1>1, <1>2, <1>3 DEF IInv, Typed
  <2>3. QED BY <1>1, <2>1, <2>2 DEF IInv, Typed
<1>7. Linked'
  <2> SUFFICES ASSUME NEW q \in Periods
               PROVE  /\ wr'[q] \in 0..Len(reqs)
                      /\ wr'[q] = 0 <=> status'[q] \in {"NONE", "DRAFT"}
                      /\ wr'[q] > 0 => reqs'[wr'[q]].payrun = q
                      /\ status'[q] \in {"APPROVED", "PUBLISHED"} =>
                           reqs'[wr'[q]].status = "approved"
    BY <1>1 DEF Linked
  <2>1. CASE q = p BY <1>1, <1>3, <1>5, <2>1
  <2>2. CASE q # p
    <3>1. /\ wr[q] \in 0..Len(reqs) /\ (wr[q] = 0 <=> status[q] \in {"NONE", "DRAFT"})
          /\ wr[q] > 0 => reqs[wr[q]].payrun = q
          /\ status[q] \in {"APPROVED", "PUBLISHED"} => reqs[wr[q]].status = "approved"
      BY DEF IInv, Linked
    <3>2. wr[q] > 0 => reqs'[wr[q]] = reqs[wr[q]] BY <1>1, <1>3, <2>2, <3>1
    <3>3. QED BY <1>5, <2>2, <3>1, <3>2
  <2>3. QED BY <2>1, <2>2
<1>8. Followed'
  <2> SUFFICES ASSUME NEW j \in 1..Len(reqs)
               PROVE  LET q == reqs'[j].payrun IN
                      /\ reqs'[j].status = "submitted" =>
                           status'[q] = "PENDING_APPROVAL" /\ wr'[q] = j
                      /\ reqs'[j].status = "approved" =>
                           status'[q] \in {"APPROVED", "PUBLISHED"} /\ wr'[q] = j
    BY <1>1 DEF Followed
  <2>1. CASE j = i BY <1>1, <1>5, <2>1
  <2>2. CASE j # i
    <3>1. reqs'[j] = reqs[j] /\ reqs[j].payrun \in Periods BY <1>1, <1>4, <2>2
    <3>2. reqs[j].status \in {"submitted", "approved"} => reqs[j].payrun # p
      BY <1>1, <2>2 DEF IInv, Followed
    <3>3. QED BY <1>5, <3>1, <3>2 DEF IInv, Followed
  <2>3. QED BY <2>1, <2>2
<1>9. Publishing' /\ PaidAsSubmitted' /\ PayslipsHaveFiles'
  BY <1>1, <1>5, OthersKeep
<1>10. QED BY <1>6, <1>7, <1>8, <1>9 DEF IInv

\* An approval.
LEMMA ApproveKeeps ==
  ASSUME IInv, NEW i \in 1..Len(reqs), Approve(i) PROVE IInv'
<1> DEFINE p == reqs[i].payrun
<1>1. Decide(i, "approved") /\ "approved" \in RequestStatuses \ {"submitted"}
  BY DEF Approve, RequestStatuses
<1>2. p \in Periods /\ status[p] = "PENDING_APPROVAL" /\ wr[p] = i BY <1>1, Decided
<1>3. status' = [status EXCEPT ![p] = "APPROVED"] /\ wr' = [wr EXCEPT ![p] = i]
  BY <1>2 DEF Approve, IInv, Typed
<1>4. i # 0 BY DEF IInv, Typed
<1>5. QED BY <1>1, <1>3, <1>4, DecisionKeeps DEF Approve

\* A refusal.
LEMMA RejectKeeps ==
  ASSUME IInv, NEW i \in 1..Len(reqs), Reject(i) PROVE IInv'
<1> DEFINE p == reqs[i].payrun
<1>1. Decide(i, "rejected") /\ "rejected" \in RequestStatuses \ {"submitted"}
  BY DEF Reject, RequestStatuses
<1>2. p \in Periods /\ status[p] = "PENDING_APPROVAL" /\ wr[p] = i BY <1>1, Decided
<1>3. status' = [status EXCEPT ![p] = "DRAFT"] /\ wr' = [wr EXCEPT ![p] = 0]
  BY <1>2 DEF Reject, IInv, Typed
<1>4. QED BY <1>1, <1>3, DecisionKeeps DEF Reject

\* A withdrawal.
LEMMA CancelKeeps ==
  ASSUME IInv, NEW i \in 1..Len(reqs), Cancel(i) PROVE IInv'
<1> DEFINE p == reqs[i].payrun
<1>1. Decide(i, "cancelled") /\ "cancelled" \in RequestStatuses \ {"submitted"}
  BY DEF Cancel, RequestStatuses
<1>2. p \in Periods /\ status[p] = "PENDING_APPROVAL" /\ wr[p] = i BY <1>1, Decided
<1>3. status' = [status EXCEPT ![p] = "PENDING_APPROVAL"] /\ wr' = [wr EXCEPT ![p] = i]
  BY <1>2 DEF Cancel, IInv, Typed
<1>4. i # 0 BY DEF IInv, Typed
<1>5. QED BY <1>1, <1>3, <1>4, DecisionKeeps DEF Cancel

-----------------------------------------------------------------------------
\* Every step keeps the invariant.
LEMMA InvNext == IInv /\ [Next]_vars => IInv'
<1> SUFFICES ASSUME IInv, [Next]_vars PROVE IInv' OBVIOUS
<1>1. CASE UNCHANGED vars
  BY <1>1 DEF IInv, Typed, Publishing, Linked, Followed, PaidAsSubmitted, PayslipsHaveFiles,
              Included, vars
<1>2. CASE Next
  <2>1. CASE PayrollChanges BY <2>1, PayrollChangesKeeps
  <2>2. CASE \E s \in Sessions, p \in Periods : GenerateBegin(s, p) \/ PublishBegin(s, p)
    BY <2>2, GenerateBeginKeeps, PublishBeginKeeps
  <2>3. CASE \E s \in Sessions :
               \/ GenerateInsert(s) \/ GenerateConflict(s) \/ ComputeItems(s)
               \/ WritePayslip(s) \/ PublishCommit(s) \/ Rollback(s)
    BY <2>3, GenerateInsertKeeps, GenerateConflictKeeps, ComputeItemsKeeps,
       WritePayslipKeeps, PublishCommitKeeps, RollbackKeeps
  <2>4. CASE \E u \in Users, p \in Periods : SubmitNew(u, p) \/ SubmitAgain(u, p)
    BY <2>4, SubmitNewKeeps, SubmitAgainKeeps
  <2>5. CASE \E i \in 1..Len(reqs) : Approve(i) \/ Reject(i) \/ Cancel(i)
    BY <2>5, ApproveKeeps, RejectKeeps, CancelKeeps
  <2>6. QED BY <1>2, <2>1, <2>2, <2>3, <2>4, <2>5 DEF Next
<1>3. QED BY <1>1, <1>2

\* Whatever the interleaving, payruns are in the states the invariant describes.
THEOREM Invariance == Spec => []IInv
BY InvInit, InvNext, PTL DEF Spec

\* What is approved and paid is what was submitted: no generation recomputes
\* the items of a payrun that awaits approval or has it.
THEOREM PaidAsSubmittedCorrect == Spec => []PaidAsSubmitted
<1>1. IInv => PaidAsSubmitted BY DEF IInv
<1>2. QED BY <1>1, Invariance, PTL

\* A payslip that is committed has its file.
THEOREM PayslipsHaveFilesCorrect == Spec => []PayslipsHaveFiles
<1>1. IInv => PayslipsHaveFiles BY DEF IInv
<1>2. QED BY <1>1, Invariance, PTL

\* Approved means approved by the linked request, and at most one request of a
\* payrun is open.
LEMMA ApprovedFromInv == IInv => ApprovedByItsRequest
<1> SUFFICES ASSUME IInv, NEW p \in Periods
             PROVE  /\ status[p] \in {"APPROVED", "PUBLISHED"}
                         <=> wr[p] > 0 /\ reqs[wr[p]].status = "approved"
                    /\ wr[p] > 0 => reqs[wr[p]].payrun = p
                    /\ Cardinality({i \in 1..Len(reqs) : /\ reqs[i].payrun = p
                                                         /\ reqs[i].status = "submitted"}) <= 1
  BY DEF ApprovedByItsRequest
<1> DEFINE open == {i \in 1..Len(reqs) : reqs[i].payrun = p /\ reqs[i].status = "submitted"}
<1>1. wr[p] \in Nat /\ Len(reqs) \in Nat BY DEF IInv, Typed
<1>2. wr[p] > 0 => wr[p] \in 1..Len(reqs) /\ reqs[wr[p]].payrun = p
  BY <1>1 DEF IInv, Linked
<1>3. status[p] \in {"APPROVED", "PUBLISHED"} => wr[p] > 0 /\ reqs[wr[p]].status = "approved"
  BY <1>1 DEF IInv, Linked
<1>4. wr[p] > 0 /\ reqs[wr[p]].status = "approved" => status[p] \in {"APPROVED", "PUBLISHED"}
  BY <1>2 DEF IInv, Followed
<1>5. open \subseteq {wr[p]} BY DEF IInv, Followed
<1>6. Cardinality(open) <= 1
  <2>1. IsFiniteSet({wr[p]}) /\ Cardinality({wr[p]}) = 1 BY FS_Singleton
  <2>2. QED BY <1>5, <2>1, FS_Subset
<1>7. QED BY <1>2, <1>3, <1>4, <1>6

\* A payrun is approved or published exactly when the request it is linked to
\* was approved, and approvers never see two open requests for it.
THEOREM ApprovedByItsRequestCorrect == Spec => []ApprovedByItsRequest
BY ApprovedFromInv, Invariance, PTL

-----------------------------------------------------------------------------
(* PayrollItems implements PayrunLifecycle: what administrators and        *)
(* attendance set up changes what computing an item would give for at most *)
(* one employee at a time, and the amounts follow the life of the payrun.  *)

\* What computing would give now is kept in step with the setup.
PayInv ==
  /\ comps \in Seq(Compensations) /\ changes \in Nat
  /\ payroll = PayrollNow(staff, comps, days)

\* The compensation in force is one of those there are.
LEMMA EffectiveIsStored ==
  ASSUME NEW cs \in Seq(Compensations), NEW e, EffectiveCompensation(cs, e) # 0
  PROVE  /\ EffectiveCompensation(cs, e) \in DOMAIN cs
         /\ cs[EffectiveCompensation(cs, e)].employee = e
         /\ cs[EffectiveCompensation(cs, e)].from <= PeriodStart
         /\ PeriodStart <= cs[EffectiveCompensation(cs, e)].to
<1> DEFINE inForce == {k \in DOMAIN cs : cs[k].employee = e /\ cs[k].from <= PeriodStart
                                         /\ PeriodStart <= cs[k].to}
           latest == {k \in inForce : \A j \in inForce : cs[j].from <= cs[k].from}
           froms == {cs[k].from : k \in inForce}
<1>1. inForce # {} /\ EffectiveCompensation(cs, e) = Max(latest)
  BY DEF EffectiveCompensation
<1>2. \A k \in DOMAIN cs : cs[k] \in Compensations /\ k \in Nat /\ k <= Len(cs) OBVIOUS
<1>3. PICK k \in inForce : \A j \in inForce : cs[j].from <= cs[k].from
  <2>1. froms \subseteq Nat /\ froms # {} /\ \A f \in froms : f <= PeriodStart
    BY <1>1, <1>2, PayrollAssumption
  <2>2. PICK f \in froms : \A g \in froms : g <= f
    BY <2>1, PayrollAssumption, GreatestNumber
  <2>3. QED BY <2>2
<1>4. latest # {} /\ latest \subseteq Nat /\ Len(cs) \in Nat /\ \A j \in latest : j <= Len(cs)
  BY <1>2, <1>3
<1> HIDE DEF latest
<1>5. Max(latest) \in latest BY <1>4, MaxIsGreatest
<1>6. QED BY <1>1, <1>5 DEF latest

\* A compensation of another employee changes nothing for this one.
LEMMA OthersPayable ==
  ASSUME NEW cs \in Seq(Compensations), NEW c \in Compensations, NEW ds,
         NEW e, c.employee # e
  PROVE  Payable(Append(cs, c), ds, e) = Payable(cs, ds, e)
<1> DEFINE ds2 == Append(cs, c)
           inForce(l) == {k \in DOMAIN l : l[k].employee = e /\ l[k].from <= PeriodStart
                                           /\ PeriodStart <= l[k].to}
           latest(l) == {k \in inForce(l) : \A j \in inForce(l) : l[j].from <= l[k].from}
<1>1. /\ DOMAIN ds2 = DOMAIN cs \cup {Len(cs) + 1}
      /\ ds2[Len(cs) + 1] = c /\ \A k \in DOMAIN cs : ds2[k] = cs[k]
  OBVIOUS
<1>2. inForce(ds2) = inForce(cs) BY <1>1
<1>3. latest(ds2) = latest(cs)
  <2>1. \A k \in inForce(cs) : ds2[k] = cs[k] BY <1>1
  <2> HIDE DEF inForce, ds2
  <2>2. QED BY <1>2, <2>1
<1>4. EffectiveCompensation(ds2, e) = EffectiveCompensation(cs, e)
  BY <1>2, <1>3 DEF EffectiveCompensation
<1>5. QED BY <1>1, <1>4, EffectiveIsStored DEF Payable

\* A change of the setup changes the amounts of payruns to come, or nothing.
LEMMA SetupImplements ==
  ASSUME PayInv, SetupStep
  PROVE  PayInv' /\ (PayrollChanges \/ UNCHANGED vars)
<1>1. /\ payroll' = PayrollNow(staff', comps', days')
      /\ changes' = IF payroll' = payroll THEN changes ELSE changes + 1
      /\ changes' <= MaxChanges
      /\ UNCHANGED <<status, items, wr, reqs, payslips, files, pc, agreed>>
  BY DEF SetupStep, lifecycle
<1>2. \E e : \A f \in Employees : f # e => payroll'[f] = payroll[f]
  <2>1. CASE UNCHANGED <<staff, comps, days>> BY <1>1, <2>1 DEF PayInv
  <2>2. CASE \E c \in Compensations : InsertCompensation(c)
    <3> PICK c \in Compensations : InsertCompensation(c) BY <2>2
    <3>1. comps' = comps \/ comps' = Append(comps, c) BY DEF InsertCompensation
    <3>2. staff' = staff /\ days' = days BY DEF InsertCompensation
    <3>3. ASSUME NEW f \in Employees, f # c.employee PROVE payroll'[f] = payroll[f]
      BY <1>1, <3>1, <3>2, <3>3, OthersPayable, ZenonT(40) DEF PayInv, PayrollNow
    <3>4. QED BY <3>3
  <2>3. CASE \E e \in Employees : SummariesChange(e)
    <3> PICK e \in Employees : SummariesChange(e) BY <2>3
    <3>1. /\ \A f \in Employees : f # e => days'[f] = days[f]
          /\ comps' = comps /\ staff' = staff
      BY DEF SummariesChange
    <3>2. \A f \in Employees : f # e => payroll'[f] = payroll[f]
      BY <1>1, <3>1 DEF PayInv, PayrollNow, Payable
    <3>3. QED BY <3>2
  <2>4. CASE \E e \in Employees : StaffChanges(e)
    <3> PICK e \in Employees : StaffChanges(e) BY <2>4
    <3>1. comps' = comps /\ days' = days /\ \A f : f # e => (f \in staff' <=> f \in staff)
      BY DEF StaffChanges
    <3>2. \A f \in Employees : f # e => payroll'[f] = payroll[f]
      BY <1>1, <3>1 DEF PayInv, PayrollNow
    <3>3. QED BY <3>2
  <2>5. QED
    BY <2>1, <2>2, <2>3, <2>4 DEF SetupStep, CreateStructure, CreateCalendar, CreateComponent,
       CreatePeriod, Create, CheckCompensation, CheckLine, InsertLine
<1>3. comps' \in Seq(Compensations)
  <2>1. comps' = comps \/ \E c \in Compensations : comps' = Append(comps, c)
    BY DEF SetupStep, CreateStructure, CreateCalendar, CreateComponent, CreatePeriod, Create,
       CheckCompensation, InsertCompensation, CheckLine, InsertLine, SummariesChange,
       StaffChanges
  <2>2. QED BY <2>1 DEF PayInv
<1>4. payroll \in Items /\ payroll' \in Items
  BY <1>1 DEF PayInv, PayrollNow, Items, ItemStatuses
<1>5. PayInv' BY <1>1, <1>3 DEF PayInv
<1>6. CASE payroll' = payroll BY <1>1, <1>5, <1>6 DEF vars
<1>7. CASE payroll' # payroll
  <2>1. PICK e : \A f \in Employees : f # e => payroll'[f] = payroll[f] BY <1>2
  <2>2. e \in Employees /\ payroll'[e] # payroll[e] BY <1>4, <1>7, <2>1 DEF Items
  <2>3. payroll' = [payroll EXCEPT ![e] = payroll'[e]] BY <1>4, <2>1 DEF Items
  <2>4. payroll'[e] \in ItemStatuses BY <1>4, <2>2 DEF Items
  <2>5. changes < MaxChanges /\ changes' = changes + 1
    BY <1>1, <1>7, PayrunAssumption DEF PayInv
  <2>6. QED BY <1>1, <1>5, <2>2, <2>3, <2>4, <2>5 DEF PayrollChanges
<1>8. QED BY <1>5, <1>6, <1>7

\* Every step with the real amounts is one of the lifecycle, or none.
LEMMA StepImplements ==
  ASSUME PayInv, [PayNext]_allvars
  PROVE  PayInv' /\ [Next]_vars
<1>1. CASE UNCHANGED allvars BY <1>1 DEF allvars, setup, vars, PayInv
<1>2. CASE SetupStep BY <1>2, SetupImplements DEF Next
<1>3. CASE LifecycleStep
  <2>1. Next BY <1>3 DEF LifecycleStep, Next
  <2>2. payroll' = payroll /\ changes' = changes
    BY <1>3 DEF LifecycleStep, GenerateBegin, PublishBegin, GenerateConflict, WritePayslip,
       PublishCommit, Rollback, SubmitNew, SubmitAgain, MarkSubmitted, Approve, Reject, Cancel
  <2>3. QED BY <1>3, <2>1, <2>2 DEF LifecycleStep, setup, PayInv
<1>4. CASE \E s \in Sessions : Compute(s)
  <2>1. PICK s \in Sessions : Compute(s) BY <1>4
  <2>2. Next BY <2>1 DEF Compute, Next
  <2>3. payroll' = payroll /\ changes' = changes
    BY <2>1 DEF Compute, GenerateInsert, ComputeItems
  <2>4. QED BY <2>1, <2>2, <2>3 DEF Compute, setup, PayInv
<1>5. QED BY <1>1, <1>2, <1>3, <1>4 DEF PayNext

\* Setting up payroll and computing amounts only does to a payrun what its
\* life allows.
THEOREM LifecycleImplemented == PaySpec => Spec
<1>1. PayInit => Init /\ PayInv
  BY DEF PayInit, PayInv, Init
<1>2. PayInv /\ [PayNext]_allvars => PayInv' /\ [Next]_vars BY StepImplements
<1>3. QED BY <1>1, <1>2, PTL DEF PaySpec, Spec

\* So what holds of every payrun holds with the real amounts.
THEOREM PaidAsAgreed ==
  PaySpec => [](PaidAsSubmitted /\ ApprovedByItsRequest /\ PayslipsHaveFiles)
BY LifecycleImplemented, PaidAsSubmittedCorrect, ApprovedByItsRequestCorrect,
   PayslipsHaveFilesCorrect, PTL

-----------------------------------------------------------------------------
(* The amounts of an item: ItemsAddUp.  Each pass over the lines is a fold;  *)
(* what it has summed up is what the lines priced so far add up to.         *)

\* No component is there twice.
Apart(s) == \A j, k \in DOMAIN s : s[j].component = s[k].component => j = k

\* Ordered, the lines of a structure are the same lines.
LEMMA LinesInOrder ==
  ASSUME NEW ls \in Seq(Lines), Apart(ls)
  PROVE  /\ DOMAIN OrderedLines(ls) = 1..Len(ls)
         /\ \A i \in 1..Len(ls) : OrderedLines(ls)[i] \in Lines
         /\ Apart(OrderedLines(ls))
<1>1. \A n \in Nat : IsFiniteSet(1..n) /\ Cardinality(1..n) = n BY FS_Interval
<1> DEFINE D == DOMAIN ls
           precedes(j, k) == \/ ls[j].order < ls[k].order
                             \/ ls[j].order = ls[k].order /\ j < k
           before == {p \in D \X D : precedes(p[1], p[2])}
           ahead(k) == {j \in D : precedes(j, k)}
           place(k, i) == Cardinality(ahead(k)) = i - 1
<1> PICK n \in Nat : n = Len(ls) OBVIOUS
<1>2. D = 1..n /\ IsFiniteSet(D) /\ Cardinality(D) = n
  <2>1. D = 1..n OBVIOUS
  <2>2. QED BY <1>1, <2>1
<1>3. \A j \in D : ls[j] \in Lines /\ ls[j].order \in Int /\ j \in Nat BY PayrollAssumption
<1>4. \A j, k \in D : <<j, k>> \in before <=> precedes(j, k) OBVIOUS
<1>5. \A k \in D : ahead(k) = {j \in D : <<j, k>> \in before} BY <1>4
<1>6. ASSUME NEW i \in 1..n PROVE \E k \in D : place(k, i)
  <2>1. \A j \in D : <<j, j>> \notin before BY <1>3, <1>4
  <2>2. \A j, k \in D : j # k => <<j, k>> \in before \/ <<k, j>> \in before
    <3>1. \A j, k \in D : j # k => precedes(j, k) \/ precedes(k, j) BY <1>3
    <3> HIDE DEF D, precedes, before
    <3>2. QED BY <1>4, <3>1
  <2>3. \A j, k, l \in D : <<j, k>> \in before /\ <<k, l>> \in before => <<j, l>> \in before
    <3>1. \A j, k, l \in D : precedes(j, k) /\ precedes(k, l) => precedes(j, l) BY <1>3
    <3> HIDE DEF D, precedes, before
    <3>2. QED BY <1>4, <3>1
  <2> HIDE DEF D, before
  <2>4. \A m \in 1..Cardinality(D) :
          \E k \in D : Cardinality({j \in D : <<j, k>> \in before}) = m - 1
    <3>1. IsFiniteSet(D) BY <1>2
    <3> HIDE DEF precedes, ahead, place
    <3>2. QED BY <2>1, <2>2, <2>3, <3>1, EachPlaceTaken
  <2> HIDE DEF ahead
  <2>5. \E k \in D : Cardinality({j \in D : <<j, k>> \in before}) = i - 1 BY <1>2, <2>4
  <2>6. QED BY <1>5, <2>5
<1> DEFINE at(i) == CHOOSE k \in D : place(k, i)
           os == OrderedLines(ls)
<1>7. os = [i \in D |-> ls[at(i)]] BY DEF OrderedLines
<1> HIDE DEF os, place, D
<1>8. \A i \in 1..n : at(i) \in D /\ place(at(i), i) BY <1>6
<1> HIDE DEF at
<1>9. \A i, j \in 1..n : at(i) = at(j) => i = j
  <2>1. ASSUME NEW i \in 1..n, NEW j \in 1..n, at(i) = at(j) PROVE i = j
    <3>1. place(at(i), i) /\ place(at(i), j) BY <1>8, <2>1
    <3>2. i - 1 = j - 1 BY <3>1 DEF place
    <3>3. QED BY <3>2
  <2>2. QED BY <2>1
<1>10. DOMAIN os = 1..n /\ \A i \in 1..n : os[i] = ls[at(i)] BY <1>2, <1>7
<1>11. \A i \in 1..n : os[i] \in Lines BY <1>3, <1>8, <1>10
<1>12. Apart(os)
  <2>1. ASSUME NEW i \in 1..n, NEW j \in 1..n, os[i].component = os[j].component PROVE i = j
    <3>1. ls[at(i)].component = ls[at(j)].component BY <1>10, <2>1
    <3>2. at(i) \in DOMAIN ls /\ at(j) \in DOMAIN ls BY <1>8 DEF D
    <3>3. at(i) = at(j) BY <3>1, <3>2 DEF Apart
    <3>4. QED BY <1>9, <3>3
  <2>2. QED BY <1>10, <2>1 DEF Apart
<1>13. QED BY <1>10, <1>11, <1>12 DEF os

-----------------------------------------------------------------------------
\* What a pass carries along.
Rows == [component : {l.component : l \in Lines}, type : {"EARNING", "DEDUCTION"},
         mode : {l.mode : l \in Lines}, value : Int, amount : Int]
Accounts == [prorated : Int, earnings : Int, fixed : Int, deductions : Int,
             staged : Seq(Lines), lines : Seq(Rows)]

FixedLines(acc) == {k \in LinesOf(acc, "EARNING") : acc.lines[k].mode = "FIXED"}

Summed(acc) ==
  /\ acc.earnings = LineSum(acc, LinesOf(acc, "EARNING"))
  /\ acc.deductions = LineSum(acc, LinesOf(acc, "DEDUCTION"))

\* The row that prices a line.
RowOf(l, amount) == [component |-> l.component, type |-> l.type, mode |-> l.mode,
                     value |-> l.value, amount |-> amount]

\* What an account becomes when a line is priced.
Prices(acc, l, amount, new) ==
  /\ new \in Accounts
  /\ new.prorated = acc.prorated /\ new.fixed = acc.fixed /\ new.staged = acc.staged
  /\ new.earnings = acc.earnings + IF l.type = "EARNING" THEN amount ELSE 0
  /\ new.deductions = acc.deductions + IF l.type = "EARNING" THEN 0 ELSE amount
  /\ new.lines = Append(acc.lines, RowOf(l, amount))

\* A line that is priced adds its row and its amount.
LEMMA LineAdded ==
  ASSUME NEW acc \in Accounts, NEW l \in Lines, NEW amount \in Int
  PROVE  Prices(acc, l, amount, AddLine(acc, l, amount)) /\ RowOf(l, amount) \in Rows
<1>1. l.type \in {"EARNING", "DEDUCTION"} /\ l.value \in Int BY PayrollAssumption
<1>2. RowOf(l, amount) \in Rows BY <1>1 DEF RowOf, Rows
<1> PICK r \in Rows : r = RowOf(l, amount) BY <1>2
<1>3. acc.earnings \in Int /\ acc.deductions \in Int /\ acc.lines \in Seq(Rows) BY DEF Accounts
<1>4. Append(acc.lines, r) \in Seq(Rows) BY <1>3
<1> PICK rows \in Seq(Rows) : rows = Append(acc.lines, r) BY <1>4
<1> PICK e \in Int, d \in Int : e = acc.earnings + amount /\ d = acc.deductions + amount
  BY <1>3
<1>5. CASE l.type = "EARNING"
  <2>1. AddLine(acc, l, amount) = [acc EXCEPT !.earnings = e, !.lines = rows]
    BY <1>5 DEF AddLine, RowOf
  <2>2. PICK new : new = [acc EXCEPT !.earnings = e, !.lines = rows] OBVIOUS
  <2>3. new \in Accounts BY <2>2 DEF Accounts
  <2>4. /\ new.prorated = acc.prorated /\ new.fixed = acc.fixed /\ new.staged = acc.staged
        /\ new.earnings = e /\ new.deductions = acc.deductions /\ new.lines = rows
    BY <2>2 DEF Accounts
  <2>5. Prices(acc, l, amount, new) BY <1>3, <1>5, <2>3, <2>4 DEF Prices
  <2>6. QED BY <1>2, <2>1, <2>2, <2>5
<1>6. CASE l.type = "DEDUCTION"
  <2>1. AddLine(acc, l, amount) = [acc EXCEPT !.deductions = d, !.lines = rows]
    BY <1>6 DEF AddLine, RowOf
  <2>2. PICK new : new = [acc EXCEPT !.deductions = d, !.lines = rows] OBVIOUS
  <2>3. new \in Accounts BY <2>2 DEF Accounts
  <2>4. /\ new.prorated = acc.prorated /\ new.fixed = acc.fixed /\ new.staged = acc.staged
        /\ new.earnings = acc.earnings /\ new.deductions = d /\ new.lines = rows
    BY <2>2 DEF Accounts
  <2>5. Prices(acc, l, amount, new) BY <1>3, <1>6, <2>3, <2>4 DEF Prices
  <2>6. QED BY <1>2, <2>1, <2>2, <2>5
<1>7. QED BY <1>1, <1>5, <1>6

\* Line n is one more than the lines ks, which are as they were.
OneMore(acc, new, ks, n) ==
  /\ IsFiniteSet(ks) /\ n \notin ks
  /\ \A k \in ks : acc.lines[k].amount \in Int /\ new.lines[k] = acc.lines[k]
  /\ new.lines[n].amount \in Int

\* The sum of some lines when there is one line more.
LEMMA SumWithLine ==
  ASSUME NEW acc, NEW new, NEW ks, NEW n, OneMore(acc, new, ks, n)
  PROVE  /\ LineSum(acc, ks) \in Int /\ LineSum(new, ks) = LineSum(acc, ks)
         /\ LineSum(new, ks \cup {n}) = LineSum(acc, ks) + new.lines[n].amount
<1> DEFINE f == [k \in ks |-> acc.lines[k].amount]
           g == [k \in ks |-> new.lines[k].amount]
           all == ks \cup {n}
           h == [k \in all |-> new.lines[k].amount]
<1>1. IsFiniteSet(ks) /\ IsFiniteSet(all)
  <2>1. IsFiniteSet(ks) BY DEF OneMore
  <2>2. QED BY <2>1, FS_AddElement
<1>2. \A k \in ks : f[k] \in Int /\ g[k] = f[k] /\ h[k] = f[k] BY DEF OneMore
<1>3. h[n] = new.lines[n].amount /\ n \in all /\ all \ {n} = ks BY DEF OneMore
<1>4. LineSum(acc, ks) = SumFunctionOnSet(f, ks) /\ LineSum(new, ks) = SumFunctionOnSet(g, ks)
  BY DEF LineSum
<1>5. LineSum(new, all) = SumFunctionOnSet(h, all) BY DEF LineSum
<1>6. \A k \in all : h[k] \in Int BY <1>2, <1>3 DEF OneMore
<1> HIDE DEF f, g, h, all
<1>7. SumFunctionOnSet(f, ks) \in Int BY <1>1, <1>2, SumStep
<1>8. SumFunctionOnSet(g, ks) = SumFunctionOnSet(f, ks) BY <1>1, <1>2, SumSame
<1>9. SumFunctionOnSet(h, ks) = SumFunctionOnSet(f, ks) BY <1>1, <1>2, SumSame
<1>10. SumFunctionOnSet(h, all) = h[n] + SumFunctionOnSet(h, all \ {n})
  BY <1>1, <1>3, <1>6, SumStep
<1>11. LineSum(new, all) = LineSum(acc, ks) + new.lines[n].amount
  <2>1. h[n] \in Int BY <1>3, <1>6
  <2>2. PICK a, b : a = h[n] /\ b = SumFunctionOnSet(f, ks) OBVIOUS
  <2>3. a + b = b + a BY <1>7, <2>1, <2>2
  <2>4. QED BY <1>3, <1>4, <1>5, <1>9, <1>10, <2>2, <2>3
<1>12. QED BY <1>4, <1>7, <1>8, <1>11 DEF all

\* Pricing a line keeps the totals the sums of the lines, and adds to the
\* fixed earnings if it is one.
LEMMA LineSummed ==
  ASSUME NEW acc \in Accounts, NEW l \in Lines, NEW amount \in Int, Summed(acc),
         NEW new, Prices(acc, l, amount, new)
  PROVE  /\ Summed(new)
         /\ LineSum(acc, FixedLines(acc)) \in Int
         /\ LineSum(new, FixedLines(new)) = LineSum(acc, FixedLines(acc)) +
              IF l.type = "EARNING" /\ l.mode = "FIXED" THEN amount ELSE 0
<1> PICK r \in Rows : r = RowOf(l, amount) BY LineAdded
<1> PICK n \in Nat : n = Len(acc.lines) BY DEF Accounts
<1>1. /\ acc.lines \in Seq(Rows) /\ acc.earnings \in Int /\ acc.deductions \in Int
      /\ new.lines = Append(acc.lines, r)
      /\ new.earnings = acc.earnings + IF l.type = "EARNING" THEN amount ELSE 0
      /\ new.deductions = acc.deductions + IF l.type = "EARNING" THEN 0 ELSE amount
  <2>1. acc.lines \in Seq(Rows) /\ acc.earnings \in Int /\ acc.deductions \in Int
    BY DEF Accounts
  <2>2. QED BY <2>1 DEF Prices
<1>2. /\ DOMAIN acc.lines = 1..n /\ DOMAIN new.lines = (1..n) \cup {n + 1}
      /\ n + 1 \notin 1..n
      /\ \A k \in 1..n : new.lines[k] = acc.lines[k]
      /\ new.lines[n + 1] = r
  BY <1>1
<1>3. r.amount = amount /\ r.type = l.type /\ r.mode = l.mode /\ r.type \in {"EARNING", "DEDUCTION"}
  BY DEF RowOf, Rows
<1>4. \A t : LinesOf(new, t) = LinesOf(acc, t) \cup (IF l.type = t THEN {n + 1} ELSE {})
  BY <1>2, <1>3 DEF LinesOf
<1>5. FixedLines(new) = FixedLines(acc) \cup
        (IF l.type = "EARNING" /\ l.mode = "FIXED" THEN {n + 1} ELSE {})
  BY <1>2, <1>3 DEF FixedLines, LinesOf
<1>6. /\ \A t : LinesOf(acc, t) \in SUBSET DOMAIN acc.lines
      /\ FixedLines(acc) \in SUBSET DOMAIN acc.lines
  BY DEF LinesOf, FixedLines
<1>7. ASSUME NEW ks \in SUBSET DOMAIN acc.lines
      PROVE  /\ LineSum(acc, ks) \in Int /\ LineSum(new, ks) = LineSum(acc, ks)
             /\ LineSum(new, ks \cup {n + 1}) = LineSum(acc, ks) + amount
  <2>1. IsFiniteSet(ks)
    <3>1. IsFiniteSet(1..n) BY FS_Interval
    <3>2. QED BY <1>2, <3>1, FS_Subset
  <2>2. n + 1 \notin ks /\ \A k \in ks : new.lines[k] = acc.lines[k] BY <1>2
  <2>3. \A k \in ks : acc.lines[k].amount \in Int
    <3>1. \A k \in ks : acc.lines[k] \in Rows BY <1>1
    <3>2. QED BY <3>1 DEF Rows
  <2>4. new.lines[n + 1].amount = amount BY <1>2, <1>3
  <2>5. PICK m : m = n + 1 OBVIOUS
  <2>6. /\ LineSum(acc, ks) \in Int /\ LineSum(new, ks) = LineSum(acc, ks)
        /\ LineSum(new, ks \cup {m}) = LineSum(acc, ks) + new.lines[m].amount
    <3>1. m \notin ks /\ new.lines[m].amount \in Int BY <2>2, <2>4, <2>5
    <3>2. OneMore(acc, new, ks, m) BY <2>1, <2>2, <2>3, <3>1 DEF OneMore
    <3>3. QED BY <3>2, SumWithLine
  <2>7. QED BY <2>4, <2>5, <2>6
<1>8. new.earnings = LineSum(new, LinesOf(new, "EARNING"))
  <2>1. PICK ks : ks = LinesOf(acc, "EARNING") OBVIOUS
  <2>2. acc.earnings = LineSum(acc, ks) /\ ks \in SUBSET DOMAIN acc.lines
    BY <1>6, <2>1 DEF Summed
  <2>3. CASE l.type = "EARNING"
    <3>1. LinesOf(new, "EARNING") = ks \cup {n + 1} BY <1>4, <2>1, <2>3
    <3>2. QED BY <1>1, <1>7, <2>2, <2>3, <3>1
  <2>4. CASE l.type # "EARNING"
    <3>1. LinesOf(new, "EARNING") = ks BY <1>4, <2>1, <2>4
    <3>2. new.earnings = acc.earnings BY <1>1, <2>4
    <3>3. QED BY <1>7, <2>2, <3>1, <3>2
  <2>5. QED BY <2>3, <2>4
<1>9. new.deductions = LineSum(new, LinesOf(new, "DEDUCTION"))
  <2>1. PICK ks : ks = LinesOf(acc, "DEDUCTION") OBVIOUS
  <2>2. acc.deductions = LineSum(acc, ks) /\ ks \in SUBSET DOMAIN acc.lines
    BY <1>6, <2>1 DEF Summed
  <2>3. CASE l.type = "EARNING"
    <3>1. LinesOf(new, "DEDUCTION") = ks BY <1>4, <2>1, <2>3
    <3>2. new.deductions = acc.deductions BY <1>1, <2>3
    <3>3. QED BY <1>7, <2>2, <3>1, <3>2
  <2>4. CASE l.type # "EARNING"
    <3>1. l.type = "DEDUCTION" BY <1>3, <2>4
    <3>2. LinesOf(new, "DEDUCTION") = ks \cup {n + 1} BY <1>4, <2>1, <3>1
    <3>3. QED BY <1>1, <1>7, <2>2, <2>4, <3>2
  <2>5. QED BY <2>3, <2>4
<1>10. LineSum(new, FixedLines(new)) = LineSum(acc, FixedLines(acc)) +
         IF l.type = "EARNING" /\ l.mode = "FIXED" THEN amount ELSE 0
  <2>1. PICK ks : ks = FixedLines(acc) OBVIOUS
  <2>2. ks \in SUBSET DOMAIN acc.lines BY <1>6, <2>1
  <2>3. CASE l.type = "EARNING" /\ l.mode = "FIXED"
    <3>1. FixedLines(new) = ks \cup {n + 1} BY <1>5, <2>1, <2>3
    <3>2. QED BY <1>7, <2>1, <2>2, <2>3, <3>1
  <2>4. CASE ~(l.type = "EARNING" /\ l.mode = "FIXED")
    <3>1. FixedLines(new) = ks BY <1>5, <2>1, <2>4
    <3>2. LineSum(new, ks) = LineSum(acc, ks) /\ LineSum(acc, ks) \in Int BY <1>7, <2>2
    <3>3. QED BY <2>1, <2>4, <3>1, <3>2
  <2>5. QED BY <2>3, <2>4
<1>11. LineSum(acc, FixedLines(acc)) \in Int BY <1>6, <1>7
<1>12. QED BY <1>8, <1>9, <1>10, <1>11 DEF Summed

-----------------------------------------------------------------------------
\* The component of x is not in a sequence.
NewTo(s, S, x) ==
  s \in Seq(S) /\ x \in S /\ Apart(s) /\ \A j \in DOMAIN s : s[j].component # x.component

\* An element that is new to a sequence of components.
LEMMA AppendApart ==
  ASSUME NEW S, NEW s, NEW x, NewTo(s, S, x)
  PROVE  /\ Append(s, x) \in Seq(S) /\ Apart(Append(s, x))
         /\ DOMAIN Append(s, x) = DOMAIN s \cup {Len(s) + 1}
         /\ Append(s, x)[Len(s) + 1] = x /\ \A j \in DOMAIN s : Append(s, x)[j] = s[j]
<1>1. s \in Seq(S) /\ x \in S BY DEF NewTo
<1>2. Append(s, x) \in Seq(S) BY <1>1
<1>3. /\ DOMAIN Append(s, x) = DOMAIN s \cup {Len(s) + 1}
      /\ Append(s, x)[Len(s) + 1] = x /\ \A j \in DOMAIN s : Append(s, x)[j] = s[j]
  BY <1>1
<1> PICK t, n : t = Append(s, x) /\ n = Len(s) + 1 OBVIOUS
<1>4. DOMAIN t = DOMAIN s \cup {n} /\ t[n] = x /\ \A j \in DOMAIN s : t[j] = s[j]
  BY <1>3
<1>5. Apart(t)
  <2> SUFFICES ASSUME NEW j \in DOMAIN t, NEW k \in DOMAIN t, t[j].component = t[k].component
               PROVE  j = k
    BY DEF Apart
  <2>1. CASE j = n /\ k = n BY <2>1
  <2>2. CASE j = n /\ k # n
    <3>1. k \in DOMAIN s /\ t[k] = s[k] /\ t[j] = x BY <1>4, <2>2
    <3>2. QED BY <3>1 DEF NewTo
  <2>3. CASE j # n /\ k = n
    <3>1. j \in DOMAIN s /\ t[j] = s[j] /\ t[k] = x BY <1>4, <2>3
    <3>2. QED BY <3>1 DEF NewTo
  <2>4. CASE j # n /\ k # n BY <1>4, <2>4 DEF Apart, NewTo
  <2>5. QED BY <2>1, <2>2, <2>3, <2>4
<1>6. QED BY <1>2, <1>3, <1>5

\* What depends on the lines alone.
LEMMA SameLines ==
  ASSUME NEW a, NEW b, a.lines = b.lines
  PROVE  /\ \A t : LinesOf(a, t) = LinesOf(b, t)
         /\ FixedLines(a) = FixedLines(b)
         /\ \A ks : LineSum(a, ks) = LineSum(b, ks)
BY DEF LinesOf, FixedLines, LineSum

\* A line that is staged for the second pass.
Stages(acc, l, new) ==
  /\ new \in Accounts
  /\ new.prorated = acc.prorated /\ new.fixed = acc.fixed /\ new.lines = acc.lines
  /\ new.earnings = acc.earnings /\ new.deductions = acc.deductions
  /\ new.staged = Append(acc.staged, l)

\* What the first pass does with a line.
LEMMA FirstPassDoes ==
  ASSUME NEW acc \in Accounts, NEW l \in Lines
  PROVE  /\ FirstPass(acc, l) \in Accounts
         /\ l.mode = "PERCENT_OF_GROSS" => Stages(acc, l, FirstPass(acc, l))
         /\ l.mode # "PERCENT_OF_GROSS" =>
              \E amount \in Int, priced \in Accounts :
                /\ l.mode # "FIXED" => amount = 0
                /\ Prices(acc, l, amount, priced)
                /\ FirstPass(acc, l) =
                     IF l.type = "EARNING" THEN [priced EXCEPT !.fixed = @ + amount] ELSE priced
<1>1. CASE l.mode = "PERCENT_OF_GROSS"
  <2>1. Append(acc.staged, l) \in Seq(Lines) /\ acc.staged \in Seq(Lines) BY DEF Accounts
  <2> PICK st \in Seq(Lines) : st = Append(acc.staged, l) BY <2>1
  <2> PICK new : new = [acc EXCEPT !.staged = st] OBVIOUS
  <2>2. FirstPass(acc, l) = new BY <1>1 DEF FirstPass
  <2>3. new \in Accounts BY DEF Accounts
  <2>4. /\ new.prorated = acc.prorated /\ new.fixed = acc.fixed /\ new.lines = acc.lines
        /\ new.earnings = acc.earnings /\ new.deductions = acc.deductions
        /\ new.staged = st
    BY DEF Accounts
  <2>5. Stages(acc, l, new) BY <2>3, <2>4 DEF Stages
  <2>6. QED BY <1>1, <2>2, <2>3, <2>5
<1>2. CASE l.mode # "PERCENT_OF_GROSS"
  <2>1. PICK amount \in Int : amount = IF l.mode = "FIXED" THEN l.value ELSE 0
    BY PayrollAssumption
  <2>2. Prices(acc, l, amount, AddLine(acc, l, amount)) BY LineAdded
  <2>3. PICK priced \in Accounts : priced = AddLine(acc, l, amount) BY <2>2 DEF Prices
  <2>4. FirstPass(acc, l) =
          IF l.type = "EARNING" THEN [priced EXCEPT !.fixed = @ + amount] ELSE priced
    BY <1>2, <2>1, <2>3 DEF FirstPass
  <2>5. priced.fixed + amount \in Int BY DEF Accounts
  <2>6. FirstPass(acc, l) \in Accounts
    <3>1. [priced EXCEPT !.fixed = @ + amount] \in Accounts BY <2>5 DEF Accounts
    <3>2. QED BY <2>4, <3>1
  <2>7. QED BY <1>2, <2>1, <2>2, <2>3, <2>4, <2>6
<1>3. QED BY <1>1, <1>2

\* The first k lines of os are either priced or staged, in an account that began with P.
FirstStands(acc, P, os, k) ==
  /\ acc \in Accounts /\ acc.prorated = P
  /\ Summed(acc) /\ acc.fixed = LineSum(acc, FixedLines(acc))
  /\ Apart(acc.lines) /\ Apart(acc.staged)
  /\ \A i \in DOMAIN acc.lines, j \in DOMAIN acc.staged :
       acc.lines[i].component # acc.staged[j].component
  /\ \A i \in DOMAIN acc.lines :
       /\ acc.lines[i].mode # "PERCENT_OF_GROSS"
       /\ \E m \in 1..k : os[m].component = acc.lines[i].component
  /\ \A j \in DOMAIN acc.staged :
       /\ acc.staged[j].mode = "PERCENT_OF_GROSS"
       /\ \E m \in 1..k : os[m].component = acc.staged[j].component

\* The next line is priced or staged.
LEMMA FirstPassKeeps ==
  ASSUME NEW acc, NEW P, NEW os, NEW n \in Nat, DOMAIN os = 1..n, Apart(os),
         NEW k \in Nat, k < n, os[k + 1] \in Lines, FirstStands(acc, P, os, k)
  PROVE  FirstStands(FirstPass(acc, os[k + 1]), P, os, k + 1)
<1> PICK l \in Lines : l = os[k + 1] OBVIOUS
<1> PICK new : new = FirstPass(acc, l) OBVIOUS
<1>1. acc \in Accounts /\ new \in Accounts BY FirstPassDoes DEF FirstStands
<1>2. \A m \in 1..k : m \in 1..n /\ m \in 1..(k + 1) /\ m # k + 1 /\ k + 1 \in 1..n OBVIOUS
<1>3. \A m \in 1..k : os[m].component # l.component BY <1>2 DEF Apart
<1>4. /\ \A i \in DOMAIN acc.lines : acc.lines[i].component # l.component
      /\ \A j \in DOMAIN acc.staged : acc.staged[j].component # l.component
  BY <1>3 DEF FirstStands
<1>5. k + 1 \in 1..(k + 1) OBVIOUS
<1>6. acc.lines \in Seq(Rows) /\ acc.staged \in Seq(Lines) BY <1>1, SMTT(30) DEF Accounts
<1>7. CASE l.mode = "PERCENT_OF_GROSS"
  <2>1. Stages(acc, l, new) BY <1>1, <1>7, FirstPassDoes
  <2>2. /\ new.lines = acc.lines /\ new.staged = Append(acc.staged, l)
        /\ new.prorated = acc.prorated /\ new.fixed = acc.fixed
        /\ new.earnings = acc.earnings /\ new.deductions = acc.deductions
    BY <2>1 DEF Stages
  <2>3. Summed(new) /\ new.fixed = LineSum(new, FixedLines(new))
    BY <2>2, SameLines DEF FirstStands, Summed
  <2> PICK x : x = Len(acc.staged) + 1 OBVIOUS
  <2>4. /\ Apart(new.staged) /\ DOMAIN new.staged = DOMAIN acc.staged \cup {x}
        /\ new.staged[x] = l /\ \A j \in DOMAIN acc.staged : new.staged[j] = acc.staged[j]
    <3> PICK st : st = acc.staged OBVIOUS
    <3>1. NewTo(st, Lines, l) BY <1>4, <1>6 DEF FirstStands, NewTo
    <3>2. /\ Apart(Append(st, l)) /\ DOMAIN Append(st, l) = DOMAIN st \cup {Len(st) + 1}
          /\ Append(st, l)[Len(st) + 1] = l /\ \A j \in DOMAIN st : Append(st, l)[j] = st[j]
      BY <3>1, AppendApart
    <3>3. QED BY <2>2, <3>2
  <2>5. Apart(new.lines) BY <2>2 DEF FirstStands
  <2>6. \A i \in DOMAIN new.lines, j \in DOMAIN new.staged :
          new.lines[i].component # new.staged[j].component
    BY <1>4, <2>2, <2>4 DEF FirstStands
  <2>7. \A i \in DOMAIN new.lines :
          /\ new.lines[i].mode # "PERCENT_OF_GROSS"
          /\ \E m \in 1..(k + 1) : os[m].component = new.lines[i].component
    BY <1>2, <2>2 DEF FirstStands
  <2>8. \A j \in DOMAIN new.staged :
          /\ new.staged[j].mode = "PERCENT_OF_GROSS"
          /\ \E m \in 1..(k + 1) : os[m].component = new.staged[j].component
    BY <1>2, <1>5, <1>7, <2>4 DEF FirstStands
  <2>9. new.prorated = P BY <2>2, SMTT(30) DEF FirstStands
  <2>10. QED BY <1>1, <2>3, <2>4, <2>5, <2>6, <2>7, <2>8, <2>9 DEF FirstStands
<1>8. CASE l.mode # "PERCENT_OF_GROSS"
  <2>1. PICK amount \in Int, priced \in Accounts :
          /\ l.mode # "FIXED" => amount = 0
          /\ Prices(acc, l, amount, priced)
          /\ new = IF l.type = "EARNING" THEN [priced EXCEPT !.fixed = @ + amount] ELSE priced
    <3>1. \E amount \in Int, priced \in Accounts :
            /\ l.mode # "FIXED" => amount = 0
            /\ Prices(acc, l, amount, priced)
            /\ FirstPass(acc, l) =
                 IF l.type = "EARNING" THEN [priced EXCEPT !.fixed = @ + amount] ELSE priced
      BY <1>1, <1>8, FirstPassDoes, Zenon
    <3>2. QED BY <3>1, Zenon
  <2> PICK r \in Rows : r = RowOf(l, amount) BY <1>1, LineAdded
  <2>2. /\ priced.lines = Append(acc.lines, r) /\ priced.staged = acc.staged
        /\ priced.prorated = acc.prorated /\ priced.fixed = acc.fixed
    BY <2>1 DEF Prices
  <2>3. /\ new.lines = priced.lines /\ new.staged = acc.staged /\ new.prorated = acc.prorated
        /\ new.earnings = priced.earnings /\ new.deductions = priced.deductions
        /\ new.fixed = acc.fixed + IF l.type = "EARNING" THEN amount ELSE 0
    <3>1. CASE l.type = "EARNING"
      <4>1. new = [priced EXCEPT !.fixed = @ + amount] BY <2>1, <3>1
      <4>2. QED BY <2>2, <3>1, <4>1 DEF Accounts
    <3>2. CASE l.type # "EARNING"
      <4>1. new = priced /\ acc.fixed \in Int BY <1>1, <2>1, <3>2 DEF Accounts
      <4>2. QED BY <2>2, <3>2, <4>1
    <3>3. QED BY <3>1, <3>2
  <2>4. /\ Summed(priced) /\ LineSum(acc, FixedLines(acc)) \in Int
        /\ LineSum(priced, FixedLines(priced)) = LineSum(acc, FixedLines(acc)) +
             IF l.type = "EARNING" /\ l.mode = "FIXED" THEN amount ELSE 0
    <3>1. Summed(acc) BY DEF FirstStands
    <3>2. QED BY <1>1, <2>1, <3>1, LineSummed
  <2>5. Summed(new) BY <2>3, <2>4, SameLines DEF Summed
  <2>6. new.fixed = LineSum(new, FixedLines(new))
    <3>1. LineSum(new, FixedLines(new)) = LineSum(priced, FixedLines(priced))
      BY <2>3, SameLines
    <3>2. acc.fixed = LineSum(acc, FixedLines(acc)) BY DEF FirstStands
    <3>3. QED BY <2>1, <2>3, <2>4, <3>1, <3>2
  <2> PICK x : x = Len(acc.lines) + 1 OBVIOUS
  <2>7. r.component = l.component /\ r.mode = l.mode BY DEF RowOf
  <2>8. /\ Apart(new.lines) /\ DOMAIN new.lines = DOMAIN acc.lines \cup {x}
        /\ new.lines[x] = r /\ \A i \in DOMAIN acc.lines : new.lines[i] = acc.lines[i]
    <3>1. NewTo(acc.lines, Rows, r) BY <1>4, <1>6, <2>7 DEF FirstStands, NewTo
    <3>2. QED BY <2>2, <2>3, <3>1, AppendApart
  <2>9. Apart(new.staged) /\ new.prorated = P BY <2>3 DEF FirstStands
  <2>10. \A i \in DOMAIN new.lines, j \in DOMAIN new.staged :
           new.lines[i].component # new.staged[j].component
    BY <1>4, <2>3, <2>7, <2>8 DEF FirstStands
  <2>11. \A i \in DOMAIN new.lines :
           /\ new.lines[i].mode # "PERCENT_OF_GROSS"
           /\ \E m \in 1..(k + 1) : os[m].component = new.lines[i].component
    BY <1>2, <1>5, <1>8, <2>7, <2>8 DEF FirstStands
  <2>12. \A j \in DOMAIN new.staged :
           /\ new.staged[j].mode = "PERCENT_OF_GROSS"
           /\ \E m \in 1..(k + 1) : os[m].component = new.staged[j].component
    BY <1>2, <2>3 DEF FirstStands
  <2>13. QED BY <1>1, <2>5, <2>6, <2>8, <2>9, <2>10, <2>11, <2>12 DEF FirstStands
<1>9. QED BY <1>7, <1>8

-----------------------------------------------------------------------------
\* Cents are whole.
LEMMA MoneyType ==
  ASSUME NEW x \in Int, NEW d \in Nat, d > 0
  PROVE  Money(x, d) \in Int
<1>1. 2 * x + d \in Int /\ 2 * d \in Nat /\ 2 * d > 0 OBVIOUS
<1>2. \A a \in Int, b \in Nat : b > 0 => a \div b \in Int OBVIOUS
<1>3. QED BY <1>1, <1>2 DEF Money

\* A prorated salary is no more than the salary.
LEMMA ProratedIsLess ==
  ASSUME NEW c \in Compensations, NEW d \in Summaries
  PROVE  ProratedBase(c, d) \in Int /\ ProratedBase(c, d) <= c.base
<1> PICK b, p, w : b = c.base /\ p = d.payable /\ w = d.working OBVIOUS
<1>1. b \in Nat /\ w \in Nat /\ p \in Nat /\ p <= w BY PayrollAssumption
<1> PICK m : m = Max({w, 1}) OBVIOUS
<1>2. m \in Nat /\ m >= 1 /\ p <= m
  <2>1. {w, 1} \subseteq Nat /\ \A x \in {w, 1} : x <= w + 1 BY <1>1
  <2>2. w + 1 \in Nat BY <1>1
  <2>3. Max({w, 1}) \in {w, 1} /\ \A x \in {w, 1} : x <= Max({w, 1})
    BY <2>1, <2>2, MaxIsGreatest
  <2>4. QED BY <1>1, <2>3
<1>3. ProratedBase(c, d) = (2 * (b * p) + m) \div (2 * m) BY DEF ProratedBase, Money
<1> PICK y, z : y = b * p /\ z = b * m OBVIOUS
<1>4. y \in Nat /\ z \in Nat /\ y <= z
  <2>1. y \in Nat /\ z \in Nat BY <1>1, <1>2
  <2>2. m - p \in Nat /\ b * (m - p) \in Nat /\ b * (m - p) = z - y BY <1>1, <1>2
  <2>3. QED BY <2>1, <2>2
<1>5. 2 * y + m < (2 * m) * (b + 1)
  <2>1. (2 * m) * (b + 1) = 2 * z + 2 * m BY <1>1, <1>2
  <2>2. QED BY <1>2, <1>4, <2>1
<1>6. \A a \in Int, k \in Nat, q \in Nat : k > 0 /\ a < k * (q + 1) => a \div k <= q
  OBVIOUS
<1>7. (2 * y + m) \div (2 * m) <= b
  <2>1. 2 * y + m \in Int /\ 2 * m \in Nat /\ 2 * m > 0 BY <1>2, <1>4
  <2>2. QED BY <1>1, <1>5, <1>6, <2>1
<1>8. ProratedBase(c, d) \in Int
  <2>1. b * p \in Int BY <1>1
  <2>2. Money(b * p, m) \in Int BY <1>2, <2>1, MoneyType
  <2>3. QED BY <2>2 DEF ProratedBase
<1>9. QED BY <1>3, <1>7, <1>8

-----------------------------------------------------------------------------
\* A sequence of n lines.
LinesUpTo(n, os) == DOMAIN os = 1..n /\ \A i \in 1..n : os[i] \in Lines

\* The first pass over n lines, account by account.
FirstPasses(n, os, start, F) ==
  /\ F[0] = start /\ F[n] = FoldLeft(FirstPass, start, os)
  /\ \A k \in 0..(n - 1) : F[k + 1] = FirstPass(F[k], os[k + 1])

\* What FoldLeft means of the first pass.
LEMMA FirstPassFold ==
  ASSUME NEW n \in Nat, NEW os, LinesUpTo(n, os),
         NEW start \in Accounts
  PROVE  \E F : FirstPasses(n, os, start, F)
<1> DEFINE S == 1..n
           step == [p \in S \X Accounts |-> FirstPass(p[2], os[p[1]])]
           Iter(g) == [t \in SUBSET S |->
                         IF t = {} THEN start ELSE FirstPass(g[t \ {Max(t)}], os[Max(t)])]
<1>1. DOMAIN os = S /\ \A i \in S : os[i] \in Lines BY DEF LinesUpTo
<1>2. step \in [S \X Accounts -> Accounts]
  <2>1. ASSUME NEW i \in S, NEW a \in Accounts PROVE FirstPass(a, os[i]) \in Accounts
    BY <1>1, FirstPassDoes
  <2>2. QED BY <2>1
<1>3. \A i \in S, a \in Accounts : step[<<i, a>>] = FirstPass(a, os[i]) OBVIOUS
<1>4. ASSUME NEW t \in SUBSET S, t # {} PROVE Max(t) \in t
  <2>1. t \subseteq Nat /\ \A m \in t : m <= n OBVIOUS
  <2>2. QED BY <1>4, <2>1, MaxIsGreatest
<1> HIDE DEF step
<1>5. Folding(n, Accounts, start, step) BY <1>2 DEF Folding
<1>6. PICK g : Folded(n, Accounts, start, step, g) BY <1>5, PrefixFold
<1>7. /\ g \in [SUBSET S -> Accounts]
      /\ \A t \in SUBSET S :
           g[t] = IF t = {} THEN start ELSE step[<<Max(t), g[t \ {Max(t)}]>>]
  BY <1>6 DEF Folded
<1>8. ASSUME NEW t \in SUBSET S
      PROVE  g[t] = IF t = {} THEN start ELSE FirstPass(g[t \ {Max(t)}], os[Max(t)])
  <2>1. CASE t = {} BY <1>7, <2>1
  <2>2. CASE t # {}
    <3>1. PICK m \in S : m = Max(t) BY <1>4, <2>2
    <3>2. g[t \ {m}] \in Accounts BY <1>7
    <3>3. g[t] = step[<<m, g[t \ {m}]>>] BY <1>7, <2>2, <3>1
    <3>4. g[t] = FirstPass(g[t \ {m}], os[m]) BY <1>3, <3>2, <3>3
    <3>5. QED BY <2>2, <3>1, <3>4
  <2>3. QED BY <2>1, <2>2
<1>9. g = Iter(g) BY <1>7, <1>8
<1> DEFINE h == CHOOSE h : h = Iter(h)
<1>10. h = Iter(h) BY <1>9
<1>11. FoldLeft(FirstPass, start, os) = h[S] BY <1>1 DEF FoldLeft, MapThenFoldSet
<1> HIDE DEF h
<1>12. \A t \in SUBSET S :
        h[t] = IF t = {} THEN start ELSE FirstPass(h[t \ {Max(t)}], os[Max(t)])
  BY <1>10
<1> PICK F : F = [k \in 0..n |-> h[1..k]] OBVIOUS
<1>13. \A k \in 0..n : F[k] = h[1..k] OBVIOUS
<1>14. F[0] = start
  <2>1. 1..0 = {} /\ 0 \in 0..n OBVIOUS
  <2>2. h[{}] = start BY <1>12
  <2>3. QED BY <1>13, <2>1, <2>2
<1>15. F[n] = FoldLeft(FirstPass, start, os) BY <1>11, <1>13
<1>16. ASSUME NEW k \in 0..(n - 1) PROVE F[k + 1] = FirstPass(F[k], os[k + 1])
  <2>1. k \in Nat /\ k \in 0..n /\ k + 1 \in 0..n /\ 1..(k + 1) \in SUBSET S
    OBVIOUS
  <2>2. Max(1..(k + 1)) = k + 1 /\ (1..(k + 1)) \ {k + 1} = 1..k BY <2>1, MaxOfPrefix
  <2>3. k + 1 \in 1..(k + 1) BY <2>1
  <2> PICK t : t = 1..(k + 1) OBVIOUS
  <2>4. h[t] = FirstPass(h[t \ {Max(t)}], os[Max(t)]) BY <1>12, <2>1, <2>3
  <2>5. h[t] = FirstPass(h[1..k], os[k + 1]) BY <2>2, <2>4
  <2>6. QED BY <1>13, <2>1, <2>5
<1>17. FirstPasses(n, os, start, F) BY <1>14, <1>15, <1>16 DEF FirstPasses
<1>18. QED BY <1>17

\* After the first pass every line is priced or staged.
LEMMA FirstPassDone ==
  ASSUME NEW n \in Nat, NEW os, LinesUpTo(n, os), Apart(os),
         NEW P, NEW start, FirstStands(start, P, os, 0)
  PROVE  FirstStands(FoldLeft(FirstPass, start, os), P, os, n)
<1>1. start \in Accounts BY DEF FirstStands
<1>2. PICK F : FirstPasses(n, os, start, F) BY <1>1, FirstPassFold
<1>3. /\ F[0] = start /\ F[n] = FoldLeft(FirstPass, start, os)
      /\ \A k \in 0..(n - 1) : F[k + 1] = FirstPass(F[k], os[k + 1])
  BY <1>2 DEF FirstPasses
<1> PICK good : good = {k \in 0..n : FirstStands(F[k], P, os, k)} OBVIOUS
<1>4. 0 \in good BY <1>3
<1>5. ASSUME NEW k \in 0..(n - 1), k \in good PROVE k + 1 \in good
  <2>1. k \in Nat /\ k < n /\ k + 1 \in 1..n /\ k + 1 \in 0..n OBVIOUS
  <2>2. FirstStands(F[k], P, os, k) /\ os[k + 1] \in Lines /\ DOMAIN os = 1..n
    BY <1>5, <2>1 DEF LinesUpTo
  <2>3. FirstStands(FirstPass(F[k], os[k + 1]), P, os, k + 1) BY <2>1, <2>2, FirstPassKeeps
  <2>4. QED BY <1>3, <2>1, <2>3
<1>6. n \in good BY <1>4, <1>5, UpTo
<1>7. QED BY <1>3, <1>6

-----------------------------------------------------------------------------
\* The second pass has priced the first k of the staged lines st, as
\* percentages of P + G, which are the prorated salary and the fixed earnings.
SecondStands(acc, P, G, st, k) ==
  /\ acc \in Accounts /\ acc.prorated = P /\ acc.fixed = G
  /\ Summed(acc) /\ G = LineSum(acc, FixedLines(acc))
  /\ Apart(acc.lines)
  /\ \A i \in DOMAIN acc.lines :
       /\ \A m \in DOMAIN st : m > k => acc.lines[i].component # st[m].component
       /\ acc.lines[i].mode = "PERCENT_OF_GROSS" =>
            acc.lines[i].amount = Money((P + G) * acc.lines[i].value, 100)

\* What the second pass does with a line.
LEMMA SecondPassDoes ==
  ASSUME NEW acc \in Accounts, NEW l \in Lines
  PROVE  \E amount \in Int :
           /\ amount = Money((acc.prorated + acc.fixed) * l.value, 100)
           /\ Prices(acc, l, amount, SecondPass(acc, l))
<1>1. acc.prorated \in Int /\ acc.fixed \in Int /\ l.value \in Int
  BY PayrollAssumption DEF Accounts
<1>2. (acc.prorated + acc.fixed) * l.value \in Int BY <1>1
<1> PICK x \in Int : x = (acc.prorated + acc.fixed) * l.value BY <1>2
<1> PICK amount : amount = Money(x, 100) OBVIOUS
<1>3. amount \in Int BY MoneyType
<1>4. SecondPass(acc, l) = AddLine(acc, l, amount) BY DEF SecondPass
<1>5. Prices(acc, l, amount, SecondPass(acc, l)) BY <1>3, <1>4, LineAdded
<1>6. QED BY <1>3, <1>5

\* The next staged line is priced.
LEMMA SecondPassKeeps ==
  ASSUME NEW acc, NEW P, NEW G, NEW n \in Nat, NEW st, LinesUpTo(n, st), Apart(st),
         \A m \in 1..n : st[m].mode = "PERCENT_OF_GROSS",
         NEW k \in Nat, k < n, SecondStands(acc, P, G, st, k)
  PROVE  SecondStands(SecondPass(acc, st[k + 1]), P, G, st, k + 1)
<1>1. k + 1 \in 1..n /\ DOMAIN st = 1..n /\ st[k + 1] \in Lines
  <2>1. k + 1 \in 1..n OBVIOUS
  <2>2. QED BY <2>1 DEF LinesUpTo
<1> PICK l \in Lines : l = st[k + 1] BY <1>1
<1> PICK new : new = SecondPass(acc, l) OBVIOUS
<1>2. acc \in Accounts /\ acc.prorated = P /\ acc.fixed = G /\ Summed(acc) BY DEF SecondStands
<1>3. PICK amount \in Int :
        amount = Money((acc.prorated + acc.fixed) * l.value, 100) /\ Prices(acc, l, amount, new)
  BY <1>2, SecondPassDoes
<1> PICK r \in Rows : r = RowOf(l, amount) BY <1>2, LineAdded
<1>4. /\ new \in Accounts /\ new.prorated = P /\ new.fixed = G
      /\ new.lines = Append(acc.lines, r)
  BY <1>2, <1>3 DEF Prices
<1>5. /\ r.component = l.component /\ r.mode = "PERCENT_OF_GROSS" /\ r.value = l.value
      /\ r.amount = amount /\ l.mode = "PERCENT_OF_GROSS"
  BY <1>1 DEF RowOf
<1>6. Summed(new) /\ G = LineSum(new, FixedLines(new))
  <2>1. /\ Summed(new) /\ LineSum(acc, FixedLines(acc)) \in Int
        /\ LineSum(new, FixedLines(new)) = LineSum(acc, FixedLines(acc)) +
             IF l.type = "EARNING" /\ l.mode = "FIXED" THEN amount ELSE 0
    BY <1>2, <1>3, LineSummed
  <2>2. LineSum(new, FixedLines(new)) = LineSum(acc, FixedLines(acc)) BY <1>5, <2>1
  <2>3. QED BY <2>1, <2>2 DEF SecondStands
<1>7. k + 1 > k /\ \A m \in 1..n : m > k + 1 => m > k /\ m # k + 1 OBVIOUS
<1>8. acc.lines \in Seq(Rows) /\ \A i \in DOMAIN acc.lines : acc.lines[i].component # l.component
  <2>1. acc.lines \in Seq(Rows) BY <1>2 DEF Accounts
  <2>2. QED BY <1>1, <1>7, <2>1 DEF SecondStands
<1> PICK x : x = Len(acc.lines) + 1 OBVIOUS
<1>9. /\ Apart(new.lines) /\ DOMAIN new.lines = DOMAIN acc.lines \cup {x}
      /\ new.lines[x] = r /\ \A i \in DOMAIN acc.lines : new.lines[i] = acc.lines[i]
  <2>1. NewTo(acc.lines, Rows, r) BY <1>5, <1>8 DEF SecondStands, NewTo
  <2>2. QED BY <1>4, <2>1, AppendApart
<1>10. ASSUME NEW i \in DOMAIN new.lines
       PROVE  /\ \A m \in DOMAIN st : m > k + 1 => new.lines[i].component # st[m].component
              /\ new.lines[i].mode = "PERCENT_OF_GROSS" =>
                   new.lines[i].amount = Money((P + G) * new.lines[i].value, 100)
  <2>1. CASE i = x
    <3>1. new.lines[i] = r BY <1>9, <2>1
    <3>2. \A m \in 1..n : m > k + 1 => st[m].component # l.component
      BY <1>1, <1>7 DEF Apart
    <3>3. QED BY <1>1, <1>2, <1>3, <1>5, <3>1, <3>2
  <2>2. CASE i # x
    <3>1. i \in DOMAIN acc.lines /\ new.lines[i] = acc.lines[i] BY <1>9, <2>2
    <3>2. QED BY <1>1, <1>7, <3>1 DEF SecondStands
  <2>3. QED BY <2>1, <2>2
<1>11. QED BY <1>4, <1>6, <1>9, <1>10 DEF SecondStands

\* The second pass over n lines, account by account.
SecondPasses(n, st, start, F) ==
  /\ F[0] = start /\ F[n] = FoldLeft(SecondPass, start, st)
  /\ \A k \in 0..(n - 1) : F[k + 1] = SecondPass(F[k], st[k + 1])

\* What FoldLeft means of the second pass.
LEMMA SecondPassFold ==
  ASSUME NEW n \in Nat, NEW st, LinesUpTo(n, st), NEW start \in Accounts
  PROVE  \E F : SecondPasses(n, st, start, F)
<1> DEFINE S == 1..n
           step == [p \in S \X Accounts |-> SecondPass(p[2], st[p[1]])]
           Iter(g) == [t \in SUBSET S |->
                         IF t = {} THEN start ELSE SecondPass(g[t \ {Max(t)}], st[Max(t)])]
<1>1. DOMAIN st = S /\ \A i \in S : st[i] \in Lines BY DEF LinesUpTo
<1>2. step \in [S \X Accounts -> Accounts]
  <2>1. ASSUME NEW i \in S, NEW a \in Accounts PROVE SecondPass(a, st[i]) \in Accounts
    BY <1>1, SecondPassDoes DEF Prices
  <2>2. QED BY <2>1
<1>3. \A i \in S, a \in Accounts : step[<<i, a>>] = SecondPass(a, st[i]) OBVIOUS
<1>4. ASSUME NEW t \in SUBSET S, t # {} PROVE Max(t) \in t
  <2>1. t \subseteq Nat /\ \A m \in t : m <= n OBVIOUS
  <2>2. QED BY <1>4, <2>1, MaxIsGreatest
<1> HIDE DEF step
<1>5. Folding(n, Accounts, start, step) BY <1>2 DEF Folding
<1>6. PICK g : Folded(n, Accounts, start, step, g) BY <1>5, PrefixFold
<1>7. /\ g \in [SUBSET S -> Accounts]
      /\ \A t \in SUBSET S :
           g[t] = IF t = {} THEN start ELSE step[<<Max(t), g[t \ {Max(t)}]>>]
  BY <1>6 DEF Folded
<1>8. ASSUME NEW t \in SUBSET S
      PROVE  g[t] = IF t = {} THEN start ELSE SecondPass(g[t \ {Max(t)}], st[Max(t)])
  <2>1. CASE t = {} BY <1>7, <2>1
  <2>2. CASE t # {}
    <3>1. PICK m \in S : m = Max(t) BY <1>4, <2>2
    <3>2. g[t \ {m}] \in Accounts BY <1>7
    <3>3. g[t] = step[<<m, g[t \ {m}]>>] BY <1>7, <2>2, <3>1
    <3>4. g[t] = SecondPass(g[t \ {m}], st[m]) BY <1>3, <3>2, <3>3
    <3>5. QED BY <2>2, <3>1, <3>4
  <2>3. QED BY <2>1, <2>2
<1>9. g = Iter(g) BY <1>7, <1>8
<1> DEFINE h == CHOOSE h : h = Iter(h)
<1>10. h = Iter(h) BY <1>9
<1>11. FoldLeft(SecondPass, start, st) = h[S] BY <1>1 DEF FoldLeft, MapThenFoldSet
<1> HIDE DEF h
<1>12. \A t \in SUBSET S :
        h[t] = IF t = {} THEN start ELSE SecondPass(h[t \ {Max(t)}], st[Max(t)])
  BY <1>10
<1> PICK F : F = [k \in 0..n |-> h[1..k]] OBVIOUS
<1>13. \A k \in 0..n : F[k] = h[1..k] OBVIOUS
<1>14. F[0] = start
  <2>1. 1..0 = {} /\ 0 \in 0..n OBVIOUS
  <2>2. h[{}] = start BY <1>12
  <2>3. QED BY <1>13, <2>1, <2>2
<1>15. F[n] = FoldLeft(SecondPass, start, st) BY <1>11, <1>13
<1>16. ASSUME NEW k \in 0..(n - 1) PROVE F[k + 1] = SecondPass(F[k], st[k + 1])
  <2>1. k \in Nat /\ k \in 0..n /\ k + 1 \in 0..n /\ 1..(k + 1) \in SUBSET S
    OBVIOUS
  <2>2. Max(1..(k + 1)) = k + 1 /\ (1..(k + 1)) \ {k + 1} = 1..k BY <2>1, MaxOfPrefix
  <2>3. k + 1 \in 1..(k + 1) BY <2>1
  <2> PICK t : t = 1..(k + 1) OBVIOUS
  <2>4. h[t] = SecondPass(h[t \ {Max(t)}], st[Max(t)]) BY <1>12, <2>1, <2>3
  <2>5. h[t] = SecondPass(h[1..k], st[k + 1]) BY <2>2, <2>4
  <2>6. QED BY <1>13, <2>1, <2>5
<1>17. SecondPasses(n, st, start, F) BY <1>14, <1>15, <1>16 DEF SecondPasses
<1>18. QED BY <1>17

\* After the second pass every staged line is priced.
LEMMA SecondPassDone ==
  ASSUME NEW n \in Nat, NEW st, LinesUpTo(n, st), Apart(st),
         \A m \in 1..n : st[m].mode = "PERCENT_OF_GROSS",
         NEW P, NEW G, NEW start, SecondStands(start, P, G, st, 0)
  PROVE  SecondStands(FoldLeft(SecondPass, start, st), P, G, st, n)
<1>1. start \in Accounts BY DEF SecondStands
<1>2. PICK F : SecondPasses(n, st, start, F) BY <1>1, SecondPassFold
<1>3. /\ F[0] = start /\ F[n] = FoldLeft(SecondPass, start, st)
      /\ \A k \in 0..(n - 1) : F[k + 1] = SecondPass(F[k], st[k + 1])
  BY <1>2 DEF SecondPasses
<1> PICK good : good = {k \in 0..n : SecondStands(F[k], P, G, st, k)} OBVIOUS
<1>4. 0 \in good BY <1>3
<1>5. ASSUME NEW k \in 0..(n - 1), k \in good PROVE k + 1 \in good
  <2>1. k \in Nat /\ k < n /\ k + 1 \in 0..n OBVIOUS
  <2>2. SecondStands(F[k], P, G, st, k) BY <1>5
  <2>3. SecondStands(SecondPass(F[k], st[k + 1]), P, G, st, k + 1)
    BY <2>1, <2>2, SecondPassKeeps
  <2>4. QED BY <1>3, <2>1, <2>3
<1>6. n \in good BY <1>4, <1>5, UpTo
<1>7. QED BY <1>3, <1>6

-----------------------------------------------------------------------------
\* Whoever reads an item can recompute it from its lines.
AddsUp(pay) ==
  /\ pay.prorated <= pay.base
  /\ Apart(pay.lines)
  /\ \A k \in DOMAIN pay.lines :
       pay.lines[k].mode = "PERCENT_OF_GROSS" =>
         pay.lines[k].amount =
           Money((pay.prorated + LineSum(pay, FixedLines(pay))) * pay.lines[k].value, 100)
  /\ pay.gross = pay.prorated + LineSum(pay, LinesOf(pay, "EARNING"))
  /\ pay.deductions = LineSum(pay, LinesOf(pay, "DEDUCTION"))
  /\ pay.net = pay.gross - pay.deductions

\* No lines are worth nothing.
LEMMA NoLines == \A acc : LineSum(acc, {}) = 0
<1> SUFFICES ASSUME NEW acc PROVE LineSum(acc, {}) = 0 OBVIOUS
<1> PICK f : f = [k \in {} |-> acc.lines[k].amount] OBVIOUS
<1>1. LineSum(acc, {}) = SumFunctionOnSet(f, {}) BY DEF LineSum
<1>2. IsFiniteSet({}) BY FS_EmptySet
<1>3. \A k \in {} : f[k] \in Int OBVIOUS
<1>4. SumFunctionOnSet(f, {}) = 0 BY <1>2, <1>3, SumStep
<1>5. QED BY <1>1, <1>4

\* So does what is computed from one salary, attendance and structure.
LEMMA PayAddsUp ==
  ASSUME NEW c \in Compensations, NEW d \in Summaries, NEW ls \in Seq(Lines), Apart(ls)
  PROVE  AddsUp(Pay(c, d, ls)) /\ Pay(c, d, ls).base = c.base
<1> PICK P : P = ProratedBase(c, d) OBVIOUS
<1>1. P \in Int /\ P <= c.base BY ProratedIsLess
<1>2. PICK os : os = OrderedLines(ls) OBVIOUS
<1> PICK n \in Nat : n = Len(ls) OBVIOUS
<1>3. LinesUpTo(n, os) /\ Apart(os) BY <1>2, LinesInOrder DEF LinesUpTo
<1>4. PICK start : start = [prorated |-> P, earnings |-> 0, fixed |-> 0, deductions |-> 0,
                          staged |-> <<>>, lines |-> <<>>]
  OBVIOUS
<1>5. FirstStands(start, P, os, 0)
  <2>1. start \in Accounts BY <1>1, <1>4 DEF Accounts
  <2>2. /\ start.prorated = P /\ start.earnings = 0 /\ start.fixed = 0 /\ start.deductions = 0
        /\ DOMAIN start.staged = {} /\ DOMAIN start.lines = {}
    BY <1>4
  <2>3. FixedLines(start) = {} /\ \A t : LinesOf(start, t) = {}
    BY <2>2 DEF FixedLines, LinesOf
  <2>4. Summed(start) /\ start.fixed = LineSum(start, FixedLines(start))
    BY <2>2, <2>3, NoLines DEF Summed
  <2>5. QED BY <2>1, <2>2, <2>4 DEF FirstStands, Apart
<1>6. PICK first : first = FoldLeft(FirstPass, start, os) OBVIOUS
<1>7. FirstStands(first, P, os, n) BY <1>3, <1>5, <1>6, FirstPassDone
<1>8. PICK G, st : G = first.fixed /\ st = first.staged OBVIOUS
<1>9. st \in Seq(Lines) BY <1>7, <1>8 DEF FirstStands, Accounts
<1> PICK m \in Nat : m = Len(st) BY <1>9
<1>10. LinesUpTo(m, st) /\ Apart(st) /\ \A j \in 1..m : st[j].mode = "PERCENT_OF_GROSS"
  BY <1>7, <1>9, <1>8 DEF LinesUpTo, FirstStands
<1>11. SecondStands(first, P, G, st, 0) BY <1>7, <1>8 DEF FirstStands, SecondStands
<1>12. PICK second : second = FoldLeft(SecondPass, first, st) OBVIOUS
<1>13. SecondStands(second, P, G, st, m) BY <1>10, <1>11, <1>12, SecondPassDone
<1>14. PICK pay : pay = [pay |-> TRUE, gross |-> second.prorated + second.earnings,
                      deductions |-> second.deductions,
                      net |-> (second.prorated + second.earnings) - second.deductions,
                      lines |-> second.lines, base |-> c.base, prorated |-> P, days |-> d]
  OBVIOUS
<1>15. Pay(c, d, ls) = pay
  BY <1>2, <1>4, <1>6, <1>8, <1>12, <1>14 DEF Pay
<1>16. /\ pay.gross = P + second.earnings /\ pay.deductions = second.deductions
       /\ pay.net = pay.gross - pay.deductions /\ pay.lines = second.lines
       /\ pay.base = c.base /\ pay.prorated = P
  BY <1>13, <1>14 DEF SecondStands
<1>17. /\ \A t : LinesOf(pay, t) = LinesOf(second, t)
       /\ FixedLines(pay) = FixedLines(second)
       /\ \A ks : LineSum(pay, ks) = LineSum(second, ks)
  BY <1>16, SameLines
<1>18. AddsUp(pay)
  <2>1. /\ G = LineSum(pay, FixedLines(pay))
        /\ second.earnings = LineSum(pay, LinesOf(pay, "EARNING"))
        /\ second.deductions = LineSum(pay, LinesOf(pay, "DEDUCTION"))
    BY <1>13, <1>17 DEF SecondStands, Summed
  <2>2. \A k \in DOMAIN second.lines :
          second.lines[k].mode = "PERCENT_OF_GROSS" =>
            second.lines[k].amount = Money((P + G) * second.lines[k].value, 100)
    BY <1>13 DEF SecondStands
  <2>3. \A k \in DOMAIN pay.lines :
          pay.lines[k].mode = "PERCENT_OF_GROSS" =>
            pay.lines[k].amount =
              Money((pay.prorated + LineSum(pay, FixedLines(pay))) * pay.lines[k].value, 100)
    BY <1>16, <2>1, <2>2, Zenon
  <2>4. /\ pay.gross = pay.prorated + LineSum(pay, LinesOf(pay, "EARNING"))
        /\ pay.deductions = LineSum(pay, LinesOf(pay, "DEDUCTION"))
    BY <1>16, <2>1, Zenon
  <2>5. Apart(pay.lines) BY <1>13, <1>16 DEF SecondStands
  <2>6. QED BY <1>1, <1>16, <2>3, <2>4, <2>5 DEF AddsUp
<1>19. QED BY <1>15, <1>16, <1>18

-----------------------------------------------------------------------------
\* The rows that items are computed from.
SetupTyped ==
  /\ lines \in Seq(Lines) /\ Apart(lines)
  /\ days \in [Employees -> Summaries \cup {NoDays}]

\* A session that computes items again does so for a payrun there is.
Recomputing == \A s \in Sessions : pc[s].at = "compute" => status[pc[s].period] # "NONE"

\* An item is INCLUDED with what was computed from a salary in force and the
\* attendance and structure of that moment, or is not paid.
PaidFrom(e, k, d, ls, pay) ==
  /\ d \in Summaries /\ ls \in Seq(Lines) /\ Apart(ls)
  /\ comps[k].employee = e /\ comps[k].currency = Currency
  /\ PeriodStart \in comps[k].from..comps[k].to
  /\ pay = Pay(comps[k], d, ls)

Computed(item, e, pay) ==
  IF item = "INCLUDED" THEN \E k \in DOMAIN comps : \E d, ls : PaidFrom(e, k, d, ls, pay)
  ELSE pay = NoPay

AllComputed ==
  /\ paid = [p \in Periods |-> paid[p]]
  /\ \A p \in Periods, e \in Employees : Computed(items[p][e], e, paid[p][e])

ItemsInv == IInv /\ PayInv /\ SetupTyped /\ Recomputing /\ AllComputed

\* An item that was computed adds up.
LEMMA ComputedAddsUp ==
  ASSUME comps \in Seq(Compensations), NEW e, NEW pay, NEW k \in DOMAIN comps, NEW d, NEW ls,
         PaidFrom(e, k, d, ls, pay)
  PROVE  AddsUp(pay) /\ pay.base = comps[k].base
<1>1. comps[k] \in Compensations OBVIOUS
<1>2. QED BY <1>1, PayAddsUp DEF PaidFrom

\* Items that are computed add up.
LEMMA ItemsAddUpFromInv == ItemsInv => ItemsAddUp
<1> SUFFICES ASSUME ItemsInv PROVE ItemsAddUp OBVIOUS
<1>1. comps \in Seq(Compensations) BY DEF ItemsInv, PayInv
<1>2. ASSUME NEW p \in Periods, NEW e \in Employees, NEW pay, pay = paid[p][e]
      PROVE  /\ pay.pay <=> items[p][e] = "INCLUDED"
             /\ pay.pay =>
                  /\ \E k \in DOMAIN comps :
                       /\ comps[k].employee = e /\ comps[k].currency = Currency
                       /\ PeriodStart \in comps[k].from..comps[k].to
                       /\ pay.base = comps[k].base
                  /\ AddsUp(pay)
  <2>1. Computed(items[p][e], e, pay) BY <1>2 DEF ItemsInv, AllComputed
  <2>2. CASE items[p][e] = "INCLUDED"
    <3> PICK k \in DOMAIN comps : \E d, ls : PaidFrom(e, k, d, ls, pay)
      BY <2>1, <2>2 DEF Computed
    <3>1. PICK d, ls : PaidFrom(e, k, d, ls, pay) OBVIOUS
    <3>2. AddsUp(pay) /\ pay.base = comps[k].base BY <1>1, <3>1, ComputedAddsUp
    <3>3. pay.pay
      <4>1. pay = Pay(comps[k], d, ls) BY <3>1 DEF PaidFrom
      <4>2. QED BY <4>1 DEF Pay
    <3>4. QED BY <2>2, <3>1, <3>2, <3>3 DEF PaidFrom
  <2>3. CASE items[p][e] # "INCLUDED"
    <3>1. pay = NoPay BY <2>1, <2>3 DEF Computed
    <3>2. ~pay.pay BY <3>1 DEF NoPay
    <3>3. QED BY <2>3, <3>2
  <2>4. QED BY <2>2, <2>3
<1>3. \A pay : Apart(pay.lines) =>
        IsInjective([k \in DOMAIN pay.lines |-> pay.lines[k].component])
  BY DEF Apart, IsInjective
<1>4. ASSUME NEW pay, AddsUp(pay)
      PROVE  LET earnings == LinesOf(pay, "EARNING")
                 fixed == {k \in earnings : pay.lines[k].mode = "FIXED"}
             IN  /\ pay.prorated <= pay.base
                 /\ IsInjective([k \in DOMAIN pay.lines |-> pay.lines[k].component])
                 /\ \A k \in DOMAIN pay.lines :
                      pay.lines[k].mode = "PERCENT_OF_GROSS" =>
                        pay.lines[k].amount =
                          Money((pay.prorated + LineSum(pay, fixed)) * pay.lines[k].value, 100)
                 /\ pay.gross = pay.prorated + LineSum(pay, earnings)
                 /\ pay.deductions = LineSum(pay, LinesOf(pay, "DEDUCTION"))
                 /\ pay.net = pay.gross - pay.deductions
  BY <1>3, <1>4, Zenon DEF AddsUp, FixedLines
<1>5. SUFFICES ASSUME NEW p \in Periods, NEW e \in Employees
               PROVE  LET pay == paid[p][e]
                          earnings == LinesOf(pay, "EARNING")
                          fixed == {k \in earnings : pay.lines[k].mode = "FIXED"}
                      IN  /\ pay.pay <=> items[p][e] = "INCLUDED"
                          /\ pay.pay =>
                               /\ \E k \in DOMAIN comps :
                                    /\ comps[k].employee = e /\ comps[k].currency = Currency
                                    /\ PeriodStart \in comps[k].from..comps[k].to
                                    /\ pay.base = comps[k].base
                               /\ pay.prorated <= pay.base
                               /\ IsInjective([k \in DOMAIN pay.lines |-> pay.lines[k].component])
                               /\ \A k \in DOMAIN pay.lines :
                                    pay.lines[k].mode = "PERCENT_OF_GROSS" =>
                                      pay.lines[k].amount =
                                        Money((pay.prorated + LineSum(pay, fixed))
                                                * pay.lines[k].value, 100)
                               /\ pay.gross = pay.prorated + LineSum(pay, earnings)
                               /\ pay.deductions = LineSum(pay, LinesOf(pay, "DEDUCTION"))
                               /\ pay.net = pay.gross - pay.deductions
  BY Zenon DEF ItemsAddUp
<1>6. PICK pay : pay = paid[p][e] OBVIOUS
<1>7. CASE AddsUp(pay)
  <2>1. /\ pay.pay <=> items[p][e] = "INCLUDED"
        /\ pay.pay => \E k \in DOMAIN comps :
                        /\ comps[k].employee = e /\ comps[k].currency = Currency
                        /\ PeriodStart \in comps[k].from..comps[k].to
                        /\ pay.base = comps[k].base
    BY <1>2, <1>6
  <2>2. LET earnings == LinesOf(pay, "EARNING")
            fixed == {k \in earnings : pay.lines[k].mode = "FIXED"}
        IN  /\ pay.prorated <= pay.base
            /\ IsInjective([k \in DOMAIN pay.lines |-> pay.lines[k].component])
            /\ \A k \in DOMAIN pay.lines :
                 pay.lines[k].mode = "PERCENT_OF_GROSS" =>
                   pay.lines[k].amount =
                     Money((pay.prorated + LineSum(pay, fixed)) * pay.lines[k].value, 100)
            /\ pay.gross = pay.prorated + LineSum(pay, earnings)
            /\ pay.deductions = LineSum(pay, LinesOf(pay, "DEDUCTION"))
            /\ pay.net = pay.gross - pay.deductions
    BY <1>4, <1>7
  <2>3. QED BY <1>6, <2>1, <2>2, Zenon
<1>8. CASE ~AddsUp(pay)
  <2>1. ~pay.pay /\ (pay.pay <=> items[p][e] = "INCLUDED") BY <1>2, <1>6, <1>8
  <2>2. QED BY <1>6, <2>1, Zenon
<1>9. QED BY <1>7, <1>8

-----------------------------------------------------------------------------
\* A payrun stays there, so a session that finds it computes for it.
LEMMA RecomputingKeeps ==
  ASSUME IInv, Recomputing, [Next]_vars PROVE Recomputing'
<1>1. \A s \in Sessions : pc[s].at = "compute" => pc[s].period \in Periods BY Where
<1>2. /\ status \in [Periods -> Statuses] /\ pc \in [Sessions -> Places] BY DEF IInv, Typed
<1>3. \A p \in Periods : status[p] # "NONE" => status'[p] # "NONE"
  <2>1. CASE UNCHANGED status BY <2>1
  <2>2. CASE \E p \in Periods, x \in Statuses \ {"NONE"} : status' = [status EXCEPT ![p] = x]
    BY <1>2, <2>2
  <2>3. CASE \E s \in Sessions : GenerateInsert(s) \/ PublishCommit(s)
    <3>1. \A s \in Sessions : GenerateInsert(s) \/ PublishCommit(s) => pc[s].period \in Periods
      BY Where DEF GenerateInsert, PublishCommit
    <3>2. QED BY <2>2, <2>3, <3>1 DEF GenerateInsert, PublishCommit, Statuses
  <2>4. CASE \E i \in 1..Len(reqs) : Approve(i) \/ Reject(i)
    <3> PICK i \in 1..Len(reqs) : Approve(i) \/ Reject(i) BY <2>4
    <3>1. reqs[i].payrun \in Periods BY RequestType
    <3>2. QED BY <1>2, <3>1 DEF Approve, Reject
  <2>5. CASE \E u \in Users, p \in Periods : SubmitNew(u, p) \/ SubmitAgain(u, p)
    BY <2>2, <2>5 DEF SubmitNew, SubmitAgain, MarkSubmitted, Statuses
  <2>6. CASE \/ UNCHANGED vars \/ PayrollChanges
             \/ \E s \in Sessions :
                  \/ \E p \in Periods : GenerateBegin(s, p) \/ PublishBegin(s, p)
                  \/ GenerateConflict(s) \/ ComputeItems(s) \/ WritePayslip(s) \/ Rollback(s)
             \/ \E i \in 1..Len(reqs) : Cancel(i)
    <3>1. UNCHANGED status
      BY <2>6 DEF vars, PayrollChanges, GenerateBegin, PublishBegin, GenerateConflict,
         ComputeItems, WritePayslip, Rollback, Cancel
    <3>2. QED BY <2>1, <3>1
  <2>7. QED BY <2>3, <2>4, <2>5, <2>6 DEF Next
<1>4. ASSUME NEW s \in Sessions, pc'[s].at = "compute", pc'[s] # pc[s]
      PROVE  status'[pc'[s].period] # "NONE"
  <2>1. CASE \E t \in Sessions : GenerateConflict(t)
    <3> PICK t \in Sessions : GenerateConflict(t) BY <2>1
    <3>1. t = s /\ pc'[s].period = pc[s].period BY <1>2, <1>4 DEF GenerateConflict
    <3>2. status[pc[s].period] # "NONE" /\ UNCHANGED status BY <3>1 DEF GenerateConflict
    <3>3. QED BY <3>1, <3>2
  <2>2. CASE \E t \in Sessions, p \in Periods : GenerateBegin(t, p)
    <3> PICK t \in Sessions, p \in Periods : GenerateBegin(t, p) BY <2>2
    <3>1. t = s BY <1>2, <1>4 DEF GenerateBegin
    <3>2. CASE status[p] = "NONE" /\ pc' = [pc EXCEPT ![t] = [at |-> "insert", period |-> p]]
      BY <1>2, <1>4, <3>1, <3>2
    <3>3. CASE status[p] = "DRAFT" /\ pc' = [pc EXCEPT ![t] = [at |-> "compute", period |-> p]]
      BY <1>2, <3>1, <3>3 DEF GenerateBegin
    <3>4. QED BY <3>2, <3>3 DEF GenerateBegin
  <2>3. CASE \E t \in Sessions :
               \/ \E p \in Periods : PublishBegin(t, p)
               \/ GenerateInsert(t) \/ ComputeItems(t) \/ PublishCommit(t) \/ Rollback(t)
    <3>1. \E t \in Sessions : \E w : pc' = [pc EXCEPT ![t] = w] /\ w.at # "compute"
      BY <2>3 DEF PublishBegin, GenerateInsert, ComputeItems, PublishCommit, Rollback, Idle
    <3>2. QED BY <1>2, <1>4, <3>1
  <2>4. CASE \E t \in Sessions : WritePayslip(t)
    <3> PICK t \in Sessions : WritePayslip(t) BY <2>4
    <3>1. PICK e : pc' = [pc EXCEPT ![t].todo = @ \ {e}] BY DEF WritePayslip
    <3>2. pc[t] = [at |-> "publish", period |-> pc[t].period, todo |-> pc[t].todo]
      BY Where DEF WritePayslip
    <3>3. pc'[t].at = "publish" BY <1>2, <3>1, <3>2
    <3>4. QED BY <1>2, <1>4, <3>1, <3>3
  <2>5. CASE \/ UNCHANGED vars \/ PayrollChanges
             \/ \E u \in Users, p \in Periods : SubmitNew(u, p) \/ SubmitAgain(u, p)
             \/ \E i \in 1..Len(reqs) : Approve(i) \/ Reject(i) \/ Cancel(i)
    BY <1>4, <2>5 DEF vars, PayrollChanges, SubmitNew, SubmitAgain, MarkSubmitted, Approve,
       Reject, Cancel
  <2>6. QED BY <2>1, <2>2, <2>3, <2>4, <2>5 DEF Next
<1>5. ASSUME NEW s \in Sessions, pc'[s].at = "compute", pc'[s] = pc[s]
      PROVE  status'[pc'[s].period] # "NONE"
  BY <1>1, <1>3, <1>5 DEF Recomputing
<1>6. QED BY <1>4, <1>5 DEF Recomputing

\* Whoever is in the payrun now would be paid from a salary in force.
LEMMA ComputedNow ==
  ASSUME PayInv, SetupTyped, NEW e \in Employees
  PROVE  Computed(payroll[e], e, PayNow[e])
<1>1. CASE payroll[e] = "INCLUDED"
  <2> DEFINE k == EffectiveCompensation(comps, e)
  <2>1. Payable(comps, days, e) BY <1>1 DEF PayInv, PayrollNow
  <2>2. days[e] \in Summaries /\ k # 0 /\ comps[k].currency = Currency
    BY <2>1 DEF Payable, SetupTyped
  <2>3. comps \in Seq(Compensations) BY DEF PayInv
  <2>4. /\ k \in DOMAIN comps /\ comps[k].employee = e
        /\ comps[k].from <= PeriodStart /\ PeriodStart <= comps[k].to
    BY <2>2, <2>3, EffectiveIsStored
  <2>5. PayNow[e] = Pay(comps[k], days[e], lines) BY <1>1 DEF PayNow
  <2> HIDE DEF k
  <2>6. comps[k] \in Compensations BY <2>3, <2>4
  <2>7. PeriodStart \in comps[k].from..comps[k].to BY <2>4, <2>6, PayrollAssumption
  <2>8. PaidFrom(e, k, days[e], lines, PayNow[e])
    BY <2>2, <2>4, <2>5, <2>7 DEF PaidFrom, SetupTyped
  <2>9. QED BY <1>1, <2>4, <2>8 DEF Computed
<1>2. CASE payroll[e] # "INCLUDED" BY <1>2 DEF PayNow, Computed
<1>3. QED BY <1>1, <1>2

\* What was computed stays justified when compensations are added.
LEMMA ComputedStays ==
  ASSUME comps \in Seq(Compensations),
         comps' = comps \/ \E c \in Compensations : comps' = Append(comps, c),
         NEW item, NEW e, NEW pay, Computed(item, e, pay)
  PROVE  Computed(item, e, pay)'
<1>1. \A k \in DOMAIN comps : k \in DOMAIN comps' /\ comps'[k] = comps[k] OBVIOUS
<1>2. \A k \in DOMAIN comps : \A d, ls : PaidFrom(e, k, d, ls, pay) => PaidFrom(e, k, d, ls, pay)'
  BY <1>1 DEF PaidFrom
<1>3. QED BY <1>1, <1>2 DEF Computed

LEMMA ItemsInvInit == PayInit => ItemsInv
<1> SUFFICES ASSUME PayInit PROVE ItemsInv OBVIOUS
<1>1. IInv BY InvInit DEF PayInit
<1>2. PayInv BY DEF PayInit, PayInv, Init
<1>3. SetupTyped BY DEF PayInit, SetupTyped, Apart
<1>4. Recomputing BY DEF PayInit, Init, Recomputing, Idle
<1>5. \A p \in Periods, e \in Employees : items[p][e] = "none" /\ paid[p][e] = NoPay
  BY DEF PayInit, Init, NoItems
<1>6. AllComputed BY <1>5 DEF AllComputed, Computed, PayInit
<1>7. QED BY <1>1, <1>2, <1>3, <1>4, <1>6 DEF ItemsInv

\* What administrators and attendance do is what items are computed from next.
LEMMA SetupTypedKeeps == ASSUME SetupTyped, [PayNext]_allvars PROVE SetupTyped'
<1>1. CASE UNCHANGED <<lines, days>> BY <1>1 DEF SetupTyped, Apart
<1>2. CASE \E l \in Lines : InsertLine(l)
  <2> PICK l \in Lines : InsertLine(l) BY <1>2
  <2>1. days' = days BY DEF InsertLine
  <2>2. CASE \E k \in DOMAIN lines : lines[k].component = l.component
    BY <1>1, <2>1, <2>2 DEF InsertLine
  <2>3. CASE ~\E k \in DOMAIN lines : lines[k].component = l.component
    <3>1. lines' = Append(lines, l) BY <2>3 DEF InsertLine
    <3>2. lines' \in Seq(Lines) BY <3>1 DEF SetupTyped
    <3>3. Apart(lines')
      <4>1. /\ DOMAIN lines' = DOMAIN lines \cup {Len(lines) + 1} /\ lines'[Len(lines) + 1] = l
            /\ \A k \in DOMAIN lines : lines'[k] = lines[k]
        BY <3>1 DEF SetupTyped
      <4>2. QED BY <2>3, <4>1 DEF SetupTyped, Apart
    <3>4. QED BY <2>1, <3>2, <3>3 DEF SetupTyped
  <2>4. QED BY <2>2, <2>3
<1>3. CASE \E e \in Employees : SummariesChange(e)
  BY <1>3 DEF SummariesChange, SetupTyped, Apart
<1>4. CASE UNCHANGED allvars \/ LifecycleStep \/ \E s \in Sessions : Compute(s)
  BY <1>1, <1>4 DEF allvars, LifecycleStep, Compute, setup
<1>5. QED
  BY <1>1, <1>2, <1>3, <1>4 DEF PayNext, SetupStep, CreateStructure, CreateCalendar,
     CreateComponent, CreatePeriod, Create, CheckCompensation, InsertCompensation, CheckLine,
     StaffChanges

\* Items and their amounts are written together.
LEMMA AllComputedKeeps == ASSUME ItemsInv, [PayNext]_allvars PROVE AllComputed'
<1>1. /\ comps \in Seq(Compensations)
      /\ comps' = comps \/ \E c \in Compensations : comps' = Append(comps, c)
  <2>1. comps' = comps \/ \E c \in Compensations : comps' = Append(comps, c)
    BY DEF PayNext, SetupStep, LifecycleStep, Compute, allvars, setup, CreateStructure,
       CreateCalendar, CreateComponent, CreatePeriod, Create, CheckCompensation,
       InsertCompensation, CheckLine, InsertLine, SummariesChange, StaffChanges
  <2>2. QED BY <2>1 DEF ItemsInv, PayInv
<1>2. AllComputed BY DEF ItemsInv
<1>3. ASSUME NEW p \in Periods, NEW e \in Employees, NEW item, NEW pay, Computed(item, e, pay),
             items'[p][e] = item, paid'[p][e] = pay
      PROVE  Computed(items[p][e], e, paid[p][e])'
  <2>1. Computed(item, e, pay)' BY <1>1, <1>3, ComputedStays
  <2>2. QED BY <1>3, <2>1 DEF Computed, PaidFrom
<1>4. CASE UNCHANGED <<items, paid>>
  <2>1. ASSUME NEW p \in Periods, NEW e \in Employees
        PROVE  Computed(items[p][e], e, paid[p][e])'
    <3>1. PICK item, pay : item = items[p][e] /\ pay = paid[p][e] OBVIOUS
    <3>2. Computed(item, e, pay) BY <1>2, <3>1 DEF AllComputed
    <3>3. QED BY <1>3, <1>4, <3>1, <3>2
  <2>2. QED BY <1>2, <1>4, <2>1 DEF AllComputed
<1>5. ASSUME NEW q \in Periods, items' = [items EXCEPT ![q] = payroll],
             paid' = [paid EXCEPT ![q] = PayNow]
      PROVE  AllComputed'
  <2>1. items \in [Periods -> Items] BY DEF ItemsInv, IInv, Typed
  <2>2. ASSUME NEW p \in Periods, NEW e \in Employees
        PROVE  Computed(items[p][e], e, paid[p][e])'
    <3>1. CASE p = q
      <4>1. PICK item, pay : item = payroll[e] /\ pay = PayNow[e] OBVIOUS
      <4>2. items'[p][e] = item /\ paid'[p][e] = pay
        BY <1>2, <1>5, <2>1, <3>1, <4>1 DEF AllComputed
      <4>3. Computed(item, e, pay) BY <4>1, ComputedNow DEF ItemsInv
      <4>4. QED BY <1>3, <4>2, <4>3
    <3>2. CASE p # q
      <4>1. PICK item, pay : item = items[p][e] /\ pay = paid[p][e] OBVIOUS
      <4>2. items'[p][e] = item /\ paid'[p][e] = pay
        BY <1>2, <1>5, <2>1, <3>2, <4>1 DEF AllComputed
      <4>3. Computed(item, e, pay) BY <1>2, <4>1 DEF AllComputed
      <4>4. QED BY <1>3, <4>2, <4>3
    <3>3. QED BY <3>1, <3>2
  <2>3. paid' = [p \in Periods |-> paid'[p]] BY <1>2, <1>5 DEF AllComputed
  <2>4. QED BY <2>2, <2>3 DEF AllComputed
<1>6. CASE \E s \in Sessions : Compute(s)
  <2> PICK s \in Sessions : Compute(s) BY <1>6
  <2>1. CASE GenerateInsert(s)
    <3>1. pc[s].period \in Periods BY <2>1, Where DEF GenerateInsert, ItemsInv
    <3>2. QED BY <1>5, <2>1, <3>1 DEF Compute, GenerateInsert
  <2>2. CASE ComputeItems(s)
    <3>1. pc[s].period \in Periods /\ status[pc[s].period] # "NONE"
      BY <2>2, Where DEF ComputeItems, ItemsInv, Recomputing
    <3>2. CASE status[pc[s].period] = "DRAFT" BY <1>5, <2>2, <3>1, <3>2 DEF Compute, ComputeItems
    <3>3. CASE status[pc[s].period] # "DRAFT" BY <1>4, <2>2, <3>1, <3>3 DEF Compute, ComputeItems
    <3>4. QED BY <3>2, <3>3
  <2>3. QED BY <2>1, <2>2 DEF Compute
<1>7. CASE UNCHANGED allvars \/ SetupStep \/ LifecycleStep
  <2>1. UNCHANGED <<items, paid>>
    BY <1>7 DEF allvars, vars, SetupStep, lifecycle, LifecycleStep, GenerateBegin, PublishBegin,
       GenerateConflict, WritePayslip, PublishCommit, Rollback, SubmitNew, SubmitAgain,
       MarkSubmitted, Approve, Reject, Cancel
  <2>2. QED BY <1>4, <2>1
<1>8. QED BY <1>6, <1>7 DEF PayNext

LEMMA ItemsInvNext == ItemsInv /\ [PayNext]_allvars => ItemsInv'
<1> SUFFICES ASSUME ItemsInv, [PayNext]_allvars PROVE ItemsInv' OBVIOUS
<1>1. PayInv' /\ [Next]_vars BY StepImplements DEF ItemsInv
<1>2. IInv' /\ Recomputing' BY <1>1, InvNext, RecomputingKeeps DEF ItemsInv
<1>3. SetupTyped' BY SetupTypedKeeps DEF ItemsInv
<1>4. AllComputed' BY AllComputedKeeps
<1>5. QED BY <1>1, <1>2, <1>3, <1>4 DEF ItemsInv

\* Whatever administrators, attendance and sessions do meanwhile, an item is
\* paid exactly when it is INCLUDED, from a salary in force, and adds up: its
\* percentages and totals can be recomputed from the lines it shows.
THEOREM ItemsAddUpCorrect == PaySpec => []ItemsAddUp
BY ItemsInvInit, ItemsInvNext, ItemsAddUpFromInv, PTL DEF PaySpec

=============================================================================
