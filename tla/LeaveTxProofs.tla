---------------------------- MODULE LeaveTxProofs ----------------------------
(***************************************************************************)
(* Theorems about LeaveTx, for any number of sessions, requests, accounts  *)
(* and approval steps.                                                      *)
(***************************************************************************)
EXTENDS LeaveTx, TLAPS, FiniteSetTheorems

\* The statements of create_my_request.
CreatePCs == {"overlap", "balance", "insert", "inserted"}

\* A submission is handled by one session until its row is committed.
Creators ==
  \A t \in Tx : pc[t] \in CreatePCs =>
    /\ lstatus[job[t]] = "NONE"
    /\ \A u \in Tx \ {t} : job[u] # job[t]

\* FOR UPDATE on the type row admits one session.
OneHolder == \A t, u \in Tx : HoldsType(t) /\ HoldsType(u) => t = u

\* What a session about to debit has checked is still so.
Debiting ==
  \A t \in Tx : pc[t] = "debit" =>
    /\ lstatus[job[t]] = "PENDING"
    /\ step[job[t]] = NSteps

\* An inserted key is reserved until the transaction ends.
KeyReserved ==
  \A t \in Tx : pc[t] = "inserted" =>
    /\ \A q \in Requests : SameKey(q, job[t]) => lstatus[q] = "NONE"
    /\ \A u \in Tx : ~(pc[u] = "inserted" /\ SameKey(job[u], job[t]))

\* The inductive invariant.
IInv == TypeOK /\ AllOrNothing /\ Creators /\ OneHolder /\ Debiting
          /\ KeyReserved /\ OneRequestPerKey

\* Added to it when HR only ever adds days.
Funded == \A t \in Tx : pc[t] = "debit" => Affordable(job[t])

-----------------------------------------------------------------------------
\* A request's length is a whole number of half days (compute_request_days).
LEMMA RequestedType == Requested \in [Requests -> Nat]
<1>1. ASSUME NEW r \in Requests PROVE Cardinality(CountableDays(r)) \in Nat
  <2>1. IsFiniteSet(CountableDays(r))
    BY ConstantsAssumption, FS_Subset DEF CountableDays
  <2>2. QED BY <2>1, FS_CardinalityType
<1>2. QED BY <1>1 DEF Requested

\* Every working day of a request is a calendar day.
LEMMA CountableType == \A r \in Requests : CountableDays(r) \in SUBSET Days
BY ConstantsAssumption DEF CountableDays

-----------------------------------------------------------------------------
\* Every statement of every transaction keeps the types.
LEMMA TypeStep == TypeOK /\ [Next]_vars => TypeOK'
<1> SUFFICES ASSUME TypeOK, [Next]_vars PROVE TypeOK' OBVIOUS
<1> USE ConstantsAssumption, RequestedType, CountableType DEF TypeOK
<1>1. CASE UNCHANGED vars BY <1>1 DEF vars
<1>2. ASSUME NEW t \in Tx, Create(t) PROVE TypeOK'
  <2>1. ASSUME NEW r \in Requests, CreateBegin(t, r) PROVE TypeOK'
    BY <2>1 DEF CreateBegin, Begin, db, PCs, Kinds
  <2>2. CASE CheckOverlap(t) BY <2>2 DEF CheckOverlap, GotoIf, Goto, End, db, PCs, Kinds
  <2>3. CASE CheckBalance(t) BY <2>3 DEF CheckBalance, GotoIf, Goto, End, db, PCs, Kinds
  <2>4. CASE CreateInsert(t) BY <2>4 DEF CreateInsert, Goto, db, PCs
  <2>5. CASE CreateConflict(t) BY <2>5 DEF CreateConflict, End, db, PCs, Kinds
  <2>6. CASE CreateCommit(t) BY <2>6 DEF CreateCommit, End, PCs, Kinds, LeaveStatuses, WfStatuses
  <2>7. QED BY <1>2, <2>1, <2>2, <2>3, <2>4, <2>5, <2>6 DEF Create
<1>3. ASSUME NEW t \in Tx, Decide(t) PROVE TypeOK'
  <2>1. ASSUME NEW r \in Requests, DecideBegin(t, r) PROVE TypeOK'
    BY <2>1 DEF DecideBegin, Begin, db, PCs, Kinds
  <2>2. ASSUME NEW r \in Requests, CancelMyRequest(t, r) PROVE TypeOK'
    BY <2>2 DEF CancelMyRequest, Begin, db, PCs, Kinds
  <2>3. CASE LockRequest(t) BY <2>3 DEF LockRequest, Goto, db, PCs
  <2>4. CASE LockType(t) BY <2>4 DEF LockType, Goto, db, PCs
  <2>5. CASE DecideRefused(t) BY <2>5 DEF DecideRefused, End, db, PCs, Kinds
  <2>6. CASE ApproveStep(t) BY <2>6 DEF ApproveStep, End, PCs, Kinds
  <2>7. CASE ApproveCheck(t) BY <2>7 DEF ApproveCheck, GotoIf, Goto, End, db, PCs, Kinds
  <2>8. CASE ApproveCommit(t)
    <3>1. job[t] \in Requests BY <2>8 DEF ApproveCommit
    <3>2. balance' \in [Accounts -> Int] BY <2>8, <3>1 DEF ApproveCommit
    <3>3. overrides' \in SUBSET (Requests \X Days) BY <2>8, <3>1 DEF ApproveCommit
    <3>4. QED BY <2>8, <3>1, <3>2, <3>3
              DEF ApproveCommit, End, PCs, Kinds, LeaveStatuses, WfStatuses
  <2>9. CASE RejectCommit(t)
    BY <2>9 DEF RejectCommit, CloseWith, End, PCs, Kinds, LeaveStatuses, WfStatuses
  <2>10. CASE CancelCommit(t)
    BY <2>10 DEF CancelCommit, CloseWith, End, PCs, Kinds, LeaveStatuses, WfStatuses
  <2>11. QED BY <1>3, <2>1, <2>2, <2>3, <2>4, <2>5, <2>6, <2>7, <2>8, <2>9, <2>10 DEF Decide
<1>4. ASSUME NEW t \in Tx, Rollback(t) PROVE TypeOK'
  BY <1>4 DEF Rollback, End, db, PCs, Kinds
<1>5. ASSUME NEW a \in Accounts, NEW n \in Allocations, Allocate(a, n) PROVE TypeOK'
  BY <1>5 DEF Allocate, session
<1>6. QED BY <1>1, <1>2, <1>3, <1>4, <1>5 DEF Next

\* Every reachable state is well typed, and a session that is not idle works
\* on a request.
THEOREM TypeCorrect == Spec => []TypeOK
<1>1. Init => TypeOK
  BY ConstantsAssumption DEF Init, TypeOK, LeaveStatuses, WfStatuses, PCs, Kinds
<1>2. QED BY <1>1, TypeStep, PTL DEF Spec

-----------------------------------------------------------------------------
(* The actions that leave the database alone move one session: these are   *)
(* the places it can be moved to, and under which condition.               *)
SessionMove(t) ==
  /\ UNCHANGED db
  /\ \A u \in Tx \ {t} : pc'[u] = pc[u] /\ job'[u] = job[u]
  /\ \/ pc'[t] = "idle" /\ job'[t] = NoRequest
     \/ /\ pc[t] = "idle" /\ pc'[t] = "overlap" /\ job'[t] \in Requests
        /\ lstatus[job'[t]] = "NONE" /\ \A u \in Tx : job[u] # job'[t]
     \/ pc[t] \in CreatePCs /\ pc'[t] \in {"balance", "insert"} /\ job'[t] = job[t]
     \/ /\ pc[t] = "insert" /\ pc'[t] = "inserted" /\ job'[t] = job[t]
        /\ \A u \in Tx : ~(pc[u] = "inserted" /\ SameKey(job[u], job[t]))
        /\ \A q \in Requests : SameKey(q, job[t]) => lstatus[q] = "NONE"
     \/ /\ pc[t] = "idle" /\ pc'[t] = "lockRequest" /\ job'[t] \in Requests
        /\ lstatus[job'[t]] # "NONE"
     \/ pc[t] = "lockRequest" /\ pc'[t] = "lockType" /\ job'[t] = job[t]
     \/ /\ pc[t] = "lockType" /\ pc'[t] = "locked" /\ job'[t] = job[t]
        /\ \A u \in Tx : ~HoldsType(u)
     \/ /\ pc[t] = "locked" /\ pc'[t] = "debit" /\ job'[t] = job[t]
        /\ lstatus[job[t]] = "PENDING" /\ step[job[t]] = NSteps /\ Affordable(job[t])

SessionAction(t) ==
  \/ \E r \in Requests : CreateBegin(t, r) \/ DecideBegin(t, r) \/ CancelMyRequest(t, r)
  \/ CheckOverlap(t) \/ CheckBalance(t) \/ CreateInsert(t) \/ CreateConflict(t)
  \/ LockRequest(t) \/ LockType(t) \/ DecideRefused(t) \/ ApproveCheck(t) \/ Rollback(t)

\* The read-only and locking statements are session moves.
LEMMA SessionMoves ==
  ASSUME TypeOK, AllOrNothing, NEW t \in Tx, SessionAction(t)
  PROVE  SessionMove(t)
<1> USE DEF TypeOK, SessionMove, CreatePCs
<1>1. ASSUME NEW r \in Requests, CreateBegin(t, r) PROVE SessionMove(t)
  BY <1>1 DEF CreateBegin, Begin
<1>2. ASSUME NEW r \in Requests, DecideBegin(t, r) PROVE SessionMove(t)
  <2>1. lstatus[r] # "NONE"
    BY <1>2 DEF DecideBegin, AllOrNothing, Mirrors
  <2>2. QED BY <1>2, <2>1 DEF DecideBegin, Begin
<1>3. ASSUME NEW r \in Requests, CancelMyRequest(t, r) PROVE SessionMove(t)
  BY <1>3 DEF CancelMyRequest, Begin
<1>4. CASE CheckOverlap(t) BY <1>4 DEF CheckOverlap, GotoIf, Goto, End
<1>5. CASE CheckBalance(t) BY <1>5 DEF CheckBalance, GotoIf, Goto, End
<1>6. CASE CreateInsert(t) BY <1>6 DEF CreateInsert, Goto
<1>7. CASE CreateConflict(t) BY <1>7 DEF CreateConflict, End
<1>8. CASE LockRequest(t) BY <1>8 DEF LockRequest, Goto
<1>9. CASE LockType(t) BY <1>9 DEF LockType, Goto
<1>10. CASE DecideRefused(t) BY <1>10 DEF DecideRefused, End
<1>11. CASE ApproveCheck(t) BY <1>11 DEF ApproveCheck, GotoIf, Goto, End
<1>12. CASE Rollback(t) BY <1>12 DEF Rollback, End
<1>13. QED BY <1>1, <1>2, <1>3, <1>4, <1>5, <1>6, <1>7, <1>8, <1>9, <1>10, <1>11, <1>12
           DEF SessionAction

\* A session move keeps the inductive invariant.
LEMMA SessionStep ==
  ASSUME IInv, TypeOK', NEW t \in Tx, SessionMove(t)
  PROVE  IInv'
<1> USE DEF SessionMove, db, TypeOK
<1>1. AllOrNothing' /\ OneRequestPerKey'
  BY DEF IInv, AllOrNothing, OneRequestPerKey
<1>2. Creators'
  BY ConstantsAssumption DEF IInv, Creators, CreatePCs
<1>3. OneHolder'
  BY DEF IInv, OneHolder, HoldsType
<1>4. Debiting'
  BY DEF IInv, Debiting
<1>5. KeyReserved'
  BY DEF IInv, KeyReserved, SameKey
<1>6. QED BY <1>1, <1>2, <1>3, <1>4, <1>5 DEF IInv

-----------------------------------------------------------------------------
(* The committing actions, one lemma each.                                 *)

\* The session of a transaction that ends is idle and works on nothing.
LEMMA EndMove ==
  ASSUME TypeOK, NEW t \in Tx, End(t)
  PROVE  /\ pc'[t] = "idle" /\ job'[t] = NoRequest
         /\ \A u \in Tx \ {t} : pc'[u] = pc[u] /\ job'[u] = job[u]
BY DEF TypeOK, End

\* Committing a creation.
LEMMA CreateCommitStep ==
  ASSUME IInv, TypeOK', NEW t \in Tx, CreateCommit(t)
  PROVE  IInv'
<1> DEFINE r == job[t]
<1>1. r \in Requests /\ pc[t] = "inserted" /\ lstatus[r] = "NONE"
  BY DEF IInv, TypeOK, CreateCommit, Creators, CreatePCs
<1>2. /\ pc'[t] = "idle" /\ job'[t] = NoRequest
      /\ \A u \in Tx \ {t} : pc'[u] = pc[u] /\ job'[u] = job[u]
  BY EndMove DEF IInv, CreateCommit
<1>3. /\ lstatus'[r] = "PENDING" /\ wf'[r] = "submitted" /\ step'[r] = 1
      /\ \A q \in Requests \ {r} : lstatus'[q] = lstatus[q] /\ wf'[q] = wf[q] /\ step'[q] = step[q]
      /\ debited' = debited /\ overrides' = overrides
  BY <1>1 DEF IInv, TypeOK, CreateCommit
<1>4. \A u \in Tx \ {t} : job[u] # r
  BY <1>1 DEF IInv, Creators, CreatePCs
<1> HIDE DEF r
<1>5. AllOrNothing'
  <2> SUFFICES ASSUME NEW q \in Requests
               PROVE  /\ <<lstatus'[q], wf'[q]>> \in Mirrors
                      /\ q \in debited' <=> lstatus'[q] = "APPROVED"
                      /\ {d \in Days : <<q, d>> \in overrides'} =
                           IF lstatus'[q] = "APPROVED" THEN CountableDays(q) ELSE {}
    BY DEF AllOrNothing
  <2>1. CASE q = r BY <1>1, <1>3, <2>1 DEF IInv, AllOrNothing, Mirrors
  <2>2. CASE q # r BY <1>3, <2>2 DEF IInv, AllOrNothing
  <2>3. QED BY <2>1, <2>2
<1>6. Creators'
  BY <1>1, <1>2, <1>3, <1>4, ConstantsAssumption DEF IInv, TypeOK, Creators, CreatePCs
<1>7. OneHolder'
  BY <1>2 DEF IInv, OneHolder, HoldsType
<1>8. Debiting'
  BY <1>1, <1>2, <1>3 DEF IInv, TypeOK, Debiting
<1>9. KeyReserved'
  <2>1. ASSUME NEW u \in Tx, pc'[u] = "inserted", NEW q \in Requests, SameKey(q, job[u])
        PROVE  lstatus'[q] = "NONE"
    <3>1. u # t /\ pc[u] = "inserted" /\ lstatus[q] = "NONE"
      BY <1>2, <2>1 DEF IInv, KeyReserved
    <3>2. q # r BY <1>1, <2>1, <3>1 DEF IInv, KeyReserved, r
    <3>3. QED BY <3>1, <3>2, <1>3
  <2>2. QED BY <1>2, <2>1 DEF IInv, KeyReserved, SameKey
<1>10. OneRequestPerKey'
  <2>1. \A q \in Requests : SameKey(q, r) => lstatus[q] = "NONE"
    BY <1>1 DEF IInv, KeyReserved, r
  <2>2. QED BY <1>1, <1>3, <2>1 DEF IInv, OneRequestPerKey, SameKey
<1>11. QED BY <1>5, <1>6, <1>7, <1>8, <1>9, <1>10 DEF IInv

\* Committing a decision: the session holds the type row, so no other session
\* stands between its check and its debit, and the request exists.
DecisionMove(t) ==
  LET r == job[t] IN
  /\ HoldsType(t) /\ lstatus[r] # "NONE" /\ lstatus'[r] # "NONE"
  /\ pc'[t] = "idle" /\ job'[t] = NoRequest
  /\ \A u \in Tx \ {t} : pc'[u] = pc[u] /\ job'[u] = job[u]
  /\ \A q \in Requests \ {r} : lstatus'[q] = lstatus[q] /\ wf'[q] = wf[q] /\ step'[q] = step[q]

\* A committed decision keeps everything but AllOrNothing, which each one
\* establishes for itself.
LEMMA DecisionStep ==
  ASSUME IInv, TypeOK', NEW t \in Tx, job[t] \in Requests, DecisionMove(t), AllOrNothing'
  PROVE  IInv'
<1>1. \A u \in Tx \ {t} : pc[u] \notin {"locked", "debit"}
  BY DEF IInv, OneHolder, HoldsType, DecisionMove
<1>2. Creators'
  BY ConstantsAssumption DEF IInv, TypeOK, Creators, CreatePCs, DecisionMove
<1>3. OneHolder' /\ Debiting'
  BY <1>1 DEF IInv, OneHolder, Debiting, HoldsType, DecisionMove
<1>4. KeyReserved'
  BY DEF IInv, TypeOK, KeyReserved, SameKey, DecisionMove
<1>5. OneRequestPerKey'
  BY DEF IInv, TypeOK, OneRequestPerKey, SameKey, DecisionMove
<1>6. QED BY <1>2, <1>3, <1>4, <1>5 DEF IInv

\* Recording an approval that is not the last one.
LEMMA ApproveStepStep ==
  ASSUME IInv, TypeOK', NEW t \in Tx, ApproveStep(t)
  PROVE  IInv'
<1>1. job[t] \in Requests BY DEF IInv, TypeOK, ApproveStep
<1>2. lstatus[job[t]] # "NONE" BY <1>1 DEF IInv, AllOrNothing, Mirrors, ApproveStep
<1>3. DecisionMove(t)
  BY <1>1, <1>2, EndMove DEF IInv, TypeOK, ApproveStep, DecisionMove, HoldsType
<1>4. AllOrNothing' BY DEF IInv, AllOrNothing, ApproveStep
<1>5. QED BY <1>1, <1>3, <1>4, DecisionStep

\* The final approval.
LEMMA ApproveCommitStep ==
  ASSUME IInv, TypeOK', NEW t \in Tx, ApproveCommit(t)
  PROVE  IInv'
<1> DEFINE r == job[t]
<1>1. r \in Requests /\ lstatus[r] = "PENDING" /\ pc[t] = "debit"
  BY DEF IInv, TypeOK, ApproveCommit, Debiting
<1>2. DecisionMove(t)
  BY <1>1, EndMove DEF IInv, TypeOK, ApproveCommit, DecisionMove, HoldsType
<1>3. AllOrNothing'
  <2> SUFFICES ASSUME NEW q \in Requests
               PROVE  /\ <<lstatus'[q], wf'[q]>> \in Mirrors
                      /\ q \in debited' <=> lstatus'[q] = "APPROVED"
                      /\ {d \in Days : <<q, d>> \in overrides'} =
                           IF lstatus'[q] = "APPROVED" THEN CountableDays(q) ELSE {}
    BY DEF AllOrNothing
  <2>1. debited' = debited \cup {r} /\ overrides' = overrides \cup ({r} \X CountableDays(r))
    BY DEF ApproveCommit
  <2>2. CASE q = r
    <3>1. lstatus'[q] = "APPROVED" /\ wf'[q] = "approved"
      BY <1>1, <2>2 DEF IInv, TypeOK, ApproveCommit
    <3>2. {d \in Days : <<q, d>> \in overrides} = {}
      BY <1>1, <2>2 DEF IInv, AllOrNothing
    <3>3. QED BY <2>1, <2>2, <3>1, <3>2, CountableType DEF Mirrors
  <2>3. CASE q # r
    <3>1. lstatus'[q] = lstatus[q] /\ wf'[q] = wf[q]
      BY <1>1, <1>2, <2>3 DEF DecisionMove
    <3>2. QED BY <2>1, <2>3, <3>1 DEF IInv, AllOrNothing
  <2>4. QED BY <2>2, <2>3
<1>4. QED BY <1>1, <1>2, <1>3, DecisionStep

\* Rejection and cancellation.
LEMMA CloseStep ==
  ASSUME IInv, TypeOK', NEW t \in Tx,
         RejectCommit(t) \/ CancelCommit(t)
  PROVE  IInv'
<1> DEFINE r == job[t]
<1>1. PICK w \in {"rejected", "cancelled"}, l \in {"REJECTED", "CANCELED"} :
        CloseWith(t, w, l) /\ <<l, w>> \in Mirrors
  BY DEF RejectCommit, CancelCommit, Mirrors
<1>2. r \in Requests /\ lstatus[r] = "PENDING"
  BY <1>1 DEF IInv, TypeOK, CloseWith, AllOrNothing, Mirrors
<1>3. lstatus'[r] = l /\ wf'[r] = w
  BY <1>1, <1>2 DEF IInv, TypeOK, CloseWith
<1>4. DecisionMove(t)
  BY <1>1, <1>2, <1>3, EndMove DEF IInv, TypeOK, CloseWith, DecisionMove, HoldsType
<1>5. AllOrNothing'
  <2>1. debited' = debited /\ overrides' = overrides BY <1>1 DEF CloseWith
  <2>2. \A q \in Requests \ {r} : lstatus'[q] = lstatus[q] /\ wf'[q] = wf[q]
    BY <1>4 DEF DecisionMove
  <2>3. l # "APPROVED" OBVIOUS
  <2>4. QED BY <1>1, <1>2, <1>3, <2>1, <2>2, <2>3 DEF IInv, AllOrNothing
<1>6. QED BY <1>2, <1>4, <1>5, DecisionStep

\* Every step keeps the inductive invariant.
LEMMA InvStep == IInv /\ [Next]_vars => IInv'
<1> SUFFICES ASSUME IInv, [Next]_vars PROVE IInv' OBVIOUS
<1>1. TypeOK' BY TypeStep DEF IInv
<1>2. CASE UNCHANGED vars
  BY <1>1, <1>2 DEF vars, IInv, AllOrNothing, Creators, OneHolder, HoldsType, Debiting,
                    KeyReserved, OneRequestPerKey
<1>3. ASSUME NEW t \in Tx, Create(t) \/ Decide(t) \/ Rollback(t) PROVE IInv'
  <2>1. CASE SessionAction(t) BY <1>1, <2>1, SessionMoves, SessionStep DEF IInv
  <2>2. CASE CreateCommit(t) BY <1>1, <2>2, CreateCommitStep
  <2>3. CASE ApproveStep(t) BY <1>1, <2>3, ApproveStepStep
  <2>4. CASE ApproveCommit(t) BY <1>1, <2>4, ApproveCommitStep
  <2>5. CASE RejectCommit(t) \/ CancelCommit(t) BY <1>1, <2>5, CloseStep
  <2>6. QED BY <1>3, <2>1, <2>2, <2>3, <2>4, <2>5 DEF Create, Decide, SessionAction
<1>4. ASSUME NEW a \in Accounts, NEW n \in Allocations, Allocate(a, n) PROVE IInv'
  BY <1>1, <1>4 DEF Allocate, session, IInv, AllOrNothing, Creators, OneHolder, HoldsType,
                    Debiting, KeyReserved, OneRequestPerKey
<1>5. QED BY <1>2, <1>3, <1>4 DEF Next

\* The inductive invariant holds initially.
LEMMA InvInit == Init => IInv
<1> SUFFICES ASSUME Init PROVE IInv OBVIOUS
<1>1. TypeOK
  BY ConstantsAssumption DEF Init, TypeOK, LeaveStatuses, WfStatuses, PCs, Kinds
<1>2. AllOrNothing BY DEF Init, AllOrNothing, Mirrors
<1>3. Creators /\ OneHolder /\ Debiting /\ KeyReserved
  BY DEF Init, Creators, CreatePCs, OneHolder, HoldsType, Debiting, KeyReserved
<1>4. OneRequestPerKey BY DEF Init, OneRequestPerKey
<1>5. QED BY <1>1, <1>2, <1>3, <1>4 DEF IInv

\* A leave row, its workflow request, its ledger debit and its attendance
\* overrides are never out of step in any committed state.
THEOREM AllOrNothingCorrect == Spec => []AllOrNothing
<1>1. IInv => AllOrNothing BY DEF IInv
<1>2. QED BY <1>1, InvInit, InvStep, PTL DEF Spec

\* However often a submission is retried with its key, at most one leave
\* request results.
THEOREM OneRequestPerKeyCorrect == Spec => []OneRequestPerKey
<1>1. IInv => OneRequestPerKey BY DEF IInv
<1>2. QED BY <1>1, InvInit, InvStep, PTL DEF Spec

-----------------------------------------------------------------------------
(* The account.                                                             *)

\* Session moves and allocations keep what a session about to debit saw.
LEMMA FundedStep ==
  ASSUME Allocations \subseteq Nat, IInv, Funded, [Next]_vars
  PROVE  Funded'
<1>1. TypeOK /\ TypeOK' BY TypeStep DEF IInv
<1>2. CASE UNCHANGED vars BY <1>2 DEF vars, Funded, Affordable
<1>3. ASSUME NEW t \in Tx, SessionAction(t) PROVE Funded'
  <2>1. SessionMove(t) BY <1>3, SessionMoves DEF IInv
  <2>2. QED BY <2>1, <1>1 DEF SessionMove, db, TypeOK, Funded, Affordable
<1>4. ASSUME NEW t \in Tx,
             CreateCommit(t) \/ ApproveStep(t) \/ RejectCommit(t) \/ CancelCommit(t)
      PROVE  Funded'
  <2>1. UNCHANGED balance /\ End(t)
    BY <1>4 DEF CreateCommit, ApproveStep, RejectCommit, CancelCommit, CloseWith
  <2>2. QED BY <1>1, <2>1, EndMove DEF Funded, Affordable
<1>5. ASSUME NEW t \in Tx, ApproveCommit(t) PROVE Funded'
  <2>1. \A u \in Tx \ {t} : pc[u] # "debit"
    BY <1>5 DEF IInv, OneHolder, HoldsType, ApproveCommit
  <2>2. QED BY <1>1, <1>5, <2>1, EndMove DEF ApproveCommit, Funded
<1>6. ASSUME NEW a \in Accounts, NEW n \in Allocations, Allocate(a, n) PROVE Funded'
  <2>1. \A b \in Accounts : balance'[b] >= balance[b] /\ balance[b] \in Int /\ balance'[b] \in Int
    BY <1>1, <1>6 DEF Allocate, TypeOK
  <2>2. \A u \in Tx : pc[u] = "debit" => job[u] \in Requests BY <1>1 DEF TypeOK
  <2>3. \A r \in Requests : Affordable(r) => Affordable(r)'
    BY <2>1, RequestedType, ConstantsAssumption DEF Affordable
  <2>4. QED BY <1>6, <2>2, <2>3 DEF Allocate, session, Funded
<1>7. QED BY <1>2, <1>3, <1>4, <1>5, <1>6
          DEF Next, Create, Decide, SessionAction

\* What each step does to the leave rows and the balances, as the atomic
\* account sees it.
LEMMA AccountStep ==
  ASSUME Allocations \subseteq Nat, IInv, Funded, [Next]_vars
  PROVE  [Account!Next]_(Account!vars)
<1> USE DEF Account!vars
<1>1. TypeOK /\ TypeOK' BY TypeStep DEF IInv
<1>2. CASE UNCHANGED vars BY <1>2 DEF vars
<1>3. ASSUME NEW t \in Tx, SessionAction(t) PROVE UNCHANGED <<lstatus, balance>>
  BY <1>3, SessionMoves DEF IInv, SessionMove, db
<1>4. ASSUME NEW t \in Tx, CreateCommit(t) PROVE Account!Next
  <2>1. job[t] \in Requests /\ lstatus[job[t]] = "NONE"
    BY <1>4 DEF IInv, TypeOK, CreateCommit, Creators, CreatePCs
  <2>2. Account!Submit(job[t]) BY <1>4, <2>1 DEF CreateCommit, Account!Submit
  <2>3. QED BY <2>1, <2>2 DEF Account!Next
<1>5. ASSUME NEW t \in Tx, ApproveStep(t) PROVE UNCHANGED <<lstatus, balance>>
  BY <1>5 DEF ApproveStep
<1>6. ASSUME NEW t \in Tx, ApproveCommit(t) PROVE Account!Next
  <2>1. job[t] \in Requests /\ lstatus[job[t]] = "PENDING" /\ job[t] \notin debited
    BY <1>6 DEF IInv, TypeOK, ApproveCommit, Debiting, AllOrNothing
  <2>2. Affordable(job[t]) BY <1>6 DEF Funded, ApproveCommit
  <2>3. Account!Approve(job[t])
    BY <1>6, <2>1, <2>2 DEF ApproveCommit, Affordable, Account!Approve, Account!Affordable
  <2>4. QED BY <2>1, <2>3 DEF Account!Next
<1>7. ASSUME NEW t \in Tx, RejectCommit(t) \/ CancelCommit(t) PROVE Account!Next
  <2>1. PICK l \in {"REJECTED", "CANCELED"}, w \in {"rejected", "cancelled"} : CloseWith(t, w, l)
    BY <1>7 DEF RejectCommit, CancelCommit
  <2>2. job[t] \in Requests /\ lstatus[job[t]] = "PENDING"
    BY <2>1 DEF IInv, TypeOK, CloseWith, AllOrNothing, Mirrors
  <2>3. lstatus' = [lstatus EXCEPT ![job[t]] = l] /\ UNCHANGED balance
    BY <2>1, <2>2 DEF CloseWith
  <2>4. Account!Close(job[t]) BY <2>2, <2>3 DEF Account!Close
  <2>5. QED BY <2>2, <2>4 DEF Account!Next
<1>8. ASSUME NEW a \in Accounts, NEW n \in Allocations, Allocate(a, n) PROVE Account!Next
  <2>1. Account!Credit(a) BY <1>1, <1>8 DEF Allocate, TypeOK, Account!Credit
  <2>2. QED BY <2>1 DEF Account!Next
<1>9. QED BY <1>2, <1>3, <1>4, <1>5, <1>6, <1>7, <1>8
          DEF Next, Create, Decide, SessionAction

\* The transactions implement the atomic account: whatever the interleaving,
\* an approval is as good as one that checks and debits in a single step.
THEOREM AccountRefinement ==
  ASSUME Allocations \subseteq Nat
  PROVE  Spec => ImplementsAccount
<1>1. Init => IInv /\ Funded /\ Account!Init
  BY InvInit DEF Init, Funded, Account!Init
<1>2. IInv /\ Funded /\ [Next]_vars => (IInv /\ Funded)' /\ [Account!Next]_(Account!vars)
  BY InvStep, FundedStep, AccountStep
<1>3. QED BY <1>1, <1>2, PTL DEF Spec, ImplementsAccount, Account!Spec

\* No account whose type forbids it is ever overdrawn.
THEOREM NoOverdraftCorrect == Spec => []NoOverdraft
<1>1. CASE ~(Allocations \subseteq Nat)
  <2>1. NoOverdraft BY <1>1 DEF NoOverdraft
  <2>2. QED BY <2>1, PTL
<1>2. CASE Allocations \subseteq Nat
  <2>1. Init => IInv /\ Funded /\ NoOverdraft
    BY InvInit DEF Init, Funded, NoOverdraft
  <2>2. IInv /\ Funded /\ NoOverdraft /\ [Next]_vars => (IInv /\ Funded /\ NoOverdraft)'
    <3> SUFFICES ASSUME IInv, Funded, NoOverdraft, [Next]_vars
                 PROVE  NoOverdraft'
      BY <1>2, InvStep, FundedStep
    <3>1. [Account!Next]_(Account!vars) BY <1>2, AccountStep
    <3>2. TypeOK /\ TypeOK' BY TypeStep DEF IInv
    <3>3. ASSUME NEW r \in Requests, Account!Approve(r) PROVE NoOverdraft'
      <4>1. AcctOf[r] \in Accounts /\ Requested[r] \in Nat
        BY RequestedType, ConstantsAssumption
      <4>2. /\ balance' = [balance EXCEPT ![AcctOf[r]] = @ - Requested[r]]
            /\ AcctOf[r] \notin AllowNegative => Requested[r] <= balance[AcctOf[r]]
        BY <3>3 DEF Account!Approve, Account!Affordable
      <4>3. ASSUME NEW a \in Accounts \ AllowNegative PROVE balance'[a] >= 0
        <5>1. balance[a] \in Int /\ balance[a] >= 0 BY <1>2, <3>2 DEF NoOverdraft, TypeOK
        <5>2. CASE a = AcctOf[r] BY <3>2, <4>1, <4>2, <5>1, <5>2 DEF TypeOK
        <5>3. CASE a # AcctOf[r] BY <3>2, <4>2, <5>1, <5>3 DEF TypeOK
        <5>4. QED BY <5>2, <5>3
      <4>4. QED BY <4>3 DEF NoOverdraft
    <3>4. ASSUME NEW a \in Accounts, Account!Credit(a) PROVE NoOverdraft'
      BY <1>2, <3>2, <3>4 DEF Account!Credit, NoOverdraft, TypeOK
    <3>5. CASE UNCHANGED balance BY <3>5 DEF NoOverdraft
    <3>6. QED BY <3>1, <3>3, <3>4, <3>5
              DEF Account!Next, Account!vars, Account!Submit, Account!Close
  <2>3. QED BY <2>1, <2>2, PTL DEF Spec
<1>3. QED BY <1>1, <1>2

-----------------------------------------------------------------------------
\* Whichever of two racing decisions commits first is final.
THEOREM DecisionsFinalCorrect == Spec => DecisionsFinal
<1> DEFINE Final == \A r \in Requests :
       wf[r] \in {"approved", "rejected", "cancelled"} =>
         /\ wf'[r] = wf[r] /\ lstatus'[r] = lstatus[r] /\ step'[r] = step[r]
         /\ r \in debited <=> r \in debited'
<1>1. IInv /\ [Next]_vars => [Final]_vars
  <2> SUFFICES ASSUME IInv, Next PROVE Final BY DEF vars
  <2>1. TypeOK BY DEF IInv
  <2>2. ASSUME NEW t \in Tx, SessionAction(t) PROVE Final
    BY <2>2, SessionMoves DEF IInv, SessionMove, db
  <2>3. ASSUME NEW t \in Tx, CreateCommit(t) PROVE Final
    <3>1. job[t] \in Requests /\ wf[job[t]] = "none"
      BY <2>3 DEF IInv, TypeOK, CreateCommit, Creators, CreatePCs, AllOrNothing, Mirrors
    <3>2. QED BY <2>1, <2>3, <3>1 DEF CreateCommit, TypeOK
  <2>4. ASSUME NEW t \in Tx, ApproveStep(t) PROVE Final
    BY <2>1, <2>4 DEF ApproveStep, TypeOK
  <2>5. ASSUME NEW t \in Tx, ApproveCommit(t) PROVE Final
    <3>1. job[t] \in Requests /\ wf[job[t]] = "submitted"
      BY <2>5 DEF IInv, TypeOK, ApproveCommit, Debiting, AllOrNothing, Mirrors
    <3>2. QED BY <2>1, <2>5, <3>1 DEF ApproveCommit, TypeOK
  <2>6. ASSUME NEW t \in Tx, RejectCommit(t) \/ CancelCommit(t) PROVE Final
    BY <2>1, <2>6 DEF RejectCommit, CancelCommit, CloseWith, TypeOK
  <2>7. ASSUME NEW a \in Accounts, NEW n \in Allocations, Allocate(a, n) PROVE Final
    BY <2>7 DEF Allocate
  <2>8. QED BY <2>2, <2>3, <2>4, <2>5, <2>6, <2>7 DEF Next, Create, Decide, SessionAction
<1>2. QED BY <1>1, InvInit, InvStep, PTL DEF Spec, DecisionsFinal

=============================================================================
