------------------------ MODULE AttendanceDayProofs ------------------------
(***************************************************************************)
(* Theorems about AttendanceDay, for any number of corrections, sessions   *)
(* and leaves, and about the roster and the payable summaries that are     *)
(* composed with it, for any number of templates, branches, administrators *)
(* and recomputations.                                                     *)
(***************************************************************************)
EXTENDS Payables, DataLemmas

\* The statements of create_my_correction and of a decision.
SubmitPCs == {"validate", "lookup", "insert", "store"}
DecidePCs == {"lock", "recheck", "commit"}

Jobs ==
  [at : SubmitPCs, cor : Corrections, req : Corrections, kind : {"submit"}]
    \cup [at : DecidePCs, cor : Corrections, req : Corrections, kind : DOMAIN Outcome]

\* The part of TypeOK the argument needs.
Typed ==
  /\ status \in [Corrections -> {"NONE", "PENDING", "APPROVED", "REJECTED", "CANCELED"}]
  /\ wf \in [Corrections -> {"none", "submitted", "approved", "rejected", "cancelled"}]
  /\ linked \in [Corrections -> Corrections \cup {None}]
  /\ pc \in [Tx -> {Idle} \cup Jobs]

Submits(t) == pc[t].at \in SubmitPCs

\* A submission is handled by one session until its row is stored, and has
\* a request of its own unless it lost the race for its key.
Submitting ==
  \A t \in Tx : Submits(t) =>
    /\ status[pc[t].cor] = "NONE"
    /\ pc[t].req # pc[t].cor => SameKey(pc[t].cor, pc[t].req) /\ wf[pc[t].req] # "none"
    /\ \A u \in Tx \ {t} : Submits(u) => pc[u].cor # pc[t].cor

\* One session decides, and what it found submitted still is.
Deciding ==
  \A t \in Tx : Decides(t) =>
    /\ wf[pc[t].cor] = "submitted"
    /\ \A u \in Tx \ {t} : ~Decides(u)

\* The inductive invariant.
IInv == Typed /\ StatusMirrors /\ Submitting /\ Deciding

-----------------------------------------------------------------------------
\* How a step that stores nothing may move one session.
Move(t) ==
  /\ UNCHANGED stored
  /\ \E j \in {Idle} \cup Jobs : pc' = [pc EXCEPT ![t] = j]
  /\ Submits(t)' =>
       /\ pc[t].at = "idle" => /\ status[pc'[t].cor] = "NONE"
                               /\ pc'[t].req = pc'[t].cor
                               /\ \A u \in Tx : Submits(u) => pc[u].cor # pc'[t].cor
       /\ pc[t].at # "idle" => /\ Submits(t) /\ pc'[t].cor = pc[t].cor
                               /\ \/ pc'[t].req = pc[t].req
                                  \/ SameKey(pc[t].cor, pc'[t].req) /\ wf[pc'[t].req] # "none"
  /\ Decides(t)' =>
       /\ pc'[t].cor = pc[t].cor
       /\ Decides(t) \/ (wf[pc[t].cor] = "submitted" /\ \A u \in Tx : ~Decides(u))

\* Such a step keeps the invariant.
LEMMA MoveKeeps ==
  ASSUME IInv, NEW t \in Tx, Move(t) PROVE IInv'
<1> PICK j \in {Idle} \cup Jobs : pc' = [pc EXCEPT ![t] = j] BY DEF Move
<1> USE DEF IInv
<1>1. /\ status' = status /\ wf' = wf /\ linked' = linked
      /\ pc \in [Tx -> {Idle} \cup Jobs] /\ pc'[t] = j
      /\ \A u \in Tx \ {t} : pc'[u] = pc[u]
  BY DEF Move, stored, Typed
<1>2. Typed' BY <1>1 DEF Typed
<1>3. StatusMirrors' BY <1>1 DEF StatusMirrors
<1>4. Submitting'
  <2> SUFFICES ASSUME NEW u \in Tx, Submits(u)'
               PROVE  /\ status[pc'[u].cor] = "NONE"
                      /\ pc'[u].req # pc'[u].cor =>
                           SameKey(pc'[u].cor, pc'[u].req) /\ wf[pc'[u].req] # "none"
                      /\ \A v \in Tx \ {u} : Submits(v)' => pc'[v].cor # pc'[u].cor
    BY <1>1 DEF Submitting, SameKey
  <2>1. ASSUME NEW v \in Tx, v # t PROVE Submits(v)' = Submits(v)
    BY <1>1, <2>1 DEF Submits
  <2>2. CASE u = t /\ pc[t].at = "idle" BY <1>1, <2>1, <2>2 DEF Move
  <2>3. CASE u = t /\ pc[t].at # "idle"
    <3>1. Submits(t) /\ pc'[t].cor = pc[t].cor BY <2>3 DEF Move
    <3>2. \/ pc'[t].req = pc[t].req
          \/ SameKey(pc[t].cor, pc'[t].req) /\ wf[pc'[t].req] # "none"
      BY <2>3 DEF Move
    <3>3. QED BY <1>1, <2>1, <2>3, <3>1, <3>2 DEF Submitting
  <2>4. CASE u # t
    <3>1. Submits(u) /\ pc'[u] = pc[u] BY <1>1, <2>1, <2>4
    <3>2. ASSUME Submits(t)' PROVE pc'[t].cor # pc[u].cor
      <4>1. CASE pc[t].at = "idle" BY <3>1, <3>2, <4>1 DEF Move
      <4>2. CASE pc[t].at # "idle" BY <2>4, <3>1, <3>2, <4>2 DEF Move, Submitting
      <4>3. QED BY <4>1, <4>2
    <3>3. QED BY <1>1, <2>1, <2>4, <3>1, <3>2 DEF Submitting
  <2>5. QED BY <2>2, <2>3, <2>4
<1>5. Deciding'
  <2>1. ASSUME NEW v \in Tx, v # t PROVE Decides(v)' = Decides(v)
    BY <1>1, <2>1 DEF Decides
  <2>2. ASSUME Decides(t)'
        PROVE  wf[pc'[t].cor] = "submitted" /\ \A u \in Tx \ {t} : ~Decides(u)
    BY <2>2 DEF Move, Deciding
  <2>3. QED BY <1>1, <2>1, <2>2 DEF Deciding
<1>6. QED BY <1>2, <1>3, <1>4, <1>5

-----------------------------------------------------------------------------
\* The statements that store nothing are such steps.
LEMMA StoresNothing ==
  ASSUME IInv, NEW t \in Tx,
         \/ \E c \in Corrections :
              SubmitBegin(t, c) \/ DecideBegin(t, c) \/ CancelMyCorrection(t, c)
         \/ Validate(t) \/ Lookup(t) \/ InsertRequest(t) \/ AdoptRequest(t)
         \/ StoreConflict(t) \/ LockRequest(t) \/ Recheck(t) \/ Rollback(t)
  PROVE  Move(t)
<1> USE DEF Submits, Decides, SubmitPCs, DecidePCs, Outcome
<1>1. pc \in [Tx -> {Idle} \cup Jobs] /\ pc[t] \in {Idle} \cup Jobs
  BY DEF IInv, Typed
<1>2. pc[t] # Idle => pc[t] \in Jobs /\ pc[t].at # "idle" BY <1>1 DEF Jobs
<1>3. ASSUME UNCHANGED stored, End(t) PROVE Move(t)
  BY <1>1, <1>3 DEF End, Move, Idle
<1>4. ASSUME NEW l \in SubmitPCs, UNCHANGED stored, Goto(t, l), pc[t].at \in SubmitPCs
      PROVE  Move(t)
  <2>1. pc[t] \in Jobs BY <1>1, <1>4 DEF Idle
  <2>2. [pc[t] EXCEPT !.at = l] \in Jobs BY <1>4, <2>1 DEF Jobs
  <2>3. pc' = [pc EXCEPT ![t] = [pc[t] EXCEPT !.at = l]] BY <1>4 DEF Goto
  <2>4. pc'[t] = [pc[t] EXCEPT !.at = l] BY <1>1, <2>3
  <2>5. pc'[t].at = l /\ pc'[t].cor = pc[t].cor /\ pc'[t].req = pc[t].req
    BY <2>1, <2>4 DEF Jobs
  <2>6. QED BY <1>1, <1>4, <2>2, <2>3, <2>5 DEF Move
<1>5. ASSUME NEW l \in DecidePCs, UNCHANGED stored, Goto(t, l), pc[t].at \in DecidePCs,
             Decides(t) \/ (wf[pc[t].cor] = "submitted" /\ \A u \in Tx : ~Decides(u))
      PROVE  Move(t)
  <2>1. pc[t] \in Jobs BY <1>1, <1>5 DEF Idle
  <2>2. [pc[t] EXCEPT !.at = l] \in Jobs BY <1>5, <2>1 DEF Jobs
  <2>3. pc' = [pc EXCEPT ![t] = [pc[t] EXCEPT !.at = l]] BY <1>5 DEF Goto
  <2>4. pc'[t] = [pc[t] EXCEPT !.at = l] BY <1>1, <2>3
  <2>5. pc'[t].at = l /\ pc'[t].cor = pc[t].cor
    BY <2>1, <2>4 DEF Jobs
  <2>6. QED BY <1>1, <1>5, <2>2, <2>3, <2>5 DEF Move
<1>6. ASSUME NEW c \in Corrections, SubmitBegin(t, c) PROVE Move(t)
  <2> DEFINE j == [at |-> "validate", cor |-> c, kind |-> "submit", req |-> c]
  <2>1. pc[t] = Idle /\ pc' = [pc EXCEPT ![t] = j] /\ UNCHANGED stored
    BY <1>6 DEF SubmitBegin, Begin
  <2>2. j \in Jobs BY DEF Jobs
  <2>3. pc'[t] = j BY <1>1, <2>1
  <2>4. status[c] = "NONE" /\ \A u \in Tx : Submits(u) => pc[u].cor # c
    BY <1>6 DEF SubmitBegin, Idle
  <2>5. \E i \in {Idle} \cup Jobs : pc' = [pc EXCEPT ![t] = i] BY <2>1, <2>2
  <2>6. pc[t].at = "idle" /\ pc'[t].at = "validate" /\ pc'[t].cor = c /\ pc'[t].req = c
    BY <2>1, <2>3 DEF Idle
  <2> HIDE DEF j
  <2>7. QED BY <2>1, <2>4, <2>5, <2>6 DEF Move
<1>7. ASSUME NEW c \in Corrections, NEW k \in DOMAIN Outcome,
             Begin(t, "lock", c, k), UNCHANGED stored
      PROVE  Move(t)
  <2> DEFINE j == [at |-> "lock", cor |-> c, kind |-> k, req |-> c]
  <2>1. pc' = [pc EXCEPT ![t] = j] BY <1>7 DEF Begin
  <2>2. j \in Jobs BY DEF Jobs
  <2>3. pc'[t] = j BY <1>1, <2>1
  <2>4. \E i \in {Idle} \cup Jobs : pc' = [pc EXCEPT ![t] = i] BY <2>1, <2>2
  <2>5. pc'[t].at = "lock" BY <2>3
  <2> HIDE DEF j
  <2>6. QED BY <1>7, <2>4, <2>5 DEF Move
<1>8. ASSUME NEW c \in Corrections, DecideBegin(t, c) PROVE Move(t)
  BY <1>7, <1>8 DEF DecideBegin
<1>9. ASSUME NEW c \in Corrections, CancelMyCorrection(t, c) PROVE Move(t)
  <2>1. linked[c] = c BY <1>9 DEF CancelMyCorrection, IInv, StatusMirrors
  <2>2. QED BY <1>7, <1>9, <2>1 DEF CancelMyCorrection
<1>10. CASE Validate(t) BY <1>3, <1>4, <1>10 DEF Validate, GotoIf
<1>11. CASE Lookup(t) BY <1>3, <1>4, <1>11 DEF Lookup, GotoIf
<1>12. CASE InsertRequest(t) BY <1>4, <1>12 DEF InsertRequest
<1>13. CASE AdoptRequest(t)
  <2> PICK d \in Corrections :
        /\ SameKey(pc[t].cor, d) /\ wf[d] # "none"
        /\ \/ pc' = [pc EXCEPT ![t].at = "store", ![t].req = d]
           \/ End(t)
    BY <1>13 DEF AdoptRequest
  <2>1. CASE End(t) BY <1>3, <1>13, <2>1 DEF AdoptRequest
  <2>2. CASE pc' = [pc EXCEPT ![t].at = "store", ![t].req = d]
    <3> DEFINE j == [pc[t] EXCEPT !.at = "store", !.req = d]
    <3>1. pc[t] \in Jobs /\ pc[t].at = "insert" BY <1>1, <1>13 DEF AdoptRequest, Idle
    <3>2. j \in Jobs BY <3>1 DEF Jobs
    <3>3. pc' = [pc EXCEPT ![t] = j] BY <1>1, <2>2
    <3>4. pc'[t] = j BY <1>1, <3>3
    <3>5. pc'[t].at = "store" /\ pc'[t].cor = pc[t].cor /\ pc'[t].req = d
      BY <3>1, <3>4 DEF Jobs
    <3>6. QED BY <1>13, <3>1, <3>2, <3>3, <3>5 DEF Move, AdoptRequest
  <2>3. QED BY <2>1, <2>2
<1>14. CASE StoreConflict(t) BY <1>3, <1>14 DEF StoreConflict
<1>15. CASE LockRequest(t) BY <1>3, <1>5, <1>15 DEF LockRequest, GotoIf
<1>16. CASE Recheck(t)
  <2>1. Decides(t) BY <1>16 DEF Recheck, Idle
  <2>2. QED BY <1>3, <1>5, <1>16, <2>1 DEF Recheck, GotoIf
<1>17. CASE Rollback(t) BY <1>3, <1>17 DEF Rollback
<1>18. QED
  BY <1>6, <1>8, <1>9, <1>10, <1>11, <1>12, <1>13, <1>14, <1>15, <1>16, <1>17

-----------------------------------------------------------------------------
\* A stored correction is linked to its own request: a session that adopted
\* the request of another finds its key taken.
LEMMA StoreKeeps ==
  ASSUME IInv, NEW t \in Tx, StoreCorrection(t) PROVE IInv'
<1> DEFINE c == pc[t].cor
<1> USE DEF IInv
<1>1. /\ pc \in [Tx -> {Idle} \cup Jobs] /\ pc[t] \in Jobs /\ pc[t].at = "store"
      /\ pc' = [pc EXCEPT ![t] = Idle]
  BY DEF StoreCorrection, End, Typed, Idle
<1>2. c \in Corrections /\ Submits(t) /\ status[c] = "NONE" /\ wf[c] = "none"
  BY <1>1 DEF Jobs, Submits, SubmitPCs, Submitting, StatusMirrors
<1>3. pc[t].req = c
  <2>1. SUFFICES ASSUME pc[t].req # c PROVE FALSE OBVIOUS
  <2>2. SameKey(c, pc[t].req) /\ wf[pc[t].req] # "none" BY <1>2, <2>1 DEF Submitting
  <2>3. pc[t].req \in Corrections BY <1>1 DEF Jobs, DecidePCs
  <2>4. KeyTaken(c) BY <2>2, <2>3 DEF StatusMirrors, KeyTaken
  <2>5. QED BY <2>4 DEF StoreCorrection
<1>4. /\ status' = [status EXCEPT ![c] = "PENDING"] /\ linked' = [linked EXCEPT ![c] = c]
      /\ wf' = [wf EXCEPT ![c] = "submitted"]
  BY <1>3 DEF StoreCorrection
<1> HIDE DEF c
<1>5. pc'[t] = Idle /\ \A u \in Tx \ {t} : pc'[u] = pc[u] BY <1>1
<1>6. ~Submits(t)' /\ ~Decides(t)'
  BY <1>5 DEF Submits, SubmitPCs, Decides, Idle
<1>7. ASSUME NEW u \in Tx, u # t
      PROVE  Submits(u)' = Submits(u) /\ Decides(u)' = Decides(u)
  BY <1>5, <1>7 DEF Submits, Decides
<1>8. Typed' BY <1>1, <1>2, <1>4 DEF Typed
<1>9. StatusMirrors' BY <1>2, <1>4 DEF StatusMirrors, Typed, Outcome
<1>10. Submitting'
  <2> SUFFICES ASSUME NEW u \in Tx, Submits(u)'
               PROVE  /\ status'[pc'[u].cor] = "NONE"
                      /\ pc'[u].req # pc'[u].cor =>
                           SameKey(pc'[u].cor, pc'[u].req) /\ wf'[pc'[u].req] # "none"
                      /\ \A v \in Tx \ {u} : Submits(v)' => pc'[v].cor # pc'[u].cor
    BY DEF Submitting, SameKey
  <2>1. u # t /\ Submits(u) /\ pc'[u] = pc[u] BY <1>5, <1>6, <1>7
  <2>2. pc[u] \in Jobs BY <1>1, <2>1 DEF Submits, SubmitPCs, Idle
  <2>3. pc[u].cor \in Corrections /\ pc[u].req \in Corrections BY <2>2 DEF Jobs
  <2>4. pc[u].cor # c BY <1>2, <2>1 DEF Submitting, c
  <2>5. status'[pc[u].cor] = "NONE"
    BY <1>4, <2>1, <2>3, <2>4 DEF Submitting, Typed
  <2>6. pc[u].req # pc[u].cor => SameKey(pc[u].cor, pc[u].req) /\ wf'[pc[u].req] # "none"
    BY <1>2, <1>4, <2>1, <2>3 DEF Submitting, Typed
  <2>7. \A v \in Tx \ {u} : Submits(v)' => pc'[v].cor # pc[u].cor
    BY <1>5, <1>6, <1>7, <2>1 DEF Submitting
  <2>8. QED BY <2>1, <2>5, <2>6, <2>7
<1>11. Deciding'
  <2> SUFFICES ASSUME NEW u \in Tx, Decides(u)'
               PROVE  wf'[pc'[u].cor] = "submitted" /\ \A v \in Tx \ {u} : ~Decides(v)'
    BY DEF Deciding
  <2>1. u # t /\ Decides(u) /\ pc'[u] = pc[u] BY <1>5, <1>6, <1>7
  <2>2. pc[u].cor \in Corrections BY <1>1, <2>1 DEF Decides, Jobs
  <2>3. QED BY <1>4, <1>6, <1>7, <2>1, <2>2 DEF Deciding, Typed
<1>12. QED BY <1>8, <1>9, <1>10, <1>11

\* The one session that decides finds its correction pending.
LEMMA DecideKeeps ==
  ASSUME IInv, NEW t \in Tx, DecideCommit(t) PROVE IInv'
<1> DEFINE c == pc[t].cor
           k == pc[t].kind
<1> USE DEF IInv
<1>1. /\ pc \in [Tx -> {Idle} \cup Jobs] /\ pc[t] \in Jobs /\ pc[t].at = "commit"
  BY DEF DecideCommit, Typed, Idle
<1>2. c \in Corrections /\ k \in DOMAIN Outcome /\ Decides(t)
  BY <1>1 DEF Jobs, SubmitPCs, DecidePCs, Decides, Idle
<1>3. wf[c] = "submitted" /\ status[c] = "PENDING"
  BY <1>2 DEF Deciding, StatusMirrors
<1>4. /\ status' = [status EXCEPT ![c] = Outcome[k]] /\ wf' = [wf EXCEPT ![c] = k]
      /\ linked' = linked /\ pc' = [pc EXCEPT ![t] = Idle]
  BY <1>3 DEF DecideCommit
<1> HIDE DEF c, k
<1>5. pc'[t] = Idle /\ \A u \in Tx \ {t} : pc'[u] = pc[u] BY <1>1, <1>4
<1>6. ~Submits(t)' /\ ~Decides(t)'
  BY <1>5 DEF Submits, SubmitPCs, Decides, Idle
<1>7. ASSUME NEW u \in Tx, u # t
      PROVE  Submits(u)' = Submits(u) /\ Decides(u)' = Decides(u)
  BY <1>5, <1>7 DEF Submits, Decides
<1>8. k \in {"approved", "rejected", "cancelled"} BY <1>2 DEF Outcome
<1>9. Typed' BY <1>1, <1>2, <1>4, <1>8 DEF Typed, Outcome
<1>10. StatusMirrors' BY <1>2, <1>3, <1>4, <1>8 DEF StatusMirrors, Typed, Outcome
<1>11. Submitting'
  <2> SUFFICES ASSUME NEW u \in Tx, Submits(u)'
               PROVE  /\ status'[pc'[u].cor] = "NONE"
                      /\ pc'[u].req # pc'[u].cor =>
                           SameKey(pc'[u].cor, pc'[u].req) /\ wf'[pc'[u].req] # "none"
                      /\ \A v \in Tx \ {u} : Submits(v)' => pc'[v].cor # pc'[u].cor
    BY DEF Submitting, SameKey
  <2>1. u # t /\ Submits(u) /\ pc'[u] = pc[u] BY <1>5, <1>6, <1>7
  <2>2. pc[u] \in Jobs BY <1>1, <2>1 DEF Submits, SubmitPCs, Idle
  <2>3. pc[u].cor \in Corrections /\ pc[u].req \in Corrections BY <2>2 DEF Jobs
  <2>4. status'[pc[u].cor] = "NONE"
    BY <1>3, <1>4, <2>1, <2>3 DEF Submitting, Typed
  <2>5. pc[u].req # pc[u].cor => SameKey(pc[u].cor, pc[u].req) /\ wf'[pc[u].req] # "none"
    BY <1>2, <1>4, <1>8, <2>1, <2>3 DEF Submitting, Typed
  <2>6. \A v \in Tx \ {u} : Submits(v)' => pc'[v].cor # pc[u].cor
    BY <1>5, <1>6, <1>7, <2>1 DEF Submitting
  <2>7. QED BY <2>1, <2>4, <2>5, <2>6
<1>12. Deciding' BY <1>2, <1>6, <1>7 DEF Deciding
<1>13. QED BY <1>9, <1>10, <1>11, <1>12

-----------------------------------------------------------------------------
\* Leave and punches change neither corrections nor sessions.
LEMMA OthersKeep ==
  ASSUME IInv, UNCHANGED <<status, wf, linked, pc>> PROVE IInv'
<1>1. Typed' BY DEF IInv, Typed
<1>2. StatusMirrors' BY DEF IInv, StatusMirrors
<1>3. Submitting' BY DEF IInv, Submitting, Submits, SameKey
<1>4. Deciding' BY DEF IInv, Deciding, Decides
<1>5. QED BY <1>1, <1>2, <1>3, <1>4 DEF IInv

\* Every step keeps the invariant.
LEMMA InvStep == IInv /\ [Next]_vars => IInv'
<1> SUFFICES ASSUME IInv, [Next]_vars PROVE IInv' OBVIOUS
<1>1. ASSUME NEW t \in Tx,
             \/ \E c \in Corrections :
                  SubmitBegin(t, c) \/ DecideBegin(t, c) \/ CancelMyCorrection(t, c)
             \/ Validate(t) \/ Lookup(t) \/ InsertRequest(t) \/ AdoptRequest(t)
             \/ StoreConflict(t) \/ LockRequest(t) \/ Recheck(t) \/ Rollback(t)
      PROVE  IInv'
  <2>1. Move(t) BY <1>1, StoresNothing
  <2>2. QED BY <2>1, MoveKeeps
<1>2. ASSUME NEW t \in Tx, StoreCorrection(t) PROVE IInv' BY <1>2, StoreKeeps
<1>3. ASSUME NEW t \in Tx, DecideCommit(t) PROVE IInv' BY <1>3, DecideKeeps
<1>4. ASSUME NEW l \in Leaves, GrantLeave(l) PROVE IInv'
  BY <1>4, OthersKeep DEF GrantLeave, stored
<1>5. CASE Work BY <1>5, OthersKeep DEF Work
<1>6. CASE UNCHANGED vars BY <1>6, OthersKeep DEF vars
<1>7. QED BY <1>1, <1>2, <1>3, <1>4, <1>5, <1>6 DEF Next

\* It holds at first.
LEMMA InitInv == Init => IInv
<1> SUFFICES ASSUME Init PROVE IInv OBVIOUS
<1>1. \A t \in Tx : pc[t] = Idle BY DEF Init
<1>2. Typed BY DEF Init, Typed
<1>3. StatusMirrors BY DEF Init, StatusMirrors, Outcome
<1>4. Submitting /\ Deciding
  BY <1>1 DEF Submitting, Deciding, Submits, Decides, SubmitPCs, Idle
<1>5. QED BY <1>2, <1>3, <1>4 DEF IInv

\* However submissions, retries, decisions, cancellations and crashes
\* interleave, a correction tells the same story as the workflow request
\* about it, and is linked to no other.
THEOREM StatusMirrorsCorrect == Spec => []StatusMirrors
<1>1. IInv => StatusMirrors BY DEF IInv
<1>2. QED BY <1>1, InitInv, InvStep, PTL DEF Spec

-----------------------------------------------------------------------------
(* The order of overrides.                                                  *)

Entries == Corrections \cup Leaves \cup Tx

Precedes(rs, x, y) == \E i, j \in DOMAIN rs : i < j /\ rs[i] = x /\ rs[j] = y

Approves(t) == pc[t] # Idle /\ pc[t].kind = "approved"

\* An entry is in one place: that of a session while it approves, and of a
\* correction once it is approved.
RowsFit ==
  /\ rows \in Seq(Entries) /\ IsInjective(rows)
  /\ \A t \in Tx : t \in Range(rows) <=> Approves(t)
  /\ \A c \in Corrections : c \in Range(rows) => status[c] = "APPROVED"

\* Of the corrections one may be pending, and while it is, whatever was
\* approved is before every session that approves it.
PendingIsNewest ==
  /\ \A c, d \in Corrections : status[c] = "PENDING" /\ status[d] = "PENDING" => c = d
  /\ \A t \in Tx : Approves(t) =>
       /\ status[pc[t].cor] # "NONE"
       /\ status[pc[t].cor] = "PENDING" => \A d \in Corrections : ~Precedes(rows, t, d)

RowsInv == IInv /\ RowsFit /\ PendingIsNewest

\* An entry leaves its place, and those after it close up.
LEMMA RemovedAt ==
  ASSUME NEW S, NEW s \in Seq(S), NEW p \in DOMAIN s
  PROVE  /\ RemoveAt(s, p) \in Seq(S) /\ Len(RemoveAt(s, p)) = Len(s) - 1
         /\ \A i \in 1..(Len(s) - 1) : RemoveAt(s, p)[i] = IF i < p THEN s[i] ELSE s[i + 1]
<1>1. PICK n \in Nat : n = Len(s) /\ p \in 1..n OBVIOUS
<1>2. PICK a : a = SubSeq(s, 1, p - 1) OBVIOUS
<1>3. PICK b : b = SubSeq(s, p + 1, n) OBVIOUS
<1>4. PICK c : c = a \o b OBVIOUS
<1>5. p \in Nat /\ p \in 1..n /\ n = Len(s) BY <1>1
<1>6. a \in Seq(S) /\ Len(a) = p - 1 /\ \A i \in 1..(p - 1) : a[i] = s[i] BY <1>1, <1>2
<1>7. b \in Seq(S) /\ Len(b) = n - p /\ \A i \in 1..(n - p) : b[i] = s[p + i] BY <1>1, <1>3
<1>8. /\ c \in Seq(S) /\ Len(c) = Len(a) + Len(b)
      /\ \A i \in 1..(Len(a) + Len(b)) : c[i] = IF i <= Len(a) THEN a[i] ELSE b[i - Len(a)]
  <2>1. a \in Seq(S) /\ b \in Seq(S) BY <1>6, <1>7
  <2>2. QED BY <1>4, <2>1, ConcatProperties
<1>9. ASSUME NEW i \in 1..(n - 1) PROVE c[i] = IF i < p THEN s[i] ELSE s[i + 1]
  <2>1. i \in Nat /\ 1 <= i /\ i <= n - 1 /\ p <= n BY <1>5
  <2>2. CASE i < p
    <3>1. i \in 1..(Len(a) + Len(b)) /\ i <= Len(a) BY <1>5, <1>6, <1>7, <2>1, <2>2
    <3>2. c[i] = a[i] BY <1>8, <3>1
    <3>3. i \in 1..(p - 1) BY <1>5, <2>1, <2>2
    <3>4. QED BY <1>6, <2>2, <3>2, <3>3
  <2>3. CASE p <= i
    <3>1. i \in 1..(Len(a) + Len(b)) /\ ~(i <= Len(a)) /\ i - Len(a) = i + 1 - p
      BY <1>5, <1>6, <1>7, <2>1, <2>3
    <3>2. c[i] = b[i + 1 - p] BY <1>8, <3>1
    <3>3. i + 1 - p \in 1..(n - p) /\ p + (i + 1 - p) = i + 1 BY <1>5, <2>1, <2>3
    <3>4. b[i + 1 - p] = s[i + 1] BY <1>7, <3>3
    <3>5. ~(i < p) BY <1>5, <2>1, <2>3
    <3>6. QED BY <3>2, <3>4, <3>5
  <2>4. QED BY <1>5, <2>1, <2>2, <2>3
<1>10. c \in Seq(S) /\ Len(c) = n - 1 BY <1>5, <1>6, <1>7, <1>8
<1>11. c = RemoveAt(s, p) BY <1>1, <1>2, <1>3, <1>4 DEF RemoveAt
<1>12. QED BY <1>5, <1>9, <1>10, <1>11

\* One is put in between.
LEMMA InsertedAt ==
  ASSUME NEW S, NEW s \in Seq(S), NEW p \in 1..(Len(s) + 1), NEW e \in S
  PROVE  /\ InsertAt(s, p, e) \in Seq(S) /\ Len(InsertAt(s, p, e)) = Len(s) + 1
         /\ \A i \in 1..(Len(s) + 1) :
              InsertAt(s, p, e)[i] = IF i < p THEN s[i] ELSE IF i = p THEN e ELSE s[i - 1]
<1>1. PICK n \in Nat : n = Len(s) /\ p \in 1..(n + 1) OBVIOUS
<1>2. PICK a : a = SubSeq(s, 1, p - 1) OBVIOUS
<1>3. PICK b : b = SubSeq(s, p, n) OBVIOUS
<1>4. PICK d : d = <<e>> OBVIOUS
<1>5. PICK h : h = a \o d OBVIOUS
<1>6. PICK c : c = h \o b OBVIOUS
<1>7. p \in Nat /\ 1 <= p /\ p <= n + 1 /\ n = Len(s) BY <1>1
<1>8. a \in Seq(S) /\ Len(a) = p - 1 /\ \A i \in 1..(p - 1) : a[i] = s[i] BY <1>1, <1>2
<1>9. b \in Seq(S) /\ Len(b) = n + 1 - p /\ \A i \in 1..(n + 1 - p) : b[i] = s[p - 1 + i]
  BY <1>1, <1>3
<1>10. d \in Seq(S) /\ Len(d) = 1 /\ d[1] = e BY <1>4
<1>11. /\ h \in Seq(S) /\ Len(h) = Len(a) + Len(d)
       /\ \A i \in 1..(Len(a) + Len(d)) : h[i] = IF i <= Len(a) THEN a[i] ELSE d[i - Len(a)]
  <2>1. a \in Seq(S) /\ d \in Seq(S) BY <1>8, <1>10
  <2>2. QED BY <1>5, <2>1, ConcatProperties
<1>12. /\ c \in Seq(S) /\ Len(c) = Len(h) + Len(b)
       /\ \A i \in 1..(Len(h) + Len(b)) : c[i] = IF i <= Len(h) THEN h[i] ELSE b[i - Len(h)]
  <2>1. h \in Seq(S) /\ b \in Seq(S) BY <1>9, <1>11
  <2>2. QED BY <1>6, <2>1, ConcatProperties
<1>13. Len(h) = p BY <1>7, <1>8, <1>10, <1>11
<1>14. ASSUME NEW i \in 1..(n + 1)
       PROVE  c[i] = IF i < p THEN s[i] ELSE IF i = p THEN e ELSE s[i - 1]
  <2>1. i \in Nat /\ 1 <= i /\ i <= n + 1 BY <1>7
  <2>2. CASE i < p
    <3>1. i \in 1..(Len(h) + Len(b)) /\ i <= Len(h) BY <1>7, <1>9, <1>13, <2>1, <2>2
    <3>2. i \in 1..(Len(a) + Len(d)) /\ i <= Len(a) /\ i \in 1..(p - 1)
      BY <1>7, <1>8, <1>10, <2>1, <2>2
    <3>3. c[i] = h[i] BY <1>12, <3>1
    <3>4. h[i] = a[i] BY <1>11, <3>2
    <3>5. a[i] = s[i] BY <1>8, <3>2
    <3>6. QED BY <2>2, <3>3, <3>4, <3>5
  <2>3. CASE i = p
    <3>1. i \in 1..(Len(h) + Len(b)) /\ i <= Len(h) BY <1>7, <1>9, <1>13, <2>1, <2>3
    <3>2. i \in 1..(Len(a) + Len(d)) /\ ~(i <= Len(a)) /\ i - Len(a) = 1
      BY <1>7, <1>8, <1>10, <2>1, <2>3
    <3>3. c[i] = h[i] BY <1>12, <3>1
    <3>4. h[i] = d[1] BY <1>11, <3>2
    <3>5. ~(i < p) BY <2>1, <2>3
    <3>6. QED BY <1>10, <2>3, <3>3, <3>4, <3>5
  <2>4. CASE p < i
    <3>1. i \in 1..(Len(h) + Len(b)) /\ ~(i <= Len(h)) /\ i - Len(h) = i - p
      BY <1>7, <1>9, <1>13, <2>1, <2>4
    <3>2. c[i] = b[i - p] BY <1>12, <3>1
    <3>3. i - p \in 1..(n + 1 - p) /\ p - 1 + (i - p) = i - 1 BY <1>7, <2>1, <2>4
    <3>4. b[i - p] = s[i - 1] BY <1>9, <3>3
    <3>5. ~(i < p) /\ i # p BY <1>7, <2>1, <2>4
    <3>6. QED BY <3>2, <3>4, <3>5
  <2>5. QED BY <1>7, <2>1, <2>2, <2>3, <2>4
<1>15. c \in Seq(S) /\ Len(c) = n + 1 BY <1>7, <1>9, <1>12, <1>13
<1>16. c = InsertAt(s, p, e) BY <1>1, <1>2, <1>3, <1>4, <1>5, <1>6 DEF InsertAt
<1>17. QED BY <1>7, <1>14, <1>15, <1>16

\* A new entry comes after all others.
LEMMA AppendedRow ==
  ASSUME NEW rs \in Seq(Entries), IsInjective(rs), NEW t \in Entries, t \notin Range(rs)
  PROVE  /\ Append(rs, t) \in Seq(Entries) /\ IsInjective(Append(rs, t))
         /\ Range(Append(rs, t)) = Range(rs) \cup {t}
         /\ \A x, y : Precedes(Append(rs, t), x, y) => Precedes(rs, x, y) \/ y = t
<1> PICK n \in Nat : n = Len(rs) /\ DOMAIN rs = 1..n OBVIOUS
<1> PICK new : new = Append(rs, t) OBVIOUS
<1>1. new \in Seq(Entries) /\ DOMAIN new = 1..(n + 1) /\ new[n + 1] = t
        /\ \A i \in 1..n : new[i] = rs[i]
  OBVIOUS
<1>2. \A i \in 1..(n + 1) : i \in 1..n \/ i = n + 1 OBVIOUS
<1>3. \A i \in 1..n : rs[i] # t BY DEF Range
<1>4. IsInjective(new) BY <1>1, <1>2, <1>3 DEF IsInjective
<1>5. Range(new) = Range(rs) \cup {t}
  <2>1. \A x : x \in Range(new) <=> \E i \in 1..(n + 1) : new[i] = x BY <1>1 DEF Range
  <2>2. \A x : x \in Range(rs) <=> \E i \in 1..n : rs[i] = x BY DEF Range
  <2>3. 1..n \subseteq 1..(n + 1) /\ n + 1 \in 1..(n + 1) OBVIOUS
  <2>4. \A x : x \in Range(new) <=> x \in Range(rs) \/ x = t BY <1>1, <1>2, <2>1, <2>2, <2>3
  <2>5. QED BY <2>4
<1>6. ASSUME NEW x, NEW y, Precedes(new, x, y) PROVE Precedes(rs, x, y) \/ y = t
  <2>1. PICK i, j \in 1..(n + 1) : i < j /\ new[i] = x /\ new[j] = y BY <1>1, <1>6 DEF Precedes
  <2>2. CASE j = n + 1 BY <1>1, <2>1, <2>2
  <2>3. CASE j \in 1..n
    <3>1. i \in 1..n BY <2>1, <2>3
    <3>2. QED BY <1>1, <2>1, <2>3, <3>1 DEF Precedes
  <2>4. QED BY <1>2, <2>2, <2>3
<1>7. QED BY <1>1, <1>4, <1>5, <1>6

\* One that leaves does not change the order of the others.
LEMMA WithoutRow ==
  ASSUME NEW rs \in Seq(Entries), IsInjective(rs), NEW t
  PROVE  /\ Without(rs, t) \in Seq(Entries) /\ IsInjective(Without(rs, t))
         /\ Range(Without(rs, t)) = Range(rs) \ {t}
         /\ \A x, y : Precedes(Without(rs, t), x, y) => Precedes(rs, x, y)
<1>1. CASE t \notin Range(rs) BY <1>1 DEF Without
<1>2. CASE t \in Range(rs)
  <2>1. PICK n \in Nat : n = Len(rs) /\ DOMAIN rs = 1..n OBVIOUS
  <2>2. PICK p : p = CHOOSE i \in DOMAIN rs : rs[i] = t OBVIOUS
  <2>3. p \in DOMAIN rs /\ rs[p] = t BY <1>2, <2>2 DEF Range
  <2>4. p \in Nat /\ 1 <= p /\ p <= n BY <2>1, <2>3
  <2>5. PICK new : new = RemoveAt(rs, p) OBVIOUS
  <2>6. new = Without(rs, t) BY <1>2, <2>2, <2>5 DEF Without
  <2> DEFINE old(i) == IF i < p THEN i ELSE i + 1
  <2>7. /\ new \in Seq(Entries) /\ Len(new) = n - 1
        /\ \A i \in 1..(n - 1) : new[i] = IF i < p THEN rs[i] ELSE rs[i + 1]
    BY <2>1, <2>3, <2>5, RemovedAt
  <2>8. DOMAIN new = 1..(n - 1) BY <2>7
  <2>9. \A i \in 1..(n - 1) : old(i) \in 1..n /\ old(i) # p BY <2>1, <2>4
  <2>10. \A i \in 1..(n - 1) : new[i] = rs[old(i)] BY <2>7
  <2>11. \A i, j \in 1..(n - 1) : (i < j => old(i) < old(j)) /\ (old(i) = old(j) => i = j)
    BY <2>1, <2>4
  <2>12. ASSUME NEW i \in 1..n, i # p PROVE \E k \in 1..(n - 1) : old(k) = i
    <3>1. i \in Nat /\ 1 <= i /\ i <= n BY <2>1
    <3>2. CASE i < p
      <4>1. i \in 1..(n - 1) /\ old(i) = i BY <2>1, <2>4, <3>1, <3>2
      <4>2. QED BY <4>1
    <3>3. CASE p < i
      <4>1. i - 1 \in 1..(n - 1) /\ old(i - 1) = i BY <2>1, <2>4, <3>1, <3>3
      <4>2. QED BY <4>1
    <3>4. QED BY <2>4, <2>12, <3>1, <3>2, <3>3
  <2> HIDE DEF old
  <2>13. IsInjective(new)
    <3> SUFFICES ASSUME NEW i \in 1..(n - 1), NEW j \in 1..(n - 1), new[i] = new[j] PROVE i = j
      BY <2>8 DEF IsInjective
    <3>1. old(i) \in DOMAIN rs /\ old(j) \in DOMAIN rs /\ rs[old(i)] = rs[old(j)]
      BY <2>1, <2>9, <2>10
    <3>2. old(i) = old(j) BY <3>1 DEF IsInjective
    <3>3. QED BY <2>11, <3>2
  <2>14. Range(new) = Range(rs) \ {t}
    <3>1. \A x : x \in Range(new) <=> \E i \in 1..(n - 1) : new[i] = x BY <2>8 DEF Range
    <3>2. \A x : x \in Range(rs) <=> \E i \in 1..n : rs[i] = x BY <2>1 DEF Range
    <3>3. \A i \in 1..n : rs[i] = t => i = p BY <2>1, <2>3 DEF IsInjective
    <3>4. \A x : x \in Range(new) => x \in Range(rs) /\ x # t
      BY <2>9, <2>10, <3>1, <3>2, <3>3
    <3>5. \A x : x \in Range(rs) /\ x # t => x \in Range(new)
      BY <2>3, <2>10, <2>12, <3>1, <3>2
    <3>6. \A x : x \in Range(new) <=> x \in Range(rs) /\ x # t BY <3>4, <3>5
    <3>7. QED BY <3>6
  <2>15. ASSUME NEW x, NEW y, Precedes(new, x, y) PROVE Precedes(rs, x, y)
    <3>1. PICK i, j \in 1..(n - 1) : i < j /\ new[i] = x /\ new[j] = y
      BY <2>8, <2>15 DEF Precedes
    <3>2. old(i) < old(j) /\ rs[old(i)] = x /\ rs[old(j)] = y BY <2>10, <2>11, <3>1
    <3>3. old(i) \in DOMAIN rs /\ old(j) \in DOMAIN rs BY <2>1, <2>9
    <3>4. QED BY <3>2, <3>3 DEF Precedes
  <2>16. QED BY <2>6, <2>7, <2>13, <2>14, <2>15
<1>3. QED BY <1>1, <1>2

\* Nor does one that comes in between.
LEMMA InsertedRow ==
  ASSUME NEW rs \in Seq(Entries), IsInjective(rs), NEW e \in Entries, e \notin Range(rs),
         NEW p \in 1..(Len(rs) + 1)
  PROVE  /\ InsertAt(rs, p, e) \in Seq(Entries) /\ IsInjective(InsertAt(rs, p, e))
         /\ Range(InsertAt(rs, p, e)) = Range(rs) \cup {e}
         /\ \A x, y : Precedes(InsertAt(rs, p, e), x, y) => Precedes(rs, x, y) \/ x = e \/ y = e
<1>1. PICK n \in Nat : n = Len(rs) /\ DOMAIN rs = 1..n OBVIOUS
<1>2. p \in Nat /\ 1 <= p /\ p <= n + 1 BY <1>1
<1>3. PICK new : new = InsertAt(rs, p, e) OBVIOUS
<1> DEFINE old(i) == IF i < p THEN i ELSE i - 1
<1>4. /\ new \in Seq(Entries) /\ Len(new) = n + 1
      /\ \A i \in 1..(n + 1) : new[i] = IF i < p THEN rs[i] ELSE IF i = p THEN e ELSE rs[i - 1]
  <2>1. /\ InsertAt(rs, p, e) \in Seq(Entries) /\ Len(InsertAt(rs, p, e)) = Len(rs) + 1
        /\ \A i \in 1..(Len(rs) + 1) :
             InsertAt(rs, p, e)[i] = IF i < p THEN rs[i] ELSE IF i = p THEN e ELSE rs[i - 1]
    BY InsertedAt
  <2>2. QED BY <1>1, <1>3, <2>1
<1>5. DOMAIN new = 1..(n + 1) /\ p \in 1..(n + 1) /\ new[p] = e BY <1>1, <1>2, <1>4
<1>6. \A i \in 1..(n + 1) : i # p => old(i) \in 1..n BY <1>1, <1>2
<1>7. \A i \in 1..(n + 1) : i # p => new[i] = rs[old(i)] BY <1>4
<1>8. \A i, j \in 1..(n + 1) : i # p /\ j # p =>
        (i < j => old(i) < old(j)) /\ (old(i) = old(j) => i = j)
  BY <1>1, <1>2
<1>9. ASSUME NEW i \in 1..n PROVE \E k \in 1..(n + 1) : k # p /\ old(k) = i
  <2>1. i \in Nat /\ 1 <= i /\ i <= n BY <1>1
  <2>2. CASE i < p
    <3>1. i \in 1..(n + 1) /\ i # p /\ old(i) = i BY <1>1, <1>2, <2>1, <2>2
    <3>2. QED BY <3>1
  <2>3. CASE p <= i
    <3>1. i + 1 \in 1..(n + 1) /\ i + 1 # p /\ old(i + 1) = i BY <1>1, <1>2, <2>1, <2>3
    <3>2. QED BY <3>1
  <2>4. QED BY <1>2, <2>1, <2>2, <2>3
<1> HIDE DEF old
<1>10. \A i \in 1..n : rs[i] # e BY <1>1 DEF Range
<1>11. IsInjective(new)
  <2> SUFFICES ASSUME NEW i \in 1..(n + 1), NEW j \in 1..(n + 1), new[i] = new[j] PROVE i = j
    BY <1>5 DEF IsInjective
  <2>1. \A k \in 1..(n + 1) : k # p => new[k] # e BY <1>6, <1>7, <1>10
  <2>2. CASE i = p \/ j = p BY <1>5, <2>1, <2>2
  <2>3. CASE i # p /\ j # p
    <3>1. old(i) \in DOMAIN rs /\ old(j) \in DOMAIN rs /\ rs[old(i)] = rs[old(j)]
      BY <1>1, <1>6, <1>7, <2>3
    <3>2. old(i) = old(j) BY <3>1 DEF IsInjective
    <3>3. QED BY <1>8, <2>3, <3>2
  <2>4. QED BY <2>2, <2>3
<1>12. Range(new) = Range(rs) \cup {e}
  <2>1. \A x : x \in Range(new) <=> \E i \in 1..(n + 1) : new[i] = x BY <1>5 DEF Range
  <2>2. \A x : x \in Range(rs) <=> \E i \in 1..n : rs[i] = x BY <1>1 DEF Range
  <2>3. \A x : x \in Range(new) => x \in Range(rs) \/ x = e BY <1>5, <1>6, <1>7, <2>1, <2>2
  <2>4. \A x : x \in Range(rs) \/ x = e => x \in Range(new) BY <1>5, <1>7, <1>9, <2>1, <2>2
  <2>5. \A x : x \in Range(new) <=> x \in Range(rs) \/ x = e BY <2>3, <2>4
  <2>6. QED BY <2>5
<1>13. ASSUME NEW x, NEW y, Precedes(new, x, y), x # e, y # e PROVE Precedes(rs, x, y)
  <2>1. PICK i, j \in 1..(n + 1) : i < j /\ new[i] = x /\ new[j] = y
    BY <1>5, <1>13 DEF Precedes
  <2>2. i # p /\ j # p BY <1>5, <1>13, <2>1
  <2>3. old(i) < old(j) /\ rs[old(i)] = x /\ rs[old(j)] = y BY <1>7, <1>8, <2>1, <2>2
  <2>4. old(i) \in DOMAIN rs /\ old(j) \in DOMAIN rs BY <1>1, <1>6, <2>2
  <2>5. QED BY <2>3, <2>4 DEF Precedes
<1>14. QED BY <1>3, <1>4, <1>11, <1>12, <1>13

\* An override is where its approval was.
LEMMA TakenEffect ==
  ASSUME rows \in Seq(Entries), IsInjective(rows), NEW t \in Range(rows),
         NEW c \in Entries, c \notin Range(rows)
  PROVE  LET new == TakeEffect(t, c) IN
         /\ new \in Seq(Entries) /\ IsInjective(new)
         /\ Range(new) = (Range(rows) \ {t}) \cup {c}
         /\ \A x, y : Precedes(new, x, y) /\ y # c =>
              Precedes(rows, IF x = c THEN t ELSE x, y)
<1> PICK n \in Nat : n = Len(rows) /\ DOMAIN rows = 1..n OBVIOUS
<1> PICK new : new = TakeEffect(t, c) OBVIOUS
<1>1. /\ new = [i \in 1..n |-> IF rows[i] = t THEN c ELSE rows[i]] BY DEF TakeEffect
<1>2. \A i \in 1..n : rows[i] \in Entries /\ rows[i] # c BY DEF Range
<1>3. new \in Seq(Entries) /\ DOMAIN new = 1..n
  <2>1. new \in [1..n -> Entries] BY <1>1, <1>2
  <2>2. QED BY <2>1
<1>4. IsInjective(new) BY <1>1, <1>2 DEF IsInjective
<1>5. Range(new) = (Range(rows) \ {t}) \cup {c}
  <2>1. \A x : x \in Range(new) <=> \E i \in 1..n : new[i] = x BY <1>3 DEF Range
  <2>2. \A x : x \in Range(rows) <=> \E i \in 1..n : rows[i] = x BY DEF Range
  <2>3. \A x : x \in Range(new) => (x \in Range(rows) /\ x # t) \/ x = c BY <1>1, <2>1, <2>2
  <2>4. \A x : x \in Range(rows) /\ x # t => x \in Range(new) BY <1>1, <2>1, <2>2
  <2>5. c \in Range(new) BY <1>1, <2>1, <2>2
  <2>6. \A x : x \in Range(new) <=> (x \in Range(rows) /\ x # t) \/ x = c BY <2>3, <2>4, <2>5
  <2>7. QED BY <2>6
<1>6. ASSUME NEW x, NEW y, Precedes(new, x, y), y # c
      PROVE  Precedes(rows, IF x = c THEN t ELSE x, y)
  <2>1. PICK i, j \in 1..n : i < j /\ new[i] = x /\ new[j] = y BY <1>3, <1>6 DEF Precedes
  <2>2. rows[j] = y BY <1>1, <1>6, <2>1
  <2>3. rows[i] = IF x = c THEN t ELSE x BY <1>1, <1>2, <2>1
  <2>4. QED BY <2>1, <2>2, <2>3 DEF Precedes
<1>7. QED BY <1>3, <1>4, <1>5, <1>6

\* What a session works on, and when it approves.
LEMMA JobFields ==
  ASSUME Typed, NEW t \in Tx
  PROVE  /\ pc[t] = Idle \/ pc[t] \in Jobs
         /\ Approves(t) => pc[t] \in Jobs /\ pc[t].at \in DecidePCs /\ pc[t].cor \in Corrections
<1>1. pc[t] = Idle \/ pc[t] \in Jobs BY DEF Typed
<1>2. QED BY <1>1 DEF Approves, Jobs, DecidePCs

\* A step of a session that is in rows as much after it as before.
LEMMA InPlaceKeeps ==
  ASSUME RowsInv, NEW t \in Tx, NEW j \in {Idle} \cup Jobs, pc' = [pc EXCEPT ![t] = j],
         rows' = rows, status' = status,
         Approves(t) <=> j # Idle /\ j.kind = "approved",
         Approves(t) => j.cor = pc[t].cor
  PROVE  RowsFit' /\ PendingIsNewest'
<1>1. pc'[t] = j /\ \A u \in Tx \ {t} : pc'[u] = pc[u] BY DEF RowsInv, IInv, Typed
<1>2. \A u \in Tx : Approves(u)' <=> Approves(u) BY <1>1 DEF Approves
<1>3. \A u \in Tx : Approves(u) => pc'[u].cor = pc[u].cor BY <1>1
<1>4. RowsFit' BY <1>2 DEF RowsInv, RowsFit
<1>5. PendingIsNewest'
  <2>1. \A c, d \in Corrections : status'[c] = "PENDING" /\ status'[d] = "PENDING" => c = d
    BY DEF RowsInv, PendingIsNewest
  <2>2. ASSUME NEW u \in Tx, Approves(u)'
        PROVE  /\ status'[pc'[u].cor] # "NONE"
               /\ status'[pc'[u].cor] = "PENDING" =>
                    \A d \in Corrections : ~Precedes(rows', u, d)
    BY <1>2, <1>3, <2>2 DEF RowsInv, PendingIsNewest
  <2>3. QED BY <2>1, <2>2 DEF PendingIsNewest, Precedes
<1>6. QED BY <1>4, <1>5

\* An approval starts after all that is in rows.
LEMMA BeginKeeps ==
  ASSUME RowsInv, NEW t \in Tx, NEW c \in Corrections, status[c] # "NONE",
         Begin(t, "lock", c, "approved"), status' = status
  PROVE  RowsFit' /\ PendingIsNewest'
<1>1. /\ pc[t] = Idle /\ rows' = Append(rows, t)
      /\ pc' = [pc EXCEPT ![t] = [at |-> "lock", cor |-> c, kind |-> "approved", req |-> c]]
  BY DEF Begin
<1>2. /\ pc'[t] = [at |-> "lock", cor |-> c, kind |-> "approved", req |-> c]
      /\ \A u \in Tx \ {t} : pc'[u] = pc[u]
  BY <1>1 DEF RowsInv, IInv, Typed
<1>3. pc'[t] # Idle /\ pc'[t].kind = "approved" /\ pc'[t].cor = c
  <2>1. pc'[t].at = "lock" /\ Idle.at = "idle" BY <1>2 DEF Idle
  <2>2. QED BY <1>2, <2>1
<1>4. ~Approves(t) /\ Approves(t)' BY <1>1, <1>3 DEF Approves
<1>5. \A u \in Tx \ {t} : Approves(u)' <=> Approves(u) BY <1>2 DEF Approves
<1>6. rows \in Seq(Entries) /\ IsInjective(rows) /\ t \notin Range(rows) /\ t \in Entries
  BY <1>4 DEF RowsInv, RowsFit, Entries
<1>7. /\ rows' \in Seq(Entries) /\ IsInjective(rows') /\ Range(rows') = Range(rows) \cup {t}
      /\ \A x, y : Precedes(rows', x, y) => Precedes(rows, x, y) \/ y = t
  BY <1>1, <1>6, AppendedRow
<1>8. t \notin Corrections BY DayAssumption
<1>9. RowsFit'
  <2>1. \A u \in Tx : u \in Range(rows') <=> Approves(u)'
    BY <1>4, <1>5, <1>7 DEF RowsInv, RowsFit
  <2>2. \A d \in Corrections : d \in Range(rows') => status'[d] = "APPROVED"
    BY <1>7, <1>8 DEF RowsInv, RowsFit
  <2>3. QED BY <1>7, <2>1, <2>2 DEF RowsFit, Entries
<1>10. PendingIsNewest'
  <2>1. \A a, d \in Corrections : status'[a] = "PENDING" /\ status'[d] = "PENDING" => a = d
    BY DEF RowsInv, PendingIsNewest
  <2>2. \A u \in Tx, d \in Corrections : Precedes(rows', u, d) => Precedes(rows, u, d)
    BY <1>7, <1>8
  <2>3. \A d \in Corrections : ~Precedes(rows, t, d) BY <1>6 DEF Precedes, Range
  <2>4. ASSUME NEW u \in Tx, Approves(u)'
        PROVE  /\ status'[pc'[u].cor] # "NONE"
               /\ status'[pc'[u].cor] = "PENDING" =>
                    \A d \in Corrections : ~Precedes(rows', u, d)
    <3>1. CASE u = t BY <1>3, <2>2, <2>3, <3>1
    <3>2. CASE u # t BY <1>2, <1>5, <2>2, <2>4, <3>2 DEF RowsInv, PendingIsNewest
    <3>3. QED BY <3>1, <3>2
  <2>5. QED BY <2>1, <2>4 DEF PendingIsNewest, Precedes
<1>11. QED BY <1>9, <1>10

\* A session that ends leaves rows.  What it did to statuses opened no
\* correction that is being approved.
LEMMA EndKeeps ==
  ASSUME RowsInv, NEW t \in Tx, pc' = [pc EXCEPT ![t] = Idle],
         rows' = Without(rows, t),
         \A c \in Corrections : status[c] = "APPROVED" => status'[c] = "APPROVED",
         \A c, d \in Corrections : status'[c] = "PENDING" /\ status'[d] = "PENDING" => c = d,
         \A c \in Corrections : status[c] # "NONE" =>
           status'[c] # "NONE" /\ (status'[c] = "PENDING" => status[c] = "PENDING")
  PROVE  RowsFit' /\ PendingIsNewest'
<1>1. pc'[t] = Idle /\ \A u \in Tx \ {t} : pc'[u] = pc[u] BY DEF RowsInv, IInv, Typed
<1>2. ~Approves(t)' BY <1>1 DEF Approves
<1>3. \A u \in Tx \ {t} : Approves(u)' <=> Approves(u) BY <1>1 DEF Approves
<1>4. rows \in Seq(Entries) /\ IsInjective(rows) BY DEF RowsInv, RowsFit
<1>5. /\ rows' \in Seq(Entries) /\ IsInjective(rows') /\ Range(rows') = Range(rows) \ {t}
      /\ \A x, y : Precedes(rows', x, y) => Precedes(rows, x, y)
  BY <1>4, WithoutRow
<1>6. RowsFit'
  <2>1. \A u \in Tx : u \in Range(rows') <=> Approves(u)'
    BY <1>2, <1>3, <1>5 DEF RowsInv, RowsFit
  <2>2. \A d \in Corrections : d \in Range(rows') => status'[d] = "APPROVED"
    BY <1>5 DEF RowsInv, RowsFit
  <2>3. QED BY <1>5, <2>1, <2>2 DEF RowsFit, Entries
<1>7. PendingIsNewest'
  <2>1. ASSUME NEW u \in Tx, Approves(u)'
        PROVE  /\ status'[pc'[u].cor] # "NONE"
               /\ status'[pc'[u].cor] = "PENDING" =>
                    \A d \in Corrections : ~Precedes(rows', u, d)
    <3>1. Approves(u) /\ pc'[u] = pc[u] BY <1>1, <1>2, <1>3, <2>1
    <3>2. pc[u].cor \in Corrections BY <3>1, JobFields DEF RowsInv, IInv
    <3>3. QED BY <1>5, <3>1, <3>2 DEF RowsInv, PendingIsNewest
  <2>2. QED BY <2>1 DEF PendingIsNewest, Precedes
<1>8. QED BY <1>6, <1>7

\* Steps that store nothing keep the order.
LEMMA RowsWithoutStoring ==
  ASSUME RowsInv, NEW t \in Tx,
         \/ \E c \in Corrections :
              SubmitBegin(t, c) \/ DecideBegin(t, c) \/ CancelMyCorrection(t, c)
         \/ Validate(t) \/ Lookup(t) \/ InsertRequest(t) \/ AdoptRequest(t)
         \/ StoreConflict(t) \/ LockRequest(t) \/ Recheck(t) \/ Rollback(t)
  PROVE  RowsFit' /\ PendingIsNewest'
<1>1. IInv /\ Typed /\ StatusMirrors BY DEF RowsInv, IInv
<1>2. pc \in [Tx -> {Idle} \cup Jobs] BY <1>1 DEF Typed
<1>3. ASSUME UNCHANGED stored, End(t) PROVE RowsFit' /\ PendingIsNewest'
  <2>1. status' = status /\ pc' = [pc EXCEPT ![t] = Idle] /\ rows' = Without(rows, t)
    BY <1>3 DEF stored, End
  <2>2. \A c, d \in Corrections : status[c] = "PENDING" /\ status[d] = "PENDING" => c = d
    BY DEF RowsInv, PendingIsNewest
  <2>3. QED BY <2>1, <2>2, EndKeeps
<1>4. ASSUME NEW j \in Jobs, pc[t] \in Jobs, pc' = [pc EXCEPT ![t] = j], UNCHANGED rows,
             j.kind = pc[t].kind, j.cor = pc[t].cor, UNCHANGED stored
      PROVE  RowsFit' /\ PendingIsNewest'
  <2>1. j # Idle /\ pc[t] # Idle BY <1>4 DEF Jobs, Idle, SubmitPCs, DecidePCs
  <2>2. Approves(t) <=> j # Idle /\ j.kind = "approved" BY <1>4, <2>1 DEF Approves
  <2>3. status' = status /\ rows' = rows BY <1>4 DEF stored
  <2>4. QED BY <1>4, <2>2, <2>3, InPlaceKeeps
<1>5. ASSUME NEW l \in SubmitPCs, UNCHANGED stored, Goto(t, l), pc[t].at \in SubmitPCs
      PROVE  RowsFit' /\ PendingIsNewest'
  <2>1. pc[t] \in Jobs BY <1>2, <1>5 DEF Idle, SubmitPCs
  <2>2. PICK j : j = [pc[t] EXCEPT !.at = l] OBVIOUS
  <2>3. j \in Jobs /\ j.kind = pc[t].kind /\ j.cor = pc[t].cor
    BY <1>5, <2>1, <2>2 DEF Jobs, SubmitPCs, DecidePCs
  <2>4. pc' = [pc EXCEPT ![t] = j] BY <1>5, <2>2 DEF Goto
  <2>5. QED BY <1>4, <1>5, <2>1, <2>3, <2>4 DEF Goto
<1>6. ASSUME NEW l \in DecidePCs, UNCHANGED stored, Goto(t, l), pc[t].at \in DecidePCs
      PROVE  RowsFit' /\ PendingIsNewest'
  <2>1. pc[t] \in Jobs BY <1>2, <1>6 DEF Idle, DecidePCs
  <2>2. PICK j : j = [pc[t] EXCEPT !.at = l] OBVIOUS
  <2>3. j \in Jobs /\ j.kind = pc[t].kind /\ j.cor = pc[t].cor
    BY <1>6, <2>1, <2>2 DEF Jobs, SubmitPCs, DecidePCs
  <2>4. pc' = [pc EXCEPT ![t] = j] BY <1>6, <2>2 DEF Goto
  <2>5. QED BY <1>4, <1>6, <2>1, <2>3, <2>4 DEF Goto
<1>7. ASSUME NEW c \in Corrections, NEW l, NEW k, k # "approved", Begin(t, l, c, k),
             [at |-> l, cor |-> c, kind |-> k, req |-> c] \in Jobs, UNCHANGED stored
      PROVE  RowsFit' /\ PendingIsNewest'
  <2>1. PICK j : j = [at |-> l, cor |-> c, kind |-> k, req |-> c] OBVIOUS
  <2>2. pc[t] = Idle /\ pc' = [pc EXCEPT ![t] = j] /\ rows' = rows BY <1>7, <2>1 DEF Begin
  <2>3. j \in Jobs /\ j.kind # "approved" BY <1>7, <2>1
  <2>4. ~Approves(t) /\ status' = status BY <1>7, <2>2 DEF Approves, stored
  <2>5. QED BY <2>2, <2>3, <2>4, InPlaceKeeps
<1>8. ASSUME NEW c \in Corrections, NEW k \in {"approved", "rejected", "cancelled"},
             Begin(t, "lock", c, k), status[c] # "NONE", UNCHANGED stored
      PROVE  RowsFit' /\ PendingIsNewest'
  <2>1. [at |-> "lock", cor |-> c, kind |-> k, req |-> c] \in Jobs
    BY DEF Jobs, DecidePCs, Outcome
  <2>2. CASE k = "approved" BY <1>8, <2>2, BeginKeeps DEF stored
  <2>3. CASE k # "approved" BY <1>7, <1>8, <2>1, <2>3
  <2>4. QED BY <2>2, <2>3
<1>9. ASSUME NEW c \in Corrections, SubmitBegin(t, c) PROVE RowsFit' /\ PendingIsNewest'
  <2>1. [at |-> "validate", cor |-> c, kind |-> "submit", req |-> c] \in Jobs
    BY DEF Jobs, SubmitPCs
  <2>2. QED BY <1>7, <1>9, <2>1 DEF SubmitBegin
<1>10. ASSUME NEW c \in Corrections, DecideBegin(t, c) PROVE RowsFit' /\ PendingIsNewest'
  <2>1. status[c] # "NONE" BY <1>1, <1>10 DEF DecideBegin, StatusMirrors
  <2>2. QED BY <1>8, <1>10, <2>1 DEF DecideBegin
<1>11. ASSUME NEW c \in Corrections, CancelMyCorrection(t, c)
       PROVE  RowsFit' /\ PendingIsNewest'
  <2>1. status[c] # "NONE" /\ linked[c] = c BY <1>1, <1>11 DEF CancelMyCorrection, StatusMirrors
  <2>2. QED BY <1>8, <1>11, <2>1 DEF CancelMyCorrection
<1>12. CASE Validate(t) BY <1>3, <1>5, <1>12 DEF Validate, GotoIf, SubmitPCs
<1>13. CASE Lookup(t) BY <1>3, <1>5, <1>13 DEF Lookup, GotoIf, SubmitPCs
<1>14. CASE InsertRequest(t) BY <1>5, <1>14 DEF InsertRequest, SubmitPCs
<1>15. CASE AdoptRequest(t)
  <2>1. PICK d \in Corrections :
          \/ pc' = [pc EXCEPT ![t].at = "store", ![t].req = d] /\ UNCHANGED rows
          \/ End(t)
    BY <1>15 DEF AdoptRequest
  <2>2. CASE End(t) BY <1>3, <1>15, <2>2 DEF AdoptRequest
  <2>3. CASE pc' = [pc EXCEPT ![t].at = "store", ![t].req = d] /\ UNCHANGED rows
    <3>1. PICK j : j = [pc[t] EXCEPT !.at = "store", !.req = d] OBVIOUS
    <3>2. pc[t] \in Jobs /\ pc[t].at = "insert" BY <1>2, <1>15 DEF AdoptRequest, Idle
    <3>3. j \in Jobs /\ j.kind = pc[t].kind /\ j.cor = pc[t].cor
      BY <3>1, <3>2 DEF Jobs, SubmitPCs, DecidePCs
    <3>4. pc' = [pc EXCEPT ![t] = j] BY <1>2, <2>3, <3>1
    <3>5. QED BY <1>4, <1>15, <2>3, <3>2, <3>3, <3>4 DEF AdoptRequest
  <2>4. QED BY <2>1, <2>2, <2>3
<1>16. CASE StoreConflict(t) BY <1>3, <1>16 DEF StoreConflict
<1>17. CASE LockRequest(t) BY <1>3, <1>6, <1>17 DEF LockRequest, GotoIf, DecidePCs
<1>18. CASE Recheck(t) BY <1>3, <1>6, <1>18 DEF Recheck, GotoIf, DecidePCs
<1>19. CASE Rollback(t) BY <1>3, <1>19 DEF Rollback
<1>20. QED
  BY <1>9, <1>10, <1>11, <1>12, <1>13, <1>14, <1>15, <1>16, <1>17, <1>18, <1>19

\* A correction is stored while none is pending, so that everything in rows
\* is before any session that will approve it.
LEMMA RowsWhenStored ==
  ASSUME RowsInv, NEW t \in Tx, StoreCorrection(t) PROVE RowsFit' /\ PendingIsNewest'
<1>1. Typed /\ Submitting BY DEF RowsInv, IInv
<1>2. PICK c : c = pc[t].cor OBVIOUS
<1>3. pc[t] \in Jobs /\ pc[t].at = "store"
  BY <1>1 DEF StoreCorrection, Typed, Idle
<1>4. c \in Corrections /\ status[c] = "NONE"
  BY <1>1, <1>2, <1>3 DEF Jobs, Submitting, Submits, SubmitPCs
<1>5. /\ \A d \in Corrections : status[d] # "PENDING"
      /\ status' = [status EXCEPT ![c] = "PENDING"]
      /\ pc' = [pc EXCEPT ![t] = Idle] /\ rows' = Without(rows, t)
  BY <1>2 DEF StoreCorrection, DayTaken, End
<1>6. status'[c] = "PENDING" /\ \A d \in Corrections : d # c => status'[d] = status[d]
  BY <1>1, <1>4, <1>5 DEF Typed
<1>7. \A a, d \in Corrections : status'[a] = "PENDING" /\ status'[d] = "PENDING" => a = d
  BY <1>5, <1>6
<1>8. \A d \in Corrections : status[d] # "NONE" =>
        status'[d] # "NONE" /\ (status'[d] = "PENDING" => status[d] = "PENDING")
  BY <1>4, <1>6
<1>9. \A d \in Corrections : status[d] = "APPROVED" => status'[d] = "APPROVED"
  BY <1>4, <1>6
<1>10. QED BY <1>5, <1>7, <1>8, <1>9, EndKeeps

\* What a decision does: a session that approves leaves its place to the
\* override of its correction, which then precedes no other correction.
LEMMA RowsWhenDecided ==
  ASSUME RowsInv, NEW t \in Tx, DecideCommit(t)
  PROVE  /\ RowsFit' /\ PendingIsNewest'
         /\ \A c \in Corrections : status[c] # "APPROVED" /\ status'[c] = "APPROVED" =>
              c \in Range(rows') /\ \A d \in Corrections : ~Precedes(rows', c, d)
<1>1. IInv /\ Typed /\ StatusMirrors /\ Deciding BY DEF RowsInv, IInv
<1>2. PICK c : c = pc[t].cor OBVIOUS
<1>3. PICK k : k = pc[t].kind OBVIOUS
<1>4. pc[t] \in Jobs /\ pc[t].at = "commit" /\ pc[t] # Idle
  BY <1>1 DEF DecideCommit, Typed, Idle
<1>5. c \in Corrections /\ k \in {"approved", "rejected", "cancelled"}
  BY <1>2, <1>3, <1>4 DEF Jobs, SubmitPCs, DecidePCs, Outcome
<1>6. status[c] = "PENDING"
  BY <1>1, <1>2, <1>4, <1>5 DEF Deciding, Decides, StatusMirrors
<1>7. /\ status' = [status EXCEPT ![c] = Outcome[k]]
      /\ pc' = [pc EXCEPT ![t] = Idle] /\ rows' = TakeEffect(t, c)
  BY <1>2, <1>3, <1>6 DEF DecideCommit
<1>8. status'[c] = Outcome[k] /\ \A d \in Corrections : d # c => status'[d] = status[d]
  BY <1>1, <1>5, <1>7 DEF Typed
<1>9. Outcome[k] \notin {"NONE", "PENDING"} /\ (Outcome[k] = "APPROVED" <=> k = "approved")
  BY <1>5 DEF Outcome
<1>10. \A d \in Corrections : status'[d] # "PENDING"
  BY <1>5, <1>6, <1>8, <1>9 DEF RowsInv, PendingIsNewest
<1>11. \A d \in Corrections : status[d] # "NONE" => status'[d] # "NONE" BY <1>8, <1>9
<1>12. \A d \in Corrections : status[d] = "APPROVED" => status'[d] = "APPROVED" BY <1>6, <1>8
<1>13. rows \in Seq(Entries) /\ IsInjective(rows) BY DEF RowsInv, RowsFit
<1>14. c \notin Range(rows) /\ c \in Entries BY <1>5, <1>6 DEF RowsInv, RowsFit, Entries
<1>15. Approves(t) <=> k = "approved" BY <1>3, <1>4 DEF Approves
<1>16. CASE k # "approved"
  <2>1. t \notin Range(rows) BY <1>15, <1>16 DEF RowsInv, RowsFit
  <2>2. rows' = Without(rows, t)
    <3>1. \A i \in DOMAIN rows : rows[i] # t BY <2>1 DEF Range
    <3>2. rows' = rows BY <1>7, <1>13, <3>1 DEF TakeEffect
    <3>3. QED BY <2>1, <3>2 DEF Without
  <2>3. RowsFit' /\ PendingIsNewest'
    BY <1>7, <1>10, <1>11, <1>12, <2>2, EndKeeps
  <2>4. QED BY <1>8, <1>9, <1>16, <2>3
<1>17. CASE k = "approved"
  <2>1. Approves(t) /\ t \in Range(rows) BY <1>15, <1>17 DEF RowsInv, RowsFit
  <2>2. /\ rows' \in Seq(Entries) /\ IsInjective(rows')
        /\ Range(rows') = (Range(rows) \ {t}) \cup {c}
        /\ \A x, y : Precedes(rows', x, y) /\ y # c => Precedes(rows, IF x = c THEN t ELSE x, y)
    BY <1>7, <1>13, <1>14, <2>1, TakenEffect
  <2>3. pc'[t] = Idle /\ \A u \in Tx \ {t} : pc'[u] = pc[u] BY <1>1, <1>7 DEF Typed
  <2>4. ~Approves(t)' /\ \A u \in Tx \ {t} : Approves(u)' <=> Approves(u)
    BY <2>3 DEF Approves
  <2>5. c \notin Tx BY <1>5, DayAssumption
  <2>6. RowsFit'
    <3>1. \A u \in Tx : u \in Range(rows') <=> Approves(u)'
      BY <2>2, <2>4, <2>5 DEF RowsInv, RowsFit
    <3>2. \A d \in Corrections : d \in Range(rows') => status'[d] = "APPROVED"
      BY <1>8, <1>9, <1>12, <1>17, <2>2 DEF RowsInv, RowsFit
    <3>3. QED BY <2>2, <3>1, <3>2 DEF RowsFit, Entries
  <2>7. PendingIsNewest'
    <3>1. ASSUME NEW u \in Tx, Approves(u)'
          PROVE  status'[pc'[u].cor] # "NONE" /\ status'[pc'[u].cor] # "PENDING"
      <4>1. Approves(u) /\ pc'[u] = pc[u] BY <2>3, <2>4, <3>1
      <4>2. pc[u].cor \in Corrections BY <1>1, <4>1, JobFields
      <4>3. QED BY <1>10, <1>11, <4>1, <4>2 DEF RowsInv, PendingIsNewest
    <3>2. QED BY <1>10, <3>1 DEF PendingIsNewest
  <2>8. \A d \in Corrections : ~Precedes(rows, t, d)
    BY <1>2, <1>6, <2>1 DEF RowsInv, PendingIsNewest
  <2>9. \A d \in Corrections : ~Precedes(rows', c, d)
    <3>1. ~Precedes(rows', c, c) BY <2>2 DEF Precedes, IsInjective
    <3>2. QED BY <2>2, <2>8, <3>1
  <2>10. QED BY <1>8, <2>2, <2>6, <2>7, <2>9
<1>18. QED BY <1>16, <1>17

\* Every step keeps the order of overrides, and a correction becomes approved
\* only behind all others.
LEMMA RowsStep ==
  ASSUME RowsInv, [Next]_vars
  PROVE  /\ RowsInv'
         /\ \A c \in Corrections : status[c] # "APPROVED" /\ status'[c] = "APPROVED" =>
              c \in Range(rows') /\ daily' = daily
                /\ \A d \in Corrections : ~Precedes(rows', c, d)
<1>1. IInv /\ Typed BY DEF RowsInv, IInv
<1>2. IInv' BY <1>1, InvStep
<1>3. ASSUME NEW t \in Tx,
             \/ \E c \in Corrections :
                  SubmitBegin(t, c) \/ DecideBegin(t, c) \/ CancelMyCorrection(t, c)
             \/ Validate(t) \/ Lookup(t) \/ InsertRequest(t) \/ AdoptRequest(t)
             \/ StoreConflict(t) \/ LockRequest(t) \/ Recheck(t) \/ Rollback(t)
      PROVE  RowsFit' /\ PendingIsNewest' /\ status' = status
  <2>1. RowsFit' /\ PendingIsNewest' BY <1>3, RowsWithoutStoring
  <2>2. Move(t) BY <1>1, <1>3, StoresNothing
  <2>3. QED BY <2>1, <2>2 DEF Move, stored
<1>4. ASSUME NEW t \in Tx, StoreCorrection(t)
      PROVE  /\ RowsFit' /\ PendingIsNewest'
             /\ \A c \in Corrections : status'[c] = "APPROVED" => status[c] = "APPROVED"
  <2>1. RowsFit' /\ PendingIsNewest' BY <1>4, RowsWhenStored
  <2>2. status' = [status EXCEPT ![pc[t].cor] = "PENDING"] BY <1>4 DEF StoreCorrection
  <2>3. QED BY <1>1, <2>1, <2>2 DEF Typed
<1>5. ASSUME NEW l \in Leaves, GrantLeave(l)
      PROVE  RowsFit' /\ PendingIsNewest' /\ status' = status
  <2>1. PICK i \in 1..(Len(rows) + 1) : rows' = InsertAt(rows, i, l) BY <1>5 DEF GrantLeave
  <2>2. status' = status /\ pc' = pc /\ l \notin Range(rows) BY <1>5 DEF GrantLeave, stored
  <2>3. rows \in Seq(Entries) /\ IsInjective(rows) /\ l \in Entries
    BY DEF RowsInv, RowsFit, Entries
  <2>4. /\ rows' \in Seq(Entries) /\ IsInjective(rows') /\ Range(rows') = Range(rows) \cup {l}
        /\ \A x, y : Precedes(rows', x, y) => Precedes(rows, x, y) \/ x = l \/ y = l
    BY <2>1, <2>2, <2>3, InsertedRow
  <2>5. l \notin Tx /\ l \notin Corrections BY DayAssumption
  <2>6. \A u \in Tx : (Approves(u)' <=> Approves(u)) /\ pc'[u] = pc[u] BY <2>2 DEF Approves
  <2>7. RowsFit'
    <3>1. \A u \in Tx : u \in Range(rows') <=> Approves(u)'
      BY <2>4, <2>5, <2>6 DEF RowsInv, RowsFit
    <3>2. \A d \in Corrections : d \in Range(rows') => status'[d] = "APPROVED"
      BY <2>2, <2>4, <2>5 DEF RowsInv, RowsFit
    <3>3. QED BY <2>4, <3>1, <3>2 DEF RowsFit, Entries
  <2>8. \A u \in Tx, d \in Corrections : Precedes(rows', u, d) => Precedes(rows, u, d)
    BY <2>4, <2>5
  <2>9. PendingIsNewest' BY <2>2, <2>6, <2>8 DEF RowsInv, PendingIsNewest
  <2>10. QED BY <2>2, <2>7, <2>9
<1>6. ASSUME UNCHANGED <<status, rows, pc>>
      PROVE  RowsFit' /\ PendingIsNewest' /\ status' = status
  <2>1. \A u \in Tx : Approves(u)' <=> Approves(u) BY <1>6 DEF Approves
  <2>2. RowsFit' BY <1>6, <2>1 DEF RowsInv, RowsFit
  <2>3. PendingIsNewest' BY <1>6, <2>1 DEF RowsInv, PendingIsNewest, Precedes
  <2>4. QED BY <1>6, <2>2, <2>3
<1>7. ASSUME NEW t \in Tx, DecideCommit(t)
      PROVE  /\ RowsFit' /\ PendingIsNewest'
             /\ \A c \in Corrections : status[c] # "APPROVED" /\ status'[c] = "APPROVED" =>
                  c \in Range(rows') /\ daily' = daily
                    /\ \A d \in Corrections : ~Precedes(rows', c, d)
  BY <1>7, RowsWhenDecided DEF DecideCommit
<1>8. CASE Work BY <1>2, <1>6, <1>8 DEF Work, RowsInv
<1>9. CASE UNCHANGED vars BY <1>2, <1>6, <1>9 DEF vars, RowsInv
<1>10. QED BY <1>2, <1>3, <1>4, <1>5, <1>7, <1>8, <1>9 DEF Next, RowsInv

\* It is empty at first.
LEMMA RowsInit == Init => RowsInv
<1> SUFFICES ASSUME Init PROVE RowsInv OBVIOUS
<1>1. IInv BY InitInv
<1>2. rows = <<>> /\ \A t \in Tx : ~Approves(t) BY DEF Init, Approves
<1>3. Range(rows) = {} /\ IsInjective(rows) /\ rows \in Seq(Entries)
  BY <1>2 DEF Range, IsInjective
<1>4. RowsFit BY <1>2, <1>3 DEF RowsFit
<1>5. PendingIsNewest BY <1>2 DEF Init, PendingIsNewest
<1>6. QED BY <1>1, <1>4, <1>5 DEF RowsInv

MinutesFit == daily \in {-1} \cup Minutes

\* The variables have their types: above all, no override is twice in rows.
THEOREM TypeCorrect == Spec => []TypeOK
<1>1. Init => MinutesFit BY DEF Init, MinutesFit
<1>2. MinutesFit /\ [Next]_vars => MinutesFit'
  <2> SUFFICES ASSUME MinutesFit, [Next]_vars PROVE MinutesFit' OBVIOUS
  <2>1. ASSUME UNCHANGED stored PROVE daily' = daily BY <2>1 DEF stored
  <2>2. ASSUME NEW t \in Tx,
               \/ \E c \in Corrections :
                    SubmitBegin(t, c) \/ DecideBegin(t, c) \/ CancelMyCorrection(t, c)
               \/ Validate(t) \/ Lookup(t) \/ InsertRequest(t) \/ AdoptRequest(t)
               \/ StoreConflict(t) \/ LockRequest(t) \/ Recheck(t) \/ Rollback(t)
        PROVE  daily' = daily
    BY <2>1, <2>2 DEF SubmitBegin, DecideBegin, CancelMyCorrection, Validate, Lookup,
                      InsertRequest, AdoptRequest, StoreConflict, LockRequest, Recheck, Rollback
  <2>3. ASSUME NEW t \in Tx, StoreCorrection(t) \/ DecideCommit(t) PROVE daily' = daily
    BY <2>3 DEF StoreCorrection, DecideCommit
  <2>4. ASSUME NEW l \in Leaves, GrantLeave(l) PROVE daily' = daily
    BY <2>1, <2>4 DEF GrantLeave
  <2>5. CASE Work BY <2>5 DEF Work, MinutesFit
  <2>6. CASE UNCHANGED vars BY <2>6 DEF vars, MinutesFit
  <2>7. QED BY <2>2, <2>3, <2>4, <2>5, <2>6 DEF Next, MinutesFit
<1>3. RowsInv /\ MinutesFit => TypeOK
  BY DEF MinutesFit, RowsInv, IInv, Typed, RowsFit, Entries, TypeOK, Statuses, Range, Outcome, Jobs,
         SubmitPCs, DecidePCs
<1>4. RowsInv /\ [Next]_vars => RowsInv' BY RowsStep
<1>5. QED BY <1>1, <1>2, <1>3, <1>4, RowsInit, PTL DEF Spec

\* All readers take the day for what correction c made of it.
CountsAs(c) ==
  /\ DayView = IF OnLeave THEN <<"ON_LEAVE", 0>>
               ELSE <<OverrideOf[c], MinutesAs(OverrideOf[c])>>
  /\ PunchState = DayView
  /\ WorkedMinutes = DayView[2]
  /\ CountedPresent = (DayView[1] \notin {"ON_LEAVE", "ABSENT", "ABSENT_OVERRIDE"})

NewestIsCounted ==
  \A c \in Corrections :
    c \in Range(rows) /\ (\A d \in Corrections : ~Precedes(rows, c, d)) => CountsAs(c)

\* The override of a correction that precedes no other is the newest, and
\* every reader finds it unless there is leave.
LEMMA NewestCounts == RowsInv => NewestIsCounted
<1> SUFFICES ASSUME RowsFit, NEW c \in Corrections, c \in Range(rows),
                    \A d \in Corrections : ~Precedes(rows, c, d)
             PROVE  CountsAs(c)
  BY DEF RowsInv, NewestIsCounted
<1>1. PICK n \in Nat : n = Len(rows) /\ DOMAIN rows = 1..n BY DEF RowsFit
<1>2. \A i \in DOMAIN rows : rows[i] \in Entries BY DEF RowsFit
<1>3. PICK p \in DOMAIN rows : rows[p] = c BY DEF Range
<1>4. c \notin Leaves /\ c \notin Tx /\ OverrideOf[c] \in OverrideStatuses BY DayAssumption
<1>5. Newest(Approved) = c
  <2>1. Approved \subseteq Nat /\ p \in Approved BY <1>1, <1>3 DEF Approved
  <2>2. \A i \in Approved : i <= n BY <1>1 DEF Approved
  <2>3. PICK m : m = Max(Approved) OBVIOUS
  <2>4. m \in Approved /\ \A i \in Approved : i <= m
    <3>1. Approved # {} /\ n \in Nat BY <2>1, <1>1
    <3>2. Max(Approved) \in Approved /\ \A i \in Approved : i <= Max(Approved)
      BY <2>1, <2>2, <3>1, MaxIsGreatest
    <3>3. QED BY <2>3, <3>2
  <2>5. p <= m /\ m \in DOMAIN rows /\ rows[m] \in Corrections BY <2>1, <2>4 DEF Approved
  <2>6. ~(p < m) BY <1>3, <2>5 DEF Precedes
  <2>7. p \in Nat /\ m \in Nat BY <2>1, <2>4
  <2>8. p = m BY <2>5, <2>6, <2>7
  <2>9. QED BY <1>3, <2>3, <2>8 DEF Newest
<1>6. Approved # {} BY <1>3 DEF Approved
<1>7. CASE OnLeave
  <2>1. PICK i \in DOMAIN rows : rows[i] \in Leaves BY <1>7 DEF OnLeave, Range
  <2>2. i \in Overrides /\ StatusOf(rows[i]) = "ON_LEAVE"
    BY <2>1, DayAssumption DEF Overrides, StatusOf
  <2>3. DayView = <<"ON_LEAVE", 0>> BY <2>1, <2>2 DEF DayView
  <2>4. PunchState = <<"ON_LEAVE", 0>> BY <2>2 DEF PunchState
  <2>5. WorkedMinutes = 0 /\ CountedPresent = FALSE
    BY <1>7 DEF WorkedMinutes, CountedPresent
  <2>6. QED BY <1>7, <2>3, <2>4, <2>5 DEF CountsAs
<1>8. CASE ~OnLeave
  <2>1. \A i \in DOMAIN rows : rows[i] \notin Leaves BY <1>8 DEF OnLeave, Range
  <2>2. Overrides = Approved
    BY <1>2, <2>1, DayAssumption DEF Overrides, Approved, Entries
  <2>3. {i \in Overrides : rows[i] \notin Leaves} = Overrides BY <2>1 DEF Overrides
  <2>4. StatusOf(c) = OverrideOf[c] BY <1>4 DEF StatusOf
  <2>5. DayView = <<OverrideOf[c], MinutesAs(OverrideOf[c])>>
    BY <1>5, <1>6, <2>2, <2>3, <2>4 DEF DayView
  <2>6. \A i \in Overrides : StatusOf(rows[i]) # "ON_LEAVE"
    BY <2>1, <2>2, DayAssumption DEF Approved, StatusOf, OverrideStatuses
  <2>7. PunchState = <<OverrideOf[c], MinutesAs(OverrideOf[c])>>
    BY <1>5, <1>6, <2>2, <2>4, <2>6 DEF PunchState
  <2>8. WorkedMinutes = MinutesAs(OverrideOf[c])
    BY <1>5, <1>6, <1>8, <2>4 DEF WorkedMinutes
  <2>9. CountedPresent <=> OverrideOf[c] \in {"PRESENT_OVERRIDE", "WFH", "ON_DUTY"}
    BY <1>5, <1>6, <1>8, <2>4, Zenon DEF CountedPresent
  <2>10. OverrideOf[c] \in {"PRESENT_OVERRIDE", "WFH", "ON_DUTY"} <=>
           OverrideOf[c] \notin {"ON_LEAVE", "ABSENT", "ABSENT_OVERRIDE"}
    BY <1>4 DEF OverrideStatuses
  <2>11. CountedPresent \in BOOLEAN BY DEF CountedPresent
  <2>12. QED BY <1>8, <2>5, <2>7, <2>8, <2>9, <2>10, <2>11 DEF CountsAs
<1>9. QED BY <1>7, <1>8

\* In whatever order approvals start, wait for each other and commit, and
\* whenever leave is granted, the correction approved last is what the day
\* counts as for all four readers.
THEOREM LatestApprovalCountsCorrect == Spec => LatestApprovalCounts
<1>1. RowsInv /\ [Next]_vars => RowsInv' BY RowsStep
<1>2. RowsInv /\ RowsInv' /\ [Next]_vars =>
        [\A c \in Corrections :
           status[c] # "APPROVED" /\ status'[c] = "APPROVED" =>
             /\ DayView' = IF OnLeave' THEN <<"ON_LEAVE", 0>>
                           ELSE <<OverrideOf[c], MinutesAs(OverrideOf[c])>>
             /\ PunchState' = DayView'
             /\ WorkedMinutes' = DayView'[2]
             /\ CountedPresent' =
                  (DayView'[1] \notin {"ON_LEAVE", "ABSENT", "ABSENT_OVERRIDE"})]_vars
  <2> SUFFICES ASSUME RowsInv, RowsInv', [Next]_vars, NEW c \in Corrections,
                      status[c] # "APPROVED", status'[c] = "APPROVED"
               PROVE  /\ DayView' = IF OnLeave' THEN <<"ON_LEAVE", 0>>
                                    ELSE <<OverrideOf[c], MinutesAs(OverrideOf[c])>>
                      /\ PunchState' = DayView'
                      /\ WorkedMinutes' = DayView'[2]
                      /\ CountedPresent' =
                           (DayView'[1] \notin {"ON_LEAVE", "ABSENT", "ABSENT_OVERRIDE"})
    OBVIOUS
  <2>1. /\ c \in Range(rows') /\ daily' = daily
        /\ \A d \in Corrections : ~Precedes(rows', c, d)
    BY RowsStep
  <2>2. NewestIsCounted' BY NewestCounts, PTL
  <2>3. CountsAs(c)' BY <2>1, <2>2 DEF NewestIsCounted, Precedes
  <2>4. MinutesAs(OverrideOf[c])' = MinutesAs(OverrideOf[c])
    BY <2>1 DEF MinutesAs, Worked
  <2>5. QED BY <2>3, <2>4 DEF CountsAs
<1>3. QED BY <1>1, <1>2, RowsInit, PTL DEF Spec, LatestApprovalCounts

-----------------------------------------------------------------------------
(* The roster.                                                              *)

Shapes == [start : Nat, end : Nat, break : Int]

\* Shift templates can be computed, and so can what a session is about to make
\* of one.
TemplatesCompute ==
  /\ \A s \in DOMAIN shifts : shifts[s] \in Shapes /\ Computable(shifts[s])
  /\ DOMAIN admin = Admins
  /\ \A a \in Admins : admin[a].at = "patch" =>
       admin[a].merged \in Shapes /\ Computable(admin[a].merged)

Known(s) == s = NoShift \/ s \in DOMAIN shifts

\* Whatever refers to a template refers to one there is.
ShiftsAreKnown ==
  /\ IsASequence(assignments)
  /\ \A i \in DOMAIN assignments : assignments[i].from \in Nat /\ Known(assignments[i].shift)
  /\ \A a \in Admins : admin[a].at = "assign" =>
       admin[a].new.from \in Nat /\ Known(admin[a].new.shift)
  /\ Known(dayOverride.shift)
  /\ dayOverride.shift # NoShift => dayOverride.type \in {"SHIFT_CHANGE", "WORKDAY"}
  /\ branch \in Branches /\ DOMAIN default = Branches
  /\ \A b \in Branches : Known(default[b])

RosterInv == TemplatesCompute /\ ShiftsAreKnown

\* No step of the roster breaks it.
LEMMA RosterKeeps ==
  ASSUME RosterInv, RosterStep \/ UNCHANGED rostervars
  PROVE  RosterInv'
<1>1. TemplatesCompute /\ ShiftsAreKnown BY DEF RosterInv
<1>2. Working.at = "idle" BY DEF Working
<1>3. ASSUME NEW s \in Shifts, NEW tpl \in Templates, CreateShift(s, tpl) PROVE RosterInv'
  <2>1. /\ DOMAIN shifts' = DOMAIN shifts \cup {s} /\ shifts'[s] = tpl
        /\ \A x \in DOMAIN shifts : x # s => shifts'[x] = shifts[x]
        /\ UNCHANGED <<assignments, dayOverride, default, branch, admin>>
    BY <1>3 DEF CreateShift
  <2>2. tpl \in Shapes /\ Computable(tpl) BY <1>3, RosterAssumption DEF CreateShift, Shapes
  <2>3. TemplatesCompute' BY <1>1, <2>1, <2>2 DEF TemplatesCompute, Computable, Duration
  <2>4. ShiftsAreKnown' BY <1>1, <2>1 DEF ShiftsAreKnown, Known
  <2>5. QED BY <2>3, <2>4 DEF RosterInv
<1>4. ASSUME NEW a \in Admins, NEW s \in Shifts, NEW tpl \in Templates,
             NEW fields \in SUBSET {"start", "end", "break"}, PatchLook(a, s, tpl, fields)
      PROVE  RosterInv'
  <2> PICK merged : merged = [f \in {"start", "end", "break"} |->
                                IF f \in fields THEN tpl[f] ELSE shifts[s][f]]
    OBVIOUS
  <2>1. /\ Computable(merged) /\ s \in DOMAIN shifts
        /\ admin' = [admin EXCEPT ![a] =
                       [at |-> "patch", shift |-> s, merged |-> merged, fields |-> fields]]
        /\ UNCHANGED roster
    BY <1>4 DEF PatchLook
  <2>2. tpl \in Shapes /\ shifts[s] \in Shapes
    BY <1>1, <2>1, RosterAssumption DEF Shapes, TemplatesCompute
  <2>3. merged = [start |-> merged.start, end |-> merged.end, break |-> merged.break]
    BY Zenon
  <2>4. merged.start \in Nat /\ merged.end \in Nat /\ merged.break \in Int BY <2>2 DEF Shapes
  <2>5. merged \in Shapes BY <2>3, <2>4 DEF Shapes
  <2>6. /\ DOMAIN admin' = Admins /\ admin'[a].merged = merged /\ admin'[a].at = "patch"
        /\ \A b \in Admins : b # a => admin'[b] = admin[b]
    BY <1>1, <2>1 DEF TemplatesCompute
  <2>7. TemplatesCompute' BY <1>1, <2>1, <2>5, <2>6 DEF TemplatesCompute, roster, Computable, Duration
  <2>8. ShiftsAreKnown' BY <1>1, <2>1, <2>6 DEF ShiftsAreKnown, Known, roster
  <2>9. QED BY <2>7, <2>8 DEF RosterInv
<1>5. ASSUME NEW a \in Admins, NEW s \in Shifts, NEW range \in Ranges, AssignLook(a, s, range)
      PROVE  RosterInv'
  <2> PICK new : new = [from |-> range[1], to |-> range[2], shift |-> s] OBVIOUS
  <2>1. /\ admin' = [admin EXCEPT ![a] = [at |-> "assign", new |-> new]]
        /\ UNCHANGED roster /\ s \in DOMAIN shifts
    BY <1>5 DEF AssignLook, OfMyBranch
  <2>2. new.from \in Nat /\ new.shift = s BY RosterAssumption
  <2>3. /\ DOMAIN admin' = Admins /\ admin'[a].new = new /\ admin'[a].at = "assign"
        /\ \A b \in Admins : b # a => admin'[b] = admin[b]
    BY <1>1, <2>1 DEF TemplatesCompute
  <2>4. TemplatesCompute' BY <1>1, <2>1, <2>3 DEF TemplatesCompute, roster, Computable, Duration
  <2>5. ShiftsAreKnown' BY <1>1, <2>1, <2>2, <2>3 DEF ShiftsAreKnown, Known, roster
  <2>6. QED BY <2>4, <2>5 DEF RosterInv
<1>6. ASSUME NEW a \in Admins, PatchCommit(a) PROVE RosterInv'
  <2> PICK s, merged : s = admin[a].shift /\ merged = admin[a].merged OBVIOUS
  <2>1. /\ admin[a].at = "patch" /\ shifts' = [shifts EXCEPT ![s] = merged]
        /\ admin' = [admin EXCEPT ![a] = Working]
        /\ UNCHANGED <<assignments, dayOverride, default, branch>>
    BY <1>6 DEF PatchCommit
  <2>2. merged \in Shapes /\ Computable(merged) BY <1>1, <2>1 DEF TemplatesCompute
  <2>3. /\ DOMAIN shifts' = DOMAIN shifts
        /\ \A x \in DOMAIN shifts : shifts'[x] = shifts[x] \/ shifts'[x] = merged
        /\ DOMAIN admin' = Admins /\ admin'[a].at = "idle"
        /\ \A b \in Admins : b # a => admin'[b] = admin[b]
    BY <1>1, <1>2, <2>1 DEF TemplatesCompute
  <2>4. TemplatesCompute' BY <1>1, <2>2, <2>3 DEF TemplatesCompute, Computable, Duration
  <2>5. ShiftsAreKnown' BY <1>1, <2>1, <2>3 DEF ShiftsAreKnown, Known
  <2>6. QED BY <2>4, <2>5 DEF RosterInv
<1>7. ASSUME NEW a \in Admins, AssignCommit(a) PROVE RosterInv'
  <2> PICK new : new = admin[a].new OBVIOUS
  <2>1. /\ admin[a].at = "assign" /\ assignments' = Append(assignments, new)
        /\ admin' = [admin EXCEPT ![a] = Working]
        /\ UNCHANGED <<shifts, dayOverride, default, branch>>
    BY <1>7 DEF AssignCommit
  <2>2. new.from \in Nat /\ Known(new.shift) /\ IsASequence(assignments)
    BY <1>1, <2>1 DEF ShiftsAreKnown
  <2>3. /\ IsASequence(assignments') /\ Len(assignments) + 1 \in DOMAIN assignments'
        /\ DOMAIN assignments' = DOMAIN assignments \cup {Len(assignments) + 1}
        /\ assignments'[Len(assignments) + 1] = new
        /\ \A i \in DOMAIN assignments : assignments'[i] = assignments[i]
    BY <2>1, <2>2, AppendSequence
  <2>4. /\ DOMAIN admin' = Admins /\ admin'[a].at = "idle"
        /\ \A b \in Admins : b # a => admin'[b] = admin[b]
    BY <1>1, <1>2, <2>1 DEF TemplatesCompute
  <2>5. TemplatesCompute' BY <1>1, <2>1, <2>4 DEF TemplatesCompute, Computable, Duration
  <2>6. \A i \in DOMAIN assignments' : assignments'[i].from \in Nat /\ Known(assignments'[i].shift)
    BY <1>1, <2>2, <2>3 DEF ShiftsAreKnown
  <2>7. ShiftsAreKnown' BY <1>1, <2>1, <2>3, <2>4, <2>6 DEF ShiftsAreKnown, Known
  <2>8. QED BY <2>5, <2>7 DEF RosterInv
<1>8. ASSUME NEW a \in Admins, GiveUp(a) PROVE RosterInv'
  <2>1. admin' = [admin EXCEPT ![a] = Working] /\ UNCHANGED roster BY <1>8 DEF GiveUp
  <2>2. /\ DOMAIN admin' = Admins /\ admin'[a].at = "idle"
        /\ \A b \in Admins : b # a => admin'[b] = admin[b]
    BY <1>1, <1>2, <2>1 DEF TemplatesCompute
  <2>3. TemplatesCompute' BY <1>1, <2>1, <2>2 DEF TemplatesCompute, roster, Computable, Duration
  <2>4. ShiftsAreKnown' BY <1>1, <2>1, <2>2 DEF ShiftsAreKnown, Known, roster
  <2>5. QED BY <2>3, <2>4 DEF RosterInv
<1>9. ASSUME NEW type \in {"WEEKOFF", "WORKDAY", "SHIFT_CHANGE"}, NEW s \in Shifts \cup {NoShift},
             OverrideDay(type, s)
      PROVE  RosterInv'
  <2>1. /\ type = "WEEKOFF" => s = NoShift
        /\ s # NoShift => s \in DOMAIN shifts
        /\ dayOverride' = [type |-> type, shift |-> s]
        /\ UNCHANGED <<shifts, assignments, default, branch, admin>>
    BY <1>9 DEF OverrideDay, OfMyBranch
  <2>2. TemplatesCompute' BY <1>1, <2>1 DEF TemplatesCompute, Computable, Duration
  <2>3. ShiftsAreKnown' BY <1>1, <2>1 DEF ShiftsAreKnown, Known
  <2>4. QED BY <2>2, <2>3 DEF RosterInv
<1>10. ASSUME NEW b \in Branches, NEW s \in Shifts, SetDefault(b, s) PROVE RosterInv'
  <2>1. /\ s \in DOMAIN shifts /\ default' = [default EXCEPT ![b] = s]
        /\ UNCHANGED <<shifts, assignments, dayOverride, branch, admin>>
    BY <1>10 DEF SetDefault
  <2>2. TemplatesCompute' BY <1>1, <2>1 DEF TemplatesCompute, Computable, Duration
  <2>3. ShiftsAreKnown' BY <1>1, <2>1 DEF ShiftsAreKnown, Known
  <2>4. QED BY <2>2, <2>3 DEF RosterInv
<1>11. ASSUME UNCHANGED <<shifts, assignments, dayOverride, default, admin>>, branch' \in Branches
       PROVE  RosterInv'
  <2>1. TemplatesCompute' BY <1>1, <1>11 DEF TemplatesCompute, Computable, Duration
  <2>2. ShiftsAreKnown' BY <1>1, <1>11 DEF ShiftsAreKnown, Known
  <2>3. QED BY <2>1, <2>2 DEF RosterInv
<1>12. branch \in Branches BY <1>1 DEF ShiftsAreKnown
<1>13. ASSUME NEW b \in Branches,
              ChangeEmployment(b) \/ \E off \in BOOLEAN : PutWeeklyOff(b, off)
       PROVE  RosterInv'
  BY <1>11, <1>12, <1>13 DEF ChangeEmployment, PutWeeklyOff
<1>14. ASSUME NEW bs, CreateHoliday(bs) PROVE RosterInv'
  BY <1>11, <1>12, <1>14 DEF CreateHoliday
<1>15. CASE UNCHANGED rostervars BY <1>11, <1>12, <1>15 DEF rostervars, roster
<1>16. QED BY <1>3, <1>4, <1>5, <1>6, <1>7, <1>8, <1>9, <1>10, <1>13, <1>14, <1>15 DEF RosterStep

\* At first it holds.
LEMMA RosterInitInv == RosterInit => RosterInv
<1> SUFFICES ASSUME RosterInit PROVE RosterInv OBVIOUS
<1>1. PICK S \in SUBSET Shifts : shifts = [s \in S |-> Usual] BY DEF RosterInit
<1>2. TemplatesCompute
  BY <1>1, RosterAssumption DEF RosterInit, TemplatesCompute, Shapes, Working
<1>3. IsASequence(assignments) /\ DOMAIN assignments = {}
  <2>1. assignments = <<>> BY DEF RosterInit
  <2>2. QED BY <2>1 DEF IsASequence
<1>4. ShiftsAreKnown
  BY <1>3, SMTT(30) DEF RosterInit, ShiftsAreKnown, Known, NoOverride, Working
<1>5. QED BY <1>2, <1>4 DEF RosterInv

-----------------------------------------------------------------------------
(* The payable summary.                                                     *)

\* A recomputation that began after the last change has read what is there.
HasRead(x) ==
  /\ run[x].at \in {"roster", "attendance", "store"} /\ run[x].branch = branch
  /\ run[x].at # "roster" =>
       /\ run[x].holiday = (branch \in holiday) /\ run[x].off = (branch \in weeklyOff)
       /\ run[x].default = default[branch] /\ run[x].assigned = Assigned(assignments)
       /\ run[x].override = dayOverride
  /\ run[x].at = "store" => run[x].leave = OnLeave /\ run[x].worked = WorkedMinutes

\* The summary of the day as it is.
OwedRow ==
  Row([leave |-> OnLeave, worked |-> WorkedMinutes, branch |-> branch,
       holiday |-> branch \in holiday, off |-> branch \in weeklyOff, default |-> default[branch],
       assigned |-> Assigned(assignments), override |-> dayOverride])

PayablesInv ==
  /\ daily \in {-1} \cup Minutes /\ DOMAIN run = Runs
  /\ \A x \in Runs \cap current : HasRead(x)
  /\ upToDate => summary = OwedRow

\* What a recomputation has read makes the row.
LEMMA ReadMakesRow ==
  ASSUME NEW x, HasRead(x), run[x].at = "store"
  PROVE  Row(run[x]) = OwedRow
BY ZenonT(40) DEF HasRead, Row, OwedRow, DayType, ShiftFor

\* A step that changes no input changes neither.
LEMMA InputsStay ==
  ASSUME Inputs' = Inputs
  PROVE  /\ OwedRow' = OwedRow
         /\ \A x : run'[x] = run[x] /\ HasRead(x) => HasRead(x)'
<1>1. /\ OnLeave' = OnLeave /\ WorkedMinutes' = WorkedMinutes
      /\ UNCHANGED <<shifts, assignments, dayOverride, default, holiday, weeklyOff, branch>>
  BY DEF Inputs, roster
<1>2. Assigned(assignments)' = Assigned(assignments) BY <1>1 DEF Assigned
<1>3. OwedRow' = OwedRow BY <1>1, <1>2 DEF OwedRow, Row
<1>4. ASSUME NEW x, run'[x] = run[x], HasRead(x) PROVE HasRead(x)'
  BY <1>1, <1>2, <1>4 DEF HasRead
<1>5. QED BY <1>3, <1>4

\* A step that changes no table changes no input.
LEMMA NoTableNoInput ==
  ASSUME UNCHANGED <<vars, rostervars>>
  PROVE  /\ UNCHANGED <<rows, daily, shifts, assignments, dayOverride, default, holiday, weeklyOff, branch>>
         /\ Assigned(assignments)' = Assigned(assignments)
         /\ OnLeave' = OnLeave /\ WorkedMinutes' = WorkedMinutes /\ Inputs' = Inputs
<1>1. UNCHANGED <<rows, daily, shifts, assignments, dayOverride, default, holiday, weeklyOff, branch>>
  BY DEF vars, rostervars, roster
<1>2. Assigned(assignments)' = Assigned(assignments) BY <1>1 DEF Assigned
<1>3. OnLeave' = OnLeave BY <1>1 DEF OnLeave, Range
<1>4. WorkedMinutes' = WorkedMinutes
  <2>1. Approved' = Approved BY <1>1 DEF Approved
  <2>2. \A o : MinutesAs(o)' = MinutesAs(o) BY <1>1 DEF MinutesAs, Worked
  <2>3. Worked' = Worked BY <1>1 DEF Worked
  <2>4. StatusOf(Newest(Approved))' = StatusOf(Newest(Approved))
    BY <1>1, <2>1 DEF StatusOf, Newest
  <2>5. QED BY <1>3, <2>1, <2>2, <2>3, <2>4 DEF WorkedMinutes
<1>5. Inputs' = Inputs BY <1>1, <1>3, <1>4 DEF Inputs, roster
<1>6. QED BY <1>1, <1>2, <1>3, <1>4, <1>5

\* What overtakes recomputations keeps the invariant.
LEMMA OvertakingKeeps ==
  ASSUME PayablesInv, Overtakes, daily' \in {-1} \cup Minutes
  PROVE  PayablesInv'
<1>1. UNCHANGED <<summary, run>> BY DEF Overtakes
<1>2. CASE Inputs' = Inputs
  <2>1. UNCHANGED <<current, upToDate>> BY <1>2 DEF Overtakes
  <2>2. QED BY <1>1, <1>2, <2>1, InputsStay DEF PayablesInv
<1>3. CASE Inputs' # Inputs
  <2>1. current' = {} /\ upToDate' = FALSE BY <1>3 DEF Overtakes
  <2>2. QED BY <1>1, <2>1 DEF PayablesInv
<1>4. QED BY <1>2, <1>3

\* So does each step of a recomputation.
LEMMA RunKeeps ==
  ASSUME PayablesInv, NEW x \in Runs, UNCHANGED <<vars, rostervars>>,
         RecomputeBegin(x) \/ ReadRoster(x) \/ ReadAttendance(x) \/ StoreSummary(x)
           \/ RecomputeFails(x)
  PROVE  PayablesInv'
<1>1. /\ daily \in {-1} \cup Minutes /\ DOMAIN run = Runs
      /\ \A y \in Runs \cap current : HasRead(y)
      /\ upToDate => summary = OwedRow
  BY DEF PayablesInv
<1>2. /\ UNCHANGED <<rows, daily, shifts, assignments, dayOverride, default, holiday, weeklyOff, branch>>
      /\ Assigned(assignments)' = Assigned(assignments)
      /\ OnLeave' = OnLeave /\ WorkedMinutes' = WorkedMinutes /\ Inputs' = Inputs
  BY NoTableNoInput
<1>3. \A y \in Runs \cap current : run'[y] = run[y] => HasRead(y)' BY <1>1, <1>2, InputsStay
<1>4. OwedRow' = OwedRow BY <1>2, InputsStay
<1>5. ASSUME NEW w, run' = [run EXCEPT ![x] = w]
      PROVE  DOMAIN run' = Runs /\ run'[x] = w /\ \A y \in Runs : y # x => run'[y] = run[y]
  BY <1>1, <1>5
<1>6. CASE RecomputeBegin(x)
  <2> PICK w : w = [at |-> "roster", branch |-> branch] OBVIOUS
  <2>1. run' = [run EXCEPT ![x] = w] /\ current' = current \cup {x} /\ UNCHANGED <<summary, upToDate>>
    BY <1>6 DEF RecomputeBegin
  <2>2. run'[x] = w /\ w.at = "roster" /\ w.branch = branch BY <1>5, <2>1
  <2>3. HasRead(x)' BY <1>2, <2>2 DEF HasRead
  <2>4. \A y \in Runs \cap current' : HasRead(y)' BY <1>3, <1>5, <2>1, <2>3
  <2>5. QED BY <1>1, <1>2, <1>4, <1>5, <2>1, <2>4 DEF PayablesInv
<1>7. CASE ReadRoster(x)
  <2> PICK b : b = run[x].branch OBVIOUS
  <2> PICK w : w = [at |-> "attendance", branch |-> b,
                    holiday |-> b \in holiday, off |-> b \in weeklyOff,
                    default |-> default[b], assigned |-> Assigned(assignments),
                    override |-> dayOverride]
    OBVIOUS
  <2>1. run' = [run EXCEPT ![x] = w] /\ UNCHANGED <<summary, current, upToDate>>
    BY <1>7 DEF ReadRoster
  <2>2. run'[x] = w BY <1>5, <2>1
  <2>3. ASSUME x \in current PROVE HasRead(x)'
    <3>1. b = branch BY <1>1, <2>3 DEF HasRead
    <3>2. QED BY <1>2, <2>2, <3>1 DEF HasRead
  <2>4. \A y \in Runs \cap current' : HasRead(y)' BY <1>3, <1>5, <2>1, <2>3
  <2>5. QED BY <1>1, <1>2, <1>4, <1>5, <2>1, <2>4 DEF PayablesInv
<1>8. CASE ReadAttendance(x)
  <2> PICK read : read = run[x] OBVIOUS
  <2> PICK w :
        w = [at |-> "store", branch |-> read.branch, holiday |-> read.holiday, off |-> read.off,
             default |-> read.default, assigned |-> read.assigned, override |-> read.override,
             leave |-> OnLeave, worked |-> WorkedMinutes]
    OBVIOUS
  <2>1. /\ run' = [run EXCEPT ![x] = w] /\ UNCHANGED <<summary, current, upToDate>>
        /\ run[x].at = "attendance"
    BY <1>8 DEF ReadAttendance
  <2>2. run'[x] = w BY <1>5, <2>1
  <2>3. ASSUME x \in current PROVE HasRead(x)'
    <3>1. HasRead(x) BY <1>1, <2>3
    <3>2. QED BY <1>2, <2>1, <2>2, <3>1 DEF HasRead
  <2>4. \A y \in Runs \cap current' : HasRead(y)' BY <1>3, <1>5, <2>1, <2>3
  <2>5. QED BY <1>1, <1>2, <1>4, <1>5, <2>1, <2>4 DEF PayablesInv
<1>9. CASE StoreSummary(x)
  <2>1. /\ run' = [run EXCEPT ![x] = Working] /\ current' = current \ {x}
        /\ run[x].at = "store" /\ summary' = Row(run[x]) /\ upToDate' = (x \in current)
    BY <1>9 DEF StoreSummary
  <2>2. upToDate' => summary' = OwedRow' BY <1>1, <1>4, <2>1, ReadMakesRow
  <2>3. \A y \in Runs \cap current' : HasRead(y)' BY <1>3, <1>5, <2>1
  <2>4. QED BY <1>1, <1>2, <1>5, <2>1, <2>2, <2>3 DEF PayablesInv
<1>10. CASE RecomputeFails(x)
  <2>1. /\ run' = [run EXCEPT ![x] = Working] /\ current' = current \ {x}
        /\ UNCHANGED <<summary, upToDate>>
    BY <1>10 DEF RecomputeFails
  <2>2. \A y \in Runs \cap current' : HasRead(y)' BY <1>3, <1>5, <2>1
  <2>3. QED BY <1>1, <1>2, <1>4, <1>5, <2>1, <2>2 DEF PayablesInv
<1>11. QED BY <1>6, <1>7, <1>8, <1>9, <1>10

\* Roster and summary together.
THEOREM PayablesInvariance == PayablesSpec => [](RosterInv /\ PayablesInv)
<1>1. PayablesInit => RosterInv /\ PayablesInv
  <2> SUFFICES ASSUME PayablesInit PROVE RosterInv /\ PayablesInv OBVIOUS
  <2>1. RosterInv BY RosterInitInv DEF PayablesInit
  <2>2. PayablesInv BY DEF PayablesInit, PayablesInv, Init
  <2>3. QED BY <2>1, <2>2
<1>2. RosterInv /\ PayablesInv /\ [PayablesNext]_<<vars, rostervars, payables>>
        => RosterInv' /\ PayablesInv'
  <2> SUFFICES ASSUME RosterInv, PayablesInv, [PayablesNext]_<<vars, rostervars, payables>>
               PROVE  RosterInv' /\ PayablesInv'
    OBVIOUS
  <2>1. daily \in {-1} \cup Minutes BY DEF PayablesInv
  <2>2. CASE Next /\ UNCHANGED rostervars /\ Overtakes
    <3>1. daily' \in {-1} \cup Minutes
      BY <2>1, <2>2 DEF Next, SubmitBegin, DecideBegin, CancelMyCorrection, Validate, Lookup,
         InsertRequest, AdoptRequest, StoreCorrection, StoreConflict, LockRequest, Recheck,
         DecideCommit, Rollback, GrantLeave, Work, stored
    <3>2. QED BY <2>2, <3>1, OvertakingKeeps, RosterKeeps
  <2>3. CASE RosterStep /\ UNCHANGED vars /\ Overtakes
    <3>1. daily' \in {-1} \cup Minutes BY <2>1, <2>3 DEF vars
    <3>2. QED BY <2>3, <3>1, OvertakingKeeps, RosterKeeps
  <2>4. CASE \E x \in Runs :
       /\ RecomputeBegin(x) \/ ReadRoster(x) \/ ReadAttendance(x) \/ StoreSummary(x)
            \/ RecomputeFails(x)
       /\ UNCHANGED <<vars, rostervars>>
    <3>1. UNCHANGED rostervars BY <2>4
    <3>2. PICK x \in Runs :
            /\ RecomputeBegin(x) \/ ReadRoster(x) \/ ReadAttendance(x) \/ StoreSummary(x)
                 \/ RecomputeFails(x)
            /\ UNCHANGED <<vars, rostervars>>
      BY <2>4
    <3>3. PayablesInv' BY <3>2, RunKeeps
    <3>4. QED BY <3>1, <3>3, RosterKeeps
  <2>5. CASE UNCHANGED <<vars, rostervars, payables>>
    <3>1. Overtakes
      <4>1. Inputs' = Inputs BY <2>5, NoTableNoInput
      <4>2. QED BY <2>5, <4>1 DEF Overtakes, payables
    <3>2. daily' \in {-1} \cup Minutes BY <2>1, <2>5 DEF vars
    <3>3. QED BY <2>5, <3>1, <3>2, OvertakingKeeps, RosterKeeps
  <2>6. QED BY <2>2, <2>3, <2>4, <2>5 DEF PayablesNext
<1>3. QED BY <1>1, <1>2, PTL DEF PayablesSpec

\* However patches of one template cross, what is stored is a shift that a
\* recomputation can compute.
THEOREM ShiftsStayComputableCorrect == PayablesSpec => []ShiftsStayComputable
<1>1. RosterInv => ShiftsStayComputable
  BY DEF RosterInv, TemplatesCompute, ShiftsStayComputable
<1>2. QED BY PayablesInvariance, <1>1, PTL

\* The strongest of five claims, the last of which is made.
LEMMA StrongestOfFive ==
  ASSUME NEW a, NEW b, NEW c, NEW d, NEW e, NEW none, e # none
  PROVE  Strongest(<<a, b, c, d, e>>, none) =
           IF a # none THEN a ELSE IF b # none THEN b ELSE IF c # none THEN c
           ELSE IF d # none THEN d ELSE e
<1> PICK claims : claims = <<a, b, c, d, e>> OBVIOUS
<1> PICK made : made = {i \in DOMAIN claims : claims[i] # none} OBVIOUS
<1>1. made \subseteq Nat /\ 5 \in made OBVIOUS
<1> PICK m : m = Min(made) OBVIOUS
<1>2. m \in made /\ \A i \in made : m <= i BY <1>1, MinIsLeast
<1>3. Strongest(claims, none) = claims[m] BY <1>1 DEF Strongest
<1>4. /\ DOMAIN claims = 1..5 /\ claims[1] = a /\ claims[2] = b /\ claims[3] = c /\ claims[4] = d
      /\ claims[5] = e
  OBVIOUS
<1>5. /\ a # none => 1 \in made
      /\ b # none => 2 \in made
      /\ c # none => 3 \in made
      /\ d # none => 4 \in made
  BY <1>4
<1>6. m \in {1, 2, 3, 4, 5} BY <1>2, <1>4
<1>7. QED BY <1>2, <1>3, <1>4, <1>5, <1>6

\* The strongest of three claims, if any is made.
LEMMA StrongestOfThree ==
  ASSUME NEW a, NEW b, NEW c, NEW none
  PROVE  Strongest(<<a, b, c>>, none) = IF a # none THEN a ELSE IF b # none THEN b ELSE c
<1> PICK claims : claims = <<a, b, c>> OBVIOUS
<1> PICK made : made = {i \in DOMAIN claims : claims[i] # none} OBVIOUS
<1>1. DOMAIN claims = 1..3 /\ claims[1] = a /\ claims[2] = b /\ claims[3] = c OBVIOUS
<1>2. CASE made = {}
  <2>1. a = none /\ b = none /\ c = none BY <1>1, <1>2
  <2>2. QED BY <1>2, <2>1 DEF Strongest
<1>3. CASE made # {}
  <2> PICK m : m = Min(made) OBVIOUS
  <2>1. made \subseteq Nat BY <1>1
  <2>2. m \in made /\ \A i \in made : m <= i BY <1>3, <2>1, MinIsLeast
  <2>3. Strongest(claims, none) = claims[m] BY <1>3 DEF Strongest
  <2>4. a # none => 1 \in made BY <1>1
  <2>5. b # none => 2 \in made BY <1>1
  <2>6. m \in {1, 2, 3} BY <1>1, <2>2
  <2>7. QED BY <1>1, <2>2, <2>3, <2>4, <2>5, <2>6
<1>4. QED BY <1>2, <1>3

\* The newest of the assignments that start last is the one that is found.
LEMMA AssignedIsLatest ==
  ASSUME RosterInv, NEW own, own = {i \in DOMAIN assignments : Covers(assignments[i], TheDay)},
         own # {}, NEW latest, latest = {i \in own : \A j \in own : assignments[j].from <= assignments[i].from}
  PROVE  Max(latest) \in own /\ Assigned(assignments) = assignments[Max(latest)].shift
<1>1. IsASequence(assignments) /\ \A i \in DOMAIN assignments : assignments[i].from \in Nat
  BY DEF RosterInv, ShiftsAreKnown
<1>2. Len(assignments) \in Nat /\ DOMAIN assignments = 1..Len(assignments)
  BY <1>1 DEF IsASequence
<1>3. own \subseteq DOMAIN assignments /\ own \subseteq Nat /\ \A i \in own : i <= Len(assignments)
  BY <1>2
<1>4. latest # {}
  <2> DEFINE starts == {assignments[i].from : i \in own}
  <2>1. starts \subseteq Nat /\ starts # {} /\ \A n \in starts : n <= TheDay
    BY <1>1, <1>3 DEF Covers
  <2>2. PICK n \in starts : \A k \in starts : k <= n
    <3> HIDE DEF starts
    <3> QED BY <2>1, RosterAssumption, GreatestNumber
  <2>3. PICK i \in own : n = assignments[i].from OBVIOUS
  <2>4. \A j \in own : assignments[j].from <= assignments[i].from BY <2>2, <2>3
  <2>5. QED BY <2>4
<1> PICK m : m = Max(latest) OBVIOUS
<1>5. m \in latest /\ \A i \in latest : i <= m
  <2>1. latest \subseteq Nat /\ \A i \in latest : i <= Len(assignments) BY <1>3
  <2>2. QED BY <1>2, <1>4, <2>1, MaxIsGreatest
<1> DEFINE newest(i) == \A j \in own : \/ assignments[j].from < assignments[i].from
                                       \/ assignments[j].from = assignments[i].from /\ j <= i
<1>6. newest(m)
  <2> SUFFICES ASSUME NEW j \in own
               PROVE  \/ assignments[j].from < assignments[m].from
                      \/ assignments[j].from = assignments[m].from /\ j <= m
    OBVIOUS
  <2>1. assignments[j].from <= assignments[m].from BY <1>5
  <2>2. assignments[j].from \in Nat /\ assignments[m].from \in Nat /\ m \in own BY <1>1, <1>3, <1>5
  <2>3. CASE assignments[j].from = assignments[m].from
    <3>1. \A k \in own : assignments[k].from <= assignments[j].from BY <1>5, <2>3
    <3>2. j \in latest BY <3>1
    <3>3. QED BY <1>5, <2>3, <3>2
  <2>4. QED BY <2>1, <2>2, <2>3
<1>7. \A i \in own : newest(i) => i = m
  <2> SUFFICES ASSUME NEW i \in own, newest(i) PROVE i = m OBVIOUS
  <2>1. m \in own BY <1>5
  <2>2. assignments[i].from \in Nat /\ assignments[m].from \in Nat /\ i \in Nat /\ m \in Nat
    BY <1>1, <1>3, <2>1
  <2>3. /\ \/ assignments[m].from < assignments[i].from
           \/ assignments[m].from = assignments[i].from /\ m <= i
        /\ \/ assignments[i].from < assignments[m].from
           \/ assignments[i].from = assignments[m].from /\ i <= m
    BY <1>6, <2>1
  <2>4. QED BY <2>2, <2>3
<1>8. m \in own BY <1>5
<1>9. (CHOOSE i \in own : newest(i)) = m
  <2> HIDE DEF newest
  <2> QED BY <1>6, <1>7, <1>8
<1>10. Assigned(assignments) = assignments[m].shift BY <1>9 DEF Assigned
<1>11. QED BY <1>8, <1>10

\* A recomputation that begins after the last change and is the last to store
\* leaves what the employee is owed by the data as they are.
THEOREM SummaryIsOwedCorrect == PayablesSpec => []SummaryIsOwed
<1>1. RosterInv /\ PayablesInv => SummaryIsOwed
  <2> SUFFICES ASSUME RosterInv, PayablesInv, upToDate PROVE SummaryIsOwed BY DEF SummaryIsOwed
  <2> PICK r : r = [leave |-> OnLeave, worked |-> WorkedMinutes, branch |-> branch,
                    holiday |-> branch \in holiday, off |-> branch \in weeklyOff,
                    default |-> default[branch], assigned |-> Assigned(assignments),
                    override |-> dayOverride]
    OBVIOUS
  <2>1. summary = Row(r) BY DEF PayablesInv, OwedRow
  <2> PICK day, shift : day = DayType(r.leave, r) /\ shift = ShiftFor(day, r) OBVIOUS
  <2>2. ClaimedType = day
    <3> PICK a, b, c, d :
          /\ a = IF OnLeave THEN "ON_LEAVE" ELSE "none"
          /\ b = IF dayOverride.type \in {"WEEKOFF", "WORKDAY"} THEN dayOverride.type ELSE "none"
          /\ c = IF branch \in holiday THEN "HOLIDAY" ELSE "none"
          /\ d = IF branch \in weeklyOff THEN "WEEKOFF" ELSE "none"
      OBVIOUS
    <3>1. ClaimedType = Strongest(<<a, b, c, d, "WORKDAY">>, "none") BY DEF ClaimedType
    <3>2. ClaimedType = IF a # "none" THEN a ELSE IF b # "none" THEN b
                        ELSE IF c # "none" THEN c ELSE IF d # "none" THEN d ELSE "WORKDAY"
      BY <3>1, StrongestOfFive
    <3>3. day = IF OnLeave THEN "ON_LEAVE"
                ELSE IF dayOverride.type \in {"WEEKOFF", "WORKDAY"} THEN dayOverride.type
                ELSE IF branch \in holiday THEN "HOLIDAY"
                ELSE IF branch \in weeklyOff THEN "WEEKOFF" ELSE "WORKDAY"
      BY DEF DayType
    <3>4. QED BY <3>2, <3>3
  <2>3. ClaimedShift = IF dayOverride.shift # NoShift THEN dayOverride.shift
                       ELSE IF Assigned(assignments) # NoShift THEN Assigned(assignments)
                       ELSE default[branch]
    <3> PICK own, latest :
          /\ own = {i \in DOMAIN assignments : Covers(assignments[i], TheDay)}
          /\ latest = {i \in own : \A j \in own : assignments[j].from <= assignments[i].from}
      OBVIOUS
    <3>1. Assigned(assignments) = IF own = {} THEN NoShift ELSE assignments[Max(latest)].shift
      <4>1. CASE own = {} BY <4>1 DEF Assigned
      <4>2. CASE own # {} BY <4>2, AssignedIsLatest
      <4>3. QED BY <4>1, <4>2
    <3>2. ClaimedShift = Strongest(<<dayOverride.shift, Assigned(assignments), default[branch]>>, NoShift)
      BY <3>1 DEF ClaimedShift
    <3>3. QED BY <3>2, StrongestOfThree
  <2>4. day = "WORKDAY" => shift = ClaimedShift
    BY <2>3 DEF ShiftFor, RosterInv, ShiftsAreKnown
  <2>5. day # "WORKDAY" => shift = NoShift BY DEF ShiftFor
  <2> PICK type, expected :
        /\ type = IF day = "WORKDAY" /\ shift = NoShift THEN "UNSCHEDULED" ELSE day
        /\ expected = IF shift = NoShift THEN 0 ELSE Expected(shifts[shift])
    OBVIOUS
  <2>6. /\ summary.type = type /\ summary.branch = branch
        /\ summary.payable = Payable(type, expected, WorkedMinutes)
    BY <2>1 DEF Row
  <2>7. WorkedMinutes \in Nat
    BY DayAssumption DEF PayablesInv, WorkedMinutes, Worked, MinutesAs
  <2>8. shift # NoShift => expected \in Int
    <3>1. Known(ClaimedShift)
      <4>1. Known(dayOverride.shift) /\ Known(default[branch])
        BY DEF RosterInv, ShiftsAreKnown
      <4>2. Known(Assigned(assignments))
        <5> PICK own, latest :
              /\ own = {i \in DOMAIN assignments : Covers(assignments[i], TheDay)}
              /\ latest = {i \in own : \A j \in own : assignments[j].from <= assignments[i].from}
          OBVIOUS
        <5>1. CASE own = {} BY <5>1 DEF Assigned, Known
        <5>2. CASE own # {}
          <6>1. Max(latest) \in own /\ Assigned(assignments) = assignments[Max(latest)].shift
            BY <5>2, AssignedIsLatest
          <6>2. QED BY <6>1 DEF RosterInv, ShiftsAreKnown
        <5>3. QED BY <5>1, <5>2
      <4>3. QED BY <2>3, <4>1, <4>2
    <3>2. shift # NoShift => shifts[shift] \in Shapes
      BY <2>4, <2>5, <3>1 DEF Known, RosterInv, TemplatesCompute
    <3>3. QED BY <3>2, RosterAssumption DEF Shapes, Expected, Duration
  <2> PICK working, minutes :
        /\ working = (day = "WORKDAY" /\ shift # NoShift)
        /\ minutes = {WorkedMinutes} \cup (IF working /\ expected > 0 THEN {expected} ELSE {})
    OBVIOUS
  <2>9. working => summary.payable = Min(minutes)
    <3> SUFFICES ASSUME working PROVE summary.payable = Min(minutes) OBVIOUS
    <3>1. type = "WORKDAY" /\ expected \in Int BY <2>8
    <3>2. minutes \subseteq Nat /\ minutes # {} BY <2>7, <3>1
    <3>3. Min(minutes) \in minutes /\ \A m \in minutes : Min(minutes) <= m BY <3>2, MinIsLeast
    <3>4. Payable(type, expected, WorkedMinutes) =
            IF WorkedMinutes <= 0 THEN 0
            ELSE IF expected > 0 /\ expected < WorkedMinutes THEN expected ELSE WorkedMinutes
      BY <3>1 DEF Payable
    <3>5. QED BY <2>6, <2>7, <3>1, <3>3, <3>4, SMTT(30)
  <2>10. ~working => summary.payable = 0
    <3>1. ~working => type # "WORKDAY" OBVIOUS
    <3>2. QED BY <2>6, <3>1 DEF Payable
  <2>11. day = "WORKDAY" /\ shift # NoShift => expected = Expected(shifts[ClaimedShift])
    BY <2>4
  <2>12. QED BY <2>2, <2>4, <2>5, <2>6, <2>9, <2>10, <2>11 DEF SummaryIsOwed
<1>2. QED BY PayablesInvariance, <1>1, PTL

=============================================================================
