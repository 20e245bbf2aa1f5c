--------------------------- MODULE AttendanceDay ---------------------------
(***************************************************************************)
(* One day of one employee: the attendance corrections the employee asks   *)
(* for, the leave that is granted, and what the day then counts as         *)
(* (backend/app/domains/attendance/service.py, with the part of            *)
(* workflow/service.py it calls and that calls it back).                   *)
(*                                                                         *)
(* Each API request is one transaction; its writes are in the action that  *)
(* commits it.  A correction that is approved becomes a row of             *)
(* day_overrides, stamped with now(), which PostgreSQL takes when the      *)
(* transaction starts; of several the newest counts, and leave before      *)
(* all.  Only the order of the stamps matters: rows holds the overrides in *)
(* that order, and a running approval in the place its row will have.      *)
(***************************************************************************)
EXTENDS Integers, SequencesExt

CONSTANTS Corrections,   \* submissions; retries of one share a key
          None,
          OverrideOf,    \* [Corrections -> status asked for]
          KeyOf, NoKey,  \* [Corrections -> idempotency key or NoKey]
          Leaves,        \* leave requests that cover the day
          Minutes,       \* minutes the day may have been worked
          Tx             \* database sessions

OverrideStatuses == {"PRESENT_OVERRIDE", "ABSENT_OVERRIDE", "WFH", "ON_DUTY"}

ASSUME DayAssumption ==
  /\ OverrideOf \in [Corrections -> OverrideStatuses]
  /\ None \notin Corrections
  /\ Leaves \cap (Corrections \cup Tx) = {} /\ Corrections \cap Tx = {}
  /\ Minutes \subseteq Nat

VARIABLES status,    \* [Corrections -> status, "NONE" before it is stored]
          wf,        \* [Corrections -> status of the request about it]
          linked,    \* [Corrections -> whose request is its workflow_request_id]
          rows,      \* day_overrides of the day and running approvals, oldest first
          daily,     \* total_minutes of attendance_daily, -1 without a row
          pc         \* where each transaction stands

vars == <<status, wf, linked, rows, daily, pc>>
stored == <<status, wf, linked, daily>>

Idle == [at |-> "idle"]

SameKey(c, d) == c # d /\ KeyOf[c] # NoKey /\ KeyOf[c] = KeyOf[d]

\* Where the overrides are, and those of corrections.
Overrides == {i \in DOMAIN rows : rows[i] \notin Tx}
Approved == {i \in DOMAIN rows : rows[i] \in Corrections}
OnLeave == Range(rows) \cap Leaves # {}

Without(rs, t) ==
  IF t \in Range(rs) THEN RemoveAt(rs, CHOOSE i \in DOMAIN rs : rs[i] = t) ELSE rs

Goto(t, l) == pc' = [pc EXCEPT ![t].at = l] /\ UNCHANGED rows
End(t) == pc' = [pc EXCEPT ![t] = Idle] /\ rows' = Without(rows, t)
GotoIf(t, ok, l) == IF ok THEN Goto(t, l) ELSE End(t)
Begin(t, l, c, kind) ==
  /\ pc[t] = Idle
  /\ pc' = [pc EXCEPT ![t] = [at |-> l, cor |-> c, kind |-> kind, req |-> c]]
  /\ rows' = IF kind = "approved" THEN Append(rows, t) ELSE rows

Init ==
  /\ status = [c \in Corrections |-> "NONE"]
  /\ wf = [c \in Corrections |-> "none"]
  /\ linked = [c \in Corrections |-> None]
  /\ rows = <<>>
  /\ daily \in {-1} \cup Minutes
  /\ pc = [t \in Tx |-> Idle]

-----------------------------------------------------------------------------
(* Who holds which lock.                                                    *)

\* _decide and cancel_request lock the request and its type, a row all
\* corrections share.
Decides(t) == pc[t] # Idle /\ pc[t].at \in {"recheck", "commit"}

\* A new request takes a KEY SHARE of its type, and reserves its key.
Creates(t) == pc[t] # Idle /\ pc[t].at = "store" /\ pc[t].req = pc[t].cor

-----------------------------------------------------------------------------
(* create_my_correction.                                                    *)

\* A stored key answers with the correction stored under it.
SubmitBegin(t, c) ==
  /\ status[c] = "NONE"
  /\ ~\E u \in Tx : pc[u] # Idle /\ pc[u].cor = c
  /\ \A d \in Corrections : SameKey(c, d) => status[d] = "NONE"
  /\ Begin(t, "validate", c, "submit")
  /\ UNCHANGED stored

\* validate_no_leave_conflict and validate_pending_unique_day.
Validate(t) ==
  /\ pc[t].at = "validate"
  /\ GotoIf(t, ~OnLeave /\ \A d \in Corrections : status[d] # "PENDING", "lookup")
  /\ UNCHANGED stored

\* create_request looks its key up.  A request found is about another
\* correction, since each submission draws a new id: a conflict.
Lookup(t) ==
  /\ pc[t].at = "lookup"
  /\ GotoIf(t, \A d \in Corrections : SameKey(pc[t].cor, d) => wf[d] = "none", "insert")
  /\ UNCHANGED stored

InsertRequest(t) ==
  /\ pc[t].at = "insert"
  /\ \A u \in Tx : ~Decides(u) /\ ~(Creates(u) /\ SameKey(pc[u].cor, pc[t].cor))
  /\ \A d \in Corrections : SameKey(pc[t].cor, d) => wf[d] = "none"
  /\ Goto(t, "store")
  /\ UNCHANGED stored

\* The key was committed since it was looked up: everything is rolled back,
\* a new transaction starts, and the stored request is returned if its
\* payload is the same.
AdoptRequest(t) ==
  /\ pc[t].at = "insert"
  /\ \E d \in Corrections :
       /\ SameKey(pc[t].cor, d) /\ wf[d] # "none"
       /\ IF OverrideOf[d] = OverrideOf[pc[t].cor]
          THEN pc' = [pc EXCEPT ![t].at = "store", ![t].req = d] /\ UNCHANGED rows
          ELSE End(t)
  /\ UNCHANGED stored

\* Mutant: no unique index on (tenant, employee, idempotency_key).
KeyTakenNever(c) == FALSE

\* uq_attendance_corrections_idempotency
KeyTaken(c) == \E d \in Corrections : SameKey(c, d) /\ status[d] # "NONE"

\* Mutant: no unique index on the PENDING correction of a day.
DayTakenNever == FALSE

\* uq_attendance_corrections_pending_day
DayTaken == \E d \in Corrections : status[d] = "PENDING"

\* The correction is inserted, and committed with the request if it is new.
StoreCorrection(t) ==
  LET c == pc[t].cor IN
  /\ pc[t].at = "store" /\ ~KeyTaken(c) /\ ~DayTaken
  /\ status' = [status EXCEPT ![c] = "PENDING"]
  /\ linked' = [linked EXCEPT ![c] = pc[t].req]
  /\ wf' = IF pc[t].req = c THEN [wf EXCEPT ![c] = "submitted"] ELSE wf
  /\ End(t)
  /\ UNCHANGED daily

\* IntegrityError: rolled back, and answered with the stored correction of
\* that key or with pending_exists.
StoreConflict(t) ==
  /\ pc[t].at = "store" /\ (KeyTaken(pc[t].cor) \/ DayTaken)
  /\ End(t)
  /\ UNCHANGED stored

-----------------------------------------------------------------------------
(* Decisions: the workflow engine and the hooks of corrections.             *)

\* POST /workflow/requests/{id}/approve, /reject or /cancel.
DecideBegin(t, c) ==
  /\ wf[c] # "none"
  /\ \E k \in {"approved", "rejected", "cancelled"} : Begin(t, "lock", c, k)
  /\ UNCHANGED stored

\* The status is read without a lock, and the request it links cancelled.
CancelMyCorrection(t, c) ==
  /\ status[c] = "PENDING"
  /\ Begin(t, "lock", linked[c], "cancelled")
  /\ UNCHANGED stored

LockRequest(t) ==
  /\ pc[t].at = "lock"
  /\ \A u \in Tx : ~Decides(u) /\ ~Creates(u)
  /\ GotoIf(t, wf[pc[t].cor] = "submitted",
            IF pc[t].kind = "approved" THEN "recheck" ELSE "commit")
  /\ UNCHANGED stored

\* on_workflow_approved looks for leave once more.
Recheck(t) ==
  /\ pc[t].at = "recheck"
  /\ GotoIf(t, ~(status[pc[t].cor] = "PENDING" /\ OnLeave), "commit")
  /\ UNCHANGED stored

Outcome == [approved |-> "APPROVED", rejected |-> "REJECTED", cancelled |-> "CANCELED"]

\* Mutant: one override of a correction per day, not per source.
TakeEffectOncePerDay(t, c) ==
  IF Range(rows) \cap Corrections = {}
  THEN [i \in DOMAIN rows |-> IF rows[i] = t THEN c ELSE rows[i]]
  ELSE Without(rows, t)

\* The override of a correction takes the place of its approval.
TakeEffect(t, c) == [i \in DOMAIN rows |-> IF rows[i] = t THEN c ELSE rows[i]]

\* A correction that is not PENDING any more is left alone.
DecideCommit(t) ==
  LET c == pc[t].cor IN
  /\ pc[t].at = "commit"
  /\ wf' = [wf EXCEPT ![c] = pc[t].kind]
  /\ IF status[c] = "PENDING"
     THEN /\ status' = [status EXCEPT ![c] = Outcome[pc[t].kind]]
          /\ pc' = [pc EXCEPT ![t] = Idle]
          /\ rows' = TakeEffect(t, c)
     ELSE UNCHANGED status /\ End(t)
  /\ UNCHANGED <<linked, daily>>

\* An error, a crash, a lost connection.
Rollback(t) ==
  /\ pc[t] # Idle
  /\ End(t)
  /\ UNCHANGED stored

-----------------------------------------------------------------------------
(* The rest of the system, as far as the day is concerned.                  *)

\* Mutant: the same leave granted twice, without the unique source.
GrantLeaveTwice(l) ==
  /\ \E i \in 1..Len(rows) + 1 : rows' = InsertAt(rows, i, l)
  /\ UNCHANGED <<stored, pc>>

\* LeaveService.on_workflow_approved commits an ON_LEAVE override; it knows
\* nothing of corrections and locks none of their rows.  Its transaction
\* may have started before those of others that committed first.
GrantLeave(l) ==
  /\ l \notin Range(rows)
  /\ \E i \in 1..Len(rows) + 1 : rows' = InsertAt(rows, i, l)
  /\ UNCHANGED <<stored, pc>>

\* A punch writes the daily row.
Work ==
  /\ daily' \in Minutes \ {daily}
  /\ UNCHANGED <<status, wf, linked, rows, pc>>

Next ==
  \/ \E t \in Tx :
       \/ \E c \in Corrections :
            SubmitBegin(t, c) \/ DecideBegin(t, c) \/ CancelMyCorrection(t, c)
       \/ Validate(t) \/ Lookup(t) \/ InsertRequest(t) \/ AdoptRequest(t)
       \/ StoreCorrection(t) \/ StoreConflict(t)
       \/ LockRequest(t) \/ Recheck(t) \/ DecideCommit(t) \/ Rollback(t)
  \/ \E l \in Leaves : GrantLeave(l)
  \/ Work

Spec == Init /\ [][Next]_vars

-----------------------------------------------------------------------------
(* What the day counts as, for four readers.                                *)

StatusOf(o) == IF o \in Leaves THEN "ON_LEAVE" ELSE OverrideOf[o]
Worked == IF daily = -1 THEN 0 ELSE daily
MinutesAs(st) == IF st = "ABSENT_OVERRIDE" THEN 0 ELSE Worked
BaseStatus == IF daily = -1 THEN "ABSENT" ELSE "PRESENT"

Newest(places) == rows[Max(places)]

\* get_my_days sorts the overrides into leave and corrections.
DayView ==
  LET corrections == {i \in Overrides : rows[i] \notin Leaves} IN
  IF corrections # Overrides THEN <<"ON_LEAVE", 0>>
  ELSE IF corrections = {} THEN <<BaseStatus, Worked>>
  ELSE LET st == StatusOf(Newest(corrections)) IN <<st, MinutesAs(st)>>

\* get_punch_state
PunchState ==
  IF \E i \in Overrides : StatusOf(rows[i]) = "ON_LEAVE" THEN <<"ON_LEAVE", 0>>
  ELSE IF Overrides = {} THEN <<BaseStatus, Worked>>
  ELSE LET st == StatusOf(Newest(Overrides)) IN <<st, MinutesAs(st)>>

\* _load_day_overrides and _resolve_worked_minutes_effective of the payable
\* summary.
WorkedMinutes ==
  IF OnLeave THEN 0
  ELSE IF Approved = {} THEN Worked ELSE MinutesAs(StatusOf(Newest(Approved)))

\* list_attendance_daily counts who was present in a branch.
CountedPresent ==
  /\ ~OnLeave
  /\ IF Approved = {} THEN daily # -1
     ELSE StatusOf(Newest(Approved)) \in {"PRESENT_OVERRIDE", "WFH", "ON_DUTY"}

-----------------------------------------------------------------------------
(* Properties.                                                              *)

Statuses == {"PENDING"} \cup Range(Outcome)

TypeOK ==
  /\ status \in [Corrections -> {"NONE"} \cup Statuses]
  /\ wf \in [Corrections -> {"none", "submitted"} \cup DOMAIN Outcome]
  /\ linked \in [Corrections -> Corrections \cup {None}]
  /\ rows \in Seq(Corrections \cup Leaves \cup Tx) /\ IsInjective(rows)
  /\ daily \in {-1} \cup Minutes
  /\ pc \in [Tx -> {Idle} \cup
       [at : {"validate", "lookup", "insert", "store", "lock", "recheck", "commit"},
        cor : Corrections, req : Corrections, kind : {"submit"} \cup DOMAIN Outcome]]

\* A correction and its workflow request agree: a stored correction is
\* linked to the request about itself, is pending while that is open and has
\* its outcome afterwards.
StatusMirrors ==
  \A c \in Corrections :
    /\ (status[c] = "NONE") = (wf[c] = "none")
    /\ status[c] # "NONE" => linked[c] = c
    /\ (status[c] = "PENDING") = (wf[c] = "submitted")
    /\ \A k \in DOMAIN Outcome : (status[c] = Outcome[k]) = (wf[c] = k)

\* The correction that is approved last is the one that counts, in the day
\* view, the punch state, the payable summary and the branch's presence
\* alike, unless the day is one of leave: leave that commits while an
\* approval is on its way wins.
LatestApprovalCounts ==
  [][\A c \in Corrections :
       status[c] # "APPROVED" /\ status'[c] = "APPROVED" =>
         /\ DayView' = IF OnLeave' THEN <<"ON_LEAVE", 0>>
                       ELSE <<OverrideOf[c], MinutesAs(OverrideOf[c])>>
         /\ PunchState' = DayView'
         /\ WorkedMinutes' = DayView'[2]
         /\ CountedPresent' =
              (DayView'[1] \notin {"ON_LEAVE", "ABSENT", "ABSENT_OVERRIDE"})]_vars

=============================================================================
