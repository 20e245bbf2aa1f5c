---------------------------- MODULE ProfileChange ----------------------------
(***************************************************************************)
(* Requests to change an employee's profile                                *)
(* (backend/app/domains/profile_change): a change set is validated and     *)
(* normalised when it is submitted, kept in hr_core.profile_change_requests*)
(* and applied to the hr_core tables when its workflow request is approved,*)
(* while HR and the employee go on editing the profile directly            *)
(* (backend/app/domains/hr_core/service.py).                               *)
(***************************************************************************)
EXTENDS ApprovalRequests, FiniteSets, SequencesExt

CONSTANTS Keys,              \* idempotency keys clients choose
          Phones,            \* phone numbers, NoPhone among them
          BankLists,         \* lists of bank accounts, each told by its is_primary flag
          MaxProfileRequests,\* bound: profile change requests
          MaxEdits           \* bound: changes of the profile that take effect

VARIABLES changes,   \* hr_core.profile_change_requests, in order of creation
          profile,   \* [Employees -> persons and employee_bank_accounts]
          effects    \* history: what changed the profile, in order

NoKey == "none"
NoPhone == "-"

Primaries(accounts) == {i \in DOMAIN accounts : accounts[i]}

ChangeSets == [phone : Phones] \cup [bank : BankLists] \cup [phone : Phones, bank : BankLists]

\* Change sets normalize_change_set refuses: two primary accounts.
Acceptable(raw) == "bank" \in DOMAIN raw => Cardinality(Primaries(raw["bank"])) <= 1

\* Without a primary account the first becomes primary.
Normalize(raw) ==
  IF "bank" \in DOMAIN raw /\ raw["bank"] # <<>> /\ Primaries(raw["bank"]) = {}
  THEN [raw EXCEPT !["bank"][1] = TRUE]
  ELSE raw

ProfileInit ==
  /\ changes = <<>>
  /\ profile = [e \in Employees |-> [phone |-> NoPhone, bank |-> <<>>]]
  /\ effects = <<>>

-----------------------------------------------------------------------------

SameKey(e, key) == {i \in DOMAIN changes : changes[i].emp = e /\ changes[i].key = key}

\* With a key that was used the existing request is returned, or refused if
\* its change set differs: nothing changes.
CreateChange(e, key, raw) ==
  /\ Acceptable(raw)
  /\ key = NoKey \/ SameKey(e, key) = {}
  /\ Len(changes) < MaxProfileRequests
  /\ Open("profile", Len(changes) + 1)
  /\ changes' = Append(changes, [emp |-> e, key |-> key, set |-> Normalize(raw),
                                 status |-> "PENDING", request |-> NewId])
  /\ UNCHANGED <<profile, effects>>

\* Mutant: a field the change set lacks is cleared.
PatchClears(p, set) ==
  [f \in DOMAIN p |-> IF f \in DOMAIN set THEN set[f] ELSE IF f = "phone" THEN NoPhone ELSE <<>>]

\* _apply_change_set: the fields present are replaced, all of their rows.
Patch(p, set) == [f \in DOMAIN p |-> IF f \in DOMAIN set THEN set[f] ELSE p[f]]

\* _finalize.  A request that is not PENDING raises, which rolls the
\* decision back with it.
Finalize(i, verdict) ==
  LET c == changes[i] IN
  /\ c.status = "PENDING"
  /\ changes' = [changes EXCEPT ![i].status = verdict]
  /\ IF verdict = "APPROVED"
     THEN /\ profile' = [profile EXCEPT ![c.emp] = Patch(@, c.set)]
          /\ effects' = Append(effects, [emp |-> c.emp, set |-> c.set])
     ELSE UNCHANGED <<profile, effects>>

DecideChange(r, verdict) ==
  /\ requests[r].kind = "profile"
  /\ verdict = "APPROVED" => Len(effects) < MaxEdits
  /\ Settle(r, verdict)
  /\ Finalize(requests[r].ref, verdict)

\* Mutant: only the row of the request is cancelled.
CancelRowOnly(i) ==
  /\ changes[i].status = "PENDING"
  /\ Finalize(i, "CANCELED")
  /\ UNCHANGED requests

\* The employee withdraws the request: an unlocked look at the row, then the
\* workflow cancel, which decides.
CancelMine(i) ==
  /\ changes[i].status = "PENDING"
  /\ Settle(changes[i].request, "CANCELED")
  /\ Finalize(i, "CANCELED")

\* patch_employee by HR, ess_patch_profile by the employee.
EditDirectly(e, phone) ==
  /\ Len(effects) < MaxEdits
  /\ profile[e].phone # phone
  /\ profile' = [profile EXCEPT ![e].phone = phone]
  /\ effects' = Append(effects, [emp |-> e, set |-> [phone |-> phone]])
  /\ UNCHANGED <<changes, requests>>

-----------------------------------------------------------------------------
(* Properties.                                                              *)

\* A request of the profile and its workflow request tell the same story:
\* none is left PENDING behind a closed request, or closed under an open one.
ChangesMirrorRequests ==
  \A i \in DOMAIN changes :
    LET r == requests[changes[i].request] IN
    r.kind = "profile" /\ r.ref = i /\ r.status = changes[i].status

\* The last value written to a field of an employee; what it starts as if none was.
LastSet(e, f) ==
  LET own == {k \in DOMAIN effects : effects[k].emp = e /\ f \in DOMAIN effects[k].set} IN
  IF own # {} THEN effects[Max(own)].set[f] ELSE IF f = "phone" THEN NoPhone ELSE <<>>

\* A profile is what the approved change sets and the direct edits left, in
\* the order they took effect and field by field: an approval long after the
\* request overwrites the fields it names and no other.
ProfileReplaysEffects ==
  \A e \in Employees : \A f \in DOMAIN profile[e] : profile[e][f] = LastSet(e, f)

=============================================================================
