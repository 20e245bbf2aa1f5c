-------------------------- MODULE ApprovalRequests --------------------------
(***************************************************************************)
(* What the workflow engine (backend/app/domains/workflow/service.py)      *)
(* promises the domains that use it, without its definitions, steps and    *)
(* assignees (WorkflowEngine models those): a request is opened for one    *)
(* entity, and is decided or cancelled once, in the transaction that runs  *)
(* the domain's terminal hook.                                             *)
(***************************************************************************)
EXTENDS Naturals, Sequences

CONSTANTS Employees,
          MaxRequests    \* bound: workflow requests opened

VARIABLE requests   \* workflow.requests, in order of creation

Verdicts == {"APPROVED", "REJECTED", "CANCELED"}

Request == [kind : {"document", "profile"}, ref : Nat, status : {"PENDING"} \cup Verdicts]

RequestsOf(kind, ref) ==
  {r \in DOMAIN requests : requests[r].kind = kind /\ requests[r].ref = ref}

IsOpen(r) == requests[r].status = "PENDING"

\* The request the next create_request inserts.
NewId == Len(requests) + 1

Open(kind, ref) ==
  /\ Len(requests) < MaxRequests
  /\ requests' = Append(requests, [kind |-> kind, ref |-> ref, status |-> "PENDING"])

Settle(r, verdict) ==
  /\ IsOpen(r)
  /\ requests' = [requests EXCEPT ![r].status = verdict]

=============================================================================
