--------------------------- MODULE WorkflowEngine ---------------------------
(***************************************************************************)
(* The workflow engine, backend/app/domains/workflow/service.py:           *)
(* definitions, the approval chain a request is created with, decisions,   *)
(* comments, the event log and the notifications put in the outbox.        *)
(*                                                                         *)
(* Decisions lock the request (SELECT ... FOR UPDATE) and are one action   *)
(* each; LeaveTx has the locks.  Creation is two: it reads the definition  *)
(* and looks its idempotency key up, and inserts later.  A domain hook     *)
(* that refuses (AppError) rolls the whole decision back, which leaves     *)
(* everything as it was.                                                   *)
(***************************************************************************)
EXTENDS Integers, Sequences, SequencesExt

CONSTANTS Users, NoUser,
          Admins,          \* users with workflow:request:admin
          Requesters,      \* users linked to an employee
          Managers,        \* functions [Requesters -> Users or NoUser] they may have
          Roles, NoRole,
          Memberships,     \* sets of users a role may be held by
          Keys, NoKey,     \* idempotency keys; NoKey when none is sent
          Bodies,          \* type, entity, subject and payload of a submission
          SubjectOf,       \* [Bodies -> Users or NoUser]: user of the subject employee
          Definitions,
          ScopeOf,         \* [Definitions -> {"company", "tenant"}]
          StepLists,       \* step lists an admin may give a definition
          Sessions,        \* database sessions that create requests
          NoCreate,
          MaxRequests,     \* bound: requests created
          MaxRemarks       \* bound: comments and attachments on a request

\* A definition step: MANAGER with a fallback role, ROLE or USER.
StepSpecs == [mode : {"MANAGER", "ROLE", "USER"},
              role : Roles \cup {NoRole}, user : Users \cup {NoUser}]

ASSUME EngineAssumption ==
  /\ NoUser \notin Users /\ NoRole \notin Roles /\ NoKey \notin Keys
  /\ Admins \subseteq Users /\ Requesters \subseteq Users
  /\ Managers \subseteq [Requesters -> Users \cup {NoUser}]
  /\ SubjectOf \in [Bodies -> Users \cup {NoUser}]
  /\ ScopeOf \in [Definitions -> {"company", "tenant"}]
  /\ Memberships \subseteq SUBSET Users /\ StepLists \subseteq Seq(StepSpecs)
  /\ MaxRequests \in Nat /\ MaxRemarks \in Nat

VARIABLES manager,     \* [Requesters -> the user of the requester's manager]
          members,     \* [Roles -> SUBSET Users]: iam.user_roles
          steps,       \* [Definitions -> step list]: workflow_definition_steps
          active,      \* definitions with is_active
          creating,    \* [Sessions -> a submission being created, or NoCreate]
          reqs,        \* requests, with their steps, assignees and events
          outbox       \* notification_outbox, as the set of its dedupe keys

vars == <<manager, members, steps, active, creating, reqs, outbox>>
definitions == <<steps, active>>

Ids == 1..Len(reqs)

Terminal == {"approved", "rejected", "cancelled"}

-----------------------------------------------------------------------------
Init ==
  /\ manager \in Managers
  /\ members \in [Roles -> Memberships]
  /\ steps = [d \in Definitions |-> <<>>]
  /\ active = {}
  /\ creating = [s \in Sessions |-> NoCreate]
  /\ reqs = <<>>
  /\ outbox = {}

-----------------------------------------------------------------------------
(* Definitions.  create_definition makes an inactive one without steps.     *)

ReplaceSteps(d) ==
  /\ \E l \in StepLists : steps' = [steps EXCEPT ![d] = l]
  /\ UNCHANGED <<manager, members, active, creating, reqs, outbox>>

\* Deactivates the others of the same scope; the step list is not looked at.
Activate(d) ==
  /\ active' = {e \in active : ScopeOf[e] # ScopeOf[d]} \cup {d}
  /\ UNCHANGED <<manager, members, steps, creating, reqs, outbox>>

\* IAM changes who holds a role, whatever requests are open.
ChangeMembers(role) ==
  /\ \E m \in Memberships : m # members[role] /\ members' = [members EXCEPT ![role] = m]
  /\ UNCHANGED <<manager, steps, active, creating, reqs, outbox>>

\* HR changes who somebody reports to, or links a user to an employee.
ChangeManager ==
  /\ \E m \in Managers : m # manager /\ manager' = m
  /\ UNCHANGED <<members, steps, active, creating, reqs, outbox>>

ActiveIn(scope) == {d \in active : ScopeOf[d] = scope}

\* A company's own definition comes before the tenant's.
ActiveDefinitions == IF ActiveIn("company") # {} THEN ActiveIn("company") ELSE ActiveIn("tenant")

-----------------------------------------------------------------------------
(* Creation.                                                                *)

RoleMembers(role) == IF role = NoRole THEN {} ELSE members[role]

\* The users a step is assigned to; empty is an error.
Resolve(u, s) ==
  IF s.mode = "USER" THEN {s.user}
  ELSE IF s.mode = "ROLE" \/ manager[u] = NoUser THEN RoleMembers(s.role)
  ELSE {manager[u]}

Stored(u, k) == k # NoKey /\ \E r \in Ids : reqs[r].creator = u /\ reqs[r].key = k

\* Mutant: the dedupe key of an assignment leaves the step out.
AssignedOnce(r, i, chain) == {<<"step.assigned", r, 1, u>> : u \in chain[i]}

Assigned(r, i, chain) == {<<"step.assigned", r, i, u>> : u \in chain[i]}

Finalized(r, outcome, users) == {<<"request.finalized", r, outcome, u>> : u \in users}

\* A stored key answers with the stored request, or with a conflict if
\* anything about the submission differs: neither changes anything.
CreateCheck(s, u, k, b) ==
  /\ creating[s] = NoCreate
  /\ ~Stored(u, k)
  /\ \E d \in ActiveDefinitions :
       /\ steps[d] # <<>>
       /\ creating' = [creating EXCEPT ![s] =
                         [user |-> u, key |-> k, body |-> b, steps |-> steps[d]]]
  /\ UNCHANGED <<manager, members, steps, active, reqs, outbox>>

CreateEnd(s) == creating' = [creating EXCEPT ![s] = NoCreate]

NewRequest(c, chain) ==
  [creator |-> c.user, key |-> c.key, body |-> c.body, chain |-> chain,
   status |-> "submitted", cur |-> 1, decisions |-> <<>>, remarks |-> 0,
   events |-> << <<"REQUEST_CREATED">>, <<"STEP_ASSIGNED", 1>> >>]

\* The chain is resolved now, from the definition read in CreateCheck.
ChainOf(c) == [i \in DOMAIN c.steps |-> Resolve(c.user, c.steps[i])]

InsertRequest(s, chain) ==
  /\ Len(reqs) < MaxRequests
  /\ reqs' = Append(reqs, NewRequest(creating[s], chain))
  /\ outbox' = outbox \cup Assigned(Len(reqs'), 1, chain)
  /\ CreateEnd(s)
  /\ UNCHANGED <<manager, members, steps, active>>

CreateInsert(s) ==
  /\ creating[s] # NoCreate
  /\ ~Stored(creating[s].user, creating[s].key)
  /\ \A i \in DOMAIN creating[s].steps : ChainOf(creating[s])[i] # {}
  /\ InsertRequest(s, ChainOf(creating[s]))

\* IntegrityError on the idempotency index, workflow.manager_missing,
\* workflow.no_assignees, or the caller fails after this call: rolled back.
CreateFails(s) ==
  /\ creating[s] # NoCreate
  /\ CreateEnd(s)
  /\ UNCHANGED <<manager, members, steps, active, reqs, outbox>>

-----------------------------------------------------------------------------
(* Decisions.                                                               *)

\* Mutant: an assignee of any step may decide the current one.
MayDecideAnyStep(u, r) ==
  reqs[r].status = "submitted" /\ \E i \in DOMAIN reqs[r].chain : u \in reqs[r].chain[i]

\* The current step is undecided, the request submitted, the user assigned.
MayDecide(u, r) == reqs[r].status = "submitted" /\ u \in reqs[r].chain[reqs[r].cur]

Decided(u, r, outcome) == Append(reqs[r].decisions, [by |-> u, outcome |-> outcome])

\* Mutant: the assignment of the next step is not logged.
ApprovalEventsUnassigned(i) == << <<"STEP_APPROVED", i>> >>

ApprovalEvents(i) == << <<"STEP_APPROVED", i>>, <<"STEP_ASSIGNED", i + 1>> >>

ApproveNext(u, r) ==
  /\ MayDecide(u, r)
  /\ reqs[r].cur < Len(reqs[r].chain)
  /\ reqs' = [reqs EXCEPT ![r].decisions = Decided(u, r, "approved"),
                          ![r].cur = @ + 1,
                          ![r].events = @ \o ApprovalEvents(reqs[r].cur)]
  /\ outbox' = outbox \cup Assigned(r, reqs[r].cur + 1, reqs[r].chain)
  /\ UNCHANGED <<manager, members, steps, active, creating>>

\* The last approval, or any rejection, finalizes the request, tells its
\* creator and runs the domain's hook.
Finalize(u, r, outcome, stepEvent, event) ==
  /\ MayDecide(u, r)
  /\ reqs' = [reqs EXCEPT ![r].decisions = Decided(u, r, outcome),
                          ![r].status = outcome,
                          ![r].events = @ \o << <<stepEvent, reqs[r].cur>>, <<event>> >>]
  /\ outbox' = outbox \cup Finalized(r, outcome, {reqs[r].creator})
  /\ UNCHANGED <<manager, members, steps, active, creating>>

ApproveLast(u, r) ==
  /\ reqs[r].cur = Len(reqs[r].chain)
  /\ Finalize(u, r, "approved", "STEP_APPROVED", "REQUEST_APPROVED")

Reject(u, r) == Finalize(u, r, "rejected", "STEP_REJECTED", "REQUEST_REJECTED")

MayCancel(u, r) == u \in Admins \cup {reqs[r].creator} /\ reqs[r].status = "submitted"

\* cancel_request: the creator or an admin; the current assignees are told.
Cancel(u, r) ==
  /\ MayCancel(u, r)
  /\ reqs' = [reqs EXCEPT ![r].status = "cancelled",
                          ![r].events = Append(@, <<"REQUEST_CANCELLED">>)]
  /\ outbox' = outbox \cup Finalized(r, "cancelled", reqs[r].chain[reqs[r].cur])
  /\ UNCHANGED <<manager, members, steps, active, creating>>

-----------------------------------------------------------------------------
(* Comments and attachments, possible in every status.                      *)

IsParticipant(u, r) ==
  \/ u \in Admins
  \/ u = reqs[r].creator
  \/ u = SubjectOf[reqs[r].body]
  \/ \E i \in DOMAIN reqs[r].chain : u \in reqs[r].chain[i]

Remark(u, r, event) ==
  /\ IsParticipant(u, r)
  /\ reqs[r].remarks < MaxRemarks
  /\ reqs' = [reqs EXCEPT ![r].remarks = @ + 1, ![r].events = Append(@, <<event>>)]
  /\ UNCHANGED <<manager, members, steps, active, creating>>

\* The requester's comment goes to the current assignees, any other to the
\* requester.
AddComment(u, r) ==
  LET told == IF u = reqs[r].creator THEN reqs[r].chain[reqs[r].cur] \ {u}
              ELSE {reqs[r].creator}
  IN  /\ Remark(u, r, "COMMENT_ADDED")
      /\ outbox' = outbox \cup {<<"comment.added", r, reqs[r].remarks, v>> : v \in told}

AddAttachment(u, r) == Remark(u, r, "ATTACHMENT_ADDED") /\ UNCHANGED outbox

-----------------------------------------------------------------------------
\* What the engine and its users do.
EngineStep ==
  \/ \E d \in Definitions : ReplaceSteps(d) \/ Activate(d)
  \/ \E role \in Roles : ChangeMembers(role)
  \/ \E s \in Sessions :
       \/ \E u \in Requesters, k \in Keys \cup {NoKey}, b \in Bodies : CreateCheck(s, u, k, b)
       \/ CreateInsert(s) \/ CreateFails(s)
  \/ \E u \in Users, r \in Ids :
       \/ ApproveNext(u, r) \/ ApproveLast(u, r) \/ Reject(u, r) \/ Cancel(u, r)
       \/ AddComment(u, r) \/ AddAttachment(u, r)

Next == EngineStep \/ ChangeManager

Spec == Init /\ [][Next]_vars

-----------------------------------------------------------------------------
(* Properties.                                                              *)

Events == {<<"REQUEST_CREATED">>, <<"REQUEST_APPROVED">>, <<"REQUEST_REJECTED">>,
           <<"REQUEST_CANCELLED">>, <<"COMMENT_ADDED">>, <<"ATTACHMENT_ADDED">>}
             \cup ({"STEP_ASSIGNED", "STEP_APPROVED", "STEP_REJECTED"} \X (Nat \ {0}))

\* However role membership, managers and definitions change while it is
\* open, a request is decided along the chain it was created with: the steps
\* up to the current one, in order, each by a user assigned to it then, and
\* its status is what those decisions amount to.  While it is submitted there
\* is somebody who can decide it, also when a role has lost its last member
\* since the definition was activated.
ChainOfCommand ==
  \A r \in Ids :
    LET q == reqs[r]
        n == Len(q.decisions)
    IN  /\ \A i \in 1..n : q.decisions[i].by \in q.chain[i]
        /\ \A i \in 1..(n - 1) : q.decisions[i].outcome = "approved"
        /\ q.status \in {"submitted", "cancelled"} =>
             q.cur = n + 1 /\ (n > 0 => q.decisions[n].outcome = "approved")
        /\ q.status = "submitted" => q.chain[q.cur] # {}
        /\ q.status = "approved" => n = Len(q.chain) /\ q.decisions[n].outcome = "approved"
        /\ q.status = "rejected" => n = q.cur /\ q.decisions[n].outcome = "rejected"

\* Exactly the assignees of the steps reached so far have been told of them,
\* exactly the creator of the outcome of a decided request, and the assignees
\* of the step a cancelled request stood at of its cancellation.
RightPeopleTold ==
  \A r \in Ids :
    LET q == reqs[r] IN
    /\ {n \in outbox : n[1] = "step.assigned" /\ n[2] = r} =
         UNION {{<<"step.assigned", r, i, u>> : u \in q.chain[i]} : i \in 1..q.cur}
    /\ {n \in outbox : n[1] = "request.finalized" /\ n[2] = r} =
         {<<"request.finalized", r, q.status, u>> :
            u \in CASE q.status = "submitted" -> {}
                   [] q.status = "cancelled" -> q.chain[q.cur]
                   [] OTHER -> {q.creator}}

\* What one event tells of a request's status and current step.
Replay(state, e) ==
  CASE e[1] = "REQUEST_CREATED" -> <<"submitted", 0>>
    [] e[1] = "STEP_ASSIGNED" -> <<state[1], e[2]>>
    [] e[1] = "REQUEST_APPROVED" -> <<"approved", state[2]>>
    [] e[1] = "REQUEST_REJECTED" -> <<"rejected", state[2]>>
    [] e[1] = "REQUEST_CANCELLED" -> <<"cancelled", state[2]>>
    [] OTHER -> state

\* The event log tells the whole story: replaying it gives the status and the
\* current step the request has.
LogReplays ==
  \A r \in Ids :
    FoldLeft(Replay, <<"none", 0>>, reqs[r].events) = <<reqs[r].status, reqs[r].cur>>

=============================================================================
