--------------------------- MODULE MCOrganization ----------------------------
(***************************************************************************)
(* An instance of Organization and its workflow engine: three employees    *)
(* are hired, linked and moved about.  Where the engine runs, ann has a    *)
(* manager and bob has none, so that a MANAGER step takes its fallback     *)
(* role; pay is a company definition and std one of the tenant; requests   *)
(* are about bob.                                                          *)
(***************************************************************************)
EXTENDS Organization

CONSTANTS ann, bob, mia, HR, k1, std, pay

mcManagers == [Requesters -> Users \cup {NoUser}]
mcSubject == [b \in Bodies |-> bob]
mcScope == [d \in Definitions |-> IF d = pay THEN "company" ELSE "tenant"]

Step(m, r, u) == [mode |-> m, role |-> r, user |-> u]
mcLists == { <<Step("MANAGER", HR, NoUser), Step("ROLE", HR, NoUser)>>,
             <<Step("MANAGER", NoRole, NoUser), Step("USER", NoRole, bob)>> }

\* HR may have nobody, only the requester without a manager, or two members.
mcMemberships == { {}, {bob}, {bob, mia} }

mcEmployees == 1..3
mcDates == 1..3

\* Bounds.  The organization moves while the engine rests, and the other way
\* round: all they share is the manager, which is read in one step.  Employees
\* are hired in turn, on the first day, each perhaps under the one before, and
\* linked in turn; the first may leave or have an employment that is not
\* primary; then they are moved, each to a manager.
mcEngineRests == active = {} /\ creating = [s \in Sessions |-> NoCreate]
                 /\ reqs = <<>> /\ steps = [d \in Definitions |-> <<>>]

\* Where the engine runs, ann has been moved to bob and back to mia, and no
\* further employment fits.
mcMoved ==
  << Employment(1, NoEmployee, 1, TRUE),
     [Employment(2, 1, 1, TRUE) EXCEPT !.open = FALSE],
     Employment(3, NoEmployee, 1, TRUE),
     [Employment(2, 3, 2, TRUE) EXCEPT !.open = FALSE],
     Employment(2, 1, 3, TRUE) >>

mcLinked == [e \in Employees |-> <<mia, ann, bob>>[e]]
mcAllActive == [e \in Employees |-> "ACTIVE"]

mcSettled ==
  /\ staff = mcAllActive /\ employments = mcMoved /\ links = mcLinked
  /\ \A s \in HrSessions : changing[s] = Idle

mcOrgSmall ==
  /\ mcEngineRests
  /\ Hired \in {1..n : n \in 0..3}
  /\ {e \in Employees : links[e] # NoUser} \in {1..n : n \in 0..3}
  /\ \A e \in Employees : links[e] \in {NoUser, <<mia, ann, bob>>[e]}
  /\ links[1] # NoUser => Hired = Employees
  /\ \A e \in {2, 3} : staff[e] \in {"NONE", "ACTIVE"}
  /\ \A k \in DOMAIN employments \cap (1..3) :
       /\ employments[k].from = 1 /\ (k > 1 => employments[k].primary)
       /\ employments[k].manager \in {NoEmployee, <<0, 1, 2>>[k]}
  /\ (\E s \in HrSessions : changing[s] # Idle) \/ Len(employments) > 3 =>
       links[3] # NoUser /\ staff[1] = "ACTIVE"
  /\ \A s \in HrSessions : changing[s] = Idle \/ changing[s].to.manager # NoEmployee

mcSmall == mcSettled \/ mcOrgSmall

=============================================================================
