---------------------------- MODULE Organization ----------------------------
(***************************************************************************)
(* Who reports to whom (backend/app/domains/hr_core/service.py, repo.py    *)
(* and repo_mss.py, and the view v_employee_current_employment), under the *)
(* workflow engine, which sends a MANAGER step to the user linked to the   *)
(* manager of the requester.                                               *)
(*                                                                         *)
(* An employment is open until it has an end date.  change_employment      *)
(* reads the current one, and checks for a reporting cycle, without a      *)
(* lock, and nothing in the database keeps a second one from staying open. *)
(***************************************************************************)
EXTENDS WorkflowEngine, FiniteSetsExt

CONSTANTS Employees, NoEmployee,
          HrSessions,     \* database sessions of HR
          Dates,          \* start dates of employments
          MaxDepth,       \* how far recursive queries follow managers: 50 in the code
          MaxEmployments  \* bound: rows of employee_employment

ASSUME OrganizationAssumption ==
  /\ Dates \subseteq Nat /\ MaxDepth \in Nat \ {0} /\ MaxEmployments \in Nat
  /\ NoEmployee \notin Employees

VARIABLES employments, \* rows of employee_employment, in the order they were written
          staff,       \* [Employees -> status, "NONE" when there is no such employee]
          links,       \* [Employees -> Users or NoUser]: employee_user_links
          changing     \* [HrSessions -> a change of employment under way, or Idle]

org == <<employments, staff, links, changing>>
engine == <<members, steps, active, creating, reqs, outbox>>
orgvars == <<vars, org>>

Idle == [row |-> 0]
Hired == {e \in Employees : staff[e] # "NONE"}

-----------------------------------------------------------------------------
(* What is read.                                                            *)

Open(es, e) == {k \in DOMAIN es : es[k].employee = e /\ es[k].open}

\* is_primary first, then the latest start_date: two rows may tie.
Best(es, e) ==
  {k \in Open(es, e) : \A j \in Open(es, e) :
     \/ es[k].primary /\ ~es[j].primary
     \/ es[k].primary = es[j].primary /\ es[j].from <= es[k].from}

\* get_current_employment and the queries of repo_mss break a tie by id, which
\* is random.
Current(es, e) ==
  LET best == Best(es, e)
  IN  IF best = {} THEN 0
      ELSE Max({k \in best : \A j \in best : es[j].id <= es[k].id})

\* Mutant: every open employment counts.
AllLines(es) ==
  {<<es[k].employee, es[k].manager>> : k \in {k \in DOMAIN es : es[k].open}}

\* The common table ce of repo_mss: who has a current employment, under whom.
ReportingLines(es) ==
  {<<e, es[Current(es, e)].manager>> : e \in {e \in Employees : Current(es, e) # 0}}

\* _resolve_manager_user_id: the view v_employee_current_employment does not
\* break a tie, so its row may be the first or the last; a manager without a
\* user is none.
ManagerUser(es, ls, u, first) ==
  LET rows == UNION {Best(es, e) : e \in {e \in Employees : ls[e] = u}}
      boss == IF rows = {} THEN NoEmployee
              ELSE es[IF first THEN Min(rows) ELSE Max(rows)].manager
  IN  IF boss = NoEmployee THEN NoUser ELSE ls[boss]

ManagerMap(es, ls, first) == [u \in Requesters |-> ManagerUser(es, ls, u, first)]

\* list_team_directory: the levels below somebody, one by one.
Levels(lines, a) ==
  LET level[n \in 1..MaxDepth] ==
        LET above == IF n = 1 THEN {a} ELSE level[n - 1]
        IN  {l[1] : l \in {l \in lines : l[2] \in above}}
  IN  level

Listed(lines, a) == LET levels == Levels(lines, a) IN UNION {levels[n] : n \in 1..MaxDepth}

\* The same common table, written once more.
SubtreeLines(es) == ReportingLines(es)

\* is_in_manager_subtree: up from the target, employment by employment.
InSubtree(lines, a, e) ==
  LET chain[n \in 1..MaxDepth] ==
        LET managers == IF n = 1 THEN {e} ELSE {l[2] : l \in chain[n - 1]}
        IN  {l \in lines : l[1] \in managers}
  IN  \E n \in 1..MaxDepth : \E l \in chain[n] : l[2] = a

\* validate_manager_constraints looks along all open employments.
Chain(es, m) ==
  LET above[n \in 1..MaxDepth] ==
        IF n = 1 THEN {m}
        ELSE UNION {{es[k].manager : k \in Open(es, x)} : x \in above[n - 1]}
  IN  UNION {{x \in above[n] : Open(es, x) # {}} : n \in 1..MaxDepth}

ManagerAllowed(es, e, m) ==
  m # NoEmployee => m # e /\ m \in Hired /\ e \notin Chain(es, m)

-----------------------------------------------------------------------------
(* What HR does.                                                            *)

Employment(e, m, d, primary) ==
  [employee |-> e, manager |-> m, from |-> d, primary |-> primary, open |-> TRUE,
   id |-> 0]

\* create_employee, in one transaction.
CreateEmployee(e, m, d, primary) ==
  /\ e \notin Hired /\ ManagerAllowed(employments, e, m)
  /\ staff' = [staff EXCEPT ![e] = "ACTIVE"]
  /\ employments' = Append(employments, Employment(e, m, d, primary))
  /\ UNCHANGED <<links, changing, engine>>

\* patch_employee: nobody is TERMINATED without a termination date.
PatchStatus(e) ==
  /\ e \in Hired
  /\ \E st \in {"ACTIVE", "INACTIVE", "TERMINATED"} \ {staff[e]} :
       staff' = [staff EXCEPT ![e] = st]
  /\ UNCHANGED <<employments, links, changing, engine>>

\* change_employment: reads and checks.
ChangeBegin(s, e, m, d) ==
  LET k == Current(employments, e) IN
  /\ changing[s] = Idle /\ k # 0 /\ d > employments[k].from
  /\ ManagerAllowed(employments, e, m)
  /\ changing' = [changing EXCEPT ![s] = [row |-> k, to |-> Employment(e, m, d, TRUE)]]
  /\ UNCHANGED <<employments, staff, links, engine>>

Ties(row) == {k \in Open(employments, row.employee) : employments[k].from = row.from}

\* Closes the employment it read, whatever became of it, and opens the new one,
\* whose id comes after, or before, those of the rows it ties with.
ChangeCommit(s) ==
  /\ changing[s] # Idle
  /\ \E id \in IF Ties(changing[s].to) = {} THEN {0} ELSE {-1, 1} :
       employments' = Append([employments EXCEPT ![changing[s].row].open = FALSE],
                             [changing[s].to EXCEPT !.id = id])
  /\ changing' = [changing EXCEPT ![s] = Idle]
  /\ UNCHANGED <<staff, links, engine>>

ChangeFails(s) ==
  /\ changing[s] # Idle
  /\ changing' = [changing EXCEPT ![s] = Idle]
  /\ UNCHANGED <<employments, staff, links, engine>>

\* link_user: whatever its checks saw, the unique keys of employee_user_links
\* have the last word.
LinkUser(e, u) ==
  /\ e \in Hired /\ links[e] = NoUser /\ \A x \in Employees : links[x] # u
  /\ links' = [links EXCEPT ![e] = u]
  /\ outbox' = outbox \cup {<<"EMPLOYEE_LINKED", 0, e, u>>}
  /\ UNCHANGED <<employments, staff, changing, members, steps, active, creating, reqs>>

-----------------------------------------------------------------------------
OrgInit ==
  /\ employments = <<>>
  /\ staff = [e \in Employees |-> "NONE"]
  /\ links = [e \in Employees |-> NoUser]
  /\ changing = [s \in HrSessions |-> Idle]
  /\ Init /\ manager = ManagerMap(employments, links, TRUE)

\* Bound: nothing new begins once the table is full.
Room ==
  Len(employments) + Cardinality({s \in HrSessions : changing[s] # Idle}) < MaxEmployments

OrgStep ==
  /\ \/ /\ Room
        /\ \E e \in Employees :
             \/ PatchStatus(e)
             \/ \E m \in Employees \cup {NoEmployee}, d \in Dates :
                  \/ \E primary \in BOOLEAN : CreateEmployee(e, m, d, primary)
                  \/ \E s \in HrSessions : ChangeBegin(s, e, m, d)
     \/ \E e \in Employees, u \in Users : LinkUser(e, u)
     \/ \E s \in HrSessions : ChangeCommit(s) \/ ChangeFails(s)
  /\ manager' \in {ManagerMap(employments', links', first) : first \in BOOLEAN}

OrgNext == OrgStep \/ (EngineStep /\ UNCHANGED <<manager, org>>)

OrgSpec == OrgInit /\ [][OrgNext]_orgvars

-----------------------------------------------------------------------------
(* Properties.                                                              *)

TwoAtOnce(e) == Cardinality(Best(employments, e)) > 1

\* One and the same team, whoever asks: a manager may open exactly the profiles
\* her team list shows, also when racing changes left an employee with two open
\* employments or closed a circle of managers; nobody is listed twice who is
\* not below such a circle; and what her employees submit comes to her, unless
\* two changes of one employee for the same day were made at once.
TeamIsWhoYouMaySee ==
  LET lines == ReportingLines(employments)
      up == SubtreeLines(employments)
      sees == {l \in Employees \X Employees : InSubtree(up, l[1], l[2])}
  IN  /\ \A a, e \in Employees : e \in Listed(lines, a) <=> <<a, e>> \in sees
      /\ \A a \in Employees : \A n, k \in 1..MaxDepth :
           n < k /\ Levels(lines, a)[n] \cap Levels(lines, a)[k] # {} =>
             \E x \in Employees : <<x, x>> \in sees
      /\ \A e \in Employees :
           links[e] \in Requesters /\ manager[links[e]] # NoUser /\ ~TwoAtOnce(e) =>
             \E m \in Employees : links[m] = manager[links[e]] /\ <<e, m>> \in lines

=============================================================================
