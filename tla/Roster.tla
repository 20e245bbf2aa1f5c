-------------------------------- MODULE Roster --------------------------------
(***************************************************************************)
(* The roster of one employee (backend/app/domains/roster): shift          *)
(* templates of branches, effective-dated assignments, the override of one *)
(* day, branch defaults; with the calendar of each branch                  *)
(* (domains/leave/service.py) and the branch the employee works for        *)
(* (domains/hr_core/service.py).                                           *)
(*                                                                         *)
(* Patching a template and creating an assignment read before they write,  *)
(* without a lock, and take two steps of an admin session; everything else *)
(* is one statement of consequence.                                        *)
(***************************************************************************)
EXTENDS Integers, FiniteSets, Sequences

CONSTANTS Shifts,          \* ids of shift templates
          Branches,
          BranchOf,        \* [Shifts -> Branches]
          Templates,       \* shapes an admin may ask for, sensible or not
          Usual,           \* the shape of the templates there are at first
          DayLength,       \* minutes of a day
          Ranges,          \* [from, to] of assignments, to = Forever when NULL
          Forever,
          TheDay,          \* the day the calendar and the override are about
          Admins,          \* sessions that patch templates or assign shifts
          MaxEdits         \* bound: committed changes of the roster

VARIABLES shifts,       \* shift_templates: a function from those that exist
          assignments,  \* shift_assignments, in order of creation
          dayOverride,  \* roster_overrides of TheDay, NoOverride without a row
          default,      \* [Branches -> default shift, NoShift without a row]
          holiday,      \* branches for which TheDay is a holiday
          weeklyOff,    \* branches whose week is off on TheDay
          branch,       \* the branch of the employee's current employment
          admin,        \* where each admin session stands
          edits         \* history: number of committed changes

calendar == <<holiday, weeklyOff>>
roster == <<shifts, assignments, dayOverride, default, holiday, weeklyOff, branch>>
rostervars == <<roster, admin, edits>>

NoShift == "no shift"
NoOverride == [type |-> "none", shift |-> NoShift]
Working == [at |-> "idle"]

-----------------------------------------------------------------------------
(* Shift templates.                                                         *)

\* A shift that ends before it starts ends on the next day.
Duration(tpl) == IF tpl.end <= tpl.start THEN tpl.end + DayLength - tpl.start
                 ELSE tpl.end - tpl.start

\* compute_shift_minutes refuses anything else.
Computable(tpl) == tpl.start # tpl.end /\ tpl.break \in 0..Duration(tpl)

\* The templates there are have passed it, those asked for need not.
ASSUME RosterAssumption ==
  /\ Templates \cup {Usual} \subseteq [start : Nat, end : Nat, break : Int]
  /\ Computable(Usual)
  /\ DayLength \in Nat /\ TheDay \in Nat /\ Ranges \subseteq Nat \X Nat

Expected(tpl) == Duration(tpl) - tpl.break

Edit == edits < MaxEdits /\ edits' = edits + 1

CreateShift(s, tpl) ==
  /\ s \notin DOMAIN shifts
  /\ Computable(tpl)
  /\ shifts' = [x \in DOMAIN shifts \cup {s} |-> IF x = s THEN tpl ELSE shifts[x]]
  /\ Edit
  /\ UNCHANGED <<assignments, dayOverride, default, calendar, branch, admin>>

\* The template is read, merged with the patch and validated.
PatchLook(a, s, tpl, fields) ==
  /\ admin[a] = Working /\ s \in DOMAIN shifts /\ edits < MaxEdits
  /\ fields # {} /\ \A f \in fields : tpl[f] # shifts[s][f]
  /\ LET merged == [f \in {"start", "end", "break"} |->
                      IF f \in fields THEN tpl[f] ELSE shifts[s][f]]
     IN  /\ Computable(merged)
         /\ admin' = [admin EXCEPT ![a] =
                        [at |-> "patch", shift |-> s, merged |-> merged, fields |-> fields]]
  /\ UNCHANGED <<roster, edits>>

\* Mutant: only the fields of the patch are written.
PatchFieldsOnly(a) ==
  /\ admin[a].at = "patch"
  /\ shifts' = [shifts EXCEPT ![admin[a].shift] =
                  [f \in DOMAIN @ |-> IF f \in admin[a].fields THEN admin[a].merged[f] ELSE @[f]]]
  /\ admin' = [admin EXCEPT ![a] = Working]
  /\ Edit
  /\ UNCHANGED <<assignments, dayOverride, default, calendar, branch>>

\* The UPDATE writes every column of the merged template: what another admin
\* changed since it was read is lost.
PatchCommit(a) ==
  /\ admin[a].at = "patch"
  /\ shifts' = [shifts EXCEPT ![admin[a].shift] = admin[a].merged]
  /\ admin' = [admin EXCEPT ![a] = Working]
  /\ Edit
  /\ UNCHANGED <<assignments, dayOverride, default, calendar, branch>>

-----------------------------------------------------------------------------
(* Assignments, override, default.                                          *)

OfMyBranch(s) == s \in DOMAIN shifts /\ BranchOf[s] = branch

Covers(a, d) == a.from <= d /\ d <= a.to

Overlap(a, b) == ~(a.to < b.from \/ b.to < a.from)

\* The unlocked look for an overlapping assignment.
AssignLook(a, s, range) ==
  LET new == [from |-> range[1], to |-> range[2], shift |-> s] IN
  /\ admin[a] = Working /\ OfMyBranch(s) /\ edits < MaxEdits
  /\ \A i \in DOMAIN assignments : ~Overlap(assignments[i], new)
  /\ admin' = [admin EXCEPT ![a] = [at |-> "assign", new |-> new]]
  /\ UNCHANGED <<roster, edits>>

\* One assignment without an end, says the unique index.
OpenEnded(as) == {i \in DOMAIN as : as[i].to = Forever}

AssignCommit(a) ==
  LET stored == Append(assignments, admin[a].new) IN
  /\ admin[a].at = "assign"
  /\ Cardinality(OpenEnded(stored)) <= 1
  /\ assignments' = stored
  /\ admin' = [admin EXCEPT ![a] = Working]
  /\ Edit
  /\ UNCHANGED <<shifts, dayOverride, default, calendar, branch>>

\* Refused, rolled back or dead.
GiveUp(a) ==
  /\ admin[a] # Working
  /\ admin' = [admin EXCEPT ![a] = Working]
  /\ UNCHANGED <<roster, edits>>

OverrideDay(type, s) ==
  /\ type = "WEEKOFF" => s = NoShift
  /\ type = "SHIFT_CHANGE" => s # NoShift
  /\ s # NoShift => OfMyBranch(s)
  /\ dayOverride' = [type |-> type, shift |-> s]
  /\ dayOverride' # dayOverride
  /\ Edit
  /\ UNCHANGED <<shifts, assignments, default, calendar, branch, admin>>

SetDefault(b, s) ==
  /\ s \in DOMAIN shifts /\ BranchOf[s] = b /\ default[b] # s
  /\ default' = [default EXCEPT ![b] = s]
  /\ Edit
  /\ UNCHANGED <<shifts, assignments, dayOverride, calendar, branch, admin>>

-----------------------------------------------------------------------------
(* The calendar and the employment.                                         *)

PutWeeklyOff(b, off) ==
  /\ off # (b \in weeklyOff)
  /\ weeklyOff' = IF off THEN weeklyOff \cup {b} ELSE weeklyOff \ {b}
  /\ Edit
  /\ UNCHANGED <<shifts, assignments, dayOverride, default, holiday, branch, admin>>

\* Of one branch, or of all.
CreateHoliday(bs) ==
  /\ ~(bs \subseteq holiday)
  /\ holiday' = holiday \cup bs
  /\ Edit
  /\ UNCHANGED <<shifts, assignments, dayOverride, default, weeklyOff, branch, admin>>

\* change_employment.  Assignments and overrides of the old branch stay.
ChangeEmployment(b) ==
  /\ b # branch
  /\ branch' = b
  /\ Edit
  /\ UNCHANGED <<shifts, assignments, dayOverride, default, calendar, admin>>

-----------------------------------------------------------------------------
\* Any templates may exist before we start to look.
RosterInit ==
  /\ \E S \in SUBSET Shifts : shifts = [s \in S |-> Usual]
  /\ assignments = <<>>
  /\ dayOverride = NoOverride
  /\ default = [b \in Branches |-> NoShift]
  /\ holiday = {} /\ weeklyOff = {}
  /\ branch \in Branches
  /\ admin = [a \in Admins |-> Working]
  /\ edits = 0

RosterStep ==
  \/ \E s \in Shifts, tpl \in Templates : CreateShift(s, tpl)
  \/ \E a \in Admins :
       \/ \E s \in Shifts, tpl \in Templates, fields \in SUBSET {"start", "end", "break"} :
            PatchLook(a, s, tpl, fields)
       \/ \E s \in Shifts, range \in Ranges : AssignLook(a, s, range)
       \/ PatchCommit(a) \/ AssignCommit(a) \/ GiveUp(a)
  \/ \E type \in {"WEEKOFF", "WORKDAY", "SHIFT_CHANGE"}, s \in Shifts \cup {NoShift} :
       OverrideDay(type, s)
  \/ \E b \in Branches :
       \/ ChangeEmployment(b)
       \/ \E s \in Shifts : SetDefault(b, s)
       \/ \E off \in BOOLEAN : PutWeeklyOff(b, off)
  \/ \E bs \in {{b} : b \in Branches} \cup {Branches} : CreateHoliday(bs)

-----------------------------------------------------------------------------
(* Properties.                                                              *)

\* However patches of one template cross, what is stored is a shift: a
\* recomputation, which covers a whole branch and stops at the first template
\* it cannot compute, never meets one.
ShiftsStayComputable == \A s \in DOMAIN shifts : Computable(shifts[s])

=============================================================================
