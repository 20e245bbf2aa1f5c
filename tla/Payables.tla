------------------------------- MODULE Payables -------------------------------
(***************************************************************************)
(* The payable summary of one employee's day                               *)
(* (backend/app/domains/attendance/service_payable.py): what a             *)
(* recomputation makes of the roster (Roster) and of the attendance, leave *)
(* and corrections of the day (AttendanceDay).                             *)
(*                                                                         *)
(* Recomputations run on demand, from the employee's own page, for a team, *)
(* by an admin and in a worker, with no lock: each reads the tables one    *)
(* after the other while all of them change, and replaces the summary      *)
(* whatever it says.                                                       *)
(***************************************************************************)
EXTENDS AttendanceDay, Roster

CONSTANTS Runs             \* sessions that recompute

VARIABLES summary,      \* payable_day_summaries of the day, NoSummary without a row
          run,          \* what each recomputation has read so far
          current,      \* history: recomputations begun since the last change
          upToDate      \* history: the last one to store was one of these

payables == <<summary, run, current, upToDate>>

NoSummary == [type |-> "none"]

\* Everything a recomputation reads.
Inputs == <<OnLeave, WorkedMinutes, roster>>

-----------------------------------------------------------------------------
(* The rules.                                                               *)

\* Mutant: a holiday comes before what the roster says of the day.
HolidayFirst(leave, r) ==
  IF leave THEN "ON_LEAVE"
  ELSE IF r.holiday THEN "HOLIDAY"
  ELSE IF r.override.type \in {"WEEKOFF", "WORKDAY"} THEN r.override.type
  ELSE IF r.off THEN "WEEKOFF" ELSE "WORKDAY"

\* _resolve_day_type
DayType(leave, r) ==
  IF leave THEN "ON_LEAVE"
  ELSE IF r.override.type \in {"WEEKOFF", "WORKDAY"} THEN r.override.type
  ELSE IF r.holiday THEN "HOLIDAY"
  ELSE IF r.off THEN "WEEKOFF" ELSE "WORKDAY"

\* _assignment_shift_for_day: rows come by effective_from, then by
\* created_at, newest first, and the first that covers the day is taken.
Assigned(as) ==
  LET covering == {i \in DOMAIN as : Covers(as[i], TheDay)}
      newest(i) == \A j \in covering :
                     as[j].from < as[i].from \/ (as[j].from = as[i].from /\ j <= i)
  IN  IF covering = {} THEN NoShift ELSE as[CHOOSE i \in covering : newest(i)].shift

\* _resolve_shift_for_day
ShiftFor(type, r) ==
  IF type # "WORKDAY" THEN NoShift
  ELSE IF r.override.type \in {"SHIFT_CHANGE", "WORKDAY"} /\ r.override.shift # NoShift
       THEN r.override.shift
  ELSE IF r.assigned # NoShift THEN r.assigned ELSE r.default

\* _compute_presence_and_payable
Payable(type, expected, worked) ==
  IF type # "WORKDAY" \/ worked <= 0 THEN 0
  ELSE IF expected > 0 /\ expected < worked THEN expected ELSE worked

Presence(type, worked) ==
  IF type # "WORKDAY" THEN "N_A" ELSE IF worked <= 0 THEN "ABSENT" ELSE "PRESENT"

\* The row compute_range makes of what it has read: a working day without a
\* shift is UNSCHEDULED.
Row(r) ==
  LET day == DayType(r.leave, r)
      shift == ShiftFor(day, r)
      type == IF day = "WORKDAY" /\ shift = NoShift THEN "UNSCHEDULED" ELSE day
      expected == IF shift = NoShift THEN 0 ELSE Expected(shifts[shift])
  IN  [type |-> type, branch |-> r.branch, shift |-> shift, expected |-> expected,
       worked |-> r.worked, presence |-> Presence(type, r.worked),
       payable |-> Payable(type, expected, r.worked)]

-----------------------------------------------------------------------------
(* compute_range, read by read.                                             *)

\* The branch of the employee, for a branch's recomputation that of the list
\* it made itself.
RecomputeBegin(x) ==
  /\ run[x] = Working
  /\ run' = [run EXCEPT ![x] = [at |-> "roster", branch |-> branch]]
  /\ current' = current \cup {x}
  /\ UNCHANGED <<summary, upToDate>>

\* Calendars, defaults, assignments and overrides.
ReadRoster(x) ==
  LET b == run[x].branch IN
  /\ run[x].at = "roster"
  /\ run' = [run EXCEPT ![x] =
               [at |-> "attendance", branch |-> b,
                holiday |-> b \in holiday, off |-> b \in weeklyOff,
                default |-> default[b], assigned |-> Assigned(assignments),
                override |-> dayOverride]]
  /\ UNCHANGED <<summary, current, upToDate>>

\* The daily rows, leave and corrections.
ReadAttendance(x) ==
  LET read == run[x] IN
  /\ run[x].at = "attendance"
  /\ run' = [run EXCEPT ![x] =
               [at |-> "store", branch |-> read.branch, holiday |-> read.holiday, off |-> read.off,
                default |-> read.default, assigned |-> read.assigned, override |-> read.override,
                leave |-> OnLeave, worked |-> WorkedMinutes]]
  /\ UNCHANGED <<summary, current, upToDate>>

\* The templates are read, and the summary is inserted or replaced.
StoreSummary(x) ==
  /\ run[x].at = "store"
  /\ summary' = Row(run[x])
  /\ upToDate' = (x \in current)
  /\ run' = [run EXCEPT ![x] = Working]
  /\ current' = current \ {x}

RecomputeFails(x) ==
  /\ run[x] # Working
  /\ run' = [run EXCEPT ![x] = Working]
  /\ current' = current \ {x}
  /\ UNCHANGED <<summary, upToDate>>

-----------------------------------------------------------------------------
PayablesInit ==
  /\ Init /\ RosterInit
  /\ summary = NoSummary
  /\ run = [x \in Runs |-> Working]
  /\ current = {}
  /\ upToDate = FALSE

\* What changes an input leaves every recomputation behind.
Overtakes ==
  /\ UNCHANGED <<summary, run>>
  /\ IF Inputs' = Inputs THEN UNCHANGED <<current, upToDate>>
     ELSE current' = {} /\ upToDate' = FALSE

PayablesNext ==
  \/ Next /\ UNCHANGED rostervars /\ Overtakes
  \/ RosterStep /\ UNCHANGED vars /\ Overtakes
  \/ \E x \in Runs :
       /\ RecomputeBegin(x) \/ ReadRoster(x) \/ ReadAttendance(x) \/ StoreSummary(x)
            \/ RecomputeFails(x)
       /\ UNCHANGED <<vars, rostervars>>

PayablesSpec == PayablesInit /\ [][PayablesNext]_<<vars, rostervars, payables>>

-----------------------------------------------------------------------------
(* Properties.                                                              *)

\* Of claims, the strongest first, the first that is made.
Strongest(claims, none) ==
  LET made == {i \in DOMAIN claims : claims[i] # none}
  IN  IF made = {} THEN none ELSE claims[Min(made)]

\* What the day is.
ClaimedType ==
  Strongest(<<IF OnLeave THEN "ON_LEAVE" ELSE "none",
              IF dayOverride.type \in {"WEEKOFF", "WORKDAY"} THEN dayOverride.type ELSE "none",
              IF branch \in holiday THEN "HOLIDAY" ELSE "none",
              IF branch \in weeklyOff THEN "WEEKOFF" ELSE "none",
              "WORKDAY">>, "none")

\* The shift of a working day: that of the assignment which starts last, and of
\* those the newest.
ClaimedShift ==
  LET own == {i \in DOMAIN assignments : Covers(assignments[i], TheDay)}
      latest == {i \in own : \A j \in own : assignments[j].from <= assignments[i].from}
  IN  Strongest(<<dayOverride.shift,
                  IF own = {} THEN NoShift ELSE assignments[Max(latest)].shift,
                  default[branch]>>, NoShift)

\* A recomputation that begins after the last change and is the last to
\* store leaves what the employee is owed by the data as they are, whatever
\* ran beside it: minutes worked, up to those of the shift, on a working day
\* that has one.  (One that began earlier and stores later undoes it.)
SummaryIsOwed ==
  upToDate =>
    LET unscheduled == ClaimedType = "WORKDAY" /\ ClaimedShift = NoShift
        working == ClaimedType = "WORKDAY" /\ ~unscheduled
        minutes == {WorkedMinutes} \cup
                     (IF working /\ Expected(shifts[ClaimedShift]) > 0
                      THEN {Expected(shifts[ClaimedShift])} ELSE {})
    IN  /\ summary.type = IF unscheduled THEN "UNSCHEDULED" ELSE ClaimedType
        /\ summary.branch = branch
        /\ summary.payable = IF working THEN Min(minutes) ELSE 0

=============================================================================
