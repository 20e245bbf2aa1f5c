---------------------------- MODULE PayrollItems ----------------------------
(***************************************************************************)
(* What a payrun pays: the compensations and the salary structure that     *)
(* administrators set up, the payable days of attendance, and the items    *)
(* that a payrun computes from them                                        *)
(* (backend/app/domains/payroll/service_compensations.py,                  *)
(* service_structures.py, service_components.py, service_calendars.py,     *)
(* service_payruns.py _compute_payrun_items, utils.py money).  It gives    *)
(* the life of a payrun in PayrunLifecycle its payroll data and amounts.   *)
(*                                                                         *)
(* Amounts are in cents.  One structure with one list of lines stands for  *)
(* all.  An overlap of compensations and a sort order taken twice are      *)
(* looked for before the insert, in a transaction that locks nothing.      *)
(***************************************************************************)
EXTENDS PayrunLifecycle, FiniteSetsExt, SequencesExt

CONSTANTS Compensations, \* rows that are offered: [employee, from, to, base, currency]
          Lines,         \* structure lines that are offered: [component, type, mode,
                         \* value, order], an override already applied to its default
          Summaries,     \* what attendance can say: [working, payable] days
          PeriodStart, Currency,
          NullDate       \* effective_to NULL, as a date after all others

ASSUME PayrollAssumption ==
  /\ PeriodStart \in Nat /\ NullDate \in Nat
  /\ \A c \in Compensations : c.from \in Nat /\ c.to \in Nat /\ c.base \in Nat
  /\ \A l \in Lines : /\ l.type \in {"EARNING", "DEDUCTION"}
                      /\ l.value \in Int /\ l.order \in Int
  /\ \A d \in Summaries : d.working \in Nat /\ d.payable \in 0..d.working

VARIABLES catalogue, \* rows that others refer to: <<table, key>>
          staff,    \* active employees of the payrun's branch
          comps,    \* payroll.employee_compensations, in order of creation
          lines,    \* salary_structure_lines, in order of creation
          days,     \* [Employees -> payable_day_summaries of the period, counted]
          checked,  \* rows that passed the check of a transaction not yet committed
          paid      \* [Periods -> [Employees -> amounts of the payrun item]]

setup == <<catalogue, staff, comps, lines, days, checked>>
lifecycle == <<status, items, wr, reqs, payslips, files, pc, agreed>>
allvars == <<vars, setup, paid>>

NoDays == [working |-> 0, payable |-> -1]
NoPay == [pay |-> FALSE]

-----------------------------------------------------------------------------
(* The catalogue.  A code or period_key that is taken is refused by the     *)
(* unique index.  A payrun's period belongs to the one calendar.            *)

Structure == <<"salary_structures", "structure">>
Calendar == <<"calendars", "calendar">>
Period(p) == <<"periods", p>>
Component(l) == <<"components", l.component>>

Create(row) ==
  /\ row \notin catalogue
  /\ catalogue' = catalogue \cup {row}
  /\ UNCHANGED <<staff, comps, lines, days, checked>>

CreateStructure == Create(Structure)
CreateCalendar == Create(Calendar)
CreateComponent(l) == Create(Component(l))
CreatePeriod(p) == Calendar \in catalogue /\ Create(Period(p))

-----------------------------------------------------------------------------
(* upsert_compensation and add_line.                                        *)

Overlap(c, d) == c.employee = d.employee /\ ~(c.to < d.from \/ d.to < c.from)

CheckCompensation(c) ==
  /\ c.from <= c.to /\ Structure \in catalogue
  /\ \A k \in DOMAIN comps : ~Overlap(comps[k], c)
  /\ checked' = checked \cup {c}
  /\ UNCHANGED <<catalogue, staff, comps, lines, days>>

\* Only two open-ended rows of one employee meet the unique index.
InsertCompensation(c) ==
  /\ c \in checked
  /\ checked' = checked \ {c}
  /\ comps' = IF \E k \in DOMAIN comps :
                   comps[k].employee = c.employee /\ {comps[k].to, c.to} = {NullDate}
              THEN comps ELSE Append(comps, c)
  /\ UNCHANGED <<catalogue, staff, lines, days>>

\* "sort_order must be unique within a salary structure".
CheckLine(l) ==
  /\ {Structure, Component(l)} \subseteq catalogue
  /\ \A k \in DOMAIN lines : lines[k].order # l.order
  /\ checked' = checked \cup {l}
  /\ UNCHANGED <<catalogue, staff, comps, lines, days>>

\* A component is on a structure once: uq_payroll_salary_structure_lines_component.
InsertLine(l) ==
  /\ l \in checked
  /\ checked' = checked \ {l}
  /\ lines' = IF \E k \in DOMAIN lines : lines[k].component = l.component
              THEN lines ELSE Append(lines, l)
  /\ UNCHANGED <<catalogue, staff, comps, days>>

\* The attendance of the period is computed again.
SummariesChange(e) ==
  /\ \E d \in Summaries : d # days[e] /\ days' = [days EXCEPT ![e] = d]
  /\ UNCHANGED <<catalogue, staff, comps, lines, checked>>

\* An employee joins the branch or leaves it.
StaffChanges(e) ==
  /\ staff' = IF e \in staff THEN staff \ {e} ELSE staff \cup {e}
  /\ UNCHANGED <<catalogue, comps, lines, days, checked>>

-----------------------------------------------------------------------------
(* _compute_payrun_items.                                                   *)

\* _load_effective_compensations: of the rows in force when the period starts
\* the one with the latest effective_from, and the youngest of those; 0 if none.
EffectiveCompensation(cs, e) ==
  LET inForce == {k \in DOMAIN cs : cs[k].employee = e /\ cs[k].from <= PeriodStart
                                    /\ PeriodStart <= cs[k].to}
      latest == {k \in inForce : \A j \in inForce : cs[j].from <= cs[k].from}
  IN  IF inForce = {} THEN 0 ELSE Max(latest)

\* money: num / den cents, rounded half up.
Money(num, den) == (2 * num + den) \div (2 * den)

\* _load_structure_lines: by sort_order, then by creation.
OrderedLines(ls) ==
  LET before(j, k) == \/ ls[j].order < ls[k].order
                      \/ ls[j].order = ls[k].order /\ j < k
  IN  [i \in DOMAIN ls |->
         ls[CHOOSE k \in DOMAIN ls : Cardinality({j \in DOMAIN ls : before(j, k)}) = i - 1]]

\* A row of payrun_item_lines, with the mode and percentage it was priced by.
AddLine(acc, l, amount) ==
  LET total == IF l.type = "EARNING" THEN "earnings" ELSE "deductions"
  IN  [acc EXCEPT ![total] = @ + amount,
                  !.lines = Append(@, [component |-> l.component, type |-> l.type,
                                       mode |-> l.mode, value |-> l.value,
                                       amount |-> amount])]

\* The first pass prices the FIXED lines and stages the PERCENT_OF_GROSS ones.
\* A MANUAL line is worth nothing.
FirstPass(acc, l) ==
  IF l.mode = "PERCENT_OF_GROSS" THEN [acc EXCEPT !.staged = Append(@, l)]
  ELSE LET amount == IF l.mode = "FIXED" THEN l.value ELSE 0
           priced == AddLine(acc, l, amount)
       IN  IF l.type = "EARNING" THEN [priced EXCEPT !.fixed = @ + amount] ELSE priced

\* Mutant: a percentage is taken of what has been earned so far.
SecondPassRunning(acc, l) ==
  AddLine(acc, l, Money((acc.prorated + acc.earnings) * l.value, 100))

\* The second pass takes percentages of the prorated base and fixed earnings.
SecondPass(acc, l) == AddLine(acc, l, Money((acc.prorated + acc.fixed) * l.value, 100))

ProratedBase(c, d) == Money(c.base * d.payable, Max({d.working, 1}))

Pay(c, d, ls) ==
  LET start == [prorated |-> ProratedBase(c, d), earnings |-> 0, fixed |-> 0,
                deductions |-> 0, staged |-> <<>>, lines |-> <<>>]
      first == FoldLeft(FirstPass, start, OrderedLines(ls))
      second == FoldLeft(SecondPass, first, first.staged)
      gross == second.prorated + second.earnings
  IN  [pay |-> TRUE, gross |-> gross, deductions |-> second.deductions,
       net |-> gross - second.deductions, lines |-> second.lines,
       base |-> c.base, prorated |-> start.prorated, days |-> d]

\* NO_COMPENSATION, NO_PAYABLE_SUMMARIES and CURRENCY_MISMATCH exclude.
Payable(cs, ds, e) ==
  LET k == EffectiveCompensation(cs, e) IN
  ds[e] # NoDays /\ k # 0 /\ cs[k].currency = Currency

PayrollNow(st, cs, ds) ==
  [e \in Employees |-> IF e \notin st THEN "none"
                       ELSE IF Payable(cs, ds, e) THEN "INCLUDED" ELSE "EXCLUDED"]

PayNow == [e \in Employees |->
             IF payroll[e] # "INCLUDED" THEN NoPay
             ELSE Pay(comps[EffectiveCompensation(comps, e)], days[e], lines)]

-----------------------------------------------------------------------------
PayInit ==
  /\ Init
  /\ catalogue = {} /\ staff = {} /\ comps = <<>> /\ lines = <<>> /\ checked = {}
  /\ days = [e \in Employees |-> NoDays]
  /\ payroll = PayrollNow(staff, comps, days)
  /\ paid = [p \in Periods |-> [e \in Employees |-> NoPay]]

\* The administrators and attendance; what makes an item INCLUDED or EXCLUDED
\* is counted as a change of the payroll data.
SetupStep ==
  /\ \/ CreateStructure \/ CreateCalendar
     \/ \E l \in Lines : CreateComponent(l)
     \/ \E p \in Periods : CreatePeriod(p)
     \/ \E c \in Compensations \ checked : CheckCompensation(c)
     \/ \E c \in Compensations : InsertCompensation(c)
     \/ \E l \in Lines \ checked : CheckLine(l)
     \/ \E l \in Lines : InsertLine(l)
     \/ \E e \in Employees : SummariesChange(e) \/ StaffChanges(e)
  /\ payroll' = PayrollNow(staff', comps', days')
  /\ changes' = IF payroll' = payroll THEN changes ELSE changes + 1
  /\ changes' <= MaxChanges
  /\ UNCHANGED <<lifecycle, paid>>

\* A generation that writes items writes their amounts and lines with them.
Compute(s) ==
  /\ GenerateInsert(s) \/ ComputeItems(s)
  /\ paid' = IF status[pc[s].period] \in {"NONE", "DRAFT"}
             THEN [paid EXCEPT ![pc[s].period] = PayNow] ELSE paid
  /\ UNCHANGED setup

\* Every other step of a payrun leaves the amounts alone.
LifecycleStep ==
  /\ \/ \E s \in Sessions :
          \/ \E p \in Periods : Period(p) \in catalogue /\ GenerateBegin(s, p)
          \/ \E p \in Periods : PublishBegin(s, p)
          \/ GenerateConflict(s) \/ WritePayslip(s) \/ PublishCommit(s) \/ Rollback(s)
     \/ \E u \in Users, p \in Periods : SubmitNew(u, p) \/ SubmitAgain(u, p)
     \/ \E i \in 1..Len(reqs) : Approve(i) \/ Reject(i) \/ Cancel(i)
  /\ UNCHANGED <<setup, paid>>

PayNext == SetupStep \/ LifecycleStep \/ \E s \in Sessions : Compute(s)

PaySpec == PayInit /\ [][PayNext]_allvars

-----------------------------------------------------------------------------
(* Properties.                                                              *)

LinesOf(pay, type) == {k \in DOMAIN pay.lines : pay.lines[k].type = type}
LineSum(pay, ks) == SumFunctionOnSet([k \in ks |-> pay.lines[k].amount], ks)

\* Rows of compensation may overlap after a race, and sort orders may be taken
\* twice.  Still an item can be paid exactly when it was INCLUDED, from one
\* salary in force when the period starts, and whoever reads the payrun can
\* recompute it from the lines it shows: a component appears once, percentages
\* are of the prorated salary and the fixed earnings whatever the order of the
\* lines, and the totals are the sums of the rounded lines.
ItemsAddUp ==
  \A p \in Periods, e \in Employees :
    LET pay == paid[p][e]
        earnings == LinesOf(pay, "EARNING")
        fixed == {k \in earnings : pay.lines[k].mode = "FIXED"}
    IN  /\ pay.pay <=> items[p][e] = "INCLUDED"
        /\ pay.pay =>
             /\ \E k \in DOMAIN comps :
                  /\ comps[k].employee = e /\ comps[k].currency = Currency
                  /\ PeriodStart \in comps[k].from..comps[k].to
                  /\ pay.base = comps[k].base
             /\ pay.prorated <= pay.base
             /\ IsInjective([k \in DOMAIN pay.lines |-> pay.lines[k].component])
             /\ \A k \in DOMAIN pay.lines :
                  pay.lines[k].mode = "PERCENT_OF_GROSS" =>
                    pay.lines[k].amount =
                      Money((pay.prorated + LineSum(pay, fixed)) * pay.lines[k].value, 100)
             /\ pay.gross = pay.prorated + LineSum(pay, earnings)
             /\ pay.deductions = LineSum(pay, LinesOf(pay, "DEDUCTION"))
             /\ pay.net = pay.gross - pay.deductions

=============================================================================
