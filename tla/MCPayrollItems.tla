--------------------------- MODULE MCPayrollItems ---------------------------
(***************************************************************************)
(* An instance of PayrollItems.  The first employee can be given two       *)
(* salaries that overlap, one of them perhaps in a foreign currency; two   *)
(* of the structure lines want the same sort order.                        *)
(***************************************************************************)
EXTENDS PayrollItems

mcEmployees == {1, 2}
mcCompensations ==
  {[employee |-> 1, from |-> 1, to |-> 5, base |-> 1001, currency |-> "AED"],
   [employee |-> 1, from |-> 3, to |-> 9, base |-> 2000, currency |-> "AED"],
   [employee |-> 1, from |-> 4, to |-> 4, base |-> 1500, currency |-> "USD"]}

mcLines ==
  {[component |-> "TRANSPORT", type |-> "EARNING", mode |-> "FIXED", value |-> 33, order |-> 2],
   [component |-> "HOUSING", type |-> "EARNING", mode |-> "PERCENT_OF_GROSS",
    value |-> 25, order |-> 1],
   [component |-> "PENSION", type |-> "DEDUCTION", mode |-> "PERCENT_OF_GROSS",
    value |-> 5, order |-> 1]}

mcSummaries == {[working |-> 3, payable |-> 2], [working |-> 0, payable |-> 0]}

\* Bounds: the catalogue is complete before there are salaries, attendance or a
\* payrun; the second employee has no attendance; two rows at most are on their
\* way, of compensations once the structure has its lines; and the setup rests while the
\* payrun is approved and published, which reads nothing of it.
mcCatalogue ==
  {Structure, Calendar} \cup {Component(l) : l \in mcLines} \cup {Period(p) : p \in Periods}

mcSmall ==
  /\ \/ catalogue = mcCatalogue
     \/ comps = <<>> /\ staff = {} /\ days[1] = NoDays /\ \A s \in Sessions : pc[s] = Idle
  /\ days[2] = NoDays
  /\ Cardinality(checked) <= 2
  /\ comps # <<>> \/ checked \cap mcCompensations # {} => checked \subseteq mcCompensations
  /\ (\E p \in Periods : status[p] \notin {"NONE", "DRAFT"}) => checked = {}

mcSymmetry == Permutations(Sessions) \cup Permutations(Users)

=============================================================================
