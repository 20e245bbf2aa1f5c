--------------------------- MODULE MCRecruitment ---------------------------
(***************************************************************************)
(* Two resumes, one run that ranks the best one, two workers.              *)
(***************************************************************************)
EXTENDS Recruitment, TLC

mcRuns == 1..1
mcSymmetry == Permutations(Resumes) \cup Permutations(HrWorkers)

\* Bound: a job is queued or lost; applications are moved on, hired and
\* rejected when everything else is at rest, which reads none of that.
mcSmall ==
  /\ Cardinality(lost) + Len(queue) <= 1
  /\ (\E r \in Resumes : \E a \in application[r] :
        a.status # "ACTIVE" \/ a.stage \notin {"Applied", "Screened"})
     => (\A w \in HrWorkers : hrworker[w] = Free) /\ queue = <<>> /\ request = NoRequest

=============================================================================
