------------------------------ MODULE MCVision ------------------------------
(***************************************************************************)
(* Video jobs: two videos of one day with a job each and two workers.  A   *)
(* door: two ids of the tracker, the second given out when the first is    *)
(* lost.  The mobile application: two workbooks of three employees, and    *)
(* the account of one.  None of them reads what another writes, so a       *)
(* behaviour is one of one of them.                                        *)
(***************************************************************************)
EXTENDS VisionJobs, DoorTracks, MonthImports, MobileAccounts, TLC

Init == VisionInit /\ DoorInit /\ ImportsInit /\ AccountsInit

Next ==
  \/ /\ DoorInit /\ ImportsInit /\ AccountsInit
     /\ VisionNext /\ UNCHANGED <<doorvars, mvars, avars>>
  \/ /\ VisionInit /\ ImportsInit /\ AccountsInit
     /\ DoorNext /\ UNCHANGED <<vvars, mvars, avars>>
  \/ /\ VisionInit /\ DoorInit /\ AccountsInit
     /\ ImportsNext /\ UNCHANGED <<vvars, doorvars, avars>>
  \/ /\ VisionInit /\ DoorInit /\ ImportsInit
     /\ AccountsNext /\ UNCHANGED <<vvars, doorvars, mvars>>

Spec == Init /\ [][Next]_<<vvars, doorvars, mvars, avars>>

mcTwo == 1..2
mcThree == 1..3
mcRows == [f \in Files |-> IF f = "old" THEN {1, 2} ELSE {2, 3}]
mcSales == [f \in Files |-> [c \in Codes |-> IF c = 1 THEN 0 ELSE 10]]
mcPath == [v \in {1, 2} |-> v]
mcDay == [v \in {1, 2} |-> 1]

\* Bounds.  Videos are there before jobs, each has one, and one job waits at
\* a time.  Jobs, videos and workers are interchangeable: 1 comes first, and
\* is the one that is cancelled.
mcFewVideoJobs ==
  /\ Len(jobs) + Cardinality(unqueued) <= 1 /\ cancelling \subseteq {1}
  /\ (\A v \in Videos : video[v] = "finalized") \/ (\A j \in Jobs : job[j].status = "absent")
  /\ video[2] = "absent" \/ video[1] = "finalized"
  /\ job[2].status = "absent" \/ job[1].status # "absent"
  /\ \A j \in Jobs : job[j].video \in {Nothing, j}
  /\ worker[2] = Ready \/ worker[2].attempt # 1

\* Tracks follow each other; the last frame is for the first alone.
mcFewTracks ==
  /\ \A q, r \in DOMAIN live : q < r => live[q].leaving # NotLeaving
  /\ uses[2] = 0 \/ frame < MaxFrame

\* The second workbook comes when the first is read, and everybody is there;
\* the first is the one that fails, is read again and crosses publications.
mcFewImports ==
  /\ onStaff \in {Codes, {2, 3}} /\ dataset["new"].status # "FAILED"
  /\ dataset["new"].status # "absent" => dataset["old"].status = "READY" /\ onStaff = Codes

=============================================================================
