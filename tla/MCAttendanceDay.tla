-------------------------- MODULE MCAttendanceDay --------------------------
(***************************************************************************)
(* c1 and c2 are one form sent twice with one key, c3 is another form.     *)
(* There are two branches with a shift each; shifts last 8 or 16 hours,    *)
(* all over midnight, with no break or one of 9.                           *)
(***************************************************************************)
EXTENDS Payables, TLC

CONSTANTS c1, c2, c3, key, s1, s2, b1, b2

mcOverrideOf == c1 :> "WFH" @@ c2 :> "WFH" @@ c3 :> "ABSENT_OVERRIDE"
mcKeyOf == c1 :> key @@ c2 :> key @@ c3 :> NoKey

mcBranchOf == s1 :> b1 @@ s2 :> b2
mcMirror == s1 :> s2 @@ s2 :> s1 @@ b1 :> b2 @@ b2 :> b1
mcTemplates == [start : {17}, end : {1, 9}, break : {0, 9}]
mcUsual == [start |-> 17, end |-> 9, break |-> 0]
mcForever == 9
\* TheDay is 1: from before, on the day alone, from after.
mcRanges == {<<0, mcForever>>, <<1, 1>>, <<2, mcForever>>}

\* Bound: a behaviour either files all three corrections, or edits the roster
\* with both admins, or recomputes: with both runs while the roster changes
\* once and one correction is approved, with one while the roster changes twice;
\* on a day that has a daily row.
Filing == {t \in Tx : pc[t] # Idle}
Editing == {a \in Admins : admin[a] # Working}
Running == {x \in Runs : run[x] # Working}
Unfiled == Filing = {} /\ rows = <<>> /\ \A c \in Corrections : status[c] = "NONE"
mcSmall ==
  \/ edits = 0 /\ Editing = {} /\ Running = {} /\ summary = NoSummary
     /\ DOMAIN shifts = {}
  \/ Unfiled /\ Running = {} /\ summary = NoSummary /\ daily = -1
  \/ /\ Unfiled \/ (edits <= 1 /\ Editing = {})
     /\ \A t \in Filing : pc[t].cor = c3
     /\ \A c \in Corrections : status[c] \in IF c = c3 THEN {"NONE", "PENDING", "APPROVED"} ELSE {"NONE"}
     /\ Cardinality(Filing) <= 1
     /\ Running = {} \/ \A t \in Filing : pc[t].at = "commit" /\ pc[t].kind = "approved"
     /\ Cardinality(Editing) <= 1
     /\ (edits <= 1 /\ Editing = {}) \/ Cardinality(Running) <= 1
     /\ daily # -1

mcSymmetry == Permutations(Tx) \cup Permutations(Runs) \cup Permutations(Admins) \cup {mcMirror}

=============================================================================
