---------------------------- MODULE MCOnboarding ----------------------------
(***************************************************************************)
(* One employee, a template of two DOCUMENT tasks for one document type,   *)
(* the first to be verified, and of a FORM task; two sessions.             *)
(***************************************************************************)
EXTENDS Onboarding, TLC

mcCodes == 1..4
mcTaskDef ==
  << [type |-> "DOCUMENT", doc |-> "passport", verify |-> TRUE, fields |-> {}],
     [type |-> "FORM", doc |-> "", verify |-> FALSE, fields |-> {"phone"}],
     [type |-> "ACK", doc |-> "", verify |-> FALSE, fields |-> {}],
     [type |-> "DOCUMENT", doc |-> "passport", verify |-> FALSE, fields |-> {}] >>
mcDocTypes == {"passport"}
\* One account that is not primary, two of which one or both are.
mcBanks == {<<FALSE>>, <<FALSE, TRUE>>, <<TRUE, TRUE>>}

\* Bound: one behaviour either uploads documents or changes profiles (of a
\* bundle without DOCUMENT tasks); a type is deactivated before the second
\* upload.  The two halves share only the sequence of workflow requests.
mcSmall ==
  \/ changes = <<>> /\ effects = <<>> /\ (template \subseteq {1} \/ template \subseteq {4})
     /\ (Len(files) > 1 => \A t \in DocTypes : types[t] # "inactive")
  \/ files = <<>> /\ (\A t \in DocTypes : types[t] = "absent") /\ template \subseteq {2, 3}

mcSymmetry == Permutations(Sessions)

=============================================================================
