-------------------------- MODULE MCDocumentExpiry --------------------------
(***************************************************************************)
(* Two documents of one employee, of different types, with rules that fall *)
(* on one day; three outbox rows, of which 2 cannot be adapted; batches of *)
(* two.                                                                    *)
(***************************************************************************)
EXTENDS DocumentExpiry

mcRows == 1..3
mcPaperType == [d \in {"visa", "permit"} |-> d]
mcExpires == [d \in {"visa", "permit"} |-> IF d = "visa" THEN 3 ELSE 2]
mcOwner == [d \in {"visa", "permit"} |-> "e1"]

=============================================================================
