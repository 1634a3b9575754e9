--------------------------- MODULE MCTrackingJournal ---------------------------
(***************************************************************************)
(* Two coordinators and four operations: on a leaf issue a comment and an  *)
(* assignment, the latter planned once more under a new identity, and the  *)
(* closing of the parent.                                                  *)
(***************************************************************************)
EXTENDS TrackingJournal, TLC

MCOperations == {"comment", "assign", "again", "close"}
MCTarget == [o \in MCOperations |-> IF o = "close" THEN "parent" ELSE "leaf"]
MCEffect == [o \in MCOperations |->
               CASE o = "comment" -> "text" [] o = "close" -> "closed" [] OTHER -> "assignee"]

Symmetry == Permutations(Coordinators)
===============================================================================
