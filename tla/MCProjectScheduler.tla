-------------------------- MODULE MCProjectScheduler --------------------------
(***************************************************************************)
(* TLC instances of ProjectScheduler.  LanePlans: two nodes that write one *)
(* lane and are both heavy, until replanning separates or lightens one.    *)
(* EvidencePlans: a chain of dependencies whose last two nodes one         *)
(* criterion owns; the first may belong to somebody else.                  *)
(***************************************************************************)
EXTENDS ProjectScheduler, TLC

Entry(lanes, heavy, external, needs) ==
  [reads |-> {}, writes |-> lanes, heavy |-> heavy, external |-> external, needs |-> needs]

Alone == Entry({"tree"}, TRUE, FALSE, << >>)
Apart == Entry({"docs"}, TRUE, FALSE, << >>)
Light == Entry({"port"}, FALSE, FALSE, << >>)
Foreign == Entry({"tree"}, TRUE, TRUE, << >>)
After(n, condition) == Entry({"port"}, FALSE, FALSE, n :> condition)

LanePlans ==
  {[nodes |-> ("a" :> Alone) @@ ("b" :> b), owners |-> "done" :> {"a", "b"}] :
     b \in {Alone, Apart, Light}}

EvidencePlans ==
  {[nodes |-> ("a" :> a) @@ ("b" :> After("a", "merged")) @@ ("c" :> After("b", "accepted")),
    owners |-> "done" :> {"b", "c"}] : a \in {Alone, Foreign}}

MCRank == [n \in Ids |-> CASE n = "a" -> 1 [] n = "b" -> 2 [] n = "c" -> 3]
NoNative == [n \in Ids |-> {}]
OneParent == {[body |-> "old", refs |-> "none", resolved |-> TRUE]}
TwoParents == {[body |-> b, refs |-> "none", resolved |-> TRUE] : b \in {"old", "new"}}

Symmetry == Permutations(Workers)
===============================================================================
