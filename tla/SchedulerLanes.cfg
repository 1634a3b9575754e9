SPECIFICATION Spec
CONSTANTS Ids = {"a", "b"}
          Workers = {w1, w2, w3}
          None = None
          Plans <- LanePlans
          Rank <- MCRank
          Native <- NoNative
          Views = {"open", "done"}
          Unseen = "unseen"
          Terminal = {"done"}
          ParentViews <- OneParent
          Capacity = 2
          HeavyLimit = 1
          Domain = "whole-thread-tree"
          MaxAttempt = 3
SYMMETRY Symmetry
INVARIANT LanesDisjoint
INVARIANT HeavyWithinLimit
INVARIANT HandlesWithinCapacity
INVARIANT TerminalMeansStopped
