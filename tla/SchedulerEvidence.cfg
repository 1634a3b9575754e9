SPECIFICATION Spec
CONSTANTS Ids = {"a", "b", "c"}
          Workers = {w1}
          None = None
          Plans <- EvidencePlans
          Rank <- MCRank
          Native <- NoNative
          Views = {"open", "done"}
          Unseen = "unseen"
          Terminal = {"done"}
          ParentViews <- TwoParents
          Capacity = 1
          HeavyLimit = 1
          Domain = "whole-thread-tree"
          MaxAttempt = 1
INVARIANT AcceptedIsCurrent
PROPERTY DriftBlocksDescendants
