SPECIFICATION FairSpec
CONSTANTS
  Paths = {"kernel", "lib", "lib2", "link", "ddx20", "ddx21", "ucm2", "wayland", "unknown", "odri"}
  Links = {"link"}
  Policy <- MCPolicy
  Forbidden = {"odri"}
  Contents = {"a", "b"}
  Lists <- MCLists
  Abis = {"1.20", "1.21"}
  Reviewed = "s1"
  Sources = {"s1", "s2"}
  Late = {"m-051", "m-052", "m-054"}
  Gated = "m-035"
  Editions = {"reviewed", "other", "bare", "stale"}
  ReviewedEdition = "reviewed"
  Unapplied = "unapplied"
  Applying = {"reviewed", "other", "bare"}
  Building = {"reviewed", "other"}
  Marked = {"reviewed", "other"}
  MarksBuilt = {"m-054"}
  MarksShipped = {"m-052", "m-054"}
  MaxChanges = 3
  MaxKills = 1
INVARIANTS ShipsTheSelection ShipsWhatWasCompiled
PROPERTY BuildConverges
CHECK_DEADLOCK FALSE
