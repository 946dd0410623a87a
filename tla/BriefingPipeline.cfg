SPECIFICATION FairSpec
CONSTANTS
  MaxHops = 6
  Decisions = {"revise", "reject"}
  MaxCrashes = 2
INVARIANTS
  SameOutcome
  PublishesFirstApproved
  HopsCountSavedNodes
  CapBoundsHops
  MapChargesRejections
PROPERTIES
  Terminates
CHECK_DEADLOCK FALSE
