SPECIFICATION GateSpec
CONSTANTS
  g1 = g1
  c1 = c1
  editor = editor
  nobody = nobody
  NoReviewer = nobody
  Roles = {"editor_in_chief", "intern"}
  ApproverRoles = {"editor_in_chief"}
  Runs = {g1}
  Resumers = {c1}
  Reviewers = {editor}
  Decisions = {"approve", "escalate"}
  MaxRecords = 2
  CallFaults = {}
INVARIANTS
  PublishOnlyOnApprove
CHECK_DEADLOCK FALSE
