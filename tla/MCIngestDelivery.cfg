SPECIFICATION FairDelivery
CONSTANTS
  Sessions = {s1}
  Users = {u1, u2}
  Agent = Agent
  Impostor = Impostor
  Nobody = Nobody
  Payloads = {p1}
  MaxAttempts = 2
  UserCalls = {c1, c2, c3}
  LoggedTypes = {"brain_decision", "canvas_parse_error"}
  None = None
  s1 = s1
  u1 = u1
  u2 = u2
  c1 = c1
  c2 = c2
  c3 = c3
  Calls <- MCCalls
  Script <- MCScript
INVARIANTS
  TypeOK
  AnswersHold
  OnlyTheOwner
  TrueIsStored
  TwiceOnlyAfterLoss
PROPERTIES
  ImplementsLedger
  AppendReturns
CHECK_DEADLOCK FALSE
