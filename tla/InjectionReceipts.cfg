SPECIFICATION Spec
CONSTANTS
  a = a  b = b  o1 = o1  o2 = o2  g1 = g1  g2 = g2  w = w
  Receipt <- Repeated
  Op <- Injects
  Run <- Runs
  Words <- Text
  OpOf <- Sent
  RecipientOf <- ToOne
  Serves <- Roles
  WordsOf <- SameText
  NoOp = NoOp
  MaxInputs = 2
SYMMETRY SameRuns
INVARIANTS TypeOK SentIsHeld ProofNotLost ClosedLetsGo
PROPERTIES ReadIsAnswered ReceiptsKeepPromise
CHECK_DEADLOCK FALSE
