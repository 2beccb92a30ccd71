SPECIFICATION Spec
CONSTANTS
    Commands = {c1, c2}
    Kinds = {"power", "setup", "upgrade"}
    MaxFailures = 3
INVARIANTS DamageIsReported
PROPERTIES PassIsTrue RollbackRestores
CHECK_DEADLOCK FALSE
