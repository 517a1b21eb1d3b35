SPECIFICATION Spec
CONSTANTS
    Operators = {o1, o2}
    MaxReviews = 2
    MaxChanges = 5
INVARIANT LiveNeedsApproval
CHECK_DEADLOCK FALSE
