SPECIFICATION AdoptionSpec
INVARIANT
    StampedIsCurrent
CHECK_DEADLOCK FALSE
