SPECIFICATION Spec
CONSTANTS
    Plans <- ProfilePlans
INVARIANTS
    
    CutNeverAssesses
PROPERTIES
    EndsUnlessHeld
CHECK_DEADLOCK FALSE
