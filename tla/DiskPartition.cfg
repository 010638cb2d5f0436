SPECIFICATION Spec
CONSTANTS
    ByteBits = 2
    LeadingBits = 3
    SigBits = 4
    Base = 4
    maxLabelNameLen = 2
    maxLabelValueLen = 2
    Inputs <- AllInputs
    LateInserts = FALSE
    None = None
INVARIANTS ReadsBack Lockstep SeriesApart
