CONSTANTS
    max_ftype <- RealMaxFtype
    EnumInputs <- RealEnumInputs
    EntryInputs <- RealEntryInputs
    None = None
    NULL = NULL
    IPFIX_CODING = IPFIX_CODING

SPECIFICATION Spec

INVARIANT UnfilledSlotsRenderNull

\* The script exits after printing the array.
CHECK_DEADLOCK FALSE
