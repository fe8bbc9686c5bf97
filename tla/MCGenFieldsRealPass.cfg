CONSTANTS
    max_ftype <- RealMaxFtype
    EnumInputs <- RealEnumInputs
    EntryInputs <- RealEntryInputs
    None = None
    NULL = NULL
    IPFIX_CODING = IPFIX_CODING

SPECIFICATION Spec

INVARIANT AllocationCoversEnum

\* The script exits after printing the array.
CHECK_DEADLOCK FALSE
