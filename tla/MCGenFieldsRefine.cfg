CONSTANTS
    max_ftype <- MCMaxFtype
    EnumInputs <- MCEnumInputs
    EntryInputs <- MCEntryInputs
    None = None
    NULL = NULL
    IPFIX_CODING_UINT = IPFIX_CODING_UINT

SPECIFICATION Spec

PROPERTY FieldTableSpec

\* The script exits after printing the array, or aborts on IndexError.
CHECK_DEADLOCK FALSE
