CONSTANTS
    max_ftype <- MCMaxFtype
    EnumInputs <- MCEnumInputs
    EntryInputs <- MCEntryInputs
    None = None
    NULL = NULL
    IPFIX_CODING_UINT = IPFIX_CODING_UINT

SPECIFICATION Spec

PROPERTY ScriptCompletes

\* The script exits after printing the array, or aborts on IndexError.
CHECK_DEADLOCK FALSE
