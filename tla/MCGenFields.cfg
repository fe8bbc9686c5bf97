CONSTANTS
    max_ftype <- MCMaxFtype
    EnumInputs <- MCEnumInputs
    EntryInputs <- MCEntryInputs
    None = None
    NULL = NULL
    IPFIX_CODING_UINT = IPFIX_CODING_UINT

SPECIFICATION Spec

INVARIANT TypeOK
INVARIANT TableIsDense
INVARIANT LastEntryWins
INVARIANT SymbolsDefined

\* The script exits after printing the array, or aborts on IndexError.
CHECK_DEADLOCK FALSE
