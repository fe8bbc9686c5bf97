CONSTANTS
    UsuariosInputs <- MCQuotedFileInputs
    ServersInputs <- MCQuotedServerInputs
    Missing = Missing

SPECIFICATION Spec

INVARIANT TuplesWellQuoted

\* main() returns after printing, or aborts on an exception.
CHECK_DEADLOCK FALSE
