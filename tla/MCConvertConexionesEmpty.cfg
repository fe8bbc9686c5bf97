CONSTANTS
    UsuariosInputs <- MCFileInputs
    ServersInputs <- MCServerInputs
    Missing = Missing

SPECIFICATION Spec

INVARIANT StatementHasValues

\* main() returns after printing, or aborts on an exception.
CHECK_DEADLOCK FALSE
