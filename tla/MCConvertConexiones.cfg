CONSTANTS
    UsuariosInputs <- MCFileInputs
    ServersInputs <- MCServerInputs
    Missing = Missing

SPECIFICATION Spec

INVARIANT TypeOK
INVARIANT StatementsCarryRecords
INVARIANT NoOutputOnAbort

\* main() returns after printing, or aborts on an exception.
CHECK_DEADLOCK FALSE
