------------------------ MODULE MCConvertConexiones ------------------------
(***************************************************************************)
(* Small inputs for ConvertConexiones: each file is missing, or a list of  *)
(* up to two records.  A usuarios record has all its keys or not; a       *)
(* servers address has no "/", one, or two.  The plain inputs have no '  *)
(* in any value; the quoted ones let a value hold one.                    *)
(***************************************************************************)
EXTENDS ConvertConexiones

\* Usuarios files of up to two records whose values hold up to q quotes.
FilesWith(q) ==
    {Missing} \cup
    UNION { { [k \in 1..n |-> [id |-> k, ok |-> b[k], quotes |-> c[k]]]
              : b \in [1..n -> BOOLEAN], c \in [1..n -> 0..q] }
            : n \in 0..2 }

\* An address split at "/": one, two or three parts.
MCAddresses == {<<"a">>, <<"a", "b">>, <<"a", "b", "c">>}

\* Servers files of up to two records whose values hold up to q quotes.
ServerFilesWith(q) ==
    {Missing} \cup
    UNION { { [k \in 1..n |-> [id |-> k, quotes |-> c[k], address |-> a[k]]]
              : c \in [1..n -> 0..q], a \in [1..n -> MCAddresses] }
            : n \in 0..2 }

MCFileInputs == FilesWith(0)

MCServerInputs == ServerFilesWith(0)

MCQuotedFileInputs == FilesWith(1)

MCQuotedServerInputs == ServerFilesWith(1)

=============================================================================
