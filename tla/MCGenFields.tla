---------------------------- MODULE MCGenFields ----------------------------
(***************************************************************************)
(* Small inputs for GenFields: every enum of at most three members with    *)
(* values in 1..max_ftype+1 (repeated values make aliases, a value past    *)
(* max_ftype a member with no slot), and every entry list of at most three *)
(* entries with codes in 0..max_ftype+1 (code 0 is the reserved slot, a    *)
(* repeated code a duplicate, max_ftype+1 an entry past the table).  The   *)
(* k-th entry is told apart from the others by its name.                   *)
(***************************************************************************)
EXTENDS GenFields

\* The C identifier the entries name as their coding, a model value.
CONSTANT IPFIX_CODING_UINT

MCMaxFtype == 3

MCEnumInputs == SeqOf(1..(MCMaxFtype + 1), 3)

MCEntryDoc(k, c, d) ==
    [eno |-> 0, ftype |-> c, length |-> 4, coding |-> IPFIX_CODING_UINT,
     name |-> ToString(k), documentation |-> d]

MCEntry(k, c) == MCEntryDoc(k, c, "")

\* Documentation texts: the empty one the shipped entries use, and one
\* quoting a word.
MCDocs == {"", "the \"flow\" end"}

\* Entry lists of at most two entries, each documented by a text of MCDocs.
MCDocEntryInputs ==
    UNION { { [k \in 1..n |-> MCEntryDoc(k, c[k], d[k])]
              : c \in [1..n -> 0..(MCMaxFtype + 1)], d \in [1..n -> MCDocs] }
            : n \in 0..2 }

MCEntryInputs ==
    UNION { { [k \in 1..n |-> MCEntry(k, c[k])] : c \in [1..n -> 0..(MCMaxFtype + 1)] }
            : n \in 0..3 }

=============================================================================
