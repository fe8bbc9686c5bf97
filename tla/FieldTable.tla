----------------------------- MODULE FieldTable -----------------------------
(***************************************************************************)
(* What the field-table generator promises, as spec section 4.1 states    *)
(* it: buildTable, renderSymbols and renderTable as one step.  Given the   *)
(* enumeration and the metadata list, the run either prints the symbol     *)
(* definitions of the enumeration followed by the dense table (one slot    *)
(* per code 0..max_ftype, each the last entry with that code or the empty  *)
(* placeholder, then the terminating line), or it aborts without output    *)
(* when an entry's code has no slot.  A line uses the same record shape as *)
(* GenFields.  How an absent name or documentation is written is left a    *)
(* parameter, Quote: the spec asks for the null marker, and the run        *)
(* gen_fields_shipped_none shows the script writes the text None.          *)
(***************************************************************************)
EXTENDS Integers, Sequences

CONSTANTS
    max_ftype,
    EnumInputs,
    EntryInputs,
    None,
    NULL,
    Quote(_)     \* how a name or documentation field is written

VARIABLES
    enum,     \* member values of the enumeration, in declaration order
    entries,  \* the metadata list
    status,   \* "running", "done" or "aborted"
    out       \* what the run has printed

absvars == <<enum, entries, status, out>>

\* The spec's placeholder record: length 0, coding 0, name and
\* documentation absent.
EmptySlot(f) ==
    [eno |-> 0, ftype |-> f, length |-> 0, coding |-> 0,
     name |-> None, documentation |-> None]

\* Slot f of the dense table: the entry with code f that comes last in the
\* list, or the placeholder.
DenseSlot(f) ==
    LET ks == {k \in DOMAIN entries : entries[k].ftype = f}
    IN  IF ks = {} THEN EmptySlot(f)
        ELSE LET e == entries[CHOOSE k \in ks : \A j \in ks : j <= k]
             IN  [eno |-> e.eno, ftype |-> f, length |-> e.length,
                  coding |-> e.coding, name |-> e.name,
                  documentation |-> e.documentation]

\* renderSymbols: one definition per member, in declaration order; a
\* member repeating the value of an earlier one defines nothing.
Symbols ==
    LET firsts == SelectSeq([k \in 1..Len(enum) |-> k],
                            LAMBDA k : \A j \in 1..(k - 1) : enum[j] # enum[k])
    IN  [n \in 1..Len(firsts) |->
            [kind |-> "define", sym |-> firsts[n], value |-> enum[firsts[n]]]]

\* renderTable, one slot: a member's code gets a line naming the first
\* member declared with it; any other code a line carrying only the number.
Render(s) ==
    IF \E k \in DOMAIN enum : enum[k] = s.ftype
    THEN [kind |-> "named", eno |-> s.eno,
          id |-> CHOOSE k \in DOMAIN enum :
                    enum[k] = s.ftype /\ \A j \in 1..(k - 1) : enum[j] # s.ftype,
          length |-> s.length, coding |-> s.coding,
          name |-> Quote(s.name), documentation |-> Quote(s.documentation)]
    ELSE [kind |-> "raw", eno |-> 0, id |-> s.ftype, length |-> 0,
          coding |-> NULL, name |-> NULL, documentation |-> NULL]

\* The sentinel: the only line with a negative length.
EndLine ==
    [kind |-> "raw", eno |-> 0, id |-> 0, length |-> -1, coding |-> 0,
     name |-> NULL, documentation |-> NULL]

\* renderTable: the slots in ascending code order, then the terminator.
TableText ==
    [k \in 1..(max_ftype + 2) |->
        IF k <= max_ftype + 1 THEN Render(DenseSlot(k - 1)) ELSE EndLine]

InRange == \A k \in DOMAIN entries : entries[k].ftype \in 0..max_ftype

Init ==
    /\ enum \in EnumInputs
    /\ entries \in EntryInputs
    /\ status = "running"
    /\ out = <<>>

Emit ==
    /\ status = "running"
    /\ InRange
    /\ out' = Symbols \o <<[kind |-> "array", lines |-> TableText]>>
    /\ status' = "done"
    /\ UNCHANGED <<enum, entries>>

Abort ==
    /\ status = "running"
    /\ ~InRange
    /\ status' = "aborted"
    /\ UNCHANGED <<enum, entries, out>>

Next == Emit \/ Abort

\* A run always comes to an end.
Spec == Init /\ [][Next]_absvars /\ WF_absvars(Next)

=============================================================================
