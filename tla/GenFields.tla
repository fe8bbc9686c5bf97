----------------------------- MODULE GenFields -----------------------------
(***************************************************************************)
(* The field-table generator scripts/gen_fields.h.py.  The script runs     *)
(* once, top to bottom: it allocates a dense table of max_ftype + 1        *)
(* placeholder slots, overwrites the slot of every entry of               *)
(* original_entries in list order, formats every slot (named when its code *)
(* is a member of the IntEnum IPFIXFieldType, raw otherwise), appends a    *)
(* terminating line, prints one #define per enum member and finally the    *)
(* array literal.                                                          *)
(*                                                                         *)
(* The enum and the entry list are literals of the script; here they are   *)
(* inputs chosen in Init from EnumInputs and EntryInputs and fixed after,  *)
(* so that one run covers many possible edits of those literals.           *)
(*                                                                         *)
(* Data abstraction: an enum member is named by its declaration position   *)
(* (member k of enum is the k-th name of the class body), so enum is the   *)
(* sequence of member values in declaration order.  Text is abstracted to  *)
(* values the properties tell apart; the f-string conversion of Python's   *)
(* None is kept, as it is what reaches the generated C.                    *)
(***************************************************************************)
EXTENDS Integers, Sequences, FiniteSets, SequencesExt

CONSTANTS
    max_ftype,     \* the literal max_ftype of the script
    EnumInputs,    \* candidate values of the IPFIXFieldType class body
    EntryInputs,   \* candidate values of original_entries
    None,          \* Python's None
    NULL           \* C's NULL, as format_entry writes it

ASSUME max_ftype \in Nat

VARIABLES
    enum,             \* member values of IPFIXFieldType, in declaration order
    entries,          \* original_entries
    pc,               \* the next statement of the script to run
    full_array,       \* the dense table; <<>> before it is allocated
    i,                \* cursor of the loop the script is in
    formatted_lines,  \* the formatted array lines
    stdout            \* what has been printed, one item per print() call

vars == <<enum, entries, pc, full_array, i, formatted_lines, stdout>>

(***************************************************************************)
(* IntEnum semantics                                                       *)
(***************************************************************************)

\* The codes IPFIXFieldType(x) accepts: a value not among them raises
\* ValueError.
EnumValues == Range(enum)

\* IPFIXFieldType(v).name: a member whose value repeats an earlier one is an
\* alias, and the lookup returns the first member declared with v.
Canonical(v) == SelectInSeq(enum, LAMBDA x : x = v)

\* An iteration that also yields aliases, as iterating over
\* IPFIXFieldType.__members__ would (FieldTableSpec).
MembersWithAliases == [k \in 1..Len(enum) |-> k]

\* Iterating over the class yields the canonical members only, in
\* declaration order.
Members ==
    SelectSeq([k \in 1..Len(enum) |-> k], LAMBDA k : Canonical(enum[k]) = k)

(***************************************************************************)
(* Table slots and their rendering                                         *)
(***************************************************************************)

\* The empty slot the comprehension allocates for code f.
Placeholder(f) ==
    [eno |-> 0, ftype |-> f, length |-> 0, coding |-> 0,
     name |-> None, documentation |-> None]

\* The dict the fill loop stores for one original entry.
Slot(e) ==
    [eno |-> e.eno, ftype |-> e.ftype, length |-> e.length,
     coding |-> e.coding, name |-> e.name, documentation |-> e.documentation]

\* "\"{x}\"": an f-string renders None as the text None.
Quoted(x) == IF x = None THEN "None" ELSE x

\* A raw line {0, ftype, 0, NULL, NULL, NULL}; the terminating line
\* {0, 0, -1, 0, NULL, NULL} has the same shape.
RawLine(f, len, cod) ==
    [kind |-> "raw", eno |-> 0, id |-> f, length |-> len, coding |-> cod,
     name |-> NULL, documentation |-> NULL]

\* format_entry: a named line when IPFIXFieldType(ftype) succeeds, a raw
\* line when it raises.
format_entry(s) ==
    IF s.ftype \in EnumValues
    THEN [kind |-> "named", eno |-> s.eno, id |-> Canonical(s.ftype),
          length |-> s.length, coding |-> s.coding,
          name |-> Quoted(s.name), documentation |-> Quoted(s.documentation)]
    ELSE RawLine(s.ftype, 0, NULL)

Terminator == RawLine(0, -1, 0)

\* len(full_array); the list is indexed from 0.
SlotCount == Cardinality(DOMAIN full_array)

(***************************************************************************)
(* The script                                                              *)
(***************************************************************************)

Init ==
    /\ enum \in EnumInputs
    /\ entries \in EntryInputs
    /\ pc = "alloc"
    /\ full_array = <<>>
    /\ i = 0
    /\ formatted_lines = <<>>
    /\ stdout = <<>>

\* Faulty variants of the steps below, each the kind of slip the property
\* named beside it is there to catch.

\* range(max_ftype): one slot too few (TableIsDense).
InitFullArrayShort ==
    /\ pc = "alloc"
    /\ full_array' = [f \in 0..(max_ftype - 1) |-> Placeholder(f)]
    /\ i' = 1
    /\ pc' = "fill"
    /\ UNCHANGED <<enum, entries, formatted_lines, stdout>>

\* Slots indexed from 1 instead of 0 (TypeOK).
InitFullArrayOneBased ==
    /\ pc = "alloc"
    /\ full_array' = [f \in 1..(max_ftype + 1) |-> Placeholder(f)]
    /\ i' = 1
    /\ pc' = "fill"
    /\ UNCHANGED <<enum, entries, formatted_lines, stdout>>

\* Only an empty slot is written: the first entry of a code wins
\* (LastEntryWins).
FillEntryFirstWins ==
    /\ pc = "fill"
    /\ i <= Len(entries)
    /\ entries[i].ftype \in DOMAIN full_array
    /\ full_array' = IF full_array[entries[i].ftype].name = None
                     THEN [full_array EXCEPT ![entries[i].ftype] = Slot(entries[i])]
                     ELSE full_array
    /\ i' = i + 1
    /\ UNCHANGED <<enum, entries, pc, formatted_lines, stdout>>

\* The array printed once the last #define is reached rather than done
\* (SymbolsDefined).
PrintArrayEarly ==
    /\ pc = "defines"
    /\ i >= Len(Members)
    /\ stdout' = Append(stdout, [kind |-> "array", lines |-> formatted_lines])
    /\ pc' = "done"
    /\ UNCHANGED <<enum, entries, full_array, i, formatted_lines>>

\* full_array = [{...} for i in range(max_ftype + 1)]
InitFullArray ==
    /\ pc = "alloc"
    /\ full_array' = [f \in 0..max_ftype |-> Placeholder(f)]
    /\ i' = 1
    /\ pc' = "fill"
    /\ UNCHANGED <<enum, entries, formatted_lines, stdout>>

\* One iteration of the fill loop whose index is inside the list.
FillEntry ==
    /\ pc = "fill"
    /\ i <= Len(entries)
    /\ entries[i].ftype \in DOMAIN full_array
    /\ full_array' = [full_array EXCEPT ![entries[i].ftype] = Slot(entries[i])]
    /\ i' = i + 1
    /\ UNCHANGED <<enum, entries, pc, formatted_lines, stdout>>

\* The same iteration when entry[1] > max_ftype: the list assignment raises
\* IndexError, which nothing catches, and the script aborts.
FillEntryIndexError ==
    /\ pc = "fill"
    /\ i <= Len(entries)
    /\ entries[i].ftype \notin DOMAIN full_array
    /\ pc' = "crashed"
    /\ UNCHANGED <<enum, entries, full_array, i, formatted_lines, stdout>>

\* After the fill loop: the formatting comprehension over every slot in
\* index order, then the appended terminating line.
FormatTable ==
    /\ pc = "fill"
    /\ i > Len(entries)
    /\ formatted_lines' =
           [k \in 1..SlotCount + 1 |->
              IF k <= SlotCount THEN format_entry(full_array[k - 1])
                                ELSE Terminator]
    /\ i' = 1
    /\ pc' = "defines"
    /\ UNCHANGED <<enum, entries, full_array, stdout>>

\* One iteration of: for ftype in IPFIXFieldType: print(#define ...)
PrintDefine ==
    /\ pc = "defines"
    /\ i <= Len(Members)
    /\ stdout' = Append(stdout, [kind |-> "define", sym |-> Members[i],
                                 value |-> enum[Members[i]]])
    /\ i' = i + 1
    /\ UNCHANGED <<enum, entries, pc, full_array, formatted_lines>>

\* formatted_array = "... {\n" + "\n".join(formatted_lines) + "\n};"
\* followed by print(formatted_array).
PrintArray ==
    /\ pc = "defines"
    /\ i > Len(Members)
    /\ stdout' = Append(stdout, [kind |-> "array", lines |-> formatted_lines])
    /\ pc' = "done"
    /\ UNCHANGED <<enum, entries, full_array, i, formatted_lines>>

Next ==
    \/ InitFullArray
    \/ FillEntry
    \/ FillEntryIndexError
    \/ FormatTable
    \/ PrintDefine
    \/ PrintArray

\* The script is single-threaded and never blocks: every enabled step is
\* taken.
Spec == Init /\ [][Next]_vars /\ WF_vars(Next)

(***************************************************************************)
(* Properties                                                              *)
(***************************************************************************)

\* The array literal printed last (meaningful once pc = "done").
Table == stdout[Len(stdout)].lines

\* Index in original_entries of the last entry with code f, 0 if none.
LastEntry(f) == SelectLastInSeq(entries, LAMBDA e : e.ftype = f)

TypeOK ==
    /\ pc \in {"alloc", "fill", "defines", "done", "crashed"}
    /\ i \in Nat
    /\ full_array = <<>> \/ DOMAIN full_array = 0..(SlotCount - 1)
    /\ \A k \in DOMAIN formatted_lines :
         formatted_lines[k].kind \in {"named", "raw"}
    /\ \A k \in DOMAIN stdout : stdout[k].kind \in {"define", "array"}

\* Density (spec 8): a run that completes prints an array with exactly one
\* line per code 0..max_ftype, line f+1 describing code f (through its enum
\* member or its raw number), and one terminating line, the only one with a
\* negative length, last.  It is about the allocation comprehension, the
\* fill loop and the formatting comprehension together.
TableIsDense ==
    pc = "done" =>
        LET t == Table IN
        /\ Len(t) = max_ftype + 2
        /\ \A f \in 0..max_ftype :
             /\ t[f + 1].length >= 0
             /\ IF t[f + 1].kind = "named" THEN enum[t[f + 1].id] = f
                                          ELSE t[f + 1].id = f
        /\ t[Len(t)].length < 0

\* Last write wins (spec 4.1 and 8): a run that completes has placed every
\* entry of original_entries (none was dropped for lying past max_ftype),
\* and the line of every code is rendered from the last entry with that
\* code in list order, or from the empty placeholder when no entry has it.
LastEntryWins ==
    pc = "done" =>
        /\ \A k \in DOMAIN entries : entries[k].ftype <= max_ftype
        /\ \A f \in 0..max_ftype :
             Table[f + 1] =
                format_entry(IF LastEntry(f) = 0 THEN Placeholder(f)
                                                 ELSE Slot(entries[LastEntry(f)]))

\* Every symbol the array refers to (IPFIX_FT_<name> of a named line) is
\* defined by a #define printed before the array, with the code of that
\* line: the #define loop over the enum and the lookups of format_entry
\* agree on which member names a code, aliases included.
SymbolsDefined ==
    pc = "done" =>
        \A f \in 0..max_ftype :
            Table[f + 1].kind = "named" =>
                \E k \in 1..(Len(stdout) - 1) :
                    stdout[k] = [kind |-> "define", sym |-> Table[f + 1].id,
                                 value |-> f]

\* Spec 3 and 4.1: a slot no entry fills keeps an absent name and
\* documentation, and the table renders an absent name or documentation as
\* the null marker.  format_entry interpolates the placeholder's None into
\* a quoted f-string instead.
UnfilledSlotsRenderNull ==
    pc = "done" =>
        \A f \in 0..max_ftype :
            LastEntry(f) = 0 =>
                /\ Table[f + 1].name = NULL
                /\ Table[f + 1].documentation = NULL

\* Spec 4.1 and 7(b): an entry whose code exceeds max_ftype is silently
\* dropped, so the script always goes on to print the table.  The fill loop
\* assigns full_array[entry[1]] instead, and the IndexError aborts it.
ScriptCompletes == <>(pc = "done")

\* max_ftype is a hand-kept literal ("Determine the highest ftype"): once the
\* table is allocated, every member of the enum has a slot in it.  A member
\* past max_ftype with no entry raises nothing; it gets a #define and no
\* table line.
AllocationCoversEnum ==
    pc # "alloc" => \A k \in DOMAIN enum : enum[k] \in DOMAIN full_array

\* The text of a C string literal body: a " or a \ inside it must be
\* escaped, or it ends the literal or escapes the closing quote.
CLiteralBody(t) ==
    \A k \in 1..Len(t) : SubSeq(t, k, k) \notin {"\"", "\\"}

\* Spec 4.1: name and documentation are rendered as quoted text literals.
\* format_entry writes them between \" with no escaping, so every named
\* line printed must hold texts that are already valid literal bodies.
CStringLiteralsClosed ==
    pc = "done" =>
        \A k \in DOMAIN Table :
            Table[k].kind = "named" =>
                CLiteralBody(Table[k].name) /\ CLiteralBody(Table[k].documentation)

(***************************************************************************)
(* Refinement of the contract of spec 4.1                                  *)
(***************************************************************************)

\* The run as the contract sees it: running until the script prints the
\* array or aborts; its output is what stdout holds once the script has
\* stopped, normally or by an exception, so a line printed before an abort
\* is output the contract's Abort must not have.
FT == INSTANCE FieldTable WITH
        status <- CASE pc = "done"    -> "done"
                    [] pc = "crashed" -> "aborted"
                    [] OTHER          -> "running",
        out <- IF pc \in {"done", "crashed"} THEN stdout ELSE <<>>,
        Quote <- Quoted

\* The script implements the contract: a run that completes prints exactly
\* the #defines of the canonical members in order, then the dense table of
\* the last entry per code; a run aborts exactly when an entry lies past
\* max_ftype, printing nothing; and every run ends (under the script's own
\* progress, WF).
FieldTableSpec == FT!Spec

=============================================================================
