# TLA+ models of the cnetflow generator scripts

This directory holds TLA+ models of the two scripts under `src/scripts/`. It
also holds the TLC configurations that check them.

## 1. Inventory

### The system

The repository has two scripts. They are independent. Each runs once from the
command line, reads its input, builds its output in memory and prints it.
Neither has threads, callbacks, persistent state or retries. What can go wrong
comes from the input data and from the order of the script's own statements:
an index past the end of a list, a duplicate key, an alias, an empty list, an
exception raised half-way through.

| Component | Source | State | Operations |
|---|---|---|---|
| Field-table generator | `gen_fields.h.py` | The `IPFIXFieldType` IntEnum (219 members), `original_entries` (219 entries), `max_ftype` (335), `full_array`, `formatted_lines`, stdout | Allocate `max_ftype+1` placeholder slots (l.459). Fill each slot from the entries, later entries winning (l.463-465). Format each slot, named or raw (`format_entry`, l.469-485). Append the terminator (l.488). Print one `#define` per canonical member (l.490-491). Print the array (l.494-495). |
| SQL generator | `convert_conexiones.py` | `output1`, `output2`, the loaded JSON list, stdout | Read `conexiones_usuarios.json` (l.11-13). Append one tuple per record (l.15-17). Read `public_servers.json` (l.19-21). Append one tuple per record, splitting the address at `/` (l.23-28). Cut the last character, append `;` and print, for each statement (l.30-37). |
| C consumer of the table | not in this repository | — | It scans `ipfix_field_types` up to the length -1 terminator. |

The components do not interact with each other. Inside the field-table
generator, two loops read the same enum and their results must agree: the
table refers to `IPFIX_FT_<name>` symbols, and the `#define` loop must define
them. That is the one place where two parts of a script share state.

### What is hard here (the hazards in PROJECT.json)

* **Out-of-range code (`gen_fields.h.py:464`).** `full_array[entry[1]]` is an
  assignment into a Python list. A code past `max_ftype` raises IndexError and
  the script aborts. The spec (sections 4.1 and 7) says the entry is silently
  dropped instead.
* **Duplicate codes (l.464).** The later entry wins, with no warning.
* **A member with no entry (l.479).** Its slot keeps the placeholder's `None`.
  The f-string renders it as the text `"None"`. Today this happens to
  BIFLOWDIRECTION (239).
* **`max_ftype` is a literal (l.456).** A member past it, with no entry, gets a
  `#define` but no slot.
* **An empty list (`convert_conexiones.py:30`).** The cut removes the space
  after VALUES, leaving `INSERT INTO ips VALUES;`.
* **An abort in either loop (l.17, l.25-27).** The exception is raised after
  part of the work is done. Output must then be all or nothing.
* **Unescaped values (l.17, l.28).** A value holding `'` closes its SQL
  literal early.
* **Addresses with several `/` (l.25).** Parts after the second are dropped
  with no error.
* **Unescaped C text (`gen_fields.h.py:479`).** `name` and `documentation`
  are pasted between `\"` with no escaping. A `"` or `\` in them breaks the
  generated header.

### Properties that make each component correct

* **Field-table generator.** When the script completes, the table is dense
  over 0..max_ftype and ends with exactly one terminator. Every slot is
  rendered from the last entry with its code. No entry was lost. Every symbol
  the table uses has a matching `#define`. An unfilled slot renders as the
  null marker. Every enum member has a slot. As a whole, the script does
  what the spec's one-step `buildTable`/`renderTable` contract says.
* **SQL generator.** Each statement carries exactly its file's records, in
  order, with no dangling comma. A run that aborts prints nothing. Every
  statement has at least one tuple. Every `'` of a tuple delimits a literal.

## 2. Plan

1. **`GenFields` (done).** The field-table generator, with small inputs
   (`MCGenFields`) and the shipped literals (`MCGenFieldsReal`). This is the
   script the spec describes and the one whose output is compiled into
   cnetflow, so it comes first.
2. **`ConvertConexiones` (done).** The SQL generator.
3. **`FieldTable` and the refinement (done).** The spec's contract as one
   atomic step, and `GenFields` shown to implement it.
4. **Every member has a slot (done)**, checked on the shipped literals.
5. **Quoting in the SQL generator (done).** Records carry the number of `'`
   in their values.
6. **Address splitting and C-literal escaping (done).** A servers address is
   the sequence of its `/`-separated parts. Entry documentation is a real
   string that may hold `"`.
7. **Left open.** The refinement on the shipped literals (see Runs).

Nothing here runs concurrently, so there are no symmetry sets and no process
fairness beyond the script's own progress.

## 3. Modules

### `GenFields.tla`

Variables: `enum`, `entries`, `pc`, `full_array`, `i`, `formatted_lines`,
`stdout`.

* **Inputs.** `enum` and `entries` are the script's literals. They are chosen
  in `Init` from `EnumInputs` and `EntryInputs`, and never change after that.
  An enum member is named by its declaration position, so `enum` is the
  sequence of member values.
* **Program counter.** `pc` follows the script's top-level statements: `alloc`,
  `fill`, `defines`, then `done` or `crashed`.
* **IntEnum semantics.** These are operators: `EnumValues` is what
  `IPFIXFieldType(x)` accepts, `Canonical` is `.name` (the first member with
  the value), and `Members` is iteration order without aliases.
* **Actions.** Each action is one statement or one loop iteration:
  * `InitFullArray` is l.459.
  * `FillEntry` and `FillEntryIndexError` are one iteration of l.463-465,
    normal and aborting.
  * `FormatTable` is the comprehension plus the terminator (l.484-488).
  * `PrintDefine` is one iteration of l.490-491.
  * `PrintArray` is l.494-495.
* **Output.** A printed line is a record with `kind`, `eno`, `id` (a symbol or
  a number), `length`, `coding`, `name` and `documentation`. `None` and `NULL`
  are model values. `Quoted` keeps the f-string conversion of `None` to the
  text `"None"`.

### `FieldTable.tla`

The abstract contract of spec section 4.1. It has the same inputs as
`GenFields`, plus `status` (`running`, `done`, `aborted`) and `out`. One
step, `Emit`, prints every symbol definition and then the whole dense table:
each slot comes from the last entry with its code, or is the placeholder.
The other step, `Abort`, stops with no output when some entry's code has no
slot. How an absent name is written is the constant operator `Quote`.

`GenFields` instantiates it as `FT` with this mapping:

* `status` is `done` when `pc = "done"`, `aborted` when `pc = "crashed"`, and
  `running` otherwise;
* `out` is `stdout` once the script has stopped (`done` or `crashed`), and
  empty while it runs. A line printed before an abort is therefore output
  that the contract's `Abort` step does not allow;
* `Quote` is `Quoted`.

`FieldTableSpec == FT!Spec` is checked as a PROPERTY, fairness included. It
therefore says three things:

* the fill, format and print steps together produce the contract's output;
* an abort prints nothing;
* the script always ends.

### `ConvertConexiones.tla`

Variables: `usuarios`, `servers` (the file contents, or `Missing`), `pc`,
`services`, `i`, `output1`, `output2`, `stdout`.

* **Records.** A usuarios record is `[id, ok, quotes]`. `ok = FALSE` is a
  record missing one of the five keys (KeyError). A servers record is
  `[id, quotes, address]`, where `address` is `service[0].split("/")`, the
  sequence of its parts. An address of one part raises IndexError at l.27.
  `quotes` counts the `'` characters in a record's text values.
* **Tuples.** A tuple token carries the record's id and the count of `'` in
  the formatted tuple: six delimiters plus `quotes`. A services tuple also
  carries the address parts it prints, `<<addr, cidr>>`.
* **Statements.** A statement is a sequence of tokens: the head, one token for
  each separator character, and one token per tuple. The code's
  last-character cut is therefore `Front`.
* **Actions.** Each read and each loop iteration has a normal action and a
  failing one. `PrintIps` and `PrintServices` are l.30-32 and l.35-37.

## 4. Runs

| Run | Config | Expect | What it shows |
|---|---|---|---|
| `gen_fields_small` | `MCGenFields.cfg` | pass | See below. |
| `gen_fields_shipped_none` | `MCGenFieldsReal.cfg` | violation | `UnfilledSlotsRenderNull` fails on the shipped literals. Slot 239 is printed as `{0, IPFIX_FT_BIFLOWDIRECTION, 0,0,"None", "None"}`. |
| `gen_fields_out_of_range` | `MCGenFieldsAbort.cfg` | violation | `ScriptCompletes` fails. An entry past `max_ftype` aborts the script (IndexError) instead of being dropped as spec 7(b) says. |
| `sql_small` | `MCConvertConexiones.cfg` | pass | See below. |
| `gen_fields_refines` | `MCGenFieldsRefine.cfg` | pass | `FieldTableSpec` holds. Over the same 13,260 inputs as `gen_fields_small`, `GenFields` implements `FieldTable`. |
| `gen_fields_shipped` | `MCGenFieldsRealPass.cfg` | pass | On the shipped literals, `AllocationCoversEnum` holds: `max_ftype = 335` leaves no member without a slot. (442 states). |
| `sql_quoted_value` | `MCConvertConexionesQuote.cfg` | violation | `TuplesWellQuoted` fails. A value holding `'` is interpolated unescaped. |
| `sql_address_split` | `MCConvertConexionesSplit.cfg` | violation | `AddressesKept` fails. `a/b/c` is printed as addr `a`, cidr `b`. |
| `gen_fields_unescaped_doc` | `MCGenFieldsDoc.cfg` | violation | `CStringLiteralsClosed` fails. A documentation text with `"` ends its C literal early. |
| `sql_empty_list` | `MCConvertConexionesEmpty.cfg` | violation | `StatementHasValues` fails. An empty JSON list prints `INSERT INTO ... VALUES;`. |

**`gen_fields_small`** checks `TypeOK`, `TableIsDense`, `LastEntryWins` and
`SymbolsDefined`. It covers all 13,260 combinations of the inputs (86,445
states).

**`sql_small`** checks `TypeOK`, `StatementsCarryRecords` and
`NoOutputOnAbort`.

**Bounds.** `MCGenFields` uses `max_ftype = 3`, enums of up to 3 members with
values in 1..4, and entry lists of up to 3 entries with codes in 0..4. That
is enough to produce:

* an alias (a repeated value);
* a member past `max_ftype`;
* a duplicate entry, and a triple;
* the reserved code 0;
* an out-of-range entry, before or after good ones;
* members with and without entries.

`MCConvertConexiones` uses files that are missing, or hold 0, 1 or 2
records, each good or bad. That covers the empty list, a failure in either
loop after a successful record, and the comma-joining of two tuples.

Its servers addresses have one, two or three parts (`MCAddresses`). So the
IndexError, the normal split and the dropped third part all occur.

`MCGenFieldsDoc.cfg` uses lists of up to two entries, each documented by
`""` or by a text holding `"`.

`MCConvertConexionesQuote` uses the same files as `MCConvertConexiones`, but
a value may hold one `'`.

The refinement is checked on the small inputs only. Under weak fairness, TLC
evaluates `ENABLED` of the abstract step in every state, and that recomputes
the 336-slot table each time. On the shipped literals this did not finish in
30 minutes. The shipped data gets the invariant `AllocationCoversEnum`
instead. The shipped codes are unique, so on them the contract's table and
the script's fill loop cannot differ. The refinement without fairness would
check nothing the small inputs do not.

`MCGenFieldsReal` runs the shipped data. Its enum is the value column of the
class. Its entries are the "none" entry followed by one entry per member
except 239, which is the order in the source. An entry keeps its real
length (`RealLengthsHead`, `RealLengthsTail`). Its text is abstracted to its
position, and its coding to one model value. The enum literal is split into
the three blocks of codes it declares (up to 90, 128-239, from 300).

Every property of a passing run has a mutant in PROJECT.json. The mutant is a
faulty variant of a step, defined in the module just before the steps, and
TLC finds the property violated when the mutant replaces the step:

* a table one slot short, or indexed from 1;
* an iteration that yields aliases (a `#define` the contract does not have);
* a `max_ftype` literal of 333, below the highest member (334);
* first-write-wins;
* the array printed before the last `#define`;
* no comma cut;
* the ips statement printed before the second file is read;
* a loop cursor that is not reset.

**Deadlock.** Both scripts end. `done` and `crashed` are real final states, so
the configs say `CHECK_DEADLOCK FALSE`.

**Fairness.** `WF_vars(Next)` models a single-threaded script that never
blocks. It is needed for `ScriptCompletes` and for the fairness conjunct of
`FieldTableSpec`. `FieldTable` has the same weak fairness. Its run must end
in one step.

## 5. Not modelled

* **Character-level text.** Names, lengths and codings are abstracted to
  values that tell entries apart. Documentation is a string only in
  `MCGenFieldsDoc`. The layout of the generated C
  and SQL is also abstracted. The `None` → `"None"` conversion and the
  last-character cut are kept, because properties are about them.
* **The C consumer and its struct layout.** They are not in this repository.
  The width of its length field is therefore unknown. The terminator's -1
  and the 65535 of 18 shipped entries are distinct values in the script's
  output. Whether the consumer tells them apart cannot be decided from
  this code.
* **Alias agreement and the raw path.** Python's Enum makes lookup and
  iteration agree on the canonical name. The raw rendering of a code that
  is not a member is what spec 4.1 prescribes. Neither is a hazard of this
  code, and neither is listed as one.
* **JSON parsing details.** A file that cannot be opened or parsed is
  `Missing`. A usuarios record the f-string cannot format has `ok = FALSE`.
  A servers record that is too short (`service[3]` raising IndexError at
  l.28) is not told apart from a one-part address. Both abort main() in the
  same loop iteration, before anything is appended.
