-------------------------- MODULE MCGenFieldsReal --------------------------
(***************************************************************************)
(* GenFields on the literals the script ships with.  The enum is the value *)
(* column of class IPFIXFieldType in declaration order; original_entries  *)
(* is the "none" entry of code 0 followed by one entry per member, in      *)
(* member order, except BIFLOWDIRECTION (239), which has none.  An entry   *)
(* keeps its code and length; its coding and text are abstracted, its name *)
(* to ToString of its position.                                           *)
(***************************************************************************)
EXTENDS GenFields

\* The coding of every entry, a model value (codings are not told apart).
CONSTANT IPFIX_CODING

\* a, a+1, ..., b as a sequence.
Interval(a, b) == [k \in 1..(b - a + 1) |-> a + k - 1]

\* The member values of class IPFIXFieldType, in declaration order: the
\* NetFlow v9 / IPFIX codes up to 90, those from 128 to 239, and the PSAMP
\* and hash codes from 300.
RealEnumUpTo90 ==
    Interval(1, 42) \o Interval(44, 64) \o Interval(70, 81) \o <<85, 86, 88, 90>>

RealEnumUpTo239 == Interval(128, 228) \o <<230>> \o Interval(237, 239)

RealEnumFrom300 == Interval(300, 334)

RealEnum == RealEnumUpTo90 \o RealEnumUpTo239 \o RealEnumFrom300

\* The codes of original_entries, in list order.
RealEntryCodes == <<0>> \o SelectSeq(RealEnum, LAMBDA c : c # 239)

\* The length column of original_entries, in list order (65535 marks a
\* variable-length field): the first 109 entries, then the other 110.
RealLengthsHead ==
    <<
      0, 8, 8, 8, 1, 1, 1, 2, 4, 1, 4, 2, 4, 1, 4, 4, 4, 4, 4, 8, 8, 4, 4,
      8, 8, 8, 8, 16, 16, 1, 1, 4, 2, 1, 4, 1, 2, 2, 1, 1, 8, 8, 8, 4, 4, 1,
      4, 1, 1, 4, 4, 1, 1, 4, 1, 6, 6, 2, 2, 1, 1, 16, 16, 4, 65535, 65535,
      65535, 65535, 65535, 65535, 65535, 65535, 65535, 65535, 6, 6, 8, 8, 2,
      65535, 4, 4, 4, 16, 8, 8, 8, 8, 1, 8, 4, 2, 16, 4, 4, 4, 4, 2, 1,
      65535, 8, 4, 4, 4, 8, 8, 8, 8, 8
    >>

RealLengthsTail ==
    <<
      8, 4, 4, 8, 4, 4, 8, 8, 8, 8, 8, 8, 16, 16, 8, 8, 8, 8, 8, 1, 1, 1, 1,
      2, 2, 2, 2, 4, 4, 2, 2, 1, 1, 2, 2, 1, 1, 4, 1, 1, 1, 8, 8, 1, 4, 4,
      1, 4, 2, 1, 1, 4, 8, 65535, 4, 16, 4, 1, 1, 2, 2, 8, 8, 8, 8, 8, 8, 8,
      4, 4, 4, 4, 4, 1, 2, 8, 8, 2, 2, 2, 4, 4, 8, 8, 4, 4, 8, 4, 65535,
      65535, 65535, 65535, 65535, 8, 8, 8, 8, 4, 8, 8, 8, 8, 8, 8, 8, 8, 8,
      8, 1, 8
    >>

RealLengths == RealLengthsHead \o RealLengthsTail

RealEntries ==
    [k \in DOMAIN RealEntryCodes |->
        [eno |-> 0, ftype |-> RealEntryCodes[k], length |-> RealLengths[k],
         coding |-> IPFIX_CODING, name |-> ToString(k), documentation |-> ""]]

\* A max_ftype not bumped when HASHINITIALISERVALUE (334) was added
\* (AllocationCoversEnum).
RealMaxFtypeStale == 333

RealMaxFtype == 335

RealEnumInputs == {RealEnum}

RealEntryInputs == {RealEntries}

=============================================================================
