------------------------------ MODULE Fragments ------------------------------
(***************************************************************************)
(* How deliver.c of lab2 and lab3 slices a file into numbered fragments:   *)
(* the number of fragments and, for each, the size field it carries and    *)
(* the bytes of the file behind it.  Lengths are in bytes; the contents of *)
(* a byte do not matter, only whether it comes from the file or is one of  *)
(* the NULs the fragment buffer was cleared with.                          *)
(***************************************************************************)
EXTENDS Integers

CONSTANTS
    FileLen,    \* ftell at the end of the input file
    DataSize,   \* DATA_SIZE
    AckLen      \* length of the reply text "ACK" with its terminating NUL

ASSUME SizesAssumption ==
    /\ FileLen \in Nat
    /\ DataSize \in Nat
    /\ AckLen \in Nat
    /\ 0 < AckLen /\ AckLen <= DataSize

total_frag == FileLen \div DataSize + 1

Frags == 1..total_frag

\* Mutant of FragSize: the last fragment is sent as if full.
FullSize(k) == DataSize

\* The size field.  The last fragment's is (FileLen - 1) % DataSize + 1 in C,
\* whose remainder truncates towards zero: an empty file gives size 0.
FragSize(k) ==
    IF k # total_frag THEN DataSize
    ELSE IF FileLen = 0 THEN 0 ELSE ((FileLen - 1) % DataSize) + 1

\* What fread put in the cleared buffer of fragment k.
BytesRead(k) ==
    LET left == FileLen - (k - 1) * DataSize
    IN  IF left < DataSize THEN left ELSE DataSize

\* The bytes fragment k carries beyond those read from the file.
Padding(k) == FragSize(k) - BytesRead(k)

=============================================================================
