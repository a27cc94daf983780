---------------------------- MODULE MCQuickDisk -----------------------------
(***************************************************************************)
(* An instance for TLC: one disk, with one block and room for another.      *)
(***************************************************************************)
EXTENDS QuickDisk

\* A disk with the characters of chars, then nothing.
Disk(chars) == [p \in Track |-> IF p < Len(chars) THEN chars[p + 1] ELSE "empty"]

MCImages == {Disk(<<"break", "sync", "sync", "data", "break">>)}
=============================================================================
