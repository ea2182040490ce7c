------------------------------ MODULE MCSearch ------------------------------
(***************************************************************************)
(* Memory without a segment; memory that holds occurrences that overlap,   *)
(* one after a part of itself, one at the end and one across the border of *)
(* segments, with a segment without data between; and memory that holds    *)
(* none.  The texts are the number 257, which is the bytes 1 1, the number *)
(* 0x17a, which is 1 and the character z, 0, which is no byte, and none.   *)
(***************************************************************************)
EXTENDS Search

Bytes(data) == [len |-> Len(data), data |-> data]

ThreeMemories ==
    { <<>>,
      << Bytes(<<1>>) >>,
      << Bytes(<<1, 1, 1, 1, 122>>), [len |-> 1, data |-> <<>>], Bytes(<<122, 1, 1>>) >> }

FourTexts == { <<>>, <<48>>, <<48, 120, 49, 55, 97>>, <<50, 53, 55>> }
=============================================================================
