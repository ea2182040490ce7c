-------------------------- MODULE MCMemlocManager --------------------------
(* Two adjacent segments, A and B of four bytes each, and memlocs that    *)
(* meet, overlap, nest and spill over the end of A.  An object is its       *)
(* segment, offset and length; a deleted object may be constructed again.   *)
EXTENDS MemlocManager, TLC

Memloc(s, x, n) == [seg |-> s, off |-> x, len |-> n]

MCSegs == {"A", "B"}
MCBase == [s \in MCSegs |-> IF s = "A" THEN 0 ELSE 4]
MCSegLen == [s \in MCSegs |-> 4]

MCObjs == {Memloc("A", 0, 2), Memloc("A", 2, 1), Memloc("A", 1, 2),
           Memloc("A", 3, 2), Memloc("B", 0, 1)}

(* A four byte instruction in B, and data of one byte: one that code in A   *)
(* refers to beyond the end of A, and one inside the instruction.           *)
MCBeyond == {Memloc("B", 0, 4), Memloc("A", 5, 1), Memloc("B", 2, 1)}

MCSeg == [o \in Objs |-> o.seg]
MCOff == [o \in Objs |-> o.off]
MCLen == [o \in Objs |-> o.len]

(* The two threads do the same. *)
MCSymmetry == Permutations(Threads)
=============================================================================
