----------------------------- MODULE MCAnalysis -----------------------------
(* A segment of fifteen bytes: a function that calls another, loads a word  *)
(* from behind the code, calls itself and returns; the other loads a byte   *)
(* that lies inside the first call and branches back to it.  And one byte   *)
(* of a segment without contents.  The user points at the first call, at    *)
(* the second, into the middle of the second, where the bytes decode to a   *)
(* load from beyond the segment, at the byte before the other function,     *)
(* where a word covers the start of that function, and at the other         *)
(* segment.  An instruction has two bytes here, a datum one or two.         *)
EXTENDS Analysis

Insn(c, t, l, d, n) ==
  [continues |-> c, target |-> t, links |-> l, dref |-> d, dlen |-> n]

Stop == Insn(FALSE, NoAddr, FALSE, NoAddr, 1)

MCMem == 0 .. 14 \cup {20}

(* 0: bl 9;  2: ldr 13;  4: bl 0;  6: bx;  9: ldrb 1;  11: b 0;  5: ldr 15.*)
(* The byte at 1 can be created while the call at 0 is not defined.         *)
MCDecode ==
  [a \in Mem |->
     CASE a = 0 -> Insn(TRUE, 9, TRUE, NoAddr, 1)
       [] a = 2 -> Insn(TRUE, NoAddr, FALSE, 13, 2)
       [] a = 4 -> Insn(TRUE, 0, TRUE, NoAddr, 1)
       [] a = 9 -> Insn(TRUE, NoAddr, FALSE, 1, 1)
       [] a = 11 -> Insn(FALSE, 0, FALSE, NoAddr, 1)
       [] a = 5 -> Insn(FALSE, NoAddr, FALSE, 15, 2)
       [] a = 20 -> NoInsn
       [] OTHER -> Stop]
=============================================================================
