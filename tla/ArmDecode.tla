----------------------------- MODULE ArmDecode -----------------------------
(***************************************************************************)
(* An ARM instruction is decoded twice: decode_pcflow() and                *)
(* decode_data_refs() (dec_op.cpp) find out where it goes on and what it   *)
(* refers to, get_textual() (disasm.cpp) how it is listed.  A word is the  *)
(* set of its bits; an address is an offset in the one segment, which      *)
(* begins at value 0.                                                      *)
(***************************************************************************)
EXTENDS ArmTable, FiniteSetsExt, SequencesExt

CONSTANTS
    SegLen,  \* length of the segment
    Named,   \* addresses that have a symbol
    NoAddr,  \* what address_t() makes
    Heap     \* the byte, as a set of bits, that a read behind the segment finds

ASSUME ArmAssumption == SegLen \in Nat \ {0} /\ Named \subseteq Int /\ Heap \subseteq 0 .. 7

Valid(a) == 0 <= a /\ a < SegLen

\* The number with these of the bits 0 .. 31.
Number(bits) ==
    LET sum[n \in 0 .. 32] ==
            IF n = 0 THEN 0 ELSE sum[n - 1] + (IF n - 1 \in bits THEN 2 ^ (n - 1) ELSE 0)
    IN  sum[32]

\* n bits of a word from bit lo on, as a set and as a number.
Slice(word, lo, n) == {i \in 0 .. n - 1 : lo + i \in word}
Field(word, lo, n) == Number(Slice(word, lo, n))

\* ldw(): four bytes, the lowest first; only the first must be readable.
Byte(mem, a) == IF Valid(a) THEN mem[a] ELSE Heap
Word(mem, a) == UNION {{8 * k + i : i \in Byte(mem, a + k)} : k \in 0 .. 3}

\* locateAddress() of a value of 32 bits.
Located(bits) ==
    IF bits \subseteq 0 .. 27 /\ Valid(Number(bits)) THEN Number(bits) ELSE NoAddr

-----------------------------------------------------------------------------
(* decode_pcflow(): the first test that holds decides. *)

Flow(mask, value, class) == [mask |-> Bits(mask), value |-> Bits(value), class |-> class]

FlowTests == <<
    Flow(\h0ffffff0, \h012fff10, "bx"),
    Flow(\h0f000000, \h0f000000, "swi"),
    Flow(\h0e000000, \h0a000000, "b"),
    Flow(\h0fbf0fff, \h010f0000, "mrs"),
    Flow(\h0fb0fff0, \h0120f000, "mrs"),
    Flow(\h0fb0f000, \h0320f000, "mrs"),
    Flow(\h0fc000f0, \h00000090, "mul"),
    Flow(\h0f8000f0, \h00800090, "umull"),
    Flow(\h0c000000, \h04000000, "ldr"),
    Flow(\h0f000010, \h0e000010, "mcr"),
    Flow(\h0fb00ff0, \h01000090, "swp"),
    Flow(\h0e000090, \h00000090, "ldrh"),
    Flow(\h0e000000, \h08000000, "ldm"),
    Flow(\h0c000000, \h00000000, "alu"),
    Flow(0, 0, "undf") >>

\* The offset of a branch: 24 bits that count words, and a sign.
BranchOffset(word) ==
    LET n == 4 * Field(word, 0, 24) IN IF 23 \in word THEN n - 2 ^ 26 ELSE n

\* The immediate of data processing: eight bits that are rotated right by an
\* even number.  A rotation by 0 shifts left by 32, which x86 takes for 0.
OpB(word) ==
    LET ror == 2 * Field(word, 8, 4)
    IN  {(i + 32 - ror) % 32 : i \in Slice(word, 0, 8)}

Class(word) == FlowTests[SelectInSeq(FlowTests, LAMBDA t : Matches(word, t))].class

IsPc(word, lo) == Slice(word, lo, 4) = 0 .. 3
Load(word)     == 20 \in word
AluOp(word)    == Field(word, 21, 4)

\* Mutant: a load of several registers does not count.
WritesPcAlone(class, word) ==
    CASE class = "mul"   -> IsPc(word, 16)
      [] class = "umull" -> IsPc(word, 16) \/ IsPc(word, 12)
      [] class \in {"ldr", "mcr"} -> Load(word) /\ IsPc(word, 12)
      [] class = "swp"   -> IsPc(word, 12)
      [] class = "ldrh"  -> 5 \in word /\ Load(word) /\ IsPc(word, 12)
      [] class = "alu"   -> AluOp(word) \notin 8 .. 11 /\ IsPc(word, 12)
      [] OTHER           -> FALSE

\* LDRSB is bits 6 and 5 = 10, which are not asked for a load.
WritesPc(class, word) ==
    CASE class = "mul"   -> IsPc(word, 16)
      [] class = "umull" -> IsPc(word, 16) \/ IsPc(word, 12)
      [] class \in {"ldr", "mcr"} -> Load(word) /\ IsPc(word, 12)
      [] class = "swp"   -> IsPc(word, 12)
      [] class = "ldrh"  -> \/ 5 \in word /\ Load(word) /\ IsPc(word, 12)
                            \/ 6 \in word /\ 5 \notin word /\ IsPc(word, 12)
      [] class = "ldm"   -> Load(word) /\ 15 \in word
      [] class = "alu"   -> AluOp(word) \notin 8 .. 11 /\ IsPc(word, 12)
      [] OTHER           -> FALSE

\* MOV or MVN of an immediate: the only jumps whose target ALU code knows.
KnownResult(word) == AluOp(word) \in {13, 15} /\ 25 \in word
Result(word) == IF AluOp(word) = 13 THEN OpB(word) ELSE (0 .. 31) \ OpB(word)

Unconditional(word) == Slice(word, 28, 4) = {1, 2, 3}

Goes(continues, loc, link, target) ==
    [continues |-> continues, loc |-> loc, link |-> link, target |-> target]

\* An instruction that may be skipped continues.
OrSkipped(word, f) == [f EXCEPT !.continues = @ \/ ~Unconditional(word)]

PcFlow(word, addr) ==
    LET class == Class(word)
        link  == 24 \in word
    IN  CASE class = "undf" -> Goes(FALSE, "none", FALSE, NoAddr)
          [] class = "bx"   -> OrSkipped(word, Goes(FALSE, "ind", FALSE, NoAddr))
          [] class = "swi"  -> Goes(TRUE, "ind", FALSE, NoAddr)
          [] class = "b"    -> OrSkipped(word, Goes(link, "dir", link,
                                                    addr + BranchOffset(word) + 8))
          [] WritesPc(class, word) /\ class = "alu" /\ KnownResult(word) ->
               OrSkipped(word, Goes(FALSE, "dir", FALSE, Located(Result(word))))
          [] WritesPc(class, word) /\ ~(class = "alu" /\ KnownResult(word)) ->
               OrSkipped(word, Goes(FALSE, "ind", FALSE, NoAddr))
          [] OTHER          -> Goes(TRUE, "none", FALSE, NoAddr)

\* decode_data_refs(): a load relative to the program counter.
Refers(word) ==
    /\ word \cap {26, 27} = {26}
    /\ IsPc(word, 16)
    /\ 25 \notin word
    /\ Load(word)

\* Mutant: the prefetch is left out.
DataRefUnbiased(word, addr) ==
    IF ~Refers(word) THEN NoAddr
    ELSE addr + (IF 24 \notin word THEN 0
                 ELSE IF 23 \in word THEN Field(word, 0, 12) ELSE -Field(word, 0, 12))

DataRef(word, addr) ==
    IF ~Refers(word) THEN NoAddr
    ELSE addr + 8 + (IF 24 \notin word THEN 0
                     ELSE IF 23 \in word THEN Field(word, 0, 12) ELSE -Field(word, 0, 12))

\* What it is taken for: one byte or four.
DataSize(word) == IF 22 \in word THEN 1 ELSE 4

-----------------------------------------------------------------------------
(* get_textual() *)

Reg(n) == <<"reg", n>>

\* ldw(), of a program that may end before the address.
LoadWord(mem, a) == IF Valid(a) THEN <<Word(mem, a)>> ELSE <<>>

\* write_addr(): the word itself where its address is known and readable.
\* The offset is added whatever the up bit says.
Address(mem, word, immediate, offset, pc) ==
    LET base == Field(word, 16, 4)
        back == 21 \in word
        form == [base |-> Reg(base), pre |-> 24 \in word, up |-> 23 \in word, back |-> back]
        to   == pc + Number(offset)
        read == LoadWord(mem, to)
    IN  IF base = 15 /\ ~back /\ immediate /\ read # <<>>
        THEN <<"literal", to, read[1]>>
        ELSE <<"memory", form, IF immediate THEN "by" ELSE "register", offset>>

\* write_jump(), of the low 24 bits.
JumpBytes(field) ==
    LET n == Number({i + 2 : i \in field}) IN IF 25 - 2 \in field THEN n - 2 ^ 26 ELSE n

WriteJump(word, pc) ==
    LET off == JumpBytes(Slice(word, 0, 24))
        to  == pc + off
    IN  CASE to \in Named                  -> <<"symbol", to>>
          [] to \notin Named /\ Valid(to)  -> <<"address", to>>
          [] to \notin Named /\ ~Valid(to) /\ Valid(pc) /\ off < 0 /\ -off > pc -> <<"stub">>
          [] OTHER                         -> <<>>

\* write_barrelshift()
Shifted(word) ==
    LET reg  == Reg(Field(word, 0, 4))
        kind == Field(word, 5, 2)
        by   == Field(word, 7, 5)
    IN  IF Slice(word, 4, 8) = {} THEN <<"shift", reg, "none", 0>>
        ELSE IF 4 \in word THEN <<"shift", reg, kind, Field(word, 8, 4)>>
        ELSE IF by = 0 /\ kind = 3 THEN <<"shift", reg, "rrx", 0>>
        ELSE <<"shift", reg, kind, by>>

\* The immediate as it is listed.
Immediate(word) ==
    LET rot == Number(Slice(word, 7, 5) \ {0})
    IN  {(i + 32 - rot) % 32 : i \in Slice(word, 0, 8)}

Signed(bits) == IF 31 \in bits THEN -Number((0 .. 31) \ bits) - 1 ELSE Number(bits)

\* writeImmed(): in decimal, in hexadecimal or both, which depends on its
\* size and on how many bits are set in its halves.
WriteImmed(bits) ==
    LET n    == Signed(bits)
        ones == {Cardinality(Slice(bits, lo, 16)) : lo \in {0, 16}}
    IN  <<"immediate", bits,
          CASE n \in -255 .. 255 -> {"decimal"}
            [] n \notin -255 .. 255 /\ ones \cap (0 .. 4 \cup {16}) # {} -> {"hex"}
            [] n \notin -255 .. 255 /\ ones \cap (0 .. 4 \cup {16}) = {} ->
                 IF n % 1000 = 0 THEN {"decimal"} ELSE {"decimal", "hex"}>>

\* write_cond(): nothing for an instruction that is always executed.
WriteCond(n) == IF n = 14 THEN <<>> ELSE <<"cond", n>>

\* write_multireg(): the registers as ranges, which it prints in their order.
WriteMultireg(regs) ==
    LET ranges == {r \in regs \X regs :
                      /\ r[1] <= r[2] /\ r[1] .. r[2] \subseteq regs
                      /\ {r[1] - 1, r[2] + 1} \cap regs = {}}
    IN  <<"regs", ranges>>

\* write_multindex()
MultIndex(pre, up) == <<"index", IF pre THEN "before" ELSE "after", IF up THEN "up" ELSE "down">>

\* Which of two halves a multiplication takes.
Half(word, i) == IF i \in word THEN "t" ELSE "b"

Operand(o, mem, word, addr) ==
    LET e == o[1] IN
    CASE e \in {"b", "d", "l", "^"} -> <<e, 22 \in word>>
      [] e = "!" -> <<e, 21 \in word>>
      [] e = "s" -> <<e, 20 \in word>>
      [] e = "u" -> <<e, 22 \in word>>
      [] e = "a" -> Address(mem, word, 25 \notin word, Slice(word, 0, 12), addr + 8)
      [] e = "A" -> Address(mem, word, 22 \in word,
                            IF 22 \in word
                            THEN {i + 4 : i \in Slice(word, 8, 4)} \cup Slice(word, 0, 4)
                            ELSE Slice(word, 0, 4), addr + 8)
      [] e = "B" -> <<e, <<"?", "h", "sb", "sb">>[Field(word, 5, 2) + 1]>>
      [] e = "c" -> WriteCond(Field(word, 28, 4))
      [] e = "t" -> IF Slice(word, 28, 4) = 0 .. 3 THEN <<"2">> ELSE WriteCond(Field(word, 28, 4))
      [] e = "r" -> Reg(Field(word, o[2], 4))
      [] e = "C" -> <<"c", Reg(Field(word, o[2], 4))>>
      [] e = "i" -> <<e, Slice(word, 0, 24)>>
      [] e = "j" -> WriteJump(word, addr + 8)
      [] e = "k" -> <<e, {i + 4 : i \in Slice(word, 8, 12)} \cup Slice(word, 0, 4)>>
      [] e = "m" -> WriteMultireg(Slice(word, 0, 16))
      [] e = "M" -> MultIndex(24 \in word, 23 \in word)
      [] e = "o" -> IF 25 \in word THEN WriteImmed(Immediate(word)) ELSE Shifted(word)
      [] e = "p" -> <<e, Field(word, 8, 4)>>
      [] e = "W" -> IF o[2] \in word THEN <<"w", Half(word, 6)>>
                    ELSE <<Half(word, 5), Half(word, 6)>>
      [] e = "x" -> <<e, Field(word, o[2], IF o[2] % 4 = 0 THEN 4 ELSE 3)>>
      [] OTHER -> <<>>

RowOf(word) == arm_insns[SelectInSeq(arm_insns, LAMBDA row : Matches(word, row))]

Textual(mem, word, addr) ==
    LET row == RowOf(word)
    IN  [name |-> row.name,
         operands |-> [i \in DOMAIN row.operands |->
                         Operand(row.operands[i], mem, word, addr)]]
=============================================================================
