------------------------------ MODULE ArmTable ------------------------------
(***************************************************************************)
(* The table by which an instruction is listed, arm_insns of disasm.cpp.   *)
(* A word is the set of its bits that are one.  A row is what the bits of  *)
(* its mask must be, the name it prints and the operands after it; what is *)
(* printed between them is left out.  An operand is the letter of its      *)
(* escape, with a number where it has one.                                 *)
(***************************************************************************)
EXTENDS Integers, Sequences

Bits(n) == {i \in 0 .. 27 : (n \div 2 ^ i) % 2 = 1}
Condition(c) == {28 + i : i \in {j \in 0 .. 3 : (c \div 2 ^ j) % 2 = 1}}

Row(mask, value, name, operands) ==
    [mask |-> Bits(mask), value |-> Bits(value), name |-> name, operands |-> operands]

\* A row that looks at the condition as well.
RowIf(c, mask, value, name, operands) ==
    [mask |-> Condition(15) \cup Bits(mask), value |-> Condition(c) \cup Bits(value),
     name |-> name, operands |-> operands]

R(i) == <<"r", i>>
X(i) == <<"x", i>>
C(i) == <<"C", i>>
W(i) == <<"W", i>>
O(c) == <<c>>

Branches == <<
    Row(\h0ffffff0, \h012fff10, "bx", <<O("c"), R(0)>>),
    Row(\h0f000000, \h0f000000, "swi", <<O("c"), O("i")>>),
    Row(\h0f000000, \h0a000000, "b", <<O("c"), O("j")>>),
    Row(\h0f000000, \h0b000000, "bl", <<O("c"), O("j")>>) >>

\* The name of a long multiplication begins with the escape u.
Multiplications == <<
    Row(\h0fe000f0, \h00000090, "mul", <<O("c"), O("s"), R(16), R(0), R(8)>>),
    Row(\h0fe000f0, \h00200090, "mla", <<O("c"), O("s"), R(16), R(0), R(8), R(12)>>),
    Row(\h0fa000f0, \h00800090, "mull", <<O("u"), O("c"), O("s"), R(12), R(16), R(0), R(8)>>),
    Row(\h0fa000f0, \h00a00090, "mlal", <<O("u"), O("c"), O("s"), R(12), R(16), R(0), R(8)>>) >>

StatusMoves == <<
    Row(\h0fff0fff, \h010f0000, "mrs_cpsr", <<O("c"), R(12)>>),
    Row(\h0fff0fff, \h014f0000, "mrs_spsr", <<O("c"), R(12)>>),
    Row(\h0db1f000, \h0121f000, "msr_cpsr_all", <<O("c"), R(0)>>),
    Row(\h0db1f000, \h0161f000, "msr_spsr_all", <<O("c"), R(0)>>),
    Row(\h0db1f000, \h0120f000, "msr_cpsr_flg", <<O("c"), O("o")>>),
    Row(\h0db1f000, \h0160f000, "msr_spsr_flg", <<O("c"), O("o")>>) >>

Transfers == <<
    Row(\h0d700000, \h04300000, "ldrt", <<O("c"), O("b"), R(12), O("a")>>),
    Row(\h0d700000, \h04200000, "strt", <<O("c"), O("b"), R(12), O("a")>>),
    Row(\h0c100000, \h04100000, "ldr", <<O("c"), O("b"), R(12), O("a")>>),
    Row(\h0c100000, \h04000000, "str", <<O("c"), O("b"), R(12), O("a")>>),
    Row(\h0fb00ff0, \h01000090, "swp", <<O("c"), O("b"), R(12), R(0), R(16)>>),
    Row(\h0e100090, \h00100090, "ldrh", <<O("c"), O("B"), R(12), O("A")>>),
    Row(\h0e100090, \h00000090, "strh", <<O("c"), O("B"), R(12), O("A")>>),
    Row(\h0e100000, \h08100000, "ldm", <<O("c"), O("M"), R(16), O("!"), O("m"), O("^")>>),
    Row(\h0e100000, \h08000000, "stm", <<O("c"), O("M"), R(16), O("!"), O("m"), O("^")>>) >>

\* Data processing with two operands, without a result, and with one operand.
Alu(value, name)     == Row(\h0de00000, value, name, <<O("c"), O("s"), R(12), R(16), O("o")>>)
Test(value, name)    == Row(\h0de00000, value, name, <<O("c"), R(16), O("o")>>)
MoveRow(value, name) == Row(\h0de00000, value, name, <<O("c"), O("s"), R(12), O("o")>>)

DataProcessing == <<
    Alu(\h00000000, "and"), Alu(\h00200000, "eor"), Alu(\h00400000, "sub"),
    Alu(\h00600000, "rsb"), Alu(\h00800000, "add"), Alu(\h00a00000, "adc"),
    Alu(\h00c00000, "sbc"), Alu(\h00e00000, "rsc"),
    Test(\h01000000, "tst"), Test(\h01200000, "teq"),
    Row(\h0df00000, \h01500000, "cmp", <<O("c"), R(16), O("o")>>),
    Test(\h01600000, "cmn"), Alu(\h01800000, "orr"),
    Row(\h0fffffff, \h01a00000, "nop", <<O("c")>>),
    MoveRow(\h01a00000, "mov"), Alu(\h01c00000, "bic"), MoveRow(\h01e00000, "mvn") >>

Later == <<
    RowIf(14, \h0ff000f0, \h01200070, "bkpt", <<O("k")>>),
    RowIf(15, \h0e000000, \h0c000000, "blx", <<O("j")>>),
    Row(\h0ff000f0, \h01200030, "blx", <<O("c"), R(0)>>),
    Row(\h0ff000f0, \h01600010, "clz", <<O("c"), R(12), R(0)>>),
    Row(\h0e100ff0, \h001000f0, "ldrd", <<O("c"), R(12), O("A")>>),
    Row(\h0e100ff0, \h000000f0, "strd", <<O("c"), R(12), O("A")>>) >>

Coprocessor == <<
    Row(\h0f100010, \h0e000010, "mcr", <<O("t"), O("p"), X(21), R(12), C(16), C(0), X(5)>>),
    Row(\h0f100010, \h0e100010, "mrc", <<O("t"), O("p"), X(21), R(12), C(16), C(0), X(5)>>),
    Row(\h0e100000, \h0c000000, "stc", <<O("t"), O("l"), O("p"), C(12), O("a")>>),
    Row(\h0e100000, \h0c100000, "ldc", <<O("t"), O("l"), O("p"), C(12), O("a")>>),
    Row(\h0f000010, \h0e000000, "cdp", <<O("t"), O("p"), X(20), C(12), C(16), C(0), X(5)>>),
    Row(\h0ff00000, \h0c400000, "mcrr", <<O("c"), O("p"), X(0), R(12), R(16), C(0)>>),
    Row(\h0ff00000, \h0c500000, "mrrc", <<O("c"), O("p"), X(0), R(12), R(16), C(0)>>),
    RowIf(15, \h0d70f000, \h0550f000, "pld", <<O("a")>>) >>

Saturating == <<
    Row(\h0fb000f0, \h01000050, "qadd", <<O("d"), O("c"), R(12), R(0), R(16)>>),
    Row(\h0fb000f0, \h01200050, "qsub", <<O("d"), O("c"), R(12), R(0), R(16)>>),
    Row(\h0fb00090, \h01200080, "smul", <<W(22), O("c"), R(16), R(0), R(8)>>),
    Row(\h0f900090, \h01000080, "smla", <<O("l"), W(21), O("c"), R(16), R(0), R(8), R(12)>>) >>

Invalid == <<Row(0, 0, "invalid", <<>>)>>

arm_insns ==
    Branches \o Multiplications \o StatusMoves \o Transfers \o DataProcessing
    \o Later \o Coprocessor \o Saturating \o Invalid

Matches(word, row) == word \cap row.mask = row.value \cap row.mask
=============================================================================
