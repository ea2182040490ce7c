------------------------------- MODULE Listing -------------------------------
(***************************************************************************)
(* What is made of the bytes at an address: an instruction, the datum that *)
(* create_xref() puts where the instruction refers to, and the lines that  *)
(* the view shows for the two.  Binary constants are those of              *)
(* datatype/binaryconstant.cpp, strings those of stringconstant.cpp.       *)
(***************************************************************************)
EXTENDS ArmDecode

CONSTANT Cases  \* the memory, the address and the type that the user asks for

ASSUME CasesAssumption == \A c \in Cases : c.at \in Nat

VARIABLES
    mem,    \* the byte at each offset of the segment, as a set of bits
    at,     \* the address
    type,   \* the type: "code", "string" or a binary constant's
    code,   \* the instruction there, or Absent
    datum,  \* the datum it refers to, or Absent
    text,   \* how the instruction is listed, or Absent
    digits  \* how the datum is shown, or Absent

listing == <<mem, at, type, code, datum, text, digits>>

Absent == <<>>

-----------------------------------------------------------------------------
(* Binary constants *)

\* The registered types are given their order of bytes and drop it: every
\* constant is shown with its last byte first.
BytePlace(addr, size, i) == addr + (size - i - 1)

BinaryText(m, addr, size) ==
    [i \in 0 .. size - 1 |->
        LET a == BytePlace(addr, size, i)
        IN  IF Valid(a) THEN m[a] ELSE "??"]

SizeOf == [u8 |-> 1, u16 |-> 2, u32 |-> 4, u64 |-> 8]

BinaryConstant(addr, size) == [addr |-> addr, len |-> size, kind |-> "binary"]

-----------------------------------------------------------------------------
(* Strings: up to the first zero byte, which belongs to them, or the end of *)
(* the segment. *)

Zeros(m, a)   == {i \in a .. SegLen - 1 : m[i] = {}}
StringLen(m, a) ==
    IF ~Valid(a) THEN 0
    ELSE IF Zeros(m, a) = {} THEN SegLen - a
    ELSE Min(Zeros(m, a)) - a + 1

\* isprint() is asked first: a quotation mark is printed as it is, and so is
\* a backslash.
Printable(b) == Number(b) \in 32 .. 126
ControlChars == {9, 10, 13}

Escaped(b) ==
    CASE Printable(b)                 -> <<"char", b>>
      [] Number(b) \in ControlChars   -> <<"escape", b>>
      [] b = {}                       -> <<>>
      [] OTHER                        -> <<"hex", b>>

StringText(m, a) == [i \in 0 .. StringLen(m, a) - 1 |-> Escaped(m[a + i])]

StringConstant(m, a) ==
    [addr |-> a, len |-> StringLen(m, a), kind |-> "string", data |-> StringText(m, a)]

-----------------------------------------------------------------------------

ListInit ==
    /\ \E c \in Cases : mem = c.mem /\ at = c.at /\ type = c.type
    /\ code = Absent /\ datum = Absent /\ text = Absent /\ digits = Absent

\* The constructor decodes; nobody has called the instruction yet.
Instruction(word, addr) ==
    [word |-> word, flow |-> PcFlow(word, addr), ref |-> DataRef(word, addr),
     size |-> DataSize(word), entry |-> FALSE]

\* instantiate(): NULL where the first byte is not readable.
Instantiate ==
    /\ type = "code" /\ code = Absent
    /\ LoadWord(mem, at) # <<>>
    /\ code' = Instruction(LoadWord(mem, at)[1], at)
    /\ UNCHANGED <<mem, at, type, datum, text, digits>>

MarkFnEnt(fnent) ==
    /\ code # Absent /\ text = Absent
    /\ code' = [code EXCEPT !.entry = fnent]
    /\ UNCHANGED <<mem, at, type, datum, text, digits>>

\* create_xref() of a data reference.
CreateDatum ==
    /\ code # Absent /\ datum = Absent
    /\ code.ref # NoAddr
    /\ datum' = BinaryConstant(code.ref, code.size)
    /\ UNCHANGED <<mem, at, type, code, text, digits>>

\* A type the user chooses from the menu.
DefineBinary ==
    /\ type \notin {"code", "string"} /\ datum = Absent
    /\ datum' = BinaryConstant(at, SizeOf[type])
    /\ UNCHANGED <<mem, at, type, code, text, digits>>

DefineString ==
    /\ type = "string" /\ datum = Absent
    /\ datum' = StringConstant(mem, at)
    /\ UNCHANGED <<mem, at, type, code, text, digits>>

ShowCode ==
    /\ code # Absent /\ text = Absent
    /\ text' = Textual(mem, code.word, at)
    /\ UNCHANGED <<mem, at, type, code, datum, digits>>

ShowDatum ==
    /\ datum # Absent /\ digits = Absent
    /\ digits' = IF datum.kind = "string" THEN datum.data
                 ELSE BinaryText(mem, datum.addr, datum.len)
    /\ UNCHANGED <<mem, at, type, code, datum, text>>

ListNext ==
    \/ Instantiate
    \/ \E fnent \in BOOLEAN : MarkFnEnt(fnent)
    \/ CreateDatum
    \/ DefineBinary
    \/ DefineString
    \/ ShowCode
    \/ ShowDatum

ListSpec == ListInit /\ [][ListNext]_listing

-----------------------------------------------------------------------------
(* Properties *)

Listed == text # Absent
Shown(kind) == {i \in DOMAIN text.operands : text.operands[i] # <<>> /\ text.operands[i][1] = kind}

\* A line that is listed as "b" or "bl" is decoded as a direct jump, linking
\* if it is "bl", and a target it names is the one the analysis goes to.  It
\* says nothing of a line with "blx" (BlxJumps).
BranchesAgree ==
    text.name \in {"b", "bl"} =>
        /\ code.flow.loc = "dir"
        /\ code.flow.link = (text.name = "bl")
        /\ \A i \in Shown("symbol") \cup Shown("address") :
              text.operands[i][2] = code.flow.target

\* A move of an immediate to the program counter goes to what is listed.
MovesAgree ==
    text.name = "mov" /\ code.flow.loc = "dir" =>
        \A i \in Shown("immediate") : code.flow.target = Located(text.operands[i][2])

\* The literal that a load from before its own prefetch lists is the one at
\* the address it is decoded to refer to.
LiteralsAgree ==
    text.name \in {"ldr", "ldrt"} /\ {23, 24} \subseteq code.word =>
        \A i \in Shown("literal") : text.operands[i][2] = code.ref

\* The word that is shown in the line of a load and the one that is shown in
\* the line of the datum it creates are the same, byte for byte.
DataAgree ==
    digits # Absent /\ datum.kind = "binary" /\ datum.len = 4 /\ Valid(datum.addr + 3) =>
        \A i \in Shown("literal") :
            text.operands[i][2] = datum.addr =>
                text.operands[i][3]
                  = UNION {{8 * (3 - k) + b : b \in digits[k]} : k \in 0 .. 3}

\* The two decoders of an instruction, and the data type it puts where it
\* refers to, agree on where it goes and on what is there (dec_op.cpp,
\* disasm.cpp, binaryconstant.cpp).
DecodersAgree == Listed => BranchesAgree /\ MovesAgree /\ LiteralsAgree /\ DataAgree

\* The registers that a listed instruction writes.  Left out are "blx", and what
\* must not have the program counter there and decode_pcflow() does not ask for
\* it: "mrs", "clz", "ldrd", "mrrc" and the saturating instructions.
Transferred == {"ldr", "ldrt", "swp"}
Computed    == {"and", "eor", "sub", "rsb", "add", "adc", "sbc", "rsc", "orr", "mov",
                "bic", "mvn"}

ListsPc ==
    \/ text.name \in Transferred /\ text.operands[3] = <<"reg", 15>>
    \/ text.name \in Computed /\ text.operands[3] = <<"reg", 15>>
    \/ text.name = "ldrh" /\ text.operands[2][2] # "?" /\ text.operands[3] = <<"reg", 15>>
    \/ text.name = "ldm" /\ \E r \in text.operands[5][2] : r[2] = 15
    \/ text.name \in {"mul", "mla"} /\ text.operands[3] = <<"reg", 15>>
    \/ text.name \in {"mull", "mlal"} /\ \E i \in 4 .. 5 : text.operands[i] = <<"reg", 15>>
    \/ text.name = "mrc" /\ text.operands[4] = <<"reg", 15>>
    \/ text.name = "bx"

\* An unconditional instruction that is listed as writing the program counter
\* is not decoded to go on behind itself (dec_op.cpp): the flow analysis would
\* take what follows, a literal as often as not, for code.
PcWritersStop ==
    Listed /\ ListsPc /\ Unconditional(code.word) => ~code.flow.continues

\* The literal that is listed is the one that is referred to, whatever the
\* addressing mode; write_addr() takes no account of it.
LiteralsAgreeAlways ==
    Listed =>
        \A i \in Shown("literal") : code.ref # NoAddr => text.operands[i][2] = code.ref

\* What is listed as a "blx" (disasm.cpp:125) is decoded as a jump.  It is not
\* so: decode_pcflow() takes these words for undefined and ends the flow.
BlxJumps == Listed /\ text.name = "blx" => code.flow.loc # "none"

\* Each of the instructions that the table names is listed by that name.
RowsAreReached ==
    Listed => \A i \in DOMAIN arm_insns :
        Matches(code.word, arm_insns[i]) /\ arm_insns[i].name \in {"bkpt", "clz", "ldrd", "pld"}
            => text.name = arm_insns[i].name
=============================================================================
