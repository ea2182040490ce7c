---------------------------- MODULE ObjectLoaders ----------------------------
(***************************************************************************)
(* The object file loaders: ELF (elf.cpp), Mach-O (mach-o.cpp) and bFLT    *)
(* (bflt.cpp).  A file is a record of what its headers and tables say.     *)
(*                                                                         *)
(* A word has four bytes of Base values: Base = 256 in the code.  Memory   *)
(* is a function from offsets to the word at that offset; a write of one   *)
(* word does not touch the others.                                         *)
(***************************************************************************)
EXTENDS Integers, Sequences, FiniteSetsExt, MemSegments

CONSTANTS
    Base,  \* values of a byte: 256
    Imm12  \* values of the 12-bit field of an instruction: 4096

\* Values of a half-word, a word, and the 24-bit field of a branch.
HalfMod == Base * Base
WordMod == Base * Base * Base * Base
Imm24   == Base * Base * Base

\* 256 is a multiple of four, and so are the displacements a branch can hold.
ASSUME WordAssumption ==
    /\ Base \in Nat \ {0}
    /\ Base % 4 = 0
    /\ Imm12 \in Nat
    /\ Imm12 * Imm12 = Imm24

\* An effect of a loader on the project: a segment, a symbol at a value that
\* is looked up when the effect takes place, or one in a segment of its own.
AddSeg(m)             == [op |-> "segment", seg |-> m]
AddSymAt(name, value) == [op |-> "symbol", name |-> name, value |-> value]
AddSymIn(name, m, o)  == [op |-> "label", name |-> name, seg |-> m, offset |-> o]

\* A symbol that is left out.
LeftOut == [op |-> "skip"]

-----------------------------------------------------------------------------
(* ELF: reading *)

\* MSB_read16 and MSB_read32, which despite their name are for files in LSB
\* order (getReadFnTable), and LSB_read16 and LSB_read32.
Read16(order, b) == IF order = "lsb" THEN b[1] + Base * b[2] ELSE b[2] + Base * b[1]

Read32(order, b) ==
    LET u == Read16(order, <<b[1], b[2]>>)
        l == Read16(order, <<b[3], b[4]>>)
    IN  IF order = "lsb" THEN u + HalfMod * l ELSE l + HalfMod * u

ET_REL  == 1
ET_EXEC == 2
EM_ARM  == 40 % Base

ElfSupported(f) ==
    /\ f.kind = "elf"
    /\ f.class = 32
    /\ Read16(f.order, f.type) \in {ET_REL, ET_EXEC}
    /\ Read16(f.order, f.machine) = EM_ARM
    /\ f.shoff # 0

\* The last loadable program header decides.
LoadAddress(f) ==
    LET loads == {i \in DOMAIN f.phs : f.phs[i].load}
    IN  IF loads = {} THEN 0 ELSE Read32(f.order, f.phs[Max(loads)].vaddr)

-----------------------------------------------------------------------------
(* ELF: layout.  Sections go into one image, one after the other.          *)
(* What the loader knows while it reads: the pass it makes over the        *)
(* sections, the address of the image in its own memory, the size of the   *)
(* image, the end of what is in it, the places of sections, the image.     *)

ElfStart == [pass |-> "header", host |-> 0, size |-> 0, end |-> 0, at |-> <<>>,
             image |-> Undefined]

\* alignmask: the alignment is taken for an exponent.
Boundary(s) == 2 ^ s.align

RoundUp(n, a) == ((n + a - 1) \div a) * a

InMemory(s) == s.type \in {"progbits", "nobits"}
Placed(s)   == InMemory(s) /\ s.alloc

\* The first pass: sections that are not allocated count, and each is
\* rounded up behind itself.
Measured(n, s) == IF InMemory(s) THEN RoundUp(n + s.size, Boundary(s)) ELSE n

\* malloc() and memset().
Allocated(e, host) ==
    [e EXCEPT !.pass = "place", !.host = host, !.image = [o \in 0 .. e.size - 1 |-> 0]]

\* Section contents that are there to be read.
SectionRead(s) ==
    (s.type = "progbits" /\ s.alloc) \/ s.type = "strtab" => s.present

\* The second pass: each allocated section is rounded up in front of itself.
PlaceOf(end, s) == RoundUp(end, Boundary(s))

\* The image with the section's words, if it has bits in the file.
WithWords(image, s, at) ==
    [o \in DOMAIN image |->
        IF s.type = "progbits" /\ o - at \in DOMAIN s.words THEN s.words[o - at] ELSE image[o]]

WithSection(e, s) ==
    LET at == PlaceOf(e.end, s)
    IN  IF Placed(s)
        THEN [e EXCEPT !.end = at + s.size, !.at = Append(e.at, at),
                       !.image = WithWords(e.image, s, at)]
        ELSE [e EXCEPT !.at = Append(e.at, s.addr)]

-----------------------------------------------------------------------------
(* ELF: relocation of one word *)

\* The low n values' worth of word, replaced by those of v.
Insert(word, v, n) == word - (word % n) + (v % n)

UBit == Imm24 \div 2

\* The addend in the instruction, as a word.
Extracted(type, word) ==
    CASE type = "NONE"  -> 0
      [] type = "PC24"  -> LET at == (word % Imm24) * 4
                           IN  IF at >= 2 * Imm24 THEN at + WordMod - 4 * Imm24 ELSE at
      [] type \in {"ABS32", "REL32"} -> word
      [] type = "PC13"  -> IF (word \div UBit) % 2 = 1 THEN word % Imm12
                           ELSE (WordMod - (word % Imm12)) % WordMod
      [] type = "ABS16" -> word % HalfMod
      [] type = "ABS12" -> word % Imm12
      [] type = "ABS8"  -> word % Base
      [] type = "SWI24" -> word % Imm24

\* Types all three switches know: R_ARM_NONE has no calculation, the Thumb
\* types have neither extraction nor insertion.
RelativeTypes == {"PC24", "REL32", "PC13"}
AbsoluteTypes == {"ABS32", "ABS16", "ABS12", "ABS8", "SWI24"}

\* Mutant: the addend in the instruction is dropped.
CalculatedBare(type, S, P, A) ==
    IF type \in RelativeTypes THEN (S - P) % WordMod ELSE S % WordMod

Calculated(type, S, P, A) ==
    IF type \in RelativeTypes THEN (S - P + A) % WordMod ELSE (S + A) % WordMod

\* value is unsigned: R_ARM_PC13 never takes the branch for negative ones.
Relocated(type, word, value) ==
    CASE type = "PC24"  -> Insert(word, value \div 4, Imm24)
      [] type \in {"ABS32", "REL32"} -> value
      [] type = "PC13"  -> LET w == Insert(word, value, Imm12)
                           IN  w - UBit * ((w \div UBit) % 2)
      [] type = "ABS16" -> Insert(word, value, HalfMod)
      [] type = "ABS12" -> Insert(word, value, Imm12)
      [] type = "ABS8"  -> Insert(word, value, Base)
      [] type = "SWI24" -> Insert(word, value, Imm24)

RelocsOf(s) == IF s.type \in {"rel", "rela"} THEN s.relocs ELSE <<>>

\* Where a section is in the loader's memory, or where its header says.
HostAddr(f, e, i) == e.at[i] + (IF Placed(f.sections[i]) THEN e.host ELSE 0)

ElfValue(f, y) ==
    LET v == Read32(f.order, y.value)
    IN  IF Read16(f.order, f.type) = ET_EXEC THEN (v - LoadAddress(f)) % WordMod ELSE v

\* A relocation the loader can make: of a type it knows, and aligned.
Relocatable(f, e, r) ==
    /\ r.type \in RelativeTypes \cup AbsoluteTypes
    /\ r.type \in {"ABS32", "REL32"} => (HostAddr(f, e, r.sec) + r.offset) % 4 = 0

\* One relocation of a word of the image.
WithReloc(f, e, r) ==
    LET y == f.syms[r.sym]
        o == e.at[r.sec] + r.offset
        S == HostAddr(f, e, y.shndx) + ElfValue(f, y)
        P == HostAddr(f, e, r.sec) + r.offset
        A == Extracted(r.type, e.image[o]) + r.addend
    IN  [e EXCEPT !.image = [e.image EXCEPT ![o] =
            Relocated(r.type, e.image[o], Calculated(r.type, S, P, A))]]

\* The segment, and a symbol for every one whose name begins with neither '.'
\* nor '$', at its value from the segment's base whatever its section.
ElfSegment(f, e) == Segment(LoadAddress(f), e.size, e.image, e.size)

ElfEffects(f, e) ==
    LET m == ElfSegment(f, e)
    IN  <<AddSeg(m)>> \o [i \in DOMAIN f.syms |->
                            IF f.syms[i].hidden THEN LeftOut
                            ELSE AddSymIn(f.syms[i].name, m, ElfValue(f, f.syms[i]))]

-----------------------------------------------------------------------------
(* Mach-O *)

MachMagics == {"MH_MAGIC", "MH_CIGAM", "MH_MAGIC_64", "MH_CIGAM_64"}

MachMatches(f) == f.kind = "mach" /\ f.magic \in MachMagics

\* Only 32 bits in the order of the host; garbage stands for the upper half of
\* a long of which fread() fills the lower.
MachAccepts(f, garbage) == f.kind = "mach" /\ f.magic = "MH_MAGIC" /\ ~garbage

\* What one load command does.
MachCommand(c) ==
    CASE c.cmd = "LC_SEGMENT" ->
            <<AddSeg(Segment(c.vmaddr, c.vmsize, c.bytes, c.filesize))>>
      [] c.cmd = "LC_SYMTAB"  ->
            [i \in DOMAIN c.syms |-> IF c.syms[i].defined
                                    THEN AddSymAt(c.syms[i].name, c.syms[i].value)
                                    ELSE LeftOut]
      [] OTHER -> <<>>

-----------------------------------------------------------------------------
(* bFLT.  Offsets in the header count from its start: all are less s. *)

FlatAccepts(f) == f.kind = "flat" /\ f.dataEnd <= Len(f.words)

\* ntohl() on a host whose order is the other.
Ntohl(w) ==
    LET b(i) == (w \div Base ^ i) % Base
    IN  b(3) + Base * b(2) + HalfMod * b(1) + Imm24 * b(0)

\* The load address is zero; zero words stay.
FlatReloc(f) ==
    [o \in 0 .. f.dataEnd - 1 |->
        IF o \in f.relocs THEN Ntohl(f.words[o + 1]) ELSE f.words[o + 1]]

FlatEffects(f) ==
    LET text == Segment(0, f.dataEnd, FlatReloc(f), f.dataEnd)
    IN  <<AddSeg(text),
          AddSeg(Segment(f.dataEnd, f.bssEnd - f.dataEnd, Undefined, 0)),
          AddSeg(Segment(f.bssEnd, f.stackSize, Undefined, 0)),
          AddSymIn("_start", text, f.entry)>>
=============================================================================
