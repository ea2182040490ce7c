------------------------------ MODULE MCLoading ------------------------------
(* Files of every kind for TLC: short ones, good and bad. *)
EXTENDS Loading

\* Text lines, with the right sum or one that is off by one.
HexLine(addr, type, data, off) ==
    LET l == [mark |-> ":", count |-> Len(data), addr |-> addr, type |-> type,
              data |-> data, sum |-> 0, end |-> "lf"]
    IN  [l EXCEPT !.sum = (HexSum(l) + off) % 256]

GoodHex == {HexLine(0, 0, <<7>>, 0), HexLine(1, 0, <<250, 251, 252>>, 0),
            HexLine(16, 0, <<9, 8>>, 0), HexLine(0, 1, <<>>, 0),
            HexLine(0, 2, <<0, 1>>, 0), HexLine(0, 4, <<0, 0>>, 0),
            HexLine(0, 4, <<0, 1>>, 0), HexLine(0, 5, <<0, 0, 1, 0>>, 0)}
BadHex  == {HexLine(0, 0, <<7>>, 1), HexLine(1, 4, <<0, 0>>, 0),
            [HexLine(0, 0, <<7>>, 0) EXCEPT !.end = "none"],
            [HexLine(0, 0, <<7, 248>>, 0) EXCEPT !.end = "none", !.count = 1],
            [HexLine(0, 1, <<>>, 0) EXCEPT !.end = "none"],
            [HexLine(0, 0, <<7>>, 0) EXCEPT !.count = 2],
            HexLine(0, 0, <<1, 2, 3, 4, 5, 6>>, 0)}

SLine(addr, type, data, off) ==
    LET l == [mark |-> "S", count |-> S19AddrBytes(type) + Len(data) + 1, addr |-> addr,
              type |-> type, data |-> data, sum |-> 0, end |-> "crlf"]
    IN  [l EXCEPT !.sum = (S19Sum(l) + off) % 256]

GoodS19 == {SLine(a, 1, d, 0) : a \in {0, 3, 4, 8}, d \in {<<1>>, <<2, 3>>}}
           \cup {SLine(65536, 2, <<4>>, 0), SLine(16777216, 3, <<5>>, 0),
                 SLine(16777216, 3, <<5, 6>>, 0),
                 SLine(2, 5, <<>>, 0), SLine(0, 0, <<6>>, 0), SLine(0, 9, <<>>, 0)}
BadS19  == {SLine(0, 1, <<1>>, 1), SLine(1, 9, <<1>>, 0),
            [SLine(0, 1, <<1>>, 0) EXCEPT !.end = "none"]}

Texts(good, bad) ==
    LET some == good \cup bad
    IN  {<<>>} \cup {<<a>> : a \in some} \cup some \X some \cup good \X good \X good
        \cup {<<t[1], t[2], t[3], l>> : t \in {<<HexLine(0, 0, <<7>>, 0), HexLine(0, 4, <<0, 1>>, 0),
                                                 HexLine(0, 0, <<7>>, 0)>>}, l \in some}

Digits(b) == <<b \div 16, b % 16>>
Address(n, a) == [i \in 1 .. n |-> Digits((a \div 256 ^ (n - i)) % 256)]

Written(l) ==
    [l EXCEPT !.count = Digits(@), !.sum = Digits(@),
              !.data = [i \in DOMAIN @ |-> Digits(@[i])],
              !.type = IF l.mark = "S" THEN <<@>> ELSE Digits(@),
              !.addr = Address(IF l.mark = "S" THEN S19AddrBytes(l.type) ELSE 2, @)]

\* The sum tells some characters that are no digits, others not.
Misspelt ==
    {<<[Written(HexLine(0, 0, <<7>>, 0)) EXCEPT !.data = <<<<NoDigit, 7>>>>]>>,
     <<[Written(HexLine(0, 0, <<7>>, 0)) EXCEPT !.data = <<<<0, NoDigit>>>>]>>,
     <<[Written(SLine(0, 1, <<1>>, 0)) EXCEPT !.addr = <<<<0, 0>>, <<NoDigit, NoDigit>>>>]>>,
     <<[Written(SLine(3, 1, <<1>>, 0)) EXCEPT !.type = <<NoDigit>>]>>}

TextFiles ==
    {[kind |-> "text", lines |-> [i \in DOMAIN t |-> Written(t[i])]] :
        t \in Texts(GoodHex, BadHex) \cup Texts(GoodS19, BadS19)}
    \cup {[kind |-> "text", lines |-> t] : t \in Misspelt}

-----------------------------------------------------------------------------
(* ELF files: a section of code and one of data, and what varies. *)

Bytes16(order, v) == LET lo == v % Base hi == v \div Base
                     IN  IF order = "lsb" THEN <<lo, hi>> ELSE <<hi, lo>>
Bytes32(order, v) ==
    LET lo == Bytes16(order, v % HalfMod) hi == Bytes16(order, v \div HalfMod)
    IN  IF order = "lsb" THEN lo \o hi ELSE hi \o lo

Null == [type |-> "null", alloc |-> FALSE, size |-> 0, align |-> 0, addr |-> 0, present |-> TRUE]
Section(type, size, align, words) ==
    [type |-> type, alloc |-> TRUE, size |-> size, align |-> align, addr |-> 0,
     present |-> TRUE, words |-> words]
Relocs(rs) == [Null EXCEPT !.type = "rela"] @@ [relocs |-> rs]
Reloc(sec, off, sym, type, addend) ==
    [sec |-> sec, offset |-> off, sym |-> sym, type |-> type, addend |-> addend]

RelocTypes == RelativeTypes \cup AbsoluteTypes \cup {"NONE", "THM_ABS5"}

ElfSymbol(order, name, hidden, value, shndx) ==
    [name |-> name, hidden |-> hidden, value |-> Bytes32(order, value), shndx |-> shndx]

ElfFile(order, type, machine, shoff, secs) ==
    [kind |-> "elf", class |-> 32, order |-> order, type |-> Bytes16(order, type),
     machine |-> Bytes16(order, machine), shoff |-> shoff,
     phs |-> <<[load |-> TRUE, vaddr |-> Bytes32(order, IF type = ET_EXEC THEN 32 ELSE 0)],
               [load |-> FALSE, vaddr |-> Bytes32(order, 99)]>>,
     sections |-> secs,
     syms |-> <<ElfSymbol(order, "", FALSE, 0, 1),
                ElfSymbol(order, "f", FALSE, IF type = ET_EXEC THEN 36 ELSE 4, 2),
                ElfSymbol(order, "$a", TRUE, 0, 2), ElfSymbol(order, "d", FALSE, 0, 3)>>]

ElfSections(rs, align, size, words) ==
    <<Null, Section("progbits", 8, 2, words), Section("nobits", size, align, <<>>),
      [Section("progbits", 4, 0, (0 :> 3)) EXCEPT !.alloc = FALSE], Relocs(rs)>>

Code(w) == (0 :> w) @@ (4 :> 77)

ElfFiles ==
    {ElfFile(order, type, EM_ARM, 1,
             ElfSections(<<Reloc(2, 0, sym, r, add)>>, align, size, Code(w))) :
        order \in {"lsb", "msb"}, type \in {ET_REL, ET_EXEC}, r \in RelocTypes,
        sym \in {2, 4}, add \in {0, 4}, align \in {0, 1, 3}, size \in {3, 8},
        w \in {0, 2, Imm24 - 3}}
    \cup {ElfFile(order, type, m, sh, ElfSections(<<>>, 0, 4, Code(1))) :
              order \in {"lsb", "msb"}, type \in 1 .. 3, m \in {3, EM_ARM}, sh \in 0 .. 1}
    \cup {ElfFile("lsb", ET_REL, EM_ARM, 1,
                  ElfSections(<<Reloc(2, 0, 2, a, 0), Reloc(2, o, 4, b, 4)>>, 0, 4, Code(w))) :
              a \in {"PC24", "ABS32"}, b \in {"PC24", "REL32"}, o \in {0, 4},
              w \in {2, Imm24 \div 2 - 1}}
    \cup {ElfFile("lsb", ET_REL, EM_ARM, 1,
                  ElfSections(<<Reloc(4, 0, 2, "ABS32", 0)>>, 0, 4, Code(2)))}
    \cup {ElfFile("lsb", ET_REL, EM_ARM, 1,
                  [ElfSections(<<Reloc(2, 2, 2, "REL32", 0)>>, 0, 4, (2 :> 1)) EXCEPT ![2].present = p]) :
              p \in BOOLEAN}

-----------------------------------------------------------------------------
(* Mach-O, bFLT and raw files *)

MachSegment(a, size, n) == [cmd |-> "LC_SEGMENT", vmaddr |-> a, vmsize |-> size,
                            bytes |-> [i \in 0 .. n - 1 |-> i + 1], filesize |-> n]
MachSymtab == [cmd |-> "LC_SYMTAB",
               syms |-> <<[name |-> "s", defined |-> TRUE, value |-> 5],
                          [name |-> "u", defined |-> FALSE, value |-> 6],
                          [name |-> "s", defined |-> TRUE, value |-> 6]>>]
MachCmds == {MachSegment(a, size, n) : a \in {0, 2, 4}, size \in {2, 4}, n \in {0, 2}}
            \cup {MachSymtab, [cmd |-> "LC_UUID"]}
MachFiles == {[kind |-> "mach", magic |-> m, cmds |-> <<c, d>>] :
                  m \in MachMagics, c \in MachCmds, d \in MachCmds}

FlatFiles == {[kind |-> "flat", words |-> <<0, 1, Base>>, relocs |-> rs, entry |-> 1,
               dataEnd |-> n, bssEnd |-> n + bss, stackSize |-> st] :
                  rs \in SUBSET {0, 1}, n \in 2 .. 4, bss \in {0, 2}, st \in {0, 4}}

RawFiles == {[kind |-> "raw", bytes |-> b] : b \in {<<1>>, <<1, 2, 3>>}}

AllFiles == TextFiles \cup ElfFiles \cup MachFiles \cup FlatFiles \cup RawFiles
=============================================================================
