------------------------------- MODULE Loading -------------------------------
(***************************************************************************)
(* Opening a file: QTApplication::open() asks every registered loader how  *)
(* well it matches, the best one reads the file, and what it finds goes    *)
(* into a fresh project, one segment or symbol after the other.  Opening   *)
(* runs on the GUI thread; the refresh timer fires where an event loop     *)
(* runs, a dialog's included.                                              *)
(***************************************************************************)
EXTENDS TextLoaders, ObjectLoaders, SymbolTable

CONSTANTS
    Files,  \* files a user may open
    Hosts,  \* addresses malloc() may give the image of an ELF file
    Bases   \* what the user may type as base address of a binary

\* A line has the fields that its loader will find in it.
Digit == 0 .. NoDigit
Pair  == Digit \X Digit

IsLine(l) ==
    /\ l.count \in Pair /\ l.sum \in Pair
    /\ l.addr \in Seq(Pair) /\ l.data \in Seq(Pair)
    /\ IF l.mark = "S"
       THEN l.type[1] \in Digit /\ Len(l.addr) = S19AddrBytes(Read4(l.type[1]))
       ELSE l.type \in Pair /\ Len(l.addr) = 2

IsList(s) == s \in Seq(Range(s))

\* The alignment of a section can be shifted by; its words lie within it.
IsSection(s) ==
    /\ s.size \in Nat /\ Boundary(s) \in Nat \ {0}
    /\ Placed(s) /\ s.type = "progbits" =>
         \A o \in DOMAIN s.words : o \in 0 .. s.size - 1 /\ s.words[o] \in 0 .. WordMod - 1
    /\ s.type \in {"rel", "rela"} => IsList(s.relocs)

\* A relocation names a word of a section that goes into the image, and a
\* symbol of a section: the loader takes its numbers unchecked.
IsReloc(f, r) ==
    /\ r.sec \in DOMAIN f.sections /\ r.addend \in Int
    /\ f.sections[r.sec].alloc =>
         /\ Placed(f.sections[r.sec]) /\ r.offset \in 0 .. f.sections[r.sec].size - 1
         /\ r.sym \in DOMAIN f.syms /\ f.syms[r.sym].shndx \in DOMAIN f.sections

IsWord(b) == b \in [1 .. 4 -> 0 .. Base - 1]

IsElf(f) ==
    /\ IsList(f.phs) /\ \A i \in DOMAIN f.phs : IsWord(f.phs[i].vaddr)
    /\ IsList(f.syms) /\ \A i \in DOMAIN f.syms : IsWord(f.syms[i].value)
    /\ IsList(f.sections)
    /\ \A i \in DOMAIN f.sections :
         /\ IsSection(f.sections[i])
         /\ \A k \in DOMAIN RelocsOf(f.sections[i]) : IsReloc(f, RelocsOf(f.sections[i])[k])

ASSUME HostsAssumption == Hosts \subseteq Nat

ASSUME FilesAssumption ==
    \A f \in Files :
        /\ f.kind = "text" => IsList(f.lines) /\ \A i \in DOMAIN f.lines : IsLine(f.lines[i])
        /\ f.kind = "elf"  => IsElf(f)
        /\ f.kind = "mach" => /\ IsList(f.cmds)
                              /\ \A i \in DOMAIN f.cmds :
                                     f.cmds[i].cmd = "LC_SYMTAB" => IsList(f.cmds[i].syms)

VARIABLES
    file,     \* the file being opened
    phase,    \* how far opening it has come
    pos,      \* "start", or "read": the position of the stream
    ranks,    \* what matchToFile() returned, loader after loader
    line,     \* lines of text, load commands, or sections in a pass, that are done
    byte,     \* bytes of the last line, or relocations of a section, that are done
    chunks,   \* the stack of chunks of a hex or S19 file
    elf,      \* what the ELF loader knows
    todo,     \* effects the loader still has to make
    segs,     \* m_mem_segments
    syms,     \* the symbol table
    updated,  \* QTRuntimeModel::m_updated
    dirty,    \* GuiProxy::m_dirty
    index     \* the segments the line index was built from

vars == <<file, phase, pos, ranks, line, byte, chunks, elf, todo, segs, syms, updated, dirty, index>>
view == <<updated, dirty, index>>
read == <<line, byte, chunks, elf>>

\* The registry is a map from names, in the order of their characters.
LoaderNames == <<"BFLT", "Binary", "ELF", "Hex", "Mach-O", "S19">>

\* The lines of a file that is text; no loader of lines accepts the others.
Lines(f) == [i \in DOMAIN f.lines |-> ReadLine(f.lines[i])]
IsText(f) == f.kind = "text"

\* matchToFile() of every loader.  Three of them rewind, ELF and Mach-O read
\* where the stream is.
RankOf(name, f, p) ==
    CASE name = "BFLT"   -> IF f.kind = "flat" THEN 54 ELSE -1
      [] name = "Binary" -> 0
      [] name = "ELF"    -> IF p = "start" /\ ElfSupported(f) THEN 100 ELSE -1
      [] name = "Hex"    -> IF IsText(f) THEN HexMatch(Lines(f)) ELSE -1
      [] name = "Mach-O" -> IF p = "start" /\ MachMatches(f) THEN 100 ELSE -1
      [] name = "S19"    -> IF IsText(f) THEN S19Match(Lines(f)) ELSE -1

\* Mutant: nobody seeks back.
NotSoughtBack(p) == "read"

\* autoLoadFromFile() seeks back to where the stream was.
SoughtBack(p) == p

Init ==
    /\ file \in Files
    /\ phase = "match" /\ pos = "start" /\ ranks = <<>> /\ todo = <<>>
    /\ line = 0 /\ byte = 0 /\ chunks = <<>> /\ elf = ElfStart
    /\ segs = {} /\ syms = <<>>
    /\ updated = FALSE /\ dirty = TRUE /\ index = {}

Match ==
    /\ phase = "match" /\ Len(ranks) < Len(LoaderNames)
    /\ ranks' = Append(ranks, RankOf(LoaderNames[Len(ranks) + 1], file, pos))
    /\ pos' = SoughtBack(pos)
    /\ UNCHANGED <<file, phase, read, todo, segs, syms, view>>

\* The first of the highest rank, if it is above -1.
IsBest(i, rs) == /\ rs[i] > -1
                 /\ \A j \in DOMAIN rs : rs[j] <= rs[i] /\ (rs[j] = rs[i] => i <= j)

Chosen == LoaderNames[CHOOSE i \in DOMAIN LoaderNames : IsBest(i, ranks)]

Choose ==
    /\ phase = "match" /\ Len(ranks) = Len(LoaderNames)
    /\ phase' = IF \E i \in DOMAIN ranks : IsBest(i, ranks)
                THEN IF Chosen = "Binary" THEN "dialog" ELSE "load"
                ELSE "failed"
    /\ UNCHANGED <<file, pos, ranks, read, todo, segs, syms, view>>

-----------------------------------------------------------------------------
(* The loaders *)

\* A loader that returns false has had no effect; one that goes on has these.
Proceed(accepts, effects) ==
    /\ phase' = IF accepts THEN "add" ELSE "failed"
    /\ todo' = IF accepts THEN effects ELSE <<>>
    /\ pos' = "read"
    /\ UNCHANGED <<file, ranks, read, segs, syms, view>>

Segments(ms) == [i \in DOMAIN ms |-> AddSeg(ms[i])]

NextLine == ReadLine(file.lines[line + 1])

\* Mutant: a line that is wrong adds what has been read before it.
ParseLineKeeping(ok, parsed) ==
    /\ line < Len(file.lines)
    /\ pos' = "read"
    /\ IF ok THEN line' = line + 1 /\ byte' = 0 /\ chunks' = parsed /\ UNCHANGED <<phase, segs>>
             ELSE phase' = "failed" /\ segs' = Range(HexSegments(chunks)) /\ UNCHANGED read
    /\ UNCHANGED <<file, ranks, elf, todo, syms, view>>

\* parseLine() of the next line of text; one that is wrong ends the loading.
ParseLine(ok, parsed) ==
    /\ line < Len(file.lines)
    /\ pos' = "read"
    /\ IF ok THEN line' = line + 1 /\ byte' = 0 /\ chunks' = parsed /\ UNCHANGED phase
             ELSE phase' = "failed" /\ UNCHANGED read
    /\ UNCHANGED <<file, ranks, elf, todo, segs, syms, view>>

ParseHex ==
    /\ phase = "load" /\ Chosen = "Hex"
    /\ ParseLine(HexLineOk(NextLine), HexStep(chunks, NextLine))

LoadHex ==
    /\ phase = "load" /\ Chosen = "Hex" /\ line = Len(file.lines)
    /\ Proceed(TRUE, Segments(HexSegments(chunks)))

\* The bytes of the last line that are to be pushed.
LastData ==
    IF line > 0 /\ S19Data(Lines(file)[line]) THEN Lines(file)[line].data ELSE <<>>

ParseS19 ==
    /\ phase = "load" /\ Chosen = "S19" /\ byte = Len(LastData)
    /\ ParseLine(S19LineOk(NextLine, S19Count(Lines(file), line + 1)), chunks)

\* Addresses have 32 bits.
PushS19 ==
    /\ phase = "load" /\ Chosen = "S19" /\ byte < Len(LastData)
    /\ chunks' = S19Push(chunks, (Lines(file)[line].addr + byte) % AddrMod, LastData[byte + 1])
    /\ byte' = byte + 1
    /\ UNCHANGED <<file, phase, pos, ranks, line, elf, todo, segs, syms, view>>

LoadS19 ==
    /\ phase = "load" /\ Chosen = "S19" /\ line = Len(file.lines) /\ byte = Len(LastData)
    /\ Proceed(TRUE, Segments(S19Segments(chunks)))

\* The ELF loader reads the header, and then goes over the sections: for the
\* size of the image, to put them into it, and to relocate its words.
InPass(p)    == phase = "load" /\ Chosen = "ELF" /\ elf.pass = p
MoreSections == line < Len(file.sections)
NextSection  == file.sections[line + 1]
MoreRelocs   == MoreSections /\ byte < Len(RelocsOf(NextSection))
NextReloc    == RelocsOf(NextSection)[byte + 1]

\* It goes on with e, after n sections and k relocations of the next, or
\* refuses the file.
ElfRead(ok, e, n, k) ==
    /\ pos' = "read"
    /\ IF ok THEN elf' = e /\ line' = n /\ byte' = k /\ UNCHANGED phase
             ELSE phase' = "failed" /\ UNCHANGED <<elf, line, byte>>
    /\ UNCHANGED <<file, ranks, chunks, todo, segs, syms, view>>

ReadHeader ==
    /\ InPass("header")
    /\ ElfRead(ElfSupported(file), [elf EXCEPT !.pass = "measure"], 0, 0)

MeasureSection ==
    /\ InPass("measure") /\ MoreSections
    /\ ElfRead(TRUE, [elf EXCEPT !.size = Measured(elf.size, NextSection)], line + 1, 0)

\* malloc() may fail.
AllocateImage ==
    /\ InPass("measure") /\ ~MoreSections
    /\ \E host \in Hosts : \E ok \in BOOLEAN : ElfRead(ok, Allocated(elf, host), 0, 0)

PlaceSection ==
    /\ InPass("place") /\ MoreSections
    /\ ElfRead(SectionRead(NextSection), WithSection(elf, NextSection), line + 1, 0)

ResolveSymbols ==
    /\ InPass("place") /\ ~MoreSections
    /\ ElfRead(TRUE, [elf EXCEPT !.pass = "relocate"], 0, 0)

\* Those of sections that are not allocated are passed over.
RelocateWord ==
    /\ InPass("relocate") /\ MoreRelocs
    /\ IF file.sections[NextReloc.sec].alloc
       THEN ElfRead(Relocatable(file, elf, NextReloc), WithReloc(file, elf, NextReloc),
                    line, byte + 1)
       ELSE ElfRead(TRUE, elf, line, byte + 1)

LeaveSection ==
    /\ InPass("relocate") /\ MoreSections /\ ~MoreRelocs
    /\ ElfRead(TRUE, elf, line + 1, 0)

LoadElf ==
    /\ InPass("relocate") /\ ~MoreSections
    /\ Proceed(TRUE, ElfEffects(file, elf))

LoadMach ==
    /\ phase = "load" /\ Chosen = "Mach-O"
    /\ \E garbage \in BOOLEAN : Proceed(MachAccepts(file, garbage), <<>>)

\* What a load command does is done before the next one is read.
MoreCommands == Chosen = "Mach-O" /\ line < Len(file.cmds)

LoadCommand ==
    /\ phase = "add" /\ todo = <<>> /\ MoreCommands
    /\ todo' = MachCommand(file.cmds[line + 1])
    /\ line' = line + 1
    /\ UNCHANGED <<file, phase, pos, ranks, byte, chunks, elf, segs, syms, view>>

LoadFlat ==
    /\ phase = "load" /\ Chosen = "BFLT"
    /\ Proceed(FlatAccepts(file), FlatEffects(file))

\* Binary asks for a base address and takes every byte.
FileBytes(f) == IF f.kind = "raw" THEN f.bytes
                ELSE IF IsText(f) /\ f.lines = <<>> THEN <<>>
                ELSE <<Unset>> \* some bytes

\* The file may fail to be read, too.
LoadBinary ==
    /\ phase = "dialog"
    /\ LET bytes == FileBytes(file)
           n     == Len(bytes)
       IN  \/ \E base \in Bases :
                 Proceed(TRUE, <<AddSeg(Segment(base, n, [i \in 0 .. n - 1 |-> bytes[i + 1]], n))>>)
           \/ Proceed(FALSE, <<>>)

-----------------------------------------------------------------------------
(* Effects *)

Next1(op) == phase = "add" /\ todo # <<>> /\ Head(todo).op = op

\* MemoryBackedProjectModel::addSegment(): the hooks are called first.
AddSegment ==
    /\ Next1("segment")
    /\ dirty' = TRUE
    /\ LET m == Head(todo).seg
       IN  IF Refused(segs, m)
           THEN phase' = "thrown" /\ todo' = <<>> /\ UNCHANGED segs
           ELSE segs' = Inserted(segs, m) /\ todo' = Tail(todo) /\ UNCHANGED phase
    /\ UNCHANGED <<file, pos, ranks, read, syms, updated, index>>

\* An address is a segment, by its start, and an offset.
NoAddress == <<-1, 0>>

Located(v) == IF Resolving(segs, v) = {} THEN NoAddress
              ELSE <<Locate(segs, v).seg.start, Locate(segs, v).offset>>

CreateSymbol(a) ==
    /\ syms' = SetSymbol(syms, a, Head(todo).name)
    /\ todo' = Tail(todo)
    /\ UNCHANGED <<file, phase, pos, ranks, read, segs, view>>

AddSymbol == Next1("symbol") /\ CreateSymbol(Located(Head(todo).value))

AddLabel ==
    Next1("label") /\ CreateSymbol(<<Head(todo).seg.start, Head(todo).offset>>)

LeaveOut ==
    /\ Next1("skip")
    /\ todo' = Tail(todo)
    /\ UNCHANGED <<file, phase, pos, ranks, read, segs, syms, view>>

\* Mutant: open() posts nothing.
PostNothing == UNCHANGED updated

\* open() ends with postGuiUpdate(), after an error dialog too.
PostUpdate == updated' = TRUE

Finish ==
    /\ phase = "add" /\ todo = <<>> /\ ~MoreCommands
    /\ phase' = "accepted"
    /\ PostUpdate
    /\ UNCHANGED <<file, pos, ranks, read, todo, segs, syms, dirty, index>>

Report ==
    /\ phase = "failed"
    /\ phase' = "rejected"
    /\ PostUpdate
    /\ UNCHANGED <<file, pos, ranks, read, todo, segs, syms, dirty, index>>

\* updateTimeout() with GuiProxy::update(), wherever an event loop runs.
Timeout ==
    /\ updated /\ phase \in {"dialog", "failed", "rejected", "accepted"}
    /\ updated' = FALSE /\ dirty' = FALSE
    /\ index' = IF dirty THEN segs ELSE index
    /\ UNCHANGED <<file, phase, pos, ranks, read, todo, segs, syms>>

Next ==
    \/ Match \/ Choose
    \/ ParseHex \/ LoadHex \/ ParseS19 \/ PushS19 \/ LoadS19
    \/ ReadHeader \/ MeasureSection \/ AllocateImage \/ PlaceSection \/ ResolveSymbols
    \/ RelocateWord \/ LeaveSection
    \/ LoadElf \/ LoadMach \/ LoadCommand \/ LoadFlat \/ LoadBinary
    \/ AddSegment \/ AddSymbol \/ AddLabel \/ LeaveOut
    \/ Finish \/ Report \/ Timeout

Spec == Init /\ [][Next]_vars

-----------------------------------------------------------------------------
(* Properties *)

TypeOK ==
    /\ phase \in {"match", "dialog", "load", "add", "failed", "rejected", "accepted", "thrown"}
    /\ pos \in {"start", "read"}
    /\ \A i \in DOMAIN ranks : ranks[i] \in -1 .. 100
    /\ \A i \in DOMAIN todo : todo[i].op \in {"segment", "symbol", "label", "skip"}
    /\ \A m \in segs : DOMAIN m.data \in {{}, 0 .. m.len - 1}
    /\ elf.pass \in {"header", "measure", "place", "relocate"}
    /\ updated \in BOOLEAN /\ dirty \in BOOLEAN

\* The best loader reads the file: each is asked with the file at its start,
\* and nothing that another loader recognises goes to the binary loader, the
\* last resort of loaderfactory.h (FileLoaderMaker::autoLoadFromFile).
BestLoaderReads ==
    phase \in {"load", "dialog"} =>
        \A i \in DOMAIN LoaderNames :
            LET mine  == RankOf(LoaderNames[i], file, "start")
                best  == RankOf(Chosen, file, "start")
            IN  /\ mine <= best
                /\ Chosen = "Binary" => mine <= 0

\* A file that is refused leaves no trace in the project: every loader reads
\* and checks all it needs before its first effect.
RefusedLeavesNothing == phase \in {"failed", "rejected"} => segs = {} /\ syms = <<>>

\* What the records of a hex file say: the base in force at line i, the lines
\* of one run under the same base record, and the last byte for an address.
BaseLines(lines, i) == {j \in 1 .. i : lines[j].type \in {2, 4}}
BaseAt(lines, i) == IF BaseLines(lines, i) = {} THEN 0
                    ELSE HexBase(lines[Max(BaseLines(lines, i))])
Said(lines, bases, i) ==
    {[a |-> bases[i] + lines[i].addr + k - 1, b |-> lines[i].data[k]] : k \in DOMAIN lines[i].data}
DataLines(lines, types) == {i \in DOMAIN lines : lines[i].type \in types}

\* Addresses a run covers, from its lowest to its highest; its base if it has
\* no data.  Runs that cover common addresses are excluded below.
RunOf(lines, i) == {j \in DOMAIN lines : BaseLines(lines, j) = BaseLines(lines, i)}
Covered(lines, bases, run) ==
    LET as == {s.a : s \in UNION {Said(lines, bases, j) : j \in {j \in run : lines[j].type = 0}}}
    IN  IF as = {} THEN {bases[Max(run)]} ELSE Min(as) .. Max(as)
BasesOf(lines) == [i \in DOMAIN lines |-> BaseAt(lines, i)]
RunsApart(lines) ==
    \A i, j \in DOMAIN lines :
        RunOf(lines, i) # RunOf(lines, j) =>
            Covered(lines, BasesOf(lines), RunOf(lines, i))
                \cap Covered(lines, BasesOf(lines), RunOf(lines, j)) = {}

Holds(a, b) == /\ Resolving(segs, a) # {}
               /\ ReadBytes(Locate(segs, a), 1)[0] = b

\* After a hex file with runs apart has been loaded, every address its records
\* name reads as the last record for it says (HexSegment, HexLoader).
HexImageKept ==
    phase = "accepted" /\ Chosen = "Hex" /\ RunsApart(Lines(file)) =>
        LET lines == Lines(file)
            said(i) == Said(lines, BasesOf(lines), i)
        IN  \A i \in DataLines(lines, {0}) : \A s \in said(i) :
                \/ Holds(s.a, s.b)
                \/ \E j \in DataLines(lines, {0}) : j > i /\ \E t \in said(j) : t.a = s.a

\* Addresses of an S file never go down, nor around.
Ascending(lines) ==
    \A i, j \in DataLines(lines, {1, 2, 3}) :
        /\ lines[i].addr + Len(lines[i].data) <= AddrMod
        /\ i < j => lines[i].addr + Len(lines[i].data) <= lines[j].addr

\* After an S file whose addresses ascend has been loaded, every address its
\* records name reads as they say, and no other address has a byte of theirs
\* (S19Segment, S19File::pushData).
S19ImageKept ==
    phase = "accepted" /\ Chosen = "S19" /\ Ascending(Lines(file)) =>
        LET lines == Lines(file)
            zero  == [i \in DOMAIN lines |-> 0]
            said  == UNION {Said(lines, zero, i) : i \in DataLines(lines, {1, 2, 3})}
        IN  /\ \A s \in said : Holds(s.a, s.b)
            /\ \A m \in segs : \A o \in DOMAIN m.data :
                   m.data[o] # Unset => [a |-> m.start + o, b |-> m.data[o]] \in said

\* What a hex or S19 file says of an address is what is there once it is loaded
\* (hexloader.cpp, s19loader.cpp).
TextImageKept == HexImageKept /\ S19ImageKept

\* Sections whose sizes are multiples of their boundaries.
Padded(secs) == \A i \in DOMAIN secs : InMemory(secs[i]) => secs[i].size % Boundary(secs[i]) = 0

Extent(i) == elf.at[i] .. elf.at[i] + file.sections[i].size - 1

\* Relocations that are made: each is known by its section and its number there.
RelocAt(p) == RelocsOf(file.sections[p[1]])[p[2]]

ElfRelocs ==
    {p \in UNION {{i} \X DOMAIN RelocsOf(file.sections[i]) : i \in DOMAIN file.sections} :
        file.sections[RelocAt(p).sec].alloc}

\* Its word in the image, the symbol, and how far it is from the one to the
\* other, by what the file says.
WordOf(p)   == elf.at[RelocAt(p).sec] + RelocAt(p).offset
SymbolOf(p) == file.syms[RelocAt(p).sym]
Distance(p) == elf.at[SymbolOf(p).shndx] + ElfValue(file, SymbolOf(p)) - WordOf(p)
Addend(p)   ==
    Extracted(RelocAt(p).type, file.sections[RelocAt(p).sec].words[RelocAt(p).offset])
        + RelocAt(p).addend
Target(p)   == (Distance(p) + Addend(p)) % WordMod

\* Whole words within 24 bits of them, in front or behind.
WithinReach(d) == d % 4 = 0 /\ (d < 2 * Imm24 \/ d >= WordMod - 2 * Imm24)

\* A PC-relative relocation that is the only one of its word of the file,
\* against a symbol in the image, near enough for a branch if it is one.
Linkable(p) ==
    /\ RelocAt(p).type \in {"PC24", "REL32"}
    /\ file.sections[RelocAt(p).sec].type = "progbits"
    /\ RelocAt(p).offset \in DOMAIN file.sections[RelocAt(p).sec].words
    /\ \A q \in ElfRelocs : WordOf(q) = WordOf(p) => q = p
    /\ Placed(file.sections[SymbolOf(p).shndx])
    /\ RelocAt(p).type = "PC24" => WithinReach(Target(p))

\* The sections of an accepted ELF file, if they are padded, lie apart in the
\* only segment, in bounds; a word no relocation touches is the file's, and one
\* that can be linked leads from its place to its symbol, wherever the image
\* was in the loader's memory.
SectionsLaidOut(m) ==
    LET secs == file.sections
        all  == {i \in DOMAIN secs : Placed(secs[i])}
    IN  /\ \A i \in all : Extent(i) \subseteq DOMAIN m.data
        /\ \A i, j \in all : i # j => Extent(i) \cap Extent(j) = {}
        /\ \A i \in {i \in all : secs[i].type = "progbits"} : \A o \in DOMAIN secs[i].words :
               \/ \E p \in ElfRelocs : WordOf(p) = elf.at[i] + o
               \/ m.data[elf.at[i] + o] = secs[i].words[o]

RelocsLinked(m) ==
    \A p \in ElfRelocs :
        Linkable(p) => Extracted(RelocAt(p).type, m.data[WordOf(p)]) = Target(p)

ElfImageKept ==
    phase = "accepted" /\ Chosen = "ELF" /\ Padded(file.sections) =>
        \E m \in segs : segs = {m} /\ SectionsLaidOut(m) /\ RelocsLinked(m)

\* Once a file has been opened and the timer has fired, the line index was
\* built from all its segments: addSegment() marks the index but posts nothing,
\* so all depends on what open() posts at its end (application.cpp:94).
IndexShowsSegments == phase = "accepted" /\ ~updated => index = segs
=============================================================================
