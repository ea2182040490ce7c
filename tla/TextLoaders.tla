----------------------------- MODULE TextLoaders -----------------------------
(***************************************************************************)
(* Intel hex and Motorola S records (hexloader.cpp, s19loader.cpp): what a *)
(* sequence of lines is turned into, line after line and, for S records,   *)
(* byte after byte.  A line is a record of its fields,                     *)
(* [mark, count, addr, type, data, sum, end]: mark tells whether it begins *)
(* with ':' or 'S', the fields between are written in digits, two for each *)
(* byte, and "end" says how it ends, for the loaders cut off its last      *)
(* character whatever that is: "lf", "crlf", or "none" at the end of the   *)
(* file.                                                                   *)
(***************************************************************************)
EXTENDS Integers, Sequences, FiniteSetsExt, SequencesExt, Functions, MemSegments

CONSTANTS
    MatchChars, \* what matchToFile() reads of a line: 255 characters
    Near,       \* bytes this near to the last one join its chunk: 0x100
    AddrMod     \* addresses of S records: 2^32

ASSUME TextAssumption ==
    /\ MatchChars \in Nat
    /\ Near \in Nat \ {0}
    /\ AddrMod \in Nat \ {0}

SumOf(s) == FoldSeq(+, 0, s)

-----------------------------------------------------------------------------
(* Digits: 0 .. 15, or a character that is none, which counts as zero.     *)

NoDigit == 16

Read4(d) == IF d = NoDigit THEN 0 ELSE d

Read8(pair) == 16 * Read4(pair[1]) + Read4(pair[2])

\* read16(), read24() and read32(), the highest byte first.
ByteOf(pairs, i) == IF i < Len(pairs) THEN Read8(pairs[Len(pairs) - i]) ELSE 0

ReadNumber(pairs) ==
    ByteOf(pairs, 0) + 256 * ByteOf(pairs, 1) + 65536 * ByteOf(pairs, 2)
        + 16777216 * ByteOf(pairs, 3)

ReadData(pairs) == [i \in DOMAIN pairs |-> Read8(pairs[i])]

\* Characters of a line with its end.
CharsOf(l) ==
    (IF l.mark = "S" THEN 2 ELSE 3) + 2 * (Len(l.addr) + Len(l.data) + 2)
        + (CASE l.end = "none" -> 0 [] l.end = "lf" -> 1 [] l.end = "crlf" -> 2)

\* Without an end a digit of the sum is cut off: what is left is a line whose
\* sum is the last of its data, if it is anything.
Broken(l) == l.end = "none" /\ l.data = <<>>

DataOfLine(l) == IF l.end = "none" /\ l.data # <<>> THEN Front(l.data) ELSE l.data
SumOfLine(l)  == IF l.end = "none" /\ l.data # <<>> THEN Last(l.data) ELSE l.sum

\* The fields of a line; the type of an S record is one digit.
ReadLine(l) ==
    [mark |-> l.mark, broken |-> Broken(l), chars |-> CharsOf(l), count |-> Read8(l.count),
     addr |-> ReadNumber(l.addr),
     type |-> IF l.mark = "S" THEN Read4(l.type[1]) ELSE Read8(l.type),
     data |-> ReadData(DataOfLine(l)), sum |-> Read8(SumOfLine(l))]

HighByte(a) == (a \div 256) % 256
LowByte(a)  == a % 256

-----------------------------------------------------------------------------
(* Intel hex *)

HexSum(l) ==
    (256 - LowByte(l.count + LowByte(l.addr) + HighByte(l.addr) + l.type
                       + SumOf(l.data))) % 256

\* The checks of parseLine() up to the switch.
HexWellFormed(l) ==
    /\ l.mark = ":"
    /\ ~l.broken /\ Len(l.data) = l.count
    /\ HexSum(l) = l.sum

\* Types: 0 data, 1 end, 2 and 4 a new base, 3 and 5 a start address.
HexStrange(l) ==
    \/ l.type \in {2, 4} /\ (l.count # 2 \/ l.addr # 0)
    \/ l.type \in {3, 5} /\ (l.count # 4 \/ l.addr # 0)

HexLineOk(l) == HexWellFormed(l) /\ ~HexStrange(l)

HexBase(l) == (l.data[1] * 256 + l.data[2]) * (IF l.type = 2 THEN 16 ELSE 65536)

\* A chunk: HexSegment.  hi is m_hiaddr, last is S19Segment's m_lastaddr.
\* m_lowaddr of S19Segment stays the offset of its first byte, zero.
EmptyChunk(base) == [base |-> base, bytes |-> Undefined, hi |-> 0, last |-> 0]

\* HexSegment::setData for every byte of a record.
HexSetData(c, a, data) ==
    [c EXCEPT !.bytes = [o \in DOMAIN c.bytes \cup {a + i - 1 : i \in DOMAIN data} |->
                            IF o - a + 1 \in DOMAIN data THEN data[o - a + 1]
                            ELSE c.bytes[o]]]

\* Mutant: only the extended linear address record begins a chunk.
HexStepLinear(chunks, l) ==
    IF l.type = 4 THEN Append(chunks, EmptyChunk(HexBase(l)))
    ELSE IF l.type = 0
    THEN LET some == IF chunks = <<>> THEN <<EmptyChunk(0)>> ELSE chunks
         IN  [some EXCEPT ![Len(some)] = HexSetData(@, l.addr, l.data)]
    ELSE chunks

\* The stack of chunks after line l; its top is the last element.
HexStep(chunks, l) ==
    CASE l.type \in {2, 4} -> Append(chunks, EmptyChunk(HexBase(l)))
      [] l.type = 0 ->
            LET some == IF chunks = <<>> THEN <<EmptyChunk(0)>> ELSE chunks
            IN  [some EXCEPT ![Len(some)] = HexSetData(@, l.addr, l.data)]
      [] OTHER -> chunks

\* map(), address(), length() and data(): the bytes from the lowest to the
\* highest; a chunk without data is a segment of length zero.
HexSegmentOf(c) ==
    IF DOMAIN c.bytes = {} THEN Segment(c.base, 0, Undefined, 0)
    ELSE LET lo  == Min(DOMAIN c.bytes)
             len == Max(DOMAIN c.bytes) + 1 - lo
         IN  Segment(c.base + lo, len,
                     [i \in 0 .. len - 1 |-> IF lo + i \in DOMAIN c.bytes
                                             THEN c.bytes[lo + i] ELSE Unset], len)

\* The stack is popped: the last chunk is added first.
HexSegments(chunks) ==
    [i \in DOMAIN chunks |-> HexSegmentOf(chunks[Len(chunks) + 1 - i])]

\* matchToFile() reads three lines into a shorter buffer than loadFromFile():
\* a line that does not fit fails the test of its length.
HexMatch(lines) ==
    LET first == SubSeq(lines, 1, Min({3, Len(lines)}))
    IN  IF \A i \in DOMAIN first : HexLineOk(first[i]) /\ first[i].chars <= MatchChars
        THEN 25 * Len(first) ELSE -1

-----------------------------------------------------------------------------
(* Motorola S records *)

S19AddrBytes(type) ==
    CASE type \in {0, 1, 5, 9} -> 2
      [] type \in {2, 8}       -> 3
      [] type \in {3, 7}       -> 4
      [] OTHER                 -> 0

S19Sum(l) ==
    255 - LowByte(l.count + l.addr \div 16777216 + LowByte(l.addr \div 65536)
                      + HighByte(l.addr) + LowByte(l.addr) + SumOf(l.data))

S19WellFormed(l) ==
    /\ l.mark = "S"
    /\ ~l.broken /\ S19AddrBytes(l.type) + Len(l.data) + 1 = l.count
    /\ S19Sum(l) = l.sum

\* n is the number of data records before this one.
S19LineOk(l, n) ==
    /\ S19WellFormed(l)
    /\ l.type = 5 => l.data = <<>> /\ l.addr = n % 65536
    /\ l.type \in {7, 8, 9} => l.data = <<>>

S19Data(l) == l.type \in {1, 2, 3}

S19Count(lines, i) == Len(SelectSeq(SubSeq(lines, 1, i - 1), S19Data))

RangeIncludes(c, a) ==
    IF a > c.last THEN a - c.last < Near ELSE c.last - a < Near

\* S19Segment::setData.  The offset of an address below the chunk's first is
\* near 2^32: the buffer is doubled until its length wraps to zero, realloc()
\* frees it, and the chunk starts again at this address, m_hiaddr as it was.
S19SetData(c, a, b) ==
    IF c.bytes # Undefined /\ a >= c.base
    THEN [c EXCEPT !.bytes = [o \in DOMAIN @ \cup {a - c.base} |->
                                  IF o = a - c.base THEN b ELSE @[o]],
                   !.hi = Max({@, a - c.base}),
                   !.last = a]
    ELSE [c EXCEPT !.base = a, !.bytes = [o \in {0} |-> b], !.last = a]

\* pushData(): the chunk pushed last, or a new one.
S19Push(chunks, a, b) ==
    IF chunks # <<>> /\ RangeIncludes(Last(chunks), a)
    THEN [chunks EXCEPT ![Len(chunks)] = S19SetData(@, a, b)]
    ELSE Append(chunks, S19SetData(EmptyChunk(0), a, b))

S19SegmentOf(c) ==
    Segment(c.base, c.hi + 1,
            [i \in 0 .. c.hi |-> IF i \in DOMAIN c.bytes THEN c.bytes[i] ELSE Unset],
            c.hi + 1)

S19Segments(chunks) ==
    [i \in DOMAIN chunks |-> S19SegmentOf(chunks[Len(chunks) + 1 - i])]

S19Match(lines) ==
    LET first == SubSeq(lines, 1, Min({3, Len(lines)}))
    IN  IF \A i \in DOMAIN first : /\ S19LineOk(first[i], S19Count(first, i))
                                   /\ first[i].chars <= MatchChars
        THEN 25 * Len(first) ELSE -1
=============================================================================
