---------------------------- MODULE LoadingProofs ----------------------------
(***************************************************************************)
(* Theorems about Loading, for every set of files: which loader reads,     *)
(* what a refusal leaves, what is in memory once a text file has been      *)
(* loaded, where the sections and relocations of an ELF file have gone,    *)
(* and what the index shows; and about the segments it fills, for every    *)
(* set of segments.                                                        *)
(***************************************************************************)
EXTENDS Loading, SequenceTheorems, WellFoundedInduction, TLAPS

-----------------------------------------------------------------------------
(* Segments *)

IsSegment(m) == m.start \in Int /\ m.len \in Nat \ {0}

\* addSegment() keeps segments apart unless the new one lies within another:
\* its test misses that case, and only that case.
THEOREM ApartUnlessWithin ==
    ASSUME NEW segments, NEW m, IsSegment(m),
           \A k \in segments : IsSegment(k),
           Disjoint(segments), ~Refused(segments, m),
           \A k \in segments : ~Within(k, m)
    PROVE  Disjoint(Inserted(segments, m))
<1>1. SUFFICES ASSUME NEW k \in segments
               PROVE  ~Overlapping(m, k) /\ ~Overlapping(k, m)
  BY DEF Disjoint, Inserted
<1>2. ~Clash(k, m) /\ ~Within(k, m)
  BY DEF Refused
<1>3. IsSegment(k)
  OBVIOUS
<1> QED
  BY <1>2, <1>3 DEF Clash, Within, Overlapping, EndOf, IsSegment

\* Among segments apart, an address is located in the segment it lies in, at
\* its distance from the start (locateAddress is inverse to the value).
THEOREM LocateIsInverse ==
    ASSUME NEW segments, \A k \in segments : IsSegment(k), Disjoint(segments),
           NEW m \in segments, NEW a \in Int, CanResolve(m, a)
    PROVE  Locate(segments, a).seg = m /\ m.start + Locate(segments, a).offset = a
<1>1. Resolving(segments, a) = {m}
  <2>1. ASSUME NEW k \in segments, CanResolve(k, a)
        PROVE  k = m
    <3>1. IsSegment(k) /\ IsSegment(m)
      OBVIOUS
    <3>2. Overlapping(k, m)
      BY <2>1, <3>1 DEF CanResolve, Overlapping, EndOf, IsSegment
    <3> QED
      BY <2>1, <3>2 DEF Disjoint
  <2> QED
    BY <2>1 DEF Resolving
<1>2. FirstOf({m}) = m
  <2>1. m.start <= m.start
    BY DEF IsSegment
  <2> QED
    BY <2>1 DEF FirstOf
<1>3. m.start + (a - m.start) = a
  BY DEF IsSegment
<1> QED
  BY <1>1, <1>2, <1>3 DEF Locate

-----------------------------------------------------------------------------
(* Opening a file *)

\* A loader reads its lines, or comes to its end; an effect is left out.
Reads == /\ phase = "load" /\ phase' \in {"load", "failed"}
         /\ UNCHANGED <<file, ranks, todo, segs, syms, view>>

Proceeds == phase \in {"load", "dialog"} /\ \E accepts, effects : Proceed(accepts, effects)

Goes == /\ phase = "add" /\ phase' = "add"
        /\ UNCHANGED <<file, pos, ranks, segs, syms, view>>

\* The ELF loader reads on.
ElfReads == /\ phase = "load" /\ Chosen = "ELF"
            /\ \E ok \in BOOLEAN : \E e, n, k : ElfRead(ok, e, n, k)

LEMMA StepKinds ==
    /\ ParseHex \/ ParseS19 \/ PushS19 \/ ElfReads => Reads
    /\ ReadHeader \/ MeasureSection \/ AllocateImage \/ PlaceSection \/ ResolveSymbols
         \/ RelocateWord \/ LeaveSection => ElfReads
    /\ LoadHex \/ LoadS19 \/ LoadElf \/ LoadMach \/ LoadFlat \/ LoadBinary => Proceeds
    /\ LoadCommand \/ LeaveOut => Goes
<1>1. ParseHex \/ ParseS19 \/ PushS19 \/ ElfReads => Reads
  BY DEF ParseHex, ParseS19, PushS19, ParseLine, ElfReads, ElfRead, Reads
<1>2. LoadHex \/ LoadS19 \/ LoadMach \/ LoadFlat \/ LoadElf => Proceeds
  BY DEF LoadHex, LoadS19, LoadElf, InPass, LoadMach, LoadFlat, Proceeds
<1>3. LoadBinary => Proceeds
  BY DEF LoadBinary, Proceeds
<1>4. LoadCommand \/ LeaveOut => Goes
  BY DEF LoadCommand, LeaveOut, Next1, Goes
<1>5. ReadHeader => ElfReads
  BY DEF ReadHeader, InPass, ElfReads, ElfSupported
<1>6. MeasureSection \/ AllocateImage \/ ResolveSymbols \/ LeaveSection => ElfReads
  BY DEF MeasureSection, AllocateImage, ResolveSymbols, LeaveSection, InPass, ElfReads
<1>7. PlaceSection => ElfReads
  <2>1. SectionRead(NextSection) \in BOOLEAN
    BY DEF SectionRead
  <2> QED
    BY <2>1 DEF PlaceSection, InPass, ElfReads
<1>8. RelocateWord => ElfReads
  <2>1. Relocatable(file, elf, NextReloc) \in BOOLEAN
    BY DEF Relocatable
  <2> QED
    BY <2>1 DEF RelocateWord, InPass, ElfReads
<1> QED
  BY <1>1, <1>2, <1>3, <1>4, <1>5, <1>6, <1>7, <1>8

\* Before the first effect the project is empty; only phase "add" has effects.
Untouched == phase \notin {"add", "accepted", "thrown"} => segs = {} /\ syms = <<>>

LEMMA UntouchedStep == Untouched /\ [Next]_vars => Untouched'
<1> SUFFICES ASSUME Untouched, [Next]_vars
             PROVE  Untouched'
  OBVIOUS
<1>1. CASE Match
  BY <1>1 DEF Match, Untouched
<1>2. CASE Choose
  BY <1>2 DEF Choose, Untouched
<1>3. CASE Reads
  BY <1>3 DEF Reads, Untouched
<1>4. CASE Proceeds
  BY <1>4 DEF Proceeds, Proceed, Untouched
<1>5. CASE Goes
  BY <1>5 DEF Goes, Untouched
<1>10. CASE AddSegment
  BY <1>10 DEF AddSegment, Next1, Untouched
<1>11. CASE AddSymbol
  BY <1>11 DEF AddSymbol, CreateSymbol, Next1, Untouched
<1>12. CASE AddLabel
  BY <1>12 DEF AddLabel, CreateSymbol, Next1, Untouched
<1>13. CASE Finish
  BY <1>13 DEF Finish, Untouched
<1>14. CASE Report
  BY <1>14 DEF Report, Untouched
<1>15. CASE Timeout
  BY <1>15 DEF Timeout, Untouched
<1>16. CASE UNCHANGED vars
  BY <1>16 DEF vars, Untouched
<1> QED
  BY <1>1, <1>2, <1>3, <1>4, <1>5, <1>10, <1>11, <1>12, <1>13, <1>14, <1>15, <1>16,
     StepKinds DEF Next

\* A file that is refused, or that turns out bad at its last line, leaves no
\* segment and no symbol in the project (hexloader.cpp:282).
THEOREM RefusedTheorem == Spec => []RefusedLeavesNothing
<1>1. Init => Untouched
  BY DEF Init, Untouched
<1>2. Untouched => RefusedLeavesNothing
  BY DEF Untouched, RefusedLeavesNothing
<1> QED
  BY <1>1, <1>2, UntouchedStep, PTL DEF Spec

\* A clean index was built from the segments there are.
Fresh ==
    /\ dirty \in BOOLEAN
    /\ updated \in BOOLEAN
    /\ ~dirty => index = segs
    /\ phase = "accepted" /\ ~updated => index = segs

\* Once the timer has fired, the view of an accepted file is built from all its
\* segments, of which addSegment() only tells the line index.
THEOREM IndexTheorem == Spec => []IndexShowsSegments
<1>1. Init => Fresh
  BY DEF Init, Fresh
<1>2. Fresh /\ [Next]_vars => Fresh'
  <2> SUFFICES ASSUME Fresh, [Next]_vars
               PROVE  Fresh'
    OBVIOUS
  <2>1. CASE Match
    BY <2>1 DEF Match, view, Fresh
  <2>2. CASE Choose
    BY <2>2 DEF Choose, view, Fresh
  <2>3. CASE Reads
    BY <2>3 DEF Reads, view, Fresh
  <2>4. CASE Proceeds
    BY <2>4 DEF Proceeds, Proceed, view, Fresh
  <2>5. CASE Goes
    BY <2>5 DEF Goes, view, Fresh
  <2>10. CASE AddSegment
    BY <2>10 DEF AddSegment, Next1, Fresh
  <2>11. CASE AddSymbol
    BY <2>11 DEF AddSymbol, CreateSymbol, view, Fresh
  <2>12. CASE AddLabel
    BY <2>12 DEF AddLabel, CreateSymbol, view, Fresh
  <2>13. CASE Finish
    BY <2>13 DEF Finish, PostUpdate, Fresh
  <2>14. CASE Report
    BY <2>14 DEF Report, PostUpdate, Fresh
  <2>15. CASE Timeout
    BY <2>15 DEF Timeout, Fresh
  <2>16. CASE UNCHANGED vars
    BY <2>16 DEF vars, Fresh
  <2> QED
    BY <2>1, <2>2, <2>3, <2>4, <2>5, <2>10, <2>11, <2>12, <2>13, <2>14, <2>15, <2>16,
       StepKinds DEF Next
<1>3. Fresh => IndexShowsSegments
  BY DEF Fresh, IndexShowsSegments
<1> QED
  BY <1>1, <1>2, <1>3, PTL DEF Spec

-----------------------------------------------------------------------------
(* The choice of the loader *)

Count == Len(LoaderNames)

LEMMA NamesAre ==
    /\ Count = 6
    /\ DOMAIN LoaderNames = 1 .. 6
    /\ LoaderNames[1] = "BFLT" /\ LoaderNames[2] = "Binary" /\ LoaderNames[3] = "ELF"
    /\ LoaderNames[4] = "Hex" /\ LoaderNames[5] = "Mach-O" /\ LoaderNames[6] = "S19"
BY DEF LoaderNames, Count

\* A match of lines is worth 25 for each of the first three, or nothing.
LEMMA MatchesAre ==
    ASSUME NEW f \in Files, IsText(f)
    PROVE  HexMatch(Lines(f)) \in -1 .. 100 /\ S19Match(Lines(f)) \in -1 .. 100
<1>1. PICK n \in Nat : DOMAIN Lines(f) = 1 .. n /\ Len(Lines(f)) = n
  <2>1. f.lines \in Seq(Range(f.lines))
    BY FilesAssumption DEF IsText, IsList
  <2>2. Len(f.lines) \in Nat /\ DOMAIN f.lines = 1 .. Len(f.lines)
    BY <2>1, LenProperties
  <2>3. DOMAIN Lines(f) = 1 .. Len(f.lines) /\ Lines(f) \in Seq(Range(Lines(f)))
    BY <2>2 DEF Lines, Range
  <2> QED
    BY <2>2, <2>3, LenProperties
<1>2. PICK k \in 0 .. 3 : k = Min({3, Len(Lines(f))})
  <2>1. \E x \in {3, n} : \A y \in {3, n} : x <= y
    OBVIOUS
  <2> QED
    BY <1>1, <2>1 DEF Min
<1>3. Len(SubSeq(Lines(f), 1, k)) = k
  OBVIOUS
<1> DEFINE first == SubSeq(Lines(f), 1, Min({3, Len(Lines(f))}))
<1>4. HexMatch(Lines(f)) = 25 * Len(first) \/ HexMatch(Lines(f)) = -1
  BY DEF HexMatch
<1>5. S19Match(Lines(f)) = 25 * Len(first) \/ S19Match(Lines(f)) = -1
  BY DEF S19Match
<1>6. 25 * Len(first) \in -1 .. 100 /\ -1 \in -1 .. 100
  <2>1. Len(first) = k
    BY <1>2, <1>3
  <2> HIDE DEF first
  <2> QED
    BY <2>1
<1> HIDE DEF first
<1> QED
  BY <1>4, <1>5, <1>6

LEMMA RankIs ==
    ASSUME NEW f \in Files, NEW i \in 1 .. 6, NEW p
    PROVE  RankOf(LoaderNames[i], f, p) \in -1 .. 100
<1>1. IsText(f) => HexMatch(Lines(f)) \in -1 .. 100 /\ S19Match(Lines(f)) \in -1 .. 100
  BY MatchesAre
<1> QED
  BY <1>1, NamesAre DEF RankOf

Asking(n) == ranks = [i \in 1 .. n |-> RankOf(LoaderNames[i], file, "start")]

\* While loaders are asked the stream is at the start of the file; what they
\* said is of the file at its start; and the one chosen was the best.
Asked ==
    /\ file \in Files
    /\ phase = "match" => pos = "start"
    /\ \E n \in 0 .. 6 : Asking(n)
    /\ phase \in {"load", "dialog", "add", "accepted"} =>
         Asking(6) /\ \E i \in DOMAIN ranks : IsBest(i, ranks)

LEMMA AskedStays ==
    ASSUME Asked, UNCHANGED <<file, ranks>>, phase' # "match",
           phase' \in {"load", "dialog", "add", "accepted"} =>
               phase \in {"load", "dialog", "add", "accepted"}
    PROVE  Asked'
<1>1. \A n : Asking(n)' <=> Asking(n)
  BY DEF Asking
<1> QED
  BY <1>1 DEF Asked, IsBest

LEMMA AskedInit == Init => Asked
<1> SUFFICES ASSUME Init PROVE Asked
  OBVIOUS
<1>1. Asking(0)
  BY DEF Init, Asking
<1> QED
  BY <1>1 DEF Init, Asked

LEMMA AskedStep == Asked /\ [Next]_vars => Asked'
<1> SUFFICES ASSUME Asked, [Next]_vars
             PROVE  Asked'
  OBVIOUS
<1>1. PICK n \in 0 .. 6 : Asking(n)
  BY DEF Asked
<1>2. Len(ranks) = n /\ DOMAIN ranks = 1 .. n
  <2>1. ranks \in Seq({ranks[i] : i \in 1 .. n}) /\ DOMAIN ranks = 1 .. n
    BY <1>1 DEF Asking
  <2> QED
    BY <1>1, <2>1, LenProperties
<1>4. CASE Match
  <2>1. n < 6 /\ pos = "start" /\ phase = "match"
    BY <1>2, <1>4, NamesAre DEF Match, Asked, Count
  <2>2. Asking(n + 1)'
    BY <1>1, <1>2, <1>4, <2>1 DEF Match, Asking
  <2>3. file' = file /\ phase' = "match" /\ pos' = "start" /\ n + 1 \in 0 .. 6
    BY <1>4, <2>1 DEF Match, SoughtBack
  <2> QED
    BY <2>2, <2>3 DEF Asked
<1>5. CASE Choose
  <2>1. n = 6 /\ UNCHANGED <<file, pos, ranks>> /\ phase = "match"
    BY <1>2, <1>5, NamesAre DEF Choose, Count
  <2>2. phase' \in {"load", "dialog", "add", "accepted"} =>
            \E i \in DOMAIN ranks : IsBest(i, ranks)
    BY <1>5 DEF Choose
  <2>3. phase' # "match" /\ Asking(6)' /\ Asking(6)
    BY <1>1, <1>5, <2>1 DEF Choose, Asking
  <2>4. (\E i \in DOMAIN ranks : IsBest(i, ranks))'
           <=> \E i \in DOMAIN ranks : IsBest(i, ranks)
    BY <2>1 DEF IsBest
  <2>5. (\E k \in 0 .. 6 : Asking(k))'
    BY <2>3
  <2> QED
    BY <2>1, <2>2, <2>3, <2>4, <2>5 DEF Asked
<1>6. CASE Reads
  BY <1>6, AskedStays DEF Reads
<1>7. CASE Proceeds
  BY <1>7, AskedStays DEF Proceeds, Proceed
<1>8. CASE Goes
  BY <1>8, AskedStays DEF Goes
<1>9. CASE AddSegment
  BY <1>9, AskedStays DEF AddSegment, Next1
<1>10. CASE AddSymbol \/ AddLabel
  BY <1>10, AskedStays DEF AddSymbol, AddLabel, CreateSymbol, Next1
<1>11. CASE Finish \/ Report
  BY <1>11, AskedStays DEF Finish, Report
<1>12. CASE Timeout
  BY <1>12, AskedStays DEF Timeout
<1>13. CASE UNCHANGED vars
  <2>1. \A k : Asking(k)' <=> Asking(k)
    BY <1>13 DEF vars, Asking
  <2> QED
    BY <1>13, <2>1 DEF vars, Asked, IsBest
<1> QED
  BY <1>4, <1>5, <1>6, <1>7, <1>8, <1>9, <1>10, <1>11, <1>12, <1>13, StepKinds DEF Next

\* The loader that is chosen gave the best rank, and accepts the file.
LEMMA ChosenIsBest ==
    ASSUME Asked, phase \in {"load", "dialog", "add", "accepted"}
    PROVE  /\ RankOf(Chosen, file, "start") > -1
           /\ \A i \in DOMAIN LoaderNames :
                  RankOf(LoaderNames[i], file, "start") <= RankOf(Chosen, file, "start")
<1>1. /\ ranks = [j \in 1 .. 6 |-> RankOf(LoaderNames[j], file, "start")]
      /\ \E j \in 1 .. 6 : IsBest(j, ranks)
  BY DEF Asked, Asking
<1>2. PICK j \in 1 .. 6 : IsBest(j, ranks) /\ Chosen = LoaderNames[j]
  BY <1>1, NamesAre DEF Chosen
<1> QED
  BY <1>1, <1>2, NamesAre DEF IsBest

LEMMA ElfIsChosen ==
    ASSUME Asked, phase \in {"load", "add", "accepted"}, Chosen = "ELF"
    PROVE  file \in Files /\ file.kind = "elf"
<1>1. RankOf("ELF", file, "start") > -1
  BY ChosenIsBest
<1> QED
  BY <1>1 DEF RankOf, ElfSupported, Asked

\* Every loader is asked with the file at its start, and the one that says it
\* matches best reads it; the binary loader reads only what no other knows
\* (loaderfactory.cpp, FileLoaderMaker::autoLoadFromFile).
THEOREM BestLoaderTheorem == Spec => []BestLoaderReads
<1>1. Asked => BestLoaderReads
  <2>1. RankOf("Binary", file, "start") = 0
    BY DEF RankOf
  <2> QED
    BY <2>1, ChosenIsBest DEF BestLoaderReads
<1> QED
  BY <1>1, AskedInit, AskedStep, PTL DEF Spec

-----------------------------------------------------------------------------
(* Lists *)

LEMMA ListIs ==
    ASSUME NEW s, IsList(s)
    PROVE  /\ Len(s) \in Nat /\ DOMAIN s = 1 .. Len(s)
           /\ s = [i \in 1 .. Len(s) |-> s[i]]
           /\ s # <<>> => Len(s) >= 1
<1>1. s \in Seq(Range(s))
  BY DEF IsList
<1>2. Len(s) \in Nat /\ DOMAIN s = 1 .. Len(s) /\ s = [i \in 1 .. Len(s) |-> s[i]]
  BY <1>1, LenProperties
<1> QED
  BY <1>1, <1>2, EmptySeq

LEMMA ListMade ==
    ASSUME NEW n \in Nat, NEW s, s = [i \in 1 .. n |-> s[i]]
    PROVE  IsList(s) /\ Len(s) = n /\ DOMAIN s = 1 .. n
<1>1. DOMAIN s = 1 .. n
  OBVIOUS
<1>2. s \in Seq(Range(s))
  <2>1. \A i \in 1 .. n : s[i] \in Range(s)
    BY <1>1 DEF Range
  <2> QED
    BY <2>1
<1>3. Len(s) = n
  BY <1>1, <1>2, LenProperties
<1> QED
  BY <1>1, <1>2, <1>3 DEF IsList

LEMMA NoneIsList == IsList(<<>>)
BY EmptySeq DEF IsList

LEMMA TailIs ==
    ASSUME NEW s, IsList(s), s # <<>>
    PROVE  /\ IsList(Tail(s)) /\ Len(Tail(s)) = Len(s) - 1
           /\ Head(s) = s[1] /\ 1 \in DOMAIN s
           /\ \A i \in DOMAIN Tail(s) : i + 1 \in DOMAIN s /\ Tail(s)[i] = s[i + 1]
<1>1. s \in Seq(Range(s)) /\ Len(s) \in Nat \ {0} /\ DOMAIN s = 1 .. Len(s)
  BY ListIs DEF IsList
<1>2. /\ Tail(s) \in Seq(Range(s)) /\ Len(Tail(s)) = Len(s) - 1
      /\ \A i \in 1 .. Len(s) - 1 : Tail(s)[i] = s[i + 1]
  BY <1>1, HeadTailProperties
<1>3. IsList(Tail(s)) /\ DOMAIN Tail(s) = 1 .. Len(s) - 1
  <2> DEFINE t == Tail(s)
  <2>1. t = [i \in 1 .. Len(s) - 1 |-> t[i]] /\ Len(s) - 1 \in Nat
    BY <1>1, <1>2, LenProperties
  <2> HIDE DEF t
  <2>2. IsList(t) /\ DOMAIN t = 1 .. Len(s) - 1
    BY <2>1, ListMade
  <2> QED
    BY <2>2 DEF t
<1>4. Head(s) = s[1]
  OBVIOUS
<1> QED
  BY <1>1, <1>2, <1>3, <1>4

LEMMA AppendIs ==
    ASSUME NEW s, IsList(s), NEW e
    PROVE  /\ IsList(Append(s, e)) /\ Len(Append(s, e)) = Len(s) + 1
           /\ Append(s, e)[Len(s) + 1] = e
           /\ \A i \in DOMAIN s : Append(s, e)[i] = s[i]
<1> DEFINE t == Append(s, e)
<1>1. Len(s) \in Nat /\ DOMAIN s = 1 .. Len(s) /\ s \in Seq(Range(s) \cup {e})
  BY ListIs DEF IsList, Range
<1>2. /\ t \in Seq(Range(s) \cup {e}) /\ Len(t) = Len(s) + 1
      /\ t[Len(s) + 1] = e /\ \A i \in 1 .. Len(s) : t[i] = s[i]
  BY <1>1, AppendProperties
<1>3. IsList(t)
  <2>1. t = [i \in 1 .. Len(s) + 1 |-> t[i]]
    BY <1>1, <1>2, LenProperties
  <2> HIDE DEF t
  <2> QED
    BY <1>1, <2>1, ListMade
<1> QED
  BY <1>1, <1>2, <1>3

-----------------------------------------------------------------------------
(* Types *)

\* A segment has no data, or as many bytes as it is long.
Filled(m) == DOMAIN m.data \in {{}, 0 .. m.len - 1}

IsEffect(e) ==
    /\ e.op \in {"segment", "symbol", "label", "skip"}
    /\ e.op = "segment" => Filled(e.seg)

AreEffects(s) == IsList(s) /\ \A i \in DOMAIN s : IsEffect(s[i])

LEMMA SegmentFilled ==
    ASSUME NEW base, NEW len, NEW buffer, NEW n
    PROVE  IsEffect(AddSeg(Segment(base, len, buffer, n)))
<1>1. Filled(Segment(base, len, buffer, n))
  BY DEF Filled, Segment, Undefined
<1> QED
  BY <1>1 DEF IsEffect, AddSeg

LEMMA TextEffects ==
    ASSUME IsList(chunks)
    PROVE  AreEffects(Segments(HexSegments(chunks))) /\ AreEffects(Segments(S19Segments(chunks)))
<1>1. Len(chunks) \in Nat /\ DOMAIN chunks = 1 .. Len(chunks)
  BY ListIs
<1>2. ASSUME NEW ms, DOMAIN ms = 1 .. Len(chunks), \A i \in DOMAIN ms : IsEffect(AddSeg(ms[i]))
      PROVE  AreEffects(Segments(ms))
  <2> DEFINE s == Segments(ms)
  <2>1. s = [i \in 1 .. Len(chunks) |-> s[i]] /\ \A i \in 1 .. Len(chunks) : IsEffect(s[i])
    BY <1>2 DEF Segments
  <2>2. IsList(s) /\ DOMAIN s = 1 .. Len(chunks)
    <3> HIDE DEF s
    <3> QED
      BY <1>1, <2>1, ListMade
  <2> QED
    BY <2>1, <2>2 DEF AreEffects
<1>3. \A c : IsEffect(AddSeg(HexSegmentOf(c))) /\ IsEffect(AddSeg(S19SegmentOf(c)))
  BY SegmentFilled DEF HexSegmentOf, S19SegmentOf
<1>4. AreEffects(Segments(HexSegments(chunks)))
  <2> DEFINE ms == HexSegments(chunks)
  <2>1. DOMAIN ms = 1 .. Len(chunks) /\ \A i \in DOMAIN ms : IsEffect(AddSeg(ms[i]))
    BY <1>1, <1>3 DEF HexSegments
  <2> HIDE DEF ms
  <2>2. AreEffects(Segments(ms))
    BY <1>2, <2>1
  <2> QED
    BY <2>2 DEF ms
<1>5. AreEffects(Segments(S19Segments(chunks)))
  <2> DEFINE ms == S19Segments(chunks)
  <2>1. DOMAIN ms = 1 .. Len(chunks) /\ \A i \in DOMAIN ms : IsEffect(AddSeg(ms[i]))
    BY <1>1, <1>3 DEF S19Segments
  <2> HIDE DEF ms
  <2>2. AreEffects(Segments(ms))
    BY <1>2, <2>1
  <2> QED
    BY <2>2 DEF ms
<1> QED
  BY <1>4, <1>5

\* A symbol that is left out is an effect as well, and so are the rest.
LEMMA SymbolEffects ==
    /\ IsEffect(LeftOut)
    /\ \A name, v : IsEffect(AddSymAt(name, v))
    /\ \A name, m, o : IsEffect(AddSymIn(name, m, o))
BY DEF IsEffect, LeftOut, AddSymAt, AddSymIn

LEMMA ElfEffectsAre ==
    ASSUME NEW f \in Files, f.kind = "elf", NEW e
    PROVE  /\ AreEffects(ElfEffects(f, e))
           /\ ElfEffects(f, e) # <<>> /\ ElfEffects(f, e)[1] = AddSeg(ElfSegment(f, e))
           /\ \A i \in DOMAIN ElfEffects(f, e) : i # 1 => ElfEffects(f, e)[i].op # "segment"
<1> DEFINE m == ElfSegment(f, e)
           named == [i \in DOMAIN f.syms |-> IF f.syms[i].hidden THEN LeftOut
                                             ELSE AddSymIn(f.syms[i].name, m, ElfValue(f, f.syms[i]))]
<1>1. Len(f.syms) \in Nat /\ DOMAIN f.syms = 1 .. Len(f.syms)
  BY FilesAssumption, ListIs DEF IsElf
<1>2. IsEffect(AddSeg(m))
  BY SegmentFilled DEF ElfSegment
<1>3. \A i \in 1 .. Len(f.syms) : IsEffect(named[i]) /\ named[i].op # "segment"
  BY <1>1, SymbolEffects DEF LeftOut, AddSymIn
<1>4. named \in Seq(Range(named)) /\ Len(named) = Len(f.syms) /\ DOMAIN named = 1 .. Len(f.syms)
  <2>1. named = [i \in 1 .. Len(f.syms) |-> named[i]]
    BY <1>1
  <2> HIDE DEF named
  <2> QED
    BY <1>1, <2>1, ListMade DEF IsList
<1> DEFINE all == <<AddSeg(m)>> \o named
           S == Range(named) \cup {AddSeg(m)}
<1> HIDE DEF m, named
<1>5. /\ all \in Seq(S) /\ Len(all) = 1 + Len(f.syms)
      /\ \A i \in 1 .. Len(all) : all[i] = IF i = 1 THEN AddSeg(m) ELSE named[i - 1]
  <2>1. named \in Seq(S) /\ <<AddSeg(m)>> \in Seq(S) /\ Len(<<AddSeg(m)>>) = 1
    BY <1>4
  <2>2. <<AddSeg(m)>>[1] = AddSeg(m)
    OBVIOUS
  <2> QED
    BY <1>1, <1>4, <2>1, <2>2, ConcatProperties
<1>6. IsList(all) /\ DOMAIN all = 1 .. 1 + Len(f.syms)
  <2>1. all = [i \in 1 .. 1 + Len(f.syms) |-> all[i]] /\ 1 + Len(f.syms) \in Nat
    BY <1>1, <1>5, LenProperties
  <2> HIDE DEF all
  <2> QED
    BY <2>1, ListMade
<1>7. \A i \in DOMAIN all : IsEffect(all[i])
  BY <1>1, <1>2, <1>3, <1>5, <1>6
<1>8. AreEffects(all)
  BY <1>6, <1>7 DEF AreEffects
<1>9. all # <<>> /\ all[1] = AddSeg(m)
  BY <1>1, <1>5, <1>6
<1>10. \A i \in DOMAIN all : i # 1 => all[i].op # "segment"
  BY <1>1, <1>3, <1>5, <1>6
<1> QED
  BY <1>8, <1>9, <1>10 DEF ElfEffects, m, named

LEMMA CommandEffects ==
    ASSUME NEW f \in Files, f.kind = "mach", NEW i \in DOMAIN f.cmds
    PROVE  AreEffects(MachCommand(f.cmds[i]))
<1> DEFINE c == f.cmds[i]
           named == [k \in DOMAIN c.syms |-> IF c.syms[k].defined
                                             THEN AddSymAt(c.syms[k].name, c.syms[k].value)
                                             ELSE LeftOut]
<1>1. CASE c.cmd = "LC_SEGMENT"
  <2> DEFINE e == AddSeg(Segment(c.vmaddr, c.vmsize, c.bytes, c.filesize))
  <2>1. IsEffect(e)
    BY SegmentFilled
  <2> HIDE DEF e
  <2>2. IsList(<<e>>) /\ DOMAIN <<e>> = 1 .. 1 /\ <<e>>[1] = e
    BY DEF IsList, Range
  <2>3. AreEffects(<<e>>)
    BY <2>1, <2>2 DEF AreEffects
  <2> QED
    BY <1>1, <2>3 DEF MachCommand, e
<1>2. CASE c.cmd = "LC_SYMTAB"
  <2>1. Len(c.syms) \in Nat /\ DOMAIN c.syms = 1 .. Len(c.syms)
    BY <1>2, FilesAssumption, ListIs
  <2>2. \A k \in 1 .. Len(c.syms) : IsEffect(named[k])
    BY <2>1, SymbolEffects
  <2>3. IsList(named) /\ DOMAIN named = 1 .. Len(c.syms)
    <3>1. named = [k \in 1 .. Len(c.syms) |-> named[k]]
      BY <2>1
    <3> HIDE DEF named
    <3> QED
      BY <2>1, <3>1, ListMade
  <2>4. AreEffects(named)
    BY <2>2, <2>3 DEF AreEffects
  <2> QED
    BY <1>2, <2>4 DEF MachCommand
<1>3. CASE c.cmd \notin {"LC_SEGMENT", "LC_SYMTAB"}
  BY <1>3, NoneIsList DEF MachCommand, AreEffects
<1> QED
  BY <1>1, <1>2, <1>3

LEMMA OtherEffects ==
    /\ \A f : AreEffects(FlatEffects(f))
    /\ \A base, len, buffer, n : AreEffects(<<AddSeg(Segment(base, len, buffer, n))>>)
    /\ AreEffects(<<>>)
<1>1. ASSUME NEW a, NEW b, NEW c, NEW d, IsEffect(a), IsEffect(b), IsEffect(c), IsEffect(d)
      PROVE  AreEffects(<<a, b, c, d>>)
  <2>1. IsList(<<a, b, c, d>>) /\ DOMAIN <<a, b, c, d>> = 1 .. 4
    BY DEF IsList, Range
  <2> QED
    BY <1>1, <2>1 DEF AreEffects
<1>2. ASSUME NEW a, IsEffect(a) PROVE AreEffects(<<a>>)
  <2>1. IsList(<<a>>) /\ DOMAIN <<a>> = 1 .. 1
    BY DEF IsList, Range
  <2> QED
    BY <1>2, <2>1 DEF AreEffects
<1>3. ASSUME NEW f PROVE AreEffects(FlatEffects(f))
  BY <1>1, SegmentFilled, SymbolEffects DEF FlatEffects
<1>4. AreEffects(<<>>)
  BY NoneIsList DEF AreEffects
<1> QED
  BY <1>2, <1>3, <1>4, SegmentFilled

\* What the ELF loader knows is a record of six fields.
IsElfState(e) ==
    /\ e = [pass |-> e.pass, host |-> e.host, size |-> e.size, end |-> e.end, at |-> e.at,
             image |-> e.image]
    /\ e.pass \in {"header", "measure", "place", "relocate"}

LEMMA ElfStates ==
    ASSUME NEW e, IsElfState(e)
    PROVE  /\ \A p \in {"measure", "relocate"} : IsElfState([e EXCEPT !.pass = p])
           /\ \A n : IsElfState([e EXCEPT !.size = n])
           /\ \A host : IsElfState(Allocated(e, host))
           /\ \A s : IsElfState(WithSection(e, s))
           /\ \A f, r : IsElfState(WithReloc(f, e, r))
<1>1. ASSUME NEW p, NEW h, NEW n, NEW d, NEW t, NEW i,
             p \in {"header", "measure", "place", "relocate"}
      PROVE  IsElfState([pass |-> p, host |-> h, size |-> n, end |-> d, at |-> t, image |-> i])
  BY <1>1 DEF IsElfState
<1>2. \A p \in {"measure", "relocate"} : IsElfState([e EXCEPT !.pass = p])
  BY DEF IsElfState
<1>3. \A n : IsElfState([e EXCEPT !.size = n])
  BY DEF IsElfState
<1>4. \A host : IsElfState(Allocated(e, host))
  <2> SUFFICES ASSUME NEW host PROVE IsElfState(Allocated(e, host))
    OBVIOUS
  <2> DEFINE zeros == [o \in 0 .. e.size - 1 |-> 0]
  <2>1. Allocated(e, host) = [e EXCEPT !.pass = "place", !.host = host, !.image = zeros]
    BY DEF Allocated
  <2> HIDE DEF zeros
  <2> QED
    BY <2>1 DEF IsElfState
<1>5. \A s : IsElfState(WithSection(e, s))
  BY DEF IsElfState, WithSection
<1>6. \A f, r : IsElfState(WithReloc(f, e, r))
  BY DEF IsElfState, WithReloc
<1> QED
  BY <1>2, <1>3, <1>4, <1>5, <1>6

Typed ==
    /\ IsElfState(elf)
    /\ phase \in {"match", "dialog", "load", "add", "failed", "rejected", "accepted", "thrown"}
    /\ pos \in {"start", "read"}
    /\ line \in Nat /\ byte \in Nat
    /\ IsList(chunks)
    /\ AreEffects(todo)
    /\ \A m \in segs : Filled(m)
    /\ updated \in BOOLEAN /\ dirty \in BOOLEAN

\* The stack of chunks stays one when its top changes.
LEMMA ChunksStay ==
    ASSUME NEW cs, IsList(cs)
    PROVE  /\ \A l : IsList(HexStep(cs, l))
           /\ \A a, b : IsList(S19Push(cs, a, b))
<1>1. ASSUME NEW s, IsList(s), NEW i, NEW e
      PROVE  IsList([s EXCEPT ![i] = e])
  <2> DEFINE t == [s EXCEPT ![i] = e]
  <2>1. Len(s) \in Nat /\ DOMAIN s = 1 .. Len(s) /\ s = [k \in 1 .. Len(s) |-> s[k]]
    BY <1>1, ListIs
  <2>2. t = [k \in 1 .. Len(s) |-> t[k]]
    BY <2>1
  <2> HIDE DEF t
  <2> QED
    BY <2>1, <2>2, ListMade
<1>2. \A e : IsList(Append(cs, e)) /\ IsList(<<e>>)
  <2>1. \A e : IsList(<<e>>)
    BY DEF IsList, Range
  <2> QED
    BY <2>1, AppendIs
<1>3. ASSUME NEW l PROVE IsList(HexStep(cs, l))
  <2>1. CASE l.type \in {2, 4}
    <3> DEFINE new == EmptyChunk(HexBase(l))
    <3>1. HexStep(cs, l) = Append(cs, new)
      BY <2>1 DEF HexStep
    <3> HIDE DEF new
    <3> QED
      BY <1>2, <3>1
  <2>2. CASE l.type = 0
    <3> DEFINE some == IF cs = <<>> THEN <<EmptyChunk(0)>> ELSE cs
               top  == HexSetData(some[Len(some)], l.addr, l.data)
    <3>1. IsList(some)
      BY <1>2
    <3>2. HexStep(cs, l) = [some EXCEPT ![Len(some)] = top]
      BY <2>2 DEF HexStep
    <3> HIDE DEF some, top
    <3>3. IsList([some EXCEPT ![Len(some)] = top])
      BY <1>1, <3>1, Zenon
    <3> QED
      BY <3>2, <3>3
  <2>3. CASE l.type \notin {0, 2, 4}
    BY <2>3 DEF HexStep
  <2> QED
    BY <2>1, <2>2, <2>3
<1>4. ASSUME NEW a, NEW b PROVE IsList(S19Push(cs, a, b))
  <2> DEFINE top == S19SetData(cs[Len(cs)], a, b)
             new == S19SetData(EmptyChunk(0), a, b)
  <2>1. S19Push(cs, a, b) \in {[cs EXCEPT ![Len(cs)] = top], Append(cs, new)}
    BY DEF S19Push
  <2> HIDE DEF top, new
  <2>2. IsList([cs EXCEPT ![Len(cs)] = top])
    BY <1>1, Zenon
  <2> QED
    BY <1>2, <2>1, <2>2
<1> QED
  BY <1>3, <1>4

LEMMA RestAreEffects ==
    ASSUME NEW s, AreEffects(s), s # <<>>
    PROVE  AreEffects(Tail(s)) /\ IsEffect(Head(s))
BY TailIs DEF AreEffects

LEMMA TypedProceed ==
    ASSUME Typed, NEW accepts \in BOOLEAN, NEW effects, AreEffects(effects),
           Proceed(accepts, effects)
    PROVE  Typed'
BY OtherEffects DEF Proceed, Typed, read, view

LEMMA ElfReadTyped ==
    ASSUME Typed, NEW ok, NEW e, IsElfState(e), NEW n \in Nat, NEW k \in Nat, ElfRead(ok, e, n, k)
    PROVE  IsElfState(elf') /\ line' \in Nat /\ byte' \in Nat
BY DEF ElfRead, Typed

LEMMA ElfTyped ==
    ASSUME Typed,
           ReadHeader \/ MeasureSection \/ AllocateImage \/ PlaceSection \/ ResolveSymbols
               \/ RelocateWord \/ LeaveSection
    PROVE  IsElfState(elf') /\ line' \in Nat /\ byte' \in Nat
<1>1. IsElfState(elf) /\ line + 1 \in Nat /\ byte + 1 \in Nat /\ line \in Nat /\ 0 \in Nat
  BY DEF Typed
<1>2. CASE ReadHeader
  <2>1. IsElfState([elf EXCEPT !.pass = "measure"])
    BY <1>1, ElfStates
  <2> QED
    BY <1>1, <1>2, <2>1, ElfReadTyped DEF ReadHeader
<1>3. CASE MeasureSection
  <2>1. IsElfState([elf EXCEPT !.size = Measured(elf.size, NextSection)])
    BY <1>1, ElfStates
  <2> QED
    BY <1>1, <1>3, <2>1, ElfReadTyped DEF MeasureSection
<1>4. CASE AllocateImage
  <2>1. PICK host \in Hosts, ok \in BOOLEAN : ElfRead(ok, Allocated(elf, host), 0, 0)
    BY <1>4 DEF AllocateImage
  <2>2. IsElfState(Allocated(elf, host))
    BY <1>1, ElfStates
  <2> QED
    BY <1>1, <2>1, <2>2, ElfReadTyped
<1>5. CASE PlaceSection
  <2>1. IsElfState(WithSection(elf, NextSection))
    BY <1>1, ElfStates
  <2> QED
    BY <1>1, <1>5, <2>1, ElfReadTyped DEF PlaceSection
<1>6. CASE ResolveSymbols
  <2>1. IsElfState([elf EXCEPT !.pass = "relocate"])
    BY <1>1, ElfStates
  <2> QED
    BY <1>1, <1>6, <2>1, ElfReadTyped DEF ResolveSymbols
<1>7. CASE RelocateWord
  <2>1. IsElfState(WithReloc(file, elf, NextReloc))
    BY <1>1, ElfStates
  <2> QED
    BY <1>1, <1>7, <2>1, ElfReadTyped DEF RelocateWord
<1>8. CASE LeaveSection
  BY <1>1, <1>8, ElfReadTyped DEF LeaveSection
<1> QED
  BY <1>2, <1>3, <1>4, <1>5, <1>6, <1>7, <1>8

LEMMA TypedStep == Asked /\ Typed /\ [Next]_vars => Typed'
<1> SUFFICES ASSUME Asked, Typed, [Next]_vars
             PROVE  Typed'
  OBVIOUS
<1>1. CASE Match
  BY <1>1 DEF Match, SoughtBack, Typed, read, view
<1>2. CASE Choose
  BY <1>2 DEF Choose, Typed, read, view
<1>3. CASE ParseHex
  BY <1>3, ChunksStay DEF ParseHex, ParseLine, Typed, read, view
<1>4. CASE LoadHex
  <2>1. AreEffects(Segments(HexSegments(chunks)))
    BY TextEffects DEF Typed
  <2> HIDE DEF Typed
  <2> QED
    BY <1>4, <2>1, TypedProceed DEF LoadHex
<1>5. CASE ParseS19
  BY <1>5 DEF ParseS19, ParseLine, Typed, read, view
<1>6. CASE PushS19
  BY <1>6, ChunksStay DEF PushS19, Typed, view
<1>7. CASE LoadS19
  <2>1. AreEffects(Segments(S19Segments(chunks)))
    BY TextEffects DEF Typed
  <2> HIDE DEF Typed
  <2> QED
    BY <1>7, <2>1, TypedProceed DEF LoadS19
<1>8. CASE LoadElf
  <2> DEFINE effects == ElfEffects(file, elf)
  <2>1. Proceed(TRUE, effects)
    BY <1>8 DEF LoadElf
  <2>2. file \in Files /\ file.kind = "elf"
    BY <1>8, ElfIsChosen DEF LoadElf, InPass
  <2>3. AreEffects(effects)
    BY <2>2, ElfEffectsAre
  <2> HIDE DEF effects
  <2> QED
    BY <2>1, <2>3, TypedProceed
<1>18. CASE ElfReads /\ IsElfState(elf') /\ line' \in Nat /\ byte' \in Nat
  BY <1>18 DEF ElfReads, ElfRead, Typed, view
<1>9. CASE LoadMach
  <2>1. PICK garbage \in BOOLEAN : Proceed(MachAccepts(file, garbage), <<>>)
    BY <1>9 DEF LoadMach
  <2>2. MachAccepts(file, garbage) \in BOOLEAN /\ AreEffects(<<>>)
    BY OtherEffects DEF MachAccepts
  <2> QED
    BY <2>1, <2>2, TypedProceed
<1>10. CASE LoadCommand
  <2>1. phase = "add" /\ Chosen = "Mach-O" /\ line < Len(file.cmds)
    BY <1>10 DEF LoadCommand, MoreCommands
  <2>2. file \in Files /\ file.kind = "mach"
    BY <2>1, ChosenIsBest DEF Asked, RankOf, MachMatches
  <2>3. line + 1 \in DOMAIN file.cmds
    BY <2>1, <2>2, FilesAssumption, ListIs DEF Typed
  <2>4. AreEffects(MachCommand(file.cmds[line + 1]))
    BY <2>2, <2>3, CommandEffects
  <2> QED
    BY <1>10, <2>4 DEF LoadCommand, Typed, view
<1>11. CASE LoadFlat
  <2>1. FlatAccepts(file) \in BOOLEAN /\ AreEffects(FlatEffects(file))
    BY OtherEffects DEF FlatAccepts
  <2> QED
    BY <1>11, <2>1, TypedProceed DEF LoadFlat
<1>12. CASE LoadBinary
  <2> DEFINE n == Len(FileBytes(file))
             buffer == [i \in 0 .. n - 1 |-> FileBytes(file)[i + 1]]
  <2>1. \/ \E base \in Bases : Proceed(TRUE, <<AddSeg(Segment(base, n, buffer, n))>>)
        \/ Proceed(FALSE, <<>>)
    BY <1>12 DEF LoadBinary
  <2> HIDE DEF n, buffer
  <2>2. \A base : AreEffects(<<AddSeg(Segment(base, n, buffer, n))>>)
    BY OtherEffects
  <2>3. CASE Proceed(FALSE, <<>>)
    BY <2>3, TypedProceed, OtherEffects
  <2>4. ASSUME NEW base \in Bases, Proceed(TRUE, <<AddSeg(Segment(base, n, buffer, n))>>)
        PROVE  Typed'
    <3> DEFINE effects == <<AddSeg(Segment(base, n, buffer, n))>>
    <3>1. AreEffects(effects)
      BY <2>2
    <3> HIDE DEF effects
    <3> QED
      BY <2>4, <3>1, TypedProceed DEF effects
  <2> QED
    BY <2>1, <2>3, <2>4
<1>13. CASE AddSegment
  <2>1. todo # <<>> /\ Head(todo).op = "segment"
    BY <1>13 DEF AddSegment, Next1
  <2>2. AreEffects(Tail(todo)) /\ Filled(Head(todo).seg) /\ AreEffects(<<>>)
    BY <2>1, RestAreEffects, OtherEffects DEF Typed, IsEffect
  <2>3. \A m \in segs' : Filled(m)
    BY <1>13, <2>2 DEF AddSegment, Inserted, Typed
  <2> QED
    BY <1>13, <2>2, <2>3 DEF AddSegment, Typed, read
<1>14. CASE AddSymbol \/ AddLabel \/ LeaveOut
  <2>1. todo # <<>> /\ todo' = Tail(todo)
    BY <1>14 DEF AddSymbol, AddLabel, LeaveOut, CreateSymbol, Next1
  <2>2. AreEffects(todo')
    BY <2>1, RestAreEffects DEF Typed
  <2>3. UNCHANGED <<phase, pos, line, byte, chunks, elf, segs, updated, dirty>>
    BY <1>14 DEF AddSymbol, AddLabel, LeaveOut, CreateSymbol, read, view
  <2> QED
    BY <2>2, <2>3 DEF Typed
<1>15. CASE Finish \/ Report
  BY <1>15 DEF Finish, Report, PostUpdate, Typed, read
<1>16. CASE Timeout
  BY <1>16 DEF Timeout, Typed, read
<1>17. CASE UNCHANGED vars
  BY <1>17 DEF vars, Typed, read, view
<1> QED
  BY <1>1, <1>2, <1>3, <1>4, <1>5, <1>6, <1>7, <1>8, <1>9, <1>10, <1>11, <1>12, <1>13,
     <1>14, <1>15, <1>16, <1>17, <1>18, StepKinds, ElfTyped DEF Next

LEMMA TypedInit == Init => Typed
<1> SUFFICES ASSUME Init
             PROVE  Typed
  OBVIOUS
<1>1. updated \in BOOLEAN /\ dirty \in BOOLEAN
  BY DEF Init
<1>2. IsElfState(elf)
  BY DEF Init, IsElfState, ElfStart
<1>3. IsList(chunks) /\ AreEffects(todo) /\ \A m \in segs : Filled(m)
  BY NoneIsList, OtherEffects DEF Init
<1>4. phase = "match" /\ pos = "start" /\ line \in Nat /\ byte \in Nat
  BY DEF Init
<1> QED
  BY <1>1, <1>2, <1>3, <1>4 DEF Typed

\* Ranks stay between -1 and 100, every effect is of a kind addSegment() or
\* createSymbol() is called with, and a segment in the project has no data or as
\* many bytes as it is long (MemSegment::init), whichever loader reads.
THEOREM TypeTheorem == Spec => []TypeOK
<1>1. Asked /\ Typed => TypeOK
  <2> SUFFICES ASSUME Asked, Typed PROVE TypeOK
    OBVIOUS
  <2>1. PICK n \in 0 .. 6 : ranks = [i \in 1 .. n |-> RankOf(LoaderNames[i], file, "start")]
    BY DEF Asked, Asking
  <2>2. \A i \in DOMAIN ranks : ranks[i] \in -1 .. 100
    <3>1. \A i \in 1 .. 6 : RankOf(LoaderNames[i], file, "start") \in -1 .. 100
      BY RankIs DEF Asked
    <3>2. \A i \in DOMAIN ranks : i \in 1 .. 6 /\ ranks[i] = RankOf(LoaderNames[i], file, "start")
      BY <2>1
    <3> QED
      BY <3>1, <3>2
  <2> QED
    BY <2>2 DEF Typed, TypeOK, AreEffects, IsEffect, Filled, IsElfState
<1> QED
  BY <1>1, AskedInit, AskedStep, TypedInit, TypedStep, PTL DEF Spec

-----------------------------------------------------------------------------
(* Lines of text *)

LEMMA FourBytes ==
    ASSUME NEW w \in Nat, NEW x \in Nat, NEW y \in Nat, NEW z \in Nat
    PROVE  w + 256 * x + 65536 * y + 16777216 * z \in Nat
<1>1. 256 * x \in Nat /\ 65536 * y \in Nat /\ 16777216 * z \in Nat
  OBVIOUS
<1> QED
  BY <1>1

LEMMA LinesAre ==
    ASSUME NEW f \in Files, IsText(f)
    PROVE  /\ Len(f.lines) \in Nat /\ DOMAIN Lines(f) = 1 .. Len(f.lines)
           /\ \A i \in DOMAIN Lines(f) :
                  /\ Lines(f)[i] = ReadLine(f.lines[i])
                  /\ Lines(f)[i].addr \in Nat /\ Lines(f)[i].type \in Nat
                  /\ Lines(f)[i].data \in Seq(Nat)
<1>1. Len(f.lines) \in Nat /\ DOMAIN f.lines = 1 .. Len(f.lines)
  BY FilesAssumption, ListIs DEF IsText
<1>2. \A d \in Digit : Read4(d) \in 0 .. 15
  BY DEF Digit, NoDigit, Read4
<1>3. \A p \in Pair : Read8(p) \in Nat
  <2>1. \A p \in Pair : p[1] \in Digit /\ p[2] \in Digit
    BY DEF Pair
  <2>2. \A x, y \in 0 .. 15 : 16 * x + y \in Nat
    OBVIOUS
  <2> QED
    BY <1>2, <2>1, <2>2 DEF Read8
<1>4. \A s \in Seq(Pair) : ReadNumber(s) \in Nat
  <2>1. ASSUME NEW s \in Seq(Pair), NEW i \in Nat PROVE ByteOf(s, i) \in Nat
    <3>1. CASE i < Len(s)
      <4>1. Len(s) - i \in 1 .. Len(s)
        BY <3>1
      <4>2. s[Len(s) - i] \in Pair
        BY <4>1
      <4> QED
        BY <1>3, <3>1, <4>2 DEF ByteOf
    <3>2. CASE ~(i < Len(s))
      BY <3>2 DEF ByteOf
    <3> QED
      BY <3>1, <3>2
  <2> SUFFICES ASSUME NEW s \in Seq(Pair) PROVE ReadNumber(s) \in Nat
    OBVIOUS
  <2>2. ByteOf(s, 0) \in Nat /\ ByteOf(s, 1) \in Nat /\ ByteOf(s, 2) \in Nat /\ ByteOf(s, 3) \in Nat
    BY <2>1
  <2> PICK b0, b1, b2, b3 : b0 = ByteOf(s, 0) /\ b1 = ByteOf(s, 1) /\ b2 = ByteOf(s, 2) /\ b3 = ByteOf(s, 3)
    OBVIOUS
  <2>3. b0 + 256 * b1 + 65536 * b2 + 16777216 * b3 \in Nat
    <3>1. b0 \in Nat /\ b1 \in Nat /\ b2 \in Nat /\ b3 \in Nat
      BY <2>2
    <3> QED
      BY ONLY <3>1, FourBytes
  <2>4. ReadNumber(s) = b0 + 256 * b1 + 65536 * b2 + 16777216 * b3
    BY DEF ReadNumber
  <2> QED
    BY <2>3, <2>4
<1>5. \A s \in Seq(Pair) : ReadData(s) \in Seq(Nat)
  <2> SUFFICES ASSUME NEW s \in Seq(Pair) PROVE ReadData(s) \in Seq(Nat)
    OBVIOUS
  <2>1. Len(s) \in Nat /\ DOMAIN s = 1 .. Len(s) /\ \A i \in 1 .. Len(s) : s[i] \in Pair
    BY LenProperties
  <2>2. ReadData(s) \in [1 .. Len(s) -> Nat]
    BY <1>3, <2>1 DEF ReadData
  <2> QED
    BY <2>1, <2>2
<1>6. ASSUME NEW l, IsLine(l)
      PROVE  /\ ReadLine(l).addr \in Nat /\ ReadLine(l).type \in Nat
             /\ ReadLine(l).data \in Seq(Nat)
  <2>1. ReadLine(l).addr = ReadNumber(l.addr) /\ l.addr \in Seq(Pair)
    BY <1>6 DEF ReadLine, IsLine
  <2>2. ReadLine(l).type \in Nat
    <3>1. CASE l.mark = "S"
      BY <1>2, <1>6, <3>1 DEF ReadLine, IsLine
    <3>2. CASE l.mark # "S"
      BY <1>3, <1>6, <3>2 DEF ReadLine, IsLine
    <3> QED
      BY <3>1, <3>2
  <2>3. DataOfLine(l) \in Seq(Pair)
    <3>1. l.data \in Seq(Pair)
      BY <1>6 DEF IsLine
    <3>2. l.data # <<>> => SubSeq(l.data, 1, Len(l.data) - 1) \in Seq(Pair)
      BY <3>1
    <3> QED
      BY <3>1, <3>2 DEF DataOfLine, Front
  <2> QED
    BY <1>4, <1>5, <2>1, <2>2, <2>3 DEF ReadLine
<1>7. /\ DOMAIN Lines(f) = 1 .. Len(f.lines)
      /\ \A i \in 1 .. Len(f.lines) : Lines(f)[i] = ReadLine(f.lines[i]) /\ IsLine(f.lines[i])
  BY <1>1, FilesAssumption DEF Lines, IsText
<1> QED
  BY <1>1, <1>6, <1>7

LEMMA LeastNat ==
    ASSUME NEW D, D \subseteq Nat, D # {}
    PROVE  \E d \in D : \A e \in D : d <= e
<1>1. PICK d \in D : \A e \in D : ~(<<e, d>> \in OpToRel(<, Nat))
  BY WFMin, NatLessThanWellFounded
<1>2. ASSUME NEW e \in D PROVE d <= e
  <2>1. d \in Nat /\ e \in Nat
    OBVIOUS
  <2>2. ~(e < d)
    BY <1>1, <2>1 DEF OpToRel
  <2> QED
    BY <2>1, <2>2
<1> QED
  BY <1>2

\* Min() and Max() of a set of naturals that has a bound.
LEMMA ExtremesAre ==
    ASSUME NEW D, D \subseteq Nat, D # {}, NEW bound \in Nat, \A d \in D : d <= bound
    PROVE  /\ Min(D) \in D /\ \A d \in D : Min(D) <= d
           /\ Max(D) \in D /\ \A d \in D : d <= Max(D)
<1>1. \E d \in D : \A e \in D : d <= e
  BY LeastNat
<1>2. \E d \in D : \A e \in D : d >= e
  <2> DEFINE E == {bound - d : d \in D}
  <2>1. E \subseteq Nat /\ E # {}
    <3>1. \A d \in D : bound - d \in Nat
      OBVIOUS
    <3> QED
      BY <3>1
  <2>2. PICK g \in E : \A e \in E : g <= e
    <3> HIDE DEF E
    <3> QED
      BY <2>1, LeastNat
  <2>3. PICK d \in D : g = bound - d
    BY <2>2
  <2>4. ASSUME NEW e \in D PROVE d >= e
    <3>1. bound - d <= bound - e
      BY <2>2, <2>3
    <3>2. d \in Nat /\ e \in Nat
      OBVIOUS
    <3> QED
      BY <3>1, <3>2
  <2> QED
    BY <2>4
<1>3. Min(D) \in D /\ \A d \in D : Min(D) <= d
  BY <1>1 DEF Min
<1>4. Max(D) \in D /\ \A d \in D : Max(D) >= d
  BY <1>2 DEF Max
<1>5. \A d \in D : d <= Max(D)
  BY <1>4
<1> QED
  BY <1>3, <1>4, <1>5

-----------------------------------------------------------------------------
(* The chunks of a hex file.  A run is known by the base records before its *)
(* lines: each chunk holds one run of the lines that have been read.        *)

IsChunk(c) == c = [base |-> c.base, bytes |-> c.bytes, hi |-> c.hi, last |-> c.last]

Offsets(l) == {l.addr + k - 1 : k \in DOMAIN l.data}

BaseFrom(lines, marks) == IF marks = {} THEN 0 ELSE HexBase(lines[Max(marks)])

DataOf(lines, n, marks) == {j \in 1 .. n : lines[j].type = 0 /\ BaseLines(lines, j) = marks}

\* The top of what records said of an offset, or a later record's.
SaysLast(lines, n, marks, o, b) ==
    \A j \in DataOf(lines, n, marks) : \A k \in DOMAIN lines[j].data :
        o = lines[j].addr + k - 1 =>
            \/ b = lines[j].data[k]
            \/ \E i \in DataOf(lines, n, marks) : i > j /\ o \in Offsets(lines[i])

HexChunkIs(lines, n, c, marks) ==
    /\ IsChunk(c)
    /\ c.base = BaseFrom(lines, marks) /\ c.base \in Nat
    /\ DOMAIN c.bytes = UNION {Offsets(lines[j]) : j \in DataOf(lines, n, marks)}
    /\ DOMAIN c.bytes \subseteq Nat /\ \E bound \in Nat : \A o \in DOMAIN c.bytes : o <= bound
    /\ \A o \in DOMAIN c.bytes : SaysLast(lines, n, marks, o, c.bytes[o])

HexRunIs(lines, n, cs, marks) ==
    /\ DOMAIN marks = DOMAIN cs
    /\ \A c, d \in DOMAIN cs : marks[c] = marks[d] => c = d
    /\ \A c \in DOMAIN cs : \E j \in 1 .. n : marks[c] = BaseLines(lines, j)
    /\ \A j \in 1 .. n : lines[j].type \in {0, 2, 4} =>
                            \E c \in DOMAIN cs : marks[c] = BaseLines(lines, j)
    /\ cs # <<>> => marks[Len(cs)] = BaseLines(lines, n)
    /\ \A c \in DOMAIN cs : HexChunkIs(lines, n, cs[c], marks[c])

-----------------------------------------------------------------------------
(* The chunks of an S file whose addresses ascend. *)

Pushed(lines, n, b) ==
    {p \in (1 .. n) \X Nat : /\ S19Data(lines[p[1]]) /\ p[2] \in DOMAIN lines[p[1]].data
                             /\ p[1] = n => p[2] <= b}

PlaceOfByte(lines, p) == lines[p[1]].addr + p[2] - 1
ByteAt(lines, p)      == lines[p[1]].data[p[2]]

S19ChunkIs(lines, n, b, c) ==
    /\ IsChunk(c)
    /\ c.base \in Nat /\ c.hi \in Nat /\ c.last = c.base + c.hi
    /\ DOMAIN c.bytes \subseteq 0 .. c.hi /\ c.hi \in DOMAIN c.bytes
    /\ \A o \in DOMAIN c.bytes : \E p \in Pushed(lines, n, b) :
           c.base + o = PlaceOfByte(lines, p) /\ c.bytes[o] = ByteAt(lines, p)

S19RunIs(lines, n, b, cs) ==
    /\ \A c \in DOMAIN cs : S19ChunkIs(lines, n, b, cs[c])
    /\ \A p \in Pushed(lines, n, b) : \E c \in DOMAIN cs : \E o \in DOMAIN cs[c].bytes :
           cs[c].base + o = PlaceOfByte(lines, p) /\ cs[c].bytes[o] = ByteAt(lines, p)
    /\ \A c, d \in DOMAIN cs : c < d => cs[c].last < cs[d].base

-----------------------------------------------------------------------------
(* What goes into the project *)

IsTextLoad == Chosen \in {"Hex", "S19"}

Made(c) == IF Chosen = "Hex" THEN HexSegmentOf(chunks[c]) ELSE S19SegmentOf(chunks[c])

OneEach == \A c, d \in DOMAIN chunks : Made(c).start = Made(d).start => c = d

Adding ==
    /\ line = Len(file.lines)
    /\ Chosen = "S19" => byte = Len(LastData)
    /\ \A i \in DOMAIN todo : \E c \in DOMAIN chunks : todo[i] = AddSeg(Made(c))
    /\ \A m \in segs : \E c \in DOMAIN chunks : m = Made(c)
    /\ OneEach => \A c \in DOMAIN chunks :
                      Made(c) \in segs \/ \E i \in DOMAIN todo : todo[i] = AddSeg(Made(c))
    /\ phase = "accepted" => todo = <<>>

\* How far a hex or S19 file has been read, and what of it is in the project.
ReadSoFar ==
    /\ line = 0 \/ line <= Len(file.lines)
    /\ Chosen = "Hex" => \E marks : HexRunIs(Lines(file), line, chunks, marks)
    /\ Chosen = "S19" /\ Ascending(Lines(file)) => S19RunIs(Lines(file), line, byte, chunks)

TextRead ==
    /\ phase = "match" => line = 0 /\ byte = 0 /\ chunks = <<>>
    /\ phase = "dialog" => Chosen = "Binary"
    /\ phase \in {"load", "add", "accepted"} /\ IsTextLoad => ReadSoFar
    /\ phase \in {"add", "accepted"} /\ IsTextLoad => Adding

-----------------------------------------------------------------------------
(* Reading a line of a hex file *)

LEMMA BaseLinesGrow ==
    ASSUME NEW lines, NEW n \in Nat
    PROVE  /\ lines[n + 1].type \in {2, 4} => BaseLines(lines, n + 1) = BaseLines(lines, n) \cup {n + 1}
           /\ lines[n + 1].type \notin {2, 4} => BaseLines(lines, n + 1) = BaseLines(lines, n)
           /\ \A j \in 0 .. n : BaseLines(lines, j) \subseteq 1 .. n
<1>1. 1 .. n + 1 = (1 .. n) \cup {n + 1}
  OBVIOUS
<1>2. BaseLines(lines, n + 1) = {j \in (1 .. n) \cup {n + 1} : lines[j].type \in {2, 4}}
  BY <1>1 DEF BaseLines
<1>3. \A j \in 0 .. n : BaseLines(lines, j) \subseteq 1 .. n
  BY DEF BaseLines
<1>4. BaseLines(lines, n) = {j \in 1 .. n : lines[j].type \in {2, 4}}
  BY DEF BaseLines
<1> QED
  BY <1>2, <1>3, <1>4

LEMMA DataOfGrow ==
    ASSUME NEW lines, NEW n \in Nat, NEW marks
    PROVE  DataOf(lines, n + 1, marks) =
               IF lines[n + 1].type = 0 /\ BaseLines(lines, n + 1) = marks
               THEN DataOf(lines, n, marks) \cup {n + 1} ELSE DataOf(lines, n, marks)
<1>1. 1 .. n + 1 = (1 .. n) \cup {n + 1}
  OBVIOUS
<1> QED
  BY <1>1 DEF DataOf

\* A line of another run, or without data, leaves a chunk what it is.
LEMMA HexChunkStays ==
    ASSUME NEW lines, NEW n \in Nat, NEW c, NEW marks, HexChunkIs(lines, n, c, marks),
           ~(lines[n + 1].type = 0 /\ BaseLines(lines, n + 1) = marks)
    PROVE  HexChunkIs(lines, n + 1, c, marks)
<1>1. DataOf(lines, n + 1, marks) = DataOf(lines, n, marks)
  BY DataOfGrow
<1> QED
  BY <1>1 DEF HexChunkIs, SaysLast

HasData(c, l, d) ==
    /\ IsChunk(d) /\ d.base = c.base
    /\ DOMAIN d.bytes = DOMAIN c.bytes \cup Offsets(l)
    /\ \A k \in DOMAIN l.data : d.bytes[l.addr + k - 1] = l.data[k]
    /\ \A o \in DOMAIN c.bytes : o \in Int /\ o \notin Offsets(l) => d.bytes[o] = c.bytes[o]

LEMMA SetDataIs ==
    ASSUME NEW c, IsChunk(c), NEW l, l.addr \in Nat, l.data \in Seq(Nat), NEW d,
           d = HexSetData(c, l.addr, l.data)
    PROVE  HasData(c, l, d)
<1> DEFINE bytes == [o \in DOMAIN c.bytes \cup {l.addr + i - 1 : i \in DOMAIN l.data} |->
                        IF o - l.addr + 1 \in DOMAIN l.data THEN l.data[o - l.addr + 1]
                        ELSE c.bytes[o]]
<1>1. d = [c EXCEPT !.bytes = bytes]
  BY DEF HexSetData
<1>2. DOMAIN bytes = DOMAIN c.bytes \cup Offsets(l)
  BY DEF Offsets
<1>3. ASSUME NEW k \in DOMAIN l.data PROVE bytes[l.addr + k - 1] = l.data[k]
  <2>1. k \in Nat /\ (l.addr + k - 1) - l.addr + 1 = k
    BY LenProperties
  <2>2. l.addr + k - 1 \in DOMAIN bytes
    OBVIOUS
  <2> QED
    BY <2>1, <2>2
<1>4. ASSUME NEW o \in DOMAIN c.bytes, o \in Int, o \notin Offsets(l) PROVE bytes[o] = c.bytes[o]
  <2>1. o - l.addr + 1 \notin DOMAIN l.data
    <3>1. l.addr + (o - l.addr + 1) - 1 = o
      BY <1>4
    <3> QED
      BY <1>4, <3>1 DEF Offsets
  <2> QED
    BY <2>1
<1> HIDE DEF bytes
<1>5. IsChunk(d) /\ d.base = c.base /\ d.bytes = bytes
  BY <1>1 DEF IsChunk
<1> QED
  BY <1>2, <1>3, <1>4, <1>5 DEF HasData

LEMMA LeastPlace ==
    ASSUME NEW a \in Nat, NEW u \in Nat, NEW k \in 1 .. u
    PROVE  a + k - 1 \in Nat /\ a + k - 1 <= a + u
OBVIOUS

LEMMA HexDataRead ==
    ASSUME NEW lines, NEW n \in Nat, NEW c, NEW marks, HexChunkIs(lines, n, c, marks),
           lines[n + 1].type = 0, BaseLines(lines, n + 1) = marks,
           lines[n + 1].addr \in Nat, lines[n + 1].data \in Seq(Nat)
    PROVE  HexChunkIs(lines, n + 1, HexSetData(c, lines[n + 1].addr, lines[n + 1].data), marks)
<1> DEFINE l == lines[n + 1]
           d == HexSetData(c, l.addr, l.data)
<1>1. /\ IsChunk(d) /\ d.base = c.base
      /\ DOMAIN d.bytes = DOMAIN c.bytes \cup Offsets(l)
      /\ \A k \in DOMAIN l.data : d.bytes[l.addr + k - 1] = l.data[k]
      /\ \A o \in DOMAIN c.bytes : o \in Int /\ o \notin Offsets(l) => d.bytes[o] = c.bytes[o]
  <2>1. IsChunk(c)
    BY DEF HexChunkIs
  <2>2. HasData(c, l, d)
    BY <2>1, SetDataIs
  <2> QED
    BY <2>2 DEF HasData
<1>2. DataOf(lines, n + 1, marks) = DataOf(lines, n, marks) \cup {n + 1}
  BY DataOfGrow
<1>3. DataOf(lines, n, marks) \subseteq 1 .. n
  BY DEF DataOf
<1>4. \A o \in Offsets(l) : o \in Nat /\ o <= l.addr + Len(l.data)
  <2>1. Len(l.data) \in Nat /\ DOMAIN l.data = 1 .. Len(l.data)
    BY LenProperties
  <2>2. ASSUME NEW k \in 1 .. Len(l.data)
        PROVE  l.addr + k - 1 \in Nat /\ l.addr + k - 1 <= l.addr + Len(l.data)
    <3> DEFINE u == Len(l.data)
    <3>1. l.addr \in Nat /\ u \in Nat /\ k \in 1 .. u
      BY <2>1
    <3> HIDE DEF l, u
    <3> QED
      BY <3>1, LeastPlace DEF u
  <2> QED
    BY <2>1, <2>2 DEF Offsets
<1>5. DOMAIN c.bytes \subseteq Nat /\ DOMAIN c.bytes = UNION {Offsets(lines[j]) : j \in DataOf(lines, n, marks)}
  BY DEF HexChunkIs
<1>6. DOMAIN d.bytes = UNION {Offsets(lines[j]) : j \in DataOf(lines, n + 1, marks)}
  <2> HIDE DEF d
  <2> QED
    BY <1>1, <1>2, <1>5
<1>7. DOMAIN d.bytes \subseteq Nat /\ \E bound \in Nat : \A o \in DOMAIN d.bytes : o <= bound
  <2>1. PICK bound \in Nat : \A o \in DOMAIN c.bytes : o <= bound
    BY DEF HexChunkIs
  <2>2. \A o \in DOMAIN d.bytes : o \in Nat /\ o <= bound + (l.addr + Len(l.data))
    <3> DEFINE top == l.addr + Len(l.data)
    <3>1. top \in Nat
      BY LenProperties
    <3>2. \A o \in Offsets(l) : o \in Nat /\ o <= top
      BY <1>4
    <3> HIDE DEF top, d, l
    <3>3. \A o \in DOMAIN c.bytes : o \in Nat /\ o <= bound
      BY <1>5, <2>1
    <3>4. \A o \in DOMAIN d.bytes : o \in Nat /\ o <= bound + top
      BY <1>1, <3>1, <3>2, <3>3
    <3> QED
      BY <3>4 DEF top
  <2>3. bound + (l.addr + Len(l.data)) \in Nat
    <3>1. Len(l.data) \in Nat /\ l.addr \in Nat /\ bound \in Nat
      BY LenProperties
    <3>2. \A x, y, z \in Nat : x + (y + z) \in Nat
      OBVIOUS
    <3> HIDE DEF l
    <3> QED
      BY <3>1, <3>2
  <2> QED
    BY <2>2, <2>3
<1>8. ASSUME NEW o \in DOMAIN d.bytes PROVE SaysLast(lines, n + 1, marks, o, d.bytes[o])
  <2> SUFFICES ASSUME NEW j \in DataOf(lines, n + 1, marks), NEW k \in DOMAIN lines[j].data,
                      o = lines[j].addr + k - 1
               PROVE  \/ d.bytes[o] = lines[j].data[k]
                      \/ \E i \in DataOf(lines, n + 1, marks) : i > j /\ o \in Offsets(lines[i])
    BY DEF SaysLast
  <2>1. CASE j = n + 1
    BY <1>1, <2>1
  <2>2. CASE j # n + 1 /\ o \in Offsets(l)
    <3>1. n + 1 > j /\ n + 1 \in DataOf(lines, n + 1, marks)
      BY <1>2, <1>3, <2>2
    <3> QED
      BY <2>2, <3>1
  <2>3. CASE j # n + 1 /\ o \notin Offsets(l)
    <3>1. j \in DataOf(lines, n, marks) /\ o \in DOMAIN c.bytes
      BY <1>1, <1>2, <2>3
    <3>2. d.bytes[o] = c.bytes[o]
      BY <1>1, <1>5, <2>3, <3>1
    <3>3. \/ c.bytes[o] = lines[j].data[k]
          \/ \E i \in DataOf(lines, n, marks) : i > j /\ o \in Offsets(lines[i])
      BY <3>1 DEF HexChunkIs, SaysLast
    <3> QED
      BY <1>2, <3>2, <3>3
  <2> QED
    BY <2>1, <2>2, <2>3
<1>9. c.base = BaseFrom(lines, marks) /\ c.base \in Nat
  BY DEF HexChunkIs
<1> HIDE DEF d
<1>10. HexChunkIs(lines, n + 1, d, marks)
  BY <1>1, <1>6, <1>7, <1>8, <1>9 DEF HexChunkIs
<1> QED
  BY <1>10 DEF d

\* A run of lines that says nothing yet is an empty chunk.
LEMMA EmptyIsChunk ==
    ASSUME NEW lines, NEW n, NEW marks, NEW base, base = BaseFrom(lines, marks), base \in Nat,
           DataOf(lines, n, marks) = {}
    PROVE  HexChunkIs(lines, n, EmptyChunk(base), marks)
<1>1. /\ IsChunk(EmptyChunk(base)) /\ EmptyChunk(base).base = base
      /\ DOMAIN EmptyChunk(base).bytes = {}
  BY DEF EmptyChunk, IsChunk, Undefined
<1> QED
  BY <1>1 DEF HexChunkIs

LEMMA HexLineRead ==
    ASSUME NEW lines, NEW n \in Nat, NEW cs, IsList(cs), NEW marks, HexRunIs(lines, n, cs, marks),
           lines[n + 1].addr \in Nat, lines[n + 1].data \in Seq(Nat), HexLineOk(lines[n + 1])
    PROVE  \E new : HexRunIs(lines, n + 1, HexStep(cs, lines[n + 1]), new)
<1> DEFINE l == lines[n + 1]
           ds == HexStep(cs, l)
<1>1. Len(cs) \in Nat /\ DOMAIN cs = 1 .. Len(cs) /\ (cs # <<>> => Len(cs) \in DOMAIN cs)
  BY ListIs
<1>2. /\ DOMAIN marks = DOMAIN cs
      /\ \A c, d \in DOMAIN cs : marks[c] = marks[d] => c = d
      /\ \A c \in DOMAIN cs : \E j \in 1 .. n : marks[c] = BaseLines(lines, j)
      /\ \A j \in 1 .. n : lines[j].type \in {0, 2, 4} =>
                              \E c \in DOMAIN cs : marks[c] = BaseLines(lines, j)
      /\ cs # <<>> => marks[Len(cs)] = BaseLines(lines, n)
      /\ \A c \in DOMAIN cs : HexChunkIs(lines, n, cs[c], marks[c])
  BY DEF HexRunIs
<1>3. 1 .. n + 1 = (1 .. n) \cup {n + 1}
  OBVIOUS
<1>4. CASE l.type \in {2, 4}
  <2> DEFINE e == EmptyChunk(HexBase(l))
             B == BaseLines(lines, n + 1)
  <2>1. ds = Append(cs, e)
    BY <1>4 DEF HexStep
  <2>2. B = BaseLines(lines, n) \cup {n + 1} /\ B # {} /\ \A j \in 1 .. n : BaseLines(lines, j) # B
    <3>1. B = BaseLines(lines, n) \cup {n + 1}
      BY <1>4, BaseLinesGrow
    <3>2. \A j \in 1 .. n : n + 1 \notin BaseLines(lines, j)
      BY BaseLinesGrow
    <3> QED
      BY <3>1, <3>2
  <2>3. HexBase(l) \in Nat
    <3>1. Len(l.data) = 2
      BY <1>4 DEF HexLineOk, HexWellFormed, HexStrange
    <3>2. l.data[1] \in Nat /\ l.data[2] \in Nat
      <4>1. l.data \in Seq(Nat)
        OBVIOUS
      <4> HIDE DEF l
      <4> QED
        BY <3>1, <4>1
    <3> DEFINE x == l.data[1] * 256 + l.data[2]
    <3>3. x \in Nat
      <4>1. \A p, q \in Nat : p * 256 + q \in Nat
        OBVIOUS
      <4> HIDE DEF l
      <4> QED
        BY <3>2, <4>1
    <3>4. HexBase(l) = IF l.type = 2 THEN x * 16 ELSE x * 65536
      BY DEF HexBase
    <3> HIDE DEF x
    <3>5. x * 16 \in Nat /\ x * 65536 \in Nat
      BY <3>3
    <3> QED
      BY <3>4, <3>5
  <2>4. BaseFrom(lines, B) = HexBase(l)
    <3>1. (\A j \in B : j \in Nat /\ j <= n + 1) /\ n + 1 \in B
      BY BaseLinesGrow, <2>2
    <3> HIDE DEF B
    <3>2. Max(B) \in B /\ \A j \in B : j <= Max(B)
      <4>1. B \subseteq Nat /\ n + 1 \in Nat
        BY <3>1
      <4> QED
        BY <3>1, <4>1, ExtremesAre
    <3>3. Max(B) = n + 1
      <4>1. Max(B) \in Nat /\ Max(B) <= n + 1 /\ n + 1 <= Max(B)
        BY <3>1, <3>2
      <4> QED
        BY <4>1
    <3> QED
      BY <2>2, <3>3 DEF BaseFrom
  <2>5. \A j \in 1 .. n : BaseLines(lines, j) # B
    BY <2>2
  <2>6. DataOf(lines, n + 1, B) = {}
    BY <1>3, <1>4, <2>5 DEF DataOf
  <2>7. HexChunkIs(lines, n + 1, e, B)
    BY <2>3, <2>4, <2>6, EmptyIsChunk
  <2> DEFINE new == [c \in 1 .. Len(cs) + 1 |-> IF c = Len(cs) + 1 THEN B ELSE marks[c]]
  <2>8. /\ IsList(ds) /\ Len(ds) = Len(cs) + 1 /\ ds[Len(cs) + 1] = e
        /\ \A i \in DOMAIN cs : ds[i] = cs[i]
    BY <2>1, AppendIs
  <2>9. DOMAIN ds = 1 .. Len(cs) + 1
    BY <2>8, ListIs
  <2> HIDE DEF ds, e, B
  <2>10. /\ DOMAIN new = 1 .. Len(cs) + 1 /\ new[Len(cs) + 1] = B
         /\ \A c \in DOMAIN cs : new[c] = marks[c] /\ c # Len(cs) + 1
         /\ \A c \in 1 .. Len(cs) + 1 : c \in DOMAIN cs \/ c = Len(cs) + 1
    BY <1>1
  <2> HIDE DEF new
  <2>11. \A c, d \in DOMAIN ds : new[c] = new[d] => c = d
    BY <1>2, <2>5, <2>9, <2>10
  <2>12. \A c \in DOMAIN ds : \E j \in 1 .. n + 1 : new[c] = BaseLines(lines, j)
    BY <1>2, <1>3, <2>9, <2>10 DEF B
  <2>13. \A j \in 1 .. n + 1 : lines[j].type \in {0, 2, 4} =>
                                 \E c \in DOMAIN ds : new[c] = BaseLines(lines, j)
    <3> SUFFICES ASSUME NEW j \in 1 .. n + 1, lines[j].type \in {0, 2, 4}
                 PROVE  \E c \in DOMAIN ds : new[c] = BaseLines(lines, j)
      OBVIOUS
    <3>1. CASE j = n + 1
      <4>1. Len(cs) + 1 \in DOMAIN ds
        BY <1>1, <2>9
      <4> QED
        BY <2>10, <3>1, <4>1 DEF B
    <3>2. CASE j # n + 1
      <4>1. PICK c \in DOMAIN cs : marks[c] = BaseLines(lines, j)
        BY <1>2, <1>3, <3>2
      <4>2. c \in DOMAIN ds
        BY <1>1, <2>9, <4>1
      <4> QED
        BY <2>10, <4>1, <4>2
    <3> QED
      BY <3>1, <3>2
  <2>14. \A c \in DOMAIN ds : HexChunkIs(lines, n + 1, ds[c], new[c])
    <3>1. \A c \in DOMAIN cs : HexChunkIs(lines, n + 1, cs[c], marks[c])
      BY <1>2, <1>4, HexChunkStays
    <3> QED
      BY <2>7, <2>8, <2>9, <2>10, <3>1
  <2>15. new[Len(ds)] = BaseLines(lines, n + 1) /\ DOMAIN new = DOMAIN ds
    BY <2>8, <2>9, <2>10 DEF B
  <2>16. HexRunIs(lines, n + 1, ds, new)
    BY <2>11, <2>12, <2>13, <2>14, <2>15 DEF HexRunIs
  <2> QED
    BY <2>16 DEF ds
<1>5. CASE l.type = 0
  <2>1. BaseLines(lines, n + 1) = BaseLines(lines, n) /\ l.type \notin {2, 4}
    BY <1>5, BaseLinesGrow
  <2>2. CASE cs = <<>>
    <3> DEFINE d == HexSetData(EmptyChunk(0), l.addr, l.data)
    <3>1. DOMAIN cs = {}
      BY <2>2
    <3>2. \A j \in 1 .. n : lines[j].type \notin {0, 2, 4}
      BY <1>2, <3>1
    <3>3. BaseLines(lines, n) = {} /\ DataOf(lines, n, {}) = {}
      BY <3>2 DEF BaseLines, DataOf
    <3>4. HexChunkIs(lines, n, EmptyChunk(0), {})
      BY <3>3, EmptyIsChunk DEF BaseFrom
    <3>5. HexChunkIs(lines, n + 1, d, {})
      BY <1>5, <2>1, <3>3, <3>4, HexDataRead
    <3>6. ds = <<d>>
      <4>1. Len(<<EmptyChunk(0)>>) = 1 /\ <<EmptyChunk(0)>>[1] = EmptyChunk(0)
        OBVIOUS
      <4>2. ds = [<<EmptyChunk(0)>> EXCEPT ![1] = d]
        BY <1>5, <2>2, <4>1 DEF HexStep
      <4> HIDE DEF d
      <4> QED
        BY <4>2
    <3> DEFINE new == [c \in {1} |-> {}]
    <3> HIDE DEF d
    <3>7. DOMAIN ds = {1} /\ Len(ds) = 1 /\ ds[1] = d
      BY <3>6
    <3>8. DOMAIN new = {1} /\ new[1] = {}
      OBVIOUS
    <3> HIDE DEF ds, new
    <3>9. \A j \in 1 .. n + 1 : lines[j].type \in {0, 2, 4} => j = n + 1
      BY <1>3, <3>2
    <3>10. BaseLines(lines, n + 1) = {} /\ n + 1 \in 1 .. n + 1
      BY <2>1, <3>3
    <3>11. HexRunIs(lines, n + 1, ds, new)
      BY <3>5, <3>7, <3>8, <3>9, <3>10 DEF HexRunIs
    <3> QED
      BY <3>11 DEF ds
  <2>3. CASE cs # <<>>
    <3> DEFINE top == Len(cs)
               d == HexSetData(cs[top], l.addr, l.data)
    <3>1. top \in DOMAIN cs /\ marks[top] = BaseLines(lines, n)
      BY <1>1, <1>2, <2>3
    <3>2. ds = [cs EXCEPT ![top] = d]
      BY <1>5, <2>3 DEF HexStep
    <3>3. HexChunkIs(lines, n + 1, d, marks[top])
      BY <1>2, <1>5, <2>1, <3>1, HexDataRead
    <3> HIDE DEF d
    <3>4. DOMAIN ds = DOMAIN cs /\ ds[top] = d /\ \A c \in DOMAIN cs : c # top => ds[c] = cs[c]
      BY <3>1, <3>2
    <3>5. \A c \in DOMAIN ds : HexChunkIs(lines, n + 1, ds[c], marks[c])
      <4>1. ASSUME NEW c \in DOMAIN cs, c # top PROVE HexChunkIs(lines, n + 1, cs[c], marks[c])
        <5>1. HexChunkIs(lines, n, cs[c], marks[c]) /\ marks[c] # BaseLines(lines, n + 1)
          BY <1>2, <2>1, <3>1, <4>1
        <5> QED
          BY <5>1, HexChunkStays
      <4> HIDE DEF ds
      <4> QED
        BY <3>3, <3>4, <4>1
    <3>6. IsList(ds)
      BY ChunksStay
    <3>7. Len(ds) = top
      <4> HIDE DEF ds
      <4>1. DOMAIN ds = 1 .. Len(ds) /\ Len(ds) \in Nat
        BY <3>6, ListIs
      <4> QED
        BY <1>1, <3>4, <4>1
    <3> HIDE DEF ds
    <3>8. \A j \in 1 .. n + 1 : lines[j].type \in {0, 2, 4} =>
                                  \E c \in DOMAIN ds : marks[c] = BaseLines(lines, j)
      BY <1>2, <1>3, <2>1, <3>1, <3>4
    <3>9. \A c \in DOMAIN ds : \E j \in 1 .. n + 1 : marks[c] = BaseLines(lines, j)
      BY <1>2, <1>3, <3>4
    <3>10. HexRunIs(lines, n + 1, ds, marks)
      BY <1>2, <2>1, <3>1, <3>4, <3>5, <3>7, <3>8, <3>9 DEF HexRunIs
    <3> QED
      BY <3>10 DEF ds
  <2> QED
    BY <2>2, <2>3
<1>6. CASE l.type \notin {0, 2, 4}
  <2>1. ds = cs
    BY <1>6 DEF HexStep
  <2>2. BaseLines(lines, n + 1) = BaseLines(lines, n)
    BY <1>6, BaseLinesGrow
  <2>3. \A c \in DOMAIN cs : HexChunkIs(lines, n + 1, cs[c], marks[c])
    BY <1>2, <1>6, HexChunkStays
  <2>4. \A j \in 1 .. n + 1 : lines[j].type \in {0, 2, 4} =>
                                \E c \in DOMAIN cs : marks[c] = BaseLines(lines, j)
    BY <1>2, <1>3, <1>6
  <2>5. \A c \in DOMAIN cs : \E j \in 1 .. n + 1 : marks[c] = BaseLines(lines, j)
    BY <1>2, <1>3
  <2>6. HexRunIs(lines, n + 1, cs, marks)
    BY <1>2, <2>2, <2>3, <2>4, <2>5 DEF HexRunIs
  <2> QED
    BY <2>1, <2>6
<1> QED
  BY <1>4, <1>5, <1>6

-----------------------------------------------------------------------------
(* Pushing a byte of an S file *)

LEMMA S19FirstByte ==
    ASSUME NEW a \in Nat, NEW b, NEW d, d = S19SetData(EmptyChunk(0), a, b)
    PROVE  /\ IsChunk(d) /\ d.base = a /\ d.hi = 0 /\ d.last = a
           /\ DOMAIN d.bytes = {0} /\ d.bytes[0] = b
<1> DEFINE c == EmptyChunk(0)
<1>1. c = [base |-> 0, bytes |-> Undefined, hi |-> 0, last |-> 0]
  BY DEF EmptyChunk
<1> DEFINE bytes == [o \in {0} |-> b]
<1>2. d = [c EXCEPT !.base = a, !.bytes = bytes, !.last = a]
  BY <1>1 DEF S19SetData
<1>3. DOMAIN bytes = {0} /\ bytes[0] = b
  OBVIOUS
<1> HIDE DEF bytes, c
<1>4. d = [base |-> a, bytes |-> bytes, hi |-> 0, last |-> a]
  BY <1>1, <1>2
<1> QED
  BY <1>3, <1>4 DEF IsChunk

LEMMA S19NextByte ==
    ASSUME NEW c, IsChunk(c), c.base \in Nat, c.hi \in Nat, c.hi \in DOMAIN c.bytes,
           NEW a \in Nat, a > c.base + c.hi, NEW b, NEW d, d = S19SetData(c, a, b)
    PROVE  /\ IsChunk(d) /\ d.base = c.base /\ d.hi = a - c.base /\ d.last = a
           /\ DOMAIN d.bytes = DOMAIN c.bytes \cup {a - c.base}
           /\ d.bytes[a - c.base] = b
           /\ \A o \in DOMAIN c.bytes : o # a - c.base => d.bytes[o] = c.bytes[o]
<1>1. c.bytes # Undefined /\ a >= c.base /\ a - c.base \in Nat /\ a - c.base > c.hi
  <2>1. DOMAIN Undefined = {}
    BY DEF Undefined
  <2> QED
    BY <2>1
<1> DEFINE bytes == [o \in DOMAIN c.bytes \cup {a - c.base} |->
                        IF o = a - c.base THEN b ELSE c.bytes[o]]
           hi    == Max({c.hi, a - c.base})
<1>2. d = [c EXCEPT !.bytes = bytes, !.hi = hi, !.last = a]
  BY <1>1 DEF S19SetData
<1>3. hi = a - c.base
  <2> DEFINE D == {c.hi, a - c.base}
             bound == a - c.base
  <2>1. D \subseteq Nat /\ D # {} /\ bound \in Nat /\ \A x \in D : x <= bound
    BY <1>1
  <2>2. Max(D) \in D /\ \A x \in D : x <= Max(D)
    <3> HIDE DEF D, bound
    <3> QED
      BY <2>1, ExtremesAre
  <2> QED
    BY <1>1, <2>2
<1> HIDE DEF bytes, hi
<1>4. IsChunk(d) /\ d.base = c.base /\ d.hi = hi /\ d.last = a /\ d.bytes = bytes
  BY <1>2 DEF IsChunk
<1> QED
  BY <1>3, <1>4 DEF bytes

\* The chunk that takes the next byte holds what it held, and that byte.
LEMMA S19ChunkGrows ==
    ASSUME NEW lines, NEW n, NEW b, NEW old, S19ChunkIs(lines, n, b, old),
           NEW b2, Pushed(lines, n, b) \subseteq Pushed(lines, n, b2),
           NEW new \in Pushed(lines, n, b2),
           NEW a \in Nat, a = PlaceOfByte(lines, new), old.last < a,
           NEW x, x = ByteAt(lines, new), NEW d, d = S19SetData(old, a, x)
    PROVE  /\ S19ChunkIs(lines, n, b2, d)
           /\ d.base = old.base /\ d.last = a
           /\ a - old.base \in DOMAIN d.bytes /\ d.bytes[a - old.base] = x
           /\ old.base + (a - old.base) = a
           /\ \A o \in DOMAIN old.bytes : o \in DOMAIN d.bytes /\ d.bytes[o] = old.bytes[o]
<1>1. /\ IsChunk(old) /\ old.base \in Nat /\ old.hi \in Nat /\ old.hi \in DOMAIN old.bytes
      /\ DOMAIN old.bytes \subseteq 0 .. old.hi /\ a > old.base + old.hi
      /\ \A o \in DOMAIN old.bytes : \E p \in Pushed(lines, n, b2) :
             old.base + o = PlaceOfByte(lines, p) /\ old.bytes[o] = ByteAt(lines, p)
  BY DEF S19ChunkIs
<1> PICK o1 : o1 = a - old.base
  OBVIOUS
<1>2. old.hi < o1 /\ o1 \in Nat /\ old.base + o1 = a
  BY <1>1
<1>3. /\ IsChunk(d) /\ d.base = old.base /\ d.hi = o1 /\ d.last = a
      /\ DOMAIN d.bytes = DOMAIN old.bytes \cup {o1}
      /\ d.bytes[o1] = x
      /\ \A o \in DOMAIN old.bytes : o # o1 => d.bytes[o] = old.bytes[o]
  BY <1>1, S19NextByte
<1>4. \A o \in DOMAIN old.bytes : o # o1
  BY <1>1, <1>2
<1>5. ASSUME NEW o \in DOMAIN d.bytes
      PROVE  \E p \in Pushed(lines, n, b2) :
                 d.base + o = PlaceOfByte(lines, p) /\ d.bytes[o] = ByteAt(lines, p)
  <2>1. CASE o = o1
    BY <1>2, <1>3, <2>1
  <2>2. CASE o # o1
    BY <1>1, <1>3, <2>2
  <2> QED
    BY <2>1, <2>2
<1>6. DOMAIN d.bytes \subseteq 0 .. d.hi /\ d.hi \in DOMAIN d.bytes
  BY <1>1, <1>2, <1>3
<1>7. d.base \in Nat /\ d.hi \in Nat /\ d.last = d.base + d.hi
  BY <1>1, <1>2, <1>3
<1>8. S19ChunkIs(lines, n, b2, d)
  BY <1>3, <1>5, <1>6, <1>7 DEF S19ChunkIs
<1> QED
  BY <1>2, <1>3, <1>4, <1>8

LEMMA S19ByteRead ==
    ASSUME NEW lines, NEW n \in Nat \ {0}, NEW b \in Nat, NEW cs, IsList(cs),
           S19RunIs(lines, n, b, cs),
           S19Data(lines[n]), b < Len(lines[n].data), lines[n].data \in Seq(Nat),
           NEW a \in Nat, a = lines[n].addr + b, lines[n].addr \in Nat,
           \A p \in Pushed(lines, n, b) : PlaceOfByte(lines, p) < a
    PROVE  S19RunIs(lines, n, b + 1, S19Push(cs, a, lines[n].data[b + 1]))
<1> DEFINE x == lines[n].data[b + 1]
           new == <<n, b + 1>>
           ds == S19Push(cs, a, x)
<1>1. /\ Len(cs) \in Nat /\ DOMAIN cs = 1 .. Len(cs)
      /\ cs # <<>> => Len(cs) \in DOMAIN cs
  BY ListIs
<1>2. b + 1 \in DOMAIN lines[n].data
  BY LenProperties
<1>3. new \in Pushed(lines, n, b + 1) /\ PlaceOfByte(lines, new) = a /\ ByteAt(lines, new) = x
  <2>1. n \in 1 .. n /\ b + 1 \in Nat /\ new[1] = n /\ new[2] = b + 1
    OBVIOUS
  <2>2. new \in (1 .. n) \X Nat
    BY <2>1
  <2>3. new \in Pushed(lines, n, b + 1)
    BY <1>2, <2>1, <2>2 DEF Pushed
  <2>4. PlaceOfByte(lines, new) = lines[n].addr + (b + 1) - 1 /\ ByteAt(lines, new) = x
    BY <2>1 DEF PlaceOfByte, ByteAt
  <2>5. lines[n].addr + (b + 1) - 1 = a
    OBVIOUS
  <2> QED
    BY <2>3, <2>4, <2>5
<1>4. \A p \in Pushed(lines, n, b + 1) : p \in Pushed(lines, n, b) \/ p = new
  <2> SUFFICES ASSUME NEW p \in Pushed(lines, n, b + 1), p \notin Pushed(lines, n, b)
               PROVE  p = new
    OBVIOUS
  <2>1. p \in (1 .. n) \X Nat /\ p[1] = n /\ p[2] <= b + 1 /\ ~(p[2] <= b)
    BY DEF Pushed
  <2>2. p[2] = b + 1
    BY <2>1
  <2> QED
    BY <2>1, <2>2
<1>5. Pushed(lines, n, b) \subseteq Pushed(lines, n, b + 1)
  BY DEF Pushed
<1>6. /\ \A c \in DOMAIN cs : S19ChunkIs(lines, n, b, cs[c])
      /\ \A p \in Pushed(lines, n, b) : \E c \in DOMAIN cs : \E o \in DOMAIN cs[c].bytes :
             cs[c].base + o = PlaceOfByte(lines, p) /\ cs[c].bytes[o] = ByteAt(lines, p)
      /\ \A c, d \in DOMAIN cs : c < d => cs[c].last < cs[d].base
  BY DEF S19RunIs
<1>7. ASSUME NEW c \in DOMAIN cs
      PROVE  /\ S19ChunkIs(lines, n, b + 1, cs[c]) /\ cs[c].last < a
             /\ cs[c].base \in Nat /\ cs[c].hi \in Nat /\ cs[c].last = cs[c].base + cs[c].hi
  <2>1. S19ChunkIs(lines, n, b, cs[c])
    BY <1>6
  <2>2. S19ChunkIs(lines, n, b + 1, cs[c])
    BY <1>5, <2>1 DEF S19ChunkIs
  <2>3. PICK p \in Pushed(lines, n, b) : cs[c].base + cs[c].hi = PlaceOfByte(lines, p)
    BY <2>1 DEF S19ChunkIs
  <2> QED
    BY <2>1, <2>2, <2>3 DEF S19ChunkIs
<1> HIDE DEF new, x
<1>8. CASE cs # <<>> /\ RangeIncludes(Last(cs), a)
  <2> PICK top : top = Len(cs)
    OBVIOUS
  <2> PICK d : d = S19SetData(cs[top], a, x)
    OBVIOUS
  <2>1. top \in DOMAIN cs /\ ds = [cs EXCEPT ![top] = d]
    BY <1>1, <1>8 DEF S19Push
  <2>2. S19ChunkIs(lines, n, b, cs[top]) /\ cs[top].last < a
    BY <1>6, <1>7, <2>1
  <2>3. /\ S19ChunkIs(lines, n, b + 1, d)
        /\ d.base = cs[top].base /\ d.last = a
        /\ a - cs[top].base \in DOMAIN d.bytes /\ d.bytes[a - cs[top].base] = x
        /\ cs[top].base + (a - cs[top].base) = a
        /\ \A o \in DOMAIN cs[top].bytes : o \in DOMAIN d.bytes /\ d.bytes[o] = cs[top].bytes[o]
    <3>1. /\ new \in Pushed(lines, n, b + 1) /\ a = PlaceOfByte(lines, new)
          /\ x = ByteAt(lines, new) /\ d = S19SetData(cs[top], a, x)
      BY <1>3
    <3>2. \A old, y : S19ChunkIs(lines, n, b, old) /\ old.last < a /\ y = S19SetData(old, a, x) =>
            /\ S19ChunkIs(lines, n, b + 1, y)
            /\ y.base = old.base /\ y.last = a
            /\ a - old.base \in DOMAIN y.bytes /\ y.bytes[a - old.base] = x
            /\ old.base + (a - old.base) = a
            /\ \A o \in DOMAIN old.bytes : o \in DOMAIN y.bytes /\ y.bytes[o] = old.bytes[o]
      BY <1>5, <3>1, S19ChunkGrows
    <3> QED
      BY <2>2, <3>1, <3>2
  <2> HIDE DEF ds
  <2>4. DOMAIN ds = DOMAIN cs /\ ds[top] = d /\ \A c \in DOMAIN cs : c # top => ds[c] = cs[c]
    BY <2>1
  <2>6. \A c \in DOMAIN ds : S19ChunkIs(lines, n, b + 1, ds[c])
    BY <1>7, <2>3, <2>4
  <2>7. ASSUME NEW p \in Pushed(lines, n, b + 1)
        PROVE  \E c \in DOMAIN ds : \E o \in DOMAIN ds[c].bytes :
                   ds[c].base + o = PlaceOfByte(lines, p) /\ ds[c].bytes[o] = ByteAt(lines, p)
    <3>1. CASE p = new
      BY <1>3, <2>1, <2>3, <2>4, <3>1
    <3>2. CASE p # new
      <4>1. PICK c \in DOMAIN cs : \E o \in DOMAIN cs[c].bytes :
                cs[c].base + o = PlaceOfByte(lines, p) /\ cs[c].bytes[o] = ByteAt(lines, p)
        BY <1>4, <1>6, <3>2
      <4>2. CASE c # top
        BY <2>4, <4>1, <4>2
      <4>3. CASE c = top
        BY <2>1, <2>3, <2>4, <4>1, <4>3
      <4> QED
        BY <4>2, <4>3
    <3> QED
      BY <3>1, <3>2
  <2>8. \A c, e \in DOMAIN ds : c < e => ds[c].last < ds[e].base
    <3> SUFFICES ASSUME NEW c \in DOMAIN ds, NEW e \in DOMAIN ds, c < e
                 PROVE  ds[c].last < ds[e].base
      OBVIOUS
    <3>1. c # top /\ ds[c] = cs[c] /\ ds[e].base = cs[e].base
      <4>1. c \in DOMAIN cs /\ e \in DOMAIN cs /\ c # top
        BY <1>1, <2>4
      <4>2. d.base = cs[top].base
        BY <2>3
      <4>3. ds[e].base = cs[e].base
        BY <2>4, <4>1, <4>2
      <4> QED
        BY <2>4, <4>1, <4>3
    <3> QED
      BY <1>6, <2>4, <3>1
  <2>9. S19RunIs(lines, n, b + 1, ds)
    BY <2>6, <2>7, <2>8 DEF S19RunIs
  <2> QED
    BY <2>9 DEF ds, x
<1>9. CASE ~(cs # <<>> /\ RangeIncludes(Last(cs), a))
  <2> DEFINE d == S19SetData(EmptyChunk(0), a, x)
             k == Len(cs) + 1
  <2>1. ds = Append(cs, d)
    BY <1>9 DEF S19Push
  <2>2. /\ IsChunk(d) /\ d.base = a /\ d.hi = 0 /\ d.last = a
        /\ DOMAIN d.bytes = {0} /\ d.bytes[0] = x
    BY S19FirstByte
  <2> HIDE DEF d, ds
  <2>3. /\ IsList(ds) /\ Len(ds) = k /\ ds[k] = d
        /\ \A i \in DOMAIN cs : ds[i] = cs[i]
    BY <2>1, AppendIs
  <2>4. DOMAIN ds = 1 .. k /\ k \in DOMAIN ds
    BY <1>1, <2>3, ListIs
  <2>5. \A c \in DOMAIN ds : c \in DOMAIN cs \/ c = k
    BY <1>1, <2>4
  <2>6. DOMAIN cs \subseteq DOMAIN ds
    BY <1>1, <2>4
  <2>7. S19ChunkIs(lines, n, b + 1, d)
    <3>1. d.base + 0 = PlaceOfByte(lines, new) /\ d.bytes[0] = ByteAt(lines, new)
      BY <1>3, <2>2
    <3> QED
      BY <1>3, <2>2, <3>1 DEF S19ChunkIs
  <2>8. \A c \in DOMAIN ds : S19ChunkIs(lines, n, b + 1, ds[c])
    BY <1>7, <2>3, <2>5, <2>7
  <2>9. ASSUME NEW p \in Pushed(lines, n, b + 1)
        PROVE  \E c \in DOMAIN ds : \E o \in DOMAIN ds[c].bytes :
                   ds[c].base + o = PlaceOfByte(lines, p) /\ ds[c].bytes[o] = ByteAt(lines, p)
    <3>1. CASE p = new
      <4>1. d.base + 0 = PlaceOfByte(lines, p) /\ d.bytes[0] = ByteAt(lines, p) /\ 0 \in DOMAIN d.bytes
        BY <1>3, <2>2, <3>1
      <4> QED
        BY <2>3, <2>4, <4>1
    <3>2. CASE p # new
      <4>1. PICK c \in DOMAIN cs : \E o \in DOMAIN cs[c].bytes :
                cs[c].base + o = PlaceOfByte(lines, p) /\ cs[c].bytes[o] = ByteAt(lines, p)
        BY <1>4, <1>6, <3>2
      <4> QED
        BY <2>3, <2>6, <4>1
    <3> QED
      BY <3>1, <3>2
  <2>10. \A c, e \in DOMAIN ds : c < e => ds[c].last < ds[e].base
    <3> SUFFICES ASSUME NEW c \in DOMAIN ds, NEW e \in DOMAIN ds, c < e
                 PROVE  ds[c].last < ds[e].base
      OBVIOUS
    <3>1. c \in DOMAIN cs /\ ds[c] = cs[c]
      BY <1>1, <2>3, <2>4
    <3>2. CASE e = k
      BY <1>7, <2>2, <2>3, <3>1, <3>2
    <3>3. CASE e # k
      BY <1>6, <2>3, <2>5, <3>1, <3>3
    <3> QED
      BY <3>2, <3>3
  <2>11. S19RunIs(lines, n, b + 1, ds)
    BY <2>8, <2>9, <2>10 DEF S19RunIs
  <2> QED
    BY <2>11 DEF ds, x
<1> QED
  BY <1>8, <1>9

\* The next line has no byte pushed yet, and the last one has them all.
LEMMA S19LineRead ==
    ASSUME NEW lines, NEW n \in Nat, NEW b \in Nat, NEW cs,
           S19RunIs(lines, n, b, cs), S19Data(lines[n + 1]) => lines[n + 1].data \in Seq(Nat),
           n > 0 /\ S19Data(lines[n]) => lines[n].data \in Seq(Nat) /\ b = Len(lines[n].data)
    PROVE  S19RunIs(lines, n + 1, 0, cs)
<1>1. Pushed(lines, n + 1, 0) = Pushed(lines, n, b)
  <2>1. ASSUME NEW p \in Pushed(lines, n + 1, 0) PROVE p \in Pushed(lines, n, b)
    <3>1. /\ p \in (1 .. n + 1) \X Nat /\ S19Data(lines[p[1]]) /\ p[2] \in DOMAIN lines[p[1]].data
          /\ p[1] = n + 1 => p[2] <= 0
      BY DEF Pushed
    <3>2. p[1] # n + 1
      <4>1. ASSUME p[1] = n + 1 PROVE FALSE
        <5>1. p[2] <= 0 /\ p[2] \in DOMAIN lines[n + 1].data /\ lines[n + 1].data \in Seq(Nat)
          BY <3>1, <4>1
        <5>2. p[2] \in 1 .. Len(lines[n + 1].data)
          BY <5>1, LenProperties
        <5> QED
          BY <5>1, <5>2
      <4> QED
        BY <4>1
    <3>3. p \in (1 .. n) \X Nat
      <4>1. p[1] \in 1 .. n /\ p[2] \in Nat /\ p = <<p[1], p[2]>>
        BY <3>1, <3>2
      <4> QED
        BY <4>1
    <3>4. p[1] = n => p[2] <= b
      <4>1. ASSUME p[1] = n PROVE p[2] <= b
        <5>1. lines[n].data \in Seq(Nat) /\ b = Len(lines[n].data) /\ p[2] \in DOMAIN lines[n].data
          BY <3>1, <3>3, <4>1
        <5>2. p[2] \in 1 .. Len(lines[n].data)
          BY <5>1, LenProperties
        <5> QED
          BY <5>1, <5>2
      <4> QED
        BY <4>1
    <3> QED
      BY <3>1, <3>3, <3>4 DEF Pushed
  <2>2. ASSUME NEW p \in Pushed(lines, n, b) PROVE p \in Pushed(lines, n + 1, 0)
    <3>1. /\ p \in (1 .. n) \X Nat /\ S19Data(lines[p[1]]) /\ p[2] \in DOMAIN lines[p[1]].data
      BY DEF Pushed
    <3>2. p \in (1 .. n + 1) \X Nat /\ p[1] # n + 1
      <4>1. p[1] \in 1 .. n /\ p[2] \in Nat /\ p = <<p[1], p[2]>>
        BY <3>1
      <4>2. p[1] \in 1 .. n + 1 /\ p[1] # n + 1
        BY <4>1
      <4> QED
        BY <4>1, <4>2
    <3> QED
      BY <3>1, <3>2 DEF Pushed
  <2> QED
    BY <2>1, <2>2
<1> QED
  BY <1>1 DEF S19RunIs, S19ChunkIs

-----------------------------------------------------------------------------
(* Reading a text file and adding its segments *)

LEMMA TextIs ==
    ASSUME Asked, phase \in {"load", "dialog", "add", "accepted"}, IsTextLoad
    PROVE  file \in Files /\ IsText(file)
<1>1. RankOf(Chosen, file, "start") > -1
  BY ChosenIsBest
<1> QED
  BY <1>1 DEF RankOf, IsTextLoad, Asked

\* Nothing changes for the reader when neither the file nor what has been read
\* of it does.
LEMMA ReadStays ==
    ASSUME UNCHANGED <<file, ranks, read>>
    PROVE  /\ Chosen' = Chosen /\ IsTextLoad' = IsTextLoad
           /\ ReadSoFar => ReadSoFar'
           /\ \A c : Made(c)' = Made(c)
           /\ OneEach' = OneEach
<1>1. Chosen' = Chosen
  BY DEF Chosen
<1>2. file' = file /\ line' = line /\ byte' = byte /\ chunks' = chunks
  BY DEF read
<1>3. \A c : Made(c)' = Made(c)
  BY <1>1, <1>2 DEF Made
<1>4. IsTextLoad' = IsTextLoad
  BY <1>1 DEF IsTextLoad
<1>5. ReadSoFar => ReadSoFar'
  BY <1>1, <1>2 DEF ReadSoFar
<1>6. OneEach' = OneEach
  BY <1>2, <1>3 DEF OneEach
<1> QED
  BY <1>1, <1>3, <1>4, <1>5, <1>6

LEMMA TextInit == Init => TextRead
BY DEF Init, TextRead

LEMMA ReadStart ==
    ASSUME line = 0, byte = 0, chunks = <<>>
    PROVE  ReadSoFar
<1>1. HexRunIs(Lines(file), 0, <<>>, <<>>)
  BY DEF HexRunIs
<1>2. S19RunIs(Lines(file), 0, 0, <<>>)
  <2>1. Pushed(Lines(file), 0, 0) = {}
    BY DEF Pushed
  <2> QED
    BY <2>1 DEF S19RunIs
<1> QED
  BY <1>1, <1>2 DEF ReadSoFar

LEMMA HexLineKeeps ==
    ASSUME Asked, Typed, ReadSoFar, ParseHex, phase' # "failed"
    PROVE  ReadSoFar'
<1>1. /\ phase = "load" /\ Chosen = "Hex" /\ line < Len(file.lines)
      /\ HexLineOk(NextLine) /\ line' = line + 1 /\ chunks' = HexStep(chunks, NextLine)
      /\ UNCHANGED <<file, ranks>>
  BY DEF ParseHex, ParseLine
<1>2. file \in Files /\ IsText(file)
  BY <1>1, TextIs DEF IsTextLoad
<1>3. /\ Len(file.lines) \in Nat /\ DOMAIN Lines(file) = 1 .. Len(file.lines) /\ line \in Nat
      /\ \A i \in DOMAIN Lines(file) :
             /\ Lines(file)[i] = ReadLine(file.lines[i])
             /\ Lines(file)[i].addr \in Nat /\ Lines(file)[i].data \in Seq(Nat)
  BY <1>2, LinesAre DEF Typed
<1>4. line + 1 \in DOMAIN Lines(file)
  BY <1>1, <1>3
<1>5. NextLine = Lines(file)[line + 1]
  BY <1>3, <1>4 DEF NextLine
<1>6. PICK marks : HexRunIs(Lines(file), line, chunks, marks)
  BY <1>1 DEF ReadSoFar
<1>7. \E new : HexRunIs(Lines(file), line + 1, HexStep(chunks, Lines(file)[line + 1]), new)
  <2>1. IsList(chunks)
    BY DEF Typed
  <2>2. HexLineOk(Lines(file)[line + 1])
    BY <1>1, <1>5
  <2> QED
    BY <1>3, <1>4, <1>6, <2>1, <2>2, HexLineRead
<1>8. Chosen' = Chosen
  BY <1>1 DEF Chosen
<1>9. line' <= Len(file.lines)
  BY <1>1, <1>3
<1>10. \E new : HexRunIs(Lines(file'), line', chunks', new)
  BY <1>1, <1>5, <1>7
<1> QED
  BY <1>1, <1>8, <1>9, <1>10 DEF ReadSoFar

LEMMA S19LineKeeps ==
    ASSUME Asked, Typed, ReadSoFar, ParseS19, phase' # "failed"
    PROVE  ReadSoFar'
<1>1. /\ phase = "load" /\ Chosen = "S19" /\ line < Len(file.lines) /\ byte = Len(LastData)
      /\ line' = line + 1 /\ byte' = 0 /\ chunks' = chunks
      /\ UNCHANGED <<file, ranks>>
  BY DEF ParseS19, ParseLine
<1>2. file \in Files /\ IsText(file)
  BY <1>1, TextIs DEF IsTextLoad
<1>3. /\ Len(file.lines) \in Nat /\ DOMAIN Lines(file) = 1 .. Len(file.lines)
      /\ line \in Nat /\ byte \in Nat
      /\ \A i \in DOMAIN Lines(file) : Lines(file)[i].data \in Seq(Nat)
  BY <1>2, LinesAre DEF Typed
<1>4. line + 1 \in DOMAIN Lines(file) /\ (line > 0 => line \in DOMAIN Lines(file))
  BY <1>1, <1>3
<1>5. line > 0 /\ S19Data(Lines(file)[line]) =>
          Lines(file)[line].data \in Seq(Nat) /\ byte = Len(Lines(file)[line].data)
  BY <1>1, <1>3, <1>4 DEF LastData
<1>6. Ascending(Lines(file)) => S19RunIs(Lines(file), line + 1, 0, chunks)
  <2> SUFFICES ASSUME Ascending(Lines(file)) PROVE S19RunIs(Lines(file), line + 1, 0, chunks)
    OBVIOUS
  <2>1. S19RunIs(Lines(file), line, byte, chunks)
    BY <1>1 DEF ReadSoFar
  <2> QED
    BY <1>3, <1>4, <1>5, <2>1, S19LineRead
<1>7. Chosen' = Chosen
  BY <1>1 DEF Chosen
<1>8. line' <= Len(file.lines)
  BY <1>1, <1>3
<1> QED
  BY <1>1, <1>6, <1>7, <1>8 DEF ReadSoFar

\* A byte is pushed at an address above all that have been.
LEMMA AscendingAbove ==
    ASSUME NEW lines, NEW n \in DOMAIN lines, NEW m \in Nat, DOMAIN lines = 1 .. m,
           \A i \in DOMAIN lines : lines[i].addr \in Nat /\ lines[i].data \in Seq(Nat),
           Ascending(lines), S19Data(lines[n]), NEW b \in Nat, b < Len(lines[n].data)
    PROVE  /\ lines[n].addr + b < AddrMod
           /\ \A p \in Pushed(lines, n, b) : PlaceOfByte(lines, p) < lines[n].addr + b
<1>1. DataLines(lines, {1, 2, 3}) = {i \in DOMAIN lines : S19Data(lines[i])}
  BY DEF DataLines, S19Data
<1>2. AddrMod \in Nat /\ \A i \in DOMAIN lines : Len(lines[i].data) \in Nat
  BY LenProperties, TextAssumption
<1>3. lines[n].addr + b < AddrMod
  <2>1. n \in DataLines(lines, {1, 2, 3})
    BY <1>1
  <2>2. lines[n].addr + Len(lines[n].data) <= AddrMod
    BY <2>1 DEF Ascending
  <2>3. lines[n].addr \in Nat /\ Len(lines[n].data) \in Nat
    BY <1>2
  <2> QED
    BY <1>2, <2>2, <2>3
<1>4. ASSUME NEW p \in Pushed(lines, n, b) PROVE PlaceOfByte(lines, p) < lines[n].addr + b
  <2> PICK j, k : j = p[1] /\ k = p[2]
    OBVIOUS
  <2>1. /\ j \in 1 .. n /\ k \in Nat /\ S19Data(lines[j]) /\ k \in DOMAIN lines[j].data
        /\ j = n => k <= b
    BY DEF Pushed
  <2>2. j \in DOMAIN lines /\ k <= Len(lines[j].data) /\ PlaceOfByte(lines, p) = lines[j].addr + k - 1
    BY <2>1, LenProperties DEF PlaceOfByte
  <2>3. CASE j = n
    BY <1>2, <2>1, <2>2, <2>3
  <2>4. CASE j # n
    <3>1. j \in DataLines(lines, {1, 2, 3}) /\ n \in DataLines(lines, {1, 2, 3}) /\ j < n
      <4>1. n \in 1 .. m
        OBVIOUS
      <4>2. j < n
        BY <2>1, <2>4, <4>1
      <4> QED
        BY <1>1, <2>1, <2>2, <4>2
    <3>2. lines[j].addr + Len(lines[j].data) <= lines[n].addr
      BY <3>1 DEF Ascending
    <3>3. \A x, y, len \in Nat : x + len <= y /\ k <= len => x + k - 1 < y + b
      BY <2>1
    <3>4. lines[j].addr \in Nat /\ lines[n].addr \in Nat /\ Len(lines[j].data) \in Nat
      BY <1>2, <2>2
    <3> QED
      BY <2>2, <3>2, <3>3, <3>4
  <2> QED
    BY <2>3, <2>4
<1> QED
  BY <1>3, <1>4

LEMMA S19ByteKeeps ==
    ASSUME Asked, Typed, ReadSoFar, PushS19
    PROVE  ReadSoFar'
<1> PICK lines : lines = Lines(file)
  OBVIOUS
<1>1. /\ phase = "load" /\ Chosen = "S19" /\ byte < Len(LastData)
      /\ byte' = byte + 1
      /\ chunks' = S19Push(chunks, (lines[line].addr + byte) % AddrMod, LastData[byte + 1])
      /\ UNCHANGED <<file, ranks, line>>
  BY DEF PushS19
<1>2. file \in Files /\ IsText(file)
  BY <1>1, TextIs DEF IsTextLoad
<1>3. /\ Len(file.lines) \in Nat /\ DOMAIN lines = 1 .. Len(file.lines)
      /\ line \in Nat /\ byte \in Nat /\ IsList(chunks)
      /\ \A i \in DOMAIN lines : lines[i].addr \in Nat /\ lines[i].data \in Seq(Nat)
  BY <1>2, LinesAre DEF Typed
<1>4. line > 0 /\ S19Data(lines[line]) /\ LastData = lines[line].data
  <2>1. Len(<<>>) = 0
    OBVIOUS
  <2>2. LastData # <<>>
    BY <1>1, <1>3, <2>1
  <2> QED
    BY <2>2 DEF LastData
<1>5. line \in DOMAIN lines
  BY <1>3, <1>4 DEF ReadSoFar
<1>6. Ascending(lines) => S19RunIs(lines, line, byte + 1, chunks')
  <2> SUFFICES ASSUME Ascending(lines) PROVE S19RunIs(lines, line, byte + 1, chunks')
    OBVIOUS
  <2>1. S19RunIs(lines, line, byte, chunks)
    BY <1>1 DEF ReadSoFar
  <2> PICK a : a = lines[line].addr + byte
    OBVIOUS
  <2>2. a \in Nat /\ a < AddrMod /\ \A p \in Pushed(lines, line, byte) : PlaceOfByte(lines, p) < a
    <3>1. byte < Len(lines[line].data)
      BY <1>1, <1>4
    <3>2. /\ lines[line].addr + byte < AddrMod
          /\ \A p \in Pushed(lines, line, byte) : PlaceOfByte(lines, p) < lines[line].addr + byte
      BY <1>3, <1>4, <1>5, <3>1, AscendingAbove
    <3>3. lines[line].addr \in Nat
      BY <1>3, <1>5
    <3> QED
      BY <1>3, <3>2, <3>3
  <2>3. a % AddrMod = a
    BY <2>2, TextAssumption
  <2>4. chunks' = S19Push(chunks, a, lines[line].data[byte + 1])
    BY <1>1, <1>4, <2>3
  <2>5. line \in Nat \ {0} /\ byte < Len(lines[line].data) /\ lines[line].data \in Seq(Nat)
        /\ lines[line].addr \in Nat
    BY <1>1, <1>3, <1>4, <1>5
  <2> QED
    BY <1>3, <1>4, <2>1, <2>2, <2>4, <2>5, S19ByteRead
<1>7. Chosen' = Chosen
  BY <1>1 DEF Chosen
<1> QED
  BY <1>1, <1>6, <1>7 DEF ReadSoFar

\* Every chunk becomes one segment to add, and nothing is there before.
LEMMA LoadedIsAdding ==
    ASSUME NEW n \in Nat, n = Len(chunks), DOMAIN chunks = 1 .. n, NEW ms,
           ms = [i \in 1 .. n |-> Made(n + 1 - i)],
           todo' = Segments(ms), phase' = "add", UNCHANGED <<file, ranks, read>>, segs' = {},
           line = Len(file.lines), Chosen = "S19" => byte = Len(LastData)
    PROVE  Adding'
<1>1. /\ DOMAIN todo' = 1 .. n /\ \A i \in 1 .. n : todo'[i] = AddSeg(Made(n + 1 - i))
  BY DEF Segments
<1>2. \A c \in 1 .. n : n + 1 - c \in 1 .. n /\ n + 1 - (n + 1 - c) = c
  OBVIOUS
<1>3. \A c : Made(c)' = Made(c)
  BY ReadStays
<1>4. /\ file' = file /\ line' = line /\ byte' = byte /\ DOMAIN chunks' = 1 .. n
      /\ LastData' = LastData /\ Chosen' = Chosen
  BY ReadStays DEF read, LastData
<1>5. \A i \in DOMAIN todo' : \E c \in DOMAIN chunks' : todo'[i] = AddSeg(Made(c)')
  BY <1>1, <1>2, <1>3, <1>4
<1>6. \A c \in DOMAIN chunks' : \E i \in DOMAIN todo' : todo'[i] = AddSeg(Made(c)')
  <2>1. ASSUME NEW c \in 1 .. n PROVE \E i \in DOMAIN todo' : todo'[i] = AddSeg(Made(c))
    <3>1. n + 1 - c \in 1 .. n /\ todo'[n + 1 - c] = AddSeg(Made(c))
      BY <1>1, <1>2
    <3> QED
      BY <1>1, <3>1
  <2> QED
    BY <1>3, <1>4, <2>1
<1> QED
  BY <1>4, <1>5, <1>6 DEF Adding

\* A segment that is not refused is in the project then, unless one with its
\* start is.
LEMMA AddedKeeps ==
    ASSUME Adding, Typed, AddSegment, phase' # "thrown"
    PROVE  Adding'
<1> PICK m : m = Head(todo).seg
  OBVIOUS
<1>1. /\ todo # <<>> /\ todo' = Tail(todo) /\ segs' = Inserted(segs, m)
      /\ phase = "add" /\ phase' = "add" /\ UNCHANGED <<file, ranks, read>>
  BY DEF AddSegment, Next1
<1>2. /\ Head(todo) = todo[1] /\ 1 \in DOMAIN todo
      /\ \A i \in DOMAIN todo' : i + 1 \in DOMAIN todo /\ todo'[i] = todo[i + 1]
      /\ \A i \in DOMAIN todo : i # 1 => i - 1 \in DOMAIN todo' /\ todo[i] = todo'[i - 1]
  <2>1. IsList(todo)
    BY DEF Typed, AreEffects
  <2>2. /\ Head(todo) = todo[1] /\ 1 \in DOMAIN todo /\ IsList(todo') /\ Len(todo') = Len(todo) - 1
        /\ \A i \in DOMAIN todo' : i + 1 \in DOMAIN todo /\ todo'[i] = todo[i + 1]
    BY <1>1, <2>1, TailIs
  <2>3. /\ DOMAIN todo = 1 .. Len(todo) /\ Len(todo) \in Nat /\ DOMAIN todo' = 1 .. Len(todo) - 1
    BY <2>1, <2>2, ListIs
  <2>4. ASSUME NEW i \in DOMAIN todo, i # 1 PROVE i - 1 \in DOMAIN todo' /\ todo[i] = todo'[i - 1]
    <3>1. i - 1 \in DOMAIN todo' /\ (i - 1) + 1 = i
      BY <2>3, <2>4
    <3> QED
      BY <2>2, <3>1
  <2> QED
    BY <2>2, <2>4
<1>3. /\ \A c : Made(c)' = Made(c)
      /\ OneEach' = OneEach
      /\ file' = file /\ line' = line /\ byte' = byte /\ chunks' = chunks
      /\ LastData' = LastData /\ Chosen' = Chosen
  BY <1>1, ReadStays DEF read, LastData
<1>4. PICK first \in DOMAIN chunks : Head(todo) = AddSeg(Made(first)) /\ m = Made(first)
  BY <1>2 DEF Adding, AddSeg
<1>5. \A i \in DOMAIN todo' : \E c \in DOMAIN chunks' : todo'[i] = AddSeg(Made(c)')
  BY <1>2, <1>3 DEF Adding
<1>6. \A k \in segs' : \E c \in DOMAIN chunks' : k = Made(c)'
  BY <1>1, <1>3, <1>4 DEF Adding, Inserted
<1>7. ASSUME OneEach, NEW c \in DOMAIN chunks
      PROVE  Made(c) \in segs' \/ \E i \in DOMAIN todo' : todo'[i] = AddSeg(Made(c))
  <2>1. segs \subseteq segs'
    BY <1>1 DEF Inserted
  <2>2. Made(first) \in segs'
    <3>1. CASE \E k \in segs : k.start = m.start
      <4>1. PICK d \in DOMAIN chunks : Made(d) \in segs /\ Made(d).start = Made(first).start
        BY <1>4, <3>1 DEF Adding
      <4> QED
        BY <1>7, <2>1, <4>1 DEF OneEach
    <3>2. CASE ~\E k \in segs : k.start = m.start
      BY <1>1, <1>4, <3>2 DEF Inserted
    <3> QED
      BY <3>1, <3>2
  <2>3. CASE Made(c) \in segs
    BY <2>1, <2>3
  <2>4. CASE Made(c) \notin segs
    <3>1. PICK i \in DOMAIN todo : todo[i] = AddSeg(Made(c))
      BY <1>7, <2>4 DEF Adding
    <3>2. CASE i = 1
      BY <1>2, <1>4, <2>2, <3>1, <3>2 DEF AddSeg
    <3>3. CASE i # 1
      BY <1>2, <3>1, <3>3
    <3> QED
      BY <3>2, <3>3
  <2> QED
    BY <2>3, <2>4
<1> QED
  BY <1>1, <1>3, <1>5, <1>6, <1>7 DEF Adding

\* Every effect of a text file is a segment.
LEMMA OnlySegments ==
    ASSUME Adding, Typed, todo # <<>>
    PROVE  Head(todo).op = "segment"
<1>1. Head(todo) = todo[1] /\ 1 \in DOMAIN todo
  BY TailIs DEF Typed, AreEffects
<1> QED
  BY <1>1 DEF Adding, AddSeg

LEMMA TextStep == Asked /\ Typed /\ Untouched /\ TextRead /\ [Next]_vars => TextRead'
<1> SUFFICES ASSUME Asked, Typed, Untouched, TextRead, [Next]_vars
             PROVE  TextRead'
  OBVIOUS
<1>1. CASE Match
  BY <1>1 DEF Match, TextRead, read
<1>2. CASE Choose
  <2>1. UNCHANGED <<file, ranks, read>> /\ phase = "match"
    BY <1>2 DEF Choose
  <2>2. ReadSoFar'
    BY <2>1, ReadStart, ReadStays DEF TextRead
  <2>3. phase' = "dialog" => Chosen' = "Binary"
    BY <1>2, <2>1, ReadStays DEF Choose
  <2>4. phase' \in {"dialog", "load", "failed"}
    BY <1>2 DEF Choose
  <2> QED
    BY <2>2, <2>3, <2>4 DEF TextRead
<1>3. CASE ParseHex \/ ParseS19 \/ PushS19
  <2>1. phase = "load" /\ phase' \in {"load", "failed"} /\ IsTextLoad
    BY <1>3 DEF ParseHex, ParseS19, PushS19, ParseLine, IsTextLoad
  <2>2. phase' # "failed" => ReadSoFar'
    BY <1>3, <2>1, HexLineKeeps, S19LineKeeps, S19ByteKeeps DEF TextRead
  <2> QED
    BY <2>1, <2>2 DEF TextRead
<1>4. CASE LoadHex \/ LoadS19
  <2>1. /\ phase = "load" /\ phase' = "add" /\ UNCHANGED <<file, ranks, read>>
        /\ segs' = segs /\ segs = {} /\ line = Len(file.lines)
        /\ Chosen = "S19" => byte = Len(LastData)
        /\ IsTextLoad
    BY <1>4 DEF LoadHex, LoadS19, Proceed, Untouched, IsTextLoad
  <2> PICK n : n = Len(chunks)
    OBVIOUS
  <2>2. n \in Nat /\ DOMAIN chunks = 1 .. n
    BY ListIs DEF Typed
  <2>3. todo' = Segments([i \in 1 .. n |-> Made(n + 1 - i)])
    <3>1. CASE LoadHex
      BY <2>2, <3>1 DEF LoadHex, Proceed, HexSegments, Made
    <3>2. CASE LoadS19
      BY <2>2, <3>2 DEF LoadS19, Proceed, S19Segments, Made
    <3> QED
      BY <1>4, <3>1, <3>2
  <2>4. Adding'
    BY <2>1, <2>2, <2>3, LoadedIsAdding
  <2>5. ReadSoFar'
    BY <2>1, ReadStays DEF TextRead
  <2> QED
    BY <2>1, <2>4, <2>5 DEF TextRead
<1>12. CASE ElfReads
  <2>1. ranks' = ranks /\ phase' \in {"load", "failed"} /\ Chosen = "ELF"
    BY <1>12 DEF ElfReads, ElfRead
  <2>2. ~IsTextLoad'
    BY <2>1 DEF IsTextLoad, Chosen
  <2> QED
    BY <2>1, <2>2 DEF TextRead
<1>5. CASE LoadElf \/ LoadMach \/ LoadFlat \/ LoadBinary
  <2>1. UNCHANGED <<file, ranks, read>> /\ phase' \in {"add", "failed"}
    BY <1>5 DEF LoadElf, LoadMach, LoadFlat, LoadBinary, Proceed
  <2>2. ~IsTextLoad
    BY <1>5 DEF LoadElf, InPass, LoadMach, LoadFlat, LoadBinary, IsTextLoad, TextRead
  <2> QED
    BY <2>1, <2>2, ReadStays DEF TextRead
<1>6. CASE LoadCommand
  <2>1. ranks' = ranks /\ phase' = "add" /\ ~IsTextLoad
    BY <1>6 DEF LoadCommand, MoreCommands, IsTextLoad
  <2>2. ~IsTextLoad'
    BY <2>1 DEF IsTextLoad, Chosen
  <2> QED
    BY <2>1, <2>2 DEF TextRead
<1>7. CASE AddSegment
  <2>1. UNCHANGED <<file, ranks, read>> /\ phase = "add" /\ phase' \in {"add", "thrown"}
    BY <1>7 DEF AddSegment, Next1
  <2>2. IsTextLoad /\ phase' # "thrown" => Adding' /\ ReadSoFar'
    BY <1>7, <2>1, AddedKeeps, ReadStays DEF TextRead
  <2> QED
    BY <2>1, <2>2, ReadStays DEF TextRead
<1>8. CASE AddSymbol \/ AddLabel \/ LeaveOut
  <2>1. UNCHANGED <<file, ranks, read, phase>> /\ phase = "add" /\ todo # <<>> /\ Head(todo).op # "segment"
    BY <1>8 DEF AddSymbol, AddLabel, LeaveOut, CreateSymbol, Next1
  <2>2. ~IsTextLoad
    BY <2>1, OnlySegments DEF TextRead
  <2> QED
    BY <2>1, <2>2, ReadStays DEF TextRead
<1>9. CASE Finish
  <2>1. /\ UNCHANGED <<file, ranks, read, todo, segs>> /\ phase = "add" /\ phase' = "accepted"
        /\ todo = <<>>
    BY <1>9 DEF Finish
  <2>2. IsTextLoad => ReadSoFar' /\ Adding
    BY <2>1, ReadStays DEF TextRead
  <2>3. Adding => Adding'
    <3>1. LastData' = LastData /\ line' = line /\ byte' = byte /\ chunks' = chunks
      BY <2>1 DEF read, LastData
    <3> QED
      BY <2>1, <3>1, ReadStays DEF Adding
  <2> QED
    BY <2>1, <2>2, <2>3, ReadStays DEF TextRead
<1>10. CASE Report
  BY <1>10 DEF Report, TextRead
<1>11. CASE Timeout \/ UNCHANGED vars
  <2>1. UNCHANGED <<file, ranks, read, todo, segs, phase>>
    BY <1>11 DEF Timeout, vars, read
  <2>2. LastData' = LastData /\ line' = line /\ byte' = byte /\ chunks' = chunks
    BY <2>1 DEF read, LastData
  <2>3. Adding => Adding'
    BY <2>1, <2>2, ReadStays DEF Adding
  <2> QED
    BY <2>1, <2>2, <2>3, ReadStays DEF TextRead
<1> QED
  BY <1>1, <1>2, <1>3, <1>4, <1>5, <1>6, <1>7, <1>8, <1>9, <1>10, <1>11, <1>12, StepKinds DEF Next

-----------------------------------------------------------------------------
(* What is in the project once a hex file has been loaded *)

LEMMA HoldsThere ==
    ASSUME NEW m \in segs, m.start \in Int, m.len \in Int, NEW a \in Int, CanResolve(m, a),
           \A k \in segs : CanResolve(k, a) => k = m,
           NEW b, m.data[a - m.start] = b
    PROVE  Holds(a, b)
<1>1. Resolving(segs, a) = {m}
  BY DEF Resolving
<1>2. FirstOf({m}) = m
  BY DEF FirstOf
<1>3. Locate(segs, a) = [seg |-> m, offset |-> a - m.start]
  BY <1>1, <1>2 DEF Locate
<1> PICK o : o = a - m.start
  OBVIOUS
<1>4. o \in Int /\ o < m.len /\ o + 0 = o
  BY DEF CanResolve
<1>5. ReadBytes([seg |-> m, offset |-> o], 1)[0] = m.data[o]
  BY <1>4 DEF ReadBytes
<1> QED
  BY <1>1, <1>3, <1>5 DEF Holds

LEMMA HexMadeIs ==
    ASSUME NEW c, c.base \in Nat, DOMAIN c.bytes \subseteq Nat,
           NEW bound \in Nat, \A o \in DOMAIN c.bytes : o <= bound,
           NEW m, m = HexSegmentOf(c)
    PROVE  \/ DOMAIN c.bytes = {} /\ m.start = c.base /\ m.len = 0
           \/ \E lo, hi \in DOMAIN c.bytes :
                 /\ m.start = c.base + lo /\ m.len = hi + 1 - lo
                 /\ \A o \in DOMAIN c.bytes : lo <= o /\ o <= hi /\ m.data[o - lo] = c.bytes[o]
<1>1. CASE DOMAIN c.bytes = {}
  BY <1>1 DEF HexSegmentOf, Segment
<1>2. CASE DOMAIN c.bytes # {}
  <2> PICK lo, hi : lo = Min(DOMAIN c.bytes) /\ hi = Max(DOMAIN c.bytes)
    OBVIOUS
  <2>1. /\ lo \in DOMAIN c.bytes /\ hi \in DOMAIN c.bytes
        /\ \A o \in DOMAIN c.bytes : lo <= o /\ o <= hi
    BY <1>2, ExtremesAre
  <2> PICK len : len = hi + 1 - lo
    OBVIOUS
  <2>2. len \in Nat \ {0} /\ lo \in Nat /\ hi \in Nat
    BY <2>1
  <2> DEFINE buffer == [i \in 0 .. len - 1 |-> IF lo + i \in DOMAIN c.bytes
                                               THEN c.bytes[lo + i] ELSE Unset]
  <2>3. m = Segment(c.base + lo, len, buffer, len)
    BY <1>2 DEF HexSegmentOf
  <2>4. m.start = c.base + lo /\ m.len = len
        /\ m.data = [i \in 0 .. len - 1 |-> IF i < len THEN buffer[i] ELSE 0]
    <3> HIDE DEF buffer
    <3> QED
      BY <2>2, <2>3 DEF Segment
  <2>5. ASSUME NEW o \in DOMAIN c.bytes PROVE m.data[o - lo] = c.bytes[o]
    <3>1. o \in Nat /\ lo <= o /\ o <= hi
      BY <2>1
    <3>2. o - lo \in 0 .. len - 1 /\ o - lo < len /\ lo + (o - lo) = o
      BY <2>2, <3>1
    <3>3. buffer[o - lo] = c.bytes[o]
      BY <3>2
    <3> HIDE DEF buffer
    <3> QED
      BY <2>4, <3>2, <3>3
  <2> QED
    BY <2>1, <2>4, <2>5
<1> QED
  BY <1>1, <1>2

\* The addresses a segment has, and where it starts, its run covers.
LEMMA HexCovers ==
    ASSUME NEW lines, NEW n \in Nat, DOMAIN lines = 1 .. n,
           \A j \in 1 .. n : lines[j].addr \in Nat /\ lines[j].data \in Seq(Nat),
           NEW i \in 1 .. n, NEW c, HexChunkIs(lines, n, c, BaseLines(lines, i)),
           NEW m, m = HexSegmentOf(c)
    PROVE  LET covered == Covered(lines, BasesOf(lines), RunOf(lines, i))
           IN  /\ m.start \in covered /\ m.start \in Int /\ m.len \in Int
               /\ \A a \in Int : CanResolve(m, a) => a \in covered
<1> PICK run : run = RunOf(lines, i)
  OBVIOUS
<1> PICK bases : bases = BasesOf(lines)
  OBVIOUS
<1> PICK D : D = DOMAIN c.bytes
  OBVIOUS
<1> PICK bound \in Nat : \A o \in D : o <= bound
  BY DEF HexChunkIs
<1>1. /\ c.base \in Nat /\ D \subseteq Nat
      /\ D = UNION {Offsets(lines[j]) : j \in DataOf(lines, n, BaseLines(lines, i))}
      /\ c.base = BaseFrom(lines, BaseLines(lines, i))
  BY DEF HexChunkIs
<1>2. i \in run /\ run \subseteq 1 .. n
  BY DEF RunOf
<1>3. \A j \in run : bases[j] = c.base
  BY <1>1, <1>2 DEF BasesOf, RunOf, BaseAt, BaseFrom
<1>4. DataOf(lines, n, BaseLines(lines, i)) = {j \in run : lines[j].type = 0}
  BY DEF DataOf, RunOf
<1> DEFINE said == UNION {Said(lines, bases, j) : j \in {j \in run : lines[j].type = 0}}
           as == {s.a : s \in said}
<1>5. ASSUME NEW a \in as PROVE \E o \in D : a = c.base + o
  <2> PICK s \in said : a = s.a
    OBVIOUS
  <2>1. PICK j \in run : lines[j].type = 0 /\ s \in Said(lines, bases, j)
    OBVIOUS
  <2>2. PICK k \in DOMAIN lines[j].data :
            s = [a |-> bases[j] + lines[j].addr + k - 1, b |-> lines[j].data[k]]
    BY <2>1 DEF Said
  <2> PICK o : o = lines[j].addr + k - 1
    OBVIOUS
  <2>3. o \in Offsets(lines[j])
    BY DEF Offsets
  <2>4. o \in D
    BY <1>1, <1>4, <2>1, <2>3
  <2>5. a = c.base + o
    <3>1. a = c.base + lines[j].addr + k - 1
      BY <1>3, <2>2
    <3>2. lines[j].addr \in Nat /\ k \in Nat
      BY <1>2, LenProperties
    <3>3. \A x, y, z \in Nat : x + y + z - 1 = x + (y + z - 1)
      OBVIOUS
    <3> QED
      BY <1>1, <3>1, <3>2, <3>3
  <2> QED
    BY <2>4, <2>5
<1>6. ASSUME NEW o \in D PROVE c.base + o \in as
  <2>1. PICK j \in run : lines[j].type = 0 /\ o \in Offsets(lines[j])
    BY <1>1, <1>4
  <2>2. PICK k \in DOMAIN lines[j].data : o = lines[j].addr + k - 1
    BY <2>1 DEF Offsets
  <2> PICK s : s = [a |-> bases[j] + lines[j].addr + k - 1, b |-> lines[j].data[k]]
    OBVIOUS
  <2>3. s \in Said(lines, bases, j)
    BY DEF Said
  <2>4. s \in said /\ s.a \in as
    BY <2>1, <2>3
  <2>5. s.a = c.base + o
    <3>1. s.a = c.base + lines[j].addr + k - 1
      BY <1>3
    <3>2. lines[j].addr \in Nat /\ k \in Nat
      BY <1>2, LenProperties
    <3>3. \A x, y, z \in Nat : x + y + z - 1 = x + (y + z - 1)
      OBVIOUS
    <3> QED
      BY <1>1, <2>2, <3>1, <3>2, <3>3
  <2> QED
    BY <2>4, <2>5
<1> PICK covered : covered = Covered(lines, bases, run)
  OBVIOUS
<1>7. covered = IF as = {} THEN {bases[Max(run)]} ELSE Min(as) .. Max(as)
  BY DEF Covered
<1> HIDE DEF as, said
<1>8. \/ D = {} /\ m.start = c.base /\ m.len = 0
      \/ \E lo, hi \in D : /\ m.start = c.base + lo /\ m.len = hi + 1 - lo
                            /\ \A o \in D : lo <= o /\ o <= hi
  BY <1>1, HexMadeIs
<1>9. CASE D = {}
  <2>1. Max(run) \in run
    <3>1. run \subseteq Nat /\ run # {} /\ \A j \in run : j <= n
      BY <1>2
    <3> QED
      BY <3>1, ExtremesAre
  <2>2. covered = {c.base}
    BY <1>3, <1>5, <1>7, <1>9, <2>1
  <2>3. m.start = c.base /\ m.len = 0
    BY <1>8, <1>9
  <2> QED
    BY <1>1, <2>2, <2>3 DEF CanResolve
<1>10. CASE D # {}
  <2>1. PICK lo, hi \in D : /\ m.start = c.base + lo /\ m.len = hi + 1 - lo
                            /\ \A o \in D : lo <= o /\ o <= hi
    BY <1>8, <1>10
  <2>2. /\ c.base + lo \in as /\ c.base + hi \in as
        /\ \A a \in as : a \in Nat /\ c.base + lo <= a /\ a <= c.base + hi
    <3>1. ASSUME NEW a \in as PROVE a \in Nat /\ c.base + lo <= a /\ a <= c.base + hi
      <4>1. PICK o \in D : a = c.base + o
        BY <1>5
      <4>2. o \in Nat /\ lo \in Nat /\ hi \in Nat /\ lo <= o /\ o <= hi /\ c.base \in Nat
        BY <1>1, <2>1
      <4>3. \A x, y, z \in Nat : y <= z => x + y <= x + z /\ x + y \in Nat
        OBVIOUS
      <4> QED
        BY <4>1, <4>2, <4>3
    <3> QED
      BY <1>6, <3>1
  <2>3. Min(as) = c.base + lo /\ Max(as) = c.base + hi
    <3>1. as \subseteq Nat /\ as # {} /\ c.base + hi \in Nat
      BY <2>2
    <3>2. /\ Min(as) \in as /\ \A a \in as : Min(as) <= a
          /\ Max(as) \in as /\ \A a \in as : a <= Max(as)
      BY <2>2, <3>1, ExtremesAre
    <3>3. Min(as) \in Nat /\ Max(as) \in Nat /\ c.base + lo \in Nat
      BY <2>2, <3>1, <3>2
    <3>4. Min(as) <= c.base + lo /\ c.base + lo <= Min(as)
          /\ Max(as) <= c.base + hi /\ c.base + hi <= Max(as)
      BY <2>2, <3>2
    <3>5. \A x, y \in Nat : x <= y /\ y <= x => x = y
      OBVIOUS
    <3> QED
      BY <3>1, <3>3, <3>4, <3>5
  <2>4. covered = c.base + lo .. c.base + hi
    BY <1>7, <2>2, <2>3
  <2>5. lo \in Nat /\ hi \in Nat /\ lo <= hi
    BY <1>1, <2>1
  <2>6. m.start \in Int /\ m.len \in Int /\ m.start + m.len = c.base + hi + 1
    BY <1>1, <2>1, <2>5
  <2>7. \A a \in Int : CanResolve(m, a) => a \in covered
    BY <1>1, <2>1, <2>4, <2>5, <2>6 DEF CanResolve
  <2>8. m.start \in covered
    BY <1>1, <2>1, <2>4, <2>5
  <2> QED
    BY <2>6, <2>7, <2>8
<1> QED
  BY <1>9, <1>10

\* Once all is added, every chunk is a segment of the project, if their starts
\* differ.
LEMMA AllAdded ==
    ASSUME phase = "accepted", Adding, OneEach
    PROVE  /\ \A c \in DOMAIN chunks : Made(c) \in segs
           /\ \A m \in segs : \E c \in DOMAIN chunks : m = Made(c)
<1>1. DOMAIN todo = {}
  BY DEF Adding
<1> QED
  BY <1>1 DEF Adding

HexPlaces(m, c, o, lo, hi) ==
    /\ m.start = c.base + lo /\ m.len = hi + 1 - lo
    /\ lo <= o /\ o <= hi /\ m.data[o - lo] = c.bytes[o]

LEMMA HexReads ==
    ASSUME NEW lines, NEW n, NEW marks, NEW c, HexChunkIs(lines, n, c, marks),
           NEW m, m = HexSegmentOf(c), NEW o \in DOMAIN c.bytes
    PROVE  \E lo, hi \in DOMAIN c.bytes : HexPlaces(m, c, o, lo, hi)
<1>1. c.base \in Nat /\ DOMAIN c.bytes \subseteq Nat
  BY DEF HexChunkIs
<1>2. PICK bound \in Nat : \A q \in DOMAIN c.bytes : q <= bound
  BY DEF HexChunkIs
<1>3. \/ DOMAIN c.bytes = {} /\ m.start = c.base /\ m.len = 0
      \/ \E lo, hi \in DOMAIN c.bytes :
            /\ m.start = c.base + lo /\ m.len = hi + 1 - lo
            /\ \A q \in DOMAIN c.bytes : lo <= q /\ q <= hi /\ m.data[q - lo] = c.bytes[q]
  BY <1>1, <1>2, HexMadeIs
<1> QED
  BY <1>3 DEF HexPlaces

LEMMA HexKept ==
    ASSUME Asked, Typed, TextRead
    PROVE  HexImageKept
<1> SUFFICES ASSUME phase = "accepted", Chosen = "Hex", RunsApart(Lines(file))
             PROVE  \A i \in DataLines(Lines(file), {0}) :
                        \A s \in Said(Lines(file), BasesOf(Lines(file)), i) :
                            \/ Holds(s.a, s.b)
                            \/ \E j \in DataLines(Lines(file), {0}) :
                                  j > i /\ \E t \in Said(Lines(file), BasesOf(Lines(file)), j) : t.a = s.a
  BY DEF HexImageKept
<1> PICK lines : lines = Lines(file)
  OBVIOUS
<1> PICK bases : bases = BasesOf(lines)
  OBVIOUS
<1> PICK n : n = Len(file.lines)
  OBVIOUS
<1>1. file \in Files /\ IsText(file) /\ IsTextLoad
  BY TextIs DEF IsTextLoad
<1>2. /\ n \in Nat /\ DOMAIN lines = 1 .. n
      /\ \A j \in 1 .. n : lines[j].addr \in Nat /\ lines[j].data \in Seq(Nat)
  BY <1>1, LinesAre
<1>3. Adding /\ ReadSoFar /\ line = n
  BY <1>1 DEF TextRead, Adding
<1>4. PICK marks : HexRunIs(lines, n, chunks, marks)
  BY <1>3 DEF ReadSoFar
<1>5. /\ \A c, d \in DOMAIN chunks : marks[c] = marks[d] => c = d
      /\ \A c \in DOMAIN chunks : \E j \in 1 .. n : marks[c] = BaseLines(lines, j)
      /\ \A j \in 1 .. n : lines[j].type \in {0, 2, 4} =>
                              \E c \in DOMAIN chunks : marks[c] = BaseLines(lines, j)
      /\ \A c \in DOMAIN chunks : HexChunkIs(lines, n, chunks[c], marks[c])
  BY <1>4 DEF HexRunIs
<1>6. \A c : Made(c) = HexSegmentOf(chunks[c])
  BY DEF Made
<1>7. ASSUME NEW c \in DOMAIN chunks, NEW i \in 1 .. n, marks[c] = BaseLines(lines, i)
      PROVE  LET covered == Covered(lines, bases, RunOf(lines, i))
             IN  /\ Made(c).start \in covered /\ Made(c).start \in Int /\ Made(c).len \in Int
                 /\ \A a \in Int : CanResolve(Made(c), a) => a \in covered
  <2>1. HexChunkIs(lines, n, chunks[c], BaseLines(lines, i))
    BY <1>5, <1>7
  <2> QED
    BY <1>2, <1>6, <2>1, HexCovers
<1>8. ASSUME NEW c \in DOMAIN chunks, NEW d \in DOMAIN chunks, c # d
      PROVE  /\ Made(c).start # Made(d).start
             /\ \A a \in Int : ~(CanResolve(Made(c), a) /\ CanResolve(Made(d), a))
  <2>1. PICK i \in 1 .. n : marks[c] = BaseLines(lines, i)
    BY <1>5
  <2>2. PICK j \in 1 .. n : marks[d] = BaseLines(lines, j)
    BY <1>5
  <2>3. RunOf(lines, i) # RunOf(lines, j)
    <3>1. BaseLines(lines, i) # BaseLines(lines, j)
      BY <1>5, <1>8, <2>1, <2>2
    <3>2. i \in RunOf(lines, i) /\ i \notin RunOf(lines, j)
      BY <1>2, <3>1 DEF RunOf
    <3> QED
      BY <3>2
  <2>4. Covered(lines, bases, RunOf(lines, i)) \cap Covered(lines, bases, RunOf(lines, j)) = {}
    BY <1>2, <2>3 DEF RunsApart
  <2> QED
    BY <1>7, <2>1, <2>2, <2>4
<1>9. OneEach
  BY <1>8 DEF OneEach
<1>10. /\ \A c \in DOMAIN chunks : Made(c) \in segs
       /\ \A m \in segs : \E c \in DOMAIN chunks : m = Made(c)
  BY <1>3, <1>9, AllAdded
<1>11. ASSUME NEW i \in DataLines(lines, {0}), NEW s \in Said(lines, bases, i),
              ~\E j \in DataLines(lines, {0}) : j > i /\ \E t \in Said(lines, bases, j) : t.a = s.a
       PROVE  Holds(s.a, s.b)
  <2>1. i \in 1 .. n /\ lines[i].type = 0
    BY <1>2 DEF DataLines
  <2>2. PICK k \in DOMAIN lines[i].data :
            s = [a |-> bases[i] + lines[i].addr + k - 1, b |-> lines[i].data[k]]
    BY DEF Said
  <2>3. PICK c \in DOMAIN chunks : marks[c] = BaseLines(lines, i)
    BY <1>5, <2>1
  <2> PICK chunk : chunk = chunks[c]
    OBVIOUS
  <2> PICK m : m = Made(c)
    OBVIOUS
  <2> PICK o : o = lines[i].addr + k - 1
    OBVIOUS
  <2>4. HexChunkIs(lines, n, chunk, BaseLines(lines, i))
    BY <1>5, <2>3
  <2>5. \A j \in 1 .. n : BaseLines(lines, j) = BaseLines(lines, i) => bases[j] = chunk.base
    BY <1>2, <2>4 DEF HexChunkIs, BasesOf, BaseAt, BaseFrom
  <2>6. i \in DataOf(lines, n, BaseLines(lines, i)) /\ o \in Offsets(lines[i])
    BY <2>1 DEF DataOf, Offsets
  <2>7. o \in DOMAIN chunk.bytes /\ o \in Nat /\ chunk.base \in Nat
    BY <2>4, <2>6 DEF HexChunkIs
  <2>8. s.a = chunk.base + o /\ s.b = lines[i].data[k]
    <3>1. s.a = chunk.base + lines[i].addr + k - 1
      BY <2>1, <2>2, <2>5
    <3>2. lines[i].addr \in Nat /\ k \in Nat
      BY <1>2, <2>1, LenProperties
    <3>3. \A x, y, z \in Nat : x + y + z - 1 = x + (y + z - 1)
      OBVIOUS
    <3> QED
      BY <2>2, <2>7, <3>1, <3>2, <3>3
  <2>9. chunk.bytes[o] = lines[i].data[k]
    <3>1. \/ chunk.bytes[o] = lines[i].data[k]
          \/ \E j \in DataOf(lines, n, BaseLines(lines, i)) : j > i /\ o \in Offsets(lines[j])
      BY <2>4, <2>6, <2>7 DEF HexChunkIs, SaysLast
    <3>2. ASSUME NEW j \in DataOf(lines, n, BaseLines(lines, i)), j > i, o \in Offsets(lines[j])
          PROVE  FALSE
      <4>1. /\ j \in DataLines(lines, {0}) /\ j \in 1 .. n
            /\ bases[j] = chunk.base /\ bases[i] = chunk.base
        BY <1>2, <2>1, <2>5, <3>2 DEF DataOf, DataLines
      <4>2. PICK l \in DOMAIN lines[j].data : o = lines[j].addr + l - 1
        BY <3>2 DEF Offsets
      <4> PICK t : t = [a |-> bases[j] + lines[j].addr + l - 1, b |-> lines[j].data[l]]
        OBVIOUS
      <4>3. t \in Said(lines, bases, j)
        BY DEF Said
      <4>4. t.a = s.a
        <5>1. t.a = chunk.base + lines[j].addr + l - 1
          BY <4>1
        <5>2. lines[j].addr \in Nat /\ lines[j].data \in Seq(Nat)
          BY <1>2, <4>1
        <5>3. l \in Nat
          BY <5>2, LenProperties
        <5>4. \A x, y, z \in Nat : x + y + z - 1 = x + (y + z - 1)
          OBVIOUS
        <5>5. t.a = chunk.base + o
          BY <2>7, <4>2, <5>1, <5>2, <5>3, <5>4
        <5> QED
          BY <2>8, <5>5
      <4> QED
        BY <1>11, <3>2, <4>1, <4>3, <4>4
    <3> QED
      BY <3>1, <3>2
  <2>10. m = HexSegmentOf(chunk)
    BY <1>6
  <2>11. PICK lo, hi \in DOMAIN chunk.bytes : HexPlaces(m, chunk, o, lo, hi)
    BY <2>4, <2>7, <2>10, HexReads
  <2>12. /\ m.start = chunk.base + lo /\ m.len = hi + 1 - lo
         /\ lo <= o /\ o <= hi /\ m.data[o - lo] = chunk.bytes[o]
    BY <2>11 DEF HexPlaces
  <2>13. lo \in Nat /\ hi \in Nat
    BY <2>4, <2>12 DEF HexChunkIs
  <2>14. /\ m.start \in Int /\ m.len \in Int /\ s.a \in Int /\ CanResolve(m, s.a)
         /\ s.a - m.start = o - lo
    <3>1. m.start \in Int /\ m.len \in Int /\ s.a \in Int /\ s.a - m.start = o - lo
      BY <2>7, <2>8, <2>12, <2>13
    <3>2. s.a >= m.start /\ s.a < m.start + m.len
      BY <2>7, <2>8, <2>12, <2>13
    <3> QED
      BY <3>1, <3>2 DEF CanResolve
  <2>15. m \in segs /\ m.data[s.a - m.start] = s.b
    BY <1>10, <2>3, <2>9, <2>8, <2>12, <2>14
  <2>16. ASSUME NEW q \in segs, CanResolve(q, s.a) PROVE q = m
    <3>1. PICK d \in DOMAIN chunks : q = Made(d)
      BY <1>10
    <3> QED
      BY <1>8, <2>3, <2>14, <2>16, <3>1
  <2> QED
    BY <2>14, <2>15, <2>16, HoldsThere
<1> QED
  BY <1>11

-----------------------------------------------------------------------------
(* What is in the project once an S file has been loaded *)

LEMMA S19MadeIs ==
    ASSUME NEW lines, NEW n, NEW b, NEW c, S19ChunkIs(lines, n, b, c),
           NEW m, m = S19SegmentOf(c)
    PROVE  /\ m.start = c.base /\ m.len = c.hi + 1 /\ DOMAIN m.data = 0 .. c.hi
           /\ \A o \in 0 .. c.hi : m.data[o] = IF o \in DOMAIN c.bytes THEN c.bytes[o] ELSE Unset
<1>1. c.base \in Nat /\ c.hi \in Nat
  BY DEF S19ChunkIs
<1> DEFINE buffer == [i \in 0 .. c.hi |-> IF i \in DOMAIN c.bytes THEN c.bytes[i] ELSE Unset]
<1> PICK len : len = c.hi + 1
  OBVIOUS
<1>2. m = Segment(c.base, len, buffer, len)
  BY DEF S19SegmentOf
<1>3. len > 0 /\ 0 .. len - 1 = 0 .. c.hi /\ \A i \in 0 .. c.hi : i < len
  BY <1>1
<1>4. m.start = c.base /\ m.len = len
      /\ m.data = [i \in 0 .. len - 1 |-> IF i < len THEN buffer[i] ELSE 0]
  <2> HIDE DEF buffer
  <2> QED
    BY <1>2, <1>3 DEF Segment
<1>5. DOMAIN m.data = 0 .. c.hi /\ \A i \in 0 .. c.hi : m.data[i] = buffer[i]
  <2> HIDE DEF buffer
  <2> QED
    BY <1>3, <1>4
<1> QED
  BY <1>4, <1>5

\* A byte that has been pushed is one the records say, and the other way round.
AllSaid(lines, zero) == UNION {Said(lines, zero, i) : i \in DataLines(lines, {1, 2, 3})}

IsPushed(lines, n, b, s) ==
    \E p \in Pushed(lines, n, b) : s = [a |-> PlaceOfByte(lines, p), b |-> ByteAt(lines, p)]

LEMMA PushedIsSaid ==
    ASSUME NEW lines, NEW n \in Nat, DOMAIN lines = 1 .. n,
           \A j \in 1 .. n : lines[j].addr \in Nat /\ lines[j].data \in Seq(Nat),
           NEW b \in Nat, n > 0 /\ S19Data(lines[n]) => b = Len(lines[n].data),
           NEW zero, zero = [i \in DOMAIN lines |-> 0]
    PROVE  \A s : s \in AllSaid(lines, zero) <=> IsPushed(lines, n, b, s)
<1> DEFINE saids == UNION {Said(lines, zero, i) : i \in DataLines(lines, {1, 2, 3})}
<1>1. DataLines(lines, {1, 2, 3}) = {i \in 1 .. n : S19Data(lines[i])}
  BY DEF DataLines, S19Data
<1>2. ASSUME NEW i \in 1 .. n, NEW k \in DOMAIN lines[i].data
      PROVE  /\ zero[i] + lines[i].addr + k - 1 = lines[i].addr + k - 1
             /\ k \in Nat /\ k <= Len(lines[i].data)
  <2>1. lines[i].addr \in Nat /\ lines[i].data \in Seq(Nat) /\ zero[i] = 0
    OBVIOUS
  <2>2. k \in Nat /\ k <= Len(lines[i].data)
    BY <2>1, LenProperties
  <2> QED
    BY <2>1, <2>2
<1>3. ASSUME NEW s \in saids
      PROVE  \E p \in Pushed(lines, n, b) : s = [a |-> PlaceOfByte(lines, p), b |-> ByteAt(lines, p)]
  <2>1. PICK i \in DataLines(lines, {1, 2, 3}) : s \in Said(lines, zero, i)
    OBVIOUS
  <2>2. PICK k \in DOMAIN lines[i].data :
            s = [a |-> zero[i] + lines[i].addr + k - 1, b |-> lines[i].data[k]]
    BY <2>1 DEF Said
  <2>3. i \in 1 .. n /\ S19Data(lines[i])
    BY <1>1
  <2> PICK p : p = <<i, k>>
    OBVIOUS
  <2>4. p \in Pushed(lines, n, b)
    <3>1. k \in Nat /\ (i = n => k <= b)
      BY <1>2, <2>3
    <3> QED
      BY <2>3, <3>1 DEF Pushed
  <2>5. s = [a |-> PlaceOfByte(lines, p), b |-> ByteAt(lines, p)]
    BY <1>2, <2>2, <2>3 DEF PlaceOfByte, ByteAt
  <2> QED
    BY <2>4, <2>5
<1>4. ASSUME NEW p \in Pushed(lines, n, b)
      PROVE  [a |-> PlaceOfByte(lines, p), b |-> ByteAt(lines, p)] \in saids
  <2> PICK i, k : i = p[1] /\ k = p[2]
    OBVIOUS
  <2>1. i \in 1 .. n /\ S19Data(lines[i]) /\ k \in DOMAIN lines[i].data
    BY DEF Pushed
  <2>2. [a |-> PlaceOfByte(lines, p), b |-> ByteAt(lines, p)]
            = [a |-> zero[i] + lines[i].addr + k - 1, b |-> lines[i].data[k]]
    BY <1>2, <2>1 DEF PlaceOfByte, ByteAt
  <2>3. [a |-> zero[i] + lines[i].addr + k - 1, b |-> lines[i].data[k]] \in Said(lines, zero, i)
    BY <2>1 DEF Said
  <2>4. i \in DataLines(lines, {1, 2, 3})
    BY <1>1, <2>1
  <2> QED
    BY <2>2, <2>3, <2>4
<1> QED
  BY <1>3, <1>4 DEF AllSaid, IsPushed

LEMMA S19Kept ==
    ASSUME Asked, Typed, TextRead
    PROVE  S19ImageKept
<1> SUFFICES ASSUME phase = "accepted", Chosen = "S19", Ascending(Lines(file))
             PROVE  LET said == AllSaid(Lines(file), [i \in DOMAIN Lines(file) |-> 0])
                    IN  /\ \A s \in said : Holds(s.a, s.b)
                        /\ \A m \in segs : \A o \in DOMAIN m.data :
                              m.data[o] # Unset => [a |-> m.start + o, b |-> m.data[o]] \in said
  BY DEF S19ImageKept, AllSaid
<1> PICK lines : lines = Lines(file)
  OBVIOUS
<1> PICK n : n = Len(file.lines)
  OBVIOUS
<1> PICK zero : zero = [i \in DOMAIN lines |-> 0]
  OBVIOUS
<1> PICK said : said = AllSaid(lines, zero)
  OBVIOUS
<1>1. file \in Files /\ IsText(file) /\ IsTextLoad
  BY TextIs DEF IsTextLoad
<1>2. /\ n \in Nat /\ DOMAIN lines = 1 .. n /\ byte \in Nat
      /\ \A j \in 1 .. n : lines[j].addr \in Nat /\ lines[j].data \in Seq(Nat)
  BY <1>1, LinesAre DEF Typed
<1>3. Adding /\ ReadSoFar /\ line = n /\ byte = Len(LastData)
  BY <1>1 DEF TextRead, Adding
<1>4. S19RunIs(lines, n, byte, chunks)
  BY <1>3 DEF ReadSoFar
<1>5. n > 0 /\ S19Data(lines[n]) => byte = Len(lines[n].data)
  BY <1>3 DEF LastData
<1>6. \A s : s \in said <=> \E p \in Pushed(lines, n, byte) :
                               s = [a |-> PlaceOfByte(lines, p), b |-> ByteAt(lines, p)]
  <2>1. n \in Nat /\ DOMAIN lines = 1 .. n /\ byte \in Nat
    BY <1>2
  <2>2. \A j \in 1 .. n : lines[j].addr \in Nat /\ lines[j].data \in Seq(Nat)
    BY <1>2
  <2>3. \A s : s \in AllSaid(lines, zero) <=> IsPushed(lines, n, byte, s)
    BY <1>5, <2>1, <2>2, PushedIsSaid
  <2> QED
    BY <2>3 DEF IsPushed
<1>7. ASSUME NEW c \in DOMAIN chunks
      PROVE  /\ S19ChunkIs(lines, n, byte, chunks[c])
             /\ chunks[c].base \in Nat /\ chunks[c].hi \in Nat
             /\ chunks[c].last = chunks[c].base + chunks[c].hi
             /\ DOMAIN chunks[c].bytes \subseteq 0 .. chunks[c].hi
             /\ Made(c).start = chunks[c].base /\ Made(c).len = chunks[c].hi + 1
             /\ DOMAIN Made(c).data = 0 .. chunks[c].hi
             /\ \A o \in 0 .. chunks[c].hi :
                   Made(c).data[o] = IF o \in DOMAIN chunks[c].bytes THEN chunks[c].bytes[o] ELSE Unset
  <2>1. S19ChunkIs(lines, n, byte, chunks[c])
    BY <1>4 DEF S19RunIs
  <2>2. Made(c) = S19SegmentOf(chunks[c])
    BY DEF Made
  <2>3. /\ chunks[c].base \in Nat /\ chunks[c].hi \in Nat
        /\ chunks[c].last = chunks[c].base + chunks[c].hi
        /\ DOMAIN chunks[c].bytes \subseteq 0 .. chunks[c].hi
    BY <2>1 DEF S19ChunkIs
  <2> QED
    BY <2>1, <2>2, <2>3, S19MadeIs
<1>8. ASSUME NEW c \in DOMAIN chunks, NEW d \in DOMAIN chunks, c # d
      PROVE  /\ Made(c).start # Made(d).start
             /\ \A a \in Int : ~(CanResolve(Made(c), a) /\ CanResolve(Made(d), a))
  <2>1. c \in Nat /\ d \in Nat
    BY ListIs DEF Typed
  <2>2. chunks[c].last < chunks[d].base \/ chunks[d].last < chunks[c].base
    <3>1. c < d \/ d < c
      BY <1>8, <2>1
    <3> QED
      BY <1>4, <3>1 DEF S19RunIs
  <2>3. /\ chunks[c].base \in Nat /\ chunks[c].hi \in Nat /\ chunks[d].base \in Nat /\ chunks[d].hi \in Nat
        /\ \/ chunks[c].base + chunks[c].hi < chunks[d].base
           \/ chunks[d].base + chunks[d].hi < chunks[c].base
    BY <1>7, <2>2
  <2>4. /\ Made(c).start = chunks[c].base /\ Made(c).len = chunks[c].hi + 1
        /\ Made(d).start = chunks[d].base /\ Made(d).len = chunks[d].hi + 1
    BY <1>7
  <2> PICK i \in Nat, k \in Nat : i = chunks[c].base /\ k = chunks[c].hi
    BY <2>3
  <2> PICK x \in Nat, y \in Nat : x = chunks[d].base /\ y = chunks[d].hi
    BY <2>3
  <2>5. i + k < x \/ x + y < i
    BY <2>3
  <2>6. Made(c).start # Made(d).start
    BY <2>4, <2>5
  <2>7. ASSUME NEW a \in Int PROVE ~(CanResolve(Made(c), a) /\ CanResolve(Made(d), a))
    <3>1. /\ CanResolve(Made(c), a) <=> a >= i /\ a < i + (k + 1)
          /\ CanResolve(Made(d), a) <=> a >= x /\ a < x + (y + 1)
      BY <2>4 DEF CanResolve
    <3>2. ~((a >= i /\ a < i + (k + 1)) /\ (a >= x /\ a < x + (y + 1)))
      BY ONLY <2>5, a \in Int, i \in Nat, k \in Nat, x \in Nat, y \in Nat
    <3> QED
      BY <3>1, <3>2
  <2> QED
    BY <2>6, <2>7
<1>9. OneEach
  BY <1>8 DEF OneEach
<1>10. /\ \A c \in DOMAIN chunks : Made(c) \in segs
       /\ \A m \in segs : \E c \in DOMAIN chunks : m = Made(c)
  BY <1>3, <1>9, AllAdded
<1>11. ASSUME NEW s \in said PROVE Holds(s.a, s.b)
  <2>1. PICK p \in Pushed(lines, n, byte) : s.a = PlaceOfByte(lines, p) /\ s.b = ByteAt(lines, p)
    BY <1>6
  <2>2. PICK c \in DOMAIN chunks : \E o \in DOMAIN chunks[c].bytes :
            chunks[c].base + o = s.a /\ chunks[c].bytes[o] = s.b
    BY <1>4, <2>1 DEF S19RunIs
  <2>3. PICK o \in DOMAIN chunks[c].bytes : chunks[c].base + o = s.a /\ chunks[c].bytes[o] = s.b
    BY <2>2
  <2> PICK m : m = Made(c)
    OBVIOUS
  <2>4. /\ chunks[c].base \in Nat /\ chunks[c].hi \in Nat /\ o \in 0 .. chunks[c].hi
        /\ m.start = chunks[c].base /\ m.len = chunks[c].hi + 1 /\ m.data[o] = s.b
    BY <1>7, <2>3
  <2>5. /\ m.start \in Int /\ m.len \in Int /\ s.a \in Int /\ s.a - m.start = o
        /\ s.a >= m.start /\ s.a < m.start + m.len
    BY <2>3, <2>4
  <2>6. CanResolve(m, s.a)
    BY <2>5 DEF CanResolve
  <2>7. ASSUME NEW q \in segs, CanResolve(q, s.a) PROVE q = m
    <3>1. PICK d \in DOMAIN chunks : q = Made(d)
      BY <1>10
    <3> QED
      BY <1>8, <2>5, <2>6, <2>7, <3>1
  <2> QED
    BY <1>10, <2>4, <2>5, <2>6, <2>7, HoldsThere
<1>12. ASSUME NEW m \in segs, NEW o \in DOMAIN m.data, m.data[o] # Unset
       PROVE  [a |-> m.start + o, b |-> m.data[o]] \in said
  <2>1. PICK c \in DOMAIN chunks : m = Made(c)
    BY <1>10
  <2>2. o \in DOMAIN chunks[c].bytes /\ m.data[o] = chunks[c].bytes[o] /\ m.start = chunks[c].base
    BY <1>7, <1>12, <2>1
  <2>3. PICK p \in Pushed(lines, n, byte) :
            chunks[c].base + o = PlaceOfByte(lines, p) /\ chunks[c].bytes[o] = ByteAt(lines, p)
    BY <1>7, <2>2 DEF S19ChunkIs
  <2>4. [a |-> m.start + o, b |-> m.data[o]] = [a |-> PlaceOfByte(lines, p), b |-> ByteAt(lines, p)]
    BY <2>2, <2>3
  <2> QED
    BY <1>6, <2>4
<1> QED
  BY <1>11, <1>12

\* Once a hex file whose runs lie apart, or an S file whose addresses ascend,
\* has been loaded, each address of its records reads as the last record for it
\* says, whatever the lines, their order and the distances between them
\* (HexSegment::setData, S19Segment::setData, S19File::pushData).
THEOREM TextImageTheorem == Spec => []TextImageKept
<1> DEFINE Inv == Asked /\ Typed /\ Untouched /\ TextRead
<1>1. Init => Inv
  BY AskedInit, TypedInit, TextInit DEF Init, Untouched
<1>2. Inv /\ [Next]_vars => Inv'
  BY AskedStep, TypedStep, UntouchedStep, TextStep
<1>3. Inv => TextImageKept
  BY HexKept, S19Kept DEF TextImageKept
<1> QED
  BY <1>1, <1>2, <1>3, PTL DEF Spec

-----------------------------------------------------------------------------
(* Arithmetic of ELF images and relocations *)

\* Quotient and remainder are what they are.
LEMMA DivModIs ==
    ASSUME NEW x \in Int, NEW m \in Nat, m > 0, NEW q \in Int, NEW r \in Int,
           x = q * m + r, 0 <= r, r < m
    PROVE  x % m = r /\ x \div m = q
  BY SMT

LEMMA DivMod ==
    ASSUME NEW x \in Int, NEW m \in Nat, m > 0
    PROVE  /\ x \div m \in Int /\ x % m \in Nat /\ x % m < m
           /\ x = (x \div m) * m + (x % m)
  BY SMT

LEMMA RoundUpIs ==
    ASSUME NEW n \in Nat, NEW a \in Nat \ {0}
    PROVE  /\ RoundUp(n, a) \in Nat /\ n <= RoundUp(n, a)
           /\ \A s \in Nat : s % a = 0 => RoundUp(n + s, a) = RoundUp(n, a) + s
           /\ \A k \in Nat : k <= n => RoundUp(k, a) <= RoundUp(n, a)
<1> DEFINE q(k) == (k + a - 1) \div a
<1>1. ASSUME NEW k \in Nat
      PROVE  q(k) \in Nat /\ k <= q(k) * a /\ q(k) * a < k + a /\ RoundUp(k, a) = q(k) * a
  <2>1. k + a - 1 \in Nat
    OBVIOUS
  <2>2. /\ q(k) \in Int /\ (k + a - 1) % a \in Nat /\ (k + a - 1) % a < a
        /\ k + a - 1 = q(k) * a + ((k + a - 1) % a)
    <3> HIDE DEF q
    <3> QED
      BY <2>1, DivMod DEF q
  <2>3. q(k) \in Nat
    BY <2>1
  <2> HIDE DEF q
  <2>4. q(k) * a \in Nat
    BY <2>3
  <2>5. RoundUp(k, a) = q(k) * a
    BY DEF RoundUp, q
  <2> PICK r \in Nat : r = (k + a - 1) % a
    BY <2>2
  <2> QED
    BY <2>2, <2>3, <2>4, <2>5
<1> HIDE DEF q
<1>2. ASSUME NEW s \in Nat, s % a = 0
      PROVE  RoundUp(n + s, a) = RoundUp(n, a) + s
  <2> PICK t \in Int : t = s \div a /\ s = t * a
    BY <1>2, DivMod
  <2>1. n + a - 1 \in Int /\ n + s + a - 1 \in Int
    OBVIOUS
  <2> PICK r \in Nat : r < a /\ n + a - 1 = q(n) * a + r
    BY <2>1, DivMod DEF q
  <2>2. q(n) \in Int /\ q(n) + t \in Int
    BY <1>1
  <2>3. n + s + a - 1 = (q(n) + t) * a + r
    BY <2>2
  <2>4. (n + s + a - 1) \div a = q(n) + t
    BY <2>1, <2>2, <2>3, DivModIs
  <2>5. (q(n) + t) * a = q(n) * a + s
    BY <2>2
  <2> QED
    BY <1>1, <2>2, <2>4, <2>5 DEF RoundUp
<1>3. ASSUME NEW k \in Nat, k <= n
      PROVE  RoundUp(k, a) <= RoundUp(n, a)
  <2>1. q(k) <= q(n)
    <3>1. SUFFICES ASSUME q(k) > q(n) PROVE FALSE
      BY <1>1
    <3>2. q(k) >= q(n) + 1 /\ q(k) \in Nat /\ q(n) \in Nat
      BY <1>1, <3>1
    <3>3. q(k) * a >= (q(n) + 1) * a
      BY <3>2
    <3>4. (q(n) + 1) * a = q(n) * a + a
      BY <3>2
    <3>5. q(k) * a < k + a /\ n <= q(n) * a /\ q(k) * a \in Nat /\ q(n) * a \in Nat
      BY <1>1
    <3> QED
      BY <1>3, <3>3, <3>4, <3>5
  <2>2. q(k) * a <= q(n) * a
    BY <1>1, <2>1
  <2> QED
    BY <1>1, <2>2
<1> QED
  BY <1>1, <1>2, <1>3

LEMMA InsertIs ==
    ASSUME NEW word \in Nat, NEW v \in Int, NEW n \in Nat \ {0}
    PROVE  Insert(word, v, n) % n = v % n
<1>1. v % n \in Nat /\ v % n < n
  BY DivMod
<1> PICK q \in Int, r \in Nat : word = q * n + r /\ r = word % n
  BY DivMod
<1> PICK b \in Nat : b = v % n /\ b < n
  BY <1>1
<1>2. Insert(word, v, n) = word - r + b
  BY DEF Insert
<1> PICK w \in Int : w = q * n + b
  OBVIOUS
<1>3. Insert(word, v, n) = w
  BY <1>2
<1>4. w % n = b
  BY DivModIs
<1> QED
  BY <1>3, <1>4

LEMMA WordIs ==
    /\ Imm24 \in Nat /\ Imm24 % 4 = 0 /\ Imm24 > 0 /\ WordMod \in Nat
    /\ \E c \in Nat \ {0} : Base = 4 * c /\ WordMod = 4 * (c * Imm24)
<1>1. PICK c \in Int : Base = 4 * c
  BY WordAssumption, DivMod
<1>2. c \in Nat \ {0}
  BY <1>1, WordAssumption
<1> PICK I \in Nat : I = Imm24 /\ I = Base * Base * Base
  BY WordAssumption DEF Imm24
<1>3. I = 4 * (c * Base * Base) /\ c * Base * Base \in Nat \ {0}
  BY <1>1, <1>2
<1>4. WordMod = 4 * (c * I)
  BY <1>1, <1>2 DEF WordMod
<1>5. c * I \in Nat
  BY <1>2
<1> QED
  BY <1>1, <1>2, <1>3, <1>4, <1>5


\* What is put into a word, and what is got out of it again.
LEMMA InWord ==
    ASSUME NEW w \in Int, NEW v \in Int
    PROVE  /\ Relocated("PC24", w, v) = Insert(w, v \div 4, Imm24)
           /\ Relocated("REL32", w, v) = v
           /\ Extracted("REL32", w) = w
           /\ (w % Imm24) * 4 < 2 * Imm24 => Extracted("PC24", w) = (w % Imm24) * 4
           /\ (w % Imm24) * 4 >= 2 * Imm24 =>
                Extracted("PC24", w) = (w % Imm24) * 4 + WordMod - 4 * Imm24
<1>1. Relocated("PC24", w, v) = Insert(w, v \div 4, Imm24) /\ Relocated("REL32", w, v) = v
  BY Zenon DEF Relocated
<1>2. Extracted("REL32", w) = w
  BY Zenon DEF Extracted
<1>3. Extracted("PC24", w) = IF (w % Imm24) * 4 >= 2 * Imm24
                             THEN (w % Imm24) * 4 + WordMod - 4 * Imm24
                             ELSE (w % Imm24) * 4
  BY Zenon DEF Extracted
<1>4. w % Imm24 \in Nat /\ Imm24 \in Nat
  BY DivMod, WordIs
<1> QED
  BY <1>1, <1>2, <1>3, <1>4

LEMMA BranchReaches ==
    ASSUME NEW word \in Nat, NEW d \in 0 .. WordMod - 1,
           d % 4 = 0, d < 2 * Imm24 \/ d >= WordMod - 2 * Imm24
    PROVE  Extracted("PC24", Relocated("PC24", word, d)) = d
<1> PICK I \in Nat : I = Imm24 /\ I > 0
  BY WordIs
<1> PICK c \in Nat \ {0} : WordMod = 4 * (c * I)
  BY WordIs
<1> PICK J \in Int : J = c * I /\ (c - 1) * I = J - I
  OBVIOUS
<1> PICK k \in Int : k = d \div 4 /\ d = 4 * k
  BY DivMod, WordIs
<1> PICK w : w = Insert(word, k, I)
  OBVIOUS
<1>1. w % I = k % I /\ w = Relocated("PC24", word, d) /\ w \in Int
  <2>1. w \in Int
    BY DivMod DEF Insert
  <2>2. w % I = k % I
    BY InsertIs
  <2>3. Relocated("PC24", word, d) = Insert(word, d \div 4, Imm24) /\ I = Imm24 /\ k = d \div 4
    BY InWord
  <2> QED
    BY <2>1, <2>2, <2>3
<1>2. CASE d < 2 * I
  <2>1. k = 0 * I + k /\ 0 <= k /\ k < I
    BY <1>2
  <2>2. k % I = k
    BY <2>1, DivModIs
  <2>3. (w % I) * 4 = d
    BY <1>1, <2>2
  <2> QED
    BY <1>1, <1>2, <2>3, InWord
<1>3. CASE d >= WordMod - 2 * I
  <2> PICK e \in Int : e = J - k /\ WordMod = 4 * J
    OBVIOUS
  <2>1. 0 < e /\ 2 * e <= I
    BY <1>3
  <2> PICK q \in Int : q = c - 1 /\ q * I = J - I
    OBVIOUS
  <2> PICK r \in Int : r = I - e
    OBVIOUS
  <2>2. k = q * I + r /\ 0 <= r /\ r < I /\ k \in Int /\ I \in Nat /\ I > 0 /\ q \in Int
    BY <2>1
  <2>3. k % I = I - e
    <3>1. k % I = r
      BY ONLY <2>2, DivModIs
    <3> QED
      BY <3>1
  <2>4. (w % I) * 4 = 4 * I - 4 * e
    BY <1>1, <2>3
  <2>5. 4 * I - 4 * e >= 2 * I /\ 4 * I - 4 * e + WordMod - 4 * I = d
    BY <2>1
  <2>6. (w % Imm24) * 4 >= 2 * Imm24
    BY <2>4, <2>5
  <2>7. Extracted("PC24", w) = (w % Imm24) * 4 + WordMod - 4 * Imm24
    BY ONLY <1>1, <2>6, InWord, d \in Int
  <2> QED
    BY <1>1, <2>4, <2>5, <2>7
<1> QED
  BY <1>2, <1>3

-----------------------------------------------------------------------------
(* The layout of an ELF image.  The two passes round differently: the size   *)
(* after each section, which the loader does not keep, bounds what has been  *)
(* placed up to there.                                                       *)

SizesAre(f, ns, n) ==
    /\ ns \in [0 .. n -> Nat] /\ ns[0] = 0
    /\ \A i \in 1 .. n : ns[i] = Measured(ns[i - 1], f.sections[i])
    /\ \A i \in 0 .. n : ns[i] <= ns[n]

PlacedIn(f, n) == {j \in 1 .. n : Placed(f.sections[j])}

\* The first n sections have their places, one behind the other.
LaidOut(f, e, n) ==
    /\ e.size \in Nat /\ e.end \in Nat /\ e.host \in Nat
    /\ IsList(e.at) /\ Len(e.at) = n
    /\ DOMAIN e.image = 0 .. e.size - 1
    /\ \A j \in PlacedIn(f, n) : e.at[j] \in Nat /\ e.at[j] + f.sections[j].size <= e.end
    /\ \A j, k \in PlacedIn(f, n) : j < k => e.at[j] + f.sections[j].size <= e.at[k]
    /\ \E ns : /\ SizesAre(f, ns, Len(f.sections)) /\ ns[Len(f.sections)] = e.size
               /\ Padded(f.sections) => e.end <= ns[n]

\* Words of the first n sections are in the image, but for some that changed.
WordsKept(f, e, n, changed) ==
    \A j \in PlacedIn(f, n) : f.sections[j].type = "progbits" =>
        \A o \in DOMAIN f.sections[j].words :
            e.at[j] + o \in changed \/ e.image[e.at[j] + o] = f.sections[j].words[o]

LEMMA ElfFileIs ==
    ASSUME NEW f \in Files, f.kind = "elf"
    PROVE  /\ IsElf(f) /\ Len(f.sections) \in Nat /\ DOMAIN f.sections = 1 .. Len(f.sections)
           /\ \A i \in 1 .. Len(f.sections) : IsSection(f.sections[i])
<1>1. IsElf(f)
  BY FilesAssumption
<1> QED
  BY <1>1, ListIs DEF IsElf

LEMMA MeasuredIs ==
    ASSUME NEW n \in Nat, NEW s, IsSection(s)
    PROVE  /\ Measured(n, s) \in Nat /\ n <= Measured(n, s)
           /\ \A k \in Nat : k <= n /\ Placed(s) /\ s.size % Boundary(s) = 0 =>
                  PlaceOf(k, s) + s.size <= Measured(n, s)
           /\ \A k \in Nat : PlaceOf(k, s) \in Nat /\ k <= PlaceOf(k, s)
<1> PICK a \in Nat \ {0}, z \in Nat : a = Boundary(s) /\ z = s.size
  BY DEF IsSection
<1>1. /\ RoundUp(n + z, a) \in Nat /\ n + z <= RoundUp(n + z, a)
      /\ z % a = 0 => RoundUp(n + z, a) = RoundUp(n, a) + z
      /\ RoundUp(n, a) \in Nat
  <2>1. RoundUp(n, a) \in Nat /\ \A x \in Nat : x % a = 0 => RoundUp(n + x, a) = RoundUp(n, a) + x
    BY RoundUpIs
  <2> PICK k \in Nat : k = n + z
    OBVIOUS
  <2>2. RoundUp(k, a) \in Nat /\ k <= RoundUp(k, a)
    BY RoundUpIs
  <2> QED
    BY <2>1, <2>2
<1>2. \A k \in Nat : /\ RoundUp(k, a) \in Nat /\ k <= RoundUp(k, a)
                     /\ k <= n => RoundUp(k, a) <= RoundUp(n, a)
  <2>1. ASSUME NEW k \in Nat PROVE RoundUp(k, a) \in Nat /\ k <= RoundUp(k, a)
    BY RoundUpIs
  <2>2. \A k \in Nat : k <= n => RoundUp(k, a) <= RoundUp(n, a)
    BY RoundUpIs
  <2> QED
    BY <2>1, <2>2
<1>3. \A k : PlaceOf(k, s) = RoundUp(k, a)
  BY DEF PlaceOf
<1>4. Measured(n, s) = IF InMemory(s) THEN RoundUp(n + z, a) ELSE n
  BY DEF Measured
<1>5. Measured(n, s) \in Nat /\ n <= Measured(n, s)
  BY <1>1, <1>4
<1>6. ASSUME NEW k \in Nat, k <= n, Placed(s), s.size % Boundary(s) = 0
      PROVE  PlaceOf(k, s) + s.size <= Measured(n, s)
  <2>1. Measured(n, s) = RoundUp(n, a) + z /\ RoundUp(k, a) <= RoundUp(n, a) /\ RoundUp(k, a) \in Nat
    BY <1>1, <1>2, <1>4, <1>6 DEF Placed
  <2> QED
    BY <1>1, <1>3, <2>1
<1> QED
  BY <1>2, <1>3, <1>5, <1>6

LEMMA SizesGrow ==
    ASSUME NEW f, NEW n \in Nat, NEW ns, SizesAre(f, ns, n), IsSection(f.sections[n + 1])
    PROVE  \E ms : SizesAre(f, ms, n + 1) /\ ms[n + 1] = Measured(ns[n], f.sections[n + 1])
<1> PICK new : new = Measured(ns[n], f.sections[n + 1])
  OBVIOUS
<1> PICK ms : ms = [i \in 0 .. n + 1 |-> IF i = n + 1 THEN new ELSE ns[i]]
  OBVIOUS
<1>1. new \in Nat /\ ns[n] <= new /\ \A i \in 0 .. n : ns[i] \in Nat /\ ns[i] <= ns[n]
  <2>1. \A i \in 0 .. n : ns[i] \in Nat /\ ns[i] <= ns[n]
    BY DEF SizesAre
  <2>2. ns[n] \in Nat
    BY <2>1
  <2> QED
    BY <2>1, <2>2, MeasuredIs
<1>2. ms \in [0 .. n + 1 -> Nat] /\ ms[0] = 0 /\ ms[n + 1] = new /\ \A i \in 0 .. n : ms[i] = ns[i]
  BY <1>1 DEF SizesAre
<1>3. \A i \in 1 .. n + 1 : ms[i] = Measured(ms[i - 1], f.sections[i])
  <2>1. ASSUME NEW i \in 1 .. n PROVE ms[i] = Measured(ms[i - 1], f.sections[i])
    <3>1. i \in 0 .. n /\ i - 1 \in 0 .. n
      OBVIOUS
    <3> QED
      BY <1>2, <3>1 DEF SizesAre
  <2>2. ms[n + 1] = Measured(ms[n], f.sections[n + 1])
    BY <1>2
  <2>3. \A i \in 1 .. n + 1 : i \in 1 .. n \/ (i = n + 1 /\ i - 1 = n)
    OBVIOUS
  <2> QED
    BY <2>1, <2>2, <2>3
<1>4. \A i \in 0 .. n + 1 : ms[i] <= ms[n + 1]
  BY <1>1, <1>2
<1>5. SizesAre(f, ms, n + 1)
  BY <1>2, <1>3, <1>4 DEF SizesAre
<1> QED
  BY <1>2, <1>5

LEMMA PlaceKeeps ==
    ASSUME NEW f, IsElf(f), NEW n \in Nat, n < Len(f.sections), DOMAIN f.sections = 1 .. Len(f.sections),
           Len(f.sections) \in Nat, NEW e, IsElfState(e), LaidOut(f, e, n)
    PROVE  /\ LaidOut(f, WithSection(e, f.sections[n + 1]), n + 1)
           /\ Padded(f.sections) /\ WordsKept(f, e, n, {}) =>
                  WordsKept(f, WithSection(e, f.sections[n + 1]), n + 1, {})
<1> PICK N \in Nat : N = Len(f.sections)
  OBVIOUS
<1> PICK s : s = f.sections[n + 1]
  OBVIOUS
<1> PICK d : d = WithSection(e, s)
  OBVIOUS
<1> PICK ns : /\ SizesAre(f, ns, N) /\ ns[N] = e.size
              /\ Padded(f.sections) => e.end <= ns[n]
  BY DEF LaidOut
<1> PICK at : at = PlaceOf(e.end, s)
  OBVIOUS
<1>1. IsSection(s) /\ n + 1 \in 1 .. N /\ n \in 0 .. N
  BY DEF IsElf
<1>2. /\ ns[n] \in Nat /\ ns[n + 1] = Measured(ns[n], s) /\ ns[n + 1] <= e.size /\ e.size \in Nat
      /\ ns[n + 1] \in Nat /\ ns[n] <= ns[n + 1]
  <2>0. n + 1 \in 0 .. N /\ (n + 1) - 1 = n
    BY <1>1
  <2>1. ns[n] \in Nat /\ ns[n + 1] \in Nat /\ ns[n + 1] <= ns[N]
    BY <1>1, <2>0 DEF SizesAre
  <2>3. ns[n + 1] = Measured(ns[(n + 1) - 1], f.sections[n + 1])
    BY <1>1 DEF SizesAre
  <2>4. ns[n + 1] = Measured(ns[n], s)
    BY <2>0, <2>3
  <2>2. ns[n] <= Measured(ns[n], s)
    BY <1>1, <2>1, MeasuredIs
  <2> QED
    BY <2>1, <2>2, <2>4 DEF LaidOut
<1>3. at \in Nat /\ e.end \in Nat /\ e.end <= at /\ s.size \in Nat
  BY <1>1, MeasuredIs DEF LaidOut, IsSection
<1>4. Placed(s) /\ Padded(f.sections) => at + s.size <= ns[n + 1]
  <2>1. ASSUME Placed(s), Padded(f.sections)
        PROVE  e.end <= ns[n] /\ s.size % Boundary(s) = 0
    BY <1>1, <2>1 DEF Padded, Placed
  <2>2. ASSUME NEW x \in Nat, NEW k \in Nat, k <= x, Placed(s), s.size % Boundary(s) = 0
        PROVE  PlaceOf(k, s) + s.size <= Measured(x, s)
    BY <1>1, <2>2, MeasuredIs
  <2>3. ASSUME Placed(s), Padded(f.sections)
        PROVE  PlaceOf(e.end, s) + s.size <= Measured(ns[n], s)
    BY <1>2, <1>3, <2>1, <2>2, <2>3
  <2> QED
    BY <1>2, <2>3
<1> PICK place : place = IF Placed(s) THEN at ELSE s.addr
  OBVIOUS
<1>5. /\ d.size = e.size /\ d.host = e.host /\ d.at = Append(e.at, place)
      /\ d.end = IF Placed(s) THEN at + s.size ELSE e.end
      /\ d.image = IF Placed(s) THEN WithWords(e.image, s, at) ELSE e.image
  <2>1. CASE Placed(s)
    BY <2>1 DEF WithSection, IsElfState
  <2>2. CASE ~Placed(s)
    BY <2>2 DEF WithSection, IsElfState
  <2> QED
    BY <2>1, <2>2
<1>6. /\ IsList(d.at) /\ Len(d.at) = n + 1 /\ d.at[n + 1] = place
      /\ \A j \in 1 .. n : d.at[j] = e.at[j]
  <2>1. IsList(e.at) /\ Len(e.at) = n
    BY DEF LaidOut
  <2>2. DOMAIN e.at = 1 .. n
    BY <2>1, ListIs
  <2> QED
    BY <1>5, <2>1, <2>2, AppendIs
<1>7. /\ \A j \in PlacedIn(f, n + 1) : j \in PlacedIn(f, n) \/ (j = n + 1 /\ Placed(s))
      /\ \A j \in PlacedIn(f, n) : j \in 1 .. n /\ j < n + 1
  BY DEF PlacedIn
<1>8. DOMAIN d.image = 0 .. d.size - 1
  BY <1>5 DEF WithWords, LaidOut
<1>9. \A j \in PlacedIn(f, n) : /\ e.at[j] \in Nat /\ d.at[j] = e.at[j] /\ f.sections[j].size \in Nat
                                /\ e.at[j] + f.sections[j].size <= e.end
  <2>1. \A j \in PlacedIn(f, n) : j \in 1 .. N /\ IsSection(f.sections[j])
    BY <1>7 DEF IsElf
  <2> QED
    BY <1>6, <1>7, <2>1 DEF LaidOut, IsSection
<1>10. \A j \in PlacedIn(f, n + 1) : d.at[j] \in Nat /\ d.at[j] + f.sections[j].size <= d.end
  <2>1. e.end <= d.end /\ d.end \in Nat
    BY <1>3, <1>5
  <2>2. ASSUME NEW j \in PlacedIn(f, n)
        PROVE  d.at[j] \in Nat /\ d.at[j] + f.sections[j].size <= d.end
    <3> PICK b \in Nat, z \in Nat : b = d.at[j] /\ z = f.sections[j].size /\ b + z <= e.end
      BY <1>9
    <3> PICK u \in Nat, v \in Nat : u = e.end /\ v = d.end /\ u <= v
      BY <1>3, <2>1
    <3>1. b + z <= v
      BY ONLY b \in Nat, z \in Nat, u \in Nat, v \in Nat, b + z <= u, u <= v
    <3> QED
      BY <3>1
  <2>3. Placed(s) => d.at[n + 1] \in Nat /\ d.at[n + 1] + f.sections[n + 1].size <= d.end
    BY <1>3, <1>5, <1>6
  <2> QED
    BY <1>7, <2>2, <2>3
<1>11. \A j, k \in PlacedIn(f, n + 1) : j < k => d.at[j] + f.sections[j].size <= d.at[k]
  <2> SUFFICES ASSUME NEW j \in PlacedIn(f, n + 1), NEW k \in PlacedIn(f, n + 1), j < k
               PROVE  d.at[j] + f.sections[j].size <= d.at[k]
    OBVIOUS
  <2>1. j \in PlacedIn(f, n)
    BY <1>7 DEF PlacedIn
  <2>2. CASE k \in PlacedIn(f, n)
    BY <1>9, <2>1, <2>2 DEF LaidOut
  <2>3. CASE k = n + 1 /\ Placed(s)
    <3> PICK b \in Nat, z \in Nat : b = d.at[j] /\ z = f.sections[j].size /\ b + z <= e.end
      BY <1>9, <2>1
    <3>1. d.at[k] = at /\ e.end <= at /\ e.end \in Nat /\ at \in Nat
      BY <1>3, <1>6, <2>3
    <3> PICK u \in Nat : u = e.end /\ u <= at
      BY <3>1
    <3>2. b + z <= at
      BY ONLY b \in Nat, z \in Nat, u \in Nat, b + z <= u, u <= at, <3>1
    <3> QED
      BY <3>1, <3>2
  <2> QED
    BY <1>7, <2>2, <2>3
<1>12. Padded(f.sections) => d.end <= ns[n + 1]
  BY <1>2, <1>3, <1>4, <1>5
<1>13. LaidOut(f, d, n + 1)
  <2>1. d.size \in Nat /\ d.end \in Nat /\ d.host \in Nat
    BY <1>3, <1>5 DEF LaidOut
  <2> QED
    BY <1>5, <1>6, <1>8, <1>10, <1>11, <1>12, <2>1 DEF LaidOut
<1>14. ASSUME Padded(f.sections), WordsKept(f, e, n, {})
       PROVE  WordsKept(f, d, n + 1, {})
  <2> SUFFICES ASSUME NEW j \in PlacedIn(f, n + 1), f.sections[j].type = "progbits",
                      NEW o \in DOMAIN f.sections[j].words
               PROVE  d.image[d.at[j] + o] = f.sections[j].words[o]
    BY DEF WordsKept
  <2>1. j \in 1 .. N /\ IsSection(f.sections[j]) /\ Placed(f.sections[j])
    BY <1>1, <1>7 DEF IsElf, PlacedIn
  <2>2. o \in 0 .. f.sections[j].size - 1 /\ f.sections[j].size \in Nat
    BY <2>1 DEF IsSection
  <2> PICK a \in Nat : a = d.at[j]
    BY <1>10
  <2>3. a + o \in DOMAIN d.image
    <3> PICK z \in Nat : z = f.sections[j].size /\ a + z <= d.end
      BY <1>10, <2>2
    <3>5. d.end \in Nat /\ d.size \in Nat
      BY <1>13 DEF LaidOut
    <3>6. d.end <= ns[n + 1] /\ ns[n + 1] <= d.size /\ ns[n + 1] \in Nat
      BY <1>2, <1>5, <1>12, <1>14
    <3>1. d.end \in Nat /\ d.end <= d.size /\ d.size \in Nat
      BY ONLY <3>5, <3>6
    <3>2. 0 <= o /\ o < z /\ o \in Int
      BY <2>2
    <3> PICK u \in Nat, v \in Nat : u = d.end /\ v = d.size /\ u <= v
      BY <3>1
    <3> PICK x \in Int : x = o /\ 0 <= x /\ x < z
      BY <3>2
    <3>4. a + x \in 0 .. v - 1
      BY ONLY a \in Nat, z \in Nat, u \in Nat, v \in Nat, x \in Int, 0 <= x, x < z, a + z <= u, u <= v
    <3>3. a + o \in 0 .. d.size - 1
      BY <3>4
    <3> QED
      BY <1>8, <3>3
  <2>4. CASE j \in PlacedIn(f, n)
    <3>1. e.image[a + o] = f.sections[j].words[o]
      BY <1>9, <1>14, <2>4 DEF WordsKept
    <3>2. CASE Placed(s)
      <4>1. a + o < at
        <5> PICK z \in Nat : z = f.sections[j].size /\ a + z <= e.end
          BY <1>9, <2>4
        <5> PICK u \in Nat : u = e.end /\ u <= at /\ at \in Nat
          BY <1>3
        <5> PICK x \in Int : x = o /\ x < z
          BY <2>2
        <5>1. a + x < at
          BY ONLY a \in Nat, z \in Nat, u \in Nat, at \in Nat, x \in Int, x < z, a + z <= u, u <= at
        <5> QED
          BY <5>1
      <4>2. s.type = "progbits" => a + o - at \notin DOMAIN s.words
        <5>1. s.type = "progbits" => \A x \in DOMAIN s.words : x \in 0 .. s.size - 1
          BY <1>1, <3>2 DEF IsSection
        <5> PICK x \in Int, t \in Int : x = o /\ t = at
          BY <1>3, <2>2
        <5>2. a + o - at < 0 /\ a + o - at \in Int
          BY <4>1
        <5> PICK w \in Int : w = a + o - at /\ w < 0
          BY <5>2
        <5>3. w \notin 0 .. s.size - 1
          OBVIOUS
        <5> QED
          BY <5>1, <5>3
      <4>3. d.image = WithWords(e.image, s, at)
        BY <1>5, <3>2
      <4>4. a + o \in DOMAIN e.image
        BY <1>8, <2>3, <1>5, <4>3 DEF WithWords
      <4>5. d.image[a + o] = e.image[a + o]
        <5> PICK x : x = a + o
          OBVIOUS
        <5>3. x \in DOMAIN e.image
          BY <4>4
        <5> PICK i \in Int, t \in Int : i = o /\ t = at
          BY <1>3, <2>2
        <5>5. x - at = a + o - at
          OBVIOUS
        <5>4. s.type = "progbits" => x - at \notin DOMAIN s.words
          BY <4>2, <5>5
        <5>1. x \in DOMAIN e.image /\ (s.type = "progbits" => x - at \notin DOMAIN s.words)
          BY <5>3, <5>4
        <5>2. WithWords(e.image, s, at)[x] = e.image[x]
          BY <5>1 DEF WithWords
        <5> QED
          BY <4>3, <5>2
      <4> QED
        BY <3>1, <4>5
    <3> QED
      BY <1>5, <3>1, <3>2
  <2>5. CASE j = n + 1
    <3>1. Placed(s) /\ a = at /\ f.sections[j] = s
      BY <1>5, <1>6, <2>1, <2>5
    <3>2. (a + o) - at = o
      BY <2>2, <3>1
    <3>3. d.image = WithWords(e.image, s, at) /\ s.type = "progbits" /\ o \in DOMAIN s.words
      BY <1>5, <3>1
    <3>4. a + o \in DOMAIN e.image
      BY <2>3, <3>3 DEF WithWords
    <3>5. d.image[a + o] = s.words[o]
      BY <3>2, <3>3, <3>4 DEF WithWords
    <3> QED
      BY <3>1, <3>5
  <2> QED
    BY <1>7, <2>4, <2>5
<1> QED
  BY <1>13, <1>14

-----------------------------------------------------------------------------
(* Relocations of an ELF image *)

LEMMA WordModIs == WordMod \in Nat \ {0} /\ HalfMod \in Nat /\ Base \in Nat
<1> PICK c \in Nat \ {0} : Base = 4 * c /\ WordMod = 4 * (c * Imm24)
  BY WordIs
<1>1. c * Imm24 \in Nat \ {0}
  BY WordIs
<1> QED
  BY <1>1, WordAssumption DEF HalfMod

LEMMA ReadIs ==
    ASSUME NEW order, NEW b, IsWord(b)
    PROVE  Read32(order, b) \in Nat
<1>1. b[1] \in Nat /\ b[2] \in Nat /\ b[3] \in Nat /\ b[4] \in Nat
  BY WordModIs DEF IsWord
<1>2. ASSUME NEW x \in Nat, NEW y \in Nat
      PROVE  Read16(order, <<x, y>>) \in Nat
  <2>1. Base * x \in Nat /\ Base * y \in Nat
    BY WordModIs
  <2> QED
    BY <2>1 DEF Read16
<1> PICK u, l : u = Read16(order, <<b[1], b[2]>>) /\ l = Read16(order, <<b[3], b[4]>>)
  OBVIOUS
<1>3. u \in Nat /\ l \in Nat
  BY <1>1, <1>2
<1>4. HalfMod * u \in Nat /\ HalfMod * l \in Nat
  BY <1>3, WordModIs
<1> QED
  BY <1>3, <1>4 DEF Read32

LEMMA ValueIs ==
    ASSUME NEW f \in Files, f.kind = "elf", NEW i \in DOMAIN f.syms
    PROVE  ElfValue(f, f.syms[i]) \in Int
<1>1. IsElf(f)
  BY FilesAssumption
<1>2. Read32(f.order, f.syms[i].value) \in Nat
  BY <1>1, ReadIs DEF IsElf
<1>3. LoadAddress(f) \in Nat
  <2> PICK loads : loads = {k \in DOMAIN f.phs : f.phs[k].load}
    OBVIOUS
  <2>1. CASE loads = {}
    BY <2>1 DEF LoadAddress
  <2>2. CASE loads # {}
    <3>1. Len(f.phs) \in Nat /\ DOMAIN f.phs = 1 .. Len(f.phs)
      BY <1>1, ListIs DEF IsElf
    <3>2. loads \subseteq Nat /\ \A d \in loads : d <= Len(f.phs)
      BY <3>1
    <3>3. Max(loads) \in loads
      BY <2>2, <3>1, <3>2, ExtremesAre
    <3>4. Read32(f.order, f.phs[Max(loads)].vaddr) \in Nat
      BY <1>1, <3>3, ReadIs DEF IsElf
    <3> QED
      BY <2>2, <3>4 DEF LoadAddress
  <2> QED
    BY <2>1, <2>2
<1> PICK v \in Nat, a \in Nat : v = Read32(f.order, f.syms[i].value) /\ a = LoadAddress(f)
  BY <1>2, <1>3
<1>4. (v - a) % WordMod \in Int
  BY WordModIs, DivMod
<1> QED
  BY <1>4 DEF ElfValue

LEMMA ModIn ==
    ASSUME NEW t \in Int
    PROVE  t % WordMod \in 0 .. WordMod - 1
<1> PICK W \in Nat : W = WordMod /\ W > 0
  BY WordModIs
<1>1. t % W \in Nat /\ t % W < W
  BY DivMod
<1> PICK g \in Nat : g = t % W /\ g < W
  BY <1>1
<1>2. g \in 0 .. W - 1
  OBVIOUS
<1> QED
  BY <1>2

LEMMA ExtractedIs ==
    ASSUME NEW w \in Nat, NEW type \in {"PC24", "REL32"}
    PROVE  Extracted(type, w) \in Int
<1> PICK I \in Nat, W \in Nat : I = Imm24 /\ I > 0 /\ W = WordMod
  BY WordIs
<1>1. w % I \in Nat
  BY DivMod
<1> PICK i \in Nat : i = (w % I) * 4
  BY <1>1
<1> PICK v \in Int : v = w
  OBVIOUS
<1>2. /\ Extracted("REL32", v) = v
      /\ (v % Imm24) * 4 < 2 * Imm24 => Extracted("PC24", v) = (v % Imm24) * 4
      /\ (v % Imm24) * 4 >= 2 * Imm24 => Extracted("PC24", v) = (v % Imm24) * 4 + WordMod - 4 * Imm24
  BY InWord
<1>3. i < 2 * I => Extracted("PC24", w) = i
  BY <1>2
<1>4. i >= 2 * I => Extracted("PC24", w) = i + W - 4 * I
  BY <1>2
<1>5. Extracted("PC24", w) \in Int
  BY <1>3, <1>4
<1> QED
  BY <1>2, <1>5

\* The relocations that are made: n sections' and k of the next.
Done(n, k) == {p \in ElfRelocs : p[1] <= n \/ (p[1] = n + 1 /\ p[2] <= k)}

Touched(ps) == {WordOf(p) : p \in ps}

Linked(ps) ==
    \A p \in ps : Linkable(p) => Extracted(RelocAt(p).type, elf.image[WordOf(p)]) = Target(p)

RelocsKept(n, k) ==
    /\ WordsKept(file, elf, Len(file.sections), Touched(Done(n, k)))
    /\ Linked(Done(n, k))

LEMMA RelocsAre ==
    ASSUME file \in Files, file.kind = "elf"
    PROVE  /\ \A p \in ElfRelocs :
                /\ p[1] \in 1 .. Len(file.sections)
                /\ p[2] \in 1 .. Len(RelocsOf(file.sections[p[1]]))
                /\ p = <<p[1], p[2]>>
                /\ IsReloc(file, RelocAt(p)) /\ file.sections[RelocAt(p).sec].alloc
           /\ \A i \in 1 .. Len(file.sections) :
                /\ Len(RelocsOf(file.sections[i])) \in Nat
                /\ \A k \in 1 .. Len(RelocsOf(file.sections[i])) :
                     /\ <<i, k>> \in ElfRelocs <=>
                          file.sections[RelocsOf(file.sections[i])[k].sec].alloc
                     /\ RelocAt(<<i, k>>) = RelocsOf(file.sections[i])[k]
<1>1. /\ IsElf(file) /\ DOMAIN file.sections = 1 .. Len(file.sections)
      /\ Len(file.sections) \in Nat
      /\ \A i \in 1 .. Len(file.sections) : IsSection(file.sections[i])
  BY ElfFileIs
<1>2. ASSUME NEW i \in 1 .. Len(file.sections)
      PROVE  /\ Len(RelocsOf(file.sections[i])) \in Nat
             /\ DOMAIN RelocsOf(file.sections[i]) = 1 .. Len(RelocsOf(file.sections[i]))
  <2>1. IsList(RelocsOf(file.sections[i]))
    BY <1>1, NoneIsList DEF IsSection, RelocsOf
  <2> QED
    BY <2>1, ListIs
<1>3. ASSUME NEW p \in ElfRelocs
      PROVE  /\ p[1] \in 1 .. Len(file.sections)
             /\ p[2] \in 1 .. Len(RelocsOf(file.sections[p[1]]))
             /\ p = <<p[1], p[2]>>
             /\ IsReloc(file, RelocAt(p)) /\ file.sections[RelocAt(p).sec].alloc
  <2>1. /\ file.sections[RelocAt(p).sec].alloc
        /\ \E i \in DOMAIN file.sections : p \in {i} \X DOMAIN RelocsOf(file.sections[i])
    BY DEF ElfRelocs
  <2> PICK i \in DOMAIN file.sections : p \in {i} \X DOMAIN RelocsOf(file.sections[i])
    BY <2>1
  <2>2. PICK k \in DOMAIN RelocsOf(file.sections[i]) : p = <<i, k>>
    OBVIOUS
  <2>3. p[1] = i /\ p[2] = k
    BY <2>2
  <2>4. IsReloc(file, RelocAt(p))
    BY <1>1, <2>2, <2>3 DEF IsElf, RelocAt
  <2> QED
    BY <1>1, <1>2, <2>1, <2>2, <2>3, <2>4
<1>4. ASSUME NEW i \in 1 .. Len(file.sections), NEW k \in 1 .. Len(RelocsOf(file.sections[i]))
      PROVE  /\ <<i, k>> \in ElfRelocs <=> file.sections[RelocsOf(file.sections[i])[k].sec].alloc
             /\ RelocAt(<<i, k>>) = RelocsOf(file.sections[i])[k]
  <2> PICK p : p = <<i, k>>
    OBVIOUS
  <2>4. p[1] = i /\ p[2] = k
    OBVIOUS
  <2>1. RelocAt(p) = RelocsOf(file.sections[i])[k]
    BY <2>4 DEF RelocAt
  <2>2. p \in {i} \X DOMAIN RelocsOf(file.sections[i]) /\ i \in DOMAIN file.sections
    BY <1>1, <1>2
  <2>3. p \in UNION {{j} \X DOMAIN RelocsOf(file.sections[j]) : j \in DOMAIN file.sections}
    BY <2>2
  <2> QED
    BY <2>1, <2>3 DEF ElfRelocs
<1> QED
  BY <1>2, <1>3, <1>4

\* One relocation more, unless the section of its word is not allocated.
LEMMA DoneGrows ==
    ASSUME file \in Files, file.kind = "elf", NEW n \in Nat, n < Len(file.sections),
           NEW k \in Nat, k < Len(RelocsOf(file.sections[n + 1])),
           NEW r, r = RelocsOf(file.sections[n + 1])[k + 1]
    PROVE  /\ <<n + 1, k + 1>> \notin Done(n, k) /\ RelocAt(<<n + 1, k + 1>>) = r
           /\ file.sections[r.sec].alloc => /\ <<n + 1, k + 1>> \in ElfRelocs
                                            /\ Done(n, k + 1) = Done(n, k) \cup {<<n + 1, k + 1>>}
           /\ ~file.sections[r.sec].alloc => Done(n, k + 1) = Done(n, k)
<1> PICK p : p = <<n + 1, k + 1>>
  OBVIOUS
<1>8. p[1] = n + 1 /\ p[2] = k + 1
  OBVIOUS
<1>1. n + 1 \in 1 .. Len(file.sections) /\ k + 1 \in 1 .. Len(RelocsOf(file.sections[n + 1]))
  <2>1. Len(file.sections) \in Nat
    BY ElfFileIs
  <2>2. n + 1 \in 1 .. Len(file.sections)
    BY <2>1
  <2>3. Len(RelocsOf(file.sections[n + 1])) \in Nat
    BY <2>2, RelocsAre
  <2> QED
    BY <2>2, <2>3
<1>2. RelocAt(p) = r /\ (p \in ElfRelocs <=> file.sections[r.sec].alloc)
  BY <1>1, RelocsAre
<1>3. p \notin Done(n, k)
  BY <1>8 DEF Done
<1>4. ASSUME NEW q \in ElfRelocs
      PROVE  /\ q \in Done(n, k + 1) <=> q \in Done(n, k) \/ q = p
  <2>1. q[1] \in Nat /\ q[2] \in Nat /\ q = <<q[1], q[2]>>
    BY RelocsAre
  <2>2. q = p <=> q[1] = n + 1 /\ q[2] = k + 1
    BY <1>8, <2>1
  <2>3. q[2] <= k + 1 <=> q[2] <= k \/ q[2] = k + 1
    BY <2>1
  <2> QED
    BY <2>2, <2>3 DEF Done
<1>5. Done(n, k) \subseteq ElfRelocs /\ Done(n, k + 1) \subseteq ElfRelocs
  BY DEF Done
<1>6. file.sections[r.sec].alloc => Done(n, k + 1) = Done(n, k) \cup {p}
  BY <1>2, <1>4, <1>5
<1>7. ~file.sections[r.sec].alloc => Done(n, k + 1) = Done(n, k)
  BY <1>2, <1>4, <1>5
<1> QED
  BY <1>2, <1>3, <1>6, <1>7

\* All of a section's relocations, or of the file's, have been made.
LEMMA DoneAll ==
    ASSUME file \in Files, file.kind = "elf"
    PROVE  /\ Done(0, 0) = {}
           /\ \A n, k \in Nat : k >= Len(RelocsOf(file.sections[n + 1])) => Done(n + 1, 0) = Done(n, k)
           /\ \A k : Done(Len(file.sections), k) = ElfRelocs
<1>1. \A p \in ElfRelocs : /\ p[1] \in Nat /\ p[1] >= 1 /\ p[1] <= Len(file.sections)
                           /\ p[2] \in Nat /\ p[2] >= 1 /\ p[2] <= Len(RelocsOf(file.sections[p[1]]))
  <2> SUFFICES ASSUME NEW p \in ElfRelocs
               PROVE  /\ p[1] \in Nat /\ p[1] >= 1 /\ p[1] <= Len(file.sections)
                      /\ p[2] \in Nat /\ p[2] >= 1 /\ p[2] <= Len(RelocsOf(file.sections[p[1]]))
    OBVIOUS
  <2>1. Len(file.sections) \in Nat
    BY ElfFileIs
  <2>2. p[1] \in 1 .. Len(file.sections) /\ p[2] \in 1 .. Len(RelocsOf(file.sections[p[1]]))
    BY RelocsAre
  <2>3. Len(RelocsOf(file.sections[p[1]])) \in Nat
    BY <2>2, RelocsAre
  <2> QED
    BY <2>1, <2>2, <2>3
<1>2. Done(0, 0) = {}
  BY <1>1 DEF Done
<1>3. \A k : Done(Len(file.sections), k) = ElfRelocs
  BY <1>1 DEF Done
<1>4. ASSUME NEW n \in Nat, NEW k \in Nat, k >= Len(RelocsOf(file.sections[n + 1]))
      PROVE  Done(n + 1, 0) = Done(n, k)
  <2>1. ASSUME NEW p \in ElfRelocs
        PROVE  p \in Done(n + 1, 0) <=> p \in Done(n, k)
    <3>1. p \in Done(n + 1, 0) <=> p[1] <= n + 1
      BY <1>1 DEF Done
    <3>2. p[1] <= n + 1 <=> p[1] <= n \/ p[1] = n + 1
      BY <1>1
    <3>3. p[1] = n + 1 => p[2] <= k
      <4> SUFFICES ASSUME p[1] = n + 1
                   PROVE  p[2] <= k
        OBVIOUS
      <4>1. p[1] \in 1 .. Len(file.sections)
        BY RelocsAre
      <4> PICK l \in Nat : l = Len(RelocsOf(file.sections[n + 1]))
        BY <4>1, RelocsAre
      <4>2. p[2] <= l /\ l <= k /\ p[2] \in Nat
        BY <1>1, <1>4
      <4> QED
        BY <4>2
    <3> QED
      BY <3>1, <3>2, <3>3 DEF Done
  <2> QED
    BY <2>1 DEF Done
<1> QED
  BY <1>2, <1>3, <1>4

\* Where sections are decides what is relocated, and what it comes to.
LEMMA SamePlaces ==
    ASSUME file' = file, elf'.at = elf.at
    PROVE  /\ ElfRelocs' = ElfRelocs
           /\ \A n, k : Done(n, k)' = Done(n, k) /\ Touched(Done(n, k))' = Touched(Done(n, k))
           /\ \A p : /\ RelocAt(p)' = RelocAt(p) /\ WordOf(p)' = WordOf(p)
                     /\ Target(p)' = Target(p) /\ (Linkable(p)' <=> Linkable(p))
<1>1. ElfRelocs' = ElfRelocs
  BY DEF ElfRelocs, RelocAt
<1>2. \A p : RelocAt(p)' = RelocAt(p) /\ WordOf(p)' = WordOf(p) /\ SymbolOf(p)' = SymbolOf(p)
  BY DEF RelocAt, WordOf, SymbolOf
<1>3. \A p : Target(p)' = Target(p)
  BY <1>2 DEF Target, Distance, Addend
<1>4. \A p : Linkable(p)' <=> Linkable(p)
  BY <1>1, <1>2, <1>3 DEF Linkable
<1>5. \A n, k : Done(n, k)' = Done(n, k) /\ Touched(Done(n, k))' = Touched(Done(n, k))
  BY <1>1, <1>2 DEF Done, Touched
<1> QED
  BY <1>1, <1>2, <1>3, <1>4, <1>5

\* The word of a relocation that can be linked is in the image; the addresses
\* the loader calculates with differ from those in the image by the same host.
LEMMA LinkIs ==
    ASSUME file \in Files, file.kind = "elf", LaidOut(file, elf, Len(file.sections)),
           Padded(file.sections), NEW p \in ElfRelocs, Linkable(p),
           NEW r, r = RelocAt(p), NEW word, word = file.sections[r.sec].words[r.offset]
    PROVE  /\ r.sec \in PlacedIn(file, Len(file.sections)) /\ file.sections[r.sec].type = "progbits"
           /\ r.offset \in DOMAIN file.sections[r.sec].words
           /\ word \in Nat /\ WordOf(p) \in DOMAIN elf.image
           /\ Target(p) \in 0 .. WordMod - 1
           /\ Calculated(r.type, HostAddr(file, elf, SymbolOf(p).shndx) + ElfValue(file, SymbolOf(p)),
                         HostAddr(file, elf, r.sec) + r.offset,
                         Extracted(r.type, word) + r.addend) = Target(p)
<1> PICK N \in Nat : N = Len(file.sections) /\ DOMAIN file.sections = 1 .. N
  BY ElfFileIs
<1> PICK s, y : s = file.sections[r.sec] /\ y = SymbolOf(p)
  OBVIOUS
<1>1. IsReloc(file, r) /\ s.alloc
  BY RelocsAre
<1>2. /\ r.sec \in 1 .. N /\ r.addend \in Int /\ Placed(s) /\ r.offset \in 0 .. s.size - 1
      /\ r.sym \in DOMAIN file.syms /\ y = file.syms[r.sym] /\ y.shndx \in 1 .. N
  BY <1>1 DEF IsReloc, SymbolOf
<1>3. /\ s.type = "progbits" /\ r.offset \in DOMAIN s.words /\ Placed(file.sections[y.shndx])
      /\ r.type \in {"PC24", "REL32"}
  BY DEF Linkable
<1>4. IsSection(s)
  BY <1>2, ElfFileIs
<1>5. word \in Nat /\ s.size \in Nat
  <2>1. word \in 0 .. WordMod - 1 /\ s.size \in Nat
    BY <1>2, <1>3, <1>4 DEF IsSection
  <2> QED
    BY <2>1
<1>6. r.sec \in PlacedIn(file, N) /\ y.shndx \in PlacedIn(file, N)
  BY <1>2, <1>3 DEF PlacedIn
<1>7. /\ elf.at[r.sec] \in Nat /\ elf.at[y.shndx] \in Nat /\ elf.host \in Nat
      /\ elf.at[r.sec] + s.size <= elf.end /\ elf.end \in Nat /\ elf.size \in Nat
      /\ DOMAIN elf.image = 0 .. elf.size - 1
  BY <1>6 DEF LaidOut
<1>8. elf.end <= elf.size
  <2> PICK ns : SizesAre(file, ns, N) /\ ns[N] = elf.size /\ elf.end <= ns[N]
    BY DEF LaidOut
  <2> QED
    OBVIOUS
<1> PICK a \in Nat, b \in Nat, h \in Nat : a = elf.at[r.sec] /\ b = elf.at[y.shndx] /\ h = elf.host
  BY <1>7
<1> PICK o \in Nat, z \in Nat : o = r.offset /\ z = s.size /\ o < z
  BY <1>2, <1>5
<1>9. WordOf(p) = a + o
  BY DEF WordOf
<1>10. a + o \in DOMAIN elf.image
  <2> PICK u \in Nat, v \in Nat : u = elf.end /\ v = elf.size /\ u <= v /\ a + z <= u
    BY <1>7, <1>8
  <2>1. a + o \in 0 .. v - 1
    BY ONLY a \in Nat, o \in Nat, z \in Nat, u \in Nat, v \in Nat, o < z, a + z <= u, u <= v
  <2> QED
    BY <1>7, <2>1
<1> PICK v \in Int : v = ElfValue(file, y)
  BY <1>2, ValueIs
<1> PICK x \in Int : x = Extracted(r.type, word)
  BY <1>3, <1>5, ExtractedIs
<1> PICK c \in Int : c = r.addend
  BY <1>2
<1>11. HostAddr(file, elf, y.shndx) = b + h /\ HostAddr(file, elf, r.sec) = a + h
  BY <1>2, <1>3 DEF HostAddr
<1>12. Target(p) = ((b + v - (a + o)) + (x + c)) % WordMod
  BY <1>9 DEF Target, Distance, Addend
<1>14. Target(p) \in 0 .. WordMod - 1
  <2>1. (b + v - (a + o)) + (x + c) \in Int
    BY ONLY a \in Nat, b \in Nat, h \in Nat, o \in Nat, v \in Int, x \in Int, c \in Int
  <2> QED
    BY <1>12, <2>1, ModIn
<1>16. Calculated(r.type, HostAddr(file, elf, y.shndx) + ElfValue(file, y),
                  HostAddr(file, elf, r.sec) + r.offset, Extracted(r.type, word) + r.addend)
         = Target(p)
  <2> PICK S, P, A : /\ S = HostAddr(file, elf, y.shndx) + ElfValue(file, y)
                     /\ P = HostAddr(file, elf, r.sec) + r.offset
                     /\ A = Extracted(r.type, word) + r.addend
    OBVIOUS
  <2>1. S = (b + h) + v /\ P = (a + h) + o /\ A = x + c
    BY <1>11
  <2>4. S \in Int /\ P \in Int /\ A \in Int /\ S - P + A = (b + v - (a + o)) + (x + c)
    BY ONLY <2>1, a \in Nat, b \in Nat, h \in Nat, o \in Nat, v \in Int, x \in Int, c \in Int
  <2> PICK type \in {"PC24", "REL32"} : type = r.type
    BY <1>3
  <2>5. Calculated(type, S, P, A) = (S - P + A) % WordMod
    BY ONLY <2>4, type \in {"PC24", "REL32"} DEF Calculated, RelativeTypes
  <2>2. Calculated(r.type, S, P, A) = ((b + v - (a + o)) + (x + c)) % WordMod
    BY <2>4, <2>5
  <2>3. Calculated(r.type, S, P, A) = Target(p)
    BY <1>12, <2>2
  <2> QED
    BY <2>3
<1> QED
  BY <1>3, <1>5, <1>6, <1>9, <1>10, <1>14, <1>16

\* What relocation makes of a word.
NewWord(f, e, r, word) ==
    Relocated(r.type, word,
        Calculated(r.type, HostAddr(f, e, f.syms[r.sym].shndx) + ElfValue(f, f.syms[r.sym]),
                   HostAddr(f, e, r.sec) + r.offset, Extracted(r.type, word) + r.addend))

LEMMA WithRelocIs ==
    ASSUME NEW f, NEW e, IsElfState(e), NEW r
    PROVE  /\ WithReloc(f, e, r).pass = e.pass /\ WithReloc(f, e, r).host = e.host
           /\ WithReloc(f, e, r).size = e.size /\ WithReloc(f, e, r).end = e.end
           /\ WithReloc(f, e, r).at = e.at
           /\ DOMAIN WithReloc(f, e, r).image = DOMAIN e.image
           /\ \A w \in DOMAIN e.image :
                WithReloc(f, e, r).image[w] =
                    IF w = e.at[r.sec] + r.offset THEN NewWord(f, e, r, e.image[w])
                                                  ELSE e.image[w]
BY DEF IsElfState, WithReloc, NewWord

\* A section that is placed is in the image.
LEMMA InImage ==
    ASSUME NEW f \in Files, f.kind = "elf", NEW e, LaidOut(f, e, Len(f.sections)),
           Padded(f.sections), NEW j \in PlacedIn(f, Len(f.sections)),
           NEW o \in 0 .. f.sections[j].size - 1
    PROVE  e.at[j] + o \in DOMAIN e.image
<1>1. j \in 1 .. Len(f.sections) /\ IsSection(f.sections[j])
  BY ElfFileIs DEF PlacedIn
<1> PICK z \in Nat : z = f.sections[j].size
  BY <1>1 DEF IsSection
<1> PICK a \in Nat, u \in Nat, v \in Nat :
        /\ a = e.at[j] /\ u = e.end /\ v = e.size /\ a + z <= u
        /\ DOMAIN e.image = 0 .. v - 1
  BY DEF LaidOut
<1>2. u <= v
  <2> PICK ns : ns[Len(f.sections)] = e.size /\ e.end <= ns[Len(f.sections)]
    BY DEF LaidOut
  <2> QED
    OBVIOUS
<1> PICK x \in Nat : x = o /\ x < z
  OBVIOUS
<1>3. a + x \in 0 .. v - 1
  BY ONLY <1>2, a \in Nat, x \in Nat, z \in Nat, u \in Nat, v \in Nat, x < z, a + z <= u
<1> QED
  BY <1>3

\* A word that is relocated is the one thing that changes, and what can be
\* linked there is; what was linked before has no other relocation.
LEMMA RelocKeeps ==
    ASSUME file \in Files, file.kind = "elf", IsElfState(elf),
           LaidOut(file, elf, Len(file.sections)), Padded(file.sections),
           NEW n \in Nat, n < Len(file.sections),
           NEW k \in Nat, k < Len(RelocsOf(file.sections[n + 1])), RelocsKept(n, k),
           NEW r, r = RelocsOf(file.sections[n + 1])[k + 1], file.sections[r.sec].alloc,
           file' = file, elf' = WithReloc(file, elf, r)
    PROVE  RelocsKept(n, k + 1)'
<1> PICK p : p = <<n + 1, k + 1>>
  OBVIOUS
<1>1. /\ p \notin Done(n, k) /\ p \in ElfRelocs /\ RelocAt(p) = r
      /\ Done(n, k + 1) = Done(n, k) \cup {p}
  BY DoneGrows
<1> PICK d : d = WithReloc(file, elf, r) /\ elf' = d
  OBVIOUS
<1> PICK at : at = WordOf(p) /\ at = elf.at[r.sec] + r.offset
  BY <1>1 DEF WordOf
<1>2. /\ d.at = elf.at /\ DOMAIN d.image = DOMAIN elf.image
      /\ \A w \in DOMAIN elf.image :
            d.image[w] = IF w = at THEN NewWord(file, elf, r, elf.image[w]) ELSE elf.image[w]
  <2>1. /\ WithReloc(file, elf, r).at = elf.at
        /\ DOMAIN WithReloc(file, elf, r).image = DOMAIN elf.image
        /\ \A w \in DOMAIN elf.image :
              WithReloc(file, elf, r).image[w] =
                  IF w = elf.at[r.sec] + r.offset THEN NewWord(file, elf, r, elf.image[w])
                                                  ELSE elf.image[w]
    BY ONLY IsElfState(elf), WithRelocIs
  <2> QED
    BY <2>1
<1>3. \A w \in DOMAIN elf.image : w # at => d.image[w] = elf.image[w]
  BY <1>2
<1>4. Touched(Done(n, k + 1)) = Touched(Done(n, k)) \cup {at}
  BY <1>1 DEF Touched
<1>5. ASSUME NEW j \in PlacedIn(file, Len(file.sections)), file.sections[j].type = "progbits",
             NEW o \in DOMAIN file.sections[j].words
      PROVE  /\ elf.at[j] + o \in DOMAIN elf.image
             /\ \/ elf.at[j] + o \in Touched(Done(n, k))
                \/ elf.image[elf.at[j] + o] = file.sections[j].words[o]
  <2>1. IsSection(file.sections[j]) /\ Placed(file.sections[j])
    BY ElfFileIs DEF PlacedIn
  <2>2. o \in 0 .. file.sections[j].size - 1
    BY <1>5, <2>1 DEF IsSection
  <2> QED
    BY <1>5, <2>2, InImage DEF RelocsKept, WordsKept
<1>6. WordsKept(file, elf, Len(file.sections), Touched(Done(n, k + 1)))'
  <2>1. ASSUME NEW j \in PlacedIn(file, Len(file.sections)), file.sections[j].type = "progbits",
               NEW o \in DOMAIN file.sections[j].words
        PROVE  \/ d.at[j] + o \in Touched(Done(n, k + 1))
               \/ d.image[d.at[j] + o] = file.sections[j].words[o]
    <3> PICK w : w = elf.at[j] + o /\ w = d.at[j] + o
      BY <1>2
    <3>1. /\ w \in DOMAIN elf.image
          /\ w \in Touched(Done(n, k)) \/ elf.image[w] = file.sections[j].words[o]
      BY <1>5, <2>1
    <3>2. w \in Touched(Done(n, k + 1)) \/ d.image[w] = file.sections[j].words[o]
      BY <1>3, <1>4, <3>1
    <3> QED
      BY <3>2
  <2>2. Touched(Done(n, k + 1))' = Touched(Done(n, k + 1))
    BY <1>2, SamePlaces
  <2>3. WordsKept(file, d, Len(file.sections), Touched(Done(n, k + 1)))
    BY <2>1 DEF WordsKept
  <2> QED
    BY <2>2, <2>3
<1>7. ASSUME NEW q \in Done(n, k), Linkable(q)
      PROVE  Extracted(RelocAt(q).type, d.image[WordOf(q)]) = Target(q)
  <2>1. q \in ElfRelocs /\ q # p
    BY <1>1 DEF Done
  <2>2. WordOf(q) # at
    BY <1>1, <1>7, <2>1 DEF Linkable
  <2>3. WordOf(q) \in DOMAIN elf.image
    BY <1>7, <2>1, LinkIs
  <2> QED
    BY <1>3, <1>7, <2>2, <2>3 DEF RelocsKept, Linked
<1>8. ASSUME Linkable(p)
      PROVE  Extracted(r.type, d.image[at]) = Target(p)
  <2> PICK word : word = file.sections[r.sec].words[r.offset]
    OBVIOUS
  <2>1. /\ r.sec \in PlacedIn(file, Len(file.sections)) /\ file.sections[r.sec].type = "progbits"
        /\ r.offset \in DOMAIN file.sections[r.sec].words
        /\ word \in Nat /\ at \in DOMAIN elf.image /\ Target(p) \in 0 .. WordMod - 1
        /\ Calculated(r.type, HostAddr(file, elf, SymbolOf(p).shndx) + ElfValue(file, SymbolOf(p)),
                      HostAddr(file, elf, r.sec) + r.offset,
                      Extracted(r.type, word) + r.addend) = Target(p)
    BY <1>1, <1>8, LinkIs
  <2>2. at \notin Touched(Done(n, k))
    <3> SUFFICES ASSUME NEW q \in Done(n, k), at = WordOf(q)
                 PROVE  FALSE
      BY DEF Touched
    <3>1. q \in ElfRelocs /\ q # p
      BY <1>1 DEF Done
    <3> QED
      BY <1>1, <1>8, <3>1 DEF Linkable
  <2>3. elf.image[at] = word
    <3> PICK j, o : j = r.sec /\ o = r.offset
      OBVIOUS
    <3>1. j \in PlacedIn(file, Len(file.sections)) /\ file.sections[j].type = "progbits"
          /\ o \in DOMAIN file.sections[j].words
      BY <2>1
    <3>2. elf.at[j] + o \notin Touched(Done(n, k))
      BY <2>2
    <3>3. elf.image[elf.at[j] + o] = file.sections[j].words[o]
      BY <1>5, <3>1, <3>2
    <3> QED
      BY <3>3
  <2>4. SymbolOf(p) = file.syms[r.sym]
    BY <1>1 DEF SymbolOf
  <2>5. d.image[at] = Relocated(r.type, word, Target(p))
    <3>1. NewWord(file, elf, r, word) = Relocated(r.type, word, Target(p))
      BY <2>1, <2>4 DEF NewWord
    <3> QED
      BY <1>2, <2>1, <2>3, <3>1
  <2>6. CASE r.type = "REL32"
    <3>1. word \in Int /\ Target(p) \in Int
      <4>1. Target(p) \in 0 .. WordMod - 1 /\ word \in Nat
        BY <2>1
      <4> QED
        BY ONLY <4>1
    <3>2. Relocated("REL32", word, Target(p)) = Target(p)
      BY <3>1, InWord
    <3>3. Extracted("REL32", Target(p)) = Target(p)
      BY <3>1, InWord
    <3> QED
      BY <2>5, <2>6, <3>2, <3>3
  <2>7. CASE r.type = "PC24"
    <3>1. WithinReach(Target(p))
      BY <1>1, <1>8, <2>7 DEF Linkable
    <3>2. Extracted("PC24", Relocated("PC24", word, Target(p))) = Target(p)
      BY <2>1, <3>1, BranchReaches DEF WithinReach
    <3> QED
      BY <2>5, <2>7, <3>2
  <2> QED
    BY <1>1, <1>8, <2>6, <2>7 DEF Linkable
<1>9. Linked(Done(n, k + 1))'
  <2>1. \A q \in Done(n, k + 1) : Linkable(q) =>
            Extracted(RelocAt(q).type, d.image[WordOf(q)]) = Target(q)
    BY <1>1, <1>7, <1>8
  <2>2. /\ Done(n, k + 1)' = Done(n, k + 1)
        /\ \A q : /\ RelocAt(q)' = RelocAt(q) /\ WordOf(q)' = WordOf(q)
                  /\ Target(q)' = Target(q) /\ (Linkable(q)' <=> Linkable(q))
    BY <1>2, SamePlaces
  <2> QED
    BY <2>1, <2>2 DEF Linked
<1> QED
  BY <1>6, <1>9 DEF RelocsKept

-----------------------------------------------------------------------------
(* Reading an ELF file.  What the passes have done so far: the size after    *)
(* each section, the places and the words of sections, the relocations.      *)

MeasuredSoFar ==
    /\ line <= Len(file.sections) /\ elf.end = 0 /\ elf.at = <<>>
    /\ \E ns : SizesAre(file, ns, line) /\ ns[line] = elf.size

PlacedSoFar ==
    /\ line <= Len(file.sections) /\ LaidOut(file, elf, line)
    /\ Padded(file.sections) => WordsKept(file, elf, line, {})

RelocatedSoFar ==
    /\ line <= Len(file.sections) /\ LaidOut(file, elf, Len(file.sections))
    /\ Padded(file.sections) => RelocsKept(line, byte)

ElfSoFar ==
    /\ elf.pass = "header"   => elf = ElfStart
    /\ elf.pass = "measure"  => MeasuredSoFar
    /\ elf.pass = "place"    => PlacedSoFar
    /\ elf.pass = "relocate" => RelocatedSoFar

\* The image is the first effect, and the only segment.
OnlyFirst(es) == \A i \in DOMAIN es : i # 1 => es[i].op # "segment"

ElfAdding ==
    /\ elf.pass = "relocate" /\ line = Len(file.sections)
    /\ OnlyFirst(todo)
    /\ \/ phase = "add" /\ segs = {} /\ todo # <<>> /\ todo[1] = AddSeg(ElfSegment(file, elf))
       \/ segs = {ElfSegment(file, elf)} /\ (todo = <<>> \/ todo[1].op # "segment")

ElfRightSoFar ==
    /\ phase = "match" => elf = ElfStart
    /\ phase = "dialog" => Chosen = "Binary"
    /\ phase \in {"load", "add", "accepted"} /\ Chosen = "ELF" => ElfSoFar
    /\ phase \in {"add", "accepted"} /\ Chosen = "ELF" => ElfAdding

LEMMA ElfStartIs == ElfStart.pass = "header" /\ ElfStart.end = 0 /\ ElfStart.at = <<>> /\ ElfStart.size = 0
BY DEF ElfStart

\* The first pass.
LEMMA MeasureStart ==
    ASSUME NEW f
    PROVE  \E ns : SizesAre(f, ns, 0) /\ ns[0] = 0
<1> PICK ns : ns = [i \in 0 .. 0 |-> 0]
  OBVIOUS
<1>1. ns \in [0 .. 0 -> Nat] /\ ns[0] = 0 /\ \A i \in 0 .. 0 : ns[i] <= ns[0]
  OBVIOUS
<1>2. SizesAre(f, ns, 0)
  BY <1>1 DEF SizesAre
<1> QED
  BY <1>1, <1>2

LEMMA HeaderRead ==
    ASSUME Typed, ElfSoFar, ReadHeader, phase' # "failed", file \in Files, file.kind = "elf"
    PROVE  file' = file /\ ElfSoFar'
<1> PICK d : d = [elf EXCEPT !.pass = "measure"]
  OBVIOUS
<1>1. elf' = d /\ line' = 0 /\ file' = file /\ elf = ElfStart
  BY DEF ReadHeader, InPass, ElfRead, ElfSoFar
<1>2. d.pass = "measure" /\ d.end = 0 /\ d.at = <<>> /\ d.size = 0
  BY <1>1 DEF ElfStart
<1>3. 0 <= Len(file.sections)
  BY ElfFileIs
<1>4. MeasuredSoFar'
  BY <1>1, <1>2, <1>3, MeasureStart DEF MeasuredSoFar
<1> QED
  BY <1>1, <1>2, <1>4 DEF ElfSoFar

LEMMA SectionMeasured ==
    ASSUME Typed, ElfSoFar, MeasureSection, phase' # "failed", file \in Files, file.kind = "elf"
    PROVE  file' = file /\ ElfSoFar'
<1> PICK d : d = [elf EXCEPT !.size = Measured(elf.size, NextSection)]
  OBVIOUS
<1>1. elf' = d /\ line' = line + 1 /\ file' = file /\ elf.pass = "measure" /\ MoreSections
  BY DEF MeasureSection, InPass, ElfRead
<1>2. MeasuredSoFar /\ IsElfState(elf) /\ line \in Nat
  BY <1>1 DEF ElfSoFar, Typed
<1>3. d.pass = "measure" /\ d.end = 0 /\ d.at = <<>> /\ d.size = Measured(elf.size, NextSection)
  BY <1>1, <1>2 DEF MeasuredSoFar, IsElfState
<1>4. line < Len(file.sections) /\ Len(file.sections) \in Nat /\ IsSection(file.sections[line + 1])
  <2>1. line < Len(file.sections) /\ Len(file.sections) \in Nat
    BY <1>1, ElfFileIs DEF MoreSections
  <2>2. line + 1 \in 1 .. Len(file.sections)
    BY <1>2, <2>1
  <2> QED
    BY <2>1, <2>2, ElfFileIs
<1> PICK ns : SizesAre(file, ns, line) /\ ns[line] = elf.size
  BY <1>2 DEF MeasuredSoFar
<1>5. \E ms : SizesAre(file, ms, line + 1) /\ ms[line + 1] = Measured(elf.size, NextSection)
  BY <1>2, <1>4, SizesGrow DEF NextSection
<1>6. line + 1 <= Len(file.sections)
  BY <1>2, <1>4
<1>7. MeasuredSoFar'
  BY <1>1, <1>3, <1>5, <1>6 DEF MeasuredSoFar
<1> QED
  BY <1>1, <1>3, <1>7 DEF ElfSoFar

\* The second pass.
LEMMA ImageAllocated ==
    ASSUME Typed, ElfSoFar, AllocateImage, phase' # "failed", file \in Files, file.kind = "elf"
    PROVE  file' = file /\ ElfSoFar'
<1> PICK host \in Hosts, ok \in BOOLEAN : ElfRead(ok, Allocated(elf, host), 0, 0)
  BY DEF AllocateImage
<1> PICK d : d = Allocated(elf, host)
  OBVIOUS
<1>1. elf' = d /\ line' = 0 /\ file' = file /\ elf.pass = "measure" /\ ~MoreSections
  BY DEF AllocateImage, InPass, ElfRead
<1>2. MeasuredSoFar /\ IsElfState(elf) /\ line \in Nat
  BY <1>1 DEF ElfSoFar, Typed
<1> PICK N \in Nat : N = Len(file.sections)
  BY ElfFileIs
<1>3. line = N
  BY <1>1, <1>2 DEF MeasuredSoFar, MoreSections
<1> PICK ns : SizesAre(file, ns, N) /\ ns[N] = elf.size
  BY <1>2, <1>3 DEF MeasuredSoFar
<1>4. ns[N] \in Nat /\ ns[0] = 0
  BY DEF SizesAre
<1> PICK zeros : zeros = [o \in 0 .. elf.size - 1 |-> 0]
  OBVIOUS
<1>5. /\ d.pass = "place" /\ d.host = host /\ d.size = elf.size /\ d.end = 0 /\ d.at = <<>>
      /\ d.image = zeros
  BY <1>2 DEF MeasuredSoFar, IsElfState, Allocated
<1>6. PlacedIn(file, 0) = {}
  BY DEF PlacedIn
<1>7. IsList(<<>>) /\ Len(<<>>) = 0 /\ host \in Nat
  BY NoneIsList, HostsAssumption
<1>8. LaidOut(file, d, 0)
  <2>1. \E ms : /\ SizesAre(file, ms, Len(file.sections)) /\ ms[Len(file.sections)] = d.size
                /\ Padded(file.sections) => d.end <= ms[0]
    BY <1>4, <1>5
  <2> QED
    BY <1>4, <1>5, <1>6, <1>7, <2>1 DEF LaidOut
<1>9. WordsKept(file, d, 0, {})
  BY <1>6 DEF WordsKept
<1>10. PlacedSoFar'
  BY <1>1, <1>8, <1>9 DEF PlacedSoFar
<1> QED
  BY <1>1, <1>5, <1>10 DEF ElfSoFar

LEMMA SectionPlaced ==
    ASSUME Typed, ElfSoFar, PlaceSection, phase' # "failed", file \in Files, file.kind = "elf"
    PROVE  file' = file /\ ElfSoFar'
<1> PICK d : d = WithSection(elf, file.sections[line + 1])
  OBVIOUS
<1>1. elf' = d /\ line' = line + 1 /\ file' = file /\ elf.pass = "place" /\ MoreSections
  BY DEF PlaceSection, InPass, ElfRead, NextSection
<1>2. PlacedSoFar /\ IsElfState(elf) /\ line \in Nat
  BY <1>1 DEF ElfSoFar, Typed
<1>3. /\ line < Len(file.sections) /\ Len(file.sections) \in Nat /\ IsElf(file)
      /\ DOMAIN file.sections = 1 .. Len(file.sections)
  BY <1>1, ElfFileIs DEF MoreSections
<1>4. LaidOut(file, elf, line) /\ (Padded(file.sections) => WordsKept(file, elf, line, {}))
  BY <1>2 DEF PlacedSoFar
<1>5. /\ LaidOut(file, d, line + 1)
      /\ Padded(file.sections) => WordsKept(file, d, line + 1, {})
  BY <1>2, <1>3, <1>4, PlaceKeeps
<1>6. line + 1 <= Len(file.sections)
  BY <1>2, <1>3
<1>7. d.pass = "place"
  BY <1>1, <1>2 DEF WithSection, IsElfState
<1>8. PlacedSoFar'
  BY <1>1, <1>5, <1>6 DEF PlacedSoFar
<1> QED
  BY <1>1, <1>7, <1>8 DEF ElfSoFar

\* The third pass.
LEMMA SymbolsResolved ==
    ASSUME Typed, ElfSoFar, ResolveSymbols, phase' # "failed", file \in Files, file.kind = "elf"
    PROVE  file' = file /\ ElfSoFar'
<1> PICK d : d = [elf EXCEPT !.pass = "relocate"]
  OBVIOUS
<1>1. /\ elf' = d /\ line' = 0 /\ byte' = 0 /\ file' = file /\ elf.pass = "place" /\ ~MoreSections
  BY DEF ResolveSymbols, InPass, ElfRead
<1>2. PlacedSoFar /\ IsElfState(elf) /\ line \in Nat
  BY <1>1 DEF ElfSoFar, Typed
<1> PICK N \in Nat : N = Len(file.sections)
  BY ElfFileIs
<1>3. line = N
  BY <1>1, <1>2 DEF PlacedSoFar, MoreSections
<1>4. /\ d.pass = "relocate" /\ d.host = elf.host /\ d.size = elf.size /\ d.end = elf.end
      /\ d.at = elf.at /\ d.image = elf.image
  BY <1>2 DEF IsElfState
<1>5. LaidOut(file, d, N)
  BY <1>2, <1>3, <1>4 DEF PlacedSoFar, LaidOut
<1>6. ASSUME Padded(file.sections)
      PROVE  RelocsKept(0, 0)'
  <2>1. Done(0, 0) = {} /\ Done(0, 0)' = Done(0, 0) /\ Touched(Done(0, 0))' = Touched(Done(0, 0))
    BY <1>1, <1>4, DoneAll, SamePlaces
  <2>2. Touched(Done(0, 0)) = {}
    BY <2>1 DEF Touched
  <2>3. WordsKept(file, d, N, {})
    BY <1>2, <1>3, <1>4, <1>6 DEF PlacedSoFar, WordsKept
  <2>4. Linked(Done(0, 0))'
    BY <2>1 DEF Linked
  <2> QED
    BY <1>1, <2>1, <2>2, <2>3, <2>4 DEF RelocsKept
<1>7. RelocatedSoFar'
  BY <1>1, <1>5, <1>6 DEF RelocatedSoFar
<1> QED
  BY <1>1, <1>4, <1>7 DEF ElfSoFar

\* What is so as long as no section moves.
LEMMA StillLaidOut ==
    ASSUME NEW f, NEW e, NEW d, NEW n, LaidOut(f, e, n), d.size = e.size, d.end = e.end,
           d.host = e.host, d.at = e.at, DOMAIN d.image = DOMAIN e.image
    PROVE  LaidOut(f, d, n)
BY DEF LaidOut

LEMMA KeptStays ==
    ASSUME file' = file, elf' = elf, NEW n, NEW k, NEW m, NEW l, Done(m, l) = Done(n, k),
           RelocsKept(n, k)
    PROVE  RelocsKept(m, l)'
<1>1. /\ Done(m, l)' = Done(n, k) /\ Touched(Done(m, l))' = Touched(Done(n, k))
      /\ \A p : /\ RelocAt(p)' = RelocAt(p) /\ WordOf(p)' = WordOf(p)
                /\ Target(p)' = Target(p) /\ (Linkable(p)' <=> Linkable(p))
  BY SamePlaces
<1>2. Linked(Done(m, l))'
  BY <1>1 DEF RelocsKept, Linked
<1>3. WordsKept(file, elf, Len(file.sections), Touched(Done(m, l)))'
  BY <1>1 DEF RelocsKept
<1> QED
  BY <1>2, <1>3 DEF RelocsKept

LEMMA SectionLeft ==
    ASSUME Typed, ElfSoFar, LeaveSection, phase' # "failed", file \in Files, file.kind = "elf"
    PROVE  file' = file /\ ElfSoFar'
<1> PICK n, k : n = line /\ k = byte
  OBVIOUS
<1>1. /\ elf' = elf /\ line' = n + 1 /\ byte' = 0 /\ file' = file /\ elf.pass = "relocate"
      /\ MoreSections /\ ~MoreRelocs
  BY DEF LeaveSection, InPass, ElfRead
<1>2. RelocatedSoFar /\ n \in Nat /\ k \in Nat
  BY <1>1 DEF ElfSoFar, Typed
<1>3. n < Len(file.sections) /\ Len(file.sections) \in Nat /\ n + 1 \in 1 .. Len(file.sections)
  <2>1. n < Len(file.sections) /\ Len(file.sections) \in Nat
    BY <1>1, ElfFileIs DEF MoreSections
  <2> QED
    BY <1>2, <2>1
<1>4. k >= Len(RelocsOf(file.sections[n + 1]))
  <2>1. Len(RelocsOf(file.sections[n + 1])) \in Nat
    BY <1>3, RelocsAre
  <2> QED
    BY <1>1, <1>2, <2>1 DEF MoreRelocs, NextSection
<1>5. Done(n + 1, 0) = Done(n, k)
  BY <1>2, <1>4, DoneAll
<1>6. Padded(file.sections) => RelocsKept(n, k)
  BY <1>2 DEF RelocatedSoFar
<1>7. Padded(file.sections) => RelocsKept(n + 1, 0)'
  BY <1>1, <1>5, <1>6, KeptStays
<1>8. LaidOut(file, elf, Len(file.sections)) /\ n + 1 <= Len(file.sections)
  BY <1>2, <1>3 DEF RelocatedSoFar
<1>9. RelocatedSoFar'
  BY <1>1, <1>7, <1>8 DEF RelocatedSoFar
<1> QED
  BY <1>1, <1>9 DEF ElfSoFar

LEMMA WordRelocated ==
    ASSUME Typed, ElfSoFar, RelocateWord, phase' # "failed", file \in Files, file.kind = "elf"
    PROVE  file' = file /\ ElfSoFar'
<1> PICK n, k : n = line /\ k = byte
  OBVIOUS
<1> PICK r : r = RelocsOf(file.sections[n + 1])[k + 1]
  OBVIOUS
<1>1. /\ elf' = IF file.sections[r.sec].alloc THEN WithReloc(file, elf, r) ELSE elf
      /\ line' = n /\ byte' = k + 1 /\ file' = file /\ elf.pass = "relocate"
      /\ MoreSections /\ MoreRelocs
  <2>1. elf.pass = "relocate" /\ MoreSections /\ MoreRelocs /\ NextReloc = r
    BY DEF RelocateWord, InPass, MoreRelocs, NextReloc, NextSection
  <2>2. IF file.sections[r.sec].alloc
        THEN ElfRead(Relocatable(file, elf, r), WithReloc(file, elf, r), n, k + 1)
        ELSE ElfRead(TRUE, elf, n, k + 1)
    BY <2>1 DEF RelocateWord
  <2>3. \A ok, e : ElfRead(ok, e, n, k + 1) =>
            elf' = e /\ line' = n /\ byte' = k + 1 /\ file' = file
    BY DEF ElfRead
  <2>4. CASE file.sections[r.sec].alloc
    BY <2>1, <2>2, <2>3, <2>4
  <2>5. CASE ~file.sections[r.sec].alloc
    BY <2>1, <2>2, <2>3, <2>5
  <2> QED
    BY <2>4, <2>5
<1>2. RelocatedSoFar /\ n \in Nat /\ k \in Nat /\ IsElfState(elf)
  BY <1>1 DEF ElfSoFar, Typed
<1>3. /\ n < Len(file.sections) /\ n <= Len(file.sections)
      /\ k < Len(RelocsOf(file.sections[n + 1]))
      /\ LaidOut(file, elf, Len(file.sections)) /\ (Padded(file.sections) => RelocsKept(n, k))
  BY <1>1, <1>2 DEF MoreSections, MoreRelocs, NextSection, RelocatedSoFar
<1>4. CASE file.sections[r.sec].alloc
  <2> PICK d : d = WithReloc(file, elf, r) /\ elf' = d
    BY <1>1, <1>4
  <2>1. /\ d.pass = elf.pass /\ d.size = elf.size /\ d.end = elf.end /\ d.host = elf.host
        /\ d.at = elf.at /\ DOMAIN d.image = DOMAIN elf.image
    <3>1. /\ WithReloc(file, elf, r).pass = elf.pass /\ WithReloc(file, elf, r).size = elf.size
          /\ WithReloc(file, elf, r).end = elf.end /\ WithReloc(file, elf, r).host = elf.host
          /\ WithReloc(file, elf, r).at = elf.at
          /\ DOMAIN WithReloc(file, elf, r).image = DOMAIN elf.image
      BY ONLY <1>2, WithRelocIs
    <3> QED
      BY <3>1
  <2>2. LaidOut(file, d, Len(file.sections))
    BY <1>3, <2>1, StillLaidOut
  <2>3. Padded(file.sections) => RelocsKept(n, k + 1)'
    BY <1>1, <1>2, <1>3, <1>4, RelocKeeps
  <2>4. RelocatedSoFar'
    BY <1>1, <1>3, <2>2, <2>3 DEF RelocatedSoFar
  <2> QED
    BY <1>1, <2>1, <2>4 DEF ElfSoFar
<1>5. CASE ~file.sections[r.sec].alloc
  <2>1. Done(n, k + 1) = Done(n, k)
    BY <1>2, <1>3, <1>5, DoneGrows
  <2>2. elf' = elf
    BY <1>1, <1>5
  <2>3. Padded(file.sections) => RelocsKept(n, k + 1)'
    BY <1>1, <1>3, <2>1, <2>2, KeptStays
  <2>4. RelocatedSoFar'
    BY <1>1, <1>3, <2>2, <2>3 DEF RelocatedSoFar
  <2> QED
    BY <1>1, <2>2, <2>4 DEF ElfSoFar
<1> QED
  BY <1>4, <1>5

LEMMA ElfReadKeeps ==
    ASSUME Asked, Typed, ElfRightSoFar,
           ReadHeader \/ MeasureSection \/ AllocateImage \/ PlaceSection \/ ResolveSymbols
               \/ RelocateWord \/ LeaveSection
    PROVE  ElfRightSoFar'
<1>1. /\ phase = "load" /\ Chosen = "ELF" /\ phase' \in {"load", "failed"} /\ ranks' = ranks
  BY StepKinds DEF ElfReads, ElfRead
<1>2. file \in Files /\ file.kind = "elf" /\ ElfSoFar
  BY <1>1, ElfIsChosen DEF ElfRightSoFar
<1>3. CASE phase' = "failed"
  BY <1>3 DEF ElfRightSoFar
<1>4. CASE phase' # "failed"
  <2>1. ElfSoFar'
    BY <1>2, <1>4, HeaderRead, SectionMeasured, ImageAllocated, SectionPlaced, SymbolsResolved,
       WordRelocated, SectionLeft
  <2> QED
    BY <1>1, <1>4, <2>1 DEF ElfRightSoFar
<1> QED
  BY <1>3, <1>4

\* What has been read stays while the project is filled.
LEMMA ElfStays ==
    ASSUME UNCHANGED <<file, ranks, line, byte, elf>>
    PROVE  /\ Chosen' = Chosen /\ ElfSegment(file, elf)' = ElfSegment(file, elf)
           /\ (ElfSoFar' <=> ElfSoFar)
<1>1. Chosen' = Chosen
  BY DEF Chosen, IsBest
<1>2. \A n, k : RelocsKept(n, k)' <=> RelocsKept(n, k)
  <2>1. \A n, k : /\ Done(n, k)' = Done(n, k) /\ Touched(Done(n, k))' = Touched(Done(n, k))
    BY SamePlaces
  <2>2. \A p : /\ RelocAt(p)' = RelocAt(p) /\ WordOf(p)' = WordOf(p)
               /\ Target(p)' = Target(p) /\ (Linkable(p)' <=> Linkable(p))
    BY SamePlaces
  <2>3. \A n, k : Linked(Done(n, k))' <=> Linked(Done(n, k))
    BY <2>1, <2>2 DEF Linked
  <2> QED
    BY <2>1, <2>3 DEF RelocsKept
<1>3. RelocatedSoFar' <=> RelocatedSoFar
  <2> PICK n, k : n = line /\ k = byte
    OBVIOUS
  <2>1. RelocatedSoFar <=> /\ n <= Len(file.sections) /\ LaidOut(file, elf, Len(file.sections))
                           /\ Padded(file.sections) => RelocsKept(n, k)
    BY DEF RelocatedSoFar
  <2>2. RelocatedSoFar' <=> /\ n <= Len(file.sections) /\ LaidOut(file, elf, Len(file.sections))
                            /\ Padded(file.sections) => RelocsKept(n, k)'
    BY DEF RelocatedSoFar
  <2> QED
    BY <1>2, <2>1, <2>2
<1>4. (MeasuredSoFar' <=> MeasuredSoFar) /\ (PlacedSoFar' <=> PlacedSoFar)
  BY DEF MeasuredSoFar, PlacedSoFar
<1>5. ElfSoFar' <=> ElfSoFar
  BY <1>3, <1>4 DEF ElfSoFar
<1> QED
  BY <1>1, <1>5

LEMMA ElfStep == Asked /\ Typed /\ Untouched /\ ElfRightSoFar /\ [Next]_vars => ElfRightSoFar'
<1> SUFFICES ASSUME Asked, Typed, Untouched, ElfRightSoFar, [Next]_vars
             PROVE  ElfRightSoFar'
  OBVIOUS
<1>1. CASE Match
  BY <1>1 DEF Match, read, ElfRightSoFar
<1>2. CASE Choose
  <2>1. UNCHANGED <<file, ranks, line, byte, elf>> /\ phase = "match"
    BY <1>2 DEF Choose, read
  <2>2. phase' \in {"dialog", "load", "failed"} /\ (phase' = "dialog" => Chosen = "Binary")
    BY <1>2 DEF Choose
  <2>3. ElfSoFar
    BY <2>1, ElfStartIs DEF ElfRightSoFar, ElfSoFar
  <2> QED
    BY <2>1, <2>2, <2>3, ElfStays DEF ElfRightSoFar
<1>3. CASE ParseHex \/ ParseS19 \/ PushS19
  <2>1. phase' \in {"load", "failed"} /\ ranks' = ranks /\ Chosen \in {"Hex", "S19"}
    BY <1>3 DEF ParseHex, ParseS19, PushS19, ParseLine
  <2>2. Chosen' # "ELF"
    BY <2>1 DEF Chosen, IsBest
  <2> QED
    BY <2>1, <2>2 DEF ElfRightSoFar
<1>4. CASE ReadHeader \/ MeasureSection \/ AllocateImage \/ PlaceSection \/ ResolveSymbols
             \/ RelocateWord \/ LeaveSection
  BY <1>4, ElfReadKeeps
<1>5. CASE LoadElf
  <2>1. /\ UNCHANGED <<file, ranks, line, byte, elf>> /\ segs' = segs /\ phase = "load"
        /\ phase' = "add" /\ todo' = ElfEffects(file, elf) /\ Chosen = "ELF"
        /\ elf.pass = "relocate" /\ ~MoreSections
    BY <1>5 DEF LoadElf, InPass, Proceed, read
  <2>2. ElfSoFar /\ segs = {} /\ file \in Files /\ file.kind = "elf"
    BY <2>1, ElfIsChosen DEF ElfRightSoFar, Untouched
  <2>3. line = Len(file.sections)
    <3>1. line <= Len(file.sections) /\ line \in Nat /\ Len(file.sections) \in Nat
      BY <2>1, <2>2, ElfFileIs DEF ElfSoFar, RelocatedSoFar, Typed
    <3> QED
      BY <2>1, <3>1 DEF MoreSections
  <2>4. todo' # <<>> /\ todo'[1] = AddSeg(ElfSegment(file, elf)) /\ OnlyFirst(todo')
    BY <2>1, <2>2, ElfEffectsAre DEF OnlyFirst
  <2>5. ElfAdding'
    BY <2>1, <2>2, <2>3, <2>4 DEF ElfAdding
  <2> QED
    BY <2>1, <2>2, <2>5, ElfStays DEF ElfRightSoFar
<1>6. CASE LoadHex \/ LoadS19 \/ LoadMach \/ LoadFlat \/ LoadBinary
  <2>1. UNCHANGED <<file, ranks, line, byte, elf>> /\ phase' \in {"add", "failed"} /\ Chosen # "ELF"
    BY <1>6 DEF LoadHex, LoadS19, LoadMach, LoadFlat, LoadBinary, Proceed, read, ElfRightSoFar
  <2> QED
    BY <2>1, ElfStays DEF ElfRightSoFar
<1>7. CASE LoadCommand
  <2>1. ranks' = ranks /\ phase' = "add" /\ Chosen = "Mach-O"
    BY <1>7 DEF LoadCommand, MoreCommands
  <2>2. Chosen' # "ELF"
    BY <2>1 DEF Chosen, IsBest
  <2> QED
    BY <2>1, <2>2 DEF ElfRightSoFar
<1>8. CASE AddSegment \/ AddSymbol \/ AddLabel \/ LeaveOut
  <2>1. /\ UNCHANGED <<file, ranks, line, byte, elf>> /\ phase = "add" /\ todo # <<>>
        /\ phase' # "thrown" => phase' = "add" /\ todo' = Tail(todo)
        /\ phase' \in {"add", "thrown"}
    BY <1>8 DEF AddSegment, AddSymbol, AddLabel, LeaveOut, CreateSymbol, Next1, read
  <2>2. CASE phase' = "thrown" \/ Chosen # "ELF"
    BY <2>1, <2>2, ElfStays DEF ElfRightSoFar
  <2>3. CASE phase' # "thrown" /\ Chosen = "ELF"
    <3>1. ElfAdding /\ ElfSoFar
      BY <2>1, <2>3 DEF ElfRightSoFar
    <3>2. /\ Head(todo) = todo[1]
          /\ \A i \in DOMAIN todo' : todo'[i].op # "segment"
      <4>1. IsList(todo)
        BY DEF Typed, AreEffects
      <4>2. /\ Head(todo) = todo[1] /\ IsList(todo')
            /\ \A i \in DOMAIN todo' : i + 1 \in DOMAIN todo /\ todo'[i] = todo[i + 1]
        BY <2>1, <2>3, <4>1, TailIs
      <4>3. ASSUME NEW i \in DOMAIN todo' PROVE todo'[i].op # "segment"
        <5>1. i \in Nat \ {0}
          BY <4>2, ListIs
        <5>2. i + 1 # 1 /\ i + 1 \in DOMAIN todo /\ todo'[i] = todo[i + 1]
          BY <4>2, <5>1
        <5> QED
          BY <3>1, <5>2 DEF ElfAdding, OnlyFirst
      <4> QED
        BY <4>2, <4>3
    <3>3. segs' = {ElfSegment(file, elf)}
      <4>1. CASE AddSegment
        <5>1. /\ Head(todo).op = "segment" /\ segs' = Inserted(segs, Head(todo).seg)
          BY <2>3, <4>1 DEF AddSegment, Next1
        <5>2. segs = {} /\ Head(todo).seg = ElfSegment(file, elf)
          BY <2>1, <3>1, <3>2, <5>1 DEF ElfAdding, AddSeg
        <5> QED
          BY <5>1, <5>2 DEF Inserted
      <4>2. CASE AddSymbol \/ AddLabel \/ LeaveOut
        <5>1. Head(todo).op # "segment" /\ segs' = segs
          BY <4>2 DEF AddSymbol, AddLabel, LeaveOut, CreateSymbol, Next1
        <5> QED
          BY <3>1, <3>2, <5>1 DEF ElfAdding, AddSeg
      <4> QED
        BY <1>8, <4>1, <4>2
    <3>4. todo' = <<>> \/ todo'[1].op # "segment"
      <4>1. IsList(todo')
        BY <2>1, <2>3, TailIs DEF Typed, AreEffects
      <4>2. CASE todo' # <<>>
        <5>1. 1 \in DOMAIN todo'
          BY <4>1, <4>2, TailIs
        <5> QED
          BY <3>2, <5>1
      <4> QED
        BY <4>2
    <3>5. ElfAdding'
      BY <2>1, <3>1, <3>2, <3>3, <3>4 DEF ElfAdding, OnlyFirst
    <3> QED
      BY <2>1, <3>1, <3>5, ElfStays DEF ElfRightSoFar
  <2> QED
    BY <2>2, <2>3
<1>9. CASE Finish
  <2>1. /\ UNCHANGED <<file, ranks, line, byte, elf, todo, segs>> /\ phase = "add"
        /\ phase' = "accepted" /\ todo = <<>>
    BY <1>9 DEF Finish, read
  <2>2. ElfAdding => ElfAdding'
    BY <2>1 DEF ElfAdding, OnlyFirst
  <2> QED
    BY <2>1, <2>2, ElfStays DEF ElfRightSoFar
<1>10. CASE Report
  BY <1>10 DEF Report, ElfRightSoFar
<1>11. CASE Timeout \/ UNCHANGED vars
  <2>1. UNCHANGED <<file, ranks, line, byte, elf, todo, segs, phase>>
    BY <1>11 DEF Timeout, vars, read
  <2>2. ElfAdding => ElfAdding'
    BY <2>1 DEF ElfAdding, OnlyFirst
  <2> QED
    BY <2>1, <2>2, ElfStays DEF ElfRightSoFar
<1> QED
  BY <1>1, <1>2, <1>3, <1>4, <1>5, <1>6, <1>7, <1>8, <1>9, <1>10, <1>11 DEF Next

\* The one segment holds the image.
LEMMA SegmentHolds ==
    ASSUME NEW f, NEW e, e.size \in Nat, DOMAIN e.image = 0 .. e.size - 1
    PROVE  /\ DOMAIN ElfSegment(f, e).data = DOMAIN e.image
           /\ \A o \in DOMAIN e.image : ElfSegment(f, e).data[o] = e.image[o]
<1> PICK n \in Nat : n = e.size
  OBVIOUS
<1> PICK a, b : a = LoadAddress(f) /\ b = e.image
  OBVIOUS
<1> PICK m : m = Segment(a, n, b, n) /\ m = ElfSegment(f, e)
  BY DEF ElfSegment
<1>1. CASE n = 0
  BY <1>1 DEF Segment, Undefined
<1>2. CASE n # 0
  <2>1. m.data = [i \in 0 .. n - 1 |-> IF i < n THEN b[i] ELSE 0]
    BY <1>2 DEF Segment
  <2> QED
    BY <2>1
<1> QED
  BY <1>1, <1>2

LEMMA ElfKept ==
    ASSUME Asked, Typed, ElfRightSoFar
    PROVE  ElfImageKept
<1> SUFFICES ASSUME phase = "accepted", Chosen = "ELF", Padded(file.sections)
             PROVE  \E m \in segs : segs = {m} /\ SectionsLaidOut(m) /\ RelocsLinked(m)
  BY DEF ElfImageKept
<1>1. file \in Files /\ file.kind = "elf"
  BY ElfIsChosen
<1> PICK N \in Nat : N = Len(file.sections) /\ DOMAIN file.sections = 1 .. N
  BY <1>1, ElfFileIs
<1> PICK m : m = ElfSegment(file, elf)
  OBVIOUS
<1>2. elf.pass = "relocate" /\ line = N /\ segs = {m}
  BY DEF ElfRightSoFar, ElfAdding
<1>3. LaidOut(file, elf, N) /\ RelocsKept(N, byte)
  BY <1>2 DEF ElfRightSoFar, ElfSoFar, RelocatedSoFar
<1>4. DOMAIN m.data = DOMAIN elf.image /\ \A o \in DOMAIN elf.image : m.data[o] = elf.image[o]
  BY <1>3, SegmentHolds DEF LaidOut
<1>5. Done(N, byte) = ElfRelocs
  BY <1>1, DoneAll
<1>6. SectionsLaidOut(m)
  <2>1. \A i \in DOMAIN file.sections : Placed(file.sections[i]) <=> i \in PlacedIn(file, N)
    BY DEF PlacedIn
  <2>2. ASSUME NEW i \in PlacedIn(file, N), NEW o \in 0 .. file.sections[i].size - 1
        PROVE  elf.at[i] + o \in DOMAIN m.data
    BY <1>1, <1>3, <1>4, InImage
  <2>3. ASSUME NEW i \in PlacedIn(file, N)
        PROVE  /\ elf.at[i] \in Nat /\ file.sections[i].size \in Nat /\ IsSection(file.sections[i])
               /\ Placed(file.sections[i])
    <3>1. i \in 1 .. N /\ IsSection(file.sections[i]) /\ Placed(file.sections[i])
      BY <1>1, ElfFileIs DEF PlacedIn
    <3> QED
      BY <1>3, <3>1 DEF LaidOut, IsSection
  <2>4. ASSUME NEW i \in PlacedIn(file, N)
        PROVE  Extent(i) \subseteq DOMAIN m.data
    <3> PICK a \in Nat, z \in Nat : a = elf.at[i] /\ z = file.sections[i].size
      BY <2>3
    <3> SUFFICES ASSUME NEW x \in a .. a + z - 1
                 PROVE  x \in DOMAIN m.data
      BY DEF Extent
    <3>1. x - a \in 0 .. z - 1 /\ a + (x - a) = x
      BY ONLY a \in Nat, z \in Nat, x \in a .. a + z - 1
    <3> QED
      BY <2>2, <3>1
  <2>5. ASSUME NEW i \in PlacedIn(file, N), NEW j \in PlacedIn(file, N), i < j
        PROVE  Extent(i) \cap Extent(j) = {}
    <3> PICK a \in Nat, z \in Nat : a = elf.at[i] /\ z = file.sections[i].size
      BY <2>3
    <3> PICK b \in Nat, y \in Nat : b = elf.at[j] /\ y = file.sections[j].size
      BY <2>3
    <3>1. a + z <= b
      BY <1>3, <2>5 DEF LaidOut
    <3>2. (a .. a + z - 1) \cap (b .. b + y - 1) = {}
      BY ONLY a \in Nat, z \in Nat, b \in Nat, y \in Nat, <3>1
    <3> QED
      BY <3>2 DEF Extent
  <2>6. ASSUME NEW i \in PlacedIn(file, N), NEW j \in PlacedIn(file, N), i # j
        PROVE  Extent(i) \cap Extent(j) = {}
    <3>1. i \in Nat /\ j \in Nat
      BY DEF PlacedIn
    <3>2. i < j \/ j < i
      BY <2>6, <3>1
    <3> QED
      BY <2>5, <3>2
  <2>7. ASSUME NEW i \in PlacedIn(file, N), file.sections[i].type = "progbits",
               NEW o \in DOMAIN file.sections[i].words
        PROVE  \/ \E p \in ElfRelocs : WordOf(p) = elf.at[i] + o
               \/ m.data[elf.at[i] + o] = file.sections[i].words[o]
    <3> PICK w : w = elf.at[i] + o
      OBVIOUS
    <3>1. w \in DOMAIN elf.image
      BY <1>4, <2>2, <2>3, <2>7 DEF IsSection
    <3>2. w \in Touched(ElfRelocs) \/ elf.image[w] = file.sections[i].words[o]
      BY <1>3, <1>5, <2>7 DEF RelocsKept, WordsKept
    <3> QED
      BY <1>4, <3>1, <3>2 DEF Touched
  <2> QED
    BY <2>1, <2>4, <2>6, <2>7 DEF SectionsLaidOut
<1>7. RelocsLinked(m)
  <2> SUFFICES ASSUME NEW p \in ElfRelocs, Linkable(p)
               PROVE  Extracted(RelocAt(p).type, m.data[WordOf(p)]) = Target(p)
    BY DEF RelocsLinked
  <2>1. WordOf(p) \in DOMAIN elf.image
    BY <1>1, <1>3, LinkIs
  <2>2. Extracted(RelocAt(p).type, elf.image[WordOf(p)]) = Target(p)
    BY <1>3, <1>5 DEF RelocsKept, Linked
  <2> QED
    BY <1>4, <2>1, <2>2
<1> QED
  BY <1>2, <1>6, <1>7

\* Once an ELF file whose sections are padded has been loaded, they lie apart
\* in the one segment, their words are the file's but where relocations are,
\* and each branch or relative word that can be linked leads to its symbol,
\* whatever the sections, their order and alignments, and wherever malloc() put
\* the image (elf.cpp, loadFromFile).
THEOREM ElfImageTheorem == Spec => []ElfImageKept
<1> DEFINE Inv == Asked /\ Typed /\ Untouched /\ ElfRightSoFar
<1>1. Init => Inv
  BY AskedInit, TypedInit DEF Init, Untouched, ElfRightSoFar
<1>2. Inv /\ [Next]_vars => Inv'
  BY AskedStep, TypedStep, UntouchedStep, ElfStep
<1>3. Inv => ElfImageKept
  BY ElfKept
<1> QED
  BY <1>1, <1>2, <1>3, PTL DEF Spec
=============================================================================
