----------------------------- MODULE ViewProofs -----------------------------
(***************************************************************************)
(* Theorems about what the user sees and does in the view.  Of Input, for  *)
(* every set of keys, every clipboard, every file and however long the     *)
(* user goes on: that the history is read where there is one, and that he  *)
(* keeps his place in the listing.  Of Listing, for every memory, address  *)
(* and word: that an instruction is listed as what it is decoded to do.    *)
(***************************************************************************)
EXTENDS Input, Listing, SequenceTheorems, FiniteSetTheorems, WellFoundedInduction, TLAPS

Char == Letters \cup {Newline}
Text == Seq(Char)

\* HistoryInRange is inductive with the types of what it is computed from.  That
\* the cursor is never behind the command keeps the command a string.
Typed ==
    /\ command \in Text /\ full \in Text /\ history \in Seq(Text)
    /\ offset \in Int /\ offset <= 0

TInv == Typed /\ HistoryInRange

-----------------------------------------------------------------------------
(* Strings *)

LEMMA PartIsText ==
    ASSUME NEW s \in Text, NEW m \in Int, NEW n \in Int, 1 <= m, n <= Len(s)
    PROVE  SubSeq(s, m, n) \in Text
<1>1. Len(s) \in Nat
  BY LenProperties DEF Text
<1>2. \A i \in m .. n : s[i] \in Char
  BY <1>1, ElementOfSeq DEF Text
<1> QED
  BY <1>2, SubSeqProperties DEF Text

LEMMA JoinIsText ==
    ASSUME NEW s \in Text, NEW t \in Text
    PROVE  s \o t \in Text
BY ConcatProperties DEF Text

LEMMA InsertedIsText ==
    ASSUME NEW s \in Text, NEW t \in Text, NEW i \in Int, i <= Len(s)
    PROVE  Inserted(s, i, t) \in Text
<1>1. Len(s) \in Nat
  BY LenProperties DEF Text
<1>2. CASE i < 0
  BY <1>2 DEF Inserted
<1>3. CASE i >= 0
  <2>1. SubSeq(s, 1, i) \in Text /\ SubSeq(s, i + 1, Len(s)) \in Text
    BY <1>1, <1>3, PartIsText
  <2> QED
    BY <1>3, <2>1, JoinIsText DEF Inserted
<1> QED
  BY <1>2, <1>3

LEMMA RemovedIsText ==
    ASSUME NEW s \in Text, NEW i \in Int
    PROVE  Removed(s, i) \in Text
<1> DEFINE spot == IF i < 0 THEN i + Len(s) ELSE i
<1>1. Len(s) \in Nat
  BY LenProperties DEF Text
<1>2. CASE spot \in 0 .. Len(s) - 1
  <2>1. SubSeq(s, 1, spot) \in Text /\ SubSeq(s, spot + 2, Len(s)) \in Text
    BY <1>1, <1>2, PartIsText
  <2>2. Removed(s, i) = SubSeq(s, 1, spot) \o SubSeq(s, spot + 2, Len(s))
    <3>1. Removed(s, i) = SubSeq(s, 1, (spot + 1) - 1) \o SubSeq(s, (spot + 1) + 1, Len(s))
      BY <1>2 DEF Removed, RemoveAt
    <3>2. (spot + 1) - 1 = spot /\ (spot + 1) + 1 = spot + 2
      BY <1>1
    <3> QED
      BY <3>1, <3>2
  <2> QED
    BY <2>1, <2>2, JoinIsText
<1>3. CASE spot \notin 0 .. Len(s) - 1
  BY <1>3 DEF Removed
<1> QED
  BY <1>2, <1>3

LEMMA ChoppedIsText ==
    ASSUME NEW s \in Text, NEW n \in Nat
    PROVE  Chopped(s, n) \in Text /\ Len(Chopped(s, n)) \in 0 .. Len(s)
<1>1. Len(s) \in Nat
  BY LenProperties DEF Text
<1>2. \A i \in 1 .. Len(s) - n : s[i] \in Char
  BY <1>1, ElementOfSeq DEF Text
<1> QED
  BY <1>1, <1>2, PartIsText, SubSeqProperties DEF Chopped

\* Any text put in front of the history leaves the places in it where they were
\* or moves them back.
LEMMA FrontOfHistory ==
    ASSUME NEW h \in Seq(Text), NEW s \in Text
    PROVE  /\ <<s>> \o h \in Seq(Text)
           /\ Len(h) \in Nat /\ Len(<<s>> \o h) = Len(h) + 1
<1>1. <<s>> \in Seq(Text) /\ Len(<<s>>) = 1
  OBVIOUS
<1>2. Len(h) \in Nat
  BY LenProperties
<1> QED
  BY <1>1, <1>2, ConcatProperties

-----------------------------------------------------------------------------
(* The commands of the terminal *)

Rest == <<command, offset, full, history, pos>>

LEMMA MoveKeeps ==
    ASSUME TInv, NEW to \in Int, to <= 0, Move(to)
    PROVE  TInv'
BY DEF TInv, Typed, Move, HistoryInRange

LEMMA EditKeeps ==
    ASSUME TInv, NEW new \in Text, NEW to \in Int, to <= 0, Edit(new, to)
    PROVE  TInv'
BY DEF TInv, Typed, Edit, HistoryInRange

\* A history of a command more, or the same, and a place in it.
LEMMA RecallKeeps ==
    ASSUME TInv, UNCHANGED <<offset, full>>,
           history' = history \/ history' = <<command>> \o history,
           pos' \in -1 .. Len(history') - 1,
           command' = (IF pos' >= 0 THEN history'[pos' + 1] ELSE command)
             \/ command' = (IF pos' >= 0 THEN history'[pos' + 1] ELSE Nothing)
    PROVE  TInv'
<1>1. history' \in Seq(Text) /\ Len(history') \in Nat
  BY FrontOfHistory, LenProperties DEF TInv, Typed
<1>2. pos' >= 0 => history'[pos' + 1] \in Text
  BY <1>1, ElementOfSeq
<1>3. Nothing \in Text
  BY EmptySeq DEF Nothing, Text
<1>4. command' \in Text
  BY <1>2, <1>3 DEF TInv, Typed
<1> QED
  BY <1>1, <1>4 DEF TInv, Typed, HistoryInRange

LEMMA PreviousKeeps ==
    ASSUME TInv, PreviousHistory
    PROVE  TInv'
<1>1. /\ Len(history) \in Nat /\ pos \in Int /\ -1 <= pos /\ pos < Len(history)
      /\ Len(<<command>> \o history) = Len(history) + 1
  BY FrontOfHistory, LenProperties DEF TInv, Typed, HistoryInRange
<1>2. Previous \in -1 .. Len(history) - 1
  BY <1>1 DEF Previous
<1>3. pos' \in -1 .. Len(history') - 1
  BY <1>1, <1>2 DEF PreviousHistory
<1> QED
  BY <1>3, RecallKeeps DEF PreviousHistory

LEMMA NextKeeps ==
    ASSUME TInv, NextHistory
    PROVE  TInv'
<1>1. /\ Len(history) \in Nat /\ pos \in Int /\ -1 <= pos /\ pos < Len(history)
      /\ Len(<<command>> \o history) = Len(history) + 1
  BY FrontOfHistory, LenProperties DEF TInv, Typed, HistoryInRange
<1>2. pos' \in -1 .. Len(history') - 1
  BY <1>1 DEF NextHistory, Following
<1> QED
  BY <1>2, RecallKeeps DEF NextHistory

LEMMA ExecKeeps ==
    ASSUME TInv, NEW lines \in Seq(Text) \ {<<>>}, NEW rest \in Text, Exec(lines, rest)
    PROVE  TInv'
<1> DEFINE joined == [lines EXCEPT ![1] = full \o @]
<1>1. Len(lines) \in Nat \ {0} /\ lines[1] \in Text
  BY EmptySeq, ElementOfSeq
<1>2. joined \in Seq(Text) /\ Len(joined) = Len(lines)
  <2>1. full \o lines[1] \in Text
    BY <1>1, JoinIsText DEF TInv, Typed
  <2> QED
    BY <1>1, <2>1, ExceptSeq
<1>3. Reverse(joined) \in Seq(Text)
  <2>1. \A i \in 1 .. Len(joined) : joined[(Len(joined) - i) + 1] \in Text
    BY <1>1, <1>2, ElementOfSeq
  <2>2. Reverse(joined) \in [1 .. Len(joined) -> Text]
    BY <2>1 DEF Reverse
  <2>3. Len(joined) \in Nat
    BY <1>1, <1>2
  <2>4. \A n \in Nat : [1 .. n -> Text] \subseteq Seq(Text)
    BY SeqDef
  <2> HIDE DEF joined
  <2> QED
    BY <2>2, <2>3, <2>4
<1>4. history' \in Seq(Text) /\ Len(history') \in Nat
  BY <1>3, ConcatProperties, LenProperties DEF Exec, TInv, Typed
<1>5. Nothing \in Text
  BY EmptySeq DEF Nothing, Text
<1> QED
  BY <1>4, <1>5 DEF Exec, TInv, Typed, HistoryInRange

LEMMA CommandKeeps ==
    ASSUME TInv, NEW kc, KeyCommand(kc)
    PROVE  TInv'
<1>1. /\ command \in Text /\ full \in Text /\ Len(command) \in Nat
      /\ offset \in Int /\ offset <= 0 /\ Cursor \in Int
  BY LenProperties DEF TInv, Typed, Text, Cursor
<1>2. Nothing \in Text /\ <<Newline>> \in Text
  <2>1. Newline \in Char
    BY DEF Char
  <2>2. <<Newline>> \in Seq(Char)
    BY <2>1
  <2> QED
    BY <2>2, EmptySeq DEF Nothing, Text
<1>3. CASE BeginningOfLine \/ EndOfLine \/ ForwardChar \/ BackwardChar \/ ClearScreen
  BY <1>1, <1>3, MoveKeeps
     DEF BeginningOfLine, EndOfLine, ForwardChar, BackwardChar, ClearScreen
<1>4. CASE DeleteChar
  BY <1>1, <1>4, RemovedIsText, EditKeeps DEF DeleteChar
<1>5. CASE BackwardDeleteChar
  BY <1>1, <1>5, RemovedIsText, EditKeeps DEF BackwardDeleteChar
<1>6. CASE KillLine
  BY <1>1, <1>6, ChoppedIsText, EditKeeps DEF KillLine
<1>7. CASE Execute
  <2>1. <<command>> \in Seq(Text) \ {<<>>}
    BY <1>1
  <2> QED
    BY <1>2, <1>7, <2>1, ExecKeeps DEF Execute
<1>8. CASE Extend
  <2>1. (full \o command) \o <<Newline>> \in Text
    BY <1>1, <1>2, JoinIsText
  <2>2. Len(history) \in Nat
    BY LenProperties DEF TInv, Typed
  <2> QED
    BY <1>2, <1>8, <2>1, <2>2 DEF Extend, TInv, Typed, HistoryInRange
<1> QED
  BY <1>3, <1>4, <1>5, <1>6, <1>7, <1>8, PreviousKeeps, NextKeeps DEF KeyCommand

LEMMA InsertKeeps ==
    ASSUME TInv, NEW new \in Text, Insert(new)
    PROVE  TInv'
<1>1. /\ command \in Text /\ Len(command) \in Nat /\ offset \in Int /\ offset <= 0
      /\ Cursor \in Int /\ Cursor <= Len(command)
  BY LenProperties DEF TInv, Typed, Text, Cursor
<1>2. Inserted(command, Cursor, new) \in Text
  BY <1>1, InsertedIsText
<1> QED
  BY <1>1, <1>2, EditKeeps DEF Insert

LEMMA KeyKeeps ==
    ASSUME TInv, NEW key, TerminalKey(key)
    PROVE  TInv'
<1>1. CASE Bound(key) # {}
  BY <1>1, CommandKeeps DEF TerminalKey
<1>2. ASSUME key \in Letters, Insert(<<key>>)
      PROVE  TInv'
  <2>1. key \in Char
    BY <1>2 DEF Char
  <2>2. <<key>> \in Text
    BY <2>1 DEF Text
  <2> QED
    BY <1>2, <2>2, InsertKeeps
<1>3. CASE UNCHANGED Rest
  BY <1>3 DEF Rest, TInv, Typed, HistoryInRange
<1> QED
  BY <1>1, <1>2, <1>3 DEF TerminalKey, Rest

LEMMA PasteKeeps ==
    ASSUME TInv, NEW lines \in Clipboard, Paste(lines)
    PROVE  TInv'
<1>1. lines \in Seq(Text) \ {<<>>} /\ Len(lines) \in Nat \ {0} /\ lines[1] \in Text
  BY ClipboardAssumption, EmptySeq, ElementOfSeq DEF Text, Char
<1>2. CASE Len(lines) = 1
  BY <1>1, <1>2, InsertKeeps DEF Paste
<1>3. CASE Len(lines) # 1
  <2> DEFINE front == Chopped(command, -offset)
             back  == SubSeq(command, Len(front) + 1, Len(command))
             all   == [lines EXCEPT ![1] = front \o @]
  <2>1. command \in Text /\ Len(command) \in Nat /\ -offset \in Nat
    BY LenProperties DEF TInv, Typed, Text
  <2>2. front \in Text /\ Len(front) \in 0 .. Len(command)
    BY <2>1, ChoppedIsText
  <2>3. back \in Text
    BY <2>1, <2>2, PartIsText
  <2>4. front \o lines[1] \in Text
    BY <1>1, <2>2, JoinIsText
  <2>5. all \in Seq(Text) /\ Len(all) = Len(lines)
    BY <1>1, <2>4, ExceptSeq
  <2>6. all # <<>>
    BY <1>1, <2>5, EmptySeq
  <2>7. Exec(all, back)
    BY <1>3 DEF Paste
  <2> QED
    BY <2>3, <2>5, <2>6, <2>7, ExecKeeps
<1> QED
  BY <1>2, <1>3

-----------------------------------------------------------------------------
(* The whole window *)

\* Whatever the user types, pastes and recalls, the place in the history is one
\* that there is (pythonterminalview.cpp:178).
THEOREM HistoryTheorem == Spec => []HistoryInRange
<1>1. Init => TInv
  <2>1. <<>> \in Text /\ <<>> \in Seq(Text) /\ Len(<<>>) = 0
    BY EmptySeq DEF Text
  <2> QED
    BY <2>1 DEF Init, TerminalInit, TInv, Typed, HistoryInRange, Nothing
<1>2. TInv /\ [Next]_vars => TInv'
  <2> SUFFICES ASSUME TInv, [Next]_vars
               PROVE  TInv'
    OBVIOUS
  <2>1. CASE UNCHANGED terminal
    BY <2>1 DEF terminal, TInv, Typed, HistoryInRange
  <2>2. CASE KeyPress
    BY <2>1, <2>2, KeyKeeps DEF KeyPress
  <2>3. CASE Modifier
    BY <2>1, <2>3 DEF Modifier, TerminalModifier, TInv, Typed, HistoryInRange
  <2>4. CASE PasteLines
    BY <2>4, PasteKeeps DEF PasteLines
  <2>5. CASE FocusMoves \/ Mouse \/ MenuOrDialog \/ OpenFile \/ OtherJump \/ Background
    BY <2>1, <2>5 DEF FocusMoves, Mouse, MenuOrDialog, OpenFile, NewInterpreter, OtherJump, Background
  <2> QED
    BY <2>1, <2>2, <2>3, <2>4, <2>5 DEF Next, vars
<1>3. TInv => HistoryInRange
  BY DEF TInv
<1> QED
  BY <1>1, <1>2, <1>3, PTL DEF Spec

-----------------------------------------------------------------------------
(* Induction *)

LEMMA LeastNat ==
    ASSUME NEW D, D \subseteq Nat, D # {}
    PROVE  \E d \in D : \A e \in D : d <= e
<1>1. PICK d \in D : \A e \in D : ~(<<e, d>> \in OpToRel(<, Nat))
  BY WFMin, NatLessThanWellFounded
<1>2. ASSUME NEW e \in D PROVE d <= e
  <2>1. d \in Nat /\ e \in Nat
    OBVIOUS
  <2>2. ~(e < d)
    BY <1>1, <2>1 DEF OpToRel
  <2> QED
    BY <2>1, <2>2
<1> QED
  BY <1>2

\* Induction over a set of naturals.
LEMMA ByInduction ==
    ASSUME NEW S, 0 \in S, \A n \in Nat : n \in S => n + 1 \in S
    PROVE  Nat \subseteq S
<1> DEFINE D == {n \in Nat : n \notin S}
<1>1. SUFFICES ASSUME D # {} PROVE FALSE
  OBVIOUS
<1>2. PICK d \in D : \A e \in D : d <= e
  <2>1. D \subseteq Nat
    OBVIOUS
  <2> HIDE DEF D
  <2> QED
    BY <1>1, <2>1, LeastNat
<1>3. d \in Nat /\ d # 0 /\ d - 1 \in Nat /\ d - 1 \in S
  BY <1>2
<1> QED
  BY <1>3

-----------------------------------------------------------------------------
(* The lines of the code view *)

\* Items have two addresses and do not overlap.
Apart(items) == items \subseteq Addrs /\ \A a \in items : a + 1 \in Addrs \ items

\* The lines above an address.
Above(items, a) == {s \in Starts(items) : s < a}

LEMMA AboveAre ==
    ASSUME NEW items, NEW a
    PROVE  /\ Addrs \subseteq Nat /\ Starts(items) \subseteq Addrs
           /\ IsFiniteSet(Above(items, a)) /\ Cardinality(Above(items, a)) \in Nat
<1>1. Addrs \subseteq Nat /\ IsFiniteSet(Addrs)
  BY CodeViewAssumption, FS_Interval DEF Addrs
<1>2. Starts(items) \subseteq Addrs /\ Above(items, a) \subseteq Addrs
  BY DEF Starts, Above
<1> QED
  BY <1>1, <1>2, FS_Subset, FS_CardinalityType

\* The first address begins the first line.
LEMMA FirstLine ==
    ASSUME NEW items, Apart(items)
    PROVE  Shows(items, 0, 0)
<1>1. 0 \in Starts(items)
  BY CodeViewAssumption DEF Apart, Addrs, Starts
<1>2. Above(items, 0) = {}
  <2>1. ASSUME NEW s \in Starts(items), s < 0 PROVE FALSE
    BY <2>1, AboveAre
  <2> QED
    BY <2>1 DEF Above
<1> QED
  BY <1>1, <1>2, FS_EmptySet DEF Shows, Above

\* Behind a line, the next begins.
LEMMA NextShows ==
    ASSUME NEW items, Apart(items), NEW r, NEW a, Shows(items, r, a),
           NEW z, z = a + (IF a \in items THEN 2 ELSE 1)
    PROVE  /\ r \in Nat /\ a \in Nat /\ z \in Nat /\ a < z
           /\ \A s \in Starts(items) : s < z => s <= a
           /\ z \in Addrs => Shows(items, r + 1, z)
<1>1. /\ a \in Starts(items) /\ r = Cardinality(Above(items, a)) /\ r \in Nat /\ a \in Addrs
      /\ a \in Nat /\ IsFiniteSet(Above(items, a))
  BY AboveAre DEF Shows, Above
<1>2. \A s \in Starts(items) : s \in Nat /\ s \in Addrs /\ s - 1 \notin items
  BY AboveAre DEF Starts
<1>3. \A s \in Starts(items) : s < z <=> s < a \/ s = a
  <2> SUFFICES ASSUME NEW s \in Starts(items), s < z, ~(s < a), s # a PROVE FALSE
    BY <1>1, <1>2
  <2>1. a \in items /\ s = a + 1
    BY <1>1, <1>2
  <2> QED
    BY <1>1, <1>2, <2>1
<1>4. Above(items, z) = Above(items, a) \cup {a} /\ a \notin Above(items, a)
  <2>1. \A s : s \in Above(items, z) <=> s \in Above(items, a) \/ s = a
    BY <1>1, <1>3 DEF Above
  <2>2. a \notin Above(items, a)
    BY <1>1 DEF Above
  <2> QED
    BY <2>1, <2>2
<1>5. Cardinality(Above(items, z)) = r + 1
  BY <1>1, <1>4, FS_AddElement
<1>6. ASSUME z \in Addrs PROVE z \in Starts(items)
  <2>1. CASE a \in items
    BY <1>1, <1>6, <2>1 DEF Apart, Starts
  <2>2. CASE a \notin items
    BY <1>1, <1>6, <2>2 DEF Starts
  <2> QED
    BY <2>1, <2>2
<1> QED
  BY <1>1, <1>2, <1>3, <1>5, <1>6 DEF Shows, Above

\* Lines are numbered in the order of their addresses.
LEMMA LinesAscend ==
    ASSUME NEW items, NEW r, NEW a, NEW q, NEW b, Shows(items, r, a), Shows(items, q, b)
    PROVE  /\ r \in Nat /\ q \in Nat /\ a \in Nat /\ b \in Nat
           /\ a < b => r < q
           /\ a = b <=> r = q
<1>1. /\ r = Cardinality(Above(items, a)) /\ q = Cardinality(Above(items, b))
      /\ a \in Starts(items) /\ b \in Starts(items) /\ r \in Nat /\ q \in Nat
      /\ \A s \in Starts(items) : s \in Nat
  BY AboveAre DEF Shows, Above
<1>2. ASSUME NEW x \in Starts(items), NEW y \in Starts(items), x < y
      PROVE  Cardinality(Above(items, x)) < Cardinality(Above(items, y))
  <2>1. /\ Above(items, x) \subseteq Above(items, y)
        /\ x \in Above(items, y) /\ x \notin Above(items, x)
    BY <1>1, <1>2 DEF Above
  <2>2. /\ IsFiniteSet(Above(items, y)) /\ Cardinality(Above(items, x)) \in Nat
        /\ Cardinality(Above(items, y)) \in Nat
    BY AboveAre
  <2> QED
    BY <2>1, <2>2, FS_Subset
<1> QED
  BY <1>1, <1>2

\* Above a line there are all lines of lower numbers.
LEMMA EarlierLine ==
    ASSUME NEW items, Apart(items), NEW r, NEW b, Shows(items, r, b), NEW l \in Nat, l <= r
    PROVE  \E a : Shows(items, l, a) /\ a <= b
<1> DEFINE S == {k \in Nat : k <= r => \E a : Shows(items, k, a)}
<1>0. r \in Nat
  BY AboveAre DEF Shows, Above
<1>1. 0 \in S
  BY FirstLine
<1>2. ASSUME NEW k \in Nat, k \in S PROVE k + 1 \in S
  <2> SUFFICES ASSUME k + 1 <= r PROVE \E a : Shows(items, k + 1, a)
    OBVIOUS
  <2>1. PICK a : Shows(items, k, a)
    BY <1>0, <1>2
  <2>2. PICK z : z = a + (IF a \in items THEN 2 ELSE 1)
    OBVIOUS
  <2>3. z \in Nat /\ a \in Nat /\ (b < z => b <= a) /\ (z \in Addrs => Shows(items, k + 1, z))
    <3>1. b \in Starts(items)
      BY DEF Shows
    <3> QED
      BY <2>1, <2>2, <3>1, NextShows
  <2>4. a < b /\ b \in Addrs /\ b \in Nat
    <3>1. ~(b < a) /\ a # b /\ b \in Nat
      BY <1>0, <2>1, LinesAscend
    <3>2. b \in Addrs
      BY AboveAre DEF Shows
    <3> QED
      BY <2>3, <3>1, <3>2
  <2>5. z \in Addrs
    BY <2>3, <2>4, CodeViewAssumption DEF Addrs
  <2> QED
    BY <2>3, <2>5
<1>3. l \in S
  <2> HIDE DEF S
  <2> QED
    BY <1>1, <1>2, ByInduction
<1>4. PICK a : Shows(items, l, a)
  BY <1>3
<1> QED
  BY <1>0, <1>4, LinesAscend

-----------------------------------------------------------------------------
(* The walks *)

LEMMA NextLineNat ==
    ASSUME NEW a \in Nat
    PROVE  NextLine(a) \in Nat
BY DEF NextLine

\* The loops of getLineAddr() and getLineAtAddr(), turn by turn.
LEMMA WalkRuns ==
    ASSUME NEW a, NEW n \in Nat
    PROVE  \E go : /\ Walk(a, n) = go[n]
                   /\ \A i \in 0 .. n : go[i] = IF i = 0 THEN a ELSE NextLine(go[i - 1])
<1> DEFINE Run(f, k) == f = [i \in 0 .. k |-> IF i = 0 THEN a ELSE NextLine(f[i - 1])]
           Runs == {k \in Nat : \E f : Run(f, k)}
<1>1. 0 \in Runs
  <2>1. Run([i \in 0 .. 0 |-> a], 0)
    OBVIOUS
  <2> QED
    BY <2>1
<1>2. ASSUME NEW k \in Nat, k \in Runs PROVE k + 1 \in Runs
  <2>1. PICK f : Run(f, k)
    BY <1>2
  <2> DEFINE g == [i \in 0 .. k + 1 |-> IF i = k + 1 THEN NextLine(f[k]) ELSE f[i]]
  <2>2. \A i \in 0 .. k : f[i] = IF i = 0 THEN a ELSE NextLine(f[i - 1])
    BY <2>1
  <2>3. \A i \in 0 .. k : g[i] = f[i]
    OBVIOUS
  <2>4. ASSUME NEW i \in 0 .. k + 1
        PROVE  g[i] = IF i = 0 THEN a ELSE NextLine(g[i - 1])
    <3>1. CASE i = k + 1
      <4>1. g[i] = NextLine(f[k]) /\ i - 1 = k /\ i # 0 /\ k \in 0 .. k
        BY <3>1
      <4> HIDE DEF g
      <4> QED
        BY <4>1, <2>3
    <3>2. CASE i \in 0 .. k
      <4>1. i # 0 => i - 1 \in 0 .. k
        BY <3>2
      <4> HIDE DEF g
      <4> QED
        BY <3>2, <4>1, <2>2, <2>3
    <3> QED
      BY <3>1, <3>2
  <2>5. DOMAIN g = 0 .. k + 1 /\ g = [i \in 0 .. k + 1 |-> g[i]]
    OBVIOUS
  <2>6. Run(g, k + 1)
    <3> HIDE DEF g
    <3> QED
      BY <2>4, <2>5
  <2>7. \E h : Run(h, k + 1)
    <3> HIDE DEF g, Run
    <3> QED
      BY <2>6
  <2> QED
    BY <2>7
<1>3. \E f : Run(f, n)
  <2> HIDE DEF Runs
  <2>1. n \in Runs
    BY <1>1, <1>2, ByInduction
  <2> QED
    BY <2>1 DEF Runs
<1> DEFINE go == CHOOSE f : Run(f, n)
<1>4. Run(go, n)
  BY <1>3
<1>5. Walk(a, n) = go[n]
  BY DEF Walk
<1> HIDE DEF go
<1>6. \A i \in 0 .. n : go[i] = IF i = 0 THEN a ELSE NextLine(go[i - 1])
  BY <1>4
<1> QED
  BY <1>5, <1>6

LEMMA WalkNat ==
    ASSUME NEW a \in Nat, NEW n \in Nat
    PROVE  Walk(a, n) \in Nat
<1>1. PICK go : /\ Walk(a, n) = go[n]
                /\ \A i \in 0 .. n : go[i] = IF i = 0 THEN a ELSE NextLine(go[i - 1])
  BY WalkRuns
<1> DEFINE S == {k \in Nat : k <= n => go[k] \in Nat}
<1>2. 0 \in S
  BY <1>1
<1>3. ASSUME NEW k \in Nat, k \in S PROVE k + 1 \in S
  <2> SUFFICES ASSUME k + 1 <= n PROVE go[k + 1] \in Nat
    OBVIOUS
  <2>1. k + 1 \in 0 .. n /\ k + 1 # 0 /\ (k + 1) - 1 = k /\ go[k] \in Nat
    BY <1>3
  <2>2. go[k + 1] = NextLine(go[k])
    BY <1>1, <2>1
  <2> QED
    BY <2>1, <2>2, NextLineNat
<1>4. n \in S
  <2> HIDE DEF S
  <2> QED
    BY <1>2, <1>3, ByInduction
<1> QED
  BY <1>1, <1>4

\* From a line to a later one the walk leads right, if between them the items
\* are as they were when the lines were made.
LEMMA WalkTo ==
    ASSUME NEW items, Apart(items), NEW l \in Nat, NEW n \in Nat, NEW x, NEW b,
           Shows(items, l, x), Shows(items, l + n, b),
           \A t \in Addrs : x <= t /\ t < b => (t \in items <=> t \in defined)
    PROVE  Walk(x, n) = b
<1>1. PICK go : /\ Walk(x, n) = go[n]
                /\ \A i \in 0 .. n : go[i] = IF i = 0 THEN x ELSE NextLine(go[i - 1])
  BY WalkRuns
<1> DEFINE S == {k \in Nat : k <= n => Shows(items, l + k, go[k])}
<1>2. 0 \in S
  BY <1>1
<1>3. ASSUME NEW k \in Nat, k \in S PROVE k + 1 \in S
  <2> SUFFICES ASSUME k + 1 <= n PROVE Shows(items, l + (k + 1), go[k + 1])
    OBVIOUS
  <2>1. PICK y : y = go[k]
    OBVIOUS
  <2>2. k + 1 \in 0 .. n /\ k + 1 # 0 /\ (k + 1) - 1 = k /\ Shows(items, l + k, y)
    BY <1>3, <2>1
  <2>3. go[k + 1] = NextLine(y)
    BY <1>1, <2>1, <2>2
  <2>4. y \in Nat /\ x \in Nat /\ b \in Nat /\ y < b /\ x <= y
    <3>1. y \in Nat /\ x \in Nat /\ b \in Nat
      BY <2>2, LinesAscend
    <3>2. ~(b < y) /\ b # y
      BY <2>2, LinesAscend
    <3>3. ~(y < x)
      BY <2>2, LinesAscend
    <3> QED
      BY <3>1, <3>2, <3>3
  <2>5. y \in Addrs /\ b \in Addrs /\ b \in Starts(items)
    BY <2>2, AboveAre DEF Shows
  <2>6. PICK z : z = y + (IF y \in items THEN 2 ELSE 1)
    OBVIOUS
  <2>7. NextLine(y) = z
    BY <2>4, <2>5, <2>6 DEF NextLine
  <2>8. z \in Nat /\ (b < z => b <= y) /\ (z \in Addrs => Shows(items, (l + k) + 1, z))
    BY <2>2, <2>5, <2>6, NextShows
  <2>9. z \in Addrs
    BY <2>4, <2>5, <2>8, CodeViewAssumption DEF Addrs
  <2>10. (l + k) + 1 = l + (k + 1)
    OBVIOUS
  <2> QED
    BY <2>3, <2>7, <2>8, <2>9, <2>10
<1>4. n \in S
  <2> HIDE DEF S
  <2> QED
    BY <1>2, <1>3, ByInduction
<1>5. Shows(items, l + n, go[n])
  BY <1>4
<1> QED
  BY <1>1, <1>5, LinesAscend

\* The line that getLineAtAddr() finds for an address that begins one.
LEMMA LineAtShows ==
    ASSUME Apart(defined), built, NEW r, NEW a, Shows(defined, r, a)
    PROVE  LineAt(a) = r
<1>1. r \in Nat /\ a \in Nat /\ a \in Addrs /\ Shows(defined, 0, 0)
  BY FirstLine, LinesAscend, AboveAre DEF Shows
<1>2. Walk(0, r) = a
  <2>1. 0 + r = r
    BY <1>1
  <2> QED
    BY <1>1, <2>1, WalkTo
<1>3. ASSUME NEW n \in Nat, n < r PROVE Walk(0, n) \in Nat /\ Walk(0, n) < a
  <2>1. PICK y : Shows(defined, n, y)
    BY <1>1, <1>3, EarlierLine
  <2>2. y \in Nat /\ ~(a < y) /\ a # y
    BY <1>1, <1>3, <2>1, LinesAscend
  <2>3. 0 + n = n
    OBVIOUS
  <2>4. Walk(0, n) = y
    BY <1>1, <2>1, <2>3, WalkTo
  <2> QED
    BY <1>1, <2>2, <2>4
<1>4. r <= a
  <2>1. Above(defined, a) \subseteq 0 .. a - 1
    <3>1. \A s \in Starts(defined) : s \in Nat
      BY AboveAre
    <3> QED
      BY <1>1, <3>1 DEF Above
  <2>2. IsFiniteSet(0 .. a - 1) /\ Cardinality(0 .. a - 1) = a
    <3>1. a \in Int /\ a - 1 \in Int /\ 0 \in Int /\ (0 > a - 1 <=> a = 0) /\ (a - 1) - 0 + 1 = a
      BY <1>1
    <3> QED
      BY <3>1, FS_Interval
  <2>3. r = Cardinality(Above(defined, a))
    BY DEF Shows, Above
  <2> QED
    BY <1>1, <2>1, <2>2, <2>3, FS_Subset
<1> DEFINE S == {n \in 0 .. a : Walk(0, n) >= a}
<1>5. r \in S
  BY <1>1, <1>2, <1>4
<1>6. \A n \in S : r <= n
  BY <1>1, <1>3
<1>7. Min(S) = r
  <2>1. \A n \in S : n \in Nat
    OBVIOUS
  <2> HIDE DEF S
  <2>2. \A m \in S : (\A n \in S : m <= n) => m = r
    BY <1>1, <1>5, <1>6, <2>1
  <2> QED
    BY <1>5, <1>6, <2>2 DEF Min
<1> QED
  BY <1>1, <1>7 DEF LineAt

-----------------------------------------------------------------------------
(* The place of the user *)

Entry == [file : Nat, addr : Nat]

\* The line looked up last has the address it shows, unless something came or
\* went above it.
LookRight(look) ==
    \/ look = NoLook
    \/ /\ look.line \in Nat /\ look.addr \in Nat
       /\ \A a : Shows(shown, look.line, a) /\ a <= changed => look.addr = a

\* Items do not overlap, in the project and in what is shown of it, and above
\* the lowest change they are the same.
Lines ==
    /\ Apart(defined) /\ Apart(shown) /\ changed \in Nat
    /\ \A t \in Addrs : t < changed => (t \in shown <=> t \in defined)
    /\ LookRight(last)

Places ==
    /\ Lines
    /\ \A job \in jobs : job[2] \in Addrs
    /\ file \in Nat /\ stack \in Seq(Entry)
    /\ modal # Closed => modal.addr \in Nat

\* The action of PlaceKept.
KeepsPlace ==
    /\ updated' \subseteq updated /\ updated' # updated =>
          \A a \in Starts(shown) \cap Starts(defined) :
             /\ Shows(shown, row, a)
             /\ a <= changed \/ last = [line |-> row, addr |-> a]
             => Shows(shown', row', a)
    /\ Len(stack') < Len(stack) /\ stack[Len(stack)].file = file /\ built =>
          LET a == stack[Len(stack)].addr IN
          a \in Starts(shown) /\ a <= changed => Shows(shown, row', a)

\* What is shown at an address above which nothing changed is there.
LEMMA ShowsSame ==
    ASSUME Lines, NEW r, NEW a, Shows(shown, r, a), a <= changed
    PROVE  Shows(defined, r, a)
<1>1. a \in Starts(shown) /\ a \in Nat /\ r = Cardinality(Above(shown, a))
  BY AboveAre DEF Shows, Above
<1>2. ASSUME NEW s \in Addrs, s <= a PROVE s \in Starts(shown) <=> s \in Starts(defined)
  <2>1. s \in Nat /\ -1 \notin Addrs /\ changed \in Nat
    BY AboveAre DEF Addrs, Lines
  <2>2. CASE s = 0
    BY <2>1, <2>2 DEF Lines, Apart, Starts
  <2>3. CASE s # 0
    <3>1. s - 1 \in Addrs /\ s - 1 < changed
      BY <1>1, <1>2, <2>1, <2>3, CodeViewAssumption DEF Addrs
    <3> QED
      BY <1>2, <3>1 DEF Lines, Starts
  <2> QED
    BY <2>2, <2>3
<1>3. \A s \in Addrs : s < a => s <= a
  BY <1>1, AboveAre
<1>4. Above(shown, a) = Above(defined, a)
  <2>1. Starts(shown) \subseteq Addrs /\ Starts(defined) \subseteq Addrs
    BY DEF Starts
  <2> QED
    BY <1>2, <1>3, <2>1 DEF Above
<1>5. a \in Starts(defined)
  BY <1>1, <1>2, AboveAre
<1> QED
  BY <1>1, <1>4, <1>5 DEF Shows, Above

\* What getLineAddr() finds and remembers.
LEMMA LineAddrRight ==
    ASSUME Lines, NEW r \in Nat
    PROVE  /\ LineAddr(r) \in Nat
           /\ \A a : Shows(shown, r, a) /\ a <= changed => LineAddr(r) = a
           /\ LookRight(Look(r))
<1> DEFINE cached == last # NoLook /\ last.line <= r
<1>1. LineAddr(r) \in Nat
  <2>1. CASE cached
    <3>1. last.addr \in Nat /\ r - last.line \in Nat
      BY <2>1 DEF Lines, LookRight
    <3> QED
      BY <2>1, <3>1, WalkNat DEF LineAddr
  <2>2. CASE ~cached
    BY <2>2, WalkNat DEF LineAddr
  <2> QED
    BY <2>1, <2>2
<1>2. ASSUME NEW a, Shows(shown, r, a), a <= changed
      PROVE  LineAddr(r) = a
  <2>1. /\ Apart(shown) /\ changed \in Nat /\ a \in Nat /\ a \in Addrs
        /\ \A t \in Addrs : t \in Nat /\ (t < a => (t \in shown <=> t \in defined))
    <3>1. changed \in Nat /\ Apart(shown)
      BY DEF Lines
    <3>2. a \in Nat /\ a \in Addrs /\ \A t \in Addrs : t \in Nat
      BY <1>2, AboveAre DEF Shows
    <3>3. \A t \in Addrs : t < a => t < changed
      BY <1>2, <3>1, <3>2
    <3> QED
      BY <3>1, <3>2, <3>3 DEF Lines
  <2>2. CASE cached
    <3>1. PICK l : l = last.line
      OBVIOUS
    <3>2. l \in Nat /\ l <= r /\ r - l \in Nat /\ l + (r - l) = r
      BY <2>2, <3>1 DEF Lines, LookRight
    <3>3. PICK x : Shows(shown, l, x) /\ x <= a
      BY <1>2, <2>1, <3>2, EarlierLine
    <3>4. x \in Nat /\ x <= changed
      BY <1>2, <2>1, <3>3, LinesAscend
    <3>5. last.addr = x
      BY <2>2, <3>1, <3>3, <3>4 DEF Lines, LookRight
    <3>6. Walk(x, r - l) = a
      BY <1>2, <2>1, <3>2, <3>3, WalkTo
    <3> QED
      BY <2>2, <3>1, <3>5, <3>6 DEF LineAddr
  <2>3. CASE ~cached
    <3>1. Shows(shown, 0, 0) /\ 0 + r = r
      BY <2>1, FirstLine
    <3>2. Walk(0, r) = a
      BY <1>2, <2>1, <3>1, WalkTo
    <3> QED
      BY <2>3, <3>2 DEF LineAddr
  <2> QED
    BY <2>2, <2>3
<1>3. Look(r).line = r /\ Look(r).addr = LineAddr(r)
  BY DEF Look
<1> QED
  BY <1>1, <1>2, <1>3 DEF LookRight

LEMMA LookedLast ==
    ASSUME NEW r \in Nat, NEW a, last = [line |-> r, addr |-> a]
    PROVE  LineAddr(r) = a
<1>1. last # NoLook /\ last.line <= r /\ r - last.line = 0 /\ last.addr = a
  BY DEF NoLook, NoRow
<1>2. Walk(a, 0) = a
  BY WalkRuns
<1> QED
  BY <1>1, <1>2 DEF LineAddr

\* An address that begins a line has one.
LEMMA HasLine ==
    ASSUME NEW items, NEW a \in Starts(items)
    PROVE  \E r : Shows(items, r, a)
BY DEF Shows

-----------------------------------------------------------------------------
(* Step by step *)

RowsNat == \A r \in Rows : r \in Nat

LEMMA RowsAreNat == RowsNat
<1>1. ASSUME NEW r \in Rows PROVE r \in Nat
  BY DEF Rows
<1> QED
  BY <1>1 DEF RowsNat

\* A step that neither changes the lines nor refreshes them nor goes back.
Forth ==
    /\ UNCHANGED <<file, defined, built, shown, changed>>
    /\ updated \subseteq updated'
    /\ last' = last \/ \E r \in Nat : last' = Look(r)
    /\ \A job \in jobs' : job \in jobs \/ job[2] \in Addrs
    /\ stack' = stack \/ \E a \in Nat : Push(a)
    /\ modal' = modal \/ modal' = Closed \/ modal'.addr \in Nat

LEMMA ForthKeeps ==
    ASSUME Places, Forth
    PROVE  Places' /\ KeepsPlace
<1>1. Len(stack) \in Nat
  BY LenProperties DEF Places
<1>2. stack' \in Seq(Entry) /\ ~(Len(stack') < Len(stack))
  <2>1. CASE stack' = stack
    BY <1>1, <2>1 DEF Places
  <2>2. ASSUME NEW a \in Nat, Push(a)
        PROVE  stack' \in Seq(Entry) /\ Len(stack') = Len(stack) + 1
    <3>1. [file |-> file, addr |-> a] \in Entry
      BY DEF Places, Entry
    <3> QED
      BY <2>2, <3>1, AppendProperties DEF Push, Places
  <2> QED
    BY <1>1, <2>1, <2>2 DEF Forth
<1>3. LookRight(last')
  BY LineAddrRight DEF Forth, Places, Lines
<1>4. LookRight(last)'
  BY <1>3 DEF Forth, LookRight
<1>5. Lines'
  BY <1>4 DEF Forth, Places, Lines, Apart
<1>6. /\ file' \in Nat /\ \A job \in jobs' : job[2] \in Addrs
      /\ modal' # Closed => modal'.addr \in Nat
  BY DEF Forth, Places
<1>7. KeepsPlace
  BY <1>2 DEF Forth, KeepsPlace
<1> QED
  BY <1>2, <1>5, <1>6, <1>7 DEF Places

LEMMA StillForth ==
    ASSUME UNCHANGED <<project, view>>
    PROVE  Forth
BY DEF Forth, project, view, proxy, place

LEMMA AbortForth ==
    ASSUME Abort
    PROVE  Forth
BY DEF Abort, Forth, project, proxy, place

LEMMA LookedForth ==
    ASSUME Lines, NEW r \in Rows, Looked(r)
    PROVE  LineAddr(r) \in Nat /\ \E q \in Nat : last' = Look(q)
BY LineAddrRight, RowsAreNat DEF RowsNat, Looked

LEMMA JumpGoes ==
    ASSUME NEW a \in Nat, Jump(a), modal' = modal, \E q \in Nat : last' = Look(q)
    PROVE  Forth
BY DEF Jump, Forth, project, proxy

LEMMA DialogOpens ==
    ASSUME NEW kind, NEW a \in Nat, OpenDialog(kind, a), last' = last \/ \E q \in Nat : last' = Look(q)
    PROVE  Forth
BY DEF OpenDialog, Forth, project, proxy

LEMMA BackKeeps ==
    ASSUME Places, Back
    PROVE  Places' /\ KeepsPlace
<1>1. CASE stack = <<>>
  BY <1>1, StillForth, ForthKeeps DEF Back
<1>2. CASE stack # <<>>
  <2> DEFINE top == stack[Len(stack)]
  <2>1. stack \in Seq(Entry) /\ Len(stack) \in Nat \ {0}
    BY <1>2, EmptySeq, LenProperties DEF Places
  <2>2. /\ stack' = SubSeq(stack, 1, Len(stack) - 1)
        /\ UNCHANGED <<project, proxy, last, modal>>
        /\ IF top.file = file THEN Select(top.addr) ELSE UNCHANGED row
    BY <1>2 DEF Back
  <2>3. stack' \in Seq(Entry)
    <3>1. \A i \in 1 .. Len(stack) - 1 : stack[i] \in Entry
      BY <2>1, ElementOfSeq
    <3> QED
      BY <2>1, <2>2, <3>1, SubSeqProperties
  <2> HIDE DEF top
  <2>4. Places'
    BY <2>2, <2>3 DEF Places, Lines, LookRight, project, proxy, Apart
  <2>5. ASSUME top.file = file, built, top.addr \in Starts(shown), top.addr <= changed
        PROVE  Shows(shown, row', top.addr)
    <3>1. PICK r : Shows(shown, r, top.addr)
      BY <2>5, HasLine
    <3>2. Shows(defined, r, top.addr)
      BY <2>5, <3>1, ShowsSame DEF Places
    <3>3. LineAt(top.addr) = r /\ r \in Nat
      BY <2>5, <3>2, LineAtShows, LinesAscend DEF Places, Lines
    <3>4. row' = r
      BY <2>2, <2>5, <3>3 DEF Select, NoRow
    <3> QED
      BY <3>1, <3>4
  <2>6. KeepsPlace
    BY <2>2, <2>5 DEF KeepsPlace, proxy, top
  <2> QED
    BY <2>4, <2>6
<1> QED
  BY <1>1, <1>2

LEMMA KeyKeepsPlace ==
    ASSUME Places, NEW key, ViewKey(key)
    PROVE  Places' /\ KeepsPlace
<1>1. CASE UNCHANGED <<project, view>>
  BY <1>1, StillForth, ForthKeeps
<1>2. CASE row \in Rows /\ Looked(row) /\ LineKey(key, LineAddr(row))
  <2>1. PICK a \in Nat : LineKey(key, a)
    BY <1>2, LookedForth DEF Places
  <2>2. \E q \in Nat : last' = Look(q)
    BY <1>2, LookedForth DEF Places
  <2>3. CASE Jump(a) /\ UNCHANGED modal
    BY <2>2, <2>3, JumpGoes, ForthKeeps
  <2>4. CASE \E op : Send(op, a)
    <3>1. Forth
      BY <2>2, <2>4 DEF Send, Sent, Forth, proxy, place
    <3> QED
      BY <3>1, ForthKeeps
  <2>5. CASE \E kind : OpenDialog(kind, a)
    BY <2>2, <2>5, DialogOpens, ForthKeeps
  <2>6. CASE UNCHANGED <<project, proxy, place>>
    <3>1. Forth
      BY <2>2, <2>6 DEF Forth, project, proxy, place
    <3> QED
      BY <3>1, ForthKeeps
  <2> QED
    BY <2>1, <2>3, <2>4, <2>5, <2>6 DEF LineKey, Analyze, Undefine
<1>3. CASE Abort
  BY <1>3, AbortForth, ForthKeeps
<1> QED
  BY <1>1, <1>2, <1>3, BackKeeps DEF ViewKey

LEMMA MouseForth ==
    ASSUME Places, Mouse
    PROVE  Forth
<1>1. PICK r \in Rows : Click(r) \/ OpenMenu(r) \/ \E column \in {1, 2, 4} : DoubleClick(r, column)
  BY DEF Mouse
<1>2. CASE Click(r)
  BY <1>2 DEF Click, Forth, project, proxy
<1>3. CASE Looked(r)
  <2>1. PICK a \in Nat : a = LineAddr(r)
    BY <1>3, LookedForth DEF Places
  <2>2. \E q \in Nat : last' = Look(q)
    BY <1>3, LookedForth DEF Places
  <2>3. CASE OpenMenu(r)
    <3>1. modal'.addr = a
      BY <2>1, <2>3 DEF OpenMenu
    <3> QED
      BY <2>2, <2>3, <3>1 DEF OpenMenu, Forth, project, proxy
  <2>4. CASE \E kind : OpenDialog(kind, a)
    BY <2>2, <2>4, DialogOpens
  <2>5. CASE Jump(a) /\ UNCHANGED modal
    BY <2>2, <2>5, JumpGoes
  <2>6. CASE Click(r)
    BY <1>2, <2>6
  <2> QED
    BY <1>1, <2>1, <2>3, <2>4, <2>5, <2>6 DEF DoubleClick
<1> QED
  BY <1>1, <1>2, <1>3 DEF DoubleClick, OpenMenu

LEMMA MenuForth ==
    ASSUME Places, MenuOrDialog
    PROVE  Forth
<1>1. ASSUME NEW what, Choose(what)
      PROVE  Forth
  <2>1. PICK a \in Nat : a = modal.addr
    BY <1>1 DEF Choose, Places, Closed
  <2>2. UNCHANGED <<file, defined, built, shown, changed, updated, last>>
    BY <1>1 DEF Choose, proxy
  <2>3. CASE jobs' = Sent(what, a) /\ modal' = Closed /\ UNCHANGED <<row, stack>>
    BY <2>2, <2>3 DEF Forth, Sent
  <2>4. CASE /\ IF HasJump(a) THEN Push(a) /\ Select(Target[a]) ELSE UNCHANGED <<row, stack>>
             /\ modal' = Closed /\ UNCHANGED jobs
    BY <2>2, <2>4 DEF Forth
  <2>5. CASE modal' = [kind |-> what, addr |-> a] /\ UNCHANGED <<row, stack, jobs>>
    BY <2>2, <2>5 DEF Forth
  <2> QED
    BY <1>1, <2>1, <2>3, <2>4, <2>5 DEF Choose
<1>2. ASSUME NEW source \in Addrs, ChooseXref(source)
      PROVE  Forth
  <2>1. modal.addr \in Nat
    BY <1>2 DEF ChooseXref, Places, Closed
  <2> QED
    BY <1>2, <2>1 DEF ChooseXref, Forth, project, proxy
<1>3. CASE Accept
  BY <1>3 DEF Accept, Forth, project
<1>4. CASE Dismiss
  BY <1>4 DEF Dismiss, Forth, project, proxy
<1> QED
  BY <1>1, <1>2, <1>3, <1>4 DEF MenuOrDialog

LEMMA PostedForth ==
    ASSUME Places, NEW a \in Addrs, PostedJump(a)
    PROVE  Forth
<1>1. CASE row \in Rows
  <2>1. LineAddr(row) \in Nat /\ row \in Nat
    BY <1>1, LineAddrRight, RowsAreNat DEF RowsNat, Places
  <2>2. row # NoRow
    BY <2>1 DEF NoRow
  <2> QED
    BY <1>1, <2>1, <2>2 DEF PostedJump, Forth, project, proxy
<1>2. CASE row = NoRow
  BY <1>2 DEF PostedJump, Forth, project, proxy
<1>3. CASE Abort
  BY <1>3, AbortForth
<1> QED
  BY <1>1, <1>2, <1>3 DEF PostedJump

\* Another file: other lines, and no place in them yet.
LEMMA ReplaceKeeps ==
    ASSUME Places, ReplaceRuntime
    PROVE  Places' /\ KeepsPlace
<1>1. /\ file' = file + 1 /\ defined' = {} /\ shown' = {} /\ jobs' = {}
      /\ changed' = Nowhere /\ last' = NoLook /\ stack' = stack /\ modal' = Closed
      /\ updated' = updated \cup {file'}
  BY DEF ReplaceRuntime, SetRuntimeModel
<1>2. Len(stack) \in Nat /\ Nowhere \in Nat
  BY LenProperties, CodeViewAssumption DEF Places, Nowhere
<1>3. Lines'
  BY <1>1, <1>2 DEF Lines, LookRight, Apart
<1>4. Places'
  BY <1>1, <1>3 DEF Places
<1>5. KeepsPlace
  BY <1>1, <1>2 DEF KeepsPlace
<1> QED
  BY <1>4, <1>5

\* A refresh, with new lines or without.
LEMMA FlushedKeeps ==
    ASSUME Places, row \in Rows \cup {NoRow}, row' = RowAfter, stack' = stack,
           shown' = defined \/ (shown' = shown /\ changed = Nowhere)
    PROVE  KeepsPlace
<1>1. ~(Len(stack') < Len(stack))
  <2>1. Len(stack) \in Nat
    BY LenProperties DEF Places
  <2> QED
    BY <2>1
<1>2. ASSUME NEW a \in Starts(shown) \cap Starts(defined), Shows(shown, row, a),
             a <= changed \/ last = [line |-> row, addr |-> a]
      PROVE  Shows(shown', row', a)
  <2>1. row \in Nat /\ a \in Nat /\ a \in Addrs
    BY <1>2, LinesAscend DEF Starts
  <2>2. row # NoRow /\ built
    BY <2>1 DEF NoRow, Rows
  <2>3. LineAddr(row) = a
    BY <1>2, <2>1, LineAddrRight, LookedLast DEF Places
  <2>4. PICK r : Shows(defined, r, a)
    BY HasLine
  <2>5. row' = r
    BY <2>2, <2>3, <2>4, LineAtShows DEF RowAfter, Places, Lines
  <2>6. CASE shown' = defined
    BY <2>4, <2>5, <2>6 DEF Shows, Starts
  <2>7. CASE shown' = shown /\ changed = Nowhere
    <3>1. a <= changed
      BY <2>1, <2>7, CodeViewAssumption DEF Addrs, Nowhere
    <3>2. Shows(defined, row, a)
      BY <1>2, <3>1, ShowsSame DEF Places
    <3>3. r = row
      BY <2>4, <3>2, LinesAscend
    <3> QED
      BY <1>2, <2>5, <2>7, <3>3 DEF Shows, Starts
  <2> QED
    BY <2>6, <2>7
<1> QED
  BY <1>1, <1>2 DEF KeepsPlace

\* The user keeps his line if its address is known and still begins one.
LEMMA FlushKeeps ==
    ASSUME Places, Flush
    PROVE  Places' /\ KeepsPlace
<1>1. CASE row \in Rows \cup {NoRow}
  <2>1. Rebuild /\ row' = RowAfter /\ UNCHANGED <<file, defined, jobs, stack, modal>>
    BY <1>1 DEF Flush, project
  <2>2. CASE Dirty
    <3>1. shown' = defined /\ changed' = Nowhere /\ last' = NoLook
      BY <2>1, <2>2 DEF Rebuild
    <3>2. Nowhere \in Nat
      BY CodeViewAssumption DEF Nowhere
    <3>3. Lines'
      BY <2>1, <3>1, <3>2 DEF Places, Lines, LookRight, Apart
    <3>4. Places'
      BY <2>1, <3>3 DEF Places
    <3> QED
      BY <2>1, <3>1, <3>4, FlushedKeeps, <1>1
  <2>3. CASE ~Dirty
    <3>1. UNCHANGED <<shown, changed>> /\ last' = IF row = NoRow THEN last ELSE Look(row)
      BY <2>1, <2>3 DEF Rebuild
    <3>2. LookRight(last')
      BY <1>1, <3>1, LineAddrRight, RowsAreNat DEF RowsNat, Places, Lines
    <3>3. LookRight(last)'
      BY <3>1, <3>2 DEF LookRight
    <3>4. Lines'
      BY <2>1, <3>1, <3>3 DEF Places, Lines, Apart
    <3>5. Places'
      BY <2>1, <3>4 DEF Places
    <3>6. changed = Nowhere
      BY <2>3 DEF Dirty
    <3> QED
      BY <1>1, <2>1, <3>1, <3>5, <3>6, FlushedKeeps
  <2> QED
    BY <2>2, <2>3
<1>2. CASE Abort
  BY <1>2, AbortForth, ForthKeeps
<1> QED
  BY <1>1, <1>2 DEF Flush

\* A step that only defines or undefines moves nobody, if what it marks as
\* changed is not below it.
LEMMA LinesStay ==
    ASSUME Places, UNCHANGED <<file, built, shown, last, row, stack, modal>>,
           updated \subseteq updated', changed' \in Nat, changed' <= changed,
           Apart(defined'), \A t \in Addrs : t < changed' => (t \in defined' <=> t \in defined),
           \A j \in jobs' : j[2] \in Addrs
    PROVE  Places' /\ KeepsPlace
<1>1. LookRight(last)'
  <2>1. ASSUME last # NoLook, NEW a, Shows(shown, last.line, a), a <= changed'
        PROVE  last.addr = a
    <3>1. a \in Nat /\ changed \in Nat
      BY <2>1, LinesAscend DEF Places, Lines
    <3>2. a <= changed
      BY <2>1, <3>1
    <3> QED
      BY <2>1, <3>2 DEF Places, Lines, LookRight
  <2>2. last = NoLook \/ (last.line \in Nat /\ last.addr \in Nat)
    BY DEF Places, Lines, LookRight
  <2> QED
    BY <2>1, <2>2 DEF LookRight
<1>2. ASSUME NEW t \in Addrs, t < changed' PROVE t \in shown' <=> t \in defined'
  <2>1. t \in Nat /\ changed \in Nat
    BY AboveAre DEF Places, Lines
  <2>2. t < changed
    BY <1>2, <2>1
  <2> QED
    BY <1>2, <2>2 DEF Places, Lines
<1>3. Lines'
  BY <1>1, <1>2 DEF Places, Lines
<1>4. Places'
  BY <1>3 DEF Places
<1>5. updated' # updated => ~(updated' \subseteq updated)
  OBVIOUS
<1>6. ~(Len(stack') < Len(stack))
  <2>1. Len(stack) \in Nat
    BY LenProperties DEF Places
  <2> QED
    BY <2>1
<1> QED
  BY <1>4, <1>5, <1>6 DEF KeepsPlace

LEMMA LeastChange ==
    ASSUME NEW S, S \subseteq Nat, S # {}
    PROVE  Min(S) \in S /\ \A y \in S : Min(S) <= y
<1>1. \E x \in S : \A y \in S : x <= y
  BY LeastNat
<1> QED
  BY <1>1 DEF Min

\* A job defines items where there is room, each two behind the last.
LEMMA WorkKeeps ==
    ASSUME Places, Work
    PROVE  Places' /\ KeepsPlace
<1>1. PICK job \in jobs, n \in 0 .. Cardinality(Addrs) :
        LET chain == Chain(job[2], n) IN
         /\ \/ /\ job[1] = "undefine" /\ chain \subseteq defined
               /\ defined' = defined \ chain
               /\ jobs' = jobs \ {job}
               /\ UNCHANGED xrefs
            \/ /\ job[1] = "analyze" /\ \A a \in chain : Free(a)
               /\ defined' = defined \cup chain
               /\ jobs' = (jobs \ {job}) \cup {<<"analyze", Target[a]>> : a \in chain \cap DOMAIN Target}
               /\ xrefs' = xrefs \cup (chain \cap DOMAIN Target)
         /\ changed' = Min({changed} \cup chain)
  BY DEF Work
<1>2. UNCHANGED <<file, built, shown, last, row, stack, modal>> /\ updated \subseteq updated'
  BY DEF Work, place
<1>3. Addrs \subseteq Nat /\ job[2] \in Nat /\ changed \in Nat
  BY DEF Places, Lines, Addrs
<1>4. PICK chain : chain = Chain(job[2], n)
  OBVIOUS
<1>5. ASSUME chain \subseteq Addrs, Apart(defined'), \A j \in jobs' : j[2] \in Addrs,
             defined' = defined \ chain \/ defined' = defined \cup chain
      PROVE  Places' /\ KeepsPlace
  <2> DEFINE S == {changed} \cup chain
  <2>1. changed' = Min(S)
    BY <1>1, <1>4
  <2>2. S \subseteq Nat /\ S # {} /\ changed \in S /\ chain \subseteq S
    BY <1>3, <1>5
  <2> HIDE DEF S
  <2>3. changed' \in Nat /\ \A y \in S : changed' <= y
    BY <2>1, <2>2, LeastChange
  <2>4. ASSUME NEW t \in Addrs, t < changed' PROVE t \notin chain
    <3>1. t \in Nat /\ ~(changed' <= t)
      BY <1>3, <2>3, <2>4
    <3> QED
      BY <2>2, <2>3, <3>1
  <2>5. \A t \in Addrs : t < changed' => (t \in defined' <=> t \in defined)
    BY <1>5, <2>4
  <2> QED
    BY <1>2, <1>5, <2>2, <2>3, <2>5, LinesStay
<1>6. CASE chain \subseteq defined /\ defined' = defined \ chain /\ jobs' = jobs \ {job}
  <2>1. /\ chain \subseteq Addrs /\ Apart(defined') /\ \A j \in jobs' : j[2] \in Addrs
    BY <1>6 DEF Places, Lines, Apart
  <2> QED
    BY <1>5, <1>6, <2>1
<1>7. CASE /\ \A a \in chain : Free(a)
           /\ defined' = defined \cup chain
           /\ jobs' = (jobs \ {job}) \cup {<<"analyze", Target[a]>> : a \in chain \cap DOMAIN Target}
  <2>1. ASSUME NEW a \in chain, a + 1 \in chain
        PROVE  FALSE
    <3>1. PICK k \in 0 .. n - 1, l \in 0 .. n - 1 :
            a = job[2] + (2 * k) /\ a + 1 = job[2] + (2 * l)
      BY <1>4, <2>1 DEF Chain
    <3> QED
      BY <1>3, <3>1
  <2>2. \A a \in chain : a \in Addrs /\ a \in Nat /\ a + 1 \in Addrs /\ a - 1 \notin defined
                         /\ a + 1 \notin defined
    BY <1>3, <1>7 DEF Free
  <2>3. Apart(defined)
    BY DEF Places, Lines
  <2>4. ASSUME NEW a \in defined, a + 1 \in chain
        PROVE  FALSE
    <3>1. a \in Nat /\ (a + 1) - 1 = a
      BY <1>3, <2>3 DEF Apart
    <3> QED
      BY <2>2, <2>4, <3>1
  <2>5. Apart(defined')
    BY <1>7, <2>1, <2>2, <2>3, <2>4 DEF Apart
  <2>6. \A j \in jobs' : j[2] \in Addrs
    BY <1>7, CodeViewAssumption DEF Places, Addrs
  <2> QED
    BY <1>5, <1>7, <2>2, <2>5, <2>6
<1> QED
  BY <1>1, <1>4, <1>6, <1>7

LEMMA ViewStep ==
    ASSUME Places, [Next]_vars
    PROVE  Places' /\ KeepsPlace
<1>1. CASE UNCHANGED <<project, view>>
  BY <1>1, StillForth, ForthKeeps
<1>2. CASE KeyPress
  BY <1>1, <1>2, KeyKeepsPlace DEF KeyPress
<1>3. CASE Modifier
  <2>1. Forth
    BY <1>3 DEF Modifier, ViewModifier, Forth, project, view, proxy, place
  <2> QED
    BY <2>1, ForthKeeps
<1>4. CASE PasteLines \/ FocusMoves
  BY <1>1, <1>4 DEF PasteLines, FocusMoves
<1>5. CASE Mouse \/ MenuOrDialog \/ OtherJump
  BY <1>5, MouseForth, MenuForth, PostedForth, ForthKeeps DEF OtherJump
<1>6. CASE OpenFile
  <2>1. OpenDialog("file", 0) /\ UNCHANGED <<last, aborted, focus>> => Forth
    BY DialogOpens
  <2> QED
    BY <1>6, <2>1, ForthKeeps, ReplaceKeeps DEF OpenFile
<1>7. CASE Background
  <2>1. ASSUME NEW r \in Rows, Paint(r) PROVE Forth
    <3>1. \E q \in Nat : last' = Look(q)
      BY <2>1, LookedForth DEF Paint, Places
    <3> QED
      BY <2>1, <3>1 DEF Paint, Forth, project, proxy, place
  <2> QED
    BY <1>7, <2>1, WorkKeeps, FlushKeeps, ForthKeeps DEF Background
<1>8. CASE UNCHANGED vars
  BY <1>1, <1>8 DEF vars
<1> QED
  BY <1>2, <1>3, <1>4, <1>5, <1>6, <1>7, <1>8 DEF Next

\* A refresh keeps the user's place if nothing came or went above it, or if it
\* was the last that was looked up (codeview.cpp:135), and the way back leads
\* to where the user was if nothing came or went above it: for a listing of any
\* length, whatever came and went below, and however long he goes on.
THEOREM PlaceTheorem == Spec => PlaceKept
<1>1. Init => Places
  <2> SUFFICES ASSUME Init PROVE Places
    OBVIOUS
  <2>1. ViewInit
    BY DEF Init
  <2>2. Apart({}) /\ Apart({a \in Addrs : a % 2 = 0 /\ a < LastAddr})
    <3>1. ASSUME NEW a \in Addrs, a % 2 = 0, a < LastAddr
          PROVE  a + 1 \in Addrs /\ ~((a + 1) % 2 = 0)
      BY <3>1, CodeViewAssumption DEF Addrs
    <3> QED
      BY <3>1 DEF Apart
  <2>3. Apart(defined) /\ Nowhere \in Nat
    <3>1. Nowhere \in Nat
      BY CodeViewAssumption DEF Nowhere
    <3>2. \/ defined = {}
          \/ defined = {a \in Addrs : a % 2 = 0 /\ a < LastAddr}
      BY <2>1 DEF ViewInit
    <3>3. CASE defined = {}
      BY <3>1, <3>3, <2>2
    <3>4. CASE defined = {a \in Addrs : a % 2 = 0 /\ a < LastAddr}
      BY <3>1, <3>4, <2>2, Zenon
    <3> QED
      BY <3>2, <3>3, <3>4
  <2>4. Lines
    BY <2>1, <2>3 DEF ViewInit, Lines, LookRight
  <2> QED
    BY <2>1, <2>4, EmptySeq DEF ViewInit, Places
<1>2. Places /\ [Next]_vars => Places' /\ [KeepsPlace]_<<project, view>>
  BY ViewStep
<1>3. [][KeepsPlace]_<<project, view>> => PlaceKept
  BY PTL DEF PlaceKept, KeepsPlace
<1> QED
  BY <1>1, <1>2, <1>3, PTL DEF Spec


-----------------------------------------------------------------------------
(* Numbers *)

\* What the bit i of a word counts.
Weight(bits, i) == IF i \in bits THEN 2 ^ i ELSE 0

\* f[n] is the number that the bits below n make.
Counts(bits, f, k) ==
    /\ f = [n \in 0 .. k |-> f[n]]
    /\ f[0] = 0
    /\ \A n \in 1 .. k : f[n] = f[n - 1] + Weight(bits, n - 1)

LEMMA CountsOneMore ==
    ASSUME NEW bits, NEW k \in Nat, NEW f, Counts(bits, f, k)
    PROVE  \E g : Counts(bits, g, k + 1)
<1> DEFINE g == [n \in 0 .. k + 1 |-> IF n <= k THEN f[n] ELSE f[k] + Weight(bits, k)]
<1>1. g = [n \in 0 .. k + 1 |-> g[n]] /\ g[0] = 0
  BY DEF Counts
<1>2. ASSUME NEW n \in 1 .. k + 1
      PROVE  g[n] = g[n - 1] + Weight(bits, n - 1)
  <2>1. CASE n <= k
    <3>1. g[n] = f[n] /\ g[n - 1] = f[n - 1]
      BY <2>1
    <3>2. \A m \in 1 .. k : f[m] = f[m - 1] + Weight(bits, m - 1)
      BY DEF Counts
    <3>3. n \in 1 .. k
      BY <2>1
    <3> QED
      BY <3>1, <3>2, <3>3
  <2>2. CASE n = k + 1
    <3>1. n - 1 = k /\ g[n] = f[k] + Weight(bits, k) /\ g[k] = f[k]
      BY <2>2
    <3> QED
      BY <3>1
  <2> QED
    BY <2>1, <2>2
<1>3. Counts(bits, g, k + 1)
  BY <1>1, <1>2 DEF Counts
<1> QED
  BY <1>3

LEMMA NumberCounts ==
    ASSUME NEW bits
    PROVE  \E f : Counts(bits, f, 32) /\ Number(bits) = f[32]
<1> DEFINE S == {k \in Nat : \E f : Counts(bits, f, k)}
<1>1. 0 \in S
  <2> DEFINE g == [n \in 0 .. 0 |-> 0]
  <2>1. Counts(bits, g, 0)
    BY DEF Counts
  <2> QED
    BY <2>1
<1>2. \A n \in Nat : n \in S => n + 1 \in S
  BY CountsOneMore
<1>3. 32 \in S
  <2> HIDE DEF S
  <2> QED
    BY <1>1, <1>2, ByInduction
<1>4. PICK f : Counts(bits, f, 32)
  BY <1>3
<1> DEFINE Adds(s) == s = [n \in 0 .. 32 |->
                    IF n = 0 THEN 0 ELSE s[n - 1] + (IF n - 1 \in bits THEN 2 ^ (n - 1) ELSE 0)]
           sum == CHOOSE s : Adds(s)
<1>5. Adds(f)
  BY <1>4 DEF Counts, Weight
<1>6. Adds(sum)
  BY <1>5, Zenon
<1>7. Number(bits) = sum[32]
  BY DEF Number
<1> HIDE DEF sum
<1>8. Counts(bits, sum, 32)
  BY <1>6 DEF Counts, Weight
<1> QED
  BY <1>7, <1>8

LEMMA PowerDoubles ==
    ASSUME NEW n \in 0 .. 30
    PROVE  2 ^ n \in Nat /\ 2 ^ (n + 1) = 2 * 2 ^ n
<1> DEFINE p == [i \in 0 .. 31 |-> 2 ^ i]
<1>1. \/ n = 0 \/ n = 1 \/ n = 2 \/ n = 3 \/ n = 4 \/ n = 5 \/ n = 6 \/ n = 7
      \/ n = 8 \/ n = 9 \/ n = 10 \/ n = 11 \/ n = 12 \/ n = 13 \/ n = 14 \/ n = 15
      \/ n = 16 \/ n = 17 \/ n = 18 \/ n = 19 \/ n = 20 \/ n = 21 \/ n = 22 \/ n = 23
      \/ n = 24 \/ n = 25 \/ n = 26 \/ n = 27 \/ n = 28 \/ n = 29 \/ n = 30
  BY SMT
<1>2. /\ p[0] = 1 /\ p[1] = 2 /\ p[2] = 4 /\ p[3] = 8
      /\ p[4] = 16 /\ p[5] = 32 /\ p[6] = 64 /\ p[7] = 128
      /\ p[8] = 256 /\ p[9] = 512 /\ p[10] = 1024 /\ p[11] = 2048
      /\ p[12] = 4096 /\ p[13] = 8192 /\ p[14] = 16384 /\ p[15] = 32768
      /\ p[16] = 65536 /\ p[17] = 131072 /\ p[18] = 262144 /\ p[19] = 524288
      /\ p[20] = 1048576 /\ p[21] = 2097152 /\ p[22] = 4194304 /\ p[23] = 8388608
      /\ p[24] = 16777216 /\ p[25] = 33554432 /\ p[26] = 67108864 /\ p[27] = 134217728
      /\ p[28] = 268435456 /\ p[29] = 536870912 /\ p[30] = 1073741824 /\ p[31] = 2147483648
  BY SMT
<1>3. 2 ^ n = p[n] /\ 2 ^ (n + 1) = p[n + 1]
  OBVIOUS
<1> HIDE DEF p
<1>4. p[n] \in Nat /\ p[n + 1] = 2 * p[n]
  BY SMT, <1>1, <1>2
<1> QED
  BY <1>3, <1>4

\* The bits below n make a natural number.
LEMMA CountsNat ==
    ASSUME NEW bits, NEW f, Counts(bits, f, 32), NEW n \in 0 .. 32
    PROVE  f[n] \in Nat
<1> DEFINE S == {k \in Nat : k <= 32 => f[k] \in Nat}
<1>1. 0 \in S
  BY DEF Counts
<1>2. ASSUME NEW k \in Nat, k \in S, k + 1 <= 32
      PROVE  f[k + 1] \in Nat
  <2>1. k + 1 \in 1 .. 32 /\ (k + 1) - 1 = k
    BY <1>2
  <2>2. f[k + 1] = f[k] + Weight(bits, k)
    BY <2>1 DEF Counts
  <2>3. Weight(bits, k) \in Nat
    <3>1. CASE k \in 0 .. 30
      <4>1. 2 ^ k \in Nat
        BY <3>1, PowerDoubles
      <4> QED
        BY <4>1 DEF Weight
    <3>2. CASE k = 31
      BY SMT, <3>2 DEF Weight
    <3> QED
      BY <1>2, <3>1, <3>2
  <2> QED
    BY <1>2, <2>2, <2>3
<1>3. n \in S
  <2>1. \A k \in Nat : k \in S => k + 1 \in S
    BY <1>2
  <2> HIDE DEF S
  <2> QED
    BY <1>1, <2>1, ByInduction
<1> QED
  BY <1>3

LEMMA NumberNat ==
    ASSUME NEW bits
    PROVE  Number(bits) \in Nat
BY NumberCounts, CountsNat

\* One bit further to the left is twice as much.
LEMMA NumberDoubled ==
    ASSUME NEW bits, NEW twice, bits \subseteq 0 .. 30, twice \subseteq 1 .. 31,
           \A i \in 0 .. 30 : i + 1 \in twice <=> i \in bits
    PROVE  Number(twice) = 2 * Number(bits)
<1>1. PICK f : Counts(bits, f, 32) /\ Number(bits) = f[32]
  BY NumberCounts
<1>2. PICK g : Counts(twice, g, 32) /\ Number(twice) = g[32]
  BY NumberCounts
<1> DEFINE S == {n \in Nat : n <= 31 => g[n + 1] = 2 * f[n]}
<1>3. 0 \in S
  <2>1. g[1] = g[0] + Weight(twice, 0) /\ g[0] = 0 /\ f[0] = 0
    BY <1>1, <1>2 DEF Counts
  <2>2. Weight(twice, 0) = 0
    BY DEF Weight
  <2> QED
    BY <2>1, <2>2
<1>4. ASSUME NEW n \in Nat, n \in S, n + 1 <= 31
      PROVE  g[n + 2] = 2 * f[n + 1]
  <2>1. n + 1 \in 1 .. 32 /\ n + 2 \in 1 .. 32 /\ (n + 1) - 1 = n /\ (n + 2) - 1 = n + 1
    BY <1>4
  <2>2. f[n + 1] = f[n] + Weight(bits, n)
    BY <1>1, <2>1 DEF Counts
  <2>3. g[n + 2] = g[n + 1] + Weight(twice, n + 1)
    BY <1>2, <2>1 DEF Counts
  <2>4. Weight(twice, n + 1) = 2 * Weight(bits, n) /\ Weight(bits, n) \in Nat
    <3>1. n \in 0 .. 30
      BY <1>4
    <3>2. 2 ^ n \in Nat /\ 2 ^ (n + 1) = 2 * 2 ^ n
      BY <3>1, PowerDoubles
    <3>3. n + 1 \in twice <=> n \in bits
      BY <3>1
    <3> QED
      BY <3>2, <3>3 DEF Weight
  <2>5. g[n + 1] = 2 * f[n] /\ f[n] \in Nat
    BY <1>1, <1>4, CountsNat
  <2> QED
    BY <2>2, <2>3, <2>4, <2>5
<1>5. 31 \in S
  <2>1. \A n \in Nat : n \in S => n + 1 \in S
    BY <1>4
  <2> HIDE DEF S
  <2> QED
    BY <1>3, <2>1, ByInduction
<1>6. f[32] = f[31] + Weight(bits, 31) /\ f[31] \in Nat
  BY <1>1, CountsNat DEF Counts
<1>7. Weight(bits, 31) = 0
  BY DEF Weight
<1> QED
  BY <1>1, <1>2, <1>5, <1>6, <1>7

LEMMA NumberQuadrupled ==
    ASSUME NEW bits, bits \subseteq 0 .. 23
    PROVE  Number({i + 2 : i \in bits}) = 4 * Number(bits)
<1> DEFINE one == {i + 1 : i \in bits}
           two == {i + 2 : i \in bits}
<1>1. /\ one \subseteq 1 .. 24 /\ two \subseteq 2 .. 25
      /\ \A i \in 0 .. 30 : i + 1 \in one <=> i \in bits
      /\ \A i \in 0 .. 30 : i + 1 \in two <=> i \in one
  OBVIOUS
<1> HIDE DEF one, two
<1>2. Number(one) = 2 * Number(bits)
  <2>1. bits \subseteq 0 .. 30 /\ one \subseteq 1 .. 31
    BY <1>1
  <2> QED
    BY <1>1, <2>1, NumberDoubled
<1>3. Number(two) = 2 * Number(one)
  <2>1. one \subseteq 0 .. 30 /\ two \subseteq 1 .. 31
    BY <1>1
  <2> QED
    BY <1>1, <2>1, NumberDoubled
<1> QED
  BY <1>2, <1>3, NumberNat DEF two

\* The numbers of four bits.
LEMMA NibbleIs ==
    ASSUME NEW bits, bits \subseteq 0 .. 3
    PROVE  Number(bits) = (IF 0 \in bits THEN 1 ELSE 0) + (IF 1 \in bits THEN 2 ELSE 0)
                        + (IF 2 \in bits THEN 4 ELSE 0) + (IF 3 \in bits THEN 8 ELSE 0)
<1>1. PICK f : Counts(bits, f, 32) /\ Number(bits) = f[32]
  BY NumberCounts
<1>2. /\ f[0] = 0 /\ f[1] = f[0] + Weight(bits, 0) /\ f[2] = f[1] + Weight(bits, 1)
      /\ f[3] = f[2] + Weight(bits, 2) /\ f[4] = f[3] + Weight(bits, 3)
  BY <1>1 DEF Counts
<1>3. /\ Weight(bits, 0) = IF 0 \in bits THEN 1 ELSE 0
      /\ Weight(bits, 1) = IF 1 \in bits THEN 2 ELSE 0
      /\ Weight(bits, 2) = IF 2 \in bits THEN 4 ELSE 0
      /\ Weight(bits, 3) = IF 3 \in bits THEN 8 ELSE 0
  BY SMT DEF Weight
<1> DEFINE S == {n \in Nat : n <= 28 => f[n + 4] = f[4]}
<1>4. 0 \in S
  OBVIOUS
<1>5. ASSUME NEW n \in Nat, n \in S, n + 1 <= 28
      PROVE  f[n + 5] = f[4]
  <2>1. n + 5 \in 1 .. 32 /\ (n + 5) - 1 = n + 4
    BY <1>5
  <2>2. f[n + 5] = f[n + 4] + Weight(bits, n + 4)
    BY <1>1, <2>1 DEF Counts
  <2>3. Weight(bits, n + 4) = 0
    BY DEF Weight
  <2>4. f[n + 4] \in Nat
    BY <1>1, <1>5, CountsNat
  <2> QED
    BY <1>5, <2>2, <2>3, <2>4
<1>6. 28 \in S
  <2>1. \A n \in Nat : n \in S => n + 1 \in S
    BY <1>5
  <2> HIDE DEF S
  <2> QED
    BY <1>4, <2>1, ByInduction
<1> QED
  BY <1>1, <1>2, <1>3, <1>6

-----------------------------------------------------------------------------
(* The table, group by group, and the tests of the flow decoder. *)

LEMMA BranchesAre ==
    /\ Branches[1] = Row(\h0ffffff0, \h012fff10, "bx", <<O("c"), R(0)>>)
    /\ Branches[2] = Row(\h0f000000, \h0f000000, "swi", <<O("c"), O("i")>>)
    /\ Branches[3] = Row(\h0f000000, \h0a000000, "b", <<O("c"), O("j")>>)
    /\ Branches[4] = Row(\h0f000000, \h0b000000, "bl", <<O("c"), O("j")>>)
BY SMT DEF Branches

LEMMA MultiplicationsAre ==
    /\ Multiplications[1] = Row(\h0fe000f0, \h00000090, "mul", <<O("c"), O("s"), R(16), R(0), R(8)>>)
    /\ Multiplications[2] = Row(\h0fe000f0, \h00200090, "mla", <<O("c"), O("s"), R(16), R(0), R(8), R(12)>>)
    /\ Multiplications[3] = Row(\h0fa000f0, \h00800090, "mull", <<O("u"), O("c"), O("s"), R(12), R(16), R(0), R(8)>>)
    /\ Multiplications[4] = Row(\h0fa000f0, \h00a00090, "mlal", <<O("u"), O("c"), O("s"), R(12), R(16), R(0), R(8)>>)
BY SMT DEF Multiplications

LEMMA StatusMovesAre ==
    /\ StatusMoves[1] = Row(\h0fff0fff, \h010f0000, "mrs_cpsr", <<O("c"), R(12)>>)
    /\ StatusMoves[2] = Row(\h0fff0fff, \h014f0000, "mrs_spsr", <<O("c"), R(12)>>)
    /\ StatusMoves[3] = Row(\h0db1f000, \h0121f000, "msr_cpsr_all", <<O("c"), R(0)>>)
    /\ StatusMoves[4] = Row(\h0db1f000, \h0161f000, "msr_spsr_all", <<O("c"), R(0)>>)
    /\ StatusMoves[5] = Row(\h0db1f000, \h0120f000, "msr_cpsr_flg", <<O("c"), O("o")>>)
    /\ StatusMoves[6] = Row(\h0db1f000, \h0160f000, "msr_spsr_flg", <<O("c"), O("o")>>)
BY SMT DEF StatusMoves

LEMMA TransfersAre ==
    /\ Transfers[1] = Row(\h0d700000, \h04300000, "ldrt", <<O("c"), O("b"), R(12), O("a")>>)
    /\ Transfers[2] = Row(\h0d700000, \h04200000, "strt", <<O("c"), O("b"), R(12), O("a")>>)
    /\ Transfers[3] = Row(\h0c100000, \h04100000, "ldr", <<O("c"), O("b"), R(12), O("a")>>)
    /\ Transfers[4] = Row(\h0c100000, \h04000000, "str", <<O("c"), O("b"), R(12), O("a")>>)
    /\ Transfers[5] = Row(\h0fb00ff0, \h01000090, "swp", <<O("c"), O("b"), R(12), R(0), R(16)>>)
    /\ Transfers[6] = Row(\h0e100090, \h00100090, "ldrh", <<O("c"), O("B"), R(12), O("A")>>)
    /\ Transfers[7] = Row(\h0e100090, \h00000090, "strh", <<O("c"), O("B"), R(12), O("A")>>)
    /\ Transfers[8] = Row(\h0e100000, \h08100000, "ldm", <<O("c"), O("M"), R(16), O("!"), O("m"), O("^")>>)
    /\ Transfers[9] = Row(\h0e100000, \h08000000, "stm", <<O("c"), O("M"), R(16), O("!"), O("m"), O("^")>>)
BY SMT DEF Transfers

LEMMA DataProcessingAre ==
    /\ DataProcessing[1] = Alu(\h00000000, "and")
    /\ DataProcessing[2] = Alu(\h00200000, "eor")
    /\ DataProcessing[3] = Alu(\h00400000, "sub")
    /\ DataProcessing[4] = Alu(\h00600000, "rsb")
    /\ DataProcessing[5] = Alu(\h00800000, "add")
    /\ DataProcessing[6] = Alu(\h00a00000, "adc")
    /\ DataProcessing[7] = Alu(\h00c00000, "sbc")
    /\ DataProcessing[8] = Alu(\h00e00000, "rsc")
    /\ DataProcessing[9] = Test(\h01000000, "tst")
    /\ DataProcessing[10] = Test(\h01200000, "teq")
    /\ DataProcessing[11] = Row(\h0df00000, \h01500000, "cmp", <<O("c"), R(16), O("o")>>)
    /\ DataProcessing[12] = Test(\h01600000, "cmn")
    /\ DataProcessing[13] = Alu(\h01800000, "orr")
    /\ DataProcessing[14] = Row(\h0fffffff, \h01a00000, "nop", <<O("c")>>)
    /\ DataProcessing[15] = MoveRow(\h01a00000, "mov")
    /\ DataProcessing[16] = Alu(\h01c00000, "bic")
    /\ DataProcessing[17] = MoveRow(\h01e00000, "mvn")
BY SMT DEF DataProcessing

LEMMA LaterAre ==
    /\ Later[1] = RowIf(14, \h0ff000f0, \h01200070, "bkpt", <<O("k")>>)
    /\ Later[2] = RowIf(15, \h0e000000, \h0c000000, "blx", <<O("j")>>)
    /\ Later[3] = Row(\h0ff000f0, \h01200030, "blx", <<O("c"), R(0)>>)
    /\ Later[4] = Row(\h0ff000f0, \h01600010, "clz", <<O("c"), R(12), R(0)>>)
    /\ Later[5] = Row(\h0e100ff0, \h001000f0, "ldrd", <<O("c"), R(12), O("A")>>)
    /\ Later[6] = Row(\h0e100ff0, \h000000f0, "strd", <<O("c"), R(12), O("A")>>)
BY SMT DEF Later

LEMMA CoprocessorAre ==
    /\ Coprocessor[1] = Row(\h0f100010, \h0e000010, "mcr", <<O("t"), O("p"), X(21), R(12), C(16), C(0), X(5)>>)
    /\ Coprocessor[2] = Row(\h0f100010, \h0e100010, "mrc", <<O("t"), O("p"), X(21), R(12), C(16), C(0), X(5)>>)
    /\ Coprocessor[3] = Row(\h0e100000, \h0c000000, "stc", <<O("t"), O("l"), O("p"), C(12), O("a")>>)
    /\ Coprocessor[4] = Row(\h0e100000, \h0c100000, "ldc", <<O("t"), O("l"), O("p"), C(12), O("a")>>)
    /\ Coprocessor[5] = Row(\h0f000010, \h0e000000, "cdp", <<O("t"), O("p"), X(20), C(12), C(16), C(0), X(5)>>)
    /\ Coprocessor[6] = Row(\h0ff00000, \h0c400000, "mcrr", <<O("c"), O("p"), X(0), R(12), R(16), C(0)>>)
    /\ Coprocessor[7] = Row(\h0ff00000, \h0c500000, "mrrc", <<O("c"), O("p"), X(0), R(12), R(16), C(0)>>)
    /\ Coprocessor[8] = RowIf(15, \h0d70f000, \h0550f000, "pld", <<O("a")>>)
BY SMT DEF Coprocessor

LEMMA SaturatingAre ==
    /\ Saturating[1] = Row(\h0fb000f0, \h01000050, "qadd", <<O("d"), O("c"), R(12), R(0), R(16)>>)
    /\ Saturating[2] = Row(\h0fb000f0, \h01200050, "qsub", <<O("d"), O("c"), R(12), R(0), R(16)>>)
    /\ Saturating[3] = Row(\h0fb00090, \h01200080, "smul", <<W(22), O("c"), R(16), R(0), R(8)>>)
    /\ Saturating[4] = Row(\h0f900090, \h01000080, "smla", <<O("l"), W(21), O("c"), R(16), R(0), R(8), R(12)>>)
BY SMT DEF Saturating

LEMMA InvalidAre ==
    /\ Invalid[1] = Row(0, 0, "invalid", <<>>)
BY SMT DEF Invalid

LEMMA FlowTestsAre ==
    /\ Len(FlowTests) = 15
    /\ FlowTests[1] = Flow(\h0ffffff0, \h012fff10, "bx")
    /\ FlowTests[2] = Flow(\h0f000000, \h0f000000, "swi")
    /\ FlowTests[3] = Flow(\h0e000000, \h0a000000, "b")
    /\ FlowTests[4] = Flow(\h0fbf0fff, \h010f0000, "mrs")
    /\ FlowTests[5] = Flow(\h0fb0fff0, \h0120f000, "mrs")
    /\ FlowTests[6] = Flow(\h0fb0f000, \h0320f000, "mrs")
    /\ FlowTests[7] = Flow(\h0fc000f0, \h00000090, "mul")
    /\ FlowTests[8] = Flow(\h0f8000f0, \h00800090, "umull")
    /\ FlowTests[9] = Flow(\h0c000000, \h04000000, "ldr")
    /\ FlowTests[10] = Flow(\h0f000010, \h0e000010, "mcr")
    /\ FlowTests[11] = Flow(\h0fb00ff0, \h01000090, "swp")
    /\ FlowTests[12] = Flow(\h0e000090, \h00000090, "ldrh")
    /\ FlowTests[13] = Flow(\h0e000000, \h08000000, "ldm")
    /\ FlowTests[14] = Flow(\h0c000000, \h00000000, "alu")
    /\ FlowTests[15] = Flow(0, 0, "undf")
BY SMT DEF FlowTests

HasRows(s, n) == s = [i \in 1 .. n |-> s[i]]

LEMMA LenOfRows ==
    ASSUME NEW s, NEW m \in Nat, HasRows(s, m)
    PROVE  Len(s) = m
BY DEF HasRows

LEMMA RowsSeq ==
    ASSUME NEW s, NEW m \in Nat, s = [i \in 1 .. m |-> s[i]], NEW S, \A i \in 1 .. m : s[i] \in S
    PROVE  s \in Seq(S) /\ Len(s) = m
<1>1. s \in [1 .. m -> S]
  BY Zenon
<1>2. s \in Seq(S)
  BY <1>1, SeqDef
<1>3. DOMAIN s = 1 .. m
  BY <1>1
<1> QED
  BY <1>2, <1>3, LenProperties

\* u is the table s of m rows with the n rows of t behind it.
IsJoined(s, m, t, n, u, k) ==
    /\ m \in Nat /\ n \in Nat /\ k \in Nat /\ k = m + n
    /\ HasRows(s, m) /\ HasRows(t, n)
    /\ u = s \o t

LEMMA Joined ==
    ASSUME NEW s, NEW t, NEW u, NEW m, NEW n, NEW k, IsJoined(s, m, t, n, u, k)
    PROVE  /\ HasRows(u, k)
           /\ \A i \in 1 .. m : u[i] = s[i]
           /\ \A i \in 1 .. n : u[m + i] = t[i]
<1> USE DEF IsJoined
<1> DEFINE S == {s[i] : i \in 1 .. m} \cup {t[i] : i \in 1 .. n}
<1>0. (\A i \in 1 .. m : s[i] \in S) /\ (\A i \in 1 .. n : t[i] \in S)
  OBVIOUS
<1> HIDE DEF S
<1>1. s \in Seq(S) /\ Len(s) = m
  BY <1>0, RowsSeq DEF HasRows
<1>2. t \in Seq(S) /\ Len(t) = n
  BY <1>0, RowsSeq DEF HasRows
<1>3. /\ s \o t \in Seq(S)
      /\ Len(s \o t) = Len(s) + Len(t)
      /\ \A i \in 1 .. Len(s) + Len(t) : (s \o t)[i] =
                     IF i <= Len(s) THEN s[i] ELSE t[i - Len(s)]
  BY <1>1, <1>2, ConcatProperties
<1>4. u \in Seq(S) /\ Len(u) = k /\ \A i \in 1 .. k : u[i] = IF i <= m THEN s[i] ELSE t[i - m]
  BY <1>1, <1>2, <1>3
<1>5. u = [i \in 1 .. k |-> u[i]]
  BY <1>4, LenProperties
<1>6. \A i \in 1 .. m : u[i] = s[i]
  BY <1>4
<1>7. ASSUME NEW i \in 1 .. n PROVE u[m + i] = t[i]
  <2>1. m + i \in 1 .. k /\ (m + i) - m = i /\ ~(m + i <= m)
    OBVIOUS
  <2> QED
    BY <1>4, <2>1
<1> QED
  BY <1>4, <1>5, <1>6, <1>7 DEF HasRows

LEMMA GroupsAre ==
    /\ HasRows(Branches, 4)
    /\ HasRows(Multiplications, 4)
    /\ HasRows(StatusMoves, 6)
    /\ HasRows(Transfers, 9)
    /\ HasRows(DataProcessing, 17)
    /\ HasRows(Later, 6)
    /\ HasRows(Coprocessor, 8)
    /\ HasRows(Saturating, 4)
    /\ HasRows(Invalid, 1)
<1>1. HasRows(Branches, 4)
  BY SMT DEF HasRows, Branches
<1>2. HasRows(Multiplications, 4)
  BY SMT DEF HasRows, Multiplications
<1>3. HasRows(StatusMoves, 6)
  BY SMT DEF HasRows, StatusMoves
<1>4. HasRows(Transfers, 9)
  BY SMT DEF HasRows, Transfers
<1>5. HasRows(DataProcessing, 17)
  BY SMT DEF HasRows, DataProcessing
<1>6. HasRows(Later, 6)
  BY SMT DEF HasRows, Later
<1>7. HasRows(Coprocessor, 8)
  BY SMT DEF HasRows, Coprocessor
<1>8. HasRows(Saturating, 4)
  BY SMT DEF HasRows, Saturating
<1>9. HasRows(Invalid, 1)
  BY SMT DEF HasRows, Invalid
<1> QED
  BY <1>1, <1>2, <1>3, <1>4, <1>5, <1>6, <1>7, <1>8, <1>9

\* A row of the table is one of a group.
LEMMA TableIs ==
    /\ Len(arm_insns) = 59
    /\ \A i \in 1 .. 4 : arm_insns[i] = Branches[i]
    /\ \A i \in 1 .. 4 : arm_insns[4 + i] = Multiplications[i]
    /\ \A i \in 1 .. 6 : arm_insns[8 + i] = StatusMoves[i]
    /\ \A i \in 1 .. 9 : arm_insns[14 + i] = Transfers[i]
    /\ \A i \in 1 .. 17 : arm_insns[23 + i] = DataProcessing[i]
    /\ \A i \in 1 .. 6 : arm_insns[40 + i] = Later[i]
    /\ \A i \in 1 .. 8 : arm_insns[46 + i] = Coprocessor[i]
    /\ \A i \in 1 .. 4 : arm_insns[54 + i] = Saturating[i]
    /\ \A i \in 1 .. 1 : arm_insns[58 + i] = Invalid[i]
<1> DEFINE t1 == Branches \o Multiplications
           t2 == t1 \o StatusMoves
           t3 == t2 \o Transfers
           t4 == t3 \o DataProcessing
           t5 == t4 \o Later
           t6 == t5 \o Coprocessor
           t7 == t6 \o Saturating
           t8 == t7 \o Invalid
<1>1. /\ HasRows(t1, 8)
      /\ \A i \in 1 .. 4 : t1[i] = Branches[i]
      /\ \A i \in 1 .. 4 : t1[4 + i] = Multiplications[i]
  <2>1. HasRows(Branches, 4) /\ HasRows(Multiplications, 4)
    BY GroupsAre
  <2>2. IsJoined(Branches, 4, Multiplications, 4, t1, 8)
    BY <2>1 DEF IsJoined
  <2> HIDE DEF t1
  <2>3. HasRows(t1, 8)
    BY <2>2, Joined
  <2>4. \A i \in 1 .. 4 : t1[i] = Branches[i]
    BY <2>2, Joined
  <2>5. \A i \in 1 .. 4 : t1[4 + i] = Multiplications[i]
    BY <2>2, Joined
  <2> QED
    BY <2>3, <2>4, <2>5
<1>2. /\ HasRows(t2, 14)
      /\ \A i \in 1 .. 8 : t2[i] = t1[i]
      /\ \A i \in 1 .. 6 : t2[8 + i] = StatusMoves[i]
  <2>1. HasRows(t1, 8) /\ HasRows(StatusMoves, 6)
    BY <1>1, GroupsAre
  <2>2. IsJoined(t1, 8, StatusMoves, 6, t2, 14)
    BY <2>1 DEF IsJoined
  <2> HIDE DEF t1, t2
  <2>3. HasRows(t2, 14)
    BY <2>2, Joined
  <2>4. \A i \in 1 .. 8 : t2[i] = t1[i]
    BY <2>2, Joined
  <2>5. \A i \in 1 .. 6 : t2[8 + i] = StatusMoves[i]
    BY <2>2, Joined
  <2> QED
    BY <2>3, <2>4, <2>5
<1>3. /\ HasRows(t3, 23)
      /\ \A i \in 1 .. 14 : t3[i] = t2[i]
      /\ \A i \in 1 .. 9 : t3[14 + i] = Transfers[i]
  <2>1. HasRows(t2, 14) /\ HasRows(Transfers, 9)
    BY <1>2, GroupsAre
  <2>2. IsJoined(t2, 14, Transfers, 9, t3, 23)
    BY <2>1 DEF IsJoined
  <2> HIDE DEF t1, t2, t3
  <2>3. HasRows(t3, 23)
    BY <2>2, Joined
  <2>4. \A i \in 1 .. 14 : t3[i] = t2[i]
    BY <2>2, Joined
  <2>5. \A i \in 1 .. 9 : t3[14 + i] = Transfers[i]
    BY <2>2, Joined
  <2> QED
    BY <2>3, <2>4, <2>5
<1>4. /\ HasRows(t4, 40)
      /\ \A i \in 1 .. 23 : t4[i] = t3[i]
      /\ \A i \in 1 .. 17 : t4[23 + i] = DataProcessing[i]
  <2>1. HasRows(t3, 23) /\ HasRows(DataProcessing, 17)
    BY <1>3, GroupsAre
  <2>2. IsJoined(t3, 23, DataProcessing, 17, t4, 40)
    BY <2>1 DEF IsJoined
  <2> HIDE DEF t1, t2, t3, t4
  <2>3. HasRows(t4, 40)
    BY <2>2, Joined
  <2>4. \A i \in 1 .. 23 : t4[i] = t3[i]
    BY <2>2, Joined
  <2>5. \A i \in 1 .. 17 : t4[23 + i] = DataProcessing[i]
    BY <2>2, Joined
  <2> QED
    BY <2>3, <2>4, <2>5
<1>5. /\ HasRows(t5, 46)
      /\ \A i \in 1 .. 40 : t5[i] = t4[i]
      /\ \A i \in 1 .. 6 : t5[40 + i] = Later[i]
  <2>1. HasRows(t4, 40) /\ HasRows(Later, 6)
    BY <1>4, GroupsAre
  <2>2. IsJoined(t4, 40, Later, 6, t5, 46)
    BY <2>1 DEF IsJoined
  <2> HIDE DEF t1, t2, t3, t4, t5
  <2>3. HasRows(t5, 46)
    BY <2>2, Joined
  <2>4. \A i \in 1 .. 40 : t5[i] = t4[i]
    BY <2>2, Joined
  <2>5. \A i \in 1 .. 6 : t5[40 + i] = Later[i]
    BY <2>2, Joined
  <2> QED
    BY <2>3, <2>4, <2>5
<1>6. /\ HasRows(t6, 54)
      /\ \A i \in 1 .. 46 : t6[i] = t5[i]
      /\ \A i \in 1 .. 8 : t6[46 + i] = Coprocessor[i]
  <2>1. HasRows(t5, 46) /\ HasRows(Coprocessor, 8)
    BY <1>5, GroupsAre
  <2>2. IsJoined(t5, 46, Coprocessor, 8, t6, 54)
    BY <2>1 DEF IsJoined
  <2> HIDE DEF t1, t2, t3, t4, t5, t6
  <2>3. HasRows(t6, 54)
    BY <2>2, Joined
  <2>4. \A i \in 1 .. 46 : t6[i] = t5[i]
    BY <2>2, Joined
  <2>5. \A i \in 1 .. 8 : t6[46 + i] = Coprocessor[i]
    BY <2>2, Joined
  <2> QED
    BY <2>3, <2>4, <2>5
<1>7. /\ HasRows(t7, 58)
      /\ \A i \in 1 .. 54 : t7[i] = t6[i]
      /\ \A i \in 1 .. 4 : t7[54 + i] = Saturating[i]
  <2>1. HasRows(t6, 54) /\ HasRows(Saturating, 4)
    BY <1>6, GroupsAre
  <2>2. IsJoined(t6, 54, Saturating, 4, t7, 58)
    BY <2>1 DEF IsJoined
  <2> HIDE DEF t1, t2, t3, t4, t5, t6, t7
  <2>3. HasRows(t7, 58)
    BY <2>2, Joined
  <2>4. \A i \in 1 .. 54 : t7[i] = t6[i]
    BY <2>2, Joined
  <2>5. \A i \in 1 .. 4 : t7[54 + i] = Saturating[i]
    BY <2>2, Joined
  <2> QED
    BY <2>3, <2>4, <2>5
<1>8. /\ HasRows(t8, 59)
      /\ \A i \in 1 .. 58 : t8[i] = t7[i]
      /\ \A i \in 1 .. 1 : t8[58 + i] = Invalid[i]
  <2>1. HasRows(t7, 58) /\ HasRows(Invalid, 1)
    BY <1>7, GroupsAre
  <2>2. IsJoined(t7, 58, Invalid, 1, t8, 59)
    BY <2>1 DEF IsJoined
  <2> HIDE DEF t1, t2, t3, t4, t5, t6, t7, t8
  <2>3. HasRows(t8, 59)
    BY <2>2, Joined
  <2>4. \A i \in 1 .. 58 : t8[i] = t7[i]
    BY <2>2, Joined
  <2>5. \A i \in 1 .. 1 : t8[58 + i] = Invalid[i]
    BY <2>2, Joined
  <2> QED
    BY <2>3, <2>4, <2>5
<1>9. arm_insns = t8
  BY DEF arm_insns
<1> HIDE DEF t1, t2, t3, t4, t5, t6, t7, t8
<1>10. Len(arm_insns) = 59
  BY <1>8, <1>9, LenOfRows
<1> QED
  BY SMT, <1>10, <1>1, <1>2, <1>3, <1>4, <1>5, <1>6, <1>7, <1>8, <1>9

-----------------------------------------------------------------------------
(* The first row that matches *)

LEMMA MinIs ==
    ASSUME NEW D, D \subseteq Nat, D # {}
    PROVE  Min(D) \in D /\ \A d \in D : Min(D) <= d
BY LeastNat DEF Min

\* The row i is the one that a word is listed by.
ListedBy(word, i) ==
    /\ i \in 1 .. 59
    /\ RowOf(word) = arm_insns[i]
    /\ Matches(word, arm_insns[i])
    /\ \A j \in 1 .. 59 : j < i => ~Matches(word, arm_insns[j])

LEMMA BitsAre ==
    ASSUME NEW i \in 0 .. 27
    PROVE  \/ i = 0 \/ i = 1 \/ i = 2 \/ i = 3 \/ i = 4 \/ i = 5 \/ i = 6
           \/ i = 7 \/ i = 8 \/ i = 9 \/ i = 10 \/ i = 11 \/ i = 12 \/ i = 13
           \/ i = 14 \/ i = 15 \/ i = 16 \/ i = 17 \/ i = 18 \/ i = 19 \/ i = 20
           \/ i = 21 \/ i = 22 \/ i = 23 \/ i = 24 \/ i = 25 \/ i = 26 \/ i = 27
BY SMT

SameOn(word, A, V) ==
    A \subseteq 0 .. 27 /\ \A i \in 0 .. 27 : i \in A => (i \in word <=> i \in V)

LEMMA MatchesIfSame ==
    ASSUME NEW word, NEW r, SameOn(word, r.mask, r.value)
    PROVE  Matches(word, r)
<1>1. ASSUME NEW i \in r.mask PROVE i \in word <=> i \in r.value
  <2>1. i \in 0 .. 27
    BY DEF SameOn
  <2> QED
    BY <2>1 DEF SameOn
<1> QED
  BY <1>1 DEF Matches

LEMMA BitsOfNone == Bits(0) = {}
<1> DEFINE A == Bits(0)
<1>1. /\ 0 \notin A /\ 1 \notin A /\ 2 \notin A /\ 3 \notin A /\ 4 \notin A /\ 5 \notin A /\ 6 \notin A
      /\ 7 \notin A /\ 8 \notin A /\ 9 \notin A /\ 10 \notin A /\ 11 \notin A /\ 12 \notin A /\ 13 \notin A
      /\ 14 \notin A /\ 15 \notin A /\ 16 \notin A /\ 17 \notin A /\ 18 \notin A /\ 19 \notin A /\ 20 \notin A
      /\ 21 \notin A /\ 22 \notin A /\ 23 \notin A /\ 24 \notin A /\ 25 \notin A /\ 26 \notin A /\ 27 \notin A
  BY SMT DEF Bits
<1>2. A \subseteq 0 .. 27
  BY SMT DEF Bits
<1> HIDE DEF A
<1>3. ASSUME NEW i \in 0 .. 27 PROVE i \notin A
  BY SMT, <1>1, BitsAre
<1>4. A = {}
  BY <1>2, <1>3
<1> QED
  BY <1>4 DEF A

LEMMA RowOfIs ==
    ASSUME NEW word
    PROVE  \E i \in 1 .. 59 : ListedBy(word, i)
<1> DEFINE D == {i \in 1 .. Len(arm_insns) : Matches(word, arm_insns[i])}
<1>1. 59 \in D
  <2>1. arm_insns[59] = Row(0, 0, "invalid", <<>>)
    <3>1. 1 \in 1 .. 1 /\ 58 + 1 = 59
      OBVIOUS
    <3>2. arm_insns[58 + 1] = Invalid[1]
      BY <3>1, TableIs
    <3> QED
      BY <3>1, <3>2, InvalidAre
  <2>2. Matches(word, arm_insns[59])
    BY <2>1, BitsOfNone DEF Matches, Row
  <2> QED
    BY <2>2, TableIs
<1>2. D \subseteq Nat
  OBVIOUS
<1>3. RowOf(word) = arm_insns[Min(D)]
  BY <1>1 DEF RowOf, SelectInSeq
<1>4. \A i \in D : i \in 1 .. 59 /\ Matches(word, arm_insns[i])
  BY TableIs
<1>5. \A i \in 1 .. 59 : Matches(word, arm_insns[i]) => i \in D
  BY TableIs
<1> HIDE DEF D
<1>6. Min(D) \in D /\ \A d \in D : Min(D) <= d
  BY <1>1, <1>2, MinIs
<1>7. ListedBy(word, Min(D))
  BY <1>3, <1>4, <1>5, <1>6 DEF ListedBy
<1> QED
  BY <1>7 DEF ListedBy

LEMMA ClassIs ==
    ASSUME NEW word, NEW i \in 1 .. 15, Matches(word, FlowTests[i]),
           \A j \in 1 .. 15 : j < i => ~Matches(word, FlowTests[j])
    PROVE  Class(word) = FlowTests[i].class
<1> DEFINE D == {j \in 1 .. Len(FlowTests) : Matches(word, FlowTests[j])}
<1>1. i \in D /\ D \subseteq Nat /\ \A j \in D : j \in 1 .. 15 /\ ~(j < i)
  BY FlowTestsAre
<1>2. Class(word) = FlowTests[Min(D)].class
  BY <1>1 DEF Class, SelectInSeq
<1> HIDE DEF D
<1>3. Min(D) \in D /\ Min(D) <= i
  BY <1>1, MinIs
<1>4. Min(D) \in 1 .. 15 /\ ~(Min(D) < i)
  BY <1>1, <1>3
<1>5. Min(D) = i
  BY <1>3, <1>4
<1> QED
  BY <1>2, <1>5

-----------------------------------------------------------------------------
(* Patterns of bits *)

LEMMA MatchesIff ==
    ASSUME NEW word, NEW r
    PROVE  Matches(word, r) <=> \A i \in r.mask : i \in word <=> i \in r.value
BY DEF Matches

LEMMA BitsInRange ==
    ASSUME NEW n
    PROVE  Bits(n) \subseteq 0 .. 27
BY DEF Bits

-----------------------------------------------------------------------------
(* What the tests of the flow decoder ask of a word. *)

LEMMA Flow1 ==
    ASSUME NEW word, Matches(word, FlowTests[1])
    PROVE  /\ 27 \notin word /\ 26 \notin word /\ 25 \notin word /\ 24 \in word /\ 23 \notin word /\ 7 \notin word
<1> DEFINE A == Bits(\h0ffffff0)
           V == Bits(\h012fff10)
<1>1. /\ 27 \in A /\ 26 \in A /\ 25 \in A /\ 24 \in A /\ 23 \in A /\ 7 \in A
      /\ 27 \notin V /\ 26 \notin V /\ 25 \notin V /\ 24 \in V /\ 23 \notin V /\ 7 \notin V
  BY SMT DEF Bits
<1>2. word \cap A = V \cap A
  BY SMT, FlowTestsAre DEF Matches, Flow
<1> HIDE DEF A, V
<1> QED
  BY SMT, <1>1, <1>2

LEMMA Flow2 ==
    ASSUME NEW word, Matches(word, FlowTests[2])
    PROVE  /\ 27 \in word /\ 26 \in word /\ 25 \in word /\ 24 \in word
<1> DEFINE A == Bits(\h0f000000)
           V == Bits(\h0f000000)
<1>1. /\ 27 \in A /\ 26 \in A /\ 25 \in A /\ 24 \in A
      /\ 27 \in V /\ 26 \in V /\ 25 \in V /\ 24 \in V
  BY SMT DEF Bits
<1>2. word \cap A = V \cap A
  BY SMT, FlowTestsAre DEF Matches, Flow
<1> HIDE DEF A, V
<1> QED
  BY SMT, <1>1, <1>2

LEMMA Flow3 ==
    ASSUME NEW word
    PROVE  Matches(word, FlowTests[3]) <=>
              /\ 25 \in word /\ 26 \notin word /\ 27 \in word
<1> DEFINE A == Bits(\h0e000000)
           V == Bits(\h0a000000)
<1>1. /\ 0 \notin A /\ 1 \notin A /\ 2 \notin A /\ 3 \notin A /\ 4 \notin A /\ 5 \notin A /\ 6 \notin A
      /\ 7 \notin A /\ 8 \notin A /\ 9 \notin A /\ 10 \notin A /\ 11 \notin A /\ 12 \notin A /\ 13 \notin A
      /\ 14 \notin A /\ 15 \notin A /\ 16 \notin A /\ 17 \notin A /\ 18 \notin A /\ 19 \notin A /\ 20 \notin A
      /\ 21 \notin A /\ 22 \notin A /\ 23 \notin A /\ 24 \notin A /\ 25 \in A /\ 26 \in A /\ 27 \in A
  BY SMT DEF Bits
<1>2. /\ 25 \in V /\ 26 \notin V /\ 27 \in V
  BY SMT DEF Bits
<1>3. A \subseteq 0 .. 27
  BY SMT, BitsInRange
<1>4. FlowTests[3].mask = A /\ FlowTests[3].value = V
  BY SMT, FlowTestsAre DEF Flow
<1> HIDE DEF A, V
<1>5. ASSUME Matches(word, FlowTests[3])
      PROVE  /\ 25 \in word /\ 26 \notin word /\ 27 \in word
  BY SMT, <1>1, <1>2, <1>4, <1>5 DEF Matches
<1>6. ASSUME /\ 25 \in word /\ 26 \notin word /\ 27 \in word
      PROVE  Matches(word, FlowTests[3])
  <2>1. ASSUME NEW i \in 0 .. 27, i \in A
        PROVE  i \in word <=> i \in V
    BY SMT, <1>1, <1>2, <1>6, <2>1, BitsAre
  <2>2. SameOn(word, A, V)
    BY SMT, <1>3, <2>1 DEF SameOn
  <2> QED
    BY SMT, <1>4, <2>2, MatchesIfSame
<1> QED
  BY SMT, <1>5, <1>6

LEMMA Flow4 ==
    ASSUME NEW word, Matches(word, FlowTests[4])
    PROVE  /\ 27 \notin word /\ 26 \notin word /\ 25 \notin word /\ 24 \in word /\ 23 \notin word /\ 7 \notin word
<1> DEFINE A == Bits(\h0fbf0fff)
           V == Bits(\h010f0000)
<1>1. /\ 27 \in A /\ 26 \in A /\ 25 \in A /\ 24 \in A /\ 23 \in A /\ 7 \in A
      /\ 27 \notin V /\ 26 \notin V /\ 25 \notin V /\ 24 \in V /\ 23 \notin V /\ 7 \notin V
  BY SMT DEF Bits
<1>2. word \cap A = V \cap A
  BY SMT, FlowTestsAre DEF Matches, Flow
<1> HIDE DEF A, V
<1> QED
  BY SMT, <1>1, <1>2

LEMMA Flow5 ==
    ASSUME NEW word, Matches(word, FlowTests[5])
    PROVE  /\ 27 \notin word /\ 26 \notin word /\ 25 \notin word /\ 24 \in word /\ 23 \notin word /\ 7 \notin word
<1> DEFINE A == Bits(\h0fb0fff0)
           V == Bits(\h0120f000)
<1>1. /\ 27 \in A /\ 26 \in A /\ 25 \in A /\ 24 \in A /\ 23 \in A /\ 7 \in A
      /\ 27 \notin V /\ 26 \notin V /\ 25 \notin V /\ 24 \in V /\ 23 \notin V /\ 7 \notin V
  BY SMT DEF Bits
<1>2. word \cap A = V \cap A
  BY SMT, FlowTestsAre DEF Matches, Flow
<1> HIDE DEF A, V
<1> QED
  BY SMT, <1>1, <1>2

LEMMA Flow6 ==
    ASSUME NEW word, Matches(word, FlowTests[6])
    PROVE  /\ 27 \notin word /\ 26 \notin word /\ 25 \in word /\ 24 \in word /\ 23 \notin word
<1> DEFINE A == Bits(\h0fb0f000)
           V == Bits(\h0320f000)
<1>1. /\ 27 \in A /\ 26 \in A /\ 25 \in A /\ 24 \in A /\ 23 \in A
      /\ 27 \notin V /\ 26 \notin V /\ 25 \in V /\ 24 \in V /\ 23 \notin V
  BY SMT DEF Bits
<1>2. word \cap A = V \cap A
  BY SMT, FlowTestsAre DEF Matches, Flow
<1> HIDE DEF A, V
<1> QED
  BY SMT, <1>1, <1>2

LEMMA Flow7 ==
    ASSUME NEW word
    PROVE  Matches(word, FlowTests[7]) <=>
              /\ 4 \in word /\ 5 \notin word /\ 6 \notin word /\ 7 \in word
              /\ 22 \notin word /\ 23 \notin word /\ 24 \notin word /\ 25 \notin word
              /\ 26 \notin word /\ 27 \notin word
<1> DEFINE A == Bits(\h0fc000f0)
           V == Bits(\h00000090)
<1>1. /\ 0 \notin A /\ 1 \notin A /\ 2 \notin A /\ 3 \notin A /\ 4 \in A /\ 5 \in A /\ 6 \in A
      /\ 7 \in A /\ 8 \notin A /\ 9 \notin A /\ 10 \notin A /\ 11 \notin A /\ 12 \notin A /\ 13 \notin A
      /\ 14 \notin A /\ 15 \notin A /\ 16 \notin A /\ 17 \notin A /\ 18 \notin A /\ 19 \notin A /\ 20 \notin A
      /\ 21 \notin A /\ 22 \in A /\ 23 \in A /\ 24 \in A /\ 25 \in A /\ 26 \in A /\ 27 \in A
  BY SMT DEF Bits
<1>2. /\ 4 \in V /\ 5 \notin V /\ 6 \notin V /\ 7 \in V /\ 22 \notin V /\ 23 \notin V
      /\ 24 \notin V /\ 25 \notin V /\ 26 \notin V /\ 27 \notin V
  BY SMT DEF Bits
<1>3. A \subseteq 0 .. 27
  BY SMT, BitsInRange
<1>4. FlowTests[7].mask = A /\ FlowTests[7].value = V
  BY SMT, FlowTestsAre DEF Flow
<1> HIDE DEF A, V
<1>5. ASSUME Matches(word, FlowTests[7])
      PROVE  /\ 4 \in word /\ 5 \notin word /\ 6 \notin word /\ 7 \in word
             /\ 22 \notin word /\ 23 \notin word /\ 24 \notin word /\ 25 \notin word
             /\ 26 \notin word /\ 27 \notin word
  BY SMT, <1>1, <1>2, <1>4, <1>5 DEF Matches
<1>6. ASSUME /\ 4 \in word /\ 5 \notin word /\ 6 \notin word /\ 7 \in word
             /\ 22 \notin word /\ 23 \notin word /\ 24 \notin word /\ 25 \notin word
             /\ 26 \notin word /\ 27 \notin word
      PROVE  Matches(word, FlowTests[7])
  <2>1. ASSUME NEW i \in 0 .. 27, i \in A
        PROVE  i \in word <=> i \in V
    BY SMT, <1>1, <1>2, <1>6, <2>1, BitsAre
  <2>2. SameOn(word, A, V)
    BY SMT, <1>3, <2>1 DEF SameOn
  <2> QED
    BY SMT, <1>4, <2>2, MatchesIfSame
<1> QED
  BY SMT, <1>5, <1>6

LEMMA Flow8 ==
    ASSUME NEW word
    PROVE  Matches(word, FlowTests[8]) <=>
              /\ 4 \in word /\ 5 \notin word /\ 6 \notin word /\ 7 \in word
              /\ 23 \in word /\ 24 \notin word /\ 25 \notin word /\ 26 \notin word
              /\ 27 \notin word
<1> DEFINE A == Bits(\h0f8000f0)
           V == Bits(\h00800090)
<1>1. /\ 0 \notin A /\ 1 \notin A /\ 2 \notin A /\ 3 \notin A /\ 4 \in A /\ 5 \in A /\ 6 \in A
      /\ 7 \in A /\ 8 \notin A /\ 9 \notin A /\ 10 \notin A /\ 11 \notin A /\ 12 \notin A /\ 13 \notin A
      /\ 14 \notin A /\ 15 \notin A /\ 16 \notin A /\ 17 \notin A /\ 18 \notin A /\ 19 \notin A /\ 20 \notin A
      /\ 21 \notin A /\ 22 \notin A /\ 23 \in A /\ 24 \in A /\ 25 \in A /\ 26 \in A /\ 27 \in A
  BY SMT DEF Bits
<1>2. /\ 4 \in V /\ 5 \notin V /\ 6 \notin V /\ 7 \in V /\ 23 \in V /\ 24 \notin V
      /\ 25 \notin V /\ 26 \notin V /\ 27 \notin V
  BY SMT DEF Bits
<1>3. A \subseteq 0 .. 27
  BY SMT, BitsInRange
<1>4. FlowTests[8].mask = A /\ FlowTests[8].value = V
  BY SMT, FlowTestsAre DEF Flow
<1> HIDE DEF A, V
<1>5. ASSUME Matches(word, FlowTests[8])
      PROVE  /\ 4 \in word /\ 5 \notin word /\ 6 \notin word /\ 7 \in word
             /\ 23 \in word /\ 24 \notin word /\ 25 \notin word /\ 26 \notin word
             /\ 27 \notin word
  BY SMT, <1>1, <1>2, <1>4, <1>5 DEF Matches
<1>6. ASSUME /\ 4 \in word /\ 5 \notin word /\ 6 \notin word /\ 7 \in word
             /\ 23 \in word /\ 24 \notin word /\ 25 \notin word /\ 26 \notin word
             /\ 27 \notin word
      PROVE  Matches(word, FlowTests[8])
  <2>1. ASSUME NEW i \in 0 .. 27, i \in A
        PROVE  i \in word <=> i \in V
    BY SMT, <1>1, <1>2, <1>6, <2>1, BitsAre
  <2>2. SameOn(word, A, V)
    BY SMT, <1>3, <2>1 DEF SameOn
  <2> QED
    BY SMT, <1>4, <2>2, MatchesIfSame
<1> QED
  BY SMT, <1>5, <1>6

LEMMA Flow9 ==
    ASSUME NEW word
    PROVE  Matches(word, FlowTests[9]) <=>
              /\ 26 \in word /\ 27 \notin word
<1> DEFINE A == Bits(\h0c000000)
           V == Bits(\h04000000)
<1>1. /\ 0 \notin A /\ 1 \notin A /\ 2 \notin A /\ 3 \notin A /\ 4 \notin A /\ 5 \notin A /\ 6 \notin A
      /\ 7 \notin A /\ 8 \notin A /\ 9 \notin A /\ 10 \notin A /\ 11 \notin A /\ 12 \notin A /\ 13 \notin A
      /\ 14 \notin A /\ 15 \notin A /\ 16 \notin A /\ 17 \notin A /\ 18 \notin A /\ 19 \notin A /\ 20 \notin A
      /\ 21 \notin A /\ 22 \notin A /\ 23 \notin A /\ 24 \notin A /\ 25 \notin A /\ 26 \in A /\ 27 \in A
  BY SMT DEF Bits
<1>2. /\ 26 \in V /\ 27 \notin V
  BY SMT DEF Bits
<1>3. A \subseteq 0 .. 27
  BY SMT, BitsInRange
<1>4. FlowTests[9].mask = A /\ FlowTests[9].value = V
  BY SMT, FlowTestsAre DEF Flow
<1> HIDE DEF A, V
<1>5. ASSUME Matches(word, FlowTests[9])
      PROVE  /\ 26 \in word /\ 27 \notin word
  BY SMT, <1>1, <1>2, <1>4, <1>5 DEF Matches
<1>6. ASSUME /\ 26 \in word /\ 27 \notin word
      PROVE  Matches(word, FlowTests[9])
  <2>1. ASSUME NEW i \in 0 .. 27, i \in A
        PROVE  i \in word <=> i \in V
    BY SMT, <1>1, <1>2, <1>6, <2>1, BitsAre
  <2>2. SameOn(word, A, V)
    BY SMT, <1>3, <2>1 DEF SameOn
  <2> QED
    BY SMT, <1>4, <2>2, MatchesIfSame
<1> QED
  BY SMT, <1>5, <1>6

LEMMA Flow10 ==
    ASSUME NEW word
    PROVE  Matches(word, FlowTests[10]) <=>
              /\ 4 \in word /\ 24 \notin word /\ 25 \in word /\ 26 \in word /\ 27 \in word
<1> DEFINE A == Bits(\h0f000010)
           V == Bits(\h0e000010)
<1>1. /\ 0 \notin A /\ 1 \notin A /\ 2 \notin A /\ 3 \notin A /\ 4 \in A /\ 5 \notin A /\ 6 \notin A
      /\ 7 \notin A /\ 8 \notin A /\ 9 \notin A /\ 10 \notin A /\ 11 \notin A /\ 12 \notin A /\ 13 \notin A
      /\ 14 \notin A /\ 15 \notin A /\ 16 \notin A /\ 17 \notin A /\ 18 \notin A /\ 19 \notin A /\ 20 \notin A
      /\ 21 \notin A /\ 22 \notin A /\ 23 \notin A /\ 24 \in A /\ 25 \in A /\ 26 \in A /\ 27 \in A
  BY SMT DEF Bits
<1>2. /\ 4 \in V /\ 24 \notin V /\ 25 \in V /\ 26 \in V /\ 27 \in V
  BY SMT DEF Bits
<1>3. A \subseteq 0 .. 27
  BY SMT, BitsInRange
<1>4. FlowTests[10].mask = A /\ FlowTests[10].value = V
  BY SMT, FlowTestsAre DEF Flow
<1> HIDE DEF A, V
<1>5. ASSUME Matches(word, FlowTests[10])
      PROVE  /\ 4 \in word /\ 24 \notin word /\ 25 \in word /\ 26 \in word /\ 27 \in word
  BY SMT, <1>1, <1>2, <1>4, <1>5 DEF Matches
<1>6. ASSUME /\ 4 \in word /\ 24 \notin word /\ 25 \in word /\ 26 \in word /\ 27 \in word
      PROVE  Matches(word, FlowTests[10])
  <2>1. ASSUME NEW i \in 0 .. 27, i \in A
        PROVE  i \in word <=> i \in V
    BY SMT, <1>1, <1>2, <1>6, <2>1, BitsAre
  <2>2. SameOn(word, A, V)
    BY SMT, <1>3, <2>1 DEF SameOn
  <2> QED
    BY SMT, <1>4, <2>2, MatchesIfSame
<1> QED
  BY SMT, <1>5, <1>6

LEMMA Flow11 ==
    ASSUME NEW word, Matches(word, FlowTests[11])
    PROVE  /\ 27 \notin word /\ 26 \notin word /\ 24 \in word /\ 23 \notin word /\ 20 \notin word /\ 7 \in word
<1> DEFINE A == Bits(\h0fb00ff0)
           V == Bits(\h01000090)
<1>1. /\ 27 \in A /\ 26 \in A /\ 24 \in A /\ 23 \in A /\ 20 \in A /\ 7 \in A
      /\ 27 \notin V /\ 26 \notin V /\ 24 \in V /\ 23 \notin V /\ 20 \notin V /\ 7 \in V
  BY SMT DEF Bits
<1>2. word \cap A = V \cap A
  BY SMT, FlowTestsAre DEF Matches, Flow
<1> HIDE DEF A, V
<1> QED
  BY SMT, <1>1, <1>2

LEMMA Flow12 ==
    ASSUME NEW word
    PROVE  Matches(word, FlowTests[12]) <=>
              /\ 4 \in word /\ 7 \in word /\ 25 \notin word /\ 26 \notin word
              /\ 27 \notin word
<1> DEFINE A == Bits(\h0e000090)
           V == Bits(\h00000090)
<1>1. /\ 0 \notin A /\ 1 \notin A /\ 2 \notin A /\ 3 \notin A /\ 4 \in A /\ 5 \notin A /\ 6 \notin A
      /\ 7 \in A /\ 8 \notin A /\ 9 \notin A /\ 10 \notin A /\ 11 \notin A /\ 12 \notin A /\ 13 \notin A
      /\ 14 \notin A /\ 15 \notin A /\ 16 \notin A /\ 17 \notin A /\ 18 \notin A /\ 19 \notin A /\ 20 \notin A
      /\ 21 \notin A /\ 22 \notin A /\ 23 \notin A /\ 24 \notin A /\ 25 \in A /\ 26 \in A /\ 27 \in A
  BY SMT DEF Bits
<1>2. /\ 4 \in V /\ 7 \in V /\ 25 \notin V /\ 26 \notin V /\ 27 \notin V
  BY SMT DEF Bits
<1>3. A \subseteq 0 .. 27
  BY SMT, BitsInRange
<1>4. FlowTests[12].mask = A /\ FlowTests[12].value = V
  BY SMT, FlowTestsAre DEF Flow
<1> HIDE DEF A, V
<1>5. ASSUME Matches(word, FlowTests[12])
      PROVE  /\ 4 \in word /\ 7 \in word /\ 25 \notin word /\ 26 \notin word
             /\ 27 \notin word
  BY SMT, <1>1, <1>2, <1>4, <1>5 DEF Matches
<1>6. ASSUME /\ 4 \in word /\ 7 \in word /\ 25 \notin word /\ 26 \notin word
             /\ 27 \notin word
      PROVE  Matches(word, FlowTests[12])
  <2>1. ASSUME NEW i \in 0 .. 27, i \in A
        PROVE  i \in word <=> i \in V
    BY SMT, <1>1, <1>2, <1>6, <2>1, BitsAre
  <2>2. SameOn(word, A, V)
    BY SMT, <1>3, <2>1 DEF SameOn
  <2> QED
    BY SMT, <1>4, <2>2, MatchesIfSame
<1> QED
  BY SMT, <1>5, <1>6

LEMMA Flow13 ==
    ASSUME NEW word
    PROVE  Matches(word, FlowTests[13]) <=>
              /\ 25 \notin word /\ 26 \notin word /\ 27 \in word
<1> DEFINE A == Bits(\h0e000000)
           V == Bits(\h08000000)
<1>1. /\ 0 \notin A /\ 1 \notin A /\ 2 \notin A /\ 3 \notin A /\ 4 \notin A /\ 5 \notin A /\ 6 \notin A
      /\ 7 \notin A /\ 8 \notin A /\ 9 \notin A /\ 10 \notin A /\ 11 \notin A /\ 12 \notin A /\ 13 \notin A
      /\ 14 \notin A /\ 15 \notin A /\ 16 \notin A /\ 17 \notin A /\ 18 \notin A /\ 19 \notin A /\ 20 \notin A
      /\ 21 \notin A /\ 22 \notin A /\ 23 \notin A /\ 24 \notin A /\ 25 \in A /\ 26 \in A /\ 27 \in A
  BY SMT DEF Bits
<1>2. /\ 25 \notin V /\ 26 \notin V /\ 27 \in V
  BY SMT DEF Bits
<1>3. A \subseteq 0 .. 27
  BY SMT, BitsInRange
<1>4. FlowTests[13].mask = A /\ FlowTests[13].value = V
  BY SMT, FlowTestsAre DEF Flow
<1> HIDE DEF A, V
<1>5. ASSUME Matches(word, FlowTests[13])
      PROVE  /\ 25 \notin word /\ 26 \notin word /\ 27 \in word
  BY SMT, <1>1, <1>2, <1>4, <1>5 DEF Matches
<1>6. ASSUME /\ 25 \notin word /\ 26 \notin word /\ 27 \in word
      PROVE  Matches(word, FlowTests[13])
  <2>1. ASSUME NEW i \in 0 .. 27, i \in A
        PROVE  i \in word <=> i \in V
    BY SMT, <1>1, <1>2, <1>6, <2>1, BitsAre
  <2>2. SameOn(word, A, V)
    BY SMT, <1>3, <2>1 DEF SameOn
  <2> QED
    BY SMT, <1>4, <2>2, MatchesIfSame
<1> QED
  BY SMT, <1>5, <1>6

LEMMA Flow14 ==
    ASSUME NEW word
    PROVE  Matches(word, FlowTests[14]) <=>
              /\ 26 \notin word /\ 27 \notin word
<1> DEFINE A == Bits(\h0c000000)
           V == Bits(\h00000000)
<1>1. /\ 0 \notin A /\ 1 \notin A /\ 2 \notin A /\ 3 \notin A /\ 4 \notin A /\ 5 \notin A /\ 6 \notin A
      /\ 7 \notin A /\ 8 \notin A /\ 9 \notin A /\ 10 \notin A /\ 11 \notin A /\ 12 \notin A /\ 13 \notin A
      /\ 14 \notin A /\ 15 \notin A /\ 16 \notin A /\ 17 \notin A /\ 18 \notin A /\ 19 \notin A /\ 20 \notin A
      /\ 21 \notin A /\ 22 \notin A /\ 23 \notin A /\ 24 \notin A /\ 25 \notin A /\ 26 \in A /\ 27 \in A
  BY SMT DEF Bits
<1>2. /\ 26 \notin V /\ 27 \notin V
  BY SMT DEF Bits
<1>3. A \subseteq 0 .. 27
  BY SMT, BitsInRange
<1>4. FlowTests[14].mask = A /\ FlowTests[14].value = V
  BY SMT, FlowTestsAre DEF Flow
<1> HIDE DEF A, V
<1>5. ASSUME Matches(word, FlowTests[14])
      PROVE  /\ 26 \notin word /\ 27 \notin word
  BY SMT, <1>1, <1>2, <1>4, <1>5 DEF Matches
<1>6. ASSUME /\ 26 \notin word /\ 27 \notin word
      PROVE  Matches(word, FlowTests[14])
  <2>1. ASSUME NEW i \in 0 .. 27, i \in A
        PROVE  i \in word <=> i \in V
    BY SMT, <1>1, <1>2, <1>6, <2>1, BitsAre
  <2>2. SameOn(word, A, V)
    BY SMT, <1>3, <2>1 DEF SameOn
  <2> QED
    BY SMT, <1>4, <2>2, MatchesIfSame
<1> QED
  BY SMT, <1>5, <1>6

-----------------------------------------------------------------------------
(* What rows of the table ask of a word. *)

LEMMA Row1Is == arm_insns[1] = Row(\h0ffffff0, \h012fff10, "bx", <<O("c"), R(0)>>)
<1>1. 1 \in 1 .. 4 /\ 0 + 1 = 1
  BY SMT
<1>2. arm_insns[0 + 1] = Branches[1]
  BY SMT, <1>1, TableIs
<1> QED
  BY SMT, <1>1, <1>2, BranchesAre

LEMMA Row3Is == arm_insns[3] = Row(\h0f000000, \h0a000000, "b", <<O("c"), O("j")>>)
<1>1. 3 \in 1 .. 4 /\ 0 + 3 = 3
  BY SMT
<1>2. arm_insns[0 + 3] = Branches[3]
  BY SMT, <1>1, TableIs
<1> QED
  BY SMT, <1>1, <1>2, BranchesAre

LEMMA Row3 ==
    ASSUME NEW word, Matches(word, arm_insns[3])
    PROVE  /\ 27 \in word /\ 26 \notin word /\ 25 \in word /\ 24 \notin word
<1> DEFINE A == Bits(\h0f000000)
           V == Bits(\h0a000000)
<1>1. /\ 27 \in A /\ 26 \in A /\ 25 \in A /\ 24 \in A
      /\ 27 \in V /\ 26 \notin V /\ 25 \in V /\ 24 \notin V
  BY SMT DEF Bits
<1>2. word \cap A = V \cap A
  BY SMT, Row3Is DEF Matches, Row
<1> HIDE DEF A, V
<1> QED
  BY SMT, <1>1, <1>2

LEMMA Row4Is == arm_insns[4] = Row(\h0f000000, \h0b000000, "bl", <<O("c"), O("j")>>)
<1>1. 4 \in 1 .. 4 /\ 0 + 4 = 4
  BY SMT
<1>2. arm_insns[0 + 4] = Branches[4]
  BY SMT, <1>1, TableIs
<1> QED
  BY SMT, <1>1, <1>2, BranchesAre

LEMMA Row4 ==
    ASSUME NEW word, Matches(word, arm_insns[4])
    PROVE  /\ 27 \in word /\ 26 \notin word /\ 25 \in word /\ 24 \in word
<1> DEFINE A == Bits(\h0f000000)
           V == Bits(\h0b000000)
<1>1. /\ 27 \in A /\ 26 \in A /\ 25 \in A /\ 24 \in A
      /\ 27 \in V /\ 26 \notin V /\ 25 \in V /\ 24 \in V
  BY SMT DEF Bits
<1>2. word \cap A = V \cap A
  BY SMT, Row4Is DEF Matches, Row
<1> HIDE DEF A, V
<1> QED
  BY SMT, <1>1, <1>2

LEMMA Row5Is == arm_insns[5] = Row(\h0fe000f0, \h00000090, "mul", <<O("c"), O("s"), R(16), R(0), R(8)>>)
<1>1. 1 \in 1 .. 4 /\ 4 + 1 = 5
  BY SMT
<1>2. arm_insns[4 + 1] = Multiplications[1]
  BY SMT, <1>1, TableIs
<1> QED
  BY SMT, <1>1, <1>2, MultiplicationsAre

LEMMA Row5 ==
    ASSUME NEW word
    PROVE  Matches(word, arm_insns[5]) <=>
              /\ 4 \in word /\ 5 \notin word /\ 6 \notin word /\ 7 \in word
              /\ 21 \notin word /\ 22 \notin word /\ 23 \notin word /\ 24 \notin word
              /\ 25 \notin word /\ 26 \notin word /\ 27 \notin word
<1> DEFINE A == Bits(\h0fe000f0)
           V == Bits(\h00000090)
<1>1. /\ 0 \notin A /\ 1 \notin A /\ 2 \notin A /\ 3 \notin A /\ 4 \in A /\ 5 \in A /\ 6 \in A
      /\ 7 \in A /\ 8 \notin A /\ 9 \notin A /\ 10 \notin A /\ 11 \notin A /\ 12 \notin A /\ 13 \notin A
      /\ 14 \notin A /\ 15 \notin A /\ 16 \notin A /\ 17 \notin A /\ 18 \notin A /\ 19 \notin A /\ 20 \notin A
      /\ 21 \in A /\ 22 \in A /\ 23 \in A /\ 24 \in A /\ 25 \in A /\ 26 \in A /\ 27 \in A
  BY SMT DEF Bits
<1>2. /\ 4 \in V /\ 5 \notin V /\ 6 \notin V /\ 7 \in V /\ 21 \notin V /\ 22 \notin V
      /\ 23 \notin V /\ 24 \notin V /\ 25 \notin V /\ 26 \notin V /\ 27 \notin V
  BY SMT DEF Bits
<1>3. A \subseteq 0 .. 27
  BY SMT, BitsInRange
<1>4. arm_insns[5].mask = A /\ arm_insns[5].value = V
  BY SMT, Row5Is DEF Row
<1> HIDE DEF A, V
<1>5. ASSUME Matches(word, arm_insns[5])
      PROVE  /\ 4 \in word /\ 5 \notin word /\ 6 \notin word /\ 7 \in word
             /\ 21 \notin word /\ 22 \notin word /\ 23 \notin word /\ 24 \notin word
             /\ 25 \notin word /\ 26 \notin word /\ 27 \notin word
  BY SMT, <1>1, <1>2, <1>4, <1>5 DEF Matches
<1>6. ASSUME /\ 4 \in word /\ 5 \notin word /\ 6 \notin word /\ 7 \in word
             /\ 21 \notin word /\ 22 \notin word /\ 23 \notin word /\ 24 \notin word
             /\ 25 \notin word /\ 26 \notin word /\ 27 \notin word
      PROVE  Matches(word, arm_insns[5])
  <2>1. ASSUME NEW i \in 0 .. 27, i \in A
        PROVE  i \in word <=> i \in V
    BY SMT, <1>1, <1>2, <1>6, <2>1, BitsAre
  <2>2. SameOn(word, A, V)
    BY SMT, <1>3, <2>1 DEF SameOn
  <2> QED
    BY SMT, <1>4, <2>2, MatchesIfSame
<1> QED
  BY SMT, <1>5, <1>6

LEMMA Row6Is == arm_insns[6] = Row(\h0fe000f0, \h00200090, "mla", <<O("c"), O("s"), R(16), R(0), R(8), R(12)>>)
<1>1. 2 \in 1 .. 4 /\ 4 + 2 = 6
  BY SMT
<1>2. arm_insns[4 + 2] = Multiplications[2]
  BY SMT, <1>1, TableIs
<1> QED
  BY SMT, <1>1, <1>2, MultiplicationsAre

LEMMA Row6 ==
    ASSUME NEW word
    PROVE  Matches(word, arm_insns[6]) <=>
              /\ 4 \in word /\ 5 \notin word /\ 6 \notin word /\ 7 \in word
              /\ 21 \in word /\ 22 \notin word /\ 23 \notin word /\ 24 \notin word
              /\ 25 \notin word /\ 26 \notin word /\ 27 \notin word
<1> DEFINE A == Bits(\h0fe000f0)
           V == Bits(\h00200090)
<1>1. /\ 0 \notin A /\ 1 \notin A /\ 2 \notin A /\ 3 \notin A /\ 4 \in A /\ 5 \in A /\ 6 \in A
      /\ 7 \in A /\ 8 \notin A /\ 9 \notin A /\ 10 \notin A /\ 11 \notin A /\ 12 \notin A /\ 13 \notin A
      /\ 14 \notin A /\ 15 \notin A /\ 16 \notin A /\ 17 \notin A /\ 18 \notin A /\ 19 \notin A /\ 20 \notin A
      /\ 21 \in A /\ 22 \in A /\ 23 \in A /\ 24 \in A /\ 25 \in A /\ 26 \in A /\ 27 \in A
  BY SMT DEF Bits
<1>2. /\ 4 \in V /\ 5 \notin V /\ 6 \notin V /\ 7 \in V /\ 21 \in V /\ 22 \notin V
      /\ 23 \notin V /\ 24 \notin V /\ 25 \notin V /\ 26 \notin V /\ 27 \notin V
  BY SMT DEF Bits
<1>3. A \subseteq 0 .. 27
  BY SMT, BitsInRange
<1>4. arm_insns[6].mask = A /\ arm_insns[6].value = V
  BY SMT, Row6Is DEF Row
<1> HIDE DEF A, V
<1>5. ASSUME Matches(word, arm_insns[6])
      PROVE  /\ 4 \in word /\ 5 \notin word /\ 6 \notin word /\ 7 \in word
             /\ 21 \in word /\ 22 \notin word /\ 23 \notin word /\ 24 \notin word
             /\ 25 \notin word /\ 26 \notin word /\ 27 \notin word
  BY SMT, <1>1, <1>2, <1>4, <1>5 DEF Matches
<1>6. ASSUME /\ 4 \in word /\ 5 \notin word /\ 6 \notin word /\ 7 \in word
             /\ 21 \in word /\ 22 \notin word /\ 23 \notin word /\ 24 \notin word
             /\ 25 \notin word /\ 26 \notin word /\ 27 \notin word
      PROVE  Matches(word, arm_insns[6])
  <2>1. ASSUME NEW i \in 0 .. 27, i \in A
        PROVE  i \in word <=> i \in V
    BY SMT, <1>1, <1>2, <1>6, <2>1, BitsAre
  <2>2. SameOn(word, A, V)
    BY SMT, <1>3, <2>1 DEF SameOn
  <2> QED
    BY SMT, <1>4, <2>2, MatchesIfSame
<1> QED
  BY SMT, <1>5, <1>6

LEMMA Row7Is == arm_insns[7] = Row(\h0fa000f0, \h00800090, "mull", <<O("u"), O("c"), O("s"), R(12), R(16), R(0), R(8)>>)
<1>1. 3 \in 1 .. 4 /\ 4 + 3 = 7
  BY SMT
<1>2. arm_insns[4 + 3] = Multiplications[3]
  BY SMT, <1>1, TableIs
<1> QED
  BY SMT, <1>1, <1>2, MultiplicationsAre

LEMMA Row7 ==
    ASSUME NEW word
    PROVE  Matches(word, arm_insns[7]) <=>
              /\ 4 \in word /\ 5 \notin word /\ 6 \notin word /\ 7 \in word
              /\ 21 \notin word /\ 23 \in word /\ 24 \notin word /\ 25 \notin word
              /\ 26 \notin word /\ 27 \notin word
<1> DEFINE A == Bits(\h0fa000f0)
           V == Bits(\h00800090)
<1>1. /\ 0 \notin A /\ 1 \notin A /\ 2 \notin A /\ 3 \notin A /\ 4 \in A /\ 5 \in A /\ 6 \in A
      /\ 7 \in A /\ 8 \notin A /\ 9 \notin A /\ 10 \notin A /\ 11 \notin A /\ 12 \notin A /\ 13 \notin A
      /\ 14 \notin A /\ 15 \notin A /\ 16 \notin A /\ 17 \notin A /\ 18 \notin A /\ 19 \notin A /\ 20 \notin A
      /\ 21 \in A /\ 22 \notin A /\ 23 \in A /\ 24 \in A /\ 25 \in A /\ 26 \in A /\ 27 \in A
  BY SMT DEF Bits
<1>2. /\ 4 \in V /\ 5 \notin V /\ 6 \notin V /\ 7 \in V /\ 21 \notin V /\ 23 \in V
      /\ 24 \notin V /\ 25 \notin V /\ 26 \notin V /\ 27 \notin V
  BY SMT DEF Bits
<1>3. A \subseteq 0 .. 27
  BY SMT, BitsInRange
<1>4. arm_insns[7].mask = A /\ arm_insns[7].value = V
  BY SMT, Row7Is DEF Row
<1> HIDE DEF A, V
<1>5. ASSUME Matches(word, arm_insns[7])
      PROVE  /\ 4 \in word /\ 5 \notin word /\ 6 \notin word /\ 7 \in word
             /\ 21 \notin word /\ 23 \in word /\ 24 \notin word /\ 25 \notin word
             /\ 26 \notin word /\ 27 \notin word
  BY SMT, <1>1, <1>2, <1>4, <1>5 DEF Matches
<1>6. ASSUME /\ 4 \in word /\ 5 \notin word /\ 6 \notin word /\ 7 \in word
             /\ 21 \notin word /\ 23 \in word /\ 24 \notin word /\ 25 \notin word
             /\ 26 \notin word /\ 27 \notin word
      PROVE  Matches(word, arm_insns[7])
  <2>1. ASSUME NEW i \in 0 .. 27, i \in A
        PROVE  i \in word <=> i \in V
    BY SMT, <1>1, <1>2, <1>6, <2>1, BitsAre
  <2>2. SameOn(word, A, V)
    BY SMT, <1>3, <2>1 DEF SameOn
  <2> QED
    BY SMT, <1>4, <2>2, MatchesIfSame
<1> QED
  BY SMT, <1>5, <1>6

LEMMA Row8Is == arm_insns[8] = Row(\h0fa000f0, \h00a00090, "mlal", <<O("u"), O("c"), O("s"), R(12), R(16), R(0), R(8)>>)
<1>1. 4 \in 1 .. 4 /\ 4 + 4 = 8
  BY SMT
<1>2. arm_insns[4 + 4] = Multiplications[4]
  BY SMT, <1>1, TableIs
<1> QED
  BY SMT, <1>1, <1>2, MultiplicationsAre

LEMMA Row8 ==
    ASSUME NEW word
    PROVE  Matches(word, arm_insns[8]) <=>
              /\ 4 \in word /\ 5 \notin word /\ 6 \notin word /\ 7 \in word
              /\ 21 \in word /\ 23 \in word /\ 24 \notin word /\ 25 \notin word
              /\ 26 \notin word /\ 27 \notin word
<1> DEFINE A == Bits(\h0fa000f0)
           V == Bits(\h00a00090)
<1>1. /\ 0 \notin A /\ 1 \notin A /\ 2 \notin A /\ 3 \notin A /\ 4 \in A /\ 5 \in A /\ 6 \in A
      /\ 7 \in A /\ 8 \notin A /\ 9 \notin A /\ 10 \notin A /\ 11 \notin A /\ 12 \notin A /\ 13 \notin A
      /\ 14 \notin A /\ 15 \notin A /\ 16 \notin A /\ 17 \notin A /\ 18 \notin A /\ 19 \notin A /\ 20 \notin A
      /\ 21 \in A /\ 22 \notin A /\ 23 \in A /\ 24 \in A /\ 25 \in A /\ 26 \in A /\ 27 \in A
  BY SMT DEF Bits
<1>2. /\ 4 \in V /\ 5 \notin V /\ 6 \notin V /\ 7 \in V /\ 21 \in V /\ 23 \in V
      /\ 24 \notin V /\ 25 \notin V /\ 26 \notin V /\ 27 \notin V
  BY SMT DEF Bits
<1>3. A \subseteq 0 .. 27
  BY SMT, BitsInRange
<1>4. arm_insns[8].mask = A /\ arm_insns[8].value = V
  BY SMT, Row8Is DEF Row
<1> HIDE DEF A, V
<1>5. ASSUME Matches(word, arm_insns[8])
      PROVE  /\ 4 \in word /\ 5 \notin word /\ 6 \notin word /\ 7 \in word
             /\ 21 \in word /\ 23 \in word /\ 24 \notin word /\ 25 \notin word
             /\ 26 \notin word /\ 27 \notin word
  BY SMT, <1>1, <1>2, <1>4, <1>5 DEF Matches
<1>6. ASSUME /\ 4 \in word /\ 5 \notin word /\ 6 \notin word /\ 7 \in word
             /\ 21 \in word /\ 23 \in word /\ 24 \notin word /\ 25 \notin word
             /\ 26 \notin word /\ 27 \notin word
      PROVE  Matches(word, arm_insns[8])
  <2>1. ASSUME NEW i \in 0 .. 27, i \in A
        PROVE  i \in word <=> i \in V
    BY SMT, <1>1, <1>2, <1>6, <2>1, BitsAre
  <2>2. SameOn(word, A, V)
    BY SMT, <1>3, <2>1 DEF SameOn
  <2> QED
    BY SMT, <1>4, <2>2, MatchesIfSame
<1> QED
  BY SMT, <1>5, <1>6

LEMMA Row15Is == arm_insns[15] = Row(\h0d700000, \h04300000, "ldrt", <<O("c"), O("b"), R(12), O("a")>>)
<1>1. 1 \in 1 .. 9 /\ 14 + 1 = 15
  BY SMT
<1>2. arm_insns[14 + 1] = Transfers[1]
  BY SMT, <1>1, TableIs
<1> QED
  BY SMT, <1>1, <1>2, TransfersAre

LEMMA Row15 ==
    ASSUME NEW word, Matches(word, arm_insns[15])
    PROVE  /\ 27 \notin word /\ 26 \in word /\ 20 \in word
<1> DEFINE A == Bits(\h0d700000)
           V == Bits(\h04300000)
<1>1. /\ 27 \in A /\ 26 \in A /\ 20 \in A
      /\ 27 \notin V /\ 26 \in V /\ 20 \in V
  BY SMT DEF Bits
<1>2. word \cap A = V \cap A
  BY SMT, Row15Is DEF Matches, Row
<1> HIDE DEF A, V
<1> QED
  BY SMT, <1>1, <1>2

LEMMA Row17Is == arm_insns[17] = Row(\h0c100000, \h04100000, "ldr", <<O("c"), O("b"), R(12), O("a")>>)
<1>1. 3 \in 1 .. 9 /\ 14 + 3 = 17
  BY SMT
<1>2. arm_insns[14 + 3] = Transfers[3]
  BY SMT, <1>1, TableIs
<1> QED
  BY SMT, <1>1, <1>2, TransfersAre

LEMMA Row17 ==
    ASSUME NEW word, Matches(word, arm_insns[17])
    PROVE  /\ 27 \notin word /\ 26 \in word /\ 20 \in word
<1> DEFINE A == Bits(\h0c100000)
           V == Bits(\h04100000)
<1>1. /\ 27 \in A /\ 26 \in A /\ 20 \in A
      /\ 27 \notin V /\ 26 \in V /\ 20 \in V
  BY SMT DEF Bits
<1>2. word \cap A = V \cap A
  BY SMT, Row17Is DEF Matches, Row
<1> HIDE DEF A, V
<1> QED
  BY SMT, <1>1, <1>2

LEMMA Row19Is == arm_insns[19] = Row(\h0fb00ff0, \h01000090, "swp", <<O("c"), O("b"), R(12), R(0), R(16)>>)
<1>1. 5 \in 1 .. 9 /\ 14 + 5 = 19
  BY SMT
<1>2. arm_insns[14 + 5] = Transfers[5]
  BY SMT, <1>1, TableIs
<1> QED
  BY SMT, <1>1, <1>2, TransfersAre

LEMMA Row19 ==
    ASSUME NEW word, Matches(word, arm_insns[19])
    PROVE  /\ 27 \notin word /\ 26 \notin word /\ 25 \notin word /\ 24 \in word /\ 23 \notin word /\ 20 \notin word
           /\ 7 \in word /\ 4 \in word
<1> DEFINE A == Bits(\h0fb00ff0)
           V == Bits(\h01000090)
<1>1. /\ 27 \in A /\ 26 \in A /\ 25 \in A /\ 24 \in A /\ 23 \in A /\ 20 \in A /\ 7 \in A /\ 4 \in A
      /\ 27 \notin V /\ 26 \notin V /\ 25 \notin V /\ 24 \in V /\ 23 \notin V /\ 20 \notin V /\ 7 \in V /\ 4 \in V
  BY SMT DEF Bits
<1>2. word \cap A = V \cap A
  BY SMT, Row19Is DEF Matches, Row
<1> HIDE DEF A, V
<1> QED
  BY SMT, <1>1, <1>2

LEMMA Row20Is == arm_insns[20] = Row(\h0e100090, \h00100090, "ldrh", <<O("c"), O("B"), R(12), O("A")>>)
<1>1. 6 \in 1 .. 9 /\ 14 + 6 = 20
  BY SMT
<1>2. arm_insns[14 + 6] = Transfers[6]
  BY SMT, <1>1, TableIs
<1> QED
  BY SMT, <1>1, <1>2, TransfersAre

LEMMA Row20 ==
    ASSUME NEW word
    PROVE  Matches(word, arm_insns[20]) <=>
              /\ 4 \in word /\ 7 \in word /\ 20 \in word /\ 25 \notin word
              /\ 26 \notin word /\ 27 \notin word
<1> DEFINE A == Bits(\h0e100090)
           V == Bits(\h00100090)
<1>1. /\ 0 \notin A /\ 1 \notin A /\ 2 \notin A /\ 3 \notin A /\ 4 \in A /\ 5 \notin A /\ 6 \notin A
      /\ 7 \in A /\ 8 \notin A /\ 9 \notin A /\ 10 \notin A /\ 11 \notin A /\ 12 \notin A /\ 13 \notin A
      /\ 14 \notin A /\ 15 \notin A /\ 16 \notin A /\ 17 \notin A /\ 18 \notin A /\ 19 \notin A /\ 20 \in A
      /\ 21 \notin A /\ 22 \notin A /\ 23 \notin A /\ 24 \notin A /\ 25 \in A /\ 26 \in A /\ 27 \in A
  BY SMT DEF Bits
<1>2. /\ 4 \in V /\ 7 \in V /\ 20 \in V /\ 25 \notin V /\ 26 \notin V /\ 27 \notin V
  BY SMT DEF Bits
<1>3. A \subseteq 0 .. 27
  BY SMT, BitsInRange
<1>4. arm_insns[20].mask = A /\ arm_insns[20].value = V
  BY SMT, Row20Is DEF Row
<1> HIDE DEF A, V
<1>5. ASSUME Matches(word, arm_insns[20])
      PROVE  /\ 4 \in word /\ 7 \in word /\ 20 \in word /\ 25 \notin word
             /\ 26 \notin word /\ 27 \notin word
  BY SMT, <1>1, <1>2, <1>4, <1>5 DEF Matches
<1>6. ASSUME /\ 4 \in word /\ 7 \in word /\ 20 \in word /\ 25 \notin word
             /\ 26 \notin word /\ 27 \notin word
      PROVE  Matches(word, arm_insns[20])
  <2>1. ASSUME NEW i \in 0 .. 27, i \in A
        PROVE  i \in word <=> i \in V
    BY SMT, <1>1, <1>2, <1>6, <2>1, BitsAre
  <2>2. SameOn(word, A, V)
    BY SMT, <1>3, <2>1 DEF SameOn
  <2> QED
    BY SMT, <1>4, <2>2, MatchesIfSame
<1> QED
  BY SMT, <1>5, <1>6

LEMMA Row21Is == arm_insns[21] = Row(\h0e100090, \h00000090, "strh", <<O("c"), O("B"), R(12), O("A")>>)
<1>1. 7 \in 1 .. 9 /\ 14 + 7 = 21
  BY SMT
<1>2. arm_insns[14 + 7] = Transfers[7]
  BY SMT, <1>1, TableIs
<1> QED
  BY SMT, <1>1, <1>2, TransfersAre

LEMMA Row21 ==
    ASSUME NEW word
    PROVE  Matches(word, arm_insns[21]) <=>
              /\ 4 \in word /\ 7 \in word /\ 20 \notin word /\ 25 \notin word
              /\ 26 \notin word /\ 27 \notin word
<1> DEFINE A == Bits(\h0e100090)
           V == Bits(\h00000090)
<1>1. /\ 0 \notin A /\ 1 \notin A /\ 2 \notin A /\ 3 \notin A /\ 4 \in A /\ 5 \notin A /\ 6 \notin A
      /\ 7 \in A /\ 8 \notin A /\ 9 \notin A /\ 10 \notin A /\ 11 \notin A /\ 12 \notin A /\ 13 \notin A
      /\ 14 \notin A /\ 15 \notin A /\ 16 \notin A /\ 17 \notin A /\ 18 \notin A /\ 19 \notin A /\ 20 \in A
      /\ 21 \notin A /\ 22 \notin A /\ 23 \notin A /\ 24 \notin A /\ 25 \in A /\ 26 \in A /\ 27 \in A
  BY SMT DEF Bits
<1>2. /\ 4 \in V /\ 7 \in V /\ 20 \notin V /\ 25 \notin V /\ 26 \notin V /\ 27 \notin V
  BY SMT DEF Bits
<1>3. A \subseteq 0 .. 27
  BY SMT, BitsInRange
<1>4. arm_insns[21].mask = A /\ arm_insns[21].value = V
  BY SMT, Row21Is DEF Row
<1> HIDE DEF A, V
<1>5. ASSUME Matches(word, arm_insns[21])
      PROVE  /\ 4 \in word /\ 7 \in word /\ 20 \notin word /\ 25 \notin word
             /\ 26 \notin word /\ 27 \notin word
  BY SMT, <1>1, <1>2, <1>4, <1>5 DEF Matches
<1>6. ASSUME /\ 4 \in word /\ 7 \in word /\ 20 \notin word /\ 25 \notin word
             /\ 26 \notin word /\ 27 \notin word
      PROVE  Matches(word, arm_insns[21])
  <2>1. ASSUME NEW i \in 0 .. 27, i \in A
        PROVE  i \in word <=> i \in V
    BY SMT, <1>1, <1>2, <1>6, <2>1, BitsAre
  <2>2. SameOn(word, A, V)
    BY SMT, <1>3, <2>1 DEF SameOn
  <2> QED
    BY SMT, <1>4, <2>2, MatchesIfSame
<1> QED
  BY SMT, <1>5, <1>6

LEMMA Row22Is == arm_insns[22] = Row(\h0e100000, \h08100000, "ldm", <<O("c"), O("M"), R(16), O("!"), O("m"), O("^")>>)
<1>1. 8 \in 1 .. 9 /\ 14 + 8 = 22
  BY SMT
<1>2. arm_insns[14 + 8] = Transfers[8]
  BY SMT, <1>1, TableIs
<1> QED
  BY SMT, <1>1, <1>2, TransfersAre

LEMMA Row22 ==
    ASSUME NEW word, Matches(word, arm_insns[22])
    PROVE  /\ 27 \in word /\ 26 \notin word /\ 25 \notin word /\ 20 \in word
<1> DEFINE A == Bits(\h0e100000)
           V == Bits(\h08100000)
<1>1. /\ 27 \in A /\ 26 \in A /\ 25 \in A /\ 20 \in A
      /\ 27 \in V /\ 26 \notin V /\ 25 \notin V /\ 20 \in V
  BY SMT DEF Bits
<1>2. word \cap A = V \cap A
  BY SMT, Row22Is DEF Matches, Row
<1> HIDE DEF A, V
<1> QED
  BY SMT, <1>1, <1>2

LEMMA Row24Is == arm_insns[24] = Alu(\h00000000, "and")
<1>1. 1 \in 1 .. 17 /\ 23 + 1 = 24
  BY SMT
<1>2. arm_insns[23 + 1] = DataProcessing[1]
  BY SMT, <1>1, TableIs
<1> QED
  BY SMT, <1>1, <1>2, DataProcessingAre

LEMMA Row24 ==
    ASSUME NEW word, Matches(word, arm_insns[24])
    PROVE  /\ 27 \notin word /\ 26 \notin word /\ 24 \notin word /\ 23 \notin word /\ 22 \notin word /\ 21 \notin word
<1> DEFINE A == Bits(\h0de00000)
           V == Bits(\h00000000)
<1>1. /\ 27 \in A /\ 26 \in A /\ 24 \in A /\ 23 \in A /\ 22 \in A /\ 21 \in A
      /\ 27 \notin V /\ 26 \notin V /\ 24 \notin V /\ 23 \notin V /\ 22 \notin V /\ 21 \notin V
  BY SMT DEF Bits
<1>2. word \cap A = V \cap A
  BY SMT, Row24Is DEF Matches, Alu, Row
<1> HIDE DEF A, V
<1> QED
  BY SMT, <1>1, <1>2

LEMMA Row25Is == arm_insns[25] = Alu(\h00200000, "eor")
<1>1. 2 \in 1 .. 17 /\ 23 + 2 = 25
  BY SMT
<1>2. arm_insns[23 + 2] = DataProcessing[2]
  BY SMT, <1>1, TableIs
<1> QED
  BY SMT, <1>1, <1>2, DataProcessingAre

LEMMA Row25 ==
    ASSUME NEW word, Matches(word, arm_insns[25])
    PROVE  /\ 27 \notin word /\ 26 \notin word /\ 24 \notin word /\ 23 \notin word /\ 22 \notin word /\ 21 \in word
<1> DEFINE A == Bits(\h0de00000)
           V == Bits(\h00200000)
<1>1. /\ 27 \in A /\ 26 \in A /\ 24 \in A /\ 23 \in A /\ 22 \in A /\ 21 \in A
      /\ 27 \notin V /\ 26 \notin V /\ 24 \notin V /\ 23 \notin V /\ 22 \notin V /\ 21 \in V
  BY SMT DEF Bits
<1>2. word \cap A = V \cap A
  BY SMT, Row25Is DEF Matches, Alu, Row
<1> HIDE DEF A, V
<1> QED
  BY SMT, <1>1, <1>2

LEMMA Row26Is == arm_insns[26] = Alu(\h00400000, "sub")
<1>1. 3 \in 1 .. 17 /\ 23 + 3 = 26
  BY SMT
<1>2. arm_insns[23 + 3] = DataProcessing[3]
  BY SMT, <1>1, TableIs
<1> QED
  BY SMT, <1>1, <1>2, DataProcessingAre

LEMMA Row26 ==
    ASSUME NEW word, Matches(word, arm_insns[26])
    PROVE  /\ 27 \notin word /\ 26 \notin word /\ 24 \notin word /\ 23 \notin word /\ 22 \in word /\ 21 \notin word
<1> DEFINE A == Bits(\h0de00000)
           V == Bits(\h00400000)
<1>1. /\ 27 \in A /\ 26 \in A /\ 24 \in A /\ 23 \in A /\ 22 \in A /\ 21 \in A
      /\ 27 \notin V /\ 26 \notin V /\ 24 \notin V /\ 23 \notin V /\ 22 \in V /\ 21 \notin V
  BY SMT DEF Bits
<1>2. word \cap A = V \cap A
  BY SMT, Row26Is DEF Matches, Alu, Row
<1> HIDE DEF A, V
<1> QED
  BY SMT, <1>1, <1>2

LEMMA Row27Is == arm_insns[27] = Alu(\h00600000, "rsb")
<1>1. 4 \in 1 .. 17 /\ 23 + 4 = 27
  BY SMT
<1>2. arm_insns[23 + 4] = DataProcessing[4]
  BY SMT, <1>1, TableIs
<1> QED
  BY SMT, <1>1, <1>2, DataProcessingAre

LEMMA Row27 ==
    ASSUME NEW word, Matches(word, arm_insns[27])
    PROVE  /\ 27 \notin word /\ 26 \notin word /\ 24 \notin word /\ 23 \notin word /\ 22 \in word /\ 21 \in word
<1> DEFINE A == Bits(\h0de00000)
           V == Bits(\h00600000)
<1>1. /\ 27 \in A /\ 26 \in A /\ 24 \in A /\ 23 \in A /\ 22 \in A /\ 21 \in A
      /\ 27 \notin V /\ 26 \notin V /\ 24 \notin V /\ 23 \notin V /\ 22 \in V /\ 21 \in V
  BY SMT DEF Bits
<1>2. word \cap A = V \cap A
  BY SMT, Row27Is DEF Matches, Alu, Row
<1> HIDE DEF A, V
<1> QED
  BY SMT, <1>1, <1>2

LEMMA Row28Is == arm_insns[28] = Alu(\h00800000, "add")
<1>1. 5 \in 1 .. 17 /\ 23 + 5 = 28
  BY SMT
<1>2. arm_insns[23 + 5] = DataProcessing[5]
  BY SMT, <1>1, TableIs
<1> QED
  BY SMT, <1>1, <1>2, DataProcessingAre

LEMMA Row28 ==
    ASSUME NEW word, Matches(word, arm_insns[28])
    PROVE  /\ 27 \notin word /\ 26 \notin word /\ 24 \notin word /\ 23 \in word /\ 22 \notin word /\ 21 \notin word
<1> DEFINE A == Bits(\h0de00000)
           V == Bits(\h00800000)
<1>1. /\ 27 \in A /\ 26 \in A /\ 24 \in A /\ 23 \in A /\ 22 \in A /\ 21 \in A
      /\ 27 \notin V /\ 26 \notin V /\ 24 \notin V /\ 23 \in V /\ 22 \notin V /\ 21 \notin V
  BY SMT DEF Bits
<1>2. word \cap A = V \cap A
  BY SMT, Row28Is DEF Matches, Alu, Row
<1> HIDE DEF A, V
<1> QED
  BY SMT, <1>1, <1>2

LEMMA Row29Is == arm_insns[29] = Alu(\h00a00000, "adc")
<1>1. 6 \in 1 .. 17 /\ 23 + 6 = 29
  BY SMT
<1>2. arm_insns[23 + 6] = DataProcessing[6]
  BY SMT, <1>1, TableIs
<1> QED
  BY SMT, <1>1, <1>2, DataProcessingAre

LEMMA Row29 ==
    ASSUME NEW word, Matches(word, arm_insns[29])
    PROVE  /\ 27 \notin word /\ 26 \notin word /\ 24 \notin word /\ 23 \in word /\ 22 \notin word /\ 21 \in word
<1> DEFINE A == Bits(\h0de00000)
           V == Bits(\h00a00000)
<1>1. /\ 27 \in A /\ 26 \in A /\ 24 \in A /\ 23 \in A /\ 22 \in A /\ 21 \in A
      /\ 27 \notin V /\ 26 \notin V /\ 24 \notin V /\ 23 \in V /\ 22 \notin V /\ 21 \in V
  BY SMT DEF Bits
<1>2. word \cap A = V \cap A
  BY SMT, Row29Is DEF Matches, Alu, Row
<1> HIDE DEF A, V
<1> QED
  BY SMT, <1>1, <1>2

LEMMA Row30Is == arm_insns[30] = Alu(\h00c00000, "sbc")
<1>1. 7 \in 1 .. 17 /\ 23 + 7 = 30
  BY SMT
<1>2. arm_insns[23 + 7] = DataProcessing[7]
  BY SMT, <1>1, TableIs
<1> QED
  BY SMT, <1>1, <1>2, DataProcessingAre

LEMMA Row30 ==
    ASSUME NEW word, Matches(word, arm_insns[30])
    PROVE  /\ 27 \notin word /\ 26 \notin word /\ 24 \notin word /\ 23 \in word /\ 22 \in word /\ 21 \notin word
<1> DEFINE A == Bits(\h0de00000)
           V == Bits(\h00c00000)
<1>1. /\ 27 \in A /\ 26 \in A /\ 24 \in A /\ 23 \in A /\ 22 \in A /\ 21 \in A
      /\ 27 \notin V /\ 26 \notin V /\ 24 \notin V /\ 23 \in V /\ 22 \in V /\ 21 \notin V
  BY SMT DEF Bits
<1>2. word \cap A = V \cap A
  BY SMT, Row30Is DEF Matches, Alu, Row
<1> HIDE DEF A, V
<1> QED
  BY SMT, <1>1, <1>2

LEMMA Row31Is == arm_insns[31] = Alu(\h00e00000, "rsc")
<1>1. 8 \in 1 .. 17 /\ 23 + 8 = 31
  BY SMT
<1>2. arm_insns[23 + 8] = DataProcessing[8]
  BY SMT, <1>1, TableIs
<1> QED
  BY SMT, <1>1, <1>2, DataProcessingAre

LEMMA Row31 ==
    ASSUME NEW word, Matches(word, arm_insns[31])
    PROVE  /\ 27 \notin word /\ 26 \notin word /\ 24 \notin word /\ 23 \in word /\ 22 \in word /\ 21 \in word
<1> DEFINE A == Bits(\h0de00000)
           V == Bits(\h00e00000)
<1>1. /\ 27 \in A /\ 26 \in A /\ 24 \in A /\ 23 \in A /\ 22 \in A /\ 21 \in A
      /\ 27 \notin V /\ 26 \notin V /\ 24 \notin V /\ 23 \in V /\ 22 \in V /\ 21 \in V
  BY SMT DEF Bits
<1>2. word \cap A = V \cap A
  BY SMT, Row31Is DEF Matches, Alu, Row
<1> HIDE DEF A, V
<1> QED
  BY SMT, <1>1, <1>2

LEMMA Row36Is == arm_insns[36] = Alu(\h01800000, "orr")
<1>1. 13 \in 1 .. 17 /\ 23 + 13 = 36
  BY SMT
<1>2. arm_insns[23 + 13] = DataProcessing[13]
  BY SMT, <1>1, TableIs
<1> QED
  BY SMT, <1>1, <1>2, DataProcessingAre

LEMMA Row36 ==
    ASSUME NEW word, Matches(word, arm_insns[36])
    PROVE  /\ 27 \notin word /\ 26 \notin word /\ 24 \in word /\ 23 \in word /\ 22 \notin word /\ 21 \notin word
<1> DEFINE A == Bits(\h0de00000)
           V == Bits(\h01800000)
<1>1. /\ 27 \in A /\ 26 \in A /\ 24 \in A /\ 23 \in A /\ 22 \in A /\ 21 \in A
      /\ 27 \notin V /\ 26 \notin V /\ 24 \in V /\ 23 \in V /\ 22 \notin V /\ 21 \notin V
  BY SMT DEF Bits
<1>2. word \cap A = V \cap A
  BY SMT, Row36Is DEF Matches, Alu, Row
<1> HIDE DEF A, V
<1> QED
  BY SMT, <1>1, <1>2

LEMMA Row38Is == arm_insns[38] = MoveRow(\h01a00000, "mov")
<1>1. 15 \in 1 .. 17 /\ 23 + 15 = 38
  BY SMT
<1>2. arm_insns[23 + 15] = DataProcessing[15]
  BY SMT, <1>1, TableIs
<1> QED
  BY SMT, <1>1, <1>2, DataProcessingAre

LEMMA Row38 ==
    ASSUME NEW word, Matches(word, arm_insns[38])
    PROVE  /\ 27 \notin word /\ 26 \notin word /\ 24 \in word /\ 23 \in word /\ 22 \notin word /\ 21 \in word
<1> DEFINE A == Bits(\h0de00000)
           V == Bits(\h01a00000)
<1>1. /\ 27 \in A /\ 26 \in A /\ 24 \in A /\ 23 \in A /\ 22 \in A /\ 21 \in A
      /\ 27 \notin V /\ 26 \notin V /\ 24 \in V /\ 23 \in V /\ 22 \notin V /\ 21 \in V
  BY SMT DEF Bits
<1>2. word \cap A = V \cap A
  BY SMT, Row38Is DEF Matches, MoveRow, Row
<1> HIDE DEF A, V
<1> QED
  BY SMT, <1>1, <1>2

LEMMA Row39Is == arm_insns[39] = Alu(\h01c00000, "bic")
<1>1. 16 \in 1 .. 17 /\ 23 + 16 = 39
  BY SMT
<1>2. arm_insns[23 + 16] = DataProcessing[16]
  BY SMT, <1>1, TableIs
<1> QED
  BY SMT, <1>1, <1>2, DataProcessingAre

LEMMA Row39 ==
    ASSUME NEW word, Matches(word, arm_insns[39])
    PROVE  /\ 27 \notin word /\ 26 \notin word /\ 24 \in word /\ 23 \in word /\ 22 \in word /\ 21 \notin word
<1> DEFINE A == Bits(\h0de00000)
           V == Bits(\h01c00000)
<1>1. /\ 27 \in A /\ 26 \in A /\ 24 \in A /\ 23 \in A /\ 22 \in A /\ 21 \in A
      /\ 27 \notin V /\ 26 \notin V /\ 24 \in V /\ 23 \in V /\ 22 \in V /\ 21 \notin V
  BY SMT DEF Bits
<1>2. word \cap A = V \cap A
  BY SMT, Row39Is DEF Matches, Alu, Row
<1> HIDE DEF A, V
<1> QED
  BY SMT, <1>1, <1>2

LEMMA Row40Is == arm_insns[40] = MoveRow(\h01e00000, "mvn")
<1>1. 17 \in 1 .. 17 /\ 23 + 17 = 40
  BY SMT
<1>2. arm_insns[23 + 17] = DataProcessing[17]
  BY SMT, <1>1, TableIs
<1> QED
  BY SMT, <1>1, <1>2, DataProcessingAre

LEMMA Row40 ==
    ASSUME NEW word, Matches(word, arm_insns[40])
    PROVE  /\ 27 \notin word /\ 26 \notin word /\ 24 \in word /\ 23 \in word /\ 22 \in word /\ 21 \in word
<1> DEFINE A == Bits(\h0de00000)
           V == Bits(\h01e00000)
<1>1. /\ 27 \in A /\ 26 \in A /\ 24 \in A /\ 23 \in A /\ 22 \in A /\ 21 \in A
      /\ 27 \notin V /\ 26 \notin V /\ 24 \in V /\ 23 \in V /\ 22 \in V /\ 21 \in V
  BY SMT DEF Bits
<1>2. word \cap A = V \cap A
  BY SMT, Row40Is DEF Matches, MoveRow, Row
<1> HIDE DEF A, V
<1> QED
  BY SMT, <1>1, <1>2

LEMMA Row48Is == arm_insns[48] = Row(\h0f100010, \h0e100010, "mrc", <<O("t"), O("p"), X(21), R(12), C(16), C(0), X(5)>>)
<1>1. 2 \in 1 .. 8 /\ 46 + 2 = 48
  BY SMT
<1>2. arm_insns[46 + 2] = Coprocessor[2]
  BY SMT, <1>1, TableIs
<1> QED
  BY SMT, <1>1, <1>2, CoprocessorAre

LEMMA Row48 ==
    ASSUME NEW word, Matches(word, arm_insns[48])
    PROVE  /\ 27 \in word /\ 26 \in word /\ 25 \in word /\ 24 \notin word /\ 20 \in word /\ 4 \in word
<1> DEFINE A == Bits(\h0f100010)
           V == Bits(\h0e100010)
<1>1. /\ 27 \in A /\ 26 \in A /\ 25 \in A /\ 24 \in A /\ 20 \in A /\ 4 \in A
      /\ 27 \in V /\ 26 \in V /\ 25 \in V /\ 24 \notin V /\ 20 \in V /\ 4 \in V
  BY SMT DEF Bits
<1>2. word \cap A = V \cap A
  BY SMT, Row48Is DEF Matches, Row
<1> HIDE DEF A, V
<1> QED
  BY SMT, <1>1, <1>2

-----------------------------------------------------------------------------
(* How the instructions of a row are classified by the flow decoder *)

LEMMA FlowClasses ==
    /\ FlowTests[1].class = "bx"
    /\ FlowTests[2].class = "swi"
    /\ FlowTests[3].class = "b"
    /\ FlowTests[4].class = "mrs"
    /\ FlowTests[5].class = "mrs"
    /\ FlowTests[6].class = "mrs"
    /\ FlowTests[7].class = "mul"
    /\ FlowTests[8].class = "umull"
    /\ FlowTests[9].class = "ldr"
    /\ FlowTests[10].class = "mcr"
    /\ FlowTests[11].class = "swp"
    /\ FlowTests[12].class = "ldrh"
    /\ FlowTests[13].class = "ldm"
    /\ FlowTests[14].class = "alu"
    /\ FlowTests[15].class = "undf"
BY SMT, FlowTestsAre DEF Flow

\* The test i is the first that holds.
FirstTest(word, i) ==
    /\ i \in 1 .. 15
    /\ Matches(word, FlowTests[i])
    /\ \A j \in 1 .. 15 : j < i => ~Matches(word, FlowTests[j])

LEMMA ClassOfFirst ==
    ASSUME NEW word, NEW i, FirstTest(word, i)
    PROVE  Class(word) = FlowTests[i].class
BY ClassIs DEF FirstTest

\* b and bl
LEMMA BranchClass ==
    ASSUME NEW word, NEW i \in {3, 4}, ListedBy(word, i)
    PROVE  Class(word) = "b"
<1>1. /\ 27 \in word /\ 26 \notin word /\ 25 \in word
  BY SMT, Row3, Row4 DEF ListedBy
<1>2. ~Matches(word, FlowTests[1])
  BY SMT, <1>1, Flow1
<1>3. ~Matches(word, FlowTests[2])
  BY SMT, <1>1, Flow2
<1>4. Matches(word, FlowTests[3])
  BY SMT, <1>1, Flow3
<1>5. ASSUME NEW j \in 1 .. 15, j < 3 PROVE ~Matches(word, FlowTests[j])
  <2>1. \/ j = 1 \/ j = 2
    BY SMT, <1>5
  <2> QED
    BY SMT, <2>1, <1>2, <1>3
<1>6. FirstTest(word, 3)
  BY SMT, <1>4, <1>5 DEF FirstTest
<1> QED
  BY <1>6, ClassOfFirst, FlowClasses

\* mul and mla
LEMMA MulClass ==
    ASSUME NEW word, NEW i \in {5, 6}, ListedBy(word, i)
    PROVE  Class(word) = "mul"
<1>1. /\ 27 \notin word /\ 26 \notin word /\ 25 \notin word /\ 24 \notin word /\ 23 \notin word
      /\ 22 \notin word /\ 7 \in word /\ 6 \notin word /\ 5 \notin word /\ 4 \in word
  BY SMT, Row5, Row6 DEF ListedBy
<1>2. ~Matches(word, FlowTests[1])
  BY SMT, <1>1, Flow1
<1>3. ~Matches(word, FlowTests[2])
  BY SMT, <1>1, Flow2
<1>4. ~Matches(word, FlowTests[3])
  BY SMT, <1>1, Flow3
<1>5. ~Matches(word, FlowTests[4])
  BY SMT, <1>1, Flow4
<1>6. ~Matches(word, FlowTests[5])
  BY SMT, <1>1, Flow5
<1>7. ~Matches(word, FlowTests[6])
  BY SMT, <1>1, Flow6
<1>8. Matches(word, FlowTests[7])
  BY SMT, <1>1, Flow7
<1>9. ASSUME NEW j \in 1 .. 15, j < 7 PROVE ~Matches(word, FlowTests[j])
  <2>1. \/ j = 1 \/ j = 2 \/ j = 3 \/ j = 4 \/ j = 5 \/ j = 6
    BY SMT, <1>9
  <2> QED
    BY SMT, <2>1, <1>2, <1>3, <1>4, <1>5, <1>6, <1>7
<1>10. FirstTest(word, 7)
  BY SMT, <1>8, <1>9 DEF FirstTest
<1> QED
  BY <1>10, ClassOfFirst, FlowClasses

\* mull and mlal
LEMMA MullClass ==
    ASSUME NEW word, NEW i \in {7, 8}, ListedBy(word, i)
    PROVE  Class(word) = "umull"
<1>1. /\ 27 \notin word /\ 26 \notin word /\ 25 \notin word /\ 24 \notin word /\ 23 \in word
      /\ 7 \in word /\ 6 \notin word /\ 5 \notin word /\ 4 \in word
  BY SMT, Row7, Row8 DEF ListedBy
<1>2. ~Matches(word, FlowTests[1])
  BY SMT, <1>1, Flow1
<1>3. ~Matches(word, FlowTests[2])
  BY SMT, <1>1, Flow2
<1>4. ~Matches(word, FlowTests[3])
  BY SMT, <1>1, Flow3
<1>5. ~Matches(word, FlowTests[4])
  BY SMT, <1>1, Flow4
<1>6. ~Matches(word, FlowTests[5])
  BY SMT, <1>1, Flow5
<1>7. ~Matches(word, FlowTests[6])
  BY SMT, <1>1, Flow6
<1>8. ~Matches(word, FlowTests[7])
  BY SMT, <1>1, Flow7
<1>9. Matches(word, FlowTests[8])
  BY SMT, <1>1, Flow8
<1>10. ASSUME NEW j \in 1 .. 15, j < 8 PROVE ~Matches(word, FlowTests[j])
  <2>1. \/ j = 1 \/ j = 2 \/ j = 3 \/ j = 4 \/ j = 5 \/ j = 6 \/ j = 7
    BY SMT, <1>10
  <2> QED
    BY SMT, <2>1, <1>2, <1>3, <1>4, <1>5, <1>6, <1>7, <1>8
<1>11. FirstTest(word, 8)
  BY SMT, <1>9, <1>10 DEF FirstTest
<1> QED
  BY <1>11, ClassOfFirst, FlowClasses

\* ldrt and ldr
LEMMA LdrClass ==
    ASSUME NEW word, NEW i \in {15, 17}, ListedBy(word, i)
    PROVE  Class(word) = "ldr"
<1>1. /\ 27 \notin word /\ 26 \in word /\ 20 \in word
  BY SMT, Row15, Row17 DEF ListedBy
<1>2. ~Matches(word, FlowTests[1])
  BY SMT, <1>1, Flow1
<1>3. ~Matches(word, FlowTests[2])
  BY SMT, <1>1, Flow2
<1>4. ~Matches(word, FlowTests[3])
  BY SMT, <1>1, Flow3
<1>5. ~Matches(word, FlowTests[4])
  BY SMT, <1>1, Flow4
<1>6. ~Matches(word, FlowTests[5])
  BY SMT, <1>1, Flow5
<1>7. ~Matches(word, FlowTests[6])
  BY SMT, <1>1, Flow6
<1>8. ~Matches(word, FlowTests[7])
  BY SMT, <1>1, Flow7
<1>9. ~Matches(word, FlowTests[8])
  BY SMT, <1>1, Flow8
<1>10. Matches(word, FlowTests[9])
  BY SMT, <1>1, Flow9
<1>11. ASSUME NEW j \in 1 .. 15, j < 9 PROVE ~Matches(word, FlowTests[j])
  <2>1. \/ j = 1 \/ j = 2 \/ j = 3 \/ j = 4 \/ j = 5 \/ j = 6 \/ j = 7
        \/ j = 8
    BY SMT, <1>11
  <2> QED
    BY SMT, <2>1, <1>2, <1>3, <1>4, <1>5, <1>6, <1>7, <1>8, <1>9
<1>12. FirstTest(word, 9)
  BY SMT, <1>10, <1>11 DEF FirstTest
<1> QED
  BY <1>12, ClassOfFirst, FlowClasses

\* swp
LEMMA SwpClass ==
    ASSUME NEW word, NEW i \in {19}, ListedBy(word, i)
    PROVE  Class(word) = "swp"
<1>1. /\ 27 \notin word /\ 26 \notin word /\ 25 \notin word /\ 24 \in word /\ 23 \notin word
      /\ 20 \notin word /\ 7 \in word /\ 4 \in word
  BY SMT, Row19 DEF ListedBy
<1>2. ~Matches(word, FlowTests[1])
  BY SMT, <1>1, Flow1
<1>3. ~Matches(word, FlowTests[2])
  BY SMT, <1>1, Flow2
<1>4. ~Matches(word, FlowTests[3])
  BY SMT, <1>1, Flow3
<1>5. ~Matches(word, FlowTests[4])
  BY SMT, <1>1, Flow4
<1>6. ~Matches(word, FlowTests[5])
  BY SMT, <1>1, Flow5
<1>7. ~Matches(word, FlowTests[6])
  BY SMT, <1>1, Flow6
<1>8. ~Matches(word, FlowTests[7])
  BY SMT, <1>1, Flow7
<1>9. ~Matches(word, FlowTests[8])
  BY SMT, <1>1, Flow8
<1>10. ~Matches(word, FlowTests[9])
  BY SMT, <1>1, Flow9
<1>11. ~Matches(word, FlowTests[10])
  BY SMT, <1>1, Flow10
<1>12. Matches(word, FlowTests[11])
  BY SMT, Row19Is, FlowTestsAre DEF ListedBy, Matches, Row, Flow
<1>13. ASSUME NEW j \in 1 .. 15, j < 11 PROVE ~Matches(word, FlowTests[j])
  <2>1. \/ j = 1 \/ j = 2 \/ j = 3 \/ j = 4 \/ j = 5 \/ j = 6 \/ j = 7
        \/ j = 8 \/ j = 9 \/ j = 10
    BY SMT, <1>13
  <2> QED
    BY SMT, <2>1, <1>2, <1>3, <1>4, <1>5, <1>6, <1>7, <1>8, <1>9, <1>10, <1>11
<1>14. FirstTest(word, 11)
  BY SMT, <1>12, <1>13 DEF FirstTest
<1> QED
  BY <1>14, ClassOfFirst, FlowClasses

\* mrc
LEMMA McrClass ==
    ASSUME NEW word, NEW i \in {48}, ListedBy(word, i)
    PROVE  Class(word) = "mcr"
<1>1. /\ 27 \in word /\ 26 \in word /\ 25 \in word /\ 24 \notin word /\ 4 \in word
  BY SMT, Row48 DEF ListedBy
<1>2. ~Matches(word, FlowTests[1])
  BY SMT, <1>1, Flow1
<1>3. ~Matches(word, FlowTests[2])
  BY SMT, <1>1, Flow2
<1>4. ~Matches(word, FlowTests[3])
  BY SMT, <1>1, Flow3
<1>5. ~Matches(word, FlowTests[4])
  BY SMT, <1>1, Flow4
<1>6. ~Matches(word, FlowTests[5])
  BY SMT, <1>1, Flow5
<1>7. ~Matches(word, FlowTests[6])
  BY SMT, <1>1, Flow6
<1>8. ~Matches(word, FlowTests[7])
  BY SMT, <1>1, Flow7
<1>9. ~Matches(word, FlowTests[8])
  BY SMT, <1>1, Flow8
<1>10. ~Matches(word, FlowTests[9])
  BY SMT, <1>1, Flow9
<1>11. Matches(word, FlowTests[10])
  BY SMT, <1>1, Flow10
<1>12. ASSUME NEW j \in 1 .. 15, j < 10 PROVE ~Matches(word, FlowTests[j])
  <2>1. \/ j = 1 \/ j = 2 \/ j = 3 \/ j = 4 \/ j = 5 \/ j = 6 \/ j = 7
        \/ j = 8 \/ j = 9
    BY SMT, <1>12
  <2> QED
    BY SMT, <2>1, <1>2, <1>3, <1>4, <1>5, <1>6, <1>7, <1>8, <1>9, <1>10
<1>13. FirstTest(word, 10)
  BY SMT, <1>11, <1>12 DEF FirstTest
<1> QED
  BY <1>13, ClassOfFirst, FlowClasses

\* ldrh: the multiplications have rows before it.
LEMMA LdrhClass ==
    ASSUME NEW word, NEW i \in {20}, ListedBy(word, i)
    PROVE  Class(word) = "ldrh"
<1>1. /\ 27 \notin word /\ 26 \notin word /\ 25 \notin word /\ 20 \in word /\ 7 \in word
      /\ 4 \in word
  BY SMT, Row20 DEF ListedBy
<1>2. /\ ~Matches(word, arm_insns[5]) /\ ~Matches(word, arm_insns[6])
      /\ ~Matches(word, arm_insns[7]) /\ ~Matches(word, arm_insns[8])
  BY SMT DEF ListedBy
<1>3. ~Matches(word, FlowTests[1])
  BY SMT, <1>1, Flow1
<1>4. ~Matches(word, FlowTests[2])
  BY SMT, <1>1, Flow2
<1>5. ~Matches(word, FlowTests[3])
  BY SMT, <1>1, Flow3
<1>6. ~Matches(word, FlowTests[4])
  BY SMT, <1>1, Flow4
<1>7. ~Matches(word, FlowTests[5])
  BY SMT, <1>1, Flow5
<1>8. ~Matches(word, FlowTests[6])
  BY SMT, <1>1, Flow6
<1>9. ~Matches(word, FlowTests[7])
  BY SMT, <1>1, <1>2, Flow7, Row5, Row6
<1>10. ~Matches(word, FlowTests[8])
  BY SMT, <1>1, <1>2, Flow8, Row7, Row8
<1>11. ~Matches(word, FlowTests[9])
  BY SMT, <1>1, Flow9
<1>12. ~Matches(word, FlowTests[10])
  BY SMT, <1>1, Flow10
<1>13. ~Matches(word, FlowTests[11])
  BY SMT, <1>1, Flow11
<1>14. Matches(word, FlowTests[12])
  BY SMT, <1>1, Flow12
<1>15. ASSUME NEW j \in 1 .. 15, j < 12 PROVE ~Matches(word, FlowTests[j])
  <2>1. \/ j = 1 \/ j = 2 \/ j = 3 \/ j = 4 \/ j = 5 \/ j = 6 \/ j = 7
        \/ j = 8 \/ j = 9 \/ j = 10 \/ j = 11
    BY SMT, <1>15
  <2> QED
    BY SMT, <2>1, <1>3, <1>4, <1>5, <1>6, <1>7, <1>8, <1>9, <1>10, <1>11, <1>12, <1>13
<1>16. FirstTest(word, 12)
  BY SMT, <1>14, <1>15 DEF FirstTest
<1> QED
  BY <1>16, ClassOfFirst, FlowClasses

\* ldm
LEMMA LdmClass ==
    ASSUME NEW word, NEW i \in {22}, ListedBy(word, i)
    PROVE  Class(word) = "ldm"
<1>1. /\ 27 \in word /\ 26 \notin word /\ 25 \notin word /\ 20 \in word
  BY SMT, Row22 DEF ListedBy
<1>2. ~Matches(word, FlowTests[1])
  BY SMT, <1>1, Flow1
<1>3. ~Matches(word, FlowTests[2])
  BY SMT, <1>1, Flow2
<1>4. ~Matches(word, FlowTests[3])
  BY SMT, <1>1, Flow3
<1>5. ~Matches(word, FlowTests[4])
  BY SMT, <1>1, Flow4
<1>6. ~Matches(word, FlowTests[5])
  BY SMT, <1>1, Flow5
<1>7. ~Matches(word, FlowTests[6])
  BY SMT, <1>1, Flow6
<1>8. ~Matches(word, FlowTests[7])
  BY SMT, <1>1, Flow7
<1>9. ~Matches(word, FlowTests[8])
  BY SMT, <1>1, Flow8
<1>10. ~Matches(word, FlowTests[9])
  BY SMT, <1>1, Flow9
<1>11. ~Matches(word, FlowTests[10])
  BY SMT, <1>1, Flow10
<1>12. ~Matches(word, FlowTests[11])
  BY SMT, <1>1, Flow11
<1>13. ~Matches(word, FlowTests[12])
  BY SMT, <1>1, Flow12
<1>14. Matches(word, FlowTests[13])
  BY SMT, <1>1, Flow13
<1>15. ASSUME NEW j \in 1 .. 15, j < 13 PROVE ~Matches(word, FlowTests[j])
  <2>1. \/ j = 1 \/ j = 2 \/ j = 3 \/ j = 4 \/ j = 5 \/ j = 6 \/ j = 7
        \/ j = 8 \/ j = 9 \/ j = 10 \/ j = 11 \/ j = 12
    BY SMT, <1>15
  <2> QED
    BY SMT, <2>1, <1>2, <1>3, <1>4, <1>5, <1>6, <1>7, <1>8, <1>9, <1>10, <1>11, <1>12, <1>13
<1>16. FirstTest(word, 13)
  BY SMT, <1>14, <1>15 DEF FirstTest
<1> QED
  BY <1>16, ClassOfFirst, FlowClasses

\* Data processing with a result: the multiplications and the transfers of halves
\* of a word have rows before it.
LEMMA AluClass ==
    ASSUME NEW word, NEW i \in {24, 25, 26, 27, 28, 29, 30, 31, 36, 38, 39, 40}, ListedBy(word, i)
    PROVE  Class(word) = "alu"
<1>1. /\ 27 \notin word /\ 26 \notin word /\ ~(24 \in word /\ 23 \notin word)
  BY SMT, Row24, Row25, Row26, Row27, Row28, Row29, Row30, Row31, Row36, Row38, Row39, Row40 DEF ListedBy
<1>2. /\ ~Matches(word, arm_insns[5]) /\ ~Matches(word, arm_insns[6])
      /\ ~Matches(word, arm_insns[7]) /\ ~Matches(word, arm_insns[8])
      /\ ~Matches(word, arm_insns[20]) /\ ~Matches(word, arm_insns[21])
  BY SMT DEF ListedBy
<1>3. ~Matches(word, FlowTests[1])
  BY SMT, <1>1, Flow1
<1>4. ~Matches(word, FlowTests[2])
  BY SMT, <1>1, Flow2
<1>5. ~Matches(word, FlowTests[3])
  BY SMT, <1>1, Flow3
<1>6. ~Matches(word, FlowTests[4])
  BY SMT, <1>1, Flow4
<1>7. ~Matches(word, FlowTests[5])
  BY SMT, <1>1, Flow5
<1>8. ~Matches(word, FlowTests[6])
  BY SMT, <1>1, Flow6
<1>9. ~Matches(word, FlowTests[7])
  BY SMT, <1>1, <1>2, Flow7, Row5, Row6
<1>10. ~Matches(word, FlowTests[8])
  BY SMT, <1>1, <1>2, Flow8, Row7, Row8
<1>11. ~Matches(word, FlowTests[9])
  BY SMT, <1>1, Flow9
<1>12. ~Matches(word, FlowTests[10])
  BY SMT, <1>1, Flow10
<1>13. ~Matches(word, FlowTests[11])
  BY SMT, <1>1, Flow11
<1>14. ~Matches(word, FlowTests[12])
  BY SMT, <1>1, <1>2, Flow12, Row20, Row21
<1>15. ~Matches(word, FlowTests[13])
  BY SMT, <1>1, Flow13
<1>16. Matches(word, FlowTests[14])
  BY SMT, <1>1, Flow14
<1>17. ASSUME NEW j \in 1 .. 15, j < 14 PROVE ~Matches(word, FlowTests[j])
  <2>1. \/ j = 1 \/ j = 2 \/ j = 3 \/ j = 4 \/ j = 5 \/ j = 6 \/ j = 7
        \/ j = 8 \/ j = 9 \/ j = 10 \/ j = 11 \/ j = 12 \/ j = 13
    BY SMT, <1>17
  <2> QED
    BY SMT, <2>1, <1>3, <1>4, <1>5, <1>6, <1>7, <1>8, <1>9, <1>10, <1>11, <1>12, <1>13, <1>14, <1>15
<1>18. FirstTest(word, 14)
  BY SMT, <1>16, <1>17 DEF FirstTest
<1> QED
  BY <1>18, ClassOfFirst, FlowClasses

\* bx
LEMMA BxClass ==
    ASSUME NEW word, NEW i \in {1}, ListedBy(word, i)
    PROVE  Class(word) = "bx"
<1>2. Matches(word, FlowTests[1])
  BY SMT, Row1Is, FlowTestsAre DEF ListedBy, Matches, Row, Flow
<1>3. ASSUME NEW j \in 1 .. 15, j < 1 PROVE ~Matches(word, FlowTests[j])
  BY SMT, <1>3
<1>4. FirstTest(word, 1)
  BY SMT, <1>2, <1>3 DEF FirstTest
<1> QED
  BY <1>4, ClassOfFirst, FlowClasses

-----------------------------------------------------------------------------
(* Names and operands *)

LEMMA NamesAre ==
    /\ arm_insns[1].name = "bx" /\ arm_insns[2].name = "swi"
    /\ arm_insns[3].name = "b" /\ arm_insns[4].name = "bl"
    /\ arm_insns[5].name = "mul" /\ arm_insns[6].name = "mla"
    /\ arm_insns[7].name = "mull" /\ arm_insns[8].name = "mlal"
    /\ arm_insns[9].name = "mrs_cpsr" /\ arm_insns[10].name = "mrs_spsr"
    /\ arm_insns[11].name = "msr_cpsr_all" /\ arm_insns[12].name = "msr_spsr_all"
    /\ arm_insns[13].name = "msr_cpsr_flg" /\ arm_insns[14].name = "msr_spsr_flg"
    /\ arm_insns[15].name = "ldrt" /\ arm_insns[16].name = "strt"
    /\ arm_insns[17].name = "ldr" /\ arm_insns[18].name = "str"
    /\ arm_insns[19].name = "swp" /\ arm_insns[20].name = "ldrh"
    /\ arm_insns[21].name = "strh" /\ arm_insns[22].name = "ldm"
    /\ arm_insns[23].name = "stm" /\ arm_insns[24].name = "and"
    /\ arm_insns[25].name = "eor" /\ arm_insns[26].name = "sub"
    /\ arm_insns[27].name = "rsb" /\ arm_insns[28].name = "add"
    /\ arm_insns[29].name = "adc" /\ arm_insns[30].name = "sbc"
    /\ arm_insns[31].name = "rsc" /\ arm_insns[32].name = "tst"
    /\ arm_insns[33].name = "teq" /\ arm_insns[34].name = "cmp"
    /\ arm_insns[35].name = "cmn" /\ arm_insns[36].name = "orr"
    /\ arm_insns[37].name = "nop" /\ arm_insns[38].name = "mov"
    /\ arm_insns[39].name = "bic" /\ arm_insns[40].name = "mvn"
    /\ arm_insns[41].name = "bkpt" /\ arm_insns[42].name = "blx"
    /\ arm_insns[43].name = "blx" /\ arm_insns[44].name = "clz"
    /\ arm_insns[45].name = "ldrd" /\ arm_insns[46].name = "strd"
    /\ arm_insns[47].name = "mcr" /\ arm_insns[48].name = "mrc"
    /\ arm_insns[49].name = "stc" /\ arm_insns[50].name = "ldc"
    /\ arm_insns[51].name = "cdp" /\ arm_insns[52].name = "mcrr"
    /\ arm_insns[53].name = "mrrc" /\ arm_insns[54].name = "pld"
    /\ arm_insns[55].name = "qadd" /\ arm_insns[56].name = "qsub"
    /\ arm_insns[57].name = "smul" /\ arm_insns[58].name = "smla"
    /\ arm_insns[59].name = "invalid"
<1>1. /\ arm_insns[1].name = "bx" /\ arm_insns[2].name = "swi"
      /\ arm_insns[3].name = "b" /\ arm_insns[4].name = "bl"
  <2>1. /\ Branches[1].name = "bx" /\ Branches[2].name = "swi"
        /\ Branches[3].name = "b" /\ Branches[4].name = "bl"
    BY SMT, BranchesAre DEF Row, RowIf, Alu, Test, MoveRow
  <2>2. /\ arm_insns[1] = Branches[1] /\ arm_insns[2] = Branches[2]
        /\ arm_insns[3] = Branches[3] /\ arm_insns[4] = Branches[4]
    BY SMT, TableIs
  <2> QED
    BY SMT, <2>1, <2>2
<1>2. /\ arm_insns[5].name = "mul" /\ arm_insns[6].name = "mla"
      /\ arm_insns[7].name = "mull" /\ arm_insns[8].name = "mlal"
  <2>1. /\ Multiplications[1].name = "mul" /\ Multiplications[2].name = "mla"
        /\ Multiplications[3].name = "mull" /\ Multiplications[4].name = "mlal"
    BY SMT, MultiplicationsAre DEF Row, RowIf, Alu, Test, MoveRow
  <2>2. /\ arm_insns[4 + 1] = Multiplications[1] /\ arm_insns[4 + 2] = Multiplications[2]
        /\ arm_insns[4 + 3] = Multiplications[3] /\ arm_insns[4 + 4] = Multiplications[4]
    BY SMT, TableIs
  <2> QED
    BY SMT, <2>1, <2>2
<1>3. /\ arm_insns[9].name = "mrs_cpsr" /\ arm_insns[10].name = "mrs_spsr"
      /\ arm_insns[11].name = "msr_cpsr_all" /\ arm_insns[12].name = "msr_spsr_all"
      /\ arm_insns[13].name = "msr_cpsr_flg" /\ arm_insns[14].name = "msr_spsr_flg"
  <2>1. /\ StatusMoves[1].name = "mrs_cpsr" /\ StatusMoves[2].name = "mrs_spsr"
        /\ StatusMoves[3].name = "msr_cpsr_all" /\ StatusMoves[4].name = "msr_spsr_all"
        /\ StatusMoves[5].name = "msr_cpsr_flg" /\ StatusMoves[6].name = "msr_spsr_flg"
    BY SMT, StatusMovesAre DEF Row, RowIf, Alu, Test, MoveRow
  <2>2. /\ arm_insns[8 + 1] = StatusMoves[1] /\ arm_insns[8 + 2] = StatusMoves[2]
        /\ arm_insns[8 + 3] = StatusMoves[3] /\ arm_insns[8 + 4] = StatusMoves[4]
        /\ arm_insns[8 + 5] = StatusMoves[5] /\ arm_insns[8 + 6] = StatusMoves[6]
    BY SMT, TableIs
  <2> QED
    BY SMT, <2>1, <2>2
<1>4. /\ arm_insns[15].name = "ldrt" /\ arm_insns[16].name = "strt"
      /\ arm_insns[17].name = "ldr" /\ arm_insns[18].name = "str"
      /\ arm_insns[19].name = "swp" /\ arm_insns[20].name = "ldrh"
      /\ arm_insns[21].name = "strh" /\ arm_insns[22].name = "ldm"
      /\ arm_insns[23].name = "stm"
  <2>1. /\ Transfers[1].name = "ldrt" /\ Transfers[2].name = "strt"
        /\ Transfers[3].name = "ldr" /\ Transfers[4].name = "str"
        /\ Transfers[5].name = "swp" /\ Transfers[6].name = "ldrh"
        /\ Transfers[7].name = "strh" /\ Transfers[8].name = "ldm"
        /\ Transfers[9].name = "stm"
    BY SMT, TransfersAre DEF Row, RowIf, Alu, Test, MoveRow
  <2>2. /\ arm_insns[14 + 1] = Transfers[1] /\ arm_insns[14 + 2] = Transfers[2]
        /\ arm_insns[14 + 3] = Transfers[3] /\ arm_insns[14 + 4] = Transfers[4]
        /\ arm_insns[14 + 5] = Transfers[5] /\ arm_insns[14 + 6] = Transfers[6]
        /\ arm_insns[14 + 7] = Transfers[7] /\ arm_insns[14 + 8] = Transfers[8]
        /\ arm_insns[14 + 9] = Transfers[9]
    BY SMT, TableIs
  <2> QED
    BY SMT, <2>1, <2>2
<1>5. /\ arm_insns[24].name = "and" /\ arm_insns[25].name = "eor"
      /\ arm_insns[26].name = "sub" /\ arm_insns[27].name = "rsb"
      /\ arm_insns[28].name = "add" /\ arm_insns[29].name = "adc"
      /\ arm_insns[30].name = "sbc" /\ arm_insns[31].name = "rsc"
      /\ arm_insns[32].name = "tst" /\ arm_insns[33].name = "teq"
      /\ arm_insns[34].name = "cmp" /\ arm_insns[35].name = "cmn"
      /\ arm_insns[36].name = "orr" /\ arm_insns[37].name = "nop"
      /\ arm_insns[38].name = "mov" /\ arm_insns[39].name = "bic"
      /\ arm_insns[40].name = "mvn"
  <2>1. /\ DataProcessing[1].name = "and" /\ DataProcessing[2].name = "eor"
        /\ DataProcessing[3].name = "sub" /\ DataProcessing[4].name = "rsb"
        /\ DataProcessing[5].name = "add" /\ DataProcessing[6].name = "adc"
        /\ DataProcessing[7].name = "sbc" /\ DataProcessing[8].name = "rsc"
        /\ DataProcessing[9].name = "tst" /\ DataProcessing[10].name = "teq"
        /\ DataProcessing[11].name = "cmp" /\ DataProcessing[12].name = "cmn"
        /\ DataProcessing[13].name = "orr" /\ DataProcessing[14].name = "nop"
        /\ DataProcessing[15].name = "mov" /\ DataProcessing[16].name = "bic"
        /\ DataProcessing[17].name = "mvn"
    BY SMT, DataProcessingAre DEF Row, RowIf, Alu, Test, MoveRow
  <2>2. /\ arm_insns[23 + 1] = DataProcessing[1] /\ arm_insns[23 + 2] = DataProcessing[2]
        /\ arm_insns[23 + 3] = DataProcessing[3] /\ arm_insns[23 + 4] = DataProcessing[4]
        /\ arm_insns[23 + 5] = DataProcessing[5] /\ arm_insns[23 + 6] = DataProcessing[6]
        /\ arm_insns[23 + 7] = DataProcessing[7] /\ arm_insns[23 + 8] = DataProcessing[8]
        /\ arm_insns[23 + 9] = DataProcessing[9] /\ arm_insns[23 + 10] = DataProcessing[10]
        /\ arm_insns[23 + 11] = DataProcessing[11] /\ arm_insns[23 + 12] = DataProcessing[12]
        /\ arm_insns[23 + 13] = DataProcessing[13] /\ arm_insns[23 + 14] = DataProcessing[14]
        /\ arm_insns[23 + 15] = DataProcessing[15] /\ arm_insns[23 + 16] = DataProcessing[16]
        /\ arm_insns[23 + 17] = DataProcessing[17]
    BY SMT, TableIs
  <2> QED
    BY SMT, <2>1, <2>2
<1>6. /\ arm_insns[41].name = "bkpt" /\ arm_insns[42].name = "blx"
      /\ arm_insns[43].name = "blx" /\ arm_insns[44].name = "clz"
      /\ arm_insns[45].name = "ldrd" /\ arm_insns[46].name = "strd"
  <2>1. /\ Later[1].name = "bkpt" /\ Later[2].name = "blx"
        /\ Later[3].name = "blx" /\ Later[4].name = "clz"
        /\ Later[5].name = "ldrd" /\ Later[6].name = "strd"
    BY SMT, LaterAre DEF Row, RowIf, Alu, Test, MoveRow
  <2>2. /\ arm_insns[40 + 1] = Later[1] /\ arm_insns[40 + 2] = Later[2]
        /\ arm_insns[40 + 3] = Later[3] /\ arm_insns[40 + 4] = Later[4]
        /\ arm_insns[40 + 5] = Later[5] /\ arm_insns[40 + 6] = Later[6]
    BY SMT, TableIs
  <2> QED
    BY SMT, <2>1, <2>2
<1>7. /\ arm_insns[47].name = "mcr" /\ arm_insns[48].name = "mrc"
      /\ arm_insns[49].name = "stc" /\ arm_insns[50].name = "ldc"
      /\ arm_insns[51].name = "cdp" /\ arm_insns[52].name = "mcrr"
      /\ arm_insns[53].name = "mrrc" /\ arm_insns[54].name = "pld"
  <2>1. /\ Coprocessor[1].name = "mcr" /\ Coprocessor[2].name = "mrc"
        /\ Coprocessor[3].name = "stc" /\ Coprocessor[4].name = "ldc"
        /\ Coprocessor[5].name = "cdp" /\ Coprocessor[6].name = "mcrr"
        /\ Coprocessor[7].name = "mrrc" /\ Coprocessor[8].name = "pld"
    BY SMT, CoprocessorAre DEF Row, RowIf, Alu, Test, MoveRow
  <2>2. /\ arm_insns[46 + 1] = Coprocessor[1] /\ arm_insns[46 + 2] = Coprocessor[2]
        /\ arm_insns[46 + 3] = Coprocessor[3] /\ arm_insns[46 + 4] = Coprocessor[4]
        /\ arm_insns[46 + 5] = Coprocessor[5] /\ arm_insns[46 + 6] = Coprocessor[6]
        /\ arm_insns[46 + 7] = Coprocessor[7] /\ arm_insns[46 + 8] = Coprocessor[8]
    BY SMT, TableIs
  <2> QED
    BY SMT, <2>1, <2>2
<1>8. /\ arm_insns[55].name = "qadd" /\ arm_insns[56].name = "qsub"
      /\ arm_insns[57].name = "smul" /\ arm_insns[58].name = "smla"
  <2>1. /\ Saturating[1].name = "qadd" /\ Saturating[2].name = "qsub"
        /\ Saturating[3].name = "smul" /\ Saturating[4].name = "smla"
    BY SMT, SaturatingAre DEF Row, RowIf, Alu, Test, MoveRow
  <2>2. /\ arm_insns[54 + 1] = Saturating[1] /\ arm_insns[54 + 2] = Saturating[2]
        /\ arm_insns[54 + 3] = Saturating[3] /\ arm_insns[54 + 4] = Saturating[4]
    BY SMT, TableIs
  <2> QED
    BY SMT, <2>1, <2>2
<1>9. /\ arm_insns[59].name = "invalid"
  <2>1. /\ Invalid[1].name = "invalid"
    BY SMT, InvalidAre DEF Row, RowIf, Alu, Test, MoveRow
  <2>2. /\ arm_insns[58 + 1] = Invalid[1]
    BY SMT, TableIs
  <2> QED
    BY SMT, <2>1, <2>2
<1> QED
  BY SMT, <1>1, <1>2, <1>3, <1>4, <1>5, <1>6, <1>7, <1>8, <1>9

\* The rows that have these names.
NameTells(i) ==
    /\ arm_insns[i].name \in {"b", "bl"} => i \in {3, 4}
    /\ arm_insns[i].name \in {"mul", "mla"} => i \in {5, 6}
    /\ arm_insns[i].name \in {"mull", "mlal"} => i \in {7, 8}
    /\ arm_insns[i].name \in {"ldr", "ldrt"} => i \in {15, 17}
    /\ arm_insns[i].name \in {"swp"} => i \in {19}
    /\ arm_insns[i].name \in {"ldrh"} => i \in {20}
    /\ arm_insns[i].name \in {"ldm"} => i \in {22}
    /\ arm_insns[i].name \in Computed => i \in {24, 25, 26, 27, 28, 29, 30, 31, 36, 38, 39, 40}
    /\ arm_insns[i].name \in {"bx"} => i \in {1}
    /\ arm_insns[i].name \in {"mrc"} => i \in {48}
    /\ arm_insns[i].name = "bl" <=> i = 4
    /\ arm_insns[i].name = "mov" => i = 38

LEMMA RowsNamed ==
    ASSUME NEW i \in 1 .. 59
    PROVE  NameTells(i)
<1>1. CASE i \in 1 .. 4
  <2>1. \/ i = 1 \/ i = 2 \/ i = 3 \/ i = 4
    BY SMT, <1>1
  <2>2. /\ arm_insns[1].name = "bx" /\ arm_insns[2].name = "swi"
        /\ arm_insns[3].name = "b" /\ arm_insns[4].name = "bl"
    BY NamesAre
  <2> QED
    BY SMT, <2>1, <2>2 DEF NameTells, Computed
<1>2. CASE i \in 5 .. 8
  <2>1. \/ i = 5 \/ i = 6 \/ i = 7 \/ i = 8
    BY SMT, <1>2
  <2>2. /\ arm_insns[5].name = "mul" /\ arm_insns[6].name = "mla"
        /\ arm_insns[7].name = "mull" /\ arm_insns[8].name = "mlal"
    BY NamesAre
  <2> QED
    BY SMT, <2>1, <2>2 DEF NameTells, Computed
<1>3. CASE i \in 9 .. 14
  <2>1. \/ i = 9 \/ i = 10 \/ i = 11 \/ i = 12 \/ i = 13 \/ i = 14
    BY SMT, <1>3
  <2>2. /\ arm_insns[9].name = "mrs_cpsr" /\ arm_insns[10].name = "mrs_spsr"
        /\ arm_insns[11].name = "msr_cpsr_all" /\ arm_insns[12].name = "msr_spsr_all"
        /\ arm_insns[13].name = "msr_cpsr_flg" /\ arm_insns[14].name = "msr_spsr_flg"
    BY NamesAre
  <2> QED
    BY SMT, <2>1, <2>2 DEF NameTells, Computed
<1>4. CASE i \in 15 .. 23
  <2>1. \/ i = 15 \/ i = 16 \/ i = 17 \/ i = 18 \/ i = 19 \/ i = 20 \/ i = 21 \/ i = 22
        \/ i = 23
    BY SMT, <1>4
  <2>2. /\ arm_insns[15].name = "ldrt" /\ arm_insns[16].name = "strt"
        /\ arm_insns[17].name = "ldr" /\ arm_insns[18].name = "str"
        /\ arm_insns[19].name = "swp" /\ arm_insns[20].name = "ldrh"
        /\ arm_insns[21].name = "strh" /\ arm_insns[22].name = "ldm"
        /\ arm_insns[23].name = "stm"
    BY NamesAre
  <2> QED
    BY SMT, <2>1, <2>2 DEF NameTells, Computed
<1>5. CASE i \in 24 .. 40
  <2>1. \/ i = 24 \/ i = 25 \/ i = 26 \/ i = 27 \/ i = 28 \/ i = 29 \/ i = 30 \/ i = 31
        \/ i = 32 \/ i = 33 \/ i = 34 \/ i = 35 \/ i = 36 \/ i = 37 \/ i = 38 \/ i = 39
        \/ i = 40
    BY SMT, <1>5
  <2>2. /\ arm_insns[24].name = "and" /\ arm_insns[25].name = "eor"
        /\ arm_insns[26].name = "sub" /\ arm_insns[27].name = "rsb"
        /\ arm_insns[28].name = "add" /\ arm_insns[29].name = "adc"
        /\ arm_insns[30].name = "sbc" /\ arm_insns[31].name = "rsc"
        /\ arm_insns[32].name = "tst" /\ arm_insns[33].name = "teq"
        /\ arm_insns[34].name = "cmp" /\ arm_insns[35].name = "cmn"
        /\ arm_insns[36].name = "orr" /\ arm_insns[37].name = "nop"
        /\ arm_insns[38].name = "mov" /\ arm_insns[39].name = "bic"
        /\ arm_insns[40].name = "mvn"
    BY NamesAre
  <2> QED
    BY SMT, <2>1, <2>2 DEF NameTells, Computed
<1>6. CASE i \in 41 .. 46
  <2>1. \/ i = 41 \/ i = 42 \/ i = 43 \/ i = 44 \/ i = 45 \/ i = 46
    BY SMT, <1>6
  <2>2. /\ arm_insns[41].name = "bkpt" /\ arm_insns[42].name = "blx"
        /\ arm_insns[43].name = "blx" /\ arm_insns[44].name = "clz"
        /\ arm_insns[45].name = "ldrd" /\ arm_insns[46].name = "strd"
    BY NamesAre
  <2> QED
    BY SMT, <2>1, <2>2 DEF NameTells, Computed
<1>7. CASE i \in 47 .. 54
  <2>1. \/ i = 47 \/ i = 48 \/ i = 49 \/ i = 50 \/ i = 51 \/ i = 52 \/ i = 53 \/ i = 54
    BY SMT, <1>7
  <2>2. /\ arm_insns[47].name = "mcr" /\ arm_insns[48].name = "mrc"
        /\ arm_insns[49].name = "stc" /\ arm_insns[50].name = "ldc"
        /\ arm_insns[51].name = "cdp" /\ arm_insns[52].name = "mcrr"
        /\ arm_insns[53].name = "mrrc" /\ arm_insns[54].name = "pld"
    BY NamesAre
  <2> QED
    BY SMT, <2>1, <2>2 DEF NameTells, Computed
<1>8. CASE i \in 55 .. 58
  <2>1. \/ i = 55 \/ i = 56 \/ i = 57 \/ i = 58
    BY SMT, <1>8
  <2>2. /\ arm_insns[55].name = "qadd" /\ arm_insns[56].name = "qsub"
        /\ arm_insns[57].name = "smul" /\ arm_insns[58].name = "smla"
    BY NamesAre
  <2> QED
    BY SMT, <2>1, <2>2 DEF NameTells, Computed
<1>9. CASE i \in 59 .. 59
  <2>1. \/ i = 59
    BY SMT, <1>9
  <2>2. /\ arm_insns[59].name = "invalid"
    BY NamesAre
  <2> QED
    BY SMT, <2>1, <2>2 DEF NameTells, Computed
<1> QED
  BY SMT, <1>1, <1>2, <1>3, <1>4, <1>5, <1>6, <1>7, <1>8, <1>9

LEMMA OperandsAre ==
    /\ arm_insns[3].operands = <<O("c"), O("j")>>
    /\ arm_insns[4].operands = <<O("c"), O("j")>>
    /\ arm_insns[5].operands = <<O("c"), O("s"), R(16), R(0), R(8)>>
    /\ arm_insns[6].operands = <<O("c"), O("s"), R(16), R(0), R(8), R(12)>>
    /\ arm_insns[7].operands = <<O("u"), O("c"), O("s"), R(12), R(16), R(0), R(8)>>
    /\ arm_insns[8].operands = <<O("u"), O("c"), O("s"), R(12), R(16), R(0), R(8)>>
    /\ arm_insns[15].operands = <<O("c"), O("b"), R(12), O("a")>>
    /\ arm_insns[17].operands = <<O("c"), O("b"), R(12), O("a")>>
    /\ arm_insns[19].operands = <<O("c"), O("b"), R(12), R(0), R(16)>>
    /\ arm_insns[20].operands = <<O("c"), O("B"), R(12), O("A")>>
    /\ arm_insns[22].operands = <<O("c"), O("M"), R(16), O("!"), O("m"), O("^")>>
    /\ arm_insns[24].operands = <<O("c"), O("s"), R(12), R(16), O("o")>>
    /\ arm_insns[25].operands = <<O("c"), O("s"), R(12), R(16), O("o")>>
    /\ arm_insns[26].operands = <<O("c"), O("s"), R(12), R(16), O("o")>>
    /\ arm_insns[27].operands = <<O("c"), O("s"), R(12), R(16), O("o")>>
    /\ arm_insns[28].operands = <<O("c"), O("s"), R(12), R(16), O("o")>>
    /\ arm_insns[29].operands = <<O("c"), O("s"), R(12), R(16), O("o")>>
    /\ arm_insns[30].operands = <<O("c"), O("s"), R(12), R(16), O("o")>>
    /\ arm_insns[31].operands = <<O("c"), O("s"), R(12), R(16), O("o")>>
    /\ arm_insns[36].operands = <<O("c"), O("s"), R(12), R(16), O("o")>>
    /\ arm_insns[38].operands = <<O("c"), O("s"), R(12), O("o")>>
    /\ arm_insns[39].operands = <<O("c"), O("s"), R(12), R(16), O("o")>>
    /\ arm_insns[40].operands = <<O("c"), O("s"), R(12), O("o")>>
    /\ arm_insns[48].operands = <<O("t"), O("p"), X(21), R(12), C(16), C(0), X(5)>>
<1>1. arm_insns[3].operands = <<O("c"), O("j")>>
  BY SMT, Row3Is DEF Row
<1>2. arm_insns[4].operands = <<O("c"), O("j")>>
  BY SMT, Row4Is DEF Row
<1>3. arm_insns[5].operands = <<O("c"), O("s"), R(16), R(0), R(8)>>
  BY SMT, Row5Is DEF Row
<1>4. arm_insns[6].operands = <<O("c"), O("s"), R(16), R(0), R(8), R(12)>>
  BY SMT, Row6Is DEF Row
<1>5. arm_insns[7].operands = <<O("u"), O("c"), O("s"), R(12), R(16), R(0), R(8)>>
  BY SMT, Row7Is DEF Row
<1>6. arm_insns[8].operands = <<O("u"), O("c"), O("s"), R(12), R(16), R(0), R(8)>>
  BY SMT, Row8Is DEF Row
<1>7. arm_insns[15].operands = <<O("c"), O("b"), R(12), O("a")>>
  BY SMT, Row15Is DEF Row
<1>8. arm_insns[17].operands = <<O("c"), O("b"), R(12), O("a")>>
  BY SMT, Row17Is DEF Row
<1>9. arm_insns[19].operands = <<O("c"), O("b"), R(12), R(0), R(16)>>
  BY SMT, Row19Is DEF Row
<1>10. arm_insns[20].operands = <<O("c"), O("B"), R(12), O("A")>>
  BY SMT, Row20Is DEF Row
<1>11. arm_insns[22].operands = <<O("c"), O("M"), R(16), O("!"), O("m"), O("^")>>
  BY SMT, Row22Is DEF Row
<1>12. arm_insns[24].operands = <<O("c"), O("s"), R(12), R(16), O("o")>>
  BY SMT, Row24Is DEF Row, Alu
<1>13. arm_insns[25].operands = <<O("c"), O("s"), R(12), R(16), O("o")>>
  BY SMT, Row25Is DEF Row, Alu
<1>14. arm_insns[26].operands = <<O("c"), O("s"), R(12), R(16), O("o")>>
  BY SMT, Row26Is DEF Row, Alu
<1>15. arm_insns[27].operands = <<O("c"), O("s"), R(12), R(16), O("o")>>
  BY SMT, Row27Is DEF Row, Alu
<1>16. arm_insns[28].operands = <<O("c"), O("s"), R(12), R(16), O("o")>>
  BY SMT, Row28Is DEF Row, Alu
<1>17. arm_insns[29].operands = <<O("c"), O("s"), R(12), R(16), O("o")>>
  BY SMT, Row29Is DEF Row, Alu
<1>18. arm_insns[30].operands = <<O("c"), O("s"), R(12), R(16), O("o")>>
  BY SMT, Row30Is DEF Row, Alu
<1>19. arm_insns[31].operands = <<O("c"), O("s"), R(12), R(16), O("o")>>
  BY SMT, Row31Is DEF Row, Alu
<1>20. arm_insns[36].operands = <<O("c"), O("s"), R(12), R(16), O("o")>>
  BY SMT, Row36Is DEF Row, Alu
<1>21. arm_insns[38].operands = <<O("c"), O("s"), R(12), O("o")>>
  BY SMT, Row38Is DEF Row, MoveRow
<1>22. arm_insns[39].operands = <<O("c"), O("s"), R(12), R(16), O("o")>>
  BY SMT, Row39Is DEF Row, Alu
<1>23. arm_insns[40].operands = <<O("c"), O("s"), R(12), O("o")>>
  BY SMT, Row40Is DEF Row, MoveRow
<1>24. arm_insns[48].operands = <<O("t"), O("p"), X(21), R(12), C(16), C(0), X(5)>>
  BY SMT, Row48Is DEF Row
<1> QED
  BY SMT, <1>1, <1>2, <1>3, <1>4, <1>5, <1>6, <1>7, <1>8, <1>9, <1>10, <1>11, <1>12, <1>13, <1>14, <1>15, <1>16, <1>17, <1>18, <1>19, <1>20, <1>21, <1>22, <1>23, <1>24

LEMMA TextIs ==
    ASSUME NEW m, NEW word, NEW a, NEW i, ListedBy(word, i)
    PROVE  LET t == Textual(m, word, a)
           IN  /\ t.name = arm_insns[i].name
               /\ t.operands = [k \in DOMAIN arm_insns[i].operands |->
                                 Operand(arm_insns[i].operands[k], m, word, a)]
BY DEF Textual, ListedBy

LEMMA RegisterIs ==
    ASSUME NEW m, NEW word, NEW a, NEW n
    PROVE  Operand(R(n), m, word, a) = <<"reg", Field(word, n, 4)>>
BY DEF Operand, R, Reg

LEMMA PcField ==
    ASSUME NEW word, NEW lo, <<"reg", Field(word, lo, 4)>> = <<"reg", 15>>
    PROVE  IsPc(word, lo)
<1> DEFINE S == Slice(word, lo, 4)
<1>1. S \subseteq 0 .. 3
  BY DEF Slice
<1>2. Number(S) = 15
  BY DEF Field
<1> HIDE DEF S
<1>6. Number(S) = (IF 0 \in S THEN 1 ELSE 0) + (IF 1 \in S THEN 2 ELSE 0)
                + (IF 2 \in S THEN 4 ELSE 0) + (IF 3 \in S THEN 8 ELSE 0)
  BY <1>1, NibbleIs
<1>3. 0 \in S /\ 1 \in S /\ 2 \in S /\ 3 \in S
  BY <1>2, <1>6
<1>4. ASSUME NEW i \in 0 .. 3 PROVE i \in S
  <2>1. i = 0 \/ i = 1 \/ i = 2 \/ i = 3
    OBVIOUS
  <2> QED
    BY <1>3, <2>1
<1>5. S = 0 .. 3
  BY <1>1, <1>4
<1> QED
  BY <1>5 DEF S, IsPc

-----------------------------------------------------------------------------
(* What writes the program counter stops *)

LEMMA StopsIfWrites ==
    ASSUME NEW word, NEW a, WritesPc(Class(word), word), Unconditional(word)
    PROVE  PcFlow(word, a).continues = FALSE
<1> DEFINE class == Class(word)
<1>1. class \in {"mul", "umull", "ldr", "mcr", "swp", "ldrh", "ldm", "alu"}
  BY DEF WritesPc
<1> HIDE DEF class
<1>2. CASE class = "alu" /\ KnownResult(word)
  <2>1. PcFlow(word, a) = OrSkipped(word, Goes(FALSE, "dir", FALSE, Located(Result(word))))
    BY <1>2 DEF PcFlow, class
  <2> QED
    BY <2>1 DEF OrSkipped, Goes
<1>3. CASE ~(class = "alu" /\ KnownResult(word))
  <2>1. PcFlow(word, a) = OrSkipped(word, Goes(FALSE, "ind", FALSE, NoAddr))
    BY <1>1, <1>3 DEF PcFlow, class
  <2> QED
    BY <2>1 DEF OrSkipped, Goes
<1> QED
  BY <1>2, <1>3

\* The operation of data processing is not one of the comparisons.
LEMMA ComputesResult ==
    ASSUME NEW word, ~(24 \in word /\ 23 \notin word)
    PROVE  AluOp(word) \notin 8 .. 11
<1> DEFINE S == Slice(word, 21, 4)
<1>1. /\ S \subseteq 0 .. 3 /\ (3 \in S <=> 24 \in word) /\ (2 \in S <=> 23 \in word)
  BY DEF Slice
<1>2. AluOp(word) = Number(S)
  BY DEF AluOp, Field
<1> HIDE DEF S
<1>3. Number(S) = (IF 0 \in S THEN 1 ELSE 0) + (IF 1 \in S THEN 2 ELSE 0)
                + (IF 2 \in S THEN 4 ELSE 0) + (IF 3 \in S THEN 8 ELSE 0)
  BY <1>1, NibbleIs
<1> QED
  BY <1>1, <1>2, <1>3

LEMMA ComputedRows ==
    ASSUME NEW word, NEW i \in {24, 25, 26, 27, 28, 29, 30, 31, 36, 38, 39, 40},
           ListedBy(word, i)
    PROVE  ~(24 \in word /\ 23 \notin word)
BY SMT, Row24, Row25, Row26, Row27, Row28, Row29, Row30, Row31, Row36, Row38, Row39, Row40
   DEF ListedBy

\* The size of a halfword transfer is listed from bits 5 and 6.
LEMMA HalfIs ==
    ASSUME NEW m, NEW word, NEW a, Operand(O("B"), m, word, a)[2] # "?"
    PROVE  5 \in word \/ 6 \in word
<1> DEFINE S == Slice(word, 5, 2)
<1>1. S \subseteq 0 .. 1 /\ (0 \in S => 5 \in word) /\ (1 \in S => 6 \in word)
  BY DEF Slice
<1>2. Operand(O("B"), m, word, a) = <<"B", <<"?", "h", "sb", "sb">>[Number(S) + 1]>>
  BY DEF Operand, O, Field
<1> HIDE DEF S
<1>3. SUFFICES ASSUME 0 \notin S, 1 \notin S PROVE FALSE
  BY <1>1
<1>4. Number(S) = 0
  <2>1. Number(S) = (IF 0 \in S THEN 1 ELSE 0) + (IF 1 \in S THEN 2 ELSE 0)
                  + (IF 2 \in S THEN 4 ELSE 0) + (IF 3 \in S THEN 8 ELSE 0)
    <3>1. S \subseteq 0 .. 3
      BY <1>1
    <3> QED
      BY <3>1, NibbleIs
  <2> QED
    BY <1>1, <1>3, <2>1
<1> QED
  BY <1>2, <1>4

LEMMA RegistersListed ==
    ASSUME NEW m, NEW word, NEW a,
           NEW r \in Operand(O("m"), m, word, a)[2], r[2] = 15
    PROVE  15 \in word
<1>1. Operand(O("m"), m, word, a) = WriteMultireg(Slice(word, 0, 16))
  BY DEF Operand, O
<1>2. r[2] \in Slice(word, 0, 16)
  BY <1>1 DEF WriteMultireg
<1> QED
  BY <1>2 DEF Slice

\* Each of the forms of ListsPc.
LEMMA ListedWriterStops ==
    ASSUME NEW m, NEW word, NEW a, text = Textual(m, word, a), ListsPc, Unconditional(word)
    PROVE  PcFlow(word, a).continues = FALSE
<1> USE DEF Load
<1>1. PICK i \in 1 .. 59 : ListedBy(word, i)
  BY RowOfIs
<1>2. /\ text.name = arm_insns[i].name
      /\ text.operands = [k \in DOMAIN arm_insns[i].operands |->
                              Operand(arm_insns[i].operands[k], m, word, a)]
  BY <1>1, TextIs
<1>3. NameTells(i)
  BY RowsNamed
<1>4. CASE text.name \in Transferred /\ text.operands[3] = <<"reg", 15>>
  <2>1. i \in {15, 17, 19}
    BY <1>2, <1>3, <1>4 DEF NameTells, Transferred
  <2>2. text.operands[3] = Operand(R(12), m, word, a)
    BY SMT, <1>2, <2>1, OperandsAre
  <2>3. IsPc(word, 12)
    BY <1>4, <2>2, RegisterIs, PcField
  <2>4. CASE i = 19
    <3>1. Class(word) = "swp"
      BY <1>1, <2>4, SwpClass
    <3> QED
      BY <2>3, <3>1, StopsIfWrites DEF WritesPc
  <2>5. CASE i \in {15, 17}
    <3>1. Class(word) = "ldr"
      BY <1>1, <2>5, LdrClass
    <3>2. 20 \in word
      BY SMT, <1>1, <2>5, Row15, Row17 DEF ListedBy
    <3> QED
      BY <2>3, <3>1, <3>2, StopsIfWrites DEF WritesPc
  <2> QED
    BY <2>1, <2>4, <2>5
<1>5. CASE text.name \in Computed /\ text.operands[3] = <<"reg", 15>>
  <2>1. i \in {24, 25, 26, 27, 28, 29, 30, 31, 36, 38, 39, 40}
    BY <1>2, <1>3, <1>5 DEF NameTells
  <2>2. text.operands[3] = Operand(R(12), m, word, a)
    BY SMT, <1>2, <2>1, OperandsAre
  <2>3. IsPc(word, 12)
    BY <1>5, <2>2, RegisterIs, PcField
  <2>4. Class(word) = "alu"
    BY <1>1, <2>1, AluClass
  <2>5. AluOp(word) \notin 8 .. 11
    BY <1>1, <2>1, ComputedRows, ComputesResult
  <2> QED
    BY <2>3, <2>4, <2>5, StopsIfWrites DEF WritesPc
<1>6. CASE text.name = "ldrh" /\ text.operands[2][2] # "?" /\ text.operands[3] = <<"reg", 15>>
  <2>1. i = 20
    BY <1>2, <1>3, <1>6 DEF NameTells
  <2>2. text.operands[2] = Operand(O("B"), m, word, a) /\ text.operands[3] = Operand(R(12), m, word, a)
    BY SMT, <1>2, <2>1, OperandsAre
  <2>3. IsPc(word, 12) /\ (5 \in word \/ 6 \in word)
    BY <1>6, <2>2, RegisterIs, PcField, HalfIs
  <2>4. Class(word) = "ldrh"
    BY <1>1, <2>1, LdrhClass
  <2>5. 20 \in word
    BY SMT, <1>1, <2>1, Row20 DEF ListedBy
  <2> QED
    BY <2>3, <2>4, <2>5, StopsIfWrites DEF WritesPc
<1>7. CASE text.name = "ldm" /\ \E r \in text.operands[5][2] : r[2] = 15
  <2>1. i = 22
    BY <1>2, <1>3, <1>7 DEF NameTells
  <2>2. text.operands[5] = Operand(O("m"), m, word, a)
    BY SMT, <1>2, <2>1, OperandsAre
  <2>3. 15 \in word
    BY <1>7, <2>2, RegistersListed
  <2>4. Class(word) = "ldm"
    BY <1>1, <2>1, LdmClass
  <2>5. 20 \in word
    BY SMT, <1>1, <2>1, Row22 DEF ListedBy
  <2> QED
    BY <2>3, <2>4, <2>5, StopsIfWrites DEF WritesPc
<1>8. CASE text.name \in {"mul", "mla"} /\ text.operands[3] = <<"reg", 15>>
  <2>1. i \in {5, 6}
    BY <1>2, <1>3, <1>8 DEF NameTells
  <2>2. text.operands[3] = Operand(R(16), m, word, a)
    BY SMT, <1>2, <2>1, OperandsAre
  <2>3. IsPc(word, 16)
    BY <1>8, <2>2, RegisterIs, PcField
  <2>4. Class(word) = "mul"
    BY <1>1, <2>1, MulClass
  <2> QED
    BY <2>3, <2>4, StopsIfWrites DEF WritesPc
<1>9. CASE text.name \in {"mull", "mlal"} /\ \E j \in 4 .. 5 : text.operands[j] = <<"reg", 15>>
  <2>1. i \in {7, 8}
    BY <1>2, <1>3, <1>9 DEF NameTells
  <2>2. text.operands[4] = Operand(R(12), m, word, a) /\ text.operands[5] = Operand(R(16), m, word, a)
    BY SMT, <1>2, <2>1, OperandsAre
  <2>3. text.operands[4] = <<"reg", 15>> \/ text.operands[5] = <<"reg", 15>>
    <3>1. PICK j \in 4 .. 5 : text.operands[j] = <<"reg", 15>>
      BY <1>9
    <3>2. j = 4 \/ j = 5
      OBVIOUS
    <3> QED
      BY <3>1, <3>2
  <2>4. IsPc(word, 12) \/ IsPc(word, 16)
    BY <2>2, <2>3, RegisterIs, PcField
  <2>5. Class(word) = "umull"
    BY <1>1, <2>1, MullClass
  <2> QED
    BY <2>4, <2>5, StopsIfWrites DEF WritesPc
<1>10. CASE text.name = "bx"
  <2>1. i = 1
    BY <1>2, <1>3, <1>10 DEF NameTells
  <2>2. Class(word) = "bx"
    BY <1>1, <2>1, BxClass
  <2>3. PcFlow(word, a) = OrSkipped(word, Goes(FALSE, "ind", FALSE, NoAddr))
    BY <2>2 DEF PcFlow, WritesPc
  <2> QED
    BY <2>3 DEF OrSkipped, Goes
<1>11. CASE text.name = "mrc" /\ text.operands[4] = <<"reg", 15>>
  <2>1. i = 48
    BY <1>2, <1>3, <1>11 DEF NameTells
  <2>2. text.operands[4] = Operand(R(12), m, word, a)
    BY SMT, <1>2, <2>1, OperandsAre
  <2>3. IsPc(word, 12)
    BY <1>11, <2>2, RegisterIs, PcField
  <2>4. Class(word) = "mcr"
    BY <1>1, <2>1, McrClass
  <2>5. 20 \in word
    BY SMT, <1>1, <2>1, Row48 DEF ListedBy
  <2> QED
    BY <2>3, <2>4, <2>5, StopsIfWrites DEF WritesPc
<1> QED
  BY <1>4, <1>5, <1>6, <1>7, <1>8, <1>9, <1>10, <1>11 DEF ListsPc

-----------------------------------------------------------------------------
(* Where the two decoders agree *)

LEMMA ConditionListed ==
    ASSUME NEW m, NEW word, NEW a, NEW kind \in {"symbol", "address", "immediate", "literal"}
    PROVE  Operand(O("c"), m, word, a) # <<>> => Operand(O("c"), m, word, a)[1] # kind
<1>1. Operand(O("c"), m, word, a) = WriteCond(Field(word, 28, 4))
  BY DEF Operand, O
<1> QED
  BY <1>1 DEF WriteCond

\* Two shifts of the offset of a branch are a multiplication by four.
LEMMA OffsetsAgree ==
    ASSUME NEW word
    PROVE  /\ JumpBytes(Slice(word, 0, 24)) = BranchOffset(word)
           /\ BranchOffset(word) \in Int
<1> DEFINE S == Slice(word, 0, 24)
<1>1. S \subseteq 0 .. 23 /\ (25 - 2 \in S <=> 23 \in word)
  BY DEF Slice
<1>2. JumpBytes(S) = LET n == Number({i + 2 : i \in S}) IN IF 25 - 2 \in S THEN n - 2 ^ 26 ELSE n
  BY DEF JumpBytes
<1>3. BranchOffset(word) = LET n == 4 * Number(S) IN IF 23 \in word THEN n - 2 ^ 26 ELSE n
  BY DEF BranchOffset, Field
<1> HIDE DEF S
<1>4. Number({i + 2 : i \in S}) = 4 * Number(S) /\ Number(S) \in Nat
  BY <1>1, NumberQuadrupled, NumberNat
<1>5. 2 ^ 26 \in Nat
  BY SMT
<1>6. JumpBytes(S) = BranchOffset(word) /\ BranchOffset(word) \in Int
  BY <1>1, <1>2, <1>3, <1>4, <1>5
<1> QED
  BY <1>6 DEF S

LEMMA BranchAgrees ==
    ASSUME NEW m, NEW word, NEW a \in Nat, text = Textual(m, word, a), text.name \in {"b", "bl"}
    PROVE  /\ PcFlow(word, a).loc = "dir"
           /\ PcFlow(word, a).link = (text.name = "bl")
           /\ \A i \in Shown("symbol") \cup Shown("address") :
                 text.operands[i][2] = PcFlow(word, a).target
<1>1. PICK i \in 1 .. 59 : ListedBy(word, i)
  BY RowOfIs
<1>2. /\ text.name = arm_insns[i].name
      /\ text.operands = [k \in DOMAIN arm_insns[i].operands |->
                              Operand(arm_insns[i].operands[k], m, word, a)]
  BY <1>1, TextIs
<1>3. NameTells(i)
  BY RowsNamed
<1>4. i \in {3, 4} /\ (text.name = "bl" <=> i = 4)
  BY <1>2, <1>3 DEF NameTells
<1>5. (24 \in word) = (text.name = "bl")
  <2>1. 24 \in word <=> i = 4
    BY SMT, <1>1, <1>4, Row3, Row4 DEF ListedBy
  <2> QED
    BY <1>4, <2>1
<1>6. Class(word) = "b"
  BY <1>1, <1>4, BranchClass
<1> DEFINE link == 24 \in word
<1>7. PcFlow(word, a) = OrSkipped(word, Goes(link, "dir", link, a + BranchOffset(word) + 8))
  BY <1>6 DEF PcFlow, WritesPc
<1>8. /\ PcFlow(word, a).loc = "dir"
      /\ PcFlow(word, a).link = link
      /\ PcFlow(word, a).target = a + BranchOffset(word) + 8
  BY <1>7 DEF OrSkipped, Goes
<1>9. /\ DOMAIN text.operands = 1 .. 2
      /\ text.operands[1] = Operand(O("c"), m, word, a)
      /\ text.operands[2] = Operand(O("j"), m, word, a)
  BY SMT, <1>2, <1>4, OperandsAre
<1>10. text.operands[2] = WriteJump(word, a + 8)
  BY <1>9 DEF Operand, O
<1>11. ASSUME NEW k \in Shown("symbol") \cup Shown("address")
       PROVE  text.operands[k][2] = PcFlow(word, a).target
  <2>1. /\ k \in 1 .. 2 /\ text.operands[k] # <<>>
        /\ text.operands[k][1] \in {"symbol", "address"}
    BY <1>9, <1>11 DEF Shown
  <2>2. k = 2
    BY <1>9, <2>1, ConditionListed
  <2>3. text.operands[k][2] = (a + 8) + JumpBytes(Slice(word, 0, 24))
    BY <1>10, <2>1, <2>2 DEF WriteJump
  <2> QED
    BY <1>8, <2>3, OffsetsAgree
<1> QED
  BY <1>5, <1>8, <1>11

\* The immediate is rotated by the same number.
LEMMA ImmediatesAgree ==
    ASSUME NEW word
    PROVE  OpB(word) = Immediate(word)
<1> DEFINE S == Slice(word, 8, 4)
           D == Slice(word, 7, 5) \ {0}
<1>1. S \subseteq 0 .. 30 /\ D \subseteq 1 .. 31
  BY DEF Slice
<1>2. ASSUME NEW i \in 0 .. 30
      PROVE  i + 1 \in D <=> i \in S
  BY DEF Slice
<1> HIDE DEF S, D
<1>3. Number(D) = 2 * Number(S)
  BY <1>1, <1>2, NumberDoubled
<1> QED
  BY <1>3 DEF OpB, Immediate, Field, S, D

LEMMA MoveAgrees ==
    ASSUME NEW m, NEW word, NEW a \in Nat, text = Textual(m, word, a), text.name = "mov",
           PcFlow(word, a).loc = "dir", NEW k \in Shown("immediate")
    PROVE  PcFlow(word, a).target = Located(text.operands[k][2])
<1>1. PICK i \in 1 .. 59 : ListedBy(word, i)
  BY RowOfIs
<1>2. /\ text.name = arm_insns[i].name
      /\ text.operands = [j \in DOMAIN arm_insns[i].operands |->
                              Operand(arm_insns[i].operands[j], m, word, a)]
  BY <1>1, TextIs
<1>3. NameTells(i)
  BY RowsNamed
<1>4. i = 38
  BY <1>2, <1>3 DEF NameTells
<1>5. Class(word) = "alu"
  BY <1>1, <1>4, AluClass
<1>6. KnownResult(word) /\ PcFlow(word, a).target = Located(Result(word))
  <2>1. CASE WritesPc("alu", word) /\ KnownResult(word)
    <3>1. PcFlow(word, a) = OrSkipped(word, Goes(FALSE, "dir", FALSE, Located(Result(word))))
      BY <1>5, <2>1 DEF PcFlow
    <3> QED
      BY <2>1, <3>1 DEF OrSkipped, Goes
  <2>2. CASE WritesPc("alu", word) /\ ~KnownResult(word)
    <3>1. PcFlow(word, a) = OrSkipped(word, Goes(FALSE, "ind", FALSE, NoAddr))
      BY <1>5, <2>2 DEF PcFlow
    <3>2. PcFlow(word, a).loc = "ind"
      BY <3>1 DEF OrSkipped, Goes
    <3> QED
      BY <3>2
  <2>3. CASE ~WritesPc("alu", word)
    <3>1. PcFlow(word, a) = Goes(TRUE, "none", FALSE, NoAddr)
      BY <1>5, <2>3 DEF PcFlow
    <3> QED
      BY <3>1 DEF Goes
  <2> QED
    BY <2>1, <2>2, <2>3
<1>7. Result(word) = OpB(word)
  <2> DEFINE S == Slice(word, 21, 4)
  <2>1. 24 \in word /\ 23 \in word /\ 22 \notin word /\ 21 \in word
    BY SMT, <1>1, <1>4, Row38 DEF ListedBy
  <2>2. S \subseteq 0 .. 3 /\ 0 \in S /\ 1 \notin S /\ 2 \in S /\ 3 \in S
    BY <2>1 DEF Slice
  <2>3. AluOp(word) = Number(S)
    BY DEF AluOp, Field
  <2> HIDE DEF S
  <2>4. Number(S) = (IF 0 \in S THEN 1 ELSE 0) + (IF 1 \in S THEN 2 ELSE 0)
                  + (IF 2 \in S THEN 4 ELSE 0) + (IF 3 \in S THEN 8 ELSE 0)
    BY <2>2, NibbleIs
  <2>5. AluOp(word) = 13
    BY <2>2, <2>3, <2>4
  <2> QED
    BY <2>5 DEF Result
<1>8. /\ DOMAIN text.operands = 1 .. 4
      /\ text.operands[1] = Operand(O("c"), m, word, a)
      /\ text.operands[2] = Operand(O("s"), m, word, a)
      /\ text.operands[3] = Operand(R(12), m, word, a)
      /\ text.operands[4] = Operand(O("o"), m, word, a)
  BY SMT, <1>2, <1>4, OperandsAre
<1>9. k \in 1 .. 4 /\ text.operands[k] # <<>> /\ text.operands[k][1] = "immediate"
  BY <1>8 DEF Shown
<1>10. k = 4
  <2>1. text.operands[2] = <<"s", 20 \in word>>
    BY <1>8 DEF Operand, O
  <2>2. text.operands[3] = <<"reg", Field(word, 12, 4)>>
    BY <1>8, RegisterIs
  <2>3. k # 1
    BY <1>8, <1>9, ConditionListed
  <2>4. k # 2
    BY <1>9, <2>1
  <2>5. k # 3
    BY <1>9, <2>2
  <2> QED
    BY <1>9, <2>3, <2>4, <2>5
<1>11. text.operands[4] = WriteImmed(Immediate(word))
  BY <1>6, <1>8 DEF Operand, O, KnownResult
<1>12. text.operands[4][2] = Immediate(word)
  BY <1>11 DEF WriteImmed
<1> QED
  BY <1>6, <1>7, <1>10, <1>12, ImmediatesAgree

\* An address that is listed as the word there.
LEMMA AddressIs ==
    ASSUME NEW m, NEW word, NEW immediate, NEW away, NEW pc \in Nat,
           Address(m, word, immediate, away, pc)[1] = "literal"
    PROVE  LET to == pc + Number(away)
           IN  /\ Address(m, word, immediate, away, pc) = <<"literal", to, Word(m, to)>>
               /\ Valid(to) /\ immediate /\ Field(word, 16, 4) = 15
<1> DEFINE to == pc + Number(away)
           base == Field(word, 16, 4)
           form == [base |-> Reg(base), pre |-> 24 \in word, up |-> 23 \in word,
                    back |-> 21 \in word]
<1>1. Address(m, word, immediate, away, pc) =
        IF base = 15 /\ ~(21 \in word) /\ immediate /\ LoadWord(m, to) # <<>>
        THEN <<"literal", to, LoadWord(m, to)[1]>>
        ELSE <<"memory", form, IF immediate THEN "by" ELSE "register", away>>
  BY DEF Address
<1> HIDE DEF to, base, form
<1>2. /\ base = 15 /\ immediate /\ LoadWord(m, to) # <<>>
      /\ Address(m, word, immediate, away, pc) = <<"literal", to, LoadWord(m, to)[1]>>
  BY <1>1
<1>3. Valid(to) /\ LoadWord(m, to)[1] = Word(m, to)
  BY <1>2 DEF LoadWord
<1> QED
  BY <1>2, <1>3 DEF to, base

\* Every literal that is listed is the word there.
LEMMA LiteralIs ==
    ASSUME NEW m, NEW word, NEW a \in Nat, NEW o,
           Operand(o, m, word, a) # <<>>, Operand(o, m, word, a)[1] = "literal"
    PROVE  \E to \in Nat : Operand(o, m, word, a) = <<"literal", to, Word(m, to)>> /\ Valid(to)
<1> DEFINE e == o[1]
           x == Operand(o, m, word, a)
<1>1. CASE e = "a"
  <2>1. x = Address(m, word, 25 \notin word, Slice(word, 0, 12), a + 8)
    BY <1>1 DEF Operand
  <2>2. a + 8 \in Nat /\ a + 8 + Number(Slice(word, 0, 12)) \in Nat
    BY NumberNat
  <2> QED
    BY <2>1, <2>2, AddressIs
<1>2. CASE e = "A"
  <2> DEFINE away == IF 22 \in word
                       THEN {i + 4 : i \in Slice(word, 8, 4)} \cup Slice(word, 0, 4)
                       ELSE Slice(word, 0, 4)
  <2>1. x = Address(m, word, 22 \in word, away, a + 8)
    BY <1>2 DEF Operand
  <2> HIDE DEF away
  <2>2. a + 8 \in Nat /\ a + 8 + Number(away) \in Nat
    BY NumberNat
  <2> QED
    BY <2>1, <2>2, AddressIs
<1>3. CASE e \in {"b", "d", "l", "^", "!", "s", "u", "B", "i", "k", "p", "x"}
  <2>1. x[1] = e
    BY <1>3 DEF Operand
  <2> QED
    BY <1>3, <2>1
<1>4. CASE e \in {"c", "t"}
  <2>1. x = <<"2">> \/ x = WriteCond(Field(word, 28, 4))
    BY <1>4 DEF Operand
  <2> QED
    BY <2>1 DEF WriteCond
<1>5. CASE e \in {"r", "C"}
  <2>1. x[1] \in {"reg", "c"}
    BY <1>5 DEF Operand, Reg
  <2> QED
    BY <2>1
<1>6. CASE e = "j"
  <2>1. x = WriteJump(word, a + 8)
    BY <1>6 DEF Operand
  <2> QED
    BY <2>1 DEF WriteJump
<1>7. CASE e \in {"m", "M"}
  <2>1. x[1] \in {"regs", "index"}
    BY <1>7 DEF Operand, WriteMultireg, MultIndex
  <2> QED
    BY <2>1
<1>8. CASE e = "o"
  <2>1. x = WriteImmed(Immediate(word)) \/ x = Shifted(word)
    BY <1>8 DEF Operand
  <2>2. WriteImmed(Immediate(word))[1] = "immediate"
    BY DEF WriteImmed
  <2>3. Shifted(word)[1] = "shift"
    BY DEF Shifted
  <2> QED
    BY <2>1, <2>2, <2>3
<1>9. CASE e = "W"
  <2>1. x[1] \in {"w", "t", "b"}
    BY <1>9 DEF Operand, Half
  <2> QED
    BY <2>1
<1>10. CASE e \notin {"a", "A", "b", "d", "l", "^", "!", "s", "u", "B", "i", "k", "p", "x", "c", "t",
                      "r", "C", "j", "m", "M", "o", "W"}
  <2>1. x = <<>>
    BY <1>10 DEF Operand
  <2> QED
    BY <2>1
<1> QED
  BY <1>1, <1>2, <1>3, <1>4, <1>5, <1>6, <1>7, <1>8, <1>9, <1>10

LEMMA LiteralAgrees ==
    ASSUME NEW m, NEW word, NEW a \in Nat, text = Textual(m, word, a),
           text.name \in {"ldr", "ldrt"}, {23, 24} \subseteq word, NEW k \in Shown("literal")
    PROVE  text.operands[k][2] = DataRef(word, a)
<1>1. PICK i \in 1 .. 59 : ListedBy(word, i)
  BY RowOfIs
<1>2. /\ text.name = arm_insns[i].name
      /\ text.operands = [j \in DOMAIN arm_insns[i].operands |->
                              Operand(arm_insns[i].operands[j], m, word, a)]
  BY <1>1, TextIs
<1>3. NameTells(i)
  BY RowsNamed
<1>4. i \in {15, 17}
  BY <1>2, <1>3 DEF NameTells
<1>5. 26 \in word /\ 27 \notin word /\ 20 \in word
  BY SMT, <1>1, <1>4, Row15, Row17 DEF ListedBy
<1>6. /\ DOMAIN text.operands = 1 .. 4
      /\ text.operands[1] = Operand(O("c"), m, word, a)
      /\ text.operands[2] = Operand(O("b"), m, word, a)
      /\ text.operands[3] = Operand(R(12), m, word, a)
      /\ text.operands[4] = Operand(O("a"), m, word, a)
  BY SMT, <1>2, <1>4, OperandsAre
<1>7. k \in 1 .. 4 /\ text.operands[k] # <<>> /\ text.operands[k][1] = "literal"
  BY <1>6 DEF Shown
<1>8. k = 4
  <2>1. text.operands[2] = <<"b", 22 \in word>>
    BY <1>6 DEF Operand, O
  <2>2. text.operands[3] = <<"reg", Field(word, 12, 4)>>
    BY <1>6, RegisterIs
  <2>3. k # 1
    BY <1>6, <1>7, ConditionListed
  <2>4. k # 2
    BY <1>7, <2>1
  <2>5. k # 3
    BY <1>7, <2>2
  <2> QED
    BY <1>7, <2>3, <2>4, <2>5
<1>9. text.operands[4] = Address(m, word, 25 \notin word, Slice(word, 0, 12), a + 8)
  BY <1>6 DEF Operand, O
<1>10. /\ text.operands[4][2] = (a + 8) + Number(Slice(word, 0, 12))
       /\ 25 \notin word /\ Field(word, 16, 4) = 15
  <2> DEFINE to == (a + 8) + Number(Slice(word, 0, 12))
  <2>1. Address(m, word, 25 \notin word, Slice(word, 0, 12), a + 8)[1] = "literal"
    BY <1>7, <1>8, <1>9
  <2>2. a + 8 \in Nat
    OBVIOUS
  <2>3. /\ Address(m, word, 25 \notin word, Slice(word, 0, 12), a + 8)
             = <<"literal", to, Word(m, to)>>
        /\ 25 \notin word /\ Field(word, 16, 4) = 15
    BY <2>1, <2>2, AddressIs
  <2> HIDE DEF to
  <2>4. text.operands[4][2] = to
    BY <1>9, <2>3
  <2> QED
    BY <2>3, <2>4 DEF to
<1>11. IsPc(word, 16)
  BY <1>10, PcField
<1>12. Refers(word)
  BY <1>5, <1>10, <1>11 DEF Refers, Load
<1>13. DataRef(word, a) = a + 8 + Field(word, 0, 12)
  BY <1>12 DEF DataRef
<1> QED
  BY <1>8, <1>10, <1>13 DEF Field

\* Four bytes, in the order of a constant and in the order of a word.
LEMMA BytesAgree ==
    ASSUME NEW m, NEW to \in Int, Valid(to), Valid(to + 3),
           NEW bytes, bytes = BinaryText(m, to, 4)
    PROVE  Word(m, to) = UNION {{8 * (3 - k) + b : b \in bytes[k]} : k \in 0 .. 3}
<1>1. ASSUME NEW k \in 0 .. 3
      PROVE  bytes[k] = Byte(m, to + (3 - k))
  <2>1. bytes[k] = IF Valid(to + (4 - k - 1)) THEN m[to + (4 - k - 1)] ELSE "??"
    BY DEF BinaryText, BytePlace
  <2>2. to + (4 - k - 1) = to + (3 - k)
    OBVIOUS
  <2>3. Valid(to + (3 - k))
    BY ArmAssumption DEF Valid
  <2> QED
    BY <2>1, <2>2, <2>3 DEF Byte
<1> DEFINE Part(k) == {8 * k + i : i \in Byte(m, to + k)}
           Show(k) == {8 * (3 - k) + b : b \in bytes[k]}
<1>2. ASSUME NEW k \in 0 .. 3
      PROVE  Show(k) = Part(3 - k)
  BY <1>1
<1>3. UNION {Show(k) : k \in 0 .. 3} = UNION {Part(k) : k \in 0 .. 3}
  <2> HIDE DEF Show, Part
  <2>1. \A k \in 0 .. 3 : 3 - k \in 0 .. 3 /\ 3 - (3 - k) = k
    OBVIOUS
  <2>2. \A k \in 0 .. 3 : Show(k) = Part(3 - k)
    BY <1>2
  <2>3. \A k \in 0 .. 3 : Show(3 - k) = Part(k)
    BY <2>1, <2>2
  <2>4. {Show(k) : k \in 0 .. 3} = {Part(k) : k \in 0 .. 3}
    BY <2>1, <2>2, <2>3
  <2> QED
    BY <2>4
<1>4. Word(m, to) = UNION {Part(k) : k \in 0 .. 3}
  BY DEF Word
<1> QED
  BY <1>3, <1>4

\* The word that a line lists is the one of a datum at the same address.
LEMMA DataAgrees ==
    ASSUME NEW word, at \in Nat, text = Textual(mem, word, at),
           NEW to, NEW bytes, bytes = BinaryText(mem, to, 4), Valid(to + 3),
           NEW k \in Shown("literal"), text.operands[k][2] = to
    PROVE  text.operands[k][3] = UNION {{8 * (3 - j) + b : b \in bytes[j]} : j \in 0 .. 3}
<1>1. PICK i \in 1 .. 59 : ListedBy(word, i)
  BY RowOfIs
<1>2. text.operands = [j \in DOMAIN arm_insns[i].operands |->
                          Operand(arm_insns[i].operands[j], mem, word, at)]
  BY <1>1, TextIs
<1> DEFINE o == arm_insns[i].operands[k]
<1>3. /\ text.operands[k] = Operand(o, mem, word, at)
      /\ text.operands[k] # <<>> /\ text.operands[k][1] = "literal"
  BY <1>2 DEF Shown
<1> HIDE DEF o
<1>4. PICK a \in Nat : text.operands[k] = <<"literal", a, Word(mem, a)>> /\ Valid(a)
  BY <1>3, LiteralIs
<1>5. a = to /\ text.operands[k][3] = Word(mem, a)
  BY <1>4
<1>6. to \in Int /\ Valid(to)
  BY <1>4, <1>5
<1>7. Word(mem, to) = UNION {{8 * (3 - j) + b : b \in bytes[j]} : j \in 0 .. 3}
  BY <1>6, BytesAgree
<1> QED
  BY <1>5, <1>7

-----------------------------------------------------------------------------
(* What is kept of the bytes *)

\* The instruction, its line and the datum's line are made once and of the same
\* bytes; marking a function's entry is all that changes an instruction later.
ListInv ==
    /\ at \in Nat
    /\ code # Absent => code = [Instruction(code.word, at) EXCEPT !.entry = code.entry]
    /\ text # Absent => code # Absent /\ text = Textual(mem, code.word, at)
    /\ digits # Absent =>
         /\ datum # Absent
         /\ datum.kind = "binary" => digits = BinaryText(mem, datum.addr, datum.len)

\* Of any memory, address and type that the user asks for (Listing's actions).
THEOREM ListInvTheorem == ListSpec => []ListInv
<1>1. ListInit => ListInv
  BY CasesAssumption DEF ListInit, ListInv
<1>2. ListInv /\ [ListNext]_listing => ListInv'
  <2> SUFFICES ASSUME ListInv, [ListNext]_listing
               PROVE  ListInv'
    OBVIOUS
  <2>1. CASE Instantiate
    <3>1. code' = [Instruction(code'.word, at) EXCEPT !.entry = code'.entry]
      BY <2>1 DEF Instantiate, Instruction
    <3> QED
      BY <2>1, <3>1 DEF Instantiate, ListInv
  <2>2. ASSUME NEW fnent \in BOOLEAN, MarkFnEnt(fnent)
        PROVE  ListInv'
    <3>1. /\ code' = [code EXCEPT !.entry = fnent]
          /\ code = [Instruction(code.word, at) EXCEPT !.entry = code.entry]
      BY <2>2 DEF MarkFnEnt, ListInv
    <3>2. code' = [Instruction(code'.word, at) EXCEPT !.entry = code'.entry]
      BY <3>1 DEF Instruction
    <3> QED
      BY <2>2, <3>2 DEF MarkFnEnt, ListInv
  <2>3. CASE CreateDatum
    BY <2>3 DEF CreateDatum, ListInv
  <2>4. CASE DefineBinary
    BY <2>4 DEF DefineBinary, ListInv
  <2>5. CASE DefineString
    BY <2>5 DEF DefineString, ListInv
  <2>6. CASE ShowCode
    BY <2>6 DEF ShowCode, ListInv
  <2>7. CASE ShowDatum
    BY <2>7 DEF ShowDatum, ListInv
  <2>8. CASE UNCHANGED listing
    BY <2>8 DEF listing, ListInv
  <2> QED
    BY <2>1, <2>2, <2>3, <2>4, <2>5, <2>6, <2>7, <2>8 DEF ListNext
<1> QED
  BY <1>1, <1>2, PTL DEF ListSpec

\* The two decoders, and the datum that an instruction refers to, agree in every
\* word, at every address of every memory (dec_op.cpp, disasm.cpp,
\* binaryconstant.cpp).
THEOREM DecodersAgreeTheorem == ListSpec => []DecodersAgree
<1>1. ListInv => DecodersAgree
  <2> SUFFICES ASSUME ListInv, Listed
               PROVE  BranchesAgree /\ MovesAgree /\ LiteralsAgree /\ DataAgree
    BY DEF DecodersAgree
  <2> DEFINE word == code.word
  <2>1. /\ at \in Nat /\ text = Textual(mem, word, at)
        /\ code = [Instruction(word, at) EXCEPT !.entry = code.entry]
    BY DEF ListInv, Listed
  <2>2. code.flow = PcFlow(word, at) /\ code.ref = DataRef(word, at)
    BY <2>1 DEF Instruction
  <2> HIDE DEF word
  <2>3. BranchesAgree
    BY <2>1, <2>2, BranchAgrees DEF BranchesAgree
  <2>4. MovesAgree
    BY <2>1, <2>2, MoveAgrees DEF MovesAgree
  <2>5. LiteralsAgree
    BY <2>1, <2>2, LiteralAgrees DEF LiteralsAgree, word
  <2>6. DataAgree
    <3> SUFFICES ASSUME digits # Absent, datum.kind = "binary", datum.len = 4,
                        Valid(datum.addr + 3),
                        NEW i \in Shown("literal"), text.operands[i][2] = datum.addr
                 PROVE  text.operands[i][3]
                          = UNION {{8 * (3 - k) + b : b \in digits[k]} : k \in 0 .. 3}
      BY DEF DataAgree
    <3>1. digits = BinaryText(mem, datum.addr, 4)
      BY DEF ListInv
    <3> QED
      BY <2>1, <3>1, DataAgrees
  <2> QED
    BY <2>3, <2>4, <2>5, <2>6
<1> QED
  BY <1>1, ListInvTheorem, PTL

\* Whatever is listed as writing the program counter, of all words, is decoded to
\* end the flow where it is always executed (dec_op.cpp, the table).
THEOREM PcWritersStopTheorem == ListSpec => []PcWritersStop
<1>1. ListInv => PcWritersStop
  <2> SUFFICES ASSUME ListInv, Listed, ListsPc, Unconditional(code.word)
               PROVE  ~code.flow.continues
    BY DEF PcWritersStop
  <2>1. /\ text = Textual(mem, code.word, at)
        /\ code = [Instruction(code.word, at) EXCEPT !.entry = code.entry]
    BY DEF ListInv, Listed
  <2>2. code.flow = PcFlow(code.word, at)
    BY <2>1 DEF Instruction
  <2>3. PcFlow(code.word, at).continues = FALSE
    BY <2>1, ListedWriterStops
  <2> QED
    BY <2>2, <2>3
<1> QED
  BY <1>1, ListInvTheorem, PTL
=============================================================================
