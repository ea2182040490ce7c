-------------------------- MODULE GuiUpdateProofs --------------------------
(***************************************************************************)
(* That no change is forgotten but in the known windows, that the index of *)
(* blocks of lines covers every address once, and that in the first        *)
(* segment lines and addresses are inverse to each other, for any          *)
(* segments, any memlocs and any number of changes.                        *)
(***************************************************************************)
EXTENDS GuiUpdate, FiniteSetTheorems, WellFoundedInduction, TLAPS

Flags ==
  /\ dirty \in BOOLEAN
  /\ updated \in BOOLEAN
  /\ unseen \in BOOLEAN
  /\ unmarked \in BOOLEAN
  /\ unposted \in BOOLEAN

(* A change is marked as soon as its notification has run. *)
Marked == unseen => dirty \/ unmarked \/ worker = "inserted"

(* A change is posted as soon as its job has ended. *)
Posted == unseen => updated \/ unposted \/ worker # "idle"

IInv == Flags /\ Marked /\ Posted

(* The inductive invariant holds: between a change and its notification the *)
(* worker is in createMemlocDataAt(), between a change and its post in a    *)
(* job; every step that clears a flag records what it leaves behind.        *)
THEOREM GuiInvariant == Spec => []IInv
<1>1. Init => IInv
  BY DEF Init, IInv, Flags, Marked, Posted
<1>2. IInv /\ [Next]_vars => IInv'
  <2> SUFFICES ASSUME IInv, [Next]_vars PROVE IInv'
    OBVIOUS
  <2> USE DEF IInv, Flags, Marked, Posted, history, project, guiUnchanged, At
  <2>1. CASE WorkerBegin
    BY <2>1 DEF WorkerBegin
  <2>2. ASSUME NEW a \in Places, NEW n \in Lengths, WorkerInsert(a, n) PROVE IInv'
    <3>1. CASE worker' = "inserted"
      BY <2>2, <3>1 DEF WorkerInsert, JobFails
    <3>2. CASE worker' = "idle"
      <4>1. unseen' \in BOOLEAN
        BY <2>2, <3>2 DEF WorkerInsert, JobFails
      <4> QED
        BY <2>2, <3>2, <4>1 DEF WorkerInsert, JobFails
    <3> QED
      BY <2>2, <3>1, <3>2 DEF WorkerInsert, JobFails
  <2>3. CASE WorkerNotify
    <3>1. CASE worker' = "job" /\ Mark /\ UNCHANGED <<updated, unposted, unseen>>
      BY <3>1 DEF Mark
    <3>2. CASE UNCHANGED unseen /\ JobFails
      BY <3>2 DEF JobFails
    <3> QED
      BY <2>3, <3>1, <3>2 DEF WorkerNotify
  <2>4. ASSUME NEW a \in Starts, WorkerAnnounce(a) PROVE IInv'
    BY <2>4 DEF WorkerAnnounce, Mark
  <2>5. CASE WorkerRemove
    BY <2>5 DEF WorkerRemove
  <2>6. CASE WorkerEnd
    BY <2>6 DEF WorkerEnd, Post
  <2>7. ASSUME NEW r \in 0 .. LineCount - 1, Paint(r) \/ Select(r) PROVE IInv'
    BY <2>7 DEF Paint, Select
  <2>8. ASSUME NEW a \in Places, Jump(a) PROVE IInv'
    BY <2>8 DEF Jump
  <2>9. ASSUME NEW n \in Lengths, Define(n) PROVE IInv'
    BY <2>9 DEF Define, Mark, Post
  <2>10. CASE UpdateTimeout
    BY <2>10 DEF UpdateTimeout
  <2>11. CASE UpdateBegin
    BY <2>11 DEF UpdateBegin
  <2>12. CASE UpdateLine
    BY <2>12 DEF UpdateLine
  <2>13. CASE UpdateEnd
    BY <2>13 DEF UpdateEnd
  <2>14. CASE Flush
    BY <2>14 DEF Flush
  <2>15. CASE ClearUpdated
    BY <2>15 DEF ClearUpdated
  <2>16. CASE UNCHANGED vars
    BY <2>16 DEF vars
  <2> QED
    BY <2>1, <2>2, <2>3, <2>4, <2>5, <2>6, <2>7, <2>8, <2>9, <2>10, <2>11, <2>12,
       <2>13, <2>14, <2>15, <2>16 DEF Next, WorkerStep, UserStep, RefreshStep
<1> QED
  BY <1>1, <1>2, PTL DEF Spec

(* Between jobs and refreshes every change the index has not seen is marked *)
(* and posted, but for the windows that unmarked and unposted record.       *)
THEOREM GuiAnnounced == Spec => []ChangesAnnounced
<1>1. IInv => ChangesAnnounced
  BY DEF IInv, Flags, Marked, Posted, ChangesAnnounced
<1> QED
  BY <1>1, GuiInvariant, PTL

-----------------------------------------------------------------------------
(* The index of blocks. *)

(* A set of naturals has a least element. *)
LEMMA LeastNat ==
  ASSUME NEW D, D \subseteq Nat, D # {}
  PROVE  \E d \in D : \A e \in D : d <= e
<1>1. PICK d \in D : \A e \in D : ~(<<e, d>> \in OpToRel(<, Nat))
  BY WFMin, NatLessThanWellFounded
<1>2. ASSUME NEW e \in D PROVE d <= e
  <2>1. d \in Nat /\ e \in Nat
    OBVIOUS
  <2>2. ~(e < d)
    BY <1>1, <2>1 DEF OpToRel
  <2> QED
    BY <2>1, <2>2
<1> QED
  BY <1>2

(* The first entry of a map: by segment, then by offset. *)
LEMMA FirstExists ==
  ASSUME NEW S, S \subseteq Nat \X Nat, S # {}
  PROVE  \E x \in S : \A b \in S : x = b \/ Before(x, b)
<1>1. PICK s \in {a[1] : a \in S} : \A t \in {a[1] : a \in S} : s <= t
  <2>1. {a[1] : a \in S} \subseteq Nat /\ {a[1] : a \in S} # {}
    OBVIOUS
  <2> QED
    BY <2>1, LeastNat
<1>2. PICK o \in {a[2] : a \in {b \in S : b[1] = s}} :
             \A q \in {a[2] : a \in {b \in S : b[1] = s}} : o <= q
  <2>1. {a[2] : a \in {b \in S : b[1] = s}} \subseteq Nat
    OBVIOUS
  <2>2. {a[2] : a \in {b \in S : b[1] = s}} # {}
    BY <1>1
  <2> QED
    BY <2>1, <2>2, LeastNat
<1>3. PICK a \in S : a[1] = s /\ a[2] = o
  BY <1>2
<1>4. ASSUME NEW b \in S PROVE a = b \/ Before(a, b)
  <2>1. a = <<a[1], a[2]>> /\ b = <<b[1], b[2]>> /\ s \in Nat /\ o \in Nat
        /\ b[1] \in Nat /\ b[2] \in Nat
    BY <1>3
  <2>2. s <= b[1]
    BY <1>1
  <2>3. b[1] = s => o <= b[2]
    BY <1>2
  <2> QED
    BY <2>1, <2>2, <2>3, <1>3 DEF Before
<1> QED
  BY <1>4

LEMMA FirstIsEntry ==
  ASSUME NEW S, S \subseteq Nat \X Nat
  PROVE  FirstOf(S) \in S \cup {End}
BY FirstExists DEF FirstOf

LEMMA FirstIsLeast ==
  ASSUME NEW S, S \subseteq Nat \X Nat, NEW e \in S
  PROVE  FirstOf(S) # End /\ (e = FirstOf(S) \/ Before(FirstOf(S), e))
<1>1. S # {}
  OBVIOUS
<1>2. FirstOf(S) \in S /\ \A b \in S : FirstOf(S) = b \/ Before(FirstOf(S), b)
  BY <1>1, FirstExists DEF FirstOf
<1> QED
  BY <1>2, GuiAssumption

LEMMA AddrsAre ==
  /\ \A a : a \in Addrs <=>
       a \in Nat \X Nat /\ a[1] \in Segs /\ a[2] <= SegLen[a[1]]
  /\ \A a : a \in Places <=>
       a \in Nat \X Nat /\ a[1] \in Segs /\ a[2] < SegLen[a[1]]
  /\ Segs = 1 .. Len(SegLen) /\ Len(SegLen) \in Nat
  /\ \A s \in Segs : SegLen[s] \in Nat \ {0}
<1>1. Segs = 1 .. Len(SegLen) /\ Len(SegLen) \in Nat
      /\ \A s \in Segs : SegLen[s] \in Nat \ {0}
  BY GuiAssumption DEF Segs
<1>2. \A a : a \in Addrs <=>
        a \in Nat \X Nat /\ a[1] \in Segs /\ a[2] <= SegLen[a[1]]
  <2>1. ASSUME NEW a \in Addrs
        PROVE  a \in Nat \X Nat /\ a[1] \in Segs /\ a[2] <= SegLen[a[1]]
    <3>1. PICK s \in Segs : a \in {s} \X (0 .. SegLen[s])
      BY DEF Addrs
    <3>2. a[1] = s /\ a[2] \in 0 .. SegLen[s] /\ a = <<a[1], a[2]>>
      BY <3>1
    <3> QED
      BY <3>2, <1>1
  <2>2. ASSUME NEW a \in Nat \X Nat, a[1] \in Segs, a[2] <= SegLen[a[1]]
        PROVE  a \in Addrs
    <3>1. a \in {a[1]} \X (0 .. SegLen[a[1]])
      BY <2>2, <1>1
    <3> QED
      BY <3>1, <2>2 DEF Addrs
  <2> QED
    BY <2>1, <2>2
<1>3. \A a : a \in Places <=>
        a \in Nat \X Nat /\ a[1] \in Segs /\ a[2] < SegLen[a[1]]
  BY <1>1, <1>2 DEF Places, Valid
<1> QED
  BY <1>1, <1>2, <1>3

Blocks == [first : Nat, start : Segs \X Nat, len : Nat \ {0}, lc : Nat \ {0}]

InBlock(a, b) ==
  /\ b.start[1] = a[1]
  /\ b.start[2] <= a[2]
  /\ a[2] < b.start[2] + b.len

(* What lies before f is in one block each, the rest in none. *)
CoveredTo(f) ==
  \A a \in Places :
    IF Before(a, f)
    THEN \E i \in DOMAIN index : \A j \in DOMAIN index : InBlock(a, index[j]) <=> j = i
    ELSE \A j \in DOMAIN index : ~InBlock(a, index[j])

AllEnd == <<Len(SegLen) + 1, 0>>

(* The walk has put into blocks what lies before this. *)
Frontier == IF cins = NoBlock THEN memind ELSE cins.start

Chained ==
  \A i \in DOMAIN index :
    index[i].first = IF i = 1 THEN 0 ELSE index[i - 1].first + index[i - 1].lc

(* The block that is being built ends where the walk is. *)
OpenBlock ==
  cins # NoBlock => /\ cins \in Blocks
                    /\ cins.first = LineCount
                    /\ cins.start[1] = memind[1]
                    /\ cins.start[2] + cins.len = memind[2]

Walking == gui = "scan" => memind \in Places /\ OpenBlock /\ CoveredTo(Frontier)

Walked ==
  /\ gui = "clean" => CoveredTo(AllEnd)
  /\ gui \notin {"scan", "clean"} /\ index # <<>> => CoveredTo(AllEnd)

BlocksInv == index \in Seq(Blocks) /\ Chained /\ Walking /\ Walked

Phases == {"idle", "update", "scan", "clean", "flush", "listened", "aborted", "exited"}

(* The memlocs and what the threads remember of them are addresses of the   *)
(* program, whatever the walk's iterator has become.                        *)
Typed ==
  /\ memlocs \in [Starts -> Lengths]
  /\ Starts \subseteq Addrs
  /\ worker \in {"idle", "job", "inserted", "announced"}
  /\ removing \in Addrs \cup {NoAddr}
  /\ worker = "announced" => removing \in Addrs
  /\ changes \in 0 .. MaxChanges
  /\ gui \in Phases
  /\ li \in Addrs \cup {End, Dangling}

LEMMA LineCountNat ==
  ASSUME index \in Seq(Blocks)
  PROVE  LineCount \in Nat
<1>1. CASE index = <<>>
  BY <1>1 DEF LineCount
<1>2. CASE index # <<>>
  <2>1. Len(index) \in DOMAIN index
    BY <1>2
  <2>2. index[Len(index)] \in Blocks
    BY <2>1
  <2> QED
    BY <1>2, <2>2 DEF LineCount, Blocks
<1> QED
  BY <1>1, <1>2

(* Entries that leave or enter the map keep it one of addresses. *)
LEMMA WithoutTyped ==
  ASSUME Typed, NEW S
  PROVE  /\ Without(S) \in [DOMAIN Without(S) -> Lengths]
         /\ DOMAIN Without(S) \subseteq Addrs
BY DEF Typed, Without, Restrict, Starts

LEMMA InsertedTyped ==
  ASSUME Typed, NEW a \in Addrs, NEW n \in Lengths
  PROVE  /\ Inserted(a, n) \in [DOMAIN Inserted(a, n) -> Lengths]
         /\ DOMAIN Inserted(a, n) \subseteq Addrs
<1> DEFINE m == Without(Erased(a, n))
<1>1. m \in [DOMAIN m -> Lengths] /\ DOMAIN m \subseteq Addrs
  BY WithoutTyped
<1>2. Inserted(a, n) = [b \in DOMAIN m \cup {a} |-> IF b = a THEN n ELSE m[b]]
  BY DEF Inserted
<1> HIDE DEF m
<1>3. \A b \in DOMAIN m : m[b] \in Lengths
  BY <1>1
<1> QED
  BY <1>1, <1>2, <1>3

LEMMA IteratorTyped ==
  ASSUME Typed, NEW S
  PROVE  IteratorWithout(S) \in Addrs \cup {End, Dangling}
BY DEF Typed, IteratorWithout

(* The walk's next entry, and how far a line reaches. *)
LEMMA WalkSteps ==
  ASSUME Typed, memind \in Places, NEW p \in Positions, NEW n \in Steps(p)
  PROVE  p \in Addrs \cup {End, Dangling} /\ n \in Nat \ {0}
<1>0. Addrs \subseteq Nat \X Nat /\ Places \subseteq Addrs /\ Starts \subseteq Addrs
  BY AddrsAre DEF Typed, Places
<1>1. p \in Starts \cup {End, Dangling}
  <2>1. CASE li = Dangling
    BY <2>1 DEF Positions
  <2>2. CASE li # Dangling
    <3> DEFINE S == {e \in Starts : /\ li # End
                                    /\ e = li \/ Before(li, e)
                                    /\ e[1] = memind[1] /\ e[2] >= memind[2]}
    <3>1. p = FirstOf(S)
      BY <2>2 DEF Positions, Advanced
    <3>2. S \subseteq Nat \X Nat /\ S \subseteq Starts
      BY <1>0
    <3> HIDE DEF S
    <3> QED
      BY <3>1, <3>2, FirstIsEntry
  <2> QED
    BY <2>1, <2>2
<1>2. n \in Nat \ {0}
  <2>1. CASE p = Dangling
    <3>1. n \in Lengths \cup {1}
      BY <2>1 DEF Steps
    <3> QED
      BY <3>1, GuiAssumption
  <2>2. CASE p # Dangling /\ p = memind
    <3>1. p # End
      BY <2>2, <1>0, GuiAssumption
    <3>2. p \in Starts
      BY <3>1, <2>2, <1>1
    <3>3. n = memlocs[p]
      BY <2>2 DEF Steps
    <3>4. memlocs[p] \in Lengths
      BY <3>2 DEF Typed
    <3> QED
      BY <3>3, <3>4, GuiAssumption
  <2>3. CASE p # Dangling /\ p # memind
    BY <2>3 DEF Steps
  <2> QED
    BY <2>1, <2>2, <2>3
<1> QED
  BY <1>0, <1>1, <1>2

(* Induction over a set of naturals. *)
LEMMA AllNat ==
  ASSUME NEW S, 0 \in S, \A n \in Nat : n \in S => n + 1 \in S
  PROVE  Nat \subseteq S
<1> SUFFICES ASSUME Nat \ S # {} PROVE FALSE
  OBVIOUS
<1>1. PICK d \in Nat \ S : \A e \in Nat \ S : d <= e
  BY LeastNat
<1>2. d # 0 /\ d - 1 \in Nat /\ d - 1 \notin Nat \ S
  BY <1>1
<1>3. (d - 1) + 1 \in S
  BY <1>2
<1> QED
  BY <1>1, <1>3

(* One line further is further in the same segment. *)
LEMMA NextLineMoves ==
  ASSUME Typed, NEW a \in Segs \X Nat
  PROVE  /\ NextLine(a) \in Segs \X Nat
         /\ NextLine(a)[1] = a[1]
         /\ NextLine(a)[2] >= a[2] + 1
<1> DEFINE n == IF a \in Starts THEN memlocs[a] ELSE 1
<1>1. n \in Nat \ {0}
  <2>1. ASSUME NEW b \in Starts PROVE memlocs[b] \in Nat \ {0}
    BY GuiAssumption DEF Typed
  <2> QED
    BY <2>1
<1>2. NextLine(a) = <<a[1], a[2] + n>>
  BY DEF NextLine, Plus
<1> HIDE DEF n
<1> QED
  BY <1>1, <1>2

(* The loops of getLineAddr() and getLineAtAddr(), turn by turn. *)
LEMMA ForwardRuns ==
  ASSUME NEW a, NEW n \in Nat
  PROVE  \E go : /\ Forward(a, n) = go[n]
                 /\ \A i \in 0 .. n : go[i] = IF i = 0 THEN a ELSE NextLine(go[i - 1])
<1> DEFINE Run(f, k) ==
      f = [i \in 0 .. k |-> IF i = 0 THEN a ELSE NextLine(f[i - 1])]
           Runs == {k \in Nat : \E f : Run(f, k)}
<1>1. 0 \in Runs
  <2>1. Run([i \in 0 .. 0 |-> a], 0)
    OBVIOUS
  <2> QED
    BY <2>1
<1>2. ASSUME NEW k \in Nat, k \in Runs PROVE k + 1 \in Runs
  <2>1. PICK f : Run(f, k)
    BY <1>2
  <2> DEFINE g == [i \in 0 .. k + 1 |-> IF i = k + 1 THEN NextLine(f[k]) ELSE f[i]]
  <2>2. \A i \in 0 .. k : f[i] = IF i = 0 THEN a ELSE NextLine(f[i - 1])
    BY <2>1
  <2>3. \A i \in 0 .. k : g[i] = f[i]
    OBVIOUS
  <2>4. ASSUME NEW i \in 0 .. k + 1
        PROVE  g[i] = IF i = 0 THEN a ELSE NextLine(g[i - 1])
    <3>1. CASE i = k + 1
      <4>1. g[i] = NextLine(f[k]) /\ i - 1 = k /\ i # 0 /\ k \in 0 .. k
        BY <3>1
      <4> HIDE DEF g
      <4> QED
        BY <4>1, <2>3
    <3>2. CASE i \in 0 .. k
      <4>1. i # 0 => i - 1 \in 0 .. k
        BY <3>2
      <4> HIDE DEF g
      <4> QED
        BY <3>2, <4>1, <2>2, <2>3
    <3> QED
      BY <3>1, <3>2
  <2>5. DOMAIN g = 0 .. k + 1 /\ g = [i \in 0 .. k + 1 |-> g[i]]
    OBVIOUS
  <2>6. Run(g, k + 1)
    <3> HIDE DEF g
    <3> QED
      BY <2>4, <2>5
  <2>7. \E h : Run(h, k + 1)
    <3> HIDE DEF g, Run
    <3> QED
      BY <2>6
  <2> QED
    BY <2>7
<1>3. \E f : Run(f, n)
  <2> HIDE DEF Runs
  <2>1. Nat \subseteq Runs
    BY <1>1, <1>2, AllNat
  <2> QED
    BY <2>1 DEF Runs
<1> DEFINE go == CHOOSE f : Run(f, n)
<1>4. Run(go, n)
  BY <1>3
<1>5. Forward(a, n) = go[n]
  BY DEF Forward
<1> HIDE DEF go
<1>6. \A i \in 0 .. n : go[i] = IF i = 0 THEN a ELSE NextLine(go[i - 1])
  BY <1>4
<1> QED
  BY <1>5, <1>6

(* Line after line: n lines further is at least n bytes further. *)
LEMMA ForwardMoves ==
  ASSUME Typed, NEW a \in Segs \X Nat, NEW n \in Nat
  PROVE  /\ Forward(a, n) \in Segs \X Nat
         /\ Forward(a, n)[1] = a[1]
         /\ Forward(a, n)[2] >= a[2] + n
<1>1. PICK go : /\ Forward(a, n) = go[n]
                /\ \A i \in 0 .. n : go[i] = IF i = 0 THEN a ELSE NextLine(go[i - 1])
  BY ForwardRuns
<1> DEFINE Moved == {k \in Nat : k <= n => /\ go[k] \in Segs \X Nat
                                          /\ go[k][1] = a[1]
                                          /\ go[k][2] >= a[2] + k}
<1>2. 0 \in Moved
  BY <1>1
<1>3. ASSUME NEW k \in Nat, k \in Moved PROVE k + 1 \in Moved
  <2> SUFFICES ASSUME k + 1 <= n
               PROVE  /\ go[k + 1] \in Segs \X Nat
                      /\ go[k + 1][1] = a[1]
                      /\ go[k + 1][2] >= a[2] + (k + 1)
    OBVIOUS
  <2>1. go[k] \in Segs \X Nat /\ go[k][1] = a[1] /\ go[k][2] >= a[2] + k
    BY <1>3
  <2>2. k + 1 \in 0 .. n /\ (k + 1) - 1 = k /\ k + 1 # 0
    OBVIOUS
  <2>3. go[k + 1] = NextLine(go[k])
    BY <2>2, <1>1
  <2>4. /\ go[k + 1] \in Segs \X Nat
        /\ go[k + 1][1] = go[k][1]
        /\ go[k + 1][2] >= go[k][2] + 1
    BY <2>1, <2>3, NextLineMoves
  <2> QED
    BY <2>1, <2>4
<1>4. n \in Moved
  <2> HIDE DEF Moved
  <2>1. Nat \subseteq Moved
    BY <1>2, <1>3, AllNat
  <2> QED
    BY <2>1
<1> QED
  BY <1>1, <1>4

(* Every line that exists is in a block. *)
LEMMA LineHasBlock ==
  ASSUME index \in Seq(Blocks), Chained, NEW line \in Nat, line < LineCount
  PROVE  \E b \in Range(index) : b.first <= line /\ line < b.first + b.lc
<1> DEFINE D == {i \in DOMAIN index : line < index[i].first + index[i].lc}
<1>1. index # <<>> /\ Len(index) \in D
  BY DEF LineCount
<1>2. PICK i \in D : \A j \in D : i <= j
  <2>1. D \subseteq Nat
    OBVIOUS
  <2> HIDE DEF D
  <2> QED
    BY <1>1, <2>1, LeastNat
<1>3. index[i].first <= line
  <2>1. CASE i = 1
    BY <2>1, SMTT(60) DEF Chained
  <2>2. CASE i # 1
    <3>1. i - 1 \in DOMAIN index /\ i - 1 \notin D
      BY <2>2, <1>2
    <3>2. index[i - 1] \in Blocks
      BY <3>1
    <3>3. index[i].first = index[i - 1].first + index[i - 1].lc
      BY <2>2 DEF Chained
    <3> QED
      BY <3>1, <3>2, <3>3 DEF Blocks
  <2> QED
    BY <2>1, <2>2
<1> QED
  BY <1>2, <1>3 DEF Range

(* The rows that are selected and the lines that are remembered.            *)
Looks ==
  /\ row \in Nat \cup {-1}
  /\ kept = NoAddr \/ kept \in Segs \X Nat
  /\ cache # NoCache => /\ cache.line \in Nat
                        /\ cache.line < LineCount
                        /\ cache.addr \in Segs \X Nat
  /\ gui \in {"scan", "clean"} => cache = NoCache

(* getLineAddr() gets an address of a segment, also from the line it        *)
(* remembers.                                                               *)
LEMMA LineAddrTyped ==
  ASSUME Typed, index \in Seq(Blocks), Chained, Looks,
         NEW line \in Nat, line < LineCount
  PROVE  LineAddr(line) \in Segs \X Nat
<1> DEFINE b == CHOOSE x \in Range(index) : x.first <= line /\ line < x.first + x.lc
           k == Max({0, line - cache.line})
<1>1. b \in Range(index) /\ b.first <= line
  BY LineHasBlock
<1> HIDE DEF b
<1>2. b \in Blocks
  BY <1>1 DEF Range
<1>3. CASE CachedBefore(b, line)
  <2>1. cache.line \in Nat /\ cache.addr \in Segs \X Nat
    BY <1>3 DEF CachedBefore, Looks
  <2>2. k \in Nat
    <3>1. \E x \in {0, line - cache.line} : \A y \in {0, line - cache.line} : x >= y
      BY <2>1
    <3>2. k = CHOOSE x \in {0, line - cache.line} : \A y \in {0, line - cache.line} : x >= y
      BY DEF Max
    <3>3. k \in {0, line - cache.line} /\ k >= 0
      BY <3>1, <3>2
    <3> QED
      BY <2>1, <3>3
  <2> HIDE DEF k
  <2>3. Forward(cache.addr, k) \in Segs \X Nat
    BY <2>1, <2>2, ForwardMoves
  <2>4. LineAddr(line) = Forward(cache.addr, k)
    BY <1>3 DEF LineAddr, b, k
  <2> QED
    BY <2>3, <2>4
<1>4. CASE ~CachedBefore(b, line)
  <2>1. line - b.first \in Nat /\ b.start \in Segs \X Nat
    BY <1>1, <1>2 DEF Blocks
  <2>2. Forward(b.start, line - b.first) \in Segs \X Nat
    BY <2>1, ForwardMoves
  <2>3. LineAddr(line) = Forward(b.start, line - b.first)
    BY <1>4 DEF LineAddr, b
  <2> QED
    BY <2>2, <2>3
<1> QED
  BY <1>3, <1>4

(* getLineAtAddr() reaches the address within the block that covers it.     *)
LEMMA LineAtAddrTyped ==
  ASSUME Typed, index \in Seq(Blocks), NEW a \in Segs \X Nat
  PROVE  LineAtAddr(a) \in Nat \cup {-1}
<1> DEFINE bs == {b \in Range(index) : /\ b.start[1] = a[1]
                                       /\ b.start[2] <= a[2]
                                       /\ a[2] < b.start[2] + b.len}
           c == CHOOSE x \in bs : TRUE
           D == {n \in 0 .. c.len : Forward(c.start, n)[2] >= a[2]}
<1>1. CASE bs = {}
  BY <1>1 DEF LineAtAddr
<1>2. CASE bs # {}
  <2>1. c \in bs
    BY <1>2
  <2>2. LineAtAddr(a) = c.first + Min(D)
    BY <1>2 DEF LineAtAddr
  <2> HIDE DEF c
  <2>3. c \in Blocks /\ a[2] < c.start[2] + c.len
    BY <2>1 DEF Range
  <2>4. D \subseteq Nat /\ D # {}
    <3>1. c.start \in Segs \X Nat /\ c.len \in Nat /\ c.start[2] \in Nat
      BY <2>3 DEF Blocks
    <3>2. /\ Forward(c.start, c.len)[2] >= c.start[2] + c.len
          /\ Forward(c.start, c.len) \in Segs \X Nat
      BY <3>1, ForwardMoves
    <3>3. Forward(c.start, c.len)[2] >= a[2]
      BY <3>1, <3>2, <2>3
    <3>4. c.len \in D
      BY <3>1, <3>3
    <3> QED
      BY <3>1, <3>4
  <2>5. Min(D) \in Nat
    <3> HIDE DEF D
    <3>1. \E d \in D : \A e \in D : d <= e
      BY <2>4, LeastNat
    <3> QED
      BY <2>4, <3>1 DEF Min
  <2> HIDE DEF D
  <2> QED
    BY <2>2, <2>3, <2>5 DEF Blocks
<1> QED
  BY <1>1, <1>2

GuiInv == Typed /\ BlocksInv /\ Looks

(* The row that is looked up is a line or none.                             *)
LEMMA RowAddr ==
  ASSUME GuiInv, RowExists, row # -1
  PROVE  row \in Nat /\ row < LineCount /\ LineAddr(row) \in Segs \X Nat
<1>1. row \in Nat /\ row < LineCount
  BY DEF GuiInv, Looks, RowExists
<1> QED
  BY <1>1, LineAddrTyped DEF GuiInv, BlocksInv

(* Types of each step.                                                      *)
LEMMA TypedStep == ASSUME GuiInv, [Next]_vars PROVE Typed'
<1>0. Typed /\ Places \subseteq Addrs
  BY DEF GuiInv, Places
<1> USE <1>0 DEF Typed, At, Running, Phases
<1>1. CASE WorkerBegin
  BY <1>1 DEF WorkerBegin, guiUnchanged, Starts
<1>2. ASSUME NEW a \in Places, NEW n \in Lengths, WorkerInsert(a, n) PROVE Typed'
  <2>1. a \in Addrs
    OBVIOUS
  <2>2. li' \in Addrs \cup {End, Dangling}
    BY <1>2, IteratorTyped DEF WorkerInsert
  <2>3. worker' \in {"inserted", "idle"} /\ UNCHANGED <<removing, gui>>
    BY <1>2 DEF WorkerInsert, JobFails, guiUnchanged
  <2>4. changes' \in 0 .. MaxChanges
    BY <1>2, GuiAssumption DEF WorkerInsert, Change
  <2>5. memlocs' \in [Starts' -> Lengths] /\ Starts' \subseteq Addrs
    <3>1. CASE memlocs' = Inserted(a, n)
      BY <3>1, <2>1, InsertedTyped DEF Starts
    <3>2. CASE memlocs' = Without(Erased(a, n))
      BY <3>2, WithoutTyped DEF Starts
    <3> QED
      BY <1>2, <3>1, <3>2 DEF WorkerInsert
  <2> QED
    BY <2>2, <2>3, <2>4, <2>5
<1>3. CASE WorkerNotify
  BY <1>3 DEF WorkerNotify, JobFails, guiUnchanged, Starts
<1>4. ASSUME NEW a \in Starts, WorkerAnnounce(a) PROVE Typed'
  <2>1. changes' \in 0 .. MaxChanges
    BY <1>4, GuiAssumption DEF WorkerAnnounce, Change
  <2> QED
    BY <1>4, <2>1 DEF WorkerAnnounce, guiUnchanged, Starts
<1>5. CASE WorkerRemove
  <2>1. li' \in Addrs \cup {End, Dangling}
    BY <1>5, IteratorTyped DEF WorkerRemove
  <2>2. memlocs' \in [Starts' -> Lengths] /\ Starts' \subseteq Addrs
    BY <1>5, WithoutTyped DEF WorkerRemove, Starts
  <2> QED
    BY <1>5, <2>1, <2>2 DEF WorkerRemove, guiUnchanged
<1>6. CASE WorkerEnd
  BY <1>6 DEF WorkerEnd, guiUnchanged, Starts
<1>7. ASSUME NEW r \in 0 .. LineCount - 1, Paint(r) \/ Select(r) PROVE Typed'
  BY <1>7 DEF Paint, Select, project, walk, Starts
<1>8. ASSUME NEW a \in Places, Jump(a) PROVE Typed'
  <2>1. UNCHANGED <<project, walk>> /\ gui' \in {gui, "aborted"}
    BY <1>8 DEF Jump, Abort
  <2> QED
    BY <2>1 DEF project, walk, Starts
<1>9. ASSUME NEW n \in Lengths, Define(n) PROVE Typed'
  <2> DEFINE a == LineAddr(row)
  <2>1. CASE UNCHANGED project
    <3>1. gui' \in {gui, "aborted"} /\ UNCHANGED walk
      BY <1>9, <2>1 DEF Define, Abort, Change, project
    <3> QED
      BY <2>1, <3>1 DEF project, walk, Starts
  <2>2. CASE ~UNCHANGED project
    <3>1. /\ RowExists /\ row # -1 /\ Valid(a) /\ Change
          /\ UNCHANGED <<worker, removing, walk>>
          /\ gui' \in {gui, "exited"}
          /\ memlocs' \in {Inserted(a, n), Without(Erased(a, n))}
      BY <1>9, <2>2 DEF Define
    <3>2. a \in Addrs
      <4>1. a \in Segs \X Nat
        BY <3>1, RowAddr
      <4>2. a[2] < SegLen[a[1]] /\ SegLen[a[1]] \in Nat
        BY <3>1, <4>1, AddrsAre DEF Valid
      <4> HIDE DEF a
      <4> QED
        BY <4>1, <4>2, AddrsAre
    <3>3. memlocs' \in [Starts' -> Lengths] /\ Starts' \subseteq Addrs
      <4> HIDE DEF a
      <4>1. CASE memlocs' = Inserted(a, n)
        BY <4>1, <3>2, InsertedTyped DEF Starts
      <4>2. CASE memlocs' = Without(Erased(a, n))
        BY <4>2, WithoutTyped DEF Starts
      <4> QED
        BY <3>1, <4>1, <4>2
    <3>4. changes' \in 0 .. MaxChanges
      BY <3>1, GuiAssumption DEF Change
    <3> QED
      BY <3>1, <3>3, <3>4 DEF walk
  <2> QED
    BY <2>1, <2>2
<1>10. CASE UpdateTimeout
  BY <1>10 DEF UpdateTimeout, Abort, project, walk, Starts
<1>11. CASE UpdateBegin
  <2>1. li' \in Addrs \cup {End, Dangling}
    <3>1. FirstOf(Starts) \in Starts \cup {End}
      BY FirstIsEntry, AddrsAre
    <3> QED
      BY <1>11, <3>1 DEF UpdateBegin, walk
  <2>2. UNCHANGED project /\ gui' \in {"scan", "clean", "flush"}
    BY <1>11 DEF UpdateBegin
  <2> QED
    BY <2>1, <2>2 DEF project, Starts
<1>12. CASE UpdateLine
  <2>1. memind \in Places
    BY <1>12 DEF UpdateLine, GuiInv, BlocksInv, Walking
  <2>2. li' \in Addrs \cup {End, Dangling}
    <3>1. PICK p \in Positions : \E n \in Steps(p) : li' = p
      BY <1>12 DEF UpdateLine
    <3> QED
      BY <2>1, <3>1, WalkSteps
  <2>3. UNCHANGED project /\ gui' \in {"scan", "clean"}
    BY <1>12 DEF UpdateLine
  <2> QED
    BY <2>2, <2>3 DEF project, Starts
<1>13. CASE UpdateEnd
  BY <1>13 DEF UpdateEnd, project, Starts
<1>14. CASE Flush
  BY <1>14 DEF Flush, project, walk, Starts
<1>15. CASE ClearUpdated
  BY <1>15 DEF ClearUpdated, project, walk, Starts
<1>16. CASE UNCHANGED vars
  BY <1>16 DEF vars, project, walk, Starts
<1> QED
  BY <1>1, <1>2, <1>3, <1>4, <1>5, <1>6, <1>7, <1>8, <1>9, <1>10, <1>11, <1>12,
     <1>13, <1>14, <1>15, <1>16 DEF Next, WorkerStep, UserStep, RefreshStep

(* The walk and the end of the refresh are the only steps of the index.     *)
Rebuild == UpdateBegin \/ UpdateLine \/ UpdateEnd

LEMMA OthersLeaveIndex ==
  ASSUME Next, ~Rebuild
  PROVE  /\ UNCHANGED <<index, memind, cins>>
         /\ \/ gui' = gui
            \/ gui \notin {"scan", "clean"} /\ gui' \notin {"scan", "clean"}
<1>1. CASE WorkerStep
  BY <1>1 DEF WorkerStep, WorkerBegin, WorkerInsert, WorkerNotify, WorkerAnnounce,
              WorkerRemove, WorkerEnd, guiUnchanged
<1>2. CASE UserStep
  BY <1>2 DEF UserStep, Paint, Select, Jump, Define, Abort, walk
<1>3. CASE RefreshStep
  BY <1>3 DEF RefreshStep, Rebuild, UpdateTimeout, Flush, ClearUpdated, Abort, walk
<1> QED
  BY <1>1, <1>2, <1>3 DEF Next

(* A block of the index ends where the next one begins.                     *)
LEMMA AppendChains ==
  ASSUME index \in Seq(Blocks), Chained, NEW b \in Blocks, b.first = LineCount,
         index' = Append(index, b)
  PROVE  index' \in Seq(Blocks) /\ Chained'
<1>1. index' \in Seq(Blocks) /\ DOMAIN index' = 1 .. Len(index) + 1
      /\ Len(index) \in Nat /\ DOMAIN index = 1 .. Len(index)
  OBVIOUS
<1>2. \A i \in DOMAIN index : index'[i] = index[i]
  OBVIOUS
<1>3. index'[Len(index) + 1] = b
  OBVIOUS
<1>4. ASSUME NEW i \in DOMAIN index'
      PROVE  index'[i].first = IF i = 1 THEN 0 ELSE index'[i - 1].first + index'[i - 1].lc
  <2>1. CASE i \in DOMAIN index
    <3>1. i # 1 => i - 1 \in DOMAIN index
      BY <2>1, <1>1
    <3> QED
      BY <2>1, <3>1, <1>2 DEF Chained
  <2>2. CASE i = Len(index) + 1
    <3>1. CASE index = <<>>
      <4>1. i = 1 /\ LineCount = 0
        BY <2>2, <3>1 DEF LineCount
      <4> QED
        BY <4>1, <2>2, <1>3
    <3>2. CASE index # <<>>
      <4>1. i # 1 /\ i - 1 = Len(index) /\ Len(index) \in DOMAIN index
        BY <2>2, <3>2, <1>1
      <4>2. LineCount = index[Len(index)].first + index[Len(index)].lc
        BY <3>2 DEF LineCount
      <4> QED
        BY <4>1, <4>2, <2>2, <1>2, <1>3
    <3> QED
      BY <3>1, <3>2
  <2> QED
    BY <2>1, <2>2, <1>1
<1> QED
  BY <1>1, <1>4 DEF Chained

(* A block that begins where the others end extends what they cover.        *)
LEMMA AppendCovers ==
  ASSUME index \in Seq(Blocks), NEW b \in Blocks, index' = Append(index, b),
         NEW f, NEW g, CoveredTo(f),
         \A a \in Places : Before(a, g) <=> Before(a, f) \/ InBlock(a, b),
         \A a \in Places : ~(Before(a, f) /\ InBlock(a, b))
  PROVE  \A a \in Places :
           IF Before(a, g)
           THEN \E i \in DOMAIN index' :
                  \A j \in DOMAIN index' : InBlock(a, index'[j]) <=> j = i
           ELSE \A j \in DOMAIN index' : ~InBlock(a, index'[j])
<1>1. /\ DOMAIN index' = DOMAIN index \cup {Len(index) + 1}
      /\ Len(index) + 1 \notin DOMAIN index
  OBVIOUS
<1>2. \A i \in DOMAIN index : index'[i] = index[i]
  OBVIOUS
<1>3. index'[Len(index) + 1] = b
  OBVIOUS
<1> SUFFICES ASSUME NEW a \in Places
             PROVE  IF Before(a, g)
                    THEN \E i \in DOMAIN index' :
                           \A j \in DOMAIN index' : InBlock(a, index'[j]) <=> j = i
                    ELSE \A j \in DOMAIN index' : ~InBlock(a, index'[j])
  OBVIOUS
<1>4. CASE Before(a, f)
  <2>1. Before(a, g) /\ ~InBlock(a, b)
    BY <1>4
  <2>2. PICK i \in DOMAIN index : \A j \in DOMAIN index : InBlock(a, index[j]) <=> j = i
    BY <1>4 DEF CoveredTo
  <2>3. \A j \in DOMAIN index' : InBlock(a, index'[j]) <=> j = i
    BY <1>1, <1>2, <1>3, <2>1, <2>2
  <2>4. i \in DOMAIN index'
    BY <1>1
  <2> QED
    BY <2>1, <2>3, <2>4
<1>5. CASE ~Before(a, f)
  <2>1. \A j \in DOMAIN index : ~InBlock(a, index[j])
    BY <1>5 DEF CoveredTo
  <2>2. \A j \in DOMAIN index' : InBlock(a, index'[j]) <=> j = Len(index) + 1 /\ InBlock(a, b)
    BY <2>1, <1>1, <1>2, <1>3
  <2>3. Before(a, g) <=> InBlock(a, b)
    BY <1>5
  <2> QED
    BY <2>2, <2>3, <1>1
<1> QED
  BY <1>4, <1>5

(* The block that a line goes into.                                         *)
LEMMA GrownIs ==
  ASSUME index \in Seq(Blocks), memind \in Places, OpenBlock, NEW n \in Nat \ {0}
  PROVE  /\ Grown(n) \in Blocks /\ Grown(n) # NoBlock
         /\ Grown(n).first = LineCount
         /\ Grown(n).start = Frontier
         /\ Frontier[1] = memind[1]
         /\ Frontier[2] + Grown(n).len = memind[2] + n
<1>0. memind \in Nat \X Nat /\ memind \in Segs \X Nat
  BY AddrsAre
<1>1. Grown(n) \in Blocks /\ Grown(n).first = LineCount /\ Grown(n).start = Frontier
      /\ Frontier[1] = memind[1] /\ Frontier[2] + Grown(n).len = memind[2] + n
  <2>1. CASE cins = NoBlock
    BY <1>0, <2>1, LineCountNat DEF Grown, Frontier, Blocks
  <2>2. CASE cins # NoBlock
    <3>1. Grown(n) = [first |-> cins.first, start |-> cins.start,
                      len |-> cins.len + n, lc |-> cins.lc + 1]
      BY <2>2 DEF Grown, OpenBlock, Blocks
    <3> QED
      BY <1>0, <2>2, <3>1 DEF OpenBlock, Frontier, Blocks
  <2> QED
    BY <2>1, <2>2
<1>2. Segs \X Nat \subseteq Nat \X Nat
  BY AddrsAre
<1>3. Blocks \subseteq [first : Nat, start : Nat \X Nat, len : Nat, lc : Nat]
  BY <1>2 DEF Blocks
<1>4. NoBlock \notin Blocks
  BY <1>3, GuiAssumption
<1> QED
  BY <1>1, <1>4

(* One line of the walk.                                                    *)
LEMMA LineKeepsBlocks == ASSUME GuiInv, UpdateLine PROVE BlocksInv'
<1>1. Typed /\ index \in Seq(Blocks) /\ Chained /\ memind \in Places /\ OpenBlock
      /\ CoveredTo(Frontier)
  BY DEF GuiInv, BlocksInv, Walking, UpdateLine
<1>21. PICK p \in Positions : \E n \in Steps(p) :
        LET b == Grown(n)
            ends == ~Valid(Plus(memind, n))
            closes == ends \/ b.len > BlockSize
        IN /\ index' = IF closes THEN Append(index, b) ELSE index
           /\ cins' = IF closes THEN NoBlock ELSE b
           /\ memind' = IF ends THEN <<memind[1] + 1, 0>> ELSE Plus(memind, n)
           /\ gui' = IF ends /\ memind[1] = Len(SegLen) THEN "clean" ELSE "scan"
  BY DEF UpdateLine
<1>2. PICK n \in Steps(p) :
        LET b == Grown(n)
            ends == ~Valid(Plus(memind, n))
            closes == ends \/ b.len > BlockSize
        IN /\ index' = IF closes THEN Append(index, b) ELSE index
           /\ cins' = IF closes THEN NoBlock ELSE b
           /\ memind' = IF ends THEN <<memind[1] + 1, 0>> ELSE Plus(memind, n)
           /\ gui' = IF ends /\ memind[1] = Len(SegLen) THEN "clean" ELSE "scan"
  BY <1>21
<1>3. n \in Nat \ {0}
  BY <1>1, WalkSteps
<1>4. PICK b : b = Grown(n)
  OBVIOUS
<1>5. PICK f : f = Frontier
  OBVIOUS
<1>6. PICK m : m = memind
  OBVIOUS
<1>7. /\ b \in Blocks /\ b # NoBlock /\ b.first = LineCount /\ b.start = f
      /\ f[1] = m[1] /\ f[2] + b.len = m[2] + n
  BY <1>1, <1>3, <1>4, <1>5, <1>6, GrownIs
<1>8. /\ m \in Nat \X Nat /\ m[1] \in Segs /\ m[2] < SegLen[m[1]]
      /\ Plus(m, n) = <<m[1], m[2] + n>>
      /\ f \in Segs \X Nat /\ f[1] \in Nat /\ f[2] \in Nat /\ b.len \in Nat \ {0}
      /\ m[1] \in 1 .. Len(SegLen) /\ SegLen[m[1]] \in Nat
  BY <1>1, <1>6, <1>7, AddrsAre DEF Plus, Blocks
<1>9. CASE ~(~Valid(Plus(m, n)) \/ b.len > BlockSize)
  <2>1. /\ index' = index /\ cins' = b /\ memind' = Plus(m, n) /\ gui' = "scan"
        /\ Valid(Plus(m, n))
    BY <1>2, <1>4, <1>6, <1>9
  <2>2. memind' \in Places
    BY <2>1, <1>3, <1>8, AddrsAre DEF Valid
  <2>3. Frontier' = f
    BY <2>1, <1>7 DEF Frontier
  <2>4. LineCount' = LineCount
    BY <2>1 DEF LineCount
  <2>5. OpenBlock'
    BY <2>1, <2>4, <1>7, <1>8 DEF OpenBlock
  <2>6. CoveredTo(Frontier)'
    BY <2>1, <2>3, <1>1, <1>5 DEF CoveredTo
  <2>7. Chained'
    BY <2>1, <1>1 DEF Chained
  <2> QED
    BY <2>1, <2>2, <2>5, <2>6, <2>7, <1>1 DEF BlocksInv, Walking, Walked
<1>10. CASE ~Valid(Plus(m, n)) \/ b.len > BlockSize
  <2>1. index' = Append(index, b) /\ cins' = NoBlock
    BY <1>2, <1>4, <1>6, <1>10
  <2>2. index' \in Seq(Blocks) /\ Chained'
    BY <2>1, <1>1, <1>7, AppendChains
  <2>3. OpenBlock'
    BY <2>1 DEF OpenBlock
  <2>4. Frontier' = memind'
    BY <2>1 DEF Frontier
  <2>5. PICK g : g = memind'
    OBVIOUS
  <2>6. /\ g = IF ~Valid(Plus(m, n)) THEN <<m[1] + 1, 0>> ELSE <<m[1], m[2] + n>>
        /\ gui' = IF ~Valid(Plus(m, n)) /\ m[1] = Len(SegLen) THEN "clean" ELSE "scan"
    BY <2>5, <1>2, <1>6, <1>8
  <2>7. Valid(Plus(m, n)) <=> m[2] + n < SegLen[m[1]]
    BY <1>8 DEF Valid
  <2>8. ASSUME NEW a \in Places
        PROVE  /\ Before(a, g) <=> Before(a, f) \/ InBlock(a, b)
               /\ ~(Before(a, f) /\ InBlock(a, b))
    <3>1. a \in Nat \X Nat /\ a[1] \in Nat /\ a[2] \in Nat /\ a[1] \in Segs
          /\ a[2] < SegLen[a[1]]
      BY AddrsAre
    <3>2. /\ Before(a, f) <=> a[1] < m[1] \/ (a[1] = m[1] /\ a[2] < f[2])
          /\ InBlock(a, b) <=> /\ a[1] = m[1] /\ f[2] <= a[2]
                               /\ a[2] < m[2] + n
      BY <1>7, <1>8, <3>1 DEF Before, InBlock
    <3>3. CASE Valid(Plus(m, n))
      <4>1. Before(a, g) <=> a[1] < m[1] \/ (a[1] = m[1] /\ a[2] < m[2] + n)
        BY <3>3, <2>6 DEF Before
      <4>2. f[2] <= m[2] + n
        BY <1>3, <1>7, <1>8
      <4> QED
        BY <3>1, <3>2, <4>1, <4>2, <1>3, <1>8
    <3>4. CASE ~Valid(Plus(m, n))
      <4>1. Before(a, g) <=> a[1] < m[1] + 1
        BY <3>1, <3>4, <2>6 DEF Before
      <4>2. a[1] = m[1] => a[2] < m[2] + n
        BY <3>1, <3>4, <2>7, <1>3, <1>8
      <4> QED
        BY <3>1, <3>2, <4>1, <4>2, <1>3, <1>8
    <3> QED
      BY <3>3, <3>4
  <2>9. \A a \in Places :
          IF Before(a, g)
          THEN \E i \in DOMAIN index' :
                 \A j \in DOMAIN index' : InBlock(a, index'[j]) <=> j = i
          ELSE \A j \in DOMAIN index' : ~InBlock(a, index'[j])
    <3>1. CoveredTo(f)
      BY <1>1, <1>5
    <3>2. \A a \in Places : Before(a, g) <=> Before(a, f) \/ InBlock(a, b)
      BY <2>8
    <3>3. \A a \in Places : ~(Before(a, f) /\ InBlock(a, b))
      BY <2>8
    <3>4. index \in Seq(Blocks) /\ b \in Blocks /\ index' = Append(index, b)
      BY <2>1, <1>1, <1>7
    <3> QED
      BY <3>1, <3>2, <3>3, <3>4, AppendCovers
  <2>10. CoveredTo(memind)'
    BY <2>5, <2>9 DEF CoveredTo
  <2>11. CASE gui' = "clean"
    <3>1. memind' = AllEnd
      BY <2>5, <2>6, <2>11 DEF AllEnd
    <3>2. CoveredTo(AllEnd)'
      BY <2>10, <3>1 DEF CoveredTo
    <3> QED
      BY <2>2, <2>11, <3>2 DEF BlocksInv, Walking, Walked
  <2>12. CASE gui' = "scan"
    <3>1. memind' \in Places
      <4>1. CASE Valid(Plus(m, n))
        BY <4>1, <2>5, <2>6, <2>7, <1>3, <1>8, AddrsAre
      <4>2. CASE ~Valid(Plus(m, n))
        <5>1. m[1] + 1 \in Segs /\ SegLen[m[1] + 1] \in Nat \ {0}
          BY <4>2, <2>6, <2>12, <1>8, AddrsAre
        <5> QED
          BY <4>2, <5>1, <2>5, <2>6, <1>8, AddrsAre
      <4> QED
        BY <4>1, <4>2
    <3>2. CoveredTo(Frontier)'
      BY <2>4, <2>10 DEF CoveredTo
    <3> QED
      BY <2>2, <2>3, <2>12, <3>1, <3>2 DEF BlocksInv, Walking, Walked
  <2> QED
    BY <2>6, <2>11, <2>12
<1> QED
  BY <1>9, <1>10

LEMMA BlocksStep == ASSUME GuiInv, [Next]_vars PROVE BlocksInv'
<1>0. BlocksInv /\ Typed
  BY DEF GuiInv
<1>1. CASE UpdateBegin
  <2>1. CASE dirty
    <3>1. /\ index' = <<>> /\ memind' = <<1, 0>> /\ cins' = NoBlock
          /\ gui' = IF SegLen = <<>> THEN "clean" ELSE "scan"
      BY <1>1, <2>1 DEF UpdateBegin, IndexCleared
    <3>2. index' \in Seq(Blocks) /\ Chained' /\ DOMAIN index' = {}
      BY <3>1 DEF Chained
    <3>3. OpenBlock' /\ Frontier' = <<1, 0>>
      BY <3>1 DEF OpenBlock, Frontier
    <3>4. CASE SegLen = <<>>
      <4>1. Places = {}
        BY <3>4, AddrsAre
      <4>2. CoveredTo(AllEnd)'
        BY <4>1 DEF CoveredTo
      <4> QED
        BY <3>1, <3>2, <3>4, <4>2 DEF BlocksInv, Walking, Walked
    <3>5. CASE SegLen # <<>>
      <4>1. memind' \in Places
        <5>1. Len(SegLen) # 0
          BY <3>5, GuiAssumption
        <5>2. 1 \in Segs
          BY <5>1, AddrsAre
        <5> QED
          BY <3>1, <5>2, AddrsAre
      <4>2. \A a \in Places : ~Before(a, <<1, 0>>)
        BY AddrsAre DEF Before
      <4>3. CoveredTo(Frontier)'
        BY <3>2, <3>3, <4>2 DEF CoveredTo
      <4> QED
        BY <3>1, <3>2, <3>3, <3>5, <4>1, <4>3 DEF BlocksInv, Walking, Walked
    <3> QED
      BY <3>4, <3>5
  <2>2. CASE ~dirty
    <3>1. gui = "update" /\ gui' = "flush" /\ index' = index
      BY <1>1, <2>2 DEF UpdateBegin
    <3>2. index # <<>> => CoveredTo(AllEnd)
      BY <1>0, <3>1 DEF BlocksInv, Walked
    <3> QED
      BY <1>0, <3>1, <3>2 DEF BlocksInv, Walking, Walked, Chained, CoveredTo
  <2> QED
    BY <2>1, <2>2
<1>2. CASE UpdateLine
  BY <1>2, LineKeepsBlocks
<1>3. CASE UpdateEnd
  <2>1. gui = "clean" /\ gui' = "flush" /\ index' = index
    BY <1>3 DEF UpdateEnd
  <2> QED
    BY <1>0, <2>1 DEF BlocksInv, Walking, Walked, Chained, CoveredTo
<1>4. CASE (Next /\ ~Rebuild) \/ UNCHANGED vars
  <2>1. /\ UNCHANGED <<index, memind, cins>>
        /\ \/ gui' = gui
           \/ gui \notin {"scan", "clean"} /\ gui' \notin {"scan", "clean"}
    BY <1>4, OthersLeaveIndex DEF vars, walk
  <2>2. LineCount' = LineCount /\ Frontier' = Frontier /\ AllEnd' = AllEnd
    BY <2>1 DEF LineCount, Frontier, AllEnd
  <2>3. Chained' /\ (OpenBlock => OpenBlock')
    BY <2>1, <2>2, <1>0 DEF BlocksInv, Chained, OpenBlock
  <2>4. /\ CoveredTo(AllEnd) => CoveredTo(AllEnd)'
        /\ CoveredTo(Frontier) => CoveredTo(Frontier)'
    BY <2>1, <2>2 DEF CoveredTo
  <2> QED
    BY <2>1, <2>3, <2>4, <1>0 DEF BlocksInv, Walking, Walked
<1> QED
  BY <1>1, <1>2, <1>3, <1>4 DEF Rebuild

(* What is looked up, selected and remembered is a line and its address.    *)
LEMMA LooksStep == ASSUME GuiInv, [Next]_vars PROVE Looks'
<1>0. Typed /\ Looks /\ index \in Seq(Blocks) /\ Chained
  BY DEF GuiInv, BlocksInv
<1>1. \A line \in Nat : line < LineCount =>
        /\ Look(line).line \in Nat /\ Look(line).line < LineCount
        /\ Look(line).addr \in Segs \X Nat
  BY <1>0, LineAddrTyped DEF Look
<1>2. index' = index => LineCount' = LineCount
  BY DEF LineCount
<1> HIDE DEF Look
<1>3. CASE WorkerStep \/ UNCHANGED vars
  <2>1. UNCHANGED <<row, kept, cache, index, gui>>
    BY <1>3 DEF WorkerStep, WorkerBegin, WorkerInsert, WorkerNotify, WorkerAnnounce,
                WorkerRemove, WorkerEnd, guiUnchanged, vars
  <2> QED
    BY <2>1, <1>0, <1>2 DEF Looks
<1>4. ASSUME NEW r \in 0 .. LineCount - 1, Paint(r) \/ Select(r) PROVE Looks'
  <2>1. LineCount \in Nat
    BY <1>0, LineCountNat
  <2>2. r \in Nat /\ r < LineCount
    BY <2>1
  <2>3. UNCHANGED <<index, gui, kept>> /\ gui = "idle"
        /\ row' \in {row, r} /\ cache' \in {cache, Look(r)}
    BY <1>4 DEF Paint, Select
  <2> QED
    BY <2>2, <2>3, <1>0, <1>1, <1>2 DEF Looks
<1>5. ASSUME row = -1 \/ RowExists, ReadRow
      PROVE  cache' = cache \/ (\E line \in Nat : line < LineCount /\ cache' = Look(line))
  <2>1. CASE row = -1
    BY <1>5, <2>1 DEF ReadRow
  <2>2. CASE row # -1
    <3>1. row \in Nat /\ row < LineCount
      BY <1>5, <2>2, RowAddr
    <3> QED
      BY <1>5, <2>2, <3>1 DEF ReadRow
  <2> QED
    BY <2>1, <2>2
<1>6. ASSUME NEW a \in Places, Jump(a) PROVE Looks'
  <2>1. UNCHANGED <<index, kept>> /\ gui = "idle" /\ gui' \in {"idle", "aborted"}
    BY <1>6 DEF Jump, Abort
  <2>2. a \in Segs \X Nat
    BY AddrsAre
  <2>3. row' \in Nat \cup {-1}
    BY <1>6, <1>0, <2>2, LineAtAddrTyped DEF Jump, Looks
  <2>4. cache' = cache \/ (\E line \in Nat : line < LineCount /\ cache' = Look(line))
    BY <1>5, <1>6 DEF Jump, Abort
  <2> QED
    BY <2>1, <2>3, <2>4, <1>0, <1>1, <1>2 DEF Looks
<1>7. ASSUME NEW n \in Lengths, Define(n) PROVE Looks'
  <2>1. UNCHANGED <<index, kept, row>> /\ gui = "idle"
        /\ gui' \in {"idle", "aborted", "exited"}
    BY <1>7 DEF Define, Abort
  <2>2. cache' = cache \/ (\E line \in Nat : line < LineCount /\ cache' = Look(line))
    BY <1>5, <1>7 DEF Define, Abort
  <2> QED
    BY <2>1, <2>2, <1>0, <1>1, <1>2 DEF Looks
<1>8. CASE UpdateTimeout
  <2>1. UNCHANGED <<index, row>> /\ gui = "idle" /\ gui' \in {"update", "aborted"}
    BY <1>8 DEF UpdateTimeout, Abort
  <2>2. kept' = NoAddr \/ kept' \in Segs \X Nat
    BY <1>8, <1>0, RowAddr DEF UpdateTimeout, Looks
  <2>3. cache' = cache \/ (\E line \in Nat : line < LineCount /\ cache' = Look(line))
    BY <1>5, <1>8 DEF UpdateTimeout, Abort
  <2> QED
    BY <2>1, <2>2, <2>3, <1>0, <1>1, <1>2 DEF Looks
<1>9. CASE UpdateBegin
  <2>1. CASE dirty
    BY <1>9, <2>1, <1>0 DEF UpdateBegin, CacheForgotten, Looks
  <2>2. CASE ~dirty
    BY <1>9, <2>2, <1>0, <1>2 DEF UpdateBegin, Looks
  <2> QED
    BY <2>1, <2>2
<1>10. CASE UpdateLine
  <2>1. gui = "scan" /\ UNCHANGED <<cache, row, kept>>
    BY <1>10 DEF UpdateLine
  <2> QED
    BY <2>1, <1>0 DEF Looks
<1>11. CASE UpdateEnd
  BY <1>11, <1>0, <1>2 DEF UpdateEnd, Looks
<1>12. CASE Flush
  <2>1. row' \in Nat \cup {-1}
    BY <1>12, <1>0, LineAtAddrTyped DEF Flush, Looks
  <2> QED
    BY <1>12, <2>1, <1>0, <1>2 DEF Flush, Looks
<1>13. CASE ClearUpdated
  BY <1>13, <1>0, <1>2 DEF ClearUpdated, Looks
<1> QED
  BY <1>3, <1>4, <1>6, <1>7, <1>8, <1>9, <1>10, <1>11, <1>12, <1>13
     DEF Next, UserStep, RefreshStep

(* The addresses, the index and what is looked up in it, together: the walk *)
(* needs the memlocs' types, a lookup needs the index, and a memloc that is *)
(* created at the selected row needs the lookup.                            *)
THEOREM GuiInvHolds == Spec => []GuiInv
<1>1. Init => GuiInv
  <2> SUFFICES ASSUME Init PROVE GuiInv
    OBVIOUS
  <2>1. Starts = {}
    BY DEF Init, Starts
  <2>2. Typed
    BY <2>1, GuiAssumption DEF Init, Typed, Phases
  <2>3. BlocksInv
    BY DEF Init, BlocksInv, Chained, Walking, Walked
  <2>4. Looks
    BY DEF Init, Looks
  <2> QED
    BY <2>2, <2>3, <2>4 DEF GuiInv
<1>2. GuiInv /\ [Next]_vars => GuiInv'
  BY TypedStep, BlocksStep, LooksStep DEF GuiInv
<1> QED
  BY <1>1, <1>2, PTL DEF Spec

(* The types, and that a line remembered as the last one looked up is a line *)
(* of the index.                                                            *)
THEOREM GuiTypeCorrect == Spec => []TypeOK
<1>1. GuiInv /\ IInv => TypeOK
  BY DEF GuiInv, IInv, Flags, Typed, Looks, Phases, TypeOK
<1> QED
  BY <1>1, GuiInvHolds, GuiInvariant, PTL

(* Whatever the worker does during the walk, the index covers every address *)
(* of every segment once, and its blocks number the lines without a gap.    *)
THEOREM GuiBlocksCover == Spec => []BlocksCover
<1>1. GuiInv => BlocksCover
  <2> SUFFICES ASSUME GuiInv, gui = "idle", index # <<>> PROVE BlocksCover
    BY DEF BlocksCover
  <2>1. Chained /\ CoveredTo(AllEnd)
    BY DEF GuiInv, BlocksInv, Walked
  <2>2. ASSUME NEW a \in Places
        PROVE  Cardinality({i \in DOMAIN index :
                        /\ index[i].start[1] = a[1]
                        /\ index[i].start[2] <= a[2]
                        /\ a[2] < index[i].start[2] + index[i].len}) = 1
    <3>1. Before(a, AllEnd)
      BY AddrsAre DEF Before, AllEnd
    <3>2. PICK i \in DOMAIN index : \A j \in DOMAIN index : InBlock(a, index[j]) <=> j = i
      BY <2>1, <3>1 DEF CoveredTo
    <3>3. {j \in DOMAIN index :
                        /\ index[j].start[1] = a[1]
                        /\ index[j].start[2] <= a[2]
                        /\ a[2] < index[j].start[2] + index[j].len} = {i}
      BY <3>2 DEF InBlock
    <3> QED
      BY <3>3, FS_Singleton
  <2> QED
    BY <2>1, <2>2 DEF BlocksCover, Chained
<1> QED
  BY <1>1, GuiInvHolds, PTL

-----------------------------------------------------------------------------
(* Lines of the first segment.  Those of the later ones the walk may miss   *)
(* (LinesHaveAddresses).                                                    *)

(* Memlocs do not overlap, nor reach behind their segment. *)
Apart(m) ==
  \A b \in DOMAIN m :
    /\ b[2] + m[b] <= SegLen[b[1]]
    /\ \A c \in DOMAIN m : b[1] = c[1] /\ b[2] < c[2] => b[2] + m[b] <= c[2]

(* How many lines begin before an offset. *)
Firsts == LineStarts(1)
Upto(n) == {b \in Firsts : b[2] < n}
Num(n) == Cardinality(Upto(n))

LEMMA FirstsAre ==
  \A a \in Firsts :
    /\ a \in Places /\ a \in Segs \X Nat /\ a[1] = 1 /\ a[2] \in Nat
    /\ a = <<1, a[2]>> /\ 1 \in Segs /\ a[2] < SegLen[1] /\ SegLen[1] \in Nat
    /\ Covering(memlocs, a) \subseteq {a}
BY AddrsAre DEF Firsts, LineStarts

LEMMA NumNat == \A n \in Int : IsFiniteSet(Upto(n)) /\ Num(n) \in Nat
<1> SUFFICES ASSUME NEW n \in Int PROVE IsFiniteSet(Upto(n)) /\ Num(n) \in Nat
  OBVIOUS
<1>1. CASE Firsts = {}
  <2>1. Upto(n) = {}
    BY <1>1 DEF Upto
  <2> QED
    BY <2>1, FS_EmptySet DEF Num
<1>2. CASE Firsts # {}
  <2>1. SegLen[1] \in Nat /\ Firsts \subseteq {1} \X (0 .. SegLen[1])
    BY <1>2, FirstsAre
  <2>2. IsFiniteSet(0 .. SegLen[1]) /\ IsFiniteSet({1})
    <3>1. 0 \in Int /\ SegLen[1] \in Int
      BY <2>1
    <3>2. IsFiniteSet(0 .. SegLen[1])
      BY <3>1, FS_Interval
    <3> QED
      BY <3>2, FS_Singleton
  <2>3. IsFiniteSet({1} \X (0 .. SegLen[1]))
    BY <2>2, FS_Product
  <2>4. Upto(n) \subseteq {1} \X (0 .. SegLen[1])
    BY <2>1 DEF Upto
  <2>5. IsFiniteSet(Upto(n))
    BY <2>3, <2>4, FS_Subset
  <2> QED
    BY <2>5, FS_CardinalityType DEF Num
<1> QED
  BY <1>1, <1>2

LEMMA NumGrows ==
  ASSUME NEW m \in Int, NEW n \in Int, m <= n
  PROVE  Num(m) <= Num(n)
<1>1. Upto(m) \subseteq Upto(n)
  BY FirstsAre DEF Upto
<1> QED
  BY <1>1, NumNat, FS_Subset DEF Num

(* The line that begins at a is one more. *)
LEMMA NumNext ==
  ASSUME NEW a \in Firsts, NEW n \in Int, \A b \in Firsts : b[2] < n <=> b[2] <= a[2]
  PROVE  Num(n) = Num(a[2]) + 1
<1>1. Upto(n) = Upto(a[2]) \cup {a}
  BY FirstsAre DEF Upto
<1>2. a \notin Upto(a[2]) /\ IsFiniteSet(Upto(a[2]))
  BY FirstsAre, NumNat DEF Upto
<1> QED
  BY <1>1, <1>2, FS_AddElement DEF Num

LEMMA NumDiffers ==
  ASSUME NEW a \in Firsts, NEW b \in Firsts
  PROVE  /\ a[2] < b[2] <=> Num(a[2]) < Num(b[2])
         /\ Num(a[2]) = Num(b[2]) => a = b
<1>1. \A c, d \in Firsts : c[2] < d[2] => Num(c[2]) < Num(d[2])
  <2> SUFFICES ASSUME NEW c \in Firsts, NEW d \in Firsts, c[2] < d[2]
               PROVE  Num(c[2]) < Num(d[2])
    OBVIOUS
  <2>1. c[2] \in Nat /\ d[2] \in Nat
    BY FirstsAre
  <2>2. Num(c[2] + 1) = Num(c[2]) + 1
    <3>1. \A e \in Firsts : e[2] < c[2] + 1 <=> e[2] <= c[2]
      BY FirstsAre
    <3> QED
      BY <2>1, <3>1, NumNext
  <2>3. Num(c[2] + 1) <= Num(d[2])
    BY <2>1, NumGrows
  <2>4. Num(c[2]) \in Nat /\ Num(d[2]) \in Nat
    BY <2>1, NumNat
  <2> QED
    BY <2>2, <2>3, <2>4
<1>2. a[2] \in Nat /\ b[2] \in Nat /\ a = <<1, a[2]>> /\ b = <<1, b[2]>>
  BY FirstsAre
<1>3. Num(a[2]) \in Nat /\ Num(b[2]) \in Nat
  BY <1>2, NumNat
<1>4. CASE a[2] < b[2]
  BY <1>1, <1>2, <1>3, <1>4
<1>5. CASE b[2] < a[2]
  <2>1. Num(b[2]) < Num(a[2])
    BY <1>1, <1>5
  <2> QED
    BY <2>1, <1>2, <1>3, <1>5
<1>6. CASE a[2] = b[2]
  BY <1>2, <1>3, <1>6
<1> QED
  BY <1>2, <1>4, <1>5, <1>6

(* No line begins behind the segment. *)
LEMMA NumTotal ==
  ASSUME NEW n \in Int, 1 \in Segs
  PROVE  Num(n) <= Num(SegLen[1])
<1>1. SegLen[1] \in Int
  BY AddrsAre
<1>2. Upto(n) \subseteq Upto(SegLen[1])
  BY FirstsAre DEF Upto
<1> QED
  BY <1>1, <1>2, NumNat, FS_Subset DEF Num

(* Line after line: each begins where the one before ends. *)
LEMMA NextFirst ==
  ASSUME Typed, Apart(memlocs), NEW a \in Firsts
  PROVE  \E z \in Nat :
           /\ NextLine(a) = <<1, z>>
           /\ z = a[2] + (IF a \in Starts THEN memlocs[a] ELSE 1)
           /\ a[2] < z /\ z <= SegLen[1]
           /\ z < SegLen[1] => <<1, z>> \in Firsts
           /\ Num(z) = Num(a[2]) + 1
<1>1. /\ a \in Places /\ a[1] = 1 /\ a[2] \in Nat /\ a = <<1, a[2]>> /\ 1 \in Segs
      /\ a[2] < SegLen[1] /\ SegLen[1] \in Nat /\ Covering(memlocs, a) \subseteq {a}
  BY FirstsAre
<1>2. \A b \in Starts : /\ memlocs[b] \in Nat \ {0} /\ b = <<b[1], b[2]>>
                        /\ b[1] \in Nat /\ b[2] \in Nat
  BY AddrsAre, GuiAssumption DEF Typed
<1>3. PICK z : z = a[2] + (IF a \in Starts THEN memlocs[a] ELSE 1)
  OBVIOUS
<1>4. z \in Nat /\ a[2] < z
  BY <1>1, <1>2, <1>3
<1>5. NextLine(a) = <<1, z>>
  BY <1>1, <1>3 DEF NextLine, Plus
<1>6. z <= SegLen[1]
  BY <1>1, <1>3 DEF Apart, Starts
<1>7. ASSUME z < SegLen[1] PROVE <<1, z>> \in Firsts
  <2>1. <<1, z>> \in Places
    BY <1>1, <1>4, <1>7, AddrsAre
  <2>2. ASSUME NEW b \in Starts, b[1] = 1, b[2] <= z, z < b[2] + memlocs[b]
        PROVE  b = <<1, z>>
    <3>1. CASE b[2] <= a[2]
      <4>1. b \in Covering(memlocs, a)
        BY <1>1, <1>2, <1>4, <2>2, <3>1 DEF Covering, Starts
      <4>2. b = a
        BY <4>1, <1>1
      <4> QED
        BY <1>2, <1>3, <2>2, <4>2
    <3>2. CASE a[2] < b[2]
      <4>1. a \in Starts => a[2] + memlocs[a] <= b[2]
        BY <1>1, <2>2, <3>2 DEF Apart, Starts
      <4>2. z <= b[2]
        BY <1>1, <1>2, <1>3, <3>2, <4>1
      <4> QED
        BY <1>2, <1>4, <2>2, <4>2
    <3> QED
      BY <1>1, <1>2, <3>1, <3>2
  <2>3. Covering(memlocs, <<1, z>>) \subseteq {<<1, z>>}
    BY <2>2 DEF Covering, Starts
  <2> QED
    BY <2>1, <2>3 DEF Firsts, LineStarts
<1>8. ASSUME NEW b \in Firsts PROVE b[2] < z <=> b[2] <= a[2]
  <2>1. /\ b[2] \in Nat /\ b = <<1, b[2]>> /\ b[1] = 1 /\ Covering(memlocs, b) \subseteq {b}
    BY FirstsAre
  <2>2. ASSUME a[2] < b[2] PROVE z <= b[2]
    <3>1. CASE a \in Starts
      <4>1. a \notin Covering(memlocs, b)
        BY <2>1, <2>2, <1>1
      <4>2. ~(b[2] < a[2] + memlocs[a])
        BY <4>1, <3>1, <2>1, <2>2, <1>1 DEF Covering, Starts
      <4> QED
        BY <4>2, <3>1, <1>1, <1>2, <1>3, <2>1
    <3>2. CASE a \notin Starts
      BY <1>1, <1>3, <2>1, <2>2, <3>2
    <3> QED
      BY <3>1, <3>2
  <2> QED
    BY <1>1, <1>4, <2>1, <2>2
<1>9. Num(z) = Num(a[2]) + 1
  BY <1>4, <1>8, NumNext
<1> QED
  BY <1>3, <1>4, <1>5, <1>6, <1>7, <1>9

(* n lines further is n lines further, as long as there are so many. *)
LEMMA ForwardFirst ==
  ASSUME Typed, Apart(memlocs), NEW a \in Firsts, NEW n \in Nat,
         Num(a[2]) + n < Num(SegLen[1])
  PROVE  Forward(a, n) \in Firsts /\ Num(Forward(a, n)[2]) = Num(a[2]) + n
<1>1. PICK go : /\ Forward(a, n) = go[n]
                /\ \A i \in 0 .. n : go[i] = IF i = 0 THEN a ELSE NextLine(go[i - 1])
  BY ForwardRuns
<1>2. 1 \in Segs /\ SegLen[1] \in Nat /\ a[2] \in Nat
  BY FirstsAre
<1>3. Num(a[2]) \in Nat /\ Num(SegLen[1]) \in Nat
  BY <1>2, NumNat
<1> DEFINE There == {k \in Nat : k <= n => go[k] \in Firsts /\ Num(go[k][2]) = Num(a[2]) + k}
<1>4. 0 \in There
  BY <1>1, <1>3
<1>5. ASSUME NEW k \in Nat, k \in There PROVE k + 1 \in There
  <2> SUFFICES ASSUME k + 1 <= n
               PROVE  go[k + 1] \in Firsts /\ Num(go[k + 1][2]) = Num(a[2]) + (k + 1)
    OBVIOUS
  <2>1. go[k] \in Firsts /\ Num(go[k][2]) = Num(a[2]) + k
    BY <1>5
  <2>2. k + 1 \in 0 .. n /\ (k + 1) - 1 = k /\ k + 1 # 0
    OBVIOUS
  <2>3. go[k + 1] = NextLine(go[k])
    BY <2>2, <1>1
  <2>4. PICK z \in Nat : /\ NextLine(go[k]) = <<1, z>> /\ z <= SegLen[1]
                         /\ z < SegLen[1] => <<1, z>> \in Firsts
                         /\ Num(z) = Num(go[k][2]) + 1
    BY <2>1, NextFirst
  <2>5. Num(z) = Num(a[2]) + (k + 1)
    BY <2>1, <2>4, <1>3
  <2>6. z # SegLen[1]
    BY <2>5, <1>3
  <2> QED
    BY <2>3, <2>4, <2>5, <2>6, <1>2
<1>6. n \in There
  <2> HIDE DEF There
  <2>1. Nat \subseteq There
    BY <1>4, <1>5, AllNat
  <2> QED
    BY <2>1
<1> QED
  BY <1>1, <1>6

(* The memlocs change as ever while the index is out of date, and not else. *)
LEMMA WithoutApart ==
  ASSUME Typed, Apart(memlocs), NEW S
  PROVE  Apart(Without(S))
BY DEF Typed, Apart, Without, Restrict, Starts

LEMMA InsertedApart ==
  ASSUME Typed, Apart(memlocs), NEW a \in Addrs, NEW n \in Lengths,
         a[2] + n <= SegLen[a[1]], ~Rejected(a)
  PROVE  Apart(Inserted(a, n))
<1> DEFINE m == Without(Erased(a, n))
<1>1. /\ DOMAIN m = Starts \ Erased(a, n)
      /\ \A b \in DOMAIN m : m[b] = memlocs[b]
  BY DEF Without, Restrict
<1>2. /\ DOMAIN Inserted(a, n) = DOMAIN m \cup {a}
      /\ \A b \in DOMAIN m \cup {a} : Inserted(a, n)[b] = IF b = a THEN n ELSE m[b]
  BY DEF Inserted
<1> HIDE DEF m
<1>3. /\ a = <<a[1], a[2]>> /\ a[1] \in Nat /\ a[2] \in Nat
      /\ n \in Nat \ {0}
  BY AddrsAre, GuiAssumption
<1>4. \A b \in Starts : /\ memlocs[b] \in Nat \ {0} /\ b = <<b[1], b[2]>>
                        /\ b[1] \in Nat /\ b[2] \in Nat
  BY AddrsAre, GuiAssumption DEF Typed
<1>5. ASSUME NEW b \in DOMAIN Inserted(a, n)
      PROVE  b[2] + Inserted(a, n)[b] <= SegLen[b[1]]
  BY <1>1, <1>2, <1>5 DEF Apart, Starts
<1>6. ASSUME NEW b \in DOMAIN Inserted(a, n), NEW c \in DOMAIN Inserted(a, n),
             b[1] = c[1], b[2] < c[2]
      PROVE  b[2] + Inserted(a, n)[b] <= c[2]
  <2>1. CASE b = a
    <3>1. c \in Starts /\ c \notin Erased(a, n)
      BY <1>1, <1>2, <1>3, <1>6, <2>1
    <3>2. ~(c[2] < a[2] + n)
      BY <1>3, <1>4, <1>6, <2>1, <3>1 DEF Erased
    <3> QED
      BY <1>2, <1>3, <1>4, <2>1, <3>1, <3>2
  <2>2. CASE b # a /\ c = a
    <3>1. b \in Starts /\ Inserted(a, n)[b] = memlocs[b]
      BY <1>1, <1>2, <2>2
    <3>2. b \notin Covering(memlocs, a)
      BY <2>2 DEF Rejected
    <3>3. ~(a[2] < b[2] + memlocs[b])
      BY <1>3, <1>4, <1>6, <2>2, <3>1, <3>2 DEF Covering, Starts
    <3> QED
      BY <1>3, <1>4, <2>2, <3>1, <3>3
  <2>3. CASE b # a /\ c # a
    <3>1. b \in Starts /\ c \in Starts /\ Inserted(a, n)[b] = memlocs[b]
      BY <1>1, <1>2, <1>6, <2>3
    <3> QED
      BY <1>6, <3>1 DEF Apart, Starts
  <2> QED
    BY <2>1, <2>2, <2>3
<1> QED
  BY <1>5, <1>6 DEF Apart

(* The index was built from the memlocs as they are, or is being so.        *)
Seen == ~unseen /\ gui # "exited"

Numbered(b) ==
  /\ b.start \in Firsts
  /\ b.first = Num(b.start[2])
  /\ b.first + b.lc = Num(b.start[2] + b.len)

InFirst(b, line) == b.start[1] = 1 /\ b.first <= line /\ line < b.first + b.lc

(* The blocks of the first segment number its lines. *)
IndexNumbered == \A i \in DOMAIN index : index[i].start[1] = 1 => Numbered(index[i])

(* So does the open block; the walk is at a line and its iterator has passed *)
(* none of the entries to come.                                              *)
WalkNumbered ==
  gui = "scan" /\ memind[1] = 1 =>
    /\ memind \in Firsts
    /\ li # Dangling
    /\ \A e \in Starts : e[1] = 1 /\ e[2] >= memind[2] =>
                           li # End /\ (e = li \/ Before(li, e))
    /\ IF cins = NoBlock THEN LineCount = Num(memind[2]) ELSE Numbered(cins)

(* The line that is remembered is remembered with its address. *)
CacheNumbered ==
  cache # NoCache =>
    \A i \in DOMAIN index : InFirst(index[i], cache.line) =>
      cache.addr \in Firsts /\ Num(cache.addr[2]) = cache.line

Current ==
  /\ IndexNumbered /\ WalkNumbered /\ CacheNumbered
  /\ gui # "scan" => CoveredTo(AllEnd)

LinesInv == Apart(memlocs) /\ (Seen => Current)

(* Blocks follow each other: a line is in one only. *)
LEMMA BlocksFollow ==
  ASSUME index \in Seq(Blocks), Chained, NEW i \in DOMAIN index, NEW j \in DOMAIN index, i < j
  PROVE  index[i].first + index[i].lc <= index[j].first
<1> DEFINE D == {k \in DOMAIN index : i < k /\ ~(index[i].first + index[i].lc <= index[k].first)}
<1> SUFFICES ASSUME D # {} PROVE FALSE
  OBVIOUS
<1>1. PICK k \in D : \A l \in D : k <= l
  <2>1. D \subseteq Nat
    OBVIOUS
  <2> HIDE DEF D
  <2> QED
    BY <2>1, LeastNat
<1>2. /\ k \in DOMAIN index /\ i < k /\ k # 1 /\ k - 1 \in DOMAIN index
      /\ ~(index[i].first + index[i].lc <= index[k].first)
  BY <1>1
<1>3. index[k].first = index[k - 1].first + index[k - 1].lc
  BY <1>2 DEF Chained
<1>4. index[i] \in Blocks /\ index[k] \in Blocks /\ index[k - 1] \in Blocks
  BY <1>2
<1>5. CASE k - 1 = i
  BY <1>1, <1>3, <1>4, <1>5 DEF Blocks
<1>6. CASE k - 1 # i
  <2>1. k - 1 \notin D /\ i < k - 1
    BY <1>1, <1>2, <1>6
  <2>2. index[i].first + index[i].lc <= index[k - 1].first
    BY <1>2, <2>1
  <2>3. /\ index[i].first \in Nat /\ index[i].lc \in Nat
        /\ index[k - 1].first \in Nat /\ index[k - 1].lc \in Nat
    BY <1>4 DEF Blocks
  <2> QED
    BY <1>2, <1>3, <2>2, <2>3
<1> QED
  BY <1>5, <1>6

LEMMA LineInOne ==
  ASSUME index \in Seq(Blocks), Chained, NEW line \in Nat,
         NEW i \in DOMAIN index, index[i].first <= line, line < index[i].first + index[i].lc,
         NEW j \in DOMAIN index, index[j].first <= line, line < index[j].first + index[j].lc
  PROVE  i = j
<1>1. i \in Nat /\ j \in Nat /\ index[i] \in Blocks /\ index[j] \in Blocks
  OBVIOUS
<1>2. ~(i < j)
  BY <1>1, BlocksFollow, SMTT(60) DEF Blocks
<1>3. ~(j < i)
  BY <1>1, BlocksFollow, SMTT(60) DEF Blocks
<1> QED
  BY <1>1, <1>2, <1>3

(* getLineAddr() of a line of the first segment. *)
LEMMA LineAddrFirst ==
  ASSUME GuiInv, Apart(memlocs), IndexNumbered, CacheNumbered,
         NEW line \in Nat, NEW i \in DOMAIN index, InFirst(index[i], line)
  PROVE  LineAddr(line) \in Firsts /\ Num(LineAddr(line)[2]) = line
<1>1. Typed /\ index \in Seq(Blocks) /\ Chained /\ Looks
  BY DEF GuiInv, BlocksInv
<1> DEFINE c == CHOOSE x \in Range(index) : x.first <= line /\ line < x.first + x.lc
<1>2. index[i] \in Blocks /\ index[i] \in Range(index)
      /\ index[i].first <= line /\ line < index[i].first + index[i].lc
  BY <1>1 DEF InFirst, Range
<1>3. c = index[i]
  <2>1. c \in Range(index) /\ c.first <= line /\ line < c.first + c.lc
    BY <1>2
  <2> HIDE DEF c
  <2>2. PICK j \in DOMAIN index : c = index[j]
    BY <2>1 DEF Range
  <2> QED
    BY <1>1, <1>2, <2>1, <2>2, LineInOne
<1>4. PICK b : b = index[i]
  OBVIOUS
<1>5. /\ b \in Blocks /\ Numbered(b) /\ b.start \in Firsts
      /\ b.first \in Nat /\ b.lc \in Nat /\ b.first <= line /\ line < b.first + b.lc
      /\ b.first = Num(b.start[2]) /\ b.start[2] + b.len \in Int
  BY <1>2, <1>4 DEF IndexNumbered, InFirst, Numbered, Blocks
<1>6. b.first + b.lc <= Num(SegLen[1]) /\ Num(SegLen[1]) \in Nat
  <2>1. 1 \in Segs /\ SegLen[1] \in Int
    BY <1>5, FirstsAre
  <2>2. Num(SegLen[1]) \in Nat
    BY <2>1, NumNat
  <2> QED
    BY <2>1, <2>2, <1>5, NumTotal DEF Numbered
<1>7. CASE CachedBefore(b, line)
  <2>1. cache # NoCache /\ b.first <= cache.line /\ cache.line <= line /\ cache.line \in Nat
        /\ cache.line < b.first + b.lc
    BY <1>1, <1>7 DEF CachedBefore, Looks
  <2>2. cache.addr \in Firsts /\ Num(cache.addr[2]) = cache.line
    BY <2>1, <1>4 DEF CacheNumbered, InFirst
  <2>3. PICK k : k = line - cache.line
    OBVIOUS
  <2>4. k \in Nat /\ Max({0, k}) = k
    <3>1. k \in Nat
      BY <2>1, <2>3
    <3>2. k \in {0, k} /\ \A y \in {0, k} : k >= y
      BY <3>1
    <3>3. \A x \in {0, k} : (\A y \in {0, k} : x >= y) => x = k
      BY <3>1
    <3> QED
      BY <3>1, <3>2, <3>3 DEF Max
  <2>5. LineAddr(line) = Forward(cache.addr, k)
    BY <1>3, <1>4, <1>7, <2>3, <2>4 DEF LineAddr
  <2>6. Num(cache.addr[2]) + k = line
    BY <2>1, <2>2, <2>3
  <2>7. Num(cache.addr[2]) + k < Num(SegLen[1])
    BY <2>6, <1>5, <1>6
  <2> QED
    BY <1>1, <2>2, <2>4, <2>5, <2>6, <2>7, ForwardFirst
<1>8. CASE ~CachedBefore(b, line)
  <2>1. LineAddr(line) = Forward(b.start, line - b.first)
    BY <1>3, <1>4, <1>8 DEF LineAddr
  <2>2. line - b.first \in Nat /\ Num(b.start[2]) + (line - b.first) = line
    BY <1>5
  <2>3. Num(b.start[2]) + (line - b.first) < Num(SegLen[1])
    BY <2>2, <1>5, <1>6
  <2> QED
    BY <1>1, <1>5, <2>1, <2>2, <2>3, ForwardFirst
<1> QED
  BY <1>7, <1>8

(* getLineAtAddr() of an address where a line of the first segment begins.  *)
LEMMA LineAtFirst ==
  ASSUME GuiInv, Apart(memlocs), IndexNumbered, CoveredTo(AllEnd), NEW a \in Firsts
  PROVE  /\ LineAtAddr(a) = Num(a[2])
         /\ \E i \in DOMAIN index : InFirst(index[i], Num(a[2]))
<1>1. Typed /\ index \in Seq(Blocks) /\ Chained
  BY DEF GuiInv, BlocksInv
<1>2. a \in Places /\ a[1] = 1 /\ a[2] \in Nat /\ 1 \in Segs /\ SegLen[1] \in Nat
      /\ a[2] < SegLen[1]
  BY FirstsAre
<1>3. PICK i \in DOMAIN index : \A j \in DOMAIN index : InBlock(a, index[j]) <=> j = i
  <2>1. Before(a, AllEnd)
    BY <1>2, AddrsAre DEF Before, AllEnd
  <2> QED
    BY <1>2, <2>1 DEF CoveredTo
<1>4. PICK b : b = index[i]
  OBVIOUS
<1>5. /\ b \in Blocks /\ InBlock(a, b) /\ b.start[1] = 1
      /\ b.start[2] <= a[2] /\ a[2] < b.start[2] + b.len
      /\ b.start[2] \in Nat /\ b.len \in Nat /\ b.first \in Nat /\ b.lc \in Nat
  <2>1. b \in Blocks /\ InBlock(a, b)
    BY <1>1, <1>3, <1>4
  <2>2. b.start \in Segs \X Nat /\ b.len \in Nat /\ b.first \in Nat /\ b.lc \in Nat
    BY <2>1 DEF Blocks
  <2> QED
    BY <1>2, <2>1, <2>2 DEF InBlock
<1>6. Numbered(b) /\ b.start \in Firsts /\ b.first = Num(b.start[2])
      /\ b.first + b.lc = Num(b.start[2] + b.len)
  BY <1>4, <1>5 DEF IndexNumbered, Numbered
<1>7. /\ Num(a[2]) \in Nat /\ b.first <= Num(a[2]) /\ Num(a[2]) < b.first + b.lc
      /\ Num(a[2]) < Num(SegLen[1]) /\ Num(SegLen[1]) \in Nat
  <2>1. Num(a[2]) \in Nat /\ Num(a[2] + 1) \in Nat /\ Num(SegLen[1]) \in Nat
    BY <1>2, NumNat
  <2>2. Num(a[2] + 1) = Num(a[2]) + 1
    <3>1. \A e \in Firsts : e[2] < a[2] + 1 <=> e[2] <= a[2]
      BY <1>2, FirstsAre
    <3> QED
      BY <1>2, <3>1, NumNext
  <2>3. Num(b.start[2]) <= Num(a[2])
    BY <1>2, <1>5, NumGrows
  <2>4. Num(a[2] + 1) <= Num(b.start[2] + b.len)
    BY <1>2, <1>5, NumGrows
  <2>5. Num(a[2] + 1) <= Num(SegLen[1])
    BY <1>2, NumTotal
  <2> QED
    BY <2>1, <2>2, <2>3, <2>4, <2>5, <1>5, <1>6
<1>8. PICK k : k = Num(a[2]) - b.first
  OBVIOUS
<1>9. k \in Nat /\ Num(b.start[2]) + k = Num(a[2])
  BY <1>5, <1>6, <1>7, <1>8
<1>10. ASSUME NEW n \in Nat, n <= k
       PROVE  Forward(b.start, n) \in Firsts /\ Num(Forward(b.start, n)[2]) = Num(b.start[2]) + n
  <2>1. Num(b.start[2]) + n < Num(SegLen[1])
    BY <1>5, <1>6, <1>7, <1>9, <1>10
  <2> QED
    BY <1>1, <1>6, <2>1, ForwardFirst
<1>11. Forward(b.start, k) = a
  <2>1. Forward(b.start, k) \in Firsts /\ Num(Forward(b.start, k)[2]) = Num(a[2])
    BY <1>9, <1>10
  <2> QED
    BY <2>1, NumDiffers
<1>12. k <= b.len
  <2>1. Forward(b.start, k)[2] >= b.start[2] + k
    BY <1>1, <1>6, <1>9, FirstsAre, ForwardMoves
  <2> QED
    BY <1>2, <1>5, <1>9, <1>11, <2>1
<1> DEFINE D == {n \in 0 .. b.len : Forward(b.start, n)[2] >= a[2]}
<1>13. Min(D) = k
  <2>1. k \in D
    BY <1>2, <1>9, <1>11, <1>12
  <2>2. ASSUME NEW n \in D PROVE n \in Nat /\ k <= n
    <3>1. n \in Nat /\ Forward(b.start, n)[2] >= a[2]
      OBVIOUS
    <3>2. ASSUME n < k PROVE FALSE
      <4>1. Forward(b.start, n) \in Firsts /\ Num(Forward(b.start, n)[2]) < Num(a[2])
        BY <3>1, <3>2, <1>5, <1>6, <1>9, <1>10
      <4>2. Forward(b.start, n)[2] < a[2]
        BY <4>1, NumDiffers
      <4>3. Forward(b.start, n)[2] \in Nat
        BY <4>1, FirstsAre
      <4> QED
        BY <3>1, <4>2, <4>3, <1>2
    <3> QED
      BY <3>1, <3>2, <1>9
  <2> HIDE DEF D
  <2>3. \A x \in D : (\A y \in D : x <= y) => x = k
    BY <2>1, <2>2, <1>9
  <2> QED
    BY <2>1, <2>2, <2>3 DEF Min
<1>14. LineAtAddr(a) = b.first + Min(D)
  <2> DEFINE bs == {x \in Range(index) : /\ x.start[1] = a[1]
                                         /\ x.start[2] <= a[2]
                                         /\ a[2] < x.start[2] + x.len}
  <2>1. bs = {b}
    BY <1>3, <1>4 DEF InBlock, Range
  <2>2. bs # {} /\ (CHOOSE x \in bs : TRUE) = b
    BY <2>1
  <2> HIDE DEF D
  <2> QED
    BY <2>2 DEF LineAtAddr, D
<1>15. InFirst(index[i], Num(a[2]))
  BY <1>4, <1>5, <1>7 DEF InFirst
<1> HIDE DEF D
<1> QED
  BY <1>5, <1>7, <1>8, <1>13, <1>14, <1>15

(* The memlocs stay apart: what is created is rejected where it would begin  *)
(* in another, and erases what begins in it.                                *)
LEMMA ApartStep == ASSUME GuiInv, Apart(memlocs), [Next]_vars PROVE Apart(memlocs)'
<1>0. Typed
  BY DEF GuiInv
<1>1. ASSUME memlocs' = memlocs PROVE Apart(memlocs)'
  BY <1>1 DEF Apart
<1>2. ASSUME NEW S, memlocs' = Without(S) PROVE Apart(memlocs)'
  BY <1>0, <1>2, WithoutApart DEF Apart
<1>3. ASSUME NEW a \in Addrs, NEW n \in Lengths, a[2] + n <= SegLen[a[1]], ~Rejected(a),
             memlocs' = Inserted(a, n)
      PROVE  Apart(memlocs)'
  BY <1>0, <1>3, InsertedApart DEF Apart
<1>4. ASSUME NEW a \in Places, NEW n \in Lengths, a[2] + n <= SegLen[a[1]], WorkerInsert(a, n)
      PROVE  Apart(memlocs)'
  <2>1. a \in Addrs
    BY DEF Places
  <2>2. \/ ~Rejected(a) /\ memlocs' = Inserted(a, n)
        \/ memlocs' = Without(Erased(a, n))
    BY <1>4 DEF WorkerInsert
  <2> QED
    BY <2>1, <2>2, <1>2, <1>3, <1>4
<1>5. CASE WorkerStep
  BY <1>1, <1>2, <1>4, <1>5 DEF WorkerStep, WorkerBegin, WorkerNotify, WorkerAnnounce,
                                 WorkerRemove, WorkerEnd
<1>6. ASSUME NEW n \in Lengths, Define(n) PROVE Apart(memlocs)'
  <2> DEFINE a == LineAddr(row)
  <2>1. CASE memlocs' = memlocs
    BY <2>1, <1>1
  <2>2. CASE memlocs' # memlocs
    <3>1. /\ RowExists /\ row # -1 /\ Valid(a) /\ Plus(a, n)[2] <= SegLen[a[1]]
          /\ \/ ~Rejected(a) /\ memlocs' = Inserted(a, n)
             \/ memlocs' = Without(Erased(a, n))
      BY <1>6, <2>2 DEF Define, project
    <3>2. a \in Segs \X Nat
      BY <3>1, RowAddr
    <3> HIDE DEF a
    <3>3. a \in Addrs
      <4>1. a[2] < SegLen[a[1]] /\ SegLen[a[1]] \in Nat
        BY <3>1, <3>2, AddrsAre DEF Valid
      <4> QED
        BY <3>2, <4>1, AddrsAre
    <3>4. a[2] + n <= SegLen[a[1]]
      BY <3>1 DEF Plus
    <3> QED
      BY <3>1, <3>3, <3>4, <1>2, <1>3
  <2> QED
    BY <2>1, <2>2
<1>7. CASE UserStep
  BY <1>1, <1>6, <1>7 DEF UserStep, Paint, Select, Jump, project
<1>8. CASE RefreshStep
  BY <1>1, <1>8 DEF RefreshStep, UpdateTimeout, UpdateBegin, UpdateLine, UpdateEnd, Flush,
                    ClearUpdated, project
<1>9. CASE UNCHANGED vars
  BY <1>1, <1>9 DEF vars, project
<1> QED
  BY <1>5, <1>7, <1>8, <1>9 DEF Next

(* A step that leaves the index current changes no memloc, moves neither    *)
(* the walk nor its iterator, and remembers a line that it looks up.        *)
Quiet ==
  /\ Seen /\ UNCHANGED <<memlocs, index>>
  /\ gui' = "scan" => gui = "scan" /\ UNCHANGED <<memind, cins, li>>
  /\ gui = "scan" => gui' = "scan"
  /\ \/ UNCHANGED cache
     \/ \E line \in Nat : line < LineCount /\ cache' = Look(line)

LEMMA SeenIsQuiet ==
  ASSUME GuiInv, IInv, [Next]_vars, Seen', ~UpdateLine, ~(UpdateBegin /\ dirty)
  PROVE  Quiet
<1>0. Typed /\ Looks /\ unseen \in BOOLEAN /\ gui \in Phases
  BY DEF GuiInv, IInv, Flags, Typed
<1>1. Without({}) = memlocs
  BY <1>0 DEF Typed, Without, Restrict, Starts
<1>2. IteratorWithout({}) = li
  BY DEF IteratorWithout
<1>3. ~unseen' /\ gui' # "exited"
  BY DEF Seen
<1>4. ASSUME UNCHANGED <<memlocs, index, gui, memind, cins, li, cache>>, ~unseen,
             gui # "exited"
      PROVE  Quiet
  BY <1>4 DEF Quiet, Seen
<1>5. CASE WorkerStep
  <2>1. UNCHANGED <<index, gui, memind, cins, cache>> /\ gui # "exited"
    BY <1>5 DEF WorkerStep, WorkerBegin, WorkerInsert, WorkerNotify, WorkerAnnounce,
                WorkerRemove, WorkerEnd, guiUnchanged, At, Running
  <2>2. CASE UNCHANGED <<memlocs, li, unseen>>
    BY <2>1, <2>2, <1>3, <1>4
  <2>3. CASE WorkerRemove
    <3>1. ~unseen /\ removing \notin Starts
      BY <2>3, <1>3, <1>0 DEF WorkerRemove
    <3>2. memlocs' = Without({removing}) /\ Without({removing}) = Without({})
      BY <2>3, <3>1 DEF WorkerRemove, Without
    <3>3. Starts \cap {removing} = {}
      BY <3>1
    <3>4. li' = li
      BY <2>3, <3>3, <1>2 DEF WorkerRemove
    <3> QED
      BY <2>1, <3>1, <3>2, <3>4, <1>1, <1>4
  <2>4. ASSUME NEW a \in Places, NEW n \in Lengths, WorkerInsert(a, n) PROVE Quiet
    <3>1. /\ unseen' = (unseen \/ Erased(a, n) # {}) /\ memlocs' = Without(Erased(a, n))
          /\ li' = IteratorWithout(Erased(a, n))
      BY <2>4, <1>3 DEF WorkerInsert
    <3>2. ~unseen /\ Erased(a, n) = {}
      BY <3>1, <1>3, <1>0
    <3> QED
      BY <2>1, <3>1, <3>2, <1>1, <1>2, <1>4
  <2> QED
    BY <1>5, <2>2, <2>3, <2>4 DEF WorkerStep, WorkerBegin, WorkerNotify, JobFails,
                                  WorkerAnnounce, WorkerEnd, history
<1>6. ASSUME UNCHANGED <<memlocs, index, unseen>>, gui # "exited",
             gui \notin {"scan"}, gui' \notin {"scan"},
             \/ UNCHANGED cache
             \/ \E line \in Nat : line < LineCount /\ cache' = Look(line)
      PROVE  Quiet
  <2> HIDE DEF Look
  <2> QED
    BY <1>3, <1>6 DEF Quiet, Seen
<1>7. ASSUME row = -1 \/ RowExists, ReadRow
      PROVE  UNCHANGED cache \/ (\E line \in Nat : line < LineCount /\ cache' = Look(line))
  <2>1. CASE row = -1
    BY <1>7, <2>1 DEF ReadRow
  <2>2. CASE row # -1
    <3>1. row \in Nat /\ row < LineCount
      BY <1>7, <2>2, RowAddr
    <3> HIDE DEF Look
    <3> QED
      BY <1>7, <2>2, <3>1 DEF ReadRow
  <2> QED
    BY <2>1, <2>2
<1> HIDE DEF Look
<1>8. ASSUME NEW r \in 0 .. LineCount - 1, Paint(r) \/ Select(r) PROVE Quiet
  <2>1. LineCount \in Nat
    BY LineCountNat DEF GuiInv, BlocksInv
  <2>2. r \in Nat /\ r < LineCount
    BY <2>1
  <2>3. UNCHANGED <<memlocs, index, unseen, gui>> /\ gui = "idle"
        /\ (UNCHANGED cache \/ cache' = Look(r))
    BY <1>8 DEF Paint, Select, project, history
  <2> QED
    BY <2>2, <2>3, <1>6
<1>9. ASSUME NEW a \in Places, Jump(a) PROVE Quiet
  <2>1. UNCHANGED <<memlocs, index, unseen>> /\ gui = "idle" /\ gui' \in {"idle", "aborted"}
    BY <1>9 DEF Jump, Abort, project, history
  <2>2. UNCHANGED cache \/ (RowExists /\ ReadRow)
    BY <1>9 DEF Jump, Abort
  <2> QED
    BY <2>1, <2>2, <1>6, <1>7
<1>10. ASSUME NEW n \in Lengths, Define(n) PROVE Quiet
  <2>1. UNCHANGED <<memlocs, index, unseen>> /\ gui = "idle" /\ gui' \in {"idle", "aborted"}
    BY <1>10, <1>3 DEF Define, Abort, project, history
  <2>2. UNCHANGED cache \/ (RowExists /\ ReadRow)
    BY <1>10 DEF Define, Abort
  <2> QED
    BY <2>1, <2>2, <1>6, <1>7
<1>11. CASE UpdateTimeout
  <2>1. UNCHANGED <<memlocs, index, unseen>> /\ gui = "idle" /\ gui' \in {"update", "aborted"}
    BY <1>11 DEF UpdateTimeout, Abort, project, history
  <2>2. UNCHANGED cache \/ (RowExists /\ ReadRow)
    BY <1>11 DEF UpdateTimeout, Abort
  <2> QED
    BY <2>1, <2>2, <1>6, <1>7
<1>12. CASE UpdateBegin /\ ~dirty
  <2>1. UNCHANGED <<memlocs, index, unseen, cache>> /\ gui = "update" /\ gui' = "flush"
    BY <1>12 DEF UpdateBegin, project, history
  <2> QED
    BY <2>1, <1>6
<1>13. CASE UpdateEnd \/ Flush \/ ClearUpdated
  <2>1. UNCHANGED <<memlocs, index, unseen, cache>> /\ gui \in {"clean", "flush", "listened"}
        /\ gui' \in {"flush", "listened", "idle"}
    BY <1>13 DEF UpdateEnd, Flush, ClearUpdated, project, history
  <2> QED
    BY <2>1, <1>6
<1>14. CASE UNCHANGED vars
  <2>1. UNCHANGED <<memlocs, index, gui, memind, cins, li, cache, unseen>>
    BY <1>14 DEF vars, project, walk, history
  <2> QED
    BY <2>1, <1>3, <1>4
<1> QED
  BY <1>5, <1>8, <1>9, <1>10, <1>11, <1>12, <1>13, <1>14
     DEF Next, UserStep, RefreshStep

LEMMA QuietKeeps ==
  ASSUME GuiInv, LinesInv, Quiet
  PROVE  Current'
<1>1. /\ Typed /\ index \in Seq(Blocks) /\ Chained
      /\ Apart(memlocs) /\ Current
  BY DEF GuiInv, BlocksInv, LinesInv, Quiet
<1>2. UNCHANGED <<memlocs, index>>
  BY DEF Quiet
<1>3. /\ Firsts' = Firsts /\ \A n : Num(n)' = Num(n)
      /\ Starts' = Starts /\ LineCount' = LineCount
  BY <1>2 DEF Firsts, LineStarts, Covering, Num, Upto, Starts, LineCount
<1>4. IndexNumbered'
  BY <1>1, <1>2, <1>3 DEF Current, IndexNumbered, Numbered
<1>5. WalkNumbered'
  <2> SUFFICES ASSUME gui' = "scan", memind'[1] = 1 PROVE WalkNumbered'
    BY DEF WalkNumbered
  <2>1. gui = "scan" /\ UNCHANGED <<memind, cins, li>>
    BY DEF Quiet
  <2>2. WalkNumbered
    BY <1>1 DEF Current
  <2> QED
    BY <2>1, <2>2, <1>2, <1>3 DEF WalkNumbered, Numbered
<1>6. CacheNumbered'
  <2>1. CASE UNCHANGED cache
    BY <2>1, <1>1, <1>2, <1>3 DEF Current, CacheNumbered, InFirst
  <2>2. CASE \E line \in Nat : line < LineCount /\ cache' = Look(line)
    <3>1. PICK line \in Nat : cache' = Look(line)
      BY <2>2
    <3>2. cache'.line = line /\ cache'.addr = LineAddr(line)
      BY <3>1 DEF Look
    <3>3. \A i \in DOMAIN index : InFirst(index[i], line) =>
            LineAddr(line) \in Firsts /\ Num(LineAddr(line)[2]) = line
      BY <1>1, LineAddrFirst DEF Current
    <3> QED
      BY <3>2, <3>3, <1>2, <1>3 DEF CacheNumbered, InFirst
  <2> QED
    BY <2>1, <2>2 DEF Quiet
<1>7. gui' # "scan" => CoveredTo(AllEnd)'
  BY <1>1, <1>2 DEF Quiet, Current, CoveredTo, AllEnd
<1> QED
  BY <1>4, <1>5, <1>6, <1>7 DEF Current

(* The walk begins at the first line. *)
LEMMA BeginKeeps ==
  ASSUME GuiInv, LinesInv, UpdateBegin, dirty
  PROVE  Current'
<1>1. /\ index' = <<>> /\ cache' = NoCache /\ memind' = <<1, 0>>
      /\ li' = FirstOf(Starts) /\ cins' = NoBlock /\ memlocs' = memlocs
      /\ gui' = IF SegLen = <<>> THEN "clean" ELSE "scan"
  BY DEF UpdateBegin, IndexCleared, CacheForgotten, project
<1>2. Starts \subseteq Nat \X Nat
  BY AddrsAre DEF GuiInv, Typed
<1>3. FirstOf(Starts) \in Starts \cup {End}
  BY <1>2, FirstIsEntry
<1>4. IndexNumbered' /\ CacheNumbered'
  BY <1>1 DEF IndexNumbered, CacheNumbered
<1>5. gui' # "scan" => CoveredTo(AllEnd)'
  <2>1. BlocksInv'
    BY BlocksStep DEF Next, RefreshStep
  <2> QED
    BY <1>1, <2>1 DEF BlocksInv, Walked
<1>6. ASSUME SegLen # <<>> PROVE WalkNumbered'
  <2>1. 1 \in Segs /\ <<1, 0>> \in Places
    <3>1. Len(SegLen) # 0
      BY <1>6, GuiAssumption
    <3>2. 1 \in Segs
      BY <3>1, AddrsAre
    <3> QED
      BY <3>2, AddrsAre
  <2>2. \A b \in Starts : memlocs[b] \in Nat \ {0} /\ b = <<b[1], b[2]>> /\ b[2] \in Nat
    <3>1. \A b \in Starts : memlocs[b] \in Lengths
      BY DEF GuiInv, Typed
    <3>2. \A b \in Starts : b = <<b[1], b[2]>> /\ b[2] \in Nat
      BY <1>2
    <3> QED
      BY <3>1, <3>2, GuiAssumption
  <2>3. Covering(memlocs, <<1, 0>>) \subseteq {<<1, 0>>}
    BY <2>2 DEF Covering, Starts
  <2>4. <<1, 0>> \in Firsts
    BY <2>1, <2>3 DEF Firsts, LineStarts
  <2>5. FirstOf(Starts) # Dangling
    BY <1>2, <1>3, GuiAssumption
  <2>6. ASSUME NEW e \in Starts
        PROVE  FirstOf(Starts) # End /\ (e = FirstOf(Starts) \/ Before(FirstOf(Starts), e))
    BY <1>2, FirstIsLeast
  <2>7. Num(0) = 0
    <3>1. Upto(0) = {}
      BY FirstsAre DEF Upto
    <3> QED
      BY <3>1, FS_EmptySet DEF Num
  <2>8. Firsts' = Firsts /\ Num(0)' = Num(0) /\ Starts' = Starts
    BY <1>1 DEF Firsts, LineStarts, Covering, Num, Upto, Starts
  <2>9. LineCount' = 0
    BY <1>1 DEF LineCount
  <2> QED
    BY <1>1, <2>4, <2>5, <2>6, <2>7, <2>8, <2>9 DEF WalkNumbered
<1>7. CASE SegLen = <<>>
  BY <1>1, <1>4, <1>5, <1>7 DEF Current, WalkNumbered
<1>8. CASE SegLen # <<>>
  BY <1>4, <1>5, <1>6, <1>8 DEF Current
<1> QED
  BY <1>7, <1>8

(* One line of the walk in the first segment: the iterator finds the memloc *)
(* at memind if there is one, so that the walk goes on where that ends.     *)
LEMMA WalkTakesNext ==
  ASSUME GuiInv, LinesInv, Seen, gui = "scan", memind[1] = 1,
         NEW p \in Positions, NEW n \in Steps(p)
  PROVE  /\ n = IF memind \in Starts THEN memlocs[memind] ELSE 1
         /\ p # Dangling
         /\ \A e \in Starts : e[1] = 1 /\ e[2] >= memind[2] =>
                                p # End /\ (e = p \/ Before(p, e))
<1>1. /\ Typed /\ memind \in Firsts /\ li # Dangling
      /\ \A e \in Starts : e[1] = 1 /\ e[2] >= memind[2] =>
                             li # End /\ (e = li \/ Before(li, e))
  BY DEF GuiInv, LinesInv, Current, WalkNumbered
<1>2. Starts \subseteq Nat \X Nat
  BY <1>1, AddrsAre DEF Typed
<1>3. PICK S : S = {e \in Starts : e[1] = 1 /\ e[2] >= memind[2]}
  OBVIOUS
<1>4. p = FirstOf(S)
  <2>1. {e \in Starts : /\ li # End
                        /\ e = li \/ Before(li, e)
                        /\ e[1] = memind[1] /\ e[2] >= memind[2]} = S
    BY <1>1, <1>3
  <2>2. p = Advanced
    BY <1>1 DEF Positions
  <2> QED
    BY <2>1, <2>2 DEF Advanced
<1>5. S \subseteq Nat \X Nat
  BY <1>2, <1>3
<1>6. p \in S \cup {End}
  BY <1>4, <1>5, FirstIsEntry
<1>7. \A e \in S : p # End /\ (e = p \/ Before(p, e))
  BY <1>4, <1>5, FirstIsLeast
<1>8. p # Dangling
  BY <1>5, <1>6, GuiAssumption
<1>9. p = memind <=> memind \in Starts
  <2>1. memind = <<1, memind[2]>> /\ memind[1] = 1 /\ memind[2] \in Nat
    BY <1>1, FirstsAre
  <2>2. ASSUME memind \in Starts PROVE p = memind
    <3>1. memind \in S
      BY <1>3, <2>1, <2>2
    <3>2. p \in S /\ (memind = p \/ Before(p, memind))
      BY <1>6, <1>7, <3>1
    <3>3. p[1] = 1 /\ p[2] >= memind[2] /\ p[2] \in Nat
      BY <1>3, <1>5, <3>2
    <3> QED
      BY <2>1, <3>2, <3>3 DEF Before
  <2>3. ASSUME p = memind PROVE memind \in Starts
    <3>1. memind # End
      BY <2>1, GuiAssumption
    <3> QED
      BY <1>3, <1>6, <2>3, <3>1
  <2> QED
    BY <2>2, <2>3
<1>10. n = IF memind \in Starts THEN memlocs[memind] ELSE 1
  BY <1>8, <1>9 DEF Steps
<1> QED
  BY <1>3, <1>7, <1>8, <1>10

LEMMA LineKeeps ==
  ASSUME GuiInv, LinesInv, Seen, UpdateLine
  PROVE  Current'
<1>1. /\ Typed /\ index \in Seq(Blocks) /\ Chained /\ memind \in Places /\ OpenBlock
      /\ Apart(memlocs) /\ Current /\ gui = "scan" /\ Looks
  BY DEF GuiInv, BlocksInv, Walking, UpdateLine, LinesInv
<1>2. /\ Firsts' = Firsts /\ \A k : Num(k)' = Num(k) /\ Starts' = Starts
      /\ UNCHANGED <<memlocs, cache>>
  <2>1. UNCHANGED <<memlocs, cache>>
    BY DEF UpdateLine, project
  <2> QED
    BY <2>1 DEF Firsts, LineStarts, Covering, Num, Upto, Starts
<1>3. PICK p \in Positions : \E n \in Steps(p) :
        LET b == Grown(n)
            ends == ~Valid(Plus(memind, n))
            closes == ends \/ b.len > BlockSize
        IN /\ li' = p
           /\ index' = IF closes THEN Append(index, b) ELSE index
           /\ cins' = IF closes THEN NoBlock ELSE b
           /\ memind' = IF ends THEN <<memind[1] + 1, 0>> ELSE Plus(memind, n)
           /\ gui' = IF ends /\ memind[1] = Len(SegLen) THEN "clean" ELSE "scan"
  BY DEF UpdateLine
<1>4. PICK n \in Steps(p) :
        LET b == Grown(n)
            ends == ~Valid(Plus(memind, n))
            closes == ends \/ b.len > BlockSize
        IN /\ li' = p
           /\ index' = IF closes THEN Append(index, b) ELSE index
           /\ cins' = IF closes THEN NoBlock ELSE b
           /\ memind' = IF ends THEN <<memind[1] + 1, 0>> ELSE Plus(memind, n)
           /\ gui' = IF ends /\ memind[1] = Len(SegLen) THEN "clean" ELSE "scan"
  BY <1>3
<1>5. n \in Nat \ {0}
  BY <1>1, WalkSteps
<1>6. PICK b : b = Grown(n)
  OBVIOUS
<1>7. /\ b \in Blocks /\ b # NoBlock /\ b.first = LineCount /\ b.start = Frontier
      /\ b.start[1] = memind[1] /\ b.start[2] + b.len = memind[2] + n
      /\ b.lc = IF cins = NoBlock THEN 1 ELSE cins.lc + 1
  <2>1. /\ b \in Blocks /\ b # NoBlock /\ b.first = LineCount /\ b.start = Frontier
        /\ b.start[1] = memind[1] /\ b.start[2] + b.len = memind[2] + n
    BY <1>1, <1>5, <1>6, GrownIs
  <2>2. CASE cins = NoBlock
    BY <1>6, <2>1, <2>2 DEF Grown
  <2>3. CASE cins # NoBlock
    <3>1. b = [first |-> cins.first, start |-> cins.start,
               len |-> cins.len + n, lc |-> cins.lc + 1]
      BY <1>1, <1>6, <2>3 DEF Grown, OpenBlock, Blocks
    <3> QED
      BY <2>1, <2>3, <3>1
  <2> QED
    BY <2>1, <2>2, <2>3
<1>8. ASSUME memind[1] = 1
      PROVE  /\ Numbered(b) /\ b.first + b.lc = Num(memind[2] + n)
             /\ Valid(Plus(memind, n)) => Plus(memind, n) \in Firsts
  <2>1. /\ memind \in Firsts
        /\ IF cins = NoBlock THEN LineCount = Num(memind[2]) ELSE Numbered(cins)
    BY <1>1, <1>8 DEF Current, WalkNumbered
  <2>2. n = IF memind \in Starts THEN memlocs[memind] ELSE 1
    BY <1>1, <1>8, WalkTakesNext
  <2>3. PICK z \in Nat : /\ z = memind[2] + n
                         /\ z < SegLen[1] => <<1, z>> \in Firsts
                         /\ Num(z) = Num(memind[2]) + 1
    BY <1>1, <2>1, <2>2, NextFirst
  <2>4. Num(memind[2]) \in Nat /\ memind[2] \in Nat /\ LineCount \in Nat
    BY <1>1, <2>1, FirstsAre, NumNat, LineCountNat
  <2>5. Numbered(b) /\ b.first + b.lc = Num(memind[2] + n)
    <3>1. CASE cins = NoBlock
      BY <1>7, <2>1, <2>3, <2>4, <3>1 DEF Numbered, Frontier
    <3>2. CASE cins # NoBlock
      <4>1. /\ cins.first = LineCount /\ cins.start[2] + cins.len = memind[2]
            /\ cins.first \in Nat /\ cins.lc \in Nat
        BY <1>1, <3>2 DEF OpenBlock, Blocks
      <4>2. /\ cins.start \in Firsts /\ cins.first = Num(cins.start[2])
            /\ cins.first + cins.lc = Num(memind[2])
        BY <2>1, <3>2, <4>1 DEF Numbered
      <4>3. b.start = cins.start /\ b.first = cins.first /\ b.lc = cins.lc + 1
        BY <1>7, <3>2, <4>1 DEF Frontier
      <4> QED
        BY <1>7, <2>3, <4>1, <4>2, <4>3 DEF Numbered
    <3> QED
      BY <3>1, <3>2
  <2>6. Plus(memind, n) = <<1, memind[2] + n>>
    BY <1>8 DEF Plus
  <2> QED
    BY <2>3, <2>5, <2>6 DEF Valid
<1>9. IndexNumbered'
  <2>1. CASE index' = index
    BY <1>1, <1>2, <2>1 DEF Current, IndexNumbered, Numbered
  <2>2. CASE index' = Append(index, b)
    <3>1. /\ DOMAIN index' = DOMAIN index \cup {Len(index) + 1}
          /\ \A i \in DOMAIN index : index'[i] = index[i]
          /\ index'[Len(index) + 1] = b
      BY <1>1, <2>2
    <3>2. b.start[1] = 1 => Numbered(b)
      BY <1>7, <1>8
    <3>3. \A i \in DOMAIN index' : index'[i].start[1] = 1 => Numbered(index'[i])
      BY <1>1, <3>1, <3>2 DEF Current, IndexNumbered
    <3> QED
      BY <1>2, <3>3 DEF IndexNumbered, Numbered
  <2> QED
    BY <1>4, <1>6, <2>1, <2>2
<1>10. WalkNumbered'
  <2> SUFFICES ASSUME gui' = "scan", memind'[1] = 1 PROVE WalkNumbered'
    BY DEF WalkNumbered
  <2>1. memind[1] = 1 /\ Valid(Plus(memind, n)) /\ memind' = Plus(memind, n)
    <3>1. memind[1] \in Nat \ {0}
      BY <1>1, AddrsAre
    <3>2. ~Valid(Plus(memind, n)) => memind'[1] = memind[1] + 1
      BY <1>4
    <3>3. Valid(Plus(memind, n))
      BY <3>1, <3>2
    <3> QED
      BY <1>4, <3>3 DEF Plus
  <2>2. /\ memind' \in Firsts /\ Numbered(b) /\ b.first + b.lc = Num(memind[2] + n)
        /\ memind'[2] = memind[2] + n
    BY <1>8, <2>1 DEF Plus
  <2>3. /\ p # Dangling
        /\ \A e \in Starts : e[1] = 1 /\ e[2] >= memind[2] =>
                               p # End /\ (e = p \/ Before(p, e))
    BY <1>1, <2>1, WalkTakesNext
  <2>4. \A e \in Starts : e[1] = 1 /\ e[2] >= memind'[2] =>
                            p # End /\ (e = p \/ Before(p, e))
    <3>1. memind[2] \in Nat /\ \A e \in Starts : e[2] \in Nat
      BY <1>1, AddrsAre DEF Typed
    <3> QED
      BY <1>5, <2>2, <2>3, <3>1
  <2>5. IF cins' = NoBlock THEN LineCount' = Num(memind'[2]) ELSE Numbered(cins')
    <3>1. CASE b.len > BlockSize
      <4>1. index' = Append(index, b) /\ cins' = NoBlock
        BY <1>4, <1>6, <3>1
      <4>2. index' # <<>> /\ index'[Len(index')] = b
        BY <1>1, <4>1
      <4>3. LineCount' = b.first + b.lc
        BY <4>2 DEF LineCount
      <4> QED
        BY <2>2, <4>1, <4>3
    <3>2. CASE ~(b.len > BlockSize)
      <4>1. cins' = b
        BY <1>4, <1>6, <2>1, <3>2
      <4> QED
        BY <1>7, <2>2, <4>1
    <3> QED
      BY <3>1, <3>2
  <2>6. li' = p
    BY <1>4
  <2> QED
    BY <1>2, <2>2, <2>3, <2>4, <2>5, <2>6 DEF WalkNumbered, Numbered
<1>11. CacheNumbered'
  BY <1>1, <1>2 DEF Looks, CacheNumbered
<1>12. gui' # "scan" => CoveredTo(AllEnd)'
  <2>1. BlocksInv' /\ gui' \in {"scan", "clean"}
    BY <1>4, LineKeepsBlocks
  <2> QED
    BY <2>1 DEF BlocksInv, Walked
<1> QED
  BY <1>9, <1>10, <1>11, <1>12 DEF Current

(* The index, the walk and the remembered line are those of the memlocs as  *)
(* they are, as long as none has changed since the walk began.              *)
THEOREM GuiLinesInv == Spec => []LinesInv
<1>1. Init => LinesInv
  BY DEF Init, LinesInv, Apart, Seen
<1>2. GuiInv /\ IInv /\ LinesInv /\ [Next]_vars => LinesInv'
  <2> SUFFICES ASSUME GuiInv, IInv, LinesInv, [Next]_vars PROVE LinesInv'
    OBVIOUS
  <2>1. Apart(memlocs)'
    BY ApartStep DEF LinesInv
  <2>2. ASSUME Seen' PROVE Current'
    <3>1. CASE UpdateLine
      <4>1. Seen
        BY <2>2, <3>1 DEF UpdateLine, Seen, history
      <4> QED
        BY <3>1, <4>1, LineKeeps
    <3>2. CASE UpdateBegin /\ dirty
      BY <3>2, BeginKeeps
    <3>3. CASE ~UpdateLine /\ ~(UpdateBegin /\ dirty)
      BY <2>2, <3>3, SeenIsQuiet, QuietKeeps
    <3> QED
      BY <3>1, <3>2, <3>3
  <2> QED
    BY <2>1, <2>2 DEF LinesInv
<1> QED
  BY <1>1, <1>2, GuiInvHolds, GuiInvariant, PTL DEF Spec

(* When nothing has changed since the refresh, the lines of the first       *)
(* segment are numbered in order, and the line of an address and the        *)
(* address of a line are inverse to each other, whatever line was looked up *)
(* last (getLineAddr(), getLineAtAddr()).                                   *)
THEOREM GuiLinesInverse == Spec => []LinesInverse
<1>1. GuiInv /\ LinesInv => LinesInverse
  <2> SUFFICES ASSUME GuiInv, LinesInv, Settled, NEW a \in LineStarts(1)
               PROVE  LET line == Cardinality({b \in LineStarts(1) : Before(b, a)})
                      IN LineAtAddr(a) = line /\ LineAddr(line) = a
    BY DEF LinesInverse
  <2>1. /\ Apart(memlocs) /\ IndexNumbered /\ CacheNumbered /\ CoveredTo(AllEnd)
        /\ a \in Firsts
    BY DEF LinesInv, Settled, Seen, Current, Firsts
  <2>2. {b \in LineStarts(1) : Before(b, a)} = Upto(a[2])
    BY <2>1, FirstsAre DEF Upto, Before, Firsts
  <2>3. Cardinality({b \in LineStarts(1) : Before(b, a)}) = Num(a[2])
    BY <2>2 DEF Num
  <2>4. Num(a[2]) \in Nat
    BY <2>1, FirstsAre, NumNat
  <2>5. /\ LineAtAddr(a) = Num(a[2])
        /\ \E i \in DOMAIN index : InFirst(index[i], Num(a[2]))
    BY <2>1, LineAtFirst
  <2>6. LineAddr(Num(a[2])) \in Firsts /\ Num(LineAddr(Num(a[2]))[2]) = Num(a[2])
    BY <2>1, <2>4, <2>5, LineAddrFirst
  <2>7. LineAddr(Num(a[2])) = a
    BY <2>1, <2>6, NumDiffers
  <2> QED
    BY <2>3, <2>5, <2>7
<1> QED
  BY <1>1, GuiInvHolds, GuiLinesInv, PTL
=============================================================================
