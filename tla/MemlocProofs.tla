---------------------------- MODULE MemlocProofs ----------------------------
(***************************************************************************)
(* Proofs about the memory location table, for every layout of segments,   *)
(* every set of memlocs and every number of threads.                       *)
(*                                                                         *)
(* TInv is inductive: the types, the agreement of the two tables, and that *)
(* a memloc that is not inserted yet is in no table.  That no memlocs      *)
(* overlap needs the search of findMemloc() to be complete, which looks at *)
(* the nearest entry only: CoverIsFound shows that, when memlocs do not    *)
(* overlap and start inside their segments, an entry that covers an        *)
(* address is the nearest one before it.  That the links are sound needs   *)
(* what the table will be after an insertion that is under way (LinksInv). *)
(***************************************************************************)
EXTENDS MemlocManager, WellFoundedInduction, TLAPS

(* Values of addresses are integers. *)
LEMMA ValueInt ==
  /\ \A o \in Objs : Value(o) \in Int
  /\ \A o \in Objs : /\ Seg[o] \in Segs /\ Off[o] \in Int
                     /\ Len[o] \in Nat \ {0} /\ Base[Seg[o]] \in Nat
                     /\ Value(o) = Base[Seg[o]] + Off[o]
BY MemlocAssumption DEF Value, ValueAt

(* Among the memlocs at or before an address one is nearest. *)
LEMMA NearestExists ==
  ASSUME NEW m \in SUBSET Objs, NEW v \in Int, NEW o \in m, Value(o) <= v
  PROVE  \E p \in Nearest(m, v) : Value(o) <= Value(p)
<1> USE ValueInt
<1> DEFINE D == {v - Value(p) : p \in {q \in m : Value(q) <= v}}
<1>1. D \subseteq Nat /\ D # {}
  OBVIOUS
<1>2. PICK d \in D : \A e \in D : ~(<<e, d>> \in OpToRel(<, Nat))
  <2> HIDE DEF D
  <2>1. QED
    BY <1>1, WFMin, NatLessThanWellFounded
<1>3. \A e \in D : d <= e
  <2> SUFFICES ASSUME NEW e \in D PROVE d <= e
    OBVIOUS
  <2>1. d \in Nat /\ e \in Nat
    BY <1>1
  <2>2. ~(e < d)
    <3> HIDE DEF D
    <3>1. QED
      BY <1>2, <2>1 DEF OpToRel
  <2>3. QED
    BY <2>1, <2>2
<1>4. PICK p \in m : Value(p) <= v /\ d = v - Value(p)
  OBVIOUS
<1>5. \A q \in m : Value(q) <= v => Value(q) <= Value(p)
  <2> SUFFICES ASSUME NEW q \in m, Value(q) <= v
               PROVE  Value(q) <= Value(p)
    OBVIOUS
  <2>1. d <= v - Value(q)
    BY <1>3
  <2>2. QED
    BY <2>1, <1>4
<1>6. QED
  BY <1>4, <1>5 DEF Nearest

-----------------------------------------------------------------------------
(* The tables and their types. *)

(* A memloc that is not inserted yet is in no table, and belongs to the    *)
(* one thread that constructed it.                                         *)
FreshApart ==
  \A t \in Threads : fresh[t] # NoMemloc =>
    /\ fresh[t] \notin hash
    /\ \A u \in Threads : u # t => fresh[u] # fresh[t]

TInv == TypeOK /\ TablesAgree /\ FreshApart

(* What find returns is a memloc of the tables or the null pointer. *)
LEMMA PointerType ==
  ASSUME TypeOK, NEW o \in Objs
  PROVE  PrevOf(o) \in alive \cup {NoMemloc} /\ NextOf(o) \in alive \cup {NoMemloc}
<1>1. \A S : S \subseteq alive => ThePointer(S) \in alive \cup {NoMemloc}
  BY DEF ThePointer
<1>2. \A s, x : Exact(hash, s, x) \subseteq alive /\ Inside(memdata, hash, s, x) \subseteq alive
  BY DEF Exact, Inside, Nearest, TypeOK
<1>3. QED
  BY <1>1, <1>2 DEF PrevOf, NextOf

(* When the tables agree, what an insertion erases leaves them equal, and  *)
(* leaves no memloc at the address value of the new one.                   *)
LEMMA ErasedAlike ==
  ASSUME TypeOK, TablesAgree, NEW o \in Objs
  PROVE  /\ HashWithout(Overwritten(o)) = memdata \ Overwritten(o)
         /\ \A p \in memdata \ Overwritten(o) : Value(p) # Value(o)
<1>1. \A p, q \in Objs : SameAddr(p, q) => Value(p) = Value(q)
  BY DEF SameAddr, Value
<1>2. \A p \in Objs : SameAddr(p, p)
  BY DEF SameAddr
<1>3. Overwritten(o) \subseteq memdata /\ memdata = hash /\ memdata \subseteq Objs
  BY DEF Overwritten, TypeOK, TablesAgree
<1>4. \A p \in memdata : Value(p) = Value(o) => p \in Overwritten(o)
  BY <1>3, ValueInt DEF Overwritten
<1>5. \A p, q \in memdata : SameAddr(p, q) => p = q
  BY <1>1, <1>3 DEF TablesAgree
<1>6. HashWithout(Overwritten(o)) = memdata \ Overwritten(o)
  BY <1>2, <1>3, <1>5 DEF HashWithout
<1>7. QED
  BY <1>4, <1>6

LEMMA TInit == Init => TInv
BY DEF Init, TInv, TypeOK, TablesAgree, FreshApart

LEMMA TConstruct ==
  ASSUME TInv, NEW t \in Threads, NEW o \in Objs, Construct(t, o)
  PROVE  TInv'
<1> DEFINE before == PrevOf(o)
           after  == NextOf(o)
<1>0. TypeOK /\ TablesAgree /\ FreshApart
  BY DEF TInv
<1>1. before \in Objs \cup {NoMemloc} /\ after \in Objs \cup {NoMemloc}
  BY <1>0, PointerType DEF TypeOK
<1>2. /\ o \notin alive /\ alive' = alive \cup {o} /\ fresh[t] = NoMemloc
      /\ fresh' = [fresh EXCEPT ![t] = o]
      /\ memdata' = memdata /\ hash' = hash
      /\ disturbed' \in BOOLEAN
  BY <1>0 DEF Construct, tables, TypeOK, Inserting
<1>3. prev' \in [Objs -> Objs \cup {NoMemloc}] /\ next' \in [Objs -> Objs \cup {NoMemloc}]
  <2>1. prev' = [p \in Objs |-> IF p = o THEN before
                               ELSE IF p = after THEN o ELSE prev[p]]
    BY DEF Construct
  <2>2. next' = [p \in Objs |-> IF p = o THEN after
                               ELSE IF p = before THEN o ELSE next[p]]
    BY DEF Construct
  <2> HIDE DEF before, after
  <2>3. QED
    BY <1>0, <1>1, <2>1, <2>2 DEF TypeOK
<1>4. TypeOK'
  BY <1>0, <1>2, <1>3 DEF TypeOK
<1>5. TablesAgree'
  BY <1>0, <1>2 DEF TablesAgree
<1>6. FreshApart'
  <2>1. o \notin hash /\ o # NoMemloc
    BY <1>0, <1>2, MemlocAssumption DEF TypeOK
  <2>2. \A u \in Threads : fresh[u] # o
    BY <1>0, <1>2, <2>1 DEF TypeOK
  <2>3. \A u \in Threads : fresh'[u] = IF u = t THEN o ELSE fresh[u]
    BY <1>0, <1>2 DEF TypeOK
  <2>4. QED
    BY <1>0, <1>2, <2>1, <2>2, <2>3 DEF FreshApart
<1>7. QED
  BY <1>4, <1>5, <1>6 DEF TInv

LEMMA TInsert ==
  ASSUME TInv, NEW t \in Threads, Insert(t)
  PROVE  TInv'
<1> DEFINE o == fresh[t]
<1>0. TypeOK /\ TablesAgree /\ FreshApart
  BY DEF TInv
<1>1. o \in alive /\ o \in Objs /\ o # NoMemloc
  BY <1>0 DEF Insert, TypeOK
<1>2. /\ fresh' = [fresh EXCEPT ![t] = NoMemloc]
      /\ alive' = alive /\ prev' = prev /\ next' = next
      /\ disturbed' \in BOOLEAN
  BY <1>0 DEF Insert, links, TypeOK, Inserting
<1> DEFINE m == memdata \ Overwritten(o)
<1>3. HashWithout(Overwritten(o)) = m /\ \A p \in m : Value(p) # Value(o)
  BY <1>0, <1>1, ErasedAlike
<1>4. \A p \in m : ~SameAddr(p, o)
  BY <1>3 DEF SameAddr, Value
<1>5. \/ memdata' = m /\ hash' = m
      \/ memdata' = m \cup {o} /\ hash' = m \cup {o}
  <2>1. \/ memdata' = m /\ hash' = HashWithout(Overwritten(o))
        \/ /\ memdata' = {p \in m : Value(p) # Value(o)} \cup {o}
           /\ hash' = {p \in HashWithout(Overwritten(o)) : ~SameAddr(p, o)} \cup {o}
    BY DEF Insert
  <2> HIDE DEF o, m
  <2>2. QED
    BY <2>1, <1>3, <1>4
<1>6. m \subseteq memdata
  OBVIOUS
<1>7. TypeOK'
  <2> HIDE DEF o, m
  <2>1. memdata' \subseteq alive /\ hash' \subseteq alive
    BY <1>0, <1>1, <1>5, <1>6 DEF TypeOK
  <2>2. fresh' \in [Threads -> alive \cup {NoMemloc}]
    BY <1>0, <1>2 DEF TypeOK
  <2>3. QED
    BY <1>0, <1>2, <2>1, <2>2 DEF TypeOK
<1>8. TablesAgree'
  <2> HIDE DEF o, m
  <2>1. memdata' = hash'
    BY <1>5
  <2>2. ASSUME NEW p \in memdata', NEW q \in memdata', Value(p) = Value(q)
        PROVE  p = q
    BY <2>2, <1>0, <1>3, <1>5, <1>6 DEF TablesAgree
  <2>3. QED
    BY <2>1, <2>2 DEF TablesAgree, Value, ValueAt
<1>9. FreshApart'
  <2>1. hash' \subseteq hash \cup {o}
    <3> HIDE DEF o, m
    <3>1. QED
      BY <1>0, <1>5, <1>6 DEF TablesAgree
  <2>2. \A u \in Threads : fresh'[u] = IF u = t THEN NoMemloc ELSE fresh[u]
    BY <1>0, <1>2 DEF TypeOK
  <2>3. QED
    BY <1>0, <1>1, <2>1, <2>2 DEF FreshApart
<1>10. QED
  BY <1>7, <1>8, <1>9 DEF TInv

LEMMA TRemove ==
  ASSUME TInv, NEW o \in Objs, Remove(o)
  PROVE  TInv'
<1>0. TypeOK /\ TablesAgree /\ FreshApart
  BY DEF TInv
<1>1. o \in memdata /\ o \in hash /\ memdata = hash /\ memdata \subseteq Objs
  BY <1>0 DEF Remove, TablesAgree, TypeOK
<1>2. memdata' = memdata \ {o}
  BY <1>0, <1>1 DEF Remove, MapErased, TablesAgree
<1>3. hash' = hash \ {o}
  <2>1. \A p \in hash : SameAddr(p, o) <=> p = o
    BY <1>0, <1>1 DEF SameAddr, TablesAgree, Value
  <2>2. QED
    BY <2>1 DEF Remove, HashErased
<1>4. alive' = alive \ {o} /\ fresh' = fresh /\ disturbed' \in BOOLEAN
  BY <1>0 DEF Remove, TypeOK, Inserting
<1>5. prev' \in [Objs -> Objs \cup {NoMemloc}] /\ next' \in [Objs -> Objs \cup {NoMemloc}]
  BY <1>0 DEF Remove, UnlinkedPrev, UnlinkedNext, TypeOK
<1>6. fresh' \in [Threads -> alive' \cup {NoMemloc}]
  <2>1. \A u \in Threads : fresh[u] # o
    BY <1>0, <1>1, MemlocAssumption DEF FreshApart
  <2>2. QED
    BY <1>0, <1>4, <2>1 DEF TypeOK
<1>7. TypeOK'
  BY <1>0, <1>2, <1>3, <1>4, <1>5, <1>6 DEF TypeOK
<1>8. TablesAgree'
  BY <1>0, <1>1, <1>2, <1>3 DEF TablesAgree
<1>9. FreshApart'
  BY <1>0, <1>3, <1>4 DEF FreshApart
<1>10. QED
  BY <1>7, <1>8, <1>9 DEF TInv

LEMMA TLink ==
  ASSUME TInv, NEW o \in Objs, LinkPrevious(o) \/ LinkNext(o)
  PROVE  TInv'
<1>0. TypeOK /\ TablesAgree /\ FreshApart
  BY DEF TInv
<1>1. PrevOf(o) \in Objs \cup {NoMemloc} /\ NextOf(o) \in Objs \cup {NoMemloc}
  BY <1>0, PointerType DEF TypeOK
<1>2. /\ memdata' = memdata /\ hash' = hash /\ alive' = alive /\ fresh' = fresh
      /\ disturbed' \in BOOLEAN
  BY <1>0 DEF LinkPrevious, LinkNext, tables, TypeOK, Inserting
<1>3. prev' \in [Objs -> Objs \cup {NoMemloc}] /\ next' \in [Objs -> Objs \cup {NoMemloc}]
  <2>1. CASE LinkPrevious(o)
    BY <2>1, <1>0, <1>1 DEF LinkPrevious, TypeOK
  <2>2. CASE LinkNext(o)
    BY <2>2, <1>0, <1>1 DEF LinkNext, TypeOK
  <2>3. QED
    BY <2>1, <2>2
<1>4. TypeOK'
  BY <1>0, <1>2, <1>3 DEF TypeOK
<1>5. TablesAgree' /\ FreshApart'
  BY <1>0, <1>2 DEF TablesAgree, FreshApart
<1>6. QED
  BY <1>4, <1>5 DEF TInv

LEMMA TStutter == TInv /\ UNCHANGED vars => TInv'
BY DEF TInv, TypeOK, TablesAgree, FreshApart, vars, tables, links

(* TInv holds in every state: it holds at first and every call keeps it. *)
THEOREM MemlocInvariant == Spec => []TInv
<1>1. ASSUME TInv, [Next]_vars
      PROVE  TInv'
  <2> USE <1>1
  <2>1. CASE \E t \in Threads, o \in Objs : Construct(t, o)
    BY <2>1, TConstruct
  <2>2. CASE \E t \in Threads : Insert(t)
    BY <2>2, TInsert
  <2>3. CASE \E o \in Objs : Remove(o)
    BY <2>3, TRemove
  <2>4. CASE \E o \in Objs : LinkPrevious(o) \/ LinkNext(o)
    BY <2>4, TLink
  <2>5. CASE UNCHANGED vars
    BY <2>5, TStutter
  <2>6. QED
    BY <2>1, <2>2, <2>3, <2>4, <2>5 DEF Next
<1>2. QED
  BY TInit, <1>1, PTL DEF Spec

(* The variables of the memloc table keep their types; in particular the   *)
(* tables never hold a deleted memloc.                                     *)
THEOREM MemlocTypes == Spec => []TypeOK
<1>1. TInv => TypeOK
  BY DEF TInv
<1>2. QED
  BY MemlocInvariant, <1>1, PTL

(* The map and the hash table hold the same memlocs, and no two of them    *)
(* start at the same address value (memlocmanager.cpp:22-83).              *)
THEOREM MemlocTablesAgree == Spec => []TablesAgree
<1>1. TInv => TablesAgree
  BY DEF TInv
<1>2. QED
  BY MemlocInvariant, <1>1, PTL

-----------------------------------------------------------------------------
(* No overlap, when every memloc starts inside its segment. *)

Apart(m) == \A o, p \in m : o # p => ~Overlap(o, p)

(* The search looks at the exact address and at the nearest entry before   *)
(* it; in a table without overlap it finds the memloc that covers the      *)
(* address.                                                                *)
LEMMA CoverIsFound ==
  ASSUME AllInSegment, NEW m \in SUBSET Objs, Apart(m),
         NEW o \in m, NEW x \in Nat, x < SegLen[Seg[o]], Covers(o, Seg[o], x)
  PROVE  Inside(m, m, Seg[o], x) = {o}
<1> DEFINE s == Seg[o]
           v == ValueAt(s, x)
<1>0. /\ s \in Segs /\ Base[s] \in Nat /\ SegLen[s] \in Nat
      /\ Off[o] \in Int /\ Len[o] \in Nat \ {0}
      /\ v = Base[s] + x /\ v \in Int
      /\ Value(o) = Base[s] + Off[o]
  BY MemlocAssumption DEF ValueAt, Value
<1>1. Off[o] <= x /\ x < Off[o] + Len[o]
  BY DEF Covers
<1>2. ASSUME NEW q \in m, Seg[q] = s, Off[o] <= Off[q], Off[q] <= x
      PROVE  q = o
  <2>1. Off[q] \in Int /\ Len[q] \in Nat \ {0}
    BY MemlocAssumption
  <2>2. Overlap(o, q)
    BY <1>0, <1>1, <1>2, <2>1 DEF Overlap
  <2>3. QED
    BY <2>2 DEF Apart
<1>3. CASE Exact(m, s, x) # {}
  <2>1. Exact(m, s, x) \subseteq {o}
    BY <1>0, <1>1, <1>2 DEF Exact
  <2>2. QED
    BY <1>3, <2>1 DEF Inside
<1>4. CASE Exact(m, s, x) = {}
  <2>1. Value(o) <= v
    BY <1>0, <1>1
  <2>2. ASSUME NEW n \in Nearest(m, v)
        PROVE  n = o
    <3>1. n \in m /\ Value(n) <= v /\ Value(o) <= Value(n)
      BY <2>1 DEF Nearest
    <3>2. /\ Seg[n] \in Segs /\ Base[Seg[n]] \in Nat /\ SegLen[Seg[n]] \in Nat
          /\ Off[n] \in Int /\ Value(n) = Base[Seg[n]] + Off[n]
          /\ 0 <= Off[n] /\ Off[n] < SegLen[Seg[n]] /\ 0 <= Off[o]
      BY <3>1, MemlocAssumption DEF AllInSegment, Value, ValueAt
    <3>3. Seg[n] = s
      <4> SUFFICES ASSUME Seg[n] # s PROVE FALSE
        OBVIOUS
      <4>1. \/ Base[s] + SegLen[s] <= Base[Seg[n]]
            \/ Base[Seg[n]] + SegLen[Seg[n]] <= Base[s]
        BY <1>0, <3>2, MemlocAssumption
      <4>2. QED
        BY <1>0, <3>1, <3>2, <4>1
    <3>4. Off[o] <= Off[n] /\ Off[n] <= x
      BY <1>0, <3>1, <3>2, <3>3
    <3>5. QED
      BY <1>2, <3>1, <3>3, <3>4
  <2>3. PICK n \in Nearest(m, v) : TRUE
    BY <1>0, <2>1, NearestExists
  <2>4. Nearest(m, v) = {o}
    BY <2>2, <2>3
  <2>5. QED
    BY <1>4, <2>4 DEF Inside
<1>5. QED
  BY <1>3, <1>4

(* An insertion either throws or enters a memloc that overlaps none of     *)
(* those it left in the table.                                             *)
LEMMA InsertKeepsApart ==
  ASSUME AllInSegment, TInv, NoOverlap, NEW t \in Threads, Insert(t)
  PROVE  NoOverlap'
<1> DEFINE o == fresh[t]
           m == memdata \ Overwritten(o)
<1>0. TypeOK /\ TablesAgree
  BY DEF TInv
<1>1. o \in Objs /\ memdata \in SUBSET Objs /\ memdata = hash
  BY <1>0 DEF Insert, TypeOK, TablesAgree
<1>2. HashWithout(Overwritten(o)) = m
  BY <1>0, <1>1, ErasedAlike
<1>3. Apart(m) /\ m \in SUBSET Objs
  BY <1>1 DEF Apart, NoOverlap
<1>4. CASE Inside(m, m, Seg[o], Off[o]) # {}
  <2>1. memdata' = m
    <3> HIDE DEF m
    <3>1. QED
      BY <1>2, <1>4 DEF Insert, m
  <2>2. QED
    BY <1>3, <2>1 DEF NoOverlap, Apart, Overlap
<1>5. CASE Inside(m, m, Seg[o], Off[o]) = {}
  <2>1. memdata' \subseteq m \cup {o}
    BY <1>2, <1>5 DEF Insert
  <2>2. ASSUME NEW p \in m, Overlap(p, o)
        PROVE  FALSE
    <3>1. /\ Seg[p] = Seg[o] /\ Off[p] < Off[o] + Len[o] /\ Off[o] < Off[p] + Len[p]
      BY <2>2 DEF Overlap
    <3>2. /\ Off[p] \in Int /\ Off[o] \in Int /\ Len[o] \in Nat \ {0} /\ Base[Seg[o]] \in Nat
          /\ Value(p) = Base[Seg[o]] + Off[p] /\ Value(o) = Base[Seg[o]] + Off[o]
      BY <1>1, <3>1, MemlocAssumption DEF Value, ValueAt
    <3>3. Off[p] < Off[o]
      <4> SUFFICES ASSUME Off[o] <= Off[p] PROVE FALSE
        BY <3>2
      <4>1. Value(o) <= Value(p) /\ Value(p) < Value(o) + Len[o]
        BY <3>1, <3>2
      <4>2. QED
        BY <4>1 DEF Overwritten
    <3>4. Covers(p, Seg[p], Off[o])
      BY <3>1, <3>2, <3>3 DEF Covers
    <3>5. Off[o] \in Nat /\ Off[o] < SegLen[Seg[p]]
      BY <1>1, <3>1, <3>2 DEF AllInSegment
    <3>6. Inside(m, m, Seg[p], Off[o]) = {p}
      <4> HIDE DEF m, o
      <4>1. QED
        BY <1>3, <3>4, <3>5, CoverIsFound
    <3>7. QED
      BY <1>5, <3>1, <3>6
  <2>3. ASSUME NEW p \in m, Overlap(o, p)
        PROVE  FALSE
    <3>1. Overlap(p, o)
      BY <2>3 DEF Overlap
    <3>2. QED
      BY <2>2, <3>1
  <2>4. QED
    <3> HIDE DEF m, o
    <3>1. \A p, q \in m : p # q => ~Overlap(p, q)
      BY <1>3 DEF Apart
    <3>2. QED
      BY <2>1, <2>2, <2>3, <3>1 DEF NoOverlap, Overlap
<1>6. QED
  BY <1>4, <1>5

(* No two memlocs of the table overlap, when the memlocs that are created  *)
(* start inside their segments (memlocmanager.cpp:22-42).                  *)
THEOREM MemlocsNeverOverlap ==
  ASSUME AllInSegment
  PROVE  Spec => []NoOverlap
<1>1. Init => NoOverlap
  BY DEF Init, NoOverlap
<1>2. ASSUME TInv, NoOverlap, [Next]_vars
      PROVE  NoOverlap'
  <2> USE <1>2
  <2>1. CASE \E t \in Threads : Insert(t)
    BY <2>1, InsertKeepsApart
  <2>2. CASE ~\E t \in Threads : Insert(t)
    <3>1. memdata' \subseteq memdata
      BY <2>2 DEF Next, Construct, Remove, MapErased, LinkPrevious, LinkNext, tables, vars
    <3>2. QED
      BY <3>1 DEF NoOverlap, Overlap
  <2>3. QED
    BY <2>1, <2>2
<1>3. QED
  BY MemlocInvariant, <1>1, <1>2, PTL DEF Spec

(* findMemloc(addr, false) finds the memloc that covers addr although it   *)
(* looks at one entry of the map only (memlocmanager.cpp:45-70), when the  *)
(* memlocs that are created start inside their segments.                   *)
THEOREM MemlocFindsCover ==
  ASSUME AllInSegment
  PROVE  Spec => []FindsCover
<1>1. ASSUME TInv, NoOverlap
      PROVE  FindsCover
  <2> SUFFICES ASSUME NEW o \in memdata, NEW x \in 0 .. (SegLen[Seg[o]] - 1),
                      Covers(o, Seg[o], x)
               PROVE  Inside(memdata, hash, Seg[o], x) = {o}
    BY DEF FindsCover
  <2>1. memdata \in SUBSET Objs /\ memdata = hash /\ Apart(memdata)
    BY <1>1 DEF TInv, TypeOK, TablesAgree, NoOverlap, Apart
  <2>2. SegLen[Seg[o]] \in Nat
    BY <2>1, MemlocAssumption
  <2>3. x \in Nat /\ x < SegLen[Seg[o]]
    BY <2>2
  <2>4. QED
    BY <2>1, <2>3, CoverIsFound
<1>2. QED
  BY MemlocInvariant, MemlocsNeverOverlap, <1>1, PTL

-----------------------------------------------------------------------------
(* Links. *)

(* Two memlocs that meet.                                                  *)
Meet(p, o) == Seg[p] = Seg[o] /\ Off[p] + Len[p] = Off[o]

(* The links among the memlocs of a table: to nothing, to an object that   *)
(* was overwritten and never deleted, or to a memloc of the table that     *)
(* meets the one it is a neighbour of and points back.                     *)
Linked(m, nx, pv, live) ==
  \A o \in m :
    /\ pv[o] \in live \cup {NoMemloc}
    /\ nx[o] \in live \cup {NoMemloc}
    /\ pv[o] \in m => nx[pv[o]] = o /\ Meet(pv[o], o)
    /\ nx[o] \in m => pv[nx[o]] = o /\ Meet(o, nx[o])

(* What the insertion of o leaves in the table, if it does not throw.      *)
Left(o) == memdata \ Overwritten(o)
Throwing(o) == Inside(Left(o), Left(o), Seg[o], Off[o]) # {}

(* Without disturbance one object at most is not inserted yet; the links   *)
(* are those of the table that its insertion makes.                        *)
LinksInv ==
  ~disturbed =>
    /\ ~Inserting(Threads) => Linked(memdata, next, prev, alive)
    /\ \A t \in Threads : fresh[t] # NoMemloc /\ ~Throwing(fresh[t]) =>
         Linked(Left(fresh[t]) \cup {fresh[t]}, next, prev, alive)

LEMMA MeetFacts ==
  ASSUME NEW o \in Objs, NEW p \in Objs
  PROVE  /\ Seg[o] = Seg[p] /\ Off[o] = Off[p] => Value(o) = Value(p)
         /\ Seg[o] = Seg[p] => Value(o) - Value(p) = Off[o] - Off[p]
         /\ Off[o] \in Int /\ Off[p] \in Int /\ Len[o] \in Nat \ {0} /\ Len[p] \in Nat \ {0}
         /\ Value(o) \in Int /\ Value(p) \in Int
BY ValueInt

(* What is found covers the address; the next memloc starts at the end.    *)
LEMMA FoundMeets ==
  ASSUME TInv, NEW o \in Objs
  PROVE  /\ PrevOf(o) # NoMemloc => PrevOf(o) \in memdata /\ Covers(PrevOf(o), Seg[o], Off[o] - 1)
         /\ NextOf(o) # NoMemloc => NextOf(o) \in memdata /\ Meet(o, NextOf(o))
<1>0. memdata = hash /\ memdata \subseteq Objs /\ NoMemloc \notin Objs
  BY MemlocAssumption DEF TInv, TypeOK, TablesAgree
<1>1. \A S : ThePointer(S) # NoMemloc => ThePointer(S) \in S
  BY DEF ThePointer
<1>2. ASSUME PrevOf(o) # NoMemloc
      PROVE  PrevOf(o) \in memdata /\ Covers(PrevOf(o), Seg[o], Off[o] - 1)
  <2> DEFINE p == PrevOf(o)
  <2>1. p \in Inside(memdata, hash, Seg[o], Off[o] - 1)
    BY <1>1, <1>2 DEF PrevOf
  <2>2. CASE p \in Exact(hash, Seg[o], Off[o] - 1)
    <3>1. p \in Objs /\ p \in memdata /\ Seg[p] = Seg[o] /\ Off[p] = Off[o] - 1
      BY <1>0, <2>2 DEF Exact
    <3>2. Len[p] \in Nat \ {0} /\ Off[p] \in Int
      BY <3>1, ValueInt
    <3> QED
      BY <3>1, <3>2 DEF Covers
  <2>3. CASE p \notin Exact(hash, Seg[o], Off[o] - 1)
    <3> QED
      BY <2>1, <2>3 DEF Inside, Nearest
  <2> QED
    BY <2>2, <2>3
<1>3. ASSUME NextOf(o) # NoMemloc
      PROVE  NextOf(o) \in memdata /\ Meet(o, NextOf(o))
  <2>1. NextOf(o) \in Exact(hash, Seg[o], Off[o] + Len[o])
    BY <1>1, <1>3 DEF NextOf
  <2> QED
    BY <1>0, <2>1 DEF Exact, Meet
<1> QED
  BY <1>2, <1>3

(* The table a new memloc is to enter, and the links the constructor makes *)
(* to the memlocs that meet it there: those it replaces led to memlocs the *)
(* insertion overwrites.                                                   *)
LEMMA ConstructLinks ==
  ASSUME AllInSegment, TInv, NoOverlap, NEW t \in Threads, NEW o \in Objs, Construct(t, o),
         Linked(memdata, next, prev, alive), ~Throwing(o)
  PROVE  Linked(Left(o) \cup {o}, next', prev', alive')
<1> DEFINE b == PrevOf(o)
           a == NextOf(o)
           m == Left(o)
<1>0. /\ memdata \subseteq alive /\ alive \subseteq Objs /\ o \notin alive
      /\ alive' = alive \cup {o} /\ NoMemloc \notin Objs /\ m \subseteq memdata
      /\ m \in SUBSET Objs
  BY MemlocAssumption DEF TInv, TypeOK, Construct, Left
<1>1. b \in alive \cup {NoMemloc} /\ a \in alive \cup {NoMemloc}
  BY PointerType DEF TInv
<1>2. \A p \in Objs : /\ prev'[p] = IF p = o THEN b ELSE IF p = a THEN o ELSE prev[p]
                      /\ next'[p] = IF p = o THEN a ELSE IF p = b THEN o ELSE next[p]
  BY DEF Construct
<1>3. \A p \in m : ~Covers(p, Seg[o], Off[o])
  <2> SUFFICES ASSUME NEW p \in m, Covers(p, Seg[o], Off[o])
               PROVE  FALSE
    OBVIOUS
  <2>1. Seg[p] = Seg[o] /\ Off[o] \in Nat /\ Off[o] < SegLen[Seg[p]] /\ Apart(m)
    BY <1>0, MemlocAssumption DEF Covers, AllInSegment, Apart, NoOverlap
  <2> HIDE DEF m
  <2>2. Inside(m, m, Seg[p], Off[o]) = {p}
    BY <1>0, <2>1, CoverIsFound
  <2> QED
    BY <2>1, <2>2 DEF Throwing, m
<1>4. \A p \in m : ~(Seg[p] = Seg[o] /\ Off[o] <= Off[p] /\ Off[p] < Off[o] + Len[o])
  <2> SUFFICES ASSUME NEW p \in m, Seg[p] = Seg[o], Off[o] <= Off[p], Off[p] < Off[o] + Len[o]
               PROVE  FALSE
    OBVIOUS
  <2>1. p \in Objs /\ p \in memdata
    BY <1>0
  <2>2. Value(p) - Value(o) = Off[p] - Off[o]
    BY <2>1, MeetFacts
  <2>3. Value(o) <= Value(p) /\ Value(p) < Value(o) + Len[o]
    BY <2>1, <2>2, MeetFacts
  <2> QED
    BY <2>1, <2>3 DEF Left, Overwritten
<1>5. b \in m => Meet(b, o)
  <2> SUFFICES ASSUME b \in m PROVE Meet(b, o)
    OBVIOUS
  <2>1. Covers(b, Seg[o], Off[o] - 1) /\ ~Covers(b, Seg[o], Off[o]) /\ b \in Objs
    BY <1>0, <1>3, FoundMeets
  <2>2. Off[o] \in Int /\ Off[b] \in Int /\ Len[b] \in Nat
    BY <2>1, MeetFacts
  <2> HIDE DEF b
  <2> QED
    BY <2>1, <2>2 DEF Covers, Meet
<1>6. a # NoMemloc => Meet(o, a)
  BY FoundMeets
<1>7. /\ prev'[o] = b /\ next'[o] = a
      /\ b \in m => b # o /\ next'[b] = o
      /\ a \in m => a # o /\ prev'[a] = o
  BY <1>0, <1>2
<1>8. ASSUME NEW r \in m
      PROVE  /\ prev'[r] \in alive' \cup {NoMemloc}
             /\ next'[r] \in alive' \cup {NoMemloc}
             /\ prev'[r] \in m \cup {o} => next'[prev'[r]] = r /\ Meet(prev'[r], r)
             /\ next'[r] \in m \cup {o} => prev'[next'[r]] = r /\ Meet(r, next'[r])
  <2>0. /\ r \in memdata /\ r \in Objs /\ r # o /\ r \in alive
        /\ prev[r] \in alive \cup {NoMemloc} /\ next[r] \in alive \cup {NoMemloc}
        /\ prev[r] \in memdata => next[prev[r]] = r /\ Meet(prev[r], r)
        /\ next[r] \in memdata => prev[next[r]] = r /\ Meet(r, next[r])
    BY <1>0 DEF Linked
  <2>1. /\ prev'[r] \in alive' \cup {NoMemloc}
        /\ prev'[r] \in m \cup {o} => next'[prev'[r]] = r /\ Meet(prev'[r], r)
    <3>1. CASE r = a
      <4>1. prev'[r] = o /\ next'[o] = r /\ Meet(o, r)
        BY <1>0, <1>2, <1>6, <1>7, <2>0, <3>1
      <4> QED
        BY <1>0, <4>1
    <3>2. CASE r # a
      <4>1. prev'[r] = prev[r]
        BY <1>2, <2>0, <3>2
      <4>2. ASSUME prev[r] \in m \cup {o}
            PROVE  next'[prev[r]] = r /\ Meet(prev[r], r)
        <5>1. prev[r] \in m /\ prev[r] \in memdata /\ prev[r] \in Objs /\ prev[r] # o
          BY <1>0, <2>0, <4>2
        <5>2. next[prev[r]] = r /\ Meet(prev[r], r)
          BY <2>0, <5>1
        <5>3. prev[r] # b
          <6> SUFFICES ASSUME prev[r] = b PROVE FALSE
            OBVIOUS
          <6>1. Seg[r] = Seg[o] /\ Off[r] = Off[o]
            BY <1>5, <5>1, <5>2 DEF Meet
          <6>2. Off[o] \in Int /\ Len[o] \in Nat \ {0}
            BY ValueInt
          <6> QED
            BY <1>4, <6>1, <6>2
        <5> QED
          BY <1>2, <5>1, <5>2, <5>3
      <4> QED
        BY <1>0, <2>0, <4>1, <4>2
    <3> QED
      BY <3>1, <3>2
  <2>2. /\ next'[r] \in alive' \cup {NoMemloc}
        /\ next'[r] \in m \cup {o} => prev'[next'[r]] = r /\ Meet(r, next'[r])
    <3>1. CASE r = b
      <4>1. next'[r] = o /\ prev'[o] = r /\ Meet(r, o)
        BY <1>0, <1>2, <1>5, <1>7, <2>0, <3>1
      <4> QED
        BY <1>0, <4>1
    <3>2. CASE r # b
      <4>1. next'[r] = next[r]
        BY <1>2, <2>0, <3>2
      <4>2. ASSUME next[r] \in m \cup {o}
            PROVE  prev'[next[r]] = r /\ Meet(r, next[r])
        <5>1. next[r] \in m /\ next[r] \in memdata /\ next[r] \in Objs /\ next[r] # o
          BY <1>0, <2>0, <4>2
        <5>2. prev[next[r]] = r /\ Meet(r, next[r])
          BY <2>0, <5>1
        <5>3. next[r] # a
          <6> SUFFICES ASSUME next[r] = a PROVE FALSE
            OBVIOUS
          <6>1. Meet(o, a) /\ Meet(r, a)
            BY <1>0, <1>6, <5>1, <5>2
          <6>2. Seg[r] = Seg[o] /\ Off[r] + Len[r] = Off[o] + Len[o]
            BY <6>1 DEF Meet
          <6>3. Off[o] \in Int /\ Len[o] \in Nat \ {0} /\ Off[r] \in Int /\ Len[r] \in Nat \ {0}
            BY <2>0, ValueInt
          <6>4. Covers(r, Seg[o], Off[o]) \/ (Off[o] <= Off[r] /\ Off[r] < Off[o] + Len[o])
            BY <6>2, <6>3 DEF Covers
          <6> QED
            BY <1>3, <1>4, <6>2, <6>4
        <5> QED
          BY <1>2, <5>1, <5>2, <5>3
      <4> QED
        BY <1>0, <2>0, <4>1, <4>2
    <3> QED
      BY <3>1, <3>2
  <2> QED
    BY <2>1, <2>2
<1>9. /\ b \in alive' \cup {NoMemloc} /\ a \in alive' \cup {NoMemloc}
      /\ b \in m \cup {o} => next'[b] = o /\ Meet(b, o)
      /\ a \in m \cup {o} => prev'[a] = o /\ Meet(o, a)
  BY <1>0, <1>1, <1>5, <1>6, <1>7
<1> HIDE DEF a, b, m
<1>10. Linked(m \cup {o}, next', prev', alive')
  BY <1>7, <1>8, <1>9 DEF Linked
<1> QED
  BY <1>10 DEF m

(* The destructor unlinks the memloc from both neighbours.                 *)
LEMMA RemoveLinks ==
  ASSUME TInv, NEW o \in Objs, Remove(o), Linked(memdata, next, prev, alive)
  PROVE  Linked(memdata', next', prev', alive')
<1>1. /\ memdata \subseteq Objs /\ o \in memdata /\ memdata \subseteq alive
      /\ NoMemloc \notin Objs
  BY MemlocAssumption DEF TInv, TypeOK, TablesAgree, Remove
<1>2. memdata' = memdata \ {o}
  BY <1>1 DEF Remove, MapErased, TInv, TablesAgree
<1>3. alive' = alive \ {o}
  BY DEF Remove
<1>4. \A p \in Objs : /\ prev'[p] = IF p = next[o] THEN NoMemloc ELSE prev[p]
                      /\ next'[p] = IF p = prev[o] THEN NoMemloc ELSE next[p]
  BY DEF Remove, UnlinkedPrev, UnlinkedNext
<1>5. \A r \in memdata : /\ prev[r] = o => r = next[o]
                         /\ next[r] = o => r = prev[o]
  BY <1>1 DEF Linked
<1>6. ASSUME NEW r \in memdata'
      PROVE  /\ prev'[r] \in alive' \cup {NoMemloc}
             /\ next'[r] \in alive' \cup {NoMemloc}
             /\ prev'[r] \in memdata' => next'[prev'[r]] = r /\ Meet(prev'[r], r)
             /\ next'[r] \in memdata' => prev'[next'[r]] = r /\ Meet(r, next'[r])
  <2>0. /\ r \in memdata /\ r \in Objs /\ r # o
        /\ prev[r] \in alive \cup {NoMemloc} /\ next[r] \in alive \cup {NoMemloc}
        /\ prev[r] \in memdata => next[prev[r]] = r /\ Meet(prev[r], r)
        /\ next[r] \in memdata => prev[next[r]] = r /\ Meet(r, next[r])
    BY <1>1, <1>2 DEF Linked
  <2>1. prev'[r] \in {NoMemloc, prev[r]} /\ next'[r] \in {NoMemloc, next[r]}
    BY <1>4, <2>0
  <2>2. prev'[r] \in alive' \cup {NoMemloc} /\ next'[r] \in alive' \cup {NoMemloc}
    BY <1>3, <1>4, <1>5, <2>0
  <2>3. ASSUME prev'[r] \in memdata'
        PROVE  next'[prev'[r]] = r /\ Meet(prev'[r], r)
    <3>1. prev'[r] = prev[r] /\ prev[r] \in memdata /\ prev[r] \in Objs
      BY <1>1, <1>2, <2>1, <2>3
    <3>2. prev[r] # prev[o]
      BY <1>1, <2>0, <3>1 DEF Linked
    <3> QED
      BY <1>4, <2>0, <3>1, <3>2
  <2>4. ASSUME next'[r] \in memdata'
        PROVE  prev'[next'[r]] = r /\ Meet(r, next'[r])
    <3>1. next'[r] = next[r] /\ next[r] \in memdata /\ next[r] \in Objs
      BY <1>1, <1>2, <2>1, <2>4
    <3>2. next[r] # next[o]
      BY <1>1, <2>0, <3>1 DEF Linked
    <3> QED
      BY <1>4, <2>0, <3>1, <3>2
  <2> QED
    BY <2>2, <2>3, <2>4
<1> QED
  BY <1>6 DEF Linked

(* Two memlocs of the table that meet and are not linked yet may be linked *)
(* both ways.                                                              *)
LEMMA JoinLinks ==
  ASSUME TInv, NoOverlap, Linked(memdata, next, prev, alive),
         NEW p \in memdata, NEW o \in memdata, Meet(p, o), p # o,
         prev[o] = NoMemloc \/ next[p] = NoMemloc,
         prev' = [prev EXCEPT ![o] = p], next' = [next EXCEPT ![p] = o]
  PROVE  Linked(memdata, next', prev', alive)
<1>1. /\ memdata \subseteq Objs /\ memdata \subseteq alive /\ NoMemloc \notin Objs
      /\ prev \in [Objs -> Objs \cup {NoMemloc}] /\ next \in [Objs -> Objs \cup {NoMemloc}]
  BY MemlocAssumption DEF TInv, TypeOK
<1>2. \A r \in Objs : /\ prev'[r] = IF r = o THEN p ELSE prev[r]
                      /\ next'[r] = IF r = p THEN o ELSE next[r]
  BY <1>1
<1>3. \A q \in memdata : Meet(p, q) => q = o
  <2> SUFFICES ASSUME NEW q \in memdata, Meet(p, q)
               PROVE  q = o
    OBVIOUS
  <2>1. Seg[q] = Seg[o] /\ Off[q] = Off[o]
    BY DEF Meet
  <2>2. Value(q) = Value(o)
    BY <1>1, <2>1, MeetFacts
  <2> QED
    BY <2>2 DEF TInv, TablesAgree
<1>4. \A q \in memdata : Meet(q, o) => q = p
  <2> SUFFICES ASSUME NEW q \in memdata, Meet(q, o)
               PROVE  q = p
    OBVIOUS
  <2>1. Off[p] \in Int /\ Len[p] \in Nat \ {0} /\ Off[q] \in Int /\ Len[q] \in Nat \ {0}
    BY <1>1, ValueInt
  <2>2. Seg[p] = Seg[q] /\ Off[p] + Len[p] = Off[q] + Len[q]
    BY <2>1 DEF Meet
  <2>3. Overlap(p, q)
    BY <2>1, <2>2 DEF Overlap
  <2> QED
    BY <2>3 DEF NoOverlap
<1>5. ASSUME NEW r \in memdata
      PROVE  /\ prev'[r] \in alive \cup {NoMemloc}
             /\ next'[r] \in alive \cup {NoMemloc}
             /\ prev'[r] \in memdata => next'[prev'[r]] = r /\ Meet(prev'[r], r)
             /\ next'[r] \in memdata => prev'[next'[r]] = r /\ Meet(r, next'[r])
  <2>1. /\ r \in Objs
        /\ prev[r] \in alive \cup {NoMemloc} /\ next[r] \in alive \cup {NoMemloc}
        /\ prev[r] \in memdata => next[prev[r]] = r /\ Meet(prev[r], r)
        /\ next[r] \in memdata => prev[next[r]] = r /\ Meet(r, next[r])
    BY <1>1 DEF Linked
  <2>2. prev[r] = p => r = o
    BY <1>3, <2>1
  <2>3. next[r] = o => r = p
    BY <1>4, <2>1
  <2>4. prev'[r] \in memdata => next'[prev'[r]] = r /\ Meet(prev'[r], r)
    BY <1>1, <1>2, <2>1, <2>2
  <2>5. next'[r] \in memdata => prev'[next'[r]] = r /\ Meet(r, next'[r])
    BY <1>1, <1>2, <2>1, <2>3
  <2> QED
    BY <1>1, <1>2, <2>1, <2>4, <2>5
<1> QED
  BY <1>5 DEF Linked

LEMMA LinksStep ==
  ASSUME AllInSegment, TInv, NoOverlap, LinksInv, [Next]_vars
  PROVE  LinksInv'
<1> USE DEF LinksInv
<1>0. /\ memdata \subseteq Objs /\ NoMemloc \notin Objs
      /\ fresh \in [Threads -> alive \cup {NoMemloc}]
  BY MemlocAssumption DEF TInv, TypeOK
<1>1. CASE UNCHANGED vars
  BY <1>1 DEF vars, Linked, Inserting, Throwing, Left, Overwritten, Inside, Exact, Nearest,
              tables, links
<1>2. ASSUME NEW t \in Threads, NEW o \in Objs, Construct(t, o)
      PROVE  LinksInv'
  <2> SUFFICES ASSUME ~disturbed'
               PROVE  /\ Inserting(Threads)'
                      /\ \A u \in Threads : fresh'[u] # NoMemloc /\ ~Throwing(fresh[u])' =>
                           Linked(Left(fresh[u]) \cup {fresh[u]}, next, prev, alive)'
    OBVIOUS
  <2>1. ~disturbed /\ ~Inserting(Threads)
    BY <1>2 DEF Construct
  <2>2. \A u \in Threads : fresh'[u] = IF u = t THEN o ELSE NoMemloc
    BY <1>0, <1>2, <2>1 DEF Construct, Inserting
  <2>3. Inserting(Threads)'
    BY <1>0, <2>2 DEF Inserting
  <2>4. UNCHANGED memdata
    BY <1>2 DEF Construct, tables
  <2>5. (Throwing(o) <=> Throwing(o)') /\ Left(o)' = Left(o)
    BY <2>4 DEF Throwing, Left, Overwritten, Inside, Exact, Nearest
  <2>6. ~Throwing(o) => Linked(Left(o) \cup {o}, next', prev', alive')
    BY <1>2, <2>1, ConstructLinks
  <2>7. ASSUME NEW u \in Threads, fresh'[u] # NoMemloc, ~Throwing(fresh[u])'
        PROVE  Linked(Left(fresh[u]) \cup {fresh[u]}, next, prev, alive)'
    <3>1. u = t /\ fresh'[u] = o
      BY <2>2, <2>7
    <3>2. ~Throwing(o)'
      BY <2>7, <3>1 DEF Throwing, Left, Overwritten, Inside, Exact, Nearest
    <3>3. Left(fresh[u])' = Left(o)'
      BY <3>1 DEF Left, Overwritten
    <3>4. Linked(Left(o) \cup {o}, next', prev', alive')
      BY <2>5, <2>6, <3>2
    <3> QED
      BY <2>5, <3>1, <3>3, <3>4 DEF Linked
  <2> QED
    BY <2>3, <2>7
<1>3. ASSUME NEW t \in Threads, Insert(t)
      PROVE  LinksInv'
  <2> SUFFICES ASSUME ~disturbed'
               PROVE  /\ Linked(memdata, next, prev, alive)'
                      /\ ~Inserting(Threads)'
    BY DEF Inserting
  <2> DEFINE o == fresh[t]
             m == Left(o)
  <2>1. HashWithout(Overwritten(o)) = m /\ \A p \in m : Value(p) # Value(o)
    BY <1>0, <1>3, ErasedAlike DEF TInv, TypeOK, Insert, Left
  <2>2. ~disturbed /\ ~Inserting(Threads \ {t}) /\ ~Throwing(o)
    <3> HIDE DEF o
    <3> QED
      BY <1>3, <2>1 DEF Insert, Throwing, Left, o
  <2>3. memdata' = m \cup {o} /\ UNCHANGED <<alive, prev, next>> /\ o # NoMemloc
    <3>1. memdata' = {p \in m : Value(p) # Value(o)} \cup {o}
      BY <1>3, <2>1, <2>2 DEF Insert, Throwing, Left
    <3> HIDE DEF m
    <3> QED
      BY <1>3, <2>1, <3>1 DEF Insert, links
  <2>4. Linked(m \cup {o}, next, prev, alive)
    BY <2>2, <2>3
  <2>5. Linked(memdata, next, prev, alive)'
    <3> HIDE DEF m, o
    <3> QED
      BY <2>3, <2>4 DEF Linked
  <2>6. \A u \in Threads : fresh'[u] = IF u = t THEN NoMemloc ELSE fresh[u]
    BY <1>0, <1>3 DEF Insert
  <2>7. ~Inserting(Threads)'
    BY <2>2, <2>6 DEF Inserting
  <2> QED
    BY <2>5, <2>7
<1>4. ASSUME NEW o \in Objs, Remove(o) \/ LinkPrevious(o) \/ LinkNext(o)
      PROVE  LinksInv'
  <2> SUFFICES ASSUME ~disturbed'
               PROVE  /\ Linked(memdata, next, prev, alive)'
                      /\ ~Inserting(Threads)'
    BY DEF Inserting
  <2>1. ~disturbed /\ ~Inserting(Threads) /\ UNCHANGED fresh
    BY <1>4 DEF Remove, LinkPrevious, LinkNext
  <2>2. Linked(memdata, next, prev, alive)
    BY <2>1
  <2>3. ~Inserting(Threads)'
    BY <2>1 DEF Inserting
  <2>4. CASE Remove(o)
    <3>1. Linked(memdata', next', prev', alive')
      BY <2>2, <2>4, RemoveLinks
    <3> QED
      BY <2>3, <3>1 DEF Linked
  <2>5. CASE LinkPrevious(o)
    <3> DEFINE p == PrevOf(o)
    <3>1. o \in memdata /\ p \in memdata /\ Covers(p, Seg[o], Off[o] - 1)
      BY <2>5, FoundMeets DEF LinkPrevious
    <3>2. p \in Objs /\ Off[o] \in Int /\ Off[p] \in Int /\ Len[p] \in Nat /\ Len[o] \in Nat \ {0}
      BY <1>0, <3>1, ValueInt
    <3>3. /\ prev[o] = NoMemloc /\ UNCHANGED <<memdata, alive>>
          /\ prev' = [prev EXCEPT ![o] = p] /\ next' = [next EXCEPT ![p] = o]
      BY <2>5 DEF LinkPrevious, tables
    <3> HIDE DEF p
    <3>4. p # o
      BY <3>1, <3>2 DEF Covers
    <3>5. Meet(p, o)
      BY <3>1, <3>2, <3>4 DEF Covers, Meet, NoOverlap, Overlap
    <3>6. Linked(memdata, next', prev', alive)
      BY <2>2, <3>1, <3>3, <3>4, <3>5, JoinLinks
    <3> QED
      BY <2>3, <3>3, <3>6 DEF Linked
  <2>6. CASE LinkNext(o)
    <3> DEFINE n == NextOf(o)
    <3>1. o \in memdata /\ n \in memdata /\ Meet(o, n)
      BY <2>6, FoundMeets DEF LinkNext
    <3>2. Off[o] \in Int /\ Len[o] \in Nat \ {0}
      BY ValueInt
    <3>3. /\ next[o] = NoMemloc /\ UNCHANGED <<memdata, alive>>
          /\ prev' = [prev EXCEPT ![n] = o] /\ next' = [next EXCEPT ![o] = n]
      BY <2>6 DEF LinkNext, tables
    <3> HIDE DEF n
    <3>4. o # n
      BY <3>1, <3>2 DEF Meet
    <3>5. Linked(memdata, next', prev', alive)
      BY <2>2, <3>1, <3>3, <3>4, JoinLinks
    <3> QED
      BY <2>3, <3>3, <3>5 DEF Linked
  <2> QED
    BY <1>4, <2>4, <2>5, <2>6
<1> QED
  BY <1>1, <1>2, <1>3, <1>4 DEF Next

(* While no insertion threw and none was interleaved, a memloc of the      *)
(* table never points to a deleted neighbour, and two that are linked one  *)
(* way are linked both ways (memlocdata.cpp:30-90), although memlocs that  *)
(* are overwritten stay linked to by their neighbours.                     *)
THEOREM MemlocLinksSound ==
  ASSUME AllInSegment
  PROVE  Spec => []LinksSound
<1>1. Init => LinksInv
  BY DEF Init, LinksInv, Linked, Inserting
<1>2. TInv /\ NoOverlap /\ LinksInv /\ [Next]_vars => LinksInv'
  BY LinksStep
<1>3. LinksInv => LinksSound
  BY DEF LinksInv, LinksSound, Linked
<1> QED
  BY <1>1, <1>2, <1>3, MemlocInvariant, MemlocsNeverOverlap, PTL DEF Spec
=============================================================================
