--------------------------- MODULE MemlocManager ---------------------------
(***************************************************************************)
(* The memory location table of a project and the memory locations in it   *)
(* (src/client/memlocmanager.cpp, memorymodel/memlocdata.cpp).             *)
(*                                                                         *)
(* A memory location (memloc) is an instruction or a datum: it starts at   *)
(* an address of a segment and covers Len bytes.  MemlocManager keeps the  *)
(* memlocs in two tables, a map ordered by address value and a hash table  *)
(* keyed by address.  MemlocData links neighbours: its constructor looks   *)
(* them up and links them, before the memloc enters the tables.  The GUI   *)
(* thread and the run queue's worker both create and remove memlocs, with  *)
(* no lock; a call on a table is one step here.                            *)
(***************************************************************************)
EXTENDS Integers

CONSTANTS
  Segs,      \* the memory segments
  Base,      \* MemSegment::get_start()
  SegLen,    \* MemSegment::get_length()
  Objs,      \* the MemlocData objects that may be constructed
  Seg,       \* the segment,
  Off,       \* the offset in the segment (get_addr()),
  Len,       \* and the length of each (get_length())
  NoMemloc,  \* the null pointer
  Threads    \* the threads that call the project model

ASSUME MemlocAssumption ==
  /\ Base \in [Segs -> Nat]
  /\ SegLen \in [Segs -> Nat]
  /\ \A s, t \in Segs :
       s # t => Base[s] + SegLen[s] <= Base[t] \/ Base[t] + SegLen[t] <= Base[s]
  /\ Seg \in [Objs -> Segs]
  /\ Off \in [Objs -> Int]
  /\ Len \in [Objs -> Nat \ {0}]
  /\ \A o \in Objs : Base[Seg[o]] + Off[o] >= 0
  /\ NoMemloc \notin Objs

VARIABLES
  memdata,    \* m_memdata: the map, as the set of the memlocs in it
  hash,       \* m_memdata_hash, likewise
  alive,      \* the constructed objects that were not deleted
  prev,       \* m_prev of each object
  next,       \* m_next of each object
  fresh,      \* the object each thread has constructed and not yet inserted
  disturbed   \* history: an insertion threw or was interleaved

tables == <<memdata, hash>>
links  == <<prev, next>>
vars   == <<memdata, hash, alive, prev, next, fresh, disturbed>>

-----------------------------------------------------------------------------
(* Addresses. *)

(* address_t::getValue(), by which m_memdata is ordered.  Its 64 bits do   *)
(* not wrap: no object starts below value zero (MemlocAssumption).         *)
ValueAt(s, x) == Base[s] + x
Value(o) == ValueAt(Seg[o], Off[o])

SameAddr(o, p) == Seg[o] = Seg[p] /\ Off[o] = Off[p]

Covers(o, s, x) == Seg[o] = s /\ Off[o] <= x /\ x < Off[o] + Len[o]

(* Every object starts inside its segment.  The addresses of instructions  *)
(* do, since analyze() tests isValid(); those of data references may not.  *)
AllInSegment == \A o \in Objs : 0 <= Off[o] /\ Off[o] < SegLen[Seg[o]]

-----------------------------------------------------------------------------
(* findMemloc(): a set with the memloc that is found, or the empty set. *)

Exact(h, s, x) == {o \in h : Seg[o] = s /\ Off[o] = x}

(* The entry before upper_bound(addr). *)
Nearest(m, v) ==
  {o \in m : /\ Value(o) <= v
             /\ \A p \in m : Value(p) <= v => Value(p) <= Value(o)}

(* Mutant: the entry of the exact value only. *)
NoneInside(m, h, s, x) == Exact(h, s, x)

Inside(m, h, s, x) ==
  IF Exact(h, s, x) # {}
  THEN Exact(h, s, x)
  ELSE {o \in Nearest(m, ValueAt(s, x)) : Covers(o, s, x)}

ThePointer(S) == IF S = {} THEN NoMemloc ELSE CHOOSE o \in S : TRUE

-----------------------------------------------------------------------------
Init ==
  /\ memdata = {}
  /\ hash = {}
  /\ alive = {}
  /\ prev = [o \in Objs |-> NoMemloc]
  /\ next = [o \in Objs |-> NoMemloc]
  /\ fresh = [t \in Threads |-> NoMemloc]
  /\ disturbed = FALSE

(* Some thread is between the constructor and the insertion. *)
Inserting(T) == \E t \in T : fresh[t] # NoMemloc

(* MemlocData::MemlocData(): the object links itself to the memlocs that   *)
(* end at its start and start at its end, and is linked by them.           *)
NextOf(o) == ThePointer(Exact(hash, Seg[o], Off[o] + Len[o]))
PrevOf(o) == ThePointer(Inside(memdata, hash, Seg[o], Off[o] - 1))

Construct(t, o) ==
  LET before == PrevOf(o)
      after  == NextOf(o)
  IN /\ fresh[t] = NoMemloc
     /\ o \notin alive
     /\ alive' = alive \cup {o}
     /\ fresh' = [fresh EXCEPT ![t] = o]
     /\ prev' = [p \in Objs |-> IF p = o THEN before
                               ELSE IF p = after THEN o ELSE prev[p]]
     /\ next' = [p \in Objs |-> IF p = o THEN after
                               ELSE IF p = before THEN o ELSE next[p]]
     /\ disturbed' = (disturbed \/ Inserting(Threads))
     /\ UNCHANGED tables

(* Mutant: the range ends one byte early. *)
OverwrittenShort(o) ==
  {p \in memdata : Value(o) <= Value(p) /\ Value(p) < Value(o) + Len[o] - 1}

(* The memlocs whose start the new memloc covers, by value: the loop from  *)
(* lower_bound(addr) to lower_bound(addr + length).  It does not delete    *)
(* them, nor unlink them.                                                  *)
Overwritten(o) ==
  {p \in memdata : Value(o) <= Value(p) /\ Value(p) < Value(o) + Len[o]}

(* Mutant: the hash table is left alone. *)
HashNotErased(erased) == hash

(* m_memdata_hash.erase(baddr) for each of them. *)
HashWithout(erased) ==
  {p \in hash : \A e \in erased : ~SameAddr(p, e)}

(* MemlocManager::insertMemloc(): when a memloc that starts before the new *)
(* one covers its start the insertion throws, with the memlocs the new one *)
(* would overwrite already gone from the tables.                           *)
Insert(t) ==
  LET o == fresh[t]
      erased == Overwritten(o)
      m == memdata \ erased
      h == HashWithout(erased)
      overlap == Inside(m, h, Seg[o], Off[o]) # {}
  IN /\ o # NoMemloc
     /\ fresh' = [fresh EXCEPT ![t] = NoMemloc]
     /\ IF overlap
        THEN memdata' = m /\ hash' = h
        ELSE /\ memdata' = {p \in m : Value(p) # Value(o)} \cup {o}
             /\ hash' = {p \in h : ~SameAddr(p, o)} \cup {o}
     /\ disturbed' = (disturbed \/ overlap \/ Inserting(Threads \ {t}))
     /\ UNCHANGED <<alive, links>>

(* Mutant: the destructor does not clear the pointer of the next memloc. *)
UnlinkedPrevOnly(o) == prev

(* m_next->m_prev = NULL in MemlocData::~MemlocData() *)
UnlinkedPrev(o) == [p \in Objs |-> IF p = next[o] THEN NoMemloc ELSE prev[p]]
UnlinkedNext(o) == [p \in Objs |-> IF p = prev[o] THEN NoMemloc ELSE next[p]]

(* Mutant: removeMemloc() erases from the map only. *)
HashKept(o) == hash

(* MemlocManager::removeMemloc(): erased by value here, by address there. *)
MapErased(o)  == {p \in memdata : Value(p) # Value(o)}
HashErased(o) == {p \in hash : ~SameAddr(p, o)}

(* MemoryBackedProjectModel::remove_memloc() of the address of o: find the *)
(* memloc that starts there, removeMemloc() it, delete it.                 *)
(* The destructor may write through a pointer to a deleted neighbour: that *)
(* is undefined, and stays in the dead object here.                        *)
Remove(o) ==
  /\ o \in hash
  /\ memdata' = MapErased(o)
  /\ hash' = HashErased(o)
  /\ alive' = alive \ {o}
  /\ prev' = UnlinkedPrev(o)
  /\ next' = UnlinkedNext(o)
  /\ disturbed' = (disturbed \/ Inserting(Threads))
  /\ UNCHANGED fresh

(* getPreviousContiguous() and getNextContiguous() of a memloc in the      *)
(* tables look up a neighbour that is not linked yet.                      *)
LinkPrevious(o) ==
  /\ o \in memdata
  /\ prev[o] = NoMemloc
  /\ PrevOf(o) # NoMemloc
  /\ prev' = [prev EXCEPT ![o] = PrevOf(o)]
  /\ next' = [next EXCEPT ![PrevOf(o)] = o]
  /\ disturbed' = (disturbed \/ Inserting(Threads))
  /\ UNCHANGED <<tables, alive, fresh>>

LinkNext(o) ==
  /\ o \in memdata
  /\ next[o] = NoMemloc
  /\ NextOf(o) # NoMemloc
  /\ next' = [next EXCEPT ![o] = NextOf(o)]
  /\ prev' = [prev EXCEPT ![NextOf(o)] = o]
  /\ disturbed' = (disturbed \/ Inserting(Threads))
  /\ UNCHANGED <<tables, alive, fresh>>

Next ==
  \/ \E t \in Threads, o \in Objs : Construct(t, o)
  \/ \E t \in Threads : Insert(t)
  \/ \E o \in Objs : Remove(o) \/ LinkPrevious(o) \/ LinkNext(o)

Spec == Init /\ [][Next]_vars

-----------------------------------------------------------------------------
(* Properties. *)

TypeOK ==
  /\ alive \subseteq Objs
  /\ memdata \subseteq alive
  /\ hash \subseteq alive
  /\ prev \in [Objs -> Objs \cup {NoMemloc}]
  /\ next \in [Objs -> Objs \cup {NoMemloc}]
  /\ fresh \in [Threads -> alive \cup {NoMemloc}]
  /\ disturbed \in BOOLEAN

(* The two tables hold the same memlocs, although one is erased by address *)
(* value and the other by address, and no two of them start at the same    *)
(* address value.                                                          *)
TablesAgree ==
  /\ memdata = hash
  /\ \A o, p \in memdata : Value(o) = Value(p) => o = p

(* No two memlocs of a table overlap, whichever were overwritten or        *)
(* rejected on the way.  (For memlocs that start in their segment: see     *)
(* OverlapIsRejected.)                                                     *)
Overlap(o, p) == /\ Seg[o] = Seg[p]
                 /\ Off[o] < Off[p] + Len[p]
                 /\ Off[p] < Off[o] + Len[o]

NoOverlap == \A o, p \in memdata : o # p => ~Overlap(o, p)

(* findMemloc(addr, false) looks at one entry of the map only and still    *)
(* finds the memloc that covers addr, whenever there is one and addr is an *)
(* address of the segment.                                                 *)
FindsCover ==
  \A o \in memdata : \A x \in 0 .. (SegLen[Seg[o]] - 1) :
     Covers(o, Seg[o], x) => Inside(memdata, hash, Seg[o], x) = {o}

(* While no insertion threw and none was interleaved with another call, a  *)
(* memloc of the tables never points to a deleted neighbour, and two       *)
(* memlocs of the tables that are linked one way are linked both ways.     *)
LinksSound ==
  ~disturbed /\ ~Inserting(Threads) =>
    \A o \in memdata :
      /\ prev[o] \in alive \cup {NoMemloc}
      /\ next[o] \in alive \cup {NoMemloc}
      /\ prev[o] \in memdata => next[prev[o]] = o
      /\ next[o] \in memdata => prev[next[o]] = o

(* memlocmanager.cpp:37 rejects an overlapping memloc: whatever segment    *)
(* the memlocs start in, no two in the table overlap.                      *)
OverlapIsRejected == NoOverlap

(* i_memlocdata.h:47,53: the previous and next pointers lead to the        *)
(* contiguous memloc, or nowhere "if none could be found".                 *)
LinksAreContiguous ==
  ~Inserting(Threads) =>
    \A o \in memdata :
      /\ prev[o] # NoMemloc => prev[o] = PrevOf(o)
      /\ next[o] # NoMemloc => next[o] = NextOf(o)
=============================================================================
