----------------------------- MODULE MemSegments -----------------------------
(***************************************************************************)
(* Memory segments (memsegment.cpp) and the ordered set of them            *)
(* (memsegmentmanager.cpp), as operators on a set of segments.  A segment  *)
(* is a record: its start, its length and its bytes, a function on         *)
(* 0 .. len - 1, or Undefined for a segment without data.                  *)
(***************************************************************************)
EXTENDS Integers

Undefined == [i \in {} |-> 0]

\* What a byte nobody wrote holds: whatever was in the heap.
Unset == -1

\* Mutant: only what is copied is allocated.
SegmentShort(base, len, buffer, n) ==
    [start |-> base, len |-> len,
     data  |-> IF n > 0 THEN [i \in 0 .. n - 1 |-> buffer[i]] ELSE Undefined]

\* MemSegment::MemSegment and init(): the first n bytes of buffer, then zeros.
Segment(base, len, buffer, n) ==
    [start |-> base,
     len   |-> len,
     data  |-> IF n > 0
               THEN [i \in 0 .. len - 1 |-> IF i < n THEN buffer[i] ELSE 0]
               ELSE Undefined]

EndOf(m) == m.start + m.len

\* One of the bounds of mi lies strictly inside the new segment m.
Clash(mi, m) ==
    \/ mi.start > m.start /\ mi.start < EndOf(m)
    \/ EndOf(mi) > m.start /\ EndOf(mi) < EndOf(m)

\* addSegment() throws.
Refused(segs, m) == \E mi \in segs : Clash(mi, m)

\* The set is ordered by start: inserting an equal start changes nothing.
Inserted(segs, m) ==
    IF \E mi \in segs : mi.start = m.start THEN segs ELSE segs \cup {m}

CanResolve(m, a) == a >= m.start /\ a < m.start + m.len

Resolving(segs, a) == {m \in segs : CanResolve(m, a)}

\* locateAddress() returns the first in order that resolves; the address is
\* a segment and an offset.  Resolving(segs, a) # {} tells it from address_t().
FirstOf(ms) == CHOOSE m \in ms : \A k \in ms : m.start <= k.start

Locate(segs, a) ==
    LET m == FirstOf(Resolving(segs, a))
    IN  [seg |-> m, offset |-> a - m.start]

\* get_bytes() checks its first byte; what lies behind the buffer is unknown.
Readable(p) == p.seg.data # Undefined /\ p.offset >= 0 /\ p.offset < p.seg.len

ReadBytes(p, n) ==
    [i \in 0 .. n - 1 |-> IF p.offset + i < p.seg.len
                          THEN p.seg.data[p.offset + i] ELSE Unset]

-----------------------------------------------------------------------------
Overlapping(m, k) == m.start < EndOf(k) /\ k.start < EndOf(m)

Disjoint(segs) == \A m, k \in segs : m # k => ~Overlapping(m, k)

\* The case the test for an overlap leaves out: the new segment is a part, or
\* all, of one that is there.
Within(mi, m) == mi.start <= m.start /\ EndOf(m) <= EndOf(mi)
=============================================================================
