---------------------------- MODULE SearchProofs ----------------------------
(***************************************************************************)
(* That nobody uses results that were deleted, and that results are right, *)
(* for any memory, any texts and any number of searches.  Only what is     *)
(* over is deleted: what the worker has is not over (JobsBusy), and what   *)
(* the timer deletes was stopped and is in the queue once (QueueOnce).     *)
(* The current search has its bytes at the end of the buffer (BytesKept),  *)
(* and its results are those up to where the worker is (Progress).         *)
(***************************************************************************)
EXTENDS Search, SequenceTheorems, WellFoundedInduction, TLAPS

Ids == DOMAIN searches

IsSearch(s) ==
    s = [sought |-> s.sought, found |-> s.found, finished |-> s.finished, gone |-> s.gone]

\* What a list of results contains is left open.
IsList(f) == \E S : f \in Seq(S)

Shapes ==
    /\ IsList(searches)
    /\ \A id \in Ids : IsSearch(searches[id]) /\ IsList(searches[id].found)
    /\ cur \in Ids \cup {None}
    /\ jobs \subseteq Ids
    /\ worker = Empty \/ \E id, i, offset : id \in Ids /\ worker = <<id, i, offset>>
    /\ queue \in Seq(Ids)

Busy(id) == ~searches[id].finished /\ ~searches[id].gone

\* What the worker has to do, or does, is not over; only what is over is deleted.
JobsBusy ==
    /\ \A id \in jobs : Busy(id)
    /\ worker # Empty => worker[1] \notin jobs /\ Busy(worker[1])

\* What was stopped is in the queue once, and the search that goes on is not.
QueueOnce ==
    /\ \A i \in 1 .. Len(queue) : ~searches[queue[i]].gone /\ queue[i] # cur
    /\ \A i, j \in 1 .. Len(queue) : queue[i] = queue[j] => i = j

CurrentLives ==
    /\ cur # None => ~searches[cur].gone /\ iter \in 0 .. Len(searches[cur].found)
    /\ timer => cur # None

IInv == Shapes /\ JobsBusy /\ QueueOnce /\ CurrentLives

-----------------------------------------------------------------------------
(* Lists *)

LEMMA ListLen ==
    ASSUME NEW f, IsList(f)
    PROVE  Len(f) \in Nat /\ DOMAIN f = 1 .. Len(f) /\ f = [i \in 1 .. Len(f) |-> f[i]]
<1>1. PICK S : f \in Seq(S)
  BY DEF IsList
<1> QED
  BY <1>1, LenProperties

LEMMA FunctionIsList ==
    ASSUME NEW n \in Nat, NEW f, f = [i \in 1 .. n |-> f[i]]
    PROVE  IsList(f) /\ Len(f) = n
<1> DEFINE S == {f[i] : i \in 1 .. n}
<1>1. f \in [1 .. n -> S]
  OBVIOUS
<1> HIDE DEF S
<1>2. f \in Seq(S)
  BY <1>1, SeqDef
<1>3. DOMAIN f = 1 .. n
  BY <1>1
<1>4. Len(f) = n
  BY <1>2, <1>3, LenProperties
<1> QED
  BY <1>2, <1>4 DEF IsList

LEMMA ListAppend ==
    ASSUME NEW f, IsList(f), NEW e
    PROVE  /\ IsList(Append(f, e)) /\ Len(Append(f, e)) = Len(f) + 1
           /\ Append(f, e)[Len(f) + 1] = e
           /\ \A i \in 1 .. Len(f) : Append(f, e)[i] = f[i]
<1>1. PICK S : f \in Seq(S)
  BY DEF IsList
<1> DEFINE T == S \cup {e}
<1>2. f \in Seq(T) /\ e \in T
  BY <1>1, SeqMonotonic
<1> HIDE DEF T
<1> QED
  BY <1>2, AppendProperties DEF IsList

\* The front of the queue, up to the first search that is not over.
LEMMA OverIs ==
    ASSUME queue \in Seq(Ids)
    PROVE  /\ Over \in 0 .. Len(queue)
           /\ \A i \in 1 .. Over : searches[queue[i]].finished
<1> DEFINE Done(n) == \A i \in 1 .. n : searches[queue[i]].finished
           Stop == {n \in 0 .. Len(queue) : n = Len(queue) \/ ~Done(n + 1)}
<1>1. Len(queue) \in Nat
  BY LenProperties
<1>2. Len(queue) \in Stop
  BY <1>1
<1>3. Stop \subseteq Nat
  OBVIOUS
<1>4. PICK n \in Stop : \A m \in Stop : n <= m
  <2> HIDE DEF Stop
  <2>1. PICK n \in Stop : \A m \in Stop : <<m, n>> \notin OpToRel(<, Nat)
    BY <1>2, <1>3, NatLessThanWellFounded, WFMin
  <2>2. ASSUME NEW m \in Stop, m < n
        PROVE  FALSE
    <3>1. m \in Nat /\ n \in Nat
      BY <1>3
    <3>2. <<m, n>> \in OpToRel(<, Nat)
      BY <2>2, <3>1 DEF OpToRel
    <3> QED
      BY <2>1, <3>2
  <2>3. \A m \in Stop : m \in Int /\ n \in Int
    BY <1>3
  <2> QED
    BY <2>2, <2>3
<1>5. Done(n)
  <2>1. CASE n = 0
    BY <2>1
  <2>2. CASE n # 0
    <3>1. n - 1 \in 0 .. Len(queue) /\ n - 1 # Len(queue)
      BY <1>1, <2>2
    <3>2. n - 1 \notin Stop
      <4> HIDE DEF Stop
      <4>1. ~(n <= n - 1)
        BY <1>3
      <4> QED
        BY <1>4, <4>1
    <3> QED
      BY <1>3, <3>1, <3>2
  <2> QED
    BY <2>1, <2>2
<1>6. \E k \in 0 .. Len(queue) : Done(k) /\ (k = Len(queue) \/ ~Done(k + 1))
  BY <1>4, <1>5
<1> QED
  BY <1>6 DEF Over

-----------------------------------------------------------------------------
(* Searches *)

\* Deleting sets a mark and leaves everything else alone.
LEMMA DeleteIs ==
    ASSUME Shapes, NEW ids
    PROVE  /\ IsList(Delete(ids)) /\ DOMAIN Delete(ids) = Ids
           /\ \A id \in Ids :
                /\ IsSearch(Delete(ids)[id])
                /\ Delete(ids)[id].found = searches[id].found
                /\ Delete(ids)[id].finished = searches[id].finished
                /\ id \notin ids => Delete(ids)[id] = searches[id]
<1> DEFINE new == Delete(ids)
<1>1. Len(searches) \in Nat /\ Ids = 1 .. Len(searches)
  BY ListLen DEF Shapes, Ids
<1>2. new = [i \in 1 .. Len(searches) |-> new[i]] /\ DOMAIN new = Ids
  BY <1>1 DEF Delete, Ids
<1>3. IsList(new)
  <2> HIDE DEF new
  <2> QED
    BY <1>1, <1>2, FunctionIsList
<1>4. ASSUME NEW id \in Ids
      PROVE  /\ IsSearch(new[id])
             /\ new[id].found = searches[id].found /\ new[id].finished = searches[id].finished
             /\ id \notin ids => new[id] = searches[id]
  <2>1. new[id] = IF id \in ids THEN [searches[id] EXCEPT !.gone = TRUE] ELSE searches[id]
    BY DEF Delete, Ids
  <2>2. IsSearch(searches[id])
    BY DEF Shapes
  <2> HIDE DEF new
  <2> QED
    BY <2>1, <2>2 DEF IsSearch
<1> QED
  BY <1>2, <1>3, <1>4

LEMMA WithResultIs ==
    ASSUME NEW s, IsSearch(s), IsList(s.found), NEW place
    PROVE  /\ IsSearch(WithResult(s, place)) /\ IsList(WithResult(s, place).found)
           /\ Len(s.found) \in Nat /\ Len(WithResult(s, place).found) = Len(s.found) + 1
           /\ WithResult(s, place).finished = s.finished /\ WithResult(s, place).gone = s.gone
           /\ WithResult(s, place).found = Append(s.found, place)
           /\ WithResult(s, place).sought = s.sought
<1>1. WithResult(s, place) = [sought |-> s.sought, found |-> Append(s.found, place),
                              finished |-> s.finished, gone |-> s.gone]
  BY DEF WithResult, IsSearch
<1> QED
  BY <1>1, ListAppend, ListLen DEF IsSearch

LEMMA FinishedIs ==
    ASSUME NEW s, IsSearch(s), NEW v
    PROVE  [s EXCEPT !.finished = v]
             = [sought |-> s.sought, found |-> s.found, finished |-> v, gone |-> s.gone]
BY DEF IsSearch

LEMMA MarkedIs ==
    ASSUME NEW s, IsSearch(s)
    PROVE  IsSearch(Marked(s)) /\ Marked(s).found = s.found /\ Marked(s).gone = s.gone
<1>1. Marked(s) = [sought |-> s.sought, found |-> s.found, finished |-> TRUE, gone |-> s.gone]
  BY FinishedIs DEF Marked
<1> QED
  BY <1>1 DEF IsSearch

\* AfterStop deletes nothing that anybody works on or waits for.
LEMMA AfterStopIs ==
    ASSUME IInv
    PROVE  /\ IsList(AfterStop) /\ DOMAIN AfterStop = Ids
           /\ \A id \in Ids :
                /\ IsSearch(AfterStop[id]) /\ IsList(AfterStop[id].found)
                /\ AfterStop[id].finished = searches[id].finished
                /\ Busy(id) \/ id # cur \/ Kept => AfterStop[id] = searches[id]
<1>1. Shapes
  BY DEF IInv
<1>2. CASE cur = None \/ Kept
  BY <1>1, <1>2 DEF AfterStop, Shapes, Ids
<1>3. CASE cur # None /\ ~Kept
  <2>1. AfterStop = Delete({cur})
    BY <1>3 DEF AfterStop
  <2>2. Kept \/ ~Busy(cur)
    BY <1>3 DEF Kept, Busy
  <2>3. \A id \in Ids : Busy(id) \/ id # cur \/ Kept => id \notin {cur}
    BY <1>3, <2>2
  <2>4. \A id \in Ids : IsList(searches[id].found)
    BY <1>1 DEF Shapes
  <2> QED
    BY <1>1, <2>1, <2>3, <2>4, DeleteIs
<1> QED
  BY <1>2, <1>3

\* The queue once a search that has not finished was stopped.
LEMMA QueueAfterStop ==
    ASSUME IInv, queue' = IF Kept THEN Append(queue, cur) ELSE queue
    PROVE  /\ queue' \in Seq(Ids)
           /\ \A i \in 1 .. Len(queue') :
                /\ ~searches[queue'[i]].gone /\ queue'[i] \in Ids
                /\ queue'[i] # cur \/ Kept
           /\ \A i, j \in 1 .. Len(queue') : queue'[i] = queue'[j] => i = j
<1>1. queue \in Seq(Ids) /\ Len(queue) \in Nat /\ \A i \in 1 .. Len(queue) : queue[i] \in Ids
  BY LenProperties, ElementOfSeq DEF IInv, Shapes
<1>2. CASE Kept
  <2>1. cur \in Ids /\ ~searches[cur].gone
    BY <1>2 DEF Kept, IInv, Shapes, CurrentLives
  <2>2. /\ queue' \in Seq(Ids) /\ Len(queue') = Len(queue) + 1 /\ queue'[Len(queue) + 1] = cur
        /\ \A i \in 1 .. Len(queue) : queue'[i] = queue[i]
    BY <1>1, <1>2, <2>1, AppendProperties
  <2> QED
    BY <1>1, <1>2, <2>1, <2>2 DEF IInv, QueueOnce
<1>3. CASE ~Kept
  BY <1>1, <1>3 DEF IInv, QueueOnce
<1> QED
  BY <1>2, <1>3

-----------------------------------------------------------------------------
(* Steps *)

LEMMA TakeKeeps ==
    ASSUME IInv, Take
    PROVE  IInv'
<1>1. PICK id \in jobs : jobs' = jobs \ {id} /\ worker' \in {Empty, <<id, 1, 0>>}
  BY DEF Take
<1>2. UNCHANGED <<searches, cur, iter, timer, queue>>
  BY DEF Take, widget
<1>3. Shapes'
  BY <1>1, <1>2 DEF IInv, Shapes, Ids
<1>4. JobsBusy'
  BY <1>1, <1>2 DEF IInv, JobsBusy, Busy, Empty
<1>5. QueueOnce' /\ CurrentLives'
  BY <1>2 DEF IInv, QueueOnce, CurrentLives
<1> QED
  BY <1>3, <1>4, <1>5 DEF IInv

LEMMA TryKeeps ==
    ASSUME IInv, Try
    PROVE  IInv'
<1>1. PICK id, i, offset : id \in Ids /\ worker = <<id, i, offset>>
  BY DEF Try, IInv, Shapes
<1> DEFINE s == searches[id]
           after == IF Found(i, offset, Len(s.sought)) THEN WithResult(s, <<i, offset>>) ELSE s
<1>2. UNCHANGED <<jobs, cur, iter, timer, queue>>
  BY DEF Try, widget
<1>3. \/ worker' = Empty /\ searches' = [searches EXCEPT ![id] = Marked(after)]
      \/ (\E k, o : worker' = <<id, k, o>>) /\ searches' = [searches EXCEPT ![id] = after]
  BY <1>1 DEF Try, Empty
<1>4. s = searches[id] /\ IsSearch(s) /\ IsList(s.found) /\ Busy(id) /\ id \notin jobs
  BY <1>1 DEF IInv, Shapes, JobsBusy, Empty
<1>5. /\ IsSearch(after) /\ IsList(after.found) /\ Len(after.found) \in Nat
      /\ Len(s.found) \in Nat /\ Len(after.found) >= Len(s.found)
      /\ after.finished = s.finished /\ after.gone = s.gone
  <2>1. CASE after = s
    BY <1>4, <2>1, ListLen
  <2>2. CASE after = WithResult(s, <<i, offset>>)
    <3> HIDE DEF after, s
    <3> QED
      BY <1>4, <2>2, WithResultIs
  <2> QED
    BY <2>1, <2>2
<1>6. /\ IsSearch(Marked(after)) /\ Marked(after).found = after.found
      /\ Marked(after).gone = after.gone
  <2> HIDE DEF after
  <2> QED
    BY <1>5, MarkedIs
<1> HIDE DEF after, s
<1>7. /\ DOMAIN searches' = Ids
      /\ \A k \in Ids \ {id} : searches'[k] = searches[k]
      /\ searches'[id] = after \/ (worker' = Empty /\ searches'[id] = Marked(after))
  BY <1>1, <1>3 DEF Ids
<1>8. IsList(searches')
  <2>1. Len(searches) \in Nat /\ Ids = 1 .. Len(searches)
    BY ListLen DEF IInv, Shapes, Ids
  <2>2. searches' = [k \in 1 .. Len(searches) |-> searches'[k]]
    BY <1>3, <2>1 DEF Ids
  <2> QED
    BY <2>1, <2>2, FunctionIsList
<1>9. Shapes'
  <2>1. \A k \in Ids : IsSearch(searches'[k]) /\ IsList(searches'[k].found)
    BY <1>5, <1>6, <1>7 DEF IInv, Shapes
  <2>2. worker' = Empty \/ \E j, k, o : j \in Ids /\ worker' = <<j, k, o>>
    BY <1>1, <1>3
  <2> QED
    BY <1>2, <1>7, <1>8, <2>1, <2>2 DEF IInv, Shapes, Ids
<1>10. JobsBusy'
  BY <1>2, <1>3, <1>4, <1>5, <1>7 DEF IInv, JobsBusy, Shapes, Busy, Empty, s
<1>11. \A k \in Ids : /\ searches'[k].gone = searches[k].gone
                     /\ \A n \in 0 .. Len(searches[k].found) : n \in 0 .. Len(searches'[k].found)
  BY <1>5, <1>6, <1>7 DEF s
<1>12. \A n \in 1 .. Len(queue) : queue[n] \in Ids
  BY ElementOfSeq DEF IInv, Shapes
<1>13. QueueOnce' /\ CurrentLives'
  BY <1>2, <1>11, <1>12 DEF IInv, Shapes, QueueOnce, CurrentLives
<1> QED
  BY <1>9, <1>10, <1>13 DEF IInv

LEMMA StopKeeps ==
    ASSUME IInv, StopSearch
    PROVE  IInv'
<1>1. /\ searches' = AfterStop /\ cur' = None /\ timer' = FALSE /\ UNCHANGED <<jobs, worker>>
      /\ queue' = IF Kept THEN Append(queue, cur) ELSE queue
  BY DEF StopSearch
<1>2. Shapes'
  BY <1>1, AfterStopIs, QueueAfterStop DEF IInv, Shapes, Ids
<1>3. JobsBusy'
  BY <1>1, AfterStopIs DEF IInv, JobsBusy, Shapes, Busy, Empty
<1>4. QueueOnce'
  <2>1. \A i \in 1 .. Len(queue') : ~searches'[queue'[i]].gone /\ queue'[i] # None
    <3> SUFFICES ASSUME NEW i \in 1 .. Len(queue')
                 PROVE  ~AfterStop[queue'[i]].gone /\ queue'[i] # None
      BY <1>1
    <3> DEFINE k == queue'[i]
    <3>1. k \in Ids /\ ~searches[k].gone /\ (k # cur \/ Kept)
      BY <1>1, QueueAfterStop
    <3>2. AfterStop[k] = searches[k]
      BY <3>1, AfterStopIs
    <3>3. Ids = 1 .. Len(searches)
      BY ListLen DEF IInv, Shapes, Ids
    <3> QED
      BY <3>1, <3>2, <3>3 DEF None
  <2> QED
    BY <1>1, <2>1, QueueAfterStop DEF QueueOnce
<1> QED
  BY <1>1, <1>2, <1>3, <1>4 DEF IInv, CurrentLives

LEMMA StartKeeps ==
    ASSUME IInv, StartSearch
    PROVE  IInv'
<1> DEFINE b == Translate(text)
           id == Len(searches) + 1
<1>1. CASE b = Empty
  <2>1. CASE UNCHANGED <<run, searches, bytes, cur, iter, lastcount, searching, timer, queue>>
    BY <2>1 DEF IInv, Shapes, Ids, JobsBusy, Busy, QueueOnce, CurrentLives, run
  <2> QED
    BY <1>1, <2>1, StopKeeps DEF StartSearch
<1>2. CASE b # Empty
  <2>1. /\ searches' = Append(AfterStop, Submitted(b)) /\ jobs' = jobs \cup {id}
        /\ queue' = IF Kept THEN Append(queue, cur) ELSE queue
        /\ cur' = id /\ iter' = None /\ UNCHANGED worker
    BY <1>2 DEF StartSearch
  <2>2. Len(searches) \in Nat /\ Ids = 1 .. Len(searches) /\ id \notin Ids /\ id # None
    BY ListLen DEF IInv, Shapes, Ids, None
  <2>3. Len(AfterStop) = Len(searches)
    BY <2>2, AfterStopIs, ListLen
  <2>4. /\ IsList(searches') /\ DOMAIN searches' = Ids \cup {id} /\ searches'[id] = Submitted(b)
        /\ \A k \in Ids : searches'[k] = AfterStop[k]
    BY <2>1, <2>2, <2>3, AfterStopIs, ListAppend, ListLen
  <2>5. /\ IsSearch(Submitted(b)) /\ Submitted(b).found = Empty
        /\ Submitted(b).finished = FALSE /\ Submitted(b).gone = FALSE
    BY DEF Submitted, IsSearch
  <2>6. IsList(Empty) /\ Len(Empty) = 0
    BY EmptySeq DEF IsList, Empty
  <2> HIDE DEF b, id
  <2>7. Shapes'
    <3>1. queue' \in Seq(Ids \cup {id})
      BY <2>1, QueueAfterStop, SeqMonotonic
    <3> QED
      BY <2>1, <2>4, <2>5, <2>6, <3>1, AfterStopIs DEF IInv, Shapes, Ids
  <2>8. JobsBusy'
    BY <2>1, <2>2, <2>4, <2>5, AfterStopIs DEF IInv, JobsBusy, Shapes, Busy, Empty
  <2>9. QueueOnce'
    <3>1. ASSUME NEW i \in 1 .. Len(queue')
          PROVE  ~searches'[queue'[i]].gone /\ queue'[i] # cur'
      <4> DEFINE k == queue'[i]
      <4>1. k \in Ids /\ ~searches[k].gone /\ (k # cur \/ Kept)
        BY <2>1, QueueAfterStop
      <4>2. searches'[k] = searches[k]
        BY <2>4, <4>1, AfterStopIs
      <4> QED
        BY <2>1, <2>2, <4>1, <4>2
    <3> QED
      BY <2>1, <3>1, QueueAfterStop DEF QueueOnce
  <2>10. CurrentLives'
    BY <2>1, <2>2, <2>4, <2>5, <2>6 DEF CurrentLives, None
  <2> QED
    BY <2>7, <2>8, <2>9, <2>10 DEF IInv
<1> QED
  BY <1>1, <1>2

\* The ring of results: from any place, or none, to a place.
LEMMA RingIs ==
    ASSUME IInv, cur # None, Results # Empty
    PROVE  NextOf \in 0 .. Len(Results) /\ PrevOf \in 0 .. Len(Results)
<1>1. Len(Results) \in Nat /\ Len(Results) # 0 /\ iter \in Int
  <2>1. PICK S : Results \in Seq(S)
    BY DEF IInv, Shapes, IsList, Results
  <2> QED
    BY <2>1, EmptySeq, LenProperties DEF Empty, IInv, CurrentLives, Results
<1>2. \A n \in Int : n % Len(Results) \in 0 .. Len(Results) - 1
  BY <1>1
<1>3. ASSUME NEW n \in Int
      PROVE  Nth(n) \in 1 .. Len(Results)
  <2>1. (n - 1) % Len(Results) \in 0 .. Len(Results) - 1
    BY <1>2
  <2> DEFINE r == (n - 1) % Len(Results)
  <2> HIDE DEF r
  <2>2. r + 1 \in 1 .. Len(Results)
    BY <1>1, <2>1 DEF r
  <2> QED
    BY <2>2 DEF Nth, r
<1>4. iter + 1 \in Int /\ iter - 1 \in Int
  BY <1>1
<1>5. Nth(iter + 1) \in 1 .. Len(Results) /\ Nth(iter - 1) \in 1 .. Len(Results)
  BY <1>3, <1>4
<1> QED
  BY <1>1, <1>5 DEF NextOf, PrevOf

LEMMA GoKeeps ==
    ASSUME IInv, cur # None, UNCHANGED <<run, searches, cur, timer, queue>>,
           iter' = iter \/ (Results # Empty /\ iter' \in {NextOf, PrevOf})
    PROVE  IInv'
<1>1. iter' \in 0 .. Len(searches[cur].found)
  BY RingIs DEF IInv, CurrentLives, Results
<1>2. Shapes' /\ JobsBusy' /\ QueueOnce'
  BY DEF IInv, Shapes, Ids, JobsBusy, Busy, QueueOnce, run
<1> QED
  BY <1>1, <1>2 DEF IInv, CurrentLives

LEMMA TimeoutKeeps ==
    ASSUME IInv, Timeout
    PROVE  IInv'
<1> DEFINE over == {queue[i] : i \in 1 .. Over}
<1>1. cur # None /\ cur \in Ids
  BY DEF Timeout, IInv, Shapes, CurrentLives
<1>2. /\ searches' = Delete(over) /\ queue' = SubSeq(queue, Over + 1, Len(queue))
      /\ UNCHANGED <<run, cur>> /\ (timer' => cur' # None)
      /\ iter' = iter \/ (Results # Empty /\ iter' = NextOf)
  BY <1>1 DEF Timeout
<1>3. /\ queue \in Seq(Ids) /\ Len(queue) \in Nat /\ Over \in 0 .. Len(queue)
      /\ \A i \in 1 .. Len(queue) : queue[i] \in Ids
      /\ \A i \in 1 .. Over : searches[queue[i]].finished
  BY LenProperties, ElementOfSeq, OverIs DEF IInv, Shapes
<1>4. \A id \in over : id \in Ids /\ searches[id].finished /\ id # cur
  BY <1>3 DEF IInv, QueueOnce
<1> HIDE DEF over
<1>5. /\ IsList(searches') /\ DOMAIN searches' = Ids
      /\ \A id \in Ids : /\ IsSearch(searches'[id]) /\ searches'[id].found = searches[id].found
                         /\ id \notin over => searches'[id] = searches[id]
  BY <1>2, DeleteIs DEF IInv
<1>6. /\ queue' \in Seq(Ids) /\ Len(queue') = Len(queue) - Over
      /\ \A i \in 1 .. Len(queue') : queue'[i] = queue[Over + i]
  <2>1. \A i \in Over + 1 .. Len(queue) : queue[i] \in Ids
    BY <1>3
  <2>2. /\ SubSeq(queue, Over + 1, Len(queue)) \in Seq(Ids)
        /\ Len(SubSeq(queue, Over + 1, Len(queue))) = Len(queue) - Over
        /\ \A i \in 1 .. Len(queue) - Over :
             SubSeq(queue, Over + 1, Len(queue))[i] = queue[Over + i]
    BY <1>3, <2>1, SubSeqProperties
  <2> QED
    BY <1>2, <2>2
<1>7. Shapes'
  BY <1>2, <1>5, <1>6 DEF IInv, Shapes, Ids, run
<1>8. JobsBusy'
  BY <1>2, <1>4, <1>5 DEF IInv, Shapes, JobsBusy, Busy, Empty, run
<1>9. QueueOnce'
  <2>1. ASSUME NEW i \in 1 .. Len(queue')
        PROVE  ~searches'[queue'[i]].gone /\ queue'[i] # cur'
    <3>1. Over + i \in 1 .. Len(queue) /\ queue'[i] = queue[Over + i]
      BY <1>3, <1>6
    <3>2. queue[Over + i] \notin over
      <4>1. \A j \in 1 .. Over : j \in 1 .. Len(queue) /\ j # Over + i
        BY <1>3, <1>6
      <4> QED
        BY <3>1, <4>1 DEF over, IInv, QueueOnce
    <3>3. queue[Over + i] \in Ids /\ ~searches[queue[Over + i]].gone /\ queue[Over + i] # cur
      BY <1>3, <3>1 DEF IInv, QueueOnce
    <3> QED
      BY <1>2, <1>5, <3>1, <3>2, <3>3
  <2>2. ASSUME NEW i \in 1 .. Len(queue'), NEW j \in 1 .. Len(queue'), queue'[i] = queue'[j]
        PROVE  i = j
    <3>1. /\ Over + i \in 1 .. Len(queue) /\ Over + j \in 1 .. Len(queue)
          /\ queue[Over + i] = queue[Over + j]
      BY <1>3, <1>6, <2>2
    <3>2. Over + i = Over + j
      BY <3>1 DEF IInv, QueueOnce
    <3> QED
      BY <1>3, <3>2
  <2> QED
    BY <2>1, <2>2 DEF QueueOnce
<1>10. CurrentLives'
  <2>1. searches'[cur] = searches[cur]
    BY <1>1, <1>4, <1>5
  <2>2. iter' \in 0 .. Len(searches[cur].found)
    BY <1>1, <1>2, RingIs DEF IInv, CurrentLives, Results
  <2> QED
    BY <1>2, <2>1, <2>2 DEF IInv, CurrentLives
<1> QED
  BY <1>7, <1>8, <1>9, <1>10 DEF IInv

-----------------------------------------------------------------------------

\* What anybody works on or waits for is neither over nor deleted.
THEOREM SearchInvariant == Spec => []IInv
<1>1. Init => IInv
  <2> SUFFICES ASSUME Init
               PROVE  Shapes /\ JobsBusy /\ QueueOnce /\ CurrentLives
    BY DEF IInv
  <2>1. IsList(Empty) /\ Empty \in Seq(Ids) /\ Len(Empty) = 0 /\ DOMAIN Empty = {}
    BY EmptySeq DEF Empty, IsList
  <2>2. Shapes
    BY <2>1 DEF Init, Shapes, Ids
  <2>3. JobsBusy /\ QueueOnce /\ CurrentLives
    BY <2>1 DEF Init, JobsBusy, QueueOnce, CurrentLives
  <2> QED
    BY <2>2, <2>3
<1>2. IInv /\ [Next]_vars => IInv'
  <2> SUFFICES ASSUME IInv, [Next]_vars
               PROVE  IInv'
    OBVIOUS
  <2>1. CASE Invalidate
    BY <2>1, StopKeeps DEF Invalidate
  <2>2. CASE NextResult
    BY <2>2, StartKeeps, GoKeeps DEF NextResult, Go
  <2>3. CASE PrevResult
    BY <2>3, StartKeeps, GoKeeps DEF PrevResult, Go
  <2>4. CASE UNCHANGED vars
    BY <2>4 DEF vars, run, widget, IInv, Shapes, Ids, JobsBusy, Busy, QueueOnce, CurrentLives
  <2> QED
    BY <2>1, <2>2, <2>3, <2>4, TakeKeeps, TryKeeps, StartKeeps, TimeoutKeeps
       DEF Next, ReturnPressed
<1> QED
  BY <1>1, <1>2, PTL DEF Spec

\* Nobody uses results that were deleted: not the job that still fills them in,
\* nor the widget that steps through them (searchwidget.cpp:148), whatever is
\* stopped, started again and cleared away by the timer meanwhile.
THEOREM SearchResultsLive == Spec => []ResultsLive
<1>1. IInv => ResultsLive
  <2> SUFFICES ASSUME IInv
               PROVE  ResultsLive
    OBVIOUS
  <2>1. DOMAIN queue = 1 .. Len(queue)
    BY LenProperties DEF IInv, Shapes
  <2> QED
    BY <2>1 DEF ResultsLive, Results, IInv, JobsBusy, Busy, QueueOnce, CurrentLives
<1> QED
  BY <1>1, SearchInvariant, PTL

-----------------------------------------------------------------------------
(* What is sought *)

LEMMA LeastNat ==
    ASSUME NEW D, D \subseteq Nat, D # {}
    PROVE  \E d \in D : \A e \in D : d <= e
<1>1. PICK d \in D : \A e \in D : ~(<<e, d>> \in OpToRel(<, Nat))
  BY WFMin, NatLessThanWellFounded
<1>2. ASSUME NEW e \in D PROVE d <= e
  <2>1. d \in Nat /\ e \in Nat
    OBVIOUS
  <2>2. ~(e < d)
    BY <1>1, <2>1 DEF OpToRel
  <2> QED
    BY <2>1, <2>2
<1> QED
  BY <1>2

\* Induction over a set of naturals: a step from all that are less.
LEMMA AllNat ==
    ASSUME NEW S, \A n \in Nat : (\A k \in Nat : k < n => k \in S) => n \in S
    PROVE  Nat \subseteq S
<1> SUFFICES ASSUME Nat \ S # {} PROVE FALSE
  OBVIOUS
<1>1. PICK d \in Nat \ S : \A e \in Nat \ S : d <= e
  BY LeastNat
<1>2. ASSUME NEW k \in Nat, k < d PROVE k \in S
  <2>1. ~(d <= k)
    BY <1>2
  <2> QED
    BY <1>1, <2>1
<1> QED
  BY <1>1, <1>2

\* Digits stand for a natural number.
LEMMA ValueIsNat ==
    ASSUME NEW t \in Seq(1 .. 127), AllIn(t, HexDigits), NEW radix \in Nat
    PROVE  Value(t, radix) \in Nat
<1> DEFINE Step(f, n) == IF n = 0 THEN 0 ELSE (radix * f[n - 1]) + DigitValue(t[n])
           Run(f, k) == f = [n \in 0 .. k |-> Step(f, n)]
           Good == {k \in Nat : k <= Len(t) =>
                        \E f : Run(f, k) /\ \A n \in 0 .. k : f[n] \in Nat}
<1>1. Len(t) \in Nat /\ DOMAIN t = 1 .. Len(t)
  BY LenProperties
<1>2. ASSUME NEW n \in 1 .. Len(t) PROVE DigitValue(t[n]) \in Nat
  <2>1. ASSUME NEW c \in HexDigits PROVE DigitValue(c) \in Nat
    <3>1. c \in Nat /\ c % 32 \in Nat
      BY DEF HexDigits, Digits
    <3>2. c \in Digits => c - 48 \in Nat
      BY DEF Digits
    <3> QED
      BY <3>1, <3>2 DEF DigitValue
  <2>2. t[n] \in HexDigits
    BY <1>1 DEF AllIn
  <2> QED
    BY <2>1, <2>2
<1>3. 0 \in Good
  <2>1. Run([n \in 0 .. 0 |-> 0], 0) /\ \A n \in 0 .. 0 : [i \in 0 .. 0 |-> 0][n] \in Nat
    OBVIOUS
  <2>2. \E f : Run(f, 0) /\ \A n \in 0 .. 0 : f[n] \in Nat
    <3> HIDE DEF Run
    <3> QED
      BY <2>1
  <2> QED
    BY <2>2
<1>4. ASSUME NEW k \in Nat, k \in Good PROVE k + 1 \in Good
  <2> SUFFICES ASSUME k + 1 <= Len(t)
               PROVE  \E h : Run(h, k + 1) /\ \A n \in 0 .. k + 1 : h[n] \in Nat
    BY SMTT(60)
  <2>1. PICK f : Run(f, k) /\ \A n \in 0 .. k : f[n] \in Nat
    BY <1>1, <1>4
  <2>2. PICK v \in Nat : v = (radix * f[k]) + DigitValue(t[k + 1])
    <3>1. f[k] \in Nat /\ DigitValue(t[k + 1]) \in Nat
      BY <2>1, <1>1, <1>2
    <3>2. radix * f[k] \in Nat
      BY <3>1
    <3> QED
      BY <3>1, <3>2
  <2> DEFINE g == [n \in 0 .. k + 1 |-> IF n = k + 1 THEN v ELSE f[n]]
  <2>3. \A n \in 0 .. k : f[n] = Step(f, n)
    BY <2>1
  <2>4. (\A n \in 0 .. k : g[n] = f[n]) /\ g[k + 1] = v
    OBVIOUS
  <2>5. DOMAIN g = 0 .. k + 1 /\ g = [n \in 0 .. k + 1 |-> g[n]]
    OBVIOUS
  <2> HIDE DEF g
  <2>6. ASSUME NEW n \in 0 .. k + 1
        PROVE  g[n] = Step(g, n) /\ g[n] \in Nat
    <3>1. CASE n = k + 1
      <4>1. n - 1 = k /\ n # 0 /\ k \in 0 .. k
        BY <3>1
      <4>2. g[n - 1] = f[k]
        BY <4>1, <2>4
      <4> QED
        BY <3>1, <4>1, <4>2, <2>2, <2>4
    <3>2. CASE n \in 0 .. k
      <4>1. n # 0 => n - 1 \in 0 .. k
        BY <3>2
      <4> QED
        BY <3>2, <4>1, <2>1, <2>3, <2>4
    <3> QED
      BY <3>1, <3>2
  <2>7. Run(g, k + 1)
    BY <2>5, <2>6
  <2> HIDE DEF Run
  <2> QED
    BY <2>6, <2>7
<1>5. Len(t) \in Good
  <2> HIDE DEF Good
  <2>1. ASSUME NEW n \in Nat, \A k \in Nat : k < n => k \in Good PROVE n \in Good
    <3>1. CASE n = 0
      BY <3>1, <1>3
    <3>2. CASE n # 0
      <4>1. n - 1 \in Nat /\ n - 1 < n /\ (n - 1) + 1 = n
        BY <3>2
      <4> QED
        BY <4>1, <2>1, <1>4
    <3> QED
      BY <3>1, <3>2
  <2>2. Nat \subseteq Good
    BY <2>1, AllNat
  <2> QED
    BY <2>2, <1>1
<1>6. PICK f : Run(f, Len(t)) /\ \A n \in 0 .. Len(t) : f[n] \in Nat
  BY <1>1, <1>5
<1> DEFINE upTo == CHOOSE g : Run(g, Len(t))
<1>7. Run(upTo, Len(t))
  BY <1>6
<1>8. Value(t, radix) = upTo[Len(t)]
  BY DEF Value
<1> HIDE DEF upTo
<1>9. \A n \in 0 .. Len(t) : upTo[n] = Step(upTo, n) /\ f[n] = Step(f, n)
  BY <1>6, <1>7
<1> DEFINE Same == {n \in Nat : n <= Len(t) => upTo[n] = f[n]}
<1>10. ASSUME NEW n \in Nat, \A k \in Nat : k < n => k \in Same PROVE n \in Same
  <2> SUFFICES ASSUME n <= Len(t) PROVE upTo[n] = f[n]
    OBVIOUS
  <2>1. upTo[n] = Step(upTo, n) /\ f[n] = Step(f, n)
    BY <1>1, <1>9
  <2>2. n # 0 => upTo[n - 1] = f[n - 1]
    BY <1>1, <1>10
  <2> QED
    BY <2>1, <2>2
<1>11. Len(t) \in Same
  <2> HIDE DEF Same
  <2> QED
    BY <1>1, <1>10, AllNat
<1> QED
  BY <1>1, <1>6, <1>8, <1>11

\* A number has bytes, and they are numbers.
LEMMA BytesOfIs == \A n \in Nat : BytesOf[n] \in Seq(Nat)
<1> DEFINE Step(f, n) == IF n = 0 THEN Empty ELSE Append(f[n \div 256], n % 256)
           Run(f, k) == f = [n \in 0 .. k |-> Step(f, n)]
           Runs == {k \in Nat : \E f : Run(f, k)}
<1>1. ASSUME NEW n \in Nat, n # 0
      PROVE  n \div 256 \in Nat /\ n \div 256 < n /\ n % 256 \in Nat
  BY <1>1
<1>2. ASSUME NEW k \in Nat, NEW m \in Nat, k <= m, NEW f, Run(f, k), NEW g, Run(g, m)
      PROVE  \A n \in 0 .. k : f[n] = g[n]
  <2> DEFINE Same == {n \in Nat : n <= k => f[n] = g[n]}
  <2>1. /\ \A n \in 0 .. k : f[n] = Step(f, n)
        /\ \A n \in 0 .. m : g[n] = Step(g, n)
    BY <1>2, ZenonT(60)
  <2>2. ASSUME NEW n \in Nat, \A i \in Nat : i < n => i \in Same PROVE n \in Same
    <3> SUFFICES ASSUME n <= k PROVE f[n] = g[n]
      OBVIOUS
    <3>1. f[n] = Step(f, n) /\ g[n] = Step(g, n)
      <4>1. n \in 0 .. k /\ n \in 0 .. m
        BY <1>2
      <4> HIDE DEF Step
      <4> QED
        BY <2>1, <4>1
    <3>2. CASE n = 0
      BY <3>1, <3>2
    <3>3. CASE n # 0
      <4>1. n \div 256 \in Nat /\ n \div 256 < n /\ n \div 256 <= k
        BY <1>1, <3>3
      <4>2. f[n \div 256] = g[n \div 256]
        BY <2>2, <4>1
      <4> QED
        BY <3>1, <3>3, <4>2
    <3> QED
      BY <3>2, <3>3
  <2>3. Nat \subseteq Same
    <3> HIDE DEF Same
    <3> QED
      BY <2>2, AllNat
  <2> QED
    BY <2>3
<1>3. Nat \subseteq Runs
  <2>1. ASSUME NEW k \in Nat, \A i \in Nat : i < k => i \in Runs PROVE k \in Runs
    <3>1. CASE k = 0
      <4>1. Run([n \in 0 .. 0 |-> Empty], 0)
        OBVIOUS
      <4>2. \E f : Run(f, 0)
        <5> HIDE DEF Run
        <5> QED
          BY <4>1
      <4> QED
        BY <3>1, <4>2
    <3>2. CASE k # 0
      <4>1. k - 1 \in Nat /\ k - 1 < k
        BY <3>2
      <4>2. PICK f : Run(f, k - 1)
        BY <2>1, <4>1
      <4> DEFINE g == [n \in 0 .. k |->
                          IF n = k THEN Append(f[k \div 256], k % 256) ELSE f[n]]
      <4>3. \A n \in 0 .. k - 1 : f[n] = Step(f, n)
        BY <4>2
      <4>4. (\A n \in 0 .. k - 1 : g[n] = f[n]) /\ g[k] = Append(f[k \div 256], k % 256)
        BY <4>1
      <4>5. DOMAIN g = 0 .. k /\ g = [n \in 0 .. k |-> g[n]]
        OBVIOUS
      <4> HIDE DEF g
      <4>6. ASSUME NEW n \in 0 .. k PROVE g[n] = Step(g, n)
        <5>1. n # 0 => n \div 256 \in 0 .. k - 1
          BY <1>1, <4>1
        <5>2. n # 0 => g[n \div 256] = f[n \div 256]
          BY <5>1, <4>4
        <5>3. CASE n = k
          BY <3>2, <5>2, <5>3, <4>4
        <5>4. CASE n \in 0 .. k - 1
          BY <5>2, <5>4, <4>3, <4>4
        <5> QED
          BY <4>1, <5>3, <5>4
      <4>7. Run(g, k)
        BY <4>5, <4>6, ZenonT(60)
      <4>8. \E h : Run(h, k)
        <5> HIDE DEF Run
        <5> QED
          BY <4>7
      <4> QED
        BY <4>8
    <3> QED
      BY <3>1, <3>2
  <2> HIDE DEF Runs
  <2> QED
    BY <2>1, AllNat
<1> DEFINE run0(k) == CHOOSE f : Run(f, k)
           all == [n \in Nat |-> run0(n)[n]]
<1>4. \A k \in Nat : Run(run0(k), k)
  <2> SUFFICES ASSUME NEW k \in Nat PROVE Run(run0(k), k)
    OBVIOUS
  <2>1. \E f : Run(f, k)
    BY <1>3
  <2> HIDE DEF Run
  <2> QED
    BY <2>1
<1>5. all = [n \in Nat |-> Step(all, n)]
  <2>1. ASSUME NEW n \in Nat PROVE all[n] = Step(all, n)
    <3>1. Run(run0(n), n) /\ all[n] = run0(n)[n]
      BY <1>4
    <3>2. CASE n = 0
      <4> HIDE DEF run0, all
      <4> QED
        BY <3>1, <3>2
    <3>3. CASE n # 0
      <4>1. n \div 256 \in Nat /\ n \div 256 < n /\ n \div 256 <= n
            /\ n \div 256 \in 0 .. n \div 256
        BY <1>1, <3>3
      <4>2. Run(run0(n \div 256), n \div 256) /\ all[n \div 256] = run0(n \div 256)[n \div 256]
        BY <1>4, <4>1
      <4> HIDE DEF run0, all
      <4>3. run0(n \div 256)[n \div 256] = run0(n)[n \div 256]
        <5> HIDE DEF Run
        <5> QED
          BY <3>1, <4>1, <4>2, <1>2
      <4>4. run0(n)[n] = Append(run0(n)[n \div 256], n % 256)
        <5>1. \A i \in 0 .. n : run0(n)[i] = Step(run0(n), i)
          BY <3>1
        <5>2. n \in 0 .. n
          OBVIOUS
        <5>3. run0(n)[n] = Step(run0(n), n)
          <6> HIDE DEF Step
          <6> QED
            BY <5>1, <5>2
        <5> QED
          BY <5>3, <3>3
      <4> QED
        BY <3>1, <3>3, <4>2, <4>3, <4>4, ZenonT(60)
    <3> QED
      BY <3>2, <3>3
  <2>2. all = [n \in Nat |-> all[n]]
    OBVIOUS
  <2> HIDE DEF all
  <2> QED
    BY <2>1, <2>2
<1> HIDE DEF all
<1>6. BytesOf = [n \in Nat |-> Step(BytesOf, n)]
  BY <1>5, ZenonT(60) DEF BytesOf
<1> DEFINE Typed == {n \in Nat : BytesOf[n] \in Seq(Nat)}
<1>7. ASSUME NEW n \in Nat, \A k \in Nat : k < n => k \in Typed PROVE n \in Typed
  <2>1. BytesOf[n] = Step(BytesOf, n)
    BY <1>6
  <2>2. CASE n = 0
    BY <2>1, <2>2, EmptySeq DEF Empty
  <2>3. CASE n # 0
    <3>1. BytesOf[n \div 256] \in Seq(Nat) /\ n % 256 \in Nat
      BY <1>1, <1>7, <2>3
    <3>2. BytesOf[n] = Append(BytesOf[n \div 256], n % 256)
      BY <2>1, <2>3
    <3>3. \A s \in Seq(Nat), e \in Nat : Append(s, e) \in Seq(Nat)
      BY AppendProperties
    <3> QED
      BY <3>1, <3>2, <3>3, ZenonT(60)
  <2> QED
    BY <2>2, <2>3
<1>8. Nat \subseteq Typed
  <2> HIDE DEF Typed
  <2> QED
    BY <1>7, AllNat
<1> QED
  BY <1>8

\* What the user types is turned into bytes.
LEMMA TranslateIs ==
    ASSUME NEW t \in Texts \cup {Empty}
    PROVE  Translate(t) \in Seq(Nat)
<1>0. Empty \in Seq(Nat) /\ Empty \in Seq(1 .. 127)
  BY EmptySeq DEF Empty
<1>1. t \in Seq(1 .. 127)
  BY <1>0, SearchAssumption
<1>2. CASE t # Empty /\ AllIn(t, Digits)
  <2>1. AllIn(t, HexDigits)
    BY <1>2 DEF AllIn, HexDigits
  <2> QED
    BY <1>1, <1>2, <2>1, ValueIsNat, BytesOfIs DEF Translate
<1>3. CASE t # Empty /\ ~AllIn(t, Digits) /\ AllIn(HexPart(t), HexDigits) /\ HexPart(t) # Empty
  <2>1. HexPart(t) \in Seq(1 .. 127)
    <3>1. Len(t) \in Nat
      BY <1>1, LenProperties
    <3>2. \A i \in 3 .. Len(t) : t[i] \in 1 .. 127
      BY <1>1, <3>1, ElementOfSeq
    <3> QED
      BY <1>1, <3>1, <3>2, SubSeqProperties DEF HexPart
  <2>2. Value(HexPart(t), 16) \in Nat
    BY <1>3, <2>1, ValueIsNat
  <2>3. Translate(t) = BytesOf[Value(HexPart(t), 16)]
    BY <1>3 DEF Translate
  <2> QED
    BY <2>2, <2>3, BytesOfIs
<1>4. t \in Seq(Nat)
  <2>1. 1 .. 127 \subseteq Nat
    OBVIOUS
  <2> QED
    BY <1>1, <2>1, SeqMonotonic
<1> QED
  BY <1>0, <1>2, <1>3, <1>4 DEF Translate

\* The bytes of a search are at the end of the buffer.
EndsWith(buffer, b) ==
    \A pos \in 0 .. Len(b) - 1 : buffer[(Len(buffer) - Len(b)) + pos + 1] = b[pos + 1]

LEMMA WrittenIs ==
    ASSUME NEW old \in Seq(Nat), NEW b \in Seq(Nat)
    PROVE  /\ Written(old, b) \in Seq(Nat)
           /\ Len(b) <= Len(Written(old, b))
           /\ EndsWith(Written(old, b), b)
<1> USE DEF EndsWith
<1>1. Len(old) \in Nat /\ Len(b) \in Nat
  BY LenProperties
<1>2. CASE Len(b) >= Len(old)
  BY <1>1, <1>2 DEF Written
<1>3. CASE ~(Len(b) >= Len(old))
  <2> DEFINE front == SubSeq(old, 1, Len(old) - Len(b))
  <2>1. front \in Seq(Nat) /\ Len(front) = Len(old) - Len(b)
    <3>1. \A i \in 1 .. Len(old) - Len(b) : old[i] \in Nat
      BY <1>1, ElementOfSeq
    <3> QED
      BY <1>1, <1>3, <3>1, SubSeqProperties
  <2>2. Written(old, b) = front \o b
    BY <1>3 DEF Written
  <2> HIDE DEF front
  <2>3. /\ front \o b \in Seq(Nat) /\ Len(front \o b) = Len(front) + Len(b)
        /\ \A i \in 1 .. Len(front) + Len(b) :
             (front \o b)[i] = IF i <= Len(front) THEN front[i] ELSE b[i - Len(front)]
    BY <2>1, ConcatProperties
  <2>4. ASSUME NEW pos \in 0 .. Len(b) - 1
        PROVE  (front \o b)[(Len(front \o b) - Len(b)) + pos + 1] = b[pos + 1]
    <3>1. (Len(front \o b) - Len(b)) + pos + 1 = Len(front) + pos + 1
          /\ Len(front) + pos + 1 \in 1 .. Len(front) + Len(b)
          /\ ~(Len(front) + pos + 1 <= Len(front))
          /\ (Len(front) + pos + 1) - Len(front) = pos + 1
      BY <1>1, <1>3, <2>1, <2>3, SMTT(60)
    <3> QED
      BY <2>3, <3>1
  <2> QED
    BY <1>1, <2>1, <2>2, <2>3, <2>4, SMTT(60)
<1> QED
  BY <1>2, <1>3

-----------------------------------------------------------------------------
(* What is found *)

Places == (DOMAIN mem) \X Nat

\* The results f for b are occurrences, in order and apart.
Sound(f, b) ==
    /\ f \in Seq(Places)
    /\ \A n \in DOMAIN f : Occurs(f[n][1], f[n][2], b)
    /\ \A n, m \in DOMAIN f : n < m =>
         \/ f[n][1] < f[m][1]
         \/ f[n][1] = f[m][1] /\ f[n][2] + Len(b) < f[m][2]

\* They end before a place.
Precede(f, b, i, offset) ==
    \A n \in DOMAIN f : f[n][1] < i \/ (f[n][1] = i /\ f[n][2] + Len(b) < offset)

\* Every occurrence before a place begins in one of them or directly behind it.
Reports(f, b, i, offset) ==
    \A j \in DOMAIN mem : \A o \in 0 .. mem[j].len - 1 :
        (j < i \/ (j = i /\ o < offset)) /\ Occurs(j, o, b) =>
            \E n \in DOMAIN f : f[n][1] = j /\ o - f[n][2] \in 0 .. Len(b)

TheEnd == Len(mem) + 1

\* The current search has its bytes in the buffer, whatever was written before.
BytesKept ==
    cur # None =>
        LET b == searches[cur].sought IN b \in Seq(Nat) /\ b # Empty /\ EndsWith(bytes, b)

\* How far it has come is where the worker is.
ComeTo(f, b, finished) ==
    /\ Sound(f, b)
    /\ cur \in jobs => f = Empty
    /\ \A i, offset : worker = <<cur, i, offset>> =>
         /\ i \in DOMAIN mem /\ offset \in Nat
         /\ Precede(f, b, i, offset) /\ Reports(f, b, i, offset)
    /\ finished => Reports(f, b, TheEnd, 0)

Progress ==
    cur # None =>
        ComeTo(searches[cur].found, searches[cur].sought, searches[cur].finished)

Values == mem \in Memories /\ text \in Texts \cup {Empty} /\ bytes \in Seq(Nat)

RInv == Values /\ BytesKept /\ Progress

LEMMA MemIs ==
    ASSUME Values
    PROVE  /\ Len(mem) \in Nat /\ DOMAIN mem = 1 .. Len(mem)
           /\ \A i \in DOMAIN mem : mem[i].len \in Nat
<1>1. mem \in Seq([len : Nat, data : Seq(Nat)])
  BY SearchAssumption DEF Values
<1>2. Len(mem) \in Nat /\ DOMAIN mem = 1 .. Len(mem)
  BY <1>1, LenProperties
<1>3. \A i \in DOMAIN mem : mem[i] \in [len : Nat, data : Seq(Nat)]
  BY <1>1, <1>2, ElementOfSeq
<1> QED
  BY <1>2, <1>3

\* One address is tried.
LEMMA TriedKeeps ==
    ASSUME Values, NEW b \in Seq(Nat), b # Empty, NEW i \in DOMAIN mem, NEW offset \in Nat,
           NEW f, Sound(f, b), Precede(f, b, i, offset), Reports(f, b, i, offset),
           NEW g, g = IF Occurs(i, offset, b) THEN Append(f, <<i, offset>>) ELSE f,
           NEW next, next = IF Occurs(i, offset, b) THEN offset + Len(b) + 1 ELSE offset + 1
    PROVE  Sound(g, b) /\ Precede(g, b, i, next) /\ Reports(g, b, i, next) /\ next \in Nat
<1>1. Len(b) \in Nat \ {0}
  BY EmptySeq DEF Empty
<1>2. /\ f \in Seq(Places) /\ Len(f) \in Nat /\ DOMAIN f = 1 .. Len(f)
      /\ \A n \in DOMAIN f : f[n][1] \in Nat /\ f[n][2] \in Nat
  <2>1. f \in Seq(Places)
    BY DEF Sound
  <2>2. Len(f) \in Nat /\ DOMAIN f = 1 .. Len(f)
    BY <2>1, LenProperties
  <2>3. \A n \in DOMAIN f : f[n] \in Places
    BY <2>1, <2>2, ElementOfSeq
  <2>4. DOMAIN mem \subseteq Nat
    BY MemIs
  <2> QED
    BY <2>1, <2>2, <2>3, <2>4 DEF Places
<1>3. i \in Nat
  BY MemIs
<1>4. CASE ~Occurs(i, offset, b)
  <2>1. g = f /\ next = offset + 1
    BY <1>4
  <2>2. Precede(g, b, i, next)
    <3> SUFFICES ASSUME NEW n \in DOMAIN f
                 PROVE  f[n][1] < i \/ (f[n][1] = i /\ f[n][2] + Len(b) < next)
      BY <2>1 DEF Precede
    <3>1. f[n][1] < i \/ (f[n][1] = i /\ f[n][2] + Len(b) < offset)
      BY DEF Precede
    <3>2. f[n][2] + Len(b) \in Nat
      BY <1>1, <1>2
    <3> QED
      BY <2>1, <3>1, <3>2
  <2>3. Reports(g, b, i, next)
    <3> SUFFICES ASSUME NEW j \in DOMAIN mem, NEW o \in 0 .. mem[j].len - 1,
                        j < i \/ (j = i /\ o < next), Occurs(j, o, b)
                 PROVE  \E n \in DOMAIN f : f[n][1] = j /\ o - f[n][2] \in 0 .. Len(b)
      BY <2>1 DEF Reports
    <3>1. ~(j = i /\ o = offset)
      BY <1>4
    <3>2. o \in Nat
      BY MemIs
    <3>3. j < i \/ (j = i /\ o < offset)
      BY <2>1, <3>1, <3>2
    <3> QED
      BY <3>3 DEF Reports
  <2> QED
    BY <2>1, <2>2, <2>3
<1>5. CASE Occurs(i, offset, b)
  <2>1. g = Append(f, <<i, offset>>) /\ next = offset + Len(b) + 1
    BY <1>5
  <2>2. <<i, offset>> \in Places
    BY DEF Places
  <2>3. /\ g \in Seq(Places) /\ Len(g) = Len(f) + 1 /\ g[Len(f) + 1] = <<i, offset>>
        /\ \A n \in 1 .. Len(f) : g[n] = f[n]
    BY <2>1, <2>2, <1>2, AppendProperties
  <2>4. DOMAIN g = DOMAIN f \cup {Len(f) + 1}
    BY <2>3, <1>2, LenProperties
  <2>5. Sound(g, b)
    <3>1. \A n \in DOMAIN g : Occurs(g[n][1], g[n][2], b)
      BY <2>3, <2>4, <1>2, <1>5 DEF Sound
    <3>2. ASSUME NEW n \in DOMAIN g, NEW m \in DOMAIN g, n < m
          PROVE  \/ g[n][1] < g[m][1]
                 \/ g[n][1] = g[m][1] /\ g[n][2] + Len(b) < g[m][2]
      <4>1. n \in DOMAIN f
        BY <3>2, <2>4, <1>2
      <4>2. CASE m \in DOMAIN f
        <5>1. g[m] = f[m] /\ g[n] = f[n]
          BY <4>1, <4>2, <2>3, <1>2
        <5> QED
          BY <3>2, <4>1, <4>2, <5>1 DEF Sound
      <4>3. CASE m = Len(f) + 1
        <5>1. g[m] = <<i, offset>> /\ g[n] = f[n]
          BY <4>1, <4>3, <2>3, <1>2
        <5>2. f[n][1] < i \/ (f[n][1] = i /\ f[n][2] + Len(b) < offset)
          BY <4>1 DEF Precede
        <5> QED
          BY <5>1, <5>2
      <4> QED
        BY <2>4, <4>2, <4>3
    <3> QED
      BY <2>3, <3>1, <3>2 DEF Sound
  <2>6. Precede(g, b, i, next)
    <3> SUFFICES ASSUME NEW n \in DOMAIN g
                 PROVE  g[n][1] < i \/ (g[n][1] = i /\ g[n][2] + Len(b) < next)
      BY DEF Precede
    <3>1. CASE n = Len(f) + 1
      BY <3>1, <2>1, <2>3, <1>1
    <3>2. CASE n \in DOMAIN f
      <4>1. g[n] = f[n] /\ f[n][2] \in Nat
        BY <3>2, <2>3, <1>2
      <4>2. f[n][1] < i \/ (f[n][1] = i /\ f[n][2] + Len(b) < offset)
        BY <3>2 DEF Precede
      <4> QED
        BY <4>1, <4>2, <2>1, <1>1, SMTT(60)
    <3> QED
      BY <2>4, <3>1, <3>2
  <2>7. Reports(g, b, i, next)
    <3> SUFFICES ASSUME NEW j \in DOMAIN mem, NEW o \in 0 .. mem[j].len - 1,
                        j < i \/ (j = i /\ o < next), Occurs(j, o, b)
                 PROVE  \E n \in DOMAIN g : g[n][1] = j /\ o - g[n][2] \in 0 .. Len(b)
      BY DEF Reports
    <3>1. o \in Nat
      BY MemIs
    <3>2. CASE j < i \/ (j = i /\ o < offset)
      <4>1. PICK n \in DOMAIN f : f[n][1] = j /\ o - f[n][2] \in 0 .. Len(b)
        BY <3>2 DEF Reports
      <4>2. n \in DOMAIN g /\ g[n] = f[n]
        BY <2>3, <2>4, <1>2
      <4> QED
        BY <4>1, <4>2
    <3>3. CASE j = i /\ ~(o < offset)
      <4>1. o - offset \in 0 .. Len(b)
        <5>1. o < offset + Len(b) + 1 /\ offset <= o
          BY <3>1, <3>3, <2>1, <1>3
        <5> QED
          BY <3>1, <5>1, <1>1
      <4>2. Len(f) + 1 \in DOMAIN g /\ g[Len(f) + 1][1] = j /\ g[Len(f) + 1][2] = offset
        BY <2>3, <2>4, <3>3
      <4> QED
        BY <4>1, <4>2
    <3> QED
      BY <3>2, <3>3
  <2> QED
    BY <2>1, <2>5, <2>6, <2>7, <1>1
<1> QED
  BY <1>4, <1>5

\* What is reported up to the end of a segment is reported up to the next.
LEMMA SegmentOver ==
    ASSUME Values, NEW i \in DOMAIN mem, NEW next \in Nat, next >= mem[i].len,
           NEW b \in Seq(Nat), NEW f, Sound(f, b), Precede(f, b, i, next), Reports(f, b, i, next)
    PROVE  Precede(f, b, i + 1, 0) /\ Reports(f, b, i + 1, 0)
<1>1. i \in Nat /\ DOMAIN mem \subseteq Nat /\ \A j \in DOMAIN mem : mem[j].len \in Nat
  BY MemIs
<1>2. \A n \in DOMAIN f : f[n][1] \in Nat
  <2>1. f \in Seq(Places)
    BY DEF Sound
  <2>2. \A n \in DOMAIN f : f[n] \in Places
    BY <2>1, LenProperties, ElementOfSeq
  <2> QED
    BY <1>1, <2>2 DEF Places
<1>3. Precede(f, b, i + 1, 0)
  BY <1>1, <1>2 DEF Precede
<1>4. ASSUME NEW j \in DOMAIN mem, NEW o \in 0 .. mem[j].len - 1, j < i + 1
      PROVE  j < i \/ (j = i /\ o < next)
  <2>1. j \in Nat /\ mem[j].len \in Nat /\ o \in Nat
    BY <1>1
  <2> QED
    BY <1>1, <1>4, <2>1
<1>5. Reports(f, b, i + 1, 0)
  <2> SUFFICES ASSUME NEW j \in DOMAIN mem, NEW o \in 0 .. mem[j].len - 1,
                      j < i + 1 \/ (j = i + 1 /\ o < 0), Occurs(j, o, b)
               PROVE  \E n \in DOMAIN f : f[n][1] = j /\ o - f[n][2] \in 0 .. Len(b)
    BY DEF Reports
  <2>1. j < i + 1
    BY <1>1
  <2> QED
    BY <2>1, <1>4 DEF Reports
<1> QED
  BY <1>3, <1>5

\* Steps of others leave the current search where it is.
LEMMA OthersKeep ==
    ASSUME RInv, UNCHANGED <<mem, bytes, cur>>, text' \in Texts \cup {Empty},
           cur # None => /\ searches'[cur] = searches[cur]
                         /\ cur \in jobs' => cur \in jobs
                         /\ \A i, offset : worker' = <<cur, i, offset>>
                                              => worker = <<cur, i, offset>>
    PROVE  RInv'
<1>1. Values'
  BY DEF RInv, Values
<1>2. BytesKept'
  BY DEF RInv, BytesKept, Sought
<1>3. ASSUME cur # None PROVE Progress'
  <2>1. PICK f, b, finished :
          f = searches[cur].found /\ b = searches[cur].sought /\ finished = searches[cur].finished
    OBVIOUS
  <2>2. ComeTo(f, b, finished)
    BY <1>3, <2>1 DEF RInv, Progress
  <2>3. /\ f = searches'[cur'].found /\ b = searches'[cur'].sought
        /\ finished = searches'[cur'].finished
    BY <1>3, <2>1
  <2>4. Sound(f, b) => Sound(f, b)'
    BY DEF Sound, Places, Occurs, Readable, Read
  <2>5. ASSUME NEW i, NEW offset
        PROVE  /\ Precede(f, b, i, offset) => Precede(f, b, i, offset)'
               /\ Reports(f, b, i, offset) => Reports(f, b, i, offset)'
    BY DEF Precede, Reports, Occurs, Readable, Read
  <2>6. TheEnd' = TheEnd
    BY DEF TheEnd
  <2>7. ComeTo(f, b, finished)'
    <3>1. Reports(f, b, TheEnd, 0) => Reports(f, b, TheEnd, 0)'
      BY <2>6 DEF Reports, Occurs, Readable, Read
    <3> QED
      BY <1>3, <2>2, <2>4, <2>5, <3>1 DEF ComeTo
  <2> QED
    BY <2>3, <2>7 DEF Progress
<1>4. Progress'
  BY <1>3 DEF Progress
<1> QED
  BY <1>1, <1>2, <1>4 DEF RInv

LEMMA TakeFinds ==
    ASSUME IInv, RInv, Take
    PROVE  RInv'
<1>1. PICK id \in jobs : /\ jobs' = jobs \ {id}
                         /\ worker' = IF mem = Empty THEN Empty ELSE <<id, 1, 0>>
  BY DEF Take
<1>2. UNCHANGED <<mem, bytes, cur, text, searches>>
  BY DEF Take, widget
<1>3. text' \in Texts \cup {Empty} /\ Values
  BY <1>2 DEF RInv, Values
<1>4. CASE cur # id \/ mem = Empty
  <2>1. \A i, offset : worker' # <<cur, i, offset>>
    BY <1>1, <1>4 DEF Empty
  <2> QED
    BY <1>1, <1>2, <1>3, <2>1, OthersKeep
<1>5. CASE cur = id /\ mem # Empty
  <2>1. cur \in jobs /\ cur # None
    <3>1. cur \in Ids /\ None \notin Ids
      BY <1>5, ListLen DEF IInv, Shapes, Ids, None
    <3> QED
      BY <1>5, <3>1
  <2>2. PICK f, b, finished :
          f = searches[cur].found /\ b = searches[cur].sought /\ finished = searches[cur].finished
    OBVIOUS
  <2>3. ComeTo(f, b, finished)
    BY <2>1, <2>2 DEF RInv, Progress
  <2>4. f = Empty
    BY <2>1, <2>3 DEF ComeTo
  <2>5. ~finished
    BY <2>1, <2>2 DEF IInv, JobsBusy, Busy
  <2>6. Sound(f, b)'
    BY <1>2, <2>3 DEF ComeTo, Sound, Places, Occurs, Readable, Read
  <2>7. DOMAIN f = {}
    BY <2>4 DEF Empty
  <2>8. Precede(f, b, 1, 0)'
    BY <2>7 DEF Precede
  <2>9. Reports(f, b, 1, 0)'
    <3>1. DOMAIN mem \subseteq Nat \ {0} /\ \A j \in DOMAIN mem : mem[j].len \in Nat
      BY <1>3, MemIs
    <3>2. \A j \in DOMAIN mem : \A o \in 0 .. mem[j].len - 1 : ~(j < 1 \/ (j = 1 /\ o < 0))
      BY <3>1
    <3> QED
      BY <1>2, <3>2 DEF Reports
  <2>10. 1 \in DOMAIN mem
    <3>1. Len(mem) # 0
      <4>1. mem \in Seq([len : Nat, data : Seq(Nat)])
        BY <1>3, SearchAssumption DEF Values
      <4> QED
        BY <4>1, <1>5, EmptySeq DEF Empty
    <3> QED
      BY <1>3, <3>1, MemIs
  <2>11. \A i, offset : worker' = <<cur, i, offset>> => i = 1 /\ offset = 0
    BY <1>1, <1>5
  <2>12. ComeTo(f, b, finished)'
    BY <1>2, <2>4, <2>5, <2>6, <2>8, <2>9, <2>10, <2>11 DEF ComeTo
  <2>13. Progress'
    BY <1>2, <2>2, <2>12 DEF Progress
  <2>14. Values' /\ BytesKept'
    BY <1>2 DEF RInv, Values, BytesKept
  <2> QED
    BY <2>13, <2>14 DEF RInv
<1> QED
  BY <1>4, <1>5

LEMMA TryFinds ==
    ASSUME IInv, RInv, Try
    PROVE  RInv'
<1>1. PICK id, i, offset : id \in Ids /\ worker = <<id, i, offset>>
  BY DEF Try, IInv, Shapes
<1>2. UNCHANGED <<mem, jobs, bytes, cur, text>>
  BY DEF Try, widget
<1>3. text' \in Texts \cup {Empty} /\ Values
  BY <1>2 DEF RInv, Values
<1>4. PICK s : s = searches[id]
  OBVIOUS
<1>5. PICK next : next = Onward(i, offset, Len(s.sought))
  OBVIOUS
<1>6. PICK after :
        after = IF Found(i, offset, Len(s.sought)) THEN WithResult(s, <<i, offset>>) ELSE s
  OBVIOUS
<1>7. /\ searches' = [searches EXCEPT ![id] =
                         IF next >= mem[i].len /\ i = Len(mem) THEN Marked(after) ELSE after]
      /\ worker' = IF next >= mem[i].len /\ i = Len(mem) THEN Empty
                   ELSE IF next >= mem[i].len THEN <<id, i + 1, 0>> ELSE <<id, i, next>>
  BY <1>1, <1>4, <1>5, <1>6 DEF Try
<1>8. CASE cur # id
  <2>1. cur # None => searches'[cur] = searches[cur]
    BY <1>1, <1>7, <1>8 DEF IInv, Shapes, Ids
  <2>2. \A k, o : worker' # <<cur, k, o>>
    BY <1>7, <1>8 DEF Empty
  <2> QED
    BY <1>2, <1>3, <2>1, <2>2, OthersKeep
<1>9. CASE cur = id
  <2>1. cur # None
    BY <1>1, <1>9, ListLen DEF IInv, Shapes, Ids, None
  <2>2. IsSearch(s) /\ IsList(s.found) /\ Busy(id) /\ id \notin jobs
    BY <1>1, <1>4 DEF IInv, Shapes, JobsBusy, Empty
  <2>3. PICK f, b : f = s.found /\ b = s.sought
    OBVIOUS
  <2>4. ComeTo(f, b, FALSE)
    BY <1>4, <1>9, <2>1, <2>2, <2>3 DEF RInv, Progress, Busy, ComeTo
  <2>5. /\ Sound(f, b) /\ i \in DOMAIN mem /\ offset \in Nat
        /\ Precede(f, b, i, offset) /\ Reports(f, b, i, offset)
    BY <1>1, <1>9, <2>4 DEF ComeTo
  <2>6. b \in Seq(Nat) /\ b # Empty /\ EndsWith(bytes, b)
    BY <1>4, <1>9, <2>1, <2>3 DEF RInv, BytesKept
  <2>7. Found(i, offset, Len(b)) <=> Occurs(i, offset, b)
    BY <2>6 DEF Found, Occurs, EndsWith, Sought
  <2>8. PICK g : g = IF Occurs(i, offset, b) THEN Append(f, <<i, offset>>) ELSE f
    OBVIOUS
  <2>9. next = IF Occurs(i, offset, b) THEN offset + Len(b) + 1 ELSE offset + 1
    BY <1>5, <2>3, <2>7 DEF Onward
  <2>10. Sound(g, b) /\ Precede(g, b, i, next) /\ Reports(g, b, i, next) /\ next \in Nat
    BY <1>3, <2>5, <2>6, <2>8, <2>9, TriedKeeps
  <2>11. IsSearch(after) /\ after.found = g /\ after.sought = b
    <3>1. CASE ~Occurs(i, offset, b)
      BY <3>1, <1>6, <2>2, <2>3, <2>7, <2>8
    <3>2. CASE Occurs(i, offset, b)
      <4>1. after = WithResult(s, <<i, offset>>)
        BY <3>2, <1>6, <2>3, <2>7
      <4> QED
        BY <3>2, <4>1, <2>2, <2>3, <2>8, WithResultIs
    <3> QED
      BY <3>1, <3>2
  <2>12. Marked(after) = [sought |-> after.sought, found |-> after.found,
                          finished |-> TRUE, gone |-> after.gone]
    BY <2>11, FinishedIs DEF Marked
  <2>13. searches'[cur'] = IF next >= mem[i].len /\ i = Len(mem) THEN Marked(after) ELSE after
    BY <1>1, <1>2, <1>7, <1>9 DEF Ids
  <2>14. searches'[cur'].found = g /\ searches'[cur'].sought = b
    BY <2>11, <2>12, <2>13
  <2>15. cur' \notin jobs'
    BY <1>2, <1>9, <2>2
  <2>16. Sound(g, b)'
    BY <1>2, <2>10 DEF Sound, Places, Occurs, Readable, Read
  <2>17. ASSUME NEW k, NEW o, Precede(g, b, k, o), Reports(g, b, k, o)
         PROVE  Precede(g, b, k, o)' /\ Reports(g, b, k, o)'
    <3>1. mem' = mem
      BY <1>2
    <3>2. Precede(g, b, k, o)'
      BY <2>17 DEF Precede
    <3>3. Reports(g, b, k, o)'
      BY <2>17, <3>1 DEF Reports, Occurs, Readable, Read
    <3> QED
      BY <3>2, <3>3
  <2>18. PICK finished : finished = searches'[cur'].finished
    OBVIOUS
  <2>19. Len(mem) \in Nat /\ DOMAIN mem = 1 .. Len(mem) /\ mem[i].len \in Nat
    BY <1>3, <2>5, MemIs
  <2>20. ~after.finished
    <3>1. ~s.finished
      BY <1>4, <2>2 DEF Busy
    <3>2. after.finished = s.finished
      BY <1>6, <2>2, WithResultIs
    <3> QED
      BY <3>1, <3>2
  <2>21. ComeTo(g, b, finished)'
    <3>1. CASE next >= mem[i].len /\ i = Len(mem)
      <4>1. worker' = Empty
        BY <1>7, <3>1
      <4>2. \A k, o : worker' # <<cur', k, o>>
        BY <4>1 DEF Empty
      <4>3. Precede(g, b, i + 1, 0) /\ Reports(g, b, i + 1, 0) /\ i + 1 = TheEnd
        BY <1>3, <2>5, <2>6, <2>10, <3>1, SegmentOver DEF TheEnd
      <4>4. Reports(g, b, TheEnd, 0)'
        BY <1>2, <4>3 DEF Reports, Occurs, Readable, Read, TheEnd
      <4> QED
        BY <2>15, <2>16, <4>2, <4>4 DEF ComeTo
    <3>2. CASE ~(next >= mem[i].len /\ i = Len(mem))
      <4>1. ~finished
        BY <2>13, <2>18, <2>20, <3>2
      <4>2. PICK k, o : worker' = <<id, k, o>> /\ <<k, o>> = IF next >= mem[i].len
                                                         THEN <<i + 1, 0>> ELSE <<i, next>>
        BY <1>7, <3>2
      <4>3. k \in DOMAIN mem /\ o \in Nat /\ Precede(g, b, k, o) /\ Reports(g, b, k, o)
        <5>1. CASE next >= mem[i].len
          <6>1. i # Len(mem) /\ k = i + 1 /\ o = 0
            BY <3>2, <4>2, <5>1
          <6>2. Precede(g, b, i + 1, 0) /\ Reports(g, b, i + 1, 0)
            BY <1>3, <2>5, <2>6, <2>10, <5>1, SegmentOver
          <6>3. i + 1 \in DOMAIN mem
            BY <2>5, <2>19, <6>1
          <6> QED
            BY <6>1, <6>2, <6>3
        <5>2. CASE ~(next >= mem[i].len)
          <6>1. k = i /\ o = next
            BY <4>2, <5>2
          <6> QED
            BY <2>5, <2>10, <6>1
        <5> QED
          BY <5>1, <5>2
      <4>4. Precede(g, b, k, o)' /\ Reports(g, b, k, o)'
        BY <2>17, <4>3
      <4>5. \A n, m : worker' = <<cur', n, m>> => n = k /\ m = o
        BY <4>2
      <4> QED
        BY <1>2, <2>15, <2>16, <4>1, <4>3, <4>4, <4>5 DEF ComeTo
    <3> QED
      BY <3>1, <3>2
  <2>22. Progress'
    BY <2>14, <2>18, <2>21 DEF Progress
  <2>23. BytesKept'
    BY <1>2, <2>6, <2>14 DEF BytesKept
  <2> QED
    BY <1>2, <1>3, <2>22, <2>23 DEF RInv, Values
<1> QED
  BY <1>8, <1>9

\* A stop leaves no current search.
LEMMA StopFinds ==
    ASSUME RInv, StopSearch, text' \in Texts \cup {Empty}
    PROVE  RInv'
<1>1. cur' = None /\ UNCHANGED <<mem, bytes>>
  BY DEF StopSearch
<1> QED
  BY <1>1 DEF RInv, Values, BytesKept, Progress

LEMMA StartFinds ==
    ASSUME IInv, RInv, StartSearch
    PROVE  RInv'
<1>1. text \in Texts \cup {Empty}
  BY DEF RInv, Values
<1>2. PICK b, id : b = Translate(text) /\ id = Len(searches) + 1
  OBVIOUS
<1>3. CASE b = Empty
  <2>1. text' = text
    BY <1>2, <1>3 DEF StartSearch
  <2>2. CASE UNCHANGED <<run, searches, bytes, cur, iter, lastcount, searching, timer, queue>>
    BY <1>1, <2>1, <2>2, OthersKeep DEF run
  <2>3. CASE StopSearch
    BY <1>1, <2>1, <2>3, StopFinds
  <2> QED
    BY <1>2, <1>3, <2>2, <2>3 DEF StartSearch
<1>4. CASE b # Empty
  <2>1. /\ searches' = Append(AfterStop, Submitted(b)) /\ jobs' = jobs \cup {id}
        /\ cur' = id /\ bytes' = Written(bytes, b) /\ UNCHANGED <<mem, worker, text>>
    BY <1>2, <1>4 DEF StartSearch
  <2>2. Len(searches) \in Nat /\ Ids = 1 .. Len(searches) /\ id \notin Ids
    BY <1>2, ListLen DEF IInv, Shapes, Ids
  <2>3. IsList(AfterStop) /\ Len(AfterStop) = Len(searches)
    BY <2>2, AfterStopIs, ListLen
  <2>4. searches'[id] = Submitted(b)
    BY <1>2, <2>1, <2>2, <2>3, ListAppend
  <2>5. PICK s : s = searches'[cur']
    OBVIOUS
  <2>6. s.found = Empty /\ s.sought = b /\ s.finished = FALSE
    <3>1. s = Submitted(b)
      BY <2>1, <2>4, <2>5
    <3> QED
      BY <3>1 DEF Submitted
  <2>7. b \in Seq(Nat)
    BY <1>1, <1>2, TranslateIs
  <2>8. bytes' \in Seq(Nat) /\ EndsWith(bytes', b)
    BY <2>1, <2>7, WrittenIs DEF RInv, Values
  <2>9. BytesKept'
    BY <1>4, <2>5, <2>6, <2>7, <2>8 DEF BytesKept
  <2>10. \A i, offset : worker' # <<cur', i, offset>>
    <3>1. worker' = worker /\ cur' \notin Ids
      BY <2>1, <2>2
    <3>2. worker = Empty \/ \E k, i, offset : k \in Ids /\ worker = <<k, i, offset>>
      BY DEF IInv, Shapes
    <3> QED
      BY <3>1, <3>2 DEF Empty
  <2>11. Sound(Empty, b)'
    <3>1. Empty \in Seq(Places') /\ DOMAIN Empty = {}
      BY EmptySeq DEF Empty
    <3> QED
      BY <3>1 DEF Sound
  <2>12. ComeTo(Empty, b, FALSE)'
    BY <2>10, <2>11 DEF ComeTo
  <2>13. Progress'
    BY <2>5, <2>6, <2>12 DEF Progress
  <2> QED
    BY <1>1, <2>1, <2>8, <2>9, <2>13 DEF RInv, Values
<1> QED
  BY <1>3, <1>4

LEMMA TimeoutFinds ==
    ASSUME IInv, RInv, Timeout
    PROVE  RInv'
<1> DEFINE over == {queue[i] : i \in 1 .. Over}
<1>1. cur # None /\ cur \in Ids
  BY DEF Timeout, IInv, Shapes, CurrentLives
<1>2. searches' = Delete(over) /\ UNCHANGED <<mem, jobs, worker, bytes, cur, text>>
  BY DEF Timeout, run
<1>3. cur \notin over
  <2>1. Over \in 0 .. Len(queue) /\ Len(queue) \in Nat
    BY OverIs, LenProperties DEF IInv, Shapes
  <2>2. \A i \in 1 .. Over : queue[i] # cur
    BY <2>1 DEF IInv, QueueOnce
  <2> QED
    BY <2>2
<1> HIDE DEF over
<1>4. searches'[cur] = searches[cur]
  BY <1>1, <1>2, <1>3, DeleteIs DEF IInv
<1>5. text' \in Texts \cup {Empty}
  BY <1>2 DEF RInv, Values
<1> QED
  BY <1>2, <1>4, <1>5, OthersKeep

-----------------------------------------------------------------------------

\* What the current search has found is right and, up to where it is, all that
\* it should find: for any memory, texts and number of searches that were
\* stopped and still run on the same buffer.
THEOREM SearchFinds == Spec => []RInv
<1>1. Init => RInv
  BY EmptySeq DEF Init, RInv, Values, BytesKept, Progress, Empty
<1>2. IInv /\ RInv /\ [Next]_vars => RInv'
  <2> SUFFICES ASSUME IInv, RInv, [Next]_vars
               PROVE  RInv'
    OBVIOUS
  <2>1. text \in Texts \cup {Empty}
    BY DEF RInv, Values
  <2>2. CASE Invalidate
    <3>1. StopSearch /\ text' \in Texts
      BY <2>2 DEF Invalidate
    <3> QED
      BY <3>1, StopFinds
  <2>3. CASE NextResult \/ PrevResult
    <3>1. CASE StartSearch
      BY <3>1, StartFinds
    <3>2. CASE UNCHANGED <<run, searches, text, bytes, cur, lastcount, timer, queue>>
      BY <2>1, <3>2, OthersKeep DEF run
    <3> QED
      BY <2>3, <3>1, <3>2 DEF NextResult, PrevResult
  <2>4. CASE UNCHANGED vars
    BY <2>1, <2>4, OthersKeep DEF vars, run, widget
  <2> QED
    BY <2>2, <2>3, <2>4, TakeFinds, TryFinds, StartFinds, TimeoutFinds
       DEF Next, ReturnPressed
<1> QED
  BY <1>1, <1>2, SearchInvariant, PTL DEF Spec

\* The results that the user sees are occurrences of what was typed, each once
\* and in order, whatever older searches still run on the buffer they share
\* (search.cpp:104); once the search has finished every occurrence is reported
\* but those that begin in or directly behind another.
THEOREM SearchResultsRight == Spec => []ResultsRight
<1>1. RInv => ResultsRight
  <2> SUFFICES ASSUME RInv, cur # None
               PROVE  LET found == Results  b == searches[cur].sought IN
        /\ \A n \in DOMAIN found : Occurs(found[n][1], found[n][2], b)
        /\ \A n, m \in DOMAIN found : n < m =>
               \/ found[n][1] < found[m][1]
               \/ found[n][1] = found[m][1] /\ found[n][2] + Len(b) < found[m][2]
        /\ searches[cur].finished =>
               \A i \in DOMAIN mem : \A offset \in 0 .. mem[i].len - 1 :
                   Occurs(i, offset, b) =>
                       \E n \in DOMAIN found :
                           found[n][1] = i /\ offset - found[n][2] \in 0 .. Len(b)
    BY DEF ResultsRight
  <2>1. ComeTo(Results, searches[cur].sought, searches[cur].finished)
    BY DEF RInv, Progress, Results
  <2>2. Sound(Results, searches[cur].sought)
    BY <2>1 DEF ComeTo
  <2>3. searches[cur].finished => Reports(Results, searches[cur].sought, TheEnd, 0)
    BY <2>1 DEF ComeTo
  <2>4. \A i \in DOMAIN mem : i < TheEnd
    BY MemIs DEF RInv, TheEnd
  <2> QED
    BY <2>2, <2>3, <2>4 DEF Sound, Reports
<1> QED
  BY <1>1, SearchFinds, PTL
=============================================================================
