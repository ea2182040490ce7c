------------------------------- MODULE Search -------------------------------
(***************************************************************************)
(* The byte search: the job on the worker thread (search.cpp) and the      *)
(* widget that submits it, stops it and steps through what it found        *)
(* (qt/searchwidget.cpp).  The two share the buffer of the bytes sought,   *)
(* which the next search overwrites, and the results, which the widget     *)
(* deletes.  A text is the sequence of its character codes; memory is the  *)
(* segments in the order of their addresses, an address one of them and an *)
(* offset.                                                                 *)
(***************************************************************************)
EXTENDS Integers, Sequences, FiniteSets, SequencesExt

CONSTANTS
    Memories,       \* sequences of segments: [len |-> n, data |-> n bytes or <<>>]
    Texts,          \* what the user types
    MaxSearches     \* bound: how many searches are submitted

ASSUME SearchAssumption ==
    /\ \A m \in Memories :
         /\ m \in Seq([len : Nat, data : Seq(Nat)])
         /\ \A i \in DOMAIN m : Len(m[i].data) \in {0, m[i].len}
    /\ \A t \in Texts : t \in Seq(1 .. 127)
    /\ MaxSearches \in Nat

VARIABLES
    mem,
    searches,   \* the SearchResults by number, and what each was submitted for
    jobs,       \* the searches in the run queue
    worker,     \* the search that runs and where it is, or <<>>
    text,       \* m_searchBox
    bytes,      \* m_bytes, of which the end is used
    cur,        \* m_currentSearch, or None
    iter,       \* m_iterator, as a position in the results, or None
    lastcount,  \* m_lastcount
    searching,  \* m_searching
    timer,      \* m_timer is active
    buttons,    \* m_prevButton and m_nextButton are enabled
    queue       \* m_searchQueue

run    == <<mem, jobs, worker>>
widget == <<text, bytes, cur, iter, lastcount, searching, timer, buttons, queue>>
vars   == <<run, searches, widget>>

None == 0

-----------------------------------------------------------------------------
(* translate() *)

Empty == <<>>
Digits    == 48 .. 57
HexDigits == Digits \cup (65 .. 70) \cup (97 .. 102)
Prefix    == <<48, 120>>

AllIn(s, chars) == \A i \in DOMAIN s : s[i] \in chars

\* string_isxnum(), of the text or of what follows 0x.
HexPart(t) == IF IsPrefix(Prefix, t) THEN SubSeq(t, 3, Len(t)) ELSE t

DigitValue(c) == IF c \in Digits THEN c - 48 ELSE (c % 32) + 9

\* toLongLong() of digits.
Value(t, radix) ==
    LET upTo[n \in 0 .. Len(t)] == IF n = 0 THEN 0 ELSE (radix * upTo[n - 1]) + DigitValue(t[n])
    IN  upTo[Len(t)]

\* The bytes of a number, without leading zeros: none for zero.
BytesOf[n \in Nat] == IF n = 0 THEN Empty ELSE Append(BytesOf[n \div 256], n % 256)

\* A number is its bytes, any other text its characters.  A number of more than
\* 63 bits, which is taken as a text, is not among Texts.
Translate(t) ==
    IF t = Empty THEN Empty
    ELSE IF AllIn(t, Digits) THEN BytesOf[Value(t, 10)]
    ELSE IF AllIn(HexPart(t), HexDigits) /\ HexPart(t) # Empty THEN BytesOf[Value(HexPart(t), 16)]
    ELSE t

\* The end of m_bytes once b is written there.
Written(old, b) == IF Len(b) >= Len(old) THEN b ELSE SubSeq(old, 1, Len(old) - Len(b)) \o b

-----------------------------------------------------------------------------
(* Search::search() on the worker thread *)

Readable(i, offset) == offset < mem[i].len /\ mem[i].data # Empty

Read(i, offset) == mem[i].data[offset + 1]

\* b[pos] of a job of length len.
Sought(len, pos) == bytes[(Len(bytes) - len) + pos + 1]

Found(i, offset, len) ==
    \A pos \in 0 .. len - 1 :
        Readable(i, offset + pos) /\ Read(i, offset + pos) = Sought(len, pos)

\* Mutant: the search goes on behind the bytes it has compared.
BehindCompared(i, offset, len) ==
    (CHOOSE k \in offset .. offset + len :
        /\ \A j \in offset .. k - 1 : Readable(i, j) /\ Read(i, j) = Sought(len, j - offset)
        /\ k = offset + len \/ ~(Readable(i, k) /\ Read(i, k) = Sought(len, k - offset))) + 1

\* addr = saddr + 1 behind a result, and ++addr in any case.
Onward(i, offset, len) == IF Found(i, offset, len) THEN offset + len + 1 ELSE offset + 1

\* The heap gives jobs of one priority in no order.
Take ==
    /\ worker = Empty
    /\ \E id \in jobs :
         /\ jobs' = jobs \ {id}
         /\ worker' = IF mem = Empty THEN Empty ELSE <<id, 1, 0>>
    /\ UNCHANGED <<mem, searches, widget>>

WithResult(s, addr) == [s EXCEPT !.found = Append(@, addr)]

\* Mutant: a search that found nothing is not marked.
MarkedIfAny(s) == [s EXCEPT !.finished = s.found # Empty]
Marked(s) == [s EXCEPT !.finished = TRUE]

\* One address is tried, which nobody can see a part of.
Try ==
    /\ worker # Empty
    /\ LET id == worker[1]  i == worker[2]  offset == worker[3]  len == Len(searches[id].sought)
           next == Onward(i, offset, len)
           after == IF Found(i, offset, len)
                    THEN WithResult(searches[id], <<i, offset>>)
                    ELSE searches[id]
           last == next >= mem[i].len /\ i = Len(mem)
       IN  /\ searches' = [searches EXCEPT ![id] = IF last THEN Marked(after) ELSE after]
           /\ worker' = IF last THEN Empty
                        ELSE IF next >= mem[i].len THEN <<id, i + 1, 0>> ELSE <<id, i, next>>
    /\ UNCHANGED <<mem, jobs, widget>>

-----------------------------------------------------------------------------
(* The widget, on the GUI thread *)

Delete(ids) == [id \in DOMAIN searches |->
                   IF id \in ids THEN [searches[id] EXCEPT !.gone = TRUE] ELSE searches[id]]

\* Mutant: the results are deleted while their job goes on.
QueuedNever == FALSE

\* stopSearch() keeps the results of a job that has not finished.
Kept == cur # None /\ ~searches[cur].finished

AfterStop == IF cur = None \/ Kept THEN searches ELSE Delete({cur})

StopSearch ==
    /\ searches' = AfterStop
    /\ queue' = IF Kept THEN Append(queue, cur) ELSE queue
    /\ cur' = None /\ iter' = None /\ timer' = FALSE
    /\ UNCHANGED <<mem, jobs, worker, bytes, lastcount, searching>>

\* submitSearchJob(): what the job gets is where the bytes are, and new results.
Submitted(b) == [sought |-> b, found |-> Empty, finished |-> FALSE, gone |-> FALSE]

\* A text without bytes only stops the search that there is.
StartSearch ==
    LET b == Translate(text)  id == Len(searches) + 1 IN
    IF b = Empty
    THEN /\ IF cur = None
            THEN UNCHANGED <<run, searches, bytes, cur, iter, lastcount, searching, timer, queue>>
            ELSE StopSearch
         /\ UNCHANGED <<text, buttons>>
    ELSE /\ id <= MaxSearches
         /\ searches' = Append(AfterStop, Submitted(b))
         /\ queue' = IF Kept THEN Append(queue, cur) ELSE queue
         /\ bytes' = Written(bytes, b)
         /\ jobs' = jobs \cup {id}
         /\ cur' = id /\ iter' = None /\ lastcount' = 0
         /\ buttons' = FALSE /\ searching' = TRUE /\ timer' = TRUE
         /\ UNCHANGED <<mem, worker, text>>

\* nextResult() or prevResult() of a search: the results that there are by now
\* are gone through in a ring, from none to the first or to the last.
Results == searches[cur].found
Nth(n)   == ((n - 1) % Len(Results)) + 1
NextOf   == IF iter = None THEN 1 ELSE Nth(iter + 1)
PrevOf   == IF iter = None THEN Len(Results) ELSE Nth(iter - 1)

Go(to) ==
    /\ searching' = FALSE
    /\ IF Results = Empty THEN iter' = iter /\ buttons' = FALSE
       ELSE iter' = to /\ UNCHANGED buttons

Init ==
    /\ mem \in Memories
    /\ searches = Empty /\ jobs = {} /\ worker = Empty
    /\ text = Empty /\ bytes = Empty
    /\ cur = None /\ iter = None /\ lastcount = 0
    /\ searching = FALSE /\ timer = FALSE /\ buttons = FALSE /\ queue = Empty

\* The text is edited, or cleared for another file: invalidate().
Invalidate ==
    /\ \E t \in Texts \ {text} : text' = t /\ buttons' = (t # Empty)
    /\ StopSearch

ReturnPressed == StartSearch

NextResult ==
    IF cur = None THEN StartSearch
    ELSE Go(NextOf) /\ UNCHANGED <<run, searches, text, bytes, cur, lastcount, timer, queue>>

PrevResult ==
    IF cur = None THEN StartSearch
    ELSE Go(PrevOf) /\ UNCHANGED <<run, searches, text, bytes, cur, lastcount, timer, queue>>

\* The results at the front that nobody waits for.
Over == LET Done(n) == \A i \in 1 .. n : searches[queue[i]].finished
        IN  CHOOSE n \in 0 .. Len(queue) : Done(n) /\ (n = Len(queue) \/ ~Done(n + 1))

\* timeout(): stopSearch() stops the timer, so there is a current search.
Timeout ==
    LET finished == searches[cur].finished
        updated  == finished \/ Len(Results) # lastcount
    IN  /\ timer
        /\ timer' = ~finished
        /\ lastcount' = IF finished THEN lastcount ELSE Len(Results)
        /\ IF ~(updated /\ searching) THEN UNCHANGED <<searching, iter, buttons>>
           ELSE /\ searching' = FALSE
                /\ iter' = IF Results = Empty THEN iter ELSE NextOf
                /\ buttons' = (Results # Empty)
        /\ queue' = SubSeq(queue, Over + 1, Len(queue))
        /\ searches' = Delete({queue[i] : i \in 1 .. Over})
        /\ UNCHANGED <<run, text, bytes, cur>>

Next ==
    \/ Take \/ Try
    \/ Invalidate \/ ReturnPressed \/ NextResult \/ PrevResult \/ Timeout

\* The worker thread runs, and so does the timer of the event loop.
Fairness == WF_vars(Take \/ Try) /\ WF_vars(Timeout)

Spec == Init /\ [][Next]_vars /\ Fairness

-----------------------------------------------------------------------------
(* Properties *)

Occurs(i, offset, b) ==
    \A pos \in 0 .. Len(b) - 1 :
        Readable(i, offset + pos) /\ Read(i, offset + pos) = b[pos + 1]

\* The results of the search that the user sees are occurrences of what was
\* typed, each once and in order, whatever older searches still run on the
\* buffer they share with it (search.cpp:104); and once it has finished,
\* every occurrence is reported but one that begins in or directly behind
\* another that is.
ResultsRight ==
    cur # None =>
        LET found == Results  b == searches[cur].sought IN
        /\ \A n \in DOMAIN found : Occurs(found[n][1], found[n][2], b)
        /\ \A n, m \in DOMAIN found : n < m =>
               \/ found[n][1] < found[m][1]
               \/ found[n][1] = found[m][1] /\ found[n][2] + Len(b) < found[m][2]
        /\ searches[cur].finished =>
               \A i \in DOMAIN mem : \A offset \in 0 .. mem[i].len - 1 :
                   Occurs(i, offset, b) =>
                       \E n \in DOMAIN found :
                           found[n][1] = i /\ offset - found[n][2] \in 0 .. Len(b)

\* Nobody uses results that were deleted: not the job that still fills them in
\* (searchwidget.cpp:148), nor the widget, which keeps no pointer to them; and
\* the timer never ticks without a search.
ResultsLive ==
    /\ \A id \in jobs : ~searches[id].gone
    /\ worker # Empty => ~searches[worker[1]].gone
    /\ cur # None => ~searches[cur].gone /\ iter \in 0 .. Len(Results)
    /\ \A i \in DOMAIN queue : ~searches[queue[i]].gone /\ queue[i] # cur
    /\ timer => cur # None

\* A search that the user neither stops nor steps through comes to its first
\* result or to an end, and the widget shows it (searchwidget.cpp:238), however
\* many stopped searches the worker has to finish before.  Without any segment
\* it does not (search.cpp:95).
FirstResultShown ==
    \A id \in 1 .. MaxSearches :
        (mem # Empty /\ cur = id /\ searching) ~> (cur # id \/ ~searching)

\* What search.h says of jobFinished(): it is not so where there is nothing to
\* search, as the job returns before it sets the flag (search.cpp:96).
JobsFinish == (jobs = {} /\ worker = Empty) => \A id \in DOMAIN searches : searches[id].finished

\* All occurrences are results: it is not so, see ResultsRight.
AllReported ==
    cur # None /\ searches[cur].finished =>
        \A i \in DOMAIN mem : \A offset \in 0 .. mem[i].len - 1 :
            Occurs(i, offset, searches[cur].sought) => <<i, offset>> \in Range(Results)
=============================================================================
