----------------------------- MODULE GuiUpdate -----------------------------
(***************************************************************************)
(* The refresh of the main view (src/client/qt/guiproxy.cpp,               *)
(* runtimemodel.cpp, codeview.cpp).                                        *)
(*                                                                         *)
(* The view shows one line per memloc and one per byte that is in none.    *)
(* GuiProxy keeps an index of blocks of lines, built by a walk over the    *)
(* project's segments, and finds the address of a line from it and from    *)
(* the memlocs as they are now.  Two flags say that it is out of date:     *)
(* m_dirty, set by the hook that each change of a memloc calls, and        *)
(* m_updated, set by postUpdate() at the end of a job.  A timer polls the  *)
(* second; the refresh it starts tests the first.  The worker sets both    *)
(* and changes the memlocs while the GUI thread builds the index, without  *)
(* a lock.                                                                 *)
(***************************************************************************)
EXTENDS Integers, Sequences, Functions, FiniteSetsExt

CONSTANTS
  SegLen,      \* the lengths of the segments, in the order of their bases
  Lengths,     \* the lengths of memlocs
  BlockSize,   \* GPROX_BLOCK_SIZE
  MaxChanges,  \* bound: how many memlocs are created or removed
  NoAddr, End, Dangling, NoBlock, NoCache

ASSUME GuiAssumption ==
  /\ SegLen \in Seq(Nat \ {0})
  /\ Lengths \subseteq Nat \ {0}
  /\ BlockSize \in Nat
  /\ MaxChanges \in Nat
  /\ {NoAddr, End, Dangling} \cap (Nat \X Nat) = {}
  /\ End # Dangling
  /\ NoBlock \notin [first : Nat, start : Nat \X Nat, len : Nat, lc : Nat]

VARIABLES
  memlocs,   \* the memlocs of the project: their lengths by start address
  worker,    \* where the worker is: "idle", "job", "inserted", "announced"
  removing,  \* the memloc it has announced the removal of
  changes,   \* bound
  dirty,     \* GuiProxy::m_dirty
  updated,   \* QTRuntimeModel::m_updated
  index,     \* m_blocks and m_lclookup
  cache,     \* m_last_look_line and m_last_look_addr
  row,       \* the row that is selected, or -1
  gui,       \* where the GUI thread is
  kept,      \* runtimeUpdated(): the address of the selected row
  memind, li, cins,  \* update(): the walk
  unseen,    \* history: the memlocs changed after the last walk began
  unmarked,  \* history: by a change that no mark in m_dirty is left of
  unposted   \* history: by a change that no post in m_updated is left of

project == <<memlocs, worker, removing, changes>>
walk    == <<memind, li, cins>>
history == <<unseen, unmarked, unposted>>
vars == <<project, dirty, updated, index, cache, row, gui, kept, walk, history>>

-----------------------------------------------------------------------------
(* Addresses: a segment and an offset.  No memloc starts behind its segment *)
(* or reaches into the next, so that their order by value is this one.      *)

Segs  == DOMAIN SegLen
Addrs == UNION {{s} \X (0 .. SegLen[s]) : s \in Segs}
Valid(a) == a[2] < SegLen[a[1]]
Places == {a \in Addrs : Valid(a)}
Plus(a, n) == <<a[1], a[2] + n>>

Before(a, b) == a[1] < b[1] \/ (a[1] = b[1] /\ a[2] < b[2])
FirstOf(S) == IF S = {} THEN End
              ELSE CHOOSE a \in S : \A b \in S : a = b \/ Before(a, b)

Starts == DOMAIN memlocs

(* findMemloc(addr, false): the start of the memloc that covers an address. *)
Covering(m, a) ==
  {b \in DOMAIN m : b[1] = a[1] /\ b[2] <= a[2] /\ a[2] < b[2] + m[b]}

-----------------------------------------------------------------------------
(* Lines and addresses. *)

LineCount == IF index = <<>> THEN 0
             ELSE LET b == index[Len(index)] IN b.first + b.lc

(* One turn of the loops of getLineAddr() and getLineAtAddr().  They look   *)
(* for a memloc that starts at the address, and pass the inside of one that *)
(* covers it byte by byte.                                                  *)
NextLine(a) == Plus(a, IF a \in Starts THEN memlocs[a] ELSE 1)

Forward(a, n) ==
  LET go[i \in 0 .. n] == IF i = 0 THEN a ELSE LET p == go[i - 1] IN NextLine(p)
  IN go[n]

(* Mutant: a cached line behind the wanted one is used as well. *)
CachedAnywhere(b, line) ==
  /\ cache # NoCache
  /\ b.first <= cache.line /\ cache.line < b.first + b.lc

CachedBefore(b, line) ==
  /\ cache # NoCache
  /\ b.first <= cache.line /\ cache.line <= line /\ cache.line < b.first + b.lc

(* getLineAddr(), of a line below m_lc. *)
LineAddr(line) ==
  LET b == CHOOSE x \in Range(index) : x.first <= line /\ line < x.first + x.lc
  IN IF CachedBefore(b, line)
     THEN Forward(cache.addr, Max({0, line - cache.line}))
     ELSE Forward(b.start, line - b.first)

Look(line) == [line |-> line, addr |-> LineAddr(line)]

(* getLineAtAddr(); -1 where it throws, which its callers ignore. *)
LineAtAddr(a) ==
  LET bs == {b \in Range(index) : /\ b.start[1] = a[1]
                                  /\ b.start[2] <= a[2]
                                  /\ a[2] < b.start[2] + b.len}
  IN IF bs = {} THEN -1
     ELSE LET b == CHOOSE x \in bs : TRUE
          IN b.first + Min({n \in 0 .. b.len : Forward(b.start, n)[2] >= a[2]})

-----------------------------------------------------------------------------
(* Changes of the memlocs. *)

Erased(a, n) == {b \in Starts : b[1] = a[1] /\ a[2] <= b[2] /\ b[2] < a[2] + n}
Without(S) == Restrict(memlocs, Starts \ S)

(* insertMemloc() throws if the address is inside another memloc. *)
Rejected(a) == \E b \in Covering(memlocs, a) : b # a

Inserted(a, n) ==
  LET m == Without(Erased(a, n))
  IN [b \in DOMAIN m \cup {a} |-> IF b = a THEN n ELSE m[b]]

(* The walk's iterator, when the entries S leave the map. *)
IteratorWithout(S) == IF gui = "scan" /\ li \in S THEN Dangling ELSE li

Change == changes < MaxChanges /\ changes' = changes + 1

(* GuiProxy::updateMemloc(), the hook.  Mutant: it leaves the flag alone. *)
MarkNothing == UNCHANGED <<dirty, unmarked>>
Mark == dirty' = TRUE /\ unmarked' = FALSE

(* QTRuntimeModel::postUpdate(). *)
Post == updated' = TRUE /\ unposted' = FALSE

guiUnchanged == UNCHANGED <<index, cache, row, gui, kept, memind, cins>>

-----------------------------------------------------------------------------
(* The worker: a job creates and removes memlocs and then posts. *)

(* The program has not ended. *)
Running == gui \notin {"aborted", "exited"}
At(w) == Running /\ worker = w

WorkerBegin ==
  /\ At("idle")
  /\ changes < MaxChanges
  /\ worker' = "job"
  /\ guiUnchanged
  /\ UNCHANGED <<memlocs, removing, changes, dirty, updated, li, history>>

(* A job that throws ends without a post, and what it did since its last    *)
(* notification without a mark.                                             *)
JobFails ==
  /\ worker' = "idle"
  /\ unmarked' = (unmarked \/ (unseen' /\ ~dirty))
  /\ unposted' = (unposted \/ (unseen' /\ ~updated))
  /\ UNCHANGED <<dirty, updated>>

(* createMemlocDataAt(), up to insertMemloc(), which may throw after it has *)
(* erased what the new memloc covers.                                       *)
WorkerInsert(a, n) ==
  /\ At("job")
  /\ Change
  /\ li' = IteratorWithout(Erased(a, n))
  /\ \/ /\ ~Rejected(a)
        /\ memlocs' = Inserted(a, n)
        /\ unseen' = TRUE
        /\ worker' = "inserted"
        /\ UNCHANGED <<dirty, updated, unmarked, unposted>>
     \/ /\ Rejected(a)
        /\ memlocs' = Without(Erased(a, n))
        /\ unseen' = (unseen \/ Erased(a, n) # {})
        /\ JobFails
  /\ guiUnchanged
  /\ UNCHANGED removing

(* Its end: the notification; or an exception from create_xref() before it. *)
WorkerNotify ==
  /\ At("inserted")
  /\ \/ worker' = "job" /\ Mark /\ UNCHANGED <<updated, unposted, unseen>>
     \/ UNCHANGED unseen /\ JobFails
  /\ guiUnchanged
  /\ UNCHANGED <<memlocs, removing, changes, li>>

(* remove_memloc(): first the notification, then the removal.               *)
WorkerAnnounce(a) ==
  /\ At("job")
  /\ Change
  /\ a \in Starts
  /\ removing' = a
  /\ worker' = "announced"
  /\ Mark
  /\ guiUnchanged
  /\ UNCHANGED <<memlocs, updated, li, unseen, unposted>>

(* The memloc may have left the table since. *)
WorkerRemove ==
  /\ At("announced")
  /\ memlocs' = Without({removing})
  /\ li' = IteratorWithout(Starts \cap {removing})
  /\ unseen' = (unseen \/ removing \in Starts)
  /\ unmarked' = (unmarked \/ (unseen' /\ ~dirty))
  /\ removing' = NoAddr
  /\ worker' = "job"
  /\ guiUnchanged
  /\ UNCHANGED <<changes, dirty, updated, unposted>>

WorkerEnd ==
  /\ At("job")
  /\ worker' = "idle"
  /\ Post
  /\ guiUnchanged
  /\ UNCHANGED <<memlocs, removing, changes, dirty, li, unseen, unmarked>>

WorkerStep ==
  \/ WorkerBegin
  \/ \E a \in Places, n \in Lengths :
       a[2] + n <= SegLen[a[1]] /\ WorkerInsert(a, n)
  \/ WorkerNotify
  \/ \E a \in Starts : WorkerAnnounce(a)
  \/ WorkerRemove
  \/ WorkerEnd

-----------------------------------------------------------------------------
(* The GUI thread between refreshes. *)

(* The address of the selected row is asked for: the assertion of           *)
(* getLineAddr() ends the program if there is no such line.                 *)
RowExists == row < LineCount
ReadRow ==
  cache' = IF row = -1 THEN cache ELSE Look(row)
Abort == gui' = "aborted" /\ UNCHANGED cache

(* QTCodeModel::data() of a visible line. *)
Paint(r) ==
  /\ gui = "idle"
  /\ cache' = Look(r)
  /\ UNCHANGED <<project, dirty, updated, index, row, gui, kept, walk, history>>

(* The user selects a visible line. *)
Select(r) ==
  /\ gui = "idle"
  /\ row' = r
  /\ UNCHANGED <<project, dirty, updated, index, cache, gui, kept, walk, history>>

(* postJump(): runtimeUpdated() selects the line of an address. *)
Jump(a) ==
  /\ gui = "idle"
  /\ IF RowExists
     THEN /\ ReadRow
          /\ row' = IF LineAtAddr(a) = -1 THEN row ELSE LineAtAddr(a)
          /\ UNCHANGED gui
     ELSE Abort /\ UNCHANGED row
  /\ UNCHANGED <<project, dirty, updated, index, kept, walk, history>>

(* QTDataTypeView::createDataType() at the selected row.  An exception of   *)
(* insertMemloc() is caught by main(), which ends.                          *)
Define(n) ==
  /\ gui = "idle"
  /\ row # -1
  /\ IF ~RowExists
     THEN Abort /\ UNCHANGED <<project, dirty, updated, history>>
     ELSE LET a == LineAddr(row)
          IN /\ ReadRow
             /\ IF ~Valid(a)
                THEN Post /\ UNCHANGED <<project, dirty, gui, unseen, unmarked>>
                ELSE /\ Plus(a, n)[2] <= SegLen[a[1]]
                     /\ Change
                     /\ UNCHANGED <<worker, removing>>
                     /\ IF Rejected(a)
                        THEN /\ gui' = "exited"
                             /\ memlocs' = Without(Erased(a, n))
                             /\ UNCHANGED <<dirty, updated, history>>
                        ELSE /\ memlocs' = Inserted(a, n)
                             /\ unseen' = TRUE
                             /\ Mark
                             /\ Post
                             /\ UNCHANGED gui
  /\ UNCHANGED <<index, row, kept, walk>>

UserStep ==
  \/ \E r \in 0 .. LineCount - 1 : Paint(r) \/ Select(r)
  \/ \E a \in Places : Jump(a)
  \/ \E n \in Lengths : Define(n)

-----------------------------------------------------------------------------
(* The refresh. *)

(* Mutant: nothing is refreshed while no row is selected. *)
UpdateIfSelected == updated /\ row # -1
UpdateWanted == updated

(* updateTimeout() up to the view's runtimeUpdated(), which remembers the   *)
(* address of the selected row.                                             *)
UpdateTimeout ==
  /\ gui = "idle"
  /\ UpdateWanted
  /\ IF RowExists
     THEN /\ gui' = "update"
          /\ ReadRow
          /\ kept' = IF row = -1 THEN NoAddr ELSE LineAddr(row)
     ELSE Abort /\ UNCHANGED kept
  /\ UNCHANGED <<project, dirty, updated, index, row, walk, history>>

(* Mutant: the last line looked up is not forgotten. *)
CacheStays == UNCHANGED cache
CacheForgotten == cache' = NoCache

(* Mutant: the old blocks stay. *)
IndexKept == UNCHANGED index
IndexCleared == index' = <<>>

(* GuiProxy::update(): nothing to do, or begin the walk. *)
UpdateBegin ==
  /\ gui = "update"
  /\ IF dirty
     THEN /\ gui' = IF SegLen = <<>> THEN "clean" ELSE "scan"
          /\ IndexCleared
          /\ CacheForgotten
          /\ memind' = <<1, 0>>
          /\ li' = FirstOf(Starts)
          /\ cins' = NoBlock
          /\ unseen' = FALSE
          /\ unmarked' = FALSE
          /\ UNCHANGED unposted
     ELSE gui' = "flush" /\ UNCHANGED <<index, cache, walk, history>>
  /\ UNCHANGED <<project, dirty, updated, row, kept>>

(* The inner loop: to the next entry in the segment of memind that is not   *)
(* before it.  Entries of other segments are skipped, those of the segments *)
(* to come as well.                                                         *)
Advanced ==
  FirstOf({e \in Starts : /\ li # End
                          /\ e = li \/ Before(li, e)
                          /\ e[1] = memind[1] /\ e[2] >= memind[2]})

(* An iterator to an erased entry may be anywhere, and the length read      *)
(* through it be any; that the program may also stop here is left out.      *)
Positions == IF li = Dangling THEN Starts \cup {End, Dangling} ELSE {Advanced}

Steps(p) == IF p = Dangling THEN Lengths \cup {1}
            ELSE IF p = memind THEN {memlocs[p]} ELSE {1}

Grown(n) ==
  IF cins = NoBlock
  THEN [first |-> LineCount, start |-> memind, len |-> n, lc |-> 1]
  ELSE [cins EXCEPT !.len = @ + n, !.lc = @ + 1]

(* One line: memind moves on by n; a block that is long enough, or whose    *)
(* segment ends, goes into the index.                                       *)
UpdateLine ==
  /\ gui = "scan"
  /\ \E p \in Positions : \E n \in Steps(p) :
       LET b == Grown(n)
           ends == ~Valid(Plus(memind, n))
           closes == ends \/ b.len > BlockSize
       IN /\ li' = p
          /\ index' = IF closes THEN Append(index, b) ELSE index
          /\ cins' = IF closes THEN NoBlock ELSE b
          /\ memind' = IF ends THEN <<memind[1] + 1, 0>> ELSE Plus(memind, n)
          /\ gui' = IF ends /\ memind[1] = Len(SegLen) THEN "clean" ELSE "scan"
  /\ UNCHANGED <<project, dirty, updated, cache, row, kept, history>>

(* The last line of update(); its locals go out of scope. *)
UpdateEnd ==
  /\ gui = "clean"
  /\ dirty' = FALSE
  /\ unmarked' = unseen
  /\ gui' = "flush"
  /\ memind' = <<1, 0>> /\ li' = End /\ cins' = NoBlock
  /\ UNCHANGED <<project, updated, index, cache, row, kept, unseen, unposted>>

(* The rest of runtimeUpdated(): the view is reset, which clears the        *)
(* selection, and selects the line of the remembered address.               *)
Flush ==
  /\ gui = "flush"
  /\ row' = IF kept = NoAddr THEN -1 ELSE LineAtAddr(kept)
  /\ kept' = NoAddr
  /\ gui' = "listened"
  /\ UNCHANGED <<project, dirty, updated, index, cache, walk, history>>

(* The end of updateTimeout(). *)
ClearUpdated ==
  /\ gui = "listened"
  /\ updated' = FALSE
  /\ unposted' = unseen
  /\ gui' = "idle"
  /\ UNCHANGED <<project, dirty, index, cache, row, kept, walk, unseen, unmarked>>

RefreshStep ==
  UpdateTimeout \/ UpdateBegin \/ UpdateLine \/ UpdateEnd \/ Flush \/ ClearUpdated

-----------------------------------------------------------------------------
(* GuiProxy's and QTRuntimeModel's constructors, and Workspace's, which     *)
(* posts the first update.                                                  *)
Init ==
  /\ memlocs = <<>>
  /\ worker = "idle"
  /\ removing = NoAddr
  /\ changes = 0
  /\ dirty = TRUE
  /\ updated = TRUE
  /\ index = <<>>
  /\ cache = NoCache
  /\ row = -1
  /\ gui = "idle"
  /\ kept = NoAddr
  /\ memind = <<1, 0>> /\ li = End /\ cins = NoBlock
  /\ unseen = TRUE
  /\ unmarked = FALSE
  /\ unposted = FALSE

Next == WorkerStep \/ UserStep \/ RefreshStep

Spec == Init /\ [][Next]_vars

(* The timer fires and its handler runs; neither the user nor the worker is *)
(* obliged to do anything.                                                  *)
FairSpec == Spec /\ WF_vars(RefreshStep)

-----------------------------------------------------------------------------
(* Properties. *)

(* Types.  When no refresh is running, the line that is remembered as the   *)
(* last one looked up is a line of the index: the rebuild forgets it.       *)
TypeOK ==
  /\ Starts \subseteq Addrs
  /\ \A a \in Starts : memlocs[a] \in Lengths
  /\ worker \in {"idle", "job", "inserted", "announced"}
  /\ removing \in Addrs \cup {NoAddr}
  /\ changes \in 0 .. MaxChanges
  /\ {dirty, updated, unseen, unmarked, unposted} \subseteq BOOLEAN
  /\ row \in Nat \cup {-1}
  /\ gui \in {"idle", "update", "scan", "clean", "flush", "listened",
             "aborted", "exited"}
  /\ li \in Addrs \cup {End, Dangling}
  /\ cache # NoCache /\ gui = "idle" => cache.line < LineCount

(* Whatever the worker does during the rebuild, the index it leaves covers  *)
(* every address of every segment once, without gaps in the lines, so that  *)
(* getLineAddr() and getLineAtAddr() find a block for each.                 *)
BlocksCover ==
  gui = "idle" /\ index # <<>> =>
    /\ \A a \in Places :
         Cardinality({i \in DOMAIN index :
                        /\ index[i].start[1] = a[1]
                        /\ index[i].start[2] <= a[2]
                        /\ a[2] < index[i].start[2] + index[i].len}) = 1
    /\ \A i \in DOMAIN index :
         index[i].first = IF i = 1 THEN 0 ELSE index[i - 1].first + index[i - 1].lc

(* The index was built from the memlocs as they are. *)
Settled == gui = "idle" /\ ~unseen

(* What begins a line in a segment: all but the inside of a memloc. *)
LineStarts(s) ==
  {a \in Places : a[1] = s /\ Covering(memlocs, a) \subseteq {a}}

(* In the first segment getLineAddr() and getLineAtAddr() number what       *)
(* begins a line, and are inverse to each other, whatever line was looked   *)
(* up last and wherever the blocks end.                                     *)
LinesInverse ==
  Settled => \A a \in LineStarts(1) :
    LET line == Cardinality({b \in LineStarts(1) : Before(b, a)})
    IN LineAtAddr(a) = line /\ LineAddr(line) = a

(* Between jobs and refreshes a change the index has not seen is marked in  *)
(* m_dirty and posted in m_updated, but for the known windows: a change     *)
(* after its mark was cleared or never marked (unmarked), and a post that   *)
(* came during the refresh or not at all (unposted).                        *)
ChangesAnnounced ==
  worker = "idle" /\ gui = "idle" /\ unseen =>
    (dirty \/ unmarked) /\ (updated \/ unposted)

(* A change that is marked and posted is shown: some time the view is at    *)
(* rest on an index built after the last change, unless it then falls into  *)
(* one of the windows of ChangesAnnounced or the program ends.              *)
ChangesShown ==
  (gui = "idle" /\ unseen /\ dirty /\ updated)
    ~> (Settled \/ unmarked \/ unposted \/ ~Running)

(* guiproxy.cpp:56: getLineAddr() is only asked for lines that exist. *)
LineExists == gui # "aborted"

(* guiproxy.h:56: getLineAddr() gets "the address for a given line": each   *)
(* line of the display has one in its segment.                              *)
LinesHaveAddresses ==
  Settled => \A line \in 0 .. LineCount - 1 : Valid(LineAddr(line))
=============================================================================
