------------------------------ MODULE CodeView ------------------------------
(***************************************************************************)
(* The code view (qt/codeview.cpp): which line is selected, the stack of   *)
(* places that jumps have left, and what keys, the mouse, the menu and the *)
(* dialogs send to the project.  The listing changes under it: the worker  *)
(* defines and undefines items of two addresses, and the timer of the      *)
(* runtime model brings the lines up to date, even while a menu or a       *)
(* dialog is open.  The view knows its place by row, everything else by    *)
(* address, and rows and addresses are translated by walks over the items  *)
(* as they are now, not as they were when the lines were made.             *)
(***************************************************************************)
EXTENDS Integers, Sequences, FiniteSetsExt

CONSTANTS
    LastAddr,   \* addresses are 0 .. LastAddr
    Target      \* where the instruction at an address refers to, if it does

ASSUME CodeViewAssumption ==
    /\ LastAddr \in Nat
    /\ DOMAIN Target \subseteq 0 .. LastAddr
    /\ \A a \in DOMAIN Target : Target[a] \in 0 .. LastAddr

VARIABLES
    file,       \* the file that is open: how many were opened before
    defined,    \* the addresses of the items of the project
    xrefs,      \* where the references come from: none is ever removed
    jobs,       \* what the worker has to analyse and to undefine
    dangling,   \* history: a workspace was deleted that jobs point to
    updated,    \* the files whose runtime model has m_updated
    built,      \* the proxy has been updated since the file was opened
    shown,      \* the items as of the last update of the proxy
    changed,    \* the lowest address where an item came or went since then
    last,       \* m_last_look_line and m_last_look_addr
    row,        \* the row of the current index, or -1
    stack,      \* m_jumpStack: addresses, of a file each
    modal,      \* the menu or the dialog that is open, and its address
    leaked,     \* history: a menu was left behind
    vmods,      \* m_modifiers
    aborted     \* an assertion has ended the program

project == <<file, defined, xrefs, jobs, dangling>>
proxy   == <<updated, built, shown, changed>>
place   == <<row, stack, modal, leaked, vmods>>
view    == <<proxy, last, place, aborted>>

NoRow   == -1
NoLook  == [line |-> NoRow, addr |-> 0]
Closed  == [kind |-> "none"]
Addrs   == 0 .. LastAddr
Nowhere == LastAddr + 1

ViewInit ==
    /\ defined \in {{}, {a \in Addrs : a % 2 = 0 /\ a < LastAddr}}
    /\ file = 0 /\ xrefs = defined \cap DOMAIN Target /\ jobs = {} /\ dangling = FALSE
    /\ shown = defined /\ built = TRUE /\ updated = {} /\ changed = Nowhere /\ last = NoLook
    /\ row = NoRow /\ stack = <<>> /\ modal = Closed /\ leaked = FALSE /\ vmods = {}
    /\ aborted = FALSE

-----------------------------------------------------------------------------
(* The proxy, of which GuiUpdate has the whole: a line for each item and   *)
(* for each address in none, in one segment and one block.                 *)

Starts(items) == {a \in Addrs : a - 1 \notin items}

Rows == IF built THEN 0 .. Cardinality(Starts(shown)) - 1 ELSE {}

\* m_dirty, which the hook sets.
Dirty == ~built \/ changed # Nowhere

\* One turn of the loops: an item is found by its start only.
NextLine(a) == a + (IF a \in defined THEN 2 ELSE 1)

Walk(a, n) ==
    LET go[i \in 0 .. n] == IF i = 0 THEN a ELSE LET p == go[i - 1] IN NextLine(p)
    IN  go[n]

\* getLineAddr() of a row there is: from the line looked up last, if that is
\* not behind it.  Where items came and went it may run past the last address.
LineAddr(r) ==
    IF last # NoLook /\ last.line <= r THEN Walk(last.addr, r - last.line) ELSE Walk(0, r)

Look(r) == [line |-> r, addr |-> LineAddr(r)]

\* getLineAtAddr(), or no row where it throws.  The inside of an item gets
\* the line behind it, that of the last item a line there is not.
LineAt(a) ==
    IF built /\ a \in Addrs THEN Min({n \in 0 .. a : Walk(0, n) >= a}) ELSE NoRow

\* setCurrentIndex(): an address that has no line leaves the row alone.
Select(a) == row' = IF LineAt(a) = NoRow THEN row ELSE LineAt(a)

\* The assertion of getLineAddr() fails: the row is behind the last line.
Abort == aborted' = TRUE /\ UNCHANGED <<project, proxy, last, place>>

Push(a) == stack' = Append(stack, [file |-> file, addr |-> a])

\* Nothing is sent of an address that is not valid.
Sent(op, a) == IF a \in Addrs THEN jobs \cup {<<op, a>>} ELSE jobs

Send(op, a) ==
    /\ jobs' = Sent(op, a)
    /\ UNCHANGED <<file, defined, xrefs, dangling, proxy, place>>

Analyze(a)  == Send("analyze", a)
Undefine(a) == Send("undefine", a)

HasJump(a) == a \in defined /\ a \in DOMAIN Target

\* jump(), which looks the item up as it is now.
Jump(a) ==
    /\ IF HasJump(a) THEN Push(a) /\ Select(Target[a]) ELSE UNCHANGED <<row, stack>>
    /\ UNCHANGED <<project, proxy, leaked, vmods>>

\* The sources that createXrefMenu() lists.
Sources(a) == IF a \in defined THEN {s \in xrefs : Target[s] = a} ELSE {}

OpenDialog(kind, a) ==
    /\ modal' = [kind |-> kind, addr |-> a]
    /\ UNCHANGED <<project, proxy, row, stack, leaked, vmods>>

-----------------------------------------------------------------------------
(* Keys and the mouse *)

\* A place in a file that was open before is taken off the stack for nothing:
\* its address is in none of the lines.
Back ==
    IF stack = <<>> THEN UNCHANGED <<project, view>>
    ELSE LET top == stack[Len(stack)] IN
         /\ IF top.file = file THEN Select(top.addr) ELSE UNCHANGED row
         /\ stack' = SubSeq(stack, 1, Len(stack) - 1)
         /\ UNCHANGED <<project, proxy, last, modal, leaked, vmods, aborted>>

LineKey(key, a) ==
    CASE key \in {"Return", "G"} -> Jump(a) /\ UNCHANGED modal
      [] key \in {"C", "I"}      -> Analyze(a)
      [] key = "U"               -> Undefine(a)
      [] key = "S"               -> OpenDialog("symbol", a)
      [] key = "Semicolon"       -> OpenDialog("comment", a)
      [] OTHER                   -> UNCHANGED <<project, proxy, place>>

\* getLineAddr() is asked, and remembers.
Looked(r) == last' = Look(r) /\ UNCHANGED aborted

\* keyPressEvent(): with any modifier but Shift down it does nothing.
ViewKey(key) ==
    IF ~(vmods \subseteq {"Shift"}) THEN UNCHANGED <<project, view>>
    ELSE IF key \in {"Escape", "Backspace"} THEN Back
    ELSE IF row = NoRow THEN UNCHANGED <<project, view>>
    ELSE IF row \notin Rows THEN Abort
    ELSE Looked(row) /\ LineKey(key, LineAddr(row))

ViewModifier(key, down) ==
    /\ vmods' = IF down THEN vmods \cup {key} ELSE vmods \ {key}
    /\ UNCHANGED <<project, proxy, last, row, stack, modal, leaked, aborted>>

\* A press of the mouse selects; a second one on some columns does more.
Click(r) ==
    /\ row' = r
    /\ UNCHANGED <<project, proxy, last, stack, modal, leaked, vmods, aborted>>

DoubleClick(r, column) ==
    LET a == LineAddr(r) IN
    /\ Looked(r)
    /\ \/ column = 1 /\ OpenDialog("symbol", a)
       \/ column = 2 /\ Jump(a) /\ UNCHANGED modal
       \/ column = 4 /\ OpenDialog("comment", a)

\* The menu offers what fits the item as it is when the menu opens.
OpenMenu(r) ==
    LET a == LineAddr(r) IN
    /\ Looked(r)
    /\ modal' = [kind |-> "menu", addr |-> a, sources |-> Sources(a),
                 offers |-> {"symbol", "comment"}
                            \cup {IF a \in defined THEN "undefine" ELSE "analyze"}
                            \cup (IF HasJump(a) THEN {"jump"} ELSE {})]
    /\ UNCHANGED <<project, proxy, row, stack, leaked, vmods>>

-----------------------------------------------------------------------------
(* What ends a menu or a dialog *)

\* Behind the menu, the submenu of several sources should be deleted, but the
\* pointer that is asked was declared again where it was made.
MenuLeft == leaked' = (leaked \/ Cardinality(modal.sources) > 1)

Choose(what) ==
    /\ modal.kind = "menu" /\ what \in modal.offers
    /\ MenuLeft
    /\ LET a == modal.addr IN
       CASE what \in {"analyze", "undefine"} ->
                /\ jobs' = Sent(what, a)
                /\ modal' = Closed /\ UNCHANGED <<row, stack>>
         [] what = "jump" ->
                /\ IF HasJump(a) THEN Push(a) /\ Select(Target[a]) ELSE UNCHANGED <<row, stack>>
                /\ modal' = Closed /\ UNCHANGED jobs
         [] OTHER ->
                /\ modal' = [kind |-> what, addr |-> a]
                /\ UNCHANGED <<row, stack, jobs>>
    /\ UNCHANGED <<file, defined, xrefs, dangling, proxy, last, vmods, aborted>>

ChooseXref(source) ==
    /\ modal.kind = "menu" /\ source \in modal.sources
    /\ MenuLeft
    /\ Push(modal.addr) /\ Select(source)
    /\ modal' = Closed
    /\ UNCHANGED <<project, proxy, last, vmods, aborted>>

Dismiss ==
    /\ modal # Closed
    /\ modal' = Closed
    /\ IF modal.kind = "menu" THEN MenuLeft ELSE UNCHANGED leaked
    /\ UNCHANGED <<project, proxy, last, row, stack, vmods, aborted>>

\* setSymbol(), setComment() of a text that is not empty.
Accept ==
    /\ modal.kind \in {"symbol", "comment"}
    /\ modal' = Closed
    /\ Select(modal.addr)
    /\ updated' = updated \cup {file}
    /\ UNCHANGED <<project, built, shown, changed, last, stack, leaked, vmods, aborted>>

\* setRuntimeModel(): new lines, and no row; the stack is kept.
SetRuntimeModel ==
    /\ built' = FALSE /\ shown' = {} /\ changed' = Nowhere /\ last' = NoLook
    /\ row' = NoRow
    /\ UNCHANGED <<stack, leaked, vmods, aborted>>

\* replaceRuntime(), of open() with a file that was chosen.  The workspace is
\* deleted, but not what it made: its thread goes on with its jobs, and its
\* runtime model with its timer.  Here the jobs end with their workspace.
ReplaceRuntime ==
    /\ modal.kind = "file"
    /\ modal' = Closed
    /\ file' = file + 1
    /\ defined' = {} /\ xrefs' = {} /\ jobs' = {}
    /\ dangling' = (dangling \/ jobs # {})
    /\ updated' = updated \cup {file'}
    /\ SetRuntimeModel

-----------------------------------------------------------------------------
(* What happens meanwhile *)

\* A job on the worker thread, of which Analysis has the whole: from its
\* address it goes on to as many items as the flow does.
Chain(a, n) == {a + (2 * k) : k \in 0 .. n - 1}
Free(a) == {a, a + 1} \subseteq Addrs /\ {a - 1, a, a + 1} \cap defined = {}

Work ==
    /\ \E job \in jobs, n \in 0 .. Cardinality(Addrs) :
         LET chain == Chain(job[2], n) IN
         /\ \/ /\ job[1] = "undefine" /\ chain \subseteq defined
               /\ defined' = defined \ chain
               /\ jobs' = jobs \ {job}
               /\ UNCHANGED xrefs
            \/ /\ job[1] = "analyze" /\ \A a \in chain : Free(a)
               /\ defined' = defined \cup chain
               /\ jobs' = (jobs \ {job}) \cup {<<"analyze", Target[a]>> : a \in chain \cap DOMAIN Target}
               /\ xrefs' = xrefs \cup (chain \cap DOMAIN Target)
         /\ changed' = Min({changed} \cup chain)
    /\ updated' = updated \cup {file}
    /\ UNCHANGED <<file, dangling, built, shown, last, place, aborted>>

\* QTCodeModel::data() of a visible line.
Paint(r) ==
    /\ Looked(r)
    /\ UNCHANGED <<project, proxy, place>>

\* update() and the cache it forgets; getLineAddr() was asked before.
Rebuild ==
    IF Dirty
    THEN built' = TRUE /\ shown' = defined /\ changed' = Nowhere /\ last' = NoLook
    ELSE /\ last' = IF row = NoRow THEN last ELSE Look(row)
         /\ UNCHANGED <<built, shown, changed>>

\* Mutant: the row of the current index is kept.
RowKept == row

\* The address of the row is looked up again.
RowAfter == IF row = NoRow THEN NoRow ELSE LineAt(LineAddr(row))

\* updateTimeout() of a runtime model, the one of an earlier file as well, and
\* runtimeUpdated() of a flush.
Flush ==
    IF row \in Rows \cup {NoRow}
    THEN /\ \E f \in updated : updated' = updated \ {f}
         /\ Rebuild
         /\ row' = RowAfter
         /\ UNCHANGED <<project, stack, modal, leaked, vmods, aborted>>
    ELSE updated # {} /\ Abort

\* runtimeUpdated() of a jump that another window posts with Select.
PostedJump(a) ==
    IF row \in Rows \cup {NoRow}
    THEN /\ IF row = NoRow THEN UNCHANGED <<stack, last>> ELSE Push(LineAddr(row)) /\ last' = Look(row)
         /\ Select(a)
         /\ UNCHANGED <<project, proxy, modal, leaked, vmods, aborted>>
    ELSE Abort

-----------------------------------------------------------------------------
(* Properties *)

\* Line r of the items shows address a.
Shows(items, r, a) ==
    a \in Starts(items) /\ r = Cardinality({s \in Starts(items) : s < a})

\* A refresh keeps the user's place, though rows above him came and went
\* (codeview.cpp:135), if his line was the last one looked up, before that,
\* and also, whatever line was looked up, if nothing came or went above him.
\* With such an address on the stack, the way back leads to its line.  What
\* the conditions leave out moves him: another line looked up meanwhile, and
\* an address that no line begins with any more.
PlaceKept ==
    [][ /\ updated' \subseteq updated /\ updated' # updated =>
              \A a \in Starts(shown) \cap Starts(defined) :
                 /\ Shows(shown, row, a)
                 /\ a <= changed \/ last = [line |-> row, addr |-> a]
                 => Shows(shown', row', a)
        /\ Len(stack') < Len(stack) /\ stack[Len(stack)].file = file /\ built =>
              LET a == stack[Len(stack)].addr IN
              a \in Starts(shown) /\ a <= changed => Shows(shown, row', a) ]_<<project, view>>

\* Menus that were opened are deleted (codeview.cpp:463).  It is not so.
MenusDeleted == ~leaked

\* A workspace lives as long as the jobs that were given its address
\* (application.cpp:116).  It does not.
WorkspaceLives == ~dangling
=============================================================================
