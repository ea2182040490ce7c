-------------------------------- MODULE Input --------------------------------
(***************************************************************************)
(* The keyboard and the mouse, shared by the code view, the Python         *)
(* terminal and the other widgets of the window.  A key goes to the widget *)
(* that has the focus, and so does its release: the two views count        *)
(* modifiers by the presses and the releases that reach them.              *)
(***************************************************************************)
EXTENDS Terminal, CodeView

CONSTANTS
    Keys,       \* the keys that are pressed
    Clipboard,  \* the texts that are pasted, as sequences of lines
    MaxEvents   \* bound: how often the user does something

\* A text has a line at least: "".split('\n') has one.
ASSUME ClipboardAssumption == Clipboard \subseteq Seq(Seq(Letters \cup {Newline})) \ {<<>>}

VARIABLES
    focus,      \* the widget that has the focus
    held,       \* the modifiers that are down
    events      \* bound

vars == <<terminal, project, view, focus, held, events>>

Widgets == {"view", "terminal", "other"}

Init ==
    /\ TerminalInit /\ ViewInit
    /\ focus \in Widgets /\ held = {} /\ events = 0

User == ~aborted /\ events < MaxEvents /\ events' = events + 1

KeyPress ==
    /\ User /\ modal = Closed
    /\ \E key \in Keys :
         \/ focus = "terminal" /\ TerminalKey(key) /\ UNCHANGED <<project, view>>
         \/ focus = "view" /\ ViewKey(key) /\ UNCHANGED terminal
    /\ UNCHANGED <<focus, held>>

\* While a menu or a dialog is open, what happens to a modifier goes there.
Modifier ==
    /\ User
    /\ \E key \in {Control, Shift} :
         LET down == key \notin held IN
         /\ held' = IF down THEN held \cup {key} ELSE held \ {key}
         /\ IF focus = "terminal" /\ modal = Closed THEN TerminalModifier(key, down) ELSE UNCHANGED terminal
         /\ IF focus = "view" /\ modal = Closed THEN ViewModifier(key, down) ELSE UNCHANGED view
    /\ UNCHANGED <<project, focus>>

PasteLines ==
    /\ User /\ modal = Closed /\ focus = "terminal"
    /\ \E lines \in Clipboard : Paste(lines)
    /\ UNCHANGED <<project, view, focus, held>>

\* A click, or a shortcut of the window, which may be pressed with Control.
FocusMoves ==
    /\ User /\ modal = Closed
    /\ focus' \in Widgets \ {focus}
    /\ UNCHANGED <<terminal, project, view, held>>

Mouse ==
    /\ User /\ modal = Closed
    /\ \E r \in Rows : Click(r) \/ OpenMenu(r) \/ \E column \in {1, 2, 4} : DoubleClick(r, column)
    /\ focus' = "view"
    /\ UNCHANGED <<terminal, held>>

MenuOrDialog ==
    /\ User
    /\ \/ \E what \in {"symbol", "comment", "analyze", "undefine", "jump"} : Choose(what)
       \/ \E source \in Addrs : ChooseXref(source)
       \/ Accept \/ Dismiss
    /\ UNCHANGED <<terminal, focus, held>>

\* File/Open, and the choice of a file; the search is hidden.
OpenFile ==
    /\ User
    /\ \/ modal = Closed /\ OpenDialog("file", 0) /\ UNCHANGED <<last, aborted, focus>>
       \/ /\ ReplaceRuntime
          /\ IF focus = "other" THEN focus' \in Widgets ELSE UNCHANGED focus
    /\ NewInterpreter
    /\ UNCHANGED held

\* A result of the search, or a name in the list of symbols.
OtherJump ==
    /\ User /\ modal = Closed /\ focus = "other"
    /\ \E a \in Addrs : PostedJump(a)
    /\ UNCHANGED <<terminal, focus, held>>

Background ==
    /\ ~aborted
    /\ Work \/ Flush \/ \E r \in Rows : Paint(r)
    /\ UNCHANGED <<terminal, focus, held, events>>

Next ==
    \/ KeyPress \/ Modifier \/ PasteLines \/ FocusMoves
    \/ Mouse \/ MenuOrDialog \/ OpenFile \/ OtherJump
    \/ Background

Spec == Init /\ [][Next]_vars

-----------------------------------------------------------------------------
(* The modifiers that the focused view counts are those that are down.  It *)
(* is not so: one that was pressed here and released elsewhere, like the   *)
(* Control of a shortcut that moves the focus, stays down here, and the    *)
(* keys of the view do nothing any more (codeview.cpp:234).                *)
ModifiersKnown ==
    modal = Closed =>
        /\ focus = "view" => vmods = held
        /\ focus = "terminal" => tmods = held
=============================================================================
