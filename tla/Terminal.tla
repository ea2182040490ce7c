------------------------------ MODULE Terminal ------------------------------
(***************************************************************************)
(* The line editor of the Python terminal (qt/pythonterminalview.cpp).     *)
(* The place of the cursor is kept as its distance from the end of the     *)
(* command, and the history is a list whose first element is the latest.   *)
(* Every handler ends in refresh(), which writes the command behind the    *)
(* prompt; the text before it is left out, and so is what Python does with *)
(* the commands: whether it raises or not, the terminal goes on the same.  *)
(***************************************************************************)
EXTENDS Integers, Sequences, SequencesExt, FiniteSets

CONSTANTS
    MaxText     \* bound: the length of a command that text is typed into

VARIABLES
    command,    \* m_command
    offset,     \* m_offset
    full,       \* m_fullCommand: the lines that Shift-Return has added
    history,    \* m_commandHistory
    pos,        \* m_history
    tmods       \* m_modifiers

terminal == <<command, offset, full, history, pos, tmods>>

Control == "Control"
Shift   == "Shift"
Modifiers == {Control, Shift, "Alt", "Meta"}

Newline == "\n"
Nothing == <<>>

TerminalInit ==
    /\ command = Nothing /\ offset = 0 /\ full = Nothing
    /\ history = Nothing /\ pos = -1 /\ tmods = {}

-----------------------------------------------------------------------------
(* QString, as the handlers use it: insert() ignores a negative place,     *)
(* remove() counts one from the end, chop() stops at the empty string.     *)

Inserted(s, i, t) == IF i < 0 THEN s ELSE SubSeq(s, 1, i) \o t \o SubSeq(s, i + 1, Len(s))

Removed(s, i) ==
    LET at == IF i < 0 THEN i + Len(s) ELSE i
    IN  IF at \in 0 .. Len(s) - 1 THEN RemoveAt(s, at + 1) ELSE s

Chopped(s, n) == SubSeq(s, 1, Len(s) - n)

\* Where the command goes on: the cursor, as a place in it.
Cursor == Len(command) + offset

-----------------------------------------------------------------------------
(* keyCommand(), a disjunct for each command *)

Move(to) ==
    /\ offset' = to
    /\ UNCHANGED <<command, full, history, pos>>

BeginningOfLine == Move(-Len(command))
EndOfLine    == Move(0)
ForwardChar  == Move(IF offset + 1 > 0 THEN 0 ELSE offset + 1)
BackwardChar == Move(IF offset - 1 < -Len(command) THEN -Len(command) ELSE offset - 1)
ClearScreen  == Move(offset)

Previous == IF pos + 1 >= Len(history) THEN Len(history) - 1 ELSE pos + 1

\* On the way to the latest entry, a command that was begun becomes one.
PreviousHistory ==
    LET begun == Previous = 0 /\ command # Nothing IN
    /\ history' = IF begun THEN <<command>> \o history ELSE history
    /\ pos' = IF begun THEN 1 ELSE Previous
    /\ command' = IF pos' >= 0 THEN history'[pos' + 1] ELSE command
    /\ UNCHANGED <<offset, full>>

\* Mutant: nothing stops at the command that is being written.
FollowingUnbounded == pos - 1
Following == IF pos - 1 < -1 THEN -1 ELSE pos - 1

NextHistory ==
    /\ history' = IF pos = -1 /\ command # Nothing THEN <<command>> \o history ELSE history
    /\ pos' = Following
    /\ command' = IF pos' >= 0 THEN history'[pos' + 1] ELSE Nothing
    /\ UNCHANGED <<offset, full>>

Edit(text, to) ==
    /\ command' = text
    /\ offset' = to
    /\ UNCHANGED <<full, history, pos>>

DeleteChar == Edit(Removed(command, Cursor), IF offset + 1 > 0 THEN 0 ELSE offset + 1)
BackwardDeleteChar == Edit(Removed(command, Cursor - 1), offset)
KillLine == Edit(Chopped(command, -offset), 0)

\* exec() of one line after the other; the first ends what Shift-Return began.
Exec(lines, rest) ==
    /\ history' = Reverse([lines EXCEPT ![1] = full \o @]) \o history
    /\ full' = Nothing
    /\ offset' = 0
    /\ command' = rest
    /\ pos' = -1

Execute == Exec(<<command>>, Nothing)

Extend ==
    /\ full' = full \o command \o <<Newline>>
    /\ command' = Nothing
    /\ pos' = -1
    /\ UNCHANGED <<offset, history>>

KeyCommand(kc) ==
    \/ kc = "BeginningOfLine" /\ BeginningOfLine
    \/ kc = "EndOfLine" /\ EndOfLine
    \/ kc = "ForwardChar" /\ ForwardChar
    \/ kc = "BackwardChar" /\ BackwardChar
    \/ kc = "ClearScreen" /\ ClearScreen
    \/ kc = "PreviousHistory" /\ PreviousHistory
    \/ kc = "NextHistory" /\ NextHistory
    \/ kc = "DeleteChar" /\ DeleteChar
    \/ kc = "BackwardDeleteChar" /\ BackwardDeleteChar
    \/ kc = "KillLine" /\ KillLine
    \/ kc = "Execute" /\ Execute
    \/ kc = "Extend" /\ Extend

Plain(key, kc) == <<key, {}, kc>>
Ctrl(key, kc)  == <<key, {Control}, kc>>

keyBindings ==
    { Plain("Left", "BackwardChar"), Plain("Right", "ForwardChar"),
      Plain("Up", "PreviousHistory"), Plain("Down", "NextHistory"),
      Plain("Home", "BeginningOfLine"), Plain("End", "EndOfLine"),
      Plain("Return", "Execute"), Plain("Escape", "KillLine"),
      Plain("Backspace", "BackwardDeleteChar"), Plain("Delete", "DeleteChar"),
      Ctrl("A", "BeginningOfLine"), Ctrl("E", "EndOfLine"),
      Ctrl("F", "ForwardChar"), Ctrl("B", "BackwardChar"), Ctrl("L", "ClearScreen"),
      Ctrl("P", "PreviousHistory"), Ctrl("N", "NextHistory"),
      Ctrl("D", "DeleteChar"), Ctrl("K", "KillLine"),
      <<"Return", {Shift}, "Extend">> }

Bound(key) == {b \in keyBindings : b[1] = key /\ b[2] = tmods}

\* The keys that have a text.
Letters == {"A", "E", "F", "B", "L", "P", "N", "D", "K", "G", "C", "U", "S"}

Insert(text) ==
    /\ Len(command) < MaxText
    /\ Edit(Inserted(command, Cursor, text), offset)

\* keyPressEvent(), keyReleaseEvent()
TerminalKey(key) ==
    /\ IF Bound(key) # {} THEN \E b \in Bound(key) : KeyCommand(b[3])
       ELSE IF tmods \subseteq {Shift} /\ key \in Letters THEN Insert(<<key>>)
       ELSE UNCHANGED <<command, offset, full, history, pos>>
    /\ UNCHANGED tmods

\* setRuntimeModel(), of a file that is opened: the output is cleared, but what
\* is being written and the history are kept.
NewInterpreter == UNCHANGED terminal

TerminalModifier(key, down) ==
    /\ tmods' = IF down THEN tmods \cup {key} ELSE tmods \ {key}
    /\ UNCHANGED <<command, offset, full, history, pos>>

\* insertFromMimeData(): a text of several lines runs all of them, the first
\* behind what stands before the cursor; what stands behind it stays.
Paste(lines) ==
    /\ UNCHANGED tmods
    /\ IF Len(lines) = 1 THEN Insert(lines[1])
       ELSE Exec([lines EXCEPT ![1] = Chopped(command, -offset) \o @],
                 SubSeq(command, Len(Chopped(command, -offset)) + 1, Len(command)))

-----------------------------------------------------------------------------
(* Properties *)

\* The place in the history is one that there is, or none, whatever is put
\* in front of the history while the user goes through it: at() takes no other
\* (pythonterminalview.cpp:178).
HistoryInRange == pos \in -1 .. Len(history) - 1

\* The cursor is in the command.  It is not so once the command has become
\* shorter under it: Shift-Return and the history leave m_offset as it is, and
\* Backspace at the beginning of the command takes its last character.
CursorInCommand == offset \in -Len(command) .. 0
=============================================================================
