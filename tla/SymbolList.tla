----------------------------- MODULE SymbolList -----------------------------
(***************************************************************************)
(* The symbol list (symlist.cpp), the comments beside it (comment.cpp) and *)
(* who uses them: the symbol analysis on the worker thread; on the GUI     *)
(* thread the dialogs of the code view, the Python terminal, and the list  *)
(* of symbols (qt/symbolmodel.cpp, qt/symbolview.cpp), which reads vectors *)
(* that are sorted when they are next asked for.  There is no lock: a call *)
(* that meets another on the other thread is a data race, after which the  *)
(* program has no defined behaviour.                                       *)
(***************************************************************************)
EXTENDS SymbolTable, Integers, Sequences, FiniteSets

CONSTANTS
    Addrs,      \* addresses that get symbols, numbers
    Alphabet,   \* the names that callers give, in the order of strcmp()
    MaxCalls    \* bound: how many symbols are set

ASSUME SymbolAssumption ==
    /\ Addrs \subseteq Nat
    /\ Alphabet \in Seq(Range(Alphabet))
    /\ IsInjective(Alphabet) /\ NoName \notin Range(Alphabet)
    /\ MaxCalls \in Nat

VARIABLES
    objs,       \* the symbols that exist: address and name, by their number
    byName,     \* m_name_lookup
    byAddr,     \* m_addr_lookup
    dirty,      \* m_vectors_dirty
    nameOrder,  \* m_name_order
    addrOrder,  \* m_addr_order
    comments,   \* the comments, by address
    call,       \* the call of the list that each thread is in
    held,       \* the symbol that the analysis still writes properties to
    generated,  \* the symbols with the property "generated"
    dialog,     \* the address and the kind of the dialog that is open
    rows,       \* how many rows the list of symbols shows
    calls,      \* bound
    broken      \* history: the program has no defined behaviour any more

list == <<objs, byName, byAddr, dirty, nameOrder, addrOrder>>
gui  == <<comments, dialog, rows>>
analysis == <<held, generated>>
vars == <<list, gui, call, analysis, calls, broken>>

Threads == {"worker", "gui"}
Names   == Range(Alphabet)
Idle    == [op |-> "none"]
None    == 0

Rank(name) == CHOOSE i \in DOMAIN Alphabet : Alphabet[i] = name

\* The table that the two maps stand for.
Table == [a \in DOMAIN byAddr |-> objs[byAddr[a]].name]

-----------------------------------------------------------------------------
(* set_symbol(), get_symbol() and updateDirtyVectors() *)

\* Mutant: a replacement leaves the vectors as they are.
DirtyOnNew(a) == dirty \/ a \notin DOMAIN byAddr
DirtyAfter(a) == TRUE

\* Mutant: the symbol that a had stays in the table of names.
LeavingNone(a) == {}

\* The symbol that leaves with its entries when a gets another.
Leaving(a) == IF a \in DOMAIN byAddr THEN {byAddr[a]} ELSE {}

NamesWithout(a) == Restrict(byName, {n \in DOMAIN byName : byName[n] \notin Leaving(a)})
AddrsWithout(a) == Restrict(byAddr, DOMAIN byAddr \ {a})

ObjsWithout(a)  == Restrict(objs, DOMAIN objs \ Leaving(a))

Erase(a) ==
    /\ byName' = NamesWithout(a) /\ byAddr' = AddrsWithout(a) /\ objs' = ObjsWithout(a)

Replace(a, name, id) ==
    /\ byName' = With(NamesWithout(a), name, id)
    /\ byAddr' = With(AddrsWithout(a), a, id)
    /\ objs' = With(ObjsWithout(a), id, [addr |-> a, name |-> name])

Body(a, name, id) ==
    IF name \in DOMAIN byName
    THEN UNCHANGED list
    ELSE /\ IF name = NoName THEN Erase(a) ELSE Replace(a, name, id)
         /\ dirty' = DirtyAfter(a)
         /\ UNCHANGED <<nameOrder, addrOrder>>

NameBefore(i, j) == Rank(objs[i].name) < Rank(objs[j].name)
AddrBefore(i, j) == objs[i].addr < objs[j].addr

\* The sequence of the elements of S that std::sort() makes.
Sorted(S, Before(_, _)) ==
    CHOOSE s \in [1 .. Cardinality(S) -> S] :
        Range(s) = S /\ \A i, j \in DOMAIN s : i < j => Before(s[i], s[j])

\* Both vectors are copied from the table of names.
UpdateDirtyVectors ==
    IF ~dirty THEN UNCHANGED list
    ELSE /\ nameOrder' = Sorted(Range(byName), NameBefore)
         /\ addrOrder' = Sorted(Range(byName), AddrBefore)
         /\ dirty' = FALSE
         /\ UNCHANGED <<objs, byName, byAddr>>

-----------------------------------------------------------------------------
(* Calls.  A thread is in the list from the beginning of a call to its end; *)
(* two readers do not disturb each other.                                   *)

Init ==
    /\ objs = <<>> /\ byName = <<>> /\ byAddr = <<>>
    /\ dirty = FALSE /\ nameOrder = <<>> /\ addrOrder = <<>>
    /\ comments = <<>> /\ dialog = Idle /\ rows = 0
    /\ call = [t \in Threads |-> Idle]
    /\ held = None /\ generated = {} /\ calls = 0 /\ broken = FALSE

Writes(c) == c.op \in {"set", "sort"}
Races(t, c) == \E u \in Threads \ {t} : call[u] # Idle /\ (Writes(c) \/ Writes(call[u]))

Begin(t, c) ==
    /\ ~broken /\ call[t] = Idle
    /\ call' = [call EXCEPT ![t] = c]
    /\ broken' = Races(t, c)
    /\ UNCHANGED list

SetCall(a, name) == [op |-> "set", addr |-> a, name |-> name]

BeginSet(t, a, name) ==
    /\ calls < MaxCalls
    /\ Begin(t, SetCall(a, name))
    /\ calls' = calls + 1

\* The new symbol's number; create_sym() hands it to the hooks, which there
\* are none of, and to its caller.
EndSet(t) ==
    /\ ~broken /\ call[t].op = "set"
    /\ Body(call[t].addr, call[t].name, calls)
    /\ call' = [call EXCEPT ![t] = Idle]
    /\ held' = IF t = "worker" /\ calls \in DOMAIN objs' THEN calls ELSE held
    /\ generated' = generated \cap DOMAIN objs'
    /\ UNCHANGED <<gui, calls, broken>>

\* analyze(): addresses without a symbol or with a generated one that has
\* another name by now, and names made from them.
WorkerName ==
    /\ held = None
    /\ \E a \in Addrs, name \in Names :
         /\ a \in DOMAIN byAddr => byAddr[a] \in generated /\ objs[byAddr[a]].name # name
         /\ BeginSet("worker", a, name)
    /\ UNCHANGED <<gui, analysis>>

WorkerProperty ==
    /\ ~broken /\ held # None
    /\ broken' = (held \notin DOMAIN objs)
    /\ held' = None /\ generated' = generated \cup {held}
    /\ UNCHANGED <<list, gui, call, calls>>

-----------------------------------------------------------------------------
(* The GUI thread *)

\* create_sym() of the Python terminal: any name, the empty one included.
PythonName ==
    /\ dialog = Idle
    /\ \E a \in Addrs, name \in Names \cup {NoName} : BeginSet("gui", a, name)
    /\ UNCHANGED <<gui, analysis>>

\* setSymbol() and setComment(): the old text is read and the dialog shown.
\* Its event loop runs the timers, so the view is refreshed meanwhile.
BeginDialog(a, kind) ==
    /\ ~broken /\ dialog = Idle
    /\ IF kind = "symbol" THEN Begin("gui", [op |-> "get"])
       ELSE call["gui"] = Idle /\ UNCHANGED <<list, call, broken>>
    /\ dialog' = [op |-> kind, addr |-> a, read |-> FALSE]
    /\ UNCHANGED <<comments, rows, analysis, calls>>

EndGet ==
    /\ ~broken /\ call["gui"].op = "get"
    /\ call' = [call EXCEPT !["gui"] = Idle]
    /\ UNCHANGED <<list, gui, analysis, calls, broken>>

\* The user closes the dialog; an empty text and Cancel do nothing.
CloseDialog ==
    /\ ~broken /\ dialog # Idle /\ call["gui"] = Idle
    /\ dialog' = Idle
    /\ UNCHANGED <<list, comments, rows, call, analysis, calls, broken>>

SymbolGiven ==
    /\ dialog # Idle /\ dialog.op = "symbol"
    /\ \E name \in Names : BeginSet("gui", dialog.addr, name)
    /\ dialog' = Idle
    /\ UNCHANGED <<comments, rows, analysis>>

\* set_comment(): the old comment is deleted, the new one takes its place.
SetComment(a, text) == With(comments, a, text)

CommentGiven ==
    /\ ~broken /\ dialog # Idle /\ dialog.op = "comment"
    /\ \E text \in Names : comments' = SetComment(dialog.addr, text)
    /\ dialog' = Idle
    /\ UNCHANGED <<list, rows, call, analysis, calls, broken>>

CountNames == Cardinality(DOMAIN byName)

\* runtimeUpdated() resets the model of the list, which counts the names.
Flush ==
    /\ ~broken /\ call["gui"] = Idle
    /\ broken' = Races("gui", [op |-> "get"])
    /\ rows' = CountNames
    /\ UNCHANGED <<list, comments, dialog, call, analysis, calls>>

\* find_ordered_symbol(): the vectors are brought up to date first.
BeginRow(r) ==
    /\ Begin("gui", [op |-> IF dirty THEN "sort" ELSE "row", row |-> r])
    /\ UNCHANGED <<gui, analysis, calls>>

\* data() of a line that is painted.
BeginPaint == \E r \in 0 .. rows - 1 : BeginRow(r)

\* getAddress() for a key or a double click, where no line may be selected.
BeginGoTo == dialog = Idle /\ \E r \in -1 .. rows - 1 : BeginRow(r)

\* A row that the vector does not have is read all the same.
EndRow ==
    /\ ~broken /\ call["gui"].op \in {"sort", "row"}
    /\ UpdateDirtyVectors
    /\ call' = [call EXCEPT !["gui"] = Idle]
    /\ broken' = (call["gui"].row + 1 \notin DOMAIN nameOrder')
    /\ UNCHANGED <<gui, analysis, calls>>

Next ==
    \/ WorkerName \/ WorkerProperty
    \/ \E t \in Threads : EndSet(t)
    \/ PythonName
    \/ \E a \in Addrs, kind \in {"symbol", "comment"} : BeginDialog(a, kind)
    \/ EndGet \/ CloseDialog \/ SymbolGiven \/ CommentGiven
    \/ Flush \/ BeginPaint \/ BeginGoTo \/ EndRow

Spec == Init /\ [][Next]_vars

-----------------------------------------------------------------------------
(* Properties *)

\* Seen from outside there is one table, and every call of set_symbol() has
\* its effect on it and no other: the removals and insertions in the maps and
\* the deletion of the symbol (symlist.cpp:54) add up to it, whoever calls and
\* after whatever, as long as calls of the two threads do not meet.
Service == INSTANCE SymbolService
               WITH Names <- Names \cup {NoName},
                    table <- Table,
                    pending <- [t \in Threads |->
                        IF call[t].op = "set" THEN <<call[t].addr, call[t].name>> ELSE <<>>]
ImplementsTable == Service!Spec

\* The two maps are inverse, and what is in them exists.
MapsAgree ==
    /\ Range(byName) = DOMAIN objs /\ Range(byAddr) = DOMAIN objs
    /\ \A i \in DOMAIN objs : byAddr[objs[i].addr] = i /\ byName[objs[i].name] = i

\* The list that the user sees, once it is up to date, is that of all symbols
\* that exist, each once and in order, whatever has replaced or erased what
\* since it was sorted last (symlist.cpp:162).
ListShowsTable ==
    ~broken =>
        /\ MapsAgree
        /\ ~dirty =>
             /\ Range(nameOrder) = DOMAIN objs /\ Len(nameOrder) = Cardinality(DOMAIN objs)
             /\ Range(addrOrder) = DOMAIN objs /\ Len(addrOrder) = Len(nameOrder)
             /\ \A i, j \in DOMAIN nameOrder : i < j =>
                  /\ NameBefore(nameOrder[i], nameOrder[j])
                  /\ AddrBefore(addrOrder[i], addrOrder[j])

\* No thread meets another in the list, none uses a symbol that was deleted
\* and no row is read that the vector does not have.  The code does nothing
\* for it (see the README).
NothingBreaks == ~broken
=============================================================================
