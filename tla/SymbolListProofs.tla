-------------------------- MODULE SymbolListProofs --------------------------
(***************************************************************************)
(* Theorems about SymbolList, for every set of addresses, every alphabet   *)
(* of names and every number of calls.                                     *)
(*                                                                         *)
(* The inductive invariant says, of a program that is not broken, that the *)
(* two maps are inverse to the symbols that exist (TwoWay), that a call    *)
(* of set_symbol() has the list for itself (Alone) and that the symbol it  *)
(* will make is none of those that exist (Fresh).  That the vectors list   *)
(* the table needs that there is a sorted listing (OrderExists).           *)
(***************************************************************************)
EXTENDS SymbolList, FiniteSetTheorems, WellFoundedInduction, TLAPS

CallsTyped ==
    /\ calls \in Nat
    /\ call = [t \in Threads |-> call[t]]
    /\ \A t \in Threads : call[t].op = "set" =>
         /\ call[t].addr \in Addrs /\ call[t].name \in Names \cup {NoName}
    /\ dialog # Idle => dialog.addr \in Addrs
    /\ broken \in BOOLEAN

\* Every entry leads to a symbol of that address or name, and every symbol
\* has its two entries.
TwoWay ==
    /\ \A a \in DOMAIN byAddr : byAddr[a] \in DOMAIN objs /\ objs[byAddr[a]].addr = a
    /\ \A n \in DOMAIN byName : byName[n] \in DOMAIN objs /\ objs[byName[n]].name = n
    /\ \A i \in DOMAIN objs :
         /\ objs[i].addr \in DOMAIN byAddr /\ byAddr[objs[i].addr] = i
         /\ objs[i].name \in DOMAIN byName /\ byName[objs[i].name] = i

Setting(t) == call[t].op = "set"

Fresh ==
    /\ \A i \in DOMAIN objs : i \in Nat /\ i <= calls
    /\ \A t \in Threads : Setting(t) => calls \notin DOMAIN objs

Alone == \A t, u \in Threads : t # u /\ Setting(t) => call[u] = Idle

IInv ==
    /\ CallsTyped
    /\ ~broken => TwoWay /\ Fresh /\ Alone

-----------------------------------------------------------------------------
(* One call of set_symbol() *)

\* What set_symbol() does to the maps keeps them inverse.
LEMMA BodyKeepsInverse ==
    ASSUME NEW a, NEW name, NEW id, id \notin DOMAIN objs, TwoWay, Body(a, name, id)
    PROVE  TwoWay'
<1>1. CASE name \in DOMAIN byName
  BY <1>1 DEF Body, list, TwoWay
<1>2. CASE name \notin DOMAIN byName /\ name = NoName
  <2>1. Erase(a)
    BY <1>2 DEF Body
  <2> QED
    BY <2>1 DEF Erase, NamesWithout, AddrsWithout, ObjsWithout, Leaving, Restrict, TwoWay
<1>3. CASE name \notin DOMAIN byName /\ name # NoName
  <2>1. Replace(a, name, id)
    BY <1>3 DEF Body
  <2>2. /\ DOMAIN objs' = (DOMAIN objs \ Leaving(a)) \cup {id}
        /\ objs'[id] = [addr |-> a, name |-> name]
        /\ \A i \in DOMAIN objs \ Leaving(a) : objs'[i] = objs[i]
    BY <2>1 DEF Replace, ObjsWithout, With, Restrict
  <2>3. /\ DOMAIN byAddr' = DOMAIN byAddr \cup {a}
        /\ byAddr'[a] = id
        /\ \A b \in DOMAIN byAddr \ {a} : byAddr'[b] = byAddr[b]
    BY <2>1 DEF Replace, AddrsWithout, With, Restrict
  <2>4. /\ DOMAIN byName' = {n \in DOMAIN byName : byName[n] \notin Leaving(a)} \cup {name}
        /\ byName'[name] = id
        /\ \A n \in DOMAIN byName : byName[n] \notin Leaving(a) => byName'[n] = byName[n]
    BY <1>3, <2>1 DEF Replace, NamesWithout, With, Restrict
  <2>5. \A b \in DOMAIN byAddr' : byAddr'[b] \in DOMAIN objs' /\ objs'[byAddr'[b]].addr = b
    BY <2>2, <2>3 DEF TwoWay, Leaving
  <2>6. \A n \in DOMAIN byName' : byName'[n] \in DOMAIN objs' /\ objs'[byName'[n]].name = n
    BY <2>2, <2>4 DEF TwoWay
  <2>7. \A i \in DOMAIN objs' : objs'[i].addr \in DOMAIN byAddr' /\ byAddr'[objs'[i].addr] = i
    BY <2>2, <2>3 DEF TwoWay, Leaving
  <2>8. \A i \in DOMAIN objs' : objs'[i].name \in DOMAIN byName' /\ byName'[objs'[i].name] = i
    BY <1>3, <2>2, <2>4 DEF TwoWay
  <2> QED
    BY <2>5, <2>6, <2>7, <2>8 DEF TwoWay
<1> QED
  BY <1>1, <1>2, <1>3

\* Seen as one table, it is SetSymbol.
LEMMA BodySets ==
    ASSUME NEW a, NEW name, NEW id, id \notin DOMAIN objs, TwoWay, Body(a, name, id)
    PROVE  Table' = SetSymbol(Table, a, name)
<1>1. InUse(Table, name) <=> name \in DOMAIN byName
  <2>1. ASSUME name \in DOMAIN byName
        PROVE  InUse(Table, name)
    <3> DEFINE b == objs[byName[name]].addr
    <3>1. b \in DOMAIN byAddr /\ Table[b] = name
      BY <2>1 DEF TwoWay, Table
    <3> QED
      BY <3>1 DEF InUse, Range, Table
  <2>2. ASSUME InUse(Table, name)
        PROVE  name \in DOMAIN byName
    BY <2>2 DEF InUse, Range, Table, TwoWay
  <2> QED
    BY <2>1, <2>2
<1>2. CASE name \in DOMAIN byName
  BY <1>1, <1>2 DEF Body, list, SetSymbol, Table
<1>3. CASE name \notin DOMAIN byName /\ name = NoName
  <2>1. Erase(a)
    BY <1>3 DEF Body
  <2>2. /\ DOMAIN byAddr' = DOMAIN byAddr \ {a}
        /\ \A b \in DOMAIN byAddr \ {a} :
              byAddr'[b] = byAddr[b] /\ objs'[byAddr[b]] = objs[byAddr[b]]
    BY <2>1 DEF Erase, AddrsWithout, ObjsWithout, Leaving, Restrict, TwoWay
  <2>3. Table' = Without(Table, a)
    BY <2>2 DEF Table, Without, Restrict
  <2> QED
    BY <1>1, <1>3, <2>3 DEF SetSymbol
<1>4. CASE name \notin DOMAIN byName /\ name # NoName
  <2>1. Replace(a, name, id)
    BY <1>4 DEF Body
  <2>2. /\ DOMAIN byAddr' = DOMAIN byAddr \cup {a}
        /\ byAddr'[a] = id
        /\ \A b \in DOMAIN byAddr \ {a} : byAddr'[b] = byAddr[b]
    BY <2>1 DEF Replace, AddrsWithout, With, Restrict
  <2>3. /\ objs'[id].name = name
        /\ \A b \in DOMAIN byAddr \ {a} : objs'[byAddr[b]] = objs[byAddr[b]]
    BY <2>1 DEF Replace, ObjsWithout, With, Restrict, Leaving, TwoWay
  <2>4. Table' = With(Table, a, name)
    BY <2>2, <2>3 DEF Table, With
  <2> QED
    BY <1>1, <1>4, <2>4 DEF SetSymbol
<1> QED
  BY <1>2, <1>3, <1>4

-----------------------------------------------------------------------------
(* The steps, by what they do to the maps and to the calls *)

Setup(t, a, name) == Begin(t, SetCall(a, name)) /\ calls' = calls + 1

BeginRead == UNCHANGED calls /\ \E c : c.op # "set" /\ Begin("gui", c)

EndRead ==
    /\ call["gui"].op # "set"
    /\ call' = [call EXCEPT !["gui"] = Idle]
    /\ UNCHANGED <<objs, byName, byAddr, calls>>

Elsewhere == UNCHANGED <<objs, byName, byAddr, call, calls>>

LEMMA ThreadsAre == Threads = {"worker", "gui"} /\ Idle.op = "none"
BY DEF Threads, Idle

\* A program that is broken does nothing more.
LEMMA BrokenStops == Next => ~broken
BY DEF Next, WorkerName, WorkerProperty, EndSet, PythonName, BeginDialog, EndGet, CloseDialog,
       SymbolGiven, CommentGiven, Flush, BeginPaint, BeginGoTo, BeginRow, EndRow, BeginSet, Begin

LEMMA StepKinds ==
    ASSUME Next, CallsTyped
    PROVE  \/ \E t \in Threads, a \in Addrs, name \in Names \cup {NoName} : Setup(t, a, name)
           \/ \E t \in Threads : EndSet(t)
           \/ BeginRead \/ EndRead \/ Elsewhere
<1>1. CASE WorkerName
  BY <1>1, ThreadsAre DEF WorkerName, BeginSet, Setup
<1>2. CASE PythonName
  BY <1>2, ThreadsAre DEF PythonName, BeginSet, Setup
<1>3. CASE SymbolGiven
  BY <1>3, ThreadsAre DEF SymbolGiven, BeginSet, Setup, CallsTyped
<1>4. ASSUME NEW a \in Addrs, NEW kind, BeginDialog(a, kind)
      PROVE  BeginRead \/ Elsewhere
  <2>1. [op |-> "get"].op # "set"
    OBVIOUS
  <2> QED
    BY <1>4, <2>1 DEF BeginDialog, BeginRead, Elsewhere, list
<1>5. ASSUME NEW r, BeginRow(r)
      PROVE  BeginRead
  <2> DEFINE c == [op |-> IF dirty THEN "sort" ELSE "row", row |-> r]
  <2>1. c.op # "set"
    OBVIOUS
  <2> QED
    BY <1>5, <2>1 DEF BeginRow, BeginRead
<1>6. CASE EndGet
  BY <1>6 DEF EndGet, EndRead, list
<1>7. CASE EndRow
  BY <1>7 DEF EndRow, EndRead, UpdateDirtyVectors, list
<1>8. CASE WorkerProperty \/ CloseDialog \/ CommentGiven \/ Flush
  BY <1>8 DEF WorkerProperty, CloseDialog, CommentGiven, Flush, Elsewhere, list
<1> QED
  BY <1>1, <1>2, <1>3, <1>4, <1>5, <1>6, <1>7, <1>8 DEF Next, BeginPaint, BeginGoTo

LEMMA TypeStep == CallsTyped /\ [Next]_vars => CallsTyped'
<1> SUFFICES ASSUME CallsTyped, [Next]_vars
             PROVE  CallsTyped'
  OBVIOUS
<1>1. (dialog # Idle => dialog.addr \in Addrs)' /\ broken' \in BOOLEAN
  <2>1. ASSUME NEW a \in Addrs, NEW kind, BeginDialog(a, kind)
        PROVE  dialog'.addr \in Addrs /\ broken' \in BOOLEAN
    <3>1. dialog'.addr = a
      BY <2>1 DEF BeginDialog
    <3> QED
      BY <2>1, <3>1 DEF BeginDialog, Begin, Races, CallsTyped
  <2>2. CASE SymbolGiven \/ CloseDialog \/ CommentGiven
    BY <2>2 DEF SymbolGiven, CloseDialog, CommentGiven, BeginSet, Begin, Races, CallsTyped
  <2>3. CASE WorkerName \/ PythonName
    BY <2>3 DEF WorkerName, PythonName, BeginSet, Begin, Races, CallsTyped, gui
  <2>4. ASSUME NEW r, BeginRow(r)
        PROVE  UNCHANGED dialog /\ broken' \in BOOLEAN
    BY <2>4 DEF BeginRow, Begin, Races, gui
  <2>5. CASE WorkerProperty \/ (\E t \in Threads : EndSet(t)) \/ EndGet
    BY <2>5 DEF WorkerProperty, EndSet, EndGet, CallsTyped, gui
  <2>6. CASE Flush \/ EndRow
    BY <2>6 DEF Flush, EndRow, Races, CallsTyped, gui
  <2>7. CASE UNCHANGED vars
    BY <2>7 DEF vars, gui, CallsTyped
  <2> QED
    BY <2>1, <2>2, <2>3, <2>4, <2>5, <2>6, <2>7 DEF Next, BeginPaint, BeginGoTo, CallsTyped
<1>2. ASSUME NEW t \in Threads, NEW a \in Addrs, NEW name \in Names \cup {NoName},
             Setup(t, a, name)
      PROVE  CallsTyped'
  BY <1>1, <1>2 DEF CallsTyped, Setup, Begin, SetCall
<1>3. ASSUME NEW t \in Threads, EndSet(t)
      PROVE  CallsTyped'
  BY <1>1, <1>3, ThreadsAre DEF CallsTyped, EndSet
<1>4. CASE BeginRead
  BY <1>1, <1>4, ThreadsAre DEF CallsTyped, BeginRead, Begin
<1>5. CASE EndRead
  BY <1>1, <1>5, ThreadsAre DEF CallsTyped, EndRead
<1>6. CASE Elsewhere \/ UNCHANGED vars
  BY <1>1, <1>6 DEF CallsTyped, Elsewhere, vars
<1> QED
  BY <1>2, <1>3, <1>4, <1>5, <1>6, StepKinds

\* A call of set_symbol() that begins and breaks nothing finds nobody in the
\* list; one that is on lets nobody in.
LEMMA BeginAlone ==
    ASSUME CallsTyped, Alone, NEW t \in Threads, NEW c, Begin(t, c), ~broken'
    PROVE  Alone' /\ (c.op = "set" => \A u \in Threads \ {t} : call[u] = Idle)
<1>1. \A u \in Threads \ {t} : call[u] = Idle \/ (c.op # "set" /\ call[u].op # "set")
  BY DEF Begin, Races, Writes
<1>2. call'[t] = c /\ \A u \in Threads \ {t} : call'[u] = call[u]
  BY DEF Begin, CallsTyped
<1> QED
  BY <1>1, <1>2, ThreadsAre DEF Alone, Setting

LEMMA InvStep == IInv /\ [Next]_vars => IInv'
<1> SUFFICES ASSUME IInv, [Next]_vars, ~broken'
             PROVE  TwoWay' /\ Fresh' /\ Alone'
  BY TypeStep DEF IInv
<1>0. CallsTyped /\ TwoWay /\ Fresh /\ Alone
  BY BrokenStops DEF IInv, vars
<1>1. ASSUME NEW t \in Threads, NEW a \in Addrs, NEW name \in Names \cup {NoName},
             Setup(t, a, name)
      PROVE  TwoWay' /\ Fresh' /\ Alone'
  <2>1. UNCHANGED <<objs, byName, byAddr>> /\ calls' = calls + 1
    BY <1>1 DEF Setup, Begin, list
  <2>2. TwoWay' /\ Fresh'
    BY <1>0, <2>1 DEF TwoWay, Fresh, CallsTyped
  <2> QED
    BY <1>0, <1>1, <2>2, BeginAlone DEF Setup
<1>2. ASSUME NEW t \in Threads, EndSet(t)
      PROVE  TwoWay' /\ Fresh' /\ Alone'
  <2>1. /\ calls \notin DOMAIN objs /\ calls' = calls
        /\ Body(call[t].addr, call[t].name, calls)
        /\ call' = [call EXCEPT ![t] = Idle]
    BY <1>0, <1>2 DEF EndSet, Fresh, Setting
  <2>2. TwoWay'
    BY <1>0, <2>1, BodyKeepsInverse
  <2>3. \A u \in Threads : call'[u] = Idle
    BY <1>0, <1>2, <2>1 DEF CallsTyped, Alone, EndSet, Setting
  <2>4. DOMAIN objs' \subseteq DOMAIN objs \cup {calls}
    BY <2>1 DEF Body, list, Erase, Replace, ObjsWithout, With, Restrict
  <2>5. Fresh'
    BY <1>0, <2>1, <2>3, <2>4, ThreadsAre DEF Fresh, Setting, CallsTyped
  <2>6. Alone'
    BY <2>3, ThreadsAre DEF Alone, Setting
  <2> QED
    BY <2>2, <2>5, <2>6
<1>3. CASE BeginRead
  <2>1. PICK c : c.op # "set" /\ Begin("gui", c)
    BY <1>3 DEF BeginRead
  <2>2. Alone'
    BY <1>0, <2>1, BeginAlone, ThreadsAre
  <2>3. UNCHANGED <<objs, byName, byAddr, calls>>
    BY <1>3, <2>1 DEF BeginRead, Begin, list
  <2>4. \A u \in Threads : Setting(u)' => Setting(u)
    BY <1>0, <2>1, ThreadsAre DEF Begin, Setting, CallsTyped
  <2> QED
    BY <1>0, <2>2, <2>3, <2>4 DEF TwoWay, Fresh
<1>4. CASE EndRead
  BY <1>0, <1>4, ThreadsAre DEF EndRead, TwoWay, Fresh, Alone, Setting, CallsTyped
<1>5. CASE Elsewhere \/ UNCHANGED vars
  BY <1>0, <1>5 DEF Elsewhere, vars, list, TwoWay, Fresh, Alone, Setting
<1> QED
  BY <1>0, <1>1, <1>2, <1>3, <1>4, <1>5, StepKinds

LEMMA InvInit == Init => IInv
<1> SUFFICES ASSUME Init
             PROVE  CallsTyped /\ TwoWay /\ Fresh /\ Alone
  BY DEF IInv
<1>1. call = [t \in Threads |-> Idle] /\ \A t \in Threads : call[t] = Idle
  BY DEF Init
<1>2. CallsTyped
  BY <1>1, ThreadsAre DEF Init, CallsTyped
<1>3. TwoWay
  BY DEF Init, TwoWay
<1>4. Fresh /\ Alone
  BY <1>1, ThreadsAre DEF Init, Fresh, Alone, Setting
<1> QED
  BY <1>2, <1>3, <1>4

LEMMA Invariant == Spec => []IInv
BY InvInit, InvStep, PTL DEF Spec

-----------------------------------------------------------------------------
(* Results *)

LEMMA MapsInverse == TwoWay => MapsAgree
<1> SUFFICES ASSUME TwoWay
             PROVE  MapsAgree
  OBVIOUS
<1>1. \A i \in DOMAIN objs : i \in Range(byName) /\ i \in Range(byAddr)
  BY DEF TwoWay, Range
<1>2. Range(byName) \subseteq DOMAIN objs /\ Range(byAddr) \subseteq DOMAIN objs
  BY DEF TwoWay, Range
<1> QED
  BY <1>1, <1>2 DEF TwoWay, MapsAgree

\* As long as nothing broke, the table of names and the table of addresses
\* hold the same symbols, each under its own name and its own address, which
\* are exactly those that exist (symlist.cpp:54).
THEOREM MapsStayInverse == Spec => [](~broken => MapsAgree)
<1>1. IInv => (~broken => MapsAgree)
  BY MapsInverse DEF IInv
<1> QED
  BY <1>1, Invariant, PTL

\* Seen from outside the list is one table on which every call of
\* set_symbol() has the effect of SetSymbol (symlist.cpp:54), whoever calls,
\* until two threads meet in it or a deleted symbol is used.
THEOREM SymbolListRefines == Spec => ImplementsTable
<1> DEFINE pending == [t \in Threads |->
                         IF call[t].op = "set" THEN <<call[t].addr, call[t].name>> ELSE <<>>]
<1>1. Init => Service!Init
  BY ThreadsAre DEF Init, Service!Init, Table
<1>2. ASSUME IInv, [Next]_vars
      PROVE  [Service!Next]_(Service!vars)
  <2>1. CASE broken'
    <3>1. broken' = TRUE
      BY <1>2, <2>1, TypeStep DEF IInv, CallsTyped
    <3> QED
      BY <3>1 DEF Service!Next, Service!Break
  <2> SUFFICES ASSUME ~broken'
               PROVE  [Service!Next]_(Service!vars)
    BY <2>1
  <2>2. CallsTyped /\ TwoWay /\ Fresh /\ Alone
    BY <1>2, BrokenStops DEF IInv, vars
  <2>3. UNCHANGED broken
    BY <1>2, <2>2, BrokenStops, TypeStep DEF CallsTyped, vars
  <2>4. ASSUME NEW t \in Threads, NEW a \in Addrs, NEW name \in Names \cup {NoName},
               Setup(t, a, name)
        PROVE  Service!Call(t, a, name)
    <3>1. /\ call[t].op # "set"
          /\ SetCall(a, name).op = "set"
          /\ SetCall(a, name).addr = a /\ SetCall(a, name).name = name
      BY <2>4, ThreadsAre DEF Setup, Begin, SetCall
    <3>2. call'[t] = SetCall(a, name) /\ \A u \in Threads \ {t} : call'[u] = call[u]
      BY <2>2, <2>4 DEF Setup, Begin, CallsTyped
    <3>3. pending[t] = <<>>
      BY <3>1
    <3>4. pending' = [pending EXCEPT ![t] = <<a, name>>]
      BY <3>1, <3>2
    <3>5. UNCHANGED Table
      BY <2>4 DEF Setup, Begin, list, Table
    <3> QED
      BY <2>3, <3>3, <3>4, <3>5 DEF Service!Call
  <2>5. ASSUME NEW t \in Threads, EndSet(t)
        PROVE  Service!Set(t)
    <3>1. /\ call[t].op = "set" /\ calls \notin DOMAIN objs
          /\ Body(call[t].addr, call[t].name, calls)
          /\ call'[t] = Idle /\ \A u \in Threads \ {t} : call'[u] = call[u]
      BY <2>2, <2>5 DEF EndSet, Fresh, Setting, CallsTyped
    <3>2. pending[t] = <<call[t].addr, call[t].name>>
      BY <3>1
    <3>3. pending[t] # <<>> /\ pending[t][1] = call[t].addr /\ pending[t][2] = call[t].name
      BY <3>2
    <3>4. pending' = [pending EXCEPT ![t] = <<>>]
      BY <3>1, ThreadsAre
    <3>5. Table' = SetSymbol(Table, call[t].addr, call[t].name)
      BY <2>2, <3>1, BodySets
    <3>6. Service!SetSymbol(Table, call[t].addr, call[t].name)
             = SetSymbol(Table, call[t].addr, call[t].name)
      BY DEF SetSymbol, Service!SetSymbol, InUse, Service!InUse, Without, Service!Without,
             With, Service!With, Restrict, Service!Restrict, Range, Service!Range,
             NoName, Service!NoName
    <3> QED
      BY <2>3, <3>3, <3>4, <3>5, <3>6 DEF Service!Set
  <2>6. CASE BeginRead \/ EndRead \/ Elsewhere \/ UNCHANGED vars
    <3>1. UNCHANGED <<objs, byAddr>>
      BY <2>6 DEF BeginRead, Begin, EndRead, Elsewhere, vars, list
    <3>2. \A t \in Threads : call'[t] = call[t] \/ (call'[t].op # "set" /\ call[t].op # "set")
      BY <2>2, <2>6, ThreadsAre DEF BeginRead, Begin, EndRead, Elsewhere, vars, CallsTyped
    <3>3. UNCHANGED pending
      BY <3>2
    <3> QED
      BY <2>3, <3>1, <3>3 DEF Service!vars, Table
  <2> QED
    BY <1>2, <2>2, <2>4, <2>5, <2>6, StepKinds DEF Service!Next
<1> QED
  BY <1>1, <1>2, Invariant, PTL DEF Spec, ImplementsTable, Service!Spec

-----------------------------------------------------------------------------
(* Sorting *)

LEMMA LeastNat ==
    ASSUME NEW D, D \subseteq Nat, D # {}
    PROVE  \E d \in D : \A e \in D : d <= e
<1>1. PICK d \in D : \A e \in D : ~(<<e, d>> \in OpToRel(<, Nat))
  BY WFMin, NatLessThanWellFounded
<1>2. ASSUME NEW e \in D PROVE d <= e
  <2>1. d \in Nat /\ e \in Nat
    OBVIOUS
  <2>2. ~(e < d)
    BY <1>1, <2>1 DEF OpToRel
  <2> QED
    BY <2>1, <2>2
<1> QED
  BY <1>2

\* s lists S in the order of a key.
InOrderOf(s, S, key) ==
    /\ s \in [1 .. Cardinality(S) -> S] /\ Range(s) = S
    /\ \A i, j \in 1 .. Cardinality(S) : i < j => key[s[i]] < key[s[j]]

\* A finite set whose elements have different keys can be listed: the one with
\* the least key, then the rest.
LEMMA OrderExists ==
    ASSUME NEW S, IsFiniteSet(S), NEW key \in [S -> Nat],
           \A x, y \in S : key[x] = key[y] => x = y
    PROVE  \E s : InOrderOf(s, S, key)
<1> DEFINE Good == {n \in Nat : \A R \in SUBSET S :
                        Cardinality(R) = n => \E s : InOrderOf(s, R, key)}
<1>2. 0 \in Good
  <2> SUFFICES ASSUME NEW R \in SUBSET S, Cardinality(R) = 0
               PROVE  \E s : InOrderOf(s, R, key)
    OBVIOUS
  <2>1. R = {}
    BY FS_Subset, FS_EmptySet
  <2>2. InOrderOf([i \in 1 .. 0 |-> 0], {}, key)
    BY FS_EmptySet DEF InOrderOf, Range
  <2> QED
    BY <2>1, <2>2
<1>3. ASSUME NEW n \in Good PROVE n + 1 \in Good
  <2> SUFFICES ASSUME NEW R \in SUBSET S, Cardinality(R) = n + 1
               PROVE  \E s : InOrderOf(s, R, key)
    OBVIOUS
  <2>1. IsFiniteSet(R)
    BY FS_Subset
  <2>2. PICK x \in R : \A y \in R : key[x] <= key[y]
    <3> DEFINE keys == {key[y] : y \in R}
    <3>1. keys \subseteq Nat /\ keys # {}
      BY <2>1, FS_EmptySet
    <3>2. PICK k \in keys : \A l \in keys : k <= l
      <4> HIDE DEF keys
      <4> QED
        BY <3>1, LeastNat
    <3> QED
      BY <3>2
  <2> DEFINE rest == R \ {x}
  <2>3. Cardinality(rest) = n /\ rest \in SUBSET S
    <3>1. Cardinality(rest) = Cardinality(R) - 1
      BY <2>1, <2>2, FS_RemoveElement
    <3>2. n \in Nat
      OBVIOUS
    <3> QED
      BY <3>1, <3>2
  <2>4. PICK t : InOrderOf(t, rest, key)
    BY <2>3
  <2> DEFINE s == [i \in 1 .. n + 1 |-> IF i = 1 THEN x ELSE t[i - 1]]
  <2>5. t \in [1 .. n -> rest] /\ Range(t) = rest
        /\ \A i, j \in 1 .. n : i < j => key[t[i]] < key[t[j]]
    BY <2>3, <2>4 DEF InOrderOf
  <2>6. \A i \in 2 .. n + 1 : i - 1 \in 1 .. n /\ s[i] = t[i - 1] /\ s[i] \in rest
    BY <2>5
  <2>7. s[1] = x /\ s \in [1 .. n + 1 -> R]
    BY <2>5, <2>6
  <2>8. Range(s) = R
    <3>1. ASSUME NEW y \in rest PROVE \E i \in 1 .. n + 1 : s[i] = y
      <4>1. PICK j \in 1 .. n : t[j] = y
        BY <2>5 DEF Range
      <4>2. j + 1 \in 2 .. n + 1 /\ (j + 1) - 1 = j
        OBVIOUS
      <4> QED
        BY <2>6, <4>1, <4>2, SMTT(60)
    <3>2. \A y \in R : \E i \in 1 .. n + 1 : s[i] = y
      BY <2>7, <3>1
    <3> QED
      BY <2>7, <3>2 DEF Range
  <2>9. ASSUME NEW i \in 1 .. n + 1, NEW j \in 1 .. n + 1, i < j
        PROVE  key[s[i]] < key[s[j]]
    <3>1. j \in 2 .. n + 1
      BY <2>9
    <3>2. CASE i = 1
      <4>1. key[x] <= key[s[j]] /\ s[j] # x /\ s[j] \in S /\ x \in S
        BY <2>2, <2>6, <3>1
      <4> QED
        BY <2>7, <3>2, <4>1
    <3>3. CASE i \in 2 .. n + 1
      <4>1. i - 1 < j - 1
        BY <2>9
      <4> QED
        BY <2>5, <2>6, <3>1, <3>3, <4>1
    <3> QED
      BY <3>2, <3>3
  <2> HIDE DEF s
  <2>10. InOrderOf(s, R, key)
    BY <2>7, <2>8, <2>9 DEF InOrderOf
  <2> QED
    BY <2>10
<1>4. Nat \subseteq Good
  <2> HIDE DEF Good
  <2> SUFFICES ASSUME Nat \ Good # {} PROVE FALSE
    OBVIOUS
  <2>1. PICK d \in Nat \ Good : \A e \in Nat \ Good : d <= e
    BY LeastNat
  <2>2. d # 0 /\ d - 1 \in Nat /\ (d - 1) + 1 = d
    BY <1>2, <2>1
  <2>3. d - 1 \in Good
    BY <2>1, <2>2
  <2> QED
    BY <1>3, <2>1, <2>2, <2>3
<1>5. Cardinality(S) \in Good
  BY <1>4, FS_CardinalityType
<1> QED
  BY <1>5

-----------------------------------------------------------------------------
(* The list that the user sees *)

\* s lists the symbols that exist, by name or by address.
Lists(s) == s \in [1 .. Cardinality(DOMAIN objs) -> DOMAIN objs] /\ Range(s) = DOMAIN objs

ByName(s) == Lists(s) /\ \A i, j \in DOMAIN s : i < j => NameBefore(s[i], s[j])
ByAddr(s) == Lists(s) /\ \A i, j \in DOMAIN s : i < j => AddrBefore(s[i], s[j])

ObjsTyped == \A i \in DOMAIN objs : objs[i].name \in Names /\ objs[i].addr \in Addrs

VectorsRight == ~dirty => ByName(nameOrder) /\ ByAddr(addrOrder)

ListInv == ~broken => ObjsTyped /\ VectorsRight

\* The vectors are what std::sort() is meant to make of the table of names.
LEMMA SortsRight ==
    ASSUME IInv, ~broken, ObjsTyped
    PROVE  ByName(Sorted(Range(byName), NameBefore)) /\ ByAddr(Sorted(Range(byName), AddrBefore))
<1>1. TwoWay /\ Fresh /\ calls \in Nat
  BY DEF IInv, CallsTyped
<1>2. Range(byName) = DOMAIN objs
  BY <1>1, MapsInverse DEF MapsAgree
<1>3. IsFiniteSet(DOMAIN objs)
  BY <1>1, FS_BoundedSetOfNaturals DEF Fresh
<1>4. \A name \in Names : Rank(name) \in Nat /\ Alphabet[Rank(name)] = name
  <2>1. DOMAIN Alphabet \subseteq Nat
    BY SymbolAssumption
  <2> QED
    BY <2>1 DEF Rank, Names, Range
<1>5. PICK s : ByName(s)
  <2> DEFINE key == [i \in DOMAIN objs |-> Rank(objs[i].name)]
  <2>1. key \in [DOMAIN objs -> Nat]
    BY <1>4 DEF ObjsTyped
  <2>2. \A x, y \in DOMAIN objs : key[x] = key[y] => x = y
    BY <1>1, <1>4 DEF ObjsTyped, TwoWay
  <2>3. \A x, y \in DOMAIN objs : NameBefore(x, y) <=> key[x] < key[y]
    BY DEF NameBefore
  <2> HIDE DEF key
  <2>4. PICK o : InOrderOf(o, DOMAIN objs, key)
    BY <1>3, <2>1, <2>2, OrderExists
  <2> QED
    BY <2>3, <2>4 DEF InOrderOf, ByName, Lists
<1>6. PICK t : ByAddr(t)
  <2> DEFINE key == [i \in DOMAIN objs |-> objs[i].addr]
  <2>1. key \in [DOMAIN objs -> Nat]
    BY SymbolAssumption DEF ObjsTyped
  <2>2. \A x, y \in DOMAIN objs : key[x] = key[y] => x = y
    BY <1>1 DEF TwoWay
  <2>3. \A x, y \in DOMAIN objs : AddrBefore(x, y) <=> key[x] < key[y]
    BY DEF AddrBefore
  <2> HIDE DEF key
  <2>4. PICK o : InOrderOf(o, DOMAIN objs, key)
    BY <1>3, <2>1, <2>2, OrderExists
  <2> QED
    BY <2>3, <2>4 DEF InOrderOf, ByAddr, Lists
<1>7. ByName(Sorted(Range(byName), NameBefore))
  BY <1>2, <1>5 DEF Sorted, ByName, Lists
<1>8. ByAddr(Sorted(Range(byName), AddrBefore))
  BY <1>2, <1>6 DEF Sorted, ByAddr, Lists
<1> QED
  BY <1>7, <1>8

LEMMA ListKinds ==
    ASSUME [Next]_vars
    PROVE  (\E t \in Threads : EndSet(t)) \/ UpdateDirtyVectors \/ UNCHANGED list
<1>1. CASE WorkerName \/ PythonName \/ SymbolGiven
  BY <1>1 DEF WorkerName, PythonName, SymbolGiven, BeginSet, Begin
<1>2. ASSUME NEW a, NEW kind, BeginDialog(a, kind)
      PROVE  UNCHANGED list
  BY <1>2 DEF BeginDialog, Begin
<1>3. CASE WorkerProperty \/ EndGet \/ CloseDialog \/ CommentGiven \/ Flush
  BY <1>3 DEF WorkerProperty, EndGet, CloseDialog, CommentGiven, Flush
<1>4. ASSUME NEW r, BeginRow(r)
      PROVE  UNCHANGED list
  BY <1>4 DEF BeginRow, Begin
<1>5. CASE EndRow
  BY <1>5 DEF EndRow
<1>6. CASE UNCHANGED vars
  BY <1>6 DEF vars
<1> QED
  BY <1>1, <1>2, <1>3, <1>4, <1>5, <1>6 DEF Next, BeginPaint, BeginGoTo

LEMMA ListStep == IInv /\ ListInv /\ [Next]_vars => ListInv'
<1> SUFFICES ASSUME IInv, ListInv, [Next]_vars, ~broken'
             PROVE  ObjsTyped' /\ VectorsRight'
  BY DEF ListInv
<1>1. ~broken /\ ObjsTyped /\ VectorsRight
  BY BrokenStops DEF ListInv, vars
<1>2. CASE UNCHANGED list
  BY <1>1, <1>2 DEF list, ObjsTyped, VectorsRight, ByName, ByAddr, Lists, NameBefore, AddrBefore
<1>3. CASE UpdateDirtyVectors
  <2>1. CASE dirty
    <3>1. /\ nameOrder' = Sorted(Range(byName), NameBefore)
          /\ addrOrder' = Sorted(Range(byName), AddrBefore) /\ objs' = objs
      BY <1>3, <2>1 DEF UpdateDirtyVectors
    <3>2. ByName(nameOrder') /\ ByAddr(addrOrder')
      BY <1>1, <3>1, SortsRight
    <3> QED
      BY <1>1, <3>1, <3>2
         DEF ObjsTyped, VectorsRight, ByName, ByAddr, Lists, NameBefore, AddrBefore
  <2> QED
    BY <1>2, <1>3, <2>1 DEF UpdateDirtyVectors
<1>4. ASSUME NEW t \in Threads, EndSet(t)
      PROVE  ObjsTyped' /\ VectorsRight'
  <2> DEFINE a == call[t].addr
             name == call[t].name
  <2>1. a \in Addrs /\ name \in Names \cup {NoName} /\ Body(a, name, calls)
    BY <1>4 DEF EndSet, IInv, CallsTyped
  <2> HIDE DEF a, name
  <2>2. CASE name \notin DOMAIN byName
    <3>1. dirty' = TRUE
      BY <2>1, <2>2 DEF Body, DirtyAfter
    <3>2. ObjsTyped'
      <4>1. CASE name = NoName
        BY <1>1, <2>1, <2>2, <4>1 DEF Body, Erase, ObjsWithout, Restrict, ObjsTyped
      <4>2. CASE name # NoName
        <5>1. objs' = With(ObjsWithout(a), calls, [addr |-> a, name |-> name])
          BY <2>1, <2>2, <4>2 DEF Body, Replace
        <5>2. name \in Names
          BY <2>1, <4>2
        <5> QED
          BY <1>1, <2>1, <5>1, <5>2 DEF With, ObjsWithout, Restrict, ObjsTyped
      <4> QED
        BY <4>1, <4>2
    <3> QED
      BY <3>1, <3>2 DEF VectorsRight
  <2> QED
    BY <1>2, <2>1, <2>2 DEF Body
<1> QED
  BY <1>2, <1>3, <1>4, ListKinds

\* The list that the user sees, once it is up to date, is that of all symbols
\* that exist, each once and in order (symlist.cpp:162), whatever has replaced
\* or erased what since it was sorted last.
THEOREM ListTheorem == Spec => []ListShowsTable
<1>1. Init => ListInv
  <2> SUFFICES ASSUME Init PROVE ObjsTyped /\ VectorsRight
    BY DEF ListInv
  <2>1. DOMAIN objs = {} /\ nameOrder = [i \in 1 .. 0 |-> 0] /\ addrOrder = [i \in 1 .. 0 |-> 0]
    BY DEF Init
  <2> QED
    BY <2>1, FS_EmptySet DEF ObjsTyped, VectorsRight, ByName, ByAddr, Lists, Range
<1>2. IInv /\ ListInv => ListShowsTable
  <2> SUFFICES ASSUME IInv, ListInv, ~broken PROVE ListShowsTable
    BY DEF ListShowsTable
  <2>1. MapsAgree
    BY MapsInverse DEF IInv
  <2>2. Cardinality(DOMAIN objs) \in Nat
    BY FS_BoundedSetOfNaturals, FS_CardinalityType DEF IInv, Fresh, CallsTyped
  <2>3. ASSUME ~dirty
        PROVE  /\ ByName(nameOrder) /\ ByAddr(addrOrder)
               /\ Len(nameOrder) = Cardinality(DOMAIN objs)
               /\ Len(addrOrder) = Cardinality(DOMAIN objs)
               /\ DOMAIN nameOrder = DOMAIN addrOrder
    <3>1. ByName(nameOrder) /\ ByAddr(addrOrder)
      BY <2>3 DEF ListInv, VectorsRight
    <3> QED
      BY <2>2, <3>1 DEF ByName, ByAddr, Lists
  <2> QED
    BY <2>1, <2>3 DEF ListShowsTable, ByName, ByAddr, Lists
<1> QED
  BY <1>1, <1>2, ListStep, Invariant, PTL DEF Spec
=============================================================================
