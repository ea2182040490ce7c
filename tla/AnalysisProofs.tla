--------------------------- MODULE AnalysisProofs ---------------------------
(***************************************************************************)
(* Theorems about Analysis, for every memory, whatever it decodes to and   *)
(* however often the user interferes.  TypeInv adds to the types the       *)
(* values that the step in progress goes by; the properties add what it    *)
(* knows from its look-up (NamingSpares, Removing) and what the queue and  *)
(* the worker still have to do (NoLooseEnds, FlowsPending, NamedSoFar).    *)
(***************************************************************************)
EXTENDS Analysis, SequenceTheorems, TLAPS

-----------------------------------------------------------------------------
(* Memlocs *)

Memlocs == [kind : {"insn", "data"}, len : Nat \ {0}, explicit : BOOLEAN, fnent : BOOLEAN]

DecodesAt(a) == a \in Mem /\ Decode[a] # NoInsn

MemlocsTyped(m) ==
  \A a \in DOMAIN m : /\ a \in Int /\ m[a] \in Memlocs
                      /\ m[a].kind = "insn" => DecodesAt(a)

\* No instruction of m2 that is not one of m, none explicit that is not in m.
NoneNew(m, m2) ==
  \A p \in DOMAIN m2 :
    m2[p].kind = "insn" => /\ p \in DOMAIN m /\ m[p].kind = "insn"
                           /\ m2[p].explicit => m[p].explicit

LEMMA InsertedMemlocs ==
  ASSUME NEW m, MemlocsTyped(m), NEW a \in Int, NEW k \in {"insn", "data"},
         k = "insn" => DecodesAt(a), NEW n \in Nat \ {0}
  PROVE  /\ MemlocsTyped(Inserted(m, a, k, n))
         /\ k = "data" => NoneNew(m, Inserted(m, a, k, n))
         /\ \A p \in DOMAIN Inserted(m, a, k, n) :
              p # a => p \in DOMAIN m /\ Inserted(m, a, k, n)[p] = m[p]
         /\ Throws(m, a, n) => a \notin DOMAIN Inserted(m, a, k, n)
<1> DEFINE new == Inserted(m, a, k, n)
<1>1. Memloc(k, n) \in Memlocs /\ Memloc(k, n).kind = k
  BY DEF Memloc, Memlocs
<1>3. \A p \in DOMAIN Cleared(m, a, n) : p \in DOMAIN m /\ p # a /\ Cleared(m, a, n)[p] = m[p]
  BY DEF Cleared, Erased
<1>4. CASE Throws(m, a, n)
  <2>1. new = Cleared(m, a, n)
    BY <1>4 DEF Inserted
  <2> QED
    BY <1>3, <2>1 DEF MemlocsTyped, NoneNew
<1>5. CASE ~Throws(m, a, n)
  <2>1. /\ DOMAIN new = DOMAIN Cleared(m, a, n) \cup {a}
        /\ new[a] = Memloc(k, n)
        /\ \A p \in DOMAIN Cleared(m, a, n) : new[p] = m[p] /\ p \in DOMAIN m /\ p # a
    BY <1>3, <1>5 DEF Inserted
  <2> HIDE DEF new
  <2>2. MemlocsTyped(new)
    BY <1>1, <2>1 DEF MemlocsTyped
  <2>3. k = "data" => NoneNew(m, new)
    BY <1>1, <2>1 DEF NoneNew
  <2>4. \A p \in DOMAIN new : p # a => p \in DOMAIN m /\ new[p] = m[p]
    BY <2>1
  <2> QED
    BY <1>5, <2>2, <2>3, <2>4 DEF new
<1> QED
  BY <1>4, <1>5

LEMMA EnteredMemlocs ==
  ASSUME NEW m, MemlocsTyped(m), NEW a
  PROVE  MemlocsTyped(Entered(m, a)) /\ NoneNew(m, Entered(m, a))
<1>1. CASE a \in DOMAIN m /\ m[a].kind = "insn"
  <2> DEFINE new == [m EXCEPT ![a].fnent = TRUE]
  <2>1. /\ DOMAIN new = DOMAIN m /\ \A p \in DOMAIN m : p # a => new[p] = m[p]
        /\ new[a] = [m[a] EXCEPT !.fnent = TRUE]
    BY <1>1
  <2>2. /\ new[a] \in Memlocs
        /\ new[a].kind = m[a].kind /\ new[a].explicit = m[a].explicit
    BY <1>1, <2>1 DEF MemlocsTyped, Memlocs
  <2>3. Entered(m, a) = new
    BY <1>1 DEF Entered
  <2> HIDE DEF new
  <2> QED
    BY <2>1, <2>2, <2>3 DEF MemlocsTyped, NoneNew
<1>2. CASE ~(a \in DOMAIN m /\ m[a].kind = "insn")
  BY <1>2 DEF Entered, NoneNew
<1> QED
  BY <1>1, <1>2

LEMMA MarkedMemlocs ==
  ASSUME MemlocsTyped(memlocs), NEW a
  PROVE  /\ MemlocsTyped(Marked(memlocs, a))
         /\ \A p \in DOMAIN Marked(memlocs, a) :
              p \in Defined /\ Marked(memlocs, a)[p].kind = memlocs[p].kind
<1>1. CASE first /\ IsInsn(a)
  <2> DEFINE new == [memlocs EXCEPT ![a].explicit = TRUE]
  <2>1. /\ DOMAIN new = Defined /\ \A p \in Defined : p # a => new[p] = memlocs[p]
        /\ new[a] = [memlocs[a] EXCEPT !.explicit = TRUE]
    BY <1>1 DEF IsInsn, Defined
  <2>2. new[a] \in Memlocs /\ new[a].kind = memlocs[a].kind
    BY <1>1, <2>1 DEF MemlocsTyped, Memlocs, IsInsn, Defined
  <2>3. Marked(memlocs, a) = new
    BY <1>1 DEF Marked
  <2> HIDE DEF new
  <2> QED
    BY <2>1, <2>2, <2>3 DEF MemlocsTyped, Defined
<1>2. CASE ~(first /\ IsInsn(a))
  BY <1>2 DEF Marked, Defined
<1> QED
  BY <1>1, <1>2

-----------------------------------------------------------------------------
(* Types *)

\* While an undefinition goes on, its start goes back on the stack.
Undefining == pc \in {"undefine", "remove"} => job.kind = "undefine"

LEMMA Decoded ==
  ASSUME NEW a, DecodesAt(a)
  PROVE  /\ a \in Int /\ Decode[a] \in Insns
         /\ Decode[a].continues \in BOOLEAN /\ Decode[a].links \in BOOLEAN
         /\ Decode[a].target \in Int \cup {NoAddr} /\ Decode[a].dref \in Int \cup {NoAddr}
         /\ Decode[a].dlen \in Nat \ {0}
<1>1. a \in Int /\ Decode[a] \in Insns
  BY AnalysisAssumption DEF DecodesAt, Insns
<1> QED
  BY <1>1, AnalysisAssumption

LEMMA JobsAre ==
  /\ \A a \in Starts : Flow(a) \in Jobs /\ Undefine(a) \in Jobs
  /\ \A i \in Insns : i.target # NoAddr => Flow(i.target) \in Jobs
  /\ Symbols \in Jobs
  /\ \A j \in Jobs : /\ j.kind \in {"flow", "undefine", "symbols"}
                     /\ j.start \in Int \cup {NoAddr}
                     /\ j.kind = "undefine" => j.start \in Int
                     /\ j.kind = "symbols" <=> j = Symbols
<1>1. Targets \subseteq Int /\ Starts \subseteq Int
  BY AnalysisAssumption DEF Targets
<1>2. \A a : /\ Flow(a).kind = "flow" /\ Flow(a).start = a
             /\ Undefine(a).kind = "undefine" /\ Undefine(a).start = a
  BY DEF Flow, Undefine
<1>3. Symbols.kind = "symbols" /\ Symbols.start = NoAddr
  BY DEF Symbols
<1>4. \A i \in Insns : i.target # NoAddr => i.target \in Targets
  BY DEF Targets
<1> QED
  BY <1>1, <1>2, <1>3, <1>4 DEF Jobs

XrefsTyped ==
  \A x \in xrefs : x.src \in Mem /\ x.dst \in Int /\ x.type \in {"call", "jump", "data"}

ProjectTyped ==
  MemlocsTyped(memlocs) /\ XrefsTyped /\ symbols \in [Mem -> SymbolNames]

ControlTyped ==
  /\ queue \in [Jobs -> Nat]
  /\ pc \in {"idle", "flow", "insert", "jump", "data", "submit", "undefine",
             "remove", "symbols", "name"}
  /\ job \in Jobs
  /\ addr \in Int \cup {NoAddr}
  /\ pc \in {"insert", "jump", "data", "submit"} => DecodesAt(addr)
  /\ pc \in {"remove", "name"} => addr \in Mem
  /\ first \in BOOLEAN
  /\ stack \in Seq(Int)
  /\ name \in SymbolNames
  /\ lost \in BOOLEAN

UserTyped == gui \in Starts \cup {NoAddr} /\ commands \in 0 .. MaxCommands

TypeInv == ProjectTyped /\ ControlTyped /\ UserTyped /\ Undefining

LEMMA TypeInvIsTypeOK == TypeInv => TypeOK
BY DEF TypeInv, TypeOK, ProjectTyped, XrefsTyped, ControlTyped, UserTyped, MemlocsTyped,
       Memlocs, DecodesAt, IsInsn, Defined

LEMMA NewXref ==
  ASSUME XrefsTyped, NEW s \in Mem, NEW d \in Int, NEW t \in {"call", "jump", "data"},
         xrefs' = WithXref(s, d, t)
  PROVE  XrefsTyped'
<1> DEFINE x == [src |-> s, dst |-> d, type |-> t]
<1>1. x.src = s /\ x.dst = d /\ x.type = t
  OBVIOUS
<1>2. xrefs' \subseteq xrefs \cup {x}
  BY DEF WithXref
<1> HIDE DEF x
<1> QED
  BY <1>1, <1>2 DEF XrefsTyped

LEMMA SubmittedTyped ==
  ASSUME NEW q \in [Jobs -> Nat], NEW j \in Jobs
  PROVE  Submitted(q, j) \in [Jobs -> Nat]
BY DEF Submitted

LEMMA FlowTypes ==
  ASSUME TypeInv, FlowLook \/ FlowInsert \/ FlowJump \/ FlowData \/ FlowSubmit
  PROVE  TypeInv'
<1> USE DEF TypeInv, ProjectTyped, ControlTyped, UserTyped, Undefining, project, local, user
<1>1. CASE FlowLook
  BY <1>1 DEF FlowLook, MayDecode, Finish, DecodesAt, XrefsTyped
<1>2. CASE FlowInsert
  <2>1. addr \in Int /\ InsnLen \in Nat \ {0}
    BY <1>2, Decoded, AnalysisAssumption DEF FlowInsert
  <2>2. MemlocsTyped(memlocs')
    BY <1>2, <2>1, InsertedMemlocs DEF FlowInsert
  <2> QED
    BY <1>2, <2>2 DEF FlowInsert, Finish, XrefsTyped
<1>3. CASE FlowJump
  <2> DEFINE i == Decode[addr]
             type == IF i.links THEN "call" ELSE "jump"
  <2>1. DecodesAt(addr)
    BY <1>3 DEF FlowJump
  <2>2. MemlocsTyped(memlocs')
    BY <1>3, EnteredMemlocs DEF FlowJump
  <2>3. CASE xrefs' = WithXref(addr, i.target, type) /\ i.target # NoAddr
    <3>1. i.target \in Int /\ addr \in Mem /\ type \in {"call", "jump", "data"}
      BY <2>1, <2>3, Decoded DEF DecodesAt
    <3>2. XrefsTyped'
      BY <2>3, <3>1, NewXref
    <3> QED
      BY <1>3, <2>2, <3>2 DEF FlowJump
  <2>4. CASE UNCHANGED xrefs
    BY <1>3, <2>2, <2>4 DEF FlowJump, XrefsTyped
  <2> QED
    BY <1>3, <2>3, <2>4 DEF FlowJump
<1>4. CASE FlowData
  <2> DEFINE i == Decode[addr]
  <2>1. DecodesAt(addr)
    BY <1>4 DEF FlowData
  <2>2. CASE i.dref # NoAddr /\ addr \in Defined
    <3>1. i.dref \in Int /\ addr \in Mem /\ i.dlen \in Nat \ {0}
      BY <2>1, <2>2, Decoded DEF DecodesAt
    <3>2. XrefsTyped'
      BY <1>4, <2>2, <3>1, NewXref DEF FlowData
    <3>3. MemlocsTyped(memlocs')
      <4>1. MemlocsTyped(Inserted(memlocs, i.dref, "data", i.dlen))
        BY <3>1, InsertedMemlocs
      <4>2. memlocs' \in {Inserted(memlocs, i.dref, "data", i.dlen), memlocs}
        BY <1>4, <2>2 DEF FlowData
      <4> QED
        BY <4>1, <4>2
    <3> QED
      BY <1>4, <2>2, <3>2, <3>3 DEF FlowData, Finish
  <2>3. CASE ~(i.dref # NoAddr /\ addr \in Defined)
    BY <1>4, <2>3 DEF FlowData, XrefsTyped
  <2> QED
    BY <2>2, <2>3
<1>5. CASE FlowSubmit
  <2> DEFINE i == Decode[addr]
  <2>1. DecodesAt(addr)
    BY <1>5 DEF FlowSubmit
  <2>2. MemlocsTyped(memlocs')
    BY <1>5, MarkedMemlocs DEF FlowSubmit
  <2>3. queue' \in [Jobs -> Nat]
    <3>1. CASE IsDirect(i)
      <4>1. Flow(i.target) \in Jobs
        BY <2>1, <3>1, Decoded, JobsAre DEF IsDirect
      <4> QED
        BY <1>5, <3>1, <4>1, SubmittedTyped DEF FlowSubmit
    <3> QED
      BY <1>5, <3>1 DEF FlowSubmit
  <2>4. addr' \in Int
    BY <1>5, <2>1, Decoded, AnalysisAssumption DEF FlowSubmit
  <2> QED
    BY <1>5, <2>2, <2>3, <2>4 DEF FlowSubmit, Finish, XrefsTyped
<1> QED
  BY <1>1, <1>2, <1>3, <1>4, <1>5

LEMMA UndefineTypes ==
  ASSUME TypeInv, UndefinePop \/ UndefineRemove \/ UndefineEnd
  PROVE  TypeInv'
<1> USE DEF TypeInv, ProjectTyped, ControlTyped, UserTyped, Undefining, project, local, user
<1>1. CASE UndefinePop
  <2> DEFINE a == Head(stack)
  <2>1. a \in Int /\ Tail(stack) \in Seq(Int)
    BY <1>1, HeadTailProperties DEF UndefinePop
  <2>2. CASE stack' = Tail(stack) /\ UNCHANGED <<pc, addr>>
    BY <1>1, <2>1, <2>2 DEF UndefinePop, XrefsTyped
  <2>3. CASE /\ a \in Mem /\ addr' = a /\ pc' = "remove"
             /\ stack' = <<job.start>> \o Following(a) \o Tail(stack)
    <3>1. job.start \in Int
      BY <1>1, JobsAre DEF UndefinePop
    <3>2. Following(a) \in Seq(Int)
      BY <2>1, AnalysisAssumption DEF Following
    <3>3. <<job.start>> \in Seq(Int)
      BY <3>1
    <3>4. stack' \in Seq(Int)
      BY <2>1, <2>3, <3>2, <3>3, ConcatProperties
    <3> QED
      BY <1>1, <2>1, <2>3, <3>4 DEF UndefinePop, XrefsTyped
  <2> QED
    BY <1>1, <2>2, <2>3 DEF UndefinePop
<1>2. CASE UndefineRemove
  <2>1. MemlocsTyped(memlocs')
    BY <1>2 DEF UndefineRemove, MemlocsTyped, Defined
  <2> QED
    BY <1>2, <2>1 DEF UndefineRemove, XrefsTyped
<1>3. CASE UndefineEnd
  BY <1>3 DEF UndefineEnd, Finish, XrefsTyped
<1> QED
  BY <1>1, <1>2, <1>3

LEMMA NameTypes ==
  ASSUME TypeInv, NameLook \/ NameCreate \/ NameEnd
  PROVE  TypeInv'
<1> USE DEF TypeInv, ProjectTyped, ControlTyped, UserTyped, Undefining, project, local, user
<1>1. CASE NameLook
  <2>1. PICK a \in NextOnes :
          /\ addr' = a
          /\ \/ pc' = "symbols" /\ name' = name
             \/ pc' = "idle" /\ name' = name
             \/ a \in Mem /\ pc' = "name" /\ name' = NameOf(a)
    BY <1>1 DEF NameLook, Finish
  <2>2. a \in Int
    BY <2>1 DEF NextOnes, Ahead, Defined, MemlocsTyped
  <2>3. NameOf(a) \in SymbolNames
    BY DEF NameOf, SymbolNames
  <2> QED
    BY <1>1, <2>1, <2>2, <2>3 DEF NameLook, XrefsTyped
<1>2. CASE NameCreate
  <2>1. symbols' \in [Mem -> SymbolNames]
    BY <1>2 DEF NameCreate
  <2> QED
    BY <1>2, <2>1 DEF NameCreate, XrefsTyped
<1>3. CASE NameEnd
  BY <1>3 DEF NameEnd, Finish, XrefsTyped
<1> QED
  BY <1>1, <1>2, <1>3

LEMMA BeginTypes ==
  ASSUME TypeInv, NEW j \in Jobs, Begin(j)
  PROVE  TypeInv'
<1> USE DEF TypeInv, ProjectTyped, ControlTyped, UserTyped, Undefining, project, user
<1>1. queue' \in [Jobs -> Nat]
  BY DEF Begin, IsTop, Queued
<1>2. stack' \in Seq(Int)
  <2>1. CASE j.kind = "undefine"
    <3>1. <<j.start>> \in Seq(Int)
      BY <2>1, JobsAre
    <3> QED
      BY <2>1, <3>1 DEF Begin
  <2>2. CASE j.kind # "undefine"
    BY <2>2, EmptySeq DEF Begin
  <2> QED
    BY <2>1, <2>2
<1>3. pc' = j.kind /\ j.kind \in {"flow", "undefine", "symbols"} /\ addr' \in Int \cup {NoAddr}
  BY JobsAre DEF Begin
<1>4. name' \in SymbolNames /\ first' = TRUE /\ lost' = FALSE /\ job' = j
  BY DEF Begin, SymbolNames
<1>5. UserTyped' /\ ProjectTyped'
  BY DEF Begin, XrefsTyped
<1> QED
  BY <1>1, <1>2, <1>3, <1>4, <1>5

LEMMA UserTypes ==
  ASSUME TypeInv, UserStep
  PROVE  TypeInv'
<1> USE DEF TypeInv, ProjectTyped, ControlTyped, UserTyped, Undefining, project, local, worker, Command
<1>0. \A a \in Starts : a \in Int /\ a \in Mem
  BY AnalysisAssumption
<1>c. Command => commands' \in 0 .. MaxCommands
  BY AnalysisAssumption
<1>1. ASSUME NEW a \in Starts, UserAnalyze(a) \/ UserUndefine(a)
      PROVE  TypeInv'
  <2>1. queue' \in [Jobs -> Nat]
    BY <1>1, JobsAre, SubmittedTyped, SMTT(60) DEF UserAnalyze, UserUndefine
  <2> QED
    BY <1>1, <1>c, <2>1 DEF UserAnalyze, UserUndefine, XrefsTyped
<1>2. CASE UserAnalyzeSymbols
  <2>1. queue' \in [Jobs -> Nat]
    <3>1. Symbols \in Jobs /\ queue' = Submitted(queue, Symbols)
      BY <1>2, JobsAre DEF UserAnalyzeSymbols
    <3> QED
      BY <3>1, SubmittedTyped
  <2> QED
    BY <1>2, <2>1 DEF UserAnalyzeSymbols, XrefsTyped
<1>3. ASSUME NEW a \in Starts, NEW n \in {1, InsnLen}, UserDefine(a, n)
      PROVE  TypeInv'
  <2>1. MemlocsTyped(memlocs')
    BY <1>0, <1>3, AnalysisAssumption, InsertedMemlocs DEF UserDefine
  <2>2. lost' \in BOOLEAN
    BY <1>3 DEF UserDefine
  <2> QED
    BY <1>3, <1>c, <2>1, <2>2 DEF UserDefine, XrefsTyped
<1>4. ASSUME NEW a \in Starts, NEW s \in {"user", "none"}, UserName(a, s)
      PROVE  TypeInv'
  <2>1. symbols' \in [Mem -> SymbolNames]
    BY <1>0, <1>4 DEF UserName, SymbolNames
  <2> QED
    BY <1>4, <1>c, <2>1 DEF UserName, XrefsTyped
<1> QED
  BY <1>1, <1>2, <1>3, <1>4 DEF UserStep

LEMMA TypeStep == TypeInv /\ [Next]_vars => TypeInv'
<1>1. TypeInv /\ UNCHANGED vars => TypeInv'
  BY DEF TypeInv, ProjectTyped, XrefsTyped, ControlTyped, UserTyped, Undefining,
         vars, project, worker, local, user
<1> QED
  BY <1>1, FlowTypes, UndefineTypes, NameTypes, BeginTypes, UserTypes DEF Next, WorkerStep

LEMMA TypeInit == Init => TypeInv
<1> SUFFICES ASSUME Init
             PROVE  ProjectTyped /\ ControlTyped /\ UserTyped /\ Undefining
  BY DEF TypeInv
<1>1. ProjectTyped
  BY DEF Init, ProjectTyped, MemlocsTyped, XrefsTyped, SymbolNames
<1>2. ControlTyped
  BY JobsAre, EmptySeq DEF Init, ControlTyped, SymbolNames
<1>3. UserTyped /\ Undefining
  BY AnalysisAssumption DEF Init, UserTyped, Undefining
<1> QED
  BY <1>1, <1>2, <1>3

LEMMA TypeInvariant == Spec => []TypeInv
BY TypeInit, TypeStep, PTL DEF Spec

\* The memlocs are entered at integers, instructions only where something
\* decodes, and every control variable has the type its use assumes.
THEOREM AnalysisTypes == Spec => []TypeOK
BY TypeInvariant, TypeInvIsTypeOK, PTL

-----------------------------------------------------------------------------
(* The user's symbols *)

\* The name that the analysis is about to give is for an address that has none
\* of the user's, or one that came after the look at it.
NamingSpares ==
  /\ named \subseteq Mem
  /\ pc = "name" /\ addr \in named => addr \in raced

\* The symbol analysis never replaces a symbol of the user's that was there when
\* it looked at the address (symbol_analysis.cpp:77): between the look and
\* create_sym() only the user names anything.
THEOREM AnalysisKeepsUserSymbols == Spec => []UserSymbolsKept
<1> DEFINE Inv == UserSymbolsKept /\ NamingSpares
<1>1. Init => Inv
  BY DEF Init, UserSymbolsKept, NamingSpares
<1>2. TypeInv /\ Inv /\ [Next]_vars => Inv'
  <2> SUFFICES ASSUME TypeInv, Inv, [Next]_vars
               PROVE  Inv'
    OBVIOUS
  <2> USE DEF UserSymbolsKept, NamingSpares
  <2>1. symbols \in [Mem -> SymbolNames]
    BY DEF TypeInv, ProjectTyped
  <2>2. CASE UNCHANGED vars
    BY <2>2 DEF vars, project, worker, local, history
  <2>3. ASSUME NEW j \in Jobs, Begin(j)
        PROVE  Inv'
    BY <2>3, JobsAre DEF Begin, project
  <2>4. CASE \/ FlowLook \/ FlowInsert \/ FlowJump \/ FlowData \/ FlowSubmit
             \/ UndefinePop \/ UndefineRemove \/ UndefineEnd \/ NameEnd
    <3>1. pc' # "name" /\ UNCHANGED <<symbols, named, raced>>
      BY <2>4 DEF FlowLook, FlowInsert, FlowJump, FlowData, FlowSubmit, UndefinePop,
                  UndefineRemove, UndefineEnd, NameEnd, Finish, project, history
    <3> QED
      BY <3>1
  <2>5. CASE NameLook
    <3>1. UNCHANGED <<symbols, named, raced>> /\ (pc' = "name" => symbols[addr'] # "user")
      BY <2>5 DEF NameLook, NeedsName, Finish, project
    <3> QED
      BY <3>1
  <2>6. CASE NameCreate
    BY <2>1, <2>6 DEF NameCreate, history
  <2>7. ASSUME NEW a \in Starts, NEW s \in {"user", "none"}, UserName(a, s)
        PROVE  Inv'
    <3>1. a \in Mem
      BY AnalysisAssumption
    <3>2. symbols'[a] = s /\ \A b \in Mem \ {a} : symbols'[b] = symbols[b]
      BY <2>1, <2>7, <3>1 DEF UserName
    <3> QED
      BY <2>7, <3>1, <3>2 DEF UserName, worker, local
  <2>8. CASE UserAnalyzeSymbols \/ \E a \in Starts : UserAnalyze(a) \/ UserUndefine(a)
    BY <2>8 DEF UserAnalyze, UserUndefine, UserAnalyzeSymbols, project, worker, local, history
  <2>9. ASSUME NEW a \in Starts, NEW n, UserDefine(a, n)
        PROVE  Inv'
    BY <2>9 DEF UserDefine, local
  <2> QED
    BY <2>2, <2>3, <2>4, <2>5, <2>6, <2>7, <2>8, <2>9 DEF Next, WorkerStep, UserStep
<1> QED
  BY <1>1, <1>2, TypeInvariant, PTL DEF Spec

-----------------------------------------------------------------------------
(* Cross references *)

\* Steps add instructions at one place only, and take no reference away.
LEMMA NewInsns ==
  ASSUME TypeInv, [Next]_vars
  PROVE  /\ xrefs \subseteq xrefs'
         /\ \A p \in DOMAIN memlocs' :
              memlocs'[p].kind = "insn" =>
                \/ p \in Defined /\ memlocs[p].kind = "insn"
                \/ pc' = "jump" /\ addr' = p
<1> DEFINE Kept(m) == \A p \in DOMAIN m :
                        m[p].kind = "insn" => p \in Defined /\ memlocs[p].kind = "insn"
<1>0. MemlocsTyped(memlocs) /\ Kept(memlocs)
  BY DEF TypeInv, ProjectTyped, Defined
<1>1. \A m : NoneNew(memlocs, m) => Kept(m)
  BY DEF NoneNew, Defined
<1>2. \A s, d, t : xrefs \subseteq WithXref(s, d, t)
  BY DEF WithXref
<1>3. CASE FlowInsert
  <2>1. /\ DecodesAt(addr) /\ addr \in Int /\ InsnLen \in Nat \ {0}
        /\ UNCHANGED <<xrefs, addr>>
        /\ memlocs' = Inserted(memlocs, addr, "insn", InsnLen)
        /\ Throws(memlocs, addr, InsnLen) \/ pc' = "jump"
    BY <1>3, Decoded, AnalysisAssumption DEF FlowInsert, TypeInv, ControlTyped, local
  <2>2. \A p \in DOMAIN memlocs' : p # addr => p \in Defined /\ memlocs'[p] = memlocs[p]
    BY <1>0, <2>1, InsertedMemlocs DEF Defined
  <2>3. Throws(memlocs, addr, InsnLen) => addr \notin DOMAIN memlocs'
    BY <1>0, <2>1, InsertedMemlocs
  <2> QED
    BY <2>1, <2>2, <2>3
<1>4. CASE FlowJump
  <2>1. memlocs' \in {Entered(memlocs, Decode[addr].target), memlocs}
    BY <1>4 DEF FlowJump
  <2> QED
    BY <1>0, <1>1, <1>2, <1>4, <2>1, EnteredMemlocs DEF FlowJump
<1>5. CASE FlowData
  <2> DEFINE i == Decode[addr]
  <2>1. DecodesAt(addr)
    BY <1>5 DEF FlowData, TypeInv, ControlTyped
  <2>2. \/ memlocs' = memlocs
        \/ i.dref # NoAddr /\ memlocs' = Inserted(memlocs, i.dref, "data", i.dlen)
    BY <1>5 DEF FlowData
  <2>3. Kept(memlocs')
    BY <1>0, <1>1, <2>1, <2>2, Decoded, InsertedMemlocs
  <2> QED
    BY <1>2, <1>5, <2>3 DEF FlowData
<1>6. CASE FlowSubmit
  BY <1>0, <1>6, MarkedMemlocs DEF FlowSubmit
<1>7. CASE UndefineRemove
  BY <1>0, <1>7 DEF UndefineRemove, Defined
<1>8. ASSUME NEW a \in Starts, NEW n \in {1, InsnLen}, UserDefine(a, n)
      PROVE  Kept(memlocs') /\ UNCHANGED xrefs
  <2>1. a \in Int /\ n \in Nat \ {0}
    BY AnalysisAssumption
  <2> QED
    BY <1>0, <1>1, <1>8, <2>1, InsertedMemlocs DEF UserDefine
<1>9. CASE UNCHANGED <<memlocs, xrefs>>
  BY <1>0, <1>9
<1>10. CASE \/ FlowLook \/ UndefinePop \/ UndefineEnd \/ NameLook \/ NameCreate \/ NameEnd
            \/ UNCHANGED vars \/ UserAnalyzeSymbols \/ \E j \in Jobs : Begin(j)
            \/ \E a \in Starts : \/ UserAnalyze(a) \/ UserUndefine(a)
                               \/ \E s \in {"user", "none"} : UserName(a, s)
  <2>1. UNCHANGED <<memlocs, xrefs>>
    BY <1>10 DEF FlowLook, UndefinePop, UndefineEnd, NameLook, NameCreate, NameEnd, vars, Begin,
                 UserAnalyzeSymbols, UserAnalyze, UserUndefine, UserName, project
  <2> QED
    BY <1>9, <2>1
<1> QED
  BY <1>3, <1>4, <1>5, <1>6, <1>7, <1>8, <1>10 DEF Next, WorkerStep, UserStep

\* Every branch of the table has its cross reference once the call that created
\* it is over (memorybackedprojectmodel.cpp), whatever was erased, removed or
\* defined over meanwhile.
THEOREM AnalysisBranchesHaveXrefs == Spec => []BranchesHaveXrefs
<1>1. Init => BranchesHaveXrefs
  BY DEF Init, BranchesHaveXrefs, Defined
<1>2. TypeInv /\ BranchesHaveXrefs /\ [Next]_vars => BranchesHaveXrefs'
  <2> SUFFICES ASSUME TypeInv, BranchesHaveXrefs, [Next]_vars,
                      NEW a \in DOMAIN memlocs', memlocs'[a].kind = "insn",
                      Decode[a].target # NoAddr, ~(pc' = "jump" /\ addr' = a)
               PROVE  \E x \in xrefs' : x.src = a /\ x.dst = Decode[a].target
    BY DEF BranchesHaveXrefs, IsInsn, Defined
  <2>1. a \in Defined /\ IsInsn(a) /\ xrefs \subseteq xrefs'
    BY NewInsns DEF IsInsn
  <2>2. CASE ~(pc = "jump" /\ addr = a)
    BY <2>1, <2>2 DEF BranchesHaveXrefs
  <2>3. CASE pc = "jump" /\ addr = a
    <3>1. CASE FlowJump
      <4> DEFINE d == Decode[a].target
                 t == IF Decode[a].links THEN "call" ELSE "jump"
                 y == [src |-> a, dst |-> d, type |-> t]
      <4>1. xrefs' = WithXref(a, d, t)
        BY <2>1, <2>3, <3>1 DEF FlowJump
      <4>2. y \in xrefs' \/ \E x \in xrefs' : SameXref(y, x)
        <5>1. xrefs' = IF \E x \in xrefs : SameXref(y, x) THEN xrefs ELSE xrefs \cup {y}
          BY <4>1 DEF WithXref
        <5> HIDE DEF y
        <5> QED
          BY <5>1
      <4>3. y.src = a /\ y.dst = d
        OBVIOUS
      <4> QED
        BY <2>1, <4>2, <4>3 DEF SameXref
    <3>2. CASE UserStep \/ UNCHANGED vars
      <4>1. UNCHANGED <<pc, addr>>
        BY <3>2 DEF UserStep, UserAnalyze, UserUndefine, UserDefine, UserName, UserAnalyzeSymbols,
                    vars, worker, local
      <4> QED
        BY <2>3, <4>1
    <3>3. CASE WorkerStep
      BY <2>3, <3>1, <3>3 DEF WorkerStep, Begin, FlowLook, FlowInsert, FlowData, FlowSubmit,
                              UndefinePop, UndefineRemove, UndefineEnd, NameLook, NameCreate, NameEnd
    <3> QED
      BY <3>2, <3>3 DEF Next
  <2> QED
    BY <2>2, <2>3
<1> QED
  BY <1>1, <1>2, TypeInvariant, PTL DEF Spec

-----------------------------------------------------------------------------
(* Undefinition *)

\* Before the first removal only the job's own start is on the stack; a memloc
\* that is about to be removed is that start or was not explicit, and no step
\* but those of a flow analysis makes it so.
Removing ==
  /\ pc = "undefine" /\ first => stack \in {<<>>, <<job.start>>}
  /\ pc = "remove" => addr = job.start \/ ~(IsInsn(addr) /\ memlocs[addr].explicit)

LEMMA OneOnStack == \A x : Head(<<x>>) = x /\ Tail(<<x>>) = <<>>
OBVIOUS

LEMMA NoneExplicit ==
  ASSUME TypeInv, [Next]_vars, pc \in {"undefine", "remove"}, pc' = "remove"
  PROVE  NoneNew(memlocs, memlocs')
<1>1. CASE UndefinePop \/ UserAnalyzeSymbols \/ UNCHANGED vars
           \/ \E a \in Starts : \/ UserAnalyze(a) \/ UserUndefine(a)
                              \/ \E s \in {"user", "none"} : UserName(a, s)
  <2>1. UNCHANGED memlocs
    BY <1>1 DEF UndefinePop, UserAnalyzeSymbols, UserAnalyze, UserUndefine, UserName, vars, project
  <2> QED
    BY <2>1 DEF NoneNew
<1>2. ASSUME NEW a \in Starts, NEW n \in {1, InsnLen}, UserDefine(a, n)
      PROVE  NoneNew(memlocs, memlocs')
  <2>1. MemlocsTyped(memlocs) /\ a \in Int /\ n \in Nat \ {0}
    BY AnalysisAssumption DEF TypeInv, ProjectTyped
  <2> QED
    BY <1>2, <2>1, InsertedMemlocs DEF UserDefine
<1>3. CASE WorkerStep
  <2>1. UndefinePop
    BY <1>3 DEF WorkerStep, Begin, FlowLook, FlowInsert, FlowJump, FlowData, FlowSubmit,
                UndefineRemove, UndefineEnd, NameLook, NameCreate, NameEnd, Finish
  <2> QED
    BY <1>1, <2>1
<1> QED
  BY <1>1, <1>2, <1>3 DEF Next, UserStep

\* undefine() removes an explicit instruction only if it is the one it was
\* called for (program_flow_analysis.cpp), although other addresses bring it to
\* the same place and the user defines data under it meanwhile.
THEOREM AnalysisSparesExplicit == Spec => UndefineSparesExplicit
<1>1. Init => Removing
  BY DEF Init, Removing
<1>2. TypeInv /\ Removing /\ [Next]_vars => Removing'
  <2> SUFFICES ASSUME TypeInv, Removing, [Next]_vars
               PROVE  Removing'
    OBVIOUS
  <2> USE DEF Removing
  <2>1. CASE UndefinePop
    <3> DEFINE a == Head(stack)
    <3>0. UNCHANGED <<memlocs, first, job>> /\ stack # <<>>
      BY <2>1 DEF UndefinePop, project
    <3>1. first => a = job.start /\ Tail(stack) = <<>>
      <4>1. pc = "undefine"
        BY <2>1 DEF UndefinePop
      <4>2. first => stack = <<job.start>>
        BY <3>0, <4>1
      <4>3. Head(<<job.start>>) = job.start /\ Tail(<<job.start>>) = <<>>
        BY OneOnStack
      <4> QED
        BY <4>2, <4>3
    <3>2. CASE stack' = Tail(stack) /\ UNCHANGED <<pc, addr>>
      BY <2>1, <3>0, <3>1, <3>2 DEF UndefinePop
    <3>3. ASSUME FALSE \in Spared(a), addr' = a, pc' = "remove"
          PROVE  Removing'
      <4>1. first \/ ~memlocs[a].explicit
        BY <3>3 DEF Spared
      <4> QED
        BY <3>0, <3>1, <3>3, <4>1
    <3>4. \/ stack' = Tail(stack) /\ UNCHANGED <<pc, addr>>
          \/ addr' = a /\ pc' = "remove" /\ \E spare \in Spared(a) : ~spare
      BY <2>1 DEF UndefinePop
    <3>5. (\E spare \in Spared(a) : ~spare) => FALSE \in Spared(a)
      BY DEF Spared
    <3> QED
      BY <3>2, <3>3, <3>4, <3>5
  <2>2. CASE UndefineRemove
    BY <2>2 DEF UndefineRemove
  <2>3. ASSUME NEW j \in Jobs, Begin(j)
        PROVE  Removing'
    BY <2>3, JobsAre DEF Begin
  <2>4. CASE \/ FlowLook \/ FlowInsert \/ FlowJump \/ FlowData \/ FlowSubmit
             \/ UndefineEnd \/ NameLook \/ NameCreate \/ NameEnd
    <3>1. pc' \notin {"undefine", "remove"}
      BY <2>4 DEF FlowLook, FlowInsert, FlowJump, FlowData, FlowSubmit, UndefineEnd,
                  NameLook, NameCreate, NameEnd, Finish
    <3> QED
      BY <3>1
  <2>5. CASE UserStep \/ UNCHANGED vars
    <3>1. UNCHANGED <<pc, addr, job, first, stack>>
      BY <2>5 DEF UserStep, UserAnalyze, UserUndefine, UserDefine, UserName, UserAnalyzeSymbols,
                  vars, worker, local
    <3>2. pc = "remove" => NoneNew(memlocs, memlocs')
      BY <3>1, NoneExplicit
    <3>3. pc = "remove" /\ IsInsn(addr)' /\ memlocs'[addr].explicit
            => IsInsn(addr) /\ memlocs[addr].explicit
      BY <3>1, <3>2 DEF NoneNew, IsInsn, Defined
    <3> QED
      BY <3>1, <3>3
  <2> QED
    BY <2>1, <2>2, <2>3, <2>4, <2>5 DEF Next, WorkerStep
<1>3. Removing => (pc = "remove" /\ IsInsn(addr) /\ memlocs[addr].explicit => addr = job.start)
  BY DEF Removing
<1> QED
  BY <1>1, <1>2, <1>3, TypeInvariant, PTL DEF Spec, UndefineSparesExplicit

-----------------------------------------------------------------------------
(* Loose ends *)

\* An address that a memloc covers, or covered once.
Settled(a) == CoveredBy(memlocs, a) # {} \/ a \in gone

At(places, a) == pc \in places /\ addr = a

\* What an instruction continues with, branches to or refers to is reached, or
\* the worker is still at the instruction, on its way to it, or has a job for it.
Ends(a) ==
  LET i == Decode[a]
  IN /\ i.continues => \/ Reached(a + InsnLen)
                       \/ At({"jump", "data", "submit"}, a)
                       \/ At({"flow", "insert"}, a + InsnLen)
     /\ i.target # NoAddr => \/ Reached(i.target)
                             \/ At({"jump", "data", "submit"}, a)
                             \/ At({"flow", "insert"}, i.target)
                             \/ Queued(Flow(i.target))
     /\ i.dref # NoAddr => Settled(i.dref) \/ At({"jump", "data"}, a)

NoLooseEnds == \A a \in Defined \ cut : IsInsn(a) => Ends(a)

LEMMA ReachedIs == \A a : Reached(a) <=> Settled(a) \/ a \notin Mem \/ Decode[a] = NoInsn
BY DEF Reached, Settled

LEMMA InsertedCovers ==
  ASSUME NEW m, MemlocsTyped(m), NEW a \in Int, NEW k, NEW n \in Nat \ {0}
  PROVE  /\ CoveredBy(Inserted(m, a, k, n), a) # {}
         /\ Throws(m, a, n) => CoveredBy(m, a) # {}
         /\ \A b \in Int : CoveredBy(m, b) # {} =>
              CoveredBy(Inserted(m, a, k, n), b) # {} \/ b \in Bytes(m, Erased(m, a, n))
<1> DEFINE new == Inserted(m, a, k, n)
           rest == Cleared(m, a, n)
<1>1. /\ DOMAIN rest = DOMAIN m \ Erased(m, a, n)
      /\ \A p \in DOMAIN rest : rest[p] = m[p] /\ p # a
  BY DEF Cleared, Erased
<1>2. Erased(m, a, n) \subseteq DOMAIN m /\ DOMAIN rest \subseteq DOMAIN new
  BY <1>1 DEF Erased, Inserted
<1>3. \A p \in DOMAIN rest : new[p] = m[p]
  BY <1>1 DEF Inserted
<1>4. \A p \in DOMAIN m : p \in Int /\ m[p].len \in Nat \ {0}
  BY DEF MemlocsTyped, Memlocs
<1>5. CoveredBy(new, a) # {}
  <2>1. CASE Throws(m, a, n)
    BY <2>1 DEF Throws, Inserted
  <2>2. CASE ~Throws(m, a, n)
    <3>1. a \in DOMAIN new /\ new[a] = Memloc(k, n)
      BY <2>2 DEF Inserted
    <3>2. new[a].len = n
      BY <3>1 DEF Memloc
    <3> QED
      BY <3>1, <3>2 DEF CoveredBy
  <2> QED
    BY <2>1, <2>2
<1>6. Throws(m, a, n) => CoveredBy(m, a) # {}
  BY <1>1 DEF Throws, CoveredBy
<1>7. ASSUME NEW b \in Int, NEW p \in CoveredBy(m, b)
      PROVE  CoveredBy(new, b) # {} \/ b \in Bytes(m, Erased(m, a, n))
  <2>1. p \in DOMAIN m /\ p <= b /\ b < p + m[p].len
    BY DEF CoveredBy
  <2>2. CASE p \in Erased(m, a, n)
    <3>1. b \in p .. p + m[p].len - 1
      BY <1>4, <2>1
    <3> QED
      BY <2>2, <3>1 DEF Bytes
  <2>3. CASE p \notin Erased(m, a, n)
    <3>1. p \in DOMAIN new /\ new[p] = m[p]
      BY <1>1, <1>2, <1>3, <2>1, <2>3
    <3> QED
      BY <2>1, <3>1 DEF CoveredBy
  <2> QED
    BY <2>2, <2>3
<1> QED
  BY <1>5, <1>6, <1>7

\* Marking an entry or an explicit instruction changes no extent.
LEMMA SameExtents ==
  ASSUME NEW m, MemlocsTyped(m), NEW a, NEW b
  PROVE  /\ CoveredBy(Entered(m, a), b) = CoveredBy(m, b)
         /\ CoveredBy(Marked(m, a), b) = CoveredBy(m, b)
<1>1. /\ DOMAIN Entered(m, a) = DOMAIN m
      /\ \A p \in DOMAIN m : Entered(m, a)[p].len = m[p].len
  BY DEF Entered, MemlocsTyped, Memlocs
<1>2. /\ DOMAIN Marked(m, a) = DOMAIN m
      /\ \A p \in DOMAIN m : Marked(m, a)[p].len = m[p].len
  BY DEF Marked, MemlocsTyped, Memlocs
<1> QED
  BY <1>1, <1>2 DEF CoveredBy

LEMMA SettledStays ==
  ASSUME TypeInv, [Next]_vars, NEW b \in Int, Settled(b)
  PROVE  Settled(b)'
<1> USE DEF Settled
<1>0. MemlocsTyped(memlocs)
  BY DEF TypeInv, ProjectTyped
<1>1. ASSUME NEW a \in Int, NEW k, NEW n \in Nat \ {0}, memlocs' = Inserted(memlocs, a, k, n),
             gone' = gone \cup Bytes(memlocs, Erased(memlocs, a, n))
      PROVE  Settled(b)'
  BY <1>0, <1>1, InsertedCovers
<1>2. CASE FlowInsert
  <2>1. addr \in Int /\ InsnLen \in Nat \ {0}
    BY <1>2, Decoded, AnalysisAssumption DEF FlowInsert, TypeInv, ControlTyped
  <2> QED
    BY <1>1, <1>2, <2>1 DEF FlowInsert
<1>3. CASE FlowJump
  <2>1. memlocs' \in {Entered(memlocs, Decode[addr].target), memlocs} /\ gone' = gone
    BY <1>3 DEF FlowJump, history
  <2> QED
    BY <1>0, <2>1, SameExtents
<1>4. CASE FlowData
  <2> DEFINE i == Decode[addr]
  <2>1. DecodesAt(addr)
    BY <1>4 DEF FlowData, TypeInv, ControlTyped
  <2>2. \/ UNCHANGED <<memlocs, gone>>
        \/ /\ i.dref # NoAddr
           /\ memlocs' = Inserted(memlocs, i.dref, "data", i.dlen)
           /\ gone' = gone \cup Bytes(memlocs, Erased(memlocs, i.dref, i.dlen))
    BY <1>4 DEF FlowData
  <2>3. i.dref # NoAddr => i.dref \in Int /\ i.dlen \in Nat \ {0}
    BY <2>1, Decoded
  <2> QED
    BY <1>1, <2>2, <2>3
<1>5. CASE FlowSubmit
  <2>1. memlocs' = Marked(memlocs, addr) /\ gone' = gone
    BY <1>5 DEF FlowSubmit, history
  <2> QED
    BY <1>0, <2>1, SameExtents
<1>6. CASE UndefineRemove
  <2>1. CASE b \in gone
    BY <1>6, <2>1 DEF UndefineRemove
  <2>2. ASSUME NEW p \in CoveredBy(memlocs, b)
        PROVE  Settled(b)'
    <3>1. p \in Defined /\ p \in Int /\ memlocs[p].len \in Nat /\ p <= b /\ b < p + memlocs[p].len
      BY <1>0 DEF CoveredBy, Defined, MemlocsTyped, Memlocs
    <3>2. CASE p = addr
      <4>1. b \in Bytes(memlocs, Defined \cap {addr})
        BY <3>1, <3>2 DEF Bytes
      <4> QED
        BY <1>6, <4>1 DEF UndefineRemove
    <3>3. CASE p # addr
      <4>1. p \in DOMAIN memlocs' /\ memlocs'[p] = memlocs[p]
        BY <1>6, <3>1, <3>3 DEF UndefineRemove
      <4> QED
        BY <3>1, <4>1 DEF CoveredBy
    <3> QED
      BY <3>2, <3>3
  <2> QED
    BY <2>1, <2>2
<1>7. ASSUME NEW a \in Starts, NEW n \in {1, InsnLen}, UserDefine(a, n)
      PROVE  Settled(b)'
  <2>1. a \in Int /\ n \in Nat \ {0}
    BY AnalysisAssumption
  <2> QED
    BY <1>1, <1>7, <2>1 DEF UserDefine
<1>8. CASE \/ FlowLook \/ UndefinePop \/ UndefineEnd \/ NameLook \/ NameCreate \/ NameEnd
           \/ UNCHANGED vars \/ UserAnalyzeSymbols \/ \E j \in Jobs : Begin(j)
           \/ \E a \in Starts : \/ UserAnalyze(a) \/ UserUndefine(a)
                              \/ \E s \in {"user", "none"} : UserName(a, s)
  <2>1. UNCHANGED <<memlocs, gone>>
    BY <1>8 DEF FlowLook, UndefinePop, UndefineEnd, NameLook, NameCreate, NameEnd, vars, Begin,
                UserAnalyzeSymbols, UserAnalyze, UserUndefine, UserName, project, history
  <2> QED
    BY <2>1
<1> QED
  BY <1>2, <1>3, <1>4, <1>5, <1>6, <1>7, <1>8 DEF Next, WorkerStep, UserStep

LEMMA ReachedStays ==
  ASSUME TypeInv, [Next]_vars, NEW b \in Int, Reached(b)
  PROVE  Reached(b)'
<1>1. Settled(b) => Settled(b)'
  BY SettledStays
<1>2. Reached(b)' <=> Settled(b)' \/ b \notin Mem \/ Decode[b] = NoInsn
  BY DEF Reached, Settled
<1> QED
  BY <1>1, <1>2, ReachedIs

LEMMA EndsInt ==
  ASSUME TypeInv, NEW a, IsInsn(a)
  PROVE  /\ a \in Int /\ a + InsnLen \in Int /\ DecodesAt(a)
         /\ Decode[a].target # NoAddr => Decode[a].target \in Int /\ Flow(Decode[a].target) \in Jobs
         /\ Decode[a].dref # NoAddr => Decode[a].dref \in Int
<1>1. DecodesAt(a)
  BY DEF TypeInv, ProjectTyped, MemlocsTyped, IsInsn, Defined
<1> QED
  BY <1>1, Decoded, JobsAre, AnalysisAssumption

\* A step that leaves the worker where it is and takes no job away.
LEMMA EndsKept ==
  ASSUME TypeInv, [Next]_vars, NEW a, IsInsn(a), Ends(a),
         \/ UNCHANGED <<pc, addr>>
         \/ /\ pc \notin {"flow", "insert", "jump", "data", "submit"}
            /\ pc' \notin {"flow", "insert", "jump", "data", "submit"},
         \A j \in Jobs : Queued(j) => Queued(j)'
  PROVE  Ends(a)'
<1> DEFINE i == Decode[a]
<1>1. \/ \A S, b : At(S, b) <=> At(S, b)'
      \/ /\ ~At({"jump", "data", "submit"}, a) /\ ~At({"jump", "data"}, a)
         /\ \A b : ~At({"flow", "insert"}, b)
  BY DEF At
<1>2. i.continues => Reached(a + InsnLen)' \/ At({"jump", "data", "submit"}, a)'
                     \/ At({"flow", "insert"}, a + InsnLen)'
  BY <1>1, EndsInt, ReachedStays DEF Ends
<1>3. i.target # NoAddr => Reached(i.target)' \/ At({"jump", "data", "submit"}, a)'
                           \/ At({"flow", "insert"}, i.target)' \/ Queued(Flow(i.target))'
  BY <1>1, EndsInt, ReachedStays DEF Ends
<1>4. i.dref # NoAddr => Settled(i.dref)' \/ At({"jump", "data"}, a)'
  BY <1>1, EndsInt, SettledStays DEF Ends
<1> QED
  BY <1>2, <1>3, <1>4 DEF Ends

\* A step that takes the worker from a place of the analysis on: what it was at,
\* or on its way to, is reached, or it still is.
LEMMA EndsMoved ==
  ASSUME TypeInv, [Next]_vars, NEW a, IsInsn(a), Ends(a),
         \A b \in Int : At({"flow", "insert"}, b) => Reached(b)' \/ At({"flow", "insert"}, b)',
         At({"jump", "data", "submit"}, a) =>
           \/ At({"jump", "data", "submit"}, a)'
           \/ /\ Decode[a].continues => At({"flow", "insert"}, a + InsnLen)'
              /\ Decode[a].target # NoAddr => Queued(Flow(Decode[a].target))',
         At({"jump", "data"}, a) /\ Decode[a].dref # NoAddr =>
           Settled(Decode[a].dref)' \/ At({"jump", "data"}, a)',
         \A j \in Jobs : Queued(j) => Queued(j)' \/ (j.kind = "flow" /\ At({"flow"}, j.start)')
  PROVE  Ends(a)'
<1> DEFINE i == Decode[a]
<1>1. \A b : Flow(b).start = b /\ (At({"flow"}, b)' => At({"flow", "insert"}, b)')
  BY DEF Flow, At
<1>2. i.continues => Reached(a + InsnLen)' \/ At({"jump", "data", "submit"}, a)'
                     \/ At({"flow", "insert"}, a + InsnLen)'
  BY EndsInt, ReachedStays DEF Ends
<1>3. i.target # NoAddr => Reached(i.target)' \/ At({"jump", "data", "submit"}, a)'
                           \/ At({"flow", "insert"}, i.target)' \/ Queued(Flow(i.target))'
  BY <1>1, EndsInt, ReachedStays DEF Ends
<1>4. i.dref # NoAddr => Settled(i.dref)' \/ At({"jump", "data"}, a)'
  BY EndsInt, SettledStays DEF Ends
<1> QED
  BY <1>2, <1>3, <1>4 DEF Ends

LEMMA NoLooseEndsStep == TypeInv /\ NoLooseEnds /\ [Next]_vars => NoLooseEnds'
<1> SUFFICES ASSUME TypeInv, NoLooseEnds, [Next]_vars,
                    NEW a \in Defined', a \notin cut', IsInsn(a)'
             PROVE  Ends(a)'
  BY DEF NoLooseEnds
<1>0. MemlocsTyped(memlocs) /\ queue \in [Jobs -> Nat]
  BY DEF TypeInv, ProjectTyped, ControlTyped
<1>1. IsInsn(a) \/ (pc' = "jump" /\ addr' = a)
  BY NewInsns DEF IsInsn, Defined
<1>2. CASE pc' = "jump" /\ addr' = a
  BY <1>2 DEF Ends, At
<1>3. IsInsn(a) /\ a \notin cut => Ends(a) /\ a \in Int
  BY EndsInt DEF NoLooseEnds, IsInsn
<1>4. CASE IsInsn(a) /\ FlowInsert
  <2>1. addr \in Int /\ InsnLen \in Nat \ {0} /\ memlocs' = Inserted(memlocs, addr, "insn", InsnLen)
        /\ pc = "insert" /\ UNCHANGED <<addr, queue>> /\ DecodesAt(addr)
    BY <1>4, Decoded, AnalysisAssumption DEF FlowInsert, TypeInv, ControlTyped, local
  <2>2. CASE a = addr
    <3>1. Throws(memlocs, addr, InsnLen) => addr \notin DOMAIN memlocs'
      BY <1>0, <2>1, InsertedMemlocs
    <3>2. pc' = "jump"
      BY <1>4, <2>2, <3>1 DEF FlowInsert, Defined
    <3> QED
      BY <1>2, <2>1, <2>2, <3>2
  <2>3. CASE a # addr
    <3>1. a \notin cut
      BY <1>4, <2>3 DEF FlowInsert
    <3>2. CoveredBy(memlocs, addr)' # {}
      BY <1>0, <2>1, InsertedCovers DEF CoveredBy
    <3>3. Reached(addr)'
      BY <2>1, <3>2 DEF Reached
    <3>4. \A j \in Jobs : Queued(j) => Queued(j)'
      BY <2>1 DEF Queued
    <3> QED
      BY <1>3, <1>4, <2>1, <3>1, <3>3, <3>4, EndsMoved DEF At
  <2> QED
    BY <2>2, <2>3
<1>5. CASE IsInsn(a) /\ ~FlowInsert
  <2>1. a \notin cut
    BY <1>5 DEF Next, WorkerStep, UserStep, Begin, FlowLook, FlowJump, FlowData, FlowSubmit,
                UndefinePop, UndefineRemove, UndefineEnd, NameLook, NameCreate, NameEnd, vars,
                UserAnalyze, UserUndefine, UserDefine, UserName, UserAnalyzeSymbols, history
  <2>2. Ends(a) /\ a \in Int
    BY <1>3, <1>5, <2>1
  <2>3. CASE \/ UndefinePop \/ UndefineRemove \/ UndefineEnd
             \/ NameLook \/ NameCreate \/ NameEnd \/ UNCHANGED vars
    <3>1. UNCHANGED queue
      BY <2>3 DEF UndefinePop, UndefineRemove, UndefineEnd, NameLook, NameCreate, NameEnd, vars
    <3>2. \/ UNCHANGED <<pc, addr>>
          \/ /\ pc \notin {"flow", "insert", "jump", "data", "submit"}
             /\ pc' \notin {"flow", "insert", "jump", "data", "submit"}
      BY <2>3 DEF UndefinePop, UndefineRemove, UndefineEnd, NameLook, NameCreate, NameEnd,
                  Finish, vars, worker, local
    <3>3. \A j \in Jobs : Queued(j) => Queued(j)'
      BY <3>1 DEF Queued
    <3> QED
      BY <1>5, <2>2, <3>2, <3>3, EndsKept
  <2>4. CASE UserStep
    <3>1. UNCHANGED <<pc, addr>>
      BY <2>4 DEF UserStep, UserAnalyze, UserUndefine, UserDefine, UserName, UserAnalyzeSymbols,
                  worker, local
    <3>2. \A j \in Jobs : Queued(j) => Queued(j)'
      <4>1. queue' = queue \/ \E k \in Jobs : queue' = Submitted(queue, k)
        BY <2>4, JobsAre DEF UserStep, UserAnalyze, UserUndefine, UserDefine, UserName,
                             UserAnalyzeSymbols
      <4> QED
        BY <1>0, <4>1 DEF Queued, Submitted
    <3> QED
      BY <1>5, <2>2, <3>1, <3>2, EndsKept
  <2>5. ASSUME NEW k \in Jobs, Begin(k)
        PROVE  Ends(a)'
    <3>1. pc = "idle" /\ pc' = k.kind /\ addr' = k.start /\ queue' = [queue EXCEPT ![k] = @ - 1]
      BY <2>5 DEF Begin
    <3>2. \A j \in Jobs : Queued(j) => Queued(j)' \/ j = k
      BY <1>0, <3>1 DEF Queued
    <3>3. CASE k.kind = "flow"
      BY <1>5, <2>2, <3>1, <3>2, <3>3, EndsMoved DEF At
    <3>4. CASE k.kind # "flow"
      <4>1. pc' \notin {"flow", "insert", "jump", "data", "submit"}
        BY <3>1, <3>4, JobsAre
      <4>2. \A b \in Int : Flow(b).kind = "flow"
        BY DEF Flow
      <4>3. \A b \in Int : Flow(b) \in Jobs /\ Queued(Flow(b)) => Queued(Flow(b))'
        BY <3>2, <3>4, <4>2
      <4>4. \A S, b : "idle" \notin S => ~At(S, b)
        BY <3>1 DEF At
      <4> DEFINE i == Decode[a]
      <4>5. i.continues => Reached(a + InsnLen)'
        BY <1>5, <2>2, <4>4, EndsInt, ReachedStays DEF Ends
      <4>6. i.target # NoAddr => Reached(i.target)' \/ Queued(Flow(i.target))'
        BY <1>5, <2>2, <4>3, <4>4, EndsInt, ReachedStays DEF Ends
      <4>7. i.dref # NoAddr => Settled(i.dref)'
        BY <1>5, <2>2, <4>4, EndsInt, SettledStays DEF Ends
      <4> QED
        BY <4>5, <4>6, <4>7 DEF Ends
    <3> QED
      BY <3>3, <3>4
  <2>6. CASE FlowLook
    <3>1. pc = "flow" /\ UNCHANGED <<addr, queue, memlocs, gone>>
      BY <2>6 DEF FlowLook, local, project, history
    <3>2. \A j \in Jobs : Queued(j) => Queued(j)'
      BY <3>1 DEF Queued
    <3>3. CASE MayDecode(addr)
      <4>1. pc' = "insert"
        BY <2>6, <3>3 DEF FlowLook
      <4> QED
        BY <1>5, <2>2, <3>1, <3>2, <4>1, EndsMoved DEF At
    <3>4. CASE ~MayDecode(addr)
      <4>1. addr \in Int => Reached(addr)
        <5>1. CASE addr \in Defined
          <6>1. memlocs[addr].len \in Nat \ {0} /\ addr \in DOMAIN memlocs /\ addr \in Int
            BY <1>0, <5>1 DEF MemlocsTyped, Memlocs, Defined
          <6>2. addr \in CoveredBy(memlocs, addr)
            BY <6>1 DEF CoveredBy
          <6> QED
            BY <6>2 DEF Reached
        <5>2. CASE addr \notin Mem \/ Decode[addr] = NoInsn
          BY <5>2 DEF Reached
        <5> QED
          BY <3>4, <5>1, <5>2 DEF MayDecode
      <4>2. addr \in Int => Reached(addr)'
        BY <3>1, <4>1 DEF Reached, CoveredBy
      <4> QED
        BY <1>5, <2>2, <3>1, <3>2, <4>2, EndsMoved DEF At
    <3> QED
      BY <3>3, <3>4
  <2>7. CASE FlowJump
    <3>1. pc = "jump" /\ pc' = "data" /\ UNCHANGED <<addr, queue>>
      BY <2>7 DEF FlowJump, local
    <3>2. \A j \in Jobs : Queued(j) => Queued(j)'
      BY <3>1 DEF Queued
    <3> QED
      BY <1>5, <2>2, <3>1, <3>2, EndsMoved DEF At
  <2>8. CASE FlowData
    <3>1. pc = "data" /\ UNCHANGED <<addr, queue>> /\ DecodesAt(addr)
      BY <2>8 DEF FlowData, local, TypeInv, ControlTyped
    <3>2. \A j \in Jobs : Queued(j) => Queued(j)'
      BY <3>1 DEF Queued
    <3>3. CASE a # addr
      BY <1>5, <2>2, <3>1, <3>2, <3>3, EndsMoved DEF At
    <3>4. CASE a = addr
      <4> DEFINE i == Decode[a]
      <4>1. a \in Defined
        BY <1>5 DEF IsInsn
      <4>2. CASE i.dref = NoAddr
        <5>1. pc' = "submit"
          BY <2>8, <3>4, <4>2 DEF FlowData
        <5> QED
          BY <1>5, <2>2, <3>1, <3>2, <3>4, <4>2, <5>1, EndsMoved DEF At
      <4>3. CASE i.dref # NoAddr
        <5>1. i.dref \in Int /\ i.dlen \in Nat \ {0}
          BY <3>1, <3>4, <4>3, Decoded
        <5>2. ~Throws(memlocs, i.dref, i.dlen) /\ pc' = "submit"
          BY <1>5, <2>8, <3>4, <4>1, <4>3 DEF FlowData
        <5>3. memlocs' = Inserted(memlocs, i.dref, "data", i.dlen)
          BY <1>5, <2>8, <3>4, <4>1, <4>3 DEF FlowData
        <5>4. CoveredBy(memlocs, i.dref)' # {}
          BY <1>0, <5>1, <5>3, InsertedCovers DEF CoveredBy
        <5>5. Settled(i.dref)'
          BY <5>4 DEF Settled
        <5> QED
          BY <1>5, <2>2, <3>1, <3>2, <3>4, <5>2, <5>5, EndsMoved DEF At
      <4> QED
        BY <4>2, <4>3
    <3> QED
      BY <3>3, <3>4
  <2>9. CASE FlowSubmit
    <3>1. pc = "submit" /\ DecodesAt(addr)
      BY <2>9 DEF FlowSubmit, TypeInv, ControlTyped
    <3>2. PICK b : b = Decode[addr].target
      OBVIOUS
    <3>3. /\ \A j \in Jobs : Queued(j) => Queued(j)'
          /\ b # NoAddr => Queued(Flow(b))'
      <4> DEFINE t == Flow(b)
      <4>1. b # NoAddr => t \in Jobs
        BY <3>1, <3>2, Decoded, JobsAre
      <4>2. queue' = IF b # NoAddr THEN [queue EXCEPT ![t] = @ + 1] ELSE queue
        BY <2>9, <3>2 DEF FlowSubmit, IsDirect, Submitted
      <4> HIDE DEF t
      <4>3. b # NoAddr =>
              \A j \in Jobs : queue'[j] = IF j = t THEN queue[j] + 1 ELSE queue[j]
        BY <1>0, <4>1, <4>2
      <4>4. \A j \in Jobs : queue[j] \in Nat
        BY <1>0
      <4> QED
        BY <4>1, <4>2, <4>3, <4>4 DEF Queued, t
    <3>4. CASE a = addr
      <4>1. Decode[a].continues => pc' = "flow" /\ addr' = a + InsnLen
        BY <2>9, <3>4 DEF FlowSubmit
      <4>2. /\ Decode[a].continues => At({"flow", "insert"}, a + InsnLen)'
            /\ Decode[a].target # NoAddr => Queued(Flow(Decode[a].target))'
        BY <3>2, <3>3, <3>4, <4>1 DEF At
      <4> QED
        BY <1>5, <2>2, <3>1, <3>3, <4>2, EndsMoved DEF At
    <3>5. CASE a # addr
      <4>1. ~At({"jump", "data", "submit"}, a)
        BY <3>5 DEF At
      <4> QED
        BY <1>5, <2>2, <3>1, <3>3, <4>1, EndsMoved DEF At
    <3> QED
      BY <3>4, <3>5
  <2> QED
    BY <1>5, <2>3, <2>4, <2>5, <2>6, <2>7, <2>8, <2>9 DEF Next, WorkerStep
<1> QED
  BY <1>1, <1>2, <1>4, <1>5

\* Once the queue has run dry, what an instruction continues with, branches to
\* or refers to was analyzed or cannot be (program_flow_analysis.cpp), however the
\* user's definitions and undefinitions cut into the jobs.
THEOREM AnalysisClosesFlow == Spec => []FlowClosed
<1>1. Init => NoLooseEnds
  BY DEF Init, NoLooseEnds, Defined
<1>2. TypeInv /\ NoLooseEnds => FlowClosed
  <2> SUFFICES ASSUME TypeInv, NoLooseEnds, Idle, NEW a \in Defined \ cut, IsInsn(a)
               PROVE  LET i == Decode[a]
                      IN /\ i.continues => Reached(a + InsnLen)
                         /\ i.target # NoAddr => Reached(i.target)
                         /\ i.dref # NoAddr => CoveredBy(memlocs, i.dref) # {} \/ i.dref \in gone
    BY DEF FlowClosed
  <2>1. Ends(a)
    BY DEF NoLooseEnds
  <2>2. Decode[a].target # NoAddr => ~Queued(Flow(Decode[a].target))
    BY EndsInt DEF Idle
  <2> QED
    BY <2>1, <2>2 DEF Ends, At, Idle, Settled
<1> QED
  BY <1>1, <1>2, NoLooseEndsStep, TypeInvariant, PTL DEF Spec

-----------------------------------------------------------------------------
(* Names *)

FlowPlaces == {"flow", "insert", "jump", "data", "submit"}

\* A symbol analysis is still to come.
Pending == gui # NoAddr \/ Queued(Symbols)

\* The symbol analysis has nothing to do at the address.
Fine(a) == a \in touched \/ ~HasXrefsTo(a) \/ a \notin Mem \/ ~NeedsName(a)

\* The symbol analysis has still to come to the address.
ToCome(a) == \/ pc = "symbols" /\ (addr = NoAddr \/ a > addr)
             \/ pc = "name" /\ a >= addr

\* While there is flow analysis to be done a symbol analysis follows; else every
\* memloc has its name or the analysis has still to come to it, and the name it
\* is about to give is the right one.
FlowsPending ==
  pc \in FlowPlaces \/ (\E j \in Jobs : j.kind = "flow" /\ Queued(j)) => Pending

NamedSoFar ==
  \/ Pending \/ unnamed
  \/ /\ \A a \in Defined : Fine(a) \/ ToCome(a)
     /\ pc = "name" /\ addr \in Defined => addr \in touched \/ name = NameOf(addr)

LostUnnamed == lost => unnamed

Naming == FlowsPending /\ NamedSoFar /\ LostUnnamed

\* The symbol of a memloc that a step leaves alone stays fine.
LEMMA FineKept ==
  ASSUME NEW a, Fine(a), touched \subseteq touched',
         UNCHANGED xrefs, a \in touched' \/ (a \in Mem => symbols'[a] = symbols[a]),
         memlocs'[a] = memlocs[a]
  PROVE  Fine(a)'
BY DEF Fine, HasXrefsTo, NeedsName, NameOf

LEMMA NamingWorker ==
  ASSUME TypeInv, Naming,
         \/ NameLook \/ NameCreate \/ NameEnd \/ UndefinePop \/ UndefineRemove \/ UndefineEnd
  PROVE  Naming'
<1> USE DEF Naming
<1>1. /\ UNCHANGED <<gui, queue, touched, xrefs>> /\ pc' \notin FlowPlaces
      /\ unnamed => unnamed'
  <2>1. UNCHANGED <<gui, queue, touched, xrefs>>
    BY DEF NameLook, NameCreate, NameEnd, UndefinePop, UndefineRemove, UndefineEnd,
           user, project, history
  <2>2. pc' \notin FlowPlaces
    BY DEF NameLook, NameCreate, NameEnd, UndefinePop, UndefineRemove, UndefineEnd, Finish,
           FlowPlaces
  <2>3. UNCHANGED unnamed \/ unnamed' = TRUE
    BY DEF NameLook, NameCreate, NameEnd, UndefinePop, UndefineRemove, UndefineEnd, history
  <2> QED
    BY <2>1, <2>2, <2>3
<1>2. FlowsPending' /\ (Pending => Pending')
  BY <1>1 DEF FlowsPending, Pending, Queued
<1>3. \A a \in Defined : a \in Int
  BY DEF TypeInv, ProjectTyped, MemlocsTyped, Defined
<1>11. lost' = lost \/ lost' = FALSE
  BY DEF NameLook, NameCreate, NameEnd, UndefinePop, UndefineRemove, UndefineEnd
<1>6. LostUnnamed'
  BY <1>1, <1>11 DEF LostUnnamed
<1>4. SUFFICES ASSUME ~Pending', ~unnamed'
               PROVE  NamedSoFar'
  BY <1>2, <1>6 DEF NamedSoFar
<1>5. /\ ~lost
      /\ \A a \in Defined : Fine(a) \/ ToCome(a)
      /\ pc = "name" /\ addr \in Defined => addr \in touched \/ name = NameOf(addr)
  BY <1>1, <1>2, <1>4 DEF NamedSoFar, LostUnnamed
<1>7. CASE NameLook
  <2>1. /\ UNCHANGED <<memlocs, symbols>> /\ pc = "symbols"
        /\ \A a \in Defined : Fine(a) => Fine(a)'
    BY <1>1, <1>7, FineKept DEF NameLook, project
  <2>2. PICK a \in Ahead :
          /\ \A q \in Ahead : a <= q
          /\ addr' = a
          /\ IF ~HasXrefsTo(a)
             THEN UNCHANGED <<pc, name, unnamed>>
             ELSE IF a \notin Mem
             THEN Finish /\ unnamed' = TRUE /\ UNCHANGED name
             ELSE IF NeedsName(a)
             THEN pc' = "name" /\ name' = NameOf(a) /\ UNCHANGED unnamed
             ELSE UNCHANGED <<pc, name, unnamed>>
    BY <1>5, <1>7 DEF NameLook, NextOnes
  <2>3. \A b \in Defined : Fine(b) \/ a <= b
    BY <1>5, <2>1, <2>2 DEF ToCome, Ahead
  <2>4. (pc' = "symbols" /\ Fine(a)) \/ (pc' = "name" /\ name' = NameOf(a))
    BY <1>4, <2>1, <2>2 DEF Fine
  <2>5. \A b \in Defined : Fine(b)' \/ ToCome(b)'
    <3> SUFFICES ASSUME NEW b \in Defined, ~Fine(b)
                 PROVE  ToCome(b)'
      BY <2>1
    <3>1. a <= b /\ a \in Int /\ b \in Int
      BY <1>3, <2>2, <2>3 DEF Ahead
    <3> QED
      BY <2>2, <2>4, <3>1 DEF ToCome
  <2>6. pc' = "name" => name' = NameOf(addr)'
    BY <2>1, <2>2, <2>4 DEF NameOf
  <2> QED
    BY <1>2, <1>6, <2>1, <2>5, <2>6 DEF NamedSoFar, Defined
<1>8. CASE NameCreate
  <2>1. /\ UNCHANGED <<memlocs, addr>> /\ pc = "name" /\ pc' = "symbols" /\ addr \in Mem
        /\ symbols' = [symbols EXCEPT ![addr] = name] /\ symbols \in [Mem -> SymbolNames]
    BY <1>8 DEF NameCreate, local, TypeInv, ProjectTyped, ControlTyped
  <2>2. ASSUME NEW b \in Defined
        PROVE  Fine(b)' \/ ToCome(b)'
    <3>1. CASE b = addr
      <4>1. symbols'[b] = name
        BY <2>1, <3>1
      <4>2. b \in touched \/ name = NameOf(b)'
        BY <1>5, <2>1, <3>1 DEF NameOf
      <4> QED
        BY <1>1, <4>1, <4>2 DEF Fine, NeedsName
    <3>2. CASE b # addr
      <4>1. b \in Int /\ addr \in Int
        BY <1>3, <2>1, AnalysisAssumption
      <4>2. CASE ToCome(b)
        BY <2>1, <3>2, <4>1, <4>2 DEF ToCome
      <4>3. CASE Fine(b)
        <5>1. b \in Mem => symbols'[b] = symbols[b]
          BY <2>1, <3>2
        <5> QED
          BY <1>1, <2>1, <4>3, <5>1, FineKept
      <4> QED
        BY <1>5, <4>2, <4>3
    <3> QED
      BY <3>1, <3>2
  <2> QED
    BY <1>2, <1>6, <2>1, <2>2 DEF NamedSoFar, Defined
<1>9. CASE NameEnd \/ UndefinePop \/ UndefineEnd
  <2>1. UNCHANGED <<memlocs, symbols>> /\ pc' # "name"
    BY <1>9 DEF NameEnd, UndefinePop, UndefineEnd, Finish, project
  <2>2. \A b \in Defined : ~ToCome(b)
    BY <1>5, <1>9 DEF ToCome, NameEnd, UndefinePop, UndefineEnd, Ahead
  <2>3. \A b \in Defined : Fine(b)'
    BY <1>1, <1>5, <2>1, <2>2, FineKept
  <2> QED
    BY <1>2, <1>6, <2>1, <2>3 DEF NamedSoFar, Defined
<1>10. CASE UndefineRemove
  <2>1. UNCHANGED symbols /\ pc' # "name" /\ pc = "remove"
    BY <1>10 DEF UndefineRemove
  <2>2. \A b \in Defined' : b \in Defined /\ memlocs'[b] = memlocs[b]
    BY <1>10 DEF UndefineRemove, Defined
  <2>3. \A b \in Defined' : Fine(b)'
    BY <1>1, <1>5, <2>1, <2>2, FineKept DEF ToCome
  <2> QED
    BY <1>2, <1>6, <2>1, <2>3 DEF NamedSoFar
<1> QED
  BY <1>7, <1>8, <1>9, <1>10

LEMMA NamingUser ==
  ASSUME TypeInv, Naming, UserStep
  PROVE  Naming'
<1> USE DEF Naming
<1>0. queue \in [Jobs -> Nat] /\ UNCHANGED <<pc, addr, name, xrefs>>
  BY DEF TypeInv, ControlTyped, UserStep, UserAnalyze, UserUndefine, UserDefine, UserName,
         UserAnalyzeSymbols, worker, local, project
<1>1. CASE UserAnalyzeSymbols \/ \E a \in Starts : UserAnalyze(a)
  <2>1. Pending'
    <3>1. CASE UserAnalyzeSymbols
      <4>1. queue'[Symbols] = queue[Symbols] + 1 /\ queue[Symbols] \in Nat
        BY <1>0, <3>1, JobsAre DEF UserAnalyzeSymbols, Submitted
      <4> QED
        BY <4>1 DEF Pending, Queued
    <3>2. ASSUME NEW a \in Starts, UserAnalyze(a)
          PROVE  Pending'
      <4>1. a # NoAddr
        BY AnalysisAssumption
      <4> QED
        BY <3>2, <4>1 DEF UserAnalyze, Pending
    <3> QED
      BY <1>1, <3>1, <3>2
  <2>2. UNCHANGED <<lost, unnamed>>
    BY <1>1 DEF UserAnalyzeSymbols, UserAnalyze, worker, history
  <2> QED
    BY <2>1, <2>2 DEF FlowsPending, NamedSoFar, LostUnnamed
<1>2. ASSUME NEW a \in Starts, UserUndefine(a)
      PROVE  Naming'
  <2>1. Undefine(a) \in Jobs /\ Undefine(a).kind = "undefine"
    BY JobsAre DEF Undefine
  <2>2. \A j \in Jobs : j.kind # "undefine" => queue'[j] = queue[j]
    BY <1>0, <1>2, <2>1 DEF UserUndefine, Submitted
  <2>3. Symbols \in Jobs /\ Symbols.kind = "symbols"
    BY JobsAre
  <2>4. /\ UNCHANGED <<gui, memlocs, symbols, touched, lost, unnamed>>
        /\ \A j \in Jobs : j.kind # "undefine" => (Queued(j) <=> Queued(j)')
    BY <1>2, <2>2 DEF UserUndefine, Queued, project, worker, history
  <2>5. Pending <=> Pending'
    BY <2>3, <2>4 DEF Pending
  <2>6. FlowsPending'
    BY <1>0, <2>4, <2>5 DEF FlowsPending
  <2>7. NamedSoFar'
    BY <1>0, <2>4, <2>5 DEF NamedSoFar, Fine, ToCome, NeedsName, HasXrefsTo, NameOf, Defined
  <2> QED
    BY <2>4, <2>6, <2>7 DEF LostUnnamed
<1>3. ASSUME NEW a \in Starts,
             \/ \E n \in {1, InsnLen} : UserDefine(a, n)
             \/ \E s \in {"user", "none"} : UserName(a, s)
      PROVE  Naming'
  <2>1. /\ UNCHANGED <<gui, queue>> /\ touched' = touched \cup {a}
        /\ (lost' => lost \/ unnamed') /\ (unnamed => unnamed')
    <3>1. UNCHANGED <<gui, queue>> /\ touched' = touched \cup {a}
      BY <1>3 DEF UserDefine, UserName
    <3>2. ASSUME NEW s, UserName(a, s)
          PROVE  (lost' => lost) /\ (unnamed => unnamed')
      BY <3>2 DEF UserName, worker
    <3>3. ASSUME NEW n, UserDefine(a, n)
          PROVE  (lost' => lost \/ unnamed') /\ (unnamed => unnamed')
      <4> DEFINE loses == pc \in {"symbols", "name"} /\ addr \in Erased(memlocs, a, n)
      <4>1. lost' = (lost \/ loses) /\ unnamed' = (unnamed \/ loses)
        BY <3>3 DEF UserDefine
      <4> HIDE DEF loses
      <4> QED
        BY <4>1, Zenon
    <3> QED
      BY <1>3, <3>1, <3>2, <3>3
  <2>2. FlowsPending' /\ (Pending <=> Pending') /\ LostUnnamed'
    BY <1>0, <2>1 DEF FlowsPending, LostUnnamed, Pending, Queued
  <2>3. \A b \in Defined' : b # a => /\ b \in Defined /\ memlocs'[b] = memlocs[b]
                                     /\ b \in Mem => symbols'[b] = symbols[b]
    <3>1. ASSUME NEW n \in {1, InsnLen}, UserDefine(a, n)
          PROVE  \A b \in Defined' : b # a => b \in Defined /\ memlocs'[b] = memlocs[b]
      <4>1. a \in Int /\ n \in Nat \ {0} /\ MemlocsTyped(memlocs)
        BY AnalysisAssumption DEF TypeInv, ProjectTyped
      <4> QED
        BY <3>1, <4>1, InsertedMemlocs DEF UserDefine, Defined
    <3>2. ASSUME NEW s, UserName(a, s)
          PROVE  UNCHANGED memlocs /\ \A b \in Mem : b # a => symbols'[b] = symbols[b]
      <4>1. symbols \in [Mem -> SymbolNames]
        BY DEF TypeInv, ProjectTyped
      <4> QED
        BY <3>2, <4>1 DEF UserName
    <3>3. \/ \E n \in {1, InsnLen} : UserDefine(a, n) /\ UNCHANGED symbols
          \/ \E s \in {"user", "none"} : UserName(a, s)
      BY <1>3 DEF UserDefine
    <3> QED
      BY <3>1, <3>2, <3>3 DEF Defined
  <2>4. ASSUME ~Pending, ~unnamed'
        PROVE  NamedSoFar'
    <3>1. /\ \A b \in Defined : Fine(b) \/ ToCome(b)
          /\ pc = "name" /\ addr \in Defined => addr \in touched \/ name = NameOf(addr)
      BY <2>1, <2>4 DEF NamedSoFar
    <3>2. \A b \in Defined' : Fine(b)' \/ ToCome(b)'
      <4> SUFFICES ASSUME NEW b \in Defined'
                   PROVE  Fine(b)' \/ ToCome(b)'
        OBVIOUS
      <4>1. CASE b = a
        BY <2>1, <4>1 DEF Fine
      <4>2. CASE b # a
        <5>1. Fine(b) => Fine(b)'
          BY <1>0, <2>1, <2>3, <4>2, FineKept
        <5>2. ToCome(b) => ToCome(b)'
          BY <1>0 DEF ToCome
        <5> QED
          BY <2>3, <3>1, <4>2, <5>1, <5>2
      <4> QED
        BY <4>1, <4>2
    <3>3. pc = "name" /\ addr \in Defined' => addr \in touched' \/ name = NameOf(addr)'
      BY <1>0, <2>1, <2>3, <3>1 DEF NameOf
    <3> QED
      BY <1>0, <3>2, <3>3 DEF NamedSoFar
  <2> QED
    BY <2>2, <2>4 DEF NamedSoFar
<1> QED
  BY <1>1, <1>2, <1>3 DEF UserStep

LEMMA NamingStep == TypeInv /\ Naming /\ [Next]_vars => Naming'
<1> SUFFICES ASSUME TypeInv, Naming, [Next]_vars
             PROVE  Naming'
  OBVIOUS
<1> USE DEF Naming
<1>0. queue \in [Jobs -> Nat] /\ Symbols \in Jobs /\ Symbols.kind = "symbols"
  BY JobsAre DEF TypeInv, ControlTyped
<1>1. CASE UNCHANGED vars
  BY <1>1 DEF vars, project, worker, local, user, history, FlowsPending, NamedSoFar, LostUnnamed,
              Pending, Queued, Fine, ToCome, NeedsName, HasXrefsTo, NameOf, Defined
<1>2. CASE FlowLook \/ FlowInsert \/ FlowJump \/ FlowData \/ FlowSubmit
  <2>1. Pending /\ UNCHANGED <<gui, lost, unnamed>>
    BY <1>2 DEF FlowLook, FlowInsert, FlowJump, FlowData, FlowSubmit, FlowsPending, FlowPlaces,
                user, history
  <2>2. Queued(Symbols) => Queued(Symbols)'
    <3>1. CASE UNCHANGED queue
      BY <3>1 DEF Queued
    <3>2. ASSUME NEW j, queue' = [queue EXCEPT ![j] = @ + 1]
          PROVE  Queued(Symbols) => Queued(Symbols)'
      BY <1>0, <3>2 DEF Queued
    <3> QED
      BY <1>2, <3>1, <3>2 DEF FlowLook, FlowInsert, FlowJump, FlowData, FlowSubmit, Submitted
  <2>3. Pending'
    BY <2>1, <2>2 DEF Pending
  <2> QED
    BY <2>1, <2>3 DEF FlowsPending, NamedSoFar, LostUnnamed
<1>3. ASSUME NEW k \in Jobs, Begin(k)
      PROVE  Naming'
  <2>1. /\ pc = "idle" /\ pc' = k.kind /\ addr' = k.start /\ queue' = [queue EXCEPT ![k] = @ - 1]
        /\ UNCHANGED <<memlocs, xrefs, symbols, gui, touched>> /\ ~lost'
        /\ unnamed' = (unnamed /\ k.kind # "symbols") /\ IsTop(k)
    BY <1>3 DEF Begin, project, user
  <2>2. \A j \in Jobs : /\ Queued(j)' => Queued(j)
                        /\ j # k /\ Queued(j) => Queued(j)'
    BY <1>0, <2>1 DEF Queued
  <2>3. CASE k = Symbols
    <3>1. \A j \in Jobs : j.kind = "flow" => ~Queued(j)
      BY <1>0, <2>1, <2>3 DEF IsTop, Priority
    <3>2. addr' = NoAddr /\ pc' = "symbols"
      BY <1>0, <2>1, <2>3 DEF Symbols
    <3> QED
      BY <2>1, <2>2, <3>1, <3>2 DEF FlowsPending, FlowPlaces, NamedSoFar, ToCome, LostUnnamed
  <2>4. CASE k # Symbols
    <3>1. k.kind \in {"flow", "undefine"} /\ (Pending => Pending')
      BY <1>0, <2>1, <2>2, <2>4, JobsAre DEF Pending
    <3>2. FlowsPending'
      BY <2>1, <2>2, <3>1 DEF FlowsPending, FlowPlaces, IsTop
    <3>3. NamedSoFar'
      BY <2>1, <3>1 DEF NamedSoFar, ToCome, Fine, NeedsName, HasXrefsTo, NameOf, Defined
    <3> QED
      BY <2>1, <3>2, <3>3 DEF LostUnnamed
  <2> QED
    BY <2>3, <2>4
<1> QED
  BY <1>1, <1>2, <1>3, NamingWorker, NamingUser DEF Next, WorkerStep

\* Once the queue has run dry, every memloc that is referred to has the symbol
\* its kind asks for (symbol_analysis.cpp): the symbol analysis that the GUI
\* submits after a flow analysis runs after all the flow jobs that one submits.
THEOREM AnalysisNamesAll == Spec => []SymbolsCurrent
<1>1. Init => Naming
  BY JobsAre, AnalysisAssumption DEF Init, Naming, FlowsPending, FlowPlaces, NamedSoFar,
                                     LostUnnamed, Defined, Queued
<1>2. TypeInv /\ Naming => SymbolsCurrent
  <2>1. Symbols \in Jobs
    BY JobsAre
  <2> QED
    BY <2>1 DEF SymbolsCurrent, Naming, NamedSoFar, Pending, Idle, Fine, ToCome, NeedsName
<1> QED
  BY <1>1, <1>2, NamingStep, TypeInvariant, PTL DEF Spec
=============================================================================
