------------------------------ MODULE Analysis ------------------------------
(***************************************************************************)
(* What the jobs of the run queue do to a project: the code flow analysis  *)
(* and the undefinition of program_flow_analysis.cpp and the naming of     *)
(* symbol_analysis.cpp, with the calls of the project model they make      *)
(* (memorymodel/memorybackedprojectmodel.cpp), while the user submits jobs *)
(* and changes the same project from the GUI thread (qt/codeview.cpp).     *)
(*                                                                         *)
(* One worker executes the jobs, each to its end, highest priority first   *)
(* (module RunQueue).  No lock protects the project: the GUI thread may    *)
(* act between any two steps of a job here, each of which makes at most    *)
(* one call that changes the project.                                      *)
(*                                                                         *)
(* An address is its value: the segments lie apart, and no reference leads *)
(* from one into another.  The memlocs are a function from their start     *)
(* addresses; the two tables and the search in them are module             *)
(* MemlocManager, whose FindsCover says that findMemloc() finds the memloc *)
(* that covers an address.                                                 *)
(***************************************************************************)
EXTENDS Integers, Sequences

CONSTANTS
  Mem,         \* the valid addresses of the segments
  Decode,      \* what ARMInstruction decodes at each valid address
  NoInsn,      \* nothing: the segment has no contents
  InsnLen,     \* the length of an instruction
  NoAddr,      \* no branch target, no data reference; job without start
  Starts,      \* the addresses the user may point at
  MaxCommands  \* bound: the commands the user gives

(* pcflags, m_ddest and m_data_ref_addr of an instruction. *)
Insns == {Decode[a] : a \in Mem} \ {NoInsn}

ASSUME AnalysisAssumption ==
  /\ Mem \subseteq Int
  /\ Starts \subseteq Mem
  /\ InsnLen \in Nat \ {0}
  /\ NoAddr \notin Int
  /\ MaxCommands \in Nat
  /\ \A i \in Insns : /\ i.continues \in BOOLEAN
                      /\ i.links \in BOOLEAN
                      /\ i.target \in Int \cup {NoAddr}
                      /\ i.dref \in Int \cup {NoAddr}
                      /\ i.dlen \in Nat \ {0}

VARIABLES
  memlocs,   \* the memlocs, by start address
  xrefs,     \* the cross references
  symbols,   \* the symbol at each address
  queue,     \* how often each job is in the run queue
  pc,        \* where the worker is
  job,       \* the job it executes
  addr,      \* the address the job is at
  first,     \* the local variable of analyze() and undefine()
  stack,     \* analysis_addrs of undefine()
  name,      \* namebuf of the symbol analysis
  lost,      \* the memloc under the symbol analysis' iterator was erased
  gui,       \* the GUI thread is in analyze(), between its two submissions
  commands,  \* how many commands the user has given
  gone,      \* history: addresses that erased or removed memlocs covered
  cut,       \* history: instructions whose last analysis an exception ended
  touched,   \* history: addresses the user defined or named
  unnamed,   \* history: the last symbol analysis did not see every memloc
  named,     \* history: addresses the user has named last
  raced      \* history: those named while the analysis was about to name them

local    == <<addr, first, stack, name>>
worker   == <<pc, job, lost, local>>
project  == <<memlocs, xrefs, symbols>>
user     == <<gui, commands>>
history  == <<gone, cut, touched, unnamed, named, raced>>
vars     == <<project, queue, worker, user, history>>

-----------------------------------------------------------------------------
(* Jobs: "code flow analysis", "undefine" and "symbol analysis". *)

Targets == {i.target : i \in Insns} \ {NoAddr}

Flow(a)     == [kind |-> "flow", start |-> a]
Undefine(a) == [kind |-> "undefine", start |-> a]
Symbols     == [kind |-> "symbols", start |-> NoAddr]

Jobs == {Flow(a) : a \in Starts \cup Targets} \cup {Undefine(a) : a \in Starts}
          \cup {Symbols}

(* Mutant: the naming goes before the flow. *)
SamePriority(j) == 0

(* The priorities the create...Job() functions pass on. *)
Priority(j) == IF j.kind = "flow" THEN 20 ELSE 0

Queued(j) == queue[j] > 0
IsTop(j)  == Queued(j) /\ \A k \in Jobs : Queued(k) => Priority(k) <= Priority(j)

Submitted(q, j) == [q EXCEPT ![j] = @ + 1]

-----------------------------------------------------------------------------
(* The project model. *)

Defined == DOMAIN memlocs
IsInsn(a) == a \in Defined /\ memlocs[a].kind = "insn"

CoveredBy(m, a) == {p \in DOMAIN m : p <= a /\ a < p + m[p].len}
Bytes(m, P) == UNION {p .. p + m[p].len - 1 : p \in P}

(* insertMemloc(): first the memlocs the new one covers are erased, *)
Erased(m, a, n) == {p \in DOMAIN m : a <= p /\ p < a + n}
Cleared(m, a, n) == [p \in DOMAIN m \ Erased(m, a, n) |-> m[p]]

(* then it throws if the start is covered, else the memloc is entered.     *)
Throws(m, a, n) == CoveredBy(Cleared(m, a, n), a) # {}

(* A fresh memloc; m_explicit is not initialized. *)
Memloc(k, n) == [kind |-> k, len |-> n, explicit |-> FALSE, fnent |-> FALSE]

Inserted(m, a, k, n) ==
  LET rest == Cleared(m, a, n)
  IN IF Throws(m, a, n) THEN rest
     ELSE [p \in DOMAIN rest \cup {a} |-> IF p = a THEN Memloc(k, n) ELSE rest[p]]

(* Mutant: two references to the same address are taken for one. *)
XrefToSame(x, y) == x.dst = y.dst

(* createXref(): an xref of the same source and destination is kept. *)
SameXref(x, y) == x.src = y.src /\ x.dst = y.dst

WithXref(s, d, t) ==
  LET x == [src |-> s, dst |-> d, type |-> t]
  IN IF \E y \in xrefs : SameXref(x, y) THEN xrefs ELSE xrefs \cup {x}

HasXrefsTo(a) == \E x \in xrefs : x.dst = a

(* mark_fn_ent(true) when an instruction is at the destination of a call.  *)
Entered(m, a) ==
  IF a \in DOMAIN m /\ m[a].kind = "insn" THEN [m EXCEPT ![a].fnent = TRUE] ELSE m

-----------------------------------------------------------------------------
Init ==
  /\ memlocs = <<>>
  /\ xrefs = {}
  /\ symbols = [a \in Mem |-> "none"]
  /\ queue = [j \in Jobs |-> 0]
  /\ pc = "idle"
  /\ job = Symbols
  /\ addr = NoAddr
  /\ first = TRUE
  /\ stack = <<>>
  /\ name = "none"
  /\ lost = FALSE
  /\ gui = NoAddr
  /\ commands = 0
  /\ gone = {}
  /\ cut = {}
  /\ touched = {}
  /\ unnamed = FALSE
  /\ named = {}
  /\ raced = {}

-----------------------------------------------------------------------------
(* The worker takes a job. *)

Begin(j) ==
  /\ pc = "idle"
  /\ IsTop(j)
  /\ queue' = [queue EXCEPT ![j] = @ - 1]
  /\ job' = j
  /\ pc' = j.kind
  /\ addr' = j.start
  /\ first' = TRUE
  /\ stack' = IF j.kind = "undefine" THEN <<j.start>> ELSE <<>>
  /\ name' = "none"
  /\ lost' = FALSE
  /\ unnamed' = (unnamed /\ j.kind # "symbols")
  /\ UNCHANGED <<project, user, gone, cut, touched, named, raced>>

Finish == pc' = "idle"

-----------------------------------------------------------------------------
(* ProgramFlowAnalysis::analyze() *)

(* Mutant: a failed instantiate() is taken for an instruction. *)
MayDecodeUnread(a) == a \in Mem /\ a \notin Defined

(* while (addr.isValid()), if (lookup_memloc(addr)) break, and             *)
(* instantiate() in createMemlocDataAt() returns an instruction            *)
MayDecode(a) == a \in Mem /\ a \notin Defined /\ Decode[a] # NoInsn

FlowLook ==
  /\ pc = "flow"
  /\ IF MayDecode(addr) THEN pc' = "insert" ELSE Finish
  /\ UNCHANGED <<project, queue, job, lost, local, user, history>>

(* createMemlocDataAt(): insertMemloc().  An exception ends the job. *)
FlowInsert ==
  /\ pc = "insert"
  /\ memlocs' = Inserted(memlocs, addr, "insn", InsnLen)
  /\ gone' = gone \cup Bytes(memlocs, Erased(memlocs, addr, InsnLen))
  /\ cut' = cut \ {addr}
  /\ IF Throws(memlocs, addr, InsnLen) THEN Finish ELSE pc' = "jump"
  /\ UNCHANGED <<xrefs, symbols, queue, job, lost, local, user, touched, unnamed,
                 named, raced>>

(* createMemlocDataAt(): create_xref() to the target of a direct branch.   *)
FlowJump ==
  LET i == Decode[addr]
      type == IF i.links THEN "call" ELSE "jump"
  IN /\ pc = "jump"
     /\ pc' = "data"
     /\ IF i.target # NoAddr /\ addr \in Defined
        THEN /\ xrefs' = WithXref(addr, i.target, type)
             /\ memlocs' = IF i.links THEN Entered(memlocs, i.target) ELSE memlocs
        ELSE UNCHANGED <<xrefs, memlocs>>
     /\ UNCHANGED <<symbols, queue, job, lost, local, user, history>>

(* createMemlocDataAt(): create_xref() to the datum the instruction refers *)
(* to, which creates the datum: the source is looked up again, and may not *)
(* be the instruction any more.                                            *)
FlowData ==
  LET i == Decode[addr]
      creates == IsInsn(addr)
      throws == creates /\ Throws(memlocs, i.dref, i.dlen)
  IN /\ pc = "data"
     /\ IF i.dref # NoAddr /\ addr \in Defined
        THEN /\ xrefs' = WithXref(addr, i.dref, "data")
             /\ memlocs' = IF creates THEN Inserted(memlocs, i.dref, "data", i.dlen)
                                      ELSE memlocs
             /\ gone' = IF creates
                        THEN gone \cup Bytes(memlocs, Erased(memlocs, i.dref, i.dlen))
                        ELSE gone
             /\ cut' = IF throws THEN cut \cup {addr} ELSE cut
             /\ IF throws THEN Finish ELSE pc' = "submit"
        ELSE /\ pc' = "submit"
             /\ UNCHANGED <<xrefs, memlocs, gone, cut>>
     /\ UNCHANGED <<symbols, queue, job, lost, local, user, touched, unnamed,
                    named, raced>>

(* mark_explicit() of the first instruction of the job *)
Marked(m, a) ==
  IF first /\ IsInsn(a) THEN [m EXCEPT ![a].explicit = TRUE] ELSE m

(* Mutant: the target of a call is left alone. *)
ToSubmit(i) == i.target # NoAddr /\ ~i.links

(* (pcflags & PCFLAG_LOCMASK) == PCFLAG_DIRLOC *)
IsDirect(i) == i.target # NoAddr

(* A job for the target, then on to the next instruction or out.           *)
FlowSubmit ==
  LET i == Decode[addr]
  IN /\ pc = "submit"
     /\ memlocs' = Marked(memlocs, addr)
     /\ first' = FALSE
     /\ queue' = IF IsDirect(i) THEN Submitted(queue, Flow(i.target)) ELSE queue
     /\ IF i.continues
        THEN pc' = "flow" /\ addr' = addr + InsnLen
        ELSE Finish /\ addr' = addr
     /\ UNCHANGED <<xrefs, symbols, job, lost, stack, name, user, history>>

-----------------------------------------------------------------------------
(* ProgramFlowAnalysis::undefine() *)

(* Mutant: explicit memlocs are not spared. *)
SparesNone(a) == {FALSE}

(* What get_explicit() && !first may be: m_explicit is only ever written   *)
(* by mark_explicit(true), and read whether or not it was.                 *)
Spared(a) == IF first THEN {FALSE}
             ELSE IF memlocs[a].explicit THEN {TRUE}
             ELSE BOOLEAN

(* m->get_addr() + m->get_length(), if m->logically_continues() *)
Following(a) ==
  IF IsInsn(a) /\ Decode[a].continues THEN <<a + InsnLen>> ELSE <<>>

(* One address off the stack: its successor and start go on it when its    *)
(* memloc is to be removed.                                                *)
UndefinePop ==
  /\ pc = "undefine"
  /\ stack # <<>>
  /\ LET a == Head(stack)
     IN IF a \in Mem /\ a \in Defined
        THEN \E spare \in Spared(a) :
               IF spare
               THEN stack' = Tail(stack) /\ UNCHANGED <<pc, addr>>
               ELSE /\ stack' = <<job.start>> \o Following(a) \o Tail(stack)
                    /\ addr' = a
                    /\ pc' = "remove"
        ELSE stack' = Tail(stack) /\ UNCHANGED <<pc, addr>>
  /\ UNCHANGED <<project, queue, job, lost, first, name, user, history>>

(* remove_memloc(), which looks the memloc up again. *)
UndefineRemove ==
  /\ pc = "remove"
  /\ memlocs' = [p \in Defined \ {addr} |-> memlocs[p]]
  /\ gone' = gone \cup Bytes(memlocs, Defined \cap {addr})
  /\ first' = FALSE
  /\ pc' = "undefine"
  /\ UNCHANGED <<xrefs, symbols, queue, job, lost, addr, stack, name, user, cut,
                 touched, unnamed, named, raced>>

UndefineEnd ==
  /\ pc = "undefine"
  /\ stack = <<>>
  /\ Finish
  /\ UNCHANGED <<project, queue, job, lost, local, user, history>>

-----------------------------------------------------------------------------
(* SymbolAnalysis::analyze() *)

(* Mutant: the iterator is not advanced. *)
AheadOrHere == {p \in Defined : addr = NoAddr \/ p >= addr}

(* The memlocs the iterator, at addr, may get to: the next one; any after  *)
(* the one under it was erased (the iterator is dangling then).            *)
Ahead == {p \in Defined : addr = NoAddr \/ p > addr}
NextOnes == IF lost THEN Defined ELSE {p \in Ahead : \A q \in Ahead : p <= q}

(* "_byte_", "_dword_", "_sub_" or "_loc_" and the address.  A datum has   *)
(* one byte or as many as a word here: for a length that has no form of    *)
(* its own the code uses what its buffer holds from the memloc before.     *)
NameOf(a) ==
  IF memlocs[a].kind = "data" THEN (IF memlocs[a].len = 1 THEN "byte" ELSE "dword")
  ELSE IF memlocs[a].fnent THEN "sub" ELSE "loc"

(* Mutant: the user's symbols are not told apart. *)
NamesAny(a) == symbols[a] # NameOf(a)

(* Only a symbol with the property "generated" is replaced, and only if    *)
(* its name changes.                                                       *)
NeedsName(a) == symbols[a] \notin {"user", NameOf(a)}

(* One iteration of the loop up to create_sym().  toString() of an invalid *)
(* address throws, which ends the job.                                     *)
NameLook ==
  /\ pc = "symbols"
  /\ \E a \in NextOnes :
       /\ addr' = a
       /\ IF ~HasXrefsTo(a)
          THEN UNCHANGED <<pc, name, unnamed>>
          ELSE IF a \notin Mem
          THEN Finish /\ unnamed' = TRUE /\ UNCHANGED name
          ELSE IF NeedsName(a)
          THEN pc' = "name" /\ name' = NameOf(a) /\ UNCHANGED unnamed
          ELSE UNCHANGED <<pc, name, unnamed>>
  /\ lost' = FALSE
  /\ UNCHANGED <<project, queue, job, first, stack, user, gone, cut, touched,
                 named, raced>>

(* create_sym() replaces whatever symbol is at the address by now.  The    *)
(* properties it is given next are in module SymbolList.                   *)
NameCreate ==
  /\ pc = "name"
  /\ symbols' = [symbols EXCEPT ![addr] = name]
  /\ pc' = "symbols"
  /\ UNCHANGED <<memlocs, xrefs, queue, job, lost, local, user, history>>

NameEnd ==
  /\ pc = "symbols"
  /\ lost \/ Ahead = {}
  /\ Finish
  /\ UNCHANGED <<project, queue, job, lost, local, user, history>>

WorkerStep ==
  \/ \E j \in Jobs : Begin(j)
  \/ FlowLook \/ FlowInsert \/ FlowJump \/ FlowData \/ FlowSubmit
  \/ UndefinePop \/ UndefineRemove \/ UndefineEnd
  \/ NameLook \/ NameCreate \/ NameEnd

-----------------------------------------------------------------------------
(* The user, on the GUI thread: QTMutableCodeController. *)

Command == /\ gui = NoAddr
           /\ commands < MaxCommands
           /\ commands' = commands + 1

(* analyze(): two submissions, between which the worker may run. *)
UserAnalyze(a) ==
  /\ Command
  /\ queue' = Submitted(queue, Flow(a))
  /\ gui' = a
  /\ UNCHANGED <<project, worker, history>>

UserAnalyzeSymbols ==
  /\ gui # NoAddr
  /\ queue' = Submitted(queue, Symbols)
  /\ gui' = NoAddr
  /\ UNCHANGED <<project, worker, commands, history>>

UserUndefine(a) ==
  /\ Command
  /\ queue' = Submitted(queue, Undefine(a))
  /\ UNCHANGED <<project, worker, gui, history>>

(* setDataType(): createMemlocDataAt() with the type of a datum.  What it  *)
(* erases may be the memloc the symbol analysis is at.                     *)
UserDefine(a, n) ==
  /\ Command
  /\ memlocs' = Inserted(memlocs, a, "data", n)
  /\ gone' = gone \cup Bytes(memlocs, Erased(memlocs, a, n))
  /\ touched' = touched \cup {a}
  /\ LET loses == pc \in {"symbols", "name"} /\ addr \in Erased(memlocs, a, n)
     IN /\ lost' = (lost \/ loses)
        /\ unnamed' = (unnamed \/ loses)
  /\ UNCHANGED <<xrefs, symbols, queue, pc, job, local, gui, cut, named, raced>>

(* setSymbol(): create_sym() with a name of the user's, or with the empty  *)
(* name, which deletes the symbol.                                         *)
UserName(a, s) ==
  /\ Command
  /\ symbols' = [symbols EXCEPT ![a] = s]
  /\ named' = IF s = "user" THEN named \cup {a} ELSE named \ {a}
  /\ raced' = IF pc = "name" /\ addr = a THEN raced \cup {a} ELSE raced \ {a}
  /\ touched' = touched \cup {a}
  /\ UNCHANGED <<memlocs, xrefs, queue, worker, gui, gone, cut, unnamed>>

UserStep ==
  \/ \E a \in Starts : \/ UserAnalyze(a)
                       \/ UserUndefine(a)
                       \/ \E n \in {1, InsnLen} : UserDefine(a, n)
                       \/ \E s \in {"user", "none"} : UserName(a, s)
  \/ UserAnalyzeSymbols

Next == WorkerStep \/ UserStep

Spec == Init /\ [][Next]_vars

(* The worker runs; nothing obliges the user to do anything. *)
FairSpec == Spec /\ WF_vars(WorkerStep)

-----------------------------------------------------------------------------
(* Properties. *)

SymbolNames == {"none", "user", "byte", "dword", "sub", "loc"}

TypeOK ==
  /\ \A a \in Defined :
       /\ a \in Int
       /\ memlocs[a] \in [kind : {"insn", "data"}, len : Nat \ {0},
                          explicit : BOOLEAN, fnent : BOOLEAN]
       /\ IsInsn(a) => a \in Mem /\ Decode[a] # NoInsn
  /\ \A x \in xrefs : /\ x.src \in Mem
                      /\ x.dst \in Int
                      /\ x.type \in {"call", "jump", "data"}
  /\ symbols \in [Mem -> SymbolNames]
  /\ queue \in [Jobs -> Nat]
  /\ pc \in {"idle", "flow", "insert", "jump", "data", "submit", "undefine",
             "remove", "symbols", "name"}
  /\ job \in Jobs
  /\ addr \in Int \cup {NoAddr}
  /\ pc \in {"insert", "jump", "data", "submit"} => addr \in Mem /\ Decode[addr] # NoInsn
  /\ pc \in {"remove", "name"} => addr \in Mem
  /\ first \in BOOLEAN
  /\ stack \in Seq(Int)
  /\ name \in SymbolNames
  /\ lost \in BOOLEAN
  /\ gui \in Starts \cup {NoAddr}
  /\ commands \in 0 .. MaxCommands

Idle == pc = "idle" /\ \A j \in Jobs : ~Queued(j)

(* The analysis leaves no loose end: once the queue has run dry, what an   *)
(* instruction continues with, branches to or refers to is defined, unless *)
(* there is nothing to decode, a memloc there was overwritten or removed,  *)
(* or an exception ended the job at the instruction.                       *)
Reached(a) ==
  \/ CoveredBy(memlocs, a) # {}
  \/ a \notin Mem
  \/ Decode[a] = NoInsn
  \/ a \in gone

FlowClosed ==
  Idle =>
    \A a \in Defined \ cut :
      IsInsn(a) =>
        LET i == Decode[a]
        IN /\ i.continues => Reached(a + InsnLen)
           /\ i.target # NoAddr => Reached(i.target)
           /\ i.dref # NoAddr => CoveredBy(memlocs, i.dref) # {} \/ i.dref \in gone

(* Once its analysis is over, every branch of the table has an xref from   *)
(* it to its target, which the naming and the code blocks rely on, however *)
(* often the two were undefined, overwritten and analyzed again.           *)
BranchesHaveXrefs ==
  \A a \in Defined :
    /\ IsInsn(a)
    /\ Decode[a].target # NoAddr
    /\ ~(pc = "jump" /\ addr = a)
    => \E x \in xrefs : x.src = a /\ x.dst = Decode[a].target

(* The symbol analysis the GUI submits after each flow analysis sees all   *)
(* that flow analysis and the jobs it submitted have done: once the queue  *)
(* has run dry every memloc that is referred to has the symbol its kind    *)
(* asks for or one of the user's, if the last symbol analysis got through  *)
(* and the user has not meddled with the address.                          *)
SymbolsCurrent ==
  Idle /\ gui = NoAddr /\ ~unnamed =>
    \A a \in Defined \ touched :
      HasXrefsTo(a) /\ a \in Mem => symbols[a] \in {"user", NameOf(a)}

(* The symbol analysis never replaces a symbol of the user's, unless it    *)
(* was set after the analysis had looked at the address.                   *)
UserSymbolsKept == \A a \in named \ raced : symbols[a] = "user"

(* An undefinition that started elsewhere stops at an instruction the user *)
(* started an analysis at: it never removes it.                            *)
UndefineSparesExplicit ==
  [][pc = "remove" /\ IsInsn(addr) /\ memlocs[addr].explicit
       => addr = job.start]_vars

(* The jobs come to an end, although they submit further jobs, erase each  *)
(* other's memlocs and may have to be done again.                          *)
AnalysisTerminates == []<>Idle

(* instruction.h:70: PCFLAG_FNENT is the "bit indicating that this is a    *)
(* function entry": once the queue has run dry, every instruction that is  *)
(* called has it.                                                          *)
CalleesAreEntries ==
  Idle => \A x \in xrefs : x.type = "call" /\ IsInsn(x.dst) => memlocs[x.dst].fnent
=============================================================================
