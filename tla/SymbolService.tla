---------------------------- MODULE SymbolService ----------------------------
(***************************************************************************)
(* What the callers of a symbol list may rely on: it is one table, and a   *)
(* call of set_symbol() that was made changes it by SetSymbol when it      *)
(* returns, as long as no two threads are in the list at once and no       *)
(* caller uses what is gone.  After that anything may be in it.            *)
(* SymbolList implements this.                                             *)
(***************************************************************************)
EXTENDS SymbolTable

CONSTANTS Threads, Addrs, Names

VARIABLES
    table,
    pending,    \* the call of each thread that has not returned: <<>> or its arguments
    broken

vars == <<table, pending, broken>>

Init == table = <<>> /\ pending = [t \in Threads |-> <<>>] /\ broken = FALSE

Call(t, a, name) ==
    /\ pending[t] = <<>>
    /\ pending' = [pending EXCEPT ![t] = <<a, name>>]
    /\ UNCHANGED <<table, broken>>

Set(t) ==
    /\ pending[t] # <<>>
    /\ table' = SetSymbol(table, pending[t][1], pending[t][2])
    /\ pending' = [pending EXCEPT ![t] = <<>>]
    /\ UNCHANGED broken

Break == broken' = TRUE

Next ==
    \/ Break
    \/ \E t \in Threads : Set(t) \/ \E a \in Addrs, name \in Names : Call(t, a, name)

Spec == Init /\ [][Next]_vars
=============================================================================
