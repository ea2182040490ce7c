----------------------------- MODULE SymbolTable -----------------------------
(***************************************************************************)
(* What a symbol list stands for: at most one name per address and one     *)
(* address per name.  A table is a function from the addresses that have a *)
(* symbol to its name.  SymbolList is the implementation.                  *)
(***************************************************************************)
EXTENDS Functions

NoName == ""

InUse(table, name) == name \in Range(table)

Without(table, a) == Restrict(table, DOMAIN table \ {a})

\* A table, of whatever, in which k stands for v.
With(table, k, v) == [x \in DOMAIN table \cup {k} |-> IF x = k THEN v ELSE table[x]]

\* set_symbol(): an empty name erases, another replaces what was there, as
\* symlist.h:125-133 says, but a name that is in use changes nothing
\* (symlist.cpp:57), of which the header says nothing.
SetSymbol(table, a, name) ==
    IF InUse(table, name) THEN table
    ELSE IF name = NoName THEN Without(table, a)
    ELSE With(table, a, name)
=============================================================================
