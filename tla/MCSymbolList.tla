----------------------------- MODULE MCSymbolList -----------------------------
(* Three names for two addresses: names clash, move and come back. *)
EXTENDS SymbolList

ThreeNames == <<"f", "g", "h">>
=============================================================================
