----------------------------- MODULE MCRunQueue -----------------------------
(* Instances of RunQueue with its monitor.  The shape of the jobs is that   *)
(* of the program: a flow analysis (priority 20) that submits the analysis  *)
(* of a branch target, a symbol analysis (0) submitted with it, and a       *)
(* search (-1).                                                             *)
EXTENDS RunQueueMonitor

CONSTANTS flow, target, symbols, search

MCPriority == [j \in Jobs |-> CASE j \in {flow, target} -> 20
                                [] j = symbols -> 0
                                [] OTHER -> -1]
MCParent == [j \in Jobs |-> IF j = target THEN flow ELSE NoJob]
=============================================================================
