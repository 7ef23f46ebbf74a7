---------------------------- MODULE MCBulkhead ------------------------------
(* Bulkhead for TLC: four callers compete for two slots, so that two can    *)
(* queue behind two that run.                                               *)
EXTENDS Bulkhead
CONSTANTS c1, c2, c3, c4
MCMaxWaits == {0, 1}
MCCallers == {c1, c2, c3, c4}
=============================================================================
