--------------------------- MODULE MCCircuitBreaker ---------------------------
(* Four signers and the default key.  Thresholds: none, one, a majority, all, *)
(* and one more than there are signers.                                       *)
EXTENDS CircuitBreaker

CONSTANTS a, b, c, d

MCConfigs ==
    {[signers |-> {a, b, c}, threshold |-> n] : n \in {0, 1, 2, 4}}
    \union {[signers |-> {a, b, c, d}, threshold |-> n] : n \in {3, 4}}
=============================================================================
