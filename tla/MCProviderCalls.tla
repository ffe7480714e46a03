--------------------------- MODULE MCProviderCalls ---------------------------
(***************************************************************************)
(* ProviderCalls for TLC: callers c1 and c2 share an instance, c3 has one  *)
(* of its own, so that the gate's cache and the breaker are both shared    *)
(* and stale.                                                              *)
(***************************************************************************)
EXTENDS ProviderCalls

CONSTANTS c1, c2, c3, i1, i2

TwoInstances == [c \in {c1, c2, c3} |-> IF c = c3 THEN i2 ELSE i1]
=============================================================================
