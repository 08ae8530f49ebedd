-------------------------- MODULE MCProviderStream --------------------------
(* An instance of ProviderStream: two calls with a gap between them, whose *)
(* fragments come in any order.                                            *)
EXTENDS ProviderStream

CONSTANTS a, b

MCPosition == [c \in {a, b} |-> IF c = a THEN 0 ELSE 2]
=============================================================================
