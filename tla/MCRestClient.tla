---------------------------- MODULE MCRestClient ----------------------------
(* RestClient with every body, or with the bodies of the exchange          *)
(* simulator of the integration tests: the symbols, and objects otherwise. *)
EXTENDS RestClient

AnyBody       == [kind \in Kind |-> Body]
SimulatorBody == [kind \in Kind |-> IF kind = "exchangeInfo" THEN {"symbols"}
                                                             ELSE {"object"}]
=============================================================================
