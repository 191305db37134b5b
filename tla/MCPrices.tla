------------------------------ MODULE MCPrices ------------------------------
(* Prices with a key two clients share, the same symbol written otherwise, *)
(* and a key of an unknown type.                                           *)
EXTENDS Prices

Shared  == {<<"d1", "BTC:trade">>, <<"d2", "BTC:trade">>, <<"d2", "btc:trade">>,
            <<"d1", "BTC:news">>}
Lower   == [k \in Keys |-> IF k = "BTC:news" THEN NoStream ELSE "btc@trade"]
Upper   == [s \in Streams |-> "BTC:trade"]
=============================================================================
