--------------------------- MODULE MCHttpServing ---------------------------
(* Loops of up to three, four and five hops, or none.  A client may ask    *)
(* for hop and max below, between and above the limits.                    *)
EXTENDS HttpServing

MCConfigs == [loops : BOOLEAN, maxHops : {3, 4, 5}]
MCHopParams == {<<0, 5>>, <<2, 3>>, <<9, 9>>, <<1, 0>>}
=============================================================================
