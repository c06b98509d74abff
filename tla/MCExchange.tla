------------------------------ MODULE MCExchange ------------------------------
(* The lists of middlewares that are registered in the instances of Exchange. *)
EXTENDS Exchange

MCLists == {<<>>, <<"auth">>, <<"cors", "contentType">>}
MCGlobals == {<<>>, <<"requestID", "logger", "recovery">>, <<"recovery", "logger", "requestID">>}
MCSkipSets == {{}, {"auth", "logger"}}
=============================================================================
