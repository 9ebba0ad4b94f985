---------------------------- MODULE MCYahooTokens ----------------------------
(* YahooTokens with one process of each kind: the Worker and the Job go     *)
(* through the same steps for a token, and the login interferes with both. *)
EXTENDS YahooTokens

CONSTANTS w1, j1, o1

OneWorker   == {w1}
OneJob      == {j1}
OneOperator == {o1}
=============================================================================
