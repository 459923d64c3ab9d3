---------------------------- MODULE MCRateLimit ----------------------------
(* Two threads with two commands each, and a third thread with one.        *)
EXTENDS RateLimit

MCOp == 1 .. 5
MCThread == 1 .. 3
MCThreadOf == <<1, 2, 1, 2, 3>>
=============================================================================
