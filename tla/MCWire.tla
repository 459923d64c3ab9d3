------------------------------- MODULE MCWire -------------------------------
(* The instances of MCABD with the sizes of messages and buffers.          *)
EXTENDS MCABD, Wire
=============================================================================
