---------------------------- MODULE MCHandshake ----------------------------
(* Model checking of Handshake: the constants are given in the .cfg files.  *)
EXTENDS Handshake

============================================================================
