----------------------------- MODULE MCEnvelope -----------------------------
(* Model checking of Envelope: the constants are given in the .cfg files.   *)
EXTENDS Envelope

============================================================================
