------------------------------ MODULE MCHybrid ------------------------------
(* Model checking of both handshake profiles: the constants are given in    *)
(* the .cfg file.                                                           *)
EXTENDS Hybrid

============================================================================
