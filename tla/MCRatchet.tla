----------------------------- MODULE MCRatchet -----------------------------
(* Model checking of Ratchet: the constants are given in the .cfg files.    *)
EXTENDS RatchetInvariant

============================================================================
