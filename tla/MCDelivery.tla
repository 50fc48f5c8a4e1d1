----------------------------- MODULE MCDelivery -----------------------------
(* Model checking of Delivery: the constants are given in the .cfg file.    *)
EXTENDS Delivery

============================================================================
