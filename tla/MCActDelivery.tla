--------------------------- MODULE MCActDelivery ---------------------------
(* Small instances of ActDelivery.                                         *)
EXTENDS ActDelivery
=============================================================================
