--------------------------- MODULE MCTransmission ---------------------------
(* Small instances of Transmission for TLC.                                  *)
EXTENDS Transmission
=============================================================================
