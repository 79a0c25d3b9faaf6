--------------------------- MODULE MCHeaderLines ---------------------------
(* An instance of HeaderLines for TLC. *)
EXTENDS HeaderLines, TLC
=============================================================================
