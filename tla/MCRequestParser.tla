-------------------------- MODULE MCRequestParser --------------------------
(* The parser on short files: TLC enumerates every content and every way   *)
(* of cutting the request into pieces.                                     *)
EXTENDS RequestParser
=============================================================================
