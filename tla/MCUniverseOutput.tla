-------------------------- MODULE MCUniverseOutput --------------------------
(* UniverseOutput with two universes on two device numbers, the sequence   *)
(* numbers 1 to 3 and three objects, so that an id changes its kind twice. *)
EXTENDS UniverseOutput
=============================================================================
