--------------------------- MODULE MCEventStorage ---------------------------
(* EventStorage on a small instance: one producer besides the main thread, *)
(* the desk's source and one a client adds, one function per source.  Of   *)
(* the types swap_buffers passes over, INVALID and SINGLE_TRIGGER are one. *)
EXTENDS EventStorage, TLC

CONSTANTS io, main, nobody, gpio, audio, unnamed, fn

MCProducers == {io}
MCNames == {gpio, audio}
MCFunctions == {fn}
MCTypes == {"START", "RELEASE", "ONGOING_EVENT", "SINGLE_TRIGGER"}
=============================================================================
