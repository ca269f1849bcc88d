--------------------------- MODULE EventDelivery ---------------------------
(***************************************************************************)
(* What dmxfish::events::event_storage promises to the filters of a scene: *)
(* an event whose insertion succeeded is shown in exactly one main loop    *)
(* cycle, in the order of insertion, and a function whose last START was   *)
(* not yet followed by a RELEASE is shown as ONGOING in every cycle.       *)
(* How the promise is kept (two buffers, a mutex nobody waits for while    *)
(* inserting, an incremental map of held functions) is EventStorage.       *)
(***************************************************************************)
EXTENDS Naturals, Sequences

CONSTANT Event      \* records with the fields id, type and key

VARIABLES
  accepted,   \* every event whose insertion succeeded, in order
  presented,  \* how many of them were shown to the filters, up to now
  sealed,     \* how many of them are shown up to the cycle being prepared
  stage,      \* "shown", "retired" (between two cycles), "sealed"
  batch,      \* the events the filters can read now
  lasting     \* the ONGOING events the filters can read now

vars == <<accepted, presented, sealed, stage, batch, lasting>>

(* Event i of the log opens its key and no later event opens or closes it. *)
OpenedLast(log, i) ==
  /\ log[i].type = "START"
  /\ \A j \in i + 1 .. Len(log) :
       log[j].key = log[i].key => log[j].type \notin {"START", "RELEASE"}

(* The functions a log leaves held, each with the START that holds it.     *)
Held(log) ==
  { [key |-> log[i].key, start |-> log[i].id] :
      i \in { i \in DOMAIN log : OpenedLast(log, i) } }

Init ==
  /\ accepted = <<>>
  /\ presented = 0 /\ sealed = 0
  /\ stage = "shown"
  /\ batch = <<>> /\ lasting = {}

(* An insertion succeeds.                                                  *)
Accept ==
  /\ \E e \in Event : accepted' = Append(accepted, e)
  /\ UNCHANGED <<presented, sealed, stage, batch, lasting>>

(* The cycle is over: what it showed is gone.                              *)
Retire ==
  /\ stage = "shown"
  /\ stage' = "retired"
  /\ batch' = <<>> /\ lasting' = {}
  /\ UNCHANGED <<accepted, presented, sealed>>

(* Everything accepted so far, and nothing else, belongs to the next cycle.*)
Seal ==
  /\ stage = "retired"
  /\ stage' = "sealed"
  /\ sealed' = Len(accepted)
  /\ UNCHANGED <<accepted, presented, batch, lasting>>

Present ==
  /\ stage = "sealed"
  /\ stage' = "shown"
  /\ batch' = SubSeq(accepted, presented + 1, sealed)
  /\ lasting' = Held(SubSeq(accepted, 1, sealed))
  /\ presented' = sealed
  /\ UNCHANGED <<accepted, sealed>>

Next == Accept \/ Retire \/ Seal \/ Present

Spec == Init /\ [][Next]_vars
=============================================================================
