--------------------------- MODULE MessageStream ---------------------------
(* What a connection of a client promises: the messages the client sends   *)
(* are handled in the order they were sent, each of them once and with the *)
(* type and the payload it was sent with.  Two things may disturb that,    *)
(* and nothing else.  A handler that throws is called once more for the    *)
(* same type with nothing to parse ("ghost").  A handler that gives up     *)
(* before it has read the whole payload leaves the rest of it to be taken  *)
(* for messages ("lost"): from there on nothing is promised.               *)
EXTENDS Naturals, SequencesExt

CONSTANTS Messages, MaxMessages

VARIABLES
  sent,     \* what the client has sent
  handled,  \* what the handlers have been given
  ghosts,   \* how many of these were never sent
  framing   \* "kept", "ghost" (the last one will come again) or "lost"

streamVars == <<sent, handled, ghosts, framing>>

StreamInit ==
  /\ sent = <<>> /\ handled = <<>>
  /\ ghosts = 0
  /\ framing = "kept"

Due == Len(handled) - ghosts + 1

Submit ==
  /\ Len(sent) < MaxMessages
  /\ \E m \in Messages : sent' = Append(sent, m)
  /\ UNCHANGED <<handled, ghosts, framing>>

Deliver ==
  /\ framing = "kept" /\ Due <= Len(sent)
  /\ handled' = Append(handled, sent[Due])
  /\ framing' \in {"kept", "ghost"}
  /\ UNCHANGED <<sent, ghosts>>

Cut ==
  /\ framing = "kept" /\ Due <= Len(sent)
  /\ \E p \in Prefixes(sent[Due].payload) \ {sent[Due].payload} :
       handled' = Append(handled, [sent[Due] EXCEPT !.payload = p])
  /\ framing' = "lost"
  /\ UNCHANGED <<sent, ghosts>>

Ghost ==
  /\ framing = "ghost"
  /\ handled' = Append(handled, [Last(handled) EXCEPT !.payload = <<>>])
  /\ ghosts' = ghosts + 1
  /\ framing' \in {"kept", "ghost"}
  /\ UNCHANGED sent

Garbage ==
  /\ framing = "lost" /\ framing' = "lost"
  /\ Len(handled') = Len(handled) + 1 /\ IsPrefix(handled, handled')
  /\ UNCHANGED <<sent, ghosts>>

StreamNext == Submit \/ Deliver \/ Cut \/ Ghost \/ Garbage
StreamSpec == StreamInit /\ [][StreamNext]_streamVars
=============================================================================
