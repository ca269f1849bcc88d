--------------------------- MODULE MCShowControl ---------------------------
(* Two shows with a scene in common, and one that does not load; the       *)
(* default scene of the second show is past the last of its scenes.        *)
EXTENDS ShowControl

CONSTANTS f1, f2, f3

MCFile == {f1, f2, f3}
MCBroken == {f3}
MCScenes == [f \in MCFile |-> IF f = f1 THEN {1, 2} ELSE IF f = f2 THEN {2} ELSE {}]
MCDefaultScene == [f \in MCFile |-> IF f = f2 THEN 2 ELSE 1]
=============================================================================
