--------------------------- MODULE MCSceneLoading ---------------------------
(* A file of a few scenes on a pool by itself; the first has an id.        *)
EXTENDS SceneLoading, TLC

MCExplicitId == 1 :> 9
=============================================================================
