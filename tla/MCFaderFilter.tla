---------------------------- MODULE MCFaderFilter ----------------------------
(* FaderFilter with one bank set whose column changes its mode.            *)
EXTENDS FaderFilter

a == [id |-> "a", mode |-> "raw"]
Recoloured == {<< <<a>> >>, << <<[a EXCEPT !.mode = "color"]>> >>}
=============================================================================
