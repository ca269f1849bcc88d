---------------------------- MODULE MCControlDesk ----------------------------
(* The desk: its bank sets, or one of its columns by itself, since the      *)
(* values of a column do not matter to the sets.                            *)
(*                                                                          *)
(* ControlDesk has one device of one column, and bank sets of no bank, of   *)
(* one bank, and of two banks that share the column of the device.          *)
(* BankColumn has two positions and two steps of every other value, for a   *)
(* direct column and for a plain colour.  The clients send a colour in its  *)
(* ranges, and one whose saturation is beyond its own.                      *)
EXTENDS ControlDesk, BankColumn

a == [id |-> "a", mode |-> "raw"]
b == [id |-> "b", mode |-> "color"]
TwoBanks == {<<>>, << <<a>>, <<b>> >>, << <<b>> >>}

Colours == {<<0, 1, 0>>, <<1, 2, 1>>}
EitherPosition == {<<0, 0>>, <<1, 0>>}

-----------------------------------------------------------------------------
NoDesk ==
  /\ desk = [bank_sets |-> <<>>, index_map |-> <<>>, current |-> 1,
             modified |-> FALSE, required |-> FALSE, selected |-> NoId,
             shown |-> [p \in Positions |-> Off], crashed |-> "absent"]
  /\ updating = [pc |-> "idle", valid |-> FALSE]

NoColumn ==
  /\ col = [mode |-> NoId, active |-> FALSE, ready |-> FALSE, flash |-> FALSE, black |-> FALSE,
            assignment |-> "HUE", on_primary |-> TRUE, accumulated |-> 0]
  /\ live = Zero /\ draft = Zero
  /\ device = Other
  /\ clients = [told |-> Message(col, Zero), dropped |-> FALSE]

PartsInit == (Init /\ NoColumn) \/ (NoDesk /\ ColumnInit)

PartsNext ==
  \/ Next /\ UNCHANGED columnVars
  \/ col.mode \in Modes /\ ColumnNext /\ UNCHANGED vars

PartsSpec == PartsInit /\ [][PartsNext]_<<vars, columnVars>>
=============================================================================
