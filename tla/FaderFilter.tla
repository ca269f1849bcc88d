----------------------------- MODULE FaderFilter -----------------------------
(* A fader filter (filters/filter_fader.hpp) that reads a column of the    *)
(* control desk through a weak pointer, while clients replace and remove   *)
(* the bank set the column is in.                                          *)
EXTENDS ControlDesk

VARIABLE fader \* [set, column, mode, input_col, first_retry]; input_col is the
               \* place of the set of the column and the mode of the column

Expired == [at |-> None, mode |-> NoId]

FaderInit ==
  /\ Init
  /\ fader = [set |-> None, column |-> NoId, mode |-> NoId, input_col |-> Expired,
              first_retry |-> TRUE]

\* desk::find_column
FindColumn(set, column) ==
  IF set \in DOMAIN desk.index_map /\ desk.index_map[set] \in DOMAIN desk.bank_sets
  THEN {[at |-> desk.index_map[set], mode |-> c.mode] :
          c \in {x \in ColumnsOf(desk.bank_sets[desk.index_map[set]]) : x.id = column}}
  ELSE {}

\* setup_filter refuses a column of another mode.
SetupFilter(set, column, mode) ==
  /\ Alive
  /\ \E c \in FindColumn(set, column) :
       /\ c.mode = mode
       /\ fader' = [set |-> set, column |-> column, mode |-> mode, input_col |-> c,
                    first_retry |-> TRUE]
  /\ UNCHANGED vars

\* reload_pointer takes a column of another mode, and no other.
Candidates(f) == {c \in FindColumn(f.set, f.column) : c.mode # f.mode}

Reloaded(f) ==
  IF Candidates(f) = {} THEN [f EXCEPT !.first_retry = FALSE]
  ELSE [f EXCEPT !.input_col = CHOOSE c \in Candidates(f) : TRUE]

UpdateFilter ==
  /\ Alive /\ fader.mode # NoId /\ fader.input_col = Expired /\ fader.first_retry
  /\ fader' = Reloaded(fader)
  /\ UNCHANGED vars

\* receive_update_from_gui: a column that is still there is kept if the new
\* set or column gives none.
PointTo(f) ==
  /\ Alive /\ fader.mode # NoId
  /\ fader' = [(IF Candidates(f) = {} /\ fader.input_col # Expired THEN fader ELSE Reloaded(f))
                 EXCEPT !.first_retry = TRUE]
  /\ UNCHANGED vars

SceneActivated ==
  /\ Alive /\ fader.mode # NoId
  /\ fader' = [fader EXCEPT !.first_retry = TRUE]
  /\ UNCHANGED vars

\* The columns of a set that is replaced or removed are destroyed.
Replaced(id, def, b) ==
  /\ AddMessage(id, def, b)
  /\ fader' = IF id \in DOMAIN desk.index_map /\ fader.input_col.at = desk.index_map[id]
              THEN [fader EXCEPT !.input_col = Expired] ELSE fader

Removed(id) ==
  /\ RemoveMessage(id)
  /\ LET i == desk.index_map[id]
         s == Len(desk.bank_sets)
         at == fader.input_col.at
     IN fader' = IF i > s \/ at \notin {i, s} THEN fader
                 ELSE IF at = i THEN [fader EXCEPT !.input_col = Expired]
                 ELSE [fader EXCEPT !.input_col.at = i]

FaderNext ==
  \/ \E id \in SetIds :
       \/ \E column \in ColumnIds, mode \in {"raw", "color"} : SetupFilter(id, column, mode)
       \/ PointTo([fader EXCEPT !.set = id])
       \/ \E def \in Definitions, b \in 1..2 : Replaced(id, def, b)
       \/ Removed(id)
  \/ \E column \in ColumnIds : PointTo([fader EXCEPT !.column = column])
  \/ UpdateFilter \/ SceneActivated

FaderSpec == FaderInit /\ [][FaderNext]_<<vars, fader>>

-----------------------------------------------------------------------------
(* "The requested column is not in the correct mode": a fader filter reads  *)
(* columns of its own mode only, also after the bank set was replaced.      *)
FaderReadsItsMode == fader.input_col # Expired => fader.input_col.mode = fader.mode
=============================================================================
