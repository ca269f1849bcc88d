----------------------------- MODULE ControlDesk -----------------------------
(* The control desk: bank sets of fader banks of columns, shown on the     *)
(* columns of the connected devices: control_desk/desk.cpp and desk.hpp,   *)
(* with what bank_column.cpp does to a column's place in them.             *)
(*                                                                         *)
(* Messages of the clients are handled on the io thread, the buttons of    *)
(* the devices by desk::update on the main thread.  Nothing is locked; a   *)
(* handler is one step here, desk::update is one step per command.         *)
(* Sequences start at 1 where the code counts from 0.                      *)
EXTENDS Integers, FiniteSets, SequencesExt

CONSTANTS
  SetIds,      \* ids of bank sets: naturals, in the order of the std::map
  ColumnIds,   \* ids of columns, unique in a set
  Definitions, \* banks a client may send: sequences of sequences of columns
  Width,       \* columns of a device (get_number_of_supported_columns)
  Devices      \* number of connected devices

ASSUME DeskAssumption ==
  /\ SetIds \subseteq Nat \ {0} /\ Width \in Nat \ {0} /\ Devices \in Nat
  /\ Definitions \subseteq Seq(Seq([id : ColumnIds, mode : STRING]))
  /\ \A def \in Definitions : \A b, c \in DOMAIN def : \A k \in DOMAIN def[b], l \in DOMAIN def[c] :
       def[b][k].id = def[c][l].id => b = c /\ k = l

VARIABLES
  desk,     \* the members of class desk, and what the devices show
  updating  \* desk::update on the main thread: [pc, valid]

vars == <<desk, updating>>

None == 0
NoId == "none"
Off == [ready |-> FALSE, select |-> FALSE]
Positions == 1..(Width * Devices)

Init ==
  /\ desk = [bank_sets |-> <<>>, index_map |-> <<>>, current |-> 1,
             modified |-> FALSE, required |-> FALSE, selected |-> NoId,
             shown |-> [p \in Positions |-> Off], crashed |-> "no"]
  /\ updating = [pc |-> "idle", valid |-> FALSE]

-----------------------------------------------------------------------------
(* Columns on the devices *)

CurrentValid(d) == d.current \in DOMAIN d.bank_sets
Current(d) == d.bank_sets[d.current]
ActiveBank(bs) == IF bs.active_bank \in DOMAIN bs.fader_banks
                  THEN bs.fader_banks[bs.active_bank] ELSE <<>>
ColumnsOf(bs) == UNION {ToSet(bs.fader_banks[b]) : b \in DOMAIN bs.fader_banks}
Crash(d, why) == [d EXCEPT !.crashed = why]

Leds(c) == [ready |-> c.ready, select |-> c.select]

\* Columns of the set i change; those that are on a device show it.
Change(d, i, New(_, _)) ==
  LET old == d.bank_sets[i].fader_banks
      new == [b \in DOMAIN old |-> [k \in DOMAIN old[b] |-> New(b, old[b][k])]]
      lit(p) == {new[b][p] : b \in {x \in DOMAIN new : p \in DOMAIN new[x] /\ new[x][p].active
                                                      /\ new[x][p] # old[x][p]}}
  IN [d EXCEPT !.bank_sets[i].fader_banks = new,
               !.shown = [p \in Positions |-> IF lit(p) = {} THEN @[p]
                                              ELSE Leds(CHOOSE c \in lit(p) : TRUE)]]

SetActive(d, i, state) ==
  Change(d, i, LAMBDA b, c : IF b = d.bank_sets[i].active_bank
                             THEN [c EXCEPT !.active = state] ELSE c)

\* The columns beyond those of the next bank are reset.
Deactivate(d, i, columns_in_next_row) ==
  [SetActive(d, i, FALSE) EXCEPT !.shown =
     [p \in Positions |-> IF p > columns_in_next_row /\ p <= Len(ActiveBank(d.bank_sets[i]))
                          THEN Off ELSE @[p]]]

-----------------------------------------------------------------------------
(* Bank sets *)

\* Mutant: the bank that was shown is not deactivated.
SetActiveBankSetOver(d, index) ==
  IF index \notin DOMAIN d.bank_sets \/ (index = d.current /\ ~d.modified) THEN d
  ELSE LET nbs == d.bank_sets[index]
           bank == IF nbs.active_bank \in DOMAIN nbs.fader_banks THEN nbs.active_bank ELSE 1
       IN SetActive([d EXCEPT !.current = index, !.bank_sets[index].active_bank = bank,
                              !.modified = FALSE, !.required = TRUE], index, TRUE)

SetActiveBankSet(d, index) ==
  IF index \notin DOMAIN d.bank_sets \/ (index = d.current /\ ~d.modified) THEN d
  ELSE LET d1 == Deactivate(d, d.current, Len(ActiveBank(d.bank_sets[index])))
           nbs == d.bank_sets[index]
           bank == IF nbs.active_bank \in DOMAIN nbs.fader_banks THEN nbs.active_bank ELSE 1
       IN SetActive([d1 EXCEPT !.current = index, !.bank_sets[index].active_bank = bank,
                               !.modified = FALSE, !.required = TRUE], index, TRUE)

\* Mutant: no message is sent.
SetActiveFaderBankSilent(d, index) ==
  IF \/ ~CurrentValid(d) \/ index \notin DOMAIN Current(d).fader_banks
     \/ (index = Current(d).active_bank /\ ~d.modified) THEN d
  ELSE LET d1 == Deactivate(d, d.current, Len(Current(d).fader_banks[index]))
       IN SetActive([d1 EXCEPT !.bank_sets[d.current].active_bank = index], d.current, TRUE)

\* The bank that is left is not checked to exist.
SetActiveFaderBank(d, index) ==
  IF \/ ~CurrentValid(d) \/ index \notin DOMAIN Current(d).fader_banks
     \/ (index = Current(d).active_bank /\ ~d.modified) THEN d
  ELSE IF Current(d).active_bank \notin DOMAIN Current(d).fader_banks THEN Crash(d, "bank")
  ELSE LET d1 == Deactivate(d, d.current, Len(Current(d).fader_banks[index]))
       IN SetActive([d1 EXCEPT !.bank_sets[d.current].active_bank = index, !.required = TRUE],
                    d.current, TRUE)

\* The entry of the set that was moved follows it; that of the set that was
\* removed stays.
RemoveBankSet(d, i) ==
  LET s == Len(d.bank_sets)
      d1 == [d EXCEPT !.modified = TRUE]
      entries == {k \in DOMAIN d.index_map : d.index_map[k] = s}
      first == CHOOSE k \in entries : \A l \in entries : k <= l
      moved == [d1 EXCEPT !.bank_sets[i] = d.bank_sets[s],
                          !.index_map = IF entries = {} THEN @ ELSE [@ EXCEPT ![first] = i]]
      Pop(e) == [e EXCEPT !.bank_sets = Front(@)]
  IN IF i > s THEN d1
     ELSE IF i < s THEN Pop(IF d.current = s THEN SetActiveBankSet(moved, i) ELSE moved)
     ELSE IF i # d.current THEN Pop(d1)
     ELSE IF s > 1 THEN Pop(SetActiveBankSet(d1, i - 1))
     ELSE Pop(Deactivate(d1, i, 0))

\* Columns are laid out over the devices; with a column more than there is
\* room for, the device after the last one is used.
Fits(def) == \A b \in DOMAIN def : Devices = 0 \/ Len(def[b]) <= Width * Devices

Created(def) ==
  [b \in DOMAIN def |->
     [k \in 1..(IF Devices = 0 THEN 0 ELSE Len(def[b])) |->
        [id |-> def[b][k].id, mode |-> def[b][k].mode,
         active |-> FALSE, ready |-> FALSE, select |-> FALSE]]]

AddBankSet(d, id, def, default_bank) ==
  LET is_update == id \in DOMAIN d.index_map
      i == IF is_update THEN d.index_map[id] ELSE Len(d.bank_sets) + 1
      added == IF is_update THEN d
               ELSE [d EXCEPT !.bank_sets = Append(@, [id |-> id]),
                              !.index_map = [k \in DOMAIN @ \union {id} |->
                                               IF k = id THEN i ELSE @[k]]]
      d1 == [added EXCEPT !.modified = TRUE,
               !.bank_sets[i] = [id |-> @.id, active_bank |-> default_bank,
                                 fader_banks |-> Created(def), ready |-> {}]]
  IN IF i > Len(added.bank_sets) THEN Crash(d, "set")
     ELSE IF ~Fits(def) THEN Crash(d, "device")
     ELSE IF Len(d1.bank_sets) = 1 THEN SetActiveBankSet(d1, 1) ELSE d1

-----------------------------------------------------------------------------
(* Ready mode and selection *)

HandleReadyState(d, id, new_state) ==
  IF ~CurrentValid(d) THEN d
  ELSE [d EXCEPT !.bank_sets[d.current].ready = IF new_state THEN @ \union {id} ELSE @ \ {id}]

\* The button of the column k of the active bank.
PressReady(d, k) ==
  LET col == ActiveBank(Current(d))[k]
      toggled == Change(d, d.current, LAMBDA b, c :
                   IF b = Current(d).active_bank /\ c.id = col.id
                   THEN [c EXCEPT !.ready = ~col.ready] ELSE c)
  IN HandleReadyState(toggled, col.id, ~col.ready)

CommitReadymode(d) ==
  IF ~CurrentValid(d) THEN d
  ELSE [Change(d, d.current, LAMBDA b, c :
          IF c.id \in Current(d).ready THEN [c EXCEPT !.ready = FALSE] ELSE c)
        EXCEPT !.bank_sets[d.current].ready = {}]

HandleSelectState(d, id, new_state) ==
  LET chosen == IF new_state /\ \E c \in ColumnsOf(Current(d)) : c.id = id THEN id ELSE NoId
  IN IF ~CurrentValid(d) THEN d
     ELSE [Change(d, d.current, LAMBDA b, c :
             IF c.id \in {d.selected, chosen} THEN [c EXCEPT !.select = (c.id = chosen)] ELSE c)
           EXCEPT !.selected = chosen, !.required = TRUE]

-----------------------------------------------------------------------------
(* The io thread *)

Alive == desk.crashed = "no"

AddMessage(id, def, b) ==
  /\ Alive /\ desk' = AddBankSet(desk, id, def, b)
  /\ UNCHANGED updating

RemoveMessage(id) ==
  /\ Alive /\ id \in DOMAIN desk.index_map
  /\ desk' = RemoveBankSet(desk, desk.index_map[id])
  /\ UNCHANGED updating

\* process_desk_update_message
SelectMessage ==
  /\ Alive
  /\ \E id \in SetIds, b \in 1..2, c \in ColumnIds \union {NoId} :
       LET d1 == IF id \in DOMAIN desk.index_map
                 THEN SetActiveBankSet([desk EXCEPT !.required = TRUE], desk.index_map[id])
                 ELSE desk
           d2 == SetActiveFaderBank(d1, b)
       IN desk' = (IF c # d2.selected /\ d2.crashed = "no" THEN HandleSelectState(d2, c, TRUE) ELSE d2)
  /\ UNCHANGED updating

\* process_readymode_update_from_gui: the columns take notice of a commit
\* only.
ReadymodeMessage ==
  /\ Alive /\ desk' = CommitReadymode(desk)
  /\ UNCHANGED updating

-----------------------------------------------------------------------------
(* The main thread: desk::update *)

StartUpdate ==
  /\ Alive /\ updating.pc = "idle"
  /\ updating' = [pc |-> "commands", valid |-> CurrentValid(desk)]
  /\ UNCHANGED desk

InCommands == Alive /\ updating.pc = "commands" /\ UNCHANGED updating

Shown == IF CurrentValid(desk) THEN ActiveBank(Current(desk)) ELSE <<>>

ReadyButton == InCommands /\ \E k \in DOMAIN Shown : desk' = PressReady(desk, k)
SelectButton == InCommands /\ \E k \in DOMAIN Shown :
  desk' = HandleSelectState(desk, Shown[k].id, ~Shown[k].select)
CommitButton == InCommands /\ desk' = (CommitReadymode(desk))
BankButton == InCommands /\ \E step \in {-1, 1} :
  desk' = (SetActiveFaderBank(desk, (IF CurrentValid(desk)
                                    THEN desk.bank_sets[desk.current].active_bank ELSE 1) + step))

\* The set is read for the message if there was one before the commands.
EndUpdate ==
  /\ Alive /\ updating.pc = "commands"
  /\ updating' = [pc |-> "idle", valid |-> FALSE]
  /\ desk' = IF ~desk.required THEN desk
             ELSE IF updating.valid /\ ~CurrentValid(desk) THEN Crash(desk, "set")
             ELSE [desk EXCEPT !.required = FALSE]

-----------------------------------------------------------------------------
Next ==
  \/ \E id \in SetIds : \/ \E def \in Definitions, b \in 1..2 : AddMessage(id, def, b)
                         \/ RemoveMessage(id)
  \/ SelectMessage \/ ReadymodeMessage
  \/ StartUpdate \/ ReadyButton \/ SelectButton \/ CommitButton \/ BankButton \/ EndUpdate

Spec == Init /\ [][Next]_vars

-----------------------------------------------------------------------------
(* Values the members can take; every set that is referred to exists.       *)
TypeOK ==
  /\ \A i \in DOMAIN desk.bank_sets :
       /\ desk.bank_sets[i].id \in SetIds /\ desk.bank_sets[i].ready \subseteq ColumnIds
       /\ \A c \in ColumnsOf(desk.bank_sets[i]) :
            c.id \in ColumnIds /\ {c.active, c.ready, c.select} \subseteq BOOLEAN
  /\ desk.bank_sets # <<>> => CurrentValid(desk)
  /\ desk.shown \in [Positions -> [ready : BOOLEAN, select : BOOLEAN]]

(* The devices show the active bank of the current set and nothing else:    *)
(* only its columns are active, all of them are unless sets have been       *)
(* changed since, and each lights its buttons as its state says, whatever   *)
(* was selected, committed, moved or removed on either thread.              *)
ShowsActiveBank ==
  /\ \A i \in DOMAIN desk.bank_sets : LET bs == desk.bank_sets[i] IN
       \A b \in DOMAIN bs.fader_banks : \A k \in DOMAIN bs.fader_banks[b] :
         bs.fader_banks[b][k].active => /\ i = desk.current /\ b = bs.active_bank
                                        /\ desk.shown[k] = Leds(bs.fader_banks[b][k])
  /\ desk.modified \/ \A k \in DOMAIN Shown : Shown[k].active

(* A commit reaches every column in ready mode: the ready set that a bank   *)
(* set keeps next to its columns names exactly those that are in ready mode.*)
ReadySetExact ==
  \A i \in DOMAIN desk.bank_sets :
    desk.bank_sets[i].ready = {c.id : c \in {x \in ColumnsOf(desk.bank_sets[i]) : x.ready}}

Announced(d) == IF CurrentValid(d) THEN <<Current(d).id, Current(d).active_bank, d.selected>>
                ELSE <<None, 0, d.selected>>

(* The clients are told of the set, the bank and the column that are active *)
(* when they change: a message is due then, unless the clients have changed *)
(* the sets themselves and not yet chosen one.                              *)
ChangesAnnounced ==
  [][Announced(desk') # Announced(desk) => desk'.required \/ desk'.modified]_desk

(* The bank sets, the device and the ready mode agree between any two       *)
(* messages and cycles (desk.cpp:22-169, 461-629, 730-771).                 *)
DeskSound == TypeOK /\ ShowsActiveBank /\ ReadySetExact
=============================================================================
