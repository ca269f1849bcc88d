------------------------------ MODULE BankColumn ------------------------------
(* One column of a fader bank (control_desk/bank_column.cpp and .hpp): the *)
(* values that filters read, the values edited in ready mode next to them, *)
(* what the fader, ring, meter and buttons of the device show, and what    *)
(* the clients were told.                                                  *)
(*                                                                         *)
(* Positions are 16 bit, colours floating point numbers: here positions    *)
(* count modulo FaderPositions, hue in steps of the encoder (15 degrees,   *)
(* HueTop of them in a turn), saturation, amber and uv in steps up to Top. *)
(* A client's colour is stored as it is sent, out of these ranges, too (no *)
(* NaN here); an intensity below -0.5 reads as black, which is in range.   *)
(* The texts of the display are left out; the select button is in          *)
(* ControlDesk.                                                            *)
EXTENDS Integers

CONSTANTS
  Modes,           \* kinds of columns
  FaderPositions,  \* 65536
  HueTop,          \* 360 / 15
  Top,             \* 255, or 128 steps of saturation
  MaxAccumulated,  \* 1024
  HueBound,        \* bound: the hue is not turned further than this
  ClientColours,   \* hue, saturation and intensity that clients may send
  ClientPositions  \* primary and secondary position that clients may send

ASSUME ColumnAssumption ==
  /\ Modes \subseteq {"hsi", "direct", "amber", "uv", "amber_uv"}
  /\ {FaderPositions, HueTop, Top, MaxAccumulated, HueBound} \subseteq Nat \ {0}
  /\ HueTop <= HueBound
  /\ ClientColours \subseteq (-HueBound..HueBound) \X Int \X Int
  /\ ClientPositions \subseteq (0..(FaderPositions - 1)) \X (0..(FaderPositions - 1))

VARIABLES
  col,     \* flags of the column and the assignment of its encoder
  live,    \* color, raw_configuration, amber, uv
  draft,   \* readymode_color, readymode_raw_configuration, ...
  device,  \* what the column's part of the device shows
  clients  \* the last message to the clients, and whether a draft was dropped since

columnVars == <<col, live, draft, device, clients>>

Zero == [primary |-> 0, secondary |-> 0, intensity |-> 0,
         HUE |-> 0, SATURATION |-> 0, AMBER |-> 0, UV |-> 0]
Direct(c) == c.mode = "direct"

\* The part of the values that a message holds.
Message(c, v) ==
  CASE c.mode = "hsi" -> <<v.HUE, v.SATURATION, v.intensity>>
    [] c.mode \in {"uv", "amber_uv"} -> <<v.HUE, v.SATURATION, v.intensity, v.UV>>
    [] OTHER -> <<v.primary, v.secondary>>

\* The device shows another column, which this module does not tell apart.
Other == [fader |-> 0, ring |-> 0, meter |-> 0, buttons |-> <<FALSE, FALSE, FALSE>>,
          committed |-> FALSE]

ColumnInit ==
  /\ \E mode \in Modes :
       col = [mode |-> mode, active |-> FALSE, ready |-> FALSE, flash |-> FALSE, black |-> FALSE,
              assignment |-> "HUE", on_primary |-> TRUE, accumulated |-> 0]
  /\ live = Zero /\ draft = Zero
  /\ device = Other
  /\ clients = [told |-> Message(col, Zero), dropped |-> FALSE]

-----------------------------------------------------------------------------
(* The device.  Each operator gives the device after one update_ function, *)
(* for the column c with the live values l and the draft d.                *)

Dropped == [told |-> <<>>, dropped |-> TRUE]
Edited(c, l, d) == IF c.ready THEN d ELSE l
Half(c) == IF c.on_primary THEN "primary" ELSE "secondary"
OtherHalf(c) == IF c.on_primary THEN "secondary" ELSE "primary"

\* Not in ready mode, unless the column has just been activated.
Fader(dev, c, l, d, from_activate) ==
  IF ~c.active \/ (c.ready /\ ~from_activate) THEN dev
  ELSE [dev EXCEPT !.fader = Edited(c, l, d)[Half(c)], !.committed = FALSE]

\* A direct column shows a value that is not edited: in ready mode the other
\* half of the live values, otherwise the second half of the draft.
Ring(dev, c, l, d) ==
  IF ~c.active THEN dev
  ELSE [dev EXCEPT !.ring = IF ~Direct(c) THEN Edited(c, l, d).HUE
                            ELSE IF c.ready THEN l[OtherHalf(c)] ELSE d.secondary]

Meter(dev, c, l, d) ==
  IF ~c.active \/ Direct(c) THEN dev ELSE [dev EXCEPT !.meter = Edited(c, l, d).SATURATION]

Buttons(dev, c) ==
  IF ~c.active THEN dev ELSE [dev EXCEPT !.buttons = <<c.ready, c.flash, c.black>>]

RingAndMeter(dev, c, l, d) == Meter(Ring(dev, c, l, d), c, l, d)

-----------------------------------------------------------------------------
(* Inputs on the device, and from the clients in place of them *)

Tell(c, l, d) == clients' = [told |-> Message(c, Edited(c, l, d)), dropped |-> FALSE]

\* The values that are edited become New of them.
Edit(New(_)) ==
  IF col.ready THEN draft' = New(draft) /\ UNCHANGED live
  ELSE live' = New(live) /\ UNCHANGED draft

\* Mutant: the intensity of a column in ready mode is written to its live colour.
FaderChangeLive(p) ==
  /\ IF col.ready /\ Direct(col) THEN draft' = [draft EXCEPT ![Half(col)] = p] /\ UNCHANGED live
     ELSE live' = [live EXCEPT !.primary = p, !.intensity = p] /\ UNCHANGED draft
  /\ device' = IF col.active THEN Fader([device EXCEPT !.fader = p], col, live', draft', FALSE) ELSE Other
  /\ Tell(col, live', draft')
  /\ UNCHANGED col

\* On the device, or by a client; the fader of the device is at p then, or
\* moves there.
FaderChange(p) ==
  /\ Edit(LAMBDA v : IF Direct(col) THEN [v EXCEPT ![Half(col)] = p]
                     ELSE [v EXCEPT !.primary = p, !.intensity = p])
  /\ device' = IF col.active THEN Fader([device EXCEPT !.fader = p], col, live', draft', FALSE) ELSE Other
  /\ Tell(col, live', draft')
  /\ UNCHANGED col

Clamped(x) == IF x > Top THEN Top ELSE IF x < 0 THEN 0 ELSE x
WrappedOnce(x) == IF x > HueTop THEN x - HueTop ELSE IF x < 0 THEN HueTop + x ELSE x

\* The positions are changed in every mode, the fader follows in direct mode.
\* A hue that has gone round more than once leaves the circle.
EncoderChange(request) ==
  LET acc == IF col.accumulated < MaxAccumulated THEN col.accumulated + 1 ELSE col.accumulated
      change == request * acc
      Turned(v) ==
        LET raw == [v EXCEPT ![Half(col)] = (@ + change) % FaderPositions]
        IN IF Direct(col) THEN raw
           ELSE [raw EXCEPT ![col.assignment] = IF col.assignment = "HUE"
                                                THEN WrappedOnce(@ + change) ELSE Clamped(@ + change)]
      shown == RingAndMeter(device, col, live', draft')
  IN /\ col' = [col EXCEPT !.accumulated = acc]
     /\ Edit(Turned) /\ {live'.HUE, draft'.HUE} \subseteq -HueBound..HueBound
     /\ device' = IF Direct(col) THEN Fader(shown, col, live', draft', FALSE) ELSE shown
     /\ Tell(col, live', draft')

NextAssignment(c) ==
  CASE c.assignment = "HUE" -> "SATURATION"
    [] c.assignment = "SATURATION" /\ c.mode \in {"amber", "amber_uv"} -> "AMBER"
    [] c.assignment = "SATURATION" /\ c.mode = "uv" -> "UV"
    [] c.assignment = "AMBER" /\ c.mode = "amber_uv" -> "UV"
    [] OTHER -> "HUE"

RotaryButton ==
  /\ col' = IF Direct(col) THEN [col EXCEPT !.on_primary = ~@]
            ELSE [col EXCEPT !.assignment = NextAssignment(col)]
  /\ device' = IF Direct(col) THEN Fader(device, col', live, draft, FALSE) ELSE device
  /\ UNCHANGED <<live, draft, clients>>

\* Ready mode starts from the live values.  When the column leaves it the
\* draft is dropped; the clients are not told.
PressReadyButton ==
  /\ col' = [col EXCEPT !.ready = ~@]
  /\ draft' = IF col.ready THEN draft ELSE live
  /\ LET dev == Buttons(device, col')
     IN device' = RingAndMeter(Fader(dev, col', live, draft', FALSE), col', live, draft')
  /\ clients' = IF col.ready THEN Dropped ELSE clients
  /\ UNCHANGED live

FlashButton(pressed) ==
  /\ col' = [col EXCEPT !.flash = pressed] /\ device' = Buttons(device, col')
  /\ UNCHANGED <<live, draft, clients>>

BlackButton ==
  /\ col' = [col EXCEPT !.black = ~@] /\ device' = Buttons(device, col')
  /\ UNCHANGED <<live, draft, clients>>

DeviceInput ==
  \/ \E p \in 0..(FaderPositions - 1) : FaderChange(p)
  \/ \E request \in {-1, 1} : EncoderChange(request)
  \/ RotaryButton \/ PressReadyButton \/ BlackButton
  \/ \E pressed \in BOOLEAN : FlashButton(pressed)

-----------------------------------------------------------------------------
(* Calls of the bank and of the desk *)

\* Mutant: the meter and the ring are not updated.
ActivateColumnPartly(state) ==
  /\ col' = [col EXCEPT !.active = state]
  /\ device' = IF state THEN Buttons(Fader(device, col', live, draft, TRUE), col') ELSE Other
  /\ UNCHANGED <<live, draft, clients>>

ActivateColumn(state) ==
  /\ col' = [col EXCEPT !.active = state]
  /\ device' = IF ~state THEN Other
               ELSE Buttons(RingAndMeter(Fader(device, col', live, draft, TRUE), col', live, draft), col')
  /\ UNCHANGED <<live, draft, clients>>

\* The fader stays where it is.
Commit ==
  /\ col.ready
  /\ col' = [col EXCEPT !.ready = FALSE]
  /\ live' = draft /\ UNCHANGED draft
  /\ device' = [Meter(Buttons(device, col'), col', live', draft) EXCEPT !.committed = col.active]
  /\ Tell(col', live', draft)

\* The changes of an encoder add up until it has been still for 750 ms.
Update ==
  /\ col' = [col EXCEPT !.accumulated = 0]
  /\ UNCHANGED <<live, draft, device, clients>>

\* An intensity out of its range has no 16 bit position: undefined.
PositionsOf(i) == IF i \in 0..(FaderPositions - 1) THEN {i} ELSE 0..(FaderPositions - 1)

\* A message of a client sets the live colour in ready mode, too, and the
\* position of whichever values are edited.  The colour is not checked.
SetColor(h, s, i) ==
  /\ col.mode = "hsi"
  /\ \E p \in PositionsOf(i) :
       /\ live' = [live EXCEPT !.HUE = h, !.SATURATION = s, !.intensity = i,
                               !.primary = IF col.ready THEN @ ELSE p]
       /\ draft' = [draft EXCEPT !.primary = IF col.ready THEN p ELSE @]
  /\ device' = RingAndMeter(Fader(device, col, live', draft', FALSE), col, live', draft')
  /\ Tell(col, live', draft')
  /\ UNCHANGED col

SetUv(uv) ==
  /\ Edit(LAMBDA v : [v EXCEPT !.UV = uv])
  /\ Tell(col, live', draft')
  /\ UNCHANGED <<col, device>>

\* Mutant: the clients are not told.
SetRawSilent(p, q) ==
  /\ live' = [live EXCEPT !.primary = p, !.secondary = q]
  /\ device' = Ring(Fader(device, col, live', draft, FALSE), col, live', draft)
  /\ UNCHANGED <<col, draft, clients>>

SetRaw(p, q) ==
  /\ live' = [live EXCEPT !.primary = p, !.secondary = q]
  /\ device' = Ring(Fader(device, col, live', draft, FALSE), col, live', draft)
  /\ Tell(col, live', draft)
  /\ UNCHANGED <<col, draft>>

ClientColour == \E c \in ClientColours : SetColor(c[1], c[2], c[3])

ClientMessage ==
  \/ ClientColour
  \/ col.mode # "hsi" /\ \E uv \in 0..Top : SetUv(uv)
  \/ \E c \in ClientPositions : SetRaw(c[1], c[2])

ColumnNext ==
  \/ DeviceInput \/ ClientMessage \/ Commit \/ Update
  \/ \E state \in BOOLEAN : ActivateColumn(state)

ColumnSpec == ColumnInit /\ [][ColumnNext]_columnVars

-----------------------------------------------------------------------------
Values == [primary : 0..(FaderPositions - 1), secondary : 0..(FaderPositions - 1), intensity : Int,
           HUE : -HueBound..HueBound, SATURATION : Int, AMBER : 0..Top, UV : 0..Top]

(* Positions, amber and uv stay in their ranges, however far the encoder is *)
(* turned and whatever the clients send.                                    *)
ValuesInRange == live \in Values /\ draft \in Values

ColourRanges == [SATURATION |-> 0..Top, intensity |-> 0..(FaderPositions - 1)]

(* Saturation and intensity, too, but for those that a client sends: what   *)
(* else happens to a column gives it a value in range, or leaves or copies  *)
(* the one it has.                                                          *)
ColoursInRange ==
  [][\/ \A v \in {live', draft'}, m \in DOMAIN ColourRanges :
          v[m] \in ColourRanges[m] \cup {live[m], draft[m]}
     \/ ClientColour]_columnVars

(* In ready mode nothing that is done on the device reaches the values that *)
(* filters read, neither directly nor when ready mode is left.              *)
DraftsStayPrivate == [][col.ready /\ live' # live => ~DeviceInput]_columnVars

(* A column on the device shows what is edited: the lights of its buttons,  *)
(* the ring and the meter of a colour, and, until a commit leaves the fader *)
(* where it was, the fader of a direct column out of ready mode.            *)
DeviceShowsEdited ==
  LET v == Edited(col, live, draft)
  IN col.active =>
       /\ device.buttons = <<col.ready, col.flash, col.black>>
       /\ ~Direct(col) => device.ring = v.HUE /\ device.meter = v.SATURATION
       /\ Direct(col) /\ ~col.ready /\ ~device.committed => device.fader = v[Half(col)]

(* The clients know the values that are edited, whoever edits them, until a *)
(* draft is dropped.                                                        *)
ClientsKnow ==
  clients.dropped \/ clients.told = Message(col, Edited(col, live, draft))

(* What every order of inputs, commits and messages keeps true of a column  *)
(* and of the strip that shows it (bank_column.cpp:38-290, 449-531).        *)
ColumnSound == [](ValuesInRange /\ DeviceShowsEdited) /\ ColoursInRange
=============================================================================
