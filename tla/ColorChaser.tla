---------------------------- MODULE ColorChaser ----------------------------
(***************************************************************************)
(* The colour chaser filter (filters/chaser): a configuration sent by a    *)
(* client is a list of layers that are applied in order, in every cycle,   *)
(* to a row of pixels and to a mask with one entry for each of them.  The  *)
(* layers with a movement of their own advance with the scaled time or,    *)
(* in event mode, with the events of one sender.                           *)
(*                                                                         *)
(* A mask entry is a number of 16 bits whose largest value, Full, is 100   *)
(* percent.  A pixel is the set of colours it is mixed from: how much of   *)
(* each is not told apart, nor are the channels of a colour.               *)
(***************************************************************************)
EXTENDS Integers, SequencesExt

CONSTANTS
  N,           \* number_of_pixels
  Full,        \* largest value of a mask entry (65535)
  Minute,      \* length of a minute (60000), for the strobe
  MaxBpm,      \* beyond this many beats the strobe follows the cycles (750)
  Forever,     \* the period of the strobe without beats (INT32_MAX)
  Curves,      \* what sines and bell curves may draw: any masks
  Live,        \* an argument that is read from the number input
  Levels,      \* values of the number input
  ChaserScales, \* values of the time_scale input
  ChaserConfigs, \* configurations clients send: sequences of [name, args]
  ChaserLag,   \* bound: time between two cycles
  ChaserTime,  \* bound: time stops there
  ChaserEvents \* bound: events between two activations

Pixels == 0..(N - 1)
Masks == [Pixels -> 0..Full]
Channel == {"r", "g", "b", "h", "s", "i"}
Operation == {"add", "sub", "mul", "div"}

\* The layers that are built, with the number of arguments that is checked.
Required ==
  [plain_color |-> 1, rainbow |-> 2, sprinkles |-> 5, dots |-> 5, scale |-> 4,
   scale_inv |-> 4, flat_mask |-> 1, maskmod__add |-> 3, maskmod__sub |-> 3,
   maskmod__mul |-> 3, maskmod__div |-> 3, mask_shift |-> 1, color_shift |-> 1,
   trig__sin |-> 4, trig__cos |-> 4, trig__tan |-> 4, strobe |-> 1,
   johnson__fwd |-> 2, johnson__rev |-> 2, colormix |-> 2, random_color |-> 2,
   gaussian_blur |-> 1, gaussian_curve_on_mask |-> 3, invert_mask |-> 0,
   invert_color |-> 0, close_to_center |-> 3, open_from_center |-> 3,
   segwave__fwd |-> 4, segwave__rev |-> 4, wave__fwd |-> 4, wave__rev |-> 4]

\* The names memory is counted for.  The pass that builds the layers spells
\* those of the channels differently, so that they are skipped.
Sized == DOMAIN Required
         \cup {"color_chanmod__" \o c : c \in Channel}
         \cup {"color_chancalc__" \o c \o "__" \o o : c \in Channel, o \in Operation}

\* The arguments in front of the numbers.
Coloured(name) == CASE name = "plain_color" -> 1 [] name \in {"rainbow", "colormix"} -> 2 [] OTHER -> 0

IsSequence(s) == Len(s) \in Nat /\ s = [i \in 1..Len(s) |-> s[i]]

\* A number is read as one of 16 bits.  rainbow reads a third argument behind
\* the two that are checked; what it finds without one is undefined, and no
\* client is taken to do that.
ASSUME ChaserAssumption ==
  /\ {N, Full, Minute, MaxBpm, ChaserLag, ChaserTime} \subseteq Nat \ {0}
  /\ Curves \subseteq Masks /\ Levels \subseteq 0..Full /\ ChaserScales \subseteq Nat
  /\ {ChaserEvents, Forever} \subseteq Nat
  /\ \A cfg \in ChaserConfigs :
       /\ IsSequence(cfg)
       /\ \A k \in DOMAIN cfg :
            /\ cfg[k].name = "rainbow" => Len(cfg[k].args) # 2
            /\ cfg[k].name \in DOMAIN Required =>
                 /\ IsSequence(cfg[k].args)
                 /\ \A a \in DOMAIN cfg[k].args :
                      a > Coloured(cfg[k].name) => cfg[k].args[a] \in 0..Full \cup {Live}

VARIABLES
  status,      \* "absent", "refused", "running" or "crashed"
  by_events,   \* uses_steps
  setup,       \* the layers of the configuration, <<>> without one
  layers,      \* the state of each of them
  last_update, \* last_update_time
  clock, time_scale, level, \* the inputs
  pixels, mask,
  steps, early, base, highest, \* ghosts: see the properties
  activated, unsteady          \* likewise

ghosts == <<steps, early, base, highest, activated, unsteady>>
chaserVars == <<status, by_events, setup, layers, last_update, clock, time_scale,
                level, pixels, mask, ghosts>>

-----------------------------------------------------------------------------
(* The configuration. *)

Accepted(cfg) ==
  \A k \in DOMAIN cfg :
    /\ cfg[k].name \in Sized
    /\ cfg[k].name \in DOMAIN Required => Len(cfg[k].args) >= Required[cfg[k].name]

Built(cfg) ==
  LET upTo[k \in 0..Len(cfg)] ==
        IF k = 0 THEN <<>>
        ELSE IF cfg[k].name \in DOMAIN Required THEN Append(upTo[k - 1], cfg[k]) ELSE upTo[k - 1]
  IN upTo[Len(cfg)]

\* pos: current_shift, progress, location_offset or current_step; seen: the
\* last_mask_size of johnson; moves: history.
NewLayer == [pos |-> 0, rem |-> 0, on |-> TRUE, seen |-> 0, moves |-> 0]

\* What the filter asks of its configuration in a show.
Loads(conf) ==
  /\ conf.number_of_pixels
  /\ conf.trigger_event # "malformed"
  /\ conf.trigger_event = "" => conf.inputs = {"time", "time_scale"}
  /\ conf.parameters = {"color_parameters", "number_parameters"}

\* Arguments past the first few may be colours.
Arg(l, k) == IF l.args[k] = Live THEN level ELSE l.args[k]

-----------------------------------------------------------------------------
(* How layers advance. *)

Shifts == {"mask_shift", "color_shift"}
Johnsons == {"johnson__fwd", "johnson__rev"}
Centred == {"close_to_center", "open_from_center"}
Waves == {"segwave__fwd", "segwave__rev", "wave__fwd", "wave__rev"}
Timed == Johnsons \cup Centred \cup Waves \cup {"dots"}

\* One step: a johnson counter starts again behind its last pixel and changes
\* from lighting pixels to darkening them, or back.
Advanced(l, s) ==
  LET fwd == s.pos + 1 <= s.seen
      rev == s.pos > 0
  IN CASE l.name = "johnson__fwd" ->
            [s EXCEPT !.pos = IF fwd THEN @ + 1 ELSE 0, !.on = (@ = fwd), !.moves = @ + 1]
       [] l.name = "johnson__rev" ->
            [s EXCEPT !.pos = IF rev THEN @ - 1 ELSE s.seen, !.on = (@ = rev), !.moves = @ + 1]
       [] OTHER -> [s EXCEPT !.pos = @ + 1, !.moves = @ + 1]

\* step: an event.
Stepped(l, s) ==
  CASE l.name \in Timed -> Advanced(l, s)
    [] l.name \in Shifts \cup {"strobe"} -> [s EXCEPT !.rem = 0]
    [] OTHER -> s

\* reset: the shifts and the dots keep the time they have left.
Reset(l, s) ==
  CASE l.name \in Timed \ {"dots"} -> [NewLayer EXCEPT !.seen = s.seen]
    [] l.name = "strobe" -> [NewLayer EXCEPT !.on = FALSE]
    [] OTHER -> [s EXCEPT !.pos = 0, !.moves = 0]

UpdateTime(l) == Arg(l, IF l.name = "dots" THEN 3 ELSE 1)

StrobeTime(bpm) ==
  CASE bpm = 0 -> Forever
    [] bpm > MaxBpm -> 0
    [] OTHER -> Minute \div (2 * bpm)

Due(l, rem) ==
  IF l.name \in Timed
  THEN rem < 0 /\ (UpdateTime(l) > 0 \/ l.name \in Centred \cup Waves)
  ELSE l.name \in Shifts \cup {"strobe"} /\ rem <= 0

\* The first lines of apply: what is left of the update time may be less than
\* nothing, and the next period does not get the difference.
Ticked(l, s, elapsed) ==
  LET seen == IF l.name \in Johnsons THEN N ELSE s.seen
      rem == IF l.name \in Timed \cup Shifts \cup {"strobe"} THEN s.rem - elapsed ELSE 0
      t == [s EXCEPT !.rem = rem, !.seen = seen]
      moved == IF ~ Due(l, rem) THEN t
               ELSE IF l.name \in Timed THEN [Advanced(l, t) EXCEPT !.rem = UpdateTime(l)]
               ELSE IF l.name = "strobe" THEN [t EXCEPT !.rem = StrobeTime(Arg(l, 1)), !.on = ~ @]
               ELSE [t EXCEPT !.rem = Arg(l, 1), !.pos = (@ + 1) % N]
  IN IF l.name \in Centred /\ moved.pos >= N \div 2 THEN [moved EXCEPT !.pos = 0] ELSE moved

-----------------------------------------------------------------------------
(* What layers do to the mask.  S is the state of the layer in this cycle. *)

AtLeastOne(n) == Max({1, n})

Word(n) == n % (Full + 1)
Distance(a, b) == IF a < b THEN b - a ELSE a - b
Truncated(a, b) ==
  LET size == Distance(a, 0) \div Distance(b, 0)
  IN IF (a < 0) = (b < 0) THEN size ELSE -size
Power(b, n) == LET power[k \in 0..n] == IF k = 0 THEN 1 ELSE b * power[k - 1] IN power[n]
\* intensity * (1 - decay/Full)^distance
Decayed(intensity, decay, distance) ==
  (intensity * Power(Full - decay, distance)) \div Power(Full, distance)

JohnsonMask(l, s) ==
  [i \in Pixels |-> IF (i <= s.pos) = s.on THEN Arg(l, 2) ELSE 0]

DotsMask(l, s) ==
  LET segment == N \div AtLeastOne(Arg(l, 1))
      lit(i) == Arg(l, 2) > segment \/ (i + s.pos) % segment < segment - Arg(l, 2)
  IN [i \in Pixels |-> IF lit(i) THEN Arg(l, 5) ELSE Arg(l, 4)]

Edge(n) == IF n >= Full THEN N ELSE (n * N) \div Full
Affected(l) == Edge(Arg(l, 2)) .. (Edge(Arg(l, 3)) - 1)
ModMask(l, m) ==
  LET v == Arg(l, 1)
      changed(x) == CASE l.name = "maskmod__add" -> x + v
                      [] l.name = "maskmod__sub" -> x - v
                      [] l.name = "maskmod__mul" -> x * v
                      [] l.name = "maskmod__div" -> x \div v
  IN [i \in Pixels |-> IF i \in Affected(l) THEN Word(changed(m[i])) ELSE m[i]]

\* The ramp from one value to the other; its slope is a whole number.
ScaleMask(l) ==
  LET first == Arg(l, 1)
      end == Arg(l, 2)
      before == IF l.name = "scale" THEN Arg(l, 4) ELSE Arg(l, 3)
      behind == IF l.name = "scale" THEN Arg(l, 3) ELSE Arg(l, 4)
      slope == Truncated(behind - before, IF l.name = "scale" THEN end - first ELSE first - end)
  IN [i \in Pixels |-> IF i < first THEN before
                       ELSE IF i < end THEN Word(slope * (i - first) + before)
                       ELSE behind]

CentreMask(l, s, m) ==
  LET half == N \div 2
      lit(i) == IF l.name = "open_from_center"
                THEN i \in (half - s.pos) .. (half + s.pos - 1)
                ELSE IF i < half THEN i < s.pos ELSE i - half > s.pos
  IN [i \in Pixels |-> IF lit(i) THEN Word(m[i] + Decayed(Arg(l, 3), Arg(l, 2), Distance(s.pos, i)))
                       ELSE m[i]]

\* The distance is unsigned: one below nothing is huge, and what has decayed
\* over it is nothing unless nothing decays.
SegWaveMask(l, s, m) ==
  LET length == N \div AtLeastOne(Arg(l, 3))
      distance(i) == (s.pos % length) - (i % length)
      light(i) == IF distance(i) > 0 THEN Decayed(Arg(l, 4), Arg(l, 2), distance(i))
                  ELSE IF distance(i) < 0 /\ Arg(l, 2) = 0 THEN Arg(l, 4) ELSE 0
  IN [i \in Pixels |-> Word(m[i] + light(i))]

\* Backwards, the loop compares a negative with an unsigned number and does
\* not run; forwards, it leaves out the first pixel.
WaveMask(l, s, m) ==
  LET length == N \div Arg(l, 3)
      behind(i) == (length - ((i + s.pos) % length)) % length
  IN IF l.name = "wave__rev" THEN m
     ELSE [i \in Pixels |-> IF i = 0 THEN m[i]
                            ELSE Word(m[i] + Decayed(Arg(l, 4), Arg(l, 2), behind(i)))]

\* Random places; the sprinkles may overlap.
SprinkleMasks(l) ==
  LET half == Arg(l, 2) \div 2
      places == half .. (half + N - Arg(l, 2) - 1)
      lit(P) == UNION {(p - half) .. (p + half - 1) : p \in P}
  IN {[i \in Pixels |-> IF i \in lit(P) THEN Arg(l, 5) ELSE Arg(l, 4)] :
        P \in {Q \in SUBSET places : /\ Cardinality(Q) <= Arg(l, 1)
                                     /\ Q = {} => Arg(l, 1) = 0}}

FlatMask(l) == [i \in Pixels |-> Arg(l, 1)]
ShiftedMask(s, m) == [i \in Pixels |-> m[(i + s.pos) % N]]
InvertedMask(m) == [i \in Pixels |-> Full - m[i]]
StrobeMask(s, m) == [i \in Pixels |-> IF s.on THEN m[i] ELSE 0]
TrigMasks == Curves

\* A bell curve without width divides by zero.
BellMasks(l, m) ==
  IF Arg(l, 2) = 0 THEN Curves
  ELSE {[i \in Pixels |-> Min({Full, m[i] + c[i]})] : c \in Curves}

\* The masks a layer may leave.
MasksOf(l, s, m) ==
  CASE l.name = "flat_mask" -> {FlatMask(l)}
    [] l.name \in {"maskmod__add", "maskmod__sub", "maskmod__mul", "maskmod__div"} ->
         {ModMask(l, m)}
    [] l.name = "mask_shift" -> {ShiftedMask(s, m)}
    [] l.name = "invert_mask" -> {InvertedMask(m)}
    [] l.name = "strobe" -> {StrobeMask(s, m)}
    [] l.name \in {"scale", "scale_inv"} -> {ScaleMask(l)}
    [] l.name \in Johnsons -> {JohnsonMask(l, s)}
    [] l.name = "dots" -> {DotsMask(l, s)}
    [] l.name \in Centred -> {CentreMask(l, s, m)}
    [] l.name = "segwave__fwd" -> {SegWaveMask(l, s, m)}
    [] l.name \in {"wave__fwd", "wave__rev"} -> {WaveMask(l, s, m)}
    [] l.name = "sprinkles" -> SprinkleMasks(l)
    [] l.name \in {"trig__sin", "trig__cos", "trig__tan"} -> TrigMasks
    [] l.name = "gaussian_curve_on_mask" -> BellMasks(l, m)
    [] OTHER -> {m}

-----------------------------------------------------------------------------
(* What layers do to the pixels. *)

White == {"white"}

\* mix_color_interleaving(p, c, m / 100 percent): all of the first at Full.
Mixed(p, c, m) == IF m = Full THEN p ELSE IF m = 0 THEN c ELSE p \cup c

Inverted(p) == {"not " \o c : c \in p}

\* Segments of a rainbow lead from the second colour to the first.
Rainbow(l, i) ==
  LET length == AtLeastOne(N \div AtLeastOne(Arg(l, 3)))
      colour == i % length
  IN IF colour = 0 THEN {l.args[2]}
     ELSE IF colour = length - 1 THEN {l.args[1]} ELSE {l.args[1], l.args[2]}

\* Left of the first pixel the kernel reads the last one: the index wraps.
Blurred(l, p, i) ==
  LET radius == Min({Arg(l, 1), N \div 2})
      read(k) == IF k < 0 \/ k >= N THEN N - 1 ELSE k
  IN IF radius = 0 THEN p[i] ELSE UNION {p[read(k)] : k \in (i - radius) .. (i + radius)}

Plain(l) == {l.args[1]}
Mix(l) == {l.args[1], l.args[2]}
Random == {"random"}
ShiftedColour(s, p, i) == p[(i + s.pos) % N]

PixelsOf(l, s, m, p) ==
  [i \in Pixels |->
    CASE l.name = "plain_color" -> Mixed(p[i], Plain(l), m[i])
      [] l.name = "colormix" -> Mixed(p[i], Mix(l), m[i])
      [] l.name = "random_color" -> Mixed(p[i], Random, m[i])
      [] l.name = "rainbow" -> Mixed(p[i], Rainbow(l, i), Full - m[i])
      [] l.name = "invert_color" -> Mixed(p[i], Inverted(p[i]), m[i])
      [] l.name = "color_shift" -> Mixed(p[i], ShiftedColour(s, p, i), m[i])
      [] l.name = "gaussian_blur" -> Mixed(p[i], Blurred(l, p, i), m[i])
      [] OTHER -> p[i]]

\* Divisions by zero, the loop of segwave__rev that does not end, and sprinkles
\* that are longer than the row.
Fails(l) ==
  CASE l.name = "dots" -> Arg(l, 1) > N
    [] l.name = "maskmod__div" -> Arg(l, 1) = 0 /\ Affected(l) # {}
    [] l.name = "segwave__fwd" -> Arg(l, 3) > N
    [] l.name = "segwave__rev" -> TRUE
    [] l.name = "wave__fwd" -> Arg(l, 3) \notin 1..N
    [] l.name = "wave__rev" -> Arg(l, 3) = 0
    [] l.name = "random_color" -> Arg(l, 1) > N
    [] l.name = "sprinkles" -> Arg(l, 1) > 0 /\ Arg(l, 2) >= N
    [] OTHER -> FALSE

Applied(l, s, r) ==
  {[mask |-> m, pixels |-> PixelsOf(l, s, r.mask, r.pixels)] : m \in MasksOf(l, s, r.mask)}

\* One layer after the other, from a white row and a full mask.
Execute(states) ==
  LET upTo[k \in 0..Len(setup)] ==
        IF k = 0 THEN {[mask |-> [i \in Pixels |-> Full], pixels |-> [i \in Pixels |-> White]]}
        ELSE UNION {Applied(setup[k], states[k], r) : r \in upTo[k - 1]}
  IN upTo[Len(setup)]

-----------------------------------------------------------------------------
(* The filter. *)

Confs == [number_of_pixels : BOOLEAN, trigger_event : {"", "malformed", "sender:function"},
          inputs : SUBSET {"time", "time_scale"},
          parameters : SUBSET {"color_parameters", "number_parameters"}]

ChaserReady ==
  /\ setup = <<>> /\ layers = <<>> /\ last_update = -1
  /\ clock = 0 /\ time_scale \in ChaserScales /\ level \in Levels
  /\ pixels = [i \in Pixels |-> White] /\ mask = [i \in Pixels |-> Full]
  /\ steps = 0 /\ early = 0 /\ base = 0 /\ highest = 0
  /\ activated = FALSE /\ unsteady = FALSE

ChaserInit ==
  /\ ChaserReady
  /\ \E conf \in Confs : /\ status = IF Loads(conf) THEN "running" ELSE "refused"
                         /\ by_events = (conf.trigger_event # "")

\* Event mode does not read the time inputs.
Scaled(t, factor) == IF by_events THEN 0 ELSE t * factor

\* receive_update_from_gui, by the show file or by a client: the new layers
\* start with a last_update_time of -1 and are not reset.
ReceiveConfig(cfg) ==
  /\ status = "running" /\ Accepted(cfg)
  /\ setup' = Built(cfg)
  /\ layers' = [k \in DOMAIN Built(cfg) |-> NewLayer]
  /\ last_update' = -1
  /\ steps' = 0 /\ early' = 0 /\ activated' = FALSE /\ unsteady' = FALSE
  /\ base' = Scaled(clock, time_scale) /\ highest' = base'
  /\ UNCHANGED <<status, by_events, clock, time_scale, level, pixels, mask>>

ActivateChaser ==
  /\ status = "running" /\ setup # <<>>
  /\ layers' = [k \in DOMAIN setup |-> Reset(setup[k], layers[k])]
  /\ last_update' = Scaled(clock, time_scale)
  /\ steps' = 0 /\ early' = 0 /\ activated' = TRUE
  /\ base' = last_update' /\ highest' = base'
  /\ UNCHANGED <<status, by_events, unsteady, setup, clock, time_scale, level, pixels, mask>>

\* Mutant: several events of one cycle are one step.
AfterEventsOnce(events) ==
  [k \in DOMAIN setup |-> IF events > 0 THEN Stepped(setup[k], layers[k]) ELSE layers[k]]

\* The events of the cycle step every layer, then all are applied.
AfterEvents(events) ==
  [k \in DOMAIN setup |->
     LET after[e \in 0..events] == IF e = 0 THEN layers[k] ELSE Stepped(setup[k], after[e - 1])
     IN after[events]]

UpdateChaser ==
  /\ status = "running" /\ setup # <<>>
  /\ \E lag \in 1..ChaserLag, factor \in ChaserScales, events \in 0..ChaserEvents :
       /\ IF by_events THEN steps + events <= ChaserEvents /\ lag = 1 /\ factor = time_scale
                       ELSE clock + lag <= ChaserTime /\ events = 0
       /\ clock' = IF by_events THEN clock ELSE clock + lag
       /\ time_scale' = factor
       /\ LET now == Scaled(clock', factor)
          IN /\ last_update' = now
             /\ layers' = [k \in DOMAIN setup |->
                  Ticked(setup[k], AfterEvents(events)[k],
                         IF by_events THEN 0 ELSE now - last_update)]
             /\ base' = IF last_update < 0 THEN now ELSE base
             /\ highest' = IF last_update < 0 THEN now ELSE Max({highest, now})
       /\ steps' = steps + events
       /\ early' = IF \E k \in DOMAIN layers : layers[k].seen = N THEN early ELSE early + events
       /\ unsteady' = (unsteady \/ factor # time_scale)
  /\ level' \in Levels
  /\ IF \E k \in DOMAIN setup : Fails(setup[k])
     THEN status' = "crashed" /\ UNCHANGED <<pixels, mask>>
     ELSE /\ status' = status
          /\ \E r \in Execute(layers') : pixels' = r.pixels /\ mask' = r.mask
  /\ UNCHANGED <<by_events, setup, activated>>

ChaserNext ==
  \/ \E cfg \in ChaserConfigs : ReceiveConfig(cfg)
  \/ ActivateChaser
  \/ UpdateChaser
ChaserSpec == ChaserInit /\ [][ChaserNext]_chaserVars

-----------------------------------------------------------------------------
(* Values the variables can take: the masks stay within their 16 bits and   *)
(* every layer within the row, whatever the layers compute.                 *)
ChaserTypeOK ==
  /\ status \in {"absent", "refused", "running", "crashed"}
  /\ mask \in Masks /\ DOMAIN pixels = Pixels
  /\ \A i \in Pixels : pixels[i] # {}
  /\ Len(layers) = Len(setup)
  /\ \A k \in DOMAIN layers :
       /\ {layers[k].rem, layers[k].pos} \subseteq Int
       /\ setup[k].name \in Shifts => layers[k].pos \in Pixels
       /\ setup[k].name \in Johnsons => layers[k].pos \in 0..N
       /\ setup[k].name \in Centred =>
            layers[k].pos \in 0..Max({0, N \div 2 - 1})

Even(n) == n % 2 = 0

(* In event mode a layer is where the events since the activation of the    *)
(* scene bring it: none is lost or counted twice by cycles, although it is  *)
(* the cycle that applies the layers.  A johnson counter does not know its  *)
(* row before its first cycle: until then an event takes it through a whole *)
(* pass.                                                                    *)
StepsFollowEvents ==
  by_events =>
    \A k \in DOMAIN setup :
      LET s == layers[k]
          n == steps + N * early
      IN CASE setup[k].name \in Waves \cup {"dots"} -> s.pos = steps
           [] setup[k].name = "johnson__fwd" ->
                s.pos = n % (N + 1) /\ s.on = Even(n \div (N + 1))
           [] setup[k].name = "johnson__rev" ->
                s.pos = (-n) % (N + 1) /\ s.on = Even((n + N) \div (N + 1))
           [] OTHER -> TRUE

(* With a fixed update time a layer moves at the pace of the scaled time    *)
(* since the scene was activated, whatever the speed is changed to and how  *)
(* late cycles are: never more often than the update time allows, though    *)
(* once at once for a configuration that was not activated yet, and, while  *)
(* nobody changes the speed, not less often than late cycles explain.       *)
PaceKept ==
  ~ by_events =>
    \A k \in {j \in DOMAIN setup : setup[j].name \in Timed} :
      LET l == setup[k]
          time == l.args[IF l.name = "dots" THEN 3 ELSE 1]
          moves == layers[k].moves
          atOnce == IF activated THEN 0 ELSE time + 1
          lag == ChaserLag * time_scale
      IN time \notin {0, Live} =>
           /\ moves * (time + 1) <= time + (highest - base) + atOnce
           /\ ~ unsteady => last_update - base <= moves * (time + lag) + time

(* What events, cycles and configurations keep true of the layers, in       *)
(* whatever order they come, and at which pace (color_chaser.cpp:120-162).  *)
ChaserSound == ChaserTypeOK /\ StepsFollowEvents /\ PaceKept
=============================================================================
