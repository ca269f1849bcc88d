---------------------------- MODULE SignalFilters ----------------------------
(* The small filters of a scene (filters/*.hpp, filter_color_mixer_*.cpp,  *)
(* filter_event_counter.cpp): one filter, from its construction and setup  *)
(* by the scene factory on, in cycle after cycle of its scene.  The scene  *)
(* around it, a clock, the events and the clients are the environment.     *)
(*                                                                         *)
(* A kind is a filter class with the type of the channels it is a template *)
(* over.  A float is counted in halves, times are whole milliseconds, and  *)
(* a colour is its red, green and blue word; where the code computes with  *)
(* real numbers beyond that, the model allows every result in their range. *)
EXTENDS Integers, FiniteSets, SequencesExt

CONSTANTS
  Kinds,        \* the kinds of the filter: <<class, type>>
  Byte,         \* values of a byte (256)
  Floats,       \* values on float inputs
  Colours,      \* values on colour inputs
  Delay,        \* of the delay filters, in ms
  SwitchTimes,  \* on the switch_time input, in ms
  Second,       \* ms in a counter window (1000)
  Windows,      \* windows in bpm_window (4)
  MaxEvents,    \* bound: events of the counted sender in a cycle
  SignalLag,    \* bound: ms between two cycles
  SignalTime    \* bound: ms

\* The types a class is a template over (filter_type); to the others the
\* type of their kind does not matter.
Types == {"8bit", "16bit", "float", "color"}
TypesOf(class) ==
  CASE class \in {"filter_float_to_X", "filter_multi_t_sum", "float_map_range",
                  "delay_switch_on", "delay_switch_off"} -> {"8bit", "16bit", "float"}
    [] class = "filter_to_float" -> {"8bit", "16bit"}
    [] OTHER -> Types

ASSUME SignalAssumption ==
  /\ \A k \in Kinds : k = <<k[1], k[2]>> /\ k[2] \in TypesOf(k[1])
  /\ Byte \in Nat \ {0, 1} /\ Floats \subseteq Int /\ SwitchTimes \subseteq Int
  /\ Colours \subseteq [1 .. 3 -> 0 .. Byte * Byte - 1]
  /\ {Delay, MaxEvents, SignalTime} \subseteq Nat
  /\ {Second, Windows, SignalLag} \subseteq Nat \ {0}

VARIABLES
  kind, conf,   \* what the show asks for; the state of its configuration
  feed,         \* the types of the channels linked to its inputs
  phase,
  in, out,      \* values on its channels, after an update
  mem,          \* its other members
  millis,
  since,        \* first of the updates that all had a value to delay
  marks, seen   \* what was seen when each window began; events since activation

signalGhosts == <<since, marks, seen>>
signalVars == <<kind, conf, feed, phase, in, out, mem, millis, signalGhosts>>

AsWord == Byte * Byte
Integer(t) == 0 .. (IF t = "8bit" THEN Byte ELSE AsWord) - 1
TopOf(t) == (IF t = "8bit" THEN Byte ELSE AsWord) - 1
Values(t) == CASE t \in {"8bit", "16bit"} -> Integer(t)
               [] t = "float" -> Floats
               [] t = "color" -> Colours
IsValue(t, v) == CASE t \in {"8bit", "16bit"} -> v \in Integer(t)
                   [] t = "float" -> v \in Int
                   [] t = "color" -> v \in [1 .. 3 -> Integer("16bit")]
Zero(t) == IF t = "color" THEN <<0, 0, 0>> ELSE 0

Clamp(v, lo, hi) == IF v < lo THEN lo ELSE IF v > hi THEN hi ELSE v
Larger(a, b) == IF a < b THEN b ELSE a
Smaller(a, b) == IF a < b THEN a ELSE b
-----------------------------------------------------------------------------
(* The inputs each class looks up in setup_filter, with their types, and   *)
(* the outputs it announces; t is the type of the template.                *)
Nothing == [n \in {} |-> "none"]
All(names, t) == [n \in names |-> t]
Ports(i, o) == [in |-> i, out |-> o]

DualByte == Ports([value |-> "16bit"], All({"value_lower", "value_upper"}, "8bit"))
ToBool == Ports([value_in |-> "16bit"], [value |-> "8bit"])
MultiplyAdd == Ports(All({"factor1", "factor2", "summand"}, "float"), [value |-> "float"])
FloatToX(t) == Ports([value_in |-> "float"], [value |-> t])
PixelToRgb == Ports([value |-> "color"], All({"r", "g", "b"}, "8bit"))
PixelToRgbw == Ports([value |-> "color"], All({"r", "g", "b", "w"}, "8bit"))
FloatsToPixel == Ports(All({"h", "s", "i"}, "float"), [value |-> "color"])
PixelToFloats == Ports([input |-> "color"], All({"h", "s", "i"}, "float"))
ToFloat(t) == Ports([value_in |-> t], [value |-> "float"])
RangeMapper(t) == Ports([value_in |-> "float"], [value |-> t])
CombineBytes == Ports(All({"lower", "upper"}, "8bit"), [value |-> "16bit"])
ByteToWord == Ports([value_in |-> "8bit"], [value |-> "16bit"])

Conversions(t) == [
  filter_16bit_to_dual_byte |-> DualByte, filter_16bit_to_bool |-> ToBool,
  filter_multiply_add |-> MultiplyAdd, filter_float_to_X |-> FloatToX(t),
  filter_pixel_to_rgb |-> PixelToRgb, filter_pixel_to_rgbw |-> PixelToRgbw,
  filter_floats_to_pixel |-> FloatsToPixel, filter_pixel_to_floats |-> PixelToFloats,
  filter_to_float |-> ToFloat(t), float_map_range |-> RangeMapper(t),
  filter_combine_bytes |-> CombineBytes, filter_map_8bit_to_16bit |-> ByteToWord]

WaveInputs == {"value_in", "factor_outer", "factor_inner", "phase", "offset"}
Numbers == {"0", "1"}    \* the numbered inputs of a filter configured for two

MathSingle == Ports([value_in |-> "float"], [value |-> "float"])
MathDual == Ports(All({"param1", "param2"}, "float"), [value |-> "float"])
MultiSum(t) == Ports(All(Numbers, t), [value |-> t])
Trigonometric == Ports(All(WaveInputs, "float"), [value |-> "float"])
FiveParams == Ports(All(WaveInputs \union {"length"}, "float"), [value |-> "float"])

Calculations(t) == [
  filter_math_single |-> MathSingle, filter_minimum |-> MathDual, filter_maximum |-> MathDual,
  filter_multi_t_sum |-> MultiSum(t), filter_trigonometric |-> Trigonometric,
  filter_tangent |-> Trigonometric, filter_square |-> FiveParams]

Mixer == Ports(All(Numbers, "color"), [value |-> "color"])
Mixers == [filter_color_mixer_add_rgb |-> Mixer, filter_color_mixer_norm_rgb |-> Mixer,
           filter_color_mixer_hsv |-> Mixer]

Constant(t) == Ports(Nothing, [value |-> t])
Constants(t) == [filter_constant |-> Constant(t), responding_constant |-> Constant(t)]

Debug(t) == Ports([value |-> t], Nothing)
Debugs(t) == [debug |-> Debug(t), debug_remote |-> Debug(t)]

Delayer(t) == Ports([value_in |-> t, time |-> "float"], [value |-> t])
Delays(t) == [filter_time |-> Ports(Nothing, [value |-> "float"]),
              delay_switch_on |-> Delayer(t), delay_switch_off |-> Delayer(t)]

Shifter(t) ==
  Ports([input |-> t, time |-> "float", switch_time |-> "float"], All({"output_1", "output_2", "output_3"}, t))

\* The output is announced without the name of the filter.
Switch(t) == Ports([n \in Numbers \union {"select"} |-> IF n = "select" THEN "8bit" ELSE t], [out |-> t])

Counter == Ports([time |-> "float"], All({"bpm", "freq"}, "16bit"))

\* Its output is a channel of its universe.
UniverseOutput == Ports([channel |-> "8bit"], [dmx |-> "8bit"])

\* construct_filter, and get_filter_memory_size before it: a type it does
\* not count is refused, though the program knows its number.
PortsOf(k) ==
  LET c == k[1]
      t == k[2]
  IN  CASE c \in DOMAIN Conversions(t) -> Conversions(t)[c]
        [] c \in DOMAIN Calculations(t) -> Calculations(t)[c]
        [] c \in DOMAIN Mixers -> Mixers[c]
        [] c \in DOMAIN Constants(t) -> Constants(t)[c]
        [] c \in DOMAIN Debugs(t) -> Debugs(t)[c]
        [] c \in DOMAIN Delays(t) -> Delays(t)[c]
        [] c = "filter_shift" -> Shifter(t)
        [] c = "filter_switch" -> Switch(t)
        [] c = "filter_event_counter" -> Counter
        [] c = "filter_universe_output" -> UniverseOutput
        [] OTHER -> Ports(Nothing, Nothing)

PortTable == [k \in Kinds |-> PortsOf(k)]
ConversionClasses == DOMAIN Conversions("8bit")
CalculationClasses == DOMAIN Calculations("8bit")
MixerClasses == DOMAIN Mixers
ConstantClasses == DOMAIN Constants("8bit")
DebugClasses == DOMAIN Debugs("8bit")
DelayClasses == {"delay_switch_on", "delay_switch_off"}
AllocatedClasses ==
  UNION {ConversionClasses, CalculationClasses, MixerClasses, ConstantClasses, DebugClasses, DelayClasses,
         {"filter_time", "filter_shift", "filter_switch", "filter_event_counter", "filter_universe_output"}}

Class == kind[1]
Type == kind[2]
Ins == PortTable[kind].in
Outs == PortTable[kind].out
-----------------------------------------------------------------------------
(* Setting up.  A configuration may lack its entry, or hold a text that is *)
(* no number, a number too large to read, or a negative one.  What comes   *)
(* of it: an exception the scene factory reports as the show's error       *)
(* ("refused"), any other exception, which ends the scene's task           *)
(* ("crashed"), or a filter without inputs ("bare").                       *)
Faults == {"missing", "garbage", "huge", "negative"}
Faulty(missing, garbage, huge, negative) ==
  [missing |-> missing, garbage |-> garbage, huge |-> huge, negative |-> negative]

Sloppy == Faulty("refused", "refused", "crashed", "refused")
ConstantFaults == Faulty("refused", "refused", "refused", "sound")
DelayFaults == Faulty("refused", "refused", "crashed", "sound")
MixerFaults == Faulty("bare", "crashed", "crashed", "crashed")
RangeFaults == Faulty("sound", "refused", "refused", "sound")
UniverseFaults == Faulty("refused", "crashed", "crashed", "refused")
CounterFaults == Faulty("refused", "crashed", "crashed", "sound")

ConfOutcome(class) ==
  CASE class \in {"filter_shift", "filter_switch", "filter_multi_t_sum"} -> Sloppy
    [] class \in ConstantClasses -> ConstantFaults
    [] class \in DelayClasses -> DelayFaults
    [] class \in MixerClasses -> MixerFaults
    [] class = "float_map_range" -> RangeFaults
    [] class = "filter_universe_output" -> UniverseFaults
    [] class = "filter_event_counter" -> CounterFaults
    [] OTHER -> Faulty("sound", "sound", "sound", "sound")

PreSetUp == {"filter_shift", "filter_switch"}

Outcome == IF conf = "sound" THEN "sound" ELSE ConfOutcome(Class)[conf]

\* The links of a show name channels of any type, or are missing.
Feeds(k) ==
  LET ins == PortTable[k].in
  IN  {ins} \union {[ins EXCEPT ![n] = t] : n \in DOMAIN ins, t \in Types \union {"none"}}


\* Values of the inputs the model tells apart: the time is the scene's
\* clock, how far into its wave a wave filter is does not matter, and of
\* some filters only the type of the result is known.  All inputs of a class
\* are of one type, but for two classes.
Opaque == {"filter_pixel_to_rgbw", "filter_floats_to_pixel", "filter_pixel_to_floats", "filter_tangent",
           "filter_color_mixer_norm_rgb", "filter_color_mixer_hsv"}

Sampled(k) ==
  LET names == DOMAIN PortTable[k].in
  IN  IF k[1] \in Opaque THEN {}
      ELSE IF WaveInputs \subseteq names THEN {"factor_outer", "offset"}
      ELSE names \ {"time"}

Selections(t) ==
  {[n \in Numbers \union {"select"} |-> IF n = "select" THEN s ELSE v[n]] :
     v \in [Numbers -> Values(t)], s \in Values("8bit")}

InputsOf(k) ==
  CASE k[1] = "filter_shift" ->
         {[input |-> v, switch_time |-> st] : v \in Values(k[2]), st \in SwitchTimes}
    [] k[1] = "filter_switch" -> Selections(k[2])
    [] Sampled(k) = {} -> {<< >>}
    [] OTHER -> [Sampled(k) -> Values(PortTable[k].in[CHOOSE n \in Sampled(k) : TRUE])]

InputTable == [k \in Kinds |-> InputsOf(k)]
Inputs == IF Outcome = "bare" THEN {<< >>} ELSE InputTable[kind]

SignalInit ==
  /\ kind \in Kinds
  /\ \/ conf = "sound" /\ feed \in Feeds(kind)
     \/ conf \in Faults /\ feed = Ins
  /\ phase = "new"
  /\ in = << >> /\ out = << >> /\ mem = << >> /\ millis = 0
  /\ since = 0 /\ marks = << >> /\ seen = 0

(* schedule_filters: construct_filter, and pre_setup of the two classes    *)
(* that announce outputs or inputs by their configuration.                 *)
Construct ==
  /\ phase = "new"
  /\ phase' = CASE Class \notin AllocatedClasses -> "refused"
                [] Class \in PreSetUp /\ Outcome # "sound" -> Outcome
                [] OTHER -> "scheduled"
  /\ UNCHANGED <<kind, conf, feed, in, out, mem, millis, signalGhosts>>

FromShow(t) == IF t \in {"8bit", "16bit"} THEN {Clamp(v, 0, TopOf(t)) : v \in -1 .. TopOf(t) + 1} ELSE Values(t)

\* A member without an initial value: what the memory held.
Uninitialised == {-1, 0, SignalTime}

\* The output of a switch, unless it is a colour, is such a member.
FirstOut ==
  IF Class \in ConstantClasses THEN {[value |-> v] : v \in FromShow(Type)}
  ELSE IF Class = "filter_switch" /\ Type # "color" THEN {[out |-> v] : v \in Values(Type)}
  ELSE {[n \in DOMAIN Outs |-> Zero(Outs[n])]}

FirstMem ==
  CASE Class = "filter_shift" -> {[last_update |-> u] : u \in Uninitialised}
    [] Class \in DelayClasses -> {[last_update |-> 0]}
    [] Class = "filter_event_counter" ->
         {[time_til_next_count |-> Second, last_update |-> 0, counted_events |-> 0,
           bpm_window |-> [w \in 1 .. Windows |-> 0]]}
    [] Class = "float_map_range" ->
         {[lower_in |-> 0, upper_in |-> 2, lower_out |-> 0, upper_out |-> u, limit |-> l] :
            u \in {IF Type = "float" THEN 2 ELSE 2 * TopOf(Type)}, l \in BOOLEAN}
    [] Class = "filter_universe_output" -> {[universe |-> TRUE]}
    [] OTHER -> {<< >>}

(* connect_filters: get_output_channels, the links, and setup_filter.  The *)
(* counter looks its time up without asking whether it is there.           *)
SetUp ==
  /\ phase = "scheduled"
  /\ \/ /\ feed # Ins
        /\ phase' = IF Class = "filter_event_counter" THEN "crashed" ELSE "refused"
        /\ UNCHANGED <<out, mem>>
     \/ /\ feed = Ins /\ Outcome \in {"refused", "crashed"}
        /\ phase' = Outcome
        /\ UNCHANGED <<out, mem>>
     \/ /\ feed = Ins /\ Outcome \in {"sound", "bare"}
        /\ phase' = "ready"
        /\ out' \in FirstOut /\ mem' \in FirstMem
  /\ UNCHANGED <<kind, conf, feed, in, millis, signalGhosts>>
-----------------------------------------------------------------------------
(* filter_conversion.hpp.  Results are the sets of outputs an update may   *)
(* leave.                                                                  *)
Halves(n) == {n \div 2, (n + 1) \div 2}
Round(x) == IF x >= 0 THEN (x + 1) \div 2 ELSE -((1 - x) \div 2)

\* Casting a number that the type does not hold is undefined.
Cast(t, v) == IF v \in Integer(t) THEN {v} ELSE Integer(t)

Split(w) == [value_lower |-> w % Byte, value_upper |-> w \div Byte]
Combine(lower, upper) == upper * Byte + lower

FloatTo(t, x) == IF t = "float" THEN {2 * Round(x)} ELSE Cast(t, Round(x))

Whole(t, x) == IF t = "float" THEN x ELSE Round(Clamp(x, 0, 2 * TopOf(t)))

Mapped(m, x) ==
  LET v == IF m.limit THEN Larger(Smaller(x, m.upper_in), m.lower_in) ELSE x
      sign == IF m.upper_in > m.lower_in THEN 1 ELSE -1
      num == sign * (v - m.lower_in) * (m.upper_out - m.lower_out)
      den == sign * (m.upper_in - m.lower_in)
  IN  {Whole(Type, q + m.lower_out) : q \in {num \div den, (num + den - 1) \div den}}

Converted(i) ==
  CASE Class = "filter_16bit_to_dual_byte" -> {Split(i.value)}
    [] Class = "filter_16bit_to_bool" -> {[value |-> IF i.value_in > 0 THEN 1 ELSE 0]}
    [] Class = "filter_multiply_add" ->
         {[value |-> p + i.summand] : p \in Halves(i.factor1 * i.factor2)}
    [] Class = "filter_float_to_X" -> {[value |-> v] : v \in FloatTo(Type, i.value_in)}
    [] Class = "filter_pixel_to_rgb" ->
         {[r |-> i.value[1] \div Byte, g |-> i.value[2] \div Byte, b |-> i.value[3] \div Byte]}
    [] Class = "filter_pixel_to_rgbw" ->
         {o \in [{"r", "g", "b", "w"} -> Integer("8bit")] : 0 \in {o.r, o.g, o.b}}
    [] Class = "filter_floats_to_pixel" -> {[value |-> c] : c \in Colours}
    [] Class = "filter_pixel_to_floats" -> [{"h", "s", "i"} -> {0, 1}]
    [] Class = "filter_to_float" -> {[value |-> 2 * i.value_in]}
    [] Class = "float_map_range" -> {[value |-> v] : v \in Mapped(mem, i.value_in)}
    [] Class = "filter_combine_bytes" -> {[value |-> Combine(i.lower, i.upper)]}
    [] Class = "filter_map_8bit_to_16bit" -> {[value |-> Combine(i.value_in, i.value_in)]}

(* filter_math.hpp and filter_trigonometric.hpp: the function of a math    *)
(* filter of one input is never applied.  A wave stays within its factor.  *)
\* Mutant: the sum wraps around.
SumWrapping(t, values) == FoldFunction(+, 0, values) % (TopOf(t) + 1)

Sum(t, values) ==
  IF t = "float" THEN FoldFunction(+, 0, values)
  ELSE FoldFunction(LAMBDA v, total : Smaller(v + total, TopOf(t)), 0, values)

Wave(factor, offset) ==
  {[value |-> x] : x \in offset - Larger(factor, -factor) .. offset + Larger(factor, -factor)}

Calculated(i) ==
  CASE Class = "filter_math_single" -> {[value |-> i.value_in]}
    [] Class = "filter_minimum" -> {[value |-> Smaller(i.param1, i.param2)]}
    [] Class = "filter_maximum" -> {[value |-> Larger(i.param1, i.param2)]}
    [] Class = "filter_multi_t_sum" -> {[value |-> Sum(Type, i)]}
    [] Class = "filter_tangent" -> {[value |-> x] : x \in Floats}
    [] OTHER -> Wave(i.factor_outer, i.offset)

(* The colour mixers: the additive one sums each colour, and the other two *)
(* compute a colour; the hsv mixer without inputs keeps its output.        *)
AddedUp(colours) ==
  [c \in 1 .. 3 |-> Smaller(FoldFunction(+, 0, [n \in DOMAIN colours |-> colours[n][c]]), AsWord - 1)]

MixedColour(i) ==
  CASE Class = "filter_color_mixer_add_rgb" -> {[value |-> AddedUp(i)]}
    [] Class = "filter_color_mixer_hsv" /\ Outcome = "bare" -> {out}
    [] OTHER -> {[value |-> c] : c \in Colours}
-----------------------------------------------------------------------------
(* The filters that keep something from one update to the next.  t is the  *)
(* time of the update.                                                     *)

\* filter_shift: the values move on by one whenever a switch time is over,
\* however many are; a negative time moves them backwards.
ShiftTime(i) == IF i.switch_time < 0 THEN -i.switch_time ELSE i.switch_time

ShiftedOn(o, i) ==
  IF i.switch_time < 0
    THEN [output_1 |-> o.output_2, output_2 |-> o.output_3, output_3 |-> i.input]
    ELSE [output_1 |-> i.input, output_2 |-> o.output_1, output_3 |-> o.output_2]

\* Mutant: one switch time later, however late the update is.
CaughtUpSlowly(last, t, st) == last + st

CaughtUp(last, t, st) == last + ((t - last) \div st) * st

Shifted(i, t) ==
  LET st == ShiftTime(i)
      last == mem.last_update
  IN  IF st < 1 THEN {<<[n \in DOMAIN out |-> i.input], mem>>}
      ELSE IF last + st <= t THEN {<<ShiftedOn(out, i), [last_update |-> CaughtUp(last, t, st)]>>}
      ELSE {<<out, mem>>}

\* filter_delay: passed at once, and delayed.
Immediate(v) == IF Class = "delay_switch_on" THEN v <= 0 ELSE v > 0

\* Mutant: the delay is counted from the last update, delayed or not.
DelayedRestarted(i, t) ==
  IF Immediate(i.value_in) \/ t >= mem.last_update + Delay
    THEN {<<[value |-> i.value_in], [last_update |-> t]>>}
    ELSE {<<out, [last_update |-> t]>>}

Delayed(i, t) ==
  IF Immediate(i.value_in) THEN {<<[value |-> i.value_in], [last_update |-> t]>>}
  ELSE IF t < mem.last_update + Delay THEN {<<out, mem>>}
  ELSE {<<[value |-> i.value_in], mem>>}

\* filter_event_counter: a window that is over is closed with what was
\* counted before this update, as a word; the sum for bpm leaves that out.
Remaining(t) == mem.time_til_next_count - (t - mem.last_update)

Counted(n, t) ==
  IF Remaining(t) > 0
    THEN {<<out, [mem EXCEPT !.time_til_next_count = Remaining(t), !.last_update = t,
                             !.counted_events = @ + n]>>}
    ELSE {<<[freq |-> mem.counted_events % AsWord,
             bpm |-> (FoldSeq(+, 0, Tail(mem.bpm_window)) * (60 \div Windows)) % AsWord],
            [time_til_next_count |-> Second, last_update |-> t, counted_events |-> n,
             bpm_window |-> Append(Tail(mem.bpm_window), mem.counted_events % AsWord)]>>}

\* filter_switch: a number beyond the inputs leaves the output.
Switched(i) ==
  CASE i.select = 0 -> {[out |-> i["0"]]}
    [] i.select = 1 -> {[out |-> i["1"]]}
    [] OTHER -> {out}

\* What an update makes of outputs and members; n events came.
Updated(i, n, t) ==
  CASE Class \in ConversionClasses -> Converted(i) \X {mem}
    [] Class \in CalculationClasses -> Calculated(i) \X {mem}
    [] Class \in MixerClasses -> MixedColour(i) \X {mem}
    [] Class \in ConstantClasses \union DebugClasses -> {<<out, mem>>}
    [] Class = "filter_time" -> {<<[value |-> 2 * t], mem>>}
    [] Class = "filter_shift" -> Shifted(i, t)
    [] Class \in DelayClasses -> Delayed(i, t)
    [] Class = "filter_event_counter" -> Counted(n, t)
    [] Class = "filter_switch" -> Switched(i) \X {mem}
    [] Class = "filter_universe_output" -> {<<[dmx |-> i.channel], mem>>}
-----------------------------------------------------------------------------
Clocked == Class \in {"filter_shift", "delay_switch_on", "delay_switch_off", "filter_event_counter", "filter_time"}
Later == IF Clocked THEN millis + 1 .. Smaller(millis + SignalLag, SignalTime) ELSE {millis}
Arrivals == IF Class = "filter_event_counter" THEN 0 .. MaxEvents ELSE {0}

\* A filter whose scene is shown again goes on with the members it has,
\* unless the delays and the counter start over.
Activated(t) ==
  CASE Class \in DelayClasses ->
         <<IF Immediate(0) THEN [value |-> 0] ELSE out, [last_update |-> t]>>
    [] Class = "filter_event_counter" ->
         <<[freq |-> 0, bpm |-> 0],
           [mem EXCEPT !.time_til_next_count = Second, !.counted_events = 0,
                       !.bpm_window = [w \in DOMAIN @ |-> 0]]>>
    [] Class = "filter_time" -> <<[value |-> 2 * t], mem>>
    [] OTHER -> <<out, mem>>

Never == -1

(* scene::on_start: scene_activated, after the time filter.                *)
Activate ==
  /\ phase \in {"ready", "running"}
  /\ \E t \in Later \union {millis} : \E r \in {Activated(t)} :
       out' = r[1] /\ mem' = r[2] /\ millis' = t
  /\ phase' = "active"
  /\ in' = << >>
  /\ since' = Never /\ marks' = <<0>> /\ seen' = 0
  /\ UNCHANGED <<kind, conf, feed>>

(* scene::invoke_filters: update, once a cycle, after the filters it reads.*)
UpdateSignals ==
  /\ phase \in {"active", "running"}
  /\ Class = "filter_universe_output" => mem.universe
  /\ \E i \in Inputs, n \in Arrivals, t \in Later : \E r \in Updated(i, n, t) :
       /\ out' = r[1] /\ mem' = r[2]
       /\ in' = i /\ millis' = t
       /\ since' = IF Class \notin DelayClasses THEN since
                   ELSE IF Immediate(i.value_in) THEN Never
                   ELSE IF since = Never THEN t ELSE since
       /\ seen' = seen + n
       /\ marks' = IF Class = "filter_event_counter" /\ Remaining(t) <= 0
                     THEN Append(marks, seen) ELSE marks
  /\ phase' = "running"
  /\ UNCHANGED <<kind, conf, feed>>

(* receive_update_from_gui of the constants, in any phase from the setup   *)
(* on: what cannot be read leaves the value.                               *)
SetConstant ==
  /\ Class \in ConstantClasses /\ phase \in {"ready", "active", "running"}
  /\ \E v \in FromShow(Type) \union {out.value} : out' = [value |-> v]
  /\ UNCHANGED <<kind, conf, feed, phase, in, mem, millis, signalGhosts>>

SetRange(key, v) ==
  IF \/ key = "lower_in" /\ v = mem.upper_in
     \/ key = "upper_in" /\ v = mem.lower_in
    THEN mem ELSE [mem EXCEPT ![key] = v]

(* receive_update_from_gui of the range filter, from a client or from its  *)
(* setup; the output follows with the next update.                         *)
MapRange ==
  /\ Class = "float_map_range" /\ phase \in {"ready", "active", "running"}
  /\ phase' = IF phase = "running" THEN "active" ELSE phase
  /\ \/ \E key \in {"lower_in", "upper_in", "lower_out", "upper_out"}, v \in {0, 2, 4} : mem' = SetRange(key, v)
     \/ mem' = [mem EXCEPT !.limit = ~@]
  /\ UNCHANGED <<kind, conf, feed, in, out, millis, signalGhosts>>

\* The universe a filter writes to is deleted: the next update throws, and
\* the show is stopped for it.
LoseUniverse ==
  /\ Class = "filter_universe_output" /\ phase = "running" /\ mem.universe
  /\ mem' = [universe |-> FALSE]
  /\ UNCHANGED <<kind, conf, feed, phase, in, out, millis, signalGhosts>>

RuntimeException ==
  /\ Class = "filter_universe_output" /\ phase = "running" /\ ~mem.universe
  /\ phase' = "stopped"
  /\ UNCHANGED <<kind, conf, feed, in, out, mem, millis, signalGhosts>>

SignalNext ==
  \/ Construct \/ SetUp \/ Activate \/ UpdateSignals
  \/ SetConstant \/ MapRange \/ LoseUniverse \/ RuntimeException

SignalSpec == SignalInit /\ [][SignalNext]_signalVars
-----------------------------------------------------------------------------
(* Every output holds a value of its channel's type: sums and mixtures     *)
(* saturate, constants are clamped and ranges cut (filter_math.hpp:162-172,*)
(* filter_color_mixer_add_rgb.cpp, filter_constants.hpp:43-51).            *)
TypeOK ==
  /\ phase \in {"new", "scheduled", "ready", "active", "running", "refused", "crashed", "stopped"}
  /\ phase \in {"ready", "active", "running"} =>
       DOMAIN out = DOMAIN Outs /\ \A n \in DOMAIN out : IsValue(Outs[n], out[n])

Running(class) == phase = "running" /\ Class = class

(* What is split is put together again, by the filter for it and across    *)
(* the types (filter_conversion.hpp:41-44, 626-629, 660-663); a sum is the *)
(* exact one unless it would not fit; a bound of the input range is never  *)
(* the other one, so no division is by zero, and a limited value stays     *)
(* within the output range (filter_conversion.hpp:490-522, 580-592).       *)
ConversionsExact ==
  /\ Running("filter_16bit_to_dual_byte") => Combine(out.value_lower, out.value_upper) = in.value
  /\ Running("filter_combine_bytes") => Split(out.value) = [value_lower |-> in.lower, value_upper |-> in.upper]
  /\ Running("filter_map_8bit_to_16bit") =>
       out.value * TopOf("8bit") = in.value_in * TopOf("16bit")
  /\ Running("filter_multi_t_sum") /\ Type # "float" =>
       out.value = Smaller(in["0"] + in["1"], TopOf(Type))
  /\ Running("filter_color_mixer_add_rgb") /\ in # << >> =>
       \A c \in 1 .. 3 : out.value[c] = Smaller(in["0"][c] + in["1"][c], TopOf("16bit"))
  /\ Class = "float_map_range" /\ phase \in {"ready", "active", "running"} =>
       /\ mem.lower_in # mem.upper_in
       /\ Running("float_map_range") /\ mem.limit =>
            out.value \in Whole(Type, Smaller(mem.lower_out, mem.upper_out)) ..
                          Whole(Type, Larger(mem.lower_out, mem.upper_out))

(* However late an update is, less than one switch time is open after it:  *)
(* a shift never runs behind the clock, and never before it unless the     *)
(* uninitialised start was (filter_shift.hpp:138-173).                     *)
ShiftsCatchUp ==
  [][UpdateSignals /\ Class = "filter_shift" /\ ShiftTime(in') >= 1 =>
       /\ millis' - mem'.last_update < ShiftTime(in')
       /\ mem'.last_update <= millis' \/ mem' = mem]_signalVars

(* A delayed value appears on the output after its delay, give or take one *)
(* cycle, if all samples since then were to be delayed, and it appears     *)
(* then (filter_time.hpp:145-163).                                         *)
DelayHolds ==
  [][UpdateSignals /\ Class \in DelayClasses =>
       /\ Immediate(out.value) /\ ~Immediate(out'.value) => millis' - since' >= Delay - SignalLag
       /\ out'.value # in'.value_in => millis' - since' < Delay]_signalVars

(* Every event since the scene was activated is counted in one window, the *)
(* running one or one that has ended, and the windows kept are the last    *)
(* ones, as words (filter_event_counter.cpp:42-76).                        *)
EventsCountedOnce ==
  phase = "running" /\ Class = "filter_event_counter" =>
    /\ mem.counted_events = seen - Last(marks)
    /\ \A w \in 1 .. Smaller(Windows, Len(marks) - 1) :
         mem.bpm_window[Windows + 1 - w]
           = (marks[Len(marks) + 1 - w] - marks[Len(marks) - w]) % AsWord
    /\ Len(marks) > 1 => out.freq = mem.bpm_window[Windows]

(* What a filter puts out is a value of its type and, where two filters     *)
(* undo each other or a sum is exact, the right one; events are counted     *)
(* once (filter_conversion.hpp, filter_event_counter.cpp and the others).   *)
SignalsSound == TypeOK /\ ConversionsExact /\ EventsCountedOnce
=============================================================================
