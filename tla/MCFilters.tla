----------------------------- MODULE MCFilters -----------------------------
(* The filters of a scene, one at a time, since what passes between them is *)
(* among their inputs here: a sequencer, a colour chaser, one of the small  *)
(* filters, or one that runs a Lua script.                                  *)
(*                                                                          *)
(* The sequencer has two channels, one with two frames of the first         *)
(* transition; a second transition shares that channel and its trigger with *)
(* a third one of a very short frame and a fourth one of no frame at all.   *)
(* It runs at half, normal and double speed.                                *)
(* The chaser has four pixels with mask entries of two bits, every kind of  *)
(* layer, alone or behind another one, and configurations that are refused  *)
(* or lose a layer.  Of the small filters there is every class, over one to *)
(* three of the types it is a template over.  The script has channels of    *)
(* every type, a name that is both input and output, and mappings and       *)
(* scripts that are refused.                                                *)
EXTENDS Sequencer, ColorChaser, SignalFilters, LuaScript, TLC

-----------------------------------------------------------------------------
(* Effects                                                                  *)

Track(d, e, k, m) == [default |-> d, on_empty |-> e, on_clear |-> k, i_method |-> m]
Frame(c, v, t, d) == [channel |-> c, value |-> v, transition |-> t, duration |-> d]

MCChannels ==
  "a" :> Track(1, TRUE, FALSE, "AVERAGE") @@
  "b" :> Track(0, FALSE, TRUE, "MAX")

MCTransitions ==
  0 :> [trigger |-> 0, frames |-> <<Frame("a", 8, "LINEAR", 3), Frame("b", 6, "EDGE", 4),
                                    Frame("a", 0, "EASE_OUT", 3)>>] @@
  1 :> [trigger |-> 1, frames |-> <<Frame("a", 4, "EASE_IN", 3)>>] @@
  2 :> [trigger |-> 1, frames |-> <<Frame("b", 3, "EASE_IN", 1)>>] @@
  3 :> [trigger |-> 1, frames |-> <<>>]

Input == -1
L(name, args) == [name |-> name, args |-> args]
Red == L("plain_color", <<"red">>)

MCCurves == {[i \in Pixels |-> 0], [i \in Pixels |-> i], [i \in Pixels |-> 3 - i]}

MCChaserConfigs == {
  <<L("johnson__fwd", <<2, 3>>), Red>>,
  <<L("johnson__rev", <<1, 3>>), L("invert_mask", <<>>), L("colormix", <<"red", "blue">>)>>,
  <<L("dots", <<Input, 1, 2, 0, 3>>), L("rainbow", <<"red", "blue", 2>>)>>,
  <<L("strobe", <<2>>), L("color_shift", <<1>>), L("invert_color", <<>>)>>,
  <<L("scale", <<1, 3, 0, 3>>), L("mask_shift", <<1>>), Red, L("gaussian_blur", <<1>>)>>,
  <<L("flat_mask", <<1>>), L("maskmod__add", <<Input, 1, 3>>), L("maskmod__mul", <<2, 0, 3>>),
    L("maskmod__sub", <<3, 0, 1>>)>>,
  <<L("flat_mask", <<2>>), L("close_to_center", <<1, 0, 2>>), Red>>,
  <<L("scale_inv", <<0, 3, 0, 3>>), L("open_from_center", <<1, 2, 2>>)>>,
  <<L("flat_mask", <<0>>), L("segwave__fwd", <<2, 1, 2, 2>>)>>,
  <<L("flat_mask", <<0>>), L("wave__fwd", <<2, 1, Input, 2>>)>>,
  <<L("wave__rev", <<1, 1, 1, 2>>), L("sprinkles", <<1, 2, 1, 0, 3>>), L("random_color", <<2, 1>>)>>,
  <<L("maskmod__div", <<Input, 0, 3>>), L("segwave__rev", <<1, 0, 1, 2>>)>>,
  <<L("color_chanmod__r", <<1>>), L("flat_mask", <<2>>), L("gaussian_curve_on_mask", <<1, 1, 2>>)>>,
  <<L("trig__sin", <<0, 3, 1, 0>>)>>,
  <<Red, L("dots", <<1>>)>>,
  <<L("color_chanmod_r", <<1>>)>> }

Alone == status = "absent"

-----------------------------------------------------------------------------
(* Signals and scripts                                                      *)

Untyped ==
  {"filter_16bit_to_dual_byte", "filter_16bit_to_bool", "filter_multiply_add", "filter_pixel_to_rgb",
   "filter_pixel_to_rgbw", "filter_floats_to_pixel", "filter_pixel_to_floats", "filter_combine_bytes",
   "filter_map_8bit_to_16bit", "filter_math_single", "filter_minimum", "filter_maximum",
   "filter_trigonometric", "filter_tangent", "filter_square", "filter_color_mixer_add_rgb",
   "filter_color_mixer_norm_rgb", "filter_color_mixer_hsv", "filter_time", "filter_event_counter",
   "filter_universe_output", "filter_pixel_to_rgbwa"}

MCKinds ==
  (Untyped \X {"float"}) \union
  ({"filter_float_to_X", "filter_multi_t_sum"} \X {"8bit", "16bit", "float"}) \union
  ({"float_map_range"} \X {"8bit", "float"}) \union
  ({"filter_to_float"} \X {"8bit", "16bit"}) \union
  ({"filter_constant", "responding_constant", "debug", "debug_remote"} \X {"8bit", "color"}) \union
  ({"delay_switch_on", "delay_switch_off", "filter_switch"} \X {"8bit"}) \union
  ({"filter_shift"} \X {"8bit", "color"})

MCFloats == {-1, 0, 3, 4}
MCColours == {<<0, 0, 0>>, <<8, 0, 4>>, <<5, 8, 2>>}
MCSwitchTimes == {-2, 0, 3}

Untouched == [f \in Functions |-> "untouched"]
Fine == [fails |-> FALSE, functions |-> [Untouched EXCEPT !["update"] = "function"], tables |-> {}]
\* One universe, none below the second, and a table with a hole.
Direct == [Fine EXCEPT !.tables =
  { << <<4, Nil>> >>, <<Nil, <<1, 1>> >>, << <<Nil, -1>>, Nil, <<7, 2>> >> }]
Scripts == {Nil, Direct, [Fine EXCEPT !.fails = TRUE],
            [Fine EXCEPT !.functions["receive_update_from_gui"] = "other"]}

Described(i, o, s) == [in |-> i, out |-> o, script |-> s, linked |-> IF i = Nil THEN {} ELSE Named(i)]
TwoTypes == << <<"a", "8bit">>, <<"c", "color">> >>
MCShowFiles ==
  {Described(<<>>, <<>>, s) : s \in Scripts} \union
  {Described(Nil, <<>>, Fine), Described(<<>>, Nil, Fine), Described(<< <<"a", "12bit">> >>, <<>>, Fine),
   Described(TwoTypes, << <<"a", "8bit">>, <<"w", "16bit">> >>, Fine),
   Described(TwoTypes, << <<"c", "color">> >>, Fine), Described(<< <<"f", "float">> >>, << <<"b", "8bit">>, <<"f", "float">> >>, Fine),
   [Described(TwoTypes, <<>>, Fine) EXCEPT !.linked = {<<"a", "8bit">>}]}

MCFed == {0, 2}
MCAssigned == {-1, 4, 9}
MCRegistered == {0, 2}

\* The part that is not looked at has been refused.
NoScript ==
  /\ show = [in |-> Nil, out |-> Nil, script |-> Nil, linked |-> {}] /\ stage = "refused"
  /\ lua = [g |-> <<>>, direct |-> <<>>, feed |-> <<>>] /\ outputs = <<>> /\ cycle = "idle" /\ called = FALSE
  /\ universes = [u \in Registered |-> [c \in 1..UniverseSize |-> 0]]

NoSignal ==
  /\ kind = <<"filter_time", "float">> /\ conf = "sound" /\ feed = Nothing /\ phase = "refused"
  /\ in = << >> /\ out = << >> /\ mem = << >> /\ millis = 0
  /\ since = 0 /\ marks = << >> /\ seen = 0

-----------------------------------------------------------------------------
Still == ChaserReady /\ Alone /\ by_events = FALSE /\ time_scale = 1 /\ level = 0

FiltersInit ==
  \/ Init /\ Still /\ NoSignal /\ NoScript
  \/ Init /\ ChaserInit /\ NoSignal /\ NoScript
  \/ Init /\ Still /\ SignalInit /\ NoScript
  \/ Init /\ Still /\ LuaInit /\ NoSignal

\* The sequencer is the one that is there when no other one is.
OnlySequencer == Alone /\ NoSignal /\ NoScript

FiltersNext ==
  \/ OnlySequencer /\ (Update \/ SceneActivated) /\ UNCHANGED <<chaserVars, signalVars, luaVars>>
  \/ ChaserNext /\ UNCHANGED <<vars, signalVars, luaVars>>
  \/ SignalNext /\ UNCHANGED <<vars, chaserVars, luaVars>>
  \/ LuaNext /\ UNCHANGED <<vars, chaserVars, signalVars>>

FiltersSpec == FiltersInit /\ [][FiltersNext]_<<vars, chaserVars, signalVars, luaVars>>
=============================================================================
