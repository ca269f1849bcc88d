--------------------------- MODULE Filters_proofs ---------------------------
(* The filters of a scene, for every configuration: the sequencer knows     *)
(* which transitions run, the filters that look at the clock keep their     *)
(* times, what the small filters put out has its type and is right where    *)
(* the model knows what is, a script's values are fit for the channels, and *)
(* the layers of a colour chaser keep their row, their events and pace.     *)
EXTENDS Sequencer, ColorChaser, SignalFilters, LuaScript, TLAPS,
        FiniteSetTheorems, NaturalsInduction, WellFoundedInduction, SequenceTheorems

-----------------------------------------------------------------------------
(* The sequencer (filters/sequencer).                                       *)

\* Inductive as it stands, but for what queues is a function of.
SequencerInv == queues = [c \in Names |-> queues[c]] /\ ActiveExact

(* The key frames of a transition are for channels there are.              *)
LEMMA TouchedSome == \A t \in Ids : Touched(t) \subseteq Names
<1> SUFFICES ASSUME NEW t \in Ids PROVE Touched(t) \subseteq Names
  OBVIOUS
<1> DEFINE fs == Transitions[t].frames
<1>1. fs \in Seq(KeyFrame)  BY ConfigurationAssumption
<1>2. \A i \in DOMAIN fs : fs[i] \in KeyFrame  BY <1>1
<1>3. \A i \in DOMAIN fs : fs[i].channel \in Names  BY <1>2 DEF KeyFrame
<1> QED  BY <1>2, <1>3 DEF Touched

(* A channel loses queues in a cycle and gains none, and says when it has   *)
(* lost one (channel.hpp, apply_update).                                   *)
LEMMA ApplyUpdateShrinks ==
  ASSUME NEW c, NEW qs, NEW at
  PROVE  LET r == ApplyUpdate(c, qs, at)
         IN /\ DOMAIN r.queues \subseteq DOMAIN qs
            /\ r.removed \in BOOLEAN
            /\ ~r.removed => DOMAIN r.queues = DOMAIN qs
  BY DEF ApplyUpdate

(* A cycle leaves as active what still has a queue: without a queue removed *)
(* every transition that was started or ran is in one, with one removed the *)
(* collection looks for it (filter_sequencer.cpp).                         *)
LEMMA SequencerStep == SequencerInv /\ [Next]_vars => SequencerInv'
<1> SUFFICES ASSUME SequencerInv, [Next]_vars PROVE SequencerInv'
  OBVIOUS
<1>1. ASSUME Update PROVE SequencerInv'
  <2>1. PICK lag \in 1 .. MaxLag, events \in SUBSET Triggers :
          LET new == {t \in Ids : Transitions[t].trigger \in events}
          IN \E done \in {[c \in Names |-> ApplyUpdate(c, InsertKeyframes(c, new), now')]} :
               LET after == [c \in Names |-> done[c].queues]
                   removed == \E c \in Names : done[c].removed
               IN /\ queues' = after
                  /\ value' = [c \in Names |-> done[c].value]
                  /\ active' = IF removed THEN TransitionGc(active \cup new, after)
                                          ELSE active \cup new
                  /\ told' = IF new # {} \/ removed THEN active' ELSE told
                  /\ started' = [t \in Ids |-> IF t \in new THEN now' ELSE started[t]]
    BY <1>1, Zenon DEF Update
  <2> DEFINE new == {t \in Ids : Transitions[t].trigger \in events}
             done == [c \in Names |-> ApplyUpdate(c, InsertKeyframes(c, new), now')]
             removed == \E c \in Names : done[c].removed
             reached(c) == DOMAIN queues[c] \cup {u \in new : c \in Touched(u)}
  <2>2. /\ queues' = [c \in Names |-> done[c].queues]
        /\ active' = IF removed THEN TransitionGc(active \cup new, queues') ELSE active \cup new
        /\ told' = IF new # {} \/ removed THEN active' ELSE told
    BY <2>1
  <2>3. \A c \in Names : /\ DOMAIN done[c].queues \subseteq reached(c)
                         /\ done[c].removed \in BOOLEAN
                         /\ ~done[c].removed => DOMAIN done[c].queues = reached(c)
    <3> SUFFICES ASSUME NEW c \in Names
                 PROVE  /\ DOMAIN done[c].queues \subseteq reached(c)
                        /\ done[c].removed \in BOOLEAN
                        /\ ~done[c].removed => DOMAIN done[c].queues = reached(c)
      OBVIOUS
    <3>1. DOMAIN InsertKeyframes(c, new) = reached(c)  BY DEF InsertKeyframes
    <3>2. done[c] = ApplyUpdate(c, InsertKeyframes(c, new), now')  OBVIOUS
    <3> QED  BY <3>1, <3>2, ApplyUpdateShrinks
  <2>4. new \subseteq Ids /\ \A t \in new : Touched(t) \subseteq Names
    BY TouchedSome
  <2> HIDE DEF new, done
  <2>5. {t \in active \cup new : Touched(t) # {}} = {t \in Ids : \E c \in Names : t \in reached(c)}
    BY <2>4 DEF SequencerInv, ActiveExact
  <2>6. {t \in active' : Touched(t) # {}} = {t \in Ids : \E c \in Names : t \in DOMAIN queues'[c]}
    <3>1. CASE removed  BY <3>1, <2>2, <2>3, <2>5 DEF TransitionGc
    <3>2. CASE ~removed
      <4>1. \A c \in Names : DOMAIN queues'[c] = reached(c)  BY <3>2, <2>2, <2>3
      <4> QED  BY <4>1, <3>2, <2>2, <2>5
    <3> QED  BY <3>1, <3>2
  <2>7. told' = active'  BY <2>2 DEF SequencerInv, ActiveExact
  <2> QED  BY <2>2, <2>6, <2>7 DEF SequencerInv, ActiveExact
<1>2. ASSUME SceneActivated PROVE SequencerInv'
  BY <1>2 DEF SceneActivated, SequencerInv, ActiveExact, NoQueue
<1>3. ASSUME UNCHANGED vars PROVE SequencerInv'
  BY <1>3 DEF vars, SequencerInv, ActiveExact
<1> QED  BY <1>1, <1>2, <1>3 DEF Next

(* The transitions a sequencer lists as active, and has told the GUIs of,   *)
(* are those with a queue in some channel, for every configuration.         *)
THEOREM ActiveIsExact == Spec => []ActiveExact
<1>1. Init => SequencerInv  BY DEF Init, SequencerInv, ActiveExact, NoQueue
<1>2. SequencerInv => ActiveExact  BY DEF SequencerInv
<1> QED  BY <1>1, <1>2, SequencerStep, PTL DEF Spec

-----------------------------------------------------------------------------
(* The filters that look at the clock (filter_shift.hpp, filter_time.hpp).  *)

\* The filter has its members.
Working(p) == p \in {"ready", "active", "running"}

\* What the filters that look at the clock rely on.
ClockInv ==
  /\ kind \in Kinds /\ conf \in {"sound"} \union Faults /\ millis \in Nat
  /\ Class = "filter_shift" /\ Working(phase) =>
       mem = [last_update |-> mem.last_update] /\ mem.last_update \in Int
  /\ Class \in DelayClasses /\ Working(phase) =>
       mem = [last_update |-> mem.last_update] /\ mem.last_update \in Int
  /\ Class \in DelayClasses /\ phase \in {"active", "running"} =>
       IF since = Never THEN mem.last_update = millis
       ELSE /\ since \in Int /\ since <= millis
            /\ mem.last_update <= since /\ since <= mem.last_update + SignalLag

(* The classes by the group they are computed in.                           *)
LEMMA ClassSets ==
  /\ ConversionClasses = {"filter_16bit_to_dual_byte", "filter_16bit_to_bool",
       "filter_multiply_add", "filter_float_to_X", "filter_pixel_to_rgb", "filter_pixel_to_rgbw",
       "filter_floats_to_pixel", "filter_pixel_to_floats", "filter_to_float", "float_map_range",
       "filter_combine_bytes", "filter_map_8bit_to_16bit"}
  /\ CalculationClasses = {"filter_math_single", "filter_minimum", "filter_maximum",
       "filter_multi_t_sum", "filter_trigonometric", "filter_tangent", "filter_square"}
  /\ MixerClasses = {"filter_color_mixer_add_rgb", "filter_color_mixer_norm_rgb", "filter_color_mixer_hsv"}
  /\ ConstantClasses = {"filter_constant", "responding_constant"}
  /\ DebugClasses = {"debug", "debug_remote"}
BY DEF ConversionClasses, CalculationClasses, MixerClasses, ConstantClasses, DebugClasses,
       Conversions, Calculations, Mixers, Constants, Debugs

(* An update of the shift filter is the one of its class, not another's.     *)
LEMMA UpdatedShift ==
  ASSUME Class = "filter_shift", NEW i, NEW n, NEW t PROVE Updated(i, n, t) = Shifted(i, t)
BY ClassSets DEF Updated, DelayClasses

(* An update of a delay filter is the one of its class.                     *)
LEMMA UpdatedDelay ==
  ASSUME Class \in DelayClasses, NEW i, NEW n, NEW t PROVE Updated(i, n, t) = Delayed(i, t)
BY ClassSets DEF Updated, DelayClasses

(* The shift filter is refused or crashes, it never goes on without inputs.  *)
LEMMA ShiftOutcome ==
  ASSUME Class = "filter_shift", conf \in {"sound"} \union Faults
  PROVE  Outcome \in {"sound", "refused", "crashed"}
<1>1. ConfOutcome(Class) = Sloppy  BY ClassSets DEF ConfOutcome, DelayClasses
<1>2. conf # "sound" => Sloppy[conf] \in {"refused", "crashed"}  BY DEF Sloppy, Faulty, Faults
<1> QED  BY <1>1, <1>2 DEF Outcome

(* The switch time is a number of the environment (filter_shift.hpp).       *)
LEMMA ShiftInputs ==
  ASSUME kind \in Kinds, conf \in {"sound"} \union Faults, Class = "filter_shift", NEW i \in Inputs
  PROVE  i.switch_time \in Int
<1> DEFINE t == kind[2]
<1>1. PortsOf(kind) = Shifter(t)
  <2>1. /\ DOMAIN Conversions(t) = ConversionClasses
        /\ DOMAIN Calculations(t) = CalculationClasses
        /\ DOMAIN Mixers = MixerClasses
        /\ DOMAIN Constants(t) = ConstantClasses
        /\ DOMAIN Debugs(t) = DebugClasses
        /\ DOMAIN Delays(t) = {"filter_time", "delay_switch_on", "delay_switch_off"}
    BY DEF Conversions, Calculations, Mixers, Constants, Debugs, Delays, ConversionClasses,
           CalculationClasses, MixerClasses, ConstantClasses, DebugClasses
  <2> QED  BY <2>1, ClassSets DEF PortsOf, Class
<1>2. InputsOf(kind) = {[input |-> v, switch_time |-> st] : v \in Values(kind[2]), st \in SwitchTimes}
  <2>1. DOMAIN PortTable[kind].in = {"input", "time", "switch_time"}
    BY <1>1 DEF PortTable, Shifter, Ports
  <2>2. kind[1] = "filter_shift" /\ kind[1] \notin Opaque BY DEF Class, Opaque
  <2>3. ~(WaveInputs \subseteq {"input", "time", "switch_time"})  BY DEF WaveInputs
  <2>4. {"input", "time", "switch_time"} \ {"time"} # {}  OBVIOUS
  <2> QED  BY <2>1, <2>2, <2>3, <2>4 DEF InputsOf, Sampled
<1>3. Inputs = InputsOf(kind)  BY ShiftOutcome DEF Inputs, InputTable
<1> QED  BY <1>2, <1>3, SignalAssumption

(* Rounding down to a multiple of d loses less than d.                      *)
LEMMA DivisionLeaves ==
  ASSUME NEW a \in Int, NEW d \in Nat, d > 0
  PROVE  LET m == (a \div d) * d IN m \in Int /\ m <= a /\ a - m < d
<1> DEFINE q == a \div d  r == a % d
<1>1. q \in Int /\ r \in 0 .. d - 1 /\ a = d * q + r  OBVIOUS
<1> QED  BY <1>1

(* A shift remembers nothing new, or the last switch time that is over.      *)
LEMMA ShiftedMem ==
  ASSUME NEW i, NEW t, NEW r \in Shifted(i, t), ShiftTime(i) \in Nat
  PROVE  \/ r[2] = mem /\ (ShiftTime(i) < 1 \/ ~(mem.last_update + ShiftTime(i) <= t))
         \/ /\ ShiftTime(i) >= 1 /\ mem.last_update + ShiftTime(i) <= t
            /\ r[2] = [last_update |-> CaughtUp(mem.last_update, t, ShiftTime(i))]
<1>1. CASE ShiftTime(i) < 1
  <2>1. r = <<[n \in DOMAIN out |-> i.input], mem>>  BY <1>1 DEF Shifted
  <2> QED  BY <1>1, <2>1
<1>2. CASE ~(ShiftTime(i) < 1) /\ mem.last_update + ShiftTime(i) <= t
  <2>1. r = <<ShiftedOn(out, i), [last_update |-> CaughtUp(mem.last_update, t, ShiftTime(i))]>>
    BY <1>2 DEF Shifted
  <2> QED  BY <1>2, <2>1
<1>3. CASE ~(ShiftTime(i) < 1) /\ ~(mem.last_update + ShiftTime(i) <= t)
  <2>1. r = <<out, mem>>  BY <1>3 DEF Shifted
  <2> QED  BY <1>3, <2>1
<1> QED  BY <1>1, <1>2, <1>3

(* A new filter has no members to rely on.                                  *)
LEMMA ClockStart == SignalInit => ClockInv
BY DEF SignalInit, ClockInv, Working

(* The clock does not go back, and goes on for the filters that look at it.  *)
LEMMA Timely ==
  ASSUME millis \in Nat, NEW t \in Later
  PROVE  t \in Nat /\ t >= millis /\ t <= millis + SignalLag /\ (Clocked => t > millis)
BY SignalAssumption DEF Later, Smaller

(* An update of a delay notes when values to delay began to come.            *)
LEMMA UpdateKeeps == ClockInv /\ UpdateSignals => ClockInv'
<1> SUFFICES ASSUME ClockInv, UpdateSignals PROVE ClockInv'
  OBVIOUS
<1> USE DEF ClockInv, Working
<1>1. PICK i \in Inputs, n \in Arrivals, t \in Later : \E r \in Updated(i, n, t) :
       /\ out' = r[1] /\ mem' = r[2]
       /\ in' = i /\ millis' = t
       /\ since' = IF Class \notin DelayClasses THEN since
                   ELSE IF Immediate(i.value_in) THEN Never
                   ELSE IF since = Never THEN t ELSE since
  BY Zenon DEF UpdateSignals
<1>2. PICK r \in Updated(i, n, t) :
       /\ out' = r[1] /\ mem' = r[2]
       /\ in' = i /\ millis' = t
       /\ since' = IF Class \notin DelayClasses THEN since
                   ELSE IF Immediate(i.value_in) THEN Never
                   ELSE IF since = Never THEN t ELSE since
  BY <1>1, Zenon
<1>3. phase \in {"active", "running"} /\ phase' = "running" /\ UNCHANGED <<kind, conf, feed>>
  BY DEF UpdateSignals
<1>4. Class' = Class /\ Outcome' = Outcome  BY <1>3 DEF Class, Outcome
<1>5. t \in Nat /\ t >= millis /\ t <= millis + SignalLag  BY Timely
<1>6. CASE Class = "filter_shift"
  <2>1. r \in Shifted(i, t)  BY <1>2, <1>6, UpdatedShift
  <2>2. i.switch_time \in Int  BY <1>3, <1>6, ShiftInputs
  <2>3. ShiftTime(i) \in Nat  BY <2>2 DEF ShiftTime
  <2>4. \/ r[2] = mem
        \/ /\ ShiftTime(i) >= 1
           /\ r[2] = [last_update |-> CaughtUp(mem.last_update, t, ShiftTime(i))]
    BY <2>1, <2>3, ShiftedMem
  <2>5. ShiftTime(i) >= 1 => CaughtUp(mem.last_update, t, ShiftTime(i)) \in Int
    <3>1. t - mem.last_update \in Int  BY <1>3, <1>5, <1>6
    <3> QED  BY <3>1, <2>3, <1>3, <1>6, DivisionLeaves DEF CaughtUp
  <2>6. mem' = [last_update |-> mem'.last_update] /\ mem'.last_update \in Int
    BY <2>4, <2>5, <1>2, <1>3, <1>6
  <2>7. Class \notin DelayClasses  BY <1>6 DEF DelayClasses
  <2> QED  BY <2>6, <2>7, <1>2, <1>3, <1>4, <1>5, <1>6
<1>7. CASE Class \in DelayClasses
  <2>1. r \in Delayed(i, t)  BY <1>2, <1>7, UpdatedDelay
  <2>2. Class # "filter_shift"  BY <1>7 DEF DelayClasses
  <2>3. CASE Immediate(i.value_in)
    <3>1. mem' = [last_update |-> t] /\ since' = Never
      BY <2>1, <2>3, <1>2, <1>7 DEF Delayed
    <3> QED  BY <3>1, <2>2, <1>2, <1>3, <1>4, <1>5
  <2>4. CASE ~Immediate(i.value_in)
    <3>1. mem' = mem  BY <2>1, <2>4, <1>2 DEF Delayed
    <3>2. since' = IF since = Never THEN t ELSE since  BY <2>4, <1>2, <1>7
    <3>3. t # Never  BY <1>5 DEF Never
    <3>4. /\ since' \in Int /\ since' <= t
          /\ mem.last_update <= since' /\ since' <= mem.last_update + SignalLag
      BY <3>2, <3>3, <1>3, <1>5, <1>7, SignalAssumption
    <3>5. since' # Never  BY <3>2, <3>3
    <3>6. mem = [last_update |-> mem.last_update] /\ mem.last_update \in Int  BY <1>3, <1>7
    <3> QED  BY <3>1, <3>4, <3>5, <3>6, <2>2, <1>2, <1>3, <1>4, <1>5
  <2> QED  BY <2>3, <2>4
<1>8. CASE Class # "filter_shift" /\ Class \notin DelayClasses
  BY <1>2, <1>3, <1>4, <1>5, <1>8
<1> QED  BY <1>6, <1>7, <1>8

(* Setting up gives the filters their first time, an unknown one to shifts.  *)
LEMMA SetUpKeeps == ClockInv /\ SetUp => ClockInv'
<1> SUFFICES ASSUME ClockInv, SetUp PROVE ClockInv'
  OBVIOUS
<1> USE DEF ClockInv, Working
<1>1. /\ phase = "scheduled" /\ UNCHANGED <<kind, conf, millis, since>>
      /\ Class' = Class /\ Outcome' = Outcome
  BY DEF SetUp, signalGhosts, Class, Outcome
<1>2. CASE phase' = "ready"
  <2>1. mem' \in FirstMem  BY <1>2 DEF SetUp
  <2>3. Class = "filter_shift" => \E u \in Uninitialised : mem' = [last_update |-> u]
    BY <2>1, ClassSets DEF FirstMem, DelayClasses
  <2>4. Class \in DelayClasses => mem' = [last_update |-> 0]
    BY <2>1, ClassSets DEF FirstMem, DelayClasses
  <2>5. Uninitialised \subseteq Int  BY SignalAssumption DEF Uninitialised
  <2> QED  BY <1>1, <1>2, <2>3, <2>4, <2>5
<1>3. CASE phase' \in {"refused", "crashed"}
  BY <1>1, <1>3
<1> QED  BY <1>2, <1>3 DEF SetUp

(* The activation starts a delay over (filter_time.hpp).                     *)
LEMMA ActivateKeeps == ClockInv /\ Activate => ClockInv'
<1> SUFFICES ASSUME ClockInv, Activate PROVE ClockInv'
  OBVIOUS
<1> USE DEF ClockInv, Working
<1>1. PICK t \in Later \union {millis} : \E r \in {Activated(t)} :
       out' = r[1] /\ mem' = r[2] /\ millis' = t
  BY DEF Activate
<1>2. mem' = Activated(t)[2] /\ millis' = t  BY <1>1
<1>3. /\ phase \in {"ready", "running"} /\ phase' = "active" /\ since' = Never
      /\ UNCHANGED <<kind, conf>>
  BY DEF Activate
<1>4. t \in Nat  BY Timely
<1>5. Class' = Class /\ Outcome' = Outcome  BY <1>3 DEF Class, Outcome
<1>6. CASE Class \in DelayClasses
  <2>1. mem' = [last_update |-> t]  BY <1>2, <1>6 DEF Activated, DelayClasses
  <2>2. Class # "filter_shift"  BY <1>6 DEF DelayClasses
  <2> QED  BY <2>1, <2>2, <1>2, <1>3, <1>4, <1>5
<1>7. CASE Class = "filter_shift"
  <2>1. Class \notin DelayClasses  BY <1>7 DEF DelayClasses
  <2>2. mem' = mem  BY <1>2, <1>7, <2>1 DEF Activated
  <2> QED  BY <2>1, <2>2, <1>2, <1>3, <1>4, <1>5, <1>7
<1>8. CASE Class # "filter_shift" /\ Class \notin DelayClasses
  BY <1>2, <1>3, <1>4, <1>5, <1>8
<1> QED  BY <1>6, <1>7, <1>8

(* The other steps leave the members of these filters alone.                *)
LEMMA OthersKeep ==
  ASSUME ClockInv, Construct \/ SetConstant \/ MapRange \/ LoseUniverse \/ RuntimeException
  PROVE  ClockInv'
<1> USE DEF ClockInv, Working
<1>1. UNCHANGED <<kind, conf, millis, since>> /\ Class' = Class /\ Outcome' = Outcome
  BY DEF Construct, SetConstant, MapRange, LoseUniverse, RuntimeException, signalGhosts, Class, Outcome
<1>2. CASE Construct
  <2>1. Class = "filter_shift" \/ Class \in DelayClasses => phase' \notin {"ready", "active", "running"}
    BY <1>2, ShiftOutcome DEF Construct, PreSetUp, DelayClasses
  <2> QED  BY <1>1, <2>1
<1>3. CASE SetConstant \/ RuntimeException
  <2>1. phase' = phase \/ phase' = "stopped"  BY <1>3 DEF SetConstant, RuntimeException
  <2>2. mem' = mem  BY <1>3 DEF SetConstant, RuntimeException
  <2> QED  BY <2>1, <2>2, <1>1
<1>4. CASE MapRange \/ LoseUniverse
  <2>1. Class \notin DelayClasses /\ Class # "filter_shift"
    BY <1>4 DEF MapRange, LoseUniverse, DelayClasses
  <2> QED  BY <2>1, <1>1
<1> QED  BY <1>2, <1>3, <1>4

(* And so does a step that changes nothing.                                 *)
LEMMA SignalStutter == ClockInv /\ UNCHANGED signalVars => ClockInv'
BY DEF signalVars, signalGhosts, ClockInv, Working, Class, Outcome

(* The invariant is inductive.                                             *)
LEMMA ClockStep == ClockInv /\ [SignalNext]_signalVars => ClockInv'
BY UpdateKeeps, SetUpKeeps, ActivateKeeps, OthersKeep, SignalStutter DEF SignalNext

(* The time left over after catching up is less than one switch time.        *)
LEMMA ShiftStep ==
  ASSUME ClockInv, UpdateSignals, Class = "filter_shift", ShiftTime(in') >= 1
  PROVE  /\ millis' - mem'.last_update < ShiftTime(in')
         /\ mem'.last_update <= millis' \/ mem' = mem
<1>1. PICK i \in Inputs, n \in Arrivals, t \in Later : \E r \in Updated(i, n, t) :
       mem' = r[2] /\ in' = i /\ millis' = t
  BY Zenon DEF UpdateSignals
<1>2. PICK r \in Updated(i, n, t) : mem' = r[2] /\ in' = i /\ millis' = t
  BY <1>1, Zenon
<1> DEFINE st == ShiftTime(i)  last == mem.last_update
<1>3. last \in Int  BY DEF ClockInv, Working, UpdateSignals
<1>4. t \in Int  BY Timely DEF ClockInv
<1>5. st \in Nat /\ st >= 1
  <2>1. i.switch_time \in Int  BY ShiftInputs DEF ClockInv
  <2> QED  BY <2>1, <1>2 DEF ShiftTime
<1>6. r \in Shifted(i, t)  BY UpdatedShift
<1>7. CASE r[2] = mem /\ ~(last + st <= t)
  BY <1>2, <1>3, <1>4, <1>5, <1>7
<1>8. CASE r[2] = [last_update |-> CaughtUp(last, t, st)] /\ last + st <= t
  <2>1. mem'.last_update = last + ((t - last) \div st) * st  BY <1>2, <1>8 DEF CaughtUp
  <2>2. t - last \in Int  BY <1>3, <1>4
  <2> HIDE DEF st, last
  <2> DEFINE m == ((t - last) \div st) * st
  <2> HIDE DEF m
  <2>3. m \in Int /\ m <= t - last /\ (t - last) - m < st
    <3>1. \A a \in Int, d \in Nat : d > 0 =>
             LET k == (a \div d) * d IN k \in Int /\ k <= a /\ a - k < d
      BY DivisionLeaves
    <3>2. st > 0  BY <1>5
    <3> DEFINE k == ((t - last) \div st) * st
    <3>3. k \in Int /\ k <= t - last /\ (t - last) - k < st  BY <3>1, <3>2, <2>2, <1>5
    <3> QED  BY <3>3 DEF m
  <2>4. mem'.last_update = last + m  BY <2>1 DEF m
  <2>5. t - mem'.last_update < st /\ mem'.last_update <= t  BY <2>3, <2>4, <1>3, <1>4, <1>5
  <2> QED  BY <2>5, <1>2 DEF st
<1> QED  BY <1>5, <1>6, <1>7, <1>8, ShiftedMem

(* The values to delay began at most one cycle after the last other one.     *)
LEMMA DelayStep ==
  ASSUME ClockInv, UpdateSignals, Class \in DelayClasses
  PROVE  /\ Immediate(out.value) /\ ~Immediate(out'.value) => millis' - since' >= Delay - SignalLag
         /\ out'.value # in'.value_in => millis' - since' < Delay
<1>1. PICK i \in Inputs, n \in Arrivals, t \in Later : \E r \in Updated(i, n, t) :
       /\ out' = r[1] /\ in' = i /\ millis' = t
       /\ since' = IF Class \notin DelayClasses THEN since
                   ELSE IF Immediate(i.value_in) THEN Never
                   ELSE IF since = Never THEN t ELSE since
  BY Zenon DEF UpdateSignals
<1>2. PICK r \in Updated(i, n, t) :
       /\ out' = r[1] /\ in' = i /\ millis' = t
       /\ since' = IF Class \notin DelayClasses THEN since
                   ELSE IF Immediate(i.value_in) THEN Never
                   ELSE IF since = Never THEN t ELSE since
  BY <1>1, Zenon
<1>3. r \in Delayed(i, t)  BY UpdatedDelay
<1>4. t \in Int /\ t > millis /\ t <= millis + SignalLag  
  BY Timely DEF ClockInv, Clocked, DelayClasses
<1>5. CASE Immediate(i.value_in)
  <2>1. r = <<[value |-> i.value_in], [last_update |-> t]>>  BY <1>3, <1>5 DEF Delayed
  <2>2. out'.value = i.value_in  BY <2>1, <1>2
  <2> QED  BY <2>2, <1>2, <1>5
<1>6. CASE ~Immediate(i.value_in)
  <2> DEFINE last == mem.last_update
  <2>0. phase \in {"active", "running"}  BY DEF UpdateSignals
  <2>a. last \in Int  BY <2>0 DEF ClockInv, Working
  <2>b. Delay \in Int /\ SignalLag \in Int  BY SignalAssumption
  <2>c. millis \in Int  BY DEF ClockInv
  <2>2. since' = IF since = Never THEN t ELSE since  BY <1>2, <1>6
  <2>3. since' \in Int /\ last <= since' /\ since' <= last + SignalLag
    BY <2>0, <2>a, <2>b, <2>c, <2>2, <1>4 DEF ClockInv
  <2> DEFINE begun == since'
  <2>d. begun \in Int /\ last <= begun /\ begun <= last + SignalLag  BY <2>3
  <2>4. CASE t < last + Delay
    <3>1. r = <<out, mem>>  BY <1>3, <1>6, <2>4 DEF Delayed
    <3>2. out' = out  BY <3>1, <1>2
    <3>3. t - begun < Delay
      <4> HIDE DEF begun, last
      <4> QED  BY <2>a, <2>b, <2>d, <2>4, <1>4
    <3> QED  BY <3>2, <3>3, <1>2
  <2>5. CASE ~(t < last + Delay)
    <3>1. r = <<[value |-> i.value_in], mem>>  BY <1>3, <1>6, <2>5 DEF Delayed
    <3>2. out'.value = in'.value_in  BY <3>1, <1>2
    <3>3. t - begun >= Delay - SignalLag
      <4> HIDE DEF begun, last
      <4> QED  BY <2>a, <2>b, <2>d, <2>5, <1>4
    <3> QED  BY <3>2, <3>3, <1>2
  <2> QED  BY <2>4, <2>5
<1> QED  BY <1>5, <1>6

(* For every switch time and every lag, less than one switch time is open   *)
(* after an update of the shift filter (filter_shift.hpp:138-173).          *)
THEOREM ShiftsAlwaysCatchUp == SignalSpec => ShiftsCatchUp
<1>1. ClockInv /\ [SignalNext]_signalVars =>
        [UpdateSignals /\ Class = "filter_shift" /\ ShiftTime(in') >= 1 =>
           /\ millis' - mem'.last_update < ShiftTime(in')
           /\ mem'.last_update <= millis' \/ mem' = mem]_signalVars
  BY ShiftStep
<1> QED  BY <1>1, ClockStart, ClockStep, PTL DEF SignalSpec, ShiftsCatchUp

(* A delayed value appears when its delay is over, at most one cycle early  *)
(* and never later (filter_time.hpp:145-163), for every delay.              *)
THEOREM DelaysHold == SignalSpec => DelayHolds
<1>1. ClockInv /\ [SignalNext]_signalVars =>
        [UpdateSignals /\ Class \in DelayClasses =>
           /\ Immediate(out.value) /\ ~Immediate(out'.value) => millis' - since' >= Delay - SignalLag
           /\ out'.value # in'.value_in => millis' - since' < Delay]_signalVars
  BY DelayStep
<1> QED  BY <1>1, ClockStart, ClockStep, PTL DEF SignalSpec, DelayHolds

-----------------------------------------------------------------------------
(* Induction over natural numbers.                                          *)

(* A set of natural numbers that is not empty has a least member.           *)
LEMMA LeastNatural ==
  ASSUME NEW T \in SUBSET Nat, T # {}
  PROVE  \E x \in T : \A y \in T : x <= y
<1> DEFINE R == OpToRel(<, Nat)
<1>1. IsWellFoundedOn(R, Nat)
  BY NatLessThanWellFounded
<1>2. \A y, x \in Nat : y < x => <<y, x>> \in R
  BY DEF OpToRel
<1> HIDE DEF R
<1>3. PICK x \in T : \A y \in T : ~(<<y, x>> \in R)
  BY <1>1, WFMin, Zenon
<1>4. ASSUME NEW y \in T PROVE x <= y
  <2>1. x \in Nat /\ y \in Nat
    OBVIOUS
  <2>2. ~(y < x)
    BY <1>2, <1>3, <2>1, Zenon
  <2> QED
    BY <2>1, <2>2
<1> QED
  BY <1>4

(* Induction over the natural numbers, for a set of them.                  *)
LEMMA NaturalInduction ==
  ASSUME NEW T, 0 \in T, \A n \in Nat : n \in T => n + 1 \in T
  PROVE  Nat \subseteq T
<1> SUFFICES ASSUME Nat \ T # {} PROVE FALSE
  OBVIOUS
<1>1. PICK x \in Nat \ T : \A y \in Nat \ T : x <= y
  BY LeastNatural
<1>2. x # 0 /\ x - 1 \in Nat /\ ~(x <= x - 1)
  BY <1>1
<1>3. x - 1 \in T
  BY <1>1, <1>2
<1> QED
  BY <1>1, <1>2, <1>3

-----------------------------------------------------------------------------
(* Folds over finite sets.                                                  *)

Some(s) == CHOOSE x \in s : TRUE
Folding(G, h, s) == IF s = {} THEN 0 ELSE G[<<Some(s), h[s \ {Some(s)}]>>]

Folded(S, G) == \E h \in [SUBSET S -> Int] : \A s \in SUBSET S : h[s] = Folding(G, h, s)

(* The function a fold defines by recursion over the subsets exists: what is *)
(* left of a subset is smaller.                                             *)
LEMMA FoldExists ==
  ASSUME NEW S, IsFiniteSet(S), NEW G \in [S \X Int -> Int]
  PROVE  Folded(S, G)
<1> DEFINE Upto(h, n) == \A s \in SUBSET S : Cardinality(s) <= n => h[s] = Folding(G, h, s)
           T == {n \in Nat : \E h \in [SUBSET S -> Int] : Upto(h, n)}
<1>0. \A s \in SUBSET S : IsFiniteSet(s) /\ Cardinality(s) \in Nat /\ Cardinality(s) <= Cardinality(S)
  BY FS_Subset, FS_CardinalityType
<1>a. \A s \in SUBSET S : s # {} => /\ Some(s) \in s
                                    /\ s \ {Some(s)} \in SUBSET S
                                    /\ Cardinality(s \ {Some(s)}) = Cardinality(s) - 1
  <2> TAKE s \in SUBSET S
  <2> HAVE s # {}
  <2>1. Some(s) \in s  BY DEF Some
  <2> QED  BY <2>1, <1>0, FS_RemoveElement
<1>1. 0 \in T
  <2> DEFINE h == [s \in SUBSET S |-> 0]
  <2>1. h \in [SUBSET S -> Int]  OBVIOUS
  <2>2. ASSUME NEW s \in SUBSET S, Cardinality(s) <= 0 PROVE h[s] = Folding(G, h, s)
    <3>1. s = {}  BY <1>0, <2>2, FS_EmptySet
    <3> QED  BY <3>1 DEF Folding
  <2> HIDE DEF h
  <2> QED  BY <2>1, <2>2
<1>2. ASSUME NEW n \in Nat, n \in T PROVE n + 1 \in T
  <2>1. PICK h \in [SUBSET S -> Int] : Upto(h, n)  BY <1>2
  <2> DEFINE g == [s \in SUBSET S |-> IF Cardinality(s) <= n THEN h[s] ELSE Folding(G, h, s)]
  <2>2. \A s \in SUBSET S : Folding(G, h, s) \in Int
    <3> TAKE s \in SUBSET S
    <3>1. CASE s = {}  BY <3>1 DEF Folding
    <3>2. CASE s # {}
      <4> DEFINE rest == s \ {Some(s)}
      <4>1. Some(s) \in S /\ rest \in SUBSET S  BY <1>a, <3>2
      <4>2. h[rest] \in Int  BY <4>1
      <4>3. <<Some(s), h[rest]>> \in S \X Int  BY <4>1, <4>2
      <4>4. G[<<Some(s), h[rest]>>] \in Int  BY <4>3
      <4> QED  BY <3>2, <4>4 DEF Folding
    <3> QED  BY <3>1, <3>2
  <2>3. g \in [SUBSET S -> Int]  BY <2>2
  <2>4. ASSUME NEW s \in SUBSET S, Cardinality(s) <= n + 1 PROVE g[s] = Folding(G, g, s)
    <3>1. g[s] = Folding(G, h, s)  BY <2>1
    <3>2. s # {} => g[s \ {Some(s)}] = h[s \ {Some(s)}]
      <4> HAVE s # {}
      <4>1. s \ {Some(s)} \in SUBSET S /\ Cardinality(s \ {Some(s)}) <= n  BY <1>0, <1>a, <2>4
      <4> QED  BY <4>1
    <3> HIDE DEF g
    <3> QED  BY <3>1, <3>2 DEF Folding
  <2> HIDE DEF g
  <2> QED  BY <2>3, <2>4
<1> HIDE DEF T
<1>3. Cardinality(S) \in T  BY <1>0, <1>1, <1>2, NaturalInduction, FS_CardinalityType
<1>4. PICK h \in [SUBSET S -> Int] : \A s \in SUBSET S : Cardinality(s) <= Cardinality(S) => h[s] = Folding(G, h, s)
  BY <1>3 DEF T
<1> QED  BY <1>0, <1>4 DEF Folded

(* A function with that definition has integers as its values.              *)
LEMMA FoldTyped ==
  ASSUME NEW S, IsFiniteSet(S), NEW h, h[{}] \in Int,
         \A s \in SUBSET S : s # {} /\ h[s \ {Some(s)}] \in Int => h[s] \in Int
  PROVE  \A s \in SUBSET S : h[s] \in Int
<1> DEFINE T == {n \in Nat : \A s \in SUBSET S : Cardinality(s) <= n => h[s] \in Int}
<1>0. \A s \in SUBSET S : IsFiniteSet(s) /\ Cardinality(s) \in Nat /\ Cardinality(s) <= Cardinality(S)
  BY FS_Subset, FS_CardinalityType
<1>1. 0 \in T
  <2>1. ASSUME NEW s \in SUBSET S, Cardinality(s) <= 0 PROVE h[s] \in Int
    <3>1. s = {}  BY <1>0, <2>1, FS_EmptySet
    <3> QED  BY <3>1
  <2> QED  BY <2>1
<1>2. ASSUME NEW n \in Nat, n \in T PROVE n + 1 \in T
  <2>1. ASSUME NEW s \in SUBSET S, Cardinality(s) <= n + 1 PROVE h[s] \in Int
    <3>1. CASE s = {}  BY <3>1
    <3>2. CASE s # {}
      <4> DEFINE rest == s \ {Some(s)}
      <4>1. Some(s) \in s  BY <3>2 DEF Some
      <4>2. rest \in SUBSET S  OBVIOUS
      <4>3. Cardinality(rest) = Cardinality(s) - 1  BY <4>1, <1>0, FS_RemoveElement
      <4>4. h[rest] \in Int  BY <1>0, <1>2, <2>1, <4>2, <4>3
      <4> QED  BY <3>2, <4>4
    <3> QED  BY <3>1, <3>2
  <2> QED  BY <2>1
<1> HIDE DEF T
<1>3. Cardinality(S) \in T  BY <1>1, <1>2, NaturalInduction, FS_CardinalityType
<1> QED  BY <1>0, <1>3 DEF T

(* The sum of integers is an integer, and of two the one of both; the sum   *)
(* that stops at a limit stops there.                                       *)
Added(f) == FoldFunction(+, 0, f)
Limited(f, top) == FoldFunction(LAMBDA v, total : Smaller(v + total, top), 0, f)

(* A sum takes the elements one after the other.                            *)
LEMMA AddedFolds ==
  ASSUME NEW S, IsFiniteSet(S), NEW f \in [S -> Int]
  PROVE  \E h : /\ \A s \in SUBSET S : /\ h[s] \in Int
                                       /\ h[s] = IF s = {} THEN 0 ELSE f[Some(s)] + h[s \ {Some(s)}]
                /\ Added(f) = h[S]
<1> DEFINE Def(h) == [s \in SUBSET S |-> IF s = {} THEN 0 ELSE f[Some(s)] + h[s \ {Some(s)}]]
           F == CHOOSE h : h = Def(h)
<1>1. PICK G \in [S \X Int -> Int] : \A x \in S, n \in Int : G[<<x, n>>] = f[x] + n
  <2> DEFINE K == [p \in S \X Int |-> f[p[1]] + p[2]]
  <2>1. K \in [S \X Int -> Int]  OBVIOUS
  <2>2. \A x \in S, n \in Int : K[<<x, n>>] = f[x] + n  OBVIOUS
  <2> QED  BY <2>1, <2>2
<1>0. ASSUME NEW s \in SUBSET S, s # {} PROVE Some(s) \in S /\ s \ {Some(s)} \in SUBSET S
  BY <1>0 DEF Some
<1>2. PICK h \in [SUBSET S -> Int] : \A s \in SUBSET S : h[s] = Folding(G, h, s)
  <2>1. Folded(S, G)  BY FoldExists
  <2> QED  BY <2>1 DEF Folded
<1>3. h = Def(h)
  <2>1. ASSUME NEW s \in SUBSET S, s # {} PROVE Folding(G, h, s) = f[Some(s)] + h[s \ {Some(s)}]
    <3> DEFINE x == Some(s)  rest == s \ {x}
    <3>1. x \in S /\ h[rest] \in Int  BY <2>1, <1>0
    <3>2. Folding(G, h, s) = G[<<x, h[rest]>>]  BY <2>1 DEF Folding
    <3> HIDE DEF x, rest
    <3>3. G[<<x, h[rest]>>] = f[x] + h[rest]  BY <1>1, <3>1
    <3> QED  BY <3>2, <3>3 DEF x, rest
  <2>2. \A s \in SUBSET S : h[s] = IF s = {} THEN 0 ELSE f[Some(s)] + h[s \ {Some(s)}]
    BY <1>2, <2>1 DEF Folding
  <2> QED  BY <2>2
<1>4. F = Def(F)  BY <1>3, Zenon
<1>5. Added(f) = F[S]
  <2>1. DOMAIN f = S  OBVIOUS
  <2> QED  BY <2>1, Zenon DEF Added, FoldFunction, FoldFunctionOnSet, MapThenFoldSet, Some
<1> HIDE DEF F
<1>6. ASSUME NEW s \in SUBSET S PROVE F[s] = IF s = {} THEN 0 ELSE f[Some(s)] + F[s \ {Some(s)}]
  BY <1>4
<1>7. \A s \in SUBSET S : F[s] \in Int
  <2>1. F[{}] \in Int
    <3>1. {} \in SUBSET S  OBVIOUS
    <3>2. F[{}] = 0  BY <1>6, <3>1
    <3> QED  BY <3>2
  <2>2. ASSUME NEW s \in SUBSET S, s # {}, F[s \ {Some(s)}] \in Int PROVE F[s] \in Int
    <3>1. f[Some(s)] \in Int  BY <2>2, <1>0
    <3>2. F[s] = f[Some(s)] + F[s \ {Some(s)}]  BY <2>2, <1>6
    <3> QED  BY <3>1, <3>2, <2>2
  <2>3. \A s \in SUBSET S : s # {} /\ F[s \ {Some(s)}] \in Int => F[s] \in Int  BY <2>2
  <2> HIDE DEF Def
  <2> QED  BY <2>1, <2>3, FoldTyped
<1> QED  BY <1>5, <1>6, <1>7

(* A sum of numbers is a number.                                             *)
LEMMA AddedTyped ==
  ASSUME NEW S, IsFiniteSet(S), NEW f \in [S -> Int]
  PROVE  Added(f) \in Int
<1>1. PICK h : /\ \A s \in SUBSET S : /\ h[s] \in Int
                                      /\ h[s] = IF s = {} THEN 0 ELSE f[Some(s)] + h[s \ {Some(s)}]
               /\ Added(f) = h[S]
  BY AddedFolds, Zenon
<1> QED  BY <1>1

(* So does a sum with a limit.                                               *)
LEMMA LimitedFolds ==
  ASSUME NEW S, IsFiniteSet(S), NEW f \in [S -> Int], NEW top \in Int
  PROVE  \E h : /\ \A s \in SUBSET S : 
                     h[s] = IF s = {} THEN 0 ELSE Smaller(f[Some(s)] + h[s \ {Some(s)}], top)
                /\ Limited(f, top) = h[S]
<1> DEFINE Def(h) == [s \in SUBSET S |-> IF s = {} THEN 0 ELSE Smaller(f[Some(s)] + h[s \ {Some(s)}], top)]
           F == CHOOSE h : h = Def(h)
<1>1. PICK G \in [S \X Int -> Int] : \A x \in S, n \in Int : G[<<x, n>>] = Smaller(f[x] + n, top)
  <2> DEFINE K == [p \in S \X Int |-> Smaller(f[p[1]] + p[2], top)]
  <2>1. K \in [S \X Int -> Int]  BY DEF Smaller
  <2>2. \A x \in S, n \in Int : K[<<x, n>>] = Smaller(f[x] + n, top)  OBVIOUS
  <2> QED  BY <2>1, <2>2
<1>0. ASSUME NEW s \in SUBSET S, s # {} PROVE Some(s) \in S /\ s \ {Some(s)} \in SUBSET S
  BY <1>0 DEF Some
<1>2. PICK h \in [SUBSET S -> Int] : \A s \in SUBSET S : h[s] = Folding(G, h, s)
  <2>1. Folded(S, G)  BY FoldExists
  <2> QED  BY <2>1 DEF Folded
<1>3. h = Def(h)
  <2>1. ASSUME NEW s \in SUBSET S, s # {} PROVE Folding(G, h, s) = Smaller(f[Some(s)] + h[s \ {Some(s)}], top)
    <3> DEFINE x == Some(s)  rest == s \ {x}
    <3>1. x \in S /\ h[rest] \in Int  BY <2>1, <1>0
    <3>2. Folding(G, h, s) = G[<<x, h[rest]>>]  BY <2>1 DEF Folding
    <3> HIDE DEF x, rest
    <3>3. G[<<x, h[rest]>>] = Smaller(f[x] + h[rest], top)  BY <1>1, <3>1
    <3> QED  BY <3>2, <3>3 DEF x, rest
  <2>2. \A s \in SUBSET S : h[s] = IF s = {} THEN 0 ELSE Smaller(f[Some(s)] + h[s \ {Some(s)}], top)
    BY <1>2, <2>1 DEF Folding
  <2> QED  BY <2>2
<1>4. F = Def(F)  BY <1>3, Zenon
<1>5. Limited(f, top) = F[S]
  <2>1. DOMAIN f = S  OBVIOUS
  <2> QED  BY <2>1, Zenon DEF Limited, FoldFunction, FoldFunctionOnSet, MapThenFoldSet, Some
<1> HIDE DEF F
<1>6. ASSUME NEW s \in SUBSET S
      PROVE F[s] = IF s = {} THEN 0 ELSE Smaller(f[Some(s)] + F[s \ {Some(s)}], top)
  BY <1>4
<1> QED  BY <1>5, <1>6

(* What is left of two when one is chosen is the other one.                 *)
LEMMA Pairs ==
  ASSUME NEW a, NEW b, a # b
  PROVE  \/ Some({a, b}) = a /\ {a, b} \ {Some({a, b})} = {b} /\ Some({b}) = b /\ {b} \ {Some({b})} = {}
         \/ Some({a, b}) = b /\ {a, b} \ {Some({a, b})} = {a} /\ Some({a}) = a /\ {a} \ {Some({a})} = {}
<1>1. Some({a, b}) \in {a, b} /\ Some({a}) = a /\ Some({b}) = b  BY DEF Some
<1> QED  BY <1>1

(* The sum of two.                                                           *)
LEMMA AddedTwo ==
  ASSUME NEW f \in [{"0", "1"} -> Int]
  PROVE  Added(f) = f["0"] + f["1"]
<1> DEFINE S == {"0", "1"}
<1>1. IsFiniteSet(S)
  <2>1. IsFiniteSet({"0"})  BY FS_Singleton
  <2>2. IsFiniteSet({"0"} \cup {"1"})  BY <2>1, FS_AddElement
  <2>3. {"0"} \cup {"1"} = S  OBVIOUS
  <2> QED  BY <2>2, <2>3
<1>2. PICK h : /\ \A s \in SUBSET S : /\ h[s] \in Int
                                      /\ h[s] = IF s = {} THEN 0 ELSE f[Some(s)] + h[s \ {Some(s)}]
               /\ Added(f) = h[S]
  BY <1>1, AddedFolds, Zenon
<1>3. h[{}] = 0  BY <1>2
<1>4. f["0"] \in Int /\ f["1"] \in Int  OBVIOUS
<1>5. "0" # "1"  OBVIOUS
<1>6. h[S] = f[Some(S)] + h[S \ {Some(S)}]  BY <1>2
<1>7. h[{"0"}] = f[Some({"0"})] + h[{"0"} \ {Some({"0"})}]  BY <1>2
<1>8. h[{"1"}] = f[Some({"1"})] + h[{"1"} \ {Some({"1"})}]  BY <1>2
<1>9. \/ h[S] = f["0"] + (f["1"] + 0)
      \/ h[S] = f["1"] + (f["0"] + 0)
  <2>1. \/ Some(S) = "0" /\ S \ {Some(S)} = {"1"} /\ Some({"1"}) = "1" /\ {"1"} \ {Some({"1"})} = {}
        \/ Some(S) = "1" /\ S \ {Some(S)} = {"0"} /\ Some({"0"}) = "0" /\ {"0"} \ {Some({"0"})} = {}
    BY <1>5, Pairs, Zenon
  <2> HIDE DEF S
  <2>2. CASE Some(S) = "0" /\ S \ {Some(S)} = {"1"} /\ Some({"1"}) = "1" /\ {"1"} \ {Some({"1"})} = {}
    <3>1. h[S] = f["0"] + (f["1"] + 0)  BY <1>6, <1>8, <1>3, <2>2, Zenon
    <3> QED  BY <3>1
  <2>3. CASE Some(S) = "1" /\ S \ {Some(S)} = {"0"} /\ Some({"0"}) = "0" /\ {"0"} \ {Some({"0"})} = {}
    <3>1. h[S] = f["1"] + (f["0"] + 0)  BY <1>6, <1>7, <1>3, <2>3, Zenon
    <3> QED  BY <3>1
  <2> QED  BY <2>1, <2>2, <2>3
<1> QED  BY <1>2, <1>4, <1>9

(* The sum of two, with a limit.                                             *)
LEMMA LimitedTwo ==
  ASSUME NEW f \in [{"0", "1"} -> Nat], NEW top \in Nat
  PROVE  Limited(f, top) = Smaller(f["0"] + f["1"], top)
<1> DEFINE S == {"0", "1"}
<1>1. IsFiniteSet(S)
  <2>1. IsFiniteSet({"0"})  BY FS_Singleton
  <2>2. IsFiniteSet({"0"} \cup {"1"})  BY <2>1, FS_AddElement
  <2>3. {"0"} \cup {"1"} = S  OBVIOUS
  <2> QED  BY <2>2, <2>3
<1>2. PICK h : /\ \A s \in SUBSET S : h[s] = IF s = {} THEN 0 ELSE Smaller(f[Some(s)] + h[s \ {Some(s)}], top)
               /\ Limited(f, top) = h[S]
  <2>1. f \in [S -> Int] /\ top \in Int  OBVIOUS
  <2> QED  BY <1>1, <2>1, LimitedFolds
<1>3. h[{}] = 0  BY <1>2
<1>4. f["0"] \in Nat /\ f["1"] \in Nat  OBVIOUS
<1>5. "0" # "1"  OBVIOUS
<1>6. h[S] = Smaller(f[Some(S)] + h[S \ {Some(S)}], top)  BY <1>2
<1>7. h[{"0"}] = Smaller(f[Some({"0"})] + h[{"0"} \ {Some({"0"})}], top)  BY <1>2
<1>8. h[{"1"}] = Smaller(f[Some({"1"})] + h[{"1"} \ {Some({"1"})}], top)  BY <1>2
<1>9. \/ h[S] = Smaller(f["0"] + Smaller(f["1"] + 0, top), top)
      \/ h[S] = Smaller(f["1"] + Smaller(f["0"] + 0, top), top)
  <2>1. \/ Some(S) = "0" /\ S \ {Some(S)} = {"1"} /\ Some({"1"}) = "1" /\ {"1"} \ {Some({"1"})} = {}
        \/ Some(S) = "1" /\ S \ {Some(S)} = {"0"} /\ Some({"0"}) = "0" /\ {"0"} \ {Some({"0"})} = {}
    BY <1>5, Pairs, Zenon
  <2> HIDE DEF S
  <2>2. CASE Some(S) = "0" /\ S \ {Some(S)} = {"1"} /\ Some({"1"}) = "1" /\ {"1"} \ {Some({"1"})} = {}
    <3>1. h[S] = Smaller(f["0"] + Smaller(f["1"] + 0, top), top)  BY <1>6, <1>8, <1>3, <2>2, Zenon
    <3> QED  BY <3>1
  <2>3. CASE Some(S) = "1" /\ S \ {Some(S)} = {"0"} /\ Some({"0"}) = "0" /\ {"0"} \ {Some({"0"})} = {}
    <3>1. h[S] = Smaller(f["1"] + Smaller(f["0"] + 0, top), top)  BY <1>6, <1>7, <1>3, <2>3, Zenon
    <3> QED  BY <3>1
  <2> QED  BY <2>1, <2>2, <2>3
<1>10. \A a, b \in Nat : Smaller(a + Smaller(b + 0, top), top) = Smaller(a + b, top)
  BY DEF Smaller
<1>11. f["1"] + f["0"] = f["0"] + f["1"]  BY <1>4
<1> QED  BY <1>2, <1>4, <1>9, <1>10, <1>11

-----------------------------------------------------------------------------
(* Which class has which ports, and what comes in.                          *)

(* The ports are those of the class.                                        *)
LEMMA PortsFollowClass ==
  ASSUME kind \in Kinds
  PROVE  /\ Class \in ConversionClasses => PortTable[kind] = Conversions(Type)[Class]
         /\ Class \in CalculationClasses => PortTable[kind] = Calculations(Type)[Class]
         /\ Class \in MixerClasses => PortTable[kind] = Mixer
         /\ Class \in ConstantClasses => PortTable[kind] = Constant(Type)
         /\ Class \in DebugClasses => PortTable[kind] = Debug(Type)
         /\ Class = "filter_time" => PortTable[kind] = Ports(Nothing, [value |-> "float"])
         /\ Class \in DelayClasses => PortTable[kind] = Delayer(Type)
         /\ Class = "filter_shift" => PortTable[kind] = Shifter(Type)
         /\ Class = "filter_switch" => PortTable[kind] = Switch(Type)
         /\ Class = "filter_event_counter" => PortTable[kind] = Counter
         /\ Class = "filter_universe_output" => PortTable[kind] = UniverseOutput
<1> DEFINE t == Type
<1>0. PortTable[kind] = PortsOf(kind)  BY DEF PortTable
<1>1. /\ DOMAIN Conversions(t) = ConversionClasses
      /\ DOMAIN Calculations(t) = CalculationClasses
      /\ DOMAIN Mixers = MixerClasses
      /\ DOMAIN Constants(t) = ConstantClasses
      /\ DOMAIN Debugs(t) = DebugClasses
      /\ DOMAIN Delays(t) = {"filter_time", "delay_switch_on", "delay_switch_off"}
  BY DEF Conversions, Calculations, Mixers, Constants, Debugs, Delays, ConversionClasses,
         CalculationClasses, MixerClasses, ConstantClasses, DebugClasses
<1>2. Class \in ConversionClasses => PortsOf(kind) = Conversions(t)[Class]
  BY <1>1, ClassSets DEF PortsOf, Class, Type
<1>3. Class \in CalculationClasses => PortsOf(kind) = Calculations(t)[Class]
  BY <1>1, ClassSets DEF PortsOf, Class, Type
<1>4. Class \in MixerClasses => PortsOf(kind) = Mixer
  <2>1. Class \in MixerClasses => PortsOf(kind) = Mixers[Class]
    BY <1>1, ClassSets DEF PortsOf, Class, Type
  <2> QED  BY <2>1, ClassSets DEF Mixers
<1>5. Class \in ConstantClasses => PortsOf(kind) = Constant(t)
  <2>1. Class \in ConstantClasses => PortsOf(kind) = Constants(t)[Class]
    BY <1>1, ClassSets DEF PortsOf, Class, Type
  <2> QED  BY <2>1, ClassSets DEF Constants
<1>6. Class \in DebugClasses => PortsOf(kind) = Debug(t)
  <2>1. Class \in DebugClasses => PortsOf(kind) = Debugs(t)[Class]
    BY <1>1, ClassSets DEF PortsOf, Class, Type
  <2> QED  BY <2>1, ClassSets DEF Debugs
<1>7. Class \in DelayClasses \union {"filter_time"} => PortsOf(kind) = Delays(t)[Class]
  BY <1>1, ClassSets DEF PortsOf, Class, Type, DelayClasses
<1>8. /\ Class = "filter_shift" => PortsOf(kind) = Shifter(t)
      /\ Class = "filter_switch" => PortsOf(kind) = Switch(t)
      /\ Class = "filter_event_counter" => PortsOf(kind) = Counter
      /\ Class = "filter_universe_output" => PortsOf(kind) = UniverseOutput
  BY <1>1, ClassSets DEF PortsOf, Class, Type
<1>9. Class \in DelayClasses => PortsOf(kind) = Delayer(t)
  BY <1>7 DEF Delays, DelayClasses
<1>10. Class = "filter_time" => PortsOf(kind) = Ports(Nothing, [value |-> "float"])
  BY <1>7 DEF Delays
<1> QED  BY <1>0, <1>2, <1>3, <1>4, <1>5, <1>6, <1>8, <1>9, <1>10

(* Only a mixer goes on without inputs (filter_color_mixer_*.cpp).          *)
LEMMA BareMixers ==
  ASSUME conf \in {"sound"} \union Faults, Class \notin MixerClasses
  PROVE  Outcome # "bare"
<1>1. CASE conf = "sound"  BY <1>1 DEF Outcome
<1>2. CASE conf # "sound"
  <2>1. Outcome = ConfOutcome(Class)[conf]  BY <1>2 DEF Outcome
  <2>2. ConfOutcome(Class) \in {Sloppy, ConstantFaults, DelayFaults, RangeFaults, UniverseFaults,
                                CounterFaults, Faulty("sound", "sound", "sound", "sound")}
    BY DEF ConfOutcome
  <2>3. conf \in {"missing", "garbage", "huge", "negative"}  BY <1>2 DEF Faults
  <2>4. \A a, b, c, d : Faulty(a, b, c, d)[conf] \in {a, b, c, d}  BY <2>3 DEF Faulty
  <2> QED  BY <2>1, <2>2, <2>4 DEF Sloppy, ConstantFaults, DelayFaults, RangeFaults, UniverseFaults, CounterFaults
<1> QED  BY <1>1, <1>2

(* What comes in when all inputs but the clock have one type.               *)
LEMMA SampledInputs ==
  ASSUME kind \in Kinds, Outcome # "bare", NEW S, NEW tau,
         Class \notin Opaque \union {"filter_shift", "filter_switch"},
         "phase" \notin DOMAIN Ins, S = DOMAIN Ins \ {"time"}, S # {}, \A n \in S : Ins[n] = tau
  PROVE  Inputs = [S -> Values(tau)]
<1>1. Inputs = InputsOf(kind)  BY DEF Inputs, InputTable
<1>2. ~(WaveInputs \subseteq DOMAIN Ins)  BY DEF WaveInputs
<1> DEFINE c == CHOOSE n \in S : TRUE
<1>3. Ins[c] = tau  OBVIOUS
<1>4. kind[1] \notin Opaque /\ kind[1] # "filter_shift" /\ kind[1] # "filter_switch"  BY DEF Class
<1>5. InputsOf(kind) = [S -> Values(Ins[c])]
  <2>1. PortTable[kind].in = Ins  BY DEF Ins
  <2>2. InputsOf(kind) = IF S = {} THEN {<< >>} ELSE [S -> Values(Ins[c])]
    BY <1>2, <1>4, <2>1 DEF InputsOf, Sampled
  <2> QED  BY <2>2
<1> QED  BY <1>1, <1>3, <1>5

(* Numbers of a byte and a word.                                           *)
LEMMA Widths ==
  /\ Byte \in Nat /\ Byte >= 2 /\ AsWord \in Nat /\ AsWord >= Byte
  /\ TopOf("8bit") = Byte - 1 /\ TopOf("16bit") = AsWord - 1
  /\ Integer("8bit") = 0 .. Byte - 1 /\ Integer("16bit") = 0 .. AsWord - 1
<1>1. Byte \in Nat /\ Byte >= 2  BY SignalAssumption
<1>2. \A b \in Nat : b >= 2 => b * b \in Nat /\ b * b >= b  OBVIOUS
<1> QED  BY <1>1, <1>2 DEF AsWord, TopOf, Integer

(* A word is put together from its bytes (filter_conversion.hpp).           *)
LEMMA Bytewise ==
  /\ \A w \in 0 .. AsWord - 1 :
       /\ w % Byte \in 0 .. Byte - 1 /\ w \div Byte \in 0 .. Byte - 1
       /\ Combine(w % Byte, w \div Byte) = w
  /\ \A l, u \in 0 .. Byte - 1 :
       /\ Combine(l, u) \in 0 .. AsWord - 1
       /\ Combine(l, u) % Byte = l /\ Combine(l, u) \div Byte = u
  /\ \A v \in 0 .. Byte - 1 : Combine(v, v) * (Byte - 1) = v * (AsWord - 1)
<1> DEFINE b == Byte
<1>0. b \in Nat /\ b >= 2 /\ AsWord = b * b  BY Widths DEF AsWord
<1> HIDE DEF b
<1>1. ASSUME NEW w \in 0 .. b * b - 1
      PROVE  w % b \in 0 .. b - 1 /\ w \div b \in 0 .. b - 1 /\ (w \div b) * b + (w % b) = w
  <2> DEFINE q == w \div b  r == w % b
  <2>0. w \in Int  BY <1>0
  <2>1. q \in Int /\ r \in 0 .. b - 1 /\ w = b * q + r  BY <1>0, <2>0
  <2> HIDE DEF q, r
  <2>2. q >= 0
    <3> SUFFICES ASSUME q <= -1 PROVE FALSE  BY <2>1
    <3>1. b * q <= -b  BY <1>0, <2>1
    <3> QED  BY <1>0, <2>1, <3>1
  <2>3. q <= b - 1
    <3> SUFFICES ASSUME q >= b PROVE FALSE  BY <2>1, <1>0
    <3>1. b * q >= b * b  BY <1>0, <2>1
    <3> QED  BY <1>0, <2>1, <3>1
  <2>4. q * b = b * q  BY <1>0, <2>1
  <2> QED  BY <1>0, <2>1, <2>2, <2>3, <2>4 DEF q, r
<1>2. ASSUME NEW l \in 0 .. b - 1, NEW u \in 0 .. b - 1
      PROVE  u * b + l \in 0 .. b * b - 1 /\ (u * b + l) % b = l /\ (u * b + l) \div b = u
  <2>1. u * b \in Nat /\ u * b <= b * b - b
    <3>1. \A x \in Nat : x <= b - 1 => x * b \in Nat /\ x * b <= (b - 1) * b  BY <1>0
    <3>2. (b - 1) * b = b * b - b  BY <1>0
    <3> QED  BY <1>0, <3>1, <3>2
  <2> DEFINE w == u * b + l  q == w \div b  r == w % b
  <2>2. w \in Int /\ w \in 0 .. b * b - 1  BY <1>0, <2>1
  <2>3. q \in Int /\ r \in 0 .. b - 1 /\ w = b * q + r  BY <1>0, <2>2
  <2>4. w = b * u + l  BY <1>0
  <2> HIDE DEF w, q, r
  <2>5. b * (q - u) = l - r  BY <1>0, <2>2, <2>3, <2>4
  <2>6. q = u
    <3> DEFINE d == q - u
    <3>1. d \in Int /\ b * d = l - r /\ l - r < b /\ l - r > -b  BY <1>0, <2>3, <2>5
    <3> HIDE DEF d
    <3>2. d < 1
      <4> SUFFICES ASSUME d >= 1 PROVE FALSE  BY <3>1
      <4>1. b * d >= b  BY <1>0, <3>1
      <4> QED  BY <1>0, <2>3, <3>1, <4>1
    <3>3. d > -1
      <4> SUFFICES ASSUME d <= -1 PROVE FALSE  BY <3>1
      <4>1. b * d <= -b  BY <1>0, <3>1
      <4> QED  BY <1>0, <2>3, <3>1, <4>1
    <3>4. d = 0  BY <3>1, <3>2, <3>3
    <3> QED  BY <2>3, <3>4 DEF d
  <2>7. r = l  BY <1>0, <2>3, <2>4, <2>6
  <2> QED  BY <2>2, <2>6, <2>7 DEF w, q, r
<1>3. ASSUME NEW v \in 0 .. b - 1 PROVE (v * b + v) * (b - 1) = v * (b * b - 1)
  BY <1>0
<1>4. \A w \in 0 .. b * b - 1 : w % b \in 0 .. b - 1 /\ w \div b \in 0 .. b - 1 /\ Combine(w % b, w \div b) = w
  BY <1>1, <1>0 DEF Combine, b
<1>5. \A l, u \in 0 .. b - 1 : /\ Combine(l, u) \in 0 .. b * b - 1
                             /\ Combine(l, u) % b = l /\ Combine(l, u) \div b = u
  BY <1>2 DEF Combine, b
<1>6. \A v \in 0 .. b - 1 : Combine(v, v) * (b - 1) = v * (b * b - 1)
  BY <1>3 DEF Combine, b
<1> QED  BY <1>0, <1>4, <1>5, <1>6 DEF b

(* The values on inputs and in configurations have their type.              *)
LEMMA ValuesTyped ==
  ASSUME NEW t \in Types
  PROVE  /\ \A v \in Values(t) : IsValue(t, v)
         /\ IsValue(t, Zero(t))
         /\ \A v \in FromShow(t) : IsValue(t, v)
<1>1. CASE t \in {"8bit", "16bit"}
  <2>1. TopOf(t) \in Nat /\ Integer(t) = 0 .. TopOf(t)  BY <1>1, Widths
  <2>2. Values(t) = Integer(t) /\ \A v : IsValue(t, v) <=> v \in Integer(t)  BY <1>1 DEF Values, IsValue
  <2>3. FromShow(t) = {Clamp(v, 0, TopOf(t)) : v \in -1 .. TopOf(t) + 1}  BY <1>1 DEF FromShow
  <2>4. \A v \in -1 .. TopOf(t) + 1 : Clamp(v, 0, TopOf(t)) \in 0 .. TopOf(t)  BY <2>1 DEF Clamp
  <2>5. Zero(t) = 0  BY <1>1 DEF Zero
  <2> QED  BY <2>1, <2>2, <2>3, <2>4, <2>5
<1>2. CASE t = "float"
  <2>1. Values(t) = Floats /\ FromShow(t) = Floats /\ Zero(t) = 0  BY <1>2 DEF Values, FromShow, Zero
  <2>2. \A v : IsValue(t, v) <=> v \in Int  BY <1>2 DEF IsValue
  <2> QED  BY <2>1, <2>2, SignalAssumption
<1>3. CASE t = "color"
  <2>1. Values(t) = Colours /\ FromShow(t) = Colours /\ Zero(t) = <<0, 0, 0>>
    BY <1>3 DEF Values, FromShow, Zero
  <2>2. \A v : IsValue(t, v) <=> v \in [1 .. 3 -> Integer("16bit")]  BY <1>3 DEF IsValue
  <2>3. Colours \subseteq [1 .. 3 -> Integer("16bit")]  BY SignalAssumption, Widths DEF AsWord
  <2>4. <<0, 0, 0>> \in [1 .. 3 -> Integer("16bit")]  BY Widths
  <2> QED  BY <2>1, <2>2, <2>3, <2>4
<1> QED  BY <1>1, <1>2, <1>3 DEF Types

-----------------------------------------------------------------------------
(* What an update leaves.                                                   *)

OutsSound(o) == DOMAIN o = DOMAIN Outs /\ \A n \in DOMAIN Outs : IsValue(Outs[n], o[n])

(* What it means to be a value of each type.                                *)
LEMMA ValueKinds ==
  /\ \A v : IsValue("8bit", v) <=> v \in 0 .. Byte - 1
  /\ \A v : IsValue("16bit", v) <=> v \in 0 .. AsWord - 1
  /\ \A v : IsValue("float", v) <=> v \in Int
  /\ \A v : IsValue("color", v) <=> v \in [1 .. 3 -> 0 .. AsWord - 1]
BY Widths DEF IsValue

(* Outputs of one type, and a single one.                                   *)
LEMMA SameOuts ==
  ASSUME NEW S, NEW t, Outs = [n \in S |-> t], NEW o, DOMAIN o = S, \A n \in S : IsValue(t, o[n])
  PROVE  OutsSound(o)
BY DEF OutsSound

(* A single output.                                                          *)
LEMMA OneOut ==
  ASSUME NEW t, Outs = [value |-> t], NEW v, IsValue(t, v)
  PROVE  OutsSound([value |-> v])
<1> DEFINE o == [value |-> v]
<1>1. DOMAIN Outs = {"value"} /\ DOMAIN o = {"value"} /\ Outs["value"] = t /\ o["value"] = v  OBVIOUS
<1> HIDE DEF o
<1>2. OutsSound(o)  BY <1>1 DEF OutsSound
<1> QED  BY <1>2 DEF o

\* The right value, where the model knows it.
Exact(i, o, m) ==
  /\ Class = "filter_16bit_to_dual_byte" => Combine(o.value_lower, o.value_upper) = i.value
  /\ Class = "filter_combine_bytes" => Split(o.value) = [value_lower |-> i.lower, value_upper |-> i.upper]
  /\ Class = "filter_map_8bit_to_16bit" => o.value * TopOf("8bit") = i.value_in * TopOf("16bit")
  /\ Class = "filter_multi_t_sum" /\ Type # "float" =>
       o.value = Smaller(i["0"] + i["1"], TopOf(Type))
  /\ Class = "filter_color_mixer_add_rgb" /\ i # << >> =>
       \A c \in 1 .. 3 : o.value[c] = Smaller(i["0"][c] + i["1"][c], TopOf("16bit"))
  /\ Class = "float_map_range" /\ m.limit =>
       o.value \in Whole(Type, Smaller(m.lower_out, m.upper_out)) ..
                   Whole(Type, Larger(m.lower_out, m.upper_out))

RangeMem(m) ==
  m \in [lower_in : Int, upper_in : Int, lower_out : Int, upper_out : Int, limit : BOOLEAN]

(* Halves round to a number that is not larger than all of it.              *)
LEMMA Rounds ==
  /\ \A x \in Int : Round(x) \in Int
  /\ \A x, y \in Int : x <= y => Round(x) <= Round(y)
  /\ \A n \in Nat : Round(0) = 0 /\ Round(2 * n) = n
BY DEF Round

(* A mapped number has its type, and more of it is mapped to more.          *)
LEMMA Wholes ==
  ASSUME NEW t \in {"8bit", "16bit", "float"}
  PROVE  /\ \A x \in Int : Whole(t, x) \in Int /\ IsValue(t, Whole(t, x))
         /\ \A x, y \in Int : x <= y => Whole(t, x) <= Whole(t, y)
<1>1. CASE t = "float"  BY <1>1 DEF Whole, IsValue
<1>2. CASE t # "float"
  <2> DEFINE top == TopOf(t)
  <2>1. top \in Nat /\ Integer(t) = 0 .. top  BY <1>2, Widths
  <2>2. \A x : Whole(t, x) = Round(Clamp(x, 0, 2 * top))  BY <1>2 DEF Whole
  <2>3. \A v : IsValue(t, v) <=> v \in 0 .. top  BY <1>2, <2>1 DEF IsValue
  <2> HIDE DEF top
  <2>4. \A x \in Int : Clamp(x, 0, 2 * top) \in 0 .. 2 * top  BY <2>1 DEF Clamp
  <2>5. \A x, y \in Int : x <= y => Clamp(x, 0, 2 * top) <= Clamp(y, 0, 2 * top)  BY <2>1 DEF Clamp
  <2>6. ASSUME NEW x \in Int PROVE Round(Clamp(x, 0, 2 * top)) \in 0 .. top
    <3> DEFINE c == Clamp(x, 0, 2 * top)
    <3>1. c \in Int /\ 0 <= c /\ c <= 2 * top  BY <2>1, <2>4
    <3> HIDE DEF c
    <3>a. 0 \in Int /\ 2 * top \in Int  BY <2>1
    <3>2. Round(0) <= Round(c) /\ Round(c) <= Round(2 * top) /\ Round(c) \in Int  BY <3>a, <3>1, Rounds
    <3>3. Round(0) = 0 /\ Round(2 * top) = top  BY <2>1, Rounds
    <3> QED  BY <2>1, <3>2, <3>3 DEF c
  <2>7. ASSUME NEW x \in Int, NEW y \in Int, x <= y
        PROVE  Round(Clamp(x, 0, 2 * top)) <= Round(Clamp(y, 0, 2 * top))
    <3>1. Clamp(x, 0, 2 * top) \in Int /\ Clamp(y, 0, 2 * top) \in Int  BY <2>1, <2>4
    <3> QED  BY <2>5, <2>7, <3>1, Rounds
  <2>8. \A x \in Int : Round(Clamp(x, 0, 2 * top)) \in Int  BY <2>1, <2>6
  <2> QED  BY <2>2, <2>3, <2>6, <2>7, <2>8
<1> QED  BY <1>1, <1>2

(* A share of a distance lies within it, however it is rounded.             *)
LEMMA Share ==
  ASSUME NEW p \in Nat, NEW den \in Nat, den > 0, p <= den, NEW d \in Int
  PROVE  LET num == p * d
             q == num \div den
             r == (num + den - 1) \div den
         IN  /\ q \in Int /\ r \in Int
             /\ q >= Smaller(0, d) /\ q <= Larger(0, d)
             /\ r >= Smaller(0, d) /\ r <= Larger(0, d)
<1> DEFINE num == p * d  q == num \div den  r == (num + den - 1) \div den
           x == num % den  y == (num + den - 1) % den
<1>1. num \in Int  OBVIOUS
<1>2. d >= 0 => num >= 0 /\ num <= den * d
  <2>1. d >= 0 => p * d >= 0 /\ p * d <= den * d  OBVIOUS
  <2> QED  BY <2>1
<1>3. d < 0 => num <= 0 /\ num >= den * d
  <2>1. d < 0 => p * d <= 0 /\ p * d >= den * d  OBVIOUS
  <2> QED  BY <2>1
<1> HIDE DEF num
<1>4. q \in Int /\ x \in 0 .. den - 1 /\ num = den * q + x  BY <1>1
<1>5. r \in Int /\ y \in 0 .. den - 1 /\ num + den - 1 = den * r + y  BY <1>1
<1> HIDE DEF q, r, x, y
<1>6. \A a, b \in Int : den * a < den * b + den => a <= b
  <2> SUFFICES ASSUME NEW a \in Int, NEW b \in Int, den * a < den * b + den, a >= b + 1 PROVE FALSE
    OBVIOUS
  <2>1. den * a >= den * (b + 1)  OBVIOUS
  <2>2. den * (b + 1) = den * b + den  OBVIOUS
  <2>3. den * a \in Int /\ den * b \in Int  OBVIOUS
  <2> QED  BY <2>1, <2>2, <2>3
<1>7. den * 0 = 0 /\ den * d \in Int /\ den * q \in Int /\ den * r \in Int  BY <1>4, <1>5
<1>8. CASE d >= 0
  <2>1. den * 0 < den * q + den /\ den * q < den * d + den  BY <1>1, <1>2, <1>4, <1>7, <1>8
  <2>2. den * 0 < den * r + den /\ den * r < den * d + den  BY <1>1, <1>2, <1>5, <1>7, <1>8
  <2>3. 0 <= q /\ q <= d /\ 0 <= r /\ r <= d  BY <1>4, <1>5, <1>6, <2>1, <2>2
  <2> QED  BY <1>4, <1>5, <1>8, <2>3 DEF q, r, num, Smaller, Larger
<1>9. CASE d < 0
  <2>1. den * d < den * q + den /\ den * q < den * 0 + den  BY <1>1, <1>3, <1>4, <1>7, <1>9
  <2>2. den * d < den * r + den /\ den * r < den * 0 + den  BY <1>1, <1>3, <1>5, <1>7, <1>9
  <2>3. d <= q /\ q <= 0 /\ d <= r /\ r <= 0  BY <1>4, <1>5, <1>6, <2>1, <2>2
  <2> QED  BY <1>4, <1>5, <1>9, <2>3 DEF q, r, num, Smaller, Larger
<1> QED  BY <1>8, <1>9

(* A number is mapped to one of the type, and a limited one to one between   *)
(* the bounds of the output (filter_conversion.hpp:490-522).                *)
LEMMA MappedWithin ==
  ASSUME Type \in {"8bit", "16bit", "float"}, NEW m, RangeMem(m), m.lower_in # m.upper_in,
         NEW x \in Int, NEW v \in Mapped(m, x)
  PROVE  /\ IsValue(Type, v)
         /\ m.limit => v \in Whole(Type, Smaller(m.lower_out, m.upper_out)) ..
                             Whole(Type, Larger(m.lower_out, m.upper_out))
<1> DEFINE lo == m.lower_in  hi == m.upper_in  d == m.upper_out - m.lower_out
           w == IF m.limit THEN Larger(Smaller(x, hi), lo) ELSE x
           sign == IF hi > lo THEN 1 ELSE -1
           num == sign * (w - lo) * d
           den == sign * (hi - lo)
<1>1. lo \in Int /\ hi \in Int /\ m.lower_out \in Int /\ m.upper_out \in Int /\ m.limit \in BOOLEAN /\ lo # hi
  BY DEF RangeMem
<1>2. PICK q \in {num \div den, (num + den - 1) \div den} : v = Whole(Type, q + m.lower_out)
  BY DEF Mapped
<1>3. d \in Int /\ den \in Nat /\ den > 0 /\ w \in Int /\ sign \in Int
  <2> HIDE DEF lo, hi
  <2> QED  BY <1>1 DEF Larger, Smaller
<1>4. num \in Int
  <2> HIDE DEF w, sign, d, lo
  <2> QED  BY <1>1, <1>3
<1>5. q \in Int
  <2> HIDE DEF num, den
  <2> QED  BY <1>3, <1>4, <1>2
<1>6. IsValue(Type, v)
  <2> HIDE DEF num, den, d
  <2>1. q + m.lower_out \in Int  BY <1>1, <1>5
  <2> QED  BY <1>2, <2>1, Wholes
<1>7. ASSUME m.limit
      PROVE  v \in Whole(Type, Smaller(m.lower_out, m.upper_out)) ..
                   Whole(Type, Larger(m.lower_out, m.upper_out))
  <2> DEFINE p == sign * (w - lo)
  <2>1. p \in Nat /\ p <= den
    <3> HIDE DEF lo, hi
    <3> QED  BY <1>1, <1>7 DEF Larger, Smaller
  <2>2. num = p * d  OBVIOUS
  <2> HIDE DEF p, den, d, num
  <2>3. q >= Smaller(0, d) /\ q <= Larger(0, d)
    BY <1>2, <1>3, <2>1, <2>2, Share
  <2>4. /\ q + m.lower_out \in Int
        /\ Smaller(m.lower_out, m.upper_out) \in Int /\ Larger(m.lower_out, m.upper_out) \in Int
        /\ q + m.lower_out >= Smaller(m.lower_out, m.upper_out)
        /\ q + m.lower_out <= Larger(m.lower_out, m.upper_out)
    BY <1>1, <1>5, <2>3 DEF d, Smaller, Larger
  <2> DEFINE a == Smaller(m.lower_out, m.upper_out)  b == Larger(m.lower_out, m.upper_out)  c == q + m.lower_out
  <2>5. a \in Int /\ b \in Int /\ c \in Int /\ a <= c /\ c <= b  BY <2>4
  <2> HIDE DEF a, b, c
  <2>6. /\ Whole(Type, a) \in Int /\ Whole(Type, b) \in Int /\ Whole(Type, c) \in Int
        /\ Whole(Type, a) <= Whole(Type, c) /\ Whole(Type, c) <= Whole(Type, b)
    BY <2>5, Wholes
  <2>7. v = Whole(Type, c)  BY <1>2 DEF c
  <2> QED  BY <2>6, <2>7 DEF a, b
<1> QED  BY <1>6, <1>7

(* A kind has a type its class is a template over.                          *)
LEMMA KindTypes ==
  ASSUME kind \in Kinds
  PROVE  /\ Type \in Types
         /\ Class \in {"filter_float_to_X", "filter_multi_t_sum", "float_map_range"} \union DelayClasses
              => Type \in {"8bit", "16bit", "float"}
         /\ Class = "filter_to_float" => Type \in {"8bit", "16bit"}
<1>1. Type \in TypesOf(Class)  BY SignalAssumption DEF Class, Type
<1>2. Class \in {"filter_float_to_X", "filter_multi_t_sum", "float_map_range"} \union DelayClasses
        => TypesOf(Class) = {"8bit", "16bit", "float"}
  BY DEF TypesOf, DelayClasses
<1>3. Class = "filter_to_float" => TypesOf(Class) = {"8bit", "16bit"}  BY DEF TypesOf
<1>4. TypesOf(Class) \subseteq Types  BY DEF TypesOf, Types
<1> QED  BY <1>1, <1>2, <1>3, <1>4

(* A conversion leaves a value of its type, and the right one               *)
(* (filter_conversion.hpp).                                                 *)
LEMMA ConvertedSound ==
  ASSUME kind \in Kinds, conf \in {"sound"} \union Faults, Class \in ConversionClasses,
         Class = "float_map_range" => RangeMem(mem) /\ mem.lower_in # mem.upper_in,
         NEW i \in Inputs, NEW o \in Converted(i)
  PROVE  OutsSound(o) /\ Exact(i, o, mem)
<1>0. Outcome # "bare"  BY BareMixers, ClassSets
<1>1. CASE Class = "filter_16bit_to_dual_byte"
  <2>0. PortTable[kind] = DualByte  BY <1>1, PortsFollowClass, ClassSets DEF Conversions
  <2>1. Outs = [n \in {"value_lower", "value_upper"} |-> "8bit"]  BY <2>0 DEF Outs, DualByte, Ports, All
  <2>2. Inputs = [{"value"} -> Values("16bit")]
    <3>1. DOMAIN Ins = {"value"} /\ \A n \in DOMAIN Ins : Ins[n] = "16bit"  BY <2>0 DEF Ins, DualByte, Ports, All
    <3>2. Class \notin Opaque \union {"filter_shift", "filter_switch"}  BY <1>1 DEF Opaque
    <3>3. {"value"} = DOMAIN Ins \ {"time"} /\ "phase" \notin DOMAIN Ins /\ {"value"} # {}  BY <3>1
    <3> QED  BY <1>0, <3>1, <3>2, <3>3, SampledInputs
  <2>3. o = Split(i.value) /\ i.value \in 0 .. AsWord - 1  BY <1>1, <2>2, Widths DEF Converted, Values
  <2>4. o.value_lower \in 0 .. Byte - 1 /\ o.value_upper \in 0 .. Byte - 1
        /\ Combine(o.value_lower, o.value_upper) = i.value /\ DOMAIN o = {"value_lower", "value_upper"}
    BY <2>3, Bytewise DEF Split
  <2>7. \A n \in {"value_lower", "value_upper"} : IsValue("8bit", o[n])  BY <2>4, ValueKinds
  <2>8. OutsSound(o)  BY <2>1, <2>4, <2>7, SameOuts
  <2>9. Exact(i, o, mem)  BY <1>1, <2>1, <2>4, Widths DEF Exact
  <2> QED  BY <2>8, <2>9
<1>2. CASE Class = "filter_16bit_to_bool"
  <2>0. PortTable[kind] = ToBool  BY <1>2, PortsFollowClass, ClassSets DEF Conversions
  <2>1. Outs = [value |-> "8bit"]  BY <2>0 DEF Outs, ToBool, Ports, All
  <2>2. Inputs = [{"value_in"} -> Values("16bit")]
    <3>1. DOMAIN Ins = {"value_in"} /\ \A n \in DOMAIN Ins : Ins[n] = "16bit"  BY <2>0 DEF Ins, ToBool, Ports, All
    <3>2. Class \notin Opaque \union {"filter_shift", "filter_switch"}  BY <1>2 DEF Opaque
    <3>3. {"value_in"} = DOMAIN Ins \ {"time"} /\ "phase" \notin DOMAIN Ins /\ {"value_in"} # {}  BY <3>1
    <3> QED  BY <1>0, <3>1, <3>2, <3>3, SampledInputs
  <2>3. o = [value |-> IF i.value_in > 0 THEN 1 ELSE 0]  BY <1>2 DEF Converted
  <2>4. IsValue("8bit", IF i.value_in > 0 THEN 1 ELSE 0)  BY ValueKinds, Widths
  <2>8. OutsSound(o)  BY <2>1, <2>3, <2>4, OneOut
  <2>9. Exact(i, o, mem)  BY <1>2, <2>1, <2>3, Widths DEF Exact
  <2> QED  BY <2>8, <2>9
<1>3. CASE Class = "filter_multiply_add"
  <2>0. PortTable[kind] = MultiplyAdd  BY <1>3, PortsFollowClass, ClassSets DEF Conversions
  <2>1. Outs = [value |-> "float"]  BY <2>0 DEF Outs, MultiplyAdd, Ports, All
  <2>2. Inputs = [{"factor1", "factor2", "summand"} -> Values("float")]
    <3>1. DOMAIN Ins = {"factor1", "factor2", "summand"} /\ \A n \in DOMAIN Ins : Ins[n] = "float"  BY <2>0 DEF Ins, MultiplyAdd, Ports, All
    <3>2. Class \notin Opaque \union {"filter_shift", "filter_switch"}  BY <1>3 DEF Opaque
    <3>3. {"factor1", "factor2", "summand"} = DOMAIN Ins \ {"time"} /\ "phase" \notin DOMAIN Ins /\ {"factor1", "factor2", "summand"} # {}  BY <3>1
    <3> QED  BY <1>0, <3>1, <3>2, <3>3, SampledInputs
  <2>3. i.factor1 \in Int /\ i.factor2 \in Int /\ i.summand \in Int
    BY <2>2, SignalAssumption DEF Values
  <2>4. PICK p \in Halves(i.factor1 * i.factor2) : o = [value |-> p + i.summand]  BY <1>3 DEF Converted
  <2>5. i.factor1 * i.factor2 \in Int  BY <2>3
  <2>6. p \in Int  BY <2>5 DEF Halves
  <2>7. IsValue("float", p + i.summand)  BY <2>3, <2>6, ValueKinds
  <2>8. OutsSound(o)  BY <2>1, <2>4, <2>7, OneOut
  <2>9. Exact(i, o, mem)  BY <1>3, <2>1, <2>3, <2>4, <2>6 DEF Exact
  <2> QED  BY <2>8, <2>9
<1>4. CASE Class = "filter_float_to_X"
  <2>0. PortTable[kind] = FloatToX(Type)  BY <1>4, PortsFollowClass, ClassSets DEF Conversions
  <2>1. Outs = [value |-> Type]  BY <2>0 DEF Outs, FloatToX, Ports, All
  <2>2. Inputs = [{"value_in"} -> Values("float")]
    <3>1. DOMAIN Ins = {"value_in"} /\ \A n \in DOMAIN Ins : Ins[n] = "float"  BY <2>0 DEF Ins, FloatToX, Ports, All
    <3>2. Class \notin Opaque \union {"filter_shift", "filter_switch"}  BY <1>4 DEF Opaque
    <3>3. {"value_in"} = DOMAIN Ins \ {"time"} /\ "phase" \notin DOMAIN Ins /\ {"value_in"} # {}  BY <3>1
    <3> QED  BY <1>0, <3>1, <3>2, <3>3, SampledInputs
  <2>3. i.value_in \in Int  BY <2>2, SignalAssumption DEF Values
  <2>4. Type \in {"8bit", "16bit", "float"}  BY <1>4, KindTypes
  <2>5. Round(i.value_in) \in Int  BY <2>3, Rounds
  <2>6. PICK v \in FloatTo(Type, i.value_in) : o = [value |-> v]  BY <1>4 DEF Converted
  <2>7. IsValue(Type, v)
    <3>1. CASE Type = "float"  BY <2>5, <2>6, <3>1 DEF FloatTo, IsValue
    <3>2. CASE Type # "float"
      <4>1. v \in Cast(Type, Round(i.value_in))  BY <2>6, <3>2 DEF FloatTo
      <4>2. v \in Integer(Type)  BY <4>1 DEF Cast
      <4> QED  BY <2>4, <3>2, <4>2 DEF IsValue
    <3> QED  BY <3>1, <3>2
  <2>8. OutsSound(o)  BY <2>1, <2>6, <2>7, OneOut
  <2>9. Exact(i, o, mem)  BY <1>4, <2>1, <2>6, <2>7 DEF Exact
  <2> QED  BY <2>8, <2>9
<1>5. CASE Class = "filter_pixel_to_rgb"
  <2>0. PortTable[kind] = PixelToRgb  BY <1>5, PortsFollowClass, ClassSets DEF Conversions
  <2>1. Outs = [n \in {"r", "g", "b"} |-> "8bit"]  BY <2>0 DEF Outs, PixelToRgb, Ports, All
  <2>2. Inputs = [{"value"} -> Values("color")]
    <3>1. DOMAIN Ins = {"value"} /\ \A n \in DOMAIN Ins : Ins[n] = "color"  BY <2>0 DEF Ins, PixelToRgb, Ports, All
    <3>2. Class \notin Opaque \union {"filter_shift", "filter_switch"}  BY <1>5 DEF Opaque
    <3>3. {"value"} = DOMAIN Ins \ {"time"} /\ "phase" \notin DOMAIN Ins /\ {"value"} # {}  BY <3>1
    <3> QED  BY <1>0, <3>1, <3>2, <3>3, SampledInputs
  <2>3. i.value \in [1 .. 3 -> 0 .. AsWord - 1]  BY <2>2, SignalAssumption DEF Values, AsWord
  <2>4. \A c \in 1 .. 3 : i.value[c] \div Byte \in 0 .. Byte - 1  BY <2>3, Bytewise
  <2>5. o = [r |-> i.value[1] \div Byte, g |-> i.value[2] \div Byte, b |-> i.value[3] \div Byte]
    BY <1>5 DEF Converted
  <2>6. \A n \in {"r", "g", "b"} : IsValue("8bit", o[n])  BY <2>4, <2>5, ValueKinds
  <2>7. DOMAIN o = {"r", "g", "b"}  BY <2>5
  <2>8. OutsSound(o)  BY <2>1, <2>6, <2>7, SameOuts
  <2>9. Exact(i, o, mem)  BY <1>5, <2>1, <2>4, <2>5, Widths DEF Exact
  <2> QED  BY <2>8, <2>9
<1>6. CASE Class = "filter_pixel_to_rgbw"
  <2>0. PortTable[kind] = PixelToRgbw  BY <1>6, PortsFollowClass, ClassSets DEF Conversions
  <2>1. Outs = [n \in {"r", "g", "b", "w"} |-> "8bit"]  BY <2>0 DEF Outs, PixelToRgbw, Ports, All
  <2>3. o \in [{"r", "g", "b", "w"} -> Integer("8bit")]  BY <1>6 DEF Converted
  <2>4. \A n \in {"r", "g", "b", "w"} : IsValue("8bit", o[n])  BY <2>3, ValueKinds, Widths
  <2>5. DOMAIN o = {"r", "g", "b", "w"}  BY <2>3
  <2>8. OutsSound(o)  BY <2>1, <2>4, <2>5, SameOuts
  <2>9. Exact(i, o, mem)  BY <1>6, <2>1, <2>3 DEF Exact
  <2> QED  BY <2>8, <2>9
<1>7. CASE Class = "filter_floats_to_pixel"
  <2>0. PortTable[kind] = FloatsToPixel  BY <1>7, PortsFollowClass, ClassSets DEF Conversions
  <2>1. Outs = [value |-> "color"]  BY <2>0 DEF Outs, FloatsToPixel, Ports, All
  <2>3. PICK c \in Colours : o = [value |-> c]  BY <1>7 DEF Converted
  <2>4. IsValue("color", c)  BY ValuesTyped DEF Types, Values
  <2>8. OutsSound(o)  BY <2>1, <2>3, <2>4, OneOut
  <2>9. Exact(i, o, mem)  BY <1>7, <2>1, <2>3, <2>4 DEF Exact
  <2> QED  BY <2>8, <2>9
<1>8. CASE Class = "filter_pixel_to_floats"
  <2>0. PortTable[kind] = PixelToFloats  BY <1>8, PortsFollowClass, ClassSets DEF Conversions
  <2>1. Outs = [n \in {"h", "s", "i"} |-> "float"]  BY <2>0 DEF Outs, PixelToFloats, Ports, All
  <2>3. o \in [{"h", "s", "i"} -> {0, 1}]  BY <1>8 DEF Converted
  <2>4. \A n \in {"h", "s", "i"} : IsValue("float", o[n])  BY <2>3, ValueKinds
  <2>5. DOMAIN o = {"h", "s", "i"}  BY <2>3
  <2>8. OutsSound(o)  BY <2>1, <2>4, <2>5, SameOuts
  <2>9. Exact(i, o, mem)  BY <1>8, <2>1, <2>3 DEF Exact
  <2> QED  BY <2>8, <2>9
<1>9. CASE Class = "filter_to_float"
  <2>0. PortTable[kind] = ToFloat(Type)  BY <1>9, PortsFollowClass, ClassSets DEF Conversions
  <2>1. Outs = [value |-> "float"]  BY <2>0 DEF Outs, ToFloat, Ports, All
  <2>2. Inputs = [{"value_in"} -> Values(Type)]
    <3>1. DOMAIN Ins = {"value_in"} /\ \A n \in DOMAIN Ins : Ins[n] = Type  BY <2>0 DEF Ins, ToFloat, Ports, All
    <3>2. Class \notin Opaque \union {"filter_shift", "filter_switch"}  BY <1>9 DEF Opaque
    <3>3. {"value_in"} = DOMAIN Ins \ {"time"} /\ "phase" \notin DOMAIN Ins /\ {"value_in"} # {}  BY <3>1
    <3> QED  BY <1>0, <3>1, <3>2, <3>3, SampledInputs
  <2>3. i.value_in \in Int
    <3>1. Type \in {"8bit", "16bit"}  BY <1>9, KindTypes
    <3>2. i.value_in \in Integer(Type)  BY <2>2, <3>1 DEF Values
    <3> QED  BY <3>1, <3>2, Widths
  <2>4. o = [value |-> 2 * i.value_in]  BY <1>9 DEF Converted
  <2>5. IsValue("float", 2 * i.value_in)  BY <2>3, ValueKinds
  <2>8. OutsSound(o)  BY <2>1, <2>4, <2>5, OneOut
  <2>9. Exact(i, o, mem)  BY <1>9, <2>1, <2>3, <2>4 DEF Exact
  <2> QED  BY <2>8, <2>9
<1>10. CASE Class = "float_map_range"
  <2>0. PortTable[kind] = RangeMapper(Type)  BY <1>10, PortsFollowClass, ClassSets DEF Conversions
  <2>1. Outs = [value |-> Type]  BY <2>0 DEF Outs, RangeMapper, Ports, All
  <2>2. Inputs = [{"value_in"} -> Values("float")]
    <3>1. DOMAIN Ins = {"value_in"} /\ \A n \in DOMAIN Ins : Ins[n] = "float"  BY <2>0 DEF Ins, RangeMapper, Ports, All
    <3>2. Class \notin Opaque \union {"filter_shift", "filter_switch"}  BY <1>10 DEF Opaque
    <3>3. {"value_in"} = DOMAIN Ins \ {"time"} /\ "phase" \notin DOMAIN Ins /\ {"value_in"} # {}  BY <3>1
    <3> QED  BY <1>0, <3>1, <3>2, <3>3, SampledInputs
  <2>3. i.value_in \in Int  BY <2>2, SignalAssumption DEF Values
  <2>4. Type \in {"8bit", "16bit", "float"}  BY <1>10, KindTypes
  <2>5. PICK v \in Mapped(mem, i.value_in) : o = [value |-> v]  BY <1>10 DEF Converted
  <2>6. /\ IsValue(Type, v)
        /\ mem.limit => v \in Whole(Type, Smaller(mem.lower_out, mem.upper_out)) ..
                              Whole(Type, Larger(mem.lower_out, mem.upper_out))
    BY <1>10, <2>3, <2>4, MappedWithin
  <2>7. o.value = v /\ DOMAIN o = {"value"}  BY <2>5
  <2>8. OutsSound(o)  BY <2>1, <2>5, <2>6, OneOut
  <2>9. Exact(i, o, mem)  BY <1>10, <2>1, <2>6, <2>7 DEF Exact
  <2> QED  BY <2>8, <2>9
<1>11. CASE Class = "filter_combine_bytes"
  <2>0. PortTable[kind] = CombineBytes  BY <1>11, PortsFollowClass, ClassSets DEF Conversions
  <2>1. Outs = [value |-> "16bit"]  BY <2>0 DEF Outs, CombineBytes, Ports, All
  <2>2. Inputs = [{"lower", "upper"} -> Values("8bit")]
    <3>1. DOMAIN Ins = {"lower", "upper"} /\ \A n \in DOMAIN Ins : Ins[n] = "8bit"  BY <2>0 DEF Ins, CombineBytes, Ports, All
    <3>2. Class \notin Opaque \union {"filter_shift", "filter_switch"}  BY <1>11 DEF Opaque
    <3>3. {"lower", "upper"} = DOMAIN Ins \ {"time"} /\ "phase" \notin DOMAIN Ins /\ {"lower", "upper"} # {}  BY <3>1
    <3> QED  BY <1>0, <3>1, <3>2, <3>3, SampledInputs
  <2>3. i.lower \in 0 .. Byte - 1 /\ i.upper \in 0 .. Byte - 1  BY <2>2, Widths DEF Values
  <2>4. o = [value |-> Combine(i.lower, i.upper)]  BY <1>11 DEF Converted
  <2>5. Split(o.value) = [value_lower |-> i.lower, value_upper |-> i.upper]
    BY <2>3, <2>4, Bytewise DEF Split
  <2>6. o.value \in 0 .. AsWord - 1  BY <2>3, <2>4, Bytewise
  <2>7. IsValue("16bit", Combine(i.lower, i.upper))  BY <2>4, <2>6, ValueKinds
  <2>8. OutsSound(o)  BY <2>1, <2>4, <2>7, OneOut
  <2>9. Exact(i, o, mem)  BY <1>11, <2>1, <2>4, <2>5, <2>6, Widths DEF Exact
  <2> QED  BY <2>8, <2>9
<1>12. CASE Class = "filter_map_8bit_to_16bit"
  <2>0. PortTable[kind] = ByteToWord  BY <1>12, PortsFollowClass, ClassSets DEF Conversions
  <2>1. Outs = [value |-> "16bit"]  BY <2>0 DEF Outs, ByteToWord, Ports, All
  <2>2. Inputs = [{"value_in"} -> Values("8bit")]
    <3>1. DOMAIN Ins = {"value_in"} /\ \A n \in DOMAIN Ins : Ins[n] = "8bit"  BY <2>0 DEF Ins, ByteToWord, Ports, All
    <3>2. Class \notin Opaque \union {"filter_shift", "filter_switch"}  BY <1>12 DEF Opaque
    <3>3. {"value_in"} = DOMAIN Ins \ {"time"} /\ "phase" \notin DOMAIN Ins /\ {"value_in"} # {}  BY <3>1
    <3> QED  BY <1>0, <3>1, <3>2, <3>3, SampledInputs
  <2>3. i.value_in \in 0 .. Byte - 1  BY <2>2, Widths DEF Values
  <2>4. o = [value |-> Combine(i.value_in, i.value_in)]  BY <1>12 DEF Converted
  <2>5. o.value * TopOf("8bit") = i.value_in * TopOf("16bit")
    BY <2>3, <2>4, Bytewise, Widths
  <2>6. o.value \in 0 .. AsWord - 1  BY <2>3, <2>4, Bytewise
  <2>7. IsValue("16bit", Combine(i.value_in, i.value_in))  BY <2>4, <2>6, ValueKinds
  <2>8. OutsSound(o)  BY <2>1, <2>4, <2>7, OneOut
  <2>9. Exact(i, o, mem)  BY <1>12, <2>1, <2>4, <2>5, <2>6, Widths DEF Exact
  <2> QED  BY <2>8, <2>9
<1> QED  BY ClassSets, <1>1, <1>2, <1>3, <1>4, <1>5, <1>6, <1>7, <1>8, <1>9, <1>10, <1>11, <1>12

\* The classes of which the model knows the right value.
Known == {"filter_16bit_to_dual_byte", "filter_combine_bytes", "filter_map_8bit_to_16bit",
          "filter_multi_t_sum", "filter_color_mixer_add_rgb", "float_map_range"}

(* Of the others nothing is claimed.                                         *)
LEMMA Unknown ==
  ASSUME Class \notin Known, NEW i, NEW o, NEW m PROVE Exact(i, o, m)
BY DEF Known, Exact

(* A sum of two is exact, or the top of its type (filter_math.hpp:162-172). *)
LEMMA Sums ==
  /\ \A f \in [Numbers -> Int] : Sum("float", f) = f["0"] + f["1"]
  /\ \A t \in {"8bit", "16bit"} : \A f \in [Numbers -> Nat] :
       Sum(t, f) = Smaller(f["0"] + f["1"], TopOf(t))
<1>1. ASSUME NEW f \in [Numbers -> Int] PROVE Sum("float", f) = f["0"] + f["1"]
  <2>1. f \in [{"0", "1"} -> Int]  BY DEF Numbers
  <2>2. Sum("float", f) = Added(f)  BY DEF Sum, Added, FoldFunction, FoldFunctionOnSet, MapThenFoldSet
  <2> QED  BY <2>1, <2>2, AddedTwo
<1>2. ASSUME NEW t \in {"8bit", "16bit"}, NEW f \in [Numbers -> Nat]
      PROVE  Sum(t, f) = Smaller(f["0"] + f["1"], TopOf(t))
  <2>1. f \in [{"0", "1"} -> Nat] /\ t # "float"  BY DEF Numbers
  <2>2. Sum(t, f) = Limited(f, TopOf(t))
    BY <2>1 DEF Sum, Limited, FoldFunction, FoldFunctionOnSet, MapThenFoldSet
  <2>3. TopOf(t) \in Nat  BY Widths
  <2> QED  BY <2>1, <2>2, <2>3, LimitedTwo
<1> QED  BY <1>1, <1>2

(* A wave has the inputs that bound it.                                     *)
LEMMA BoundedWave ==
  ASSUME kind \in Kinds, Outcome # "bare", Class \in {"filter_trigonometric", "filter_square"},
         WaveInputs \subseteq DOMAIN Ins, \A n \in DOMAIN Ins : Ins[n] = "float"
  PROVE  Inputs = [{"factor_outer", "offset"} -> Values("float")]
<1> DEFINE S == {"factor_outer", "offset"}  c == CHOOSE n \in S : TRUE
<1>1. Inputs = InputsOf(kind)  BY DEF Inputs, InputTable
<1>2. Ins[c] = "float"  BY DEF WaveInputs
<1>3. kind[1] \notin Opaque /\ kind[1] # "filter_shift" /\ kind[1] # "filter_switch"  BY DEF Class, Opaque
<1>4. InputsOf(kind) = IF S = {} THEN {<< >>} ELSE [S -> Values(Ins[c])]
  BY <1>3 DEF InputsOf, Sampled, Ins
<1> QED  BY <1>1, <1>2, <1>4

(* A calculation leaves a value of its type, and a sum the right one        *)
(* (filter_math.hpp, filter_trigonometric.hpp).                             *)
LEMMA CalculatedSound ==
  ASSUME kind \in Kinds, conf \in {"sound"} \union Faults, Class \in CalculationClasses,
         NEW i \in Inputs, NEW o \in Calculated(i)
  PROVE  OutsSound(o) /\ Exact(i, o, mem)
<1>0. Outcome # "bare"  BY BareMixers, ClassSets
<1>1. CASE Class = "filter_math_single"
  <2>0. PortTable[kind] = MathSingle  BY <1>1, PortsFollowClass, ClassSets DEF Calculations
  <2>1. Outs = [value |-> "float"]  BY <2>0 DEF Outs, MathSingle, Ports, All
  <2>2. Inputs = [{"value_in"} -> Values("float")]
    <3>1. DOMAIN Ins = {"value_in"} /\ \A n \in DOMAIN Ins : Ins[n] = "float"  BY <2>0 DEF Ins, MathSingle, Ports, All, Numbers
    <3>2. Class \notin Opaque \union {"filter_shift", "filter_switch"}  BY <1>1 DEF Opaque
    <3>3. {"value_in"} = DOMAIN Ins \ {"time"} /\ "phase" \notin DOMAIN Ins /\ {"value_in"} # {}  BY <3>1
    <3> QED  BY <1>0, <3>1, <3>2, <3>3, SampledInputs
  <2>3. i.value_in \in Int  BY <2>2, SignalAssumption DEF Values
  <2>4. o = [value |-> i.value_in]  BY <1>1 DEF Calculated
  <2>5. IsValue("float", i.value_in)  BY <2>3, ValueKinds
  <2> QED  BY <1>1, <2>1, <2>4, <2>5, OneOut, Unknown DEF Known
<1>2. CASE Class = "filter_minimum"
  <2>0. PortTable[kind] = MathDual  BY <1>2, PortsFollowClass, ClassSets DEF Calculations
  <2>1. Outs = [value |-> "float"]  BY <2>0 DEF Outs, MathDual, Ports, All
  <2>2. Inputs = [{"param1", "param2"} -> Values("float")]
    <3>1. DOMAIN Ins = {"param1", "param2"} /\ \A n \in DOMAIN Ins : Ins[n] = "float"  BY <2>0 DEF Ins, MathDual, Ports, All, Numbers
    <3>2. Class \notin Opaque \union {"filter_shift", "filter_switch"}  BY <1>2 DEF Opaque
    <3>3. {"param1", "param2"} = DOMAIN Ins \ {"time"} /\ "phase" \notin DOMAIN Ins /\ {"param1", "param2"} # {}  BY <3>1
    <3> QED  BY <1>0, <3>1, <3>2, <3>3, SampledInputs
  <2>3. i.param1 \in Int /\ i.param2 \in Int  BY <2>2, SignalAssumption DEF Values
  <2>4. o = [value |-> Smaller(i.param1, i.param2)]  BY <1>2 DEF Calculated
  <2>5. IsValue("float", Smaller(i.param1, i.param2))  BY <2>3, ValueKinds DEF Smaller
  <2> QED  BY <1>2, <2>1, <2>4, <2>5, OneOut, Unknown DEF Known
<1>3. CASE Class = "filter_maximum"
  <2>0. PortTable[kind] = MathDual  BY <1>3, PortsFollowClass, ClassSets DEF Calculations
  <2>1. Outs = [value |-> "float"]  BY <2>0 DEF Outs, MathDual, Ports, All
  <2>2. Inputs = [{"param1", "param2"} -> Values("float")]
    <3>1. DOMAIN Ins = {"param1", "param2"} /\ \A n \in DOMAIN Ins : Ins[n] = "float"  BY <2>0 DEF Ins, MathDual, Ports, All, Numbers
    <3>2. Class \notin Opaque \union {"filter_shift", "filter_switch"}  BY <1>3 DEF Opaque
    <3>3. {"param1", "param2"} = DOMAIN Ins \ {"time"} /\ "phase" \notin DOMAIN Ins /\ {"param1", "param2"} # {}  BY <3>1
    <3> QED  BY <1>0, <3>1, <3>2, <3>3, SampledInputs
  <2>3. i.param1 \in Int /\ i.param2 \in Int  BY <2>2, SignalAssumption DEF Values
  <2>4. o = [value |-> Larger(i.param1, i.param2)]  BY <1>3 DEF Calculated
  <2>5. IsValue("float", Larger(i.param1, i.param2))  BY <2>3, ValueKinds DEF Larger
  <2> QED  BY <1>3, <2>1, <2>4, <2>5, OneOut, Unknown DEF Known
<1>4. CASE Class = "filter_multi_t_sum"
  <2>0. PortTable[kind] = MultiSum(Type)  BY <1>4, PortsFollowClass, ClassSets DEF Calculations
  <2>1. Outs = [value |-> Type]  BY <2>0 DEF Outs, MultiSum, Ports, All
  <2>2. Inputs = [{"0", "1"} -> Values(Type)]
    <3>1. DOMAIN Ins = {"0", "1"} /\ \A n \in DOMAIN Ins : Ins[n] = Type  BY <2>0 DEF Ins, MultiSum, Ports, All, Numbers
    <3>2. Class \notin Opaque \union {"filter_shift", "filter_switch"}  BY <1>4 DEF Opaque
    <3>3. {"0", "1"} = DOMAIN Ins \ {"time"} /\ "phase" \notin DOMAIN Ins /\ {"0", "1"} # {}  BY <3>1
    <3> QED  BY <1>0, <3>1, <3>2, <3>3, SampledInputs
  <2>3. o = [value |-> Sum(Type, i)]  BY <1>4 DEF Calculated
  <2>4. Type \in {"8bit", "16bit", "float"}  BY <1>4, KindTypes
  <2>5. CASE Type = "float"
    <3>1. i \in [Numbers -> Int]  BY <2>2, <2>5, SignalAssumption DEF Values, Numbers
    <3>2. Sum(Type, i) = i["0"] + i["1"] /\ i["0"] \in Int /\ i["1"] \in Int  BY <2>5, <3>1, Sums DEF Numbers
    <3>3. IsValue(Type, Sum(Type, i))  BY <2>5, <3>2, ValueKinds
    <3>4. OutsSound(o)  BY <2>1, <2>3, <3>3, OneOut
    <3>5. Exact(i, o, mem)  BY <1>4, <2>5 DEF Exact
    <3> QED  BY <3>4, <3>5
  <2>6. CASE Type # "float"
    <3>0. TopOf(Type) \in Nat /\ Values(Type) = 0 .. TopOf(Type)  BY <2>4, <2>6, Widths DEF Values
    <3>1. i \in [Numbers -> Nat]  BY <2>2, <3>0 DEF Numbers
    <3>2. i["0"] \in Nat /\ i["1"] \in Nat  BY <3>1 DEF Numbers
    <3>3. Sum(Type, i) = Smaller(i["0"] + i["1"], TopOf(Type))  BY <2>4, <2>6, <3>1, Sums
    <3>4. Sum(Type, i) \in Values(Type)
      <4> DEFINE a == i["0"]  b == i["1"]  top == TopOf(Type)
      <4>1. a \in Nat /\ b \in Nat /\ top \in Nat  BY <3>0, <3>2
      <4> HIDE DEF a, b, top
      <4>2. Smaller(a + b, top) \in 0 .. top  BY <4>1 DEF Smaller
      <4> QED  BY <3>0, <3>3, <4>2 DEF a, b, top
    <3>5. IsValue(Type, Sum(Type, i))  BY <2>4, <3>4, ValuesTyped DEF Types
    <3>6. OutsSound(o)  BY <2>1, <2>3, <3>5, OneOut
    <3>7. Exact(i, o, mem)  BY <1>4, <2>3, <3>3 DEF Exact
    <3> QED  BY <3>6, <3>7
  <2> QED  BY <2>5, <2>6
<1>5. CASE Class = "filter_trigonometric"
  <2>0. PortTable[kind] = Trigonometric  BY <1>5, PortsFollowClass, ClassSets DEF Calculations
  <2>1. Outs = [value |-> "float"]  BY <2>0 DEF Outs, Trigonometric, Ports, All
  <2>a. WaveInputs \subseteq DOMAIN Ins /\ \A n \in DOMAIN Ins : Ins[n] = "float"
    BY <2>0 DEF Ins, Trigonometric, Ports, All
  <2>2. Inputs = [{"factor_outer", "offset"} -> Values("float")]  BY <1>5, <1>0, <2>a, BoundedWave
  <2>3. i.factor_outer \in Int /\ i.offset \in Int  BY <2>2, SignalAssumption DEF Values
  <2>4. o \in Wave(i.factor_outer, i.offset)  BY <1>5 DEF Calculated
  <2>5. PICK x \in i.offset - Larger(i.factor_outer, -i.factor_outer) ..
                   i.offset + Larger(i.factor_outer, -i.factor_outer) : o = [value |-> x]
    BY <2>4 DEF Wave
  <2>6. Larger(i.factor_outer, -i.factor_outer) \in Int  BY <2>3 DEF Larger
  <2>7. IsValue("float", x)  BY <2>3, <2>5, <2>6, ValueKinds
  <2> QED  BY <1>5, <2>1, <2>5, <2>7, OneOut, Unknown DEF Known
<1>6. CASE Class = "filter_square"
  <2>0. PortTable[kind] = FiveParams  BY <1>6, PortsFollowClass, ClassSets DEF Calculations
  <2>1. Outs = [value |-> "float"]  BY <2>0 DEF Outs, FiveParams, Ports, All
  <2>a. WaveInputs \subseteq DOMAIN Ins /\ \A n \in DOMAIN Ins : Ins[n] = "float"
    BY <2>0 DEF Ins, FiveParams, Ports, All
  <2>2. Inputs = [{"factor_outer", "offset"} -> Values("float")]  BY <1>6, <1>0, <2>a, BoundedWave
  <2>3. i.factor_outer \in Int /\ i.offset \in Int  BY <2>2, SignalAssumption DEF Values
  <2>4. o \in Wave(i.factor_outer, i.offset)  BY <1>6 DEF Calculated
  <2>5. PICK x \in i.offset - Larger(i.factor_outer, -i.factor_outer) ..
                   i.offset + Larger(i.factor_outer, -i.factor_outer) : o = [value |-> x]
    BY <2>4 DEF Wave
  <2>6. Larger(i.factor_outer, -i.factor_outer) \in Int  BY <2>3 DEF Larger
  <2>7. IsValue("float", x)  BY <2>3, <2>5, <2>6, ValueKinds
  <2> QED  BY <1>6, <2>1, <2>5, <2>7, OneOut, Unknown DEF Known
<1>7. CASE Class = "filter_tangent"
  <2>0. PortTable[kind] = Trigonometric  BY <1>7, PortsFollowClass, ClassSets DEF Calculations
  <2>1. Outs = [value |-> "float"]  BY <2>0 DEF Outs, Trigonometric, Ports, All
  <2>3. PICK x \in Floats : o = [value |-> x]  BY <1>7 DEF Calculated
  <2>4. IsValue("float", x)  BY SignalAssumption, ValueKinds
  <2> QED  BY <1>7, <2>1, <2>3, <2>4, OneOut, Unknown DEF Known
<1> QED  BY ClassSets, <1>1, <1>2, <1>3, <1>4, <1>5, <1>6, <1>7

(* A mixer leaves a colour, and the additive one the right one              *)
(* (filter_color_mixer_add_rgb.cpp).                                        *)
LEMMA MixedSound ==
  ASSUME kind \in Kinds, Class \in MixerClasses, OutsSound(out),
         NEW i \in Inputs, NEW o \in MixedColour(i)
  PROVE  OutsSound(o) /\ Exact(i, o, mem)
<1>0. PortTable[kind] = Mixer  BY PortsFollowClass
<1>1. Outs = [value |-> "color"]  BY <1>0 DEF Outs, Mixer, Ports
<1>2. CASE Class = "filter_color_mixer_add_rgb"
  <2>1. o = [value |-> AddedUp(i)]  BY <1>2 DEF MixedColour
  <2> DEFINE top == AsWord - 1
  <2>2. top \in Nat  BY Widths
  <2> HIDE DEF top
  <2>3. AddedUp(i) = [c \in 1 .. 3 |-> Smaller(Added([n \in DOMAIN i |-> i[n][c]]), top)]
    BY DEF AddedUp, Added, top, FoldFunction, FoldFunctionOnSet, MapThenFoldSet
  <2>4. CASE Outcome = "bare"
    <3>1. i = << >>  BY <2>4 DEF Inputs
    <3>2. \A c \in 1 .. 3 : Added([n \in DOMAIN i |-> i[n][c]]) = 0
      <4> TAKE c \in 1 .. 3
      <4> DEFINE f == [n \in DOMAIN i |-> i[n][c]]
      <4>1. f \in [{} -> Int]  BY <3>1
      <4>2. IsFiniteSet({})  BY FS_EmptySet
      <4> HIDE DEF f
      <4>3. PICK h : /\ \A s \in SUBSET {} : /\ h[s] \in Int
                                             /\ h[s] = IF s = {} THEN 0 ELSE f[Some(s)] + h[s \ {Some(s)}]
                     /\ Added(f) = h[{}]
        BY <4>1, <4>2, AddedFolds, Zenon
      <4>4. Added(f) = 0  BY <4>3
      <4> QED  BY <4>4 DEF f
    <3>3. AddedUp(i) \in [1 .. 3 -> 0 .. AsWord - 1]  BY <2>2, <2>3, <3>2 DEF Smaller, top
    <3>4. OutsSound(o)  BY <1>1, <2>1, <3>3, OneOut, ValueKinds
    <3>5. Exact(i, o, mem)  BY <1>2, <3>1 DEF Exact
    <3> QED  BY <3>4, <3>5
  <2>5. CASE Outcome # "bare"
    <3>1. Inputs = [Numbers -> Colours]
      <4>1. DOMAIN Ins = Numbers /\ \A n \in DOMAIN Ins : Ins[n] = "color"  BY <1>0 DEF Ins, Mixer, Ports, All
      <4>2. Class \notin Opaque \union {"filter_shift", "filter_switch"}  BY <1>2 DEF Opaque
      <4>3. Numbers = DOMAIN Ins \ {"time"} /\ "phase" \notin DOMAIN Ins /\ Numbers # {}  BY <4>1 DEF Numbers
      <4>4. Inputs = [Numbers -> Values("color")]  BY <2>5, <4>1, <4>2, <4>3, SampledInputs
      <4> QED  BY <4>4 DEF Values
    <3>2. i["0"] \in [1 .. 3 -> 0 .. top] /\ i["1"] \in [1 .. 3 -> 0 .. top] /\ DOMAIN i = Numbers
      BY <3>1, SignalAssumption DEF Numbers, top, AsWord
    <3>3. ASSUME NEW c \in 1 .. 3
          PROVE  /\ Added([n \in DOMAIN i |-> i[n][c]]) = i["0"][c] + i["1"][c]
                 /\ i["0"][c] \in Nat /\ i["1"][c] \in Nat
      <4> DEFINE f == [n \in DOMAIN i |-> i[n][c]]
      <4>1. i["0"][c] \in Nat /\ i["1"][c] \in Nat  BY <2>2, <3>2
      <4>2. f \in [{"0", "1"} -> Int] /\ f["0"] = i["0"][c] /\ f["1"] = i["1"][c]
        BY <3>2, <4>1 DEF Numbers
      <4> HIDE DEF f
      <4>3. Added(f) = i["0"][c] + i["1"][c]  BY <4>2, AddedTwo
      <4> QED  BY <4>1, <4>3 DEF f
    <3>4. \A c \in 1 .. 3 : AddedUp(i)[c] = Smaller(i["0"][c] + i["1"][c], top)  BY <2>3, <3>3
    <3>5. \A c \in 1 .. 3 : Smaller(i["0"][c] + i["1"][c], top) \in 0 .. top  BY <2>2, <3>3 DEF Smaller
    <3>6. AddedUp(i) \in [1 .. 3 -> 0 .. AsWord - 1]
      <4>1. AddedUp(i) = [c \in 1 .. 3 |-> AddedUp(i)[c]]  BY <2>3
      <4> QED  BY <3>4, <3>5, <4>1 DEF top
    <3>7. OutsSound(o)  BY <1>1, <2>1, <3>6, OneOut, ValueKinds
    <3>8. TopOf("16bit") = top  BY Widths DEF top
    <3>9. o.value = AddedUp(i)  BY <2>1
    <3>10. Exact(i, o, mem)  BY <1>2, <3>4, <3>8, <3>9 DEF Exact
    <3> QED  BY <3>7, <3>10
  <2> QED  BY <2>4, <2>5
<1>3. CASE Class # "filter_color_mixer_add_rgb"
  <2>1. OutsSound(o)
    <3>1. CASE Class = "filter_color_mixer_hsv" /\ Outcome = "bare"
      <4>1. o = out  BY <3>1 DEF MixedColour
      <4> QED  BY <4>1
    <3>2. CASE ~(Class = "filter_color_mixer_hsv" /\ Outcome = "bare")
      <4>1. PICK c \in Colours : o = [value |-> c]  BY <1>3, <3>2 DEF MixedColour
      <4>2. IsValue("color", c)  BY ValuesTyped DEF Types, Values
      <4> QED  BY <1>1, <4>1, <4>2, OneOut
    <3> QED  BY <3>1, <3>2
  <2>2. Exact(i, o, mem)  BY <1>3, ClassSets, Unknown DEF Known
  <2> QED  BY <2>1, <2>2
<1> QED  BY <1>2, <1>3

-----------------------------------------------------------------------------
(* The filters that remember.                                               *)

(* A shift passes its input or what it held on (filter_shift.hpp).          *)
LEMMA ShiftedSound ==
  ASSUME kind \in Kinds, conf \in {"sound"} \union Faults, Class = "filter_shift", OutsSound(out),
         NEW i \in Inputs, NEW t, NEW r \in Shifted(i, t)
  PROVE  OutsSound(r[1])
<1>0. PortTable[kind] = Shifter(Type)  BY PortsFollowClass
<1> DEFINE S == {"output_1", "output_2", "output_3"}
<1>1. Outs = [n \in S |-> Type]  BY <1>0 DEF Outs, Shifter, Ports, All
<1>2. IsValue(Type, i.input)
  <2>1. Inputs = InputsOf(kind)  BY ShiftOutcome DEF Inputs, InputTable
  <2>2. DOMAIN PortTable[kind].in = {"input", "time", "switch_time"}  BY <1>0 DEF Shifter, Ports
  <2>3. kind[1] = "filter_shift" /\ kind[1] \notin Opaque  BY DEF Class, Opaque
  <2>4. ~(WaveInputs \subseteq {"input", "time", "switch_time"})  BY DEF WaveInputs
  <2>5. {"input", "time", "switch_time"} \ {"time"} # {}  OBVIOUS
  <2>6. InputsOf(kind) = {[input |-> v, switch_time |-> st] : v \in Values(kind[2]), st \in SwitchTimes}
    BY <2>2, <2>3, <2>4, <2>5 DEF InputsOf, Sampled
  <2>7. i.input \in Values(Type)  BY <2>1, <2>6 DEF Type
  <2> QED  BY <2>7, KindTypes, ValuesTyped
<1>3. DOMAIN out = S /\ \A n \in S : IsValue(Type, out[n])  BY <1>1 DEF OutsSound
<1>4. CASE ShiftTime(i) < 1
  <2>1. r[1] = [n \in DOMAIN out |-> i.input]  BY <1>4 DEF Shifted
  <2>2. DOMAIN r[1] = S /\ \A n \in S : IsValue(Type, r[1][n])  BY <1>2, <1>3, <2>1
  <2> QED  BY <1>1, <2>2, SameOuts
<1>5. CASE ~(ShiftTime(i) < 1) /\ mem.last_update + ShiftTime(i) <= t
  <2>1. r[1] = ShiftedOn(out, i)  BY <1>5 DEF Shifted
  <2>2. DOMAIN r[1] = S /\ \A n \in S : IsValue(Type, r[1][n])  BY <1>2, <1>3, <2>1 DEF ShiftedOn
  <2> QED  BY <1>1, <2>2, SameOuts
<1>6. CASE ~(ShiftTime(i) < 1) /\ ~(mem.last_update + ShiftTime(i) <= t)
  <2>1. r[1] = out  BY <1>6 DEF Shifted
  <2> QED  BY <2>1
<1> QED  BY <1>4, <1>5, <1>6

(* A delay passes a value of its type (filter_time.hpp).                    *)
LEMMA DelayedSound ==
  ASSUME kind \in Kinds, conf \in {"sound"} \union Faults, Class \in DelayClasses, OutsSound(out),
         NEW i \in Inputs, NEW t, NEW r \in Delayed(i, t)
  PROVE  OutsSound(r[1])
<1>0. PortTable[kind] = Delayer(Type)  BY PortsFollowClass
<1>1. Outs = [value |-> Type]  BY <1>0 DEF Outs, Delayer, Ports
<1>2. IsValue(Type, i.value_in)
  <2>1. DOMAIN Ins = {"value_in", "time"} /\ Ins["value_in"] = Type  BY <1>0 DEF Ins, Delayer, Ports
  <2>2. Class \notin Opaque \union {"filter_shift", "filter_switch"}  BY DEF Opaque, DelayClasses
  <2>3. {"value_in"} = DOMAIN Ins \ {"time"} /\ "phase" \notin DOMAIN Ins  BY <2>1
  <2>4. Outcome # "bare"  BY BareMixers, ClassSets DEF DelayClasses
  <2>5. Inputs = [{"value_in"} -> Values(Type)]  BY <2>1, <2>2, <2>3, <2>4, SampledInputs
  <2>6. i.value_in \in Values(Type)  BY <2>5
  <2> QED  BY <2>6, KindTypes, ValuesTyped
<1>3. r[1] = [value |-> i.value_in] \/ r[1] = out  BY DEF Delayed
<1> QED  BY <1>1, <1>2, <1>3, OneOut

(* A switch passes one of its inputs (filter_switch.hpp).                   *)
LEMMA SwitchedSound ==
  ASSUME kind \in Kinds, conf \in {"sound"} \union Faults, Class = "filter_switch", OutsSound(out),
         NEW i \in Inputs, NEW o \in Switched(i)
  PROVE  OutsSound(o)
<1>0. PortTable[kind] = Switch(Type)  BY PortsFollowClass
<1>1. Outs = [n \in {"out"} |-> Type]  BY <1>0 DEF Outs, Switch, Ports
<1>2. IsValue(Type, i["0"]) /\ IsValue(Type, i["1"])
  <2>1. Outcome # "bare"  BY BareMixers, ClassSets
  <2>2. Inputs = InputsOf(kind)  BY <2>1 DEF Inputs, InputTable
  <2>3. kind[1] = "filter_switch" /\ kind[1] \notin Opaque  BY DEF Class, Opaque
  <2>4. Sampled(kind) # {}
    <3>1. DOMAIN PortTable[kind].in = {"0", "1", "select"}  BY <1>0 DEF Switch, Ports, Numbers
    <3>2. ~(WaveInputs \subseteq {"0", "1", "select"})  BY DEF WaveInputs
    <3> QED  BY <2>3, <3>1, <3>2 DEF Sampled
  <2>5. i \in Selections(Type)  BY <2>2, <2>3, <2>4 DEF InputsOf, Type
  <2>6. PICK v \in [Numbers -> Values(Type)], s \in Values("8bit") :
          i = [n \in Numbers \union {"select"} |-> IF n = "select" THEN s ELSE v[n]]
    BY <2>5, Z3 DEF Selections
  <2>7. i["0"] = v["0"] /\ i["1"] = v["1"]  BY <2>6 DEF Numbers
  <2>8. v["0"] \in Values(Type) /\ v["1"] \in Values(Type)  BY <2>6 DEF Numbers
  <2> QED  BY <2>7, <2>8, KindTypes, ValuesTyped
<1>3. CASE o = out  BY <1>3
<1>4. CASE o = [out |-> i["0"]]
  <2>1. DOMAIN o = {"out"} /\ o["out"] = i["0"]  BY <1>4
  <2> QED  BY <1>1, <1>2, <2>1, SameOuts
<1>5. CASE o = [out |-> i["1"]]
  <2>1. DOMAIN o = {"out"} /\ o["out"] = i["1"]  BY <1>5
  <2> QED  BY <1>1, <1>2, <2>1, SameOuts
<1> QED  BY <1>3, <1>4, <1>5 DEF Switched

(* A universe output passes a byte (filter_universe_output.hpp).            *)
LEMMA SentSound ==
  ASSUME kind \in Kinds, conf \in {"sound"} \union Faults, Class = "filter_universe_output", NEW i \in Inputs
  PROVE  OutsSound([dmx |-> i.channel])
<1>0. PortTable[kind] = UniverseOutput  BY PortsFollowClass
<1>1. Outs = [n \in {"dmx"} |-> "8bit"]  BY <1>0 DEF Outs, UniverseOutput, Ports
<1>2. DOMAIN Ins = {"channel"} /\ Ins["channel"] = "8bit"  BY <1>0 DEF Ins, UniverseOutput, Ports
<1>3. Class \notin Opaque \union {"filter_shift", "filter_switch"}  BY DEF Opaque
<1>4. {"channel"} = DOMAIN Ins \ {"time"} /\ "phase" \notin DOMAIN Ins  BY <1>2
<1>5. Outcome # "bare"  BY BareMixers, ClassSets
<1>6. Inputs = [{"channel"} -> Values("8bit")]  BY <1>2, <1>3, <1>4, <1>5, SampledInputs
<1>7. IsValue("8bit", i.channel)  BY <1>6, ValuesTyped DEF Types
<1> DEFINE o == [dmx |-> i.channel]
<1>8. DOMAIN o = {"dmx"} /\ o["dmx"] = i.channel  OBVIOUS
<1> HIDE DEF o
<1>9. OutsSound(o)  BY <1>1, <1>7, <1>8, SameOuts
<1> QED  BY <1>9 DEF o

-----------------------------------------------------------------------------
(* The event counter (filter_event_counter.cpp).                            *)

CounterMem ==
  /\ mem = [time_til_next_count |-> mem.time_til_next_count, last_update |-> mem.last_update,
            counted_events |-> mem.counted_events, bpm_window |-> mem.bpm_window]
  /\ mem.time_til_next_count \in Int /\ mem.last_update \in Int /\ mem.counted_events \in Int
  /\ mem.bpm_window \in Seq(Int) /\ Len(mem.bpm_window) = Windows

\* The windows that are kept are the last ones since the activation.
Counts ==
  /\ marks \in Seq(Int) /\ marks # << >> /\ seen \in Int
  /\ mem.counted_events = seen - Last(marks)
  /\ \A w \in 1 .. Smaller(Windows, Len(marks) - 1) :
       mem.bpm_window[Windows + 1 - w]
         = (marks[Len(marks) + 1 - w] - marks[Len(marks) - w]) % AsWord
  /\ Len(marks) > 1 => out.freq = mem.bpm_window[Windows]

(* The sum of the windows is a number.                                      *)
LEMMA WindowSum ==
  ASSUME NEW s \in Seq(Int)
  PROVE  FoldSeq(+, 0, s) \in Int
<1>1. IsFiniteSet(DOMAIN s) /\ s \in [DOMAIN s -> Int]
  <2>1. DOMAIN s = 1 .. Len(s) /\ Len(s) \in Nat  OBVIOUS
  <2>2. IsFiniteSet(1 .. Len(s))  BY <2>1, FS_Interval
  <2> QED  BY <2>1, <2>2
<1>2. Added(s) \in Int  BY <1>1, AddedTyped
<1>3. FoldSeq(+, 0, s) = Added(s)
  BY DEF FoldSeq, Added, FoldFunction, FoldFunctionOnSet, MapThenFoldSet
<1> QED  BY <1>2, <1>3

(* A window that ends moves the others on by one.                           *)
LEMMA WindowsMove ==
  ASSUME CounterMem, NEW c \in Int
  PROVE  LET b == Append(Tail(mem.bpm_window), c)
         IN  /\ b \in Seq(Int) /\ Len(b) = Windows /\ b[Windows] = c
             /\ \A k \in 1 .. Windows - 1 : b[k] = mem.bpm_window[k + 1]
             /\ Tail(mem.bpm_window) \in Seq(Int)
<1> DEFINE s == mem.bpm_window  u == Tail(s)
<1>0. Windows \in Nat /\ Windows > 0  BY SignalAssumption
<1>1. s \in Seq(Int) /\ Len(s) = Windows  BY DEF CounterMem
<1> HIDE DEF s
<1>2. s # << >>  BY <1>0, <1>1
<1>3. u \in Seq(Int) /\ Len(u) = Windows - 1 /\ \A k \in 1 .. Windows - 1 : u[k] = s[k + 1]
  BY <1>0, <1>1, <1>2
<1> HIDE DEF u
<1>4. /\ Append(u, c) \in Seq(Int) /\ Len(Append(u, c)) = Windows /\ Append(u, c)[Windows] = c
      /\ \A k \in 1 .. Windows - 1 : Append(u, c)[k] = u[k]
  BY <1>0, <1>3
<1> QED  BY <1>3, <1>4 DEF s, u

(* An update of the counter.                                               *)
LEMMA CountedStep ==
  ASSUME kind \in Kinds, Class = "filter_event_counter", CounterMem, Counts, OutsSound(out),
         NEW n \in Int, NEW t \in Int, NEW r \in Counted(n, t),
         out' = r[1], mem' = r[2], seen' = seen + n,
         marks' = IF Remaining(t) <= 0 THEN Append(marks, seen) ELSE marks
  PROVE  OutsSound(out') /\ CounterMem' /\ Counts'
<1> DEFINE b == mem.bpm_window
<1>0. Windows \in Nat /\ Windows > 0 /\ Second \in Int  BY SignalAssumption
<1>1. PortTable[kind] = Counter  BY PortsFollowClass
<1>2. Outs = [m \in {"bpm", "freq"} |-> "16bit"]  BY <1>1 DEF Outs, Counter, Ports, All
<1>3. AsWord \in Nat /\ AsWord > 0 /\ \A x \in Int : x % AsWord \in 0 .. AsWord - 1  BY Widths
<1>4. /\ mem.counted_events \in Int /\ mem.time_til_next_count \in Int /\ mem.last_update \in Int
      /\ b \in Seq(Int) /\ Len(b) = Windows
  BY DEF CounterMem
<1>5. Remaining(t) \in Int  BY <1>4 DEF Remaining
<1>6. CASE Remaining(t) > 0
  <2>1. r = <<out, [mem EXCEPT !.time_til_next_count = Remaining(t), !.last_update = t,
                               !.counted_events = @ + n]>>
    BY <1>6 DEF Counted
  <2>2. out' = out  BY <2>1
  <2>3. mem' = [time_til_next_count |-> Remaining(t), last_update |-> t,
                counted_events |-> mem.counted_events + n, bpm_window |-> b]
    BY <2>1 DEF CounterMem
  <2>4. marks' = marks  BY <1>5, <1>6
  <2>5. CounterMem'  BY <1>4, <1>5, <2>3 DEF CounterMem
  <2>6. mem'.counted_events = mem.counted_events + n /\ mem'.bpm_window = b  BY <2>3
  <2>7. Last(marks) \in Int
    <3>1. marks \in Seq(Int) /\ marks # << >>  BY DEF Counts
    <3> QED  BY <3>1 DEF Last
  <2>8. seen' \in Int /\ mem'.counted_events = seen' - Last(marks)
    BY <1>4, <2>6, <2>7 DEF Counts
  <2>9. Counts'  BY <2>2, <2>4, <2>6, <2>8 DEF Counts
  <2> QED  BY <2>2, <2>5, <2>9
<1>7. CASE ~(Remaining(t) > 0)
  <2> DEFINE c == mem.counted_events % AsWord
             sum == FoldSeq(+, 0, Tail(b)) * (60 \div Windows)
             d == Append(Tail(b), c)
  <2>1. r = <<[freq |-> c, bpm |-> sum % AsWord],
              [time_til_next_count |-> Second, last_update |-> t, counted_events |-> n, bpm_window |-> d]>>
    BY <1>7 DEF Counted
  <2>2. c \in 0 .. AsWord - 1  BY <1>3, <1>4
  <2>3. /\ d \in Seq(Int) /\ Len(d) = Windows /\ d[Windows] = c
        /\ \A k \in 1 .. Windows - 1 : d[k] = b[k + 1]
        /\ Tail(b) \in Seq(Int)
    <3>1. c \in Int  BY <2>2
    <3> HIDE DEF c
    <3> QED  BY <3>1, WindowsMove
  <2>4. sum \in Int
    <3>1. FoldSeq(+, 0, Tail(b)) \in Int  BY <2>3, WindowSum
    <3>2. 60 \div Windows \in Int  BY <1>0
    <3>3. \A x, y \in Int : x * y \in Int  OBVIOUS
    <3> QED  BY <3>1, <3>2, <3>3, Zenon
  <2> HIDE DEF c, sum, d
  <2>5. out' = [freq |-> c, bpm |-> sum % AsWord]  BY <2>1
  <2>6. OutsSound(out')
    <3>1. sum % AsWord \in 0 .. AsWord - 1  BY <1>3, <2>4
    <3>2. DOMAIN out' = {"bpm", "freq"} /\ \A m \in {"bpm", "freq"} : IsValue("16bit", out'[m])
      BY <2>2, <2>5, <3>1, ValueKinds
    <3> QED  BY <1>2, <3>2, SameOuts
  <2>7. mem' = [time_til_next_count |-> Second, last_update |-> t, counted_events |-> n, bpm_window |-> d]
    BY <2>1
  <2>8. CounterMem'  BY <1>0, <2>3, <2>7 DEF CounterMem
  <2> DEFINE L == Len(marks)
  <2>9. marks \in Seq(Int) /\ L \in Nat /\ L > 0 /\ seen \in Int  BY DEF Counts
  <2>10. marks' = Append(marks, seen)  BY <1>5, <1>7
  <2>11. /\ marks' \in Seq(Int) /\ Len(marks') = L + 1 /\ marks'[L + 1] = seen
         /\ \A k \in 1 .. L : marks'[k] = marks[k]
    BY <2>9, <2>10
  <2>12. mem'.counted_events = n /\ mem'.bpm_window = d /\ out'.freq = c  BY <2>5, <2>7
  <2>13. Last(marks') = seen  BY <2>11 DEF Last
  <2>14. seen' \in Int /\ mem'.counted_events = seen' - Last(marks')  BY <2>9, <2>12, <2>13
  <2>15. c = (seen - marks[L]) % AsWord  BY DEF Counts, Last, c
  <2>16. \A w \in 1 .. Smaller(Windows, L) : d[Windows + 1 - w] = (marks'[L + 2 - w] - marks'[L + 1 - w]) % AsWord
    <3> TAKE w \in 1 .. Smaller(Windows, L)
    <3>0. w \in Int /\ 1 <= w /\ w <= Windows /\ w <= L  BY <1>0, <2>9 DEF Smaller
    <3>1. CASE w = 1
      <4>1. marks'[L + 2 - w] = seen /\ marks'[L + 1 - w] = marks[L] /\ d[Windows + 1 - w] = c
        BY <1>0, <2>3, <2>9, <2>11, <3>1
      <4> QED  BY <2>15, <4>1
    <3>2. CASE w > 1
      <4> DEFINE v == w - 1
      <4>1. v \in 1 .. Smaller(Windows, L - 1)  BY <1>0, <2>9, <3>0, <3>2 DEF Smaller
      <4>2. b[Windows + 1 - v] = (marks[L + 1 - v] - marks[L - v]) % AsWord  BY <4>1 DEF Counts
      <4>3. Windows + 1 - v = (Windows + 1 - w) + 1 /\ L + 1 - v = L + 2 - w /\ L - v = L + 1 - w
        BY <1>0, <2>9, <3>0
      <4>4. d[Windows + 1 - w] = b[(Windows + 1 - w) + 1]
        <5>1. Windows + 1 - w \in 1 .. Windows - 1  BY <1>0, <3>0, <3>2
        <5> QED  BY <2>3, <5>1
      <4>5. marks'[L + 2 - w] = marks[L + 2 - w] /\ marks'[L + 1 - w] = marks[L + 1 - w]
        <5>1. L + 2 - w \in 1 .. L /\ L + 1 - w \in 1 .. L  BY <2>9, <3>0, <3>2
        <5> QED  BY <2>11, <5>1
      <4> HIDE DEF v
      <4> QED  BY <4>2, <4>3, <4>4, <4>5
    <3> QED  BY <3>0, <3>1, <3>2
  <2>17. out'.freq = mem'.bpm_window[Windows]  BY <2>3, <2>12
  <2>18. Counts'
    <3>1. Len(marks') - 1 = L  BY <2>9, <2>11
    <3>2. marks' # << >>  BY <2>9, <2>11
    <3>3. \A w \in 1 .. Smaller(Windows, Len(marks') - 1) :
            mem'.bpm_window[Windows + 1 - w] = (marks'[Len(marks') + 1 - w] - marks'[Len(marks') - w]) % AsWord
      <4> TAKE w \in 1 .. Smaller(Windows, Len(marks') - 1)
      <4>0. w \in 1 .. Smaller(Windows, L)  BY <3>1
      <4>1. w \in Int  BY <1>0, <2>9, <4>0 DEF Smaller
      <4>2. Len(marks') + 1 - w = L + 2 - w /\ Len(marks') - w = L + 1 - w  BY <2>9, <2>11, <4>1
      <4> QED  BY <2>12, <2>16, <4>0, <4>2
    <3> QED  BY <2>11, <2>14, <2>17, <3>2, <3>3 DEF Counts
  <2> QED  BY <2>6, <2>8, <2>18
<1> QED  BY <1>5, <1>6, <1>7

-----------------------------------------------------------------------------
(* An update of any class.                                                  *)

(* A scene holds the classes it counts (scene_factory.cpp).                 *)
LEMMA Allocated ==
  ASSUME Class \in AllocatedClasses
  PROVE  \/ Class \in ConversionClasses \/ Class \in CalculationClasses \/ Class \in MixerClasses
         \/ Class \in ConstantClasses \union DebugClasses \/ Class = "filter_time" \/ Class = "filter_shift"
         \/ Class \in DelayClasses \/ Class = "filter_event_counter" \/ Class = "filter_switch"
         \/ Class = "filter_universe_output"
BY DEF AllocatedClasses

(* An update is the one of its class, not another's.                        *)
LEMMA UpdatedByClass ==
  ASSUME NEW i, NEW n, NEW t
  PROVE  /\ Class \in ConversionClasses => Updated(i, n, t) = Converted(i) \X {mem}
         /\ Class \in CalculationClasses => Updated(i, n, t) = Calculated(i) \X {mem}
         /\ Class \in MixerClasses => Updated(i, n, t) = MixedColour(i) \X {mem}
         /\ Class \in ConstantClasses \union DebugClasses => Updated(i, n, t) = {<<out, mem>>}
         /\ Class = "filter_time" => Updated(i, n, t) = {<<[value |-> 2 * t], mem>>}
         /\ Class = "filter_event_counter" => Updated(i, n, t) = Counted(n, t)
         /\ Class = "filter_switch" => Updated(i, n, t) = Switched(i) \X {mem}
         /\ Class = "filter_universe_output" => Updated(i, n, t) = {<<[dmx |-> i.channel], mem>>}
<1>1. Class \in ConversionClasses => Updated(i, n, t) = Converted(i) \X {mem}
  BY ClassSets DEF Updated, DelayClasses
<1>2. Class \in CalculationClasses => Updated(i, n, t) = Calculated(i) \X {mem}
  BY ClassSets DEF Updated, DelayClasses
<1>3. Class \in MixerClasses => Updated(i, n, t) = MixedColour(i) \X {mem}
  BY ClassSets DEF Updated, DelayClasses
<1>4. Class \in ConstantClasses \union DebugClasses => Updated(i, n, t) = {<<out, mem>>}
  BY ClassSets DEF Updated, DelayClasses
<1>5. Class = "filter_time" => Updated(i, n, t) = {<<[value |-> 2 * t], mem>>}
  BY ClassSets DEF Updated, DelayClasses
<1>6. Class = "filter_event_counter" => Updated(i, n, t) = Counted(n, t)
  BY ClassSets DEF Updated, DelayClasses
<1>7. Class = "filter_switch" => Updated(i, n, t) = Switched(i) \X {mem}
  BY ClassSets DEF Updated, DelayClasses
<1>8. Class = "filter_universe_output" => Updated(i, n, t) = {<<[dmx |-> i.channel], mem>>}
  BY ClassSets DEF Updated, DelayClasses
<1> QED  BY <1>1, <1>2, <1>3, <1>4, <1>5, <1>6, <1>7, <1>8

\* A range is never of no width.
RangeKept ==
  Class = "float_map_range" => RangeMem(mem) /\ mem.lower_in # mem.upper_in

(* The time, in halves (filter_time.hpp).                                   *)
LEMMA TimeSound ==
  ASSUME kind \in Kinds, Class = "filter_time", NEW t \in Int
  PROVE  OutsSound([value |-> 2 * t])
<1>1. Outs = [value |-> "float"]  BY PortsFollowClass DEF Outs, Ports
<1>2. IsValue("float", 2 * t)  BY ValueKinds
<1> QED  BY <1>1, <1>2, OneOut

(* An update leaves values of their types, and the right ones.              *)
LEMMA UpdatedSound ==
  ASSUME kind \in Kinds, conf \in {"sound"} \union Faults, Class \in AllocatedClasses,
         Class # "filter_event_counter", OutsSound(out), RangeKept,
         NEW i \in Inputs, NEW n, NEW t \in Int, NEW r \in Updated(i, n, t)
  PROVE  OutsSound(r[1]) /\ Exact(i, r[1], r[2]) /\ (Class = "float_map_range" => r[2] = mem)
<1>1. CASE Class \in ConversionClasses
  <2>1. r[1] \in Converted(i) /\ r[2] = mem  BY <1>1, UpdatedByClass
  <2> QED  BY <1>1, <2>1, ConvertedSound DEF RangeKept
<1>2. CASE Class \in CalculationClasses
  <2>1. r[1] \in Calculated(i) /\ r[2] = mem  BY <1>2, UpdatedByClass
  <2> QED  BY <1>2, <2>1, CalculatedSound
<1>3. CASE Class \in MixerClasses
  <2>1. r[1] \in MixedColour(i) /\ r[2] = mem  BY <1>3, UpdatedByClass
  <2> QED  BY <1>3, <2>1, MixedSound
<1>4. CASE Class \in ConstantClasses \union DebugClasses
  <2>1. r[1] = out  BY <1>4, UpdatedByClass
  <2>2. Class \notin Known /\ Class # "float_map_range"  BY <1>4, ClassSets DEF Known
  <2> QED  BY <2>1, <2>2, Unknown
<1>5. CASE Class = "filter_time"
  <2>1. r[1] = [value |-> 2 * t]  BY <1>5, UpdatedByClass
  <2>2. Class \notin Known /\ Class # "float_map_range"  BY <1>5 DEF Known
  <2> QED  BY <1>5, <2>1, <2>2, TimeSound, Unknown
<1>6. CASE Class = "filter_shift"
  <2>1. r \in Shifted(i, t)  BY <1>6, UpdatedShift
  <2>2. Class \notin Known /\ Class # "float_map_range"  BY <1>6 DEF Known
  <2>3. OutsSound(r[1])  BY <1>6, <2>1, ShiftedSound
  <2> QED  BY <2>2, <2>3, Unknown
<1>7. CASE Class \in DelayClasses
  <2>1. r \in Delayed(i, t)  BY <1>7, UpdatedDelay
  <2>2. Class \notin Known /\ Class # "float_map_range"  BY <1>7 DEF Known, DelayClasses
  <2>3. OutsSound(r[1])  BY <1>7, <2>1, DelayedSound
  <2> QED  BY <2>2, <2>3, Unknown
<1>8. CASE Class = "filter_switch"
  <2>1. r[1] \in Switched(i)  BY <1>8, UpdatedByClass
  <2>2. Class \notin Known /\ Class # "float_map_range"  BY <1>8 DEF Known
  <2>3. OutsSound(r[1])  BY <1>8, <2>1, SwitchedSound
  <2> QED  BY <2>2, <2>3, Unknown
<1>9. CASE Class = "filter_universe_output"
  <2>1. r[1] = [dmx |-> i.channel]  BY <1>9, UpdatedByClass
  <2>2. Class \notin Known /\ Class # "float_map_range"  BY <1>9 DEF Known
  <2>3. OutsSound(r[1])  BY <1>9, <2>1, SentSound
  <2> QED  BY <2>2, <2>3, Unknown
<1> QED  BY <1>1, <1>2, <1>3, <1>4, <1>5, <1>6, <1>7, <1>8, <1>9, Allocated

-----------------------------------------------------------------------------
(* The invariant.                                                           *)

\* Where a filter can be, and what it was constructed from.
Scheduled ==
  /\ phase \in {"new", "scheduled", "ready", "active", "running", "refused", "crashed", "stopped"}
  /\ phase = "scheduled" \/ Working(phase) => Class \in AllocatedClasses

\* Outputs, members and counts of a filter that is set up.
OutputsKept ==
  Working(phase) =>
    /\ OutsSound(out) /\ RangeKept
    /\ Class = "filter_event_counter" =>
         CounterMem /\ (phase \in {"active", "running"} => Counts)

ResultsKept == phase = "running" => Exact(in, out, mem)

SignalInv == ClockInv /\ Scheduled /\ OutputsKept /\ ResultsKept

(* The invariant is what the filters promise.                               *)
LEMMA InvIsSound == SignalInv => SignalsSound
<1> SUFFICES ASSUME SignalInv PROVE SignalsSound
  OBVIOUS
<1>1. TypeOK
  <2>1. Working(phase) => DOMAIN out = DOMAIN Outs /\ \A n \in DOMAIN out : IsValue(Outs[n], out[n])
    BY DEF SignalInv, OutputsKept, OutsSound
  <2> QED  BY <2>1 DEF TypeOK, SignalInv, Scheduled, Working
<1>2. ConversionsExact
  <2>1. phase = "running" => Exact(in, out, mem)  BY DEF SignalInv, ResultsKept
  <2>2. Class = "float_map_range" /\ Working(phase) => mem.lower_in # mem.upper_in
    BY DEF SignalInv, OutputsKept, RangeKept
  <2> QED  BY <2>1, <2>2 DEF ConversionsExact, Exact, Running, Working
<1>3. EventsCountedOnce
  BY DEF SignalInv, OutputsKept, EventsCountedOnce, Counts, Working
<1> QED  BY <1>1, <1>2, <1>3 DEF SignalsSound

(* Nothing is set up at the start.                                           *)
LEMMA SignalStart == SignalInit => SignalInv
BY ClockStart DEF SignalInit, SignalInv, Scheduled, OutputsKept, ResultsKept, Working

\* What a step that keeps the kind has in common.
LEMMA KindKept ==
  ASSUME kind' = kind
  PROVE  /\ Class' = Class /\ Type' = Type
         /\ OutsSound(out') => OutsSound(out)'
         /\ RangeKept' <=> (Class = "float_map_range" => RangeMem(mem') /\ mem'.lower_in # mem'.upper_in)
         /\ Exact(in', out', mem') => Exact(in, out, mem)'
         /\ Class \in AllocatedClasses => (Class \in AllocatedClasses)'
<1>1. Class' = Class /\ Type' = Type  BY DEF Class, Type
<1>2. OutsSound(out') => OutsSound(out)'
  <2>1. Outs' = Outs  BY DEF Outs
  <2> QED  BY <2>1 DEF OutsSound
<1>3. RangeKept' <=> (Class = "float_map_range" => RangeMem(mem') /\ mem'.lower_in # mem'.upper_in)
  BY <1>1 DEF RangeKept, RangeMem
<1>4. Exact(in', out', mem') => Exact(in, out, mem)'
  BY <1>1 DEF Exact
<1>5. Class \in AllocatedClasses => (Class \in AllocatedClasses)'
  BY <1>1
<1> QED  BY <1>1, <1>2, <1>3, <1>4, <1>5

-----------------------------------------------------------------------------
(* The steps.                                                               *)

(* Every output of a class that is held has one of the types.               *)
LEMMA OutTypes ==
  ASSUME kind \in Kinds, Class \in AllocatedClasses
  PROVE  \A n \in DOMAIN Outs : Outs[n] \in Types
<1>0. Type \in Types  BY KindTypes
<1>1. CASE Class \in ConversionClasses
  <2>1. PortTable[kind] = Conversions(Type)[Class]  BY <1>1, PortsFollowClass
  <2>2. \/ Outs = [n \in {"value_lower", "value_upper"} |-> "8bit"]
        \/ Outs = [n \in {"value"} |-> "8bit"] \/ Outs = [n \in {"value"} |-> "16bit"]
        \/ Outs = [n \in {"value"} |-> "float"] \/ Outs = [n \in {"value"} |-> "color"]
        \/ Outs = [n \in {"value"} |-> Type]
        \/ Outs = [n \in {"r", "g", "b"} |-> "8bit"] \/ Outs = [n \in {"r", "g", "b", "w"} |-> "8bit"]
        \/ Outs = [n \in {"h", "s", "i"} |-> "float"]
    BY <1>1, <2>1, ClassSets
    DEF Outs, Conversions, All, Ports, DualByte, ToBool, MultiplyAdd, FloatToX, PixelToRgb, PixelToRgbw,
        FloatsToPixel, PixelToFloats, ToFloat, RangeMapper, CombineBytes, ByteToWord
  <2> QED  BY <1>0, <2>2 DEF Types
<1>2. CASE Class \in CalculationClasses
  <2>1. PortTable[kind] = Calculations(Type)[Class]  BY <1>2, PortsFollowClass
  <2>2. Outs = [value |-> "float"] \/ Outs = [value |-> Type]
    BY <1>2, <2>1, ClassSets
    DEF Outs, Calculations, Ports, MathSingle, MathDual, MultiSum, Trigonometric, FiveParams
  <2> QED  BY <1>0, <2>2 DEF Types
<1>3. CASE Class \in MixerClasses
  BY <1>3, PortsFollowClass DEF Outs, Mixer, Ports, Types
<1>4. CASE Class \in ConstantClasses
  BY <1>0, <1>4, PortsFollowClass DEF Outs, Constant, Ports
<1>5. CASE Class \in DebugClasses
  BY <1>5, PortsFollowClass DEF Outs, Debug, Ports, Nothing
<1>6. CASE Class = "filter_time"
  BY <1>6, PortsFollowClass DEF Outs, Ports, Types
<1>7. CASE Class = "filter_shift"
  BY <1>0, <1>7, PortsFollowClass DEF Outs, Shifter, Ports, All
<1>8. CASE Class \in DelayClasses
  BY <1>0, <1>8, PortsFollowClass DEF Outs, Delayer, Ports
<1>9. CASE Class = "filter_event_counter"
  BY <1>9, PortsFollowClass DEF Outs, Counter, Ports, All, Types
<1>10. CASE Class = "filter_switch"
  BY <1>0, <1>10, PortsFollowClass DEF Outs, Switch, Ports
<1>11. CASE Class = "filter_universe_output"
  BY <1>11, PortsFollowClass DEF Outs, UniverseOutput, Ports, Types
<1> QED  BY <1>1, <1>2, <1>3, <1>4, <1>5, <1>6, <1>7, <1>8, <1>9, <1>10, <1>11, Allocated

(* A constant of the show has the type of its channel                       *)
(* (filter_constants.hpp:43-51).                                            *)
LEMMA ConstantSound ==
  ASSUME kind \in Kinds, Class \in ConstantClasses, NEW v, IsValue(Type, v)
  PROVE  OutsSound([value |-> v])
<1>1. Outs = [value |-> Type]  BY PortsFollowClass DEF Outs, Constant, Ports
<1> QED  BY <1>1, OneOut

(* What a filter starts with.                                               *)
LEMMA FirstSound ==
  ASSUME kind \in Kinds, Class \in AllocatedClasses, NEW o \in FirstOut
  PROVE  OutsSound(o)
<1>1. CASE Class \in ConstantClasses
  <2>1. PICK v \in FromShow(Type) : o = [value |-> v]  BY <1>1 DEF FirstOut
  <2>2. IsValue(Type, v)  BY KindTypes, ValuesTyped
  <2> QED  BY <1>1, <2>1, <2>2, ConstantSound
<1>2. CASE Class = "filter_switch" /\ Type # "color"
  <2>1. Class \notin ConstantClasses  BY <1>2, ClassSets
  <2>2. PICK v \in Values(Type) : o = [out |-> v]  BY <1>2, <2>1 DEF FirstOut
  <2>3. Outs = [out |-> Type]  BY <1>2, PortsFollowClass DEF Outs, Switch, Ports
  <2>4. IsValue(Type, v)  BY <2>2, KindTypes, ValuesTyped
  <2>5. DOMAIN o = {"out"} /\ o["out"] = v  BY <2>2
  <2>6. DOMAIN Outs = {"out"} /\ Outs["out"] = Type  BY <2>3
  <2> QED  BY <2>4, <2>5, <2>6 DEF OutsSound
<1>3. CASE Class \notin ConstantClasses /\ ~(Class = "filter_switch" /\ Type # "color")
  <2>1. o = [n \in DOMAIN Outs |-> Zero(Outs[n])]  BY <1>3 DEF FirstOut
  <2>2. \A n \in DOMAIN Outs : IsValue(Outs[n], Zero(Outs[n]))  BY OutTypes, ValuesTyped
  <2> QED  BY <2>1, <2>2 DEF OutsSound
<1> QED  BY <1>1, <1>2, <1>3

(* The members of the range filter and of the counter.                      *)
LEMMA FirstMembers ==
  ASSUME kind \in Kinds, NEW m \in FirstMem
  PROVE  /\ Class = "float_map_range" => RangeMem(m) /\ m.lower_in # m.upper_in
         /\ Class = "filter_event_counter" =>
              m = [time_til_next_count |-> Second, last_update |-> 0, counted_events |-> 0,
                   bpm_window |-> [w \in 1 .. Windows |-> 0]]
<1>1. ASSUME Class = "float_map_range" PROVE RangeMem(m) /\ m.lower_in # m.upper_in
  <2>1. PICK u \in {IF Type = "float" THEN 2 ELSE 2 * TopOf(Type)}, l \in BOOLEAN :
          m = [lower_in |-> 0, upper_in |-> 2, lower_out |-> 0, upper_out |-> u, limit |-> l]
    BY <1>1, ClassSets DEF FirstMem, DelayClasses
  <2>2. Type \in {"8bit", "16bit", "float"}  BY <1>1, KindTypes
  <2>3. u \in Int  BY <2>2, Widths
  <2> QED  BY <2>1, <2>3 DEF RangeMem
<1>2. ASSUME Class = "filter_event_counter"
      PROVE  m = [time_til_next_count |-> Second, last_update |-> 0, counted_events |-> 0,
                  bpm_window |-> [w \in 1 .. Windows |-> 0]]
  BY <1>2, ClassSets DEF FirstMem, DelayClasses
<1> QED  BY <1>1, <1>2

(* A class is taken or refused (construct_filter, pre_setup).               *)
LEMMA ConstructSound == SignalInv /\ Construct => Scheduled' /\ OutputsKept' /\ ResultsKept'
<1> SUFFICES ASSUME SignalInv, Construct PROVE Scheduled' /\ OutputsKept' /\ ResultsKept'
  OBVIOUS
<1>0. kind' = kind  BY DEF Construct
<1>1. conf \in {"sound"} \union Faults  BY DEF SignalInv, ClockInv
<1>2. CASE Class \notin AllocatedClasses
  <2>1. Class \notin PreSetUp  BY <1>2 DEF PreSetUp, AllocatedClasses
  <2>2. phase' = "refused"  BY <1>2, <2>1 DEF Construct
  <2> QED  BY <2>2 DEF Scheduled, OutputsKept, ResultsKept, Working
<1>3. CASE Class \in AllocatedClasses /\ Class \in PreSetUp /\ Outcome # "sound"
  <2>1. phase' = Outcome  BY <1>3 DEF Construct
  <2>2. Outcome \in {"refused", "crashed"}
    <3>1. ConfOutcome(Class) = Sloppy  BY <1>3, ClassSets DEF ConfOutcome, PreSetUp, DelayClasses
    <3>2. conf # "sound"  BY <1>3 DEF Outcome
    <3>3. Sloppy[conf] \in {"refused", "crashed"}  BY <1>1, <3>2 DEF Sloppy, Faulty, Faults
    <3> QED  BY <3>1, <3>2, <3>3 DEF Outcome
  <2> QED  BY <2>1, <2>2 DEF Scheduled, OutputsKept, ResultsKept, Working
<1>4. CASE Class \in AllocatedClasses /\ ~(Class \in PreSetUp /\ Outcome # "sound")
  <2>1. phase' = "scheduled"  BY <1>4 DEF Construct
  <2>2. (Class \in AllocatedClasses)'  BY <1>0, <1>4, KindKept
  <2> QED  BY <2>1, <2>2 DEF Scheduled, OutputsKept, ResultsKept, Working
<1> QED  BY <1>2, <1>3, <1>4

(* A filter that is set up has values of its types (setup_filter).          *)
LEMMA SetUpSound == SignalInv /\ SetUp => Scheduled' /\ OutputsKept' /\ ResultsKept'
<1> SUFFICES ASSUME SignalInv, SetUp PROVE Scheduled' /\ OutputsKept' /\ ResultsKept'
  OBVIOUS
<1>0. kind' = kind /\ phase = "scheduled"  BY DEF SetUp
<1>1. kind \in Kinds /\ Class \in AllocatedClasses  BY <1>0 DEF SignalInv, ClockInv, Scheduled
<1>2. CASE phase' # "ready"
  <2>1. phase' \in {"refused", "crashed"}  BY <1>2 DEF SetUp
  <2> QED  BY <2>1 DEF Scheduled, OutputsKept, ResultsKept, Working
<1>3. CASE phase' = "ready"
  <2>1. out' \in FirstOut /\ mem' \in FirstMem  BY <1>3 DEF SetUp
  <2>2. OutsSound(out)'  BY <1>0, <1>1, <2>1, FirstSound, KindKept
  <2>3. RangeKept'  BY <1>0, <1>1, <2>1, FirstMembers, KindKept
  <2>4. ASSUME Class' = "filter_event_counter" PROVE CounterMem'
    <3>1. Class = "filter_event_counter"  BY <1>0, <2>4, KindKept
    <3> DEFINE z == [w \in 1 .. Windows |-> 0]
    <3>2. mem' = [time_til_next_count |-> Second, last_update |-> 0, counted_events |-> 0, bpm_window |-> z]
      BY <1>1, <2>1, <3>1, FirstMembers
    <3>3. z \in Seq(Int) /\ Len(z) = Windows  BY SignalAssumption
    <3> HIDE DEF z
    <3> QED  BY <3>2, <3>3, SignalAssumption DEF CounterMem
  <2>5. (Class \in AllocatedClasses)'  BY <1>0, <1>1, KindKept
  <2> QED  BY <1>3, <2>2, <2>3, <2>4, <2>5 DEF Scheduled, OutputsKept, ResultsKept, Working
<1> QED  BY <1>2, <1>3

(* Activating leaves values of their types, and counting starts over        *)
(* (scene_activated).                                                       *)
LEMMA ActivateSound == SignalInv /\ Activate => Scheduled' /\ OutputsKept' /\ ResultsKept'
<1> SUFFICES ASSUME SignalInv, Activate PROVE Scheduled' /\ OutputsKept' /\ ResultsKept'
  OBVIOUS
<1>0. kind' = kind /\ phase \in {"ready", "running"} /\ phase' = "active" /\ marks' = <<0>> /\ seen' = 0
  BY DEF Activate
<1>1. kind \in Kinds /\ millis \in Nat /\ Class \in AllocatedClasses /\ OutsSound(out) /\ RangeKept
  BY <1>0 DEF SignalInv, ClockInv, Scheduled, OutputsKept, Working
<1>2. PICK t \in Later \union {millis} : out' = Activated(t)[1] /\ mem' = Activated(t)[2]
  BY DEF Activate
<1>3. t \in Int  BY <1>1, Timely
<1>4. (Class \in AllocatedClasses)'  BY <1>0, <1>1, KindKept
<1>5. CASE Class \in DelayClasses
  <2>1. out' = [value |-> 0] \/ out' = out  BY <1>2, <1>5 DEF Activated, DelayClasses
  <2>2. OutsSound([value |-> 0])
    <3>1. Outs = [value |-> Type]  BY <1>1, <1>5, PortsFollowClass DEF Outs, Delayer, Ports
    <3>2. Type \in {"8bit", "16bit", "float"}  BY <1>1, <1>5, KindTypes
    <3>3. IsValue(Type, 0)  BY <3>2, Widths, ValueKinds
    <3> QED  BY <3>1, <3>3, OneOut
  <2>3. OutsSound(out)'  BY <1>0, <1>1, <2>1, <2>2, KindKept
  <2>4. Class # "float_map_range" /\ Class # "filter_event_counter"  BY <1>5 DEF DelayClasses
  <2>5. RangeKept'  BY <1>0, <2>4, KindKept
  <2>6. Class' # "filter_event_counter"  BY <1>0, <2>4, KindKept
  <2> QED  BY <1>0, <1>4, <2>3, <2>5, <2>6 DEF Scheduled, OutputsKept, ResultsKept, Working
<1>6. CASE Class = "filter_event_counter"
  <2> DEFINE b == mem.bpm_window  z == [w \in DOMAIN b |-> 0]
  <2>0. CounterMem  BY <1>0, <1>6 DEF SignalInv, OutputsKept, Working
  <2>1. Class \notin DelayClasses  BY <1>6 DEF DelayClasses
  <2>2. out' = [freq |-> 0, bpm |-> 0]
    BY <1>2, <1>6, <2>1 DEF Activated
  <2>3. mem' = [mem EXCEPT !.time_til_next_count = Second, !.counted_events = 0,
                           !.bpm_window = [w \in DOMAIN @ |-> 0]]
    BY <1>2, <1>6, <2>1 DEF Activated
  <2>4. mem' = [time_til_next_count |-> Second, last_update |-> mem.last_update,
                counted_events |-> 0, bpm_window |-> z]
    BY <2>0, <2>3 DEF CounterMem
  <2>5. z \in Seq(Int) /\ Len(z) = Windows
    <3>1. DOMAIN b = 1 .. Windows  BY <2>0, SignalAssumption DEF CounterMem
    <3>2. z = [w \in 1 .. Windows |-> 0]  BY <3>1
    <3> HIDE DEF z
    <3> QED  BY <3>2, SignalAssumption
  <2>6. Second \in Int /\ mem.last_update \in Int  BY <2>0, SignalAssumption DEF CounterMem
  <2> HIDE DEF z
  <2>7. CounterMem'  BY <2>4, <2>5, <2>6 DEF CounterMem
  <2>8. Counts'
    <3>1. /\ marks' \in Seq(Int) /\ marks' # << >> /\ Len(marks') = 1 /\ Last(marks') = 0
          /\ mem'.counted_events = 0
      BY <1>0, <2>4 DEF Last
    <3>2. 1 .. Smaller(Windows, Len(marks') - 1) = {}  BY <3>1, SignalAssumption DEF Smaller
    <3> QED  BY <1>0, <3>1, <3>2 DEF Counts
  <2>9. OutsSound(out)'
    <3>1. Outs = [n \in {"bpm", "freq"} |-> "16bit"]  BY <1>1, <1>6, PortsFollowClass DEF Outs, Counter, Ports, All
    <3>2. IsValue("16bit", 0)  BY Widths, ValueKinds
    <3>3. DOMAIN out' = {"bpm", "freq"} /\ \A n \in {"bpm", "freq"} : IsValue("16bit", out'[n])
      BY <2>2, <3>2
    <3>4. OutsSound(out')  BY <3>1, <3>3, SameOuts
    <3> QED  BY <1>0, <3>4, KindKept
  <2>10. RangeKept'  BY <1>0, <1>6, KindKept
  <2> QED  BY <1>0, <1>4, <2>7, <2>8, <2>9, <2>10 DEF Scheduled, OutputsKept, ResultsKept, Working
<1>7. CASE Class \notin DelayClasses /\ Class # "filter_event_counter"
  <2>1. \/ out' = [value |-> 2 * t] /\ Class = "filter_time"
        \/ out' = out
    BY <1>2, <1>7 DEF Activated
  <2>2. mem' = mem  BY <1>2, <1>7 DEF Activated
  <2>3. OutsSound(out)'  BY <1>0, <1>1, <1>3, <2>1, TimeSound, KindKept
  <2>4. RangeKept'  BY <1>0, <1>1, <2>2, KindKept DEF RangeKept
  <2>5. Class' # "filter_event_counter"  BY <1>0, <1>7, KindKept
  <2> QED  BY <1>0, <1>4, <2>3, <2>4, <2>5 DEF Scheduled, OutputsKept, ResultsKept, Working
<1> QED  BY <1>5, <1>6, <1>7

(* An update leaves values of their types, the right ones, and counts       *)
(* (invoke_filters).                                                        *)
LEMMA UpdateSound == SignalInv /\ UpdateSignals => Scheduled' /\ OutputsKept' /\ ResultsKept'
<1> SUFFICES ASSUME SignalInv, UpdateSignals PROVE Scheduled' /\ OutputsKept' /\ ResultsKept'
  OBVIOUS
<1>0. kind' = kind /\ phase \in {"active", "running"} /\ phase' = "running"  BY DEF UpdateSignals
<1>1. /\ kind \in Kinds /\ conf \in {"sound"} \union Faults /\ millis \in Nat
      /\ Class \in AllocatedClasses /\ OutsSound(out) /\ RangeKept
  BY <1>0 DEF SignalInv, ClockInv, Scheduled, OutputsKept, Working
<1>2. PICK i \in Inputs, n \in Arrivals, t \in Later : \E r \in Updated(i, n, t) :
        /\ out' = r[1] /\ mem' = r[2] /\ in' = i
        /\ seen' = seen + n
        /\ marks' = IF Class = "filter_event_counter" /\ Remaining(t) <= 0 THEN Append(marks, seen) ELSE marks
  BY Zenon DEF UpdateSignals
<1>3. PICK r \in Updated(i, n, t) :
        /\ out' = r[1] /\ mem' = r[2] /\ in' = i
        /\ seen' = seen + n
        /\ marks' = IF Class = "filter_event_counter" /\ Remaining(t) <= 0 THEN Append(marks, seen) ELSE marks
  BY <1>2, Zenon
<1>4. t \in Int /\ n \in Int
  <2>1. n \in Nat  BY SignalAssumption DEF Arrivals
  <2> QED  BY <1>1, <2>1, Timely
<1>5. (Class \in AllocatedClasses)' /\ Class' = Class  BY <1>0, <1>1, KindKept
<1>6. CASE Class # "filter_event_counter"
  <2>1. OutsSound(r[1]) /\ Exact(i, r[1], r[2]) /\ (Class = "float_map_range" => r[2] = mem)
    BY <1>1, <1>4, <1>6, UpdatedSound
  <2>2. OutsSound(out') /\ Exact(in', out', mem') /\ (Class = "float_map_range" => mem' = mem)
    BY <1>3, <2>1
  <2>3. OutsSound(out)' /\ Exact(in, out, mem)'  BY <1>0, <2>2, KindKept
  <2>4. RangeKept'  BY <1>0, <1>1, <2>2, KindKept DEF RangeKept
  <2> QED  BY <1>0, <1>5, <1>6, <2>3, <2>4 DEF Scheduled, OutputsKept, ResultsKept, Working
<1>7. CASE Class = "filter_event_counter"
  <2>1. r \in Counted(n, t)  BY <1>7, UpdatedByClass
  <2>2. CounterMem /\ Counts  BY <1>0, <1>7 DEF SignalInv, OutputsKept, Working
  <2>3. marks' = IF Remaining(t) <= 0 THEN Append(marks, seen) ELSE marks  BY <1>3, <1>7
  <2>4. OutsSound(out') /\ CounterMem' /\ Counts'
    BY <1>1, <1>3, <1>4, <1>7, <2>1, <2>2, <2>3, CountedStep
  <2>5. Exact(in', out', mem')
    <3>1. Class \notin Known  BY <1>7 DEF Known
    <3> QED  BY <3>1, Unknown
  <2>6. OutsSound(out)' /\ Exact(in, out, mem)'  BY <1>0, <2>4, <2>5, KindKept
  <2>7. RangeKept'  BY <1>0, <1>7, KindKept
  <2> QED  BY <1>0, <1>5, <2>4, <2>6, <2>7 DEF Scheduled, OutputsKept, ResultsKept, Working
<1> QED  BY <1>6, <1>7

(* A client gives a constant a value of its type                            *)
(* (filter_constants.hpp:43-51).                                            *)
LEMMA SetConstantSound == SignalInv /\ SetConstant => Scheduled' /\ OutputsKept' /\ ResultsKept'
<1> SUFFICES ASSUME SignalInv, SetConstant PROVE Scheduled' /\ OutputsKept' /\ ResultsKept'
  OBVIOUS
<1>0. /\ kind' = kind /\ phase' = phase /\ Working(phase) /\ Class \in ConstantClasses
      /\ mem' = mem /\ in' = in
  BY DEF SetConstant, Working
<1>1. kind \in Kinds /\ Class \in AllocatedClasses /\ OutsSound(out) /\ RangeKept
  BY <1>0 DEF SignalInv, ClockInv, Scheduled, OutputsKept, Working
<1>2. PICK v \in FromShow(Type) \union {out.value} : out' = [value |-> v]
  BY DEF SetConstant
<1>3. IsValue(Type, v)
  <2>1. Outs = [value |-> Type]  BY <1>0, <1>1, PortsFollowClass DEF Outs, Constant, Ports
  <2>2. IsValue(Type, out.value)  BY <1>1, <2>1 DEF OutsSound
  <2> QED  BY <1>1, <1>2, <2>2, KindTypes, ValuesTyped
<1>4. OutsSound(out')  BY <1>0, <1>1, <1>2, <1>3, ConstantSound
<1>5. Class \notin Known /\ Class # "filter_event_counter" /\ Class # "float_map_range"
  BY <1>0, ClassSets DEF Known
<1>6. Exact(in', out', mem')  BY <1>5, Unknown
<1>7. OutsSound(out)' /\ Exact(in, out, mem)' /\ RangeKept' /\ Class' = Class /\ (Class \in AllocatedClasses)'
  BY <1>0, <1>1, <1>4, <1>5, <1>6, KindKept
<1> QED  BY <1>0, <1>1, <1>5, <1>7 DEF Scheduled, OutputsKept, ResultsKept, Working

(* No message makes the range one of no width                               *)
(* (filter_conversion.hpp:490-522).                                         *)
LEMMA MapRangeSound == SignalInv /\ MapRange => Scheduled' /\ OutputsKept' /\ ResultsKept'
<1> SUFFICES ASSUME SignalInv, MapRange PROVE Scheduled' /\ OutputsKept' /\ ResultsKept'
  OBVIOUS
<1>0. /\ kind' = kind /\ Working(phase) /\ Class = "float_map_range"
      /\ phase' \in {"ready", "active"} /\ out' = out
  BY DEF MapRange, Working
<1>1. /\ kind \in Kinds /\ Class \in AllocatedClasses /\ OutsSound(out)
      /\ RangeMem(mem) /\ mem.lower_in # mem.upper_in
  BY <1>0 DEF SignalInv, ClockInv, Scheduled, OutputsKept, Working, RangeKept
<1>2. RangeMem(mem') /\ mem'.lower_in # mem'.upper_in
  <2>1. ASSUME NEW key \in {"lower_in", "upper_in", "lower_out", "upper_out"}, NEW v \in {0, 2, 4}, mem' = SetRange(key, v)
        PROVE  RangeMem(mem') /\ mem'.lower_in # mem'.upper_in
    <3>1. CASE key = "lower_in" /\ v # mem.upper_in
      <4>1. mem' = [mem EXCEPT !["lower_in"] = v]  BY <2>1, <3>1 DEF SetRange
      <4> QED  BY <1>1, <3>1, <4>1 DEF RangeMem
    <3>2. CASE key = "upper_in" /\ v # mem.lower_in
      <4>1. mem' = [mem EXCEPT !["upper_in"] = v]  BY <2>1, <3>2 DEF SetRange
      <4> QED  BY <1>1, <3>2, <4>1 DEF RangeMem
    <3>3. CASE key = "lower_out"
      <4>1. mem' = [mem EXCEPT !["lower_out"] = v]  BY <2>1, <3>3 DEF SetRange
      <4> QED  BY <1>1, <3>3, <4>1 DEF RangeMem
    <3>5. CASE key = "upper_out"
      <4>1. mem' = [mem EXCEPT !["upper_out"] = v]  BY <2>1, <3>5 DEF SetRange
      <4> QED  BY <1>1, <3>5, <4>1 DEF RangeMem
    <3>4. CASE \/ key = "lower_in" /\ v = mem.upper_in
               \/ key = "upper_in" /\ v = mem.lower_in
      <4>1. mem' = mem  BY <2>1, <3>4 DEF SetRange
      <4> QED  BY <1>1, <4>1
    <3> QED  BY <2>1, <3>1, <3>2, <3>3, <3>4, <3>5
  <2>2. CASE mem' = [mem EXCEPT !.limit = ~@]
    <3> DEFINE l == ~mem.limit
    <3>1. mem' = [mem EXCEPT !.limit = l]  BY <2>2
    <3>2. l \in BOOLEAN  OBVIOUS
    <3> HIDE DEF l
    <3> QED  BY <1>1, <3>1, <3>2 DEF RangeMem
  <2> QED  BY <2>1, <2>2 DEF MapRange
<1>3. OutsSound(out)' /\ RangeKept' /\ Class' = Class /\ (Class \in AllocatedClasses)'
  BY <1>0, <1>1, <1>2, KindKept
<1> QED  BY <1>0, <1>3 DEF Scheduled, OutputsKept, ResultsKept, Working

(* The rest leaves outputs alone.                                           *)
LEMMA UniverseLossSound ==
  ASSUME SignalInv, LoseUniverse \/ RuntimeException
  PROVE  Scheduled' /\ OutputsKept' /\ ResultsKept'
<1>0. /\ kind' = kind /\ out' = out /\ in' = in /\ phase = "running" /\ phase' \in {"running", "stopped"}
      /\ Class = "filter_universe_output"
  BY DEF LoseUniverse, RuntimeException
<1>1. Class \in AllocatedClasses /\ OutsSound(out)
  BY <1>0 DEF SignalInv, Scheduled, OutputsKept, Working
<1>2. Class \notin Known  BY <1>0 DEF Known
<1>3. Exact(in', out', mem')  BY <1>2, Unknown
<1>4. OutsSound(out)' /\ Exact(in, out, mem)' /\ RangeKept' /\ Class' = Class /\ (Class \in AllocatedClasses)'
  BY <1>0, <1>1, <1>3, KindKept
<1> QED  BY <1>0, <1>4 DEF Scheduled, OutputsKept, ResultsKept, Working

(* A step that changes nothing.                                             *)
LEMMA SignalStays == SignalInv /\ UNCHANGED signalVars => Scheduled' /\ OutputsKept' /\ ResultsKept'
<1> SUFFICES ASSUME SignalInv, UNCHANGED signalVars PROVE Scheduled' /\ OutputsKept' /\ ResultsKept'
  OBVIOUS
<1>0. UNCHANGED <<kind, phase, in, out, mem, marks, seen>>  BY DEF signalVars, signalGhosts
<1>1. Class' = Class  BY <1>0, KindKept
<1>2. Scheduled'  BY <1>0, <1>1 DEF SignalInv, Scheduled, Working
<1>3. OutputsKept'
  <2>1. Working(phase) => OutsSound(out)'  BY <1>0, KindKept DEF SignalInv, OutputsKept
  <2>2. Working(phase) => RangeKept'  BY <1>0, KindKept DEF SignalInv, OutputsKept, RangeKept
  <2>3. CounterMem => CounterMem'  BY <1>0 DEF CounterMem
  <2>4. Counts => Counts'  BY <1>0 DEF Counts
  <2> QED  BY <1>0, <1>1, <2>1, <2>2, <2>3, <2>4 DEF SignalInv, OutputsKept, Working
<1>4. ResultsKept'
  <2>1. Exact(in, out, mem) => Exact(in, out, mem)'  BY <1>0, KindKept
  <2> QED  BY <1>0, <2>1 DEF SignalInv, ResultsKept
<1> QED  BY <1>2, <1>3, <1>4

(* The invariant is inductive.                                              *)
LEMMA SignalStep == SignalInv /\ [SignalNext]_signalVars => SignalInv'
<1>1. SignalInv /\ [SignalNext]_signalVars => ClockInv'  BY ClockStep DEF SignalInv
<1>2. SignalInv /\ [SignalNext]_signalVars => Scheduled' /\ OutputsKept' /\ ResultsKept'
  BY ConstructSound, SetUpSound, ActivateSound, UpdateSound, SetConstantSound, MapRangeSound,
     UniverseLossSound, SignalStays DEF SignalNext
<1> QED  BY <1>1, <1>2 DEF SignalInv

(* For every kind of filter, every configuration and every input: outputs   *)
(* have the values of their types, conversions, sums and mixtures are exact *)
(* or saturated, a range is never of no width, and every event is counted   *)
(* once (filter_conversion.hpp, filter_math.hpp, filter_event_counter.cpp). *)
THEOREM SignalsSoundAlways == SignalSpec => []SignalsSound
BY SignalStart, SignalStep, InvIsSound, PTL DEF SignalSpec

-----------------------------------------------------------------------------
(* The script (filters/lua/filter_lua_script.cpp).                          *)

\* What the script's globals and the channels hold.
NumberOrNil == Int \union {Nil}
Triples == [1..3 -> Int]
LuaValue ==
  {NilValue, Reference} \union {Number(n) : n \in Int} \union
  [kind : {"table"}, v : [1..3 -> NumberOrNil]]
Offered == IF show.in = Nil THEN {} ELSE Named(show.in)

\* The state of the script: its globals are values of Lua, a reference is one
\* to a pixel that is linked, and the values fed have the type of their channel.
SoundLua(l) ==
  /\ l = [g |-> l.g, direct |-> l.direct, feed |-> l.feed]
  /\ l.g \in [NamesIn(show) -> LuaValue]
  /\ l.direct \in Seq(Seq(NumberOrNil) \union {Nil})
  /\ l.feed = [p \in Offered |-> l.feed[p]]
  /\ \A p \in Offered : IF p[2] = "color" THEN l.feed[p] \in Triples ELSE l.feed[p][1] \in Int
  /\ \A n \in NamesIn(show) : l.g[n] = Reference =>
       \E p \in Offered : p[1] = n /\ p[2] = "color"

LuaTypeOK ==
  /\ show \in ShowFiles
  /\ stage \in {"new", "named", "ready", "refused"}
  /\ cycle \in {"idle", "send", "run", "get", "direct"}
  /\ SoundLua(lua)
  /\ outputs = [p \in DOMAIN outputs |-> outputs[p]]
  /\ DOMAIN outputs \subseteq IF show.out = Nil THEN {} ELSE Named(show.out)
  /\ universes = [u \in Registered |-> [c \in 1..UniverseSize |-> universes[u][c]]]

\* A filter that is not set up is not in a cycle.
Staged ==
  /\ stage # "ready" => cycle = "idle"
  /\ stage \in {"named", "ready"} => Understood(show.in) /\ Understood(show.out)
  /\ stage = "ready" => show.script # Nil

\* Between the outputs and the universes the script has not been at work.
Settled ==
  cycle = "direct" /\ ~called =>
    \A p \in DOMAIN outputs : outputs[p] = Received(p[2], outputs[p], Global(p[1]))

LuaInv == LuaTypeOK /\ Staged /\ LuaSound /\ Settled

(* A mapping is a map: one channel for each name.                           *)
LEMMA UniqueNames ==
  ASSUME show \in ShowFiles, NEW p \in Offered, NEW q \in Offered, p[1] = q[1]
  PROVE  p = q
BY LuaAssumption DEF Offered, Named

(* The kinds of Lua values exclude each other.                              *)
LEMMA ValuesDiffer ==
  /\ \A n : NilValue # Reference /\ Number(n) # Reference /\ Number(n) # NilValue
  /\ NilValue.kind = "nil" /\ Reference.kind = "reference"
  /\ \A n : Number(n).kind = "number" /\ Number(n).v[1] = n
BY DEF NilValue, Reference, Number

(* Every input is a global.                                                *)
LEMMA NamesInShow ==
  ASSUME show.in # Nil PROVE \A p \in Named(show.in) : p[1] \in NamesIn(show)
BY DEF NamesIn

(* Every output is a global.                                               *)
LEMMA NamesOutShow ==
  ASSUME show.out # Nil PROVE \A p \in Named(show.out) : p[1] \in NamesIn(show)
BY DEF NamesIn

(* Whatever a script does, its state stays sound, and the numbers fed are   *)
(* not its own to change.                                                  *)
LEMMA RunSound ==
  ASSUME show \in ShowFiles, show.script # Nil, show.in # Nil, NEW l, SoundLua(l), SoundLua(lua),
         NEW k \in Run(l)
  PROVE  SoundLua(k) /\ \A p \in Numeric(show.in) : k.feed[p] = l.feed[p]
<1> DEFINE T == [kind |-> "table", v |-> <<1, Nil, 1>>]
<1>0. DOMAIN l.g = Globals /\ Globals = NamesIn(show)  BY DEF SoundLua, Globals
<1>a. T \in LuaValue /\ T # Reference
  <2>1. <<1, Nil, 1>> \in [1..3 -> NumberOrNil]  BY DEF NumberOrNil
  <2> QED  BY <2>1 DEF LuaValue, Reference
<1>1. ASSUME NEW n \in Globals, NEW v \in {NilValue, T} \union {Number(m) : m \in Assigned},
             k = [l EXCEPT !.g[n] = v]
      PROVE  SoundLua(k) /\ \A p \in Numeric(show.in) : k.feed[p] = l.feed[p]
  <2>1. v \in LuaValue /\ v # Reference
    BY <1>1, <1>a, ValuesDiffer, LuaAssumption DEF LuaValue
  <2>2. /\ k.feed = l.feed /\ k.direct = l.direct
        /\ k = [g |-> k.g, direct |-> k.direct, feed |-> k.feed]
        /\ k.g = [l.g EXCEPT ![n] = v]
    BY <1>1 DEF SoundLua
  <2>3. k.g \in [NamesIn(show) -> LuaValue]  BY <2>1, <2>2, <1>0 DEF SoundLua
  <2>4. \A m \in NamesIn(show) : k.g[m] = Reference => l.g[m] = Reference
    BY <2>1, <2>2, <1>0
  <2> QED  BY <2>2, <2>3, <2>4 DEF SoundLua
<1>2. ASSUME NEW d \in show.script.tables, k = [l EXCEPT !.direct = d]
      PROVE  SoundLua(k) /\ \A p \in Numeric(show.in) : k.feed[p] = l.feed[p]
  <2>1. d \in Seq(Seq(NumberOrNil) \union {Nil})
    BY LuaAssumption DEF NumberOrNil
  <2>2. /\ k.feed = l.feed /\ k.direct = d /\ k.g = l.g
        /\ k = [g |-> k.g, direct |-> k.direct, feed |-> k.feed]
    BY <1>2 DEF SoundLua
  <2> QED  BY <2>1, <2>2 DEF SoundLua
<1>3. ASSUME NEW f \in Fed, NEW p \in {q \in Named(show.in) : l.g[q[1]] = Reference},
             k = [l EXCEPT !.feed[p] = <<f, f, f>>]
      PROVE  SoundLua(k) /\ \A q \in Numeric(show.in) : k.feed[q] = l.feed[q]
  <2>1. p \in Offered /\ p[2] = "color"
    <3>1. p \in Offered /\ p[1] \in NamesIn(show)  BY NamesInShow DEF Offered
    <3>2. PICK q \in Offered : q[1] = p[1] /\ q[2] = "color"  BY <3>1 DEF SoundLua
    <3> QED  BY <3>1, <3>2, UniqueNames
  <2>2. <<f, f, f>> \in Triples  BY LuaAssumption DEF Triples
  <2>3. /\ k.feed = [l.feed EXCEPT ![p] = <<f, f, f>>] /\ k.direct = l.direct /\ k.g = l.g
        /\ k = [g |-> k.g, direct |-> k.direct, feed |-> k.feed]
    BY <1>3 DEF SoundLua
  <2>4. \A q \in Offered : k.feed[q] = IF q = p THEN <<f, f, f>> ELSE l.feed[q]
    BY <2>1, <2>3 DEF SoundLua
  <2>5. k.feed = [q \in Offered |-> k.feed[q]]  BY <2>3, <2>1 DEF SoundLua
  <2>6. \A q \in Numeric(show.in) : q \in Offered /\ q # p  BY <2>1 DEF Numeric, Offered
  <2>7. \A q \in Offered : IF q[2] = "color" THEN k.feed[q] \in Triples ELSE k.feed[q][1] \in Int
    BY <2>1, <2>2, <2>4 DEF SoundLua
  <2>8. SoundLua(k)
    <3>1. k.g \in [NamesIn(show) -> LuaValue] /\ k.direct \in Seq(Seq(NumberOrNil) \union {Nil})
      BY <2>3 DEF SoundLua
    <3>2. \A n \in NamesIn(show) : k.g[n] = Reference =>
             \E q \in Offered : q[1] = n /\ q[2] = "color"
      BY <2>3 DEF SoundLua
    <3>3. k = [g |-> k.g, direct |-> k.direct, feed |-> k.feed]  BY <2>3
    <3> QED  BY <3>1, <3>2, <3>3, <2>5, <2>7, Zenon DEF SoundLua
  <2> QED  BY <2>4, <2>6, <2>8
<1> QED  BY <1>1, <1>2, <1>3 DEF Run

(* A value received is in the range of its channel (filter_lua_script.cpp). *)
LEMMA ReceivedRange ==
  ASSUME NEW t, NEW old, NEW w \in LuaValue, old \in Triples \/ t # "color"
  PROVE  LET r == Received(t, old, w)
         IN /\ t = "8bit" /\ old[1] \in 0 .. Bytes - 1 => r[1] \in 0 .. Bytes - 1
            /\ t = "16bit" /\ old[1] \in 0 .. Words - 1 => r[1] \in 0 .. Words - 1
            /\ t = "color" => r \in Triples
<1>0. Bytes \in Nat \ {0, 1}  BY LuaAssumption
<1>1. Words \in Nat /\ Words > 0  BY <1>0 DEF Words
<1>2. w.kind = "number" => w.v[1] \in Int  BY ValuesDiffer DEF LuaValue
<1>3. w.kind = "table" => w.v \in [1..3 -> NumberOrNil]  BY ValuesDiffer DEF LuaValue
<1>4. CASE t = "color"
  <2>1. CASE w.kind = "table"
    <3>1. Received(t, old, w) = [i \in 1..3 |-> IF w.v[i] = Nil THEN old[i] ELSE w.v[i]]
      BY <1>4, <2>1 DEF Received
    <3>2. \A i \in 1..3 : (IF w.v[i] = Nil THEN old[i] ELSE w.v[i]) \in Int
      BY <1>3, <1>4, <2>1 DEF NumberOrNil, Triples
    <3> QED  BY <3>1, <3>2, <1>4 DEF Triples
  <2> QED  BY <2>1, <1>4 DEF Received
<1>5. CASE t = "8bit"
  BY <1>0, <1>1, <1>2, <1>5 DEF Received, Clamped, Largest
<1>6. CASE t = "16bit"
  BY <1>0, <1>1, <1>2, <1>6 DEF Received, Clamped, Largest
<1> QED  BY <1>4, <1>5, <1>6

(* Receiving the same value again changes nothing.                          *)
LEMMA ReceivedTwice ==
  ASSUME NEW t, NEW old, NEW w
  PROVE  Received(t, Received(t, old, w), w) = Received(t, old, w)
BY DEF Received

(* A reference is followed to the pixel it names.                           *)
LEMMA GlobalTyped ==
  ASSUME SoundLua(lua), NEW n \in NamesIn(show)
  PROVE  Global(n) \in LuaValue
<1>1. lua.g[n] \in LuaValue  BY DEF SoundLua
<1>2. CASE lua.g[n] = Reference
  <2>1. PICK p \in Offered : p[1] = n /\ p[2] = "color"  BY <1>2 DEF SoundLua
  <2>2. p \in Named(show.in)  BY <2>1 DEF Offered
  <2> DEFINE r == CHOOSE q \in Named(show.in) : q[1] = n /\ q[2] = "color"
  <2>3. r \in Named(show.in) /\ r[2] = "color"  BY <2>1, <2>2
  <2>4. lua.feed[r] \in Triples  BY <2>1, <2>3 DEF SoundLua, Offered
  <2>5. Pixel(n) \in [1..3 -> NumberOrNil]  BY <2>4 DEF Pixel, Triples, NumberOrNil
  <2> QED  BY <2>5, <1>2 DEF Global, LuaValue
<1> QED  BY <1>1, <1>2 DEF Global

-----------------------------------------------------------------------------

(* Before the setup nothing is announced and nothing is defined.            *)
LEMMA LuaStart == LuaInit => LuaInv
<1> SUFFICES ASSUME LuaInit PROVE LuaInv
  OBVIOUS
<1>0. /\ show \in ShowFiles /\ stage = "new" /\ cycle = "idle" /\ called = FALSE
      /\ lua = [g |-> [n \in NamesIn(show) |-> NilValue], direct |-> <<>>,
                feed |-> [p \in Offered |-> Initial(p[2])]]
      /\ outputs = [p \in {} |-> <<>>]
      /\ universes = [u \in Registered |-> [c \in 1..UniverseSize |-> 0]]
  BY DEF LuaInit, Offered
<1>1. SoundLua(lua)
  <2>1. lua.g \in [NamesIn(show) -> LuaValue]  BY <1>0 DEF LuaValue
  <2>2. lua.direct \in Seq(Seq(NumberOrNil) \union {Nil})  BY <1>0
  <2>3. \A p \in Offered : IF p[2] = "color" THEN lua.feed[p] \in Triples ELSE lua.feed[p][1] \in Int
    BY <1>0 DEF Initial, Triples
  <2>4. \A n \in NamesIn(show) : lua.g[n] # Reference  BY <1>0, ValuesDiffer
  <2>5. lua = [g |-> lua.g, direct |-> lua.direct, feed |-> lua.feed]
        /\ lua.feed = [p \in Offered |-> lua.feed[p]]
    BY <1>0
  <2> QED  BY <2>1, <2>2, <2>3, <2>4, <2>5, Zenon DEF SoundLua
<1>2. LuaTypeOK  BY <1>0, <1>1 DEF LuaTypeOK
<1>3. InRange  BY <1>0, LuaAssumption DEF InRange
<1> QED  BY <1>0, <1>2, <1>3 DEF LuaInv, Staged, Settled, LuaSound, LoadedIfLoadable, InputsAreFresh

\* What the script may hold depends on the show alone.
LEMMA SoundNext ==
  ASSUME show' = show, SoundLua(lua') PROVE SoundLua(lua)'
BY DEF SoundLua, Offered, NamesIn, Named

(* The channels start at zero, or the filter is refused.                    *)
LEMMA PreSetupKeeps == LuaInv /\ PreSetup => LuaInv'
<1> SUFFICES ASSUME LuaInv, PreSetup PROVE LuaInv'
  OBVIOUS
<1> USE DEF LuaInv
<1>0. /\ stage = "new" /\ cycle = "idle"
      /\ UNCHANGED <<show, lua, universes, cycle, called>>
      /\ IF Understood(show.out) /\ Understood(show.in)
         THEN stage' = "named" /\ outputs' = OutputChannels
         ELSE stage' = "refused" /\ UNCHANGED outputs
  BY DEF PreSetup, Staged
<1>1. SoundLua(lua)'
  <2>1. SoundLua(lua')  BY <1>0 DEF LuaTypeOK
  <2> QED  BY <2>1, <1>0, SoundNext
<1>2. LuaTypeOK'
  <2>1. outputs' = [p \in DOMAIN outputs' |-> outputs'[p]] 
    BY <1>0 DEF LuaTypeOK, OutputChannels
  <2>2. DOMAIN outputs' \subseteq IF show.out = Nil THEN {} ELSE Named(show.out)
    BY <1>0 DEF LuaTypeOK, OutputChannels, Understood
  <2> QED  BY <1>0, <1>1, <2>1, <2>2 DEF LuaTypeOK, Named
<1>3. Staged'
  BY <1>0 DEF Staged, Understood
<1>4. InRange'
  <2>1. CASE outputs' = outputs  BY <2>1, <1>0 DEF LuaSound, InRange
  <2>2. CASE outputs' = OutputChannels
    BY <2>2, <1>0, LuaAssumption DEF LuaSound, InRange, OutputChannels, Initial, Words
  <2> QED  BY <2>1, <2>2, <1>0
<1>5. LoadedIfLoadable'  BY <1>0 DEF LoadedIfLoadable, Loadable, Understood, Named
<1> QED  BY <1>0, <1>2, <1>3, <1>4, <1>5 DEF LuaSound, InputsAreFresh, Settled

(* A filter is set up exactly if its show is loadable.                      *)
LEMMA SetupKeeps == LuaInv /\ Setup => LuaInv'
<1> SUFFICES ASSUME LuaInv, Setup PROVE LuaInv'
  OBVIOUS
<1> USE DEF LuaInv
<1>0. /\ stage = "named" /\ cycle = "idle" /\ Understood(show.in) /\ Understood(show.out)
      /\ UNCHANGED <<show, outputs, universes, cycle, called>>
  BY DEF Setup, Staged
<1> DEFINE Fit == /\ Named(show.in) \subseteq show.linked
                  /\ show.script # Nil /\ ~show.script.fails /\ \A f \in Functions : Defined[f] = "function"
           referred == [lua EXCEPT !.g = [n \in DOMAIN @ |->
                        IF n \in NamedAs(show.in, "color") THEN Reference ELSE @[n]]]
<1>1. Fit <=> Loadable
  <2>1. show.script # Nil => \A f \in Functions : (Defined[f] = "function") <=> (show.script.functions[f] # "other")
    <3> SUFFICES ASSUME show.script # Nil, NEW f \in Functions
                 PROVE  (Defined[f] = "function") <=> (show.script.functions[f] # "other")
      OBVIOUS
    <3>1. show.script.functions \in [Functions -> {"function", "untouched", "other"}]
      BY LuaAssumption DEF LuaTypeOK
    <3> QED  BY <3>1 DEF Defined, InitLua
  <2>2. \A m \in {show.in, show.out} : Understood(m)  BY <1>0
  <2> QED  BY <2>1, <2>2 DEF Loadable
<1>2. CASE Fit
  <2>1. stage' = "ready" /\ lua' \in Run(referred)  BY <1>2 DEF Setup
  <2>2. show.in # Nil /\ show.in # Nil  BY <1>0 DEF Understood
  <2>3. SoundLua(referred)
    <3>1. referred.feed = lua.feed /\ referred.direct = lua.direct
          /\ referred = [g |-> referred.g, direct |-> referred.direct, feed |-> referred.feed]
          /\ referred.g = [n \in DOMAIN lua.g |->
                            IF n \in NamedAs(show.in, "color") THEN Reference ELSE lua.g[n]]
      BY DEF LuaTypeOK, SoundLua
    <3> HIDE DEF referred
    <3>2. referred.g \in [NamesIn(show) -> LuaValue]
      BY <3>1 DEF LuaTypeOK, SoundLua, LuaValue
    <3>3. ASSUME NEW n \in NamesIn(show), referred.g[n] = Reference
          PROVE  \E p \in Offered : p[1] = n /\ p[2] = "color"
      <4>1. CASE n \in NamedAs(show.in, "color")  BY <4>1, <2>2 DEF NamedAs, Offered
      <4>2. CASE n \notin NamedAs(show.in, "color")
        <5>1. lua.g[n] = Reference  BY <4>2, <3>1, <3>3 DEF LuaTypeOK, SoundLua
        <5> QED  BY <5>1 DEF LuaTypeOK, SoundLua
      <4> QED  BY <4>1, <4>2
    <3>4. /\ referred.direct \in Seq(Seq(NumberOrNil) \union {Nil})
          /\ referred.feed = [p \in Offered |-> referred.feed[p]]
          /\ \A p \in Offered : IF p[2] = "color" THEN referred.feed[p] \in Triples
                                                  ELSE referred.feed[p][1] \in Int
      BY <3>1 DEF LuaTypeOK, SoundLua
    <3>5. referred = [g |-> referred.g, direct |-> referred.direct, feed |-> referred.feed]  BY <3>1
    <3> QED  BY <3>2, <3>3, <3>4, <3>5, Zenon DEF SoundLua
  <2> HIDE DEF referred
  <2>4. SoundLua(lua')
    BY <1>2, <2>1, <2>2, <2>3, RunSound DEF LuaTypeOK
  <2>5. SoundLua(lua)'  BY <2>4, <1>0, SoundNext
  <2>6. LuaTypeOK'  BY <2>1, <2>5, <1>0 DEF LuaTypeOK, Named
  <2>7. Staged'  BY <2>1, <1>0, <1>2 DEF Staged, Understood
  <2>8. LoadedIfLoadable'  BY <2>1, <1>0, <1>1, <1>2 DEF LoadedIfLoadable, Loadable, Understood, Named
  <2>9. InRange'  BY <1>0 DEF LuaSound, InRange
  <2> QED  BY <2>6, <2>7, <2>8, <2>9, <1>0 DEF LuaSound, InputsAreFresh, Settled
<1>3. CASE ~Fit
  <2>1. stage' = "refused" /\ lua' = lua  BY <1>3 DEF Setup
  <2>4. SoundLua(lua')  BY <2>1 DEF LuaTypeOK
  <2>5. SoundLua(lua)'  BY <2>4, <1>0, SoundNext
  <2>6. LuaTypeOK'  BY <2>1, <2>5, <1>0 DEF LuaTypeOK, Named
  <2>7. Staged'  BY <2>1, <1>0 DEF Staged
  <2>8. LoadedIfLoadable'  BY <2>1, <1>0, <1>1, <1>3 DEF LoadedIfLoadable, Loadable, Understood, Named
  <2>9. InRange'  BY <1>0 DEF LuaSound, InRange
  <2> QED  BY <2>6, <2>7, <2>8, <2>9, <1>0 DEF LuaSound, InputsAreFresh, Settled
<1> QED  BY <1>2, <1>3

(* The filters before this one put their values on its inputs.              *)
LEMMA BeginKeeps == LuaInv /\ Begin => LuaInv'
<1> SUFFICES ASSUME LuaInv, Begin PROVE LuaInv'
  OBVIOUS
<1> USE DEF LuaInv
<1>0. /\ stage = "ready" /\ cycle = "idle" /\ cycle' = "send"
      /\ UNCHANGED <<show, stage, outputs, universes, called>>
  BY DEF Begin, Place
<1>1. PICK k \in Fed : lua' = [lua EXCEPT !.feed = [p \in DOMAIN @ |-> IF p[2] = "color" THEN <<k, k, k>> ELSE <<k>>]]
  BY DEF Begin
<1>2. SoundLua(lua')
  <2>1. /\ lua'.g = lua.g /\ lua'.direct = lua.direct
        /\ lua' = [g |-> lua'.g, direct |-> lua'.direct, feed |-> lua'.feed]
        /\ lua'.feed = [p \in Offered |-> IF p[2] = "color" THEN <<k, k, k>> ELSE <<k>>]
    BY <1>1 DEF LuaTypeOK, SoundLua
  <2>2. <<k, k, k>> \in Triples /\ k \in Int  BY LuaAssumption DEF Triples
  <2>3. \A p \in Offered : IF p[2] = "color" THEN lua'.feed[p] \in Triples ELSE lua'.feed[p][1] \in Int
    BY <2>1, <2>2
  <2>4. lua'.feed = [p \in Offered |-> lua'.feed[p]]  BY <2>1
  <2>5. lua' = [g |-> lua'.g, direct |-> lua'.direct, feed |-> lua'.feed]  BY <2>1
  <2>6. /\ lua'.g \in [NamesIn(show) -> LuaValue]
        /\ lua'.direct \in Seq(Seq(NumberOrNil) \union {Nil})
        /\ \A n \in NamesIn(show) : lua'.g[n] = Reference =>
             \E p \in Offered : p[1] = n /\ p[2] = "color"
    BY <2>1 DEF LuaTypeOK, SoundLua
  <2> QED  BY <2>3, <2>4, <2>5, <2>6, Zenon DEF SoundLua
<1>3. LuaTypeOK'  BY <1>0, <1>2, SoundNext DEF LuaTypeOK, Named
<1> QED
  BY <1>0, <1>3 DEF Staged, Understood, LuaSound, InRange, LoadedIfLoadable, Loadable, Named,
                    InputsAreFresh, Settled

(* The numbers of the cycle reach their globals: names are unique, so the   *)
(* one chosen for a name is the one that has it.                            *)
LEMMA SendInputValuesKeeps == LuaInv /\ SendInputValues => LuaInv'
<1> SUFFICES ASSUME LuaInv, SendInputValues PROVE LuaInv'
  OBVIOUS
<1> USE DEF LuaInv
<1> DEFINE sent(n) == CHOOSE p \in Numeric(show.in) : p[1] = n
<1>0. /\ stage = "ready" /\ cycle = "send" /\ cycle' = "run" /\ called' = FALSE
      /\ UNCHANGED <<show, stage, outputs, universes>>
      /\ lua' = [lua EXCEPT !.g = [n \in DOMAIN @ |->
              IF \E p \in Numeric(show.in) : p[1] = n
              THEN Number(lua.feed[sent(n)][1]) ELSE @[n]]]
  BY DEF SendInputValues, Place
<1>1. show.in # Nil /\ Offered = Named(show.in)  BY <1>0 DEF Staged, Understood, Offered
<1>2. \A p \in Numeric(show.in) : p \in Offered /\ p[2] # "color" /\ p[1] \in NamesIn(show)
  BY <1>1, NamesInShow DEF Numeric
<1>3. \A p \in Numeric(show.in) : sent(p[1]) = p
  <2> SUFFICES ASSUME NEW p \in Numeric(show.in) PROVE sent(p[1]) = p
    OBVIOUS
  <2>1. sent(p[1]) \in Numeric(show.in) /\ sent(p[1])[1] = p[1]  OBVIOUS
  <2> QED  BY <2>1, <1>2, UniqueNames DEF LuaTypeOK
<1>4. /\ lua'.feed = lua.feed /\ lua'.direct = lua.direct
      /\ lua' = [g |-> lua'.g, direct |-> lua'.direct, feed |-> lua'.feed]
      /\ lua'.g = [n \in NamesIn(show) |-> IF \E p \in Numeric(show.in) : p[1] = n
                                           THEN Number(lua.feed[sent(n)][1]) ELSE lua.g[n]]
  BY <1>0 DEF LuaTypeOK, SoundLua
<1> HIDE DEF sent
<1>5. \A n \in NamesIn(show) :
        \/ \E p \in Numeric(show.in) : p[1] = n /\ lua'.g[n] = Number(lua.feed[p][1])
        \/ lua'.g[n] = lua.g[n]
  BY <1>3, <1>4
<1>6. SoundLua(lua')
  <2>1. \A n \in NamesIn(show) : lua'.g[n] \in LuaValue /\ (lua'.g[n] = Reference => lua.g[n] = Reference)
    <3> SUFFICES ASSUME NEW n \in NamesIn(show)
                 PROVE  lua'.g[n] \in LuaValue /\ (lua'.g[n] = Reference => lua.g[n] = Reference)
      OBVIOUS
    <3>1. CASE lua'.g[n] = lua.g[n]  BY <3>1 DEF LuaTypeOK, SoundLua
    <3>2. ASSUME NEW p \in Numeric(show.in), lua'.g[n] = Number(lua.feed[p][1])
          PROVE  lua'.g[n] \in LuaValue /\ (lua'.g[n] = Reference => lua.g[n] = Reference)
      <4>1. lua.feed[p][1] \in Int  BY <1>2 DEF LuaTypeOK, SoundLua
      <4> QED  BY <4>1, <3>2, ValuesDiffer DEF LuaValue
    <3> QED  BY <3>1, <3>2, <1>5
  <2>2. lua'.g \in [NamesIn(show) -> LuaValue]  BY <2>1, <1>4
  <2>3. /\ lua'.direct \in Seq(Seq(NumberOrNil) \union {Nil})
        /\ lua'.feed = [p \in Offered |-> lua'.feed[p]]
        /\ \A p \in Offered : IF p[2] = "color" THEN lua'.feed[p] \in Triples ELSE lua'.feed[p][1] \in Int
        /\ \A n \in NamesIn(show) : lua'.g[n] = Reference =>
             \E p \in Offered : p[1] = n /\ p[2] = "color"
    BY <2>1, <1>4 DEF LuaTypeOK, SoundLua
  <2>4. lua' = [g |-> lua'.g, direct |-> lua'.direct, feed |-> lua'.feed]  BY <1>4
  <2> QED  BY <2>2, <2>3, <2>4, Zenon DEF SoundLua
<1>7. LuaTypeOK'  BY <1>0, <1>6, SoundNext DEF LuaTypeOK, Named
<1>8. InputsAreFresh'
  <2>1. \A p \in Numeric(show.in) : lua'.g[p[1]] = Number(lua.feed[p][1])
    BY <1>2, <1>3, <1>4
  <2>2. Numeric(show.in)' = Numeric(show.in)  BY <1>0 DEF Numeric, Named
  <2> QED  BY <2>1, <2>2, <1>4 DEF InputsAreFresh, Number
<1> QED
  BY <1>0, <1>7, <1>8 DEF Staged, Understood, LuaSound, InRange, LoadedIfLoadable, Loadable, Named, Settled

\* What the three steps that call the script have in common.
LEMMA CallSound ==
  ASSUME LuaInv, stage = "ready", show' = show, lua' \in Run(lua)
  PROVE  /\ SoundLua(lua)'
         /\ \A p \in Numeric(show.in) : lua'.feed[p] = lua.feed[p]
<1>1. show.in # Nil /\ show.script # Nil  BY DEF LuaInv, Staged, Understood
<1>2. SoundLua(lua') /\ \A p \in Numeric(show.in) : lua'.feed[p] = lua.feed[p]
  BY <1>1, RunSound DEF LuaInv, LuaTypeOK
<1> QED  BY <1>2, SoundNext

(* Calls leave channels alone, and none of the main thread's lies between    *)
(* sending and running, or between reading and the universes.               *)
LEMMA CallsKeep ==
  ASSUME LuaInv, UpdateLua \/ ScriptActivated \/ ReceiveUpdateFromGui
  PROVE  LuaInv'
<1> USE DEF LuaInv
<1>0. /\ stage = "ready" /\ lua' \in Run(lua) /\ UNCHANGED <<show, stage, outputs, universes>>
      /\ \/ cycle' \in {"get", "idle"}
         \/ called' = TRUE /\ cycle' = cycle
  BY DEF UpdateLua, ScriptActivated, ReceiveUpdateFromGui, LuaTypeOK
<1>1. SoundLua(lua)' /\ cycle' \in {"idle", "send", "run", "get", "direct"}
  BY <1>0, CallSound DEF LuaTypeOK
<1>2. LuaTypeOK'  BY <1>0, <1>1 DEF LuaTypeOK, Named
<1> QED
  BY <1>0, <1>2 DEF Staged, Understood, LuaSound, InRange, LoadedIfLoadable, Loadable, Named,
                    InputsAreFresh, Settled

(* Reading the outputs settles them.                                        *)
LEMMA GetOutputValuesKeeps == LuaInv /\ GetOutputValues => LuaInv'
<1> SUFFICES ASSUME LuaInv, GetOutputValues PROVE LuaInv'
  OBVIOUS
<1> USE DEF LuaInv
<1>0. /\ stage = "ready" /\ cycle = "get" /\ cycle' = "direct"
      /\ outputs' = [p \in DOMAIN outputs |-> Received(p[2], outputs[p], Global(p[1]))]
      /\ UNCHANGED <<show, stage, lua, universes, called>>
  BY DEF GetOutputValues, Place
<1>1. show.out # Nil  BY <1>0 DEF Staged, Understood
<1>2. \A p \in DOMAIN outputs : Global(p[1]) \in LuaValue
  BY <1>1, NamesOutShow, GlobalTyped DEF LuaTypeOK
<1>3. \A p \in DOMAIN outputs :
        /\ p[2] = "8bit" => outputs'[p][1] \in 0 .. Bytes - 1
        /\ p[2] = "16bit" => outputs'[p][1] \in 0 .. Words - 1
        /\ p[2] = "color" => outputs'[p] \in Triples
  <2> SUFFICES ASSUME NEW p \in DOMAIN outputs
               PROVE  /\ p[2] = "8bit" => outputs'[p][1] \in 0 .. Bytes - 1
                      /\ p[2] = "16bit" => outputs'[p][1] \in 0 .. Words - 1
                      /\ p[2] = "color" => outputs'[p] \in Triples
    OBVIOUS
  <2>1. /\ p[2] = "8bit" => outputs[p][1] \in 0 .. Bytes - 1
        /\ p[2] = "16bit" => outputs[p][1] \in 0 .. Words - 1
        /\ p[2] = "color" => outputs[p] \in Triples
    BY DEF LuaSound, InRange, Triples
  <2>2. outputs'[p] = Received(p[2], outputs[p], Global(p[1]))  BY <1>0
  <2> HIDE DEF LuaInv
  <2> QED  BY <2>1, <2>2, <1>2, ReceivedRange
<1>4. DOMAIN outputs' = DOMAIN outputs  BY <1>0
<1>5. InRange'  BY <1>3, <1>4, <1>0 DEF InRange, LuaSound, Triples
<1>6. Settled'
  <2>1. \A p \in DOMAIN outputs : outputs'[p] = Received(p[2], outputs'[p], Global(p[1]))
    BY <1>0, ReceivedTwice
  <2>2. \A n : Global(n)' = Global(n)
    BY <1>0 DEF Global, Pixel, Named
  <2> QED  BY <2>1, <2>2, <1>4 DEF Settled, Received, Clamped, Largest, Words
<1>7. LuaTypeOK'
  <2>1. SoundLua(lua') BY <1>0 DEF LuaTypeOK
  <2>2. SoundLua(lua)'  BY <2>1, <1>0, SoundNext
  <2>3. outputs' = [p \in DOMAIN outputs' |-> outputs'[p]]  BY <1>0
  <2> QED  BY <1>0, <1>4, <2>2, <2>3 DEF LuaTypeOK, Named
<1> QED
  BY <1>0, <1>5, <1>6, <1>7 DEF Staged, Understood, LuaSound, LoadedIfLoadable, Loadable, Named,
                    InputsAreFresh

(* Bytes wrap, what is missing leaves the universe as it was.               *)
LEMMA GetDirectOutChannelsKeeps == LuaInv /\ GetDirectOutChannels => LuaInv'
<1> SUFFICES ASSUME LuaInv, GetDirectOutChannels PROVE LuaInv'
  OBVIOUS
<1> USE DEF LuaInv
<1>0. /\ stage = "ready" /\ cycle = "direct" /\ cycle' = "idle"
      /\ UNCHANGED <<show, stage, lua, outputs, called>>
  BY DEF GetDirectOutChannels, Place
<1>1. PICK n \in Borders(lua.direct) :
        universes' = [u \in Registered |->
         LET entry == Entry(lua.direct, u + 1)
         IN [c \in 1..UniverseSize |->
               IF u > 2 * n \/ entry = Nil \/ Entry(entry, c) = Nil THEN universes[u][c]
               ELSE entry[c] % Bytes]]
  BY DEF GetDirectOutChannels
<1>2. \A u \in Registered : \A c \in 1..UniverseSize : universes'[u][c] \in 0 .. Bytes - 1
  <2> SUFFICES ASSUME NEW u \in Registered, NEW c \in 1..UniverseSize
               PROVE  universes'[u][c] \in 0 .. Bytes - 1
    OBVIOUS
  <2> DEFINE entry == Entry(lua.direct, u + 1)
  <2>1. universes'[u][c] = IF u > 2 * n \/ entry = Nil \/ Entry(entry, c) = Nil THEN universes[u][c]
                           ELSE entry[c] % Bytes
    BY <1>1
  <2>2. universes[u][c] \in 0 .. Bytes - 1  BY DEF LuaSound, InRange
  <2>3. entry # Nil => entry \in Seq(NumberOrNil)
    BY DEF LuaTypeOK, SoundLua, Entry
  <2>4. entry # Nil /\ Entry(entry, c) # Nil => entry[c] \in Int
    BY <2>3 DEF Entry, NumberOrNil
  <2>5. \A i \in Int : i % Bytes \in 0 .. Bytes - 1  BY LuaAssumption
  <2> QED  BY <2>1, <2>2, <2>4, <2>5
<1>3. universes' = [u \in Registered |-> [c \in 1..UniverseSize |-> universes'[u][c]]]
  BY <1>1
<1>4. SoundLua(lua)'
  <2>1. SoundLua(lua') BY <1>0 DEF LuaTypeOK
  <2> QED  BY <2>1, <1>0, SoundNext
<1>5. LuaTypeOK'  BY <1>0, <1>3, <1>4 DEF LuaTypeOK, Named
<1>6. InRange'  BY <1>0, <1>2 DEF LuaSound, InRange
<1> QED
  BY <1>0, <1>5, <1>6 DEF Staged, Understood, LuaSound, LoadedIfLoadable, Loadable, Named,
                    InputsAreFresh, Settled

(* A step that changes nothing.                                             *)
LEMMA LuaStays == LuaInv /\ UNCHANGED luaVars => LuaInv'
<1> SUFFICES ASSUME LuaInv, UNCHANGED luaVars PROVE LuaInv'
  OBVIOUS
<1>0. UNCHANGED <<show, stage, lua, outputs, universes, cycle, called>>  BY DEF luaVars
<1>1. SoundLua(lua)'
  <2>1. SoundLua(lua')  BY <1>0 DEF LuaInv, LuaTypeOK
  <2> QED  BY <2>1, <1>0, SoundNext
<1>2. LuaTypeOK'  BY <1>0, <1>1 DEF LuaInv, LuaTypeOK, Named
<1>3. LuaSound'
  BY <1>0 DEF LuaInv, LuaSound, InRange, LoadedIfLoadable, Loadable, InputsAreFresh, Understood,
              Named, Numeric, Number
<1>4. Staged'
  BY <1>0 DEF LuaInv, Staged, Understood
<1>5. Settled'
  <2> SUFFICES ASSUME cycle' = "direct", ~called', NEW p \in DOMAIN outputs'
               PROVE  outputs'[p] = Received(p[2], outputs[p], Global(p[1]))'
    BY DEF Settled
  <2>1. outputs[p] = Received(p[2], outputs[p], Global(p[1]))
    BY <1>0 DEF LuaInv, Settled
  <2>2. Global(p[1])' = Global(p[1])
    BY <1>0 DEF Global, Pixel
  <2> QED  BY <1>0, <2>1, <2>2
<1> QED  BY <1>2, <1>3, <1>4, <1>5 DEF LuaInv

(* The invariant is inductive.                                             *)
LEMMA LuaStep == LuaInv /\ [LuaNext]_luaVars => LuaInv'
BY PreSetupKeeps, SetupKeeps, BeginKeeps, SendInputValuesKeeps, CallsKeep, GetOutputValuesKeeps,
   GetDirectOutChannelsKeeps, LuaStays DEF LuaNext

(* For every show, script and client: channels and universes stay in range, *)
(* what is set up can be run and what can be is, and an update without a    *)
(* client in between sees the numbers of its cycle.                         *)
THEOREM LuaSoundAlways == LuaSpec => []LuaSound
<1>1. LuaInv => LuaSound  BY DEF LuaInv
<1> QED  BY <1>1, LuaStart, LuaStep, PTL DEF LuaSpec

(* What a step may not do follows from where the main thread is.            *)
LEMMA CycleStep ==
  ASSUME LuaInv, LuaNext
  PROVE  /\ stage = "ready" /\ outputs' # outputs => cycle = "get"
         /\ universes' # universes => cycle = "direct"
         /\ cycle = "direct" /\ cycle' = "idle" /\ ~called =>
              \A p \in DOMAIN outputs : outputs[p] = Received(p[2], outputs[p], Global(p[1]))
<1>1. stage = "ready" /\ outputs' # outputs => cycle = "get"
  BY DEF LuaNext, PreSetup, Setup, Begin, SendInputValues, UpdateLua, GetOutputValues,
         GetDirectOutChannels, ScriptActivated, ReceiveUpdateFromGui, Place
<1>2. universes' # universes => cycle = "direct"
  BY DEF LuaNext, PreSetup, Setup, Begin, SendInputValues, UpdateLua, GetOutputValues,
         GetDirectOutChannels, ScriptActivated, ReceiveUpdateFromGui, Place
<1> QED  BY <1>1, <1>2 DEF LuaInv, Settled

(* Neither a script that fails nor a client's call changes what is shown,   *)
(* and channels and universes are of one cycle (lines 351-369).             *)
THEOREM WholeCyclesShow == LuaSpec => OnlyWholeCyclesShow
<1>1. LuaInv /\ [LuaNext]_luaVars =>
        [/\ stage = "ready" /\ outputs' # outputs => cycle = "get"
         /\ universes' # universes => cycle = "direct"
         /\ cycle = "direct" /\ cycle' = "idle" /\ ~called =>
              \A p \in DOMAIN outputs : outputs[p] = Received(p[2], outputs[p], Global(p[1]))]_luaVars
  BY CycleStep
<1> QED  BY <1>1, LuaStart, LuaStep, PTL DEF LuaSpec, OnlyWholeCyclesShow

-----------------------------------------------------------------------------
(* The colour chaser (filters/chaser).                                      *)

\* A layer that is built, and the values its state takes.
SoundLayer(l) ==
  /\ l.name \in DOMAIN Required
  /\ \A a \in 1 .. Required[l.name] : a > Coloured(l.name) => l.args[a] \in 0..Full \cup {Live}
LayerStates == [pos : Nat, rem : Int, on : BOOLEAN, seen : {0, N}, moves : Nat]

\* A pixel is mixed from something.
Row(p) == p = [i \in Pixels |-> p[i]] /\ \A i \in Pixels : p[i] # {}

LayersTyped ==
  /\ IsSequence(setup) /\ \A k \in DOMAIN setup : SoundLayer(setup[k])
  /\ layers = [k \in DOMAIN setup |-> layers[k]]
  /\ \A k \in DOMAIN setup : layers[k] \in LayerStates
  /\ mask \in Masks /\ Row(pixels)

ClockTyped ==
  /\ status \in {"absent", "refused", "running", "crashed"}
  /\ {by_events, activated, unsteady} \subseteq BOOLEAN
  /\ clock \in Nat /\ time_scale \in ChaserScales /\ level \in Levels
  /\ {steps, early, base, highest} \subseteq Nat
  /\ IF last_update = -1 THEN ~activated /\ highest = base
     ELSE last_update \in 0 .. highest /\ (unsteady \/ last_update = Scaled(clock, time_scale))

\* An event does not bring a layer out of its row; close_to_center and
\* open_from_center come back to it in the cycle.
Inside(l, s) ==
  /\ l.name \in Shifts => s.pos \in Pixels
  /\ l.name \in Johnsons => s.pos \in 0 .. s.seen
Resting(l, s) == l.name \in Centred => s.pos \in 0 .. Max({0, N \div 2 - 1})

\* A johnson counter knows its row after its first cycle, others never do.
SeenAlike ==
  \A j, k \in DOMAIN setup :
    /\ setup[k].name \notin Johnsons => layers[k].seen = 0
    /\ {setup[j].name, setup[k].name} \subseteq Johnsons => layers[j].seen = layers[k].seen

\* Where st events bring a layer, ea of them before its first cycle.
Follows(l, s, st, ea) ==
  LET n == st + N * ea
  IN CASE l.name \in Waves \cup {"dots"} -> s.pos = st
       [] l.name = "johnson__fwd" -> s.pos = n % (N + 1) /\ s.on = Even(n \div (N + 1))
       [] l.name = "johnson__rev" -> s.pos = (-n) % (N + 1) /\ s.on = Even((n + N) \div (N + 1))
       [] OTHER -> TRUE

Stepping == by_events => \A k \in DOMAIN setup :
  /\ Follows(setup[k], layers[k], steps, early)
  /\ setup[k].name \in Timed => layers[k].rem = 0

\* The pace: a layer that moved m times and has r left until it moves again.
\* What is left makes the bounds inductive.
Pace(time, m, r, lag, passed, ahead, once, first, steady) ==
  /\ r >= 0
  /\ m * (time + 1) <= time + ahead + once
  /\ IF first THEN m = 0 /\ r = 0 ELSE m * (time + 1) - r <= passed + once
  /\ steady => r <= time /\ passed <= m * (time + lag) + time - r

AtOnce(time) == IF activated THEN 0 ELSE time + 1
Paced(time, s) ==
  Pace(time, s.moves, s.rem, ChaserLag * time_scale, last_update - base, highest - base,
       AtOnce(time), last_update = -1, ~ unsteady)

UpdateTimeOf(l) == l.args[IF l.name = "dots" THEN 3 ELSE 1]
Pacing == ~ by_events => \A k \in DOMAIN setup :
  setup[k].name \in Timed /\ UpdateTimeOf(setup[k]) \notin {0, Live} => Paced(UpdateTimeOf(setup[k]), layers[k])

ChaserInv == /\ LayersTyped /\ ClockTyped /\ SeenAlike /\ Stepping /\ Pacing
             /\ \A k \in DOMAIN setup : Inside(setup[k], layers[k]) /\ Resting(setup[k], layers[k])

-----------------------------------------------------------------------------
(* One thing after the other.                                               *)

(* Induction up to a number.                                                *)
LEMMA UpToAll ==
  ASSUME NEW m \in Nat, NEW T, 0 \in T, \A k \in 1 .. m : k - 1 \in T => k \in T
  PROVE  \A k \in 0 .. m : k \in T
<1> DEFINE U == {k \in Nat : k <= m => k \in T}
<1>1. 0 \in U  OBVIOUS
<1>2. ASSUME NEW n \in Nat, n \in U PROVE n + 1 \in U
  <2>1. CASE n + 1 <= m
    <3>1. n + 1 \in 1 .. m /\ n + 1 - 1 = n /\ n \in T  BY <1>2, <2>1
    <3> QED  BY <3>1
  <2>2. CASE ~(n + 1 <= m)  BY <2>2
  <2> QED  BY <2>1, <2>2
<1> HIDE DEF U
<1>3. Nat \subseteq U  BY <1>1, <1>2, NaturalInduction
<1> QED  BY <1>3 DEF U

(* What is made in steps, each from the one before, exists.                 *)
Iterates(f, m, a, G) == f = [k \in 0 .. m |-> IF k = 0 THEN a ELSE G[<<k, f[k - 1]>>]]

LEMMA IterationExists ==
  ASSUME NEW m \in Nat, NEW S, NEW a \in S, NEW G \in [(1 .. m) \X S -> S]
  PROVE  \E f \in [0 .. m -> S] : Iterates(f, m, a, G)
<1> DEFINE Good(f, n) == f \in [0 .. n -> S] /\ f[0] = a /\ \A k \in 1 .. n : f[k] = G[<<k, f[k - 1]>>]
           T == {n \in 0 .. m : \E f : Good(f, n)}
<1>1. 0 \in T
  <2> DEFINE f == [k \in 0 .. 0 |-> a]
  <2>1. Good(f, 0)  OBVIOUS
  <2> HIDE DEF f
  <2> QED  BY <2>1
<1>2. ASSUME NEW n \in 1 .. m, n - 1 \in T PROVE n \in T
  <2>1. PICK f : Good(f, n - 1)  BY <1>2
  <2> DEFINE g == [k \in 0 .. n |-> IF k = n THEN G[<<n, f[n - 1]>>] ELSE f[k]]
  <2>2. f[n - 1] \in S /\ G[<<n, f[n - 1]>>] \in S
    <3>1. f[n - 1] \in S  BY <2>1
    <3>2. <<n, f[n - 1]>> \in (1 .. m) \X S  BY <3>1
    <3> QED  BY <3>1, <3>2
  <2>3. g \in [0 .. n -> S] /\ g[0] = a  BY <2>1, <2>2
  <2>4. ASSUME NEW k \in 1 .. n PROVE g[k] = G[<<k, g[k - 1]>>]
    <3>1. g[k - 1] = f[k - 1]  OBVIOUS
    <3>2. k # n => g[k] = f[k] /\ f[k] = G[<<k, f[k - 1]>>]  BY <2>1
    <3>3. k = n => g[k] = G[<<n, f[n - 1]>>]  OBVIOUS
    <3> HIDE DEF g
    <3> QED  BY <3>1, <3>2, <3>3
  <2> HIDE DEF g
  <2>5. Good(g, n)  BY <2>3, <2>4
  <2> QED  BY <2>5
<1> HIDE DEF T
<1>3. m \in T  BY <1>1, <1>2, UpToAll
<1>4. PICK f : Good(f, m)  BY <1>3 DEF T
<1>5. \A k \in 0 .. m : f[k] = IF k = 0 THEN a ELSE G[<<k, f[k - 1]>>]  BY <1>4
<1>6. f = [k \in 0 .. m |-> IF k = 0 THEN a ELSE G[<<k, f[k - 1]>>]]  BY <1>4, <1>5
<1> QED  BY <1>4, <1>6 DEF Iterates

(* Powers are numbers, of something they are something.                     *)
LEMMA PowerTyped ==
  ASSUME NEW b \in Nat, NEW n \in Nat
  PROVE  Power(b, n) \in Nat /\ (b > 0 => Power(b, n) > 0)
<1> DEFINE p == CHOOSE f : f = [k \in 0 .. n |-> IF k = 0 THEN 1 ELSE b * f[k - 1]]
           G == [x \in (1 .. n) \X Nat |-> b * x[2]]
<1>1. Power(b, n) = p[n]  BY DEF Power
<1>2. G \in [(1 .. n) \X Nat -> Nat]  OBVIOUS
<1>3. PICK f \in [0 .. n -> Nat] : Iterates(f, n, 1, G)
  <2> HIDE DEF G
  <2> QED  BY <1>2, IterationExists
<1>4. f = [k \in 0 .. n |-> IF k = 0 THEN 1 ELSE b * f[k - 1]]
  <2>1. \A k \in 0 .. n : f[k] = IF k = 0 THEN 1 ELSE b * f[k - 1]
    <3> TAKE k \in 0 .. n
    <3>1. f[k] = IF k = 0 THEN 1 ELSE G[<<k, f[k - 1]>>]  BY <1>3 DEF Iterates
    <3>2. k # 0 => <<k, f[k - 1]>> \in (1 .. n) \X Nat  BY <1>3
    <3> QED  BY <3>1, <3>2
  <2>2. f = [k \in 0 .. n |-> f[k]]  BY <1>3
  <2> QED  BY <2>1, <2>2
<1>5. p = [k \in 0 .. n |-> IF k = 0 THEN 1 ELSE b * p[k - 1]]  BY <1>4, Zenon
<1> HIDE DEF p
<1> DEFINE T == {k \in 0 .. n : p[k] \in Nat /\ (b > 0 => p[k] > 0)}
<1>6. 0 \in T  BY <1>5
<1>7. ASSUME NEW k \in 1 .. n, k - 1 \in T PROVE k \in T
  <2> DEFINE q == p[k - 1]
  <2>1. p[k] = b * q /\ q \in Nat /\ (b > 0 => q > 0)  BY <1>5, <1>7
  <2> HIDE DEF q
  <2>2. b * q \in Nat /\ (b > 0 => b * q > 0)  BY <2>1
  <2> QED  BY <2>1, <2>2
<1> HIDE DEF T
<1>8. \A k \in 0 .. n : k \in T  BY <1>6, <1>7, UpToAll
<1>9. n \in T  BY <1>8
<1> QED  BY <1>1, <1>9 DEF T

-----------------------------------------------------------------------------
(* What is built and what its arguments are.                                *)

LEMMA RequiredCounts ==
  /\ \A n \in DOMAIN Required : Required[n] \in Nat
  /\ \A n \in {"flat_mask", "mask_shift", "color_shift", "strobe", "gaussian_blur"} : n \in DOMAIN Required /\ Required[n] = 1
  /\ \A n \in Johnsons : n \in DOMAIN Required /\ Required[n] = 2
  /\ \A n \in Centred \cup {"maskmod__add", "maskmod__sub", "maskmod__mul", "maskmod__div", "gaussian_curve_on_mask"} :
       n \in DOMAIN Required /\ Required[n] = 3
  /\ \A n \in Waves \cup {"scale", "scale_inv"} : n \in DOMAIN Required /\ Required[n] = 4
  /\ \A n \in {"dots", "sprinkles"} : n \in DOMAIN Required /\ Required[n] = 5
BY DEF Required, Johnsons, Centred, Waves

(* The numbers of a layer are of 16 bits, those that are read from an input *)
(* too (cle_parameters.cpp).                                               *)
LEMMA ArgTyped ==
  ASSUME NEW l, SoundLayer(l), level \in Levels, l.name \notin {"plain_color", "rainbow", "colormix"}
  PROVE  \A a \in 1 .. Required[l.name] : Arg(l, a) \in 0 .. Full
<1>1. Coloured(l.name) = 0  BY DEF Coloured
<1>2. Levels \subseteq 0 .. Full  BY ChaserAssumption
<1> QED  BY <1>1, <1>2 DEF SoundLayer, Arg

(* A filter that was built has a state and arguments for every layer.       *)
LEMMA BuiltTyped ==
  ASSUME NEW cfg \in ChaserConfigs, Accepted(cfg)
  PROVE  IsSequence(Built(cfg)) /\ \A k \in DOMAIN Built(cfg) : SoundLayer(Built(cfg)[k])
<1> DEFINE m == Len(cfg)
           L == {cfg[k] : k \in DOMAIN cfg}
           Sound == {l \in L : SoundLayer(l)}
           Step(s, k) == IF cfg[k].name \in DOMAIN Required THEN Append(s, cfg[k]) ELSE s
           u == CHOOSE f : f = [k \in 0 .. Len(cfg) |->
                  IF k = 0 THEN <<>>
                  ELSE IF cfg[k].name \in DOMAIN Required THEN Append(f[k - 1], cfg[k]) ELSE f[k - 1]]
           G == [x \in (1 .. m) \X Seq(L) |-> Step(x[2], x[1])]
<1>0. m \in Nat /\ cfg = [k \in 1 .. m |-> cfg[k]]  BY ChaserAssumption DEF IsSequence
<1>1. Built(cfg) = u[m]  BY DEF Built
<1>2. \A k \in 1 .. m : cfg[k] \in L
  <2>1. DOMAIN cfg = 1 .. m  BY <1>0
  <2> QED  BY <2>1
<1>3. G \in [(1 .. m) \X Seq(L) -> Seq(L)]
  <2> SUFFICES ASSUME NEW k \in 1 .. m, NEW s \in Seq(L) PROVE Step(s, k) \in Seq(L)
    OBVIOUS
  <2>1. cfg[k] \in L  BY <1>2
  <2> HIDE DEF L
  <2> QED  BY <2>1
<1>4. PICK f \in [0 .. m -> Seq(L)] : Iterates(f, m, <<>>, G)
  <2>1. <<>> \in Seq(L)  OBVIOUS
  <2> HIDE DEF G
  <2> QED  BY <1>0, <1>3, <2>1, IterationExists
<1>5. f = [k \in 0 .. m |-> IF k = 0 THEN <<>> ELSE Step(f[k - 1], k)]
  <2>1. \A k \in 0 .. m : f[k] = IF k = 0 THEN <<>> ELSE Step(f[k - 1], k)
    <3> TAKE k \in 0 .. m
    <3>1. f[k] = IF k = 0 THEN <<>> ELSE G[<<k, f[k - 1]>>]  BY <1>4 DEF Iterates
    <3>2. k # 0 => <<k, f[k - 1]>> \in (1 .. m) \X Seq(L)  BY <1>0, <1>4
    <3>3. k # 0 => G[<<k, f[k - 1]>>] = Step(f[k - 1], k)  BY <3>2
    <3> HIDE DEF G
    <3> QED  BY <3>1, <3>3
  <2>2. f = [k \in 0 .. m |-> f[k]]  BY <1>4
  <2> QED  BY <2>1, <2>2
<1>6. u = [k \in 0 .. m |-> IF k = 0 THEN <<>> ELSE Step(u[k - 1], k)]
  <2>1. \E g : g = [k \in 0 .. Len(cfg) |->
                  IF k = 0 THEN <<>>
                  ELSE IF cfg[k].name \in DOMAIN Required THEN Append(g[k - 1], cfg[k]) ELSE g[k - 1]]
    BY <1>5
  <2> QED  BY <2>1, Zenon
<1> HIDE DEF u
<1>7. \A k \in 1 .. m : cfg[k].name \in DOMAIN Required => cfg[k] \in Sound
  <2> SUFFICES ASSUME NEW k \in 1 .. m, cfg[k].name \in DOMAIN Required PROVE SoundLayer(cfg[k])
    BY <1>2
  <2> DEFINE args == cfg[k].args
  <2>1. k \in DOMAIN cfg  BY <1>0
  <2>2. Len(args) \in Nat /\ DOMAIN args = 1 .. Len(args)
    BY <2>1, ChaserAssumption DEF IsSequence
  <2>3. \A a \in DOMAIN args : a > Coloured(cfg[k].name) => args[a] \in 0..Full \cup {Live}
    BY <2>1, ChaserAssumption
  <2>4. Len(args) >= Required[cfg[k].name]  BY <2>1 DEF Accepted
  <2>5. \A a \in 1 .. Required[cfg[k].name] : a \in DOMAIN args  BY <2>2, <2>4, RequiredCounts
  <2> QED  BY <2>3, <2>5 DEF SoundLayer
<1> DEFINE T == {k \in 0 .. m : u[k] \in Seq(Sound)}
<1>8. 0 \in T  BY <1>0, <1>6
<1>9. ASSUME NEW k \in 1 .. m, k - 1 \in T PROVE k \in T
  <2>a. u[k - 1] \in Seq(Sound)  BY <1>9
  <2>b. k \in 0 .. m /\ k # 0  BY <1>0
  <2> HIDE DEF Step
  <2>1. u[k] = Step(u[k - 1], k)  BY <1>6, <2>b
  <2> USE DEF Step
  <2>2. cfg[k].name \in DOMAIN Required => cfg[k] \in Sound  BY <1>7
  <2> HIDE DEF Sound
  <2> DEFINE v == u[k - 1]
  <2>3. CASE cfg[k].name \in DOMAIN Required
    <3>1. u[k] = Append(v, cfg[k]) /\ cfg[k] \in Sound  BY <2>1, <2>2, <2>3
    <3>2. v \in Seq(Sound)  BY <2>a
    <3> HIDE DEF v
    <3>3. Append(v, cfg[k]) \in Seq(Sound)  BY <3>1, <3>2
    <3> QED  BY <2>b, <3>1, <3>3
  <2>4. CASE cfg[k].name \notin DOMAIN Required
    <3>1. u[k] = v  BY <2>1, <2>4
    <3> QED  BY <2>a, <2>b, <3>1
  <2> QED  BY <2>3, <2>4
<1> HIDE DEF T
<1>10. \A k \in 0 .. m : k \in T  BY <1>0, <1>8, <1>9, UpToAll
<1>11. u[m] \in Seq(Sound)  BY <1>0, <1>10 DEF T
<1>12. \A v \in Seq(Sound) : IsSequence(v) /\ \A k \in DOMAIN v : v[k] \in Sound
  <2> TAKE v \in Seq(Sound)
  <2> HIDE DEF Sound
  <2> QED  BY DEF IsSequence
<1> QED  BY <1>1, <1>11, <1>12

-----------------------------------------------------------------------------
(* What layers draw.                                                        *)

LEMMA ChaserSizes == /\ N \in Nat \ {0} /\ Full \in Nat \ {0}
                     /\ Curves \subseteq Masks /\ Levels \subseteq 0 .. Full
  BY ChaserAssumption

LEMMA MaxOfTwo == \A a, b \in Int : Max({a, b}) = IF a > b THEN a ELSE b
<1> SUFFICES ASSUME NEW a \in Int, NEW b \in Int PROVE Max({a, b}) = IF a > b THEN a ELSE b
  OBVIOUS
<1> DEFINE m == IF a > b THEN a ELSE b
<1>1. m \in {a, b} /\ \A y \in {a, b} : m >= y  OBVIOUS
<1>2. \A x \in {a, b} : (\A y \in {a, b} : x >= y) => x = m  OBVIOUS
<1> HIDE DEF m
<1>3. (CHOOSE x \in {a, b} : \A y \in {a, b} : x >= y) = m  BY <1>1, <1>2
<1> QED  BY <1>3 DEF Max, m

LEMMA MinOfTwo == \A a, b \in Int : Min({a, b}) = IF a < b THEN a ELSE b
<1> SUFFICES ASSUME NEW a \in Int, NEW b \in Int PROVE Min({a, b}) = IF a < b THEN a ELSE b
  OBVIOUS
<1> DEFINE m == IF a < b THEN a ELSE b
<1>1. m \in {a, b} /\ \A y \in {a, b} : m <= y  OBVIOUS
<1>2. \A x \in {a, b} : (\A y \in {a, b} : x <= y) => x = m  OBVIOUS
<1> HIDE DEF m
<1>3. (CHOOSE x \in {a, b} : \A y \in {a, b} : x <= y) = m  BY <1>1, <1>2
<1> QED  BY <1>3 DEF Min, m

(* What is cut to a word is one, and so are the values masks are made of.   *)
LEMMA WordTyped == \A n \in Int : Word(n) \in 0 .. Full
  BY ChaserSizes DEF Word

LEMMA DecayTyped ==
  ASSUME NEW v \in 0 .. Full, NEW d \in 0 .. Full, NEW n \in Nat
  PROVE  Decayed(v, d, n) \in Int
<1> DEFINE p == Power(Full - d, n)  q == Power(Full, n)
<1>1. Full - d \in Nat /\ Full \in Nat /\ Full > 0  BY ChaserSizes
<1>2. p \in Nat /\ q \in Nat /\ q > 0
  <2>1. p \in Nat  BY <1>1, PowerTyped
  <2>2. q \in Nat /\ q > 0  BY <1>1, PowerTyped
  <2> QED  BY <2>1, <2>2
<1> HIDE DEF p, q
<1>3. v * p \in Nat  BY <1>2
<1> DEFINE r == v * p
<1>4. r \in Nat  BY <1>3
<1> HIDE DEF r
<1>5. r \div q \in Int  BY <1>2, <1>4
<1> QED  BY <1>5 DEF Decayed, p, q, r

LEMMA DistanceTyped == \A a, b \in Int : Distance(a, b) \in Nat /\ (a # b => Distance(a, b) > 0)
  BY DEF Distance

LEMMA FilledMask == \A m : (\A i \in Pixels : m[i] \in 0 .. Full) => [i \in Pixels |-> m[i]] \in Masks
  BY DEF Masks

LEMMA TruncatedTyped == \A a, b \in Int : b # 0 => Truncated(a, b) \in Int
<1> SUFFICES ASSUME NEW a \in Int, NEW b \in Int, b # 0 PROVE Truncated(a, b) \in Int
  OBVIOUS
<1> DEFINE x == Distance(a, 0)  y == Distance(b, 0)
<1>1. x \in Nat /\ y \in Nat /\ y > 0  BY DistanceTyped
<1> HIDE DEF x, y
<1> DEFINE size == x \div y
<1>2. size \in Int  BY <1>1
<1>3. Truncated(a, b) = IF (a < 0) = (b < 0) THEN size ELSE -size  BY DEF Truncated, x, y
<1> HIDE DEF size
<1> QED  BY <1>2, <1>3

LEMMA ScaleTyped ==
  ASSUME NEW l, l.name \in {"scale", "scale_inv"}, \A a \in 1 .. 4 : Arg(l, a) \in 0 .. Full
  PROVE  ScaleMask(l) \in Masks
<1> DEFINE first == Arg(l, 1)
           end == Arg(l, 2)
           before == IF l.name = "scale" THEN Arg(l, 4) ELSE Arg(l, 3)
           behind == IF l.name = "scale" THEN Arg(l, 3) ELSE Arg(l, 4)
           width == IF l.name = "scale" THEN end - first ELSE first - end
           slope == Truncated(behind - before, width)
           drawn(i) == IF i < first THEN before
                       ELSE IF i < end THEN Word(slope * (i - first) + before) ELSE behind
<1>1. ScaleMask(l) = [i \in Pixels |-> drawn(i)]  BY DEF ScaleMask
<1>2. first \in 0 .. Full /\ end \in 0 .. Full /\ before \in 0 .. Full /\ behind \in 0 .. Full
  BY ChaserSizes
<1>3. ASSUME NEW i \in Pixels PROVE drawn(i) \in 0 .. Full
  <2>1. i \in Int  BY ChaserSizes DEF Pixels
  <2>2. CASE ~(i < first) /\ i < end
    <3>1. width \in Int /\ width # 0  BY <1>2, <2>1, <2>2
    <3>2. behind - before \in Int  BY <1>2
    <3> HIDE DEF width, behind, before
    <3>3. slope \in Int  BY <3>1, <3>2, TruncatedTyped
    <3> HIDE DEF slope, first, end
    <3>4. slope * (i - first) + before \in Int  BY <1>2, <2>1, <3>3
    <3>5. drawn(i) = Word(slope * (i - first) + before)  BY <2>2
    <3> QED  BY <3>4, <3>5, WordTyped
  <2>3. CASE i < first \/ ~(i < end)
    <3> HIDE DEF first, end, before, behind, slope
    <3> QED  BY <1>2, <2>3
  <2> QED  BY <2>2, <2>3
<1> HIDE DEF drawn
<1> QED  BY <1>1, <1>3 DEF Masks

LEMMA ModTyped ==
  ASSUME NEW l, l.name \in {"maskmod__add", "maskmod__sub", "maskmod__mul", "maskmod__div"},
         \A a \in 1 .. 3 : Arg(l, a) \in 0 .. Full, ~Fails(l), NEW m \in Masks
  PROVE  ModMask(l, m) \in Masks
<1> DEFINE v == Arg(l, 1)
           changed(x) == CASE l.name = "maskmod__add" -> x + v
                           [] l.name = "maskmod__sub" -> x - v
                           [] l.name = "maskmod__mul" -> x * v
                           [] l.name = "maskmod__div" -> x \div v
           drawn(i) == IF i \in Affected(l) THEN Word(changed(m[i])) ELSE m[i]
<1>1. ModMask(l, m) = [i \in Pixels |-> drawn(i)]  BY DEF ModMask
<1>2. v \in 0 .. Full  BY ChaserSizes
<1>3. Affected(l) # {} /\ l.name = "maskmod__div" => v # 0  BY DEF Fails
<1> HIDE DEF v
<1>4. ASSUME NEW i \in Pixels PROVE drawn(i) \in 0 .. Full
  <2> DEFINE x == m[i]
  <2>1. x \in 0 .. Full  BY DEF Masks
  <2> HIDE DEF x
  <2>2. CASE i \in Affected(l)
    <3>1. l.name = "maskmod__div" => v > 0  BY <1>2, <1>3, <2>2, ChaserSizes
    <3>2. /\ x + v \in Int /\ x - v \in Int /\ x * v \in Int
      BY <1>2, <2>1, ChaserSizes
    <3>3. v > 0 => x \div v \in Int  BY <1>2, <2>1, ChaserSizes
    <3>4. changed(x) \in Int  BY <3>1, <3>2, <3>3
    <3> HIDE DEF changed
    <3> QED  BY <2>2, <3>4, WordTyped DEF x
  <2>3. CASE i \notin Affected(l)
    <3> HIDE DEF changed
    <3> QED  BY <2>1, <2>3 DEF x
  <2> QED  BY <2>2, <2>3
<1> HIDE DEF drawn
<1> QED  BY <1>1, <1>4 DEF Masks

(* Light that decays is added to what was there.                            *)
LEMMA LitTyped ==
  ASSUME NEW m \in Masks, NEW i \in Pixels, NEW n \in Int
  PROVE  Word(m[i] + n) \in 0 .. Full
<1>1. m[i] \in 0 .. Full  BY DEF Masks
<1>2. m[i] + n \in Int  BY <1>1, ChaserSizes
<1> QED  BY <1>2, WordTyped

LEMMA CentreTyped ==
  ASSUME NEW l, \A a \in 1 .. 3 : Arg(l, a) \in 0 .. Full, NEW s \in LayerStates, NEW m \in Masks
  PROVE  CentreMask(l, s, m) \in Masks
<1> DEFINE half == N \div 2
           lit(i) == IF l.name = "open_from_center"
                     THEN i \in (half - s.pos) .. (half + s.pos - 1)
                     ELSE IF i < half THEN i < s.pos ELSE i - half > s.pos
           drawn(i) == IF lit(i) THEN Word(m[i] + Decayed(Arg(l, 3), Arg(l, 2), Distance(s.pos, i)))
                       ELSE m[i]
<1>1. CentreMask(l, s, m) = [i \in Pixels |-> drawn(i)]  BY DEF CentreMask
<1>2. ASSUME NEW i \in Pixels PROVE drawn(i) \in 0 .. Full
  <2>1. i \in Int /\ s.pos \in Nat  BY ChaserSizes DEF Pixels, LayerStates
  <2>2. Distance(s.pos, i) \in Nat
    <3> DEFINE p == s.pos
    <3>1. p \in Int  BY <2>1
    <3> HIDE DEF p
    <3>2. Distance(p, i) \in Nat  BY <2>1, <3>1, DistanceTyped
    <3> QED  BY <3>2 DEF p
  <2>3. Decayed(Arg(l, 3), Arg(l, 2), Distance(s.pos, i)) \in Int  BY <2>2, DecayTyped
  <2>4. m[i] \in 0 .. Full  BY DEF Masks
  <2> HIDE DEF lit
  <2> QED  BY <2>3, <2>4, LitTyped
<1> HIDE DEF drawn
<1> QED  BY <1>1, <1>2 DEF Masks

LEMMA SegWaveTyped ==
  ASSUME NEW l, l.name = "segwave__fwd", \A a \in 1 .. 4 : Arg(l, a) \in 0 .. Full, ~Fails(l),
         NEW s \in LayerStates, NEW m \in Masks
  PROVE  SegWaveMask(l, s, m) \in Masks
<1> DEFINE length == N \div AtLeastOne(Arg(l, 3))
           distance(i) == (s.pos % length) - (i % length)
           light(i) == IF distance(i) > 0 THEN Decayed(Arg(l, 4), Arg(l, 2), distance(i))
                       ELSE IF distance(i) < 0 /\ Arg(l, 2) = 0 THEN Arg(l, 4) ELSE 0
           drawn(i) == Word(m[i] + light(i))
<1>1. SegWaveMask(l, s, m) = [i \in Pixels |-> drawn(i)]  BY DEF SegWaveMask
<1>2. length \in Nat /\ length > 0
  <2> DEFINE n == AtLeastOne(Arg(l, 3))
  <2>1. Arg(l, 3) \in 0 .. Full /\ ~(Arg(l, 3) > N)  BY DEF Fails
  <2>2. n = IF Arg(l, 3) > 1 THEN Arg(l, 3) ELSE 1
    BY <2>1, MaxOfTwo, ChaserSizes DEF AtLeastOne
  <2>3. n \in 1 .. N  BY <2>1, <2>2, ChaserSizes
  <2> HIDE DEF n
  <2>4. N \div n \in Nat /\ N \div n > 0  BY <2>3, ChaserSizes
  <2> QED  BY <2>4 DEF n
<1> HIDE DEF length
<1>3. ASSUME NEW i \in Pixels PROVE drawn(i) \in 0 .. Full
  <2>1. i \in Nat /\ s.pos \in Nat  BY ChaserSizes DEF Pixels, LayerStates
  <2>2. distance(i) \in Int  BY <1>2, <2>1
  <2> HIDE DEF distance
  <2>3. distance(i) > 0 => Decayed(Arg(l, 4), Arg(l, 2), distance(i)) \in Int  BY <2>2, DecayTyped
  <2>4. light(i) \in Int  BY <2>3, ChaserSizes
  <2> HIDE DEF light
  <2> QED  BY <2>4, LitTyped
<1> HIDE DEF drawn
<1> QED  BY <1>1, <1>3 DEF Masks

LEMMA WaveTyped ==
  ASSUME NEW l, l.name \in {"wave__fwd", "wave__rev"}, \A a \in 1 .. 4 : Arg(l, a) \in 0 .. Full, ~Fails(l),
         NEW s \in LayerStates, NEW m \in Masks
  PROVE  WaveMask(l, s, m) \in Masks
<1> DEFINE length == N \div Arg(l, 3)
           behind(i) == (length - ((i + s.pos) % length)) % length
           drawn(i) == IF i = 0 THEN m[i] ELSE Word(m[i] + Decayed(Arg(l, 4), Arg(l, 2), behind(i)))
<1>1. CASE l.name = "wave__rev"  BY <1>1 DEF WaveMask
<1>2. CASE l.name = "wave__fwd"
  <2>1. WaveMask(l, s, m) = [i \in Pixels |-> drawn(i)]  BY <1>2 DEF WaveMask
  <2>2. length \in Nat /\ length > 0
    <3> DEFINE n == Arg(l, 3)
    <3>1. n \in 1 .. N  BY <1>2 DEF Fails
    <3> HIDE DEF n
    <3>2. N \div n \in Nat /\ N \div n > 0  BY <3>1, ChaserSizes
    <3> QED  BY <3>2 DEF n
  <2> HIDE DEF length
  <2>3. ASSUME NEW i \in Pixels PROVE drawn(i) \in 0 .. Full
    <3>1. i + s.pos \in Nat  BY ChaserSizes DEF Pixels, LayerStates
    <3>2. behind(i) \in Nat
      <4> DEFINE n == i + s.pos  r == n % length
      <4>1. n \in Nat  BY <3>1
      <4> HIDE DEF n
      <4>2. r \in Nat  BY <2>2, <4>1
      <4> HIDE DEF r
      <4>3. (length - r) % length \in Nat  BY <2>2, <4>2
      <4> QED  BY <4>3 DEF r, n
    <3> HIDE DEF behind
    <3>3. Decayed(Arg(l, 4), Arg(l, 2), behind(i)) \in Int  BY <3>2, DecayTyped
    <3>4. m[i] \in 0 .. Full  BY DEF Masks
    <3> QED  BY <3>3, <3>4, LitTyped
  <2> HIDE DEF drawn
  <2> QED  BY <2>1, <2>3 DEF Masks
<1> QED  BY <1>1, <1>2

(* A row that is turned is the same row.                                    *)
LEMMA TurnedWithin == \A i \in Pixels, p \in Nat : (i + p) % N \in Pixels
<1> SUFFICES ASSUME NEW i \in Pixels, NEW p \in Nat PROVE (i + p) % N \in Pixels
  OBVIOUS
<1> DEFINE n == i + p
<1>1. n \in Nat  BY ChaserSizes DEF Pixels
<1> HIDE DEF n
<1>2. n % N \in 0 .. N - 1  BY <1>1, ChaserSizes
<1> QED  BY <1>2 DEF Pixels, n

(* What a layer draws is a mask.                                            *)
LEMMA PlainMasksTyped ==
  ASSUME NEW l, NEW s \in LayerStates, NEW m \in Masks
  PROVE  /\ Arg(l, 1) \in 0 .. Full => FlatMask(l) \in Masks
         /\ ShiftedMask(s, m) \in Masks /\ InvertedMask(m) \in Masks /\ StrobeMask(s, m) \in Masks
         /\ Arg(l, 2) \in 0 .. Full => JohnsonMask(l, s) \in Masks
         /\ {Arg(l, 4), Arg(l, 5)} \subseteq 0 .. Full => DotsMask(l, s) \in Masks
<1>0. 0 \in 0 .. Full /\ \A i \in Pixels : m[i] \in 0 .. Full  BY ChaserSizes DEF Masks
<1>1. Arg(l, 1) \in 0 .. Full => FlatMask(l) \in Masks  BY DEF FlatMask, Masks
<1>2. ShiftedMask(s, m) \in Masks
  <2>1. \A i \in Pixels : (i + s.pos) % N \in Pixels  BY TurnedWithin DEF LayerStates
  <2>2. \A i \in Pixels : m[(i + s.pos) % N] \in 0 .. Full  BY <1>0, <2>1
  <2> QED  BY <2>2 DEF ShiftedMask, Masks
<1>3. InvertedMask(m) \in Masks
  <2>1. \A i \in Pixels : Full - m[i] \in 0 .. Full  BY <1>0, ChaserSizes
  <2> QED  BY <2>1 DEF InvertedMask, Masks
<1>4. StrobeMask(s, m) \in Masks  BY <1>0 DEF StrobeMask, Masks
<1>5. Arg(l, 2) \in 0 .. Full => JohnsonMask(l, s) \in Masks
  <2> DEFINE lit(i) == (i <= s.pos) = s.on
  <2>1. JohnsonMask(l, s) = [i \in Pixels |-> IF lit(i) THEN Arg(l, 2) ELSE 0]  BY DEF JohnsonMask
  <2> HIDE DEF lit
  <2> QED  BY <1>0, <2>1 DEF Masks
<1>6. {Arg(l, 4), Arg(l, 5)} \subseteq 0 .. Full => DotsMask(l, s) \in Masks
  <2> DEFINE segment == N \div AtLeastOne(Arg(l, 1))
             lit(i) == Arg(l, 2) > segment \/ (i + s.pos) % segment < segment - Arg(l, 2)
  <2>1. DotsMask(l, s) = [i \in Pixels |-> IF lit(i) THEN Arg(l, 5) ELSE Arg(l, 4)]  BY DEF DotsMask
  <2> HIDE DEF lit
  <2> QED  BY <2>1 DEF Masks
<1> QED  BY <1>1, <1>2, <1>3, <1>4, <1>5, <1>6

LEMMA SprinkledTyped ==
  ASSUME NEW l, Arg(l, 4) \in 0 .. Full, Arg(l, 5) \in 0 .. Full, NEW x \in SprinkleMasks(l)
  PROVE  x \in Masks
<1> DEFINE half == Arg(l, 2) \div 2
           places == half .. (half + N - Arg(l, 2) - 1)
           lit(P) == UNION {(p - half) .. (p + half - 1) : p \in P}
           Sown == {Q \in SUBSET places : Cardinality(Q) <= Arg(l, 1) /\ (Q = {} => Arg(l, 1) = 0)}
           drawn(P) == [i \in Pixels |-> IF i \in lit(P) THEN Arg(l, 5) ELSE Arg(l, 4)]
<1>1. SprinkleMasks(l) = {drawn(P) : P \in Sown}  BY DEF SprinkleMasks
<1> HIDE DEF lit, Sown
<1>2. \A P : drawn(P) \in Masks  BY DEF Masks
<1> HIDE DEF drawn
<1> QED  BY <1>1, <1>2

LEMMA BellTyped ==
  ASSUME NEW l, NEW m \in Masks, NEW x \in BellMasks(l, m)
  PROVE  x \in Masks
<1>1. CASE Arg(l, 2) = 0  BY <1>1, ChaserSizes DEF BellMasks
<1>2. CASE Arg(l, 2) # 0
  <2> DEFINE drawn(c) == [i \in Pixels |-> Min({Full, m[i] + c[i]})]
  <2>1. PICK c \in Curves : x = drawn(c)  BY <1>2 DEF BellMasks
  <2>2. c \in Masks  BY ChaserSizes
  <2>3. ASSUME NEW i \in Pixels PROVE Min({Full, m[i] + c[i]}) \in 0 .. Full
    <3> DEFINE n == m[i] + c[i]
    <3>1. m[i] \in 0 .. Full /\ c[i] \in 0 .. Full  BY <2>2 DEF Masks
    <3>2. n \in Nat  BY <3>1, ChaserSizes
    <3> HIDE DEF n
    <3>3. Min({Full, n}) = IF Full < n THEN Full ELSE n  BY <3>2, ChaserSizes, MinOfTwo
    <3>4. Min({Full, n}) \in 0 .. Full  BY <3>2, <3>3, ChaserSizes
    <3> QED  BY <3>4 DEF n
  <2> QED  BY <2>1, <2>3 DEF Masks
<1> QED  BY <1>1, <1>2

(* Every layer leaves a mask of 16 bits (color_layer.cpp).                  *)
LEMMA MaskKept ==
  ASSUME NEW l, SoundLayer(l), level \in Levels, ~Fails(l), NEW s \in LayerStates, NEW m \in Masks,
         NEW x \in MasksOf(l, s, m)
  PROVE  x \in Masks
<1> DEFINE n == l.name
           Mods == {"maskmod__add", "maskmod__sub", "maskmod__mul", "maskmod__div"}
           Drawn == {"flat_mask", "mask_shift", "invert_mask", "strobe", "scale", "scale_inv", "dots",
                     "segwave__fwd", "wave__fwd", "wave__rev", "sprinkles", "trig__sin", "trig__cos",
                     "trig__tan", "gaussian_curve_on_mask"} \cup Mods \cup Johnsons \cup Centred
<1>1. n \in Drawn => n \notin {"plain_color", "rainbow", "colormix"}
  BY DEF Johnsons, Centred
<1>2. n \in Drawn => \A a \in 1 .. Required[n] : Arg(l, a) \in 0 .. Full
  <2> HIDE DEF Drawn
  <2> QED  BY <1>1, ArgTyped
<1>3. CASE n = "flat_mask"
  <2>0. MasksOf(l, s, m) = {FlatMask(l)}  BY <1>3 DEF MasksOf, Johnsons, Centred
  <2>1. x = FlatMask(l)  BY <2>0
  <2>2. Required[n] = 1  BY <1>3, RequiredCounts
  <2>3. Arg(l, 1) \in 0 .. Full  BY <1>2, <1>3, <2>2
  <2> QED  BY <2>1, <2>3, PlainMasksTyped
<1>4. CASE n \in Mods
  <2>0. MasksOf(l, s, m) = {ModMask(l, m)}  BY <1>4 DEF MasksOf, Johnsons, Centred
  <2>1. x = ModMask(l, m)  BY <2>0
  <2>2. Required[n] = 3  BY <1>4, RequiredCounts
  <2>3. \A a \in 1 .. 3 : Arg(l, a) \in 0 .. Full  BY <1>2, <1>4, <2>2
  <2> QED  BY <1>4, <2>1, <2>3, ModTyped
<1>5. CASE n = "mask_shift"
  <2>0. MasksOf(l, s, m) = {ShiftedMask(s, m)}  BY <1>5 DEF MasksOf, Johnsons, Centred
  <2>1. x = ShiftedMask(s, m)  BY <2>0
  <2> QED  BY <2>1, PlainMasksTyped
<1>6. CASE n = "invert_mask"
  <2>0. MasksOf(l, s, m) = {InvertedMask(m)}  BY <1>6 DEF MasksOf, Johnsons, Centred
  <2>1. x = InvertedMask(m)  BY <2>0
  <2> QED  BY <2>1, PlainMasksTyped
<1>7. CASE n = "strobe"
  <2>0. MasksOf(l, s, m) = {StrobeMask(s, m)}  BY <1>7 DEF MasksOf, Johnsons, Centred
  <2>1. x = StrobeMask(s, m)  BY <2>0
  <2> QED  BY <2>1, PlainMasksTyped
<1>8. CASE n \in {"scale", "scale_inv"}
  <2>0. MasksOf(l, s, m) = {ScaleMask(l)}  BY <1>8 DEF MasksOf, Johnsons, Centred
  <2>1. x = ScaleMask(l)  BY <2>0
  <2>2. Required[n] = 4  BY <1>8, RequiredCounts
  <2>3. \A a \in 1 .. 4 : Arg(l, a) \in 0 .. Full  BY <1>2, <1>8, <2>2
  <2> QED  BY <1>8, <2>1, <2>3, ScaleTyped
<1>9. CASE n \in Johnsons
  <2>0. MasksOf(l, s, m) = {JohnsonMask(l, s)}  BY <1>9 DEF MasksOf, Johnsons, Centred
  <2>1. x = JohnsonMask(l, s)  BY <2>0
  <2>2. Required[n] = 2  BY <1>9, RequiredCounts
  <2>3. Arg(l, 2) \in 0 .. Full  BY <1>2, <1>9, <2>2
  <2> QED  BY <2>1, <2>3, PlainMasksTyped
<1>10. CASE n = "dots"
  <2>0. MasksOf(l, s, m) = {DotsMask(l, s)}  BY <1>10 DEF MasksOf, Johnsons, Centred
  <2>1. x = DotsMask(l, s)  BY <2>0
  <2>2. Required[n] = 5  BY <1>10, RequiredCounts
  <2>3. Arg(l, 4) \in 0 .. Full /\ Arg(l, 5) \in 0 .. Full  BY <1>2, <1>10, <2>2
  <2> QED  BY <2>1, <2>3, PlainMasksTyped
<1>11. CASE n \in Centred
  <2>0. MasksOf(l, s, m) = {CentreMask(l, s, m)}  BY <1>11 DEF MasksOf, Johnsons, Centred
  <2>1. x = CentreMask(l, s, m)  BY <2>0
  <2>2. Required[n] = 3  BY <1>11, RequiredCounts
  <2>3. \A a \in 1 .. 3 : Arg(l, a) \in 0 .. Full  BY <1>2, <1>11, <2>2
  <2> QED  BY <2>1, <2>3, CentreTyped
<1>12. CASE n = "segwave__fwd"
  <2>0. MasksOf(l, s, m) = {SegWaveMask(l, s, m)}  BY <1>12 DEF MasksOf, Johnsons, Centred
  <2>1. x = SegWaveMask(l, s, m)  BY <2>0
  <2>2. Required[n] = 4  BY <1>12, RequiredCounts DEF Waves
  <2>3. \A a \in 1 .. 4 : Arg(l, a) \in 0 .. Full  BY <1>2, <1>12, <2>2
  <2> QED  BY <1>12, <2>1, <2>3, SegWaveTyped
<1>13. CASE n \in {"wave__fwd", "wave__rev"}
  <2>0. MasksOf(l, s, m) = {WaveMask(l, s, m)}  BY <1>13 DEF MasksOf, Johnsons, Centred
  <2>1. x = WaveMask(l, s, m)  BY <2>0
  <2>2. Required[n] = 4  BY <1>13, RequiredCounts DEF Waves
  <2>3. \A a \in 1 .. 4 : Arg(l, a) \in 0 .. Full  BY <1>2, <1>13, <2>2
  <2> QED  BY <1>13, <2>1, <2>3, WaveTyped
<1>14. CASE n = "sprinkles"
  <2>1. x \in SprinkleMasks(l)  BY <1>14 DEF MasksOf, Johnsons, Centred
  <2>2. Required[n] = 5  BY <1>14, RequiredCounts
  <2>3. Arg(l, 4) \in 0 .. Full /\ Arg(l, 5) \in 0 .. Full  BY <1>2, <1>14, <2>2
  <2> QED  BY <2>1, <2>3, SprinkledTyped
<1>15. CASE n \in {"trig__sin", "trig__cos", "trig__tan"}
  <2>1. x \in TrigMasks  BY <1>15 DEF MasksOf, Johnsons, Centred
  <2> QED  BY <2>1, ChaserSizes DEF TrigMasks
<1>16. CASE n = "gaussian_curve_on_mask"
  <2>1. x \in BellMasks(l, m)  BY <1>16 DEF MasksOf, Johnsons, Centred
  <2> QED  BY <2>1, BellTyped
<1>17. CASE n \notin Drawn
  <2>1. x = m  BY <1>17 DEF MasksOf, Johnsons, Centred
  <2> QED  BY <2>1
<1> QED
  BY <1>3, <1>4, <1>5, <1>6, <1>7, <1>8, <1>9, <1>10, <1>11, <1>12, <1>13, <1>14, <1>15, <1>16, <1>17

-----------------------------------------------------------------------------
(* What layers mix.                                                         *)

LEMMA MixedNonEmpty == \A p, c, m : p # {} /\ c # {} => Mixed(p, c, m) # {}
  BY DEF Mixed

LEMMA BlurredNonEmpty ==
  ASSUME NEW l, Arg(l, 1) \in 0 .. Full, NEW p, \A i \in Pixels : p[i] # {}, NEW i \in Pixels
  PROVE  Blurred(l, p, i) # {}
<1> DEFINE half == N \div 2
           radius == Min({Arg(l, 1), half})
           read(k) == IF k < 0 \/ k >= N THEN N - 1 ELSE k
<1>1. half \in Nat  BY ChaserSizes
<1> HIDE DEF half
<1>2. radius \in Nat
  <2>1. Arg(l, 1) \in Nat  BY ChaserSizes
  <2> QED  BY <1>1, <2>1, MinOfTwo
<1> HIDE DEF radius
<1>3. Blurred(l, p, i) = IF radius = 0 THEN p[i]
                         ELSE UNION {p[read(k)] : k \in (i - radius) .. (i + radius)}
  BY DEF Blurred, radius, half
<1>4. i \in (i - radius) .. (i + radius) /\ read(i) = i  BY <1>2, ChaserSizes DEF Pixels
<1> HIDE DEF read
<1>5. p[i] \in {p[read(k)] : k \in (i - radius) .. (i + radius)}  BY <1>4
<1>6. p[i] # {}  OBVIOUS
<1> QED  BY <1>3, <1>5, <1>6

(* Every pixel keeps a colour, whatever is mixed.                           *)
LEMMA RowKept ==
  ASSUME NEW l, SoundLayer(l), level \in Levels, NEW s \in LayerStates, NEW m,
         NEW p, Row(p)
  PROVE  Row(PixelsOf(l, s, m, p))
<1> DEFINE pixel(i) ==
             CASE l.name = "plain_color" -> Mixed(p[i], Plain(l), m[i])
               [] l.name = "colormix" -> Mixed(p[i], Mix(l), m[i])
               [] l.name = "random_color" -> Mixed(p[i], Random, m[i])
               [] l.name = "rainbow" -> Mixed(p[i], Rainbow(l, i), Full - m[i])
               [] l.name = "invert_color" -> Mixed(p[i], Inverted(p[i]), m[i])
               [] l.name = "color_shift" -> Mixed(p[i], ShiftedColour(s, p, i), m[i])
               [] l.name = "gaussian_blur" -> Mixed(p[i], Blurred(l, p, i), m[i])
               [] OTHER -> p[i]
<1>1. PixelsOf(l, s, m, p) = [i \in Pixels |-> pixel(i)]  BY DEF PixelsOf
<1>0. \A i \in Pixels : p[i] # {}  BY DEF Row
<1>2. ASSUME NEW i \in Pixels PROVE pixel(i) # {}
  <2>1. p[i] # {}  BY <1>0
  <2>2. Plain(l) # {} /\ Mix(l) # {} /\ Random # {}  BY DEF Plain, Mix, Random
  <2>3. Rainbow(l, i) # {}
    <3> DEFINE length == AtLeastOne(N \div AtLeastOne(Arg(l, 3)))
               colour == i % length
    <3>1. Rainbow(l, i) = IF colour = 0 THEN {l.args[2]}
                          ELSE IF colour = length - 1 THEN {l.args[1]} ELSE {l.args[1], l.args[2]}
      BY DEF Rainbow
    <3> HIDE DEF length, colour
    <3> QED  BY <3>1
  <2>4. Inverted(p[i]) # {}  BY <2>1 DEF Inverted
  <2>5. ShiftedColour(s, p, i) # {}
    <3>1. (i + s.pos) % N \in Pixels  BY TurnedWithin DEF LayerStates
    <3> QED  BY <1>0, <3>1 DEF ShiftedColour
  <2>6. l.name = "gaussian_blur" => Blurred(l, p, i) # {}
    <3> SUFFICES ASSUME l.name = "gaussian_blur" PROVE Blurred(l, p, i) # {}
      OBVIOUS
    <3>1. Required[l.name] = 1  BY RequiredCounts
    <3>2. Arg(l, 1) \in 0 .. Full  BY <3>1, ArgTyped
    <3> QED  BY <1>0, <3>2, BlurredNonEmpty
  <2> QED  BY <2>1, <2>2, <2>3, <2>4, <2>5, <2>6, MixedNonEmpty
<1> HIDE DEF pixel
<1> QED  BY <1>1, <1>2 DEF Row

(* All the layers together draw a mask and a row of pixels.                 *)
LEMMA ExecuteTyped ==
  ASSUME LayersTyped, level \in Levels, \A k \in DOMAIN setup : ~Fails(setup[k]),
         NEW states, \A k \in DOMAIN setup : states[k] \in LayerStates, NEW x \in Execute(states)
  PROVE  x.mask \in Masks /\ Row(x.pixels)
<1> DEFINE m == Len(setup)
           blank == {[mask |-> [i \in Pixels |-> Full], pixels |-> [i \in Pixels |-> White]]}
           next(R, k) == UNION {Applied(setup[k], states[k], r) : r \in R}
           Good(f, n) == /\ f = [k \in 0 .. n |-> f[k]] /\ f[0] = blank
                         /\ \A k \in 1 .. n : f[k] = next(f[k - 1], k)
           u == CHOOSE f : f = [k \in 0 .. Len(setup) |->
                  IF k = 0 THEN {[mask |-> [i \in Pixels |-> Full], pixels |-> [i \in Pixels |-> White]]}
                  ELSE UNION {Applied(setup[k], states[k], r) : r \in f[k - 1]}]
           Entire(r) == r.mask \in Masks /\ Row(r.pixels)
<1>0. m \in Nat /\ DOMAIN setup = 1 .. m  BY DEF LayersTyped, IsSequence
<1>1. Execute(states) = u[m]  BY DEF Execute
<1>2. \E f : Good(f, m)
  <2> DEFINE T == {n \in 0 .. m : \E f : Good(f, n)}
  <2> HIDE DEF next, blank
  <2>1. 0 \in T
    <3> DEFINE f == [k \in 0 .. 0 |-> blank]
    <3>1. Good(f, 0)  OBVIOUS
    <3> HIDE DEF f, Good
    <3> QED  BY <1>0, <3>1
  <2>2. ASSUME NEW n \in 1 .. m, n - 1 \in T PROVE n \in T
    <3>1. PICK f : Good(f, n - 1)  BY <2>2
    <3> DEFINE g == [k \in 0 .. n |-> IF k = n THEN next(f[n - 1], n) ELSE f[k]]
    <3>2. g = [k \in 0 .. n |-> g[k]] /\ g[0] = blank  BY <3>1
    <3>3. ASSUME NEW k \in 1 .. n PROVE g[k] = next(g[k - 1], k)
      <4>1. g[k - 1] = f[k - 1]  OBVIOUS
      <4>2. k # n => g[k] = f[k] /\ f[k] = next(f[k - 1], k)  BY <3>1
      <4>3. k = n => g[k] = next(f[n - 1], n)  OBVIOUS
      <4> HIDE DEF g
      <4> QED  BY <4>1, <4>2, <4>3
    <3> HIDE DEF g
    <3>4. Good(g, n)  BY <3>2, <3>3
    <3> HIDE DEF Good
    <3> QED  BY <1>0, <3>4
  <2> HIDE DEF T
  <2>3. \A k \in 0 .. m : k \in T  BY <1>0, <2>1, <2>2, UpToAll
  <2>4. m \in T  BY <1>0, <2>3
  <2> QED  BY <2>4 DEF T
<1>3. u = [k \in 0 .. m |-> IF k = 0 THEN blank ELSE next(u[k - 1], k)]
  <2>1. PICK f : Good(f, m)  BY <1>2
  <2>2. f = [k \in 0 .. m |-> IF k = 0 THEN blank ELSE next(f[k - 1], k)]
    <3> HIDE DEF next, blank
    <3>1. f[0] = blank /\ \A k \in 1 .. m : f[k] = next(f[k - 1], k)  BY <2>1
    <3>2. \A k \in 0 .. m : f[k] = IF k = 0 THEN blank ELSE next(f[k - 1], k)
      <4> TAKE k \in 0 .. m
      <4>1. CASE k = 0  BY <3>1, <4>1
      <4>2. CASE k # 0
        <5>1. k \in 1 .. m  BY <1>0, <4>2
        <5> QED  BY <3>1, <4>2, <5>1
      <4> QED  BY <4>1, <4>2
    <3>3. f = [k \in 0 .. m |-> f[k]]  BY <2>1
    <3> QED  BY <3>2, <3>3
  <2>3. \E f_1 : f_1 = [k \in 0 .. Len(setup) |->
                  IF k = 0 THEN {[mask |-> [i \in Pixels |-> Full], pixels |-> [i \in Pixels |-> White]]}
                  ELSE UNION {Applied(setup[k], states[k], r) : r \in f_1[k - 1]}]
    BY <2>2, Zenon
  <2> QED  BY <2>3, Zenon
<1> HIDE DEF u
<1> DEFINE T == {k \in 0 .. m : \A r \in u[k] : Entire(r)}
<1>4. 0 \in T
  <2>1. u[0] = blank  BY <1>0, <1>3
  <2>2. [i \in Pixels |-> Full] \in Masks  BY ChaserSizes DEF Masks
  <2>3. ASSUME NEW r \in blank PROVE Entire(r)  BY <2>2 DEF White, Row
  <2> HIDE DEF blank, Entire
  <2> QED  BY <1>0, <2>1, <2>3
<1>5. ASSUME NEW k \in 1 .. m, k - 1 \in T PROVE k \in T
  <2>1. u[k] = next(u[k - 1], k)
    <3> HIDE DEF next, blank
    <3> QED  BY <1>0, <1>3
  <2>2. SoundLayer(setup[k]) /\ ~Fails(setup[k]) /\ states[k] \in LayerStates
    BY <1>0 DEF LayersTyped
  <2>3. ASSUME NEW r \in u[k - 1], NEW y \in Applied(setup[k], states[k], r) PROVE Entire(y)
    <3>1. Entire(r)  BY <1>5
    <3>2. PICK z \in MasksOf(setup[k], states[k], r.mask) :
            y = [mask |-> z, pixels |-> PixelsOf(setup[k], states[k], r.mask, r.pixels)]
      BY DEF Applied
    <3>3. z \in Masks  BY <2>2, <3>1, MaskKept
    <3>4. Row(PixelsOf(setup[k], states[k], r.mask, r.pixels))  BY <2>2, <3>1, RowKept
    <3> QED  BY <3>2, <3>3, <3>4
  <2> HIDE DEF Entire
  <2>4. \A y \in u[k] : Entire(y)
    <3>1. ASSUME NEW y \in u[k] PROVE Entire(y)
      <4>1. PICK r \in u[k - 1] : y \in Applied(setup[k], states[k], r)  BY <2>1
      <4> QED  BY <2>3, <4>1
    <3> QED  BY <3>1
  <2> QED  BY <1>0, <2>4
<1> HIDE DEF T
<1>6. \A k \in 0 .. m : k \in T  BY <1>0, <1>4, <1>5, UpToAll
<1>7. m \in T  BY <1>0, <1>6
<1>8. Entire(x)
  <2> HIDE DEF Entire
  <2> QED  BY <1>1, <1>7 DEF T
<1> QED  BY <1>8

-----------------------------------------------------------------------------
(* Events.                                                                  *)

(* There is one way to divide.                                              *)
Parted(n, d, q, r) == n = q * d + r
Divided(n, d, q, r) == n \div d = q /\ n % d = r

LEMMA DivisionUnique ==
  ASSUME NEW d \in Nat \ {0}, NEW n \in Int, NEW q \in Int, NEW r \in 0 .. d - 1, Parted(n, d, q, r)
  PROVE  Divided(n, d, q, r)
<1> USE DEF Parted, Divided
<1> DEFINE a == n \div d  b == n % d  c == a - q
<1>1. a \in Int /\ b \in 0 .. d - 1 /\ n = a * d + b  OBVIOUS
<1> HIDE DEF a, b
<1>2. c \in Int /\ c * d = r - b  BY <1>1
<1> HIDE DEF c
<1>3. c = 0
  <2>1. CASE c >= 1
    <3>1. c * d >= d  BY <1>2, <2>1
    <3> QED  BY <1>1, <1>2, <3>1
  <2>2. CASE c <= -1
    <3>1. c * d <= -d  BY <1>2, <2>2
    <3> QED  BY <1>1, <1>2, <3>1
  <2> QED  BY <1>2, <2>1, <2>2
<1>4. a = q  BY <1>1, <1>3 DEF c
<1>5. b = r  BY <1>1, <1>2, <1>3
<1> QED  BY <1>4, <1>5 DEF a, b

(* A johnson counter after n steps, forwards and backwards: q passes and    *)
(* where it stands in the next.                                             *)
Passed(s, n) == \E q \in Int : n = q * (N + 1) + s.pos /\ s.on = Even(q)
Returned(s, n) == \E q \in Int : n = q * (N + 1) - s.pos /\ s.on = Even(q)

LEMMA PassesCounted ==
  ASSUME NEW s, s.pos \in 0 .. N, NEW n \in Nat
  PROVE  /\ Passed(s, n) <=> s.pos = n % (N + 1) /\ s.on = Even(n \div (N + 1))
         /\ Returned(s, n) <=> s.pos = (-n) % (N + 1) /\ s.on = Even((n + N) \div (N + 1))
<1> DEFINE d == N + 1  p == s.pos
<1>0. d \in Nat \ {0} /\ d - 1 = N /\ p \in 0 .. d - 1  BY ChaserSizes
<1> HIDE DEF d, p
<1>1. Passed(s, n) <=> p = n % d /\ s.on = Even(n \div d)
  <2>1. ASSUME NEW q \in Int, n = q * d + p PROVE n \div d = q /\ n % d = p
    <3>1. Parted(n, d, q, p)  BY <2>1 DEF Parted
    <3>2. n \in Int /\ q \in Int  OBVIOUS
    <3>3. Divided(n, d, q, p)  BY <1>0, <3>1, <3>2, DivisionUnique
    <3> QED  BY <3>3 DEF Divided
  <2>2. n \div d \in Int /\ n = (n \div d) * d + (n % d)  BY <1>0
  <2> DEFINE a == n \div d  b == n % d
  <2>3. a \in Int /\ n = a * d + b  BY <2>2
  <2>4. \A q \in Int : n = q * d + p => a = q /\ b = p  BY <2>1
  <2> HIDE DEF a, b
  <2>5. (\E q \in Int : n = q * d + p /\ s.on = Even(q)) <=> p = b /\ s.on = Even(a)
    BY <2>3, <2>4
  <2> QED  BY <2>5 DEF Passed, d, p, a, b
<1>2. Returned(s, n) <=> p = (-n) % d /\ s.on = Even((n + N) \div d)
  <2> DEFINE a == (n + N) \div d  b == (-n) % d  e == (-n) \div d
  <2>1. ASSUME NEW q \in Int, n = q * d - p PROVE a = q /\ b = p
    <3>1. -n \in Int /\ -q \in Int /\ (-q) * d = -(q * d)  BY <1>0, <2>1
    <3>2. Parted(-n, d, -q, p)  BY <1>0, <2>1, <3>1 DEF Parted
    <3>3. Divided(-n, d, -q, p)  BY <1>0, <3>1, <3>2, DivisionUnique
    <3>4. n + N \in Int /\ Parted(n + N, d, q, N - p) /\ N - p \in 0 .. d - 1
      BY <1>0, <2>1, ChaserSizes DEF Parted
    <3>5. Divided(n + N, d, q, N - p)  BY <1>0, <3>4, DivisionUnique
    <3> QED  BY <3>3, <3>5 DEF Divided
  <2>2. e \in Int /\ -n = e * d + b  BY <1>0
  <2>3. \A q \in Int : n = q * d - p => a = q /\ b = p  BY <2>1
  <2> HIDE DEF a, b, e
  <2>4. n = (-e) * d - b /\ -e \in Int
    <3>1. (-e) * d = -(e * d) /\ e * d \in Int  BY <1>0, <2>2
    <3>2. b \in Int  BY <1>0 DEF b
    <3> QED  BY <2>2, <3>1, <3>2
  <2>5. (\E q \in Int : n = q * d - p /\ s.on = Even(q)) <=> p = b /\ s.on = Even(a)
    BY <2>3, <2>4
  <2> QED  BY <2>5 DEF Returned, d, p, a, b
<1> QED  BY <1>1, <1>2 DEF d, p

(* An event keeps what a layer is.                                          *)
LayerState(p, r, o, e, m) == [pos |-> p, rem |-> r, on |-> o, seen |-> e, moves |-> m]
LEMMA LayerStateTyped ==
  \A p, m \in Nat, r \in Int, o \in BOOLEAN, e \in {0, N} :
    LET t == LayerState(p, r, o, e, m)
    IN /\ t \in LayerStates
       /\ t.pos = p /\ t.rem = r /\ t.on = o /\ t.seen = e /\ t.moves = m
  BY DEF LayerState, LayerStates

LEMMA AdvancedTyped ==
  ASSUME NEW l, NEW s \in LayerStates, Inside(l, s), l.name \notin Shifts
  PROVE  /\ Advanced(l, s) \in LayerStates /\ Inside(l, Advanced(l, s))
         /\ Advanced(l, s).seen = s.seen /\ Advanced(l, s).rem = s.rem
         /\ Advanced(l, s).moves = s.moves + 1
<1> DEFINE t == Advanced(l, s)
<1>0. /\ s.pos \in Nat /\ s.rem \in Int /\ s.on \in BOOLEAN /\ s.seen \in {0, N} /\ s.moves \in Nat
      /\ N \in Nat
  BY ChaserSizes DEF LayerStates
<1>1. CASE l.name = "johnson__fwd"
  <2> DEFINE fwd == s.pos + 1 <= s.seen
  <2>1. t = [s EXCEPT !.pos = IF fwd THEN @ + 1 ELSE 0, !.on = (@ = fwd), !.moves = @ + 1]
    BY <1>1 DEF Advanced
  <2>2. (IF fwd THEN s.pos + 1 ELSE 0) \in 0 .. s.seen  BY <1>0
  <2>3. (s.on = fwd) \in BOOLEAN  OBVIOUS
  <2> HIDE DEF fwd
  <2> DEFINE p == IF fwd THEN s.pos + 1 ELSE 0  o == (s.on = fwd)
  <2>4. t = LayerState(p, s.rem, o, s.seen, s.moves + 1)  BY <2>1 DEF LayerStates, LayerState
  <2>5. p \in Nat /\ s.moves + 1 \in Nat /\ o \in BOOLEAN  BY <1>0, <2>2, <2>3
  <2> HIDE DEF p, o
  <2>6. /\ t \in LayerStates
        /\ t.pos = p /\ t.seen = s.seen /\ t.rem = s.rem /\ t.moves = s.moves + 1
    BY <1>0, <2>4, <2>5, LayerStateTyped
  <2> HIDE DEF t
  <2>7. Inside(l, t)  BY <1>1, <2>2, <2>6 DEF Inside, Shifts, p
  <2> QED  BY <2>6, <2>7 DEF t
<1>2. CASE l.name = "johnson__rev"
  <2> DEFINE rev == s.pos > 0
  <2>1. t = [s EXCEPT !.pos = IF rev THEN @ - 1 ELSE s.seen, !.on = (@ = rev), !.moves = @ + 1]
    BY <1>2 DEF Advanced
  <2>2. s.pos \in 0 .. s.seen  BY <1>2 DEF Inside, Johnsons
  <2>3. (IF rev THEN s.pos - 1 ELSE s.seen) \in 0 .. s.seen  BY <1>0, <2>2
  <2>4. (s.on = rev) \in BOOLEAN  OBVIOUS
  <2> HIDE DEF rev
  <2> DEFINE p == IF rev THEN s.pos - 1 ELSE s.seen  o == (s.on = rev)
  <2>5. t = LayerState(p, s.rem, o, s.seen, s.moves + 1)  BY <2>1 DEF LayerStates, LayerState
  <2>6. p \in Nat /\ s.moves + 1 \in Nat /\ o \in BOOLEAN  BY <1>0, <2>3, <2>4
  <2> HIDE DEF p, o
  <2>7. /\ t \in LayerStates
        /\ t.pos = p /\ t.seen = s.seen /\ t.rem = s.rem /\ t.moves = s.moves + 1
    BY <1>0, <2>5, <2>6, LayerStateTyped
  <2> HIDE DEF t
  <2>8. Inside(l, t)  BY <1>2, <2>3, <2>7 DEF Inside, Shifts, p
  <2> QED  BY <2>7, <2>8 DEF t
<1>3. CASE l.name \notin Johnsons /\ l.name \notin Shifts
  <2>1. t = [s EXCEPT !.pos = @ + 1, !.moves = @ + 1]  BY <1>3 DEF Advanced, Johnsons
  <2>2. t = LayerState(s.pos + 1, s.rem, s.on, s.seen, s.moves + 1)  BY <2>1 DEF LayerStates, LayerState
  <2>3. s.pos + 1 \in Nat /\ s.moves + 1 \in Nat  BY <1>0
  <2>4. t \in LayerStates /\ t.seen = s.seen /\ t.rem = s.rem /\ t.moves = s.moves + 1
    BY <1>0, <2>2, <2>3, LayerStateTyped
  <2> QED  BY <1>3, <2>4 DEF Inside
<1> QED  BY <1>1, <1>2, <1>3 DEF Johnsons

(* The lines of step: a layer stays what it is.                             *)
LEMMA SteppedTyped ==
  ASSUME NEW l, NEW s \in LayerStates, Inside(l, s)
  PROVE  LET t == Stepped(l, s)
         IN /\ t \in LayerStates /\ Inside(l, t) /\ t.seen = s.seen
            /\ l.name \in Timed => t = Advanced(l, s) /\ t.rem = s.rem
<1> DEFINE t == Stepped(l, s)
<1>0. Timed \cap (Shifts \cup {"strobe"}) = {}  BY DEF Timed, Shifts, Johnsons, Centred, Waves
<1>1. CASE l.name \in Timed
  <2>1. t = Advanced(l, s) /\ l.name \notin Shifts  BY <1>0, <1>1 DEF Stepped
  <2> QED  BY <1>1, <2>1, AdvancedTyped
<1>2. CASE l.name \in Shifts \cup {"strobe"}
  <2>1. t = [s EXCEPT !.rem = 0]  BY <1>0, <1>2 DEF Stepped
  <2>2. t \in LayerStates /\ t.seen = s.seen /\ t.pos = s.pos  BY <2>1 DEF LayerStates
  <2> HIDE DEF t
  <2>3. Inside(l, t)  BY <2>2 DEF Inside
  <2> QED  BY <1>0, <1>2, <2>2, <2>3 DEF t
<1>3. CASE l.name \notin Timed \cup Shifts \cup {"strobe"}
  <2>1. t = s  BY <1>3 DEF Stepped
  <2> QED  BY <1>3, <2>1
<1> QED  BY <1>1, <1>2, <1>3

LEMMA EvenTurns == \A q \in Int : Even(q + 1) = ~ Even(q) /\ Even(q) \in BOOLEAN
  BY DEF Even

(* An event brings a layer one step on; before it knows its row, a johnson  *)
(* counter passes it as a whole.                                            *)
LEMMA EventFollowed ==
  ASSUME NEW l, NEW s \in LayerStates, Inside(l, s), NEW st \in Nat, NEW ea \in Nat, Follows(l, s, st, ea)
  PROVE  Follows(l, Stepped(l, s), st + 1, IF s.seen = N THEN ea ELSE ea + 1)
<1> DEFINE t == Stepped(l, s)
           n == st + N * ea
           next == IF s.seen = N THEN ea ELSE ea + 1
           n2 == st + 1 + N * next
<1>0. /\ s.pos \in Nat /\ s.on \in BOOLEAN /\ s.seen \in {0, N} /\ N \in Nat \ {0}
  BY ChaserSizes DEF LayerStates
<1>1. n \in Nat /\ n2 \in Nat /\ n2 = IF s.seen = N THEN n + 1 ELSE n + (N + 1)
  BY <1>0
<1>2. CASE l.name \in Waves \cup {"dots"}
  <2>0. l.name \in Timed  BY <1>2 DEF Timed, Johnsons
  <2>1. t = Advanced(l, s)  BY <2>0, SteppedTyped
  <2>2. t = [s EXCEPT !.pos = @ + 1, !.moves = @ + 1]
    BY <1>2, <2>1 DEF Advanced, Waves
  <2>3. t.pos = s.pos + 1  BY <1>0, <2>2 DEF LayerStates
  <2>4. s.pos = st  BY <1>2 DEF Follows, Waves
  <2> HIDE DEF t
  <2>5. Follows(l, t, st + 1, next)  BY <1>2, <2>3, <2>4 DEF Follows, Waves
  <2> QED  BY <2>5 DEF t
<1>3. CASE l.name = "johnson__fwd"
  <2>0. l.name \in Timed  BY <1>3 DEF Timed, Johnsons
  <2>1. t = Advanced(l, s)  BY <2>0, SteppedTyped
  <2> DEFINE fwd == s.pos + 1 <= s.seen
  <2>2. t = [s EXCEPT !.pos = IF fwd THEN @ + 1 ELSE 0, !.on = (@ = fwd), !.moves = @ + 1]
    BY <1>3, <2>1 DEF Advanced
  <2>3. t.pos = (IF fwd THEN s.pos + 1 ELSE 0) /\ t.on = (s.on = fwd)
    <3> HIDE DEF fwd
    <3> QED  BY <2>2 DEF LayerStates
  <2> HIDE DEF t, n, n2
  <2>4. s.pos \in 0 .. s.seen /\ s.pos \in 0 .. N  BY <1>0, <1>3 DEF Inside, Johnsons
  <2>5. Passed(s, n)  BY <1>1, <1>3, <2>4, PassesCounted DEF Follows, Waves, n
  <2>6. PICK q \in Int : n = q * (N + 1) + s.pos /\ s.on = Even(q)  BY <2>5 DEF Passed
  <2> DEFINE b == q * (N + 1)
  <2>7. b \in Int /\ (q + 1) * (N + 1) = b + N + 1  BY <1>0
  <2>8. t.pos \in 0 .. N  BY <1>0, <2>3, <2>4
  <2>9. Passed(t, n2)
    <3>1. CASE fwd
      <4>1. s.seen = N /\ t.pos = s.pos + 1 /\ t.on = s.on  BY <1>0, <2>3, <2>4, <3>1
      <4>2. n2 = b + t.pos  BY <1>1, <2>4, <2>6, <2>7, <4>1
      <4> QED  BY <2>6, <4>1, <4>2 DEF Passed
    <3>2. CASE ~fwd
      <4>1. s.pos = s.seen /\ t.pos = 0 /\ t.on = ~s.on  BY <1>0, <2>3, <2>4, <3>2
      <4>2. n = b + s.pos  BY <2>6
      <4>3. n2 = b + N + 1  BY <1>0, <1>1, <2>7, <4>1, <4>2
      <4>4. n2 = (q + 1) * (N + 1) + t.pos  BY <2>7, <4>1, <4>3
      <4>5. t.on = Even(q + 1) /\ q + 1 \in Int  BY <2>6, <4>1, EvenTurns
      <4> QED  BY <4>4, <4>5 DEF Passed
    <3> QED  BY <3>1, <3>2
  <2>10. t.pos = n2 % (N + 1) /\ t.on = Even(n2 \div (N + 1))  BY <1>1, <2>8, <2>9, PassesCounted
  <2> QED  BY <1>3, <2>10 DEF Follows, Waves, t, n2
<1>4. CASE l.name = "johnson__rev"
  <2>0. l.name \in Timed  BY <1>4 DEF Timed, Johnsons
  <2>1. t = Advanced(l, s)  BY <2>0, SteppedTyped
  <2> DEFINE rev == s.pos > 0
  <2>2. t = [s EXCEPT !.pos = IF rev THEN @ - 1 ELSE s.seen, !.on = (@ = rev), !.moves = @ + 1]
    BY <1>4, <2>1 DEF Advanced
  <2>3. t.pos = (IF rev THEN s.pos - 1 ELSE s.seen) /\ t.on = (s.on = rev)
    <3> HIDE DEF rev
    <3> QED  BY <2>2 DEF LayerStates
  <2> HIDE DEF t, n, n2
  <2>4. s.pos \in 0 .. s.seen /\ s.pos \in 0 .. N  BY <1>0, <1>4 DEF Inside, Johnsons
  <2>5. Returned(s, n)  BY <1>1, <1>4, <2>4, PassesCounted DEF Follows, Waves, n
  <2>6. PICK q \in Int : n = q * (N + 1) - s.pos /\ s.on = Even(q)  BY <2>5 DEF Returned
  <2> DEFINE b == q * (N + 1)
  <2>7. b \in Int /\ (q + 1) * (N + 1) = b + N + 1  BY <1>0
  <2>8. t.pos \in 0 .. N  BY <1>0, <2>3, <2>4
  <2>9. Returned(t, n2)
    <3>1. CASE rev
      <4>1. s.seen = N /\ t.pos = s.pos - 1 /\ t.on = s.on  BY <1>0, <2>3, <2>4, <3>1
      <4>2. n2 = b - t.pos  BY <1>1, <2>4, <2>6, <2>7, <4>1
      <4> QED  BY <2>6, <4>1, <4>2 DEF Returned
    <3>2. CASE ~rev
      <4>1. s.pos = 0 /\ t.pos = s.seen /\ t.on = ~s.on  BY <1>0, <2>3, <2>4, <3>2
      <4>2. n = b  BY <2>6, <2>7, <4>1
      <4>3. n2 = (b + N + 1) - t.pos  BY <1>0, <1>1, <2>7, <4>1, <4>2
      <4>4. n2 = (q + 1) * (N + 1) - t.pos  BY <2>7, <4>3
      <4>5. t.on = Even(q + 1) /\ q + 1 \in Int  BY <2>6, <4>1, EvenTurns
      <4> QED  BY <4>4, <4>5 DEF Returned
    <3> QED  BY <3>1, <3>2
  <2>10. t.pos = (-n2) % (N + 1) /\ t.on = Even((n2 + N) \div (N + 1))  BY <1>1, <2>8, <2>9, PassesCounted
  <2> QED  BY <1>4, <2>10 DEF Follows, Waves, t, n2
<1>5. CASE l.name \notin Waves \cup {"dots", "johnson__fwd", "johnson__rev"}  BY <1>5 DEF Follows
<1> QED  BY <1>2, <1>3, <1>4, <1>5

(* The events of a cycle, one after the other.                              *)
LEMMA EventsKept ==
  ASSUME LayersTyped, NEW events \in Nat, NEW k \in DOMAIN setup, Inside(setup[k], layers[k]),
         steps \in Nat, early \in Nat
  PROVE  LET l == setup[k]
             s == AfterEvents(events)[k]
         IN /\ s \in LayerStates /\ Inside(l, s) /\ s.seen = layers[k].seen
            /\ l.name \in Timed => s.rem = layers[k].rem
            /\ events = 0 => s = layers[k]
            /\ Follows(l, layers[k], steps, early) =>
                 Follows(l, s, steps + events, early + IF layers[k].seen = N THEN 0 ELSE events)
<1> DEFINE l == setup[k]
           first == layers[k]
           S == {s \in LayerStates : Inside(l, s)}
           G == [x \in (1 .. events) \X S |-> Stepped(l, x[2])]
           u == CHOOSE f : f = [e \in 0 .. events |-> IF e = 0 THEN layers[k] ELSE Stepped(setup[k], f[e - 1])]
<1>1. AfterEvents(events)[k] = u[events]  BY DEF AfterEvents
<1>2. first \in S  BY DEF LayersTyped
<1>3. G \in [(1 .. events) \X S -> S]
  <2>1. \A s \in S : Stepped(l, s) \in S  BY SteppedTyped
  <2> HIDE DEF S
  <2> QED  BY <2>1
<1> HIDE DEF l, first
<1>4. PICK f \in [0 .. events -> S] : Iterates(f, events, first, G)
  <2> HIDE DEF S, G
  <2> QED  BY <1>2, <1>3, IterationExists
<1>5. \A e \in 0 .. events : f[e] = IF e = 0 THEN first ELSE Stepped(l, f[e - 1])
  <2> TAKE e \in 0 .. events
  <2>1. f[e] = IF e = 0 THEN first ELSE G[<<e, f[e - 1]>>]
    <3> HIDE DEF S, G
    <3> QED  BY <1>4 DEF Iterates
  <2>2. e # 0 => <<e, f[e - 1]>> \in (1 .. events) \X S
    <3> HIDE DEF S
    <3> QED  BY <1>4
  <2> HIDE DEF S
  <2> QED  BY <2>1, <2>2
<1>6. u = [e \in 0 .. events |-> IF e = 0 THEN first ELSE Stepped(l, u[e - 1])]
  <2>1. f = [e \in 0 .. events |-> f[e]]  BY <1>4
  <2>2. f = [e \in 0 .. events |-> IF e = 0 THEN layers[k] ELSE Stepped(setup[k], f[e - 1])]
    BY <1>5, <2>1 DEF l, first
  <2>3. \E f_1 : f_1 = [e \in 0 .. events |-> IF e = 0 THEN layers[k] ELSE Stepped(setup[k], f_1[e - 1])]
    BY <2>2
  <2>4. u = [e \in 0 .. events |-> IF e = 0 THEN layers[k] ELSE Stepped(setup[k], u[e - 1])]
    BY <2>3, Zenon
  <2> HIDE DEF u
  <2> QED  BY <2>4 DEF l, first
<1> HIDE DEF u, G
<1> DEFINE pre(e) == early + IF first.seen = N THEN 0 ELSE e
           T == {e \in 0 .. events : /\ u[e] \in S /\ u[e].seen = first.seen
                                     /\ l.name \in Timed => u[e].rem = first.rem
                                     /\ Follows(l, first, steps, early) => Follows(l, u[e], steps + e, pre(e))}
<1>7. 0 \in T
  <2>1. u[0] = first  BY <1>6
  <2>2. steps + 0 = steps /\ pre(0) = early /\ 0 \in 0 .. events  OBVIOUS
  <2> HIDE DEF S, pre
  <2> QED  BY <1>2, <2>1, <2>2
<1>8. ASSUME NEW e \in 1 .. events, e - 1 \in T PROVE e \in T
  <2> DEFINE s == u[e - 1]
             d == e - 1
  <2>1. u[e] = Stepped(l, s)  BY <1>6
  <2>2. s \in LayerStates /\ Inside(l, s) /\ s.seen = first.seen
    BY <1>8
  <2>3. l.name \in Timed => s.rem = first.rem  BY <1>8
  <2>4. Follows(l, first, steps, early) => Follows(l, s, steps + d, pre(d))  BY <1>8
  <2>5. d \in Nat /\ e = d + 1 /\ e \in 0 .. events  OBVIOUS
  <2>6. /\ steps + d \in Nat /\ pre(d) \in Nat /\ steps + e = (steps + d) + 1
        /\ pre(e) = IF s.seen = N THEN pre(d) ELSE pre(d) + 1
    BY <2>2, <2>5
  <2> HIDE DEF s, d, pre
  <2>7. /\ u[e] \in LayerStates /\ Inside(l, u[e]) /\ u[e].seen = s.seen
        /\ l.name \in Timed => u[e].rem = s.rem
    BY <2>1, <2>2, SteppedTyped
  <2>8. Follows(l, s, steps + d, pre(d)) => Follows(l, u[e], steps + e, pre(e))
    BY <2>1, <2>2, <2>6, EventFollowed
  <2> QED  BY <2>2, <2>3, <2>4, <2>5, <2>7, <2>8
<1> HIDE DEF T
<1>9. \A e \in 0 .. events : e \in T  BY <1>7, <1>8, UpToAll
<1>10. events \in T  BY <1>9
<1>11. events = 0 => u[events] = first  BY <1>6
<1> QED  BY <1>1, <1>10, <1>11 DEF T, l, first

-----------------------------------------------------------------------------
(* Cycles.                                                                  *)

(* The kinds of layers are told apart by their names.                       *)
LEMMA TimedNames ==
  /\ Johnsons \cup Centred \cup Waves \cup {"dots"} = Timed
  /\ Timed \cap (Shifts \cup {"strobe"}) = {} /\ "strobe" \notin Shifts
  /\ Centred \cap Johnsons = {} /\ (Waves \cup {"dots"}) \cap (Centred \cup Johnsons) = {}
  /\ \A n \in Timed : Required[n] >= 2 /\ n \notin {"plain_color", "rainbow", "colormix"}
  /\ Required["dots"] = 5
<1>1. \A n \in Timed : Required[n] >= 2  BY RequiredCounts DEF Timed
<1> QED  BY <1>1, RequiredCounts DEF Timed, Shifts, Johnsons, Centred, Waves

(* The update time of a layer, when it is not an input.                     *)
LEMMA UpdateTimeTyped ==
  ASSUME NEW l, SoundLayer(l), l.name \in Timed, UpdateTimeOf(l) \notin {0, Live}
  PROVE  UpdateTimeOf(l) \in Nat \ {0} /\ UpdateTime(l) = UpdateTimeOf(l)
<1> DEFINE a == IF l.name = "dots" THEN 3 ELSE 1
<1>1. a \in 1 .. Required[l.name]
  <2>1. Required[l.name] >= 2 /\ Required[l.name] \in Nat  BY TimedNames, RequiredCounts DEF SoundLayer
  <2> QED  BY <2>1, TimedNames
<1>2. Coloured(l.name) = 0  BY TimedNames DEF Coloured
<1>3. l.args[a] \in 0 .. Full \cup {Live}
  <2> HIDE DEF a
  <2>1. a > 0  BY <1>1
  <2> QED  BY <1>1, <1>2, <2>1 DEF SoundLayer
<1>4. UpdateTimeOf(l) = l.args[a] /\ UpdateTime(l) = Arg(l, a)  BY DEF UpdateTimeOf, UpdateTime
<1> HIDE DEF a
<1> QED  BY <1>3, <1>4, ChaserSizes DEF Arg

(* A cycle keeps what a layer is, and brings it back into its row.          *)
LEMMA TickedTyped ==
  ASSUME NEW l, SoundLayer(l), level \in Levels, NEW s \in LayerStates, Inside(l, s), NEW elapsed \in Int
  PROVE  LET t == Ticked(l, s, elapsed)
         IN /\ t \in LayerStates /\ Inside(l, t) /\ Resting(l, t)
            /\ t.seen = IF l.name \in Johnsons THEN N ELSE s.seen
<1> DEFINE known == IF l.name \in Johnsons THEN N ELSE s.seen
           rem == IF l.name \in Timed \cup Shifts \cup {"strobe"} THEN s.rem - elapsed ELSE 0
           t == [s EXCEPT !.rem = rem, !.seen = known]
           moved == IF ~ Due(l, rem) THEN t
                    ELSE IF l.name \in Timed THEN [Advanced(l, t) EXCEPT !.rem = UpdateTime(l)]
                    ELSE IF l.name = "strobe" THEN [t EXCEPT !.rem = StrobeTime(Arg(l, 1)), !.on = ~ @]
                    ELSE [t EXCEPT !.rem = Arg(l, 1), !.pos = (@ + 1) % N]
           back == IF l.name \in Centred /\ moved.pos >= N \div 2 THEN [moved EXCEPT !.pos = 0] ELSE moved
<1>0. Ticked(l, s, elapsed) = back  BY DEF Ticked
<1>1. /\ s.pos \in Nat /\ s.rem \in Int /\ s.on \in BOOLEAN /\ s.seen \in {0, N} /\ s.moves \in Nat
      /\ N \in Nat \ {0}
  BY ChaserSizes DEF LayerStates
<1>2. rem \in Int /\ known \in {0, N}  BY <1>1
<1>3. t = LayerState(s.pos, rem, s.on, known, s.moves)
  <2>1. t = [s EXCEPT !.rem = rem, !.seen = known]  OBVIOUS
  <2> HIDE DEF t, rem, known
  <2> QED  BY <2>1 DEF LayerStates, LayerState
<1> HIDE DEF t, rem
<1>4. t \in LayerStates /\ t.pos = s.pos /\ t.rem = rem /\ t.on = s.on /\ t.seen = known /\ t.moves = s.moves
  BY <1>1, <1>2, <1>3, LayerStateTyped
<1>5. Inside(l, t)  BY <1>1, <1>4 DEF Inside
<1> HIDE DEF known
<1>6. moved \in LayerStates /\ Inside(l, moved) /\ moved.seen = known
  <2>1. CASE ~ Due(l, rem)  BY <1>4, <1>5, <2>1
  <2>2. CASE Due(l, rem) /\ l.name \in Timed
    <3> DEFINE a == Advanced(l, t)
    <3>1. l.name \notin Shifts  BY <2>2, TimedNames
    <3>2. a \in LayerStates /\ Inside(l, a) /\ a.seen = known  BY <1>4, <1>5, <3>1, AdvancedTyped
    <3>3. UpdateTime(l) \in Nat
      <4>1. \A n \in 1 .. Required[l.name] : Arg(l, n) \in 0 .. Full  BY <2>2, TimedNames, ArgTyped
      <4>2. Required[l.name] >= 2 /\ Required[l.name] \in Nat  BY <2>2, TimedNames, RequiredCounts DEF SoundLayer
      <4>3. (IF l.name = "dots" THEN 3 ELSE 1) \in 1 .. Required[l.name]  BY <4>2, TimedNames
      <4> QED  BY <4>1, <4>3, ChaserSizes DEF UpdateTime
    <3>4. moved = [a EXCEPT !.rem = UpdateTime(l)]  BY <2>2
    <3> HIDE DEF a, moved
    <3>5. moved \in LayerStates /\ moved.pos = a.pos /\ moved.seen = a.seen  BY <3>2, <3>3, <3>4 DEF LayerStates
    <3> QED  BY <3>2, <3>5 DEF Inside
  <2>3. CASE Due(l, rem) /\ l.name = "strobe"
    <3>1. StrobeTime(Arg(l, 1)) \in Int
      <4>1. Required[l.name] = 1 /\ l.name \notin {"plain_color", "rainbow", "colormix"}  BY <2>3, RequiredCounts
      <4>2. \A n \in 1 .. Required[l.name] : Arg(l, n) \in 0 .. Full  BY <4>1, ArgTyped
      <4>3. Arg(l, 1) \in Nat  BY <4>1, <4>2, ChaserSizes
      <4> DEFINE b == Arg(l, 1)
      <4> HIDE DEF b
      <4>4. b # 0 => Minute \div (2 * b) \in Int
        <5>1. b # 0 => 2 * b \in Nat \ {0}  BY <4>3 DEF b
        <5> DEFINE c == 2 * b
        <5> HIDE DEF c
        <5>2. Minute \in Nat  BY ChaserAssumption
        <5>3. b # 0 => Minute \div c \in Int  BY <5>1, <5>2 DEF c
        <5> QED  BY <5>3 DEF c
      <4>5. StrobeTime(b) \in Int
        <5>1. Forever \in Int  BY ChaserAssumption
        <5> QED  BY <4>4, <5>1 DEF StrobeTime
      <4> QED  BY <4>5 DEF b
    <3>2. l.name \notin Timed /\ l.name \notin Shifts  BY <2>3, TimedNames
    <3>3. moved = [t EXCEPT !.rem = StrobeTime(Arg(l, 1)), !.on = ~ @]  BY <2>3, <3>2
    <3> HIDE DEF moved
    <3>4. moved \in LayerStates /\ moved.pos = t.pos /\ moved.seen = t.seen
      BY <1>4, <3>1, <3>3 DEF LayerStates
    <3> QED  BY <1>4, <1>5, <3>4 DEF Inside
  <2>4. CASE Due(l, rem) /\ l.name \notin Timed \cup {"strobe"}
    <3>1. l.name \in Shifts  BY <2>4 DEF Due
    <3>2. Required[l.name] = 1 /\ l.name \notin {"plain_color", "rainbow", "colormix"}
      BY <3>1, RequiredCounts DEF Shifts
    <3>3. \A n \in 1 .. Required[l.name] : Arg(l, n) \in 0 .. Full  BY <3>2, ArgTyped
    <3>4. Arg(l, 1) \in Int  BY <3>2, <3>3, ChaserSizes
    <3> DEFINE p == t.pos + 1  q == p % N
    <3>5. q \in Pixels
      <4>1. p \in Nat  BY <1>1, <1>4
      <4> HIDE DEF p
      <4> QED  BY <1>1, <4>1 DEF Pixels
    <3>6. q \in Nat  BY <1>1, <3>5 DEF Pixels
    <3>7. moved = [t EXCEPT !.rem = Arg(l, 1), !.pos = q]  BY <2>4
    <3> HIDE DEF moved, q
    <3>8. moved \in LayerStates /\ moved.pos = q /\ moved.seen = t.seen
      BY <1>4, <3>4, <3>6, <3>7 DEF LayerStates
    <3>9. l.name \notin Johnsons  BY <3>1, TimedNames
    <3> QED  BY <1>4, <3>5, <3>8, <3>9 DEF Inside
  <2> QED  BY <2>1, <2>2, <2>3, <2>4
<1> HIDE DEF moved
<1>7. back \in LayerStates /\ Inside(l, back) /\ Resting(l, back) /\ back.seen = known
  <2> DEFINE half == N \div 2
  <2>0. half \in Nat  BY <1>1
  <2> HIDE DEF half
  <2>1. Max({0, half - 1}) = IF 0 > half - 1 THEN 0 ELSE half - 1  BY <2>0, MaxOfTwo
  <2>2. CASE l.name \in Centred /\ moved.pos >= half
    <3>1. back = [moved EXCEPT !.pos = 0]  BY <2>2 DEF half
    <3> HIDE DEF back
    <3>2. back \in LayerStates /\ back.pos = 0 /\ back.seen = moved.seen  BY <1>6, <3>1 DEF LayerStates
    <3>3. 0 \in 0 .. Max({0, half - 1})  BY <2>0, <2>1
    <3>4. l.name \notin Shifts /\ l.name \notin Johnsons  BY <2>2, TimedNames
    <3> QED  BY <1>6, <3>2, <3>3, <3>4 DEF Inside, Resting, half
  <2>3. CASE l.name \in Centred /\ ~(moved.pos >= half)
    <3>1. back = moved  BY <2>3 DEF half
    <3>2. moved.pos \in Nat  BY <1>6 DEF LayerStates
    <3>3. moved.pos \in 0 .. Max({0, half - 1})  BY <2>0, <2>1, <2>3, <3>2
    <3> QED  BY <1>6, <3>1, <3>3 DEF Resting, half
  <2>4. CASE l.name \notin Centred
    <3>1. back = moved  BY <2>4
    <3> QED  BY <1>6, <2>4, <3>1 DEF Resting
  <2> QED  BY <2>2, <2>3, <2>4
<1> HIDE DEF back
<1> QED  BY <1>0, <1>7 DEF known

(* In event mode a cycle does not move a layer that events move.            *)
LEMMA TickedByEvents ==
  ASSUME NEW l, l.name \in Timed, NEW s \in LayerStates, s.rem = 0
  PROVE  LET t == Ticked(l, s, 0)
         IN /\ t.rem = 0
            /\ \A st, ea : Follows(l, s, st, ea) => Follows(l, t, st, ea)
<1> DEFINE known == IF l.name \in Johnsons THEN N ELSE s.seen
           u == [s EXCEPT !.rem = s.rem - 0, !.seen = known]
           t == IF l.name \in Centred /\ u.pos >= N \div 2 THEN [u EXCEPT !.pos = 0] ELSE u
<1>1. s.rem - 0 = 0 /\ ~ Due(l, s.rem - 0)  BY DEF Due
<1>2. Ticked(l, s, 0) = t
  <2> HIDE DEF known
  <2> QED  BY <1>1 DEF Ticked, known
<1> HIDE DEF known
<1>3. u.rem = 0 /\ u.pos = s.pos /\ u.on = s.on  BY <1>1 DEF LayerStates
<1>4. u \in [pos : Nat, rem : Int, on : BOOLEAN, seen : {known}, moves : Nat]  BY <1>1 DEF LayerStates
<1> HIDE DEF u
<1>5. t.rem = 0  BY <1>3, <1>4
<1>6. l.name \notin Centred => t.pos = s.pos /\ t.on = s.on  BY <1>3
<1> HIDE DEF t
<1>7. ASSUME NEW st, NEW ea, Follows(l, s, st, ea) PROVE Follows(l, t, st, ea)
  <2>1. CASE l.name \in Centred  BY <2>1 DEF Follows, Centred, Waves
  <2>2. CASE l.name \notin Centred  BY <1>6, <1>7, <2>2 DEF Follows
  <2> QED  BY <2>1, <2>2
<1> QED  BY <1>2, <1>5, <1>7

(* With a fixed update time a layer moves when its time is over, once.      *)
LEMMA TickedByTime ==
  ASSUME NEW l, SoundLayer(l), l.name \in Timed, UpdateTimeOf(l) \notin {0, Live},
         NEW s \in LayerStates, Inside(l, s), NEW elapsed \in Int
  PROVE  LET t == Ticked(l, s, elapsed)
             time == UpdateTimeOf(l)
         IN IF s.rem - elapsed < 0 THEN t.rem = time /\ t.moves = s.moves + 1
            ELSE t.rem = s.rem - elapsed /\ t.moves = s.moves
<1> DEFINE known == IF l.name \in Johnsons THEN N ELSE s.seen
           rem == s.rem - elapsed
           time == UpdateTimeOf(l)
           u == [s EXCEPT !.rem = rem, !.seen = known]
           moved == IF ~ Due(l, rem) THEN u ELSE [Advanced(l, u) EXCEPT !.rem = UpdateTime(l)]
           t == IF l.name \in Centred /\ moved.pos >= N \div 2 THEN [moved EXCEPT !.pos = 0] ELSE moved
<1>0. /\ s.pos \in Nat /\ s.rem \in Int /\ s.on \in BOOLEAN /\ s.seen \in {0, N} /\ s.moves \in Nat
      /\ N \in Nat \ {0} /\ rem \in Int /\ known \in {0, N}
  BY ChaserSizes DEF LayerStates
<1>1. Ticked(l, s, elapsed) = t
  <2> HIDE DEF known
  <2> QED  BY DEF Ticked, known
<1>2. time \in Nat \ {0} /\ UpdateTime(l) = time  BY UpdateTimeTyped
<1>3. Due(l, rem) <=> rem < 0  BY <1>2 DEF Due
<1>4. u = LayerState(s.pos, rem, s.on, known, s.moves)
  <2>1. u = [s EXCEPT !.rem = rem, !.seen = known]  OBVIOUS
  <2> HIDE DEF u, rem, known
  <2> QED  BY <2>1 DEF LayerStates, LayerState
<1> HIDE DEF u, rem, time
<1>5. u \in LayerStates /\ u.pos = s.pos /\ u.rem = rem /\ u.seen = known /\ u.moves = s.moves
  BY <1>0, <1>4, LayerStateTyped
<1>6. Inside(l, u)  BY <1>0, <1>5 DEF Inside
<1>7. /\ moved \in LayerStates
      /\ moved.rem = IF rem < 0 THEN time ELSE rem
      /\ moved.moves = IF rem < 0 THEN s.moves + 1 ELSE s.moves
  <2>1. CASE ~ rem < 0  BY <1>3, <1>5, <2>1
  <2>2. CASE rem < 0
    <3> DEFINE a == Advanced(l, u)
    <3>1. a \in LayerStates /\ a.moves = s.moves + 1
      <4>1. l.name \notin Shifts  BY TimedNames
      <4> QED  BY <1>5, <1>6, <4>1, AdvancedTyped
    <3>2. moved = [a EXCEPT !.rem = time]  BY <1>2, <1>3, <2>2
    <3> HIDE DEF a, moved
    <3>3. moved \in LayerStates /\ moved.rem = time /\ moved.moves = a.moves
      BY <1>2, <3>1, <3>2 DEF LayerStates
    <3> QED  BY <2>2, <3>1, <3>3
  <2> QED  BY <2>1, <2>2
<1> HIDE DEF moved
<1>8. t.rem = moved.rem /\ t.moves = moved.moves
  <2> DEFINE b == [moved EXCEPT !.pos = 0]
  <2>1. b.rem = moved.rem /\ b.moves = moved.moves  BY <1>7 DEF LayerStates
  <2>2. t = b \/ t = moved  OBVIOUS
  <2> HIDE DEF b, t
  <2> QED  BY <2>1, <2>2
<1> HIDE DEF t
<1> QED  BY <1>0, <1>1, <1>7, <1>8 DEF rem, time

(* What is kept true says what a client relies on.                          *)
LEMMA ChaserInvSound == ChaserInv => ChaserSound
<1> SUFFICES ASSUME ChaserInv PROVE ChaserSound
  OBVIOUS
<1>1. LayersTyped /\ ClockTyped /\ Stepping /\ Pacing
      /\ \A k \in DOMAIN setup : Inside(setup[k], layers[k]) /\ Resting(setup[k], layers[k])
  BY DEF ChaserInv
<1>2. DOMAIN layers = DOMAIN setup /\ \A k \in DOMAIN setup : layers[k] \in LayerStates
  BY <1>1 DEF LayersTyped
<1>3. ChaserTypeOK
  <2>1. mask \in Masks /\ DOMAIN pixels = Pixels /\ \A i \in Pixels : pixels[i] # {}
    BY <1>1 DEF LayersTyped, Row
  <2>2. Len(layers) = Len(setup)
    <3>1. DOMAIN setup = 1 .. Len(setup) /\ Len(setup) \in Nat  BY <1>1 DEF LayersTyped, IsSequence
    <3>2. layers = [k \in 1 .. Len(setup) |-> layers[k]]  BY <1>1, <3>1 DEF LayersTyped
    <3> QED  BY <3>1, <3>2
  <2>3. ASSUME NEW k \in DOMAIN layers
        PROVE  /\ {layers[k].rem, layers[k].pos} \subseteq Int
               /\ setup[k].name \in Shifts => layers[k].pos \in Pixels
               /\ setup[k].name \in Johnsons => layers[k].pos \in 0..N
               /\ setup[k].name \in Centred => layers[k].pos \in 0..Max({0, N \div 2 - 1})
    <3>1. k \in DOMAIN setup /\ layers[k] \in LayerStates /\ Inside(setup[k], layers[k])
          /\ Resting(setup[k], layers[k])
      BY <1>1, <1>2
    <3>2. /\ layers[k].rem \in Int /\ layers[k].pos \in Nat /\ layers[k].seen \in {0, N}
      BY <3>1 DEF LayerStates
    <3> QED  BY <3>1, <3>2, ChaserSizes DEF Inside, Resting
  <2> QED  BY <1>1, <2>1, <2>2, <2>3 DEF ChaserTypeOK, ClockTyped
<1>4. StepsFollowEvents  BY <1>1 DEF StepsFollowEvents, Stepping, Follows
<1>5. PaceKept
  <2> SUFFICES ASSUME ~by_events, NEW k \in DOMAIN setup, setup[k].name \in Timed,
                      UpdateTimeOf(setup[k]) \notin {0, Live}
               PROVE  LET time == UpdateTimeOf(setup[k])
                          moves == layers[k].moves
                          lag == ChaserLag * time_scale
                      IN /\ moves * (time + 1) <= time + (highest - base) + AtOnce(time)
                         /\ ~ unsteady => last_update - base <= moves * (time + lag) + time
    BY DEF PaceKept, UpdateTimeOf, AtOnce
  <2> DEFINE time == UpdateTimeOf(setup[k])
             lag == ChaserLag * time_scale
             y == layers[k].moves * (time + lag)
  <2>1. Paced(time, layers[k])  BY <1>1 DEF Pacing
  <2>2. SoundLayer(setup[k])  BY <1>1 DEF LayersTyped
  <2>3. time \in Nat  BY <2>2, UpdateTimeTyped
  <2>4. lag \in Nat
    <3>1. time_scale \in Nat /\ ChaserLag \in Nat  BY <1>1, ChaserAssumption DEF ClockTyped
    <3> QED  BY <3>1
  <2>5. layers[k].moves \in Nat /\ layers[k].rem \in Int  BY <1>2 DEF LayerStates
  <2>6. layers[k].moves * (time + 1) <= time + (highest - base) + AtOnce(time)  BY <2>1 DEF Paced, Pace
  <2>7. layers[k].rem >= 0 /\ (~ unsteady => last_update - base <= y + time - layers[k].rem)
    BY <2>1 DEF Paced, Pace
  <2> HIDE DEF time, lag
  <2>8. y \in Int  BY <2>3, <2>4, <2>5
  <2>9. last_update - base \in Int
    <3>1. last_update \in Int /\ base \in Nat  BY <1>1 DEF ClockTyped
    <3> QED  BY <3>1
  <2>10. ~ unsteady => last_update - base <= y + time
    <3> DEFINE p == last_update - base
    <3> HIDE DEF y, p
    <3> QED  BY <2>3, <2>5, <2>7, <2>8, <2>9 DEF p
  <2> QED  BY <2>6, <2>10 DEF time, lag
<1> QED  BY <1>3, <1>4, <1>5 DEF ChaserSound

LEMMA ChaserInitInv == ChaserInit => ChaserInv
<1> SUFFICES ASSUME ChaserInit PROVE ChaserInv
  OBVIOUS
<1>1. setup = <<>> /\ layers = <<>> /\ last_update = -1  BY DEF ChaserInit, ChaserReady
<1>2. LayersTyped
  <2>1. IsSequence(setup) /\ DOMAIN setup = {}  BY <1>1 DEF IsSequence
  <2>2. mask \in Masks
    <3>1. mask = [i \in Pixels |-> Full]  BY DEF ChaserInit, ChaserReady
    <3>2. Full \in 0 .. Full  BY ChaserSizes
    <3> QED  BY <3>1, <3>2 DEF Masks
  <2>3. Row(pixels)  BY DEF ChaserInit, ChaserReady, Row, White
  <2>4. layers = [k \in DOMAIN setup |-> layers[k]]  BY <1>1, <2>1
  <2> QED  BY <2>1, <2>2, <2>3, <2>4 DEF LayersTyped
<1>3. ClockTyped
  <2>1. status \in {"refused", "running"} /\ by_events \in BOOLEAN
    <3>1. PICK cf \in Confs : /\ status = IF Loads(cf) THEN "running" ELSE "refused"
                              /\ by_events = (cf.trigger_event # "")
      BY DEF ChaserInit
    <3>2. (cf.trigger_event # "") \in BOOLEAN  OBVIOUS
    <3> QED  BY <3>1, <3>2
  <2>2. /\ clock = 0 /\ time_scale \in ChaserScales /\ level \in Levels
        /\ steps = 0 /\ early = 0 /\ base = 0 /\ highest = 0 /\ activated = FALSE /\ unsteady = FALSE
    BY DEF ChaserInit, ChaserReady
  <2>3. {by_events, activated, unsteady} \subseteq BOOLEAN  BY <2>1, <2>2
  <2>4. status \in {"absent", "refused", "running", "crashed"} /\ clock \in Nat /\ {steps, early, base, highest} \subseteq Nat
    BY <2>1, <2>2
  <2>5. last_update = -1 /\ ~activated /\ highest = base  BY <1>1, <2>2
  <2> QED  BY <2>2, <2>3, <2>4, <2>5 DEF ClockTyped
<1>4. SeenAlike /\ Stepping /\ Pacing /\ \A k \in DOMAIN setup : Inside(setup[k], layers[k]) /\ Resting(setup[k], layers[k])
  <2>1. DOMAIN setup = {}  BY <1>1
  <2> QED  BY <2>1 DEF SeenAlike, Stepping, Pacing
<1> QED  BY <1>2, <1>3, <1>4 DEF ChaserInv

(* A layer that is new or reset is where no event and no time bring it.     *)
LEMMA AtStart ==
  ASSUME NEW l, NEW s, s.pos = 0, l.name \in Johnsons => s.on = TRUE
  PROVE  Follows(l, s, 0, 0)
<1>1. Even(0) = TRUE  BY DEF Even
<1>2. s.pos \in 0 .. N /\ 0 + N * 0 = 0  BY ChaserSizes
<1>3. CASE l.name \in Johnsons
  <2>0. s.on = Even(0)  BY <1>1, <1>3
  <2>1. 0 = 0 * (N + 1) + s.pos /\ 0 = 0 * (N + 1) - s.pos  BY ChaserSizes
  <2>2. Passed(s, 0) /\ Returned(s, 0)  BY <2>0, <2>1 DEF Passed, Returned
  <2>3. /\ s.pos = 0 % (N + 1) /\ s.on = Even(0 \div (N + 1))
        /\ s.pos = (-0) % (N + 1) /\ s.on = Even((0 + N) \div (N + 1))
    BY <1>2, <2>2, PassesCounted
  <2> QED  BY <1>2, <1>3, <2>3 DEF Follows, Waves, Johnsons
<1>4. CASE l.name \notin Johnsons  BY <1>4 DEF Follows, Johnsons
<1> QED  BY <1>3, <1>4

(* The layers as a whole, and the time, as each action leaves them.         *)
LEMMA ConfigKept ==
  ASSUME ChaserInv, NEW cfg \in ChaserConfigs, ReceiveConfig(cfg)
  PROVE  ChaserInv'
<1>0. LayersTyped /\ ClockTyped  BY DEF ChaserInv
<1>1. /\ setup' = Built(cfg) /\ layers' = [k \in DOMAIN setup' |-> NewLayer] /\ last_update' = -1
      /\ steps' = 0 /\ early' = 0 /\ activated' = FALSE /\ unsteady' = FALSE
      /\ base' = Scaled(clock, time_scale) /\ highest' = base'
      /\ UNCHANGED <<status, by_events, clock, time_scale, level, pixels, mask>>
  BY DEF ReceiveConfig
<1>2. IsSequence(setup') /\ \A k \in DOMAIN setup' : SoundLayer(setup'[k])
  <2>1. Accepted(cfg)  BY DEF ReceiveConfig
  <2> QED  BY <1>1, <2>1, BuiltTyped
<1>3. NewLayer \in LayerStates /\ NewLayer.pos = 0 /\ NewLayer.rem = 0 /\ NewLayer.seen = 0
      /\ NewLayer.moves = 0 /\ NewLayer.on = TRUE
  BY DEF NewLayer, LayerStates
<1>4. \A k \in DOMAIN setup' : layers'[k] = NewLayer  BY <1>1
<1>5. LayersTyped'
  <2>1. layers' = [k \in DOMAIN setup' |-> layers'[k]]  BY <1>1
  <2>2. \A k \in DOMAIN setup' : layers'[k] \in LayerStates  BY <1>3, <1>4
  <2>3. mask' \in Masks /\ Row(pixels')  BY <1>0, <1>1 DEF LayersTyped
  <2> QED  BY <1>2, <2>1, <2>2, <2>3 DEF LayersTyped
<1>6. Scaled(clock, time_scale) \in Nat
  <2>1. clock \in Nat /\ time_scale \in Nat  BY <1>0, ChaserAssumption DEF ClockTyped
  <2>2. clock * time_scale \in Nat  BY <2>1
  <2> QED  BY <2>2 DEF Scaled
<1>7. ClockTyped'
  <2>1. {by_events', activated', unsteady'} \subseteq BOOLEAN  BY <1>0, <1>1 DEF ClockTyped
  <2>2. {steps', early', base', highest'} \subseteq Nat  BY <1>1, <1>6
  <2>3. /\ status' \in {"absent", "refused", "running", "crashed"}
        /\ clock' \in Nat /\ time_scale' \in ChaserScales /\ level' \in Levels
    BY <1>0, <1>1 DEF ClockTyped
  <2>4. last_update' = -1 /\ ~activated' /\ highest' = base'  BY <1>1
  <2> QED  BY <2>1, <2>2, <2>3, <2>4 DEF ClockTyped
<1>8. SeenAlike'  BY <1>3, <1>4 DEF SeenAlike
<1>9. Stepping'
  <2>1. ASSUME NEW k \in DOMAIN setup' PROVE Follows(setup'[k], layers'[k], 0, 0) /\ layers'[k].rem = 0
    BY <1>3, <1>4, AtStart
  <2> QED  BY <1>1, <2>1 DEF Stepping
<1>10. Pacing'
  <2> SUFFICES ASSUME NEW k \in DOMAIN setup', (setup'[k]).name \in Timed, UpdateTimeOf(setup'[k]) \notin {0, Live}
               PROVE  Pace(UpdateTimeOf(setup'[k]), layers'[k].moves, layers'[k].rem, ChaserLag * time_scale',
                           last_update' - base', highest' - base',
                           IF activated' THEN 0 ELSE UpdateTimeOf(setup'[k]) + 1, last_update' = -1, ~ unsteady')
    BY DEF Pacing, Paced, AtOnce, UpdateTimeOf
  <2>1. PICK time \in Nat : time = UpdateTimeOf(setup'[k])  BY <1>2, UpdateTimeTyped
  <2>2. PICK lag \in Nat : lag = ChaserLag * time_scale'
    <3>1. PICK ts \in Nat : ts = time_scale'  BY <1>7, ChaserAssumption DEF ClockTyped
    <3>2. ChaserLag \in Nat  BY ChaserAssumption
    <3>3. ChaserLag * ts \in Nat  BY <3>2
    <3> QED  BY <3>1, <3>3
  <2>3. PICK passed \in Int : passed = last_update' - base' /\ passed <= 0  BY <1>1, <1>6
  <2>4. highest' - base' = 0  BY <1>1, <1>6
  <2>5. layers'[k].moves = 0 /\ layers'[k].rem = 0  BY <1>3, <1>4
  <2>6. time + 1 \in Nat /\ 0 \in Nat  OBVIOUS
  <2>7. last_update' = -1 /\ unsteady' = FALSE /\ activated' = FALSE  BY <1>1
  <2>8. 0 * (time + 1) = 0 /\ 0 * (time + lag) = 0  OBVIOUS
  <2>9. Pace(time, 0, 0, lag, passed, 0, time + 1, last_update' = -1, ~ unsteady')
    BY <2>3, <2>7, <2>8 DEF Pace
  <2> QED  BY <2>1, <2>2, <2>3, <2>4, <2>5, <2>7, <2>9
<1>11. \A k \in DOMAIN setup' : Inside(setup'[k], layers'[k]) /\ Resting(setup'[k], layers'[k])
  <2>1. 0 \in 0 .. Max({0, N \div 2 - 1}) /\ 0 \in Pixels
    <3> DEFINE h == N \div 2
    <3>1. h \in Nat /\ 0 \in Pixels  BY ChaserSizes DEF Pixels
    <3> HIDE DEF h
    <3>2. Max({0, h - 1}) = IF 0 > h - 1 THEN 0 ELSE h - 1  BY <3>1, MaxOfTwo
    <3>3. 0 \in 0 .. Max({0, h - 1})  BY <3>1, <3>2
    <3> QED  BY <3>1, <3>3 DEF h
  <2> QED  BY <1>3, <1>4, <2>1 DEF Inside, Resting
<1> QED  BY <1>5, <1>7, <1>8, <1>9, <1>10, <1>11 DEF ChaserInv

(* What reset makes of a layer.                                             *)
LEMMA ResetTyped ==
  ASSUME NEW l, NEW s \in LayerStates, Inside(l, s)
  PROVE  LET t == Reset(l, s)
         IN /\ t \in LayerStates /\ t.pos = 0 /\ t.moves = 0
            /\ l.name \in Timed => t.seen = s.seen /\ t.rem \in {0, s.rem}
            /\ l.name \in Johnsons => t.on = TRUE
            /\ s.seen = 0 => t.seen = 0
            /\ Inside(l, t) /\ Resting(l, t)
<1> DEFINE t == Reset(l, s)
<1>1. 0 \in Pixels /\ \A n : 0 \in 0 .. Max({0, N \div 2 - 1})
  <2> DEFINE h == N \div 2
  <2>1. h \in Nat /\ 0 \in Pixels  BY ChaserSizes DEF Pixels
  <2> HIDE DEF h
  <2>2. Max({0, h - 1}) = IF 0 > h - 1 THEN 0 ELSE h - 1  BY <2>1, MaxOfTwo
  <2>3. 0 \in 0 .. Max({0, h - 1})  BY <2>1, <2>2
  <2> QED  BY <2>1, <2>3 DEF h
<1>2. s.seen \in {0, N} /\ s.rem \in Int /\ N \in Nat \ {0}  BY ChaserSizes DEF LayerStates
<1>3. ASSUME t \in LayerStates, t.pos = 0 PROVE Inside(l, t) /\ Resting(l, t)
  <2>1. 0 \in 0 .. t.seen  BY <1>2, <1>3 DEF LayerStates
  <2> HIDE DEF t
  <2> QED  BY <1>1, <1>3, <2>1 DEF Inside, Resting
<1>4. CASE l.name \in Timed \ {"dots"}
  <2>0. l.name # "strobe"  BY <1>4, TimedNames
  <2>1. t = [NewLayer EXCEPT !.seen = s.seen]  BY <1>4, <2>0 DEF Reset
  <2> HIDE DEF t
  <2>2. t = LayerState(0, 0, TRUE, s.seen, 0)  BY <2>1 DEF NewLayer, LayerState
  <2>3. t \in LayerStates /\ t.pos = 0 /\ t.moves = 0 /\ t.rem = 0 /\ t.on = TRUE /\ t.seen = s.seen
    BY <1>2, <2>2 DEF LayerState, LayerStates
  <2> QED  BY <1>3, <2>3 DEF t
<1>5. CASE l.name = "strobe"
  <2>1. t = [NewLayer EXCEPT !.on = FALSE] /\ l.name \notin Timed  BY <1>5, TimedNames DEF Reset
  <2>2. l.name \notin Johnsons  BY <2>1 DEF Timed
  <2> HIDE DEF t
  <2>3. t = LayerState(0, 0, FALSE, 0, 0)  BY <2>1 DEF NewLayer, LayerState
  <2>4. t \in LayerStates /\ t.pos = 0 /\ t.moves = 0 /\ t.seen = 0
    BY <1>2, <2>3 DEF LayerState, LayerStates
  <2> QED  BY <1>3, <2>1, <2>2, <2>4 DEF t
<1>6. CASE l.name \notin (Timed \ {"dots"}) \cup {"strobe"}
  <2>1. t = [s EXCEPT !.pos = 0, !.moves = 0]  BY <1>6 DEF Reset
  <2>2. l.name \notin Johnsons  BY <1>6 DEF Timed, Johnsons
  <2> HIDE DEF t
  <2>3. t \in LayerStates /\ t.pos = 0 /\ t.moves = 0 /\ t.seen = s.seen /\ t.rem = s.rem
    BY <1>2, <2>1 DEF LayerStates
  <2> QED  BY <1>3, <2>2, <2>3 DEF t
<1> QED  BY <1>4, <1>5, <1>6

LEMMA ActivateKept ==
  ASSUME ChaserInv, ActivateChaser
  PROVE  ChaserInv'
<1>0. LayersTyped /\ ClockTyped /\ SeenAlike /\ Stepping /\ Pacing
      /\ \A k \in DOMAIN setup : Inside(setup[k], layers[k])
  BY DEF ChaserInv
<1>1. /\ layers' = [k \in DOMAIN setup |-> Reset(setup[k], layers[k])]
      /\ last_update' = Scaled(clock, time_scale)
      /\ steps' = 0 /\ early' = 0 /\ activated' = TRUE
      /\ base' = last_update' /\ highest' = base'
      /\ UNCHANGED <<status, by_events, unsteady, setup, clock, time_scale, level, pixels, mask>>
  BY DEF ActivateChaser
<1>2. \A k \in DOMAIN setup : /\ SoundLayer(setup[k]) /\ layers[k] \in LayerStates
                              /\ Inside(setup[k], layers[k]) /\ layers'[k] = Reset(setup[k], layers[k])
  BY <1>0, <1>1 DEF LayersTyped
<1>3. ASSUME NEW k \in DOMAIN setup
      PROVE  /\ layers'[k] \in LayerStates /\ layers'[k].pos = 0 /\ layers'[k].moves = 0
             /\ setup[k].name \in Timed => layers'[k].seen = layers[k].seen /\ layers'[k].rem \in {0, layers[k].rem}
             /\ setup[k].name \in Johnsons => layers'[k].on = TRUE
             /\ layers[k].seen = 0 => layers'[k].seen = 0
             /\ Inside(setup[k], layers'[k]) /\ Resting(setup[k], layers'[k])
  <2> DEFINE l == setup[k]  s == layers[k]  t == Reset(l, s)
  <2>1. s \in LayerStates /\ Inside(l, s) /\ layers'[k] = t  BY <1>2
  <2> HIDE DEF l, s
  <2>2. /\ t \in LayerStates /\ t.pos = 0 /\ t.moves = 0
        /\ l.name \in Timed => t.seen = s.seen /\ t.rem \in {0, s.rem}
        /\ l.name \in Johnsons => t.on = TRUE
        /\ s.seen = 0 => t.seen = 0
        /\ Inside(l, t) /\ Resting(l, t)
    BY <2>1, ResetTyped
  <2> HIDE DEF t
  <2> QED  BY <2>1, <2>2 DEF l, s
<1>5. LayersTyped'
  <2>1. layers' = [k \in DOMAIN setup' |-> layers'[k]]  BY <1>1
  <2>2. \A k \in DOMAIN setup' : layers'[k] \in LayerStates  BY <1>1, <1>3
  <2>3. mask' \in Masks /\ Row(pixels') /\ IsSequence(setup') /\ \A k \in DOMAIN setup' : SoundLayer(setup'[k])
    BY <1>0, <1>1 DEF LayersTyped
  <2> QED  BY <2>1, <2>2, <2>3 DEF LayersTyped
<1>6. Scaled(clock, time_scale) \in Nat
  <2>1. clock \in Nat /\ time_scale \in Nat  BY <1>0, ChaserAssumption DEF ClockTyped
  <2>2. clock * time_scale \in Nat  BY <2>1
  <2> QED  BY <2>2 DEF Scaled
<1>7. ClockTyped'
  <2>1. {by_events', activated', unsteady'} \subseteq BOOLEAN  BY <1>0, <1>1 DEF ClockTyped
  <2>2. {steps', early', base', highest'} \subseteq Nat  BY <1>1, <1>6
  <2>3. /\ status' \in {"absent", "refused", "running", "crashed"}
        /\ clock' \in Nat /\ time_scale' \in ChaserScales /\ level' \in Levels
    BY <1>0, <1>1 DEF ClockTyped
  <2>4. Scaled(clock, time_scale)' = Scaled(clock, time_scale)  BY <1>1 DEF Scaled
  <2>5. last_update' # -1 /\ last_update' \in 0 .. highest' /\ last_update' = Scaled(clock, time_scale)'
    BY <1>1, <1>6, <2>4
  <2> QED  BY <2>1, <2>2, <2>3, <2>5 DEF ClockTyped
<1>8. SeenAlike'
  <2> SUFFICES ASSUME NEW j \in DOMAIN setup, NEW k \in DOMAIN setup
               PROVE  /\ setup[k].name \notin Johnsons => layers'[k].seen = 0
                      /\ {setup[j].name, setup[k].name} \subseteq Johnsons => layers'[j].seen = layers'[k].seen
    BY <1>1 DEF SeenAlike
  <2>1. /\ setup[k].name \notin Johnsons => layers[k].seen = 0
        /\ {setup[j].name, setup[k].name} \subseteq Johnsons => layers[j].seen = layers[k].seen
    BY <1>0 DEF SeenAlike
  <2>2. \A i \in {j, k} : setup[i].name \in Johnsons => layers'[i].seen = layers[i].seen
    BY <1>3, TimedNames
  <2> QED  BY <1>3, <2>1, <2>2
<1>9. Stepping'
  <2>1. ASSUME by_events, NEW k \in DOMAIN setup
        PROVE  Follows(setup[k], layers'[k], 0, 0) /\ (setup[k].name \in Timed => layers'[k].rem = 0)
    <3>1. setup[k].name \in Timed => layers[k].rem = 0  BY <1>0, <2>1 DEF Stepping
    <3>2. setup[k].name \in Timed => layers'[k].rem = 0  BY <1>3, <3>1
    <3>3. layers'[k].pos = 0 /\ (setup[k].name \in Johnsons => layers'[k].on = TRUE)  BY <1>3
    <3> QED  BY <3>2, <3>3, AtStart
  <2> QED  BY <1>1, <2>1 DEF Stepping
<1>10. Pacing'
  <2> SUFFICES ASSUME ~by_events, NEW k \in DOMAIN setup, setup[k].name \in Timed, UpdateTimeOf(setup[k]) \notin {0, Live}
               PROVE  Pace(UpdateTimeOf(setup[k]), layers'[k].moves, layers'[k].rem, ChaserLag * time_scale,
                           last_update' - base', highest' - base', 0, last_update' = -1, ~ unsteady)
    BY <1>1 DEF Pacing, Paced, AtOnce, UpdateTimeOf
  <2>1. PICK time \in Nat : time = UpdateTimeOf(setup[k])  BY <1>2, UpdateTimeTyped
  <2>2. PICK lag \in Nat : lag = ChaserLag * time_scale
    <3>1. PICK ts \in Nat : ts = time_scale  BY <1>0, ChaserAssumption DEF ClockTyped
    <3>2. ChaserLag \in Nat  BY ChaserAssumption
    <3>3. ChaserLag * ts \in Nat  BY <3>2
    <3> QED  BY <3>1, <3>3
  <2>3. last_update' - base' = 0 /\ highest' - base' = 0 /\ last_update' # -1  BY <1>1, <1>6
  <2>4. Paced(time, layers[k])  BY <1>0, <2>1 DEF Pacing
  <2>5. layers[k].rem \in Int  BY <1>2 DEF LayerStates
  <2>6. layers[k].rem >= 0 /\ (~ unsteady => layers[k].rem <= time)  BY <2>4 DEF Paced, Pace
  <2>7. PICK r \in Nat : r = layers'[k].rem /\ (~ unsteady => r <= time)
    <3>1. layers'[k].rem \in {0, layers[k].rem}  BY <1>3
    <3> DEFINE r == layers'[k].rem  r0 == layers[k].rem
    <3>2. r \in {0, r0} /\ r0 \in Int /\ r0 >= 0 /\ (~ unsteady => r0 <= time)  BY <2>5, <2>6, <3>1
    <3> HIDE DEF r, r0
    <3>3. r \in Nat /\ (~ unsteady => r <= time)  BY <3>2
    <3> QED  BY <3>3 DEF r
  <2>8. 0 * (time + 1) = 0 /\ 0 * (time + lag) = 0  OBVIOUS
  <2>9. Pace(time, 0, r, lag, 0, 0, 0, last_update' = -1, ~ unsteady)
    BY <2>3, <2>7, <2>8 DEF Pace
  <2>10. layers'[k].moves = 0  BY <1>3
  <2> QED  BY <2>1, <2>2, <2>3, <2>7, <2>9, <2>10
<1>11. \A k \in DOMAIN setup' : Inside(setup'[k], layers'[k]) /\ Resting(setup'[k], layers'[k])
  BY <1>1, <1>3
<1> QED  BY <1>5, <1>7, <1>8, <1>9, <1>10, <1>11 DEF ChaserInv

-----------------------------------------------------------------------------
(* A cycle. *)

(* What a cycle that reads a clock makes of the layers.                     *)
Cycle(events, instant, elapsed) ==
  /\ layers' = [k \in DOMAIN setup |-> Ticked(setup[k], AfterEvents(events)[k], elapsed)]
  /\ last_update' = instant
  /\ base' = IF last_update < 0 THEN instant ELSE base
  /\ highest' = IF last_update < 0 THEN instant ELSE Max({highest, instant})
  /\ steps' = steps + events
  /\ early' = IF \E k \in DOMAIN layers : layers[k].seen = N THEN early ELSE early + events

LEMMA CycleLayers ==
  ASSUME ChaserInv, NEW events \in Nat, NEW instant \in Nat, NEW elapsed \in Int, Cycle(events, instant, elapsed),
         NEW k \in DOMAIN setup
  PROVE  LET l == setup[k]
             s == AfterEvents(events)[k]
         IN /\ SoundLayer(l) /\ layers'[k] = Ticked(l, s, elapsed)
            /\ s \in LayerStates /\ Inside(l, s) /\ s.seen = layers[k].seen
            /\ l.name \in Timed => s.rem = layers[k].rem
            /\ events = 0 => s = layers[k]
            /\ Follows(l, layers[k], steps, early) =>
                 Follows(l, s, steps + events, early + IF layers[k].seen = N THEN 0 ELSE events)
            /\ layers'[k] \in LayerStates /\ Inside(l, layers'[k]) /\ Resting(l, layers'[k])
            /\ layers'[k].seen = IF l.name \in Johnsons THEN N ELSE layers[k].seen
<1> DEFINE l == setup[k]
           s == AfterEvents(events)[k]
<1>0. LayersTyped /\ ClockTyped /\ Inside(setup[k], layers[k])  BY DEF ChaserInv
<1>1. layers'[k] = Ticked(l, s, elapsed)  BY DEF Cycle
<1>2. SoundLayer(l) /\ level \in Levels /\ steps \in Nat /\ early \in Nat  BY <1>0 DEF LayersTyped, ClockTyped
<1>3. /\ s \in LayerStates /\ Inside(l, s) /\ s.seen = layers[k].seen
      /\ l.name \in Timed => s.rem = layers[k].rem
      /\ events = 0 => s = layers[k]
      /\ Follows(l, layers[k], steps, early) =>
           Follows(l, s, steps + events, early + IF layers[k].seen = N THEN 0 ELSE events)
  BY <1>0, <1>2, EventsKept
<1> HIDE DEF l, s
<1> DEFINE t == Ticked(l, s, elapsed)
<1>4. t \in LayerStates /\ Inside(l, t) /\ Resting(l, t) /\ t.seen = IF l.name \in Johnsons THEN N ELSE s.seen
  BY <1>2, <1>3, TickedTyped
<1> HIDE DEF t
<1>5. /\ layers'[k] \in LayerStates /\ Inside(l, layers'[k]) /\ Resting(l, layers'[k])
      /\ layers'[k].seen = IF l.name \in Johnsons THEN N ELSE s.seen
  BY <1>1, <1>4 DEF t
<1> QED  BY <1>1, <1>2, <1>3, <1>5 DEF l, s

LEMMA CycleSeen ==
  ASSUME ChaserInv, NEW events \in Nat, NEW instant \in Nat, NEW elapsed \in Int, Cycle(events, instant, elapsed),
         setup' = setup
  PROVE  SeenAlike'
<1> SUFFICES ASSUME NEW j \in DOMAIN setup, NEW k \in DOMAIN setup
             PROVE  /\ setup[k].name \notin Johnsons => layers'[k].seen = 0
                    /\ {setup[j].name, setup[k].name} \subseteq Johnsons => layers'[j].seen = layers'[k].seen
  BY DEF SeenAlike
<1>1. setup[k].name \notin Johnsons => layers[k].seen = 0  BY DEF ChaserInv, SeenAlike
<1>2. \A i \in {j, k} : layers'[i].seen = IF setup[i].name \in Johnsons THEN N ELSE layers[i].seen
  BY CycleLayers
<1> QED  BY <1>1, <1>2

(* In event mode the layers follow the events of the cycle.                 *)
LEMMA CycleSteps ==
  ASSUME ChaserInv, NEW events \in Nat, NEW instant \in Nat, Cycle(events, instant, 0), by_events,
         UNCHANGED <<by_events, setup>>
  PROVE  Stepping'
<1> SUFFICES ASSUME NEW k \in DOMAIN setup
             PROVE  /\ Follows(setup[k], layers'[k], steps', early')
                    /\ setup[k].name \in Timed => layers'[k].rem = 0
  BY DEF Stepping
<1> DEFINE l == setup[k]
           s == AfterEvents(events)[k]
           ea == early + IF layers[k].seen = N THEN 0 ELSE events
<1>0. Stepping /\ SeenAlike /\ LayersTyped  BY DEF ChaserInv
<1>1. /\ SoundLayer(l) /\ layers'[k] = Ticked(l, s, 0) /\ s \in LayerStates
      /\ l.name \in Timed => s.rem = layers[k].rem
      /\ Follows(l, layers[k], steps, early) => Follows(l, s, steps + events, ea)
  BY CycleLayers
<1>2. Follows(l, layers[k], steps, early) /\ (l.name \in Timed => layers[k].rem = 0)
  BY <1>0 DEF Stepping
<1>3. CASE l.name \notin Timed
  <2>1. l.name \notin Waves \cup {"dots", "johnson__fwd", "johnson__rev"}  BY <1>3 DEF Timed, Johnsons
  <2> QED  BY <1>3, <2>1 DEF Follows
<1>4. CASE l.name \in Timed
  <2>1. s.rem = 0 /\ Follows(l, s, steps', ea)  BY <1>1, <1>2, <1>4 DEF Cycle
  <2> HIDE DEF l, s, ea
  <2>2. layers'[k].rem = 0 /\ Follows(l, layers'[k], steps', ea)  BY <1>1, <1>4, <2>1, TickedByEvents
  <2>3. CASE l.name \in Johnsons
    <3>1. layers[k].seen \in {0, N} /\ N # 0  BY <1>0, ChaserSizes DEF LayersTyped, LayerStates
    <3>2. DOMAIN layers = DOMAIN setup  BY <1>0 DEF LayersTyped
    <3>3. (\E j \in DOMAIN layers : layers[j].seen = N) <=> layers[k].seen = N
      BY <1>0, <2>3, <3>1, <3>2 DEF SeenAlike, l
    <3>4. early \in Nat  BY DEF ChaserInv, ClockTyped
    <3>5. early' = ea  BY <3>3, <3>4 DEF Cycle, ea
    <3> QED  BY <2>2, <3>5 DEF l
  <2>4. CASE l.name \notin Johnsons
    <3>1. Follows(l, layers'[k], steps', early')  BY <2>2, <2>4 DEF Follows, Johnsons
    <3> QED  BY <2>2, <3>1 DEF l
  <2> QED  BY <2>3, <2>4
<1> QED  BY <1>3, <1>4

(* The clock of a cycle, which is never behind.                             *)
LEMMA CycleClock ==
  ASSUME ChaserInv, NEW events \in Nat, NEW instant \in Nat, NEW elapsed \in Int, Cycle(events, instant, elapsed),
         UNCHANGED <<by_events, activated>>, instant = Scaled(clock, time_scale)',
         clock' \in Nat, time_scale' \in ChaserScales, level' \in Levels, unsteady' \in BOOLEAN,
         status' \in {"absent", "refused", "running", "crashed"}
  PROVE  ClockTyped' /\ instant <= highest'
<1>0. ClockTyped  BY DEF ChaserInv
<1>1. {steps, early, base, highest} \subseteq Nat /\ {by_events, activated} \subseteq BOOLEAN
  BY <1>0 DEF ClockTyped
<1>2. highest' \in Nat /\ instant <= highest'
  <2>1. highest \in Int /\ instant \in Int  BY <1>1
  <2>2. Max({highest, instant}) = IF highest > instant THEN highest ELSE instant  BY <2>1, MaxOfTwo
  <2>3. highest' = IF last_update < 0 THEN instant ELSE Max({highest, instant})  BY DEF Cycle
  <2> QED  BY <1>1, <2>2, <2>3
<1>3. base' \in Nat /\ steps' \in Nat /\ early' \in Nat  BY <1>1 DEF Cycle
<1>4. last_update' = instant /\ instant \in 0 .. highest' /\ instant # -1  BY <1>2 DEF Cycle
<1>5. {by_events', activated', unsteady'} \subseteq BOOLEAN  BY <1>1
<1> QED  BY <1>2, <1>3, <1>4, <1>5 DEF ClockTyped

(* Without events the layers keep their pace.                               *)
LEMMA CyclePace ==
  ASSUME ChaserInv, NEW instant \in Nat, Cycle(0, instant, instant - last_update), ~ by_events,
         NEW lag \in 1 .. ChaserLag, NEW factor \in ChaserScales,
         clock' = clock + lag, time_scale' = factor, instant = (clock + lag) * factor,
         unsteady' = (unsteady \/ factor # time_scale),
         UNCHANGED <<by_events, setup, activated>>
  PROVE  Pacing'
<1> SUFFICES ASSUME NEW k \in DOMAIN setup, setup[k].name \in Timed, UpdateTimeOf(setup[k]) \notin {0, Live}
             PROVE  Pace(UpdateTimeOf(setup[k]), layers'[k].moves, layers'[k].rem, ChaserLag * time_scale',
                         last_update' - base', highest' - base',
                         IF activated THEN 0 ELSE UpdateTimeOf(setup[k]) + 1, last_update' = -1, ~ unsteady')
  BY DEF Pacing, Paced, AtOnce, UpdateTimeOf
<1> DEFINE elapsed == instant - last_update
<1>0. ClockTyped /\ LayersTyped /\ Pacing  BY DEF ChaserInv
<1>1. PICK time \in Nat \ {0} : time = UpdateTimeOf(setup[k])
  <2>1. SoundLayer(setup[k])  BY <1>0 DEF LayersTyped
  <2> QED  BY <2>1, UpdateTimeTyped
<1>2. /\ last_update \in Int /\ highest \in Nat /\ base \in Nat /\ activated \in BOOLEAN /\ unsteady \in BOOLEAN
      /\ clock \in Nat /\ time_scale \in Nat
  BY <1>0, ChaserAssumption DEF ClockTyped
<1>3. elapsed \in Int  BY <1>2
<1>4. /\ layers[k] \in LayerStates
      /\ IF layers[k].rem - elapsed < 0 THEN layers'[k].rem = time /\ layers'[k].moves = layers[k].moves + 1
         ELSE layers'[k].rem = layers[k].rem - elapsed /\ layers'[k].moves = layers[k].moves
  <2> DEFINE l == setup[k]  s == layers[k]  t == Ticked(l, s, elapsed)
  <2>1. Cycle(0, instant, elapsed) /\ 0 \in Nat  OBVIOUS
  <2>2. AfterEvents(0)[k] = layers[k]
    <3> HIDE DEF elapsed
    <3> QED  BY <1>3, <2>1, CycleLayers
  <2>3. SoundLayer(l) /\ layers'[k] = Ticked(l, AfterEvents(0)[k], elapsed)
    <3> HIDE DEF elapsed
    <3> QED  BY <1>3, <2>1, CycleLayers
  <2>4. s \in LayerStates /\ Inside(l, s)  BY DEF ChaserInv, LayersTyped
  <2>5. l.name \in Timed /\ UpdateTimeOf(l) \notin {0, Live}  OBVIOUS
  <2>6. layers'[k] = t  BY <2>2, <2>3
  <2> HIDE DEF l, s, elapsed
  <2>7. IF s.rem - elapsed < 0 THEN t.rem = UpdateTimeOf(l) /\ t.moves = s.moves + 1
        ELSE t.rem = s.rem - elapsed /\ t.moves = s.moves
    BY <1>3, <2>3, <2>4, <2>5, TickedByTime
  <2> HIDE DEF t
  <2> QED  BY <1>1, <2>4, <2>6, <2>7 DEF l, s
<1>5. PICK m \in Nat, r \in Int : m = layers[k].moves /\ r = layers[k].rem  BY <1>4 DEF LayerStates
<1>6. PICK once \in Nat : once = IF activated THEN 0 ELSE time + 1  OBVIOUS
<1>7. PICK old \in Nat : old = ChaserLag * time_scale
  <2>1. PICK ts \in Nat : ts = time_scale  BY <1>2
  <2>2. ChaserLag \in Nat  BY ChaserAssumption
  <2>3. ChaserLag * ts \in Nat  BY <2>2
  <2> QED  BY <2>1, <2>3
<1>8. PICK new \in Nat : new = ChaserLag * time_scale'
  <2>1. factor \in Nat /\ ChaserLag \in Nat  BY ChaserAssumption
  <2>2. ChaserLag * factor \in Nat  BY <2>1
  <2> QED  BY <2>2
<1>9. Pace(time, m, r, old, last_update - base, highest - base, once, last_update = -1, ~ unsteady)
  <2>1. Paced(time, layers[k])  BY <1>0, <1>1 DEF Pacing
  <2> QED  BY <1>5, <1>6, <1>7, <2>1 DEF Paced, AtOnce
<1>10. last_update' = instant /\ instant # -1 /\ (last_update' = -1) = FALSE  BY DEF Cycle
<1>11. CASE last_update = -1
  <2>1. m = 0 /\ r = 0 /\ ~ activated  BY <1>0, <1>9, <1>11 DEF Pace, ClockTyped
  <2>2. base' = instant /\ highest' = instant  BY <1>11 DEF Cycle
  <2>3. r - elapsed < 0  BY <1>11, <2>1
  <2>4. layers'[k].rem = time /\ layers'[k].moves = 1  BY <1>4, <1>5, <2>1, <2>3
  <2>5. last_update' - base' = 0 /\ highest' - base' = 0  BY <1>10, <2>2
  <2>6. once = time + 1  BY <1>6, <2>1
  <2>7. Pace(time, 1, time, new, 0, 0, time + 1, last_update' = -1, ~ unsteady')
    BY <1>10 DEF Pace
  <2> QED  BY <1>1, <1>6, <1>8, <2>4, <2>5, <2>6, <2>7
<1>12. CASE last_update # -1
  <2>1. last_update \in Nat  BY <1>0, <1>12 DEF ClockTyped
  <2>2. base' = base /\ highest' = Max({highest, instant})  BY <2>1 DEF Cycle
  <2>3. highest' \in Nat /\ highest' >= highest /\ highest' >= instant
    <3>1. Max({highest, instant}) = IF highest > instant THEN highest ELSE instant  BY <1>2, MaxOfTwo
    <3> QED  BY <1>2, <2>2, <3>1
  <2>4. PICK passed \in Int, ahead \in Int, ahead2 \in Int :
          passed = last_update - base /\ ahead = highest - base /\ ahead2 = highest' - base'
    BY <1>2, <2>2, <2>3
  <2>5. PICK e \in Int : e = elapsed  BY <1>3
  <2>6. last_update' - base' = passed + e /\ ahead2 >= ahead /\ ahead2 >= passed + e
    BY <1>2, <1>10, <2>2, <2>3, <2>4, <2>5
  <2>7. ~ unsteady' => ~ unsteady /\ new = old /\ 0 <= e /\ e <= old
    <3> SUFFICES ASSUME ~ unsteady' PROVE ~ unsteady /\ new = old /\ 0 <= e /\ e <= old
      OBVIOUS
    <3>1. ~ unsteady /\ factor = time_scale  OBVIOUS
    <3>2. last_update = clock * time_scale  BY <1>0, <1>12, <3>1 DEF ClockTyped, Scaled
    <3>3. PICK ts \in Nat, c \in Nat, cl \in Nat : ts = time_scale /\ c = clock /\ cl = ChaserLag  BY <1>2, ChaserAssumption
    <3>4. e = (c + lag) * ts - c * ts  BY <2>5, <3>1, <3>2, <3>3
    <3>5. lag \in Nat /\ lag <= cl  BY <3>3
    <3>6. (c + lag) * ts - c * ts = lag * ts /\ 0 <= lag * ts /\ lag * ts <= cl * ts
      <4>1. cl = lag + (cl - lag) /\ cl - lag \in Nat  BY <3>5
      <4>2. cl * ts = lag * ts + (cl - lag) * ts /\ (cl - lag) * ts >= 0 /\ lag * ts >= 0  BY <3>5, <4>1
      <4>3. (c + lag) * ts = c * ts + lag * ts  BY <3>5
      <4> QED  BY <3>5, <4>2, <4>3
    <3>7. old = cl * ts /\ new = cl * ts  BY <1>7, <1>8, <3>1, <3>3
    <3> QED  BY <3>1, <3>4, <3>6, <3>7
  <2>8. PICK steady \in BOOLEAN : steady = ~ unsteady  OBVIOUS
  <2>9. PICK steady2 \in BOOLEAN : steady2 = ~ unsteady'  OBVIOUS
  <2>10. steady2 => steady /\ new = old /\ 0 <= e /\ e <= old  BY <2>7, <2>8, <2>9
  <2>11. PICK first \in BOOLEAN : first = (last_update' = -1)  OBVIOUS
  <2>12. ~ first /\ time \in Nat  BY <1>10, <2>11
  <2>13. Pace(time, m, r, old, passed, ahead, once, first, steady)
    BY <1>9, <1>12, <2>4, <2>8, <2>12 DEF Pace
  <2>14. IF r - e < 0 THEN Pace(time, m + 1, time, new, passed + e, ahead2, once, first, steady2)
         ELSE Pace(time, m, r - e, new, passed + e, ahead2, once, first, steady2)
    <3> DEFINE x == m * (time + 1)
               x2 == (m + 1) * (time + 1)
               y == m * (time + old)
               y2 == (m + 1) * (time + old)
    <3>0. /\ time \in Nat /\ m \in Nat /\ r \in Int /\ old \in Nat /\ new \in Nat /\ once \in Nat
          /\ passed \in Int /\ ahead \in Int /\ ahead2 \in Int /\ e \in Int
      BY <1>1, <1>5, <1>6, <1>7, <1>8, <2>4, <2>5
    <3>1. x \in Int /\ x2 = x + time + 1 /\ y \in Int /\ y2 = y + time + old  BY <3>0
    <3>2. /\ r >= 0 /\ x <= time + ahead + once /\ x - r <= passed + once
          /\ steady => r <= time /\ passed <= y + time - r
      BY <2>13, <2>12 DEF Pace
    <3>3. CASE r - e < 0
      <4>1. steady2 => passed + e <= (m + 1) * (time + new) + time - time
        <5>1. steady2 => passed + e <= y2 + time - time
          <6> HIDE DEF x, x2, y, y2
          <6> QED  BY <2>10, <3>0, <3>1, <3>2
        <5> QED  BY <2>10, <5>1
      <4>2. x2 <= time + ahead2 + once /\ x2 - time <= passed + e + once
        <5> HIDE DEF x, x2, y, y2
        <5> QED  BY <2>6, <3>0, <3>1, <3>2, <3>3
      <4>3. Pace(time, m + 1, time, new, passed + e, ahead2, once, first, steady2)
        BY <2>12, <3>0, <4>1, <4>2 DEF Pace
      <4> QED  BY <3>3, <4>3
    <3>4. CASE ~(r - e < 0)
      <4>1. steady2 => r - e <= time /\ passed + e <= m * (time + new) + time - (r - e)
        <5>1. steady2 => r - e <= time /\ passed + e <= y + time - (r - e)
          <6> HIDE DEF x, x2, y, y2
          <6> QED  BY <2>10, <3>0, <3>1, <3>2
        <5> QED  BY <2>10, <5>1
      <4>2. r - e >= 0 /\ x <= time + ahead2 + once /\ x - (r - e) <= passed + e + once
        <5> HIDE DEF x, x2, y, y2
        <5> QED  BY <2>6, <3>0, <3>1, <3>2, <3>4
      <4>3. Pace(time, m, r - e, new, passed + e, ahead2, once, first, steady2)
        BY <2>12, <3>0, <4>1, <4>2 DEF Pace
      <4> QED  BY <3>4, <4>3
    <3> QED  BY <3>3, <3>4
  <2>15. Pace(time, layers'[k].moves, layers'[k].rem, new, passed + e, ahead2, once, first, steady2)
    BY <1>4, <1>5, <2>5, <2>14
  <2>16. Pace(time, layers'[k].moves, layers'[k].rem, new, passed + e, ahead2, once, last_update' = -1, ~ unsteady')
    BY <2>11, <2>9, <2>15
  <2> QED  BY <1>1, <1>6, <1>8, <2>4, <2>6, <2>16
<1> QED  BY <1>11, <1>12

LEMMA UpdateKept ==
  ASSUME ChaserInv, UpdateChaser
  PROVE  ChaserInv'
<1>0. LayersTyped /\ ClockTyped /\ SeenAlike /\ Stepping /\ Pacing  BY DEF ChaserInv
<1>1. PICK lag \in 1..ChaserLag, factor \in ChaserScales, events \in 0..ChaserEvents :
       /\ IF by_events THEN steps + events <= ChaserEvents /\ lag = 1 /\ factor = time_scale
                       ELSE clock + lag <= ChaserTime /\ events = 0
       /\ clock' = IF by_events THEN clock ELSE clock + lag
       /\ time_scale' = factor
       /\ LET instant == Scaled(clock', factor)
          IN /\ last_update' = instant
             /\ layers' = [k \in DOMAIN setup |->
                  Ticked(setup[k], AfterEvents(events)[k],
                         IF by_events THEN 0 ELSE instant - last_update)]
             /\ base' = IF last_update < 0 THEN instant ELSE base
             /\ highest' = IF last_update < 0 THEN instant ELSE Max({highest, instant})
       /\ steps' = steps + events
       /\ early' = IF \E k \in DOMAIN layers : layers[k].seen = N THEN early ELSE early + events
       /\ unsteady' = (unsteady \/ factor # time_scale)
  BY DEF UpdateChaser
<1>2. /\ level' \in Levels /\ UNCHANGED <<by_events, setup, activated>>
      /\ IF \E k \in DOMAIN setup : Fails(setup[k])
         THEN status' = "crashed" /\ UNCHANGED <<pixels, mask>>
         ELSE status' = status /\ \E r \in Execute(layers') : pixels' = r.pixels /\ mask' = r.mask
  BY DEF UpdateChaser
<1> DEFINE instant == Scaled(clock', factor)
           elapsed == IF by_events THEN 0 ELSE instant - last_update
<1>3. /\ clock \in Nat /\ factor \in Nat /\ lag \in Nat /\ events \in Nat /\ last_update \in Int
      /\ {by_events, activated, unsteady} \subseteq BOOLEAN
  <2>1. ChaserLag \in Nat /\ ChaserEvents \in Nat /\ factor \in Nat  BY ChaserAssumption
  <2> QED  BY <1>0, <2>1 DEF ClockTyped
<1>4. clock' \in Nat  BY <1>1, <1>3
<1>5. instant \in Nat
  <2>1. PICK c \in Nat : c = clock'  BY <1>4
  <2>2. c * factor \in Nat  BY <1>3
  <2> QED  BY <2>1, <2>2 DEF Scaled
<1>6. elapsed \in Int  BY <1>3, <1>5
<1>7. Cycle(events, instant, elapsed)  BY <1>1 DEF Cycle
<1>8. instant = Scaled(clock, time_scale)'  BY <1>1, <1>2 DEF Scaled
<1>9. ~ by_events => events = 0 /\ elapsed = instant - last_update /\ instant = (clock + lag) * factor /\ clock' = clock + lag
  BY <1>1 DEF Scaled
<1>10. by_events => elapsed = 0  OBVIOUS
<1> HIDE DEF instant, elapsed
<1>11. \A k \in DOMAIN setup : layers'[k] \in LayerStates /\ Inside(setup[k], layers'[k]) /\ Resting(setup[k], layers'[k])
  BY <1>3, <1>5, <1>6, <1>7, CycleLayers
<1>12. mask' \in Masks /\ Row(pixels')
  <2>1. CASE \E k \in DOMAIN setup : Fails(setup[k])
    <3>1. pixels' = pixels /\ mask' = mask  BY <1>2, <2>1
    <3> QED  BY <1>0, <3>1 DEF LayersTyped
  <2>2. CASE ~ \E k \in DOMAIN setup : Fails(setup[k])
    <3>1. PICK r \in Execute(layers') : pixels' = r.pixels /\ mask' = r.mask  BY <1>2, <2>2
    <3>2. level \in Levels  BY <1>0 DEF ClockTyped
    <3>3. r.mask \in Masks /\ Row(r.pixels)  BY <1>0, <1>11, <2>2, <3>2, ExecuteTyped
    <3> QED  BY <3>1, <3>3
  <2> QED  BY <2>1, <2>2
<1>13. LayersTyped'
  <2>1. layers' = [k \in DOMAIN setup |-> layers'[k]]  BY <1>7 DEF Cycle
  <2>2. IsSequence(setup) /\ \A k \in DOMAIN setup : SoundLayer(setup[k])  BY <1>0 DEF LayersTyped
  <2> QED  BY <1>2, <1>11, <1>12, <2>1, <2>2 DEF LayersTyped
<1>14. ClockTyped'
  <2>1. status' \in {"absent", "refused", "running", "crashed"}  BY <1>0, <1>2 DEF ClockTyped
  <2>2. unsteady' \in BOOLEAN  BY <1>1, <1>3
  <2>3. time_scale' \in ChaserScales  BY <1>1
  <2> QED  BY <1>2, <1>3, <1>4, <1>5, <1>6, <1>7, <1>8, <2>1, <2>2, <2>3, CycleClock
<1>15. SeenAlike'  BY <1>2, <1>3, <1>5, <1>6, <1>7, CycleSeen
<1>16. Stepping'
  <2>1. CASE by_events
    <3>1. Cycle(events, instant, 0)  BY <1>7, <1>10, <2>1
    <3> QED  BY <1>2, <1>3, <1>5, <2>1, <3>1, CycleSteps
  <2>2. CASE ~ by_events  BY <1>2, <2>2 DEF Stepping
  <2> QED  BY <2>1, <2>2
<1>17. Pacing'
  <2>1. CASE by_events  BY <1>2, <2>1 DEF Pacing
  <2>2. CASE ~ by_events
    <3>1. Cycle(0, instant, instant - last_update)  BY <1>7, <1>9, <2>2
    <3> QED  BY <1>1, <1>2, <1>5, <1>9, <2>2, <3>1, CyclePace
  <2> QED  BY <2>1, <2>2
<1>18. \A k \in DOMAIN setup' : Inside(setup'[k], layers'[k]) /\ Resting(setup'[k], layers'[k])  BY <1>2, <1>11
<1> QED  BY <1>13, <1>14, <1>15, <1>16, <1>17, <1>18 DEF ChaserInv

LEMMA ChaserStepKept == ChaserInv /\ [ChaserNext]_chaserVars => ChaserInv'
<1> SUFFICES ASSUME ChaserInv, [ChaserNext]_chaserVars PROVE ChaserInv'
  OBVIOUS
<1>1. CASE \E cfg \in ChaserConfigs : ReceiveConfig(cfg)  BY <1>1, ConfigKept
<1>2. CASE ActivateChaser  BY <1>2, ActivateKept
<1>3. CASE UpdateChaser  BY <1>3, UpdateKept
<1>4. CASE UNCHANGED chaserVars
  <2>1. /\ UNCHANGED <<status, by_events, setup, layers, last_update, clock, time_scale>>
        /\ UNCHANGED <<level, pixels, mask, steps, early, base, highest, activated, unsteady>>
    BY <1>4 DEF chaserVars, ghosts
  <2>2. LayersTyped' /\ ClockTyped'  BY <2>1 DEF ChaserInv, LayersTyped, ClockTyped, Scaled
  <2>3. SeenAlike' /\ Stepping' /\ Pacing'
    BY <2>1 DEF ChaserInv, SeenAlike, Stepping, Pacing, Paced, AtOnce
  <2> QED  BY <2>1, <2>2, <2>3 DEF ChaserInv
<1> QED  BY <1>1, <1>2, <1>3, <1>4 DEF ChaserNext

(* The colour chaser keeps its masks within 16 bits and its layers within   *)
(* the row, moves them with the events of its sender, none lost and none    *)
(* twice, and otherwise at the pace of the scaled time, whatever            *)
(* configurations, activations and cycles come (color_chaser.cpp:120-162).  *)
THEOREM ChaserSoundAlways == ChaserSpec => []ChaserSound
<1>1. ChaserInit => ChaserInv  BY ChaserInitInv
<1>2. ChaserInv /\ [ChaserNext]_chaserVars => ChaserInv'  BY ChaserStepKept
<1>3. ChaserInv => ChaserSound  BY ChaserInvSound
<1> QED  BY <1>1, <1>2, <1>3, PTL DEF ChaserSpec
=============================================================================
