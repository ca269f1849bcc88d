-------------------------- MODULE FilterScheduling --------------------------
(***************************************************************************)
(* executioners/scene_factory: schedule_filters puts the filters of a      *)
(* scene into an order in which every filter comes after those it takes    *)
(* its inputs from, in rounds over a queue of the filters not yet placed;  *)
(* connect_filters then walks that order and links the inputs of each      *)
(* filter to the output channels announced so far.  Filters are numbered   *)
(* in the order of the show file and have different ids; what building and *)
(* setting up a filter does, and the exceptions of it, are left out.       *)
(***************************************************************************)
EXTENDS Integers, Sequences, FiniteSets

CONSTANTS
  NFilters,    \* filters of the scene
  Provided,    \* the output channels of a filter: those get_output_channels adds
  Wirings      \* the channel links scenes may have: functions from filters to
               \* sets of <<filter, channel>>

Filter == 1 .. NFilters
Unknown == 0                   \* a filter id the scene does not have
Channel == UNION { Provided[f] : f \in Filter }

ASSUME FilterSchedulingAssumption ==
  /\ NFilters \in Nat
  /\ DOMAIN Provided = Filter
  /\ \A w \in Wirings :
       DOMAIN w = Filter /\ \A f \in Filter : \A l \in w[f] :
         l = <<l[1], l[2]>> /\ l[1] \in Filter \cup {Unknown}

VARIABLES
  channellink,             \* the links of the scene
  missing_filter_stack, resolved_filters,
  fv,                      \* filters in the order of their update
  b,                       \* fv.size() at the end of every round
  i, placed_filter,        \* of the round
  cm,                      \* output channels announced so far
  connected,               \* filters of fv connected so far
  place

schedulingVars == <<channellink, missing_filter_stack, resolved_filters, fv, b, i,
                    placed_filter, cm, connected, place>>
scheduled == <<missing_filter_stack, resolved_filters, fv, b, i, placed_filter>>

Ended == {"done", "cyclic", "unknown_channel"}

SchedulingInit ==
  /\ channellink \in Wirings
  /\ missing_filter_stack = [n \in Filter |-> n]
  /\ resolved_filters = {} /\ fv = <<>> /\ b = <<>>
  /\ i = 0 /\ placed_filter = FALSE
  /\ cm = {} /\ connected = 0
  /\ place = IF NFilters = 0 THEN "connect" ELSE "round"

Deps(f) == { l[1] : l \in channellink[f] }

(* Mutant: one of the links is enough.                                     *)
AnyDepClear(f) == Deps(f) = {} \/ Deps(f) \cap resolved_filters # {}

AllDepsClear(f) == Deps(f) \subseteq resolved_filters
-----------------------------------------------------------------------------
(* One turn of the round's loop, whose bound is the current size of the    *)
(* queue: a filter that is placed shortens the round.                      *)
InRound == place = "round" /\ i < Len(missing_filter_stack)

PlaceFilter ==
  /\ InRound
  /\ LET f == Head(missing_filter_stack)
     IN /\ AllDepsClear(f)
        /\ fv' = Append(fv, f)
        /\ resolved_filters' = resolved_filters \cup {f}
  /\ missing_filter_stack' = Tail(missing_filter_stack)
  /\ placed_filter' = TRUE
  /\ i' = i + 1
  /\ UNCHANGED <<channellink, b, cm, connected, place>>

PostponeFilter ==
  /\ InRound
  /\ LET f == Head(missing_filter_stack)
     IN /\ ~AllDepsClear(f)
        /\ missing_filter_stack' = Append(Tail(missing_filter_stack), f)
  /\ i' = i + 1
  /\ UNCHANGED <<channellink, resolved_filters, fv, b, placed_filter, cm,
                 connected, place>>

(* Mutant: a round that placed nothing is tried again.                     *)
EndRoundRepeated ==
  /\ place = "round" /\ i >= Len(missing_filter_stack)
  /\ b' = IF placed_filter THEN Append(b, Len(fv)) ELSE b
  /\ place' = IF missing_filter_stack = <<>> THEN "connect" ELSE "round"
  /\ i' = 0 /\ placed_filter' = FALSE
  /\ UNCHANGED <<channellink, missing_filter_stack, resolved_filters, fv, cm,
                 connected>>

(* Mutant: a round that places a single filter counts as stuck.            *)
EndRoundImpatient ==
  /\ place = "round" /\ i >= Len(missing_filter_stack)
  /\ IF placed_filter /\ (b = <<>> \/ Len(fv) > b[Len(b)] + 1 \/ missing_filter_stack = <<>>)
       THEN /\ b' = Append(b, Len(fv))
            /\ place' = IF missing_filter_stack = <<>> THEN "connect" ELSE "round"
       ELSE place' = "cyclic" /\ UNCHANGED b
  /\ i' = 0 /\ placed_filter' = FALSE
  /\ UNCHANGED <<channellink, missing_filter_stack, resolved_filters, fv, cm,
                 connected>>

(* A round that placed nothing is the scheduling exception.                *)
EndRound ==
  /\ place = "round" /\ i >= Len(missing_filter_stack)
  /\ IF placed_filter
       THEN /\ b' = Append(b, Len(fv))
            /\ place' = IF missing_filter_stack = <<>> THEN "connect" ELSE "round"
       ELSE place' = "cyclic" /\ UNCHANGED b
  /\ i' = 0 /\ placed_filter' = FALSE
  /\ UNCHANGED <<channellink, missing_filter_stack, resolved_filters, fv, cm,
                 connected>>

(* Mutant: the channels announced by earlier filters are forgotten.        *)
ConnectFilterLate ==
  /\ place = "connect" /\ connected < Len(fv)
  /\ LET f == fv[connected + 1]
     IN /\ cm' = {f} \X Provided[f]
        /\ IF channellink[f] \subseteq cm'
             THEN connected' = connected + 1 /\ UNCHANGED place
             ELSE place' = "unknown_channel" /\ UNCHANGED connected
  /\ UNCHANGED <<channellink, scheduled>>

(* get_output_channels, construct_channel_input_mapping and setup_filter   *)
(* of the next filter.                                                     *)
ConnectFilter ==
  /\ place = "connect" /\ connected < Len(fv)
  /\ LET f == fv[connected + 1]
     IN /\ cm' = cm \cup ({f} \X Provided[f])
        /\ IF channellink[f] \subseteq cm'
             THEN connected' = connected + 1 /\ UNCHANGED place
             ELSE place' = "unknown_channel" /\ UNCHANGED connected
  /\ UNCHANGED <<channellink, scheduled>>

AllConnected ==
  /\ place = "connect" /\ connected = Len(fv)
  /\ place' = "done"
  /\ UNCHANGED <<channellink, scheduled, cm, connected>>

SchedulingNext ==
  PlaceFilter \/ PostponeFilter \/ EndRound \/ ConnectFilter \/ AllConnected

(* The code is sequential: it goes on until it returns or throws.          *)
SchedulingSpec == SchedulingInit /\ [][SchedulingNext]_schedulingVars /\ WF_schedulingVars(SchedulingNext)
-----------------------------------------------------------------------------
SchedulingTypeOK ==
  /\ channellink \in Wirings
  /\ missing_filter_stack \in Seq(Filter) /\ fv \in Seq(Filter)
  /\ resolved_filters = { fv[n] : n \in DOMAIN fv }
  /\ b \in Seq(Nat)
  /\ i \in 0 .. NFilters /\ placed_filter \in BOOLEAN
  /\ connected \in 0 .. Len(fv)
  /\ place \in {"round", "connect"} \cup Ended

(* Every filter is updated after those it reads (scene_factory.cpp:585-602,*)
(* scene.hpp:54): its inputs are those of the same cycle.                  *)
InputsFirst ==
  \A n \in DOMAIN fv : \A d \in Deps(fv[n]) : \E m \in 1 .. n - 1 : fv[m] = d

(* A set of filters each of which needs one of the set, or one that the    *)
(* scene does not have: it has no order, and without such a set the links  *)
(* have one.                                                               *)
Unorderable ==
  \E U \in SUBSET Filter :
    U # {} /\ \A f \in U : Deps(f) \cap (U \cup {Unknown}) # {}

(* A scene is rejected as cyclic exactly if its filters have no order: a   *)
(* round visits only some of the filters, yet a round that places none has *)
(* visited all of them (scene_factory.cpp:582, 608).                       *)
RejectsOnlyUnorderable ==
  /\ place = "cyclic" => Unorderable
  /\ place \in {"connect", "done", "unknown_channel"} => ~Unorderable

(* A link to an output channel is found exactly if some filter provides    *)
(* it, although connect_filters looks only at the filters placed so far.   *)
LinksFound ==
  LET provided(f) == \A l \in channellink[f] : l[2] \in Provided[l[1]]
  IN  /\ place = "done" => \A f \in Filter : provided(f)
      /\ place = "unknown_channel" => \E f \in Filter : ~provided(f)

(* Scheduling comes to an end, for cyclic links too.                       *)
SchedulingEnds == <>(place \in Ended)
=============================================================================
