------------------------------ MODULE MCCueList ------------------------------
(* The cue list and how it is configured, one at a time.                    *)
(*                                                                          *)
(* The played list is also read from a text: three frames and a hold,       *)
(* the first of them at once; an empty one; one that starts again; and, as   *)
(* the last, two frames and a restart.  The texts that are only read have   *)
(* up to three channels of mixed types, frames with too few and too many    *)
(* values, gaps, unreadable numbers and unknown words.                      *)
EXTENDS CueList, CueConfiguration, TLC

V(n, t) == [numbers |-> n, transition |-> t]
F(t, v) == [time |-> t, values |-> v]
C(f, w) == [frames |-> f, conf |-> w]
N(n, t) == [name |-> n, type |-> t]

Gap == F(<<>>, <<>>)
One(t, n) == F(<<t>>, <<V(n, "edg")>>)
Two(t, n, m) == F(t, <<V(n, "sig"), V(m, "x")>>)
Three(a, b, c) == F(<<2>>, <<V(a, ""), V(b, "e_i"), V(c, "e_o")>>)

-----------------------------------------------------------------------------
MCCues ==
  [c \in 0..3 |->
     CASE c = 0 -> [timestamps |-> <<0, 1, 2>>, end_handling |-> "HOLD", restart_handling |-> "DO_NOTHING"]
       [] c = 1 -> [timestamps |-> <<>>, end_handling |-> "NEXT_CUE", restart_handling |-> "DO_NOTHING"]
       [] c = 2 -> [timestamps |-> <<2>>, end_handling |-> "START_AGAIN", restart_handling |-> "DO_NOTHING"]
       [] c = 3 -> [timestamps |-> <<1, 3>>, end_handling |-> "NEXT_CUE", restart_handling |-> "START_FROM_BEGIN"]]

PlayedText ==
  << C(<<One(0, <<1>>), One(1, <<2>>), One(2, <<3>>)>>, <<"hold", "do_nothing">>),
     C(<<Gap>>, <<>>),
     C(<<Gap, One(2, <<1>>)>>, <<"start_again">>),
     C(<<One(1, <<3>>), One(3, <<0>>)>>, <<"next_cue", "restart", "name">>) >>
HandlingOf == "hold" :> "HOLD" @@ "start_again" :> "START_AGAIN" @@ "next_cue" :> "NEXT_CUE" @@
              "do_nothing" :> "DO_NOTHING" @@ "restart" :> "START_FROM_BEGIN"

\* The cues that are played are those the parser makes of their text.
ASSUME PlayedAsRead ==
  LET read == Parsed([mapping |-> <<N("a", "8bit")>>, cuelist |-> PlayedText,
                      default_cue |-> <<-1>>, elsewhere |-> FALSE])
  IN /\ read.ok /\ Len(read.cues) = NCues
     /\ \A c \in 0..3 :
          LET cue == read.cues[c + 1]
          IN Cues[c] = [timestamps |-> cue.timestamps, end_handling |-> HandlingOf[cue.end_handling],
                        restart_handling |-> HandlingOf[cue.restart_handling]]

MCDefaultCues == {-1, 3}

\* Some entries, a state in the middle of a cue, and one beyond the cues.
MCStateLists ==
  {[running_state |-> "PLAY"], [running_state |-> "PAUSE", cue |-> 0, time |-> 1],
   [running_state |-> "PLAY", cue |-> 0, frame |-> 2, time |-> 1],
   [running_state |-> "PLAY", cue |-> 4, frame |-> 3, time |-> 0]}

-----------------------------------------------------------------------------
MCFrames ==
  {Gap, One(1, <<3>>), One(1, <<>>), One(1, <<1, 2, 3>>),
   Two(<<1>>, <<-1>>, <<2>>), Two(<<>>, <<1>>, <<2>>), Two(<<0>>, <<9>>, <<1, 2, 3>>),
   Two(<<0>>, <<5>>, <<1, 2>>), Three(<<1>>, <<4, 4, 4>>, <<2>>), Three(<<1>>, <<7>>, <<8>>),
   Three(<<1>>, <<>>, <<8>>)}
MCConfs ==
  {<<>>, <<"hold">>, <<"start_again", "restart">>, <<"restart", "next_cue">>,
   <<"do_nothing", "hold", "name">>, <<"name">>}
MCCueTexts ==
  {<<C(<<f>>, w)>> : f \in MCFrames, w \in MCConfs}
    \union {<<C(<<f, g>>, <<"hold">>)>> : f, g \in MCFrames}
    \union {<<C(<<f>>, <<>>), C(<<g, Gap, f>>, <<"hold">>)>> : f, g \in MCFrames}
MCMappings ==
  {<<>>, <<N("a", "8bit")>>, <<N("a", "color")>>, <<N("a", "8bit"), N("b", "float")>>,
   <<N("a", "16bit"), N("a", "16bit")>>, <<N("a", "8bit"), N("a", "color")>>,
   <<N("a", "8bit"), N("b", "color"), N("c", "8bit")>>,
   <<N("a", "16bit"), N("b", "float"), N("c", "16bit")>>, <<N("a", "8bit"), N("b", "bool")>>}
MCDefaults == {<<>>, <<-1>>, <<1>>}
MCLimits == "8bit" :> 3 @@ "16bit" :> 7

-----------------------------------------------------------------------------
NoConfig == [mapping |-> <<>>, cuelist |-> <<C(<<Gap>>, <<>>)>>, default_cue |-> <<>>, elsewhere |-> FALSE]
NotRead == config = NoConfig

CuesInit ==
  \/ Init /\ config = NoConfig /\ parsed = Unconfigured(FALSE)
  \/ Init /\ list = Constructed(-1, "HOLD", FALSE) /\ ConfigInit /\ ~NotRead
CuesNext ==
  \/ NotRead /\ Next /\ UNCHANGED configVars
  \/ ~NotRead /\ Configure /\ UNCHANGED vars
CuesSpec ==
  /\ CuesInit /\ [][CuesNext]_<<vars, configVars>>
  /\ WF_vars(NotRead /\ Tick) /\ WF_lag(NotRead /\ CycleEnds)
=============================================================================
