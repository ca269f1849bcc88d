--------------------------- MODULE MCConstruction ---------------------------
(* The construction of a show: the tasks that build its scenes on a pool of *)
(* threads, or what one such task does with the filters of its scene.       *)
(*                                                                          *)
(* A file of four scenes on two processors; the first two have an id, and   *)
(* the construction of the last two ends with an uncaught exception.  Every *)
(* wiring of four filters with at most two links per filter, each to any    *)
(* filter, itself and one that does not exist included; the last filter     *)
(* lacks the output channel that the others have.                           *)
EXTENDS SceneLoading, FilterScheduling, FiniteSetsExt, TLC

MCExplicitId == (1 :> 9) @@ (2 :> 7)

MCProvided == [f \in Filter |-> IF f = NFilters THEN {} ELSE {"value"}]
MCLinks == (Filter \cup {Unknown}) \X {"value"}
MCWirings == [Filter -> UNION { kSubset(k, MCLinks) : k \in 0 .. 2 }]

-----------------------------------------------------------------------------
\* The part that is not looked at has come to its end: a file that was
\* rejected, a scene without filters.
NoFile ==
  /\ tasks = <<>> /\ stopped_threads = {} /\ threads = {} /\ joined = {}
  /\ active_threads = 0 /\ next = NTasks + 1
  /\ wpc = [w \in Worker |-> "unborn"] /\ wtask = [w \in Worker |-> NoTask]
  /\ cpc = "destroyed" /\ ctask = NoTask /\ unwinding = TRUE
  /\ ran = [t \in Task |-> 1]
  /\ misconfigured = {1} /\ v = <<>> /\ scene_index_map = <<>> /\ worked = FALSE
  /\ project = "rejected"

NoFilters ==
  /\ channellink = [f \in Filter |-> {}]
  /\ missing_filter_stack = <<>> /\ resolved_filters = {} /\ fv = <<>> /\ b = <<>>
  /\ i = 0 /\ placed_filter = FALSE
  /\ cm = {} /\ connected = 0 /\ place = "done"

ConstructionInit == (LoadingInit /\ NoFilters) \/ (NoFile /\ SchedulingInit)

ConstructionNext ==
  \/ LoadingNext /\ UNCHANGED schedulingVars
  \/ SchedulingNext /\ UNCHANGED vars

\* The fairness of LoadingSpec and of SchedulingSpec.
ConstructionSpec ==
  /\ ConstructionInit /\ [][ConstructionNext]_<<vars, schedulingVars>>
  /\ WF_vars(ConstructorStep) /\ \A w \in Worker : WF_vars(BuilderStep(w))
  /\ WF_schedulingVars(SchedulingNext)

(* A construction always comes to its end: the pool is destroyed whatever   *)
(* its tasks throw, and the rounds over the filters of a scene end whatever *)
(* their links are (threadpool.cpp:9-64, scene_factory.cpp:579-680).        *)
ConstructionEnds == PoolEnds /\ SchedulingEnds
=============================================================================
