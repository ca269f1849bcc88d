---------------------------- MODULE SceneLoading ----------------------------
(***************************************************************************)
(* executioners/scene_factory: populate_scene_vector builds every scene of *)
(* a show file as a task of a thread pool and hands them, in the order in  *)
(* which the tasks end, to the constructor of project_configuration.  The  *)
(* pool is the one of ThreadPool; task t is the t-th scene of the file,    *)
(* and Throwing are the scenes whose construction ends with an exception   *)
(* that the task does not catch.  Building a scene touches nothing shared, *)
(* so a task is one step: what it does under v_mutex.                      *)
(***************************************************************************)
EXTENDS ThreadPool

CONSTANTS
  ExplicitId       \* the id attribute of the scenes that have one

ASSUME SceneLoadingAssumption ==
  /\ DOMAIN ExplicitId \subseteq Task
  /\ \A t \in DOMAIN ExplicitId : ExplicitId[t] \in Nat

VARIABLES
  misconfigured,     \* the scenes that end with a filter_config_exception or a
                     \* scheduling_exception, which the task catches
  v,                 \* the scenes; v[i] has index i - 1
  scene_index_map,   \* partial function from scene id to index
  worked,
  project            \* what the constructor of project_configuration did

sceneVars == <<v, scene_index_map, worked>>
vars == <<poolVars, misconfigured, sceneVars, project>>

LoadingInit ==
  /\ Init
  /\ misconfigured \in SUBSET (Task \ Throwing)
  /\ v = <<>>
  /\ scene_index_map = <<>>
  /\ worked = TRUE
  /\ project = "constructing"

(* The critical section of the task of scene t: t becomes the last scene.  *)
Store(t) ==
  LET last_index == Len(v)
      sid == IF t \in DOMAIN ExplicitId THEN ExplicitId[t] ELSE last_index
  IN  /\ v' = Append(v, t)
      /\ scene_index_map' = [id \in DOMAIN scene_index_map \cup {sid} |->
                               IF id = sid THEN last_index ELSE scene_index_map[id]]

BuildScene(t) ==
  CASE t \in misconfigured -> worked' = FALSE /\ UNCHANGED <<v, scene_index_map>>
    [] t \in Throwing -> UNCHANGED sceneVars
    [] OTHER -> Store(t) /\ UNCHANGED worked

(* A worker or the caller runs a task; what escapes from a task on the     *)
(* caller leaves populate_scene_vector and the constructor.                *)
WorkerBuilds(w) ==
  WorkerRun(w) /\ BuildScene(wtask[w]) /\ UNCHANGED <<misconfigured, project>>

CallerBuilds ==
  /\ JoinRun /\ BuildScene(ctask)
  /\ project' = IF ctask \in Throwing THEN "aborted" ELSE project
  /\ UNCHANGED misconfigured

OtherCallerStep ==
  /\ \/ Push \/ TestActive \/ Spawn \/ Count \/ Cleanup
     \/ JoinTest \/ JoinPop \/ JoinWait \/ Destroy \/ DestroyCleanup
  /\ UNCHANGED <<misconfigured, sceneVars, project>>

OtherWorkerStep(w) ==
  /\ WorkerTest(w) \/ WorkerPop(w) \/ WorkerLeave(w) \/ WorkerStop(w)
  /\ UNCHANGED <<misconfigured, sceneVars, project>>

(* Mutant: the result of populate_scene_vector is only logged.             *)
ConstructedAnyway ==
  /\ cpc = "destroyed" /\ project = "constructing"
  /\ project' = "loaded"
  /\ UNCHANGED <<poolVars, misconfigured, sceneVars>>

(* The rest of the constructor: without success it throws, else the        *)
(* default scene is started.                                               *)
Constructed ==
  /\ cpc = "destroyed" /\ project = "constructing"
  /\ project' = IF worked THEN "loaded" ELSE "rejected"
  /\ UNCHANGED <<poolVars, misconfigured, sceneVars>>

ConstructorStep == CallerBuilds \/ OtherCallerStep \/ Constructed

BuilderStep(w) == WorkerBuilds(w) \/ OtherWorkerStep(w)

LoadingNext == ConstructorStep \/ \E w \in Worker : BuilderStep(w)

(* The fairness of ThreadPool: every thread runs until it ends.            *)
LoadingSpec ==
  /\ LoadingInit /\ [][LoadingNext]_vars
  /\ WF_vars(ConstructorStep)
  /\ \A w \in Worker : WF_vars(BuilderStep(w))
-----------------------------------------------------------------------------
SceneTypeOK ==
  /\ misconfigured \subseteq Task
  /\ v \in Seq(Task \ (misconfigured \cup Throwing))
  /\ DOMAIN scene_index_map \subseteq Nat
  /\ \A id \in DOMAIN scene_index_map : scene_index_map[id] \in 0 .. NTasks - 1
  /\ worked \in BOOLEAN
  /\ project \in {"constructing", "loaded", "rejected", "aborted"}

(* The id under which the scene at index i is to be found.                 *)
IdAt(i) == IF v[i + 1] \in DOMAIN ExplicitId THEN ExplicitId[v[i + 1]] ELSE i

(* At every moment of the load, whatever the order in which the tasks end: *)
(* an id leads to a scene that is there and has this id, and every scene   *)
(* is found under its id (scene_factory.cpp:719-725).  The ids of the file *)
(* must differ from each other and from the indices given out instead.     *)
IdsNameTheirScenes ==
  /\ \A id \in DOMAIN scene_index_map :
       scene_index_map[id] < Len(v) /\ IdAt(scene_index_map[id]) = id
  /\ \A i \in 0 .. Len(v) - 1 : IdAt(i) \in DOMAIN scene_index_map

(* The scenes of a show that loads are, each exactly once, those whose     *)
(* tasks ended without an exception, and none was misconfigured; a show is *)
(* only rejected for a misconfigured scene, on whichever thread it was     *)
(* built (scene_factory.cpp:726-741).                                      *)
LoadedIsComplete ==
  /\ project = "loaded" =>
       /\ misconfigured = {}
       /\ \A t \in Task : Cardinality({ i \in DOMAIN v : v[i] = t })
                            = (IF t \in Throwing THEN 0 ELSE 1)
  /\ project = "rejected" => misconfigured # {}
-----------------------------------------------------------------------------

(* What the loading of a show keeps true in every order in which its tasks *)
(* run and fail on the pool (scene_factory.cpp:695-741, threadpool.cpp).   *)
LoadingSound == PoolSound /\ SceneTypeOK /\ IdsNameTheirScenes /\ LoadedIsComplete

-----------------------------------------------------------------------------
(* "populates the provided vector with ready-initialized scenes using the  *)
(* provided scene definitions" (scene_factory.hpp:23): success means that  *)
(* no scene is missing.                                                    *)
NoSceneMissing == project = "loaded" => Len(v) = NTasks
=============================================================================
