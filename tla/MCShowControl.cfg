CONSTANTS
  f1 = f1
  f2 = f2
  f3 = f3
  File <- MCFile
  Broken <- MCBroken
  SceneId = {1, 2}
  Scenes <- MCScenes
  DefaultScene <- MCDefaultScene
  MaxLoads = 3
  MaxInputs = 1
SPECIFICATION Spec
INVARIANTS LoadsInOrder ApplyStateTruthful RollbackTarget CurrentSceneStarted
PROPERTIES LoadAnswered StopEnds
CHECK_DEADLOCK FALSE
