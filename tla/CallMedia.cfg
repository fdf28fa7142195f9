CONSTANT MaxRuns = 3
SPECIFICATION FairSpec
INVARIANTS OnlyCurrentPipeline DeviceReleased RoomAgrees
PROPERTIES MuteTakesEffect VoiceComesBack
CHECK_DEADLOCK FALSE
