SPECIFICATION Spec
CONSTANTS
  Slots = 2
  audio = audio
  video = video
  Owners <- MCOwners
  Sockets = {audio, video}
  OwnerOf <- MCOwnerOf
  Writers = {audio}
  MaxMonitors = 2
  MaxOverlaps = 2
  MaxCount = 2
INVARIANTS
  CallbackFindsItsNode
  MonitorFollowsList
  CloseIsAnswered
\* a null listener ends the process
CHECK_DEADLOCK FALSE
