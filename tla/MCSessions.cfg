SPECIFICATION SessionsSpec
CONSTANTS
  Remotes = {r1, r2}
  NoRemote = NoRemote
  Sessions = {s1, s2}
  Formats = {f1, f2}
  f1 = f1
  f2 = f2
  Inputs <- MCInputs
  r1 = r1
  r2 = r2
  s1 = s1
  s2 = s2
  VideoSessions = {v1}
  VideoConfigs <- MCVideoConfigs
  VideoFaulty = {"SocketWriter", "SocketReader", "VideoSource", "VideoRenderer", "Scheduler"}
  TextSessions = {t1, t2}
  TextConfigs <- MCTextConfigs
  TextFaulty = {"SocketWriter", "SocketReader", "Scheduler"}
  MaxFaults = 1
VIEW MCView
INVARIANTS
  NoUnwantedMedia
  NodesFollowGraph
  NothingLeftRunning
PROPERTIES
  ConfirmLeavesOneRemote
  ServedAsAsked
  VideoServedAsAsked
  OneTalkerEach
