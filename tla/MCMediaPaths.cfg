\* One frame is 2 units of time, the buffer holds 2 of them and grows to 3.  Of the 16 sequence
\* numbers 2 on either side of the wrap count as near it; an unsigned integer has 200 values.
\* Digits with two packets of the tone and without any; as many faults as it takes to lose all
\* that end a digit.
SPECIFICATION PathsSpec
CONSTANTS
  Frame = 2
  Allowable = 1
  SeqSpace = 16
  SeqGuard = 2
  Outlier = 6
  TsWidth = 200
  TsLimit = 30
  TsGuard = 10
  StartPhase = 8
  InitSize = 2
  MinSize = 2
  MaxSize = 3
  QueueLimit = 5
  StepSize = 2
  NoFrame = NoFrame
  NoSsrc = NoSsrc
  Garbage = Garbage
  Calls <- MCCalls
  MaxTime = 18
  MaxLag = 1
  Durations = {0, 120}
  MaxDigits = 2
  MaxFaults = 2
  MaxTone = 1
  mPtime = 40
  mSamplingRate = 8
INVARIANT
  NoPacketVanishes
  TextShownOnce
  FramesWhole
  IdrShownAsSent
  NackNamesMissing
  FullBufferGoesOn
  DigitsHeardAsSent
  SpeechUnderstood
PROPERTY
  PlayedAsSent
\* The clock stops at MaxTime and the calls have an end.
CHECK_DEADLOCK FALSE
