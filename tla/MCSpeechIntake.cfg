SPECIFICATION Spec
CONSTANTS
  tab = tab  other = other  third = third
  Socket <- Sockets
  Browser = tab
  FramesPerChunk = 2
  MinSilence = 1
  MaxDetectors = 4
  InFlight = 1
  Scenarios <- Spoken
CHECK_DEADLOCK FALSE
INVARIANTS MicrophoneIsReleased SpeechIsTaken UtterancesHoldSpeech
