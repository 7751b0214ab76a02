SPECIFICATION CollectorsSpec
CONSTANTS
  Slots = 4
  KernelMsgs = 3
  BufMsgs = 2
  Errnos = {1, 13}
  Word = 16
  Modulus = 4
INVARIANTS CompleteDump SoundDump ErrorIsReported SamplesAddUp
PROPERTIES DumpReturns StopIsServed SamplingGoesOn
