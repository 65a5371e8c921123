SPECIFICATION FairSpec
CONSTANTS
  music = music
  prompt = prompt
  call = call
  NULL = NULL
  Streams = {0, 3}
  Sessions = {music, prompt, call}
  Script <- MCScript
  FadeCalls <- MCFade
INVARIANTS TypeOK HandlerKeepsClear StopIsQuiet IrqsInStep
PROPERTY StopEnds
