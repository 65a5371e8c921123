SPECIFICATION Spec
CONSTANTS
  MAX_AUDIO_BUF_LIST = 2
  MAX_WARNINGS = 0
  Prompts <- MCPrompts
  MaxMail = 1
  Music <- One
  Voice <- One
INVARIANTS
  CallIsHeard
CHECK_DEADLOCK FALSE
