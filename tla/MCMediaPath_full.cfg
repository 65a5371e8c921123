SPECIFICATION Spec
CONSTANTS
  MAX_AUDIO_BUF_LIST = 5
  MAX_WARNINGS = 3
  Prompts <- MCRingPrompts
  MaxMail = 1
  Music <- None
  Voice <- One
INVARIANTS
  ListHasRoom
CHECK_DEADLOCK FALSE
