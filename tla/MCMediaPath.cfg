SPECIFICATION FairSpec
CONSTANTS
  MAX_AUDIO_BUF_LIST = 2
  MAX_WARNINGS = 0
  Prompts = {"POWER_OFF"}
  MaxMail = 1
  Music <- Both
  Voice <- One
INVARIANTS
  TypeOK
  CurrentIsHighest
  MusicDeviceActive
  AssertsHold
  OneOwner
  PlayerFollowsList
  MediaWillEnd
  HeardWhenSettled
PROPERTIES
  Settles
CHECK_DEADLOCK FALSE
