\* The harness: the level is mirrored after every advance and every access.
SPECIFICATION Spec
CONSTANTS
  ChipSources = {"VERTB"}
  Events = {"TA", "FLG"}
  Enables <- MCEnables
  PublishOn = "level"
  MaxEvents = 4
  MaxWrites = 4
INVARIANTS
  TypeOK
  IplIsHighest
  LevelMirrored
  CiaEventNotLost
PROPERTY
  RequestServed
