SPECIFICATION DeskSpec
CONSTANTS
  MaxCommands = 3
  MaxOrphans = 4
  MaxMessages = 3
  NoCallback = {2}
  MaxAttempts = 2
  MaxBatch = 2
  MaxNotes = 3
  Entities = {k1, k2}
  MaxPayloads = 3
  PassLimit = 2
  MaxFiles = 2
  Contents <- MCContents
INVARIANTS
  DeskTypeOK
  KillSwitchFollowsChat
  ConfirmedWasHandled
  KillIsAimed
  CrashIsReported
  StartIsOffered
  MarksAreTrue
  SheetHasTheNewest
  DecisionsNameTheirEnvelope
PROPERTIES
  CommandsAreHandled
  StopEndsTheService
  OutboxIsAtLeastOnce
  OutboxDrains
  SheetsQueueMoves
  EnvelopesDrain
CHECK_DEADLOCK FALSE
