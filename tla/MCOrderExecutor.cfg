SPECIFICATION ExecSpec
CONSTANTS
  Signals <- MCSignals
  SignalIds <- MCSignalIds
  IdOf <- MCIdOf
  RunModes <- MCRunModes
  NoJob = NoJob
INVARIANTS
  ExecTypeOK
  OneBracketPerSignalId
  RecordedAsSent
  SentInOrder
  ReturnedOkIsTransmitted
PROPERTY
  OnceOnly
