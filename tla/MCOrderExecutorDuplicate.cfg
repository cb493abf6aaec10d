SPECIFICATION ExecSpec
CONSTANTS
  Signals <- MCSignals
  SignalIds <- MCSignalIds
  IdOf <- MCIdOf
  RunModes <- MCRunModes
  NoJob = NoJob
INVARIANT
  DuplicateWasSent
