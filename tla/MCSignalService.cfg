SPECIFICATION Spec
CONSTANTS
  Signals <- MCSignals
  SignalIds <- MCSignalIds
  IdOf <- MCIdOf
  RunModes <- MCRunModes
  NoJob = NoJob
  NumFiles = 2
  Content <- MCContent
  MaxCommands = 1
  DomainBad <- MCDomainBad
  RiskRefused <- MCRiskRefused
  MaxCrashes = 1
INVARIANTS
  SvcTypeOK
  ArchiveMatchesVerdicts
  VerdictsAreTrue
  RefusedIsNeverOrdered
PROPERTY
  SignalsAreJudged
