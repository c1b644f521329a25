SPECIFICATION Spec
CONSTANTS
  CorpusRoot <- MCCorpusRoot
  TagFiles <- MCTagFiles
  Sources <- MCSources
  Defaults <- MCDefaults
  Hosts <- MCHosts
  Users <- MCUsers
  StrangeTexts <- MCStrangeTexts
  Tables <- MCTables
  LocalTable <- MCLocalTable
  HeldTables <- MCHeldTables
  Garbage <- MCGarbage
  Backlog = 2
  kMaxTagLen = 50
  Cuts = {5}
  MixerRetries = 2
  MaxStrangers = 1
  MaxCrashes = 1
INVARIANTS
  AnswersWhatWasAsked
  UnderstandsWhatWasSent
  GoodRequestsHarmless
  NoServerSkipped
PROPERTIES
  EveryCallEnds
