SPECIFICATION Spec
CONSTANTS
  CorpusRoot <- MCCorpusRoot
  TagFiles <- MCTagFiles
  Sources <- MCSources
  Defaults <- MCDefaults
  Hosts <- MCHosts
  Users <- ApostropheUsers
  StrangeTexts <- MCStrangeTexts
  Tables <- ApostropheTables
  LocalTable <- MCLocalTable
  HeldTables <- ApostropheHeld
  Garbage <- MCGarbage
  Backlog = 2
  kMaxTagLen = 50
  Cuts = {}
  MixerRetries = 2
  MaxStrangers = 0
  MaxCrashes = 0
INVARIANTS
  EveryCharacterArrives
