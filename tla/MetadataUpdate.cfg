CONSTANTS
  main = main  contrib = contrib  sid = sid
  mainIndex = mainIndex  contribIndex = contribIndex  translation = translation
  Entry = {main, contrib}
  Distribution = {sid}
  DistributionOf <- SidOf
  File = {mainIndex, contribIndex, translation}
  FilesOf <- Indexes
  Content <- Contents
  Variants <- AllVariants
  Offered <- AllOffered
  PatchesBack = 1
  Options <- AllOptions
  Sources <- AllSources
  MaxRelease = 2
  MaxRuns = 3
  MaxKills = 1
  MaxFailures = 1
SPECIFICATION Spec
INVARIANTS
    SuccessMeansCurrent
    NothingIsMixedUp
    FailsAtMostOnce
CHECK_DEADLOCK FALSE
