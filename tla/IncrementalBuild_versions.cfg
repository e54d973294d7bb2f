CONSTANTS
  Units <- MCUnits
  Sources <- MCSources
  Stages <- MCStages
  Patches <- MCPatches
  Given <- MCGiven
  Reads <- MCReads
  Listed <- MCListed
  Removes <- MCRemoves
  Optioned <- MCOptioned
  Outcomes = {"written", "failed", "warned"}
  MaxBuilds = 3
  MaxEdits = 1
SPECIFICATION Spec
CHECK_DEADLOCK FALSE
INVARIANT FinishedIsFresh
PROPERTY NothingTwice
