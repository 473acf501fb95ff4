SPECIFICATION CanvasSpec
CONSTANTS
  Id = {1, 2, 3}
  Allows <- MCAllows
  Semantic = {"next", "p", ""}
  Bid = {1, 2}
  Optional = {2, 3}
  Names <- MCNames
  MaxParts = 3
  Sent <- MCSent
  New <- MCNew
  Cycle <- SearchCycle
INVARIANT SnapshotSound
INVARIANT ValidationSound
INVARIANT AnalysesSound
INVARIANT PasteKeepsNames
PROPERTY EditsShow
CHECK_DEADLOCK FALSE
