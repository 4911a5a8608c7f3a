SPECIFICATION InputsSpec
CONSTANTS
  p1 = p1
  p2 = p2
  p3 = p3
  none = none
  NoParent = none
  Gone = gone
  Lines <- MCLines
  MaxLines = 4
  Weapons = {axe}
  Width = 4
  Height = 3
  Scale = 2
  MaxPixels = 12
  Regions <- MCRegions
  MaxRegions = 2
  MaxSubtract = 1
  Projects <- MCProjects
  Tags <- MCTags
  MaxRounds = 3
  NoBox = nobox
  TopK = 2
  MaskDilate = 1
  MaskFeather = 1
  TagCap = 2
  Boxes <- MCBoxes
  MaxResults = 3
  FixTags <- MCFixTags
  ImageWidth = 10
  ImageHeight = 10
  Nowhere = nowhere
  MinConfidence = 6
  Answers <- MCAnswers
  Places <- MCPlaces
INVARIANTS
  ChecklistIsExact
  MaskIsAsDrawn
  WalksAreExact
  LineageKeepsTags
  PlanRepairs
  VerdictsAreTrusted
CHECK_DEADLOCK FALSE
