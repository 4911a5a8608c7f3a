SPECIFICATION AssetsSpec
CONSTANTS
  r1 = r1
  r2 = r2
  Requests = {r1, r2}
  Ids = {"old", "kanji", "game"}
  NonAscii = {"kanji"}
  Legacy = {"old"}
  None = None
  MaxCalls = 3
  MaxFaults = 1
  Records = {"x"}
  Table = "character_sheets"
  Fields = {"name", "sheet_source_path"}
  Packed = {"x"}
INVARIANTS
  ListedIsWhole
PROPERTIES
  ProjectsAreKept
  UpdatesAreKept
  FieldsAreKept
  DeletedIsGone
SYMMETRY MCSymmetry
CHECK_DEADLOCK FALSE
