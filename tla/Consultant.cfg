SPECIFICATION Spec
CONSTANTS
  Clients = {c1, c2}
  Sessions = {s1}
  Modalities = {"image", "text"}
  Text = "text"
  Slots = {"usage", "style"}
  Required <- MCRequired
  Optional <- MCOptional
  None = None
INVARIANTS
  DialogsAreCoherent
PROPERTIES
  AnswersAreKept
SYMMETRY ClientSymmetry
