SPECIFICATION Spec
CONSTANTS
  a1 = a1
  a2 = a2
  a3 = a3
  Addresses = {a1, a2, a3}
  NoMenu = NoMenu
SYMMETRY Symmetry
INVARIANTS
  OwnsWhatItMade
PROPERTIES
  ForeignMenuIsLeftAlone
  AnswersAreTrue
  OwnMenuCanBeRemoved
