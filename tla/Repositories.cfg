\* The life of repositories.
SPECIFICATION Spec
CONSTANTS
  Names = {a, b}
  MaxId = 2
  MaxBorn = 3
  Calls = {c1, c2}
  Targets = {t1}
  None = None
  MaxMarks = 2
SYMMETRY Symmetry
CONSTRAINT BoundMarks
INVARIANTS TypeOK SureHasDirectory NoForeignContent InheritsNothing
