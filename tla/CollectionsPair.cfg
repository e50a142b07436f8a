CONSTANTS
  a = a
  b = b
  r1 = r1
  r2 = r2
  must = must
  comp = comp
  ref = ref
  Id = Id
  NoOne = NoOne
  Names = {a, b}
  Fields = {must, comp, ref}
  Virtual = {comp}
  Required = {must}
  Target <- MCTarget
  Schemas <- MCSchemas
  Imports <- MCImports
  Strategies = {"update"}
  Requests = {r1, r2}
  Dialect = "postgresql"
  MaxFiles = 4
  MaxMishaps = 1
SPECIFICATION Spec
SYMMETRY MCSymmetry
INVARIANTS
  ListedHasTable
  NothingLeftOver
  RevisionIsApplied
CHECK_DEADLOCK FALSE
CONSTRAINT ThreeFilesOrOneName
