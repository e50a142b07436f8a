CONSTANTS
  Scenes <- ScenesDef
  Ids <- IdsDef
  InitialRows <- InitialRowsDef
  Askers <- AskersDef
  FieldLists <- FieldListsDef
  InitialRules <- InitialRulesDef
  NewRules <- NewRulesDef
  FilterTrees <- FilterTreesDef
  HavingTrees <- HavingTreesDef
  MacroTrees <- MacroTreesDef
  Payloads <- PayloadsDef
  DoubleTree <- DoubleTreeDef
  MaxEdits = 1
  RecordData <- RecordDataDef
  NoValue <- Null
  Walkers <- WalkersDef
  Admits <- AdmitsDef
  Limits = {1, 2}
  MaxTouched = 2
SPECIFICATION Spec
INVARIANTS
  AnswersObeyRules
  SteadyRowsOnce
  GroupsAreRight
CHECK_DEADLOCK FALSE
