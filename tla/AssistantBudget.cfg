SPECIFICATION Spec
CONSTANTS
  MaxMain = 6
  MaxModel = 10
  MaxTools = 3
  CallId = {"c1", "c2", "c3", "generate_draft"}
  MaxCalls = 2
  None = None
INVARIANTS
  WithinBudget
  OutcomeTellsTheDraft
PROPERTIES
  GenerationAuthorised
CHECK_DEADLOCK FALSE
