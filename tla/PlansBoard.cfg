SPECIFICATION PlansSpec
CONSTANTS
  Orders = {o1, o2}
  Tasks = {1, 2}
  Machines = {m1}
  Products = {p1}
  Categories = {film, coated}
  Specs <- OneSpec
  Configs <- OneConfig
  MaxPosition = 3
  Plans = {a,b}
  Sessions = {s1}
  MaxRevision = 2
  NoPlan = NoPlan
  AllPending = AllPending
  Outdated = Outdated
  NoTask = NoTask
  NoMachine = NoMachine
  NoSpec = NoSpec
  NoConfig = NoConfig
  Incomplete = Incomplete
  NoPattern = NoPattern
  film = film
  coated = coated
  pe = pe
  p1 = p1
SYMMETRY SessionSymmetry
INVARIANTS
  OneDraftPerSession
PROPERTIES
  
  AppliedAsDrafted
  RevisionNamesDraft
  DraftEndsByDecision
