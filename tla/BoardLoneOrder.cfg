SPECIFICATION Spec
CONSTANTS
  Orders = {o1, o2, o3}
  Tasks = {1, 2, 3}
  Machines = {m1, m2}
  Products = {p1}
  Categories = {film}
  Specs <- QueueSpecs
  Configs <- QueueConfigs
  MaxPosition = 4
  NoTask = NoTask
  NoMachine = NoMachine
  NoSpec = NoSpec
  NoConfig = NoConfig
  Incomplete = Incomplete
  NoPattern = NoPattern
  film = film
  coated = coated
  pe = pe
  pp = pp
  p1 = p1
SYMMETRY Symmetry
INVARIANT ProducingOrderHasTask
