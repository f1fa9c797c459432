SPECIFICATION SpecDamaged
CONSTANTS
  i1 = i1
  i2 = i2
  f1 = f1
  f2 = f2
  t1 = t1
  t2 = t2
  x1 = x1
  x2 = x2
  a1 = a1
  a2 = a2
  p1 = p1
  p2 = p2
  h1 = h1
  h2 = h2
  EmptyTerm = EmptyTerm
  Missing = Missing
  NilMap = NilMap
  BlankID = BlankID
  Nobody = Nobody
  IDs = {i1, i2}
  Fields = {f1}
  Terms = {t1, t2}
  Texts = {x1, x2}
  LegacyKeys = {1, 2}
  Analyzers = {a1, a2}
  Analysis <- MCAnalysis
  Procs = {p1}
  Handles = {h1}
  HandleOf <- JustOne
  Batches <- FewBatches
  Durable = TRUE
PROPERTIES
  RebuildRepairs
