SPECIFICATION Spec
CONSTANTS
  i1 = i1
  i2 = i2
  f1 = f1
  t1 = t1
  t2 = t2
  x1 = x1
  x2 = x2
  a1 = a1
  a2 = a2
  r1 = r1
  h1 = h1
  h2 = h2
  EmptyTerm = EmptyTerm
  Missing = Missing
  NilMap = NilMap
  IDs = {i1, i2}
  Fields = {f1}
  Terms = {t1, t2}
  Texts = {x1, x2}
  LegacyKeys = {}
  Analyzers = {a1, a2}
  Analysis <- MCAnalysis
  Queries <- OneTerm
  Readers = {r1}
  Handles = {h1}
  ReaderOf <- MCReaderOf
  AnalyzerOf <- OneAnalyzer
INVARIANTS
  CheckIsConsistent
