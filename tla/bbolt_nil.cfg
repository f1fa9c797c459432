SPECIFICATION Spec
CONSTANTS
  c1 = c1
  c2 = c2
  c3 = c3
  v1 = v1
  v2 = v2
  Missing = Missing
  Nobody = Nobody
  NoRequest = NoRequest
  Keys = {1, 2}
  Values = {v1, v2}
  Clients = {c1, c2, c3}
  CallsOf <- MCCallsOf
INVARIANTS
  NoNilDereference
