SPECIFICATION Spec
CONSTANTS
  w1 = w1
  w2 = w2
  f1 = f1
  f2 = f2
  f3 = f3
  s1 = s1
  s2 = s2
  s3 = s3
  s4 = s4
  States = {s1, s2, s3, s4}
  Workers = {w1, w2}
  Fibers = {f1, f2}
  HomeOf <- OneEach
  BufferSize = 1
  UIntRange = 16
  Faults = {"handler"}
  NoState = NoState
  NoCache = NoCache

INVARIANT ObjectsDeletedAfterRequest
