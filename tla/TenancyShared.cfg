CONSTANTS
  r1 = r1
  r2 = r2
  r3 = r3
  p1 = p1
  ag = ag
  u1 = u1
  c1 = c1
  m1 = m1
  e1 = e1
  au = au
  im = im
  ic = ic
  fl = fl
  ar = ar
  c2 = c2
  m2 = m2
  s1 = s1
  store = store
  evaluate = evaluate
  supervise = supervise
  id1 = id1
  slug1 = slug1
  file1 = file1
  None = None
  Rows <- AllRows
  table <- Tables
  refs <- Above
  Present <- StartSets
  Roots <- RootRows
  Writers <- WriterOps
  needs <- Needs
  updates <- Updated
  adds <- Added
  Creates <- CreateOps
  Requests <- ThreeRequests
  Identities = {id1}
  Slugs = {slug1}
  Uploads = {file1}
  project = p1
  agent = ag

SPECIFICATION TenancySpec
INVARIANTS OneForAll SomebodyMoves
PROPERTIES DeletedAtKept CascadeComplete
SYMMETRY Symmetry
CHECK_DEADLOCK FALSE
