SPECIFICATION Spec
CONSTANTS
  c1 = c1
  c2 = c2
  r1 = r1
  r2 = r2
  i1 = i1
  i2 = i2
  i3 = i3
  NoContent = NoContent
  NoInode = NoInode
  Contents = {c1, c2}
  Requests = {r1, r2}
  Inodes = {i1, i2, i3}
  Size = 2
INVARIANT TypeOK
INVARIANT ObjectsHaveContent
INVARIANT ReadsWhatIsAsked
INVARIANT DeletedIsGone
SYMMETRY Symmetry
CHECK_DEADLOCK FALSE
