\* Two objects with three transactions each, nodes of up to three keys;
\* inode ids 0 .. 3 under two types, with OBJ_TYPE_SHIFT scaled to 2 bits.
CONSTANTS
  Oids = {1, 2}
  Xids = {1, 2, 3}
  MaxKeys = 3
  IdBits = 2
  Inodes = {1, 2}
  JTypes = {0, 1}
SPECIFICATION Spec
INVARIANT OmapLookupLatest
\* A lookup ends the run.
CHECK_DEADLOCK FALSE
