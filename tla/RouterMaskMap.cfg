\* Five routers compete for four bits: the map fills up, get panics, and
\* bits are reused after a removal.
CONSTANTS
  Router = {r1, r2, r3, r4, r5}
  Width = 4
SPECIFICATION MaskSpec
INVARIANTS
  BitsDisjoint
  MaskIsUnion
  PanicsOnlyWhenFull
PROPERTY StableBits
