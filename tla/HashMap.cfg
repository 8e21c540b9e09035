CONSTANTS
  Key = {1, 2, 3}
  x = x
  y = y
  Value = {x, y}
  p = p
  q = q
  Slot = {p, q}
  Hash <- HashOf
  MinCapacity = 1
  LoadFactor = 1
  NoKey = 0
  MaxSize = 2
SYMMETRY Symmetry
SPECIFICATION Spec
INVARIANTS TypeOK SizeCoversEntries LoadBounded FindAgrees MovesArrive
PROPERTIES SizeStaysExact ImplementsDictionary
