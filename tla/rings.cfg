SPECIFICATION RingSpec
CONSTANTS
  Loose = Loose
  RingHead = {h1, h2, h3}
  Item = {a, b, c, d}
SYMMETRY Symmetry
INVARIANTS
  RingsAreLinked
PROPERTIES
  NeighboursTellTheRing
