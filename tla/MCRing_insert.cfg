CONSTANTS
  h1 = h1
  h2 = h2
  n1 = n1
  n2 = n2
  n3 = n3
  Heads <- MCHeads
  Nodes <- MCNodes
SYMMETRY MCSymmetry
SPECIFICATION ListSpec
INVARIANTS
  InsertKeepsLinked
