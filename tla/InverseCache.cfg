SPECIFICATION Spec
CONSTANTS
  Socks = {a1, a2, b1, c1}
  NULL = NULL
INVARIANT LinksSound
PROPERTY MostRecentFirst
