SPECIFICATION Spec
CONSTANTS
  r = r
  b1 = b1
  b2 = b2
  f1 = f1
  f2 = f2
  f3 = f3
  None = None
  Root = r
  RootHeight = 0
  Blocks = {r, b1, b2, f1, f2}
  Parent <- MCParent
  Ancestors <- MCAncestors
  Signed = {b1, b2}
  Forged = {}
  SignOffset = 1
  Modes = {FALSE}
  MaxToggles = 0
INVARIANT LateHeaderIndexed
