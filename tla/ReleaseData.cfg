SPECIFICATION Spec
CONSTANTS
  None = None
  a = a
  b = b
  c1 = c1
  c2 = c2
  s1 = s1
  s2 = s2
  host = host
  repo = repo
  key = key
  r1 = r1
  r2 = r2
  home = home
  other = other
INVARIANTS HonoursLimits OneConfiguration Resolves InSync DeploysWhenHeld
CHECK_DEADLOCK FALSE
