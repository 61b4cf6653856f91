CONSTANTS
  Owners = {t1, t2, t3}
  Idents = {i1, i2}
  NoIdent = NoIdent
  Conns = {c1, c2, c3}
  NoConn = NoConn
SPECIFICATION RegistrySpec
INVARIANT CachedIsOpen
