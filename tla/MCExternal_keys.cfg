\* Two administrators, keys of an integration, and requests repeated with either key.
SPECIFICATION Spec
CONSTANTS
  Users = {u1, u2}
  Integrations = {s1}
  KeyIds = {x1, x2}
  RowIds = {n1, n2}
  Idems = {d1, d2}
  Threads = {t1, t2}
  Scopes <- MCScopes
  Grants <- MCGrants
  Contents <- MCContents
  Nobody = Nobody
SYMMETRY Symmetry
INVARIANTS
  AnAdminRemains
  OneEffectPerRequest
  AnswersNameTheirRow
PROPERTIES
  WritesAreAuthorised
