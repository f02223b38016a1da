\* Two users of the same references, one of them before a list.
SPECIFICATION Spec
CONSTANTS
  g1 = g1
  p1 = p1
  c1 = c1
  r1 = r1
  r2 = r2
  a = a
  b = b
  Categories <- MCCategories
  Products <- MCProducts
  Customers <- MCCustomers
  Prices <- MCPrices
  Codes <- MCCodes
  Catalogues <- MCCatalogues
  Blank = Blank
  Users = {ed, other}
  Editor = ed
  MaxAsks = 2
  Pages = {1, 2}
  Texts = {any, x}
  AnyText = any
  NoText = NoText
  MaxEvents = 4
INVARIANTS
  ListIsCurrent
  OneRowPerCode
PROPERTIES
  PatchesOnlyPatch
  LinksAreLive
