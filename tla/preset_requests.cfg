SPECIFICATION FairSpec
CONSTANTS
  Slugs <- OneSlug
  Empty = Empty
  Overrides = {Empty, kindle}
  Requests = {r1, r2}
  MaxPresets = 1
  None = None
INVARIANTS
  DefaultIsThere
PROPERTIES
  CreateIsFresh
  RequestsEnd
  ImplementsLibrary
