SPECIFICATION Spec
CONSTANTS
  Slugs <- OneSlug
  Empty = Empty
  Overrides = {Empty}
  Requests = {r1, r2}
  MaxPresets = 1
  None = None
INVARIANTS
  DefaultExists
