SPECIFICATION Spec
CONSTANTS
  book = book
  vol = vol
  index = index
  cover = cover
  dots = dots
  UploadNames <- SomeUploads
  Writings <- SomeWritings
  Hidden <- CoverOnly
  Unsafe <- DotsOnly
  DotBefore <- VolOnly
  MaxUploads = 3
  MaxBusy = 2
INVARIANTS
  InputsDistinct
  BatchSettles
  ZipEntriesDistinct
  EveryOutputReachable
