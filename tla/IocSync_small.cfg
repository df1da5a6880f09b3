SPECIFICATION Spec
CONSTANTS
  i1 = i1
  i2 = i2
  Bad = Bad
  Down = Down
  Items = {i1, i2}
  Served <- AllTexts
  Urls = {u1, f1}
  FileUrls = {f1}
  Syncers = {s1}
  Names = {n1}
  Local = n1
  Intervals = {2}
  Posts <- AllPosts
  MaxTime = 3
INVARIANTS
  FreshMeansLoaded
  ErrorMeansStale
PROPERTY
  Recovers
