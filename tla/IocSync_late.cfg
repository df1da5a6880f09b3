SPECIFICATION Spec
CONSTANTS
  i1 = i1
  i2 = i2
  Bad = Bad
  Down = Down
  Items = {i1, i2}
  Served <- FewTexts
  Urls = {u1}
  FileUrls = {}
  Syncers = {s1, s2}
  Names = {n1}
  Local = n1
  Intervals = {2}
  Posts <- FewPosts
  MaxTime = 3
INVARIANT
  ErrorMeansStale
