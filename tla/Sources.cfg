SPECIFICATION Spec
CONSTANTS
  searchLine = searchLine
  museumLine = museumLine
  nasaLine = nasaLine
  urlLine = urlLine
  m1 = m1
  m2 = m2
  a1 = a1
  n1 = n1
  u1 = u1
  Lines = {searchLine, museumLine, nasaLine, urlLine}
  Direct = {urlLine}
  Images = {m1, m2, a1, n1, u1}
  Found = {m1, m2}
  Usable = {m1, m2, a1, n1, u1}
  Services = {"artic", "met", "cleveland", "smk", "commons", "nasa", "pexels", "pixabay", "unsplash"}
  Quota <- MCQuota
  Work <- MCWork
  Query <- MCQuery
  Catalogue <- MCCatalogue
  Content <- MCContent
  MaxImages = 4
  BatchSize = 2
  TTL = 3
  MaxDoublings = 1
  ResetAfter = 1
  MaxIdle = 1
  MaxLines = 2
  Losses = 3
  Hazards = {"provider", "download", "import", "unknown-import", "save", "stop", "owner", "edit", "garble"}
  Budget = 2
  None = None
INVARIANTS  AllCredited
PROPERTIES Filled
