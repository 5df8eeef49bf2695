CONSTANTS
  t1 = t1
  t2 = t2
  p1 = p1
  p2 = p2
  f1 = f1
  Tasks = {t1, t2}
  Profiles = {p1, p2}
  Favorites = {f1}
  Handlers = {"deleteProfile", "removeFavorite", "rate", "activate", "addFavorite", "note", "export", "import"}
  None = None
  Files <- MCFiles
SYMMETRY TaskSymmetry
SPECIFICATION Spec
PROPERTY NoHalfImport
