SPECIFICATION Spec
CONSTANTS
  t1 = t1  t2 = t2
  Tasks <- MCTasks
  Handlers <- TwoClicks
  Beans = {b1}
  Sessions = {s1}
  Favorites = {f1, f2}
  Replies <- MCReplies
  MaxPoured = 2
  None = None
INVARIANTS OneFavoritePerRecipe
CHECK_DEADLOCK FALSE
