SPECIFICATION Spec
CONSTANTS
  t1 = t1  t2 = t2
  Tasks <- MCTasks
  Handlers <- MCHandlers
  Beans = {b1}
  Sessions = {s1}
  Favorites = {f1}
  Replies <- MCReplies
  MaxPoured = 2
  None = None
INVARIANTS SessionsKeepTheirRecipes DrinksAreCounted GeneratedIsBrewable
PROPERTIES RequestsAreAnswered
CHECK_DEADLOCK FALSE
