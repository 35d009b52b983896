CONSTANTS
  p1 = p1
  p2 = p2
  n1 = n1
  n2 = n2
  n3 = n3
  Arteries = {p1, p2}
  Nodes = {n1, n2, n3}
  FirstNode <- FirstTwo
  Listings <- SometimesNone
  ConfirmWindows = 1
  CooldownWindows = 1
  ErrorBudget = 1
  MaxErrors <- OneError
SPECIFICATION FairSpec
INVARIANT NodesUnique
PROPERTIES ReturnsProven DeadComesBack
