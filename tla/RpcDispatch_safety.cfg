SPECIFICATION Spec
CONSTANTS
  m1 = m1
  m2 = m2
  o1 = o1
  o2 = o2
  o3 = o3
  s1 = s1
  main = main
  w1 = w1
  w2 = w2
  Methods = {m1, m2}
  Objects = {o1, o2}
  Slots = {s1}
  Threads = {main, w1, w2}
  Main = main
  ThreadOf <- MCThreadOf
  Mortal = {o1}
  MethodOps = {"register", "unregister"}
  Unchecked = FALSE
  MaxDelegates = 3
  MaxDepth = 1
INVARIANTS TypeOK NoMemoryFault DestroyedIsUnregistered
