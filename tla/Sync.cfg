CONSTANTS
  m0 = m0
  s0 = s0
  s1 = s1
  s2 = s2
  NumPipes = 3
  Mutexes = {m0}
  Sems = {s0, s1, s2}
  SemLimit = 2
  Kernels = {"buffers", "mutex", "mail"}
  Program <- Programs
  LoopStart <- Loops
  CorePosts <- Posts
  CoreGets <- Gets
  Mail <- Mails
SPECIFICATION MCSpec
INVARIANTS
  NoneMisused
  HalvesApart
  MutexInTurn
  MailInOrder
PROPERTIES
  ThreadsAdvance
