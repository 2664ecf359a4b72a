SPECIFICATION Spec
CONSTANTS
  alice = alice
  bob = bob
  p1 = p1
  p2 = p2
  c1 = c1
  c2 = c2
  c3 = c3
  NoProc = NoProc
  NoConn = NoConn
  Procs = {p1}
  Conns = {c1, c2}
  Ids = {alice}
  IdOf <- MCIdSame
  Fds <- Fds2
  UpCap = 2
  DownCap = 2
  Patterns <- AAndStar
  SubTopics <- AAndStar
  Topics <- JustA
  Killable = {}
  Lines = {"exit"}
  ConsoleCap = 1
  MaxDatagrams = 2
SYMMETRY Symmetry
INVARIANTS
  InOrderOnce
  StreamMatchesSubscriptions
  NeverWaitsForNothing
