SPECIFICATION Spec
CONSTANTS
  alice = alice
  bob = bob
  p1 = p1
  p2 = p2
  c1 = c1
  c2 = c2
  c3 = c3
  NoProc = NoProc
  NoConn = NoConn
  Procs = {p1}
  Conns = {c1, c2}
  Ids = {alice}
  IdOf <- MCIdSame
  Fds <- Fds2
  UpCap = 1
  DownCap = 1
  Patterns <- JustA
  SubTopics <- JustA
  Topics <- JustA
  Killable = {}
  Lines = {}
  ConsoleCap = 0
  MaxDatagrams = 3
SYMMETRY Symmetry
INVARIANT NoMutualBlock
