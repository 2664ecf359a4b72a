SPECIFICATION Spec
CONSTANTS
  alice = alice
  bob = bob
  p1 = p1
  p2 = p2
  c1 = c1
  c2 = c2
  c3 = c3
  NoProc = NoProc
  NoConn = NoConn
  Procs = {p1, p2}
  Conns = {c1, c2, c3}
  Ids = {alice, bob}
  IdOf <- MCIdDistinct
  Fds <- Fds2
  UpCap = 1
  DownCap = 1
  Patterns <- JustA
  SubTopics <- JustA
  Topics <- JustA
  Killable = {}
  Lines = {"exit"}
  ConsoleCap = 1
  MaxDatagrams = 1
SYMMETRY Twins
INVARIANTS
  TypeOK
  AppInv
  PollSetMatchesRegistry
  NeverPlaceholder
  EveryReadyServed
  ReportedStaysReady
PROPERTIES
  OwnSubscriptionsOnly
  KeepsService
