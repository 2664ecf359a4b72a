SPECIFICATION ReliableSpec
CONSTANTS
  u1 = u1
  u2 = u2
  host = host
  v6 = v6
  server = server
  NotAnInt = NotAnInt
  Refused = Refused
  Absent = Absent
  AnyAddress = AnyAddress
  NoSocket = NoSocket
  Exit = Exit
  EndOfInput = EndOfInput
  None = None
  ServerAddress <- MCServer
  Lossy = FALSE
  Runs = {u1, u2}
  CommandLines <- MCLines
  File <- MCFile
  Addresses = {host, v6, server, AnyAddress}
  InetAddresses = {host, server, AnyAddress}
  LocalAddresses = {host}
  Ephemeral <- MCEphemeral
  Choices <- MCChoices
  MaxSleep = 2
  MaxSent = 2
INVARIANTS
  UdpTypeOK
  UdpInv
  AdvertisedPorts
  SourceNamesRun
  ListInOrder
PROPERTIES
  KeepsPromise
  FiniteRunsEnd
  EverythingArrives
