SPECIFICATION DeliveryFairSpec
CONSTANTS
  c1 = c1
  c2 = c2
  Clients = {c1, c2}
  NoClient = NoClient
  Base = 10
  Capacity = 2
  Half = 4
  Unsupported = Unsupported
  Datagrams <- MCDatagrams
  Bursts <- MCBursts
  Subscriptions <- MCSubscriptions
  Patterns <- MCPatterns
  Text <- MCText
  Mortal = {c2}
  MaxPosted = 2
INVARIANTS
  DeliveryTypeOK
  LengthKept
  OnlyWhoAsked
  EveryoneWhoAsked
  PrintsWhatWasSent
PROPERTIES
  KeepsFrames
  FanoutEnds
  EveryMessageArrives
