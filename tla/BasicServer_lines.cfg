SPECIFICATION FairSpec
CONSTANTS
  whole = whole
  cut = cut
  Clients <- MCClients
  NoClient = NoClient
  Lines <- MCLines
  Cut <- MCCut
  MaxLines <- MCMaxLines
  BASIC_TCP_BUFFER = 4
INVARIANTS
  TypeOK
PROPERTIES
  ImplementsFeed
  LineRead
  NextAccepted
