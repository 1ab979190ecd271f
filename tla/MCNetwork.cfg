SPECIFICATION MCSpec
CONSTANTS
  Clients = {c1, c2}
  Server = server
  Addresses = 2
  ServerAddr = 2
  Backlog = 3
  CloseFails = {FALSE, TRUE}
  Half = 128
  Printed <- MCPrinted
  MaxSignals = 2
  MaxOutput = 2
INVARIANTS
  DescriptorsCounted
  Connected
  ErrorsToldApart
  PrintsTheNumber
PROPERTIES
  Progress
