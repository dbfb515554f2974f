SPECIFICATION ChannelFairSpec
CONSTANTS
  Putter = {p1, p2}
  Getter = {g1, g2}
  Poller = {q1}
  Val = {a, b}
  Nil = nil
  Timeout = 1
  MaxPuts = 3
INVARIANTS ChannelInv
PROPERTIES ImplementsChannel SentIsReceived PutsGoOn
CHECK_DEADLOCK FALSE
