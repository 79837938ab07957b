\* Two rings of three slots, two different packets.
CONSTANTS
  NumQueues = 2
  Size = 3
  Packet = {p1, p2}
  Junk = Junk
  Nothing = Nothing
SPECIFICATION FairSpec
INVARIANT HeldIntact
INVARIANT SearchInv
PROPERTY ImplementsQueues
PROPERTY Served
