SPECIFICATION FairSpec
CONSTANTS
  front = front  side = side
  ssh1 = ssh1  ssh2 = ssh2  ssh3 = ssh3
  Items = {front, side}
  Renderers = {ssh1, ssh2, ssh3}
  MaxRetries = 1
  MaxFaults = 3
  None = None
CHECK_DEADLOCK FALSE
PROPERTIES DeliveredAsMade PacketEnds
