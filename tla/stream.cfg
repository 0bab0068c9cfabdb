SPECIFICATION FairSpec
CONSTANTS
  lead = lead
  member = member
  s1 = s1
  s2 = s2
  User = {lead, member}
  Lead = lead
  Stream = {s1, s2}
  Kind = {"item_created", "rollout_event"}
  Heard = {"item_created", "wave_event"}
  Nil = Nil
  QueueSize = 2
  MaxEvents = 3
  MaxCalls = 3
  Mixes <- MCMixes
INVARIANTS DeliveryInv LogInv
PROPERTIES PagesStand SignalledStreamsEnd RowsArePublished
CHECK_DEADLOCK FALSE
