SPECIFICATION Spec
CONSTANTS
  Worker = {w1}
  Job = {}
  Client = {c1}
  Dates <- MCDates
  Limits = {1, 2}
  Patches <- LimitPatches
  TTL = 1
  HttpTime = 1
  MaxNow = 3
  MaxBooked = 2
  None = None
PROPERTY LimitCoversBooked
