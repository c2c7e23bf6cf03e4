SPECIFICATION FairSpec
CONSTANTS
  Worker = {w1}
  Job = {j1}
  Client = {c1}
  Dates <- MCDates
  Limits = {None}
  Patches <- MCPatches
  TTL = 1
  HttpTime = 1
  MaxNow = 3
  MaxBooked = 1
  None = None
INVARIANT TypeOK
PROPERTIES AdmittedByRecentRow StatusCatchesUp
