SPECIFICATION KeptSpec
CONSTANTS
  User = {u1, u2}
  Worker = {w1, w2}
  LockDays = 2
  None = None
SYMMETRY Symmetry
PROPERTY PunishmentLocks
