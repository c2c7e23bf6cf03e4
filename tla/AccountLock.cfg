\* Locks with their fairness; accounts, roles and tokens; cached profiles;
\* migrations and seeds.
SPECIFICATION MCFairSpec
CONSTANTS
  User = {u1, u2}
  Worker = {w1, w2}
  LockDays = 2
  None = None
  Employee = {e1, e2}
  MadeId = {m1}
  Role = {Staff, Plain}
  Staff = Staff
  Plain = Plain
  TokenLife = 1
  Client = {c1}
  Office = {o1, o2}
  Nobody = Nobody
  Person = {p1}
  Category = {k1, k2}
  Profile = {v1, v2}
  Ttl = 1
  CallTime = 1
  MaxSize = 1
  Reader = {r1, r2}
  Writer = {a1}
INVARIANTS TypeOK LockMatchesEnd TokenStandsForRole StaffRemains StaleHasReason SeedIsWhole
PROPERTIES AlonePunishmentLocks JobUnlocksExpired LockKept LockEnds ProfileIsRecent
