SPECIFICATION Spec
CONSTANTS
  Proc = {p1, p2}
  Inode = {1, 2}
  Stamp = {1}
  Task = {t1, t2}
  MaxHistory = 2
  MaxRuns = 4
  MaxDamage = 2
  MaxFaults = 2
SYMMETRY Symmetry
INVARIANTS
  OneHolder
  StateIsSound
  ReportedIsDurable
  DamageIsKept
