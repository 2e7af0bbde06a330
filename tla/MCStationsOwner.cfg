SPECIFICATION Spec
CONSTANTS
  Users = {alice, bob}
  StationIds = {kxyz, demo}
  Seeded = {demo}
  Spins = {spin1}
  Workers = {w1, w2}
  MaxRequests = 4
  Nobody = Nobody
  Absent = Absent
  NoPush = NoPush
  NoSpin = NoSpin
  NoReq = NoReq
SYMMETRY Symmetry
INVARIANT OnlyOwnerPushes
