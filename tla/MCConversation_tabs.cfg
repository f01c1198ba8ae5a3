CONSTANTS
  k1 = k1  k2 = k2  u1 = u1  u2 = u2  p1 = p1  p2 = p2  pair = pair  np = np
  blank = blank  q1 = q1
  Slots = {k1, k2}
  Users = {u1, u2}
  NoUser = NoUser
  Persons = {p1, p2}
  PersonOf <- PersonsOfU1
  NoPerson = np
  Charts = {pair}
  SubjectOf <- Subjects
  PartnerOf <- Partners
  Blank = blank
  Questions = {blank, q1}
  Answers = {x}
  StreamEnds = {"answer", "error", "placeholder"}
  Posts <- PostedLists
  MaxPosition = 2
  MaxSessions = 2
  MaxRequests = 3
SPECIFICATION Spec
INVARIANTS TypeOK RoundsInOrder NoGaps KeptInSerialUse NothingDangles OnlyOwnerWrites
PROPERTIES Promised
SYMMETRY SlotSymmetry
CHECK_DEADLOCK FALSE
