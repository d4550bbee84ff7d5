SPECIFICATION Spec
CONSTANTS
  olga = olga
  omar = omar
  sam = sam
  t1 = t1
  t2 = t2
  None = None
  Users = {olga, omar, sam}
  Owners = {olga, omar}
  StaffRoles = {"manager"}
  Slots = {t1, t2}
  Limits = {2, 4}
  Validity = 2
  MaxSent = 4
  MaxInvitations = 1
  MaxClock = 2
INVARIANTS OwnerStays AuthorityNeverDeadlocks
PROPERTIES LimitHolds SuspensionHolds
CHECK_DEADLOCK FALSE
SYMMETRY Symmetry
