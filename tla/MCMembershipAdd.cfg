SPECIFICATION Spec
CONSTANTS
  olga = olga
  omar = omar
  sam = sam
  t1 = t1
  t2 = t2
  None = None
  Users = {olga, omar, sam}
  Owners = {olga, omar}
  StaffRoles = {"manager", "cashier"}
  Slots = {t1, t2}
  Limits = {4}
  Validity = 1
  MaxSent = 3
  MaxInvitations = 1
  MaxClock = 1
CHECK_DEADLOCK FALSE
PROPERTIES ActiveIsConflict
