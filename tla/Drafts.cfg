SPECIFICATION Spec
CONSTANTS
  small = small
  other = other
  large = large
  Attachments = {a1, a2}
  Operations = {o1, o2}
  Contents = {small, other, large}
  Size <- SizeOfThree
  Uploads = {u1, u2}
  Editors = {e1}
  MaxCount = 2
  MaxBytes = 2
  Ttl = 1
  MaxTime = 1
  MaxVersion = 4
  None = None

SYMMETRY Symmetry

INVARIANTS
  TypeOK
  FilesAreStored
  SentAsShown
  SentIsReadable
  WithinLimits
