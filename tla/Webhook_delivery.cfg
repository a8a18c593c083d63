SPECIFICATION Spec
CONSTANTS
  h1 = h1
  h2 = h2
  o1 = o1
  o2 = o2
  k1 = k1
  k2 = k2
  k3 = k3
  Handlers = {h1, h2}
  Orders = {o1, o2}
  Malformed = {o2}
  Keys = {k1, k2, k3}
  MaxDlq = 1
  None = None
SYMMETRY Symmetry
INVARIANTS
  DuplicatesBounded
  SuccessMeansStored
  MailedKeysAreStored
  MailSentOrQueued
PROPERTIES
  RevokedStaysRevoked
