SPECIFICATION Spec
CONSTANTS
  h1 = h1
  h2 = h2
  d1 = d1
  d2 = d2
  d3 = d3
  c = c
  key = key
  lower = lower
  Handlers = {h1, h2}
  Ops = {"activate", "verify", "deactivate", "reset_hardware", "generate", "revoke",
         "unrevoke", "extend", "reset_devices", "delete", "coupon_generate",
         "coupon_delete", "coupon_redeem"}
  Keys = {key}
  Spellings <- MCSpellings
  Canonical <- MCCanonical
  Devices = {d1, d2, d3}
  Codes = {c}
  MaxActivations <- MCMaxActivations
  Days = 1
  Cooldown = 1
  MaxTime = 2
  ForeignKeys = TRUE
  None = None
SYMMETRY Symmetry
INVARIANTS
  SlotOvershootBounded
  CouponOveruseBounded
  VerifyNotStale
PROPERTIES
  RevocationSticks
