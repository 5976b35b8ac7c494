CONSTANTS
  r1 = r1
  r2 = r2
  alice = alice
  bob = bob
  save10 = save10
  NoCoupon = NoCoupon
  NoLimit = NoLimit
  NoRequest = NoRequest
  Requests = {r1, r2, r3}
  Users = {alice, bob}
  Variants <- AllVariants
  Coupons = {}
  Price <- OneEach
  InitStock <- OneEach
  MaxUses <- NoCouponYet
  MinOrder <- NoCouponYet
  MaxQty = 1
  RestockLevels = {}
  r3 = r3
  Shoppers = {}
  Deletable = {1}
  Toggled = {}

CHECK_DEADLOCK FALSE
SPECIFICATION FairSpec
PROPERTY EveryCallAnswered
INVARIANTS
  NoWaitCycle
  NoUnitHidden
