CONSTANTS
  r1 = r1
  r2 = r2
  alice = alice
  bob = bob
  save10 = save10
  NoCoupon = NoCoupon
  NoLimit = NoLimit
  NoRequest = NoRequest
  Requests = {r1, r2}
  Users = {alice, bob}
  Variants <- AllVariants
  Coupons = {save10}
  Price <- OneEach
  InitStock <- OneEach
  MaxUses <- TwiceOnly
  MinOrder <- NoMinimum
  MaxQty = 1
  RestockLevels = {}
  r3 = r3
  Shoppers = {}
  Deletable = {}
  Toggled = {}
SYMMETRY Symmetry
CHECK_DEADLOCK FALSE
SPECIFICATION Spec
INVARIANT NoOversell
