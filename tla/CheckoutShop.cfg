CONSTANTS
  r1 = r1
  r2 = r2
  alice = alice
  bob = bob
  save10 = save10
  NoCoupon = NoCoupon
  NoLimit = NoLimit
  NoRequest = NoRequest
  Requests = {r1, r2}
  Users = {alice, bob}
  Variants <- AllVariants
  Coupons = {save10}
  Price <- OneEach
  InitStock <- TwoEach
  MaxUses <- OnceOnly
  MinOrder <- NoMinimum
  MaxQty = 1
  RestockLevels <- Lost
  r3 = r3
  Shoppers = {alice}
  Deletable = {1}
  Toggled = {save10}
SYMMETRY RequestSymmetry
SPECIFICATION Spec
INVARIANTS
  ExclusiveRows
  UsedCountSound
  SharedVariantCeiling
  LedgerExact
PROPERTY NeverSoldBelowZero
