SPECIFICATION Spec
CONSTANTS
  m1 = m1
  m2 = m2
  u1 = u1
  k1 = k1
  k2 = k2
  k3 = k3
  k4 = k4
  Merchants = {m1, m2}
  Users = {u1}
  NoUser = NoUser
  Members <- MCMembers
  Requests = {r1, r2, r3, r4}
  Calls <- CoreCalls
  Keys = {k1, k2}
  NoKey = NoKey
  FirstStore <- MCFirstStore
  OpeningWallet <- MCOpeningWallet
  OpeningVouchers <- MCOpeningVouchers
  Cent = 2
  VoucherIds = {1, 2}
  VoucherBook <- MCVoucherBook
  Grants <- MCGrants
  MaxNow = 0
SYMMETRY Symmetry
INVARIANTS
  LedgerExplainsWallets
