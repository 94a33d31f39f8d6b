CONSTANTS
  k1 = k1
  k2 = k2
  Key <- WalletKeys
  MARGIN = 2
  InitUses = {0, 1}
  MaxUse = 8
  MaxSwitches = 3
  Faults <- VerifyFault
SPECIFICATION Spec
SYMMETRY KeySymmetry
INVARIANT NoSlotReused
