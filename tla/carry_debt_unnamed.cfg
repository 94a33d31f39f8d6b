CONSTANTS
  k1 = k1
  k2 = k2
  Key <- WalletKeys
  MARGIN = 2
  InitUses = {0, 1}
  MaxUse = 6
  MaxSwitches = 3
  Faults <- MirrorFault
SPECIFICATION Spec
SYMMETRY KeySymmetry
INVARIANT DebtIsNamed
