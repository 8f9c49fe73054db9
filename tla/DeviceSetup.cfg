SPECIFICATION Spec
CONSTANTS
  MaxDevices = 2
  MaxFamilies = 2
  MaxImages = 3
INVARIANTS TypeOK FamiliesOfLastAble NoneMissed QueuesExist SwapchainFits
CHECK_DEADLOCK FALSE
