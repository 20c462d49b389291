SPECIFICATION ChksumSpec
CONSTANTS
  Base = 3
  Chains <- MCChains
  Addresses <- MCAddresses
  Protos = {1, 2}
INVARIANTS ChksumTypeOK ReceiverAccepts HeaderAccepted
CHECK_DEADLOCK FALSE
