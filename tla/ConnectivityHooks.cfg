SPECIFICATION FairSpec
CONSTANTS
  Net <- MCNet
  Vpn = {"tun"}
  Transports <- MCTransports
  Null = Null
  Failures <- MCFailures
  MaxDepth = 5
  MaxChanges = 2
INVARIANTS
  TypeOK
  CapsShowNoVpn
  PlainNetworksKept
  NoCallWithinItself
PROPERTY CallsReturn
