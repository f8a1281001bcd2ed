SPECIFICATION Spec
CONSTANTS
  Net <- MCNet
  Vpn = {"tun"}
  Transports <- MCTransports
  Null = Null
  Failures = {{}}
  MaxDepth = 5
  MaxChanges = 0
INVARIANT VpnLinkIsReplaced
