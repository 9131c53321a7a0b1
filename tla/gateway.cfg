SPECIFICATION Spec
CONSTANTS
  Field <- Parts
  First <- FirstParts
  Word <- Words
  Routes <- gw_conf
  PortIp <- Ports
  Host <- Hosts
  None = none
  MaxQueue = 3
INVARIANTS GatewayTypeOK CountCovers Routed AddressesRead ChecksumVerifies 
