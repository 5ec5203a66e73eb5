\* Addresses of three octets, every text of up to six tokens, four descriptors.
SPECIFICATION Spec
CONSTANTS
  lo = lo
  eth = eth
  tun = tun
  local = local
  lan = lan
  foreign = foreign
  mac1 = mac1
  mac0 = mac0
  Octets = 3
  Bytes = {0, 9, 255}
  Numbers = {7, 256, 70000}
  UnsignedMax = 65535
  MaxTokens = 6
  Interfaces <- MCInterfaces
  IpOf <- MCIpOf
  MacOf <- MCMacOf
  Resolutions <- MCResolutions
  NoIp = NoIp
  MaxDescriptors = 4
INVARIANTS LoadedIsOwn RenderedIsParsed  
CHECK_DEADLOCK FALSE
