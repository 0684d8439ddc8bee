SPECIFICATION Spec
CONSTANTS
  Parts = {"uri", "escape", "query", "request", "response", "message", "match", "vhost", "dnsname", "dnsreply", "tags", "tagbytes", "conf", "hosts", "address", "iptext", "order", "node", "interfaces", "clock"}
  Bounds <- Pieces
  BufLen = 90
  MaxUdp = 75
  MaxAddrs = 3
  MaxLabels = 4
  HostNameMax = 5
  Numbers <- NumberTexts
  Addresses <- AddressTexts
  HostDomain <- Domain
  Wrap = 4
  Apart = 2
INVARIANTS RoundTrips ReadsAsDefined
CHECK_DEADLOCK FALSE
