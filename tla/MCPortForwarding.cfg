SPECIFICATION PortSpec
CONSTANTS
  c1 = c1
  c2 = c2
  c3 = c3
  p1 = p1
  p2 = p2
  NoConfig = NoConfig
  NoPort = NoPort
  Configs = {c1, c2, c3}
  Reachable = {c1, c2}
  Ports = {p1, p2}
  FirstPort = p1
  Grants <- GrantsOfEach
  MaxFaults = 2
INVARIANTS
  MarkerMeansTunnel
PROPERTIES
  PortComesBack
