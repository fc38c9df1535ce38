CONSTANTS
  p = p
  q = q
  m = m
  t = t
  n = n
  c = c
  Stations = {p, q, m, t, n}
  Portals = {p, q}
  DeviceOf <- MCDeviceOf
  Radio <- MCRadio
  Costs = {1, 2}
  Clients = {c}
  Masters <- MCMasters
  Order <- MCOrder
  Inf = 100
  None = None
SPECIFICATION Spec
INVARIANTS PathsAreShortest NextHopsReach PortalServesClient
