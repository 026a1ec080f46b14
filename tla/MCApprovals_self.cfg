CONSTANTS
  u = u
  v = v
  dev = dev
  ops = ops
  gone = gone
  p = p
  k = k
  m = m
  Users = {u, v}
  Roles = {dev, ops, gone}
  Prefixes = {p}
  Connectors = {k, m}
  Configs <- MCConfigs
  NoConfig = NoConfig
  Unset = Unset
  NoPlan = NoPlan
  MaxReviews = 2
  MaxMerges = 1
SPECIFICATION RbacSpec
INVARIANTS
  ApprovedByAnother
CHECK_DEADLOCK FALSE
