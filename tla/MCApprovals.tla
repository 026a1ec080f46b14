----------------------------- MODULE MCApprovals -----------------------------
(* One prefix, two connectors.  u is a developer, v may be one too and may  *)
(* be in the role that approves; grants of every kind, with and without a  *)
(* list of connectors, and one that names a role that does not exist.      *)
EXTENDS Approvals, TLC

CONSTANTS u, v, dev, ops, gone, p, k, m

Grant(kind, role, cs) == (p :> [grant |-> kind, role |-> role, connectors |-> cs])

Config(devs, grant, operators, other) ==
  (dev :> [users |-> devs, prefixes |-> grant]) @@ (ops :> [users |-> operators, prefixes |-> other])

MCConfigs ==
  {Config({u}, g, {v}, h) :
     g \in {Grant("ApplyIfApprovedBy", ops, {k}), Grant("ApplyIfApprovedBy", gone, {k, m}),
            Grant("ReadOnly", dev, {k, m}), Grant("ApplyIfApprovedBy", dev, {m})},
     h \in {Grant("Apply", ops, {k}), <<>>}}
  \cup {Config({u, v}, Grant("ApplyIfApprovedBy", ops, Unset), {}, Grant("Apply", ops, Unset))}
=============================================================================
