---------------------------- MODULE MCProxmoxRead ----------------------------
(***************************************************************************)
(* Two nodes, one of whose names is not in lower case, two machines and    *)
(* two numbers. The clock counts five seconds.                             *)
(***************************************************************************)
EXTENDS ProxmoxRead, TLC

Folded == [PVE |-> "pve", pve2 |-> "pve2"]

Asset(kind, instance, object) == [kind |-> kind, instance |-> instance, object |-> object]

Assets == { Asset("CLUSTER", "lab", "lab"), Asset("CLUSTER", "site", "site"),
            Asset("HOST", "lab", "pve"),
            Asset("qemu", "lab", "100"), Asset("qemu", "site", "100"),
            Asset("qemu", "lab", "missing"), Asset("lxc", "lab", "web") }

Alike == Permutations(Machines)

Timeouts == [INSTANCE |-> 4, NODE |-> 7, GUEST |-> 7, FANOUT |-> 18]
=============================================================================
