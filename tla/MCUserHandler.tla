--------------------------- MODULE MCUserHandler ---------------------------
(* A user handler on node s1 of a two-node cluster, with two devices.      *)
EXTENDS UserHandler, TLC

CONSTANTS s1, n2, d1, d2, none

Nodes2 == {s1, n2}
Devices2 == {d1, d2}
Devices1 == {d1}
NoDevices == {}
\* Connections made on the other node only, or also on this node.
RemoteConnNodes == {none, n2}
\* Connections made on the other node only, each carrying its realNodeId.
ProxyConnNodes == {n2}
AllConnNodes == {none, s1, n2}
AllQueues == {"auth", "ping", "recvack", "recv"}
AuthRecv == {"auth", "recv"}
PingRecv == {"ping", "recv"}
AuthPingRecv == {"auth", "ping", "recv"}
RecvackOnly == {"recvack"}
RecvOnly == {"recv"}
NoQueues == {}

DeviceSymmetry == Permutations(Devices2)
=============================================================================
