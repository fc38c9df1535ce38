------------------------- MODULE MCMeshForwarding -------------------------
(* A ring p - m = t - n - q = p: two portals, a mesh point m with a second
   transceiver t, a mesh point n; a client c that roams between q and n.    *)
EXTENDS MeshForwarding

CONSTANTS p, q, m, t, n, c

MCDeviceOf == [x \in {t} |-> m]
MCRadio == {{p, m}, {t, n}, {n, q}}
MCMasters == [x \in Clients |-> {q, n}]
MCOrder == <<p, q, m, t, n>>
=============================================================================
