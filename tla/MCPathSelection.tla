-------------------------- MODULE MCPathSelection --------------------------
(* A ring p - m = t - n - q = p: two portals, a mesh point m with a second
   transceiver t, a mesh point n.                                           *)
EXTENDS PathSelection

CONSTANTS p, q, m, t, n, c

MCDeviceOf == [x \in {t} |-> m]
MCRadio == {{p, m}, {t, n}, {n, q}}
MCMasters == [x \in Clients |-> {q, m, n}]
MCOrder == <<p, m, t, q, n>>
=============================================================================
