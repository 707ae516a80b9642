------------------------------ MODULE MCReqShim ------------------------------
(* Volumes for model-checking ReqShim. *)
EXTENDS ReqShim

E(start, len, dev, phys) ==
  [start |-> start, len |-> len, dev |-> dev, phys |-> phys]

\* Two extents on two namespaces; the volume a restarted manager gives the
\* same allocation id to, with one extent; and one of another minor.
VolA == [minor |-> 0, cap |-> 2, maps |-> <<E(0, 1, "p", 0), E(1, 1, "q", 0)>>]
VolB == [minor |-> 0, cap |-> 2, maps |-> <<E(0, 2, "r", 0)>>]
VolC == [minor |-> 1, cap |-> 1, maps |-> <<E(0, 1, "p", 1)>>]

MCVolumes == {VolA, VolB, VolC}
MCVolumesAB == {VolA, VolB}
==============================================================================
