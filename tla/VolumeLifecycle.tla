--------------------------- MODULE VolumeLifecycle ---------------------------
(***************************************************************************)
(* What the controller promises a caller about logical disks, without      *)
(* pools, extents, plugins or tables: a disk is created once, is attached  *)
(* under any number of device paths if it is shared and under one          *)
(* otherwise, is destroyed only while it is attached nowhere, and never    *)
(* comes back.                                                             *)
(***************************************************************************)
CONSTANTS
  Volumes,   \* identities a disk can have
  Devs       \* logical device paths

VARIABLES
  live,      \* sharing mode of each disk that exists
  destroyed, \* disks that existed once
  attached   \* attached device path -> disk

vars == <<live, destroyed, attached>>

Init ==
  /\ live = [v \in {} |-> "EXCLUSIVE"]
  /\ destroyed = {}
  /\ attached = [d \in {} |-> d]

Create(v, mode) ==
  /\ v \notin (DOMAIN live) \cup destroyed
  /\ live' = [x \in (DOMAIN live) \cup {v} |->
                IF x = v THEN mode ELSE live[x]]
  /\ UNCHANGED <<destroyed, attached>>

Attach(v, d) ==
  /\ v \in DOMAIN live
  /\ d \notin DOMAIN attached
  /\ live[v] = "EXCLUSIVE" => \A x \in DOMAIN attached : attached[x] # v
  /\ attached' = [x \in (DOMAIN attached) \cup {d} |->
                    IF x = d THEN v ELSE attached[x]]
  /\ UNCHANGED <<live, destroyed>>

Detach(d) ==
  /\ d \in DOMAIN attached
  /\ attached' = [x \in (DOMAIN attached) \ {d} |-> attached[x]]
  /\ UNCHANGED <<live, destroyed>>

Destroy(v) ==
  /\ v \in DOMAIN live
  /\ \A x \in DOMAIN attached : attached[x] # v
  /\ live' = [x \in (DOMAIN live) \ {v} |-> live[x]]
  /\ destroyed' = destroyed \cup {v}
  /\ UNCHANGED attached

Next ==
  \/ \E v \in Volumes, mode \in {"EXCLUSIVE", "SHARED"} : Create(v, mode)
  \/ \E v \in DOMAIN live : \E d \in Devs : Attach(v, d)
  \/ \E d \in DOMAIN attached : Detach(d)
  \/ \E v \in DOMAIN live : Destroy(v)

Spec == Init /\ [][Next]_vars
==============================================================================
