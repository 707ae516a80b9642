------------------------------ MODULE LbcPlugin ------------------------------
(***************************************************************************)
(* The LBC mock plugin (ssu_plugin_lbc_mock.cpp) with the tools it runs    *)
(* (run_mock.sh), the NVMe target and host it drives through them, and the *)
(* devices it mounts through the ReqShim interface (reqshim_iface.cpp).    *)
(*                                                                         *)
(* The plugin's tables are memory of the manager; namespaces of the        *)
(* target, device nodes of the host and ReqShim devices are not: they stay *)
(* when the manager is restarted.  A device node appears some time after   *)
(* its namespace was enabled, and goes with it.  The plugin tells which    *)
(* node belongs to a new namespace by looking for a name that was not      *)
(* there before.                                                           *)
(*                                                                         *)
(* Operators only: NodeStack composes them with the controller.            *)
(***************************************************************************)
EXTENDS Integers, FiniteSets, FiniteSetsExt, Functions

CONSTANTS
  Ssus,       \* the SSUs: all share one NVMe subsystem
  NsIds,      \* namespace ids the target can hold
  DevNames,   \* names of device nodes, in the order the host gives them out
  MaxNsRows,  \* LBC_MOCK_MAX_NAMESPACES
  MaxMounts,  \* LBC_MOCK_MAX_MOUNTS
  Paths,      \* logical device paths: k is /dev/ssu/ssuk
  Minors      \* minors ReqShim serves; Paths outside carry other names

ASSUME LimitsAssumption == MaxNsRows \in Nat /\ MaxMounts \in Nat
ASSUME SetsAssumption ==
  /\ Ssus \cup NsIds \cup DevNames \cup Paths \cup Minors \subseteq Nat
  /\ IsFiniteSet(Ssus \cup NsIds \cup DevNames \cup Paths \cup Minors)
  /\ Cardinality(NsIds) <= Cardinality(DevNames)

VARIABLES
  rows,    \* namespaces[]: slot -> row
  mounts,  \* mounts[]: logical path -> allocation id
  target,  \* configfs: namespace id -> who it was made for, and enabled
  node,    \* device nodes: name -> namespace id
  minors,  \* ReqShim devices: minor -> path, disk and map entries
  leaked   \* history: namespaces create_ns gave up on, until they are removed

pluginVars == <<rows, mounts>>
nodeVars == <<target, node, minors, leaked>>
lbcVars == <<pluginVars, nodeVars>>

-----------------------------------------------------------------------------
Slots == 1 .. MaxNsRows

\* A table with a row more, and with a row less.
With(f, x, v) == [y \in DOMAIN f \cup {x} |-> IF y = x THEN v ELSE f[y]]
Without(f, x) == Restrict(f, DOMAIN f \ {x})

\* The rows of an allocation.
RowsOf(id) == {rows[i] : i \in {j \in DOMAIN rows : rows[j].id = id}}
SlotsAt(s) == {i \in DOMAIN rows : rows[i].ssu = s}

\* Namespaces whose node has not appeared yet.
Hidden == {n \in DOMAIN target : target[n].on} \ Range(node)

LbcInit ==
  /\ rows = [i \in {} |-> 0]
  /\ mounts = [p \in {} |-> 0]
  /\ target = [n \in {} |-> 0]
  /\ node = [d \in {} |-> 0]
  /\ minors = [m \in {} |-> 0]
  /\ leaked = {}

\* The manager process is gone: with it the tables of the plugin.
ForgetTables ==
  /\ rows' = [i \in {} |-> 0]
  /\ mounts' = [p \in {} |-> 0]
  /\ UNCHANGED nodeVars

\* The host attaches a namespace.
Attach(n) == With(node, Min(DevNames \ DOMAIN node), n)

\* A node appears late.
Appear(n) ==
  /\ n \in Hidden
  /\ node' = Attach(n)
  /\ UNCHANGED <<pluginVars, target, minors, leaked>>

-----------------------------------------------------------------------------
(* create_ns *)

\* What create_ns tests before it runs the tool.
CreateChecks(id, s) ==
  /\ ~\E i \in SlotsAt(s) : rows[i].id = id
  /\ Slots \ DOMAIN rows # {}

\* The id the tool gives a namespace: the first that is free.
NextNsid == Min(NsIds \ DOMAIN target)

\* create_attach of run_mock.sh has made namespace n.
Created(disk, off, n) == With(target, n, [disk |-> disk, off |-> off, on |-> TRUE])

CanMake(disk, s) == CreateChecks(disk.id, s) /\ NsIds \ DOMAIN target # {}

\* create_ns succeeds: the tool made a namespace (and may have failed after
\* that), and a node that was not there before is taken for its own.  It may
\* be the node of a namespace that was given up earlier.
CreateBinds(disk, s, off, m) ==
  /\ CanMake(disk, s)
  /\ m \in Hidden \cup {NextNsid}
  /\ target' = Created(disk, off, NextNsid)
  /\ node' = Attach(m)
  /\ rows' = With(rows, Min(Slots \ DOMAIN rows),
                  [id |-> disk.id, ssu |-> s, off |-> off, ns |-> NextNsid,
                   dev |-> Min(DevNames \ DOMAIN node)])
  /\ UNCHANGED <<mounts, minors, leaked>>

\* The tool succeeded, but no new node appeared in five seconds: the
\* namespace is left.
CreateMisses(disk, s, off) ==
  /\ CanMake(disk, s)
  /\ target' = Created(disk, off, NextNsid)
  /\ leaked' = leaked \cup {NextNsid}
  /\ UNCHANGED <<pluginVars, node, minors>>

\* The tool failed after it had made the namespace, and no new node appeared:
\* cleanup_configfs_namespace_id disables it but cannot remove it.
CreateCleansHalf(disk, s, off) ==
  /\ CanMake(disk, s)
  /\ target' = [Created(disk, off, NextNsid) EXCEPT ![NextNsid].on = FALSE]
  /\ leaked' = leaked \cup {NextNsid}
  /\ UNCHANGED <<pluginVars, node, minors>>

\* create_ns fails: it was refused, the tool made nothing, or what the tool
\* made before it failed was cleaned up.
CreateFails == UNCHANGED lbcVars

-----------------------------------------------------------------------------
(* delete_ns *)

\* The slots of a namespace; find_namespace takes the first.
SlotsOf(s, n) == {i \in SlotsAt(s) : rows[i].ns = n}

\* The nodes left when namespace n is gone from the host.
NodesWithout(n) == Restrict(node, {d \in DOMAIN node : node[d] # n})

\* rmdir: whoever's namespace it is by now.
RemoveNamespace(n) ==
  /\ target' = Without(target, n)
  /\ node' = NodesWithout(n)
  /\ leaked' = leaked \ {n}
  /\ UNCHANGED minors

\* Mutant of DeleteWorks: the row stays active.
DeleteWorksRowKept(s, n) ==
  /\ SlotsOf(s, n) # {}
  /\ RemoveNamespace(n)
  /\ UNCHANGED pluginVars

\* detach_delete of run_mock.sh succeeds, also if there is no namespace n any
\* more.  (The file it writes to remove the node of the row, device/delete,
\* is none that NVMe nodes have.)
DeleteWorks(s, n) ==
  /\ SlotsOf(s, n) # {}
  /\ rows' = Without(rows, Min(SlotsOf(s, n)))
  /\ RemoveNamespace(n)
  /\ UNCHANGED mounts

\* It stops at rmdir, or is killed before it: the node is gone and the
\* namespace disabled, the row stays.
DeleteStopsHalf(s, n) ==
  /\ SlotsOf(s, n) # {} /\ n \in DOMAIN target
  /\ target' = [target EXCEPT ![n].on = FALSE]
  /\ node' = NodesWithout(n)
  /\ UNCHANGED <<pluginVars, minors, leaked>>

\* It fails or is killed behind rmdir, at the files of the namespace, the
\* rescan or the log (set -eu): the namespace is gone and its id is free, the
\* row stays.
DeleteStopsLate(s, n) ==
  /\ SlotsOf(s, n) # {} /\ n \in DOMAIN target
  /\ RemoveNamespace(n)
  /\ UNCHANGED pluginVars

\* There is no row, or the tool fails before it has changed anything.
DeleteFails == UNCHANGED lbcVars

-----------------------------------------------------------------------------
(* connect, mount and unmount *)

\* connect names the device of the first row on the SSU, whoever's it is.
Connect(s, id) == rows[Min(SlotsAt(s))].dev

\* Mutant of MapsOf: takes the devices connect names.
MapsOfSsus(id) == {[off |-> r.off, dev |-> Connect(r.ssu, id)] : r \in RowsOf(id)}

\* collect_reqshim_maps: where the extents of a disk are, by device name.
MapsOf(id) == {[off |-> r.off, dev |-> r.dev] : r \in RowsOf(id)}

\* parse_allocate_minor: the number of the allocation id.
MinorOf(id, p) == id

\* What the plugin tests before it goes to ReqShim.
MountChecks(id, p) ==
  /\ RowsOf(id) # {}
  /\ p \notin DOMAIN mounts
  /\ Cardinality(DOMAIN mounts) < MaxMounts

\* Mutant of ReqShimTakes: a minor in use is used again.
ReqShimTakesBusy(m, p, maps) ==
  /\ m \in Minors
  /\ \A k \in DOMAIN minors : minors[k].path # p
  /\ \A e, f \in maps : e.off = f.off => e = f

\* Mutant of ReqShimTakes: the number is not checked.
ReqShimTakesAnyMinor(m, p, maps) ==
  /\ m \notin DOMAIN minors
  /\ \A k \in DOMAIN minors : minors[k].path # p
  /\ \A e, f \in maps : e.off = f.off => e = f

\* What LOGDEV_CREATE and MAP_ADD take: a minor they serve and that is free,
\* a disk name that is free, entries that start at different sectors.
ReqShimTakes(m, p, maps) ==
  /\ m \in Minors \ DOMAIN minors
  /\ \A k \in DOMAIN minors : minors[k].path # p
  /\ \A e, f \in maps : e.off = f.off => e = f

MountLbc(disk, p) ==
  /\ MountChecks(disk.id, p)
  /\ ReqShimTakes(MinorOf(disk.id, p), p, MapsOf(disk.id))
  /\ mounts' = With(mounts, p, disk.id)
  /\ minors' = With(minors, MinorOf(disk.id, p),
                    [path |-> p, disk |-> disk, maps |-> MapsOf(disk.id)])
  /\ UNCHANGED <<rows, target, node, leaked>>

\* A path in the mount table: the device of its allocation goes, whatever
\* path that carries.  If there is none (ENOENT) the unmount fails and the
\* row stays.
UnmountLbc(p) ==
  /\ p \in DOMAIN mounts
  /\ MinorOf(mounts[p], p) \in DOMAIN minors
  /\ minors' = Without(minors, MinorOf(mounts[p], p))
  /\ mounts' = Without(mounts, p)
  /\ UNCHANGED <<rows, target, node, leaked>>

\* The device that the cleanup of a path destroys: that of the number in the
\* path.
StaleMinor(p) == {p} \cap DOMAIN minors

\* A path it does not know: stale ReqShim cleanup.
CleanUpLbc(p) ==
  /\ p \notin DOMAIN mounts
  /\ \E m \in StaleMinor(p) : minors' = Without(minors, m)
  /\ UNCHANGED <<pluginVars, target, node, leaked>>
==============================================================================
