------------------------------ MODULE NodeStack ------------------------------
(***************************************************************************)
(* One node: the controller's calls (ssu_controller.cpp) on the LBC mock   *)
(* plugin, what they leave at the target, at the host and in ReqShim, and  *)
(* a manager that may be killed between any two plugin calls and started   *)
(* again with empty tables.                                                *)
(*                                                                         *)
(* The manager executes one call at a time; alloc and release are one step *)
(* per plugin call, so that nodes may appear and the manager may die in    *)
(* between.  Placement, sizes, names and the checks on them are in         *)
(* SsuController: here an allocation may take any SSUs, one extent of one  *)
(* unit on each in their order, and every disk is shared (an exclusive one *)
(* is mounted less).  The ioctls of one mount or unmount are in ReqShim:   *)
(* here they are one step.                                                 *)
(***************************************************************************)
EXTENDS LbcPlugin

CONSTANTS
  MaxAllocId,  \* bound of the model: ids 0 .. MaxAllocId - 1 are issued
  MaxLives     \* bound of the model: times the manager is started

ASSUME BoundsAssumption == MaxAllocId \in Nat /\ MaxLives \in Nat \ {0}

VARIABLES
  allocs,   \* the controller's extent rows: id -> extents
  logdevs,  \* the controller's logical devices: path -> id and rows
  nextId,   \* next_allocation_id
  call,     \* the alloc or release that is under way
  life,     \* how often the manager was started
  residue,  \* history: ids a rollback of which left a row at the plugin
  stolen,   \* history: ids whose device a cleanup by path destroyed, or a row
            \* of which another disk's deletion cleared while they were mounted
  halfGone, \* history: some deletion has failed behind its beginning
  vanished  \* history: extents whose deletion failed, but removed their
            \* namespace; as long as something has the id of that

ctlVars == <<allocs, logdevs, nextId>>
history == <<residue, stolen, halfGone, vanished>>
vars == <<lbcVars, ctlVars, call, life, history>>

-----------------------------------------------------------------------------
Idle == [op |-> "none", id |-> 0, todo |-> {}, made |-> {}]

Disk(id) == [life |-> life, id |-> id]
ExtentOf(r) == [ssu |-> r.ssu, off |-> r.off, ns |-> r.ns]
HasLogdev(id) == \E p \in DOMAIN logdevs : logdevs[p].id = id
FirstOf(exts) == CHOOSE e \in exts : \A f \in exts : e.off <= f.off
LastOf(exts) == CHOOSE e \in exts : \A f \in exts : e.off >= f.off

\* The namespace ids that rows, disks and the call under way have.
Held == {rows[i].ns : i \in DOMAIN rows}
        \cup {e.ns : e \in call.made \cup UNION Range(allocs)}

\* A namespace id that may stand for two extents: that of one whose deletion
\* removed its namespace and failed, and that of one made since.
InDoubt(n) == \E v \in vanished : v.ns = n

Init ==
  /\ LbcInit
  /\ allocs = [id \in {} |-> 0]
  /\ logdevs = [p \in {} |-> 0]
  /\ nextId = 0
  /\ call = Idle
  /\ life = 1
  /\ residue = {}
  /\ stolen = {}
  /\ halfGone = FALSE
  /\ vanished = {}

-----------------------------------------------------------------------------
(* alloc *)

AllocBegin(ssus) ==
  /\ call = Idle
  /\ nextId < MaxAllocId
  /\ call' = [Idle EXCEPT !.op = "alloc", !.id = nextId, !.todo = ssus]
  /\ UNCHANGED <<lbcVars, ctlVars, life, history>>

\* The row create_ns has put into the plugin's table.
NewRow == CHOOSE r \in {rows'[i] : i \in DOMAIN rows' \ DOMAIN rows} : TRUE

AllocCreate ==
  LET s == Min(call.todo)
  IN  /\ call.op = "alloc" /\ call.todo # {}
      /\ \E m \in Hidden \cup (NsIds \ DOMAIN target) :
           CreateBinds(Disk(call.id), s, Cardinality(call.made), m)
      /\ call' = [call EXCEPT !.todo = @ \ {s},
                              !.made = @ \cup {ExtentOf(NewRow)}]
      /\ UNCHANGED <<ctlVars, life, history>>

\* Mutant of AfterFailure: what was made is left.
AfterFailureNothing == Idle

\* What was made is taken back, if anything.
AfterFailure ==
  IF call.made = {} THEN Idle ELSE [call EXCEPT !.op = "rollback", !.todo = {}]

\* create_ns fails.
AllocCreateFails ==
  LET s == Min(call.todo)
      disk == Disk(call.id)
      off == Cardinality(call.made)
  IN  /\ call.op = "alloc" /\ call.todo # {}
      /\ CreateFails \/ CreateMisses(disk, s, off) \/ CreateCleansHalf(disk, s, off)
      /\ call' = AfterFailure
      /\ UNCHANGED <<ctlVars, life, history>>

\* delete_ns for an extent of the call under way succeeds.
Delete(e) ==
  /\ DeleteWorks(e.ssu, e.ns)
  /\ stolen' = stolen \cup {id \in {rows[i].id : i \in DOMAIN rows \ DOMAIN rows'} :
                            id # call.id /\ HasLogdev(id)}
  /\ UNCHANGED halfGone

\* It fails.
DeleteStops(e) ==
  /\ \/ DeleteFails /\ UNCHANGED <<halfGone, vanished>>
     \/ DeleteStopsHalf(e.ssu, e.ns) /\ halfGone' = TRUE /\ UNCHANGED vanished
     \/ /\ DeleteStopsLate(e.ssu, e.ns) /\ halfGone' = TRUE
        /\ vanished' = vanished \cup {[id |-> call.id, ns |-> e.ns]}
  /\ UNCHANGED stolen

\* Nothing is in doubt of an id that nothing has any more.
Settle == vanished' = {v \in vanished : v.ns \in Held'}

\* The rollback, in reverse order; what delete_ns returns is ignored.
RollBack ==
  LET e == LastOf(call.made)
  IN  /\ call.op = "rollback"
      /\ call' = IF call.made = {e} THEN Idle ELSE [call EXCEPT !.made = @ \ {e}]
      /\ UNCHANGED <<ctlVars, life>>
      /\ \/ Delete(e) /\ Settle /\ UNCHANGED residue
         \/ DeleteStops(e) /\ residue' = residue \cup {call.id}

\* Every create_ns succeeded: the controller commits its rows.
AllocCommit ==
  /\ call.op = "alloc" /\ call.todo = {}
  /\ allocs' = With(allocs, call.id, call.made)
  /\ nextId' = call.id + 1
  /\ call' = Idle
  /\ UNCHANGED <<lbcVars, logdevs, life, history>>

-----------------------------------------------------------------------------
(* release *)

ReleaseBegin(id) ==
  /\ call = Idle
  /\ id \in DOMAIN allocs /\ ~HasLogdev(id)
  /\ call' = [Idle EXCEPT !.op = "release", !.id = id]
  /\ UNCHANGED <<lbcVars, ctlVars, life, history>>

\* Mutant of ExtentsAfter: the whole disk is forgotten with its first extent.
ExtentsAfterNone(id, e) == {}

\* The rows of a disk when that of e is cleared.
ExtentsAfter(id, e) == allocs[id] \ {e}

\* The next row, in role order: its namespace is deleted, its row cleared.
ReleaseNext ==
  LET id == call.id
      e == FirstOf(allocs[id])
  IN  /\ call.op = "release"
      /\ Delete(e)
      /\ IF ExtentsAfter(id, e) = {}
           THEN allocs' = Without(allocs, id) /\ call' = Idle
           ELSE /\ allocs' = [allocs EXCEPT ![id] = ExtentsAfter(id, e)]
                /\ UNCHANGED call
      /\ Settle
      /\ UNCHANGED <<logdevs, nextId, life, residue>>

\* delete_ns fails: release returns, the rows that are left stay ACTIVE.
ReleaseStops ==
  LET e == FirstOf(allocs[call.id])
  IN  /\ call.op = "release"
      /\ DeleteStops(e)
      /\ call' = Idle
      /\ UNCHANGED <<ctlVars, life, residue>>

-----------------------------------------------------------------------------
(* mount and unmount *)

\* mount: connect on the SSU of every row, then the plugin's mount.
Mount(id, p) ==
  /\ call = Idle
  /\ id \in DOMAIN allocs /\ p \notin DOMAIN logdevs
  /\ MountLbc(Disk(id), p)
  /\ logdevs' = With(logdevs, p, [id |-> id,
       maps |-> {[off |-> e.off, ns |-> e.ns, dev |-> Connect(e.ssu, id)] :
                   e \in allocs[id]}])
  /\ UNCHANGED <<allocs, nextId, call, life, history>>

\* unmount of a path the controller has a row of.
Unmount(p) ==
  /\ call = Idle
  /\ p \in DOMAIN logdevs
  /\ UnmountLbc(p)
  /\ logdevs' = Without(logdevs, p)
  /\ UNCHANGED <<allocs, nextId, call, life, history>>

\* unmount of a path it has no row of is left to the plugin.
CleanUp(p) ==
  /\ call = Idle
  /\ p \notin DOMAIN logdevs
  /\ CleanUpLbc(p)
  /\ stolen' = stolen \cup {id \in DOMAIN allocs : id \in StaleMinor(p)}
  /\ UNCHANGED <<ctlVars, call, life, residue, halfGone, vanished>>

-----------------------------------------------------------------------------
(* The environment *)

NodeAppears(n) ==
  /\ Appear(n)
  /\ UNCHANGED <<ctlVars, call, life, history>>

\* The manager is killed, or stopped, and started again.
Restart ==
  /\ life < MaxLives
  /\ life' = life + 1
  /\ ForgetTables
  /\ allocs' = [id \in {} |-> 0]
  /\ logdevs' = [p \in {} |-> 0]
  /\ nextId' = 0
  /\ call' = Idle
  /\ residue' = {}
  /\ stolen' = {}
  /\ vanished' = {}
  /\ UNCHANGED halfGone

Next ==
  \/ \E ssus \in (SUBSET Ssus) \ {{}} : AllocBegin(ssus)
  \/ AllocCreate \/ AllocCreateFails \/ RollBack \/ AllocCommit
  \/ \E id \in DOMAIN allocs : ReleaseBegin(id)
  \/ ReleaseNext \/ ReleaseStops
  \/ \E id \in DOMAIN allocs, p \in Paths : Mount(id, p)
  \/ \E p \in Paths : Unmount(p) \/ CleanUp(p)
  \/ \E n \in NsIds : NodeAppears(n)
  \/ Restart

Spec == Init /\ [][Next]_vars

-----------------------------------------------------------------------------
(* Properties *)

\* The type invariant, with the limits of the plugin's tables.
TypeOK ==
  /\ DOMAIN rows \subseteq Slots
  /\ \A i \in DOMAIN rows :
       rows[i] \in [id : Nat, ssu : Ssus, off : Nat, ns : NsIds, dev : DevNames]
  /\ DOMAIN mounts \subseteq Paths /\ Cardinality(DOMAIN mounts) <= MaxMounts
  /\ DOMAIN target \subseteq NsIds
  /\ DOMAIN node \subseteq DevNames /\ Range(node) \subseteq DOMAIN target
  /\ DOMAIN minors \subseteq Minors
  /\ DOMAIN allocs \subseteq 0 .. nextId - 1
  /\ call.op \in {"none", "alloc", "rollback", "release"}

\* Whatever tools failed and whenever the manager died: the namespace of a
\* row of the plugin is there, was made for that extent of its disk, and no
\* other row has it, so that delete_ns takes no other disk's namespace.  The
\* exception is an id of which a deletion failed when it had removed the
\* namespace, for as long as a row or a disk has that id: the damage of such
\* a deletion does not spread to other ids, and ends with the last of them.
RowsOwnNamespaces ==
  \A i \in DOMAIN rows :
    LET r == rows[i]
    IN  ~InDoubt(r.ns) =>
          /\ r.ns \in DOMAIN target
          /\ target[r.ns].disk = Disk(r.id) /\ target[r.ns].off = r.off
          /\ \A j \in DOMAIN rows : rows[j].ns = r.ns => i = j

\* The extents whose namespace ids are beyond doubt.
Sure(exts) == {e \in exts : ~InDoubt(e.ns)}

\* The controller's tables and the plugin's agree after every plugin call:
\* a disk has the rows the plugin has of it, unless a rollback on its id left
\* one behind, and other rows are of the id to be issued next or such rests.
\* That is so for every namespace id that is beyond doubt.
TablesAgree ==
  /\ \A id \in DOMAIN allocs :
       LET exts == Sure({ExtentOf(r) : r \in RowsOf(id)})
       IN  /\ Sure(allocs[id]) \subseteq exts
           /\ id \notin residue => Sure(allocs[id]) = exts
  /\ \A i \in DOMAIN rows :
       \/ rows[i].id \in DOMAIN allocs \cup {nextId} \cup residue
       \/ InDoubt(rows[i].ns)
  /\ mounts = [p \in DOMAIN logdevs |-> logdevs[p].id]

\* A namespace that no call can delete any more is one that create_ns gave up
\* on, one of a manager that died, or one that a rollback failed to delete:
\* every other is an extent of a disk or of the call under way.
NoneLost ==
  \A n \in DOMAIN target :
    \/ n \in leaked
    \/ target[n].disk.life < life
    \/ target[n].disk.id \in residue
    \/ \E e \in call.made \cup UNION Range(allocs) : e.ns = n

\* Two rows never name one device, and a ReqShim device reaches namespaces
\* of its own disk only, across restarts of the manager and although device
\* names are used again: as long as every node appeared while its create_ns
\* waited for it and no deletion failed behind its beginning.
IoReachesOwnDisk ==
  ~halfGone /\ (\A n \in leaked : ~target[n].on) =>
    /\ \A i, j \in DOMAIN rows : rows[i].dev = rows[j].dev => i = j
    /\ \A m \in DOMAIN minors : \A e \in minors[m].maps :
         /\ e.dev \in DOMAIN node
         /\ target[node[e.dev]].disk = minors[m].disk
         /\ target[node[e.dev]].off = e.off

\* A path the controller shows as mounted has its device in ReqShim, under
\* that path and with the extents of the disk, unless a cleanup by path
\* destroyed it or a deletion of another disk cleared one of its rows; so a
\* disk has one device on a node.
AttachedIsServed ==
  \A p \in DOMAIN logdevs :
    LET id == logdevs[p].id
    IN  id \notin stolen =>
          /\ id \in DOMAIN minors
          /\ minors[id] = [path |-> p, disk |-> Disk(id), maps |-> MapsOf(id)]

\* The rows of the logdev query are the mappings ReqShim has
\* (implementation-design.md:327).
LogdevIsMapping ==
  \A p \in DOMAIN logdevs : \A m \in DOMAIN minors :
    minors[m].path = p =>
      {[off |-> e.off, dev |-> e.dev] : e \in logdevs[p].maps} = minors[m].maps
==============================================================================
