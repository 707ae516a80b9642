------------------------------- MODULE ReqShim -------------------------------
(***************************************************************************)
(* The ReqShim kernel module and the sessions user space drives it with.   *)
(*                                                                         *)
(* The kernel keeps a slot per minor under logdev_lock and a table of map  *)
(* entries under map_lock; an ioctl is one atomic step per lock section,   *)
(* so ioctls of several processes, and the workers that serve block I/O,   *)
(* interleave between them.  A session is what reqshim_iface.cpp does for  *)
(* one mount or unmount: create and map_add each entry, or map_del each    *)
(* entry and destroy.  A process may be killed between two ioctls; what it *)
(* left in the kernel stays, and its successor, which has no record of it, *)
(* unmounts it by the minor of its device path.                            *)
(***************************************************************************)
EXTENDS Naturals, Sequences, FiniteSets, SequencesExt

CONSTANTS
  Clients,  \* processes that mount and unmount
  Minors,   \* minors below SSU_REQSHIM_MAX_LOGDEVS
  Volumes,  \* records [minor, cap, maps]: the minor an allocation id parses
            \* to, and the extents of the allocation in sectors
  Reqs,     \* block requests that can be outstanding at a time
  MaxMaps,  \* SSU_REQSHIM_MAX_MAPS
  MaxDisks, \* bound of the model: gendisks created in a behaviour
  Serial    \* sessions on the same minor do not overlap (one manager serves
            \* a node, one operation at a time)

ASSUME SerialAssumption == Serial \in BOOLEAN
ASSUME MapsAssumption == MaxMaps \in Nat /\ MaxDisks \in Nat

\* An extent of a volume: the sectors it covers and where they are.
ExtentStates == [start : Nat, len : Nat \ {0}, dev : STRING, phys : Nat]

ASSUME VolumesAssumption ==
  Volumes \subseteq [minor : Minors, cap : Nat, maps : Seq(ExtentStates)]

\* The extents of an allocation cover it (SsuController's RowsTile).
ASSUME CoverAssumption ==
  \A v \in Volumes : \A sector \in 0 .. v.cap - 1 : \E k \in DOMAIN v.maps :
    v.maps[k].start <= sector /\ sector - v.maps[k].start < v.maps[k].len

VARIABLES
  slot,     \* logdevs[minor]: whether active, and its gendisk (0: none)
  maps,     \* maps[]: an entry, or NoEntry in a free slot
  disks,    \* gendisks the block layer knows
  dying,    \* gendisks del_gendisk has begun to remove: no new request
  volumeOf, \* gendisk -> the volume it was created for
  reqs,     \* outstanding requests
  session,  \* what each client is doing
  mounted   \* per client: the volumes in the plugin's mount table

kernelVars == <<slot, maps, disks, dying, volumeOf>>
vars == <<slot, maps, disks, dying, volumeOf, reqs, session, mounted>>

-----------------------------------------------------------------------------
(* Data *)

NoEntry == [minor |-> 0, start |-> 0, len |-> 0, dev |-> "none", phys |-> 0]
NoSlot == [active |-> FALSE, disk |-> 0]
NoReq == [st |-> "free"]
Idle == [at |-> "idle"]
Nowhere == [dev |-> "none", phys |-> 0]

Gens == 1 .. MaxDisks
NextGen == Cardinality(DOMAIN volumeOf) + 1

\* The struct ssu_map_entry of extent e of a device with minor m.
Entry(m, e) ==
  [minor |-> m, start |-> e.start, len |-> e.len, dev |-> e.dev,
   phys |-> e.phys]

UsedSlots == {i \in 1 .. MaxMaps : maps[i] # NoEntry}
SlotsAt(m, start) ==
  {i \in UsedSlots : maps[i].minor = m /\ maps[i].start = start}
SlotsOf(m) == {i \in UsedSlots : maps[i].minor = m}
SlotsHit(m, sector) ==
  {i \in SlotsOf(m) : /\ maps[i].start <= sector
                      /\ sector - maps[i].start < maps[i].len}

First(S) == CHOOSE i \in S : \A j \in S : i <= j

\* Where an extent puts a logical sector.
Place(e, sector) == [dev |-> e.dev, phys |-> e.phys + (sector - e.start)]

\* Where ssu_reqshim_translate_sector puts a sector of minor m.
Mapped(m, sector) == SlotsHit(m, sector) # {}
Translate(m, sector) == Place(maps[First(SlotsHit(m, sector))], sector)

\* Where the extents of a volume put a sector.
Home(v, sector) ==
  {Place(v.maps[i], sector) : i \in {j \in DOMAIN v.maps :
     v.maps[j].start <= sector /\ sector - v.maps[j].start < v.maps[j].len}}

Inside(c) == session[c].at # "idle"
MinorBusy(m) == \E c \in Clients : Inside(c) /\ session[c].minor = m

\* A client begins a session: op for volume v on minor m, with the entries
\* it has to go through.
Begin(c, op, m, v, entries) ==
  /\ ~Inside(c)
  /\ Serial => ~MinorBusy(m)
  /\ session' = [session EXCEPT ![c] =
       [op |-> op, at |-> IF op = "mount" THEN "create" ELSE "del",
        minor |-> m, vol |-> v, maps |-> entries, i |-> 1, disk |-> 0]]

Goto(c, at) == session' = [session EXCEPT ![c].at = at]
End(c) == session' = [session EXCEPT ![c] = Idle]

\* A mount that failed takes the entries it added back, last one first.
Undo(c) ==
  session' = [session EXCEPT
    ![c].op = "undo", ![c].at = "del", ![c].i = 1,
    ![c].maps = Reverse(SubSeq(@, 1, session[c].i - 1))]

-----------------------------------------------------------------------------
Init ==
  /\ slot = [m \in Minors |-> NoSlot]
  /\ maps = [i \in 1 .. MaxMaps |-> NoEntry]
  /\ disks = {}
  /\ dying = {}
  /\ volumeOf = <<>>
  /\ reqs = [r \in Reqs |-> NoReq]
  /\ session = [c \in Clients |-> Idle]
  /\ mounted = [c \in Clients |-> {}]

-----------------------------------------------------------------------------
(* Mount: ssu_reqshim_mount_logdev_for_allocate *)

StartMount(c, v) ==
  /\ Begin(c, "mount", v.minor, v, v.maps)
  /\ UNCHANGED <<kernelVars, reqs, mounted>>

\* SSU_IOC_LOGDEV_CREATE on a minor that is active.
CreateBusy(c) ==
  /\ session[c].at = "create"
  /\ slot[session[c].minor].active
  /\ End(c)
  /\ UNCHANGED <<kernelVars, reqs, mounted>>

\* SSU_IOC_LOGDEV_CREATE failing: an allocation, or add_disk, which refuses a
\* device number that is still registered.
CreateFails(c) ==
  /\ session[c].at = "create"
  /\ ~slot[session[c].minor].active
  /\ slot' = [slot EXCEPT ![session[c].minor] = NoSlot]
  /\ End(c)
  /\ UNCHANGED <<maps, disks, dying, volumeOf, reqs, mounted>>

\* SSU_IOC_LOGDEV_CREATE: the gendisk goes online.
Create(c) ==
  LET m == session[c].minor
  IN  /\ session[c].at = "create"
      /\ ~slot[m].active
      /\ \A g \in disks : volumeOf[g].minor # m
      /\ NextGen \in Gens
      /\ slot' = [slot EXCEPT ![m] = [active |-> TRUE, disk |-> NextGen]]
      /\ disks' = disks \cup {NextGen}
      /\ volumeOf' = Append(volumeOf, session[c].vol)
      /\ Goto(c, "add")
      /\ UNCHANGED <<maps, dying, reqs, mounted>>

\* SSU_IOC_MAP_ADD, under logdev_lock: does the device exist?
AddCheck(c) ==
  /\ session[c].at = "add"
  /\ session[c].i <= Len(session[c].maps)
  /\ IF slot[session[c].minor].active THEN Goto(c, "insert") ELSE Undo(c)
  /\ UNCHANGED <<kernelVars, reqs, mounted>>

\* SSU_IOC_MAP_ADD, under map_lock: an entry that starts at the same sector,
\* or a full table, is refused.
AddRefused(m, e) == SlotsAt(m, e.start) # {} \/ UsedSlots = 1 .. MaxMaps

AddInsert(c) ==
  LET m == session[c].minor
      e == session[c].maps[session[c].i]
  IN  /\ session[c].at = "insert"
      /\ IF AddRefused(m, e)
           THEN Undo(c) /\ UNCHANGED maps
           ELSE /\ maps' = [maps EXCEPT
                     ![First((1 .. MaxMaps) \ UsedSlots)] = Entry(m, e)]
                /\ session' = [session EXCEPT ![c].at = "add", ![c].i = @ + 1]
      /\ UNCHANGED <<slot, disks, dying, volumeOf, reqs, mounted>>

\* Every entry is in: the plugin records the mount.
MountDone(c) ==
  /\ session[c].at = "add"
  /\ session[c].i > Len(session[c].maps)
  /\ mounted' = [mounted EXCEPT ![c] = @ \cup {session[c].vol}]
  /\ End(c)
  /\ UNCHANGED <<kernelVars, reqs>>

-----------------------------------------------------------------------------
(* Unmount *)

\* ssu_reqshim_unmount_logdev_for_allocate, of a mount the plugin knows.
StartUnmount(c, v) ==
  /\ v \in mounted[c]
  /\ Begin(c, "unmount", v.minor, v, v.maps)
  /\ UNCHANGED <<kernelVars, reqs, mounted>>

\* ssu_reqshim_unmount_logdev, of a path the plugin does not know: only the
\* minor is left to go by.  The code does not ask whether somebody has the
\* minor mounted: that operators clean up only what a manager that is gone
\* left behind is an assumption of this model.  NodeStack!CleanUp is without.
StartCleanup(c, m) ==
  /\ \A d \in Clients : \A v \in mounted[d] : v.minor # m
  /\ Begin(c, "cleanup", m, "unknown", <<>>)
  /\ UNCHANGED <<kernelVars, reqs, mounted>>

\* Mutant of MapsWithout: takes an entry of any device that starts there.
MapsWithoutAny(m, start) ==
  LET hit == {i \in UsedSlots : maps[i].start = start}
  IN  [i \in 1 .. MaxMaps |->
         IF hit # {} /\ i = First(hit) THEN NoEntry ELSE maps[i]]

\* The entries a map_del of start leaves.
MapsWithout(m, start) ==
  [i \in 1 .. MaxMaps |->
     IF SlotsAt(m, start) # {} /\ i = First(SlotsAt(m, start))
       THEN NoEntry ELSE maps[i]]

\* SSU_IOC_MAP_DEL of the next entry; its result is ignored.
MapDel(c) ==
  LET s == session[c]
  IN  /\ s.at = "del"
      /\ s.i <= Len(s.maps)
      /\ maps' = MapsWithout(s.minor, s.maps[s.i].start)
      /\ session' = [session EXCEPT ![c].i = @ + 1]
      /\ UNCHANGED <<slot, disks, dying, volumeOf, reqs, mounted>>

\* SSU_IOC_LOGDEV_DESTROY on a minor that is not active: an unmount keeps
\* its record and reports the error.
DestroyMissing(c) ==
  LET s == session[c]
  IN  /\ s.at = "del"
      /\ s.i > Len(s.maps)
      /\ ~slot[s.minor].active
      /\ End(c)
      /\ UNCHANGED <<kernelVars, reqs, mounted>>

\* Mutant: the pointer is cleared before it is read.
DiskForgotten(m) == 0

\* The gendisk destroy takes out of a slot.
DiskTaken(m) == slot[m].disk

\* SSU_IOC_LOGDEV_DESTROY, under logdev_lock: the slot is taken down.
DestroyBegin(c) ==
  LET s == session[c]
  IN  /\ s.at = "del"
      /\ s.i > Len(s.maps)
      /\ slot[s.minor].active
      /\ slot' = [slot EXCEPT ![s.minor] = NoSlot]
      /\ session' = [session EXCEPT ![c].at = "quiesce",
                                    ![c].disk = DiskTaken(s.minor)]
      /\ UNCHANGED <<maps, disks, dying, volumeOf, reqs, mounted>>

\* del_gendisk refuses new requests ...
Quiesce(c) ==
  /\ session[c].at = "quiesce"
  /\ dying' = dying \cup {session[c].disk}
  /\ Goto(c, "drain")
  /\ UNCHANGED <<slot, maps, disks, volumeOf, reqs, mounted>>

\* Mutant: only requests no worker has picked up count.
DrainedOfQueued(g) ==
  \A r \in Reqs : reqs[r].st = "queued" => reqs[r].disk # g

\* No request of gendisk g is outstanding.
Drained(g) == \A r \in Reqs : reqs[r].st # "free" => reqs[r].disk # g

\* ... and returns when those it has are done.
Drain(c) ==
  /\ session[c].at = "drain"
  /\ Drained(session[c].disk)
  /\ disks' = disks \ {session[c].disk}
  /\ Goto(c, "reset")
  /\ UNCHANGED <<slot, maps, dying, volumeOf, reqs, mounted>>

\* blk_mq_free_tag_set and memset of the slot, under no lock.
Reset(c) ==
  /\ session[c].at = "reset"
  /\ slot' = [slot EXCEPT ![session[c].minor] = NoSlot]
  /\ Goto(c, "clear")
  /\ UNCHANGED <<maps, disks, dying, volumeOf, reqs, mounted>>

\* Mutant: destroy leaves the entries to map_del.
MapsLeft(m) == maps

\* ssu_reqshim_map_clear_minor.
MapsCleared(m) ==
  [i \in 1 .. MaxMaps |-> IF i \in SlotsOf(m) THEN NoEntry ELSE maps[i]]

\* The ioctl succeeds, and with it the unmount.
Clear(c) ==
  /\ session[c].at = "clear"
  /\ maps' = MapsCleared(session[c].minor)
  /\ mounted' = [mounted EXCEPT ![c] =
       IF session[c].op = "unmount" THEN @ \ {session[c].vol} ELSE @]
  /\ End(c)
  /\ UNCHANGED <<slot, disks, dying, volumeOf, reqs>>

\* The process is killed between two ioctls; an ioctl runs to its end.
BetweenIoctls(c) == session[c].at \in {"idle", "create", "add", "del"}

Crash(c) ==
  /\ BetweenIoctls(c)
  /\ Inside(c) \/ mounted[c] # {}
  /\ End(c)
  /\ mounted' = [mounted EXCEPT ![c] = {}]
  /\ UNCHANGED <<kernelVars, reqs>>

-----------------------------------------------------------------------------
(* Block I/O *)

\* Mutant: the queue keeps taking requests while it is drained.
AcceptsDying(g) == g \in disks

\* A gendisk the block layer takes requests for.
Accepts(g) == g \in disks \ dying

\* queue_rq: a request for a range of a gendisk is handed to a worker.
Submit(r, g, pos, len) ==
  /\ reqs[r] = NoReq
  /\ Accepts(g)
  /\ pos + len <= volumeOf[g].cap
  /\ reqs' = [reqs EXCEPT ![r] =
       [st |-> "queued", disk |-> g, pos |-> pos, left |-> len, chunk |-> 0,
        place |-> Nowhere]]
  /\ UNCHANGED <<kernelVars, session, mounted>>

Finish(r) == reqs' = [reqs EXCEPT ![r] = NoReq]

\* Mutant: a rejected request is dropped, not ended.
WorkStartDrops(r) ==
  /\ reqs[r].st = "queued"
  /\ slot[volumeOf[reqs[r].disk].minor].active
  /\ reqs' = [reqs EXCEPT ![r].st = "translate"]
  /\ UNCHANGED <<kernelVars, session, mounted>>

\* The worker looks at the slot, under no lock.
WorkStart(r) ==
  /\ reqs[r].st = "queued"
  /\ IF slot[volumeOf[reqs[r].disk].minor].active
       THEN reqs' = [reqs EXCEPT ![r].st = "translate"]
       ELSE Finish(r)
  /\ UNCHANGED <<kernelVars, session, mounted>>

\* Mutant: a chunk runs on past its entry.
ChunkLenOfRequest(q, m) == q.left

\* The sectors of a chunk: as many as are left in the entry that was hit.
ChunkLen(q, m) ==
  LET e == maps[First(SlotsHit(m, q.pos))]
      room == e.start + e.len - q.pos
  IN  IF q.left < room THEN q.left ELSE room

\* The worker translates the next sector and submits a chunk to the device,
\* or fails the request if nothing maps it.
WorkTranslate(r) ==
  LET q == reqs[r]
      m == volumeOf[q.disk].minor
  IN  /\ q.st = "translate"
      /\ IF Mapped(m, q.pos)
           THEN reqs' = [reqs EXCEPT ![r].st = "device",
                                     ![r].place = Translate(m, q.pos),
                                     ![r].chunk = ChunkLen(q, m)]
           ELSE Finish(r)
      /\ UNCHANGED <<kernelVars, session, mounted>>

\* Mutant: the count of bytes done is not advanced.
RestUncounted(q) == [q EXCEPT !.st = "translate", !.pos = q.pos + q.chunk]

\* What is left of a request when the device has done a chunk of it.
Rest(q) == [q EXCEPT !.st = "translate", !.pos = q.pos + q.chunk,
                     !.left = q.left - q.chunk]

\* The device completes the chunk, or fails it.
DeviceDone(r) ==
  /\ reqs[r].st = "device"
  /\ IF reqs[r].left > reqs[r].chunk
       THEN reqs' = [reqs EXCEPT ![r] = Rest(@)]
       ELSE Finish(r)
  /\ UNCHANGED <<kernelVars, session, mounted>>

DeviceFails(r) ==
  /\ reqs[r].st = "device"
  /\ Finish(r)
  /\ UNCHANGED <<kernelVars, session, mounted>>

-----------------------------------------------------------------------------
(* A step the client of a session takes in it. *)
SessionStep(c) ==
  \/ CreateBusy(c) \/ CreateFails(c) \/ Create(c)
  \/ AddCheck(c) \/ AddInsert(c) \/ MountDone(c)
  \/ MapDel(c) \/ DestroyMissing(c) \/ DestroyBegin(c)
  \/ Quiesce(c) \/ Drain(c) \/ Reset(c) \/ Clear(c)

\* A step of the worker of a request, or of its device.
WorkStep(r) ==
  WorkStart(r) \/ WorkTranslate(r) \/ DeviceDone(r) \/ DeviceFails(r)

Next ==
  \/ \E c \in Clients, v \in Volumes : StartMount(c, v)
  \/ \E c \in Clients : \E v \in mounted[c] : StartUnmount(c, v)
  \/ \E c \in Clients, m \in Minors : StartCleanup(c, m)
  \/ \E c \in Clients : SessionStep(c)
  \/ \E c \in Clients : Crash(c)
  \/ \E r \in Reqs, g \in disks : \E pos \in 0 .. volumeOf[g].cap - 1 :
       \E len \in 1 .. volumeOf[g].cap - pos : Submit(r, g, pos, len)
  \/ \E r \in Reqs : WorkStep(r)

Spec == Init /\ [][Next]_vars

\* An ioctl in progress goes on, the workqueue runs its work and devices
\* answer.  Nobody has to begin a session, submit a request or crash.
FairSpec ==
  /\ Spec
  /\ \A c \in Clients : WF_vars(SessionStep(c))
  /\ \A r \in Reqs : WF_vars(WorkStep(r))

-----------------------------------------------------------------------------
(* Properties *)

Steps == {"create", "add", "insert", "del", "quiesce", "drain", "reset",
          "clear"}

\* The type invariant: the tables, gendisks, sessions and requests have the
\* shape the kernel structures and the loops of reqshim_iface.cpp give them.
TypeOK ==
  /\ slot \in [Minors -> [active : BOOLEAN, disk : Gens \cup {0}]]
  /\ \A i \in 1 .. MaxMaps :
       \/ maps[i] = NoEntry
       \/ \E v \in Volumes : \E k \in DOMAIN v.maps :
            maps[i] = Entry(v.minor, v.maps[k])
  /\ disks \subseteq DOMAIN volumeOf /\ dying \subseteq DOMAIN volumeOf
  /\ Len(volumeOf) <= MaxDisks /\ Range(volumeOf) \subseteq Volumes
  /\ \A c \in Clients :
       /\ mounted[c] \subseteq Volumes
       /\ Inside(c) => /\ session[c].at \in Steps
                       /\ session[c].i \in 1 .. Len(session[c].maps) + 1
                       /\ session[c].at = "insert" =>
                            session[c].i <= Len(session[c].maps)
  /\ \A r \in Reqs : reqs[r] # NoReq =>
       /\ reqs[r].st \in {"queued", "translate", "device"}
       /\ reqs[r].disk \in DOMAIN volumeOf
       /\ reqs[r].left > 0
       /\ reqs[r].pos + reqs[r].left <= volumeOf[reqs[r].disk].cap

\* A destroy of minor m has begun and not finished.
Destroying(m) ==
  \E c \in Clients : /\ session[c].at \in {"quiesce", "drain", "reset", "clear"}
                     /\ session[c].minor = m

\* The map table holds entries only of devices that exist, or that a destroy
\* is about to clear: whatever a failed mount, a killed process or a cleanup
\* by minor leaves, the next device with that minor starts with no entries
\* (ssu_reqshim_map_clear_minor and the undo of mount_logdev_with_minor).
NoOrphanMaps ==
  \A i \in UsedSlots : slot[maps[i].minor].active \/ Destroying(maps[i].minor)

\* A volume some client has mounted, and is not unmounting, is the one its
\* minor serves, and every sector of it translates to where its extents put
\* it (map_add, map_del and translate_sector agree on what an entry covers).
MountedMapsExact ==
  \A c \in Clients : \A v \in mounted[c] :
    \/ Inside(c) /\ session[c].op = "unmount" /\ session[c].vol = v
    \/ /\ slot[v.minor].active
       /\ volumeOf[slot[v.minor].disk] = v
       /\ \A sector \in 0 .. v.cap - 1 :
            Mapped(v.minor, sector) /\ Translate(v.minor, sector) \in Home(v, sector)

\* A chunk a worker submitted to a device lies, to its last sector, in the
\* extents of the volume the request was made to, even when the device was
\* unmounted, or its minor given to another volume, since the request began.
OwnExtentsOnly ==
  \A r \in Reqs : reqs[r].st = "device" =>
    \A k \in 0 .. reqs[r].chunk - 1 :
      [reqs[r].place EXCEPT !.phys = @ + k]
        \in Home(volumeOf[reqs[r].disk], reqs[r].pos + k)

\* A worker never outlives its gendisk: it dereferences the slot that destroy
\* zeroes once del_gendisk has returned.
QuietWhenGone ==
  \A r \in Reqs : reqs[r] # NoReq => reqs[r].disk \in disks

\* Every registered gendisk is the one of its slot or of a destroy that is
\* going on: none stays that no ioctl can reach any more.
DisksOwned ==
  \A g \in disks :
    \/ slot[volumeOf[g].minor] = [active |-> TRUE, disk |-> g]
    \/ \E c \in Clients : Inside(c) /\ session[c].disk = g

\* Where request r goes on is mapped.
NextSectorMapped(r) == Mapped(volumeOf[reqs[r].disk].minor, reqs[r].pos)

\* Adding and deleting map entries does not affect I/O under way
\* (implementation-design.md:987): no step takes the entry of a request's
\* next sector away from it.
IoUndisturbed ==
  [][\A r \in Reqs :
       reqs[r] # NoReq /\ reqs'[r] = reqs[r] /\ NextSectorMapped(r)
         => NextSectorMapped(r)']_vars

\* Every request is answered: workers reach blk_mq_end_request whatever
\* happens to the device and its entries meanwhile.
RequestsFinish == \A r \in Reqs : reqs[r] # NoReq ~> reqs[r] = NoReq

\* Every mount and unmount returns, though del_gendisk waits for requests and
\* other processes keep submitting them.
SessionsFinish == \A c \in Clients : Inside(c) ~> ~Inside(c)
==============================================================================
