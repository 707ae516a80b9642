------------------------------- MODULE ApiPaths -------------------------------
(***************************************************************************)
(* The API layer (src/src/user/api/ssu_api.cpp) over a controller that     *)
(* keeps its promise: clients name a disk by its device path, the          *)
(* controller by its request id, and the layer finds one from the other by *)
(* the controller's devices, a cache of requests, and the last component   *)
(* of the path.                                                            *)
(*                                                                         *)
(* The controller is its abstract specification VolumeLifecycle, which     *)
(* SsuController is shown to implement, with the names of the disks beside *)
(* it: every call is one step, since the manager serves one at a time.     *)
(* A path under /dev/ssu is a number: k for /dev/ssu/ssuk, and the name of *)
(* a disk, which may be such a number too, for any other.  Paths elsewhere *)
(* are left out.                                                           *)
(***************************************************************************)
EXTENDS Naturals, FiniteSets, FiniteSetsExt

CONSTANTS
  Ids,        \* N of the request ids alloc-N
  DiskNames,  \* names clients give to disks
  None,       \* no id, the empty name
  MaxSlots    \* SSU_API_MAX_REQUESTS

ASSUME ApiAssumption ==
  /\ Ids \subseteq Nat /\ DiskNames \subseteq Nat /\ None \notin Nat
  /\ MaxSlots \in Nat \ {0}

Modes == {"EXCLUSIVE", "SHARED"}
Path == Ids \cup DiskNames

NoId == None
NoName == None
NoSlot == [id |-> NoId]

VARIABLES
  live, destroyed, attached,  \* the controller: see VolumeLifecycle
  name,       \* name of each disk that exists
  slots       \* api_requests

diskVars == <<live, destroyed, attached>>
vars == <<diskVars, name, slots>>

Disks == INSTANCE VolumeLifecycle WITH Volumes <- Ids, Devs <- Path

Existing == DOMAIN live
NameTaken(n) == n # NoName /\ \E id \in Existing : name[id] = n

Init ==
  /\ Disks!Init
  /\ name = [id \in {} |-> NoName]
  /\ slots = [i \in 1 .. MaxSlots |-> NoSlot]

-----------------------------------------------------------------------------
(* The cache of requests *)

\* default_device_path_for_request
DefaultPath(id, n) == IF n = NoName THEN id ELSE n

SlotsOf(table, id) == {i \in DOMAIN table : table[i].id = id}

\* Mutant of SlotFor: a known request gets a further slot.
SlotForFresh(table, id) == SlotsOf(table, NoId)

\* Where a request is entered: its own slot, or else the free ones.
SlotFor(table, id) ==
  IF SlotsOf(table, id) # {} THEN SlotsOf(table, id) ELSE SlotsOf(table, NoId)

CanRegister(table, id) == SlotFor(table, id) # {}

\* register_request_path_with_name, the first free slot being taken.
Registered(table, id, n) ==
  IF CanRegister(table, id)
    THEN [table EXCEPT ![Min(SlotFor(table, id))] =
            [id |-> id, path |-> DefaultPath(id, n)]]
    ELSE table

\* forget_request_path
Forgotten(table, id) ==
  [i \in DOMAIN table |-> IF table[i].id = id THEN NoSlot ELSE table[i]]

-----------------------------------------------------------------------------
(* From a path to a disk: request_id_from_device_path *)

SlotsAt(path) == {i \in DOMAIN slots : slots[i].id # NoId /\ slots[i].path = path}

\* Mutant of CacheHit: takes a slot whose disk is gone.
CacheHitStale(path) == SlotsAt(path) # {}

\* The first slot at the path counts, and only if its disk exists.
CacheHit(path) == SlotsAt(path) # {} /\ slots[Min(SlotsAt(path))].id \in Existing

Named(path) == {id \in Existing : name[id] = path}

\* The devices of the controller come first, then the cache, then the number
\* and the name the path ends in.
Resolve(path) ==
  IF path \in DOMAIN attached THEN attached[path]
  ELSE IF CacheHit(path) THEN slots[Min(SlotsAt(path))].id
  ELSE IF path \in Existing THEN path
  ELSE IF Named(path) # {} THEN CHOOSE id \in Named(path) : TRUE
  ELSE NoId

\* The cache after a look-up: one by the last component enters what it found.
SlotsAfter(path) ==
  IF path \in DOMAIN attached \/ CacheHit(path) \/ Resolve(path) = NoId
    THEN slots
    ELSE Registered(slots, Resolve(path), name[Resolve(path)])

-----------------------------------------------------------------------------
(* Calls *)

\* The controller issues ids in ascending order.
Fresh(id) == id \in Ids /\ \A x \in Existing \cup destroyed : x < id

NamedAs(id, n) == name' = [x \in Existing \cup {id} |-> IF x = id THEN n ELSE name[x]]

\* Mutant of Unnamed: the name outlives the disk.
UnnamedNot(id) == name' = name

Unnamed(id) == name' = [x \in Existing \ {id} |-> name[x]]

\* ssu_api_allocate of a disk that is not there.
AllocateNew(id, n, mode) ==
  /\ Fresh(id) /\ ~NameTaken(n)
  /\ CanRegister(slots, id)
  /\ Disks!Create(id, mode)
  /\ NamedAs(id, n)
  /\ slots' = Registered(slots, id, n)

\* The same with no slot left: the disk is made and released again.
AllocateUndone(id, n) ==
  /\ Fresh(id) /\ ~NameTaken(n)
  /\ ~CanRegister(slots, id)
  /\ destroyed' = destroyed \cup {id}
  /\ UNCHANGED <<live, attached, name, slots>>

\* ssu_api_allocate of a named disk that is there; with no slot left it is
\* refused and the disk stays.
AllocateAgain(id) ==
  /\ id \in Existing /\ name[id] # NoName
  /\ slots' = Registered(slots, id, name[id])
  /\ UNCHANGED <<diskVars, name>>

\* ssu_api_allocate_result_get tells the path of the disk's slot.
ResultGet(id) ==
  /\ id \in Existing
  /\ slots' = Registered(slots, id, name[id])
  /\ UNCHANGED <<diskVars, name>>

\* ssu_api_free
Free(path) ==
  LET id == Resolve(path)
  IN  /\ id # NoId
      /\ Disks!Destroy(id) /\ Unnamed(id)
      /\ slots' = Forgotten(SlotsAfter(path), id)

\* ssu_api_mount
Mount(path) ==
  LET id == Resolve(path)
  IN  /\ id # NoId
      /\ Disks!Attach(id, path)
      /\ slots' = Registered(SlotsAfter(path), id, name[id])
      /\ UNCHANGED name

\* Either of them with a path that is found but a disk with devices, or an
\* error of the controller: only the look-up is left.
LookedUp(path) ==
  /\ Resolve(path) # NoId
  /\ slots' = SlotsAfter(path)
  /\ UNCHANGED <<diskVars, name>>

\* ssu_api_unmount and ssu_resource_unmount
Unmount(path) ==
  /\ Disks!Detach(path)
  /\ UNCHANGED <<name, slots>>

\* The resource calls of the same table leave the cache alone.
ResourceAlloc(id, n, mode) ==
  /\ Fresh(id) /\ ~NameTaken(n)
  /\ Disks!Create(id, mode) /\ NamedAs(id, n)
  /\ UNCHANGED slots

ResourceMount(id, path) ==
  /\ Disks!Attach(id, path)
  /\ UNCHANGED <<name, slots>>

ResourceRelease(id) ==
  /\ Disks!Destroy(id) /\ Unnamed(id)
  /\ UNCHANGED slots

\* ssu_api_fini, the controller keeping its tables.
Fini ==
  /\ slots' = [i \in 1 .. MaxSlots |-> NoSlot]
  /\ UNCHANGED <<diskVars, name>>

Next ==
  \/ \E id \in Ids, n \in DiskNames \cup {NoName} :
       \/ \E mode \in Modes : AllocateNew(id, n, mode) \/ ResourceAlloc(id, n, mode)
       \/ AllocateUndone(id, n)
  \/ \E id \in Existing :
       AllocateAgain(id) \/ ResultGet(id) \/ ResourceRelease(id)
  \/ \E path \in Path :
       \/ Free(path) \/ Mount(path) \/ LookedUp(path) \/ Unmount(path)
       \/ \E id \in Existing : ResourceMount(id, path)
  \/ Fini

Spec == Init /\ [][Next]_vars

-----------------------------------------------------------------------------
(* Properties *)

\* Every variable has its type.
TypeOK ==
  /\ Existing \subseteq Ids /\ live \in [Existing -> Modes]
  /\ destroyed \subseteq Ids /\ Existing \cap destroyed = {}
  /\ DOMAIN attached \subseteq Path
  /\ \A p \in DOMAIN attached : attached[p] \in Existing
  /\ name \in [Existing -> DiskNames \cup {NoName}]
  /\ DOMAIN slots = 1 .. MaxSlots
  /\ \A i \in DOMAIN slots :
       slots[i] # NoSlot => slots[i] \in [id : Ids, path : Path]

\* The path a disk is given finds that disk for as long as it exists and no
\* device has that path: with stale slots of disks that were released past
\* the cache, with a cache that is full, and with one that was reset.  And a
\* path no device has finds no disk but that of its number or name, so free
\* does not destroy another one.
PathFindsDisk ==
  /\ \A id \in Existing :
       LET path == DefaultPath(id, name[id])
       IN  path \notin DOMAIN attached => Resolve(path) = id
  /\ \A path \in Path \ DOMAIN attached :
       LET id == Resolve(path)
       IN  id # NoId => /\ id \in Existing
                        /\ path \in {id, DefaultPath(id, name[id])}

\* A request has one slot, and the slot of a disk that exists has its path,
\* so allocate_result_get never tells the path of another disk.
CacheCoherent ==
  \A i, j \in DOMAIN slots :
    /\ slots[i].id # NoId /\ slots[i].id = slots[j].id => i = j
    /\ slots[i].id \in Existing =>
         slots[i].path = DefaultPath(slots[i].id, name[slots[i].id])
==============================================================================
