---------------------------- MODULE SsuController ----------------------------
(***************************************************************************)
(* The SSU resource controller (ssu_controller.cpp): the capacity pool,    *)
(* the allocation rows (one per extent of a logical disk), the logical     *)
(* device rows, the table of released ids and the allocation counter,      *)
(* driven by one thread through the operations refresh, alloc, release,    *)
(* mount and unmount.  The vendor plugin is the environment: each call to  *)
(* it may fail, and the namespaces it holds are part of the state.  A call *)
(* that fails leaves them as they are; what else a failing delete_ns does  *)
(* at the LBC plugin is in NodeStack.                                      *)
(*                                                                         *)
(* Rows of one allocation sit in increasing table slots in the order of    *)
(* their role index, so an allocation is a function from role indexes to   *)
(* extents, and "in slot order" is "in role order".  Operations that       *)
(* return an error before changing anything are stuttering steps.          *)
(***************************************************************************)
EXTENDS Sums, FiniteSets

CONSTANTS
  Ssus,           \* indexes of the SSUs a plugin can ever report
  Totals,         \* capacities discover may report for an SSU
  Sector,         \* bytes of a sector (512 in the code)
  Sizes,          \* sizes a caller asks for
  Names,          \* disk names a caller may give
  NoName,         \* the empty disk name
  Owners,         \* tenant and host list of a request
  Devs,           \* logical device paths
  NsIds,          \* namespace ids one SSU can hold at a time
  MaxRows,        \* SSU_CONTROLLER_MAX_ALLOCATIONS: extent rows
  MaxLogdevRows,  \* SSU_CONTROLLER_MAX_LOGDEVS: logical device rows
  MaxReleased,    \* SSU_CONTROLLER_MAX_RELEASED: remembered released ids
  MaxAllocId,     \* bound of the model: ids 0 .. MaxAllocId - 1 are issued
  DeleteMayFail,  \* delete_ns can fail (LBC target) or not (mock)
  SharedDevice    \* namespaces are ranges of one device (mock), placed at
                  \* the hint, or devices of their own, placed at 0 (LBC)

ASSUME SsusAssumption == Ssus \subseteq Nat /\ IsFiniteSet(Ssus)
ASSUME TotalsAssumption == Totals \subseteq Nat
ASSUME SectorAssumption == Sector \in Nat \ {0}
ASSUME SizesAssumption == Sizes \subseteq Nat \ {0}
ASSUME NameAssumption == NoName \notin Names
ASSUME BoundAssumption == MaxAllocId \in Nat
ASSUME FlagAssumption == DeleteMayFail \in BOOLEAN /\ SharedDevice \in BOOLEAN

VARIABLES
  pos,         \* position of each SSU in pool[], 0 while not in the pool
  total,       \* pool[].total_bytes
  used,        \* pool[].used_bytes
  online,      \* SSUs whose pool[].state is ONLINE
  allocs,      \* active allocation id -> its rows
  logdevs,     \* active logical device -> its rows
  released,    \* released_ids
  nextId,      \* next_allocation_id
  namespaces,  \* namespaces alive at the plugin
  retired      \* history: every id ever released

poolVars == <<pos, total, used, online>>
vars == <<pos, total, used, online, allocs, logdevs, released, nextId,
          namespaces, retired>>

-----------------------------------------------------------------------------
(* Data *)

Request == [name: Names \cup {NoName}, size: Sizes,
            disks: 0 .. Cardinality(Ssus), share: {"EXCLUSIVE", "SHARED"},
            owner: Owners]

Extent == [ssu: Ssus, ns: NsIds, off: Nat, len: Nat, sector: Nat]

Namespace == [ssu: Ssus, ns: NsIds, id: Nat]

\* The rows of one allocation: a function from role indexes to extents.
IsExtentTable(ext) ==
  /\ DOMAIN ext \subseteq Nat
  /\ \A r \in DOMAIN ext : ext[r] \in Extent

Active == DOMAIN allocs
Attached == DOMAIN logdevs
Known == {s \in Ssus : pos[s] > 0}

HasLogdev(id) == \E d \in Attached : logdevs[d].id = id
NameActive(n) == n # NoName /\ \E id \in Active : allocs[id].req.name = n

RowsInUse == UNION {{<<id, r>> : r \in DOMAIN allocs[id].ext} : id \in Active}
LogdevRowsInUse ==
  UNION {{<<d, r>> : r \in DOMAIN logdevs[d].maps} : d \in Attached}

-----------------------------------------------------------------------------
(* Placement *)

\* One extent per online SSU unless the caller gives a count, never more
\* extents than bytes.
ExtentCount(req) ==
  LET wanted == IF req.disks > 0 THEN req.disks ELSE Cardinality(online)
  IN  IF wanted > req.size THEN req.size ELSE wanted

\* Mutant of ExtentLen: one extent too many gets the extra byte.
ExtentLenOneMore(size, n, i) ==
  (size \div n) + (IF i <= size % n THEN 1 ELSE 0)

\* Sizes differ by at most one byte: the first size % n extents get one more.
ExtentLen(size, n, i) == (size \div n) + (IF i < size % n THEN 1 ELSE 0)
ExtentOff(size, n, i) ==
  i * (size \div n) + (IF i < size % n THEN i ELSE size % n)

\* Mutant of HasCapacity: compares with the whole capacity.
HasCapacityOfTotal(s, len) ==
  used[s] <= total[s] /\ used[s] % Sector = 0 /\ len <= total[s]

HasCapacity(s, len) ==
  /\ used[s] <= total[s]
  /\ used[s] % Sector = 0
  /\ len <= total[s] - used[s]

\* Mutant of FirstFit: SSUs that earlier extents took stay eligible.
FirstFitRepeats(sel, size, n) ==
  \A i \in 0 .. n - 1 :
    LET fit == {s \in online : HasCapacity(s, ExtentLen(size, n, i))}
    IN  sel[i] \in fit /\ \A s \in fit : pos[sel[i]] <= pos[s]

\* Mutant of FirstFit: gives up when the first SSU has no room.
FirstFitNoSkip(sel, size, n) ==
  \A i \in 0 .. n - 1 :
    LET free == online \ {sel[j] : j \in 0 .. i - 1}
    IN  /\ sel[i] \in free
        /\ HasCapacity(sel[i], ExtentLen(size, n, i))
        /\ \A s \in free : pos[sel[i]] <= pos[s]

\* sel gives extent i the first online SSU of the pool, in pool order, that
\* no earlier extent took and that has room for it.
FirstFit(sel, size, n) ==
  \A i \in 0 .. n - 1 :
    LET len  == ExtentLen(size, n, i)
        free == online \ {sel[j] : j \in 0 .. i - 1}
    IN  /\ sel[i] \in free
        /\ HasCapacity(sel[i], len)
        /\ \A s \in free : HasCapacity(s, len) => pos[sel[i]] <= pos[s]

\* Bytes the rows of ext occupy on SSU s (its rows are on distinct SSUs).
LenOn(ext, s) ==
  IF \E r \in DOMAIN ext : ext[r].ssu = s
    THEN ext[CHOOSE r \in DOMAIN ext : ext[r].ssu = s].len
    ELSE 0

\* The lengths of the rows of ext, whose roles are below the number of SSUs.
SumLens(ext) ==
  LET roles == Cardinality(Ssus)
  IN  SumOf([r \in 0 .. roles - 1 |->
               IF r \in DOMAIN ext THEN ext[r].len ELSE 0], roles)

Charged(ext) == [s \in Ssus |-> used[s] + LenOn(ext, s)]

\* Mutant of Refunded: an SSU is never given back its last bytes.
RefundedButLast(ext) ==
  [s \in Ssus |-> IF used[s] > LenOn(ext, s) THEN used[s] - LenOn(ext, s)
                                             ELSE used[s]]

Refunded(ext) ==
  [s \in Ssus |-> IF used[s] >= LenOn(ext, s) THEN used[s] - LenOn(ext, s)
                                              ELSE used[s]]

-----------------------------------------------------------------------------
(* The plugin *)

FreeNs(s) == NsIds \ {m.ns : m \in {n \in namespaces : n.ssu = s}}

\* The namespace id the target assigns: one the SSU does not use, if any is
\* left.
NewNs(s) == CHOOSE n \in NsIds : n \in FreeNs(s) \/ FreeNs(s) = {}

\* create_ns can succeed: an id is left on the SSU, and no namespace of the
\* same allocation is there already.
CanCreate(s, id) ==
  /\ FreeNs(s) # {}
  /\ ~\E m \in namespaces : m.ssu = s /\ m.id = id

\* Mutant of PhysSector: one sector early.
PhysSectorEarly(s) == IF SharedDevice THEN (used[s] \div Sector) - 1 ELSE 0

\* phys_sector as create_ns returns it.
PhysSector(s) == IF SharedDevice THEN used[s] \div Sector ELSE 0

NamespacesOf(id, ext) ==
  {[ssu |-> ext[r].ssu, ns |-> ext[r].ns, id |-> id] : r \in DOMAIN ext}

-----------------------------------------------------------------------------
(* Operations *)

Init ==
  /\ pos = [s \in Ssus |-> 0]
  /\ total = [s \in Ssus |-> 0]
  /\ used = [s \in Ssus |-> 0]
  /\ online = {}
  /\ allocs = [id \in {} |-> 0]
  /\ logdevs = [d \in {} |-> 0]
  /\ released = {}
  /\ nextId = 0
  /\ namespaces = {}
  /\ retired = {}

\* refresh_pool: discover reports the SSUs of seen, in index order and with
\* their capacities; SSUs it no longer reports keep their row behind them;
\* every row gets the state health_check finds.
RefreshPool(seen, cap, healthy) ==
  /\ pos' = [s \in Ssus |->
       IF s \in seen THEN Cardinality({t \in seen : t <= s})
       ELSE IF s \in Known
         THEN Cardinality(seen) +
              Cardinality({t \in Known \ seen : pos[t] <= pos[s]})
       ELSE 0]
  /\ total' = [s \in Ssus |-> IF s \in seen THEN cap[s] ELSE total[s]]
  /\ online' = (seen \cup Known) \cap healthy
  /\ UNCHANGED <<used, allocs, logdevs, released, nextId, namespaces, retired>>

\* next_auto_allocate_id: the counter, advanced past active and released ids.
NextAutoId ==
  CHOOSE n \in nextId .. MaxAllocId :
    /\ n \notin Active \cup released
    /\ \A m \in nextId .. n - 1 : m \in Active \cup released

\* Mutant of IdAfter: the counter is left where it was.
IdAfterKept(id) == id

\* The counter once an id is issued.
IdAfter(id) == id + 1

\* Mutant of CanAlloc: does not look the name up.
CanAllocUnnamed(req) ==
  /\ online # {}
  /\ req.disks <= Cardinality(online)
  /\ MaxRows - Cardinality(RowsInUse) >= ExtentCount(req)

\* What alloc tests before it touches the plugin.
CanAlloc(req) ==
  /\ ~NameActive(req.name)
  /\ online # {}
  /\ req.disks <= Cardinality(online)
  /\ MaxRows - Cardinality(RowsInUse) >= ExtentCount(req)

\* The rows of a request placed by sel.
NewRows(req, sel) ==
  LET n == ExtentCount(req)
  IN  [i \in 0 .. n - 1 |->
         [ssu    |-> sel[i],
          ns     |-> NewNs(sel[i]),
          off    |-> ExtentOff(req.size, n, i),
          len    |-> ExtentLen(req.size, n, i),
          sector |-> PhysSector(sel[i])]]

\* Mutant of FirstRows: includes the row that failed.
FirstRowsAndFailed(ext, k) == [r \in {i \in DOMAIN ext : i <= k} |-> ext[r]]

FirstRows(ext, k) == [r \in {i \in DOMAIN ext : i < k} |-> ext[r]]

\* alloc, every create_ns succeeding.
AllocSucceeds(req, id, rows) ==
  /\ \A r \in DOMAIN rows : CanCreate(rows[r].ssu, id)
  /\ allocs' = [x \in Active \cup {id} |->
                  IF x = id
                    THEN [req |-> req, state |-> "ACTIVE", ext |-> rows]
                    ELSE allocs[x]]
  /\ used' = Charged(rows)
  /\ namespaces' = namespaces \cup NamespacesOf(id, rows)
  /\ nextId' = IdAfter(id)
  /\ UNCHANGED <<pos, total, online, logdevs, released, retired>>

\* alloc, create_ns failing for the extent of role k: the rows made before
\* are taken back in reverse order, whatever delete_ns returns.
AllocRollsBack(id, rows, k) ==
  LET made == NamespacesOf(id, FirstRows(rows, k))
  IN  /\ \A r \in DOMAIN rows : r < k => CanCreate(rows[r].ssu, id)
      /\ \E undeleted \in SUBSET made :
           /\ undeleted # {} => DeleteMayFail
           /\ namespaces' = namespaces \cup undeleted
      /\ nextId' = id
      /\ UNCHANGED <<poolVars, allocs, logdevs, released, retired>>

Alloc(req) ==
  /\ nextId < MaxAllocId
  /\ CanAlloc(req)
  /\ \E sel \in [0 .. ExtentCount(req) - 1 -> Ssus] :
       /\ FirstFit(sel, req.size, ExtentCount(req))
       /\ \/ AllocSucceeds(req, NextAutoId, NewRows(req, sel))
          \/ \E k \in DOMAIN sel :
               AllocRollsBack(NextAutoId, NewRows(req, sel), k)

\* Rows from role k on.
RowsFrom(ext, k) == [r \in {i \in DOMAIN ext : i >= k} |-> ext[r]]

Remembered(id) ==
  IF Cardinality(released) < MaxReleased THEN released \cup {id} ELSE released

\* Mutant of CanRelease: does not look for logical devices.
CanReleaseMounted(id) == id \in Active

\* What release tests before it touches the plugin.
CanRelease(id) == id \in Active /\ ~HasLogdev(id)

\* release, every delete_ns succeeding.
ReleaseAll(id) ==
  /\ CanRelease(id)
  /\ namespaces' = namespaces \ NamespacesOf(id, allocs[id].ext)
  /\ used' = Refunded(allocs[id].ext)
  /\ allocs' = [x \in Active \ {id} |-> allocs[x]]
  /\ released' = Remembered(id)
  /\ retired' = retired \cup {id}
  /\ UNCHANGED <<pos, total, online, logdevs, nextId>>

\* release, delete_ns failing for the row of role k: the rows before it are
\* already gone, the others stay as they are.
ReleaseStopsAt(id, k) ==
  /\ DeleteMayFail
  /\ CanRelease(id)
  /\ namespaces' =
       namespaces \ NamespacesOf(id, FirstRows(allocs[id].ext, k))
  /\ used' = Refunded(FirstRows(allocs[id].ext, k))
  /\ allocs' = [allocs EXCEPT ![id].ext = RowsFrom(@, k)]
  /\ UNCHANGED <<pos, total, online, logdevs, released, nextId, retired>>

\* What mount tests before it touches the plugin.
CanMount(id, d) ==
  /\ id \in Active
  /\ d \notin Attached
  /\ allocs[id].req.share # "SHARED" => ~HasLogdev(id)
  /\ MaxLogdevRows - Cardinality(LogdevRowsInUse)
       >= Cardinality(DOMAIN allocs[id].ext)

\* mount, every connect and the plugin's mount succeeding.
Mount(id, d) ==
  /\ CanMount(id, d)
  /\ logdevs' = [x \in Attached \cup {d} |->
                   IF x = d THEN [id |-> id, maps |-> allocs[id].ext]
                            ELSE logdevs[x]]
  /\ allocs' = [allocs EXCEPT ![id].state = "MOUNTED"]
  /\ UNCHANGED <<poolVars, released, nextId, namespaces, retired>>

\* Mutant of StateWithout: forgets the other devices of a shared disk.
StateWithoutAny(id, d) == "ACTIVE"

StateWithout(id, d) ==
  IF \E x \in Attached \ {d} : logdevs[x].id = id THEN "MOUNTED" ELSE "ACTIVE"

\* unmount of a device the controller knows, the plugin's unmount
\* succeeding.  A device it does not know is left to the plugin.
Unmount(d) ==
  /\ d \in Attached
  /\ logdevs' = [x \in Attached \ {d} |-> logdevs[x]]
  /\ LET id == logdevs[d].id
     IN  allocs' = IF id \in Active
                     THEN [allocs EXCEPT ![id].state = StateWithout(id, d)]
                     ELSE allocs
  /\ UNCHANGED <<poolVars, released, nextId, namespaces, retired>>

Next ==
  \/ \E seen \in SUBSET Ssus :
       \E healthy \in SUBSET (seen \cup Known), cap \in [seen -> Totals] :
         RefreshPool(seen, cap, healthy)
  \/ \E req \in Request : Alloc(req)
  \/ \E id \in Active : ReleaseAll(id)
  \/ \E id \in Active : \E k \in DOMAIN allocs[id].ext : ReleaseStopsAt(id, k)
  \/ \E id \in Active, d \in Devs : Mount(id, d)
  \/ \E d \in Attached : Unmount(d)

Spec == Init /\ [][Next]_vars

-----------------------------------------------------------------------------
(* Answers the caller gets *)

\* Mutant of MatchesExisting: a count left to the controller never matches.
MatchesExistingCount(req, id) ==
  /\ req.size = SumLens(allocs[id].ext)
  /\ req.disks = Cardinality(DOMAIN allocs[id].ext)
  /\ req.share = allocs[id].req.share
  /\ req.owner = allocs[id].req.owner

\* copy_existing_allocation: a request that names a live disk is answered
\* with that disk's id when this holds, else with SSU_ERR_NS_EXISTS.
MatchesExisting(req, id) ==
  /\ req.size = SumLens(allocs[id].ext)
  /\ req.disks \in {0, Cardinality(DOMAIN allocs[id].ext)}
  /\ req.share = allocs[id].req.share
  /\ req.owner = allocs[id].req.owner

-----------------------------------------------------------------------------
(* Properties *)

\* Every variable has its type.
TypeOK ==
  /\ pos \in [Ssus -> Nat]
  /\ total \in [Ssus -> Nat]
  /\ used \in [Ssus -> Nat]
  /\ online \subseteq Ssus
  /\ Active \subseteq Nat
  /\ \A id \in Active :
       /\ allocs[id] \in [req: Request, state: {"ACTIVE", "MOUNTED"},
                          ext: {allocs[id].ext}]
       /\ IsExtentTable(allocs[id].ext)
  /\ Attached \subseteq Devs
  /\ \A d \in Attached : logdevs[d].id \in Nat
  /\ released \subseteq Nat
  /\ nextId \in Nat
  /\ namespaces \subseteq Namespace
  /\ retired \subseteq Nat

\* An id that was released is never issued again, not even once the table of
\* released ids is full and release no longer records them.
RetiredNeverActive == Active \cap retired = {}

\* Every id in a table was issued by the counter, and only released ids are
\* remembered as released: the counter alone keeps ids unique.
IdsIssued ==
  /\ Active \cup retired \subseteq 0 .. nextId - 1
  /\ released \subseteq retired

\* The mapping a logical device was mounted with is the current extent table
\* of a live allocation: nothing is released under a mounted device.
MappingIsCurrent ==
  \A d \in Attached :
    /\ logdevs[d].id \in Active
    /\ logdevs[d].maps = allocs[logdevs[d].id].ext

\* The state an allocation reports tells whether it is mounted anywhere,
\* through any order of mounts and unmounts of a shared disk.
MountedIffAttached ==
  \A id \in Active : allocs[id].state = "MOUNTED" <=> HasLogdev(id)

\* A disk that is not shared has at most one logical device.
ExclusiveOnce ==
  \A d, e \in Attached :
    logdevs[d].id = logdevs[e].id /\ d # e =>
      allocs[logdevs[d].id].req.share = "SHARED"

\* Every extent row has its namespace alive at the plugin, created for its
\* allocation, and no two rows share one, through rollbacks and releases
\* that stopped half way.
RowsBacked ==
  /\ \A id \in Active : NamespacesOf(id, allocs[id].ext) \subseteq namespaces
  /\ \A m, n \in namespaces : m.ssu = n.ssu /\ m.ns = n.ns => m = n

\* The extents of one disk are on distinct SSUs.
RowsSpread ==
  \A id \in Active : \A q, r \in DOMAIN allocs[id].ext :
    allocs[id].ext[q].ssu = allocs[id].ext[r].ssu => q = r

\* Two live disks never carry the same name.
NamesUnique ==
  \A a, b \in Active :
    /\ allocs[a].req.name # NoName
    /\ allocs[a].req.name = allocs[b].req.name
    => a = b

\* The bytes accounted as used on an SSU are the bytes of the rows on it.
UsedIsSumOfRows ==
  \A s \in Ssus :
    used[s] = SumOf([id \in 0 .. nextId - 1 |->
                       IF id \in Active THEN LenOn(allocs[id].ext, s) ELSE 0],
                    nextId)

\* No step takes more of an SSU than it has, even after discover has
\* reported a smaller capacity than is in use.
NoOvercommit ==
  [][\A s \in Ssus : used'[s] > used[s] => used'[s] <= total'[s]]_vars

\* The rows of a disk cover its logical space without gap or overlap: from 0
\* while they are all there, and up to its size always.
RowsTile ==
  \A id \in Active :
    LET ext == allocs[id].ext
    IN  /\ 0 \in DOMAIN ext => ext[0].off = 0
        /\ \A r \in DOMAIN ext :
             LET end == ext[r].off + ext[r].len
             IN  IF r + 1 \in DOMAIN ext THEN ext[r + 1].off = end
                                         ELSE end = allocs[id].req.size

\* The placement loop refuses a size and extent count only when no choice of
\* distinct online SSUs has room for them.
PlacementComplete ==
  \A size \in Sizes : \A n \in 1 .. Cardinality(online) :
    (\E sel \in [0 .. n - 1 -> online] :
       /\ \A i, j \in DOMAIN sel : sel[i] = sel[j] => i = j
       /\ \A i \in DOMAIN sel : HasCapacity(sel[i], ExtentLen(size, n, i)))
    => \E sel \in [0 .. n - 1 -> Ssus] : FirstFit(sel, size, n)

\* Sending the request of a named disk again finds that disk, as long as no
\* release of it has begun (and it did not ask for more disks than bytes).
RetryFindsDisk ==
  \A id \in Active :
    LET req == allocs[id].req
    IN  /\ req.name # NoName
        /\ 0 \in DOMAIN allocs[id].ext
        /\ req.disks <= req.size
        => MatchesExisting(req, id)

\* Every namespace belongs to a row: rollback and release leave nothing
\* behind at the plugin.
NoResidue ==
  namespaces = UNION {NamespacesOf(id, allocs[id].ext) : id \in Active}

\* Two rows on one SSU never share a sector of it.
ExtentsDisjoint ==
  \A x, y \in RowsInUse :
    LET p == allocs[x[1]].ext[x[2]]
        q == allocs[y[1]].ext[y[2]]
    IN  x # y /\ p.ssu = q.ssu =>
          \/ p.sector * Sector + p.len <= q.sector * Sector
          \/ q.sector * Sector + q.len <= p.sector * Sector

\* The controller is a VolumeLifecycle.
Lifecycle == INSTANCE VolumeLifecycle WITH
  Volumes   <- 0 .. MaxAllocId - 1,
  live      <- [id \in Active |-> allocs[id].req.share],
  destroyed <- retired,
  attached  <- [d \in Attached |-> logdevs[d].id]

Refines == Lifecycle!Spec
==============================================================================
