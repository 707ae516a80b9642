# UBSE SSU component: specifications, model checking and proofs

This directory holds TLA+ specifications of the SSU pooling component in
`src/` (control plane in C++, a Linux block driver in C), the TLC instances
that check them and TLAPS proofs about them. The source is the reference: where
a design document and the code differ, the modules follow the code and the
difference is a *finding* (below). File paths in this document are relative to
the repository root, as in `src/user/api/ssu_api.cpp`.

    tlc -workers 2 -config ApiPaths.cfg ApiPaths        # one run
    tlapm SsuController_proofs.tla                      # the proofs of a module

`PROJECT.json` lists components, runs, mutants, the mapping from definitions to
source lines, findings, hazards and theorems.

## 1. The system

A node runs one *manager* process (`ubse_ssu_manager`). Clients link the SDK or
run `ubsectl`; both send one-line commands through a named pipe. The manager
executes them one after another through the API layer, the controller, a vendor
plugin and ioctls on the ReqShim kernel module, which presents a logical disk as
`/dev/ssu/...` and forwards its I/O to extents on SSU namespaces.

    client - SDK ==FIFO==> manager loop -> API layer -> controller -> vendor plugin
                                                                        |  ioctl
    application ====== block I/O on /dev/ssu/N ======> ReqShim <--------+
                                                          '--> namespaces on SSUs

| component (file) | state | operations | hard behaviour | what makes it correct | module |
|---|---|---|---|---|---|
| controller (`src/user/controller/ssu_controller.cpp`) | `pool`, `allocations` (one row per extent), `logdevs`, `released_ids`, `next_allocation_id` | refresh_pool, alloc, release, mount, unmount, queries | failure half way through alloc and release; retries; capacity that changes under use; full tables | ids never come back, mapped rows never change, rows are backed by namespaces, bytes are accounted, extents tile a disk, no overcommit, nothing left behind | `SsuController`, `VolumeLifecycle` |
| mock plugin (`.../vendors/mock`) | mount table, namespaces | create_ns, delete_ns, mount, unmount | - | what the controller believes exists, exists | environment of `SsuController`; mounts in `ReqShim` |
| LBC plugin and its tools (`.../vendors/lbc_mock`, `src/mock/run_mock.sh`) | `namespaces[]`, `mounts[]`; at the target configfs namespaces, at the host device nodes | discover, connect, create_ns, delete_ns, mount, unmount | tools that fail, stop half way or succeed late; device names that are used again; a manager that dies with what it made still there | a row's namespace is its own, a device reaches its own disk, nothing is lost unnoticed | `LbcPlugin`, composed in `NodeStack` |
| ReqShim interface (`src/user/plugin/reqshim_iface.cpp`) | none: ioctl sequences | mount, unmount, undo | death between two ioctls, map table full in the middle | a device has all entries of its volume or is on its way out | `ReqShim` |
| ReqShim kernel module (`src/kernel/reqshim/*.c`) | `logdevs[256]` under `logdev_lock`, `maps[]` under `map_lock`, gendisks, requests in flight | LOGDEV_CREATE/DESTROY, MAP_ADD/DEL/QUERY, queue_rq, work function, completion | ioctls of several processes and workers between lock sections; teardown with I/O under way | I/O only reaches extents of its own volume, no entry or disk outlives its device, requests end | `ReqShim` |
| manager (`src/user/runtime/ssu_runtime.cpp`) | request FIFO, lines read | read, open response, execute, answer, periodic refresh | clients that give up or die; restart | it goes on serving | `FifoRpc` |
| SDK (`src/user/sdk/ubse_ssu_sdk.cpp`) | response FIFO per call, deadline | manager_request, read_response_fifo; building commands, reading answers | late answers, split answers, answers that do not fit | at most once, own answer, true answer, requests arrive as meant | `FifoRpc`, `Wire`, `ClientSession` |
| ubsectl (`src/tools/ubsectl.cpp`) | response FIFO | manager_request without a deadline, options of allocate and alloc | sizes and counts that overflow | as for the SDK | `FifoRpc`, `Wire`, `ClientSession` |
| API layer (`src/user/api/ssu_api.cpp`) | `api_requests` (128 slots), `api_initialized` | allocate, result_get, mount, unmount, free, list, resource_* | a cache beside the controller's tables, bypassed by half of the calls | a path finds its disk and no other | `ApiPaths` |
| dataplane library (`src/user/dataplane/ssu_dataplane.cpp`) | none | translate, read, write | wrap-around of offsets, partial reads and writes | every byte is in its place, the same as on the kernel's path | `Dataplane`, `ClientSession` |
| ubs_io stub (`src/tests/stubs/ubs_io/ssu_smoke.cpp`) | rows it was told, pattern, read-back | collect rows, write, read, compare | segments that end at rows; a disk that is released under it | reads back what it wrote | `ClientSession` |
| scheduler (`src/user/scheduler/ssu_scheduler.cpp`) | none | a stub that accepts STRIPE | - | - | not modelled |

Interactions that matter: the controller calls the plugin synchronously and
commits its rows only after all calls of an operation succeeded; the API layer
asks the controller's tables and its own cache; manager and client share only
the two pipes and the file system; user space and kernel share only the ioctls,
so a user process that dies leaves kernel state behind.

## 2. Modules

### VolumeLifecycle
The abstract specification of the controller: disks are created once, attached
under device paths (one at a time unless shared), destroyed only while attached
nowhere, and never come back. `SsuController` is shown to implement it
(`Refines`, checked and proved); `ApiPaths` uses it *as* the controller.

### SsuController (`MCSsuController` instantiates it)
| variable | code |
|---|---|
| `pos`, `total`, `used`, `online` | the rows of `pool[]` and their order |
| `allocs` | `allocations[]`: rows of one id as a function from role index to extent (they sit in increasing slots, so slot order is role order) |
| `logdevs` | `logdevs[]`, grouped by device path |
| `released`, `nextId` | `released_ids[]`, `next_allocation_id` |
| `namespaces` | what exists at the plugin (environment) |
| `retired` | history: every id ever released |

| action | code |
|---|---|
| `RefreshPool` | `ssu_controller_refresh_pool` with any discover order, capacity and health |
| `Alloc` = `AllocSucceeds` / `AllocRollsBack` | `ssu_controller_alloc`: placement by first fit, then every create_ns succeeding, or one failing and the ones before it taken back in reverse |
| `ReleaseAll`, `ReleaseStopsAt` | `ssu_controller_release`, every delete_ns succeeding or one failing |
| `Mount`, `Unmount` | `ssu_controller_mount`, `ssu_controller_unmount` |

The controller is driven by one thread, so a call is one step; the outcome of
each plugin call is a choice. Calls that return an error before changing
anything are stuttering steps. Disk names, owners, hosts are model values; the
state strings of rows are kept. `DeleteMayFail` and `SharedDevice` are what
tells the plugins apart; the run takes the harder choice of each. That a plugin
call which fails leaves the namespaces alone is an assumption about the plugin;
`NodeStack` has the LBC plugin without it.

### Sums, and how the modules are written to be proved
What the code adds up in a loop is `SumOf(L, n)` of `Sums`, a recursive function
and not a fold: the provers can be told its two equations (`ProofFacts`). The
other loops that compute a value are recursive functions too; no module declares
a RECURSIVE operator. Constants have named assumptions, which TLC evaluates in the
runs; apart from types and finiteness they are

* `SizesAssumption`, `SectorAssumption` (`SsuController`): sizes and sectors are
  positive; alloc refuses 0;
* `SetsAssumption` (`LbcPlugin`): the host has at least as many device names as
  the target has namespace ids; a node never fails to appear for want of a name;
* `ClientsAssumption` (`FifoRpc`): only SDK clients have deadlines;
* `VolumesAssumption`, `CoverAssumption` (`ReqShim`): the extents of a volume are
  not empty and cover it. The controller, whose rows they are, guarantees it
  (`RowsTile`, proved);
* `DigitsAssumption` (`Wire`): a word is printed with at most 20 digits, as a
  `uint64_t` is.

### LbcPlugin, NodeStack
`LbcPlugin` has the operations of the LBC plugin as operators over its tables
(`rows`, `mounts`), the NVMe target (`target`, with `run_mock.sh`), the device
nodes of the host (`node`) and the ReqShim devices (`minors`). create_ns is
`CreateBinds` (a new node was found: usually its own, but it may be the late
node of a namespace that was given up), `CreateMisses` (no node in five
seconds), `CreateCleansHalf` (the tool failed and the namespace could be
disabled but not removed) or `CreateFails`. delete_ns is `DeleteWorks`,
`DeleteFails` (nothing was done), `DeleteStopsHalf` (the node is gone, the
namespace disabled, rmdir did not work) or `DeleteStopsLate`: the script runs under
`set -eu` and fails or is killed behind its rmdir, so that the namespace is gone and
its id free, while the plugin returns the error and keeps the row. The tool gives the
id to the next namespace; then two rows have it, and `find_namespace` takes the first.

`NodeStack` composes them with the controller's alloc and release, one step per
plugin call (`AllocBegin`, `AllocCreate`, `AllocCreateFails`, `RollBack`,
`AllocCommit`, `ReleaseBegin`, `ReleaseNext`, `ReleaseStops`), with `Mount`,
`Unmount`, `CleanUp` (the unmount of a path the controller has no row of), with
nodes that appear at any time and with `Restart`: the manager dies between two
plugin calls, its tables are empty afterwards and its ids begin again, while
target, nodes and ReqShim devices stay. `vanished` is history: the extents whose
deletion failed but removed the namespace. An id of one of them is *in doubt*
(`InDoubt`) until the last row, disk or call under way that has it is gone
(`Settle`). `RowsOwnNamespaces` and `TablesAgree` speak of the other ids: what
such a deletion can damage is only what shares its id. Sizes, placement and names are in
`SsuController`, ioctls in `ReqShim`.

### ReqShim (`MCReqShim` instantiates it)
One step per lock section. `slot` is `logdevs[]`, `maps` the map table, `disks`
and `dying` what the block layer knows of gendisks, `reqs` the outstanding block
requests, `session` the ioctl sequence each process is in, `mounted` the
plugin's mount table of the process. Kernel actions: `Create`/`CreateFails`/
`CreateBusy`, `AddCheck` and `AddInsert` (map_add looks the device up under one
lock and inserts under another), map deletion, `DestroyBegin` - `Quiesce` -
`Drain` - `Reset` - `Clear` (the stages of `ssu_reqshim_logdev_destroy` between
which locks are dropped), `Submit`, `WorkStart`, `WorkTranslate`, `DeviceDone`,
`DeviceFails`, `Finish` for one request. A process may die between any two
ioctls; its successor, which remembers nothing, cleans up by the minor of the
path.

### FifoRpc
`client` is where each client is in `manager_request`, `file`/`readers`/`chan`
the response FIFOs, `fifo` the request FIFO, `mgr` the place of the manager in
`run_fifo_server` with the lines it has read, `log` the history of executed
commands. Opening a FIFO for writing blocks until a reader has it open; writing
without a reader fails (SIGPIPE is ignored); a new manager unlinks the FIFO of
the old one. `Tools` are the clients that are `ubsectl`: they wait for the
manager in `open` (`"join"`), have no deadline and read until the manager
closes, where an SDK client has a deadline and takes 20 ms of silence for the
end. `ReadCuts` is a read of 2047 bytes that ends within a line: the head of the
line is dropped, or run with the arguments it has, the rest is dropped.

### Dataplane, Wire, ClientSession
`Dataplane` is `translate_offset` and the map entries of `build_entries`, with
every sum, difference and product at the width `Word`. `Wire` is what a request
and an answer go through: the options of `ubsectl`, the command of the SDK, what
the manager reads in it, the rows `appendf` prints into a buffer that may be too
small and what each client reads in what is left of them. `ClientSession` puts
both together: a client types a request (or calls the SDK), asks for the rows of
its disk, and writes and reads a pattern through them as `ssu_smoke` does, with
devices that do a part of a request (`WriteSome`, `ReadSome`), end (`ReadEnd`) or
fail, and another client that releases the disk at any time. The manager is in it
by what `SsuController` promises: rows that tile the disk, on distinct devices.

### ApiPaths
The API layer over `VolumeLifecycle` (INSTANCE) with disk names. `slots` is
`api_requests[]`; `Resolve` is `request_id_from_device_path` with its four
sources in order; the resource calls change the controller and leave the cache
alone, which is what makes slots stale. Device paths are numbers: `k` stands for
`/dev/ssu/ssuk`, other numbers for other names. Not in it: paths outside
`/dev/ssu`, and a failing release after a refused allocate (the API layer
ignores its result).

## 3. Runs

| run | instance | shows |
|---|---|---|
| `controller` | 2 SSUs whose capacity changes between 2 and 4 units (sectors of 2), disks of 3 units, named and unnamed, both sharing modes, 2 device paths, deletions that fail, 3 ids, 1 remembered id | types, ids never reused, state = devices, extents on distinct SSUs tiling the disk, unique names, first fit refuses only when nothing fits, mapped rows are current, rows have namespaces, bytes = sum of rows, a retry finds its disk, no step overcommits, implements `VolumeLifecycle` |
| `extent_overlap` (violation) | aligned and unaligned sizes | finding 1 |
| `node_stack` | 2 SSUs, 2 namespaces, 2 device names, a plugin table of 2 rows, paths inside and outside the minors, 3 ids over 2 minors, 2 lives of the manager | a row's namespace is its own, and controller and plugin agree after every plugin call, except for ids in doubt; what nobody can delete is one of three known kinds; a device reaches its own disk; what is shown as mounted is served |
| `logdev_map` (violation) | 1 SSU, 2 disks | finding 2 |
| `reqshim_safety` | 2 processes, 2 minors, 3 volumes of which 2 use one minor, a map table of 2 entries, 1 request, 3 gendisks | no entry or disk without its device, mounted devices have exactly their entries, I/O stays in the extents of the volume it was submitted to, a device that is gone is quiet |
| `reqshim_live` | 2 processes, 1 minor, 2 volumes, 2 requests | requests end and sessions return although new requests are submitted during the drain |
| `reqshim_io_cut` (violation) | 1 process, 1 request | finding 3 |
| `fifo_calls` | an SDK client of 2 calls, a ubsectl, deadlines that pass, both may be killed, 2 starts of the manager, reads that take 1 of 2 lines | a command is executed at most once, answers are one's own and true, nothing runs before its client listens, every call in the pipe is answered unless its client leaves, the manager ends, its line is cut or the manager is stuck |
| `fifo_stuck` (violation) | one client that times out | finding 4 |
| `api_paths` | 3 disks, 2 names, 2 slots | a path finds its disk and no other with a stale, full or reset cache; a cached path is right |
| `api_name_clash` (violation) | a name that is `ssu1` | finding 5 |
| `client_session` | sizes of any sign and unit at and beyond the width, counts around 2^32 (here 8), names and hosts of every form, 2 devices, disks of 1 or 2 rows, answers with room for one row, for a row and a half, for all | requests arrive as meant, answers are true, bytes are in place, a client reads back what it wrote |

Every property of a passing run has a mutant in `PROJECT.json`: a plausible bug
of the code (defined beside the original, marked *Mutant*) under which TLC finds
the property violated.

### Bounds, and why they are enough
* Controller: two SSUs give striping, first fit with a skip, and a release of
  the first of two extents; a disk of 3 units is unaligned as one extent and
  uneven as two; three ids allow release, reuse of the space and a third disk;
  `MaxReleased = 1` makes the table of released ids overflow; `MaxRows = 3` and
  `MaxLogdevRows` make tables run full with a two-extent disk. `MaxAllocId` caps
  the counter in the guard of `Alloc`. Units stand for bytes: `Sector = 2` is
  the smallest sector that has unaligned sizes.
* NodeStack: two namespaces, names and rows are a striped disk, or two disks, or one
  disk and one namespace that is given up, left by a dead manager or kept by a row of
  a rollback; in each case the target and the plugin's table are full and an id or a
  name that comes free is the one that is used again. A row whose namespace is gone,
  and the new disk that has its id, can both be there, the new one mounted (two rows,
  one namespace). Three ids over two minors let one be above them; path 7 carries a name where path 0 carries the number of a minor;
  two lives let a successor meet everything its predecessor left. `MaxLives` and
  `MaxAllocId` are bounds of the model; `MaxNsRows` and `MaxMounts` are tables
  that run full.
* ReqShim: two volumes on one minor are the smallest case where a stale entry
  can serve a wrong volume; a table of two entries is filled by one volume of
  two extents, so the other meets it full half way. `MaxDisks` caps gendisks
  ever created (three: a device, its reuse, and a third). Sector numbers are 0
  and 1: a request over both crosses an extent boundary.
* FifoRpc: two calls of the SDK client let a late answer meet a later call, two
  clients let one be stuck behind the other; two starts allow one crash;
  `ReadMax = 1` of `PipeMax = 2` lines makes a read cut the second.
* ClientSession: a word of 64 values over sectors of 2, `Half = 8`, `Kilo = 2`.
  The digits are 0, ordinary sizes, half a word and numbers around and beyond
  it; sectors 0 and 12 with devices of 30 bytes put extents at the beginning and
  at the end of what can be reached; sizes of three bytes give rows that are no
  whole sectors. What a user types varies one part at a time. That no offset
  wraps is proved for every width.
* ApiPaths: two slots and three ids fill the cache and leave a stale slot in
  front of a live one at the same path.
* `Serial = TRUE` in all ReqShim runs: sessions on one minor do not overlap,
  since one manager serves a node and executes one command at a time. Two
  managers on a node break it (hazards at `reqshim_map.c:37`,
  `reqshim_blk.c:429`); this is open.
* `CHECK_DEADLOCK FALSE`: the controller and API instances stop when ids run
  out, and in the FIFO runs the manager may really block for ever (finding 4).
  A client session ends, and a node runs out of ids, namespaces and lives. The
  ReqShim runs check deadlock.

### Fairness
`ReqShim!FairSpec`: an ioctl in progress goes on, workers and devices serve what
they have; nobody has to mount, submit or die. The kernel guarantees the first,
the block layer's workqueue the second. `FifoRpc!FairSpec`: a client in a call
goes on (the waits of the SDK have a deadline; `ubsectl` goes on when the manager
lets it), a running manager goes on and one that is down is started as often as
`MaxStarts` allows (the operator's part). Nobody has to call, and the places
where a process blocks in `open` or `read` are disabled steps, which fairness
cannot force. `NodeStack` and `ClientSession` have no liveness properties and
assume no fairness.

## 4. Proofs

### The controller (`SsuController_proofs`)

All theorems are about `SsuController!Spec` for every set of SSUs, capacities,
sizes, names, paths and table limits, under the named assumptions of the module
(SSUs are a finite set of numbers, sizes and the sector are positive, the empty
name is no name). TLC evaluates these assumptions in the runs.

The inductive invariant is

    IInv == TypeOK /\ IdsIssued /\ RetiredNeverActive /\ MappingIsCurrent
            /\ MountedIffAttached /\ ExclusiveOnce /\ RowsSpread /\ RowsBacked
            /\ NamesUnique

None of its parts is inductive alone. A device's rows stay current only because
release refuses a disk with devices, which needs that each device belongs to a
live disk; a row keeps its namespace when another row is deleted only because
rows of a disk are on distinct SSUs and namespaces of an SSU differ; an id is
not reused only because every id in use or retired is below the counter
(`IdsIssued`). Each action has a lemma; `[Next]_vars` collects them.

Two theorems need more beside it. `RolesRun` says that the roles of a disk's rows
are `k .. n - 1` for the number n of extents it was made with, which a release that
stops half way keeps because it deletes in order of roles. As long as role 0 is
there, all are, and by `RowsTile` (proved first) their lengths add up to the size
asked for, which is what a retry compares. For the placement, extents do not grow with their role (`ExtentsFall`),
so an SSU that first fit passed over for one extent may serve a later one, and one
it took is never needed back: by counting, one of the SSUs of any other choice is
still free at every role (`OneIsFree`), so the loop places the next.

| theorem | statement |
|---|---|
| `TypeCorrect` | `[]TypeOK` |
| `IdsNeverReused` | `[](IdsIssued /\ RetiredNeverActive)` |
| `MappingsStayCurrent` | `[]MappingIsCurrent` |
| `MountStateCorrect` | `[](ExclusiveOnce /\ MountedIffAttached)` |
| `ExtentsStayBacked` | `[](RowsBacked /\ RowsSpread)` |
| `DisksSpread` | `[]RowsSpread` |
| `NamesStayUnique` | `[]NamesUnique` |
| `NeverOvercommitted` | `NoOvercommit` (action property) |
| `DisksAreTiled` | `[]RowsTile`: lengths and offsets of the placement tile any size over any number of SSUs; needs the arithmetic lemmas on `\div` and `%` |
| `PlacementNeverMisses` | `[]PlacementComplete`: first fit refuses only what no choice of SSUs has room for |
| `UsedIsWhatRowsHold` | `[]UsedIsSumOfRows`: what one step adds to or takes from one row, the used bytes of its SSU follow |
| `RetriesFindTheirDisk` | `[]RetryFindsDisk`, from `RolesRun` and `RowsTile` |
| `NothingLeftBehind` | `[]NoResidue` if delete_ns cannot fail; `NodeStack` has what is left if it can (`NoneLost`) |
| `ControllerRefinesLifecycle` | `Refines` |

### The API layer (`ApiPaths_proofs`)

About `ApiPaths!Spec` for every set of ids and names and every number of slots,
under `ApiAssumption`. The inductive invariant is `DiskInv /\ Coherent(slots,
...)`: types, living disks and gone ones are disjoint, names are distinct; every
slot belongs to a disk that was created, no two to the same one, and that of a
living disk has its path. `Coherent` takes the disks as parameters, so what a
call does to the table and what it does to the controller are separate lemmas:
a table stays coherent under registering and forgetting, and around creation and
destruction, because ids of disks that come are new to it.

| theorem | statement |
|---|---|
| `ApiTypeCorrect` | `[]TypeOK` |
| `CacheStaysCoherent` | `[]CacheCoherent` |
| `PathsFindDisks` | `[]PathFindsDisk` if no disk is named like an unnamed one (`DiskNames \cap Ids = {}`); finding 5 shows that the assumption is needed |

### The data path (`Dataplane_proofs`)

Two theorems about single calls, for every width, every sector size and every
row; there is no state and no invariant. `WrapOfWord` (a word does not wrap) and
`ProductFits` (a sector number that passes the division test has its product
below the width) carry the arithmetic.

| theorem | statement |
|---|---|
| `TranslatedRangeInExtent` | a range that is translated lies in the extent of its row and no offset in it wraps: the byte after k bytes is the one k bytes behind the start |
| `DataPathsAgree` | for a row that `build_entries` takes, the byte `translate_offset` finds is the byte the kernel's map entry finds |

### Client sessions (`ClientSession_proofs`)

About `ClientSession!Spec` for every width and sector size, every device size,
every number typed, every room for an answer and every disk the controller may
make. Three invariants build on each other.

`Answers` relates the answer to the disk: a good answer holds no more rows than
the disk has, and where its numbers are whole (`NumbersWhole`) it is a beginning
of them (`Told`). The lemmas about `Wire` say how many characters the first k rows
take (`CharsStep`), what is left of a cut answer (`LinesShape`) and what a client
reads in it (`HeardShape`, `HeardTrue`).

`Data` adds that a request under way is one that `translate_offset` let pass
(`Passed`) and that every byte on a device that the session wrote is at its place
(`InPlace`). A step that stores cites `TranslatedRangeInExtent` of the data path.

`Verifies` adds that the rows tile the disk (`Tiles`), that as long as nobody took
the disk and no device failed the bytes written so far are still on the devices
(`Stored`), and that the read-back buffer is the pattern so far. It needs that two
rows of a disk are on distinct devices: otherwise storing a later byte could
overwrite an earlier one.

| theorem | statement |
|---|---|
| `RequestsArrive` | `[]RequestArrives`: sizes, counts, names and hosts are served as meant |
| `AnswersAreTrue` | `[]AnswerTrue` |
| `BytesStayInPlace` | `[]BytesInPlace` |
| `WrittenIsReadBack` | `[]ReadsBack` |

### Calls through the FIFOs (`FifoRpc_proofs`)

About `FifoRpc!Spec` for every set of clients, number of calls and starts and
length of pipe and read. The inductive invariant says where the line of a call can
be: in the request FIFO, in what the manager has read, with the manager, or in the
log, and in one of these places once (`Once`). It needs that no call is sent that
its client has not begun (`SentBegun`, `ClientsInOrder`); that a path names only
the FIFO of its own call and readers wait for their answer (`PathsOwn`,
`ReadersWait`); that the manager answers the command it has taken (`AtOwn`); that
the client of what runs, if still in that call, is past sending it (`Heard`); and
that every answer in a response FIFO, in a client's hands or among outcomes tells
what the log has of its command (`AnswersTrue`).

| theorem | statement |
|---|---|
| `FifoTypeCorrect` | `[]TypeOK` |
| `CommandsRunOnce` | `[]AtMostOnce` |
| `AnswersReachTheirCall` | `[]OwnAnswer` |
| `ClientsAreToldTheTruth` | `[]ToldTruth` |
| `ClientsListenFirst` | `[]HeardBeforeRun` |

### The node (`NodeStack_proofs`)

About `NodeStack!Spec` for every set of SSUs, namespaces, device names, paths and
minors and every number of ids and lives. The invariant has two halves. `PluginInv`
is about plugin, target, host and ReqShim: rows own their namespaces, given-up
namespaces are no row's unless their id is in doubt (`LeakedApart`), no two nodes serve one namespace
(`NodesApart`), namespaces of rows are enabled unless a deletion failed behind its beginning
(`RowsOn`), and unless one did no id is in doubt (`DoubtTyped`), and while that has not happened and no given-up namespace is enabled,
the node of a row serves it and map entries lead to their disk (`NodesServe`,
`MapsServed`). `CtlInv` is about the controller and its call under way: `CallSound`
ties the extents an alloc or a rollback has made to the plugin's rows of the id to
be issued, which otherwise has none beyond doubt, and `MadeStands` says that what an
alloc has made so far is at the target under distinct ids. Each operation
of `LbcPlugin` has one lemma for the first half; the second half then has one step
per action.

| theorem | statement |
|---|---|
| `NodeTypeCorrect` | `[]TypeOK` |
| `NamespacesHaveOneRow` | `[]RowsOwnNamespaces`, for ids beyond doubt |
| `ControllerAndPluginAgree` | `[]TablesAgree`, for ids beyond doubt |
| `NamespacesAreKept` | `[]NoneLost` |
| `IoStaysOnItsDisk` | `[]IoReachesOwnDisk` |
| `MountedDisksAreServed` | `[]AttachedIsServed` |

### ReqShim (`ReqShim_proofs`)

About `ReqShim!Spec` for every set of processes, minors and volumes, every size of
the map table and number of requests. Two theorems hold however sessions overlap:
the types, and that a request never outlives the gendisk whose slot its worker
reads. Their invariant is `Typed`.

The others assume `Serial`, and the assumption is part of each statement. `Sound`
is `Typed`, `OwnExtentsOnly` and, for each minor, `AtMinor`: what the slot, the
entries of the minor in the map table, its gendisks and the processes that have it
mounted look like at each step of the one session that may be at it, and when no
session is. `NoOrphanMaps` and `DisksOwned` are not inductive because a destroy
drops its locks between its stages: what holds in between is what `AtMinor` says.
That a mounted volume translates exactly further needs that the entries of a minor
are those of the volume it serves (`EntriesOwn`), that all of them are there
(`MountedMapped`) and that they cover it (`CoverAssumption`).

| theorem | assumes | statement |
|---|---|---|
| `KernelTypeCorrect` | - | `[]TypeOK` |
| `WorkersFindTheirDisk` | - | `[]QuietWhenGone` |
| `NoDiskIsLost` | `Serial` | `[]DisksOwned` |
| `NoEntryIsLeft` | `Serial` | `[]NoOrphanMaps` |
| `IoStaysInItsVolume` | `Serial` | `[]OwnExtentsOnly` |
| `MountedVolumesTranslate` | `Serial` | `[]MountedMapsExact` |

### Facts used by several (`ProofFacts`)
Smallest and greatest elements of bounded sets of numbers, heads, tails, prefixes
and appended elements of sequences, and sums: the equations of `SumOf`, its type,
and what a change of one summand does to it. The inductions are over a smallest
counterexample (`MinIn`).

### How the invariants were found, and what is not proved
Each inductive invariant was first an invariant of a TLC run on the instance of
section 3; only then it was proved. Every safety property a passing run checks is
now also a theorem, for every value of the constants. Only TLC checks

* the liveness properties `RequestsFinish`, `SessionsFinish` and `CallsAnswered`:
  liveness under fairness and ENABLED are out of the prover's reach;
* the findings, which are counterexamples;
* the state of ReqShim when sessions on a minor overlap, of which only the two
  theorems without `Serial` say anything.

## 5. Findings

1. `extent_overlap` - `ssu_controller.cpp:773` places an extent at
   `used_bytes/512`; after a release out of order this points into a live extent.
2. `logdev_map` - `ssu_plugin_lbc_mock.cpp:1035` names the device of the first
   namespace on the SSU, whichever disk it belongs to, and logdev rows show it;
   implementation-design.md:327 says that a row is a ReqShim mapping.
3. `reqshim_io_cut` - `reqshim_iface.cpp:577` deletes map entries before the
   device: I/O under way fails half done, against implementation-design.md:987.
4. `fifo_stuck` - `ssu_runtime.cpp:721` opens the response FIFO of a client that
   gave up, and blocks for ever; a test expects the manager to go on.
5. `api_name_clash` - a disk named `ssu1` and the unnamed disk of `alloc-1` share
   the path `/dev/ssu/ssu1`; free destroys the one found first.

Also seen, without a run of its own:

* Once 128 released ids are remembered a repeated release is answered NOT_FOUND
  instead of OK (implementation-design.md:447), and a release that fails half way
  leaves its disk ACTIVE instead of FAILED (implementation-design.md:586).
* The rollback of alloc ignores what delete_ns returns (`ssu_controller.cpp:832`),
  so a namespace whose deletion fails stays, against implementation-design.md:1495.
  The id is issued again, and the SSU of the row that stayed refuses its next
  create_ns. `NoneLost` and `TablesAgree` name these cases as their exceptions.
* When `detach_delete` fails behind its rmdir (`run_mock.sh:321`, `set -eu`),
  `lbc_mock_delete_ns` keeps the row (`ssu_plugin_lbc_mock.cpp:1301`). The id is given
  to the next disk (`run_mock.sh:128`), and the release that is sent again deletes the
  namespace of that disk; a release of the new disk clears the row of the old one.
  implementation-design.md:586 has retries skip what is deleted already. These are
  the exceptions in `RowsOwnNamespaces` and `TablesAgree` (`~InDoubt`; without it TLC
  finds a row of a namespace that is gone in 5 states) and in `AttachedIsServed`
  (`stolen`).
* An answer that does not fit 8192 characters is cut without an error
  (`ssu_runtime.cpp:251`): rows are missing and the number at the end loses
  digits, though implementation-design.md:199 has allocate_result_get tell every
  physical disk. `AnswerTrue` and `BytesInPlace` except answers whose numbers are
  not whole; `list` counts the rows.
* `ubsectl` narrows the number of disks to 32 bits (`ubsectl.cpp:645`) and takes
  `--size -1` for 2^64 - 1; a disk named `-` is an unnamed one.
* A cleanup of `/dev/ssu/ssuN` destroys the device of minor N also when that is
  mounted under a name (`reqshim_iface.cpp:628`): the exception in
  `AttachedIsServed`.
* A late node of a namespace that create_ns gave up on is taken for that of the
  next one, and a deletion that fails behind its beginning frees a device name a row
  still has: the exceptions in `IoReachesOwnDisk`.
* A named disk asked for with more physical disks than bytes gets one extent per
  byte; the request sent again is compared with the count that was asked for and
  answered NS_EXISTS (`ssu_controller.cpp:610`): the exception in `RetryFindsDisk`.
* `ubsectl` waits for ever for a manager that died with its line
  (`ubsectl.cpp:224`), and the rest of a line that a read cut is never answered:
  the exceptions in `CallsAnswered`.

## 6. Plan

Done, in this order: `SsuController` with `VolumeLifecycle` and its proofs (the
data that must not be lost), `ReqShim` (the concurrent part), `FifoRpc` (the
failure-prone part), `ApiPaths` and its proofs, `LbcPlugin` and `NodeStack` (the
composition on a node, with restarts), `Dataplane` with its proofs, `Wire` and
`ClientSession` (the way of a request and of the data); then proofs of all safety
properties, in `FifoRpc_proofs`, `NodeStack_proofs`, `ReqShim_proofs`,
`ClientSession_proofs` and the rest of `SsuController_proofs`.
Next:

1. `AllocThreads`: alloc at the grain of memory accesses, for the promise of
   reentrancy in implementation-design.md:446.
2. `ReqShim` with overlapping sessions on a minor, and a run for each race.
3. `ApiPaths` on `NodeStack`: the cache of the API layer across a restart.

Abstract specifications worth stating: an at-most-once call that `FifoRpc`
implements, and a device that maps volume to extents atomically, which `ReqShim`
implements between sessions.

Theorems, in order of value, now that the safety properties are proved: that
`FifoRpc` implements the at-most-once call; that `ReqShim` implements the atomic
device under `Serial`; action properties of `NodeStack` (a namespace whose id is
beyond doubt is deleted only by the release or the rollback of its own disk) and of `ApiPaths` (a path that
resolves keeps its disk until that is freed).

## 7. Not modelled
Printing, logs and audit records; the options of `ubsectl` other than those of
allocate and alloc; the config file and the running of commands in the LBC
plugin (their effect is a step that fails); which shorter command a truncated
line becomes; module load and unload; the set-up scripts of the kernel target;
the flow of `ssu_smoke` that links the API into its own process. The scheduler
is a stub of one test with no state. Two threads in the controller: see the
plan. Lengths of names and buffers other than that of an answer are left out.
