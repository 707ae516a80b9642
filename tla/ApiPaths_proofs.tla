--------------------------- MODULE ApiPaths_proofs ---------------------------
(***************************************************************************)
(* Proofs about ApiPaths: types, the coherence of the request cache, and   *)
(* that paths find their disks when no disk is named like an unnamed one.  *)
(***************************************************************************)
EXTENDS ApiPaths, ProofFacts

\* Names tell disks apart.
NamesDistinct ==
  \A x, y \in Existing : name[x] # NoName /\ name[x] = name[y] => x = y

\* The controller's part of the inductive invariant.
DiskInv ==
  /\ Existing \subseteq Ids /\ live \in [Existing -> Modes]
  /\ destroyed \subseteq Ids /\ Existing \cap destroyed = {}
  /\ DOMAIN attached \subseteq Path
  /\ \A p \in DOMAIN attached : attached[p] \in Existing
  /\ name \in [Existing -> DiskNames \cup {NoName}]
  /\ NamesDistinct

\* The cache's part, for a table beside disks that live, are gone and have
\* names: a slot belongs to a disk that was created, no two to the same one,
\* and that of a living disk has its path.
Coherent(table, alive, gone, names) ==
  /\ table \in [1 .. MaxSlots -> {NoSlot} \cup [id : Ids, path : Path]]
  /\ \A i \in 1 .. MaxSlots : table[i].id \in alive \cup gone \cup {NoId}
  /\ \A i, j \in 1 .. MaxSlots :
       table[i].id # NoId /\ table[i].id = table[j].id => i = j
  /\ \A i \in 1 .. MaxSlots :
       table[i].id \in alive =>
         table[i].path = DefaultPath(table[i].id, names[table[i].id])

IInv == DiskInv /\ Coherent(slots, Existing, destroyed, name)

-----------------------------------------------------------------------------
(* Lemmas on the table *)

\* No request has no id.
LEMMA NoneIsNoId == NoId \notin Ids
  BY ApiAssumption DEF NoId

\* A registered disk keeps the table coherent, whether it had a slot or not,
\* and also if there is no room for it.
LEMMA RegisteredCoherent ==
  ASSUME NEW table, NEW alive \in SUBSET Ids, NEW gone \in SUBSET Ids,
         NEW names \in [alive -> DiskNames \cup {NoName}],
         Coherent(table, alive, gone, names), NEW id \in alive
  PROVE  Coherent(Registered(table, id, names[id]), alive, gone, names)
  <1> DEFINE path == DefaultPath(id, names[id])
             k == Min(SlotFor(table, id))
             after == [table EXCEPT ![k] = [id |-> id, path |-> path]]
  <1>1. CASE ~CanRegister(table, id)
    BY <1>1 DEF Registered
  <1>2. CASE CanRegister(table, id)
    <2>1. /\ DOMAIN table = 1 .. MaxSlots
          /\ SlotFor(table, id) \in SUBSET Nat /\ SlotFor(table, id) # {}
      BY <1>2, ApiAssumption DEF Coherent, SlotFor, SlotsOf, CanRegister
    <2>2. k \in SlotFor(table, id)
      BY <2>1, MinIn
    <2>3. /\ k \in 1 .. MaxSlots
          /\ \A i \in 1 .. MaxSlots : table[i].id = id => i = k
      BY <2>1, <2>2, NoneIsNoId DEF SlotFor, SlotsOf, Coherent
    <2>4. path \in Path
      BY DEF DefaultPath, Path
    <2>5. Registered(table, id, names[id]) = after
      BY <1>2 DEF Registered
    <2> HIDE DEF path, k
    <2>6. /\ after[k] = [id |-> id, path |-> path]
          /\ \A i \in 1 .. MaxSlots : i # k => after[i] = table[i]
          /\ after \in [1 .. MaxSlots -> {NoSlot} \cup [id : Ids, path : Path]]
      BY <2>3, <2>4 DEF Coherent
    <2>7. after[k].id = id /\ after[k].path = path
      BY <2>6
    <2> HIDE DEF after
    <2>8. \A i \in 1 .. MaxSlots : i # k => after[i].id # id
      BY <2>3, <2>6
    <2>9. \A i \in 1 .. MaxSlots : after[i].id \in alive \cup gone \cup {NoId}
      BY <2>6, <2>7 DEF Coherent
    <2>10. \A i, j \in 1 .. MaxSlots :
             after[i].id # NoId /\ after[i].id = after[j].id => i = j
      BY <2>6, <2>7, <2>8 DEF Coherent
    <2>11. \A i \in 1 .. MaxSlots :
             after[i].id \in alive =>
               after[i].path = DefaultPath(after[i].id, names[after[i].id])
      BY <2>6, <2>7 DEF Coherent, path
    <2> QED
      BY <2>5, <2>6, <2>9, <2>10, <2>11 DEF Coherent
  <1> QED
    BY <1>1, <1>2

\* So does forgetting one.
LEMMA ForgottenCoherent ==
  ASSUME NEW table, NEW alive, NEW gone, NEW names,
         Coherent(table, alive, gone, names), NEW id,
         NoId \notin alive
  PROVE  Coherent(Forgotten(table, id), alive, gone, names)
  <1>1. \A i \in 1 .. MaxSlots :
          \/ Forgotten(table, id)[i] = table[i]
          \/ Forgotten(table, id)[i] = NoSlot
    BY DEF Forgotten, Coherent
  <1>2. NoSlot.id = NoId
    BY DEF NoSlot
  <1>3. Forgotten(table, id)
          \in [1 .. MaxSlots -> {NoSlot} \cup [id : Ids, path : Path]]
    BY DEF Forgotten, Coherent
  <1> QED
    BY <1>1, <1>2, <1>3 DEF Coherent

\* Disks that come are new and the others keep their names, so a table stays
\* coherent when disks are created and destroyed around it.
LEMMA CoherentCarries ==
  ASSUME NEW table, NEW alive, NEW gone, NEW names,
         NEW alive2, NEW gone2, NEW names2,
         Coherent(table, alive, gone, names),
         alive \cup gone \subseteq alive2 \cup gone2,
         \A x \in alive2 : x \in alive \/ x \notin gone \cup {NoId},
         \A x \in alive2 \cap alive : names2[x] = names[x]
  PROVE  Coherent(table, alive2, gone2, names2)
  <1>1. \A i \in 1 .. MaxSlots :
          table[i].id \in alive2 =>
            /\ table[i].id \in alive
            /\ names2[table[i].id] = names[table[i].id]
    BY DEF Coherent
  <1> QED
    BY <1>1 DEF Coherent

-----------------------------------------------------------------------------
(* What a look-up finds *)

\* A path finds a disk that exists, or none.
LEMMA ResolveFindsLive ==
  ASSUME IInv, NEW path \in Path
  PROVE  Resolve(path) \in Existing \cup {NoId}
  <1>1. CASE path \in DOMAIN attached
    BY <1>1 DEF Resolve, IInv, DiskInv
  <1>2. CASE path \notin DOMAIN attached /\ CacheHit(path)
    BY <1>2 DEF Resolve, CacheHit
  <1>3. CASE path \notin DOMAIN attached /\ ~CacheHit(path)
    <2>1. Named(path) \subseteq Existing
      BY DEF Named
    <2> QED
      BY <1>3, <2>1 DEF Resolve
  <1> QED
    BY <1>1, <1>2, <1>3

\* A look-up leaves the cache coherent.
LEMMA LookUpCoherent ==
  ASSUME IInv, NEW path \in Path
  PROVE  Coherent(SlotsAfter(path), Existing, destroyed, name)
  <1>1. CASE SlotsAfter(path) = slots
    BY <1>1 DEF IInv
  <1>2. CASE SlotsAfter(path) # slots
    <2>1. /\ Resolve(path) \in Existing
          /\ SlotsAfter(path) =
               Registered(slots, Resolve(path), name[Resolve(path)])
      BY <1>2, ResolveFindsLive DEF SlotsAfter
    <2> QED
      BY <2>1, RegisteredCoherent DEF IInv, DiskInv
  <1> QED
    BY <1>1, <1>2

-----------------------------------------------------------------------------
(* Steps of the controller *)

\* A new disk keeps the controller's invariant and a coherent table coherent.
LEMMA CreateInv ==
  ASSUME IInv, NEW id \in Ids, NEW n \in DiskNames \cup {NoName},
         NEW mode \in Modes,
         Fresh(id), ~NameTaken(n), Disks!Create(id, mode), NamedAs(id, n)
  PROVE  /\ DiskInv'
         /\ Existing' = Existing \cup {id} /\ destroyed' = destroyed
         /\ name'[id] = n
         /\ Coherent(slots, Existing', destroyed', name')
  <1>1. id \notin Existing \cup destroyed
    BY DEF Disks!Create, Existing
  <1>2. /\ Existing' = Existing \cup {id}
        /\ destroyed' = destroyed /\ attached' = attached
        /\ live' \in [Existing' -> Modes]
    BY DEF Disks!Create, Existing, IInv, DiskInv
  <1>3. /\ name' \in [Existing' -> DiskNames \cup {NoName}]
        /\ name'[id] = n
        /\ \A x \in Existing : name'[x] = name[x]
    BY <1>1, <1>2 DEF NamedAs, IInv, DiskInv
  <1>4. NamesDistinct'
    BY <1>2, <1>3 DEF NamesDistinct, NameTaken, IInv, DiskInv
  <1>5. DiskInv'
    BY <1>1, <1>2, <1>3, <1>4 DEF IInv, DiskInv
  <1>6. id # NoId
    BY NoneIsNoId
  <1>7. Coherent(slots, Existing', destroyed', name')
    BY <1>1, <1>2, <1>3, <1>6, CoherentCarries DEF IInv
  <1> QED
    BY <1>2, <1>3, <1>5, <1>7

\* So does a disk that goes, for the table a look-up left, too.
LEMMA DestroyInv ==
  ASSUME IInv, NEW id \in Existing, Disks!Destroy(id), Unnamed(id),
         NEW table, Coherent(table, Existing, destroyed, name)
  PROVE  DiskInv' /\ Coherent(table, Existing', destroyed', name')
  <1>1. /\ Existing' = Existing \ {id}
        /\ destroyed' = destroyed \cup {id} /\ attached' = attached
        /\ live' \in [Existing' -> Modes]
        /\ \A p \in DOMAIN attached : attached[p] # id
    BY DEF Disks!Destroy, Existing, IInv, DiskInv
  <1>2. /\ name' \in [Existing' -> DiskNames \cup {NoName}]
        /\ \A x \in Existing' : name'[x] = name[x]
    BY <1>1 DEF Unnamed, IInv, DiskInv
  <1>3. NamesDistinct'
    BY <1>1, <1>2 DEF NamesDistinct, IInv, DiskInv
  <1>4. DiskInv'
    BY <1>1, <1>2, <1>3 DEF IInv, DiskInv
  <1>5. Coherent(table, Existing', destroyed', name')
    BY <1>1, <1>2, CoherentCarries
  <1> QED
    BY <1>4, <1>5

\* Attaching and detaching a device leave disks and names alone.
LEMMA AttachInv ==
  ASSUME IInv, NEW id, NEW path \in Path, Disks!Attach(id, path),
         UNCHANGED name
  PROVE  /\ DiskInv' /\ id \in Existing
         /\ Existing' = Existing /\ destroyed' = destroyed
  <1>1. /\ id \in Existing /\ Existing' = Existing
        /\ live' = live /\ destroyed' = destroyed
        /\ DOMAIN attached' = DOMAIN attached \cup {path}
        /\ \A p \in DOMAIN attached' :
             attached'[p] = IF p = path THEN id ELSE attached[p]
    BY DEF Disks!Attach, Existing
  <1>2. \A p \in DOMAIN attached' : attached'[p] \in Existing
    BY <1>1 DEF IInv, DiskInv
  <1> QED
    BY <1>1, <1>2 DEF IInv, DiskInv, NamesDistinct

LEMMA DetachInv ==
  ASSUME IInv, NEW path \in Path, Disks!Detach(path), UNCHANGED name
  PROVE  DiskInv' /\ Existing' = Existing /\ destroyed' = destroyed
  <1>1. /\ Existing' = Existing
        /\ live' = live /\ destroyed' = destroyed
        /\ DOMAIN attached' \subseteq DOMAIN attached
        /\ \A p \in DOMAIN attached' : attached'[p] = attached[p]
    BY DEF Disks!Detach, Existing
  <1> QED
    BY <1>1 DEF IInv, DiskInv, NamesDistinct

\* What leaves the controller alone keeps its invariant.
LEMMA IdleInv ==
  ASSUME IInv, UNCHANGED <<diskVars, name>>
  PROVE  DiskInv' /\ Existing' = Existing /\ destroyed' = destroyed
  BY DEF IInv, DiskInv, NamesDistinct, Existing, diskVars

-----------------------------------------------------------------------------
(* The invariant is inductive *)

\* An empty table is coherent.
LEMMA EmptyCoherent ==
  ASSUME NEW alive, NEW gone, NEW names, NoId \notin alive
  PROVE  Coherent([i \in 1 .. MaxSlots |-> NoSlot], alive, gone, names)
  BY DEF Coherent, NoSlot

LEMMA InitInv == Init => IInv
  <1> SUFFICES ASSUME Init PROVE IInv
    OBVIOUS
  <1>1. /\ Existing = {} /\ destroyed = {} /\ DOMAIN attached = {}
        /\ live \in [Existing -> Modes]
        /\ name \in [Existing -> DiskNames \cup {NoName}]
    BY DEF Init, Disks!Init, Existing
  <1>2. DiskInv
    BY <1>1 DEF DiskInv, NamesDistinct
  <1>3. Coherent(slots, Existing, destroyed, name)
    BY <1>1, EmptyCoherent DEF Init
  <1> QED
    BY <1>2, <1>3 DEF IInv

LEMMA NextInv == IInv /\ [Next]_vars => IInv'
  <1> SUFFICES ASSUME IInv, [Next]_vars PROVE IInv'
    OBVIOUS
  <1> USE NoneIsNoId
  <1>0. NoId \notin Existing
    BY DEF IInv, DiskInv
  <1>1. ASSUME NEW id \in Ids, NEW n \in DiskNames \cup {NoName},
               NEW mode \in Modes, AllocateNew(id, n, mode)
        PROVE  IInv'
    <2>1. /\ DiskInv' /\ Existing' = Existing \cup {id}
          /\ destroyed' = destroyed /\ name'[id] = n
          /\ Coherent(slots, Existing', destroyed', name')
      BY <1>1, CreateInv DEF AllocateNew
    <2>2. Coherent(Registered(slots, id, name'[id]), Existing', destroyed', name')
      BY <2>1, RegisteredCoherent DEF DiskInv
    <2> QED
      BY <1>1, <2>1, <2>2 DEF AllocateNew, IInv
  <1>2. ASSUME NEW id \in Ids, NEW n \in DiskNames \cup {NoName},
               NEW mode \in Modes, ResourceAlloc(id, n, mode)
        PROVE  IInv'
    BY <1>2, CreateInv DEF ResourceAlloc, IInv
  <1>3. ASSUME NEW id \in Ids, NEW n \in DiskNames \cup {NoName},
               AllocateUndone(id, n)
        PROVE  IInv'
    <2>1. id \notin Existing
      <3>1. id \in Nat /\ ~(id < id)
        BY ApiAssumption
      <3> QED
        BY <1>3, <3>1 DEF AllocateUndone, Fresh
    <2>2. /\ Existing' = Existing /\ destroyed' = destroyed \cup {id}
          /\ UNCHANGED <<live, attached, name, slots>>
      BY <1>3 DEF AllocateUndone, Existing
    <2>3. DiskInv'
      BY <2>1, <2>2 DEF IInv, DiskInv, NamesDistinct
    <2>4. Coherent(slots, Existing', destroyed', name')
      BY <2>2, CoherentCarries DEF IInv
    <2> QED
      BY <2>2, <2>3, <2>4 DEF IInv
  <1>4. ASSUME NEW id \in Existing, AllocateAgain(id) \/ ResultGet(id)
        PROVE  IInv'
    <2>1. DiskInv' /\ Existing' = Existing /\ destroyed' = destroyed
      BY <1>4, IdleInv DEF AllocateAgain, ResultGet
    <2>2. Coherent(Registered(slots, id, name[id]), Existing, destroyed, name)
      BY RegisteredCoherent DEF IInv, DiskInv
    <2> QED
      BY <1>4, <2>1, <2>2 DEF AllocateAgain, ResultGet, IInv
  <1>5. ASSUME NEW id \in Existing, ResourceRelease(id)
        PROVE  IInv'
    BY <1>5, DestroyInv DEF ResourceRelease, IInv
  <1>6. ASSUME NEW path \in Path, Free(path)
        PROVE  IInv'
    <2> DEFINE id == Resolve(path)
               after == Forgotten(SlotsAfter(path), id)
    <2>1. id \in Existing
      BY <1>6, ResolveFindsLive DEF Free
    <2>2. Coherent(after, Existing, destroyed, name)
      BY <1>0, LookUpCoherent, ForgottenCoherent
    <2>3. Disks!Destroy(id) /\ Unnamed(id) /\ slots' = after
      BY <1>6 DEF Free
    <2> HIDE DEF id, after
    <2> QED
      BY <2>1, <2>2, <2>3, DestroyInv DEF IInv
  <1>7. ASSUME NEW path \in Path, Mount(path)
        PROVE  IInv'
    <2> DEFINE id == Resolve(path)
               after == Registered(SlotsAfter(path), id, name[id])
    <2>1. Disks!Attach(id, path) /\ slots' = after /\ UNCHANGED name
      BY <1>7 DEF Mount
    <2>2. /\ DiskInv' /\ id \in Existing
          /\ Existing' = Existing /\ destroyed' = destroyed
      BY <2>1, AttachInv
    <2>3. Coherent(after, Existing, destroyed, name)
      BY <2>2, LookUpCoherent, RegisteredCoherent DEF IInv, DiskInv
    <2> HIDE DEF id, after
    <2> QED
      BY <2>1, <2>2, <2>3 DEF IInv
  <1>8. ASSUME NEW path \in Path, LookedUp(path)
        PROVE  IInv'
    BY <1>8, IdleInv, LookUpCoherent DEF LookedUp, IInv
  <1>9. ASSUME NEW path \in Path, Unmount(path)
        PROVE  IInv'
    BY <1>9, DetachInv DEF Unmount, IInv
  <1>10. ASSUME NEW path \in Path, NEW id \in Existing, ResourceMount(id, path)
         PROVE  IInv'
    BY <1>10, AttachInv DEF ResourceMount, IInv
  <1>11. ASSUME Fini
         PROVE  IInv'
    BY <1>0, <1>11, IdleInv, EmptyCoherent DEF Fini, IInv
  <1>12. ASSUME UNCHANGED vars
         PROVE  IInv'
    BY <1>12, IdleInv DEF vars, IInv
  <1> QED
    BY <1>1, <1>2, <1>3, <1>4, <1>5, <1>6, <1>7, <1>8, <1>9, <1>10, <1>11, <1>12
    DEF Next

LEMMA InvHolds == Spec => []IInv
  BY InitInv, NextInv, PTL DEF Spec

-----------------------------------------------------------------------------
(* Theorems *)

\* Every variable keeps its type.
THEOREM ApiTypeCorrect == Spec => []TypeOK
  <1>1. IInv => TypeOK
    BY DEF IInv, DiskInv, Coherent, TypeOK
  <1> QED
    BY InvHolds, <1>1, PTL

\* Whatever calls go past the cache, a request has one slot in it and the slot
\* of a living disk has its path (register_request_path_with_name).
THEOREM CacheStaysCoherent == Spec => []CacheCoherent
  <1>1. IInv => CacheCoherent
    BY DEF IInv, Coherent, CacheCoherent
  <1> QED
    BY InvHolds, <1>1, PTL

\* Two living disks have the same path only if they are the same, when no disk
\* is named like an unnamed one.
LEMMA PathsDistinct ==
  ASSUME DiskNames \cap Ids = {}, IInv, NEW x \in Existing, NEW y \in Existing,
         DefaultPath(x, name[x]) = DefaultPath(y, name[y])
  PROVE  x = y
  <1>1. /\ x \in Ids /\ y \in Ids
        /\ name[x] \in DiskNames \cup {NoName}
        /\ name[y] \in DiskNames \cup {NoName}
    BY DEF IInv, DiskInv
  <1>2. CASE name[x] = NoName
    BY <1>1, <1>2 DEF DefaultPath
  <1>3. CASE name[x] # NoName
    <2>1. name[y] = name[x]
      BY <1>1, <1>3 DEF DefaultPath
    <2> QED
      BY <1>3, <2>1 DEF IInv, DiskInv, NamesDistinct
  <1> QED
    BY <1>2, <1>3

\* If no disk is named ssuN, the path a disk was given finds it for as long as
\* it exists, unless a device took the path, and no path finds another disk
\* than that of its number or name (request_id_from_device_path).
THEOREM PathsFindDisks ==
  ASSUME DiskNames \cap Ids = {}
  PROVE  Spec => []PathFindsDisk
  <1>1. ASSUME IInv, NEW path \in Path, path \notin DOMAIN attached, CacheHit(path)
        PROVE  /\ Resolve(path) \in Existing
               /\ path = DefaultPath(Resolve(path), name[Resolve(path)])
    <2> DEFINE k == Min(SlotsAt(path))
    <2>1. SlotsAt(path) \in SUBSET Nat /\ SlotsAt(path) # {}
      BY <1>1 DEF SlotsAt, CacheHit, IInv, Coherent
    <2>2. k \in SlotsAt(path)
      BY <2>1, MinIn
    <2>3. /\ Resolve(path) = slots[k].id /\ slots[k].id \in Existing
      BY <1>1 DEF Resolve, CacheHit
    <2>4. k \in 1 .. MaxSlots /\ slots[k].path = path
      BY <1>1, <2>2 DEF SlotsAt, IInv, Coherent
    <2> HIDE DEF k
    <2> QED
      BY <1>1, <2>3, <2>4 DEF IInv, Coherent
  <1>2. ASSUME IInv, NEW path \in Path, path \notin DOMAIN attached,
               ~CacheHit(path), path \notin Existing, Named(path) # {}
        PROVE  /\ Resolve(path) \in Existing
               /\ name[Resolve(path)] = path
    <2>1. Resolve(path) \in Named(path)
      BY <1>2 DEF Resolve
    <2> QED
      BY <2>1 DEF Named
  <1>3. ASSUME IInv, NEW id \in Existing, DefaultPath(id, name[id]) \notin DOMAIN attached
        PROVE  Resolve(DefaultPath(id, name[id])) = id
    <2> DEFINE path == DefaultPath(id, name[id])
    <2>1. /\ path \in Path /\ id \in Ids
          /\ name[id] \in DiskNames \cup {NoName}
      BY <1>3 DEF DefaultPath, Path, IInv, DiskInv
    <2>2. CASE CacheHit(path)
      <3>1. /\ Resolve(path) \in Existing
            /\ path = DefaultPath(Resolve(path), name[Resolve(path)])
        BY <1>1, <1>3, <2>1, <2>2
      <3> QED
        BY <1>3, <3>1, PathsDistinct
    <2>3. CASE ~CacheHit(path) /\ path \in Existing
      <3>1. path \in Ids
        BY <1>3, <2>3 DEF IInv, DiskInv
      <3>2. path = id
        BY <2>1, <3>1 DEF DefaultPath
      <3> QED
        BY <1>3, <2>3, <3>2 DEF Resolve
    <2>4. CASE ~CacheHit(path) /\ path \notin Existing
      <3>1. name[id] # NoName /\ path = name[id]
        BY <1>3, <2>4 DEF DefaultPath
      <3>2. id \in Named(path)
        BY <1>3, <3>1 DEF Named
      <3>3. Resolve(path) \in Existing /\ name[Resolve(path)] = path
        BY <1>2, <1>3, <2>1, <2>4, <3>2
      <3> QED
        BY <1>3, <3>1, <3>3 DEF IInv, DiskInv, NamesDistinct
    <2> QED
      BY <2>2, <2>3, <2>4
  <1>4. ASSUME IInv, NEW path \in Path \ DOMAIN attached, Resolve(path) # NoId
        PROVE  /\ Resolve(path) \in Existing
               /\ path \in {Resolve(path),
                            DefaultPath(Resolve(path), name[Resolve(path)])}
    <2>1. CASE CacheHit(path)
      BY <1>1, <1>4, <2>1
    <2>2. CASE ~CacheHit(path) /\ path \in Existing
      BY <1>4, <2>2 DEF Resolve
    <2>3. CASE ~CacheHit(path) /\ path \notin Existing
      <3>1. Named(path) # {}
        BY <1>4, <2>3 DEF Resolve
      <3>2. Resolve(path) \in Existing /\ name[Resolve(path)] = path
        BY <1>2, <1>4, <2>3, <3>1
      <3>3. path # NoName
        BY <1>4, ApiAssumption DEF Path, NoName
      <3> QED
        BY <3>2, <3>3 DEF DefaultPath
    <2> QED
      BY <2>1, <2>2, <2>3
  <1>5. IInv => PathFindsDisk
    BY <1>3, <1>4 DEF PathFindsDisk
  <1> QED
    BY InvHolds, <1>5, PTL

=============================================================================
