--------------------------- MODULE NodeStack_proofs ---------------------------
(* Proofs about NodeStack: for any number of SSUs, namespaces, ids and      *)
(* starts of the manager, the tables of the controller and of the plugin    *)
(* agree with each other and with what is at the target, at the host and in *)
(* ReqShim.                                                                 *)
EXTENDS NodeStack, ProofFacts, FiniteSetTheorems

-----------------------------------------------------------------------------
(* The inductive invariant *)

RowStates == [id : Nat, ssu : Ssus, off : Nat, ns : NsIds, dev : DevNames]
Extents == [ssu : Ssus, off : Nat, ns : NsIds]
TargetStates == [disk : [life : 1 .. life, id : Nat], off : Nat, on : BOOLEAN]

\* The types of the plugin's tables and of what they stand for.
PluginTyped ==
  /\ DOMAIN rows \subseteq Slots
  /\ \A i \in DOMAIN rows : rows[i] \in RowStates
  /\ DOMAIN mounts \subseteq Paths /\ Cardinality(DOMAIN mounts) <= MaxMounts
  /\ DOMAIN target \subseteq NsIds
  /\ \A n \in DOMAIN target : target[n] \in TargetStates
  /\ DOMAIN node \subseteq DevNames
  /\ \A d \in DOMAIN node : node[d] \in DOMAIN target
  /\ DOMAIN minors \subseteq Minors
  /\ \A m \in DOMAIN minors : minors[m].disk.life \in 1 .. life

\* The offsets of a set of extents have a bound.
Bounded(exts) == \E k \in Nat : \A e \in exts : e.off < k

\* The types of the controller's variables.
CtlTyped ==
  /\ life \in Nat \ {0} /\ nextId \in Nat /\ halfGone \in BOOLEAN
  /\ DOMAIN allocs \subseteq 0 .. nextId - 1
  /\ \A id \in DOMAIN allocs : allocs[id] \subseteq Extents /\ allocs[id] # {}
  /\ call \in [op : {"none", "alloc", "rollback", "release"}, id : Nat,
               todo : SUBSET Ssus, made : SUBSET Extents]
  /\ IsFiniteSet(call.made) /\ Bounded(call.made)

\* What the plugin has of a disk.
DiskExtents(id) == {ExtentOf(r) : r \in RowsOf(id)}

\* The call under way has just the extents it made, and the id to be issued
\* next has nothing, unless a rollback left something: as far as namespace
\* ids are beyond doubt.
CallSound ==
  /\ call.op = "none" => call = Idle
  /\ call.op \in {"alloc", "rollback"} =>
       /\ call.id = nextId /\ Sure(call.made) \subseteq DiskExtents(nextId)
       /\ nextId \notin residue => Sure(DiskExtents(nextId)) \subseteq call.made
  /\ call.op \in {"none", "release"} =>
       call.made = {} /\ (nextId \notin residue => Sure(DiskExtents(nextId)) = {})
  /\ call.op = "alloc" => call.todo # {} \/ call.made # {}
  /\ call.op = "rollback" => call.made # {}
  /\ call.op = "release" => call.id \in DOMAIN allocs /\ ~HasLogdev(call.id)

\* What the call under way made is there, in doubt or not.
MadeStands ==
  /\ \A e \in call.made : e.ns \in DOMAIN target /\ target[e.ns].disk = Disk(nextId)
  /\ \A e, f \in call.made : e.ns = f.ns => e = f

\* An id is in doubt after a deletion that stopped only.
DoubtTyped ==
  /\ vanished \subseteq [id : Nat, ns : NsIds]
  /\ ~halfGone => vanished = {}

\* No row has a namespace that was given up, unless it is in doubt.
LeakedApart ==
  /\ leaked \subseteq DOMAIN target
  /\ \A i \in DOMAIN rows : rows[i].ns \in leaked => InDoubt(rows[i].ns)

\* A namespace has one node.
NodesApart == \A d, e \in DOMAIN node : node[d] = node[e] => d = e

\* Logical devices are of disks, and ReqShim devices made since the manager
\* was started are of logical devices.
LogdevsOfDisks == \A p \in DOMAIN logdevs : logdevs[p].id \in DOMAIN allocs
MinorsOfDisks ==
  \A m \in DOMAIN minors :
    minors[m].disk.life = life => minors[m].disk = Disk(m) /\ HasLogdev(m)

\* Every node appeared while its create_ns waited, and no deletion stopped.
Good == ~halfGone /\ \A n \in leaked : ~target[n].on

\* Then every row has the node of its namespace, and the entries of ReqShim
\* lead to the namespaces of their disks.
RowsOn == ~halfGone => \A i \in DOMAIN rows : target[rows[i].ns].on
NodesServe ==
  Good =>
    /\ Hidden = {}
    /\ \A i \in DOMAIN rows :
         rows[i].dev \in DOMAIN node /\ node[rows[i].dev] = rows[i].ns
MapsServed ==
  Good =>
    \A m \in DOMAIN minors : \A e \in minors[m].maps :
      /\ e.dev \in DOMAIN node
      /\ target[node[e.dev]].disk = minors[m].disk
      /\ target[node[e.dev]].off = e.off

PluginInv ==
  /\ PluginTyped /\ DoubtTyped /\ RowsOwnNamespaces /\ LeakedApart /\ NodesApart
  /\ RowsOn /\ NodesServe /\ MapsServed
CtlInv ==
  /\ CtlTyped /\ CallSound /\ MadeStands /\ TablesAgree /\ NoneLost
  /\ LogdevsOfDisks /\ MinorsOfDisks /\ AttachedIsServed

IInv == PluginInv /\ CtlInv

-----------------------------------------------------------------------------
(* Tables, extents and nodes *)

LEMMA WithFacts ==
  ASSUME NEW f, NEW x, NEW v
  PROVE  /\ DOMAIN With(f, x, v) = DOMAIN f \cup {x} /\ With(f, x, v)[x] = v
         /\ \A y \in DOMAIN f \ {x} : With(f, x, v)[y] = f[y]
  BY DEF With

LEMMA WithoutFacts ==
  ASSUME NEW f, NEW x
  PROVE  /\ DOMAIN Without(f, x) = DOMAIN f \ {x}
         /\ \A y \in DOMAIN f \ {x} : Without(f, x)[y] = f[y]
  BY DEF Without, Restrict

LEMMA SetsFacts ==
  /\ Ssus \subseteq Nat /\ NsIds \subseteq Nat /\ DevNames \subseteq Nat
  /\ Slots \subseteq Nat /\ Paths \subseteq Nat
  /\ IsFiniteSet(NsIds) /\ IsFiniteSet(DevNames) /\ IsFiniteSet(Paths)
  <1>1. Ssus \subseteq Nat /\ NsIds \subseteq Nat /\ DevNames \subseteq Nat
        /\ Paths \subseteq Nat /\ Slots \subseteq Nat
    BY SetsAssumption DEF Slots
  <1>2. IsFiniteSet(NsIds) /\ IsFiniteSet(DevNames) /\ IsFiniteSet(Paths)
    BY SetsAssumption, FS_Subset
  <1> QED
    BY <1>1, <1>2

\* The extents of a disk, row by row.
LEMMA ExtentsByRow ==
  ASSUME NEW id
  PROVE  /\ \A e : e \in DiskExtents(id) <=>
              \E i \in DOMAIN rows : rows[i].id = id /\ e = ExtentOf(rows[i])
         /\ DiskExtents(id) = {} <=> RowsOf(id) = {}
         /\ RowsOf(id) = {} <=> \A i \in DOMAIN rows : rows[i].id # id
  BY DEF DiskExtents, RowsOf

\* The row of an extent of a disk, and, beyond doubt, its namespace.
LEMMA RowOfExtent ==
  ASSUME PluginTyped, RowsOwnNamespaces, NEW id, NEW e \in DiskExtents(id),
         ~InDoubt(e.ns)
  PROVE  \E i \in DOMAIN rows :
           /\ rows[i].id = id /\ rows[i].ssu = e.ssu /\ rows[i].off = e.off
           /\ rows[i].ns = e.ns /\ e = ExtentOf(rows[i])
           /\ e.ns \in DOMAIN target /\ target[e.ns].disk = Disk(id)
           /\ \A j \in DOMAIN rows : rows[j].ns = e.ns => i = j
  <1>1. PICK i \in DOMAIN rows : rows[i].id = id /\ e = ExtentOf(rows[i])
    BY ExtentsByRow
  <1>2. e.ssu = rows[i].ssu /\ e.off = rows[i].off /\ e.ns = rows[i].ns
    BY <1>1 DEF ExtentOf
  <1> QED
    BY <1>1, <1>2 DEF RowsOwnNamespaces

\* What is held does not come out of doubt, and nothing gets into it, when
\* the doubts are settled.
LEMMA SettleKeeps ==
  ASSUME Settle
  PROVE  /\ \A n : InDoubt(n)' => InDoubt(n)
         /\ \A i \in DOMAIN rows' : InDoubt(rows[i].ns)' <=> InDoubt(rows'[i].ns)
         /\ \A e \in call'.made \cup UNION Range(allocs') : InDoubt(e.ns)' <=> InDoubt(e.ns)
  <1>1. \A n : InDoubt(n)' <=> n \in Held' /\ InDoubt(n)
    BY DEF Settle, InDoubt
  <1> QED
    BY <1>1 DEF Held

\* Before a deletion has stopped, nothing is in doubt, and every row has a
\* namespace of its own.
LEMMA WholeIsSure ==
  ASSUME PluginInv, ~halfGone
  PROVE  /\ \A n : ~InDoubt(n)
         /\ \A i \in DOMAIN rows :
              /\ rows[i].ns \in DOMAIN target /\ rows[i].ns \notin leaked
              /\ \A j \in DOMAIN rows : rows[j].ns = rows[i].ns => i = j
  <1>1. \A n : ~InDoubt(n)
    BY DEF PluginInv, DoubtTyped, InDoubt
  <1> QED
    BY <1>1 DEF PluginInv, RowsOwnNamespaces, LeakedApart

\* The extent whose offset is least, and the one whose offset is greatest.
LEMMA FirstIn ==
  ASSUME NEW exts \in SUBSET Extents, exts # {}
  PROVE  FirstOf(exts) \in exts
  <1> DEFINE offs == {e.off : e \in exts}
  <1>1. offs \in SUBSET Nat /\ offs # {}
    BY DEF Extents
  <1>2. Min(offs) \in offs /\ \A y \in offs : Min(offs) <= y
    BY <1>1, MinIn
  <1>3. PICK e \in exts : \A f \in exts : e.off <= f.off
    BY <1>2
  <1> QED
    BY <1>3 DEF FirstOf

LEMMA LastIn ==
  ASSUME NEW exts \in SUBSET Extents, exts # {}, Bounded(exts)
  PROVE  LastOf(exts) \in exts
  <1> DEFINE offs == {e.off : e \in exts}
  <1>1. offs \in SUBSET Nat /\ offs # {}
    BY DEF Extents
  <1>2. PICK k \in Nat : \A x \in offs : x < k
    BY DEF Bounded
  <1>3. PICK x \in offs : \A y \in offs : y <= x
    BY <1>1, <1>2, GreatestOfBounded
  <1>4. PICK e \in exts : \A f \in exts : e.off >= f.off
    BY <1>1, <1>3
  <1> QED
    BY <1>4 DEF LastOf

\* While a namespace has no node, a device name is free.
LEMMA NameLeft ==
  ASSUME PluginTyped, NodesApart, NEW n \in NsIds, \A d \in DOMAIN node : node[d] # n
  PROVE  DevNames \ DOMAIN node # {}
  <1> SUFFICES ASSUME DevNames \subseteq DOMAIN node PROVE FALSE
    OBVIOUS
  <1> DEFINE others == NsIds \ {n}
             f == [d \in DevNames |-> node[d]]
  <1>1. /\ IsFiniteSet(others) /\ Cardinality(others) = Cardinality(NsIds) - 1
        /\ Cardinality(NsIds) \in Nat /\ Cardinality(DevNames) \in Nat
    BY SetsFacts, FS_RemoveElement, FS_CardinalityType
  <1>2. Cardinality(others) < Cardinality(DevNames)
    BY <1>1, SetsAssumption
  <1>3. f \in [DevNames -> others]
    BY DEF PluginTyped
  <1> HIDE DEF f, others
  <1>4. \E d, e \in DevNames : d # e /\ f[d] = f[e]
    BY <1>1, <1>2, <1>3, SetsFacts, FS_PigeonHole
  <1> QED
    BY <1>4 DEF NodesApart, f
-----------------------------------------------------------------------------
(* What create_ns and delete_ns keep of the plugin's invariant *)

\* A namespace whose row is not made, since it is given up.
LEMMA GiveUpKeeps ==
  ASSUME PluginInv, NEW n \in NsIds \ DOMAIN target,
         DOMAIN target' = DOMAIN target \cup {n}, target'[n] \in TargetStates,
         \A k \in DOMAIN target : target'[k] = target[k],
         leaked' = leaked \cup {n},
         UNCHANGED <<rows, mounts, node, minors, life, halfGone, vanished>>
  PROVE  PluginInv'
  <1>1. target'[n].on \in BOOLEAN
    BY DEF TargetStates
  <1>2. /\ \A i \in DOMAIN rows : InDoubt(rows[i].ns) \/ rows[i].ns \in DOMAIN target
        /\ \A d \in DOMAIN node : node[d] \in DOMAIN target
        /\ leaked \subseteq DOMAIN target /\ \A k : InDoubt(k)' <=> InDoubt(k)
    BY DEF PluginInv, RowsOwnNamespaces, PluginTyped, LeakedApart, InDoubt
  <1>3. PluginTyped' /\ DoubtTyped'
    BY DEF PluginInv, PluginTyped, TargetStates, DoubtTyped
  <1>4. RowsOwnNamespaces'
    BY <1>2 DEF PluginInv, RowsOwnNamespaces, Disk
  <1>5. LeakedApart' /\ NodesApart' /\ RowsOn'
    <2>1. RowsOn'
      BY WholeIsSure DEF PluginInv, RowsOn
    <2> QED
      BY <1>2, <2>1 DEF PluginInv, LeakedApart, NodesApart
  <1>6. Good' => Good /\ ~target'[n].on
    BY <1>2 DEF Good
  <1>7. ~target'[n].on => Hidden' = Hidden
    BY DEF Hidden, Range
  <1>8. NodesServe' /\ MapsServed'
    BY <1>2, <1>6, <1>7 DEF PluginInv, NodesServe, MapsServed
  <1> QED
    BY <1>3, <1>4, <1>5, <1>8 DEF PluginInv

\* What create_ns does when it succeeds.
LEMMA CreateBindsDoes ==
  ASSUME PluginInv, NEW id \in Nat, NEW s \in Ssus, NEW off \in Nat, NEW m,
         CreateBinds(Disk(id), s, off, m)
  PROVE  \E i \in Slots \ DOMAIN rows, n \in NsIds \ DOMAIN target,
            d \in DevNames \ DOMAIN node :
           /\ m \in Hidden \cup {n} /\ \A c \in DOMAIN node : node[c] # m
           /\ rows' = With(rows, i, [id |-> id, ssu |-> s, off |-> off, ns |-> n,
                                     dev |-> d])
           /\ target' = With(target, n, [disk |-> Disk(id), off |-> off, on |-> TRUE])
           /\ node' = With(node, d, m)
           /\ UNCHANGED <<mounts, minors, leaked>>
  <1> DEFINE i == Min(Slots \ DOMAIN rows)
             n == NextNsid
             d == Min(DevNames \ DOMAIN node)
  <1>1. i \in Slots \ DOMAIN rows
    BY SetsFacts, MinIn DEF CreateBinds, CanMake, CreateChecks
  <1>2. n \in NsIds \ DOMAIN target
    BY SetsFacts, MinIn DEF CreateBinds, CanMake, NextNsid
  <1>3. m \in Hidden \cup {n}
    BY DEF CreateBinds
  <1>4. m \in NsIds /\ \A c \in DOMAIN node : node[c] # m
    BY <1>2, <1>3 DEF PluginInv, PluginTyped, Hidden, Range
  <1>5. d \in DevNames \ DOMAIN node
    <2>1. DevNames \ DOMAIN node # {}
      BY <1>4, NameLeft DEF PluginInv
    <2> QED
      BY <2>1, SetsFacts, MinIn
  <1> QED
    BY <1>1, <1>2, <1>3, <1>4, <1>5 DEF CreateBinds, Created, Attach, Disk

LEMMA CreateBindsKeeps ==
  ASSUME PluginInv, life \in Nat \ {0}, NEW id \in Nat, NEW s \in Ssus,
         NEW off \in Nat, NEW i \in Slots \ DOMAIN rows,
         NEW n \in NsIds \ DOMAIN target, NEW d \in DevNames \ DOMAIN node,
         NEW m \in Hidden \cup {n}, \A c \in DOMAIN node : node[c] # m,
         rows' = With(rows, i, [id |-> id, ssu |-> s, off |-> off, ns |-> n,
                                dev |-> d]),
         target' = With(target, n, [disk |-> Disk(id), off |-> off, on |-> TRUE]),
         node' = With(node, d, m),
         UNCHANGED <<mounts, minors, leaked, life, halfGone, vanished>>
  PROVE  PluginInv'
  <1> DEFINE row == [id |-> id, ssu |-> s, off |-> off, ns |-> n, dev |-> d]
             new == [disk |-> Disk(id), off |-> off, on |-> TRUE]
  <1>1. /\ DOMAIN target' = DOMAIN target \cup {n} /\ target'[n] = new
        /\ \A k \in DOMAIN target : target'[k] = target[k]
    BY DEF With
  <1>2. /\ DOMAIN rows' = DOMAIN rows \cup {i} /\ rows'[i] = row
        /\ \A k \in DOMAIN rows : rows'[k] = rows[k]
    BY DEF With
  <1>3. /\ DOMAIN node' = DOMAIN node \cup {d} /\ node'[d] = m
        /\ \A k \in DOMAIN node : node'[k] = node[k]
    BY DEF With
  <1>4. /\ new \in TargetStates /\ new.on /\ new.disk = Disk(id) /\ new.off = off
        /\ row \in RowStates
    BY DEF TargetStates, Disk, RowStates
  <1>5. row.ns = n /\ row.id = id /\ row.off = off /\ row.dev = d
    OBVIOUS
  <1>6. /\ \A k \in DOMAIN rows : InDoubt(rows[k].ns) \/ rows[k].ns \in DOMAIN target
        /\ \A k \in DOMAIN node : node[k] \in DOMAIN target
        /\ leaked \subseteq DOMAIN target
        /\ m \in DOMAIN target' /\ \A k : InDoubt(k)' <=> InDoubt(k)
    BY <1>1 DEF PluginInv, RowsOwnNamespaces, PluginTyped, LeakedApart, Hidden, InDoubt
  <1> HIDE DEF new, row
  <1>7. PluginTyped' /\ DoubtTyped'
    <2>1. /\ DOMAIN rows' \subseteq Slots
          /\ \A k \in DOMAIN rows' : rows'[k] \in RowStates
      BY <1>2, <1>4 DEF PluginInv, PluginTyped
    <2>2. /\ DOMAIN target' \subseteq NsIds
          /\ \A k \in DOMAIN target' : target'[k] \in TargetStates'
      BY <1>1, <1>4 DEF PluginInv, PluginTyped, TargetStates
    <2>3. /\ DOMAIN node' \subseteq DevNames
          /\ \A k \in DOMAIN node' : node'[k] \in DOMAIN target'
      BY <1>1, <1>3, <1>6 DEF PluginInv, PluginTyped
    <2> QED
      BY <2>1, <2>2, <2>3 DEF PluginInv, PluginTyped, RowStates, DoubtTyped
  <1>8. RowsOwnNamespaces'
    <2> SUFFICES ASSUME NEW k \in DOMAIN rows', ~InDoubt(rows'[k].ns)
                 PROVE  /\ rows'[k].ns \in DOMAIN target'
                        /\ target'[rows'[k].ns].disk = Disk(rows'[k].id)
                        /\ target'[rows'[k].ns].off = rows'[k].off
                        /\ \A j \in DOMAIN rows' : rows'[j].ns = rows'[k].ns => k = j
      BY <1>6 DEF RowsOwnNamespaces, Disk
    <2>1. CASE k = i
      BY <1>1, <1>2, <1>4, <1>5, <1>6, <2>1
    <2>2. CASE k # i
      <3>1. k \in DOMAIN rows /\ rows'[k] = rows[k] /\ rows[k].ns # n
        BY <1>2, <1>6, <2>2
      <3>2. /\ target'[rows[k].ns].disk = Disk(rows[k].id)
            /\ target'[rows[k].ns].off = rows[k].off
        BY <1>1, <1>6, <3>1 DEF PluginInv, RowsOwnNamespaces
      <3>3. \A j \in DOMAIN rows' : rows'[j].ns = rows[k].ns => k = j
        BY <1>2, <1>5, <3>1 DEF PluginInv, RowsOwnNamespaces
      <3> QED
        BY <1>1, <1>6, <3>1, <3>2, <3>3
    <2> QED
      BY <2>1, <2>2
  <1>9. LeakedApart'
    BY <1>1, <1>2, <1>5, <1>6 DEF PluginInv, LeakedApart
  <1>10. NodesApart'
    BY <1>3 DEF PluginInv, NodesApart
  <1>11. RowsOn'
    <2> SUFFICES ASSUME ~halfGone, NEW k \in DOMAIN rows'
                 PROVE  target'[rows'[k].ns].on
      BY DEF RowsOn
    <2>1. CASE k = i
      BY <1>1, <1>2, <1>4, <1>5, <2>1
    <2>2. CASE k # i
      <3>1. k \in DOMAIN rows /\ rows'[k] = rows[k]
        BY <1>2, <2>2
      <3>2. rows[k].ns \in DOMAIN target
        BY <3>1, WholeIsSure
      <3>3. target[rows[k].ns].on
        BY <3>1 DEF PluginInv, RowsOn
      <3> QED
        BY <1>1, <3>1, <3>2, <3>3
    <2> QED
      BY <2>1, <2>2
  <1>12. Good' => Good
    BY <1>1, <1>6 DEF Good
  <1>13. NodesServe'
    <2> SUFFICES ASSUME Good
                 PROVE  /\ Hidden' = {}
                        /\ \A k \in DOMAIN rows' : rows'[k].dev \in DOMAIN node' /\
                                                   node'[rows'[k].dev] = rows'[k].ns
      BY <1>12 DEF NodesServe
    <2>1. Hidden = {} /\ m = n
      BY DEF PluginInv, NodesServe
    <2>2. \A k \in DOMAIN target : target[k].on => \E c \in DOMAIN node : node[c] = k
      BY <2>1 DEF Hidden, Range
    <2>3. ASSUME NEW k \in DOMAIN target', target'[k].on
          PROVE  \E c \in DOMAIN node' : node'[c] = k
      <3>1. CASE k = n
        BY <1>3, <2>1, <3>1
      <3>2. CASE k # n
        <4>1. PICK c \in DOMAIN node : node[c] = k
          BY <1>1, <2>2, <2>3, <3>2
        <4> QED
          BY <1>3, <4>1
      <3> QED
        BY <3>1, <3>2
    <2>4. Hidden' = {}
      <3> SUFFICES ASSUME NEW k \in Hidden' PROVE FALSE
        OBVIOUS
      <3>1. /\ k \in DOMAIN target' /\ target'[k].on
            /\ \A c \in DOMAIN node' : node'[c] # k
        BY DEF Hidden, Range
      <3> QED
        BY <2>3, <3>1
    <2> QED
      BY <1>2, <1>3, <1>5, <2>1, <2>4 DEF PluginInv, NodesServe
  <1>14. MapsServed'
    <2> SUFFICES ASSUME Good, NEW k \in DOMAIN minors, NEW x \in minors[k].maps
                 PROVE  /\ x.dev \in DOMAIN node'
                        /\ target'[node'[x.dev]].disk = minors[k].disk
                        /\ target'[node'[x.dev]].off = x.off
      BY <1>12 DEF MapsServed
    <2>1. /\ x.dev \in DOMAIN node /\ target[node[x.dev]].disk = minors[k].disk
          /\ target[node[x.dev]].off = x.off /\ node[x.dev] \in DOMAIN target
      BY <1>6 DEF PluginInv, MapsServed
    <2> QED
      BY <1>1, <1>3, <2>1
  <1> QED
    BY <1>7, <1>8, <1>9, <1>10, <1>11, <1>13, <1>14 DEF PluginInv

\* What delete_ns does when it succeeds.
LEMMA DeleteWorksDoes ==
  ASSUME PluginTyped, NEW s, NEW n, DeleteWorks(s, n)
  PROVE  \E i \in DOMAIN rows :
           /\ rows[i].ssu = s /\ rows[i].ns = n
           /\ rows' = Without(rows, i) /\ RemoveNamespace(n) /\ UNCHANGED mounts
  <1> DEFINE i == Min(SlotsOf(s, n))
  <1>1. SlotsOf(s, n) \subseteq DOMAIN rows /\ SlotsOf(s, n) # {}
    BY DEF DeleteWorks, SlotsOf, SlotsAt
  <1>2. i \in SlotsOf(s, n)
    <2>1. SlotsOf(s, n) \in SUBSET Nat
      BY <1>1, SetsFacts DEF PluginTyped
    <2> QED
      BY <1>1, <2>1, MinIn
  <1> QED
    BY <1>1, <1>2 DEF DeleteWorks, SlotsOf, SlotsAt

LEMMA NodesWithoutFacts ==
  ASSUME NEW n
  PROVE  /\ DOMAIN NodesWithout(n) = {d \in DOMAIN node : node[d] # n}
         /\ \A d \in DOMAIN NodesWithout(n) : NodesWithout(n)[d] = node[d]
  BY DEF NodesWithout, Restrict

LEMMA DeleteWorksKeeps ==
  ASSUME PluginInv, NEW i \in DOMAIN rows, NEW n, rows[i].ns = n,
         ~halfGone => \A m \in DOMAIN minors : minors[m].disk # target[n].disk,
         rows' = Without(rows, i), RemoveNamespace(n), Settle,
         UNCHANGED <<mounts, life, halfGone>>
  PROVE  PluginInv'
  <1>0. UNCHANGED <<mounts, minors, life, halfGone>> /\ leaked' = leaked \ {n}
    BY DEF RemoveNamespace
  <1>1. /\ DOMAIN target' = DOMAIN target \ {n}
        /\ \A k \in DOMAIN target' : target'[k] = target[k]
    BY DEF RemoveNamespace, Without, Restrict
  <1>2. /\ DOMAIN rows' = DOMAIN rows \ {i}
        /\ \A k \in DOMAIN rows' : rows'[k] = rows[k]
    BY DEF Without, Restrict
  <1>3. /\ DOMAIN node' = {d \in DOMAIN node : node[d] # n}
        /\ \A d \in DOMAIN node' : node'[d] = node[d]
    BY DEF RemoveNamespace, NodesWithout, Restrict
  <1>4. \A k \in DOMAIN rows' :
          /\ InDoubt(rows[k].ns)' <=> InDoubt(rows[k].ns)
          /\ ~InDoubt(rows[k].ns) => rows[k].ns # n
    <2>1. ASSUME NEW k \in DOMAIN rows'
          PROVE  InDoubt(rows[k].ns)' <=> InDoubt(rows[k].ns)
      BY <1>2, SettleKeeps
    <2> QED
      BY <1>2, <2>1 DEF PluginInv, RowsOwnNamespaces
  <1>5. PluginTyped' /\ DoubtTyped'
    <2>1. PluginTyped'
      BY <1>0, <1>1, <1>2, <1>3 DEF PluginInv, PluginTyped, TargetStates
    <2> QED
      BY <1>0, <2>1 DEF PluginInv, DoubtTyped, Settle
  <1>6. RowsOwnNamespaces'
    BY <1>0, <1>1, <1>2, <1>4 DEF PluginInv, RowsOwnNamespaces, Disk
  <1>7. LeakedApart' /\ NodesApart' /\ RowsOn'
    <2>1. LeakedApart'
      BY <1>0, <1>1, <1>2, <1>4 DEF PluginInv, LeakedApart
    <2>2. RowsOn'
      BY <1>0, <1>1, <1>2, <1>4, WholeIsSure DEF PluginInv, RowsOn
    <2> QED
      BY <1>3, <2>1, <2>2 DEF PluginInv, NodesApart
  <1>8. Good' => Good
    BY <1>0, <1>1, WholeIsSure DEF Good, PluginInv, LeakedApart
  <1>9. NodesServe'
    <2> SUFFICES ASSUME Good
                 PROVE  /\ Hidden' = {}
                        /\ \A k \in DOMAIN rows' : rows'[k].dev \in DOMAIN node' /\
                                                   node'[rows'[k].dev] = rows'[k].ns
      BY <1>8 DEF NodesServe
    <2>1. Hidden' = {}
      BY <1>1, <1>3 DEF PluginInv, NodesServe, Hidden, Range
    <2>2. \A k \in DOMAIN rows' : rows[k].ns # n
      BY <1>2, <1>4, WholeIsSure DEF Good
    <2> QED
      BY <1>2, <1>3, <2>1, <2>2 DEF PluginInv, NodesServe
  <1>10. MapsServed'
    <2> SUFFICES ASSUME Good, NEW m \in DOMAIN minors, NEW x \in minors[m].maps
                 PROVE  /\ x.dev \in DOMAIN node'
                        /\ target'[node'[x.dev]].disk = minors[m].disk
                        /\ target'[node'[x.dev]].off = x.off
      BY <1>0, <1>8 DEF MapsServed
    <2>1. /\ x.dev \in DOMAIN node /\ target[node[x.dev]].disk = minors[m].disk
          /\ target[node[x.dev]].off = x.off /\ node[x.dev] \in DOMAIN target
      BY DEF PluginInv, MapsServed, PluginTyped
    <2>2. node[x.dev] # n
      BY <2>1 DEF Good
    <2> QED
      BY <1>1, <1>3, <2>1, <2>2
  <1> QED
    BY <1>5, <1>6, <1>7, <1>9, <1>10 DEF PluginInv

\* A deletion that stops half way.
LEMMA DeleteStopsKeeps ==
  ASSUME PluginInv, NEW e, DeleteStopsHalf(e.ssu, e.ns), halfGone',
         UNCHANGED <<life, vanished>>
  PROVE  PluginInv'
  <1>1. /\ DOMAIN target' = DOMAIN target
        /\ \A k \in DOMAIN target : /\ target'[k] \in TargetStates
                                     /\ target'[k].disk = target[k].disk
                                     /\ target'[k].off = target[k].off
    BY DEF DeleteStopsHalf, PluginInv, PluginTyped, TargetStates
  <1>2. /\ DOMAIN node' = {d \in DOMAIN node : node[d] # e.ns}
        /\ \A d \in DOMAIN node' : node'[d] = node[d]
    BY NodesWithoutFacts DEF DeleteStopsHalf
  <1>3. UNCHANGED <<rows, mounts, minors, leaked>>
    BY DEF DeleteStopsHalf, pluginVars
  <1>4. PluginTyped' /\ DoubtTyped'
    BY <1>1, <1>2, <1>3 DEF PluginInv, PluginTyped, TargetStates, DoubtTyped
  <1>5. RowsOwnNamespaces' /\ LeakedApart' /\ NodesApart'
    BY <1>1, <1>2, <1>3
    DEF PluginInv, RowsOwnNamespaces, LeakedApart, NodesApart, Disk, InDoubt
  <1>6. ~Good' /\ RowsOn'
    BY DEF Good, RowsOn
  <1> QED
    BY <1>4, <1>5, <1>6 DEF PluginInv, NodesServe, MapsServed

\* A deletion that stops when the namespace is gone.
LEMMA DeleteStopsLateKeeps ==
  ASSUME PluginInv, NEW e, NEW id \in Nat, DeleteStopsLate(e.ssu, e.ns), halfGone',
         vanished' = vanished \cup {[id |-> id, ns |-> e.ns]}, UNCHANGED life
  PROVE  PluginInv' /\ UNCHANGED <<rows, mounts, minors>>
  <1>1. /\ DOMAIN target' = DOMAIN target \ {e.ns} /\ e.ns \in DOMAIN target
        /\ \A k \in DOMAIN target' : target'[k] = target[k]
        /\ leaked' = leaked \ {e.ns}
    BY DEF DeleteStopsLate, RemoveNamespace, Without, Restrict
  <1>2. /\ DOMAIN node' = {d \in DOMAIN node : node[d] # e.ns}
        /\ \A d \in DOMAIN node' : node'[d] = node[d]
    BY NodesWithoutFacts DEF DeleteStopsLate, RemoveNamespace
  <1>3. UNCHANGED <<rows, mounts, minors>>
    BY DEF DeleteStopsLate, RemoveNamespace, pluginVars
  <1>4. \A n : InDoubt(n)' <=> InDoubt(n) \/ n = e.ns
    <2> DEFINE new == [id |-> id, ns |-> e.ns]
    <2>1. new.ns = e.ns /\ vanished' = vanished \cup {new}
      OBVIOUS
    <2> HIDE DEF new
    <2> QED
      BY <2>1 DEF InDoubt
  <1>5. PluginTyped' /\ DoubtTyped'
    <2>1. PluginTyped'
      BY <1>1, <1>2, <1>3 DEF PluginInv, PluginTyped, TargetStates
    <2> QED
      BY <1>1, <2>1 DEF PluginInv, PluginTyped, DoubtTyped
  <1>6. RowsOwnNamespaces'
    BY <1>1, <1>3, <1>4 DEF PluginInv, RowsOwnNamespaces, Disk
  <1>7. LeakedApart' /\ NodesApart'
    BY <1>1, <1>2, <1>3, <1>4 DEF PluginInv, LeakedApart, NodesApart
  <1>8. ~Good' /\ RowsOn'
    BY DEF Good, RowsOn
  <1> QED
    BY <1>3, <1>5, <1>6, <1>7, <1>8 DEF PluginInv, NodesServe, MapsServed

\* A step that leaves the plugin and what it drives alone.
LEMMA PluginStill ==
  ASSUME PluginInv, UNCHANGED <<lbcVars, life, halfGone, vanished>>
  PROVE  PluginInv'
  BY DEF PluginInv, PluginTyped, TargetStates, DoubtTyped, InDoubt, RowsOwnNamespaces,
         Disk, LeakedApart, NodesApart, RowsOn, Good, NodesServe, Hidden, MapsServed, lbcVars,
         pluginVars, nodeVars

\* What goes from the plugin's table with a row.
LEMMA RowsAfterDelete ==
  ASSUME NEW i \in DOMAIN rows, rows' = Without(rows, i), NEW k
  PROVE  /\ k # rows[i].id => RowsOf(k)' = RowsOf(k) /\ DiskExtents(k)' = DiskExtents(k)
         /\ DiskExtents(k)' \subseteq DiskExtents(k)
         /\ \A f \in DiskExtents(k) : f # ExtentOf(rows[i]) => f \in DiskExtents(k)'
         /\ (\A j \in DOMAIN rows : rows[j].ns = rows[i].ns => i = j) =>
              ExtentOf(rows[i]) \notin DiskExtents(k)'
  <1>1. /\ DOMAIN rows' = DOMAIN rows \ {i}
        /\ \A j \in DOMAIN rows' : rows'[j] = rows[j]
    BY DEF Without, Restrict
  <1>2. \A f : f \in DiskExtents(k)' <=>
           \E j \in DOMAIN rows' : rows'[j].id = k /\ f = ExtentOf(rows'[j])
    BY DEF DiskExtents, RowsOf, ExtentOf
  <1>3. k # rows[i].id => RowsOf(k)' = RowsOf(k)
    BY <1>1 DEF RowsOf
  <1>4. k # rows[i].id => DiskExtents(k)' = DiskExtents(k)
    BY <1>3 DEF DiskExtents, ExtentOf
  <1>5. DiskExtents(k)' \subseteq DiskExtents(k)
    BY <1>1, <1>2, ExtentsByRow
  <1>6. \A f \in DiskExtents(k) : f # ExtentOf(rows[i]) => f \in DiskExtents(k)'
    BY <1>1, <1>2, ExtentsByRow
  <1>7. \A j \in DOMAIN rows : ExtentOf(rows[j]) = ExtentOf(rows[i]) =>
                                 rows[j].ns = rows[i].ns
    BY DEF ExtentOf
  <1>8. (\A j \in DOMAIN rows : rows[j].ns = rows[i].ns => i = j) =>
           ExtentOf(rows[i]) \notin DiskExtents(k)'
    BY <1>1, <1>2, <1>7
  <1> QED
    BY <1>3, <1>4, <1>5, <1>6, <1>8

\* Of the extents beyond doubt, just the one whose deletion was asked for.
LEMMA SureAfterDelete ==
  ASSUME PluginInv, NEW id, NEW e, Sure({e}) \subseteq DiskExtents(id),
         NEW i \in DOMAIN rows, rows[i].ns = e.ns, rows' = Without(rows, i), Settle,
         NEW k, NEW f
  PROVE  f \in DiskExtents(k)' /\ ~InDoubt(f.ns)' <=>
           f \in DiskExtents(k) /\ ~InDoubt(f.ns) /\ (k = id => f # e)
  <1>1. /\ DOMAIN rows' = DOMAIN rows \ {i}
        /\ \A j \in DOMAIN rows' : rows'[j] = rows[j]
    BY DEF Without, Restrict
  <1>2. ASSUME f \in DiskExtents(k)'
        PROVE  InDoubt(f.ns)' <=> InDoubt(f.ns)
    <2>1. PICK j \in DOMAIN rows' : f = ExtentOf(rows'[j])
      BY <1>2 DEF DiskExtents, RowsOf, ExtentOf
    <2>2. f.ns = rows'[j].ns
      BY <2>1 DEF ExtentOf
    <2> QED
      BY <2>2, SettleKeeps
  <1>3. ExtentOf(rows[i]).ns = e.ns
    BY DEF ExtentOf
  <1>4. CASE InDoubt(e.ns)
    <2>1. ASSUME f \in DiskExtents(k), ~InDoubt(f.ns)
          PROVE  f \in DiskExtents(k)' /\ ~InDoubt(f.ns)' /\ f # e
      <3>1. f # e /\ f # ExtentOf(rows[i])
        BY <1>3, <1>4, <2>1
      <3>2. f \in DiskExtents(k)'
        BY <2>1, <3>1, RowsAfterDelete
      <3> QED
        BY <1>2, <2>1, <3>1, <3>2
    <2> QED
      BY <1>2, <2>1, RowsAfterDelete
  <1>5. CASE ~InDoubt(e.ns)
    <2>1. e \in DiskExtents(id)
      BY <1>5 DEF Sure
    <2>2. PICK j \in DOMAIN rows :
            /\ rows[j].id = id /\ e = ExtentOf(rows[j]) /\ rows[j].ns = e.ns
            /\ \A h \in DOMAIN rows : rows[h].ns = e.ns => j = h
      BY <1>5, <2>1, RowOfExtent DEF PluginInv
    <2>3. j = i /\ rows[i].id = id /\ e = ExtentOf(rows[i])
      BY <2>2
    <2>4. e \notin DiskExtents(k)'
      BY <2>2, <2>3, RowsAfterDelete
    <2>5. \A g \in DiskExtents(k) : g # e => g \in DiskExtents(k)'
      BY <2>3, RowsAfterDelete
    <2>6. k # id => DiskExtents(k)' = DiskExtents(k)
      BY <2>3, RowsAfterDelete
    <2> QED
      BY <1>2, <2>4, <2>5, <2>6, RowsAfterDelete
  <1> QED
    BY <1>4, <1>5

\* A deletion leaves the tables in agreement when the controller forgets the
\* extent it was for, if it has it.
LEMMA TablesAfterDelete ==
  ASSUME TablesAgree, NEW id, NEW e,
         NEW i \in DOMAIN rows, rows' = Without(rows, i),
         \A k, f : f \in DiskExtents(k)' /\ ~InDoubt(f.ns)' <=>
                   f \in DiskExtents(k) /\ ~InDoubt(f.ns) /\ (k = id => f # e),
         DOMAIN allocs' \subseteq DOMAIN allocs,
         \A k \in DOMAIN allocs : k # id => k \in DOMAIN allocs' /\ allocs'[k] = allocs[k],
         id \in DOMAIN allocs' => allocs'[id] = allocs[id] \ {e},
         id \in DOMAIN allocs \ DOMAIN allocs' => allocs[id] = {e},
         \A k \in DOMAIN allocs' : \A f \in allocs'[k] : InDoubt(f.ns)' <=> InDoubt(f.ns),
         UNCHANGED <<mounts, logdevs, nextId, residue>>
  PROVE  TablesAgree'
  <1>1. /\ DOMAIN rows' = DOMAIN rows \ {i}
        /\ \A j \in DOMAIN rows' : rows'[j] = rows[j]
    BY DEF Without, Restrict
  <1>2. ASSUME NEW k \in DOMAIN allocs'
        PROVE  /\ \A f \in allocs'[k] : ~InDoubt(f.ns)' => f \in DiskExtents(k)'
               /\ k \notin residue =>
                    \A f \in DiskExtents(k)' : ~InDoubt(f.ns)' => f \in allocs'[k]
    <2>1. \A f : f \in allocs'[k] <=> f \in allocs[k] /\ (k = id => f # e)
      BY <1>2
    <2>2. \A f \in allocs[k] : ~InDoubt(f.ns) => f \in DiskExtents(k)
      BY <1>2 DEF TablesAgree, Sure, DiskExtents
    <2>3. k \notin residue => \A f \in DiskExtents(k) : ~InDoubt(f.ns) => f \in allocs[k]
      BY <1>2 DEF TablesAgree, Sure, DiskExtents
    <2> QED
      BY <1>2, <2>1, <2>2, <2>3
  <1>3. ASSUME NEW j \in DOMAIN rows', rows'[j].id \notin DOMAIN allocs' \cup {nextId} \cup residue
        PROVE  InDoubt(rows[j].ns)'
    <2>1. PICK k, f : k = rows[j].id /\ f = ExtentOf(rows[j])
      OBVIOUS
    <2>2. f.ns = rows[j].ns /\ f \in DiskExtents(k) /\ rows'[j] = rows[j]
      BY <1>1, <2>1, ExtentsByRow DEF ExtentOf
    <2>3. f \in DiskExtents(k)'
      BY <2>1, <2>2 DEF DiskExtents, RowsOf, ExtentOf
    <2>4. InDoubt(f.ns)' <=> InDoubt(rows[j].ns)'
      BY <2>2 DEF InDoubt
    <2> SUFFICES ASSUME ~InDoubt(f.ns)' PROVE FALSE
      BY <2>4
    <2>5. ~InDoubt(f.ns) /\ (k = id => f # e)
      BY <2>3
    <2>6. k = id /\ id \in DOMAIN allocs \ DOMAIN allocs' /\ allocs[id] = {e}
      BY <1>1, <1>3, <2>1, <2>2, <2>5 DEF TablesAgree
    <2>7. f \in allocs[id]
      BY <1>3, <2>1, <2>2, <2>5, <2>6 DEF TablesAgree, Sure, DiskExtents
    <2> QED
      BY <2>5, <2>6, <2>7
  <1>4. mounts' = [p \in DOMAIN logdevs' |-> logdevs'[p].id]
    BY DEF TablesAgree
  <1> QED
    BY <1>2, <1>3, <1>4 DEF TablesAgree, Sure, DiskExtents

\* A disk that is mounted keeps its rows or is one of those a row of which
\* another disk's deletion cleared.
LEMMA DeleteServes ==
  ASSUME AttachedIsServed, NEW e, Delete(e), ~HasLogdev(call.id),
         NEW i \in DOMAIN rows, rows' = Without(rows, i),
         UNCHANGED <<logdevs, minors, life>>
  PROVE  AttachedIsServed'
  <1>1. DOMAIN rows \ DOMAIN rows' = {i}
    BY DEF Without, Restrict
  <1>2. stolen' = stolen \cup {id \in {rows[j].id : j \in {i}} :
                              id # call.id /\ HasLogdev(id)}
    BY <1>1 DEF Delete
  <1> SUFFICES ASSUME NEW p \in DOMAIN logdevs, logdevs[p].id \notin stolen'
               PROVE  LET id == logdevs[p].id
                      IN  /\ id \in DOMAIN minors
                          /\ minors[id] = [path |-> p, disk |-> Disk(id),
                                           maps |-> MapsOf(id)']
    BY DEF AttachedIsServed, Disk, MapsOf, RowsOf
  <1>3. PICK id : id = logdevs[p].id
    OBVIOUS
  <1>4. HasLogdev(id) /\ id # call.id /\ id \notin stolen /\ rows[i].id # id
    BY <1>2, <1>3 DEF HasLogdev
  <1>5. RowsOf(id)' = RowsOf(id)
    BY <1>4, RowsAfterDelete
  <1> QED
    BY <1>3, <1>4, <1>5 DEF AttachedIsServed, MapsOf

\* What a deletion that fails leaves.
LEMMA DeleteStopsDoes ==
  ASSUME PluginInv, NEW e, DeleteStops(e), call.id \in Nat, halfGone \in BOOLEAN,
         UNCHANGED life
  PROVE  /\ PluginInv' /\ halfGone' \in BOOLEAN
         /\ UNCHANGED <<rows, mounts, minors, stolen>>
         /\ DOMAIN target' \subseteq DOMAIN target
         /\ DOMAIN target \ {e.ns} \subseteq DOMAIN target'
         /\ \A n \in DOMAIN target' : /\ target'[n].disk = target[n].disk
                                      /\ n \in leaked => n \in leaked'
         /\ \A n : InDoubt(n) => InDoubt(n)'
  <1>1. UNCHANGED stolen
    BY DEF DeleteStops
  <1>2. CASE DeleteFails /\ UNCHANGED <<halfGone, vanished>>
    <2>1. UNCHANGED <<rows, mounts, minors, target, leaked, lbcVars, halfGone, vanished>>
      BY <1>2 DEF DeleteFails, lbcVars, pluginVars, nodeVars
    <2>2. PluginInv'
      BY <2>1, PluginStill
    <2> QED
      BY <1>1, <2>1, <2>2 DEF InDoubt
  <1>3. CASE DeleteStopsHalf(e.ssu, e.ns) /\ halfGone' = TRUE /\ UNCHANGED vanished
    <2>1. PluginInv'
      BY <1>3, DeleteStopsKeeps
    <2>2. /\ UNCHANGED <<rows, mounts, minors, leaked>> /\ DOMAIN target' = DOMAIN target
          /\ \A n \in DOMAIN target : target'[n].disk = target[n].disk
      BY <1>3 DEF DeleteStopsHalf, pluginVars, PluginInv, PluginTyped, TargetStates
    <2> QED
      BY <1>1, <1>3, <2>1, <2>2 DEF InDoubt
  <1>4. CASE /\ DeleteStopsLate(e.ssu, e.ns) /\ halfGone' = TRUE
             /\ vanished' = vanished \cup {[id |-> call.id, ns |-> e.ns]}
    <2>1. PluginInv' /\ UNCHANGED <<rows, mounts, minors>>
      BY <1>4, DeleteStopsLateKeeps
    <2>2. /\ DOMAIN target' = DOMAIN target \ {e.ns} /\ leaked' = leaked \ {e.ns}
          /\ \A n \in DOMAIN target' : target'[n] = target[n]
      BY <1>4 DEF DeleteStopsLate, RemoveNamespace, Without, Restrict
    <2>3. \A n : InDoubt(n) => InDoubt(n)'
      BY <1>4 DEF InDoubt
    <2> QED
      BY <1>1, <1>4, <2>1, <2>2, <2>3
  <1> QED
    BY <1>2, <1>3, <1>4 DEF DeleteStops

\* Tables that agree go on to when there are more doubts or more rests.
LEMMA DoubtsSpareTables ==
  ASSUME TablesAgree, UNCHANGED <<rows, mounts, allocs, logdevs, nextId>>,
         residue \subseteq residue', \A n : InDoubt(n) => InDoubt(n)'
  PROVE  TablesAgree'
  <1>1. \A id \in DOMAIN allocs : \A x \in allocs[id] :
          ~InDoubt(x.ns)' => x \in {ExtentOf(r) : r \in RowsOf(id)}
    BY DEF TablesAgree, Sure
  <1>2. \A id \in DOMAIN allocs \ residue' : \A x \in {ExtentOf(r) : r \in RowsOf(id)} :
          ~InDoubt(x.ns)' => x \in allocs[id]
    BY DEF TablesAgree, Sure
  <1>3. \A i \in DOMAIN rows : rows[i].id \in DOMAIN allocs \cup {nextId} \cup residue' \/
                               InDoubt(rows[i].ns)'
    BY DEF TablesAgree
  <1>4. mounts' = [p \in DOMAIN logdevs' |-> logdevs'[p].id]
    BY DEF TablesAgree
  <1>5. \A id : {ExtentOf(r) : r \in RowsOf(id)}' = {ExtentOf(r) : r \in RowsOf(id)}
    BY DEF ExtentOf, RowsOf
  <1> QED
    BY <1>1, <1>2, <1>3, <1>4, <1>5 DEF TablesAgree, Sure

\* A device of ReqShim that serves a disk of this manager is a logical
\* device's.
LEMMA NoMinorWithoutLogdev ==
  ASSUME MinorsOfDisks, NEW id, ~HasLogdev(id)
  PROVE  \A m \in DOMAIN minors : minors[m].disk # Disk(id)
  <1> SUFFICES ASSUME NEW m \in DOMAIN minors, minors[m].disk = Disk(id)
               PROVE  FALSE
    OBVIOUS
  <1>1. Disk(id).life = life /\ Disk(id).id = id /\ Disk(m).id = m
    BY DEF Disk
  <1>2. minors[m].disk = Disk(m) /\ HasLogdev(m)
    BY <1>1 DEF MinorsOfDisks
  <1> QED
    BY <1>1, <1>2

-----------------------------------------------------------------------------
(* The actions keep the invariant *)

LEMMA InitHolds == Init => IInv
  <1> SUFFICES ASSUME Init PROVE IInv
    OBVIOUS
  <1> USE DEF Init, LbcInit
  <1>1. PluginTyped
    BY FS_EmptySet, LimitsAssumption DEF PluginTyped
  <1>2. RowsOwnNamespaces /\ LeakedApart /\ NodesApart /\ RowsOn /\ MapsServed
    BY DEF RowsOwnNamespaces, LeakedApart, NodesApart, RowsOn, MapsServed
  <1>3. NodesServe /\ DoubtTyped
    BY DEF NodesServe, Hidden, DoubtTyped
  <1>4. CtlTyped
    <2>1. IsFiniteSet(call.made) /\ Bounded(call.made)
      BY FS_EmptySet DEF Idle, Bounded
    <2>2. call \in [op : {"none", "alloc", "rollback", "release"}, id : Nat,
                    todo : SUBSET Ssus, made : SUBSET Extents]
      BY DEF Idle
    <2>3. life \in Nat \ {0} /\ nextId \in Nat
      OBVIOUS
    <2>4. halfGone \in BOOLEAN
      OBVIOUS
    <2>5. DOMAIN allocs = {}
      OBVIOUS
    <2> HIDE DEF Init
    <2> QED
      BY <2>1, <2>2, <2>3, <2>4, <2>5 DEF CtlTyped
  <1>5. CallSound
    BY DEF CallSound, Idle, DiskExtents, RowsOf, Sure
  <1>6. MadeStands /\ TablesAgree /\ NoneLost /\ LogdevsOfDisks /\ MinorsOfDisks /\ AttachedIsServed
    BY DEF MadeStands, Idle, TablesAgree, NoneLost, LogdevsOfDisks, MinorsOfDisks,
           AttachedIsServed
  <1> QED
    BY <1>1, <1>2, <1>3, <1>4, <1>5, <1>6 DEF IInv, PluginInv, CtlInv

LEMMA AllocBeginKeeps ==
  ASSUME IInv, NEW ssus \in (SUBSET Ssus) \ {{}}, AllocBegin(ssus)
  PROVE  IInv'
  <1> USE DEF IInv, CtlInv
  <1>1. /\ UNCHANGED <<lbcVars, ctlVars, life, history>> /\ call = Idle
        /\ call' = [op |-> "alloc", id |-> nextId, todo |-> ssus, made |-> {}]
    BY DEF AllocBegin, Idle
  <1>2. UNCHANGED <<rows, mounts, target, node, minors, leaked, allocs, logdevs, nextId,
                    residue, stolen, halfGone, vanished, life>>
    BY <1>1 DEF lbcVars, pluginVars, nodeVars, ctlVars, history
  <1>3. PluginInv'
    BY <1>1, <1>2, PluginStill
  <1>4. CtlTyped'
    BY <1>1, <1>2, FS_EmptySet DEF CtlTyped, Bounded
  <1>5. CallSound'
    <2>1. nextId \notin residue => Sure(DiskExtents(nextId)) = {}
      BY <1>1 DEF CallSound, Idle
    <2>2. Sure(DiskExtents(nextId))' = Sure(DiskExtents(nextId))
      BY <1>2 DEF Sure, InDoubt, DiskExtents, RowsOf, ExtentOf
    <2>3. call'.op = "alloc" /\ call'.id = nextId' /\ call'.made = {} /\ call'.todo # {}
      BY <1>1, <1>2
    <2> QED
      BY <1>2, <2>1, <2>2, <2>3 DEF CallSound, Sure
  <1>6. TablesAgree' /\ LogdevsOfDisks' /\ MinorsOfDisks' /\ AttachedIsServed'
    BY <1>2 DEF TablesAgree, Sure, InDoubt, RowsOf, ExtentOf, LogdevsOfDisks,
                MinorsOfDisks, HasLogdev, Disk, AttachedIsServed, MapsOf
  <1>7. NoneLost' /\ MadeStands'
    BY <1>1, <1>2 DEF NoneLost, MadeStands, Idle
  <1> QED
    BY <1>3, <1>4, <1>5, <1>6, <1>7

LEMMA AllocCreateKeeps ==
  ASSUME IInv, AllocCreate
  PROVE  IInv'
  <1> USE DEF IInv, CtlInv
  <1> DEFINE s == Min(call.todo)
             off == Cardinality(call.made)
  <1>1. /\ call.op = "alloc" /\ call.id = nextId /\ nextId \in Nat /\ life \in Nat \ {0}
        /\ s \in call.todo /\ s \in Ssus /\ off \in Nat
        /\ UNCHANGED <<allocs, logdevs, nextId, life, residue, stolen, halfGone, vanished>>
    <2>1. call.todo \in SUBSET Nat /\ call.todo # {} /\ call.todo \subseteq Ssus
      BY SetsFacts DEF CtlTyped, AllocCreate
    <2>2. s \in call.todo
      BY <2>1, MinIn
    <2>3. off \in Nat
      BY FS_CardinalityType DEF CtlTyped
    <2> QED
      BY <2>1, <2>2, <2>3 DEF AllocCreate, CtlTyped, CallSound, ctlVars, history
  <1>2. PICK m : CreateBinds(Disk(nextId), s, off, m)
    BY <1>1 DEF AllocCreate
  <1> HIDE DEF s, off
  <1>3. PICK i \in Slots \ DOMAIN rows, n \in NsIds \ DOMAIN target,
             d \in DevNames \ DOMAIN node :
          /\ m \in Hidden \cup {n} /\ \A c \in DOMAIN node : node[c] # m
          /\ rows' = With(rows, i, [id |-> nextId, ssu |-> s, off |-> off, ns |-> n,
                                    dev |-> d])
          /\ target' = With(target, n, [disk |-> Disk(nextId), off |-> off, on |-> TRUE])
          /\ node' = With(node, d, m)
          /\ UNCHANGED <<mounts, minors, leaked>>
    <2>1. PluginInv /\ nextId \in Nat /\ s \in Ssus /\ off \in Nat
      BY <1>1
    <2> QED
      BY <1>2, <2>1, CreateBindsDoes
  <1>4. PluginInv'
    BY <1>1, <1>3, CreateBindsKeeps
  <1> DEFINE row == [id |-> nextId, ssu |-> s, off |-> off, ns |-> n, dev |-> d]
             ext == [ssu |-> s, off |-> off, ns |-> n]
             new == [disk |-> Disk(nextId), off |-> off, on |-> TRUE]
  <1>5. /\ DOMAIN rows' = DOMAIN rows \cup {i} /\ i \notin DOMAIN rows /\ rows'[i] = row
        /\ \A k \in DOMAIN rows : rows'[k] = rows[k]
    BY <1>3 DEF With
  <1>6. /\ DOMAIN target' = DOMAIN target \cup {n} /\ target'[n] = new
        /\ \A k \in DOMAIN target : target'[k] = target[k]
    BY <1>3 DEF With
  <1>7. /\ ext \in Extents /\ ext.off = off /\ ext.ns = n /\ ExtentOf(row) = ext
        /\ row.id = nextId /\ row.ns = n
    BY <1>1, <1>3 DEF Extents, ExtentOf
  <1> HIDE DEF row, ext, new
  <1>8. NewRow = row
    <2>1. {rows'[k] : k \in DOMAIN rows' \ DOMAIN rows} = {row}
      BY <1>5
    <2> QED
      BY <2>1 DEF NewRow
  <1>9. call' = [op |-> "alloc", id |-> nextId, todo |-> call.todo \ {s},
                 made |-> call.made \cup {ext}]
    BY <1>1, <1>7, <1>8 DEF AllocCreate, s, CtlTyped
  <1>10. /\ \A k : k # nextId => RowsOf(k)' = RowsOf(k)
         /\ DiskExtents(nextId)' = DiskExtents(nextId) \cup {ext}
    <2>1. \A k : k # nextId => RowsOf(k)' = RowsOf(k)
      BY <1>5, <1>7 DEF RowsOf
    <2>2. \A f : f \in DiskExtents(nextId)' <=>
            \E j \in DOMAIN rows' : rows'[j].id = nextId /\ f = ExtentOf(rows'[j])
      BY <1>1 DEF DiskExtents, RowsOf, ExtentOf
    <2>3. \A f : f \in DiskExtents(nextId)' <=> f \in DiskExtents(nextId) \/ f = ext
      BY <1>5, <1>7, <2>2, ExtentsByRow
    <2> QED
      BY <2>1, <2>3
  <1>11. \A id \in DOMAIN allocs : id # nextId
    BY <1>1 DEF CtlTyped
  <1>12. CtlTyped'
    <2>1. IsFiniteSet(call.made \cup {ext})
      BY FS_AddElement DEF CtlTyped
    <2>2. Bounded(call.made \cup {ext})
      <3>1. PICK k \in Nat : \A e \in call.made : e.off < k
        BY DEF CtlTyped, Bounded
      <3>2. k + off + 1 \in Nat /\ off < k + off + 1
        BY <1>1
      <3>3. \A e \in call.made : e.off < k + off + 1
        BY <1>1, <3>1 DEF CtlTyped, Extents
      <3> QED
        BY <1>7, <3>2, <3>3 DEF Bounded
    <2> QED
      BY <1>1, <1>7, <1>9, <2>1, <2>2 DEF CtlTyped, Bounded
  <1>13. CallSound' /\ MadeStands'
    <2>1. /\ Sure(call.made)' \subseteq DiskExtents(nextId)'
          /\ nextId \notin residue => Sure(DiskExtents(nextId))' \subseteq call'.made
      BY <1>1, <1>9, <1>10 DEF CallSound, Sure, InDoubt
    <2>2. CallSound'
      BY <1>1, <1>7, <1>9, <2>1 DEF CallSound
    <2>3. new.disk = Disk(nextId) /\ Disk(nextId)' = Disk(nextId)
      BY <1>1 DEF new, Disk
    <2>4. \A f \in call.made : f.ns \in DOMAIN target /\ f.ns # n
      BY <1>3 DEF MadeStands
    <2>5. \A f \in call'.made : f.ns \in DOMAIN target' /\ target'[f.ns].disk = Disk(nextId)
      BY <1>6, <1>7, <1>9, <2>3, <2>4 DEF MadeStands
    <2>6. \A f, g \in call'.made : f.ns = g.ns => f = g
      BY <1>7, <1>9, <2>4 DEF MadeStands
    <2> QED
      BY <2>2, <2>3, <2>5, <2>6 DEF MadeStands
  <1>14. TablesAgree'
    <2>1. \A id \in DOMAIN allocs' :
            {ExtentOf(r) : r \in RowsOf(id)}' = {ExtentOf(r) : r \in RowsOf(id)}
      BY <1>1, <1>10, <1>11 DEF ExtentOf
    <2>2. \A k \in DOMAIN rows' : \/ rows'[k].id \in DOMAIN allocs \cup {nextId} \cup residue
                                  \/ InDoubt(rows'[k].ns)
      BY <1>5, <1>7 DEF TablesAgree
    <2>3. UNCHANGED <<allocs, logdevs, mounts, residue, nextId, vanished>>
      BY <1>1, <1>3
    <2>4. \A id \in DOMAIN allocs :
            /\ Sure(allocs[id]) \subseteq Sure({ExtentOf(r) : r \in RowsOf(id)})
            /\ id \notin residue => Sure(allocs[id]) = Sure({ExtentOf(r) : r \in RowsOf(id)})
      BY DEF TablesAgree
    <2>5. \A id \in DOMAIN allocs' :
            /\ Sure(allocs[id])' \subseteq Sure({ExtentOf(r) : r \in RowsOf(id)})'
            /\ id \notin residue' => Sure(allocs[id])' = Sure({ExtentOf(r) : r \in RowsOf(id)})'
      BY <2>1, <2>3, <2>4 DEF Sure, InDoubt
    <2>6. \A k \in DOMAIN rows' : \/ rows'[k].id \in DOMAIN allocs' \cup {nextId'} \cup residue'
                                  \/ InDoubt(rows[k].ns)'
      BY <2>2, <2>3 DEF InDoubt
    <2>7. mounts' = [p \in DOMAIN logdevs' |-> logdevs'[p].id]
      BY <2>3 DEF TablesAgree
    <2> QED
      BY <2>5, <2>6, <2>7 DEF TablesAgree
  <1>15. NoneLost'
    BY <1>1, <1>3, <1>6, <1>7, <1>9 DEF NoneLost
  <1>16. LogdevsOfDisks' /\ MinorsOfDisks'
    BY <1>1, <1>3 DEF LogdevsOfDisks, MinorsOfDisks, HasLogdev, Disk
  <1>17. AttachedIsServed'
    BY <1>1, <1>3, <1>10, <1>11 DEF AttachedIsServed, LogdevsOfDisks, MapsOf, Disk
  <1> QED
    BY <1>4, <1>12, <1>13, <1>14, <1>15, <1>16, <1>17

LEMMA AllocCreateFailsKeeps ==
  ASSUME IInv, AllocCreateFails
  PROVE  IInv'
  <1> USE DEF IInv, CtlInv
  <1> DEFINE s == Min(call.todo)
             off == Cardinality(call.made)
  <1>1. /\ call.op = "alloc" /\ call.id = nextId /\ nextId \in Nat /\ life \in Nat \ {0}
        /\ off \in Nat
        /\ UNCHANGED <<allocs, logdevs, nextId, life, residue, stolen, halfGone, vanished>>
    <2>1. off \in Nat
      BY FS_CardinalityType DEF CtlTyped
    <2> QED
      BY <2>1 DEF AllocCreateFails, CtlTyped, CallSound, ctlVars, history
  <1>2. \/ CreateFails \/ CreateMisses(Disk(nextId), s, off)
        \/ CreateCleansHalf(Disk(nextId), s, off)
    BY <1>1 DEF AllocCreateFails
  <1>3. /\ call.made = {} => call' = Idle
        /\ call.made # {} =>
             /\ call'.op = "rollback" /\ call'.id = nextId
             /\ call' \in [op : {"none", "alloc", "rollback", "release"}, id : Nat,
                           todo : SUBSET Ssus, made : SUBSET Extents]
        /\ call'.made = call.made
    <2>1. call.made = {} => call' = Idle
      BY DEF AllocCreateFails, AfterFailure
    <2>2. call.made # {} => call' = [call EXCEPT !.op = "rollback", !.todo = {}]
      BY DEF AllocCreateFails, AfterFailure
    <2>3. ASSUME call.made # {}
          PROVE  /\ call'.op = "rollback" /\ call'.id = nextId /\ call'.made = call.made
                 /\ call' \in [op : {"none", "alloc", "rollback", "release"}, id : Nat,
                               todo : SUBSET Ssus, made : SUBSET Extents]
      BY <1>1, <2>2, <2>3 DEF CtlTyped
    <2> QED
      BY <2>1, <2>3 DEF Idle
  <1> HIDE DEF s, off
  <1>4. /\ PluginInv' /\ UNCHANGED <<rows, mounts, minors>>
        /\ \A n \in DOMAIN target : n \in DOMAIN target' /\ target'[n] = target[n]
        /\ \A n \in DOMAIN target' : n \in DOMAIN target \/ n \in leaked'
        /\ leaked \subseteq leaked'
    <2>1. CASE CreateFails
      BY <1>1, <2>1, PluginStill DEF CreateFails, lbcVars, pluginVars, nodeVars
    <2>2. ASSUME NEW n \in NsIds \ DOMAIN target,
                 DOMAIN target' = DOMAIN target \cup {n}, target'[n] \in TargetStates,
                 \A k \in DOMAIN target : target'[k] = target[k],
                 leaked' = leaked \cup {n}, UNCHANGED <<rows, mounts, node, minors>>
          PROVE  /\ PluginInv' /\ UNCHANGED <<rows, mounts, minors>>
                 /\ \A k \in DOMAIN target : k \in DOMAIN target' /\ target'[k] = target[k]
                 /\ \A k \in DOMAIN target' : k \in DOMAIN target \/ k \in leaked'
                 /\ leaked \subseteq leaked'
      <3>1. PluginInv'
        BY <1>1, <2>2, GiveUpKeeps
      <3> QED
        BY <2>2, <3>1
    <2> DEFINE new == [disk |-> Disk(nextId), off |-> off, on |-> TRUE]
               n == NextNsid
               made == With(target, n, new)
    <2>3. /\ new \in TargetStates
          /\ DOMAIN made = DOMAIN target \cup {n} /\ made[n] = new
          /\ \A k \in DOMAIN target \ {n} : made[k] = target[k]
      BY <1>1 DEF TargetStates, Disk, With
    <2>4. CASE CreateMisses(Disk(nextId), s, off)
      <3>1. n \in NsIds \ DOMAIN target
        BY <2>4, SetsFacts, MinIn DEF CreateMisses, CanMake, NextNsid
      <3>2. /\ target' = made /\ leaked' = leaked \cup {n}
            /\ UNCHANGED <<rows, mounts, node, minors>>
        BY <2>4 DEF CreateMisses, Created, pluginVars
      <3> HIDE DEF made, new, n
      <3> QED
        BY <2>2, <2>3, <3>1, <3>2
    <2>5. CASE CreateCleansHalf(Disk(nextId), s, off)
      <3>1. n \in NsIds \ DOMAIN target
        BY <2>5, SetsFacts, MinIn DEF CreateCleansHalf, CanMake, NextNsid
      <3>2. /\ target' = [made EXCEPT ![n].on = FALSE] /\ leaked' = leaked \cup {n}
            /\ UNCHANGED <<rows, mounts, node, minors>>
        BY <2>5 DEF CreateCleansHalf, Created, pluginVars
      <3> HIDE DEF made, new, n
      <3>3. /\ DOMAIN target' = DOMAIN made /\ target'[n] = [new EXCEPT !.on = FALSE]
            /\ \A k \in DOMAIN target : target'[k] = target[k]
        BY <2>3, <3>1, <3>2
      <3>4. target'[n] \in TargetStates
        BY <2>3, <3>3 DEF TargetStates
      <3> QED
        BY <2>2, <2>3, <3>1, <3>2, <3>3, <3>4
    <2> QED
      BY <1>2, <2>1, <2>4, <2>5
  <1>5. CtlTyped'
    BY <1>1, <1>3 DEF CtlTyped, Idle, Bounded
  <1>6. CallSound'
    <2>1. DiskExtents(nextId)' = DiskExtents(nextId) /\ RowsOf(nextId)' = RowsOf(nextId)
      BY <1>1, <1>4 DEF DiskExtents, RowsOf, ExtentOf
    <2>2. nextId \notin residue /\ call.made = {} => Sure(DiskExtents(nextId)) = {}
      BY <1>1 DEF CallSound, Sure
    <2> USE DEF Sure, InDoubt
    <2>3. CASE call.made = {}
      <3>1. call' = Idle /\ call'.op = "none" /\ call'.made = {}
        BY <1>3, <2>3 DEF Idle
      <3> QED
        BY <1>1, <2>1, <2>2, <2>3, <3>1 DEF CallSound, Idle
    <2>4. CASE call.made # {}
      <3>1. call'.op = "rollback" /\ call'.id = nextId /\ call'.made = call.made
        BY <1>3, <2>4
      <3> QED
        BY <1>1, <2>1, <2>4, <3>1 DEF CallSound
    <2> QED
      BY <2>3, <2>4
  <1>7. TablesAgree' /\ LogdevsOfDisks' /\ MinorsOfDisks' /\ AttachedIsServed'
    BY <1>1, <1>4 DEF TablesAgree, Sure, InDoubt, RowsOf, ExtentOf, LogdevsOfDisks,
                MinorsOfDisks, HasLogdev, Disk, AttachedIsServed, MapsOf
  <1>8. NoneLost' /\ MadeStands'
    BY <1>1, <1>3, <1>4 DEF NoneLost, MadeStands, Disk
  <1> QED
    BY <1>4, <1>5, <1>6, <1>7, <1>8

LEMMA RollBackKeeps ==
  ASSUME IInv, RollBack
  PROVE  IInv'
  <1> USE DEF IInv, CtlInv
  <1>0. PICK id : id = nextId
    OBVIOUS
  <1> DEFINE e == LastOf(call.made)
  <1>1. /\ call.op = "rollback" /\ call.id = id /\ id \in Nat /\ e \in call.made
        /\ Sure(call.made) \subseteq DiskExtents(id)
        /\ id \notin residue => Sure(DiskExtents(id)) \subseteq call.made
        /\ e.ns \in DOMAIN target /\ target[e.ns].disk = Disk(id)
        /\ UNCHANGED <<allocs, logdevs, nextId, life>>
    <2>1. call.op = "rollback" /\ call.made # {} /\ call.made \in SUBSET Extents
      BY DEF RollBack, CallSound, CtlTyped
    <2>2. e \in call.made
      BY <2>1, LastIn DEF CtlTyped
    <2> QED
      BY <1>0, <2>1, <2>2 DEF RollBack, CallSound, CtlTyped, MadeStands, ctlVars
  <1>2. /\ call' = IF call.made = {e} THEN Idle
                   ELSE [op |-> "rollback", id |-> id, todo |-> call.todo,
                         made |-> call.made \ {e}]
        /\ call'.made = call.made \ {e}
    <2>1. call' = IF call.made = {e} THEN Idle ELSE [call EXCEPT !.made = @ \ {e}]
      BY DEF RollBack
    <2>2. call = [op |-> "rollback", id |-> id, todo |-> call.todo, made |-> call.made]
      BY <1>1 DEF CtlTyped
    <2> QED
      BY <2>1, <2>2 DEF Idle
  <1>3. \/ Delete(e) /\ Settle /\ UNCHANGED residue
        \/ DeleteStops(e) /\ residue' = residue \cup {id}
    BY <1>1 DEF RollBack
  <1> HIDE DEF e
  <1>4. ASSUME halfGone' \in BOOLEAN
        PROVE  CtlTyped'
    <2>1. IsFiniteSet(call.made \ {e}) /\ Bounded(call.made \ {e})
      BY FS_Subset DEF CtlTyped, Bounded
    <2>2. call' \in [op : {"none", "alloc", "rollback", "release"}, id : Nat,
                     todo : SUBSET Ssus, made : SUBSET Extents]
      BY <1>1, <1>2 DEF CtlTyped, Idle
    <2>3. Bounded(call.made)'
      BY <1>2, <2>1 DEF Bounded
    <2> QED
      BY <1>1, <1>2, <1>4, <2>1, <2>2, <2>3 DEF CtlTyped
  <1>5. ~HasLogdev(id) /\ id \notin DOMAIN allocs
    BY <1>0 DEF CtlTyped, HasLogdev, LogdevsOfDisks
  <1>6. ASSUME Sure(call.made)' \subseteq DiskExtents(id)',
               id \notin residue' => Sure(DiskExtents(id))' \subseteq call'.made
        PROVE  CallSound'
    <2>1. DiskExtents(nextId)' = DiskExtents(id)'
      BY <1>0, <1>1 DEF DiskExtents, RowsOf, ExtentOf
    <2>2. CASE call.made = {e}
      <3>1. call' = Idle /\ call'.op = "none" /\ call'.made = {}
        BY <1>2, <2>2 DEF Idle
      <3>2. nextId' \notin residue' => Sure(DiskExtents(nextId))' = {}
        BY <1>0, <1>1, <1>6, <2>1, <3>1 DEF Sure
      <3> QED
        BY <1>1, <3>1, <3>2 DEF CallSound, Idle
    <2>3. CASE call.made # {e}
      <3>1. call'.op = "rollback" /\ call'.id = nextId' /\ call'.made # {}
        BY <1>0, <1>1, <1>2, <2>3
      <3>2. Sure(DiskExtents(nextId))' = Sure(DiskExtents(id))'
        BY <2>1 DEF Sure
      <3> QED
        BY <1>0, <1>1, <1>6, <2>1, <3>1, <3>2 DEF CallSound
    <2> QED
      BY <2>2, <2>3
  <1>7. ASSUME DOMAIN target \ {e.ns} \subseteq DOMAIN target',
               \A n \in DOMAIN target' : target'[n].disk = target[n].disk
        PROVE  MadeStands'
    <2>1. \A f \in call'.made : f \in call.made /\ f.ns # e.ns
      BY <1>1, <1>2 DEF MadeStands
    <2>2. \A f \in call'.made : f.ns \in DOMAIN target' /\ target'[f.ns].disk = Disk(nextId)
      BY <1>7, <2>1 DEF MadeStands
    <2>3. Disk(nextId)' = Disk(nextId)
      BY <1>1 DEF Disk
    <2> QED
      BY <2>1, <2>2, <2>3 DEF MadeStands
  <1>8. CASE Delete(e) /\ Settle /\ UNCHANGED residue
    <2>1. PICK i \in DOMAIN rows :
            /\ rows[i].ns = e.ns /\ rows' = Without(rows, i)
            /\ RemoveNamespace(e.ns) /\ UNCHANGED mounts
      BY <1>8, DeleteWorksDoes DEF Delete, PluginInv
    <2>2. UNCHANGED <<mounts, minors, halfGone>> /\ leaked' = leaked \ {e.ns}
      BY <1>8, <2>1 DEF Delete, RemoveNamespace
    <2>3. PluginInv'
      <3>1. \A m \in DOMAIN minors : minors[m].disk # target[e.ns].disk
        BY <1>1, <1>5, NoMinorWithoutLogdev
      <3> QED
        BY <1>1, <1>8, <2>1, <2>2, <3>1, DeleteWorksKeeps
    <2>4. /\ DOMAIN target' = DOMAIN target \ {e.ns}
          /\ \A n \in DOMAIN target' : target'[n] = target[n]
      BY <2>1 DEF RemoveNamespace, Without, Restrict
    <2>5. \A k, f : f \in DiskExtents(k)' /\ ~InDoubt(f.ns)' <=>
                     f \in DiskExtents(k) /\ ~InDoubt(f.ns) /\ (k = id => f # e)
      <3>1. Sure({e}) \subseteq DiskExtents(id)
        BY <1>1 DEF Sure
      <3> QED
        BY <1>8, <2>1, <3>1, SureAfterDelete
    <2>6. /\ \A f \in call'.made : InDoubt(f.ns)' <=> InDoubt(f.ns)
          /\ \A k \in DOMAIN allocs : \A f \in allocs[k] : InDoubt(f.ns)' <=> InDoubt(f.ns)
          /\ \A j \in DOMAIN rows' : InDoubt(rows[j].ns)' <=> InDoubt(rows'[j].ns)
      BY <1>1, <1>8, SettleKeeps DEF Range
    <2>7. CallSound'
      <3>1. Sure(call.made)' \subseteq DiskExtents(id)'
        BY <1>1, <1>2, <2>5, <2>6 DEF Sure
      <3>2. id \notin residue' => Sure(DiskExtents(id))' \subseteq call'.made
        BY <1>1, <1>2, <1>8, <2>5 DEF Sure
      <3> QED
        BY <1>6, <3>1, <3>2
    <2>8. TablesAgree'
      <3>1. /\ DOMAIN allocs' \subseteq DOMAIN allocs /\ id \notin DOMAIN allocs'
            /\ \A k \in DOMAIN allocs : k \in DOMAIN allocs' /\ allocs'[k] = allocs[k]
            /\ \A k \in DOMAIN allocs' : \A f \in allocs'[k] : InDoubt(f.ns)' <=> InDoubt(f.ns)
        BY <1>1, <1>5, <2>6
      <3>2. UNCHANGED <<mounts, logdevs, nextId, residue>>
        BY <1>1, <1>8, <2>2
      <3> QED
        BY <1>5, <2>1, <2>5, <3>1, <3>2, TablesAfterDelete
    <2>9. NoneLost'
      BY <1>1, <1>2, <1>8, <2>2, <2>4 DEF NoneLost
    <2>10. MadeStands'
      BY <1>7, <2>4
    <2>11. LogdevsOfDisks' /\ MinorsOfDisks'
      BY <1>1, <2>2 DEF LogdevsOfDisks, MinorsOfDisks, HasLogdev, Disk
    <2>12. AttachedIsServed'
      BY <1>1, <1>5, <1>8, <2>1, <2>2, DeleteServes
    <2>13. CtlTyped'
      BY <1>4, <2>2 DEF CtlTyped
    <2> QED
      BY <2>3, <2>7, <2>8, <2>9, <2>10, <2>11, <2>12, <2>13
  <1>9. CASE DeleteStops(e) /\ residue' = residue \cup {id}
    <2>1. /\ PluginInv' /\ halfGone' \in BOOLEAN
          /\ UNCHANGED <<rows, mounts, minors, stolen>>
          /\ DOMAIN target' \subseteq DOMAIN target
          /\ DOMAIN target \ {e.ns} \subseteq DOMAIN target'
          /\ \A n \in DOMAIN target' : /\ target'[n].disk = target[n].disk
                                       /\ n \in leaked => n \in leaked'
          /\ \A n : InDoubt(n) => InDoubt(n)'
      BY <1>1, <1>9, DeleteStopsDoes DEF CtlTyped
    <2>2. CallSound'
      <3>1. DiskExtents(id)' = DiskExtents(id)
        BY <2>1 DEF DiskExtents, RowsOf, ExtentOf
      <3>2. Sure(call.made)' \subseteq DiskExtents(id)'
        BY <1>1, <1>2, <2>1, <3>1 DEF Sure
      <3> QED
        BY <1>6, <1>9, <3>2
    <2>3. TablesAgree'
      BY <1>1, <1>9, <2>1, DoubtsSpareTables
    <2>4. NoneLost'
      <3> SUFFICES ASSUME NEW n \in DOMAIN target',
                          n \notin leaked', ~(target'[n].disk.life < life'),
                          target'[n].disk.id \notin residue'
                   PROVE  \E f \in call'.made \cup UNION Range(allocs') : f.ns = n
        BY DEF NoneLost
      <3>1. n \in DOMAIN target /\ target'[n].disk = target[n].disk /\ n \notin leaked
        BY <2>1
      <3>2. ~(target[n].disk.life < life) /\ target[n].disk.id \notin residue \cup {id}
        BY <1>1, <1>9, <3>1
      <3>3. PICK f \in call.made \cup UNION Range(allocs) : f.ns = n
        BY <3>1, <3>2 DEF NoneLost
      <3>4. n # e.ns
        BY <1>1, <3>2 DEF Disk
      <3> QED
        BY <1>1, <1>2, <3>3, <3>4
    <2>5. MadeStands' /\ CtlTyped'
      <3>1. \A n \in DOMAIN target' : target'[n].disk = target[n].disk
        BY <2>1
      <3> QED
        BY <1>4, <1>7, <2>1, <3>1
    <2>6. LogdevsOfDisks' /\ MinorsOfDisks' /\ AttachedIsServed'
      BY <1>1, <2>1 DEF LogdevsOfDisks, MinorsOfDisks, HasLogdev, Disk,
                        AttachedIsServed, MapsOf, RowsOf
    <2> QED
      BY <2>1, <2>2, <2>3, <2>4, <2>5, <2>6
  <1> QED
    BY <1>3, <1>8, <1>9

LEMMA AllocCommitKeeps ==
  ASSUME IInv, AllocCommit
  PROVE  IInv'
  <1> USE DEF IInv, CtlInv
  <1>1. /\ call.op = "alloc" /\ call.id = nextId /\ nextId \in Nat /\ call.made # {}
        /\ Sure(call.made) \subseteq DiskExtents(nextId)
        /\ nextId \notin residue => Sure(DiskExtents(nextId)) \subseteq call.made
        /\ allocs' = With(allocs, nextId, call.made) /\ nextId' = nextId + 1
        /\ call' = Idle /\ UNCHANGED <<lbcVars, logdevs, life, history>>
    BY DEF AllocCommit, CallSound, CtlTyped
  <1>2. UNCHANGED <<rows, mounts, target, node, minors, leaked, logdevs, residue, stolen,
                    halfGone, vanished, life>>
    BY <1>1 DEF lbcVars, pluginVars, nodeVars, history
  <1>3. /\ DOMAIN allocs' = DOMAIN allocs \cup {nextId} /\ allocs'[nextId] = call.made
        /\ \A id \in DOMAIN allocs : allocs'[id] = allocs[id] /\ id # nextId
        /\ nextId \notin DOMAIN allocs /\ nextId' \notin DOMAIN allocs'
    <2>1. \A id \in DOMAIN allocs : id \in 0 .. nextId - 1 /\ id # nextId /\ id # nextId + 1
      BY <1>1 DEF CtlTyped
    <2> QED
      BY <1>1, <2>1 DEF With
  <1>4. PluginInv'
    BY <1>1, <1>2, PluginStill
  <1>5. CtlTyped'
    <2>1. DOMAIN allocs' \subseteq 0 .. nextId' - 1
      BY <1>1, <1>3 DEF CtlTyped
    <2>2. \A id \in DOMAIN allocs' : allocs'[id] \subseteq Extents /\ allocs'[id] # {}
      BY <1>1, <1>3 DEF CtlTyped
    <2>3. /\ call' \in [op : {"none", "alloc", "rollback", "release"}, id : Nat,
                        todo : SUBSET Ssus, made : SUBSET Extents]
          /\ IsFiniteSet(call'.made) /\ Bounded(call.made)'
      BY <1>1, FS_EmptySet DEF Idle, Bounded
    <2> QED
      BY <1>1, <1>2, <2>1, <2>2, <2>3 DEF CtlTyped
  <1>6. \A k : RowsOf(k)' = RowsOf(k) /\ DiskExtents(k)' = DiskExtents(k)
    BY <1>2 DEF DiskExtents, RowsOf, ExtentOf
  <1>7. CallSound'
    <2>1. PICK k : k = nextId'
      OBVIOUS
    <2>2. k \notin residue => Sure(DiskExtents(k)) = {}
      <3> SUFFICES ASSUME k \notin residue, NEW f \in DiskExtents(k), ~InDoubt(f.ns)
                   PROVE  FALSE
        BY DEF Sure
      <3>1. PICK i \in DOMAIN rows : rows[i].id = k /\ f = ExtentOf(rows[i])
        BY ExtentsByRow
      <3>2. f.ns = rows[i].ns
        BY <3>1 DEF ExtentOf
      <3> QED
        BY <1>1, <1>3, <2>1, <3>1, <3>2 DEF TablesAgree
    <2>3. nextId' \notin residue' => Sure(DiskExtents(nextId))' = {}
      <3>1. Sure(DiskExtents(nextId))' = Sure(DiskExtents(k))
        BY <1>2, <2>1 DEF Sure, InDoubt, DiskExtents, RowsOf, ExtentOf
      <3> QED
        BY <1>2, <2>1, <2>2, <3>1
    <2> QED
      BY <1>1, <2>3 DEF CallSound, Idle
  <1>8. TablesAgree'
    <2>1. \A id \in DOMAIN allocs' :
             /\ Sure(allocs'[id]) \subseteq Sure(DiskExtents(id))
             /\ id \notin residue => Sure(allocs'[id]) = Sure(DiskExtents(id))
      BY <1>1, <1>3 DEF TablesAgree, DiskExtents, Sure
    <2>2. \A i \in DOMAIN rows : rows[i].id \in DOMAIN allocs' \cup residue \/ InDoubt(rows[i].ns)
      BY <1>3 DEF TablesAgree
    <2>3. mounts' = [p \in DOMAIN logdevs' |-> logdevs'[p].id]
      BY <1>2 DEF TablesAgree
    <2> QED
      BY <1>2, <1>6, <2>1, <2>2, <2>3 DEF TablesAgree, DiskExtents, Sure, InDoubt
  <1>9. NoneLost' /\ MadeStands'
    <2>1. \A e \in UNION Range(allocs) : e \in UNION Range(allocs')
      BY <1>3 DEF Range
    <2>2. \A e \in call.made : e \in UNION Range(allocs')
      BY <1>3 DEF Range
    <2> QED
      BY <1>1, <1>2, <2>1, <2>2 DEF NoneLost, MadeStands, Idle
  <1>10. LogdevsOfDisks' /\ MinorsOfDisks' /\ AttachedIsServed'
    BY <1>2, <1>3 DEF LogdevsOfDisks, MinorsOfDisks, HasLogdev, Disk, AttachedIsServed,
                      MapsOf, RowsOf
  <1> QED
    BY <1>4, <1>5, <1>7, <1>8, <1>9, <1>10

LEMMA ReleaseBeginKeeps ==
  ASSUME IInv, NEW id \in DOMAIN allocs, ReleaseBegin(id)
  PROVE  IInv'
  <1> USE DEF IInv, CtlInv
  <1>1. /\ UNCHANGED <<lbcVars, ctlVars, life, history>> /\ call = Idle /\ ~HasLogdev(id)
        /\ call' = [op |-> "release", id |-> id, todo |-> {}, made |-> {}]
    BY DEF ReleaseBegin, Idle
  <1>2. UNCHANGED <<rows, mounts, target, node, minors, leaked, allocs, logdevs, nextId,
                    residue, stolen, halfGone, vanished, life>>
    BY <1>1 DEF lbcVars, pluginVars, nodeVars, ctlVars, history
  <1>3. PluginInv'
    BY <1>1, <1>2, PluginStill
  <1>4. CtlTyped'
    <2>1. id \in Nat
      BY DEF CtlTyped
    <2> QED
      BY <1>1, <1>2, <2>1, FS_EmptySet DEF CtlTyped, Bounded
  <1>5. CallSound'
    <2>1. nextId \notin residue => Sure(DiskExtents(nextId)) = {}
      BY <1>1 DEF CallSound, Idle
    <2>2. nextId' \notin residue' => Sure(DiskExtents(nextId))' = {}
      BY <1>2, <2>1 DEF Sure, InDoubt, DiskExtents, RowsOf, ExtentOf
    <2>3. call'.op = "release" /\ call'.id = id /\ call'.made = {}
      BY <1>1
    <2>4. id \in DOMAIN allocs' /\ ~HasLogdev(call.id)'
      BY <1>1, <1>2, <2>3 DEF HasLogdev
    <2> QED
      BY <2>2, <2>3, <2>4 DEF CallSound
  <1>6. TablesAgree' /\ LogdevsOfDisks' /\ MinorsOfDisks' /\ AttachedIsServed'
    BY <1>2 DEF TablesAgree, Sure, InDoubt, RowsOf, ExtentOf, LogdevsOfDisks,
                MinorsOfDisks, HasLogdev, Disk, AttachedIsServed, MapsOf
  <1>7. NoneLost' /\ MadeStands'
    BY <1>1, <1>2 DEF NoneLost, MadeStands, Idle
  <1> QED
    BY <1>3, <1>4, <1>5, <1>6, <1>7

LEMMA ReleaseNextKeeps ==
  ASSUME IInv, ReleaseNext
  PROVE  IInv'
  <1> USE DEF IInv, CtlInv
  <1>0. PICK id : id = call.id
    OBVIOUS
  <1> DEFINE e == FirstOf(allocs[id])
  <1>1. /\ call.op = "release" /\ call.made = {} /\ id \in DOMAIN allocs
        /\ id # nextId /\ ~HasLogdev(id)
        /\ allocs[id] \in SUBSET Extents /\ e \in allocs[id]
        /\ Sure({e}) \subseteq DiskExtents(id)
        /\ UNCHANGED <<logdevs, nextId, life, residue>>
    <2>1. call.op = "release" /\ call.made = {} /\ id \in DOMAIN allocs /\ ~HasLogdev(id)
      BY <1>0 DEF ReleaseNext, CallSound
    <2>2. allocs[id] \in SUBSET Extents /\ allocs[id] # {} /\ id # nextId
      BY <2>1 DEF CtlTyped
    <2>3. e \in allocs[id]
      BY <2>2, FirstIn
    <2>4. Sure({e}) \subseteq DiskExtents(id)
      BY <2>1, <2>3 DEF TablesAgree, Sure, DiskExtents
    <2> QED
      BY <2>1, <2>2, <2>3, <2>4 DEF ReleaseNext
  <1>2. /\ Delete(e) /\ Settle
        /\ \/ /\ allocs[id] = {e} /\ allocs' = Without(allocs, id) /\ call' = Idle
           \/ /\ allocs[id] # {e} /\ UNCHANGED call
              /\ allocs' = [allocs EXCEPT ![id] = allocs[id] \ {e}]
    BY <1>0, <1>1 DEF ReleaseNext, ExtentsAfter
  <1> HIDE DEF e
  <1>3. PICK i \in DOMAIN rows :
           /\ rows[i].ns = e.ns /\ rows' = Without(rows, i)
           /\ RemoveNamespace(e.ns) /\ UNCHANGED mounts
    BY <1>2, DeleteWorksDoes DEF Delete, PluginInv
  <1>4. UNCHANGED <<mounts, minors, halfGone>> /\ leaked' = leaked \ {e.ns}
    BY <1>2, <1>3 DEF Delete, RemoveNamespace
  <1>5. PluginInv'
    <2>1. ASSUME ~halfGone
          PROVE  \A m \in DOMAIN minors : minors[m].disk # target[e.ns].disk
      <3>1. ~InDoubt(e.ns)
        BY <2>1, WholeIsSure
      <3>2. target[e.ns].disk = Disk(id)
        BY <1>1, <3>1, RowOfExtent DEF PluginInv, Sure
      <3> QED
        BY <1>1, <3>2, NoMinorWithoutLogdev
    <2> QED
      BY <1>1, <1>2, <1>3, <1>4, <2>1, DeleteWorksKeeps
  <1>6. /\ DOMAIN allocs' \subseteq DOMAIN allocs
        /\ \A k \in DOMAIN allocs : k # id => k \in DOMAIN allocs' /\ allocs'[k] = allocs[k]
        /\ id \in DOMAIN allocs' =>
             /\ allocs'[id] = allocs[id] \ {e} /\ allocs[id] # {e} /\ call' = call
        /\ id \notin DOMAIN allocs' => allocs[id] = {e} /\ call' = Idle
    BY <1>1, <1>2 DEF Without, Restrict
  <1>7. CtlTyped'
    <2>1. \A k \in DOMAIN allocs' : allocs'[k] \subseteq Extents /\ allocs'[k] # {}
      BY <1>1, <1>6 DEF CtlTyped
    <2>2. /\ call' \in [op : {"none", "alloc", "rollback", "release"}, id : Nat,
                        todo : SUBSET Ssus, made : SUBSET Extents]
          /\ IsFiniteSet(call'.made) /\ Bounded(call.made)'
      <3>1. CASE call' = Idle
        BY <3>1, FS_EmptySet DEF Idle, Bounded
      <3>2. CASE call' = call
        BY <3>2 DEF CtlTyped, Bounded
      <3> QED
        BY <1>2, <3>1, <3>2
    <2> QED
      BY <1>1, <1>4, <1>6, <2>1, <2>2 DEF CtlTyped
  <1>8. \A k, f : f \in DiskExtents(k)' /\ ~InDoubt(f.ns)' <=>
                  f \in DiskExtents(k) /\ ~InDoubt(f.ns) /\ (k = id => f # e)
    BY <1>1, <1>2, <1>3, SureAfterDelete
  <1>9. CallSound'
    <2>1. Sure(DiskExtents(nextId))' \subseteq Sure(DiskExtents(nextId))
      <3>1. PICK k : k = nextId
        OBVIOUS
      <3>2. DiskExtents(nextId)' = DiskExtents(k)'
        BY <1>1, <3>1 DEF DiskExtents, RowsOf, ExtentOf
      <3>3. \A f \in DiskExtents(k)' : ~InDoubt(f.ns)' => f \in Sure(DiskExtents(k))
        BY <1>8 DEF Sure
      <3>4. Sure(DiskExtents(k)) = Sure(DiskExtents(nextId))
        BY <3>1
      <3> QED
        BY <3>2, <3>3, <3>4 DEF Sure
    <2>2. nextId' \notin residue' => Sure(DiskExtents(nextId))' = {}
      BY <1>1, <2>1 DEF CallSound
    <2>3. CASE call' = Idle
      BY <1>1, <2>2, <2>3 DEF CallSound, Idle
    <2>4. CASE call' = call /\ id \in DOMAIN allocs'
      <3>1. ~HasLogdev(call.id)'
        BY <1>0, <1>1, <2>4 DEF HasLogdev
      <3> QED
        BY <1>0, <1>1, <2>2, <2>4, <3>1 DEF CallSound
    <2> QED
      BY <1>6, <2>3, <2>4
  <1>10. TablesAgree'
    <2>1. \A k \in DOMAIN allocs' : \A f \in allocs'[k] : InDoubt(f.ns)' <=> InDoubt(f.ns)
      BY <1>2, SettleKeeps DEF Range
    <2> QED
      BY <1>1, <1>3, <1>4, <1>6, <1>8, <2>1, TablesAfterDelete
  <1>11. NoneLost'
    <2> SUFFICES ASSUME NEW n \in DOMAIN target',
                        n \notin leaked', ~(target'[n].disk.life < life'),
                        target'[n].disk.id \notin residue'
                 PROVE  \E f \in call'.made \cup UNION Range(allocs') : f.ns = n
      BY DEF NoneLost
    <2>1. n \in DOMAIN target /\ n # e.ns /\ target'[n] = target[n]
      BY <1>3 DEF RemoveNamespace, Without, Restrict
    <2>2. PICK f \in UNION Range(allocs) : f.ns = n
      BY <1>1, <1>4, <2>1 DEF NoneLost
    <2>3. PICK k \in DOMAIN allocs : f \in allocs[k]
      BY DEF Range
    <2>4. f # e
      BY <2>1, <2>2
    <2>5. k \in DOMAIN allocs' /\ f \in allocs'[k]
      BY <1>6, <2>3, <2>4
    <2> QED
      BY <2>2, <2>5 DEF Range
  <1>12. LogdevsOfDisks'
    BY <1>1, <1>6 DEF LogdevsOfDisks, HasLogdev
  <1>13. MinorsOfDisks'
    BY <1>1, <1>4 DEF MinorsOfDisks, HasLogdev, Disk
  <1>14. AttachedIsServed'
    BY <1>0, <1>1, <1>2, <1>3, <1>4, DeleteServes
  <1>15. MadeStands'
    <2>1. call'.made = {}
      BY <1>1, <1>2 DEF Idle
    <2> QED
      BY <2>1 DEF MadeStands
  <1> QED
    BY <1>5, <1>7, <1>9, <1>10, <1>11, <1>12, <1>13, <1>14, <1>15

LEMMA ReleaseStopsKeeps ==
  ASSUME IInv, ReleaseStops
  PROVE  IInv'
  <1> USE DEF IInv, CtlInv
  <1> DEFINE e == FirstOf(allocs[call.id])
  <1>1. /\ call.op = "release" /\ call.made = {} /\ call.id \in Nat
        /\ halfGone \in BOOLEAN /\ DeleteStops(e) /\ call' = Idle
        /\ UNCHANGED <<allocs, logdevs, nextId, life, residue>>
    BY DEF ReleaseStops, CallSound, CtlTyped, ctlVars
  <1> HIDE DEF e
  <1>2. /\ PluginInv' /\ halfGone' \in BOOLEAN
        /\ UNCHANGED <<rows, mounts, minors, stolen>>
        /\ DOMAIN target' \subseteq DOMAIN target
        /\ \A n \in DOMAIN target' : /\ target'[n].disk = target[n].disk
                                     /\ n \in leaked => n \in leaked'
        /\ \A n : InDoubt(n) => InDoubt(n)'
    BY <1>1, DeleteStopsDoes
  <1>3. CtlTyped'
    <2>1. /\ call' \in [op : {"none", "alloc", "rollback", "release"}, id : Nat,
                        todo : SUBSET Ssus, made : SUBSET Extents]
          /\ IsFiniteSet(call'.made) /\ Bounded(call.made)'
      BY <1>1, FS_EmptySet DEF Idle, Bounded
    <2> QED
      BY <1>1, <1>2, <2>1 DEF CtlTyped
  <1>4. CallSound'
    <2>1. nextId \notin residue => Sure(DiskExtents(nextId)) = {}
      BY <1>1 DEF CallSound
    <2>2. DiskExtents(nextId)' = DiskExtents(nextId)
      BY <1>1, <1>2 DEF DiskExtents, RowsOf, ExtentOf
    <2>3. nextId' \notin residue' => Sure(DiskExtents(nextId))' = {}
      BY <1>1, <1>2, <2>1, <2>2 DEF Sure
    <2> QED
      BY <1>1, <2>3 DEF CallSound, Idle
  <1>5. TablesAgree'
    BY <1>1, <1>2, DoubtsSpareTables
  <1>6. LogdevsOfDisks' /\ MinorsOfDisks' /\ AttachedIsServed'
    BY <1>1, <1>2 DEF LogdevsOfDisks, MinorsOfDisks, HasLogdev, Disk,
                      AttachedIsServed, MapsOf, RowsOf
  <1>7. NoneLost' /\ MadeStands'
    <2>1. call'.made = {}
      BY <1>1 DEF Idle
    <2>2. ASSUME NEW n \in DOMAIN target'
          PROVE  \/ n \in leaked' \/ target'[n].disk.life < life
                 \/ target'[n].disk.id \in residue
                 \/ \E f \in UNION Range(allocs) : f.ns = n
      <3>1. n \in DOMAIN target /\ target'[n].disk = target[n].disk
            /\ (n \in leaked => n \in leaked')
        BY <1>2, <2>2
      <3> QED
        BY <1>1, <3>1 DEF NoneLost
    <2> QED
      BY <1>1, <2>1, <2>2 DEF NoneLost, MadeStands
  <1> QED
    BY <1>2, <1>3, <1>4, <1>5, <1>6, <1>7

\* What mount and unmount leave of the controller's own state.
LEMMA CtlStill ==
  ASSUME CtlTyped, CallSound, MadeStands, NoneLost, call = Idle,
         UNCHANGED <<rows, target, leaked, allocs, nextId, call, life, residue, halfGone, vanished>>
  PROVE  CtlTyped' /\ CallSound' /\ MadeStands' /\ NoneLost'
  <1>1. CtlTyped'
    BY DEF CtlTyped, Bounded
  <1>2. CallSound'
    <2>1. call.op = "none" /\ Sure(DiskExtents(nextId))' = Sure(DiskExtents(nextId))
      BY DEF Idle, Sure, InDoubt, DiskExtents, RowsOf, ExtentOf
    <2> QED
      BY <2>1 DEF CallSound, Idle
  <1>3. NoneLost' /\ MadeStands'
    BY DEF NoneLost, MadeStands, Idle
  <1> QED
    BY <1>1, <1>2, <1>3

LEMMA MountKeeps ==
  ASSUME IInv, NEW id \in DOMAIN allocs, NEW p \in Paths, Mount(id, p)
  PROVE  IInv'
  <1> USE DEF IInv, CtlInv
  <1>1. /\ call = Idle /\ p \notin DOMAIN logdevs /\ p \notin DOMAIN mounts
        /\ id \in Minors /\ id \notin DOMAIN minors
        /\ Cardinality(DOMAIN mounts) < MaxMounts
        /\ mounts' = With(mounts, p, id)
        /\ minors' = With(minors, id, [path |-> p, disk |-> Disk(id), maps |-> MapsOf(id)])
        /\ UNCHANGED <<rows, target, node, leaked, allocs, nextId, call, life, residue,
                       stolen, halfGone, vanished>>
    BY DEF Mount, MountLbc, MountChecks, ReqShimTakes, MinorOf, Disk, history
  <1>2. PICK maps : logdevs' = With(logdevs, p, [id |-> id, maps |-> maps])
    BY DEF Mount
  <1> DEFINE minor == [path |-> p, disk |-> Disk(id), maps |-> MapsOf(id)]
             logdev == [id |-> id, maps |-> maps]
  <1>3. /\ minor.path = p /\ minor.disk = Disk(id) /\ minor.maps = MapsOf(id)
        /\ minor.disk.life = life /\ logdev.id = id
    BY DEF Disk
  <1>4. /\ DOMAIN mounts' = DOMAIN mounts \cup {p} /\ mounts'[p] = id
        /\ \A q \in DOMAIN mounts : mounts'[q] = mounts[q]
    BY <1>1 DEF With
  <1>5. /\ DOMAIN minors' = DOMAIN minors \cup {id} /\ minors'[id] = minor
        /\ \A m \in DOMAIN minors : minors'[m] = minors[m]
    BY <1>1 DEF With
  <1>6. /\ DOMAIN logdevs' = DOMAIN logdevs \cup {p} /\ logdevs'[p] = logdev
        /\ \A q \in DOMAIN logdevs : logdevs'[q] = logdevs[q]
    BY <1>1, <1>2 DEF With
  <1> HIDE DEF minor, logdev
  <1>7. PluginTyped'
    <2>1. Cardinality(DOMAIN mounts') <= MaxMounts
      <3>1. /\ IsFiniteSet(DOMAIN mounts) /\ Cardinality(DOMAIN mounts) \in Nat
        BY SetsFacts, FS_Subset, FS_CardinalityType DEF PluginInv, PluginTyped
      <3>2. Cardinality(DOMAIN mounts \cup {p}) = Cardinality(DOMAIN mounts) + 1
        BY <1>1, <3>1, FS_AddElement
      <3> QED
        BY <1>1, <1>4, <3>1, <3>2, LimitsAssumption
    <2>2. \A m \in DOMAIN minors' : minors'[m].disk.life \in 1 .. life
      BY <1>3, <1>5 DEF PluginInv, PluginTyped, CtlTyped
    <2> QED
      BY <1>1, <1>4, <1>5, <2>1, <2>2 DEF PluginInv, PluginTyped, TargetStates
  <1>8. MapsServed'
    <2> SUFFICES ASSUME Good, NEW m \in DOMAIN minors', NEW x \in minors'[m].maps
                 PROVE  /\ x.dev \in DOMAIN node
                        /\ target[node[x.dev]].disk = minors'[m].disk
                        /\ target[node[x.dev]].off = x.off
      BY <1>1 DEF MapsServed, Good
    <2>1. CASE m # id
      BY <1>5, <2>1 DEF PluginInv, MapsServed
    <2>2. CASE m = id
      <3>1. x \in MapsOf(id) /\ minors'[m].disk = Disk(id)
        BY <1>3, <1>5, <2>2
      <3>2. PICK i \in DOMAIN rows :
              rows[i].id = id /\ x.off = rows[i].off /\ x.dev = rows[i].dev
        BY <3>1 DEF MapsOf, RowsOf
      <3> QED
        BY <3>1, <3>2, WholeIsSure DEF Good, PluginInv, NodesServe, RowsOwnNamespaces
    <2> QED
      BY <2>1, <2>2
  <1>9. PluginInv'
    BY <1>1, <1>7, <1>8 DEF PluginInv, DoubtTyped, InDoubt, RowsOwnNamespaces, Disk,
                            LeakedApart, NodesApart, RowsOn, Good, NodesServe, Hidden
  <1>10. CtlTyped' /\ CallSound' /\ MadeStands' /\ NoneLost'
    BY <1>1, CtlStill
  <1>11. TablesAgree'
    <2>1. mounts' = [q \in DOMAIN logdevs' |-> logdevs'[q].id]
      <3>1. mounts = [q \in DOMAIN logdevs |-> logdevs[q].id]
        BY DEF TablesAgree
      <3>2. /\ DOMAIN mounts' = DOMAIN logdevs'
            /\ \A q \in DOMAIN logdevs' : mounts'[q] = logdevs'[q].id
        BY <1>3, <1>4, <1>6, <3>1
      <3> QED
        BY <1>1, <3>2 DEF With
    <2> QED
      BY <1>1, <2>1 DEF TablesAgree, Sure, InDoubt, RowsOf, ExtentOf
  <1>12. LogdevsOfDisks'
    BY <1>1, <1>3, <1>6 DEF LogdevsOfDisks
  <1>13. MinorsOfDisks'
    <2>1. HasLogdev(id)' /\ \A m : HasLogdev(m) => HasLogdev(m)'
      BY <1>3, <1>6 DEF HasLogdev
    <2> QED
      BY <1>1, <1>3, <1>5, <2>1 DEF MinorsOfDisks, Disk
  <1>14. AttachedIsServed'
    <2> SUFFICES ASSUME NEW q \in DOMAIN logdevs', logdevs'[q].id \notin stolen
                 PROVE  LET k == logdevs'[q].id
                        IN  /\ k \in DOMAIN minors'
                            /\ minors'[k] = [path |-> q, disk |-> Disk(k),
                                             maps |-> MapsOf(k)]
      BY <1>1 DEF AttachedIsServed, MapsOf, RowsOf, Disk
    <2>1. CASE q = p
      BY <1>3, <1>5, <1>6, <2>1 DEF minor
    <2>2. CASE q # p
      <3>1. q \in DOMAIN logdevs /\ logdevs'[q] = logdevs[q]
        BY <1>6, <2>2
      <3> QED
        BY <1>5, <3>1 DEF AttachedIsServed
    <2> QED
      BY <2>1, <2>2
  <1> QED
    BY <1>9, <1>10, <1>11, <1>12, <1>13, <1>14

\* A device of ReqShim and perhaps the mounts of it go.
LEMMA PluginLosesMinor ==
  ASSUME PluginInv, NEW m, minors' = Without(minors, m),
         NEW p, mounts' \in {mounts, Without(mounts, p)},
         UNCHANGED <<rows, target, node, leaked, life, halfGone, vanished>>
  PROVE  PluginInv'
  <1>1. /\ DOMAIN minors' = DOMAIN minors \ {m}
        /\ \A k \in DOMAIN minors' : minors'[k] = minors[k]
    BY DEF Without, Restrict
  <1>2. PluginTyped'
    <2>1. DOMAIN mounts' \subseteq DOMAIN mounts
      BY DEF Without, Restrict
    <2>2. IsFiniteSet(DOMAIN mounts)
      BY SetsFacts, FS_Subset DEF PluginInv, PluginTyped
    <2>3. /\ IsFiniteSet(DOMAIN mounts')
          /\ Cardinality(DOMAIN mounts') <= Cardinality(DOMAIN mounts)
          /\ Cardinality(DOMAIN mounts) \in Nat
      BY <2>1, <2>2, FS_Subset, FS_CardinalityType
    <2>4. Cardinality(DOMAIN mounts') \in Nat
      BY <2>3, FS_CardinalityType
    <2>5. Cardinality(DOMAIN mounts') <= MaxMounts
      BY <2>3, <2>4, LimitsAssumption DEF PluginInv, PluginTyped
    <2> QED
      BY <1>1, <2>1, <2>5 DEF PluginInv, PluginTyped, TargetStates
  <1>3. MapsServed'
    BY <1>1 DEF PluginInv, MapsServed, Good
  <1> QED
    BY <1>2, <1>3 DEF PluginInv, DoubtTyped, InDoubt, RowsOwnNamespaces, Disk,
                      LeakedApart, NodesApart, RowsOn, Good, NodesServe, Hidden

LEMMA UnmountKeeps ==
  ASSUME IInv, NEW p \in Paths, Unmount(p)
  PROVE  IInv'
  <1> USE DEF IInv, CtlInv
  <1>0. PICK id : id = logdevs[p].id
    OBVIOUS
  <1>1. /\ call = Idle /\ p \in DOMAIN logdevs /\ mounts[p] = id
        /\ id \in DOMAIN minors
        /\ mounts' = Without(mounts, p) /\ minors' = Without(minors, id)
        /\ logdevs' = Without(logdevs, p)
        /\ UNCHANGED <<rows, target, node, leaked, allocs, nextId, call, life, residue,
                       stolen, halfGone, vanished>>
    <2>1. p \in DOMAIN logdevs /\ mounts[p] = id
      BY <1>0 DEF Unmount, TablesAgree
    <2> QED
      BY <2>1 DEF Unmount, UnmountLbc, MinorOf, history
  <1>2. /\ DOMAIN mounts' = DOMAIN mounts \ {p}
        /\ \A q \in DOMAIN mounts' : mounts'[q] = mounts[q]
    BY <1>1 DEF Without, Restrict
  <1>3. /\ DOMAIN minors' = DOMAIN minors \ {id}
        /\ \A m \in DOMAIN minors' : minors'[m] = minors[m]
    BY <1>1 DEF Without, Restrict
  <1>4. /\ DOMAIN logdevs' = DOMAIN logdevs \ {p}
        /\ \A q \in DOMAIN logdevs' : logdevs'[q] = logdevs[q]
    BY <1>1 DEF Without, Restrict
  <1>5. PluginInv'
    BY <1>1, PluginLosesMinor
  <1>6. CtlTyped' /\ CallSound' /\ MadeStands' /\ NoneLost'
    BY <1>1, CtlStill
  <1>7. TablesAgree'
    <2>1. mounts' = [q \in DOMAIN logdevs' |-> logdevs'[q].id]
      <3>1. mounts = [q \in DOMAIN logdevs |-> logdevs[q].id]
        BY DEF TablesAgree
      <3>2. /\ DOMAIN mounts' = DOMAIN logdevs'
            /\ \A q \in DOMAIN logdevs' : mounts'[q] = logdevs'[q].id
        BY <1>2, <1>4, <3>1
      <3> QED
        BY <1>1, <3>2 DEF Without, Restrict
    <2> QED
      BY <1>1, <2>1 DEF TablesAgree, Sure, InDoubt, RowsOf, ExtentOf
  <1>8. LogdevsOfDisks'
    BY <1>1, <1>4 DEF LogdevsOfDisks
  <1>9. MinorsOfDisks'
    <2>1. \A m : m # id /\ HasLogdev(m) => HasLogdev(m)'
      BY <1>0, <1>4 DEF HasLogdev
    <2> QED
      BY <1>1, <1>3, <2>1 DEF MinorsOfDisks, Disk
  <1>10. AttachedIsServed'
    <2> SUFFICES ASSUME NEW q \in DOMAIN logdevs', logdevs'[q].id \notin stolen
                 PROVE  LET k == logdevs'[q].id
                        IN  /\ k \in DOMAIN minors'
                            /\ minors'[k] = [path |-> q, disk |-> Disk(k),
                                             maps |-> MapsOf(k)]
      BY <1>1 DEF AttachedIsServed, MapsOf, RowsOf, Disk
    <2>1. q \in DOMAIN logdevs /\ q # p /\ logdevs'[q] = logdevs[q]
      BY <1>4
    <2>2. logdevs[q].id # id
      <3> SUFFICES ASSUME logdevs[q].id = id PROVE FALSE
        OBVIOUS
      <3>1. id \notin stolen
        BY <2>1
      <3>2. minors[id] = [path |-> q, disk |-> Disk(id), maps |-> MapsOf(id)]
        BY <2>1, <3>1 DEF AttachedIsServed
      <3>3. minors[id] = [path |-> p, disk |-> Disk(id), maps |-> MapsOf(id)]
        BY <1>0, <1>1, <3>1 DEF AttachedIsServed
      <3>4. minors[id].path = q /\ minors[id].path = p
        BY <3>2, <3>3
      <3> QED
        BY <2>1, <3>4
    <2> QED
      BY <1>3, <2>1, <2>2 DEF AttachedIsServed
  <1> QED
    BY <1>5, <1>6, <1>7, <1>8, <1>9, <1>10

LEMMA CleanUpKeeps ==
  ASSUME IInv, NEW p \in Paths, CleanUp(p)
  PROVE  IInv'
  <1> USE DEF IInv, CtlInv
  <1>1. /\ call = Idle /\ p \in DOMAIN minors /\ minors' = Without(minors, p)
        /\ stolen' = stolen \cup {id \in DOMAIN allocs : id = p}
        /\ UNCHANGED <<rows, mounts, target, node, leaked, allocs, logdevs, nextId, call,
                       life, residue, halfGone, vanished>>
    BY DEF CleanUp, CleanUpLbc, StaleMinor, pluginVars, ctlVars
  <1>2. /\ DOMAIN minors' = DOMAIN minors \ {p}
        /\ \A m \in DOMAIN minors' : minors'[m] = minors[m]
    BY <1>1 DEF Without, Restrict
  <1>3. PluginInv'
    BY <1>1, PluginLosesMinor
  <1>4. CtlTyped' /\ CallSound' /\ MadeStands' /\ NoneLost'
    BY <1>1, CtlStill
  <1>5. TablesAgree' /\ LogdevsOfDisks' /\ MinorsOfDisks'
    BY <1>1, <1>2 DEF TablesAgree, Sure, InDoubt, RowsOf, ExtentOf, LogdevsOfDisks,
                      MinorsOfDisks, HasLogdev, Disk
  <1>6. AttachedIsServed'
    BY <1>1, <1>2 DEF AttachedIsServed, LogdevsOfDisks, MapsOf, RowsOf, Disk
  <1> QED
    BY <1>3, <1>4, <1>5, <1>6

LEMMA NodeAppearsKeeps ==
  ASSUME IInv, NEW n \in NsIds, NodeAppears(n)
  PROVE  IInv'
  <1> USE DEF IInv, CtlInv
  <1> DEFINE d == Min(DevNames \ DOMAIN node)
  <1>1. /\ n \in Hidden /\ n \in DOMAIN target /\ \A c \in DOMAIN node : node[c] # n
        /\ node' = With(node, d, n)
        /\ UNCHANGED <<rows, mounts, target, minors, leaked, allocs, logdevs, nextId,
                       call, life, residue, stolen, halfGone, vanished>>
    BY DEF NodeAppears, Appear, Attach, Hidden, Range, pluginVars, ctlVars, history
  <1>2. d \in DevNames \ DOMAIN node
    <2>1. DevNames \ DOMAIN node # {}
      BY <1>1, NameLeft DEF PluginInv
    <2> QED
      BY <2>1, SetsFacts, MinIn
  <1> HIDE DEF d
  <1>3. /\ DOMAIN node' = DOMAIN node \cup {d} /\ node'[d] = n
        /\ \A c \in DOMAIN node : node'[c] = node[c]
    BY <1>1, <1>2 DEF With
  <1>4. ~Good /\ ~Good'
    BY <1>1 DEF PluginInv, NodesServe, Good
  <1>5. PluginInv'
    <2>1. PluginTyped'
      BY <1>1, <1>2, <1>3 DEF PluginInv, PluginTyped, TargetStates
    <2>2. NodesApart'
      BY <1>1, <1>3 DEF PluginInv, NodesApart
    <2> QED
      BY <1>1, <1>4, <2>1, <2>2 DEF PluginInv, DoubtTyped, InDoubt, RowsOwnNamespaces,
                                    Disk, LeakedApart, RowsOn, NodesServe, MapsServed
  <1>6. CtlTyped'
    BY <1>1 DEF CtlTyped, Bounded
  <1>7. CallSound'
    BY <1>1 DEF CallSound, Sure, InDoubt, DiskExtents, RowsOf, ExtentOf, HasLogdev, Idle
  <1>8. TablesAgree' /\ LogdevsOfDisks' /\ MinorsOfDisks' /\ AttachedIsServed'
    BY <1>1 DEF TablesAgree, Sure, InDoubt, RowsOf, ExtentOf, LogdevsOfDisks, MinorsOfDisks,
                HasLogdev, Disk, AttachedIsServed, MapsOf
  <1>9. NoneLost' /\ MadeStands'
    BY <1>1 DEF NoneLost, MadeStands, Disk
  <1> QED
    BY <1>5, <1>6, <1>7, <1>8, <1>9

LEMMA RestartKeeps ==
  ASSUME IInv, Restart
  PROVE  IInv'
  <1> USE DEF IInv, CtlInv
  <1>1. /\ DOMAIN rows' = {} /\ mounts' = [p \in {} |-> 0]
        /\ allocs' = [id \in {} |-> 0] /\ logdevs' = [p \in {} |-> 0] /\ nextId' = 0
        /\ call' = Idle /\ residue' = {} /\ stolen' = {} /\ vanished' = {}
        /\ UNCHANGED <<target, node, minors, leaked, halfGone>>
    BY DEF Restart, ForgetTables, nodeVars
  <1>2. life \in Nat \ {0} /\ life' = life + 1
    BY DEF Restart, CtlTyped
  <1>3. PluginTyped'
    <2>1. Cardinality(DOMAIN mounts') <= MaxMounts /\ DOMAIN mounts' = {}
      BY <1>1, FS_EmptySet, LimitsAssumption
    <2>2. TargetStates \subseteq TargetStates'
      BY <1>2 DEF TargetStates
    <2>3. \A m \in DOMAIN minors : minors[m].disk.life \in 1 .. life'
      BY <1>2 DEF PluginInv, PluginTyped
    <2> QED
      BY <1>1, <2>1, <2>2, <2>3 DEF PluginInv, PluginTyped
  <1>4. PluginInv'
    BY <1>1, <1>3 DEF PluginInv, DoubtTyped, RowsOwnNamespaces, LeakedApart, NodesApart,
                      RowsOn, Good, NodesServe, Hidden, MapsServed
  <1>5. CtlTyped'
    <2>1. /\ call' \in [op : {"none", "alloc", "rollback", "release"}, id : Nat,
                        todo : SUBSET Ssus, made : SUBSET Extents]
          /\ IsFiniteSet(call'.made) /\ Bounded(call.made)'
      BY <1>1, FS_EmptySet DEF Idle, Bounded
    <2>2. DOMAIN allocs' = {} /\ nextId' \in Nat /\ life' \in Nat \ {0}
      BY <1>1, <1>2
    <2>3. halfGone' \in BOOLEAN
      BY <1>1 DEF CtlTyped
    <2> QED
      BY <2>1, <2>2, <2>3 DEF CtlTyped
  <1>6. CallSound'
    <2>1. Sure(DiskExtents(nextId))' = {}
      BY <1>1 DEF Sure, DiskExtents, RowsOf
    <2> QED
      BY <1>1, <2>1 DEF CallSound, Idle
  <1>7. TablesAgree' /\ MadeStands' /\ LogdevsOfDisks' /\ AttachedIsServed'
    BY <1>1 DEF TablesAgree, MadeStands, Idle, LogdevsOfDisks, AttachedIsServed
  <1>8. MinorsOfDisks'
    <2>1. \A m \in DOMAIN minors : minors[m].disk.life # life'
      BY <1>2 DEF PluginInv, PluginTyped
    <2> QED
      BY <1>1, <2>1 DEF MinorsOfDisks
  <1>9. NoneLost'
    <2>1. \A n \in DOMAIN target : target[n].disk.life < life'
      BY <1>2 DEF PluginInv, PluginTyped, TargetStates
    <2> QED
      BY <1>1, <2>1 DEF NoneLost
  <1> QED
    BY <1>4, <1>5, <1>6, <1>7, <1>8, <1>9

LEMMA NextKeeps == IInv /\ [Next]_vars => IInv'
  <1> SUFFICES ASSUME IInv, [Next]_vars PROVE IInv'
    OBVIOUS
  <1>1. CASE \E ssus \in (SUBSET Ssus) \ {{}} : AllocBegin(ssus)
    BY <1>1, AllocBeginKeeps
  <1>2. CASE AllocCreate \/ AllocCreateFails \/ RollBack \/ AllocCommit
    BY <1>2, AllocCreateKeeps, AllocCreateFailsKeeps, RollBackKeeps, AllocCommitKeeps
  <1>3. CASE \E id \in DOMAIN allocs : ReleaseBegin(id)
    BY <1>3, ReleaseBeginKeeps
  <1>4. CASE ReleaseNext \/ ReleaseStops
    BY <1>4, ReleaseNextKeeps, ReleaseStopsKeeps
  <1>5. CASE \E id \in DOMAIN allocs, p \in Paths : Mount(id, p)
    BY <1>5, MountKeeps
  <1>6. CASE \E p \in Paths : Unmount(p) \/ CleanUp(p)
    BY <1>6, UnmountKeeps, CleanUpKeeps
  <1>7. CASE \E n \in NsIds : NodeAppears(n)
    BY <1>7, NodeAppearsKeeps
  <1>8. CASE Restart
    BY <1>8, RestartKeeps
  <1>9. CASE UNCHANGED vars
    <2>1. UNCHANGED <<rows, mounts, target, node, minors, leaked, allocs, logdevs, nextId,
                      call, life, residue, stolen, halfGone, vanished>>
      BY <1>9 DEF vars, lbcVars, pluginVars, nodeVars, ctlVars, history
    <2>2. PluginInv'
      BY <1>9, <2>1, PluginStill DEF IInv, vars
    <2>3. CtlTyped' /\ NoneLost' /\ MadeStands'
      BY <2>1 DEF IInv, CtlInv, CtlTyped, Bounded, NoneLost, MadeStands, Disk
    <2>4. CallSound'
      BY <2>1 DEF IInv, CtlInv, CallSound, Sure, InDoubt, DiskExtents, RowsOf, ExtentOf,
                  HasLogdev, Idle
    <2>5. TablesAgree' /\ LogdevsOfDisks' /\ MinorsOfDisks' /\ AttachedIsServed'
      BY <2>1 DEF IInv, CtlInv, TablesAgree, Sure, InDoubt, RowsOf, ExtentOf,
                  LogdevsOfDisks, MinorsOfDisks, HasLogdev, Disk, AttachedIsServed, MapsOf
    <2> QED
      BY <2>2, <2>3, <2>4, <2>5 DEF IInv, CtlInv
  <1> QED
    BY <1>1, <1>2, <1>3, <1>4, <1>5, <1>6, <1>7, <1>8, <1>9 DEF Next

-----------------------------------------------------------------------------
(* What is proved of the node *)

\* The tables, the target, the host and ReqShim are as the invariant says in
\* every state, whatever tools fail, however late nodes appear and whenever
\* the manager is killed (ssu_controller.cpp on ssu_plugin_lbc_mock.cpp).
THEOREM NodeInvariant == Spec => []IInv
  BY InitHolds, NextKeeps, PTL DEF Spec

\* Every variable has its type, and the plugin's mount table stays within its
\* limit (LBC_MOCK_MAX_MOUNTS).
THEOREM NodeTypeCorrect == Spec => []TypeOK
  <1>1. IInv => TypeOK
    <2> SUFFICES ASSUME IInv PROVE TypeOK
      OBVIOUS
    <2>1. call.op \in {"none", "alloc", "rollback", "release"}
      BY DEF IInv, CtlInv, CtlTyped
    <2> QED
      BY <2>1 DEF TypeOK, IInv, PluginInv, PluginTyped, CtlInv, CtlTyped, RowStates, Range
  <1> QED
    BY <1>1, NodeInvariant, PTL

\* The namespace of a row of the plugin is there and was made for that extent
\* of its disk, and no other row has it, so that delete_ns takes no other
\* disk's.  The exception is an id of which a deletion failed behind its rmdir
\* (run_mock.sh, detach_delete), while a row or a disk has that id: the next
\* create_ns may give it out again.  No other id is ever in danger.
THEOREM NamespacesHaveOneRow == Spec => []RowsOwnNamespaces
  <1>1. IInv => RowsOwnNamespaces
    BY DEF IInv, PluginInv
  <1> QED
    BY <1>1, NodeInvariant, PTL

\* The controller's tables and the plugin's agree after every plugin call,
\* but for what a failed rollback left and for the ids in doubt, of which a
\* deletion failed behind its rmdir: the extents of all other ids agree, also
\* those of the same disks.
THEOREM ControllerAndPluginAgree == Spec => []TablesAgree
  <1>1. IInv => TablesAgree
    BY DEF IInv, CtlInv
  <1> QED
    BY <1>1, NodeInvariant, PTL

\* Every namespace is an extent of a disk or of the call under way, or one
\* that create_ns, a dead manager or a failed rollback gave up.
THEOREM NamespacesAreKept == Spec => []NoneLost
  <1>1. IInv => NoneLost
    BY DEF IInv, CtlInv
  <1> QED
    BY <1>1, NodeInvariant, PTL

\* While every node appeared in time and no deletion failed behind its beginning,
\* no two rows name one device and a ReqShim device reaches its own disk only, across
\* restarts and although names are used again.
THEOREM IoStaysOnItsDisk == Spec => []IoReachesOwnDisk
  <1>1. IInv => IoReachesOwnDisk
    <2> SUFFICES ASSUME IInv, Good
                 PROVE  /\ \A i, j \in DOMAIN rows : rows[i].dev = rows[j].dev => i = j
                        /\ \A m \in DOMAIN minors : \A e \in minors[m].maps :
                             /\ e.dev \in DOMAIN node
                             /\ target[node[e.dev]].disk = minors[m].disk
                             /\ target[node[e.dev]].off = e.off
      BY DEF IoReachesOwnDisk, Good
    <2>1. \A i, j \in DOMAIN rows : rows[i].dev = rows[j].dev => rows[i].ns = rows[j].ns
      BY DEF IInv, PluginInv, NodesServe
    <2>2. \A i, j \in DOMAIN rows : rows[i].ns = rows[j].ns => i = j
      BY WholeIsSure DEF IInv, Good
    <2> QED
      BY <2>1, <2>2 DEF IInv, PluginInv, MapsServed
  <1> QED
    BY <1>1, NodeInvariant, PTL

\* A path the controller shows as mounted is served by ReqShim with the
\* extents of its disk, unless a cleanup by path destroyed the device or the
\* deletion of another disk, whose namespace has an id in doubt, cleared one
\* of its rows at the plugin.
THEOREM MountedDisksAreServed == Spec => []AttachedIsServed
  <1>1. IInv => AttachedIsServed
    BY DEF IInv, CtlInv
  <1> QED
    BY <1>1, NodeInvariant, PTL
=============================================================================
