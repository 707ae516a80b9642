------------------------ MODULE SsuController_proofs ------------------------
(***************************************************************************)
(* Theorems about the controller, for every set of SSUs, every size, name  *)
(* and device, every table size, and with or without failing deletions.    *)
(***************************************************************************)
EXTENDS SsuController, ProofFacts, FiniteSetTheorems, TLAPS

(* The inductive invariant.  Its parts lean on one another: a mapping stays *)
(* current because a mounted disk is not released, the mounted state is     *)
(* right because every device belongs to a live disk, and rows keep their   *)
(* namespaces because the rows of a disk are on distinct SSUs.              *)
IInv ==
  /\ TypeOK
  /\ IdsIssued
  /\ RetiredNeverActive
  /\ MappingIsCurrent
  /\ MountedIffAttached
  /\ ExclusiveOnce
  /\ RowsSpread
  /\ RowsBacked
  /\ NamesUnique

-----------------------------------------------------------------------------
(* Arithmetic of placement *)

LEMMA DivType ==
  ASSUME NEW a \in Nat, NEW b \in Nat \ {0}
  PROVE  a \div b \in Nat /\ a % b \in 0 .. b - 1
  OBVIOUS

\* An extent's length and offset are natural numbers.
LEMMA ExtentTypes ==
  ASSUME NEW size \in Nat, NEW n \in Nat \ {0}, NEW i \in Nat
  PROVE  ExtentLen(size, n, i) \in Nat /\ ExtentOff(size, n, i) \in Nat
  <1>1. size \div n \in Nat /\ size % n \in Nat
    BY DivType
  <1>2. i * (size \div n) \in Nat
    BY <1>1
  <1> QED
    BY <1>1, <1>2 DEF ExtentLen, ExtentOff

\* A request that passes alloc's tests is split into at least one extent.
LEMMA ExtentCountType ==
  ASSUME TypeOK, NEW req \in Request, online # {}
  PROVE  ExtentCount(req) \in Nat \ {0}
  <1>1. req.size \in Nat \ {0} /\ req.disks \in Nat
    <2>1. IsFiniteSet(Ssus)
      BY SsusAssumption
    <2>2. Cardinality(Ssus) \in Nat
      BY <2>1, FS_CardinalityType
    <2>3. req.size \in Sizes /\ req.disks \in 0 .. Cardinality(Ssus)
      BY DEF Request
    <2>4. req.size \in Nat \ {0}
      BY <2>3, SizesAssumption
    <2>5. req.disks \in Nat
      BY <2>2, <2>3
    <2> QED
      BY <2>4, <2>5
  <1>2. Cardinality(online) \in Nat \ {0}
    <2>1. online \subseteq Ssus
      BY DEF TypeOK
    <2>2. IsFiniteSet(online)
      BY <2>1, SsusAssumption, FS_Subset
    <2> QED
      BY <2>2, FS_CardinalityType, FS_EmptySet
  <1> QED
    BY <1>1, <1>2 DEF ExtentCount

-----------------------------------------------------------------------------
(* The id alloc issues is the counter itself. *)
LEMMA NextIdIsCounter ==
  ASSUME IInv, nextId < MaxAllocId
  PROVE  NextAutoId = nextId
  <1> DEFINE P(n) == /\ n \notin Active \cup released
                     /\ \A m \in nextId .. n - 1 : m \in Active \cup released
  <1>1. nextId \in Nat /\ MaxAllocId \in Nat
    BY BoundAssumption DEF IInv, TypeOK
  <1>2. nextId \notin Active \cup released
    BY <1>1 DEF IInv, IdsIssued
  <1>3. nextId \in nextId .. MaxAllocId /\ P(nextId)
    BY <1>1, <1>2
  <1>4. NextAutoId = CHOOSE n \in nextId .. MaxAllocId : P(n)
    BY DEF NextAutoId
  <1> HIDE DEF P
  <1>5. NextAutoId \in nextId .. MaxAllocId /\ P(NextAutoId)
    BY <1>3, <1>4
  <1>6. CASE NextAutoId > nextId
    <2>1. nextId \in nextId .. NextAutoId - 1
      BY <1>1, <1>5, <1>6
    <2> QED
      BY <2>1, <1>2, <1>5 DEF P
  <1> QED
    BY <1>1, <1>5, <1>6

\* The row alloc makes for an SSU that has a namespace id left is well typed.
LEMMA NewRowTyped ==
  ASSUME TypeOK, NEW req \in Request, online # {},
         NEW sel \in [0 .. ExtentCount(req) - 1 -> Ssus],
         NEW r \in 0 .. ExtentCount(req) - 1, FreeNs(sel[r]) # {}
  PROVE  /\ NewRows(req, sel)[r] \in Extent
         /\ NewRows(req, sel)[r].ssu = sel[r]
         /\ NewRows(req, sel)[r].ns \in FreeNs(sel[r])
  <1> DEFINE n == ExtentCount(req)
  <1>1. n \in Nat \ {0} /\ req.size \in Nat
    BY ExtentCountType, SizesAssumption DEF Request
  <1>2. NewRows(req, sel)[r] =
          [ssu |-> sel[r], ns |-> NewNs(sel[r]),
           off |-> ExtentOff(req.size, n, r), len |-> ExtentLen(req.size, n, r),
           sector |-> PhysSector(sel[r])]
    BY DEF NewRows
  <1>3. sel[r] \in Ssus /\ r \in Nat
    BY <1>1
  <1>4. NewNs(sel[r]) \in FreeNs(sel[r]) /\ FreeNs(sel[r]) \subseteq NsIds
    BY DEF NewNs, FreeNs
  <1>5. ExtentOff(req.size, n, r) \in Nat /\ ExtentLen(req.size, n, r) \in Nat
    BY <1>1, <1>3, ExtentTypes
  <1>6. PhysSector(sel[r]) \in Nat
    BY <1>3, DivType, SectorAssumption DEF PhysSector, TypeOK
  <1> QED
    BY <1>2, <1>3, <1>4, <1>5, <1>6 DEF Extent

\* First fit never takes an SSU twice.
LEMMA FirstFitSpreads ==
  ASSUME NEW sel, NEW size, NEW n \in Nat, FirstFit(sel, size, n),
         NEW i \in 0 .. n - 1, NEW j \in 0 .. n - 1, sel[i] = sel[j]
  PROVE  i = j
  <1>1. \A a \in 0 .. n - 1 : sel[a] \notin {sel[b] : b \in 0 .. a - 1}
    BY DEF FirstFit
  <1>2. CASE i < j
    BY <1>1, <1>2
  <1>3. CASE j < i
    BY <1>1, <1>3
  <1> QED
    BY <1>2, <1>3

\* The namespaces create_ns makes for the extents of the roles in R.
NewNamespaces(req, sel, R) ==
  {[ssu |-> NewRows(req, sel)[r].ssu, ns |-> NewRows(req, sel)[r].ns,
    id |-> nextId] : r \in R}

\* The namespaces create_ns makes for some of a request's extents are new to
\* the plugin and pairwise on distinct SSUs.
LEMMA NewNamespacesFresh ==
  ASSUME IInv, NEW req \in Request, CanAlloc(req),
         NEW sel \in [0 .. ExtentCount(req) - 1 -> Ssus],
         FirstFit(sel, req.size, ExtentCount(req)),
         NEW R \in SUBSET (0 .. ExtentCount(req) - 1),
         \A r \in R : CanCreate(NewRows(req, sel)[r].ssu, nextId)
  PROVE  LET made == NewNamespaces(req, sel, R)
         IN  /\ made \subseteq Namespace
             /\ \A a, b \in made : a.ssu = b.ssu => a = b
             /\ \A a \in made, b \in namespaces :
                  ~(a.ssu = b.ssu /\ a.ns = b.ns)
  <1> DEFINE rows == NewRows(req, sel)
             made == NewNamespaces(req, sel, R)
  <1>1. ExtentCount(req) \in Nat \ {0} /\ online # {}
    BY ExtentCountType DEF IInv, CanAlloc
  <1>2. \A r \in 0 .. ExtentCount(req) - 1 : rows[r].ssu = sel[r]
    BY DEF NewRows
  <1>3. ASSUME NEW r \in R
        PROVE  /\ rows[r] \in Extent /\ rows[r].ssu = sel[r]
               /\ rows[r].ns \in FreeNs(sel[r])
    <2>1. FreeNs(sel[r]) # {}
      BY <1>2 DEF CanCreate
    <2> QED
      BY <1>1, <2>1, NewRowTyped DEF IInv
  <1>4. nextId \in Nat
    BY DEF IInv, TypeOK
  <1> HIDE DEF rows
  <1>5. made = {[ssu |-> rows[r].ssu, ns |-> rows[r].ns, id |-> nextId] : r \in R}
    BY DEF rows, NewNamespaces
  <1> HIDE DEF made
  <1>6. made \subseteq Namespace
    <2>1. ASSUME NEW r \in R
          PROVE  [ssu |-> rows[r].ssu, ns |-> rows[r].ns, id |-> nextId] \in Namespace
      <3>1. rows[r].ssu \in Ssus /\ rows[r].ns \in NsIds
        BY <1>3 DEF Extent
      <3> QED
        BY <1>4, <3>1 DEF Namespace
    <2> QED
      BY <1>5, <2>1
  <1>7. ASSUME NEW a \in made, NEW b \in made, a.ssu = b.ssu
        PROVE  a = b
    <2>1. PICK q \in R : a = [ssu |-> rows[q].ssu, ns |-> rows[q].ns, id |-> nextId]
      BY <1>5
    <2>2. PICK r \in R : b = [ssu |-> rows[r].ssu, ns |-> rows[r].ns, id |-> nextId]
      BY <1>5
    <2>3. sel[q] = sel[r]
      BY <1>3, <1>7, <2>1, <2>2
    <2>4. q = r
      BY <1>1, <2>3, FirstFitSpreads
    <2> QED
      BY <2>1, <2>2, <2>4
  <1>8. ASSUME NEW a \in made, NEW b \in namespaces, a.ssu = b.ssu, a.ns = b.ns
        PROVE  FALSE
    BY <1>3, <1>5, <1>8 DEF FreeNs
  <1> QED
    BY <1>6, <1>7, <1>8 DEF made

-----------------------------------------------------------------------------
(* The invariant holds initially and every operation preserves it *)

LEMMA InitInv == Init => IInv
  BY DEF Init, IInv, TypeOK, IdsIssued, RetiredNeverActive, MappingIsCurrent,
         MountedIffAttached, ExclusiveOnce, RowsSpread, RowsBacked,
         NamesUnique, Active, Attached, HasLogdev

LEMMA RefreshInv ==
  ASSUME IInv, NEW seen \in SUBSET Ssus,
         NEW healthy \in SUBSET (seen \cup Known),
         NEW cap \in [seen -> Totals], RefreshPool(seen, cap, healthy)
  PROVE  IInv'
  <1>1. pos' \in [Ssus -> Nat]
    <2> DEFINE Index(s) ==
          IF s \in seen THEN Cardinality({t \in seen : t <= s})
          ELSE IF s \in Known
            THEN Cardinality(seen) +
                 Cardinality({t \in Known \ seen : pos[t] <= pos[s]})
          ELSE 0
    <2>1. ASSUME NEW S \in SUBSET Ssus
          PROVE  Cardinality(S) \in Nat
      BY SsusAssumption, FS_Subset, FS_CardinalityType
    <2>2. ASSUME NEW s \in Ssus
          PROVE  Index(s) \in Nat
      <3>1. Cardinality({t \in seen : t <= s}) \in Nat
        BY <2>1
      <3>2. Cardinality(seen) \in Nat
        BY <2>1
      <3>3. Cardinality({t \in Known \ seen : pos[t] <= pos[s]}) \in Nat
        BY <2>1 DEF Known
      <3> QED
        BY <3>1, <3>2, <3>3
    <2>3. pos' = [s \in Ssus |-> Index(s)]
      BY DEF RefreshPool
    <2> HIDE DEF Index
    <2> QED
      BY <2>2, <2>3
  <1>2. total' \in [Ssus -> Nat] /\ online' \subseteq Ssus
    <2>1. total' \in [Ssus -> Nat]
      BY TotalsAssumption DEF RefreshPool, IInv, TypeOK
    <2>2. online' \subseteq Ssus
      BY DEF RefreshPool, Known
    <2> QED
      BY <2>1, <2>2
  <1>3. TypeOK'
    BY <1>1, <1>2 DEF RefreshPool, IInv, TypeOK, Active, Attached,
                      IsExtentTable
  <1> QED
    BY <1>3 DEF RefreshPool, IInv, IdsIssued, RetiredNeverActive,
         MappingIsCurrent, MountedIffAttached, ExclusiveOnce, RowsSpread,
         RowsBacked, NamesUnique, Active, Attached, HasLogdev, NamespacesOf

\* The bytes of one disk on an SSU are a natural number.
LEMMA LenOnType ==
  ASSUME NEW ext, IsExtentTable(ext), NEW s
  PROVE  LenOn(ext, s) \in Nat
  <1>1. CASE \E r \in DOMAIN ext : ext[r].ssu = s
    <2> DEFINE row == CHOOSE r \in DOMAIN ext : ext[r].ssu = s
    <2>1. row \in DOMAIN ext
      BY <1>1
    <2>2. ext[row].len \in Nat
      BY <2>1 DEF IsExtentTable, Extent
    <2>3. LenOn(ext, s) = ext[row].len
      BY <1>1 DEF LenOn
    <2> QED
      BY <2>2, <2>3
  <1>2. CASE ~\E r \in DOMAIN ext : ext[r].ssu = s
    BY <1>2 DEF LenOn
  <1> QED
    BY <1>1, <1>2

LEMMA AllocSucceedsInv ==
  ASSUME IInv, NEW req \in Request, CanAlloc(req),
         NEW sel \in [0 .. ExtentCount(req) - 1 -> Ssus],
         FirstFit(sel, req.size, ExtentCount(req)),
         AllocSucceeds(req, nextId, NewRows(req, sel))
  PROVE  IInv'
  <1> DEFINE rows == NewRows(req, sel)
             n == ExtentCount(req)
  <1>1. n \in Nat \ {0}
    BY ExtentCountType DEF IInv, CanAlloc
  <1>2. DOMAIN rows = 0 .. n - 1 /\ \A r \in 0 .. n - 1 : rows[r].ssu = sel[r]
    BY DEF NewRows
  <1>3. IsExtentTable(rows)
    <2>1. ASSUME NEW r \in 0 .. n - 1
          PROVE  rows[r] \in Extent
      <3>1. FreeNs(sel[r]) # {}
        BY <1>2 DEF AllocSucceeds, CanCreate
      <3> QED
        BY <3>1, NewRowTyped DEF IInv, CanAlloc
    <2> QED
      BY <1>1, <1>2, <2>1 DEF IsExtentTable
  <1>4. \A q, r \in DOMAIN rows : rows[q].ssu = rows[r].ssu => q = r
    BY <1>1, <1>2, FirstFitSpreads
  <1>5. /\ NamespacesOf(nextId, rows) \subseteq Namespace
        /\ \A a, b \in NamespacesOf(nextId, rows) : a.ssu = b.ssu => a = b
        /\ \A a \in NamespacesOf(nextId, rows), b \in namespaces :
             ~(a.ssu = b.ssu /\ a.ns = b.ns)
    <2>1. \A r \in 0 .. n - 1 : CanCreate(rows[r].ssu, nextId)
      BY <1>2 DEF AllocSucceeds
    <2>2. NamespacesOf(nextId, rows) = NewNamespaces(req, sel, 0 .. n - 1)
      BY <1>2 DEF NamespacesOf, NewNamespaces
    <2>3. (0 .. n - 1) \in SUBSET (0 .. ExtentCount(req) - 1)
      OBVIOUS
    <2> HIDE DEF n
    <2>4. LET made == NewNamespaces(req, sel, 0 .. n - 1)
          IN  /\ made \subseteq Namespace
              /\ \A a, b \in made : a.ssu = b.ssu => a = b
              /\ \A a \in made, b \in namespaces :
                   ~(a.ssu = b.ssu /\ a.ns = b.ns)
      BY <2>1, <2>3, NewNamespacesFresh
    <2> QED
      BY <2>2, <2>4
  <1>6. nextId \in Nat /\ nextId \notin Active /\ nextId \notin retired
    BY DEF IInv, TypeOK, IdsIssued
  <1>7. /\ Active' = Active \cup {nextId}
        /\ allocs'[nextId] = [req |-> req, state |-> "ACTIVE", ext |-> rows]
        /\ \A x \in Active : allocs'[x] = allocs[x]
    BY <1>6 DEF AllocSucceeds, Active
  <1>8. UNCHANGED <<pos, total, online, logdevs, released, retired>>
    BY DEF AllocSucceeds
  <1>9. namespaces' = namespaces \cup NamespacesOf(nextId, rows)
    BY DEF AllocSucceeds
  <1>10. nextId' = nextId + 1
    BY DEF AllocSucceeds, IdAfter
  <1>11. \A id : HasLogdev(id)' <=> HasLogdev(id)
    BY <1>8 DEF HasLogdev, Attached
  <1>12. ~HasLogdev(nextId)
    BY <1>6 DEF IInv, MappingIsCurrent, HasLogdev
  <1>13. used' \in [Ssus -> Nat]
    BY <1>3, LenOnType DEF AllocSucceeds, Charged, IInv, TypeOK
  <1> HIDE DEF rows, n
  <1>15. TypeOK'
    <2>1. /\ pos' \in [Ssus -> Nat] /\ total' \in [Ssus -> Nat]
          /\ used' \in [Ssus -> Nat] /\ online' \subseteq Ssus
      BY <1>8, <1>13 DEF IInv, TypeOK
    <2>2. Active' \subseteq Nat
      BY <1>6, <1>7 DEF IInv, TypeOK
    <2>3. ASSUME NEW id \in Active'
          PROVE  /\ allocs'[id] \in [req: Request, state: {"ACTIVE", "MOUNTED"},
                                     ext: {allocs'[id].ext}]
                 /\ IsExtentTable(allocs'[id].ext)
      <3>1. CASE id = nextId
        BY <1>3, <1>7, <3>1
      <3>2. CASE id \in Active
        BY <1>7, <3>2 DEF IInv, TypeOK
      <3> QED
        BY <1>7, <3>1, <3>2
    <2>4. Attached' \subseteq Devs /\ \A d \in Attached' : logdevs'[d].id \in Nat
      BY <1>8 DEF IInv, TypeOK, Attached
    <2>5. /\ released' \subseteq Nat /\ nextId' \in Nat /\ retired' \subseteq Nat
          /\ namespaces' \subseteq Namespace
      BY <1>5, <1>6, <1>8, <1>9, <1>10 DEF IInv, TypeOK
    <2> QED
      BY <2>1, <2>2, <2>3, <2>4, <2>5 DEF TypeOK, IsExtentTable
  <1>16. IdsIssued' /\ RetiredNeverActive'
    BY <1>6, <1>7, <1>8, <1>10
       DEF IInv, TypeOK, IdsIssued, RetiredNeverActive
  <1>17. MappingIsCurrent'
    BY <1>7, <1>8 DEF IInv, MappingIsCurrent, Attached
  <1>18. MountedIffAttached'
    BY <1>7, <1>11, <1>12 DEF IInv, MountedIffAttached
  <1>19. ExclusiveOnce'
    BY <1>7, <1>8 DEF IInv, ExclusiveOnce, MappingIsCurrent, Attached
  <1>20. RowsSpread'
    BY <1>4, <1>7 DEF IInv, RowsSpread
  <1>21. RowsBacked'
    <2>1. \A id \in Active' : NamespacesOf(id, allocs'[id].ext) \subseteq namespaces'
      BY <1>7, <1>9 DEF IInv, RowsBacked
    <2>2. \A a, b \in namespaces' : a.ssu = b.ssu /\ a.ns = b.ns => a = b
      BY <1>5, <1>9 DEF IInv, RowsBacked
    <2> QED
      BY <2>1, <2>2 DEF RowsBacked, NamespacesOf
  <1>22. NamesUnique'
    BY <1>7 DEF IInv, NamesUnique, CanAlloc, NameActive
  <1> QED
    BY <1>15, <1>16, <1>17, <1>18, <1>19, <1>20, <1>21, <1>22 DEF IInv

LEMMA AllocRollsBackInv ==
  ASSUME IInv, NEW req \in Request, CanAlloc(req),
         NEW sel \in [0 .. ExtentCount(req) - 1 -> Ssus],
         FirstFit(sel, req.size, ExtentCount(req)), NEW k \in DOMAIN sel,
         AllocRollsBack(nextId, NewRows(req, sel), k)
  PROVE  IInv'
  <1> DEFINE rows == NewRows(req, sel)
             R == {i \in DOMAIN rows : i < k}
             made == NewNamespaces(req, sel, R)
  <1>1. DOMAIN rows = 0 .. ExtentCount(req) - 1
    BY DEF NewRows
  <1>2. /\ made \subseteq Namespace
        /\ \A a, b \in made : a.ssu = b.ssu => a = b
        /\ \A a \in made, b \in namespaces : ~(a.ssu = b.ssu /\ a.ns = b.ns)
    <2>1. R \in SUBSET (0 .. ExtentCount(req) - 1)
      BY <1>1
    <2>2. \A r \in R : CanCreate(rows[r].ssu, nextId)
      BY DEF AllocRollsBack
    <2> HIDE DEF R
    <2> QED
      BY <2>1, <2>2, NewNamespacesFresh
  <1>3. NamespacesOf(nextId, FirstRows(rows, k)) = made
    BY DEF NamespacesOf, FirstRows, NewNamespaces
  <1>4. PICK undeleted \in SUBSET made : namespaces' = namespaces \cup undeleted
    BY <1>3 DEF AllocRollsBack
  <1>5. UNCHANGED <<pos, total, used, online, allocs, logdevs, released, nextId,
                    retired>>
    BY DEF AllocRollsBack, poolVars
  <1> HIDE DEF made
  <1>6. namespaces' \subseteq Namespace
    BY <1>2, <1>4 DEF IInv, TypeOK
  <1>7. TypeOK'
    BY <1>5, <1>6 DEF IInv, TypeOK, Active, Attached, IsExtentTable
  <1>8. RowsBacked'
    <2>1. \A id \in Active' : NamespacesOf(id, allocs'[id].ext) \subseteq namespaces'
      BY <1>4, <1>5 DEF IInv, RowsBacked, Active
    <2>2. \A a, b \in namespaces' : a.ssu = b.ssu /\ a.ns = b.ns => a = b
      BY <1>2, <1>4 DEF IInv, RowsBacked
    <2> QED
      BY <2>1, <2>2 DEF RowsBacked, NamespacesOf
  <1> QED
    BY <1>5, <1>7, <1>8
       DEF IInv, IdsIssued, RetiredNeverActive, MappingIsCurrent,
           MountedIffAttached, ExclusiveOnce, RowsSpread, NamesUnique,
           Active, Attached, HasLogdev

\* Giving rows back never makes the used bytes negative.
LEMMA RefundedType ==
  ASSUME TypeOK, NEW ext, IsExtentTable(ext)
  PROVE  Refunded(ext) \in [Ssus -> Nat]
  BY LenOnType DEF Refunded, TypeOK

\* Deleting the namespaces of some rows of one disk leaves every other row
\* its namespace.
LEMMA OtherRowsBacked ==
  ASSUME IInv, NEW id \in Active, NEW gone, NEW kept,
         DOMAIN gone \subseteq DOMAIN allocs[id].ext,
         \A r \in DOMAIN gone : gone[r] = allocs[id].ext[r],
         DOMAIN kept \subseteq DOMAIN allocs[id].ext \ DOMAIN gone,
         \A r \in DOMAIN kept : kept[r] = allocs[id].ext[r]
  PROVE  /\ NamespacesOf(id, kept) \subseteq namespaces \ NamespacesOf(id, gone)
         /\ \A x \in Active \ {id} : NamespacesOf(x, allocs[x].ext)
              \subseteq namespaces \ NamespacesOf(id, gone)
  <1> DEFINE ext == allocs[id].ext
  <1>1. /\ \A x \in Active : NamespacesOf(x, allocs[x].ext) \subseteq namespaces
        /\ \A q, r \in DOMAIN ext : ext[q].ssu = ext[r].ssu => q = r
    BY DEF IInv, RowsBacked, RowsSpread
  <1>2. ASSUME NEW r \in DOMAIN kept, NEW q \in DOMAIN gone,
               kept[r].ssu = gone[q].ssu
        PROVE  FALSE
    BY <1>1, <1>2
  <1>3. NamespacesOf(id, kept) \subseteq NamespacesOf(id, ext)
    BY DEF NamespacesOf
  <1>4. NamespacesOf(id, kept) \cap NamespacesOf(id, gone) = {}
    BY <1>2 DEF NamespacesOf
  <1>5. \A x \in Active \ {id} :
          NamespacesOf(x, allocs[x].ext) \cap NamespacesOf(id, gone) = {}
    BY DEF NamespacesOf
  <1> QED
    BY <1>1, <1>3, <1>4, <1>5

LEMMA ReleaseAllInv ==
  ASSUME IInv, NEW id \in Active, ReleaseAll(id)
  PROVE  IInv'
  <1> DEFINE ext == allocs[id].ext
  <1>1. /\ Active' = Active \ {id}
        /\ \A x \in Active' : allocs'[x] = allocs[x]
    BY DEF ReleaseAll, Active
  <1>2. UNCHANGED <<pos, total, online, logdevs, nextId>>
    BY DEF ReleaseAll
  <1>3. /\ namespaces' = namespaces \ NamespacesOf(id, ext)
        /\ retired' = retired \cup {id}
        /\ released' \in {released, released \cup {id}}
    BY DEF ReleaseAll, Remembered
  <1>4. used' \in [Ssus -> Nat]
    BY RefundedType DEF ReleaseAll, IInv, TypeOK
  <1>5. ~HasLogdev(id)
    BY DEF ReleaseAll, CanRelease
  <1>6. \A x : HasLogdev(x)' <=> HasLogdev(x)
    BY <1>2 DEF HasLogdev, Attached
  <1>7. TypeOK'
    <2>1. /\ pos' \in [Ssus -> Nat] /\ total' \in [Ssus -> Nat]
          /\ used' \in [Ssus -> Nat] /\ online' \subseteq Ssus
      BY <1>2, <1>4 DEF IInv, TypeOK
    <2>2. ASSUME NEW x \in Active'
          PROVE  /\ x \in Nat
                 /\ allocs'[x] \in [req: Request, state: {"ACTIVE", "MOUNTED"},
                                    ext: {allocs'[x].ext}]
                 /\ IsExtentTable(allocs'[x].ext)
      BY <1>1 DEF IInv, TypeOK
    <2>3. Attached' \subseteq Devs /\ \A d \in Attached' : logdevs'[d].id \in Nat
      BY <1>2 DEF IInv, TypeOK, Attached
    <2>4. /\ released' \subseteq Nat /\ nextId' \in Nat /\ retired' \subseteq Nat
          /\ namespaces' \subseteq Namespace
      BY <1>2, <1>3 DEF IInv, TypeOK
    <2> QED
      BY <2>1, <2>2, <2>3, <2>4 DEF TypeOK, IsExtentTable
  <1>8. IdsIssued' /\ RetiredNeverActive'
    BY <1>1, <1>2, <1>3 DEF IInv, IdsIssued, RetiredNeverActive
  <1>9. MappingIsCurrent'
    BY <1>1, <1>2, <1>5 DEF IInv, MappingIsCurrent, Attached, HasLogdev
  <1>10. MountedIffAttached'
    BY <1>1, <1>6 DEF IInv, MountedIffAttached
  <1>11. ExclusiveOnce'
    BY <1>1, <1>2, <1>5 DEF IInv, ExclusiveOnce, MappingIsCurrent, Attached,
                            HasLogdev
  <1>12. RowsSpread' /\ NamesUnique'
    BY <1>1 DEF IInv, RowsSpread, NamesUnique
  <1>13. RowsBacked'
    <2>1. \A x \in Active \ {id} : NamespacesOf(x, allocs[x].ext)
            \subseteq namespaces \ NamespacesOf(id, ext)
      <3> DEFINE kept == [r \in {} |-> ext[r]]
      <3>1. DOMAIN kept \subseteq DOMAIN ext \ DOMAIN ext
        OBVIOUS
      <3> QED
        BY <3>1, OtherRowsBacked
    <2>2. \A x \in Active' : NamespacesOf(x, allocs'[x].ext) \subseteq namespaces'
      BY <1>1, <1>3, <2>1
    <2>3. \A a, b \in namespaces' : a.ssu = b.ssu /\ a.ns = b.ns => a = b
      BY <1>3 DEF IInv, RowsBacked
    <2> QED
      BY <2>2, <2>3 DEF RowsBacked, NamespacesOf
  <1> QED
    BY <1>7, <1>8, <1>9, <1>10, <1>11, <1>12, <1>13 DEF IInv

\* The first rows of an extent table, and the rows from a role on, are
\* extent tables.
LEMMA PartTables ==
  ASSUME NEW ext, IsExtentTable(ext), NEW k
  PROVE  IsExtentTable(FirstRows(ext, k)) /\ IsExtentTable(RowsFrom(ext, k))
  BY DEF IsExtentTable, FirstRows, RowsFrom

LEMMA ReleaseStopsAtInv ==
  ASSUME IInv, NEW id \in Active, NEW k \in DOMAIN allocs[id].ext,
         ReleaseStopsAt(id, k)
  PROVE  IInv'
  <1> DEFINE ext == allocs[id].ext
             gone == FirstRows(ext, k)
             kept == RowsFrom(ext, k)
  <1>1. IsExtentTable(gone) /\ IsExtentTable(kept)
    BY PartTables DEF IInv, TypeOK
  <1>2. /\ DOMAIN gone \subseteq DOMAIN ext
        /\ \A r \in DOMAIN gone : gone[r] = ext[r]
        /\ \A r \in DOMAIN kept : kept[r] = ext[r]
    BY DEF FirstRows, RowsFrom
  <1>3. DOMAIN kept \subseteq DOMAIN ext \ DOMAIN gone
    <2>1. DOMAIN ext \subseteq Nat /\ k \in DOMAIN ext
      BY DEF IInv, TypeOK, IsExtentTable
    <2> HIDE DEF ext
    <2>2. \A r \in DOMAIN ext : ~(r >= k /\ r < k)
      BY <2>1
    <2>3. /\ DOMAIN kept = {i \in DOMAIN ext : i >= k}
          /\ DOMAIN gone = {i \in DOMAIN ext : i < k}
      BY DEF FirstRows, RowsFrom
    <2> HIDE DEF kept, gone
    <2> QED
      BY <2>2, <2>3
  <1>4. /\ allocs' = [allocs EXCEPT ![id].ext = kept]
        /\ namespaces' = namespaces \ NamespacesOf(id, gone)
        /\ used' = Refunded(gone)
        /\ UNCHANGED <<pos, total, online, logdevs, released, nextId, retired>>
    BY DEF ReleaseStopsAt
  <1>5. ~HasLogdev(id)
    BY DEF ReleaseStopsAt, CanRelease
  <1> HIDE DEF gone, kept
  <1>6. /\ Active' = Active
        /\ \A x \in Active : /\ allocs'[x].req = allocs[x].req
                             /\ allocs'[x].state = allocs[x].state
                             /\ x # id => allocs'[x] = allocs[x]
        /\ allocs'[id] = [req |-> allocs[id].req, state |-> allocs[id].state,
                          ext |-> kept]
    <2>1. allocs'[id] = [allocs[id] EXCEPT !.ext = kept]
      BY <1>4 DEF Active
    <2>2. \A x \in Active : x # id => allocs'[x] = allocs[x]
      BY <1>4 DEF Active
    <2>3. Active' = Active
      BY <1>4 DEF Active
    <2>4. allocs'[id] = [req |-> allocs[id].req, state |-> allocs[id].state,
                         ext |-> kept]
      <3>1. allocs[id] \in [req: Request, state: {"ACTIVE", "MOUNTED"},
                            ext: {allocs[id].ext}]
        BY DEF IInv, TypeOK
      <3> QED
        BY <2>1, <3>1
    <2> QED
      BY <2>2, <2>3, <2>4
  <1>7. \A x : HasLogdev(x)' <=> HasLogdev(x)
    BY <1>4 DEF HasLogdev, Attached
  <1>8. used' \in [Ssus -> Nat]
    BY <1>1, <1>4, RefundedType DEF IInv
  <1>9. TypeOK'
    <2>1. /\ pos' \in [Ssus -> Nat] /\ total' \in [Ssus -> Nat]
          /\ used' \in [Ssus -> Nat] /\ online' \subseteq Ssus
      BY <1>4, <1>8 DEF IInv, TypeOK
    <2>2. ASSUME NEW x \in Active'
          PROVE  /\ x \in Nat
                 /\ allocs'[x] \in [req: Request, state: {"ACTIVE", "MOUNTED"},
                                    ext: {allocs'[x].ext}]
                 /\ IsExtentTable(allocs'[x].ext)
      <3>1. CASE x = id
        <4>1. /\ allocs[id].req \in Request
              /\ allocs[id].state \in {"ACTIVE", "MOUNTED"}
              /\ id \in Nat
          BY DEF IInv, TypeOK
        <4> QED
          BY <1>1, <1>6, <3>1, <4>1
      <3>2. CASE x # id
        BY <1>6, <3>2 DEF IInv, TypeOK
      <3> QED
        BY <3>1, <3>2
    <2>3. Attached' \subseteq Devs /\ \A d \in Attached' : logdevs'[d].id \in Nat
      BY <1>4 DEF IInv, TypeOK, Attached
    <2>4. /\ released' \subseteq Nat /\ nextId' \in Nat /\ retired' \subseteq Nat
          /\ namespaces' \subseteq Namespace
      BY <1>4 DEF IInv, TypeOK
    <2> QED
      BY <2>1, <2>2, <2>3, <2>4 DEF TypeOK, IsExtentTable
  <1>10. IdsIssued' /\ RetiredNeverActive'
    BY <1>4, <1>6 DEF IInv, IdsIssued, RetiredNeverActive
  <1>11. MappingIsCurrent'
    BY <1>4, <1>5, <1>6 DEF IInv, MappingIsCurrent, Attached, HasLogdev
  <1>12. MountedIffAttached'
    BY <1>6, <1>7 DEF IInv, MountedIffAttached
  <1>13. ExclusiveOnce'
    BY <1>4, <1>6 DEF IInv, ExclusiveOnce, MappingIsCurrent, Attached
  <1>14. RowsSpread'
    BY <1>2, <1>3, <1>6 DEF IInv, RowsSpread
  <1>15. NamesUnique'
    BY <1>6 DEF IInv, NamesUnique
  <1>16. RowsBacked'
    <2>1. /\ NamespacesOf(id, kept) \subseteq namespaces \ NamespacesOf(id, gone)
          /\ \A x \in Active \ {id} : NamespacesOf(x, allocs[x].ext)
               \subseteq namespaces \ NamespacesOf(id, gone)
      BY <1>2, <1>3, OtherRowsBacked
    <2>2. \A x \in Active' : NamespacesOf(x, allocs'[x].ext) \subseteq namespaces'
      BY <1>4, <1>6, <2>1
    <2>3. \A a, b \in namespaces' : a.ssu = b.ssu /\ a.ns = b.ns => a = b
      BY <1>4 DEF IInv, RowsBacked
    <2> QED
      BY <2>2, <2>3 DEF RowsBacked, NamespacesOf
  <1> QED
    BY <1>9, <1>10, <1>11, <1>12, <1>13, <1>14, <1>15, <1>16 DEF IInv

\* Changing the state an allocation reports changes nothing else.
LEMMA StateChange ==
  ASSUME IInv, NEW id \in Active, NEW st \in {"ACTIVE", "MOUNTED"},
         allocs' = [allocs EXCEPT ![id].state = st]
  PROVE  /\ Active' = Active
         /\ \A x \in Active : /\ allocs'[x].req = allocs[x].req
                              /\ allocs'[x].ext = allocs[x].ext
                              /\ x # id => allocs'[x] = allocs[x]
         /\ allocs'[id].state = st
         /\ \A x \in Active' :
              /\ x \in Nat
              /\ allocs'[x] \in [req: Request, state: {"ACTIVE", "MOUNTED"},
                                 ext: {allocs'[x].ext}]
              /\ IsExtentTable(allocs'[x].ext)
  <1>1. allocs'[id] = [allocs[id] EXCEPT !.state = st]
    BY DEF Active
  <1>2. \A x \in Active : x # id => allocs'[x] = allocs[x]
    BY DEF Active
  <1>3. Active' = Active
    BY DEF Active
  <1>4. allocs[id] \in [req: Request, state: {"ACTIVE", "MOUNTED"},
                        ext: {allocs[id].ext}]
    BY DEF IInv, TypeOK
  <1>5. allocs'[id] = [req |-> allocs[id].req, state |-> st,
                       ext |-> allocs[id].ext]
    BY <1>1, <1>4
  <1>6. ASSUME NEW x \in Active'
        PROVE  /\ x \in Nat
               /\ allocs'[x] \in [req: Request, state: {"ACTIVE", "MOUNTED"},
                                  ext: {allocs'[x].ext}]
               /\ IsExtentTable(allocs'[x].ext)
    <2>1. CASE x = id
      <3>1. allocs[id].req \in Request /\ IsExtentTable(allocs[id].ext)
            /\ id \in Nat
        BY <1>4 DEF IInv, TypeOK
      <3> QED
        BY <1>5, <2>1, <3>1
    <2>2. CASE x # id
      BY <1>2, <1>3, <2>2 DEF IInv, TypeOK
    <2> QED
      BY <2>1, <2>2
  <1> QED
    BY <1>2, <1>3, <1>5, <1>6

LEMMA MountInv ==
  ASSUME IInv, NEW id \in Active, NEW d \in Devs, Mount(id, d)
  PROVE  IInv'
  <1>1. /\ d \notin Attached
        /\ allocs[id].req.share # "SHARED" => ~HasLogdev(id)
    BY DEF Mount, CanMount
  <1>2. UNCHANGED <<pos, total, used, online, released, nextId, namespaces,
                    retired>>
    BY DEF Mount, poolVars
  <1>3. /\ Attached' = Attached \cup {d}
        /\ logdevs'[d].id = id /\ logdevs'[d].maps = allocs[id].ext
        /\ \A x \in Attached : logdevs'[x] = logdevs[x]
    BY <1>1 DEF Mount, Attached
  <1>4. allocs' = [allocs EXCEPT ![id].state = "MOUNTED"]
    BY DEF Mount
  <1>5. /\ Active' = Active
        /\ \A x \in Active : /\ allocs'[x].req = allocs[x].req
                             /\ allocs'[x].ext = allocs[x].ext
                             /\ x # id => allocs'[x] = allocs[x]
        /\ allocs'[id].state = "MOUNTED"
        /\ \A x \in Active' :
             /\ x \in Nat
             /\ allocs'[x] \in [req: Request, state: {"ACTIVE", "MOUNTED"},
                                ext: {allocs'[x].ext}]
             /\ IsExtentTable(allocs'[x].ext)
    BY <1>4, StateChange
  <1>6. /\ HasLogdev(id)'
        /\ \A x : x # id => (HasLogdev(x)' <=> HasLogdev(x))
    BY <1>1, <1>3 DEF HasLogdev
  <1>7. TypeOK'
    <2>1. /\ pos' \in [Ssus -> Nat] /\ total' \in [Ssus -> Nat]
          /\ used' \in [Ssus -> Nat] /\ online' \subseteq Ssus
      BY <1>2 DEF IInv, TypeOK
    <2>2. Attached' \subseteq Devs /\ \A x \in Attached' : logdevs'[x].id \in Nat
      BY <1>3 DEF IInv, TypeOK
    <2>3. /\ released' \subseteq Nat /\ nextId' \in Nat /\ retired' \subseteq Nat
          /\ namespaces' \subseteq Namespace
      BY <1>2 DEF IInv, TypeOK
    <2> QED
      BY <1>5, <2>1, <2>2, <2>3 DEF TypeOK, IsExtentTable
  <1>8. IdsIssued' /\ RetiredNeverActive'
    BY <1>2, <1>5 DEF IInv, IdsIssued, RetiredNeverActive
  <1>9. MappingIsCurrent'
    BY <1>3, <1>5 DEF IInv, MappingIsCurrent
  <1>10. MountedIffAttached'
    BY <1>5, <1>6 DEF IInv, MountedIffAttached
  <1>11. ExclusiveOnce'
    BY <1>1, <1>3, <1>5 DEF IInv, ExclusiveOnce, MappingIsCurrent, HasLogdev
  <1>12. RowsSpread'
    BY <1>5 DEF IInv, RowsSpread
  <1>13. NamesUnique'
    BY <1>5 DEF IInv, NamesUnique
  <1>14. RowsBacked'
    BY <1>2, <1>5 DEF IInv, RowsBacked, NamespacesOf
  <1> QED
    BY <1>7, <1>8, <1>9, <1>10, <1>11, <1>12, <1>13, <1>14 DEF IInv

LEMMA UnmountInv ==
  ASSUME IInv, NEW d \in Attached, Unmount(d)
  PROVE  IInv'
  <1>1. PICK id \in Active : id = logdevs[d].id
    BY DEF IInv, MappingIsCurrent
  <1>2. UNCHANGED <<pos, total, used, online, released, nextId, namespaces,
                    retired>>
    BY DEF Unmount, poolVars
  <1>3. /\ Attached' = Attached \ {d}
        /\ \A x \in Attached' : logdevs'[x] = logdevs[x]
    BY DEF Unmount, Attached
  <1>4. allocs' = [allocs EXCEPT ![id].state = StateWithout(id, d)]
    BY <1>1 DEF Unmount
  <1>5. StateWithout(id, d) \in {"ACTIVE", "MOUNTED"}
    BY DEF StateWithout
  <1>6. /\ HasLogdev(id)' <=> StateWithout(id, d) = "MOUNTED"
        /\ \A x : x # id => (HasLogdev(x)' <=> HasLogdev(x))
    BY <1>1, <1>3 DEF HasLogdev, StateWithout
  <1> DEFINE st == StateWithout(id, d)
  <1> HIDE DEF st
  <1>7. /\ Active' = Active
        /\ \A x \in Active : /\ allocs'[x].req = allocs[x].req
                             /\ allocs'[x].ext = allocs[x].ext
                             /\ x # id => allocs'[x] = allocs[x]
        /\ allocs'[id].state = st
        /\ \A x \in Active' :
             /\ x \in Nat
             /\ allocs'[x] \in [req: Request, state: {"ACTIVE", "MOUNTED"},
                                ext: {allocs'[x].ext}]
             /\ IsExtentTable(allocs'[x].ext)
    <2>1. allocs' = [allocs EXCEPT ![id].state = st] /\ st \in {"ACTIVE", "MOUNTED"}
      BY <1>4, <1>5 DEF st
    <2> QED
      BY <1>1, <2>1, StateChange
  <1>8. TypeOK'
    <2>1. /\ pos' \in [Ssus -> Nat] /\ total' \in [Ssus -> Nat]
          /\ used' \in [Ssus -> Nat] /\ online' \subseteq Ssus
      BY <1>2 DEF IInv, TypeOK
    <2>2. Attached' \subseteq Devs /\ \A x \in Attached' : logdevs'[x].id \in Nat
      BY <1>3 DEF IInv, TypeOK
    <2>3. /\ released' \subseteq Nat /\ nextId' \in Nat /\ retired' \subseteq Nat
          /\ namespaces' \subseteq Namespace
      BY <1>2 DEF IInv, TypeOK
    <2> QED
      BY <1>7, <2>1, <2>2, <2>3 DEF TypeOK, IsExtentTable
  <1>9. IdsIssued' /\ RetiredNeverActive'
    BY <1>2, <1>7 DEF IInv, IdsIssued, RetiredNeverActive
  <1>10. MappingIsCurrent'
    BY <1>3, <1>7 DEF IInv, MappingIsCurrent
  <1>11. MountedIffAttached'
    <2>1. ASSUME NEW x \in Active
          PROVE  allocs'[x].state = "MOUNTED" <=> HasLogdev(x)'
      <3>1. CASE x = id
        BY <1>6, <1>7, <3>1 DEF st
      <3>2. CASE x # id
        BY <1>6, <1>7, <3>2 DEF IInv, MountedIffAttached
      <3> QED
        BY <3>1, <3>2
    <2> QED
      BY <1>7, <2>1 DEF MountedIffAttached
  <1>12. ExclusiveOnce'
    BY <1>3, <1>7 DEF IInv, ExclusiveOnce, MappingIsCurrent
  <1>13. RowsSpread'
    BY <1>7 DEF IInv, RowsSpread
  <1>14. NamesUnique'
    BY <1>7 DEF IInv, NamesUnique
  <1>15. RowsBacked'
    BY <1>2, <1>7 DEF IInv, RowsBacked, NamespacesOf
  <1> QED
    BY <1>8, <1>9, <1>10, <1>11, <1>12, <1>13, <1>14, <1>15 DEF IInv

LEMMA StutterInv ==
  ASSUME IInv, UNCHANGED vars
  PROVE  IInv'
  BY DEF vars, IInv, TypeOK, IdsIssued, RetiredNeverActive, MappingIsCurrent,
         MountedIffAttached, ExclusiveOnce, RowsSpread, RowsBacked,
         NamesUnique, Active, Attached, HasLogdev, NamespacesOf, IsExtentTable

LEMMA NextInv == IInv /\ [Next]_vars => IInv'
  <1> SUFFICES ASSUME IInv, [Next]_vars
               PROVE  IInv'
    OBVIOUS
  <1>1. ASSUME NEW seen \in SUBSET Ssus,
               NEW healthy \in SUBSET (seen \cup Known),
               NEW cap \in [seen -> Totals], RefreshPool(seen, cap, healthy)
        PROVE  IInv'
    BY <1>1, RefreshInv
  <1>2. ASSUME NEW req \in Request, Alloc(req)
        PROVE  IInv'
    <2>1. CanAlloc(req) /\ NextAutoId = nextId
      BY <1>2, NextIdIsCounter DEF Alloc
    <2>2. PICK sel \in [0 .. ExtentCount(req) - 1 -> Ssus] :
            /\ FirstFit(sel, req.size, ExtentCount(req))
            /\ \/ AllocSucceeds(req, NextAutoId, NewRows(req, sel))
               \/ \E k \in DOMAIN sel :
                    AllocRollsBack(NextAutoId, NewRows(req, sel), k)
      BY <1>2 DEF Alloc
    <2>3. CASE AllocSucceeds(req, nextId, NewRows(req, sel))
      BY <2>1, <2>2, <2>3, AllocSucceedsInv
    <2>4. ASSUME NEW k \in DOMAIN sel,
                 AllocRollsBack(nextId, NewRows(req, sel), k)
          PROVE  IInv'
      BY <2>1, <2>2, <2>4, AllocRollsBackInv
    <2> QED
      BY <2>1, <2>2, <2>3, <2>4
  <1>3. ASSUME NEW id \in Active, ReleaseAll(id)
        PROVE  IInv'
    BY <1>3, ReleaseAllInv
  <1>4. ASSUME NEW id \in Active, NEW k \in DOMAIN allocs[id].ext,
               ReleaseStopsAt(id, k)
        PROVE  IInv'
    BY <1>4, ReleaseStopsAtInv
  <1>5. ASSUME NEW id \in Active, NEW d \in Devs, Mount(id, d)
        PROVE  IInv'
    BY <1>5, MountInv
  <1>6. ASSUME NEW d \in Attached, Unmount(d)
        PROVE  IInv'
    BY <1>6, UnmountInv
  <1>7. CASE UNCHANGED vars
    BY <1>7, StutterInv
  <1> QED
    BY <1>1, <1>2, <1>3, <1>4, <1>5, <1>6, <1>7 DEF Next

LEMMA SpecInv == Spec => []IInv
  BY InitInv, NextInv, PTL DEF Spec

-----------------------------------------------------------------------------
(* What follows *)

\* Every variable keeps its type.
THEOREM TypeCorrect == Spec => []TypeOK
  <1>1. IInv => TypeOK
    BY DEF IInv
  <1> QED
    BY <1>1, SpecInv, PTL

\* Ids never come back: release relies on it to answer for a released id, and
\* it holds whatever the size of the table of released ids.
THEOREM IdsNeverReused == Spec => [](IdsIssued /\ RetiredNeverActive)
  <1>1. IInv => IdsIssued /\ RetiredNeverActive
    BY DEF IInv
  <1> QED
    BY <1>1, SpecInv, PTL

\* Nothing is released or remapped under a mounted device, however mounts,
\* unmounts and failing releases are ordered.
THEOREM MappingsStayCurrent == Spec => []MappingIsCurrent
  <1>1. IInv => MappingIsCurrent
    BY DEF IInv
  <1> QED
    BY <1>1, SpecInv, PTL

\* Mounting is exclusive unless the disk is shared, and the state reported
\* for a disk agrees with its devices.
THEOREM MountStateCorrect == Spec => [](ExclusiveOnce /\ MountedIffAttached)
  <1>1. IInv => ExclusiveOnce /\ MountedIffAttached
    BY DEF IInv
  <1> QED
    BY <1>1, SpecInv, PTL

\* Every extent keeps a namespace of its own, on an SSU of its own, through
\* rollbacks and releases that fail half way.
THEOREM ExtentsStayBacked == Spec => [](RowsBacked /\ RowsSpread)
  <1>1. IInv => RowsBacked /\ RowsSpread
    BY DEF IInv
  <1> QED
    BY <1>1, SpecInv, PTL

\* The extents of a disk stay on SSUs of their own: no failing SSU takes two
\* of them with it.
THEOREM DisksSpread == Spec => []RowsSpread
  <1>1. IInv => RowsSpread
    BY DEF IInv
  <1> QED
    BY <1>1, SpecInv, PTL

\* Two live disks never share a name.
THEOREM NamesStayUnique == Spec => []NamesUnique
  <1>1. IInv => NamesUnique
    BY DEF IInv
  <1> QED
    BY <1>1, SpecInv, PTL
-----------------------------------------------------------------------------
(* Capacity *)

\* Giving rows back never adds to the used bytes of an SSU.
LEMMA RefundedShrinks ==
  ASSUME TypeOK, NEW ext, IsExtentTable(ext), NEW s \in Ssus
  PROVE  Refunded(ext)[s] <= used[s]
  BY LenOnType DEF Refunded, TypeOK

\* An SSU that gets an extent had room for it.
LEMMA ChargedFits ==
  ASSUME IInv, NEW req \in Request, CanAlloc(req),
         NEW sel \in [0 .. ExtentCount(req) - 1 -> Ssus],
         FirstFit(sel, req.size, ExtentCount(req)), NEW s \in Ssus,
         Charged(NewRows(req, sel))[s] > used[s]
  PROVE  Charged(NewRows(req, sel))[s] <= total[s]
  <1> DEFINE rows == NewRows(req, sel)
             n == ExtentCount(req)
  <1>1. n \in Nat \ {0} /\ req.size \in Nat
    BY ExtentCountType, SizesAssumption DEF IInv, CanAlloc, Request
  <1>2. /\ DOMAIN rows = 0 .. n - 1
        /\ \A r \in 0 .. n - 1 : /\ rows[r].ssu = sel[r]
                                 /\ rows[r].len = ExtentLen(req.size, n, r)
    BY DEF NewRows
  <1>3. used[s] \in Nat /\ total[s] \in Nat
    BY DEF IInv, TypeOK
  <1>0. Charged(rows)[s] > used[s]
    OBVIOUS
  <1> HIDE DEF rows, n
  <1>4. Charged(rows)[s] = used[s] + LenOn(rows, s)
    BY DEF Charged
  <1>5. \E r \in DOMAIN rows : rows[r].ssu = s
    BY <1>0, <1>3, <1>4 DEF LenOn
  <1>6. PICK r \in DOMAIN rows : rows[r].ssu = s /\ LenOn(rows, s) = rows[r].len
    BY <1>5 DEF LenOn
  <1>7. HasCapacity(sel[r], ExtentLen(req.size, n, r))
    BY <1>2, <1>6 DEF FirstFit, n
  <1>8. rows[r].len \in Nat
    <2>1. r \in Nat /\ rows[r].len = ExtentLen(req.size, n, r)
      BY <1>1, <1>2, <1>6
    <2>2. ExtentLen(req.size, n, r) \in Nat
      BY <1>1, <2>1, ExtentTypes
    <2> QED
      BY <2>1, <2>2
  <1>9. sel[r] = s /\ rows[r].len <= total[s] - used[s]
    BY <1>2, <1>6, <1>7 DEF HasCapacity
  <1>10. Charged(rows)[s] <= total[s]
    BY <1>3, <1>4, <1>6, <1>8, <1>9
  <1> QED
    BY <1>10 DEF rows

\* The check alloc makes on each SSU it selects is enough: no step, of a
\* disk of any number of extents, takes more of an SSU than it has.
THEOREM NeverOvercommitted == Spec => NoOvercommit
  <1> DEFINE Within == \A s \in Ssus : used'[s] > used[s] => used'[s] <= total'[s]
  <1>1. ASSUME IInv, NEW req \in Request, Alloc(req)
        PROVE  Within
    <2>1. CanAlloc(req)
      BY <1>1 DEF Alloc
    <2>2. PICK sel \in [0 .. ExtentCount(req) - 1 -> Ssus] :
            /\ FirstFit(sel, req.size, ExtentCount(req))
            /\ \/ AllocSucceeds(req, NextAutoId, NewRows(req, sel))
               \/ \E k \in DOMAIN sel :
                    AllocRollsBack(NextAutoId, NewRows(req, sel), k)
      BY <1>1 DEF Alloc
    <2>3. CASE AllocSucceeds(req, NextAutoId, NewRows(req, sel))
      <3>1. used' = Charged(NewRows(req, sel)) /\ total' = total
        BY <2>3 DEF AllocSucceeds
      <3> QED
        BY <1>1, <2>1, <2>2, <3>1, ChargedFits
    <2>4. ASSUME NEW k \in DOMAIN sel,
                 AllocRollsBack(NextAutoId, NewRows(req, sel), k)
          PROVE  Within
      <3>1. used' = used
        BY <2>4 DEF AllocRollsBack, poolVars
      <3> QED
        BY <1>1, <3>1 DEF IInv, TypeOK
    <2> QED
      BY <2>2, <2>3, <2>4
  <1>2. ASSUME IInv, NEW id \in Active, NEW ext, IsExtentTable(ext),
               used' = Refunded(ext)
        PROVE  Within
    <2>1. ASSUME NEW s \in Ssus
          PROVE  ~(used'[s] > used[s])
      <3>1. Refunded(ext)[s] <= used[s] /\ Refunded(ext) \in [Ssus -> Nat]
        BY <1>2, RefundedShrinks, RefundedType DEF IInv
      <3>2. used[s] \in Nat
        BY <1>2 DEF IInv, TypeOK
      <3> QED
        BY <1>2, <3>1, <3>2
    <2> QED
      BY <2>1
  <1>3. ASSUME IInv, NEW id \in Active, ReleaseAll(id)
        PROVE  Within
    <2>1. used' = Refunded(allocs[id].ext) /\ IsExtentTable(allocs[id].ext)
      BY <1>3 DEF ReleaseAll, IInv, TypeOK
    <2> HIDE DEF Within
    <2> QED
      BY <1>2, <1>3, <2>1
  <1>4. ASSUME IInv, NEW id \in Active, NEW k \in DOMAIN allocs[id].ext,
               ReleaseStopsAt(id, k)
        PROVE  Within
    <2>1. used' = Refunded(FirstRows(allocs[id].ext, k))
      BY <1>4 DEF ReleaseStopsAt
    <2>2. IsExtentTable(FirstRows(allocs[id].ext, k))
      BY <1>4, PartTables DEF IInv, TypeOK
    <2> HIDE DEF Within
    <2> QED
      BY <1>2, <1>4, <2>1, <2>2
  <1>5. ASSUME IInv, UNCHANGED used
        PROVE  Within
    BY <1>5 DEF IInv, TypeOK
  <1>6. IInv /\ [Next]_vars => Within \/ UNCHANGED vars
    <2> SUFFICES ASSUME IInv, Next
                 PROVE  Within
      BY DEF vars
    <2>1. ASSUME NEW seen \in SUBSET Ssus,
                 NEW healthy \in SUBSET (seen \cup Known),
                 NEW cap \in [seen -> Totals], RefreshPool(seen, cap, healthy)
          PROVE  UNCHANGED used
      BY <2>1 DEF RefreshPool
    <2>2. ASSUME NEW id \in Active, NEW d \in Devs, Mount(id, d)
          PROVE  UNCHANGED used
      BY <2>2 DEF Mount, poolVars
    <2>3. ASSUME NEW d \in Attached, Unmount(d)
          PROVE  UNCHANGED used
      BY <2>3 DEF Unmount, poolVars
    <2> HIDE DEF Within
    <2> QED
      BY <1>1, <1>3, <1>4, <1>5, <2>1, <2>2, <2>3 DEF Next
  <1>7. IInv /\ [Next]_vars => [Within]_vars
    BY <1>6
  <1> QED
    BY <1>7, SpecInv, PTL DEF Spec, NoOvercommit
-----------------------------------------------------------------------------
(* The extents of a disk *)

\* Extent i + 1 begins where extent i ends, and the last ends at the size.
LEMMA ExtentsAbut ==
  ASSUME NEW size \in Nat, NEW n \in Nat \ {0}, NEW i \in 0 .. n - 1
  PROVE  ExtentOff(size, n, i) + ExtentLen(size, n, i) =
           IF i = n - 1 THEN size ELSE ExtentOff(size, n, i + 1)
  <1> DEFINE q == size \div n
             m == size % n
  <1>1. q \in Nat /\ m \in 0 .. n - 1 /\ size = n * q + m
    OBVIOUS
  <1>2. (i + 1) * q = i * q + q /\ i * q \in Nat
    BY <1>1
  <1> HIDE DEF q, m
  <1>3. /\ ExtentOff(size, n, i) = i * q + (IF i < m THEN i ELSE m)
        /\ ExtentOff(size, n, i + 1) =
             (i + 1) * q + (IF i + 1 < m THEN i + 1 ELSE m)
        /\ ExtentLen(size, n, i) = q + (IF i < m THEN 1 ELSE 0)
    BY DEF ExtentOff, ExtentLen, q, m
  <1>4. CASE i = n - 1
    <2>1. n * q = (i + 1) * q
      BY <1>4
    <2> QED
      BY <1>1, <1>2, <1>3, <1>4, <2>1
  <1>5. CASE i # n - 1
    <2>1. i < m => i + 1 <= m
      BY <1>1
    <2> QED
      BY <1>1, <1>2, <1>3, <1>5, <2>1
  <1> QED
    BY <1>4, <1>5

\* The first extent begins at 0.
LEMMA FirstOffset ==
  ASSUME NEW size \in Nat, NEW n \in Nat \ {0}
  PROVE  ExtentOff(size, n, 0) = 0
  <1>1. size \div n \in Nat /\ size % n \in Nat
    BY DivType
  <1>2. 0 * (size \div n) = 0
    BY <1>1
  <1> QED
    BY <1>1, <1>2 DEF ExtentOff

\* The extents alloc cuts tile the requested size.
LEMMA NewRowsTile ==
  ASSUME IInv, NEW req \in Request, CanAlloc(req), NEW sel,
         NEW r \in DOMAIN NewRows(req, sel)
  PROVE  LET rows == NewRows(req, sel)
             end  == rows[r].off + rows[r].len
         IN  /\ 0 \in DOMAIN rows /\ rows[0].off = 0
             /\ IF r + 1 \in DOMAIN rows THEN rows[r + 1].off = end
                                         ELSE end = req.size
  <1> DEFINE rows == NewRows(req, sel)
             n == ExtentCount(req)
  <1>1. n \in Nat \ {0} /\ req.size \in Nat
    BY ExtentCountType, SizesAssumption DEF IInv, CanAlloc, Request
  <1>2. /\ DOMAIN rows = 0 .. n - 1
        /\ \A x \in 0 .. n - 1 : /\ rows[x].off = ExtentOff(req.size, n, x)
                                 /\ rows[x].len = ExtentLen(req.size, n, x)
    BY DEF NewRows
  <1>3. 0 \in DOMAIN rows /\ rows[0].off = 0
    <2> HIDE DEF rows, n
    <2>1. ExtentOff(req.size, n, 0) = 0
      BY <1>1, FirstOffset
    <2> QED
      BY <1>1, <1>2, <2>1
  <1> HIDE DEF rows, n
  <1>4. CASE r = n - 1
    <2>1. r \in 0 .. n - 1 /\ r + 1 \notin 0 .. n - 1
      BY <1>1, <1>4
    <2> QED
      BY <1>1, <1>2, <1>3, <1>4, <2>1, ExtentsAbut DEF rows
  <1>5. CASE r # n - 1
    <2>1. r \in 0 .. n - 1 /\ r + 1 \in 0 .. n - 1
      BY <1>1, <1>2, <1>5 DEF rows
    <2> QED
      BY <1>1, <1>2, <1>3, <1>5, <2>1, ExtentsAbut DEF rows
  <1> QED
    BY <1>4, <1>5

\* The rows of every disk tile its logical space, for any size and number of
\* extents, also after a release that failed half way.
THEOREM DisksAreTiled == Spec => []RowsTile
  <1> DEFINE Tiled(size, ext) ==
        /\ 0 \in DOMAIN ext => ext[0].off = 0
        /\ \A r \in DOMAIN ext :
             IF r + 1 \in DOMAIN ext
               THEN ext[r + 1].off = ext[r].off + ext[r].len
               ELSE ext[r].off + ext[r].len = size
  <1>1. RowsTile <=> \A id \in Active : Tiled(allocs[id].req.size, allocs[id].ext)
    BY DEF RowsTile
  <1>2. RowsTile' <=>
          \A id \in Active' : Tiled(allocs'[id].req.size, allocs'[id].ext)
    BY DEF RowsTile
  <1>3. Init => RowsTile
    BY DEF Init, RowsTile, Active
  <1>4. ASSUME IInv, RowsTile, NEW req \in Request, Alloc(req)
        PROVE  RowsTile'
    <2>1. CanAlloc(req) /\ NextAutoId = nextId
      BY <1>4, NextIdIsCounter DEF Alloc
    <2>2. PICK sel \in [0 .. ExtentCount(req) - 1 -> Ssus] :
            \/ AllocSucceeds(req, nextId, NewRows(req, sel))
            \/ \E k \in DOMAIN sel : AllocRollsBack(nextId, NewRows(req, sel), k)
      BY <1>4, <2>1 DEF Alloc
    <2>3. CASE AllocSucceeds(req, nextId, NewRows(req, sel))
      <3>1. Tiled(req.size, NewRows(req, sel))
        BY <1>4, <2>1, NewRowsTile
      <3> HIDE DEF Tiled
      <3>2. /\ Active' = Active \cup {nextId}
            /\ allocs'[nextId].req = req
            /\ allocs'[nextId].ext = NewRows(req, sel)
            /\ \A x \in Active : x # nextId => allocs'[x] = allocs[x]
        BY <2>3 DEF AllocSucceeds, Active
      <3> QED
        BY <1>1, <1>2, <1>4, <3>1, <3>2
    <2>4. ASSUME NEW k \in DOMAIN sel,
                 AllocRollsBack(nextId, NewRows(req, sel), k)
          PROVE  RowsTile'
      BY <1>4, <2>4 DEF AllocRollsBack, RowsTile, Active
    <2> QED
      BY <2>2, <2>3, <2>4
  <1>5. ASSUME IInv, RowsTile, NEW id \in Active, ReleaseAll(id)
        PROVE  RowsTile'
    BY <1>5 DEF ReleaseAll, RowsTile, Active
  <1>6. ASSUME IInv, RowsTile, NEW id \in Active,
               NEW k \in DOMAIN allocs[id].ext, ReleaseStopsAt(id, k)
        PROVE  RowsTile'
    <2> DEFINE ext == allocs[id].ext
               kept == RowsFrom(ext, k)
    <2>1. /\ Active' = Active
          /\ allocs'[id] = [allocs[id] EXCEPT !.ext = kept]
          /\ \A x \in Active : x # id => allocs'[x] = allocs[x]
      BY <1>6 DEF ReleaseStopsAt, Active
    <2>2. allocs[id] \in [req: Request, state: {"ACTIVE", "MOUNTED"},
                          ext: {allocs[id].ext}]
      BY <1>6 DEF IInv, TypeOK
    <2>3. allocs'[id].req = allocs[id].req /\ allocs'[id].ext = kept
      BY <2>1, <2>2
    <2>4. Tiled(allocs[id].req.size, kept)
      <3>1. Tiled(allocs[id].req.size, ext) /\ DOMAIN ext \subseteq Nat
        BY <1>1, <1>6 DEF IInv, TypeOK, IsExtentTable
      <3>2. /\ DOMAIN kept = {r \in DOMAIN ext : r >= k}
            /\ \A r \in DOMAIN kept : kept[r] = ext[r]
        BY DEF RowsFrom
      <3>3. \A r \in DOMAIN kept : r + 1 \in DOMAIN kept <=> r + 1 \in DOMAIN ext
        BY <1>6, <3>1, <3>2
      <3> HIDE DEF kept, ext
      <3> QED
        BY <3>1, <3>2, <3>3
    <2> HIDE DEF Tiled
    <2> QED
      BY <1>1, <1>2, <1>6, <2>1, <2>3, <2>4
  <1>7. ASSUME IInv, RowsTile, NEW id \in Active, NEW st,
               allocs' = [allocs EXCEPT ![id].state = st],
               st \in {"ACTIVE", "MOUNTED"}
        PROVE  RowsTile'
    <2>1. \A x \in Active : /\ allocs'[x].req = allocs[x].req
                            /\ allocs'[x].ext = allocs[x].ext
      BY <1>7, StateChange
    <2>2. Active' = Active
      BY <1>7, StateChange
    <2> HIDE DEF Tiled
    <2> QED
      BY <1>1, <1>2, <1>7, <2>1, <2>2
  <1>8. ASSUME IInv, RowsTile, NEW d \in Attached, Unmount(d)
        PROVE  RowsTile'
    <2>1. PICK id \in Active : id = logdevs[d].id
      BY <1>8 DEF IInv, MappingIsCurrent
    <2>2. /\ allocs' = [allocs EXCEPT ![id].state = StateWithout(id, d)]
          /\ StateWithout(id, d) \in {"ACTIVE", "MOUNTED"}
      BY <1>8, <2>1 DEF Unmount, StateWithout
    <2> QED
      BY <1>7, <1>8, <2>2
  <1>9. ASSUME RowsTile, UNCHANGED allocs
        PROVE  RowsTile'
    BY <1>9 DEF RowsTile, Active
  <1>10. IInv /\ RowsTile /\ [Next]_vars => RowsTile'
    <2> SUFFICES ASSUME IInv, RowsTile, [Next]_vars
                 PROVE  RowsTile'
      OBVIOUS
    <2>1. ASSUME NEW seen \in SUBSET Ssus,
                 NEW healthy \in SUBSET (seen \cup Known),
                 NEW cap \in [seen -> Totals], RefreshPool(seen, cap, healthy)
          PROVE  UNCHANGED allocs
      BY <2>1 DEF RefreshPool
    <2>2. ASSUME NEW id \in Active, NEW d \in Devs, Mount(id, d)
          PROVE  RowsTile'
      <3>1. allocs' = [allocs EXCEPT ![id].state = "MOUNTED"]
        BY <2>2 DEF Mount
      <3> QED
        BY <1>7, <3>1
    <2>3. UNCHANGED vars => UNCHANGED allocs
      BY DEF vars
    <2> QED
      BY <1>4, <1>5, <1>6, <1>8, <1>9, <2>1, <2>2, <2>3 DEF Next
  <1> QED
    BY <1>3, <1>10, SpecInv, PTL DEF Spec

-----------------------------------------------------------------------------
(* The placement loop finds a placement if there is one *)

\* Extents do not grow with their role.
LEMMA ExtentsFall ==
  ASSUME NEW size \in Nat, NEW n \in Nat \ {0}, NEW j \in Nat, NEW i \in Nat, j <= i
  PROVE  ExtentLen(size, n, i) <= ExtentLen(size, n, j)
  <1>1. size \div n \in Nat /\ size % n \in Nat
    BY DivType
  <1> QED
    BY <1>1 DEF ExtentLen

\* Room for an extent is room for a smaller one.
LEMMA RoomForLess ==
  ASSUME TypeOK, NEW s \in Ssus, NEW a \in Nat, NEW b \in Nat, a <= b,
         HasCapacity(s, b)
  PROVE  HasCapacity(s, a)
  BY DEF HasCapacity, TypeOK

\* The first k extents are placed as the loop places them.
Placed(sel, size, n, k) ==
  /\ sel \in [0 .. k - 1 -> Ssus]
  /\ \A i \in 0 .. k - 1 :
       /\ sel[i] \in online \ {sel[j] : j \in 0 .. i - 1}
       /\ HasCapacity(sel[i], ExtentLen(size, n, i))
       /\ \A s \in online \ {sel[j] : j \in 0 .. i - 1} :
            HasCapacity(s, ExtentLen(size, n, i)) => pos[sel[i]] <= pos[s]

\* k + 1 distinct choices.
Apart(f, k) == \A i, j \in 0 .. k : f[i] = f[j] => i = j

\* What the first k extents take.
Taken(sel, k) == {sel[j] : j \in 0 .. k - 1}

\* Of k + 1 distinct choices, one is not taken by k extents.
LEMMA OneIsFree ==
  ASSUME NEW k \in Nat, NEW sel, NEW fit, Apart(fit, k)
  PROVE  \E i \in 0 .. k : fit[i] \notin Taken(sel, k)
  <1>1. IsFiniteSet(0 .. k - 1) /\ Cardinality(0 .. k - 1) = k
    <2>1. 0 \in Int /\ k - 1 \in Int /\ (0 > k - 1 => k = 0)
      OBVIOUS
    <2> QED
      BY <2>1, FS_Interval
  <1>2. IsFiniteSet(0 .. k) /\ Cardinality(0 .. k) = k + 1
    <2>1. 0 \in Int /\ k \in Int /\ ~(0 > k)
      OBVIOUS
    <2> QED
      BY <2>1, FS_Interval
  <1>3. IsFiniteSet(Taken(sel, k)) /\ Cardinality(Taken(sel, k)) <= k
    <2>1. [j \in 0 .. k - 1 |-> sel[j]] \in Surjection(0 .. k - 1, Taken(sel, k))
      BY DEF Surjection, Taken
    <2> QED
      BY <1>1, <2>1, FS_Surjection
  <1>4. Cardinality(Taken(sel, k)) < Cardinality(0 .. k)
    <2>1. Cardinality(Taken(sel, k)) \in Nat
      BY <1>3, FS_CardinalityType
    <2> QED
      BY <1>2, <1>3, <2>1
  <1> SUFFICES ASSUME \A i \in 0 .. k : fit[i] \in Taken(sel, k)
               PROVE  FALSE
    OBVIOUS
  <1> DEFINE f == [i \in 0 .. k |-> fit[i]]
  <1>5. f \in [0 .. k -> Taken(sel, k)]
    OBVIOUS
  <1> HIDE DEF f
  <1>6. \E x, y \in 0 .. k : x # y /\ f[x] = f[y]
    BY <1>2, <1>3, <1>4, <1>5, FS_PigeonHole
  <1> QED
    BY <1>6 DEF Apart, f

\* The loop places the next extent.
LEMMA PlacesNext ==
  ASSUME TypeOK, NEW size \in Nat, NEW n \in Nat \ {0}, NEW k \in 0 .. n - 1,
         NEW sel, Placed(sel, size, n, k), NEW fit \in [0 .. n - 1 -> online],
         \A i, j \in 0 .. n - 1 : fit[i] = fit[j] => i = j,
         \A i \in 0 .. n - 1 : HasCapacity(fit[i], ExtentLen(size, n, i))
  PROVE  \E next : Placed(next, size, n, k + 1)
  <1>1. PICK l \in Nat : l = ExtentLen(size, n, k)
    BY ExtentTypes
  <1>2. PICK c \in 0 .. k : \A j \in 0 .. k - 1 : fit[c] # sel[j]
    <2>1. k \in Nat /\ Apart(fit, k)
      BY DEF Apart
    <2>2. PICK c \in 0 .. k : fit[c] \notin Taken(sel, k)
      BY <2>1, OneIsFree
    <2> QED
      BY <2>2 DEF Taken
  <1> DEFINE free == online \ {sel[j] : j \in 0 .. k - 1}
             room == {s \in free : HasCapacity(s, l)}
  <1>3. fit[c] \in room
    <2>1. fit[c] \in free
      BY <1>2
    <2>2. HasCapacity(fit[c], ExtentLen(size, n, c)) /\ fit[c] \in Ssus
      BY <1>2 DEF TypeOK
    <2>3. ExtentLen(size, n, c) \in Nat /\ l <= ExtentLen(size, n, c)
      <3>1. c \in Nat /\ k \in Nat /\ c <= k
        BY <1>2
      <3>2. ExtentLen(size, n, c) \in Nat
        BY <3>1, ExtentTypes
      <3>3. ExtentLen(size, n, k) <= ExtentLen(size, n, c)
        BY <3>1, ExtentsFall
      <3> QED
        BY <1>1, <3>2, <3>3
    <2> QED
      BY <2>1, <2>2, <2>3, RoomForLess
  <1>4. room \subseteq Ssus /\ \A s \in room : pos[s] \in Nat
    BY DEF TypeOK
  <1> HIDE DEF room
  <1>5. PICK best \in room : \A s \in room : pos[best] <= pos[s]
    <2> DEFINE P == {pos[s] : s \in room}
    <2>1. P \in SUBSET Nat /\ P # {}
      BY <1>3, <1>4
    <2>2. PICK p \in P : \A y \in P : p <= y
      <3> HIDE DEF P
      <3> QED
        BY <2>1, MinIn
    <2>3. PICK best \in room : p = pos[best]
      BY <2>2
    <2>4. \A s \in room : p <= pos[s]
      BY <2>2
    <2> QED
      BY <2>3, <2>4
  <1> DEFINE next == [i \in 0 .. k |-> IF i = k THEN best ELSE sel[i]]
  <1>6. /\ next \in [0 .. k -> Ssus] /\ next[k] = best
        /\ \A i \in 0 .. k - 1 : next[i] = sel[i]
    BY <1>4, <1>5 DEF Placed
  <1>7. \A i \in 0 .. k : {next[j] : j \in 0 .. i - 1} = {sel[j] : j \in 0 .. i - 1}
    <2> SUFFICES ASSUME NEW i \in 0 .. k
                 PROVE  {next[j] : j \in 0 .. i - 1} = {sel[j] : j \in 0 .. i - 1}
      OBVIOUS
    <2>1. \A j \in 0 .. i - 1 : next[j] = sel[j]
      BY <1>6
    <2> HIDE DEF next
    <2> QED
      BY <2>1
  <1> HIDE DEF next
  <1>8. ASSUME NEW i \in 0 .. k
        PROVE  /\ next[i] \in online \ {next[j] : j \in 0 .. i - 1}
               /\ HasCapacity(next[i], ExtentLen(size, n, i))
               /\ \A s \in online \ {next[j] : j \in 0 .. i - 1} :
                    HasCapacity(s, ExtentLen(size, n, i)) => pos[next[i]] <= pos[s]
    <2>1. CASE i = k
      BY <1>1, <1>5, <1>6, <1>7, <2>1 DEF room
    <2>2. CASE i # k
      <3>1. i \in 0 .. k - 1
        BY <2>2
      <3> QED
        BY <1>6, <1>7, <3>1 DEF Placed
    <2> QED
      BY <2>1, <2>2
  <1>9. (k + 1) - 1 = k
    OBVIOUS
  <1>10. Placed(next, size, n, k + 1)
    BY <1>6, <1>8, <1>9 DEF Placed
  <1> QED
    BY <1>10

LEMMA PlacesAll ==
  ASSUME TypeOK, NEW size \in Nat, NEW n \in Nat \ {0},
         NEW fit \in [0 .. n - 1 -> online],
         \A i, j \in 0 .. n - 1 : fit[i] = fit[j] => i = j,
         \A i \in 0 .. n - 1 : HasCapacity(fit[i], ExtentLen(size, n, i))
  PROVE  \E sel \in [0 .. n - 1 -> Ssus] : FirstFit(sel, size, n)
  <1> DEFINE Stuck == {k \in 0 .. n : \A sel : ~Placed(sel, size, n, k)}
  <1>1. n \notin Stuck => \E sel \in [0 .. n - 1 -> Ssus] : FirstFit(sel, size, n)
    BY DEF Placed, FirstFit
  <1> SUFFICES ASSUME n \in Stuck
               PROVE  FALSE
    BY <1>1
  <1>2. PICK k \in Stuck : \A j \in Stuck : k <= j
    <2>1. Stuck \subseteq Nat
      OBVIOUS
    <2>2. n \in Stuck
      OBVIOUS
    <2> HIDE DEF Stuck
    <2> QED
      BY <2>1, <2>2, MinIn
  <1>3. k # 0
    <2>1. Placed([i \in 0 .. 0 - 1 |-> 0], size, n, 0)
      BY DEF Placed
    <2> QED
      BY <2>1
  <1>4. k - 1 \in 0 .. n - 1 /\ (k - 1) + 1 = k
    BY <1>3
  <1>5. k - 1 \notin Stuck
    BY <1>2, <1>4
  <1>6. PICK sel : Placed(sel, size, n, k - 1)
    BY <1>4, <1>5
  <1>7. \E next : Placed(next, size, n, k)
    <2>1. PICK m \in 0 .. n - 1 : m = k - 1
      BY <1>4
    <2>2. \E next : Placed(next, size, n, m + 1)
      BY <1>6, <2>1, PlacesNext
    <2> QED
      BY <1>4, <2>1, <2>2
  <1> QED
    BY <1>7

\* The placement loop, which takes the first SSU with room for each extent in
\* turn and never looks back, refuses a size and a count only if no choice of
\* distinct online SSUs has room: extents do not grow with their role, so an
\* SSU it passed over for one extent is not missed by the next.
THEOREM PlacementNeverMisses == Spec => []PlacementComplete
  <1>1. IInv => PlacementComplete
    <2> SUFFICES ASSUME IInv, NEW size \in Sizes, NEW n \in 1 .. Cardinality(online),
                        NEW fit \in [0 .. n - 1 -> online],
                        \A i, j \in DOMAIN fit : fit[i] = fit[j] => i = j,
                        \A i \in DOMAIN fit : HasCapacity(fit[i], ExtentLen(size, n, i))
                 PROVE  \E sel \in [0 .. n - 1 -> Ssus] : FirstFit(sel, size, n)
      BY DEF PlacementComplete
    <2>1. TypeOK /\ size \in Nat
      BY SizesAssumption DEF IInv
    <2>2. n \in Nat \ {0}
      <3>1. online \subseteq Ssus /\ IsFiniteSet(Ssus)
        BY <2>1, SsusAssumption DEF TypeOK
      <3>2. Cardinality(online) \in Nat
        BY <3>1, FS_Subset, FS_CardinalityType
      <3> QED
        BY <3>2
    <2> QED
      BY <2>1, <2>2, PlacesAll
  <1> QED
    BY <1>1, SpecInv, PTL

-----------------------------------------------------------------------------
(* Steps, as far as the rows are concerned *)

\* The rows of the tables change only when alloc succeeds and when release
\* deletes something.
LEMMA TableSteps ==
  ASSUME IInv, [Next]_vars
  PROVE  \/ /\ Active' = Active
            /\ \A x \in Active : /\ allocs'[x].req = allocs[x].req
                                 /\ allocs'[x].ext = allocs[x].ext
            /\ used' = used
            /\ nextId' = nextId
         \/ \E req \in Request :
              /\ CanAlloc(req)
              /\ \E sel \in [0 .. ExtentCount(req) - 1 -> Ssus] :
                   /\ FirstFit(sel, req.size, ExtentCount(req))
                   /\ AllocSucceeds(req, nextId, NewRows(req, sel))
         \/ \E id \in Active : ReleaseAll(id)
         \/ \E id \in Active : \E k \in DOMAIN allocs[id].ext : ReleaseStopsAt(id, k)
  <1> DEFINE Same ==
        /\ Active' = Active
        /\ \A x \in Active : /\ allocs'[x].req = allocs[x].req
                             /\ allocs'[x].ext = allocs[x].ext
        /\ used' = used
        /\ nextId' = nextId
  <1>1. ASSUME NEW seen \in SUBSET Ssus,
               NEW healthy \in SUBSET (seen \cup Known),
               NEW cap \in [seen -> Totals], RefreshPool(seen, cap, healthy)
        PROVE  Same
    BY <1>1 DEF RefreshPool, Active
  <1>2. ASSUME NEW req \in Request, Alloc(req)
        PROVE  \/ Same
               \/ /\ CanAlloc(req)
                  /\ \E sel \in [0 .. ExtentCount(req) - 1 -> Ssus] :
                       /\ FirstFit(sel, req.size, ExtentCount(req))
                       /\ AllocSucceeds(req, nextId, NewRows(req, sel))
    <2>1. CanAlloc(req) /\ NextAutoId = nextId
      BY <1>2, NextIdIsCounter DEF Alloc
    <2>2. PICK sel \in [0 .. ExtentCount(req) - 1 -> Ssus] :
            /\ FirstFit(sel, req.size, ExtentCount(req))
            /\ \/ AllocSucceeds(req, nextId, NewRows(req, sel))
               \/ \E k \in DOMAIN sel : AllocRollsBack(nextId, NewRows(req, sel), k)
      BY <1>2, <2>1 DEF Alloc
    <2>3. ASSUME NEW k \in DOMAIN sel,
                 AllocRollsBack(nextId, NewRows(req, sel), k)
          PROVE  Same
      BY <2>3 DEF AllocRollsBack, Active, poolVars
    <2> QED
      BY <2>1, <2>2, <2>3
  <1>3. ASSUME NEW id \in Active, NEW d \in Devs, Mount(id, d)
        PROVE  Same
    <2>1. /\ allocs' = [allocs EXCEPT ![id].state = "MOUNTED"]
          /\ used' = used /\ nextId' = nextId
      BY <1>3 DEF Mount, poolVars
    <2> QED
      BY <2>1, StateChange
  <1>4. ASSUME NEW d \in Attached, Unmount(d)
        PROVE  Same
    <2>1. PICK id \in Active : id = logdevs[d].id
      BY DEF IInv, MappingIsCurrent
    <2>2. /\ allocs' = [allocs EXCEPT ![id].state = StateWithout(id, d)]
          /\ StateWithout(id, d) \in {"ACTIVE", "MOUNTED"}
          /\ used' = used /\ nextId' = nextId
      BY <1>4, <2>1 DEF Unmount, StateWithout, poolVars
    <2> QED
      BY <2>2, StateChange
  <1>5. ASSUME UNCHANGED vars
        PROVE  Same
    BY <1>5 DEF vars, Active
  <1>6. ASSUME NEW req \in Request, Alloc(req), ~Same
        PROVE  \E r \in Request :
                 /\ CanAlloc(r)
                 /\ \E sel \in [0 .. ExtentCount(r) - 1 -> Ssus] :
                      /\ FirstFit(sel, r.size, ExtentCount(r))
                      /\ AllocSucceeds(r, nextId, NewRows(r, sel))
    <2> HIDE DEF Same
    <2> QED
      BY <1>2, <1>6
  <1> SUFFICES ASSUME ~Same
               PROVE  \/ \E r \in Request :
                           /\ CanAlloc(r)
                           /\ \E sel \in [0 .. ExtentCount(r) - 1 -> Ssus] :
                                /\ FirstFit(sel, r.size, ExtentCount(r))
                                /\ AllocSucceeds(r, nextId, NewRows(r, sel))
                      \/ \E id \in Active : ReleaseAll(id)
                      \/ \E id \in Active :
                           \E k \in DOMAIN allocs[id].ext : ReleaseStopsAt(id, k)
    OBVIOUS
  <1> HIDE DEF Same
  <1>7. \/ \E req \in Request : Alloc(req)
        \/ \E id \in Active : ReleaseAll(id)
        \/ \E id \in Active :
             \E k \in DOMAIN allocs[id].ext : ReleaseStopsAt(id, k)
    <2>1. ~\E seen \in SUBSET Ssus :
             \E healthy \in SUBSET (seen \cup Known), cap \in [seen -> Totals] :
               RefreshPool(seen, cap, healthy)
      BY <1>1
    <2>2. ~\E id \in Active, d \in Devs : Mount(id, d)
      BY <1>3
    <2>3. ~\E d \in Attached : Unmount(d)
      BY <1>4
    <2>4. Next
      BY <1>5
    <2> QED
      BY <2>1, <2>2, <2>3, <2>4 DEF Next
  <1>8. CASE \E req \in Request : Alloc(req)
    BY <1>6, <1>8
  <1> QED
    BY <1>7, <1>8
-----------------------------------------------------------------------------
(* What is accounted as used is what the rows hold *)

\* The bytes disk id has on SSU s, 0 once it is released.
BytesHeld(id, s) == IF id \in Active THEN LenOn(allocs[id].ext, s) ELSE 0

LEMMA HeldTypes ==
  ASSUME IInv, NEW id, NEW s
  PROVE  BytesHeld(id, s) \in Nat
  BY LenOnType DEF BytesHeld, IInv, TypeOK

\* A release that deletes the first rows of a disk takes their bytes off.
LEMMA PartsAddUp ==
  ASSUME IInv, NEW id \in Active, NEW k \in DOMAIN allocs[id].ext, NEW s
  PROVE  LenOn(allocs[id].ext, s) =
           LenOn(FirstRows(allocs[id].ext, k), s)
             + LenOn(RowsFrom(allocs[id].ext, k), s)
  <1> DEFINE ext == allocs[id].ext
             gone == FirstRows(ext, k)
             kept == RowsFrom(ext, k)
             On(x) == \E r \in DOMAIN x : x[r].ssu = s
  <1>1. /\ DOMAIN ext \subseteq Nat /\ k \in DOMAIN ext
        /\ \A r \in DOMAIN ext : ext[r].len \in Nat
        /\ \A q, r \in DOMAIN ext : ext[q].ssu = ext[r].ssu => q = r
    BY DEF IInv, TypeOK, IsExtentTable, Extent, RowsSpread
  <1>2. /\ DOMAIN gone = {r \in DOMAIN ext : r < k}
        /\ DOMAIN kept = {r \in DOMAIN ext : r >= k}
        /\ \A r \in DOMAIN gone : gone[r] = ext[r]
        /\ \A r \in DOMAIN kept : kept[r] = ext[r]
    BY DEF FirstRows, RowsFrom
  <1> HIDE DEF ext, gone, kept
  <1>3. ASSUME NEW x, NEW r \in DOMAIN x, x[r].ssu = s,
               \A q \in DOMAIN x : x[q].ssu = s => q = r
        PROVE  LenOn(x, s) = x[r].len
    BY <1>3 DEF LenOn
  <1>4. ASSUME NEW x, \A r \in DOMAIN x : x[r].ssu # s
        PROVE  LenOn(x, s) = 0
    BY <1>4 DEF LenOn
  <1>5. CASE \A r \in DOMAIN ext : ext[r].ssu # s
    <2>1. LenOn(ext, s) = 0 /\ LenOn(gone, s) = 0 /\ LenOn(kept, s) = 0
      BY <1>2, <1>4, <1>5
    <2> QED
      BY <2>1 DEF ext, gone, kept
  <1>6. CASE \E r \in DOMAIN ext : ext[r].ssu = s
    <2>1. PICK r \in DOMAIN ext : ext[r].ssu = s
      BY <1>6
    <2>2. LenOn(ext, s) = ext[r].len
      BY <1>1, <1>3, <2>1
    <2>3. CASE r < k
      <3>1. r \in DOMAIN gone /\ \A q \in DOMAIN kept : q # r
        BY <1>1, <1>2, <2>3
      <3>2. LenOn(gone, s) = ext[r].len
        BY <1>1, <1>2, <1>3, <2>1, <3>1
      <3>3. LenOn(kept, s) = 0
        BY <1>1, <1>2, <1>4, <2>1, <3>1
      <3> QED
        BY <1>1, <2>2, <3>2, <3>3 DEF ext, gone, kept
    <2>4. CASE ~(r < k)
      <3>1. r \in DOMAIN kept /\ \A q \in DOMAIN gone : q # r
        BY <1>1, <1>2, <2>4
      <3>2. LenOn(kept, s) = ext[r].len
        BY <1>1, <1>2, <1>3, <2>1, <3>1
      <3>3. LenOn(gone, s) = 0
        BY <1>1, <1>2, <1>4, <2>1, <3>1
      <3> QED
        BY <1>1, <2>2, <3>2, <3>3 DEF ext, gone, kept
    <2> QED
      BY <2>3, <2>4
  <1> QED
    BY <1>5, <1>6

\* The bytes accounted as used on an SSU are those of the extents on it, for
\* every number of disks and through releases that fail half way: refresh
\* keeps them, and no refund takes more than was charged.
THEOREM UsedIsWhatRowsHold == Spec => []UsedIsSumOfRows
  <1> DEFINE L(s) == [id \in 0 .. nextId - 1 |->
                        IF id \in Active THEN LenOn(allocs[id].ext, s) ELSE 0]
  <1>1. UsedIsSumOfRows <=> \A s \in Ssus : used[s] = SumOf(L(s), nextId)
    BY DEF UsedIsSumOfRows
  <1>2. UsedIsSumOfRows' <=> \A s \in Ssus : used'[s] = SumOf(L(s)', nextId')
    BY DEF UsedIsSumOfRows
  <1>3. ASSUME IInv, NEW s
        PROVE  \A id \in 0 .. nextId - 1 : L(s)[id] = BytesHeld(id, s) /\ L(s)[id] \in Nat
    BY <1>3, HeldTypes DEF BytesHeld
  <1>4. ASSUME IInv', NEW s
        PROVE  \A id \in 0 .. nextId' - 1 :
                 /\ L(s)'[id] = IF id \in Active' THEN LenOn(allocs'[id].ext, s) ELSE 0
                 /\ L(s)'[id] \in Nat
    <2>1. \A id \in Active' : LenOn(allocs'[id].ext, s) \in Nat
      BY <1>4, LenOnType DEF IInv, TypeOK, IsExtentTable
    <2> QED
      BY <2>1 DEF LenOn
  <1>5. Init => UsedIsSumOfRows
    BY SumStep DEF Init, UsedIsSumOfRows
  <1>6. ASSUME IInv, IInv', [Next]_vars, UsedIsSumOfRows, NEW s \in Ssus
        PROVE  used'[s] = SumOf(L(s)', nextId')
    <2>1. /\ nextId \in Nat /\ used[s] = SumOf(L(s), nextId)
          /\ Active \subseteq 0 .. nextId - 1
      BY <1>1, <1>6 DEF IInv, TypeOK, IdsIssued
    <2>2. \A id \in 0 .. nextId - 1 : L(s)[id] = BytesHeld(id, s) /\ L(s)[id] \in Nat
      BY <1>3, <1>6
    <2>3. \A id \in 0 .. nextId' - 1 :
            /\ L(s)'[id] = IF id \in Active' THEN LenOn(allocs'[id].ext, s) ELSE 0
            /\ L(s)'[id] \in Nat
      BY <1>4, <1>6
    <2>4. PICK M : /\ M = L(s)
                   /\ \A id \in 0 .. nextId - 1 : M[id] = BytesHeld(id, s) /\ M[id] \in Nat
      BY <2>2
    <2>5. PICK N : /\ N = L(s)'
                   /\ \A id \in 0 .. nextId' - 1 :
                        /\ N[id] = IF id \in Active' THEN LenOn(allocs'[id].ext, s)
                                                     ELSE 0
                        /\ N[id] \in Nat
      BY <2>3
    <2> HIDE DEF L
    <2>6. used'[s] = SumOf(N, nextId') => used'[s] = SumOf(L(s)', nextId')
      BY <2>5
    <2>7. used[s] = SumOf(M, nextId)
      BY <2>1, <2>4
    <2>8. CASE /\ Active' = Active
               /\ \A x \in Active : /\ allocs'[x].req = allocs[x].req
                                    /\ allocs'[x].ext = allocs[x].ext
               /\ used' = used
               /\ nextId' = nextId
      <3>1. \A id \in 0 .. nextId - 1 : M[id] = N[id] /\ N[id] \in Nat
        BY <2>4, <2>5, <2>8 DEF BytesHeld
      <3>2. SumOf(N, nextId) = SumOf(M, nextId)
        BY <2>1, <2>4, <3>1, SumSame
      <3> QED
        BY <2>6, <2>7, <2>8, <3>2
    <2>9. ASSUME NEW req \in Request, CanAlloc(req),
                 NEW sel \in [0 .. ExtentCount(req) - 1 -> Ssus],
                 FirstFit(sel, req.size, ExtentCount(req)),
                 AllocSucceeds(req, nextId, NewRows(req, sel))
          PROVE  used'[s] = SumOf(N, nextId')
      <3>1. nextId \notin Active
        BY <2>1
      <3>2. /\ Active' = Active \cup {nextId} /\ nextId' = nextId + 1
            /\ allocs'[nextId].ext = NewRows(req, sel)
            /\ \A x \in Active : allocs'[x] = allocs[x]
            /\ used'[s] = used[s] + LenOn(NewRows(req, sel), s)
        BY <2>9, <3>1 DEF AllocSucceeds, Active, IdAfter, Charged
      <3>3. N[nextId] = LenOn(NewRows(req, sel), s)
        BY <2>1, <2>5, <3>2
      <3>4. \A id \in 0 .. nextId - 1 : M[id] = N[id] /\ N[id] \in Nat
        BY <2>1, <2>4, <2>5, <3>2 DEF BytesHeld
      <3>5. SumOf(N, nextId) = SumOf(M, nextId)
        BY <2>1, <2>4, <3>4, SumSame
      <3>6. SumOf(N, nextId + 1) = SumOf(N, nextId) + N[nextId]
        BY <2>1, SumStep
      <3> QED
        BY <2>7, <3>2, <3>3, <3>5, <3>6
    <2>10. ASSUME NEW id \in Active, NEW new \in Nat, nextId' = nextId,
                  \A x \in 0 .. nextId - 1 : x # id => N[x] = M[x],
                  N[id] + new = M[id],
                  used'[s] = IF used[s] >= new THEN used[s] - new ELSE used[s]
           PROVE  used'[s] = SumOf(N, nextId')
      <3>1. id \in 0 .. nextId /\ id # nextId /\ id \in 0 .. nextId - 1
        BY <2>1
      <3>2. \A x \in 0 .. nextId - 1 : M[x] \in Nat /\ N[x] \in Nat
        BY <2>4, <2>5, <2>10
      <3>3. SumOf(N, nextId) = SumOf(M, nextId) - M[id] + N[id]
        BY <2>1, <2>10, <3>1, <3>2, SumChange
      <3>4. SumOf(N, nextId) \in Nat /\ SumOf(M, nextId) \in Nat
        BY <2>1, <3>2, SumType
      <3>5. M[id] \in Nat /\ N[id] \in Nat
        BY <3>1, <3>2
      <3> QED
        BY <2>7, <2>10, <3>3, <3>4, <3>5
    <2>11. ASSUME NEW id \in Active, ReleaseAll(id)
           PROVE  used'[s] = SumOf(N, nextId')
      <3>1. /\ Active' = Active \ {id} /\ nextId' = nextId
            /\ \A x \in Active' : allocs'[x] = allocs[x]
            /\ used' = Refunded(allocs[id].ext)
        BY <2>11 DEF ReleaseAll, Active
      <3>2. id \in 0 .. nextId - 1
        BY <2>1
      <3>3. LenOn(allocs[id].ext, s) \in Nat
        BY HeldTypes, <1>6 DEF BytesHeld
      <3>4. M[id] = LenOn(allocs[id].ext, s) /\ N[id] = 0
        BY <2>4, <2>5, <3>1, <3>2 DEF BytesHeld
      <3>5. \A x \in 0 .. nextId - 1 : x # id => N[x] = M[x]
        BY <2>4, <2>5, <3>1 DEF BytesHeld
      <3>6. used'[s] = IF used[s] >= LenOn(allocs[id].ext, s)
                         THEN used[s] - LenOn(allocs[id].ext, s) ELSE used[s]
        BY <3>1 DEF Refunded
      <3> QED
        BY <2>10, <3>1, <3>3, <3>4, <3>5, <3>6
    <2>12. ASSUME NEW id \in Active, NEW k \in DOMAIN allocs[id].ext,
                  ReleaseStopsAt(id, k)
           PROVE  used'[s] = SumOf(N, nextId')
      <3> DEFINE gone == FirstRows(allocs[id].ext, k)
                 kept == RowsFrom(allocs[id].ext, k)
      <3>1. /\ Active' = Active /\ nextId' = nextId
            /\ allocs'[id] = [allocs[id] EXCEPT !.ext = kept]
            /\ \A x \in Active : x # id => allocs'[x] = allocs[x]
            /\ used' = Refunded(gone)
        BY <2>12 DEF ReleaseStopsAt, Active
      <3>2. id \in 0 .. nextId - 1
        BY <2>1
      <3>3. allocs'[id].ext = kept
        <4>1. allocs[id] \in [req: Request, state: {"ACTIVE", "MOUNTED"},
                              ext: {allocs[id].ext}]
          BY <1>6 DEF IInv, TypeOK
        <4> QED
          BY <3>1, <4>1
      <3>4. LenOn(gone, s) \in Nat /\ LenOn(kept, s) \in Nat
        BY <1>6, PartTables, LenOnType DEF IInv, TypeOK
      <3>5. LenOn(allocs[id].ext, s) = LenOn(gone, s) + LenOn(kept, s)
        BY <1>6, PartsAddUp
      <3> HIDE DEF gone, kept
      <3>6. M[id] = LenOn(allocs[id].ext, s) /\ N[id] = LenOn(kept, s)
        BY <2>4, <2>5, <3>1, <3>2, <3>3 DEF BytesHeld
      <3>7. \A x \in 0 .. nextId - 1 : x # id => N[x] = M[x]
        BY <2>4, <2>5, <3>1 DEF BytesHeld
      <3>8. used'[s] = IF used[s] >= LenOn(gone, s)
                         THEN used[s] - LenOn(gone, s) ELSE used[s]
        BY <3>1 DEF Refunded
      <3>9. N[id] + LenOn(gone, s) = M[id]
        BY <3>4, <3>5, <3>6
      <3> QED
        BY <2>10, <3>1, <3>4, <3>7, <3>8, <3>9
    <2> QED
      BY <1>6, <2>6, <2>8, <2>9, <2>11, <2>12, TableSteps
  <1>7. IInv /\ IInv' /\ UsedIsSumOfRows /\ [Next]_vars => UsedIsSumOfRows'
    <2> HIDE DEF L
    <2> QED
      BY <1>2, <1>6
  <1> QED
    BY <1>5, <1>7, SpecInv, PTL DEF Spec

-----------------------------------------------------------------------------
(* A repeated request finds its disk *)

\* The rows of a disk have the last roles of a run of extents, as many as the
\* caller asked for when the disk has bytes for them.
RolesRun ==
  \A id \in Active :
    LET req == allocs[id].req
    IN  \E n \in 1 .. Cardinality(Ssus) : \E k \in 0 .. n - 1 :
          /\ DOMAIN allocs[id].ext = k .. n - 1
          /\ req.disks <= req.size => req.disks \in {0, n}

\* A placed request has at most one extent per SSU, and as many as asked for.
LEMMA CountFits ==
  ASSUME IInv, NEW req \in Request, CanAlloc(req)
  PROVE  /\ ExtentCount(req) \in 1 .. Cardinality(Ssus)
         /\ req.disks <= req.size => req.disks \in {0, ExtentCount(req)}
  <1>1. Cardinality(online) \in Nat /\ Cardinality(Ssus) \in Nat
        /\ Cardinality(online) <= Cardinality(Ssus)
    <2>1. online \subseteq Ssus /\ IsFiniteSet(Ssus)
      BY SsusAssumption DEF IInv, TypeOK
    <2> QED
      BY <2>1, FS_Subset, FS_CardinalityType
  <1>2. req.size \in Nat \ {0} /\ req.disks \in 0 .. Cardinality(Ssus)
    BY SizesAssumption DEF Request
  <1>3. ExtentCount(req) \in Nat \ {0}
    BY ExtentCountType DEF IInv, CanAlloc
  <1>4. req.disks <= Cardinality(online)
    BY DEF CanAlloc
  <1> QED
    BY <1>1, <1>2, <1>3, <1>4 DEF ExtentCount

LEMMA RolesRunInv == IInv /\ RolesRun /\ [Next]_vars => RolesRun'
  <1> DEFINE Run(req, ext) ==
        \E n \in 1 .. Cardinality(Ssus) : \E k \in 0 .. n - 1 :
          /\ DOMAIN ext = k .. n - 1
          /\ req.disks <= req.size => req.disks \in {0, n}
  <1>1. /\ RolesRun <=> \A id \in Active : Run(allocs[id].req, allocs[id].ext)
        /\ RolesRun' <=>
             \A id \in Active' : Run(allocs'[id].req, allocs'[id].ext)
    BY DEF RolesRun
  <1> SUFFICES ASSUME IInv, RolesRun, [Next]_vars
               PROVE  RolesRun'
    OBVIOUS
  <1>2. ASSUME NEW req \in Request, CanAlloc(req),
               NEW sel \in [0 .. ExtentCount(req) - 1 -> Ssus],
               AllocSucceeds(req, nextId, NewRows(req, sel))
        PROVE  RolesRun'
    <2>1. Run(req, NewRows(req, sel))
      <3>1. DOMAIN NewRows(req, sel) = 0 .. ExtentCount(req) - 1
        BY DEF NewRows
      <3>2. PICK n \in 1 .. Cardinality(Ssus) :
              /\ n = ExtentCount(req)
              /\ req.disks <= req.size => req.disks \in {0, n}
        BY <1>2, CountFits
      <3>3. 0 \in 0 .. n - 1
        <4>1. Cardinality(Ssus) \in Nat
          BY SsusAssumption, FS_CardinalityType
        <4> QED
          BY <4>1
      <3> HIDE DEF NewRows
      <3> QED
        BY <3>1, <3>2, <3>3
    <2> HIDE DEF Run
    <2>2. /\ Active' = Active \cup {nextId}
          /\ allocs'[nextId].req = req
          /\ allocs'[nextId].ext = NewRows(req, sel)
          /\ \A x \in Active : x # nextId => allocs'[x] = allocs[x]
      BY <1>2 DEF AllocSucceeds, Active
    <2> QED
      BY <1>1, <2>1, <2>2
  <1>3. ASSUME NEW id \in Active, ReleaseAll(id)
        PROVE  RolesRun'
    <2>1. Active' = Active \ {id} /\ \A x \in Active' : allocs'[x] = allocs[x]
      BY <1>3 DEF ReleaseAll, Active
    <2> HIDE DEF Run
    <2> QED
      BY <1>1, <2>1
  <1>4. ASSUME NEW id \in Active, NEW k \in DOMAIN allocs[id].ext,
               ReleaseStopsAt(id, k)
        PROVE  RolesRun'
    <2> DEFINE ext == allocs[id].ext
               kept == RowsFrom(ext, k)
    <2>1. /\ Active' = Active
          /\ allocs'[id] = [allocs[id] EXCEPT !.ext = kept]
          /\ \A x \in Active : x # id => allocs'[x] = allocs[x]
      BY <1>4 DEF ReleaseStopsAt, Active
    <2>2. allocs'[id].req = allocs[id].req /\ allocs'[id].ext = kept
      <3>1. allocs[id] \in [req: Request, state: {"ACTIVE", "MOUNTED"},
                            ext: {allocs[id].ext}]
        BY DEF IInv, TypeOK
      <3> QED
        BY <2>1, <3>1
    <2>3. Run(allocs[id].req, kept)
      <3>1. PICK n \in 1 .. Cardinality(Ssus) : \E j \in 0 .. n - 1 :
              /\ DOMAIN ext = j .. n - 1
              /\ allocs[id].req.disks <= allocs[id].req.size =>
                   allocs[id].req.disks \in {0, n}
        BY <1>1
      <3>2. DOMAIN kept = {r \in DOMAIN ext : r >= k}
        BY DEF RowsFrom
      <3>3. Cardinality(Ssus) \in Nat
        BY SsusAssumption, FS_CardinalityType
      <3>4. DOMAIN kept = k .. n - 1 /\ k \in 0 .. n - 1
        <4> HIDE DEF kept, ext
        <4>1. k \in DOMAIN ext
          BY DEF ext
        <4>2. PICK j \in 0 .. n - 1 : DOMAIN ext = j .. n - 1
          BY <3>1
        <4> QED
          BY <3>2, <3>3, <4>1, <4>2
      <3> QED
        BY <3>1, <3>4
    <2> HIDE DEF Run, kept
    <2> QED
      BY <1>1, <2>1, <2>2, <2>3
  <1>5. ASSUME Active' = Active,
               \A x \in Active : /\ allocs'[x].req = allocs[x].req
                                 /\ allocs'[x].ext = allocs[x].ext
        PROVE  RolesRun'
    <2> HIDE DEF Run
    <2> QED
      BY <1>1, <1>5
  <1> QED
    BY <1>2, <1>3, <1>4, <1>5, TableSteps

\* The lengths of the rows of a whole disk add up to its size: before row r
\* lie the bytes from 0 to its offset.
LEMMA LengthsAddUp ==
  ASSUME IInv, RowsTile, NEW id \in Active, NEW n \in 1 .. Cardinality(Ssus),
         DOMAIN allocs[id].ext = 0 .. n - 1
  PROVE  SumLens(allocs[id].ext) = allocs[id].req.size
  <1> DEFINE roles == Cardinality(Ssus)
             ext == allocs[id].ext
             size == allocs[id].req.size
             L == [r \in 0 .. roles - 1 |-> IF r \in DOMAIN ext THEN ext[r].len ELSE 0]
             Before(r) == IF r < n THEN ext[r].off ELSE size
             Bad == {r \in 0 .. roles : SumOf(L, r) # Before(r)}
  <1>1. roles \in Nat
    BY SsusAssumption, FS_CardinalityType
  <1>2. \A r \in 0 .. n - 1 : ext[r].off \in Nat /\ ext[r].len \in Nat
    BY DEF IInv, TypeOK, IsExtentTable, Extent
  <1>3. /\ ext[0].off = 0
        /\ \A r \in 0 .. n - 1 : IF r + 1 \in 0 .. n - 1
                                   THEN ext[r + 1].off = ext[r].off + ext[r].len
                                   ELSE ext[r].off + ext[r].len = size
    <2>1. 0 \in DOMAIN ext
      BY <1>1
    <2> QED
      BY <2>1 DEF RowsTile
  <1>4. SumLens(ext) = SumOf(L, roles)
    BY DEF SumLens
  <1>5. \A r \in 0 .. roles - 1 : L[r] = IF r < n THEN ext[r].len ELSE 0
    BY <1>1
  <1> HIDE DEF ext, size, L, roles
  <1>6. size \in Nat
    <2>1. allocs[id] \in [req: Request, state: {"ACTIVE", "MOUNTED"},
                          ext: {allocs[id].ext}]
      BY DEF IInv, TypeOK
    <2>2. allocs[id].req.size \in Sizes
      BY <2>1 DEF Request
    <2> QED
      BY <2>2, SizesAssumption DEF size
  <1>7. roles \notin Bad
    <2> SUFFICES ASSUME roles \in Bad
                 PROVE  FALSE
      OBVIOUS
    <2>1. PICK r \in Bad : \A q \in Bad : r <= q
      <3>1. Bad \in SUBSET Nat
        BY <1>1
      <3>2. roles \in Bad
        OBVIOUS
      <3> HIDE DEF Bad
      <3> QED
        BY <3>1, <3>2, MinIn
    <2>2. r # 0
      <3>1. 0 < n
        BY <1>1 DEF roles
      <3>2. SumOf(L, 0) = Before(0)
        BY <1>3, <3>1, SumStep
      <3> QED
        BY <2>1, <3>2
    <2>3. PICK m \in 0 .. roles - 1 : r = m + 1
      <3>1. r - 1 \in 0 .. roles - 1 /\ r = (r - 1) + 1
        BY <1>1, <2>1, <2>2
      <3> QED
        BY <3>1
    <2>4. m \in 0 .. roles /\ m \notin Bad
      BY <1>1, <2>1, <2>3
    <2>5. SumOf(L, m) = Before(m)
      BY <2>4
    <2>6. SumOf(L, r) = SumOf(L, m) + L[m]
      BY <2>3, SumStep
    <2>7. SumOf(L, r) # Before(r)
      BY <2>1
    <2>8. n \in Nat \ {0} /\ m \in Nat
      BY <1>1 DEF roles
    <2>9. CASE m < n
      <3>1. m \in 0 .. n - 1 /\ L[m] = ext[m].len /\ SumOf(L, m) = ext[m].off
        BY <1>5, <2>3, <2>5, <2>8, <2>9
      <3> QED
        BY <1>2, <1>3, <2>3, <2>6, <2>7, <2>8, <3>1
    <2>10. CASE ~(m < n)
      <3>1. L[m] = 0 /\ SumOf(L, m) = size /\ Before(r) = size
        BY <1>5, <2>3, <2>5, <2>8, <2>10
      <3> QED
        BY <1>6, <2>6, <2>7, <3>1
    <2> QED
      BY <2>9, <2>10
  <1>8. SumOf(L, roles) = Before(roles) /\ ~(roles < n)
    BY <1>1, <1>7 DEF roles
  <1> QED
    BY <1>4, <1>8 DEF ext, size

\* A request that is sent again because its answer was lost finds the disk
\* the first one made, for every size and number of SSUs: the lengths of its
\* rows still add up to the size asked for, and there are as many rows.
THEOREM RetriesFindTheirDisk == Spec => []RetryFindsDisk
  <1>1. Init => RolesRun
    BY DEF Init, RolesRun, Active
  <1>2. IInv /\ RowsTile /\ RolesRun => RetryFindsDisk
    <2> SUFFICES ASSUME IInv, RowsTile, RolesRun, NEW id \in Active,
                        0 \in DOMAIN allocs[id].ext,
                        allocs[id].req.disks <= allocs[id].req.size
                 PROVE  MatchesExisting(allocs[id].req, id)
      BY DEF RetryFindsDisk
    <2>1. PICK n \in 1 .. Cardinality(Ssus) : \E k \in 0 .. n - 1 :
            /\ DOMAIN allocs[id].ext = k .. n - 1
            /\ allocs[id].req.disks \in {0, n}
      BY DEF RolesRun
    <2>2. PICK k \in 0 .. n - 1 : DOMAIN allocs[id].ext = k .. n - 1
      BY <2>1
    <2>3. n \in Nat \ {0} /\ k \in Nat
      <3>1. Cardinality(Ssus) \in Nat
        BY SsusAssumption, FS_CardinalityType
      <3> QED
        BY <3>1
    <2>4. DOMAIN allocs[id].ext = 0 .. n - 1
      BY <2>3, <2>2
    <2>5. Cardinality(0 .. n - 1) = n
      <3>1. 0 \in Int /\ n - 1 \in Int /\ ~(0 > n - 1)
        BY <2>3
      <3>2. Cardinality(0 .. n - 1) = (n - 1) - 0 + 1
        BY <3>1, FS_Interval
      <3> QED
        BY <2>3, <3>2
    <2>6. SumLens(allocs[id].ext) = allocs[id].req.size
      BY <2>4, LengthsAddUp
    <2> QED
      BY <2>1, <2>4, <2>5, <2>6 DEF MatchesExisting
  <1> QED
    BY <1>1, <1>2, RolesRunInv, DisksAreTiled, SpecInv, PTL DEF Spec

-----------------------------------------------------------------------------
(* Nothing is left at a plugin whose deletions do not fail *)

\* On the mock target, a rolled back alloc and a release leave no namespace
\* behind: the namespaces alive are those of the rows.
THEOREM NothingLeftBehind ==
  ASSUME ~DeleteMayFail
  PROVE  Spec => []NoResidue
  <1> DEFINE Of(id) == NamespacesOf(id, allocs[id].ext)
             Held == UNION {Of(id) : id \in Active}
  <1>1. Init => NoResidue
    BY DEF Init, NoResidue, Active
  <1>2. ASSUME IInv, NoResidue, NEW req \in Request, Alloc(req)
        PROVE  NoResidue'
    <2>1. NextAutoId = nextId
      BY <1>2, NextIdIsCounter DEF Alloc
    <2>2. PICK sel \in [0 .. ExtentCount(req) - 1 -> Ssus] :
            \/ AllocSucceeds(req, nextId, NewRows(req, sel))
            \/ \E k \in DOMAIN sel : AllocRollsBack(nextId, NewRows(req, sel), k)
      BY <1>2, <2>1 DEF Alloc
    <2>3. CASE AllocSucceeds(req, nextId, NewRows(req, sel))
      <3>1. nextId \notin Active
        BY <1>2 DEF IInv, IdsIssued, TypeOK
      <3>2. /\ Active' = Active \cup {nextId}
            /\ allocs'[nextId].ext = NewRows(req, sel)
            /\ \A x \in Active : allocs'[x] = allocs[x]
            /\ namespaces' = namespaces \cup NamespacesOf(nextId, NewRows(req, sel))
        BY <2>3, <3>1 DEF AllocSucceeds, Active
      <3>3. UNION {NamespacesOf(x, allocs'[x].ext) : x \in Active'} =
              Held \cup NamespacesOf(nextId, NewRows(req, sel))
        <4>1. \A x \in Active : NamespacesOf(x, allocs'[x].ext) = Of(x)
          BY <3>2
        <4>2. {NamespacesOf(x, allocs'[x].ext) : x \in Active'} =
                {Of(x) : x \in Active}
                  \cup {NamespacesOf(nextId, NewRows(req, sel))}
          <5> HIDE DEF Of
          <5> QED
            BY <3>2, <4>1
        <4> QED
          BY <4>2
      <3> QED
        BY <1>2, <3>2, <3>3 DEF NoResidue, NamespacesOf
    <2>4. ASSUME NEW k \in DOMAIN sel,
                 AllocRollsBack(nextId, NewRows(req, sel), k)
          PROVE  NoResidue'
      <3>1. UNCHANGED <<allocs, namespaces>>
        BY <1>2, <2>4 DEF AllocRollsBack
      <3> QED
        BY <1>2, <3>1 DEF NoResidue, NamespacesOf, Active
    <2> QED
      BY <2>2, <2>3, <2>4
  <1>3. ASSUME IInv, NoResidue, NEW id \in Active, ReleaseAll(id)
        PROVE  NoResidue'
    <2>1. /\ Active' = Active \ {id}
          /\ \A x \in Active' : allocs'[x] = allocs[x]
          /\ namespaces' = namespaces \ Of(id)
      BY <1>3 DEF ReleaseAll, Active
    <2>2. \A x \in Active \ {id} : Of(x) \cap Of(id) = {}
      BY DEF NamespacesOf
    <2>3. {NamespacesOf(x, allocs'[x].ext) : x \in Active'} =
            {Of(x) : x \in Active \ {id}}
      BY <2>1
    <2>4. Held \ Of(id) = UNION {Of(x) : x \in Active \ {id}}
      <3> HIDE DEF Of
      <3> QED
        BY <2>2
    <2> QED
      BY <1>3, <2>1, <2>3, <2>4 DEF NoResidue, NamespacesOf
  <1>4. ASSUME IInv, NoResidue, NEW id \in Active, NEW st \in {"ACTIVE", "MOUNTED"},
               allocs' = [allocs EXCEPT ![id].state = st], UNCHANGED namespaces
        PROVE  NoResidue'
    <2>1. \A x \in Active : allocs'[x].ext = allocs[x].ext
      BY <1>4, StateChange
    <2>2. Active' = Active
      BY <1>4, StateChange
    <2>3. {NamespacesOf(x, allocs'[x].ext) : x \in Active'} =
            {Of(x) : x \in Active}
      BY <2>1, <2>2
    <2> QED
      BY <1>4, <2>3 DEF NoResidue, NamespacesOf
  <1>5. ASSUME IInv, NoResidue, NEW d \in Attached, Unmount(d)
        PROVE  NoResidue'
    <2>1. PICK id \in Active : id = logdevs[d].id
      BY <1>5 DEF IInv, MappingIsCurrent
    <2>2. /\ allocs' = [allocs EXCEPT ![id].state = StateWithout(id, d)]
          /\ StateWithout(id, d) \in {"ACTIVE", "MOUNTED"}
          /\ UNCHANGED namespaces
      BY <1>5, <2>1 DEF Unmount, StateWithout
    <2> QED
      BY <1>4, <1>5, <2>2
  <1>6. ASSUME IInv, NoResidue, NEW id \in Active, NEW d \in Devs, Mount(id, d)
        PROVE  NoResidue'
    <2>1. allocs' = [allocs EXCEPT ![id].state = "MOUNTED"] /\ UNCHANGED namespaces
      BY <1>6 DEF Mount
    <2> QED
      BY <1>4, <1>6, <2>1
  <1>7. ASSUME NoResidue, UNCHANGED <<allocs, namespaces>>
        PROVE  NoResidue'
    BY <1>7 DEF NoResidue, NamespacesOf, Active
  <1>8. IInv /\ NoResidue /\ [Next]_vars => NoResidue'
    <2> SUFFICES ASSUME IInv, NoResidue, [Next]_vars
                 PROVE  NoResidue'
      OBVIOUS
    <2>1. ASSUME NEW seen \in SUBSET Ssus,
                 NEW healthy \in SUBSET (seen \cup Known),
                 NEW cap \in [seen -> Totals], RefreshPool(seen, cap, healthy)
          PROVE  UNCHANGED <<allocs, namespaces>>
      BY <2>1 DEF RefreshPool
    <2>2. ASSUME NEW id \in Active, NEW k \in DOMAIN allocs[id].ext
          PROVE  ~ReleaseStopsAt(id, k)
      BY DEF ReleaseStopsAt
    <2>3. UNCHANGED vars => UNCHANGED <<allocs, namespaces>>
      BY DEF vars
    <2> QED
      BY <1>2, <1>3, <1>5, <1>6, <1>7, <2>1, <2>2, <2>3 DEF Next
  <1> QED
    BY <1>1, <1>8, SpecInv, PTL DEF Spec

-----------------------------------------------------------------------------
(* Refinement *)

\* The controller does to logical disks only what VolumeLifecycle allows:
\* every operation is one of its steps or changes nothing it can see.
THEOREM ControllerRefinesLifecycle == Spec => Refines
  <1> DEFINE Live == [id \in Active |-> allocs[id].req.share]
             Dev == [d \in Attached |-> logdevs[d].id]
  <1>1. Init => Lifecycle!Init
    BY DEF Init, Lifecycle!Init, Active, Attached
  <1>2. ASSUME UNCHANGED <<allocs, logdevs, retired>>
        PROVE  UNCHANGED Lifecycle!vars
    BY <1>2 DEF Lifecycle!vars, Active, Attached
  <1>3. ASSUME IInv, NEW req \in Request, Alloc(req)
        PROVE  Lifecycle!Next \/ UNCHANGED Lifecycle!vars
    <2>1. NextAutoId = nextId /\ nextId < MaxAllocId
      BY <1>3, NextIdIsCounter DEF Alloc
    <2>2. PICK sel \in [0 .. ExtentCount(req) - 1 -> Ssus] :
            \/ AllocSucceeds(req, nextId, NewRows(req, sel))
            \/ \E k \in DOMAIN sel : AllocRollsBack(nextId, NewRows(req, sel), k)
      BY <1>3, <2>1 DEF Alloc
    <2>3. CASE AllocSucceeds(req, nextId, NewRows(req, sel))
      <3>1. nextId \notin Active \cup retired /\ nextId \in 0 .. MaxAllocId - 1
        BY <1>3, <2>1, BoundAssumption DEF IInv, IdsIssued, TypeOK
      <3>2. /\ Active' = Active \cup {nextId}
            /\ allocs'[nextId].req = req
            /\ \A x \in Active : allocs'[x] = allocs[x]
            /\ UNCHANGED <<logdevs, retired>>
        BY <2>3, <3>1 DEF AllocSucceeds, Active
      <3>3. req.share \in {"EXCLUSIVE", "SHARED"}
        BY DEF Request
      <3>4. Live' = [x \in Active \cup {nextId} |->
                       IF x = nextId THEN req.share ELSE Live[x]]
        BY <3>1, <3>2
      <3>5. Dev' = Dev
        BY <3>2 DEF Attached
      <3> HIDE DEF Dev
      <3>6. DOMAIN Live = Active
        OBVIOUS
      <3> HIDE DEF Live
      <3>7. Lifecycle!Create(nextId, req.share)
        BY <3>1, <3>2, <3>4, <3>5, <3>6 DEF Lifecycle!Create, Live, Dev
      <3> QED
        BY <3>1, <3>3, <3>7 DEF Lifecycle!Next
    <2>4. ASSUME NEW k \in DOMAIN sel,
                 AllocRollsBack(nextId, NewRows(req, sel), k)
          PROVE  UNCHANGED Lifecycle!vars
      BY <1>2, <2>4 DEF AllocRollsBack
    <2> QED
      BY <2>2, <2>3, <2>4
  <1>4. ASSUME IInv, NEW id \in Active, ReleaseAll(id)
        PROVE  Lifecycle!Next
    <2>1. /\ Active' = Active \ {id}
          /\ \A x \in Active' : allocs'[x] = allocs[x]
          /\ retired' = retired \cup {id}
          /\ UNCHANGED logdevs
      BY <1>4 DEF ReleaseAll, Active
    <2>2. \A d \in Attached : logdevs[d].id # id
      BY <1>4 DEF ReleaseAll, CanRelease, HasLogdev
    <2>3. Lifecycle!Destroy(id)
      BY <2>1, <2>2 DEF Lifecycle!Destroy, Attached
    <2> QED
      BY <2>3 DEF Lifecycle!Next
  <1>5. ASSUME IInv, NEW id \in Active, NEW k \in DOMAIN allocs[id].ext,
               ReleaseStopsAt(id, k)
        PROVE  UNCHANGED Lifecycle!vars
    <2>1. /\ Active' = Active
          /\ allocs'[id] = [allocs[id] EXCEPT !.ext = RowsFrom(@, k)]
          /\ \A x \in Active : x # id => allocs'[x] = allocs[x]
          /\ UNCHANGED <<logdevs, retired>>
      BY <1>5 DEF ReleaseStopsAt, Active
    <2>2. allocs[id] \in [req: Request, state: {"ACTIVE", "MOUNTED"},
                          ext: {allocs[id].ext}]
      BY <1>5 DEF IInv, TypeOK
    <2>3. \A x \in Active : allocs'[x].req = allocs[x].req
      BY <2>1, <2>2
    <2> QED
      BY <2>1, <2>3 DEF Lifecycle!vars, Attached
  <1>6. ASSUME IInv, NEW id \in Active, NEW d \in Devs, Mount(id, d)
        PROVE  Lifecycle!Next
    <2>1. /\ Active' = Active
          /\ \A x \in Active : allocs'[x].req = allocs[x].req
      <3>1. allocs' = [allocs EXCEPT ![id].state = "MOUNTED"]
        BY <1>6 DEF Mount
      <3> QED
        BY <1>6, <3>1, StateChange
    <2>2. /\ d \notin Attached
          /\ allocs[id].req.share # "SHARED" =>
               \A x \in Attached : logdevs[x].id # id
      BY <1>6 DEF Mount, CanMount, HasLogdev
    <2>3. /\ Attached' = Attached \cup {d}
          /\ logdevs'[d].id = id
          /\ \A x \in Attached : logdevs'[x] = logdevs[x]
          /\ UNCHANGED retired
      BY <1>6, <2>2 DEF Mount, Attached
    <2>4. Live' = Live
      BY <2>1
    <2>5. Dev' = [x \in Attached \cup {d} |-> IF x = d THEN id ELSE Dev[x]]
      BY <2>2, <2>3
    <2>6. Live[id] = "EXCLUSIVE" => \A x \in Attached : Dev[x] # id
      BY <1>6, <2>2
    <2>7. DOMAIN Live = Active /\ DOMAIN Dev = Attached
      OBVIOUS
    <2> HIDE DEF Live, Dev
    <2>8. Lifecycle!Attach(id, d)
      BY <1>6, <2>2, <2>3, <2>4, <2>5, <2>6, <2>7
         DEF Lifecycle!Attach, Live, Dev
    <2>9. id \in DOMAIN Live
      BY <2>7
    <2> QED
      BY <1>6, <2>8, <2>9 DEF Lifecycle!Next, Live
  <1>7. ASSUME IInv, NEW d \in Attached, Unmount(d)
        PROVE  Lifecycle!Next
    <2>1. /\ Active' = Active
          /\ \A x \in Active : allocs'[x].req = allocs[x].req
      <3>1. PICK id \in Active : id = logdevs[d].id
        BY <1>7 DEF IInv, MappingIsCurrent
      <3>2. allocs' = [allocs EXCEPT ![id].state = StateWithout(id, d)]
        BY <1>7, <3>1 DEF Unmount
      <3>3. StateWithout(id, d) \in {"ACTIVE", "MOUNTED"}
        BY DEF StateWithout
      <3> QED
        BY <1>7, <3>2, <3>3, StateChange
    <2>2. /\ Attached' = Attached \ {d}
          /\ \A x \in Attached' : logdevs'[x] = logdevs[x]
          /\ UNCHANGED retired
      BY <1>7 DEF Unmount, Attached
    <2>3. Lifecycle!Detach(d)
      BY <2>1, <2>2 DEF Lifecycle!Detach
    <2> QED
      BY <2>3 DEF Lifecycle!Next
  <1>8. IInv /\ [Next]_vars => [Lifecycle!Next]_Lifecycle!vars
    <2> SUFFICES ASSUME IInv, [Next]_vars
                 PROVE  Lifecycle!Next \/ UNCHANGED Lifecycle!vars
      OBVIOUS
    <2>1. ASSUME NEW seen \in SUBSET Ssus,
                 NEW healthy \in SUBSET (seen \cup Known),
                 NEW cap \in [seen -> Totals], RefreshPool(seen, cap, healthy)
          PROVE  UNCHANGED Lifecycle!vars
      BY <1>2, <2>1 DEF RefreshPool
    <2>2. CASE UNCHANGED vars
      BY <1>2, <2>2 DEF vars
    <2> QED
      BY <1>3, <1>4, <1>5, <1>6, <1>7, <2>1, <2>2 DEF Next
  <1> QED
    BY <1>1, <1>8, SpecInv, PTL DEF Spec, Refines, Lifecycle!Spec
==============================================================================
