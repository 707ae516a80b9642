--------------------------- MODULE ReqShim_proofs ---------------------------
(* Proofs about ReqShim, for any number of processes, minors, volumes,      *)
(* requests and map entries.  What is said of types and of requests holds   *)
(* however sessions overlap; the rest holds if sessions on one minor do not *)
(* (Serial), as one manager sees to.                                        *)
EXTENDS ReqShim, ProofFacts, FiniteSetTheorems

-----------------------------------------------------------------------------
(* The inductive invariant without Serial: types, and requests whose        *)
(* gendisk is there                                                         *)

DestroySteps == {"quiesce", "drain", "reset", "clear"}

SessionStates ==
  [op : {"mount", "unmount", "undo", "cleanup"}, at : Steps, minor : Minors,
   vol : Volumes \cup {"unknown"}, maps : Seq(ExtentStates), i : Nat \ {0},
   disk : Nat]

\* A session goes through the entries of its volume, or of what it undoes.
Shape(s) ==
  /\ s \in SessionStates
  /\ s.i <= Len(s.maps) + 1
  /\ s.at = "insert" => s.i <= Len(s.maps)
  /\ s.op = "mount" <=> s.at \in {"create", "add", "insert"}
  /\ s.op # "cleanup" => s.vol \in Volumes /\ s.minor = s.vol.minor
  /\ s.op = "mount" => s.maps = s.vol.maps

SessionsTyped ==
  /\ DOMAIN session = Clients
  /\ \A c \in Clients : session[c] = Idle \/ Shape(session[c])

SlotsTyped ==
  /\ slot \in [Minors -> [active : BOOLEAN, disk : Gens \cup {0}]]
  /\ \A m \in Minors : slot[m].active => slot[m].disk \in DOMAIN volumeOf

IsEntry(x) == \E v \in Volumes : \E k \in DOMAIN v.maps : x = Entry(v.minor, v.maps[k])
MapsTyped ==
  /\ DOMAIN maps = 1 .. MaxMaps
  /\ \A i \in 1 .. MaxMaps : maps[i] = NoEntry \/ IsEntry(maps[i])

DisksTyped ==
  /\ volumeOf \in Seq(Volumes) /\ Len(volumeOf) <= MaxDisks
  /\ disks \subseteq DOMAIN volumeOf /\ dying \subseteq DOMAIN volumeOf
  /\ \A c \in Clients : session[c].at \in DestroySteps =>
                          session[c].disk \in DOMAIN volumeOf

MountsTyped == mounted \in [Clients -> SUBSET Volumes]

Places == [dev : STRING \cup {"none"}, phys : Nat]
ReqStates ==
  [st : {"queued", "translate", "device"}, disk : Nat, pos : Nat,
   left : Nat \ {0}, chunk : Nat, place : Places]

ReqsTyped ==
  /\ DOMAIN reqs = Reqs
  /\ \A r \in Reqs : reqs[r] # NoReq =>
       /\ reqs[r] \in ReqStates
       /\ reqs[r].disk \in DOMAIN volumeOf
       /\ reqs[r].pos + reqs[r].left <= volumeOf[reqs[r].disk].cap
       /\ reqs[r].st = "device" => reqs[r].chunk \in 1 .. reqs[r].left

Typed ==
  /\ SlotsTyped /\ MapsTyped /\ DisksTyped /\ SessionsTyped /\ MountsTyped
  /\ ReqsTyped /\ QuietWhenGone

-----------------------------------------------------------------------------
(* Sessions *)

\* Where a session that does not mount may be, and one that does.
LEMMA AtMoves ==
  ASSUME NEW s, Shape(s), NEW at \in Steps, NEW t, t = [s EXCEPT !.at = at],
         s.op = "mount" <=> at \in {"create", "add", "insert"},
         at = "insert" => s.i <= Len(s.maps)
  PROVE  /\ Shape(t) /\ t.at = at /\ t.op = s.op /\ t.minor = s.minor
         /\ t.vol = s.vol /\ t.maps = s.maps /\ t.i = s.i /\ t.disk = s.disk
  <1>1. /\ t \in SessionStates /\ t.at = at /\ t.op = s.op /\ t.minor = s.minor
        /\ t.vol = s.vol /\ t.maps = s.maps /\ t.i = s.i /\ t.disk = s.disk
    BY DEF Shape, SessionStates
  <1> QED
    BY <1>1 DEF Shape

LEMMA EntryDone ==
  ASSUME NEW s, Shape(s), s.i <= Len(s.maps), s.op = "mount", NEW t,
         t = [s EXCEPT !.at = "add", !.i = s.i + 1]
  PROVE  /\ Shape(t) /\ t.at = "add" /\ t.op = s.op /\ t.minor = s.minor
         /\ t.vol = s.vol /\ t.maps = s.maps /\ t.i = s.i + 1 /\ t.disk = s.disk
  <1>1. Len(s.maps) \in Nat /\ s.i \in Nat /\ s.i + 1 \in Nat \ {0} /\ "add" \in Steps
    BY LenProperties DEF Shape, SessionStates, Steps
  <1>2. PICK j : j = s.i + 1
    OBVIOUS
  <1>3. /\ t \in SessionStates /\ t.at = "add" /\ t.op = s.op /\ t.minor = s.minor
        /\ t.vol = s.vol /\ t.maps = s.maps /\ t.i = s.i + 1 /\ t.disk = s.disk
    <2>1. t = [s EXCEPT !.at = "add", !.i = j]
      BY <1>2
    <2>2. t.at = "add" /\ t.i = j
      BY <2>1 DEF Shape, SessionStates
    <2>3. /\ t.op = s.op /\ t.minor = s.minor /\ t.vol = s.vol /\ t.maps = s.maps
          /\ t.disk = s.disk
      BY <2>1 DEF Shape, SessionStates
    <2>4. t \in SessionStates
      BY <1>1, <1>2, <2>1 DEF Shape, SessionStates
    <2> QED
      BY <1>2, <2>2, <2>3, <2>4
  <1> QED
    BY <1>1, <1>3 DEF Shape

LEMMA EntryDeleted ==
  ASSUME NEW s, Shape(s), s.i <= Len(s.maps), s.at = "del", NEW t,
         t = [s EXCEPT !.i = s.i + 1]
  PROVE  /\ Shape(t) /\ t.at = s.at /\ t.op = s.op /\ t.minor = s.minor
         /\ t.vol = s.vol /\ t.maps = s.maps /\ t.i = s.i + 1 /\ t.disk = s.disk
  <1>1. /\ t \in SessionStates /\ t.at = s.at /\ t.op = s.op /\ t.minor = s.minor
        /\ t.vol = s.vol /\ t.maps = s.maps /\ t.i = s.i + 1 /\ t.disk = s.disk
    BY DEF Shape, SessionStates
  <1>2. Len(s.maps) \in Nat /\ s.i \in Nat
    BY LenProperties DEF Shape, SessionStates
  <1> QED
    BY <1>1, <1>2 DEF Shape

LEMMA ReverseTyped ==
  ASSUME NEW S, NEW s \in Seq(S)
  PROVE  Reverse(s) \in Seq(S) /\ Len(Reverse(s)) = Len(s)
  <1>1. /\ Len(s) \in Nat /\ DOMAIN s = 1 .. Len(s)
        /\ Reverse(s) = [i \in 1 .. Len(s) |-> s[Len(s) - i + 1]]
    BY LenProperties DEF Reverse
  <1>2. \A i \in 1 .. Len(s) : s[Len(s) - i + 1] \in S
    <2>1. \A i \in 1 .. Len(s) : Len(s) - i + 1 \in 1 .. Len(s)
      BY <1>1
    <2> QED
      BY <1>1, <2>1, ElementOfSeq
  <1> QED
    BY <1>1, <1>2

LEMMA UndoTurns ==
  ASSUME NEW s, Shape(s), s.op = "mount", NEW t,
         t = [s EXCEPT !.op = "undo", !.at = "del", !.i = 1,
                       !.maps = Reverse(SubSeq(s.maps, 1, s.i - 1))]
  PROVE  /\ Shape(t) /\ t.at = "del" /\ t.op = "undo" /\ t.minor = s.minor
         /\ t.vol = s.vol /\ t.disk = s.disk
  <1> DEFINE back == Reverse(SubSeq(s.maps, 1, s.i - 1))
  <1>1. back \in Seq(ExtentStates) /\ Len(back) \in Nat
    <2>1. s.maps \in Seq(ExtentStates) /\ s.i - 1 \in 0 .. Len(s.maps) /\ 1 \in Nat \ {0}
      <3>1. s.maps \in Seq(ExtentStates) /\ s.i \in Nat \ {0} /\ Len(s.maps) \in Nat
        BY LenProperties DEF Shape, SessionStates
      <3> QED
        BY <3>1 DEF Shape
    <2>2. SubSeq(s.maps, 1, s.i - 1) \in Seq(ExtentStates)
      BY <2>1, SubSeqKeepsInjective
    <2> QED
      BY <2>2, ReverseTyped, LenProperties
  <1> HIDE DEF back
  <1>2. PICK b : b = back
    OBVIOUS
  <1>3. t = [s EXCEPT !.op = "undo", !.at = "del", !.i = 1, !.maps = b]
    BY <1>2 DEF back
  <1>4. /\ t.at = "del" /\ t.op = "undo" /\ t.minor = s.minor
        /\ t.vol = s.vol /\ t.disk = s.disk /\ t.i = 1 /\ t.maps = b
    BY <1>3 DEF Shape, SessionStates
  <1>5. t \in SessionStates
    <2>1. b \in Seq(ExtentStates) /\ "del" \in Steps /\ 1 \in Nat \ {0}
      BY <1>1, <1>2 DEF Steps
    <2> QED
      BY <1>3, <2>1 DEF Shape, SessionStates
  <1> QED
    BY <1>1, <1>2, <1>4, <1>5 DEF Shape

\* A session that is not idle.
LEMMA InsideShape ==
  ASSUME SessionsTyped, NEW c \in Clients, session[c].at # "idle"
  PROVE  Shape(session[c]) /\ Inside(c)
  BY DEF SessionsTyped, Idle, Inside

LEMMA IdleOrInside ==
  ASSUME SessionsTyped, NEW c \in Clients
  PROVE  /\ Inside(c) <=> session[c].at # "idle"
         /\ Inside(c) <=> session[c] # Idle
         /\ Inside(c) => Shape(session[c]) /\ session[c].at \in Steps
  BY DEF SessionsTyped, Idle, Inside, Shape, SessionStates, Steps

\* What the other clients do stays as it is.
OthersStay(c) == \A d \in Clients \ {c} : session'[d] = session[d]

LEMMA BeginDoes ==
  ASSUME SessionsTyped, NEW c \in Clients, NEW op \in {"mount", "unmount", "cleanup"},
         NEW m \in Minors, NEW v \in Volumes \cup {"unknown"},
         NEW entries \in Seq(ExtentStates), Begin(c, op, m, v, entries),
         op # "cleanup" => v \in Volumes /\ m = v.minor,
         op = "mount" => entries = v.maps
  PROVE  /\ SessionsTyped' /\ OthersStay(c) /\ session[c] = Idle
         /\ Serial => ~MinorBusy(m)
         /\ session'[c].op = op /\ session'[c].minor = m /\ session'[c].vol = v
         /\ session'[c].i = 1
         /\ session'[c].at = (IF op = "mount" THEN "create" ELSE "del")
  <1> DEFINE s == [op |-> op, at |-> IF op = "mount" THEN "create" ELSE "del",
                   minor |-> m, vol |-> v, maps |-> entries, i |-> 1, disk |-> 0]
  <1>1. /\ s \in SessionStates /\ s.op = op /\ s.minor = m /\ s.vol = v
        /\ s.maps = entries /\ s.i = 1 /\ s.at = (IF op = "mount" THEN "create" ELSE "del")
    BY DEF SessionStates, Steps
  <1>2. /\ session[c] = Idle
        /\ Serial => ~MinorBusy(m)
        /\ session' = [session EXCEPT ![c] = s]
    BY IdleOrInside DEF Begin
  <1> HIDE DEF s
  <1>3. Shape(s)
    <2>1. Len(entries) \in Nat
      BY LenProperties
    <2> QED
      BY <1>1, <2>1 DEF Shape
  <1>4. session'[c] = s /\ OthersStay(c) /\ DOMAIN session' = Clients
    BY <1>2 DEF OthersStay, SessionsTyped
  <1>5. SessionsTyped'
    BY <1>3, <1>4 DEF SessionsTyped, OthersStay, Idle
  <1>6. /\ session'[c].op = op /\ session'[c].minor = m /\ session'[c].vol = v
        /\ session'[c].i = 1
        /\ session'[c].at = (IF op = "mount" THEN "create" ELSE "del")
    BY <1>1, <1>4
  <1> QED
    BY <1>2, <1>4, <1>5, <1>6

LEMMA EndDoes ==
  ASSUME SessionsTyped, NEW c \in Clients, End(c)
  PROVE  /\ SessionsTyped' /\ OthersStay(c)
         /\ session'[c] = Idle /\ session'[c].at = "idle" /\ ~Inside(c)'
  <1>1. session'[c] = Idle /\ OthersStay(c) /\ DOMAIN session' = Clients
    BY DEF End, OthersStay, SessionsTyped
  <1>2. SessionsTyped'
    BY <1>1 DEF SessionsTyped, OthersStay, Idle
  <1> QED
    BY <1>1, <1>2 DEF Idle, Inside

\* A session goes on with what it does, at another step.
GoesOn(c) ==
  /\ OthersStay(c) /\ Shape(session[c]) /\ Shape(session'[c])
  /\ session'[c].op = session[c].op /\ session'[c].minor = session[c].minor
  /\ session'[c].vol = session[c].vol /\ session'[c].maps = session[c].maps

LEMMA TypedIfShaped ==
  ASSUME SessionsTyped, NEW c \in Clients, DOMAIN session' = Clients, OthersStay(c),
         Shape(session'[c])
  PROVE  SessionsTyped'
  BY DEF SessionsTyped, OthersStay, Idle

LEMMA GotoDoes ==
  ASSUME SessionsTyped, NEW c \in Clients, NEW at \in Steps, Goto(c, at),
         session[c].at # "idle",
         session[c].op = "mount" <=> at \in {"create", "add", "insert"},
         at = "insert" => session[c].i <= Len(session[c].maps)
  PROVE  /\ SessionsTyped' /\ GoesOn(c) /\ session'[c].at = at
         /\ session'[c].i = session[c].i /\ session'[c].disk = session[c].disk
  <1>1. Shape(session[c])
    BY InsideShape
  <1>2. /\ session'[c] = [session[c] EXCEPT !.at = at] /\ OthersStay(c)
        /\ DOMAIN session' = Clients
    BY DEF Goto, SessionsTyped, OthersStay
  <1>3. PICK s, t : s = session[c] /\ t = session'[c]
    OBVIOUS
  <1>4. /\ Shape(t) /\ t.at = at /\ t.op = s.op /\ t.minor = s.minor
        /\ t.vol = s.vol /\ t.maps = s.maps /\ t.i = s.i /\ t.disk = s.disk
    BY <1>1, <1>2, <1>3, AtMoves
  <1>5. SessionsTyped'
    BY <1>2, <1>3, <1>4, TypedIfShaped
  <1> QED
    BY <1>1, <1>2, <1>3, <1>4, <1>5 DEF GoesOn

LEMMA UndoDoes ==
  ASSUME SessionsTyped, NEW c \in Clients, Undo(c), session[c].at # "idle",
         session[c].op = "mount"
  PROVE  /\ SessionsTyped' /\ OthersStay(c)
         /\ session'[c].at = "del" /\ session'[c].op = "undo"
         /\ session'[c].minor = session[c].minor /\ session'[c].vol = session[c].vol
  <1>1. Shape(session[c])
    BY InsideShape
  <1>2. /\ session'[c] = [session[c] EXCEPT !.op = "undo", !.at = "del", !.i = 1,
                            !.maps = Reverse(SubSeq(session[c].maps, 1, session[c].i - 1))]
        /\ OthersStay(c) /\ DOMAIN session' = Clients
    BY DEF Undo, SessionsTyped, OthersStay
  <1>3. PICK s, t : s = session[c] /\ t = session'[c]
    OBVIOUS
  <1>4. /\ Shape(t) /\ t.at = "del" /\ t.op = "undo" /\ t.minor = s.minor
        /\ t.vol = s.vol
    <2>1. t = [s EXCEPT !.op = "undo", !.at = "del", !.i = 1,
                        !.maps = Reverse(SubSeq(s.maps, 1, s.i - 1))]
      BY <1>2, <1>3
    <2>2. Shape(s) /\ s.op = "mount"
      BY <1>1, <1>3
    <2> QED
      BY <2>1, <2>2, UndoTurns
  <1>5. SessionsTyped'
    BY <1>2, <1>3, <1>4, TypedIfShaped
  <1> QED
    BY <1>2, <1>3, <1>4, <1>5

-----------------------------------------------------------------------------
(* Types *)

\* A session that no destroy leaves.
LEMMA DisksStill ==
  ASSUME DisksTyped, SessionsTyped', NEW c \in Clients, OthersStay(c),
         session'[c].at \in DestroySteps =>
           session'[c].disk = session[c].disk /\ session[c].at \in DestroySteps,
         UNCHANGED <<disks, dying, volumeOf>>
  PROVE  DisksTyped'
  BY DEF DisksTyped, OthersStay

LEMMA NextGenIs ==
  ASSUME DisksTyped, NEW v \in Volumes
  PROVE  /\ NextGen = Len(volumeOf) + 1 /\ NextGen \notin DOMAIN volumeOf
         /\ Append(volumeOf, v) \in Seq(Volumes)
         /\ Len(Append(volumeOf, v)) = NextGen
         /\ DOMAIN Append(volumeOf, v) = DOMAIN volumeOf \cup {NextGen}
         /\ Append(volumeOf, v)[NextGen] = v
         /\ \A g \in DOMAIN volumeOf : Append(volumeOf, v)[g] = volumeOf[g]
  <1>1. Len(volumeOf) \in Nat /\ DOMAIN volumeOf = 1 .. Len(volumeOf)
    BY LenProperties DEF DisksTyped
  <1>2. Cardinality(1 .. Len(volumeOf)) = Len(volumeOf)
    <2>1. /\ 1 \in Int /\ Len(volumeOf) \in Int
          /\ 1 > Len(volumeOf) <=> Len(volumeOf) = 0
          /\ Len(volumeOf) - 1 + 1 = Len(volumeOf)
      BY <1>1
    <2> QED
      BY <2>1, FS_Interval
  <1>3. NextGen = Len(volumeOf) + 1
    BY <1>1, <1>2 DEF NextGen
  <1>4. /\ Append(volumeOf, v) \in Seq(Volumes)
        /\ Len(Append(volumeOf, v)) = Len(volumeOf) + 1
        /\ \A g \in 1 .. Len(volumeOf) : Append(volumeOf, v)[g] = volumeOf[g]
        /\ Append(volumeOf, v)[Len(volumeOf) + 1] = v
    BY <1>1, AppendProperties DEF DisksTyped
  <1>5. DOMAIN Append(volumeOf, v) = 1 .. Len(volumeOf) + 1
    BY <1>4, LenProperties
  <1>6. 1 .. Len(volumeOf) + 1 = (1 .. Len(volumeOf)) \cup {Len(volumeOf) + 1}
    BY <1>1
  <1> QED
    BY <1>1, <1>3, <1>4, <1>5, <1>6

LEMMA VolumeFields ==
  ASSUME NEW v \in Volumes
  PROVE  /\ v.minor \in Minors /\ v.cap \in Nat /\ v.maps \in Seq(ExtentStates)
         /\ \A k \in DOMAIN v.maps : v.maps[k] \in ExtentStates
  <1>1. v.minor \in Minors /\ v.cap \in Nat /\ v.maps \in Seq(ExtentStates)
    BY VolumesAssumption
  <1>2. \A k \in DOMAIN v.maps : v.maps[k] \in ExtentStates
    BY <1>1, ElementOfSeq, LenProperties
  <1> QED
    BY <1>1, <1>2

\* An entry is never a free slot.
LEMMA EntryIsUsed ==
  ASSUME NEW m, NEW e \in ExtentStates
  PROVE  /\ Entry(m, e) # NoEntry /\ Entry(m, e).minor = m
         /\ Entry(m, e).start = e.start /\ Entry(m, e).len = e.len
         /\ Entry(m, e).dev = e.dev /\ Entry(m, e).phys = e.phys
  BY DEF Entry, NoEntry, ExtentStates

LEMMA FirstOfSet ==
  ASSUME NEW S \in SUBSET Nat, S # {}
  PROVE  First(S) \in S
  <1>1. PICK i \in S : \A j \in S : i <= j
    BY MinIn
  <1> QED
    BY <1>1 DEF First

\* A step that changes sessions only, or the table of mounts with them.
LEMMA SessionOnlyTyped ==
  ASSUME Typed, SessionsTyped', NEW c \in Clients, OthersStay(c),
         session'[c].at \in DestroySteps =>
           session'[c].disk = session[c].disk /\ session[c].at \in DestroySteps,
         MountsTyped', UNCHANGED <<kernelVars, reqs>>
  PROVE  Typed'
  <1>1. UNCHANGED <<slot, maps, disks, dying, volumeOf, reqs>>
    BY DEF kernelVars
  <1>2. DisksTyped'
    BY <1>1, DisksStill DEF Typed
  <1> QED
    BY <1>1, <1>2 DEF Typed, SlotsTyped, MapsTyped, ReqsTyped, QuietWhenGone

LEMMA StartTyped ==
  ASSUME Typed, NEW c \in Clients,
         \/ \E v \in Volumes : StartMount(c, v)
         \/ \E v \in mounted[c] : StartUnmount(c, v)
         \/ \E m \in Minors : StartCleanup(c, m)
  PROVE  Typed'
  <1>1. ASSUME NEW op \in {"mount", "unmount", "cleanup"},
               NEW m \in Minors, NEW v \in Volumes \cup {"unknown"},
               NEW entries \in Seq(ExtentStates), Begin(c, op, m, v, entries),
               op # "cleanup" => v \in Volumes /\ m = v.minor,
               op = "mount" => entries = v.maps,
               UNCHANGED <<kernelVars, reqs, mounted>>
        PROVE  Typed'
    <2>1. /\ SessionsTyped' /\ OthersStay(c)
          /\ session'[c].at = (IF op = "mount" THEN "create" ELSE "del")
      BY <1>1, BeginDoes DEF Typed
    <2>2. session'[c].at \notin DestroySteps
      BY <2>1 DEF DestroySteps
    <2>3. MountsTyped'
      BY <1>1 DEF Typed, MountsTyped
    <2> QED
      BY <1>1, <2>1, <2>2, <2>3, SessionOnlyTyped
  <1>2. ASSUME NEW v \in Volumes, StartMount(c, v)
        PROVE  Typed'
    BY <1>1, <1>2, VolumeFields DEF StartMount
  <1>3. ASSUME NEW v \in mounted[c], StartUnmount(c, v)
        PROVE  Typed'
    <2>1. v \in Volumes
      BY DEF Typed, MountsTyped
    <2> QED
      BY <1>1, <1>3, <2>1, VolumeFields DEF StartUnmount
  <1>4. ASSUME NEW m \in Minors, StartCleanup(c, m)
        PROVE  Typed'
    <2>1. <<>> \in Seq(ExtentStates)
      OBVIOUS
    <2> QED
      BY <1>1, <1>4, <2>1 DEF StartCleanup
  <1> QED
    BY <1>2, <1>3, <1>4

\* The steps that end a session, but for Clear.
LEMMA EndTyped ==
  ASSUME Typed, NEW c \in Clients,
         CreateBusy(c) \/ CreateFails(c) \/ MountDone(c) \/ DestroyMissing(c) \/ Crash(c)
  PROVE  Typed'
  <1>1. /\ SessionsTyped' /\ OthersStay(c) /\ session'[c].at = "idle"
    BY EndDoes DEF Typed, CreateBusy, CreateFails, MountDone, DestroyMissing, Crash
  <1>2. session'[c].at \notin DestroySteps
    BY <1>1 DEF DestroySteps
  <1>3. CASE CreateFails(c)
    <2>1. /\ slot' = [slot EXCEPT ![session[c].minor] = NoSlot]
          /\ UNCHANGED <<maps, disks, dying, volumeOf, reqs, mounted>>
      BY <1>3 DEF CreateFails
    <2>2. SlotsTyped'
      BY <2>1 DEF Typed, SlotsTyped, NoSlot
    <2>3. DisksTyped'
      BY <1>1, <1>2, <2>1, DisksStill DEF Typed
    <2> QED
      BY <1>1, <2>1, <2>2, <2>3 DEF Typed, MapsTyped, MountsTyped, ReqsTyped,
                                    QuietWhenGone
  <1>4. CASE CreateBusy(c) \/ DestroyMissing(c)
    <2>1. MountsTyped' /\ UNCHANGED <<kernelVars, reqs>>
      BY <1>4 DEF CreateBusy, DestroyMissing, Typed, MountsTyped
    <2> QED
      BY <1>1, <1>2, <2>1, SessionOnlyTyped
  <1>5. CASE MountDone(c)
    <2>1. session[c].vol \in Volumes
      <3>1. Shape(session[c]) /\ session[c].at = "add"
        BY <1>5, InsideShape DEF MountDone, Typed
      <3> QED
        BY <3>1 DEF Shape
    <2>2. MountsTyped' /\ UNCHANGED <<kernelVars, reqs>>
      BY <1>5, <2>1 DEF MountDone, Typed, MountsTyped
    <2> QED
      BY <1>1, <1>2, <2>2, SessionOnlyTyped
  <1>6. CASE Crash(c)
    <2>1. MountsTyped' /\ UNCHANGED <<kernelVars, reqs>>
      BY <1>6 DEF Crash, Typed, MountsTyped
    <2> QED
      BY <1>1, <1>2, <2>1, SessionOnlyTyped
  <1> QED
    BY <1>3, <1>4, <1>5, <1>6

LEMMA CreateTyped ==
  ASSUME Typed, NEW c \in Clients, Create(c)
  PROVE  Typed'
  <1>1. session[c].at = "create" /\ Shape(session[c]) /\ session[c].op = "mount"
    BY InsideShape DEF Create, Typed, Shape
  <1>2. session[c].vol \in Volumes /\ session[c].minor \in Minors
    BY <1>1 DEF Shape, SessionStates
  <1>3. SessionsTyped' /\ OthersStay(c) /\ session'[c].at = "add"
    <2>1. "add" \in Steps /\ "add" \in {"create", "add", "insert"} /\ Goto(c, "add")
      BY DEF Steps, Create
    <2> QED
      BY <1>1, <2>1, GotoDoes DEF Typed, GoesOn
  <1>4. PICK g : g = NextGen
    OBVIOUS
  <1>5. /\ slot' = [slot EXCEPT ![session[c].minor] = [active |-> TRUE, disk |-> g]]
        /\ disks' = disks \cup {g} /\ volumeOf' = Append(volumeOf, session[c].vol)
        /\ UNCHANGED <<maps, dying, reqs, mounted>> /\ g \in Gens
    BY <1>4 DEF Create
  <1>6. /\ volumeOf' \in Seq(Volumes) /\ Len(volumeOf') = g
        /\ DOMAIN volumeOf' = DOMAIN volumeOf \cup {g}
        /\ \A h \in DOMAIN volumeOf : volumeOf'[h] = volumeOf[h]
    BY <1>2, <1>4, <1>5, NextGenIs DEF Typed
  <1>7. SlotsTyped'
    BY <1>2, <1>5, <1>6 DEF Typed, SlotsTyped
  <1>8. DisksTyped'
    <2>1. \A d \in Clients : session'[d].at \in DestroySteps =>
                               session'[d].disk \in DOMAIN volumeOf'
      BY <1>3, <1>6 DEF Typed, DisksTyped, OthersStay, DestroySteps
    <2>2. g <= MaxDisks
      BY <1>5 DEF Gens
    <2> QED
      BY <1>5, <1>6, <2>1, <2>2 DEF Typed, DisksTyped
  <1>9. ReqsTyped' /\ QuietWhenGone'
    BY <1>5, <1>6 DEF Typed, ReqsTyped, QuietWhenGone
  <1> QED
    BY <1>3, <1>5, <1>7, <1>8, <1>9 DEF Typed, MapsTyped, MountsTyped

LEMMA AddCheckTyped ==
  ASSUME Typed, NEW c \in Clients, AddCheck(c)
  PROVE  Typed'
  <1>1. session[c].at = "add" /\ Shape(session[c]) /\ session[c].op = "mount"
    BY InsideShape DEF AddCheck, Typed, Shape
  <1>2. MountsTyped' /\ UNCHANGED <<kernelVars, reqs>>
    BY DEF AddCheck, Typed, MountsTyped
  <1>3. CASE Goto(c, "insert")
    <2>1. SessionsTyped' /\ OthersStay(c) /\ session'[c].at = "insert"
      <3>1. /\ "insert" \in Steps /\ "insert" \in {"create", "add", "insert"}
            /\ session[c].i <= Len(session[c].maps)
        BY DEF Steps, AddCheck
      <3> QED
        BY <1>1, <1>3, <3>1, GotoDoes DEF Typed, GoesOn
    <2> QED
      BY <1>2, <2>1, SessionOnlyTyped DEF DestroySteps
  <1>4. CASE Undo(c)
    <2>1. SessionsTyped' /\ OthersStay(c) /\ session'[c].at = "del"
      BY <1>1, <1>4, UndoDoes DEF Typed
    <2> QED
      BY <1>2, <2>1, SessionOnlyTyped DEF DestroySteps
  <1> QED
    BY <1>3, <1>4 DEF AddCheck

\* The next extent of a session, and the entry it gets.
LEMMA NextExtent ==
  ASSUME SessionsTyped, NEW c \in Clients, session[c].op = "mount",
         session[c].at # "idle", session[c].i <= Len(session[c].maps)
  PROVE  LET s == session[c]
         IN  /\ s.vol \in Volumes /\ s.minor = s.vol.minor /\ s.maps = s.vol.maps
             /\ s.i \in DOMAIN s.vol.maps /\ s.maps[s.i] \in ExtentStates
             /\ IsEntry(Entry(s.minor, s.maps[s.i]))
  <1>1. Shape(session[c])
    BY InsideShape
  <1>2. /\ session[c].vol \in Volumes /\ session[c].minor = session[c].vol.minor
        /\ session[c].maps = session[c].vol.maps /\ session[c].i \in Nat \ {0}
        /\ session[c].maps \in Seq(ExtentStates)
    BY <1>1 DEF Shape, SessionStates
  <1>3. session[c].i \in DOMAIN session[c].maps
    BY <1>2, LenProperties
  <1>4. session[c].maps[session[c].i] \in ExtentStates
    BY <1>2, <1>3, LenProperties, ElementOfSeq
  <1> QED
    BY <1>2, <1>3, <1>4 DEF IsEntry

\* A map_add takes a free slot.
LEMMA FreeSlot ==
  ASSUME UsedSlots # 1 .. MaxMaps
  PROVE  First((1 .. MaxMaps) \ UsedSlots) \in (1 .. MaxMaps) \ UsedSlots
  <1>1. (1 .. MaxMaps) \ UsedSlots \in SUBSET Nat /\ (1 .. MaxMaps) \ UsedSlots # {}
    BY DEF UsedSlots
  <1> QED
    BY <1>1, FirstOfSet

LEMMA AddInsertTyped ==
  ASSUME Typed, NEW c \in Clients, AddInsert(c)
  PROVE  Typed'
  <1> DEFINE e == session[c].maps[session[c].i]
  <1>1. session[c].at = "insert" /\ Shape(session[c]) /\ session[c].op = "mount"
        /\ session[c].i <= Len(session[c].maps)
    BY InsideShape DEF AddInsert, Typed, Shape
  <1>2. UNCHANGED <<slot, disks, dying, volumeOf, reqs, mounted>>
    BY DEF AddInsert
  <1>3. CASE AddRefused(session[c].minor, e)
    <2>1. Undo(c) /\ UNCHANGED maps
      BY <1>3 DEF AddInsert
    <2>2. SessionsTyped' /\ OthersStay(c) /\ session'[c].at = "del"
      BY <1>1, <2>1, UndoDoes DEF Typed
    <2>3. MountsTyped' /\ UNCHANGED <<kernelVars, reqs>>
      BY <1>2, <2>1 DEF kernelVars, Typed, MountsTyped
    <2> QED
      BY <2>2, <2>3, SessionOnlyTyped DEF DestroySteps
  <1>4. CASE ~AddRefused(session[c].minor, e)
    <2>1. PICK i : i = First((1 .. MaxMaps) \ UsedSlots)
      OBVIOUS
    <2>2. /\ maps' = [maps EXCEPT ![i] = Entry(session[c].minor, e)]
          /\ session' = [session EXCEPT ![c].at = "add", ![c].i = session[c].i + 1]
      BY <1>4, <2>1 DEF AddInsert
    <2>3. MapsTyped'
      <3>1. IsEntry(Entry(session[c].minor, e))
        BY <1>1, NextExtent DEF Typed
      <3>2. PICK x : x = Entry(session[c].minor, e)
        OBVIOUS
      <3>3. \A j \in 1 .. MaxMaps : maps'[j] = maps[j] \/ maps'[j] = x
        BY <2>2, <3>2 DEF Typed, MapsTyped
      <3> HIDE DEF e
      <3> QED
        BY <2>2, <3>1, <3>2, <3>3 DEF Typed, MapsTyped
    <2>4. PICK s, u : s = session[c] /\ u = session'[c]
      OBVIOUS
    <2>5. OthersStay(c) /\ u = [s EXCEPT !.at = "add", !.i = s.i + 1]
          /\ DOMAIN session' = Clients
      BY <2>2, <2>4 DEF OthersStay, Typed, SessionsTyped
    <2>6. Shape(u) /\ u.at = "add"
      BY <1>1, <2>4, <2>5, EntryDone
    <2>7. SessionsTyped'
      BY <2>4, <2>5, <2>6, TypedIfShaped DEF Typed
    <2>8. DisksTyped'
      BY <1>2, <2>4, <2>5, <2>6, <2>7, DisksStill DEF DestroySteps, Typed
    <2> QED
      BY <1>2, <2>3, <2>7, <2>8 DEF Typed, SlotsTyped, MountsTyped, ReqsTyped,
                                    QuietWhenGone
  <1> QED
    BY <1>3, <1>4

LEMMA MapDelTyped ==
  ASSUME Typed, NEW c \in Clients, MapDel(c)
  PROVE  Typed'
  <1>1. session[c].at = "del" /\ Shape(session[c])
        /\ session[c].i <= Len(session[c].maps)
    BY InsideShape DEF MapDel, Typed
  <1>2. UNCHANGED <<slot, disks, dying, volumeOf, reqs, mounted>>
    BY DEF MapDel
  <1>3. MapsTyped'
    BY DEF MapDel, MapsWithout, Typed, MapsTyped
  <1>4. PICK s, u : s = session[c] /\ u = session'[c]
    OBVIOUS
  <1>5. OthersStay(c) /\ u = [s EXCEPT !.i = s.i + 1] /\ DOMAIN session' = Clients
    BY <1>4 DEF MapDel, OthersStay, Typed, SessionsTyped
  <1>6. Shape(u) /\ u.at = "del"
    BY <1>1, <1>4, <1>5, EntryDeleted
  <1>7. SessionsTyped'
    BY <1>4, <1>5, <1>6, TypedIfShaped DEF Typed
  <1>8. DisksTyped'
    BY <1>2, <1>4, <1>5, <1>6, <1>7, DisksStill DEF DestroySteps, Typed
  <1> QED
    BY <1>2, <1>3, <1>7, <1>8 DEF Typed, SlotsTyped, MountsTyped, ReqsTyped,
                                  QuietWhenGone

LEMMA DestroyBeginDoes ==
  ASSUME Typed, NEW c \in Clients, DestroyBegin(c)
  PROVE  LET m == session[c].minor
         IN  /\ session[c].at = "del" /\ m \in Minors /\ slot[m].active
             /\ slot[m].disk \in DOMAIN volumeOf
             /\ slot' = [slot EXCEPT ![m] = NoSlot]
             /\ SessionsTyped' /\ GoesOn(c)
             /\ session'[c].at = "quiesce" /\ session'[c].disk = slot[m].disk
             /\ UNCHANGED <<maps, disks, dying, volumeOf, reqs, mounted>>
  <1> DEFINE m == session[c].minor
  <1>1. /\ session[c].at = "del" /\ Shape(session[c]) /\ m \in Minors /\ slot[m].active
        /\ slot' = [slot EXCEPT ![m] = NoSlot]
        /\ UNCHANGED <<maps, disks, dying, volumeOf, reqs, mounted>>
    BY InsideShape DEF DestroyBegin, Typed, Shape, SessionStates
  <1>2. slot[m].disk \in DOMAIN volumeOf /\ slot[m].disk \in Nat
    BY <1>1 DEF Typed, SlotsTyped, Gens
  <1>3. PICK s, u, d : s = session[c] /\ u = session'[c] /\ d = slot[m].disk
    OBVIOUS
  <1>4. OthersStay(c) /\ u = [s EXCEPT !.at = "quiesce", !.disk = d]
        /\ DOMAIN session' = Clients
    BY <1>3 DEF DestroyBegin, DiskTaken, OthersStay, Typed, SessionsTyped
  <1>5. /\ Shape(u) /\ u.at = "quiesce" /\ u.op = s.op /\ u.minor = s.minor
        /\ u.vol = s.vol /\ u.maps = s.maps /\ u.disk = d
    <2>1. Shape(s) /\ s.at = "del" /\ d \in Nat
      BY <1>1, <1>2, <1>3
    <2>2. u = [s EXCEPT !.at = "quiesce", !.disk = d]
      BY <1>4
    <2>3. /\ u \in SessionStates /\ u.at = "quiesce" /\ u.op = s.op
          /\ u.minor = s.minor /\ u.vol = s.vol /\ u.maps = s.maps /\ u.i = s.i
          /\ u.disk = d
      BY <2>1, <2>2 DEF Shape, SessionStates, Steps
    <2> QED
      BY <2>1, <2>3 DEF Shape
  <1>6. SessionsTyped'
    BY <1>3, <1>4, <1>5, TypedIfShaped DEF Typed
  <1> QED
    BY <1>1, <1>2, <1>3, <1>4, <1>5, <1>6 DEF GoesOn

LEMMA DestroyBeginTyped ==
  ASSUME Typed, NEW c \in Clients, DestroyBegin(c)
  PROVE  Typed'
  <1>1. DisksTyped'
    BY DestroyBeginDoes DEF Typed, DisksTyped, GoesOn, OthersStay
  <1>2. SlotsTyped'
    <2>1. /\ slot' = [slot EXCEPT ![session[c].minor] = NoSlot]
          /\ UNCHANGED volumeOf
      BY DestroyBeginDoes
    <2> QED
      BY <2>1 DEF Typed, SlotsTyped, NoSlot
  <1> QED
    BY <1>1, <1>2, DestroyBeginDoes DEF Typed, MapsTyped, MountsTyped, ReqsTyped,
                                        QuietWhenGone

\* A destroy goes to its next step.
LEMMA DestroyGoesOn ==
  ASSUME Typed, NEW c \in Clients, session[c].at \in DestroySteps,
         NEW at \in DestroySteps, Goto(c, at)
  PROVE  /\ SessionsTyped' /\ GoesOn(c) /\ session'[c].at = at
         /\ session'[c].disk = session[c].disk
         /\ session[c].disk \in DOMAIN volumeOf /\ session[c].minor \in Minors
  <1>1. /\ session[c].at # "idle" /\ at \in Steps /\ at \notin {"create", "add", "insert"}
        /\ session[c].at \notin {"create", "add", "insert"}
    BY DEF DestroySteps, Steps
  <1>2. Shape(session[c]) /\ session[c].op # "mount"
    BY <1>1, InsideShape DEF Typed, Shape
  <1>3. session[c].disk \in DOMAIN volumeOf /\ session[c].minor \in Minors
    BY <1>2 DEF Shape, SessionStates, Typed, DisksTyped
  <1> QED
    BY <1>1, <1>2, <1>3, GotoDoes DEF Typed

LEMMA DestroyTyped ==
  ASSUME Typed, NEW c \in Clients, Quiesce(c) \/ Drain(c) \/ Reset(c) \/ Clear(c)
  PROVE  Typed'
  <1>1. ASSUME NEW at \in DestroySteps, Goto(c, at), session[c].at \in DestroySteps,
               UNCHANGED <<maps, volumeOf, reqs, mounted>>,
               disks' \subseteq disks, dying' \subseteq dying \cup {session[c].disk}
        PROVE  DisksTyped' /\ SessionsTyped' /\ MapsTyped' /\ ReqsTyped' /\ MountsTyped'
    <2>1. /\ SessionsTyped' /\ OthersStay(c) /\ session'[c].at = at
          /\ session'[c].disk = session[c].disk /\ session[c].disk \in DOMAIN volumeOf
      BY <1>1, DestroyGoesOn DEF GoesOn
    <2>2. DisksTyped'
      BY <1>1, <2>1 DEF Typed, DisksTyped, OthersStay
    <2> QED
      BY <1>1, <2>1, <2>2 DEF Typed, MapsTyped, ReqsTyped, MountsTyped
  <1>2. CASE Quiesce(c)
    <2>1. DisksTyped' /\ SessionsTyped' /\ MapsTyped' /\ ReqsTyped' /\ MountsTyped'
      BY <1>1, <1>2 DEF Quiesce, DestroySteps
    <2> QED
      BY <1>2, <2>1 DEF Quiesce, Typed, SlotsTyped, QuietWhenGone
  <1>3. CASE Drain(c)
    <2>1. DisksTyped' /\ SessionsTyped' /\ MapsTyped' /\ ReqsTyped' /\ MountsTyped'
      BY <1>1, <1>3 DEF Drain, DestroySteps
    <2>2. QuietWhenGone'
      <3> SUFFICES ASSUME NEW r \in Reqs, reqs[r] # NoReq
                   PROVE  reqs[r].disk \in disks'
        BY <1>3 DEF Drain, QuietWhenGone
      <3>1. reqs[r].st # "free" /\ reqs[r].disk \in disks
        BY DEF Typed, ReqsTyped, ReqStates, QuietWhenGone
      <3>2. reqs[r].disk # session[c].disk
        BY <1>3, <3>1 DEF Drain, Drained
      <3> QED
        BY <1>3, <3>1, <3>2 DEF Drain
    <2> QED
      BY <1>3, <2>1, <2>2 DEF Drain, Typed, SlotsTyped
  <1>4. CASE Reset(c)
    <2>1. DisksTyped' /\ SessionsTyped' /\ MapsTyped' /\ ReqsTyped' /\ MountsTyped'
      BY <1>1, <1>4 DEF Reset, DestroySteps
    <2>2. SlotsTyped'
      BY <1>4 DEF Reset, Typed, SlotsTyped, NoSlot
    <2> QED
      BY <1>4, <2>1, <2>2 DEF Reset, Typed, QuietWhenGone
  <1>5. CASE Clear(c)
    <2>1. SessionsTyped' /\ OthersStay(c) /\ session'[c].at = "idle"
      BY <1>5, EndDoes DEF Clear, Typed
    <2>2. /\ UNCHANGED <<slot, disks, dying, volumeOf, reqs>>
          /\ maps' = MapsCleared(session[c].minor)
      BY <1>5 DEF Clear
    <2>3. DisksTyped'
      BY <2>1, <2>2, DisksStill DEF Typed, DestroySteps
    <2>4. MapsTyped'
      BY <2>2 DEF MapsCleared, Typed, MapsTyped
    <2>5. MountsTyped'
      BY <1>5 DEF Clear, Typed, MountsTyped
    <2> QED
      BY <2>1, <2>2, <2>3, <2>4, <2>5 DEF Typed, SlotsTyped, ReqsTyped, QuietWhenGone
  <1> QED
    BY <1>2, <1>3, <1>4, <1>5

-----------------------------------------------------------------------------
(* Requests *)

\* The entry a sector hits: one of an extent of a volume, that covers it.
LEMMA HitIsExtent ==
  ASSUME MapsTyped, NEW m, NEW sector \in Nat, Mapped(m, sector)
  PROVE  LET i == First(SlotsHit(m, sector))
         IN  /\ i \in SlotsHit(m, sector) /\ i \in UsedSlots /\ maps[i].minor = m
             /\ \E e \in ExtentStates :
                  /\ maps[i] = Entry(m, e)
                  /\ e.start <= sector /\ sector - e.start < e.len
                  /\ Translate(m, sector) = Place(e, sector)
                  /\ Place(e, sector) \in Places
  <1> DEFINE i == First(SlotsHit(m, sector))
  <1>1. i \in SlotsHit(m, sector)
    <2>1. SlotsHit(m, sector) \in SUBSET Nat
      BY DEF SlotsHit, SlotsOf, UsedSlots
    <2> QED
      BY <2>1, FirstOfSet DEF Mapped
  <1> HIDE DEF i
  <1>2. /\ i \in UsedSlots /\ i \in 1 .. MaxMaps /\ maps[i] # NoEntry /\ maps[i].minor = m
        /\ maps[i].start <= sector /\ sector - maps[i].start < maps[i].len
    BY <1>1 DEF SlotsHit, SlotsOf, UsedSlots
  <1>3. PICK v \in Volumes : \E k \in DOMAIN v.maps : maps[i] = Entry(v.minor, v.maps[k])
    BY <1>2 DEF MapsTyped, IsEntry
  <1>4. PICK e \in ExtentStates : maps[i] = Entry(v.minor, e)
    BY <1>3, VolumeFields
  <1>5. /\ maps[i] = Entry(m, e) /\ maps[i].start = e.start /\ maps[i].len = e.len
        /\ maps[i].dev = e.dev /\ maps[i].phys = e.phys
    BY <1>2, <1>3, <1>4, EntryIsUsed
  <1>6. e.start <= sector /\ sector - e.start < e.len
    BY <1>2, <1>5
  <1>7. Translate(m, sector) = Place(e, sector)
    BY <1>5 DEF Translate, Place, i
  <1>8. Place(e, sector) \in Places
    <2>1. e.phys + (sector - e.start) \in Nat /\ e.dev \in STRING
      BY <1>6 DEF ExtentStates
    <2> QED
      BY <2>1 DEF Place, Places
  <1> QED
    BY <1>1, <1>2, <1>5, <1>6, <1>7, <1>8 DEF i

LEMMA ReqAt ==
  ASSUME NEW q \in ReqStates, NEW st \in {"queued", "translate", "device"}, NEW t,
         t = [q EXCEPT !.st = st]
  PROVE  /\ t \in ReqStates /\ t.st = st /\ t.disk = q.disk /\ t.pos = q.pos
         /\ t.left = q.left
  BY DEF ReqStates

LEMMA ReqRest ==
  ASSUME NEW q \in ReqStates, q.chunk \in 1 .. q.left, q.left > q.chunk, NEW t,
         t = Rest(q)
  PROVE  /\ t \in ReqStates /\ t.st = "translate" /\ t.disk = q.disk
         /\ t.pos + t.left = q.pos + q.left
  <1>1. PICK p, l : p = q.pos + q.chunk /\ l = q.left - q.chunk
    OBVIOUS
  <1>2. p \in Nat /\ l \in Nat \ {0} /\ p + l = q.pos + q.left
    BY <1>1 DEF ReqStates
  <1>3. t = [q EXCEPT !.st = "translate", !.pos = p, !.left = l]
    BY <1>1 DEF Rest
  <1>4. t \in ReqStates /\ t.st = "translate" /\ t.disk = q.disk /\ t.pos = p /\ t.left = l
    BY <1>2, <1>3 DEF ReqStates
  <1> QED
    BY <1>2, <1>4

\* A step that changes one request.
LEMMA ReqOnlyTyped ==
  ASSUME Typed, NEW r \in Reqs, NEW q, reqs' = [reqs EXCEPT ![r] = q],
         UNCHANGED <<kernelVars, session, mounted>>,
         q # NoReq =>
           /\ q \in ReqStates /\ q.disk \in disks
           /\ q.pos + q.left <= volumeOf[q.disk].cap
           /\ q.st = "device" => q.chunk \in 1 .. q.left
  PROVE  Typed'
  <1>1. UNCHANGED <<slot, maps, disks, dying, volumeOf, session, mounted>>
    BY DEF kernelVars
  <1>2. /\ DOMAIN reqs' = Reqs /\ reqs'[r] = q
        /\ \A p \in Reqs : p # r => reqs'[p] = reqs[p]
    BY DEF Typed, ReqsTyped
  <1>3. QuietWhenGone' /\ disks \subseteq DOMAIN volumeOf
    BY <1>1, <1>2 DEF Typed, QuietWhenGone, DisksTyped
  <1>4. ReqsTyped'
    BY <1>1, <1>2, <1>3 DEF Typed, ReqsTyped
  <1> QED
    BY <1>1, <1>3, <1>4 DEF Typed, SlotsTyped, MapsTyped, DisksTyped, SessionsTyped,
                            MountsTyped

LEMMA SubmitTyped ==
  ASSUME Typed, NEW r \in Reqs, NEW g \in disks, NEW pos \in 0 .. volumeOf[g].cap - 1,
         NEW len \in 1 .. volumeOf[g].cap - pos, Submit(r, g, pos, len)
  PROVE  Typed'
  <1> DEFINE q == [st |-> "queued", disk |-> g, pos |-> pos, left |-> len, chunk |-> 0,
                   place |-> Nowhere]
  <1>1. volumeOf[g] \in Volumes /\ g \in Nat
    BY LenProperties, ElementOfSeq DEF Typed, DisksTyped
  <1>2. volumeOf[g].cap \in Nat
    BY <1>1, VolumeFields
  <1>3. pos \in Nat /\ len \in Nat \ {0}
    BY <1>2
  <1>4. q \in ReqStates /\ q.disk = g /\ q.pos = pos /\ q.left = len /\ q.st # "device"
    <2>1. PICK w \in Places : w = Nowhere
      BY DEF Nowhere, Places
    <2>2. q = [st |-> "queued", disk |-> g, pos |-> pos, left |-> len, chunk |-> 0,
               place |-> w]
      BY <2>1
    <2>3. q.disk = g /\ q.pos = pos /\ q.left = len /\ q.st # "device"
      OBVIOUS
    <2> HIDE DEF q
    <2>4. q \in ReqStates
      BY <1>1, <1>3, <2>2 DEF ReqStates
    <2> QED
      BY <2>3, <2>4
  <1>5. /\ reqs' = [reqs EXCEPT ![r] = q] /\ UNCHANGED <<kernelVars, session, mounted>>
        /\ pos + len <= volumeOf[g].cap
    BY DEF Submit
  <1> HIDE DEF q
  <1> QED
    BY <1>4, <1>5, ReqOnlyTyped

\* A request that is not free.
LEMMA ReqShape ==
  ASSUME Typed, NEW r \in Reqs, reqs[r].st # "free"
  PROVE  /\ reqs[r] \in ReqStates /\ reqs[r].disk \in disks
         /\ reqs[r].disk \in DOMAIN volumeOf /\ volumeOf[reqs[r].disk] \in Volumes
         /\ reqs[r].pos + reqs[r].left <= volumeOf[reqs[r].disk].cap
         /\ reqs[r].st = "device" => reqs[r].chunk \in 1 .. reqs[r].left
  <1>1. reqs[r] # NoReq
    BY DEF NoReq
  <1>2. reqs[r].disk \in DOMAIN volumeOf
    BY <1>1 DEF Typed, ReqsTyped
  <1>3. volumeOf[reqs[r].disk] \in Volumes
    BY <1>2, LenProperties, ElementOfSeq DEF Typed, DisksTyped
  <1> QED
    BY <1>1, <1>2, <1>3 DEF Typed, ReqsTyped, QuietWhenGone

LEMMA FinishTyped ==
  ASSUME Typed, NEW r \in Reqs, Finish(r), UNCHANGED <<kernelVars, session, mounted>>
  PROVE  Typed'
  BY ReqOnlyTyped DEF Finish

\* A chunk ends within its entry and within what is left.
LEMMA ChunkFits ==
  ASSUME MapsTyped, NEW q \in ReqStates, NEW m, Mapped(m, q.pos)
  PROVE  /\ ChunkLen(q, m) \in 1 .. q.left
         /\ \A e \in ExtentStates :
              maps[First(SlotsHit(m, q.pos))] = Entry(m, e) =>
                \A k \in 0 .. ChunkLen(q, m) - 1 :
                  e.start <= q.pos + k /\ (q.pos + k) - e.start < e.len
  <1>1. q.pos \in Nat /\ q.left \in Nat \ {0}
    BY DEF ReqStates
  <1>2. PICK e \in ExtentStates :
          /\ maps[First(SlotsHit(m, q.pos))] = Entry(m, e)
          /\ e.start <= q.pos /\ q.pos - e.start < e.len
    BY <1>1, HitIsExtent
  <1>3. PICK x : x = maps[First(SlotsHit(m, q.pos))]
    OBVIOUS
  <1>4. x.start = e.start /\ x.len = e.len /\ e.start \in Nat /\ e.len \in Nat \ {0}
    BY <1>2, <1>3, EntryIsUsed DEF ExtentStates
  <1>5. PICK room \in Nat \ {0} : room = e.start + e.len - q.pos
    BY <1>1, <1>2, <1>4
  <1>6. ChunkLen(q, m) = IF q.left < room THEN q.left ELSE room
    BY <1>3, <1>4, <1>5 DEF ChunkLen
  <1>7. ChunkLen(q, m) \in 1 .. q.left /\ ChunkLen(q, m) <= room
    BY <1>1, <1>5, <1>6
  <1>8. ASSUME NEW f \in ExtentStates, x = Entry(m, f),
               NEW k \in 0 .. ChunkLen(q, m) - 1
        PROVE  f.start <= q.pos + k /\ (q.pos + k) - f.start < f.len
    <2>1. f.start = e.start /\ f.len = e.len
      BY <1>4, <1>8, EntryIsUsed
    <2>2. k \in Nat /\ k < room
      BY <1>1, <1>5, <1>7
    <2> QED
      BY <1>1, <1>2, <1>4, <1>5, <2>1, <2>2
  <1> QED
    BY <1>3, <1>7, <1>8

LEMMA WorkTyped ==
  ASSUME Typed, NEW r \in Reqs, WorkStep(r)
  PROVE  Typed'
  <1>1. reqs[r].st # "free" /\ UNCHANGED <<kernelVars, session, mounted>>
    BY DEF WorkStep, WorkStart, WorkTranslate, DeviceDone, DeviceFails
  <1>2. PICK q : q = reqs[r]
    OBVIOUS
  <1>3. /\ q \in ReqStates /\ q.disk \in disks
        /\ q.pos + q.left <= volumeOf[q.disk].cap
        /\ q.st = "device" => q.chunk \in 1 .. q.left
    BY <1>1, <1>2, ReqShape
  <1>4. CASE Finish(r)
    BY <1>1, <1>4, FinishTyped
  <1>5. CASE reqs' = [reqs EXCEPT ![r].st = "translate"]
    <2>1. PICK t : t = [q EXCEPT !.st = "translate"]
      OBVIOUS
    <2>2. /\ t \in ReqStates /\ t.st = "translate" /\ t.disk = q.disk /\ t.pos = q.pos
          /\ t.left = q.left
      BY <1>3, <2>1, ReqAt
    <2>3. reqs' = [reqs EXCEPT ![r] = t]
      BY <1>2, <1>5, <2>1
    <2> QED
      BY <1>1, <1>3, <2>2, <2>3, ReqOnlyTyped
  <1>6. CASE WorkTranslate(r) /\ ~Finish(r)
    <2>1. PICK m : m = volumeOf[q.disk].minor
      OBVIOUS
    <2>2. PICK p, n : p = Translate(m, q.pos) /\ n = ChunkLen(q, m)
      OBVIOUS
    <2>3. /\ Mapped(m, q.pos)
          /\ reqs' = [reqs EXCEPT ![r].st = "device", ![r].place = p, ![r].chunk = n]
      BY <1>2, <1>6, <2>1, <2>2 DEF WorkTranslate
    <2>4. q.pos \in Nat /\ n \in 1 .. q.left /\ q.left \in Nat
      BY <1>3, <2>2, <2>3, ChunkFits DEF Typed, ReqStates
    <2>5. p \in Places
      BY <2>2, <2>3, <2>4, HitIsExtent DEF Typed
    <2>6. PICK t : t = [q EXCEPT !.st = "device", !.place = p, !.chunk = n]
      OBVIOUS
    <2>7. /\ t \in ReqStates /\ t.disk = q.disk /\ t.pos = q.pos
          /\ t.left = q.left /\ t.chunk = n
      <3>1. q \in ReqStates /\ p \in Places /\ n \in Nat
        BY <1>3, <2>4, <2>5
      <3>2. t \in ReqStates
        BY <2>6, <3>1 DEF ReqStates
      <3>3. t.disk = q.disk /\ t.pos = q.pos /\ t.left = q.left /\ t.chunk = n
        BY <2>6, <3>1 DEF ReqStates
      <3> QED
        BY <3>2, <3>3
    <2>8. reqs' = [reqs EXCEPT ![r] = t]
      BY <1>2, <2>3, <2>6
    <2> QED
      BY <1>1, <1>3, <2>4, <2>7, <2>8, ReqOnlyTyped
  <1>7. CASE DeviceDone(r) /\ ~Finish(r)
    <2>1. PICK t : t = Rest(q)
      OBVIOUS
    <2>2. reqs' = [reqs EXCEPT ![r] = t] /\ q.left > q.chunk /\ q.st = "device"
      BY <1>2, <1>7, <2>1 DEF DeviceDone
    <2>3. /\ t \in ReqStates /\ t.st = "translate" /\ t.disk = q.disk
          /\ t.pos + t.left = q.pos + q.left
      BY <1>3, <2>1, <2>2, ReqRest
    <2> QED
      BY <1>1, <1>3, <2>2, <2>3, ReqOnlyTyped
  <1> QED
    BY <1>4, <1>5, <1>6, <1>7 DEF WorkStep, WorkStart, DeviceFails

LEMMA TypedInit == Init => Typed
  <1> SUFFICES ASSUME Init
               PROVE  Typed
    OBVIOUS
  <1>1. SlotsTyped
    BY DEF Init, SlotsTyped, NoSlot
  <1>2. DisksTyped /\ SessionsTyped
    <2>1. volumeOf \in Seq(Volumes) /\ Len(volumeOf) = 0 /\ 0 <= MaxDisks
      BY MapsAssumption DEF Init
    <2> QED
      BY <2>1 DEF Init, DisksTyped, SessionsTyped, Idle, DestroySteps
  <1>3. MapsTyped /\ MountsTyped
    BY DEF Init, MapsTyped, MountsTyped
  <1>4. ReqsTyped /\ QuietWhenGone
    BY DEF Init, ReqsTyped, QuietWhenGone
  <1> QED
    BY <1>1, <1>2, <1>3, <1>4 DEF Typed

LEMMA TypedNext == Typed /\ [Next]_vars => Typed'
  <1> SUFFICES ASSUME Typed, [Next]_vars
               PROVE  Typed'
    OBVIOUS
  <1>1. ASSUME NEW c \in Clients, SessionStep(c)
        PROVE  Typed'
    BY <1>1, EndTyped, CreateTyped, AddCheckTyped, AddInsertTyped, MapDelTyped,
       DestroyBeginTyped, DestroyTyped DEF SessionStep
  <1>2. CASE UNCHANGED vars
    BY <1>2 DEF vars, Typed, SlotsTyped, MapsTyped, DisksTyped, SessionsTyped,
                MountsTyped, ReqsTyped, QuietWhenGone
  <1>3. ASSUME NEW r \in Reqs, NEW g \in disks, NEW pos \in 0 .. volumeOf[g].cap - 1,
               NEW len \in 1 .. volumeOf[g].cap - pos, Submit(r, g, pos, len)
        PROVE  Typed'
    BY <1>3, SubmitTyped
  <1>4. ASSUME NEW c \in Clients, Crash(c)
        PROVE  Typed'
    BY <1>4, EndTyped
  <1>5. CASE \E c \in Clients, v \in Volumes : StartMount(c, v)
    BY <1>5, StartTyped
  <1>6. CASE \E c \in Clients : \E v \in mounted[c] : StartUnmount(c, v)
    BY <1>6, StartTyped
  <1>7. CASE \E c \in Clients, m \in Minors : StartCleanup(c, m)
    BY <1>7, StartTyped
  <1> QED
    BY <1>1, <1>2, <1>3, <1>4, <1>5, <1>6, <1>7, WorkTyped DEF Next

LEMMA SpecTyped == Spec => []Typed
  BY TypedInit, TypedNext, PTL DEF Spec

\* The slots, entries, gendisks, sessions and requests keep their shape, and
\* the loop index of a session its bounds, however sessions overlap.
THEOREM KernelTypeCorrect == Spec => []TypeOK
  <1>1. Typed => TypeOK
    <2> SUFFICES ASSUME Typed
                 PROVE  TypeOK
      OBVIOUS
    <2>1. Range(volumeOf) \subseteq Volumes
      BY LenProperties, ElementOfSeq DEF Typed, DisksTyped, Range
    <2>2. \A c \in Clients :
            /\ mounted[c] \subseteq Volumes
            /\ Inside(c) => /\ session[c].at \in Steps
                            /\ session[c].i \in 1 .. Len(session[c].maps) + 1
                            /\ session[c].at = "insert" =>
                                 session[c].i <= Len(session[c].maps)
      <3> SUFFICES ASSUME NEW c \in Clients
                   PROVE  /\ mounted[c] \subseteq Volumes
                          /\ Inside(c) =>
                               /\ session[c].at \in Steps
                               /\ session[c].i \in 1 .. Len(session[c].maps) + 1
                               /\ session[c].at = "insert" =>
                                    session[c].i <= Len(session[c].maps)
        OBVIOUS
      <3>1. Inside(c) => Shape(session[c]) /\ session[c].at \in Steps
        BY IdleOrInside DEF Typed
      <3>2. Inside(c) => session[c].i \in Nat \ {0} /\ Len(session[c].maps) \in Nat
        BY <3>1, LenProperties DEF Shape, SessionStates
      <3> QED
        BY <3>1, <3>2 DEF Shape, Typed, MountsTyped
    <2>3. \A r \in Reqs : reqs[r] # NoReq =>
            /\ reqs[r].st \in {"queued", "translate", "device"}
            /\ reqs[r].disk \in DOMAIN volumeOf
            /\ reqs[r].left > 0
            /\ reqs[r].pos + reqs[r].left <= volumeOf[reqs[r].disk].cap
      BY DEF Typed, ReqsTyped, ReqStates
    <2>4. \A i \in 1 .. MaxMaps :
            \/ maps[i] = NoEntry
            \/ \E v \in Volumes : \E k \in DOMAIN v.maps :
                 maps[i] = Entry(v.minor, v.maps[k])
      BY DEF Typed, MapsTyped, IsEntry
    <2> QED
      BY <2>1, <2>2, <2>3, <2>4 DEF TypeOK, Typed, SlotsTyped, DisksTyped
  <1> QED
    BY <1>1, SpecTyped, PTL

\* A worker never outlives the gendisk of its request, whose slot destroy
\* zeroes once del_gendisk has returned: every outstanding request is one of
\* a registered gendisk, however sessions overlap.
THEOREM WorkersFindTheirDisk == Spec => []QuietWhenGone
  <1>1. Typed => QuietWhenGone
    BY DEF Typed
  <1> QED
    BY <1>1, SpecTyped, PTL

-----------------------------------------------------------------------------
(* The inductive invariant with Serial, minor by minor                      *)

\* Client c is in a session on minor m.
Busy(c, m) == Inside(c) /\ session[c].minor = m

\* The entries the map table holds of minor m, one of them of an extent.
HeldAt(m) == {maps[i] : i \in SlotsOf(m)}
Present(v, k) == Entry(v.minor, v.maps[k]) \in HeldAt(v.minor)

Serves(v) == slot[v.minor].active /\ volumeOf[slot[v.minor].disk] = v
NoneMounted(m) == \A c \in Clients : \A v \in mounted[c] : v.minor # m

OneSession(m) == \A c, d \in Clients : Busy(c, m) /\ Busy(d, m) => c = d

SlotSound(m) ==
  slot[m].active => slot[m].disk \in disks /\ volumeOf[slot[m].disk].minor = m

\* A gendisk is its slot's, or that of the destroy that took it out.
DisksHaveOwner(m) ==
  \A g \in disks : volumeOf[g].minor = m =>
    \/ slot[m].active /\ slot[m].disk = g
    \/ \E c \in Clients : /\ Busy(c, m) /\ session[c].at \in {"quiesce", "drain"}
                          /\ session[c].disk = g

\* What a session may rely on between its ioctls.
SessionSound(c) ==
  /\ session[c].at = "create" => session[c].i = 1
  /\ session[c].at \in {"add", "insert"} =>
       /\ Serves(session[c].vol) /\ NoneMounted(session[c].minor)
       /\ \A k \in 1 .. session[c].i - 1 : Present(session[c].vol, k)
  /\ session[c].op = "unmount" => session[c].vol \in mounted[c]
  /\ session[c].op \in {"undo", "cleanup"} => NoneMounted(session[c].minor)
  /\ session[c].at \in DestroySteps => ~slot[session[c].minor].active
  /\ session[c].at \in {"quiesce", "drain"} =>
       session[c].disk \in disks /\ volumeOf[session[c].disk].minor = session[c].minor

SessionsSound(m) == \A c \in Clients : Busy(c, m) => SessionSound(c)

MountedOnce(m) ==
  \A c, d \in Clients : \A v \in mounted[c], w \in mounted[d] :
    v.minor = m /\ w.minor = m => c = d /\ v = w

\* A mounted volume is served, until a destroy takes its device down.
MountedServed(m) ==
  \A c \in Clients : \A v \in mounted[c] : v.minor = m =>
    \/ Serves(v)
    \/ \E d \in Clients : Busy(d, m) /\ session[d].at \in DestroySteps

\* Its extents are in the map table, until an unmount takes them out.
MountedMapped(m) ==
  \A c \in Clients : \A v \in mounted[c] : v.minor = m =>
    \/ Busy(c, m) /\ session[c].op = "unmount"
    \/ \A k \in DOMAIN v.maps : Present(v, k)

\* The entries of a minor are of extents of the volume its gendisk is for.
EntriesOwn(m) ==
  \A g \in disks : volumeOf[g].minor = m =>
    \A x \in HeldAt(m) : \E k \in DOMAIN volumeOf[g].maps :
      x = Entry(m, volumeOf[g].maps[k])

NoneOrphan(m) ==
  HeldAt(m) # {} =>
    \/ slot[m].active
    \/ \E c \in Clients : Busy(c, m) /\ session[c].at \in DestroySteps

AtMinor(m) ==
  /\ OneSession(m) /\ SlotSound(m) /\ DisksHaveOwner(m) /\ SessionsSound(m)
  /\ MountedOnce(m) /\ MountedServed(m) /\ MountedMapped(m) /\ EntriesOwn(m)
  /\ NoneOrphan(m)

MinorsSound == \A m \in Minors : AtMinor(m)

-----------------------------------------------------------------------------
(* The entries of a minor *)

LEMMA HeldIs ==
  ASSUME NEW m, NEW x
  PROVE  x \in HeldAt(m) <=>
           \E i \in 1 .. MaxMaps : maps[i] = x /\ x # NoEntry /\ x.minor = m
  BY DEF HeldAt, SlotsOf, UsedSlots

LEMMA HeldIsNext ==
  ASSUME NEW m, NEW x
  PROVE  x \in HeldAt(m)' <=>
           \E i \in 1 .. MaxMaps : maps'[i] = x /\ x # NoEntry /\ x.minor = m
  BY DEF HeldAt, SlotsOf, UsedSlots

LEMMA MapsStill ==
  ASSUME UNCHANGED maps
  PROVE  \A m : HeldAt(m)' = HeldAt(m)
  BY HeldIs, HeldIsNext

\* A map_add of a free slot adds its entry, to its minor.
LEMMA HeldAfterAdd ==
  ASSUME MapsTyped, NEW i \in (1 .. MaxMaps) \ UsedSlots, NEW x, x # NoEntry,
         maps' = [maps EXCEPT ![i] = x]
  PROVE  /\ HeldAt(x.minor)' = HeldAt(x.minor) \cup {x}
         /\ \A n : n # x.minor => HeldAt(n)' = HeldAt(n)
  <1>1. /\ maps[i] = NoEntry /\ maps'[i] = x /\ i \in 1 .. MaxMaps
        /\ \A j \in 1 .. MaxMaps : j # i => maps'[j] = maps[j]
    BY DEF UsedSlots, MapsTyped
  <1>2. ASSUME NEW n, NEW y
        PROVE  y \in HeldAt(n)' <=> y \in HeldAt(n) \/ (y = x /\ x.minor = n)
    BY <1>1, HeldIs, HeldIsNext
  <1>3. \A y : y \in HeldAt(x.minor)' <=> y \in HeldAt(x.minor) \cup {x}
    BY <1>2
  <1>4. \A n : n # x.minor => HeldAt(n)' = HeldAt(n)
    BY <1>2
  <1> QED
    BY <1>3, <1>4

\* A map_del takes entries of its minor only.
LEMMA HeldAfterDel ==
  ASSUME NEW m, NEW start, maps' = MapsWithout(m, start)
  PROVE  /\ HeldAt(m)' \subseteq HeldAt(m)
         /\ \A n : n # m => HeldAt(n)' = HeldAt(n)
  <1>1. \A i \in 1 .. MaxMaps :
          \/ maps'[i] = maps[i]
          \/ maps'[i] = NoEntry /\ maps[i].minor = m
    <2>1. SlotsAt(m, start) # {} => First(SlotsAt(m, start)) \in SlotsAt(m, start)
      <3>1. SlotsAt(m, start) \in SUBSET Nat
        BY DEF SlotsAt, UsedSlots
      <3> QED
        BY <3>1, FirstOfSet
    <2>2. \A i \in SlotsAt(m, start) : maps[i].minor = m
      BY DEF SlotsAt
    <2> QED
      BY <2>1, <2>2 DEF MapsWithout
  <1>2. ASSUME NEW n, NEW y
        PROVE  /\ y \in HeldAt(n)' => y \in HeldAt(n)
               /\ n # m /\ y \in HeldAt(n) => y \in HeldAt(n)'
    BY <1>1, HeldIs, HeldIsNext
  <1> QED
    BY <1>2

LEMMA HeldAfterClear ==
  ASSUME NEW m, maps' = MapsCleared(m)
  PROVE  /\ HeldAt(m)' = {}
         /\ \A n : n # m => HeldAt(n)' = HeldAt(n)
  <1>1. \A i \in 1 .. MaxMaps :
          \/ maps'[i] = maps[i] /\ (maps[i] = NoEntry \/ maps[i].minor # m)
          \/ maps'[i] = NoEntry /\ maps[i].minor = m
    BY DEF MapsCleared, SlotsOf, UsedSlots
  <1>2. ASSUME NEW n, NEW y
        PROVE  y \in HeldAt(n)' <=> n # m /\ y \in HeldAt(n)
    BY <1>1, HeldIs, HeldIsNext
  <1> QED
    BY <1>2

-----------------------------------------------------------------------------
(* A minor no step of the client is about stays as it is *)

LEMMA Elsewhere ==
  ASSUME SessionsTyped, NEW m \in Minors, AtMinor(m), NEW c \in Clients, OthersStay(c),
         ~Busy(c, m), ~Busy(c, m)', slot'[m] = slot[m], HeldAt(m)' = HeldAt(m),
         \A g \in disks : volumeOf[g].minor = m =>
                            g \in disks' /\ volumeOf'[g] = volumeOf[g],
         \A g \in disks' : volumeOf'[g].minor = m => g \in disks,
         \A g \in disks : volumeOf'[g] = volumeOf[g],
         \A d \in Clients : \A v : v.minor = m => (v \in mounted'[d] <=> v \in mounted[d])
  PROVE  AtMinor(m)'
  <1>1. \A d \in Clients :
          /\ Busy(d, m)' <=> Busy(d, m)
          /\ Busy(d, m) => d # c /\ session'[d] = session[d] /\ session[d].minor = m
    BY DEF OthersStay, Busy, Inside
  <1>2. OneSession(m)'
    BY <1>1 DEF AtMinor, OneSession
  <1>3. SlotSound(m)'
    BY DEF AtMinor, SlotSound
  <1>4. DisksHaveOwner(m)'
    BY <1>1 DEF AtMinor, DisksHaveOwner
  <1>5. ASSUME NEW v, v.minor = m, Serves(v)
        PROVE  Serves(v)'
    BY <1>5 DEF AtMinor, SlotSound, Serves
  <1>6. NoneMounted(m) => NoneMounted(m)'
    BY DEF NoneMounted
  <1>7. ASSUME NEW v, v.minor = m, NEW k, Present(v, k)
        PROVE  Present(v, k)'
    BY <1>7 DEF Present
  <1>8. SessionsSound(m)'
    <2> SUFFICES ASSUME NEW d \in Clients, Busy(d, m)'
                 PROVE  SessionSound(d)'
      BY DEF SessionsSound
    <2>1. Busy(d, m) /\ session'[d] = session[d] /\ session[d].minor = m
      BY <1>1
    <2>2. SessionSound(d)
      BY <2>1 DEF AtMinor, SessionsSound
    <2>3. session[d].at \in {"add", "insert"} => session[d].vol.minor = m
      BY <2>1, IdleOrInside DEF Busy, Shape
    <2>4. session[d].at \in {"add", "insert"} =>
            /\ Serves(session[d].vol)' /\ NoneMounted(session[d].minor)'
            /\ \A k \in 1 .. session[d].i - 1 : Present(session[d].vol, k)'
      <3> SUFFICES ASSUME session[d].at \in {"add", "insert"}
                   PROVE  /\ Serves(session[d].vol)' /\ NoneMounted(session[d].minor)'
                          /\ \A k \in 1 .. session[d].i - 1 : Present(session[d].vol, k)'
        OBVIOUS
      <3>1. Serves(session[d].vol) /\ NoneMounted(m)
            /\ \A k \in 1 .. session[d].i - 1 : Present(session[d].vol, k)
        BY <2>1, <2>2 DEF SessionSound
      <3> QED
        BY <1>5, <1>6, <1>7, <2>1, <2>3, <3>1
    <2>5. session[d].op = "unmount" => session[d].vol \in mounted'[d]
      <3>1. session[d].op = "unmount" => session[d].vol.minor = m
        BY <2>1, IdleOrInside DEF Busy, Shape
      <3> QED
        BY <2>2, <3>1 DEF SessionSound
    <2> QED
      BY <1>6, <2>1, <2>2, <2>4, <2>5 DEF SessionSound
  <1>9. MountedOnce(m)' /\ MountedServed(m)'
    BY <1>1, <1>5 DEF AtMinor, MountedOnce, MountedServed
  <1>10. MountedMapped(m)'
    BY <1>1, <1>7 DEF AtMinor, MountedMapped
  <1>11. EntriesOwn(m)' /\ NoneOrphan(m)'
    BY <1>1 DEF AtMinor, EntriesOwn, NoneOrphan
  <1> QED
    BY <1>2, <1>3, <1>4, <1>8, <1>9, <1>10, <1>11 DEF AtMinor

LEMMA MinorsSoundIf ==
  ASSUME SessionsTyped, MinorsSound, NEW c \in Clients, NEW m \in Minors, OthersStay(c),
         Inside(c) => session[c].minor = m, Inside(c)' => session'[c].minor = m,
         \A n \in Minors \ {m} : slot'[n] = slot[n] /\ HeldAt(n)' = HeldAt(n),
         \A g \in disks : /\ volumeOf'[g] = volumeOf[g]
                          /\ g \in disks' \/ volumeOf[g].minor = m,
         \A g \in disks' : g \in disks \/ volumeOf'[g].minor = m,
         \A d \in Clients : \A v : v.minor # m => (v \in mounted'[d] <=> v \in mounted[d]),
         AtMinor(m)'
  PROVE  MinorsSound'
  <1> SUFFICES ASSUME NEW n \in Minors, n # m
               PROVE  AtMinor(n)'
    BY DEF MinorsSound
  <1>1. AtMinor(n) /\ ~Busy(c, n) /\ ~Busy(c, n)'
    BY DEF MinorsSound, Busy
  <1>2. \A g \in disks : volumeOf[g].minor = n => g \in disks' /\ volumeOf'[g] = volumeOf[g]
    OBVIOUS
  <1>3. \A g \in disks' : volumeOf'[g].minor = n => g \in disks
    OBVIOUS
  <1>4. \A d \in Clients : \A v : v.minor = n => (v \in mounted'[d] <=> v \in mounted[d])
    OBVIOUS
  <1> QED
    BY <1>1, <1>2, <1>3, <1>4, Elsewhere

\* The session of a client is the only one on its minor.
LEMMA OnlyClient ==
  ASSUME NEW m, OneSession(m), NEW c \in Clients, Busy(c, m), OthersStay(c)
  PROVE  /\ \A d \in Clients : Busy(d, m) => d = c
         /\ \A d \in Clients : Busy(d, m)' => d = c
  BY DEF OneSession, Busy, Inside, OthersStay

LEMMA SessionAt ==
  ASSUME Typed, MinorsSound, NEW c \in Clients, session[c].at # "idle"
  PROVE  /\ Shape(session[c]) /\ Inside(c) /\ session[c].minor \in Minors
         /\ Busy(c, session[c].minor) /\ AtMinor(session[c].minor)
         /\ OneSession(session[c].minor) /\ SessionSound(c)
  <1>1. Shape(session[c]) /\ Inside(c)
    BY InsideShape DEF Typed
  <1>2. session[c].minor \in Minors
    BY <1>1 DEF Shape, SessionStates
  <1>3. Busy(c, session[c].minor) /\ AtMinor(session[c].minor)
    BY <1>1, <1>2 DEF Busy, MinorsSound
  <1> QED
    BY <1>1, <1>2, <1>3 DEF AtMinor, SessionsSound

-----------------------------------------------------------------------------
(* Sessions begin and end *)

LEMMA BeginSound ==
  ASSUME Serial, Typed, MinorsSound, NEW c \in Clients,
         NEW op \in {"mount", "unmount", "cleanup"},
         NEW m \in Minors, NEW v \in Volumes \cup {"unknown"},
         NEW entries \in Seq(ExtentStates), Begin(c, op, m, v, entries),
         op # "cleanup" => v \in Volumes /\ m = v.minor,
         op = "mount" => entries = v.maps,
         op = "unmount" => v \in mounted[c],
         op = "cleanup" => NoneMounted(m),
         UNCHANGED <<kernelVars, reqs, mounted>>
  PROVE  MinorsSound'
  <1>1. /\ OthersStay(c) /\ session[c] = Idle /\ ~MinorBusy(m)
        /\ session'[c].op = op /\ session'[c].minor = m /\ session'[c].vol = v
        /\ session'[c].i = 1
        /\ session'[c].at = (IF op = "mount" THEN "create" ELSE "del")
    BY BeginDoes DEF Typed
  <1>2. UNCHANGED <<slot, maps, disks, dying, volumeOf, mounted>>
    BY DEF kernelVars
  <1>3. /\ \A d \in Clients : ~Busy(d, m)
        /\ \A d \in Clients : Busy(d, m)' => d = c
        /\ ~Inside(c) /\ session'[c].at \notin DestroySteps
    BY <1>1 DEF MinorBusy, Busy, Inside, OthersStay, Idle, DestroySteps
  <1>4. \A n : HeldAt(n)' = HeldAt(n)
    BY <1>2, MapsStill
  <1>5. AtMinor(m)
    BY DEF MinorsSound
  <1>6. OneSession(m)' /\ SlotSound(m)' /\ MountedOnce(m)' /\ EntriesOwn(m)'
    BY <1>2, <1>3, <1>4, <1>5 DEF AtMinor, OneSession, SlotSound, MountedOnce, EntriesOwn
  <1>7. DisksHaveOwner(m)' /\ MountedServed(m)' /\ NoneOrphan(m)'
    BY <1>2, <1>3, <1>4, <1>5 DEF AtMinor, DisksHaveOwner, MountedServed, NoneOrphan, Serves
  <1>8. MountedMapped(m)'
    BY <1>2, <1>3, <1>4, <1>5 DEF AtMinor, MountedMapped, Present
  <1>9. SessionsSound(m)'
    BY <1>1, <1>2, <1>3 DEF SessionsSound, SessionSound, NoneMounted, DestroySteps
  <1>10. AtMinor(m)'
    BY <1>6, <1>7, <1>8, <1>9 DEF AtMinor
  <1> QED
    BY <1>1, <1>2, <1>3, <1>4, <1>10, MinorsSoundIf DEF Typed

LEMMA StartSound ==
  ASSUME Serial, Typed, MinorsSound, NEW c \in Clients,
         \/ \E v \in Volumes : StartMount(c, v)
         \/ \E v \in mounted[c] : StartUnmount(c, v)
         \/ \E m \in Minors : StartCleanup(c, m)
  PROVE  MinorsSound'
  <1>1. ASSUME NEW v \in Volumes, StartMount(c, v)
        PROVE  MinorsSound'
    BY <1>1, VolumeFields, BeginSound DEF StartMount
  <1>2. ASSUME NEW v \in mounted[c], StartUnmount(c, v)
        PROVE  MinorsSound'
    <2>1. v \in Volumes
      BY DEF Typed, MountsTyped
    <2> QED
      BY <1>2, <2>1, VolumeFields, BeginSound DEF StartUnmount
  <1>3. ASSUME NEW m \in Minors, StartCleanup(c, m)
        PROVE  MinorsSound'
    <2>1. <<>> \in Seq(ExtentStates) /\ NoneMounted(m)
      BY <1>3 DEF StartCleanup, NoneMounted
    <2> QED
      BY <1>3, <2>1, BeginSound DEF StartCleanup
  <1> QED
    BY <1>1, <1>2, <1>3

\* A session ends outside a destroy, and an unmount only with its process.
LEMMA LeaveSound ==
  ASSUME Typed, MinorsSound, NEW c \in Clients, End(c),
         session[c].at \notin DestroySteps, UNCHANGED kernelVars,
         mounted'[c] \subseteq mounted[c],
         Inside(c) /\ session[c].op = "unmount" => mounted'[c] = {},
         \A d \in Clients \ {c} : mounted'[d] = mounted[d]
  PROVE  MinorsSound'
  <1> SUFFICES ASSUME NEW m \in Minors
               PROVE  AtMinor(m)'
    BY DEF MinorsSound
  <1>1. /\ OthersStay(c) /\ ~Inside(c)' /\ SessionsTyped
        /\ UNCHANGED <<slot, maps, disks, dying, volumeOf>>
    BY EndDoes DEF Typed, kernelVars
  <1>2. /\ \A d \in Clients :
             Busy(d, m)' <=> Busy(d, m) /\ d # c
        /\ \A d \in Clients \ {c} : session'[d] = session[d]
    BY <1>1 DEF Busy, Inside, OthersStay
  <1>3. \A n : HeldAt(n)' = HeldAt(n)
    BY <1>1, MapsStill
  <1>4. AtMinor(m)
    BY DEF MinorsSound
  <1>5. \A d \in Clients : mounted'[d] \subseteq mounted[d]
    OBVIOUS
  <1>6. OneSession(m)' /\ SlotSound(m)' /\ MountedOnce(m)' /\ EntriesOwn(m)'
    BY <1>1, <1>2, <1>3, <1>4, <1>5
       DEF AtMinor, OneSession, SlotSound, MountedOnce, EntriesOwn
  <1>7. DisksHaveOwner(m)' /\ NoneOrphan(m)'
    BY <1>1, <1>2, <1>3, <1>4 DEF AtMinor, DisksHaveOwner, NoneOrphan, DestroySteps
  <1>8. MountedServed(m)'
    BY <1>1, <1>2, <1>4, <1>5 DEF AtMinor, MountedServed, Serves
  <1>9. MountedMapped(m)'
    BY <1>1, <1>2, <1>3, <1>4, <1>5 DEF AtMinor, MountedMapped, Present, Busy
  <1>10. SessionsSound(m)'
    <2> SUFFICES ASSUME NEW d \in Clients, Busy(d, m)'
                 PROVE  SessionSound(d)'
      BY DEF SessionsSound
    <2>1. d # c /\ session'[d] = session[d] /\ SessionSound(d) /\ mounted'[d] = mounted[d]
      BY <1>2, <1>4 DEF AtMinor, SessionsSound
    <2> QED
      BY <1>1, <1>3, <1>5, <2>1 DEF SessionSound, Serves, NoneMounted, Present
  <1> QED
    BY <1>6, <1>7, <1>8, <1>9, <1>10 DEF AtMinor

\* On a minor whose slot is empty, and no destroy is at work, there is
\* nothing: no mount, no entry and no gendisk.
LEMMA EmptySlot ==
  ASSUME Typed, MinorsSound, NEW c \in Clients, session[c].at # "idle",
         session[c].at \notin DestroySteps, ~slot[session[c].minor].active
  PROVE  /\ NoneMounted(session[c].minor) /\ HeldAt(session[c].minor) = {}
         /\ \A g \in disks : volumeOf[g].minor # session[c].minor
  <1>1. PICK m : m = session[c].minor
    OBVIOUS
  <1>2. Busy(c, m) /\ AtMinor(m) /\ OneSession(m)
    BY <1>1, SessionAt
  <1>3. \A d \in Clients : Busy(d, m) => session[d].at \notin DestroySteps
    BY <1>2 DEF OneSession
  <1>4. NoneMounted(m)
    BY <1>1, <1>2, <1>3 DEF AtMinor, MountedServed, Serves, NoneMounted
  <1>5. HeldAt(m) = {}
    BY <1>1, <1>2, <1>3 DEF AtMinor, NoneOrphan
  <1>6. \A g \in disks : volumeOf[g].minor # m
    BY <1>1, <1>2, <1>3 DEF AtMinor, DisksHaveOwner, DestroySteps
  <1> QED
    BY <1>1, <1>4, <1>5, <1>6

LEMMA EndSound ==
  ASSUME Typed, MinorsSound, NEW c \in Clients,
         CreateBusy(c) \/ DestroyMissing(c) \/ Crash(c)
  PROVE  MinorsSound'
  <1>1. CASE CreateBusy(c)
    <2>1. session[c].at = "create" /\ End(c) /\ UNCHANGED <<kernelVars, reqs, mounted>>
      BY <1>1 DEF CreateBusy
    <2>2. session[c].op = "mount" /\ session[c].at \notin DestroySteps
      BY <2>1, InsideShape DEF Typed, Shape, DestroySteps
    <2> QED
      BY <2>1, <2>2, LeaveSound
  <1>2. CASE DestroyMissing(c)
    <2>1. /\ session[c].at = "del" /\ End(c) /\ UNCHANGED <<kernelVars, reqs, mounted>>
          /\ ~slot[session[c].minor].active /\ session[c].at \notin DestroySteps
      BY <1>2 DEF DestroyMissing, DestroySteps
    <2>2. NoneMounted(session[c].minor) /\ SessionSound(c) /\ Shape(session[c])
      BY <2>1, EmptySlot, SessionAt
    <2>3. session[c].op # "unmount"
      BY <2>2 DEF SessionSound, Shape, NoneMounted
    <2> QED
      BY <2>1, <2>3, LeaveSound
  <1>3. CASE Crash(c)
    <2>1. /\ session[c].at \notin DestroySteps /\ End(c) /\ UNCHANGED kernelVars
          /\ mounted' = [mounted EXCEPT ![c] = {}]
      BY <1>3 DEF Crash, BetweenIoctls, DestroySteps
    <2>2. mounted'[c] = {} /\ \A d \in Clients \ {c} : mounted'[d] = mounted[d]
      BY <2>1 DEF Typed, MountsTyped
    <2> QED
      BY <2>1, <2>2, LeaveSound
  <1> QED
    BY <1>1, <1>2, <1>3

-----------------------------------------------------------------------------
(* Mount *)

LEMMA CreateFailsSound ==
  ASSUME Typed, MinorsSound, NEW c \in Clients, CreateFails(c)
  PROVE  MinorsSound'
  <1>1. PICK m : m = session[c].minor
    OBVIOUS
  <1>2. /\ session[c].at = "create" /\ ~slot[m].active /\ End(c)
        /\ slot' = [slot EXCEPT ![m] = NoSlot]
        /\ UNCHANGED <<maps, disks, dying, volumeOf, reqs, mounted>>
    BY <1>1 DEF CreateFails
  <1>3. m \in Minors /\ Busy(c, m) /\ OneSession(m) /\ Inside(c)
    BY <1>1, <1>2, SessionAt
  <1>4. OthersStay(c) /\ ~Inside(c)'
    BY <1>2, EndDoes DEF Typed
  <1>5. \A d \in Clients : ~Busy(d, m)'
    BY <1>3, <1>4, OnlyClient DEF Busy
  <1>6. /\ NoneMounted(m) /\ HeldAt(m) = {} /\ \A g \in disks : volumeOf[g].minor # m
    BY <1>1, <1>2, EmptySlot DEF DestroySteps
  <1>7. \A n : HeldAt(n)' = HeldAt(n)
    BY <1>2, MapsStill
  <1>8. ~slot'[m].active /\ \A n \in Minors \ {m} : slot'[n] = slot[n]
    BY <1>2, <1>3 DEF Typed, SlotsTyped, NoSlot
  <1>9. AtMinor(m)'
    BY <1>2, <1>5, <1>6, <1>7, <1>8
       DEF AtMinor, OneSession, SlotSound, DisksHaveOwner, SessionsSound, MountedOnce,
           MountedServed, MountedMapped, EntriesOwn, NoneOrphan, NoneMounted
  <1> QED
    BY <1>1, <1>2, <1>3, <1>4, <1>7, <1>8, <1>9, MinorsSoundIf DEF Typed

LEMMA CreateSound ==
  ASSUME Typed, MinorsSound, NEW c \in Clients, Create(c)
  PROVE  MinorsSound'
  <1>1. PICK m, g, v : m = session[c].minor /\ g = NextGen /\ v = session[c].vol
    OBVIOUS
  <1>2. /\ session[c].at = "create" /\ ~slot[m].active /\ Goto(c, "add")
        /\ slot' = [slot EXCEPT ![m] = [active |-> TRUE, disk |-> g]]
        /\ disks' = disks \cup {g} /\ volumeOf' = Append(volumeOf, v)
        /\ UNCHANGED <<maps, dying, reqs, mounted>>
    BY <1>1 DEF Create
  <1>3. /\ m \in Minors /\ Busy(c, m) /\ OneSession(m) /\ Inside(c)
        /\ Shape(session[c]) /\ SessionSound(c)
    BY <1>1, <1>2, SessionAt
  <1>4. v \in Volumes /\ v.minor = m /\ session[c].op = "mount" /\ session[c].i = 1
    BY <1>1, <1>2, <1>3 DEF Shape, SessionSound
  <1>5. /\ OthersStay(c) /\ session'[c].at = "add" /\ session'[c].op = "mount"
        /\ session'[c].minor = m /\ session'[c].vol = v /\ session'[c].i = 1
    <2>1. "add" \in Steps /\ "add" \in {"create", "add", "insert"}
      BY DEF Steps
    <2> QED
      BY <1>1, <1>2, <1>4, <2>1, GotoDoes DEF Typed, GoesOn
  <1>6. \A d \in Clients : Busy(d, m)' => d = c
    BY <1>3, <1>5, OnlyClient
  <1>7. /\ NoneMounted(m) /\ HeldAt(m) = {} /\ \A h \in disks : volumeOf[h].minor # m
    BY <1>1, <1>2, EmptySlot DEF DestroySteps
  <1>8. \A n : HeldAt(n)' = HeldAt(n)
    BY <1>2, MapsStill
  <1>9. /\ slot'[m].active /\ slot'[m].disk = g
        /\ \A n \in Minors \ {m} : slot'[n] = slot[n]
    BY <1>2, <1>3 DEF Typed, SlotsTyped
  <1>10. /\ volumeOf'[g] = v /\ g \notin disks
         /\ \A h \in disks : volumeOf'[h] = volumeOf[h]
    BY <1>1, <1>2, <1>4, NextGenIs DEF Typed, DisksTyped
  <1>11. \A h \in disks' : volumeOf'[h].minor = m => h = g
    BY <1>2, <1>7, <1>10
  <1>12. NoneMounted(m)'
    BY <1>2, <1>7 DEF NoneMounted
  <1>13. SessionsSound(m)'
    <2>1. Serves(v)'
      BY <1>4, <1>9, <1>10 DEF Serves
    <2> QED
      BY <1>5, <1>6, <1>12, <2>1 DEF SessionsSound, SessionSound, DestroySteps
  <1>14. SlotSound(m)' /\ DisksHaveOwner(m)'
    <2>1. g \in disks' /\ volumeOf'[g].minor = m
      BY <1>2, <1>4, <1>10
    <2>2. SlotSound(m)'
      BY <1>9, <2>1 DEF SlotSound
    <2>3. DisksHaveOwner(m)'
      BY <1>9, <1>11 DEF DisksHaveOwner
    <2> QED
      BY <2>2, <2>3
  <1>15. AtMinor(m)'
    BY <1>6, <1>7, <1>8, <1>12, <1>13, <1>14
       DEF AtMinor, OneSession, MountedOnce, MountedServed, MountedMapped, EntriesOwn,
           NoneOrphan, NoneMounted
  <1> QED
    <2>1. /\ Inside(c) => session[c].minor = m
          /\ Inside(c)' => session'[c].minor = m
          /\ \A h \in disks' : h \in disks \/ volumeOf'[h].minor = m
          /\ \A h \in disks : volumeOf'[h] = volumeOf[h] /\ h \in disks'
      BY <1>1, <1>2, <1>4, <1>5, <1>10
    <2> QED
      BY <1>2, <1>3, <1>5, <1>8, <1>9, <1>15, <2>1, MinorsSoundIf DEF Typed

\* A session moves on and touches neither slots, gendisks nor entries.
LEMMA MoveSound ==
  ASSUME Typed, MinorsSound, NEW c \in Clients, session[c].at # "idle", OthersStay(c),
         Inside(c)', session'[c].minor = session[c].minor, SessionSound(c)',
         session[c].at \in DestroySteps => session'[c].at \in DestroySteps,
         session[c].at \in {"quiesce", "drain"} =>
           session'[c].at \in {"quiesce", "drain"} /\ session'[c].disk = session[c].disk,
         session[c].op = "unmount" => session'[c].op = "unmount",
         UNCHANGED <<slot, maps, disks, volumeOf, mounted>>
  PROVE  MinorsSound'
  <1>1. PICK m : m = session[c].minor
    OBVIOUS
  <1>2. m \in Minors /\ Busy(c, m) /\ OneSession(m) /\ Inside(c) /\ AtMinor(m)
    BY <1>1, SessionAt
  <1>3. \A d \in Clients : (Busy(d, m)' <=> d = c) /\ (Busy(d, m) <=> d = c)
    BY <1>1, <1>2, OnlyClient DEF Busy
  <1>4. \A n : HeldAt(n)' = HeldAt(n)
    BY MapsStill
  <1>5. OneSession(m)' /\ SlotSound(m)' /\ MountedOnce(m)' /\ EntriesOwn(m)'
    BY <1>2, <1>3, <1>4 DEF AtMinor, OneSession, SlotSound, MountedOnce, EntriesOwn
  <1>6. DisksHaveOwner(m)' /\ NoneOrphan(m)'
    BY <1>2, <1>3, <1>4 DEF AtMinor, DisksHaveOwner, NoneOrphan
  <1>7. MountedServed(m)' /\ MountedMapped(m)'
    BY <1>2, <1>3, <1>4 DEF AtMinor, MountedServed, MountedMapped, Serves, Present
  <1>8. SessionsSound(m)'
    BY <1>3 DEF SessionsSound
  <1>9. AtMinor(m)'
    BY <1>5, <1>6, <1>7, <1>8 DEF AtMinor
  <1> QED
    BY <1>1, <1>2, <1>4, <1>9, MinorsSoundIf DEF Typed

\* A mount that fails undoes what it added.
LEMMA UndoSound ==
  ASSUME Typed, MinorsSound, NEW c \in Clients, session[c].at \in {"add", "insert"},
         Undo(c), UNCHANGED <<slot, maps, disks, volumeOf, mounted>>
  PROVE  MinorsSound'
  <1>1. /\ session[c].at # "idle" /\ Shape(session[c]) /\ SessionSound(c)
        /\ session[c].op = "mount"
    BY SessionAt DEF Shape
  <1>2. /\ OthersStay(c) /\ session'[c].at = "del" /\ session'[c].op = "undo"
        /\ session'[c].minor = session[c].minor
    BY <1>1, UndoDoes DEF Typed
  <1>3. SessionSound(c)'
    BY <1>1, <1>2 DEF SessionSound, NoneMounted, DestroySteps
  <1>4. Inside(c)' /\ session[c].at \notin DestroySteps
    BY <1>2 DEF Inside, DestroySteps
  <1> QED
    BY <1>1, <1>2, <1>3, <1>4, MoveSound

LEMMA AddCheckSound ==
  ASSUME Typed, MinorsSound, NEW c \in Clients, AddCheck(c)
  PROVE  MinorsSound'
  <1>1. /\ session[c].at = "add" /\ session[c].i <= Len(session[c].maps)
        /\ UNCHANGED <<slot, maps, disks, volumeOf, mounted>>
    BY DEF AddCheck, kernelVars
  <1>2. CASE Undo(c)
    BY <1>1, <1>2, UndoSound
  <1>3. CASE Goto(c, "insert")
    <2>1. Shape(session[c]) /\ SessionSound(c) /\ session[c].op = "mount"
      BY <1>1, SessionAt DEF Shape
    <2>2. /\ OthersStay(c) /\ session'[c].at = "insert" /\ session'[c].op = "mount"
          /\ session'[c].minor = session[c].minor /\ session'[c].vol = session[c].vol
          /\ session'[c].i = session[c].i
      <3>1. "insert" \in Steps /\ "insert" \in {"create", "add", "insert"}
        BY DEF Steps
      <3> QED
        BY <1>1, <1>3, <2>1, <3>1, GotoDoes DEF Typed, GoesOn
    <2>3. \A n : HeldAt(n)' = HeldAt(n)
      BY <1>1, MapsStill
    <2>4. SessionSound(c)'
      BY <1>1, <2>1, <2>2, <2>3
         DEF SessionSound, NoneMounted, Serves, Present, DestroySteps
    <2>5. Inside(c)' /\ session[c].at \notin DestroySteps
      BY <1>1, <2>2 DEF Inside, DestroySteps
    <2> QED
      BY <1>1, <2>1, <2>2, <2>4, <2>5, MoveSound
  <1> QED
    BY <1>2, <1>3 DEF AddCheck

\* While a session mounts, its gendisk is the only one of its minor.
LEMMA OnlyDisk ==
  ASSUME Typed, MinorsSound, NEW c \in Clients, session[c].at \in {"add", "insert"}
  PROVE  \A g \in disks : volumeOf[g].minor = session[c].minor =>
           volumeOf[g] = session[c].vol
  <1>1. PICK m : m = session[c].minor
    OBVIOUS
  <1>2. /\ Busy(c, m) /\ AtMinor(m) /\ OneSession(m) /\ SessionSound(c) /\ Shape(session[c])
    BY <1>1, SessionAt
  <1>3. \A d \in Clients : Busy(d, m) => session[d].at \notin {"quiesce", "drain"}
    BY <1>2 DEF OneSession
  <1>4. Serves(session[c].vol) /\ session[c].vol.minor = m
    BY <1>1, <1>2 DEF SessionSound, Shape
  <1> QED
    BY <1>1, <1>2, <1>3, <1>4 DEF AtMinor, DisksHaveOwner, Serves

LEMMA AddInsertSound ==
  ASSUME Typed, MinorsSound, NEW c \in Clients, AddInsert(c)
  PROVE  MinorsSound'
  <1>1. PICK m, v, e : m = session[c].minor /\ v = session[c].vol
                       /\ e = session[c].maps[session[c].i]
    OBVIOUS
  <1>2. session[c].at = "insert" /\ UNCHANGED <<slot, disks, dying, volumeOf, reqs, mounted>>
    BY DEF AddInsert
  <1>3. /\ m \in Minors /\ Busy(c, m) /\ OneSession(m) /\ Inside(c) /\ AtMinor(m)
        /\ Shape(session[c]) /\ SessionSound(c)
    BY <1>1, <1>2, SessionAt
  <1>4. /\ session[c].op = "mount" /\ session[c].i <= Len(session[c].maps)
    BY <1>2, <1>3 DEF Shape
  <1>5. CASE AddRefused(m, e)
    <2>1. Undo(c) /\ UNCHANGED maps
      BY <1>1, <1>5 DEF AddInsert
    <2> QED
      BY <1>2, <2>1, UndoSound
  <1>6. CASE ~AddRefused(m, e)
    <2>1. /\ v \in Volumes /\ v.minor = m /\ session[c].maps = v.maps
          /\ session[c].i \in DOMAIN v.maps /\ e \in ExtentStates /\ e = v.maps[session[c].i]
      BY <1>1, <1>2, <1>4, NextExtent DEF Typed
    <2>2. PICK i, x : i = First((1 .. MaxMaps) \ UsedSlots) /\ x = Entry(m, e)
      OBVIOUS
    <2>3. /\ maps' = [maps EXCEPT ![i] = x]
          /\ session' = [session EXCEPT ![c].at = "add", ![c].i = session[c].i + 1]
      BY <1>1, <1>6, <2>2 DEF AddInsert
    <2>4. x # NoEntry /\ x.minor = m /\ i \in (1 .. MaxMaps) \ UsedSlots
      BY <1>6, <2>1, <2>2, EntryIsUsed, FreeSlot DEF AddRefused
    <2>5. /\ HeldAt(m)' = HeldAt(m) \cup {x}
          /\ \A n : n # m => HeldAt(n)' = HeldAt(n)
      BY <2>3, <2>4, HeldAfterAdd DEF Typed
    <2>6. /\ OthersStay(c) /\ session'[c].at = "add" /\ session'[c].op = "mount"
          /\ session'[c].minor = m /\ session'[c].vol = v
          /\ session'[c].i = session[c].i + 1
      <3>1. PICK s, u : s = session[c] /\ u = session'[c]
        OBVIOUS
      <3>2. OthersStay(c)
        BY <2>3 DEF OthersStay, Typed, SessionsTyped
      <3>3. u = [s EXCEPT !.at = "add", !.i = s.i + 1]
        BY <2>3, <3>1 DEF Typed, SessionsTyped
      <3>4. /\ Shape(u) /\ u.at = "add" /\ u.op = s.op /\ u.minor = s.minor
            /\ u.vol = s.vol /\ u.maps = s.maps /\ u.i = s.i + 1 /\ u.disk = s.disk
        <4>1. Shape(s) /\ s.i <= Len(s.maps) /\ s.op = "mount"
          BY <1>3, <1>4, <3>1
        <4> QED
          BY ONLY <3>3, <4>1, EntryDone
      <3> QED
        BY <1>1, <1>4, <3>1, <3>2, <3>4
    <2>7. \A d \in Clients : (Busy(d, m)' => d = c) /\ (Busy(d, m) => d = c)
      BY <1>3, <2>6, OnlyClient
    <2>8. Serves(v) /\ NoneMounted(m) /\ \A k \in 1 .. session[c].i - 1 : Present(v, k)
      BY <1>1, <1>2, <1>3 DEF SessionSound
    <2>9. Serves(v)' /\ NoneMounted(m)'
      BY <1>2, <2>8 DEF Serves, NoneMounted
    <2>10. \A k \in 1 .. session[c].i : Present(v, k)'
      <3>1. PICK n \in Nat \ {0} : n = session[c].i
        BY <1>3 DEF Shape, SessionStates
      <3>2. \A k \in 1 .. n - 1 : Present(v, k)'
        BY <2>1, <2>5, <2>8, <3>1 DEF Present
      <3>3. Present(v, n)'
        BY <2>1, <2>2, <2>5, <3>1 DEF Present
      <3>4. \A k \in 1 .. n : k = n \/ k \in 1 .. n - 1
        OBVIOUS
      <3> QED
        BY <3>1, <3>2, <3>3, <3>4
    <2>11. SessionsSound(m)'
      <3>1. session[c].i \in Nat /\ session'[c].i - 1 = session[c].i
        BY <1>3, <2>6 DEF Shape, SessionStates
      <3> QED
        BY <2>6, <2>7, <2>9, <2>10, <3>1 DEF SessionsSound, SessionSound, DestroySteps
    <2>12. OneSession(m)' /\ SlotSound(m)'
      BY <1>2, <1>3, <2>7 DEF AtMinor, OneSession, SlotSound
    <2>13. DisksHaveOwner(m)'
      <3>1. \A d \in Clients : Busy(d, m) => session[d].at = "insert"
        BY <1>2, <2>7
      <3> QED
        BY <1>2, <1>3, <3>1 DEF AtMinor, DisksHaveOwner
    <2>14. EntriesOwn(m)'
      <3>1. \A g \in disks : volumeOf[g].minor = m => volumeOf[g] = v
        BY <1>1, <1>2, OnlyDisk
      <3> QED
        BY <1>2, <1>3, <2>1, <2>2, <2>5, <3>1 DEF AtMinor, EntriesOwn
    <2>15. MountedOnce(m)' /\ MountedServed(m)' /\ MountedMapped(m)' /\ NoneOrphan(m)'
      BY <2>1, <2>9 DEF MountedOnce, MountedServed, MountedMapped, NoneOrphan, NoneMounted,
                        Serves
    <2>16. AtMinor(m)'
      BY <2>11, <2>12, <2>13, <2>14, <2>15 DEF AtMinor
    <2> QED
      BY <1>1, <1>2, <1>3, <2>5, <2>6, <2>16, MinorsSoundIf DEF Typed
  <1> QED
    BY <1>5, <1>6

LEMMA MountDoneSound ==
  ASSUME Typed, MinorsSound, NEW c \in Clients, MountDone(c)
  PROVE  MinorsSound'
  <1>1. PICK m, v : m = session[c].minor /\ v = session[c].vol
    OBVIOUS
  <1>2. /\ session[c].at = "add" /\ session[c].i > Len(session[c].maps) /\ End(c)
        /\ mounted' = [mounted EXCEPT ![c] = @ \cup {v}]
        /\ UNCHANGED <<slot, maps, disks, dying, volumeOf, reqs>>
    BY <1>1 DEF MountDone, kernelVars
  <1>3. /\ m \in Minors /\ Busy(c, m) /\ OneSession(m) /\ Inside(c) /\ AtMinor(m)
        /\ Shape(session[c]) /\ SessionSound(c)
    BY <1>1, <1>2, SessionAt
  <1>4. /\ v \in Volumes /\ v.minor = m /\ session[c].maps = v.maps
    BY <1>1, <1>2, <1>3 DEF Shape
  <1>5. Serves(v) /\ NoneMounted(m) /\ \A k \in 1 .. session[c].i - 1 : Present(v, k)
    BY <1>1, <1>2, <1>3 DEF SessionSound
  <1>6. \A k \in DOMAIN v.maps : Present(v, k)
    <2>1. session[c].i \in Nat /\ Len(v.maps) \in Nat /\ DOMAIN v.maps = 1 .. Len(v.maps)
      BY <1>3, <1>4, VolumeFields, LenProperties DEF Shape, SessionStates
    <2> QED
      BY <1>2, <1>4, <1>5, <2>1
  <1>7. OthersStay(c) /\ ~Inside(c)'
    BY <1>2, EndDoes DEF Typed
  <1>8. /\ \A d \in Clients : ~Busy(d, m)'
        /\ \A d \in Clients : Busy(d, m) => d = c
    BY <1>3, <1>7, OnlyClient DEF Busy
  <1>9. \A n : HeldAt(n)' = HeldAt(n)
    BY <1>2, MapsStill
  <1>10. /\ \A d \in Clients : \A w : w \in mounted'[d] <=> w \in mounted[d] \/ (d = c /\ w = v)
    BY <1>2 DEF Typed, MountsTyped
  <1>11. \A d \in Clients : \A w \in mounted'[d] : w.minor = m => d = c /\ w = v
    BY <1>5, <1>10 DEF NoneMounted
  <1>12. MountedOnce(m)'
    BY <1>11 DEF MountedOnce
  <1>13. MountedServed(m)' /\ MountedMapped(m)'
    <2>1. Serves(v)' /\ \A k \in DOMAIN v.maps : Present(v, k)'
      BY <1>2, <1>5, <1>6, <1>9 DEF Serves, Present
    <2> QED
      BY <1>11, <2>1 DEF MountedServed, MountedMapped
  <1>14. OneSession(m)' /\ SlotSound(m)' /\ SessionsSound(m)' /\ EntriesOwn(m)'
    BY <1>2, <1>3, <1>8, <1>9 DEF AtMinor, OneSession, SlotSound, SessionsSound, EntriesOwn
  <1>15. DisksHaveOwner(m)' /\ NoneOrphan(m)'
    <2>1. \A d \in Clients : Busy(d, m) => session[d].at \notin DestroySteps
      BY <1>2, <1>8 DEF DestroySteps
    <2> QED
      BY <1>2, <1>3, <1>9, <2>1 DEF AtMinor, DisksHaveOwner, NoneOrphan, DestroySteps
  <1>16. AtMinor(m)'
    BY <1>12, <1>13, <1>14, <1>15 DEF AtMinor
  <1> QED
    <2>1. \A d \in Clients : \A w : w.minor # m => (w \in mounted'[d] <=> w \in mounted[d])
      BY <1>4, <1>10
    <2> QED
      BY <1>1, <1>2, <1>3, <1>7, <1>9, <1>16, <2>1, MinorsSoundIf DEF Typed

-----------------------------------------------------------------------------
(* Unmount *)

LEMMA MapDelSound ==
  ASSUME Typed, MinorsSound, NEW c \in Clients, MapDel(c)
  PROVE  MinorsSound'
  <1>1. PICK m : m = session[c].minor
    OBVIOUS
  <1>2. /\ session[c].at = "del" /\ session[c].i <= Len(session[c].maps)
        /\ \E start : maps' = MapsWithout(m, start)
        /\ session' = [session EXCEPT ![c].i = @ + 1]
        /\ UNCHANGED <<slot, disks, dying, volumeOf, reqs, mounted>>
    BY <1>1 DEF MapDel
  <1>3. /\ m \in Minors /\ Busy(c, m) /\ OneSession(m) /\ Inside(c) /\ AtMinor(m)
        /\ Shape(session[c]) /\ SessionSound(c)
    BY <1>1, <1>2, SessionAt
  <1>4. /\ HeldAt(m)' \subseteq HeldAt(m)
        /\ \A n : n # m => HeldAt(n)' = HeldAt(n)
    BY <1>2, HeldAfterDel
  <1>5. /\ OthersStay(c) /\ session'[c].at = "del" /\ session'[c].op = session[c].op
        /\ session'[c].minor = m /\ session'[c].vol = session[c].vol
    <2>1. PICK s, u : s = session[c] /\ u = session'[c]
      OBVIOUS
    <2>2. OthersStay(c)
      BY <1>2 DEF OthersStay, Typed, SessionsTyped
    <2>3. u = [s EXCEPT !.i = s.i + 1]
      BY <1>2, <2>1 DEF Typed, SessionsTyped
    <2>4. /\ u.at = s.at /\ u.op = s.op /\ u.minor = s.minor /\ u.vol = s.vol
      BY <1>2, <1>3, <2>1, <2>3, EntryDeleted
    <2> QED
      BY <1>1, <1>2, <2>1, <2>2, <2>4
  <1>6. \A d \in Clients : (Busy(d, m)' <=> d = c) /\ (Busy(d, m) <=> d = c)
    BY <1>3, <1>5, OnlyClient DEF Busy, Inside
  <1>7. OneSession(m)' /\ SlotSound(m)' /\ MountedOnce(m)'
    BY <1>2, <1>3, <1>6 DEF AtMinor, OneSession, SlotSound, MountedOnce
  <1>8. DisksHaveOwner(m)' /\ EntriesOwn(m)' /\ NoneOrphan(m)' /\ MountedServed(m)'
    <2>1. \A d \in Clients : Busy(d, m) => session[d].at \notin DestroySteps
      BY <1>2, <1>6 DEF DestroySteps
    <2> QED
      BY <1>2, <1>3, <1>4, <2>1
         DEF AtMinor, DisksHaveOwner, EntriesOwn, NoneOrphan, MountedServed, Serves,
             DestroySteps
  <1>9. SessionsSound(m)'
    BY <1>1, <1>2, <1>3, <1>5, <1>6
       DEF SessionsSound, SessionSound, NoneMounted, DestroySteps
  <1>10. MountedMapped(m)'
    <2>1. CASE session[c].op = "unmount"
      <3>1. session[c].vol \in mounted[c] /\ session[c].vol.minor = m
        BY <1>1, <1>3, <2>1 DEF SessionSound, Shape
      <3>2. \A d \in Clients : \A v \in mounted[d] : v.minor = m => d = c
        BY <1>3, <3>1 DEF AtMinor, MountedOnce
      <3> QED
        BY <1>2, <1>5, <1>6, <2>1, <3>2 DEF MountedMapped
    <2>2. CASE session[c].op # "unmount"
      <3>1. session[c].op \in {"undo", "cleanup"}
        BY <1>2, <1>3, <2>2 DEF Shape, SessionStates
      <3>2. NoneMounted(m)
        BY <1>1, <1>3, <3>1 DEF SessionSound
      <3> QED
        BY <1>2, <3>2 DEF MountedMapped, NoneMounted
    <2> QED
      BY <2>1, <2>2
  <1>11. AtMinor(m)'
    BY <1>7, <1>8, <1>9, <1>10 DEF AtMinor
  <1> QED
    BY <1>1, <1>2, <1>3, <1>4, <1>5, <1>11, MinorsSoundIf DEF Typed

LEMMA DestroyBeginSound ==
  ASSUME Typed, MinorsSound, NEW c \in Clients, DestroyBegin(c)
  PROVE  MinorsSound'
  <1>1. PICK m : m = session[c].minor
    OBVIOUS
  <1>2. /\ session[c].at = "del" /\ slot[m].active
        /\ slot' = [slot EXCEPT ![m] = NoSlot]
        /\ UNCHANGED <<maps, disks, dying, volumeOf, reqs, mounted>>
    BY <1>1, DestroyBeginDoes
  <1>3. /\ OthersStay(c) /\ session'[c].at = "quiesce" /\ session'[c].op = session[c].op
        /\ session'[c].minor = m /\ session'[c].vol = session[c].vol
        /\ session'[c].disk = slot[m].disk
    BY <1>1, DestroyBeginDoes DEF GoesOn
  <1>4. /\ m \in Minors /\ Busy(c, m) /\ OneSession(m) /\ Inside(c) /\ AtMinor(m)
        /\ SessionSound(c)
    BY <1>1, <1>2, SessionAt
  <1>5. \A d \in Clients : (Busy(d, m)' <=> d = c) /\ (Busy(d, m) <=> d = c)
    BY <1>3, <1>4, OnlyClient DEF Busy, Inside
  <1>6. \A n : HeldAt(n)' = HeldAt(n)
    BY <1>2, MapsStill
  <1>7. ~slot'[m].active /\ \A n \in Minors \ {m} : slot'[n] = slot[n]
    BY <1>2, <1>4 DEF Typed, SlotsTyped, NoSlot
  <1>8. slot[m].disk \in disks /\ volumeOf[slot[m].disk].minor = m
    BY <1>2, <1>4 DEF AtMinor, SlotSound
  <1>9. OneSession(m)' /\ SlotSound(m)' /\ MountedOnce(m)' /\ EntriesOwn(m)'
    BY <1>2, <1>4, <1>5, <1>6, <1>7
       DEF AtMinor, OneSession, SlotSound, MountedOnce, EntriesOwn
  <1>10. DisksHaveOwner(m)'
    BY <1>2, <1>3, <1>4, <1>5 DEF AtMinor, DisksHaveOwner
  <1>11. MountedServed(m)' /\ NoneOrphan(m)'
    BY <1>3, <1>5 DEF MountedServed, NoneOrphan, DestroySteps
  <1>12. MountedMapped(m)'
    BY <1>2, <1>3, <1>4, <1>5, <1>6 DEF AtMinor, MountedMapped, Present
  <1>13. SessionsSound(m)'
    BY <1>1, <1>2, <1>3, <1>4, <1>5, <1>7, <1>8
       DEF SessionsSound, SessionSound, NoneMounted
  <1>14. AtMinor(m)'
    BY <1>9, <1>10, <1>11, <1>12, <1>13 DEF AtMinor
  <1> QED
    BY <1>1, <1>2, <1>3, <1>4, <1>6, <1>7, <1>14, MinorsSoundIf DEF Typed

LEMMA QuiesceSound ==
  ASSUME Typed, MinorsSound, NEW c \in Clients, Quiesce(c)
  PROVE  MinorsSound'
  <1>1. /\ session[c].at = "quiesce" /\ Goto(c, "drain")
        /\ UNCHANGED <<slot, maps, disks, volumeOf, reqs, mounted>>
    BY DEF Quiesce
  <1>2. SessionSound(c) /\ session[c].at \in DestroySteps /\ session[c].at # "idle"
    BY <1>1, SessionAt DEF DestroySteps
  <1>3. /\ OthersStay(c) /\ session'[c].at = "drain" /\ session'[c].op = session[c].op
        /\ session'[c].minor = session[c].minor /\ session'[c].vol = session[c].vol
        /\ session'[c].disk = session[c].disk
    BY <1>1, DestroyGoesOn DEF DestroySteps, GoesOn
  <1>4. SessionSound(c)' /\ Inside(c)' /\ session'[c].at \in DestroySteps
    BY <1>1, <1>2, <1>3 DEF SessionSound, NoneMounted, DestroySteps, Inside
  <1> QED
    BY <1>1, <1>2, <1>3, <1>4, MoveSound

LEMMA DrainSound ==
  ASSUME Typed, MinorsSound, NEW c \in Clients, Drain(c)
  PROVE  MinorsSound'
  <1>1. PICK m, g : m = session[c].minor /\ g = session[c].disk
    OBVIOUS
  <1>2. /\ session[c].at = "drain" /\ Goto(c, "reset") /\ disks' = disks \ {g}
        /\ UNCHANGED <<slot, maps, volumeOf, reqs, mounted>>
    BY <1>1 DEF Drain
  <1>3. /\ m \in Minors /\ Busy(c, m) /\ OneSession(m) /\ Inside(c) /\ AtMinor(m)
        /\ SessionSound(c) /\ session[c].at \in DestroySteps
    BY <1>1, <1>2, SessionAt DEF DestroySteps
  <1>4. /\ OthersStay(c) /\ session'[c].at = "reset" /\ session'[c].op = session[c].op
        /\ session'[c].minor = m /\ session'[c].vol = session[c].vol
    BY <1>1, <1>2, <1>3, DestroyGoesOn DEF DestroySteps, GoesOn
  <1>5. \A d \in Clients : (Busy(d, m)' <=> d = c) /\ (Busy(d, m) <=> d = c)
    BY <1>3, <1>4, OnlyClient DEF Busy, Inside
  <1>6. /\ ~slot[m].active /\ volumeOf[g].minor = m
        /\ \A h \in disks : volumeOf[h].minor = m => h = g
    BY <1>1, <1>2, <1>3, <1>5 DEF SessionSound, AtMinor, DisksHaveOwner
  <1>7. \A n : HeldAt(n)' = HeldAt(n)
    BY <1>2, MapsStill
  <1>8. OneSession(m)' /\ SlotSound(m)' /\ MountedOnce(m)' /\ EntriesOwn(m)'
        /\ DisksHaveOwner(m)'
    BY <1>2, <1>3, <1>5, <1>6
       DEF AtMinor, OneSession, SlotSound, MountedOnce, EntriesOwn, DisksHaveOwner
  <1>9. MountedServed(m)' /\ NoneOrphan(m)'
    BY <1>4, <1>5 DEF MountedServed, NoneOrphan, DestroySteps
  <1>10. MountedMapped(m)'
    BY <1>2, <1>3, <1>4, <1>5, <1>7 DEF AtMinor, MountedMapped, Present
  <1>11. SessionsSound(m)'
    BY <1>1, <1>2, <1>3, <1>4, <1>5, <1>6
       DEF SessionsSound, SessionSound, NoneMounted
  <1>12. AtMinor(m)'
    BY <1>8, <1>9, <1>10, <1>11 DEF AtMinor
  <1> QED
    BY <1>1, <1>2, <1>3, <1>4, <1>6, <1>7, <1>12, MinorsSoundIf DEF Typed

\* Once its gendisk is drained, a destroy is at a minor with no gendisk.
LEMMA NoDiskLeft ==
  ASSUME Typed, MinorsSound, NEW c \in Clients, session[c].at \in {"reset", "clear"}
  PROVE  /\ ~slot[session[c].minor].active
         /\ \A g \in disks : volumeOf[g].minor # session[c].minor
  <1>1. PICK m : m = session[c].minor
    OBVIOUS
  <1>2. Busy(c, m) /\ OneSession(m) /\ AtMinor(m) /\ SessionSound(c)
    BY <1>1, SessionAt
  <1>3. ~slot[m].active
    BY <1>1, <1>2 DEF SessionSound, DestroySteps
  <1>4. \A d \in Clients : Busy(d, m) => session[d].at \notin {"quiesce", "drain"}
    BY <1>2 DEF OneSession
  <1> QED
    BY <1>1, <1>2, <1>3, <1>4 DEF AtMinor, DisksHaveOwner

LEMMA ResetSound ==
  ASSUME Typed, MinorsSound, NEW c \in Clients, Reset(c)
  PROVE  MinorsSound'
  <1>1. PICK m : m = session[c].minor
    OBVIOUS
  <1>2. /\ session[c].at = "reset" /\ Goto(c, "clear")
        /\ slot' = [slot EXCEPT ![m] = NoSlot]
        /\ UNCHANGED <<maps, disks, volumeOf, reqs, mounted>>
    BY <1>1 DEF Reset
  <1>3. /\ m \in Minors /\ Busy(c, m) /\ OneSession(m) /\ Inside(c) /\ AtMinor(m)
        /\ SessionSound(c) /\ session[c].at \in DestroySteps
    BY <1>1, <1>2, SessionAt DEF DestroySteps
  <1>4. /\ OthersStay(c) /\ session'[c].at = "clear" /\ session'[c].op = session[c].op
        /\ session'[c].minor = m /\ session'[c].vol = session[c].vol
    BY <1>1, <1>2, <1>3, DestroyGoesOn DEF DestroySteps, GoesOn
  <1>5. \A d \in Clients : (Busy(d, m)' <=> d = c) /\ (Busy(d, m) <=> d = c)
    BY <1>3, <1>4, OnlyClient DEF Busy, Inside
  <1>6. \A g \in disks : volumeOf[g].minor # m
    BY <1>1, <1>2, NoDiskLeft
  <1>7. \A n : HeldAt(n)' = HeldAt(n)
    BY <1>2, MapsStill
  <1>8. ~slot'[m].active /\ \A n \in Minors \ {m} : slot'[n] = slot[n]
    BY <1>2, <1>3 DEF Typed, SlotsTyped, NoSlot
  <1>9. OneSession(m)' /\ SlotSound(m)' /\ MountedOnce(m)' /\ EntriesOwn(m)'
        /\ DisksHaveOwner(m)'
    BY <1>2, <1>3, <1>5, <1>6, <1>8
       DEF AtMinor, OneSession, SlotSound, MountedOnce, EntriesOwn, DisksHaveOwner
  <1>10. MountedServed(m)' /\ NoneOrphan(m)'
    BY <1>4, <1>5 DEF MountedServed, NoneOrphan, DestroySteps
  <1>11. MountedMapped(m)'
    BY <1>2, <1>3, <1>4, <1>5, <1>7 DEF AtMinor, MountedMapped, Present
  <1>12. SessionsSound(m)'
    BY <1>1, <1>2, <1>3, <1>4, <1>5, <1>8
       DEF SessionsSound, SessionSound, NoneMounted
  <1>13. AtMinor(m)'
    BY <1>9, <1>10, <1>11, <1>12 DEF AtMinor
  <1> QED
    BY <1>1, <1>2, <1>3, <1>4, <1>7, <1>8, <1>13, MinorsSoundIf DEF Typed

LEMMA ClearSound ==
  ASSUME Typed, MinorsSound, NEW c \in Clients, Clear(c)
  PROVE  MinorsSound'
  <1>1. PICK m : m = session[c].minor
    OBVIOUS
  <1>2. /\ session[c].at = "clear" /\ End(c) /\ maps' = MapsCleared(m)
        /\ mounted' = [mounted EXCEPT ![c] =
             IF session[c].op = "unmount" THEN @ \ {session[c].vol} ELSE @]
        /\ UNCHANGED <<slot, disks, dying, volumeOf, reqs>>
    BY <1>1 DEF Clear
  <1>3. /\ m \in Minors /\ Busy(c, m) /\ OneSession(m) /\ Inside(c) /\ AtMinor(m)
        /\ SessionSound(c) /\ Shape(session[c])
    BY <1>1, <1>2, SessionAt
  <1>4. OthersStay(c) /\ ~Inside(c)'
    BY <1>2, EndDoes DEF Typed
  <1>5. \A d \in Clients : ~Busy(d, m)'
    BY <1>3, <1>4, OnlyClient DEF Busy
  <1>6. ~slot[m].active /\ \A g \in disks : volumeOf[g].minor # m
    BY <1>1, <1>2, NoDiskLeft
  <1>7. HeldAt(m)' = {} /\ \A n : n # m => HeldAt(n)' = HeldAt(n)
    BY <1>2, HeldAfterClear
  <1>8. \A d \in Clients : \A v :
          v \in mounted'[d] <=>
            v \in mounted[d] /\ ~(d = c /\ session[c].op = "unmount" /\ v = session[c].vol)
    BY <1>2 DEF Typed, MountsTyped
  <1>9. NoneMounted(m)'
    <2>1. CASE session[c].op = "unmount"
      <3>1. session[c].vol \in mounted[c] /\ session[c].vol.minor = m
        BY <1>1, <1>3, <2>1 DEF SessionSound, Shape
      <3>2. \A d \in Clients : \A v \in mounted[d] :
              v.minor = m => d = c /\ v = session[c].vol
        BY <1>3, <3>1 DEF AtMinor, MountedOnce
      <3> QED
        BY <1>8, <2>1, <3>2 DEF NoneMounted
    <2>2. CASE session[c].op # "unmount"
      <3>1. session[c].op \in {"undo", "cleanup"}
        BY <1>2, <1>3, <2>2 DEF Shape, SessionStates
      <3>2. NoneMounted(m)
        BY <1>1, <1>3, <3>1 DEF SessionSound
      <3> QED
        BY <1>8, <3>2 DEF NoneMounted
    <2> QED
      BY <2>1, <2>2
  <1>10. AtMinor(m)'
    BY <1>2, <1>5, <1>6, <1>7, <1>9
       DEF AtMinor, OneSession, SlotSound, DisksHaveOwner, SessionsSound, MountedOnce,
           MountedServed, MountedMapped, EntriesOwn, NoneOrphan, NoneMounted
  <1>11. \A d \in Clients : \A v : v.minor # m => (v \in mounted'[d] <=> v \in mounted[d])
    BY <1>1, <1>3, <1>8 DEF Shape
  <1> QED
    BY <1>1, <1>2, <1>3, <1>4, <1>7, <1>10, <1>11, MinorsSoundIf DEF Typed

-----------------------------------------------------------------------------
(* Requests go to their own extents *)

LEMMA ReqsStill ==
  ASSUME Typed, OwnExtentsOnly, UNCHANGED reqs,
         \A g \in DOMAIN volumeOf : volumeOf'[g] = volumeOf[g]
  PROVE  OwnExtentsOnly'
  <1> SUFFICES ASSUME NEW r \in Reqs, reqs[r].st = "device"
               PROVE  \A k \in 0 .. reqs[r].chunk - 1 :
                        [reqs[r].place EXCEPT !.phys = @ + k]
                          \in Home(volumeOf'[reqs[r].disk], reqs[r].pos + k)
    BY DEF OwnExtentsOnly
  <1>1. reqs[r].disk \in DOMAIN volumeOf
    BY ReqShape
  <1> QED
    BY <1>1 DEF OwnExtentsOnly

\* A step that changes one request.
LEMMA ReqOnlyHome ==
  ASSUME Typed, OwnExtentsOnly, NEW r \in Reqs, NEW q,
         reqs' = [reqs EXCEPT ![r] = q], UNCHANGED volumeOf,
         q.st = "device" =>
           \A k \in 0 .. q.chunk - 1 :
             [q.place EXCEPT !.phys = @ + k] \in Home(volumeOf[q.disk], q.pos + k)
  PROVE  OwnExtentsOnly'
  <1>1. reqs'[r] = q /\ \A p \in Reqs \ {r} : reqs'[p] = reqs[p]
    BY DEF Typed, ReqsTyped
  <1> SUFFICES ASSUME NEW p \in Reqs, reqs'[p].st = "device"
               PROVE  \A k \in 0 .. reqs'[p].chunk - 1 :
                        [reqs'[p].place EXCEPT !.phys = @ + k]
                          \in Home(volumeOf[reqs'[p].disk], reqs'[p].pos + k)
    BY DEF OwnExtentsOnly, Home
  <1>2. CASE p = r
    BY <1>1, <1>2
  <1>3. CASE p # r
    BY <1>1, <1>3 DEF OwnExtentsOnly
  <1> QED
    BY <1>2, <1>3

\* A chunk further on is where its extent puts its sectors.
LEMMA PlaceMoves ==
  ASSUME NEW f \in ExtentStates, NEW pos \in Nat, NEW k \in Nat, NEW p,
         p = Place(f, pos), f.start <= pos
  PROVE  [p EXCEPT !.phys = @ + k] = Place(f, pos + k)
  <1>1. f.phys \in Nat /\ f.start \in Nat
    BY DEF ExtentStates
  <1>2. PICK a, b : a = f.dev /\ b = f.phys + (pos - f.start)
    OBVIOUS
  <1>3. p = [dev |-> a, phys |-> b] /\ b \in Nat
    BY <1>1, <1>2 DEF Place
  <1>4. f.phys + ((pos + k) - f.start) = b + k
    BY <1>1, <1>2
  <1>5. Place(f, pos + k) = [dev |-> a, phys |-> b + k]
    BY <1>2, <1>4 DEF Place
  <1>6. [p EXCEPT !.phys = @ + k] = [dev |-> a, phys |-> b + k]
    BY <1>3
  <1> QED
    BY <1>5, <1>6

\* A translation puts a chunk into the volume the gendisk is for.
LEMMA TranslateHome ==
  ASSUME Typed, MinorsSound, NEW q \in ReqStates, q.disk \in disks, NEW v \in Volumes,
         volumeOf[q.disk] = v, Mapped(v.minor, q.pos)
  PROVE  \A k \in 0 .. ChunkLen(q, v.minor) - 1 :
           [Translate(v.minor, q.pos) EXCEPT !.phys = @ + k] \in Home(v, q.pos + k)
  <1>1. PICK m \in Minors : m = v.minor
    BY VolumeFields
  <1>2. PICK x : x = maps[First(SlotsHit(m, q.pos))]
    OBVIOUS
  <1>3. q.pos \in Nat
    BY DEF ReqStates
  <1>4. First(SlotsHit(m, q.pos)) \in UsedSlots /\ x.minor = m
    BY <1>1, <1>2, <1>3, HitIsExtent DEF Typed
  <1>5. x \in HeldAt(m)
    BY <1>2, <1>4 DEF HeldAt, SlotsOf
  <1>6. PICK j \in DOMAIN v.maps : x = Entry(m, v.maps[j])
    BY <1>1, <1>5 DEF MinorsSound, AtMinor, EntriesOwn
  <1>7. PICK f \in ExtentStates : f = v.maps[j]
    BY VolumeFields
  <1>8. /\ x = Entry(m, f) /\ x.start = f.start /\ x.dev = f.dev /\ x.phys = f.phys
    BY <1>6, <1>7, EntryIsUsed
  <1>9. /\ \A k \in 0 .. ChunkLen(q, m) - 1 :
             f.start <= q.pos + k /\ (q.pos + k) - f.start < f.len
        /\ ChunkLen(q, m) \in 1 .. q.left /\ q.left \in Nat
    BY <1>1, <1>2, <1>8, ChunkFits DEF Typed, ReqStates
  <1>10. f.start <= q.pos
    <2>1. 0 \in 0 .. ChunkLen(q, m) - 1
      BY <1>9
    <2>2. f.start <= q.pos + 0
      BY <1>9, <2>1
    <2> QED
      BY <1>3, <2>2
  <1>11. PICK p : p = Translate(m, q.pos)
    OBVIOUS
  <1>12. p = Place(f, q.pos)
    BY <1>2, <1>8, <1>11 DEF Translate, Place
  <1> SUFFICES ASSUME NEW k \in 0 .. ChunkLen(q, m) - 1
               PROVE  [p EXCEPT !.phys = @ + k] \in Home(v, q.pos + k)
    BY <1>1, <1>11
  <1>13. k \in Nat
    BY <1>9
  <1>14. [p EXCEPT !.phys = @ + k] = Place(f, q.pos + k)
    BY <1>3, <1>10, <1>12, <1>13, PlaceMoves
  <1>15. Place(f, q.pos + k) \in Home(v, q.pos + k)
    BY <1>7, <1>9 DEF Home
  <1> QED
    BY <1>14, <1>15

LEMMA WorkHome ==
  ASSUME Typed, MinorsSound, OwnExtentsOnly, NEW r \in Reqs, WorkStep(r)
  PROVE  OwnExtentsOnly'
  <1>1. reqs[r].st # "free" /\ UNCHANGED volumeOf
    BY DEF WorkStep, WorkStart, WorkTranslate, DeviceDone, DeviceFails, kernelVars
  <1>2. PICK q : q = reqs[r]
    OBVIOUS
  <1>3. /\ q \in ReqStates /\ q.disk \in disks /\ volumeOf[q.disk] \in Volumes
        /\ q.st = "device" => q.chunk \in 1 .. q.left
    BY <1>1, <1>2, ReqShape
  <1>4. ASSUME NEW t, reqs' = [reqs EXCEPT ![r] = t], t.st # "device"
        PROVE  OwnExtentsOnly'
    BY <1>1, <1>4, ReqOnlyHome
  <1>5. CASE Finish(r)
    <2>1. PICK t : t = NoReq
      OBVIOUS
    <2>2. t.st # "device"
      BY <2>1 DEF NoReq
    <2> QED
      BY <1>4, <1>5, <2>1, <2>2 DEF Finish
  <1>6. CASE reqs' = [reqs EXCEPT ![r].st = "translate"]
    <2>1. PICK t : t = [q EXCEPT !.st = "translate"]
      OBVIOUS
    <2>2. t.st = "translate"
      BY <1>3, <2>1, ReqAt
    <2>3. reqs' = [reqs EXCEPT ![r] = t]
      BY <1>2, <1>6, <2>1
    <2> QED
      BY <1>4, <2>2, <2>3
  <1>7. CASE WorkTranslate(r) /\ ~Finish(r)
    <2>1. PICK v \in Volumes : v = volumeOf[q.disk]
      BY <1>3
    <2>2. PICK p, n : p = Translate(v.minor, q.pos) /\ n = ChunkLen(q, v.minor)
      OBVIOUS
    <2>3. /\ Mapped(v.minor, q.pos)
          /\ reqs' = [reqs EXCEPT ![r].st = "device", ![r].place = p, ![r].chunk = n]
      BY <1>2, <1>7, <2>1, <2>2 DEF WorkTranslate
    <2>4. PICK t : t = [q EXCEPT !.st = "device", !.place = p, !.chunk = n]
      OBVIOUS
    <2>5. t.disk = q.disk /\ t.pos = q.pos /\ t.place = p /\ t.chunk = n
      BY <1>3, <2>4 DEF ReqStates
    <2>6. reqs' = [reqs EXCEPT ![r] = t]
      BY <1>2, <2>3, <2>4
    <2>7. \A k \in 0 .. n - 1 : [p EXCEPT !.phys = @ + k] \in Home(v, q.pos + k)
      BY <1>3, <2>1, <2>2, <2>3, TranslateHome
    <2>8. \A k \in 0 .. t.chunk - 1 :
            [t.place EXCEPT !.phys = @ + k] \in Home(volumeOf[t.disk], t.pos + k)
      BY <2>1, <2>5, <2>7
    <2> QED
      BY <1>1, <2>6, <2>8, ReqOnlyHome
  <1>8. CASE DeviceDone(r) /\ ~Finish(r)
    <2>1. PICK t : t = Rest(q)
      OBVIOUS
    <2>2. reqs' = [reqs EXCEPT ![r] = t] /\ q.left > q.chunk /\ q.st = "device"
      BY <1>2, <1>8, <2>1 DEF DeviceDone
    <2>3. t.st = "translate"
      BY <1>3, <2>1, <2>2, ReqRest
    <2> QED
      BY <1>4, <2>2, <2>3
  <1> QED
    BY <1>5, <1>6, <1>7, <1>8 DEF WorkStep, WorkStart, DeviceFails

-----------------------------------------------------------------------------
(* The theorems *)

Sound == Typed /\ MinorsSound /\ OwnExtentsOnly

LEMMA SoundInit == Init => Sound
  <1> SUFFICES ASSUME Init
               PROVE  Sound
    OBVIOUS
  <1>1. Typed
    BY TypedInit
  <1>2. OwnExtentsOnly
    BY DEF Init, OwnExtentsOnly, NoReq
  <1>3. ASSUME NEW m \in Minors
        PROVE  AtMinor(m)
    <2>1. /\ \A c \in Clients : ~Busy(c, m)
          /\ disks = {} /\ slot[m] = NoSlot /\ \A c \in Clients : mounted[c] = {}
      BY DEF Init, Busy, Inside, Idle
    <2>2. HeldAt(m) = {}
      BY DEF Init, HeldAt, SlotsOf, UsedSlots
    <2> QED
      BY <2>1, <2>2 DEF AtMinor, OneSession, SlotSound, DisksHaveOwner, SessionsSound,
         MountedOnce, MountedServed, MountedMapped, EntriesOwn, NoneOrphan, NoSlot
  <1> QED
    BY <1>1, <1>2, <1>3 DEF Sound, MinorsSound

LEMMA SessionStepSound ==
  ASSUME Typed, MinorsSound, NEW c \in Clients, SessionStep(c)
  PROVE  /\ MinorsSound' /\ UNCHANGED reqs
         /\ \A g \in DOMAIN volumeOf : volumeOf'[g] = volumeOf[g]
  <1>1. MinorsSound'
    BY EndSound, CreateFailsSound, CreateSound, AddCheckSound, AddInsertSound,
       MountDoneSound, MapDelSound, DestroyBeginSound, QuiesceSound, DrainSound,
       ResetSound, ClearSound DEF SessionStep
  <1>2. UNCHANGED reqs
    BY DEF SessionStep, CreateBusy, CreateFails, Create, AddCheck, AddInsert, MountDone,
           MapDel, DestroyMissing, DestroyBegin, Quiesce, Drain, Reset, Clear
  <1>3. CASE Create(c)
    <2>1. PICK v \in Volumes : v = session[c].vol
      BY <1>3, SessionAt DEF Create, Shape
    <2>2. volumeOf' = Append(volumeOf, v)
      BY <1>3, <2>1 DEF Create
    <2> QED
      BY <1>1, <1>2, <2>2, NextGenIs DEF Typed
  <1>4. CASE ~Create(c)
    <2>1. UNCHANGED volumeOf
      BY <1>4 DEF SessionStep, CreateBusy, CreateFails, AddCheck, AddInsert, MountDone,
                  MapDel, DestroyMissing, DestroyBegin, Quiesce, Drain, Reset, Clear,
                  kernelVars
    <2> QED
      BY <1>1, <1>2, <2>1
  <1> QED
    BY <1>3, <1>4

LEMMA SoundNext ==
  ASSUME Serial, Sound, [Next]_vars
  PROVE  Sound'
  <1>1. Typed /\ Typed' /\ MinorsSound /\ OwnExtentsOnly
    BY TypedNext DEF Sound
  <1>2. ASSUME UNCHANGED <<slot, maps, disks, volumeOf, session, mounted>>
        PROVE  MinorsSound'
    <2> SUFFICES ASSUME NEW m \in Minors
                 PROVE  AtMinor(m)'
      BY DEF MinorsSound
    <2>1. AtMinor(m) /\ \A n : HeldAt(n)' = HeldAt(n)
      BY <1>1, <1>2, MapsStill DEF MinorsSound
    <2>2. \A d \in Clients : Busy(d, m)' <=> Busy(d, m)
      BY <1>2 DEF Busy, Inside
    <2>3. OneSession(m)' /\ SlotSound(m)' /\ MountedOnce(m)' /\ EntriesOwn(m)'
      BY <1>2, <2>1, <2>2 DEF AtMinor, OneSession, SlotSound, MountedOnce, EntriesOwn
    <2>4. DisksHaveOwner(m)' /\ NoneOrphan(m)' /\ MountedServed(m)' /\ MountedMapped(m)'
      BY <1>2, <2>1, <2>2
         DEF AtMinor, DisksHaveOwner, NoneOrphan, MountedServed, MountedMapped, Serves,
             Present
    <2>5. SessionsSound(m)'
      BY <1>2, <2>1, <2>2
         DEF AtMinor, SessionsSound, SessionSound, Serves, NoneMounted, Present
    <2> QED
      BY <2>3, <2>4, <2>5 DEF AtMinor
  <1>3. ASSUME NEW c \in Clients,
               \/ \E v \in Volumes : StartMount(c, v)
               \/ \E v \in mounted[c] : StartUnmount(c, v)
               \/ \E m \in Minors : StartCleanup(c, m)
        PROVE  Sound'
    <2>1. UNCHANGED reqs /\ UNCHANGED volumeOf
      BY <1>3 DEF StartMount, StartUnmount, StartCleanup, kernelVars
    <2> QED
      BY <1>1, <1>3, <2>1, StartSound, ReqsStill DEF Sound
  <1>4. ASSUME NEW c \in Clients, SessionStep(c)
        PROVE  Sound'
    BY <1>1, <1>4, SessionStepSound, ReqsStill DEF Sound
  <1>5. ASSUME NEW c \in Clients, Crash(c)
        PROVE  Sound'
    <2>1. UNCHANGED reqs /\ UNCHANGED volumeOf
      BY <1>5 DEF Crash, kernelVars
    <2> QED
      BY <1>1, <1>5, <2>1, EndSound, ReqsStill DEF Sound
  <1>6. ASSUME NEW r \in Reqs, NEW g \in disks, NEW pos \in 0 .. volumeOf[g].cap - 1,
               NEW len \in 1 .. volumeOf[g].cap - pos, Submit(r, g, pos, len)
        PROVE  Sound'
    <2>1. PICK q : q = [st |-> "queued", disk |-> g, pos |-> pos, left |-> len,
                        chunk |-> 0, place |-> Nowhere]
      OBVIOUS
    <2>2. q.st # "device"
      BY <2>1
    <2>3. /\ reqs' = [reqs EXCEPT ![r] = q]
          /\ UNCHANGED <<slot, maps, disks, volumeOf, session, mounted>>
      BY <1>6, <2>1 DEF Submit, kernelVars
    <2> QED
      BY <1>1, <1>2, <2>2, <2>3, ReqOnlyHome DEF Sound
  <1>7. ASSUME NEW r \in Reqs, WorkStep(r)
        PROVE  Sound'
    <2>1. UNCHANGED <<slot, maps, disks, volumeOf, session, mounted>>
      BY <1>7 DEF WorkStep, WorkStart, WorkTranslate, DeviceDone, DeviceFails, kernelVars
    <2> QED
      BY <1>1, <1>2, <1>7, <2>1, WorkHome DEF Sound
  <1>8. CASE UNCHANGED vars
    <2>1. UNCHANGED <<slot, maps, disks, volumeOf, session, mounted>> /\ UNCHANGED reqs
      BY <1>8 DEF vars
    <2> QED
      BY <1>1, <1>2, <2>1, ReqsStill DEF Sound
  <1> QED
    BY <1>3, <1>4, <1>5, <1>6, <1>7, <1>8 DEF Next

LEMMA SpecSound == ASSUME Serial PROVE Spec => []Sound
  <1>1. Sound /\ [Next]_vars => Sound'
    BY SoundNext
  <1> QED
    BY <1>1, SoundInit, PTL DEF Spec

\* Every registered gendisk is its slot's, or that of a destroy that is going
\* on: however mounts fail and processes die, none is left that no ioctl of
\* the kernel module reaches.
THEOREM NoDiskIsLost == ASSUME Serial PROVE Spec => []DisksOwned
  <1>1. Sound => DisksOwned
    <2> SUFFICES ASSUME Sound, NEW g \in disks
                 PROVE  \/ slot[volumeOf[g].minor] = [active |-> TRUE, disk |-> g]
                        \/ \E c \in Clients : Inside(c) /\ session[c].disk = g
      BY DEF DisksOwned
    <2>1. PICK m \in Minors : m = volumeOf[g].minor
      <3>1. volumeOf[g] \in Volumes
        BY LenProperties, ElementOfSeq DEF Sound, Typed, DisksTyped
      <3> QED
        BY <3>1, VolumeFields
    <2>2. \/ slot[m].active /\ slot[m].disk = g
          \/ \E c \in Clients : Busy(c, m) /\ session[c].disk = g
      BY <2>1 DEF Sound, MinorsSound, AtMinor, DisksHaveOwner
    <2>3. slot[m] \in [active : BOOLEAN, disk : Gens \cup {0}]
      BY DEF Sound, Typed, SlotsTyped
    <2> QED
      BY <2>1, <2>2, <2>3 DEF Busy
  <1> QED
    BY <1>1, SpecSound, PTL

\* The map table holds entries only of minors with a device, or whose destroy
\* is about to clear them: no mount finds entries of a volume that is gone.
THEOREM NoEntryIsLeft == ASSUME Serial PROVE Spec => []NoOrphanMaps
  <1>1. Sound => NoOrphanMaps
    <2> SUFFICES ASSUME Sound, NEW i \in UsedSlots
                 PROVE  slot[maps[i].minor].active \/ Destroying(maps[i].minor)
      BY DEF NoOrphanMaps
    <2>1. PICK m \in Minors : m = maps[i].minor
      <3>1. PICK v \in Volumes : \E k \in DOMAIN v.maps : maps[i] = Entry(v.minor, v.maps[k])
        BY DEF UsedSlots, Sound, Typed, MapsTyped, IsEntry
      <3>2. maps[i].minor = v.minor
        BY <3>1, VolumeFields, EntryIsUsed
      <3> QED
        BY <3>2, VolumeFields
    <2>2. HeldAt(m) # {}
      BY <2>1 DEF HeldAt, SlotsOf
    <2>3. \/ slot[m].active
          \/ \E c \in Clients : Busy(c, m) /\ session[c].at \in DestroySteps
      BY <2>2 DEF Sound, MinorsSound, AtMinor, NoneOrphan
    <2> QED
      BY <2>1, <2>3 DEF Destroying, Busy, DestroySteps
  <1> QED
    BY <1>1, SpecSound, PTL

\* No request writes or reads outside the extents of the volume it was made
\* to, whatever was mounted and unmounted since it was submitted.
THEOREM IoStaysInItsVolume == ASSUME Serial PROVE Spec => []OwnExtentsOnly
  <1>1. Sound => OwnExtentsOnly
    BY DEF Sound
  <1> QED
    BY <1>1, SpecSound, PTL

\* A mounted volume is the one its minor serves, and each of its sectors
\* translates to where its extents put it.
THEOREM MountedVolumesTranslate == ASSUME Serial PROVE Spec => []MountedMapsExact
  <1>1. Sound => MountedMapsExact
    <2> SUFFICES ASSUME Sound, NEW c \in Clients, NEW v \in mounted[c],
                        ~(Inside(c) /\ session[c].op = "unmount" /\ session[c].vol = v)
                 PROVE  /\ slot[v.minor].active
                        /\ volumeOf[slot[v.minor].disk] = v
                        /\ \A sector \in 0 .. v.cap - 1 :
                             /\ Mapped(v.minor, sector)
                             /\ Translate(v.minor, sector) \in Home(v, sector)
      BY DEF MountedMapsExact
    <2>1. v \in Volumes /\ v.minor \in Minors
      BY VolumesAssumption DEF Sound, Typed, MountsTyped
    <2>2. PICK m \in Minors : m = v.minor
      BY <2>1
    <2>3. AtMinor(m) /\ SessionsTyped /\ MapsTyped
      BY DEF Sound, Typed, MinorsSound
    <2>4. \A d \in Clients : Busy(d, m) =>
            session[d].op # "undo" /\ session[d].op # "cleanup" /\ session[d].op # "unmount"
      <3> SUFFICES ASSUME NEW d \in Clients, Busy(d, m),
                          session[d].op \in {"undo", "cleanup", "unmount"}
                   PROVE  FALSE
        OBVIOUS
      <3>1. SessionSound(d) /\ Shape(session[d]) /\ session[d].minor = m
        BY <2>3, IdleOrInside DEF AtMinor, SessionsSound, Busy
      <3>2. session[d].op = "unmount"
        BY <2>2, <3>1 DEF SessionSound, NoneMounted
      <3>3. session[d].vol \in mounted[d] /\ session[d].vol.minor = m
        BY <3>1, <3>2 DEF SessionSound, Shape
      <3>4. d = c /\ session[d].vol = v
        BY <2>2, <2>3, <3>3 DEF AtMinor, MountedOnce
      <3> QED
        BY <3>2, <3>4 DEF Busy
    <2>5. \A d \in Clients : Busy(d, m) => session[d].at \notin DestroySteps
      BY <2>3, <2>4, IdleOrInside DEF Busy, Shape, SessionStates, DestroySteps
    <2>6. Serves(v)
      BY <2>2, <2>3, <2>5 DEF AtMinor, MountedServed
    <2>7. \A k \in DOMAIN v.maps : Present(v, k)
      BY <2>2, <2>3, <2>4 DEF AtMinor, MountedMapped
    <2>8. \A x \in HeldAt(m) : \E k \in DOMAIN v.maps : x = Entry(m, v.maps[k])
      BY <2>2, <2>3, <2>6 DEF AtMinor, EntriesOwn, SlotSound, Serves
    <2>9. ASSUME NEW sector \in 0 .. v.cap - 1
          PROVE  Mapped(m, sector) /\ Translate(m, sector) \in Home(v, sector)
      <3>1. PICK k \in DOMAIN v.maps :
              v.maps[k].start <= sector /\ sector - v.maps[k].start < v.maps[k].len
        BY <2>1, CoverAssumption
      <3>2. PICK i \in SlotsOf(m) : maps[i] = Entry(m, v.maps[k])
        BY <2>2, <2>7 DEF Present, HeldAt
      <3>3. maps[i].start = v.maps[k].start /\ maps[i].len = v.maps[k].len
        BY <2>1, <3>2, VolumeFields, EntryIsUsed
      <3>4. Mapped(m, sector)
        BY <3>1, <3>2, <3>3 DEF Mapped, SlotsHit
      <3>5. sector \in Nat
        BY <2>1, VolumeFields
      <3>6. PICK j : j = First(SlotsHit(m, sector))
        OBVIOUS
      <3>7. /\ j \in SlotsOf(m) /\ maps[j].start <= sector
            /\ sector - maps[j].start < maps[j].len
        BY <2>3, <3>4, <3>5, <3>6, HitIsExtent DEF SlotsHit
      <3>8. PICK l \in DOMAIN v.maps : maps[j] = Entry(m, v.maps[l])
        BY <2>8, <3>7 DEF HeldAt
      <3>9. /\ maps[j].start = v.maps[l].start /\ maps[j].len = v.maps[l].len
            /\ maps[j].dev = v.maps[l].dev /\ maps[j].phys = v.maps[l].phys
        BY <2>1, <3>8, VolumeFields, EntryIsUsed
      <3>10. Translate(m, sector) = Place(v.maps[l], sector)
        BY <3>6, <3>9 DEF Translate, Place
      <3> QED
        BY <3>4, <3>7, <3>9, <3>10 DEF Home
    <2> QED
      BY <2>2, <2>6, <2>9 DEF Serves
  <1> QED
    BY <1>1, SpecSound, PTL
=============================================================================
