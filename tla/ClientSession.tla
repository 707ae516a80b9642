---------------------------- MODULE ClientSession ----------------------------
(***************************************************************************)
(* A client from its options to its data: it asks for a disk (ubsectl      *)
(* allocate, ubsectl alloc, or the SDK), asks the manager what it got      *)
(* (allocate_result_get, list, or the logdev query of ssu_smoke and        *)
(* ubsectl), and reaches the bytes of the disk through the rows it was     *)
(* told, with the calls of ssu_dataplane.cpp, as ssu_smoke.cpp does:       *)
(* write a pattern, read it back, compare.                                 *)
(*                                                                         *)
(* The manager is here by what SsuController promises of it: the rows of a *)
(* disk tile its size, each on a device of its own.  Another client may    *)
(* release the disk at any time, and the next owner of its extents writes  *)
(* them.                                                                   *)
(***************************************************************************)
EXTENDS Wire, FiniteSets

CONSTANTS
  Devs,       \* devices with an extent of the disk
  Sectors,    \* where an extent may begin
  DevSize,    \* bytes a device can have
  Digits,     \* numbers a user types
  Capacity,   \* bytes the pool has left
  Rooms       \* characters of rows an answer has room for

ASSUME SessionAssumption ==
  /\ Devs # {}
  /\ Sectors \subseteq Words
  /\ Digits \subseteq Nat
  /\ Rooms \subseteq Nat
  /\ DevSize \in Nat /\ DevSize <= Word
  /\ Capacity \in Words

VARIABLES
  at,      \* where the client is
  asked,   \* what was typed
  cmd,     \* the command the manager got
  served,  \* what the manager made of it
  disk,    \* rows of the disk
  taken,   \* the disk has been released by somebody else
  answer,  \* the last answer: its kind, its room and what the client reads
  io,      \* the request under way
  media,   \* bytes of the devices
  ends,    \* where each ends: a file ends behind the last byte written
  buffer,  \* bytes read back
  faults   \* whether a device has failed a request

vars == <<at, asked, cmd, served, disk, taken, answer, io, media, ends,
          buffer, faults>>

NoAnswer == [kind |-> "none", ok |-> FALSE, room |-> 0, rows |-> <<>>]
NoIo == [mode |-> "none", cursor |-> 0, chunk |-> 0, done |-> 0, bytes |-> 0,
         row |-> 0]

\* What a byte of a device holds: nothing of this disk, another client's data
\* or byte b of the pattern.
Empty == -1
Foreign == -2

Plain(n) == [minus |-> FALSE, digits |-> n]
AName(dir, base, plain) == [dir |-> dir, base |-> base, plain |-> plain]

\* What may be typed: the parts vary one at a time.
SizeTexts == [minus : BOOLEAN, digits : Digits, unit : {"", "k", "m", "g", "?"}]
CountTexts == [minus : BOOLEAN, digits : Digits]
NameTexts == [dir : {"", "/dev/ssu/", "other"}, base : {"", "a", Dash},
              plain : BOOLEAN]
HostTexts == UNION {[1 .. n -> {<<"h">>, <<"h", "i">>}] : n \in 0 .. HostsMax + 1}

Usual == [size |-> [minus |-> FALSE, digits |-> Capacity, unit |-> ""],
          disks |-> Plain(1), hosts |-> <<>>, name |-> AName("", "", TRUE)]

Typed ==
  {[Usual EXCEPT !.size = t] : t \in SizeTexts} \cup
  {[Usual EXCEPT !.disks = t] : t \in CountTexts} \cup
  {[Usual EXCEPT !.hosts = t] : t \in HostTexts} \cup
  {[Usual EXCEPT !.name = t] : t \in NameTexts}

NoRequest == [size |-> 0, disks |-> 0, hosts |-> <<>>, name |-> ""]
NoCommand == [op |-> "none", size |-> 0, disks |-> 0, hosts |-> <<>>, name |-> Dash]

Init ==
  /\ at = "start"
  /\ asked = Usual
  /\ cmd = NoCommand
  /\ served = NoRequest
  /\ disk = <<>>
  /\ taken = FALSE
  /\ answer = NoAnswer
  /\ io = NoIo
  /\ media = [d \in Devs |-> [p \in 0 .. DevSize - 1 |-> Empty]]
  /\ \E end \in {0, DevSize} : ends = [d \in Devs |-> end]
  /\ buffer = <<>>
  /\ faults = FALSE

ioVars == <<io, media, ends, buffer, faults>>
diskVars == <<served, disk, taken, answer>>

-----------------------------------------------------------------------------
(* The request *)

Ask(typed, c) ==
  /\ at = "start"
  /\ asked' = typed
  /\ cmd' = c
  /\ at' = IF c = NoCommand THEN "exit" ELSE "asked"
  /\ UNCHANGED <<diskVars, ioVars>>

\* ubsectl allocate: the options, then the call of the SDK.
Allocate(typed) ==
  Ask(typed, IF ToolTakes(typed) /\ SdkSends(Options(typed))
             THEN AllocateCommand(Options(typed)) ELSE NoCommand)

\* A program calls the SDK with numbers, not with texts.
SdkAllocate(typed) ==
  /\ Fits(typed.size) /\ ~typed.size.minus /\ typed.size.unit = ""
  /\ typed.disks = Plain(typed.disks.digits) /\ typed.disks.digits < Half
  /\ Ask(typed, IF SdkSends(Options(typed))
                THEN AllocateCommand(Options(typed)) ELSE NoCommand)

\* ubsectl alloc
Alloc(size) ==
  Ask([Usual EXCEPT !.size = size],
      IF SizeParses(size) THEN AllocCommand(size) ELSE NoCommand)

\* Rows that tile the size, each on a device of its own.
RowOf(d, off, len, sector) == [off |-> off, len |-> len, sector |-> sector, dev |-> d]
Holds(row) == row.sector * Sector + row.len <= DevSize
Layouts(size) ==
  {<<RowOf(d, 0, size, s)>> : d \in Devs, s \in Sectors} \cup
  UNION {{<<RowOf(d, 0, len, s), RowOf(e, len, size - len, t)>> :
            d \in Devs, e \in Devs, s \in Sectors, t \in Sectors} :
          len \in 1 .. size - 1}

DiskOf(size) ==
  {rows \in Layouts(size) :
     /\ \A i \in DOMAIN rows : Holds(rows[i])
     /\ \A i, j \in DOMAIN rows : i # j => rows[i].dev # rows[j].dev}

\* handle_allocate, handle_alloc: the disk is made, or there is an error.
Serve ==
  /\ at = "asked"
  /\ IF ManagerTakes(cmd) /\ cmd.size \in 1 .. Capacity
     THEN /\ served' = Decoded(cmd)
          /\ disk' \in DiskOf(cmd.size)
          /\ at' = "has"
     ELSE /\ at' = "exit"
          /\ UNCHANGED <<served, disk>>
  /\ UNCHANGED <<asked, cmd, taken, answer, ioVars>>

\* Another client unmounts and releases the disk.  Its extents go to the
\* next one, who writes there.
Release ==
  /\ at \in {"has", "writes", "reads"}
  /\ ~taken
  /\ taken' = TRUE
  /\ media' = [d \in Devs |-> [p \in 0 .. DevSize - 1 |->
       IF \E i \in DOMAIN disk :
            /\ disk[i].dev = d
            /\ p - disk[i].sector * Sector \in 0 .. disk[i].len - 1
       THEN Foreign ELSE media[d][p]]]
  /\ ends' = [d \in Devs |-> Max(
       {ends[d]} \cup {disk[i].sector * Sector + disk[i].len :
                        i \in {j \in DOMAIN disk : disk[j].dev = d}})]
  /\ UNCHANGED <<at, asked, cmd, served, disk, answer, io, buffer, faults>>

-----------------------------------------------------------------------------
(* The answer *)

Answer(kind, ok, room) ==
  /\ at = "has"
  /\ ~taken
  /\ answer' = [kind |-> kind, ok |-> ok, room |-> room,
                rows |-> IF ok THEN RowsHeard(disk, room) ELSE <<>>]
  /\ UNCHANGED <<asked, cmd, served, disk, taken, ioVars>>

\* ubse_ssu_sdk_allocate_result_get
ResultGet(room) == Answer("result", ResultOk(disk, room), room) /\ at' = "exit"

\* ubse_ssu_sdk_list into a table that was measured by a call before: the
\* rows of the pool are printed and read like those of a disk.
List(room, capacity) ==
  /\ Answer("list", capacity >= Len(disk) /\ ListOk(disk, room), room)
  /\ at' = "exit"

\* collect_logdev_manager; the pattern has so many bytes, and is written, or
\* read, or both.
Collect(room, bytes, mode) ==
  LET heard == RowsHeard(disk, room)
  IN  /\ at = "has"
      /\ ~taken
      /\ answer' = [kind |-> "logdev", ok |-> heard # <<>>, room |-> room,
                    rows |-> heard]
      /\ at' = CASE heard = <<>> -> "exit"
                [] mode = "read" -> "reads"
                [] OTHER -> "writes"
      /\ io' = [NoIo EXCEPT !.bytes = bytes, !.mode = mode]
      /\ UNCHANGED <<asked, cmd, served, disk, taken, media, ends, buffer, faults>>

-----------------------------------------------------------------------------
(* The data *)

\* find_mapping_for_offset
Mappings ==
  {i \in DOMAIN answer.rows :
     /\ io.cursor >= answer.rows[i].off
     /\ io.cursor < Wrap(answer.rows[i].off + answer.rows[i].len)}

\* Mutant: a segment goes on past the end of its row.
ChunkWhole(row) == io.bytes - io.cursor

ChunkOf(row) ==
  LET rest == io.bytes - io.cursor
      room == row.off + row.len - io.cursor
  IN  IF rest > room THEN room ELSE rest

Finishes(next) ==
  /\ io.cursor = io.bytes
  /\ at' = next
  /\ io' = [NoIo EXCEPT !.bytes = io.bytes, !.mode = io.mode]
  /\ UNCHANGED <<asked, cmd, diskVars, media, ends, buffer, faults>>

\* The next segment of write_pattern_segments and read_pattern_segments, and
\* translate_offset for it.
NextSegment ==
  /\ at \in {"writes", "reads"}
  /\ io.chunk = 0
  /\ io.cursor < io.bytes
  /\ \/ \E i \in Mappings :
          LET row == answer.rows[i]
          IN  /\ \A j \in Mappings : i <= j
              /\ Translates(row, io.cursor, ChunkOf(row))
              /\ io' = [io EXCEPT !.row = i, !.chunk = ChunkOf(row), !.done = 0]
              /\ UNCHANGED at
     \/ /\ \A i \in Mappings :
             (\A j \in Mappings : i <= j) =>
               ~Translates(answer.rows[i], io.cursor, ChunkOf(answer.rows[i]))
        /\ at' = "exit"
        /\ UNCHANGED io
  /\ UNCHANGED <<asked, cmd, diskVars, media, ends, buffer, faults>>

\* Where the request under way goes on.
Row == answer.rows[io.row]
Position == ByteAt(Row, io.cursor, io.done)

\* The request goes on after n bytes.
Advance(n) ==
  IF io.done + n = io.chunk
  THEN io' = [io EXCEPT !.cursor = @ + io.chunk, !.chunk = 0, !.done = 0]
  ELSE io' = [io EXCEPT !.done = @ + n]

\* pwrite takes some of the bytes: the first of them, up to the device's end.
WriteSome(n) ==
  /\ at = "writes"
  /\ n \in 1 .. io.chunk - io.done
  /\ Position + n <= DevSize
  /\ media' = [media EXCEPT ![Row.dev] = [p \in 0 .. DevSize - 1 |->
       IF p - Position \in 0 .. n - 1
       THEN io.cursor + io.done + (p - Position) ELSE @[p]]]
  /\ ends' = [ends EXCEPT ![Row.dev] = Max({@, Position + n})]
  /\ Advance(n)
  /\ UNCHANGED <<at, asked, cmd, diskVars, buffer, faults>>

\* pread gives some of the bytes that are before the end.
ReadSome(n) ==
  /\ at = "reads"
  /\ n \in 1 .. io.chunk - io.done
  /\ Position + n <= ends[Row.dev]
  /\ buffer' = buffer \o [k \in 1 .. n |-> media[Row.dev][Position + k - 1]]
  /\ Advance(n)
  /\ UNCHANGED <<at, asked, cmd, diskVars, media, ends, faults>>

\* At the end of the device the rest of the buffer is cleared.
ReadEnd ==
  /\ at = "reads"
  /\ io.chunk > 0
  /\ Position \in ends[Row.dev] .. (Word \div 2) - 1
  /\ buffer' = buffer \o [k \in 1 .. io.chunk - io.done |-> Empty]
  /\ Advance(io.chunk - io.done)
  /\ UNCHANGED <<at, asked, cmd, diskVars, media, ends, faults>>

\* The device fails a request (open, pwrite, pread), or a write is at its end.
Fail ==
  /\ at \in {"writes", "reads"}
  /\ io.chunk > 0
  /\ at' = "exit"
  /\ faults' = TRUE
  /\ UNCHANGED <<asked, cmd, diskVars, io, media, ends, buffer>>

Written ==
  at = "writes" /\ Finishes(IF io.mode = "write" THEN "written" ELSE "reads")

\* memcmp of run_pattern_io
Same == buffer = [b \in 1 .. io.bytes |-> b - 1]
Compare == at = "reads" /\ Finishes(IF Same THEN "same" ELSE "differs")

Next ==
  \/ \E typed \in Typed : Allocate(typed) \/ SdkAllocate(typed)
  \/ \E size \in SizeTexts : Alloc(size)
  \/ Serve
  \/ Release
  \/ \E room \in Rooms :
       \/ ResultGet(room)
       \/ \E capacity \in 0 .. 2 : List(room, capacity)
       \/ \E bytes \in 1 .. served.size + 1, mode \in {"write", "read", "verify"} :
            Collect(room, bytes, mode)
  \/ NextSegment
  \/ \E n \in 1 .. Capacity : WriteSome(n) \/ ReadSome(n)
  \/ ReadEnd
  \/ Fail
  \/ Written
  \/ Compare

Spec == Init /\ [][Next]_vars

\* Devices are interchangeable.
Symmetry == Permutations(Devs)

-----------------------------------------------------------------------------
(* Properties *)

\* What the text of a size means, without any width.
Meant(t) == (IF t.minus THEN -t.digits ELSE t.digits) * Times(t.unit)

\* A request is served as it was meant: never with fewer bytes than the user
\* typed, for the hosts named (or "local"), under the name given.  Two things
\* do not arrive, by what the code does: a count of disks above the 32 bits of
\* its field arrives modulo 2^32, and the name "-" arrives as no name.
RequestArrives ==
  served # NoRequest =>
    /\ served.size >= Meant(asked.size)
    /\ served.size % Word = Meant(asked.size) % Word
    /\ cmd.op = "ALLOCATE" =>
         /\ served.disks = CountOf(asked.disks)
         /\ served.hosts \in {<<"local">>} \cup
              {[i \in DOMAIN asked.hosts |-> asked.hosts[i][1]]}
         /\ served.name \in {"", asked.name.base}
         /\ served.name = "" => asked.name.base \in {"", Dash}

\* An answer that is said to be good tells rows of the disk, in their order
\* and with nothing left out between them; the list of the pool tells them
\* all.  (The answer is printed into 8192 characters: the rows behind the end
\* are lost, and the number the end is in loses digits.)
AnswerTrue ==
  answer.ok =>
    /\ NumbersWhole(disk, answer.room) => IsPrefix(answer.rows, disk)
    /\ answer.kind = "list" => Len(answer.rows) = Len(disk)
    /\ Len(answer.rows) <= Len(disk)

\* The byte of a device behind byte b of the disk.
PlaceOf(b) ==
  {<<disk[i].dev, disk[i].sector * Sector + (b - disk[i].off)>> :
     i \in {j \in DOMAIN disk : b - disk[j].off \in 0 .. disk[j].len - 1}}

\* The data path puts a byte nowhere but in its place, whatever part of a
\* request each pwrite takes, and whatever rows are missing in the answer;
\* only an answer that has lost digits of a number can lead it astray.
BytesInPlace ==
  NumbersWhole(disk, answer.room) =>
    \A d \in Devs, p \in 0 .. DevSize - 1 :
      media[d][p] >= 0 => <<d, p>> \in PlaceOf(media[d][p])

\* A client that was told all rows of a disk and keeps it reads back what it
\* wrote, unless a device fails: no end before the comparison, and no
\* difference in it.
ReadsBack ==
  /\ io.mode = "verify"
  /\ answer.rows = disk
  /\ io.bytes <= served.size
  /\ ~taken
  /\ ~faults
  => at \notin {"exit", "differs"}
==============================================================================
