------------------------------ MODULE Dataplane ------------------------------
(***************************************************************************)
(* Where the bytes of a logical disk are: translate_offset of              *)
(* ssu_dataplane.cpp, which the user-space data path uses, and the map     *)
(* entries build_entries of reqshim_iface.cpp makes of the same rows for   *)
(* the kernel.  Offsets are uint64_t: every sum, difference and product    *)
(* wraps, so the tests before it must see to it that none does.            *)
(*                                                                         *)
(* A row is what a logdev query tells of an extent: its logical offset and *)
(* length in bytes and its physical sector.                                *)
(***************************************************************************)
EXTENDS Integers

CONSTANTS
  Word,    \* 2^64, the values of a uint64_t, a size_t or an off_t
  Sector   \* SSU_DATAPLANE_SECTOR_SIZE, SSU_REQSHIM_SECTOR_SIZE

ASSUME WordAssumption == Word \in Nat \ {0} /\ Sector \in Nat \ {0}

Words == 0 .. Word - 1
MaxWord == Word - 1
Wrap(x) == x % Word

Rows == [off : Words, len : Words, sector : Words]

-----------------------------------------------------------------------------
(* translate_offset *)

Relative(row, off) == Wrap(off - row.off)
PhysBase(row) == Wrap(row.sector * Sector)
PhysOffset(row, off) == Wrap(PhysBase(row) + Relative(row, off))

\* The range lies in the row.
Covers(row, off, len) ==
  /\ off >= row.off
  /\ Relative(row, off) <= row.len
  /\ len <= Wrap(row.len - Relative(row, off))

\* Its bytes have offsets.  (An off_t holds every uint64_t that is compared
\* with it after a conversion back, so these comparisons refuse nothing.)
Addressable(row, off, len) ==
  /\ row.sector <= MaxWord \div Sector
  /\ Relative(row, off) <= Wrap(MaxWord - PhysBase(row))
  /\ len > 0 => Wrap(len - 1) <= Wrap(MaxWord - PhysOffset(row, off))

Translates(row, off, len) == Covers(row, off, len) /\ Addressable(row, off, len)

\* Mutant of ByteAt: a retry starts at the beginning again.
ByteAtStart(row, off, k) == PhysOffset(row, off)

\* Where write_all and read_all go on after k bytes of a request.
ByteAt(row, off, k) == Wrap(PhysOffset(row, off) + k)

-----------------------------------------------------------------------------
(* build_entries *)

Builds(row) ==
  /\ row.off <= Wrap(MaxWord - row.len)
  /\ row.len # 0
  /\ row.off % Sector = 0
  /\ row.len % Sector = 0

Entry(row) ==
  [at |-> row.off \div Sector, len |-> row.len \div Sector, sector |-> row.sector]

\* The byte of the device behind byte b of sector s of the logical disk.
ByteOf(e, s, b) == (e.sector + (s - e.at)) * Sector + b
==============================================================================
