-------------------------- MODULE MCSsuController --------------------------
(* Small instances of the controller for TLC. *)
EXTENDS SsuController, TLC

CONSTANTS vol, anon, alice, d0, d1

MCSsus == {0, 1}
MCNames == {vol}
MCOwners == {alice}
MCDevs == {d0, d1}
\* The two device paths are interchangeable.
Sym == Permutations(MCDevs)
==============================================================================
