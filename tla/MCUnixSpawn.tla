---------------------------- MODULE MCUnixSpawn ----------------------------
(* Two concurrent spawns; the .cfg files choose which are contained.        *)
EXTENDS UnixSpawn

CONSTANTS s1, s2

MCSpawns == {s1, s2}
MCBothContained == {s1, s2}
MCOneContained == {s1}
MCNoneContained == {}
MCControllingTty == {s1}
=============================================================================
