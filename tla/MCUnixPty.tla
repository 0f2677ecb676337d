----------------------------- MODULE MCUnixPty -----------------------------
(* A pty with two reader clones.                                           *)
EXTENDS UnixPty

CONSTANTS r1, r2
MCReaders == {r1, r2}
MCAllModes == {"cooked", "raw", "noeof"}
=============================================================================
