---------------------------- MODULE MCSerialTty ----------------------------
(* One child and two readers, which compete for what the device sends.     *)
EXTENDS SerialTty

MCPlatforms == {"unix", "windows"}
MCChildren == {"c1"}
MCReaders == {"r1", "r2"}
=============================================================================
