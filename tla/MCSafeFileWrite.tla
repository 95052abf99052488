-------------------------- MODULE MCSafeFileWrite --------------------------
(* SafeFileWrite for TLC: a map file, the minimap index and a DBC.         *)
EXTENDS SafeFileWrite
CONSTANTS f1, index, dbc
=============================================================================
