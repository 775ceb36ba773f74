------------------------------ MODULE MC_Stats ------------------------------
(* Stats with an 8-bit usize: real entry sizes (32-byte hashes, 24-byte    *)
(* Vec headers) reach the overflow boundary in one or two entries.         *)
EXTENDS Stats
=============================================================================
