----------------------------- MODULE MCDiskWAL ------------------------------
(* Settings of DiskWAL for TLC. *)
EXTENDS DiskWAL

(* Written through with a buffer that holds every batch *)
Through == {[capacity |-> 8, writeThrough |-> TRUE]}

(* ... and buffers that spill in the middle of a record *)
ThroughOrSpilling == Through \cup [capacity : {3}, writeThrough : BOOLEAN]
=============================================================================
