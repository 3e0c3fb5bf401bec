---------------------------- MODULE MCAcquisitionRun ----------------------------
(* Small instances of AcquisitionRun for TLC: one source of the inventory  *)
(* and the collection an operator creates for it.                          *)
EXTENDS AcquisitionRun

CONSTANTS s1, c1

OneSource == [c \in Collections |-> s1]
InFirst == [d \in Documents |-> c1]
NoSeed == [c \in {} |-> "enabled"]
ReviseOnce == [c \in Collections |-> 2]
OnePath == [c \in Collections |-> "scj"]
=============================================================================
