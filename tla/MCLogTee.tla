----------------------------- MODULE MCLogTee ------------------------------
(* The faults of the runs of LogTee.                                        *)
EXTENDS LogTee

MCDiskFull == {"disk_full"}
MCNoFaults == {}

=============================================================================
