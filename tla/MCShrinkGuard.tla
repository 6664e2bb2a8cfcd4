---------------------------- MODULE MCShrinkGuard ----------------------------
(* The run of ShrinkGuard, with the constants of the runs of Publisher.     *)
EXTENDS ShrinkGuard, MCPublisher

=============================================================================
