----------------------------- MODULE MCLiveView -----------------------------
(* A page and the mirror, with queues that hold two events and one.        *)
EXTENDS LiveView

CONSTANTS p1, mirror

=============================================================================
