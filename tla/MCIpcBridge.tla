---------------------------- MODULE MCIpcBridge ----------------------------
(* Small instances of the bridge, up to three requests at a time. *)
EXTENDS IpcBridge

CONSTANTS w1, p1, p2

\* Below the clamp and above it.
SomeWaits == {0, 9}
=============================================================================
