--------------------------- MODULE MCStoreForward ---------------------------
(* Instances of StoreForward for TLC. *)
EXTENDS StoreForward

\* Hubs that only send monitors, and one that sends a measurement too.
Monitors == {"monitor"} \X (1 .. 2)
OneMonitor == {"monitor"} \X {1}
Mixed    == { << "monitor", 1 >>, << "measurement", 1 >> }
=============================================================================
