------------------------------ MODULE MCBeacon ------------------------------
(* Model-checking instance of Beacon: a small cohort over a bounded run of  *)
(* cycles, with the retention windows scaled down so that eviction occurs. *)
EXTENDS Beacon

\* Last epoch explored; the handling_epoch loop itself never ends.
CONSTANT MaxEpoch

MCConstraint == now <= MaxEpoch

=============================================================================
