----------------------------- MODULE MCGpuLease -----------------------------
(* Instances of GpuLease for TLC. *)
EXTENDS GpuLease
=============================================================================
