----------------------------- MODULE MCTracking -----------------------------
(***************************************************************************)
(* The instances of MCAggregation, with lookups.                           *)
(***************************************************************************)
EXTENDS MCAggregation, Tracking
=============================================================================
