---------------------------- MODULE MCOutletSync ----------------------------
(* OutletSync as it is; the values of its constants are in the .cfg.        *)
EXTENDS OutletSync
=============================================================================
