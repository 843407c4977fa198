-------------------------------- MODULE MCApt --------------------------------
(* Apt with few seconds and few changes; the bounds are in the cfg files. *)
EXTENDS Apt
=============================================================================
