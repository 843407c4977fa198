------------------------------- MODULE MCSys --------------------------------
(* Sys with its constants given by the configuration. *)
EXTENDS Sys
=============================================================================
