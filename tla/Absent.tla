-------------------------------- MODULE Absent --------------------------------
(***************************************************************************)
(* The absent value (None in the code), shared by the modules that need it. *)
(***************************************************************************)
CONSTANT Nil
===============================================================================
