--------------------------- MODULE MCJuceLicensing ---------------------------
(* Small instances of JuceLicensing. *)
EXTENDS JuceLicensing
=============================================================================
