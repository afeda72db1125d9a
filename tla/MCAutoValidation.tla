-------------------------- MODULE MCAutoValidation --------------------------
(* Small instances of AutoValidation: one or two application threads. *)
EXTENDS AutoValidation, TLC

CONSTANTS h1, h2, b1, b2
=============================================================================
