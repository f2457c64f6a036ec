----------------------------- MODULE MCWebterm -----------------------------
(* Webterm on small instances: the cfgs give the constants. *)
EXTENDS Webterm
=============================================================================
