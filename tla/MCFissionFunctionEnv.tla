------------------------- MODULE MCFissionFunctionEnv -------------------------
(***************************************************************************)
(* FissionFunctionEnv for TLC: the constants are given in MCFnEnv.cfg and  *)
(* MCFnEnvNotify.cfg; this module makes TLC evaluate the assumptions.      *)
(***************************************************************************)
EXTENDS FissionFunctionEnv

=============================================================================
