-------------------------------- MODULE Provider -------------------------------
(***************************************************************************)
(* What the two configuration providers have in common                     *)
(* (src/src/provider/provider.go): an event carries a configuration or the *)
(* error of loading it.  A version stands for either.                      *)
(***************************************************************************)
EXTENDS Naturals

CONSTANTS
    MaxVersion,     \* bound: versions of the configuration
    Invalid         \* the versions the loader rejects
================================================================================
