----------------------------- MODULE MCHelmClient -----------------------------
(* Instances of HelmClient for TLC.                                         *)
EXTENDS HelmClient, TLC

CONSTANTS c1, c2, c3

\* Calls that are not cancellable differ in nothing but their name.
Interchangeable == Permutations(Calls \ Cancellable)
===============================================================================
