---------------------------- MODULE MCDeployment ----------------------------
(***************************************************************************)
(* Deployment with two of the modules.                                     *)
(***************************************************************************)
EXTENDS Deployment, TLC

TwoModules == <<"EcdsaOwnershipRegistryModule", "PasskeyModule">>

\* All chains of the tables, and Hardhat's own.
SomeChains == Testnets \cup Mainnets \cup {31337}
=============================================================================
