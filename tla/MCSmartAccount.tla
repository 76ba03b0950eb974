--------------------------- MODULE MCSmartAccount ---------------------------
(***************************************************************************)
(* SmartAccount on small instances: one or two contracts that serve as     *)
(* modules, setup contracts, senders and targets alike.                    *)
(***************************************************************************)
EXTENDS SmartAccount, TLC

CONSTANTS m1, m2, impl, impl2

Base == {Zero, Sentinel, Account, EntryPoint, CodeLess}

OneContract   == {m1}
TwoModules    == {m1, m2}
OneImpl       == {impl}
TwoImpls      == {impl, impl2}

AddrTwo       == Base \cup TwoModules \cup OneImpl
AddrOneTwo    == Base \cup OneContract \cup TwoImpls

\* The account may be enabled as a module of its own, and be its own handler.
WithAccount   == {m1, Account}

\* Contracts are interchangeable where no handler is one of them.
SymmTwo       == Permutations(TwoModules)
=============================================================================
