--------------------------- MODULE ModuleRegistry ---------------------------
(***************************************************************************)
(* What an account promises about its modules, without the linked list and *)
(* without the contracts that call each other: a set of enabled modules    *)
(* that is started once and then changes by one module at a time, inside   *)
(* nested sub-transactions that are kept or undone as a whole.             *)
(***************************************************************************)
EXTENDS Integers, Sequences

CONSTANT Module      \* what can be enabled

VARIABLES
    enabled,         \* the enabled modules
    started,         \* the first module has been given
    marks            \* what to go back to, one entry per open sub-transaction

regVars == <<enabled, started, marks>>

Mark == [enabled |-> enabled, started |-> started]

Outer == SubSeq(marks, 1, Len(marks) - 1)

RegInit == enabled = {} /\ started = FALSE /\ marks = <<>>

\* One sub-transaction opens, or one directly inside another.
Open == /\ \/ marks' = Append(marks, Mark)
           \/ marks' = Append(Append(marks, Mark), Mark)
        /\ UNCHANGED <<enabled, started>>

Keep == /\ marks # <<>>
        /\ marks' = Outer
        /\ UNCHANGED <<enabled, started>>

Undo == /\ marks # <<>>
        /\ enabled' = marks[Len(marks)].enabled
        /\ started' = marks[Len(marks)].started
        /\ marks' = Outer

\* The first module; it is the last step of its sub-transaction.
First(m) == /\ marks # <<>>
            /\ ~started
            /\ started' = TRUE
            /\ enabled' = {m}
            /\ marks' = Outer

\* A module is added: on its own, or as the last step of a sub-transaction.
Add(m) == /\ marks # <<>>
          /\ started
          /\ m \notin enabled
          /\ enabled' = enabled \cup {m}
          /\ started' = started
          /\ marks' \in {marks, Outer}

Drop(m) == /\ marks # <<>>
           /\ m \in enabled
           /\ enabled' = enabled \ {m}
           /\ UNCHANGED <<started, marks>>

RegNext == \/ Open \/ Keep \/ Undo
           \/ \E m \in Module : First(m) \/ Add(m) \/ Drop(m)

RegSpec == RegInit /\ [][RegNext]_regVars
=============================================================================
