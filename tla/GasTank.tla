------------------------------ MODULE GasTank -------------------------------
(***************************************************************************)
(* What a paymaster that serves several dapps promises them: a pot of      *)
(* money, a credit for each dapp, and no way to change one dapp's credit   *)
(* but by its own deposits, withdrawals and charges, inside nested         *)
(* transactions that are kept or undone as a whole.                        *)
(***************************************************************************)
EXTENDS Integers, Sequences

CONSTANT Ids

VARIABLES
    credit,       \* what each dapp may still spend
    pot,          \* the money there is
    marks         \* what to go back to, one entry per open sub-transaction

tankVars == <<credit, pot, marks>>

Mark  == [credit |-> credit, pot |-> pot]
Outer == SubSeq(marks, 1, Len(marks) - 1)

TankInit == credit = [i \in Ids |-> 0] /\ pot = 0 /\ marks = <<>>

Open == marks' = Append(marks, Mark) /\ UNCHANGED <<credit, pot>>

Keep == marks # <<>> /\ marks' = Outer /\ UNCHANGED <<credit, pot>>

Undo == /\ marks # <<>>
        /\ credit' = marks[Len(marks)].credit
        /\ pot' = marks[Len(marks)].pot
        /\ marks' = Outer

\* A dapp's credit grows by what is paid in.
PayIn(i, n) == /\ n >= 0
               /\ credit' = [credit EXCEPT ![i] = @ + n]
               /\ pot' = pot + n
               /\ UNCHANGED marks

\* Money for the pot that belongs to nobody.
Donate == pot' >= pot /\ UNCHANGED <<credit, marks>>

\* A dapp takes out what it has; the recipient is called before that is final.
TakeOut(i, n) == /\ n \in 0 .. credit[i]
                 /\ credit' = [credit EXCEPT ![i] = @ - n]
                 /\ pot' = pot - n
                 /\ marks' = Append(marks, Mark)

\* A dapp is charged n for an operation that costs the pot no more.
Spend(i, n) == /\ n \in 0 .. credit[i]
               /\ credit' = [credit EXCEPT ![i] = @ - n]
               /\ pot' <= pot /\ pot - pot' <= n
               /\ marks' \in {marks, Outer}

\* The amount a step moves can be read off the credits.
Moved(i) == credit'[i] - credit[i]

TankNext ==
    \/ Open \/ Keep \/ Undo \/ Donate
    \/ \E i \in Ids : \/ PayIn(i, Moved(i))
                      \/ TakeOut(i, -Moved(i))
                      \/ Spend(i, -Moved(i))

TankSpec == TankInit /\ [][TankNext]_tankVars
=============================================================================
