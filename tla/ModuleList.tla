----------------------------- MODULE ModuleList -----------------------------
(***************************************************************************)
(* The singly linked list in which ModuleManager.sol keeps the modules of  *)
(* an account: the storage mapping _modules sends an address to its        *)
(* successor, Zero marks an address that is not in the list, and the list  *)
(* is closed into a ring through Sentinel (SENTINEL_MODULES, address(1)).  *)
(*                                                                         *)
(* Operators only; a mapping is passed as the argument ms.                 *)
(***************************************************************************)
EXTENDS Integers, Sequences, FiniteSets

CONSTANTS
    Addr,        \* every address the model knows
    Zero,        \* address(0)
    Sentinel     \* SENTINEL_MODULES, address(1)

ASSUME ListAssumption == /\ Zero \in Addr
                         /\ Sentinel \in Addr
                         /\ Zero # Sentinel
                         /\ IsFiniteSet(Addr)

Mapping == [Addr -> Addr]

\* Storage that was never written.
Blank == [a \in Addr |-> Zero]

\* Module addresses an entry can be made for: neither null nor the sentinel.
Proper == Addr \ {Zero, Sentinel}

\* isModuleEnabled; the callers' test on msg.sender is the same condition.
IsEnabled(ms, a) == a # Sentinel /\ ms[a] # Zero

Enabled(ms) == {a \in Addr : IsEnabled(ms, a)}

-----------------------------------------------------------------------------
(* _enableModule: the two reverts, then an insertion behind the sentinel.  *)

\* What-if: "Module cannot be added twice" is forgotten.
CanLinkTwice(ms, m) == m \in Proper

CanLink(ms, m) == m \in Proper /\ ms[m] = Zero

Link(ms, m) == [ms EXCEPT ![m] = ms[Sentinel], ![Sentinel] = m]

(* _disableModule: the caller names the predecessor, the code checks it.   *)

CanUnlink(ms, prev, m) == m \in Proper /\ ms[prev] = m

\* What-if: the entry is deleted before its successor is read.
UnlinkSwapped(ms, prev, m) == [ms EXCEPT ![m] = Zero, ![prev] = Zero]

Unlink(ms, prev, m) == [ms EXCEPT ![prev] = ms[m], ![m] = Zero]

(* _initialSetupModules: writes a ring of one module over whatever is      *)
(* there, without looking at it.                                           *)

CanStart(m) == m \in Proper

Start(ms, m) == [ms EXCEPT ![m] = Sentinel, ![Sentinel] = m]

-----------------------------------------------------------------------------
(* getModulesPaginated: follow the links from start until the ring closes, *)
(* an empty entry is met, or the page is full.                             *)

AtEnd(a) == a \in {Zero, Sentinel}

\* The cursor after n rounds of the loop; it stays where the loop stops.
Cursor(ms, start, n) ==
    LET at[k \in 0 .. n] ==
            IF k = 0 THEN ms[start]
            ELSE LET prev == at[k - 1]
                 IN  IF AtEnd(prev) THEN prev ELSE ms[prev]
    IN  at[n]

\* What-if: the loop looks one entry ahead for the end.
PageAhead(ms, start, size) ==
    LET ends  == {k \in 0 .. size : AtEnd(Cursor(ms, start, k + 1))}
        count == IF ends = {} THEN size
                 ELSE CHOOSE k \in ends : \A j \in ends : k <= j
    IN  [array |-> [k \in 1 .. count |-> Cursor(ms, start, k - 1)],
         next  |-> Cursor(ms, start, count)]

Page(ms, start, size) ==
    LET ends  == {k \in 0 .. size : AtEnd(Cursor(ms, start, k))}
        count == IF ends = {} THEN size
                 ELSE CHOOSE k \in ends : \A j \in ends : k <= j
    IN  [array |-> [k \in 1 .. count |-> Cursor(ms, start, k - 1)],
         next  |-> Cursor(ms, start, count)]

-----------------------------------------------------------------------------
(* What a list must be.                                                    *)

Linked(ms) == {a \in Addr : ms[a] # Zero}

\* Entries point at entries, and no two at the same one.
Permutes(ms) == /\ \A a \in Linked(ms) : ms[a] \in Linked(ms)
                /\ \A a, b \in Linked(ms) : ms[a] = ms[b] => a = b

\* From every entry the links lead to the sentinel: a set of entries that the
\* links do not leave contains it.
Returns(ms) == \A T \in SUBSET Linked(ms) :
                  (T # {} /\ \A a \in T : ms[a] \in T) => Sentinel \in T

\* One ring through the sentinel, or nothing at all.  With Returns, the ring
\* visits every enabled module exactly once.
WellFormed(ms) == /\ ms \in Mapping
                  /\ ms[Zero] = Zero
                  /\ Permutes(ms)
                  /\ Returns(ms)

\* Some module was started: init cannot pass its first test again.
Started(ms) == ms[Sentinel] # Zero
=============================================================================
