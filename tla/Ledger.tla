------------------------------- MODULE Ledger -------------------------------
(***************************************************************************)
(* What the counters of src/common/counters promise, whatever they are     *)
(* made of: what is counted is stored once or lost for good.  ChunkCounter *)
(* and ViewCounter implement it.                                           *)
(***************************************************************************)
EXTENDS Integers

VARIABLES
    counted,   \* how many events have been counted
    stored,    \* how many of them are in the database
    lost,      \* how many will never be
    void       \* have two ticks of the counter overlapped?

ledger == <<counted, stored, lost, void>>

Init == counted = 0 /\ stored = 0 /\ lost = 0 /\ void \in BOOLEAN

\* The part of counted that is settled never exceeds it.
Covered == stored' + lost' <= counted'

\* An event is counted; it may be lost, or take others with it, at once.
Count == counted' = counted + 1 /\ lost' >= lost /\ UNCHANGED stored

Store == stored' > stored /\ UNCHANGED <<counted, lost>>

Lose == lost' > lost /\ UNCHANGED <<counted, stored>>

\* Nothing is promised of a counter that is emptied by two ticks at once.
Next == void' \/ (~void /\ Covered /\ UNCHANGED void /\ (Count \/ Store \/ Lose))

Spec == Init /\ [][Next]_ledger
=============================================================================
