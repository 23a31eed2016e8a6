----------------------------- MODULE GuestDisk -----------------------------
(***************************************************************************)
(* What a volume promises a guest: a disk with a volatile write cache.     *)
(* A block holds a version; a write gives it a newer one, a flush makes    *)
(* every block's version safe, and when the disk goes down each block      *)
(* keeps a version between the safe one and the newest.  What it keeps it  *)
(* keeps through any number of failed attempts to bring the disk back, and *)
(* that is what the guest reads then.                                      *)
(*                                                                         *)
(* damaged are the blocks of which the code has dropped the only copy of a *)
(* version after an I/O error; nothing is promised about them.             *)
(***************************************************************************)
EXTENDS Naturals

CONSTANT Blocks
VARIABLES up, data, safe, damaged

diskVars == <<up, data, safe, damaged>>

Zero == [b \in Blocks |-> 0]

Init == up = FALSE /\ data = Zero /\ safe = Zero /\ damaged = {}

\* The blocks in B read as before.
Same(B) == \A b \in B \ damaged : data'[b] = data[b]

Write(b) ==
    /\ up /\ \A c \in Blocks : data'[b] > data[c]
    /\ Same(Blocks \ {b})
    /\ UNCHANGED <<up, safe, damaged>>

Flush ==
    /\ up /\ safe' = data
    /\ Same(Blocks) /\ UNCHANGED <<up, damaged>>

\* A crash or a close.
GoDown ==
    /\ up /\ ~up'
    /\ \A b \in Blocks \ damaged : safe[b] <= data'[b] /\ data'[b] <= data[b]
    /\ UNCHANGED <<safe, damaged>>

ComeUp ==
    /\ ~up /\ up'
    /\ Same(Blocks) /\ UNCHANGED <<safe, damaged>>

\* An error path drops a copy; a damaged block may read anything from then on.
Damage ==
    /\ damaged \subseteq damaged' /\ damaged' \subseteq Blocks
    /\ \A b \in Blocks \ damaged' : data'[b] = data[b]
    /\ UNCHANGED <<up, safe>>

Next == (\E b \in Blocks : Write(b)) \/ Flush \/ GoDown \/ ComeUp \/ Damage

Spec == Init /\ [][Next]_diskVars
=============================================================================
