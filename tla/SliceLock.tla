------------------------------ MODULE SliceLock ------------------------------
(***************************************************************************)
(* What a node-slice lease promises (nodes/lease.ts, NodeSliceLease): a    *)
(* slice has at most one owner, only a free slice is taken, and each       *)
(* tenure has a fencing token larger than every earlier one's.             *)
(***************************************************************************)
EXTENDS Naturals

CONSTANTS Keys, Holders, Nobody

VARIABLES
  owner,   \* who holds a slice
  epoch    \* the fencing token of the latest tenure

Init == owner = [k \in Keys |-> Nobody] /\ epoch = [k \in Keys |-> 0]

\* A tenure may be over as soon as it is granted.
Take(k, h) ==
  /\ owner[k] = Nobody
  /\ owner' \in {owner, [owner EXCEPT ![k] = h]}
  /\ epoch' = [epoch EXCEPT ![k] = epoch[k] + 1]

\* Released, or expired: time may free several slices at once.
Free(ks) ==
  /\ owner' = [k \in Keys |-> IF k \in ks THEN Nobody ELSE owner[k]]
  /\ UNCHANGED epoch

Next == (\E k \in Keys, h \in Holders : Take(k, h)) \/ \E ks \in SUBSET Keys : Free(ks)

Spec == Init /\ [][Next]_<<owner, epoch>>
=============================================================================
