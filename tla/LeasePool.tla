------------------------------ MODULE LeasePool ------------------------------
(***************************************************************************)
(* What an output pool promises the rest of the runtime, with no ring, no  *)
(* counters and no ledger: a first-in first-out queue of reset blocks, and *)
(* for every holder the set of blocks it has on lease.                     *)
(*                                                                         *)
(*   - a lease takes the block that has been free the longest;             *)
(*   - a block that is given back goes to the end of the queue;            *)
(*   - closing is final: from then on nothing is leased, and a block given *)
(*     back is dropped.                                                    *)
(*                                                                         *)
(* OutputPool implements this specification.                               *)
(***************************************************************************)
EXTENDS Sequences, Naturals

CONSTANTS Block, Client

VARIABLES
  free,    \* the queue of blocks that can be leased
  leased,  \* leased[c]: the blocks holder c has not given back yet
  status   \* "new" until the pool opens, "closed" once it is closed

leasePoolVars == <<free, leased, status>>

Init ==
  /\ free = <<>>
  /\ leased = [c \in Client |-> {}]
  /\ status = "new"

(* The pool opens with its blocks in some order, each of them once. *)
Open ==
  /\ status = "new"
  /\ status' = "open"
  /\ free' \in Seq(Block)
  /\ \A i, j \in DOMAIN free' : free'[i] = free'[j] => i = j
  /\ UNCHANGED leased

Take(c) ==
  /\ status = "open"
  /\ free # <<>>
  /\ leased' = [leased EXCEPT ![c] = @ \cup {Head(free)}]
  /\ free' = Tail(free)
  /\ UNCHANGED status

Give(c, b) ==
  /\ b \in leased[c]
  /\ leased' = [leased EXCEPT ![c] = @ \ {b}]
  /\ free' = IF status = "open" THEN Append(free, b) ELSE free
  /\ UNCHANGED status

Close ==
  /\ status = "open"
  /\ status' = "closed"
  /\ free' = <<>>
  /\ UNCHANGED leased

Next ==
  \/ Open
  \/ Close
  \/ \E c \in Client : Take(c) \/ \E b \in Block : Give(c, b)

Spec == Init /\ [][Next]_leasePoolVars
=============================================================================
