------------------------------ MODULE Frontier ------------------------------
(***************************************************************************)
(* What the spider's pool of work threads promises, seen from outside: a   *)
(* crawl of a fixed web.  Every address is in one of four stages and only  *)
(* moves forward through them, so none is scanned twice; an address is     *)
(* found on a page that is being worked on at that moment, so nothing is   *)
(* scanned that the web does not lead to from the seed.                    *)
(*                                                                         *)
(* Threads, the queue, flags and condition variables are all below this    *)
(* level: module Spider implements it.                                     *)
(***************************************************************************)
CONSTANTS Address,  \* every address the web mentions
          Seed      \* the one of them the crawl starts from

VARIABLES stage,  \* how far each address has come
          leads   \* leads[a]: the addresses that the page at a leads to

vars == <<stage, leads>>

Stage == {"unseen", "waiting", "active", "finished"}

TypeOK ==
    /\ stage \in [Address -> Stage]
    /\ leads \in [Address -> SUBSET Address]

Init ==
    /\ stage = [a \in Address |-> "unseen"]
    /\ leads \in [Address -> SUBSET Address]

Move(a, from, to) ==
    /\ stage[a] = from
    /\ stage' = [stage EXCEPT ![a] = to]
    /\ UNCHANGED leads

(* The crawl begins: the seed is submitted before any work is done.        *)
Begin ==
    /\ \A a \in Address : stage[a] = "unseen"
    /\ Move(Seed, "unseen", "waiting")

(* A page that is being worked on leads to an address nobody has seen.     *)
Discover(a) ==
    /\ \E b \in Address : stage[b] = "active" /\ a \in leads[b]
    /\ Move(a, "unseen", "waiting")

(* A work thread takes the address, and no other thread ever will.         *)
Claim(a) == Move(a, "waiting", "active")

Finish(a) == Move(a, "active", "finished")

Next ==
    \/ Begin
    \/ \E a \in Address : Discover(a) \/ Claim(a) \/ Finish(a)

Spec == Init /\ [][Next]_vars
=============================================================================
