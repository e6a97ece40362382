------------------------------- MODULE Index -------------------------------
(***************************************************************************)
(* What the two programs share, as a search sees it: how often each word   *)
(* occurs at each address.  The spider writes one number at a time, so     *)
(* that is all a search may rely on: numbers appear and change one by one, *)
(* in any order, and none goes away.                                       *)
(***************************************************************************)
EXTENDS Naturals

CONSTANTS Url, Word,
          Row  \* the rows <<address, word, quantity>> that may be written

VARIABLE index  \* index[u][w]: quantity of w at u, 0 if there is no row

TypeOK == index \in [Url -> [Word -> Nat]]

Init == index = [u \in Url |-> [w \in Word |-> 0]]

Store(u, w, n) == index' = [index EXCEPT ![u][w] = n]

Next == \E row \in Row : Store(row[1], row[2], row[3])

Spec == Init /\ [][Next]_index
-----------------------------------------------------------------------------
(* The words of a request that occur at an address.  A request may contain *)
(* words that are nowhere.                                                 *)
WordsAt(u, request) == {w \in request \cap Word : index[u][w] > 0}
HasAny(u, request) == WordsAt(u, request) # {}
HasAll(u, request) == WordsAt(u, request) = request
=============================================================================
