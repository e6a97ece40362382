------------------------------- MODULE Fetch -------------------------------
(***************************************************************************)
(* What work_function may rely on when it fetches a page: the fetch comes  *)
(* to one outcome, once.  The outcomes are the statuses an address can     *)
(* have in module Spider.                                                  *)
(***************************************************************************)
VARIABLES startable,  \* whether the operation can be started at all
          outcome

Outcome == {"pending", "ok", "redirect", "refused", "throws", "silent"}

TypeOK == startable \in BOOLEAN /\ outcome \in Outcome

Init == startable \in BOOLEAN /\ outcome = "pending"

(* A fetch that was started is answered or ends the process.               *)
Decide ==
    /\ outcome = "pending"
    /\ startable
    /\ outcome' \in {"ok", "redirect", "refused", "throws"}
    /\ UNCHANGED startable

(* One that was not started is never answered.                             *)
FallSilent ==
    /\ outcome = "pending"
    /\ ~ startable
    /\ outcome' = "silent"
    /\ UNCHANGED startable

Next == Decide \/ FallSilent

Spec == Init /\ [][Next]_<<startable, outcome>>
=============================================================================
