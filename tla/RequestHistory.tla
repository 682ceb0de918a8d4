---------------------------- MODULE RequestHistory ---------------------------
(***************************************************************************)
(* RequestLogic with a history variable: `request` is the confirmed        *)
(* request a client would read from the channel in each state, with what   *)
(* is pending in it.  It is the refinement mapping to RequestLifecycle.    *)
(***************************************************************************)
EXTENDS RequestLogic

VARIABLE request

HistoryInit == Init /\ request = None

HistoryNext ==
    /\ Next
    /\ request' = IF UNCHANGED << log, pendingItem >> THEN request
                  ELSE ComputeFromRequestId(ByChannel(log', pendingItem')).confirmed

HistorySpec == HistoryInit /\ [][HistoryNext]_<< vars, request >>

Lifecycle == INSTANCE RequestLifecycle WITH MaxEvents <- MaxLog

(***************************************************************************)
(* Refinement: the confirmed request read from the channel behaves like    *)
(* the request of RequestLifecycle.  Each confirmation applies one signed  *)
(* action to it or leaves it as it is, whatever was submitted, replayed,   *)
(* reordered, dropped or still pending, and nothing is ever rewritten.     *)
(***************************************************************************)
ImplementsLifecycle == Lifecycle!Spec
=============================================================================
