----------------------------- MODULE MCDataAccess -----------------------------
(***************************************************************************)
(* Model checking of DataAccess.  Channels share no state, so one channel  *)
(* is enough.  Two calls on it, the creation with its topic and an update  *)
(* without, make every race of a pending item with the next one, and one   *)
(* client reads besides the reads of the confirmations.                    *)
(***************************************************************************)
EXTENDS DataAccess

CONSTANTS creation, update, request

ChannelOf == [c \in Calls |-> request]
=============================================================================
