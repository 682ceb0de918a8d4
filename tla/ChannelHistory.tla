---------------------------- MODULE ChannelHistory ----------------------------
(***************************************************************************)
(* TransactionManager with two history variables: the parties of the       *)
(* channel that nothing misled and what they read, which is the state of   *)
(* the abstract Channel.                                                   *)
(***************************************************************************)
EXTENDS TransactionManager

VARIABLES parties, contents

Members(op, txs) ==
    {u \in PartiesOf(ChannelOf(op, txs)) : Undisturbed(u, op, txs)}

HistoryInit == Init /\ parties = {} /\ contents = << >>

HistoryNext ==
    /\ Next
    /\ IF log' = log THEN UNCHANGED << parties, contents >>
       ELSE /\ parties' = Members(opening, log')
            /\ contents' =
                   IF parties' = {} THEN ContentsOf(ChannelOf(opening, log'))
                   ELSE DecryptAndCleanChannel(log', CHOOSE u \in parties' : TRUE)

HistorySpec == HistoryInit /\ [][HistoryNext]_<< vars, parties, contents >>

Abstract == INSTANCE Channel

(***************************************************************************)
(* The channel implements its abstract specification: what its undisturbed *)
(* parties read of it only grows, one transaction at a time from the       *)
(* opening on, and none of them ceases to be one.                          *)
(***************************************************************************)
ImplementsChannel == Abstract!Spec
=============================================================================
