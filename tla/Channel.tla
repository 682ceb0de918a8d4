-------------------------------- MODULE Channel --------------------------------
(***************************************************************************)
(* What the transaction manager promises (abstract specification): a       *)
(* channel is a list of data that its parties read and extend.  A clear    *)
(* channel belongs to everybody.  An encrypted one belongs to the parties  *)
(* it was opened for and to those whom a party added, who then read it     *)
(* from its beginning.                                                     *)
(***************************************************************************)
EXTENDS Sequences

CONSTANTS Users, Opening, Updates

VARIABLES parties, contents
vars == << parties, contents >>

Init == parties = {} /\ contents = << >>

Open ==
    /\ contents = << >>
    /\ contents' = << Opening >>
    /\ parties' \subseteq Users

AddData(data) ==
    /\ contents # << >>
    /\ contents' = Append(contents, data)
    /\ parties \subseteq parties' /\ parties' \subseteq Users

Next ==
    \/ Open
    \/ \E data \in Updates \cup {Opening} : AddData(data)

Spec == Init /\ [][Next]_vars
=============================================================================
