----------------------------- MODULE ImageTypes -----------------------------
(***************************************************************************)
(* ImageLifecycle with the memory that the store lacks: the first type     *)
(* that is not empty of each variant.                                      *)
(***************************************************************************)
EXTENDS ImageLifecycle

VARIABLE firstType

TypeOf(i, v) ==
    IF db[i] = NoImage \/ db[i].downloads[v] = NoDownload THEN NoType
    ELSE db[i].downloads[v].type

HistoryInit == Init /\ firstType = [i \in Images |-> [v \in Variants |-> NoType]]

HistoryNext ==
    /\ Next
    /\ firstType' = [i \in Images |-> [v \in Variants |->
          IF firstType[i][v] = NoType THEN TypeOf(i, v)' ELSE firstType[i][v]]]

HistorySpec == HistoryInit /\ [][HistoryNext]_<<db, firstType>>

\* A variant never has a type other than its first one: what the check in
\* ValidateTransitionFrom of a download is there for ("validate that the type
\* matches the existing type").
TypeMatchesFirst ==
    \A i \in Images : \A v \in Variants : TypeOf(i, v) \in {NoType, firstType[i][v]}
=============================================================================
