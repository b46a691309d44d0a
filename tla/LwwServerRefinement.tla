------------------------- MODULE LwwServerRefinement -------------------------
(***************************************************************************)
(* The server's store implements the promise of LwwLibrary: a history      *)
(* variable collects the changes of every push that is answered            *)
(* "accepted", and the stored units are their join.                        *)
(***************************************************************************)
EXTENDS LwwServer

VARIABLE accepted

NewlyAccepted ==
    {id \in DOMAIN operations' \ DOMAIN operations : operations'[id].outcome = "accepted"}

HistoryInit == Init /\ accepted = {}
RecordAccepted ==
    accepted' = accepted \cup UNION {ChangesOf(operations'[id].digest) : id \in NewlyAccepted}
HistoryNext == Next /\ RecordAccepted
HistorySpec == HistoryInit /\ [][HistoryNext]_<<vars, accepted>>

Library == INSTANCE LwwLibrary WITH library <- units

(* The library is the join of what was accepted: pushing the same changes  *)
(* in another order, in other groups, twice, late or from another device   *)
(* gives the same library.                                                 *)
ImplementsLibrary == Library!LibrarySpec

(* What was accepted has been said for good: pushed again, under another   *)
(* operation or in another grouping, also when its receipt and the         *)
(* recorded versions have expired, its journal rows are gone or the        *)
(* library was restored, it would win nothing.                             *)
AcceptedRequestsAreSpent ==
    \A request \in Requests : ChangesOf(request) \subseteq accepted => Winners(request) = {}
==============================================================================
