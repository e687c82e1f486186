---------------------------- MODULE FlowContract ----------------------------
(***************************************************************************)
(* What the history of a flow promises, with no requests, locks or         *)
(* transactions: a flow has a content and a chain of versions that only    *)
(* grows.  A change of the content and the version that records it are one *)
(* step; any other version is of a content that the flow has had; a delete *)
(* keeps the content and the chain.                                        *)
(***************************************************************************)
EXTENDS Sequences

CONSTANTS Jsons

VARIABLES content,  \* what the flow holds
          past,     \* what it holds or has held
          chain,    \* the contents of its versions, by their numbers
          gone      \* whether it was deleted

contractVars == <<content, past, chain, gone>>

Init ==
  /\ content \in Jsons
  /\ past = {content}
  /\ chain \in {<<>>, <<content>>}
  /\ gone = FALSE

\* An update, or the return to an earlier version.
Change(j) ==
  /\ content' = j
  /\ past' = past \cup {j}
  /\ chain' = Append(chain, j)
  /\ UNCHANGED gone

\* The first version of an old flow, or one of a content that was read before.
Snapshot(j) ==
  /\ j \in past
  /\ chain' = Append(chain, j)
  /\ UNCHANGED <<content, past, gone>>

Delete == gone' = TRUE /\ UNCHANGED <<content, past, chain>>

Next == Delete \/ \E j \in Jsons : Change(j) \/ Snapshot(j)

Spec == Init /\ [][Next]_contractVars
=============================================================================
