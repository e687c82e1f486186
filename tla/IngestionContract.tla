-------------------------- MODULE IngestionContract --------------------------
(***************************************************************************)
(* What the ingestion of files promises, with no worker, broker or         *)
(* transaction: an accepted file owes each of its conversations; the first *)
(* file that stores one has it for good, with its messages, once; nothing  *)
(* is stored from a file whose bytes are gone, and they go only when       *)
(* nothing is owed; a file without conversations is never completed; what  *)
(* is deleted stays deleted, whatever is uploaded again.                   *)
(***************************************************************************)
CONSTANTS Uploads, Ids, None

VARIABLES phase,     \* of an upload: "absent", "open", "completed" or "failed"
          owed,      \* the conversations of an accepted file
          kept,      \* whether its bytes are kept
          gone,      \* the uploads deleted by their owner
          owner,     \* the upload that stored a conversation
          messages,  \* how many copies of its messages there are
          hidden     \* the conversations deleted, alone or with their upload

contractVars == <<phase, owed, kept, gone, owner, messages, hidden>>

Init ==
  /\ phase = [u \in Uploads |-> "absent"]
  /\ owed = [u \in Uploads |-> {}]
  /\ kept = [u \in Uploads |-> FALSE]
  /\ gone = {}
  /\ owner = [i \in Ids |-> None]
  /\ messages = [i \in Ids |-> 0]
  /\ hidden = {}

Accept(u) ==
  /\ phase[u] = "absent"
  /\ phase' = [phase EXCEPT ![u] = "open"]
  /\ \E ids \in SUBSET Ids : owed' = [owed EXCEPT ![u] = ids]
  /\ kept' = [kept EXCEPT ![u] = TRUE]
  /\ UNCHANGED <<gone, owner, messages, hidden>>

Store(u, i) ==
  /\ kept[u]
  /\ i \in owed[u]
  /\ owner[i] = None
  /\ owner' = [owner EXCEPT ![i] = u]
  /\ messages' = [messages EXCEPT ![i] = 1]
  /\ UNCHANGED <<phase, owed, kept, gone, hidden>>

\* A run begins, for the first time or again.
Open(u) ==
  /\ phase[u] # "absent"
  /\ phase' = [phase EXCEPT ![u] = "open"]
  /\ UNCHANGED <<owed, kept, gone, owner, messages, hidden>>

Complete(u) ==
  /\ phase[u] # "absent"
  /\ owed[u] # {} /\ \A i \in owed[u] : owner[i] # None
  /\ phase' = [phase EXCEPT ![u] = "completed"]
  /\ kept' = [kept EXCEPT ![u] = FALSE]
  /\ UNCHANGED <<owed, gone, owner, messages, hidden>>

Fail(u) ==
  /\ phase[u] # "absent"
  /\ phase' = [phase EXCEPT ![u] = "failed"]
  /\ UNCHANGED <<owed, kept, gone, owner, messages, hidden>>

WithdrawUpload(u) ==
  /\ phase[u] # "absent"
  /\ gone' = gone \cup {u}
  /\ hidden' = hidden \cup {i \in Ids : owner[i] = u}
  /\ UNCHANGED <<phase, owed, kept, owner, messages>>

WithdrawConversation(i) ==
  /\ owner[i] # None
  /\ hidden' = hidden \cup {i}
  /\ UNCHANGED <<phase, owed, kept, gone, owner, messages>>

Next ==
  \/ \E u \in Uploads :
       Accept(u) \/ Open(u) \/ Complete(u) \/ Fail(u) \/ WithdrawUpload(u)
  \/ \E u \in Uploads, i \in Ids : Store(u, i)
  \/ \E i \in Ids : WithdrawConversation(i)

Spec == Init /\ [][Next]_contractVars
=============================================================================
