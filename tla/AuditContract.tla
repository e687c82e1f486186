---------------------------- MODULE AuditContract ----------------------------
(***************************************************************************)
(* What the audit service promises, with no worker, broker or transaction: *)
(* an accepted audit owes a judgement of each of its conversations; every  *)
(* judged conversation is in the ledger of evaluations, under the audit    *)
(* that evaluated it first; a report is published when nothing is owed; an *)
(* audit that was accepted never goes back to running.                     *)
(***************************************************************************)
CONSTANTS Audits, Convs, None

VARIABLES status,   \* "absent", "running", "active" or "failed"
          owed,     \* the conversations an accepted audit has to judge
          deleted,  \* the conversations withdrawn by their owner
          ledger,   \* the audit that evaluated a conversation
          judged    \* (audit, conversation) pairs judged

contractVars == <<status, owed, deleted, ledger, judged>>

Init ==
  /\ status = [a \in Audits |-> "absent"]
  /\ owed = [a \in Audits |-> {}]
  /\ deleted = {}
  /\ ledger = [c \in Convs |-> None]
  /\ judged = {}

Accept(a) ==
  /\ status[a] = "absent"
  /\ status' = [status EXCEPT ![a] = "running"]
  /\ \E chosen \in (SUBSET Convs) \ {{}} : owed' = [owed EXCEPT ![a] = chosen]
  /\ UNCHANGED <<deleted, ledger, judged>>

Withdraw(c) ==
  /\ c \notin deleted
  /\ deleted' = deleted \cup {c}
  /\ owed' = [a \in Audits |-> owed[a] \ {c}]
  /\ judged' = {j \in judged : j[2] # c}
  /\ UNCHANGED <<status, ledger>>

Judge(a, c) ==
  /\ status[a] # "absent"
  /\ judged' = judged \cup {<<a, c>>}
  /\ ledger' = [ledger EXCEPT ![c] = IF @ = None THEN a ELSE @]
  /\ UNCHANGED <<status, owed, deleted>>

Publish(a) ==
  /\ status[a] # "absent"
  /\ \A c \in owed[a] : <<a, c>> \in judged \/ c \in deleted
  /\ status' = [status EXCEPT ![a] = "active"]
  /\ UNCHANGED <<owed, deleted, ledger, judged>>

Fail(a) ==
  /\ status[a] # "absent"
  /\ status' = [status EXCEPT ![a] = "failed"]
  /\ UNCHANGED <<owed, deleted, ledger, judged>>

Next ==
  \/ \E a \in Audits : Accept(a) \/ Publish(a) \/ Fail(a)
  \/ \E c \in Convs : Withdraw(c)
  \/ \E a \in Audits, c \in Convs : Judge(a, c)

Spec == Init /\ [][Next]_contractVars
=============================================================================
