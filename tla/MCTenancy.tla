----------------------------- MODULE MCTenancy -----------------------------
(* A project with an upload and its conversation, message, suggestion and   *)
(* audit, and what later transactions add to it.                            *)
EXTENDS Tenancy

CONSTANTS r1, r2, r3,
  p1, ag, u1, c1, m1, e1, au, im, ic, fl, ar, c2, m2, s1,
  store, evaluate, supervise, id1, slug1, file1

Tables ==
  (p1 :> "projects") @@ (ag :> "agents") @@ (u1 :> "uploads") @@
  (c1 :> "conversations") @@ (m1 :> "messages") @@ (e1 :> "evaluations") @@
  (au :> "audits") @@ (im :> "improvements") @@
  (ic :> "improvement_conversations") @@ (fl :> "flows") @@
  (ar :> "agent_reputation") @@ (c2 :> "conversations") @@ (m2 :> "messages") @@
  (s1 :> "supervisors")

AllRows == DOMAIN Tables

Above ==
  (p1 :> {}) @@ (ag :> {p1}) @@ (u1 :> {p1}) @@
  (c1 :> {p1, u1}) @@ (m1 :> {p1, c1}) @@ (e1 :> {p1, c1}) @@
  (au :> {p1}) @@ (im :> {p1, fl}) @@ (ic :> {p1, im, c1}) @@ (fl :> {p1}) @@
  (ar :> {p1}) @@ (c2 :> {p1, u1}) @@ (m2 :> {p1, c2}) @@ (s1 :> {p1})

Fresh == {p1}
Full == AllRows \ {e1, s1}

Needs == (store :> {u1}) @@ (evaluate :> {c1}) @@ (supervise :> {p1})
Updated == (store :> <<>>) @@ (evaluate :> <<ar, au>>) @@ (supervise :> <<>>)
Added == (store :> {c2, m2}) @@ (evaluate :> {e1}) @@ (supervise :> {s1})

StartSets == {Fresh, Full \ {c2, m2}, Full}
RootRows == {p1, u1, c1, fl, s1}
WriterOps == {store, evaluate, supervise}
CreateOps == {id1, slug1, file1}
ThreeRequests == {r1, r2, r3}
Symmetry == Permutations(ThreeRequests)
=============================================================================
