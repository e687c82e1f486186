------------------------------- MODULE MCReading -------------------------------
(* One caller, a project of its own with two uploads whose ids interleave,   *)
(* and a project of another organization.                                    *)
EXTENDS Reading, TLC

CONSTANTS u1, u2, u3, p1, p2

FourConvs == 1 .. 4
Places == (1 :> u1) @@ (2 :> u2) @@ (3 :> u1) @@ (4 :> u3)
Owners == (u1 :> p1) @@ (u2 :> p1) @@ (u3 :> p2)
TwoAudits == 1 .. 2

\* Bound: the keys of Supabase change only for a caller whose token they sign,
\* and rows are deleted and judged only for the others; both page through what
\* the uploads store.
KeysOrRows ==
  \A r \in Callers : IF UsesJwks(r) THEN gone = {} /\ evaluated = {}
                     ELSE clock = 0 /\ \A k \in Keys : k \notin published
=============================================================================
