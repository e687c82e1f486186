-------------------------------- MODULE Access --------------------------------
(***************************************************************************)
(* Who a caller is: the token of a request, checked with the shared secret *)
(* or with the keys of Supabase that the process keeps for an hour, and    *)
(* its organization, from the claim or from the users table that bootstrap *)
(* fills.  Supabase may rotate its keys and may not answer; the database   *)
(* may not answer either.                                                  *)
(*                                                                         *)
(* httpx.get blocks the event loop, so no request sees another's fetch     *)
(* half done.  Tokens are genuine and have not expired: a token is the key *)
(* that signs it and whether it carries org_id.                            *)
(***************************************************************************)
EXTENDS Naturals

CONSTANTS Callers,     \* the signed-in users of one organization
          Keys,        \* the key ids Supabase may publish
          Secret,      \* signs the legacy HS256 tokens; no key id
          Ttl,         \* _JWKS_TTL_SECONDS in ticks of the clock
          MaxClock     \* bound on the clock

ASSUME AccessAssumption ==
  /\ Secret \notin Keys
  /\ Ttl \in Nat \ {0}
  /\ MaxClock \in Nat

VARIABLES
  clock,       \* time.monotonic()
  published,   \* the key ids in Supabase's JWKS document
  changed,     \* when a key id last entered or left it
  held,        \* whether keys were ever fetched
  keys,        \* the kept key ids
  fetchedAt,   \* when they were fetched
  users,       \* callers with a row in the users table
  token,       \* [key, claim]: what the token of a caller is
  access       \* how far the request of a caller has got

accessVars == <<clock, published, changed, held, keys, fetchedAt, users, token, access>>

Outside == {"out", "refused"}    \* no request of the caller is being served

AccessInit ==
  /\ clock = 0
  /\ published \in SUBSET Keys
  /\ changed = [k \in Keys |-> 0]
  /\ held = FALSE
  /\ keys = {}
  /\ fetchedAt = 0
  /\ users = {}
  /\ token \in [Callers -> [key : Keys \cup {Secret}, claim : BOOLEAN]]
  /\ access = [r \in Callers |-> "out"]

Tick ==
  /\ clock < MaxClock
  /\ clock' = clock + 1
  /\ UNCHANGED <<published, changed, held, keys, fetchedAt, users, token, access>>

\* Supabase publishes a key or withdraws one.
Rotate(k) ==
  /\ published' = IF k \in published THEN published \ {k} ELSE published \cup {k}
  /\ changed' = [changed EXCEPT ![k] = clock]
  /\ UNCHANGED <<clock, held, keys, fetchedAt, users, token, access>>

\* Bug: every use of the kept keys renews their hour.
FetchedAt_Sliding(r, up) == IF up \/ held THEN clock ELSE fetchedAt

\* The kept keys are used while they are young; otherwise they are fetched, and
\* a failed fetch leaves the old ones, unused.
IsFresh == held /\ clock - fetchedAt < Ttl
UsesJwks(r) == token[r].key # Secret
Fetches(r, up) == UsesJwks(r) /\ ~IsFresh /\ up
FetchedAt(r, up) == IF Fetches(r, up) THEN clock ELSE fetchedAt

\* The kept keys after a request, with the answer of Supabase if it is asked.
FetchJwks(r, up) ==
  /\ held' = (held \/ Fetches(r, up))
  /\ keys' = IF Fetches(r, up) THEN published ELSE keys
  /\ fetchedAt' = FetchedAt(r, up)

\* The shared secret first, then the key of the token's kid.
IsVerified(r, up) ==
  \/ ~UsesJwks(r)
  \/ IsFresh /\ token[r].key \in keys
  \/ Fetches(r, up) /\ token[r].key \in published

\* The dependency of every endpoint but bootstrap.
Authenticate(r, up) ==
  /\ access[r] = "out"
  /\ FetchJwks(r, up)
  /\ access' = [access EXCEPT ![r] =
                  IF ~IsVerified(r, up) THEN "refused"
                  ELSE IF token[r].claim THEN "in" ELSE "resolve"]
  /\ UNCHANGED <<clock, published, changed, users, token>>

\* A token without an org_id claim: the users row, 403 without one.
ResolveOrg(r, dbUp) ==
  /\ access[r] = "resolve"
  /\ access' = [access EXCEPT ![r] = IF r \in users /\ dbUp THEN "in" ELSE "refused"]
  /\ UNCHANGED <<clock, published, changed, held, keys, fetchedAt, users, token>>

\* POST /auth/bootstrap: the identity alone, then the row if there is none.
Bootstrap(r, up) ==
  /\ access[r] \in Outside
  /\ FetchJwks(r, up)
  /\ users' = IF IsVerified(r, up) THEN users \cup {r} ELSE users
  /\ UNCHANGED <<clock, published, changed, token, access>>

\* The caller tries again after a 401, a 403 or an answer.
Leave(r) ==
  /\ access' = [access EXCEPT ![r] = "out"]
  /\ UNCHANGED <<clock, published, changed, held, keys, fetchedAt, users, token>>

AccessStep ==
  \/ Tick
  \/ \E k \in Keys : Rotate(k)
  \/ \E r \in Callers, up \in BOOLEAN :
       Authenticate(r, up) \/ ResolveOrg(r, up) \/ Bootstrap(r, up)
-----------------------------------------------------------------------------
AccessTypeOK ==
  /\ clock \in Nat
  /\ published \subseteq Keys
  /\ changed \in [Keys -> Nat]
  /\ held \in BOOLEAN
  /\ keys \subseteq Keys
  /\ fetchedAt \in Nat
  /\ users \subseteq Callers
  /\ token \in [Callers -> [key : Keys \cup {Secret}, claim : BOOLEAN]]
  /\ access \in [Callers -> {"out", "refused", "resolve", "in"}]

ChangedLately(k) == clock - changed[k] < Ttl

\* "cached for 1 hour": a request is let in with a key only while Supabase
\* publishes that key or withdrew it less than a cache life ago, and is turned
\* away with current keys at hand only if its key is not published or has been
\* for less than that, however often the keys are used meanwhile.
KeysFollowRotation ==
  [][\A r \in Callers :
       LET k == token[r].key
       IN  access[r] = "out" /\ UsesJwks(r) =>
             /\ access'[r] \in {"resolve", "in"} => k \in published \/ ChangedLately(k)
             /\ access'[r] = "refused" /\ IsFresh' => k \notin published \/ ChangedLately(k)
    ]_accessVars
=============================================================================
