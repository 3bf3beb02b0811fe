------------------------------ MODULE Identity ------------------------------
(***************************************************************************)
(* Sign-in at an OIDC provider (identity/): the routes login, callback and *)
(* exchange, the two maps of one-time values in the memory of the process, *)
(* and the session token.                                                  *)
(*                                                                         *)
(* A Login is one visit of /login by the browser of the principal Subject; *)
(* its state parameter bears its name.  A Callback is one request of       *)
(* /callback with that state: a browser may repeat it.  The handoff code   *)
(* bears the name of the callback that made it.  The provider, its         *)
(* signatures and PKCE are external: it vouches for the Subject of the     *)
(* login, or refuses.  The user is stored by a mutation (Authorization),   *)
(* whose commit is an action of ControlPlane.  The sweep of a map with 200 *)
(* entries is left out: it removes what takeOnce would refuse.             *)
(***************************************************************************)
EXTENDS Authorization

CONSTANTS
    Logins,
    Subject,           \* [Logins -> Principals]
    LoginOf,           \* [Callbacks -> Logins]
    LoginTTL, HandoffTTL, SessionTTL

ASSUME IdentityAssumption ==
    /\ Subject \in [Logins -> Principals]
    /\ LoginOf \in [Callbacks -> Logins]
    /\ LoginTTL \in Nat /\ HandoffTTL \in Nat /\ SessionTTL \in Nat
    /\ MaxTime \in Nat

VARIABLES
    metadata,          \* the discovery document: the cached promise
    login,             \* where each login is
    callback,          \* where each callback is
    pendingLogins,     \* when the state of each login expires
    handoffCodes,      \* the code made by each callback: [user, minted, expires]
    sessions,          \* the tokens that browsers hold
    delivered          \* history: times each code was exchanged for its token

identityVars ==
    <<metadata, login, callback, pendingLogins, handoffCodes, sessions, delivered>>

Handoff == [user : Users, minted : Time, expires : Nat]
Session == [callback : Callbacks \cup {None}, user : Users, minted : Time, taken : Time]

IdentityTypeOK ==
    /\ metadata \in {"none", "pending", "cached"}
    /\ login \in [Logins -> {"idle", "discovering", "redirected"}]
    /\ callback \in [Callbacks -> {"idle", "exchanging", "provisioning", "minting",
                                   "done", "refused"}]
    /\ pendingLogins \in [Logins -> Nat \cup {None}]
    /\ handoffCodes \in [Callbacks -> Handoff \cup {None}]
    /\ sessions \subseteq Session
    /\ delivered \in [Callbacks -> Nat]

\* Principals that are known at first hold a session.
IdentityInit(known) ==
    /\ metadata = "none"
    /\ login = [l \in Logins |-> "idle"]
    /\ callback = [c \in Callbacks |-> "idle"]
    /\ pendingLogins = [l \in Logins |-> None]
    /\ handoffCodes = [c \in Callbacks |-> None]
    /\ sessions = [callback : {None}, user : known, minted : {0}, taken : {0}]
    /\ delivered = [c \in Callbacks |-> 0]

-----------------------------------------------------------------------------
\* The state of the logins in L is stored and their browsers are sent away.
Redirect(L) ==
    /\ pendingLogins' = [l \in Logins |-> IF l \in L THEN now + LoginTTL
                                          ELSE pendingLogins[l]]
    /\ login' = [l \in Logins |-> IF l \in L THEN "redirected" ELSE login[l]]

\* GET /login: all logins share one request for the discovery document.
StartLogin(l) ==
    /\ login[l] = "idle"
    /\ \/ /\ metadata = "cached"
          /\ Redirect({l})
          /\ UNCHANGED metadata
       \/ /\ metadata # "cached"
          /\ metadata' = "pending"
          /\ login' = [login EXCEPT ![l] = "discovering"]
          /\ UNCHANGED pendingLogins
    /\ UNCHANGED <<callback, handoffCodes, sessions, delivered>>

Discovered ==
    /\ metadata = "pending"
    /\ metadata' = "cached"
    /\ Redirect({l \in Logins : login[l] = "discovering"})
    /\ UNCHANGED <<callback, handoffCodes, sessions, delivered>>

\* A failure is not cached: all who wait are answered 503 and may try again.
DiscoveryFails ==
    /\ metadata = "pending"
    /\ metadata' = "none"
    /\ login' = [l \in Logins |-> IF login[l] = "discovering" THEN "idle" ELSE login[l]]
    /\ UNCHANGED <<callback, pendingLogins, handoffCodes, sessions, delivered>>

Valid(expires) == expires # None /\ expires >= now

\* Bug: only the sweep removes entries.
Kept(entries, key) == entries

\* takeOnce: the entry is gone whether or not it was still valid.
Taken(entries, key) == [entries EXCEPT ![key] = None]

Callback(c) ==
    LET l == LoginOf[c] IN
    /\ login[l] = "redirected"
    /\ callback[c] = "idle"
    /\ pendingLogins' = Taken(pendingLogins, l)
    /\ callback' = [callback EXCEPT
          ![c] = IF Valid(pendingLogins[l]) THEN "exchanging" ELSE "refused"]
    /\ UNCHANGED <<metadata, login, handoffCodes, sessions, delivered>>

\* The code is exchanged and the id_token verified, or one of them is not.
Exchanged(c) ==
    /\ callback[c] = "exchanging"
    /\ callback' = [callback EXCEPT ![c] = "provisioning"]
    /\ UNCHANGED <<metadata, login, pendingLogins, handoffCodes, sessions, delivered>>

ExchangeFails(c) ==
    /\ callback[c] = "exchanging"
    /\ callback' = [callback EXCEPT ![c] = "refused"]
    /\ UNCHANGED <<metadata, login, pendingLogins, handoffCodes, sessions, delivered>>

\* The user is stored, or the store refused: the continuation of the mutation.
UserStored(c, ok) ==
    /\ callback' = [callback EXCEPT ![c] = IF ok THEN "minting" ELSE "refused"]
    /\ UNCHANGED <<metadata, login, pendingLogins, handoffCodes, sessions, delivered>>

\* Bug: the token is dated when its code expires.
CodeDatedLate(u) == [user |-> u, minted |-> now + HandoffTTL, expires |-> now + HandoffTTL]

CodeFor(u) == [user |-> u, minted |-> now, expires |-> now + HandoffTTL]

\* The token is signed and a code for it is put into the redirect.
HandOff(c) ==
    /\ callback[c] = "minting"
    /\ callback' = [callback EXCEPT ![c] = "done"]
    /\ handoffCodes' = [handoffCodes EXCEPT ![c] = CodeFor(UserOf(db, Subject[LoginOf[c]]))]
    /\ UNCHANGED <<metadata, login, pendingLogins, sessions, delivered>>

\* POST /exchange; one that finds no code changes nothing.
Exchange(c) ==
    LET code == handoffCodes[c] IN
    /\ code # None
    /\ handoffCodes' = Taken(handoffCodes, c)
    /\ \/ /\ Valid(code.expires)
          /\ sessions' = sessions \cup {[callback |-> c, user |-> code.user,
                                         minted |-> code.minted, taken |-> now]}
          /\ delivered' = [delivered EXCEPT ![c] = @ + 1]
       \/ /\ ~Valid(code.expires)
          /\ UNCHANGED <<sessions, delivered>>
    /\ UNCHANGED <<metadata, login, callback, pendingLogins>>

IdentityStep ==
    \/ Discovered \/ DiscoveryFails
    \/ \E c \in Callbacks : Callback(c) \/ ExchangeFails(c) \/ HandOff(c) \/ Exchange(c)

\* The maps and the cache are in memory; the tokens are stateless and stay good.
IdentityRestarts ==
    /\ metadata' = "none"
    /\ login' = [l \in Logins |-> IF login[l] = "discovering" THEN "idle" ELSE login[l]]
    /\ callback' = [c \in Callbacks |-> IF callback[c] \in {"idle", "done"}
                                        THEN callback[c] ELSE "refused"]
    /\ pendingLogins' = [l \in Logins |-> None]
    /\ handoffCodes' = [c \in Callbacks |-> None]
    /\ UNCHANGED <<sessions, delivered>>

\* verifySessionToken, and the user it names exists.
HoldsSession(u) ==
    Known(db, u) /\ \E s \in sessions : s.user = u /\ s.minted + SessionTTL > now
=============================================================================
