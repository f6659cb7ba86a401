---------------------------- MODULE SessionCache ----------------------------
(***************************************************************************)
(* The session keys in Redis: "Account:<id>" holds the session id of a     *)
(* user, "Session:<session id>" the user's id; both live three minutes.    *)
(* CreateSession reads the account key and then runs one of two            *)
(* transactions, so that another login may come in between.                *)
(*                                                                         *)
(* A session id is a fresh GUID, made once per login: it is identified     *)
(* with the request.  KeepAliveSessionFromAccountId and                    *)
(* DeleteSessionFromAccountId have no caller.                              *)
(***************************************************************************)
EXTENDS Naturals

CONSTANTS
    Login,      \* the requests that may log in
    NoSession   \* the account key is not there

ASSUME SessionCacheAssumption == NoSession \notin Login

VARIABLES
    account,    \* the account keys that exist: account id -> session id
    session     \* the session keys that exist: session id -> account id

cacheVars == <<account, session>>

CacheTypeOK ==
    /\ \A id \in DOMAIN account : account[id] \in Login
    /\ DOMAIN session \subseteq Login

CacheInit ==
    /\ account = [id \in {} |-> NoSession]
    /\ session = [s \in {} |-> 0]

\* StringGetAsync(accountKey)
Found(id) == IF id \in DOMAIN account THEN account[id] ELSE NoSession

Set(f, key, value) ==
    [k \in DOMAIN f \cup {key} |-> IF k = key THEN value ELSE f[k]]

Without(f, key) == [k \in DOMAIN f \ {key} |-> f[k]]

\* Mutant of the next definition: the session key is not written.
OnlyAccountSet(s, id, old) ==
    /\ account' = Set(account, id, s)
    /\ session' = Without(session, old)

\* KeyDelete of the session found before, StringSet of both keys.
Replaced(s, id, old) ==
    /\ account' = Set(account, id, s)
    /\ session' = Set(Without(session, old), s, id)

\* Condition.KeyNotExists for both keys
MayCreate(s, id) == id \notin DOMAIN account /\ s \notin DOMAIN session

Committed(s, id, old) ==
    /\ old = NoSession => MayCreate(s, id)
    /\ Replaced(s, id, old)

\* The keys of a session expire; the account key too unless it was set again.
Expire(s) ==
    /\ s \in DOMAIN session
    /\ session' = Without(session, s)
    /\ account' = [id \in {i \in DOMAIN account : account[i] # s} |-> account[id]]
=============================================================================
