---------------------------- MODULE SessionCache ----------------------------
(***************************************************************************)
(* SessionService: one session, the row and the entry of the cache that    *)
(* stands in for it, the permissions its user has, and the requests that   *)
(* present its token.                                                      *)
(*                                                                         *)
(* The cache is reached by calls that are not waited for after 50 ms, and  *)
(* each server process may have one of its own: a call takes effect now,   *)
(* later or never.  Time is in seconds.                                    *)
(***************************************************************************)
EXTENDS Integers, FiniteSets

CONSTANTS
    SessionReaders,   \* overlapping calls of getSessionFromToken
    SessionCacheTTL,  \* authOptions.sessionCacheTTL
    HalfDuration,     \* half of authOptions.sessionDuration
    MaxLag,           \* bound: seconds between the statements of one call
    MaxTime,          \* bound: the last second
    MaxPermissions    \* bound: changes of the user's permissions

ASSUME SessionAssumption ==
    /\ {SessionCacheTTL, MaxLag, MaxTime, MaxPermissions} \subseteq Nat
    /\ HalfDuration \in Nat \ {0}

VARIABLES
    now,          \* the clock
    session,      \* the row: "none", "saved" (not committed), "live", "gone"
    expires,      \* session.expires
    removing,     \* deleteSessionsByUser in a transaction that has not ended
    permissions,  \* the permissions of the user: how often they were changed
    cached,       \* the entries of the cache: at most one
    late,         \* a set() of the cache that has not arrived
    login,        \* createAuthenticatedSessionForUser, with the user it loaded
    reader,       \* reader[r]: a call of getSessionFromToken
    lastTrue      \* history: when each value of permissions, and the session
                  \* itself, was last what the database holds

sessionVars == <<now, session, expires, removing, permissions,
                 cached, late, login, reader, lastTrue>>

Duration == 2 * HalfDuration
Idle == [at |-> "idle", perms |-> 0, expires |-> 0, since |-> 0]
Entry == [perms : Nat, expires : Nat, cacheExpiry : Nat]

SessionTypeOK ==
    /\ now \in 0 .. MaxTime
    /\ session \in {"none", "saved", "live", "gone"}
    /\ expires \in 0 .. MaxTime + Duration
    /\ removing \in BOOLEAN
    /\ permissions \in 0 .. MaxPermissions
    /\ \A c \in {cached, late} : c \subseteq Entry /\ Cardinality(c) <= 1
    /\ \A c \in {login} \cup {reader[r] : r \in SessionReaders} :
          /\ c.at \in {"idle", "loaded", "miss", "extend", "serialize"}
          /\ c.at # "idle" => now <= c.since + MaxLag
    /\ lastTrue.perms \in [0 .. MaxPermissions -> -1 .. MaxTime]

SessionInit ==
    /\ now = 0
    /\ session = "none" /\ expires = 0 /\ removing = FALSE
    /\ permissions = 0
    /\ cached = {} /\ late = {}
    /\ login = Idle /\ reader = [r \in SessionReaders |-> Idle]
    /\ lastTrue = [perms |-> [p \in 0 .. MaxPermissions |-> IF p = 0 THEN 0 ELSE -1],
                   session |-> -1]

-----------------------------------------------------------------------------
(***************************************************************************)
(* The cache.                                                              *)
(***************************************************************************)
\* set(): it arrives, is late or is lost; one call is late at a time.
CacheSet(entry) ==
    \/ cached' = {entry} /\ UNCHANGED late
    \/ late = {} /\ late' = {entry} /\ UNCHANGED cached
    \/ UNCHANGED <<cached, late>>

\* delete() or clear(): it arrives or is lost.
CacheDelete == cached' \in {{}, cached} /\ UNCHANGED late

ArrivesLate ==
    /\ late # {}
    /\ cached' = late /\ late' = {}
    /\ UNCHANGED <<now, session, expires, removing, permissions,
                   login, reader, lastTrue>>

\* Role: afterInsert, afterUpdate, afterRemove.  The cache is cleared before the
\* change commits, and so at any time before ChangePermissions, or a rollback.
ClearSessionCacheOnDataChange ==
    /\ cached # {}
    /\ cached' = {}
    /\ UNCHANGED <<now, session, expires, removing, permissions, late,
                   login, reader, lastTrue>>

Serialized_Eternal(perms, exp) == [perms |-> perms, expires |-> exp, cacheExpiry |-> MaxTime]
Serialized(perms, exp) ==
    [perms |-> perms, expires |-> exp, cacheExpiry |-> now + SessionCacheTTL]

\* Neither stale nor expired.
StillGood(entry) == entry.cacheExpiry >= now /\ entry.expires >= now

-----------------------------------------------------------------------------
(***************************************************************************)
(* Login: the user is loaded, the row written and cached in one            *)
(* transaction.  The client has the token when it is committed.            *)
(***************************************************************************)
LoadUser ==
    /\ session = "none" /\ login = Idle
    /\ login' = [Idle EXCEPT !.at = "loaded", !.perms = permissions, !.since = now]
    /\ UNCHANGED <<now, session, expires, removing, permissions,
                   cached, late, reader, lastTrue>>

CreateNewAuthenticatedSession ==
    /\ login.at = "loaded"
    /\ session' = "saved"
    /\ expires' = now + Duration
    /\ CacheSet(Serialized(login.perms, now + Duration))
    /\ login' = Idle
    /\ UNCHANGED <<now, removing, permissions, reader, lastTrue>>

EndLogin ==
    /\ session = "saved"
    /\ \/ session' = "live" /\ lastTrue' = [lastTrue EXCEPT !.session = now]
       \/ session' = "gone" /\ UNCHANGED lastTrue
    /\ UNCHANGED <<now, expires, removing, permissions, cached, late,
                   login, reader>>

\* deleteSessionsByUser, for a logout, a login or a new password: the entry of
\* the cache is deleted before the transaction commits.
DeleteSessionsByUser ==
    /\ session = "live" /\ ~removing
    /\ removing' = TRUE
    /\ CacheDelete
    /\ UNCHANGED <<now, session, expires, permissions, login, reader,
                   lastTrue>>

EndDelete ==
    /\ removing
    /\ removing' = FALSE
    /\ session' \in {"live", "gone"}
    /\ UNCHANGED <<now, expires, permissions, cached, late, login,
                   reader, lastTrue>>

\* A role, or what roles the user has: AdministratorService.update leaves the
\* cache alone.
ChangePermissions ==
    /\ permissions < MaxPermissions
    /\ permissions' = permissions + 1
    /\ lastTrue' = [lastTrue EXCEPT !.perms[permissions + 1] = now]
    /\ UNCHANGED <<now, session, expires, removing, cached, late, login, reader>>

-----------------------------------------------------------------------------
(***************************************************************************)
(* getSessionFromToken.  A call of the cache that is late counts as a miss.*)
(***************************************************************************)
Presented == session \in {"live", "gone"} /\ lastTrue.session >= 0

\* A request that finds one of these changes nothing.
FoundInCache == IF Presented THEN {entry \in cached : StillGood(entry)} ELSE {}

\* findSessionByToken.  Over half way to its expiry the session is extended.
FindSessionByToken(r) ==
    /\ Presented /\ reader[r] = Idle
    /\ session = "live" /\ expires > now
    /\ reader' = [reader EXCEPT ![r] =
                     IF expires - now < HalfDuration
                     THEN [at |-> "extend", perms |-> permissions,
                           expires |-> now + Duration, since |-> now]
                     ELSE [at |-> "serialize", perms |-> permissions,
                           expires |-> expires, since |-> now]]
    /\ UNCHANGED <<now, session, expires, removing, permissions,
                   cached, late, login, lastTrue>>

Extended_CacheOnly(exp) == expires
Extended(exp) == exp

UpdateSessionExpiry(r) ==
    /\ reader[r].at = "extend"
    /\ expires' = IF session = "live" THEN Extended(reader[r].expires) ELSE expires
    /\ reader' = [reader EXCEPT ![r].at = "serialize"]
    /\ UNCHANGED <<now, session, removing, permissions, cached, late,
                   login, lastTrue>>

CacheAndServe(r) ==
    /\ reader[r].at = "serialize"
    /\ CacheSet(Serialized(reader[r].perms, reader[r].expires))
    /\ reader' = [reader EXCEPT ![r] = Idle]
    /\ UNCHANGED <<now, session, expires, removing, permissions,
                   login, lastTrue>>

\* Time passes; no call takes longer than MaxLag.
Tick ==
    /\ now < MaxTime
    /\ \A c \in {login} \cup {reader[r] : r \in SessionReaders} :
          c.at # "idle" => now < c.since + MaxLag
    /\ now' = now + 1
    /\ lastTrue' = [perms |-> [lastTrue.perms EXCEPT ![permissions] = now + 1],
                    session |-> IF session = "live" THEN now + 1 ELSE lastTrue.session]
    /\ UNCHANGED <<session, expires, removing, permissions, cached,
                   late, login, reader>>

SessionNext ==
    \/ LoadUser \/ CreateNewAuthenticatedSession \/ EndLogin
    \/ DeleteSessionsByUser \/ EndDelete
    \/ ClearSessionCacheOnDataChange \/ ChangePermissions
    \/ \E r \in SessionReaders : \/ FindSessionByToken(r) \/ UpdateSessionExpiry(r)
                                 \/ CacheAndServe(r)
    \/ ArrivesLate \/ Tick

-----------------------------------------------------------------------------
\* What the requests at hand are served.
Served == FoundInCache \cup {reader[r] : r \in {q \in SessionReaders : reader[q].at = "serialize"}}

\* A request is served permissions its user had, and a session that was not
\* deleted, no longer ago than the TTL and the time two calls take: whatever
\* calls to the cache are lost or late, whichever processes have a cache of
\* their own, although the cache is cleared before the change commits, and
\* although a request puts back what a logout has deleted.
ServedSessionsAreRecent ==
    \A s \in Served :
       /\ now <= lastTrue.perms[s.perms] + SessionCacheTTL + MaxLag
       /\ now <= lastTrue.session + SessionCacheTTL + MaxLag

\* session.service.ts:191-196: a session in use does not expire, although most
\* requests never see the row.  While a request is served, the session has at
\* least half its duration left, less what cache and calls may hide.
ActiveSessionSurvives ==
    Served # {} /\ session = "live" =>
       expires >= now + HalfDuration - SessionCacheTTL - MaxLag
=============================================================================
