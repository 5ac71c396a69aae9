--------------------------- MODULE Administrators ---------------------------
(***************************************************************************)
(* AdministratorService and RoleService, as far as the SuperAdmin role     *)
(* goes: the rows of administrators and of their users, the requests that  *)
(* change them, and what every process does when it starts.                *)
(*                                                                         *)
(* Requests are transactions.  Starting is not: each of its statements is  *)
(* seen at once, and the process may end between two of them.              *)
(***************************************************************************)
EXTENDS Naturals, FiniteSets

CONSTANTS
    Admins,         \* the administrators there may ever be
    AdminRequests,  \* overlapping requests
    Servers,        \* processes that start; a server makes sure there is a
    WorkerProcs,    \* superadmin, a worker of the roles only
    MaxSuperRoles,  \* bound: rows with the code of the SuperAdmin role
    MaxStarts,      \* bound: starts of processes
    MaxAdminCalls   \* bound: requests that are ever begun

ASSUME AdministratorsAssumption == {MaxSuperRoles, MaxStarts, MaxAdminCalls} \subseteq Nat

VARIABLES
    superRoles,  \* the rows with that code: their ids
    admin,       \* admin[a]: its row, the row of its user, the SuperAdmin roles
                 \* its user has
    configured,  \* whose user has the identifier of superadminCredentials
    calling,     \* calling[r]: a request
    starting,    \* starting[p]: how far the start of p is
    starts,      \* starts so far
    calls,       \* requests begun so far
    guaranteed,  \* history: a server has started, and nothing since then was
                 \* of the kind that may leave no superadmin
    calm         \* history: processes whose start has overlapped nothing

adminVars == <<superRoles, admin, configured, calling, starting, starts, calls,
               guaranteed, calm>>

NoAdmin == "no administrator"
Blank == [row |-> "none", user |-> "none", roles |-> {}]
NotCalling == [at |-> "idle", kind |-> "none", on |-> {}, want |-> {}, drop |-> {},
               revives |-> {}, named |-> "keep"]
NotStarting == [at |-> "off", on |-> NoAdmin, seen |-> {}]

Processes == Servers \cup WorkerProcs
Calling(r) == calling[r] # NotCalling
Effective(a) == admin[a].row = "live" /\ admin[a].user = "live" /\ admin[a].roles # {}

AdminsTypeOK ==
    /\ superRoles \subseteq 1 .. MaxSuperRoles
    /\ \A a \in Admins : /\ {admin[a].row, admin[a].user} \subseteq {"none", "live", "gone"}
                         /\ admin[a].roles \subseteq superRoles
                         /\ admin[a].user = "none" => admin[a] = Blank
    /\ configured \in Admins \cup {NoAdmin}
    /\ \A r \in AdminRequests : /\ calling[r].at \in {"idle", "loaded", "row saved", "saved"}
                                /\ calling[r].on \subseteq Admins
    /\ \A p \in Processes : /\ starting[p].at \in {"off", "role", "no role", "user", "new user",
                                   "new row", "first role", "revive", "row", "own role"}
                            /\ starting[p].seen \subseteq superRoles
    /\ guaranteed \in BOOLEAN /\ calm \subseteq Processes

AdminsInit ==
    /\ superRoles = {}
    /\ admin = [a \in Admins |-> Blank]
    /\ configured = NoAdmin
    /\ calling = [r \in AdminRequests |-> NotCalling]
    /\ starting = [p \in Processes |-> NotStarting]
    /\ starts = 0 /\ calls = 0
    /\ guaranteed = FALSE /\ calm = {}

-----------------------------------------------------------------------------
(***************************************************************************)
(* The start of a process.                                                 *)
(***************************************************************************)
Launch(p) ==
    /\ starting[p] = NotStarting /\ starts < MaxStarts
    /\ starting' = [starting EXCEPT ![p].at = "role"]
    /\ starts' = starts + 1
    /\ calm' = IF /\ \A q \in Processes : starting[q] = NotStarting
                  /\ \A r \in AdminRequests : ~Calling(r)
               THEN {p} ELSE {}
    /\ UNCHANGED <<superRoles, admin, configured, calling, calls, guaranteed>>

WithRoles(p) == IF p \in Servers THEN "user" ELSE "off"

\* ensureSuperAdminRoleExists: whatever goes wrong with the role that was found
\* means that there is none.
EnsureSuperAdminRole(p) ==
    /\ starting[p].at = "role"
    /\ \/ starting' = [starting EXCEPT ![p].at = "no role"]
       \/ superRoles # {} /\ starting' = [starting EXCEPT ![p].at = WithRoles(p)]
    /\ UNCHANGED <<superRoles, admin, configured, calling, starts, calls, guaranteed, calm>>

CreateSuperAdminRole(p) ==
    /\ starting[p].at = "no role" /\ Cardinality(superRoles) < MaxSuperRoles
    /\ superRoles' = superRoles \cup {Cardinality(superRoles) + 1}
    /\ starting' = [starting EXCEPT ![p].at = WithRoles(p)]
    /\ UNCHANGED <<admin, configured, calling, starts, calls, guaranteed, calm>>

\* ensureSuperAdminExists; soft-deleted rows are looked at too.
FindSuperAdminUser(p) ==
    /\ starting[p].at = "user"
    /\ starting' = [starting EXCEPT ![p] =
          IF configured = NoAdmin THEN [@ EXCEPT !.at = "new user"]
          ELSE [at |-> IF admin[configured].user = "gone" THEN "revive" ELSE "row",
                on |-> configured, seen |-> admin[configured].roles]]
    /\ UNCHANGED <<superRoles, admin, configured, calling, starts, calls, guaranteed, calm>>

\* The identifier of a user is UNIQUE.
NewSuperAdminUser(p) ==
    /\ starting[p].at = "new user" /\ configured = NoAdmin
    /\ \E a \in Admins :
          /\ admin[a] = Blank
          /\ \A r \in AdminRequests : a \notin calling[r].on
          /\ admin' = [admin EXCEPT ![a].user = "live"]
          /\ configured' = a
          /\ starting' = [starting EXCEPT ![p] = [at |-> "new row", on |-> a, seen |-> {}]]
    /\ UNCHANGED <<superRoles, calling, starts, calls, guaranteed, calm>>

\* save() of the user: its roles are made those of the entity, and it is live.
SaveSuperAdminUser(p, roles) ==
    admin' = [admin EXCEPT ![starting[p].on].user = "live", ![starting[p].on].roles = roles]

\* A role that was granted after the user was read is written away.
TakesRole(p, roles) == admin[starting[p].on].roles \ roles # {}

ReviveUser(p) ==
    /\ starting[p].at = "revive"
    /\ SaveSuperAdminUser(p, starting[p].seen)
    /\ starting' = [starting EXCEPT ![p].at = "row"]
    /\ guaranteed' = (guaranteed /\ ~TakesRole(p, starting[p].seen))
    /\ UNCHANGED <<superRoles, configured, calling, starts, calls, calm>>

\* One row for each user: user_id is UNIQUE.
EnsureAdministrator(p) ==
    LET a == starting[p].on IN
    /\ \/ starting[p].at = "row"
       \/ starting[p].at = "new row" /\ admin[a].row = "none"
    /\ admin' = [admin EXCEPT ![a].row = "live"]
    /\ starting' = [starting EXCEPT ![p].at = IF @ = "row" THEN "own role" ELSE "first role"]
    /\ UNCHANGED <<superRoles, configured, calling, starts, calls, guaranteed, calm>>

\* The administrator that was created is loaded again, and must still be live.
LoadNewAdministrator(p) ==
    LET a == starting[p].on IN
    /\ starting[p].at = "first role"
    /\ admin[a].row = "live" /\ admin[a].user = "live"
    /\ starting' = [starting EXCEPT ![p].at = "own role", ![p].seen = admin[a].roles]
    /\ UNCHANGED <<superRoles, admin, configured, calling, starts, calls, guaranteed, calm>>

Missing(seen) == superRoles \ seen

\* getSuperAdminRole finds one of the rows.
EnsureRole(p) ==
    LET seen == starting[p].seen IN
    /\ starting[p].at = "own role"
    /\ \/ \E role \in Missing(seen) :
             /\ SaveSuperAdminUser(p, seen \cup {role})
             /\ guaranteed' = (p \in calm \/ (guaranteed /\ ~TakesRole(p, seen \cup {role})))
       \/ /\ Missing(seen) # superRoles
          /\ guaranteed' = (p \in calm \/ guaranteed)
          /\ UNCHANGED admin
    /\ starting' = [starting EXCEPT ![p] = NotStarting]
    /\ UNCHANGED <<superRoles, configured, calling, starts, calls, calm>>

\* The process ends, or a statement is refused and the start with it.
StartFails(p) ==
    /\ starting[p].at # "off"
    /\ starting' = [starting EXCEPT ![p] = NotStarting]
    /\ UNCHANGED <<superRoles, admin, configured, calling, starts, calls, guaranteed, calm>>

-----------------------------------------------------------------------------
(***************************************************************************)
(* Requests, of an administrator whose user is live.                       *)
(***************************************************************************)
Call(r, call) ==
    /\ ~Calling(r) /\ calls < MaxAdminCalls
    /\ \E a \in Admins : admin[a].user = "live"
    /\ calls' = calls + 1
    /\ calling' = [calling EXCEPT ![r] = call]
    /\ calm' = {}
    /\ UNCHANGED <<superRoles, admin, configured, starting, starts, guaranteed>>

\* What a request may grant of the SuperAdmin role: whoever grants it has it.
Grantable ==
    {{}} \cup (IF \E a \in Admins : Effective(a) THEN {{role} : role \in superRoles} ELSE {})

\* findOne, with its user.
LiveAdmins == {a \in Admins : admin[a].row = "live" /\ admin[a].user = "live"}

Unused(a) == admin[a] = Blank /\ \A q \in AdminRequests : a \notin calling[q].on

CreateAdministrator(r) ==
    \E a \in Admins, roles \in Grantable, named \in {"other", "configured"} :
       /\ Unused(a)
       /\ Call(r, [NotCalling EXCEPT !.at = "saved", !.kind = "create", !.on = {a}, !.want = roles,
                                     !.revives = {"row", "user"}, !.named = named])

\* update, with roleIds or without, with another address or without.  Without
\* either the user is not saved.
UpdateAdministrator(r) ==
    \E a \in LiveAdmins, named \in {"keep", "other", "configured"} :
       \/ \E roles \in Grantable :
             Call(r, [NotCalling EXCEPT !.at = "loaded", !.kind = "update", !.on = {a},
                                        !.want = roles, !.named = named])
       \/ Call(r, [NotCalling EXCEPT !.at = "loaded", !.on = {a}, !.want = admin[a].roles,
                       !.kind = IF named = "keep" THEN "patch" ELSE "update", !.named = named])

\* assignRole: the role is added to those that were loaded.
AssignRole(r) ==
    \E a \in LiveAdmins, roles \in Grantable :
       Call(r, [NotCalling EXCEPT !.at = "row saved", !.kind = "assign", !.on = {a},
                                  !.want = admin[a].roles \cup roles])

\* save() of the row, and of the user: what was soft-deleted in the meantime is
\* written back as it was, and so are the roles.
SaveAdministrator(r) ==
    LET c == calling[r] IN
    /\ c.at = "loaded"
    /\ \E a \in c.on :
          calling' = [calling EXCEPT
             ![r].at = IF c.kind = "patch" THEN "saved" ELSE "row saved",
             ![r].want = IF c.kind = "patch" THEN {} ELSE @,
             ![r].revives = IF admin[a].row = "gone" THEN {"row"} ELSE {}]
    /\ UNCHANGED <<superRoles, admin, configured, starting, starts, calls, guaranteed, calm>>

SaveUserOfAdministrator(r) ==
    /\ calling[r].at = "row saved"
    /\ \E a \in calling[r].on :
          calling' = [calling EXCEPT
             ![r].at = "saved",
             ![r].revives = @ \cup (IF admin[a].user = "gone" THEN {"user"} ELSE {}),
             ![r].drop = admin[a].roles \ calling[r].want,
             ![r].want = @ \ admin[a].roles]
    /\ UNCHANGED <<superRoles, admin, configured, starting, starts, calls, guaranteed, calm>>

SuperAdminsWith(role) == {a \in LiveAdmins : role \in admin[a].roles}

\* isSoleSuperadmin throws when a live administrator has no live user, and when
\* it finds no superadmin at all.
NotSole_OrEqual(a, role) == Cardinality(SuperAdminsWith(role)) >= 1
NotSole(a, role) == SuperAdminsWith(role) \notin {{}, {a}}

CanCount == \A a \in Admins : admin[a].row = "live" => admin[a].user = "live"

\* softDelete, or several in one transaction (deleteAdministrators): all of the
\* checks come before the first of the updates.
SoftDelete(r) ==
    \E S \in SUBSET LiveAdmins, role \in superRoles :
       /\ S # {} /\ CanCount
       /\ \A a \in S : NotSole(a, role)
       /\ Call(r, [NotCalling EXCEPT !.at = "saved", !.kind = "delete", !.on = S])

\* UserService.softDelete finds live users only.
CommitDelete(r) ==
    /\ calling[r].kind = "delete"
    /\ \A a \in calling[r].on : admin[a].user = "live"
    /\ admin' = [a \in Admins |-> IF a \in calling[r].on
                                  THEN [admin[a] EXCEPT !.row = "gone", !.user = "gone"]
                                  ELSE admin[a]]
    /\ guaranteed' = /\ guaranteed
                     /\ \E a \in Admins : calling[r].on = {a}
                     /\ \A q \in AdminRequests \ {r} : calling[q].kind # "delete"
    /\ UNCHANGED configured

\* The identifier of a user is UNIQUE, and so is a role among its roles.
CommitSave(r) ==
    LET c == calling[r] IN
    \E a \in c.on :
       /\ c.kind # "delete"
       /\ c.named = "configured" => configured \in {NoAdmin, a}
       /\ c.want \cap (admin[a].roles \ c.drop) = {}
       /\ admin' = [admin EXCEPT
             ![a] = [row |-> IF "row" \in c.revives THEN "live" ELSE @.row,
                     user |-> IF "user" \in c.revives THEN "live" ELSE @.user,
                     roles |-> (@.roles \ c.drop) \cup c.want]]
       /\ configured' = IF c.named = "configured" THEN a
                        ELSE IF c.named = "other" /\ configured = a THEN NoAdmin
                        ELSE configured
       /\ guaranteed' = (guaranteed /\ c.drop = {})

CommitCall(r) ==
    /\ calling[r].at = "saved"
    /\ CommitDelete(r) \/ CommitSave(r)
    /\ calling' = [calling EXCEPT ![r] = NotCalling]
    /\ UNCHANGED <<superRoles, starting, starts, calls, calm>>

\* It is rejected, or its transaction is.
CallRejected(r) ==
    /\ Calling(r)
    /\ calling' = [calling EXCEPT ![r] = NotCalling]
    /\ UNCHANGED <<superRoles, admin, configured, starting, starts, calls, guaranteed, calm>>

AdminsNext ==
    \/ \E p \in Processes :
          \/ Launch(p) \/ EnsureSuperAdminRole(p) \/ CreateSuperAdminRole(p)
          \/ FindSuperAdminUser(p) \/ NewSuperAdminUser(p) \/ ReviveUser(p)
          \/ EnsureAdministrator(p) \/ LoadNewAdministrator(p) \/ EnsureRole(p) \/ StartFails(p)
    \/ \E r \in AdminRequests :
          \/ CreateAdministrator(r) \/ UpdateAdministrator(r) \/ AssignRole(r) \/ SoftDelete(r)
          \/ SaveAdministrator(r) \/ SaveUserOfAdministrator(r) \/ CommitCall(r) \/ CallRejected(r)

-----------------------------------------------------------------------------
\* From the end of a server's start that overlapped nothing, there is a superadmin
\* that can log in: soft deletions leave the last one alone, requests and starts
\* that write back what they have read do no harm, and a start that follows a
\* crash of the one before repairs it, even if two processes have made one
\* SuperAdmin role each.  Not so when administrators were deleted together, or
\* when roles were written that leave the role out.
SuperadminRemains == guaranteed => \E a \in Admins : Effective(a)
=============================================================================
