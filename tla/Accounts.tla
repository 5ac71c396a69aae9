------------------------------ MODULE Accounts ------------------------------
(***************************************************************************)
(* UserService and CustomerService with requireVerification: the rows of   *)
(* one customer (User, NativeAuthenticationMethod, Customer) and requests  *)
(* that load them, change them and save them.                              *)
(*                                                                         *)
(* TypeORM's save() selects the row again and updates the loaded columns   *)
(* that differ.  So a request writes back what it loaded, when another     *)
(* request has committed in between, and leaves what it has not loaded     *)
(* (passwordHash is select: false) or what was still the same.             *)
(***************************************************************************)
EXTENDS Naturals, Sequences, Functions

CONSTANTS
    Addresses,        \* email addresses
    AccountRequests,  \* overlapping requests
    MaxSecrets,       \* bound: tokens and passwords that are ever made, the two
                      \* of the registration among them
    MaxBegun          \* bound: requests that are ever begun

NoAddress == "no address"

ASSUME AccountsAssumption ==
    MaxSecrets \in Nat \ {0, 1} /\ MaxBegun \in Nat /\ NoAddress \notin Addresses

VARIABLES
    db,        \* db[c]: the committed value of column c
    request,   \* request[r]: a request in its transaction
    begun,     \* requests begun so far
    issued,    \* tokens and passwords made so far; each is a number
    sentTo,    \* sentTo[t]: the address token t was sent to
    proven,    \* history: addresses a token sent there came back from
    trusted,   \* history: addresses set without asking their owner
    spent,     \* history: tokens and passwords that were replaced while no other
               \* request worked on the column
    crossed    \* history: "identifier": a new one was committed while another
               \* request held the old one; "token": one for a new address was,
               \* while another request held the old one

accountVars == <<db, request, begun, issued, sentTo, proven, trusted, spent, crossed>>

Method == {"verificationToken", "passwordResetToken", "identifierChangeToken",
           "pendingIdentifier", "nativeIdentifier"}
UserRow == {"verified", "identifier"}
Hash == {"passwordHash"}
OtherRows == UserRow \cup {"emailAddress"}
Secret == {"verificationToken", "passwordResetToken", "identifierChangeToken"} \cup Hash
Column == Method \cup UserRow \cup Hash \cup {"emailAddress"}

None == 0        \* NULL, and the empty passwordHash

\* The columns each request loads and saves, row by row.
Saves_Hash(kind) == Method \cup UserRow \cup Hash
Saves(kind) ==
    CASE kind \in {"setVerificationToken"} -> Method \cup UserRow
      [] kind \in {"verifyUserByToken", "resetPasswordByToken"} -> Method \cup Hash \cup UserRow
      [] kind \in {"changeIdentifierByToken", "changeUserAndNativeIdentifier"} ->
            Method \cup UserRow \cup {"emailAddress"}
      [] kind \in {"setPasswordResetToken", "setIdentifierChangeToken"} -> Method
      [] kind = "updatePassword" -> Method \cup Hash
      [] kind = "authenticate" -> UserRow
      [] kind = "updateCustomer" -> {"emailAddress"}

NoRequest == [at |-> "idle", kind |-> "none", want |-> <<>>, writes |-> <<>>, proves |-> {}]
InFlight(r) == request[r].at # "idle"

AccountsTypeOK ==
    /\ DOMAIN db = Column
    /\ \A c \in Secret : db[c] \in 0 .. issued
    /\ db["verified"] \in BOOLEAN
    /\ \A c \in {"identifier", "nativeIdentifier", "emailAddress"} : db[c] \in Addresses
    /\ db["pendingIdentifier"] \in Addresses \cup {NoAddress}
    /\ \A r \in AccountRequests :
          /\ request[r].at \in {"idle", "loaded", "method", "saved"}
          /\ DOMAIN request[r].writes \subseteq DOMAIN request[r].want
          /\ InFlight(r) => DOMAIN request[r].want = Saves(request[r].kind)
    /\ issued \in 0 .. MaxSecrets /\ begun \in 0 .. MaxBegun
    /\ DOMAIN sentTo = 1 .. issued /\ Range(sentTo) \subseteq Addresses \cup {NoAddress}
    /\ proven \subseteq Addresses /\ trusted \subseteq Addresses
    /\ spent \subseteq Secret \X (1 .. MaxSecrets)
    /\ crossed \subseteq {"identifier", "token"}

\* registerCustomerAccount, with a password or without.  Two that overlap
\* cannot both insert the identifier.
Registered(a, token, hash) ==
    [verificationToken |-> token, passwordResetToken |-> None,
     identifierChangeToken |-> None, pendingIdentifier |-> NoAddress,
     nativeIdentifier |-> a, verified |-> FALSE, identifier |-> a,
     passwordHash |-> hash, emailAddress |-> a]

AccountsInit ==
    /\ \E a \in Addresses :
          \/ db = Registered(a, 1, None) /\ issued = 1 /\ sentTo = <<a>>
          \/ db = Registered(a, 1, 2) /\ issued = 2 /\ sentTo = <<a, NoAddress>>
    /\ request = [r \in AccountRequests |-> NoRequest] /\ begun = 0
    /\ proven = {} /\ trusted = {} /\ spent = {} /\ crossed = {}

-----------------------------------------------------------------------------
(***************************************************************************)
(* A request loads the columns and changes its copy.                       *)
(***************************************************************************)
Patched(row, changed) ==
    [c \in DOMAIN row |-> IF c \in DOMAIN changed THEN changed[c] ELSE row[c]]

Load(r, kind, changed, proves) ==
    /\ request[r] = NoRequest /\ begun < MaxBegun
    /\ begun' = begun + 1
    /\ request' = [request EXCEPT ![r] =
                      [at |-> "loaded", kind |-> kind, writes |-> <<>>, proves |-> proves,
                       want |-> Restrict(Patched(db, changed), Saves(kind))]]
    /\ UNCHANGED <<db, proven, trusted, spent, crossed>>

Fresh == issued + 1
Issue(address) ==
    /\ issued < MaxSecrets
    /\ issued' = Fresh
    /\ sentTo' = Append(sentTo, address)
NoIssue == UNCHANGED <<issued, sentTo>>

NoProof == {}

\* refreshVerificationToken
SetVerificationToken(r) ==
    /\ ~db["verified"]
    /\ Issue(db["identifier"])
    /\ Load(r, "setVerificationToken",
            [verificationToken |-> Fresh, verified |-> FALSE], NoProof)

\* The caller presents the token it was sent, and a password if there is none.
VerifyUserByToken(r) ==
    LET proves == {sentTo[db["verificationToken"]]} IN
    /\ db["verificationToken"] # None
    /\ IF db["passwordHash"] = None
       THEN /\ Issue(NoAddress)
            /\ Load(r, "verifyUserByToken",
                    [verificationToken |-> None, verified |-> TRUE, passwordHash |-> Fresh],
                    proves)
       ELSE /\ NoIssue
            /\ Load(r, "verifyUserByToken",
                    [verificationToken |-> None, verified |-> TRUE], proves)

SetPasswordResetToken(r) ==
    /\ Issue(db["identifier"])
    /\ Load(r, "setPasswordResetToken", [passwordResetToken |-> Fresh], NoProof)

\* The person that resets the password controls the address.
ResetPasswordByToken(r) ==
    /\ db["passwordResetToken"] # None
    /\ Issue(NoAddress)
    /\ Load(r, "resetPasswordByToken",
            [passwordHash |-> Fresh, passwordResetToken |-> None, verified |-> TRUE],
            {sentTo[db["passwordResetToken"]]})

\* requestUpdateEmailAddress: the token goes to the new address.
ChangeTokenGoesTo_Present(a) == db["identifier"]
ChangeTokenGoesTo(a) == a

SetIdentifierChangeToken(r) ==
    \E a \in Addresses \ {db["identifier"]} :
       /\ Issue(ChangeTokenGoesTo(a))
       /\ Load(r, "setIdentifierChangeToken",
               [pendingIdentifier |-> a, identifierChangeToken |-> Fresh], NoProof)

Renamed(a) ==
    [identifier |-> a, nativeIdentifier |-> a, emailAddress |-> a,
     identifierChangeToken |-> None, pendingIdentifier |-> NoAddress]

ChangeIdentifierByToken(r) ==
    LET a == db["pendingIdentifier"] IN
    /\ db["identifierChangeToken"] # None /\ a # NoAddress
    /\ NoIssue
    /\ Load(r, "changeIdentifierByToken", Renamed(a),
            {sentTo[db["identifierChangeToken"]]})

\* CustomerService.update with another address: nobody is asked.
ChangeUserAndNativeIdentifier(r) ==
    \E a \in Addresses \ {db["emailAddress"]} :
       /\ NoIssue
       /\ Load(r, "changeUserAndNativeIdentifier", Renamed(a), NoProof)

UpdatePassword(r) ==
    /\ db["passwordHash"] # None
    /\ Issue(NoAddress)
    /\ Load(r, "updatePassword", [passwordHash |-> Fresh], NoProof)

\* Login stamps user.lastLogin; CustomerService.update patches a name.
Touch(r) ==
    /\ NoIssue
    /\ \E kind \in {"authenticate", "updateCustomer"} : Load(r, kind, <<>>, NoProof)

-----------------------------------------------------------------------------
(***************************************************************************)
(* save() of one row: the columns that differ from what is committed now.  *)
(***************************************************************************)
Differ(r, row) == {c \in DOMAIN request[r].want \cap row : request[r].want[c] # db[c]}

SaveRow(r, row, to) ==
    /\ request' = [request EXCEPT
          ![r].at = to,
          ![r].writes = Restrict(request[r].want, DOMAIN @ \cup Differ(r, row))]
    /\ UNCHANGED <<db, begun, issued, sentTo, proven, trusted, spent, crossed>>

Loaded(r, row) == DOMAIN request[r].want \cap row # {}

SaveMethod(r) ==
    /\ request[r].at = "loaded" /\ Loaded(r, Method)
    /\ SaveRow(r, Method \cup Hash, IF Loaded(r, OtherRows) THEN "method" ELSE "saved")

\* The user, and the customer with it.
SaveUser(r) ==
    /\ request[r].at = IF Loaded(r, Method) THEN "method" ELSE "loaded"
    /\ Loaded(r, OtherRows)
    /\ SaveRow(r, OtherRows, "saved")

OtherKinds(r) == {request[q].kind : q \in {p \in AccountRequests \ {r} : InFlight(p)}}

\* Another request holds a copy of the authentication method, its tokens and
\* the pending address with it.
MethodHeld(r) == \E k \in OtherKinds(r) : Saves(k) \cap Method # {}

\* Another request loads column c to change its row or to compare with it.
MeantByOther(r, c) ==
    IF c \in Hash
    THEN OtherKinds(r) \cap {"verifyUserByToken", "resetPasswordByToken", "updatePassword"} # {}
    ELSE MethodHeld(r)

\* Another request holds a copy of the identifier.
IdentifierHeld(r) == \E k \in OtherKinds(r) : "identifier" \in Saves(k)

CommitRequest(r) ==
    LET writes == request[r].writes IN
    /\ request[r].at = "saved"
    /\ db' = Patched(db, writes)
    /\ proven' = proven \cup request[r].proves
    /\ trusted' = IF request[r].kind = "changeUserAndNativeIdentifier"
                  THEN trusted \cup {request[r].want["identifier"]} ELSE trusted
    /\ spent' = spent \cup {<<c, db[c]>> : c \in {d \in DOMAIN writes \cap Secret :
                                  writes[d] # db[d] /\ db[d] # None /\ ~MeantByOther(r, d)}}
    /\ crossed' = crossed
          \cup (IF "identifier" \in DOMAIN writes /\ IdentifierHeld(r)
                THEN {"identifier"} ELSE {})
          \cup (IF request[r].kind = "setIdentifierChangeToken" /\ MethodHeld(r)
                THEN {"token"} ELSE {})
    /\ request' = [request EXCEPT ![r] = NoRequest]
    /\ UNCHANGED <<begun, issued, sentTo>>

\* It is rejected, or its transaction is.
RequestFails(r) ==
    /\ InFlight(r)
    /\ request' = [request EXCEPT ![r] = NoRequest]
    /\ UNCHANGED <<db, begun, issued, sentTo, proven, trusted, spent, crossed>>

AccountsNext ==
    \E r \in AccountRequests :
       \/ SetVerificationToken(r) \/ VerifyUserByToken(r)
       \/ SetPasswordResetToken(r) \/ ResetPasswordByToken(r)
       \/ SetIdentifierChangeToken(r) \/ ChangeIdentifierByToken(r)
       \/ ChangeUserAndNativeIdentifier(r) \/ UpdatePassword(r) \/ Touch(r)
       \/ SaveMethod(r) \/ SaveUser(r) \/ CommitRequest(r) \/ RequestFails(r)

-----------------------------------------------------------------------------
\* Requests write back old copies of the token and of the pending address, and
\* save only one of them when the other has not changed.  Still a token never
\* sets an address but the one it was sent to, unless a new token was committed
\* while another request held the old one.
PendingIsWhereTokenWent ==
    /\ db["identifierChangeToken"] # None
    /\ db["pendingIdentifier"] # NoAddress
    /\ "token" \notin crossed
    => db["pendingIdentifier"] = sentTo[db["identifierChangeToken"]]

\* A verified user has proven an address.  It is the present one, or one that
\* was set without asking, unless a new identifier, or a new token for one, was
\* committed while another request held the old one.
VerifiedByProof ==
    db["verified"] =>
       /\ proven # {}
       /\ crossed = {} => db["identifier"] \in proven \cup trusted

\* A token that was used or replaced comes back only by a request that changes
\* the authentication method and overlaps, an old password only by one of the
\* three that deal in passwords: never by a login, a new name or a new address.
SpentStaysSpent == \A c \in Secret : <<c, db[c]>> \notin spent
=============================================================================
