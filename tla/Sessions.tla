------------------------------ MODULE Sessions ------------------------------
(***************************************************************************)
(* Accounts, their credentials and their sessions: auth.service, the       *)
(* profile half of users.service and the decisions superadmins take on     *)
(* users (superadmin-users.service), over the one-time passwords of Otp.   *)
(*                                                                         *)
(* A session is what a login starts: refresh tokens, each exchanged for    *)
(* the next.  A password is its version number, 0 the random one of a      *)
(* closed account; a user always gives the password the handler compares   *)
(* with, for a wrong one changes nothing.  Names, dates of birth, phones,  *)
(* the transaction PIN, access tokens and mails are left out.              *)
(***************************************************************************)
EXTENDS Otp

CONSTANTS
    Addresses,      \* of mail
    Ops,            \* bound: sets of handlers; the handlers of one of them are
                    \*   called in a behaviour
    MaxTokens,      \* bound: refresh tokens ever issued
    MaxPasswords    \* bound: passwords an account ever has

ASSUME AddressAssumption ==
    /\ None \notin Addresses \cup {"anonymized"}
    /\ "anonymized" \notin Addresses
ASSUME BoundsAssumption ==
    MaxCodes \in Nat /\ MaxTokens \in Nat /\ MaxPasswords \in Nat \ {0}

Decisions == {"approve", "reject", "promote", "ACTIVE", "SUSPENDED"}

VARIABLES
    account,    \* users: [Users -> the row]
    token,      \* refresh_tokens, in the order they were created in
    trail,      \* [Users -> role and status the audit log tells of]
    ended,      \* history: sessions that a handler has ended
    unproven,   \* history: users whose address no code sent there confirmed
    unsure,     \* history: users whose address was written by a request that
                \*   others overlapped
    undone,     \* history: <<user, step>> that a request left undone, because it
                \*   died or has no such step
    ops         \* the handlers that are called

users == <<account, trail, unproven, unsure>>
sessions == <<token, ended>>
vars == <<code, request, users, sessions, undone, ops>>

Unregistered == [email |-> None, pending |-> None, verified |-> FALSE, password |-> 0,
                 role |-> "MEMBER", requested |-> FALSE, status |-> "ACTIVE"]

Registered(address, role) ==
    [Unregistered EXCEPT !.email = address, !.password = 1, !.role = role]

\* A closed account has an address nobody has, and a password nobody knows.
Closed(row) == [row EXCEPT !.email = "anonymized", !.pending = None,
                           !.verified = FALSE, !.password = 0]

\* No entry of audit_logs: members in good standing.
EmptyTrail == [u \in Users |-> [role |-> "MEMBER", status |-> "ACTIVE"]]

\* Every user is a member from some time ago or has no account yet.
Init ==
    /\ account \in [Users -> {Unregistered} \cup
                      {[Registered(a, "MEMBER") EXCEPT !.verified = TRUE] : a \in Addresses}]
    /\ \A u, v \in Users :
        u # v /\ account[u].email = account[v].email => account[u].email = None
    /\ trail = EmptyTrail
    /\ code = << >>
    /\ token = << >>
    /\ request = [r \in Requests |-> Idle]
    /\ ended = {}
    /\ unproven = {}
    /\ unsure = {}
    /\ undone = {}
    /\ ops \in Ops

HasAccount(u) == account[u].email \in Addresses

\* The JWT guard asks for the row, and that it is verified.
SignedIn(u) == HasAccount(u) /\ account[u].verified

Holder(address) == {u \in Users : address \in {account[u].email, account[u].pending}}

\* Mutant: an address that another account waits to confirm is free.
AvailableIfUnconfirmed(address, u) == \A v \in Users \ {u} : account[v].email # address

Available(address, u) == Holder(address) \subseteq {u}

\* Addresses are written by a request that others may have overlapped.
Overlapped(r) ==
    \/ Late(r, {"user", "addresses", "codes"})
    \/ \E q \in Requests \ {r} : request[q].user = request[r].user
    \/ <<request[r].user, "invalidate">> \in undone

WritesAddress(r) ==
    unsure' = IF Overlapped(r) THEN unsure \cup {request[r].user} ELSE unsure

LeavesUndone(u, step) == undone' = undone \cup {<<u, step>>}

-----------------------------------------------------------------------------
(* Refresh tokens.                                                         *)

Live(u) == {i \in DOMAIN token : token[i].user = u /\ token[i].live}
SessionsOf(u) == {token[i].session : i \in Live(u)}

\* Of a token that is revoked or has expired nothing is read any more.
Dead == [user |-> None, live |-> FALSE, session |-> 0, password |-> 0, late |-> FALSE]

Revoked(u) == [i \in DOMAIN token |-> IF token[i].user = u THEN Dead ELSE token[i]]

\* All the tokens of a user are revoked, and the sessions end but for one.
Revoke(u, kept) ==
    /\ token' = Revoked(u)
    /\ ended' = ended \cup (SessionsOf(u) \ {kept})

Login(r, u) ==
    /\ "login" \in ops
    /\ SignedIn(u)
    /\ Start(r, [Handler("issue", u) EXCEPT !.password = account[u].password])
    /\ UNCHANGED <<code, users, sessions, undone>>

\* The token that is exchanged passes its session on.
RefreshTokens(r, i) ==
    /\ "refresh" \in ops
    /\ token[i].live
    /\ Start(r, [Handler("issue", token[i].user) EXCEPT
                    !.session = token[i].session, !.password = token[i].password,
                    !.overtaken = IF token[i].late THEN {"tokens"} ELSE {}])
    /\ UNCHANGED <<code, users, sessions, undone>>

\* issueTokens is two statements: revoke all, then create.
IssueRevokes(r) ==
    /\ request[r].op = "issue"
    /\ Revoke(request[r].user, request[r].session)
    /\ Writes(r, Go(r, "create"), request[r].user, {"tokens"})
    /\ UNCHANGED <<code, users, undone>>

IssueCreates(r) ==
    LET session == IF request[r].session = 0 THEN Len(token) + 1 ELSE request[r].session
        new == [user |-> request[r].user, live |-> TRUE, session |-> session,
                password |-> request[r].password, late |-> Late(r, {"tokens"})]
    IN  /\ request[r].op = "create"
        /\ Len(token) < MaxTokens
        /\ token' = Append(token, new)
        /\ Writes(r, Idle, new.user, {"tokens"})
        /\ UNCHANGED <<code, users, ended, undone>>

\* One statement; r is a slot nobody uses.
Logout(r, i) ==
    /\ "logout" \in ops
    /\ request[r] = Idle
    /\ token[i].live
    /\ token' = [token EXCEPT ![i] = Dead]
    /\ ended' = ended \cup {token[i].session}
    /\ Writes(r, Idle, token[i].user, {"tokens"})
    /\ UNCHANGED <<code, users, undone>>

ExpireToken(i) ==
    /\ token[i].live
    /\ token' = [token EXCEPT ![i] = Dead]
    /\ UNCHANGED <<code, request, users, ended, undone>>

-----------------------------------------------------------------------------
(* Passwords.                                                              *)

ChangePassword(r, u) ==
    /\ "changePassword" \in ops
    /\ SignedIn(u)
    /\ Start(r, Handler("setPassword", u))
    /\ UNCHANGED <<code, users, sessions, undone>>

\* Mutant: a new password is all that is written.
AfterPasswordNothing(r) == Idle

AfterPassword(r) == Go(r, "endSessions")

\* changePassword and resetPassword write the password first, on its own.
SetPassword(r) ==
    LET u == request[r].user
    IN  /\ request[r].op = "setPassword"
        /\ account[u].password < MaxPasswords
        /\ account' = [account EXCEPT ![u].password = @ + 1]
        /\ Writes(r, AfterPassword(r), u, {"user"})
        /\ UNCHANGED <<code, trail, unproven, unsure, sessions, undone>>

EndSessions(r) ==
    LET u == request[r].user
    IN  /\ request[r].op = "endSessions"
        /\ Revoke(u, 0)
        /\ Writes(r, Idle, u, {"tokens"})
        /\ undone' = undone \ {<<u, "endSessions">>}
        /\ UNCHANGED <<code, users>>

-----------------------------------------------------------------------------
(* Codes: asking for one, and presenting one.                              *)

\* The purpose of the code each handler sends to the address of the account.
Asks == [resendVerificationOtp |-> "VERIFICATION", forgotPassword |-> "RESET_PASSWORD",
         resendResetPasswordOtp |-> "RESET_PASSWORD"]

AskForCode(r, u, op) ==
    /\ op \in ops
    /\ HasAccount(u)
    /\ op = "forgotPassword" \/ ~account[u].verified
    /\ Start(r, Sending(u, Asks[op], account[u].email))
    /\ UNCHANGED <<code, users, sessions, undone>>

\* verifyEmail and resetPassword, which look the account up by its address.
PresentCode(r, u, i) ==
    /\ \/ "verifyEmail" \in ops /\ code[i].purpose = "VERIFICATION"
       \/ "resetPassword" \in ops /\ code[i].purpose = "RESET_PASSWORD"
    /\ HasAccount(u)
    /\ Newest(u, code[i].purpose, i)
    /\ Start(r, [Handler("markUsed", u) EXCEPT !.aim = code[i].purpose, !.code = i])
    /\ UNCHANGED <<code, users, sessions, undone>>

SendsOrUsesCode(r) ==
    /\ Invalidate(r) \/ CreateCode(r) \/ MarkUsed(r)
    /\ undone' = IF request[r].op = "invalidate" /\ request[r].aim = "EMAIL_CHANGE"
                 THEN undone \ {<<request[r].user, "invalidate">>} ELSE undone
    /\ UNCHANGED <<users, sessions>>

CodeExpires(i) == ExpireCode(i) /\ UNCHANGED <<users, sessions, undone>>

SetVerified(r) ==
    LET u == request[r].user
    IN  /\ request[r].op = "setVerified"
        /\ account' = [account EXCEPT ![u].verified = TRUE]
        /\ Writes(r, Idle, u, {"user"})
        /\ UNCHANGED <<code, trail, unproven, unsure, sessions, undone>>

-----------------------------------------------------------------------------
(* Registration.                                                           *)

Register(r, u, address) ==
    /\ "register" \in ops
    /\ account[u] = Unregistered
    /\ \A q \in Requests : request[q].user # u
    /\ Available(address, None)
    /\ \E role \in {"MEMBER", "ADMIN"} :
        Start(r, [Handler("createUser", u) EXCEPT !.aim = role, !.address = address])
    /\ UNCHANGED <<code, users, sessions, undone>>

\* users.email is unique, also when the request has seen that it is free.  No
\* entry tells that registerAdmin made the account an administrator's.
CreateUser(r) ==
    LET u == request[r].user
        address == request[r].address
    IN  /\ request[r].op = "createUser"
        /\ \A v \in Users : account[v].email # address
        /\ account' = [account EXCEPT ![u] = Registered(address, request[r].aim)]
        /\ undone' = IF request[r].aim = "ADMIN" THEN undone \cup {<<u, "audit">>} ELSE undone
        /\ WritesAddress(r)
        /\ Writes(r, Sending(u, "VERIFICATION", address), u, Tables)
        /\ UNCHANGED <<code, trail, unproven, sessions>>

\* registerAdmin of somebody who has an account makes it an administrator's.
RegisterAdmin(r, u) ==
    /\ "registerAdmin" \in ops
    /\ HasAccount(u) /\ account[u].role # "ADMIN"
    /\ Start(r, [Handler("upgrade", u) EXCEPT !.address = account[u].email])
    /\ UNCHANGED <<code, users, sessions, undone>>

\* The password is overwritten too; tokens and audit log are left alone.
Upgrade(r) ==
    LET u == request[r].user
    IN  /\ request[r].op = "upgrade"
        /\ account[u].password < MaxPasswords
        /\ account' = [account EXCEPT ![u].role = "ADMIN", ![u].password = @ + 1]
        /\ undone' = undone \cup {<<u, "endSessions">>, <<u, "audit">>}
        /\ Writes(r, IF account[u].email = request[r].address
                     THEN Sending(u, "VERIFICATION", request[r].address) ELSE Idle, u, {"user"})
        /\ UNCHANGED <<code, trail, unproven, unsure, sessions>>

-----------------------------------------------------------------------------
(* The profile, and the change of the address in two steps.                *)

\* A new address, the pending one once more, a new password, or both.
UpdateMyProfile(r, u) ==
    /\ "updateMyProfile" \in ops
    /\ SignedIn(u)
    /\ \E address \in (Addresses \cup {None}) \ {account[u].email}, password \in BOOLEAN :
        /\ address # None \/ password
        /\ address \in {None, account[u].pending} \/ Available(address, u)
        /\ Start(r, [Handler("updateProfile", u) EXCEPT
                !.address = address,
                !.writes = (IF password THEN {"password"} ELSE {}) \cup
                           (IF address \in {None, account[u].pending} THEN {} ELSE {"pending"})])
    /\ UNCHANGED <<code, users, sessions, undone>>

\* Mutant: the code goes to the address the account has.
SentToCurrent(u, address) == account[u].email

SentTo(u, address) == address

\* One transaction, then the code to the new address.
WriteProfile(r) ==
    LET u == request[r].user
        address == request[r].address
        password == "password" \in request[r].writes
        pending == "pending" \in request[r].writes
    IN  /\ request[r].op = "updateProfile"
        /\ password => account[u].password < MaxPasswords
        /\ pending => \A v \in Users \ {u} : account[v].pending # address
        /\ account' = [account EXCEPT ![u].password = IF password THEN @ + 1 ELSE @,
                                      ![u].pending = IF pending THEN address ELSE @]
        /\ IF password THEN Revoke(u, 0) ELSE UNCHANGED sessions
        /\ undone' = IF password THEN undone \ {<<u, "endSessions">>} ELSE undone
        /\ IF pending THEN WritesAddress(r) ELSE UNCHANGED unsure
        /\ Writes(r, IF address = None THEN Idle
                     ELSE [Sending(u, "EMAIL_CHANGE", SentTo(u, address)) EXCEPT
                              !.overtaken = request[r].overtaken],
                  u, (IF password THEN {"user", "tokens"} ELSE {}) \cup
                     (IF pending THEN {"addresses"} ELSE {}))
        /\ UNCHANGED <<code, trail, unproven>>

\* The pending address is read, and that it is available; then the code.
VerifyPendingEmailChange(r, u) ==
    /\ "verifyPendingEmailChange" \in ops
    /\ SignedIn(u)
    /\ account[u].pending # None /\ Available(account[u].pending, u)
    /\ Start(r, [Handler("readCode", u) EXCEPT
                    !.aim = "EMAIL_CHANGE", !.address = account[u].pending])
    /\ UNCHANGED <<code, users, sessions, undone>>

ReadCode(r, i) ==
    /\ request[r].op = "readCode"
    /\ Newest(request[r].user, "EMAIL_CHANGE", i)
    /\ request' = [request EXCEPT ![r] =
          [Go(r, "markUsed") EXCEPT !.code = i, !.proven = (code[i].address = request[r].address),
                                    !.overtaken = @ \cup IF code[i].late THEN {"codes"} ELSE {}]]
    /\ UNCHANGED <<code, users, sessions, undone>>

\* The address that was read becomes the address, in one transaction.
SetEmail(r) ==
    LET u == request[r].user
        address == request[r].address
    IN  /\ request[r].op = "setEmail"
        /\ \A v \in Users \ {u} : account[v].email # address
        /\ account' = [account EXCEPT ![u].email = address, ![u].pending = None]
        /\ unproven' = IF request[r].proven THEN unproven \ {u} ELSE unproven \cup {u}
        /\ WritesAddress(r)
        /\ Revoke(u, 0)
        /\ undone' = undone \ {<<u, "endSessions">>}
        /\ Writes(r, Idle, u, {"addresses", "tokens"})
        /\ UNCHANGED <<code, trail>>

\* What closing asks about before is in Account.
CloseAccount(r, u) ==
    /\ "closeAccount" \in ops
    /\ SignedIn(u)
    /\ Start(r, Handler("close", u))
    /\ UNCHANGED <<code, users, sessions, undone>>

WriteClosed(r) ==
    LET u == request[r].user
    IN  /\ request[r].op = "close"
        /\ account' = [account EXCEPT ![u] = Closed(@)]
        /\ code' = Spent(u, Purposes)
        /\ Revoke(u, 0)
        /\ undone' = undone \ {<<u, "endSessions">>}
        /\ Writes(r, Idle, u, Tables)
        /\ UNCHANGED <<trail, unproven, unsure>>

-----------------------------------------------------------------------------
(* Decisions of superadmins on users.                                      *)

\* Verified on level 1 by KYC, a member may ask to become an administrator.
RequestAdminAccess(r, u) ==
    /\ "requestAdminAccess" \in ops
    /\ SignedIn(u)
    /\ account[u].role = "MEMBER" /\ ~account[u].requested
    /\ Start(r, Handler("request", u))
    /\ UNCHANGED <<code, users, sessions, undone>>

WriteRequest(r) ==
    LET u == request[r].user
    IN  /\ request[r].op = "request"
        /\ account' = [account EXCEPT ![u].requested = TRUE]
        /\ Writes(r, Idle, u, {"user"})
        /\ UNCHANGED <<code, trail, unproven, unsure, sessions, undone>>

MayDecide(row, decision) ==
    CASE decision = "approve" -> row.requested /\ row.role = "MEMBER"
      [] decision = "reject" -> row.requested
      [] OTHER -> row.role # "SUPERADMIN"

After(row, decision) ==
    CASE decision = "approve" -> [row EXCEPT !.role = "ADMIN", !.requested = FALSE]
      [] decision = "reject" -> [row EXCEPT !.requested = FALSE]
      [] decision = "promote" -> [row EXCEPT !.role = "SUPERADMIN"]
      [] OTHER -> [row EXCEPT !.status = decision]

\* Mutant: an approval is audited as the rejection it is not.
ToldRejected(told, decision) ==
    CASE decision = "promote" -> [told EXCEPT !.role = "SUPERADMIN"]
      [] decision \in {"approve", "reject"} -> told
      [] OTHER -> [told EXCEPT !.status = decision]

\* What the audit log says once the entry of the decision is there.
Told(told, decision) ==
    CASE decision = "approve" -> [told EXCEPT !.role = "ADMIN"]
      [] decision = "promote" -> [told EXCEPT !.role = "SUPERADMIN"]
      [] decision = "reject" -> told
      [] OTHER -> [told EXCEPT !.status = decision]

Decide(r, u, decision) ==
    /\ decision \in ops
    /\ account[u] # Unregistered
    /\ MayDecide(account[u], decision)
    /\ Start(r, [Handler("decide", u) EXCEPT !.aim = decision])
    /\ UNCHANGED <<code, users, sessions, undone>>

WriteDecision(r) ==
    LET u == request[r].user
    IN  /\ request[r].op = "decide"
        /\ account' = [account EXCEPT ![u] = After(@, request[r].aim)]
        /\ Writes(r, Go(r, "audit"), u, {"user"})
        /\ UNCHANGED <<code, trail, unproven, unsure, sessions, undone>>

WriteAudit(r) ==
    LET u == request[r].user
    IN  /\ request[r].op = "audit"
        /\ trail' = [trail EXCEPT ![u] = Told(@, request[r].aim)]
        /\ undone' = IF Late(r, {"user"}) THEN undone \cup {<<u, "audit">>} ELSE undone
        /\ request' = [request EXCEPT ![r] = Idle]
        /\ UNCHANGED <<code, account, unproven, unsure, sessions>>

-----------------------------------------------------------------------------
(* Requests that end early.                                                *)

\* Somebody else has the address by now, or there is no code any more.
Refused(r) ==
    /\ \/ request[r].op = "createUser" /\ \E v \in Users : account[v].email = request[r].address
       \/ /\ request[r].op = "updateProfile" /\ "pending" \in request[r].writes
          /\ \E v \in Users \ {request[r].user} : account[v].pending = request[r].address
       \/ /\ request[r].op = "setEmail"
          /\ \E v \in Users \ {request[r].user} : account[v].email = request[r].address
       \/ request[r].op = "readCode" /\ Usable(request[r].user, "EMAIL_CHANGE") = {}
    /\ request' = [request EXCEPT ![r] = Idle]
    /\ UNCHANGED <<code, users, sessions, undone>>

\* The process or the database goes away between two statements.
Dies(r) ==
    /\ request[r].op # "idle"
    /\ IF \/ request[r].op \in {"endSessions", "audit"}
          \/ request[r].op = "invalidate" /\ request[r].aim = "EMAIL_CHANGE"
       THEN LeavesUndone(request[r].user, request[r].op) ELSE UNCHANGED undone
    /\ request' = [request EXCEPT ![r] = Idle]
    /\ UNCHANGED <<code, users, sessions>>

-----------------------------------------------------------------------------
Token(r) ==
    \/ IssueRevokes(r) \/ IssueCreates(r)
    \/ \E u \in Users : Login(r, u)
    \/ \E i \in DOMAIN token : RefreshTokens(r, i) \/ Logout(r, i)

Credentials(r) ==
    \/ SetPassword(r) \/ EndSessions(r) \/ SendsOrUsesCode(r) \/ SetVerified(r)
    \/ \E u \in Users :
        \/ ChangePassword(r, u)
        \/ \E op \in DOMAIN Asks : AskForCode(r, u, op)
        \/ \E i \in DOMAIN code : PresentCode(r, u, i)

Profile(r) ==
    \/ CreateUser(r) \/ Upgrade(r) \/ WriteProfile(r) \/ SetEmail(r) \/ WriteClosed(r)
    \/ \E i \in DOMAIN code : ReadCode(r, i)
    \/ \E u \in Users :
        \/ RegisterAdmin(r, u) \/ UpdateMyProfile(r, u)
        \/ VerifyPendingEmailChange(r, u) \/ CloseAccount(r, u)
        \/ \E address \in Addresses : Register(r, u, address)

Superadmin(r) ==
    \/ WriteRequest(r) \/ WriteDecision(r) \/ WriteAudit(r)
    \/ \E u \in Users : RequestAdminAccess(r, u) \/ \E d \in Decisions : Decide(r, u, d)

Next ==
    /\ \/ \E r \in Requests : Token(r) \/ Credentials(r) \/ Profile(r) \/ Superadmin(r)
                               \/ Refused(r) \/ Dies(r)
       \/ \E i \in DOMAIN token : ExpireToken(i)
       \/ \E i \in DOMAIN code : CodeExpires(i)
    /\ UNCHANGED ops

Spec == Init /\ [][Next]_vars

-----------------------------------------------------------------------------
TypeOK ==
    /\ account \in [Users -> [email : Addresses \cup {None, "anonymized"},
                              pending : Addresses \cup {None}, verified : BOOLEAN,
                              password : 0..MaxPasswords, requested : BOOLEAN,
                              role : {"MEMBER", "ADMIN", "SUPERADMIN"},
                              status : {"ACTIVE", "SUSPENDED"}]]
    /\ Len(token) <= MaxTokens /\ Len(code) <= MaxCodes
    /\ \A r \in Requests : request[r].user \in Users \cup {None} /\ request[r].overtaken \subseteq Tables

\* A user's new password, whether changed, reset or given in the profile.
NewPasswordUnderWay(u) ==
    \/ \E r \in Requests : request[r].user = u /\ request[r].op = "endSessions"
    \/ <<u, "endSessions">> \in undone

\* A user has at most one live refresh token, of a session that nothing has
\* ended: a new login, logging out, a new password, a confirmed address and
\* closing the account each end the sessions there were, and the session began
\* with the password of now.  issueTokens is two statements: excepted are tokens
\* issued while another request wrote tokens, and what is refreshed from them;
\* so are changePassword and resetPassword, whose gap between the password and
\* the tokens stays open if the process dies there, and registerAdmin, which
\* sets a password and leaves the tokens.
SessionsEnd ==
    \A i \in DOMAIN token :
        token[i].live /\ ~token[i].late =>
            /\ \A j \in Live(token[i].user) : j = i \/ token[j].late
            /\ token[i].session \notin ended
            /\ \/ token[i].password = account[token[i].user].password
               \/ NewPasswordUnderWay(token[i].user)

\* An address belongs to one account, as its address or as the one it waits to
\* confirm.  The unique indexes of the table are each on one column; across
\* the two only a check protects it, and requests that overlap pass it both.
AddressIsOnes ==
    \A u, v \in Users :
        u # v /\ {account[u].email, account[u].pending}
                    \cap {account[v].email, account[v].pending} \cap Addresses # {}
            => {u, v} \cap unsure # {}

\* The address of an account changes only to one where the user has read a
\* code.  The pending address, its code and its confirmation are three
\* requests' worth of statements: excepted are confirmations that overlap with
\* another request of the user, codes sent by requests that did, and requests
\* that died between storing the pending address and sending its code.
EmailIsProven == unproven \subseteq unsure

\* Role and status of a user are what the audit log tells.  The entry is
\* written after the row: excepted are decisions of which the entry is about
\* to be written or never was, decisions that overlap, and accounts registered
\* or made an administrator's by registerAdmin, which writes no entry.
TrailTellsAccount ==
    \A u \in Users :
        \/ trail[u] = [role |-> account[u].role, status |-> account[u].status]
        \/ <<u, "audit">> \in undone
        \/ \E r \in Requests : request[r].user = u /\ request[r].op = "audit"
=============================================================================
