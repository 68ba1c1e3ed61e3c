--------------------------- MODULE SessionsProofs ---------------------------
(***************************************************************************)
(* What Sessions and Otp promise, proved for every set of users, requests  *)
(* and addresses and for all the handlers together.                        *)
(*                                                                         *)
(* A handler acts on what it read some statements ago.  Each invariant     *)
(* says what that still is worth: of every request in progress, what it    *)
(* has read holds, or its row says which table another request wrote in    *)
(* between.  The five properties follow, their exceptions included.        *)
(***************************************************************************)
EXTENDS Sessions, TLAPS

Steps == {"idle", "issue", "create", "setPassword", "endSessions", "invalidate", "send",
          "markUsed", "setVerified", "createUser", "upgrade", "updateProfile", "readCode",
          "setEmail", "close", "request", "decide", "audit"}

Aims == Purposes \cup Decisions \cup {"none", "MEMBER", "ADMIN"}

RequestRows ==
    [op : Steps, user : Users \cup {None}, aim : Aims, address : Addresses \cup {None},
     writes : SUBSET {"password", "pending"}, session : Nat, password : Nat, code : Nat,
     proven : BOOLEAN, overtaken : SUBSET Tables]

CodeRows ==
    [user : Users \cup {None}, purpose : Purposes \cup {"none"}, address : Addresses \cup {None},
     usable : BOOLEAN, uses : Nat, late : BOOLEAN]

TokenRows ==
    [user : Users \cup {None}, live : BOOLEAN, session : Nat, password : Nat, late : BOOLEAN]

AccountRows ==
    [email : Addresses \cup {None, "anonymized"}, pending : Addresses \cup {None},
     verified : BOOLEAN, password : 0..MaxPasswords, requested : BOOLEAN,
     role : {"MEMBER", "ADMIN", "SUPERADMIN"}, status : {"ACTIVE", "SUSPENDED"}]

TrailRows == [role : {"MEMBER", "ADMIN", "SUPERADMIN"}, status : {"ACTIVE", "SUSPENDED"}]

\* Handlers that confirm the pending address, that have checked that an
\* address is free, that act for the pending address, that issue tokens.
Confirms(row) ==
    \/ row.op = "setEmail"
    \/ row.op = "markUsed" /\ row.aim = "EMAIL_CHANGE"

Claims(row) ==
    \/ row.op \in {"createUser", "readCode"} \/ Confirms(row)
    \/ row.op = "updateProfile" /\ "pending" \in row.writes

FollowsPending(row) ==
    \/ row.op = "updateProfile" /\ row.address # None /\ "pending" \notin row.writes
    \/ row.op \in {"invalidate", "send"} /\ row.aim = "EMAIL_CHANGE"
    \/ row.op = "readCode"

Issues(row) == row.op \in {"issue", "create"}

\* What the steps need of the row of a request.
Fits(row) ==
    /\ row.op = "idle" => row = Idle
    /\ row.op # "idle" => row.user \in Users
    /\ row.op \in {"invalidate", "send", "markUsed"} => row.aim \in Purposes
    /\ row.op \in {"decide", "audit"} => row.aim \in Decisions
    /\ row.op = "createUser" => row.aim \in {"MEMBER", "ADMIN"}
    /\ row.op = "readCode" => row.aim = "EMAIL_CHANGE"
    /\ Claims(row) \/ row.op = "upgrade" => row.address \in Addresses

RequestsFit ==
    /\ request \in [Requests -> RequestRows]
    /\ \A r \in Requests : Fits(request[r])

CodesFit ==
    /\ code \in Seq(CodeRows)
    /\ Len(code) <= MaxCodes
    /\ \A i \in DOMAIN code :
        code[i].usable => code[i].user \in Users /\ code[i].purpose \in Purposes

TokensFit ==
    /\ token \in Seq(TokenRows)
    /\ Len(token) <= MaxTokens
    /\ \A i \in DOMAIN token : token[i].live => token[i].user \in Users

RowsFit ==
    /\ account \in [Users -> AccountRows]
    /\ trail \in [Users -> TrailRows]
    /\ unproven \subseteq Users /\ unsure \subseteq Users
    /\ undone \subseteq Users \X {"endSessions", "audit", "invalidate"}

\* Who has no account has no tokens and no handlers but the one that may
\* create it.
AccountsInv ==
    /\ \A u \in Users : account[u].email = None => account[u] = Unregistered
    /\ \A r \in Requests :
        request[r].op \notin {"idle", "createUser"} => account[request[r].user].email # None
    /\ \A r \in Requests :
        request[r].op = "createUser" =>
            /\ account[request[r].user].email = None
            /\ \A q \in Requests \ {r} : request[q].user # request[r].user
    /\ \A i \in DOMAIN token : token[i].live => account[token[i].user].email # None

\* A handler that consumes a code has found it.
CodesKnown ==
    \A r \in Requests : request[r].op = "markUsed" => request[r].code \in DOMAIN code

Typed == RequestsFit /\ CodesFit /\ TokensFit /\ RowsFit /\ AccountsInv /\ CodesKnown

-----------------------------------------------------------------------------
(* How a step changes the requests.                                        *)

\* Request q stays where it is; others may have written what it has read.
Kept(q) ==
    /\ request'[q].op = request[q].op /\ request'[q].user = request[q].user
    /\ request'[q].aim = request[q].aim /\ request'[q].address = request[q].address
    /\ request'[q].writes = request[q].writes /\ request'[q].session = request[q].session
    /\ request'[q].password = request[q].password /\ request'[q].code = request[q].code
    /\ request'[q].proven = request[q].proven
    /\ request[q].overtaken \subseteq request'[q].overtaken

\* Of those in progress, the user's may have read the tables, and all others
\* the addresses.
Overtakes(r, u, tables) ==
    \A q \in Requests \ {r} : request[q].op # "idle" =>
        /\ request[q].user = u => tables \subseteq request'[q].overtaken
        /\ "addresses" \in tables => "addresses" \in request'[q].overtaken

\* Request r has become next, the others are as they were.
Moves(r, next) ==
    request'[r] = next /\ \A q \in Requests \ {r} : Kept(q)

\* A request that writes tables moves on and overtakes who has read them.
LEMMA WritesMoves ==
    ASSUME RequestsFit, NEW r \in Requests, NEW next, NEW u, NEW tables \in SUBSET Tables,
           Writes(r, next, u, tables)
    PROVE  Moves(r, next) /\ Overtakes(r, u, tables)
<1> USE DEF RequestsFit
<1>1. request'[r] = next
  BY DEF Writes
<1>2. ASSUME NEW q \in Requests \ {r}
      PROVE  /\ Kept(q)
             /\ request[q].op # "idle" =>
                  /\ request[q].user = u => tables \subseteq request'[q].overtaken
                  /\ "addresses" \in tables => "addresses" \in request'[q].overtaken
  <2>1. request[q] \in RequestRows /\ Fits(request[q])
    OBVIOUS
  <2>2. CASE request[q].op = "idle"
    <3>1. request[q] = Idle /\ request'[q] = Idle
      BY <2>1, <2>2 DEF Writes, Fits
    <3> QED BY <2>2, <3>1 DEF Kept
  <2>3. CASE request[q].op # "idle"
    <3>1. request'[q] = [request[q] EXCEPT !.overtaken =
                   @ \cup IF request[q].user = u THEN tables ELSE tables \cap {"addresses"}]
      BY <2>3 DEF Writes
    <3> QED BY <2>1, <3>1 DEF Kept, RequestRows
  <2> QED BY <2>2, <2>3
<1> QED BY <1>1, <1>2 DEF Moves, Overtakes

\* The requests stay requests.
LEMMA WritesFit ==
    ASSUME RequestsFit, NEW r \in Requests, NEW next \in RequestRows, Fits(next), NEW u,
           NEW tables \in SUBSET Tables, Writes(r, next, u, tables)
    PROVE  RequestsFit'
<1> USE DEF RequestsFit
<1>1. Idle \in RequestRows /\ Fits(Idle)
  BY DEF Idle, RequestRows, Steps, Aims, Fits, Claims, Confirms
<1>2. ASSUME NEW q \in Requests
      PROVE  request'[q] \in RequestRows /\ Fits(request'[q])
  <2>1. request[q] \in RequestRows /\ Fits(request[q])
    OBVIOUS
  <2>2. CASE q = r
    BY <2>2 DEF Writes
  <2>3. CASE q # r /\ request[q].op = "idle"
    BY <1>1, <2>3 DEF Writes
  <2>4. CASE q # r /\ request[q].op # "idle"
    <3>1. request'[q] = [request[q] EXCEPT !.overtaken =
                   @ \cup IF request[q].user = u THEN tables ELSE tables \cap {"addresses"}]
      BY <2>4 DEF Writes
    <3>2. request'[q] \in RequestRows
      BY <2>1, <3>1 DEF RequestRows
    <3>3. Kept(q)
      BY <2>1, <3>1 DEF Kept, RequestRows
    <3>4. Fits(request'[q])
      BY <2>1, <2>4, <3>3 DEF Kept, Fits, Claims, Confirms
    <3> QED BY <3>2, <3>4
  <2> QED BY <2>2, <2>3, <2>4
<1>3. request' = [q \in Requests |-> request'[q]]
  BY DEF Writes
<1> QED BY <1>2, <1>3

-----------------------------------------------------------------------------
(* How handlers start.                                                     *)

\* What a handler that starts has found.
Founded(row) ==
    /\ row \in RequestRows /\ Fits(row)
    /\ row.op \in {"issue", "setPassword", "invalidate", "markUsed", "createUser", "upgrade",
                   "updateProfile", "readCode", "close", "request", "decide"}
    /\ row.op = "createUser" =>
         account[row.user] = Unregistered /\ \A q \in Requests : request[q].user # row.user
    /\ row.op # "createUser" => account[row.user].email # None
    /\ row.op = "issue" =>
         \/ row.session = 0 /\ row.password = account[row.user].password
         \/ \E i \in DOMAIN token :
              /\ token[i].live /\ row.user = token[i].user
              /\ row.session = token[i].session /\ row.password = token[i].password
              /\ token[i].late => "tokens" \in row.overtaken
    /\ row.op = "markUsed" => ~Confirms(row) /\ row.code \in Usable(row.user, row.aim)
    /\ Claims(row) => Holder(row.address) \subseteq {row.user}
    /\ FollowsPending(row) => account[row.user].pending = row.address

\* Request r starts such a handler, and nothing else happens.
Starts(r) ==
    /\ \E next : Start(r, next) /\ Founded(next)
    /\ UNCHANGED <<code, users, sessions, undone>>

\* A login starts a handler.
LEMMA LoginStarts ==
    ASSUME Typed, NEW r \in Requests, NEW u \in Users, Login(r, u)
    PROVE  Starts(r)
<1> DEFINE row == [Handler("issue", u) EXCEPT !.password = account[u].password]
<1>1. account[u].password \in Nat /\ account[u].email # None
  BY AddressAssumption, BoundsAssumption DEF Typed, RowsFit, AccountRows, Login, SignedIn, HasAccount
<1>2. row \in RequestRows
  BY <1>1 DEF Handler, Idle, RequestRows, Steps, Aims
<1>3. /\ row.op = "issue" /\ row.user = u /\ row.session = 0
      /\ row.password = account[u].password
  BY DEF Handler, Idle
<1>4. Founded(row)
  BY <1>1, <1>2, <1>3 DEF Founded, Fits, Claims, Confirms, FollowsPending
<1> QED BY <1>4 DEF Login, Starts

\* An exchange of a token starts a handler.
LEMMA RefreshStarts ==
    ASSUME Typed, NEW r \in Requests, NEW i \in DOMAIN token, RefreshTokens(r, i)
    PROVE  Starts(r)
<1> DEFINE row == [Handler("issue", token[i].user) EXCEPT
                      !.session = token[i].session, !.password = token[i].password,
                      !.overtaken = IF token[i].late THEN {"tokens"} ELSE {}]
<1>1. token[i] \in TokenRows /\ token[i].live /\ token[i].user \in Users
  BY DEF Typed, TokensFit, RefreshTokens
<1>2. row \in RequestRows
  BY <1>1 DEF Handler, Idle, RequestRows, Steps, Aims, TokenRows, Tables
<1>3. /\ row.op = "issue" /\ row.user = token[i].user /\ row.session = token[i].session
      /\ row.password = token[i].password
      /\ row.overtaken = IF token[i].late THEN {"tokens"} ELSE {}
  BY DEF Handler, Idle
<1>4. account[token[i].user].email # None
  BY <1>1 DEF Typed, AccountsInv
<1>5. Founded(row)
  <2> HIDE DEF row
  <2> QED BY <1>1, <1>2, <1>3, <1>4 DEF Founded, Fits, Claims, Confirms, FollowsPending
<1> QED BY <1>5 DEF RefreshTokens, Starts

\* Handlers that start with no more than their user.
LEMMA PlainStarts ==
    ASSUME Typed, NEW r \in Requests, NEW u \in Users, account[u].email # None,
           NEW op \in {"setPassword", "close", "request"}, Start(r, Handler(op, u)),
           UNCHANGED <<code, users, sessions, undone>>
    PROVE  Starts(r)
<1> DEFINE row == Handler(op, u)
<1>1. row \in RequestRows
  BY DEF Handler, Idle, RequestRows, Steps, Aims
<1>2. row.op = op /\ row.user = u
  BY DEF Handler, Idle
<1>3. Founded(row)
  <2> HIDE DEF row
  <2> QED BY <1>1, <1>2 DEF Founded, Fits, Claims, Confirms, FollowsPending
<1> QED BY <1>3 DEF Starts

\* Asking for a code starts a handler.
LEMMA AskStarts ==
    ASSUME Typed, NEW r \in Requests, NEW u \in Users, NEW op \in DOMAIN Asks,
           AskForCode(r, u, op)
    PROVE  Starts(r)
<1> DEFINE row == Sending(u, Asks[op], account[u].email)
<1>1. account[u].email \in Addresses /\ account[u].email # None
  BY AddressAssumption DEF AskForCode, HasAccount
<1>2. Asks[op] \in {"VERIFICATION", "RESET_PASSWORD"}
  BY DEF Asks
<1>3. row \in RequestRows
  BY <1>1, <1>2 DEF Sending, Handler, Idle, RequestRows, Steps, Aims, Purposes
<1>4. row.op = "invalidate" /\ row.user = u /\ row.aim = Asks[op]
  BY DEF Sending, Handler, Idle
<1>5. Founded(row)
  <2> HIDE DEF row
  <2> QED BY <1>1, <1>2, <1>3, <1>4 DEF Founded, Fits, Claims, Confirms, FollowsPending, Purposes
<1> QED BY <1>5 DEF AskForCode, Starts

\* Presenting a code starts a handler.
LEMMA PresentStarts ==
    ASSUME Typed, NEW r \in Requests, NEW u \in Users, NEW i \in DOMAIN code,
           PresentCode(r, u, i)
    PROVE  Starts(r)
<1> DEFINE row == [Handler("markUsed", u) EXCEPT !.aim = code[i].purpose, !.code = i]
<1>1. account[u].email # None
  BY AddressAssumption DEF PresentCode, HasAccount
<1>2. code[i].purpose \in {"VERIFICATION", "RESET_PASSWORD"}
  BY DEF PresentCode
<1>3. i \in Nat
  BY DEF Typed, CodesFit
<1>4. row \in RequestRows
  BY <1>2, <1>3 DEF Handler, Idle, RequestRows, Steps, Aims, Purposes
<1>5. row.op = "markUsed" /\ row.user = u /\ row.aim = code[i].purpose /\ row.code = i
  BY DEF Handler, Idle
<1>6. i \in Usable(u, code[i].purpose)
  BY DEF PresentCode, Newest
<1>7. Founded(row)
  <2> HIDE DEF row
  <2> QED BY <1>1, <1>2, <1>4, <1>5, <1>6
          DEF Founded, Fits, Claims, Confirms, FollowsPending, Purposes
<1> QED BY <1>7 DEF PresentCode, Starts

\* A registration starts a handler.
LEMMA RegisterStarts ==
    ASSUME Typed, NEW r \in Requests, NEW u \in Users, NEW address \in Addresses,
           Register(r, u, address)
    PROVE  Starts(r)
<1>1. PICK role \in {"MEMBER", "ADMIN"} :
        Start(r, [Handler("createUser", u) EXCEPT !.aim = role, !.address = address])
  BY DEF Register
<1> DEFINE row == [Handler("createUser", u) EXCEPT !.aim = role, !.address = address]
<1>2. row \in RequestRows
  BY DEF Handler, Idle, RequestRows, Steps, Aims
<1>3. row.op = "createUser" /\ row.user = u /\ row.aim = role /\ row.address = address
  BY DEF Handler, Idle
<1>4. Holder(address) \subseteq {u}
  BY NoneAssumption DEF Register, Available, Holder
<1>5. Founded(row)
  <2> HIDE DEF row
  <2> QED BY <1>2, <1>3, <1>4 DEF Founded, Fits, Claims, Confirms, FollowsPending, Register
<1> QED BY <1>1, <1>5 DEF Register, Starts

\* The registration of an administrator starts a handler.
LEMMA RegisterAdminStarts ==
    ASSUME Typed, NEW r \in Requests, NEW u \in Users, RegisterAdmin(r, u)
    PROVE  Starts(r)
<1> DEFINE row == [Handler("upgrade", u) EXCEPT !.address = account[u].email]
<1>1. account[u].email \in Addresses /\ account[u].email # None
  BY AddressAssumption DEF RegisterAdmin, HasAccount
<1>2. row \in RequestRows
  BY <1>1 DEF Handler, Idle, RequestRows, Steps, Aims
<1>3. row.op = "upgrade" /\ row.user = u /\ row.address = account[u].email
  BY DEF Handler, Idle
<1>4. Founded(row)
  <2> HIDE DEF row
  <2> QED BY <1>1, <1>2, <1>3 DEF Founded, Fits, Claims, Confirms, FollowsPending
<1> QED BY <1>4 DEF RegisterAdmin, Starts

\* An edit of the profile starts a handler.
LEMMA UpdateProfileStarts ==
    ASSUME Typed, NEW r \in Requests, NEW u \in Users, UpdateMyProfile(r, u)
    PROVE  Starts(r)
<1>1. account[u].email # None
  BY AddressAssumption DEF UpdateMyProfile, SignedIn, HasAccount
<1>2. PICK address \in (Addresses \cup {None}) \ {account[u].email}, password \in BOOLEAN :
        /\ address \in {None, account[u].pending} \/ Available(address, u)
        /\ Start(r, [Handler("updateProfile", u) EXCEPT
                !.address = address,
                !.writes = (IF password THEN {"password"} ELSE {}) \cup
                           (IF address \in {None, account[u].pending} THEN {} ELSE {"pending"})])
  BY DEF UpdateMyProfile
<1> DEFINE writes == (IF password THEN {"password"} ELSE {}) \cup
                     (IF address \in {None, account[u].pending} THEN {} ELSE {"pending"})
<1> DEFINE row == [Handler("updateProfile", u) EXCEPT !.address = address, !.writes = writes]
<1>3. /\ writes \subseteq {"password", "pending"}
      /\ "pending" \in writes <=> address \notin {None, account[u].pending}
  OBVIOUS
<1>4. row \in RequestRows
  <2> HIDE DEF writes
  <2> QED BY <1>3 DEF Handler, Idle, RequestRows, Steps, Aims
<1>5. row.op = "updateProfile" /\ row.user = u /\ row.address = address /\ row.writes = writes
  BY DEF Handler, Idle
<1>6. Founded(row)
  <2> HIDE DEF row, writes
  <2> QED BY <1>1, <1>2, <1>3, <1>4, <1>5
          DEF Founded, Fits, Claims, Confirms, FollowsPending, Available
<1> QED BY <1>2, <1>6 DEF UpdateMyProfile, Starts

\* The confirmation of an address starts a handler.
LEMMA ConfirmStarts ==
    ASSUME Typed, NEW r \in Requests, NEW u \in Users, VerifyPendingEmailChange(r, u)
    PROVE  Starts(r)
<1> DEFINE row == [Handler("readCode", u) EXCEPT
                      !.aim = "EMAIL_CHANGE", !.address = account[u].pending]
<1>1. account[u].email # None /\ account[u].pending \in Addresses
  BY AddressAssumption
     DEF VerifyPendingEmailChange, SignedIn, HasAccount, Typed, RowsFit, AccountRows
<1>2. row \in RequestRows
  BY <1>1 DEF Handler, Idle, RequestRows, Steps, Aims, Purposes
<1>3. /\ row.op = "readCode" /\ row.user = u /\ row.aim = "EMAIL_CHANGE"
      /\ row.address = account[u].pending
  BY DEF Handler, Idle
<1>4. Founded(row)
  <2> HIDE DEF row
  <2> QED BY <1>1, <1>2, <1>3 DEF Founded, Fits, Claims, Confirms, FollowsPending, Available,
                                  VerifyPendingEmailChange
<1> QED BY <1>4 DEF VerifyPendingEmailChange, Starts

\* A decision of the superadmin starts a handler.
LEMMA DecideStarts ==
    ASSUME Typed, NEW r \in Requests, NEW u \in Users, NEW d \in Decisions, Decide(r, u, d)
    PROVE  Starts(r)
<1> DEFINE row == [Handler("decide", u) EXCEPT !.aim = d]
<1>1. account[u].email # None
  BY DEF Decide, Typed, AccountsInv
<1>2. row \in RequestRows
  BY DEF Handler, Idle, RequestRows, Steps, Aims
<1>3. row.op = "decide" /\ row.user = u /\ row.aim = d
  BY DEF Handler, Idle
<1>4. Founded(row)
  <2> HIDE DEF row
  <2> QED BY <1>1, <1>2, <1>3 DEF Founded, Fits, Claims, Confirms, FollowsPending
<1> QED BY <1>4 DEF Decide, Starts

-----------------------------------------------------------------------------
(* The steps of handlers in progress.                                      *)

Ends(r) == Moves(r, Idle)

\* The handler goes on; but for where it is it knows what it knew.
Goes(r, op) ==
    /\ \A q \in Requests \ {r} : Kept(q)
    /\ request'[r].op = op /\ request'[r].user = request[r].user
    /\ request'[r].aim = request[r].aim /\ request'[r].address = request[r].address
    /\ request'[r].session = request[r].session /\ request'[r].password = request[r].password
    /\ request'[r].code = request[r].code /\ request'[r].proven = request[r].proven
    /\ request'[r].overtaken = request[r].overtaken

\* The handler goes on by sending a code.
Sends(r, purpose, address) ==
    /\ \A q \in Requests \ {r} : Kept(q)
    /\ request'[r].op = "invalidate" /\ request'[r].user = request[r].user
    /\ request'[r].aim = purpose /\ request'[r].address = address

\* A request in no handler holds nothing.
LEMMA IdleRow ==
    /\ Idle \in RequestRows /\ Fits(Idle) /\ Idle.op = "idle" /\ Idle.user = None
    /\ ~Claims(Idle) /\ ~Confirms(Idle) /\ ~FollowsPending(Idle) /\ ~Issues(Idle)
BY DEF Idle, RequestRows, Steps, Aims, Fits, Claims, Confirms, FollowsPending, Issues

\* A last statement ends its request.
LEMMA WritesEnds ==
    ASSUME RequestsFit, NEW r \in Requests, NEW u, NEW tables \in SUBSET Tables,
           Writes(r, Idle, u, tables)
    PROVE  RequestsFit' /\ Ends(r) /\ Overtakes(r, u, tables)
BY IdleRow, WritesMoves, WritesFit, Zenon DEF Ends

\* What the row must have for the step op.
MayGo(r, op) ==
    /\ op \in Steps \ {"idle"} /\ request[r].op # "idle"
    /\ op = "send" => request[r].aim \in Purposes
    /\ op = "audit" => request[r].aim \in Decisions
    /\ op \notin {"createUser", "readCode", "invalidate", "markUsed", "updateProfile", "upgrade",
                   "decide"}
    /\ op = "setEmail" => request[r].address \in Addresses

\* A statement with another one after it takes the request there.
LEMMA WritesGoes ==
    ASSUME RequestsFit, NEW r \in Requests, NEW op, MayGo(r, op),
           NEW u, NEW tables \in SUBSET Tables, Writes(r, Go(r, op), u, tables)
    PROVE  RequestsFit' /\ Goes(r, op) /\ Overtakes(r, u, tables)
<1> DEFINE next == Go(r, op)
<1>1. request[r] \in RequestRows /\ request[r].user \in Users
  BY DEF RequestsFit, Fits, MayGo
<1>2. next \in RequestRows
  BY <1>1 DEF Go, RequestRows, MayGo
<1>3. /\ next.op = op /\ next.user = request[r].user
      /\ next.aim = request[r].aim /\ next.address = request[r].address
      /\ next.session = request[r].session /\ next.password = request[r].password
      /\ next.code = request[r].code /\ next.proven = request[r].proven
      /\ next.overtaken = request[r].overtaken
  BY <1>1 DEF Go, RequestRows
<1>4. Writes(r, next, u, tables)
  OBVIOUS
<1> HIDE DEF next
<1>5. Fits(next)
  BY <1>1, <1>3 DEF Fits, Claims, Confirms, MayGo
<1>6. RequestsFit'
  BY <1>2, <1>4, <1>5, WritesFit, Zenon
<1>7. Moves(r, next) /\ Overtakes(r, u, tables)
  BY <1>4, WritesMoves, Zenon
<1> QED BY <1>3, <1>6, <1>7 DEF Moves, Goes

IsSending(row, u, purpose, address) ==
    /\ row \in RequestRows /\ Fits(row)
    /\ row.op = "invalidate" /\ row.user = u
    /\ row.aim = purpose /\ row.address = address

\* A request that is going to send a code knows for whom, why and where to.
LEMMA SendingRow ==
    ASSUME NEW u \in Users, NEW purpose \in Purposes, NEW address \in Addresses \cup {None}
    PROVE  IsSending(Sending(u, purpose, address), u, purpose, address)
<1> DEFINE row == Sending(u, purpose, address)
<1>1. row \in RequestRows
  BY DEF Sending, Handler, Idle, RequestRows, Steps, Aims
<1>2. row.op = "invalidate" /\ row.user = u /\ row.aim = purpose /\ row.address = address
  BY DEF Sending, Handler, Idle
<1>3. Fits(row)
  <2> HIDE DEF row
  <2> QED BY <1>2 DEF Fits, Claims, Confirms
<1> QED BY <1>1, <1>2, <1>3 DEF IsSending

\* A statement after which a code is sent takes the request there.
LEMMA WritesSends ==
    ASSUME RequestsFit, NEW r \in Requests, NEW purpose \in Purposes,
           NEW address \in Addresses \cup {None}, request[r].user \in Users,
           NEW tables \in SUBSET Tables,
           Writes(r, Sending(request[r].user, purpose, address), request[r].user, tables)
    PROVE  RequestsFit' /\ Sends(r, purpose, address) /\ Overtakes(r, request[r].user, tables)
<1> DEFINE u == request[r].user
<1> DEFINE next == Sending(u, purpose, address)
<1>1. IsSending(next, u, purpose, address)
  BY SendingRow, Zenon
<1>2. Writes(r, next, u, tables)
  OBVIOUS
<1> HIDE DEF next
<1>3. RequestsFit'
  BY <1>1, <1>2, WritesFit, Zenon DEF IsSending
<1>4. Moves(r, next) /\ Overtakes(r, u, tables)
  BY <1>2, WritesMoves, Zenon
<1>5. Sends(r, purpose, address)
  BY <1>1, <1>4 DEF Moves, Sends, IsSending
<1> QED BY <1>3, <1>4, <1>5

\* The step of each handler, as far as the requests are concerned.
LEMMA IssueSteps ==
    ASSUME RequestsFit, NEW r \in Requests
    PROVE  /\ IssueRevokes(r) => /\ RequestsFit' /\ Goes(r, "create")
                                 /\ Overtakes(r, request[r].user, {"tokens"})
           /\ IssueCreates(r) => /\ RequestsFit' /\ Ends(r)
                                 /\ Overtakes(r, request[r].user, {"tokens"})
           /\ \A i \in DOMAIN token : Logout(r, i) =>
                /\ RequestsFit' /\ Ends(r) /\ Overtakes(r, token[i].user, {"tokens"})
<1>1. {"tokens"} \in SUBSET Tables
  BY DEF Tables
<1>2. ASSUME IssueRevokes(r)
      PROVE  RequestsFit' /\ Goes(r, "create") /\ Overtakes(r, request[r].user, {"tokens"})
  <2>1. Writes(r, Go(r, "create"), request[r].user, {"tokens"})
    BY <1>2 DEF IssueRevokes
  <2>2. MayGo(r, "create")
    BY <1>2 DEF IssueRevokes, MayGo, Steps
  <2> QED BY <1>1, <2>1, <2>2, WritesGoes, Zenon
<1>3. ASSUME IssueCreates(r)
      PROVE  RequestsFit' /\ Ends(r) /\ Overtakes(r, request[r].user, {"tokens"})
  <2>1. Writes(r, Idle, request[r].user, {"tokens"})
    BY <1>3 DEF IssueCreates
  <2> QED BY <1>1, <2>1, WritesEnds, Zenon
<1>4. ASSUME NEW i \in DOMAIN token, Logout(r, i)
      PROVE  RequestsFit' /\ Ends(r) /\ Overtakes(r, token[i].user, {"tokens"})
  <2>1. Writes(r, Idle, token[i].user, {"tokens"})
    BY <1>4 DEF Logout
  <2> QED BY <1>1, <2>1, WritesEnds, Zenon
<1> QED BY <1>2, <1>3, <1>4

\* Where the statements on credentials and sessions take a request.
LEMMA CredentialSteps ==
    ASSUME RequestsFit, NEW r \in Requests
    PROVE  /\ SetPassword(r) => /\ RequestsFit' /\ Goes(r, "endSessions")
                                /\ Overtakes(r, request[r].user, {"user"})
           /\ EndSessions(r) => /\ RequestsFit' /\ Ends(r)
                                /\ Overtakes(r, request[r].user, {"tokens"})
           /\ SetVerified(r) => RequestsFit' /\ Ends(r)
<1>1. {"tokens"} \in SUBSET Tables /\ {"user"} \in SUBSET Tables
  BY DEF Tables
<1>2. ASSUME SetPassword(r)
      PROVE  RequestsFit' /\ Goes(r, "endSessions") /\ Overtakes(r, request[r].user, {"user"})
  <2>1. Writes(r, Go(r, "endSessions"), request[r].user, {"user"})
    BY <1>2 DEF SetPassword, AfterPassword
  <2>2. MayGo(r, "endSessions")
    BY <1>2 DEF SetPassword, MayGo, Steps
  <2> QED BY <1>1, <2>1, <2>2, WritesGoes, Zenon
<1>3. ASSUME EndSessions(r)
      PROVE  RequestsFit' /\ Ends(r) /\ Overtakes(r, request[r].user, {"tokens"})
  <2>1. Writes(r, Idle, request[r].user, {"tokens"})
    BY <1>3 DEF EndSessions
  <2> QED BY <1>1, <2>1, WritesEnds, Zenon
<1>4. ASSUME SetVerified(r)
      PROVE  RequestsFit' /\ Ends(r)
  <2>1. Writes(r, Idle, request[r].user, {"user"})
    BY <1>4 DEF SetVerified
  <2> QED BY <1>1, <2>1, WritesEnds, Zenon
<1> QED BY <1>2, <1>3, <1>4

\* Where those on one-time passwords take it.
LEMMA CodeSteps ==
    ASSUME RequestsFit, NEW r \in Requests
    PROVE  /\ Invalidate(r) => /\ RequestsFit' /\ Goes(r, "send")
                               /\ Overtakes(r, request[r].user, {"codes"})
           /\ CreateCode(r) => /\ RequestsFit' /\ Ends(r)
                               /\ Overtakes(r, request[r].user, {"codes"})
           /\ MarkUsed(r) => /\ RequestsFit' /\ Goes(r, Then[request[r].aim])
                             /\ Overtakes(r, request[r].user, {"codes"})
<1>1. {"codes"} \in SUBSET Tables
  BY DEF Tables
<1>2. request[r] \in RequestRows /\ Fits(request[r])
  BY DEF RequestsFit
<1>3. ASSUME Invalidate(r)
      PROVE  RequestsFit' /\ Goes(r, "send") /\ Overtakes(r, request[r].user, {"codes"})
  <2>1. request[r].aim \in Purposes
    BY <1>2, <1>3 DEF Invalidate, Fits
  <2>2. Writes(r, Go(r, "send"), request[r].user, {"codes"})
    BY <1>3 DEF Invalidate
  <2>3. MayGo(r, "send")
    BY <1>3, <2>1 DEF Invalidate, MayGo, Steps
  <2> QED BY <1>1, <2>2, <2>3, WritesGoes, Zenon
<1>4. ASSUME CreateCode(r)
      PROVE  RequestsFit' /\ Ends(r) /\ Overtakes(r, request[r].user, {"codes"})
  <2>1. Writes(r, Idle, request[r].user, {"codes"})
    BY <1>4 DEF CreateCode, NewCode
  <2> QED BY <1>1, <2>1, WritesEnds, Zenon
<1>5. ASSUME MarkUsed(r)
      PROVE  /\ RequestsFit' /\ Goes(r, Then[request[r].aim])
             /\ Overtakes(r, request[r].user, {"codes"})
  <2>1. request[r].aim \in Purposes /\ (Confirms(request[r]) => request[r].address \in Addresses)
    BY <1>2, <1>5 DEF MarkUsed, Fits, Claims
  <2>2. /\ Then[request[r].aim] \in {"setVerified", "setPassword", "setEmail"}
        /\ Then[request[r].aim] = "setEmail" => request[r].aim = "EMAIL_CHANGE"
    BY <2>1 DEF Then, Purposes
  <2> DEFINE op == Then[request[r].aim]
  <2>3. Writes(r, Go(r, op), request[r].user, {"codes"}) /\ request[r].op = "markUsed"
    BY <1>5 DEF MarkUsed
  <2>4. op = "setEmail" => request[r].address \in Addresses
    BY <2>1, <2>2, <2>3 DEF Confirms
  <2> HIDE DEF op
  <2>5. op \in {"setVerified", "setPassword", "setEmail"}
    BY <2>2 DEF op
  <2>6. MayGo(r, op)
    BY <2>3, <2>4, <2>5 DEF MayGo, Steps
  <2>7. RequestsFit' /\ Goes(r, op) /\ Overtakes(r, request[r].user, {"codes"})
    BY <1>1, <2>3, <2>6, WritesGoes, Zenon
  <2> QED BY <2>7 DEF op
<1> QED BY <1>3, <1>4, <1>5

\* Where those of a registration take it.
LEMMA RegistrationSteps ==
    ASSUME RequestsFit, NEW r \in Requests
    PROVE  /\ CreateUser(r) => /\ RequestsFit'
                               /\ Sends(r, "VERIFICATION", request[r].address)
                               /\ Overtakes(r, request[r].user, Tables)
           /\ Upgrade(r) => /\ RequestsFit'
                            /\ Ends(r) \/ Sends(r, "VERIFICATION", request[r].address)
<1>1. Tables \in SUBSET Tables /\ {"user"} \in SUBSET Tables /\ "VERIFICATION" \in Purposes
  BY DEF Tables, Purposes
<1>2. request[r] \in RequestRows /\ Fits(request[r])
  BY DEF RequestsFit
<1>3. ASSUME CreateUser(r)
      PROVE  /\ RequestsFit' /\ Sends(r, "VERIFICATION", request[r].address)
             /\ Overtakes(r, request[r].user, Tables)
  <2>1. request[r].address \in Addresses /\ request[r].user \in Users
    BY <1>2, <1>3 DEF CreateUser, Fits, Claims
  <2>2. Writes(r, Sending(request[r].user, "VERIFICATION", request[r].address),
               request[r].user, Tables)
    BY <1>3 DEF CreateUser
  <2>3. request[r].address \in Addresses \cup {None}
    BY <2>1
  <2> QED BY <1>1, <2>1, <2>2, <2>3, WritesSends, Zenon
<1>4. ASSUME Upgrade(r)
      PROVE  RequestsFit' /\ (Ends(r) \/ Sends(r, "VERIFICATION", request[r].address))
  <2>1. request[r].address \in Addresses /\ request[r].user \in Users
    BY <1>2, <1>4 DEF Upgrade, Fits
  <2>2. CASE account[request[r].user].email = request[r].address
    <3>1. Writes(r, Sending(request[r].user, "VERIFICATION", request[r].address),
                 request[r].user, {"user"})
      BY <1>4, <2>2 DEF Upgrade
    <3>2. request[r].address \in Addresses \cup {None}
      BY <2>1
    <3> QED BY <1>1, <2>1, <3>1, <3>2, WritesSends, Zenon
  <2>3. CASE account[request[r].user].email # request[r].address
    <3>1. Writes(r, Idle, request[r].user, {"user"})
      BY <1>4, <2>3 DEF Upgrade
    <3> QED BY <1>1, <3>1, WritesEnds, Zenon
  <2> QED BY <2>2, <2>3
<1> QED BY <1>3, <1>4

\* The tables a profile update writes.
Touched(row) ==
    (IF "password" \in row.writes THEN {"user", "tokens"} ELSE {})
        \cup (IF "pending" \in row.writes THEN {"addresses"} ELSE {})

\* Where those on addresses take it.
LEMMA ProfileSteps ==
    ASSUME RequestsFit, NEW r \in Requests
    PROVE  /\ WriteProfile(r) =>
                /\ RequestsFit' /\ Overtakes(r, request[r].user, Touched(request[r]))
                /\ \/ Ends(r) /\ request[r].address = None
                   \/ /\ Sends(r, "EMAIL_CHANGE", request[r].address)
                      /\ request'[r].overtaken = request[r].overtaken
           /\ SetEmail(r) => /\ RequestsFit' /\ Ends(r)
                             /\ Overtakes(r, request[r].user, {"addresses", "tokens"})
           /\ WriteClosed(r) => /\ RequestsFit' /\ Ends(r)
                                /\ Overtakes(r, request[r].user, Tables)
<1>1. Tables \in SUBSET Tables /\ {"addresses", "tokens"} \in SUBSET Tables
  BY DEF Tables
<1>2. request[r] \in RequestRows /\ Fits(request[r])
  BY DEF RequestsFit
<1>3. ASSUME WriteProfile(r)
      PROVE  /\ RequestsFit' /\ Overtakes(r, request[r].user, Touched(request[r]))
             /\ \/ Ends(r) /\ request[r].address = None
                \/ /\ Sends(r, "EMAIL_CHANGE", request[r].address)
                   /\ request'[r].overtaken = request[r].overtaken
  <2> DEFINE u == request[r].user
             sending == Sending(u, "EMAIL_CHANGE", request[r].address)
             next == [sending EXCEPT !.overtaken = request[r].overtaken]
  <2>1. u \in Users /\ request[r].address \in Addresses \cup {None}
    BY <1>2, <1>3 DEF WriteProfile, Fits, RequestRows
  <2>2. Touched(request[r]) \in SUBSET Tables
    BY DEF Touched, Tables
  <2>3. /\ request[r].address = None => Writes(r, Idle, u, Touched(request[r]))
        /\ request[r].address # None => Writes(r, next, u, Touched(request[r]))
    BY <1>3 DEF WriteProfile, SentTo, Touched
  <2>4. CASE request[r].address = None
    BY <2>2, <2>3, <2>4, WritesEnds, Zenon
  <2>5. CASE request[r].address # None
    <3>1. IsSending(sending, u, "EMAIL_CHANGE", request[r].address)
      <4>1. "EMAIL_CHANGE" \in Purposes
        BY DEF Purposes
      <4> QED BY <2>1, <4>1, SendingRow, Zenon
    <3> HIDE DEF sending
    <3>2. /\ next \in RequestRows /\ next.overtaken = request[r].overtaken
          /\ next.op = "invalidate" /\ next.user = u
          /\ next.aim = "EMAIL_CHANGE" /\ next.address = request[r].address
      BY <1>2, <3>1 DEF IsSending, RequestRows
    <3> HIDE DEF next
    <3>3. Fits(next)
      BY <2>1, <3>2 DEF Fits, Claims, Confirms, Purposes
    <3>4. RequestsFit'
      BY <2>2, <2>3, <2>5, <3>2, <3>3, WritesFit, Zenon
    <3>5. Moves(r, next) /\ Overtakes(r, u, Touched(request[r]))
      BY <2>2, <2>3, <2>5, WritesMoves, Zenon
    <3>6. Sends(r, "EMAIL_CHANGE", request[r].address) /\ request'[r].overtaken = request[r].overtaken
      BY <3>2, <3>5 DEF Moves, Sends
    <3> QED BY <3>4, <3>5, <3>6
  <2> QED BY <2>4, <2>5
<1>4. ASSUME SetEmail(r)
      PROVE  RequestsFit' /\ Ends(r) /\ Overtakes(r, request[r].user, {"addresses", "tokens"})
  <2>1. Writes(r, Idle, request[r].user, {"addresses", "tokens"})
    BY <1>4 DEF SetEmail
  <2> QED BY <1>1, <2>1, WritesEnds, Zenon
<1>5. ASSUME WriteClosed(r)
      PROVE  RequestsFit' /\ Ends(r) /\ Overtakes(r, request[r].user, Tables)
  <2>1. Writes(r, Idle, request[r].user, Tables)
    BY <1>5 DEF WriteClosed
  <2> QED BY <1>1, <2>1, WritesEnds, Zenon
<1> QED BY <1>3, <1>4, <1>5

\* The handler that confirms has found a code.
Reads(r, i) ==
    /\ \A q \in Requests \ {r} : request'[q] = request[q]
    /\ request'[r].op = "markUsed" /\ request'[r].user = request[r].user
    /\ request'[r].aim = request[r].aim /\ request'[r].address = request[r].address
    /\ request'[r].code = i
    /\ request'[r].proven = (code[i].address = request[r].address)
    /\ request[r].overtaken \subseteq request'[r].overtaken
    /\ code[i].late => "codes" \in request'[r].overtaken

\* A code that was read is the one the request goes on with.
LEMMA ReadSteps ==
    ASSUME RequestsFit, NEW r \in Requests, NEW i \in DOMAIN code, DOMAIN code \subseteq Nat,
           ReadCode(r, i)
    PROVE  RequestsFit' /\ Reads(r, i)
<1> DEFINE row == request[r]
           proven == (code[i].address = row.address)
           seen == IF code[i].late THEN {"codes"} ELSE {}
           next == [Go(r, "markUsed") EXCEPT !.code = i, !.proven = proven,
                                             !.overtaken = @ \cup seen]
<1>1. row \in RequestRows /\ Fits(row) /\ row.op = "readCode"
  BY DEF RequestsFit, ReadCode
<1>2. /\ seen \subseteq Tables /\ proven \in BOOLEAN
      /\ code[i].late => "codes" \in seen
  BY DEF Tables
<1>3. request' = [request EXCEPT ![r] = next]
  BY DEF ReadCode
<1> HIDE DEF seen, proven
<1>4. /\ next.op = "markUsed" /\ next.user = row.user /\ next.aim = row.aim
      /\ next.address = row.address /\ next.code = i /\ next.proven = proven
      /\ next.overtaken = row.overtaken \cup seen
  BY <1>1 DEF Go, RequestRows
<1>5. next \in RequestRows
  BY <1>1, <1>2 DEF Go, RequestRows, Steps
<1> HIDE DEF next
<1>6. Fits(next)
  BY <1>1, <1>4 DEF Fits, Claims, Confirms, Purposes
<1>7. RequestsFit'
  BY <1>3, <1>5, <1>6 DEF RequestsFit
<1>8. request'[r] = next /\ \A q \in Requests \ {r} : request'[q] = request[q]
  BY <1>3 DEF RequestsFit
<1>9. Reads(r, i)
  BY <1>2, <1>4, <1>8 DEF Reads, proven
<1> QED BY <1>7, <1>9

\* Request r is over; the others notice nothing.
Quits(r) ==
    request'[r] = Idle /\ \A q \in Requests \ {r} : request'[q] = request[q]

\* Where the decisions of the superadmin take it.
LEMMA DecisionSteps ==
    ASSUME RequestsFit, NEW r \in Requests
    PROVE  /\ WriteRequest(r) => RequestsFit' /\ Ends(r)
           /\ WriteDecision(r) => /\ RequestsFit' /\ Goes(r, "audit")
                                  /\ Overtakes(r, request[r].user, {"user"})
           /\ WriteAudit(r) \/ Refused(r) \/ Dies(r) => RequestsFit' /\ Quits(r)
<1>1. {"user"} \in SUBSET Tables
  BY DEF Tables
<1>2. request[r] \in RequestRows /\ Fits(request[r])
  BY DEF RequestsFit
<1>3. ASSUME WriteRequest(r)
      PROVE  RequestsFit' /\ Ends(r)
  <2>1. Writes(r, Idle, request[r].user, {"user"})
    BY <1>3 DEF WriteRequest
  <2> QED BY <1>1, <2>1, WritesEnds, Zenon
<1>4. ASSUME WriteDecision(r)
      PROVE  RequestsFit' /\ Goes(r, "audit") /\ Overtakes(r, request[r].user, {"user"})
  <2>1. request[r].aim \in Decisions
    BY <1>2, <1>4 DEF WriteDecision, Fits
  <2>2. Writes(r, Go(r, "audit"), request[r].user, {"user"})
    BY <1>4 DEF WriteDecision
  <2>3. MayGo(r, "audit")
    BY <1>4, <2>1 DEF WriteDecision, MayGo, Steps
  <2> QED BY <1>1, <2>2, <2>3, WritesGoes, Zenon
<1>5. ASSUME WriteAudit(r) \/ Refused(r) \/ Dies(r)
      PROVE  RequestsFit' /\ Quits(r)
  <2>1. request' = [request EXCEPT ![r] = Idle]
    BY <1>5 DEF WriteAudit, Refused, Dies
  <2> QED BY <2>1, IdleRow DEF RequestsFit, Quits
<1> QED BY <1>3, <1>4, <1>5

-----------------------------------------------------------------------------
(* How a step changes the codes and the tokens.                            *)

\* The code is as it was, or no longer usable.
CodeKept(j) ==
    /\ code'[j].uses = code[j].uses /\ code'[j].late = code[j].late
    /\ code'[j] = code[j] \/ ~code'[j].usable

\* A code that is gone can be used no more.
LEMMA GoneRow ==
    ASSUME NEW c \in CodeRows
    PROVE  /\ Gone(c) \in CodeRows /\ ~Gone(c).usable
           /\ Gone(c).uses = c.uses /\ Gone(c).late = c.late
BY DEF Gone, CodeRows

\* Codes that are spent are gone, the others stay.
LEMMA SpentCodes ==
    ASSUME CodesFit, NEW u, NEW purposes, code' = Spent(u, purposes)
    PROVE  /\ CodesFit' /\ DOMAIN code' = DOMAIN code
           /\ \A j \in DOMAIN code :
                /\ CodeKept(j)
                /\ code[j].user = u /\ code[j].purpose \in purposes => ~code'[j].usable
<1> USE DEF CodesFit
<1>1. DOMAIN code = 1..Len(code) /\ Len(code) \in Nat
  OBVIOUS
<1>2. code' = [j \in 1..Len(code) |-> code'[j]]
  BY <1>1 DEF Spent
<1>3. ASSUME NEW j \in DOMAIN code
      PROVE  /\ code'[j] \in CodeRows /\ CodeKept(j)
             /\ code[j].user = u /\ code[j].purpose \in purposes => ~code'[j].usable
             /\ code'[j].usable => code'[j].user \in Users /\ code'[j].purpose \in Purposes
  <2>1. code[j] \in CodeRows
    OBVIOUS
  <2>2. code'[j] = IF code[j].user = u /\ code[j].purpose \in purposes
                   THEN Gone(code[j]) ELSE code[j]
    BY DEF Spent
  <2>3. /\ Gone(code[j]) \in CodeRows /\ ~Gone(code[j]).usable
        /\ Gone(code[j]).uses = code[j].uses /\ Gone(code[j]).late = code[j].late
    BY <2>1, GoneRow, Zenon
  <2> QED BY <2>1, <2>2, <2>3 DEF CodeKept
<1>4. code' \in Seq(CodeRows) /\ Len(code') = Len(code)
  BY <1>1, <1>2, <1>3
<1> QED BY <1>1, <1>3, <1>4

\* A code that expires is gone, the others stay.
LEMMA ExpiredCode ==
    ASSUME CodesFit, NEW i \in DOMAIN code, ExpireCode(i)
    PROVE  /\ CodesFit' /\ DOMAIN code' = DOMAIN code
           /\ \A j \in DOMAIN code : CodeKept(j)
<1> USE DEF CodesFit
<1>1. DOMAIN code = 1..Len(code) /\ Len(code) \in Nat
  OBVIOUS
<1>2. code' = [code EXCEPT ![i] = Gone(code[i])]
  BY DEF ExpireCode
<1>3. /\ Gone(code[i]) \in CodeRows /\ ~Gone(code[i]).usable
      /\ Gone(code[i]).uses = code[i].uses /\ Gone(code[i]).late = code[i].late
  <2>1. code[i] \in CodeRows
    OBVIOUS
  <2> QED BY <2>1, GoneRow, Zenon
<1>4. code' \in Seq(CodeRows) /\ Len(code') = Len(code)
  BY <1>1, <1>2, <1>3
<1>5. ASSUME NEW j \in DOMAIN code
      PROVE  CodeKept(j) /\ (code'[j] = code[j] \/ ~code'[j].usable)
  BY <1>2, <1>3 DEF CodeKept
<1> QED BY <1>1, <1>4, <1>5

\* The code that request r has found is used.
Marks(r) ==
    LET i == request[r].code
    IN  /\ code'[i].uses = code[i].uses + 1 /\ ~code'[i].usable
        /\ code'[i].late = (code[i].late \/ "codes" \in request[r].overtaken)
        /\ \A j \in DOMAIN code \ {i} : code'[j] = code[j]

\* A code that is marked used counts one use more.
LEMMA MarkedCode ==
    ASSUME CodesFit, RequestsFit, NEW r \in Requests, MarkUsed(r), request[r].code \in DOMAIN code
    PROVE  CodesFit' /\ DOMAIN code' = DOMAIN code /\ Marks(r)
<1> USE DEF CodesFit
<1> DEFINE i == request[r].code
           gone == Gone(code[i])
           late == Late(r, {"codes"})
           more == code[i].uses + 1
           used == [gone EXCEPT !.uses = more]
           new == [used EXCEPT !.late = @ \/ late]
<1>1. DOMAIN code = 1..Len(code) /\ Len(code) \in Nat /\ code[i] \in CodeRows
  OBVIOUS
<1>2. gone \in CodeRows /\ ~gone.usable /\ gone.uses = code[i].uses /\ gone.late = code[i].late
  BY <1>1, GoneRow, Zenon
<1>3. late \in BOOLEAN /\ (late <=> "codes" \in request[r].overtaken)
  BY DEF Late
<1>4. code' = [code EXCEPT ![i] = new]
  <2>1. Used(i) = [code EXCEPT ![i] = used]
    BY Zenon DEF Used
  <2>2. code' = [Used(i) EXCEPT ![i].late = @ \/ late]
    BY Zenon DEF MarkUsed
  <2> HIDE DEF used, late
  <2> QED BY <1>1, <2>1, <2>2
<1>0. more \in Nat /\ more = code[i].uses + 1
  <2> HIDE DEF gone
  <2> QED BY <1>1, <1>2 DEF CodeRows
<1> HIDE DEF gone, late, more
<1>5. /\ used \in CodeRows /\ ~used.usable
      /\ used.uses = code[i].uses + 1 /\ used.late = code[i].late
  BY <1>0, <1>1, <1>2 DEF CodeRows
<1> HIDE DEF used
<1>6. /\ new \in CodeRows /\ ~new.usable
      /\ new.uses = code[i].uses + 1 /\ new.late = (code[i].late \/ late)
  BY <1>3, <1>5 DEF CodeRows
<1> HIDE DEF new
<1>7. code' \in Seq(CodeRows) /\ Len(code') = Len(code)
  BY <1>1, <1>4, <1>6
<1>8. code'[i] = new /\ \A j \in DOMAIN code \ {i} : code'[j] = code[j]
  BY <1>1, <1>4
<1>9. Marks(r)
  BY <1>3, <1>6, <1>8 DEF Marks
<1> QED BY <1>1, <1>6, <1>7, <1>8, <1>9

\* A code is added for the user, purpose and address of request r.
Adds(r) ==
    LET i == Len(code) + 1
    IN  /\ DOMAIN code' = DOMAIN code \cup {i} /\ i \notin DOMAIN code
        /\ \A j \in DOMAIN code : code'[j] = code[j]
        /\ code'[i].user = request[r].user /\ code'[i].purpose = request[r].aim
        /\ code'[i].address = request[r].address
        /\ code'[i].usable /\ code'[i].uses = 0
        /\ code'[i].late <=>
             "codes" \in request[r].overtaken \/ "addresses" \in request[r].overtaken

\* A new code is one more row.
LEMMA AddedCode ==
    ASSUME CodesFit, RequestsFit, NEW r \in Requests, CreateCode(r)
    PROVE  CodesFit' /\ Adds(r)
<1> USE DEF CodesFit
<1> DEFINE i == Len(code) + 1
           late == Late(r, {"codes", "addresses"})
           new == [user |-> request[r].user, purpose |-> request[r].aim,
                   address |-> request[r].address, usable |-> TRUE, uses |-> 0, late |-> late]
<1>1. DOMAIN code = 1..Len(code) /\ Len(code) \in Nat
  OBVIOUS
<1>2. late <=> "codes" \in request[r].overtaken \/ "addresses" \in request[r].overtaken
  BY DEF Late
<1>3. late \in BOOLEAN
  BY DEF Late
<1>4. code' = Append(code, new) /\ Len(code) < MaxCodes
  BY DEF CreateCode, NewCode
<1>5. request[r] \in RequestRows /\ request[r].user \in Users /\ request[r].aim \in Purposes
  BY DEF RequestsFit, Fits, CreateCode
<1> HIDE DEF late
<1>6. new \in CodeRows
  BY <1>3, <1>5 DEF CodeRows, RequestRows
<1>7. /\ new.user = request[r].user /\ new.purpose = request[r].aim
      /\ new.address = request[r].address /\ new.usable /\ new.uses = 0 /\ new.late = late
  OBVIOUS
<1> HIDE DEF new
<1>8. code' \in Seq(CodeRows) /\ Len(code') = i
  BY <1>1, <1>4, <1>6
<1>9. /\ DOMAIN code' = DOMAIN code \cup {i} /\ i \notin DOMAIN code
      /\ code'[i] = new /\ \A j \in DOMAIN code : code'[j] = code[j]
  BY <1>1, <1>4, <1>6
<1>10. Adds(r)
  BY <1>2, <1>7, <1>9 DEF Adds
<1> QED BY <1>1, <1>4, <1>5, <1>7, <1>8, <1>9, <1>10, BoundsAssumption

\* A dead session is not live.
LEMMA DeadRow ==
    Dead \in TokenRows /\ ~Dead.live /\ ~Dead.late
BY DEF Dead, TokenRows

\* The tokens of the user are dead, those of the others as they were.
Kills(u) ==
    /\ Len(token') = Len(token) /\ DOMAIN token' = DOMAIN token
    /\ \A j \in DOMAIN token :
        /\ token[j].user # u => token'[j] = token[j]
        /\ token[j].user = u => ~token'[j].live
        /\ token'[j].live => token'[j] = token[j]

\* Revoking ends every session of the user and no other.
LEMMA RevokedTokens ==
    ASSUME TokensFit, NEW u, token' = Revoked(u)
    PROVE  TokensFit' /\ Kills(u)
<1> USE DEF TokensFit
<1>1. DOMAIN token = 1..Len(token) /\ Len(token) \in Nat
  OBVIOUS
<1>2. ASSUME NEW j \in DOMAIN token
      PROVE  /\ token'[j] \in TokenRows
             /\ token[j].user # u => token'[j] = token[j]
             /\ token[j].user = u => ~token'[j].live
             /\ token'[j].live => token'[j] = token[j]
  BY DeadRow DEF Revoked
<1>3. token' = [j \in 1..Len(token) |-> token'[j]]
  BY <1>1 DEF Revoked
<1>4. token' \in Seq(TokenRows) /\ Len(token') = Len(token)
  BY <1>1, <1>2, <1>3
<1> QED BY <1>1, <1>2, <1>4 DEF Kills

\* One session can end on its own.
LEMMA DeadToken ==
    ASSUME TokensFit, NEW i \in DOMAIN token, token' = [token EXCEPT ![i] = Dead]
    PROVE  /\ TokensFit' /\ Len(token') = Len(token) /\ DOMAIN token' = DOMAIN token
           /\ ~token'[i].live /\ \A j \in DOMAIN token \ {i} : token'[j] = token[j]
<1> USE DEF TokensFit
<1>1. DOMAIN token = 1..Len(token) /\ Len(token) \in Nat
  OBVIOUS
<1>2. token' \in Seq(TokenRows) /\ Len(token') = Len(token)
  BY <1>1, DeadRow
<1>3. ~token'[i].live /\ \A j \in DOMAIN token \ {i} : token'[j] = token[j]
  BY <1>1, DeadRow
<1> QED BY <1>1, <1>2, <1>3

\* The token request r issues is added.
Issued(r) ==
    LET i == Len(token) + 1
    IN  /\ Len(token') = i /\ DOMAIN token' = DOMAIN token \cup {i} /\ i \notin DOMAIN token
        /\ \A j \in DOMAIN token : token'[j] = token[j]
        /\ token'[i].user = request[r].user /\ token'[i].live
        /\ token'[i].session = IF request[r].session = 0 THEN i ELSE request[r].session
        /\ token'[i].password = request[r].password
        /\ token'[i].late <=> "tokens" \in request[r].overtaken

\* A new session is one more row.
LEMMA IssuedToken ==
    ASSUME TokensFit, RequestsFit, NEW r \in Requests, IssueCreates(r)
    PROVE  TokensFit' /\ Issued(r)
<1> USE DEF TokensFit
<1> DEFINE i == Len(token) + 1
           late == Late(r, {"tokens"})
           session == IF request[r].session = 0 THEN i ELSE request[r].session
           new == [user |-> request[r].user, live |-> TRUE, session |-> session,
                   password |-> request[r].password, late |-> late]
<1>1. DOMAIN token = 1..Len(token) /\ Len(token) \in Nat
  OBVIOUS
<1>2. late \in BOOLEAN /\ (late <=> "tokens" \in request[r].overtaken)
  BY DEF Late
<1>3. token' = Append(token, new) /\ Len(token) < MaxTokens
  BY DEF IssueCreates
<1>4. request[r] \in RequestRows /\ request[r].user \in Users
  BY DEF RequestsFit, Fits, IssueCreates
<1>5. session \in Nat
  BY <1>1, <1>4 DEF RequestRows
<1> HIDE DEF late, session
<1>6. new \in TokenRows
  BY <1>2, <1>4, <1>5 DEF TokenRows, RequestRows
<1>7. /\ new.user = request[r].user /\ new.live /\ new.session = session
      /\ new.password = request[r].password /\ new.late = late
  OBVIOUS
<1> HIDE DEF new
<1>8. token' \in Seq(TokenRows) /\ Len(token') = i
  BY <1>1, <1>3, <1>6
<1>9. /\ DOMAIN token' = DOMAIN token \cup {i} /\ i \notin DOMAIN token
      /\ token'[i] = new /\ \A j \in DOMAIN token : token'[j] = token[j]
  BY <1>1, <1>3, <1>6
<1>10. Issued(r)
  BY <1>2, <1>7, <1>8, <1>9 DEF Issued, session
<1> QED BY <1>1, <1>3, <1>4, <1>7, <1>8, <1>9, <1>10, BoundsAssumption

-----------------------------------------------------------------------------
(* How a step changes the accounts.                                        *)

\* Nobody has an address before registering.
LEMMA UnregisteredRow ==
    /\ Unregistered \in AccountRows /\ Unregistered.email = None /\ Unregistered.pending = None
    /\ Unregistered.role = "MEMBER" /\ Unregistered.status = "ACTIVE"
<1> DEFINE zero == 0
<1>1. Unregistered = [email |-> None, pending |-> None, verified |-> FALSE, password |-> zero,
                      role |-> "MEMBER", requested |-> FALSE, status |-> "ACTIVE"]
  BY Zenon DEF Unregistered
<1>2. zero \in 0..MaxPasswords
  BY BoundsAssumption
<1> HIDE DEF zero
<1> QED BY <1>1, <1>2 DEF AccountRows

IsRegistered(row, address, role) ==
    /\ row \in AccountRows /\ row.email = address /\ row.pending = None
    /\ row.role = role /\ row.status = "ACTIVE"

\* Who registers has the address and role asked for.
LEMMA RegisteredRow ==
    ASSUME NEW address \in Addresses, NEW role \in {"MEMBER", "ADMIN", "SUPERADMIN"}
    PROVE  IsRegistered(Registered(address, role), address, role)
<1> DEFINE one == 1
<1>1. Registered(address, role) =
        [Unregistered EXCEPT !.email = address, !.password = one, !.role = role]
  BY Zenon DEF Registered
<1>2. one \in 0..MaxPasswords
  BY BoundsAssumption
<1> HIDE DEF one
<1> QED BY <1>1, <1>2, UnregisteredRow DEF AccountRows, IsRegistered

SameAddresses(u) ==
    account'[u].email = account[u].email /\ account'[u].pending = account[u].pending

SameRights(u) ==
    account'[u].role = account[u].role /\ account'[u].status = account[u].status

SamePassword(u) == account'[u].password = account[u].password

OthersKept(u) == \A v \in Users \ {u} : account'[v] = account[v]

\* What the statements on accounts that touch no address write.
LEMMA AccountSteps ==
    ASSUME RowsFit, NEW r \in Requests, NEW u \in Users, u = request[r].user
    PROVE  /\ SetPassword(r) \/ SetVerified(r) \/ WriteRequest(r) =>
                /\ account' \in [Users -> AccountRows] /\ OthersKept(u)
                /\ SameAddresses(u) /\ SameRights(u)
           /\ SetVerified(r) \/ WriteRequest(r) => SamePassword(u)
           /\ Upgrade(r) =>
                /\ account' \in [Users -> AccountRows] /\ OthersKept(u)
                /\ SameAddresses(u)
           /\ WriteClosed(r) =>
                /\ account' \in [Users -> AccountRows] /\ OthersKept(u) /\ SameRights(u)
                /\ account'[u].email = "anonymized" /\ account'[u].pending = None
<1> USE DEF RowsFit, AccountRows, OthersKept, SameAddresses, SameRights, SamePassword
<1>1. ASSUME SetPassword(r)
      PROVE  /\ account' \in [Users -> AccountRows] /\ OthersKept(u)
             /\ SameAddresses(u) /\ SameRights(u)
  <2> DEFINE new == account[u].password + 1
  <2>1. account' = [account EXCEPT ![u].password = new] /\ new \in 0..MaxPasswords
    BY <1>1, BoundsAssumption DEF SetPassword
  <2> HIDE DEF new
  <2> QED BY <2>1
<1>2. ASSUME SetVerified(r) \/ WriteRequest(r)
      PROVE  /\ account' \in [Users -> AccountRows] /\ OthersKept(u)
             /\ SameAddresses(u) /\ SameRights(u) /\ SamePassword(u)
  <2> DEFINE yes == TRUE
  <2>1. \/ account' = [account EXCEPT ![u].verified = yes]
        \/ account' = [account EXCEPT ![u].requested = yes]
    BY <1>2, Zenon DEF SetVerified, WriteRequest
  <2>2. yes \in BOOLEAN
    OBVIOUS
  <2> HIDE DEF yes
  <2>3. CASE account' = [account EXCEPT ![u].verified = yes]
    BY <2>2, <2>3
  <2>4. CASE account' = [account EXCEPT ![u].requested = yes]
    BY <2>2, <2>4
  <2> QED BY <2>1, <2>3, <2>4
<1>3. ASSUME Upgrade(r)
      PROVE  /\ account' \in [Users -> AccountRows] /\ OthersKept(u)
             /\ SameAddresses(u)
  <2> DEFINE new == account[u].password + 1
  <2>1. account' = [account EXCEPT ![u].role = "ADMIN", ![u].password = new]
        /\ new \in 0..MaxPasswords
    BY <1>3, BoundsAssumption DEF Upgrade
  <2> HIDE DEF new
  <2> QED BY <2>1
<1>4. ASSUME WriteClosed(r)
      PROVE  /\ account' \in [Users -> AccountRows] /\ OthersKept(u) /\ SameRights(u)
             /\ account'[u].email = "anonymized" /\ account'[u].pending = None
  <2> DEFINE new == Closed(account[u])
  <2>1. account' = [account EXCEPT ![u] = new]
    BY <1>4 DEF WriteClosed
  <2>2. /\ new \in AccountRows /\ new.email = "anonymized" /\ new.pending = None
        /\ new.role = account[u].role /\ new.status = account[u].status
    <3> DEFINE zero == 0  no == FALSE  row == account[u]
    <3>0. row \in AccountRows
      OBVIOUS
    <3>1. new = [row EXCEPT !.email = "anonymized", !.pending = None,
                                   !.verified = no, !.password = zero]
      BY Zenon DEF Closed
    <3>2. zero \in 0..MaxPasswords /\ no \in BOOLEAN
      BY BoundsAssumption
    <3> HIDE DEF zero, no, new, row
    <3>3. /\ new \in AccountRows /\ new.email = "anonymized" /\ new.pending = None
          /\ new.role = row.role /\ new.status = row.status
      BY <3>0, <3>1, <3>2
    <3> QED BY <3>3 DEF row
  <2> HIDE DEF new
  <2> QED BY <2>1, <2>2
<1> QED BY <1>1, <1>2, <1>3, <1>4

\* What a registration writes.
LEMMA CreatedAccount ==
    ASSUME RowsFit, RequestsFit, NEW r \in Requests, CreateUser(r)
    PROVE  LET u == request[r].user IN
           /\ u \in Users
           /\ account' \in [Users -> AccountRows] /\ OthersKept(u)
           /\ account'[u].email = request[r].address /\ account'[u].pending = None
           /\ account'[u].role = request[r].aim /\ account'[u].status = "ACTIVE"
           /\ trail' = trail /\ request[r].aim \in {"MEMBER", "ADMIN"}
           /\ undone' = IF request[r].aim = "ADMIN" THEN undone \cup {<<u, "audit">>} ELSE undone
<1> DEFINE u == request[r].user
           new == Registered(request[r].address, request[r].aim)
<1>1. u \in Users /\ request[r].address \in Addresses /\ request[r].aim \in {"MEMBER", "ADMIN"}
  BY DEF RequestsFit, Fits, Claims, CreateUser
<1>2. account' = [account EXCEPT ![u] = new]
  BY DEF CreateUser
<1>3. IsRegistered(new, request[r].address, request[r].aim)
  <2>1. request[r].aim \in {"MEMBER", "ADMIN", "SUPERADMIN"}
    BY <1>1
  <2> QED BY <1>1, <2>1, RegisteredRow, Zenon
<1> HIDE DEF new
<1>4. /\ trail' = trail
      /\ undone' = IF request[r].aim = "ADMIN" THEN undone \cup {<<u, "audit">>} ELSE undone
  BY DEF CreateUser
<1> QED BY <1>1, <1>2, <1>3, <1>4 DEF RowsFit, OthersKept, IsRegistered

\* What a change of the profile writes.
LEMMA ProfileAccount ==
    ASSUME RowsFit, RequestsFit, NEW r \in Requests, WriteProfile(r)
    PROVE  LET u == request[r].user IN
           /\ u \in Users
           /\ account' \in [Users -> AccountRows] /\ OthersKept(u) /\ SameRights(u)
           /\ account'[u].email = account[u].email
           /\ account'[u].pending = IF "pending" \in request[r].writes
                                    THEN request[r].address ELSE account[u].pending
           /\ "password" \notin request[r].writes => SamePassword(u)
<1> DEFINE u == request[r].user
           password == IF "password" \in request[r].writes THEN account[u].password + 1
                                                           ELSE account[u].password
           pending == IF "pending" \in request[r].writes THEN request[r].address
                                                         ELSE account[u].pending
<1>1. u \in Users /\ request[r] \in RequestRows
  BY DEF RequestsFit, Fits, WriteProfile
<1>2. account' = [account EXCEPT ![u].password = password, ![u].pending = pending]
  BY DEF WriteProfile
<1>3. pending \in Addresses \cup {None}
  BY <1>1 DEF RowsFit, AccountRows, RequestRows
<1>4. password \in 0..MaxPasswords
  BY <1>1, BoundsAssumption DEF WriteProfile, RowsFit, AccountRows
<1>5. "password" \notin request[r].writes => password = account[u].password
  OBVIOUS
<1> HIDE DEF pending, password
<1>6. /\ account' \in [Users -> AccountRows] /\ OthersKept(u) /\ SameRights(u)
      /\ account'[u].email = account[u].email /\ account'[u].pending = pending
      /\ account'[u].password = password
  BY <1>1, <1>2, <1>3, <1>4 DEF RowsFit, AccountRows, OthersKept, SameRights
<1> QED BY <1>1, <1>5, <1>6 DEF SamePassword, pending

\* What the confirmation of an address writes.
LEMMA ConfirmedAccount ==
    ASSUME RowsFit, RequestsFit, NEW r \in Requests, SetEmail(r)
    PROVE  LET u == request[r].user IN
           /\ u \in Users /\ request[r].address \in Addresses
           /\ account' \in [Users -> AccountRows] /\ OthersKept(u) /\ SameRights(u)
           /\ account'[u].email = request[r].address /\ account'[u].pending = None
<1>1. request[r].user \in Users /\ request[r].address \in Addresses
  <2>1. request[r].op = "setEmail"
    BY DEF SetEmail
  <2>2. Fits(request[r])
    BY DEF RequestsFit
  <2> QED BY <2>1, <2>2 DEF Fits, Claims, Confirms
<1>2. account' = [account EXCEPT ![request[r].user].email = request[r].address,
                                 ![request[r].user].pending = None]
  BY DEF SetEmail
<1> QED BY <1>1, <1>2 DEF RowsFit, AccountRows, OthersKept, SameRights

\* What a decision of the superadmin writes.
LEMMA DecidedAccount ==
    ASSUME RowsFit, RequestsFit, NEW r \in Requests, WriteDecision(r)
    PROVE  LET u == request[r].user IN
           /\ u \in Users /\ request[r].aim \in Decisions
           /\ account' \in [Users -> AccountRows] /\ OthersKept(u)
           /\ SameAddresses(u) /\ SamePassword(u)
           /\ account'[u] = After(account[u], request[r].aim)
<1> DEFINE u == request[r].user
           new == After(account[u], request[r].aim)
<1>1. u \in Users /\ request[r].aim \in Decisions
  BY DEF RequestsFit, Fits, WriteDecision
<1>2. account' = [account EXCEPT ![u] = new]
  BY DEF WriteDecision
<1>3. /\ new \in AccountRows /\ new.email = account[u].email
      /\ new.pending = account[u].pending /\ new.password = account[u].password
  <2> DEFINE row == account[u]  no == FALSE  d == request[r].aim
  <2>1. row \in AccountRows /\ no \in BOOLEAN
    BY <1>1 DEF RowsFit
  <2>2. /\ d = "approve" => new = [row EXCEPT !.role = "ADMIN", !.requested = no]
        /\ d = "reject" => new = [row EXCEPT !.requested = no]
        /\ d = "promote" => new = [row EXCEPT !.role = "SUPERADMIN"]
        /\ d \in {"ACTIVE", "SUSPENDED"} => new = [row EXCEPT !.status = d]
    BY DEF After
  <2> HIDE DEF row, no, new
  <2>3. /\ new \in AccountRows /\ new.email = row.email
        /\ new.pending = row.pending /\ new.password = row.password
    BY <1>1, <2>1, <2>2 DEF AccountRows, Decisions
  <2> QED BY <2>3 DEF row
<1> HIDE DEF new
<1>4. /\ account' \in [Users -> AccountRows] /\ OthersKept(u) /\ account'[u] = new
  BY <1>1, <1>2, <1>3 DEF RowsFit, OthersKept
<1> QED BY <1>1, <1>3, <1>4 DEF SameAddresses, SamePassword, new

-----------------------------------------------------------------------------
(* All the steps.                                                          *)

StepOf(r) ==
    \/ Starts(r)
    \/ IssueRevokes(r) \/ IssueCreates(r) \/ \E i \in DOMAIN token : Logout(r, i)
    \/ SetPassword(r) \/ EndSessions(r) \/ SendsOrUsesCode(r) \/ SetVerified(r)
    \/ CreateUser(r) \/ Upgrade(r) \/ WriteProfile(r) \/ SetEmail(r) \/ WriteClosed(r)
    \/ \E i \in DOMAIN code : ReadCode(r, i)
    \/ WriteRequest(r) \/ WriteDecision(r) \/ WriteAudit(r)
    \/ Refused(r) \/ Dies(r)

\* A statement on sessions is a step of its request.
LEMMA TokenStep ==
    ASSUME Typed, NEW r \in Requests, Token(r)
    PROVE  StepOf(r)
BY LoginStarts, RefreshStarts DEF Token, StepOf

\* So is one on credentials.
LEMMA CredentialsStep ==
    ASSUME Typed, NEW r \in Requests, Credentials(r)
    PROVE  StepOf(r)
<1>1. ASSUME NEW u \in Users, ChangePassword(r, u)
      PROVE  Starts(r)
  <2>1. account[u].email # None
    BY <1>1, AddressAssumption DEF ChangePassword, SignedIn, HasAccount
  <2> QED BY <1>1, <2>1, PlainStarts DEF ChangePassword
<1> QED BY <1>1, AskStarts, PresentStarts DEF Credentials, StepOf

\* So is one on the profile.
LEMMA ProfileStep ==
    ASSUME Typed, NEW r \in Requests, Profile(r)
    PROVE  StepOf(r)
<1>1. ASSUME NEW u \in Users, CloseAccount(r, u)
      PROVE  Starts(r)
  <2>1. account[u].email # None
    BY <1>1, AddressAssumption DEF CloseAccount, SignedIn, HasAccount
  <2> QED BY <1>1, <2>1, PlainStarts DEF CloseAccount
<1> QED BY <1>1, RegisterAdminStarts, UpdateProfileStarts, ConfirmStarts, RegisterStarts
        DEF Profile, StepOf

\* So is one of the superadmin.
LEMMA SuperadminStep ==
    ASSUME Typed, NEW r \in Requests, Superadmin(r)
    PROVE  StepOf(r)
<1>1. ASSUME NEW u \in Users, RequestAdminAccess(r, u)
      PROVE  Starts(r)
  <2>1. account[u].email # None
    BY <1>1, AddressAssumption DEF RequestAdminAccess, SignedIn, HasAccount
  <2> QED BY <1>1, <2>1, PlainStarts DEF RequestAdminAccess
<1> QED BY <1>1, DecideStarts DEF Superadmin, StepOf

\* Every step is one of a request, or something expires.
LEMMA NextSteps ==
    ASSUME Typed, Next
    PROVE  \/ \E r \in Requests : StepOf(r)
           \/ \E i \in DOMAIN token : ExpireToken(i)
           \/ \E i \in DOMAIN code : CodeExpires(i)
<1>1. ASSUME NEW r \in Requests, Refused(r) \/ Dies(r)
      PROVE  StepOf(r)
  BY <1>1 DEF StepOf
<1> QED BY <1>1, TokenStep, CredentialsStep, ProfileStep, SuperadminStep DEF Next

\* How the handler of request r goes on.
Progress(r) ==
    \/ Starts(r)
    \/ Ends(r)
    \/ \E i \in DOMAIN code : request[r].op = "readCode" /\ ReadCode(r, i) /\ Reads(r, i)
    \/ request[r].op = "issue" /\ Goes(r, "create")
    \/ request[r].op = "setPassword" /\ Goes(r, "endSessions")
    \/ request[r].op = "invalidate" /\ Goes(r, "send")
    \/ request[r].op = "markUsed" /\ Goes(r, Then[request[r].aim])
    \/ request[r].op = "decide" /\ Goes(r, "audit")
    \/ /\ request[r].op \in {"createUser", "upgrade"}
       /\ Sends(r, "VERIFICATION", request[r].address)
    \/ /\ request[r].op = "updateProfile"
       /\ Sends(r, "EMAIL_CHANGE", request[r].address)
       /\ request'[r].overtaken = request[r].overtaken

\* A handler that starts moves its request from idle.
LEMMA StartsMoves ==
    ASSUME RequestsFit, NEW r \in Requests, Starts(r)
    PROVE  \E next : /\ Founded(next) /\ request[r] = Idle /\ request'[r] = next
                     /\ \A q \in Requests \ {r} : request'[q] = request[q]
                     /\ RequestsFit'
<1>1. PICK next : Start(r, next) /\ Founded(next)
  BY DEF Starts
<1>2. /\ request[r] = Idle /\ request'[r] = next
      /\ \A q \in Requests \ {r} : request'[q] = request[q]
  BY <1>1 DEF Start, RequestsFit
<1>3. RequestsFit'
  BY <1>1 DEF Start, RequestsFit, Founded
<1> QED BY <1>1, <1>2, <1>3

\* A request that is refused or dies is over.
LEMMA QuitsEnds ==
    ASSUME RequestsFit, NEW r \in Requests, Quits(r)
    PROVE  Ends(r)
BY DEF Quits, Ends, Moves, Kept

\* Every step of a request takes it to a step that may follow.
LEMMA StepProgress ==
    ASSUME Typed, NEW r \in Requests, StepOf(r)
    PROVE  RequestsFit' /\ Progress(r)
<1>0. RequestsFit /\ DOMAIN code \subseteq Nat
  BY DEF Typed, CodesFit
<1>1. CASE Starts(r)
  <2>1. RequestsFit'
    BY <1>0, <1>1, StartsMoves
  <2> QED BY <1>1, <2>1 DEF Progress
<1>2. CASE IssueRevokes(r) \/ IssueCreates(r) \/ \E i \in DOMAIN token : Logout(r, i)
  <2>1. IssueRevokes(r) => request[r].op = "issue"
    BY DEF IssueRevokes
  <2> QED BY <1>0, <1>2, <2>1, IssueSteps DEF Progress
<1>3. CASE SetPassword(r) \/ EndSessions(r) \/ SetVerified(r)
  <2>1. SetPassword(r) => request[r].op = "setPassword"
    BY DEF SetPassword
  <2> QED BY <1>0, <1>3, <2>1, CredentialSteps DEF Progress
<1>4. CASE SendsOrUsesCode(r)
  <2>1. /\ Invalidate(r) => request[r].op = "invalidate"
        /\ MarkUsed(r) => request[r].op = "markUsed"
    BY DEF Invalidate, MarkUsed
  <2>2. Invalidate(r) \/ CreateCode(r) \/ MarkUsed(r)
    BY <1>4 DEF SendsOrUsesCode
  <2> QED BY <1>0, <2>1, <2>2, CodeSteps DEF Progress
<1>5. CASE CreateUser(r) \/ Upgrade(r)
  <2>1. /\ CreateUser(r) => request[r].op = "createUser"
        /\ Upgrade(r) => request[r].op = "upgrade"
    BY DEF CreateUser, Upgrade
  <2> QED BY <1>0, <1>5, <2>1, RegistrationSteps DEF Progress
<1>6. CASE WriteProfile(r) \/ SetEmail(r) \/ WriteClosed(r)
  <2>1. WriteProfile(r) => request[r].op = "updateProfile"
    BY DEF WriteProfile
  <2> QED BY <1>0, <1>6, <2>1, ProfileSteps DEF Progress
<1>7. CASE \E i \in DOMAIN code : ReadCode(r, i)
  <2>1. PICK i \in DOMAIN code : ReadCode(r, i)
    BY <1>7
  <2>2. request[r].op = "readCode"
    BY <2>1 DEF ReadCode
  <2>3. RequestsFit' /\ Reads(r, i)
    BY <1>0, <2>1, ReadSteps
  <2> QED BY <2>1, <2>2, <2>3 DEF Progress
<1>8. CASE WriteRequest(r) \/ WriteDecision(r) \/ WriteAudit(r) \/ Refused(r) \/ Dies(r)
  <2>1. WriteDecision(r) => request[r].op = "decide"
    BY DEF WriteDecision
  <2> QED BY <1>0, <1>8, <2>1, DecisionSteps, QuitsEnds DEF Progress
<1> QED BY <1>1, <1>2, <1>3, <1>4, <1>5, <1>6, <1>7, <1>8 DEF StepOf


\* Codes stay codes, and none disappears.
LEMMA StepCodes ==
    ASSUME Typed, NEW r \in Requests, StepOf(r)
    PROVE  CodesFit' /\ DOMAIN code \subseteq DOMAIN code'
<1> USE DEF Typed
<1>1. CASE SendsOrUsesCode(r)
  <2>1. CASE Invalidate(r)
    <3>1. code' = Spent(request[r].user, {request[r].aim})
      BY <2>1 DEF Invalidate
    <3> QED BY <3>1, SpentCodes
  <2>2. CASE CreateCode(r)
    BY <2>2, AddedCode DEF Adds
  <2>3. CASE MarkUsed(r)
    <3>1. request[r].code \in DOMAIN code
      BY <2>3 DEF MarkUsed, CodesKnown
    <3> QED BY <2>3, <3>1, MarkedCode
  <2> QED BY <1>1, <2>1, <2>2, <2>3 DEF SendsOrUsesCode
<1>2. CASE WriteClosed(r)
  <2>1. code' = Spent(request[r].user, Purposes)
    BY <1>2 DEF WriteClosed
  <2> QED BY <2>1, SpentCodes
<1>3. CASE UNCHANGED code
  BY <1>3 DEF CodesFit
<1>4. CASE Starts(r)
  BY <1>3, <1>4 DEF Starts
<1>5. CASE IssueRevokes(r) \/ IssueCreates(r) \/ \E i \in DOMAIN token : Logout(r, i)
  BY <1>3, <1>5 DEF IssueRevokes, IssueCreates, Logout
<1>6. CASE SetPassword(r) \/ EndSessions(r) \/ SetVerified(r)
  BY <1>3, <1>6 DEF SetPassword, EndSessions, SetVerified
<1>7. CASE CreateUser(r) \/ Upgrade(r) \/ WriteProfile(r) \/ SetEmail(r)
  BY <1>3, <1>7 DEF CreateUser, Upgrade, WriteProfile, SetEmail
<1>8. CASE \E i \in DOMAIN code : ReadCode(r, i)
  BY <1>3, <1>8 DEF ReadCode
<1>9. CASE WriteRequest(r) \/ WriteDecision(r) \/ WriteAudit(r) \/ Refused(r) \/ Dies(r)
  BY <1>3, <1>9 DEF WriteRequest, WriteDecision, WriteAudit, Refused, Dies
<1> QED BY <1>1, <1>2, <1>4, <1>5, <1>6, <1>7, <1>8, <1>9 DEF StepOf

\* Sessions stay sessions, and a live one was live or is new.
LEMMA StepTokens ==
    ASSUME Typed, NEW r \in Requests, StepOf(r)
    PROVE  /\ TokensFit'
           /\ \A i \in DOMAIN token' : token'[i].live =>
                \/ i \in DOMAIN token /\ token'[i] = token[i]
                \/ token'[i].user = request[r].user /\ request[r].op = "create"
<1> USE DEF Typed
<1>1. ASSUME NEW u, token' = Revoked(u)
      PROVE  TokensFit' /\ \A i \in DOMAIN token' : token'[i].live =>
               i \in DOMAIN token /\ token'[i] = token[i]
  BY <1>1, RevokedTokens DEF Kills
<1>2. ASSUME UNCHANGED token
      PROVE  TokensFit' /\ \A i \in DOMAIN token' : token'[i].live =>
               i \in DOMAIN token /\ token'[i] = token[i]
  BY <1>2 DEF TokensFit
<1>3. CASE IssueRevokes(r) \/ EndSessions(r) \/ SetEmail(r) \/ WriteClosed(r)
  <2>1. token' = Revoked(request[r].user)
    BY <1>3 DEF IssueRevokes, EndSessions, SetEmail, WriteClosed, Revoke
  <2> QED BY <1>1, <2>1
<1>4. CASE WriteProfile(r)
  <2>1. token' = Revoked(request[r].user) \/ UNCHANGED token
    BY <1>4 DEF WriteProfile, Revoke, sessions
  <2> QED BY <1>1, <1>2, <2>1
<1>5. CASE IssueCreates(r)
  <2>1. TokensFit' /\ Issued(r)
    BY <1>5, IssuedToken
  <2>2. request[r].op = "create"
    BY <1>5 DEF IssueCreates
  <2> QED BY <2>1, <2>2 DEF Issued
<1>6. CASE \E i \in DOMAIN token : Logout(r, i)
  <2>1. PICK i \in DOMAIN token : token' = [token EXCEPT ![i] = Dead]
    BY <1>6 DEF Logout
  <2> QED BY <2>1, DeadToken
<1>7. CASE Starts(r)
  BY <1>2, <1>7 DEF Starts, sessions
<1>8. CASE SetPassword(r) \/ SendsOrUsesCode(r) \/ SetVerified(r)
  BY <1>2, <1>8 DEF SetPassword, SendsOrUsesCode, SetVerified, sessions
<1>9. CASE CreateUser(r) \/ Upgrade(r)
  BY <1>2, <1>9 DEF CreateUser, Upgrade, sessions
<1>10. CASE \E i \in DOMAIN code : ReadCode(r, i)
  BY <1>2, <1>10 DEF ReadCode, sessions
<1>11. CASE WriteRequest(r) \/ WriteDecision(r) \/ WriteAudit(r) \/ Refused(r) \/ Dies(r)
  BY <1>2, <1>11 DEF WriteRequest, WriteDecision, WriteAudit, Refused, Dies, sessions
<1> QED BY <1>3, <1>4, <1>5, <1>6, <1>7, <1>8, <1>9, <1>10, <1>11 DEF StepOf

\* A step changes the row of its user at most, and nobody but the handler of
\* the registration gives or takes an account.
LEMMA StepRows ==
    ASSUME Typed, NEW r \in Requests, StepOf(r)
    PROVE  /\ RowsFit'
           /\ \A v \in Users : v # request[r].user => account'[v] = account[v]
           /\ \A v \in Users : account[v].email # None => account'[v].email # None
<1> USE DEF Typed
<1>0. ASSUME UNCHANGED users, undone' \subseteq undone \cup (Users \X {"endSessions", "audit", "invalidate"})
      PROVE  RowsFit' /\ UNCHANGED account
  BY <1>0 DEF RowsFit, users
<1>1. request[r].op # "idle" => request[r].user \in Users
  BY DEF RequestsFit, Fits
<1> DEFINE u == request[r].user
<1>2. CASE Starts(r)
  BY <1>0, <1>2 DEF Starts
<1>3. CASE IssueRevokes(r) \/ IssueCreates(r) \/ \E i \in DOMAIN token : Logout(r, i)
  BY <1>0, <1>3 DEF IssueRevokes, IssueCreates, Logout
<1>4. CASE EndSessions(r) \/ SendsOrUsesCode(r)
  BY <1>0, <1>4 DEF EndSessions, SendsOrUsesCode
<1>5. CASE SetPassword(r) \/ SetVerified(r) \/ WriteRequest(r)
  <2>1. u \in Users /\ UNCHANGED <<trail, unproven, unsure, undone>>
    BY <1>1, <1>5 DEF SetPassword, SetVerified, WriteRequest
  <2>2. account' \in [Users -> AccountRows] /\ OthersKept(u) /\ SameAddresses(u)
    BY <1>5, <2>1, AccountSteps
  <2> QED BY <2>1, <2>2 DEF RowsFit, OthersKept, SameAddresses
<1>6. CASE CreateUser(r)
  <2>1. unproven' = unproven /\ unsure' \subseteq unsure \cup {u}
    BY <1>6 DEF CreateUser, WritesAddress
  <2>2. /\ u \in Users /\ account' \in [Users -> AccountRows] /\ OthersKept(u)
        /\ account'[u].email = request[r].address /\ trail' = trail
        /\ undone' \subseteq undone \cup {<<u, "audit">>}
    BY <1>6, CreatedAccount
  <2>3. request[r].address \in Addresses /\ request[r].op = "createUser"
    BY <1>6 DEF CreateUser, RequestsFit, Fits, Claims
  <2> QED BY <2>1, <2>2, <2>3, AddressAssumption DEF RowsFit, OthersKept
<1>7. CASE Upgrade(r)
  <2>1. /\ u \in Users /\ UNCHANGED <<trail, unproven, unsure>>
        /\ undone' = undone \cup {<<u, "endSessions">>, <<u, "audit">>}
    BY <1>1, <1>7 DEF Upgrade
  <2>2. account' \in [Users -> AccountRows] /\ OthersKept(u) /\ SameAddresses(u)
    BY <1>7, <2>1, AccountSteps
  <2>3. undone' \subseteq Users \X {"endSessions", "audit", "invalidate"}
    BY <2>1 DEF RowsFit
  <2> QED BY <2>1, <2>2, <2>3 DEF RowsFit, OthersKept, SameAddresses
<1>8. CASE WriteProfile(r)
  <2>1. /\ UNCHANGED <<trail, unproven>> /\ undone' \subseteq undone
        /\ unsure' \subseteq unsure \cup {u}
    BY <1>8 DEF WriteProfile, WritesAddress
  <2>2. /\ u \in Users /\ account' \in [Users -> AccountRows] /\ OthersKept(u)
        /\ account'[u].email = account[u].email
    BY <1>8, ProfileAccount
  <2> QED BY <2>1, <2>2 DEF RowsFit, OthersKept
<1>9. CASE SetEmail(r)
  <2>1. /\ UNCHANGED trail /\ undone' \subseteq undone
        /\ unsure' \subseteq unsure \cup {u} /\ unproven' \subseteq unproven \cup {u}
    BY <1>9 DEF SetEmail, WritesAddress
  <2>2. /\ u \in Users /\ request[r].address \in Addresses
        /\ account' \in [Users -> AccountRows] /\ OthersKept(u)
        /\ account'[u].email = request[r].address
    BY <1>9, ConfirmedAccount
  <2> QED BY <2>1, <2>2, AddressAssumption DEF RowsFit, OthersKept
<1>10. CASE WriteClosed(r)
  <2>1. u \in Users /\ UNCHANGED <<trail, unproven, unsure>> /\ undone' \subseteq undone
    BY <1>1, <1>10 DEF WriteClosed
  <2>2. /\ account' \in [Users -> AccountRows] /\ OthersKept(u)
        /\ account'[u].email = "anonymized"
    BY <1>10, <2>1, AccountSteps
  <2> QED BY <2>1, <2>2, AddressAssumption DEF RowsFit, OthersKept
<1>11. CASE WriteDecision(r)
  <2>1. UNCHANGED <<trail, unproven, unsure, undone>>
    BY <1>11 DEF WriteDecision
  <2>2. /\ u \in Users /\ account' \in [Users -> AccountRows] /\ OthersKept(u)
        /\ SameAddresses(u)
    BY <1>11, DecidedAccount
  <2> QED BY <2>1, <2>2 DEF RowsFit, OthersKept, SameAddresses
<1>12. CASE WriteAudit(r)
  <2>1. u \in Users /\ request[r].aim \in Decisions
    BY <1>1, <1>12 DEF WriteAudit, RequestsFit, Fits
  <2> DEFINE told == Told(trail[u], request[r].aim)
  <2>2. told \in TrailRows
    BY <2>1 DEF RowsFit, TrailRows, Told, Decisions
  <2>3. /\ trail' = [trail EXCEPT ![u] = told] /\ UNCHANGED <<account, unproven, unsure>>
        /\ undone' \subseteq undone \cup {<<u, "audit">>}
    BY <1>12 DEF WriteAudit
  <2> HIDE DEF told
  <2> QED BY <2>1, <2>2, <2>3 DEF RowsFit
<1>13. CASE \E i \in DOMAIN code : ReadCode(r, i)
  BY <1>0, <1>13 DEF ReadCode
<1>14. CASE Refused(r)
  BY <1>0, <1>14 DEF Refused
<1>15. CASE Dies(r)
  <2>1. u \in Users /\ UNCHANGED users
    BY <1>1, <1>15 DEF Dies
  <2>2. undone' \subseteq undone \cup (Users \X {"endSessions", "audit", "invalidate"})
    BY <1>15, <2>1 DEF Dies, LeavesUndone
  <2> QED BY <1>0, <2>1, <2>2
<1> QED BY <1>2, <1>3, <1>4, <1>5, <1>6, <1>7, <1>8, <1>9, <1>10, <1>11, <1>12, <1>13, <1>14,
           <1>15 DEF StepOf

\* What a request about to create an account may do.
LEMMA RegistrationStep ==
    ASSUME Typed, NEW r \in Requests, StepOf(r), request[r].op = "createUser"
    PROVE  CreateUser(r) \/ Refused(r) \/ Dies(r)
BY DEF StepOf, Starts, Start, Idle, IssueRevokes, IssueCreates, Logout, SetPassword, EndSessions,
       SendsOrUsesCode, Invalidate, CreateCode, MarkUsed, SetVerified, Upgrade, WriteProfile,
       SetEmail, WriteClosed, ReadCode, WriteRequest, WriteDecision, WriteAudit

\* Accounts stay accounts.
LEMMA StepAccounts ==
    ASSUME Typed, NEW r \in Requests, StepOf(r), TokensFit', RequestsFit'
    PROVE  AccountsInv'
<1> USE DEF Typed
<1>1. Progress(r)
  BY StepProgress
<1>2. /\ \A v \in Users : v # request[r].user => account'[v] = account[v]
      /\ \A v \in Users : account[v].email # None => account'[v].email # None
  BY StepRows
<1>3. request[r].op # "idle" => request[r].user \in Users
  BY DEF RequestsFit, Fits
<1>4. \A u \in Users : account'[u].email = None => account'[u] = Unregistered
  <2>1. ASSUME NEW u \in Users, account'[u].email = None
        PROVE  account'[u] = account[u]
    <3>1. account[u].email = None
      BY <1>2, <2>1
    <3>2. CASE u # request[r].user
      BY <1>2, <3>2
    <3>3. CASE u = request[r].user
      <4>1. request[r].op \in {"idle", "createUser"}
        BY <3>1, <3>3 DEF AccountsInv
      <4>2. request[r].op # "idle"
        BY <3>3, NoneAssumption DEF RequestsFit, Fits, Idle
      <4>3. request[r].op = "createUser"
        BY <4>1, <4>2
      <4>4. UNCHANGED account \/ CreateUser(r)
        BY <4>3, RegistrationStep DEF Refused, Dies, users
      <4>5. CASE CreateUser(r)
        <5>1. account'[u].email = request[r].address
          BY <3>3, <4>5, CreatedAccount
        <5>2. request[r].address \in Addresses
          BY <4>3 DEF RequestsFit, Fits, Claims
        <5> QED BY <2>1, <5>1, <5>2, AddressAssumption
      <4> QED BY <4>4, <4>5
    <3> QED BY <3>2, <3>3
  <2> QED BY <1>2, <2>1 DEF AccountsInv
<1>5. \A i \in DOMAIN token' : token'[i].live => account'[token'[i].user].email # None
  <2>1. ASSUME NEW i \in DOMAIN token', token'[i].live
        PROVE  account'[token'[i].user].email # None
    <3>1. CASE i \in DOMAIN token /\ token'[i] = token[i]
      BY <1>2, <2>1, <3>1 DEF AccountsInv, TokensFit
    <3>2. CASE token'[i].user = request[r].user /\ request[r].op = "create"
      BY <1>2, <1>3, <3>2 DEF AccountsInv
    <3> QED BY <2>1, <3>1, <3>2, StepTokens
  <2> QED BY <2>1
<1>6. ASSUME NEW q \in Requests \ {r}
      PROVE  /\ request'[q].op \notin {"idle", "createUser"} =>
                  account'[request'[q].user].email # None
             /\ request'[q].op = "createUser" =>
                  /\ account'[request'[q].user].email = None
                  /\ \A p \in Requests \ {q, r} : request'[p].user # request'[q].user
                  /\ request[r].user # request'[q].user
  <2>1. \A p \in Requests \ {r} : Kept(p)
    BY <1>1, StartsMoves DEF Progress, Ends, Moves, Goes, Sends, Reads, Kept
  <2>2. request[q].op # "idle" => request[q].user \in Users
    BY DEF RequestsFit, Fits
  <2>3. /\ request'[q].op = request[q].op /\ request'[q].user = request[q].user
        /\ \A p \in Requests \ {q, r} : request'[p].user = request[p].user
    BY <2>1 DEF Kept
  <2>4. CASE request[q].op = "createUser"
    <3>1. /\ account[request[q].user].email = None
          /\ \A p \in Requests \ {q} : request[p].user # request[q].user
      BY <2>4 DEF AccountsInv
    <3>2. account'[request[q].user] = account[request[q].user]
      BY <1>2, <2>2, <2>4, <3>1
    <3> QED BY <2>3, <2>4, <3>1, <3>2
  <2>5. CASE request[q].op # "createUser"
    BY <1>2, <2>2, <2>3, <2>5 DEF AccountsInv
  <2> QED BY <2>4, <2>5
<1>7. CASE Starts(r)
  <2>1. PICK next : /\ Founded(next) /\ request[r] = Idle /\ request'[r] = next
                    /\ \A q \in Requests \ {r} : request'[q] = request[q]
    BY <1>7, StartsMoves
  <2>2. UNCHANGED account
    BY <1>7 DEF Starts, users
  <2>3. ASSUME NEW q \in Requests \ {r}, request'[q].op = "createUser"
        PROVE  request'[r].user # request'[q].user
    <3>1. account[request[q].user].email = None
      BY <2>1, <2>3 DEF AccountsInv
    <3> QED BY <2>1, <3>1 DEF Founded
  <2>4. /\ request'[r].op # "createUser" => account'[request'[r].user].email # None
        /\ request'[r].op = "createUser" =>
             /\ account'[request'[r].user].email = None
             /\ \A q \in Requests \ {r} : request'[q].user # request'[r].user
    BY <2>1, <2>2, UnregisteredRow DEF Founded
  <2> QED BY <1>4, <1>5, <1>6, <2>3, <2>4 DEF AccountsInv
<1>8. CASE Ends(r)
  <2>1. request'[r].op = "idle" /\ request'[r].user = None
    BY <1>8, IdleRow DEF Ends, Moves
  <2>2. ASSUME NEW q \in Requests \ {r}, request'[q].op = "createUser"
        PROVE  request'[q].user # None
    BY <2>2, NoneAssumption DEF RequestsFit, Fits
  <2> QED BY <1>4, <1>5, <1>6, <2>1, <2>2 DEF AccountsInv
<1>9. CASE ~Starts(r) /\ ~Ends(r)
  <2>1. /\ request'[r].user = request[r].user /\ request'[r].op \notin {"idle", "createUser"}
        /\ request[r].op # "idle"
    <3>1. request[r].op = "markUsed" => Then[request[r].aim] \notin {"idle", "createUser"}
      BY DEF RequestsFit, Fits, Then, Purposes
    <3> QED BY <1>1, <1>9, <3>1 DEF Progress, Goes, Sends, Reads
  <2>2. account'[request[r].user].email # None
    <3>1. CASE request[r].op = "createUser"
      <4>1. CreateUser(r)
        <5>1. ~Refused(r) /\ ~Dies(r)
          BY <2>1, DecisionSteps, IdleRow DEF Quits
        <5> QED BY <3>1, <5>1, RegistrationStep
      <4>2. account'[request[r].user].email = request[r].address
        BY <4>1, CreatedAccount
      <4>3. request[r].address \in Addresses
        BY <3>1 DEF RequestsFit, Fits, Claims
      <4> QED BY <4>2, <4>3, AddressAssumption
    <3>2. CASE request[r].op # "createUser"
      BY <1>2, <1>3, <2>1, <3>2 DEF AccountsInv
    <3> QED BY <3>1, <3>2
  <2> QED BY <1>4, <1>5, <1>6, <2>1, <2>2 DEF AccountsInv
<1> QED BY <1>7, <1>8, <1>9

\* A code a request has read stays in the table.
LEMMA StepCodesKnown ==
    ASSUME Typed, NEW r \in Requests, StepOf(r), RequestsFit', CodesFit',
           DOMAIN code \subseteq DOMAIN code'
    PROVE  CodesKnown'
<1> USE DEF Typed
<1>1. Progress(r)
  BY StepProgress
<1>2. ASSUME NEW q \in Requests \ {r}, request'[q].op = "markUsed"
      PROVE  request'[q].code \in DOMAIN code'
  <2>1. Kept(q)
    BY <1>1, StartsMoves DEF Progress, Ends, Moves, Goes, Sends, Reads, Kept
  <2> QED BY <1>2, <2>1 DEF Kept, CodesKnown
<1>3. ASSUME request'[r].op = "markUsed"
      PROVE  request'[r].code \in DOMAIN code
  <2>1. CASE Starts(r)
    <3>1. Founded(request'[r])
      BY <2>1, StartsMoves
    <3> QED BY <1>3, <3>1 DEF Founded, Usable
  <2>2. CASE \E i \in DOMAIN code : Reads(r, i)
    BY <2>2 DEF Reads
  <2>3. CASE ~Starts(r) /\ ~\E i \in DOMAIN code : Reads(r, i)
    <3>1. request[r].op = "markUsed" => Then[request[r].aim] # "markUsed"
      BY DEF RequestsFit, Fits, Then, Purposes
    <3> QED BY <1>1, <1>3, <2>3, <3>1, IdleRow DEF Progress, Ends, Moves, Goes, Sends
  <2> QED BY <2>1, <2>2, <2>3
<1> QED BY <1>2, <1>3 DEF CodesKnown

\* Every step of a request keeps the types.
LEMMA StepTyped ==
    ASSUME Typed, NEW r \in Requests, StepOf(r)
    PROVE  Typed'
<1>1. RequestsFit'
  BY StepProgress
<1>2. CodesFit' /\ DOMAIN code \subseteq DOMAIN code'
  BY StepCodes
<1>3. TokensFit'
  BY StepTokens
<1>4. RowsFit'
  BY StepRows
<1>5. AccountsInv'
  BY <1>1, <1>3, StepAccounts
<1>6. CodesKnown'
  BY <1>1, <1>2, StepCodesKnown
<1> QED BY <1>1, <1>2, <1>3, <1>4, <1>5, <1>6 DEF Typed

\* So does what expires.
LEMMA ExpiryTyped ==
    ASSUME Typed, \/ \E i \in DOMAIN token : ExpireToken(i)
                  \/ \E i \in DOMAIN code : CodeExpires(i)
    PROVE  Typed'
<1> USE DEF Typed
<1>1. ASSUME NEW i \in DOMAIN token, ExpireToken(i)
      PROVE  Typed'
  <2>1. /\ TokensFit' /\ DOMAIN token' = DOMAIN token /\ ~token'[i].live
        /\ \A j \in DOMAIN token \ {i} : token'[j] = token[j]
    BY <1>1, DeadToken DEF ExpireToken
  <2>2. UNCHANGED <<code, request, users, undone>>
    BY <1>1 DEF ExpireToken
  <2>3. AccountsInv'
    BY <2>1, <2>2 DEF AccountsInv, users
  <2>4. RequestsFit' /\ CodesFit' /\ RowsFit' /\ CodesKnown'
    BY <2>2 DEF RequestsFit, CodesFit, RowsFit, CodesKnown, users
  <2> QED BY <2>1, <2>3, <2>4
<1>2. ASSUME NEW i \in DOMAIN code, CodeExpires(i)
      PROVE  Typed'
  <2>1. CodesFit' /\ DOMAIN code' = DOMAIN code
    BY <1>2, ExpiredCode DEF CodeExpires
  <2>2. UNCHANGED <<request, users, token, undone>>
    BY <1>2 DEF CodeExpires, ExpireCode, sessions
  <2>3. RequestsFit' /\ TokensFit' /\ RowsFit' /\ AccountsInv'
    BY <2>2 DEF RequestsFit, TokensFit, RowsFit, AccountsInv, users
  <2>4. CodesKnown'
    BY <2>1, <2>2 DEF CodesKnown
  <2> QED BY <2>1, <2>3, <2>4
<1> QED BY <1>1, <1>2

\* So does every step.
LEMMA NextTyped ==
    ASSUME Typed, [Next]_vars
    PROVE  Typed'
<1>1. CASE Next
  BY <1>1, NextSteps, StepTyped, ExpiryTyped
<1>2. CASE UNCHANGED vars
  <2>1. UNCHANGED <<code, request, account, trail, unproven, unsure, token, undone>>
    BY <1>2 DEF vars, users, sessions
  <2> QED BY <2>1 DEF Typed, RequestsFit, CodesFit, TokensFit, RowsFit, AccountsInv, CodesKnown
<1> QED BY <1>1, <1>2

\* At first a user has no account or is a member who waits for no address.
LEMMA FirstAccounts ==
    ASSUME Init, NEW u \in Users
    PROVE  /\ account[u] = Unregistered \/ account[u].email # None
           /\ account[u] \in AccountRows /\ account[u].pending = None
           /\ account[u].role = "MEMBER" /\ account[u].status = "ACTIVE"
<1>1. CASE account[u] = Unregistered
  BY <1>1, UnregisteredRow
<1>2. CASE account[u] # Unregistered
  <2>1. PICK a \in Addresses :
          account[u] = [Registered(a, "MEMBER") EXCEPT !.verified = TRUE]
    BY <1>2 DEF Init
  <2> DEFINE row == Registered(a, "MEMBER")  yes == TRUE
  <2>2. IsRegistered(row, a, "MEMBER")
    <3>1. "MEMBER" \in {"MEMBER", "ADMIN", "SUPERADMIN"}
      OBVIOUS
    <3> QED BY <3>1, RegisteredRow, Zenon
  <2>3. account[u] = [row EXCEPT !.verified = yes] /\ yes \in BOOLEAN
    BY <2>1
  <2> HIDE DEF row, yes
  <2> QED BY <2>2, <2>3, AddressAssumption DEF IsRegistered, AccountRows
<1> QED BY <1>1, <1>2

\* The initial state is well typed.
LEMMA InitTyped ==
    ASSUME Init
    PROVE  Typed
<1>1. RequestsFit
  BY IdleRow DEF Init, RequestsFit
<1>2. ASSUME NEW u \in Users
      PROVE  \/ account[u] = Unregistered
             \/ account[u].email # None /\ account[u] \in AccountRows
  BY FirstAccounts
<1>3. account \in [Users -> AccountRows]
  BY <1>2, UnregisteredRow DEF Init
<1>4. EmptyTrail \in [Users -> TrailRows]
  BY DEF EmptyTrail, TrailRows
<1>5. RowsFit
  BY <1>3, <1>4 DEF Init, RowsFit
<1>6. CodesFit /\ TokensFit
  BY BoundsAssumption DEF Init, CodesFit, TokensFit
<1>7. \A r \in Requests : request[r].op = "idle"
  BY IdleRow DEF Init
<1>8. AccountsInv /\ CodesKnown
  BY <1>2, <1>7 DEF Init, AccountsInv, CodesKnown
<1> QED BY <1>1, <1>5, <1>6, <1>8 DEF Typed

\* Every state is well typed.
LEMMA TypedCorrect == Spec => []Typed
<1>1. Init => Typed
  BY InitTyped
<1>2. Typed /\ [Next]_vars => Typed'
  BY NextTyped
<1> QED BY <1>1, <1>2, PTL DEF Spec

\* The rows have their types, at every step of every handler: the addresses of
\* an account are addresses, its password is one it may have, codes and tokens
\* stay within their bounds, and a request in progress is a user's.
THEOREM TypeCorrect == Spec => []TypeOK
<1>1. Typed => TypeOK
  BY DEF Typed, TypeOK, RequestsFit, RequestRows, CodesFit, TokensFit, RowsFit, AccountRows
<1> QED BY <1>1, TypedCorrect, PTL

-----------------------------------------------------------------------------
(* The audit log.                                                          *)

Rights(u) == [role |-> account[u].role, status |-> account[u].status]

\* A decision on the user is written and its entry is not.
AtAudit(r, u) == request[r].op = "audit" /\ request[r].user = u

\* The audit log lags behind by the decisions about to be entered: one entry
\* makes it true, unless decisions overlapped; of those that did, all but the
\* last to write the row know.
TrailKept(u) ==
    /\ (\A r \in Requests : ~AtAudit(r, u)) => trail[u] = Rights(u)
    /\ \A r \in Requests :
        AtAudit(r, u) /\ "user" \notin request[r].overtaken =>
            /\ \A q \in Requests \ {r} : AtAudit(q, u) => "user" \in request[q].overtaken
            /\ (\A q \in Requests \ {r} : ~AtAudit(q, u)) =>
                    Told(trail[u], request[r].aim) = Rights(u)

TrailInv == \A u \in Users : <<u, "audit">> \in undone \/ TrailKept(u)

\* The audit log goes on telling a user's rights where neither changes.
LEMMA TrailStays ==
    ASSUME NEW u \in Users, TrailKept(u), trail'[u] = trail[u], SameRights(u),
           \A q \in Requests : Kept(q) \/ ~(AtAudit(q, u) \/ AtAudit(q, u)')
    PROVE  TrailKept(u)'
<1>1. Rights(u)' = Rights(u)
  BY DEF Rights, SameRights
<1>2. ASSUME NEW q \in Requests
      PROVE  /\ AtAudit(q, u)' <=> AtAudit(q, u)
             /\ AtAudit(q, u) => /\ request'[q].aim = request[q].aim
                                 /\ request[q].overtaken \subseteq request'[q].overtaken
  BY DEF AtAudit, Kept
<1> QED BY <1>1, <1>2 DEF TrailKept

\* What a request about to write the audit log may do.
LEMMA AuditStep ==
    ASSUME Typed, NEW r \in Requests, StepOf(r), request[r].op = "audit"
    PROVE  WriteAudit(r) \/ Dies(r)
BY DEF StepOf, Starts, Start, Idle, IssueRevokes, IssueCreates, Logout, SetPassword, EndSessions,
       SendsOrUsesCode, Invalidate, CreateCode, MarkUsed, SetVerified, CreateUser, Upgrade,
       WriteProfile, SetEmail, WriteClosed, ReadCode, WriteRequest, WriteDecision,
       Refused

\* What a request about to decide may do.
LEMMA DecideStep ==
    ASSUME Typed, NEW r \in Requests, StepOf(r), request[r].op = "decide"
    PROVE  WriteDecision(r) \/ Dies(r)
BY DEF StepOf, Starts, Start, Idle, IssueRevokes, IssueCreates, Logout, SetPassword, EndSessions,
       SendsOrUsesCode, Invalidate, CreateCode, MarkUsed, SetVerified, CreateUser, Upgrade,
       WriteProfile, SetEmail, WriteClosed, ReadCode, WriteRequest, WriteAudit,
       Refused

\* The other steps leave role, status, trail and entries left undone alone, but
\* for the registration and registerAdmin.
LEMMA RightsStep ==
    ASSUME Typed, NEW r \in Requests, StepOf(r), ~WriteDecision(r), ~WriteAudit(r)
    PROVE  \/ CreateUser(r) \/ Upgrade(r)
           \/ /\ UNCHANGED trail /\ \A u \in Users : SameRights(u)
              /\ \A u \in Users : <<u, "audit">> \in undone => <<u, "audit">> \in undone'
<1> USE DEF Typed
<1> DEFINE Leaves == /\ UNCHANGED trail /\ \A u \in Users : SameRights(u)
                     /\ \A u \in Users : <<u, "audit">> \in undone => <<u, "audit">> \in undone'
<1>0. request[r].op # "idle" => request[r].user \in Users
  BY DEF RequestsFit, Fits
<1>1. ASSUME UNCHANGED users,
             \A u \in Users : <<u, "audit">> \in undone => <<u, "audit">> \in undone'
      PROVE  Leaves
  BY <1>1 DEF users, SameRights
<1>2. CASE Starts(r)
  BY <1>1, <1>2 DEF Starts
<1>3. CASE IssueRevokes(r) \/ IssueCreates(r) \/ \E i \in DOMAIN token : Logout(r, i)
  BY <1>1, <1>3 DEF IssueRevokes, IssueCreates, Logout
<1>4. CASE EndSessions(r)
  <2>1. UNCHANGED users /\ \E u : undone' = undone \ {<<u, "endSessions">>}
    BY <1>4 DEF EndSessions
  <2> QED BY <1>1, <2>1
<1>5. CASE SendsOrUsesCode(r)
  <2>1. UNCHANGED users /\ \E u : undone' = undone \ {<<u, "invalidate">>} \/ undone' = undone
    BY <1>5 DEF SendsOrUsesCode
  <2> QED BY <1>1, <2>1
<1>6. CASE SetPassword(r) \/ SetVerified(r) \/ WriteRequest(r)
  <2>1. request[r].user \in Users /\ UNCHANGED <<trail, undone>>
    BY <1>0, <1>6 DEF SetPassword, SetVerified, WriteRequest
  <2> QED BY <1>6, <2>1, AccountSteps DEF OthersKept, SameRights
<1>7. CASE WriteProfile(r)
  <2>1. UNCHANGED trail /\ \E u : undone' = undone \ {<<u, "endSessions">>} \/ undone' = undone
    BY <1>7 DEF WriteProfile
  <2> QED BY <1>7, <2>1, ProfileAccount DEF OthersKept, SameRights
<1>8. CASE SetEmail(r)
  <2>1. UNCHANGED trail /\ \E u : undone' = undone \ {<<u, "endSessions">>}
    BY <1>8 DEF SetEmail
  <2> QED BY <1>8, <2>1, ConfirmedAccount DEF OthersKept, SameRights
<1>9. CASE WriteClosed(r)
  <2>1. /\ request[r].user \in Users /\ UNCHANGED trail
        /\ \E u : undone' = undone \ {<<u, "endSessions">>}
    BY <1>0, <1>9 DEF WriteClosed
  <2> QED BY <1>9, <2>1, AccountSteps DEF OthersKept, SameRights
<1>10. CASE \E i \in DOMAIN code : ReadCode(r, i)
  BY <1>1, <1>10 DEF ReadCode
<1>11. CASE Refused(r)
  BY <1>1, <1>11 DEF Refused
<1>12. CASE Dies(r)
  <2>1. UNCHANGED users /\ undone \subseteq undone'
    BY <1>12 DEF Dies, LeavesUndone
  <2> QED BY <1>1, <2>1
<1> QED BY <1>2, <1>3, <1>4, <1>5, <1>6, <1>7, <1>8, <1>9, <1>10, <1>11, <1>12 DEF StepOf

\* Every step keeps the audit log true.
LEMMA StepTrail ==
    ASSUME Typed, NEW r \in Requests, StepOf(r), TrailInv, Typed'
    PROVE  TrailInv'
<1>0. PICK w : w = request[r].user
  OBVIOUS
<1> USE <1>0
<1>1. Progress(r) /\ RequestsFit /\ RowsFit
  BY StepProgress DEF Typed
<1>2. \A q \in Requests \ {r} : Kept(q)
  BY <1>1, StartsMoves DEF Progress, Ends, Moves, Goes, Sends, Reads, Kept
<1>3. request[r].op # "idle" => w \in Users
  BY <1>1 DEF RequestsFit, Fits
<1>4. CASE WriteDecision(r)
  <2>1. /\ w \in Users /\ request[r].aim \in Decisions /\ OthersKept(w)
        /\ account'[w] = After(account[w], request[r].aim)
    BY <1>1, <1>4, DecidedAccount
  <2>2. Goes(r, "audit") /\ Overtakes(r, w, {"user"})
    BY <1>1, <1>4, DecisionSteps
  <2>3. UNCHANGED <<trail, undone>> /\ request[r].op = "decide"
    BY <1>4 DEF WriteDecision
  <2>4. ASSUME NEW u \in Users \ {w}, <<u, "audit">> \notin undone
        PROVE  TrailKept(u)'
    <3>1. SameRights(u) /\ TrailKept(u) /\ trail'[u] = trail[u]
      BY <2>1, <2>3, <2>4 DEF OthersKept, SameRights, TrailInv
    <3>2. ~AtAudit(r, u) /\ ~AtAudit(r, u)'
      BY <2>2, <2>4 DEF AtAudit, Goes
    <3> QED BY <1>2, <3>1, <3>2, TrailStays
  <2>5. ASSUME <<w, "audit">> \notin undone
        PROVE  TrailKept(w)'
    <3>1. TrailKept(w)
      BY <2>1, <2>5 DEF TrailInv
    <3>2. AtAudit(r, w)' /\ request'[r].aim = request[r].aim /\ ~AtAudit(r, w)
      BY <2>2, <2>3 DEF Goes, AtAudit
    <3>3. ASSUME NEW q \in Requests \ {r}, AtAudit(q, w)'
          PROVE  AtAudit(q, w) /\ "user" \in request'[q].overtaken
      BY <1>2, <2>2, <3>3 DEF AtAudit, Kept, Overtakes
    <3>4. ASSUME \A q \in Requests \ {r} : ~AtAudit(q, w)'
          PROVE  Told(trail'[w], request'[r].aim) = Rights(w)'
      <4>1. \A q \in Requests \ {r} : ~AtAudit(q, w)
        BY <1>2, <3>4 DEF AtAudit, Kept
      <4>2. trail[w] = Rights(w)
        BY <3>1, <3>2, <4>1 DEF TrailKept
      <4>3. account[w] \in AccountRows
        BY <1>1, <2>1 DEF RowsFit
      <4>4. Told(Rights(w), request[r].aim) = Rights(w)'
        <5> DEFINE d == request[r].aim  row == account[w]
        <5>1. /\ account'[w].role = After(row, d).role
              /\ account'[w].status = After(row, d).status
          BY <2>1
        <5>2. d \in {"approve", "reject", "promote", "ACTIVE", "SUSPENDED"}
          BY <2>1 DEF Decisions
        <5>3. Rights(w) = [role |-> row.role, status |-> row.status]
          BY DEF Rights
        <5>4. Rights(w)' = [role |-> account'[w].role, status |-> account'[w].status]
          BY DEF Rights
        <5> HIDE DEF d, row
        <5>5. row \in AccountRows
          BY <4>3 DEF row
        <5> QED BY <5>1, <5>2, <5>3, <5>4, <5>5 DEF AccountRows, After, Told, d
      <4> QED BY <2>3, <3>2, <4>2, <4>4
    <3> QED BY <3>2, <3>3, <3>4 DEF TrailKept
  <2> QED BY <2>3, <2>4, <2>5 DEF TrailInv
<1>5. CASE WriteAudit(r)
  <2>1. Quits(r)
    BY <1>1, <1>5, DecisionSteps
  <2>2. /\ request[r].op = "audit" /\ UNCHANGED account
        /\ trail' = [trail EXCEPT ![w] = Told(trail[w], request[r].aim)]
        /\ undone' = IF Late(r, {"user"}) THEN undone \cup {<<w, "audit">>} ELSE undone
    BY <1>5 DEF WriteAudit
  <2>3. /\ \A q \in Requests \ {r} : request'[q] = request[q]
        /\ \A u \in Users : ~AtAudit(r, u)'
    BY <2>1, IdleRow DEF Quits, AtAudit
  <2>4. w \in Users /\ "user" \in request[r].overtaken => <<w, "audit">> \in undone'
    BY <2>2 DEF Late
  <2>5. ASSUME NEW u \in Users \ {w}, <<u, "audit">> \notin undone
        PROVE  TrailKept(u)'
    <3>1. SameRights(u) /\ TrailKept(u) /\ trail'[u] = trail[u]
      BY <1>1, <2>2, <2>5 DEF SameRights, TrailInv, RowsFit
    <3>2. ~AtAudit(r, u) /\ ~AtAudit(r, u)'
      BY <2>3, <2>5 DEF AtAudit
    <3> QED BY <1>2, <3>1, <3>2, TrailStays
  <2>6. ASSUME <<w, "audit">> \notin undone'
        PROVE  TrailKept(w)'
    <3>1. w \in Users /\ "user" \notin request[r].overtaken /\ <<w, "audit">> \notin undone
      BY <1>3, <2>2, <2>4, <2>6
    <3>2. TrailKept(w) /\ AtAudit(r, w)
      BY <2>2, <3>1 DEF TrailInv, AtAudit
    <3>3. \A q \in Requests \ {r} : AtAudit(q, w) => "user" \in request[q].overtaken
      BY <3>1, <3>2 DEF TrailKept
    <3>4. \A q \in Requests : AtAudit(q, w)' => q # r /\ AtAudit(q, w) /\ request'[q] = request[q]
      BY <2>3, <3>1 DEF AtAudit
    <3>5. (\A q \in Requests : ~AtAudit(q, w)') => trail'[w] = Rights(w)'
      <4>1. ASSUME \A q \in Requests : ~AtAudit(q, w)'
            PROVE  trail'[w] = Rights(w)'
        <5>1. \A q \in Requests \ {r} : ~AtAudit(q, w)
          BY <2>3, <4>1 DEF AtAudit
        <5>2. Told(trail[w], request[r].aim) = Rights(w)
          BY <3>1, <3>2, <5>1 DEF TrailKept
        <5>3. trail'[w] = Told(trail[w], request[r].aim)
          BY <1>1, <2>2, <3>1 DEF RowsFit
        <5> QED BY <2>2, <5>2, <5>3 DEF Rights
      <4> QED BY <4>1
    <3> QED BY <3>3, <3>4, <3>5 DEF TrailKept
  <2>7. \A u \in Users : <<u, "audit">> \in undone => <<u, "audit">> \in undone'
    BY <2>2
  <2> QED BY <2>5, <2>6, <2>7 DEF TrailInv
<1>6. CASE CreateUser(r)
  <2>1. /\ w \in Users /\ OthersKept(w)
        /\ account'[w].role = request[r].aim /\ account'[w].status = "ACTIVE"
        /\ trail' = trail /\ request[r].aim \in {"MEMBER", "ADMIN"}
        /\ undone' = IF request[r].aim = "ADMIN" THEN undone \cup {<<w, "audit">>} ELSE undone
    BY <1>1, <1>6, CreatedAccount
  <2>2. request[r].op = "createUser" /\ request'[r].op = "invalidate"
    <3>1. Sends(r, "VERIFICATION", request[r].address)
      BY <1>1, <1>6, RegistrationSteps
    <3> QED BY <1>6, <3>1 DEF CreateUser, Sends
  <2>3. ASSUME NEW u \in Users \ {w}, <<u, "audit">> \notin undone
        PROVE  TrailKept(u)'
    <3>1. SameRights(u) /\ TrailKept(u) /\ trail'[u] = trail[u]
      BY <2>1, <2>3 DEF OthersKept, SameRights, TrailInv
    <3>2. ~AtAudit(r, u) /\ ~AtAudit(r, u)'
      BY <2>2 DEF AtAudit
    <3> QED BY <1>2, <3>1, <3>2, TrailStays
  <2>4. ASSUME <<w, "audit">> \notin undone'
        PROVE  TrailKept(w)'
    <3>0. request[r].aim = "MEMBER" /\ <<w, "audit">> \notin undone
      BY <2>1, <2>4
    <3>1. /\ account[w] = Unregistered
          /\ \A q \in Requests \ {r} : request[q].user # w
      BY <2>1, <2>2 DEF Typed, AccountsInv
    <3>2. \A q \in Requests : ~AtAudit(q, w) /\ ~AtAudit(q, w)'
      BY <1>2, <2>2, <3>1 DEF AtAudit, Kept
    <3>3. trail[w] = Rights(w)
      BY <2>1, <3>0, <3>2 DEF TrailInv, TrailKept
    <3>4. account[w].role = "MEMBER" /\ account[w].status = "ACTIVE"
      BY <3>1, UnregisteredRow
    <3>6. trail'[w] = Rights(w)'
      BY <2>1, <3>0, <3>3, <3>4 DEF Rights
    <3> QED BY <3>2, <3>6 DEF TrailKept
  <2>5. \A u \in Users : <<u, "audit">> \in undone => <<u, "audit">> \in undone'
    BY <2>1
  <2> QED BY <2>3, <2>4, <2>5 DEF TrailInv
<1>7. CASE Upgrade(r)
  <2>1. w \in Users /\ request[r].op = "upgrade"
    BY <1>3, <1>7 DEF Upgrade
  <2>2. UNCHANGED trail /\ undone' = undone \cup {<<w, "endSessions">>, <<w, "audit">>}
    BY <1>7 DEF Upgrade
  <2>3. OthersKept(w)
    BY <1>1, <1>7, <2>1, AccountSteps
  <2>4. request'[r].op # "audit"
    BY <1>1, <1>7, RegistrationSteps, IdleRow DEF Ends, Moves, Sends
  <2>5. ASSUME NEW u \in Users \ {w}, <<u, "audit">> \notin undone
        PROVE  TrailKept(u)'
    <3>1. SameRights(u) /\ TrailKept(u) /\ trail'[u] = trail[u]
      BY <2>2, <2>3, <2>5 DEF OthersKept, SameRights, TrailInv
    <3>2. ~AtAudit(r, u) /\ ~AtAudit(r, u)'
      BY <2>1, <2>4 DEF AtAudit
    <3> QED BY <1>2, <3>1, <3>2, TrailStays
  <2> QED BY <2>2, <2>5 DEF TrailInv
<1>8. CASE ~WriteDecision(r) /\ ~WriteAudit(r) /\ ~CreateUser(r) /\ ~Upgrade(r)
  <2>1. /\ UNCHANGED trail /\ \A u \in Users : SameRights(u)
        /\ \A u \in Users : <<u, "audit">> \in undone => <<u, "audit">> \in undone'
    BY <1>8, RightsStep
  <2>2. ASSUME NEW u \in Users, <<u, "audit">> \notin undone'
        PROVE  TrailKept(u)'
    <3>1. TrailKept(u)
      BY <2>1, <2>2 DEF TrailInv
    <3>2. ~AtAudit(r, u)
      <4>1. ASSUME AtAudit(r, u)
            PROVE  FALSE
        <5>1. Dies(r)
          BY <1>8, <4>1, AuditStep DEF AtAudit
        <5>2. <<u, "audit">> \in undone'
          BY <4>1, <5>1 DEF Dies, LeavesUndone, AtAudit
        <5> QED BY <2>2, <5>2
      <4> QED BY <4>1
    <3>3. request'[r].op # "audit"
      <4>1. request[r].op = "markUsed" => Then[request[r].aim] # "audit"
        BY <1>1 DEF RequestsFit, Fits, Then, Purposes
      <4>2. CASE Starts(r)
        BY <4>2, StartsMoves, <1>1 DEF Founded
      <4>3. CASE Ends(r)
        BY <4>3, IdleRow DEF Ends, Moves
      <4>4. CASE request[r].op = "decide"
        <5>1. Dies(r)
          BY <1>8, <4>4, DecideStep
        <5> QED BY <1>1, <5>1, DecisionSteps, IdleRow DEF Quits
      <4>5. CASE ~Starts(r) /\ ~Ends(r) /\ request[r].op # "decide"
        BY <1>1, <4>1, <4>5 DEF Progress, Goes, Sends, Reads
      <4> QED BY <4>2, <4>3, <4>4, <4>5
    <3> QED BY <1>2, <2>1, <3>1, <3>2, <3>3, TrailStays DEF AtAudit
  <2> QED BY <2>2 DEF TrailInv
<1> QED BY <1>4, <1>5, <1>6, <1>7, <1>8

\* Role and status of a user are what the audit log tells, but while the entry
\* of a decision is about to be written, where a decision died before it or
\* overlapped with another, and where registerAdmin made the account an
\* administrator's, which writes none.
THEOREM TrailTellsAccountCorrect == Spec => []TrailTellsAccount
<1>1. Init => TrailInv
  <2>1. ASSUME Init
        PROVE  TrailInv
    <3>1. Typed
      BY <2>1, InitTyped
    <3>2. \A r \in Requests, u \in Users : ~AtAudit(r, u)
      BY <2>1, IdleRow DEF Init, AtAudit
    <3>3. ASSUME NEW u \in Users
          PROVE  account[u].role = "MEMBER" /\ account[u].status = "ACTIVE"
      BY <2>1, <3>3, FirstAccounts
    <3>4. \A u \in Users : trail[u] = Rights(u)
      BY <2>1, <3>3 DEF Init, EmptyTrail, Rights
    <3> QED BY <3>2, <3>4 DEF TrailInv, TrailKept
  <2> QED BY <2>1
<1>2. Typed /\ Typed' /\ TrailInv /\ [Next]_vars => TrailInv'
  <2>1. ASSUME Typed, Typed', TrailInv, Next
        PROVE  TrailInv'
    <3>1. CASE \E r \in Requests : StepOf(r)
      BY <2>1, <3>1, StepTrail
    <3>2. CASE \/ \E i \in DOMAIN token : ExpireToken(i)
               \/ \E i \in DOMAIN code : CodeExpires(i)
      <4>1. UNCHANGED <<request, account, trail, undone>>
        BY <3>2 DEF ExpireToken, CodeExpires, ExpireCode, users
      <4> QED BY <2>1, <4>1 DEF TrailInv, TrailKept, AtAudit, Rights
    <3> QED BY <2>1, <3>1, <3>2, NextSteps
  <2>2. ASSUME TrailInv, UNCHANGED vars
        PROVE  TrailInv'
    BY <2>2 DEF TrailInv, TrailKept, AtAudit, Rights, vars, users
  <2> QED BY <2>1, <2>2
<1>3. TrailInv => TrailTellsAccount
  BY DEF TrailInv, TrailKept, AtAudit, Rights, TrailTellsAccount
<1> QED BY <1>1, <1>2, <1>3, TypedCorrect, PTL DEF Spec

-----------------------------------------------------------------------------
(* Addresses.                                                              *)

\* Of the users who have an address, or wait to confirm it, all but one are
\* unsure.
Shared ==
    \A a \in Addresses : \A u, v \in Holder(a) : u = v \/ u \in unsure \/ v \in unsure

\* What a handler has found free still is, or it was overtaken.
ClaimKept(r) ==
    Claims(request[r]) =>
        \/ "addresses" \in request[r].overtaken
        \/ Holder(request[r].address) \subseteq {request[r].user}

AddressInv == Shared /\ \A r \in Requests : ClaimKept(r)

\* Nobody gets an address.
NoGain == (\A a \in Addresses : Holder(a)' \subseteq Holder(a)) /\ unsure \subseteq unsure'

\* The handler gives its user the address it has found free.
Gains(r) ==
    /\ Claims(request[r])
    /\ \A a \in Addresses : \A v \in Users :
         v \in Holder(a)' => v \in Holder(a) \/ (a = request[r].address /\ v = request[r].user)
    /\ WritesAddress(r)
    /\ \A q \in Requests \ {r} : request[q].op # "idle" => "addresses" \in request'[q].overtaken
    /\ ~Claims(request'[r])

\* Who gives an address up gains none.
LEMMA HolderStays ==
    ASSUME NEW u \in Users, OthersKept(u),
           account'[u].email \in {account[u].email, None, "anonymized"},
           account'[u].pending \in {account[u].pending, None}
    PROVE  \A a \in Addresses : Holder(a)' \subseteq Holder(a)
BY AddressAssumption DEF Holder, OthersKept

\* Who takes an address gains that one only.
LEMMA HolderGrows ==
    ASSUME NEW u \in Users, OthersKept(u), NEW address,
           account'[u].email \in {account[u].email, address, None},
           account'[u].pending \in {account[u].pending, address, None}
    PROVE  \A a \in Addresses : \A v \in Users :
             v \in Holder(a)' => v \in Holder(a) \/ (a = address /\ v = u)
BY AddressAssumption DEF Holder, OthersKept

\* Only a request that claims an address gains one.
LEMMA AddressStep ==
    ASSUME Typed, NEW r \in Requests, StepOf(r)
    PROVE  NoGain \/ Gains(r)
<1> USE DEF Typed
<1>0. request[r].op # "idle" => request[r].user \in Users
  BY DEF RequestsFit, Fits
<1>1. ASSUME UNCHANGED users
      PROVE  NoGain
  BY <1>1 DEF NoGain, Holder, users
<1>2. CASE Starts(r)
  BY <1>1, <1>2 DEF Starts
<1>3. CASE IssueRevokes(r) \/ IssueCreates(r) \/ \E i \in DOMAIN token : Logout(r, i)
  BY <1>1, <1>3 DEF IssueRevokes, IssueCreates, Logout
<1>4. CASE EndSessions(r) \/ SendsOrUsesCode(r)
  BY <1>1, <1>4 DEF EndSessions, SendsOrUsesCode
<1>5. CASE SetPassword(r) \/ SetVerified(r) \/ WriteRequest(r) \/ Upgrade(r)
  <2>1. request[r].user \in Users /\ UNCHANGED unsure
    BY <1>0, <1>5 DEF SetPassword, SetVerified, WriteRequest, Upgrade
  <2>2. OthersKept(request[r].user) /\ SameAddresses(request[r].user)
    BY <1>5, <2>1, AccountSteps
  <2> QED BY <2>1, <2>2, HolderStays DEF SameAddresses, NoGain
<1>6. CASE CreateUser(r)
  <2>1. /\ request[r].user \in Users /\ OthersKept(request[r].user)
        /\ account'[request[r].user].email = request[r].address
        /\ account'[request[r].user].pending = None
    BY <1>6, CreatedAccount
  <2>2. Claims(request[r]) /\ WritesAddress(r) /\ request[r].op = "createUser"
    BY <1>6 DEF CreateUser, Claims
  <2>3. Sends(r, "VERIFICATION", request[r].address) /\ Overtakes(r, request[r].user, Tables)
    BY <1>6, RegistrationSteps
  <2>4. ~Claims(request'[r])
    BY <2>3 DEF Sends, Claims, Confirms
  <2>5. \A a \in Addresses : \A v \in Users :
          v \in Holder(a)' => v \in Holder(a) \/ (a = request[r].address /\ v = request[r].user)
    BY <2>1, HolderGrows
  <2> QED BY <2>2, <2>3, <2>4, <2>5 DEF Gains, Overtakes, Tables
<1>7. CASE WriteProfile(r)
  <2>1. /\ request[r].user \in Users /\ OthersKept(request[r].user)
        /\ account'[request[r].user].email = account[request[r].user].email
        /\ account'[request[r].user].pending =
             IF "pending" \in request[r].writes THEN request[r].address
                                                ELSE account[request[r].user].pending
    BY <1>7, ProfileAccount
  <2>2. CASE "pending" \notin request[r].writes
    <3>1. UNCHANGED unsure
      BY <1>7, <2>2 DEF WriteProfile
    <3> QED BY <2>1, <2>2, <3>1, HolderStays DEF NoGain
  <2>3. CASE "pending" \in request[r].writes
    <3>1. Claims(request[r]) /\ WritesAddress(r)
      BY <1>7, <2>3 DEF WriteProfile, Claims
    <3>2. /\ Overtakes(r, request[r].user, Touched(request[r]))
          /\ Ends(r) \/ Sends(r, "EMAIL_CHANGE", request[r].address)
      BY <1>7, ProfileSteps
    <3>3. ~Claims(request'[r])
      BY <3>2, IdleRow DEF Sends, Ends, Moves, Claims, Confirms
    <3>4. \A a \in Addresses : \A v \in Users :
            v \in Holder(a)' => v \in Holder(a) \/ (a = request[r].address /\ v = request[r].user)
      BY <2>1, <2>3, HolderGrows
    <3> QED BY <2>3, <3>1, <3>2, <3>3, <3>4 DEF Gains, Overtakes, Touched
  <2> QED BY <2>2, <2>3
<1>8. CASE SetEmail(r)
  <2>1. /\ request[r].user \in Users /\ OthersKept(request[r].user)
        /\ account'[request[r].user].email = request[r].address
        /\ account'[request[r].user].pending = None
    BY <1>8, ConfirmedAccount
  <2>2. Claims(request[r]) /\ WritesAddress(r)
    BY <1>8 DEF SetEmail, Claims, Confirms
  <2>3. Ends(r) /\ Overtakes(r, request[r].user, {"addresses", "tokens"})
    BY <1>8, ProfileSteps
  <2>4. ~Claims(request'[r])
    BY <2>3, IdleRow DEF Ends, Moves
  <2>5. \A a \in Addresses : \A v \in Users :
          v \in Holder(a)' => v \in Holder(a) \/ (a = request[r].address /\ v = request[r].user)
    BY <2>1, HolderGrows
  <2> QED BY <2>2, <2>3, <2>4, <2>5 DEF Gains, Overtakes
<1>9. CASE WriteClosed(r)
  <2>1. request[r].user \in Users /\ UNCHANGED unsure
    BY <1>0, <1>9 DEF WriteClosed
  <2>2. /\ OthersKept(request[r].user)
        /\ account'[request[r].user].email = "anonymized"
        /\ account'[request[r].user].pending = None
    BY <1>9, <2>1, AccountSteps
  <2> QED BY <2>1, <2>2, HolderStays DEF NoGain
<1>10. CASE WriteDecision(r)
  <2>1. request[r].user \in Users /\ OthersKept(request[r].user) /\ SameAddresses(request[r].user)
    BY <1>10, DecidedAccount
  <2>2. UNCHANGED unsure
    BY <1>10 DEF WriteDecision
  <2> QED BY <2>1, <2>2, HolderStays DEF SameAddresses, NoGain
<1>11. CASE WriteAudit(r)
  <2>1. UNCHANGED <<account, unsure>>
    BY <1>11 DEF WriteAudit
  <2> QED BY <2>1 DEF NoGain, Holder
<1>12. CASE \E i \in DOMAIN code : ReadCode(r, i)
  BY <1>1, <1>12 DEF ReadCode
<1>13. CASE Refused(r) \/ Dies(r)
  BY <1>1, <1>13 DEF Refused, Dies
<1> QED BY <1>2, <1>3, <1>4, <1>5, <1>6, <1>7, <1>8, <1>9, <1>10, <1>11, <1>12, <1>13 DEF StepOf

\* The other handlers claim what they claimed.
LEMMA OthersMove ==
    ASSUME RequestsFit, NEW r \in Requests, Progress(r)
    PROVE  \A q \in Requests \ {r} : Kept(q)
BY StartsMoves DEF Progress, Ends, Moves, Goes, Sends, Reads, Kept

\* A claim is carried on unchanged.
LEMMA ClaimsMove ==
    ASSUME RequestsFit, NEW r \in Requests, Progress(r), ~Starts(r), Claims(request'[r])
    PROVE  /\ Claims(request[r])
           /\ request'[r].user = request[r].user /\ request'[r].address = request[r].address
           /\ request[r].overtaken \subseteq request'[r].overtaken
<1>1. ~Ends(r)
  BY IdleRow DEF Ends, Moves
<1>2. ASSUME request[r].op = "markUsed", Goes(r, Then[request[r].aim])
      PROVE  Confirms(request[r])
  BY <1>2 DEF RequestsFit, Fits, Then, Purposes, Goes, Claims, Confirms
<1> QED BY <1>1, <1>2 DEF Progress, Goes, Sends, Reads, Claims, Confirms

\* Every step keeps an address with one account, unless requests overlapped.
LEMMA StepAddress ==
    ASSUME Typed, Typed', NEW r \in Requests, StepOf(r), AddressInv
    PROVE  AddressInv'
<1>1. Progress(r) /\ RequestsFit /\ RequestsFit'
  BY StepProgress DEF Typed
<1>2. \A q \in Requests \ {r} : Kept(q)
  BY <1>1, OthersMove
<1>3. \A q \in Requests : Claims(request'[q]) => request'[q].address \in Addresses
  BY <1>1 DEF RequestsFit, Fits
<1>4. CASE NoGain
  <2>1. Shared'
    BY <1>4 DEF NoGain, Shared, AddressInv
  <2>2. ASSUME NEW q \in Requests \ {r}
        PROVE  ClaimKept(q)'
    <3>1. ClaimKept(q) /\ Kept(q)
      BY <1>2 DEF AddressInv
    <3>2. Claims(request'[q]) => Claims(request[q])
      BY <3>1 DEF Kept, Claims, Confirms
    <3>3. ASSUME Claims(request'[q]), "addresses" \notin request'[q].overtaken
          PROVE  Holder(request[q].address)' \subseteq {request[q].user}
      BY <1>3, <1>4, <3>1, <3>2, <3>3 DEF ClaimKept, Kept, NoGain
    <3> QED BY <3>1, <3>3 DEF ClaimKept, Kept, Holder
  <2>3. CASE Starts(r)
    <3>1. PICK next : Founded(next) /\ request'[r] = next
      BY <1>1, <2>3, StartsMoves
    <3>2. UNCHANGED account
      BY <2>3 DEF Starts, users
    <3>3. ClaimKept(r)'
      BY <3>1, <3>2 DEF ClaimKept, Founded, Holder
    <3> QED BY <2>1, <2>2, <3>3 DEF AddressInv
  <2>4. CASE ~Starts(r)
    <3>1. ASSUME Claims(request'[r]), "addresses" \notin request'[r].overtaken
          PROVE  Holder(request[r].address)' \subseteq {request[r].user}
      <4>1. /\ Claims(request[r]) /\ request'[r].address = request[r].address
            /\ request[r].overtaken \subseteq request'[r].overtaken
        BY <1>1, <2>4, <3>1, ClaimsMove
      <4> QED BY <1>3, <1>4, <3>1, <4>1 DEF AddressInv, ClaimKept, NoGain
    <3>2. ClaimKept(r)'
      BY <1>1, <2>4, <3>1, ClaimsMove DEF ClaimKept, Holder
    <3> QED BY <2>1, <2>2, <3>2 DEF AddressInv
  <2> QED BY <2>3, <2>4
<1>5. CASE Gains(r)
  <2>1. PICK w, b : w = request[r].user /\ b = request[r].address
    OBVIOUS
  <2>2. "addresses" \in request[r].overtaken \/ Holder(b) \subseteq {w}
    BY <1>5, <2>1 DEF Gains, AddressInv, ClaimKept
  <2>3. /\ unsure \subseteq unsure'
        /\ "addresses" \in request[r].overtaken => w \in unsure'
    BY <1>5, <2>1 DEF Gains, WritesAddress, Overlapped, Late
  <2>4. ASSUME NEW a \in Addresses, NEW u \in Holder(a)', NEW v \in Holder(a)', u # v
        PROVE  u \in unsure' \/ v \in unsure'
    <3>1. u \in Users /\ v \in Users
      BY DEF Holder
    <3>2. /\ u \in Holder(a) \/ (a = b /\ u = w)
          /\ v \in Holder(a) \/ (a = b /\ v = w)
      BY <1>5, <2>1, <3>1 DEF Gains
    <3>3. CASE u \in Holder(a) /\ v \in Holder(a)
      BY <2>3, <2>4, <3>3 DEF AddressInv, Shared
    <3>4. CASE a = b /\ (u = w \/ v = w)
      BY <2>2, <2>3, <2>4, <3>2, <3>4
    <3> QED BY <3>2, <3>3, <3>4
  <2>5. Shared'
    BY <2>4 DEF Shared
  <2>6. ASSUME NEW q \in Requests
        PROVE  ClaimKept(q)'
    <3>1. CASE q = r
      BY <1>5, <3>1 DEF Gains, ClaimKept
    <3>2. CASE q # r
      <4>1. Kept(q)
        BY <1>2, <3>2
      <4>2. Claims(request'[q]) => request[q].op # "idle"
        BY <4>1 DEF Kept, Claims, Confirms
      <4> QED BY <1>5, <3>2, <4>2 DEF Gains, ClaimKept
    <3> QED BY <3>1, <3>2
  <2> QED BY <2>5, <2>6 DEF AddressInv
<1> QED BY <1>4, <1>5, AddressStep

\* An address belongs to one account, as its address or as the one it waits to
\* confirm: of two accounts that share one, an address of one was written by a
\* request that others overlapped.
THEOREM AddressIsOnesCorrect == Spec => []AddressIsOnes
<1>1. Init => AddressInv
  <2>1. ASSUME Init
        PROVE  AddressInv
    <3>1. \A r \in Requests : ~Claims(request[r])
      BY <2>1, IdleRow DEF Init
    <3>2. \A u \in Users : account[u].pending = None
      BY <2>1, FirstAccounts
    <3>3. Shared
      BY <2>1, <3>2, AddressAssumption DEF Init, Shared, Holder
    <3> QED BY <3>1, <3>3 DEF AddressInv, ClaimKept
  <2> QED BY <2>1
<1>2. Typed /\ Typed' /\ AddressInv /\ [Next]_vars => AddressInv'
  <2>1. ASSUME Typed, Typed', AddressInv, Next
        PROVE  AddressInv'
    <3>1. CASE \E r \in Requests : StepOf(r)
      BY <2>1, <3>1, StepAddress
    <3>2. CASE \/ \E i \in DOMAIN token : ExpireToken(i)
               \/ \E i \in DOMAIN code : CodeExpires(i)
      <4>1. UNCHANGED <<request, account, unsure>>
        BY <3>2 DEF ExpireToken, CodeExpires, ExpireCode, users
      <4> QED BY <2>1, <4>1 DEF AddressInv, Shared, ClaimKept, Holder
    <3> QED BY <2>1, <3>1, <3>2, NextSteps
  <2>2. ASSUME AddressInv, UNCHANGED vars
        PROVE  AddressInv'
    BY <2>2 DEF AddressInv, Shared, ClaimKept, Holder, vars, users
  <2> QED BY <2>1, <2>2
<1>3. Typed /\ AddressInv => AddressIsOnes
  <2>1. ASSUME AddressInv, NEW u \in Users, NEW v \in Users, u # v,
               NEW a \in Addresses, a \in {account[u].email, account[u].pending},
               a \in {account[v].email, account[v].pending}
        PROVE  {u, v} \cap unsure # {}
    <3>1. u \in Holder(a) /\ v \in Holder(a)
      BY <2>1 DEF Holder
    <3> QED BY <2>1, <3>1 DEF AddressInv, Shared
  <2> QED BY <2>1 DEF AddressIsOnes
<1> QED BY <1>1, <1>2, <1>3, TypedCorrect, PTL DEF Spec

-----------------------------------------------------------------------------
(* Codes.                                                                  *)

\* A handler that marks a code used has found it unused, one that creates a
\* code has spent the earlier ones, or others wrote codes since.
MarkKept(r) ==
    request[r].op = "markUsed" =>
        /\ code[request[r].code].usable => code[request[r].code].user = request[r].user
        /\ "codes" \in request[r].overtaken \/ code[request[r].code].uses = 0

SendKept(r) ==
    request[r].op = "send" =>
        "codes" \in request[r].overtaken \/ Usable(request[r].user, request[r].aim) = {}

\* Handlers that mark the same code used are the same user's.
SameCode ==
    \A q, r \in Requests :
        /\ request[q].op = "markUsed" /\ request[r].op = "markUsed"
        /\ request[q].code = request[r].code
        => request[q].user = request[r].user

UsableUnused == \A i \in DOMAIN code : code[i].usable => code[i].uses = 0

CodeInv ==
    /\ CodesAreOnce /\ UsableUnused /\ SameCode
    /\ \A r \in Requests : MarkKept(r) /\ SendKept(r)

\* No code appears, and none is used.
CodesFade == DOMAIN code' = DOMAIN code /\ \A j \in DOMAIN code : CodeKept(j)

\* Spending codes makes none usable.
LEMMA SpentFade ==
    ASSUME CodesFit, NEW u, NEW purposes, code' = Spent(u, purposes)
    PROVE  CodesFade
BY SpentCodes DEF CodesFade

\* Neither does any step but the creation of one.
LEMMA CodeStep ==
    ASSUME Typed, NEW r \in Requests, StepOf(r), ~CreateCode(r), ~MarkUsed(r)
    PROVE  CodesFade
<1> USE DEF Typed
<1>1. CASE SendsOrUsesCode(r)
  <2>1. code' = Spent(request[r].user, {request[r].aim})
    BY <1>1 DEF SendsOrUsesCode, Invalidate
  <2> QED BY <2>1, SpentFade
<1>2. CASE WriteClosed(r)
  <2>1. code' = Spent(request[r].user, Purposes)
    BY <1>2 DEF WriteClosed
  <2> QED BY <2>1, SpentFade
<1>3. ASSUME UNCHANGED code
      PROVE  CodesFade
  BY <1>3 DEF CodesFade, CodeKept
<1>4. CASE Starts(r)
  BY <1>3, <1>4 DEF Starts
<1>5. CASE IssueRevokes(r) \/ IssueCreates(r) \/ \E i \in DOMAIN token : Logout(r, i)
  BY <1>3, <1>5 DEF IssueRevokes, IssueCreates, Logout
<1>6. CASE SetPassword(r) \/ EndSessions(r) \/ SetVerified(r)
  BY <1>3, <1>6 DEF SetPassword, EndSessions, SetVerified
<1>7. CASE CreateUser(r) \/ Upgrade(r) \/ WriteProfile(r) \/ SetEmail(r)
  BY <1>3, <1>7 DEF CreateUser, Upgrade, WriteProfile, SetEmail
<1>8. CASE \E i \in DOMAIN code : ReadCode(r, i)
  BY <1>3, <1>8 DEF ReadCode
<1>9. CASE WriteRequest(r) \/ WriteDecision(r) \/ WriteAudit(r) \/ Refused(r) \/ Dies(r)
  BY <1>3, <1>9 DEF WriteRequest, WriteDecision, WriteAudit, Refused, Dies
<1> QED BY <1>1, <1>2, <1>4, <1>5, <1>6, <1>7, <1>8, <1>9 DEF StepOf

\* What a request about to invalidate codes may do.
LEMMA InvalidateStep ==
    ASSUME Typed, NEW r \in Requests, StepOf(r), request[r].op = "invalidate"
    PROVE  Invalidate(r) \/ Dies(r)
BY DEF StepOf, Starts, Start, Idle, IssueRevokes, IssueCreates, Logout, SetPassword, EndSessions,
       SendsOrUsesCode, CreateCode, MarkUsed, SetVerified, CreateUser, Upgrade,
       WriteProfile, SetEmail, WriteClosed, ReadCode, WriteRequest, WriteDecision, WriteAudit,
       Refused

\* Only four steps bring a handler to where it creates or marks a code.
LEMMA CodeHandlers ==
    ASSUME Typed, NEW r \in Requests, StepOf(r), ~Invalidate(r), ~Starts(r),
           ~\E i \in DOMAIN code : ReadCode(r, i)
    PROVE  request'[r].op \notin {"send", "markUsed"}
<1>1. Progress(r) /\ RequestsFit
  BY StepProgress DEF Typed
<1>2. request[r].op = "markUsed" => Then[request[r].aim] \notin {"send", "markUsed"}
  BY <1>1 DEF RequestsFit, Fits, Then, Purposes
<1>3. CASE Ends(r)
  BY <1>3, IdleRow DEF Ends, Moves
<1>4. CASE request[r].op = "invalidate"
  <2>1. Dies(r)
    BY <1>4, InvalidateStep
  <2> QED BY <1>1, <2>1, DecisionSteps, IdleRow DEF Quits
<1>5. CASE ~Ends(r) /\ request[r].op # "invalidate"
  BY <1>1, <1>2, <1>5 DEF Progress, Goes, Sends
<1> QED BY <1>3, <1>4, <1>5

\* What fading codes leave of the invariant.
LEMMA FadeKeeps ==
    ASSUME Typed, CodeInv, CodesFade
    PROVE  /\ CodesAreOnce' /\ UsableUnused'
           /\ \A q \in Requests : Kept(q) => MarkKept(q)' /\ SendKept(q)'
<1> USE DEF CodeInv, CodesFade
<1>1. \A j \in DOMAIN code : CodeKept(j)
  OBVIOUS
<1>2. CodesAreOnce'
  BY DEF CodesAreOnce, CodeKept
<1>3. UsableUnused'
  BY DEF UsableUnused, CodeKept
<1>4. ASSUME NEW q \in Requests, Kept(q)
      PROVE  MarkKept(q)' /\ SendKept(q)'
  <2>1. MarkKept(q) /\ SendKept(q)
    OBVIOUS
  <2>2. MarkKept(q)'
    <3>1. request[q].op = "markUsed" => request[q].code \in DOMAIN code
      BY DEF Typed, CodesKnown
    <3> QED BY <1>1, <1>4, <2>1, <3>1 DEF MarkKept, Kept, CodeKept
  <2>3. SendKept(q)'
    <3>1. ASSUME NEW j \in DOMAIN code', code'[j].user = request[q].user,
                 code'[j].purpose = request[q].aim, code'[j].usable
          PROVE  j \in Usable(request[q].user, request[q].aim)
      BY <1>1, <3>1 DEF Usable, CodeKept
    <3> QED BY <1>4, <2>1, <3>1 DEF SendKept, Kept, Usable
  <2> QED BY <2>2, <2>3
<1> QED BY <1>2, <1>3, <1>4

\* A handler that has found a usable code.
LEMMA FindsCode ==
    ASSUME Typed, CodeInv, NEW r \in Requests, UNCHANGED code,
           \A q \in Requests \ {r} : Kept(q),
           request'[r].op = "markUsed",
           request'[r].code \in Usable(request'[r].user, request'[r].aim)
    PROVE  CodeInv'
<1> USE DEF CodeInv
<1>1. CodesFade
  BY DEF CodesFade, CodeKept
<1>2. /\ CodesAreOnce' /\ UsableUnused'
      /\ \A q \in Requests \ {r} : MarkKept(q)' /\ SendKept(q)'
  BY <1>1, FadeKeeps
<1>3. /\ request'[r].code \in DOMAIN code /\ code[request'[r].code].usable
      /\ code[request'[r].code].user = request'[r].user
      /\ code[request'[r].code].uses = 0
  BY DEF Usable, UsableUnused
<1>4. MarkKept(r)' /\ SendKept(r)'
  BY <1>3 DEF MarkKept, SendKept
<1>5. SameCode'
  <2>1. ASSUME NEW q \in Requests \ {r}, request'[q].op = "markUsed",
               request'[q].code = request'[r].code
        PROVE  request'[q].user = request'[r].user
    BY <1>2, <1>3, <2>1 DEF MarkKept
  <2>2. ASSUME NEW p \in Requests \ {r}, NEW q \in Requests \ {r},
               request'[p].op = "markUsed", request'[q].op = "markUsed",
               request'[p].code = request'[q].code
        PROVE  request'[p].user = request'[q].user
    BY <2>2 DEF Kept, SameCode
  <2> QED BY <2>1, <2>2 DEF SameCode
<1> QED BY <1>2, <1>4, <1>5

\* Where no handler comes to mark a code, those that did stay the same user's.
LEMMA SameCodeStays ==
    ASSUME CodeInv, NEW r \in Requests, \A q \in Requests \ {r} : Kept(q),
           request'[r].op # "markUsed"
    PROVE  SameCode'
BY DEF CodeInv, SameCode, Kept

\* Every step keeps one usable code per purpose, and each used once.
LEMMA StepCode ==
    ASSUME Typed, NEW r \in Requests, StepOf(r), CodeInv
    PROVE  CodeInv'
<1>1. Progress(r) /\ RequestsFit /\ CodesFit
  BY StepProgress DEF Typed
<1>2. \A q \in Requests \ {r} : Kept(q)
  BY <1>1, OthersMove
<1>3. CASE CreateCode(r)
  <2>1. Adds(r) /\ Ends(r) /\ Overtakes(r, request[r].user, {"codes"})
    BY <1>1, <1>3, AddedCode, CodeSteps
  <2>2. request[r].op = "send"
    BY <1>3 DEF CreateCode
  <2>3. PICK i : i = Len(code) + 1
    OBVIOUS
  <2>4. /\ DOMAIN code' = DOMAIN code \cup {i} /\ i \notin DOMAIN code
        /\ \A j \in DOMAIN code : code'[j] = code[j] /\ j < i
        /\ code'[i].user = request[r].user /\ code'[i].purpose = request[r].aim
        /\ code'[i].usable /\ code'[i].uses = 0
        /\ "codes" \in request[r].overtaken => code'[i].late
    BY <1>1, <2>1, <2>3 DEF Adds, CodesFit
  <2>5. CodesAreOnce'
    <3>1. ASSUME NEW j \in DOMAIN code, code[j].usable, code[j].user = code'[i].user,
                 code[j].purpose = code'[i].purpose
          PROVE  code'[i].late
      <4>1. j \in Usable(request[r].user, request[r].aim)
        BY <2>4, <3>1 DEF Usable
      <4> QED BY <2>2, <2>4, <4>1 DEF CodeInv, SendKept
    <3>2. \A j \in DOMAIN code : code[j].uses <= 1 \/ code[j].late
      BY DEF CodeInv, CodesAreOnce
    <3>3. \A j \in DOMAIN code' : code'[j].uses <= 1 \/ code'[j].late
      BY <2>4, <3>2
    <3>4. ASSUME NEW j \in DOMAIN code', NEW k \in DOMAIN code', j < k, code'[j].usable,
                 code'[k].usable, code'[j].user = code'[k].user,
                 code'[j].purpose = code'[k].purpose
          PROVE  code'[j].late \/ code'[k].late
      <4>1. CASE j \in DOMAIN code /\ k \in DOMAIN code
        BY <2>4, <3>4, <4>1 DEF CodeInv, CodesAreOnce
      <4>2. CASE j = i \/ k = i
        <5>1. i \in Nat /\ j \in Nat /\ k \in Nat
          BY <1>1, <2>3, <2>4 DEF CodesFit
        <5>2. j # k
          BY <3>4, <5>1
        <5> QED BY <2>4, <3>1, <3>4, <4>2, <5>2
      <4> QED BY <2>4, <4>1, <4>2
    <3> QED BY <3>3, <3>4 DEF CodesAreOnce
  <2>6. UsableUnused'
    BY <2>4 DEF CodeInv, UsableUnused
  <2>7. request'[r].op = "idle"
    BY <2>1, IdleRow DEF Ends, Moves
  <2>8. ASSUME NEW q \in Requests
        PROVE  MarkKept(q)' /\ SendKept(q)'
    <3>1. CASE q = r
      BY <2>7, <3>1 DEF MarkKept, SendKept
    <3>2. CASE q # r
      <4>1. Kept(q) /\ MarkKept(q) /\ SendKept(q)
        BY <1>2, <3>2 DEF CodeInv
      <4>2. request[q].op = "markUsed" => request[q].code \in DOMAIN code
        BY DEF Typed, CodesKnown
      <4>3. MarkKept(q)'
        BY <2>4, <4>1, <4>2 DEF MarkKept, Kept
      <4>4. SendKept(q)'
        <5>1. CASE request[q].op = "send" /\ request[q].user = request[r].user
          BY <2>1, <3>2, <5>1 DEF Overtakes, SendKept
        <5>2. CASE request[q].user # request[r].user
          <6>1. ASSUME NEW j \in DOMAIN code', code'[j].user = request[q].user,
                       code'[j].purpose = request[q].aim, code'[j].usable
                PROVE  j \in Usable(request[q].user, request[q].aim)
            BY <2>4, <5>2, <6>1 DEF Usable
          <6> QED BY <4>1, <6>1 DEF SendKept, Kept, Usable
        <5> QED BY <4>1, <5>1, <5>2 DEF SendKept, Kept
      <4> QED BY <4>3, <4>4
    <3> QED BY <3>1, <3>2
  <2>9. SameCode'
    BY <1>2, <2>7, SameCodeStays
  <2> QED BY <2>5, <2>6, <2>8, <2>9 DEF CodeInv
<1>4. CASE MarkUsed(r)
  <2>1. request[r].op = "markUsed" /\ request[r].code \in DOMAIN code
    BY <1>4 DEF MarkUsed, Typed, CodesKnown
  <2>2. DOMAIN code' = DOMAIN code /\ Marks(r)
    BY <1>1, <1>4, <2>1, MarkedCode
  <2>3. Goes(r, Then[request[r].aim]) /\ Overtakes(r, request[r].user, {"codes"})
    BY <1>1, <1>4, CodeSteps
  <2>4. PICK i \in DOMAIN code : i = request[r].code
    BY <2>1
  <2>5. /\ code'[i].uses = code[i].uses + 1 /\ ~code'[i].usable
        /\ code'[i].late = (code[i].late \/ "codes" \in request[r].overtaken)
        /\ \A j \in DOMAIN code \ {i} : code'[j] = code[j]
    BY <2>2, <2>4 DEF Marks
  <2>6. request'[r].op \notin {"send", "markUsed"}
    BY <1>1, <2>1, <2>3 DEF Goes, RequestsFit, Fits, Then, Purposes
  <2>7. CodesAreOnce'
    <3>1. "codes" \in request[r].overtaken \/ code[i].uses = 0
      BY <2>1, <2>4 DEF CodeInv, MarkKept
    <3>2. \A j \in DOMAIN code : code[j].uses <= 1 \/ code[j].late
      BY DEF CodeInv, CodesAreOnce
    <3>3. code'[i].uses <= 1 \/ code'[i].late
      <4>1. CASE "codes" \in request[r].overtaken
        BY <2>5, <4>1, Zenon
      <4>2. CASE code[i].uses = 0
        <5>1. code'[i].uses = code[i].uses + 1
          BY <2>5
        <5> QED BY <4>2, <5>1
      <4> QED BY <3>1, <4>1, <4>2
    <3>4. \A j \in DOMAIN code : code'[j].uses <= 1 \/ code'[j].late
      BY <2>5, <3>2, <3>3
    <3>5. ASSUME NEW j \in DOMAIN code', NEW k \in DOMAIN code', j < k, code'[j].usable,
                 code'[k].usable, code'[j].user = code'[k].user,
                 code'[j].purpose = code'[k].purpose
          PROVE  code'[j].late \/ code'[k].late
      <4>1. j # i /\ k # i
        BY <2>5, <3>5
      <4>2. code'[j] = code[j] /\ code'[k] = code[k] /\ j \in DOMAIN code /\ k \in DOMAIN code
        BY <2>2, <2>5, <4>1
      <4> QED BY <3>5, <4>2 DEF CodeInv, CodesAreOnce
    <3> QED BY <2>2, <3>4, <3>5 DEF CodesAreOnce
  <2>8. UsableUnused'
    BY <2>2, <2>5 DEF CodeInv, UsableUnused
  <2>9. ASSUME NEW q \in Requests
        PROVE  MarkKept(q)' /\ SendKept(q)'
    <3>1. CASE q = r
      BY <2>6, <3>1 DEF MarkKept, SendKept
    <3>2. CASE q # r
      <4>1. Kept(q) /\ MarkKept(q) /\ SendKept(q)
        BY <1>2, <3>2 DEF CodeInv
      <4>2. request[q].op = "markUsed" => request[q].code \in DOMAIN code
        BY DEF Typed, CodesKnown
      <4>3. MarkKept(q)'
        <5>1. CASE request[q].op = "markUsed" /\ request[q].code = i
          <6>1. request[q].user = request[r].user
            BY <2>1, <2>4, <5>1 DEF CodeInv, SameCode
          <6>2. "codes" \in request'[q].overtaken
            BY <2>3, <3>2, <5>1, <6>1 DEF Overtakes
          <6> QED BY <2>5, <4>1, <5>1, <6>2 DEF MarkKept, Kept
        <5>2. CASE request[q].op = "markUsed" /\ request[q].code # i
          BY <2>5, <4>1, <4>2, <5>2 DEF MarkKept, Kept
        <5> QED BY <4>1, <5>1, <5>2 DEF MarkKept, Kept
      <4>4. SendKept(q)'
        <5>1. ASSUME NEW j \in DOMAIN code', code'[j].user = request[q].user,
                     code'[j].purpose = request[q].aim, code'[j].usable
              PROVE  j \in Usable(request[q].user, request[q].aim)
          BY <2>2, <2>5, <5>1 DEF Usable
        <5> QED BY <4>1, <5>1 DEF SendKept, Kept, Usable
      <4> QED BY <4>3, <4>4
    <3> QED BY <3>1, <3>2
  <2>10. SameCode'
    BY <1>2, <2>6, SameCodeStays
  <2> QED BY <2>7, <2>8, <2>9, <2>10 DEF CodeInv
<1>5. CASE Invalidate(r)
  <2>1. /\ request[r].op = "invalidate"
        /\ code' = Spent(request[r].user, {request[r].aim})
    BY <1>5 DEF Invalidate
  <2>2. Goes(r, "send")
    BY <1>1, <1>5, CodeSteps
  <2>3. /\ CodesFade
        /\ \A j \in DOMAIN code :
             code[j].user = request[r].user /\ code[j].purpose = request[r].aim => ~code'[j].usable
    BY <1>1, <2>1, SpentCodes DEF CodesFade
  <2>4. /\ CodesAreOnce' /\ UsableUnused'
        /\ \A q \in Requests \ {r} : MarkKept(q)' /\ SendKept(q)'
    BY <1>2, <2>3, FadeKeeps
  <2>5. ASSUME NEW j \in DOMAIN code', code'[j].user = request[r].user,
               code'[j].purpose = request[r].aim, code'[j].usable
        PROVE  FALSE
    BY <2>3, <2>5 DEF CodesFade, CodeKept
  <2>6. MarkKept(r)' /\ SendKept(r)'
    BY <2>2, <2>5 DEF MarkKept, SendKept, Goes, Usable
  <2>7. SameCode'
    BY <1>2, <2>2, SameCodeStays DEF Goes
  <2> QED BY <2>4, <2>6, <2>7 DEF CodeInv
<1>6. CASE \E i \in DOMAIN code : ReadCode(r, i)
  <2>1. PICK i \in DOMAIN code : ReadCode(r, i)
    BY <1>6
  <2>2. Reads(r, i) /\ Fits(request[r]) /\ request[r].op = "readCode"
    <3>1. DOMAIN code \subseteq Nat
      BY <1>1 DEF CodesFit
    <3>2. Reads(r, i)
      BY <1>1, <2>1, <3>1, ReadSteps
    <3> QED BY <1>1, <2>1, <3>2 DEF RequestsFit, ReadCode
  <2>3. i \in Usable(request[r].user, "EMAIL_CHANGE") /\ UNCHANGED code
    BY <2>1 DEF ReadCode, Newest
  <2>4. /\ request'[r].op = "markUsed"
        /\ request'[r].code \in Usable(request'[r].user, request'[r].aim)
    BY <2>2, <2>3 DEF Reads, Fits
  <2> QED BY <1>2, <2>3, <2>4, FindsCode
<1>7. CASE Starts(r)
  <2>1. Founded(request'[r]) /\ UNCHANGED code
    BY <1>1, <1>7, StartsMoves DEF Starts
  <2>2. CASE request'[r].op = "markUsed"
    <3>1. request'[r].code \in Usable(request'[r].user, request'[r].aim)
      BY <2>1, <2>2 DEF Founded
    <3> QED BY <1>2, <2>1, <2>2, <3>1, FindsCode
  <2>3. CASE request'[r].op # "markUsed"
    <3>1. CodesFade
      BY <2>1 DEF CodesFade, CodeKept
    <3>2. MarkKept(r)' /\ SendKept(r)'
      BY <2>1, <2>3 DEF Founded, MarkKept, SendKept
    <3>3. /\ CodesAreOnce' /\ UsableUnused'
          /\ \A q \in Requests \ {r} : MarkKept(q)' /\ SendKept(q)'
      BY <1>2, <3>1, FadeKeeps
    <3>4. SameCode'
      BY <1>2, <2>3, SameCodeStays
    <3> QED BY <3>2, <3>3, <3>4 DEF CodeInv
  <2> QED BY <2>2, <2>3
<1>8. CASE /\ ~CreateCode(r) /\ ~MarkUsed(r) /\ ~Invalidate(r) /\ ~Starts(r)
           /\ ~\E i \in DOMAIN code : ReadCode(r, i)
  <2>1. CodesFade
    BY <1>8, CodeStep
  <2>2. request'[r].op \notin {"send", "markUsed"}
    BY <1>8, CodeHandlers
  <2>3. /\ CodesAreOnce' /\ UsableUnused'
        /\ \A q \in Requests \ {r} : MarkKept(q)' /\ SendKept(q)'
    BY <1>2, <2>1, FadeKeeps
  <2>4. MarkKept(r)' /\ SendKept(r)'
    BY <2>2 DEF MarkKept, SendKept
  <2>5. SameCode'
    BY <1>2, <2>2, SameCodeStays
  <2> QED BY <2>3, <2>4, <2>5 DEF CodeInv
<1> QED BY <1>3, <1>4, <1>5, <1>6, <1>7, <1>8

\* What expires makes no code usable and touches nothing else.
LEMMA ExpiryFades ==
    ASSUME Typed, \/ \E i \in DOMAIN token : ExpireToken(i)
                  \/ \E i \in DOMAIN code : CodeExpires(i)
    PROVE  CodesFade /\ UNCHANGED <<request, account, trail, unsure, unproven, undone>>
<1>1. CASE \E i \in DOMAIN token : ExpireToken(i)
  BY <1>1 DEF ExpireToken, users, CodesFade, CodeKept
<1>2. CASE \E i \in DOMAIN code : CodeExpires(i)
  BY <1>2, ExpiredCode DEF Typed, CodeExpires, ExpireCode, users, CodesFade
<1> QED BY <1>1, <1>2

\* A code is used once, and of the codes sent to a user for one purpose one is
\* usable, but for those that requests marked or created after others had
\* written the codes they had read.
THEOREM CodesAreOnceCorrect == Spec => []CodesAreOnce
<1>1. Init => CodeInv
  <2>1. ASSUME Init
        PROVE  CodeInv
    <3>1. \A r \in Requests : request[r].op = "idle"
      BY <2>1, IdleRow DEF Init
    <3>2. DOMAIN code = {}
      BY <2>1 DEF Init
    <3> QED BY <3>1, <3>2
            DEF CodeInv, CodesAreOnce, UsableUnused, SameCode, MarkKept, SendKept
  <2> QED BY <2>1
<1>2. Typed /\ CodeInv /\ [Next]_vars => CodeInv'
  <2>1. ASSUME Typed, CodeInv, Next
        PROVE  CodeInv'
    <3>1. CASE \E r \in Requests : StepOf(r)
      BY <2>1, <3>1, StepCode
    <3>2. CASE \/ \E i \in DOMAIN token : ExpireToken(i)
               \/ \E i \in DOMAIN code : CodeExpires(i)
      <4>1. CodesFade /\ UNCHANGED request
        BY <2>1, <3>2, ExpiryFades
      <4>2. \A q \in Requests : Kept(q)
        BY <4>1 DEF Kept
      <4>3. SameCode'
        BY <2>1, <4>1 DEF CodeInv, SameCode
      <4> QED BY <2>1, <4>1, <4>2, <4>3, FadeKeeps DEF CodeInv
    <3> QED BY <2>1, <3>1, <3>2, NextSteps
  <2>2. ASSUME CodeInv, UNCHANGED vars
        PROVE  CodeInv'
    <3>1. UNCHANGED <<code, request>>
      BY <2>2 DEF vars
    <3> QED BY <2>2, <3>1
            DEF CodeInv, CodesAreOnce, UsableUnused, SameCode, MarkKept, SendKept, Usable
  <2> QED BY <2>1, <2>2
<1>3. CodeInv => CodesAreOnce
  BY DEF CodeInv
<1> QED BY <1>1, <1>2, <1>3, TypedCorrect, PTL DEF Spec


-----------------------------------------------------------------------------
(* Proofs of addresses.                                                    *)

\* Users whose codes for earlier pending addresses are still to be spent.
OldCodes ==
    {u \in Users :
        \/ <<u, "invalidate">> \in undone
        \/ \E q \in Requests : /\ request[q].op = "invalidate" /\ request[q].user = u
                               /\ request[q].aim = "EMAIL_CHANGE"}

\* A code that can confirm an address was sent to the one that is pending.
CodeProves(i) ==
    code[i].usable /\ code[i].purpose = "EMAIL_CHANGE" =>
        \/ code[i].late
        \/ account[code[i].user].pending \in {None, code[i].address}
        \/ code[i].user \in OldCodes

\* The pending address a handler has read still is, or it was overtaken.
PendingKept(r) ==
    FollowsPending(request[r]) =>
        \/ "addresses" \in request[r].overtaken
        \/ account[request[r].user].pending = request[r].address

\* A handler that confirms an address without proof was overtaken.
ProofKept(r) ==
    Confirms(request[r]) /\ ~request[r].proven =>
        \/ Late(r, {"user", "addresses", "codes"})
        \/ request[r].user \in OldCodes

EmailInv ==
    /\ EmailIsProven
    /\ \A i \in DOMAIN code : CodeProves(i)
    /\ \A r \in Requests : PendingKept(r) /\ ProofKept(r)

\* The pending address of the user is cleared, or it is the one the handler
\* goes on to send a code to; who has read another is overtaken.
PendingMoves(r) ==
    /\ request[r].user \in Users
    /\ \A v \in Users \ {request[r].user} : account'[v].pending = account[v].pending
    /\ \A q \in Requests \ {r} : request[q].op # "idle" => "addresses" \in request'[q].overtaken
    /\ \/ account'[request[r].user].pending = None /\ Ends(r)
       \/ /\ account'[request[r].user].pending = request[r].address
          /\ Sends(r, "EMAIL_CHANGE", request[r].address)

PendingStays == \A v \in Users : account'[v].pending = account[v].pending

\* A pending address is left alone, or its own request moves it.
LEMMA PendingStep ==
    ASSUME Typed, NEW r \in Requests, StepOf(r)
    PROVE  PendingStays \/ PendingMoves(r)
<1> USE DEF Typed
<1>0. request[r].op # "idle" => request[r].user \in Users
  BY DEF RequestsFit, Fits
<1>1. ASSUME UNCHANGED account
      PROVE  PendingStays
  BY <1>1 DEF PendingStays
<1>2. ASSUME NEW u \in Users, OthersKept(u), account'[u].pending = account[u].pending
      PROVE  PendingStays
  BY <1>2 DEF PendingStays, OthersKept
<1>3. CASE Starts(r)
  BY <1>1, <1>3 DEF Starts, users
<1>4. CASE IssueRevokes(r) \/ IssueCreates(r) \/ \E i \in DOMAIN token : Logout(r, i)
  BY <1>1, <1>4 DEF IssueRevokes, IssueCreates, Logout, users
<1>5. CASE EndSessions(r) \/ SendsOrUsesCode(r)
  BY <1>1, <1>5 DEF EndSessions, SendsOrUsesCode, users
<1>6. CASE SetPassword(r) \/ SetVerified(r) \/ WriteRequest(r) \/ Upgrade(r)
  <2>1. request[r].user \in Users
    BY <1>0, <1>6 DEF SetPassword, SetVerified, WriteRequest, Upgrade
  <2>2. OthersKept(request[r].user) /\ SameAddresses(request[r].user)
    BY <1>6, <2>1, AccountSteps
  <2> QED BY <1>2, <2>1, <2>2 DEF SameAddresses
<1>7. CASE CreateUser(r)
  <2>1. /\ request[r].user \in Users /\ OthersKept(request[r].user)
        /\ account'[request[r].user].pending = None
    BY <1>7, CreatedAccount
  <2>2. account[request[r].user] = Unregistered
    BY <1>7, <2>1 DEF CreateUser, AccountsInv
  <2> QED BY <1>2, <2>1, <2>2, UnregisteredRow
<1>8. CASE WriteProfile(r)
  <2>1. /\ request[r].user \in Users /\ OthersKept(request[r].user)
        /\ account'[request[r].user].pending =
             IF "pending" \in request[r].writes THEN request[r].address
                                                ELSE account[request[r].user].pending
    BY <1>8, ProfileAccount
  <2>2. CASE "pending" \notin request[r].writes
    BY <1>2, <2>1, <2>2
  <2>3. CASE "pending" \in request[r].writes
    <3>1. request[r].address \in Addresses
      BY <1>8, <2>3 DEF WriteProfile, RequestsFit, Fits, Claims
    <3>2. /\ Overtakes(r, request[r].user, Touched(request[r]))
          /\ Sends(r, "EMAIL_CHANGE", request[r].address)
      BY <1>8, <3>1, ProfileSteps, AddressAssumption
    <3> QED BY <2>1, <2>3, <3>2 DEF PendingMoves, OthersKept, Overtakes, Touched
  <2> QED BY <2>2, <2>3
<1>9. CASE SetEmail(r)
  <2>1. /\ request[r].user \in Users /\ OthersKept(request[r].user)
        /\ account'[request[r].user].pending = None
    BY <1>9, ConfirmedAccount
  <2>2. Ends(r) /\ Overtakes(r, request[r].user, {"addresses", "tokens"})
    BY <1>9, ProfileSteps
  <2> QED BY <2>1, <2>2 DEF PendingMoves, OthersKept, Overtakes
<1>10. CASE WriteClosed(r)
  <2>1. request[r].user \in Users
    BY <1>0, <1>10 DEF WriteClosed
  <2>2. OthersKept(request[r].user) /\ account'[request[r].user].pending = None
    BY <1>10, <2>1, AccountSteps
  <2>3. Ends(r) /\ Overtakes(r, request[r].user, Tables)
    BY <1>10, ProfileSteps
  <2> QED BY <2>1, <2>2, <2>3 DEF PendingMoves, OthersKept, Overtakes, Tables
<1>11. CASE WriteDecision(r)
  <2>1. /\ request[r].user \in Users /\ OthersKept(request[r].user)
        /\ SameAddresses(request[r].user)
    BY <1>11, DecidedAccount
  <2> QED BY <1>2, <2>1 DEF SameAddresses
<1>12. CASE WriteAudit(r) \/ Refused(r) \/ Dies(r) \/ \E i \in DOMAIN code : ReadCode(r, i)
  BY <1>1, <1>12 DEF WriteAudit, Refused, Dies, ReadCode, users
<1> QED BY <1>3, <1>4, <1>5, <1>6, <1>7, <1>8, <1>9, <1>10, <1>11, <1>12 DEF StepOf

\* The codes of a user are spent by the handler that stored the new address.
SpendsOld(r) == Invalidate(r) /\ request[r].aim = "EMAIL_CHANGE"

\* What the handler at these steps does, if it does not die.
LEMMA SpendsStep ==
    ASSUME Typed, NEW r \in Requests, StepOf(r), SpendsOld(r)
    PROVE  undone' = undone \ {<<request[r].user, "invalidate">>}
<1>1. request[r].op = "invalidate" /\ Goes(r, "send")
  BY CodeSteps DEF SpendsOld, Invalidate, Typed
<1>2. ~Dies(r)
  BY <1>1, DecisionSteps, IdleRow DEF Quits, Goes, Typed
<1>3. SendsOrUsesCode(r)
  BY <1>1, <1>2 DEF StepOf, Starts, Start, Idle, IssueRevokes, IssueCreates, Logout,
     SetPassword, EndSessions, SetVerified, CreateUser, Upgrade, WriteProfile, SetEmail,
     WriteClosed, ReadCode, WriteRequest, WriteDecision, WriteAudit, Refused
<1> QED BY <1>1, <1>3 DEF SpendsOld, SendsOrUsesCode

\* A change of address goes on to send its code.
LEMMA ProfileSends ==
    ASSUME Typed, NEW r \in Requests, StepOf(r), request[r].op = "updateProfile",
           request'[r].op # "idle"
    PROVE  WriteProfile(r) /\ request[r].address # None
<1>1. ~Dies(r) /\ ~Refused(r)
  BY DecisionSteps, IdleRow DEF Quits, Typed
<1>2. WriteProfile(r)
  BY <1>1 DEF StepOf, Starts, Start, Idle, IssueRevokes, IssueCreates, Logout,
     SetPassword, EndSessions, SendsOrUsesCode, Invalidate, CreateCode, MarkUsed, SetVerified,
     CreateUser, Upgrade, SetEmail, WriteClosed, ReadCode, WriteRequest, WriteDecision, WriteAudit
<1>3. request[r].address # None
  <2>1. ASSUME request[r].address = None
        PROVE  Ends(r)
    <3>1. Writes(r, Idle, request[r].user, Touched(request[r]))
      BY <1>2, <2>1 DEF WriteProfile, Touched
    <3>2. Touched(request[r]) \in SUBSET Tables
      BY DEF Touched, Tables
    <3> QED BY <3>1, <3>2, WritesEnds DEF Typed
  <2> QED BY <2>1, IdleRow DEF Ends, Moves
<1> QED BY <1>2, <1>3

\* A step left out stays left out until codes are spent.
LEMMA OldUndone ==
    ASSUME Typed, NEW r \in Requests, StepOf(r), ~SpendsOld(r), NEW u,
           <<u, "invalidate">> \in undone
    PROVE  <<u, "invalidate">> \in undone'
<1>1. CASE Starts(r)
  BY <1>1 DEF Starts
<1>2. CASE IssueRevokes(r) \/ IssueCreates(r) \/ \E i \in DOMAIN token : Logout(r, i)
  BY <1>2 DEF IssueRevokes, IssueCreates, Logout
<1>3. CASE SetPassword(r) \/ EndSessions(r) \/ SetVerified(r)
  BY <1>3 DEF SetPassword, EndSessions, SetVerified
<1>4. CASE SendsOrUsesCode(r)
  <2>1. request[r].op = "invalidate" => Invalidate(r)
    BY <1>4 DEF SendsOrUsesCode, CreateCode, MarkUsed
  <2> QED BY <1>4, <2>1 DEF SendsOrUsesCode, SpendsOld
<1>5. CASE CreateUser(r) \/ Upgrade(r) \/ WriteProfile(r) \/ SetEmail(r) \/ WriteClosed(r)
  BY <1>5 DEF CreateUser, Upgrade, WriteProfile, SetEmail, WriteClosed
<1>6. CASE \E i \in DOMAIN code : ReadCode(r, i)
  BY <1>6 DEF ReadCode
<1>7. CASE WriteRequest(r) \/ WriteDecision(r) \/ WriteAudit(r) \/ Refused(r)
  BY <1>7 DEF WriteRequest, WriteDecision, WriteAudit, Refused
<1>8. CASE Dies(r)
  BY <1>8 DEF Dies, LeavesUndone
<1> QED BY <1>1, <1>2, <1>3, <1>4, <1>5, <1>6, <1>7, <1>8 DEF StepOf

\* Users whose old codes are still to be spent stay so until they are.
LEMMA OldCodesStay ==
    ASSUME Typed, NEW r \in Requests, StepOf(r), ~SpendsOld(r)
    PROVE  OldCodes \subseteq OldCodes'
<1>0. RequestsFit /\ Progress(r)
  BY StepProgress DEF Typed
<1>1. \A q \in Requests \ {r} : Kept(q)
  BY <1>0, OthersMove
<1>2. ASSUME NEW u \in OldCodes
      PROVE  u \in OldCodes'
  <2>1. CASE <<u, "invalidate">> \in undone
    BY <1>2, <2>1, OldUndone DEF OldCodes
  <2>2. ASSUME NEW q \in Requests, request[q].op = "invalidate", request[q].user = u,
               request[q].aim = "EMAIL_CHANGE"
        PROVE  u \in OldCodes'
    <3>1. CASE q # r
      BY <1>1, <1>2, <2>2, <3>1 DEF Kept, OldCodes
    <3>2. CASE q = r
      <4>1. Dies(r)
        BY <2>2, <3>2, InvalidateStep DEF SpendsOld
      <4>2. <<u, "invalidate">> \in undone'
        BY <2>2, <3>2, <4>1 DEF Dies, LeavesUndone
      <4> QED BY <1>2, <4>2 DEF OldCodes
    <3> QED BY <3>1, <3>2
  <2> QED BY <1>2, <2>1, <2>2 DEF OldCodes
<1> QED BY <1>2


\* Only one step makes a code usable.
CodesNotNew ==
    \A i \in DOMAIN code' : code'[i].usable => i \in DOMAIN code /\ code'[i] = code[i]

\* No other step than the creation of a code makes one usable.
LEMMA CodesNotNewStep ==
    ASSUME Typed, NEW r \in Requests, StepOf(r), ~CreateCode(r)
    PROVE  CodesNotNew
<1>1. CASE MarkUsed(r)
  <2>1. request[r].code \in DOMAIN code
    BY <1>1 DEF MarkUsed, Typed, CodesKnown
  <2>2. DOMAIN code' = DOMAIN code /\ Marks(r)
    BY <1>1, <2>1, MarkedCode DEF Typed
  <2> QED BY <2>2 DEF CodesNotNew, Marks
<1>2. CASE ~MarkUsed(r)
  BY <1>2, CodeStep DEF CodesFade, CodeKept, CodesNotNew
<1> QED BY <1>1, <1>2

\* Where no code is new and the old codes stay, the codes prove what they did.
LEMMA CodesStillProve ==
    ASSUME CodesFit, CodesNotNew, \A i \in DOMAIN code : CodeProves(i),
           OldCodes \subseteq OldCodes',
           \A v \in Users : \/ account'[v].pending \in {account[v].pending, None}
                            \/ v \in OldCodes'
    PROVE  \A i \in DOMAIN code' : CodeProves(i)'
<1>1. ASSUME NEW i \in DOMAIN code', code'[i].usable, code'[i].purpose = "EMAIL_CHANGE"
      PROVE  \/ code'[i].late
             \/ account'[code'[i].user].pending \in {None, code'[i].address}
             \/ code'[i].user \in OldCodes'
  <2>1. i \in DOMAIN code /\ code'[i] = code[i]
    BY <1>1 DEF CodesNotNew
  <2>2. code[i].user \in Users
    BY <1>1, <2>1 DEF CodesFit
  <2>3. \/ code[i].late
        \/ account[code[i].user].pending \in {None, code[i].address}
        \/ code[i].user \in OldCodes
    BY <1>1, <2>1 DEF CodeProves
  <2> QED BY <2>1, <2>2, <2>3
<1> QED BY <1>1 DEF CodeProves

\* Every usable code proves the address it was sent to.
LEMMA StepCodesProve ==
    ASSUME Typed, NEW r \in Requests, StepOf(r), EmailInv
    PROVE  \A i \in DOMAIN code' : CodeProves(i)'
<1>1. CodesFit /\ RequestsFit /\ \A i \in DOMAIN code : CodeProves(i)
  BY DEF Typed, EmailInv
<1>2. PendingStays \/ PendingMoves(r)
  BY PendingStep
<1>3. CASE SpendsOld(r)
  <2>1. PICK u : u = request[r].user
    OBVIOUS
  <2>2. code' = Spent(u, {"EMAIL_CHANGE"}) /\ Goes(r, "send")
    BY <1>1, <1>3, <2>1, CodeSteps DEF SpendsOld, Invalidate
  <2>3. /\ DOMAIN code' = DOMAIN code
        /\ \A j \in DOMAIN code :
             /\ CodeKept(j)
             /\ code[j].user = u /\ code[j].purpose = "EMAIL_CHANGE" => ~code'[j].usable
    BY <1>1, <2>2, SpentCodes
  <2>4. PendingStays
    BY <1>2, <1>3, <2>2, IdleRow DEF PendingMoves, Goes, Sends, Ends, Moves
  <2>5. \A v \in OldCodes : v # u => v \in OldCodes'
    <3>1. undone' = undone \ {<<u, "invalidate">>}
      BY <1>3, <2>1, SpendsStep
    <3>2. \A q \in Requests \ {r} : Kept(q)
      BY <2>2 DEF Goes
    <3> QED BY <2>1, <3>1, <3>2 DEF OldCodes, Kept
  <2>6. ASSUME NEW i \in DOMAIN code', code'[i].usable, code'[i].purpose = "EMAIL_CHANGE"
        PROVE  \/ code'[i].late
               \/ account'[code'[i].user].pending \in {None, code'[i].address}
               \/ code'[i].user \in OldCodes'
    <3>1. i \in DOMAIN code /\ code'[i] = code[i] /\ code[i].user # u
      BY <2>3, <2>6 DEF CodeKept
    <3>2. code[i].user \in Users
      BY <1>1, <2>6, <3>1 DEF CodesFit
    <3>3. \/ code[i].late
          \/ account[code[i].user].pending \in {None, code[i].address}
          \/ code[i].user \in OldCodes
      BY <1>1, <2>6, <3>1 DEF CodeProves
    <3> QED BY <2>4, <2>5, <3>1, <3>2, <3>3 DEF PendingStays
  <2> QED BY <2>6 DEF CodeProves
<1>4. CASE ~SpendsOld(r) /\ ~CreateCode(r)
  <2>1. CodesNotNew /\ OldCodes \subseteq OldCodes'
    BY <1>4, CodesNotNewStep, OldCodesStay
  <2>2. \A v \in Users : \/ account'[v].pending \in {account[v].pending, None}
                         \/ v \in OldCodes'
    BY <1>2 DEF PendingStays, PendingMoves, Sends, OldCodes
  <2> QED BY <1>1, <2>1, <2>2, CodesStillProve
<1>5. CASE CreateCode(r)
  <2>1. Adds(r) /\ Ends(r) /\ request[r].op = "send"
    BY <1>1, <1>5, AddedCode, CodeSteps DEF CreateCode
  <2>2. OldCodes \subseteq OldCodes' /\ PendingStays
    <3>1. ~SpendsOld(r)
      BY <2>1 DEF SpendsOld, Invalidate
    <3>2. UNCHANGED account
      BY <1>5, <2>1 DEF StepOf, Starts, Start, Idle, IssueRevokes, IssueCreates, Logout,
         SetPassword, EndSessions, SendsOrUsesCode, SetVerified, CreateUser, Upgrade,
         WriteProfile, SetEmail, WriteClosed, ReadCode, WriteRequest, WriteDecision, WriteAudit,
         Refused, Dies, users
    <3> QED BY <3>1, <3>2, OldCodesStay DEF PendingStays
  <2>3. PICK k : k = Len(code) + 1
    OBVIOUS
  <2>4. /\ DOMAIN code' = DOMAIN code \cup {k}
        /\ \A j \in DOMAIN code : code'[j] = code[j]
        /\ code'[k].user = request[r].user /\ code'[k].purpose = request[r].aim
        /\ code'[k].address = request[r].address
        /\ "addresses" \in request[r].overtaken => code'[k].late
    BY <2>1, <2>3 DEF Adds
  <2>5. request[r].user \in Users /\ PendingKept(r)
    BY <1>1, <2>1 DEF RequestsFit, Fits, EmailInv
  <2>6. ASSUME NEW i \in DOMAIN code', code'[i].usable, code'[i].purpose = "EMAIL_CHANGE"
        PROVE  \/ code'[i].late
               \/ account'[code'[i].user].pending \in {None, code'[i].address}
               \/ code'[i].user \in OldCodes'
    <3>1. CASE i = k
      <4>1. \/ "addresses" \in request[r].overtaken
            \/ account[request[r].user].pending = request[r].address
        BY <2>1, <2>4, <2>5, <2>6, <3>1 DEF PendingKept, FollowsPending
      <4> QED BY <2>2, <2>4, <2>5, <3>1, <4>1 DEF PendingStays
    <3>2. CASE i \in DOMAIN code
      <4>1. code'[i] = code[i]
        BY <2>4, <3>2
      <4>2. code[i].user \in Users
        BY <1>1, <2>6, <3>2, <4>1 DEF CodesFit
      <4>3. \/ code[i].late
            \/ account[code[i].user].pending \in {None, code[i].address}
            \/ code[i].user \in OldCodes
        BY <1>1, <2>6, <3>2, <4>1 DEF CodeProves
      <4> QED BY <2>2, <4>1, <4>2, <4>3 DEF PendingStays
    <3> QED BY <2>4, <3>1, <3>2
  <2> QED BY <2>6 DEF CodeProves
<1> QED BY <1>3, <1>4, <1>5


\* An unproven address is written by a handler that was overtaken.
LEMMA StepProven ==
    ASSUME Typed, NEW r \in Requests, StepOf(r), EmailInv
    PROVE  EmailIsProven'
<1>1. EmailIsProven /\ RowsFit /\ RequestsFit
  BY DEF EmailInv, Typed
<1>2. CASE SetEmail(r)
  <2>1. request[r].op = "setEmail" /\ WritesAddress(r) /\ unproven' \subseteq
            (IF request[r].proven THEN unproven ELSE unproven \cup {request[r].user})
    BY <1>2 DEF SetEmail
  <2>2. CASE request[r].proven
    BY <1>1, <2>1, <2>2 DEF EmailIsProven, WritesAddress
  <2>3. CASE ~request[r].proven
    <3>1. \/ Late(r, {"user", "addresses", "codes"})
          \/ request[r].user \in OldCodes
      BY <2>1, <2>3 DEF EmailInv, ProofKept, Confirms
    <3>2. Overlapped(r)
      BY <2>1, <3>1 DEF Overlapped, OldCodes
    <3> QED BY <1>1, <2>1, <2>3, <3>2 DEF EmailIsProven, WritesAddress
  <2> QED BY <2>2, <2>3
<1>3. CASE ~SetEmail(r)
  <2>1. unproven' = unproven
    BY <1>3 DEF StepOf, Starts, IssueRevokes, IssueCreates, Logout, SetPassword, EndSessions,
       SendsOrUsesCode, SetVerified, CreateUser, Upgrade, WriteProfile, WriteClosed, ReadCode,
       WriteRequest, WriteDecision, WriteAudit, Refused, Dies, users
  <2>2. unsure \subseteq unsure'
    BY AddressStep DEF NoGain, Gains, WritesAddress
  <2> QED BY <1>1, <2>1, <2>2 DEF EmailIsProven
<1> QED BY <1>2, <1>3

\* The handlers that did not take the step.
LEMMA OthersProve ==
    ASSUME Typed, NEW r \in Requests, StepOf(r), EmailInv, NEW q \in Requests \ {r}
    PROVE  PendingKept(q)' /\ ProofKept(q)'
<1>1. RequestsFit /\ Progress(r)
  BY StepProgress DEF Typed
<1>2. Kept(q) /\ PendingKept(q) /\ ProofKept(q)
  BY <1>1, OthersMove DEF EmailInv
<1>3. request[q].op # "idle" => request[q].user \in Users
  BY <1>1 DEF RequestsFit, Fits
<1>4. PendingKept(q)'
  <2>1. FollowsPending(request'[q]) => FollowsPending(request[q]) /\ request[q].op # "idle"
    BY <1>2 DEF Kept, FollowsPending
  <2>2. FollowsPending(request[q]) =>
          \/ "addresses" \in request'[q].overtaken
          \/ account'[request[q].user].pending = request[q].address
    BY <1>2, <1>3, <2>1, PendingStep
       DEF PendingKept, Kept, FollowsPending, PendingStays, PendingMoves
  <2> QED BY <1>2, <2>1, <2>2 DEF PendingKept, Kept
<1>5. ProofKept(q)'
  <2>1. Confirms(request'[q]) => Confirms(request[q]) /\ request[q].op # "idle"
    BY <1>2 DEF Kept, Confirms
  <2>2. CASE ~SpendsOld(r)
    <3>1. OldCodes \subseteq OldCodes'
      BY <2>2, OldCodesStay
    <3> QED BY <1>2, <2>1, <3>1 DEF ProofKept, Kept, Late
  <2>3. CASE SpendsOld(r)
    <3>1. Overtakes(r, request[r].user, {"codes"}) /\ Goes(r, "send")
      BY <1>1, <2>3, CodeSteps DEF SpendsOld
    <3>2. CASE request[q].user = request[r].user
      BY <1>2, <2>1, <3>1, <3>2 DEF ProofKept, Kept, Late, Overtakes
    <3>3. CASE request[q].user # request[r].user
      <4>1. undone' = undone \ {<<request[r].user, "invalidate">>}
        BY <2>3, SpendsStep
      <4>2. request[q].user \in OldCodes => request[q].user \in OldCodes'
        BY <1>1, <3>1, <3>3, <4>1, OthersMove DEF OldCodes, Kept
      <4> QED BY <1>2, <2>1, <4>2 DEF ProofKept, Kept, Late
    <3> QED BY <3>2, <3>3
  <2> QED BY <2>2, <2>3
<1> QED BY <1>4, <1>5

\* The handler that took it.
LEMMA OwnProof ==
    ASSUME Typed, NEW r \in Requests, StepOf(r), EmailInv
    PROVE  PendingKept(r)' /\ ProofKept(r)'
<1>1. RequestsFit /\ Progress(r) /\ PendingKept(r) /\ ProofKept(r) /\ CodesFit
  BY StepProgress DEF Typed, EmailInv
<1>2. CASE Starts(r)
  <2>1. Founded(request'[r]) /\ UNCHANGED account
    BY <1>1, <1>2, StartsMoves DEF Starts, users
  <2> QED BY <2>1 DEF Founded, PendingKept, ProofKept, Confirms
<1>3. CASE Ends(r)
  BY <1>3, IdleRow DEF Ends, Moves, PendingKept, ProofKept
<1>4. CASE \E i \in DOMAIN code : request[r].op = "readCode" /\ ReadCode(r, i) /\ Reads(r, i)
  <2>1. PICK i \in DOMAIN code : request[r].op = "readCode" /\ ReadCode(r, i) /\ Reads(r, i)
    BY <1>4
  <2>2. /\ i \in Usable(request[r].user, "EMAIL_CHANGE") /\ UNCHANGED <<account, undone>>
        /\ request[r].address # None
    BY <1>1, <2>1, AddressAssumption
       DEF ReadCode, Newest, users, RequestsFit, Fits, Claims
  <2>3. \/ code[i].late \/ account[request[r].user].pending \in {None, code[i].address}
        \/ request[r].user \in OldCodes
    BY <2>2 DEF EmailInv, CodeProves, Usable
  <2>4. \/ "addresses" \in request[r].overtaken
        \/ account[request[r].user].pending = request[r].address
    BY <1>1, <2>1 DEF PendingKept, FollowsPending
  <2>5. OldCodes \subseteq OldCodes'
    <3>1. ~SpendsOld(r)
      BY <2>1 DEF SpendsOld, Invalidate
    <3> QED BY <3>1, OldCodesStay
  <2>6. ProofKept(r)'
    <3>1. ASSUME ~request'[r].proven
          PROVE  \/ Late(r, {"user", "addresses", "codes"})'
                 \/ request'[r].user \in OldCodes'
      <4>1. code[i].address # request[r].address
        BY <2>1, <3>1, Zenon DEF Reads
      <4> QED BY <2>1, <2>2, <2>3, <2>4, <2>5, <4>1 DEF Reads, Late
    <3> QED BY <3>1 DEF ProofKept
  <2>7. PendingKept(r)'
    BY <2>1 DEF Reads, PendingKept, FollowsPending
  <2> QED BY <2>6, <2>7
<1>5. CASE request[r].op = "invalidate" /\ Goes(r, "send")
  <2>1. PendingStays
    BY <1>5, PendingStep, IdleRow DEF PendingMoves, Goes, Sends, Ends, Moves
  <2>2. request[r].user \in Users
    BY <1>1, <1>5 DEF RequestsFit, Fits
  <2> QED BY <1>1, <1>5, <2>1, <2>2
          DEF Goes, PendingStays, PendingKept, ProofKept, FollowsPending, Confirms
<1>6. CASE request[r].op = "markUsed" /\ Goes(r, Then[request[r].aim])
  <2>1. /\ request'[r].op \in {"setVerified", "setPassword", "setEmail"}
        /\ request'[r].op = "setEmail" => request[r].aim = "EMAIL_CHANGE"
    BY <1>1, <1>6 DEF RequestsFit, Fits, Then, Purposes, Goes
  <2>2. OldCodes \subseteq OldCodes'
    <3>1. ~SpendsOld(r)
      BY <1>6 DEF SpendsOld, Invalidate
    <3> QED BY <3>1, OldCodesStay
  <2>3. ProofKept(r)'
    BY <1>1, <1>6, <2>1, <2>2 DEF Goes, ProofKept, Confirms, Late
  <2> QED BY <2>1, <2>3 DEF PendingKept, FollowsPending
<1>7. CASE /\ request[r].op = "updateProfile"
           /\ Sends(r, "EMAIL_CHANGE", request[r].address)
           /\ request'[r].overtaken = request[r].overtaken
  <2>0. request'[r].op # "idle"
    BY <1>7 DEF Sends
  <2>1. request[r].user \in Users /\ WriteProfile(r)
    BY <1>1, <1>7, <2>0, ProfileSends DEF RequestsFit, Fits
  <2>2. request[r].address # None
    BY <1>7, <2>0, ProfileSends
  <2>3. /\ account'[request[r].user].pending =
             IF "pending" \in request[r].writes THEN request[r].address
                                                ELSE account[request[r].user].pending
    BY <1>1, <2>1, ProfileAccount DEF Typed
  <2>4. "addresses" \in request[r].overtaken
           \/ account'[request[r].user].pending = request[r].address
    BY <1>1, <1>7, <2>2, <2>3 DEF PendingKept, FollowsPending
  <2> QED BY <1>7, <2>4 DEF Sends, PendingKept, ProofKept, Confirms
<1>8. CASE \/ request[r].op = "issue" /\ Goes(r, "create")
           \/ request[r].op = "setPassword" /\ Goes(r, "endSessions")
           \/ request[r].op = "decide" /\ Goes(r, "audit")
           \/ /\ request[r].op \in {"createUser", "upgrade"}
              /\ Sends(r, "VERIFICATION", request[r].address)
  BY <1>8 DEF Goes, Sends, PendingKept, ProofKept, FollowsPending, Confirms
<1> QED BY <1>1, <1>2, <1>3, <1>4, <1>5, <1>6, <1>7, <1>8 DEF Progress

\* Every step keeps a changed address one that was confirmed.
LEMMA StepEmail ==
    ASSUME Typed, NEW r \in Requests, StepOf(r), EmailInv
    PROVE  EmailInv'
BY StepProven, StepCodesProve, OthersProve, OwnProof DEF EmailInv


\* The address of an account is one where the user has read a code, but where
\* requests of the user overlapped or one died before it sent the code.
THEOREM EmailIsProvenCorrect == Spec => []EmailIsProven
<1>1. Init => EmailInv
  <2>1. ASSUME Init
        PROVE  EmailInv
    <3>1. \A r \in Requests : request[r] = Idle
      BY <2>1 DEF Init
    <3>2. \A r \in Requests : PendingKept(r) /\ ProofKept(r)
      BY <3>1, IdleRow DEF PendingKept, ProofKept
    <3>3. DOMAIN code = {} /\ EmailIsProven
      BY <2>1 DEF Init, EmailIsProven
    <3> QED BY <3>2, <3>3 DEF EmailInv
  <2> QED BY <2>1
<1>2. Typed /\ EmailInv /\ [Next]_vars => EmailInv'
  <2>1. ASSUME Typed, EmailInv, Next
        PROVE  EmailInv'
    <3>1. CASE \E r \in Requests : StepOf(r)
      BY <2>1, <3>1, StepEmail
    <3>2. CASE \/ \E i \in DOMAIN token : ExpireToken(i)
               \/ \E i \in DOMAIN code : CodeExpires(i)
      <4>1. CodesFade /\ UNCHANGED <<request, account, unsure, unproven, undone>>
        BY <2>1, <3>2, ExpiryFades
      <4>2. OldCodes' = OldCodes
        BY <4>1 DEF OldCodes
      <4>3. CodesNotNew
        BY <4>1 DEF CodesFade, CodeKept, CodesNotNew
      <4>4. \A i \in DOMAIN code' : CodeProves(i)'
        BY <2>1, <4>1, <4>2, <4>3, CodesStillProve DEF EmailInv, Typed
      <4>5. \A r \in Requests : PendingKept(r)' /\ ProofKept(r)'
        BY <2>1, <4>1, <4>2 DEF EmailInv, PendingKept, ProofKept, Late
      <4> QED BY <2>1, <4>1, <4>4, <4>5 DEF EmailInv, EmailIsProven
    <3> QED BY <2>1, <3>1, <3>2, NextSteps
  <2>2. ASSUME EmailInv, UNCHANGED vars
        PROVE  EmailInv'
    BY <2>2 DEF EmailInv, EmailIsProven, CodeProves, PendingKept, ProofKept, OldCodes, Late,
                vars, users
  <2> QED BY <2>1, <2>2
<1>3. EmailInv => EmailIsProven
  BY DEF EmailInv
<1> QED BY <1>1, <1>2, <1>3, TypedCorrect, PTL DEF Spec


-----------------------------------------------------------------------------
(* Sessions.                                                               *)

PasswordKnown(u, password) ==
    password = account[u].password \/ NewPasswordUnderWay(u)

\* A token that was not late is of a session that goes on.
TokenKept(i) ==
    token[i].live =>
        /\ token[i].session \in 1..Len(token)
        /\ ~token[i].late => /\ token[i].session \notin ended
                             /\ PasswordKnown(token[i].user, token[i].password)

\* Two live tokens: of those of a user one is late, of a session both are.
Together(i, j) ==
    token[i].live /\ token[j].live =>
        /\ token[i].user = token[j].user => i = j \/ token[i].late \/ token[j].late
        /\ token[i].session = token[j].session =>
             token[i].user = token[j].user /\ (i = j \/ token[i].late)

\* A handler that issues a token, and was not overtaken, continues a session
\* that goes on; where it has revoked the user's tokens there are none.
IssueKept(r) ==
    Issues(request[r]) =>
        /\ request[r].session \in 0..Len(token)
        /\ "tokens" \notin request[r].overtaken =>
             /\ request[r].session \notin ended
             /\ PasswordKnown(request[r].user, request[r].password)
             /\ request[r].op = "create" =>
                  \A i \in DOMAIN token : token[i].live => token[i].user # request[r].user

\* A token and a handler that issues the next one of its session.
Exchanged(i, r) ==
    token[i].live /\ Issues(request[r]) /\ token[i].session = request[r].session =>
        /\ token[i].user = request[r].user
        /\ request[r].op = "create" => token[i].late

\* Two handlers that issue tokens of one session.
Beside(q, r) ==
    Issues(request[q]) /\ Issues(request[r]) /\ request[q].session = request[r].session
            /\ request[r].session # 0 =>
        /\ request[q].user = request[r].user
        /\ q # r /\ request[r].op = "create" => "tokens" \in request[q].overtaken

TokenInv ==
    /\ ended \subseteq 1..Len(token)
    /\ \A i \in DOMAIN token : TokenKept(i)
    /\ \A i, j \in DOMAIN token : Together(i, j)
    /\ \A r \in Requests : IssueKept(r)
    /\ \A i \in DOMAIN token : \A r \in Requests : Exchanged(i, r)
    /\ \A q, r \in Requests : Beside(q, r)

\* The invariant is the property.
LEMMA TokenInvTells ==
    ASSUME TokenInv
    PROVE  SessionsEnd
<1> SUFFICES ASSUME NEW i \in DOMAIN token, token[i].live, ~token[i].late
             PROVE  /\ \A j \in Live(token[i].user) : j = i \/ token[j].late
                    /\ token[i].session \notin ended
                    /\ \/ token[i].password = account[token[i].user].password
                       \/ NewPasswordUnderWay(token[i].user)
  BY DEF SessionsEnd
<1>1. TokenKept(i) /\ \A j \in DOMAIN token : Together(i, j)
  BY DEF TokenInv
<1>2. \A j \in Live(token[i].user) : j = i \/ token[j].late
  BY <1>1 DEF Live, Together
<1> QED BY <1>1, <1>2 DEF TokenKept, PasswordKnown

\* No token is new.
TokensNotNew ==
    /\ Len(token') = Len(token) /\ DOMAIN token' = DOMAIN token
    /\ \A i \in DOMAIN token : token'[i].live => token'[i] = token[i]

\* A session ends with a token of it, and handlers of its user are overtaken.
Overtaken(u) ==
    \A q \in Requests :
        Issues(request'[q]) /\ request'[q].user = u => "tokens" \in request'[q].overtaken

EndsSeen ==
    \A s \in ended' \ ended : \E i \in DOMAIN token :
        /\ token[i].live /\ ~token'[i].live /\ token[i].session = s
        /\ \A q \in Requests :
             Issues(request'[q]) /\ request'[q].user = token[i].user =>
                 "tokens" \in request'[q].overtaken \/ request'[q].session # s

\* What was a known password of a user is one, or the user has no tokens.
PasswordSeen ==
    \A u \in Users :
        \/ \A p : PasswordKnown(u, p) => PasswordKnown(u, p)'
        \/ /\ \A i \in DOMAIN token : token'[i].live => token[i].user # u
           /\ Overtaken(u)

\* Where no token is new, no end goes unseen and no password is forgotten, every token stays right.
LEMMA TokensFade ==
    ASSUME Typed, TokenInv, TokensNotNew, EndsSeen, PasswordSeen
    PROVE  /\ ended' \subseteq 1..Len(token')
           /\ \A i \in DOMAIN token' : TokenKept(i)'
           /\ \A i, j \in DOMAIN token' : Together(i, j)'
           /\ \A q \in Requests : Kept(q) =>
                IssueKept(q)' /\ \A i \in DOMAIN token' : Exchanged(i, q)'
           /\ \A p, q \in Requests : Kept(p) /\ Kept(q) => Beside(p, q)'
<1> USE DEF TokensNotNew
<1>0. TokensFit /\ RequestsFit
  BY DEF Typed
<1>1. ended' \subseteq 1..Len(token')
  <2>1. ASSUME NEW s \in ended' \ ended
        PROVE  s \in 1..Len(token)
    <3>1. PICK i \in DOMAIN token : token[i].live /\ token[i].session = s
      BY <2>1 DEF EndsSeen
    <3>2. TokenKept(i)
      BY DEF TokenInv
    <3> QED BY <3>1, <3>2 DEF TokenKept
  <2>2. ended \subseteq 1..Len(token)
    BY DEF TokenInv
  <2> QED BY <2>1, <2>2
<1>2. ASSUME NEW i \in DOMAIN token'
      PROVE  TokenKept(i)'
  <2>0. CASE ~token'[i].live
    BY <2>0 DEF TokenKept
  <2> SUFFICES ASSUME token'[i].live
               PROVE  TokenKept(i)'
    BY <2>0
  <2>1. token'[i] = token[i] /\ token[i].user \in Users /\ TokenKept(i)
    BY <1>0 DEF TokensFit, TokenInv
  <2>2. ~token[i].late => token[i].session \notin ended'
    BY <2>1 DEF TokenInv, Together, EndsSeen, TokenKept
  <2>3. PICK u, p : u = token[i].user /\ p = token[i].password
    OBVIOUS
  <2>4. ~token[i].late => PasswordKnown(u, p)'
    BY <2>1, <2>3 DEF PasswordSeen, TokenKept
  <2> QED BY <2>1, <2>2, <2>3, <2>4 DEF TokenKept, PasswordKnown, NewPasswordUnderWay
<1>3. ASSUME NEW i \in DOMAIN token', NEW j \in DOMAIN token'
      PROVE  Together(i, j)'
  BY DEF Together, TokenInv
<1>4. ASSUME NEW q \in Requests, Kept(q)
      PROVE  IssueKept(q)'
  <2>1. CASE Issues(request'[q]) /\ "tokens" \notin request'[q].overtaken
    <3>1. Issues(request[q]) /\ "tokens" \notin request[q].overtaken /\ request[q].user \in Users
      BY <1>0, <1>4, <2>1 DEF Kept, Issues, RequestsFit, Fits
    <3>2. IssueKept(q)
      BY DEF TokenInv
    <3>3. request[q].session \notin ended'
      BY <1>4, <2>1, <3>1, <3>2 DEF TokenInv, EndsSeen, Exchanged, Kept, IssueKept
    <3>4. PICK u, p : u = request[q].user /\ p = request[q].password
      OBVIOUS
    <3>5. PasswordKnown(u, p)'
      BY <1>4, <2>1, <3>1, <3>2, <3>4 DEF PasswordSeen, IssueKept, Kept, Overtaken
    <3>6. request'[q].op = "create" =>
            \A i \in DOMAIN token' : token'[i].live => token'[i].user # request'[q].user
      BY <1>4, <3>1, <3>2 DEF IssueKept, Kept
    <3> QED BY <1>4, <3>1, <3>2, <3>3, <3>4, <3>5, <3>6
            DEF IssueKept, Kept, PasswordKnown, NewPasswordUnderWay
  <2>2. CASE Issues(request'[q]) /\ "tokens" \in request'[q].overtaken
    BY <1>4, <2>2 DEF IssueKept, Kept, Issues, TokenInv
  <2> QED BY <2>1, <2>2 DEF IssueKept
<1>5. ASSUME NEW q \in Requests, Kept(q), NEW i \in DOMAIN token'
      PROVE  Exchanged(i, q)'
  BY <1>5 DEF Exchanged, TokenInv, Kept, Issues
<1>6. ASSUME NEW p \in Requests, NEW q \in Requests, Kept(p), Kept(q)
      PROVE  Beside(p, q)'
  <2>1. Beside(p, q)
    BY DEF TokenInv
  <2> QED BY <1>6, <2>1 DEF Beside, Kept, Issues
<1> QED BY <1>1, <1>2, <1>3, <1>4, <1>5, <1>6


\* The steps that revoke the user's tokens for good.
Revokes(r) ==
    \/ EndSessions(r) \/ SetEmail(r) \/ WriteClosed(r)
    \/ WriteProfile(r) /\ "password" \in request[r].writes

\* A revocation left out stays left out until it is made.
LEMMA UnderWayUndone ==
    ASSUME Typed, NEW r \in Requests, StepOf(r), NEW v, v # request[r].user \/ ~Revokes(r),
           <<v, "endSessions">> \in undone
    PROVE  <<v, "endSessions">> \in undone'
<1>1. CASE Starts(r)
  BY <1>1 DEF Starts
<1>2. CASE IssueRevokes(r) \/ IssueCreates(r) \/ \E i \in DOMAIN token : Logout(r, i)
  BY <1>2 DEF IssueRevokes, IssueCreates, Logout
<1>3. CASE SetPassword(r) \/ SetVerified(r)
  BY <1>3 DEF SetPassword, SetVerified
<1>4. CASE EndSessions(r)
  BY <1>4 DEF EndSessions, Revokes
<1>5. CASE SendsOrUsesCode(r)
  BY <1>5 DEF SendsOrUsesCode
<1>6. CASE CreateUser(r) \/ Upgrade(r)
  BY <1>6 DEF CreateUser, Upgrade
<1>7. CASE WriteProfile(r)
  BY <1>7 DEF WriteProfile, Revokes
<1>8. CASE SetEmail(r) \/ WriteClosed(r)
  BY <1>8 DEF SetEmail, WriteClosed, Revokes
<1>9. CASE \E i \in DOMAIN code : ReadCode(r, i)
  BY <1>9 DEF ReadCode
<1>10. CASE WriteRequest(r) \/ WriteDecision(r) \/ WriteAudit(r) \/ Refused(r)
  BY <1>10 DEF WriteRequest, WriteDecision, WriteAudit, Refused
<1>11. CASE Dies(r)
  BY <1>11 DEF Dies, LeavesUndone
<1> QED BY <1>1, <1>2, <1>3, <1>4, <1>5, <1>6, <1>7, <1>8, <1>9, <1>10, <1>11 DEF StepOf

\* A new password stays under way until the user's tokens are revoked.
LEMMA UnderWayStays ==
    ASSUME Typed, NEW r \in Requests, StepOf(r), NEW v, v # request[r].user \/ ~Revokes(r),
           NewPasswordUnderWay(v)
    PROVE  NewPasswordUnderWay(v)'
<1>1. RequestsFit /\ Progress(r)
  BY StepProgress DEF Typed
<1>2. CASE <<v, "endSessions">> \in undone
  BY <1>2, UnderWayUndone DEF NewPasswordUnderWay
<1>3. ASSUME NEW q \in Requests, request[q].user = v, request[q].op = "endSessions"
      PROVE  NewPasswordUnderWay(v)'
  <2>1. CASE q # r
    <3>1. Kept(q)
      BY <1>1, <2>1, OthersMove
    <3> QED BY <1>3, <3>1 DEF Kept, NewPasswordUnderWay
  <2>2. CASE q = r
    <3>0. request[r].op = "endSessions"
      BY <1>3, <2>2
    <3>1. EndSessions(r) \/ Dies(r)
      BY <3>0 DEF StepOf, Starts, Start, Idle, IssueRevokes, IssueCreates, Logout,
         SetPassword, SendsOrUsesCode, Invalidate, CreateCode, MarkUsed, SetVerified, CreateUser,
         Upgrade, WriteProfile, SetEmail, WriteClosed, ReadCode, WriteRequest, WriteDecision,
         WriteAudit, Refused
    <3>2. Dies(r)
      BY <1>3, <2>2, <3>1 DEF Revokes
    <3>3. <<v, "endSessions">> \in undone'
      BY <1>3, <2>2, <3>2 DEF Dies, LeavesUndone
    <3> QED BY <3>3 DEF NewPasswordUnderWay
  <2> QED BY <2>1, <2>2
<1> QED BY <1>2, <1>3 DEF NewPasswordUnderWay

\* A password is changed by its own request only.
LEMMA PasswordStep ==
    ASSUME Typed, NEW r \in Requests, StepOf(r), NEW v \in Users
    PROVE  \/ account'[v].password = account[v].password
           \/ /\ v = request[r].user
              /\ Revokes(r) \/ SetPassword(r) \/ Upgrade(r) \/ CreateUser(r)
<1> USE DEF Typed
<1>0. request[r].op # "idle" => request[r].user \in Users
  BY DEF RequestsFit, Fits
<1>1. CASE UNCHANGED account
  BY <1>1
<1>2. CASE Starts(r)
  BY <1>1, <1>2 DEF Starts, users
<1>3. CASE IssueRevokes(r) \/ IssueCreates(r) \/ \E i \in DOMAIN token : Logout(r, i)
  BY <1>1, <1>3 DEF IssueRevokes, IssueCreates, Logout, users
<1>4. CASE EndSessions(r) \/ SendsOrUsesCode(r)
  BY <1>1, <1>4 DEF EndSessions, SendsOrUsesCode, users
<1>5. CASE SetPassword(r) \/ SetVerified(r) \/ WriteRequest(r) \/ Upgrade(r) \/ WriteClosed(r)
  <2>1. request[r].user \in Users
    BY <1>0, <1>5 DEF SetPassword, SetVerified, WriteRequest, Upgrade, WriteClosed
  <2>2. /\ OthersKept(request[r].user)
        /\ SetVerified(r) \/ WriteRequest(r) => SamePassword(request[r].user)
    BY <1>5, <2>1, AccountSteps
  <2> QED BY <1>5, <2>1, <2>2 DEF OthersKept, SamePassword, Revokes
<1>6. CASE CreateUser(r)
  BY <1>6, CreatedAccount DEF OthersKept
<1>7. CASE WriteProfile(r)
  BY <1>7, ProfileAccount DEF OthersKept, SamePassword, Revokes
<1>8. CASE SetEmail(r)
  BY <1>8, ConfirmedAccount DEF OthersKept, Revokes
<1>9. CASE WriteDecision(r)
  BY <1>9, DecidedAccount DEF OthersKept, SamePassword
<1>10. CASE WriteAudit(r) \/ Refused(r) \/ Dies(r) \/ \E i \in DOMAIN code : ReadCode(r, i)
  BY <1>1, <1>10 DEF WriteAudit, Refused, Dies, ReadCode, users
<1> QED BY <1>2, <1>3, <1>4, <1>5, <1>6, <1>7, <1>8, <1>9, <1>10 DEF StepOf

\* Passwords of users whose tokens the step does not revoke.
LEMMA PasswordStays ==
    ASSUME Typed, NEW r \in Requests, StepOf(r), NEW v \in Users,
           v # request[r].user \/ ~Revokes(r), ~CreateUser(r)
    PROVE  \A p : PasswordKnown(v, p) => PasswordKnown(v, p)'
<1>1. NewPasswordUnderWay(v) => NewPasswordUnderWay(v)'
  BY UnderWayStays
<1>2. CASE account'[v].password = account[v].password
  BY <1>1, <1>2 DEF PasswordKnown
<1>3. CASE v = request[r].user /\ (SetPassword(r) \/ Upgrade(r))
  <2>1. CASE SetPassword(r)
    <3>1. Goes(r, "endSessions")
      BY <2>1, CredentialSteps DEF Typed
    <3> QED BY <1>3, <3>1 DEF Goes, NewPasswordUnderWay, PasswordKnown
  <2>2. CASE Upgrade(r)
    <3>1. <<v, "endSessions">> \in undone'
      BY <1>3, <2>2 DEF Upgrade
    <3> QED BY <3>1 DEF NewPasswordUnderWay, PasswordKnown
  <2> QED BY <1>3, <2>1, <2>2
<1> QED BY <1>2, <1>3, PasswordStep

\* A step that revokes nothing forgets no password of a user.
LEMMA PasswordsSeen ==
    ASSUME Typed, NEW r \in Requests, StepOf(r), ~Revokes(r)
    PROVE  PasswordSeen
<1>1. CASE ~CreateUser(r)
  BY <1>1, PasswordStays DEF PasswordSeen
<1>2. CASE CreateUser(r)
  <2>1. /\ \A q \in Requests \ {r} : Kept(q) /\ request[q].user # request[r].user
        /\ account[request[r].user].email = None /\ UNCHANGED token
        /\ request'[r].op = "invalidate" /\ request[r].user \in Users
    <3>1. Sends(r, "VERIFICATION", request[r].address)
      BY <1>2, RegistrationSteps DEF Typed
    <3>2. request[r].op = "createUser" /\ UNCHANGED token /\ request[r].user \in Users
      BY <1>2 DEF CreateUser, sessions, Typed, RequestsFit, Fits
    <3> QED BY <3>1, <3>2 DEF Sends, Typed, AccountsInv
  <2>2. \A i \in DOMAIN token : token'[i].live => token[i].user # request[r].user
    BY <2>1 DEF Typed, AccountsInv
  <2>3. Overtaken(request[r].user)
    BY <2>1 DEF Overtaken, Kept, Issues
  <2>4. ASSUME NEW v \in Users, v # request[r].user
        PROVE  \A p : PasswordKnown(v, p) => PasswordKnown(v, p)'
    BY <2>4, PasswordStep, UnderWayStays DEF PasswordKnown
  <2>5. PICK u \in Users : u = request[r].user
    BY <2>1
  <2> QED BY <2>2, <2>3, <2>4, <2>5 DEF PasswordSeen, Overtaken
<1> QED BY <1>1, <1>2


\* The user of a step that revokes, and what it writes.
LEMMA RevokesStep ==
    ASSUME Typed, NEW r \in Requests, Revokes(r)
    PROVE  /\ request[r].user \in Users /\ token' = Revoked(request[r].user)
           /\ ended' \subseteq ended \cup SessionsOf(request[r].user)
           /\ Overtakes(r, request[r].user, {"tokens"})
           /\ ~Issues(request'[r])
<1> USE DEF Typed
<1>1. request[r].op # "idle" => request[r].user \in Users
  BY DEF RequestsFit, Fits
<1>2. CASE EndSessions(r)
  <2>1. Ends(r) /\ Overtakes(r, request[r].user, {"tokens"})
    BY <1>2, CredentialSteps
  <2> QED BY <1>1, <1>2, <2>1, IdleRow DEF EndSessions, Revoke, Ends, Moves
<1>3. CASE SetEmail(r)
  <2>1. Ends(r) /\ Overtakes(r, request[r].user, {"addresses", "tokens"})
    BY <1>3, ProfileSteps
  <2> QED BY <1>1, <1>3, <2>1, IdleRow DEF SetEmail, Revoke, Ends, Moves, Overtakes
<1>4. CASE WriteClosed(r)
  <2>1. Ends(r) /\ Overtakes(r, request[r].user, Tables)
    BY <1>4, ProfileSteps
  <2> QED BY <1>1, <1>4, <2>1, IdleRow DEF WriteClosed, Revoke, Ends, Moves, Overtakes, Tables
<1>5. CASE WriteProfile(r) /\ "password" \in request[r].writes
  <2>1. /\ Overtakes(r, request[r].user, Touched(request[r]))
        /\ Ends(r) \/ Sends(r, "EMAIL_CHANGE", request[r].address)
    BY <1>5, ProfileSteps
  <2>2. ~Issues(request'[r])
    BY <2>1, IdleRow DEF Ends, Moves, Sends, Issues
  <2>3. Overtakes(r, request[r].user, {"tokens"})
    BY <1>5, <2>1 DEF Overtakes, Touched
  <2> QED BY <1>1, <1>5, <2>2, <2>3 DEF WriteProfile, Revoke
<1> QED BY <1>2, <1>3, <1>4, <1>5 DEF Revokes

\* Where a step ends what it ends by revoking a user's tokens.
LEMMA RevokedSeen ==
    ASSUME Typed, NEW r \in Requests, NEW u \in Users, token' = Revoked(u),
           ended' \subseteq ended \cup SessionsOf(u), Overtaken(u)
    PROVE  /\ TokensNotNew /\ EndsSeen
           /\ \A i \in DOMAIN token : token'[i].live => token[i].user # u
<1>1. Kills(u)
  BY RevokedTokens DEF Typed
<1>2. ASSUME NEW s \in ended' \ ended
      PROVE  \E i \in DOMAIN token :
                /\ token[i].live /\ ~token'[i].live /\ token[i].session = s
                /\ \A q \in Requests :
                     Issues(request'[q]) /\ request'[q].user = token[i].user =>
                         "tokens" \in request'[q].overtaken \/ request'[q].session # s
  <2>1. PICK i \in DOMAIN token : token[i].user = u /\ token[i].live /\ token[i].session = s
    BY <1>2 DEF SessionsOf, Live
  <2> QED BY <1>1, <2>1 DEF Kills, Overtaken
<1> QED BY <1>1, <1>2 DEF Kills, TokensNotNew, EndsSeen

\* A step that revokes tokens makes no new one, and whoever was about to issue one is told.
LEMMA RevokesSeen ==
    ASSUME Typed, NEW r \in Requests, StepOf(r), Revokes(r)
    PROVE  TokensNotNew /\ EndsSeen /\ PasswordSeen /\ ~Issues(request'[r])
<1>1. /\ request[r].user \in Users /\ token' = Revoked(request[r].user)
      /\ ended' \subseteq ended \cup SessionsOf(request[r].user)
      /\ Overtakes(r, request[r].user, {"tokens"})
      /\ ~Issues(request'[r])
  BY RevokesStep
<1>2. \A q \in Requests \ {r} : Kept(q)
  BY StepProgress, OthersMove DEF Typed
<1>3. Overtaken(request[r].user)
  BY <1>1, <1>2 DEF Overtaken, Overtakes, Kept, Issues
<1>4. PICK u \in Users : u = request[r].user
  BY <1>1
<1>5. TokensNotNew /\ EndsSeen /\ \A i \in DOMAIN token : token'[i].live => token[i].user # u
  BY <1>1, <1>3, <1>4, RevokedSeen DEF Overtaken
<1>6. ~CreateUser(r)
  BY DEF Revokes, CreateUser, EndSessions, SetEmail, WriteClosed, WriteProfile
<1>7. PasswordSeen
  BY <1>3, <1>4, <1>5, <1>6, PasswordStays DEF PasswordSeen, Overtaken
<1> QED BY <1>1, <1>5, <1>7

\* The other steps, but those that issue tokens.
LEMMA RestSeen ==
    ASSUME Typed, NEW r \in Requests, StepOf(r),
           ~Revokes(r), ~IssueRevokes(r), ~IssueCreates(r)
    PROVE  TokensNotNew /\ EndsSeen /\ PasswordSeen
<1>0. PasswordSeen
  BY PasswordsSeen
<1>1. ASSUME UNCHANGED sessions
      PROVE  TokensNotNew /\ EndsSeen
  BY <1>1 DEF TokensNotNew, EndsSeen, sessions
<1>2. CASE Starts(r)
  BY <1>0, <1>1, <1>2 DEF Starts
<1>3. CASE \E i \in DOMAIN token : Logout(r, i)
  <2>1. PICK i \in DOMAIN token : Logout(r, i)
    BY <1>3
  <2>2. Ends(r) /\ Overtakes(r, token[i].user, {"tokens"})
    BY <2>1, IssueSteps DEF Typed
  <2>3. /\ token[i].live /\ ended' = ended \cup {token[i].session}
        /\ Len(token') = Len(token) /\ DOMAIN token' = DOMAIN token
        /\ ~token'[i].live /\ \A j \in DOMAIN token \ {i} : token'[j] = token[j]
    BY <2>1, DeadToken DEF Logout, Typed
  <2>4. Overtaken(token[i].user)
    BY <2>2, IdleRow DEF Overtaken, Overtakes, Ends, Moves, Kept, Issues
  <2> QED BY <1>0, <2>3, <2>4 DEF TokensNotNew, EndsSeen, Overtaken
<1>4. CASE SetPassword(r) \/ SendsOrUsesCode(r) \/ SetVerified(r)
  BY <1>0, <1>1, <1>4 DEF SetPassword, SendsOrUsesCode, SetVerified
<1>5. CASE CreateUser(r) \/ Upgrade(r)
  BY <1>0, <1>1, <1>5 DEF CreateUser, Upgrade
<1>6. CASE EndSessions(r) \/ WriteProfile(r) \/ SetEmail(r) \/ WriteClosed(r)
  BY <1>0, <1>1, <1>6 DEF WriteProfile, Revokes
<1>7. CASE \E i \in DOMAIN code : ReadCode(r, i)
  BY <1>0, <1>1, <1>7 DEF ReadCode
<1>8. CASE WriteRequest(r) \/ WriteDecision(r) \/ WriteAudit(r) \/ Refused(r) \/ Dies(r)
  BY <1>0, <1>1, <1>8 DEF WriteRequest, WriteDecision, WriteAudit, Refused, Dies
<1> QED BY <1>2, <1>3, <1>4, <1>5, <1>6, <1>7, <1>8 DEF StepOf

\* A handler that does not start does not come to issue tokens.
LEMMA NoIssues ==
    ASSUME Typed, NEW r \in Requests, StepOf(r), ~Starts(r), ~IssueRevokes(r)
    PROVE  ~Issues(request'[r])
<1>1. Progress(r) /\ RequestsFit
  BY StepProgress DEF Typed
<1>2. CASE Ends(r)
  BY <1>2, IdleRow DEF Ends, Moves
<1>3. CASE request[r].op = "issue" /\ ~Ends(r)
  <2>1. Dies(r)
    BY <1>3 DEF StepOf, IssueCreates, Logout, Idle,
       SetPassword, EndSessions, SendsOrUsesCode, Invalidate, CreateCode, MarkUsed, SetVerified,
       CreateUser, Upgrade, WriteProfile, SetEmail, WriteClosed, ReadCode, WriteRequest,
       WriteDecision, WriteAudit, Refused
  <2> QED BY <1>1, <1>3, <2>1, DecisionSteps, QuitsEnds
<1>4. CASE request[r].op # "issue" /\ ~Ends(r)
  <2>1. request[r].op = "markUsed" => Then[request[r].aim] \notin {"issue", "create"}
    BY <1>1 DEF RequestsFit, Fits, Then, Purposes
  <2> QED BY <1>1, <1>4, <2>1 DEF Progress, Goes, Sends, Reads, Issues
<1> QED BY <1>2, <1>3, <1>4


\* A step after which the handler that took it does not issue a token.
LEMMA RestTokens ==
    ASSUME Typed, NEW r \in Requests, StepOf(r), TokenInv, TokensNotNew, EndsSeen, PasswordSeen,
           ~Issues(request'[r])
    PROVE  TokenInv'
<1>1. \A q \in Requests \ {r} : Kept(q)
  BY StepProgress, OthersMove DEF Typed
<1>2. IssueKept(r)' /\ \A i \in DOMAIN token' : Exchanged(i, r)'
  BY DEF IssueKept, Exchanged
<1>3. \A q \in Requests : Beside(q, r)' /\ Beside(r, q)'
  BY DEF Beside
<1>4. /\ ended' \subseteq 1..Len(token')
      /\ \A i \in DOMAIN token' : TokenKept(i)'
      /\ \A i, j \in DOMAIN token' : Together(i, j)'
      /\ \A q \in Requests : Kept(q) =>
            IssueKept(q)' /\ \A i \in DOMAIN token' : Exchanged(i, q)'
      /\ \A p, q \in Requests : Kept(p) /\ Kept(q) => Beside(p, q)'
  BY TokensFade
<1> QED BY <1>1, <1>2, <1>3, <1>4 DEF TokenInv

\* A login, or a refresh that passes on what is known of the token.
LEMMA StartTokens ==
    ASSUME Typed, NEW r \in Requests, Starts(r), TokenInv, Issues(request'[r])
    PROVE  TokenInv'
<1>1. /\ Founded(request'[r]) /\ RequestsFit'
      /\ \A q \in Requests \ {r} : request'[q] = request[q]
      /\ UNCHANGED <<token, ended, account, undone>>
  BY StartsMoves DEF Starts, sessions, users, Typed
<1>2. request'[r].op = "issue" /\ request'[r].user \in Users
  BY <1>1 DEF Founded, Issues, Fits
<1>3. TokensFit /\ RowsFit /\ RequestsFit
  BY DEF Typed
<1>4. \A u, p : PasswordKnown(u, p) => PasswordKnown(u, p)'
  <2>1. request[r] = Idle
    BY <1>3, StartsMoves
  <2>2. \A u : NewPasswordUnderWay(u) => NewPasswordUnderWay(u)'
    BY <1>1, <2>1, IdleRow DEF NewPasswordUnderWay
  <2> QED BY <1>1, <2>2 DEF PasswordKnown
<1>5. TokensNotNew /\ EndsSeen /\ PasswordSeen
  BY <1>1, <1>4 DEF TokensNotNew, EndsSeen, PasswordSeen
<1>6. \A q \in Requests \ {r} : Kept(q)
  BY <1>1 DEF Kept
<1>7. /\ ended' \subseteq 1..Len(token')
      /\ \A i \in DOMAIN token' : TokenKept(i)'
      /\ \A i, j \in DOMAIN token' : Together(i, j)'
      /\ \A q \in Requests : Kept(q) =>
            IssueKept(q)' /\ \A i \in DOMAIN token' : Exchanged(i, q)'
      /\ \A p, q \in Requests : Kept(p) /\ Kept(q) => Beside(p, q)'
  BY <1>5, TokensFade
<1>8. CASE request'[r].session = 0 /\ request'[r].password = account[request'[r].user].password
  <2>1. IssueKept(r)'
    <3>1. 0 \notin ended /\ Len(token) \in Nat
      BY <1>3 DEF TokenInv, TokensFit
    <3> QED BY <1>1, <1>2, <1>8, <3>1 DEF IssueKept, PasswordKnown
  <2>2. ASSUME NEW i \in DOMAIN token'
        PROVE  Exchanged(i, r)'
    <3>1. TokenKept(i)
      BY <1>1 DEF TokenInv
    <3>2. token[i].live => token[i].session # 0
      BY <1>3, <3>1 DEF TokenKept, TokensFit
    <3> QED BY <1>1, <1>8, <3>2 DEF Exchanged
  <2>3. \A q \in Requests : Beside(q, r)' /\ Beside(r, q)'
    BY <1>8 DEF Beside
  <2> QED BY <1>6, <1>7, <2>1, <2>2, <2>3 DEF TokenInv
<1>9. CASE \E i \in DOMAIN token :
              /\ token[i].live /\ request'[r].user = token[i].user
              /\ request'[r].session = token[i].session /\ request'[r].password = token[i].password
              /\ token[i].late => "tokens" \in request'[r].overtaken
  <2>1. PICK i \in DOMAIN token :
              /\ token[i].live /\ request'[r].user = token[i].user
              /\ request'[r].session = token[i].session /\ request'[r].password = token[i].password
              /\ token[i].late => "tokens" \in request'[r].overtaken
    BY <1>9
  <2>2. /\ TokenKept(i) /\ \A j \in DOMAIN token : Together(i, j) /\ Together(j, i)
        /\ \A q \in Requests : Exchanged(i, q)
    BY DEF TokenInv
  <2>3. IssueKept(r)'
    <3>1. PICK u, p : u = token[i].user /\ p = token[i].password
      OBVIOUS
    <3>2. ~token[i].late => PasswordKnown(u, p)'
      BY <1>4, <2>1, <2>2, <3>1 DEF TokenKept
    <3>3. /\ token[i].session \in 0..Len(token)
          /\ ~token[i].late => token[i].session \notin ended
      BY <1>3, <2>1, <2>2 DEF TokenKept, TokensFit
    <3> QED BY <1>1, <1>2, <2>1, <3>1, <3>2, <3>3
            DEF IssueKept, PasswordKnown, NewPasswordUnderWay
  <2>4. ASSUME NEW j \in DOMAIN token'
        PROVE  Exchanged(j, r)'
    BY <1>1, <1>2, <2>1, <2>2 DEF Exchanged, Together
  <2>5. ASSUME NEW q \in Requests
        PROVE  Beside(q, r)' /\ Beside(r, q)'
    <3>1. CASE q = r
      BY <3>1 DEF Beside
    <3>2. CASE q # r
      BY <1>1, <1>2, <2>1, <2>2, <3>2 DEF Beside, Exchanged
    <3> QED BY <3>1, <3>2
  <2> QED BY <1>6, <1>7, <2>3, <2>4, <2>5 DEF TokenInv
<1> QED BY <1>1, <1>2, <1>8, <1>9 DEF Founded

\* The tokens of the user are revoked, but the session goes on.
LEMMA RevokeTokens ==
    ASSUME Typed, NEW r \in Requests, StepOf(r), TokenInv, IssueRevokes(r)
    PROVE  TokenInv'
<1>1. /\ request[r].op = "issue" /\ request[r].user \in Users
      /\ token' = Revoked(request[r].user)
      /\ ended' = ended \cup (SessionsOf(request[r].user) \ {request[r].session})
      /\ Goes(r, "create") /\ Overtakes(r, request[r].user, {"tokens"})
  BY IssueSteps DEF IssueRevokes, Revoke, Typed, RequestsFit, Fits
<1>2. PICK u \in Users : u = request[r].user
  BY <1>1
<1>3. Kills(u) /\ TokensFit
  BY <1>1, <1>2, RevokedTokens DEF Typed
<1>4. ~Revokes(r)
  BY <1>1 DEF Revokes, EndSessions, SetEmail, WriteClosed, WriteProfile
<1>5. PasswordSeen
  BY <1>4, PasswordsSeen
<1>6. \A q \in Requests \ {r} : Kept(q)
  BY <1>1 DEF Goes
<1>7. \A q \in Requests \ {r} : Issues(request'[q]) /\ request'[q].user = u =>
        "tokens" \in request'[q].overtaken
  BY <1>1, <1>2, <1>6 DEF Overtakes, Kept, Issues
<1>8. EndsSeen
  <2>1. ASSUME NEW s \in ended' \ ended
        PROVE  \E i \in DOMAIN token :
                /\ token[i].live /\ ~token'[i].live /\ token[i].session = s
                /\ \A q \in Requests :
                     Issues(request'[q]) /\ request'[q].user = token[i].user =>
                         "tokens" \in request'[q].overtaken \/ request'[q].session # s
    <3>1. s # request[r].session
      BY <1>1, <2>1
    <3>2. PICK i \in DOMAIN token : token[i].user = u /\ token[i].live /\ token[i].session = s
      BY <1>1, <1>2, <2>1 DEF SessionsOf, Live
    <3>3. request'[r].session = request[r].session
      BY <1>1 DEF Goes
    <3> QED BY <1>3, <1>7, <3>1, <3>2, <3>3 DEF Kills
  <2> QED BY <2>1 DEF EndsSeen
<1>9. TokensNotNew
  BY <1>3 DEF Kills, TokensNotNew
<1>10. /\ ended' \subseteq 1..Len(token')
       /\ \A i \in DOMAIN token' : TokenKept(i)'
       /\ \A i, j \in DOMAIN token' : Together(i, j)'
       /\ \A q \in Requests : Kept(q) =>
            IssueKept(q)' /\ \A i \in DOMAIN token' : Exchanged(i, q)'
       /\ \A p, q \in Requests : Kept(p) /\ Kept(q) => Beside(p, q)'
  BY <1>5, <1>8, <1>9, TokensFade
<1>11. /\ request'[r].op = "create" /\ request'[r].user = u
       /\ request'[r].session = request[r].session
       /\ request'[r].password = request[r].password
       /\ request'[r].overtaken = request[r].overtaken
  BY <1>1, <1>2 DEF Goes
<1>12. /\ IssueKept(r) /\ \A q \in Requests : Beside(q, r) /\ Beside(r, q)
       /\ \A i \in DOMAIN token : Exchanged(i, r)
       /\ Issues(request[r])
  BY <1>1 DEF TokenInv, Issues
<1>13. \A i \in DOMAIN token' : token'[i].live => token'[i].user # u
  BY <1>3 DEF Kills
<1>14. IssueKept(r)'
  <2>1. PICK p : p = request[r].password
    OBVIOUS
  <2>2. "tokens" \notin request[r].overtaken => PasswordKnown(u, p)'
    <3>1. ASSUME "tokens" \notin request[r].overtaken
          PROVE  PasswordKnown(u, p)'
      <4>1. PasswordKnown(u, p)
        BY <1>2, <1>12, <2>1, <3>1 DEF IssueKept
      <4>2. ~CreateUser(r)
        BY <1>1 DEF CreateUser
      <4> QED BY <1>4, <4>1, <4>2, PasswordStays
    <3> QED BY <3>1
  <2>3. "tokens" \notin request[r].overtaken => request[r].session \notin ended'
    BY <1>1, <1>12 DEF IssueKept
  <2> QED BY <1>9, <1>11, <1>12, <1>13, <2>1, <2>2, <2>3
          DEF IssueKept, TokensNotNew, PasswordKnown, NewPasswordUnderWay
<1>15. ASSUME NEW i \in DOMAIN token'
       PROVE  Exchanged(i, r)'
  <2>1. CASE token'[i].live
    <3>1. i \in DOMAIN token /\ token'[i] = token[i] /\ token[i].user # u
      BY <1>3, <2>1 DEF Kills
    <3> QED BY <1>2, <1>11, <1>12, <2>1, <3>1 DEF Exchanged
  <2>2. CASE ~token'[i].live
    BY <2>2 DEF Exchanged
  <2> QED BY <2>1, <2>2
<1>16. ASSUME NEW q \in Requests
       PROVE  Beside(q, r)' /\ Beside(r, q)'
  <2>1. CASE q = r
    BY <2>1 DEF Beside
  <2>2. CASE q # r
    <3>1. Kept(q) /\ Beside(q, r) /\ Beside(r, q)
      BY <1>6, <1>12, <2>2
    <3> QED BY <1>2, <1>7, <1>11, <1>12, <2>2, <3>1 DEF Beside, Kept, Issues
  <2> QED BY <2>1, <2>2
<1> QED BY <1>6, <1>10, <1>14, <1>15, <1>16 DEF TokenInv


\* The new token is the only one of its user, or it is late.
LEMMA CreateTokens ==
    ASSUME Typed, NEW r \in Requests, StepOf(r), TokenInv, IssueCreates(r)
    PROVE  TokenInv'
<1>1. /\ request[r].op = "create" /\ request[r].user \in Users
      /\ UNCHANGED ended /\ Issued(r)
      /\ Ends(r) /\ Overtakes(r, request[r].user, {"tokens"})
  BY IssueSteps, IssuedToken DEF IssueCreates, Typed, RequestsFit, Fits
<1>2. /\ DOMAIN token = 1..Len(token) /\ Len(token) \in Nat
      /\ \A i \in DOMAIN token : token[i].live => token[i].user \in Users
      /\ \A q \in Requests : request[q].op # "idle" => request[q].user \in Users
  BY DEF Typed, TokensFit, RequestsFit, Fits
<1>3. PICK u, k : u \in Users /\ u = request[r].user /\ k = Len(token) + 1
  BY <1>1
<1>4. /\ Len(token') = k /\ DOMAIN token' = DOMAIN token \cup {k} /\ k \notin DOMAIN token
      /\ \A j \in DOMAIN token : token'[j] = token[j]
      /\ token'[k].user = u /\ token'[k].live
      /\ request[r].session = 0 => token'[k].session = k
      /\ request[r].session # 0 => token'[k].session = request[r].session
      /\ token'[k].password = request[r].password
      /\ token'[k].late <=> "tokens" \in request[r].overtaken
  BY <1>1, <1>3 DEF Issued
<1>5. \A q \in Requests \ {r} : Kept(q)
  BY <1>1 DEF Ends, Moves
<1>6. \A q \in Requests \ {r} : Issues(request'[q]) /\ request'[q].user = u =>
        "tokens" \in request'[q].overtaken
  BY <1>1, <1>3, <1>5 DEF Overtakes, Kept, Issues
<1>7. ~Issues(request'[r])
  BY <1>1, IdleRow DEF Ends, Moves
<1>8. ~Revokes(r) /\ ~CreateUser(r)
  BY <1>1 DEF Revokes, CreateUser, EndSessions, SetEmail, WriteClosed, WriteProfile
<1>9. \A v \in Users : \A p : PasswordKnown(v, p) => PasswordKnown(v, p)'
  BY <1>8, PasswordStays
<1>10. /\ IssueKept(r) /\ Issues(request[r])
       /\ \A q \in Requests : Beside(q, r) /\ Beside(r, q)
       /\ \A i \in DOMAIN token : Exchanged(i, r) /\ TokenKept(i)
       /\ ended \subseteq 1..Len(token)
  BY <1>1 DEF TokenInv, Issues
<1>11. ended' \subseteq 1..Len(token')
  BY <1>1, <1>2, <1>3, <1>4, <1>10
<1>12. token'[k].session \in 1..k /\ request[r].session \in 0..Len(token)
  BY <1>2, <1>3, <1>4, <1>10 DEF IssueKept
<1>13. ~token'[k].late => /\ token'[k].session \notin ended
                          /\ PasswordKnown(u, request[r].password)
                          /\ \A i \in DOMAIN token : token[i].live => token[i].user # u
  BY <1>1, <1>2, <1>3, <1>4, <1>10 DEF IssueKept
<1>14. ASSUME NEW i \in DOMAIN token'
       PROVE  TokenKept(i)'
  <2>1. CASE i = k
    <3>1. PICK p : p = request[r].password
      OBVIOUS
    <3>2. ~token'[k].late => PasswordKnown(u, p)'
      BY <1>3, <1>9, <1>13, <3>1
    <3> QED BY <1>1, <1>4, <1>12, <1>13, <2>1, <3>1, <3>2
            DEF TokenKept, PasswordKnown, NewPasswordUnderWay
  <2>2. CASE i \in DOMAIN token /\ token[i].live
    <3>1. PICK v, p : v \in Users /\ v = token[i].user /\ p = token[i].password
      BY <1>2, <2>2
    <3>2. TokenKept(i) /\ token'[i] = token[i] /\ token[i].session \in 1..Len(token')
      BY <1>2, <1>3, <1>4, <1>10, <2>2 DEF TokenKept
    <3>3. ~token[i].late => PasswordKnown(v, p)'
      BY <1>9, <2>2, <3>1, <3>2 DEF TokenKept
    <3> QED BY <1>1, <2>2, <3>1, <3>2, <3>3
            DEF TokenKept, PasswordKnown, NewPasswordUnderWay
  <2>3. CASE i \in DOMAIN token /\ ~token[i].live
    BY <1>4, <2>3 DEF TokenKept
  <2> QED BY <1>4, <2>1, <2>2, <2>3
<1>15. ASSUME NEW i \in DOMAIN token, token[i].live
       PROVE  /\ token[i].user = u => token'[k].late
              /\ token[i].session = token'[k].session => token[i].user = u /\ token[i].late
  <2>1. token[i].user = u => token'[k].late
    BY <1>13, <1>15
  <2>2. ASSUME token[i].session = token'[k].session
        PROVE  token[i].user = u /\ token[i].late
    <3>1. token[i].session \in 1..Len(token)
      BY <1>10, <1>15 DEF TokenKept
    <3>2. request[r].session = token[i].session
      BY <1>2, <1>3, <1>4, <2>2, <3>1
    <3> QED BY <1>1, <1>3, <1>10, <1>15, <3>2 DEF Exchanged
  <2> QED BY <2>1, <2>2
<1>16. ASSUME NEW i \in DOMAIN token', NEW j \in DOMAIN token'
       PROVE  Together(i, j)'
  <2>1. CASE i \in DOMAIN token /\ j \in DOMAIN token
    BY <1>4, <2>1 DEF Together, TokenInv
  <2>2. CASE i = k /\ j = k
    BY <2>2 DEF Together
  <2>3. CASE i = k /\ j \in DOMAIN token
    BY <1>4, <1>15, <2>3 DEF Together
  <2>4. CASE i \in DOMAIN token /\ j = k
    BY <1>4, <1>15, <2>4 DEF Together
  <2> QED BY <1>4, <2>1, <2>2, <2>3, <2>4
<1>17. ASSUME NEW q \in Requests \ {r}, Issues(request'[q])
       PROVE  /\ Issues(request[q]) /\ request[q].user \in Users
              /\ IssueKept(q) /\ request[q].session \in 0..Len(token)
  <2>1. Issues(request[q]) /\ IssueKept(q)
    BY <1>5, <1>17 DEF Kept, Issues, TokenInv
  <2> QED BY <1>2, <2>1 DEF Issues, IssueKept
<1>18. ASSUME NEW q \in Requests
       PROVE  IssueKept(q)'
  <2>1. CASE q = r \/ ~Issues(request'[q])
    BY <1>7, <2>1 DEF IssueKept
  <2>2. CASE q # r /\ Issues(request'[q])
    <3>1. Kept(q) /\ request'[q].session \in 0..Len(token')
      BY <1>2, <1>3, <1>4, <1>5, <1>17, <2>2 DEF Kept
    <3>2. CASE "tokens" \in request'[q].overtaken
      BY <3>1, <3>2 DEF IssueKept
    <3>3. CASE "tokens" \notin request'[q].overtaken
      <4>1. /\ request'[q].user # u /\ "tokens" \notin request[q].overtaken
            /\ request[q].user \in Users /\ IssueKept(q) /\ Issues(request[q])
        BY <1>6, <1>17, <2>2, <3>1, <3>3 DEF Kept
      <4>2. PICK v, p : v \in Users /\ v = request[q].user /\ p = request[q].password
        BY <4>1
      <4>3. PasswordKnown(v, p)'
        BY <1>9, <4>1, <4>2 DEF IssueKept
      <4>4. request'[q].op = "create" =>
              \A i \in DOMAIN token' : token'[i].live => token'[i].user # request'[q].user
        BY <1>4, <3>1, <4>1 DEF IssueKept, Kept
      <4> QED BY <1>1, <3>1, <4>1, <4>2, <4>3, <4>4
              DEF IssueKept, Kept, PasswordKnown, NewPasswordUnderWay
    <3> QED BY <3>2, <3>3
  <2> QED BY <2>1, <2>2
<1>19. ASSUME NEW q \in Requests, NEW i \in DOMAIN token'
       PROVE  Exchanged(i, q)'
  <2>1. CASE q = r \/ ~Issues(request'[q])
    BY <1>7, <2>1 DEF Exchanged
  <2>2. CASE q # r /\ Issues(request'[q]) /\ i \in DOMAIN token
    BY <1>4, <1>5, <2>2 DEF Exchanged, TokenInv, Kept, Issues
  <2>3. CASE q # r /\ Issues(request'[q]) /\ i = k
    <3>1. Kept(q) /\ Issues(request[q]) /\ request[q].session \in 0..Len(token)
          /\ Beside(q, r) /\ Beside(r, q)
      BY <1>5, <1>10, <1>17, <2>3
    <3>2. ASSUME token'[k].session = request[q].session
          PROVE  request[q].user = u /\ (request[q].op = "create" => token'[k].late)
      <4>1. request[r].session = request[q].session /\ request[r].session # 0
        BY <1>2, <1>3, <1>4, <1>12, <3>1, <3>2
      <4> QED BY <1>3, <1>4, <1>10, <2>3, <3>1, <4>1 DEF Beside
    <3> QED BY <1>4, <2>3, <3>1, <3>2 DEF Exchanged, Kept
  <2> QED BY <1>4, <2>1, <2>2, <2>3
<1>20. ASSUME NEW p \in Requests, NEW q \in Requests
       PROVE  Beside(p, q)'
  <2>1. CASE p = r \/ q = r
    BY <1>7, <2>1 DEF Beside
  <2>2. CASE p # r /\ q # r
    BY <1>5, <2>2 DEF Beside, TokenInv, Kept, Issues
  <2> QED BY <2>1, <2>2
<1> QED BY <1>11, <1>14, <1>16, <1>18, <1>19, <1>20 DEF TokenInv

\* Every step keeps what the sessions rest on.
LEMMA StepToken ==
    ASSUME Typed, NEW r \in Requests, StepOf(r), TokenInv
    PROVE  TokenInv'
<1>1. CASE IssueCreates(r)
  BY <1>1, CreateTokens
<1>2. CASE IssueRevokes(r)
  BY <1>2, RevokeTokens
<1>3. CASE Starts(r) /\ Issues(request'[r])
  BY <1>3, StartTokens
<1>4. CASE ~IssueCreates(r) /\ ~IssueRevokes(r) /\ ~(Starts(r) /\ Issues(request'[r]))
  <2>1. ~Issues(request'[r])
    BY <1>4, NoIssues
  <2>2. TokensNotNew /\ EndsSeen /\ PasswordSeen
    BY <1>4, RevokesSeen, RestSeen
  <2> QED BY <2>1, <2>2, RestTokens
<1> QED BY <1>1, <1>2, <1>3, <1>4

\* Of a user's sessions the one begun last is the only one that goes on: a new
\* login, logging out, a new password, a confirmed address and closing the
\* account end the others, but for tokens that requests issued which other
\* requests overtook, and until the step that ends the sessions is taken.
THEOREM SessionsEndCorrect == Spec => []SessionsEnd
<1>1. Init => TokenInv
  <2>1. ASSUME Init
        PROVE  TokenInv
    <3>1. \A r \in Requests : ~Issues(request[r])
      BY <2>1, IdleRow DEF Init
    <3>2. DOMAIN token = {} /\ ended = {}
      BY <2>1 DEF Init
    <3> QED BY <3>1, <3>2 DEF TokenInv, IssueKept, Exchanged, Beside
  <2> QED BY <2>1
<1>2. Typed /\ TokenInv /\ [Next]_vars => TokenInv'
  <2>1. ASSUME Typed, TokenInv, Next
        PROVE  TokenInv'
    <3>1. CASE \E r \in Requests : StepOf(r)
      BY <2>1, <3>1, StepToken
    <3>2. CASE \/ \E i \in DOMAIN token : ExpireToken(i)
               \/ \E i \in DOMAIN code : CodeExpires(i)
      <4>1. UNCHANGED <<request, account, undone, ended>>
        BY <3>2 DEF ExpireToken, CodeExpires, ExpireCode, users, sessions
      <4>2. TokensNotNew
        BY <2>1, <3>2, DeadToken DEF Typed, ExpireToken, CodeExpires, sessions, TokensNotNew
      <4>3. \A u, p : PasswordKnown(u, p) => PasswordKnown(u, p)'
        BY <4>1 DEF PasswordKnown, NewPasswordUnderWay
      <4>4. EndsSeen /\ PasswordSeen /\ \A q \in Requests : Kept(q)
        BY <4>1, <4>3 DEF EndsSeen, PasswordSeen, Kept
      <4> QED BY <2>1, <4>2, <4>4, TokensFade DEF TokenInv
    <3> QED BY <2>1, <3>1, <3>2, NextSteps
  <2>2. ASSUME TokenInv, UNCHANGED vars
        PROVE  TokenInv'
    BY <2>2 DEF TokenInv, TokenKept, Together, IssueKept, Exchanged, Beside, Issues,
                PasswordKnown, NewPasswordUnderWay, vars, users, sessions
  <2> QED BY <2>1, <2>2
<1>3. TokenInv => SessionsEnd
  BY TokenInvTells
<1> QED BY <1>1, <1>2, <1>3, TypedCorrect, PTL DEF Spec
=============================================================================
