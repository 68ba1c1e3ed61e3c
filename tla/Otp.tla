-------------------------------- MODULE Otp ---------------------------------
(***************************************************************************)
(* One-time passwords (otp.service) and the requests that share the tables *)
(* of the user: each handler is a chain of awaits, so it goes through      *)
(* steps, one per statement that writes, and another request may write     *)
(* between any two of them.                                                *)
(*                                                                         *)
(* A code is sent in two statements, one that spends the user's earlier    *)
(* codes of the purpose and one that inserts the new code, and consumed in *)
(* two, one that finds the newest usable code and one that marks it used.  *)
(* otp_codes is a sequence, in the order of createdAt.                     *)
(***************************************************************************)
EXTENDS Naturals, Sequences

CONSTANTS
    Users,      \* people with or without an account
    Requests,   \* slots for HTTP requests in progress
    None,       \* no user, or no address
    MaxCodes    \* bound: codes ever created

ASSUME NoneAssumption == None \notin Users

Purposes == {"VERIFICATION", "RESET_PASSWORD", "EMAIL_CHANGE"}

\* What a request that is in progress may have read before another wrote it.
Tables == {"user", "addresses", "tokens", "codes"}

VARIABLES
    code,       \* otp_codes
    request     \* [Requests -> where the handler is, and what it has read]

Idle == [op |-> "idle", user |-> None, aim |-> "none", address |-> None, writes |-> {},
         session |-> 0, password |-> 0, code |-> 0, proven |-> FALSE, overtaken |-> {}]

\* Request r goes on as next after writing the tables of user u: whoever else
\* is in progress may have read them.  Addresses are read across users.
Writes(r, next, u, tables) ==
    request' = [q \in Requests |->
        IF q = r THEN next
        ELSE IF request[q].op = "idle" THEN Idle
        ELSE [request[q] EXCEPT !.overtaken =
                 @ \cup IF request[q].user = u THEN tables ELSE tables \cap {"addresses"}]]

\* A handler starts with what it has read.
Start(r, next) == request[r] = Idle /\ request' = [request EXCEPT ![r] = next]

Handler(op, u) == [Idle EXCEPT !.op = op, !.user = u]

\* A handler that sends a code: where to, and what for.
Sending(u, purpose, address) ==
    [Handler("invalidate", u) EXCEPT !.aim = purpose, !.address = address]

Go(r, op) == [request[r] EXCEPT !.op = op]

Late(r, tables) == request[r].overtaken \cap tables # {}

-----------------------------------------------------------------------------
(* Sending a code.                                                         *)


\* Of a code that was used or has expired nothing is read any more.
Gone(c) == [user |-> None, purpose |-> "none", address |-> None, usable |-> FALSE,
            uses |-> c.uses, late |-> c.late]

\* The codes of a user for these purposes are spent.
Spent(u, purposes) ==
    [i \in DOMAIN code |-> IF code[i].user = u /\ code[i].purpose \in purposes
                           THEN Gone(code[i]) ELSE code[i]]

Invalidate(r) ==
    /\ request[r].op = "invalidate"
    /\ code' = Spent(request[r].user, {request[r].aim})
    /\ Writes(r, Go(r, "send"), request[r].user, {"codes"})

\* The code request r creates; late if others came in between.
NewCode(r) == [user |-> request[r].user, purpose |-> request[r].aim,
               address |-> request[r].address, usable |-> TRUE, uses |-> 0,
               late |-> Late(r, {"codes", "addresses"})]

\* The mail with the code is the outbox's; see Mail.
CreateCode(r) ==
    LET new == NewCode(r)
    IN  /\ request[r].op = "send"
        /\ Len(code) < MaxCodes
        /\ code' = Append(code, new)
        /\ Writes(r, Idle, new.user, {"codes"})

\* expiresAt has passed; codes expire in the order they were created in.
ExpireCode(i) ==
    /\ code[i].usable
    /\ \A j \in 1..i - 1 : ~code[j].usable
    /\ code' = [code EXCEPT ![i] = Gone(@)]
    /\ UNCHANGED request

-----------------------------------------------------------------------------
(* Consuming a code.                                                       *)

Usable(u, purpose) ==
    {i \in DOMAIN code : code[i].user = u /\ code[i].purpose = purpose /\ code[i].usable}

\* The code a request presents must be the newest one.
Newest(u, purpose, i) == i \in Usable(u, purpose) /\ \A j \in Usable(u, purpose) : j <= i

\* Mutant: a code is found again after it was used.
UsedStillUsable(i) == [code EXCEPT ![i].uses = @ + 1]

Used(i) == [code EXCEPT ![i] = [Gone(@) EXCEPT !.uses = code[i].uses + 1]]

\* What the handler does with a code that was right.
Then == [VERIFICATION |-> "setVerified", RESET_PASSWORD |-> "setPassword",
         EMAIL_CHANGE |-> "setEmail"]

\* The code is marked used whether or not it still is unused.
MarkUsed(r) ==
    LET i == request[r].code
    IN  /\ request[r].op = "markUsed"
        /\ code' = [Used(i) EXCEPT ![i].late = @ \/ Late(r, {"codes"})]
        /\ Writes(r, Go(r, Then[request[r].aim]), request[r].user, {"codes"})

-----------------------------------------------------------------------------
\* A code is used at most once, and of the codes sent to a user for one purpose
\* at most one is usable.  Neither finding a code and marking it used nor
\* spending the old codes and inserting a new one is one statement: requests
\* that overlap are excepted.
CodesAreOnce ==
    /\ \A i \in DOMAIN code : code[i].uses <= 1 \/ code[i].late
    /\ \A i, j \in DOMAIN code :
        i < j /\ code[i].usable /\ code[j].usable
              /\ code[i].user = code[j].user /\ code[i].purpose = code[j].purpose
          => code[i].late \/ code[j].late
=============================================================================
