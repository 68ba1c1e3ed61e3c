-------------------------------- MODULE Trust --------------------------------
(***************************************************************************)
(* The trust score (trust.service), the ratings members give each other    *)
(* (peer-review.service) and the credit score made of it                   *)
(* (credit.service, external-credit.service).                              *)
(*                                                                         *)
(* A user_trust_stats row holds counters and the score computed from them. *)
(* Contributions and the superadmin's events run updateTrustScore in a     *)
(* SERIALIZABLE transaction: one step here, since the transaction rolls    *)
(* back when the row changed under it.  A rating runs it in a transaction  *)
(* of the default isolation, which reads the row, and later locks and      *)
(* writes it.  A missed contribution runs it in no transaction at all:     *)
(* every statement stands on its own, and the process may die in between.  *)
(*                                                                         *)
(* The age of an account does not change here, and the average rating is   *)
(* kept as the sum it is the quotient of: rounding of floating-point       *)
(* numbers is left out.                                                    *)
(***************************************************************************)
EXTENDS Sums

CONSTANTS
    Members,        \* ACTIVE or COMPLETED members of a circle
    CircleAdmin,    \* its administrator
    Subjects,       \* the members whose scores are followed
    Recordings,     \* calls of updateTrustScore for a missed contribution
    Ratings,        \* ratings that are given
    Bureau,         \* scores the credit bureau answers with
    MonthsActive,   \* age of the subjects' accounts
    MaxEvents       \* bound: contributions and superadmin's events

ASSUME TrustAssumption ==
    /\ Subjects \subseteq Members
    /\ Ratings \subseteq 1..5
    /\ Bureau \subseteq 300..850
    /\ MonthsActive \in Nat /\ MaxEvents \in Nat

Participants == Members \union {CircleAdmin}

\* The counters of a user_trust_stats row; averagePeerRating is
\* ratingSum / ratings.
Counters == {"on", "late", "missed", "defaults", "expected", "streak", "onLast",
             "expLast", "onPost", "expPost", "ratings", "ratingSum"}
Kinds == {"onTime", "late", "missed", "default"}

VARIABLES
    known,      \* subjects with a user_trust_stats row
    stats,      \* [Subjects -> [Counters -> Nat]]
    score,      \* [Subjects -> trustScore]
    recording,  \* [Recordings -> where it is, for whom, and the row it got]
    completed,  \* the circle is COMPLETED
    reviewing,  \* reviews between their read and their write of the row
    reviews,    \* peer_reviews: [by, of, rating]
    steps,      \* contributions and superadmin's events so far
    events,     \* history: [Subjects -> [Kinds -> events applied]]
    given,      \* history: [Subjects -> the superadmin's ratings and their sum]
    overlapped, \* history: subjects of ratings that overlapped
    stale       \* history: subjects whose score an overtaken or cut off
                \* recording left behind the counters

vars == <<known, stats, score, recording, completed, reviewing, reviews, steps,
          events, given, overlapped, stale>>
review == <<completed, reviewing, reviews>>

-----------------------------------------------------------------------------
\* Math.max, Math.min and Math.round of a quotient.
Larger(a, b) == IF a >= b THEN a ELSE b
Smaller(a, b) == IF a <= b THEN a ELSE b
Round(n, d) == (2 * n + d) \div (2 * d)

\* Tenths of historyLength: 8.3 for every month, at most 100.
HistoryLength == Smaller(1000, 83 * MonthsActive)
Denominator(n) == IF n > 0 THEN n ELSE 1

\* Mutant: penalties may outweigh what was ever paid.
ReliabilityUnbounded(s) == 2 * s.on - s.late - 3 * s.missed - 6 * s.defaults

\* Twice what historyBehavior divides: payments on time, less the penalties.
Reliability(s) ==
    Larger(0, 2 * s.on - s.late - 3 * s.missed - 6 * s.defaults)

\* computeATI: 30% recent behaviour, 25% history, 20% payout reliability, 15%
\* ratings, 10% age, with 50 (70 for the payouts) as long as there is nothing
\* to count; rounded, at most 95.  The parts are fractions over D.
ComputeATI(s) ==
    LET D == 200 * Denominator(s.expLast) * Denominator(s.expected)
                 * Denominator(s.expPost) * Denominator(s.ratings)
        Part(weight, n, d, neutral) ==
            IF d > 0 THEN weight * n * (D \div d) ELSE neutral * (D \div 2)
        parts == Part(30, s.onLast, s.expLast, 30)
                 + Part(25, Reliability(s), 2 * s.expected, 25)
                 + Part(20, s.onPost, s.expPost, 28)
                 + Part(3, s.ratingSum, s.ratings, 15)
                 + HistoryLength * (D \div 100)
    IN Smaller(95, Round(parts, D))

\* computeATIBreakdown: the parts of the score that are shown next to it, each
\* from 0 to 100 and rounded to one decimal; here in tenths.
ATIBreakdown(s) ==
    LET Tenths(n, d, neutral) == IF d > 0 THEN Round(1000 * n, d) ELSE 10 * neutral
    IN [recentBehavior |-> Tenths(s.onLast, s.expLast, 50),
        historyBehavior |-> Tenths(Reliability(s), 2 * s.expected, 50),
        payoutReliability |-> Tenths(s.onPost, s.expPost, 70),
        peerScore |-> Tenths(s.ratingSum, 5 * s.ratings, 50),
        historyLength |-> HistoryLength]

\* TrustScoreEvent.
Contribution(onTime, post) == [type |-> IF onTime THEN "onTime" ELSE "late", post |-> post]
Missed(post) == [type |-> "missed", post |-> post]
Default == [type |-> "default", post |-> TRUE]
Rating(r) == [type |-> "rating", rating |-> r]
Reset == [type |-> "reset"]
Payment(e) == e.type \in Kinds

Only(c, cond) == IF cond THEN c ELSE {}

\* Mutant: a default is no payment that was expected.
IncrementedOutsideTotal(e) ==
    Only({"expLast"}, Payment(e))
    \union Only({"expected"}, Payment(e) /\ e.type # "default")
    \union Only({"on", "onLast"}, e.type = "onTime")
    \union Only({"late", "streak"}, e.type = "late")
    \union Only({"missed", "streak"}, e.type \in {"missed", "default"})
    \union Only({"defaults"}, e.type = "default")
    \union Only({"expPost"}, Payment(e) /\ e.post)
    \union Only({"onPost"}, e.type = "onTime" /\ e.post)

\* The counters an event increments and those it sets to zero.
Incremented(e) ==
    Only({"expected", "expLast"}, Payment(e))
    \union Only({"on", "onLast"}, e.type = "onTime")
    \union Only({"late", "streak"}, e.type = "late")
    \union Only({"missed", "streak"}, e.type \in {"missed", "default"})
    \union Only({"defaults"}, e.type = "default")
    \union Only({"expPost"}, Payment(e) /\ e.post)
    \union Only({"onPost"}, e.type = "onTime" /\ e.post)

Cleared(e) == Only({"streak"}, e.type = "onTime")
              \union Only({"onLast", "expLast"}, e.type = "reset")

\* What the upsert returns of the row that a rating is computed from.
RatingsRead(u) == [n |-> stats[u].ratings, sum |-> stats[u].ratingSum]

\* Mutant: a rating is added to the sum of the row as it is.
UpdatedAverageOfNow(row, e, current) ==
    [c \in Counters |->
        IF c \in Cleared(e) THEN 0
        ELSE IF c \in Incremented(e) THEN row[c] + 1
        ELSE IF e.type = "rating" /\ c = "ratings" THEN current.n + 1
        ELSE IF e.type = "rating" /\ c = "ratingSum" THEN row[c] + e.rating
        ELSE row[c]]

\* The switch of updateTrustScore: increments of the row as it is, but for a
\* rating the values computed from the row read before.
Updated(row, e, current) ==
    [c \in Counters |->
        IF c \in Cleared(e) THEN 0
        ELSE IF c \in Incremented(e) THEN row[c] + 1
        ELSE IF e.type = "rating" /\ c = "ratings" THEN current.n + 1
        ELSE IF e.type = "rating" /\ c = "ratingSum" THEN current.sum + e.rating
        ELSE row[c]]

\* History: what was applied, and which ratings were overtaken.
Record(u, e) ==
    /\ events' = IF Payment(e) THEN [events EXCEPT ![u][e.type] = @ + 1] ELSE events
    /\ overlapped' = overlapped \union
          (IF e.type = "rating" /\ \E rv \in reviewing' : rv.of = u THEN {u} ELSE {})

\* Mutant: the score is computed from the row as it was before the update.
UpdateTrustScoreFromRead(u, e, current) ==
    /\ known' = known \union {u}
    /\ stats' = [stats EXCEPT ![u] = Updated(@, e, current)]
    /\ score' = [score EXCEPT ![u] = ComputeATI(stats[u])]
    /\ stale' = stale \ {u}
    /\ Record(u, e)

\* updateTrustScore where nobody comes in between: the row is created if need
\* be, updated, and the score computed from the result.
UpdateTrustScore(u, e, current) ==
    /\ known' = known \union {u}
    /\ stats' = [stats EXCEPT ![u] = Updated(@, e, current)]
    /\ score' = [score EXCEPT ![u] = ComputeATI(Updated(stats[u], e, current))]
    /\ stale' = stale \ {u}
    /\ Record(u, e)

-----------------------------------------------------------------------------
Idle == [pc |-> "idle"]
Zero == [c \in Counters |-> 0]

Init ==
    /\ known = {}
    /\ stats = [u \in Subjects |-> Zero]
    /\ score = [u \in Subjects |-> 50]
    /\ recording = [r \in Recordings |-> Idle]
    /\ completed = FALSE
    /\ reviewing = {} /\ reviews = {}
    /\ steps = 0
    /\ events = [u \in Subjects |-> [k \in Kinds |-> 0]]
    /\ given = [u \in Subjects |-> [n |-> 0, sum |-> 0]]
    /\ overlapped = {} /\ stale = {}

\* The last step of makeContribution's SERIALIZABLE transaction.  The caller
\* never says that the member has had their payout.
MakeContribution(u, onTime) ==
    /\ steps < MaxEvents /\ steps' = steps + 1
    /\ UNCHANGED <<recording, review, given>>
    /\ UpdateTrustScore(u, Contribution(onTime, FALSE), RatingsRead(u))

\* fireTrustEventAdmin with an event mapDtoToEvent makes.
AdminEvents ==
    [type : {"onTime", "late", "missed"}, post : BOOLEAN]
    \union {Rating(r) : r \in Ratings} \union {Default, Reset}

FireTrustEventAdmin(u, e) ==
    /\ steps < MaxEvents /\ steps' = steps + 1
    /\ given' = IF e.type # "rating" THEN given
                ELSE [given EXCEPT ![u] = [n |-> @.n + 1, sum |-> @.sum + e.rating]]
    /\ UNCHANGED <<recording, review>>
    /\ UpdateTrustScore(u, e, RatingsRead(u))

-----------------------------------------------------------------------------
\* recordMissedContributions: the upsert looks for the row ...
At(r, pc) == recording[r].pc = pc
Move(r, pc) == recording' = [recording EXCEPT ![r] = [pc |-> pc, user |-> @.user]]

MissedRead(r, u) ==
    /\ At(r, "idle")
    /\ recording' = [recording EXCEPT
           ![r] = [pc |-> IF u \in known THEN "update" ELSE "create", user |-> u]]
    /\ UNCHANGED <<known, stats, score, review, steps, events, given,
                   overlapped, stale>>

\* ... and creates it; it fails if somebody else has, and allSettled swallows
\* that the contribution was not counted.
MissedCreate(r) ==
    /\ At(r, "create")
    /\ Move(r, IF recording[r].user \in known THEN "over" ELSE "update")
    /\ known' = known \union {recording[r].user}
    /\ UNCHANGED <<stats, score, review, steps, events, given,
                   overlapped, stale>>

\* The increments, which return the row as it is then.
MissedUpdate(r) ==
    LET u == recording[r].user
        new == Updated(stats[u], Missed(FALSE), RatingsRead(u))
    IN /\ At(r, "update")
       /\ stats' = [stats EXCEPT ![u] = new]
       /\ recording' = [recording EXCEPT
              ![r] = [pc |-> "score", user |-> u, row |-> new]]
       /\ UNCHANGED <<known, score, review, steps, given, stale>>
       /\ Record(u, Missed(FALSE))

\* The score of the row the increments returned, whatever it is by now.
MissedScore(r) ==
    LET u == recording[r].user
    IN /\ At(r, "score")
       /\ score' = [score EXCEPT ![u] = ComputeATI(recording[r].row)]
       /\ stale' = IF stats[u] = recording[r].row THEN stale \ {u} ELSE stale \union {u}
       /\ Move(r, "report")
       /\ UNCHANGED <<known, stats, review, steps, events, given, overlapped>>

\* reportCreditEvent: the bureau is told, or all three attempts fail.
ReportCreditEvent(r) == \E outcome \in {"told", "over"} : Move(r, outcome)

\* reportMissedContribution: nobody hears of a failure.
ReportMissed(r) ==
    /\ At(r, "report")
    /\ ReportCreditEvent(r)
    /\ UNCHANGED <<known, stats, score, review, steps, events, given, overlapped,
                   stale>>

\* The process dies: nobody records the rest.
Die(r) ==
    /\ recording[r].pc \in {"create", "update", "score", "report"}
    /\ stale' = stale \union (IF At(r, "score") THEN {recording[r].user} ELSE {})
    /\ Move(r, "over")
    /\ UNCHANGED <<known, stats, score, review, steps, events, given,
                   overlapped>>

-----------------------------------------------------------------------------
CompleteCircle ==
    /\ ~completed /\ completed' = TRUE
    /\ UNCHANGED <<known, stats, score, recording, reviewing, reviews, steps,
                   events, given, overlapped, stale>>

\* A peer_reviews row: one per reviewer and reviewed participant.
Review(by, of, rating) == [by |-> by, of |-> of, rating |-> rating]

Reviewed(by, of) == \E v \in reviews : v.by = by /\ v.of = of

\* submitReview up to the upsert, which reads the row.  The review's row is
\* inserted by then: its unique key keeps a second request of the same reviewer
\* waiting, and later refuses it.
ReviewRead(by, of, rating) ==
    /\ completed /\ by # of
    /\ ~ Reviewed(by, of)
    /\ ~ \E rv \in reviewing : rv.by = by /\ rv.of = of
    /\ reviewing' = reviewing \union
           {[by |-> by, of |-> of, rating |-> rating, known |-> of \in known,
             read |-> RatingsRead(of)]}
    /\ UNCHANGED <<known, stats, score, recording, completed, reviews, steps,
                   events, given, overlapped, stale>>

\* The score of an administrator who is no member is left alone: no row to read
\* and write.
ReviewAdmin(by, rating) ==
    /\ completed /\ by # CircleAdmin /\ CircleAdmin \notin Members
    /\ ~ Reviewed(by, CircleAdmin)
    /\ reviews' = reviews \union {Review(by, CircleAdmin, rating)}
    /\ UNCHANGED <<known, stats, score, recording, completed, reviewing, steps,
                   events, given, overlapped, stale>>

\* The rest of submitReview: the row is locked, written and committed.  If the
\* row has been created since, the upsert fails, and the review with it.
ReviewWrite(rv) ==
    LET failed == ~rv.known /\ rv.of \in known
    IN /\ reviewing' = reviewing \ {rv}
       /\ IF failed
            THEN UNCHANGED <<reviews, known, stats, score, events, overlapped, stale>>
            ELSE /\ reviews' = reviews \union {Review(rv.by, rv.of, rv.rating)}
                 /\ UpdateTrustScore(rv.of, Rating(rv.rating), rv.read)
       /\ UNCHANGED <<recording, completed, steps, given>>

\* getReviewSummary: the reviews of one participant, and the sum they average.
ReviewSummary(of) ==
    LET about == {v \in reviews : v.of = of}
    IN [n |-> Cardinality(about), sum |-> Total([v \in about |-> v.rating], about)]

-----------------------------------------------------------------------------
\* getTrustScore's displayScore.
DisplayScore(u) == 300 + Round(11 * (IF u \in known THEN score[u] ELSE 50), 2)
NoScore == 0

Clamped(n) == Smaller(850, Larger(300, n))
\* Mutant: the weights do not add up to one.
FinalScoreOverweight(trust, external) ==
    Clamped(IF external = NoScore THEN trust ELSE Round(7 * external + 4 * trust, 10))

FinalScore(trust, external) ==
    Clamped(IF external = NoScore THEN trust ELSE Round(7 * external + 3 * trust, 10))

\* CREDIT_TIERS: the percentage of the expected payout that may be borrowed,
\* 0 if none.
CreditTiers == {<<750, 50>>, <<700, 45>>, <<650, 40>>, <<600, 30>>, <<550, 20>>}
AllowedPercent(final) ==
    LET reached == {t \in CreditTiers : final >= t[1]}
    IN IF reached = {} THEN 0
       ELSE (CHOOSE t \in reached : \A o \in reached : o[1] <= t[1])[2]

\* getExternalCreditScore: the bureau's, or none after three attempts.
ExternalScores == Bureau \union {NoScore}

\* getFinalCreditScore, whose answer decides on a loan; its row in credit_scores
\* is written for the superadmin to look at.
FinalCreditScore(u, external) == FinalScore(Clamped(DisplayScore(u)), external)

Next ==
    \/ \E u \in Subjects :
          \/ \E onTime \in BOOLEAN : MakeContribution(u, onTime)
          \/ \E e \in AdminEvents : FireTrustEventAdmin(u, e)
          \/ \E r \in Recordings : MissedRead(r, u)
    \/ \E r \in Recordings :
          \/ MissedCreate(r) \/ MissedUpdate(r) \/ MissedScore(r)
          \/ ReportMissed(r) \/ Die(r)
    \/ CompleteCircle
    \/ \E by \in Participants :
          \E rating \in Ratings :
             \/ \E of \in Subjects : ReviewRead(by, of, rating)
             \/ ReviewAdmin(by, rating)
    \/ \E rv \in reviewing : ReviewWrite(rv)

Spec == Init /\ [][Next]_vars

-----------------------------------------------------------------------------
Rows == [Counters -> Nat]
RecordingStates ==
    {Idle}
    \union [pc : {"create", "update", "report", "told", "over"},
             user : Subjects]
    \union [pc : {"score"}, user : Subjects, row : Rows]
Reads == [n : Nat, sum : Nat]
ReviewStates ==
    [by : Participants, of : Subjects, rating : Ratings,
     known : BOOLEAN, read : Reads]

TypeOK ==
    /\ known \subseteq Subjects
    /\ stats \in [Subjects -> Rows]
    /\ recording \in [Recordings -> RecordingStates]
    /\ completed \in BOOLEAN
    /\ reviewing \subseteq ReviewStates
    /\ reviews \subseteq [by : Participants, of : Participants, rating : Ratings]
    /\ steps \in Nat
    /\ events \in [Subjects -> [Kinds -> Nat]]
    /\ given \in [Subjects -> Reads]
    /\ overlapped \subseteq Subjects /\ stale \subseteq Subjects

Agree(s, e) ==
    /\ s.on = e["onTime"] /\ s.late = e["late"]
    /\ s.missed = e["missed"] + e["default"] /\ s.defaults = e["default"]
    /\ s.expected = s.on + s.late + s.missed
    /\ s.onLast <= s.expLast /\ s.onLast <= s.on /\ s.expLast <= s.expected
    /\ s.onPost <= s.expPost /\ s.onPost <= s.on /\ s.expPost <= s.expected
    /\ s.streak <= s.late + s.missed

\* No payment that was recorded is lost from the counters however recordings,
\* contributions, ratings and resets overlap, and every part stays within the
\* whole, so that no share computeATI takes exceeds 100%.  An event whose
\* recording a crash cut off before its update is not among them: nothing
\* records it later.
CountersAreEvents == \A u \in Subjects : Agree(stats[u], events[u])

\* Every rating u was given, by the members' reviews and by the superadmin.
RatingsGiven(u) ==
    [n |-> ReviewSummary(u).n + given[u].n, sum |-> ReviewSummary(u).sum + given[u].sum]

\* The average in the member's row is the one the reviews themselves give, with
\* the superadmin's ratings, unless two ratings overlapped; and it is never
\* outside of 1 to 5, since the row is written in one go.
RatingsCounted ==
    \A u \in Subjects :
        LET row == RatingsRead(u)
        IN /\ row.n <= RatingsGiven(u).n /\ row.sum \in row.n .. 5 * row.n
           /\ u \notin overlapped => row = RatingsGiven(u)

\* The score is the ATI of the counters, from 0 to 95, unless a recording is
\* under way or the last one was cut off or overtaken; the next event repairs it.
\* The breakdown shown with it, a formula of its own, adds up to it.
ScoreIsOfTheCounters ==
    \A u \in Subjects :
        LET ati == ComputeATI(stats[u])
            parts == ATIBreakdown(stats[u])
            sum == 30 * parts.recentBehavior + 25 * parts.historyBehavior
                   + 20 * parts.payoutReliability + 15 * parts.peerScore
                   + 10 * parts.historyLength
        IN /\ score[u] \in 0..95
           /\ ati < 95 => sum \in 1000 * ati - 550 .. 1000 * ati + 550
           /\ (/\ \E c \in Counters : stats[u][c] > 0
               /\ u \notin stale
               /\ \A r \in Recordings : ~(At(r, "score") /\ recording[r].user = u))
              => score[u] = ati

\* Paying on time never lowers what the score is computed to be, paying late or
\* not at all never raises it, and a default costs at least as much as a miss
\* after the payout.
PaymentsMoveTheScore ==
    [][\A u \in Subjects :
          LET before == ComputeATI(stats[u])
              after == ComputeATI(stats'[u])
          IN /\ events'[u]["onTime"] > events[u]["onTime"] => after >= before
             /\ (\E k \in Kinds \ {"onTime"} : events'[u][k] > events[u][k])
                   => after <= before
             /\ events'[u]["default"] > events[u]["default"]
                   => after <= ComputeATI(Updated(stats[u], Missed(TRUE), RatingsRead(u)))]_vars

\* The credit score lies between the trust score and the bureau's, and so does
\* the share of the payout that may be borrowed for it; no loan below 550.
CreditLiesBetween ==
    \A u \in Subjects, x \in ExternalScores :
        LET trust == DisplayScore(u)
            external == IF x = NoScore THEN trust ELSE x
            final == FinalCreditScore(u, x)
            low == Smaller(trust, external)
            high == Larger(trust, external)
        IN /\ final \in low..high /\ final \in 300..850
           /\ AllowedPercent(final) \in AllowedPercent(low)..AllowedPercent(high)
           /\ final < 550 => AllowedPercent(final) = 0
=============================================================================
