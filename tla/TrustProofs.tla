----------------------------- MODULE TrustProofs -----------------------------
(***************************************************************************)
(* No payment is lost from the trust counters whatever overlaps, a rating  *)
(* only where two overlap, the score is that of the counters, and payments *)
(* move it the right way: proofs about Trust for any members, recordings,  *)
(* ratings and number of events.                                           *)
(***************************************************************************)
EXTENDS Trust, SumTheorems

\* What updateTrustScore writes is a row again.
LEMMA UpdatedIsRow ==
    ASSUME NEW row \in Rows, NEW e \in AdminEvents, NEW current \in Reads
    PROVE  Updated(row, e, current) \in Rows
<1>1. e.type = "rating" => e.rating \in Nat
  BY TrustAssumption DEF AdminEvents, Contribution, Missed, Rating, Default, Reset
<1>2. ASSUME NEW c \in Counters
      PROVE  Updated(row, e, current)[c] \in Nat
  <2>1. row[c] \in Nat /\ current.n \in Nat /\ current.sum \in Nat
    BY DEF Rows, Reads
  <2> QED BY <1>1, <2>1 DEF Updated
<1>3. Updated(row, e, current) = [c \in Counters |-> Updated(row, e, current)[c]]
  BY DEF Updated
<1> QED BY <1>2, <1>3 DEF Rows

\* An event is a payment of one of the four kinds, a rating or a reset.
LEMMA EventCases ==
    ASSUME NEW e \in AdminEvents
    PROVE  \/ \E post \in BOOLEAN : e = [type |-> "onTime", post |-> post]
           \/ \E post \in BOOLEAN : e = [type |-> "late", post |-> post]
           \/ \E post \in BOOLEAN : e = [type |-> "missed", post |-> post]
           \/ e = [type |-> "default", post |-> TRUE]
           \/ e = [type |-> "reset"]
           \/ \E r \in Ratings : e = [type |-> "rating", rating |-> r]
BY DEF AdminEvents, Contribution, Missed, Rating, Default, Reset

\* An event keeps the counters in step with the payments made.
LEMMA EventKeepsAgreement ==
    ASSUME NEW row \in Rows, NEW seen \in [Kinds -> Nat], NEW e \in AdminEvents,
           NEW current, Agree(row, seen)
    PROVE  Agree(Updated(row, e, current),
                 IF Payment(e) THEN [seen EXCEPT ![e.type] = @ + 1] ELSE seen)
<1> DEFINE new == Updated(row, e, current)
<1> DEFINE now == IF Payment(e) THEN [seen EXCEPT ![e.type] = @ + 1] ELSE seen
<1>0. /\ \A c \in Counters : row[c] \in Nat
      /\ \A k \in Kinds : seen[k] \in Nat
  BY DEF Rows
<1>1. CASE \E post \in BOOLEAN : e = [type |-> "onTime", post |-> post]
  <2>1. /\ new.on = row.on + 1 /\ new.late = row.late /\ new.missed = row.missed
        /\ new.defaults = row.defaults /\ new.expected = row.expected + 1
        /\ new.onLast = row.onLast + 1 /\ new.expLast = row.expLast + 1
        /\ new.streak = 0
    BY <1>1 DEF Updated, Cleared, Incremented, Only, Payment, Kinds, Counters
  <2>2. \/ new.onPost = row.onPost /\ new.expPost = row.expPost
        \/ new.onPost = row.onPost + 1 /\ new.expPost = row.expPost + 1
    BY <1>1 DEF Updated, Cleared, Incremented, Only, Payment, Kinds, Counters
  <2>3. now = [seen EXCEPT !["onTime"] = @ + 1]
    BY <1>1 DEF Payment, Kinds
  <2>4. /\ now["onTime"] = seen["onTime"] + 1 /\ now["late"] = seen["late"]
        /\ now["missed"] = seen["missed"] /\ now["default"] = seen["default"]
    BY <2>3 DEF Kinds
  <2> HIDE DEF new, now
  <2>5. Agree(new, now)
    BY <1>0, <2>1, <2>2, <2>4 DEF Agree, Counters, Kinds
  <2> QED BY <2>5 DEF new, now
<1>2. CASE \E post \in BOOLEAN : e = [type |-> "late", post |-> post]
  <2>1. /\ new.on = row.on /\ new.late = row.late + 1 /\ new.missed = row.missed
        /\ new.defaults = row.defaults /\ new.expected = row.expected + 1
        /\ new.onLast = row.onLast /\ new.expLast = row.expLast + 1
        /\ new.streak = row.streak + 1 /\ new.onPost = row.onPost
    BY <1>2 DEF Updated, Cleared, Incremented, Only, Payment, Kinds, Counters
  <2>2. new.expPost \in {row.expPost, row.expPost + 1}
    BY <1>2 DEF Updated, Cleared, Incremented, Only, Payment, Kinds, Counters
  <2>3. now = [seen EXCEPT !["late"] = @ + 1]
    BY <1>2 DEF Payment, Kinds
  <2>4. /\ now["onTime"] = seen["onTime"] /\ now["late"] = seen["late"] + 1
        /\ now["missed"] = seen["missed"] /\ now["default"] = seen["default"]
    BY <2>3 DEF Kinds
  <2> HIDE DEF new, now
  <2>5. Agree(new, now)
    BY <1>0, <2>1, <2>2, <2>4 DEF Agree, Counters, Kinds
  <2> QED BY <2>5 DEF new, now
<1>3. CASE \E post \in BOOLEAN : e = [type |-> "missed", post |-> post]
  <2>1. /\ new.on = row.on /\ new.late = row.late /\ new.missed = row.missed + 1
        /\ new.defaults = row.defaults /\ new.expected = row.expected + 1
        /\ new.onLast = row.onLast /\ new.expLast = row.expLast + 1
        /\ new.streak = row.streak + 1 /\ new.onPost = row.onPost
    BY <1>3 DEF Updated, Cleared, Incremented, Only, Payment, Kinds, Counters
  <2>2. new.expPost \in {row.expPost, row.expPost + 1}
    BY <1>3 DEF Updated, Cleared, Incremented, Only, Payment, Kinds, Counters
  <2>3. now = [seen EXCEPT !["missed"] = @ + 1]
    BY <1>3 DEF Payment, Kinds
  <2>4. /\ now["onTime"] = seen["onTime"] /\ now["late"] = seen["late"]
        /\ now["missed"] = seen["missed"] + 1 /\ now["default"] = seen["default"]
    BY <2>3 DEF Kinds
  <2> HIDE DEF new, now
  <2>5. Agree(new, now)
    BY <1>0, <2>1, <2>2, <2>4 DEF Agree, Counters, Kinds
  <2> QED BY <2>5 DEF new, now
<1>4. CASE e = [type |-> "default", post |-> TRUE]
  <2>1. /\ new.on = row.on /\ new.late = row.late /\ new.missed = row.missed + 1
        /\ new.defaults = row.defaults + 1 /\ new.expected = row.expected + 1
        /\ new.onLast = row.onLast /\ new.expLast = row.expLast + 1
        /\ new.streak = row.streak + 1 /\ new.onPost = row.onPost
        /\ new.expPost = row.expPost + 1
    BY <1>4 DEF Updated, Cleared, Incremented, Only, Payment, Kinds, Counters
  <2>3. now = [seen EXCEPT !["default"] = @ + 1]
    BY <1>4 DEF Payment, Kinds
  <2>4. /\ now["onTime"] = seen["onTime"] /\ now["late"] = seen["late"]
        /\ now["missed"] = seen["missed"] /\ now["default"] = seen["default"] + 1
    BY <2>3 DEF Kinds
  <2> HIDE DEF new, now
  <2>5. Agree(new, now)
    BY <1>0, <2>1, <2>4 DEF Agree, Counters, Kinds
  <2> QED BY <2>5 DEF new, now
<1>5. CASE e = [type |-> "reset"]
  <2>1. /\ new.on = row.on /\ new.late = row.late /\ new.missed = row.missed
        /\ new.defaults = row.defaults /\ new.expected = row.expected
        /\ new.onLast = 0 /\ new.expLast = 0
        /\ new.streak = row.streak /\ new.onPost = row.onPost
        /\ new.expPost = row.expPost
    BY <1>5 DEF Updated, Cleared, Incremented, Only, Payment, Kinds, Counters
  <2>2. now = seen
    BY <1>5 DEF Payment, Kinds
  <2> HIDE DEF new, now
  <2>3. Agree(new, now)
    BY <1>0, <2>1, <2>2 DEF Agree, Counters, Kinds
  <2> QED BY <2>3 DEF new, now
<1>6. CASE \E r \in Ratings : e = [type |-> "rating", rating |-> r]
  <2>1. /\ new.on = row.on /\ new.late = row.late /\ new.missed = row.missed
        /\ new.defaults = row.defaults /\ new.expected = row.expected
        /\ new.onLast = row.onLast /\ new.expLast = row.expLast
        /\ new.streak = row.streak /\ new.onPost = row.onPost
        /\ new.expPost = row.expPost
    BY <1>6 DEF Updated, Cleared, Incremented, Only, Payment, Kinds, Counters
  <2>2. now = seen
    BY <1>6 DEF Payment, Kinds
  <2> HIDE DEF new, now
  <2>3. Agree(new, now)
    BY <1>0, <2>1, <2>2 DEF Agree, Counters, Kinds
  <2> QED BY <2>3 DEF new, now
<1> QED BY <1>1, <1>2, <1>3, <1>4, <1>5, <1>6, EventCases

-----------------------------------------------------------------------------
\* The events the actions apply are events the superadmin has too.
LEMMA EventsUsed ==
    /\ \A onTime \in BOOLEAN : Contribution(onTime, FALSE) \in AdminEvents
    /\ Missed(FALSE) \in AdminEvents
    /\ \A r \in Ratings : Rating(r) \in AdminEvents
    /\ \A e \in AdminEvents : Payment(e) => e.type \in Kinds
<1>1. FALSE \in BOOLEAN
  OBVIOUS
<1>2. ASSUME NEW type \in {"onTime", "late", "missed"}
      PROVE  [type |-> type, post |-> FALSE]
                 \in [type : {"onTime", "late", "missed"}, post : BOOLEAN]
  BY <1>1, Zenon
<1>3. ASSUME NEW onTime \in BOOLEAN PROVE Contribution(onTime, FALSE) \in AdminEvents
  <2>1. (IF onTime THEN "onTime" ELSE "late") \in {"onTime", "late", "missed"}
    OBVIOUS
  <2> QED BY <1>2, <2>1, Zenon DEF Contribution, AdminEvents
<1>4. Missed(FALSE) \in AdminEvents
  <2>1. "missed" \in {"onTime", "late", "missed"}
    OBVIOUS
  <2> QED BY <1>2, <2>1, Zenon DEF Missed, AdminEvents
<1>5. \A r \in Ratings : Rating(r) \in AdminEvents
  BY DEF AdminEvents
<1>6. \A e \in AdminEvents : Payment(e) => e.type \in Kinds
  BY DEF Payment
<1> QED BY <1>3, <1>4, <1>5, <1>6

Inv == TypeOK /\ CountersAreEvents

\* What the history keeps of an event.
Seen(u, e) == IF Payment(e) THEN [events[u] EXCEPT ![e.type] = @ + 1] ELSE events[u]

\* The history of one subject grows by the event, that of nobody else.
LEMMA RecordSeen ==
    ASSUME TypeOK, NEW u \in Subjects, NEW e \in AdminEvents, Record(u, e)
    PROVE  /\ events' \in [Subjects -> [Kinds -> Nat]]
           /\ events'[u] = Seen(u, e)
           /\ \A v \in Subjects \ {u} : events'[v] = events[v]
           /\ overlapped' \subseteq Subjects
<1>1. events \in [Subjects -> [Kinds -> Nat]] /\ overlapped \subseteq Subjects
  BY DEF TypeOK
<1>2. CASE Payment(e)
  <2>1. events' = [events EXCEPT ![u] = Seen(u, e)]
    BY <1>1, <1>2 DEF Record, Seen
  <2>2. Seen(u, e) \in [Kinds -> Nat]
    BY <1>1, <1>2 DEF Seen, Payment
  <2>3. overlapped' \subseteq Subjects
    BY <1>1 DEF Record
  <2> QED BY <1>1, <2>1, <2>2, <2>3
<1>3. CASE ~Payment(e)
  BY <1>1, <1>3 DEF Record, Seen
<1> QED BY <1>2, <1>3

\* An event applied to one subject's row keeps everybody's counters in step.
LEMMA EventStep ==
    ASSUME Inv, NEW u \in Subjects, NEW e \in AdminEvents, NEW current \in Reads,
           stats' = [stats EXCEPT ![u] = Updated(stats[u], e, current)],
           Record(u, e)
    PROVE  /\ stats' \in [Subjects -> Rows]
           /\ events' \in [Subjects -> [Kinds -> Nat]]
           /\ overlapped' \subseteq Subjects
           /\ CountersAreEvents'
<1>1. /\ stats \in [Subjects -> Rows] /\ events \in [Subjects -> [Kinds -> Nat]]
      /\ \A v \in Subjects : Agree(stats[v], events[v])
  BY DEF Inv, TypeOK, CountersAreEvents
<1>2. Updated(stats[u], e, current) \in Rows
  BY <1>1, UpdatedIsRow
<1>3. Agree(Updated(stats[u], e, current), Seen(u, e))
  BY <1>1, EventKeepsAgreement DEF Seen
<1>4. /\ events' \in [Subjects -> [Kinds -> Nat]]
      /\ events'[u] = Seen(u, e)
      /\ \A v \in Subjects \ {u} : events'[v] = events[v]
      /\ overlapped' \subseteq Subjects
  BY RecordSeen DEF Inv
<1>5. stats' \in [Subjects -> Rows]
  BY <1>1, <1>2
<1>6. \A v \in Subjects : Agree(stats'[v], events'[v])
  BY <1>1, <1>3, <1>4
<1> QED BY <1>4, <1>5, <1>6 DEF CountersAreEvents

\* updateTrustScore in one go keeps everybody's counters in step.
LEMMA UpdateTrustScoreStep ==
    ASSUME Inv, NEW u \in Subjects, NEW e \in AdminEvents, NEW current \in Reads,
           UpdateTrustScore(u, e, current)
    PROVE  /\ stats' \in [Subjects -> Rows]
           /\ events' \in [Subjects -> [Kinds -> Nat]]
           /\ overlapped' \subseteq Subjects
           /\ known' \subseteq Subjects /\ stale' \subseteq Subjects
           /\ CountersAreEvents'
<1>1. stats' = [stats EXCEPT ![u] = Updated(stats[u], e, current)] /\ Record(u, e)
  BY DEF UpdateTrustScore
<1>2. known' \subseteq Subjects /\ stale' \subseteq Subjects
  BY DEF UpdateTrustScore, Inv, TypeOK
<1> QED BY <1>1, <1>2, EventStep

\* What is read of the ratings is two numbers.
LEMMA RatingsReadTyped ==
    ASSUME TypeOK, NEW u \in Subjects
    PROVE  RatingsRead(u) \in Reads
<1>1. stats[u] \in [Counters -> Nat]
  BY DEF TypeOK, Rows
<1> QED BY <1>1 DEF RatingsRead, Reads, Counters

-----------------------------------------------------------------------------
\* Nothing has been counted yet.
LEMMA InitInv == Init => Inv
<1> SUFFICES ASSUME Init PROVE Inv
  OBVIOUS
<1>1. Zero \in Rows
  BY DEF Zero, Rows
<1>2. TypeOK
  <2>1. stats \in [Subjects -> Rows]
    BY <1>1 DEF Init
  <2>2. recording \in [Recordings -> RecordingStates]
    BY DEF Init, RecordingStates
  <2>3. events \in [Subjects -> [Kinds -> Nat]] /\ given \in [Subjects -> Reads]
    BY DEF Init, Reads
  <2>4. completed \in BOOLEAN
    BY DEF Init
  <2> QED BY <2>1, <2>2, <2>3, <2>4 DEF Init, TypeOK
<1>3. ASSUME NEW u \in Subjects PROVE Agree(stats[u], events[u])
  BY DEF Init, Zero, Agree, Counters, Kinds
<1> QED BY <1>2, <1>3 DEF Inv, CountersAreEvents

\* A recording that moves on stays a recording.
LEMMA MoveTyped ==
    ASSUME TypeOK, NEW r \in Recordings, recording[r].pc # "idle",
           NEW pc \in {"create", "update", "report", "told", "over"}, Move(r, pc)
    PROVE  recording' \in [Recordings -> RecordingStates]
<1>1. recording \in [Recordings -> RecordingStates]
  BY DEF TypeOK
<1>2. recording[r].user \in Subjects
  BY <1>1 DEF RecordingStates, Idle
<1>3. [pc |-> pc, user |-> recording[r].user] \in RecordingStates
  BY <1>2 DEF RecordingStates
<1> QED BY <1>1, <1>3 DEF Move

\* A recording that has begun is about a subject.
LEMMA UserOfRecording ==
    ASSUME TypeOK, NEW r \in Recordings, recording[r].pc # "idle"
    PROVE  recording[r].user \in Subjects
<1>1. recording[r] \in RecordingStates
  BY DEF TypeOK
<1> QED BY <1>1 DEF RecordingStates, Idle

\* Every step keeps types and counters.
LEMMA NextInv == Inv /\ [Next]_vars => Inv'
<1> SUFFICES ASSUME Inv, [Next]_vars PROVE Inv'
  OBVIOUS
<1> USE DEF Inv
<1>1. ASSUME NEW u \in Subjects, NEW onTime \in BOOLEAN, MakeContribution(u, onTime)
      PROVE  Inv'
  <2>1. RatingsRead(u) \in Reads /\ Contribution(onTime, FALSE) \in AdminEvents
    BY RatingsReadTyped, EventsUsed
  <2>2. UpdateTrustScore(u, Contribution(onTime, FALSE), RatingsRead(u))
    BY <1>1 DEF MakeContribution
  <2>3. /\ stats' \in [Subjects -> Rows] /\ events' \in [Subjects -> [Kinds -> Nat]]
        /\ overlapped' \subseteq Subjects /\ known' \subseteq Subjects
        /\ stale' \subseteq Subjects /\ CountersAreEvents'
    BY <2>1, <2>2, UpdateTrustScoreStep
  <2>4. steps' \in Nat /\ UNCHANGED <<recording, completed, reviewing, reviews, given>>
    BY <1>1 DEF MakeContribution, review, TypeOK
  <2> QED BY <2>3, <2>4 DEF TypeOK
<1>2. ASSUME NEW u \in Subjects, NEW e \in AdminEvents, FireTrustEventAdmin(u, e)
      PROVE  Inv'
  <2>1. RatingsRead(u) \in Reads
    BY RatingsReadTyped
  <2>2. UpdateTrustScore(u, e, RatingsRead(u))
    BY <1>2 DEF FireTrustEventAdmin
  <2>3. /\ stats' \in [Subjects -> Rows] /\ events' \in [Subjects -> [Kinds -> Nat]]
        /\ overlapped' \subseteq Subjects /\ known' \subseteq Subjects
        /\ stale' \subseteq Subjects /\ CountersAreEvents'
    BY <2>1, <2>2, UpdateTrustScoreStep
  <2>4. steps' \in Nat /\ UNCHANGED <<recording, completed, reviewing, reviews>>
    BY <1>2 DEF FireTrustEventAdmin, review, TypeOK
  <2>5. given' \in [Subjects -> Reads]
    <3>1. given \in [Subjects -> Reads]
      BY DEF TypeOK
    <3>2. CASE e.type # "rating"
      BY <1>2, <3>1, <3>2 DEF FireTrustEventAdmin
    <3>3. CASE e.type = "rating"
      <4>1. e.rating \in Nat
        BY <3>3, TrustAssumption DEF AdminEvents, Contribution, Missed, Rating, Default, Reset
      <4>2. [n |-> given[u].n + 1, sum |-> given[u].sum + e.rating] \in Reads
        BY <3>1, <4>1 DEF Reads
      <4>3. given' = [given EXCEPT ![u] = [n |-> given[u].n + 1,
                                           sum |-> given[u].sum + e.rating]]
        BY <1>2, <3>3 DEF FireTrustEventAdmin
      <4> QED BY <3>1, <4>2, <4>3
    <3> QED BY <3>2, <3>3
  <2> QED BY <2>3, <2>4, <2>5 DEF TypeOK
<1>3. ASSUME NEW u \in Subjects, NEW r \in Recordings, MissedRead(r, u) PROVE Inv'
  <2>1. [pc |-> IF u \in known THEN "update" ELSE "create", user |-> u] \in RecordingStates
    BY DEF RecordingStates
  <2>2. recording' \in [Recordings -> RecordingStates]
    BY <1>3, <2>1 DEF MissedRead, TypeOK
  <2>3. UNCHANGED <<known, stats, completed, reviewing, reviews, steps, events, given,
                    overlapped, stale>>
    BY <1>3 DEF MissedRead, review
  <2> QED BY <2>2, <2>3 DEF TypeOK, CountersAreEvents
<1>4. ASSUME NEW r \in Recordings, MissedCreate(r) PROVE Inv'
  <2>1. recording[r].pc # "idle"
    BY <1>4 DEF MissedCreate, At
  <2>2. recording' \in [Recordings -> RecordingStates]
    BY <1>4, <2>1, MoveTyped DEF MissedCreate
  <2>3. known' \subseteq Subjects
    BY <1>4, <2>1, UserOfRecording DEF MissedCreate, TypeOK
  <2>4. UNCHANGED <<stats, completed, reviewing, reviews, steps, events, given,
                    overlapped, stale>>
    BY <1>4 DEF MissedCreate, review
  <2> QED BY <2>2, <2>3, <2>4 DEF TypeOK, CountersAreEvents
<1>5. ASSUME NEW r \in Recordings, MissedUpdate(r) PROVE Inv'
  <2> DEFINE u == recording[r].user
  <2> DEFINE new == Updated(stats[u], Missed(FALSE), RatingsRead(u))
  <2>1. u \in Subjects
    BY <1>5, UserOfRecording DEF MissedUpdate, At
  <2>2. RatingsRead(u) \in Reads /\ Missed(FALSE) \in AdminEvents
    BY <2>1, RatingsReadTyped, EventsUsed
  <2>3. /\ stats' = [stats EXCEPT ![u] = new] /\ Record(u, Missed(FALSE))
        /\ recording' = [recording EXCEPT ![r] = [pc |-> "score", user |-> u, row |-> new]]
        /\ UNCHANGED <<known, completed, reviewing, reviews, steps, given, stale>>
    BY <1>5 DEF MissedUpdate, review
  <2>4. /\ stats' \in [Subjects -> Rows] /\ events' \in [Subjects -> [Kinds -> Nat]]
        /\ overlapped' \subseteq Subjects /\ CountersAreEvents'
    BY <2>1, <2>2, <2>3, EventStep
  <2>5. new \in Rows
    BY <2>1, <2>2, UpdatedIsRow DEF TypeOK
  <2>6. [pc |-> "score", user |-> u, row |-> new] \in RecordingStates
    BY <2>1, <2>5 DEF RecordingStates
  <2>7. recording' \in [Recordings -> RecordingStates]
    BY <2>3, <2>6 DEF TypeOK
  <2> QED BY <2>3, <2>4, <2>7 DEF TypeOK
<1>6. ASSUME NEW r \in Recordings, MissedScore(r) PROVE Inv'
  <2>1. recording[r].pc # "idle" /\ Move(r, "report")
    BY <1>6 DEF MissedScore, At
  <2>2. recording' \in [Recordings -> RecordingStates]
    BY <2>1, MoveTyped
  <2>3. stale' \subseteq Subjects
    BY <1>6, <2>1, UserOfRecording DEF MissedScore, TypeOK
  <2>4. UNCHANGED <<known, stats, completed, reviewing, reviews, steps, events, given,
                    overlapped>>
    BY <1>6 DEF MissedScore, review
  <2> QED BY <2>2, <2>3, <2>4 DEF TypeOK, CountersAreEvents
<1>7. ASSUME NEW r \in Recordings, ReportMissed(r) PROVE Inv'
  <2>1. PICK pc \in {"told", "over"} : recording[r].pc # "idle" /\ Move(r, pc)
    BY <1>7 DEF ReportMissed, ReportCreditEvent, At
  <2>2. recording' \in [Recordings -> RecordingStates]
    BY <2>1, MoveTyped
  <2>3. UNCHANGED <<known, stats, completed, reviewing, reviews, steps, events, given,
                    overlapped, stale>>
    BY <1>7 DEF ReportMissed, ReportCreditEvent, review
  <2> QED BY <2>2, <2>3 DEF TypeOK, CountersAreEvents
<1>8. ASSUME NEW r \in Recordings, Die(r) PROVE Inv'
  <2>1. recording[r].pc # "idle" /\ Move(r, "over")
    BY <1>8 DEF Die
  <2>2. recording' \in [Recordings -> RecordingStates]
    BY <2>1, MoveTyped
  <2>3. stale' \subseteq Subjects
    BY <1>8, <2>1, UserOfRecording DEF Die, TypeOK
  <2>4. UNCHANGED <<known, stats, completed, reviewing, reviews, steps, events, given,
                    overlapped>>
    BY <1>8 DEF Die, review
  <2> QED BY <2>2, <2>3, <2>4 DEF TypeOK, CountersAreEvents
<1>9. CASE CompleteCircle
  BY <1>9 DEF CompleteCircle, TypeOK, CountersAreEvents
<1>10. ASSUME NEW by \in Participants, NEW of \in Subjects, NEW rating \in Ratings,
              ReviewRead(by, of, rating)
       PROVE  Inv'
  <2>1. RatingsRead(of) \in Reads
    BY RatingsReadTyped
  <2>2. (of \in known) \in BOOLEAN
    OBVIOUS
  <2>3. [by |-> by, of |-> of, rating |-> rating, known |-> of \in known,
         read |-> RatingsRead(of)] \in ReviewStates
    BY <2>1, <2>2, Zenon DEF ReviewStates
  <2>4. reviewing' \subseteq ReviewStates
    BY <1>10, <2>3, Zenon DEF ReviewRead, TypeOK
  <2>5. UNCHANGED <<known, stats, recording, completed, reviews, steps, events, given,
                    overlapped, stale>>
    BY <1>10 DEF ReviewRead
  <2> QED BY <2>4, <2>5 DEF TypeOK, CountersAreEvents
<1>11. ASSUME NEW by \in Participants, NEW rating \in Ratings, ReviewAdmin(by, rating)
       PROVE  Inv'
  <2>1. [by |-> by, of |-> CircleAdmin, rating |-> rating]
            \in [by : Participants, of : Participants, rating : Ratings]
    BY DEF Participants
  <2>2. reviews' \subseteq [by : Participants, of : Participants, rating : Ratings]
    BY <1>11, <2>1 DEF ReviewAdmin, Review, TypeOK
  <2>3. UNCHANGED <<known, stats, recording, completed, reviewing, steps, events, given,
                    overlapped, stale>>
    BY <1>11 DEF ReviewAdmin
  <2> QED BY <2>2, <2>3 DEF TypeOK, CountersAreEvents
<1>12. ASSUME NEW rv \in reviewing, ReviewWrite(rv) PROVE Inv'
  <2>1. /\ rv.by \in Participants /\ rv.of \in Subjects /\ rv.rating \in Ratings
        /\ rv.read \in Reads
    BY DEF TypeOK, ReviewStates
  <2>2. reviewing' \subseteq ReviewStates
    BY <1>12 DEF ReviewWrite, TypeOK
  <2>3. UNCHANGED <<recording, completed, steps, given>>
    BY <1>12 DEF ReviewWrite
  <2>4. CASE ~rv.known /\ rv.of \in known
    <3>1. UNCHANGED <<reviews, known, stats, events, overlapped, stale>>
      BY <1>12, <2>4 DEF ReviewWrite
    <3> QED BY <2>2, <2>3, <3>1 DEF TypeOK, CountersAreEvents
  <2>5. CASE ~(~rv.known /\ rv.of \in known)
    <3>1. /\ reviews' = reviews \union {Review(rv.by, rv.of, rv.rating)}
          /\ UpdateTrustScore(rv.of, Rating(rv.rating), rv.read)
      BY <1>12, <2>5 DEF ReviewWrite
    <3>2. reviews' \subseteq [by : Participants, of : Participants, rating : Ratings]
      BY <2>1, <3>1, TrustAssumption DEF TypeOK, Participants, Review
    <3>3. Rating(rv.rating) \in AdminEvents
      BY <2>1, EventsUsed
    <3>4. /\ stats' \in [Subjects -> Rows] /\ events' \in [Subjects -> [Kinds -> Nat]]
          /\ overlapped' \subseteq Subjects /\ known' \subseteq Subjects
          /\ stale' \subseteq Subjects /\ CountersAreEvents'
      BY <2>1, <3>1, <3>3, UpdateTrustScoreStep
    <3> QED BY <2>2, <2>3, <3>2, <3>4 DEF TypeOK
  <2> QED BY <2>4, <2>5
<1>13. CASE UNCHANGED vars
  BY <1>13 DEF vars, TypeOK, CountersAreEvents
<1> QED BY <1>1, <1>2, <1>3, <1>4, <1>5, <1>6, <1>7, <1>8, <1>9, <1>10, <1>11, <1>12,
           <1>13 DEF Next

\* Every behaviour keeps the trust rows, the recordings and the reviews under
\* way well typed.
THEOREM TypeCorrect == Spec => []TypeOK
<1>1. Inv => TypeOK
  BY DEF Inv
<1> QED BY <1>1, InitInv, NextInv, PTL DEF Spec

\* However contributions, recordings of missed ones that run without a
\* transaction, ratings and resets overlap or die, the counters of every member
\* are those of the payments that were applied, and no share exceeds its whole.
THEOREM CountersCorrect == Spec => []CountersAreEvents
<1>1. Inv => CountersAreEvents
  BY DEF Inv
<1> QED BY <1>1, InitInv, NextInv, PTL DEF Spec

-----------------------------------------------------------------------------
(* The ratings.                                                            *)

\* A review under way is not there yet, and no other one is to be the same row.
ReviewingDistinct ==
    \A rv \in reviewing :
        /\ ~ Reviewed(rv.by, rv.of)
        /\ \A o \in reviewing : o.by = rv.by /\ o.of = rv.of => o = rv

\* The row a review under way has read counts no more ratings than there are,
\* each from 1 to 5, and is the row of now unless two ratings overlapped.
ReadsFresh ==
    \A rv \in reviewing :
        /\ rv.read.n <= RatingsGiven(rv.of).n
        /\ rv.read.sum \in rv.read.n .. 5 * rv.read.n
        /\ rv.of \notin overlapped => rv.read = RatingsRead(rv.of)

RatingsInv == IsFiniteSet(reviews) /\ ReviewingDistinct /\ ReadsFresh /\ RatingsCounted

\* Only a rating touches what the row keeps of the ratings.
LEMMA UpdatedRatings ==
    ASSUME NEW row, NEW e \in AdminEvents, NEW current
    PROVE  /\ e.type = "rating" =>
                  /\ Updated(row, e, current)["ratings"] = current.n + 1
                  /\ Updated(row, e, current)["ratingSum"] = current.sum + e.rating
           /\ e.type # "rating" =>
                  /\ Updated(row, e, current)["ratings"] = row["ratings"]
                  /\ Updated(row, e, current)["ratingSum"] = row["ratingSum"]
<1>1. "ratings" \in Counters /\ "ratingSum" \in Counters
  BY DEF Counters
<1>2. \A c \in {"ratings", "ratingSum"} : c \notin Cleared(e) /\ c \notin Incremented(e)
  BY DEF Cleared, Incremented, Only
<1> QED BY <1>1, <1>2 DEF Updated

\* Ratings are natural numbers.
LEMMA RatingType ==
    ASSUME TypeOK
    PROVE  Ratings \subseteq Nat /\ \A v \in reviews : v.rating \in Nat
<1>1. Ratings \subseteq Nat
  BY TrustAssumption
<1>2. \A v \in reviews : v \in [by : Participants, of : Participants, rating : Ratings]
  BY DEF TypeOK
<1>3. \A v \in reviews : v.rating \in Ratings
  BY <1>2
<1> QED BY <1>1, <1>3

\* The summary of a member's reviews is made of numbers.
LEMMA SummaryType ==
    ASSUME TypeOK, IsFiniteSet(reviews), NEW u \in Subjects
    PROVE  /\ ReviewSummary(u).n \in Nat /\ ReviewSummary(u).sum \in Nat
           /\ RatingsGiven(u) \in Reads
<1> DEFINE about == {v \in reviews : v.of = u}
           rating == [v \in about |-> v.rating]
<1>1. IsFiniteSet(about) /\ Cardinality(about) \in Nat
  BY FS_Subset, FS_CardinalityType
<1>2. \A v \in about : rating[v] \in Nat
  BY RatingType
<1>3. Total(rating, about) \in Nat
  <2> HIDE DEF about, rating
  <2> QED BY <1>1, <1>2, TotalNat
<1>4. ReviewSummary(u).n = Cardinality(about) /\ ReviewSummary(u).sum = Total(rating, about)
  BY DEF ReviewSummary
<1> HIDE DEF about, rating
<1>5. given[u].n \in Nat /\ given[u].sum \in Nat
  BY DEF TypeOK, Reads
<1> QED BY <1>1, <1>3, <1>4, <1>5 DEF RatingsGiven, Reads

\* A new review counts once, with its rating, and only for whom it is about.
LEMMA SummaryAdds ==
    ASSUME TypeOK, IsFiniteSet(reviews), NEW by, NEW of \in Participants, NEW r \in Ratings,
           ~Reviewed(by, of), reviews' = reviews \union {Review(by, of, r)}
    PROVE  /\ IsFiniteSet(reviews')
           /\ of \in Subjects => /\ ReviewSummary(of)'.n = ReviewSummary(of).n + 1
                                 /\ ReviewSummary(of)'.sum = ReviewSummary(of).sum + r
           /\ \A u \in Subjects \ {of} : ReviewSummary(u)' = ReviewSummary(u)
<1> DEFINE new == Review(by, of, r)
           about == {v \in reviews : v.of = of}
           rating == [v \in about |-> v.rating]
           after == {v \in reviews' : v.of = of}
           ratingAfter == [v \in after |-> v.rating]
<1>1. new.by = by /\ new.of = of /\ new.rating = r /\ r \in Nat
  BY RatingType DEF Review
<1>2. new \notin about /\ after = about \union {new} /\ after \ {new} = about
  BY <1>1 DEF Reviewed
<1>3. IsFiniteSet(about) /\ IsFiniteSet(after) /\ IsFiniteSet(reviews')
  <2>1. about \in SUBSET reviews
    OBVIOUS
  <2>2. IsFiniteSet(about)
    <3> HIDE DEF about
    <3> QED BY <2>1, FS_Subset
  <2>3. IsFiniteSet(after)
    <3> HIDE DEF about, after, new
    <3> QED BY <1>2, <2>2, FS_AddElement
  <2>4. IsFiniteSet(reviews')
    BY FS_AddElement
  <2> QED BY <2>2, <2>3, <2>4, Zenon
<1>4. Cardinality(after) = Cardinality(about) + 1
  <2>1. IsFiniteSet(about) /\ new \notin about /\ after = about \union {new}
    BY <1>2, <1>3, Zenon
  <2> HIDE DEF about, after, new
  <2> QED BY <2>1, FS_AddElement
<1>5. /\ \A v \in after : ratingAfter[v] \in Int
      /\ \A v \in about : ratingAfter[v] = rating[v]
      /\ ratingAfter[new] = r
  BY <1>1, <1>2, RatingType
<1>6. /\ ReviewSummary(of).n = Cardinality(about) /\ ReviewSummary(of).sum = Total(rating, about)
      /\ ReviewSummary(of)'.n = Cardinality(after)
      /\ ReviewSummary(of)'.sum = Total(ratingAfter, after)
  BY DEF ReviewSummary
<1>7. \A u \in Subjects \ {of} : ReviewSummary(u)' = ReviewSummary(u)
  <2> SUFFICES ASSUME NEW u \in Subjects, u # of PROVE ReviewSummary(u)' = ReviewSummary(u)
    OBVIOUS
  <2>1. {v \in reviews' : v.of = u} = {v \in reviews : v.of = u}
    BY <1>1
  <2> QED BY <2>1, Zenon DEF ReviewSummary
<1> HIDE DEF new, about, rating, after, ratingAfter
<1>8. Amounts(ratingAfter, after) /\ Amounts(ratingAfter, about) /\ new \in after
  BY <1>2, <1>3, <1>5 DEF Amounts
<1>9. /\ Total(ratingAfter, after) = ratingAfter[new] + Total(ratingAfter, about)
      /\ Total(ratingAfter, about) \in Int
  BY <1>2, <1>8, TotalRemoves
<1>10. Total(ratingAfter, about) = Total(rating, about)
  BY <1>5, <1>8, TotalEqual
<1>11. Total(ratingAfter, after) = Total(rating, about) + r
  BY <1>1, <1>5, <1>9, <1>10
<1> QED BY <1>3, <1>4, <1>6, <1>7, <1>11

\* Whatever leaves ratings, reviews and what is read of them alone keeps the
\* invariant.
LEMMA RatingsStay ==
    ASSUME RatingsInv, TypeOK, UNCHANGED <<reviews, given>>, reviewing' \subseteq reviewing,
           overlapped \subseteq overlapped',
           \A u \in Subjects : RatingsRead(u)' = RatingsRead(u)
    PROVE  RatingsInv'
<1>1. \A u \in Subjects : RatingsGiven(u)' = RatingsGiven(u)
  BY DEF RatingsGiven, ReviewSummary
<1>2. \A rv \in reviewing : rv.of \in Subjects
  BY DEF TypeOK, ReviewStates
<1>3. IsFiniteSet(reviews') /\ ReviewingDistinct'
  BY DEF RatingsInv, ReviewingDistinct, Reviewed
<1>4. ReadsFresh'
  BY <1>1, <1>2 DEF RatingsInv, ReadsFresh
<1>5. RatingsCounted'
  BY <1>1 DEF RatingsInv, RatingsCounted
<1> QED BY <1>3, <1>4, <1>5 DEF RatingsInv

\* What an event leaves in the row of the ratings.
LEMMA RatingsWritten ==
    ASSUME TypeOK, NEW u \in Subjects, NEW e \in AdminEvents, NEW current \in Reads,
           stats' = [stats EXCEPT ![u] = Updated(stats[u], e, current)]
    PROVE  /\ \A v \in Subjects \ {u} : RatingsRead(v)' = RatingsRead(v)
           /\ e.type # "rating" => RatingsRead(u)' = RatingsRead(u)
           /\ e.type = "rating" => /\ RatingsRead(u)'.n = current.n + 1
                                  /\ RatingsRead(u)'.sum = current.sum + e.rating
<1>1. /\ stats'[u] = Updated(stats[u], e, current)
      /\ \A v \in Subjects \ {u} : stats'[v] = stats[v]
  BY DEF TypeOK
<1>2. \A v \in Subjects : RatingsRead(v)' = [n |-> stats'[v]["ratings"],
                                           sum |-> stats'[v]["ratingSum"]]
  BY DEF RatingsRead
<1>3. \A v \in Subjects : RatingsRead(v) = [n |-> stats[v]["ratings"],
                                          sum |-> stats[v]["ratingSum"]]
  BY DEF RatingsRead
<1>4. \A v \in Subjects \ {u} : RatingsRead(v)' = RatingsRead(v)
  BY <1>1, <1>2, <1>3
<1>5. /\ e.type = "rating" =>
            /\ Updated(stats[u], e, current)["ratings"] = current.n + 1
            /\ Updated(stats[u], e, current)["ratingSum"] = current.sum + e.rating
      /\ e.type # "rating" =>
            /\ Updated(stats[u], e, current)["ratings"] = stats[u]["ratings"]
            /\ Updated(stats[u], e, current)["ratingSum"] = stats[u]["ratingSum"]
  BY UpdatedRatings, Zenon
<1>6. /\ e.type = "rating" => /\ stats'[u]["ratings"] = current.n + 1
                             /\ stats'[u]["ratingSum"] = current.sum + e.rating
      /\ e.type # "rating" => /\ stats'[u]["ratings"] = stats[u]["ratings"]
                             /\ stats'[u]["ratingSum"] = stats[u]["ratingSum"]
  BY <1>1, <1>5, Zenon
<1> QED BY <1>2, <1>3, <1>4, <1>6

\* A payment or a reset leaves the ratings alone.
LEMMA PaymentKeepsRatings ==
    ASSUME RatingsInv, TypeOK, NEW u \in Subjects, NEW e \in AdminEvents, e.type # "rating",
           stats' = [stats EXCEPT ![u] = Updated(stats[u], e, RatingsRead(u))], Record(u, e),
           UNCHANGED <<reviews, given, reviewing>>
    PROVE  RatingsInv'
<1>1. \A v \in Subjects : RatingsRead(v)' = RatingsRead(v)
  BY RatingsReadTyped, RatingsWritten
<1>2. overlapped \subseteq overlapped'
  BY DEF Record
<1> QED BY <1>1, <1>2, RatingsStay

\* The superadmin's rating counts once more in the row than was read of it.
LEMMA AdminRatingInv ==
    ASSUME RatingsInv, TypeOK, NEW u \in Subjects, NEW e \in AdminEvents, e.type = "rating",
           FireTrustEventAdmin(u, e)
    PROVE  RatingsInv'
<1> DEFINE r == e.rating
           row == RatingsRead(u)
           all == RatingsGiven(u)
<1>1. r \in 1..5
  BY TrustAssumption DEF AdminEvents, Contribution, Missed, Rating, Default, Reset
<1>2. /\ UNCHANGED <<reviews, reviewing>>
      /\ given' = [given EXCEPT ![u] = [n |-> given[u].n + 1, sum |-> given[u].sum + e.rating]]
      /\ stats' = [stats EXCEPT ![u] = Updated(stats[u], e, row)]
      /\ overlapped' = overlapped \union
             (IF \E rv \in reviewing' : rv.of = u THEN {u} ELSE {})
  BY DEF FireTrustEventAdmin, UpdateTrustScore, Record, review
<1>3. row \in Reads
  BY RatingsReadTyped
<1>4. /\ \A v \in Subjects \ {u} : RatingsRead(v)' = RatingsRead(v)
      /\ RatingsRead(u)'.n = row.n + 1 /\ RatingsRead(u)'.sum = row.sum + r
  BY <1>2, <1>3, RatingsWritten
<1>5. \A v \in Subjects : ReviewSummary(v)' = ReviewSummary(v)
  BY <1>2 DEF ReviewSummary
<1>6. /\ \A v \in Subjects \ {u} : RatingsGiven(v)' = RatingsGiven(v)
      /\ RatingsGiven(u)'.n = all.n + 1 /\ RatingsGiven(u)'.sum = all.sum + r
  <2>1. /\ \A v \in Subjects \ {u} : given'[v] = given[v]
        /\ given'[u].n = given[u].n + 1 /\ given'[u].sum = given[u].sum + r
    BY <1>2 DEF TypeOK
  <2>2. \A v \in Subjects \ {u} : RatingsGiven(v)' = RatingsGiven(v)
    BY <1>5, <2>1 DEF RatingsGiven
  <2>3. given[u].n \in Int /\ given[u].sum \in Int
    BY DEF TypeOK, Reads
  <2>4. ReviewSummary(u).n \in Int /\ ReviewSummary(u).sum \in Int
    BY SummaryType DEF RatingsInv
  <2> HIDE DEF r
  <2>5. /\ RatingsGiven(u)'.n = ReviewSummary(u).n + given[u].n + 1
        /\ RatingsGiven(u)'.sum = ReviewSummary(u).sum + (given[u].sum + r)
    BY <1>5, <2>1, <2>3, <2>4 DEF RatingsGiven
  <2>6. RatingsGiven(u)'.sum = all.sum + r
    BY <1>1, <2>3, <2>4, <2>5 DEF RatingsGiven
  <2> QED BY <2>2, <2>3, <2>4, <2>5, <2>6 DEF RatingsGiven
<1>7. all \in Reads
  BY SummaryType DEF RatingsInv
<1> HIDE DEF r, row, all
<1>8. RatingsRead(u)' = [n |-> row.n + 1, sum |-> row.sum + r]
  BY <1>4 DEF RatingsRead
<1>9. RatingsGiven(u)' = [n |-> all.n + 1, sum |-> all.sum + r]
  BY <1>6 DEF RatingsGiven
<1>10. RatingsCounted'
  <2> SUFFICES ASSUME NEW v \in Subjects
               PROVE  /\ RatingsRead(v)'.n <= RatingsGiven(v)'.n
                      /\ RatingsRead(v)'.sum \in RatingsRead(v)'.n .. 5 * RatingsRead(v)'.n
                      /\ v \notin overlapped' => RatingsRead(v)' = RatingsGiven(v)'
    BY DEF RatingsCounted
  <2>1. CASE v # u
    BY <1>2, <1>4, <1>6, <2>1 DEF RatingsInv, RatingsCounted
  <2>2. CASE v = u
    <3>1. /\ row.n <= all.n /\ row.sum \in row.n .. 5 * row.n
          /\ u \notin overlapped => row = all
      BY DEF RatingsInv, RatingsCounted, row, all
    <3>2. /\ row.n \in Nat /\ row.sum \in Nat /\ all.n \in Nat /\ all.sum \in Nat
      BY <1>3, <1>7 DEF Reads
    <3>3. /\ row.n + 1 <= all.n + 1 /\ row.sum + r \in row.n + 1 .. 5 * (row.n + 1)
      BY <1>1, <3>1, <3>2 DEF r
    <3>4. u \notin overlapped' => row = all
      BY <1>2, <3>1
    <3> QED BY <1>4, <1>6, <1>8, <1>9, <2>2, <3>3, <3>4
  <2> QED BY <2>1, <2>2
<1>11. ReadsFresh'
  <2> SUFFICES ASSUME NEW rv \in reviewing
               PROVE  /\ rv.read.n <= RatingsGiven(rv.of)'.n
                      /\ rv.read.sum \in rv.read.n .. 5 * rv.read.n
                      /\ rv.of \notin overlapped' => rv.read = RatingsRead(rv.of)'
    BY <1>2 DEF ReadsFresh
  <2>1. rv.of \in Subjects /\ rv.read \in Reads
    BY DEF TypeOK, ReviewStates
  <2>2. /\ rv.read.n <= RatingsGiven(rv.of).n
        /\ rv.read.sum \in rv.read.n .. 5 * rv.read.n
        /\ rv.of \notin overlapped => rv.read = RatingsRead(rv.of)
    BY DEF RatingsInv, ReadsFresh
  <2>3. CASE rv.of # u
    BY <1>2, <1>4, <1>6, <2>1, <2>2, <2>3
  <2>4. CASE rv.of = u
    <3>1. u \in overlapped'
      BY <1>2, <2>4
    <3>2. rv.read.n \in Nat /\ all.n \in Nat /\ rv.read.n <= all.n
      BY <1>7, <2>1, <2>2, <2>4 DEF Reads, all
    <3>3. rv.read.n <= RatingsGiven(u)'.n
      BY <1>6, <3>2
    <3> QED BY <2>2, <2>4, <3>1, <3>3
  <2> QED BY <2>3, <2>4
<1>12. IsFiniteSet(reviews') /\ ReviewingDistinct'
  BY <1>2 DEF RatingsInv, ReviewingDistinct, Reviewed
<1> QED BY <1>10, <1>11, <1>12 DEF RatingsInv

\* A review that starts has read the row of now.
LEMMA ReviewReadInv ==
    ASSUME RatingsInv, TypeOK, NEW by \in Participants, NEW of \in Subjects,
           NEW rating \in Ratings, ReviewRead(by, of, rating)
    PROVE  RatingsInv'
<1> DEFINE new == [by |-> by, of |-> of, rating |-> rating, known |-> of \in known,
                   read |-> RatingsRead(of)]
<1>1. /\ new.by = by /\ new.of = of /\ new.read = RatingsRead(of)
      /\ reviewing' = reviewing \union {new}
  BY Zenon DEF ReviewRead
<1>2. /\ ~Reviewed(by, of) /\ \A rv \in reviewing : ~(rv.by = by /\ rv.of = of)
      /\ UNCHANGED <<stats, reviews, given, overlapped>>
  BY DEF ReviewRead
<1> HIDE DEF new
<1>3. ReviewingDistinct'
  BY <1>1, <1>2 DEF RatingsInv, ReviewingDistinct, Reviewed
<1>4. /\ \A u : RatingsGiven(u)' = RatingsGiven(u)
      /\ \A u : RatingsRead(u)' = RatingsRead(u)
  BY <1>2 DEF RatingsGiven, ReviewSummary, RatingsRead
<1>5. ReadsFresh'
  BY <1>1, <1>2, <1>4 DEF RatingsInv, ReadsFresh, RatingsCounted
<1>6. RatingsCounted'
  BY <1>2, <1>4 DEF RatingsInv, RatingsCounted
<1> QED BY <1>2, <1>3, <1>5, <1>6 DEF RatingsInv

\* A review of the administrator counts for no member.
LEMMA ReviewAdminInv ==
    ASSUME RatingsInv, TypeOK, NEW by \in Participants, NEW rating \in Ratings,
           ReviewAdmin(by, rating)
    PROVE  RatingsInv'
<1>1. /\ CircleAdmin \in Participants /\ CircleAdmin \notin Subjects
      /\ ~Reviewed(by, CircleAdmin)
      /\ reviews' = reviews \union {Review(by, CircleAdmin, rating)}
      /\ UNCHANGED <<stats, reviewing, given, overlapped>>
  BY TrustAssumption DEF ReviewAdmin, Participants
<1>2. IsFiniteSet(reviews') /\ \A u \in Subjects : ReviewSummary(u)' = ReviewSummary(u)
  BY <1>1, SummaryAdds DEF RatingsInv
<1>3. /\ \A u \in Subjects : RatingsGiven(u)' = RatingsGiven(u)
      /\ \A u \in Subjects : RatingsRead(u)' = RatingsRead(u)
  BY <1>1, <1>2 DEF RatingsGiven, RatingsRead
<1>4. \A rv \in reviewing : rv.of \in Subjects
  BY DEF TypeOK, ReviewStates
<1>5. ReviewingDistinct'
  <2>1. Review(by, CircleAdmin, rating).of = CircleAdmin
    BY DEF Review
  <2> QED BY <1>1, <1>4, <2>1 DEF RatingsInv, ReviewingDistinct, Reviewed
<1>6. ReadsFresh'
  BY <1>1, <1>3, <1>4 DEF RatingsInv, ReadsFresh
<1>7. RatingsCounted'
  BY <1>1, <1>3 DEF RatingsInv, RatingsCounted
<1> QED BY <1>2, <1>5, <1>6, <1>7 DEF RatingsInv

\* A review that is written counts once more than the row it read, and once more
\* than all the ratings before it.
LEMMA ReviewWriteInv ==
    ASSUME RatingsInv, TypeOK, NEW rv \in reviewing, ReviewWrite(rv),
           ~(~rv.known /\ rv.of \in known)
    PROVE  RatingsInv'
<1> DEFINE u == rv.of
           r == rv.rating
           e == Rating(r)
           row == rv.read
           all == RatingsGiven(u)
<1>1. rv.by \in Participants /\ u \in Subjects /\ u \in Participants /\ r \in Ratings
      /\ row \in Reads
  BY TrustAssumption DEF TypeOK, ReviewStates, Participants
<1>2. r \in 1..5 /\ e \in AdminEvents /\ e.type = "rating" /\ e.rating = r
  <2>1. r \in 1..5
    <3>1. r \in Ratings
      BY <1>1, Zenon
    <3>2. Ratings \subseteq 1..5
      BY TrustAssumption, Zenon
    <3> QED BY <3>1, <3>2, Zenon
  <2>2. e \in AdminEvents
    BY <1>1, EventsUsed, Zenon
  <2>3. e.type = "rating" /\ e.rating = r
    BY DEF Rating
  <2> QED BY <2>1, <2>2, <2>3, Zenon
<1>3. /\ reviews' = reviews \union {Review(rv.by, u, r)}
      /\ reviewing' = reviewing \ {rv} /\ given' = given
      /\ stats' = [stats EXCEPT ![u] = Updated(stats[u], e, row)]
      /\ overlapped' = overlapped \union
             (IF \E o \in reviewing' : o.of = u THEN {u} ELSE {})
  BY <1>2 DEF ReviewWrite, UpdateTrustScore, Record
<1>4. ~Reviewed(rv.by, u)
  BY DEF RatingsInv, ReviewingDistinct
<1>5. /\ IsFiniteSet(reviews')
      /\ ReviewSummary(u)'.n = ReviewSummary(u).n + 1
      /\ ReviewSummary(u)'.sum = ReviewSummary(u).sum + r
      /\ \A v \in Subjects \ {u} : ReviewSummary(v)' = ReviewSummary(v)
  BY <1>1, <1>3, <1>4, SummaryAdds DEF RatingsInv
<1>6. /\ \A v \in Subjects \ {u} : RatingsRead(v)' = RatingsRead(v)
      /\ RatingsRead(u)'.n = row.n + 1 /\ RatingsRead(u)'.sum = row.sum + r
  BY <1>1, <1>2, <1>3, RatingsWritten
<1>7. all \in Reads
  BY <1>1, SummaryType DEF RatingsInv
<1>8. /\ \A v \in Subjects \ {u} : RatingsGiven(v)' = RatingsGiven(v)
      /\ RatingsGiven(u)'.n = all.n + 1 /\ RatingsGiven(u)'.sum = all.sum + r
  <2>1. \A v \in Subjects \ {u} : RatingsGiven(v)' = RatingsGiven(v)
    BY <1>3, <1>5 DEF RatingsGiven
  <2>2. given[u].n \in Int /\ given[u].sum \in Int
    BY <1>1 DEF TypeOK, Reads
  <2>3. ReviewSummary(u).n \in Int /\ ReviewSummary(u).sum \in Int
    BY <1>1, SummaryType DEF RatingsInv
  <2>4. /\ RatingsGiven(u)'.n = ReviewSummary(u)'.n + given[u].n
        /\ RatingsGiven(u)'.sum = ReviewSummary(u)'.sum + given[u].sum
        /\ all.n = ReviewSummary(u).n + given[u].n
        /\ all.sum = ReviewSummary(u).sum + given[u].sum
    BY <1>3 DEF RatingsGiven
  <2> HIDE DEF u, r, all
  <2> QED BY <1>2, <1>5, <2>1, <2>2, <2>3, <2>4
<1>9. /\ row.n <= all.n /\ row.sum \in row.n .. 5 * row.n
      /\ u \notin overlapped => row = RatingsRead(u)
      /\ u \notin overlapped => row = all
  BY <1>1 DEF RatingsInv, ReadsFresh, RatingsCounted
<1>10. /\ RatingsRead(u)' = [n |-> row.n + 1, sum |-> row.sum + r]
       /\ RatingsGiven(u)' = [n |-> all.n + 1, sum |-> all.sum + r]
  <2>1. RatingsRead(u)' = [n |-> RatingsRead(u)'.n, sum |-> RatingsRead(u)'.sum]
    BY DEF RatingsRead
  <2>2. RatingsGiven(u)' = [n |-> RatingsGiven(u)'.n, sum |-> RatingsGiven(u)'.sum]
    BY DEF RatingsGiven
  <2> QED BY <1>6, <1>8, <2>1, <2>2, Zenon
<1>11. ReviewingDistinct'
  <2>1. Review(rv.by, u, r).by = rv.by /\ Review(rv.by, u, r).of = u
    BY DEF Review
  <2> QED BY <1>3, <2>1 DEF RatingsInv, ReviewingDistinct, Reviewed
<1>12. \A o \in reviewing : o.of \in Subjects /\ o.read \in Reads
  BY DEF TypeOK, ReviewStates
<1> HIDE DEF u, r, e, row, all
<1>13. RatingsCounted'
  <2> SUFFICES ASSUME NEW v \in Subjects
               PROVE  /\ RatingsRead(v)'.n <= RatingsGiven(v)'.n
                      /\ RatingsRead(v)'.sum \in RatingsRead(v)'.n .. 5 * RatingsRead(v)'.n
                      /\ v \notin overlapped' => RatingsRead(v)' = RatingsGiven(v)'
    BY DEF RatingsCounted
  <2>1. CASE v # u
    BY <1>3, <1>6, <1>8, <2>1 DEF RatingsInv, RatingsCounted
  <2>2. CASE v = u
    <3>1. /\ row.n \in Nat /\ row.sum \in Nat /\ all.n \in Nat /\ all.sum \in Nat
      BY <1>1, <1>7 DEF Reads
    <3>2. /\ row.n + 1 <= all.n + 1 /\ row.sum + r \in row.n + 1 .. 5 * (row.n + 1)
      BY <1>2, <1>9, <3>1
    <3>3. u \notin overlapped' => row = all
      BY <1>3, <1>9
    <3> QED BY <1>6, <1>8, <1>10, <2>2, <3>2, <3>3
  <2> QED BY <2>1, <2>2
<1>14. ReadsFresh'
  <2> SUFFICES ASSUME NEW o \in reviewing, o # rv
               PROVE  /\ o.read.n <= RatingsGiven(o.of)'.n
                      /\ o.read.sum \in o.read.n .. 5 * o.read.n
                      /\ o.of \notin overlapped' => o.read = RatingsRead(o.of)'
    BY <1>3 DEF ReadsFresh
  <2>1. /\ o.read.n <= RatingsGiven(o.of).n
        /\ o.read.sum \in o.read.n .. 5 * o.read.n
        /\ o.of \notin overlapped => o.read = RatingsRead(o.of)
    BY DEF RatingsInv, ReadsFresh
  <2>2. CASE o.of # u
    BY <1>3, <1>6, <1>8, <1>12, <2>1, <2>2
  <2>3. CASE o.of = u
    <3>1. u \in overlapped'
      BY <1>3, <2>3
    <3>2. o.read.n \in Nat /\ all.n \in Nat /\ o.read.n <= all.n
      BY <1>7, <1>12, <2>1, <2>3 DEF Reads, all
    <3>3. o.read.n <= RatingsGiven(u)'.n
      BY <1>8, <3>2
    <3> QED BY <2>1, <2>3, <3>1, <3>3
  <2> QED BY <2>2, <2>3
<1> QED BY <1>5, <1>11, <1>13, <1>14 DEF RatingsInv

\* Nobody has been rated yet.
LEMMA InitRatings == Init => RatingsInv
<1> SUFFICES ASSUME Init PROVE RatingsInv
  OBVIOUS
<1>1. IsFiniteSet(reviews) /\ ReviewingDistinct /\ ReadsFresh
  BY FS_EmptySet DEF Init, ReviewingDistinct, ReadsFresh
<1>2. ASSUME NEW u \in Subjects
      PROVE  RatingsRead(u) = [n |-> 0, sum |-> 0] /\ RatingsGiven(u) = [n |-> 0, sum |-> 0]
  <2> DEFINE rating == [v \in {} |-> v.rating]
  <2>1. {v \in reviews : v.of = u} = {}
    BY DEF Init
  <2>2. Amounts(rating, {})
    BY FS_EmptySet DEF Amounts
  <2>3. Total(rating, {}) = 0 /\ Cardinality({}) = 0
    <3> HIDE DEF rating
    <3> QED BY <2>2, TotalUnfolds, FS_EmptySet
  <2>4. ReviewSummary(u) = [n |-> 0, sum |-> 0]
    BY <2>1, <2>3, Zenon DEF ReviewSummary
  <2>5. given[u] = [n |-> 0, sum |-> 0]
    BY DEF Init
  <2>6. RatingsRead(u) = [n |-> 0, sum |-> 0]
    BY DEF Init, Zero, RatingsRead, Counters
  <2> QED BY <2>4, <2>5, <2>6 DEF RatingsGiven
<1>3. RatingsCounted
  BY <1>2 DEF RatingsCounted
<1> QED BY <1>1, <1>3 DEF RatingsInv

\* Every step keeps the ratings counted, given the types.
LEMMA NextRatings == TypeOK /\ RatingsInv /\ [Next]_vars => RatingsInv'
<1> SUFFICES ASSUME TypeOK, RatingsInv, [Next]_vars PROVE RatingsInv'
  OBVIOUS
<1>1. ASSUME NEW u \in Subjects, NEW onTime \in BOOLEAN, MakeContribution(u, onTime)
      PROVE  RatingsInv'
  <2> DEFINE e == Contribution(onTime, FALSE)
  <2>1. e \in AdminEvents /\ e.type # "rating"
    BY EventsUsed DEF Contribution
  <2>2. /\ stats' = [stats EXCEPT ![u] = Updated(stats[u], e, RatingsRead(u))] /\ Record(u, e)
        /\ UNCHANGED <<reviews, given, reviewing>>
    BY <1>1 DEF MakeContribution, UpdateTrustScore, review
  <2> HIDE DEF e
  <2> QED BY <2>1, <2>2, PaymentKeepsRatings
<1>2. ASSUME NEW u \in Subjects, NEW e \in AdminEvents, FireTrustEventAdmin(u, e)
      PROVE  RatingsInv'
  <2>1. CASE e.type = "rating"
    BY <1>2, <2>1, AdminRatingInv
  <2>2. CASE e.type # "rating"
    <3>1. /\ stats' = [stats EXCEPT ![u] = Updated(stats[u], e, RatingsRead(u))]
          /\ Record(u, e) /\ UNCHANGED <<reviews, given, reviewing>>
      BY <1>2, <2>2 DEF FireTrustEventAdmin, UpdateTrustScore, review
    <3> QED BY <2>2, <3>1, PaymentKeepsRatings
  <2> QED BY <2>1, <2>2
<1>3. ASSUME NEW u \in Subjects, NEW r \in Recordings, MissedRead(r, u) PROVE RatingsInv'
  BY <1>3, RatingsStay DEF MissedRead, review, RatingsRead
<1>4. ASSUME NEW r \in Recordings, MissedCreate(r) PROVE RatingsInv'
  BY <1>4, RatingsStay DEF MissedCreate, review, RatingsRead
<1>5. ASSUME NEW r \in Recordings, MissedUpdate(r) PROVE RatingsInv'
  <2> DEFINE u == recording[r].user
  <2>1. u \in Subjects
    BY <1>5, UserOfRecording DEF MissedUpdate, At
  <2>2. Missed(FALSE) \in AdminEvents /\ Missed(FALSE).type # "rating"
    BY EventsUsed DEF Missed
  <2>3. /\ stats' = [stats EXCEPT ![u] = Updated(stats[u], Missed(FALSE), RatingsRead(u))]
        /\ Record(u, Missed(FALSE)) /\ UNCHANGED <<reviews, given, reviewing>>
    BY <1>5 DEF MissedUpdate, review
  <2> HIDE DEF u
  <2> QED BY <2>1, <2>2, <2>3, PaymentKeepsRatings
<1>6. ASSUME NEW r \in Recordings, MissedScore(r) PROVE RatingsInv'
  BY <1>6, RatingsStay DEF MissedScore, review, RatingsRead
<1>7. ASSUME NEW r \in Recordings, ReportMissed(r) PROVE RatingsInv'
  BY <1>7, RatingsStay DEF ReportMissed, ReportCreditEvent, review, RatingsRead
<1>8. ASSUME NEW r \in Recordings, Die(r) PROVE RatingsInv'
  BY <1>8, RatingsStay DEF Die, review, RatingsRead
<1>9. CASE CompleteCircle
  BY <1>9, RatingsStay DEF CompleteCircle, RatingsRead
<1>10. ASSUME NEW by \in Participants, NEW of \in Subjects, NEW rating \in Ratings,
              ReviewRead(by, of, rating)
       PROVE  RatingsInv'
  BY <1>10, ReviewReadInv
<1>11. ASSUME NEW by \in Participants, NEW rating \in Ratings, ReviewAdmin(by, rating)
       PROVE  RatingsInv'
  BY <1>11, ReviewAdminInv
<1>12. ASSUME NEW rv \in reviewing, ReviewWrite(rv) PROVE RatingsInv'
  <2>1. CASE ~rv.known /\ rv.of \in known
    BY <1>12, <2>1, RatingsStay DEF ReviewWrite, RatingsRead
  <2>2. CASE ~(~rv.known /\ rv.of \in known)
    BY <1>12, <2>2, ReviewWriteInv
  <2> QED BY <2>1, <2>2
<1>13. CASE UNCHANGED vars
  BY <1>13, RatingsStay DEF vars, RatingsRead
<1> QED BY <1>1, <1>2, <1>3, <1>4, <1>5, <1>6, <1>7, <1>8, <1>9, <1>10, <1>11, <1>12,
           <1>13 DEF Next

\* Unless two ratings of a member overlap, the average in the member's row is
\* that of all the ratings given, however many participants rate whom; and it
\* never counts more ratings than there are, nor leaves 1 to 5.
THEOREM RatingsCorrect == Spec => []RatingsCounted
<1>1. Inv => TypeOK
  BY DEF Inv
<1>2. RatingsInv => RatingsCounted
  BY DEF RatingsInv
<1> QED BY <1>1, <1>2, InitInv, NextInv, InitRatings, NextRatings, PTL DEF Spec

-----------------------------------------------------------------------------
(* The score and the parts shown of it.                                    *)

\* A weighted, rounded tenth t lies next to the part p it shows of a whole D.
Near(D, w, t, p) ==
    /\ 2000 * p <= 2 * (D * (w * t)) + w * D
    /\ 2 * (D * (w * t)) <= 2000 * p + w * D

\* Math.round is off by a half at most.
LEMMA RoundBounds ==
    \A n \in Nat, d \in Nat \ {0} :
        /\ Round(n, d) \in Nat
        /\ 2 * (d * Round(n, d)) <= 2 * n + d /\ 2 * n + d <= 2 * (d * Round(n, d)) + 2 * d
BY DEF Round

\* Products of natural numbers.
LEMMA Products ==
    /\ \A a, b \in Nat : a * b \in Nat
    /\ \A a, b \in Nat \ {0} : a * b \in Nat \ {0}
    /\ \A a, b, c \in Int : a * (b * c) = (a * b) * c /\ a * b = b * a
    /\ \A a, b, c \in Int : a * (b + c) = a * b + a * c
    /\ \A a, b \in Int, c \in Nat : a <= b => a * c <= b * c
    /\ \A x \in Nat, y \in Nat \ {0} : (y * x) \div y = x
<1>1. /\ \A a, b \in Nat : a * b \in Nat
      /\ \A a, b \in Nat \ {0} : a * b \in Nat \ {0}
  OBVIOUS
<1>2. \A a, b, c \in Int : a * (b * c) = (a * b) * c /\ a * b = b * a
  OBVIOUS
<1>3. \A a, b, c \in Int : a * (b + c) = a * b + a * c
  OBVIOUS
<1>4. \A a, b \in Int, c \in Nat : a <= b => a * c <= b * c
  OBVIOUS
<1>5. \A x \in Nat, y \in Nat \ {0} : (y * x) \div y = x
  OBVIOUS
<1> QED BY <1>1, <1>2, <1>3, <1>4, <1>5

\* p is the part of D that n of d has with the weight w, m what is rounded of it.
Share(w, n, d, D, m, p) ==
    \E q \in Nat : D = d * q /\ p = w * (n * q) /\ m = 1000 * n

\* The share of n in d, in tenths, lies next to its part of D.
LEMMA ShareNear ==
    ASSUME NEW w \in Nat, NEW n \in Nat, NEW d \in Nat \ {0}, NEW D \in Nat, NEW m, NEW p,
           Share(w, n, d, D, m, p)
    PROVE  Round(m, d) \in Nat /\ p \in Nat /\ Near(D, w, Round(m, d), p)
<1> PICK q \in Nat : D = d * q /\ p = w * (n * q) /\ m = 1000 * n
  BY DEF Share
<1> DEFINE t == Round(m, d)
           y == n * q
           x == D * t
<1>1. t \in Nat /\ 2 * (d * t) <= 2 * m + d /\ 2 * m + d <= 2 * (d * t) + 2 * d
  BY RoundBounds
<1> HIDE DEF t
<1>2. (d * t) * q = x /\ x \in Nat /\ y \in Nat /\ D \in Nat /\ m \in Nat
  BY <1>1, Products
<1>3. (2 * (d * t)) * q <= (2 * m + d) * q /\ (2 * m + d) * q <= (2 * (d * t) + 2 * d) * q
  BY <1>1, <1>2, Products
<1>4. /\ (2 * (d * t)) * q = 2 * x /\ (2 * m + d) * q = 2000 * y + D
      /\ (2 * (d * t) + 2 * d) * q = 2 * x + 2 * D
  BY <1>1, <1>2
<1> HIDE DEF y, x
<1>5. 2 * x <= 2000 * y + D /\ 2000 * y + D <= 2 * x + 2 * D
  BY <1>3, <1>4
<1>6. (2 * x) * w <= (2000 * y + D) * w /\ (2000 * y + D) * w <= (2 * x + 2 * D) * w
  BY <1>2, <1>5, Products
<1>7. /\ (2 * x) * w = 2 * (w * x) /\ (2000 * y + D) * w = 2000 * (w * y) + w * D
      /\ (2 * x + 2 * D) * w = 2 * (w * x) + 2 * (w * D)
  BY <1>2
<1>8. D * (w * t) = w * x
  BY <1>1, <1>2 DEF x
<1>9. w * x \in Nat /\ w * y \in Nat /\ w * D \in Nat
  BY <1>2, Products
<1>10. /\ 2000 * (w * y) <= 2 * (w * x) + w * D
       /\ 2 * (w * x) <= 2000 * (w * y) + w * D
  BY <1>6, <1>7, <1>9
<1>11. p = w * y
  BY DEF y
<1> QED BY <1>1, <1>8, <1>9, <1>10, <1>11 DEF Near, t

\* The score of a row, and the parts shown of it next to what they are made of.
LEMMA ScoreParts ==
    ASSUME NEW s \in Rows
    PROVE  \E D \in Nat \ {0}, p1, p2, p3, p4, p5 \in Nat :
              /\ ComputeATI(s) = Smaller(95, Round(p1 + p2 + p3 + p4 + p5, D))
              /\ Near(D, 30, ATIBreakdown(s).recentBehavior, p1)
              /\ Near(D, 25, ATIBreakdown(s).historyBehavior, p2)
              /\ Near(D, 20, ATIBreakdown(s).payoutReliability, p3)
              /\ Near(D, 15, ATIBreakdown(s).peerScore, p4)
              /\ 1000 * p5 = D * (10 * ATIBreakdown(s).historyLength)
              /\ \A part \in {"recentBehavior", "historyBehavior", "payoutReliability",
                              "peerScore", "historyLength"} : ATIBreakdown(s)[part] \in Nat
<1> DEFINE a == Denominator(s.expLast)
           b == Denominator(s.expected)
           c == Denominator(s.expPost)
           g == Denominator(s.ratings)
           D == 200 * a * b * c * g
           h == D \div 2
           rel == Reliability(s)
           H == HistoryLength
           p1 == IF s.expLast > 0 THEN 30 * s.onLast * (D \div s.expLast) ELSE 30 * h
           p2 == IF 2 * s.expected > 0 THEN 25 * rel * (D \div (2 * s.expected)) ELSE 25 * h
           p3 == IF s.expPost > 0 THEN 20 * s.onPost * (D \div s.expPost) ELSE 28 * h
           p4 == IF s.ratings > 0 THEN 3 * s.ratingSum * (D \div s.ratings) ELSE 15 * h
           p5 == H * (D \div 100)
           t1 == IF s.expLast > 0 THEN Round(1000 * s.onLast, s.expLast) ELSE 10 * 50
           t2 == IF 2 * s.expected > 0 THEN Round(1000 * rel, 2 * s.expected) ELSE 10 * 50
           t3 == IF s.expPost > 0 THEN Round(1000 * s.onPost, s.expPost) ELSE 10 * 70
           t4 == IF 5 * s.ratings > 0 THEN Round(1000 * s.ratingSum, 5 * s.ratings) ELSE 10 * 50
<1>1. ComputeATI(s) = Smaller(95, Round(p1 + p2 + p3 + p4 + p5, D))
  BY DEF ComputeATI
<1>2. ATIBreakdown(s) = [recentBehavior |-> t1, historyBehavior |-> t2, payoutReliability |-> t3,
                         peerScore |-> t4, historyLength |-> H]
  BY DEF ATIBreakdown
<1>3. /\ s.expLast \in Nat /\ s.expected \in Nat /\ s.expPost \in Nat /\ s.ratings \in Nat
      /\ s.onLast \in Nat /\ s.onPost \in Nat /\ s.ratingSum \in Nat
      /\ s.on \in Nat /\ s.late \in Nat /\ s.missed \in Nat /\ s.defaults \in Nat
  BY DEF Rows, Counters
<1>4. rel \in Nat
  BY <1>3 DEF Reliability, Larger
<1>5. H \in Nat
  BY TrustAssumption DEF HistoryLength, Smaller
<1>6. /\ a \in Nat \ {0} /\ (s.expLast > 0 => a = s.expLast)
      /\ b \in Nat \ {0} /\ (s.expected > 0 => b = s.expected)
      /\ c \in Nat \ {0} /\ (s.expPost > 0 => c = s.expPost)
      /\ g \in Nat \ {0} /\ (s.ratings > 0 => g = s.ratings)
  BY <1>3 DEF Denominator
<1> DEFINE k == a * b * c * g
<1> HIDE DEF a, b, c, g, rel, H
<1>7. k \in Nat \ {0} /\ D = 200 * k
  <2>1. a * b \in Nat \ {0}
    BY <1>6, Products
  <2>2. (a * b) * c \in Nat \ {0}
    BY <1>6, <2>1, Products
  <2>3. ((a * b) * c) * g \in Nat \ {0}
    BY <1>6, <2>2, Products
  <2>4. 200 * a * b = 200 * (a * b)
    BY <1>6
  <2>5. (200 * (a * b)) * c = 200 * ((a * b) * c)
    BY <1>6, <2>1
  <2>6. (200 * ((a * b) * c)) * g = 200 * (((a * b) * c) * g)
    BY <1>6, <2>2
  <2> QED BY <2>3, <2>4, <2>5, <2>6
<1>8. \E x \in Nat : k = a * x
  <2>1. k = a * (b * c * g) /\ b * c * g \in Nat
    BY <1>6, Products
  <2> QED BY <2>1
<1>9. \E x \in Nat : k = b * x
  <2>1. k = b * (a * c * g) /\ a * c * g \in Nat
    BY <1>6, Products
  <2> QED BY <2>1
<1>10. \E x \in Nat : k = c * x
  <2>1. k = c * (a * b * g) /\ a * b * g \in Nat
    BY <1>6, Products
  <2> QED BY <2>1
<1>11. \E x \in Nat : k = g * x
  <2>1. k = g * (a * b * c) /\ a * b * c \in Nat
    BY <1>6, Products
  <2> QED BY <2>1
<1> HIDE DEF k, D
<1>12. h = 100 * k /\ D \div 100 = 2 * k /\ D \in Nat \ {0} /\ D \in Nat
  BY <1>7
<1>13. 30 \in Nat /\ 25 \in Nat /\ 20 \in Nat /\ 15 \in Nat
  OBVIOUS
<1>14. t1 \in Nat /\ p1 \in Nat /\ Near(D, 30, t1, p1)
  <2>1. CASE s.expLast > 0
    <3> DEFINE m == 1000 * s.onLast
    <3>1. PICK x \in Nat : k = a * x
      BY <1>8
    <3>2. D = a * (200 * x) /\ 200 * x \in Nat
      BY <1>6, <1>7, <3>1
    <3>3. D \div a = 200 * x
      BY <1>6, <3>2, Products
    <3>4. p1 = 30 * (s.onLast * (200 * x)) /\ t1 = Round(m, a)
      BY <1>3, <1>6, <2>1, <3>3
    <3>5. Share(30, s.onLast, a, D, m, p1)
      BY <3>2, <3>4 DEF Share
    <3>6. 30 \in Nat /\ s.onLast \in Nat /\ a \in Nat \ {0} /\ D \in Nat
      BY <1>3, <1>6, <1>12, <1>13
    <3> HIDE DEF m, p1, t1
    <3>7. Round(m, a) \in Nat /\ p1 \in Nat /\ Near(D, 30, Round(m, a), p1)
      BY <3>5, <3>6, ShareNear
    <3> QED BY <3>4, <3>7, Zenon
  <2>2. CASE ~(s.expLast > 0)
    BY <1>7, <1>12, <2>2 DEF Near
  <2> QED BY <2>1, <2>2
<1>15. t2 \in Nat /\ p2 \in Nat /\ Near(D, 25, t2, p2)
  <2>1. CASE s.expected > 0
    <3> DEFINE m == 1000 * rel
               den == 2 * s.expected
    <3>1. PICK x \in Nat : k = b * x
      BY <1>9
    <3>2. D = den * (100 * x) /\ 100 * x \in Nat /\ den \in Nat \ {0}
      BY <1>6, <1>7, <2>1, <3>1
    <3>3. D \div den = 100 * x
      BY <3>2, Products
    <3>4. p2 = 25 * (rel * (100 * x)) /\ t2 = Round(m, den)
      BY <1>3, <1>4, <2>1, <3>3
    <3> HIDE DEF den
    <3>5. Share(25, rel, den, D, m, p2)
      BY <3>2, <3>4 DEF Share
    <3>6. 25 \in Nat /\ rel \in Nat /\ den \in Nat \ {0} /\ D \in Nat
      BY <1>4, <1>12, <1>13, <3>2
    <3> HIDE DEF m, p2, t2
    <3>7. Round(m, den) \in Nat /\ p2 \in Nat /\ Near(D, 25, Round(m, den), p2)
      BY <3>5, <3>6, ShareNear
    <3> QED BY <3>4, <3>7, Zenon
  <2>2. CASE ~(s.expected > 0)
    BY <1>3, <1>7, <1>12, <2>2 DEF Near
  <2> QED BY <2>1, <2>2
<1>16. t3 \in Nat /\ p3 \in Nat /\ Near(D, 20, t3, p3)
  <2>1. CASE s.expPost > 0
    <3> DEFINE m == 1000 * s.onPost
    <3>1. PICK x \in Nat : k = c * x
      BY <1>10
    <3>2. D = c * (200 * x) /\ 200 * x \in Nat
      BY <1>6, <1>7, <3>1
    <3>3. D \div c = 200 * x
      BY <1>6, <3>2, Products
    <3>4. p3 = 20 * (s.onPost * (200 * x)) /\ t3 = Round(m, c)
      BY <1>3, <1>6, <2>1, <3>3
    <3>5. Share(20, s.onPost, c, D, m, p3)
      BY <3>2, <3>4 DEF Share
    <3>6. 20 \in Nat /\ s.onPost \in Nat /\ c \in Nat \ {0} /\ D \in Nat
      BY <1>3, <1>6, <1>12, <1>13
    <3> HIDE DEF m, p3, t3
    <3>7. Round(m, c) \in Nat /\ p3 \in Nat /\ Near(D, 20, Round(m, c), p3)
      BY <3>5, <3>6, ShareNear
    <3> QED BY <3>4, <3>7, Zenon
  <2>2. CASE ~(s.expPost > 0)
    BY <1>7, <1>12, <2>2 DEF Near
  <2> QED BY <2>1, <2>2
<1>17. t4 \in Nat /\ p4 \in Nat /\ Near(D, 15, t4, p4)
  <2>1. CASE s.ratings > 0
    <3> DEFINE m == 1000 * s.ratingSum
               den == 5 * s.ratings
    <3>1. PICK x \in Nat : k = g * x
      BY <1>11
    <3>2. D = den * (40 * x) /\ 40 * x \in Nat /\ den \in Nat \ {0}
      BY <1>6, <1>7, <2>1, <3>1
    <3>3. D = g * (200 * x) /\ 200 * x \in Nat
      BY <1>6, <1>7, <3>1
    <3>4. D \div g = 200 * x
      BY <1>6, <3>3, Products
    <3>5. p4 = 15 * (s.ratingSum * (40 * x)) /\ t4 = Round(m, den)
      BY <1>3, <1>6, <2>1, <3>4
    <3> HIDE DEF den
    <3>6. Share(15, s.ratingSum, den, D, m, p4)
      BY <3>2, <3>5 DEF Share
    <3>7. den \in Nat \ {0}
      BY <3>2
    <3>8. t4 = Round(m, den)
      BY <3>5
    <3>9. 15 \in Nat /\ s.ratingSum \in Nat /\ D \in Nat
      BY <1>3, <1>12, <1>13
    <3> HIDE DEF m, p4, t4
    <3>10. Round(m, den) \in Nat /\ p4 \in Nat /\ Near(D, 15, Round(m, den), p4)
      BY <3>6, <3>7, <3>9, ShareNear
    <3> QED BY <3>8, <3>10, Zenon
  <2>2. CASE ~(s.ratings > 0)
    BY <1>3, <1>7, <1>12, <2>2 DEF Near
  <2> QED BY <2>1, <2>2
<1>18. p5 \in Nat /\ 1000 * p5 = D * (10 * H)
  <2>1. p5 = H * (2 * k)
    BY <1>12
  <2>2. H * k \in Nat
    BY <1>5, <1>7, Products
  <2>3. p5 = 2 * (H * k) /\ D * (10 * H) = 2000 * (H * k)
    BY <1>5, <1>7, <2>1
  <2> QED BY <2>2, <2>3
<1> HIDE DEF p1, p2, p3, p4, p5, t1, t2, t3, t4
<1>19. \A part \in {"recentBehavior", "historyBehavior", "payoutReliability", "peerScore",
                     "historyLength"} : ATIBreakdown(s)[part] \in Nat
  BY <1>2, <1>5, <1>14, <1>15, <1>16, <1>17
<1>20. /\ ATIBreakdown(s).recentBehavior = t1 /\ ATIBreakdown(s).historyBehavior = t2
       /\ ATIBreakdown(s).payoutReliability = t3 /\ ATIBreakdown(s).peerScore = t4
       /\ ATIBreakdown(s).historyLength = H
  BY <1>2
<1>21. D \in Nat \ {0} /\ p1 \in Nat /\ p2 \in Nat /\ p3 \in Nat /\ p4 \in Nat /\ p5 \in Nat
  BY <1>12, <1>14, <1>15, <1>16, <1>17, <1>18
<1> HIDE DEF D
<1>22. /\ ComputeATI(s) = Smaller(95, Round(p1 + p2 + p3 + p4 + p5, D))
       /\ Near(D, 30, ATIBreakdown(s).recentBehavior, p1)
       /\ Near(D, 25, ATIBreakdown(s).historyBehavior, p2)
       /\ Near(D, 20, ATIBreakdown(s).payoutReliability, p3)
       /\ Near(D, 15, ATIBreakdown(s).peerScore, p4)
       /\ 1000 * p5 = D * (10 * ATIBreakdown(s).historyLength)
  <2>1. /\ Near(D, 30, ATIBreakdown(s).recentBehavior, p1)
        /\ Near(D, 25, ATIBreakdown(s).historyBehavior, p2)
    BY <1>14, <1>15, <1>20, Zenon
  <2>2. /\ Near(D, 20, ATIBreakdown(s).payoutReliability, p3)
        /\ Near(D, 15, ATIBreakdown(s).peerScore, p4)
    BY <1>16, <1>17, <1>20, Zenon
  <2>3. 1000 * p5 = D * (10 * ATIBreakdown(s).historyLength)
    <3>1. 1000 * p5 = D * (10 * H) /\ ATIBreakdown(s).historyLength = H
      BY <1>18, <1>20, Zenon
    <3> QED BY <3>1, Zenon
  <2> QED BY <1>1, <2>1, <2>2, <2>3, Zenon
<1> QED BY <1>19, <1>21, <1>22, ZenonT(60)

\* What the parts shown add up to.
ShownSum(parts) ==
    30 * parts.recentBehavior + 25 * parts.historyBehavior
    + 20 * parts.payoutReliability + 15 * parts.peerScore
    + 10 * parts.historyLength

\* It is the score, but for what the rounding of the parts takes or gives.
AddsUp(s) ==
    ComputeATI(s) < 95 =>
        ShownSum(ATIBreakdown(s)) \in 1000 * ComputeATI(s) - 550 .. 1000 * ComputeATI(s) + 550

\* What lies next to each of its parts, lies next to their sum.
LEMMA NearSum ==
    ASSUME NEW D \in Nat \ {0}, NEW sum \in Nat, NEW ati \in Nat, NEW P \in Nat,
           1000 * P <= D * sum + 45 * D, D * sum <= 1000 * P + 45 * D,
           2 * (D * ati) <= 2 * P + D, 2 * P + D <= 2 * (D * ati) + 2 * D
    PROVE  sum \in 1000 * ati - 550 .. 1000 * ati + 550
<1> DEFINE x == D * ati
           z == D * sum
<1>1. x \in Nat /\ z \in Nat
  BY Products
<1>2. D * (sum - 1000 * ati) = z - 1000 * x /\ D * (1000 * ati - sum) = 1000 * x - z
  OBVIOUS
<1> HIDE DEF x, z
<1>3. z - 1000 * x <= 545 * D /\ 1000 * x - z <= 545 * D
  BY <1>1 DEF x, z
<1>4. \A y \in Int : D * y <= 545 * D => y <= 545
  OBVIOUS
<1>5. sum - 1000 * ati <= 545 /\ 1000 * ati - sum <= 545
  BY <1>2, <1>3, <1>4
<1> QED BY <1>5

\* The score lies between 0 and 95, and the parts shown add up to it.
LEMMA BreakdownAddsUp ==
    ASSUME NEW s \in Rows
    PROVE  ComputeATI(s) \in 0..95 /\ AddsUp(s)
<1>1. PICK D \in Nat \ {0}, p1, p2, p3, p4, p5 \in Nat :
        /\ ComputeATI(s) = Smaller(95, Round(p1 + p2 + p3 + p4 + p5, D))
        /\ Near(D, 30, ATIBreakdown(s).recentBehavior, p1)
        /\ Near(D, 25, ATIBreakdown(s).historyBehavior, p2)
        /\ Near(D, 20, ATIBreakdown(s).payoutReliability, p3)
        /\ Near(D, 15, ATIBreakdown(s).peerScore, p4)
        /\ 1000 * p5 = D * (10 * ATIBreakdown(s).historyLength)
        /\ \A part \in {"recentBehavior", "historyBehavior", "payoutReliability",
                        "peerScore", "historyLength"} : ATIBreakdown(s)[part] \in Nat
  BY ScoreParts, Zenon
<1> DEFINE t1 == ATIBreakdown(s).recentBehavior
           t2 == ATIBreakdown(s).historyBehavior
           t3 == ATIBreakdown(s).payoutReliability
           t4 == ATIBreakdown(s).peerScore
           t5 == ATIBreakdown(s).historyLength
           P == p1 + p2 + p3 + p4 + p5
           R == Round(P, D)
           sum == ShownSum(ATIBreakdown(s))
<1>2. t1 \in Nat /\ t2 \in Nat /\ t3 \in Nat /\ t4 \in Nat /\ t5 \in Nat
  BY <1>1
<1>3. sum = 30 * t1 + 25 * t2 + 20 * t3 + 15 * t4 + 10 * t5
  BY DEF ShownSum
<1>4. /\ Near(D, 30, t1, p1) /\ Near(D, 25, t2, p2) /\ Near(D, 20, t3, p3)
      /\ Near(D, 15, t4, p4) /\ 1000 * p5 = D * (10 * t5)
  BY <1>1
<1>5. P \in Nat
  OBVIOUS
<1> HIDE DEF t1, t2, t3, t4, t5, sum
<1>6. R \in Nat /\ 2 * (D * R) <= 2 * P + D /\ 2 * P + D <= 2 * (D * R) + 2 * D
  <2> HIDE DEF P
  <2> QED BY <1>5, RoundBounds
<1>7. sum \in Nat /\ 1000 * P <= D * sum + 45 * D /\ D * sum <= 1000 * P + 45 * D
  <2> DEFINE x1 == D * t1
             x2 == D * t2
             x3 == D * t3
             x4 == D * t4
             x5 == D * t5
  <2>1. x1 \in Nat /\ x2 \in Nat /\ x3 \in Nat /\ x4 \in Nat /\ x5 \in Nat
    BY <1>2, Products
  <2>2. D * sum = 30 * x1 + 25 * x2 + 20 * x3 + 15 * x4 + 10 * x5
    BY <1>2, <1>3
  <2>3. /\ D * (30 * t1) = 30 * x1 /\ D * (25 * t2) = 25 * x2 /\ D * (20 * t3) = 20 * x3
        /\ D * (15 * t4) = 15 * x4 /\ D * (10 * t5) = 10 * x5
    BY <1>2
  <2> HIDE DEF x1, x2, x3, x4, x5
  <2>4. /\ 2000 * p1 <= 2 * (30 * x1) + 30 * D /\ 2 * (30 * x1) <= 2000 * p1 + 30 * D
        /\ 2000 * p2 <= 2 * (25 * x2) + 25 * D /\ 2 * (25 * x2) <= 2000 * p2 + 25 * D
        /\ 2000 * p3 <= 2 * (20 * x3) + 20 * D /\ 2 * (20 * x3) <= 2000 * p3 + 20 * D
        /\ 2000 * p4 <= 2 * (15 * x4) + 15 * D /\ 2 * (15 * x4) <= 2000 * p4 + 15 * D
        /\ 1000 * p5 = 10 * x5
    BY <1>4, <2>1, <2>3 DEF Near
  <2>5. sum \in Nat
    BY <1>2, <1>3
  <2> QED BY <2>1, <2>2, <2>4, <2>5
<1>8. ComputeATI(s) = Smaller(95, R)
  BY <1>1
<1> HIDE DEF P, R
<1>9. sum \in 1000 * R - 550 .. 1000 * R + 550
  BY <1>5, <1>6, <1>7, NearSum
<1>10. ComputeATI(s) \in 0..95 /\ (ComputeATI(s) < 95 => ComputeATI(s) = R)
  BY <1>6, <1>8 DEF Smaller
<1> QED BY <1>9, <1>10 DEF sum, AddsUp

\* No recording is about to write a score of u.
Undisturbed(u) == \A r \in Recordings : ~(At(r, "score") /\ recording[r].user = u)

\* A member something was counted of has the score of the counters, unless a
\* recording is about to write one or has left a wrong one.
ScoreIsCurrent ==
    \A u \in Subjects :
        (\E c \in Counters : stats[u][c] > 0) /\ u \notin stale /\ Undisturbed(u)
            => score[u] = ComputeATI(stats[u])

ScoreInv == score \in [Subjects -> 0..95] /\ ScoreIsCurrent

\* The invariant is the property.
LEMMA ScoreInvSuffices == TypeOK /\ ScoreInv => ScoreIsOfTheCounters
<1> SUFFICES ASSUME TypeOK, ScoreInv, NEW u \in Subjects
             PROVE  LET ati == ComputeATI(stats[u])
                        parts == ATIBreakdown(stats[u])
                        sum == 30 * parts.recentBehavior + 25 * parts.historyBehavior
                               + 20 * parts.payoutReliability + 15 * parts.peerScore
                               + 10 * parts.historyLength
                    IN /\ score[u] \in 0..95
                       /\ ati < 95 => sum \in 1000 * ati - 550 .. 1000 * ati + 550
                       /\ (/\ \E c \in Counters : stats[u][c] > 0
                           /\ u \notin stale
                           /\ \A r \in Recordings : ~(At(r, "score") /\ recording[r].user = u))
                          => score[u] = ati
  BY DEF ScoreIsOfTheCounters
<1>1. score[u] \in 0..95
  BY DEF ScoreInv
<1>2. stats[u] \in Rows
  BY DEF TypeOK
<1>3. AddsUp(stats[u])
  BY <1>2, BreakdownAddsUp, Zenon
<1>4. (\E c \in Counters : stats[u][c] > 0) /\ u \notin stale /\ Undisturbed(u)
         => score[u] = ComputeATI(stats[u])
  BY DEF ScoreInv, ScoreIsCurrent
<1>5. LET ati == ComputeATI(stats[u])
          parts == ATIBreakdown(stats[u])
          sum == 30 * parts.recentBehavior + 25 * parts.historyBehavior
                 + 20 * parts.payoutReliability + 15 * parts.peerScore
                 + 10 * parts.historyLength
      IN  ati < 95 => sum \in 1000 * ati - 550 .. 1000 * ati + 550
  BY <1>3, Zenon DEF AddsUp, ShownSum
<1>6. (/\ \E c \in Counters : stats[u][c] > 0
       /\ u \notin stale
       /\ \A r \in Recordings : ~(At(r, "score") /\ recording[r].user = u))
      => score[u] = ComputeATI(stats[u])
  BY <1>4, Zenon DEF Undisturbed
<1> QED BY <1>1, <1>5, <1>6, ZenonT(60)

\* Nobody has a score of any counters yet.
LEMMA InitScore == Init => ScoreInv
<1> SUFFICES ASSUME Init PROVE ScoreInv
  OBVIOUS
<1>1. score \in [Subjects -> 0..95]
  BY DEF Init
<1>2. \A u \in Subjects, c \in Counters : ~(stats[u][c] > 0)
  BY DEF Init, Zero
<1> QED BY <1>1, <1>2 DEF ScoreInv, ScoreIsCurrent

\* Whatever leaves counters and scores alone keeps the scores, if a recording that
\* gives up its score marks the member.
LEMMA ScoreStays ==
    ASSUME TypeOK, ScoreInv, UNCHANGED <<stats, score>>, stale \subseteq stale',
           \A r \in Recordings : At(r, "score") =>
               recording'[r] = recording[r] \/ recording[r].user \in stale'
    PROVE  ScoreInv'
<1> SUFFICES ASSUME NEW u \in Subjects, NEW c \in Counters, stats'[u][c] > 0,
                    u \notin stale', Undisturbed(u)'
             PROVE  score'[u] = ComputeATI(stats'[u])
  BY DEF ScoreInv, ScoreIsCurrent
<1>1. Undisturbed(u)
  BY DEF Undisturbed, At
<1> QED BY <1>1 DEF ScoreInv, ScoreIsCurrent

\* An update of the row in one go leaves the score of the counters.
LEMMA UpdateKeepsScore ==
    ASSUME TypeOK, ScoreInv, NEW u \in Subjects, NEW e \in AdminEvents, NEW current \in Reads,
           UpdateTrustScore(u, e, current), UNCHANGED recording
    PROVE  ScoreInv'
<1> DEFINE new == Updated(stats[u], e, current)
           ati == ComputeATI(new)
<1>1. new \in Rows
  BY UpdatedIsRow DEF TypeOK
<1>2. /\ stats' = [stats EXCEPT ![u] = new] /\ score' = [score EXCEPT ![u] = ati]
      /\ stale' = stale \ {u}
  BY DEF UpdateTrustScore
<1>3. ati \in 0..95
  BY <1>1, BreakdownAddsUp
<1> HIDE DEF new, ati
<1>4. score' \in [Subjects -> 0..95] /\ score'[u] = ati /\ stats'[u] = new
  BY <1>2, <1>3 DEF ScoreInv, TypeOK
<1>5. \A v \in Subjects \ {u} :
         /\ score'[v] = score[v] /\ stats'[v] = stats[v] /\ (v \in stale' <=> v \in stale)
         /\ Undisturbed(v)' <=> Undisturbed(v)
  BY <1>2 DEF ScoreInv, TypeOK, Undisturbed, At
<1>6. ScoreIsCurrent'
  BY <1>4, <1>5 DEF ScoreInv, ScoreIsCurrent, ati
<1> QED BY <1>4, <1>6 DEF ScoreInv

\* Every step keeps the scores those of the counters, given the types.
LEMMA NextScore == TypeOK /\ TypeOK' /\ ScoreInv /\ [Next]_vars => ScoreInv'
<1> SUFFICES ASSUME TypeOK, TypeOK', ScoreInv, [Next]_vars PROVE ScoreInv'
  OBVIOUS
<1>1. ASSUME NEW u \in Subjects, NEW onTime \in BOOLEAN, MakeContribution(u, onTime)
      PROVE  ScoreInv'
  <2>1. Contribution(onTime, FALSE) \in AdminEvents /\ RatingsRead(u) \in Reads
    BY EventsUsed, RatingsReadTyped
  <2>2. UpdateTrustScore(u, Contribution(onTime, FALSE), RatingsRead(u)) /\ UNCHANGED recording
    BY <1>1 DEF MakeContribution
  <2> QED BY <2>1, <2>2, UpdateKeepsScore
<1>2. ASSUME NEW u \in Subjects, NEW e \in AdminEvents, FireTrustEventAdmin(u, e)
      PROVE  ScoreInv'
  <2>1. RatingsRead(u) \in Reads
    BY RatingsReadTyped
  <2>2. UpdateTrustScore(u, e, RatingsRead(u)) /\ UNCHANGED recording
    BY <1>2 DEF FireTrustEventAdmin
  <2> QED BY <2>1, <2>2, UpdateKeepsScore
<1>3. ASSUME NEW u \in Subjects, NEW r \in Recordings, MissedRead(r, u) PROVE ScoreInv'
  <2>1. \A o \in Recordings : At(o, "score") => recording'[o] = recording[o]
    BY <1>3 DEF MissedRead, At, TypeOK
  <2> QED BY <1>3, <2>1, ScoreStays DEF MissedRead
<1>4. ASSUME NEW r \in Recordings, MissedCreate(r) PROVE ScoreInv'
  <2>1. \A o \in Recordings : At(o, "score") => recording'[o] = recording[o]
    BY <1>4 DEF MissedCreate, Move, At, TypeOK
  <2> QED BY <1>4, <2>1, ScoreStays DEF MissedCreate
<1>5. ASSUME NEW r \in Recordings, MissedUpdate(r) PROVE ScoreInv'
  <2> DEFINE u == recording[r].user
             new == Updated(stats[u], Missed(FALSE), RatingsRead(u))
             at == [pc |-> "score", user |-> u, row |-> new]
  <2>1. u \in Subjects
    BY <1>5, UserOfRecording DEF MissedUpdate, At
  <2>2. /\ stats' = [stats EXCEPT ![u] = new] /\ recording' = [recording EXCEPT ![r] = at]
        /\ UNCHANGED <<score, stale>>
    BY <1>5 DEF MissedUpdate
  <2>3. at.pc = "score" /\ at.user = u
    OBVIOUS
  <2> HIDE DEF u, new, at
  <2>4. recording'[r] = at /\ \A o \in Recordings \ {r} : recording'[o] = recording[o]
    BY <2>2 DEF TypeOK
  <2>5. \A v \in Subjects : Undisturbed(v)' => v # u
    BY <2>3, <2>4 DEF Undisturbed, At
  <2>6. ~At(r, "score")
    BY <1>5 DEF MissedUpdate, At
  <2>7. \A v \in Subjects \ {u} : stats'[v] = stats[v] /\ (Undisturbed(v)' => Undisturbed(v))
    <3>1. \A v \in Subjects \ {u} : stats'[v] = stats[v]
      BY <2>2 DEF TypeOK
    <3>2. \A v \in Subjects \ {u} : Undisturbed(v)' => Undisturbed(v)
      BY <2>4, <2>6 DEF Undisturbed, At
    <3> QED BY <3>1, <3>2
  <2>8. ScoreIsCurrent'
    <3> SUFFICES ASSUME NEW v \in Subjects, \E c \in Counters : stats'[v][c] > 0,
                        v \notin stale', Undisturbed(v)'
                 PROVE  score'[v] = ComputeATI(stats'[v])
      BY DEF ScoreIsCurrent
    <3>1. v # u
      BY <2>5
    <3>2. stats'[v] = stats[v] /\ Undisturbed(v)
      BY <2>7, <3>1
    <3>3. v \notin stale /\ score' = score
      BY <2>2
    <3>4. \E c \in Counters : stats[v][c] > 0
      BY <3>2
    <3>5. score[v] = ComputeATI(stats[v])
      BY <3>2, <3>3, <3>4 DEF ScoreInv, ScoreIsCurrent
    <3> QED BY <3>2, <3>3, <3>5, Zenon
  <2> QED BY <2>2, <2>8 DEF ScoreInv
<1>6. ASSUME NEW r \in Recordings, MissedScore(r) PROVE ScoreInv'
  <2> DEFINE u == recording[r].user
             row == recording[r].row
             ati == ComputeATI(row)
             at == [pc |-> "report", user |-> u]
  <2>1. u \in Subjects
    BY <1>6, UserOfRecording DEF MissedScore, At
  <2>2. /\ stats' = stats /\ score' = [score EXCEPT ![u] = ati]
        /\ stale' = IF stats[u] = row THEN stale \ {u} ELSE stale \union {u}
        /\ recording' = [recording EXCEPT ![r] = at]
    BY <1>6 DEF MissedScore, Move
  <2>3. row \in Rows
    <3>1. recording[r] \in RecordingStates /\ recording[r].pc = "score"
      BY <1>6 DEF MissedScore, At, TypeOK
    <3>2. recording[r] \in [pc : {"score"}, user : Subjects, row : Rows]
      BY <3>1 DEF RecordingStates, Idle
    <3> QED BY <3>2
  <2>4. ati \in 0..95
    BY <2>3, BreakdownAddsUp
  <2> HIDE DEF u, row, ati, at
  <2>5. score' \in [Subjects -> 0..95] /\ score'[u] = ati
    BY <2>1, <2>2, <2>4 DEF ScoreInv
  <2>6. stats'[u] = row \/ u \in stale'
    BY <2>2
  <2>7. \A v \in Subjects \ {u} :
           /\ score'[v] = score[v] /\ (v \in stale' <=> v \in stale)
           /\ Undisturbed(v)' => Undisturbed(v)
    <3>1. \A v \in Subjects \ {u} : score'[v] = score[v] /\ (v \in stale' <=> v \in stale)
      BY <2>2 DEF ScoreInv
    <3>2. \A o \in Recordings \ {r} : recording'[o] = recording[o]
      BY <2>2 DEF TypeOK
    <3>3. \A v \in Subjects \ {u} : Undisturbed(v)' => Undisturbed(v)
      BY <3>2 DEF Undisturbed, At, u
    <3> QED BY <3>1, <3>3
  <2>8. ScoreIsCurrent'
    BY <2>2, <2>5, <2>6, <2>7 DEF ScoreInv, ScoreIsCurrent, ati
  <2> QED BY <2>5, <2>8 DEF ScoreInv
<1>7. ASSUME NEW r \in Recordings, ReportMissed(r) PROVE ScoreInv'
  <2>1. \A o \in Recordings : At(o, "score") => recording'[o] = recording[o]
    BY <1>7 DEF ReportMissed, ReportCreditEvent, Move, At, TypeOK
  <2> QED BY <1>7, <2>1, ScoreStays DEF ReportMissed, ReportCreditEvent
<1>8. ASSUME NEW r \in Recordings, Die(r) PROVE ScoreInv'
  <2>1. stale \subseteq stale' /\ (At(r, "score") => recording[r].user \in stale')
    BY <1>8 DEF Die
  <2>2. \A o \in Recordings \ {r} : recording'[o] = recording[o]
    BY <1>8 DEF Die, Move, TypeOK
  <2> QED BY <1>8, <2>1, <2>2, ScoreStays DEF Die
<1>9. CASE CompleteCircle
  BY <1>9, ScoreStays DEF CompleteCircle
<1>10. ASSUME NEW by \in Participants, NEW of \in Subjects, NEW rating \in Ratings,
              ReviewRead(by, of, rating)
       PROVE  ScoreInv'
  BY <1>10, ScoreStays DEF ReviewRead
<1>11. ASSUME NEW by \in Participants, NEW rating \in Ratings, ReviewAdmin(by, rating)
       PROVE  ScoreInv'
  BY <1>11, ScoreStays DEF ReviewAdmin
<1>12. ASSUME NEW rv \in reviewing, ReviewWrite(rv) PROVE ScoreInv'
  <2>1. rv.of \in Subjects /\ rv.rating \in Ratings /\ rv.read \in Reads
    BY DEF TypeOK, ReviewStates
  <2>2. CASE ~rv.known /\ rv.of \in known
    BY <1>12, <2>2, ScoreStays DEF ReviewWrite
  <2>3. CASE ~(~rv.known /\ rv.of \in known)
    <3>1. Rating(rv.rating) \in AdminEvents
      BY <2>1, EventsUsed
    <3>2. UpdateTrustScore(rv.of, Rating(rv.rating), rv.read) /\ UNCHANGED recording
      BY <1>12, <2>3 DEF ReviewWrite
    <3> QED BY <2>1, <3>1, <3>2, UpdateKeepsScore
  <2> QED BY <2>2, <2>3
<1>13. CASE UNCHANGED vars
  BY <1>13, ScoreStays DEF vars
<1> QED BY <1>1, <1>2, <1>3, <1>4, <1>5, <1>6, <1>7, <1>8, <1>9, <1>10, <1>11, <1>12,
           <1>13 DEF Next

\* The score in every member's row is that of the counters next to it, from 0 to
\* 95, unless a recording without a transaction was overtaken or cut off; and the
\* parts shown with it, a formula of their own, add up to it.
THEOREM ScoreCorrect == Spec => []ScoreIsOfTheCounters
<1>1. Inv => TypeOK
  BY DEF Inv
<1> QED BY <1>1, InitInv, NextInv, InitScore, NextScore, ScoreInvSuffices, PTL DEF Spec

-----------------------------------------------------------------------------
(* Payments and the score.                                                 *)

\* A share of n1 in d1 with the weight w weighs no more than one of n2 in d2,
\* m halves standing for the share of nothing.
NotMore(w, m, n1, d1, n2, d2) ==
    IF d1 > 0 THEN IF d2 > 0 THEN n1 * d2 <= n2 * d1 ELSE 2 * (w * n1) <= m * d1
    ELSE d2 > 0 => m * d2 <= 2 * (w * n2)

\* p is what that share is of the whole D.
PartIs(p, w, m, n, d, D) ==
    p \in Nat /\ IF d > 0 THEN d * p = w * (n * D) ELSE 2 * p = m * D

\* What multiplies both sides may be left out.
LEMMA Cancel ==
    ASSUME NEW k \in Nat \ {0}, NEW a \in Int, NEW b \in Int, k * a <= k * b
    PROVE  a <= b
<1>1. k * (a - b) <= 0
  OBVIOUS
<1>2. \A x \in Int : x >= 1 => k * x >= k
  OBVIOUS
<1>3. a - b \in Int
  OBVIOUS
<1> DEFINE y == a - b
<1> HIDE DEF y
<1>4. ~(y >= 1)
  BY <1>1, <1>2, <1>3 DEF y
<1> QED BY <1>3, <1>4 DEF y

\* Parts of two wholes compare as their shares do.
LEMMA PartsCompare ==
    ASSUME NEW w \in Nat, NEW m \in Nat, NEW n1 \in Nat, NEW d1 \in Nat, NEW n2 \in Nat,
           NEW d2 \in Nat, NEW D1 \in Nat \ {0}, NEW D2 \in Nat \ {0}, NEW p1, NEW p2,
           PartIs(p1, w, m, n1, d1, D1), PartIs(p2, w, m, n2, d2, D2),
           NotMore(w, m, n1, d1, n2, d2)
    PROVE  p1 * D2 <= p2 * D1
<1> DEFINE D == D1 * D2
           a == p1 * D2
           b == p2 * D1
<1>1. p1 \in Nat /\ p2 \in Nat
  BY DEF PartIs
<1>2. D \in Nat /\ a \in Nat /\ b \in Nat
  BY <1>1, Products
<1>3. CASE d1 > 0 /\ d2 > 0
  <2>1. d1 * p1 = w * (n1 * D1) /\ d2 * p2 = w * (n2 * D2) /\ n1 * d2 <= n2 * d1
    BY <1>3 DEF PartIs, NotMore
  <2>2. (d1 * d2) * a = (d1 * p1) * (d2 * D2) /\ (d1 * d2) * b = (d2 * p2) * (d1 * D1)
    BY <1>1
  <2>3. /\ (w * (n1 * D1)) * (d2 * D2) = (n1 * d2) * (w * D)
        /\ (w * (n2 * D2)) * (d1 * D1) = (n2 * d1) * (w * D)
    OBVIOUS
  <2>4. w * D \in Nat /\ n1 * d2 \in Int /\ n2 * d1 \in Int /\ d1 * d2 \in Nat \ {0}
    BY <1>2, <1>3, Products
  <2>5. (n1 * d2) * (w * D) <= (n2 * d1) * (w * D)
    BY <2>1, <2>4, Products
  <2>6. (d1 * d2) * a <= (d1 * d2) * b
    BY <2>1, <2>2, <2>3, <2>5
  <2> HIDE DEF a, b
  <2>7. a <= b
    BY <1>2, <2>4, <2>6, Cancel
  <2> QED BY <2>7 DEF a, b
<1>4. CASE d1 > 0 /\ ~(d2 > 0)
  <2>1. d1 * p1 = w * (n1 * D1) /\ 2 * p2 = m * D2 /\ 2 * (w * n1) <= m * d1
    BY <1>4 DEF PartIs, NotMore
  <2>2. (2 * d1) * a = (d1 * p1) * (2 * D2) /\ (2 * d1) * b = (2 * p2) * (d1 * D1)
    BY <1>1
  <2>3. /\ (w * (n1 * D1)) * (2 * D2) = (2 * (w * n1)) * D
        /\ (m * D2) * (d1 * D1) = (m * d1) * D
    OBVIOUS
  <2>4. 2 * (w * n1) \in Int /\ m * d1 \in Int /\ 2 * d1 \in Nat \ {0}
    BY <1>4
  <2>5. (2 * (w * n1)) * D <= (m * d1) * D
    BY <1>2, <2>1, <2>4, Products
  <2>6. (2 * d1) * a <= (2 * d1) * b
    BY <2>1, <2>2, <2>3, <2>5
  <2> HIDE DEF a, b
  <2>7. a <= b
    BY <1>2, <2>4, <2>6, Cancel
  <2> QED BY <2>7 DEF a, b
<1>5. CASE ~(d1 > 0) /\ d2 > 0
  <2>1. 2 * p1 = m * D1 /\ d2 * p2 = w * (n2 * D2) /\ m * d2 <= 2 * (w * n2)
    BY <1>5 DEF PartIs, NotMore
  <2>2. (2 * d2) * a = (2 * p1) * (d2 * D2) /\ (2 * d2) * b = (d2 * p2) * (2 * D1)
    BY <1>1
  <2>3. /\ (m * D1) * (d2 * D2) = (m * d2) * D
        /\ (w * (n2 * D2)) * (2 * D1) = (2 * (w * n2)) * D
    OBVIOUS
  <2>4. 2 * (w * n2) \in Int /\ m * d2 \in Int /\ 2 * d2 \in Nat \ {0}
    BY <1>5
  <2>5. (m * d2) * D <= (2 * (w * n2)) * D
    BY <1>2, <2>1, <2>4, Products
  <2>6. (2 * d2) * a <= (2 * d2) * b
    BY <2>1, <2>2, <2>3, <2>5
  <2> HIDE DEF a, b
  <2>7. a <= b
    BY <1>2, <2>4, <2>6, Cancel
  <2> QED BY <2>7 DEF a, b
<1>6. CASE ~(d1 > 0) /\ ~(d2 > 0)
  <2>1. 2 * p1 = m * D1 /\ 2 * p2 = m * D2
    BY <1>6 DEF PartIs
  <2>2. 2 * a = (2 * p1) * D2 /\ 2 * b = (2 * p2) * D1 /\ (m * D1) * D2 = (m * D2) * D1
    BY <1>1
  <2>3. 2 * a = 2 * b
    BY <2>1, <2>2
  <2> HIDE DEF a, b
  <2>4. a <= b
    BY <1>2, <2>3
  <2> QED BY <2>4 DEF a, b
<1> QED BY <1>3, <1>4, <1>5, <1>6

\* Math.round keeps the order of quotients.
LEMMA RoundMonotone ==
    ASSUME NEW n1 \in Nat, NEW n2 \in Nat, NEW d1 \in Nat \ {0}, NEW d2 \in Nat \ {0},
           n1 * d2 <= n2 * d1
    PROVE  Round(n1, d1) <= Round(n2, d2)
<1> DEFINE r1 == Round(n1, d1)
           r2 == Round(n2, d2)
           D == d1 * d2
           y == r2 + 1
<1>1. r1 \in Nat /\ r2 \in Nat /\ 2 * (d1 * r1) <= 2 * n1 + d1
  BY RoundBounds
<1>2. 2 * n2 + d2 < 2 * (d2 * r2) + 2 * d2
  BY DEF Round
<1> HIDE DEF r1, r2
<1>3. 2 * n2 + d2 < 2 * (d2 * y)
  BY <1>1, <1>2
<1>4. D \in Nat \ {0} /\ D * r1 \in Int /\ D * y \in Int
  BY <1>1, Products
<1>5. (2 * (d1 * r1)) * d2 <= (2 * n1 + d1) * d2
  BY <1>1, Products
<1>6. (2 * (d1 * r1)) * d2 = 2 * (D * r1) /\ (2 * n1 + d1) * d2 = 2 * (n1 * d2) + D
  BY <1>1
<1>7. (2 * n2 + d2) * d1 < (2 * (d2 * y)) * d1
  <2>1. \A a, b \in Int, c \in Nat \ {0} : a < b => a * c < b * c
    OBVIOUS
  <2> QED BY <1>1, <1>3, <2>1
<1>8. (2 * n2 + d2) * d1 = 2 * (n2 * d1) + D /\ (2 * (d2 * y)) * d1 = 2 * (D * y)
  BY <1>1
<1>9. D * r1 < D * y
  <2> DEFINE a == D * r1
             b == D * y
             e == n1 * d2
             f == n2 * d1
  <2>1. e \in Int /\ f \in Int
    OBVIOUS
  <2>2. 2 * a <= 2 * e + D /\ e <= f /\ 2 * f + D < 2 * b
    BY <1>5, <1>6, <1>7, <1>8
  <2> HIDE DEF a, b, e, f, D
  <2> QED BY <1>4, <2>1, <2>2 DEF a, b
<1> HIDE DEF D
<1>10. ~(y <= r1)
  <2> SUFFICES ASSUME y <= r1 PROVE FALSE
    OBVIOUS
  <2>1. y * D <= r1 * D /\ y * D = D * y /\ r1 * D = D * r1
    BY <1>1, <1>4, Products
  <2> QED BY <1>4, <1>9, <2>1
<1> QED BY <1>1, <1>10 DEF r1, r2

-----------------------------------------------------------------------------
\* What computeATI's parts are fractions over, and one of its parts.
Whole(s) ==
    200 * Denominator(s.expLast) * Denominator(s.expected)
        * Denominator(s.expPost) * Denominator(s.ratings)
PartOf(w, m, n, d, D) == IF d > 0 THEN w * n * (D \div d) ELSE m * (D \div 2)

\* The part computeATI takes is the share of the whole.
LEMMA PartOfIs ==
    ASSUME NEW w \in Nat, NEW m \in Nat, NEW n \in Nat, NEW d \in Nat, NEW D \in Nat,
           d > 0 => \E q \in Nat : D = d * q, \E q \in Nat : D = 2 * q
    PROVE  PartIs(PartOf(w, m, n, d, D), w, m, n, d, D)
<1>1. CASE d > 0
  <2>1. PICK q \in Nat : D = d * q
    BY <1>1
  <2>2. D \div d = q
    BY <1>1, <2>1, Products
  <2>3. PartOf(w, m, n, d, D) = (w * n) * q
    BY <1>1, <2>2 DEF PartOf
  <2>4. (w * n) * q \in Nat /\ d * ((w * n) * q) = w * (n * (d * q))
    BY Products
  <2> QED BY <1>1, <2>1, <2>3, <2>4 DEF PartIs
<1>2. CASE ~(d > 0)
  <2>1. PICK q \in Nat : D = 2 * q
    OBVIOUS
  <2>2. D \div 2 = q
    BY <2>1
  <2>3. PartOf(w, m, n, d, D) = m * q
    BY <1>2, <2>2 DEF PartOf
  <2>4. m * q \in Nat /\ 2 * (m * q) = m * (2 * q)
    BY Products
  <2> QED BY <1>2, <2>1, <2>3, <2>4 DEF PartIs
<1> QED BY <1>1, <1>2

\* p1 .. p4 are the parts of the row s in the whole D, p5 that of the age.
Parts(s, D, p1, p2, p3, p4, p5) ==
    /\ PartIs(p1, 30, 30, s.onLast, s.expLast, D)
    /\ PartIs(p2, 25, 25, Reliability(s), 2 * s.expected, D)
    /\ PartIs(p3, 20, 28, s.onPost, s.expPost, D)
    /\ PartIs(p4, 3, 15, s.ratingSum, s.ratings, D)
    /\ 100 * p5 = HistoryLength * D
    /\ ComputeATI(s) = Smaller(95, Round(p1 + p2 + p3 + p4 + p5, D))

\* The score of a row is made of these parts.
LEMMA ScoreMade ==
    ASSUME NEW s \in Rows
    PROVE  \E D \in Nat \ {0}, p1, p2, p3, p4, p5 \in Nat : Parts(s, D, p1, p2, p3, p4, p5)
<1> DEFINE a == Denominator(s.expLast)
           b == Denominator(s.expected)
           c == Denominator(s.expPost)
           g == Denominator(s.ratings)
           k == a * b * c * g
           D == Whole(s)
           rel == Reliability(s)
           den == 2 * s.expected
           p1 == PartOf(30, 30, s.onLast, s.expLast, D)
           p2 == PartOf(25, 25, rel, den, D)
           p3 == PartOf(20, 28, s.onPost, s.expPost, D)
           p4 == PartOf(3, 15, s.ratingSum, s.ratings, D)
           p5 == HistoryLength * (D \div 100)
<1>1. ComputeATI(s) = Smaller(95, Round(p1 + p2 + p3 + p4 + p5, D))
  BY DEF ComputeATI, PartOf, Whole
<1>2. /\ s.expLast \in Nat /\ s.expected \in Nat /\ s.expPost \in Nat /\ s.ratings \in Nat
      /\ s.onLast \in Nat /\ s.onPost \in Nat /\ s.ratingSum \in Nat
      /\ s.on \in Nat /\ s.late \in Nat /\ s.missed \in Nat /\ s.defaults \in Nat
  BY DEF Rows, Counters
<1>3. rel \in Nat /\ den \in Nat
  BY <1>2 DEF Reliability, Larger
<1>4. HistoryLength \in Nat
  BY TrustAssumption DEF HistoryLength, Smaller
<1>5. /\ a \in Nat \ {0} /\ (s.expLast > 0 => a = s.expLast)
      /\ b \in Nat \ {0} /\ (s.expected > 0 => b = s.expected)
      /\ c \in Nat \ {0} /\ (s.expPost > 0 => c = s.expPost)
      /\ g \in Nat \ {0} /\ (s.ratings > 0 => g = s.ratings)
  BY <1>2 DEF Denominator
<1>6. D = 200 * a * b * c * g
  BY DEF Whole
<1> HIDE DEF a, b, c, g, rel, D
<1>7. k \in Nat \ {0} /\ D = 200 * k
  <2>1. a * b \in Nat \ {0}
    BY <1>5, Products
  <2>2. (a * b) * c \in Nat \ {0}
    BY <1>5, <2>1, Products
  <2>3. ((a * b) * c) * g \in Nat \ {0}
    BY <1>5, <2>2, Products
  <2>4. 200 * a * b = 200 * (a * b)
    BY <1>5
  <2>5. (200 * (a * b)) * c = 200 * ((a * b) * c)
    BY <1>5, <2>1
  <2>6. (200 * ((a * b) * c)) * g = 200 * (((a * b) * c) * g)
    BY <1>5, <2>2
  <2> QED BY <1>6, <2>3, <2>4, <2>5, <2>6
<1>8. \E q \in Nat : D = a * q
  <2>1. k = a * (b * c * g) /\ b * c * g \in Nat
    BY <1>5, Products
  <2>2. D = a * (200 * (b * c * g)) /\ 200 * (b * c * g) \in Nat
    BY <1>5, <1>7, <2>1
  <2> QED BY <2>2
<1>9. \E q \in Nat : D = (2 * b) * q
  <2>1. k = b * (a * c * g) /\ a * c * g \in Nat
    BY <1>5, Products
  <2>2. D = (2 * b) * (100 * (a * c * g)) /\ 100 * (a * c * g) \in Nat
    BY <1>5, <1>7, <2>1
  <2> QED BY <2>2
<1>10. \E q \in Nat : D = c * q
  <2>1. k = c * (a * b * g) /\ a * b * g \in Nat
    BY <1>5, Products
  <2>2. D = c * (200 * (a * b * g)) /\ 200 * (a * b * g) \in Nat
    BY <1>5, <1>7, <2>1
  <2> QED BY <2>2
<1>11. \E q \in Nat : D = g * q
  <2>1. k = g * (a * b * c) /\ a * b * c \in Nat
    BY <1>5, Products
  <2>2. D = g * (200 * (a * b * c)) /\ 200 * (a * b * c) \in Nat
    BY <1>5, <1>7, <2>1
  <2> QED BY <2>2
<1>12. /\ \E q \in Nat : D = 2 * q
       /\ D \div 100 = 2 * k /\ D \in Nat \ {0}
  <2> HIDE DEF k
  <2> QED BY <1>7
<1>13. /\ s.expLast > 0 => \E q \in Nat : D = s.expLast * q
       /\ den > 0 => \E q \in Nat : D = den * q
       /\ s.expPost > 0 => \E q \in Nat : D = s.expPost * q
       /\ s.ratings > 0 => \E q \in Nat : D = s.ratings * q
  <2>1. den > 0 => den = 2 * b
    BY <1>2, <1>5
  <2> HIDE DEF k, den
  <2> QED BY <1>5, <1>8, <1>9, <1>10, <1>11, <2>1, Zenon
<1> HIDE DEF k, den
<1>14. 30 \in Nat /\ 25 \in Nat /\ 20 \in Nat /\ 28 \in Nat /\ 3 \in Nat /\ 15 \in Nat
  OBVIOUS
<1>15. D \in Nat
  BY <1>12
<1>16. PartIs(p1, 30, 30, s.onLast, s.expLast, D)
  BY <1>2, <1>12, <1>13, <1>14, <1>15, PartOfIs
<1>17. PartIs(p2, 25, 25, rel, den, D)
  BY <1>3, <1>12, <1>13, <1>14, <1>15, PartOfIs
<1>18. PartIs(p3, 20, 28, s.onPost, s.expPost, D)
  BY <1>2, <1>12, <1>13, <1>14, <1>15, PartOfIs
<1>19. PartIs(p4, 3, 15, s.ratingSum, s.ratings, D)
  BY <1>2, <1>12, <1>13, <1>14, <1>15, PartOfIs
<1>20. p5 \in Nat /\ 100 * p5 = HistoryLength * D
  <2> DEFINE H == HistoryLength
  <2>1. p5 = H * (2 * k)
    BY <1>12
  <2> HIDE DEF H
  <2>2. H \in Nat
    BY <1>4 DEF H
  <2>3. H * k \in Nat
    BY <1>7, <2>2, Products
  <2>4. H * (2 * k) = 2 * (H * k) /\ H * (200 * k) = 200 * (H * k)
    BY <1>7, <2>2
  <2>5. p5 \in Nat /\ 100 * p5 = H * D
    BY <1>7, <2>1, <2>3, <2>4
  <2> QED BY <2>5 DEF H
<1>21. p1 \in Nat /\ p2 \in Nat /\ p3 \in Nat /\ p4 \in Nat
  BY <1>16, <1>17, <1>18, <1>19, Zenon DEF PartIs
<1> HIDE DEF p1, p2, p3, p4, p5
<1>22. Parts(s, D, p1, p2, p3, p4, p5)
  BY <1>1, <1>16, <1>17, <1>18, <1>19, <1>20, Zenon DEF Parts, rel, den
<1>23. p5 \in Nat /\ D \in Nat \ {0}
  BY <1>12, <1>20
<1> QED BY <1>21, <1>22, <1>23, Zenon

\* No share of the row s weighs more than that of the row t.
Below(s, t) ==
    /\ NotMore(30, 30, s.onLast, s.expLast, t.onLast, t.expLast)
    /\ NotMore(25, 25, Reliability(s), 2 * s.expected, Reliability(t), 2 * t.expected)
    /\ NotMore(20, 28, s.onPost, s.expPost, t.onPost, t.expPost)
    /\ NotMore(3, 15, s.ratingSum, s.ratings, t.ratingSum, t.ratings)

\* The counters of a row are numbers, and so is what is made of them.
LEMMA RowFields ==
    ASSUME NEW s \in Rows
    PROVE  /\ s.expLast \in Nat /\ s.expected \in Nat /\ s.expPost \in Nat /\ s.ratings \in Nat
           /\ s.onLast \in Nat /\ s.onPost \in Nat /\ s.ratingSum \in Nat
           /\ s.on \in Nat /\ s.late \in Nat /\ s.missed \in Nat /\ s.defaults \in Nat
           /\ Reliability(s) \in Nat
<1>1. /\ s.expLast \in Nat /\ s.expected \in Nat /\ s.expPost \in Nat /\ s.ratings \in Nat
      /\ s.onLast \in Nat /\ s.onPost \in Nat /\ s.ratingSum \in Nat
      /\ s.on \in Nat /\ s.late \in Nat /\ s.missed \in Nat /\ s.defaults \in Nat
  BY DEF Rows, Counters
<1>2. Reliability(s) \in Nat
  BY <1>1 DEF Reliability, Larger
<1> QED BY <1>1, <1>2

\* Shares that weigh no more make no higher score.
LEMMA ScoresCompare ==
    ASSUME NEW s \in Rows, NEW t \in Rows, Below(s, t)
    PROVE  ComputeATI(s) <= ComputeATI(t)
<1>1. PICK D \in Nat \ {0}, p1, p2, p3, p4, p5 \in Nat : Parts(s, D, p1, p2, p3, p4, p5)
  BY ScoreMade, Zenon
<1>2. PICK E \in Nat \ {0}, q1, q2, q3, q4, q5 \in Nat : Parts(t, E, q1, q2, q3, q4, q5)
  BY ScoreMade, Zenon
<1>3. 30 \in Nat /\ 25 \in Nat /\ 20 \in Nat /\ 28 \in Nat /\ 3 \in Nat /\ 15 \in Nat
  OBVIOUS
<1> DEFINE sden == 2 * s.expected
           tden == 2 * t.expected
<1>4. /\ s.expLast \in Nat /\ s.expected \in Nat /\ s.expPost \in Nat /\ s.ratings \in Nat
      /\ s.onLast \in Nat /\ s.onPost \in Nat /\ s.ratingSum \in Nat /\ Reliability(s) \in Nat
      /\ t.expLast \in Nat /\ t.expected \in Nat /\ t.expPost \in Nat /\ t.ratings \in Nat
      /\ t.onLast \in Nat /\ t.onPost \in Nat /\ t.ratingSum \in Nat /\ Reliability(t) \in Nat
      /\ sden \in Nat /\ tden \in Nat
  BY RowFields
<1> HIDE DEF sden, tden
<1>5. /\ PartIs(p1, 30, 30, s.onLast, s.expLast, D) /\ PartIs(q1, 30, 30, t.onLast, t.expLast, E)
      /\ NotMore(30, 30, s.onLast, s.expLast, t.onLast, t.expLast)
  BY <1>1, <1>2, Zenon DEF Parts, Below
<1>6. p1 * E <= q1 * D
  BY <1>3, <1>4, <1>5, PartsCompare
<1>7. /\ PartIs(p2, 25, 25, Reliability(s), sden, D) /\ PartIs(q2, 25, 25, Reliability(t), tden, E)
      /\ NotMore(25, 25, Reliability(s), sden, Reliability(t), tden)
  BY <1>1, <1>2, Zenon DEF Parts, Below, sden, tden
<1>8. p2 * E <= q2 * D
  BY <1>3, <1>4, <1>7, PartsCompare
<1>9. /\ PartIs(p3, 20, 28, s.onPost, s.expPost, D) /\ PartIs(q3, 20, 28, t.onPost, t.expPost, E)
      /\ NotMore(20, 28, s.onPost, s.expPost, t.onPost, t.expPost)
  BY <1>1, <1>2, Zenon DEF Parts, Below
<1>10. p3 * E <= q3 * D
  BY <1>3, <1>4, <1>9, PartsCompare
<1>11. /\ PartIs(p4, 3, 15, s.ratingSum, s.ratings, D)
       /\ PartIs(q4, 3, 15, t.ratingSum, t.ratings, E)
       /\ NotMore(3, 15, s.ratingSum, s.ratings, t.ratingSum, t.ratings)
  BY <1>1, <1>2, Zenon DEF Parts, Below
<1>12. p4 * E <= q4 * D
  BY <1>3, <1>4, <1>11, PartsCompare
<1>13. p5 * E = q5 * D
  <2> DEFINE H == HistoryLength
  <2>1. H \in Nat
    BY TrustAssumption DEF HistoryLength, Smaller
  <2>2. 100 * p5 = H * D /\ 100 * q5 = H * E
    BY <1>1, <1>2, Zenon DEF Parts
  <2> HIDE DEF H
  <2>3. /\ 100 * (p5 * E) = (100 * p5) * E /\ 100 * (q5 * D) = (100 * q5) * D
        /\ (H * D) * E = (H * E) * D
    BY <2>1
  <2>4. 100 * (p5 * E) = 100 * (q5 * D) /\ p5 * E \in Int /\ q5 * D \in Int
    BY <2>2, <2>3
  <2> QED BY <2>4
<1> DEFINE P == p1 + p2 + p3 + p4 + p5
           Q == q1 + q2 + q3 + q4 + q5
<1>14. P * E <= Q * D
  <2>1. /\ P * E = p1 * E + p2 * E + p3 * E + p4 * E + p5 * E
        /\ Q * D = q1 * D + q2 * D + q3 * D + q4 * D + q5 * D
    OBVIOUS
  <2>2. /\ p1 * E \in Int /\ p2 * E \in Int /\ p3 * E \in Int /\ p4 * E \in Int /\ p5 * E \in Int
        /\ q1 * D \in Int /\ q2 * D \in Int /\ q3 * D \in Int /\ q4 * D \in Int /\ q5 * D \in Int
    OBVIOUS
  <2> HIDE DEF P, Q
  <2> QED BY <1>6, <1>8, <1>10, <1>12, <1>13, <2>1, <2>2
<1>15. P \in Nat /\ Q \in Nat
  OBVIOUS
<1>16. ComputeATI(s) = Smaller(95, Round(P, D)) /\ ComputeATI(t) = Smaller(95, Round(Q, E))
  BY <1>1, <1>2, Zenon DEF Parts
<1> HIDE DEF P, Q
<1>17. Round(P, D) <= Round(Q, E) /\ Round(P, D) \in Nat /\ Round(Q, E) \in Nat
  BY <1>14, <1>15, RoundMonotone, RoundBounds
<1> QED BY <1>16, <1>17 DEF Smaller

-----------------------------------------------------------------------------
\* One more of one more weighs no less, as long as nothing to count stands for no
\* more than the whole weight; none more of one more weighs no more.
LEMMA SharesMove ==
    ASSUME NEW w \in Nat, NEW m \in Nat, NEW n \in Nat, NEW d \in Nat, n <= d, NEW x, NEW y
    PROVE  /\ x = n /\ y = d => NotMore(w, m, n, d, x, y) /\ NotMore(w, m, x, y, n, d)
           /\ m <= 2 * w /\ x = n + 1 /\ y = d + 1 => NotMore(w, m, n, d, x, y)
           /\ x = n /\ y = d + 1 => NotMore(w, m, x, y, n, d)
<1>1. NotMore(w, m, n, d, n, d)
  BY DEF NotMore
<1>2. ASSUME m <= 2 * w PROVE NotMore(w, m, n, d, n + 1, d + 1)
  <2>1. CASE d > 0
    <3> DEFINE z == n * d
    <3>1. z \in Nat /\ n * (d + 1) = z + n /\ (n + 1) * d = z + d
      BY Products
    <3> HIDE DEF z
    <3>2. n * (d + 1) <= (n + 1) * d
      BY <3>1
    <3> QED BY <2>1, <3>2 DEF NotMore
  <2>2. CASE ~(d > 0)
    <3>1. n = 0 /\ d = 0
      BY <2>2
    <3> QED BY <1>2, <3>1 DEF NotMore
  <2> QED BY <2>1, <2>2
<1>3. NotMore(w, m, n, d + 1, n, d)
  <2>1. CASE d > 0
    <3> DEFINE z == n * d
    <3>1. z \in Nat /\ n * (d + 1) = z + n
      BY Products
    <3> HIDE DEF z
    <3>2. n * d <= n * (d + 1)
      BY <3>1 DEF z
    <3> QED BY <2>1, <3>2 DEF NotMore
  <2>2. CASE ~(d > 0)
    <3>1. n = 0 /\ d = 0
      BY <2>2
    <3>2. 2 * (w * 0) = 0 /\ m * 1 = m
      OBVIOUS
    <3> QED BY <3>1, <3>2 DEF NotMore
  <2> QED BY <2>1, <2>2
<1> QED BY <1>1, <1>2, <1>3, Zenon

\* The same of the payments on time less the penalties, in halves.
LEMMA ReliabilityMoves ==
    ASSUME NEW r \in Nat, NEW e \in Nat, NEW q \in Nat, r <= 2 * e
    PROVE  /\ (r = 0 \/ q = r + 2) /\ (e = 0 => q = 2) =>
                  NotMore(25, 25, r, 2 * e, q, 2 * (e + 1))
           /\ q <= r => NotMore(25, 25, q, 2 * (e + 1), r, 2 * e)
<1> DEFINE x == r * e
           y == q * e
<1>1. x \in Nat /\ y \in Nat
  BY Products
<1>2. /\ r * (2 * (e + 1)) = 2 * x + 2 * r /\ q * (2 * (e + 1)) = 2 * y + 2 * q
      /\ r * (2 * e) = 2 * x /\ q * (2 * e) = 2 * y
  OBVIOUS
<1>3. ASSUME r = 0 \/ q = r + 2, e = 0 => q = 2
      PROVE  NotMore(25, 25, r, 2 * e, q, 2 * (e + 1))
  <2>1. CASE e = 0
    BY <1>3, <2>1 DEF NotMore
  <2>2. CASE e # 0
    <3>1. CASE r = 0
      <4>1. x = 0
        BY <3>1
      <4>2. 2 * x + 2 * r <= 2 * y
        BY <1>1, <3>1, <4>1
      <4> QED BY <1>2, <2>2, <4>2 DEF NotMore
    <3>2. CASE q = r + 2
      <4>1. y = x + 2 * e
        BY <3>2
      <4> HIDE DEF x, y
      <4>2. 2 * x + 2 * r <= 2 * y
        BY <1>1, <4>1
      <4> QED BY <1>2, <2>2, <4>2 DEF NotMore
    <3> QED BY <1>3, <3>1, <3>2
  <2> QED BY <2>1, <2>2
<1>4. ASSUME q <= r PROVE NotMore(25, 25, q, 2 * (e + 1), r, 2 * e)
  <2>1. CASE e = 0
    <3>1. q = 0
      BY <1>4, <2>1
    <3> QED BY <2>1, <3>1 DEF NotMore
  <2>2. CASE e # 0
    <3>1. y <= x
      BY <1>4, Products
    <3> HIDE DEF x, y
    <3>2. 2 * y <= 2 * x + 2 * r
      BY <1>1, <3>1
    <3> QED BY <1>2, <2>2, <3>2 DEF NotMore
  <2> QED BY <2>1, <2>2
<1> QED BY <1>3, <1>4

\* What is counted on time is no more than what is counted.
LEMMA ReliabilityWithin ==
    ASSUME NEW row \in Rows, NEW seen \in [Kinds -> Nat], Agree(row, seen)
    PROVE  Reliability(row) <= 2 * row.expected
<1>1. /\ row.on \in Nat /\ row.late \in Nat /\ row.missed \in Nat /\ row.defaults \in Nat
      /\ row.expected = row.on + row.late + row.missed
  BY RowFields DEF Agree
<1> QED BY <1>1 DEF Reliability, Larger

\* A payment on time raises every share or leaves it.
LEMMA OnTimeRaises ==
    ASSUME NEW row \in Rows, NEW seen \in [Kinds -> Nat], Agree(row, seen),
           NEW e \in AdminEvents, e.type = "onTime", NEW current \in Reads
    PROVE  ComputeATI(row) <= ComputeATI(Updated(row, e, current))
<1> DEFINE new == Updated(row, e, current)
<1>1. PICK post \in BOOLEAN : e = [type |-> "onTime", post |-> post]
  BY EventCases
<1>2. new \in Rows
  BY UpdatedIsRow
<1>3. /\ new.on = row.on + 1 /\ new.late = row.late /\ new.missed = row.missed
      /\ new.defaults = row.defaults /\ new.expected = row.expected + 1
      /\ new.onLast = row.onLast + 1 /\ new.expLast = row.expLast + 1
      /\ new.ratings = row.ratings /\ new.ratingSum = row.ratingSum
  BY <1>1 DEF Updated, Cleared, Incremented, Only, Payment, Kinds, Counters
<1>4. \/ new.onPost = row.onPost /\ new.expPost = row.expPost
      \/ new.onPost = row.onPost + 1 /\ new.expPost = row.expPost + 1
  BY <1>1 DEF Updated, Cleared, Incremented, Only, Payment, Kinds, Counters
<1> HIDE DEF new
<1> DEFINE r == Reliability(row)
           q == Reliability(new)
<1>5. /\ row.expLast \in Nat /\ row.expected \in Nat /\ row.expPost \in Nat
      /\ row.ratings \in Nat /\ row.onLast \in Nat /\ row.onPost \in Nat
      /\ row.ratingSum \in Nat /\ row.on \in Nat /\ row.late \in Nat /\ row.missed \in Nat
      /\ row.defaults \in Nat /\ r \in Nat /\ q \in Nat
  BY <1>2, RowFields
<1>6. /\ row.onLast <= row.expLast /\ row.onPost <= row.expPost
      /\ row.expected = row.on + row.late + row.missed /\ row.defaults <= row.missed
  <2>1. seen["missed"] \in Nat /\ seen["default"] \in Nat
    BY DEF Kinds
  <2> QED BY <2>1 DEF Agree
<1>7. r <= 2 * row.expected
  BY ReliabilityWithin
<1>8. (r = 0 \/ q = r + 2) /\ (row.expected = 0 => q = 2)
  <2> DEFINE raw == 2 * row.on - row.late - 3 * row.missed - 6 * row.defaults
             raised == 2 * new.on - new.late - 3 * new.missed - 6 * new.defaults
  <2>1. raw \in Int /\ raised = raw + 2
    BY <1>3, <1>5
  <2>2. r = Larger(0, raw) /\ q = Larger(0, raised)
    BY DEF Reliability
  <2>3. row.expected = 0 => raw = 0
    <3>1. ASSUME NEW a \in Nat, NEW b \in Nat, NEW c \in Nat, NEW d \in Nat, NEW x,
                 x = a + b + c, d <= c, x = 0
          PROVE  2 * a - b - 3 * c - 6 * d = 0
      BY <3>1
    <3>2. /\ row.on \in Nat /\ row.late \in Nat /\ row.missed \in Nat
          /\ row.defaults \in Nat /\ row.defaults <= row.missed
          /\ row.expected = row.on + row.late + row.missed
      BY <1>5, <1>6
    <3>3. row.expected = 0 =>
              2 * row.on - row.late - 3 * row.missed - 6 * row.defaults = 0
      BY <3>1, <3>2
    <3> QED BY <3>3
  <2> HIDE DEF raw, raised, r, q
  <2> QED BY <2>1, <2>2, <2>3 DEF Larger
<1> HIDE DEF r, q
<1>9. 30 \in Nat /\ 20 \in Nat /\ 28 \in Nat /\ 30 <= 2 * 30 /\ 28 <= 2 * 20
  OBVIOUS
<1>10. NotMore(30, 30, row.onLast, row.expLast, new.onLast, new.expLast)
  BY <1>3, <1>5, <1>6, <1>9, SharesMove
<1>11. NotMore(25, 25, r, 2 * row.expected, q, 2 * new.expected)
  BY <1>3, <1>5, <1>7, <1>8, ReliabilityMoves
<1>12. NotMore(20, 28, row.onPost, row.expPost, new.onPost, new.expPost)
  BY <1>4, <1>5, <1>6, <1>9, SharesMove
<1>13. NotMore(3, 15, row.ratingSum, row.ratings, new.ratingSum, new.ratings)
  BY <1>3, <1>5 DEF NotMore
<1>14. Below(row, new)
  BY <1>10, <1>11, <1>12, <1>13, Zenon DEF Below, r, q
<1> QED BY <1>2, <1>14, ScoresCompare DEF new

\* A payment late or missed lowers every share or leaves it.
LEMMA LateLowers ==
    ASSUME NEW row \in Rows, NEW seen \in [Kinds -> Nat], Agree(row, seen),
           NEW e \in AdminEvents, e.type \in Kinds \ {"onTime"}, NEW current \in Reads
    PROVE  ComputeATI(Updated(row, e, current)) <= ComputeATI(row)
<1> DEFINE new == Updated(row, e, current)
<1>1. PICK post \in BOOLEAN, type \in {"late", "missed", "default"} :
          e = [type |-> type, post |-> post]
  <2>1. e.type \in {"late", "missed", "default"} /\ TRUE \in BOOLEAN
    BY DEF Kinds
  <2>2. \/ \E post \in BOOLEAN : e = [type |-> "late", post |-> post]
        \/ \E post \in BOOLEAN : e = [type |-> "missed", post |-> post]
        \/ e = [type |-> "default", post |-> TRUE]
    BY <2>1, EventCases
  <2> QED BY <2>1, <2>2
<1>2. new \in Rows
  BY UpdatedIsRow
<1>3. /\ new.on = row.on /\ new.expected = row.expected + 1
      /\ new.onLast = row.onLast /\ new.expLast = row.expLast + 1
      /\ new.onPost = row.onPost /\ new.expPost \in {row.expPost, row.expPost + 1}
      /\ new.ratings = row.ratings /\ new.ratingSum = row.ratingSum
  BY <1>1 DEF Updated, Cleared, Incremented, Only, Payment, Kinds, Counters
<1>4. /\ new.late \in {row.late, row.late + 1} /\ new.missed \in {row.missed, row.missed + 1}
      /\ new.defaults \in {row.defaults, row.defaults + 1}
  BY <1>1 DEF Updated, Cleared, Incremented, Only, Payment, Kinds, Counters
<1> HIDE DEF new
<1> DEFINE r == Reliability(row)
           q == Reliability(new)
<1>5. /\ row.expLast \in Nat /\ row.expected \in Nat /\ row.expPost \in Nat
      /\ row.ratings \in Nat /\ row.onLast \in Nat /\ row.onPost \in Nat
      /\ row.ratingSum \in Nat /\ row.on \in Nat /\ row.late \in Nat /\ row.missed \in Nat
      /\ row.defaults \in Nat /\ r \in Nat /\ q \in Nat
  BY <1>2, RowFields
<1>6. row.onLast <= row.expLast /\ row.onPost <= row.expPost
  BY DEF Agree
<1>7. r <= 2 * row.expected
  BY ReliabilityWithin
<1>8. q <= r
  BY <1>3, <1>4, <1>5 DEF Reliability, Larger
<1> HIDE DEF r, q
<1>9. 30 \in Nat /\ 20 \in Nat /\ 28 \in Nat
  OBVIOUS
<1>10. NotMore(30, 30, new.onLast, new.expLast, row.onLast, row.expLast)
  BY <1>3, <1>5, <1>6, <1>9, SharesMove
<1>11. NotMore(25, 25, q, 2 * new.expected, r, 2 * row.expected)
  BY <1>3, <1>5, <1>7, <1>8, ReliabilityMoves
<1>12. NotMore(20, 28, new.onPost, new.expPost, row.onPost, row.expPost)
  BY <1>3, <1>5, <1>6, <1>9, SharesMove
<1>13. NotMore(3, 15, new.ratingSum, new.ratings, row.ratingSum, row.ratings)
  BY <1>3, <1>5 DEF NotMore
<1>14. Below(new, row)
  BY <1>10, <1>11, <1>12, <1>13, Zenon DEF Below, r, q
<1> QED BY <1>2, <1>14, ScoresCompare DEF new

\* A default costs at least what a miss after the payout does.
LEMMA DefaultCosts ==
    ASSUME NEW row \in Rows, NEW current \in Reads
    PROVE  ComputeATI(Updated(row, Default, current))
               <= ComputeATI(Updated(row, Missed(TRUE), current))
<1> DEFINE s == Updated(row, Default, current)
           t == Updated(row, Missed(TRUE), current)
<1>1. Default \in AdminEvents /\ Missed(TRUE) \in AdminEvents
  <2>1. TRUE \in BOOLEAN /\ "missed" \in {"onTime", "late", "missed"}
    OBVIOUS
  <2>2. [type |-> "missed", post |-> TRUE]
            \in [type : {"onTime", "late", "missed"}, post : BOOLEAN]
    BY <2>1, Zenon
  <2> QED BY <2>2, Zenon DEF Missed, AdminEvents
<1>2. s \in Rows /\ t \in Rows
  BY <1>1, UpdatedIsRow
<1>3. /\ s.on = t.on /\ s.late = t.late /\ s.missed = t.missed /\ s.defaults = t.defaults + 1
      /\ s.expected = t.expected /\ s.onLast = t.onLast /\ s.expLast = t.expLast
      /\ s.onPost = t.onPost /\ s.expPost = t.expPost
      /\ s.ratings = t.ratings /\ s.ratingSum = t.ratingSum
  BY DEF Updated, Cleared, Incremented, Only, Payment, Kinds, Counters, Default, Missed
<1> HIDE DEF s, t
<1> DEFINE r == Reliability(t)
           q == Reliability(s)
<1>4. /\ t.expLast \in Nat /\ t.expected \in Nat /\ t.expPost \in Nat
      /\ t.ratings \in Nat /\ t.onLast \in Nat /\ t.onPost \in Nat
      /\ t.ratingSum \in Nat /\ t.on \in Nat /\ t.late \in Nat /\ t.missed \in Nat
      /\ t.defaults \in Nat /\ r \in Nat /\ q \in Nat
  BY <1>2, RowFields
<1>5. q <= r
  BY <1>3, <1>4 DEF Reliability, Larger
<1> HIDE DEF r, q
<1>6. NotMore(25, 25, q, 2 * s.expected, r, 2 * t.expected)
  <2> DEFINE d == 2 * t.expected
  <2>1. d \in Nat
    BY <1>4
  <2>2. s.expected = t.expected
    BY <1>3
  <2> HIDE DEF d
  <2>3. q * d <= r * d
    BY <1>4, <1>5, <2>1, Products
  <2>4. NotMore(25, 25, q, d, r, d)
    BY <2>1, <2>3 DEF NotMore
  <2> QED BY <2>2, <2>4 DEF d
<1>7. /\ NotMore(30, 30, s.onLast, s.expLast, t.onLast, t.expLast)
      /\ NotMore(20, 28, s.onPost, s.expPost, t.onPost, t.expPost)
      /\ NotMore(3, 15, s.ratingSum, s.ratings, t.ratingSum, t.ratings)
  BY <1>3, <1>4 DEF NotMore
<1>8. Below(s, t)
  BY <1>6, <1>7, Zenon DEF Below, r, q
<1> QED BY <1>2, <1>8, ScoresCompare DEF s, t

\* What PaymentsMoveTheScore says of one member.
ScoreMoves(u) ==
    LET before == ComputeATI(stats[u])
        after == ComputeATI(stats'[u])
    IN /\ events'[u]["onTime"] > events[u]["onTime"] => after >= before
       /\ (\E k \in Kinds \ {"onTime"} : events'[u][k] > events[u][k]) => after <= before
       /\ events'[u]["default"] > events[u]["default"]
             => after <= ComputeATI(Updated(stats[u], Missed(TRUE), RatingsRead(u)))

\* Where no payment is recorded, nothing is said of the score.
LEMMA NothingMoves ==
    ASSUME TypeOK, NEW u \in Subjects, events'[u] = events[u]
    PROVE  ScoreMoves(u)
<1>1. \A k \in Kinds : events[u][k] \in Nat
  BY DEF TypeOK
<1>2. \A k \in Kinds : ~(events'[u][k] > events[u][k])
  BY <1>1
<1> QED BY <1>2, Zenon DEF ScoreMoves, Kinds

\* An event applied to one row moves every score the right way.
LEMMA EventMoves ==
    ASSUME Inv, NEW u \in Subjects, NEW e \in AdminEvents,
           stats' = [stats EXCEPT ![u] = Updated(stats[u], e, RatingsRead(u))],
           Record(u, e), NEW v \in Subjects
    PROVE  ScoreMoves(v)
<1> DEFINE new == Updated(stats[u], e, RatingsRead(u))
           ati == ComputeATI(stats[u])
           missed == ComputeATI(Updated(stats[u], Missed(TRUE), RatingsRead(u)))
<1>1. /\ stats \in [Subjects -> Rows] /\ events \in [Subjects -> [Kinds -> Nat]]
      /\ Agree(stats[u], events[u])
  BY DEF Inv, TypeOK, CountersAreEvents
<1>2. events'[u] = Seen(u, e) /\ \A o \in Subjects \ {u} : events'[o] = events[o]
  BY RecordSeen DEF Inv
<1>3. RatingsRead(u) \in Reads
  BY RatingsReadTyped DEF Inv
<1>4. stats'[u] = new
  BY <1>1
<1>5. CASE v # u
  BY <1>2, <1>5, NothingMoves DEF Inv
<1>6. CASE v = u /\ ~Payment(e)
  BY <1>2, <1>6, NothingMoves DEF Inv, Seen
<1>7. CASE v = u /\ Payment(e)
  <2> DEFINE after == ComputeATI(new)
  <2>1. \A k \in Kinds \ {e.type} : ~(events'[u][k] > events[u][k])
    <3>1. \A k \in Kinds : events[u][k] \in Nat
      BY <1>1
    <3>2. \A k \in Kinds \ {e.type} : events'[u][k] = events[u][k]
      BY <1>1, <1>2, <1>7 DEF Seen
    <3> QED BY <3>1, <3>2
  <2>2. stats[u] \in Rows /\ events[u] \in [Kinds -> Nat]
    BY <1>1
  <2>3. ati \in Int /\ missed \in Int /\ after \in Int
    <3>1. new \in Rows
      BY <1>3, <2>2, UpdatedIsRow
    <3>2. Missed(TRUE) \in AdminEvents
      <4>1. TRUE \in BOOLEAN /\ "missed" \in {"onTime", "late", "missed"}
        OBVIOUS
      <4>2. [type |-> "missed", post |-> TRUE]
                \in [type : {"onTime", "late", "missed"}, post : BOOLEAN]
        BY <4>1, Zenon
      <4> QED BY <4>2, Zenon DEF Missed, AdminEvents
    <3>3. Updated(stats[u], Missed(TRUE), RatingsRead(u)) \in Rows
      BY <1>3, <2>2, <3>2, UpdatedIsRow
    <3>4. \A s \in Rows : ComputeATI(s) \in 0..95
      BY BreakdownAddsUp
    <3>5. \A n \in 0..95 : n \in Int
      OBVIOUS
    <3> QED BY <2>2, <3>1, <3>3, <3>4, <3>5, Zenon
  <2>4. e.type \in Kinds
    BY <1>7 DEF Payment
  <2>5. e.type = "onTime" => ati <= after
    BY <1>1, <1>3, <2>2, OnTimeRaises
  <2>6. e.type # "onTime" => after <= ati
    BY <1>1, <1>3, <2>2, <2>4, LateLowers
  <2>7. e.type = "default" => after <= missed
    <3>1. e.type = "default" => e = Default
      BY EventCases DEF Default
    <3> QED BY <1>3, <2>2, <3>1, DefaultCosts
  <2> HIDE DEF new, ati, missed, after
  <2>8. events'[u]["onTime"] > events[u]["onTime"] => after >= ati
    BY <2>1, <2>3, <2>5 DEF Kinds
  <2>9. (\E k \in Kinds \ {"onTime"} : events'[u][k] > events[u][k]) => after <= ati
    BY <2>1, <2>6
  <2>10. events'[u]["default"] > events[u]["default"] => after <= missed
    BY <2>1, <2>7 DEF Kinds
  <2> QED BY <1>4, <1>7, <2>8, <2>9, <2>10, Zenon DEF ScoreMoves, ati, missed, after
<1> QED BY <1>5, <1>6, <1>7


\* The score moves as every payment says.
LEMMA NextMoves == Inv /\ [Next]_vars => \A u \in Subjects : ScoreMoves(u)
<1> SUFFICES ASSUME Inv, [Next]_vars, NEW v \in Subjects PROVE ScoreMoves(v)
  OBVIOUS
<1>0. TypeOK
  BY DEF Inv
<1>1. ASSUME NEW u \in Subjects, NEW onTime \in BOOLEAN, MakeContribution(u, onTime)
      PROVE  ScoreMoves(v)
  <2> DEFINE e == Contribution(onTime, FALSE)
  <2>1. e \in AdminEvents
    BY EventsUsed
  <2>2. stats' = [stats EXCEPT ![u] = Updated(stats[u], e, RatingsRead(u))] /\ Record(u, e)
    BY <1>1 DEF MakeContribution, UpdateTrustScore
  <2> HIDE DEF e
  <2> QED BY <2>1, <2>2, EventMoves
<1>2. ASSUME NEW u \in Subjects, NEW e \in AdminEvents, FireTrustEventAdmin(u, e)
      PROVE  ScoreMoves(v)
  <2>1. stats' = [stats EXCEPT ![u] = Updated(stats[u], e, RatingsRead(u))] /\ Record(u, e)
    BY <1>2 DEF FireTrustEventAdmin, UpdateTrustScore
  <2> QED BY <2>1, EventMoves
<1>3. ASSUME NEW r \in Recordings, MissedUpdate(r) PROVE ScoreMoves(v)
  <2> DEFINE u == recording[r].user
  <2>1. u \in Subjects
    BY <1>0, <1>3, UserOfRecording DEF MissedUpdate, At
  <2>2. stats' = [stats EXCEPT ![u] = Updated(stats[u], Missed(FALSE), RatingsRead(u))]
        /\ Record(u, Missed(FALSE))
    BY <1>3 DEF MissedUpdate
  <2>3. Missed(FALSE) \in AdminEvents
    BY EventsUsed
  <2> HIDE DEF u
  <2> QED BY <2>1, <2>2, <2>3, EventMoves
<1>4. ASSUME NEW rv \in reviewing, ReviewWrite(rv) PROVE ScoreMoves(v)
  <2>1. events' = events
    <3>1. CASE ~rv.known /\ rv.of \in known
      BY <1>4, <3>1 DEF ReviewWrite
    <3>2. CASE ~(~rv.known /\ rv.of \in known)
      <4>1. Record(rv.of, Rating(rv.rating))
        BY <1>4, <3>2 DEF ReviewWrite, UpdateTrustScore
      <4> QED BY <4>1 DEF Record, Payment, Rating, Kinds
    <3> QED BY <3>1, <3>2
  <2> QED BY <1>0, <2>1, NothingMoves
<1>5. ASSUME events' = events PROVE ScoreMoves(v)
  BY <1>0, <1>5, NothingMoves
<1>6. ASSUME NEW u \in Subjects, NEW r \in Recordings, MissedRead(r, u) PROVE events' = events
  BY <1>6 DEF MissedRead
<1>7. ASSUME NEW r \in Recordings,
             MissedCreate(r) \/ MissedScore(r) \/ ReportMissed(r) \/ Die(r)
      PROVE  events' = events
  BY <1>7 DEF MissedCreate, MissedScore, ReportMissed, Die
<1>8. CASE CompleteCircle
  BY <1>5, <1>8 DEF CompleteCircle
<1>9. ASSUME NEW by \in Participants, NEW rating \in Ratings,
             (\E of \in Subjects : ReviewRead(by, of, rating)) \/ ReviewAdmin(by, rating)
      PROVE  events' = events
  BY <1>9 DEF ReviewRead, ReviewAdmin
<1>10. CASE UNCHANGED vars
  BY <1>5, <1>10 DEF vars
<1> QED BY <1>1, <1>2, <1>3, <1>4, <1>5, <1>6, <1>7, <1>8, <1>9, <1>10 DEF Next

\* Paying on time never lowers what a member's score is computed to be, paying
\* late or not at all never raises it, and a default costs at least as much as a
\* miss after the payout: for any counters that can be reached, though every
\* payment changes the denominators of the shares.
THEOREM PaymentsCorrect == Spec => PaymentsMoveTheScore
<1>1. Inv /\ [Next]_vars =>
        [\A u \in Subjects :
          LET before == ComputeATI(stats[u])
              after == ComputeATI(stats'[u])
          IN /\ events'[u]["onTime"] > events[u]["onTime"] => after >= before
             /\ (\E k \in Kinds \ {"onTime"} : events'[u][k] > events[u][k])
                   => after <= before
             /\ events'[u]["default"] > events[u]["default"]
                   => after <= ComputeATI(Updated(stats[u], Missed(TRUE), RatingsRead(u)))]_vars
  BY NextMoves, Zenon DEF ScoreMoves
<1> QED BY <1>1, InitInv, NextInv, PTL DEF Spec, PaymentsMoveTheScore
=============================================================================
