--------------------------- MODULE PayoutConfigMC ---------------------------
(* Instances of PayoutConfig with three members.                            *)
EXTENDS PayoutConfig

RosterDef == <<"ada", "bisi", "chidi">>
Named == {"ada", "bisi", "chidi"}
Date(y, m, d) == [year |-> y, month |-> m, day |-> d]
DeadlinesDef == {Date(2027, 1, 31), Date(2027, 11, 30), Date(2028, 1, 30), Date(2028, 2, 29)}
OneDeadline == {Date(2027, 1, 31)}

ScoresDef == {NoScore, 0, 1}

\* The dto moves one member, to a position that may leave a gap.
SingleDef == {<<>>} \cup UNION {[{u} -> 1..4] : u \in Named}
=============================================================================
