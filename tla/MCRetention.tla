---------------------------- MODULE MCRetention -----------------------------
(* Instances of Retention for TLC. *)
EXTENDS Retention

\* Times in half hours: two in one hour, three in one day, a week that spans two
\* months, and gaps.
MCTimes == {0, 1, 30, 1400, 1441, 1444, 1600}
MCBucket == <<[t \in MCTimes |-> t \div 2],
              [t \in MCTimes |-> t \div 48],
              [t \in MCTimes |-> (t + 96) \div 336],
              [t \in MCTimes |-> t \div 1440]>>
=============================================================================
