--------------------------- MODULE MCUsageReports ---------------------------
(* Small instances of UsageReports: days of two hours. *)
EXTENDS UsageReports, TLC

CONSTANTS boss, u1, k1, k2, m1, nokey, nouser, tok, notok

MCOwner == (k1 :> u1) @@ (k2 :> boss)

At(d, h) == [date |-> d, hour |-> h]
Day(d) == <<At(d, 0), At(d, 1)>>

Regular == Day(1) \o Day(2) \o Day(3) \o Day(4)
\* Clocks go back at the first midnight and forward at the second.
Moving == <<At(1, 0), At(1, 0), At(1, 1), At(2, 1)>> \o Day(3) \o Day(4)
\* Clocks go back in the evening.
Longer == <<At(1, 0), At(1, 1), At(1, 1)>> \o Day(2) \o Day(3)
\* A date is skipped.
Skip == Day(1) \o Day(3) \o Day(4) \o Day(5)

\* A private server in each odd zone, and a public one that prunes
MCHosts ==
  {[zone |-> z, public_usage |-> FALSE, metrics_token |-> tok, retention |-> 0] :
     z \in {Moving, Longer, Skip}}
  \cup {[zone |-> Regular, public_usage |-> TRUE, metrics_token |-> notok, retention |-> 1]}
=============================================================================
