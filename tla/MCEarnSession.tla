--------------------------- MODULE MCEarnSession ---------------------------
(* Constants for model-checking EarnSession: u1 has two sessions, u2        *)
(* referred it, and a captcha belongs to either of them or to the guest.    *)
EXTENDS EarnSession, TLC

CONSTANTS u1, u2, guest, s1, s2, c1, c2, r1, r2

MCReferrer == [u \in Users |-> IF u = u1 THEN u2 ELSE guest]
MCEarner   == [s \in Events |-> u1]
MCReward   == [s \in Events |-> IF s = s1 THEN 20 ELSE 3]
MCMixed    == [s \in Events |-> IF s = s1 THEN "ptc" ELSE "shortlink"]
MCArticles == [s \in Events |-> "article"]

Symmetric == Permutations(Requests) \cup Permutations(Challenges)
============================================================================
