---------------------------- MODULE SolvePromise ----------------------------
(***************************************************************************)
(* What solving a captcha is worth, whatever the requests that claim with  *)
(* it do: a solve is spent at most once, on a session that has not been    *)
(* rewarded, or it is lost; a solve that is spent or lost stays so.        *)
(***************************************************************************)

CONSTANTS Challenges, Sessions

VARIABLES
    solve,   \* of each challenge
    rewards  \* the sessions that have been rewarded

promiseVars == <<solve, rewards>>

SolveInit ==
    /\ solve = [c \in Challenges |-> "open"]
    /\ rewards = {}

Solve(c) ==
    /\ solve[c] = "open"
    /\ solve' = [solve EXCEPT ![c] = "solved"]
    /\ UNCHANGED rewards

Spend(c, s) ==
    /\ solve[c] = "solved"
    /\ s \notin rewards
    /\ solve' = [solve EXCEPT ![c] = "spent"]
    /\ rewards' = rewards \cup {s}

(* The statement that expires overdue challenges takes several at once.     *)
Lose(C) ==
    /\ \A c \in C : solve[c] \in {"open", "solved"}
    /\ solve' = [c \in Challenges |-> IF c \in C THEN "lost" ELSE solve[c]]
    /\ UNCHANGED rewards

SolveNext ==
    \/ \E c \in Challenges : Solve(c)
    \/ \E c \in Challenges, s \in Sessions : Spend(c, s)
    \/ \E C \in SUBSET Challenges : Lose(C)

SolveSpec == SolveInit /\ [][SolveNext]_promiseVars
============================================================================
