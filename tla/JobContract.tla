---------------------------- MODULE JobContract ----------------------------
(***************************************************************************)
(* What the queue promises its users, with no workers, locks or            *)
(* transactions: each job is a little machine of its own, handed out, and  *)
(* then done once, tried again, or given up after MaxAttempts tries.  Only *)
(* a waiting job can be withdrawn.                                         *)
(***************************************************************************)
EXTENDS Naturals

CONSTANTS Jobs, MaxAttempts

VARIABLES phase, tries, work

cvars == <<phase, tries, work>>

Move(S, from, to) ==
    /\ S # {}
    /\ \A j \in S : phase[j] = from
    /\ phase' = [j \in Jobs |-> IF j \in S THEN to ELSE phase[j]]

CInit ==
    /\ phase = [j \in Jobs |-> "ABSENT"]
    /\ tries = [j \in Jobs |-> 0]
    /\ work = [j \in Jobs |-> 0]

Submit(S)   == Move(S, "ABSENT", "PENDING") /\ UNCHANGED <<tries, work>>
Take(j)     == Move({j}, "PENDING", "RUNNING") /\ UNCHANGED <<tries, work>>
Withdraw(S) == Move(S, "PENDING", "CANCELLED") /\ UNCHANGED <<tries, work>>

Complete(j) ==
    /\ Move({j}, "RUNNING", "DONE")
    /\ work' = [work EXCEPT ![j] = @ + 1]
    /\ UNCHANGED tries

Retry(j) ==
    /\ tries[j] + 1 < MaxAttempts
    /\ Move({j}, "RUNNING", "PENDING")
    /\ tries' = [tries EXCEPT ![j] = @ + 1]
    /\ UNCHANGED work

GiveUp(j) ==
    /\ tries[j] + 1 = MaxAttempts
    /\ Move({j}, "RUNNING", "FAILED")
    /\ tries' = [tries EXCEPT ![j] = @ + 1]
    /\ UNCHANGED work

CNext ==
    \/ \E S \in SUBSET Jobs : Submit(S) \/ Withdraw(S)
    \/ \E j \in Jobs : Take(j) \/ Complete(j) \/ Retry(j) \/ GiveUp(j)

CSpec == CInit /\ [][CNext]_cvars
=============================================================================
