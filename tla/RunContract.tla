---------------------------- MODULE RunContract ----------------------------
(***************************************************************************)
(* What a run promises those who look at its rows, with no sessions, locks *)
(* or statements: a participant settles, a cancel abandons whoever is      *)
(* pending, and whoever settles last decides the run and has it analyzed,  *)
(* in one step.                                                            *)
(***************************************************************************)
EXTENDS Naturals

CONSTANT Participants

VARIABLES verdict, rows, analyses

cvars == <<verdict, rows, analyses>>

Ends == {"COMPLETED", "FAILED", "ABANDONED", "ERRORED"}

Over(R) == \A p \in Participants : R[p] \in Ends

CInit ==
    /\ verdict = "RUNNING"
    /\ rows = [p \in Participants |-> "PENDING"]
    /\ analyses = 0

\* What the outcomes say of the run.
Judgement(R) == IF \A p \in Participants : R[p] = "ERRORED" THEN "FAILED" ELSE "COMPLETED"

\* A cancel may have abandoned the participant, and decided the run, before; the
\* run may be judged again then, or left as it is.
Settle(p, end) ==
    /\ rows[p] \in {"PENDING", "ABANDONED"}
    /\ rows' = [rows EXCEPT ![p] = end]
    /\ IF Over(rows')
       THEN /\ \/ verdict' = Judgement(rows')
               \/ verdict # "RUNNING" /\ verdict' = verdict
            /\ analyses' = analyses + 1
       ELSE UNCHANGED <<verdict, analyses>>

Cancel ==
    /\ verdict' = "CANCELLED"
    /\ rows' = [p \in Participants |-> IF rows[p] = "PENDING" THEN "ABANDONED" ELSE rows[p]]
    /\ UNCHANGED analyses

CNext == Cancel \/ \E p \in Participants, end \in Ends : Settle(p, end)

CSpec == CInit /\ [][CNext]_cvars
=============================================================================
