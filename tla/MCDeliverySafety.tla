-------------------------- MODULE MCDeliverySafety --------------------------
(***************************************************************************)
(* Two questions about the safety of NotificationDelivery, one of them in  *)
(* each behaviour: two rows under every setting and every route, or three  *)
(* rows of mail, so that an incident could escalate twice.                 *)
(***************************************************************************)
EXTENDS MCNotificationDelivery

VARIABLE question

\* Two rows fill the table of the first: no escalation begins then. In the
\* second nothing is muted, switched off or left to the digest, and a row that
\* was refused once is not retried again.
Asked ==
  \/ /\ question = "settings"
     /\ Len(rows') <= 2
     /\ Len(rows) = 2 => candidates' \subseteq candidates
  \/ /\ question = "escalations"
     /\ UNCHANGED <<muted, alertsOn, digestDue>>
     /\ \A k \in RowIds' : rows[k]'.status \in {"PENDING", "FAILED", "SENT"}
     /\ \A k \in retrying' \ retrying : rows[k].tries = 0

SafetySpec ==
  /\ Init /\ question \in {"settings", "escalations"}
  /\ [][Next /\ Asked /\ UNCHANGED question]_<<vars, question>>
=============================================================================
