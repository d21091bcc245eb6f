------------------------- MODULE SettlementMonitor -------------------------
(***************************************************************************)
(* The scheduled audit of settlement over SettlementDelivery: it looks for *)
(* overdue events in the tables and asks the stream how many messages the  *)
(* dead-letter subject retains.                                            *)
(***************************************************************************)
EXTENDS SettlementDelivery

VARIABLE audit      \* the result of the last audit

monitorVars == <<vars, audit>>

NoAudit == [overdueEvents |-> 0, deadLetterSize |-> 0]

MonitorInit == Init /\ audit = NoAudit

\* OverdueEvents: not resolved although the resolution time and the grace
\* period are over, with a market that has no settlement.
OverdueEvents(late) ==
    {e \in late : /\ status[e] # "resolved"
                  /\ \E m \in MarketsOf(e) : paid[m] = 0}

Topics == {"event_resolved", "dead_letter"}

Retained(topic) ==
    IF topic = "dead_letter" THEN Cardinality(deadLetters) ELSE Len(stream)

\* The stream's answer to StreamInfo: its counts per subject cover the
\* subjects the request's filter matches, and no other.
StreamInfoSubjects(filter) == [topic \in Topics \cap filter |-> Retained(topic)]

\* PendingMessages sends no filter, and looks the topic up in the map.
PendingMessages(topic) ==
    LET subjects == StreamInfoSubjects({})
    IN  IF topic \in DOMAIN subjects THEN subjects[topic] ELSE 0

Audit ==
    /\ \E late \in SUBSET Events :
        audit' = [overdueEvents |-> Cardinality(OverdueEvents(late)),
                  deadLetterSize |-> PendingMessages("dead_letter")]
    /\ UNCHANGED vars

MonitorNext == (Next /\ UNCHANGED audit) \/ Audit

MonitorSpec == MonitorInit /\ [][MonitorNext]_monitorVars

\* An audit that runs while the dead-letter subject is not empty reports it
\* (the alert that the runbook tells operators to set up depends on it).
DeadLettersReported ==
    [][Audit => (deadLetters # {} => audit'.deadLetterSize > 0)]_monitorVars
=============================================================================
