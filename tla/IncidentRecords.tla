--------------------------- MODULE IncidentRecords ---------------------------
(***************************************************************************)
(* IncidentsService (src/src/incidents): the row of one incident and the   *)
(* append-only timeline beside it.                                         *)
(*                                                                         *)
(* update reads the row, checks the request against what it read, writes   *)
(* the fields it was given, and then appends an event for every difference *)
(* between what it read and what it was asked for: four awaits and more,   *)
(* with no version and no transaction.  Calls overlap, events fail to be   *)
(* written, and the incident can be deleted in between.                    *)
(***************************************************************************)
EXTENDS Naturals, Sequences, FiniteSets, SequencesExt

CONSTANTS
    RecordCalls,      \* concurrent calls of update, escalateIncident and remove
    MaxRecordCalls,   \* bound: calls after the one that creates the incident
    MaxEventFaults    \* bound: events that the database refuses

ASSUME RecordAssumption == MaxRecordCalls \in Nat /\ MaxEventFaults \in Nat

VARIABLES
    record,     \* the row of the incident
    timeline,   \* its events, oldest first
    updates,    \* call -> how far it is
    past        \* history: what the incident ever was, and what was not recorded

recordVars == <<record, timeline, updates, past>>

\* IncidentState, as far as this service tells its members apart.
RecordStates == {"NEW", "FIX_ATTEMPTS", "FIXED", "ESCALATED"}

(* A request names some of the columns.                                     *)
Requests ==
    [state : {"NEW", "FIX_ATTEMPTS"}] \cup [attempts : 1..2] \cup [maximum : {1}]
        \cup [attempts : {2}, maximum : {2}]
        \cup [state : {"FIXED"}, resolved : {TRUE}]

EscalationRequest == [state |-> "ESCALATED", escalated |-> TRUE]

NoRow == [there |-> FALSE, state |-> "NEW", attempts |-> 0, maximum |-> 2, resolved |-> FALSE,
          escalated |-> FALSE]
NoUpdate == [step |-> "idle", request |-> <<>>, seen |-> NoRow, owed |-> <<>>, ticket |-> NoRow]

OverWith(outcome) == [NoUpdate EXCEPT !.step = outcome]

(* What the timeline has to tell about a row: each state and each number of *)
(* attempts, and that it was resolved or escalated.                         *)
Facts(row) ==
    {<<"state", row.state>>}
        \cup (IF row.attempts = 0 THEN {} ELSE {<<"attempts", row.attempts>>})
        \cup (IF row.resolved THEN {<<"resolved", TRUE>>} ELSE {})
        \cup (IF row.escalated THEN {<<"escalated", TRUE>>} ELSE {})

RecordInit ==
    /\ record = NoRow /\ timeline = <<>>
    /\ updates = [c \in RecordCalls |-> NoUpdate]
    /\ past = [facts |-> {}, lost |-> {}, faults |-> 0, calls |-> 0]

Event(type, tells) == [type |-> type, tells |-> tells]

-----------------------------------------------------------------------------
(* createEvent finds the incident, or throws, and appends.                  *)
CreateEvent(event) ==
    /\ record.there
    /\ timeline' = Append(timeline, event) /\ UNCHANGED past

\* What is owed and not written is lost with the call that owed it.
EventsLost(owed) ==
    /\ past' = [past EXCEPT !.lost = @ \cup {event.tells : event \in ToSet(owed)},
                            !.faults = IF record.there THEN @ + 1 ELSE @]
    /\ record.there => past.faults < MaxEventFaults
    /\ UNCHANGED timeline

(* create: the row, and then its first event; when that fails the caller is *)
(* told so, and the row stays.                                              *)
CreateIncident(c) ==
    /\ updates[c].step = "idle" /\ ~record.there /\ past.facts = {}
    /\ record' = [NoRow EXCEPT !.there = TRUE]
    /\ past' = [past EXCEPT !.facts = Facts(record')]
    /\ updates' = [updates EXCEPT
                      ![c].step = "recording",
                      ![c].owed = <<Event("INCIDENT_CREATED", <<"state", "NEW">>)>>]
    /\ UNCHANGED timeline

(* The first half of update: the row is read, and the number of attempts is *)
(* compared with the maximum that was read, unless the request brings one.  *)
ReadForUpdate(c, request) ==
    /\ \/ updates[c].step = "idle"
       \/ updates[c].step = "escalating" /\ request = EscalationRequest
    /\ LET bound == IF "maximum" \in DOMAIN request THEN request.maximum ELSE record.maximum
           valid == record.there
                      /\ ("attempts" \in DOMAIN request => request.attempts <= bound)
       IN  updates' = [updates EXCEPT
                         ![c] = IF valid
                                THEN [@ EXCEPT !.step = "writing", !.request = request, !.seen = record]
                                ELSE OverWith("failed")]
    /\ UNCHANGED <<record, timeline, past>>

Updated(row, request) ==
    [column \in DOMAIN row |-> IF column \in DOMAIN request THEN request[column] ELSE row[column]]

(* Mutant: the transition is sought in the row that was just written.       *)
EventsOfWritten(request, seen, row) ==
    IF "state" \in DOMAIN request /\ request.state # row.state
    THEN <<Event("STATE_TRANSITION", <<"state", request.state>>)>> ELSE <<>>

(* The events update owes: what was asked for, where it differs from what   *)
(* was read, in the order of the code.  The SSE broadcasts that follow them *)
(* are left out.                                                            *)
EventsOwed(request, seen, row) ==
    LET asked(column) == column \in DOMAIN request
        raised == asked("attempts") /\ request.attempts > seen.attempts
        one(holds, event) == IF holds THEN <<event>> ELSE <<>>
    IN  one(asked("state") /\ request.state # seen.state,
            Event("STATE_TRANSITION", <<"state", row.state>>))
        \o one(raised, Event("FIX_ATTEMPT_INCREMENT", <<"attempts", row.attempts>>))
        \o one(raised /\ request.attempts >= row.maximum,
               Event("MAX_ATTEMPTS_REACHED", <<"maximum", row.maximum>>))
        \o one(asked("resolved") /\ ~seen.resolved,
               Event("INCIDENT_RESOLVED", <<"resolved", TRUE>>))
        \o one(asked("escalated") /\ ~seen.escalated,
               Event("INCIDENT_ESCALATED", <<"escalated", TRUE>>))

(* The write gives back the whole row as it is afterwards; an incident that *)
(* is gone makes it throw.                                                  *)
WriteUpdate(c) ==
    /\ updates[c].step = "writing"
    /\ \/ /\ record.there
          /\ record' = Updated(record, updates[c].request)
          /\ past' = [past EXCEPT !.facts = @ \cup Facts(record')]
          /\ updates' = [updates EXCEPT
                            ![c].step = "recording",
                            ![c].owed = EventsOwed(updates[c].request, updates[c].seen, record')]
       \/ /\ ~record.there
          /\ updates' = [updates EXCEPT ![c] = OverWith("failed")] /\ UNCHANGED <<record, past>>
    /\ UNCHANGED timeline

RecordEvent(c) ==
    /\ updates[c].step = "recording" /\ updates[c].owed # <<>>
    /\ \/ /\ CreateEvent(Head(updates[c].owed))
          /\ updates' = [updates EXCEPT ![c].owed = Tail(@)]
       \/ /\ EventsLost(updates[c].owed)
          /\ updates' = [updates EXCEPT ![c] = OverWith("failed")]
    /\ UNCHANGED record

FinishUpdate(c) ==
    /\ updates[c].step = "recording" /\ updates[c].owed = <<>>
    /\ updates' = [updates EXCEPT ![c] = OverWith("done")]
    /\ UNCHANGED <<record, timeline, past>>

(* escalateIncident reads the row for the ticket, and then updates, which   *)
(* reads it again: the ticket shows the first.                              *)
EscalateIncident(c) ==
    /\ updates[c].step = "idle"
    /\ updates' = [updates EXCEPT
                      ![c] = IF record.there
                             THEN [NoUpdate EXCEPT !.step = "escalating", !.ticket = record]
                             ELSE OverWith("failed")]
    /\ UNCHANGED <<record, timeline, past>>

-----------------------------------------------------------------------------
(* remove: an event, and then the delete, which takes the timeline with it. *)
RemoveIncident(c) ==
    /\ updates[c].step = "idle" /\ record.there
    /\ \/ /\ CreateEvent(Event("INCIDENT_DELETED", <<"deleted", TRUE>>))
          /\ updates' = [updates EXCEPT ![c].step = "deleting"]
       \/ /\ EventsLost(<<>>)
          /\ updates' = [updates EXCEPT ![c].step = "failed"]
    /\ UNCHANGED record

DeleteIncident(c) ==
    /\ updates[c].step = "deleting"
    /\ \/ record.there /\ record' = NoRow /\ timeline' = <<>>
       \/ ~record.there /\ UNCHANGED <<record, timeline>>
    /\ updates' = [updates EXCEPT ![c].step = IF record.there THEN "done" ELSE "failed"]
    /\ UNCHANGED past

-----------------------------------------------------------------------------
(* findOne: the incident with its events.                                   *)
FindOne == IF record.there THEN {[row |-> record, events |-> timeline]} ELSE {}

(* generateTicketPayload                                                    *)
TicketTimeline == {event.tells : event \in UNION {ToSet(found.events) : found \in FindOne}}

(* A call is used again once it is over.                                    *)
ReuseCall(c) ==
    /\ updates[c].step \in {"done", "failed"}
    /\ past.calls < MaxRecordCalls
    /\ updates' = [updates EXCEPT ![c] = NoUpdate]
    /\ past' = [past EXCEPT !.calls = @ + 1]
    /\ UNCHANGED <<record, timeline>>

RecordNext ==
    \E c \in RecordCalls :
        \/ CreateIncident(c)
        \/ \E request \in Requests \cup {EscalationRequest} : ReadForUpdate(c, request)
        \/ WriteUpdate(c) \/ RecordEvent(c) \/ FinishUpdate(c)
        \/ EscalateIncident(c) \/ RemoveIncident(c) \/ DeleteIncident(c)
        \/ ReuseCall(c)

RecordSpec == RecordInit /\ [][RecordNext]_recordVars

-----------------------------------------------------------------------------
RowType ==
    [there : BOOLEAN, state : RecordStates, attempts : 0..2, maximum : 1..2, resolved : BOOLEAN,
     escalated : BOOLEAN]

RecordType ==
    /\ record \in RowType
    /\ ~record.there => timeline = <<>>
    /\ \A c \in RecordCalls :
          /\ updates[c].step \in {"idle", "escalating", "writing", "recording", "deleting", "done", "failed"}
          /\ updates[c].seen \in RowType /\ updates[c].ticket \in RowType
          /\ updates[c].step \in {"idle", "done", "failed"} => updates[c].owed = <<>>

\* A number of attempts below the highest there was: a lower one is no event.
Lowered(fact) ==
    fact[1] = "attempts" /\ \E other \in past.facts : other[1] = "attempts" /\ other[2] > fact[2]

(* The timeline explains the incident: every state it ever had, the highest *)
(* number of fix attempts, its resolution and its escalation are told by an *)
(* event, however the updates overlapped, or the call that brought it is    *)
(* still to write the event, or failed to.  update decides on its events    *)
(* from a row another call has since overwritten                            *)
(* (incidents.service.ts:283-454).                                          *)
TimelineExplains ==
    record.there =>
        \A fact \in past.facts :
            \/ Lowered(fact)
            \/ fact \in TicketTimeline \cup past.lost
            \/ \E c \in RecordCalls : \E event \in ToSet(updates[c].owed) : event.tells = fact
=============================================================================
