---------------------------- MODULE Anonymization ----------------------------
(***************************************************************************)
(* AnonymizationService (src/src/retention): the weekly rewriting of what  *)
(* is personal in old rows of five tables.                                 *)
(*                                                                         *)
(* A table that fails is a result of 0, whatever was rewritten before, and *)
(* the operation is a success.  Evidence is read at once and written row   *)
(* by row, so what was read can be gone when it is written.                *)
(***************************************************************************)
EXTENDS EvidenceCollection

VARIABLES
    private,    \* table -> its rows, of the tables other than evidence
    anon        \* executeAnonymization

anonymizationVars == <<evidenceVars, private, anon>>

AnonymizedTables == <<"audit_events", "command_executions", "evidence", "user_sessions", "servers">>

(* The age is 1 beyond the retention, and 2 thirty days beyond it; a row is *)
(* raw until it is rewritten.  Of two sessions one is old, or both are.     *)
PrivateRows == [id : 1..2, age : 0..2, raw : BOOLEAN]
PrivateInit ==
    /\ \E age \in 1..2 :
          private = [table \in {"audit_events", "command_executions", "user_sessions", "servers"} |->
                        {[id |-> 1, age |-> age, raw |-> TRUE],
                         [id |-> 2, age |-> IF table = "user_sessions" THEN age - 1 ELSE 0, raw |-> TRUE]}]
    /\ anon = [step |-> "idle", todo |-> <<>>, reading |-> {}, counted |-> 0, total |-> 0,
               credentials |-> TRUE, personalData |-> TRUE, dry |-> FALSE]

AnonymizationInit == EvidenceInit /\ PrivateInit

(* Days pass: what evidence there is becomes older than the retention.      *)
DaysPass ==
    /\ evidence # {} /\ \A row \in evidence : ~row.old
    /\ evidence' = {[row EXCEPT !.old = TRUE] : row \in evidence}
    /\ UNCHANGED <<collects, scene, private, anon>>

(* executeAnonymization, for one table or all of them.                      *)
ExecuteAnonymization ==
    /\ anon.step = "idle"
    /\ \E dry, credentials, personalData \in BOOLEAN, todo \in {AnonymizedTables, <<"evidence">>} :
          \* bound: a dry run, or one table, is asked for with everything on, and
          \* all tables when nothing more is collected
          /\ dry \/ todo = <<"evidence">> => credentials /\ personalData
          /\ todo = AnonymizedTables => \A c \in Collections : collects[c].step \in {"over", "failed"}
          /\ anon' = [anon EXCEPT !.step = "tables", !.todo = todo, !.credentials = credentials,
                                  !.personalData = personalData, !.dry = dry]
    /\ UNCHANGED <<evidenceVars, private>>

\* The result of the table at the head, and on to the next.
Result(a, n) == [a EXCEPT !.step = "tables", !.todo = Tail(@), !.reading = {}, !.counted = 0,
                          !.total = @ + n]

AtTable(table) == anon.step = "tables" /\ anon.todo # <<>> /\ Head(anon.todo) = table

(* countRecordsToAnonymize: what the update would find, but for servers,    *)
(* where the thirty days are not counted in.                                *)
OldRows(table) ==
    IF table = "evidence" THEN {row \in evidence : row.old}
    ELSE {row \in private[table] : row.age >= 1}

CountRecordsToAnonymize ==
    /\ anon.step = "tables" /\ anon.todo # <<>> /\ anon.dry
    /\ anon' = Result(anon, Cardinality(OldRows(Head(anon.todo))))
    /\ UNCHANGED <<evidenceVars, private>>

Rewritten(table, rows) ==
    [private EXCEPT ![table] = {[row EXCEPT !.raw = @ /\ row \notin rows] : row \in private[table]}]

(* anonymizeAuditEvents: "details" is no column of the table, so that an    *)
(* update that is to clear it is refused as a whole.                        *)
AnonymizeAuditEvents ==
    /\ AtTable("audit_events") /\ ~anon.dry
    /\ LET rows == OldRows("audit_events")
           refused == rows # {} /\ anon.personalData
       IN  /\ anon' = Result(anon, IF refused THEN 0 ELSE Cardinality(rows))
           /\ private' = Rewritten("audit_events", IF refused THEN {} ELSE rows)
    /\ UNCHANGED evidenceVars

(* anonymizeUserSessions: one value for the unique columns of every row; a  *)
(* second row with it is refused, and the update with it.                   *)
AnonymizeUserSessions ==
    /\ AtTable("user_sessions") /\ ~anon.dry
    /\ LET rows == OldRows("user_sessions")
           refused == Cardinality(rows) > 1
       IN  /\ anon' = Result(anon, IF refused THEN 0 ELSE Cardinality(rows))
           /\ private' = Rewritten("user_sessions", IF refused THEN {} ELSE rows)
    /\ UNCHANGED evidenceVars

(* anonymizeServers: those nobody changed for another thirty days.          *)
AnonymizeServers ==
    /\ AtTable("servers") /\ ~anon.dry
    /\ LET rows == IF anon.credentials THEN {row \in OldRows("servers") : row.age = 2} ELSE {}
       IN  /\ anon' = Result(anon, Cardinality(rows))
           /\ private' = Rewritten("servers", rows)
    /\ UNCHANGED evidenceVars

(* anonymizeCommandExecutions: the rows that mention a password, as one;    *)
(* they are counted whether or not there was anything to take out.          *)
AnonymizeCommandExecutions ==
    /\ AtTable("command_executions") /\ ~anon.dry
    /\ LET rows == OldRows("command_executions")
       IN  /\ anon' = Result(anon, Cardinality(rows))
           /\ private' = Rewritten("command_executions", IF anon.credentials THEN rows ELSE {})
    /\ UNCHANGED evidenceVars

(* anonymizeCredentialsInText and anonymizePersonalDataInText find nothing  *)
(* in a compressed text.                                                    *)
AnonymizedContent(content) ==
    IF content.zipped \/ ~(anon.personalData \/ anon.credentials) THEN content
    ELSE [content EXCEPT !.text.personal = FALSE]

(* anonymizeEvidence: the rows are read at once ...                         *)
ReadEvidence ==
    /\ AtTable("evidence") /\ ~anon.dry
    /\ anon' = [anon EXCEPT !.step = "rewriting", !.reading = OldRows("evidence")]
    /\ UNCHANGED <<evidenceVars, private>>

(* ... and written one by one; one that is gone fails the table.            *)
RewriteEvidence ==
    /\ anon.step = "rewriting" /\ anon.reading # {}
    /\ \E read \in anon.reading :
          \/ /\ read.id \in {row.id : row \in evidence}
             /\ evidence' = {IF row.id = read.id
                             THEN [row EXCEPT !.content = AnonymizedContent(read.content)]
                             ELSE row : row \in evidence}
             /\ anon' = [anon EXCEPT !.reading = @ \ {read}, !.counted = @ + 1]
          \/ /\ read.id \notin {row.id : row \in evidence}
             /\ anon' = Result(anon, 0) /\ UNCHANGED evidence
    /\ UNCHANGED <<collects, scene, private>>

EvidenceRewritten ==
    /\ anon.step = "rewriting" /\ anon.reading = {}
    /\ anon' = Result(anon, anon.counted)
    /\ UNCHANGED <<evidenceVars, private>>

FinishAnonymization ==
    /\ anon.step = "tables" /\ anon.todo = <<>>
    /\ anon' = [anon EXCEPT !.step = "over"]
    /\ UNCHANGED <<evidenceVars, private>>

AnonymizationNext ==
    \/ CollectionNext /\ UNCHANGED <<private, anon>>
    \/ DaysPass
    \/ ExecuteAnonymization \/ CountRecordsToAnonymize
    \/ AnonymizeAuditEvents \/ AnonymizeCommandExecutions
    \/ ReadEvidence \/ RewriteEvidence \/ EvidenceRewritten
    \/ AnonymizeUserSessions \/ AnonymizeServers
    \/ FinishAnonymization

-----------------------------------------------------------------------------
AnonymizationType ==
    /\ EvidenceType
    /\ \A table \in DOMAIN private : private[table] \subseteq PrivateRows
    /\ anon.step \in {"idle", "tables", "rewriting", "over"}
    /\ anon.reading # {} => anon.step = "rewriting"

(* Evidence is genuine: what is read back of a row has the signature it was *)
(* stored with, unless the row became old and the anonymization took what   *)
(* was personal out of it; and whatever a collection told its caller it     *)
(* collected is there, unless it was deleted, or the incident was.  Of what *)
(* the total of a collection counts beyond that, the log files that failed, *)
(* there is never a row (evidence.service.ts:86-97, :222-275, :571,         *)
(* :639-664, anonymization.service.ts:357).                                 *)
EvidenceGenuine ==
    /\ \A row \in evidence :
          \/ GenerateSignature(GetEvidenceById(row)) = row.signature
          \/ row.old /\ GetEvidenceById(row) = [row.signature EXCEPT !.personal = FALSE]
    /\ scene.there =>
          \A c \in Collections :
              collects[c].told \subseteq {row.id : row \in evidence} \cup scene.deleted
    /\ \A c \in Collections : \A id \in TotalEvidenceItems(collects[c]) \ collects[c].told :
          \A row \in evidence : row.id # id
=============================================================================
