-------------------------- MODULE EvidenceCollection --------------------------
(***************************************************************************)
(* EvidenceService (src/src/evidence/services): what is collected from a   *)
(* server for one incident, and the signed rows it is kept in.             *)
(*                                                                         *)
(* A collection connects, gathers, stores and disconnects; a full one does *)
(* so for the system, WordPress, the log files and some commands in turn,  *)
(* and goes on when a part fails.  A long text is stored compressed, and   *)
(* its signature is that of the text.                                      *)
(***************************************************************************)
EXTENDS Naturals, Sequences, FiniteSets, SequencesExt

CONSTANTS
    Collections,        \* concurrent calls of the service
    MaxEvidenceLosses   \* bound: rows deleted, and commands, connections and writes that fail

ASSUME EvidenceAssumption == MaxEvidenceLosses \in Nat

VARIABLES
    evidence,   \* the rows of the incident
    collects,   \* call -> how far it is
    scene       \* whether the incident is there, the rows deleted, the faults

evidenceVars == <<evidence, collects, scene>>

(* A text, as far as it matters: what it is of, whether it is long enough   *)
(* to be compressed, and whether there is something personal in it.         *)
Texts == [of : {"system", "wordpress", "logs", "command"}, long : BOOLEAN, personal : BOOLEAN]

\* bound: what comes from a server holds something personal, and only log
\* files and commands are both long and short.
Gathers(part) ==
    [of : {part}, personal : {TRUE},
     long : CASE part = "system" -> {FALSE} [] part = "wordpress" -> {TRUE} [] OTHER -> BOOLEAN]

Full == <<"system", "wordpress", "logs", "command">>
Plans == {<<part>> : part \in {"system", "wordpress", "logs", "command"}} \cup {Full}

(* getStandardLogPaths: the paths stand for two.                            *)
LogPaths == 2

NoText == [of |-> "system", long |-> FALSE, personal |-> FALSE]
NoCollection ==
    [step |-> "idle", plan |-> <<>>, full |-> FALSE, paths |-> 0, linked |-> FALSE,
     text |-> NoText, told |-> {}, missed |-> {}, left |-> 0]

EvidenceInit ==
    /\ evidence = {}
    /\ collects = [c \in Collections |-> NoCollection]
    /\ scene = [there |-> TRUE, deleted |-> {}, faults |-> 0]

Failed ==
    /\ scene.faults + Cardinality(scene.deleted) < MaxEvidenceLosses
    /\ scene' = [scene EXCEPT !.faults = @ + 1]

-----------------------------------------------------------------------------
(* generateSignature: no two texts have the same.                           *)
GenerateSignature(text) == text

(* The column: the text, or base64 of what gzip makes of it.                *)
Stored(text) == [zipped |-> text.long, text |-> text]

(* Mutant: the signature of what is stored, and not of the text.            *)
RowSignedAsStored(id, text) ==
    [id |-> id, content |-> Stored(text), signature |-> Stored(text), old |-> FALSE]

RowOf(id, text) ==
    [id |-> id, content |-> Stored(text), signature |-> GenerateSignature(text), old |-> FALSE]

(* storeEvidence: the database refuses a row of no incident.                *)
StoreEvidence(id, text) ==
    /\ scene.there
    /\ evidence' = evidence \cup {RowOf(id, text)}
    /\ UNCHANGED scene

StoreFails ==
    /\ \/ Failed
       \/ ~scene.there /\ UNCHANGED scene
    /\ UNCHANGED evidence

(* getEvidenceById reads what is compressed; searchEvidence and             *)
(* analyzeLogPatterns look for a pattern in the column, where a compressed  *)
(* text has none.                                                           *)
GetEvidenceById(row) == row.content.text
SearchEvidence(holds(_)) == {row \in evidence : ~row.content.zipped /\ holds(row.content.text)}
AnalyzeLogPatterns(holds(_)) == {row \in SearchEvidence(holds) : row.content.text.of = "logs"}

-----------------------------------------------------------------------------
IdOf(c) == <<c, Len(collects[c].plan), collects[c].paths>>

(* The part is over: the next one, or the end.                              *)
NextPart(call) == [call EXCEPT !.step = IF Len(call.plan) > 1 THEN "ready" ELSE "over",
                               !.plan = Tail(@), !.linked = FALSE]

(* What is thrown passes the disconnect: a connection that is open stays.   *)
PartFails(call) ==
    LET leaving == [call EXCEPT !.left = IF call.linked THEN @ + 1 ELSE @]
    IN  IF call.full THEN NextPart(leaving)
        ELSE [leaving EXCEPT !.step = "failed", !.linked = FALSE]

BeginCollection(c, plan) ==
    /\ collects[c].step = "idle"
    /\ collects' = [collects EXCEPT ![c] = [NoCollection EXCEPT !.step = "ready", !.plan = plan,
                                                                !.full = Len(plan) > 1]]
    /\ UNCHANGED <<evidence, scene>>

(* Log files and commands ask for the incident first; the diagnostics do    *)
(* not.                                                                     *)
VerifyIncidentExists(part) == part \in {"logs", "command"} => scene.there

ConnectForPart(c) ==
    /\ collects[c].step = "ready"
    /\ \/ /\ VerifyIncidentExists(Head(collects[c].plan))
          /\ collects' = [collects EXCEPT ![c].step = "gathering", ![c].linked = TRUE,
                                          ![c].paths = LogPaths]
          /\ UNCHANGED scene
       \/ /\ ~VerifyIncidentExists(Head(collects[c].plan))
          /\ collects' = [collects EXCEPT ![c] = PartFails(@)] /\ UNCHANGED scene
       \/ Failed /\ collects' = [collects EXCEPT ![c] = PartFails(@)]
    /\ UNCHANGED evidence

Gathered(c, text) == [collects EXCEPT ![c].step = "storing", ![c].text = text]

LogFileMissed(c) ==
    [collects EXCEPT ![c].step = "gathering", ![c].paths = @ - 1, ![c].missed = @ \cup {IdOf(c)}]

(* collectSingleLogFile: a path that has no file, or cannot be read, is a   *)
(* result that says so.                                                     *)
GatherLogFile(c) ==
    /\ collects[c].step = "gathering" /\ Head(collects[c].plan) = "logs" /\ collects[c].paths > 0
    /\ \/ \E text \in Gathers("logs") : collects' = Gathered(c, text)
       \/ collects' = LogFileMissed(c)
    /\ UNCHANGED <<evidence, scene>>

(* captureCommandOutput: a command that cannot be run ends the part, with   *)
(* the connection open.                                                     *)
CaptureCommandOutput(c) ==
    /\ collects[c].step = "gathering" /\ Head(collects[c].plan) = "command"
    /\ \/ /\ \E text \in Gathers("command") : collects' = Gathered(c, text)
          /\ UNCHANGED scene
       \/ Failed /\ collects' = [collects EXCEPT ![c] = PartFails(@)]
    /\ UNCHANGED evidence

(* collectSystemDiagnostics: a command that cannot be run is the text       *)
(* "Error: ..."; the connection is closed before the row is written.        *)
CollectSystemDiagnostics(c) ==
    /\ collects[c].step = "gathering" /\ Head(collects[c].plan) = "system"
    /\ \E text \in Gathers("system") :
          collects' = [Gathered(c, text) EXCEPT ![c].linked = FALSE]
    /\ UNCHANGED <<evidence, scene>>

CollectWordPressDiagnostics(c) ==
    /\ collects[c].step = "gathering" /\ Head(collects[c].plan) = "wordpress"
    /\ \E text \in Gathers("wordpress") :
          collects' = [Gathered(c, text) EXCEPT ![c].linked = FALSE]
    /\ UNCHANGED <<evidence, scene>>

(* A log file that cannot be stored is a result that says so; in another    *)
(* part it is thrown.  A connection still open is closed after the row.     *)
StoreGathered(c) ==
    /\ collects[c].step = "storing"
    /\ LET call == collects[c]
           logs == Head(call.plan) = "logs"
           next == [call EXCEPT !.step = "gathering", !.paths = @ - 1]
       IN  \/ /\ StoreEvidence(IdOf(c), call.text)
              /\ collects' = [collects EXCEPT
                                ![c] = [(IF logs THEN next ELSE NextPart(call))
                                            EXCEPT !.told = @ \cup {IdOf(c)}]]
           \/ /\ StoreFails
              /\ collects' = IF logs THEN LogFileMissed(c)
                             ELSE [collects EXCEPT ![c] = PartFails(call)]

FinishLogFiles(c) ==
    /\ collects[c].step = "gathering" /\ Head(collects[c].plan) = "logs" /\ collects[c].paths = 0
    /\ collects' = [collects EXCEPT ![c] = NextPart(@)]
    /\ UNCHANGED <<evidence, scene>>

DeleteEvidence(id) ==
    /\ id \in {row.id : row \in evidence}
    /\ scene.faults + Cardinality(scene.deleted) < MaxEvidenceLosses
    /\ evidence' = {row \in evidence : row.id # id}
    /\ scene' = [scene EXCEPT !.deleted = @ \cup {id}]
    /\ UNCHANGED collects

(* The incident is removed or purged, and its evidence with it.             *)
IncidentGone ==
    /\ scene.there /\ evidence # {}
    /\ scene' = [scene EXCEPT !.there = FALSE]
    /\ evidence' = {}
    /\ UNCHANGED collects

(* performFullDiagnosticCollection counts the results, one by one, and so   *)
(* the log files of which there is no row.                                  *)
TotalEvidenceItems(call) == call.told \cup call.missed

CollectionNext ==
    \/ \E c \in Collections :
          \/ \E plan \in Plans : BeginCollection(c, plan)
          \/ ConnectForPart(c)
          \/ GatherLogFile(c) \/ FinishLogFiles(c) \/ CaptureCommandOutput(c)
          \/ CollectSystemDiagnostics(c) \/ CollectWordPressDiagnostics(c)
          \/ StoreGathered(c)
    \/ \E row \in evidence : DeleteEvidence(row.id)
    \/ IncidentGone

CollectionSpec == EvidenceInit /\ [][CollectionNext]_evidenceVars

-----------------------------------------------------------------------------
EvidenceType ==
    /\ \A row \in evidence : row.content.text \in Texts /\ row.old \in BOOLEAN
    /\ \A one, other \in evidence : one.id = other.id => one = other
    /\ ~scene.there => evidence = {}
    /\ \A c \in Collections :
          /\ collects[c].step \in {"idle", "ready", "gathering", "storing", "over", "failed"}
          /\ collects[c].linked => collects[c].step \in {"gathering", "storing"}
          /\ collects[c].left <= scene.faults + (IF scene.there THEN 0 ELSE 1)
=============================================================================
