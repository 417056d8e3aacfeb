--------------------------- MODULE SiteVerification ---------------------------
(***************************************************************************)
(* VerificationService (src/src/verification/services): ten checks fetch   *)
(* the site at the same time, their results make a verdict, and the verdict *)
(* and the results are stored row by row.                                  *)
(*                                                                         *)
(* Every check fetches the site for itself, so a site that changes while it *)
(* is verified shows some of them one page and the rest another.  The rows  *)
(* are not one transaction; a write that fails makes the service store a    *)
(* second, failed verdict.                                                 *)
(***************************************************************************)
EXTENDS Naturals, Sequences, FiniteSets, SequencesExt

CONSTANT
    MaxSiteChanges,     \* bound: changes of the site during a verification
    MaxStoreFaults      \* bound: writes to the database that fail

ASSUME VerificationAssumption == MaxSiteChanges \in Nat /\ MaxStoreFaults \in Nat

VARIABLE verification   \* the site's page and the call that verifies it

(***************************************************************************)
(* What the site shows: the status (0: no answer), what its page says, and  *)
(* what its page has.  "login" and "inner" stand for the pages of their own *)
(* that two of the checks fetch.                                           *)
(***************************************************************************)
Furniture == {"title", "canonical", "footer", "header", "login", "inner"}
FinePage == [status |-> 200, says |-> {}, has |-> Furniture]

(* checkHttpConnectivity: no answer is a page without content.              *)
NoAnswer == [status |-> 0, says |-> {}, has |-> {}]

Pages ==
    {FinePage, NoAnswer,
     [status |-> 200, says |-> {"fatal error"}, has |-> {"title", "header", "inner"}],
     [status |-> 200, says |-> {}, has |-> {"inner"}],
     [status |-> 503, says |-> {"maintenance"}, has |-> Furniture],
     [status |-> 200, says |-> {}, has |-> Furniture \ {"canonical", "login"}]}

Ok(page) == page.status \in 200..299

-----------------------------------------------------------------------------
(* The checks, each on the page it has fetched.                             *)
PerformHttpStatusCheck(page) == Ok(page)
PerformFatalErrorCheck(page) == "fatal error" \notin page.says
PerformMaintenanceCheck(page) == "maintenance" \notin page.says

(* Nothing, or less than a hundred characters without a title or a body.    *)
PerformWhiteScreenCheck(page) == page.says # {} \/ page.has \cap {"title", "footer", "header"} # {}

PerformTitleTagCheck(page) == "title" \in page.has
PerformCanonicalTagCheck(page) == "canonical" \in page.has
PerformFooterMarkerCheck(page) == "footer" \in page.has
PerformHeaderMarkerCheck(page) == "header" \in page.has
PerformWpLoginCheck(page) == Ok(page) /\ "login" \in page.has
PerformInternalUrlCheck(page) == "inner" \in page.has

Check(name, page) ==
    CASE name = "http_status" -> PerformHttpStatusCheck(page)
      [] name = "fatal_error_check" -> PerformFatalErrorCheck(page)
      [] name = "maintenance_check" -> PerformMaintenanceCheck(page)
      [] name = "white_screen_check" -> PerformWhiteScreenCheck(page)
      [] name = "title_tag_check" -> PerformTitleTagCheck(page)
      [] name = "canonical_tag_check" -> PerformCanonicalTagCheck(page)
      [] name = "footer_marker_check" -> PerformFooterMarkerCheck(page)
      [] name = "header_marker_check" -> PerformHeaderMarkerCheck(page)
      [] name = "wp_login_check" -> PerformWpLoginCheck(page)
      [] name = "internal_url_check" -> PerformInternalUrlCheck(page)

Checks ==
    <<"http_status", "fatal_error_check", "maintenance_check", "white_screen_check",
      "title_tag_check", "canonical_tag_check", "footer_marker_check", "header_marker_check",
      "wp_login_check", "internal_url_check">>

CriticalChecks ==
    {"http_status", "fatal_error_check", "white_screen_check", "title_tag_check",
     "footer_marker_check", "header_marker_check"}

(* Mutant: it is enough that some critical check passed.                    *)
SomeCriticalPassed(passed, failed) == failed \cap CriticalChecks = {} \/ passed \cap CriticalChecks # {}

DetermineOverallHealth(passed, failed) == failed \cap CriticalChecks = {}

(* The rows of a verdict: the whole, then every check; one that was skipped *)
(* is stored as a failure of the type "unknown".                            *)
VerdictRows(v) ==
    <<[type |-> "comprehensive", passed |-> v.failed = {}]>>
        \o [i \in DOMAIN Checks |->
               [type |-> IF Checks[i] \in v.passed \cup v.failed THEN Checks[i] ELSE "unknown",
                passed |-> Checks[i] \in v.passed]]

(* Mutant: the catch stores the verdict once more.                          *)
VerdictRowsAgain == VerdictRows(verification)

FailedRows ==
    <<[type |-> "comprehensive", passed |-> FALSE]>>
        \o [i \in DOMAIN Checks |-> [type |-> Checks[i], passed |-> FALSE]]

-----------------------------------------------------------------------------
VerificationInit ==
    \E page \in Pages :
        verification = [phase |-> "idle", page |-> page, shown |-> {page}, pending |-> {},
                        passed |-> {}, failed |-> {}, stores |-> FALSE, rows |-> <<>>,
                        left |-> <<>>, told |-> "nothing", changes |-> 0, faults |-> 0]

(* verifyIncident stores its verdict, verifySite only answers.              *)
StartVerification(stores, skipped) ==
    /\ verification.phase = "idle"
    /\ verification' = [verification EXCEPT !.phase = "fetching", !.stores = stores,
                                            !.pending = ToSet(Checks) \ skipped]

VerifyIncident(skipped) == StartVerification(TRUE, skipped)
VerifySite(skipped) == StartVerification(FALSE, skipped)

(* The checks in names have their page.                                     *)
Fetched(v, names) ==
    LET good == {n \in names : Check(n, v.page)}
    IN  [v EXCEPT !.pending = @ \ names, !.passed = @ \cup good, !.failed = @ \cup (names \ good)]

(* Somebody repairs or breaks the site when some checks have fetched it.    *)
SiteChanges ==
    /\ verification.phase = "fetching" /\ verification.changes < MaxSiteChanges
    /\ \E names \in SUBSET verification.pending, page \in Pages \ {verification.page} :
          verification' = [Fetched(verification, names) EXCEPT !.page = page, !.changes = @ + 1,
                                                               !.shown = @ \cup {page}]

(* Promise.allSettled: the verdict is made when every check has its result. *)
PerformComprehensiveVerification ==
    /\ verification.phase = "fetching"
    /\ LET v == Fetched(verification, verification.pending)
       IN  verification' = IF v.stores
                           THEN [v EXCEPT !.phase = "storing", !.left = VerdictRows(v)]
                           ELSE [v EXCEPT !.phase = "over", !.told = "verdict"]

StoreVerificationResults ==
    /\ verification.phase = "storing"
    /\ verification' =
          [verification EXCEPT !.rows = @ \o verification.left, !.left = <<>>, !.phase = "over",
                               !.told = IF verification.stores THEN "verdict" ELSE "failed"]

(* A write fails after n rows.  The catch of verifyIncident stores a failed *)
(* verdict; when that cannot be stored either, the call throws.  "stores"   *)
(* is kept while the verdict itself is being stored.                        *)
StoreFails ==
    /\ verification.phase = "storing" /\ verification.faults < MaxStoreFaults
    /\ \E n \in 0..(Len(verification.left) - 1) :
       verification' =
          [verification EXCEPT !.rows = @ \o SubSeq(verification.left, 1, n),
                               !.faults = @ + 1, !.stores = FALSE,
                               !.left = IF verification.stores THEN FailedRows ELSE <<>>,
                               !.phase = IF verification.stores THEN "storing" ELSE "over",
                               !.told = IF verification.stores THEN "nothing" ELSE "error"]

Skips == {{}, {"wp_login_check", "canonical_tag_check"}, CriticalChecks}

VerificationNext ==
    \/ \E skipped \in Skips : VerifyIncident(skipped) \/ VerifySite(skipped)
    \/ SiteChanges \/ PerformComprehensiveVerification \/ StoreVerificationResults \/ StoreFails

VerificationType ==
    /\ verification.phase \in {"idle", "fetching", "storing", "over"}
    /\ verification.passed \cap verification.failed = {}
    /\ verification.passed \cup verification.failed \cup verification.pending \subseteq ToSet(Checks)
    /\ verification.told \in {"nothing", "verdict", "failed", "error"}
    /\ verification.phase = "storing" => verification.left # <<>>

(* The rows that are about the whole and not about one check.               *)
Wholes(stored) == {i \in DOMAIN stored : stored[i].type = "comprehensive"}

ToldHealthy == DetermineOverallHealth(verification.passed, verification.failed)

-----------------------------------------------------------------------------
(* A verdict of health over all the checks means that the site is up and    *)
(* shows no error, as long as it did not change in between: when it did,    *)
(* two broken pages can make a healthy one, the status of the first and the *)
(* text of the second.                                                      *)
VerdictHonest ==
    (/\ verification.phase = "over" /\ verification.told = "verdict" /\ ToldHealthy
     /\ Cardinality(verification.shown) = 1
     /\ CriticalChecks \subseteq verification.passed \cup verification.failed)
    => Ok(verification.page) /\ "fatal error" \notin verification.page.says

(* What the caller of verifyIncident is told is what the last row for the   *)
(* whole says, however many writes of rows fail; only when the database     *)
(* failed twice may a stored success stand although the caller got an error. *)
VerdictStored ==
    verification.phase = "over" =>
        /\ verification.rows # <<>> /\ verification.told = "verdict" =>
              \E i \in DOMAIN verification.rows :
                 /\ Wholes(verification.rows) = {i}
                 /\ verification.rows[i].passed <=> verification.failed = {}
        /\ verification.told = "failed" =>
              \E i \in Wholes(verification.rows) :
                 ~verification.rows[i].passed /\ \A j \in Wholes(verification.rows) : j <= i
=============================================================================
