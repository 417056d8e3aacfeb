---------------------------- MODULE HostInventory ----------------------------
(***************************************************************************)
(* ServersService and SitesService (src/src/servers, src/src/sites): the    *)
(* rows of the servers, with their credentials, and of the sites on them,   *)
(* and the health check of a site.                                         *)
(*                                                                         *)
(* A request reads, awaits, and writes.  The domain of a site is unique by  *)
(* a query before the write and by nothing in the schema; credentials are   *)
(* stored under the name that the authentication type of that request has.  *)
(* Reads that answer and change nothing are no actions.                     *)
(***************************************************************************)
EXTENDS Naturals, FiniteSets, SshCommandFilter

CONSTANTS
    ServerIds, SiteIds,     \* uuids: an id is used once
    Domains,
    Requests,               \* HTTP requests that can be under way together
    MaxRequests             \* bound: requests in all

ASSUME InventoryAssumption == MaxRequests \in Nat

VARIABLES
    servers,    \* id -> row of the table servers
    sites,      \* id -> row of the table sites
    web,        \* site -> what its pages show at the moment
    requests,   \* request -> how far it is
    served,     \* requests that have begun
    edited,     \* history: servers of which one of type and credentials was written alone,
                \* or by a rotation that had read another type
    raced       \* history: domains that two requests had checked together

inventoryVars == <<servers, sites, web, requests, served, edited, raced>>

Given == {"no", "yes"}
AuthTypes == {"KEY", "PASSWORD"}
Panels == {"none", "CPANEL", "PLESK"}
Unmentioned == "absent"      \* a field that a request does not mention
Nobody == "nobody"

ASSUME NobodyAssumption == Nobody \notin SiteIds    \* the absence of an id is none

CredentialField(type) == IF type = "KEY" THEN "privateKey" ELSE "password"

NewServer ==
    [is |-> "new", type |-> "KEY", secret |-> "privateKey", address |-> "proper",
     panel |-> "none", os |-> {}]
NewSite == [is |-> "new", server |-> Nobody, domain |-> Unmentioned, checked |-> FALSE]
NoRequest ==
    [op |-> "none", step |-> "over", server |-> Nobody, site |-> Nobody, domain |-> Unmentioned,
     read |-> "none", found |-> {}, linked |-> FALSE, told |-> "nothing"]

(* What a page of a site can be: without an answer there is no content.     *)
SoundPage == [answers |-> TRUE, says |-> {}, has |-> {"title", "header", "footer"}]
SitePages ==
    {SoundPage, [SoundPage EXCEPT !.says = {"maintenance"}],
     [answers |-> FALSE, says |-> {}, has |-> {}],
     [answers |-> TRUE, says |-> {"fatal error"}, has |-> {"title"}]}

DetectMaintenanceMode(page) == "maintenance" \in page.says
DetectFatalErrors(page) == "fatal error" \in page.says
DetectWhiteScreen(page) == page.says = {} /\ page.has = {}
CheckTitleTag(page) == "title" \in page.has
CheckHeaderMarkers(page) == "header" \in page.has
CheckFooterMarkers(page) == "footer" \in page.has

(* What performHealthCheck asks of the page; a missing canonical tag is no  *)
(* fault.                                                                   *)
PageIsHealthy(page) ==
    /\ page.answers
    /\ ~(DetectMaintenanceMode(page) \/ DetectFatalErrors(page) \/ DetectWhiteScreen(page))
    /\ CheckTitleTag(page) /\ CheckHeaderMarkers(page) /\ CheckFooterMarkers(page)

Steps == {"over", "checked", "row read", "page fetched", "login fetched", "detecting",
          "detected", "disconnecting"}

Known(s) == s \in ServerIds /\ servers[s].is = "there"
There(t) == t \in SiteIds /\ sites[t].is = "there"
SitesOf(s) == {t \in SiteIds : There(t) /\ sites[t].server = s}

InventoryType ==
    /\ \A s \in ServerIds :
         /\ servers[s].is \in {"new", "there", "gone"} /\ servers[s].type \in AuthTypes
         /\ servers[s].secret \in {"privateKey", "password"}
         /\ servers[s].address \in Addresses /\ servers[s].panel \in Panels
    /\ \A t \in SiteIds : There(t) => Known(sites[t].server) /\ sites[t].domain \in Domains
    /\ \A r \in Requests : requests[r].step \in Steps
    /\ served \in 0..MaxRequests /\ edited \subseteq ServerIds /\ raced \subseteq Domains

InventoryInit ==
    /\ servers = [s \in ServerIds |-> NewServer]
    /\ sites = [t \in SiteIds |-> NewSite]
    /\ web = [t \in SiteIds |-> SoundPage]
    /\ requests = [r \in Requests |-> NoRequest]
    /\ served = 0 /\ edited = {} /\ raced = {}

-----------------------------------------------------------------------------
(* A request takes its first step, or ends in it.                           *)
Serve(r, request) ==
    /\ requests[r].step = "over" /\ served < MaxRequests
    /\ requests' = [requests EXCEPT ![r] = request]
    /\ served' = served + 1

Answer(r, told) == requests' = [requests EXCEPT ![r].step = "over", ![r].told = told]
At(r, op, step) == requests[r].op = op /\ requests[r].step = step

Done(op, s, told) == [NoRequest EXCEPT !.op = op, !.server = s, !.told = told]

(* Nobody asks whether the host is known already.                           *)
CreateServer(r, s) ==
    /\ servers[s].is = "new"
    /\ Serve(r, Done("create server", s, "created"))
    /\ \E type \in AuthTypes, panel \in {"none", "CPANEL"}, address \in Addresses :
         servers' = [servers EXCEPT ![s] =
             [NewServer EXCEPT !.is = "there", !.type = type, !.secret = CredentialField(type),
                               !.panel = panel, !.address = address]]
    /\ UNCHANGED <<sites, web, edited, raced>>

(* SSHService.connect: the address is validated, and the credentials must   *)
(* be there under the name of the type.  A host may also not answer.        *)
Connects(s) ==
    /\ Known(s) /\ ValidateAddress(servers[s].address)
    /\ servers[s].secret = CredentialField(servers[s].type)

(* testConnection goes past the validation of the address.                  *)
TestConnection(r, s) ==
    /\ Known(s)
    /\ \/ Serve(r, Done("test connection", s, "fails"))
       \/ /\ servers[s].secret = CredentialField(servers[s].type)
          /\ Serve(r, Done("test connection", s, "works"))
    /\ UNCHANGED <<servers, sites, web, edited, raced>>

(* Mutant: credentials that come with a type are not stored.                *)
SecretKept(row, type, credentials) ==
    IF credentials = "yes" /\ type = Unmentioned THEN CredentialField(type) ELSE row.secret

(* The name is that of the type in the request, of a password when there is *)
(* none, whatever the type of the server.                                   *)
UpdatedSecret(row, type, credentials) ==
    IF credentials = "yes" THEN CredentialField(type) ELSE row.secret

UpdateServer(r, s) ==
    /\ Known(s)
    /\ Serve(r, Done("update server", s, "updated"))
    /\ \E type \in AuthTypes \cup {Unmentioned}, credentials \in Given :
         /\ \E address \in Addresses, panel \in {servers[s].panel, "CPANEL"} :
              servers' = [servers EXCEPT
                  ![s].type = IF type = Unmentioned THEN @ ELSE type,
                  ![s].secret = UpdatedSecret(servers[s], type, credentials),
                  ![s].address = address, ![s].panel = panel]
         /\ edited' = IF (type = Unmentioned) = (credentials = "no") THEN edited
                                                                 ELSE edited \cup {s}
    /\ UNCHANGED <<sites, web, raced>>

(* rotateCredentials: the type is read, the new credentials are encrypted,  *)
(* and the row is written.                                                  *)
BeginRotation(r, s) ==
    /\ Known(s)
    /\ Serve(r, [Done("rotate", s, "nothing") EXCEPT !.step = "row read", !.read = servers[s].type])
    /\ UNCHANGED <<servers, sites, web, edited, raced>>

RotateCredentials(r) ==
    LET s == requests[r].server
        type == requests[r].read
    IN  /\ At(r, "rotate", "row read")
        /\ IF Known(s)
             THEN /\ servers' = [servers EXCEPT ![s].secret = CredentialField(type)]
                  /\ edited' = IF type = servers[s].type THEN edited ELSE edited \cup {s}
                  /\ Answer(r, "rotated")
             ELSE UNCHANGED <<servers, edited>> /\ Answer(r, "refused")
        /\ UNCHANGED <<sites, web, served, raced>>

(* The database deletes the sites of the server with it.                    *)
RemoveServer(r, s) ==
    /\ Known(s)
    /\ Serve(r, Done("remove server", s, "removed"))
    /\ servers' = [servers EXCEPT ![s] = [NewServer EXCEPT !.is = "gone"]]
    /\ sites' = [t \in SiteIds |-> IF t \in SitesOf(s) THEN [NewSite EXCEPT !.is = "gone"]
                                                      ELSE sites[t]]
    /\ UNCHANGED <<web, edited, raced>>

-----------------------------------------------------------------------------
DomainTaken(domain, t) == \E u \in SiteIds \ {t} : There(u) /\ sites[u].domain = domain

(* The look at the server and the domain before the write.                  *)
CheckDomain(r, request) ==
    /\ Serve(r, [request EXCEPT !.step = "checked"])
    /\ raced' = IF \E q \in Requests \ {r} : requests[q].step = "checked"
                                              /\ requests[q].domain = request.domain
                THEN raced \cup {request.domain} ELSE raced
    /\ UNCHANGED <<servers, sites, web, edited>>

BeginCreateSite(r, s, domain) ==
    /\ Known(s) /\ ~DomainTaken(domain, Nobody)
    /\ CheckDomain(r, [Done("create site", s, "nothing") EXCEPT !.domain = domain])

(* The row is written unless the server is gone, and a health check of the  *)
(* new site begins that nobody waits for.                                   *)
CreateSite(r, t) ==
    LET s == requests[r].server IN
    /\ At(r, "create site", "checked")
    /\ IF Known(s)
         THEN /\ sites[t].is = "new"
              /\ sites' = [sites EXCEPT ![t] = [is |-> "there", server |-> s, checked |-> FALSE,
                                                domain |-> requests[r].domain]]
              /\ requests' = [requests EXCEPT ![r] = [Done("health check", s, "nothing") EXCEPT
                                                        !.site = t, !.step = "row read"]]
         ELSE UNCHANGED sites /\ Answer(r, "refused")
    /\ UNCHANGED <<servers, web, served, edited, raced>>

BeginUpdateSite(r, t, domain) ==
    /\ There(t) /\ ~DomainTaken(domain, t)
    /\ CheckDomain(r, [Done("update site", sites[t].server, "nothing") EXCEPT !.site = t,
                                                                            !.domain = domain])

UpdateSite(r) ==
    LET t == requests[r].site IN
    /\ At(r, "update site", "checked")
    /\ IF There(t)
         THEN /\ sites' = [sites EXCEPT ![t].domain = requests[r].domain]
              /\ Answer(r, "updated")
         ELSE UNCHANGED sites /\ Answer(r, "refused")
    /\ UNCHANGED <<servers, web, served, edited, raced>>

RemoveSite(r, t) ==
    /\ There(t)
    /\ Serve(r, [Done("remove site", sites[t].server, "removed") EXCEPT !.site = t])
    /\ sites' = [sites EXCEPT ![t] = [NewSite EXCEPT !.is = "gone"]]
    /\ UNCHANGED <<servers, web, edited, raced>>

-----------------------------------------------------------------------------
(* performHealthCheck; the cache of results is never filled.                *)
BeginHealthCheck(r, t) ==
    /\ There(t)
    /\ Serve(r, [Done("health check", sites[t].server, "nothing") EXCEPT !.site = t,
                                                                       !.step = "row read"])
    /\ UNCHANGED <<servers, sites, web, edited, raced>>

WebChanges(t) ==
    /\ \E r \in Requests : requests[r].site = t /\ requests[r].step \in {"row read", "page fetched"}
    /\ \E page \in SitePages \ {web[t]} : web' = [web EXCEPT ![t] = page]
    /\ served < MaxRequests /\ served' = served + 1
    /\ UNCHANGED <<servers, sites, requests, edited, raced>>

(* What the page shows, then what the login page shows.                     *)
FetchPage(r) ==
    /\ At(r, "health check", "row read")
    /\ requests' = [requests EXCEPT ![r].step = "page fetched", ![r].read = IF PageIsHealthy(web[requests[r].site])
                                                THEN "fine" ELSE "broken"]
    /\ UNCHANGED <<servers, sites, web, served, edited, raced>>

CheckWpLoginAccessibility(r) ==
    /\ At(r, "health check", "page fetched")
    /\ requests' = [requests EXCEPT ![r].step = "login fetched",
                                    ![r].read = IF web[requests[r].site].answers THEN @ ELSE "broken"]
    /\ UNCHANGED <<servers, sites, web, served, edited, raced>>

(* The time of the check is written; a site that was removed meanwhile is   *)
(* reported with a fatal error.                                             *)
PerformHealthCheck(r) ==
    LET t == requests[r].site IN
    /\ At(r, "health check", "login fetched")
    /\ IF There(t)
         THEN /\ sites' = [sites EXCEPT ![t].checked = TRUE]
              /\ Answer(r, IF requests[r].read = "fine" THEN "healthy" ELSE "unhealthy")
         ELSE UNCHANGED sites /\ Answer(r, "fatal error")
    /\ UNCHANGED <<servers, web, served, edited, raced>>

-----------------------------------------------------------------------------
(* The credentials of a server can be used with its type, and no two sites  *)
(* have one domain, but for what the code lets happen: an update that       *)
(* writes one of type and credentials alone, a rotation that had read       *)
(* another type, and two requests that looked for one domain before either  *)
(* had written it (servers.service.ts:181-193, :316-333,                    *)
(* sites.service.ts:58-78, :259-274).                                       *)
InventoryKept ==
    /\ \A s \in ServerIds :
         Known(s) /\ servers[s].secret # CredentialField(servers[s].type) => s \in edited
    /\ \A t, u \in SiteIds :
         t # u /\ There(t) /\ There(u) /\ sites[t].domain = sites[u].domain
            => sites[t].domain \in raced
=============================================================================
