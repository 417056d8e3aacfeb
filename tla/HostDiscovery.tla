---------------------------- MODULE HostDiscovery ----------------------------
(***************************************************************************)
(* DiscoveryService and what SitesService asks over SSH (src/src/servers,   *)
(* src/src/sites): what runs on a server, where WordPress is, and whether   *)
(* it is a multisite.                                                      *)
(*                                                                         *)
(* Six detectors run at the same time over one connection.  Each is a row   *)
(* of probes, in the order of the source: the command that looks, what it   *)
(* looks for, and the commands that follow a find.  A command that throws   *)
(* ends its detector, which answers "unknown" (here: the empty set).        *)
(* The connection pool is modelled by SshConnectionPool; here a connection  *)
(* can be looked up, and the filter is what commands meet.                  *)
(***************************************************************************)
EXTENDS HostInventory, Sequences

VARIABLE host   \* server -> the software that runs on it

discoveryVars == <<inventoryVars, host>>

Probe(command, finds, followUps) == [command |-> command, finds |-> finds, then |-> followUps]

OperatingSystemProbes == <<Probe(QuietlyJoined("cat"), "linux", {Plain("uname")})>>

WebServerProbes ==
    <<Probe(Joined("which"), "apache", {QuietlyJoined("apache2"), QuietlyJoined("apache2ctl")}),
      Probe(Plain("which"), "nginx", {Plain("nginx"), Quiet("nginx")}),
      Probe(Joined("which"), "litespeed", {Plain("lshttpd")})>>

ControlPanelProbes ==
    <<Probe(Quiet("ls"), "CPANEL", {Plain("cat")}),
      Probe(Quiet("ls"), "PLESK", {Plain("cat")}),
      Probe(Quiet("ls"), "DIRECTADMIN", {}),
      Probe(Quiet("ls"), "CYBERPANEL", {})>>

PHPHandlerProbes == <<Probe(Plain("php"), "php", {Joined("php")})>>

DatabaseEngineProbes ==
    <<Probe(Joined("which"), "mysql", {QuietlyJoined("mysql")}),
      Probe(Plain("which"), "postgresql", {Plain("psql")})>>

CachingSystemProbes ==
    <<Probe(Plain("which"), "redis", {Plain("redis-server"), QuietlyJoined("systemctl")}),
      Probe(Plain("which"), "memcached", {QuietlyJoined("systemctl")}),
      Probe(Joined("php"), "opcache", {})>>

Detectors == {"os", "web", "panel", "php", "database", "caching"}

Probes(detector) ==
    CASE detector = "os" -> OperatingSystemProbes
      [] detector = "web" -> WebServerProbes
      [] detector = "panel" -> ControlPanelProbes
      [] detector = "php" -> PHPHandlerProbes
      [] detector = "database" -> DatabaseEngineProbes
      [] detector = "caching" -> CachingSystemProbes

Stacks == {{"linux", "nginx", "CPANEL", "php", "postgresql", "memcached", "opcache"},
           {"linux", "apache", "litespeed", "PLESK", "CYBERPANEL", "php", "mysql", "redis"}}

(* A probe that throws: its command is refused, or one that follows.        *)
Throws(probe, stack) ==
    \E c \in {probe.command} \cup (IF probe.finds \in stack THEN probe.then ELSE {}) :
        ~ValidateCommand(c)

(* What a detector tells.  The first find ends it, except that of the       *)
(* caching systems, which collects until a command throws.                  *)
Detected(detector, stack) ==
    LET probes == Probes(detector)
        hit(i) == probes[i].finds \in stack
        reached(i) == \A j \in 1..i : /\ ~Throws(probes[j], stack)
                                      /\ j < i /\ hit(j) => detector = "caching"
    IN  {probes[i].finds : i \in {k \in DOMAIN probes : hit(k) /\ reached(k)}}

-----------------------------------------------------------------------------
DiscoveryType == InventoryType /\ host \in [ServerIds -> Stacks]
DiscoveryInit == InventoryInit /\ host \in [ServerIds -> Stacks]

BeginDiscovery(r, s) ==
    /\ Known(s)
    /\ \/ Serve(r, Done("discover", s, "error"))
       \/ /\ Connects(s)
          /\ Serve(r, [Done("discover", s, "nothing") EXCEPT !.step = "detecting",
                                                            !.linked = TRUE])
    /\ UNCHANGED <<servers, sites, web, edited, raced, host>>

LoseConnection(r) ==
    /\ requests[r].linked
    /\ requests' = [requests EXCEPT ![r].linked = FALSE]
    /\ UNCHANGED <<servers, sites, web, served, edited, raced, host>>

(* Promise.all: the detectors share nothing but the connection.  When that  *)
(* is lost on the way, each tells what it had by then, or nothing.          *)
Detect(r) ==
    LET seen == UNION {Detected(d, host[requests[r].server]) : d \in Detectors} IN
    /\ At(r, "discover", "detecting")
    /\ \E told \in IF requests[r].linked THEN {seen} ELSE SUBSET seen :
         requests' = [requests EXCEPT ![r].step = "detected", ![r].found = told]
    /\ UNCHANGED <<servers, sites, web, served, edited, raced, host>>

(* The type of the panel that is written is null when none was seen.        *)
PanelIn(found) == IF found \cap Panels = {} THEN "none" ELSE CHOOSE p \in Panels : p \in found

(* The row takes what was told, whether or not anything was.  When the      *)
(* server is gone the call throws, and the connection stays open.           *)
DiscoverServerEnvironment(r) ==
    LET s == requests[r].server
        found == requests[r].found
    IN  /\ At(r, "discover", "detected")
        /\ IF Known(s)
             THEN /\ servers' = [servers EXCEPT ![s].os = found \cap {"linux"},
                                               ![s].panel = PanelIn(found)]
                  /\ requests' = [requests EXCEPT ![r].step = "disconnecting"]
             ELSE UNCHANGED servers /\ Answer(r, "error")
        /\ UNCHANGED <<sites, web, served, edited, raced, host>>

Disconnect(r) ==
    /\ requests[r].step = "disconnecting"
    /\ requests' = [requests EXCEPT ![r].step = "over", ![r].linked = FALSE,
                                    ![r].told = IF @ = "nothing" THEN "discovered" ELSE @]
    /\ UNCHANGED <<servers, sites, web, served, edited, raced, host>>

-----------------------------------------------------------------------------
(* detectWordPressInstallation: find, then grep, each joined to another     *)
(* command; one that throws is a site without WordPress.                    *)
WordPressCommands == {Joined("find"), Joined("grep"), Plain("grep")}

DetectWordPressInstallation(r, t) ==
    /\ There(t)
    /\ \/ Serve(r, [Done("detect WordPress", sites[t].server, "not detected") EXCEPT !.site = t])
       \/ /\ Connects(sites[t].server)
          /\ Serve(r, [Done("detect WordPress", sites[t].server,
                            IF \A c \in WordPressCommands : ValidateCommand(c)
                            THEN "detected" ELSE "not detected")
                          EXCEPT !.site = t, !.step = "disconnecting", !.linked = TRUE])
    /\ UNCHANGED <<servers, sites, web, edited, raced, host>>

(* detectMultisiteConfiguration: the first command decides.  When it throws *)
(* the call answers without disconnecting.                                  *)
MultisiteCommand == Joined("grep")

DetectMultisiteConfiguration(r, t) ==
    /\ There(t)
    /\ LET answered == [Done("detect multisite", sites[t].server, "single site") EXCEPT !.site = t]
       IN  IF Connects(sites[t].server) /\ ValidateCommand(MultisiteCommand)
             THEN \/ Serve(r, answered)
                  \/ Serve(r, [answered EXCEPT !.step = "disconnecting", !.linked = TRUE])
                  \/ Serve(r, [answered EXCEPT !.step = "disconnecting", !.linked = TRUE,
                                               !.told = "multisite"])
             ELSE Serve(r, answered)
    /\ UNCHANGED <<servers, sites, web, edited, raced, host>>

-----------------------------------------------------------------------------
ServerNext(r) ==
    \/ \E s \in ServerIds :
         CreateServer(r, s) \/ UpdateServer(r, s) \/ RemoveServer(r, s)
            \/ BeginRotation(r, s) \/ TestConnection(r, s)
    \/ RotateCredentials(r)

SiteNext(r) ==
    \/ \E s \in ServerIds, domain \in Domains : BeginCreateSite(r, s, domain)
    \/ \E t \in SiteIds, domain \in Domains : BeginUpdateSite(r, t, domain)
    \/ \E t \in SiteIds : CreateSite(r, t) \/ RemoveSite(r, t) \/ BeginHealthCheck(r, t)
    \/ UpdateSite(r) \/ FetchPage(r) \/ CheckWpLoginAccessibility(r) \/ PerformHealthCheck(r)

DetectionNext(r) ==
    \/ \E s \in ServerIds : BeginDiscovery(r, s)
    \/ Detect(r) \/ LoseConnection(r) \/ DiscoverServerEnvironment(r) \/ Disconnect(r)
    \/ \E t \in SiteIds : DetectWordPressInstallation(r, t) \/ DetectMultisiteConfiguration(r, t)

HostsNext ==
    \/ \E r \in Requests : (ServerNext(r) \/ SiteNext(r)) /\ UNCHANGED host
    \/ (\E t \in SiteIds : WebChanges(t)) /\ UNCHANGED host
    \/ \E r \in Requests : DetectionNext(r)

HostsSpec == DiscoveryInit /\ [][HostsNext]_discoveryVars

(* Whatever runs on a server, no discovery tells anything of it, no site is *)
(* told to have WordPress or to be a multisite, and a row that a discovery  *)
(* has written says "unknown" and no control panel, also where an operator  *)
(* had entered one: every detector meets a command that the filter refuses  *)
(* before it has an answer (discovery.service.ts:113-129 and the commands   *)
(* of :182-490; ssh-validation.service.ts:9).                               *)
DiscoveryTellsNothing ==
    \A r \in Requests :
        /\ requests[r].found = {}
        /\ requests[r].told \notin {"detected", "multisite"}
        /\ At(r, "discover", "disconnecting") /\ Known(requests[r].server)
              => servers[requests[r].server].os = {}
=============================================================================
