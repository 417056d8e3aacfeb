---------------------------- MODULE Healing_proofs ----------------------------
(***************************************************************************)
(* Proofs about MC_Healing: the pages of servers and sites and the          *)
(* discovery (HostInventory, HostDiscovery), for any number of servers,    *)
(* sites, domains and requests; the verdict of a verification              *)
(* (SiteVerification), for any number of changes of the site and of writes *)
(* that fail; the report of a rollback (BackupRollback), for any number of *)
(* backups that overlap, of edits and of faults; and the plans of the      *)
(* playbooks, from what WordPressFixes_proofs shows of a run of them.      *)
(***************************************************************************)
EXTENDS MC_Healing, WordPressFixes_proofs, WellFoundedInduction

Operations ==
    {"none", "create server", "test connection", "update server", "rotate", "remove server",
     "create site", "update site", "remove site", "health check", "discover",
     "detect WordPress", "detect multisite"}

ServerRow ==
    [is : {"new", "there", "gone"}, type : AuthTypes, secret : {"privateKey", "password"},
     address : Addresses, panel : Panels, os : {{}}]
SiteRow ==
    [is : {"new", "there", "gone"}, server : ServerIds \cup {Nobody},
     domain : Domains \cup {Unmentioned}, checked : BOOLEAN]
(* What a request may tell: not that WordPress was detected, nor a multisite. *)
Told == {"nothing", "created", "fails", "works", "updated", "rotated", "refused", "removed",
         "healthy", "unhealthy", "fatal error", "error", "discovered", "not detected",
         "single site"}

RequestRow ==
    [op : Operations, step : Steps, server : ServerIds \cup {Nobody}, site : SiteIds \cup {Nobody},
     domain : Domains \cup {Unmentioned}, read : AuthTypes \cup {"none", "fine", "broken"},
     found : {{}}, linked : BOOLEAN, told : Told]

(* Which fields a step relies on: its request has filled them.              *)
RequestFilled(q) ==
    /\ q.step = "checked" =>
         /\ q.op \in {"create site", "update site"} /\ q.domain \in Domains
         /\ q.op = "create site" => q.site = Nobody
         /\ q.op = "update site" => q.site \in SiteIds
    /\ q.step = "row read" => \/ q.op = "rotate" /\ q.read \in AuthTypes
                              \/ q.op = "health check" /\ q.site \in SiteIds
    /\ q.op = "health check" /\ q.step # "over" => q.site \in SiteIds

(* The site s has the domain d.                                             *)
HasDomain(pages, t, d) == pages[t].is = "there" /\ pages[t].domain = d

(* Two who both have, or are about to write, one domain had raced for it:   *)
(* two sites, a site and a request that has looked, two such requests.      *)
TwoSitesRaced(pages, r) ==
    \A t, u \in SiteIds : \A d \in Domains :
        t # u /\ HasDomain(pages, t, d) /\ HasDomain(pages, u, d) => d \in r
SiteAndRequestRaced(pages, reqs, r) ==
    \A q \in Requests : \A u \in SiteIds :
        reqs[q].step = "checked" /\ u # reqs[q].site /\ HasDomain(pages, u, reqs[q].domain)
            => reqs[q].domain \in r
TwoRequestsRaced(reqs, r) ==
    \A p, q \in Requests :
        p # q /\ reqs[p].step = "checked" /\ reqs[q].step = "checked"
              /\ reqs[p].domain = reqs[q].domain
            => reqs[q].domain \in r

(* A site that is there is on a server that is there.                       *)
SitesPlaced(pages, machines) ==
    \A t \in SiteIds : pages[t].is = "there" =>
        /\ pages[t].server \in ServerIds /\ machines[pages[t].server].is = "there"
        /\ pages[t].domain \in Domains

(* Credentials do not fit the type only where one of them was written alone.*)
SecretsFit(machines, e) ==
    \A s \in ServerIds :
        machines[s].is = "there" /\ machines[s].secret # CredentialField(machines[s].type)
            => s \in e

MachinesSound(machines, e) ==
    machines \in [ServerIds -> ServerRow] /\ e \subseteq ServerIds /\ SecretsFit(machines, e)
PagesSound(pages, machines, r) ==
    /\ pages \in [SiteIds -> SiteRow] /\ r \subseteq Domains
    /\ SitesPlaced(pages, machines) /\ TwoSitesRaced(pages, r)
RequestsSound(pages, reqs, r) ==
    /\ reqs \in [Requests -> RequestRow]
    /\ \A q \in Requests : RequestFilled(reqs[q])
    /\ SiteAndRequestRaced(pages, reqs, r) /\ TwoRequestsRaced(reqs, r)

HostInv ==
    /\ MachinesSound(servers, edited)
    /\ PagesSound(sites, servers, raced)
    /\ RequestsSound(sites, requests, raced)
    /\ served \in 0..MaxRequests /\ host \in [ServerIds -> Stacks]

-----------------------------------------------------------------------------
(* Every detector meets a command that the filter refuses before it has a   *)
(* find, whatever runs on the server.                                       *)
LEMMA Refused ==
    /\ \A base : /\ ~ValidateCommand(Joined(base)) /\ ~ValidateCommand(Quiet(base))
                 /\ ~ValidateCommand(QuietlyJoined(base))
    /\ ~ValidateCommand(Plain("redis-server"))
BY DEF ValidateCommand, Joined, Quiet, QuietlyJoined, Plain, Words, DangerousPatterns,
       AllowedCommandPrefixes

LEMMA ThrowsAtOnce ==
    ASSUME NEW stack, NEW probe, NEW c,
           ~ValidateCommand(c), c = probe.command \/ (probe.finds \in stack /\ c \in probe.then)
    PROVE  Throws(probe, stack)
BY DEF Throws

LEMMA DetectedNothing ==
    ASSUME NEW stack, NEW d \in Detectors,
           \A i \in DOMAIN Probes(d) : Probes(d)[i].finds \in stack =>
              \E j \in 1..i : Throws(Probes(d)[j], stack)
    PROVE  Detected(d, stack) = {}
BY DEF Detected

LEMMA DetectorsBlind == \A stack : \A d \in Detectors : Detected(d, stack) = {}
<1> SUFFICES ASSUME NEW stack, NEW d \in Detectors
             PROVE  Detected(d, stack) = {}
  OBVIOUS
<1> SUFFICES \A i \in DOMAIN Probes(d) : Probes(d)[i].finds \in stack =>
                \E j \in 1..i : Throws(Probes(d)[j], stack)
  BY DetectedNothing
<1> SUFFICES ASSUME NEW i \in DOMAIN Probes(d), Probes(d)[i].finds \in stack
             PROVE  \E j \in 1..i : Throws(Probes(d)[j], stack)
  OBVIOUS
<1>1. CASE d = "os"
  <2>1. Probes(d) = OperatingSystemProbes
    BY <1>1 DEF Probes
  <2>2. DOMAIN OperatingSystemProbes = 1..1
        /\ OperatingSystemProbes[1].command = QuietlyJoined("cat")
    BY DEF OperatingSystemProbes, Probe
  <2>3. Throws(Probes(d)[1], stack) /\ 1 \in 1..i
    <3>1. i \in Nat /\ i >= 1
      BY <2>1, <2>2
    <3>2. Throws(Probes(d)[1], stack)
      BY <2>1, <2>2, Refused, ThrowsAtOnce
    <3> QED BY <3>1, <3>2
  <2> QED BY <2>3
<1>2. CASE d = "web"
  <2>1. Probes(d) = WebServerProbes
    BY <1>2 DEF Probes
  <2>2. DOMAIN WebServerProbes = 1..3 /\ WebServerProbes[1].command = Joined("which")
    BY DEF WebServerProbes, Probe
  <2>3. Throws(Probes(d)[1], stack) /\ 1 \in 1..i
    <3>1. i \in Nat /\ i >= 1
      BY <2>1, <2>2
    <3>2. Throws(Probes(d)[1], stack)
      BY <2>1, <2>2, Refused, ThrowsAtOnce
    <3> QED BY <3>1, <3>2
  <2> QED BY <2>3
<1>3. CASE d = "panel"
  <2>1. Probes(d) = ControlPanelProbes
    BY <1>3 DEF Probes
  <2>2. DOMAIN ControlPanelProbes = 1..4 /\ ControlPanelProbes[1].command = Quiet("ls")
    BY DEF ControlPanelProbes, Probe
  <2>3. Throws(Probes(d)[1], stack) /\ 1 \in 1..i
    <3>1. i \in Nat /\ i >= 1
      BY <2>1, <2>2
    <3>2. Throws(Probes(d)[1], stack)
      BY <2>1, <2>2, Refused, ThrowsAtOnce
    <3> QED BY <3>1, <3>2
  <2> QED BY <2>3
<1>4. CASE d = "php"
  <2>1. Probes(d) = PHPHandlerProbes
    BY <1>4 DEF Probes
  <2>2. DOMAIN PHPHandlerProbes = 1..1 /\ Joined("php") \in PHPHandlerProbes[1].then
    BY DEF PHPHandlerProbes, Probe
  <2>3. Throws(Probes(d)[1], stack) /\ 1 \in 1..i
    <3>1. i \in Nat /\ i >= 1
      BY <2>1, <2>2
    <3>2. Throws(Probes(d)[1], stack)
      BY <2>1, <2>2, Refused, ThrowsAtOnce
    <3> QED BY <3>1, <3>2
  <2> QED BY <2>3
<1>5. CASE d = "database"
  <2>1. Probes(d) = DatabaseEngineProbes
    BY <1>5 DEF Probes
  <2>2. DOMAIN DatabaseEngineProbes = 1..2 /\ DatabaseEngineProbes[1].command = Joined("which")
    BY DEF DatabaseEngineProbes, Probe
  <2>3. Throws(Probes(d)[1], stack) /\ 1 \in 1..i
    <3>1. i \in Nat /\ i >= 1
      BY <2>1, <2>2
    <3>2. Throws(Probes(d)[1], stack)
      BY <2>1, <2>2, Refused, ThrowsAtOnce
    <3> QED BY <3>1, <3>2
  <2> QED BY <2>3
<1>6. CASE d = "caching"
  <2>1. Probes(d) = CachingSystemProbes
    BY <1>6 DEF Probes
  <2>2. /\ DOMAIN CachingSystemProbes = 1..3
        /\ Plain("redis-server") \in CachingSystemProbes[1].then
        /\ QuietlyJoined("systemctl") \in CachingSystemProbes[2].then
        /\ CachingSystemProbes[3].command = Joined("php")
    BY DEF CachingSystemProbes, Probe
  <2>3. i \in {1, 2, 3} /\ i \in 1..i
    BY <2>1, <2>2
  <2>4. Throws(Probes(d)[i], stack)
    <3>1. CASE i = 1
      BY <3>1, <2>1, <2>2, Refused, ThrowsAtOnce
    <3>2. CASE i = 2
      BY <3>2, <2>1, <2>2, Refused, ThrowsAtOnce
    <3>3. CASE i = 3
      BY <3>3, <2>1, <2>2, Refused, ThrowsAtOnce
    <3> QED BY <2>3, <3>1, <3>2, <3>3
  <2> QED BY <2>3, <2>4
<1> QED BY <1>1, <1>2, <1>3, <1>4, <1>5, <1>6 DEF Detectors

LEMMA NothingFound ==
    ASSUME NEW stack
    PROVE  UNION {Detected(d, stack) : d \in Detectors} = {}
<1>1. \A d \in Detectors : Detected(d, stack) = {}
  BY DetectorsBlind
<1> HIDE DEF Detectors
<1> QED BY <1>1

-----------------------------------------------------------------------------
(* A request that is not about to write a domain takes the place of one.    *)
LEMMA RequestReplaced ==
    ASSUME NEW pages, NEW reqs, NEW races, RequestsSound(pages, reqs, races),
           NEW r \in Requests, NEW q \in RequestRow, RequestFilled(q), q.step # "checked"
    PROVE  RequestsSound(pages, [reqs EXCEPT ![r] = q], races)
<1> DEFINE after == [reqs EXCEPT ![r] = q]
<1>1. after \in [Requests -> RequestRow] /\ after[r] = q
      /\ \A p \in Requests : p # r => after[p] = reqs[p]
  BY DEF RequestsSound
<1> HIDE DEF after
<1>2. \A p \in Requests : RequestFilled(after[p])
  BY <1>1 DEF RequestsSound
<1>3. \A p \in Requests : after[p].step = "checked" => after[p] = reqs[p]
  BY <1>1
<1>4. SiteAndRequestRaced(pages, after, races)
  BY <1>3 DEF RequestsSound, SiteAndRequestRaced
<1>5. TwoRequestsRaced(after, races)
  BY <1>3 DEF RequestsSound, TwoRequestsRaced
<1> QED
  BY <1>1, <1>2, <1>4, <1>5 DEF RequestsSound, after

(* A request that looks for a domain that no other site has.                *)
LEMMA RequestChecks ==
    ASSUME NEW pages, NEW reqs, NEW races, RequestsSound(pages, reqs, races),
           NEW r \in Requests, NEW q \in RequestRow, RequestFilled(q), q.step = "checked",
           \A u \in SiteIds : u # q.site => ~HasDomain(pages, u, q.domain),
           NEW later, races \subseteq later,
           \A p \in Requests : p # r /\ reqs[p].step = "checked" /\ reqs[p].domain = q.domain
               => q.domain \in later
    PROVE  RequestsSound(pages, [reqs EXCEPT ![r] = q], later)
<1> DEFINE after == [reqs EXCEPT ![r] = q]
<1>1. after \in [Requests -> RequestRow] /\ after[r] = q
      /\ \A p \in Requests : p # r => after[p] = reqs[p]
  BY DEF RequestsSound
<1> HIDE DEF after
<1>2. \A p \in Requests : RequestFilled(after[p])
  BY <1>1 DEF RequestsSound
<1>4. SiteAndRequestRaced(pages, after, later)
  BY <1>1 DEF RequestsSound, SiteAndRequestRaced
<1>5. TwoRequestsRaced(after, later)
  BY <1>1 DEF RequestsSound, TwoRequestsRaced
<1> QED
  BY <1>1, <1>2, <1>4, <1>5 DEF RequestsSound, after

(* A server's row is written.                                               *)
LEMMA MachineWritten ==
    ASSUME NEW machines, NEW e, MachinesSound(machines, e),
           NEW s \in ServerIds, NEW row \in ServerRow, NEW e2 \in SUBSET ServerIds, e \subseteq e2,
           row.is = "there" /\ row.secret # CredentialField(row.type) => s \in e2
    PROVE  MachinesSound([machines EXCEPT ![s] = row], e2)
<1> DEFINE after == [machines EXCEPT ![s] = row]
<1>1. after \in [ServerIds -> ServerRow] /\ after[s] = row
      /\ \A m \in ServerIds : m # s => after[m] = machines[m]
  BY DEF MachinesSound
<1> HIDE DEF after
<1>2. SecretsFit(after, e2)
  BY <1>1 DEF MachinesSound, SecretsFit
<1> QED
  BY <1>1, <1>2 DEF MachinesSound, after

(* The sites stay where they are when no server goes.                       *)
LEMMA PagesOnServers ==
    ASSUME NEW pages, NEW machines, NEW races, PagesSound(pages, machines, races),
           NEW after, \A s \in ServerIds : machines[s].is = "there" => after[s].is = "there"
    PROVE  PagesSound(pages, after, races)
BY DEF PagesSound, SitesPlaced

(* The row of a site is written.                                            *)
LEMMA PageWritten ==
    ASSUME NEW pages, NEW machines, NEW races, PagesSound(pages, machines, races),
           NEW t \in SiteIds, NEW row \in SiteRow,
           row.is = "there" => /\ row.server \in ServerIds /\ machines[row.server].is = "there"
                               /\ row.domain \in Domains,
           \A u \in SiteIds : row.is = "there" /\ u # t /\ HasDomain(pages, u, row.domain)
               => row.domain \in races
    PROVE  PagesSound([pages EXCEPT ![t] = row], machines, races)
<1> DEFINE after == [pages EXCEPT ![t] = row]
<1>1. after \in [SiteIds -> SiteRow] /\ after[t] = row
      /\ \A u \in SiteIds : u # t => after[u] = pages[u]
  BY DEF PagesSound
<1> HIDE DEF after
<1>2. SitesPlaced(after, machines)
  BY <1>1 DEF PagesSound, SitesPlaced
<1>3. TwoSitesRaced(after, races)
  BY <1>1 DEF PagesSound, TwoSitesRaced, HasDomain
<1> QED
  BY <1>1, <1>2, <1>3 DEF PagesSound, after

LEMMA RequestsBesidePage ==
    ASSUME NEW pages, NEW reqs, NEW races, RequestsSound(pages, reqs, races),
           pages \in [SiteIds -> SiteRow],
           NEW t \in SiteIds, NEW row \in SiteRow,
           \A q \in Requests : /\ reqs[q].step = "checked" /\ row.is = "there" /\ t # reqs[q].site
                                /\ row.domain = reqs[q].domain
               => reqs[q].domain \in races
    PROVE  RequestsSound([pages EXCEPT ![t] = row], reqs, races)
<1> DEFINE after == [pages EXCEPT ![t] = row]
<1>1. after[t] = row /\ \A u \in SiteIds : u # t => after[u] = pages[u]
  OBVIOUS
<1> HIDE DEF after
<1>2. SiteAndRequestRaced(after, reqs, races)
  BY <1>1 DEF RequestsSound, SiteAndRequestRaced, HasDomain
<1> QED
  BY <1>2 DEF RequestsSound, after

LEMMA NoRequestTyped == NoRequest \in RequestRow
BY DEF NoRequest, RequestRow, Operations, Steps, AuthTypes, Told

(* A request that is answered at once.                                      *)
LEMMA DoneIs ==
    ASSUME NEW op \in Operations, NEW s \in ServerIds \cup {Nobody}, NEW told \in Told
    PROVE  /\ Done(op, s, told) \in RequestRow
           /\ Done(op, s, told).op = op /\ Done(op, s, told).step = "over"
           /\ Done(op, s, told).server = s /\ Done(op, s, told).site = Nobody
BY NoRequestTyped DEF Done, NoRequest, RequestRow

-----------------------------------------------------------------------------
LEMMA DoneDefaults == \A op, s, told : Done(op, s, told).step = "over" /\ Done(op, s, told).site = Nobody
BY DEF Done, NoRequest

(* The operations that a step may name, and what it may tell.               *)
LEMMA OperationNames ==
    /\ "create server" \in Operations /\ "test connection" \in Operations
    /\ "update server" \in Operations /\ "rotate" \in Operations
    /\ "remove server" \in Operations /\ "create site" \in Operations
    /\ "update site" \in Operations /\ "remove site" \in Operations
    /\ "health check" \in Operations /\ "discover" \in Operations
    /\ "detect WordPress" \in Operations /\ "detect multisite" \in Operations
BY DEF Operations

LEMMA ToldNames ==
    /\ "nothing" \in Told /\ "created" \in Told /\ "fails" \in Told /\ "works" \in Told
    /\ "updated" \in Told /\ "rotated" \in Told /\ "refused" \in Told /\ "removed" \in Told
    /\ "healthy" \in Told /\ "unhealthy" \in Told /\ "fatal error" \in Told
    /\ "error" \in Told /\ "discovered" \in Told /\ "not detected" \in Told
    /\ "single site" \in Told
BY DEF Told

(* A request that begins, and is not about to write a domain.               *)
LEMMA ServedSafe ==
    ASSUME HostInv, NEW r \in Requests, NEW q \in RequestRow, RequestFilled(q),
           q.step # "checked", Serve(r, q)
    PROVE  RequestsSound(sites, requests', raced) /\ served' \in 0..MaxRequests
<1>1. requests' = [requests EXCEPT ![r] = q] /\ served < MaxRequests /\ served' = served + 1
  BY DEF Serve
<1>2. RequestsSound(sites, requests', raced)
  BY <1>1, RequestReplaced DEF HostInv
<1>3. served' \in 0..MaxRequests
  BY <1>1, InventoryAssumption DEF HostInv
<1> QED
  BY <1>2, <1>3

LEMMA DoneSafe ==
    ASSUME HostInv, NEW r \in Requests, NEW op \in Operations, NEW s \in ServerIds \cup {Nobody},
           NEW told \in Told, Serve(r, Done(op, s, told))
    PROVE  RequestsSound(sites, requests', raced) /\ served' \in 0..MaxRequests
<1>1. Done(op, s, told) \in RequestRow /\ Done(op, s, told).step = "over"
  BY DoneIs
<1>2. RequestFilled(Done(op, s, told))
  BY <1>1 DEF RequestFilled
<1> QED
  BY <1>1, <1>2, ServedSafe

(* A row of a server is written, of one that was not there or that stays.   *)
LEMMA ServerWritten ==
    ASSUME HostInv, NEW s \in ServerIds, NEW row \in ServerRow, row.is = "there",
           edited' \in SUBSET ServerIds, edited \subseteq edited',
           row.secret # CredentialField(row.type) => s \in edited',
           servers' = [servers EXCEPT ![s] = row]
    PROVE  MachinesSound(servers', edited') /\ PagesSound(sites, servers', raced)
<1>1. MachinesSound(servers', edited')
  BY MachineWritten DEF HostInv
<1>2. \A m \in ServerIds : servers[m].is = "there" => servers'[m].is = "there"
  BY DEF HostInv, MachinesSound
<1> QED
  BY <1>1, <1>2, PagesOnServers DEF HostInv

-----------------------------------------------------------------------------
(* Every step of a request keeps HostInv.                                   *)
LEMMA CreateServerSafe ==
    ASSUME HostInv, NEW r \in Requests, NEW s \in ServerIds, CreateServer(r, s), UNCHANGED host
    PROVE  HostInv'
<1>1. RequestsSound(sites, requests', raced) /\ served' \in 0..MaxRequests
  BY DoneSafe, OperationNames, ToldNames DEF CreateServer
<1>2. PICK type \in AuthTypes, panel \in {"none", "CPANEL"}, address \in Addresses :
         servers' = [servers EXCEPT ![s] =
             [NewServer EXCEPT !.is = "there", !.type = type, !.secret = CredentialField(type),
                               !.panel = panel, !.address = address]]
  BY DEF CreateServer
<1>3. PICK row \in ServerRow :
         /\ servers' = [servers EXCEPT ![s] = row]
         /\ row.is = "there" /\ row.secret = CredentialField(row.type)
  <2> DEFINE row == [NewServer EXCEPT !.is = "there", !.type = type,
                                      !.secret = CredentialField(type),
                                      !.panel = panel, !.address = address]
  <2>1. row \in ServerRow /\ row.is = "there" /\ row.secret = CredentialField(row.type)
    BY DEF ServerRow, NewServer, CredentialField, Panels, AuthTypes
  <2>2. servers' = [servers EXCEPT ![s] = row]
    BY <1>2
  <2> HIDE DEF row
  <2> QED
    BY <2>1, <2>2
<1>4. edited' = edited /\ sites' = sites /\ raced' = raced
  BY DEF CreateServer
<1>5. MachinesSound(servers', edited') /\ PagesSound(sites, servers', raced)
  <2>1. edited' \in SUBSET ServerIds /\ edited \subseteq edited'
    BY <1>4 DEF HostInv, MachinesSound
  <2> QED
    BY <2>1, <1>3, ServerWritten
<1> QED
  BY <1>1, <1>4, <1>5 DEF HostInv

LEMMA TestConnectionSafe ==
    ASSUME HostInv, NEW r \in Requests, NEW s \in ServerIds, TestConnection(r, s), UNCHANGED host
    PROVE  HostInv'
<1>1. RequestsSound(sites, requests', raced) /\ served' \in 0..MaxRequests
  BY DoneSafe, OperationNames, ToldNames DEF TestConnection
<1> QED
  BY <1>1 DEF HostInv, TestConnection

LEMMA UpdateServerSafe ==
    ASSUME HostInv, NEW r \in Requests, NEW s \in ServerIds, UpdateServer(r, s), UNCHANGED host
    PROVE  HostInv'
<1>1. RequestsSound(sites, requests', raced) /\ served' \in 0..MaxRequests
  BY DoneSafe, OperationNames, ToldNames DEF UpdateServer
<1>2. PICK type \in AuthTypes \cup {Unmentioned}, credentials \in Given :
         /\ \E address \in Addresses, panel \in {servers[s].panel, "CPANEL"} :
              servers' = [servers EXCEPT
                  ![s].type = IF type = Unmentioned THEN @ ELSE type,
                  ![s].secret = UpdatedSecret(servers[s], type, credentials),
                  ![s].address = address, ![s].panel = panel]
         /\ edited' = IF (type = Unmentioned) = (credentials = "no") THEN edited
                                                                 ELSE edited \cup {s}
  BY DEF UpdateServer
<1>3. PICK address \in Addresses, panel \in {servers[s].panel, "CPANEL"} :
              servers' = [servers EXCEPT
                  ![s].type = IF type = Unmentioned THEN @ ELSE type,
                  ![s].secret = UpdatedSecret(servers[s], type, credentials),
                  ![s].address = address, ![s].panel = panel]
  BY <1>2
<1>4. servers[s] \in ServerRow /\ servers[s].is = "there"
  BY DEF UpdateServer, Known, HostInv, MachinesSound
<1>5. PICK kind \in AuthTypes : kind = IF type = Unmentioned THEN servers[s].type ELSE type
  BY <1>4 DEF ServerRow
<1>6. PICK secret \in {"privateKey", "password"} :
         secret = UpdatedSecret(servers[s], type, credentials)
  BY <1>4 DEF UpdatedSecret, CredentialField, ServerRow
<1>7. panel \in Panels
  BY <1>4 DEF ServerRow, Panels
<1>8. PICK row \in ServerRow :
         /\ row = [servers[s] EXCEPT !.type = kind, !.secret = secret, !.address = address,
                                     !.panel = panel]
         /\ row.is = "there" /\ row.type = kind /\ row.secret = secret
  <2> DEFINE row == [servers[s] EXCEPT !.type = kind, !.secret = secret, !.address = address,
                                       !.panel = panel]
  <2>1. row \in ServerRow /\ row.is = "there" /\ row.type = kind /\ row.secret = secret
    BY <1>4, <1>7 DEF ServerRow
  <2> QED
    BY <2>1
<1>9. servers' = [servers EXCEPT ![s] = row]
  BY <1>3, <1>5, <1>6, <1>8 DEF HostInv, MachinesSound
<1>10. edited' \in SUBSET ServerIds /\ edited \subseteq edited'
  BY <1>2 DEF HostInv, MachinesSound
<1>11. secret # CredentialField(kind) => s \in edited'
  <2>1. CASE type = Unmentioned /\ credentials = "no"
    <3>1. kind = servers[s].type /\ secret = servers[s].secret /\ edited' = edited
      BY <2>1, <1>2, <1>5, <1>6 DEF UpdatedSecret
    <3> QED
      BY <3>1, <1>4 DEF HostInv, MachinesSound, SecretsFit
  <2>2. CASE type # Unmentioned /\ credentials = "yes"
    BY <2>2, <1>5, <1>6 DEF UpdatedSecret
  <2>3. CASE (type = Unmentioned) # (credentials = "no")
    BY <2>3, <1>2
  <2> QED
    BY <2>1, <2>2, <2>3 DEF Given
<1>12. MachinesSound(servers', edited') /\ PagesSound(sites, servers', raced)
  BY <1>8, <1>9, <1>10, <1>11, ServerWritten
<1> QED
  BY <1>1, <1>12 DEF HostInv, UpdateServer

LEMMA BeginRotationSafe ==
    ASSUME HostInv, NEW r \in Requests, NEW s \in ServerIds, BeginRotation(r, s), UNCHANGED host
    PROVE  HostInv'
<1> DEFINE done == Done("rotate", s, "nothing")
           q == [done EXCEPT !.step = "row read", !.read = servers[s].type]
<1>0. "rotate" \in Operations /\ "nothing" \in Told /\ s \in ServerIds \cup {Nobody}
  BY OperationNames, ToldNames
<1>1. done \in RequestRow /\ done.op = "rotate"
  BY <1>0, DoneIs
<1>2. servers[s].type \in AuthTypes
  BY DEF HostInv, MachinesSound, ServerRow
<1> HIDE DEF done
<1>3. q \in RequestRow
  BY <1>1, <1>2 DEF RequestRow, Steps
<1>4. q.step = "row read" /\ q.op = "rotate" /\ q.read \in AuthTypes
  BY <1>1, <1>2 DEF RequestRow
<1>5. RequestFilled(q) /\ q.step # "checked"
  BY <1>4 DEF RequestFilled
<1>6. Serve(r, q)
  BY DEF BeginRotation, done
<1> HIDE DEF q
<1>7. RequestsSound(sites, requests', raced) /\ served' \in 0..MaxRequests
  BY <1>3, <1>5, <1>6, ServedSafe
<1> QED
  BY <1>7 DEF HostInv, BeginRotation

(* A request goes on, and is not about to write a domain.                   *)
LEMMA RequestMoves ==
    ASSUME HostInv, NEW r \in Requests, NEW q \in RequestRow, RequestFilled(q),
           q.step # "checked", requests' = [requests EXCEPT ![r] = q]
    PROVE  /\ RequestsSound(sites, requests', raced)
           /\ requests'[r] = q /\ \A p \in Requests : p # r => requests'[p] = requests[p]
BY RequestReplaced DEF HostInv, RequestsSound

LEMMA Answered ==
    ASSUME HostInv, NEW r \in Requests, NEW told \in Told, Answer(r, told)
    PROVE  /\ RequestsSound(sites, requests', raced)
           /\ requests'[r].step # "checked"
           /\ \A p \in Requests : p # r => requests'[p] = requests[p]
<1> DEFINE q == [requests[r] EXCEPT !.step = "over", !.told = told]
<1>1. requests[r] \in RequestRow
  BY DEF HostInv, RequestsSound
<1>2. q \in RequestRow /\ q.step = "over"
  BY <1>1 DEF RequestRow, Steps
<1>3. RequestFilled(q)
  BY <1>2 DEF RequestFilled
<1>4. requests' = [requests EXCEPT ![r] = q]
  BY DEF Answer, HostInv, RequestsSound
<1> HIDE DEF q
<1> QED
  BY <1>2, <1>3, <1>4, RequestMoves

LEMMA RotateCredentialsSafe ==
    ASSUME HostInv, NEW r \in Requests, RotateCredentials(r), UNCHANGED host
    PROVE  HostInv'
<1> DEFINE s == requests[r].server
           type == requests[r].read
<1>1. requests[r] \in RequestRow /\ RequestFilled(requests[r])
  BY DEF HostInv, RequestsSound
<1>2. type \in AuthTypes
  BY <1>1 DEF RotateCredentials, At, RequestFilled
<1>3. RequestsSound(sites, requests', raced)
  BY Answered, ToldNames DEF RotateCredentials
<1>4. CASE ~Known(s)
  BY <1>3, <1>4 DEF RotateCredentials, HostInv
<1>5. CASE Known(s)
  <2>1. s \in ServerIds /\ servers[s] \in ServerRow /\ servers[s].is = "there"
    BY <1>5 DEF Known, HostInv, MachinesSound
  <2>2. /\ servers' = [servers EXCEPT ![s].secret = CredentialField(type)]
        /\ edited' = IF type = servers[s].type THEN edited ELSE edited \cup {s}
    BY <1>5 DEF RotateCredentials
  <2> DEFINE row == [servers[s] EXCEPT !.secret = CredentialField(type)]
  <2>3. row \in ServerRow /\ row.is = "there"
        /\ row.type = servers[s].type /\ row.secret = CredentialField(type)
    BY <2>1 DEF ServerRow, CredentialField
  <2>4. servers' = [servers EXCEPT ![s] = row]
    BY <2>2 DEF HostInv, MachinesSound
  <2>5. edited' \in SUBSET ServerIds /\ edited \subseteq edited'
    BY <2>1, <2>2 DEF HostInv, MachinesSound
  <2>6. row.secret # CredentialField(row.type) => s \in edited'
    BY <2>2, <2>3
  <2> HIDE DEF row
  <2>7. MachinesSound(servers', edited') /\ PagesSound(sites, servers', raced)
    BY <2>1, <2>3, <2>4, <2>5, <2>6, ServerWritten
  <2> QED
    BY <1>3, <2>7 DEF HostInv, RotateCredentials
<1> QED
  BY <1>4, <1>5

LEMMA RemoveServerSafe ==
    ASSUME HostInv, NEW r \in Requests, NEW s \in ServerIds, RemoveServer(r, s), UNCHANGED host
    PROVE  HostInv'
<1>1. RequestsSound(sites, requests', raced) /\ served' \in 0..MaxRequests
  BY DoneSafe, OperationNames, ToldNames DEF RemoveServer
<1> DEFINE gone == [NewServer EXCEPT !.is = "gone"]
           out == [NewSite EXCEPT !.is = "gone"]
<1>2. gone \in ServerRow /\ gone.is = "gone"
  BY DEF ServerRow, NewServer, AuthTypes, Addresses, Panels
<1>3. out \in SiteRow /\ out.is = "gone"
  BY DEF SiteRow, NewSite
<1>4. servers' = [servers EXCEPT ![s] = gone] /\ edited' = edited /\ raced' = raced
  BY DEF RemoveServer
<1>5. sites' = [t \in SiteIds |-> IF t \in SitesOf(s) THEN out ELSE sites[t]]
  BY DEF RemoveServer
<1> HIDE DEF gone, out
<1>6. MachinesSound(servers', edited')
  BY <1>2, <1>4, MachineWritten DEF HostInv, MachinesSound
<1>7. sites' \in [SiteIds -> SiteRow]
  BY <1>3, <1>5 DEF HostInv, PagesSound
<1>8. \A t \in SiteIds : sites'[t].is = "there" => sites'[t] = sites[t] /\ sites[t].server # s
  BY <1>3, <1>5 DEF SitesOf, There
<1>9. \A m \in ServerIds : m # s => servers'[m] = servers[m]
  BY <1>4 DEF HostInv, MachinesSound
<1>10. SitesPlaced(sites', servers')
  BY <1>8, <1>9 DEF HostInv, PagesSound, SitesPlaced
<1>11. TwoSitesRaced(sites', raced)
  BY <1>8 DEF HostInv, PagesSound, TwoSitesRaced, HasDomain
<1>12. PagesSound(sites', servers', raced')
  BY <1>4, <1>7, <1>10, <1>11 DEF HostInv, PagesSound
<1>13. RequestsSound(sites', requests', raced')
  BY <1>1, <1>4, <1>8 DEF RequestsSound, SiteAndRequestRaced, HasDomain
<1> QED
  BY <1>1, <1>6, <1>12, <1>13 DEF HostInv

-----------------------------------------------------------------------------
(* The look before the write: who else is at it is remembered.              *)
LEMMA CheckDomainSafe ==
    ASSUME HostInv, NEW r \in Requests, NEW request \in RequestRow, CheckDomain(r, request),
           RequestFilled([request EXCEPT !.step = "checked"]), ~DomainTaken(request.domain, request.site),
           UNCHANGED host
    PROVE  HostInv'
<1> DEFINE q == [request EXCEPT !.step = "checked"]
<1>1. q \in RequestRow /\ q.step = "checked" /\ q.domain = request.domain /\ q.site = request.site
  BY DEF RequestRow, Steps
<1>2. RequestFilled(q)
  OBVIOUS
<1>3. requests' = [requests EXCEPT ![r] = q] /\ served < MaxRequests /\ served' = served + 1
  BY DEF CheckDomain, Serve
<1>4. raced' = IF \E p \in Requests \ {r} : requests[p].step = "checked"
                                              /\ requests[p].domain = request.domain
               THEN raced \cup {request.domain} ELSE raced
  BY DEF CheckDomain
<1> HIDE DEF q
<1>5. q.domain \in Domains
  BY <1>1, <1>2 DEF RequestFilled
<1>6. raced \subseteq raced' /\ raced' \subseteq Domains
  BY <1>1, <1>4, <1>5 DEF HostInv, PagesSound
<1>7. \A p \in Requests : p # r /\ requests[p].step = "checked" /\ requests[p].domain = q.domain
         => q.domain \in raced'
  BY <1>1, <1>4
<1>8. \A u \in SiteIds : u # q.site => ~HasDomain(sites, u, q.domain)
  BY <1>1 DEF DomainTaken, There, HasDomain
<1>9. RequestsSound(sites, requests', raced')
  BY <1>1, <1>2, <1>3, <1>6, <1>7, <1>8, RequestChecks DEF HostInv
<1>10. PagesSound(sites, servers, raced')
  BY <1>6 DEF HostInv, PagesSound, TwoSitesRaced
<1>11. served' \in 0..MaxRequests
  BY <1>3, InventoryAssumption DEF HostInv
<1> QED
  BY <1>9, <1>10, <1>11 DEF HostInv, CheckDomain

LEMMA BeginCreateSiteSafe ==
    ASSUME HostInv, NEW r \in Requests, NEW s \in ServerIds, NEW domain \in Domains,
           BeginCreateSite(r, s, domain), UNCHANGED host
    PROVE  HostInv'
<1> DEFINE done == Done("create site", s, "nothing")
           request == [done EXCEPT !.domain = domain]
           q == [request EXCEPT !.step = "checked"]
<1>0. "create site" \in Operations /\ "nothing" \in Told /\ s \in ServerIds \cup {Nobody}
  BY OperationNames, ToldNames
<1>1. done \in RequestRow /\ done.op = "create site" /\ done.site = Nobody
  <2>1. done \in RequestRow /\ done.op = "create site"
    BY <1>0, DoneIs
  <2>2. done.site = Nobody
    BY DoneDefaults
  <2> QED
    BY <2>1, <2>2
<1> HIDE DEF done
<1>2. request \in RequestRow /\ request.op = "create site" /\ request.site = Nobody
      /\ request.domain = domain
  BY <1>1 DEF RequestRow
<1> HIDE DEF request
<1>3. q.op = "create site" /\ q.site = Nobody /\ q.domain = domain /\ q.step = "checked"
  BY <1>2 DEF RequestRow
<1>4. RequestFilled(q)
  BY <1>3 DEF RequestFilled
<1>5. ~DomainTaken(request.domain, request.site) /\ CheckDomain(r, request)
  BY <1>2 DEF BeginCreateSite, request, done
<1> QED
  BY <1>2, <1>4, <1>5, CheckDomainSafe

LEMMA BeginUpdateSiteSafe ==
    ASSUME HostInv, NEW r \in Requests, NEW t \in SiteIds, NEW domain \in Domains,
           BeginUpdateSite(r, t, domain), UNCHANGED host
    PROVE  HostInv'
<1> DEFINE done == Done("update site", sites[t].server, "nothing")
           request == [done EXCEPT !.site = t, !.domain = domain]
           q == [request EXCEPT !.step = "checked"]
<1>1. sites[t].server \in ServerIds \cup {Nobody}
  BY DEF HostInv, PagesSound, SiteRow
<1>0. "update site" \in Operations /\ "nothing" \in Told
  BY OperationNames, ToldNames
<1>2. done \in RequestRow /\ done.op = "update site"
  BY <1>0, <1>1, DoneIs
<1> HIDE DEF done
<1>3. request \in RequestRow /\ request.op = "update site" /\ request.site = t
      /\ request.domain = domain
  BY <1>2 DEF RequestRow
<1> HIDE DEF request
<1>4. q.op = "update site" /\ q.site = t /\ q.domain = domain /\ q.step = "checked"
  BY <1>3 DEF RequestRow
<1>5. RequestFilled(q)
  BY <1>4 DEF RequestFilled
<1>6. ~DomainTaken(request.domain, request.site) /\ CheckDomain(r, request)
  BY <1>3 DEF BeginUpdateSite, request, done
<1> QED
  BY <1>3, <1>5, <1>6, CheckDomainSafe

LEMMA UpdateSiteSafe ==
    ASSUME HostInv, NEW r \in Requests, UpdateSite(r), UNCHANGED host
    PROVE  HostInv'
<1> DEFINE t == requests[r].site
           d == requests[r].domain
<1>1. requests[r].step = "checked" /\ requests[r] \in RequestRow /\ RequestFilled(requests[r])
      /\ requests[r].op = "update site"
  BY DEF UpdateSite, At, HostInv, RequestsSound
<1>2. t \in SiteIds /\ d \in Domains
  BY <1>1 DEF RequestFilled
<1>3. /\ RequestsSound(sites, requests', raced)
      /\ requests'[r].step # "checked"
      /\ \A p \in Requests : p # r => requests'[p] = requests[p]
  BY Answered, ToldNames DEF UpdateSite
<1>4. CASE ~There(t)
  BY <1>3, <1>4 DEF UpdateSite, HostInv
<1>5. CASE There(t)
  <2>1. sites[t] \in SiteRow /\ sites[t].is = "there"
    BY <1>2, <1>5 DEF There, HostInv, PagesSound
  <2> DEFINE row == [sites[t] EXCEPT !.domain = d]
  <2>2. row \in SiteRow /\ row.is = "there" /\ row.server = sites[t].server /\ row.domain = d
    BY <1>2, <2>1 DEF SiteRow
  <2>3. sites' = [sites EXCEPT ![t] = row]
    BY <1>5 DEF UpdateSite, HostInv, PagesSound
  <2> HIDE DEF row
  <2>4. row.server \in ServerIds /\ servers[row.server].is = "there" /\ row.domain \in Domains
    BY <1>2, <2>1, <2>2 DEF HostInv, PagesSound, SitesPlaced
  <2>5. \A u \in SiteIds : u # t /\ HasDomain(sites, u, row.domain) => row.domain \in raced
    BY <1>1, <2>2 DEF HostInv, RequestsSound, SiteAndRequestRaced
  <2>6. PagesSound(sites', servers, raced)
    BY <1>2, <2>2, <2>3, <2>4, <2>5, PageWritten DEF HostInv
  <2>7. \A p \in Requests : requests'[p].step = "checked" /\ row.domain = requests'[p].domain
           => requests'[p].domain \in raced
    BY <1>1, <1>3, <2>2 DEF HostInv, RequestsSound, TwoRequestsRaced
  <2>8. RequestsSound(sites', requests', raced)
    <3>1. sites \in [SiteIds -> SiteRow]
      BY DEF HostInv, PagesSound
    <3> QED
      BY <1>2, <1>3, <2>2, <2>3, <2>7, <3>1, RequestsBesidePage
  <2> QED
    BY <2>6, <2>8 DEF HostInv, UpdateSite
<1> QED
  BY <1>4, <1>5

(* The row of a health check that begins: on a site, of a server.           *)
LEMMA HealthCheckRow ==
    ASSUME NEW s \in ServerIds \cup {Nobody}, NEW t \in SiteIds
    PROVE  LET q == [Done("health check", s, "nothing") EXCEPT !.site = t, !.step = "row read"]
           IN  q \in RequestRow /\ RequestFilled(q) /\ q.step # "checked"
<1> DEFINE done == Done("health check", s, "nothing")
           q == [done EXCEPT !.site = t, !.step = "row read"]
<1>0. "health check" \in Operations /\ "nothing" \in Told
  BY OperationNames, ToldNames
<1>1. done \in RequestRow /\ done.op = "health check"
  BY <1>0, DoneIs
<1> HIDE DEF done
<1>2. q \in RequestRow
  BY <1>1 DEF RequestRow, Steps
<1>3. q.op = "health check" /\ q.site = t /\ q.step = "row read"
  BY <1>1 DEF RequestRow
<1>4. RequestFilled(q) /\ q.step # "checked"
  BY <1>3 DEF RequestFilled
<1> QED
  BY <1>2, <1>4 DEF done

LEMMA CreateSiteSafe ==
    ASSUME HostInv, NEW r \in Requests, NEW t \in SiteIds, CreateSite(r, t), UNCHANGED host
    PROVE  HostInv'
<1> DEFINE s == requests[r].server
           d == requests[r].domain
<1>1. requests[r].step = "checked" /\ requests[r] \in RequestRow /\ RequestFilled(requests[r])
      /\ requests[r].op = "create site"
  BY DEF CreateSite, At, HostInv, RequestsSound
<1>2. d \in Domains /\ requests[r].site = Nobody
  BY <1>1 DEF RequestFilled
<1>3. CASE ~Known(s)
  <2>1. RequestsSound(sites, requests', raced)
    BY <1>3, Answered, ToldNames DEF CreateSite
  <2> QED
    BY <1>3, <2>1 DEF CreateSite, HostInv
<1>4. CASE Known(s)
  <2>1. s \in ServerIds /\ servers[s].is = "there"
    BY <1>4 DEF Known
  <2> DEFINE row == [is |-> "there", server |-> s, checked |-> FALSE, domain |-> d]
             q == [Done("health check", s, "nothing") EXCEPT !.site = t, !.step = "row read"]
  <2>2. row \in SiteRow /\ row.is = "there" /\ row.server = s /\ row.domain = d
    BY <1>2, <2>1 DEF SiteRow
  <2>3. sites' = [sites EXCEPT ![t] = row] /\ requests' = [requests EXCEPT ![r] = q]
    BY <1>4 DEF CreateSite
  <2>4. q \in RequestRow /\ RequestFilled(q) /\ q.step # "checked"
    BY <2>1, HealthCheckRow
  <2> HIDE DEF row, q
  <2>5. /\ RequestsSound(sites, requests', raced)
        /\ requests'[r] = q /\ \A p \in Requests : p # r => requests'[p] = requests[p]
    BY <2>3, <2>4, RequestMoves
  <2>6. \A u \in SiteIds : u # t /\ HasDomain(sites, u, row.domain) => row.domain \in raced
    BY <1>1, <1>2, <2>2, NobodyAssumption DEF HostInv, RequestsSound, SiteAndRequestRaced
  <2>7. PagesSound(sites', servers, raced)
    BY <1>2, <2>1, <2>2, <2>3, <2>6, PageWritten DEF HostInv
  <2>8. \A p \in Requests : requests'[p].step = "checked" /\ row.domain = requests'[p].domain
           => requests'[p].domain \in raced
    BY <1>1, <2>2, <2>4, <2>5 DEF HostInv, RequestsSound, TwoRequestsRaced
  <2>9. RequestsSound(sites', requests', raced)
    <3>1. sites \in [SiteIds -> SiteRow]
      BY DEF HostInv, PagesSound
    <3> QED
      BY <2>2, <2>3, <2>5, <2>8, <3>1, RequestsBesidePage
  <2> QED
    BY <2>7, <2>9 DEF HostInv, CreateSite
<1> QED
  BY <1>3, <1>4

LEMMA RemoveSiteSafe ==
    ASSUME HostInv, NEW r \in Requests, NEW t \in SiteIds, RemoveSite(r, t), UNCHANGED host
    PROVE  HostInv'
<1> DEFINE done == Done("remove site", sites[t].server, "removed")
           q == [done EXCEPT !.site = t]
           row == [NewSite EXCEPT !.is = "gone"]
<1>0. "remove site" \in Operations /\ "removed" \in Told
      /\ sites[t].server \in ServerIds \cup {Nobody}
  BY OperationNames, ToldNames DEF HostInv, PagesSound, SiteRow
<1>1. done \in RequestRow /\ done.op = "remove site" /\ done.step = "over"
  <2>1. done \in RequestRow /\ done.op = "remove site"
    BY <1>0, DoneIs
  <2>2. done.step = "over"
    BY DoneDefaults
  <2> QED
    BY <2>1, <2>2
<1>2. Serve(r, q) /\ sites' = [sites EXCEPT ![t] = row]
  BY DEF RemoveSite
<1>3. row \in SiteRow /\ row.is = "gone"
  BY DEF SiteRow, NewSite
<1> HIDE DEF done, row
<1>4. q \in RequestRow /\ q.step = "over"
  BY <1>1 DEF RequestRow
<1>5. RequestFilled(q)
  BY <1>4 DEF RequestFilled
<1> HIDE DEF q
<1>6. RequestsSound(sites, requests', raced) /\ served' \in 0..MaxRequests
  BY <1>2, <1>4, <1>5, ServedSafe
<1>7. PagesSound(sites', servers, raced)
  BY <1>2, <1>3, PageWritten DEF HostInv
<1>8. RequestsSound(sites', requests', raced)
  <2>1. sites \in [SiteIds -> SiteRow]
    BY DEF HostInv, PagesSound
  <2> QED
    BY <1>2, <1>3, <1>6, <2>1, RequestsBesidePage
<1> QED
  BY <1>6, <1>7, <1>8 DEF HostInv, RemoveSite

-----------------------------------------------------------------------------
(* The health check of a site.                                              *)
LEMMA BeginHealthCheckSafe ==
    ASSUME HostInv, NEW r \in Requests, NEW t \in SiteIds, BeginHealthCheck(r, t), UNCHANGED host
    PROVE  HostInv'
<1> DEFINE q == [Done("health check", sites[t].server, "nothing") EXCEPT !.site = t,
                                                                         !.step = "row read"]
<1>1. sites[t].server \in ServerIds \cup {Nobody}
  BY DEF HostInv, PagesSound, SiteRow
<1>2. q \in RequestRow /\ RequestFilled(q) /\ q.step # "checked"
  BY <1>1, HealthCheckRow
<1>3. Serve(r, q)
  BY DEF BeginHealthCheck
<1> HIDE DEF q
<1>4. RequestsSound(sites, requests', raced) /\ served' \in 0..MaxRequests
  BY <1>2, <1>3, ServedSafe
<1> QED
  BY <1>4 DEF HostInv, BeginHealthCheck

LEMMA WebChangesSafe ==
    ASSUME HostInv, NEW t \in SiteIds, WebChanges(t), UNCHANGED host
    PROVE  HostInv'
<1>0. served < MaxRequests /\ served' = served + 1
  BY DEF WebChanges
<1>1. served' \in 0..MaxRequests
  BY <1>0, InventoryAssumption DEF HostInv
<1> QED
  BY <1>1 DEF HostInv, WebChanges

LEMMA FetchPageSafe ==
    ASSUME HostInv, NEW r \in Requests, FetchPage(r), UNCHANGED host
    PROVE  HostInv'
<1>1. requests[r] \in RequestRow /\ RequestFilled(requests[r]) /\ requests[r].op = "health check"
      /\ requests[r].step = "row read"
  BY DEF FetchPage, At, HostInv, RequestsSound
<1>2. PICK read \in {"fine", "broken"} :
         read = IF PageIsHealthy(web[requests[r].site]) THEN "fine" ELSE "broken"
  OBVIOUS
<1> DEFINE q == [requests[r] EXCEPT !.step = "page fetched", !.read = read]
<1>3. requests' = [requests EXCEPT ![r] = q]
  BY <1>2 DEF FetchPage, HostInv, RequestsSound
<1>4. q \in RequestRow
  BY <1>1 DEF RequestRow, Steps
<1>5. q.op = "health check" /\ q.step = "page fetched" /\ q.site = requests[r].site
  BY <1>1 DEF RequestRow
<1>6. RequestFilled(q) /\ q.step # "checked"
  BY <1>1, <1>5 DEF RequestFilled
<1> HIDE DEF q
<1>7. RequestsSound(sites, requests', raced)
  BY <1>3, <1>4, <1>6, RequestMoves
<1> QED
  BY <1>7 DEF HostInv, FetchPage

LEMMA CheckWpLoginSafe ==
    ASSUME HostInv, NEW r \in Requests, CheckWpLoginAccessibility(r), UNCHANGED host
    PROVE  HostInv'
<1>1. requests[r] \in RequestRow /\ RequestFilled(requests[r]) /\ requests[r].op = "health check"
      /\ requests[r].step = "page fetched"
  BY DEF CheckWpLoginAccessibility, At, HostInv, RequestsSound
<1>2. PICK read \in AuthTypes \cup {"none", "fine", "broken"} :
         read = IF web[requests[r].site].answers THEN requests[r].read ELSE "broken"
  BY <1>1 DEF RequestRow
<1> DEFINE q == [requests[r] EXCEPT !.step = "login fetched", !.read = read]
<1>3. requests' = [requests EXCEPT ![r] = q]
  BY <1>2 DEF CheckWpLoginAccessibility, HostInv, RequestsSound
<1>4. q \in RequestRow
  BY <1>1 DEF RequestRow, Steps
<1>5. q.op = "health check" /\ q.step = "login fetched" /\ q.site = requests[r].site
  BY <1>1 DEF RequestRow
<1>6. RequestFilled(q) /\ q.step # "checked"
  BY <1>1, <1>5 DEF RequestFilled
<1> HIDE DEF q
<1>7. RequestsSound(sites, requests', raced)
  BY <1>3, <1>4, <1>6, RequestMoves
<1> QED
  BY <1>7 DEF HostInv, CheckWpLoginAccessibility

LEMMA PerformHealthCheckSafe ==
    ASSUME HostInv, NEW r \in Requests, PerformHealthCheck(r), UNCHANGED host
    PROVE  HostInv'
<1> DEFINE t == requests[r].site
<1>1. requests[r] \in RequestRow /\ RequestFilled(requests[r]) /\ requests[r].op = "health check"
      /\ requests[r].step = "login fetched"
  BY DEF PerformHealthCheck, At, HostInv, RequestsSound
<1>2. PICK told \in Told : Answer(r, told)
  BY ToldNames DEF PerformHealthCheck
<1>3. RequestsSound(sites, requests', raced)
      /\ requests'[r].step # "checked"
      /\ \A p \in Requests : p # r => requests'[p] = requests[p]
  BY <1>2, Answered
<1>4. CASE ~There(t)
  BY <1>3, <1>4 DEF PerformHealthCheck, HostInv
<1>5. CASE There(t)
  <2>1. t \in SiteIds /\ sites[t] \in SiteRow /\ sites[t].is = "there"
    BY <1>5 DEF There, HostInv, PagesSound
  <2> DEFINE row == [sites[t] EXCEPT !.checked = TRUE]
  <2>2. row \in SiteRow /\ row.is = "there" /\ row.server = sites[t].server
        /\ row.domain = sites[t].domain
    BY <2>1 DEF SiteRow
  <2>3. sites' = [sites EXCEPT ![t] = row]
    BY <1>5 DEF PerformHealthCheck, HostInv, PagesSound
  <2> HIDE DEF row
  <2>4. row.server \in ServerIds /\ servers[row.server].is = "there" /\ row.domain \in Domains
    BY <2>1, <2>2 DEF HostInv, PagesSound, SitesPlaced
  <2>5. \A u \in SiteIds : u # t /\ HasDomain(sites, u, row.domain) => row.domain \in raced
    BY <2>1, <2>2, <2>4 DEF HostInv, PagesSound, TwoSitesRaced, HasDomain
  <2>6. PagesSound(sites', servers, raced)
    BY <2>1, <2>2, <2>3, <2>4, <2>5, PageWritten DEF HostInv
  <2>7. \A p \in Requests : requests'[p].step = "checked" /\ row.domain = requests'[p].domain
                              /\ t # requests'[p].site
           => requests'[p].domain \in raced
    BY <1>3, <2>1, <2>2 DEF RequestsSound, SiteAndRequestRaced, HasDomain
  <2>8. RequestsSound(sites', requests', raced)
    <3>1. sites \in [SiteIds -> SiteRow]
      BY DEF HostInv, PagesSound
    <3> QED
      BY <1>3, <2>1, <2>2, <2>3, <2>7, <3>1, RequestsBesidePage
  <2> QED
    BY <2>6, <2>8 DEF HostInv, PerformHealthCheck
<1> QED
  BY <1>4, <1>5

-----------------------------------------------------------------------------
(* Discovery, and what else is asked over SSH.                              *)
LEMMA BeginDiscoverySafe ==
    ASSUME HostInv, NEW r \in Requests, NEW s \in ServerIds, BeginDiscovery(r, s)
    PROVE  HostInv'
<1> DEFINE done == Done("discover", s, "nothing")
           q == [done EXCEPT !.step = "detecting", !.linked = TRUE]
<1>0. "discover" \in Operations /\ "nothing" \in Told /\ "error" \in Told
      /\ s \in ServerIds \cup {Nobody}
  BY OperationNames, ToldNames
<1>1. done \in RequestRow /\ done.op = "discover"
  BY <1>0, DoneIs
<1>2. Serve(r, Done("discover", s, "error")) \/ Serve(r, q)
  BY DEF BeginDiscovery
<1> HIDE DEF done
<1>3. q \in RequestRow
  BY <1>1 DEF RequestRow, Steps
<1>4. q.op = "discover" /\ q.step = "detecting"
  BY <1>1 DEF RequestRow
<1>5. RequestFilled(q) /\ q.step # "checked"
  BY <1>4 DEF RequestFilled
<1> HIDE DEF q
<1>6. RequestsSound(sites, requests', raced) /\ served' \in 0..MaxRequests
  <2>1. CASE Serve(r, Done("discover", s, "error"))
    BY <1>0, <2>1, DoneSafe
  <2>2. CASE Serve(r, q)
    BY <1>3, <1>5, <2>2, ServedSafe
  <2> QED
    BY <1>2, <2>1, <2>2
<1> QED
  BY <1>6 DEF HostInv, BeginDiscovery

LEMMA LoseConnectionSafe ==
    ASSUME HostInv, NEW r \in Requests, LoseConnection(r)
    PROVE  HostInv'
<1> DEFINE q == [requests[r] EXCEPT !.linked = FALSE]
<1>1. requests[r] \in RequestRow /\ RequestFilled(requests[r])
  BY DEF HostInv, RequestsSound
<1>2. requests' = [requests EXCEPT ![r] = q]
  BY DEF LoseConnection, HostInv, RequestsSound
<1>3. q \in RequestRow /\ q.op = requests[r].op /\ q.step = requests[r].step
      /\ q.site = requests[r].site /\ q.domain = requests[r].domain /\ q.read = requests[r].read
  BY <1>1 DEF RequestRow
<1> HIDE DEF q
<1>4. requests' \in [Requests -> RequestRow]
      /\ \A p \in Requests : /\ requests'[p].op = requests[p].op
                             /\ requests'[p].step = requests[p].step
                             /\ requests'[p].site = requests[p].site
                             /\ requests'[p].domain = requests[p].domain
                             /\ requests'[p].read = requests[p].read
  BY <1>2, <1>3 DEF HostInv, RequestsSound
<1>5. \A p \in Requests : RequestFilled(requests'[p])
  BY <1>4 DEF HostInv, RequestsSound, RequestFilled
<1>6. SiteAndRequestRaced(sites, requests', raced) /\ TwoRequestsRaced(requests', raced)
  BY <1>4 DEF HostInv, RequestsSound, SiteAndRequestRaced, TwoRequestsRaced
<1> QED
  BY <1>4, <1>5, <1>6 DEF HostInv, RequestsSound, LoseConnection

LEMMA DetectSafe ==
    ASSUME HostInv, NEW r \in Requests, Detect(r)
    PROVE  HostInv'
<1> DEFINE seen == UNION {Detected(d, host[requests[r].server]) : d \in Detectors}
<1>1. seen = {}
  BY NothingFound
<1>2. /\ requests[r].op = "discover"
      /\ \E told \in IF requests[r].linked THEN {seen} ELSE SUBSET seen :
            requests' = [requests EXCEPT ![r].step = "detected", ![r].found = told]
  BY DEF Detect, At
<1> HIDE DEF seen
<1>3. requests' = [requests EXCEPT ![r].step = "detected", ![r].found = {}]
  BY <1>1, <1>2
<1>4. requests[r] \in RequestRow
  BY DEF HostInv, RequestsSound
<1> DEFINE q == [requests[r] EXCEPT !.step = "detected", !.found = {}]
<1>5. requests' = [requests EXCEPT ![r] = q]
  BY <1>3 DEF HostInv, RequestsSound
<1>6. q \in RequestRow /\ q.op = "discover" /\ q.step = "detected"
  BY <1>2, <1>4 DEF RequestRow, Steps
<1>7. RequestFilled(q) /\ q.step # "checked"
  BY <1>6 DEF RequestFilled
<1> HIDE DEF q
<1>8. RequestsSound(sites, requests', raced)
  BY <1>5, <1>6, <1>7, RequestMoves
<1> QED
  BY <1>8 DEF HostInv, Detect

LEMMA DiscoverServerEnvironmentSafe ==
    ASSUME HostInv, NEW r \in Requests, DiscoverServerEnvironment(r)
    PROVE  HostInv'
<1> DEFINE s == requests[r].server
<1>1. requests[r] \in RequestRow /\ requests[r].op = "discover"
  BY DEF DiscoverServerEnvironment, At, HostInv, RequestsSound
<1>2. CASE ~Known(s)
  <2>1. RequestsSound(sites, requests', raced)
    BY <1>2, Answered, ToldNames DEF DiscoverServerEnvironment
  <2> QED
    BY <1>2, <2>1 DEF DiscoverServerEnvironment, HostInv
<1>3. CASE Known(s)
  <2>1. s \in ServerIds /\ servers[s] \in ServerRow /\ servers[s].is = "there"
    BY <1>3 DEF Known, HostInv, MachinesSound
  <2>2. requests[r].found = {}
    BY <1>1 DEF RequestRow
  <2>3. requests[r].found \cap {"linux"} = {} /\ PanelIn(requests[r].found) = "none"
    BY <2>2 DEF PanelIn
  <2>4. servers' = [servers EXCEPT ![s].os = {}, ![s].panel = "none"]
        /\ requests' = [requests EXCEPT ![r].step = "disconnecting"]
    BY <1>3, <2>3 DEF DiscoverServerEnvironment
  <2> DEFINE row == [servers[s] EXCEPT !.os = {}, !.panel = "none"]
             q == [requests[r] EXCEPT !.step = "disconnecting"]
  <2>5. row \in ServerRow /\ row.is = "there" /\ row.type = servers[s].type
        /\ row.secret = servers[s].secret
    BY <2>1 DEF ServerRow, Panels
  <2>6. servers' = [servers EXCEPT ![s] = row]
    BY <2>4 DEF HostInv, MachinesSound
  <2>7. q \in RequestRow /\ q.op = "discover" /\ q.step = "disconnecting"
    BY <1>1 DEF RequestRow, Steps
  <2>8. RequestFilled(q) /\ q.step # "checked"
    BY <2>7 DEF RequestFilled
  <2>9. requests' = [requests EXCEPT ![r] = q]
    BY <2>4 DEF HostInv, RequestsSound
  <2> HIDE DEF row, q
  <2>10. RequestsSound(sites, requests', raced)
    BY <2>7, <2>8, <2>9, RequestMoves
  <2>11. row.secret # CredentialField(row.type) => s \in edited
    BY <2>1, <2>5 DEF HostInv, MachinesSound, SecretsFit
  <2>12. edited' = edited /\ edited \in SUBSET ServerIds
    BY DEF DiscoverServerEnvironment, HostInv, MachinesSound
  <2>13. MachinesSound(servers', edited') /\ PagesSound(sites, servers', raced)
    BY <2>1, <2>5, <2>6, <2>11, <2>12, ServerWritten
  <2> QED
    BY <2>10, <2>13 DEF HostInv, DiscoverServerEnvironment
<1> QED
  BY <1>2, <1>3

LEMMA DisconnectSafe ==
    ASSUME HostInv, NEW r \in Requests, Disconnect(r)
    PROVE  HostInv'
<1>1. requests[r] \in RequestRow
  BY DEF HostInv, RequestsSound
<1>2. PICK told \in Told :
         told = IF requests[r].told = "nothing" THEN "discovered" ELSE requests[r].told
  BY <1>1, ToldNames DEF RequestRow
<1> DEFINE q == [requests[r] EXCEPT !.step = "over", !.linked = FALSE, !.told = told]
<1>3. requests' = [requests EXCEPT ![r] = q]
  BY <1>2 DEF Disconnect, HostInv, RequestsSound
<1>4. q \in RequestRow /\ q.step = "over"
  BY <1>1 DEF RequestRow, Steps
<1>5. RequestFilled(q) /\ q.step # "checked"
  BY <1>4 DEF RequestFilled
<1> HIDE DEF q
<1>6. RequestsSound(sites, requests', raced)
  BY <1>3, <1>4, <1>5, RequestMoves
<1> QED
  BY <1>6 DEF HostInv, Disconnect

(* The two requests about the WordPress of a site: no command of theirs is  *)
(* let through, so that neither has an answer.                              *)
LEMMA AskedSafe ==
    ASSUME HostInv, NEW r \in Requests, NEW t \in SiteIds, NEW op \in Operations,
           op # "health check",
           NEW told \in Told, NEW step \in {"over", "disconnecting"}, NEW linked \in BOOLEAN,
           Serve(r, [Done(op, sites[t].server, told) EXCEPT !.site = t, !.step = step,
                                                           !.linked = linked])
    PROVE  RequestsSound(sites, requests', raced) /\ served' \in 0..MaxRequests
<1> DEFINE done == Done(op, sites[t].server, told)
           q == [done EXCEPT !.site = t, !.step = step, !.linked = linked]
<1>1. sites[t].server \in ServerIds \cup {Nobody}
  BY DEF HostInv, PagesSound, SiteRow
<1>2. done \in RequestRow /\ done.op = op
  BY <1>1, DoneIs
<1>3. Serve(r, q)
  OBVIOUS
<1> HIDE DEF done
<1>4. q \in RequestRow
  BY <1>2 DEF RequestRow, Steps
<1>5. q.op = op /\ q.step = step
  BY <1>2 DEF RequestRow
<1>6. RequestFilled(q) /\ q.step # "checked"
  BY <1>5 DEF RequestFilled
<1> HIDE DEF q
<1> QED
  BY <1>3, <1>4, <1>6, ServedSafe

LEMMA AskedAtOnce ==
    ASSUME HostInv, NEW r \in Requests, NEW t \in SiteIds, NEW op \in Operations,
           NEW told \in Told, Serve(r, [Done(op, sites[t].server, told) EXCEPT !.site = t])
    PROVE  RequestsSound(sites, requests', raced) /\ served' \in 0..MaxRequests
<1> DEFINE done == Done(op, sites[t].server, told)
           q == [done EXCEPT !.site = t]
<1>1. sites[t].server \in ServerIds \cup {Nobody}
  BY DEF HostInv, PagesSound, SiteRow
<1>2. done \in RequestRow
  BY <1>1, DoneIs
<1>3. done.step = "over" /\ Serve(r, q)
  BY DoneDefaults
<1> HIDE DEF done
<1>4. q \in RequestRow
  BY <1>2 DEF RequestRow
<1>5. q.step = "over"
  BY <1>2, <1>3 DEF RequestRow
<1>6. RequestFilled(q) /\ q.step # "checked"
  BY <1>5 DEF RequestFilled
<1> HIDE DEF q
<1> QED
  BY <1>3, <1>4, <1>6, ServedSafe

LEMMA DetectWordPressSafe ==
    ASSUME HostInv, NEW r \in Requests, NEW t \in SiteIds, DetectWordPressInstallation(r, t)
    PROVE  HostInv'
<1> DEFINE done(told) == Done("detect WordPress", sites[t].server, told)
<1>0. "detect WordPress" \in Operations /\ "not detected" \in Told
  BY OperationNames, ToldNames
<1>1. ~(\A c \in WordPressCommands : ValidateCommand(c))
  BY Refused DEF WordPressCommands
<1>2. \/ Serve(r, [done("not detected") EXCEPT !.site = t])
      \/ Serve(r, [done("not detected") EXCEPT !.site = t, !.step = "disconnecting",
                                               !.linked = TRUE])
  BY <1>1 DEF DetectWordPressInstallation
<1>3. RequestsSound(sites, requests', raced) /\ served' \in 0..MaxRequests
  <2>1. CASE Serve(r, [done("not detected") EXCEPT !.site = t, !.step = "disconnecting",
                                                   !.linked = TRUE])
    BY <1>0, <2>1, AskedSafe
  <2>2. CASE Serve(r, [done("not detected") EXCEPT !.site = t])
    BY <1>0, <2>2, AskedAtOnce
  <2> QED
    BY <1>2, <2>1, <2>2
<1> QED
  BY <1>3 DEF HostInv, DetectWordPressInstallation

LEMMA DetectMultisiteSafe ==
    ASSUME HostInv, NEW r \in Requests, NEW t \in SiteIds, DetectMultisiteConfiguration(r, t)
    PROVE  HostInv'
<1> DEFINE done == Done("detect multisite", sites[t].server, "single site")
<1>0. "detect multisite" \in Operations /\ "single site" \in Told
  BY OperationNames, ToldNames
<1>1. ~ValidateCommand(MultisiteCommand)
  BY Refused DEF MultisiteCommand
<1>2. Serve(r, [done EXCEPT !.site = t])
  BY <1>1 DEF DetectMultisiteConfiguration
<1>3. RequestsSound(sites, requests', raced) /\ served' \in 0..MaxRequests
  BY <1>0, <1>2, AskedAtOnce
<1> QED
  BY <1>3 DEF HostInv, DetectMultisiteConfiguration

-----------------------------------------------------------------------------
LEMMA ServerStep ==
    ASSUME HostInv, NEW r \in Requests, ServerNext(r), UNCHANGED host
    PROVE  HostInv'
BY CreateServerSafe, UpdateServerSafe, RemoveServerSafe, BeginRotationSafe, TestConnectionSafe,
   RotateCredentialsSafe DEF ServerNext

LEMMA SiteStep ==
    ASSUME HostInv, NEW r \in Requests, SiteNext(r), UNCHANGED host
    PROVE  HostInv'
BY BeginCreateSiteSafe, BeginUpdateSiteSafe, CreateSiteSafe, RemoveSiteSafe, BeginHealthCheckSafe,
   UpdateSiteSafe, FetchPageSafe, CheckWpLoginSafe, PerformHealthCheckSafe DEF SiteNext

LEMMA DetectionStep ==
    ASSUME HostInv, NEW r \in Requests, DetectionNext(r)
    PROVE  HostInv'
BY BeginDiscoverySafe, DetectSafe, LoseConnectionSafe, DiscoverServerEnvironmentSafe,
   DisconnectSafe, DetectWordPressSafe, DetectMultisiteSafe DEF DetectionNext

LEMMA HostsStart == DiscoveryInit => HostInv
<1> SUFFICES ASSUME DiscoveryInit
             PROVE  HostInv
  OBVIOUS
<1>0. /\ servers = [s \in ServerIds |-> NewServer] /\ sites = [t \in SiteIds |-> NewSite]
      /\ requests = [r \in Requests |-> NoRequest]
      /\ served = 0 /\ edited = {} /\ raced = {} /\ host \in [ServerIds -> Stacks]
  BY DEF DiscoveryInit, InventoryInit
<1>1. NewServer \in ServerRow /\ NewServer.is = "new"
  BY DEF ServerRow, NewServer, AuthTypes, Addresses, Panels
<1>2. NewSite \in SiteRow /\ NewSite.is = "new"
  BY DEF SiteRow, NewSite
<1>3. NoRequest.step = "over"
  BY DEF NoRequest
<1>4. RequestFilled(NoRequest)
  BY <1>3 DEF RequestFilled
<1>5. MachinesSound(servers, edited)
  BY <1>0, <1>1 DEF MachinesSound, SecretsFit
<1>6. PagesSound(sites, servers, raced)
  BY <1>0, <1>2 DEF PagesSound, SitesPlaced, TwoSitesRaced, HasDomain
<1>7. RequestsSound(sites, requests, raced)
  BY <1>0, <1>3, <1>4, NoRequestTyped
  DEF RequestsSound, SiteAndRequestRaced, TwoRequestsRaced
<1>8. served \in 0..MaxRequests
  BY <1>0, InventoryAssumption
<1> QED
  BY <1>0, <1>5, <1>6, <1>7, <1>8 DEF HostInv

LEMMA HostsStep ==
    ASSUME HostInv, HostsNext \/ UNCHANGED discoveryVars
    PROVE  HostInv'
<1>1. CASE HostsNext
  BY <1>1, ServerStep, SiteStep, WebChangesSafe, DetectionStep DEF HostsNext
<1>2. CASE UNCHANGED discoveryVars
  BY <1>2 DEF discoveryVars, inventoryVars, HostInv
<1> QED
  BY <1>1, <1>2

LEMMA HostsMean == HostInv => DiscoveryType /\ InventoryKept /\ DiscoveryTellsNothing
<1> SUFFICES ASSUME HostInv
             PROVE  DiscoveryType /\ InventoryKept /\ DiscoveryTellsNothing
  OBVIOUS
<1>1. DiscoveryType
  <2>1. \A s \in ServerIds :
         /\ servers[s].is \in {"new", "there", "gone"} /\ servers[s].type \in AuthTypes
         /\ servers[s].secret \in {"privateKey", "password"}
         /\ servers[s].address \in Addresses /\ servers[s].panel \in Panels
    BY DEF HostInv, MachinesSound, ServerRow
  <2>2. \A t \in SiteIds : There(t) => Known(sites[t].server) /\ sites[t].domain \in Domains
    BY DEF HostInv, PagesSound, SitesPlaced, There, Known
  <2>3. \A r \in Requests : requests[r].step \in Steps
    BY DEF HostInv, RequestsSound, RequestRow
  <2> QED
    BY <2>1, <2>2, <2>3
    DEF DiscoveryType, InventoryType, HostInv, MachinesSound, PagesSound
<1>2. InventoryKept
  <2>1. \A s \in ServerIds :
         Known(s) /\ servers[s].secret # CredentialField(servers[s].type) => s \in edited
    BY DEF HostInv, MachinesSound, SecretsFit, Known
  <2>2. ASSUME NEW t \in SiteIds, NEW u \in SiteIds,
               t # u, There(t), There(u), sites[t].domain = sites[u].domain
        PROVE  sites[t].domain \in raced
    BY <2>2 DEF HostInv, PagesSound, SitesPlaced, TwoSitesRaced, HasDomain, There
  <2> QED
    BY <2>1, <2>2 DEF InventoryKept
<1>3. DiscoveryTellsNothing
  <2> SUFFICES ASSUME NEW r \in Requests
               PROVE  /\ requests[r].found = {}
                      /\ requests[r].told \notin {"detected", "multisite"}
                      /\ Known(requests[r].server) => servers[requests[r].server].os = {}
    BY DEF DiscoveryTellsNothing
  <2>1. requests[r] \in RequestRow
    BY DEF HostInv, RequestsSound
  <2>2. requests[r].found = {} /\ requests[r].told \in Told
    BY <2>1 DEF RequestRow
  <2>3. requests[r].told \notin {"detected", "multisite"}
    BY <2>2 DEF Told
  <2>4. Known(requests[r].server) => servers[requests[r].server].os = {}
    BY DEF Known, HostInv, MachinesSound, ServerRow
  <2> QED
    BY <2>2, <2>3, <2>4
<1> QED
  BY <1>1, <1>2, <1>3

-----------------------------------------------------------------------------
(***************************************************************************)
(* The verification of a site.                                             *)
(***************************************************************************)
CheckNames == ToSet(Checks)
ResultRow == [type : CheckNames \cup {"comprehensive", "unknown"}, passed : BOOLEAN]

ResultRows == Seq(ResultRow)
Verification ==
    [phase : {"idle", "fetching", "storing", "over"}, page : Pages, shown : SUBSET Pages,
     pending : SUBSET CheckNames, passed : SUBSET CheckNames, failed : SUBSET CheckNames,
     stores : BOOLEAN, rows : ResultRows, left : ResultRows,
     told : {"nothing", "verdict", "failed", "error"}, changes : Nat, faults : Nat]

(* A check that passed did so on a page that the site has shown.            *)
PassedOnPages(passed, shown) == \A n \in passed : \E p \in shown : Check(n, p)

(* What is stored, and what is still to be, is the one verdict, or ends     *)
(* with the failed one.                                                     *)
StoredRight(v) ==
    /\ v.told # "nothing" => v.phase = "over"
    /\ v.phase \in {"idle", "fetching"} => v.rows = <<>>
    /\ v.phase = "storing" =>
         IF v.stores THEN v.rows = <<>> /\ v.left = VerdictRows(v) ELSE v.left = FailedRows
    /\ v.told = "verdict" => v.rows = <<>> \/ v.rows = VerdictRows(v)
    /\ v.told = "failed" => \E s \in Seq(ResultRow) : v.rows = s \o FailedRows

VerificationSound(v) ==
    /\ v \in Verification
    /\ IsFiniteSet(v.shown) /\ v.page \in v.shown
    /\ v.passed \cap v.failed = {}
    /\ v.pending \cap (v.passed \cup v.failed) = {}
    /\ v.phase = "idle" => v.passed = {} /\ v.failed = {}
    /\ PassedOnPages(v.passed, v.shown)
    /\ StoredRight(v)

-----------------------------------------------------------------------------
LEMMA TenChecks ==
    /\ DOMAIN Checks = 1..10
    /\ \A i \in 1..10 : Checks[i] \in CheckNames
    /\ \A i \in 1..10 : Checks[i] # "comprehensive"
    /\ \A n \in CheckNames : n # "comprehensive"
<1>1. DOMAIN Checks = 1..10
  BY DEF Checks
<1>2. \A i \in 1..10 : Checks[i] # "comprehensive"
  BY DEF Checks
<1> QED
  BY <1>1, <1>2 DEF CheckNames, ToSet

LEMMA ConcatAt ==
    ASSUME NEW S, NEW s \in Seq(S), NEW t \in Seq(S)
    PROVE  /\ s \o t \in Seq(S)
           /\ Len(s) \in Nat /\ Len(t) \in Nat /\ DOMAIN t = 1..Len(t)
           /\ Len(s \o t) = Len(s) + Len(t)
           /\ DOMAIN (s \o t) = 1..(Len(s) + Len(t))
           /\ \A i \in 1..Len(s) : (s \o t)[i] = s[i]
           /\ \A i \in 1..Len(t) : (s \o t)[Len(s) + i] = t[i]
<1>1. s \o t \in Seq(S) /\ Len(s) \in Nat /\ Len(t) \in Nat /\ DOMAIN t = 1..Len(t)
  OBVIOUS
<1>2. Len(s \o t) = Len(s) + Len(t) /\ DOMAIN (s \o t) = 1..(Len(s) + Len(t))
  OBVIOUS
<1>3. \A i \in 1..Len(s) : (s \o t)[i] = s[i]
  OBVIOUS
<1>4. \A i \in 1..Len(t) : (s \o t)[Len(s) + i] = t[i]
  OBVIOUS
<1> QED
  BY <1>1, <1>2, <1>3, <1>4

(* The rows after the first, of a verdict and of a failed one.              *)
LEMMA RowsTyped ==
    ASSUME NEW f \in [1..10 -> ResultRow], NEW w \in ResultRow
    PROVE  /\ <<w>> \o f \in Seq(ResultRow)
           /\ DOMAIN (<<w>> \o f) = 1..11 /\ (<<w>> \o f)[1] = w
           /\ \A i \in 1..10 : (<<w>> \o f)[1 + i] = f[i]
<1>1. f \in Seq(ResultRow)
  BY SeqDef
<1>2. Len(f) = 10
  BY <1>1
<1>3. PICK o \in Seq(ResultRow) : o = <<w>> /\ Len(o) = 1 /\ o[1] = w
  <2>1. <<w>> \in Seq(ResultRow) /\ Len(<<w>>) = 1
    OBVIOUS
  <2>2. <<w>>[1] = w
    OBVIOUS
  <2> QED
    BY <2>1, <2>2
<1>4. o \o f \in Seq(ResultRow) /\ DOMAIN (o \o f) = 1..(1 + 10)
      /\ (\A i \in 1..1 : (o \o f)[i] = o[i]) /\ \A i \in 1..10 : (o \o f)[1 + i] = f[i]
  <2>1. /\ o \o f \in Seq(ResultRow) /\ DOMAIN (o \o f) = 1..(Len(o) + Len(f))
        /\ \A i \in 1..Len(o) : (o \o f)[i] = o[i]
        /\ \A i \in 1..Len(f) : (o \o f)[Len(o) + i] = f[i]
    BY <1>1, ConcatAt
  <2> QED
    BY <1>2, <1>3, <2>1
<1>5. 1 + 10 = 11 /\ 1 \in 1..1
  OBVIOUS
<1> QED
  BY <1>3, <1>4, <1>5

LEMMA VerdictRowsAre ==
    ASSUME NEW v \in Verification
    PROVE  /\ VerdictRows(v) \in Seq(ResultRow) /\ DOMAIN VerdictRows(v) = 1..11
           /\ VerdictRows(v)[1] = [type |-> "comprehensive", passed |-> v.failed = {}]
           /\ \A i \in 2..11 : VerdictRows(v)[i].type # "comprehensive"
<1> DEFINE f == [i \in DOMAIN Checks |->
                   [type |-> IF Checks[i] \in v.passed \cup v.failed THEN Checks[i] ELSE "unknown",
                    passed |-> Checks[i] \in v.passed]]
           w == [type |-> "comprehensive", passed |-> v.failed = {}]
<1>1. VerdictRows(v) = <<w>> \o f
  BY DEF VerdictRows
<1>2. f \in [1..10 -> ResultRow]
  BY TenChecks DEF ResultRow
<1>3. w \in ResultRow
  BY DEF ResultRow
<1>4. \A i \in 1..10 : f[i].type # "comprehensive"
  BY TenChecks
<1> HIDE DEF f, w
<1>5. \A i \in 2..11 : i - 1 \in 1..10 /\ i = 1 + (i - 1)
  OBVIOUS
<1>6. \A i \in 2..11 : VerdictRows(v)[i] = f[i - 1]
  BY <1>1, <1>2, <1>3, <1>5, RowsTyped
<1>7. \A i \in 2..11 : VerdictRows(v)[i].type # "comprehensive"
  BY <1>4, <1>5, <1>6
<1>8. VerdictRows(v)[1] = w /\ VerdictRows(v) \in Seq(ResultRow) /\ DOMAIN VerdictRows(v) = 1..11
  BY <1>1, <1>2, <1>3, RowsTyped
<1> QED
  BY <1>7, <1>8 DEF w

LEMMA FailedRowsAre ==
    /\ FailedRows \in Seq(ResultRow) /\ DOMAIN FailedRows = 1..11
    /\ FailedRows[1] = [type |-> "comprehensive", passed |-> FALSE]
    /\ \A i \in 2..11 : FailedRows[i].type # "comprehensive"
<1> DEFINE f == [i \in DOMAIN Checks |-> [type |-> Checks[i], passed |-> FALSE]]
           w == [type |-> "comprehensive", passed |-> FALSE]
<1>1. FailedRows = <<w>> \o f
  BY DEF FailedRows
<1>2. f \in [1..10 -> ResultRow]
  BY TenChecks DEF ResultRow
<1>3. w \in ResultRow
  BY DEF ResultRow
<1>4. \A i \in 1..10 : f[i].type # "comprehensive"
  BY TenChecks
<1> HIDE DEF f, w
<1>5. \A i \in 2..11 : i - 1 \in 1..10 /\ i = 1 + (i - 1)
  OBVIOUS
<1>6. \A i \in 2..11 : FailedRows[i] = f[i - 1]
  BY <1>1, <1>2, <1>3, <1>5, RowsTyped
<1>7. \A i \in 2..11 : FailedRows[i].type # "comprehensive"
  BY <1>4, <1>5, <1>6
<1>8. FailedRows[1] = w /\ FailedRows \in Seq(ResultRow) /\ DOMAIN FailedRows = 1..11
  BY <1>1, <1>2, <1>3, RowsTyped
<1> QED
  BY <1>7, <1>8 DEF w

LEMMA OneWhole ==
    ASSUME NEW v \in Verification
    PROVE  /\ 1 \in DOMAIN VerdictRows(v) /\ Wholes(VerdictRows(v)) = {1}
           /\ VerdictRows(v)[1].passed <=> v.failed = {}
<1>1. 1 \in 1..11 /\ \A i \in 1..11 : i = 1 \/ i \in 2..11
  OBVIOUS
<1>2. VerdictRows(v)[1].type = "comprehensive" /\ (VerdictRows(v)[1].passed <=> v.failed = {})
  <2>1. PICK healthy \in BOOLEAN : healthy <=> v.failed = {}
    OBVIOUS
  <2>2. VerdictRows(v)[1] = [type |-> "comprehensive", passed |-> healthy]
    BY <2>1, VerdictRowsAre
  <2> QED
    BY <2>1, <2>2
<1>3. DOMAIN VerdictRows(v) = 1..11 /\ \A i \in 2..11 : VerdictRows(v)[i].type # "comprehensive"
  BY VerdictRowsAre
<1> QED
  BY <1>1, <1>2, <1>3 DEF Wholes

LEMMA LastWholeFailed ==
    ASSUME NEW s \in Seq(ResultRow)
    PROVE  \E i \in Wholes(s \o FailedRows) :
              ~(s \o FailedRows)[i].passed /\ \A j \in Wholes(s \o FailedRows) : j <= i
<1> DEFINE all == s \o FailedRows
<1>1. FailedRows \in Seq(ResultRow) /\ Len(FailedRows) = 11 /\ Len(s) \in Nat
  BY FailedRowsAre
<1>0. /\ DOMAIN all = 1..(Len(s) + Len(FailedRows))
      /\ \A i \in 1..Len(FailedRows) : all[Len(s) + i] = FailedRows[i]
  <2>1. PICK t \in Seq(ResultRow) : t = FailedRows
    BY <1>1
  <2>2. DOMAIN (s \o t) = 1..(Len(s) + Len(t))
    BY ConcatAt
  <2>3. \A i \in 1..Len(t) : (s \o t)[Len(s) + i] = t[i]
    BY ConcatAt
  <2> QED
    BY <2>1, <2>2, <2>3
<1>2. DOMAIN all = 1..(Len(s) + 11)
  BY <1>0, <1>1
<1>3. \A i \in 1..11 : all[Len(s) + i] = FailedRows[i]
  BY <1>0, <1>1
<1> HIDE DEF all
<1> DEFINE n == Len(s) + 1
<1>4. n \in DOMAIN all
  BY <1>1, <1>2
<1>5. all[n].type = "comprehensive" /\ ~all[n].passed
  <2>1. all[n] = FailedRows[1]
    BY <1>3
  <2> QED
    BY <2>1, FailedRowsAre
<1>6. ASSUME NEW j \in DOMAIN all, j > n
      PROVE  all[j].type # "comprehensive"
  <2>1. j \in Nat /\ j <= Len(s) + 11 /\ j > Len(s) + 1
    BY <1>1, <1>2, <1>6
  <2>3. j - Len(s) \in 2..11 /\ j = Len(s) + (j - Len(s)) /\ j - Len(s) \in 1..11
    BY <1>1, <2>1
  <2>2. all[j] = FailedRows[j - Len(s)]
    BY <1>3, <2>3
  <2> QED
    BY <2>2, <2>3, FailedRowsAre
<1>7. n \in Wholes(all)
  BY <1>4, <1>5 DEF Wholes
<1>8. \A j \in Wholes(all) : j <= n
  <2> TAKE j \in Wholes(all)
  <2>1. j \in DOMAIN all /\ all[j].type = "comprehensive"
    BY DEF Wholes
  <2>2. ~(j > n)
    BY <2>1, <1>6
  <2>3. j \in Nat /\ n \in Nat
    BY <1>1, <1>2, <2>1
  <2> HIDE DEF n
  <2> QED
    BY <2>2, <2>3
<1> QED
  BY <1>5, <1>7, <1>8 DEF all

-----------------------------------------------------------------------------
(* The verdict of a run of checks is that of what passed and what failed.   *)
LEMMA SameRows ==
    ASSUME NEW v, NEW w, v.passed = w.passed, v.failed = w.failed
    PROVE  VerdictRows(v) = VerdictRows(w)
BY DEF VerdictRows

(* The checks that have their page are neither lost nor counted twice.      *)
LEMMA FetchedSound ==
    ASSUME NEW v, VerificationSound(v), NEW names \in SUBSET v.pending
    PROVE  /\ Fetched(v, names) \in Verification
           /\ Fetched(v, names).pending = v.pending \ names
           /\ Fetched(v, names).shown = v.shown /\ Fetched(v, names).page = v.page
           /\ Fetched(v, names).phase = v.phase /\ Fetched(v, names).stores = v.stores
           /\ Fetched(v, names).rows = v.rows /\ Fetched(v, names).told = v.told
           /\ Fetched(v, names).changes = v.changes
           /\ Fetched(v, names).passed \cap Fetched(v, names).failed = {}
           /\ Fetched(v, names).pending \cap
                  (Fetched(v, names).passed \cup Fetched(v, names).failed) = {}
           /\ PassedOnPages(Fetched(v, names).passed, v.shown)
<1> DEFINE good == {n \in names : Check(n, v.page)}
           after == [v EXCEPT !.pending = @ \ names, !.passed = @ \cup good,
                              !.failed = @ \cup (names \ good)]
<1>1. Fetched(v, names) = after
  BY DEF Fetched
<1>2. v \in Verification /\ names \subseteq CheckNames /\ good \subseteq names
  BY DEF VerificationSound, Verification
<1>3. \A n \in good : Check(n, v.page)
  OBVIOUS
<1> HIDE DEF good
<1>4. after \in Verification
  BY <1>2 DEF Verification
<1>5. /\ after.pending = v.pending \ names /\ after.passed = v.passed \cup good
      /\ after.failed = v.failed \cup (names \ good)
      /\ after.shown = v.shown /\ after.page = v.page /\ after.phase = v.phase
      /\ after.stores = v.stores /\ after.rows = v.rows /\ after.told = v.told
      /\ after.changes = v.changes
  BY <1>2 DEF Verification
<1> HIDE DEF after
<1>6. after.passed \cap after.failed = {}
      /\ after.pending \cap (after.passed \cup after.failed) = {}
  BY <1>2, <1>5 DEF VerificationSound
<1>7. PassedOnPages(after.passed, v.shown)
  BY <1>3, <1>5 DEF VerificationSound, PassedOnPages
<1> QED
  BY <1>1, <1>4, <1>5, <1>6, <1>7

LEMMA StartSound ==
    ASSUME VerificationSound(verification), NEW stores \in BOOLEAN, NEW skipped,
           StartVerification(stores, skipped)
    PROVE  VerificationSound(verification')
<1> DEFINE v == verification
           after == [v EXCEPT !.phase = "fetching", !.stores = stores,
                              !.pending = CheckNames \ skipped]
<1>1. v \in Verification /\ v.phase = "idle" /\ verification' = after
  BY DEF VerificationSound, StartVerification, CheckNames
<1>2. v.rows = <<>> /\ v.told = "nothing" /\ v.passed = {} /\ v.failed = {}
  BY <1>1 DEF VerificationSound, StoredRight, Verification
<1>3. after \in Verification
  BY <1>1 DEF Verification
<1>4. /\ after.phase = "fetching" /\ after.rows = v.rows /\ after.told = v.told
      /\ after.passed = v.passed /\ after.failed = v.failed
      /\ after.shown = v.shown /\ after.page = v.page
  BY <1>1 DEF Verification
<1> HIDE DEF after
<1>5. StoredRight(after)
  BY <1>2, <1>4 DEF StoredRight
<1>6. IsFiniteSet(after.shown) /\ after.page \in after.shown
      /\ after.passed \cap after.failed = {}
      /\ after.pending \cap (after.passed \cup after.failed) = {}
      /\ PassedOnPages(after.passed, after.shown)
  BY <1>2, <1>4 DEF VerificationSound, PassedOnPages
<1>7. after.phase # "idle"
  BY <1>4
<1> QED
  BY <1>1, <1>3, <1>5, <1>6, <1>7 DEF VerificationSound

LEMMA SiteChangesSound ==
    ASSUME VerificationSound(verification), SiteChanges
    PROVE  VerificationSound(verification')
<1> DEFINE v == verification
<1>1. v \in Verification /\ v.phase = "fetching" /\ v.rows = <<>> /\ v.told = "nothing"
  BY DEF VerificationSound, SiteChanges, StoredRight, Verification
<1>2. PICK names \in SUBSET v.pending, page \in Pages \ {v.page} :
         verification' = [Fetched(v, names) EXCEPT !.page = page, !.changes = @ + 1,
                                                   !.shown = @ \cup {page}]
  BY DEF SiteChanges
<1> DEFINE f == Fetched(v, names)
<1>12. PICK changes \in Nat : changes = f.changes + 1
  BY FetchedSound DEF Verification
<1> DEFINE after == [f EXCEPT !.page = page, !.changes = changes, !.shown = @ \cup {page}]
<1>3. /\ f \in Verification /\ f.shown = v.shown /\ f.phase = v.phase /\ f.rows = v.rows
      /\ f.told = v.told /\ f.passed \cap f.failed = {}
      /\ f.pending \cap (f.passed \cup f.failed) = {} /\ PassedOnPages(f.passed, v.shown)
  BY FetchedSound
<1>4. verification' = after
  BY <1>2, <1>12
<1> HIDE DEF f
<1>5. after \in Verification
  BY <1>3 DEF Verification
<1>6. /\ after.page = page /\ after.shown = v.shown \cup {page} /\ after.phase = v.phase
      /\ after.rows = v.rows /\ after.told = v.told /\ after.passed = f.passed
      /\ after.failed = f.failed /\ after.pending = f.pending
  BY <1>3 DEF Verification
<1> HIDE DEF after
<1>7. IsFiniteSet(after.shown)
  BY <1>6, FS_AddElement DEF VerificationSound
<1>8. PassedOnPages(after.passed, after.shown)
  BY <1>3, <1>6 DEF PassedOnPages
<1>9. StoredRight(after)
  BY <1>1, <1>6 DEF StoredRight
<1>10. after.page \in after.shown /\ after.passed \cap after.failed = {}
       /\ after.pending \cap (after.passed \cup after.failed) = {}
  BY <1>3, <1>6
<1>11. after.phase # "idle"
  BY <1>1, <1>6
<1> QED
  BY <1>4, <1>5, <1>7, <1>8, <1>9, <1>10, <1>11 DEF VerificationSound

LEMMA PerformSound ==
    ASSUME VerificationSound(verification), PerformComprehensiveVerification
    PROVE  VerificationSound(verification')
<1> DEFINE v == verification
           f == Fetched(v, v.pending)
           stored == [f EXCEPT !.phase = "storing", !.left = VerdictRows(f)]
           told == [f EXCEPT !.phase = "over", !.told = "verdict"]
<1>1. v \in Verification /\ v.phase = "fetching" /\ v.rows = <<>> /\ v.told = "nothing"
  BY DEF VerificationSound, PerformComprehensiveVerification, StoredRight, Verification
<1>2. verification' = IF f.stores THEN stored ELSE told
  BY DEF PerformComprehensiveVerification
<1>3. /\ f \in Verification /\ f.shown = v.shown /\ f.page = v.page /\ f.rows = v.rows
      /\ f.told = v.told /\ f.passed \cap f.failed = {}
      /\ f.pending \cap (f.passed \cup f.failed) = {} /\ PassedOnPages(f.passed, v.shown)
  BY FetchedSound
<1> HIDE DEF f
<1>4. CASE f.stores
  <2>1. VerdictRows(f) \in ResultRows
    BY <1>3, VerdictRowsAre DEF ResultRows
  <2>2. stored \in Verification
    BY <1>3, <2>1 DEF Verification
  <2>3. /\ stored.phase = "storing" /\ stored.left = VerdictRows(f) /\ stored.shown = f.shown
        /\ stored.page = f.page /\ stored.rows = f.rows /\ stored.told = f.told
        /\ stored.passed = f.passed /\ stored.failed = f.failed /\ stored.pending = f.pending
        /\ stored.stores = f.stores
    BY <1>3 DEF Verification
  <2> HIDE DEF stored
  <2>4. StoredRight(stored)
    BY <1>1, <1>3, <1>4, <2>3, SameRows DEF StoredRight
  <2>5. VerificationSound(stored)
    BY <1>3, <2>2, <2>3, <2>4 DEF VerificationSound
  <2> QED
    BY <1>2, <1>4, <2>5
<1>5. CASE ~f.stores
  <2>2. told \in Verification
    BY <1>3 DEF Verification
  <2>3. /\ told.phase = "over" /\ told.shown = f.shown
        /\ told.page = f.page /\ told.rows = f.rows /\ told.told = "verdict"
        /\ told.passed = f.passed /\ told.failed = f.failed /\ told.pending = f.pending
    BY <1>3 DEF Verification
  <2> HIDE DEF told
  <2>4. StoredRight(told)
    BY <1>1, <1>3, <2>3 DEF StoredRight
  <2>5. VerificationSound(told)
    BY <1>3, <2>2, <2>3, <2>4 DEF VerificationSound
  <2> QED
    BY <1>2, <1>5, <2>5
<1> QED
  BY <1>4, <1>5

LEMMA StoreSound ==
    ASSUME VerificationSound(verification), StoreVerificationResults
    PROVE  VerificationSound(verification')
<1> DEFINE v == verification
<1>1. v \in Verification /\ v.phase = "storing" /\ v.told = "nothing"
  BY DEF VerificationSound, StoreVerificationResults, StoredRight, Verification
<1>2. PICK said \in {"verdict", "failed"} : said = IF v.stores THEN "verdict" ELSE "failed"
  OBVIOUS
<1> DEFINE all == v.rows \o v.left
           after == [v EXCEPT !.rows = all, !.left = <<>>, !.phase = "over", !.told = said]
<1>3. verification' = after
  BY <1>2 DEF StoreVerificationResults
<1>4. v.rows \in Seq(ResultRow) /\ v.left \in Seq(ResultRow)
  BY <1>1 DEF Verification, ResultRows
<1>5. all \in ResultRows /\ <<>> \in ResultRows
  BY <1>4, ConcatAt DEF ResultRows
<1>6. v.stores => all = VerdictRows(v)
  <2> SUFFICES ASSUME v.stores
               PROVE  all = VerdictRows(v)
    OBVIOUS
  <2>1. v.rows = <<>> /\ v.left = VerdictRows(v)
    BY <1>1 DEF VerificationSound, StoredRight
  <2> QED
    BY <1>4, <2>1, ConcatEmptySeq
<1>7. ~v.stores => \E s \in Seq(ResultRow) : all = s \o FailedRows
  BY <1>1, <1>4 DEF VerificationSound, StoredRight
<1> HIDE DEF all
<1>8. after \in Verification
  BY <1>1, <1>5 DEF Verification
<1>9. /\ after.phase = "over" /\ after.shown = v.shown /\ after.page = v.page
      /\ after.rows = all /\ after.told = said /\ after.passed = v.passed
      /\ after.failed = v.failed /\ after.pending = v.pending
  BY <1>1 DEF Verification
<1> HIDE DEF after
<1>10. StoredRight(after)
  BY <1>2, <1>6, <1>7, <1>9, SameRows DEF StoredRight
<1> QED
  BY <1>3, <1>8, <1>9, <1>10 DEF VerificationSound

LEMMA StoreFailsSound ==
    ASSUME VerificationSound(verification), StoreFails
    PROVE  VerificationSound(verification')
<1> DEFINE v == verification
<1>1. v \in Verification /\ v.phase = "storing" /\ v.told = "nothing"
  BY DEF VerificationSound, StoreFails, StoredRight, Verification
<1>2. PICK n \in 0..(Len(v.left) - 1) :
       verification' =
          [v EXCEPT !.rows = @ \o SubSeq(v.left, 1, n), !.faults = @ + 1, !.stores = FALSE,
                    !.left = IF v.stores THEN FailedRows ELSE <<>>,
                    !.phase = IF v.stores THEN "storing" ELSE "over",
                    !.told = IF v.stores THEN "nothing" ELSE "error"]
  BY DEF StoreFails
<1>3. v.rows \in Seq(ResultRow) /\ v.left \in Seq(ResultRow)
  BY <1>1 DEF Verification, ResultRows
<1>4. PICK left \in Seq(ResultRow) : left = IF v.stores THEN FailedRows ELSE <<>>
  <2>1. FailedRows \in Seq(ResultRow)
    BY FailedRowsAre
  <2>2. <<>> \in Seq(ResultRow)
    OBVIOUS
  <2> QED
    BY <2>1, <2>2
<1>12. PICK phase \in {"storing", "over"} : phase = IF v.stores THEN "storing" ELSE "over"
  OBVIOUS
<1>13. PICK told \in {"nothing", "error"} : told = IF v.stores THEN "nothing" ELSE "error"
  OBVIOUS
<1>14. PICK faults \in Nat : faults = v.faults + 1
  BY <1>1 DEF Verification
<1> DEFINE all == v.rows \o SubSeq(v.left, 1, n)
           after == [v EXCEPT !.rows = all, !.faults = faults, !.stores = FALSE,
                              !.left = left, !.phase = phase, !.told = told]
<1>5. verification' = after
  BY <1>2, <1>4, <1>12, <1>13, <1>14
<1>6. SubSeq(v.left, 1, n) \in Seq(ResultRow)
  BY <1>3
<1>7. all \in ResultRows /\ left \in ResultRows
  BY <1>3, <1>6, ConcatAt DEF ResultRows
<1> HIDE DEF all
<1>8. after \in Verification
  BY <1>1, <1>7 DEF Verification
<1>9. /\ after.phase = phase /\ after.shown = v.shown /\ after.page = v.page
      /\ after.left = left /\ after.told = told /\ after.passed = v.passed
      /\ after.failed = v.failed /\ after.pending = v.pending /\ after.stores = FALSE
  BY <1>1 DEF Verification
<1> HIDE DEF after
<1>10. StoredRight(after)
  BY <1>4, <1>9, <1>12, <1>13 DEF StoredRight
<1>11. after.phase # "idle"
  BY <1>9
<1> QED
  BY <1>5, <1>8, <1>9, <1>10, <1>11 DEF VerificationSound

LEMMA VerificationStep ==
    ASSUME VerificationSound(verification), VerificationNext \/ UNCHANGED verification
    PROVE  VerificationSound(verification')
<1>1. CASE UNCHANGED verification
  BY <1>1
<1>2. ASSUME NEW skipped, VerifyIncident(skipped) \/ VerifySite(skipped)
      PROVE  VerificationSound(verification')
  BY <1>2, StartSound DEF VerifyIncident, VerifySite
<1> QED
  BY <1>1, <1>2, SiteChangesSound, PerformSound, StoreSound, StoreFailsSound DEF VerificationNext

LEMMA VerificationMeans ==
    ASSUME VerificationSound(verification)
    PROVE  VerificationType /\ VerdictHonest /\ VerdictStored
<1> DEFINE v == verification
<1>1. v \in Verification
  BY DEF VerificationSound
<1>2. VerificationType
  <2>1. v.passed \cup v.failed \cup v.pending \subseteq ToSet(Checks)
    BY <1>1 DEF Verification, CheckNames
  <2>2. v.phase = "storing" => v.left # <<>>
    <3>1. 1 \in DOMAIN VerdictRows(v) /\ 1 \in DOMAIN FailedRows
      <4>1. 1 \in DOMAIN VerdictRows(v)
        BY <1>1, OneWhole
      <4>2. 1 \in 1..11 /\ DOMAIN FailedRows = 1..11
        BY FailedRowsAre
      <4> QED
        BY <4>1, <4>2
    <3>2. VerdictRows(v) # <<>> /\ FailedRows # <<>>
      BY <3>1
    <3> QED
      BY <3>2 DEF VerificationSound, StoredRight
  <2> QED
    BY <1>1, <2>1, <2>2 DEF VerificationType, VerificationSound, Verification
<1>3. ASSUME ToldHealthy, Cardinality(v.shown) = 1, CriticalChecks \subseteq v.passed \cup v.failed
      PROVE  Ok(v.page) /\ "fatal error" \notin v.page.says
  <2>1. \A n \in CriticalChecks : n \in v.passed
    BY <1>3 DEF ToldHealthy, DetermineOverallHealth
  <2>2. "http_status" \in v.passed /\ "fatal_error_check" \in v.passed
    BY <2>1 DEF CriticalChecks
  <2>3. PICK p : v.shown = {p}
    BY <1>3, FS_Singleton DEF VerificationSound
  <2>4. v.page = p
    BY <2>3 DEF VerificationSound
  <2>5. Check("http_status", p) /\ Check("fatal_error_check", p)
    BY <2>2, <2>3 DEF VerificationSound, PassedOnPages
  <2>6. PerformHttpStatusCheck(p)
    BY <2>5 DEF Check
  <2>7. PerformFatalErrorCheck(p)
    BY <2>5 DEF Check
  <2> QED
    BY <2>4, <2>6, <2>7 DEF PerformHttpStatusCheck, PerformFatalErrorCheck
<1>4. ASSUME v.rows # <<>>, v.told = "verdict"
      PROVE  \E i \in DOMAIN v.rows : Wholes(v.rows) = {i} /\ (v.rows[i].passed <=> v.failed = {})
  <2>1. v.rows = VerdictRows(v)
    BY <1>4 DEF VerificationSound, StoredRight
  <2> QED
    BY <1>1, <2>1, OneWhole
<1>5. ASSUME v.told = "failed"
      PROVE  \E i \in Wholes(v.rows) : ~v.rows[i].passed /\ \A j \in Wholes(v.rows) : j <= i
  <2>1. PICK s \in Seq(ResultRow) : v.rows = s \o FailedRows
    BY <1>5 DEF VerificationSound, StoredRight
  <2> QED
    BY <2>1, LastWholeFailed
<1>6. VerdictHonest
  <2>1. SUFFICES ASSUME v.phase = "over" /\ v.told = "verdict",
                        ToldHealthy /\ Cardinality(v.shown) = 1,
                        CriticalChecks \subseteq v.passed \cup v.failed
                 PROVE  Ok(v.page) /\ "fatal error" \notin v.page.says
    BY Zenon DEF VerdictHonest
  <2> QED
    BY <1>3, <2>1, Zenon
<1>7. VerdictStored
  BY <1>4, <1>5 DEF VerdictStored
<1> QED
  BY <1>2, <1>6, <1>7

LEMMA VerificationStart ==
    ASSUME NEW shown \in Pages, NEW phase \in {"idle", "over"}, NEW v,
           v = [phase |-> phase, page |-> shown, shown |-> {shown}, pending |-> {},
                passed |-> {}, failed |-> {}, stores |-> FALSE, rows |-> <<>>,
                left |-> <<>>, told |-> "nothing", changes |-> 0, faults |-> 0]
    PROVE  VerificationSound(v)
<1>1. <<>> \in ResultRows
  BY DEF ResultRows
<1>2. v \in Verification
  BY <1>1 DEF Verification
<1>3. /\ v.page = shown /\ v.shown = {shown} /\ v.pending = {} /\ v.passed = {} /\ v.failed = {}
      /\ v.rows = <<>> /\ v.told = "nothing" /\ v.phase # "storing"
  OBVIOUS
<1>4. IsFiniteSet({shown})
  BY FS_Singleton
<1>5. StoredRight(v)
  BY <1>3 DEF StoredRight
<1> QED
  BY <1>2, <1>3, <1>4, <1>5 DEF VerificationSound, PassedOnPages

-----------------------------------------------------------------------------
(***************************************************************************)
(* The backups and the rollback.  A local file is the copy of a call that   *)
(* has its name, a row is of a call that is done, and the artifacts that a  *)
(* rollback has tried are the newest: the last tried of a target is the     *)
(* oldest.                                                                 *)
(***************************************************************************)
(* What a call fetched goes by a name of its millisecond, type and base.    *)
LocalNames == Nat \X ArtifactTypes \X {"x", "index.php"}
CallSteps == {"idle", "fetching", "storing", "done", "failed"}
CallRow == [step : CallSteps, target : BackupTargets, type : ArtifactTypes,
            name : LocalNames \cup {<<>>}, size : Nat, took : Nat]
BackupRow == [id : BackupCalls, target : BackupTargets, type : ArtifactTypes, name : LocalNames,
              checksum : Nat, size : Nat, took : Nat]
BackupRows == Seq(BackupRow)
RollbackRow == [step : {"idle", "running", "reported"}, was : BackupRows, chosen : SUBSET Nat,
                todo : SUBSET Nat, restored : SUBSET BackupTargets, lost : SUBSET BackupTargets,
                edited : SUBSET BackupTargets]
WorldRow == [now : 0..MaxTicks, edits : 0..MaxBackupEdits, faults : Nat]

(* A target that is gone was reported as lost.                              *)
TargetsSound(contents, missing) ==
    /\ contents \in [BackupTargets -> Nat]
    /\ \A t \in BackupTargets : contents[t] = Gone => t \in missing

CallsSound(asked) ==
    /\ asked \in [BackupCalls -> CallRow]
    /\ \A c \in BackupCalls : IF asked[c].step = "idle" THEN asked[c].name = <<>>
                              ELSE asked[c].name \in LocalNames

(* A local file holds what one of the calls with its name fetched.          *)
FetchedBy(c, n, kept, asked) ==
    asked[c].name = n /\ asked[c].step \in {"storing", "done"} /\ asked[c].took = kept[n]
FilesSound(kept, asked) ==
    \A n \in DOMAIN kept : /\ kept[n] \in Nat /\ kept[n] # Gone
                           /\ \E c \in BackupCalls : FetchedBy(c, n, kept, asked)

(* A row is of a call that is done.                                         *)
RowOfCall(row, asked) ==
    /\ asked[row.id].step = "done" /\ asked[row.id].name = row.name
    /\ asked[row.id].took = row.took
RowsOfCalls(listed, asked) == \A i \in DOMAIN listed : RowOfCall(listed[i], asked)
RowsSound(listed, asked) ==
    /\ listed \in BackupRows /\ RowsOfCalls(listed, asked)
    /\ \A i, j \in DOMAIN listed : listed[i].id = listed[j].id => i = j

Shared(row, asked) == \E c \in BackupCalls : c # row.id /\ asked[c].name = row.name
PutBack(t, row, contents, asked) ==
    \/ contents[t] = row.took
    \/ t = Directory /\ row.type # "DIRECTORY_BACKUP"
    \/ Shared(row, asked)

(* The oldest of those that were tried so far is what the target is now.    *)
OldestTried(k, t, r) ==
    /\ k \in r.chosen \ r.todo /\ r.was[k].target = t
    /\ \A j \in r.chosen \ r.todo : r.was[j].target = t => k <= j
RestoredRight(r, contents, asked) ==
    \A t \in r.restored \ (r.lost \cup r.edited) :
        \E k \in Nat : OldestTried(k, t, r) /\ PutBack(t, r.was[k], contents, asked)
RollbackSound(r, asked) ==
    /\ r \in RollbackRow /\ RowsOfCalls(r.was, asked)
    /\ r.chosen \subseteq DOMAIN r.was /\ r.todo \subseteq r.chosen
    /\ \A m \in r.todo : \A j \in r.chosen \ r.todo : m < j
    /\ r.step = "idle" => r.restored = {} /\ r.lost = {}
    /\ r.step = "reported" => r.todo = {}

BackupInv ==
    /\ TargetsSound(remote, rollback.lost) /\ CallsSound(calls) /\ FilesSound(files, calls)
    /\ RowsSound(rows, calls) /\ RollbackSound(rollback, calls)
    /\ RestoredRight(rollback, remote, calls) /\ world \in WorldRow

LEMMA NameOfNone == <<>> \notin LocalNames
BY DEF LocalNames

LEMMA SizeTyped == \A n \in Nat : Size(n) \in Nat
BY DEF Size

(* Calls that are done are left alone, and no call changes its name.        *)
CallsKept(asked, after) ==
    \A c \in BackupCalls : /\ asked[c].step = "done" => after[c] = asked[c]
                           /\ asked[c].step # "idle" => after[c].name = asked[c].name

LEMMA RowKept ==
    ASSUME NEW asked, NEW after, CallsKept(asked, after), NEW row \in BackupRow,
           RowOfCall(row, asked)
    PROVE  RowOfCall(row, after)
BY DEF RowOfCall, CallsKept, BackupRow

LEMMA ListedRow ==
    ASSUME NEW listed \in BackupRows, NEW i \in DOMAIN listed
    PROVE  i \in Nat /\ i >= 1 /\ i <= Len(listed) /\ listed[i] \in BackupRow
BY DEF BackupRows

LEMMA RowsKept ==
    ASSUME NEW asked, NEW after, CallsKept(asked, after), NEW listed \in BackupRows,
           RowsOfCalls(listed, asked)
    PROVE  RowsOfCalls(listed, after)
BY ListedRow, RowKept DEF RowsOfCalls

LEMMA SharedKept ==
    ASSUME NEW asked, NEW after, CallsSound(asked), CallsKept(asked, after),
           NEW row \in BackupRow, Shared(row, asked)
    PROVE  Shared(row, after)
<1>1. PICK c \in BackupCalls : c # row.id /\ asked[c].name = row.name
  BY DEF Shared
<1>2. row.name \in LocalNames
  BY DEF BackupRow
<1>3. asked[c].step # "idle"
  BY <1>1, <1>2, NameOfNone DEF CallsSound
<1> QED BY <1>1, <1>3 DEF Shared, CallsKept

LEMMA RollbackKept ==
    ASSUME NEW asked, NEW after, CallsKept(asked, after), NEW r, RollbackSound(r, asked)
    PROVE  RollbackSound(r, after)
<1>1. r.was \in BackupRows
  BY DEF RollbackSound, RollbackRow
<1> QED BY <1>1, RowsKept DEF RollbackSound

LEMMA RestoredKept ==
    ASSUME NEW asked, NEW after, CallsSound(asked), CallsKept(asked, after), NEW r,
           RollbackSound(r, asked), NEW contents, RestoredRight(r, contents, asked)
    PROVE  RestoredRight(r, contents, after)
<1> SUFFICES ASSUME NEW t \in r.restored \ (r.lost \cup r.edited)
             PROVE  \E k \in Nat : OldestTried(k, t, r) /\ PutBack(t, r.was[k], contents, after)
  BY DEF RestoredRight
<1>1. PICK k \in Nat : OldestTried(k, t, r) /\ PutBack(t, r.was[k], contents, asked)
  BY DEF RestoredRight
<1>2. r.was \in BackupRows /\ k \in DOMAIN r.was
  BY <1>1 DEF RollbackSound, RollbackRow, OldestTried
<1>3. r.was[k] \in BackupRow
  BY <1>2, ListedRow
<1> QED BY <1>1, <1>3, SharedKept DEF PutBack

LEMMA BackupStart == BackupInit => BackupInv
<1> SUFFICES ASSUME BackupInit PROVE BackupInv
  OBVIOUS
<1>1. TargetsSound(remote, rollback.lost)
  BY DEF BackupInit, TargetsSound, BackupTargets, First, Directory, Gone
<1>2. CallsSound(calls)
  BY DEF BackupInit, CallsSound, NoCall, CallRow, CallSteps, BackupTargets, Directory,
         ArtifactTypes, Gone
<1>3. FilesSound(files, calls)
  BY DEF BackupInit, FilesSound
<1>4. RowsSound(rows, calls)
  BY DEF BackupInit, RowsSound, BackupRows, RowsOfCalls
<1>5. RollbackSound(rollback, calls) /\ RestoredRight(rollback, remote, calls)
  <2>1. rollback \in RollbackRow
    <3>1. <<>> \in BackupRows
      BY DEF BackupRows
    <3> QED BY <3>1 DEF BackupInit, NoRollback, RollbackRow
  <2> QED BY <2>1 DEF BackupInit, NoRollback, RollbackSound, RestoredRight, RowsOfCalls
<1>6. world \in WorldRow
  BY BackupAssumption DEF BackupInit, WorldRow
<1> QED BY <1>1, <1>2, <1>3, <1>4, <1>5, <1>6 DEF BackupInv

LEMMA EditSafe ==
    ASSUME BackupInv, NEW t \in BackupTargets, EditRemote(t)
    PROVE  BackupInv'
<1>1. remote \in [BackupTargets -> Nat] /\ rollback \in RollbackRow /\ world \in WorldRow
  BY DEF BackupInv, TargetsSound, RollbackSound
<1>2. rollback' \in RollbackRow /\ rollback'.edited = rollback.edited \cup {t}
      /\ rollback'.was = rollback.was /\ rollback'.chosen = rollback.chosen
      /\ rollback'.todo = rollback.todo /\ rollback'.restored = rollback.restored
      /\ rollback'.lost = rollback.lost /\ rollback'.step = rollback.step
  BY <1>1 DEF EditRemote, RollbackRow
<1>3. remote' \in [BackupTargets -> Nat] /\ remote'[t] = remote[t] + 1
      /\ \A u \in BackupTargets \ {t} : remote'[u] = remote[u]
  BY <1>1 DEF EditRemote
<1>4. world' \in WorldRow
  BY <1>1, BackupAssumption DEF EditRemote, WorldRow
<1>5. TargetsSound(remote', rollback'.lost)
  <2>1. remote'[t] # Gone
    BY <1>1, <1>3 DEF Gone
  <2> QED BY <1>2, <1>3, <2>1 DEF BackupInv, TargetsSound
<1>6. RollbackSound(rollback', calls)
  BY <1>2 DEF BackupInv, RollbackSound
<1>7. RestoredRight(rollback', remote', calls)
  <2> SUFFICES ASSUME NEW u \in rollback'.restored \ (rollback'.lost \cup rollback'.edited)
               PROVE  \E k \in Nat : OldestTried(k, u, rollback')
                                     /\ PutBack(u, rollback'.was[k], remote', calls)
    BY DEF RestoredRight
  <2>1. u \in rollback.restored \ (rollback.lost \cup rollback.edited) /\ u # t
    BY <1>2
  <2>2. u \in BackupTargets
    BY <2>1, <1>1 DEF RollbackRow
  <2>3. PICK k \in Nat : OldestTried(k, u, rollback) /\ PutBack(u, rollback.was[k], remote, calls)
    BY <2>1 DEF BackupInv, RestoredRight
  <2>4. OldestTried(k, u, rollback')
    BY <1>2, <2>3 DEF OldestTried
  <2>5. PutBack(u, rollback'.was[k], remote', calls)
    BY <1>2, <1>3, <2>1, <2>2, <2>3 DEF PutBack
  <2> QED BY <2>4, <2>5
<1> QED BY <1>4, <1>5, <1>6, <1>7 DEF BackupInv, EditRemote

LEMMA TickBackupSafe ==
    ASSUME BackupInv, TickBackup
    PROVE  BackupInv'
<1>1. world' \in WorldRow
  BY BackupAssumption DEF BackupInv, WorldRow, TickBackup
<1> QED BY <1>1 DEF BackupInv, TickBackup

(* What a step of one call does to the invariant, when nothing else moves.  *)
LEMMA CallMoved ==
    ASSUME BackupInv, NEW c \in BackupCalls, calls[c].step # "done",
           calls' \in [BackupCalls -> CallRow], \A d \in BackupCalls \ {c} : calls'[d] = calls[d],
           calls'[c].name \in LocalNames, calls'[c].step # "idle",
           calls[c].step # "idle" => calls'[c].name = calls[c].name,
           remote' = remote, rollback' = rollback
    PROVE  /\ CallsSound(calls') /\ CallsKept(calls, calls')
           /\ TargetsSound(remote', rollback'.lost) /\ RollbackSound(rollback', calls')
           /\ RestoredRight(rollback', remote', calls')
<1>1. CallsSound(calls)
  BY DEF BackupInv
<1>2. CallsSound(calls')
  BY <1>1 DEF CallsSound
<1>3. CallsKept(calls, calls')
  BY DEF CallsKept
<1>4. RollbackSound(rollback', calls')
  BY <1>3, RollbackKept DEF BackupInv
<1>5. RestoredRight(rollback', remote', calls')
  BY <1>1, <1>3, RestoredKept DEF BackupInv
<1> QED BY <1>2, <1>3, <1>4, <1>5 DEF BackupInv

LEMMA BeginBackupSafe ==
    ASSUME BackupInv, NEW c \in BackupCalls, NEW t \in BackupTargets, NEW type \in ArtifactTypes,
           BeginBackup(c, t, type)
    PROVE  BackupInv'
<1> DEFINE call == [NoCall EXCEPT !.step = "fetching", !.target = t, !.type = type,
                                  !.name = BackupFileName(t, type), !.size = Size(remote[t])]
<1>1. calls[c].step = "idle" /\ calls' = [calls EXCEPT ![c] = call]
      /\ UNCHANGED <<remote, files, rows, rollback, world>>
  BY DEF BeginBackup
<1>2. call.name \in LocalNames
  <2>1. world.now \in Nat
    BY BackupAssumption DEF BackupInv, WorldRow
  <2>2. BaseName(t) \in {"x", "index.php"}
    BY DEF BaseName
  <2> QED BY <2>1, <2>2 DEF NoCall, BackupFileName, LocalNames
<1>3. call \in CallRow /\ call.step = "fetching"
  <2>1. Size(remote[t]) \in Nat
    BY SizeTyped DEF BackupInv, TargetsSound
  <2>2. Gone \in Nat
    BY DEF Gone
  <2> HIDE DEF Size
  <2> QED BY <1>2, <2>1, <2>2 DEF NoCall, CallRow, CallSteps
<1> HIDE DEF call
<1>4. /\ CallsSound(calls') /\ CallsKept(calls, calls')
      /\ TargetsSound(remote', rollback'.lost) /\ RollbackSound(rollback', calls')
      /\ RestoredRight(rollback', remote', calls')
  <2>1. calls' \in [BackupCalls -> CallRow] /\ calls'[c] = call
        /\ \A d \in BackupCalls \ {c} : calls'[d] = calls[d]
    BY <1>1, <1>3 DEF BackupInv, CallsSound
  <2> QED BY <1>1, <1>2, <1>3, <2>1, CallMoved
<1>5. RowsSound(rows', calls')
  BY <1>1, <1>4, RowsKept DEF BackupInv, RowsSound
<1>6. FilesSound(files', calls')
  <2> SUFFICES ASSUME NEW n \in DOMAIN files
               PROVE  \E d \in BackupCalls : FetchedBy(d, n, files, calls')
    BY <1>1 DEF FilesSound, BackupInv
  <2>1. PICK d \in BackupCalls : FetchedBy(d, n, files, calls)
    BY DEF BackupInv, FilesSound
  <2>2. d # c
    BY <1>1, <2>1 DEF FetchedBy
  <2>3. calls'[d] = calls[d]
    BY <1>1, <2>2 DEF BackupInv, CallsSound
  <2> QED BY <2>1, <2>3 DEF FetchedBy
<1> QED BY <1>1, <1>4, <1>5, <1>6 DEF BackupInv


LEMMA FetchBackupSafe ==
    ASSUME BackupInv, NEW c \in BackupCalls, FetchBackup(c)
    PROVE  BackupInv'
<1>1. calls[c].step = "fetching" /\ UNCHANGED <<remote, rows, rollback>>
  BY DEF FetchBackup
<1>2. calls \in [BackupCalls -> CallRow] /\ calls[c].name \in LocalNames /\ world \in WorldRow
      /\ remote \in [BackupTargets -> Nat] /\ calls[c].target \in BackupTargets
  BY <1>1 DEF BackupInv, CallsSound, TargetsSound, CallRow
<1>3. /\ calls' \in [BackupCalls -> CallRow] /\ calls'[c].step \in {"storing", "failed"}
      /\ calls'[c].name = calls[c].name /\ \A d \in BackupCalls \ {c} : calls'[d] = calls[d]
  <2>1. CASE calls' = [calls EXCEPT ![c].step = "failed"]
    BY <1>2, <2>1 DEF CallRow, CallSteps
  <2>2. CASE calls' = [calls EXCEPT ![c].step = "storing", ![c].took = remote[calls[c].target]]
    <3>1. remote[calls[c].target] \in Nat
      BY <1>2
    <3> QED BY <1>2, <2>2, <3>1 DEF CallRow, CallSteps
  <2> QED BY <2>1, <2>2 DEF FetchBackup
<1>4. /\ CallsSound(calls') /\ CallsKept(calls, calls')
      /\ TargetsSound(remote', rollback'.lost) /\ RollbackSound(rollback', calls')
      /\ RestoredRight(rollback', remote', calls')
  BY <1>1, <1>2, <1>3, CallMoved
<1>5. RowsSound(rows', calls')
  BY <1>1, <1>4, RowsKept DEF BackupInv, RowsSound
<1>6. FilesSound(files', calls')
  <2>1. \A n \in DOMAIN files : \E d \in BackupCalls \ {c} : FetchedBy(d, n, files, calls')
    <3> TAKE n \in DOMAIN files
    <3>1. PICK d \in BackupCalls : FetchedBy(d, n, files, calls)
      BY DEF BackupInv, FilesSound
    <3>2. d # c
      BY <1>1, <3>1 DEF FetchedBy
    <3> QED BY <1>3, <3>1, <3>2 DEF FetchedBy
  <2>2. CASE files' = files
    BY <2>1, <2>2 DEF BackupInv, FilesSound
  <2>3. CASE files' # files
    <3> DEFINE name == calls[c].name
               content == remote[calls[c].target]
    <3>1. /\ content # Gone
          /\ files' = [n \in DOMAIN files \cup {name} |-> IF n = name THEN content ELSE files[n]]
          /\ calls' = [calls EXCEPT ![c].step = "storing", ![c].took = content]
      BY <2>3 DEF FetchBackup
    <3>2. content \in Nat
      BY <1>2
    <3>3. FetchedBy(c, name, files', calls')
      BY <1>2, <3>1 DEF FetchedBy, CallRow
    <3> HIDE DEF name, content
    <3>4. \A n \in DOMAIN files \ {name} : files'[n] = files[n]
      BY <3>1
    <3>5. DOMAIN files' = DOMAIN files \cup {name} /\ files'[name] = content
      BY <3>1
    <3> SUFFICES ASSUME NEW n \in DOMAIN files'
                 PROVE  /\ files'[n] \in Nat /\ files'[n] # Gone
                        /\ \E d \in BackupCalls : FetchedBy(d, n, files', calls')
      BY DEF FilesSound
    <3>6. CASE n = name
      BY <3>1, <3>2, <3>3, <3>5, <3>6
    <3>7. CASE n # name
      <4>1. n \in DOMAIN files /\ files'[n] = files[n]
        BY <3>4, <3>5, <3>7
      <4>2. PICK d \in BackupCalls : FetchedBy(d, n, files, calls')
        BY <2>1, <4>1
      <4> QED BY <4>1, <4>2 DEF FetchedBy, BackupInv, FilesSound
    <3> QED BY <3>6, <3>7
  <2> QED BY <2>2, <2>3
<1>7. world' \in WorldRow
  BY <1>2 DEF FetchBackup, Faulted, WorldRow
<1> QED BY <1>4, <1>5, <1>6, <1>7 DEF BackupInv

LEMMA StoredRowTyped ==
    ASSUME BackupInv, NEW c \in BackupCalls, calls[c].step = "storing",
           calls[c].name \in DOMAIN files
    PROVE  StoredRow(c) \in BackupRow /\ StoredRow(c).id = c
           /\ StoredRow(c).name = calls[c].name /\ StoredRow(c).took = calls[c].took
<1>1. calls[c] \in CallRow /\ calls[c].name \in LocalNames /\ files[calls[c].name] \in Nat
  BY DEF BackupInv, CallsSound, FilesSound
<1>2. Size(files[calls[c].name]) \in Nat
  BY <1>1, SizeTyped
<1> QED BY <1>1, <1>2 DEF StoredRow, BackupRow, CallRow

LEMMA StoreBackupSafe ==
    ASSUME BackupInv, NEW c \in BackupCalls, StoreBackup(c)
    PROVE  BackupInv'
<1>1. calls[c].step = "storing" /\ UNCHANGED <<remote, files, rollback, world>>
  BY DEF StoreBackup
<1>2. calls \in [BackupCalls -> CallRow] /\ calls[c].name \in LocalNames
  BY <1>1 DEF BackupInv, CallsSound
<1>3. /\ calls' \in [BackupCalls -> CallRow] /\ calls'[c].step \in {"done", "failed"}
      /\ calls'[c].name = calls[c].name /\ calls'[c].took = calls[c].took
      /\ \A d \in BackupCalls \ {c} : calls'[d] = calls[d]
      /\ calls[c].name \in DOMAIN files => calls'[c].step = "done"
  BY <1>2 DEF StoreBackup, CallRow, CallSteps
<1>4. /\ CallsSound(calls') /\ CallsKept(calls, calls')
      /\ TargetsSound(remote', rollback'.lost) /\ RollbackSound(rollback', calls')
      /\ RestoredRight(rollback', remote', calls')
  BY <1>1, <1>2, <1>3, CallMoved
<1>5. FilesSound(files', calls')
  <2> SUFFICES ASSUME NEW n \in DOMAIN files
               PROVE  \E d \in BackupCalls : FetchedBy(d, n, files, calls')
    BY <1>1 DEF FilesSound, BackupInv
  <2>1. PICK d \in BackupCalls : FetchedBy(d, n, files, calls)
    BY DEF BackupInv, FilesSound
  <2>2. CASE d # c
    BY <1>3, <2>1, <2>2 DEF FetchedBy
  <2>3. CASE d = c
    BY <1>3, <2>1, <2>3 DEF FetchedBy
  <2> QED BY <2>2, <2>3
<1>6. RowsSound(rows', calls')
  <2>1. RowsSound(rows, calls')
    BY <1>4, RowsKept DEF BackupInv, RowsSound
  <2>2. CASE calls[c].name \notin DOMAIN files
    BY <2>1, <2>2 DEF StoreBackup
  <2>3. CASE calls[c].name \in DOMAIN files
    <3>1. rows' = Append(rows, StoredRow(c))
      BY <2>3 DEF StoreBackup
    <3>2. StoredRow(c) \in BackupRow /\ StoredRow(c).id = c
          /\ StoredRow(c).name = calls[c].name /\ StoredRow(c).took = calls[c].took
      BY <1>1, <2>3, StoredRowTyped
    <3>3. RowOfCall(StoredRow(c), calls')
      BY <1>3, <2>3, <3>2 DEF RowOfCall
    <3>4. rows \in Seq(BackupRow)
      BY DEF BackupInv, RowsSound, BackupRows
    <3>5. /\ rows' \in Seq(BackupRow) /\ DOMAIN rows' = 1..(Len(rows) + 1)
          /\ rows'[Len(rows) + 1] = StoredRow(c)
          /\ \A i \in DOMAIN rows : rows'[i] = rows[i]
      <4> HIDE DEF StoredRow, BackupRow
      <4> QED BY <3>1, <3>2, <3>4
    <3>6. DOMAIN rows = 1..Len(rows) /\ Len(rows) \in Nat
      BY <3>4
    <3>7. \A i \in DOMAIN rows' : i \in DOMAIN rows \/ i = Len(rows) + 1
      BY <3>5, <3>6
    <3>8. \A i \in DOMAIN rows : rows[i].id # c
      <4> TAKE i \in DOMAIN rows
      <4>1. calls[rows[i].id].step = "done"
        BY DEF BackupInv, RowsSound, RowsOfCalls, RowOfCall
      <4> QED BY <1>1, <4>1
    <3>9. RowsOfCalls(rows', calls')
      BY <2>1, <3>3, <3>5, <3>7 DEF RowsSound, RowsOfCalls
    <3>10. \A i, j \in DOMAIN rows' : rows'[i].id = rows'[j].id => i = j
      BY <2>1, <3>2, <3>5, <3>7, <3>8 DEF RowsSound
    <3> QED BY <3>5, <3>9, <3>10 DEF RowsSound, BackupRows
  <2> QED BY <2>2, <2>3
<1> QED BY <1>1, <1>4, <1>5, <1>6 DEF BackupInv

LEMMA WithoutOne ==
    ASSUME NEW S, NEW s \in Seq(S), NEW i \in DOMAIN s
    PROVE  /\ RemoveAt(s, i) \in Seq(S) /\ Len(RemoveAt(s, i)) = Len(s) - 1
           /\ \A j \in 1..(i - 1) : RemoveAt(s, i)[j] = s[j]
           /\ \A j \in i..(Len(s) - 1) : RemoveAt(s, i)[j] = s[j + 1]
<1>1. i \in 1..Len(s) /\ Len(s) \in Nat
  OBVIOUS
<1> DEFINE before == SubSeq(s, 1, i - 1)
           after == SubSeq(s, i + 1, Len(s))
<1>2. before \in Seq(S) /\ Len(before) = i - 1 /\ \A j \in 1..(i - 1) : before[j] = s[j]
  BY <1>1
<1>3. after \in Seq(S) /\ Len(after) = Len(s) - i /\ \A j \in 1..(Len(s) - i) : after[j] = s[i + j]
  BY <1>1
<1>4. RemoveAt(s, i) = before \o after
  BY DEF RemoveAt
<1> HIDE DEF before, after
<1>5. /\ before \o after \in Seq(S) /\ Len(before \o after) = Len(s) - 1
      /\ \A j \in 1..(i - 1) : (before \o after)[j] = before[j]
      /\ \A j \in 1..(Len(s) - i) : (before \o after)[(i - 1) + j] = after[j]
  <2>1. /\ before \o after \in Seq(S) /\ Len(before \o after) = Len(before) + Len(after)
        /\ \A j \in 1..Len(before) : (before \o after)[j] = before[j]
        /\ \A j \in 1..Len(after) : (before \o after)[Len(before) + j] = after[j]
    <3>1. before \in Seq(S) /\ after \in Seq(S)
      BY <1>2, <1>3
    <3> QED BY ONLY <3>1, ConcatAt
  <2>2. /\ Len(before) = i - 1 /\ Len(after) = Len(s) - i
        /\ (i - 1) + (Len(s) - i) = Len(s) - 1
    BY <1>1, <1>2, <1>3
  <2> QED BY <2>1, <2>2
<1>6. \A j \in 1..(i - 1) : (before \o after)[j] = s[j]
  BY <1>2, <1>5
<1>7. \A j \in i..(Len(s) - 1) : (before \o after)[j] = s[j + 1]
  <2> TAKE j \in i..(Len(s) - 1)
  <2> DEFINE k == j - i + 1
  <2>1. i \in Int /\ j \in Int /\ Len(s) \in Int /\ i <= j /\ j <= Len(s) - 1
    BY <1>1
  <2>2. k \in 1..(Len(s) - i) /\ (i - 1) + k = j /\ i + k = j + 1
    BY <2>1
  <2> HIDE DEF k
  <2> QED BY <1>3, <1>5, <2>2
<1> QED BY <1>4, <1>5, <1>6, <1>7

LEMMA DeleteBackupArtifactSafe ==
    ASSUME BackupInv, NEW i \in DOMAIN rows, DeleteBackupArtifact(i)
    PROVE  BackupInv'
<1>1. /\ files' = [n \in DOMAIN files \ {rows[i].name} |-> files[n]] /\ rows' = RemoveAt(rows, i)
      /\ UNCHANGED <<remote, calls, rollback, world>>
  BY DEF DeleteBackupArtifact
<1>2. FilesSound(files', calls)
  BY <1>1 DEF BackupInv, FilesSound, FetchedBy
<1>3. RowsSound(rows', calls)
  <2>1. rows \in Seq(BackupRow) /\ DOMAIN rows = 1..Len(rows) /\ Len(rows) \in Nat
    BY DEF BackupInv, RowsSound, BackupRows
  <2>2. /\ rows' \in Seq(BackupRow) /\ Len(rows') = Len(rows) - 1
        /\ \A j \in 1..(i - 1) : rows'[j] = rows[j]
        /\ \A j \in i..(Len(rows) - 1) : rows'[j] = rows[j + 1]
    BY <1>1, <2>1, WithoutOne
  <2>3. DOMAIN rows' = 1..(Len(rows) - 1)
    BY <2>1, <2>2
  <2> DEFINE place(j) == IF j < i THEN j ELSE j + 1
  <2>4. \A j \in DOMAIN rows' : place(j) \in DOMAIN rows /\ rows'[j] = rows[place(j)]
    BY <2>1, <2>2, <2>3
  <2>5. \A j, k \in DOMAIN rows' : place(j) = place(k) => j = k
    BY <2>1, <2>3
  <2> HIDE DEF place
  <2>6. RowsOfCalls(rows', calls)
    BY <2>4 DEF BackupInv, RowsSound, RowsOfCalls
  <2>7. \A j, k \in DOMAIN rows' : rows'[j].id = rows'[k].id => j = k
    BY <2>4, <2>5 DEF BackupInv, RowsSound
  <2> QED BY <2>2, <2>6, <2>7 DEF RowsSound, BackupRows
<1> QED BY <1>1, <1>2, <1>3 DEF BackupInv


LEMMA ExecuteRollbackSafe ==
    ASSUME BackupInv, ExecuteRollback
    PROVE  BackupInv'
<1>1. PICK chosen \in SUBSET DOMAIN rows :
         rollback' = [NoRollback EXCEPT !.step = "running", !.was = rows, !.chosen = chosen,
                                        !.todo = chosen]
  BY DEF ExecuteRollback
<1>2. rollback.step = "idle" /\ UNCHANGED <<remote, files, rows, calls, world>>
  BY DEF ExecuteRollback
<1>3. rows \in BackupRows /\ RowsOfCalls(rows, calls) /\ DOMAIN rows \subseteq Nat
  BY DEF BackupInv, RowsSound, BackupRows
<1>4. /\ rollback'.step = "running" /\ rollback'.was = rows /\ rollback'.chosen = chosen
      /\ rollback'.todo = chosen /\ rollback'.restored = {} /\ rollback'.lost = {}
  BY <1>1 DEF NoRollback
<1>5. rollback' \in RollbackRow
  <2>1. chosen \in SUBSET Nat
    BY <1>3
  <2> HIDE DEF BackupRows
  <2> QED BY <1>1, <1>3, <2>1 DEF NoRollback, RollbackRow
<1>6. RollbackSound(rollback', calls)
  BY <1>3, <1>4, <1>5 DEF RollbackSound
<1>7. RestoredRight(rollback', remote, calls)
  BY <1>4 DEF RestoredRight
<1>8. TargetsSound(remote, rollback'.lost)
  BY <1>2, <1>4 DEF BackupInv, TargetsSound, RollbackSound
<1> QED BY <1>2, <1>6, <1>7, <1>8 DEF BackupInv

LEMMA NewestIs ==
    ASSUME NEW S, S \subseteq Nat, S # {}, NEW n \in Nat, \A x \in S : x <= n
    PROVE  NewestOf(S) \in S /\ \A x \in S : x <= NewestOf(S)
<1> DEFINE Bounds == {m \in Nat : \A x \in S : x <= m}
<1>1. Bounds # {} /\ Bounds \subseteq Nat
  OBVIOUS
<1>2. PICK m \in Bounds : \A y \in Bounds : ~(<<y, m>> \in OpToRel(<, Nat))
  BY <1>1, NatLessThanWellFounded, WFMin
<1>3. \A y \in Bounds : ~(y < m)
  BY <1>1, <1>2 DEF OpToRel
<1>4. m \in S
  <2> SUFFICES ASSUME m \notin S PROVE FALSE
    OBVIOUS
  <2>1. m \in Nat /\ \A x \in S : x \in Nat /\ x <= m /\ x # m
    BY <1>2
  <2>2. PICK x \in S : TRUE
    OBVIOUS
  <2>3. m # 0
    BY <2>1, <2>2
  <2>4. m - 1 \in Bounds /\ m - 1 < m
    BY <2>1, <2>3
  <2> QED BY <1>3, <2>4
<1>5. \E x \in S : \A y \in S : y <= x
  BY <1>2, <1>4
<1> QED BY <1>5 DEF NewestOf

LEMMA OldestIs ==
    ASSUME NEW S, S \subseteq Nat, NEW k \in S, \A x \in S : k <= x
    PROVE  OldestOf(S) = k
<1>1. OldestOf(S) \in S /\ \A x \in S : OldestOf(S) <= x
  BY DEF OldestOf
<1>2. k \in Nat /\ OldestOf(S) \in Nat /\ OldestOf(S) <= k /\ k <= OldestOf(S)
  BY <1>1
<1> QED BY <1>2

(* The last of those that are left, which is older than all that were tried. *)
LEMMA NextOne ==
    ASSUME NEW r, NEW asked, RollbackSound(r, asked), r.todo # {}, NEW i, i = NewestOf(r.todo)
    PROVE  /\ i \in r.todo /\ i \in DOMAIN r.was /\ i \in Nat /\ r.was[i] \in BackupRow
           /\ RowOfCall(r.was[i], asked)
           /\ \A m \in r.todo \ {i} : m < i
           /\ \A j \in r.chosen \ r.todo : i < j
<1>1. r.was \in BackupRows /\ r.todo \subseteq DOMAIN r.was
  BY DEF RollbackSound, RollbackRow
<1>2. DOMAIN r.was = 1..Len(r.was) /\ Len(r.was) \in Nat
  BY <1>1 DEF BackupRows
<1>3. i \in r.todo /\ \A x \in r.todo : x <= i
  BY <1>1, <1>2, NewestIs
<1>4. i \in DOMAIN r.was /\ r.was[i] \in BackupRow
  BY <1>1, <1>3, ListedRow
<1>5. RowOfCall(r.was[i], asked)
  BY <1>4 DEF RollbackSound, RowsOfCalls
<1>6. \A m \in r.todo \ {i} : m < i
  BY <1>1, <1>2, <1>3
<1> QED BY <1>2, <1>3, <1>4, <1>5, <1>6 DEF RollbackSound

(* What a rollback is after a step that restored one more, or lost it.      *)
LEMMA OneTried ==
    ASSUME NEW r, NEW asked, RollbackSound(r, asked), r.step = "running", r.todo # {},
           NEW i, i = NewestOf(r.todo), NEW after, after \in {Restored(r, i), Lost(r, i)}
    PROVE  /\ RollbackSound(after, asked) /\ after.todo = r.todo \ {i}
           /\ after.was = r.was /\ after.chosen = r.chosen /\ after.edited = r.edited
           /\ r.lost \subseteq after.lost
           /\ after.restored \subseteq r.restored \cup {r.was[i].target}
<1>1. /\ i \in r.todo /\ i \in DOMAIN r.was /\ i \in Nat /\ r.was[i] \in BackupRow
      /\ \A m \in r.todo \ {i} : m < i
  BY NextOne
<1>2. r \in RollbackRow /\ r.was[i].target \in BackupTargets
  BY <1>1 DEF RollbackSound, BackupRow
<1>3. /\ after \in RollbackRow /\ after.todo = r.todo \ {i} /\ after.step = r.step
      /\ after.was = r.was /\ after.chosen = r.chosen /\ after.edited = r.edited
      /\ r.lost \subseteq after.lost
      /\ after.restored \subseteq r.restored \cup {r.was[i].target}
  <2>1. CASE after = Restored(r, i)
    BY <1>2, <2>1 DEF Restored, RollbackRow
  <2>2. CASE after = Lost(r, i)
    BY <1>2, <2>2 DEF Lost, RollbackRow
  <2> QED BY <2>1, <2>2
<1>4. \A m \in after.todo : \A j \in after.chosen \ after.todo : m < j
  <2> TAKE m \in after.todo
  <2> TAKE j \in after.chosen \ after.todo
  <2>1. m \in r.todo \ {i} /\ (j = i \/ j \in r.chosen \ r.todo)
    BY <1>3
  <2> QED BY <1>1, <2>1 DEF RollbackSound
<1> QED BY <1>3, <1>4 DEF RollbackSound

(* The other targets keep the one that was tried last.                      *)
LEMMA OthersStayRight ==
    ASSUME NEW r, NEW asked, NEW contents, RollbackSound(r, asked), RestoredRight(r, contents, asked),
           r.step = "running", r.todo # {}, NEW i, i = NewestOf(r.todo),
           NEW after, after \in {Restored(r, i), Lost(r, i)}, NEW now,
           \A t \in BackupTargets \ {r.was[i].target} : now[t] = contents[t],
           NEW t \in after.restored \ (after.lost \cup after.edited), t # r.was[i].target
    PROVE  \E k \in Nat : OldestTried(k, t, after) /\ PutBack(t, after.was[k], now, asked)
<1>1. /\ RollbackSound(after, asked) /\ after.todo = r.todo \ {i}
      /\ after.was = r.was /\ after.chosen = r.chosen /\ after.edited = r.edited
      /\ r.lost \subseteq after.lost
      /\ after.restored \subseteq r.restored \cup {r.was[i].target}
  BY OneTried
<1>2. t \in r.restored \ (r.lost \cup r.edited) /\ t \in BackupTargets
  <2>1. t \in r.restored
    BY <1>1
  <2> QED BY <1>1, <2>1 DEF RollbackSound, RollbackRow
<1>3. PICK k \in Nat : OldestTried(k, t, r) /\ PutBack(t, r.was[k], contents, asked)
  BY <1>2 DEF RestoredRight
<1>4. OldestTried(k, t, after)
  BY <1>1, <1>3 DEF OldestTried
<1>5. PutBack(t, after.was[k], now, asked)
  BY <1>1, <1>2, <1>3 DEF PutBack
<1> QED BY <1>4, <1>5

LEMMA LostSafe ==
    ASSUME NEW r, NEW asked, NEW contents, RollbackSound(r, asked), RestoredRight(r, contents, asked),
           r.step = "running", r.todo # {}, NEW i, i = NewestOf(r.todo), NEW now,
           \A t \in BackupTargets \ {r.was[i].target} : now[t] = contents[t]
    PROVE  RestoredRight(Lost(r, i), now, asked) /\ r.was[i].target \in Lost(r, i).lost
<1>1. r.was[i].target \in Lost(r, i).lost
  BY DEF Lost, RollbackSound, RollbackRow
<1>2. \A t \in Lost(r, i).restored \ (Lost(r, i).lost \cup Lost(r, i).edited) :
         \E k \in Nat : OldestTried(k, t, Lost(r, i)) /\ PutBack(t, Lost(r, i).was[k], now, asked)
  <2> TAKE t \in Lost(r, i).restored \ (Lost(r, i).lost \cup Lost(r, i).edited)
  <2>1. t # r.was[i].target
    BY <1>1
  <2> DEFINE after == Lost(r, i)
  <2>2. after \in {Restored(r, i), Lost(r, i)}
    OBVIOUS
  <2> QED BY <2>1, <2>2, OthersStayRight
<1> QED BY <1>1, <1>2 DEF RestoredRight

LEMMA RestoredSafe ==
    ASSUME NEW r, NEW asked, NEW contents, RollbackSound(r, asked), RestoredRight(r, contents, asked),
           r.step = "running", r.todo # {}, NEW i, i = NewestOf(r.todo), NEW now,
           \A t \in BackupTargets \ {r.was[i].target} : now[t] = contents[t],
           PutBack(r.was[i].target, r.was[i], now, asked)
    PROVE  RestoredRight(Restored(r, i), now, asked)
<1> DEFINE after == Restored(r, i)
<1>1. after \in {Restored(r, i), Lost(r, i)}
  OBVIOUS
<1>2. /\ after.todo = r.todo \ {i} /\ after.was = r.was /\ after.chosen = r.chosen
  BY <1>1, OneTried
<1>3. /\ i \in r.todo /\ i \in Nat /\ \A j \in r.chosen \ r.todo : i < j
      /\ r.chosen \subseteq Nat /\ r.todo \subseteq r.chosen
  BY NextOne DEF RollbackSound, RollbackRow
<1>4. OldestTried(i, r.was[i].target, after)
  <2>1. \A j \in after.chosen \ after.todo : j = i \/ j \in r.chosen \ r.todo
    BY <1>2
  <2>2. i \in after.chosen \ after.todo
    BY <1>2, <1>3
  <2>3. \A j \in after.chosen \ after.todo : i <= j
    BY <1>2, <1>3, <2>1
  <2> HIDE DEF after
  <2> QED BY <1>2, <2>2, <2>3 DEF OldestTried
<1>5. \A t \in after.restored \ (after.lost \cup after.edited) :
         \E k \in Nat : OldestTried(k, t, after) /\ PutBack(t, after.was[k], now, asked)
  <2> TAKE t \in after.restored \ (after.lost \cup after.edited)
  <2>1. CASE t = r.was[i].target
    BY <1>2, <1>3, <1>4, <2>1
  <2>2. CASE t # r.was[i].target
    BY <1>1, <2>2, OthersStayRight
  <2> QED BY <2>1, <2>2
<1> QED BY <1>5 DEF RestoredRight


(* A file that is there, and valid for a row, is the copy of its call, or   *)
(* another call has its name.                                               *)
LEMMA ValidCopy ==
    ASSUME FilesSound(files, calls), NEW row \in BackupRow, RowOfCall(row, calls), ValidArtifact(row)
    PROVE  files[row.name] \in Nat \ {Gone} /\ (files[row.name] = row.took \/ Shared(row, calls))
<1>1. row.name \in DOMAIN files
  BY DEF ValidArtifact
<1>2. PICK c \in BackupCalls : FetchedBy(c, row.name, files, calls)
  BY <1>1 DEF FilesSound
<1>3. CASE c = row.id
  BY <1>1, <1>2, <1>3 DEF FilesSound, FetchedBy, RowOfCall
<1>4. CASE c # row.id
  BY <1>1, <1>2, <1>4 DEF FilesSound, FetchedBy, Shared
<1> QED BY <1>3, <1>4

(* What a step of the rollback may do to the targets.                       *)
LEMMA OneLost ==
    ASSUME BackupInv, rollback.step = "running", rollback.todo # {},
           NEW i, i = NewestOf(rollback.todo), NEW t, t = rollback.was[i].target,
           NEW now \in [BackupTargets -> Nat], \A u \in BackupTargets \ {t} : now[u] = remote[u]
    PROVE  /\ RollbackSound(Lost(rollback, i), calls) /\ RestoredRight(Lost(rollback, i), now, calls)
           /\ TargetsSound(now, Lost(rollback, i).lost)
<1>1. RollbackSound(rollback, calls) /\ RestoredRight(rollback, remote, calls)
      /\ remote \in [BackupTargets -> Nat]
  BY DEF BackupInv, TargetsSound
<1>3. /\ RestoredRight(Lost(rollback, i), now, calls) /\ t \in Lost(rollback, i).lost
  BY <1>1, LostSafe
<1>4. /\ RollbackSound(Lost(rollback, i), calls) /\ rollback.lost \subseteq Lost(rollback, i).lost
  <2>1. Lost(rollback, i) \in {Restored(rollback, i), Lost(rollback, i)}
    OBVIOUS
  <2> HIDE DEF Lost
  <2> QED BY <1>1, <2>1, OneTried
<1>5. TargetsSound(now, Lost(rollback, i).lost)
  BY <1>3, <1>4 DEF BackupInv, TargetsSound
<1> QED BY <1>3, <1>4, <1>5

LEMMA OnePutBack ==
    ASSUME BackupInv, rollback.step = "running", rollback.todo # {},
           NEW i, i = NewestOf(rollback.todo), NEW t, t = rollback.was[i].target,
           NEW now \in [BackupTargets -> Nat], now[t] # Gone,
           \A u \in BackupTargets \ {t} : now[u] = remote[u],
           PutBack(t, rollback.was[i], now, calls)
    PROVE  /\ RollbackSound(Restored(rollback, i), calls)
           /\ RestoredRight(Restored(rollback, i), now, calls)
           /\ TargetsSound(now, Restored(rollback, i).lost)
<1>1. RollbackSound(rollback, calls) /\ RestoredRight(rollback, remote, calls)
  BY DEF BackupInv
<1>2. RestoredRight(Restored(rollback, i), now, calls)
  BY <1>1, RestoredSafe
<1>3. /\ RollbackSound(Restored(rollback, i), calls)
      /\ rollback.lost \subseteq Restored(rollback, i).lost
  <2>1. Restored(rollback, i) \in {Restored(rollback, i), Lost(rollback, i)}
    OBVIOUS
  <2> HIDE DEF Restored
  <2> QED BY <1>1, <2>1, OneTried
<1>4. TargetsSound(now, Restored(rollback, i).lost)
  BY <1>3 DEF BackupInv, TargetsSound
<1> QED BY <1>2, <1>3, <1>4

(* What is put back over what the removal left counts as edited.            *)
LEMMA OneBlended ==
    ASSUME BackupInv, rollback.step = "running", rollback.todo # {},
           NEW i, i = NewestOf(rollback.todo), NEW t, t = rollback.was[i].target,
           NEW now \in [BackupTargets -> Nat], now[t] # Gone,
           \A u \in BackupTargets \ {t} : now[u] = remote[u]
    PROVE  /\ RollbackSound(Blended(rollback, i), calls)
           /\ RestoredRight(Blended(rollback, i), now, calls)
           /\ TargetsSound(now, Blended(rollback, i).lost)
<1> DEFINE one == Restored(rollback, i)
           two == Blended(rollback, i)
<1>1. RollbackSound(rollback, calls) /\ RestoredRight(rollback, remote, calls)
  BY DEF BackupInv
<1>2. one \in {Restored(rollback, i), Lost(rollback, i)}
  OBVIOUS
<1>3. RollbackSound(one, calls) /\ rollback.lost \subseteq one.lost
  <2> HIDE DEF one
  <2> QED BY <1>1, <1>2, OneTried
<1>4. t \in BackupTargets
  <2>1. rollback.was[i] \in BackupRow
    BY <1>1, NextOne
  <2> QED BY <2>1 DEF BackupRow
<1>5. one \in RollbackRow
  BY <1>3 DEF RollbackSound
<1>6. two = [one EXCEPT !.edited = @ \cup {t}]
  BY DEF Blended
<1>7. /\ two \in RollbackRow /\ two.step = one.step /\ two.was = one.was /\ two.chosen = one.chosen
      /\ two.todo = one.todo /\ two.restored = one.restored /\ two.lost = one.lost
      /\ two.edited = one.edited \cup {t}
  <2> HIDE DEF one, two
  <2> QED BY <1>4, <1>5, <1>6 DEF RollbackRow
<1> HIDE DEF two
<1>8. RollbackSound(two, calls)
  <2> HIDE DEF one
  <2> QED BY <1>3, <1>7 DEF RollbackSound
<1>9. RestoredRight(two, now, calls)
  <2>1. SUFFICES ASSUME NEW u \in two.restored \ (two.lost \cup two.edited)
                 PROVE  \E k \in Nat : OldestTried(k, u, two) /\ PutBack(u, two.was[k], now, calls)
    BY DEF RestoredRight
  <2>2. u # t /\ u \in one.restored \ (one.lost \cup one.edited)
    BY <1>7
  <2> HIDE DEF one
  <2>3. PICK k \in Nat : OldestTried(k, u, one) /\ PutBack(u, one.was[k], now, calls)
    BY <1>1, <1>2, <2>2, OthersStayRight
  <2>4. OldestTried(k, u, two)
    BY <1>7, <2>3 DEF OldestTried
  <2> QED BY <1>7, <2>3, <2>4
<1>10. TargetsSound(now, two.lost)
  <2> HIDE DEF one
  <2> QED BY <1>3, <1>7 DEF BackupInv, TargetsSound
<1> QED BY <1>8, <1>9, <1>10 DEF two

LEMMA RollbackSingleArtifactSafe ==
    ASSUME BackupInv, RollbackSingleArtifact
    PROVE  BackupInv'
<1> DEFINE i == NewestOf(rollback.todo)
           row == rollback.was[i]
           t == row.target
<1>1. rollback.step = "running" /\ rollback.todo # {} /\ UNCHANGED <<files, rows, calls>>
  BY DEF RollbackSingleArtifact
<1>2. remote \in [BackupTargets -> Nat] /\ world \in WorldRow /\ RollbackSound(rollback, calls)
  BY DEF BackupInv, TargetsSound
<1>3. row \in BackupRow /\ RowOfCall(row, calls) /\ t \in BackupTargets
  <2>1. row \in BackupRow /\ RowOfCall(row, calls)
    BY <1>1, <1>2, NextOne
  <2> QED BY <2>1 DEF BackupRow
<1> DEFINE moved == [remote EXCEPT ![t] = IF t = Directory THEN (IF @ = Gone THEN Garbage ELSE @)
                                         ELSE files[row.name]]
           removed == [remote EXCEPT ![t] = Gone]
           unpacked == IF t = Directory THEN [remote EXCEPT ![t] = files[row.name]] ELSE removed
<1>4. ASSUME ValidArtifact(row)
      PROVE  /\ moved \in [BackupTargets -> Nat] /\ moved[t] # Gone
             /\ t # Directory => moved[t] = files[row.name]
             /\ \A u \in BackupTargets \ {t} : moved[u] = remote[u]
             /\ unpacked \in [BackupTargets -> Nat]
             /\ t = Directory => unpacked[t] = files[row.name] /\ unpacked[t] # Gone
             /\ \A u \in BackupTargets \ {t} : unpacked[u] = remote[u]
             /\ files[row.name] = row.took \/ Shared(row, calls)
  <2>1. files[row.name] \in Nat \ {Gone} /\ (files[row.name] = row.took \/ Shared(row, calls))
    BY <1>3, <1>4, ValidCopy DEF BackupInv
  <2>2. PICK v \in Nat \ {Gone} :
           v = IF t = Directory THEN (IF remote[t] = Gone THEN Garbage ELSE remote[t])
               ELSE files[row.name]
    BY <1>2, <1>3, <2>1 DEF Gone, Garbage
  <2>3. Gone \in Nat
    BY DEF Gone
  <2> HIDE DEF row, t
  <2>4. moved = [remote EXCEPT ![t] = v]
    BY <2>2
  <2> QED BY <1>2, <1>3, <2>1, <2>2, <2>3, <2>4
<1>5. removed \in [BackupTargets -> Nat] /\ \A u \in BackupTargets \ {t} : removed[u] = remote[u]
  BY <1>2, <1>3 DEF Gone
<1>6. CASE /\ rollback' = Lost(rollback, i) /\ (world' = world \/ Faulted)
           /\ remote' \in [BackupTargets -> Nat]
           /\ \A u \in BackupTargets \ {t} : remote'[u] = remote[u]
  <2>1. /\ RollbackSound(Lost(rollback, i), calls)
        /\ RestoredRight(Lost(rollback, i), remote', calls)
        /\ TargetsSound(remote', Lost(rollback, i).lost)
    BY <1>1, <1>6, OneLost
  <2>2. world' \in WorldRow
    BY <1>2, <1>6 DEF Faulted, WorldRow
  <2> HIDE DEF i
  <2> QED BY <1>1, <1>6, <2>1, <2>2 DEF BackupInv
<1>7. CASE /\ rollback' = Restored(rollback, i) /\ world' = world /\ ValidArtifact(row)
           /\ \/ remote' = moved /\ row.type # "DIRECTORY_BACKUP"
              \/ remote' = unpacked /\ t = Directory
  <2>1. /\ remote' \in [BackupTargets -> Nat] /\ remote'[t] # Gone
        /\ \A u \in BackupTargets \ {t} : remote'[u] = remote[u]
        /\ remote'[t] = files[row.name] \/ (t = Directory /\ row.type # "DIRECTORY_BACKUP")
    <3> HIDE DEF moved, unpacked
    <3> QED BY <1>4, <1>7
  <2>2. PutBack(t, row, remote', calls)
    <3> HIDE DEF row, t, moved, unpacked
    <3> QED BY <1>4, <1>7, <2>1 DEF PutBack
  <2>3. /\ RollbackSound(Restored(rollback, i), calls)
        /\ RestoredRight(Restored(rollback, i), remote', calls)
        /\ TargetsSound(remote', Restored(rollback, i).lost)
    BY <1>1, <2>1, <2>2, OnePutBack
  <2> HIDE DEF i
  <2> QED BY <1>1, <1>7, <2>3 DEF BackupInv
<1>8. CASE ~ValidArtifact(row)
  BY <1>2, <1>6, <1>8 DEF RollbackSingleArtifact
<1> DEFINE left == [remote EXCEPT ![t] = Garbage]
<1>9. CASE ValidArtifact(row) /\ row.type = "DIRECTORY_BACKUP"
  <2>1. RollbackDirectoryArtifact(i, row)
    BY <1>9 DEF RollbackSingleArtifact
  <2>2. \/ /\ rollback' = Restored(rollback, i) /\ world' = world /\ t = Directory
           /\ remote' = unpacked
        \/ /\ rollback' = Blended(rollback, i) /\ Faulted /\ remote' = left
        \/ /\ rollback' = Lost(rollback, i) /\ (world' = world \/ Faulted)
           /\ remote' \in {remote, removed, unpacked}
    <3> HIDE DEF i, row
    <3> QED BY <2>1 DEF RollbackDirectoryArtifact
  <2>3. CASE rollback' = Blended(rollback, i) /\ Faulted /\ remote' = left
    <3>1. /\ remote' \in [BackupTargets -> Nat] /\ remote'[t] # Gone
          /\ \A u \in BackupTargets \ {t} : remote'[u] = remote[u]
      <4> HIDE DEF t
      <4> QED BY <1>2, <1>3, <2>3 DEF Garbage, Gone
    <3>2. /\ RollbackSound(Blended(rollback, i), calls)
          /\ RestoredRight(Blended(rollback, i), remote', calls)
          /\ TargetsSound(remote', Blended(rollback, i).lost)
      BY <1>1, <3>1, OneBlended
    <3>3. world' \in WorldRow
      BY <1>2, <2>3 DEF Faulted, WorldRow
    <3> HIDE DEF i, left
    <3> QED BY <1>1, <2>3, <3>2, <3>3 DEF BackupInv
  <2> HIDE DEF i, row, t, removed, unpacked, moved, left
  <2> QED BY <1>2, <1>4, <1>5, <1>6, <1>7, <1>9, <2>2, <2>3
<1>10. CASE ValidArtifact(row) /\ row.type # "DIRECTORY_BACKUP"
  <2>1. RollbackFileArtifact(i, row)
    BY <1>10 DEF RollbackSingleArtifact
  <2>2. \/ rollback' = Restored(rollback, i) /\ world' = world /\ remote' = moved
        \/ /\ rollback' = Lost(rollback, i) /\ (world' = world \/ Faulted)
           /\ remote' \in {remote, moved}
    <3> HIDE DEF i, row
    <3> QED BY <2>1 DEF RollbackFileArtifact
  <2> HIDE DEF i, row, t, removed, unpacked, moved
  <2> QED BY <1>2, <1>4, <1>6, <1>7, <1>10, <2>2
<1> QED BY <1>8, <1>9, <1>10

LEMMA ReportRollbackSafe ==
    ASSUME BackupInv, ReportRollback
    PROVE  BackupInv'
<1>1. rollback \in RollbackRow
  BY DEF BackupInv, RollbackSound
<1>2. /\ rollback' \in RollbackRow /\ rollback'.step = "reported" /\ rollback'.was = rollback.was
      /\ rollback'.chosen = rollback.chosen /\ rollback'.todo = rollback.todo
      /\ rollback'.restored = rollback.restored /\ rollback'.lost = rollback.lost
      /\ rollback'.edited = rollback.edited
  BY <1>1 DEF ReportRollback, RollbackRow
<1>3. rollback.todo = {} /\ UNCHANGED <<remote, files, rows, calls, world>>
  BY DEF ReportRollback
<1>4. RollbackSound(rollback', calls)
  BY <1>2, <1>3 DEF BackupInv, RollbackSound
<1>5. RestoredRight(rollback', remote, calls)
  BY <1>2 DEF BackupInv, RestoredRight, OldestTried
<1> QED BY <1>2, <1>3, <1>4, <1>5 DEF BackupInv

LEMMA BackupStep == BackupInv /\ (BackupNext \/ UNCHANGED backupVars) => BackupInv'
<1> SUFFICES ASSUME BackupInv, BackupNext \/ UNCHANGED backupVars PROVE BackupInv'
  OBVIOUS
<1>1. CASE UNCHANGED backupVars
  BY <1>1 DEF backupVars, BackupInv
<1>2. CASE BackupNext
  BY <1>2, EditSafe, TickBackupSafe, BeginBackupSafe, FetchBackupSafe, StoreBackupSafe,
     DeleteBackupArtifactSafe, ExecuteRollbackSafe, RollbackSingleArtifactSafe, ReportRollbackSafe
     DEF BackupNext
<1> QED BY <1>1, <1>2

(* As many rows as calls at most: each has one of its own.                  *)
LEMMA RowsCounted ==
    ASSUME NEW listed, NEW asked, RowsSound(listed, asked)
    PROVE  Len(listed) <= Cardinality(BackupCalls)
<1>1. Len(listed) \in Nat /\ DOMAIN listed = 1..Len(listed)
      /\ \A i \in 1..Len(listed) : listed[i].id \in BackupCalls
  <2>1. listed \in BackupRows
    BY DEF RowsSound
  <2>2. \A i \in DOMAIN listed : listed[i] \in BackupRow
    BY <2>1, ListedRow
  <2>3. \A i \in DOMAIN listed : listed[i].id \in BackupCalls
    BY <2>2 DEF BackupRow
  <2>4. Len(listed) \in Nat /\ DOMAIN listed = 1..Len(listed)
    BY <2>1 DEF BackupRows
  <2> QED BY <2>3, <2>4
<1> DEFINE f == [i \in 1..Len(listed) |-> listed[i].id]
<1>2. f \in Injection(1..Len(listed), BackupCalls)
  BY <1>1 DEF Injection, IsInjective, RowsSound
<1>3. Cardinality(1..Len(listed)) <= Cardinality(BackupCalls)
  BY <1>2, FS_Injection, BackupAssumption
<1>4. Cardinality(1..Len(listed)) = Len(listed)
  BY <1>1, FS_Interval
<1> QED BY <1>3, <1>4

LEMMA ReportIsTrue ==
    ASSUME BackupInv, rollback.step = "reported",
           NEW t \in rollback.restored \ (rollback.lost \cup rollback.edited)
    PROVE  PutBack(t, FirstBackup(t), remote, calls)
<1>1. PICK k \in Nat : OldestTried(k, t, rollback) /\ PutBack(t, rollback.was[k], remote, calls)
  BY DEF BackupInv, RestoredRight
<1>2. rollback.todo = {} /\ rollback.chosen \subseteq Nat
  BY DEF BackupInv, RollbackSound, RollbackRow
<1> DEFINE S == {j \in rollback.chosen : rollback.was[j].target = t}
<1>3. S \subseteq Nat /\ k \in S /\ \A x \in S : k <= x
  BY <1>1, <1>2 DEF OldestTried
<1> HIDE DEF S
<1>4. OldestOf(S) = k
  BY <1>3, OldestIs
<1> QED BY <1>1, <1>4 DEF FirstBackup, S

LEMMA BackupMeans == BackupInv => RollbackReportTrue /\ BackupType
<1> SUFFICES ASSUME BackupInv PROVE RollbackReportTrue /\ BackupType
  OBVIOUS
<1>1. RollbackReportTrue
  <2> SUFFICES ASSUME rollback.step = "reported"
               PROVE  /\ \A t \in rollback.restored \ (rollback.lost \cup rollback.edited) :
                            LET row == FirstBackup(t)
                            IN  \/ remote[t] = row.took
                                \/ t = Directory /\ row.type # "DIRECTORY_BACKUP"
                                \/ SharesName(row)
                      /\ \A t \in BackupTargets : remote[t] = Gone => t \in rollback.lost
    BY DEF RollbackReportTrue
  <2>1. \A t \in BackupTargets : remote[t] = Gone => t \in rollback.lost
    BY DEF BackupInv, TargetsSound
  <2> QED BY <2>1, ReportIsTrue DEF PutBack, Shared, SharesName
<1>2. DOMAIN remote = BackupTargets
  BY DEF BackupInv, TargetsSound
<1>3. \A c \in BackupCalls : calls[c].step \in {"idle", "fetching", "storing", "done", "failed"}
  BY DEF BackupInv, CallsSound, CallRow, CallSteps
<1>4. Len(rows) <= Cardinality(BackupCalls)
  BY RowsCounted DEF BackupInv
<1>5. /\ rollback.step \in {"idle", "running", "reported"}
      /\ rollback.restored \cup rollback.lost \subseteq BackupTargets
  BY DEF BackupInv, RollbackSound, RollbackRow
<1>6. world.now \in 0..MaxTicks /\ world.edits \in 0..MaxBackupEdits
  BY DEF BackupInv, WorldRow
<1> QED BY <1>1, <1>2, <1>3, <1>4, <1>5, <1>6 DEF BackupType

-----------------------------------------------------------------------------
(***************************************************************************)
(* The hosts, the verification and the backups in MC_Healing, where each is *)
(* explored with the others at rest.                                       *)
(***************************************************************************)
LEMMA HealingHostsStart == HealingInit => HostInv
BY HostsStart DEF HealingInit

LEMMA HealingHostsStep == HostInv /\ [HealingNext]_healingVars => HostInv'
<1> SUFFICES ASSUME HostInv, [HealingNext]_healingVars
             PROVE  HostsNext \/ UNCHANGED discoveryVars
  BY HostsStep
<1>1. CASE HealingNext
  BY <1>1 DEF HealingNext
<1>2. CASE UNCHANGED healingVars
  BY <1>2 DEF healingVars
<1> QED
  BY <1>1, <1>2

(* The credentials of a server fit its type and no two sites have one       *)
(* domain, but for one written alone and two requests that looked for one   *)
(* domain together; for any number of servers, sites and requests.          *)
THEOREM InventoryStaysKept == HealingSpec => []InventoryKept
BY HealingHostsStart, HealingHostsStep, HostsMean, PTL DEF HealingSpec

(* No discovery, whatever runs on the servers, tells anything: the filter   *)
(* refuses a command of every detector before it has an answer.             *)
THEOREM DiscoveriesTellNothing == HealingSpec => []DiscoveryTellsNothing
BY HealingHostsStart, HealingHostsStep, HostsMean, PTL DEF HealingSpec

(* The rows and requests of the hosts are always in one of their steps, and *)
(* the row of a site refers to a server that is there.                      *)
THEOREM HostTypesHold == HealingSpec => []DiscoveryType
BY HealingHostsStart, HealingHostsStep, HostsMean, PTL DEF HealingSpec

LEMMA HealingVerificationStart == HealingInit => VerificationSound(verification)
<1>1. VerificationInit => VerificationSound(verification)
  BY VerificationStart DEF VerificationInit
<1>2. VerificationSound(NotVerifying)
  <2>1. FinePage \in Pages
    BY DEF Pages
  <2> QED
    BY <2>1, VerificationStart DEF NotVerifying
<1> QED
  BY <1>1, <1>2 DEF HealingInit

LEMMA HealingVerificationStep ==
    VerificationSound(verification) /\ [HealingNext]_healingVars => VerificationSound(verification)'
<1> SUFFICES ASSUME VerificationSound(verification), [HealingNext]_healingVars
             PROVE  VerificationNext \/ UNCHANGED verification
  BY VerificationStep
<1>1. CASE HealingNext
  BY <1>1 DEF HealingNext
<1>2. CASE UNCHANGED healingVars
  BY <1>2 DEF healingVars
<1> QED
  BY <1>1, <1>2

LEMMA HealingVerificationMeans ==
    VerificationSound(verification) => VerificationType /\ VerdictHonest /\ VerdictStored
BY VerificationMeans

(* A verdict of health over all the checks is about a site that is up and   *)
(* shows no error when it did not change in between.                        *)
THEOREM VerdictsAreHonest == HealingSpec => []VerdictHonest
BY HealingVerificationStart, HealingVerificationStep, HealingVerificationMeans, PTL DEF HealingSpec

(* What the caller is told is what the last row for the whole says, for any *)
(* number of writes that fail.                                              *)
THEOREM VerdictsAreStored == HealingSpec => []VerdictStored
BY HealingVerificationStart, HealingVerificationStep, HealingVerificationMeans, PTL DEF HealingSpec

(* A verification is always in one of its steps; no check is both passed and *)
(* failed, and nothing else than the ten checks is.                         *)
THEOREM VerificationTypeHolds == HealingSpec => []VerificationType
BY HealingVerificationStart, HealingVerificationStep, HealingVerificationMeans, PTL DEF HealingSpec

LEMMA HealingBackupStart == HealingInit => BackupInv
BY BackupStart DEF HealingInit

LEMMA HealingBackupStep == BackupInv /\ [HealingNext]_healingVars => BackupInv'
<1> SUFFICES ASSUME BackupInv, [HealingNext]_healingVars
             PROVE  BackupNext \/ UNCHANGED backupVars
  BY BackupStep
<1>1. CASE HealingNext
  BY <1>1 DEF HealingNext
<1>2. CASE UNCHANGED healingVars
  BY <1>2 DEF healingVars
<1> QED
  BY <1>1, <1>2

(* What a rollback reports as restored, and not as failed, is what it was   *)
(* when its oldest chosen backup was fetched, and what it removed for good  *)
(* it reports as failed: for any number of calls, edits, milliseconds and   *)
(* faults, and any choice of artifacts.                                     *)
THEOREM RollbackReportsTrue == HealingSpec => []RollbackReportTrue
BY HealingBackupStart, HealingBackupStep, BackupMeans, PTL DEF HealingSpec

(* The calls and the rollback are always in one of their steps, and no call *)
(* leaves more than one row.                                                *)
THEOREM BackupTypesHold == HealingSpec => []BackupType
BY HealingBackupStart, HealingBackupStep, BackupMeans, PTL DEF HealingSpec

LEMMA HealingFixesStart == HealingInit => FixSafe
<1>1. FixSound(AtRest)
  <2>1. PICK s : s = NewRun(Healthy, {}, 1)
    OBVIOUS
  <2>2. Healthy \in Sites /\ 1 \in 1..3
    BY DEF Sites
  <2>3. FixSound(s)
    BY <2>1, <2>2, NewRunSound
  <2>4. s.phase = "choosing" /\ s.verdict = "none" /\ s.book = "none" /\ s.books = <<>>
    BY <2>1 DEF NewRun
  <2>5. RunShape(s) /\ Plan(s) /\ <<>> \in Seq(Playbooks) /\ "none" \notin Tier3Books
    BY <2>3, <2>4 DEF FixSound, Tier3Books
  <2>6. AtRest = [s EXCEPT !.phase = "over"]
    BY <2>1 DEF AtRest
  <2>7. AtRest = [s EXCEPT !.phase = "over", !.books = <<>>]
    BY <2>4, <2>5, <2>6 DEF RunShape, Fields
  <2> QED
    BY <2>4, <2>5, <2>7, TurnSound
<1>2. FixInit => FixSafe
  BY FixStarts DEF FixSafe
<1> QED
  BY <1>1, <1>2 DEF HealingInit, FixSafe

LEMMA HealingFixesStep == FixSafe /\ [HealingNext]_healingVars => FixSafe'
<1> SUFFICES ASSUME FixSafe, [HealingNext]_healingVars
             PROVE  FixNext \/ UNCHANGED fix
  BY FixStep
<1>1. CASE HealingNext
  BY <1>1 DEF HealingNext
<1>2. CASE UNCHANGED healingVars
  BY <1>2 DEF healingVars
<1> QED
  BY <1>1, <1>2

LEMMA HealingFixesMean == FixSafe => FixType /\ ChangesArePlanned /\ RollbackRestores
BY FixMeans DEF FixSafe

(* What a playbook that has returned left changed on the site a step of its *)
(* plan undoes, but for a target that a failed command left in the dark, a  *)
(* file that was not there, the essential plugin of selectiveReactivation   *)
(* and the theme of rollbackToDefaultTheme; for any number of faults.       *)
THEOREM ChangesStayPlanned == HealingSpec => []ChangesArePlanned
BY HealingFixesStart, HealingFixesStep, HealingFixesMean, PTL DEF HealingSpec

(* A rollback that reports success has put back whatever differed, but what *)
(* two steps of one order are for; for any number of faults.                *)
THEOREM RollbacksRestore == HealingSpec => []RollbackRestores
BY HealingFixesStart, HealingFixesStep, HealingFixesMean, PTL DEF HealingSpec

(* Hosts, playbooks, backups and verification keep their types together.    *)
THEOREM HealingTypeHolds == HealingSpec => []HealingType
<1>1. HealingSpec => []FixType
  BY HealingFixesStart, HealingFixesStep, HealingFixesMean, PTL DEF HealingSpec
<1> QED
  BY <1>1, BackupTypesHold, VerificationTypeHolds, HostTypesHold, PTL DEF HealingType
=============================================================================
