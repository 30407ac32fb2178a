------------------------------- MODULE Updater -------------------------------
(***************************************************************************)
(* One task's updates, round after round, from the IP source to the        *)
(* provider's zone: Updater::Impl::process in detail, which Manager takes  *)
(* as three steps.  Outside are the interfaces, which change, the DNS,     *)
(* which serves the zone, and the provider, which changes the zone as a    *)
(* request says and answers in its own way, or refuses, or is not reached. *)
(***************************************************************************)
EXTENDS IpSources, Drivers

CONSTANTS Tasks,       \* the tasks to consider: driver, keys, type, name, source...
          IfAddrs,     \* the results of getifaddrs to consider
          WebAnswers,  \* the addresses that a web service may answer with in error
          Domain,      \* the domain of the tasks
          CaBundle,    \* what discover_ca_bundle finds, "" for nothing
          MaxTrouble   \* bound: faults, changes and forced updates

\* Only records that hold an address are considered, and ConfigValidator lets
\* no empty name through.
ASSUME TaskAssumption ==
    \A t \in Tasks :
        t.type \in {"A", "AAAA"} /\ t.name # "" /\ t.driver \in Providers \cup {"simple"}

VARIABLES
    task,
    ifaddrs,   \* what getifaddrs returns
    cached,    \* the interfaces in InterfaceUtil's cache; <<>> when expired
    zone,      \* the provider's zone: the address of each record, or "none"
    pc,
    local,     \* local_ip
    request, response,
    result,    \* how the last round ended
    trouble    \* what has gone wrong or changed so far

roundVars   == <<pc, local, request, response, result>>
updaterVars == <<task, ifaddrs, cached, zone, roundVars, trouble>>

\* The scheduler's name of a task, also for the apex, "@".
fqdn(t) == <<t.name, Domain>>

\* Where a provider puts a record with a relative name.
Absolute(name) == IF name \in {"@", ""} THEN <<Domain>> ELSE <<name, Domain>>

Own == <<Absolute(task.name), task.type>>

Records == ({fqdn(t) : t \in Tasks} \cup {Absolute(t.name) : t \in Tasks}) \X {"A", "AAAA"}

UpdaterInit(tasks) ==
    /\ task \in tasks
    /\ ifaddrs \in IfAddrs
    /\ cached = <<>>
    /\ zone = [r \in Records |-> "none"]
    /\ pc = "idle"
    /\ local = NoAddr
    /\ request = Throws
    /\ response = [status |-> 0, from |-> "nobody"]
    /\ result = "none"
    /\ trouble = 0

Trouble == trouble < MaxTrouble /\ trouble' = trouble + 1

RoundEnds(how) == pc' = "idle" /\ result' = how

-----------------------------------------------------------------------------
(* Step 1: the local address *)

\* A round begins; a forced one asks no DNS.
Begin ==
    /\ pc = "idle"
    /\ \/ pc' = "source" /\ UNCHANGED trouble
       \/ pc' = "forced_source" /\ Trouble
    /\ UNCHANGED <<task, ifaddrs, cached, zone, local, request, response, result>>

AtSource == pc \in {"source", "forced_source"}

\* Mutant: unique local addresses are forgotten.
filter_link_local(found) ==
    RestrictValues(found, LAMBDA a : is_link_local(a) => task.allow_local_link)

filter_ipv6_candidates(found) ==
    RestrictValues(found, LAMBDA a : /\ is_link_local(a) => task.allow_local_link
                                     /\ is_ula(a) => task.allow_ula)

\* The first candidate, after the filter for records of type AAAA.
Chosen(found) ==
    LET kept == IF task.type = "AAAA" THEN filter_ipv6_candidates(found) ELSE found
    IN  /\ IF DOMAIN kept = {}
           THEN RoundEnds("skipped") /\ UNCHANGED local
           ELSE /\ \E i \in DOMAIN kept : IsFirst(i, kept) /\ local' = kept[i]
                /\ pc' = IF pc = "source" THEN "lookup" ELSE "generate"
                /\ UNCHANGED result
        /\ UNCHANGED <<task, ifaddrs, zone, request, response>>

Fresh == IF cached = <<>> THEN enumerate_interfaces(ifaddrs) ELSE cached

FromInterface ==
    /\ AtSource
    /\ task.source = "interface"
    /\ HasInterface(Fresh, task.interface)
    /\ Chosen(interface_addresses(Fresh, task.interface, type_to_family(task.type)))
    /\ cached' = Fresh
    /\ UNCHANGED trouble

\* The interface is not there.
NoInterface ==
    /\ AtSource
    /\ task.source = "interface"
    /\ ~HasInterface(Fresh, task.interface)
    /\ RoundEnds("exception")
    /\ cached' = Fresh
    /\ UNCHANGED <<task, ifaddrs, zone, local, request, response, trouble>>

Client == apply_options("https", http_options(type_to_family(task.type), task.interface), CaBundle)

\* What the web service sees of the client, a global address without a scope.
Seen == {[family |-> a.family, class |-> a.class, text |-> a.text, scope |-> 0] :
            a \in Outbound(enumerate_interfaces(ifaddrs), Client)}

\* The web service answers with an address and a line end: the address it has
\* seen or, in error, some other.  Neither the status of the answer nor the
\* family of the address is looked at.
FromHttp ==
    /\ AtSource
    /\ task.source = "http"
    /\ Seen # {}
    /\ \E addr \in Seen \cup WebAnswers :
          LET body == trim([padded |-> TRUE, addr |-> addr])
          IN  /\ IsAddress(body) /\ Chosen(<<body.addr>>)
              /\ IF addr \in Seen THEN UNCHANGED trouble ELSE Trouble
    /\ UNCHANGED cached

\* It cannot be reached, or answers with a page, whatever the status is.
HttpFails ==
    /\ AtSource
    /\ task.source = "http"
    /\ \/ Seen = {} /\ UNCHANGED trouble
       \/ ~IsAddress(trim([padded |-> TRUE, addr |-> NoAddr])) /\ Trouble
    /\ RoundEnds("exception")
    /\ UNCHANGED <<task, ifaddrs, cached, zone, local, request, response>>

-----------------------------------------------------------------------------
(* Step 2: the comparison with the DNS *)

dns_lookup(name) == IF zone[name] = "none" THEN <<>> ELSE <<zone[name]>>

\* The lookup may fail, which counts as no record.
Lookup ==
    /\ pc = "lookup"
    /\ \E records \in {dns_lookup(<<fqdn(task), task.type>>), <<>>} :
          /\ IF records # <<>> /\ records[1] = to_string(local)
             THEN RoundEnds("unchanged")
             ELSE pc' = "generate" /\ UNCHANGED result
          /\ IF records = dns_lookup(<<fqdn(task), task.type>>) THEN UNCHANGED trouble ELSE Trouble
    /\ UNCHANGED <<task, ifaddrs, cached, zone, local, request, response>>

-----------------------------------------------------------------------------
(* Steps 3 and 4: the driver *)

build_update_context ==
    [ip_addr |-> to_string(local), rd_type |-> task.type, domain |-> Domain,
     subdomain |-> task.name, fqdn |-> fqdn(task)]

\* Midnight may pass between the two readings of the clock.
Generate ==
    /\ pc = "generate"
    /\ \E clock \in {<<0, 0>>, <<0, 1>>} :
          /\ request' = generate_request(task.driver, task.keys, build_update_context, clock)
          /\ IF clock = <<0, 0>> THEN UNCHANGED trouble ELSE Trouble
    /\ IF request' = Throws
       THEN RoundEnds("exception")
       ELSE pc' = "exchange" /\ UNCHANGED result
    /\ UNCHANGED <<task, ifaddrs, cached, zone, local, response>>

\* The record a request designates.
Designated(req) ==
    <<CASE req.by = "fqdn" -> req.name
        [] req.by = "id" /\ req.name = "unsent" -> Own[1]
        [] OTHER -> Absolute(req.name),
      IF req.type = "unsent" THEN Own[2] ELSE req.type>>

Document(format, of) == [format |-> format, of |-> of]
Answer(status, body, from) == [status |-> status, body |-> body, from |-> from]
Reply(status, body) == Answer(status, body, "provider")
Empty   == Document("empty", <<>>)
Garbage == Document("garbage", <<>>)

dnspod_status(code) ==
    [member \in {"status", "status.code"} |-> IF member = "status" THEN "o" ELSE code]

\* How each provider says that it has changed the record, and that it has not.
Accepted ==
    [alibaba_cloud |-> Reply(200, Document("json", [RequestId |-> "r", RecordId |-> "i"])),
     cloudflare    |-> Reply(200, Document("json", [success |-> TRUE, result |-> "o"])),
     digital_ocean |-> Reply(200, Document("json", [domain_record |-> "o"])),
     dnspod        |-> Reply(200, Document("json", dnspod_status("1"))),
     duckdns       |-> Reply(200, Document("text", [starts_with |-> "OK"])),
     godaddy       |-> Reply(200, Empty),
     linode        |-> Reply(200, Document("json", [id |-> "i"])),
     namecheap     |-> Reply(200, Document("xml", [ErrCount |-> "0"])),
     porkbun       |-> Reply(200, Document("json", [status |-> "SUCCESS"])),
     route53       |-> Reply(200, Document("xml", "ChangeInfo.Status" :> "PENDING")),
     vultr         |-> Reply(204, Empty),
     simple        |-> Reply(200, Document("text", [starts_with |-> "good"]))]

Refused ==
    [alibaba_cloud |-> Reply(400, Document("json", [Code |-> "c", Message |-> "m", RequestId |-> "r"])),
     cloudflare    |-> Reply(400, Document("json", [success |-> FALSE, errors |-> "l"])),
     digital_ocean |-> Reply(401, Document("json", [id |-> "e", message |-> "m"])),
     dnspod        |-> Reply(200, Document("json", dnspod_status("-1"))),
     duckdns       |-> Reply(200, Document("text", [starts_with |-> "KO"])),
     godaddy       |-> Reply(422, Document("json", [code |-> "c"])),
     linode        |-> Reply(400, Document("json", [errors |-> "l"])),
     namecheap     |-> Reply(200, Document("xml", [ErrCount |-> "1"])),
     porkbun       |-> Reply(400, Document("json", [status |-> "ERROR", message |-> "m"])),
     route53       |-> Reply(403, Document("xml", [Error |-> "e"])),
     vultr         |-> Reply(400, Document("json", [errors |-> "l"])),
     simple        |-> Reply(401, Document("text", [starts_with |-> "badauth"]))]

\* Many a server that the simple driver is used with says no with status 200.
Refusals(driver) ==
    {Refused[driver]} \cup
    {Reply(200, Refused[driver].body) : d \in {driver} \cap {"simple"}}

\* What may stand between the client and the provider, a captive portal or a
\* proxy, answers with a page of its own, and with any status.
GatewayAnswers ==
    {Answer(status, body, "gateway") :
        status \in {200, 204, 502},
        body \in {Garbage, Empty, Document("json", <<>>),
                  Document("text", [starts_with |-> "OK"])}}

\* A provider's JSON answer with a member the driver's structure does not name.
Extended(reply) ==
    IF reply.body.format = "json"
    THEN [reply EXCEPT !.body.of = @ @@ ("new_member" :> "v")]
    ELSE reply

\* No provider takes an address with a scope, or a credential of another day.
Acceptable(req) == req.timestamp = req.scope /\ req.value = local.text

\* The provider changes the record; its answer may have members of its own,
\* or be lost, when exchange returns an error and so execute false.
ExchangeAccepted ==
    /\ pc = "exchange"
    /\ Acceptable(request)
    /\ zone' = [zone EXCEPT ![Designated(request)] = request.value]
    /\ \/ /\ response' = Accepted[task.driver]
          /\ pc' = "check" /\ UNCHANGED <<result, trouble>>
       \/ /\ response' = Extended(Accepted[task.driver])
          /\ pc' = "check" /\ UNCHANGED result /\ Trouble
       \/ RoundEnds("failed") /\ Trouble /\ UNCHANGED response
    /\ UNCHANGED <<task, ifaddrs, cached, local, request>>

\* It refuses, a gateway answers for it, or it is not reached.
ExchangeFails ==
    /\ pc = "exchange"
    /\ \/ /\ response' \in Refusals(task.driver)
          /\ pc' = "check" /\ UNCHANGED result
          /\ IF Acceptable(request) THEN Trouble ELSE UNCHANGED trouble
       \/ /\ response' \in GatewayAnswers
          /\ pc' = "check" /\ UNCHANGED result /\ Trouble
       \/ RoundEnds("failed") /\ Trouble /\ UNCHANGED response
    /\ UNCHANGED <<task, ifaddrs, cached, zone, local, request>>

Check ==
    /\ pc = "check"
    /\ RoundEnds(IF check_response(task.driver, response) THEN "updated" ELSE "failed")
    /\ UNCHANGED <<task, ifaddrs, cached, zone, local, request, response, trouble>>

-----------------------------------------------------------------------------
\* The interfaces change.
Change ==
    /\ Trouble
    /\ ifaddrs' \in IfAddrs \ {ifaddrs}
    /\ UNCHANGED <<task, cached, zone, roundVars>>

\* The cache's five seconds are over.
Expire ==
    /\ cached # <<>>
    /\ cached' = <<>>
    /\ UNCHANGED <<task, ifaddrs, zone, roundVars, trouble>>

process == \/ FromInterface \/ NoInterface \/ FromHttp \/ HttpFails \/ Lookup
           \/ Generate \/ ExchangeAccepted \/ ExchangeFails \/ Check

UpdaterNext == Begin \/ process \/ Change \/ Expire

-----------------------------------------------------------------------------
\* The apex record of Route 53, whose driver names the record by the task's
\* fqdn, is another record than the task's own.
NamesOwn == ~(task.driver = "route53" /\ task.name = "@")

\* The drivers that look for a member of the body by which the provider says
\* that it consents.  To the others an empty document, a text that begins with
\* OK, or the status alone is enough.
ReadConsent == {"cloudflare", "dnspod", "namecheap", "porkbun", "route53"}

\* A provider's driver says that it has updated the record only when the zone
\* holds the address, in the record the task is about.  None of the eleven takes
\* its provider's refusal, or an answer it cannot read, for a success; and those
\* that read the provider's consent are not misled by a gateway's page either,
\* whatever its status is.
SuccessMeansPublished ==
    /\ pc = "idle" /\ result = "updated" /\ NamesOwn
    /\ task.driver \in IF response.from = "gateway" THEN ReadConsent ELSE Providers
    => zone[Own] = to_string(local)

\* The address that is sent to the provider is of the record's family when it
\* comes from an interface, and of a permitted kind when the record is of type
\* AAAA, wherever it comes from and whatever a web service answers; and nothing
\* gets into the zone but into the task's own record.
PublishedFits ==
    /\ pc = "exchange" =>
          /\ task.source = "interface" => local.family = type_to_family(task.type)
          /\ task.source = "interface" \/ task.type = "AAAA" =>
                /\ is_link_local(local) => task.allow_local_link
                /\ is_ula(local) => task.allow_ula
    /\ NamesOwn => \A r \in Records \ {Own} : zone[r] = "none"

\* A task whose request the provider can take, and whose name is looked up.
Sound ==
    LET req == generate_request(task.driver, task.keys, build_update_context, <<0, 0>>)
    IN  /\ req # Throws
        /\ req.value = to_string(local)
        /\ Designated(req) = Own
        /\ fqdn(task) = Own[1]

\* The source finds one and the same address, and one without a scope.
Wanted ==
    LET found == enumerate_interfaces(ifaddrs)
        own   == interface_addresses(found, task.interface, type_to_family(task.type))
        kept  == IF task.type = "AAAA" THEN filter_ipv6_candidates(own) ELSE own
    IN  IF task.source = "http"
        THEN Cardinality(Seen) = 1
        ELSE HasInterface(found, task.interface) /\ \E i \in DOMAIN kept : IsFirst(i, kept) /\ kept[i].scope = 0

\* With nothing of its own in the way the task comes to rest: whatever was
\* lost, refused or misread, there comes a round after which the zone holds
\* the address and the provider is not called any more.
Settles ==
    Sound /\ <>[]Wanted => <>[](pc # "exchange" /\ zone[Own] = to_string(local))

\* The provider is not called for a record that holds the address already,
\* unless the lookup fails or the update is forced.
UnchangedIsSkipped ==
    [][pc = "lookup" /\ pc' = "generate" /\ trouble' = trouble
           => zone[Own] # to_string(local)]_updaterVars
=============================================================================
