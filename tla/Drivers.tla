------------------------------- MODULE Drivers -------------------------------
(***************************************************************************)
(* The twelve provider drivers.  Each is a pure function from a task to an *)
(* HTTP request (generate_request) and a verdict on the provider's answer  *)
(* (check_response), put together by BaseDriver::execute, the last part of *)
(* an update.                                                              *)
(*                                                                         *)
(* A request is what the provider reads off it: how it designates the      *)
(* record, the value, and the two dates of a signed one.  An answer is its *)
(* status and a body: a JSON or XML document as a function from the paths  *)
(* of its members to their values, a text, or garbage.                     *)
(***************************************************************************)
EXTENDS Sequences, SequencesExt, Integers, FiniteSets

\* The drivers of one provider each; what the template of the simple driver
\* makes of a task, and what its server answers, is up to the user.
Providers ==
    {"alibaba_cloud", "cloudflare", "digital_ocean", "dnspod", "duckdns", "godaddy", "linode",
     "namecheap", "porkbun", "route53", "vultr"}

\* The members a driver's configuration must and may have (glz::meta).
Members(required, optional) == [required |-> required, optional |-> optional]

AlibabaParams      == Members({"access_key_id", "access_key_secret", "record_id"}, {"ttl"})
CloudflareParams   == Members({"zone_id", "record_id", "token"}, {"ttl", "proxied"})
DigitalOceanParams == Members({"record_id", "token"}, {})
DNSPodParams       == Members({"domain_id", "record_id", "login_token", "record_line_id", "global"},
                              {"record_line"})
DuckDnsParams      == Members({"token"}, {"verbose"})
GoDaddyParams      == Members({"key", "secret"}, {"ttl"})
LinodeParams       == Members({"token", "domain_id", "record_id"}, {"ttl_sec"})
NamecheapParams    == Members({"password"}, {})
PorkbunParams      == Members({"api_key", "secret_api_key"}, {"ttl"})
Route53Params      == Members({"access_key_id", "secret_access_key", "hosted_zone_id", "region",
                               "record_name"}, {"ttl"})
VultrParams        == Members({"api_key", "record_id"}, {"ttl"})

\* Every required member is there, and no unknown one; else it throws.
parse_config(keys, T) == T.required \subseteq keys /\ keys \subseteq T.required \cup T.optional

Throws == [method |-> "throws"]

\* by: "id", the record the configured id stands for, which gets the name
\* sent with it if there is one; "relative" and "fqdn", the record of a name.
Request(method, by, name, type, value) ==
    [method |-> method, by |-> by, name |-> name, type |-> type, value |-> value,
     timestamp |-> 0, scope |-> 0]

-----------------------------------------------------------------------------
(* generate_request *)

alibaba_request(keys, ctx, clock) ==
    IF ~parse_config(keys, AlibabaParams) THEN Throws
    ELSE Request("POST", "id", ctx.subdomain, ctx.rd_type, ctx.ip_addr)

generate_body(ctx) == Request("PUT", "id", ctx.subdomain, ctx.rd_type, ctx.ip_addr)

cloudflare_request(keys, ctx, clock) ==
    IF ~parse_config(keys, CloudflareParams) THEN Throws ELSE generate_body(ctx)

digital_ocean_request(keys, ctx, clock) ==
    IF ~parse_config(keys, DigitalOceanParams) THEN Throws
    ELSE Request("PUT", "id", "unsent", "unsent", ctx.ip_addr)

dnspod_request(keys, ctx, clock) ==
    IF ~parse_config(keys, DNSPodParams) THEN Throws
    ELSE Request("POST", "id", ctx.subdomain, ctx.rd_type, ctx.ip_addr)

duckdns_request(keys, ctx, clock) ==
    IF ~parse_config(keys, DuckDnsParams) THEN Throws
    ELSE Request("GET", "relative", ctx.subdomain,
                 IF ctx.rd_type = "AAAA" THEN "AAAA" ELSE "A", ctx.ip_addr)

godaddy_request(keys, ctx, clock) ==
    IF ~parse_config(keys, GoDaddyParams) THEN Throws
    ELSE Request("PUT", "relative", ctx.subdomain, ctx.rd_type, ctx.ip_addr)

linode_request(keys, ctx, clock) ==
    IF ~parse_config(keys, LinodeParams) THEN Throws
    ELSE Request("PUT", "id", ctx.subdomain, "unsent", ctx.ip_addr)

namecheap_request(keys, ctx, clock) ==
    IF ctx.rd_type = "AAAA" \/ ~parse_config(keys, NamecheapParams) THEN Throws
    ELSE Request("GET", "relative", ctx.subdomain, "A", ctx.ip_addr)

porkbun_request(keys, ctx, clock) ==
    IF ~parse_config(keys, PorkbunParams) THEN Throws
    ELSE Request("POST", "relative", IF ctx.subdomain = "@" THEN "" ELSE ctx.subdomain,
                 ctx.rd_type, ctx.ip_addr)

\* UPSERT of the record with this name and type.
build_xml_body(name, type, value) == Request("POST", "fqdn", name, type, value)

iso8601_timestamp(clock) == clock[1]
iso8601_date(clock)      == clock[2]

\* The clock is read twice: for the timestamp of the request and for the date
\* of its credential's scope, out of which the signing key is derived.
route53_request(keys, ctx, clock) ==
    IF ~parse_config(keys, Route53Params) THEN Throws
    ELSE [build_xml_body(ctx.fqdn, ctx.rd_type, ctx.ip_addr)
          EXCEPT !.timestamp = iso8601_timestamp(clock), !.scope = iso8601_date(clock)]

vultr_request(keys, ctx, clock) ==
    IF ~parse_config(keys, VultrParams) THEN Throws
    ELSE Request("PATCH", "id", ctx.subdomain, "unsent", ctx.ip_addr)

\* StringUtil::replace_all, for a text that is a sequence of words.
replace_all(text, word, replacement) ==
    [i \in DOMAIN text |-> IF text[i] = word THEN replacement ELSE text[i]]

\* The template's parameters are replaced by the members of the configuration
\* (keys: pairs of parameter and word, the url first) and then by the context;
\* so a member may itself be a parameter, and one of the same name hides it.
simple_url(keys, ctx) ==
    LET context ==
            << <<"{ip_addr}", ctx.ip_addr>>, <<"{rd_type}", ctx.rd_type>>,
               <<"{domain}", ctx.domain>>, <<"{subdomain}", ctx.subdomain>>,
               <<"{fqdn}", ctx.fqdn>> >>
    IN  FoldLeft(LAMBDA url, kv : replace_all(url, kv[1], kv[2]), keys[1][2],
                 Tail(keys) \o context)

\* The providers it is used with read the name, the type and the address.
simple_request(keys, ctx, clock) ==
    IF keys = <<>> \/ keys[1][1] # "url" THEN Throws
    ELSE LET url == simple_url(keys, ctx)
         IN  Request("GET", "relative", url[1], url[2], url[3])

generate_request(driver, keys, ctx, clock) ==
    CASE driver = "alibaba_cloud" -> alibaba_request(keys, ctx, clock)
      [] driver = "cloudflare"    -> cloudflare_request(keys, ctx, clock)
      [] driver = "digital_ocean" -> digital_ocean_request(keys, ctx, clock)
      [] driver = "dnspod"        -> dnspod_request(keys, ctx, clock)
      [] driver = "duckdns"       -> duckdns_request(keys, ctx, clock)
      [] driver = "godaddy"       -> godaddy_request(keys, ctx, clock)
      [] driver = "linode"        -> linode_request(keys, ctx, clock)
      [] driver = "namecheap"     -> namecheap_request(keys, ctx, clock)
      [] driver = "porkbun"       -> porkbun_request(keys, ctx, clock)
      [] driver = "route53"       -> route53_request(keys, ctx, clock)
      [] driver = "vultr"         -> vultr_request(keys, ctx, clock)
      [] driver = "simple"        -> simple_request(keys, ctx, clock)

-----------------------------------------------------------------------------
(* check_response *)

\* glz::read_json: missing members are passed over, unknown ones are an error.
read_json(body, members) == body.format = "json" /\ DOMAIN body.of \subseteq members

Is(body, path, value) == path \in DOMAIN body.of /\ body.of[path] = value

AlibabaUpdateResponse == {"RequestId", "RecordId"}
CloudflareResponse ==
    {"success", "errors", "messages", "result"}
        \cup {"errors.code", "errors.message", "errors.documentation_url", "errors.source"}
        \cup {"messages.code", "messages.message", "messages.documentation_url", "messages.source"}
        \cup {"result.id", "result.name", "result.type", "result.content", "result.ttl",
              "result.proxied", "result.proxiable", "result.private_routing",
              "result.comment", "result.tags"}
DigitalOceanDomainResponse ==
    {"domain_record", "domain_record.id", "domain_record.type", "domain_record.name",
     "domain_record.data", "domain_record.ttl", "domain_record.flags", "domain_record.port",
     "domain_record.priority", "domain_record.tag", "domain_record.weight"}
DnsPodResponse ==
    {"status", "status.code", "status.message", "status.created_at", "record", "record.id",
     "record.name", "record.value"}
PorkbunResponse == {"status", "message", "code"}

alibaba_check(resp) == resp.status = 200 /\ read_json(resp.body, AlibabaUpdateResponse)

\* Mutant: an answer that can be read will do.
cloudflare_check_readable(resp) == read_json(resp.body, CloudflareResponse)

cloudflare_check(resp) ==
    read_json(resp.body, CloudflareResponse) /\ Is(resp.body, "success", TRUE)

digital_ocean_check(resp) == read_json(resp.body, DigitalOceanDomainResponse)

\* Mutant: any status will do.
dnspod_check_any_code(resp) ==
    read_json(resp.body, DnsPodResponse) /\ "status" \in DOMAIN resp.body.of

dnspod_check(resp) ==
    /\ read_json(resp.body, DnsPodResponse)
    /\ "status" \in DOMAIN resp.body.of
    /\ Is(resp.body, "status.code", "1")

duckdns_check(resp) == resp.body.format = "text" /\ Is(resp.body, "starts_with", "OK")

godaddy_check(resp) == resp.status = 200

linode_check(resp) == resp.status = 200

\* Whatever the status is: //ErrCount is "0".
namecheap_check(resp) == resp.body.format = "xml" /\ Is(resp.body, "ErrCount", "0")

porkbun_check(resp) ==
    read_json(resp.body, PorkbunResponse) /\ Is(resp.body, "status", "SUCCESS")

route53_check(resp) ==
    /\ resp.status = 200
    /\ resp.body.format = "xml"
    /\ \E status \in {"PENDING", "INSYNC"} : Is(resp.body, "ChangeInfo.Status", status)

vultr_check(resp) == resp.status = 204

simple_check(resp) == resp.status < 300 /\ resp.body.format # "empty"

check_response(driver, resp) ==
    CASE driver = "alibaba_cloud" -> alibaba_check(resp)
      [] driver = "cloudflare"    -> cloudflare_check(resp)
      [] driver = "digital_ocean" -> digital_ocean_check(resp)
      [] driver = "dnspod"        -> dnspod_check(resp)
      [] driver = "duckdns"       -> duckdns_check(resp)
      [] driver = "godaddy"       -> godaddy_check(resp)
      [] driver = "linode"        -> linode_check(resp)
      [] driver = "namecheap"     -> namecheap_check(resp)
      [] driver = "porkbun"       -> porkbun_check(resp)
      [] driver = "route53"       -> route53_check(resp)
      [] driver = "vultr"         -> vultr_check(resp)
      [] driver = "simple"        -> simple_check(resp)
=============================================================================
