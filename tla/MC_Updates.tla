----------------------------- MODULE MC_Updates -----------------------------
(***************************************************************************)
(* Every driver with a complete and with an incomplete configuration, both *)
(* record types, both sources, a named record and the apex; interfaces     *)
(* with addresses of each kind, one of which disappears.  The cache is     *)
(* shared by three threads: one computes, one waits, and one comes late.   *)
(***************************************************************************)
EXTENDS Updates

Addr(family, class, text, scope) ==
    [family |-> family, class |-> class, text |-> text, scope |-> scope]
On(name, addr) == [name |-> name, addr |-> addr, flags |-> {"up"}]

V4   == Addr("IPV4", "global", "192.0.2.1", 0)
V4b  == Addr("IPV4", "global", "192.0.2.2", 0)
V6   == Addr("IPV6", "global", "2001:db8::1", 0)
Link == Addr("IPV6", "link_local", "fe80::1", 2)
Ula  == Addr("IPV6", "ula", "fd00::1", 0)

\* A service that sees the client over another path, or that is misconfigured.
MCWebAnswers == {V4, V6, Link, Ula}

MCIfAddrs ==
    {<<On("lo", NoAddr), On("eth0", V4), On("eth0", Link), On("eth0", Ula), On("eth0", V6)>>,
     <<On("eth0", Link), On("eth0", V4b), On("wan", V6)>>,
     <<On("lo", NoAddr)>>}

Complete ==
    [alibaba_cloud |-> AlibabaParams.required, cloudflare |-> CloudflareParams.required \cup {"ttl"},
     digital_ocean |-> DigitalOceanParams.required, dnspod |-> DNSPodParams.required,
     duckdns |-> DuckDnsParams.required \cup {"verbose"}, godaddy |-> GoDaddyParams.required,
     linode |-> LinodeParams.required, namecheap |-> NamecheapParams.required,
     porkbun |-> PorkbunParams.required, route53 |-> Route53Params.required,
     vultr |-> VultrParams.required]

Template == <<"url", <<"{subdomain}", "{rd_type}", "{ip_addr}", "{secret}">>>>

Task(driver, keys, type, name, source, link, ula) ==
    [driver |-> driver, keys |-> keys, type |-> type, name |-> name, source |-> source,
     interface |-> "eth0", allow_local_link |-> link, allow_ula |-> ula]

Named == {Task(d, Complete[d], ty, "www", "interface", FALSE, FALSE) :
             d \in DOMAIN Complete, ty \in {"A", "AAAA"}}
Apex(d) == Task(d, Complete[d], "A", "@", "interface", FALSE, FALSE)
SimpleTask(keys, name) == Task("simple", keys, "A", name, "interface", FALSE, FALSE)

MCTasks ==
    Named \cup {Apex(d) : d \in DOMAIN Complete}
        \cup {Task(d, {"token"}, "A", "www", "interface", FALSE, FALSE) : d \in {"linode", "vultr"}}
        \cup {Task("cloudflare", Complete["cloudflare"], ty, "www", s, l, TRUE) :
                 ty \in {"A", "AAAA"}, s \in {"interface", "http"}, l \in BOOLEAN}
        \cup {SimpleTask(<<Template, <<"{secret}", "s">> >>, "www"),
              SimpleTask(<<Template, <<"{ip_addr}", "fixed">> >>, "www"),
              SimpleTask(<<>>, "www")}

ApexTasks == {Apex(d) : d \in DOMAIN Complete}
=============================================================================
