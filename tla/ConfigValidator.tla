--------------------------- MODULE ConfigValidator ---------------------------
(***************************************************************************)
(* The checks on a parsed configuration: ConfigValidator::validate, and    *)
(* DnsResolverFactory::create, which turns away servers of its own accord. *)
(* Names are strings, "" for an empty one; what a text parses as is part   *)
(* of the configuration.                                                   *)
(***************************************************************************)
EXTENDS Integers

CONSTANTS MinUpdateInterval,  \* YADDNSC_MIN_UPDATE_INTERVAL
          Interfaces          \* InterfaceUtil::get_interfaces()

ASSUME ValidatorAssumption == MinUpdateInterval \in Nat \ {0}

\* ip_source_param is the class of the parameter: "" (empty), "url" (a URI with a
\* host and a port), "local" (a domain in .local) or "junk".
validate_ip_source(subdomain) ==
    /\ subdomain.ip_source = "INTERFACE" => subdomain.interface # ""
    /\ subdomain.ip_source = "HTTP" => subdomain.ip_source_param = "url"
    /\ subdomain.ip_source = "MDNS" => /\ subdomain.ip_source_param = "local"
                                       /\ subdomain.type \in {"A", "AAAA"}

\* Mutant: the sign and size of a subdomain's own interval are not checked.
validate_subdomain_name(subdomain) ==
    /\ subdomain.name # ""
    /\ validate_ip_source(subdomain)
    /\ subdomain.interface # "" => subdomain.interface \in Interfaces

validate_subdomain(subdomain) ==
    /\ subdomain.name # ""
    /\ validate_ip_source(subdomain)
    /\ subdomain.update_interval # 0 => subdomain.update_interval >= MinUpdateInterval
    /\ subdomain.interface # "" => subdomain.interface \in Interfaces

validate_domain(domain, loaded_drivers) ==
    /\ domain.name # ""
    /\ domain.subdomains # {}
    /\ domain.driver \in loaded_drivers
    /\ domain.update_interval >= MinUpdateInterval
    /\ domain.force_update # 0 => domain.force_update >= domain.update_interval
    /\ \A subdomain \in domain.subdomains : validate_subdomain(subdomain)

\* A server is an address as Uri and InetAddress read it: [schema, host, port,
\* is_ip]; an address that Uri::parse throws on has the schema "unparsable".
validate_resolver_address(server) ==
    IF server.schema \in {"https", "tls"}
    THEN server.host # "" /\ server.port # 0
    ELSE server.is_ip

\* The legacy single address counts when there is no list.
custom_servers(config) ==
    IF ~config.use_custom_server THEN {}
    ELSE IF config.servers # {} THEN config.servers ELSE config.address

validate(config, loaded_drivers) ==
    /\ \A domain \in config.domains : validate_domain(domain, loaded_drivers)
    /\ \A server \in custom_servers(config) : validate_resolver_address(server)

\* Mutant: only a server with a schema has a factory.
create_resolver_by_schema(server) == server.schema \in {"https", "tls"}

\* A resolver is registered for https, for tls and, without a schema, for a
\* bare address, which has to be an IP address.
create_resolver(server) ==
    \/ server.schema \in {"https", "tls"}
    \/ server.schema = "" /\ server.is_ip

\* Whether every server gets a resolver; without custom servers there is the
\* built-in one, an IP address.
create(config) == \A server \in custom_servers(config) : create_resolver(server)
=============================================================================
