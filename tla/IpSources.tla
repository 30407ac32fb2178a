------------------------------ MODULE IpSources ------------------------------
(***************************************************************************)
(* Where an update's address comes from: the interfaces of the machine,    *)
(* read with getifaddrs, or a web service that answers with the address it *)
(* sees.  (The third source, mDNS, has a module of its own.)               *)
(*                                                                         *)
(* An address is a record: family, class ("global", "link_local", "ula"),  *)
(* text, and the scope of an IPv6 address.  An entry of getifaddrs has the *)
(* interface's name, an address or NoAddr, and the interface's flags.      *)
(***************************************************************************)
EXTENDS Sequences, SequencesExt, Integers, TLC

NoAddr == [family |-> "none", class |-> "none", text |-> "", scope |-> 0]

\* An IPv6 address with a scope prints it.
to_string(a) == IF a.scope > 0 THEN a.text \o "%" \o ToString(a.scope) ELSE a.text

is_link_local(a) == a.family = "IPV6" /\ a.class = "link_local"
is_ula(a)        == a.family = "IPV6" /\ a.class = "ula"

-----------------------------------------------------------------------------
(* NetDevices and InterfaceUtil *)

\* Entries with no address or one of another family (AF_PACKET) are left out.
enumerate_interfaces(ifaddrs) ==
    LET inet == SelectSeq(ifaddrs, LAMBDA e : e.addr.family \in {"IPV4", "IPV6"})
    IN  [n \in {inet[i].name : i \in DOMAIN inet} |->
            LET own == SelectSeq(inet, LAMBDA e : e.name = n)
            IN  [i \in DOMAIN own |-> own[i].addr]]

\* The interface of the first entry that is up, neither loopback nor
\* point-to-point, and of the family; 0 if there is none.  An interface's
\* index is its position in names.
find_default_interface_index(ifaddrs, family, names) ==
    LET fit == SelectSeq(ifaddrs, LAMBDA e :
                   /\ e.addr # NoAddr
                   /\ family # "UNSPECIFIED" => e.addr.family = family
                   /\ "up" \in e.flags /\ e.flags \cap {"loopback", "pointopoint"} = {}
                   /\ Contains(names, e.name))
    IN  IF fit = <<>> THEN 0 ELSE CHOOSE i \in DOMAIN names : names[i] = fit[1].name

-----------------------------------------------------------------------------
(* The sources *)

\* Mutant: any address is good for a record of type A.
type_to_family_lax(type) == IF type = "AAAA" THEN "IPV6" ELSE "UNSPECIFIED"

type_to_family(type) ==
    CASE type = "A" -> "IPV4" [] type = "AAAA" -> "IPV6" [] OTHER -> "UNSPECIFIED"

\* InterfaceUtil::get_addresses throws for an interface that is not there.
HasInterface(interfaces, name) == name \in DOMAIN interfaces

\* InterfaceIpSource::resolve.  What a filter keeps of a list stays at its
\* position, since only the order matters.
interface_addresses(interfaces, name, family) ==
    RestrictValues(interfaces[name], LAMBDA a : family # "UNSPECIFIED" => a.family = family)

\* The first of the addresses that are left is at position i.
IsFirst(i, found) == i \in DOMAIN found /\ \A j \in DOMAIN found : i <= j

\* apply_options: what the httplib client is told.  Nothing is said of the
\* server's certificate when no CA file is found: the library's default,
\* which is to verify it, stays.
apply_options(schema, opts, ca_bundle) ==
    LET ca == IF opts.ca_cert_path # "" THEN opts.ca_cert_path ELSE ca_bundle
    IN  [ca        |-> IF schema = "https" THEN ca ELSE "",
         verify    |-> schema = "https" /\ (ca # "" => opts.verify_server_cert),
         interface |-> opts.interface,
         family    |-> opts.address_family,
         follow    |-> opts.follow_location]

DefaultOptions ==
    [ca_cert_path |-> "", verify_server_cert |-> TRUE, interface |-> "",
     address_family |-> "UNSPECIFIED", follow_location |-> TRUE]

\* HttpIpSource's client.
http_options(family, interface) ==
    [DefaultOptions EXCEPT !.address_family = family, !.interface = interface]

\* The addresses from which a client with these options can reach the web.
Outbound(interfaces, options) ==
    {a \in UNION {ToSet(interfaces[n]) : n \in {m \in DOMAIN interfaces :
                                                   options.interface \in {"", m}}} :
        a.class = "global" /\ options.family \in {"UNSPECIFIED", a.family}}

\* Mutant: the body is parsed as it is.
trim_skipped(body) == body

trim(body) == [body EXCEPT !.padded = FALSE]

\* InetAddress::parse, of a body that is an address or a page.
IsAddress(body) == ~body.padded /\ body.addr # NoAddr
=============================================================================
