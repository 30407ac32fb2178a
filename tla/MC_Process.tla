----------------------------- MODULE MC_Process -----------------------------
(***************************************************************************)
(* Two libraries with the same driver, one that is incompatible, one of    *)
(* another compiler and one that is not there; configurations that are     *)
(* right, and ones that are wrong in one place each.                       *)
(***************************************************************************)
EXTENDS Process

MCLibraries  == {"simple", "copy", "old", "alien", "ghost"}
MCFaults     == [l \in MCLibraries |->
                    CASE l = "old" -> {"abi"} [] l = "alien" -> {"compiler", "symbols"}
                      [] l = "ghost" -> {"missing"} [] OTHER -> {}]
MCDriverName == [l \in MCLibraries |-> IF l = "copy" THEN "simple" ELSE l]
MCInterfaces == {"eth0"}

Www == [name |-> "www", type |-> "A", interface |-> "eth0", ip_source |-> "INTERFACE",
        ip_source_param |-> "", update_interval |-> 0]

Home == [name |-> "example.com", update_interval |-> 3, force_update |-> 0,
         driver |-> "simple", subdomains |-> {Www}]

Right == [auto_discover |-> FALSE, driver_dir |-> "present", directory |-> {"simple"},
          load |-> <<[library |-> "simple", path |-> "relative"]>>, domains |-> {Home},
          use_custom_server |-> FALSE, servers |-> {}, address |-> {}]

Rel(l) == [library |-> l, path |-> "relative"]
Abs(l) == [library |-> l, path |-> "absolute"]

DriverConfigs ==
    {[Right EXCEPT !.load = load] :
        load \in {<<Rel("simple"), Abs("simple"), Rel("simple")>>, <<Rel("copy"), Rel("old")>>,
                  <<Rel("simple"), Rel("alien")>>, <<Rel("ghost")>>, <<>>}}
    \cup {[Right EXCEPT !.auto_discover = TRUE, !.directory = dir] :
             dir \in {{"simple", "copy"}, {"simple", "copy", "old"}}}
    \cup {[Right EXCEPT !.auto_discover = auto, !.driver_dir = dir] :
             auto \in BOOLEAN, dir \in {"empty", "absent"}}
    \cup {[Right EXCEPT !.driver_dir = "absent", !.load = <<Abs("simple")>>]}

SubdomainConfigs ==
    {[Www EXCEPT !.name = ""], [Www EXCEPT !.interface = ""], [Www EXCEPT !.interface = "eth9"],
     [Www EXCEPT !.ip_source = "HTTP"], [Www EXCEPT !.ip_source = "HTTP", !.ip_source_param = "url"],
     [Www EXCEPT !.ip_source = "MDNS", !.ip_source_param = "local", !.type = "TXT"],
     [Www EXCEPT !.ip_source = "MDNS", !.ip_source_param = "local", !.interface = ""]}
    \cup {[Www EXCEPT !.update_interval = i] : i \in {-1, 1, 2}}

DomainConfigs ==
    {[Home EXCEPT !.name = ""], [Home EXCEPT !.driver = "old"], [Home EXCEPT !.subdomains = {}],
     [Home EXCEPT !.update_interval = 1]}
    \cup {[Home EXCEPT !.force_update = i] : i \in {-1, 2, 3}}
    \cup {[Home EXCEPT !.subdomains = {s}] : s \in SubdomainConfigs}

Server(schema, host, port, is_ip) ==
    [schema |-> schema, host |-> host, port |-> port, is_ip |-> is_ip]

Servers == {Server("", "1.1.1.1", 0, TRUE), Server("https", "dns", 443, FALSE),
            Server("tls", "", 853, FALSE), Server("tls", "dns", 0, FALSE),
            Server("udp", "1.1.1.1", 53, FALSE), Server("", "dns", 0, FALSE)}

ResolverConfigs ==
    {[Right EXCEPT !.use_custom_server = TRUE, !.servers = {s}] : s \in Servers}
    \cup {[Right EXCEPT !.use_custom_server = custom, !.address = {s}] :
             custom \in BOOLEAN, s \in Servers}

MCConfigs == {Right, [Right EXCEPT !.domains = {}]} \cup DriverConfigs \cup ResolverConfigs
             \cup {[Right EXCEPT !.domains = {d}] : d \in DomainConfigs}
=============================================================================
