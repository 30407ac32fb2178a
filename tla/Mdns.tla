--------------------------------- MODULE Mdns ---------------------------------
(***************************************************************************)
(* The mDNS source (src/ip_source/mdns.cpp): one query for a host's        *)
(* addresses, multicast from an ephemeral port on one interface.  The      *)
(* socket and the membership of the multicast group belong to resolve_mdns *)
(* and are given back by destructors on every path, the membership first.  *)
(* Interfaces may come and go meanwhile, and anybody on the link may send  *)
(* a datagram to the port.                                                 *)
(***************************************************************************)
EXTENDS IpSources, Integers

CONSTANTS MdnsSources,   \* the sources to consider: type_ and interface_
          Links,         \* the results of getifaddrs to consider
          IfNames,       \* the interfaces, in the order of their indices
          MdnsDatagrams, \* what may arrive: sequences of records, or malformed
          MdnsTimeout    \* MDNS_TIMEOUT_MS, in ticks

VARIABLES
    source,      \* the MdnsIpSource
    link,        \* what getifaddrs returns
    at,          \* where resolve_mdns is
    open,        \* the socket's descriptor is open
    bound_to,    \* SO_BINDTODEVICE, "" when not set
    if_index,
    mreq,        \* mreq_ of the ScopedMembership
    membership,  \* the membership that the kernel keeps for the socket
    inbox,       \* the first datagram in the socket's buffer, if any
    elapsed,     \* time spent in wait_for
    results,     \* the addresses to return
    ended        \* "pending", then "ok" or "exception"

mdnsVars == <<source, link, at, open, bound_to, if_index, mreq, membership, inbox, elapsed,
              results, ended>>

Nothing == <<"nothing">>

MdnsStart(sources, links) ==
    /\ source \in sources
    /\ link \in links
    /\ at = "build"
    /\ open = FALSE
    /\ bound_to = ""
    /\ if_index = 0
    /\ mreq = Nothing
    /\ membership = Nothing
    /\ inbox = <<>>
    /\ elapsed = 0
    /\ results = <<>>
    /\ ended = "pending"

Family == type_to_family(source.type)

\* An exception, or the return: the destructors run next.
Unwind(how) ==
    /\ at' = IF mreq = Nothing THEN (IF open THEN "close" ELSE "done") ELSE "leave"
    /\ ended' = how

Fail ==
    /\ Unwind("exception")
    /\ UNCHANGED <<source, link, open, bound_to, if_index, mreq, membership, inbox, elapsed, results>>

-----------------------------------------------------------------------------
(* The query and the socket *)

\* QueryBuilder throws for a name that does not fit.
BuildQuery ==
    /\ at = "build"
    /\ \/ /\ at' = "socket"
          /\ UNCHANGED <<source, link, open, bound_to, if_index, mreq, membership, inbox, elapsed,
                         results, ended>>
       \/ Fail

OpenSocket ==
    /\ at = "socket"
    /\ \/ /\ at' = "bind"
          /\ open' = TRUE
          /\ \E ok \in BOOLEAN : bound_to' = IF ok THEN source.interface ELSE ""
          /\ UNCHANGED <<source, link, if_index, mreq, membership, inbox, elapsed, results, ended>>
       \/ Fail

name_to_index(name) ==
    IF Contains(IfNames, name) THEN CHOOSE i \in DOMAIN IfNames : IfNames[i] = name ELSE 0

\* The configured interface; for IPv6 the default one when none is configured;
\* 0, which leaves the choice to the kernel, in all other cases.
resolve_multicast_if_index ==
    IF source.interface # "" THEN name_to_index(source.interface)
    ELSE IF Family = "IPV6" THEN find_default_interface_index(link, Family, IfNames) ELSE 0

\* bind_socket and setup_multicast_output_opts; only bind is fatal.
setup_multicast_options ==
    /\ at = "bind"
    /\ \/ /\ at' = "join"
          /\ if_index' = resolve_multicast_if_index
          /\ UNCHANGED <<source, link, open, bound_to, mreq, membership, inbox, elapsed, results, ended>>
       \/ Fail

get_ipv4_subnets(name) ==
    SelectSeq(link, LAMBDA e : e.name = name /\ e.addr # NoAddr /\ e.addr.family = "IPV4")

pick_ipv4_interface_addr ==
    LET subnets == get_ipv4_subnets(source.interface)
    IN  IF source.interface # "" /\ subnets # <<>> THEN subnets[1].addr.text ELSE "INADDR_ANY"

\* What the request to join, and to leave, names as the interface.
group_request == <<Family, IF Family = "IPV6" THEN if_index ELSE pick_ipv4_interface_addr>>

\* The constructor of ScopedMembership.
Join ==
    /\ at = "join"
    /\ \/ /\ at' = "send"
          /\ mreq' = group_request
          /\ membership' = group_request
          /\ UNCHANGED <<source, link, open, bound_to, if_index, inbox, elapsed, results, ended>>
       \/ Fail

SendQuery ==
    /\ at = "send"
    /\ \/ /\ at' = "wait"
          /\ UNCHANGED <<source, link, open, bound_to, if_index, mreq, membership, inbox, elapsed,
                         results, ended>>
       \/ Fail

-----------------------------------------------------------------------------
(* recv_and_parse *)

MdnsTick ==
    /\ at = "wait"
    /\ inbox = <<>>
    /\ elapsed < MdnsTimeout
    /\ elapsed' = elapsed + 1
    /\ UNCHANGED <<source, link, at, open, bound_to, if_index, mreq, membership, inbox, results, ended>>

TimesOut ==
    /\ at = "wait"
    /\ inbox = <<>>
    /\ elapsed = MdnsTimeout
    /\ Fail

\* poll or recvfrom fails.
ReceiveFails == at = "wait" /\ Fail

\* The records that parse as an address of the family.
OfType(records) == RestrictValues(records, LAMBDA r : r.type = source.type)

\* One datagram is read and it decides: neither its sender nor its question is
\* looked at, and a malformed one, or one without a fitting record, is final.
Receive ==
    /\ at = "wait"
    /\ inbox # <<>>
    /\ IF inbox[1].well_formed /\ DOMAIN OfType(inbox[1].records) # {}
       THEN /\ results' = OfType(inbox[1].records)
            /\ Unwind("ok")
            /\ UNCHANGED <<source, link, open, bound_to, if_index, mreq, membership, inbox, elapsed>>
       ELSE Fail

-----------------------------------------------------------------------------
(* The destructors *)

\* Mutant: the request is put together anew.
LeaveRequestAnew == group_request

LeaveRequest == mreq

\* ~ScopedMembership: the kernel refuses a request that matches no membership,
\* which is only logged.
Leave ==
    /\ at = "leave"
    /\ membership' = IF open /\ LeaveRequest = membership THEN Nothing ELSE membership
    /\ at' = "close"
    /\ UNCHANGED <<source, link, open, bound_to, if_index, mreq, inbox, elapsed, results, ended>>

CloseSocket ==
    /\ at = "close"
    /\ open' = FALSE
    /\ at' = "done"
    /\ UNCHANGED <<source, link, bound_to, if_index, mreq, membership, inbox, elapsed, results, ended>>

-----------------------------------------------------------------------------
\* A datagram arrives, also before the query is sent.
Datagrams ==
    /\ at \in {"join", "send", "wait"}
    /\ inbox = <<>>
    /\ \E d \in MdnsDatagrams : inbox' = <<d>>
    /\ UNCHANGED <<source, link, at, open, bound_to, if_index, mreq, membership, elapsed, results, ended>>

LinkChanges ==
    /\ at # "done"
    /\ link' \in Links \ {link}
    /\ UNCHANGED <<source, at, open, bound_to, if_index, mreq, membership, inbox, elapsed, results, ended>>

resolve_mdns ==
    \/ BuildQuery \/ OpenSocket \/ setup_multicast_options \/ Join \/ SendQuery
    \/ MdnsTick \/ TimesOut \/ ReceiveFails \/ Receive \/ Leave \/ CloseSocket

-----------------------------------------------------------------------------
\* Whatever fails, and however the interfaces change meanwhile, the group is
\* left with the request it was joined with, while the socket is still open,
\* and the socket is closed.
MembershipIsLeft ==
    /\ at = "close" => open /\ membership = Nothing
    /\ at = "done" => ~open /\ membership = Nothing

\* The source returns addresses of its own record type, at least one, or
\* throws: what it returns goes into the record without another look.
MdnsFits ==
    /\ ended = "ok" => DOMAIN results # {} /\ \A i \in DOMAIN results : results[i].type = source.type
    /\ ended = "exception" => results = <<>>
=============================================================================
