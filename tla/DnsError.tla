------------------------------ MODULE DnsError ------------------------------
(***************************************************************************)
(* The error codes of include/dns_error.h and the classifications that the *)
(* resolver dispatcher bases its control flow on.  A reply is what         *)
(* try_resolve() returns: "OK" stands for a non-empty vector of records.   *)
(***************************************************************************)

DnsErrors == {"NX_DOMAIN", "RETRY", "UNKNOWN", "PARSE", "NODATA",
              "CONNECTION", "SERVER_REFUSED", "CONFIG", "CANCELLED"}

Replies == {"OK"} \cup DnsErrors

\* Errors that a single-resolver lookup retries.
is_retryable(error) == error \in {"RETRY", "UNKNOWN", "CONNECTION"}

\* Errors that end a multi-resolver lookup without trying further resolvers.
Definitive(error) == error \in {"NX_DOMAIN", "PARSE", "CONFIG"}

(***************************************************************************)
(* What one try_resolve() call does with the resolver's answer: a          *)
(* transport error is passed through, a parse exception keeps its code     *)
(* (always PARSE), any other exception becomes UNKNOWN, and a parsed       *)
(* response is classified by its RCODE and by whether it holds records.    *)
(***************************************************************************)
Rcodes == {"NOERROR", "NXDOMAIN", "SERVFAIL", "REFUSED", "OTHER"}

Responses ==
    [kind : {"transport"}, error : DnsErrors]
        \cup [kind : {"malformed"}]
        \cup [kind : {"exception"}]
        \cup [kind : {"parsed"}, rcode : Rcodes, records : BOOLEAN]

try_resolve(response) ==
    CASE response.kind = "transport" -> response.error
      [] response.kind = "malformed" -> "PARSE"
      [] response.kind = "exception" -> "UNKNOWN"
      [] response.kind = "parsed" ->
           CASE response.rcode = "NOERROR"  -> IF response.records THEN "OK" ELSE "NODATA"
             [] response.rcode = "NXDOMAIN" -> "NX_DOMAIN"
             [] response.rcode = "SERVFAIL" -> "RETRY"
             [] response.rcode = "REFUSED"  -> "SERVER_REFUSED"
             [] response.rcode = "OTHER"    -> "UNKNOWN"
=============================================================================
