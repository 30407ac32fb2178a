---------------------------- MODULE MC_Dispatcher ----------------------------
(***************************************************************************)
(* Small instances of the dispatcher.  The concurrent runner has two       *)
(* batches, of three resolvers and of one, and one response per class that *)
(* it tells apart: an answer, NXDOMAIN, a definitive parse error, a        *)
(* transient error and a cancellation.  The sequential runners have one    *)
(* to four resolvers, two retries and every response; so has the system    *)
(* back end, whose batches see every answer of its resolvers.              *)
(***************************************************************************)
EXTENDS Backends

MCResponses ==
    { [kind |-> "parsed", rcode |-> "NOERROR", records |-> TRUE],
      [kind |-> "parsed", rcode |-> "NXDOMAIN", records |-> FALSE],
      [kind |-> "malformed"],
      [kind |-> "transport", error |-> "CONNECTION"],
      [kind |-> "transport", error |-> "CANCELLED"] }
=============================================================================
