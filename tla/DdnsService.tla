----------------------------- MODULE DdnsService ----------------------------
(***************************************************************************)
(* What dyndynser promises the owner of a zone, without buckets, runs or   *)
(* failures.  Requests are submitted and may be withdrawn; a record set of *)
(* the zone only ever changes by publishing, at once, a set of submitted   *)
(* requests that are all trusted, at most one of them per record set.  No  *)
(* record set is ever removed.                                             *)
(***************************************************************************)
CONSTANTS Request, Targets, NoRecord, TargetOf(_), Trusted(_)

VARIABLES submitted, dns

vars == <<submitted, dns>>

Init ==
  /\ submitted \subseteq Request
  /\ dns = [t \in Targets |-> NoRecord]

(* Some requests are withdrawn, and at most one new one is submitted. *)
Revise ==
  /\ submitted' \ submitted \subseteq Request
  /\ \A r1, r2 \in submitted' \ submitted : r1 = r2
  /\ UNCHANGED dns

Publish ==
  \E batch \in SUBSET submitted :
    /\ \A r \in batch : Trusted(r)
    /\ \A r1, r2 \in batch : TargetOf(r1) = TargetOf(r2) => r1 = r2
    /\ \A t \in Targets :
         \/ dns'[t] \in batch /\ TargetOf(dns'[t]) = t
         \/ dns'[t] = dns[t] /\ \A r \in batch : TargetOf(r) # t
    /\ DOMAIN dns' = Targets
    /\ submitted' \subseteq submitted

Next == Revise \/ Publish

Spec == Init /\ [][Next]_vars
=============================================================================
