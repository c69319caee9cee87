----------------------------- MODULE Dyndynser ------------------------------
(***************************************************************************)
(* The whole system: clients and server runs that meet only in the S3      *)
(* bucket and in the Route 53 zone, with the clock and their failures.     *)
(***************************************************************************)
EXTENDS Client, Server

vars == <<cloudVars, clientVars, dirVars, serverVars>>

Init == CloudInit /\ ClientInit /\ DirInit /\ ServerInit

ClientNext(c) ==
  /\ ClientStep(c) \/ ClientAbort(c)
  /\ UNCHANGED <<dirVars, serverVars>>

ServerNext(s) ==
  /\ ServerStart(s) \/ ServerStep(s) \/ ServerFault(s)
  /\ UNCHANGED <<dirVars, clientVars>>

(* The surroundings: a machine moves, the administrator, the clock. *)
MachineMoves(m) == Move(m) /\ UNCHANGED <<dirVars, serverVars>>

KeysRotate == Rotate /\ UNCHANGED <<cloudVars, clientVars, serverVars>>

Clock == Tick /\ UNCHANGED <<clientVars, dirVars, serverVars>>

Next ==
  \/ \E c \in Clients : ClientNext(c)
  \/ \E s \in Servers : ServerNext(s)
  \/ \E m \in Machines : MachineMoves(m)
  \/ KeysRotate
  \/ Clock

Spec == Init /\ [][Next]_vars

(***************************************************************************)
(* Both programs are cron jobs: each is started again and again, and a     *)
(* process that is not killed goes on.  Failures are not fair, and the     *)
(* bound on them says that they are finitely many.                         *)
(***************************************************************************)
Fairness ==
  /\ \A c \in Clients : WF_vars(ClientStep(c) /\ UNCHANGED <<dirVars, serverVars>>)
  /\ \A s \in Servers :
       /\ WF_vars(ServerStart(s) /\ UNCHANGED <<dirVars, clientVars>>)
       /\ WF_vars(ServerStep(s) /\ UNCHANGED <<dirVars, clientVars>>)

FairSpec == Spec /\ Fairness

-----------------------------------------------------------------------------
(* Types.  Every variable keeps its type; a client that is about to sign   *)
(* has an address, one that is about to upload has a request.              *)
TypeOK == CloudTypeOK /\ ClientTypeOK /\ DirTypeOK /\ ServerTypeOK

-----------------------------------------------------------------------------
(* Safety *)

(* Without --insecure-skip-verify every record in the zone was requested   *)
(* under a key that a known certificate binds to exactly that name: a      *)
(* machine only moves the domains it holds the key for                     *)
(* (check_valid_ddns_request, handle_server).                              *)
OnlyOwnersMoveRecords ==
  TRUE \notin SkipModes =>
    \A t \in Targets : dns[t] # NoRecord => Owned(dns[t]) /\ TargetOf(dns[t]) = t

(* A run without --insecure-skip-verify only ever accepts requests signed  *)
(* by the owner of their name, also next to runs and clients that do use   *)
(* the flag and its all-zero key (check_valid_ddns_request).               *)
VerifiedByOwner ==
  \A s \in Servers : ~skip[s] => \A k \in verified[s] : Owned(held[s][k])

Uploaders == Clients \ DryRunClients

(* Server runs do not overlap, no two client processes upload requests for *)
(* one record name, and there are no requests from before.                 *)
OneAtATime ==
  /\ \A s1, s2 \in Servers : s1 = s2
  /\ \A c1, c2 \in Uploaders :
       fixed_name(ClientName[c1]) = fixed_name(ClientName[c2]) => c1 = c2
  /\ \A b \in InitialBuckets, k \in S3Keys : b[k] \notin Request

(* With one server run at a time and one client per record name, a record  *)
(* is never set back to a request signed before the one it shows, whatever *)
(* is retried after a lost response, a failed deletion or a killed run.    *)
Precedes(r1, r2) == r1.signed_at <= r2.signed_at

RecordsNeverGoBack ==
  [][OneAtATime =>
       \A t \in Targets : dns[t] # NoRecord =>
         dns'[t] # NoRecord /\ Precedes(dns[t], dns'[t])]_vars

(* Under the same conditions, a run that cleans up has published everything*)
(* it is about to delete as used: the zone shows that request or a later   *)
(* one.  A batch that Route 53 did not confirm is never followed by        *)
(* deletions (commit_changes before cleanup in handle_server).             *)
PublishedBeforeDeleted ==
  OneAtATime =>
    \A s \in Servers : spc[s] = "cleanup" =>
      \A k \in verified[s] :
        LET t == TargetOf(held[s][k])
        IN  dns[t] # NoRecord /\ Precedes(held[s][k], dns[t])

(* Objects of the directory that are not .ddns.json files are never        *)
(* touched, not even by the cleanup that also deletes unparsable requests. *)
ForeignFilesSurvive == \A k \in ForeignKeys : bucket[k] = Malformed

(* The age check does its work in spite of clock drift and of the stamp    *)
(* being cut to whole seconds: a request of the name's owner that is judged*)
(* within MaxAge of its signing is accepted, one that is judged more than  *)
(* MaxAge and twice the tolerance after it is refused, whenever its        *)
(* machine's clock is off by at most the tolerance (less the second lost   *)
(* to the stamp, if it is behind) (validate, sign).                        *)
Tolerable(c) == Skew[MachineOf[c]] \in (Second - 1 - Tolerance)..Tolerance

SignedAtInstants(c, r) ==
  {r.signed_at - Skew[MachineOf[c]] + i : i \in 0..(Second - 1)}

Judged(s, k) ==
  /\ spc[s] = "validate" /\ spc'[s] = "validate"
  /\ k \in work[s] /\ k \notin work'[s]

AgeWindow ==
  [][\A s \in Servers, k \in DdnsKeys, c \in Clients :
       /\ Judged(s, k)
       /\ ~skip[s]
       /\ Tolerable(c)
       /\ held[s][k].name = ClientName[c]
       /\ held[s][k].signer = signing_key(c)
       /\ certs[s][ClientName[c]] = signing_key(c)
       => \A i \in SignedAtInstants(c, held[s][k]) :
            /\ now - i <= MaxAge => k \in verified'[s]
            /\ now - i > MaxAge + 2 * Tolerance => k \notin verified'[s]]_vars

(* Nothing disappears from the bucket. *)
NothingDeleted == \A k \in S3Keys : bucket[k] # NoObject => bucket'[k] # NoObject

(* Everything a run of the server has in its memory.                       *)
RunState(s) ==
  <<spc[s], dry[s], skip[s], covered[s], work[s], held[s], files[s], certs[s],
    verified[s], errors[s], exit[s]>>

Moves(s) == RunState(s)' # RunState(s)

(* A dry run leaves no trace, whatever other runs do next to it: the zone  *)
(* changes, and objects disappear, only by the steps of runs that are not  *)
(* dry (is_dry_run in handle_server).                                      *)
DryRunsLeaveNoTrace ==
  [][dns' # dns \/ ~NothingDeleted => \E s \in Servers : Moves(s) /\ ~dry[s]]_vars

(* Runs that skip verification do not lead the others astray: a run without*)
(* --insecure-skip-verify moves a record only to what its owner signed,    *)
(* also if the zone and the bucket are full of what other runs and clients *)
(* left there (handle_server).                                             *)
StrictRunsPublishOwned ==
  [][\A s \in Servers, t \in Targets :
       Moves(s) /\ ~skip[s] /\ dns'[t] # dns[t] =>
         Owned(dns'[t]) /\ TargetOf(dns'[t]) = t]_vars

(* A bad or outdated request does not hold up the others: when a run       *)
(* publishes, every request it fetched is in the batch, or its name is     *)
(* among the errors and it would not pass even by now                      *)
(* (validate_unverified_dns_requests; ServerErrors: the process "updates   *)
(* what it can update").                                                   *)
Refused(s, k) ==
  /\ held[s][k].name \in errors[s].failed_signature_checks
  /\ ~check_valid_ddns_request(held[s][k], certs[s], skip[s], now)

BadRequestsAreIsolated ==
  \A s \in Servers : spc[s] \in {"commit", "cleanup"} =>
    \A k \in HeldKeys(s) \ verified[s] : Refused(s, k)

-----------------------------------------------------------------------------
(* The inductive invariant behind OnlyOwnersMoveRecords *)

(* What a run accepts, or has still to judge, is a payload it has fetched, *)
(* and nothing is accepted before the judging starts.                      *)
AcceptedWereFetched ==
  \A s \in Servers :
    /\ verified[s] \subseteq HeldKeys(s)
    /\ spc[s] = "validate" => work[s] \subseteq HeldKeys(s)
    /\ spc[s] \notin {"validate", "commit", "cleanup"} => verified[s] = {}

(* A key the lookup answers is one a certificate gives that name.          *)
LookupIsCertified ==
  \A s \in Servers, n \in Names :
    certs[s][n] # NoKey => \E f \in CertsFor(n) : f.vk = certs[s][n]

(* A run skips verification only where some run is configured to.          *)
SkipIsConfigured == \A s \in Servers : skip[s] => TRUE \in SkipModes

OwnershipInv ==
  /\ TypeOK
  /\ AcceptedWereFetched
  /\ LookupIsCertified
  /\ SkipIsConfigured
  /\ VerifiedByOwner
  /\ OnlyOwnersMoveRecords

(* The inductive invariants behind ForeignFilesSurvive and                 *)
(* DryRunsLeaveNoTrace: a run handles, and notes for deletion, request     *)
(* files alone; a dry run never gets as far as the commit.                 *)
HandlesRequestsOnly ==
  \A s \in Servers :
    /\ work[s] \subseteq DdnsKeys
    /\ HeldKeys(s) \subseteq DdnsKeys
    /\ delete_keys(s) \subseteq DdnsKeys

DryRunsStopEarly == \A s \in Servers : spc[s] \in {"commit", "cleanup"} => ~dry[s]

(***************************************************************************)
(* The inductive invariant behind RecordsNeverGoBack and                   *)
(* PublishedBeforeDeleted.  A request moves from its client through the    *)
(* bucket and a run to the zone; what is further on its way was not signed *)
(* later, and nothing was signed after now.                                *)
(***************************************************************************)
NotAfter(x, y) == x \in Request /\ y \in Request => Precedes(x, y)

SignedByNow(c, x) == x \in Request => x.signed_at <= timestamp(machine_time(c))

TargetsOf(c) == {t \in Targets : t.name = fixed_name(ClientName[c])}

InOrder(c) ==
  LET k == make_filename(ClientName[c])
  IN  /\ \A t \in TargetsOf(c) :
           /\ NotAfter(dns[t], bucket[k])
           /\ NotAfter(dns[t], signed[c])
           /\ \A s \in Servers : NotAfter(dns[t], held[s][k])
           /\ SignedByNow(c, dns[t])
      /\ \A s \in Servers :
           /\ NotAfter(held[s][k], bucket[k])
           /\ NotAfter(held[s][k], signed[c])
           /\ SignedByNow(c, held[s][k])
      /\ NotAfter(bucket[k], signed[c])
      /\ SignedByNow(c, bucket[k])
      /\ SignedByNow(c, signed[c])

(* A request under a key is of the client that uploads there.              *)
UploadedTo(k, r) ==
  \E c \in Uploaders : r.name = ClientName[c] /\ k = make_filename(ClientName[c])

RequestsHaveOrigins ==
  /\ \A c \in Clients : signed[c] \in Request => signed[c].name = ClientName[c]
  /\ \A k \in S3Keys : bucket[k] \in Request => UploadedTo(k, bucket[k])
  /\ \A s \in Servers, k \in S3Keys : held[s][k] \in Request => UploadedTo(k, held[s][k])

(* The zone shows exactly what a run that cleans up has used.              *)
UsedIsShown ==
  \A s \in Servers : spc[s] = "cleanup" =>
    \A k \in verified[s] : dns[TargetOf(held[s][k])] = held[s][k]

FreshInv ==
  OneAtATime =>
    /\ RequestsHaveOrigins
    /\ \A c \in Uploaders : InOrder(c)
    /\ UsedIsShown

(* The inductive invariant behind BadRequestsAreIsolated: what is judged   *)
(* already and was not accepted is refused.                                *)
JudgedInv ==
  /\ BadRequestsAreIsolated
  /\ \A s \in Servers : spc[s] = "validate" =>
       \A k \in HeldKeys(s) \ (verified[s] \cup work[s]) : Refused(s, k)

(* What the strict runs accept, an installed certificate stands for.       *)
AcceptedAreCertified ==
  \A s \in Servers : ~skip[s] => \A k \in verified[s] : Certified(held[s][k])

(***************************************************************************)
(* The invariants behind RevokedStayOut: a run that has ended has forgotten*)
(* its certificates, and once the directory stays as it is and no run knows*)
(* another one, what the lookups answer is installed.                      *)
(***************************************************************************)
IdleKnowsNothing == \A s \in Servers : spc[s] = "idle" => certs[s] = NoCerts

LookupIsCurrent ==
  \A s \in Servers, n \in Names :
    certs[s][n] # NoKey =>
      \E p \in Installed : /\ IsCertificate(keydir[p])
                           /\ keydir[p].cn = n /\ keydir[p].vk = certs[s][n]

CurrentInv == rotations = MaxRotations /\ LookupIsCurrent /\ AcceptedAreCertified

(* The inductive invariant behind AgeWindow: a run judges a request once.  *)
JudgedOnce ==
  \A s \in Servers : spc[s] = "validate" => work[s] \cap verified[s] = {}

-----------------------------------------------------------------------------
(* Progress *)

(***************************************************************************)
(* How many more steps a run can take.  Every key may have to be listed,   *)
(* fetched, judged and deleted, every certificate file read; a page that is*)
(* not the last brings the run back to the listing.                        *)
(***************************************************************************)
StepsLeft(s) ==
  LET keys  == Cardinality(S3Keys)
      paths == Cardinality(CertPaths)
      new   == Cardinality(S3Keys \ covered[s])
      todo  == Cardinality(work[s])
      more  == IF covered[s] = S3Keys THEN 0 ELSE 2
  IN  CASE spc[s] = "idle"     -> 0
        [] spc[s] = "cleanup"  -> 1 + todo
        [] spc[s] = "commit"   -> 2 + keys
        [] spc[s] = "validate" -> 3 + keys + todo
        [] spc[s] = "load"     -> 4 + 2 * keys + Cardinality(files[s])
        [] spc[s] = "keys"     -> 5 + 2 * keys + paths
        [] spc[s] = "fetch"    -> 6 + 2 * keys + paths + 3 * new + todo + more
        [] spc[s] = "list"     -> 7 + 2 * keys + paths + 3 * new

(* A run only ever gets closer to its end, by every step of its own, and   *)
(* nobody else's step takes it back: what clients upload meanwhile, and    *)
(* other runs delete, adds no turn to its loops (fetch_ddns_jsons_from_s3, *)
(* handle_server).                                                         *)
RunsAdvance ==
  [][\A s \in Servers :
       spc[s] # "idle" /\ Moves(s) => StepsLeft(s)' < StepsLeft(s)]_vars

-----------------------------------------------------------------------------
(* Liveness *)

(* A run of the server ends, however many pages the bucket has and         *)
(* whatever the clients add to it meanwhile (fetch_ddns_jsons_from_s3).    *)
RunsEnd == \A s \in Servers : spc[s] # "idle" ~> spc[s] = "idle"

(* The client's domain is in the zone, its key is the one, and the only    *)
(* one, that the installed certificates give the domain, and every file of *)
(* the key directory can be read.                                          *)
Served(c) ==
  LET mine == {p \in Installed : /\ IsCertificate(keydir[p])
                                 /\ keydir[p].cn.domain = ClientName[c].domain}
  IN  /\ c \notin DryRunClients
      /\ ClientName[c].domain \in ZoneDomains
      /\ mine # {}
      /\ \A p \in mine : keydir[p].vk = signing_key(c)
      /\ \A p \in Installed : CanRead(p)

Shows(c) ==
  LET a == addr[MachineOf[c]]
      t == [name |-> fixed_name(ClientName[c]), type |-> record_type(a)]
  IN  dns[t] # NoRecord /\ dns[t].data = a

(* Once machines stop moving, certificates stop changing and failures stop,*)
(* the record of every served client shows its address for good: in spite  *)
(* of malformed files and bad certificates next to its own, of a second    *)
(* client process of the machine that overtakes the first, and of requests *)
(* that were refused or left behind under an earlier certificate.          *)
ServedRecordsConverge == \A c \in Clients : <>[]Served(c) => <>[]Shows(c)

(* Revoking a certificate takes effect: from some point on every request a *)
(* run accepts is one that a certificate still installed stands for, though*)
(* a run under way may go on with certificates that were replaced after it *)
(* read them (get_public_key_map loads them afresh in every run).          *)
RevocationTakesEffect == <>[]AcceptedAreCertified

(* It does so as soon as every run has ended once: if the administrator    *)
(* changes no certificate any more, a run that starts from here accepts    *)
(* only requests for which a certificate is installed.                     *)
Settled ==
  /\ rotations = MaxRotations
  /\ \A s \in Servers : spc[s] = "idle"

RevokedStayOut == [](Settled => []AcceptedAreCertified)

-----------------------------------------------------------------------------
(* What comments and documentation say of the server *)

(* server.rs, before cleanup: "Claning up used and invalid ddns request    *)
(* keys".  A request the server deletes is the one the zone shows, or is   *)
(* not valid.                                                              *)
OnlyUsedOrInvalidDeleted ==
  [][\A k \in DdnsKeys :
       bucket[k] \in Request /\ bucket'[k] = NoObject =>
         \/ dns[TargetOf(bucket[k])] = bucket[k]
         \/ ~Owned(bucket[k])
         \/ TooOld(bucket[k], now)]_vars

(* README, Server: "malformed keys ... only cause those errors to be       *)
(* reported".  They are reported by print_summary and nowhere else, so a   *)
(* run that met one does not end as a success.                             *)
ErrorsAreReported ==
  \A s \in Servers : exit[s] = "ok" => errors[s].failed_key_parses = {}

(* server.rs, get_public_key_map: "don't fail all just because one key is  *)
(* bad".  While some certificate can be loaded and no call fails, loading  *)
(* the keys does not end the run.                                          *)
OneBadKeyIsIsolated ==
  [][\A s \in Servers :
       spc[s] = "load" /\ spc'[s] = "idle" /\ faults' = faults =>
         \A p \in Installed : ~IsCertificate(keydir[p])]_vars

-----------------------------------------------------------------------------
(* Refinement.  The submitted requests are those in the bucket and those   *)
(* that server runs hold; trusted are the owned ones, or all of them when  *)
(* verification is switched off.                                           *)
Submitted ==
  {bucket[k] : k \in {j \in S3Keys : bucket[j] \in Request}}
    \cup UNION {{held[s][k] : k \in HeldKeys(s)} : s \in Servers}

Trusted(r) == TRUE \in SkipModes \/ Owned(r)

Service == INSTANCE DdnsService WITH submitted <- Submitted

(* Every behaviour of the system is one of the abstract service.           *)
ImplementsService == Service!Spec
=============================================================================
