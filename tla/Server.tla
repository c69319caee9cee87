------------------------------- MODULE Server -------------------------------
(***************************************************************************)
(* `dyndynser server' (handle_server, src/server.rs): a cron job that      *)
(* lists the bucket, fetches every request, validates each against the     *)
(* known certificates, sends one change batch to Route 53 and then deletes *)
(* what it used or could not read.  Nothing is locked: a run may overlap   *)
(* the clients and another run of the server, and nothing but the bucket   *)
(* and the zone survives it.  Every call to a service is a step of its own.*)
(***************************************************************************)
EXTENDS Cloud, KeyDirectory

CONSTANTS
  Servers,     \* server runs that may overlap
  DryModes,    \* the values of --dry-run the runs use
  SkipModes    \* the values of --insecure-skip-verify the runs use

VARIABLES
  spc,       \* where the run is
  dry, skip, \* its flags
  covered,   \* the key space its listing has passed (continuation_token)
  work,      \* keys the current loop has still to fetch, validate or delete
  held,      \* unverified_requests: key -> the payload fetched from it
  files,     \* certificate files get_public_key_map has still to read
  certs,     \* domain_certs, as the lookup answers it
  verified,  \* keys of verified_ddns_requests
  errors,    \* ServerErrors
  exit       \* how the last run ended

serverVars ==
  <<spc, dry, skip, covered, work, held, files, certs, verified, errors, exit>>

ASSUME ServerAssumption ==
  /\ DryModes \subseteq BOOLEAN
  /\ SkipModes \subseteq BOOLEAN

Phases == {"idle", "list", "fetch", "keys", "load", "validate", "commit", "cleanup"}

(* ServerErrors; the sets stand for the vectors of (subject, error) pairs. *)
ServerErrors ==
  [failed_s3_fetches       : SUBSET S3Keys,
   failed_json_parses      : SUBSET S3Keys,
   failed_key_parses       : SUBSET CertPaths,
   failed_signature_checks : SUBSET Names,
   failed_s3_deletions     : SUBSET S3Keys]

NoErrors ==
  [failed_s3_fetches       |-> {},
   failed_json_parses      |-> {},
   failed_key_parses       |-> {},
   failed_signature_checks |-> {},
   failed_s3_deletions     |-> {}]

(* The pushes onto the vectors. *)
FetchFailed(e, k)    == [e EXCEPT !.failed_s3_fetches = @ \cup {k}]
ParseFailed(e, k)    == [e EXCEPT !.failed_json_parses = @ \cup {k}]
KeyFailed(e, p)      == [e EXCEPT !.failed_key_parses = @ \cup {p}]
CheckFailed(e, name) == [e EXCEPT !.failed_signature_checks = @ \cup {name}]
DeleteFailed(e, k)   == [e EXCEPT !.failed_s3_deletions = @ \cup {k}]

has_errors(e) ==
  \/ e.failed_s3_fetches # {}
  \/ e.failed_json_parses # {}
  \/ e.failed_key_parses # {}
  \/ e.failed_signature_checks # {}
  \/ e.failed_s3_deletions # {}

NothingHeld == [k \in S3Keys |-> NoObject]

ServerTypeOK ==
  /\ spc \in [Servers -> Phases]
  /\ dry \in [Servers -> BOOLEAN]
  /\ skip \in [Servers -> BOOLEAN]
  /\ covered \in [Servers -> SUBSET S3Keys]
  /\ work \in [Servers -> SUBSET S3Keys]
  /\ held \in [Servers -> [S3Keys -> Request \cup {NoObject}]]
  /\ files \in [Servers -> SUBSET CertPaths]
  /\ certs \in [Servers -> [Names -> Keys \cup {NoKey}]]
  /\ verified \in [Servers -> SUBSET S3Keys]
  /\ errors \in [Servers -> ServerErrors]
  /\ exit \in [Servers -> {"none", "ok", "err", "killed"}]

ServerInit ==
  /\ spc = [s \in Servers |-> "idle"]
  /\ dry = [s \in Servers |-> FALSE]
  /\ skip = [s \in Servers |-> FALSE]
  /\ covered = [s \in Servers |-> {}]
  /\ work = [s \in Servers |-> {}]
  /\ held = [s \in Servers |-> NothingHeld]
  /\ files = [s \in Servers |-> {}]
  /\ certs = [s \in Servers |-> NoCerts]
  /\ verified = [s \in Servers |-> {}]
  /\ errors = [s \in Servers |-> NoErrors]
  /\ exit = [s \in Servers |-> "none"]

(* The keys whose payloads the run holds. *)
HeldKeys(s) == {k \in S3Keys : held[s][k] # NoObject}

(* Mutant: the certificates are cached from one run to the next. *)
CertsCached(s, status) ==
  /\ spc' = [spc EXCEPT ![s] = "idle"]
  /\ exit' = [exit EXCEPT ![s] = status]
  /\ dry' = [dry EXCEPT ![s] = FALSE]
  /\ skip' = [skip EXCEPT ![s] = FALSE]
  /\ covered' = [covered EXCEPT ![s] = {}]
  /\ work' = [work EXCEPT ![s] = {}]
  /\ held' = [held EXCEPT ![s] = NothingHeld]
  /\ files' = [files EXCEPT ![s] = {}]
  /\ verified' = [verified EXCEPT ![s] = {}]
  /\ UNCHANGED certs

(* Mutant: the requests are. *)
RequestsCached(s, status) ==
  /\ spc' = [spc EXCEPT ![s] = "idle"]
  /\ exit' = [exit EXCEPT ![s] = status]
  /\ dry' = [dry EXCEPT ![s] = FALSE]
  /\ skip' = [skip EXCEPT ![s] = FALSE]
  /\ covered' = [covered EXCEPT ![s] = {}]
  /\ work' = [work EXCEPT ![s] = {}]
  /\ files' = [files EXCEPT ![s] = {}]
  /\ certs' = [certs EXCEPT ![s] = NoCerts]
  /\ verified' = [verified EXCEPT ![s] = {}]
  /\ UNCHANGED held

(* The process ends and its memory with it; `errors' stays for the record. *)
Exit(s, status) ==
  /\ spc' = [spc EXCEPT ![s] = "idle"]
  /\ exit' = [exit EXCEPT ![s] = status]
  /\ dry' = [dry EXCEPT ![s] = FALSE]
  /\ skip' = [skip EXCEPT ![s] = FALSE]
  /\ covered' = [covered EXCEPT ![s] = {}]
  /\ work' = [work EXCEPT ![s] = {}]
  /\ held' = [held EXCEPT ![s] = NothingHeld]
  /\ files' = [files EXCEPT ![s] = {}]
  /\ certs' = [certs EXCEPT ![s] = NoCerts]
  /\ verified' = [verified EXCEPT ![s] = {}]

Goto(s, phase) == spc' = [spc EXCEPT ![s] = phase]

-----------------------------------------------------------------------------
(* Step 1: fetch the unverified requests *)

ServerStart(s) ==
  /\ spc[s] = "idle"
  /\ Goto(s, "list")
  /\ \E d \in DryModes, i \in SkipModes :
       /\ dry' = [dry EXCEPT ![s] = d]
       /\ skip' = [skip EXCEPT ![s] = i]
  /\ errors' = [errors EXCEPT ![s] = NoErrors]
  /\ exit' = [exit EXCEPT ![s] = "none"]
  /\ UNCHANGED <<covered, work, held, files, certs, verified, cloudVars>>

(* Mutants: the extension is not checked; the token is not passed on. *)
EveryFileIsARequest(s) ==
  /\ spc[s] = "list"
  /\ \E range \in SUBSET (S3Keys \ covered[s]) :
       /\ IsPage(range, covered[s])
       /\ covered' = [covered EXCEPT ![s] = @ \cup range]
       /\ work' = [work EXCEPT ![s] = range \cap Present]
  /\ Goto(s, "fetch")
  /\ UNCHANGED <<dry, skip, held, files, certs, verified, errors, exit, cloudVars>>

TokenForgotten(s) ==
  /\ spc[s] = "list"
  /\ \E range \in SUBSET S3Keys :
       /\ IsPage(range, {})
       /\ covered' = [covered EXCEPT ![s] = range]
       /\ work' = [work EXCEPT ![s] =
                     {k \in range \cap Present : k.ext = DDNS_JSON_FILE_EXT}]
  /\ Goto(s, "fetch")
  /\ UNCHANGED <<dry, skip, held, files, certs, verified, errors, exit, cloudVars>>

(* One page is listed; only its .ddns.json keys are looked at. *)
ServerListPage(s) ==
  /\ spc[s] = "list"
  /\ \E range \in SUBSET (S3Keys \ covered[s]) :
       /\ IsPage(range, covered[s])
       /\ covered' = [covered EXCEPT ![s] = @ \cup range]
       /\ work' = [work EXCEPT ![s] =
                     {k \in range \cap Present : k.ext = DDNS_JSON_FILE_EXT}]
  /\ Goto(s, "fetch")
  /\ UNCHANGED <<dry, skip, held, files, certs, verified, errors, exit, cloudVars>>

(* Mutant: whatever the object contains is taken for a request. *)
FetchedUnparsed(s, k) ==
  /\ spc[s] = "fetch"
  /\ k \in work[s]
  /\ work' = [work EXCEPT ![s] = @ \ {k}]
  /\ held' = [held EXCEPT ![s][k] = bucket[k]]
  /\ UNCHANGED <<spc, dry, skip, covered, files, certs, verified, errors, exit>>
  /\ UNCHANGED cloudVars

(* The payload is held, or it does not parse, or the object is gone (404). *)
ServerFetch(s, k) ==
  /\ spc[s] = "fetch"
  /\ k \in work[s]
  /\ work' = [work EXCEPT ![s] = @ \ {k}]
  /\ \/ /\ bucket[k] \in Request
        /\ held' = [held EXCEPT ![s][k] = bucket[k]]
        /\ UNCHANGED errors
     \/ /\ bucket[k] = Malformed
        /\ errors' = [errors EXCEPT ![s] = ParseFailed(@, k)]
        /\ UNCHANGED held
     \/ /\ bucket[k] = NoObject
        /\ errors' = [errors EXCEPT ![s] = FetchFailed(@, k)]
        /\ UNCHANGED held
  /\ UNCHANGED <<spc, dry, skip, covered, files, certs, verified, exit, cloudVars>>

ServerFetchFails(s, k) ==
  /\ spc[s] = "fetch"
  /\ k \in work[s]
  /\ Fault
  /\ work' = [work EXCEPT ![s] = @ \ {k}]
  /\ errors' = [errors EXCEPT ![s] = FetchFailed(@, k)]
  /\ UNCHANGED <<spc, dry, skip, covered, held, files, certs, verified, exit>>
  /\ UNCHANGED <<bucket, dns, now>>

(* The page is done and has a continuation token: list the next one. *)
ServerNextPage(s) ==
  /\ spc[s] = "fetch"
  /\ work[s] = {}
  /\ covered[s] # S3Keys
  /\ Goto(s, "list")
  /\ UNCHANGED <<dry, skip, covered, work, held, files, certs, verified, errors, exit>>
  /\ UNCHANGED cloudVars

(* Every page is done: a run without a request ends, the others go on.  No *)
(* certificate is loaded under --insecure-skip-verify.                     *)
ServerFetched(s) ==
  /\ spc[s] = "fetch"
  /\ work[s] = {}
  /\ covered[s] = S3Keys
  /\ \/ /\ HeldKeys(s) = {}
        /\ Exit(s, "ok")
     \/ /\ HeldKeys(s) # {}
        /\ IF skip[s] THEN /\ Goto(s, "validate")
                           /\ work' = [work EXCEPT ![s] = HeldKeys(s)]
           ELSE Goto(s, "keys") /\ UNCHANGED work
        /\ UNCHANGED <<dry, skip, covered, held, files, certs, verified, exit>>
  /\ UNCHANGED <<errors, cloudVars>>

-----------------------------------------------------------------------------
(* Step 2: validate the requests *)

(* get_public_key_map opens the directory ... *)
ServerReadDir(s) ==
  /\ spc[s] = "keys"
  /\ Goto(s, "load")
  /\ files' = [files EXCEPT ![s] = Installed]
  /\ UNCHANGED <<dry, skip, covered, work, held, certs, verified, errors, exit>>
  /\ UNCHANGED cloudVars

(* The vector grows; its lookup answers the first certificate of a name.   *)
Learn(m, f) == IF m[f.cn] = NoKey THEN [m EXCEPT ![f.cn] = f.vk] ELSE m

(* ... and reads its files, in an order the code does not choose.  One that*)
(* is gone by then, or cannot be read, ends the whole run.                 *)
ServerReadKey(s, p) ==
  /\ spc[s] = "load"
  /\ p \in files[s]
  /\ \/ /\ ~CanRead(p)
        /\ Exit(s, "err")
        /\ UNCHANGED errors
     \/ /\ CanRead(p)
        /\ files' = [files EXCEPT ![s] = @ \ {p}]
        /\ \/ /\ IsCertificate(keydir[p])
              /\ certs' = [certs EXCEPT ![s] = Learn(@, keydir[p])]
              /\ UNCHANGED errors
           \/ /\ ~IsCertificate(keydir[p])
              /\ errors' = [errors EXCEPT ![s] = KeyFailed(@, p)]
              /\ UNCHANGED certs
        /\ UNCHANGED <<spc, dry, skip, covered, work, held, verified, exit>>
  /\ UNCHANGED cloudVars

(* A run without a certificate ends, as a success. *)
ServerKeysLoaded(s) ==
  /\ spc[s] = "load"
  /\ files[s] = {}
  /\ \/ /\ certs[s] = NoCerts
        /\ Exit(s, "ok")
     \/ /\ certs[s] # NoCerts
        /\ Goto(s, "validate")
        /\ work' = [work EXCEPT ![s] = HeldKeys(s)]
        /\ UNCHANGED <<dry, skip, covered, held, files, certs, verified, exit>>
  /\ UNCHANGED <<errors, cloudVars>>

(* Mutants: a bad request is kept, or ends the run; a good one ends the loop. *)
BadRequestKept(s, k) ==
  /\ spc[s] = "validate"
  /\ k \in work[s]
  /\ work' = [work EXCEPT ![s] = @ \ {k}]
  /\ verified' = [verified EXCEPT ![s] = @ \cup {k}]
  /\ UNCHANGED <<spc, dry, skip, covered, held, files, certs, errors, exit, cloudVars>>

BadRequestEndsRun(s, k) ==
  /\ spc[s] = "validate"
  /\ k \in work[s]
  /\ \/ /\ check_valid_ddns_request(held[s][k], certs[s], skip[s], now)
        /\ work' = [work EXCEPT ![s] = @ \ {k}]
        /\ verified' = [verified EXCEPT ![s] = @ \cup {k}]
        /\ UNCHANGED <<spc, dry, skip, covered, held, files, certs, exit>>
     \/ /\ ~check_valid_ddns_request(held[s][k], certs[s], skip[s], now)
        /\ Exit(s, "err")
  /\ UNCHANGED <<errors, cloudVars>>

FirstAcceptedOnly(s, k) ==
  /\ spc[s] = "validate"
  /\ k \in work[s]
  /\ \/ /\ check_valid_ddns_request(held[s][k], certs[s], skip[s], now)
        /\ work' = [work EXCEPT ![s] = {}]
        /\ verified' = [verified EXCEPT ![s] = @ \cup {k}]
        /\ UNCHANGED errors
     \/ /\ ~check_valid_ddns_request(held[s][k], certs[s], skip[s], now)
        /\ work' = [work EXCEPT ![s] = @ \ {k}]
        /\ errors' = [errors EXCEPT ![s] = CheckFailed(@, held[s][k].name)]
        /\ UNCHANGED verified
  /\ UNCHANGED <<spc, dry, skip, covered, held, files, certs, exit, cloudVars>>

(* One turn of validate_unverified_dns_requests, against the current time. *)
ServerValidate(s, k) ==
  /\ spc[s] = "validate"
  /\ k \in work[s]
  /\ work' = [work EXCEPT ![s] = @ \ {k}]
  /\ \/ /\ check_valid_ddns_request(held[s][k], certs[s], skip[s], now)
        /\ verified' = [verified EXCEPT ![s] = @ \cup {k}]
        /\ UNCHANGED errors
     \/ /\ ~check_valid_ddns_request(held[s][k], certs[s], skip[s], now)
        /\ errors' = [errors EXCEPT ![s] = CheckFailed(@, held[s][k].name)]
        /\ UNCHANGED verified
  /\ UNCHANGED <<spc, dry, skip, covered, held, files, certs, exit, cloudVars>>

-----------------------------------------------------------------------------
(* Step 3: build the changes, commit them, clean up *)

(* Mutant: --dry-run is not looked at. *)
DryRunForgotten(s) ==
  /\ spc[s] = "validate"
  /\ work[s] = {}
  /\ \/ /\ verified[s] = {}
        /\ Exit(s, "ok")
     \/ /\ verified[s] # {}
        /\ Goto(s, "commit")
        /\ UNCHANGED <<dry, skip, covered, work, held, files, certs, verified, exit>>
  /\ UNCHANGED <<errors, cloudVars>>

(* Privileges are dropped; a run without verified requests, or dry, ends. *)
ServerBuildChanges(s) ==
  /\ spc[s] = "validate"
  /\ work[s] = {}
  /\ \/ /\ verified[s] = {} \/ dry[s]
        /\ Exit(s, "ok")
     \/ /\ verified[s] # {} /\ ~dry[s]
        /\ Goto(s, "commit")
        /\ UNCHANGED <<dry, skip, covered, work, held, files, certs, verified, exit>>
  /\ UNCHANGED <<errors, cloudVars>>

(* Mutant: changes are kept by record set, and a second request for one     *)
(* overwrites all but the name of the first.                               *)
KeptByRecordSet(s) ==
  LET requests == {held[s][k] : k \in verified[s]}
  IN  {[pair[2] EXCEPT !.name = pair[1].name] :
         pair \in {p \in requests \X requests : TargetOf(p[1]) = TargetOf(p[2])}}

(* build_changes: one UPSERT per verified request. *)
Changes(s) == {held[s][k] : k \in verified[s]}

(* Used requests, and the keys that could not be fetched or parsed. *)
delete_keys(s) ==
  verified[s] \cup errors[s].failed_s3_fetches \cup errors[s].failed_json_parses

ServerCommit(s) ==
  /\ spc[s] = "commit"
  /\ UpsertAll(Changes(s))
  /\ Goto(s, "cleanup")
  /\ work' = [work EXCEPT ![s] = delete_keys(s)]
  /\ UNCHANGED <<dry, skip, covered, held, files, certs, verified, errors, exit>>
  /\ UNCHANGED <<bucket, now, faults>>

(* Route 53 refuses the batch: the run ends and nothing is deleted. *)
ServerCommitRefused(s) ==
  /\ spc[s] = "commit"
  /\ ~InZone(Changes(s)) \/ Conflicting(Changes(s))
  /\ Exit(s, "err")
  /\ UNCHANGED <<errors, cloudVars>>

(* Mutant: DELETE and CREATE instead of UPSERT, and the second one is lost. *)
ReplacedInTwoSteps(s) ==
  /\ spc[s] = "commit"
  /\ Fault
  /\ dns' = [t \in Targets |->
               IF \E r \in Changes(s) : TargetOf(r) = t THEN NoRecord ELSE dns[t]]
  /\ Exit(s, "err")
  /\ UNCHANGED <<errors, bucket, now>>

(* The response is lost after the batch was applied. *)
ServerCommitLost(s) ==
  /\ spc[s] = "commit"
  /\ Fault
  /\ UpsertAll(Changes(s))
  /\ Exit(s, "err")
  /\ UNCHANGED <<errors, bucket, now>>

ServerDelete(s, k) ==
  /\ spc[s] = "cleanup"
  /\ k \in work[s]
  /\ DeleteObject(k)
  /\ work' = [work EXCEPT ![s] = @ \ {k}]
  /\ UNCHANGED <<spc, dry, skip, covered, held, files, certs, verified, errors, exit>>
  /\ UNCHANGED <<dns, now, faults>>

(* The deletion is reported as failed; it may have taken effect. *)
ServerDeleteFails(s, k) ==
  /\ spc[s] = "cleanup"
  /\ k \in work[s]
  /\ Fault
  /\ DeleteObject(k) \/ UNCHANGED bucket
  /\ work' = [work EXCEPT ![s] = @ \ {k}]
  /\ errors' = [errors EXCEPT ![s] = DeleteFailed(@, k)]
  /\ UNCHANGED <<spc, dry, skip, covered, held, files, certs, verified, exit>>
  /\ UNCHANGED <<dns, now>>

(* print_summary decides the exit status. *)
ServerFinish(s) ==
  /\ spc[s] = "cleanup"
  /\ work[s] = {}
  /\ Exit(s, IF has_errors(errors[s]) THEN "err" ELSE "ok")
  /\ UNCHANGED <<errors, cloudVars>>

-----------------------------------------------------------------------------
(* Failures *)

(* Mutant: the run goes on to the cleanup after a failed commit. *)
CommitErrorIgnored(s) ==
  /\ spc[s] = "commit"
  /\ Fault
  /\ Goto(s, "cleanup")
  /\ work' = [work EXCEPT ![s] = delete_keys(s)]
  /\ UNCHANGED <<dry, skip, covered, held, files, certs, verified, errors, exit>>
  /\ UNCHANGED <<bucket, dns, now>>

(***************************************************************************)
(* A call fails with `?' and ends the run: listing a page, reading the key *)
(* directory or a file of it, dropping privileges, a Route 53 request that *)
(* was not applied.                                                        *)
(***************************************************************************)
ServerCallFails(s) ==
  /\ \/ spc[s] \in {"list", "keys", "commit"}
     \/ spc[s] = "load" /\ files[s] # {}
     \/ spc[s] = "validate" /\ work[s] = {}
  /\ Fault
  /\ Exit(s, "err")
  /\ UNCHANGED <<errors, bucket, dns, now>>

(* The process is killed between two calls. *)
ServerKilled(s) ==
  /\ spc[s] # "idle"
  /\ Fault
  /\ Exit(s, "killed")
  /\ UNCHANGED <<errors, bucket, dns, now>>

ServerStep(s) ==
  \/ ServerListPage(s)
  \/ \E k \in S3Keys : ServerFetch(s, k)
  \/ ServerNextPage(s)
  \/ ServerFetched(s)
  \/ ServerReadDir(s)
  \/ \E p \in CertPaths : ServerReadKey(s, p)
  \/ ServerKeysLoaded(s)
  \/ \E k \in S3Keys : ServerValidate(s, k)
  \/ ServerBuildChanges(s)
  \/ ServerCommit(s)
  \/ ServerCommitRefused(s)
  \/ \E k \in S3Keys : ServerDelete(s, k)
  \/ ServerFinish(s)

ServerFault(s) ==
  \/ \E k \in S3Keys : ServerFetchFails(s, k)
  \/ ServerCommitLost(s)
  \/ \E k \in S3Keys : ServerDeleteFails(s, k)
  \/ ServerCallFails(s)
  \/ ServerKilled(s)
=============================================================================
