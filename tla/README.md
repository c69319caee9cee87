# dyndynser in TLA+

dyndynser keeps Route 53 records pointed at machines whose address changes.
`dyndynser client`, a cron job on each machine, stores a signed request in an S3
bucket. `dyndynser server`, a cron job near the zone, collects the requests,
checks them against the certificates it knows, sends one change batch to
Route 53 and deletes what it has used. This directory holds models of the
program and of the services around it, TLC runs that check them on small
instances, and TLAPS proofs for every instance.

There are three models, each with its own root module: the system of many
processes that meet in the bucket and the zone (`Dyndynser`), one server run
against the keys of the bucket in detail (`BucketListing`), and one process from
exec to exit (`Process`).

## Inventory

| part | source | state | operations | interacts through |
|---|---|---|---|---|
| client run | `src/client.rs` | queried address, signed request | query, sign, upload | IP check URL, bucket |
| server run | `src/server.rs` | unverified requests, certificates, verified requests, `ServerErrors` | list, fetch, load keys, validate, build changes, commit, clean up | bucket, key directory, zone |
| signed request | `src/signatures.rs`, `src/dns/mod.rs` | none (data) | sign, validate, file name, record type | written by clients, judged by the server |
| request paths, listing | `src/client.rs`, `src/server.rs` | continuation token, page | make a key, list with prefix and delimiter | bucket |
| certificate directory | `src/keys.rs`, `get_public_key_map` | `*.crt` files | read, parse, first match by CommonName | changed by the administrator, read by the server |
| key files | `src/keys.rs` | a file and its size | limited read, decode | read as root by client and server |
| S3 bucket | external (`rust-s3`) | key to object | put, get, delete, paged list | shared by all processes |
| Route 53 zone | external; `src/dns/route53` | record set to value | atomic UPSERT batch | written by server runs |
| SigV4 | `aws_signature.rs` | none | sign a request | recomputed by Route 53 |
| credentials | `src/config.rs` | none | from arguments or environment | S3, Route 53 |
| configuration, names, command line | `src/config.rs`, `src/cli` | none | parse, trim | made once per process |
| privileges | `src/unix.rs` | process identity | drop, verify | kernel, user database |
| ip command | `src/ip.rs`, `main.rs` | none | query, force a family | IP check URL |
| logging, packaging | `src/logging.rs`, `packaging/` | none | | |

What is hard here: nothing is locked. Clients, the server and other runs of the
server interleave at every call; S3 deletes by key whatever is there by then; a
listing is no snapshot; any process may be killed and any response lost; a
batch is accepted or refused as a whole; clocks differ; certificates change
while they are read; the process has root for a while, and the order of its
calls decides whether it gets rid of it. `PROJECT.json` lists each hazard at its
line with the properties that address it.

What makes the parts correct:

* server: only owners move records; nothing is deleted as used before it is
  published; failures of one request, key or call stay isolated; every run ends;
  a revoked certificate stops counting;
* client: eventually the record shows the machine's address;
* requests: accepted within their age, refused beyond it, in spite of drift;
* listing: what lies in the directory is fetched, once, and nothing else deleted;
* process: it gives up root before it publishes, reads with a bound, fails only
  for a reason, and what it sends authenticates and says what was meant.

## Modules

| module | models |
|---|---|
| `Requests` | data and pure operators: `sign`, `timestamp`, `make_filename`, `fixed_name`, `TargetOf`, `validate`, `check_valid_ddns_request` |
| `KeyDirectory` | the certificate files and the administrator who changes them |
| `Cloud` | the bucket, the zone, the clock, the budget of failures (external, modelled from the calls the code makes) |
| `Client` | one action per step of `handle_client` |
| `Server` | one action per service call, file, loop turn or early return of `handle_server` |
| `DdnsService` | abstract specification: submitted requests, a zone that changes only by publishing trusted ones atomically |
| `Dyndynser` | the composition of the above, fairness, all its properties, the refinement mapping |
| `BucketListing` | object keys as paths, `list_page` with prefix, delimiter and token, cleanup by listed key |
| `DomainNames` | `trimmed_string`, `DomainName::parse`, and a reference definition of a host name |
| `Privileges` | the calls of `maybe_drop_privileges` and the kernel's rules for them |
| `Route53Request` | credentials, path, XML body, SigV4, and how the service reads them |
| `Process` | `main`, the three configurations, key files, and the three commands around the modules above |
| `MCDyndynser`, `MCBucketListing`, `MCProcess` | constant definitions for TLC |
| `DyndynserProofs` | proofs: types, ownership of requests and records |
| `FreshnessProofs` | proofs: the order of requests on their way to the zone |
| `RunProofs` | proofs about single runs next to others: what moves the zone, what is deleted, ages, bad requests, revocation, progress |
| `RefinementProofs` | proof that `Dyndynser` implements `DdnsService` |
| `ListingProofs` | proofs about `BucketListing` |
| `DomainProofs` | proof that `DomainName::parse` is exact |
| `WireProofs` | proof of what the service reads of what `xml_escape` wrote |
| `ProcessProofs` | proofs about `Process`, using `DomainProofs` and `WireProofs` |

### The system (`Dyndynser`)

State. `bucket` is the bucket; `dns` maps a record set (name with its dot, type) to
the request that set it. In `Server`, `covered` stands for the continuation token
(the key space earlier pages went through), `work` for what the current loop has
left, `held` for `unverified_requests` (by S3 key), `certs` for what
`.find(common_name == name)` answers, `verified` for `verified_ddns_requests`,
`errors` for `ServerErrors`, `exit` for the process result. In `Client`, `queried`
and `signed` are the local `ip` and `signed_json_bytes`; `addr` is the machine's
real address; several client processes may run on one machine. In `KeyDirectory`,
`keydir` maps a path to a certificate, a garbled file, an unreadable file or none.

Actions. Server: `ServerStart` (configuration), `ServerListPage` (`list_page` and
the extension filter), `ServerFetch` and `ServerFetchFails` (`get_object`, parse),
`ServerNextPage`, `ServerFetched` (the return on an empty list, the choice made by
`insecure_skip_verify`), `ServerReadDir` (which files there are), `ServerReadKey`
(one file: unreadable ends the run, garbled is noted, a certificate is learnt
unless its name is taken; a file that has vanished since ends the run too),
`ServerKeysLoaded` (the return on no certificate), `ServerValidate`,
`ServerBuildChanges` (the returns on no verified request and on dry run),
`ServerCommit`, `ServerCommitRefused`, `ServerCommitLost`, `ServerDelete`,
`ServerDeleteFails`, `ServerFinish` (`print_summary`), `ServerCallFails` (a `?`),
`ServerKilled`. Client: `ClientQueryIp`, `ClientSign`, `ClientPut`, `ClientDryRun`,
`ClientAbort`. Surroundings: `MachineMoves`, `KeysRotate`, `Clock`.

Abstractions. A signature is the key it verifies under. A name is a domain with
or without trailing dot. TTL, JSON and hex are left out. A page of a listing may
hold any keys not passed yet: S3's key order is one of the choices here and
exact in `BucketListing`. Time is in ticks, `Second` of them per second, because
`sign` cuts its stamp to whole seconds while the age check reads the full clock.
If a batch names a record set twice the model allows both a refusal and either
change to win. Upload of a request and the exit of the client are one step:
whether the response arrives has no effect. `read_dir` has no order, so the files
are read in any.

### The listing (`BucketListing`)

A path is a sequence of tokens: slashes, names, the extension. `ddns_json_path` is
the client's `format!`, `ObjectPath` the leading slash that rust-s3 removes from
object paths but not from prefixes, `Entry` and `EntriesAfter` are S3's roll-up and
token, `IsPage` its page size. `page` is a set, looked at in the order of its keys.
`Start`, `ListPage`, `Fetch`, `NextPage`, `Judge`, `Delete` and `Finish` are the run;
`Upload` and `UsedByOther` are clients and other runs. `steady` is a history
variable: what has been in the bucket ever since the run began.

### The process (`Process`)

`args` and `host` are the invocation: command line with environment, identity,
user database, key file, credentials, clock. `pc` goes through the phases in the
order of the code: boot (`init_global_loggers`, clap), config, for a client the key file
(`ReadMetadata`, `OpenFile`, `ReadToEnd` of `read_file_limited`), the drop, loading the
key, query and upload; for a server credentials, fetch, the certificate
directory, the drop, signing and posting the batch. `FileGrows` is somebody who is
still writing the file, `Tick` the time a request is under way, `CallFails` any
failure from outside. The drop is `DropStart`, `setgroups`, `setresgid`, `setresuid`,
`DropVerify`, `DropEscalate` of `Privileges`; each may be refused.

A text is a sequence of characters, one per kind the code tells apart; "blank"
and "other" stand for white space and for everything that is never allowed.
`ProcessAssumption` says what a set-up is: `None` and `Rejected` are no texts, a key file
has a length, a format and a key and is at most partly written, the clock is in
its bounds, and an executable runs as its caller or as root. The zone of a
server is an id in one of the three spellings that `change_resource_record_sets`
accepts (`HostedZone`; blanks around it are gone by `trimmed_string`), and its
requests are any sequence of record sets (`ResourceRecordSet`) whose names are
texts over `NameChars`: letters, dots, what XML marks up, whole entities, a line feed,
a carriage return, and "control" for the characters that XML has no place for.
`WellFormed` and `ReadText` are the service's XML reader: it refuses a bare ampersand
or angle bracket and a control character, replaces entities, and reads a carriage
return, alone or before a line feed, as a line feed. The checks of the files'
permissions are those of opening them; to look at a size takes only the directory,
which may be as closed as the files or not.

Hashes are free constructors: two are equal only if what was hashed is. What the
server finds in the bucket, and which requests pass, is a choice here and the
subject of `Dyndynser`. One file stands for all certificates of the directory;
that the server goes on after one that does not parse is in `Server`.

The operators marked "Mutant" are small faults of the definition that follows
them. Nothing refers to them; put in that definition's place, each makes TLC
report the property `PROJECT.json` names for it.

## Runs

Deadlock is checked everywhere; an ended `Process` stutters (`Ended`).

| run | instance | result |
|---|---|---|
| `core` | 2 machines (the second signs with the first one's key), IPv4 and IPv6, 1 move, 1 failure, pages of 2, `MaxAge` 0, 2 instants, a foreign file, malformed files | `TypeOK`, `OnlyOwnersMoveRecords`, `PublishedBeforeDeleted`, `ForeignFilesSurvive`, `RecordsNeverGoBack` hold |
| `overlap` | fair; 2 overlapping server runs, a machine that moves once, a request under a wrong key for its name; a foreign file, pages of 1, 1 failure | `ImplementsService`, `RunsAdvance`, `ServedRecordsConverge` hold: the system implements `DdnsService`, every step of a run leaves it fewer, and the record ends right |
| `converge` | fair; 2 overlapping client processes of one machine, 1 move, 1 change of the key directory at any moment, 1 failure, malformed files, a request under a wrong key, a garbled certificate, pages of 1 | `RunsEnd`, `ServedRecordsConverge`, `RevocationTakesEffect`, `RevokedStayOut` hold |
| `modes` | dry and insecure runs next to strict ones, a machine with the all-zero key, two names for one record set that meet in one batch, one name with two certificates; ticks of half a second, tolerance 1 s, a clock behind by the largest tolerable amount, 6 instants | `VerifiedByOwner`, `BadRequestsAreIsolated`, `StrictRunsPublishOwned`, `DryRunsLeaveNoTrace`, `AgeWindow`, `ImplementsService` hold |
| `listing` | 4 spellings of a directory for client and server, 2 requests, an archive in a subdirectory, a note, a request outside, pages of 1 | `TypeOK`, `NothingFetchedTwice`, `MatchedRequestsAreFetched`, `StaysInItsDirectory` hold |
| `process` | every combination of one aspect at a time around a healthy client, server and ip invocation: texts as domains, identities and user databases, key files, sizes, credentials, wire data, ip flags | `TypeOK`, `DomainsAreHostNames`, `BuffersAreBounded`, `RootIsGone`, `MustBeRootIsTrue`, `ErrorsHaveACause`, `SuccessIsEarned`, `RequestsAuthenticate`, `ChangesArriveIntact` hold |
| `shared_directory` | as `listing` | `SharedDirectoryIsServed` is violated |
| `delete_race` | no failure | `OnlyUsedOrInvalidDeleted` is violated |
| `unfetched_deleted` | 1 failure | `OnlyUsedOrInvalidDeleted` is violated |
| `silent_key_errors` | a garbled certificate | `ErrorsAreReported` is violated |
| `one_bad_key` | an oversized certificate file | `OneBadKeyIsIsolated` is violated |
| `poisoned_batch` | fair; a certified domain outside the zone | `ServedRecordsConverge` is violated |

The last six are disagreements between the code and what its comments, its help
texts or the repository's README say; `PROJECT.json` quotes the lines under
"findings".

Bounds. One failure suffices for each way a run can be cut short, and the next
run meets what it left. Two names with pages of two, plus a foreign file, give
listings of more than one page while keys are added and deleted; with pages of
one (`listing`) whole pages hold nothing but a rolled-up subdirectory. With
`MaxAge` 0 a request expires within the two instants of `core`; in `modes` the
clock runs past the whole acceptance window. One rotation in `converge` can fall
between any two steps of a run; one move in `overlap` lets a run hold a request that
the other run has superseded. Moves, failures, rotations and instants are bounded by
`MaxMoves`, `MaxFaults`, `MaxRotations` and `MaxNow`. In `process` the limits
of a name, a label and a file shrink to 4, 3 and 3, so that texts and files
reach below, at and past each: every text of up to 4 characters of 7 kinds and
of 5 of 4 kinds. A day has 2 clock units and a request is under way for at most one,
so midnight falls before, in and after it (`MaxClock` bounds the clock).

Fairness. Both programs are started by cron again and again, and a process
that is not killed goes on: weak fairness of each client's steps, of starting a
server run and of its steps. Failures, moves and rotations are not fair and
finitely many, the meaning of "once they stop". The clock is not fair either;
`converge` and `overlap` are checked at one instant, that is, for runs that are short
compared with `--max-signed-at-time-ago`.

`RecordsNeverGoBack` and `PublishedBeforeDeleted` are about one server run at a
time, one uploading client per record name and a bucket without requests from
before; `OneAtATime` says so in both, and `core` satisfies it. Overlapping
runs can publish an older request after a newer one. `ImplementsService` says what
is left of the promise then, and `ServedRecordsConverge` that the record ends right
all the same: in `overlap` after an older request was committed over a newer one, in
`converge` after a client was overtaken by an older process of its own machine.

Behaviour the models show that no property calls wrong:

* `xml_escape` passes control characters on, and names come unchecked from the
  requests: Route 53 refuses the whole batch for a name with a character that XML
  has no place for (`BadNames`, one of the causes of `ErrorsHaveACause`), and a
  carriage return in a name arrives as a line feed. `ChangesArriveIntact` is about
  names without these;
* a client whose name has the trailing dot never matches a certificate without
  it, and the other way round: names are compared as strings;
* a key password is trimmed like every argument, so one with blanks around it
  never decrypts its key (`ErrorsHaveACause` counts it as a wrong set-up);
* clap fills the key arguments from `AWS_ACCESS_KEY_ID` and
  `AWS_SECRET_ACCESS_KEY`, and credentials given as arguments carry no token: a
  token in the environment is lost, and temporary credentials are refused;
* `client --insecure-skip-verify` never drops its privileges (it reads no key);
* a server that may not list the certificate directory reports a plain error,
  not "must be root", which only a file gives.

## Proofs

All proofs are for arbitrary constants under the named assumptions
`RequestsAssumption`, `KeyDirectoryAssumption`, `CloudAssumption`, `ClientAssumption`,
`ServerAssumption`; `BucketListingAssumption`; `NameAssumption`, `PrivilegesAssumption`,
`Route53Assumption`, `ProcessAssumption`. `BucketIsFinite` and `DirectoryIsFinite` (keys and
paths are strings of bounded length, so there are finitely many) are used where
steps are counted, and nowhere else. TLC evaluates all of them in the runs.
Every invariant and every action property that a passing run checks is a
theorem, the refinement too; what is left is liveness.

### The system

`OwnershipInvariant` is the central one. `OnlyOwnersMoveRecords` is not
inductive: a commit publishes what the run verified, so the run must have
verified only owned requests (`VerifiedByOwner`); that rests on the certificate
lookup answering only certified keys, file by file while the directory changes
(`LookupIsCertified`, by `LearnCertified`), and on the verified keys being ones
whose payload is held and is not replaced after its check
(`AcceptedWereFetched`, needed for `TypeOK` too, since a batch must consist of
requests). `SkipIsConfigured` ties a run's flag to the configuration. The proof has
one step per action; a run's end is treated once (`ExitType`, and the first
steps of `RunStep`). From it follow `TypeCorrect`, `RunsAcceptOnlyOwners` and
`ZoneBelongsToOwners`.

What single runs promise in a mixed fleet rests on two lemmas. `OthersStand`: a
step of one run leaves the variables of every other as they are. `ChangesAreByRuns`:
whoever changes the zone or deletes a file is a run, in its commit or its
cleanup, and its own state moves with it (`Moves`). So each of the following is
about the one run that moves. `StrictRunsAreTrusted`: a run that does not skip
verification writes only what it has verified, by `OwnershipInvariant` a request
of the name's owner, whatever the runs and clients that skip it put into bucket
and zone. `DryRunsAreDry` follows from `DryRunsStopEarly`: a run in its commit or
cleanup is not dry. `ForeignFilesAreSafe` strengthens its invariant by
`HandlesRequestsOnly`: a run works on, holds and notes for deletion request keys
only.

`FreshInvariant` is behind `RecordsStayFresh` and `DeletedAfterPublished`. Neither
property is inductive: a commit may only move a record forward because what a
run holds was signed no earlier than what the zone shows. So the invariant
follows a request on its way from the client through the bucket and a run to the
zone: `InOrder` says that at each stage nothing is newer than at the stage before,
and nothing signed later than the machine's clock (`SignedByNow`, from the
arithmetic of `timestamp`, which cuts to whole seconds and is monotone).
`RequestsHaveOrigins` keeps stages of different names apart: a key of the bucket
belongs to one uploading client. `UsedIsShown` says that a run that cleans up sees
its own batch in the zone. Retries after a lost response or a failed deletion
are steps like the others: they find the older request in the bucket only as
long as the order still holds.

`AgeIsJudgedInTime`: a run judges each request once (`JudgedOnce`), so whether the
key is among the verified ones afterwards is what `validate` answered;
`AgeArithmetic` compares the two clocks and the cut stamp.

`BadRequestsHoldNothingUp`: when a run publishes, what it holds and leaves out has
been judged, reported, and would be refused again. It is not inductive, because
the loop ends with its last request; `JudgedInv` says the same of the requests behind
the loop while it runs. A refusal stays right as time passes (`RefusedForGood`): a
lookup and a flag do not change during the run and a request only gets older
(`TimeGoesOn`). The steps of the run itself are `JudgedStep`, those of all others leave
it alone (`JudgedStays`).

`RevocationIsComplete`: what a run has learnt it forgets with its end
(`IdleKnowsNothing`). From a moment at which no run is under way and the directory
no longer changes, `CurrentInv` holds and is kept: a lookup answers a certificate
that is installed now (`LookupIsCurrent`), therefore what strict runs accept from
then on is signed under one (`AcceptedAreCertified`). That such a moment is
followed by it needs no fairness; `RevocationTakesEffect`, which says that it comes
about by itself, does.

`RunsAlwaysAdvance` is the argument why a run ends, without the fairness that
makes it go on: `StepsLeft` is a natural number, zero only for an ended run
(`RunsAreBounded`), and each step of the run lowers it. A page counts its new keys
three times (to fetch, judge and delete), because it shows only keys no earlier
page went through; a call that fails, an early return and a kill end the run.
No step of anybody else occurs in it: uploads of clients lengthen no loop. A
listing is never without a next page (`PageExists`).

`SystemImplementsService` is the refinement of `DdnsService` under the mapping
`submitted <- Submitted` (the requests stored in the bucket or held by a run). Every
step is matched: a client's upload is a `Revise` that adds its request, a commit is a
`Publish` of submitted and trusted requests (`CommitPublishes`, from the ownership
invariant), and every other step is a `Revise` that only shrinks `Submitted`, or a
stutter.

### The listing

`ListingInvariant` has four parts. `PlaceInv`: types, and what is empty where.
`OnceInv`: what has been seen lies at or before the continuation token, so a page,
which lies behind it, cannot show it again; that needs the order of keys to be
transitive and irreflexive (`BeforeIsTransitive`, `NotBeforeItself`). `ServedInv`: a
request that stays in the bucket has been fetched, is on the page, or lies behind
the token; what a page leaves out lies behind its last entry (`PageFacts`), also if
everything on it is rolled up. `OwnInv`: only keys directly in the directory are
ever on a page, and only request files are kept. Around these are lemmas about
paths: `RequestKeysAreKeys` and `MatchedRequestsAreListed` say what the client's
`format!` makes of each spelling of a directory.

### The process

`ParseIsExact` says for every text and all limits what `DomainName::parse` computes:
the trimmed lower-case text if that is a host name, a rejection otherwise. The
code splits at dots and judges labels; the reference definition speaks about
positions. The proof relates the two by the cells between consecutive cuts
(`CellAround`, `LabelsAreCells`). Each cell is found as a least or greatest cut,
which the well-foundedness of the naturals provides, so no induction is needed.

`EscapeIsRead` says for every text what becomes of it: escaped, it is well formed
exactly if it has no control character, and the service's `ReadText` gives it back
exactly if it has no carriage return. Both are concatenations of as many pieces as the text has
characters. The proof replaces the escape by its layout: the positions at which
each character's piece starts, one or two behind the one before
(`EscapeHasLayout`, where partial concatenations are built up to every length:
`PartialExists`, `FlattenIsPartial`). Induction is over a set of numbers: what
contains 0 and with each number the next one has all of them (`UpTo`). In the layout an ampersand starts a piece and
an entity name follows it, so nothing is bare and reading each piece gives one
character (`LayoutIsRead`), the one it was made of unless that is a carriage return.

`ProcessInvariant` combines what a process keeps true at each of its phases:
which subcommand gets there and reads keys (`FlowInv`), the domain (`DomainInv`, from
`ParseIsExact`), how much of the file was read (`SizeInv`), key and address (`KeyInv`),
credentials S3 has accepted (`CredsInv`), the signed message (`MessageInv`), how far
the drop is (`IInv`) and why it may have failed (`DropCause`: no permitted call fails
by itself, so the user was missing or was root). From it follow
`ProcessTypeCorrect`, `ClientDomainIsHostName`, `FailuresAreExplained` (whichever step
ends badly, the invariant names the cause, and causes do not go away),
`SuccessMeansDone`, `SignedInTimeIsAccepted` (`AuthenticatesInTime`: scope, token
and signed headers are those the service recomputes) and `ChangesArrive`, for names
without control characters and carriage returns (`BodyIsRead` from `EscapeIsRead`, with
`FixedNames`: the final dot adds none; `ZonePathIsZone` for the three spellings).

`PublishedUnprivileged` needs to know what each call of the drop has left of the
identity the process was started with (`DropInv`: first the groups are gone, then
the group ids, then the user ids, and at the end root cannot be regained), and
that the phases of the process in which it publishes come after the drop
(`PhaseInv`). `RootWouldHelp` uses the same invariant: before the drop the process
still has its starting identity, so a refused read was refused to that.
`ReadsAreLimited` says that the buffer is within the limit whatever the size of
the file was when it was checked: beside the bound its invariant needs only that
sizes are natural numbers.

### Only model-checked

* `RunsEnd`, `ServedRecordsConverge`, `RevocationTakesEffect`: liveness under fairness is
  out of the prover's reach, with everything that needs `ENABLED`. The safety
  arguments below two of them are proved: `RunsAdvance` with its bound for `RunsEnd`,
  `RevokedStayOut` for `RevocationTakesEffect`.
* that `BucketListing` always has a page (deadlock is checked by the run `listing`):
  the first entries of a finite ordered set. The proofs show what every page has
  on it.

## Not modelled

* JSON, hex, X.509, PEM and OpenSSH decoding: a verdict per file or object. It is
  sequential, done by libraries, and its failure is one of the modelled errors.
* The id and status read from Route 53's response: they are only printed.
* Levels, fan-out and formatting of log lines, clap's usage texts: no state.
* `signed_at + max_time_ago` past the end of `DateTime` (server.rs:75) panics; only
  a correctly signed request gets there, and time is bounded in the model.
* An executable that is setuid to a user other than root (`Executed`).
* `packaging/`: scripts of the distribution, not part of the program.
