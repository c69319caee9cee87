-------------------------------- MODULE Cloud -------------------------------
(***************************************************************************)
(* The two AWS services the program talks to, and the clock.  They are not *)
(* part of the repository; they are modelled from the calls src/client.rs, *)
(* src/server.rs and src/dns/route53 make.  The S3 bucket is a map from    *)
(* keys to objects without versions: put replaces, delete is by key alone. *)
(* Route 53 applies a change batch as a whole or refuses it as a whole.    *)
(* The keys are those of the directory in which clients and server agree;  *)
(* how a directory becomes a prefix is the subject of BucketListing.       *)
(***************************************************************************)
EXTENDS Requests

CONSTANTS
  ForeignKeys,  \* keys in the directory that do not end in .ddns.json
  NoObject,     \* nothing is stored under the key
  Malformed,    \* bytes that do not deserialize into a SignedPayload
  NoRecord,     \* the record set does not exist
  InitialBuckets, \* what earlier clients and releases may have left behind
  ZoneDomains,  \* the domains of the hosted zone
  PageSize,     \* keys per page of a bucket listing
  MaxNow,       \* bound: the last instant of the clock
  MaxFaults     \* bound: failures of the services, and killed processes

VARIABLES
  bucket,       \* S3: key -> object
  dns,          \* Route 53: record set -> the request that last set it
  now,          \* the wall clock of the server
  faults        \* failures so far

cloudVars == <<bucket, dns, now, faults>>

DdnsKeys == {make_filename(n) : n \in Names}
S3Keys   == DdnsKeys \cup ForeignKeys
Objects  == Request \cup {Malformed, NoObject}

ASSUME CloudAssumption ==
  /\ ForeignKeys \cap DdnsKeys = {}
  /\ \A k \in ForeignKeys : k.ext # DDNS_JSON_FILE_EXT
  /\ {NoObject, Malformed, NoRecord} \cap Request = {}
  /\ NoObject # Malformed
  /\ InitialBuckets \subseteq [S3Keys -> Objects]
  /\ \A b \in InitialBuckets, k \in ForeignKeys : b[k] = Malformed
  /\ ZoneDomains \subseteq Domains
  /\ PageSize \in Nat \ {0}
  /\ MaxNow \in Nat
  /\ MaxFaults \in Nat

ASSUME BucketIsFinite == IsFiniteSet(S3Keys)

CloudTypeOK ==
  /\ bucket \in [S3Keys -> Objects]
  /\ dns \in [Targets -> Request \cup {NoRecord}]
  /\ now \in 0..MaxNow
  /\ faults \in 0..MaxFaults

(***************************************************************************)
(* Files without the request extension are there from the start; a request *)
(* key may still hold a file in the format of an earlier release, or a     *)
(* request that no run could use.                                          *)
(***************************************************************************)
CloudInit ==
  /\ bucket \in InitialBuckets
  /\ dns = [t \in Targets |-> NoRecord]
  /\ now = 0
  /\ faults = 0

-----------------------------------------------------------------------------
(* S3 *)

Present == {k \in S3Keys : bucket[k] # NoObject}

PutObject(k, obj) == bucket' = [bucket EXCEPT ![k] = obj]

DeleteObject(k) == bucket' = [bucket EXCEPT ![k] = NoObject]

(***************************************************************************)
(* One page of list_page: `range' is the part of the key space the page    *)
(* covers, beyond what earlier pages of the run covered.  A page that is   *)
(* not the last leaves present keys for the next one; it may list fewer    *)
(* than PageSize, because rolled-up subdirectories count as well.          *)
(***************************************************************************)
IsPage(range, before) ==
  LET listed == range \cap Present
      rest   == Present \ (before \cup range)
  IN  /\ Cardinality(listed) <= PageSize
      /\ IF rest = {} THEN range = S3Keys \ before ELSE range # {}

-----------------------------------------------------------------------------
(* Route 53 *)

(* Every change is for a name of the hosted zone. *)
InZone(batch) == \A r \in batch : r.name.domain \in ZoneDomains

(* No record set is changed twice. *)
Conflicting(batch) ==
  \E r1, r2 \in batch : r1 # r2 /\ TargetOf(r1) = TargetOf(r2)

(***************************************************************************)
(* The zone after an accepted batch of UPSERTs.  If a record set occurs    *)
(* twice in the batch the service may refuse it, or one change wins.       *)
(***************************************************************************)
UpsertAll(batch) ==
  /\ InZone(batch)
  /\ \E win \in SUBSET batch :
       /\ ~Conflicting(win)
       /\ {TargetOf(r) : r \in win} = {TargetOf(r) : r \in batch}
       /\ dns' = [t \in Targets |->
                    IF \E r \in win : TargetOf(r) = t
                    THEN CHOOSE r \in win : TargetOf(r) = t
                    ELSE dns[t]]

-----------------------------------------------------------------------------
(* Time and failures *)

Tick ==
  /\ now < MaxNow
  /\ now' = now + 1
  /\ UNCHANGED <<bucket, dns, faults>>

(* A service call fails, or a process is killed. *)
Fault ==
  /\ faults < MaxFaults
  /\ faults' = faults + 1
=============================================================================
