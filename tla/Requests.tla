------------------------------ MODULE Requests ------------------------------
(***************************************************************************)
(* The signed DDNS request that a client builds and the server judges:     *)
(* src/dns/mod.rs, src/signatures.rs, src/keys.rs and the pure part of     *)
(* src/server.rs (validate, check_valid_ddns_request, the name fix-up of   *)
(* build_changes).                                                         *)
(*                                                                         *)
(* Data is kept only as far as the code tells it apart.  A DNS name is a   *)
(* domain with or without its trailing dot; an address is a model value of *)
(* one of the two families; an Ed25519 signature is the key it verifies    *)
(* under.  TTL, JSON layout and hex encoding never influence control.      *)
(***************************************************************************)
EXTENDS Integers, FiniteSets

CONSTANTS
  Domains,      \* domains, as labels without a trailing dot
  Names,        \* the names clients and certificates use
  SigningKeys,  \* Ed25519 key pairs held by clients
  DummyKey,     \* the all-zero key of --insecure-skip-verify
  NoKey,        \* "no certificate carries this CommonName"
  IPv4Addrs, IPv6Addrs,
  Second,       \* ticks of the clock per second
  MaxAge,       \* --max-signed-at-time-ago, in ticks
  Tolerance     \* the clock-drift tolerance, 15 s in the code, in ticks

Addrs == IPv4Addrs \cup IPv6Addrs
Keys  == SigningKeys \cup {DummyKey}

(***************************************************************************)
(* A file of the key directory.  "garbled": not a PEM certificate with an  *)
(* Ed25519 key and a CommonName.  "unreadable": read_file_limited refuses  *)
(* it (too large, or not permitted).                                       *)
(***************************************************************************)
CertFile == [kind : {"cert", "garbled", "unreadable"},
             cn   : Names, vk : SigningKeys]

ASSUME RequestsAssumption ==
  /\ Names \subseteq [domain : Domains, dot : BOOLEAN]
  /\ NoKey \notin Keys
  /\ DummyKey \notin SigningKeys
  /\ IPv4Addrs \cap IPv6Addrs = {}
  /\ Second \in Nat \ {0}
  /\ MaxAge \in Nat
  /\ Tolerance \in Nat

-----------------------------------------------------------------------------
(* Records *)

RecordTypes == {"A", "AAAA"}

record_type(addr) == IF addr \in IPv4Addrs THEN "A" ELSE "AAAA"

(* SignedPayload<ResourceRecordSet>: envelope and signature together. *)
Request == [name : Names, data : Addrs, signed_at : Int, signer : Keys]

(* DateTime::timestamp: an instant is cut down to its whole second. *)
timestamp(time) == Second * (time \div Second)

sign(name, addr, time, key) ==
  [name |-> name, data |-> addr, signed_at |-> timestamp(time), signer |-> key]

DDNS_JSON_FILE_EXT == ".ddns.json"

make_filename(name) == [stem |-> name, ext |-> DDNS_JSON_FILE_EXT]

(* build_changes appends the trailing dot to a name that lacks it. *)
fixed_name(name) == [name EXCEPT !.dot = TRUE]

(* The record set an UPSERT of the request replaces. *)
TargetOf(r) == [name |-> fixed_name(r.name), type |-> record_type(r.data)]

Targets == {[name |-> fixed_name(n), type |-> t] : n \in Names, t \in RecordTypes}

-----------------------------------------------------------------------------
(* Certificates *)

(* read_file_limited succeeds *)
Readable(f) == f.kind # "unreadable"

(* load_ed25519_certificate_pem succeeds *)
IsCertificate(f) == f.kind = "cert"

NoCerts == [n \in Names |-> NoKey]

-----------------------------------------------------------------------------
(* Validation *)

verify_strict(vk, r) == r.signer = vk

(* Mutant: no allowance for drift. *)
ToleranceForgotten(r, time) == r.signed_at + MaxAge < time

(* Too old: the signing time, its allowance and the drift tolerance passed. *)
TooOld(r, time) == r.signed_at + MaxAge + Tolerance < time

validate(r, vk, skip, time) ==
  skip \/ (verify_strict(vk, r) /\ ~TooOld(r, time))

(* Mutants: the signature is not looked at; the dummy key always passes. *)
AgeCheckOnly(r, certs, skip, time) ==
  skip \/ (certs[r.name] # NoKey /\ ~TooOld(r, time))

DummyKeyPasses(r, certs, skip, time) ==
  \/ skip
  \/ r.signer = DummyKey
  \/ certs[r.name] # NoKey /\ validate(r, certs[r.name], skip, time)

check_valid_ddns_request(r, certs, skip, time) ==
  IF skip THEN validate(r, DummyKey, skip, time)
  ELSE /\ certs[r.name] # NoKey
       /\ verify_strict(certs[r.name], r)
       /\ validate(r, certs[r.name], skip, time)
=============================================================================
