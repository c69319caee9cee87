--------------------------- MODULE Route53Request ---------------------------
(***************************************************************************)
(* What the server puts on the wire for Route 53: the credentials it uses  *)
(* (src/config.rs), the path and the XML body                              *)
(* (src/dns/route53/aws_route53.rs) and the SigV4 headers                  *)
(* (src/dns/route53/aws_signature.rs); and how the service reads it.       *)
(* Hashes are free constructors: two are equal only if what was hashed is. *)
(***************************************************************************)
EXTENDS Naturals, Sequences, FiniteSetsExt
LOCAL INSTANCE SequencesExt

CONSTANTS
  None,       \* an Option without a value
  Day,        \* clock units per day
  MaxDelay,   \* how old a request may be when the service gets it
  Timeout,    \* how long the HTTP client waits
  AwsKeys,    \* the credentials AWS issued: [access, secret, token]
  NameChars   \* what the names in requests are made of

ASSUME Route53Assumption ==
  /\ Day \in Nat \ {0}
  /\ MaxDelay \in Nat
  /\ Timeout \in 0..MaxDelay

-----------------------------------------------------------------------------
(* Credentials *)

(* The two arguments, or else what Credentials::default finds. *)
get_s3_credentials(id, secret, default) ==
  IF id # None /\ secret # None
  THEN [access_key |-> id, secret_key |-> secret,
        security_token |-> None, session_token |-> None]
  ELSE default

(* from_s3_credentials: rust-s3 may keep the token in either field. *)
session_token(creds) ==
  IF creds.security_token # None THEN creds.security_token ELSE creds.session_token

-----------------------------------------------------------------------------
(* Path and body *)

(* The spellings of a hosted zone that change_resource_record_sets accepts. *)
HostedZone(z) ==
  \E prefix \in {<<>>, <<"/hostedzone/">>, <<"hostedzone/">>} :
    /\ z = Append(prefix, z[Len(z)])
    /\ z[Len(z)] \notin {"/hostedzone/", "hostedzone/"}

(* Every leading t goes. *)
trim_start_matches(s, t) ==
  LET kept == {i \in 1..Len(s) : s[i] # t}
  IN  IF kept = {} THEN <<>> ELSE SubSeq(s, Min(kept), Len(s))

ZonePath(hosted_zone_id) ==
  trim_start_matches(trim_start_matches(hosted_zone_id, "/hostedzone/"), "hostedzone/")

(* The predefined entities, without their ampersands. *)
Entity(c) ==
  CASE c = "&" -> "amp;"
    [] c = "<" -> "lt;"
    [] c = ">" -> "gt;"
    [] c = "\"" -> "quot;"
    [] c = "'" -> "apos;"

Special == {"&", "<", ">", "\"", "'"}

Entities == {Entity(c) : c \in Special}

(* Mutant: ampersands are taken for the start of an entity and kept. *)
AmpersandKept(s) ==
  FlattenSeq([i \in 1..Len(s) |->
    IF s[i] \in Special \ {"&"} THEN <<"&", Entity(s[i])>> ELSE <<s[i]>>])

xml_escape(s) ==
  FlattenSeq([i \in 1..Len(s) |->
    IF s[i] \in Special THEN <<"&", Entity(s[i])>> ELSE <<s[i]>>])

ResourceRecordSet ==
  [name : Seq(NameChars), type : {"A", "AAAA"}, ttl : Nat, value : STRING]

(* build_changes: Route 53 wants the final dot. *)
ends_with(s, c) == s # <<>> /\ s[Len(s)] = c

fixed_name(name) == IF ends_with(name, ".") THEN name ELSE Append(name, ".")

build_changes(requests) ==
  [i \in 1..Len(requests) |-> [requests[i] EXCEPT !.name = fixed_name(@)]]

(* One Change element per change; only the name can need escaping. *)
build_change_xml(changes) ==
  [i \in 1..Len(changes) |-> [changes[i] EXCEPT !.name = xml_escape(@)]]

-----------------------------------------------------------------------------
(* Signature *)

sha256_hex(data) == <<"sha256", data>>
hmac_sha256(key, data) == <<"hmac", key, data>>

DateOf(t) == t \div Day

(* Mutant: the clock is read again for the date. *)
ReadAgain(t) == DateOf(t + 1)

(* The date of the scope and of the signing key. *)
scope_date(t) == DateOf(t)

(* The headers that are signed; the token only if there is one. *)
hdrs(body, token, t) ==
  LET value == [content_type |-> "application/xml", host |-> "route53.amazonaws.com",
                content_sha256 |-> sha256_hex(body), date |-> t, security_token |-> token]
  IN  [h \in DOMAIN value \ (IF token = None THEN {"security_token"} ELSE {}) |-> value[h]]

canonical_request(path, headers, payload_hash) ==
  <<"POST", path, "", headers, DOMAIN headers, payload_hash>>

credential_scope(date) == <<date, "us-east-1", "route53">>

k_signing(secret_key, scope) ==
  hmac_sha256(hmac_sha256(hmac_sha256(hmac_sha256(<<"AWS4", secret_key>>, scope[1]),
                                      scope[2]), scope[3]), "aws4_request")

string_to_sign(t, scope, request) == <<t, scope, sha256_hex(request)>>

(* aws_sigv4_headers; t is its one reading of the clock. *)
aws_sigv4_headers(path, body, creds, t) ==
  LET signed == hdrs(body, session_token(creds), t)
      scope  == credential_scope(scope_date(t))
  IN  [headers        |-> signed,
       credential     |-> creds.access_key,
       scope          |-> scope,
       signed_headers |-> DOMAIN signed,
       signature      |-> hmac_sha256(k_signing(creds.secret_key, scope),
                            string_to_sign(t, scope,
                              canonical_request(path, signed, sha256_hex(body))))]

-----------------------------------------------------------------------------
(* The service (external) *)

(* AWS issued these credentials, and they have the token that goes with    *)
(* them, in either field, and no other.                                    *)
Issued(creds) ==
  /\ creds # None
  /\ \E k \in AwsKeys :
       /\ creds.access_key = k.access
       /\ creds.secret_key = k.secret
       /\ {creds.security_token, creds.session_token} \ {None} = {k.token} \ {None}

TokenOf(auth) ==
  IF "security_token" \in auth.signed_headers THEN auth.headers.security_token ELSE None

(* The signature is recomputed from what arrived at time t. *)
Authenticates(path, body, auth, t) ==
  \E k \in AwsKeys :
    /\ k.access = auth.credential
    /\ k.token = TokenOf(auth)
    /\ {"host", "date"} \subseteq auth.signed_headers
    /\ t <= auth.headers.date + MaxDelay
    /\ auth.scope = <<DateOf(auth.headers.date), "us-east-1", "route53">>
    /\ auth.headers.content_sha256 = sha256_hex(body)
    /\ auth.signature =
         hmac_sha256(k_signing(k.secret, auth.scope),
           string_to_sign(auth.headers.date, auth.scope,
             canonical_request(path, [h \in auth.signed_headers |-> auth.headers[h]],
                               sha256_hex(body))))

Character(e) == CHOOSE c \in Special : Entity(c) = e

(***************************************************************************)
(* Character data of an XML 1.0 document.  Bare < and & are errors, and so *)
(* is "control", which stands for every character that XML has no place    *)
(* for: the C0 controls but tab, line feed and carriage return, and U+FFFE *)
(* and U+FFFF.                                                             *)
(***************************************************************************)
Bare(s, i) == s[i] = "<" \/ (s[i] = "&" /\ (i = Len(s) \/ s[i + 1] \notin Entities))

WellFormed(s) == \A i \in 1..Len(s) : s[i] # "control" /\ ~Bare(s, i)

(* Entities are read; carriage returns are, alone or with a line feed, line*)
(* ends like any other.                                                    *)
ReadCharacter(s, i) ==
  LET named == i > 1 /\ s[i - 1] = "&"
      crlf  == i < Len(s) /\ s[i] = "cr" /\ s[i + 1] = "lf"
  IN  IF s[i] = "&" \/ crlf THEN <<>>
      ELSE IF named THEN <<Character(s[i])>>
      ELSE IF s[i] = "cr" THEN <<"lf">> ELSE <<s[i]>>

ReadText(s) == FlattenSeq([i \in 1..Len(s) |-> ReadCharacter(s, i)])

(* The document parses, and what is in it. *)
Parses(body) == \A i \in 1..Len(body) : WellFormed(body[i].name)

ReadBody(body) ==
  [i \in 1..Len(body) |-> [body[i] EXCEPT !.name = ReadText(@)]]
=============================================================================
