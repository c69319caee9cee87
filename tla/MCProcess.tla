------------------------------ MODULE MCProcess -----------------------------
(***************************************************************************)
(* Process for TLC: a healthy client, server and ip invocation, and in     *)
(* each slice every combination of one aspect around them.                 *)
(***************************************************************************)
EXTENDS Process, TLC

RunBy(u, e, gs) ==
  [ruid |-> u, euid |-> e, suid |-> e, rgid |-> u, egid |-> e, sgid |-> e, groups |-> gs]

Root       == RunBy(0, 0, {0})
SetuidRoot == RunBy(5, 0, {5})
Plain      == RunBy(5, 5, {5})
Service    == RunBy(7, 7, {})

Account(u) == [uid |-> u, gid |-> u]

GoodPasswd == ("dyndynser" :> Account(7)) @@ ("nobody" :> Account(9))

MCPasswds ==
  {("dyndynser" :> d) @@ ("nobody" :> n) :
     d \in {Account(7), Account(0), NoUser, LookupError},
     n \in {Account(9), NoUser, LookupError}}

Permanent == [access |-> "AKIA", secret |-> "s1", token |-> None]
Temporary == [access |-> "ASIA", secret |-> "s2", token |-> "t2"]
MCAwsKeys == {Permanent, Temporary}

Creds(k, security, session) ==
  [access_key |-> k.access, secret_key |-> k.secret,
   security_token |-> security, session_token |-> session]

KeyFile ==
  [owner |-> 0, group |-> 7, mode |-> "group", length |-> 2, key |-> "own",
   format |-> "openssh", algorithm |-> "ed25519", password |-> None]

Change(name, type) == [name |-> name, type |-> type, ttl |-> 300, value |-> "addr"]

Args ==
  [cmd |-> "client", domain |-> <<"a", ".", "a">>, insecure |-> FALSE, dry |-> FALSE,
   password |-> None, user |-> "dyndynser", access_key |-> "AKIA", secret_key |-> "s1",
   zone |-> <<"Z1">>, requests |-> <<Change(<<"a">>, "A")>>, public |-> TRUE,
   force_ipv4 |-> FALSE, force_ipv6 |-> FALSE]

Host ==
  [syslog |-> TRUE, ident |-> Root, passwd |-> GoodPasswd, file |-> KeyFile, size |-> 2,
   default |-> None, address |-> "v4", clock |-> 0]

(* Only the client has a domain. *)
For(cmd) == [Args EXCEPT !.cmd = cmd, !.domain = IF cmd = "client" THEN @ ELSE None]

(* Every text up to the longest name, and longer ones of four characters. *)
Texts ==
  UNION {[1..i -> Chars] : i \in 0..MaxName} \cup [1..(MaxName + 1) -> {"a", "-", ".", "blank"}]

(* Every text as a domain. *)
DomainSetups ==
  {[args |-> [Args EXCEPT !.domain = d, !.insecure = TRUE, !.dry = TRUE], host |-> Host] :
     d \in Texts}

(* Who runs it, who owns the keys, whom it becomes. *)
IdentitySetups ==
  {[args |-> [For(c) EXCEPT !.insecure = i],
    host |-> [Host EXCEPT !.ident = id, !.passwd = p, !.file.mode = m, !.file.owner = o]] :
     c \in {"client", "server"}, i \in BOOLEAN,
     id \in {Root, SetuidRoot, Plain, Service}, p \in MCPasswds,
     m \in {"owner", "group", "world"}, o \in {0, 5}}

Passwords == {None, <<>>, <<"a">>, <<"blank", "a">>, <<"A">>}

(* Private keys of every kind. *)
KeySetups ==
  {[args |-> [Args EXCEPT !.password = g],
    host |-> [Host EXCEPT !.file =
       [KeyFile EXCEPT !.format = f, !.algorithm = a,
                       !.password = IF f = "openssh" THEN p ELSE None]]] :
     g \in Passwords, p \in Passwords,
     f \in {"openssh", "openssl", "other"}, a \in {"ed25519", "rsa"}}

(* Small and large key files, complete or still being written. *)
SizeSetups ==
  {[args |-> For(c), host |-> [Host EXCEPT !.size = n, !.file.length = l]] :
     c \in {"client", "server"}, l \in 2..(FILE_SIZE_MAX_BYTES + 2), n \in {0, 2}}

MCNameChars == {"a", ".", "&", "<", "'", "amp;", "lt;", "control", "cr", "lf"}

RecordNames == UNION {[1..i -> MCNameChars] : i \in 0..2}

(* Credentials from the arguments or the environment, zones, record names. *)
AwsSetups ==
  {[args |-> [For(c) EXCEPT !.dry = d, !.access_key = id, !.secret_key = s],
    host |-> [Host EXCEPT !.default = k, !.syslog = l]] :
     c \in {"client", "server"}, d \in BOOLEAN, id \in {None, "AKIA", "ASIA"},
     s \in {None, "s1", "s2"}, l \in BOOLEAN,
     k \in {None, Creds(Permanent, None, None), Creds(Temporary, "t2", None),
            Creds(Temporary, None, "t2"), Creds(Temporary, "t2", "t2"),
            Creds(Temporary, "t0", "t2"), Creds(Temporary, None, None),
            [Creds(Permanent, None, None) EXCEPT !.secret_key = None]}}

WireSetups ==
  {[args |-> [For("server") EXCEPT !.zone = z, !.access_key = None,
                !.requests = <<Change(n, "A"), Change(<<"a">>, "AAAA")>>],
    host |-> [Host EXCEPT !.default = Creds(Temporary, "t2", None), !.clock = t]] :
     z \in {<<"Z1">>, <<"/hostedzone/", "Z1">>, <<"hostedzone/", "Z1">>},
     n \in RecordNames, t \in 0..(Day - 1)}

IpSetups ==
  {[args |-> [For("ip") EXCEPT !.public = p, !.force_ipv4 = v4, !.force_ipv6 = v6],
    host |-> [Host EXCEPT !.address = a, !.ident = id]] :
     p \in BOOLEAN, v4 \in BOOLEAN, v6 \in BOOLEAN, a \in {"v4", "v6"},
     id \in {Root, Plain}}

MCSetups ==
  DomainSetups \cup IdentitySetups \cup KeySetups \cup SizeSetups
  \cup AwsSetups \cup WireSetups \cup IpSetups
=============================================================================
