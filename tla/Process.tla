------------------------------- MODULE Process ------------------------------
(***************************************************************************)
(* One dyndynser process from exec to exit (src/main.rs): the arguments,   *)
(* the configuration made of them, the key files it reads as root, the     *)
(* privileges it drops, the key it loads, and the one message that leaves  *)
(* it: an upload (client), a change batch (server) or an address (ip).     *)
(* What the server finds in the bucket is left to module Server; here it   *)
(* is a choice.                                                            *)
(***************************************************************************)
EXTENDS DomainNames, Privileges, Route53Request

CONSTANTS
  Setups,               \* invocations: the arguments and the machine
  FILE_SIZE_MAX_BYTES,
  MaxClock              \* bound: the last moment of a run

VARIABLES
  args, host,  \* the command line with its environment, and the machine
  pc, status,  \* where the process is, how it ended
  mem,         \* what it has parsed, read and loaded
  size,        \* current size of the file being read
  message,     \* the signed Route 53 request
  out,         \* what had an effect outside
  clock,
  mishap       \* a call to the outside failed

procVars == <<args, host, pc, status, mem, size, message, out, clock, mishap>>
vars == <<procVars, privVars>>

Text == Seq(Chars)

dummy_ed25519_private_key == "dummy"

(* The arguments, with what the environment supplies, as clap holds them:  *)
(* those that are only passed on are left out.                             *)
AwsArgs(a) ==
  /\ a.dry \in BOOLEAN /\ a.insecure \in BOOLEAN
  /\ a.user \in UserNames
  /\ {"access_key", "secret_key"} \subseteq DOMAIN a

ClientArgs(a) ==
  /\ a.cmd = "client" /\ AwsArgs(a)
  /\ a.domain \in Text
  /\ a.password \in Text \cup {None}

ServerArgs(a) ==
  /\ a.cmd = "server" /\ AwsArgs(a)
  /\ a.domain = None /\ a.password = None
  /\ HostedZone(a.zone)
  /\ a.requests \in Seq(ResourceRecordSet)

IPArgs(a) ==
  /\ a.cmd = "ip"
  /\ a.domain = None /\ a.password = None
  /\ a.public \in BOOLEAN /\ a.force_ipv4 \in BOOLEAN /\ a.force_ipv6 \in BOOLEAN

ASSUME ProcessAssumption ==
  /\ FILE_SIZE_MAX_BYTES \in Nat
  /\ MaxClock \in Nat
  /\ None \notin Text \cup {"v4", "v6", dummy_ed25519_private_key}
  /\ Rejected \notin Text
  /\ \A s \in Setups :
       /\ ClientArgs(s.args) \/ ServerArgs(s.args) \/ IPArgs(s.args)
       /\ s.host.file.length \in Nat
       /\ s.host.file.format \in {"openssh", "openssl", "other"}
       /\ s.host.file.key # None
       /\ s.host.size \in 0..s.host.file.length
       /\ s.host.clock \in 0..MaxClock
       /\ s.host.address \in {"v4", "v6"}
       /\ s.host.ident \in Identity /\ Executed(s.host.ident)
       /\ s.host.passwd \in Passwds

Init ==
  /\ \E s \in Setups : args = s.args /\ host = s.host
  /\ pc = "boot" /\ status = "running"
  /\ mem = [domain |-> None, buffer |-> 0, key |-> None, address |-> None, creds |-> None]
  /\ size = host.size
  /\ message = None /\ out = None
  /\ clock = host.clock
  /\ mishap = FALSE
  /\ ident = host.ident /\ passwd = host.passwd
  /\ dpc = "before" /\ user = NoUser

Goto(phase) == pc' = phase /\ UNCHANGED status
End(s) == pc' = "end" /\ status' = s

-----------------------------------------------------------------------------
(* main and the configuration *)

Accepted(text) == text = None \/ trimmed_string(text) # Rejected

(* Without syslog there is no process; then clap checks the arguments. *)
Boot ==
  /\ pc = "boot"
  /\ IF host.syslog /\ Accepted(args.domain) /\ Accepted(args.password)
     THEN Goto("config")
     ELSE End("err")
  /\ UNCHANGED <<args, host, mem, size, message, out, clock, mishap, privVars>>

ParseClientConfig ==
  /\ pc = "config" /\ args.cmd = "client"
  /\ LET domain == ParseDomain(trimmed_string(args.domain))
     IN  IF domain = Rejected
         THEN End("err") /\ UNCHANGED mem
         ELSE /\ Goto(IF args.insecure THEN "dummy" ELSE "stat")
              /\ mem' = [mem EXCEPT !.domain = domain]
  /\ UNCHANGED <<args, host, size, message, out, clock, mishap, privVars>>

ParseServerConfig ==
  /\ pc = "config" /\ args.cmd = "server"
  /\ Goto("credentials")
  /\ UNCHANGED <<args, host, mem, size, message, out, clock, mishap, privVars>>

ParseIpConfig ==
  /\ pc = "config" /\ args.cmd = "ip"
  /\ IF args.force_ipv4 /\ args.force_ipv6 THEN End("err")
     ELSE IF args.public THEN Goto("query") ELSE End("ok")
  /\ UNCHANGED <<args, host, mem, size, message, out, clock, mishap, privVars>>

-----------------------------------------------------------------------------
(* Reading a key file *)

(* The files belong to one user and one group. *)
MayReadKeys(i) ==
  \/ i.euid \in {0, host.file.owner}
  \/ host.file.mode = "group" /\ host.file.group \in i.groups \cup {i.egid}
  \/ host.file.mode = "world"

(* What becomes of EACCES and EPERM. *)
or_must_be_root == End("must_be_root")

(* Someone is still writing the file. *)
FileGrows ==
  /\ pc \in {"stat", "open", "read"}
  /\ size < host.file.length
  /\ size' = size + 1
  /\ UNCHANGED <<args, host, pc, status, mem, message, out, clock, mishap, privVars>>

(* Mutant: privileges are dropped as soon as the file has been found. *)
DroppedBeforeReading ==
  /\ pc = "stat"
  /\ Goto("open")
  /\ ident' = IF ident.euid = 0 /\ Lookup(args.user) \in User
              THEN [ident EXCEPT !.ruid = Lookup(args.user).uid,
                                 !.euid = Lookup(args.user).uid,
                                 !.suid = Lookup(args.user).uid]
              ELSE ident
  /\ UNCHANGED <<args, host, mem, size, message, out, clock, mishap, passwd, dpc, user>>

(* The size needs only the directory, which may be as closed as the file.  *)
ReadMetadata ==
  /\ pc = "stat"
  /\ \/ ~MayReadKeys(ident) /\ or_must_be_root
     \/ size > FILE_SIZE_MAX_BYTES /\ End("err")
     \/ size <= FILE_SIZE_MAX_BYTES /\ Goto("open")
  /\ UNCHANGED <<args, host, mem, size, message, out, clock, mishap, privVars>>

OpenFile ==
  /\ pc = "open"
  /\ IF MayReadKeys(ident) THEN Goto("read") ELSE or_must_be_root
  /\ UNCHANGED <<args, host, mem, size, message, out, clock, mishap, privVars>>

(* Mutant: the size was checked, so the whole file is read. *)
NotLimited(n) == n

take(n) == IF n > FILE_SIZE_MAX_BYTES THEN FILE_SIZE_MAX_BYTES ELSE n

(* A server whose certificates do not load has nothing to validate with.   *)
ReadToEnd ==
  /\ pc = "read"
  /\ mem' = [mem EXCEPT !.buffer = take(size)]
  /\ IF args.cmd = "server" /\ mem'.buffer # host.file.length
     THEN End("ok") /\ UNCHANGED dpc
     ELSE Goto("drop") /\ DropGoto("start")
  /\ UNCHANGED <<args, host, size, message, out, clock, mishap, ident, passwd, user>>

-----------------------------------------------------------------------------
(* Dropping privileges *)

DropPrivileges ==
  /\ pc = "drop"
  /\ DropStart(args.user) \/ DropStep
  /\ UNCHANGED procVars

DropEnds ==
  /\ pc = "drop"
  /\ \/ dpc = "done" /\ Goto(IF args.cmd = "client" THEN "load" ELSE "build")
     \/ dpc = "failed" /\ End("err")
  /\ UNCHANGED <<args, host, mem, size, message, out, clock, mishap, privVars>>

-----------------------------------------------------------------------------
(* The client, and ip *)

(* An encrypted OpenSSH key; without a password the empty one is tried. *)
Decrypts(file, password) ==
  IF password = None THEN file.password \in {None, <<>>}
  ELSE file.password \in {None, password}

load_ed25519_openssh_private_key(file, password) ==
  Decrypts(file, password) /\ file.algorithm = "ed25519"

load_ed25519_openssl_key(file) == file.algorithm = "ed25519"

(* The buffer has to hold the whole file; its first line tells the format. *)
load_ed25519_private_key(file, buffer, password) ==
  /\ buffer = file.length
  /\ \/ file.format = "openssh" /\ load_ed25519_openssh_private_key(file, password)
     \/ file.format = "openssl" /\ load_ed25519_openssl_key(file)

key_password == IF args.password = None THEN None ELSE trimmed_string(args.password)

(* Mutant: a key that does not load is replaced by the dummy key. *)
DummyKeyInstead ==
  /\ pc = "load"
  /\ Goto("query")
  /\ mem' = [mem EXCEPT !.key =
       IF load_ed25519_private_key(host.file, mem.buffer, key_password)
       THEN host.file.key ELSE dummy_ed25519_private_key]
  /\ UNCHANGED <<args, host, size, message, out, clock, mishap, privVars>>

ClientLoadKey ==
  /\ pc = "load"
  /\ IF load_ed25519_private_key(host.file, mem.buffer, key_password)
     THEN /\ Goto("query")
          /\ mem' = [mem EXCEPT !.key = host.file.key]
     ELSE End("err") /\ UNCHANGED mem
  /\ UNCHANGED <<args, host, size, message, out, clock, mishap, privVars>>

(* Mutant: nothing is signed with under --insecure-skip-verify. *)
NoDummyKey ==
  /\ pc = "dummy"
  /\ Goto("query")
  /\ UNCHANGED <<args, host, mem, size, message, out, clock, mishap, privVars>>

(* --insecure-skip-verify reads no key and drops no privileges. *)
ClientDummyKey ==
  /\ pc = "dummy"
  /\ Goto("query")
  /\ mem' = [mem EXCEPT !.key = dummy_ed25519_private_key]
  /\ UNCHANGED <<args, host, size, message, out, clock, mishap, privVars>>

ClientQuery ==
  /\ pc = "query" /\ args.cmd = "client"
  /\ Goto("upload")
  /\ mem' = [mem EXCEPT !.address = host.address]
  /\ UNCHANGED <<args, host, size, message, out, clock, mishap, privVars>>

Forbidden(address) ==
  \/ address = "v4" /\ args.force_ipv6
  \/ address = "v6" /\ args.force_ipv4

IpQuery ==
  /\ pc = "query" /\ args.cmd = "ip"
  /\ IF Forbidden(host.address)
     THEN End("err") /\ UNCHANGED out
     ELSE End("ok") /\ out' = host.address
  /\ UNCHANGED <<args, host, mem, size, message, clock, mishap, privVars>>

Credentials == get_s3_credentials(args.access_key, args.secret_key, host.default)

(* A dry run prints; S3 takes the object if it knows the credentials. *)
ClientUpload ==
  /\ pc = "upload"
  /\ \/ /\ args.dry
        /\ End("ok")
        /\ UNCHANGED out
     \/ /\ ~args.dry
        /\ Issued(Credentials)
        /\ out' = [name |-> mem.domain, address |-> mem.address, signer |-> mem.key]
        /\ End("ok")
     \/ /\ ~args.dry
        /\ ~Issued(Credentials)
        /\ End("err")
        /\ UNCHANGED out
  /\ UNCHANGED <<args, host, mem, size, message, clock, mishap, privVars>>

-----------------------------------------------------------------------------
(* The server *)

ServerCredentials ==
  /\ pc = "credentials"
  /\ IF Credentials = None
     THEN End("err") /\ UNCHANGED mem
     ELSE Goto("fetch") /\ mem' = [mem EXCEPT !.creds = Credentials]
  /\ UNCHANGED <<args, host, size, message, out, clock, mishap, privVars>>

(* No request in the bucket, or requests to validate. *)
ServerFetches ==
  /\ pc = "fetch"
  /\ IF ~Issued(mem.creds) THEN End("err") /\ UNCHANGED dpc
     ELSE \/ End("ok") /\ UNCHANGED dpc
          \/ IF args.insecure THEN Goto("drop") /\ DropGoto("start")
             ELSE Goto("readdir") /\ UNCHANGED dpc
  /\ UNCHANGED <<args, host, mem, size, message, out, clock, mishap, ident, passwd, user>>

(* The directory of the certificates has files or none; it may be as closed *)
(* as they are.                                                             *)
ServerReadsDir ==
  /\ pc = "readdir"
  /\ \/ Goto("stat") \/ End("ok")
     \/ ~MayReadKeys(ident) /\ End("err")
  /\ UNCHANGED <<args, host, mem, size, message, out, clock, mishap, privVars>>

(* Nothing was verified, or it is a dry run; otherwise the batch is signed. *)
(* from_s3_credentials finds both keys: S3 has already accepted them.       *)
ServerSigns ==
  /\ pc = "build"
  /\ \/ End("ok") /\ UNCHANGED message
     \/ /\ ~args.dry
        /\ LET path == ZonePath(args.zone)
               body == build_change_xml(build_changes(args.requests))
           IN  message' = [path |-> path, body |-> body,
                           auth |-> aws_sigv4_headers(path, body, mem.creds, clock)]
        /\ Goto("post")
  /\ UNCHANGED <<args, host, mem, size, out, clock, mishap, privVars>>

InTime == clock <= message.auth.headers.date + Timeout

(* The batch arrives, and Route 53 takes or refuses it. *)
ServerPosts ==
  /\ pc = "post"
  /\ InTime
  /\ IF /\ Authenticates(message.path, message.body, message.auth, clock)
        /\ Parses(message.body)
     THEN out' = [zone |-> message.path, changes |-> ReadBody(message.body)] /\ End("ok")
     ELSE End("err") /\ UNCHANGED out
  /\ UNCHANGED <<args, host, mem, size, message, clock, mishap, privVars>>

(* Time passes while the request is on its way. *)
Tick ==
  /\ pc = "post"
  /\ clock < MaxClock
  /\ clock' = clock + 1
  /\ UNCHANGED <<args, host, pc, status, mem, size, message, out, mishap, privVars>>

-----------------------------------------------------------------------------

(* A call fails for a reason outside the process, a timeout included. *)
CallFails ==
  /\ \/ /\ \/ pc \in {"readdir", "stat", "open", "read", "query", "credentials", "fetch", "post"}
           \/ pc = "upload" /\ ~args.dry
        /\ End("err")
        /\ UNCHANGED privVars
     \/ pc = "drop" /\ DropRefused /\ UNCHANGED <<pc, status>>
  /\ mishap' = TRUE
  /\ UNCHANGED <<args, host, mem, size, message, out, clock>>

Ended == pc = "end" /\ UNCHANGED vars

Next ==
  \/ Boot \/ ParseClientConfig \/ ParseServerConfig \/ ParseIpConfig
  \/ FileGrows \/ ReadMetadata \/ OpenFile \/ ReadToEnd
  \/ DropPrivileges \/ DropEnds
  \/ ClientLoadKey \/ ClientDummyKey \/ ClientQuery \/ IpQuery \/ ClientUpload
  \/ ServerCredentials \/ ServerFetches \/ ServerReadsDir \/ ServerSigns
  \/ ServerPosts \/ Tick
  \/ CallFails \/ Ended

Spec == Init /\ [][Next]_vars
-----------------------------------------------------------------------------
(* Properties *)

Phases ==
  {"boot", "config", "dummy", "stat", "open", "read", "drop", "load", "query", "upload",
   "credentials", "fetch", "readdir", "build", "post", "end"}

(* Every step keeps the state well formed: a process ends with a status,   *)
(* a client past its configuration has a domain, one that publishes a key  *)
(* and an address, a server past its credentials has them.                 *)
TypeOK ==
  /\ PrivTypeOK
  /\ pc \in Phases
  /\ status \in {"running", "ok", "err", "must_be_root"}
  /\ (pc = "end") = (status # "running")
  /\ size \in 0..host.file.length
  /\ clock \in 0..MaxClock
  /\ mishap \in BOOLEAN
  /\ pc \in {"dummy", "load", "query", "upload"} /\ args.cmd = "client" => mem.domain # None
  /\ pc = "upload" => mem.key # None /\ mem.address # None
  /\ pc \in {"fetch", "readdir", "build", "post"} => mem.creds # None

(* DomainName::parse accepts exactly the host names of RFC 952 and 1123,   *)
(* in any case and with blanks around them, and yields the name in lower   *)
(* case, which it would accept unchanged: clients and certificates agree   *)
(* on one spelling.                                                        *)
DomainsAreHostNames ==
  args.cmd = "client" /\ host.syslog =>
    LET plain == to_lowercase(trim(args.domain))
    IN  /\ mem.domain # None => /\ HostName(mem.domain)
                                /\ mem.domain = plain
                                /\ ParseDomain(mem.domain) = mem.domain
        /\ pc = "end" /\ mem.domain = None /\ Accepted(args.password) => ~HostName(plain)

(* Whatever a file does between the size check and the read, no more than  *)
(* FILE_SIZE_MAX_BYTES of it are held (read_file_limited).                 *)
BuffersAreBounded == mem.buffer <= FILE_SIZE_MAX_BYTES

(* The process talks to the network with what it made of its keys. *)
Publishing ==
  \/ args.cmd = "client" /\ ~args.insecure /\ pc \in {"load", "query", "upload"}
  \/ args.cmd = "server" /\ pc \in {"build", "post"}

(* A process started as root has nothing of it left when it publishes: no  *)
(* user id to return to, no group but its user's.  One started without     *)
(* root has gained nothing (maybe_drop_privileges).                        *)
RootIsGone ==
  Publishing =>
    /\ ~CanBeRoot(ident)
    /\ user # NoUser => /\ Uids(ident) = {user.uid}
                        /\ Gids(ident) = {user.gid}
                        /\ ident.groups = {}

(* "must be root" is said only when root would help: the process was not   *)
(* root when it started and could not read the file as it was              *)
(* (or_must_be_root; the privileges are dropped after the last read).      *)
MustBeRootIsTrue == status = "must_be_root" => ~MayReadKeys(host.ident)

-----------------------------------------------------------------------------
(* What can be wrong with a set-up. *)

Holds(text, c) == \E i \in 1..Len(text) : text[i] = c

ReadsKeys == args.cmd # "ip" /\ ~args.insecure

BadArguments ==
  \/ args.cmd = "client" /\ ~HostName(to_lowercase(trim(args.domain)))
  \/ args.password # None /\ trimmed_string(args.password) # args.password
  \/ args.cmd = "ip" /\ args.force_ipv4 /\ args.force_ipv6

BadKeyFile ==
  /\ ReadsKeys
  /\ \/ ~MayReadKeys(host.ident)
     \/ host.size < host.file.length
     \/ host.file.length > FILE_SIZE_MAX_BYTES

BadKey ==
  /\ ReadsKeys /\ args.cmd = "client"
  /\ \/ host.file.format = "other"
     \/ host.file.algorithm # "ed25519"
     \/ host.file.password \notin {None, IF args.password = None THEN <<>> ELSE args.password}

BadUser ==
  /\ args.cmd = "server" \/ ReadsKeys
  /\ host.ident.euid = 0
  /\ Lookup(args.user) \in User => Lookup(args.user).uid = 0

BadCredentials ==
  /\ args.cmd = "server" \/ (args.cmd = "client" /\ ~args.dry)
  /\ ~Issued(Credentials)

(* A name that no XML document can hold. *)
BadNames ==
  /\ args.cmd = "server"
  /\ \E i \in 1..Len(args.requests) : Holds(args.requests[i].name, "control")

(* A process fails only if a call to the outside failed or its set-up is   *)
(* wrong, or a name in the requests: in particular the order of reading,   *)
(* dropping and loading, and of the calls that drop, never makes a good    *)
(* set-up fail (handle_client, handle_server, handle_ip).                  *)
ErrorsHaveACause ==
  status \in {"err", "must_be_root"} =>
    \/ mishap \/ ~host.syslog
    \/ BadArguments \/ BadKeyFile \/ BadKey \/ BadUser \/ BadCredentials \/ BadNames
    \/ args.cmd = "ip" /\ Forbidden(host.address)

(* A client that ends well has uploaded its domain and address, signed     *)
(* with the key it was told to use; an ip query that ends well has shown   *)
(* an address of the family that was asked for (handle_client, handle_ip). *)
SuccessIsEarned ==
  status = "ok" =>
    /\ args.cmd = "client" /\ ~args.dry =>
         out = [name    |-> to_lowercase(trim(args.domain)),
                address |-> host.address,
                signer  |-> IF args.insecure THEN dummy_ed25519_private_key ELSE host.file.key]
    /\ args.cmd = "ip" /\ args.public =>
         /\ out = host.address
         /\ args.force_ipv4 => out = "v4"
         /\ args.force_ipv6 => out = "v6"

(* A request signed with credentials that AWS issued, permanent or with a  *)
(* token in either field, is accepted for as long as the client waits for  *)
(* an answer, also when midnight passes (aws_sigv4_headers).               *)
RequestsAuthenticate ==
  pc = "post" /\ InTime /\ Issued(mem.creds) =>
    Authenticates(message.path, message.body, message.auth, clock)

(* Route 53 takes the document and reads in it the changes that were built,*)
(* in the configured zone, whatever the names of the requests contain,     *)
(* markup and entities included, but for what no XML text can say: control *)
(* characters and carriage returns, which xml_escape passes on             *)
(* (build_change_xml, change_resource_record_sets).                        *)
Writable(name) == ~Holds(name, "control") /\ ~Holds(name, "cr")

ChangesArriveIntact ==
  pc = "post" =>
    /\ message.path = <<args.zone[Len(args.zone)]>>
    /\ (\A i \in 1..Len(args.requests) : Writable(args.requests[i].name)) =>
         /\ Parses(message.body)
         /\ ReadBody(message.body) = build_changes(args.requests)
=============================================================================
