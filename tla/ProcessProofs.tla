---------------------------- MODULE ProcessProofs ----------------------------
(***************************************************************************)
(* Reading keys as root and dropping its privileges, for every user        *)
(* database, every identity a process may be started with, every size of   *)
(* the files and every set-up.                                             *)
(***************************************************************************)
EXTENDS Process, WireProofs

(* The identity between two calls of the drop.                             *)
GroupsDropped == ident.groups = {}
GidsDropped   == ident.rgid = user.gid /\ ident.egid = user.gid /\ ident.sgid = user.gid
UidsDropped   == ident.ruid = user.uid /\ ident.euid = user.uid /\ ident.suid = user.uid

(* How far the drop is decides what is left of the starting identity.      *)
DropInv ==
  /\ host.ident \in Identity /\ Executed(host.ident)
  /\ ident \in Identity
  /\ dpc \in {"before", "start"} => user = NoUser /\ ident = host.ident
  /\ dpc \in {"groups", "gid", "uid", "verify", "escalate"} => user \in User
  /\ dpc \in {"gid", "uid", "verify", "escalate"} => GroupsDropped
  /\ dpc \in {"uid", "verify", "escalate"} => GidsDropped
  /\ dpc \in {"verify", "escalate"} => UidsDropped
  /\ dpc = "done" =>
       \/ user = NoUser /\ ident = host.ident /\ ident.euid # 0
       \/ user \in User /\ GroupsDropped /\ GidsDropped /\ UidsDropped /\ ~CanBeRoot(ident)

(* The drop runs between the last read and the first use of the keys.      *)
PhaseInv ==
  /\ pc = "dummy" => args.insecure /\ args.cmd = "client"
  /\ pc \in {"load", "build", "post"} => dpc = "done"
  /\ pc = "load" => args.cmd = "client"
  /\ pc \in {"query", "upload"} /\ args.cmd = "client" /\ ~args.insecure => dpc = "done"
  /\ pc \in {"boot", "config", "credentials", "fetch", "readdir", "stat", "open", "read"} =>
       dpc = "before"

IInv == DropInv /\ PhaseInv

USE DEF Goto, End, DropGoto, or_must_be_root

(* A process starts with the identity it was executed with.                *)
LEMMA InitDrop == Init => IInv
<1> SUFFICES ASSUME Init PROVE IInv
  OBVIOUS
<1>1. PICK s \in Setups : args = s.args /\ host = s.host
  BY DEF Init
<1>2. host.ident \in Identity /\ Executed(host.ident)
  BY <1>1, ProcessAssumption
<1>3. DropInv
  BY <1>2 DEF Init, DropInv
<1>4. PhaseInv
  BY DEF Init, PhaseInv
<1> QED
  BY <1>3, <1>4 DEF IInv

(* A step of the drop keeps what its earlier steps achieved.               *)
LEMMA DropKeepsDropInv ==
  ASSUME DropInv, UNCHANGED host, DropStart(args.user) \/ DropStep
  PROVE  DropInv'
<1> USE DEF DropInv, GroupsDropped, GidsDropped, UidsDropped
<1>1. CASE DropStart(args.user)
  BY <1>1, PrivilegesAssumption DEF DropStart, User
<1>2. CASE setgroups
  BY <1>2 DEF setgroups, Identity, User
<1>3. CASE setresgid
  BY <1>3 DEF setresgid, Identity, User
<1>4. CASE setresuid
  BY <1>4 DEF setresuid, Identity, User
<1>5. CASE DropVerify
  BY <1>5 DEF DropVerify
<1>6. CASE DropEscalate
  <2>1. CASE CanBeRoot(ident)
    <3>1. ident' \in Identity
      BY <1>6, <2>1, PrivilegesAssumption DEF DropEscalate, Identity
    <3> QED
      BY <1>6, <2>1, <3>1 DEF DropEscalate
  <2>2. CASE ~CanBeRoot(ident)
    BY <1>6, <2>2 DEF DropEscalate, CanBeRoot, Uids
  <2> QED
    BY <2>1, <2>2
<1> QED
  BY <1>1, <1>2, <1>3, <1>4, <1>5, <1>6 DEF DropStep

(* Outside the drop nothing of it changes, except that it starts or fails. *)
LEMMA OtherStepsKeepDropInv ==
  ASSUME DropInv, UNCHANGED <<host, ident, passwd, user>>,
         \/ dpc' = dpc
         \/ dpc = "before" /\ dpc' = "start"
         \/ dpc' = "failed"
  PROVE  DropInv'
BY DEF DropInv, GroupsDropped, GidsDropped, UidsDropped, CanBeRoot, Uids

(* The drop and its place in the run are kept by every step.               *)
LEMMA StepKeepsIInv ==
  ASSUME IInv, [Next]_vars
  PROVE  IInv'
<1> USE DEF IInv, procVars, privVars, vars
<1>1. CASE UNCHANGED vars
  BY <1>1, OtherStepsKeepDropInv DEF PhaseInv
<1>2. CASE Boot
  BY <1>2, OtherStepsKeepDropInv DEF Boot, PhaseInv
<1>3. CASE ParseClientConfig
  BY <1>3, OtherStepsKeepDropInv DEF ParseClientConfig, PhaseInv
<1>4. CASE ParseServerConfig \/ ParseIpConfig
  BY <1>4, OtherStepsKeepDropInv DEF ParseServerConfig, ParseIpConfig, PhaseInv
<1>5. CASE FileGrows \/ ReadMetadata \/ OpenFile
  BY <1>5, OtherStepsKeepDropInv DEF FileGrows, ReadMetadata, OpenFile, PhaseInv
<1>6. CASE ReadToEnd
  BY <1>6, OtherStepsKeepDropInv DEF ReadToEnd, PhaseInv
<1>7. CASE DropPrivileges
  <2>1. DropInv'
    BY <1>7, DropKeepsDropInv DEF DropPrivileges
  <2>2. PhaseInv'
    BY <1>7 DEF DropPrivileges, PhaseInv
  <2> QED
    BY <2>1, <2>2
<1>8. CASE DropEnds
  BY <1>8, OtherStepsKeepDropInv DEF DropEnds, PhaseInv
<1>9. CASE ClientLoadKey \/ ClientDummyKey \/ ClientQuery
  BY <1>9, OtherStepsKeepDropInv DEF ClientLoadKey, ClientDummyKey, ClientQuery, PhaseInv
<1>10. CASE IpQuery \/ ClientUpload
  BY <1>10, OtherStepsKeepDropInv DEF IpQuery, ClientUpload, PhaseInv
<1>11. CASE ServerCredentials \/ ServerFetches \/ ServerReadsDir
  BY <1>11, OtherStepsKeepDropInv
     DEF ServerCredentials, ServerFetches, ServerReadsDir, PhaseInv
<1>12. CASE ServerSigns \/ ServerPosts \/ Tick
  BY <1>12, OtherStepsKeepDropInv DEF ServerSigns, ServerPosts, Tick, PhaseInv
<1>13. CASE CallFails
  BY <1>13, OtherStepsKeepDropInv DEF CallFails, DropRefused, PhaseInv
<1>14. CASE Ended
  BY <1>14, OtherStepsKeepDropInv DEF Ended, PhaseInv
<1> QED
  BY <1>1, <1>2, <1>3, <1>4, <1>5, <1>6, <1>7, <1>8, <1>9, <1>10, <1>11, <1>12,
     <1>13, <1>14 DEF Next

(* Past the drop, nothing of root is left.                                 *)
LEMMA DropInvMeansRootIsGone == IInv => RootIsGone
<1> SUFFICES ASSUME IInv, Publishing
             PROVE  /\ ~CanBeRoot(ident)
                    /\ user # NoUser => /\ Uids(ident) = {user.uid}
                                        /\ Gids(ident) = {user.gid}
                                        /\ ident.groups = {}
  BY DEF RootIsGone
<1>1. dpc = "done"
  BY DEF IInv, PhaseInv, Publishing
<1>2. CASE user = NoUser /\ ident = host.ident /\ ident.euid # 0
  <2>1. Executed(ident)
    BY <1>2 DEF IInv, DropInv
  <2> QED
    BY <1>2, <2>1 DEF Executed, CanBeRoot, Uids
<1>3. CASE user \in User /\ GroupsDropped /\ GidsDropped /\ UidsDropped /\ ~CanBeRoot(ident)
  BY <1>3 DEF GroupsDropped, GidsDropped, UidsDropped, Uids, Gids
<1> QED
  BY <1>1, <1>2, <1>3 DEF IInv, DropInv

(***************************************************************************)
(* No process publishes with anything of root left in its identity,        *)
(* however it was started, whoever it becomes and whichever calls of       *)
(* maybe_drop_privileges are refused.                                      *)
(***************************************************************************)
THEOREM PublishedUnprivileged == Spec => []RootIsGone
<1>1. Init => IInv
  BY InitDrop
<1>2. IInv /\ [Next]_vars => IInv'
  BY StepKeepsIInv
<1>3. IInv => RootIsGone
  BY DropInvMeansRootIsGone
<1> QED
  BY <1>1, <1>2, <1>3, PTL DEF Spec
-----------------------------------------------------------------------------

(* The file has a size and the buffer respects the limit.                  *)
BufferInv ==
  /\ size \in Nat
  /\ "buffer" \in DOMAIN mem
  /\ BuffersAreBounded

(* Only ReadToEnd fills the buffer, and it takes no more than the limit.   *)
LEMMA StepKeepsBufferInv ==
  ASSUME BufferInv, [Next]_vars
  PROVE  BufferInv'
<1> USE DEF BufferInv, BuffersAreBounded, procVars, privVars, vars
<1>1. CASE UNCHANGED <<size, mem>>
  BY <1>1
<1>2. CASE FileGrows
  BY <1>2 DEF FileGrows
<1>3. CASE ReadToEnd
  <2>1. take(size) <= FILE_SIZE_MAX_BYTES
    BY ProcessAssumption DEF take
  <2>2. mem' = [mem EXCEPT !.buffer = take(size)] /\ size' = size
    BY <1>3 DEF ReadToEnd
  <2> QED
    BY <2>1, <2>2
<1>4. CASE ParseClientConfig \/ ClientLoadKey \/ ClientDummyKey \/ ClientQuery
           \/ ServerCredentials
  <2>1. UNCHANGED mem \/ \E f \in {"domain", "key", "address", "creds"} : \E v :
          mem' = [mem EXCEPT ![f] = v]
    BY <1>4 DEF ParseClientConfig, ClientLoadKey, ClientDummyKey, ClientQuery,
                ServerCredentials
  <2>2. UNCHANGED size
    BY <1>4 DEF ParseClientConfig, ClientLoadKey, ClientDummyKey, ClientQuery,
                ServerCredentials
  <2> QED
    BY <2>1, <2>2
<1>5. CASE Boot \/ ParseServerConfig \/ ParseIpConfig \/ ReadMetadata \/ OpenFile
           \/ DropPrivileges \/ DropEnds \/ IpQuery \/ ClientUpload \/ ServerFetches
           \/ ServerReadsDir \/ ServerSigns \/ ServerPosts \/ Tick \/ CallFails \/ Ended
  BY <1>1, <1>5 DEF Boot, ParseServerConfig, ParseIpConfig, ReadMetadata, OpenFile,
     DropPrivileges, DropEnds, IpQuery, ClientUpload, ServerFetches, ServerReadsDir,
     ServerSigns, ServerPosts, Tick, CallFails, Ended
<1> QED
  BY <1>1, <1>2, <1>3, <1>4, <1>5 DEF Next

(***************************************************************************)
(* However a file grows between the size check and the read, read_file_    *)
(* limited never holds more of it than its limit.                          *)
(***************************************************************************)
THEOREM ReadsAreLimited == Spec => []BuffersAreBounded
<1>1. Init => BufferInv
  BY ProcessAssumption DEF Init, BufferInv, BuffersAreBounded
<1>2. BufferInv /\ [Next]_vars => BufferInv'
  BY StepKeepsBufferInv
<1>3. BufferInv => BuffersAreBounded
  BY DEF BufferInv
<1> QED
  BY <1>1, <1>2, <1>3, PTL DEF Spec

-----------------------------------------------------------------------------

(* Keys are read with the identity the process was started with.           *)
LEMMA ReadAsStarted ==
  ASSUME IInv, pc \in {"stat", "open"}
  PROVE  ident = host.ident
BY DEF IInv, DropInv, PhaseInv

(* "must be root" is said of the starting identity only.                   *)
LEMMA StepKeepsMustBeRoot ==
  ASSUME IInv, MustBeRootIsTrue, [Next]_vars
  PROVE  MustBeRootIsTrue'
<1> USE DEF MustBeRootIsTrue, MayReadKeys, procVars, privVars, vars
<1>1. UNCHANGED host
  BY DEF Next, Boot, ParseClientConfig, ParseServerConfig, ParseIpConfig, FileGrows,
     ReadMetadata, OpenFile, ReadToEnd, DropPrivileges, DropEnds, ClientLoadKey,
     ClientDummyKey, ClientQuery, IpQuery, ClientUpload, ServerCredentials, ServerFetches,
     ServerReadsDir, ServerSigns, ServerPosts, Tick, CallFails, Ended
<1>2. CASE ReadMetadata
  BY <1>1, <1>2, ReadAsStarted DEF ReadMetadata
<1>3. CASE OpenFile
  BY <1>1, <1>3, ReadAsStarted DEF OpenFile
<1>4. CASE ~ReadMetadata /\ ~OpenFile
  <2>1. status' \in {status, "ok", "err"}
    BY <1>4 DEF Next, Boot, ParseClientConfig, ParseServerConfig, ParseIpConfig, FileGrows,
       ReadToEnd, DropPrivileges, DropEnds, ClientLoadKey, ClientDummyKey, ClientQuery,
       IpQuery, ClientUpload, ServerCredentials, ServerFetches, ServerReadsDir,
       ServerSigns, ServerPosts, Tick, CallFails, Ended
  <2> QED
    BY <1>1, <2>1
<1> QED
  BY <1>2, <1>3, <1>4

(***************************************************************************)
(* A process that says "must be root" could not read the keys with the     *)
(* identity it was started with: it never gives up the privileges it       *)
(* still needs.                                                            *)
(***************************************************************************)
THEOREM RootWouldHelp == Spec => []MustBeRootIsTrue
<1>1. Init => IInv /\ MustBeRootIsTrue
  BY InitDrop DEF Init, MustBeRootIsTrue
<1>2. IInv /\ MustBeRootIsTrue /\ [Next]_vars => IInv' /\ MustBeRootIsTrue'
  BY StepKeepsIInv, StepKeepsMustBeRoot
<1> QED
  BY <1>1, <1>2, PTL DEF Spec

-----------------------------------------------------------------------------
(* The flow of control *)

(* The arguments, the machine and its user database stay what they were.   *)
Setup ==
  /\ \E s \in Setups : args = s.args /\ host = s.host
  /\ passwd = host.passwd

(* What a set-up is known to be.                                           *)
LEMMA SetupFacts ==
  ASSUME Setup
  PROVE  /\ ClientArgs(args) \/ ServerArgs(args) \/ IPArgs(args)
         /\ host.file.length \in Nat
         /\ host.file.format \in {"openssh", "openssl", "other"}
         /\ host.file.key # None
         /\ host.size \in 0..host.file.length
         /\ host.clock \in 0..MaxClock
         /\ host.address \in {"v4", "v6"}
         /\ host.ident \in Identity /\ Executed(host.ident)
         /\ passwd \in Passwds
BY ProcessAssumption DEF Setup

(* No step changes the arguments, the machine or its users.                *)
LEMMA SetupIsFixed ==
  ASSUME [Next]_vars
  PROVE  UNCHANGED <<args, host, passwd>>
BY DEF Next, Boot, ParseClientConfig, ParseServerConfig, ParseIpConfig, FileGrows,
   ReadMetadata, OpenFile, ReadToEnd, DropPrivileges, DropEnds, ClientLoadKey,
   ClientDummyKey, ClientQuery, IpQuery, ClientUpload, ServerCredentials, ServerFetches,
   ServerReadsDir, ServerSigns, ServerPosts, Tick, CallFails, Ended,
   DropStart, DropStep, setgroups, setresgid, setresuid, DropVerify, DropEscalate,
   DropRefused, procVars, privVars, vars

(* Which subcommand a process runs that has got to a phase.                *)
FlowInv ==
  /\ pc \in Phases
  /\ status \in {"running", "ok", "err", "must_be_root"}
  /\ (pc = "end") = (status # "running")
  /\ pc \in {"dummy", "load", "upload"} => args.cmd = "client"
  /\ pc \in {"credentials", "fetch", "readdir", "build", "post"} => args.cmd = "server"
  /\ pc = "query" => args.cmd \in {"client", "ip"}
  /\ pc \in {"readdir", "stat", "open", "read", "load"} => ReadsKeys
  /\ pc = "drop" => ReadsKeys \/ args.cmd = "server"
  /\ pc \in {"drop", "load"} => dpc # "before"
  /\ pc = "dummy" => args.insecure

(* Every step goes to a phase of its own subcommand.                       *)
LEMMA StepKeepsFlow ==
  ASSUME Setup, FlowInv, [Next]_vars
  PROVE  FlowInv'
<1> USE DEF FlowInv, Phases, ReadsKeys
<1>1. UNCHANGED <<args, host>>
  BY SetupIsFixed
<1>2. args.cmd \in {"client", "server", "ip"}
  BY SetupFacts DEF ClientArgs, ServerArgs, IPArgs
<1>3. CASE UNCHANGED vars
  BY <1>3 DEF vars, procVars, privVars
<1>4. CASE Boot
  BY <1>1, <1>4 DEF Boot
<1>5. CASE ParseClientConfig
  BY <1>1, <1>5 DEF ParseClientConfig
<1>6. CASE ParseServerConfig
  BY <1>1, <1>6 DEF ParseServerConfig
<1>7. CASE ParseIpConfig
  BY <1>1, <1>7 DEF ParseIpConfig
<1>8. CASE FileGrows \/ ReadMetadata \/ OpenFile
  BY <1>1, <1>8 DEF FileGrows, ReadMetadata, OpenFile, privVars
<1>9. CASE ReadToEnd
  BY <1>1, <1>9 DEF ReadToEnd
<1>10. CASE DropPrivileges
  BY <1>1, <1>10 DEF DropPrivileges, procVars, DropStart, DropStep, setgroups,
                     setresgid, setresuid, DropVerify, DropEscalate
<1>11. CASE DropEnds
  BY <1>1, <1>2, <1>11 DEF DropEnds, privVars
<1>12. CASE ClientLoadKey \/ ClientDummyKey \/ ClientQuery
  BY <1>1, <1>12 DEF ClientLoadKey, ClientDummyKey, ClientQuery
<1>13. CASE IpQuery \/ ClientUpload
  BY <1>1, <1>13 DEF IpQuery, ClientUpload
<1>14. CASE ServerCredentials \/ ServerFetches \/ ServerReadsDir
  BY <1>1, <1>14 DEF ServerCredentials, ServerFetches, ServerReadsDir, privVars
<1>15. CASE ServerSigns \/ ServerPosts \/ Tick
  BY <1>1, <1>15 DEF ServerSigns, ServerPosts, Tick
<1>16. CASE CallFails
  BY <1>1, <1>16 DEF CallFails, DropRefused
<1>17. CASE Ended
  BY <1>3, <1>17 DEF Ended
<1> QED
  BY <1>3, <1>4, <1>5, <1>6, <1>7, <1>8, <1>9, <1>10, <1>11, <1>12, <1>13, <1>14,
     <1>15, <1>16, <1>17 DEF Next

-----------------------------------------------------------------------------
(* Domain names *)

(* The fields of the process's memory, and how a step changes one of them. *)
MemFields == DOMAIN mem = {"domain", "buffer", "key", "address", "creds"}

(* Each field of the memory is set in one place.                           *)
LEMMA MemMoves ==
  ASSUME MemFields, [Next]_vars
  PROVE  /\ MemFields'
         /\ mem'.domain = mem.domain \/ ParseClientConfig
         /\ mem'.buffer = mem.buffer \/ ReadToEnd
         /\ mem'.key = mem.key \/ ClientLoadKey \/ ClientDummyKey
         /\ mem'.address = mem.address \/ ClientQuery
         /\ mem'.creds = mem.creds \/ ServerCredentials
<1> USE DEF MemFields
<1>1. CASE UNCHANGED mem
  BY <1>1
<1>2. CASE ParseClientConfig
  <2>1. PICK v : mem' = [mem EXCEPT !.domain = v] \/ mem' = mem
    BY <1>2 DEF ParseClientConfig
  <2> QED
    BY <1>2, <2>1
<1>3. CASE ReadToEnd
  <2>1. PICK v : mem' = [mem EXCEPT !.buffer = v]
    BY <1>3 DEF ReadToEnd
  <2> QED
    BY <1>3, <2>1
<1>4. CASE ClientLoadKey \/ ClientDummyKey
  <2>1. PICK v : mem' = [mem EXCEPT !.key = v] \/ mem' = mem
    BY <1>4 DEF ClientLoadKey, ClientDummyKey
  <2> QED
    BY <1>4, <2>1
<1>5. CASE ClientQuery
  <2>1. PICK v : mem' = [mem EXCEPT !.address = v]
    BY <1>5 DEF ClientQuery
  <2> QED
    BY <1>5, <2>1
<1>6. CASE ServerCredentials
  <2>1. PICK v : mem' = [mem EXCEPT !.creds = v] \/ mem' = mem
    BY <1>6 DEF ServerCredentials
  <2> QED
    BY <1>6, <2>1
<1> QED
  BY <1>1, <1>2, <1>3, <1>4, <1>5, <1>6
     DEF Next, Boot, ParseServerConfig, ParseIpConfig, FileGrows, ReadMetadata, OpenFile,
         DropPrivileges, DropEnds, IpQuery, ClientUpload, ServerFetches, ServerReadsDir,
         ServerSigns, ServerPosts, Tick, CallFails, Ended, procVars, vars

(* No step leads back to the start.                                        *)
LEMMA NoWayBack ==
  ASSUME [Next]_vars, ~Boot, ~ParseClientConfig, args.cmd = "client"
  PROVE  UNCHANGED pc \/ (pc \notin {"boot", "config"} /\ pc' \notin {"boot", "config"})
BY DEF Next, ParseServerConfig, ParseIpConfig, FileGrows, ReadMetadata, OpenFile, ReadToEnd,
   DropPrivileges, DropEnds, ClientLoadKey, ClientDummyKey, ClientQuery, IpQuery,
   ClientUpload, ServerCredentials, ServerFetches, ServerReadsDir, ServerSigns,
   ServerPosts, Tick, CallFails, Ended, procVars, vars

(* The domain argument without blanks around it and in lower case.         *)
PlainDomain == to_lowercase(trim(args.domain))

(* A client has a domain once its configuration is made, and has none      *)
(* before, or if the configuration failed.                                 *)
DomainInv ==
  args.cmd = "client" =>
    /\ pc \in {"boot", "config"} => mem.domain = None
    /\ pc = "config" => /\ host.syslog
                        /\ Accepted(args.domain) /\ Accepted(args.password)
    /\ pc \notin {"boot", "config", "end"} => mem.domain # None
    /\ mem.domain # None => mem.domain = PlainDomain /\ HostName(PlainDomain)
    /\ pc = "end" /\ mem.domain = None /\ host.syslog /\ Accepted(args.password) =>
         ~HostName(PlainDomain)

(* What the configuration makes of the text that clap has accepted.        *)
LEMMA ConfiguredDomain ==
  ASSUME NEW text \in Text
  PROVE  LET plain == to_lowercase(trim(text))
             domain == ParseDomain(trimmed_string(text))
         IN  /\ plain \in Text /\ plain # None /\ plain # Rejected
             /\ ~Accepted(text) => ~HostName(plain)
             /\ Accepted(text) => domain = IF HostName(plain) THEN plain ELSE Rejected
             /\ HostName(plain) => ParseDomain(plain) = plain
<1> DEFINE plain == to_lowercase(trim(text))
<1>1. /\ plain \in Text /\ trim(text) \in Text
      /\ to_lowercase(trim(plain)) = plain
      /\ to_lowercase(trim(trim(text))) = plain
      /\ trim(text) = <<>> => ~HostName(plain)
  BY PlainIsPlain DEF Text
<1>2. plain # None /\ plain # Rejected /\ trim(text) # Rejected /\ text # None
  BY <1>1, ProcessAssumption
<1>3. Accepted(text) <=> trim(text) # <<>>
  BY <1>2 DEF Accepted, trimmed_string
<1>4. ASSUME Accepted(text)
      PROVE  ParseDomain(trimmed_string(text)) = IF HostName(plain) THEN plain ELSE Rejected
  <2>1. trimmed_string(text) = trim(text)
    BY <1>3, <1>4 DEF trimmed_string
  <2> QED
    BY <1>1, <2>1, ParseIsExact DEF Text
<1>5. HostName(plain) => ParseDomain(plain) = plain
  BY <1>1, ParseIsExact DEF Text
<1> QED
  BY <1>1, <1>2, <1>3, <1>4, <1>5

(* The domain is set once, by ParseClientConfig.                           *)
LEMMA StepKeepsDomain ==
  ASSUME Setup, FlowInv, MemFields, DomainInv, [Next]_vars
  PROVE  DomainInv'
<1> SUFFICES ASSUME args.cmd = "client" PROVE DomainInv'
  BY SetupIsFixed DEF DomainInv
<1>1. /\ UNCHANGED <<args, host>>
      /\ UNCHANGED <<PlainDomain, Accepted(args.domain), Accepted(args.password)>>
  BY SetupIsFixed DEF PlainDomain, Accepted
<1>2. args.domain \in Text
  BY SetupFacts DEF ClientArgs, ServerArgs, IPArgs
<1>3. /\ PlainDomain # None
      /\ PlainDomain # Rejected
      /\ ~Accepted(args.domain) => ~HostName(PlainDomain)
      /\ Accepted(args.domain) => ParseDomain(trimmed_string(args.domain)) =
                                    IF HostName(PlainDomain) THEN PlainDomain ELSE Rejected
  BY <1>2, ConfiguredDomain DEF PlainDomain
<1>4. CASE Boot
  BY <1>1, <1>3, <1>4 DEF Boot, DomainInv
<1>5. CASE ParseClientConfig
  <2>1. pc = "config" /\ mem.domain = None /\ Accepted(args.domain)
    BY <1>5 DEF ParseClientConfig, DomainInv
  <2>2. CASE HostName(PlainDomain)
    <3>1. mem' = [mem EXCEPT !.domain = PlainDomain] /\ pc' \in {"dummy", "stat"}
      BY <1>3, <1>5, <2>1, <2>2 DEF ParseClientConfig
    <3>2. mem'.domain = PlainDomain
      BY <3>1 DEF MemFields
    <3> QED
      BY <1>1, <1>3, <2>2, <3>1, <3>2 DEF DomainInv
  <2>3. CASE ~HostName(PlainDomain)
    <3>1. mem' = mem /\ pc' = "end"
      BY <1>3, <1>5, <2>1, <2>3 DEF ParseClientConfig
    <3> QED
      BY <1>1, <2>1, <2>3, <3>1 DEF DomainInv
  <2> QED
    BY <2>2, <2>3
<1>6. CASE ~Boot /\ ~ParseClientConfig
  <2>1. mem'.domain = mem.domain
    BY <1>6, MemMoves
  <2>2. UNCHANGED pc \/ (pc \notin {"boot", "config"} /\ pc' \notin {"boot", "config"})
    BY <1>6, NoWayBack
  <2>3. pc = "end" => UNCHANGED pc
    BY DEF Next, Boot, ParseClientConfig, ParseServerConfig, ParseIpConfig, FileGrows,
       ReadMetadata, OpenFile, ReadToEnd, DropPrivileges, DropEnds, ClientLoadKey,
       ClientDummyKey, ClientQuery, IpQuery, ClientUpload, ServerCredentials,
       ServerFetches, ServerReadsDir, ServerSigns, ServerPosts, Tick, CallFails, Ended,
       procVars, vars
  <2> QED
    BY <1>1, <2>1, <2>2, <2>3 DEF DomainInv
<1> QED
  BY <1>4, <1>5, <1>6

-----------------------------------------------------------------------------
(* Keys, addresses and credentials *)

(* The key file only grows, and what is read of it is all of it unless it  *)
(* was incomplete when the process started, or is too large.               *)
SizeInv ==
  /\ size \in host.size..host.file.length
  /\ clock \in 0..MaxClock
  /\ pc \in {"drop", "load"} /\ ReadsKeys =>
       \/ mem.buffer = host.file.length
       \/ host.size < host.file.length
       \/ host.file.length > FILE_SIZE_MAX_BYTES

(* The file grows up to its length, and ReadToEnd takes what is there.     *)
LEMMA StepKeepsSize ==
  ASSUME Setup, FlowInv, MemFields, SizeInv, [Next]_vars
  PROVE  SizeInv'
<1>1. UNCHANGED <<args, host, ReadsKeys>>
  BY SetupIsFixed DEF ReadsKeys
<1>2. host.size \in Nat /\ host.file.length \in Nat /\ host.size <= host.file.length
  BY SetupFacts
<1>3. FILE_SIZE_MAX_BYTES \in Nat /\ MaxClock \in Nat
  BY ProcessAssumption
<1>4. size \in Nat /\ clock \in Nat
  BY <1>2, <1>3 DEF SizeInv
<1>5. CASE FileGrows
  BY <1>1, <1>2, <1>4, <1>5 DEF FileGrows, SizeInv
<1>6. CASE Tick
  BY <1>1, <1>3, <1>4, <1>6 DEF Tick, SizeInv
<1>7. CASE ReadToEnd
  <2>1. mem' = [mem EXCEPT !.buffer = take(size)] /\ UNCHANGED <<size, clock>>
    BY <1>7 DEF ReadToEnd
  <2>2. mem'.buffer = take(size)
    BY <2>1 DEF MemFields
  <2>3. \/ take(size) = host.file.length
        \/ host.size < host.file.length
        \/ host.file.length > FILE_SIZE_MAX_BYTES
    BY <1>2, <1>3, <1>4 DEF take, SizeInv
  <2> QED
    BY <1>1, <2>1, <2>2, <2>3 DEF SizeInv
<1>8. CASE ~FileGrows /\ ~Tick /\ ~ReadToEnd
  <2>1. UNCHANGED <<size, clock>>
    BY <1>8 DEF Next, Boot, ParseClientConfig, ParseServerConfig, ParseIpConfig,
       ReadMetadata, OpenFile, DropPrivileges, DropEnds, ClientLoadKey, ClientDummyKey,
       ClientQuery, IpQuery, ClientUpload, ServerCredentials, ServerFetches,
       ServerReadsDir, ServerSigns, ServerPosts, CallFails, Ended, procVars, vars
  <2>2. mem'.buffer = mem.buffer
    BY <1>8, MemMoves
  <2>3. pc' \in {"drop", "load"} /\ ReadsKeys => pc \in {"drop", "load"}
    BY <1>1, <1>8
       DEF FlowInv, Next, Boot, ParseClientConfig, ParseServerConfig, ParseIpConfig,
       ReadMetadata, OpenFile, DropPrivileges, DropEnds, ClientLoadKey, ClientDummyKey,
       ClientQuery, IpQuery, ClientUpload, ServerCredentials, ServerFetches,
       ServerReadsDir, ServerSigns, ServerPosts, CallFails, Ended, procVars, vars, ReadsKeys
  <2> QED
    BY <1>1, <2>1, <2>2, <2>3 DEF SizeInv
<1> QED
  BY <1>5, <1>6, <1>7, <1>8

(* The key a client was told to use.                                       *)
OwnKey == IF args.insecure THEN dummy_ed25519_private_key ELSE host.file.key

(* What a client that queries, or uploads, has in its memory.              *)
KeyInv ==
  /\ pc \in {"query", "upload"} /\ args.cmd = "client" => mem.key = OwnKey
  /\ pc = "upload" => mem.address = host.address

(* The server signs with the credentials that S3 has accepted.             *)
CredsInv ==
  args.cmd = "server" =>
    /\ pc \notin {"boot", "config", "credentials", "end"} =>
         mem.creds = Credentials /\ mem.creds # None
    /\ pc \notin {"boot", "config", "credentials", "fetch", "end"} => Issued(Credentials)

(* The key and the address are set on the way to the upload.               *)
LEMMA StepKeepsKey ==
  ASSUME Setup, FlowInv, MemFields, KeyInv, [Next]_vars
  PROVE  KeyInv'
<1>1. UNCHANGED <<args, host, OwnKey>>
  BY SetupIsFixed DEF OwnKey
<1>2. CASE ClientLoadKey
  <2>1. CASE pc' = "query"
    <3>1. mem' = [mem EXCEPT !.key = host.file.key] /\ ~args.insecure
      BY <1>2, <2>1 DEF ClientLoadKey, FlowInv, ReadsKeys
    <3>2. mem'.key = host.file.key
      BY <3>1 DEF MemFields
    <3> QED
      BY <1>1, <2>1, <3>1, <3>2 DEF KeyInv, OwnKey
  <2>2. CASE pc' # "query"
    BY <1>2, <2>2 DEF ClientLoadKey, KeyInv
  <2> QED
    BY <2>1, <2>2
<1>3. CASE ClientDummyKey
  <2>1. /\ mem' = [mem EXCEPT !.key = dummy_ed25519_private_key] /\ args.insecure
        /\ pc' = "query"
    BY <1>3 DEF ClientDummyKey, FlowInv
  <2>2. mem'.key = dummy_ed25519_private_key
    BY <2>1 DEF MemFields
  <2> QED
    BY <1>1, <2>1, <2>2 DEF KeyInv, OwnKey
<1>4. CASE ClientQuery
  <2>1. mem' = [mem EXCEPT !.address = host.address]
    BY <1>4 DEF ClientQuery
  <2>2. mem'.address = host.address /\ mem'.key = mem.key
    BY <2>1 DEF MemFields
  <2> QED
    BY <1>1, <1>4, <2>2 DEF KeyInv, ClientQuery
<1>5. CASE ~ClientLoadKey /\ ~ClientDummyKey /\ ~ClientQuery
  <2>1. mem'.key = mem.key /\ mem'.address = mem.address
    BY <1>5, MemMoves
  <2>2. pc' \in {"query", "upload"} /\ args.cmd = "client" => UNCHANGED pc
    BY <1>5 DEF Next, Boot, ParseClientConfig, ParseServerConfig, ParseIpConfig,
       FileGrows, ReadMetadata, OpenFile, ReadToEnd, DropPrivileges, DropEnds, IpQuery,
       ClientUpload, ServerCredentials, ServerFetches, ServerReadsDir, ServerSigns,
       ServerPosts, Tick, CallFails, Ended, procVars, vars
  <2>3. pc' = "upload" => pc = "upload"
    BY <1>5 DEF Next, Boot, ParseClientConfig, ParseServerConfig, ParseIpConfig,
       FileGrows, ReadMetadata, OpenFile, ReadToEnd, DropPrivileges, DropEnds, IpQuery,
       ClientUpload, ServerCredentials, ServerFetches, ServerReadsDir, ServerSigns,
       ServerPosts, Tick, CallFails, Ended, procVars, vars
  <2> QED
    BY <1>1, <2>1, <2>2, <2>3 DEF KeyInv
<1> QED
  BY <1>2, <1>3, <1>4, <1>5

(* The credentials are set once, and S3 accepts them before they sign.     *)
LEMMA StepKeepsCreds ==
  ASSUME Setup, FlowInv, MemFields, CredsInv, [Next]_vars
  PROVE  CredsInv'
<1> SUFFICES ASSUME args.cmd = "server" PROVE CredsInv'
  BY SetupIsFixed DEF CredsInv
<1>1. UNCHANGED <<args, Credentials>>
  BY SetupIsFixed DEF Credentials
<1>2. UNCHANGED Issued(Credentials)
  BY <1>1
<1>3. CASE ServerCredentials
  <2>1. CASE Credentials = None
    BY <1>3, <2>1 DEF ServerCredentials, CredsInv
  <2>2. CASE Credentials # None
    <3>1. mem' = [mem EXCEPT !.creds = Credentials] /\ pc' = "fetch"
      BY <1>3, <2>2 DEF ServerCredentials
    <3>2. mem'.creds = Credentials
      BY <3>1 DEF MemFields
    <3> QED
      BY <1>1, <2>2, <3>1, <3>2 DEF CredsInv
  <2> QED
    BY <2>1, <2>2
<1>4. CASE ServerFetches
  <2>1. mem' = mem /\ pc = "fetch"
    BY <1>4 DEF ServerFetches
  <2>2. CASE Issued(mem.creds)
    BY <1>1, <1>2, <2>1, <2>2 DEF CredsInv
  <2>3. CASE ~Issued(mem.creds)
    BY <1>4, <2>3 DEF ServerFetches, CredsInv
  <2> QED
    BY <2>2, <2>3
<1>5. CASE ~ServerCredentials /\ ~ServerFetches
  <2>1. mem'.creds = mem.creds
    BY <1>5, MemMoves
  <2>2. \/ pc' \in {"boot", "config", "credentials", "end"}
        \/ pc' = pc
        \/ pc \notin {"boot", "config", "credentials", "fetch", "end"}
    BY <1>5 DEF FlowInv, Next, Boot, ParseClientConfig, ParseServerConfig, ParseIpConfig,
       FileGrows, ReadMetadata, OpenFile, ReadToEnd, DropPrivileges, DropEnds,
       ClientLoadKey, ClientDummyKey, ClientQuery, IpQuery,
       ClientUpload, ServerReadsDir, ServerSigns,
       ServerPosts, Tick, CallFails, Ended, procVars, vars
  <2> QED
    BY <1>1, <1>2, <2>1, <2>2 DEF CredsInv
<1> QED
  BY <1>3, <1>4, <1>5

-----------------------------------------------------------------------------
(* Signed requests *)

(* The token that is sent is the one that AWS issued with the keys.        *)
LEMMA TokenIsIssued ==
  ASSUME NEW creds, NEW token,
         {creds.security_token, creds.session_token} \ {None} = {token} \ {None}
  PROVE  session_token(creds) = token
<1>1. CASE token = None
  BY <1>1 DEF session_token
<1>2. CASE token # None
  BY <1>2 DEF session_token
<1> QED
  BY <1>1, <1>2

(* What the service finds in the headers.                                  *)
LEMMA HeadersArrive ==
  ASSUME NEW body, NEW token, NEW t
  PROVE  LET headers == hdrs(body, token, t)
         IN  /\ {"host", "date"} \subseteq DOMAIN headers
             /\ headers.date = t
             /\ headers.content_sha256 = sha256_hex(body)
             /\ "security_token" \in DOMAIN headers <=> token # None
             /\ token # None => headers.security_token = token
             /\ [h \in DOMAIN headers |-> headers[h]] = headers
BY DEF hdrs

(* What the keys of AWS have signed is accepted until the timeout.         *)
LEMMA AuthenticatesInTime ==
  ASSUME NEW path, NEW body, NEW creds, Issued(creds),
         NEW t \in Nat, NEW arrival \in Nat, arrival <= t + Timeout
  PROVE  Authenticates(path, body, aws_sigv4_headers(path, body, creds, t), arrival)
<1> DEFINE headers == hdrs(body, session_token(creds), t)
           auth    == aws_sigv4_headers(path, body, creds, t)
<1>1. PICK k \in AwsKeys :
        /\ creds.access_key = k.access /\ creds.secret_key = k.secret
        /\ {creds.security_token, creds.session_token} \ {None} = {k.token} \ {None}
  BY DEF Issued
<1>2. session_token(creds) = k.token
  BY <1>1, TokenIsIssued
<1>3. /\ {"host", "date"} \subseteq DOMAIN headers
      /\ headers.date = t
      /\ headers.content_sha256 = sha256_hex(body)
      /\ "security_token" \in DOMAIN headers <=> k.token # None
      /\ k.token # None => headers.security_token = k.token
      /\ [h \in DOMAIN headers |-> headers[h]] = headers
  BY <1>2, HeadersArrive
<1> HIDE DEF headers
<1>4. /\ auth.headers = headers /\ auth.signed_headers = DOMAIN headers
      /\ auth.credential = creds.access_key
      /\ auth.scope = credential_scope(scope_date(t))
      /\ auth.signature = hmac_sha256(k_signing(creds.secret_key, auth.scope),
                            string_to_sign(t, auth.scope,
                              canonical_request(path, headers, sha256_hex(body))))
  BY DEF aws_sigv4_headers, headers
<1> HIDE DEF auth
<1>5. arrival <= t + MaxDelay
  BY Route53Assumption
<1>6. auth.scope = <<DateOf(auth.headers.date), "us-east-1", "route53">>
  BY <1>3, <1>4 DEF credential_scope, scope_date
<1>7. k.token = TokenOf(auth)
  BY <1>3, <1>4 DEF TokenOf
<1>8. auth.signature =
        hmac_sha256(k_signing(k.secret, auth.scope),
          string_to_sign(auth.headers.date, auth.scope,
            canonical_request(path, [h \in auth.signed_headers |-> auth.headers[h]],
                              sha256_hex(body))))
  BY <1>1, <1>3, <1>4
<1>9. Authenticates(path, body, auth, arrival)
  BY <1>1, <1>3, <1>4, <1>5, <1>6, <1>7, <1>8, Zenon DEF Authenticates
<1> QED
  BY <1>9 DEF auth

(* What is on its way is the server's batch for its zone, signed with the  *)
(* server's credentials.                                                   *)
MessageInv ==
  pc = "post" =>
    /\ message.path = ZonePath(args.zone)
    /\ message.body = build_change_xml(build_changes(args.requests))
    /\ \E t \in 0..MaxClock :
         /\ message.auth = aws_sigv4_headers(message.path, message.body, mem.creds, t)
         /\ message.auth.headers.date = t

(* ServerSigns makes the message, and nothing touches it afterwards.       *)
LEMMA StepKeepsMessage ==
  ASSUME Setup, FlowInv, MemFields, SizeInv, MessageInv, [Next]_vars
  PROVE  MessageInv'
<1>1. CASE ServerSigns
  <2>1. CASE pc' # "post"
    BY <2>1 DEF MessageInv
  <2>2. CASE pc' = "post"
    <3> DEFINE path == ZonePath(args.zone)
               body == build_change_xml(build_changes(args.requests))
               auth == aws_sigv4_headers(path, body, mem.creds, clock)
    <3>0. UNCHANGED <<args, path, body>>
      BY SetupIsFixed
    <3>1. message' = [path |-> path, body |-> body, auth |-> auth] /\ UNCHANGED mem
      BY <1>1, <2>2 DEF ServerSigns
    <3>2. auth.headers = hdrs(body, session_token(mem.creds), clock)
      BY DEF aws_sigv4_headers
    <3>3. auth.headers.date = clock
      BY <3>2, HeadersArrive
    <3>7. message'.path = ZonePath(args'.zone)
        /\ message'.body = build_change_xml(build_changes(args'.requests))
      BY <3>0, <3>1
    <3> HIDE DEF path, body
    <3>4. message'.auth = aws_sigv4_headers(message'.path, message'.body, mem'.creds, clock)
      BY <3>1
    <3>5. message'.auth.headers.date = clock
      BY <3>1, <3>3
    <3>6. clock \in 0..MaxClock
      BY DEF SizeInv
    <3> QED
      BY <3>4, <3>5, <3>6, <3>7 DEF MessageInv
  <2> QED
    BY <2>1, <2>2
<1>2. CASE ~ServerSigns
  <2>1. pc' = "post" => pc = "post" /\ UNCHANGED <<message, mem>>
    BY <1>2 DEF Next, Boot, ParseClientConfig, ParseServerConfig, ParseIpConfig, FileGrows,
       ReadMetadata, OpenFile, ReadToEnd, DropPrivileges, DropEnds, ClientLoadKey,
       ClientDummyKey, ClientQuery, IpQuery, ClientUpload, ServerCredentials,
       ServerFetches, ServerReadsDir, ServerPosts, Tick, CallFails, Ended, procVars, vars
  <2> QED
    BY <2>1, SetupIsFixed DEF MessageInv
<1> QED
  BY <1>1, <1>2

(* A character other than the dot is in a built name exactly if it was in  *)
(* the request's.                                                          *)
LEMMA DotsAreAdded ==
  ASSUME NEW T, NEW name \in Seq(T), NEW x, x # ".", ~Holds(name, x)
  PROVE  Free(fixed_name(name), x)
BY FixedNames DEF Holds, Free

(* What Route 53 makes of a batch on its way.                              *)
LEMMA BatchIsRead ==
  ASSUME Setup, FlowInv, MessageInv, pc = "post"
  PROVE  /\ args.cmd = "server"
         /\ message.path = <<args.zone[Len(args.zone)]>>
         /\ (\A i \in 1..Len(args.requests) : ~Holds(args.requests[i].name, "control")) =>
              Parses(message.body)
         /\ (\A i \in 1..Len(args.requests) : ~Holds(args.requests[i].name, "cr")) =>
              ReadBody(message.body) = build_changes(args.requests)
<1>1. args.cmd = "server"
  BY DEF FlowInv
<1>2. HostedZone(args.zone) /\ args.requests \in Seq(ResourceRecordSet)
  BY <1>1, SetupFacts DEF ClientArgs, ServerArgs, IPArgs
<1>3. ZonePath(args.zone) = <<args.zone[Len(args.zone)]>>
  BY <1>2, ZonePathIsZone
<1> DEFINE requests == args.requests
           changes == build_changes(requests)
<1>4. /\ changes \in Seq(Change) /\ Len(changes) = Len(requests)
      /\ \A i \in 1..Len(requests) : changes[i].name = fixed_name(requests[i].name)
  BY <1>2, ChangesAreBuilt
<1>5. ASSUME NEW i \in 1..Len(requests) PROVE requests[i].name \in Seq(NameChars)
  <2>1. requests[i] \in ResourceRecordSet
    BY <1>2
  <2> QED
    BY <2>1 DEF ResourceRecordSet
<1> HIDE DEF requests, changes
<1>6. ASSUME NEW x \in {"control", "cr"}, \A i \in 1..Len(requests) : ~Holds(requests[i].name, x)
      PROVE  \A i \in 1..Len(changes) : Free(changes[i].name, x)
  <2>1. ASSUME NEW i \in 1..Len(changes) PROVE Free(changes[i].name, x)
    <3>1. requests[i].name \in Seq(NameChars) /\ ~Holds(requests[i].name, x) /\ x # "."
      BY <1>4, <1>5, <1>6, <2>1
    <3>2. Free(fixed_name(requests[i].name), x)
      BY <3>1, DotsAreAdded
    <3> QED
      BY <1>4, <2>1, <3>2
  <2> QED
    BY <2>1
<1>7. message.body = build_change_xml(changes)
  BY DEF MessageInv, changes, requests
<1>8. (\A i \in 1..Len(requests) : ~Holds(requests[i].name, "control")) => Parses(message.body)
  BY <1>4, <1>6, <1>7, BodyIsRead
<1>9. (\A i \in 1..Len(requests) : ~Holds(requests[i].name, "cr")) =>
        ReadBody(message.body) = changes
  BY <1>4, <1>6, <1>7, BodyIsRead
<1> QED
  BY <1>1, <1>3, <1>8, <1>9 DEF MessageInv, requests, changes

(* Route 53 reads the batch that was built, for the zone that was meant.   *)
LEMMA MessagesArrive == Setup /\ FlowInv /\ MessageInv => ChangesArriveIntact
BY BatchIsRead DEF ChangesArriveIntact, Writable

(* A message that is on its way is accepted if it arrives in time.         *)
LEMMA MessagesAuthenticate == SizeInv /\ MessageInv => RequestsAuthenticate
<1> SUFFICES ASSUME SizeInv, MessageInv, pc = "post", InTime, Issued(mem.creds)
             PROVE  Authenticates(message.path, message.body, message.auth, clock)
  BY DEF RequestsAuthenticate
<1>1. PICK t \in 0..MaxClock :
        /\ message.auth = aws_sigv4_headers(message.path, message.body, mem.creds, t)
        /\ message.auth.headers.date = t
  BY DEF MessageInv
<1>2. t \in Nat /\ clock \in Nat /\ clock <= t + Timeout
  BY <1>1, ProcessAssumption DEF InTime, SizeInv
<1>3. Authenticates(message.path, message.body,
        aws_sigv4_headers(message.path, message.body, mem.creds, t), clock)
  BY <1>2, AuthenticatesInTime
<1> QED
  BY <1>1, <1>3

-----------------------------------------------------------------------------
(* Errors and successes *)

(* A drop that fails without a refused call has nobody to drop to, or root. *)
DropCause ==
  /\ dpc \in {"groups", "gid", "uid", "verify", "escalate"} =>
       user = Lookup(args.user) /\ host.ident.euid = 0
  /\ dpc \in {"groups", "gid", "uid"} => ident.euid = 0
  /\ dpc = "failed" => mishap \/ BadUser

(* No permitted call of the drop fails by itself.                          *)
LEMMA StepKeepsDropCause ==
  ASSUME Setup, FlowInv, IInv, DropCause, [Next]_vars
  PROVE  DropCause'
<1>1. /\ UNCHANGED <<args, host, passwd>>
      /\ UNCHANGED <<Lookup(args.user), BadUser>>
  BY SetupIsFixed DEF Lookup, BadUser, ReadsKeys
<1>2. DropInv
  BY DEF IInv
<1>3. mishap => mishap'
  BY DEF Next, Boot, ParseClientConfig, ParseServerConfig, ParseIpConfig, FileGrows,
     ReadMetadata, OpenFile, ReadToEnd, DropPrivileges, DropEnds, ClientLoadKey,
     ClientDummyKey, ClientQuery, IpQuery, ClientUpload, ServerCredentials, ServerFetches,
     ServerReadsDir, ServerSigns, ServerPosts, Tick, CallFails, Ended, procVars, vars
<1>4. ASSUME pc = "drop", host.ident.euid = 0,
             Lookup(args.user) \in User => Lookup(args.user).uid = 0
      PROVE  BadUser
  BY <1>4 DEF BadUser, FlowInv
<1>5. CASE DropPrivileges
  <2> pc = "drop"
    BY <1>5 DEF DropPrivileges
  <2>1. CASE DropStart(args.user)
    <3>1. ident = host.ident
      BY <1>2, <2>1 DEF DropStart, DropInv
    <3> QED
      BY <1>1, <1>4, <2>1, <3>1 DEF DropStart, DropCause
  <2>2. CASE setgroups
    BY <1>1, <1>2, <2>2 DEF setgroups, DropCause, DropInv, Identity
  <2>3. CASE setresgid
    <3>1. MaySetGid(ident, user.gid)
      BY <2>3 DEF setresgid, MaySetGid, DropCause
    <3> QED
      BY <1>1, <1>2, <2>3, <3>1 DEF setresgid, DropCause, DropInv, Identity
  <2>4. CASE setresuid
    <3>1. MaySetUid(ident, user.uid)
      BY <2>4 DEF setresuid, MaySetUid, DropCause
    <3> QED
      BY <1>1, <2>4, <3>1 DEF setresuid, DropCause
  <2>5. CASE DropVerify
    <3>1. ident.ruid = user.uid /\ ident.rgid = user.gid
      BY <1>2, <2>5 DEF DropVerify, DropInv, UidsDropped, GidsDropped
    <3> QED
      BY <1>1, <2>5, <3>1 DEF DropVerify, DropCause
  <2>6. CASE DropEscalate
    <3>1. CASE CanBeRoot(ident)
      <4>1. user.uid = 0
        BY <1>2, <2>6, <3>1 DEF DropEscalate, DropInv, UidsDropped, CanBeRoot, Uids
      <4>2. BadUser
        BY <1>4, <2>6, <4>1 DEF DropEscalate, DropCause
      <4> QED
        BY <1>1, <2>6, <3>1, <4>2 DEF DropEscalate, DropCause
    <3>2. CASE ~CanBeRoot(ident)
      BY <1>1, <2>6, <3>2 DEF DropEscalate, DropCause
    <3> QED
      BY <3>1, <3>2
  <2> QED
    BY <1>5, <2>1, <2>2, <2>3, <2>4, <2>5, <2>6 DEF DropPrivileges, DropStep
<1>6. CASE CallFails
  BY <1>1, <1>3, <1>6 DEF CallFails, DropRefused, DropCause, privVars
<1>7. CASE ~DropPrivileges /\ ~CallFails
  <2>1. /\ UNCHANGED <<ident, user>>
        /\ dpc' = dpc \/ dpc' = "start"
    BY <1>7 DEF Next, Boot, ParseClientConfig, ParseServerConfig, ParseIpConfig, FileGrows,
       ReadMetadata, OpenFile, ReadToEnd, DropEnds, ClientLoadKey, ClientDummyKey,
       ClientQuery, IpQuery, ClientUpload, ServerCredentials, ServerFetches,
       ServerReadsDir, ServerSigns, ServerPosts, Tick, Ended, privVars, vars
  <2> QED
    BY <1>1, <1>3, <2>1 DEF DropCause
<1> QED
  BY <1>5, <1>6, <1>7

(* A key that does not load has something wrong with it.                   *)
LEMMA KeyDoesNotLoad ==
  ASSUME Setup, FlowInv, SizeInv, pc = "load",
         ~load_ed25519_private_key(host.file, mem.buffer, key_password)
  PROVE  BadArguments \/ BadKeyFile \/ BadKey
<1>1. ReadsKeys /\ args.cmd = "client"
  BY DEF FlowInv
<1>2. host.file.format \in {"openssh", "openssl", "other"}
  BY SetupFacts
<1>3. SUFFICES ASSUME ~BadArguments, ~BadKeyFile PROVE BadKey
  OBVIOUS
<1>4. mem.buffer = host.file.length
  BY <1>1, <1>3 DEF SizeInv, BadKeyFile
<1>5. key_password = args.password
  BY <1>3 DEF BadArguments, key_password
<1> QED
  BY <1>1, <1>2, <1>4, <1>5
     DEF BadKey, load_ed25519_private_key, load_ed25519_openssh_private_key,
         load_ed25519_openssl_key, Decrypts

(* Why a process may fail: the right-hand side of ErrorsHaveACause.        *)
Causes ==
  \/ mishap \/ ~host.syslog
  \/ BadArguments \/ BadKeyFile \/ BadKey \/ BadUser \/ BadCredentials \/ BadNames
  \/ args.cmd = "ip" /\ Forbidden(host.address)

(* A cause does not go away.                                               *)
LEMMA CausesStay ==
  ASSUME [Next]_vars, Causes
  PROVE  Causes'
<1>1. UNCHANGED <<args, host, passwd>>
  BY SetupIsFixed
<1>2. mishap => mishap'
  BY DEF Next, Boot, ParseClientConfig, ParseServerConfig, ParseIpConfig, FileGrows,
     ReadMetadata, OpenFile, ReadToEnd, DropPrivileges, DropEnds, ClientLoadKey,
     ClientDummyKey, ClientQuery, IpQuery, ClientUpload, ServerCredentials, ServerFetches,
     ServerReadsDir, ServerSigns, ServerPosts, Tick, CallFails, Ended, procVars, vars
<1> QED
  BY <1>1, <1>2 DEF Causes, BadArguments, BadKeyFile, BadKey, BadUser, BadCredentials,
     BadNames, ReadsKeys, MayReadKeys, Lookup, Credentials, Forbidden

(* Whichever step ends the process badly, there was a cause for it.        *)
LEMMA StepHasACause ==
  ASSUME Setup, FlowInv, IInv, DomainInv, SizeInv, CredsInv, MessageInv, DropCause,
         [Next]_vars, status = "running", status' \in {"err", "must_be_root"}
  PROVE  Causes \/ mishap'
<1>1. /\ ClientArgs(args) \/ ServerArgs(args) \/ IPArgs(args)
      /\ host.size <= host.file.length /\ host.size \in Nat /\ host.file.length \in Nat
  BY SetupFacts
<1>2. FILE_SIZE_MAX_BYTES \in Nat
  BY ProcessAssumption
<1>3. ASSUME args.cmd = "client"
      PROVE  /\ args.domain \in Text /\ PlainDomain # Rejected
             /\ ~Accepted(args.domain) => ~HostName(PlainDomain)
             /\ Accepted(args.domain) => ParseDomain(trimmed_string(args.domain)) =
                                IF HostName(PlainDomain) THEN PlainDomain ELSE Rejected
    <2>1. args.domain \in Text
      BY <1>1, <1>3 DEF ClientArgs, ServerArgs, IPArgs
    <2> QED
      BY <2>1, ConfiguredDomain DEF PlainDomain
<1>4. ASSUME args.cmd = "client", ~HostName(PlainDomain) PROVE BadArguments
  BY <1>4 DEF BadArguments, PlainDomain
<1>5. ASSUME pc \in {"stat", "open", "readdir"}, ~MayReadKeys(ident) PROVE BadKeyFile
  BY <1>5 DEF BadKeyFile, FlowInv, IInv, DropInv, PhaseInv, MayReadKeys
<1>6. CASE Boot
  <2>1. SUFFICES ASSUME host.syslog PROVE BadArguments
    BY DEF Causes
  <2>2. ~Accepted(args.domain) \/ ~Accepted(args.password)
    BY <1>6, <2>1 DEF Boot
  <2>3. CASE args.cmd = "client" /\ ~Accepted(args.domain)
    BY <1>3, <1>4, <2>3
  <2>4. CASE args.cmd = "client" /\ ~Accepted(args.password)
    <3>1. args.password # None /\ trimmed_string(args.password) = Rejected
      BY <2>4 DEF Accepted
    <3>2. args.password \in Text
      BY <1>1, <2>4, <3>1 DEF ClientArgs, ServerArgs, IPArgs
    <3>3. args.password # Rejected
      BY <3>2, ProcessAssumption
    <3> QED
      BY <3>1, <3>3 DEF BadArguments
  <2>5. CASE args.cmd # "client"
    <3>1. args.domain = None /\ args.password = None
      BY <1>1, <2>5 DEF ClientArgs, ServerArgs, IPArgs
    <3> QED
      BY <2>2, <3>1 DEF Accepted
  <2> QED
    BY <2>2, <2>3, <2>4, <2>5
<1>7. CASE ParseClientConfig
  <2>1. args.cmd = "client" /\ pc = "config" /\ Accepted(args.domain)
    BY <1>7 DEF ParseClientConfig, DomainInv
  <2>2. ParseDomain(trimmed_string(args.domain)) = Rejected
    BY <1>7 DEF ParseClientConfig
  <2> QED
    BY <1>3, <1>4, <2>1, <2>2 DEF Causes
<1>8. CASE ParseIpConfig
  BY <1>8 DEF ParseIpConfig, Causes, BadArguments
<1>9. CASE ReadMetadata
  <2>1. CASE ~MayReadKeys(ident)
    BY <1>5, <1>9, <2>1 DEF ReadMetadata, Causes
  <2>2. CASE MayReadKeys(ident) /\ status' \in {"err", "must_be_root"}
    <3>1. size > FILE_SIZE_MAX_BYTES /\ ReadsKeys
      BY <1>9, <2>2 DEF ReadMetadata, FlowInv
    <3>2. host.file.length > FILE_SIZE_MAX_BYTES
      BY <1>1, <1>2, <3>1 DEF SizeInv
    <3> QED
      BY <3>1, <3>2 DEF Causes, BadKeyFile
  <2> QED
    BY <2>1, <2>2
<1>10. CASE OpenFile \/ ServerReadsDir
  BY <1>5, <1>10 DEF OpenFile, ServerReadsDir, Causes
<1>11. CASE DropEnds
  BY <1>11 DEF DropEnds, DropCause, Causes
<1>12. CASE ClientLoadKey
  <2>1. pc = "load" /\ ~load_ed25519_private_key(host.file, mem.buffer, key_password)
    BY <1>12 DEF ClientLoadKey
  <2> QED
    BY <2>1, KeyDoesNotLoad DEF Causes
<1>13. CASE IpQuery
  BY <1>13 DEF IpQuery, Causes
<1>14. CASE ClientUpload
  BY <1>14 DEF ClientUpload, FlowInv, Causes, BadCredentials
<1>15. CASE ServerCredentials
  BY <1>15 DEF ServerCredentials, FlowInv, Causes, BadCredentials, Issued
<1>16. CASE ServerFetches
  <2>1. ~Issued(mem.creds) /\ args.cmd = "server" /\ pc = "fetch"
    BY <1>16 DEF ServerFetches, FlowInv
  <2>2. mem.creds = Credentials
    BY <2>1 DEF CredsInv
  <2> QED
    BY <2>1, <2>2 DEF Causes, BadCredentials
<1>17. CASE ServerPosts
  <2>1. pc = "post" /\ InTime /\ args.cmd = "server"
    BY <1>17 DEF ServerPosts, FlowInv
  <2>2. Issued(mem.creds)
    BY <2>1 DEF CredsInv
  <2>3. Authenticates(message.path, message.body, message.auth, clock)
    BY <2>1, <2>2, MessagesAuthenticate DEF RequestsAuthenticate
  <2>4. CASE Parses(message.body)
    BY <1>17, <2>3, <2>4 DEF ServerPosts
  <2>5. CASE ~Parses(message.body)
    BY <2>1, <2>5, BatchIsRead DEF Causes, BadNames
  <2> QED
    BY <2>4, <2>5
<1>18. CASE CallFails
  BY <1>18 DEF CallFails
<1>19. CASE \/ ParseServerConfig \/ FileGrows \/ ReadToEnd \/ DropPrivileges
            \/ ClientDummyKey \/ ClientQuery \/ ServerSigns \/ Tick \/ Ended
            \/ UNCHANGED vars
  BY <1>19 DEF ParseServerConfig, FileGrows, ReadToEnd, DropPrivileges, ClientDummyKey,
     ClientQuery, ServerSigns, Tick, Ended, procVars, vars
<1> QED
  BY <1>6, <1>7, <1>8, <1>9, <1>10, <1>11, <1>12, <1>13, <1>14, <1>15, <1>16, <1>17,
     <1>18, <1>19 DEF Next

(* Nothing happens to a process that has ended.                            *)
LEMMA EndIsFinal ==
  ASSUME [Next]_vars, pc = "end"
  PROVE  UNCHANGED vars
<1>1. /\ ~Boot /\ ~ParseClientConfig /\ ~ParseServerConfig /\ ~ParseIpConfig
      /\ ~FileGrows /\ ~ReadMetadata /\ ~OpenFile /\ ~ReadToEnd
      /\ ~DropPrivileges /\ ~DropEnds
      /\ ~ClientLoadKey /\ ~ClientDummyKey /\ ~ClientQuery /\ ~IpQuery /\ ~ClientUpload
  BY DEF Boot, ParseClientConfig, ParseServerConfig, ParseIpConfig, FileGrows,
     ReadMetadata, OpenFile, ReadToEnd, DropPrivileges, DropEnds, ClientLoadKey,
     ClientDummyKey, ClientQuery, IpQuery, ClientUpload
<1>2. /\ ~ServerCredentials /\ ~ServerFetches /\ ~ServerReadsDir /\ ~ServerSigns
      /\ ~ServerPosts /\ ~Tick /\ ~CallFails
  BY DEF ServerCredentials, ServerFetches, ServerReadsDir, ServerSigns, ServerPosts,
     Tick, CallFails
<1> QED
  BY <1>1, <1>2, Zenon DEF Next, Ended

(* What a process has put out when it ends well.                           *)
LEMMA StepEarnsSuccess ==
  ASSUME Setup, FlowInv, MemFields, DomainInv, KeyInv, SuccessIsEarned, [Next]_vars
  PROVE  SuccessIsEarned'
<1>1. UNCHANGED <<args, host, PlainDomain, OwnKey>>
  BY SetupIsFixed DEF PlainDomain, OwnKey
<1>2. SUFFICES ASSUME status' = "ok" PROVE SuccessIsEarned'
  BY DEF SuccessIsEarned
<1>3. CASE pc = "end"
  BY <1>3, EndIsFinal DEF SuccessIsEarned, vars, procVars
<1>4. CASE pc # "end"
  <2>1. CASE args.cmd = "client" /\ ~args.dry
    <3>1. status # "ok"
      BY <1>4 DEF FlowInv
    <3>2. ClientUpload
      BY <1>2, <2>1, <3>1
         DEF FlowInv, ReadsKeys, Next, Boot, ParseClientConfig, ParseServerConfig, ParseIpConfig,
         FileGrows, ReadMetadata, OpenFile, ReadToEnd, DropPrivileges, DropEnds,
         ClientLoadKey, ClientDummyKey, ClientQuery, IpQuery, ServerCredentials,
         ServerFetches, ServerReadsDir, ServerSigns, ServerPosts, Tick, CallFails, Ended,
         procVars, vars
    <3>3. out' = [name |-> mem.domain, address |-> mem.address, signer |-> mem.key]
      BY <1>2, <2>1, <3>2 DEF ClientUpload
    <3>4. mem.domain = PlainDomain /\ mem.address = host.address /\ mem.key = OwnKey
      BY <2>1, <3>2 DEF ClientUpload, DomainInv, KeyInv
    <3> QED
      BY <1>1, <2>1, <3>3, <3>4 DEF SuccessIsEarned, PlainDomain, OwnKey
  <2>2. CASE args.cmd = "ip" /\ args.public
    <3>1. status # "ok"
      BY <1>4 DEF FlowInv
    <3>2. IpQuery
      BY <1>2, <2>2, <3>1
         DEF FlowInv, ReadsKeys, Next, Boot, ParseClientConfig, ParseServerConfig, ParseIpConfig,
         FileGrows, ReadMetadata, OpenFile, ReadToEnd, DropPrivileges, DropEnds,
         ClientLoadKey, ClientDummyKey, ClientQuery, ClientUpload, ServerCredentials,
         ServerFetches, ServerReadsDir, ServerSigns, ServerPosts, Tick, CallFails, Ended,
         procVars, vars
    <3>3. ~Forbidden(host.address) /\ out' = host.address
      BY <1>2, <3>2 DEF IpQuery
    <3>4. host.address \in {"v4", "v6"}
      BY SetupFacts
    <3> QED
      BY <1>1, <2>2, <3>3, <3>4 DEF SuccessIsEarned, Forbidden
  <2>3. CASE /\ ~(args.cmd = "client" /\ ~args.dry)
             /\ ~(args.cmd = "ip" /\ args.public)
    BY <1>1, <2>3 DEF SuccessIsEarned
  <2> QED
    BY <2>1, <2>2, <2>3
<1> QED
  BY <1>3, <1>4

-----------------------------------------------------------------------------
(* The invariant of a process *)

(* Where the drop is and whom it drops to, as types.                       *)
DropTypes ==
  /\ dpc \in DropPhases
  /\ user \in User \cup {NoUser}
  /\ mishap \in BOOLEAN

(* The drop moves between its phases.                                      *)
LEMMA StepKeepsDropTypes ==
  ASSUME DropTypes, [Next]_vars
  PROVE  DropTypes'
<1> USE DEF DropTypes, DropPhases
<1>1. CASE DropPrivileges
  <2>1. UNCHANGED mishap
    BY <1>1 DEF DropPrivileges, procVars
  <2>2. CASE DropStart(args.user)
    BY <2>1, <2>2 DEF DropStart
  <2>3. CASE DropStep
    BY <2>1, <2>3 DEF DropStep, setgroups, setresgid, setresuid, DropVerify, DropEscalate
  <2> QED
    BY <1>1, <2>2, <2>3 DEF DropPrivileges
<1>2. CASE CallFails
  BY <1>2 DEF CallFails, DropRefused, privVars
<1>3. CASE ~DropPrivileges /\ ~CallFails
  <2>1. UNCHANGED <<user, mishap>> /\ dpc' \in {dpc, "start"}
    BY <1>3 DEF Next, Boot, ParseClientConfig, ParseServerConfig, ParseIpConfig, FileGrows,
       ReadMetadata, OpenFile, ReadToEnd, DropEnds, ClientLoadKey, ClientDummyKey,
       ClientQuery, IpQuery, ClientUpload, ServerCredentials, ServerFetches,
       ServerReadsDir, ServerSigns, ServerPosts, Tick, Ended, privVars, procVars, vars
  <2> QED
    BY <2>1
<1> QED
  BY <1>1, <1>2, <1>3

(* Everything a process keeps true, from exec to exit.                     *)
ProcessInv ==
  /\ Setup /\ FlowInv /\ MemFields /\ DropTypes
  /\ IInv /\ DropCause
  /\ DomainInv /\ SizeInv /\ KeyInv /\ CredsInv /\ MessageInv
  /\ ErrorsHaveACause /\ SuccessIsEarned

(* The invariant of a process holds at exec.                               *)
LEMMA InitProcess == Init => ProcessInv
<1> SUFFICES ASSUME Init PROVE ProcessInv
  OBVIOUS
<1>1. Setup
  BY DEF Init, Setup
<1>2. FlowInv /\ MemFields /\ DropTypes /\ DropCause
  BY DEF Init, FlowInv, Phases, MemFields, DropTypes, DropPhases, DropCause
<1>3. DomainInv /\ KeyInv /\ CredsInv /\ MessageInv
  BY DEF Init, DomainInv, KeyInv, CredsInv, MessageInv
<1>4. SizeInv
  BY <1>1, SetupFacts DEF Init, SizeInv
<1>5. ErrorsHaveACause /\ SuccessIsEarned
  BY DEF Init, ErrorsHaveACause, SuccessIsEarned
<1> QED
  BY <1>1, <1>2, <1>3, <1>4, <1>5, InitDrop DEF ProcessInv

(* A process that has failed had a cause, and still has it.                *)
LEMMA StepKeepsCauses ==
  ASSUME ProcessInv, [Next]_vars
  PROVE  ErrorsHaveACause'
<1> USE DEF ProcessInv
<1>1. ErrorsHaveACause = (status \in {"err", "must_be_root"} => Causes)
  BY DEF ErrorsHaveACause, Causes
<1>2. ErrorsHaveACause' = (status' \in {"err", "must_be_root"} => Causes')
  BY DEF ErrorsHaveACause, Causes
<1>3. SUFFICES ASSUME status' \in {"err", "must_be_root"} PROVE Causes'
  BY <1>2
<1>4. CASE status = "running"
  BY <1>3, <1>4, StepHasACause, CausesStay DEF Causes
<1>5. CASE status # "running"
  <2>1. UNCHANGED vars
    BY <1>5, EndIsFinal DEF FlowInv
  <2>2. Causes
    BY <1>1, <1>3, <2>1 DEF vars, procVars
  <2> QED
    BY <2>2, CausesStay
<1> QED
  BY <1>4, <1>5

(* Every step keeps the invariant of a process.                            *)
LEMMA StepKeepsProcess ==
  ASSUME ProcessInv, [Next]_vars
  PROVE  ProcessInv'
<1> USE DEF ProcessInv
<1>1. Setup'
  BY SetupIsFixed DEF Setup
<1>2. FlowInv' /\ MemFields' /\ DropTypes'
  BY StepKeepsFlow, MemMoves, StepKeepsDropTypes
<1>3. IInv' /\ DropCause'
  BY StepKeepsIInv, StepKeepsDropCause
<1>4. DomainInv' /\ SizeInv'
  BY StepKeepsDomain, StepKeepsSize
<1>5. KeyInv' /\ CredsInv' /\ MessageInv'
  BY StepKeepsKey, StepKeepsCreds, StepKeepsMessage
<1>6. ErrorsHaveACause' /\ SuccessIsEarned'
  BY StepKeepsCauses, StepEarnsSuccess
<1> QED
  BY <1>1, <1>2, <1>3, <1>4, <1>5, <1>6

(***************************************************************************)
(* The invariant holds in every state of a process, whatever its           *)
(* arguments, its machine and the calls that fail.                         *)
(***************************************************************************)
THEOREM ProcessInvariant == Spec => []ProcessInv
<1>1. Init => ProcessInv
  BY InitProcess
<1>2. ProcessInv /\ [Next]_vars => ProcessInv'
  BY StepKeepsProcess
<1> QED
  BY <1>1, <1>2, PTL DEF Spec

(* The invariant has the types in it.                                      *)
LEMMA ProcessTypes == ProcessInv => TypeOK
<1> SUFFICES ASSUME ProcessInv PROVE TypeOK
  OBVIOUS
<1> USE DEF ProcessInv
<1>1. PrivTypeOK
  BY SetupFacts DEF PrivTypeOK, IInv, DropInv, DropTypes
<1>2. size \in 0..host.file.length /\ clock \in 0..MaxClock
  BY SetupFacts DEF SizeInv
<1>3. pc \in {"dummy", "load", "query", "upload"} /\ args.cmd = "client" => mem.domain # None
  BY DEF DomainInv
<1>4. pc = "upload" => mem.key # None /\ mem.address # None
  <2> SUFFICES ASSUME pc = "upload" PROVE mem.key # None /\ mem.address # None
    OBVIOUS
  <2>1. mem.key = OwnKey /\ mem.address = host.address
    BY DEF FlowInv, KeyInv
  <2>2. None \notin {"v4", "v6", dummy_ed25519_private_key}
    BY ProcessAssumption
  <2>3. host.address # None
    BY <2>2, SetupFacts
  <2>4. OwnKey # None
    BY <2>2, SetupFacts DEF OwnKey
  <2> QED
    BY <2>1, <2>3, <2>4
<1>5. pc \in {"fetch", "readdir", "build", "post"} => mem.creds # None
  BY DEF FlowInv, CredsInv
<1> QED
  BY <1>1, <1>2, <1>3, <1>4, <1>5 DEF TypeOK, FlowInv, DropTypes

(***************************************************************************)
(* A process is well formed throughout: it has an exit status exactly when *)
(* it has ended, and never uploads or posts without the key, the address   *)
(* or the credentials that takes.                                          *)
(***************************************************************************)
THEOREM ProcessTypeCorrect == Spec => []TypeOK
BY ProcessInvariant, ProcessTypes, PTL

(* A client's domain is what ParseDomain makes of a host name.             *)
LEMMA DomainsAreParsed == ProcessInv => DomainsAreHostNames
<1> SUFFICES ASSUME ProcessInv, args.cmd = "client", host.syslog
             PROVE  /\ mem.domain # None => /\ HostName(mem.domain)
                                            /\ mem.domain = PlainDomain
                                            /\ ParseDomain(mem.domain) = mem.domain
                    /\ pc = "end" /\ mem.domain = None /\ Accepted(args.password) =>
                         ~HostName(PlainDomain)
  BY DEF DomainsAreHostNames, PlainDomain
<1>1. args.domain \in Text
  BY SetupFacts DEF ProcessInv, ClientArgs, ServerArgs, IPArgs
<1>2. HostName(PlainDomain) => ParseDomain(PlainDomain) = PlainDomain
  BY <1>1, ConfiguredDomain DEF PlainDomain
<1> QED
  BY <1>2 DEF ProcessInv, DomainInv

(***************************************************************************)
(* A client gets a domain exactly if its argument is a host name, and the  *)
(* one spelling of it that the server's certificate directory uses.        *)
(***************************************************************************)
THEOREM ClientDomainIsHostName == Spec => []DomainsAreHostNames
BY ProcessInvariant, DomainsAreParsed, PTL

(***************************************************************************)
(* Whatever the order of reading, dropping and loading meets, a process    *)
(* fails only for a wrong set-up or a call that failed outside of it.      *)
(***************************************************************************)
THEOREM FailuresAreExplained == Spec => []ErrorsHaveACause
<1>1. ProcessInv => ErrorsHaveACause
  BY DEF ProcessInv
<1> QED
  BY <1>1, ProcessInvariant, PTL

(***************************************************************************)
(* A client or an ip query that ends well has put out what it was asked    *)
(* for: the domain, the address and the signer, or an address of the       *)
(* family.                                                                 *)
(***************************************************************************)
THEOREM SuccessMeansDone == Spec => []SuccessIsEarned
<1>1. ProcessInv => SuccessIsEarned
  BY DEF ProcessInv
<1> QED
  BY <1>1, ProcessInvariant, PTL

(***************************************************************************)
(* A batch signed with issued credentials is accepted whenever it arrives  *)
(* before the client stops waiting: its scope, its token and its headers   *)
(* are those AWS computes, on either side of midnight.                     *)
(***************************************************************************)
THEOREM SignedInTimeIsAccepted == Spec => []RequestsAuthenticate
<1>1. ProcessInv => RequestsAuthenticate
  BY MessagesAuthenticate DEF ProcessInv
<1> QED
  BY <1>1, ProcessInvariant, PTL

(***************************************************************************)
(* Nothing is lost between the server and Route 53: however the zone was   *)
(* spelled and whatever the names of the requests are made of, but for     *)
(* control characters and carriage returns, the service reads the changes  *)
(* that were built, in that zone.                                          *)
(***************************************************************************)
THEOREM ChangesArrive == Spec => []ChangesArriveIntact
<1>1. ProcessInv => ChangesArriveIntact
  BY MessagesArrive DEF ProcessInv
<1> QED
  BY <1>1, ProcessInvariant, PTL
=============================================================================
