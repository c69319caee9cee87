--------------------------- MODULE DyndynserProofs ---------------------------
(***************************************************************************)
(* Proofs about Dyndynser that hold for every set of clients, servers,     *)
(* names, keys and certificates and for every value of the bounds.         *)
(***************************************************************************)
EXTENDS Dyndynser, TLAPS

-----------------------------------------------------------------------------
(* Types *)

(* A timestamp is an integer, so that what sign builds is a Request.       *)
LEMMA SignType ==
  ASSUME NEW name \in Names, NEW a \in Addrs, NEW time \in Int, NEW key \in Keys
  PROVE  sign(name, a, time, key) \in Request
<1>1. timestamp(time) \in Int
  BY RequestsAssumption DEF timestamp
<1>2. QED
  BY <1>1 DEF sign, Request

(* A client stores its request under a key of the bucket.                  *)
LEMMA FilenameType ==
  ASSUME NEW name \in Names
  PROVE  make_filename(name) \in S3Keys
BY DEF S3Keys, DdnsKeys

(* An accepted batch of requests leaves a zone of requests.                *)
LEMMA UpsertType ==
  ASSUME CloudTypeOK, NEW batch \in SUBSET Request, UpsertAll(batch)
  PROVE  dns' \in [Targets -> Request \cup {NoRecord}]
<1>1. PICK win \in SUBSET batch :
        dns' = [t \in Targets |->
                  IF \E r \in win : TargetOf(r) = t
                  THEN CHOOSE r \in win : TargetOf(r) = t
                  ELSE dns[t]]
  BY DEF UpsertAll
<1>2. ASSUME NEW t \in Targets, \E r \in win : TargetOf(r) = t
      PROVE  (CHOOSE r \in win : TargetOf(r) = t) \in Request
  BY <1>2
<1>3. \A t \in Targets : dns[t] \in Request \cup {NoRecord}
  BY DEF CloudTypeOK
<1>4. QED
  BY <1>1, <1>2, <1>3

(* Recording an error keeps the type of ServerErrors.                      *)
LEMMA ErrorsType ==
  ASSUME NEW e \in ServerErrors
  PROVE  /\ \A k \in S3Keys : /\ FetchFailed(e, k) \in ServerErrors
                             /\ ParseFailed(e, k) \in ServerErrors
                             /\ DeleteFailed(e, k) \in ServerErrors
         /\ \A p \in CertPaths : KeyFailed(e, p) \in ServerErrors
         /\ \A n \in Names : CheckFailed(e, n) \in ServerErrors
<1>1. ASSUME NEW k \in S3Keys PROVE FetchFailed(e, k) \in ServerErrors
  BY DEF ServerErrors, FetchFailed
<1>2. ASSUME NEW k \in S3Keys PROVE ParseFailed(e, k) \in ServerErrors
  BY DEF ServerErrors, ParseFailed
<1>3. ASSUME NEW k \in S3Keys PROVE DeleteFailed(e, k) \in ServerErrors
  BY DEF ServerErrors, DeleteFailed
<1>4. ASSUME NEW p \in CertPaths PROVE KeyFailed(e, p) \in ServerErrors
  BY DEF ServerErrors, KeyFailed
<1>5. ASSUME NEW n \in Names PROVE CheckFailed(e, n) \in ServerErrors
  BY DEF ServerErrors, CheckFailed
<1>6. QED
  BY <1>1, <1>2, <1>3, <1>4, <1>5

(* The end of a run leaves the server's variables with their types.        *)
LEMMA ExitType ==
  ASSUME ServerTypeOK, NEW s \in Servers,
         NEW status \in {"none", "ok", "err", "killed"}, Exit(s, status),
         errors' \in [Servers -> ServerErrors]
  PROVE  ServerTypeOK'
<1>1. NothingHeld \in [S3Keys -> Request \cup {NoObject}]
  BY DEF NothingHeld
<1>2. NoCerts \in [Names -> Keys \cup {NoKey}]
  BY DEF NoCerts
<1>3. QED
  BY <1>1, <1>2 DEF Exit, ServerTypeOK, Phases

(* The initial state is well typed.                                        *)
LEMMA TypeInit == Init => TypeOK
<1> SUFFICES ASSUME Init PROVE TypeOK
  OBVIOUS
<1>1. CloudTypeOK
  BY CloudAssumption DEF Init, CloudInit, CloudTypeOK, Objects
<1>2. ClientTypeOK
  BY ClientAssumption DEF Init, ClientInit, ClientTypeOK
<1>3. DirTypeOK
  BY KeyDirectoryAssumption DEF Init, DirInit, DirTypeOK
<1>4. ServerTypeOK
  BY DEF Init, ServerInit, ServerTypeOK, Phases, NothingHeld, NoCerts,
         NoErrors, ServerErrors
<1>5. QED
  BY <1>1, <1>2, <1>3, <1>4 DEF TypeOK

(* What the lookup learns from a certificate file is one of its keys.      *)
LEMMA LearnType ==
  ASSUME NEW m \in [Names -> Keys \cup {NoKey}], NEW f \in CertFile
  PROVE  Learn(m, f) \in [Names -> Keys \cup {NoKey}]
<1>1. f.cn \in Names /\ f.vk \in Keys
  BY DEF CertFile, Keys
<1>2. QED
  BY <1>1 DEF Learn

(* A file of the directory is one of the known certificate files.          *)
LEMMA InstalledKnown ==
  ASSUME DirTypeOK, NEW p \in Installed
  PROVE  keydir[p] \in KnownKeys /\ keydir[p] \in CertFile
BY KeyDirectoryAssumption DEF DirTypeOK, Installed, KnownKeys

(* A step of a client process, or of its failures, keeps the types.        *)
LEMMA ClientType ==
  ASSUME TypeOK, NEW c \in Clients, ClientNext(c)
  PROVE  TypeOK'
<1>1. ServerTypeOK' /\ DirTypeOK'
  BY DEF TypeOK, ClientNext, serverVars, dirVars, ServerTypeOK, DirTypeOK
<1>2. MachineOf[c] \in Machines
  BY ClientAssumption
<1> USE DEF TypeOK, CloudTypeOK, ClientTypeOK, cloudVars
<1>3. CASE ClientQueryIp(c)
  BY <1>1, <1>2, <1>3 DEF ClientQueryIp
<1>4. CASE ClientSign(c)
  <2>1. machine_time(c) \in Int
    BY <1>2, CloudAssumption, ClientAssumption DEF machine_time
  <2> ClientName[c] \in Names /\ queried[c] \in Addrs
    BY <1>4, ClientAssumption DEF ClientSign
  <2>2. signing_key(c) \in Keys
    BY ClientAssumption DEF signing_key, Keys
  <2>3. sign(ClientName[c], queried[c], machine_time(c), signing_key(c)) \in Request
    BY <2>1, <2>2, SignType
  <2>4. QED
    BY <1>1, <1>4, <2>3 DEF ClientSign
<1>5. CASE ClientPut(c)
  <2>1. signed[c] \in Request
    BY <1>5 DEF ClientPut
  <2>2. bucket' \in [S3Keys -> Objects]
    BY <1>5, <2>1 DEF ClientPut, PutObject, Objects
  <2>3. QED
    BY <1>1, <1>5, <2>2 DEF ClientPut, ClientExit
<1>6. CASE ClientDryRun(c)
  BY <1>1, <1>6 DEF ClientDryRun, ClientExit
<1>7. CASE ClientAbort(c)
  BY <1>1, <1>7, CloudAssumption DEF ClientAbort, ClientExit, Fault
<1>8. QED
  BY <1>3, <1>4, <1>5, <1>6, <1>7 DEF ClientNext, ClientStep

(* A step of a server run, or of its failures, keeps the types.            *)
LEMMA ServerType ==
  ASSUME TypeOK, AcceptedWereFetched, NEW s \in Servers, ServerNext(s)
  PROVE  TypeOK'
<1>1. ClientTypeOK' /\ DirTypeOK'
  BY DEF TypeOK, ServerNext, clientVars, dirVars, ClientTypeOK, DirTypeOK
<1>2. ServerTypeOK /\ CloudTypeOK /\ DirTypeOK
  BY DEF TypeOK
<1>3. ASSUME Fault PROVE faults' \in 0..MaxFaults
  BY <1>2, <1>3, CloudAssumption DEF Fault, CloudTypeOK
<1>4. ASSUME NEW status \in {"ok", "err", "killed"}, Exit(s, status),
             errors' \in [Servers -> ServerErrors]
      PROVE  ServerTypeOK'
  BY <1>2, <1>4, ExitType
<1>5. ASSUME UNCHANGED errors PROVE errors' \in [Servers -> ServerErrors]
  BY <1>2, <1>5 DEF ServerTypeOK
<1>6. ASSUME UNCHANGED cloudVars PROVE CloudTypeOK'
  BY <1>2, <1>6 DEF CloudTypeOK, cloudVars
<1>7. ASSUME Fault, UNCHANGED <<bucket, dns, now>> PROVE CloudTypeOK'
  BY <1>2, <1>3, <1>7 DEF CloudTypeOK
<1>8. HeldKeys(s) \in SUBSET S3Keys
  BY DEF HeldKeys
<1>9. ASSUME spc[s] = "commit", UpsertAll(Changes(s))
      PROVE  dns' \in [Targets -> Request \cup {NoRecord}]
  <2>1. Changes(s) \in SUBSET Request
    BY <1>2 DEF Changes, AcceptedWereFetched, HeldKeys, ServerTypeOK
  <2>2. QED
    BY <1>2, <1>9, <2>1, UpsertType
<1>10. SUFFICES CloudTypeOK' /\ ServerTypeOK'
  BY <1>1 DEF TypeOK
<1>11. CASE ServerStart(s)
  <2>1. ServerTypeOK'
    BY <1>2, <1>11, ServerAssumption
       DEF ServerStart, Goto, ServerTypeOK, Phases, NoErrors, ServerErrors
  <2>2. QED
    BY <1>6, <1>11, <2>1 DEF ServerStart
<1>12. CASE ServerListPage(s)
  <2>1. ServerTypeOK'
    BY <1>2, <1>12 DEF ServerListPage, Goto, ServerTypeOK, Phases
  <2>2. QED
    BY <1>6, <1>12, <2>1 DEF ServerListPage
<1>13. ASSUME NEW k \in S3Keys, ServerFetch(s, k) PROVE CloudTypeOK' /\ ServerTypeOK'
  <2>1. errors' \in [Servers -> ServerErrors]
    <3>1. \/ errors' = [errors EXCEPT ![s] = ParseFailed(errors[s], k)]
          \/ errors' = [errors EXCEPT ![s] = FetchFailed(errors[s], k)]
          \/ errors' = errors
      BY <1>13, Zenon DEF ServerFetch
    <3>2. /\ ParseFailed(errors[s], k) \in ServerErrors
          /\ FetchFailed(errors[s], k) \in ServerErrors
      BY <1>2, ErrorsType DEF ServerTypeOK
    <3>3. QED
      BY <1>2, <3>1, <3>2 DEF ServerTypeOK
  <2>2. held' \in [Servers -> [S3Keys -> Request \cup {NoObject}]]
    <3>1. CASE UNCHANGED held
      BY <1>2, <3>1 DEF ServerTypeOK
    <3>2. CASE bucket[k] \in Request /\ held' = [held EXCEPT ![s][k] = bucket[k]]
      BY <1>2, <3>2 DEF ServerTypeOK
    <3>3. QED
      BY <1>13, <3>1, <3>2 DEF ServerFetch
  <2>3. work' \in [Servers -> SUBSET S3Keys]
    BY <1>2, <1>13 DEF ServerFetch, ServerTypeOK
  <2>4. ServerTypeOK'
    BY <1>2, <1>13, <2>1, <2>2, <2>3 DEF ServerFetch, ServerTypeOK
  <2>5. QED
    BY <1>6, <1>13, <2>4 DEF ServerFetch
<1>14. ASSUME NEW k \in S3Keys, ServerFetchFails(s, k)
       PROVE  CloudTypeOK' /\ ServerTypeOK'
  <2>1. ServerTypeOK'
    BY <1>2, <1>14, ErrorsType DEF ServerFetchFails, ServerTypeOK
  <2>2. QED
    BY <1>7, <1>14, <2>1 DEF ServerFetchFails
<1>15. CASE ServerFetched(s)
  <2>1. CASE Exit(s, "ok")
    BY <1>4, <1>5, <1>6, <1>15, <2>1 DEF ServerFetched
  <2>2. CASE ~Exit(s, "ok")
    <3>1. spc' \in [Servers -> Phases]
      <4>1. Goto(s, "validate") \/ Goto(s, "keys")
        BY <1>15, <2>2, Zenon DEF ServerFetched
      <4>2. QED
        BY <1>2, <4>1 DEF Goto, ServerTypeOK, Phases
    <3>2. work' \in [Servers -> SUBSET S3Keys]
      BY <1>2, <1>8, <1>15, <2>2 DEF ServerFetched, ServerTypeOK
    <3>3. UNCHANGED <<dry, skip, covered, held, files, certs, verified, exit, errors>>
      BY <1>15, <2>2 DEF ServerFetched
    <3>4. ServerTypeOK'
      BY <1>2, <3>1, <3>2, <3>3 DEF ServerTypeOK
    <3>5. QED
      BY <1>6, <1>15, <3>4 DEF ServerFetched
  <2>3. QED
    BY <2>1, <2>2
<1>16. CASE ServerNextPage(s)
  <2>1. ServerTypeOK'
    BY <1>2, <1>16 DEF ServerNextPage, Goto, ServerTypeOK, Phases
  <2>2. QED
    BY <1>6, <1>16, <2>1 DEF ServerNextPage
<1>17. CASE ServerReadDir(s)
  <2>1. Installed \in SUBSET CertPaths
    BY DEF Installed
  <2>2. ServerTypeOK'
    BY <1>2, <1>17, <2>1 DEF ServerReadDir, Goto, ServerTypeOK, Phases
  <2>3. QED
    BY <1>6, <1>17, <2>2 DEF ServerReadDir
<1>18. ASSUME NEW p \in CertPaths, ServerReadKey(s, p)
       PROVE  CloudTypeOK' /\ ServerTypeOK'
  <2>1. CASE Exit(s, "err") /\ UNCHANGED errors
    BY <1>4, <1>5, <1>6, <1>18, <2>1 DEF ServerReadKey
  <2>2. CASE ~(Exit(s, "err") /\ UNCHANGED errors)
    <3>1. /\ p \in Installed
          /\ files' = [files EXCEPT ![s] = files[s] \ {p}]
          /\ UNCHANGED <<spc, dry, skip, covered, work, held, verified, exit>>
      BY <1>18, <2>2 DEF ServerReadKey, CanRead
    <3>2. certs' \in [Servers -> [Names -> Keys \cup {NoKey}]]
      <4>1. \/ certs' = [certs EXCEPT ![s] = Learn(certs[s], keydir[p])]
            \/ certs' = certs
        BY <1>18, <2>2, Zenon DEF ServerReadKey
      <4>2. Learn(certs[s], keydir[p]) \in [Names -> Keys \cup {NoKey}]
        BY <1>2, <3>1, InstalledKnown, LearnType DEF ServerTypeOK
      <4>3. QED
        BY <1>2, <4>1, <4>2 DEF ServerTypeOK
    <3>3. errors' \in [Servers -> ServerErrors]
      <4>1. \/ errors' = [errors EXCEPT ![s] = KeyFailed(errors[s], p)]
            \/ errors' = errors
        BY <1>18, <2>2, Zenon DEF ServerReadKey
      <4>2. KeyFailed(errors[s], p) \in ServerErrors
        BY <1>2, ErrorsType DEF ServerTypeOK
      <4>3. QED
        BY <1>2, <4>1, <4>2 DEF ServerTypeOK
    <3>4. ServerTypeOK'
      BY <1>2, <3>1, <3>2, <3>3 DEF ServerTypeOK
    <3>5. QED
      BY <1>6, <1>18, <3>4 DEF ServerReadKey
  <2>3. QED
    BY <2>1, <2>2
<1>19. CASE ServerKeysLoaded(s)
  <2>1. CASE Exit(s, "ok")
    BY <1>4, <1>5, <1>6, <1>19, <2>1 DEF ServerKeysLoaded
  <2>2. CASE ~Exit(s, "ok")
    <3>1. /\ Goto(s, "validate")
          /\ work' = [work EXCEPT ![s] = HeldKeys(s)]
          /\ UNCHANGED <<dry, skip, covered, held, files, certs, verified, exit, errors>>
      BY <1>19, <2>2 DEF ServerKeysLoaded
    <3>2. spc' \in [Servers -> Phases] /\ work' \in [Servers -> SUBSET S3Keys]
      BY <1>2, <1>8, <3>1 DEF Goto, ServerTypeOK, Phases
    <3>3. ServerTypeOK'
      BY <1>2, <3>1, <3>2 DEF ServerTypeOK
    <3>4. QED
      BY <1>6, <1>19, <3>3 DEF ServerKeysLoaded
  <2>3. QED
    BY <2>1, <2>2
<1>20. ASSUME NEW k \in S3Keys, ServerValidate(s, k)
       PROVE  CloudTypeOK' /\ ServerTypeOK'
  <2>1. held[s][k] \in Request /\ held[s][k].name \in Names
    BY <1>2, <1>20
       DEF ServerValidate, AcceptedWereFetched, HeldKeys, ServerTypeOK, Request
  <2>2. errors' \in [Servers -> ServerErrors]
    <3>1. \/ errors' = [errors EXCEPT ![s] = CheckFailed(errors[s], held[s][k].name)]
          \/ errors' = errors
      BY <1>20, Zenon DEF ServerValidate
    <3>2. CheckFailed(errors[s], held[s][k].name) \in ServerErrors
      BY <1>2, <2>1, ErrorsType DEF ServerTypeOK
    <3>3. QED
      BY <1>2, <3>1, <3>2 DEF ServerTypeOK
  <2>3. verified' \in [Servers -> SUBSET S3Keys]
    <3>1. \/ verified' = [verified EXCEPT ![s] = verified[s] \cup {k}]
          \/ verified' = verified
      BY <1>20, Zenon DEF ServerValidate
    <3>2. verified \in [Servers -> SUBSET S3Keys]
      BY <1>2 DEF ServerTypeOK
    <3>3. verified[s] \cup {k} \in SUBSET S3Keys
      BY <3>2
    <3>4. QED
      BY <3>1, <3>2, <3>3
  <2>4. ServerTypeOK'
    BY <1>2, <1>20, <2>2, <2>3 DEF ServerValidate, ServerTypeOK
  <2>5. QED
    BY <1>6, <1>20, <2>4 DEF ServerValidate
<1>21. CASE ServerBuildChanges(s)
  <2>1. CASE Exit(s, "ok")
    BY <1>4, <1>5, <1>6, <1>21, <2>1 DEF ServerBuildChanges
  <2>2. CASE ~Exit(s, "ok")
    <3>1. ServerTypeOK'
      BY <1>2, <1>21, <2>2 DEF ServerBuildChanges, Goto, ServerTypeOK, Phases
    <3>2. QED
      BY <1>6, <1>21, <3>1 DEF ServerBuildChanges
  <2>3. QED
    BY <2>1, <2>2
<1>22. CASE ServerCommit(s)
  <2>1. delete_keys(s) \in SUBSET S3Keys
    BY <1>2 DEF delete_keys, ServerTypeOK, ServerErrors
  <2>2. ServerTypeOK'
    BY <1>2, <1>22, <2>1 DEF ServerCommit, Goto, ServerTypeOK, Phases
  <2>3. CloudTypeOK'
    BY <1>2, <1>9, <1>22 DEF ServerCommit, CloudTypeOK
  <2>4. QED
    BY <2>2, <2>3
<1>23. CASE ServerCommitRefused(s)
  BY <1>4, <1>5, <1>6, <1>23 DEF ServerCommitRefused
<1>24. CASE ServerCommitLost(s)
  <2>1. ServerTypeOK'
    BY <1>4, <1>5, <1>24 DEF ServerCommitLost
  <2>2. CloudTypeOK'
    BY <1>2, <1>3, <1>9, <1>24 DEF ServerCommitLost, CloudTypeOK
  <2>3. QED
    BY <2>1, <2>2
<1>25. ASSUME NEW k \in S3Keys, ServerDelete(s, k)
       PROVE  CloudTypeOK' /\ ServerTypeOK'
  <2>1. ServerTypeOK'
    BY <1>2, <1>25 DEF ServerDelete, ServerTypeOK
  <2>2. CloudTypeOK'
    BY <1>2, <1>25 DEF ServerDelete, DeleteObject, CloudTypeOK, Objects
  <2>3. QED
    BY <2>1, <2>2
<1>26. ASSUME NEW k \in S3Keys, ServerDeleteFails(s, k)
       PROVE  CloudTypeOK' /\ ServerTypeOK'
  <2>1. ServerTypeOK'
    BY <1>2, <1>26, ErrorsType DEF ServerDeleteFails, ServerTypeOK
  <2>2. CloudTypeOK'
    BY <1>2, <1>3, <1>26 DEF ServerDeleteFails, DeleteObject, CloudTypeOK, Objects
  <2>3. QED
    BY <2>1, <2>2
<1>27. CASE ServerFinish(s)
  BY <1>4, <1>5, <1>6, <1>27 DEF ServerFinish
<1>28. CASE ServerCallFails(s)
  BY <1>4, <1>5, <1>7, <1>28 DEF ServerCallFails
<1>29. CASE ServerKilled(s)
  BY <1>4, <1>5, <1>7, <1>29 DEF ServerKilled
<1>30. QED
  BY <1>11, <1>12, <1>13, <1>14, <1>15, <1>17, <1>20, <1>21, <1>22, <1>23,
     <1>24, <1>25, <1>26, <1>27, <1>28, <1>29, <1>16, <1>18, <1>19
     DEF ServerNext, ServerStep, ServerFault

-----------------------------------------------------------------------------
(* Ownership *)

(* What a run knows of its requests and keys; no client step affects it.   *)
RunInv ==
  /\ AcceptedWereFetched
  /\ LookupIsCertified
  /\ SkipIsConfigured
  /\ VerifiedByOwner

(* A certificate in the directory teaches the lookup certified keys only.  *)
LEMMA LearnCertified ==
  ASSUME DirTypeOK, NEW p \in Installed, IsCertificate(keydir[p]),
         NEW m \in [Names -> Keys \cup {NoKey}], NEW n \in Names,
         m[n] # NoKey => \E f \in CertsFor(n) : f.vk = m[n],
         Learn(m, keydir[p])[n] # NoKey
  PROVE  \E f \in CertsFor(n) : f.vk = Learn(m, keydir[p])[n]
<1>1. CASE Learn(m, keydir[p])[n] = m[n]
  BY <1>1
<1>2. CASE Learn(m, keydir[p])[n] # m[n]
  <2>1. n = keydir[p].cn /\ Learn(m, keydir[p])[n] = keydir[p].vk
    BY <1>2 DEF Learn
  <2>2. keydir[p] \in CertsFor(n)
    BY <2>1, InstalledKnown DEF CertsFor
  <2>3. QED
    BY <2>1, <2>2
<1>3. QED
  BY <1>1, <1>2

(* A request that passes the check without skip is owned by its signer.    *)
LEMMA CheckMeansOwned ==
  ASSUME NEW s \in Servers, NEW r \in Request, LookupIsCertified,
         check_valid_ddns_request(r, certs[s], FALSE, now)
  PROVE  Owned(r)
<1>1. r.name \in Names
  BY DEF Request
<1>2. certs[s][r.name] # NoKey /\ r.signer = certs[s][r.name]
  BY DEF check_valid_ddns_request, verify_strict
<1>3. QED
  BY <1>1, <1>2 DEF LookupIsCertified, Owned

(* Every step of a server run keeps RunInv.                                *)
LEMMA RunStep ==
  ASSUME TypeOK, RunInv, NEW s \in Servers, ServerNext(s)
  PROVE  RunInv'
<1> USE DEF RunInv
<1>1. ServerTypeOK
  BY DEF TypeOK
<1>2. ASSUME NEW status, Exit(s, status) PROVE RunInv'
  <2>1. AcceptedWereFetched'
    BY <1>1, <1>2 DEF Exit, AcceptedWereFetched, HeldKeys, ServerTypeOK
  <2>2. LookupIsCertified'
    BY <1>1, <1>2 DEF Exit, LookupIsCertified, NoCerts, ServerTypeOK
  <2>3. SkipIsConfigured'
    BY <1>1, <1>2 DEF Exit, SkipIsConfigured, ServerTypeOK
  <2>4. VerifiedByOwner'
    BY <1>1, <1>2 DEF Exit, VerifiedByOwner, ServerTypeOK
  <2>5. QED
    BY <2>1, <2>2, <2>3, <2>4
<1>3. ASSUME UNCHANGED <<skip, held, certs, verified>>,
             \A t \in Servers :
               /\ spc'[t] = "validate" => work'[t] \subseteq HeldKeys(t)
               /\ spc'[t] \notin {"validate", "commit", "cleanup"} => verified[t] = {}
      PROVE  RunInv'
  <2>1. \A t \in Servers : HeldKeys(t)' = HeldKeys(t)
    BY <1>3 DEF HeldKeys
  <2>2. AcceptedWereFetched'
    BY <1>3, <2>1 DEF AcceptedWereFetched
  <2>3. QED
    BY <1>3, <2>2 DEF LookupIsCertified, SkipIsConfigured, VerifiedByOwner
<1>4. CASE ServerStart(s)
  <2>1. verified[s] = {}
    BY <1>4 DEF ServerStart, AcceptedWereFetched
  <2>2. AcceptedWereFetched'
    BY <1>1, <1>4 DEF ServerStart, Goto, AcceptedWereFetched, HeldKeys, ServerTypeOK
  <2>3. SkipIsConfigured'
    BY <1>1, <1>4 DEF ServerStart, SkipIsConfigured, ServerTypeOK
  <2>4. VerifiedByOwner'
    BY <1>1, <1>4, <2>1 DEF ServerStart, VerifiedByOwner, ServerTypeOK
  <2>5. QED
    BY <1>4, <2>2, <2>3, <2>4 DEF ServerStart, LookupIsCertified
<1>5. CASE ServerListPage(s)
  BY <1>1, <1>3, <1>5 DEF ServerListPage, Goto, AcceptedWereFetched, ServerTypeOK
<1>6. ASSUME NEW k \in S3Keys, ServerFetch(s, k) PROVE RunInv'
  <2>1. verified[s] = {} /\ spc[s] = "fetch"
    BY <1>6 DEF ServerFetch, AcceptedWereFetched
  <2>2. UNCHANGED <<spc, skip, certs, verified>>
    BY <1>6 DEF ServerFetch
  <2>3. \A t \in Servers \ {s} : held'[t] = held[t] /\ work'[t] = work[t]
    BY <1>1, <1>6 DEF ServerFetch, ServerTypeOK
  <2>4. AcceptedWereFetched'
    BY <2>1, <2>2, <2>3 DEF AcceptedWereFetched, HeldKeys
  <2>5. VerifiedByOwner'
    BY <2>1, <2>2, <2>3 DEF VerifiedByOwner
  <2>6. QED
    BY <2>2, <2>4, <2>5 DEF LookupIsCertified, SkipIsConfigured
<1>7. ASSUME NEW k \in S3Keys, ServerFetchFails(s, k) PROVE RunInv'
  BY <1>1, <1>3, <1>7 DEF ServerFetchFails, AcceptedWereFetched, ServerTypeOK
<1>8. CASE ServerFetched(s)
  <2>1. CASE Exit(s, "ok")
    BY <1>2, <2>1
  <2>2. CASE ~Exit(s, "ok")
    <3>1. UNCHANGED <<skip, held, certs, verified>>
      BY <1>8, <2>2 DEF ServerFetched
    <3>2. spc[s] = "fetch" /\ verified[s] = {}
      BY <1>8 DEF ServerFetched, AcceptedWereFetched
    <3>3. \/ Goto(s, "keys") /\ UNCHANGED work
          \/ Goto(s, "validate") /\ work' = [work EXCEPT ![s] = HeldKeys(s)]
      BY <1>8, <2>2, Zenon DEF ServerFetched
    <3>4. QED
      BY <1>1, <1>3, <3>1, <3>2, <3>3 DEF Goto, AcceptedWereFetched, ServerTypeOK
  <2>3. QED
    BY <2>1, <2>2
<1>9. CASE ServerNextPage(s)
  BY <1>1, <1>3, <1>9 DEF ServerNextPage, Goto, AcceptedWereFetched, ServerTypeOK
<1>10. CASE ServerReadDir(s)
  BY <1>1, <1>3, <1>10 DEF ServerReadDir, Goto, AcceptedWereFetched, ServerTypeOK
<1>11. ASSUME NEW p \in CertPaths, ServerReadKey(s, p) PROVE RunInv'
  <2>1. CASE Exit(s, "err")
    BY <1>2, <2>1
  <2>2. CASE ~Exit(s, "err")
    <3>1. /\ p \in Installed
          /\ UNCHANGED <<spc, skip, work, held, verified>>
      BY <1>11, <2>2 DEF ServerReadKey, CanRead
    <3>2. AcceptedWereFetched'
      BY <3>1 DEF AcceptedWereFetched, HeldKeys
    <3>3. LookupIsCertified'
      <4>1. CASE UNCHANGED certs
        BY <4>1 DEF LookupIsCertified
      <4>2. CASE ~UNCHANGED certs
        <5>1. /\ IsCertificate(keydir[p])
              /\ certs' = [certs EXCEPT ![s] = Learn(certs[s], keydir[p])]
          BY <1>11, <2>2, <4>2, Zenon DEF ServerReadKey
        <5>2. DirTypeOK /\ certs[s] \in [Names -> Keys \cup {NoKey}]
          BY <1>1 DEF TypeOK, ServerTypeOK
        <5>3. ASSUME NEW n \in Names, certs'[s][n] # NoKey
              PROVE  \E f \in CertsFor(n) : f.vk = certs'[s][n]
          <6>1. certs'[s] = Learn(certs[s], keydir[p])
            BY <1>1, <5>1 DEF ServerTypeOK
          <6>2. certs[s][n] # NoKey => \E f \in CertsFor(n) : f.vk = certs[s][n]
            BY DEF LookupIsCertified
          <6>3. QED
            BY <3>1, <5>1, <5>2, <5>3, <6>1, <6>2, LearnCertified
        <5>4. \A t \in Servers \ {s} : certs'[t] = certs[t]
          BY <1>1, <5>1 DEF ServerTypeOK
        <5>5. QED
          BY <5>3, <5>4 DEF LookupIsCertified
      <4>3. QED
        BY <4>1, <4>2
    <3>4. QED
      BY <3>1, <3>2, <3>3 DEF SkipIsConfigured, VerifiedByOwner
  <2>3. QED
    BY <2>1, <2>2
<1>12. CASE ServerKeysLoaded(s)
  <2>1. CASE Exit(s, "ok")
    BY <1>2, <2>1
  <2>2. CASE ~Exit(s, "ok")
    BY <1>1, <1>3, <1>12, <2>2
       DEF ServerKeysLoaded, Goto, AcceptedWereFetched, ServerTypeOK
  <2>3. QED
    BY <2>1, <2>2
<1>13. ASSUME NEW k \in S3Keys, ServerValidate(s, k) PROVE RunInv'
  <2>1. /\ UNCHANGED <<spc, skip, held, certs>>
        /\ spc[s] = "validate"
        /\ k \in work[s]
        /\ work' = [work EXCEPT ![s] = work[s] \ {k}]
    BY <1>13 DEF ServerValidate
  <2>2. k \in HeldKeys(s) /\ held[s][k] \in Request
    BY <1>1, <2>1 DEF AcceptedWereFetched, HeldKeys, ServerTypeOK
  <2>3. CASE UNCHANGED verified
    BY <1>1, <1>3, <2>1, <2>3 DEF AcceptedWereFetched, ServerTypeOK
  <2>4. CASE ~UNCHANGED verified
    <3>1. /\ check_valid_ddns_request(held[s][k], certs[s], skip[s], now)
          /\ verified' = [verified EXCEPT ![s] = verified[s] \cup {k}]
      BY <1>13, <2>4, Zenon DEF ServerValidate
    <3>2. ~skip[s] => Owned(held[s][k])
      <4>1. SUFFICES ASSUME ~skip[s] PROVE Owned(held[s][k])
        OBVIOUS
      <4>2. skip[s] = FALSE
        BY <1>1, <4>1 DEF ServerTypeOK
      <4>3. check_valid_ddns_request(held[s][k], certs[s], FALSE, now)
        BY <3>1, <4>2
      <4>4. QED
        BY <2>2, <4>3, CheckMeansOwned
    <3>3. AcceptedWereFetched'
      BY <1>1, <2>1, <2>2, <3>1 DEF AcceptedWereFetched, HeldKeys, ServerTypeOK
    <3>4. VerifiedByOwner'
      BY <1>1, <2>1, <3>1, <3>2 DEF VerifiedByOwner, Owned, ServerTypeOK
    <3>5. QED
      BY <2>1, <3>3, <3>4 DEF LookupIsCertified, SkipIsConfigured
  <2>5. QED
    BY <2>3, <2>4
<1>14. CASE ServerBuildChanges(s)
  <2>1. CASE Exit(s, "ok")
    BY <1>2, <2>1
  <2>2. CASE ~Exit(s, "ok")
    BY <1>1, <1>3, <1>14, <2>2
       DEF ServerBuildChanges, Goto, AcceptedWereFetched, ServerTypeOK
  <2>3. QED
    BY <2>1, <2>2
<1>15. CASE ServerCommit(s)
  BY <1>1, <1>3, <1>15 DEF ServerCommit, Goto, AcceptedWereFetched, ServerTypeOK
<1>16. CASE ServerCommitRefused(s)
  BY <1>2, <1>16 DEF ServerCommitRefused
<1>17. CASE ServerCommitLost(s)
  BY <1>2, <1>17 DEF ServerCommitLost
<1>18. ASSUME NEW k \in S3Keys, ServerDelete(s, k) PROVE RunInv'
  BY <1>1, <1>3, <1>18 DEF ServerDelete, AcceptedWereFetched, ServerTypeOK
<1>19. ASSUME NEW k \in S3Keys, ServerDeleteFails(s, k) PROVE RunInv'
  BY <1>1, <1>3, <1>19 DEF ServerDeleteFails, AcceptedWereFetched, ServerTypeOK
<1>20. CASE ServerFinish(s)
  BY <1>2, <1>20 DEF ServerFinish
<1>21. CASE ServerCallFails(s)
  BY <1>2, <1>21 DEF ServerCallFails
<1>22. CASE ServerKilled(s)
  BY <1>2, <1>22 DEF ServerKilled
<1>23. QED
  BY <1>4, <1>5, <1>6, <1>7, <1>8, <1>10, <1>13, <1>14, <1>15, <1>16, <1>17,
     <1>18, <1>19, <1>20, <1>21, <1>22, <1>9, <1>11, <1>12
     DEF ServerNext, ServerStep, ServerFault

(* A batch of owned requests leaves a zone of owned requests, each under   *)
(* the record set it is for.                                               *)
LEMMA UpsertOwned ==
  ASSUME NEW batch, \A r \in batch : Owned(r), UpsertAll(batch),
         TRUE \notin SkipModes, OnlyOwnersMoveRecords
  PROVE  OnlyOwnersMoveRecords'
<1>1. PICK win \in SUBSET batch :
        dns' = [t \in Targets |->
                  IF \E r \in win : TargetOf(r) = t
                  THEN CHOOSE r \in win : TargetOf(r) = t
                  ELSE dns[t]]
  BY DEF UpsertAll
<1>2. SUFFICES ASSUME NEW t \in Targets, dns'[t] # NoRecord
               PROVE  Owned(dns'[t]) /\ TargetOf(dns'[t]) = t
  BY DEF OnlyOwnersMoveRecords, Owned
<1>3. CASE \E r \in win : TargetOf(r) = t
  <2>1. dns'[t] \in win /\ TargetOf(dns'[t]) = t
    BY <1>1, <1>3
  <2>2. QED
    BY <2>1
<1>4. CASE ~\E r \in win : TargetOf(r) = t
  <2>1. dns'[t] = dns[t]
    BY <1>1, <1>4
  <2>2. QED
    BY <1>2, <2>1 DEF OnlyOwnersMoveRecords
<1>5. QED
  BY <1>3, <1>4

(* Only a commit changes the zone, and it publishes what the run verified. *)
LEMMA ZoneStep ==
  ASSUME TypeOK, RunInv, OnlyOwnersMoveRecords, NEW s \in Servers, ServerNext(s)
  PROVE  OnlyOwnersMoveRecords'
<1>1. CASE UNCHANGED dns
  BY <1>1 DEF OnlyOwnersMoveRecords, Owned
<1>2. CASE UpsertAll(Changes(s))
  <2>1. CASE TRUE \in SkipModes
    BY <2>1 DEF OnlyOwnersMoveRecords
  <2>2. CASE TRUE \notin SkipModes
    <3>1. \A r \in Changes(s) : Owned(r)
      BY <2>2 DEF RunInv, SkipIsConfigured, VerifiedByOwner, Changes
    <3>2. QED
      BY <1>2, <2>2, <3>1, UpsertOwned
  <2>3. QED
    BY <2>1, <2>2
<1>3. QED
  BY <1>1, <1>2
     DEF ServerNext, ServerStep, ServerFault, cloudVars, ServerStart,
         ServerListPage, ServerFetch, ServerFetchFails, ServerNextPage,
         ServerFetched, ServerReadDir, ServerReadKey, ServerKeysLoaded,
         ServerValidate, ServerBuildChanges, ServerCommit,
         ServerCommitRefused, ServerCommitLost, ServerDelete,
         ServerDeleteFails, ServerFinish, ServerCallFails, ServerKilled

(* The ownership invariant holds initially ...                             *)
LEMMA OwnershipInit == Init => OwnershipInv
<1> SUFFICES ASSUME Init PROVE OwnershipInv
  OBVIOUS
<1>1. TypeOK
  BY TypeInit
<1>2. AcceptedWereFetched /\ VerifiedByOwner /\ SkipIsConfigured
  BY DEF Init, ServerInit, AcceptedWereFetched, VerifiedByOwner, SkipIsConfigured
<1>3. LookupIsCertified
  BY DEF Init, ServerInit, LookupIsCertified, NoCerts
<1>4. OnlyOwnersMoveRecords
  BY DEF Init, CloudInit, OnlyOwnersMoveRecords
<1>5. QED
  BY <1>1, <1>2, <1>3, <1>4 DEF OwnershipInv

(* ... and every step keeps it.                                            *)
LEMMA OwnershipStep == OwnershipInv /\ [Next]_vars => OwnershipInv'
<1> SUFFICES ASSUME OwnershipInv, [Next]_vars PROVE OwnershipInv'
  OBVIOUS
<1>1. TypeOK /\ RunInv /\ OnlyOwnersMoveRecords
  BY DEF OwnershipInv, RunInv
<1>2. ASSUME UNCHANGED serverVars, UNCHANGED dns
      PROVE  RunInv' /\ OnlyOwnersMoveRecords'
  <2>1. AcceptedWereFetched'
    BY <1>1, <1>2 DEF RunInv, serverVars, AcceptedWereFetched, HeldKeys
  <2>2. LookupIsCertified' /\ SkipIsConfigured' /\ VerifiedByOwner'
    BY <1>1, <1>2 DEF RunInv, serverVars, LookupIsCertified, SkipIsConfigured,
                      VerifiedByOwner
  <2>3. OnlyOwnersMoveRecords'
    BY <1>1, <1>2 DEF OnlyOwnersMoveRecords
  <2>4. QED
    BY <2>1, <2>2, <2>3 DEF RunInv
<1>3. ASSUME NEW c \in Clients, ClientNext(c) PROVE OwnershipInv'
  <2>1. TypeOK'
    BY <1>1, <1>3, ClientType
  <2>2. UNCHANGED serverVars /\ UNCHANGED dns
    BY <1>3 DEF ClientNext, ClientStep, ClientQueryIp, ClientSign, ClientPut,
                ClientDryRun, ClientAbort, cloudVars
  <2>3. QED
    BY <1>2, <2>1, <2>2 DEF OwnershipInv, RunInv
<1>4. ASSUME NEW s \in Servers, ServerNext(s) PROVE OwnershipInv'
  <2>1. TypeOK'
    BY <1>1, <1>4, ServerType DEF RunInv
  <2>2. RunInv' /\ OnlyOwnersMoveRecords'
    BY <1>1, <1>4, RunStep, ZoneStep
  <2>3. QED
    BY <2>1, <2>2 DEF OwnershipInv, RunInv
<1>5. CASE Clock
  <2>1. TypeOK'
    BY <1>1, <1>5, CloudAssumption
       DEF Clock, Tick, clientVars, dirVars, serverVars, TypeOK, CloudTypeOK,
           ClientTypeOK, DirTypeOK, ServerTypeOK
  <2>2. QED
    BY <1>2, <1>5, <2>1 DEF Clock, Tick, OwnershipInv, RunInv
<1>6. ASSUME NEW m \in Machines, MachineMoves(m) PROVE OwnershipInv'
  <2>1. TypeOK'
    BY <1>1, <1>6, ClientAssumption
       DEF MachineMoves, Move, cloudVars, dirVars, serverVars, TypeOK,
           CloudTypeOK, ClientTypeOK, DirTypeOK, ServerTypeOK
  <2>2. QED
    BY <1>2, <1>6, <2>1 DEF MachineMoves, Move, cloudVars, OwnershipInv, RunInv
<1>7. CASE KeysRotate
  <2>1. TypeOK'
    BY <1>1, <1>7, KeyDirectoryAssumption
       DEF KeysRotate, Rotate, cloudVars, clientVars, serverVars, TypeOK,
           CloudTypeOK, ClientTypeOK, DirTypeOK, ServerTypeOK
  <2>2. QED
    BY <1>2, <1>7, <2>1 DEF KeysRotate, cloudVars, OwnershipInv, RunInv
<1>8. CASE UNCHANGED vars
  <2>1. TypeOK'
    BY <1>1, <1>8 DEF vars, cloudVars, clientVars, dirVars, serverVars, TypeOK,
                      CloudTypeOK, ClientTypeOK, DirTypeOK, ServerTypeOK
  <2>2. QED
    BY <1>2, <1>8, <2>1 DEF vars, cloudVars, OwnershipInv, RunInv
<1>9. QED
  BY <1>3, <1>4, <1>5, <1>8, <1>6, <1>7 DEF Next

(* The invariant behind the theorems that follow.                          *)
THEOREM OwnershipInvariant == Spec => []OwnershipInv
BY OwnershipInit, OwnershipStep, PTL DEF Spec

(* Every variable keeps its type, in particular nothing but a parsed       *)
(* request is ever published (handle_client, handle_server).               *)
THEOREM TypeCorrect == Spec => []TypeOK
<1>1. OwnershipInv => TypeOK
  BY DEF OwnershipInv
<1>2. QED
  BY <1>1, OwnershipInvariant, PTL

(* A run without --insecure-skip-verify accepts only requests signed by    *)
(* the owner of their name, whatever other runs and clients do.            *)
THEOREM RunsAcceptOnlyOwners == Spec => []VerifiedByOwner
<1>1. OwnershipInv => VerifiedByOwner
  BY DEF OwnershipInv
<1>2. QED
  BY <1>1, OwnershipInvariant, PTL

(* If no run skips verification, every record of the zone was requested    *)
(* under a key that a known certificate binds to exactly that name.        *)
THEOREM ZoneBelongsToOwners == Spec => []OnlyOwnersMoveRecords
<1>1. OwnershipInv => OnlyOwnersMoveRecords
  BY DEF OwnershipInv
<1>2. QED
  BY <1>1, OwnershipInvariant, PTL
=============================================================================
