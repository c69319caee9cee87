-------------------------- MODULE FreshnessProofs ---------------------------
(***************************************************************************)
(* The order in which requests are signed, stored, fetched, published and  *)
(* deleted, for every instance of Dyndynser.                               *)
(***************************************************************************)
EXTENDS DyndynserProofs

-----------------------------------------------------------------------------
(* Time stamps *)

(* A stamp is an integer, and less than a second before what it was cut    *)
(* from.                                                                   *)
LEMMA TimestampBounds ==
  ASSUME NEW time \in Int
  PROVE  /\ timestamp(time) \in Int
         /\ timestamp(time) <= time
         /\ time < timestamp(time) + Second
<1>1. Second \in Nat /\ Second > 0
  BY RequestsAssumption
<1>2. QED
  BY <1>1 DEF timestamp

(* Stamps keep the order of time.                                          *)
LEMMA TimestampMonotone ==
  ASSUME NEW t1 \in Int, NEW t2 \in Int, t1 <= t2
  PROVE  timestamp(t1) <= timestamp(t2)
<1> DEFINE q1 == t1 \div Second
           q2 == t2 \div Second
<1>1. Second \in Nat /\ Second > 0
  BY RequestsAssumption
<1>2. q1 \in Int /\ q2 \in Int
  BY <1>1
<1>3. timestamp(t1) = Second * q1 /\ timestamp(t2) = Second * q2
  BY DEF timestamp
<1>4. Second * q1 <= t1 /\ t2 < Second * q2 + Second
  BY <1>3, TimestampBounds
<1> HIDE DEF q1, q2
<1>5. Second * (q2 + 1) = Second * q2 + Second
  BY <1>1, <1>2
<1>6. q1 < q2 + 1
  <2>1. SUFFICES ASSUME q1 >= q2 + 1 PROVE FALSE
    BY <1>2
  <2>2. Second * q1 >= Second * (q2 + 1)
    BY <1>1, <1>2, <2>1
  <2>3. QED
    BY <1>1, <1>2, <1>4, <1>5, <2>2
<1>7. QED
  BY <1>1, <1>2, <1>3, <1>6

-----------------------------------------------------------------------------
(* Origins *)

(* Two clients that upload have different file names, and the requests of  *)
(* one never reach the record sets of the other.                           *)
LEMMA UploadersDiffer ==
  ASSUME OneAtATime, NEW c \in Uploaders, NEW d \in Uploaders, c # d
  PROVE  /\ make_filename(ClientName[c]) # make_filename(ClientName[d])
         /\ TargetsOf(c) \cap TargetsOf(d) = {}
<1>1. fixed_name(ClientName[c]) # fixed_name(ClientName[d])
  BY DEF OneAtATime
<1>2. ClientName[c] # ClientName[d]
  BY <1>1
<1>3. make_filename(ClientName[c]).stem = ClientName[c]
  BY DEF make_filename
<1>4. make_filename(ClientName[d]).stem = ClientName[d]
  BY DEF make_filename
<1>5. QED
  BY <1>1, <1>2, <1>3, <1>4 DEF TargetsOf

(* A client keeps its file among the keys of the bucket.                   *)
LEMMA FileOfUploader ==
  ASSUME NEW c \in Uploaders
  PROVE  c \in Clients /\ make_filename(ClientName[c]) \in S3Keys
BY ClientAssumption, FilenameType DEF Uploaders

(* Requests keep their origins in a step that signs, stores and fetches    *)
(* nothing.                                                                *)
LEMMA OriginsKept ==
  ASSUME TypeOK, RequestsHaveOrigins,
         \A c \in Clients : signed'[c] \in {signed[c], NoRequest},
         \A k \in S3Keys : bucket'[k] \in {bucket[k], NoObject},
         \A s \in Servers, k \in S3Keys : held'[s][k] \in {held[s][k], NoObject}
  PROVE  RequestsHaveOrigins'
<1>1. NoObject \notin Request /\ NoRequest \notin Request
  BY CloudAssumption, ClientAssumption
<1>2. \A c \in Clients : signed'[c] \in Request => signed'[c].name = ClientName[c]
  BY <1>1 DEF RequestsHaveOrigins
<1>3. \A k \in S3Keys : bucket'[k] \in Request => UploadedTo(k, bucket'[k])
  BY <1>1 DEF RequestsHaveOrigins
<1>4. \A s \in Servers, k \in S3Keys :
        held'[s][k] \in Request => UploadedTo(k, held'[s][k])
  BY <1>1 DEF RequestsHaveOrigins
<1>5. QED
  BY <1>2, <1>3, <1>4 DEF RequestsHaveOrigins, UploadedTo

(* So do they in a step of a client ...                                    *)
LEMMA OriginsClient ==
  ASSUME TypeOK, RequestsHaveOrigins, NEW c \in Clients, ClientNext(c)
  PROVE  RequestsHaveOrigins'
<1>1. UNCHANGED held
  BY DEF ClientNext, serverVars
<1>2. ClientTypeOK /\ CloudTypeOK
  BY DEF TypeOK
<1>3. CASE ClientSign(c)
  <2>1. signed'[c].name = ClientName[c]
    BY <1>2, <1>3 DEF ClientSign, ClientTypeOK, sign
  <2>2. \A d \in Clients \ {c} : signed'[d] = signed[d]
    BY <1>2, <1>3 DEF ClientSign, ClientTypeOK
  <2>3. UNCHANGED bucket
    BY <1>3 DEF ClientSign, cloudVars
  <2>4. QED
    BY <1>1, <2>1, <2>2, <2>3 DEF RequestsHaveOrigins, UploadedTo
<1>4. CASE ClientPut(c)
  <2>1. signed[c] \in Request /\ c \in Uploaders
    BY <1>2, <1>4 DEF ClientPut, ClientTypeOK, Uploaders
  <2>2. signed[c].name = ClientName[c]
    BY <2>1 DEF RequestsHaveOrigins
  <2>3. bucket' = [bucket EXCEPT ![make_filename(ClientName[c])] = signed[c]]
    BY <1>4, <2>2 DEF ClientPut, PutObject
  <2>4. \A d \in Clients : signed'[d] \in {signed[d], NoRequest}
    BY <1>2, <1>4 DEF ClientPut, ClientExit, ClientTypeOK
  <2>5. \A d \in Clients : signed'[d] \in Request => signed'[d].name = ClientName[d]
    BY <2>4, ClientAssumption DEF RequestsHaveOrigins
  <2>6. ASSUME NEW k \in S3Keys, bucket'[k] \in Request
        PROVE  UploadedTo(k, bucket'[k])
    <3>1. CASE k = make_filename(ClientName[c])
      BY <1>2, <2>1, <2>2, <2>3, <3>1 DEF CloudTypeOK, UploadedTo
    <3>2. CASE k # make_filename(ClientName[c])
      BY <1>2, <2>3, <2>6, <3>2 DEF CloudTypeOK, RequestsHaveOrigins
    <3>3. QED
      BY <3>1, <3>2
  <2>7. QED
    BY <1>1, <2>5, <2>6 DEF RequestsHaveOrigins, UploadedTo
<1>5. CASE ~ClientSign(c) /\ ~ClientPut(c)
  <2>1. UNCHANGED bucket
    BY <1>5 DEF ClientNext, ClientStep, ClientQueryIp, ClientDryRun, ClientAbort, cloudVars
  <2>2. signed' = signed \/ signed' = [signed EXCEPT ![c] = NoRequest]
    BY <1>5 DEF ClientNext, ClientStep, ClientQueryIp, ClientDryRun, ClientAbort, ClientExit
  <2>3. \A d \in Clients : signed'[d] \in {signed[d], NoRequest}
    BY <1>2, <2>2 DEF ClientTypeOK
  <2>4. QED
    BY <1>1, <2>1, <2>3, OriginsKept
<1>6. QED
  BY <1>3, <1>4, <1>5

(* How a step of a server run may change what is stored and held: it       *)
(* deletes and forgets, or fetches one stored request.                     *)
LEMMA ServerMoves ==
  ASSUME TypeOK, NEW s \in Servers, ServerNext(s)
  PROVE  /\ UNCHANGED <<now, signed>>
         /\ \A k \in S3Keys : bucket'[k] \in {bucket[k], NoObject}
         /\ \/ \A i \in Servers, k \in S3Keys : held'[i][k] \in {held[i][k], NoObject}
            \/ \E k \in S3Keys :
                 /\ spc[s] = "fetch"
                 /\ bucket[k] \in Request
                 /\ held' = [held EXCEPT ![s][k] = bucket[k]]
                 /\ UNCHANGED <<bucket, dns, spc, verified>>
<1>1. CloudTypeOK /\ ServerTypeOK
  BY DEF TypeOK
<1>2. UNCHANGED <<now, signed>>
  BY DEF ServerNext, clientVars, ServerStep, ServerFault, cloudVars, ServerStart,
         ServerListPage, ServerFetch, ServerFetchFails, ServerNextPage,
         ServerFetched, ServerReadDir, ServerReadKey, ServerKeysLoaded,
         ServerValidate, ServerBuildChanges, ServerCommit,
         ServerCommitRefused, ServerCommitLost, ServerDelete,
         ServerDeleteFails, ServerFinish, ServerCallFails, ServerKilled
<1>3. \A k \in S3Keys : bucket'[k] \in {bucket[k], NoObject}
  <2>1. CASE UNCHANGED bucket
    BY <2>1
  <2>2. ASSUME NEW k \in S3Keys, DeleteObject(k)
        PROVE  \A j \in S3Keys : bucket'[j] \in {bucket[j], NoObject}
    BY <1>1, <2>2 DEF DeleteObject, CloudTypeOK
  <2>3. QED
    BY <2>1, <2>2
       DEF ServerNext, ServerStep, ServerFault, cloudVars, ServerStart,
           ServerListPage, ServerFetch, ServerFetchFails, ServerNextPage,
           ServerFetched, ServerReadDir, ServerReadKey, ServerKeysLoaded,
           ServerValidate, ServerBuildChanges, ServerCommit,
           ServerCommitRefused, ServerCommitLost, ServerDelete,
           ServerDeleteFails, ServerFinish, ServerCallFails, ServerKilled
<1>4. CASE UNCHANGED held
  BY <1>2, <1>3, <1>4
<1>5. CASE held' = [held EXCEPT ![s] = NothingHeld]
  BY <1>1, <1>2, <1>3, <1>5 DEF NothingHeld, ServerTypeOK
<1>6. ASSUME NEW k \in S3Keys, ServerFetch(s, k), ~UNCHANGED held
      PROVE  /\ spc[s] = "fetch"
             /\ bucket[k] \in Request
             /\ held' = [held EXCEPT ![s][k] = bucket[k]]
             /\ UNCHANGED <<bucket, dns, spc, verified>>
  BY <1>6, Zenon DEF ServerFetch, cloudVars
<1>7. CASE \E k \in S3Keys : ServerFetch(s, k)
  BY <1>2, <1>3, <1>4, <1>6, <1>7
<1>8. QED
  BY <1>4, <1>5, <1>7
     DEF ServerNext, ServerStep, ServerFault, Exit, ServerStart,
         ServerListPage, ServerFetchFails, ServerNextPage,
         ServerFetched, ServerReadDir, ServerReadKey, ServerKeysLoaded,
         ServerValidate, ServerBuildChanges, ServerCommit,
         ServerCommitRefused, ServerCommitLost, ServerDelete,
         ServerDeleteFails, ServerFinish, ServerCallFails, ServerKilled

(* ... and in a step of a server run.                                      *)
LEMMA OriginsServer ==
  ASSUME TypeOK, RequestsHaveOrigins, NEW s \in Servers, ServerNext(s)
  PROVE  RequestsHaveOrigins'
<1>1. UNCHANGED signed /\ \A k \in S3Keys : bucket'[k] \in {bucket[k], NoObject}
  BY ServerMoves
<1>2. CASE \A i \in Servers, k \in S3Keys : held'[i][k] \in {held[i][k], NoObject}
  BY <1>1, <1>2, OriginsKept
<1>3. ASSUME NEW k \in S3Keys, bucket[k] \in Request,
             held' = [held EXCEPT ![s][k] = bucket[k]], UNCHANGED bucket
      PROVE  RequestsHaveOrigins'
  <2>1. ASSUME NEW i \in Servers, NEW j \in S3Keys, held'[i][j] \in Request
        PROVE  UploadedTo(j, held'[i][j])
    <3>1. CASE i = s /\ j = k
      BY <1>3, <3>1 DEF TypeOK, ServerTypeOK, RequestsHaveOrigins
    <3>2. CASE ~(i = s /\ j = k)
      BY <1>3, <2>1, <3>2 DEF TypeOK, ServerTypeOK, RequestsHaveOrigins
    <3>3. QED
      BY <3>1, <3>2
  <2>2. QED
    BY <1>1, <1>3, <2>1 DEF RequestsHaveOrigins, UploadedTo
<1>4. QED
  BY <1>2, <1>3, ServerMoves

-----------------------------------------------------------------------------
(* Order *)

(* The clock of a client's machine gives integers, and only later ones.    *)
LEMMA StampsGrow ==
  ASSUME TypeOK, TypeOK', now <= now', NEW c \in Clients
  PROVE  /\ timestamp(machine_time(c)) \in Int
         /\ timestamp(machine_time(c)') \in Int
         /\ timestamp(machine_time(c)) <= timestamp(machine_time(c)')
<1>1. now \in Int /\ now' \in Int
  BY CloudAssumption DEF TypeOK, CloudTypeOK
<1>2. Skew[MachineOf[c]] \in Int
  BY ClientAssumption
<1>3. machine_time(c) \in Int /\ machine_time(c)' \in Int
      /\ machine_time(c) <= machine_time(c)'
  BY <1>1, <1>2 DEF machine_time
<1>4. QED
  BY <1>3, TimestampBounds, TimestampMonotone

(* The order is kept where nothing arrives.                                *)
LEMMA OrderKept ==
  ASSUME TypeOK, TypeOK', now <= now', NEW c \in Uploaders, InOrder(c),
         \A t \in TargetsOf(c) : dns'[t] = dns[t],
         bucket'[make_filename(ClientName[c])]
           \in {bucket[make_filename(ClientName[c])], NoObject},
         \A s \in Servers :
           held'[s][make_filename(ClientName[c])]
             \in {held[s][make_filename(ClientName[c])], NoObject},
         signed'[c] \in {signed[c], NoRequest}
  PROVE  InOrder(c)'
<1>1. NoObject \notin Request /\ NoRequest \notin Request
  BY CloudAssumption, ClientAssumption
<1>2. ASSUME NEW x, SignedByNow(c, x)
      PROVE  x \in Request => x.signed_at <= timestamp(machine_time(c)')
  <2>1. SUFFICES ASSUME x \in Request PROVE x.signed_at <= timestamp(machine_time(c)')
    OBVIOUS
  <2>2. x.signed_at \in Int /\ x.signed_at <= timestamp(machine_time(c))
    BY <1>2, <2>1 DEF SignedByNow, Request
  <2>3. QED
    BY <2>2, StampsGrow, FileOfUploader
<1>3. QED
  BY <1>1, <1>2 DEF InOrder, NotAfter, SignedByNow

(* Signing: nothing of the client was signed after now.                    *)
LEMMA OrderSign ==
  ASSUME TypeOK, TypeOK', NEW c \in Uploaders, InOrder(c), ClientSign(c),
         UNCHANGED held
  PROVE  InOrder(c)'
<1>1. UNCHANGED <<now, dns, bucket>>
  BY DEF ClientSign, cloudVars
<1>2. signed'[c].signed_at = timestamp(machine_time(c))
  BY FileOfUploader DEF ClientSign, TypeOK, ClientTypeOK, sign
<1>3. machine_time(c)' = machine_time(c)
  BY <1>1 DEF machine_time
<1>4. timestamp(machine_time(c)) \in Int
  BY <1>1, StampsGrow, FileOfUploader, CloudAssumption DEF TypeOK, CloudTypeOK
<1>5. SignedByNow(c, signed[c])'
  BY <1>2, <1>3, <1>4 DEF SignedByNow
<1>6. ASSUME NEW x, SignedByNow(c, x)
      PROVE  NotAfter(x, signed'[c])
  BY <1>2, <1>6 DEF SignedByNow, NotAfter, Precedes
<1>7. QED
  BY <1>1, <1>3, <1>5, <1>6 DEF InOrder, SignedByNow, NotAfter

(* Uploading: what is stored now is what was signed.                       *)
LEMMA OrderPut ==
  ASSUME TypeOK, TypeOK', NEW c \in Uploaders, InOrder(c), ClientPut(c),
         signed[c].name = ClientName[c], UNCHANGED held
  PROVE  InOrder(c)'
<1>1. UNCHANGED <<now, dns>>
  BY DEF ClientPut
<1>2. machine_time(c)' = machine_time(c)
  BY <1>1 DEF machine_time
<1>3. bucket'[make_filename(ClientName[c])] = signed[c]
  BY FileOfUploader DEF ClientPut, PutObject, TypeOK, CloudTypeOK
<1>4. signed'[c] = NoRequest /\ NoRequest \notin Request
  BY FileOfUploader, ClientAssumption DEF ClientPut, ClientExit, TypeOK, ClientTypeOK
<1>5. QED
  BY <1>1, <1>2, <1>3, <1>4 DEF InOrder, SignedByNow, NotAfter

(* Fetching: what a run holds is what is stored.                           *)
LEMMA OrderFetch ==
  ASSUME TypeOK, TypeOK', NEW c \in Uploaders, InOrder(c), NEW s \in Servers,
         bucket[make_filename(ClientName[c])] \in Request,
         held' = [held EXCEPT ![s][make_filename(ClientName[c])] =
                    bucket[make_filename(ClientName[c])]],
         UNCHANGED <<now, bucket, dns, signed>>
  PROVE  InOrder(c)'
<1> DEFINE k == make_filename(ClientName[c])
<1>1. \A i \in Servers : held'[i][k] \in {held[i][k], bucket[k]}
  BY FileOfUploader DEF TypeOK, ServerTypeOK
<1>2. machine_time(c)' = machine_time(c)
  BY DEF machine_time
<1>3. NotAfter(bucket[k], bucket[k])
  BY DEF NotAfter, Precedes, Request
<1>4. QED
  BY <1>1, <1>2, <1>3 DEF InOrder, SignedByNow, NotAfter

(* A request is for one of the record sets of its client.                  *)
LEMMA TargetIsOfClient ==
  ASSUME NEW r \in Request, NEW c \in Uploaders, r.name = ClientName[c]
  PROVE  TargetOf(r) \in TargetsOf(c)
<1>1. r.name \in Names /\ record_type(r.data) \in RecordTypes
  BY DEF Request, record_type, RecordTypes
<1>2. TargetOf(r) \in Targets
  BY <1>1 DEF TargetOf, Targets
<1>3. TargetOf(r).name = fixed_name(r.name)
  BY DEF TargetOf
<1>4. QED
  BY <1>2, <1>3 DEF TargetsOf

(* What a run has verified is a request of the client whose file it is.    *)
LEMMA VerifiedHasOrigin ==
  ASSUME TypeOK, AcceptedWereFetched, RequestsHaveOrigins,
         NEW s \in Servers, NEW k \in verified[s]
  PROVE  /\ held[s][k] \in Request
         /\ \E c \in Uploaders : /\ k = make_filename(ClientName[c])
                                 /\ TargetOf(held[s][k]) \in TargetsOf(c)
<1>1. k \in S3Keys /\ held[s][k] \in Request
  BY DEF TypeOK, ServerTypeOK, AcceptedWereFetched, HeldKeys
<1>2. UploadedTo(k, held[s][k])
  BY <1>1 DEF RequestsHaveOrigins
<1>3. QED
  BY <1>1, <1>2, TargetIsOfClient DEF UploadedTo

(* A commit leaves each record set as it is, or shows the one request the  *)
(* run holds for it; and it shows all that the run verified.               *)
LEMMA CommitShows ==
  ASSUME OneAtATime, TypeOK, AcceptedWereFetched, RequestsHaveOrigins,
         NEW s \in Servers, UpsertAll(Changes(s))
  PROVE  /\ \A t \in Targets :
              \/ dns'[t] = dns[t]
              \/ \E c \in Uploaders :
                   /\ t \in TargetsOf(c)
                   /\ dns'[t] = held[s][make_filename(ClientName[c])]
                   /\ dns'[t] \in Request
         /\ \A k \in verified[s] : dns'[TargetOf(held[s][k])] = held[s][k]
<1>1. PICK win \in SUBSET Changes(s) :
        /\ {TargetOf(r) : r \in win} = {TargetOf(r) : r \in Changes(s)}
        /\ dns' = [t \in Targets |->
                     IF \E r \in win : TargetOf(r) = t
                     THEN CHOOSE r \in win : TargetOf(r) = t
                     ELSE dns[t]]
  BY DEF UpsertAll
<1>2. ASSUME NEW t \in Targets, \E r \in win : TargetOf(r) = t
      PROVE  \E k \in verified[s] : dns'[t] = held[s][k] /\ TargetOf(held[s][k]) = t
  <2>1. dns'[t] \in win /\ TargetOf(dns'[t]) = t
    BY <1>1, <1>2
  <2>2. QED
    BY <2>1 DEF Changes
<1>3. ASSUME NEW t \in Targets
      PROVE  \/ dns'[t] = dns[t]
             \/ \E c \in Uploaders : /\ t \in TargetsOf(c)
                                     /\ dns'[t] = held[s][make_filename(ClientName[c])]
                                     /\ dns'[t] \in Request
  <2>1. CASE \E r \in win : TargetOf(r) = t
    <3>1. PICK k \in verified[s] : dns'[t] = held[s][k] /\ TargetOf(held[s][k]) = t
      BY <1>2, <2>1
    <3>2. QED
      BY <3>1, VerifiedHasOrigin
  <2>2. CASE ~\E r \in win : TargetOf(r) = t
    BY <1>1, <2>2
  <2>3. QED
    BY <2>1, <2>2
<1>4. ASSUME NEW k \in verified[s]
      PROVE  dns'[TargetOf(held[s][k])] = held[s][k]
  <2> DEFINE t == TargetOf(held[s][k])
  <2>1. PICK c \in Uploaders : k = make_filename(ClientName[c]) /\ t \in TargetsOf(c)
    BY VerifiedHasOrigin
  <2>2. t \in Targets
    BY <2>1 DEF TargetsOf
  <2>3. \E r \in win : TargetOf(r) = t
    BY <1>1 DEF Changes
  <2>4. PICK j \in verified[s] : dns'[t] = held[s][j] /\ TargetOf(held[s][j]) = t
    BY <1>2, <2>2, <2>3
  <2>5. PICK d \in Uploaders :
          j = make_filename(ClientName[d]) /\ TargetOf(held[s][j]) \in TargetsOf(d)
    BY VerifiedHasOrigin
  <2>6. c = d
    BY <2>1, <2>4, <2>5, UploadersDiffer
  <2>7. QED
    BY <2>1, <2>4, <2>5, <2>6
<1>5. QED
  BY <1>3, <1>4

(* Publishing: what is shown now is what the only run held.                *)
LEMMA OrderCommit ==
  ASSUME OneAtATime, TypeOK, TypeOK', AcceptedWereFetched, RequestsHaveOrigins,
         NEW s \in Servers, UpsertAll(Changes(s)),
         UNCHANGED <<now, bucket, signed>>,
         \A i \in Servers, k \in S3Keys : held'[i][k] \in {held[i][k], NoObject},
         NEW c \in Uploaders, InOrder(c)
  PROVE  InOrder(c)'
<1> DEFINE k == make_filename(ClientName[c])
<1>1. ASSUME NEW t \in TargetsOf(c)
      PROVE  dns'[t] = dns[t] \/ (dns'[t] = held[s][k] /\ dns'[t] \in Request)
  <2>1. t \in Targets
    BY DEF TargetsOf
  <2>2. CASE \E d \in Uploaders : /\ t \in TargetsOf(d)
                                  /\ dns'[t] = held[s][make_filename(ClientName[d])]
                                  /\ dns'[t] \in Request
    BY <1>1, <2>2, UploadersDiffer
  <2>3. QED
    BY <2>1, <2>2, CommitShows
<1>2. \A i \in Servers : i = s /\ held'[i][k] \in {held[s][k], NoObject}
  BY FileOfUploader DEF OneAtATime
<1>3. NoObject \notin Request
  BY CloudAssumption
<1>4. machine_time(c)' = machine_time(c)
  BY DEF machine_time
<1>5. NotAfter(held[s][k], held[s][k])
  BY DEF NotAfter, Precedes, Request
<1>6. ASSUME NEW t \in TargetsOf(c)
      PROVE  /\ NotAfter(dns'[t], bucket[k])
             /\ NotAfter(dns'[t], signed[c])
             /\ NotAfter(dns'[t], held[s][k])
             /\ SignedByNow(c, dns'[t])
  BY <1>1, <1>5 DEF InOrder
<1>7. QED
  BY <1>2, <1>3, <1>4, <1>6 DEF InOrder, SignedByNow, NotAfter

(* The zone changes in a commit only.                                      *)
LEMMA OnlyCommitsChangeZone ==
  ASSUME NEW s \in Servers, ServerNext(s), ~UNCHANGED dns
  PROVE  ServerCommit(s) \/ ServerCommitLost(s)
BY DEF ServerNext, ServerStep, ServerFault, cloudVars, ServerStart,
       ServerListPage, ServerFetch, ServerFetchFails, ServerNextPage,
       ServerFetched, ServerReadDir, ServerReadKey, ServerKeysLoaded,
       ServerValidate, ServerBuildChanges, ServerCommitRefused, ServerDelete,
       ServerDeleteFails, ServerFinish, ServerCallFails, ServerKilled

(* A client's step keeps the order of every client's requests ...          *)
LEMMA OrderClient ==
  ASSUME OneAtATime, TypeOK, TypeOK', RequestsHaveOrigins,
         NEW d \in Clients, ClientNext(d), NEW c \in Uploaders, InOrder(c)
  PROVE  InOrder(c)'
<1>1. UNCHANGED <<now, dns, held>>
  BY DEF ClientNext, ClientStep, ClientQueryIp, ClientSign, ClientPut,
         ClientDryRun, ClientAbort, cloudVars, serverVars
<1>2. now <= now'
  BY <1>1, CloudAssumption DEF TypeOK, CloudTypeOK
<1>3. CASE ClientSign(d)
  <2>1. CASE c = d
    BY <1>1, <1>3, <2>1, OrderSign
  <2>2. CASE c # d
    <3>1. signed'[c] = signed[c] /\ UNCHANGED bucket
      BY <1>3, <2>2, FileOfUploader DEF ClientSign, TypeOK, ClientTypeOK, cloudVars
    <3>2. QED
      BY <1>1, <1>2, <3>1, OrderKept
  <2>3. QED
    BY <2>1, <2>2
<1>4. CASE ClientPut(d)
  <2>1. d \in Uploaders /\ signed[d].name = ClientName[d]
    BY <1>4 DEF ClientPut, Uploaders, TypeOK, ClientTypeOK, RequestsHaveOrigins
  <2>2. CASE c = d
    BY <1>1, <1>4, <2>1, <2>2, OrderPut
  <2>3. CASE c # d
    <3>1. make_filename(ClientName[c]) # make_filename(ClientName[d])
      BY <2>1, <2>3, UploadersDiffer
    <3>2. bucket'[make_filename(ClientName[c])] = bucket[make_filename(ClientName[c])]
      BY <1>4, <2>1, <3>1, FileOfUploader
         DEF ClientPut, PutObject, TypeOK, CloudTypeOK
    <3>3. signed'[c] = signed[c]
      BY <1>4, <2>3, FileOfUploader DEF ClientPut, ClientExit, TypeOK, ClientTypeOK
    <3>4. QED
      BY <1>1, <1>2, <3>2, <3>3, OrderKept
  <2>4. QED
    BY <2>2, <2>3
<1>5. CASE ~ClientSign(d) /\ ~ClientPut(d)
  <2>1. UNCHANGED bucket
    BY <1>5 DEF ClientNext, ClientStep, ClientQueryIp, ClientDryRun, ClientAbort, cloudVars
  <2>2. signed' = signed \/ signed' = [signed EXCEPT ![d] = NoRequest]
    BY <1>5 DEF ClientNext, ClientStep, ClientQueryIp, ClientDryRun, ClientAbort, ClientExit
  <2>3. signed'[c] \in {signed[c], NoRequest}
    BY <2>2, FileOfUploader DEF TypeOK, ClientTypeOK
  <2>4. QED
    BY <1>1, <1>2, <2>1, <2>3, OrderKept
<1>6. QED
  BY <1>3, <1>4, <1>5

(* ... and so does a step of the server.                                   *)
LEMMA OrderServer ==
  ASSUME OneAtATime, TypeOK, TypeOK', AcceptedWereFetched, RequestsHaveOrigins,
         NEW s \in Servers, ServerNext(s), NEW c \in Uploaders, InOrder(c)
  PROVE  InOrder(c)'
<1> DEFINE f == make_filename(ClientName[c])
<1>1. /\ UNCHANGED <<now, signed>>
      /\ \A k \in S3Keys : bucket'[k] \in {bucket[k], NoObject}
  BY ServerMoves
<1>2. now <= now' /\ f \in S3Keys
  BY <1>1, CloudAssumption, FileOfUploader DEF TypeOK, CloudTypeOK
<1>3. CASE ~UNCHANGED dns
  <2>1. UpsertAll(Changes(s)) /\ UNCHANGED <<bucket, now, signed>>
    BY <1>1, <1>3, OnlyCommitsChangeZone DEF ServerCommit, ServerCommitLost
  <2>2. \A i \in Servers, k \in S3Keys : held'[i][k] \in {held[i][k], NoObject}
    BY <1>3, ServerMoves
  <2>3. QED
    BY <2>1, <2>2, OrderCommit
<1>4. CASE UNCHANGED dns /\ \A i \in Servers, k \in S3Keys :
                              held'[i][k] \in {held[i][k], NoObject}
  BY <1>1, <1>2, <1>4, OrderKept
<1>5. ASSUME NEW k \in S3Keys, bucket[k] \in Request,
             held' = [held EXCEPT ![s][k] = bucket[k]],
             UNCHANGED <<bucket, dns>>
      PROVE  InOrder(c)'
  <2>1. CASE k = f
    BY <1>1, <1>5, <2>1, OrderFetch
  <2>2. CASE k # f
    <3>1. \A i \in Servers : held'[i][f] = held[i][f]
      BY <1>2, <1>5, <2>2 DEF TypeOK, ServerTypeOK
    <3>2. QED
      BY <1>1, <1>2, <1>5, <3>1, OrderKept
  <2>3. QED
    BY <2>1, <2>2
<1>6. QED
  BY <1>3, <1>4, <1>5, ServerMoves

(* What a run has used is shown until it ends.                             *)
LEMMA ShownServer ==
  ASSUME OneAtATime, TypeOK, AcceptedWereFetched, RequestsHaveOrigins, UsedIsShown,
         NEW s \in Servers, ServerNext(s)
  PROVE  UsedIsShown'
<1>1. \A i \in Servers : i = s
  BY DEF OneAtATime
<1>2. ServerTypeOK
  BY DEF TypeOK
<1>3. SUFFICES ASSUME spc'[s] = "cleanup", NEW k \in verified'[s]
               PROVE  dns'[TargetOf(held'[s][k])] = held'[s][k]
  BY <1>1 DEF UsedIsShown
<1>4. CASE ServerCommit(s)
  <2>1. UNCHANGED <<held, verified>> /\ UpsertAll(Changes(s))
    BY <1>4 DEF ServerCommit
  <2>2. QED
    BY <1>3, <2>1, CommitShows
<1>5. CASE UNCHANGED <<spc, held, verified, dns>>
  BY <1>3, <1>5 DEF UsedIsShown
<1>6. ASSUME NEW status, Exit(s, status) PROVE FALSE
  BY <1>2, <1>3, <1>6 DEF Exit, ServerTypeOK
<1>7. ASSUME NEW phase \in Phases \ {"cleanup"}, Goto(s, phase) PROVE FALSE
  BY <1>2, <1>3, <1>7 DEF Goto, ServerTypeOK
<1>8. ASSUME UNCHANGED spc, spc[s] # "cleanup" PROVE FALSE
  BY <1>3, <1>8
<1>9. QED
  BY <1>4, <1>5, <1>6, <1>7, <1>8
     DEF Phases, ServerNext, ServerStep, ServerFault, cloudVars, ServerStart,
         ServerListPage, ServerFetch, ServerFetchFails, ServerNextPage,
         ServerFetched, ServerReadDir, ServerReadKey, ServerKeysLoaded,
         ServerValidate, ServerBuildChanges,
         ServerCommitRefused, ServerCommitLost, ServerDelete,
         ServerDeleteFails, ServerFinish, ServerCallFails, ServerKilled

-----------------------------------------------------------------------------

(* Before anybody moves there is nothing to be out of order.               *)
LEMMA FreshInit == Init => FreshInv
<1> SUFFICES ASSUME Init, OneAtATime
             PROVE  /\ RequestsHaveOrigins
                    /\ \A c \in Uploaders : InOrder(c)
                    /\ UsedIsShown
  BY DEF FreshInv
<1>1. /\ \A k \in S3Keys : bucket[k] \notin Request
      /\ \A s \in Servers, k \in S3Keys : held[s][k] \notin Request
      /\ \A t \in Targets : dns[t] \notin Request
      /\ \A c \in Clients : signed[c] \notin Request
  BY CloudAssumption, ClientAssumption
     DEF Init, CloudInit, ServerInit, ClientInit, OneAtATime, NothingHeld
<1>2. RequestsHaveOrigins
  BY <1>1 DEF RequestsHaveOrigins
<1>3. \A c \in Uploaders : InOrder(c)
  BY <1>1, FileOfUploader DEF InOrder, NotAfter, SignedByNow, TargetsOf
<1>4. UsedIsShown
  BY DEF Init, ServerInit, UsedIsShown
<1>5. QED
  BY <1>2, <1>3, <1>4

(* Every step of the system keeps the stamps in order.                     *)
LEMMA FreshStep ==
  ASSUME OwnershipInv, OwnershipInv', FreshInv, [Next]_vars
  PROVE  FreshInv'
<1>1. SUFFICES ASSUME OneAtATime
               PROVE  /\ RequestsHaveOrigins'
                      /\ \A c \in Uploaders : InOrder(c)'
                      /\ UsedIsShown'
  BY DEF FreshInv, OneAtATime, Uploaders
<1>2. RequestsHaveOrigins /\ UsedIsShown /\ \A c \in Uploaders : InOrder(c)
  BY <1>1 DEF FreshInv
<1>3. TypeOK /\ TypeOK' /\ AcceptedWereFetched
  BY DEF OwnershipInv
<1>4. ASSUME NEW c \in Clients, ClientNext(c)
      PROVE  RequestsHaveOrigins' /\ UsedIsShown' /\ \A d \in Uploaders : InOrder(d)'
  <2>1. UNCHANGED <<dns, spc, verified, held>>
    BY <1>4 DEF ClientNext, ClientStep, ClientQueryIp, ClientSign, ClientPut,
                ClientDryRun, ClientAbort, cloudVars, serverVars
  <2>2. UsedIsShown'
    BY <1>2, <2>1 DEF UsedIsShown
  <2>3. QED
    BY <1>1, <1>2, <1>3, <1>4, <2>2, OriginsClient, OrderClient
<1>5. ASSUME NEW s \in Servers, ServerNext(s)
      PROVE  RequestsHaveOrigins' /\ UsedIsShown' /\ \A d \in Uploaders : InOrder(d)'
  BY <1>1, <1>2, <1>3, <1>5, OriginsServer, OrderServer, ShownServer
<1>6. ASSUME UNCHANGED <<bucket, dns, signed, serverVars>>, now <= now'
      PROVE  RequestsHaveOrigins' /\ UsedIsShown' /\ \A d \in Uploaders : InOrder(d)'
  <2>1. RequestsHaveOrigins' /\ UsedIsShown'
    BY <1>2, <1>6 DEF RequestsHaveOrigins, UploadedTo, UsedIsShown, serverVars
  <2>2. QED
    BY <1>2, <1>3, <1>6, <2>1, OrderKept DEF serverVars
<1>7. now \in Nat /\ now <= now + 1 /\ now <= now
  BY <1>3, CloudAssumption DEF TypeOK, CloudTypeOK
<1>8. CASE Clock
  BY <1>6, <1>7, <1>8 DEF Clock, Tick, clientVars
<1>9. CASE \E m \in Machines : MachineMoves(m)
  BY <1>6, <1>7, <1>9 DEF MachineMoves, Move, cloudVars
<1>10. CASE KeysRotate \/ UNCHANGED vars
  BY <1>6, <1>7, <1>10 DEF KeysRotate, vars, cloudVars, clientVars
<1>11. QED
  BY <1>4, <1>5, <1>8, <1>9, <1>10 DEF Next

(* The inductive invariant: while runs do not overlap and every name has   *)
(* one client, requests are on their way in the order of their stamps.     *)
THEOREM FreshInvariant == Spec => []FreshInv
<1>1. OwnershipInv /\ OwnershipInv' /\ FreshInv /\ [Next]_vars => FreshInv'
  BY FreshStep
<1>2. QED
  BY <1>1, FreshInit, OwnershipInvariant, PTL DEF Spec

(* A run deletes a request as used only after Route 53 has confirmed it,   *)
(* also when responses are lost, deletions fail and runs are killed.       *)
THEOREM DeletedAfterPublished == Spec => []PublishedBeforeDeleted
<1>1. ASSUME OwnershipInv, FreshInv PROVE PublishedBeforeDeleted
  <2>1. SUFFICES ASSUME OneAtATime, NEW s \in Servers, spc[s] = "cleanup",
                        NEW k \in verified[s]
                 PROVE  LET t == TargetOf(held[s][k])
                        IN  dns[t] # NoRecord /\ Precedes(held[s][k], dns[t])
    BY DEF PublishedBeforeDeleted
  <2>2. held[s][k] \in Request
    BY <1>1, <2>1, VerifiedHasOrigin DEF OwnershipInv, FreshInv
  <2>3. dns[TargetOf(held[s][k])] = held[s][k]
    BY <1>1, <2>1 DEF FreshInv, UsedIsShown
  <2>4. held[s][k].signed_at \in Int /\ held[s][k] # NoRecord
    BY <2>2, CloudAssumption DEF Request
  <2>5. QED
    BY <2>3, <2>4 DEF Precedes
<1>2. QED
  BY <1>1, OwnershipInvariant, FreshInvariant, PTL

(* No retry, lost response or crash sets a record back to an older         *)
(* request, or makes it vanish.                                            *)
THEOREM RecordsStayFresh == Spec => RecordsNeverGoBack
<1>1. ASSUME OwnershipInv, FreshInv, [Next]_vars, OneAtATime,
             NEW t \in Targets, dns[t] # NoRecord
      PROVE  dns'[t] # NoRecord /\ Precedes(dns[t], dns'[t])
  <2>1. dns[t] \in Request /\ dns[t].signed_at \in Int
    BY <1>1 DEF OwnershipInv, TypeOK, CloudTypeOK, Request
  <2>2. CASE dns'[t] = dns[t]
    BY <1>1, <2>1, <2>2 DEF Precedes
  <2>3. ASSUME NEW s \in Servers, ServerNext(s), dns'[t] # dns[t]
        PROVE  dns'[t] # NoRecord /\ Precedes(dns[t], dns'[t])
    <3>1. UpsertAll(Changes(s))
      BY <2>3, OnlyCommitsChangeZone DEF ServerCommit, ServerCommitLost
    <3>2. PICK c \in Uploaders : /\ t \in TargetsOf(c)
                                 /\ dns'[t] = held[s][make_filename(ClientName[c])]
                                 /\ dns'[t] \in Request
      BY <1>1, <2>3, <3>1, CommitShows DEF OwnershipInv, FreshInv
    <3>3. NotAfter(dns[t], dns'[t])
      BY <1>1, <3>2 DEF FreshInv, InOrder
    <3>4. QED
      BY <2>1, <3>2, <3>3, CloudAssumption DEF NotAfter
  <2>4. CASE UNCHANGED dns
    BY <2>2, <2>4
  <2>5. QED
    BY <1>1, <2>2, <2>3, <2>4
       DEF Next, ClientNext, ClientStep, ClientQueryIp, ClientSign, ClientPut,
           ClientDryRun, ClientAbort, Clock, Tick, MachineMoves, Move, KeysRotate,
           vars, cloudVars
<1>2. OwnershipInv /\ FreshInv /\ [Next]_vars =>
        (OneAtATime => \A t \in Targets : dns[t] # NoRecord =>
           dns'[t] # NoRecord /\ Precedes(dns[t], dns'[t]))
  BY <1>1
<1>3. QED
  BY <1>2, OwnershipInvariant, FreshInvariant, PTL DEF Spec, RecordsNeverGoBack
=============================================================================
