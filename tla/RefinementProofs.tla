-------------------------- MODULE RefinementProofs --------------------------
(***************************************************************************)
(* Dyndynser implements DdnsService, for every set of clients, servers,    *)
(* names, keys and certificates and for every value of the bounds.         *)
(***************************************************************************)
EXTENDS DyndynserProofs

(* What the bucket stores, and what a run holds, has been submitted.       *)
LEMMA StoredIsSubmitted ==
  ASSUME NEW k \in S3Keys, bucket[k] \in Request
  PROVE  bucket[k] \in Submitted
BY DEF Submitted

(* What a run holds was submitted.                                         *)
LEMMA HeldIsSubmitted ==
  ASSUME NEW s \in Servers, NEW k \in HeldKeys(s)
  PROVE  held[s][k] \in Submitted
BY DEF Submitted

(* Everything that has been submitted is a request.                        *)
LEMMA SubmittedType ==
  ASSUME TypeOK
  PROVE  Submitted \subseteq Request
<1>1. ASSUME NEW s \in Servers, NEW k \in HeldKeys(s) PROVE held[s][k] \in Request
  BY <1>1 DEF TypeOK, ServerTypeOK, HeldKeys
<1>2. QED
  BY <1>1 DEF Submitted

(* What is submitted after a step is what the step leaves in the bucket    *)
(* and in the runs.                                                        *)
LEMMA SubmittedFrom ==
  ASSUME NEW new,
         \A k \in S3Keys : bucket'[k] \in Request => bucket'[k] \in Submitted \cup new,
         \A s \in Servers, k \in S3Keys :
           held'[s][k] # NoObject => held'[s][k] \in Submitted \cup new
  PROVE  Submitted' \subseteq Submitted \cup new
<1>1. ASSUME NEW r \in Submitted' PROVE r \in Submitted \cup new
  <2>1. CASE \E k \in S3Keys : bucket'[k] \in Request /\ r = bucket'[k]
    BY <2>1
  <2>2. CASE \E s \in Servers : \E k \in S3Keys : held'[s][k] # NoObject /\ r = held'[s][k]
    BY <2>2
  <2>3. QED
    BY <1>1, <2>1, <2>2 DEF Submitted, HeldKeys
<1>2. QED
  BY <1>1

(* A step that stores nothing new and fetches nothing but what is stored   *)
(* adds nothing to what was submitted.                                     *)
LEMMA NothingNew ==
  ASSUME \A k \in S3Keys : bucket'[k] \in {bucket[k], NoObject},
         \A s \in Servers, k \in S3Keys :
           \/ held'[s][k] \in {held[s][k], NoObject}
           \/ held'[s][k] = bucket[k] /\ bucket[k] \in Request
  PROVE  Submitted' \subseteq Submitted
<1>1. \A k \in S3Keys : bucket'[k] \in Request => bucket'[k] \in Submitted
  BY StoredIsSubmitted, CloudAssumption
<1>2. ASSUME NEW s \in Servers, NEW k \in S3Keys, held'[s][k] # NoObject
      PROVE  held'[s][k] \in Submitted
  <2>1. CASE held'[s][k] = held[s][k]
    BY <1>2, <2>1, HeldIsSubmitted DEF HeldKeys
  <2>2. CASE held'[s][k] = bucket[k] /\ bucket[k] \in Request
    BY <2>2, StoredIsSubmitted
  <2>3. QED
    BY <1>2, <2>1, <2>2
<1>3. Submitted' \subseteq Submitted \cup {}
  BY <1>1, <1>2, SubmittedFrom
<1>4. QED
  BY <1>3

(* Withdrawing requests, or doing nothing visible, is a Revise.            *)
LEMMA ShrinkingRevises ==
  ASSUME Submitted' \subseteq Submitted, UNCHANGED dns
  PROVE  Service!Next
BY DEF Service!Next, Service!Revise

(* A step of a client stores at most its one request.                      *)
LEMMA ClientRevises ==
  ASSUME TypeOK, NEW c \in Clients, ClientNext(c)
  PROVE  Service!Next
<1>1. UNCHANGED <<dns, held>>
  BY DEF ClientNext, ClientStep, ClientQueryIp, ClientSign, ClientPut,
         ClientDryRun, ClientAbort, cloudVars, serverVars
<1>2. CASE ClientPut(c)
  <2>1. signed[c] \in Request
    BY <1>2 DEF ClientPut, TypeOK, ClientTypeOK
  <2>2. \A k \in S3Keys : bucket'[k] \in {bucket[k], signed[c]}
    BY <1>2 DEF ClientPut, PutObject, TypeOK, CloudTypeOK
  <2>3. Submitted' \subseteq Submitted \cup {signed[c]}
    <3>1. \A k \in S3Keys :
            bucket'[k] \in Request => bucket'[k] \in Submitted \cup {signed[c]}
      BY <2>2, StoredIsSubmitted
    <3>2. \A s \in Servers, k \in S3Keys :
            held'[s][k] # NoObject => held'[s][k] \in Submitted \cup {signed[c]}
      BY <1>1, HeldIsSubmitted DEF HeldKeys
    <3>3. QED
      BY <3>1, <3>2, SubmittedFrom
  <2>4. QED
    BY <1>1, <2>1, <2>3 DEF Service!Next, Service!Revise
<1>3. CASE ~ClientPut(c)
  <2>1. UNCHANGED bucket
    BY <1>3 DEF ClientNext, ClientStep, ClientQueryIp, ClientSign,
                ClientDryRun, ClientAbort, cloudVars
  <2>2. QED
    BY <1>1, <2>1, NothingNew, ShrinkingRevises
<1>4. QED
  BY <1>2, <1>3

(* What a run is about to publish was submitted, and is trusted.           *)
LEMMA ChangesAreTrusted ==
  ASSUME OwnershipInv, NEW s \in Servers
  PROVE  /\ Changes(s) \subseteq Submitted
         /\ \A r \in Changes(s) : Trusted(r)
<1>1. verified[s] \subseteq HeldKeys(s)
  BY DEF OwnershipInv, AcceptedWereFetched
<1>2. Changes(s) \subseteq Submitted
  BY <1>1, HeldIsSubmitted DEF Changes
<1>3. \A r \in Changes(s) : Trusted(r)
  BY DEF OwnershipInv, SkipIsConfigured, VerifiedByOwner, Changes, Trusted
<1>4. QED
  BY <1>2, <1>3

(* An accepted batch publishes, for every record set it names, one trusted *)
(* request, and leaves the other record sets alone.                        *)
LEMMA CommitPublishes ==
  ASSUME OwnershipInv, NEW s \in Servers, UpsertAll(Changes(s)),
         Submitted' \subseteq Submitted
  PROVE  Service!Next
<1>1. PICK win \in SUBSET Changes(s) :
        /\ ~Conflicting(win)
        /\ dns' = [t \in Targets |->
                     IF \E r \in win : TargetOf(r) = t
                     THEN CHOOSE r \in win : TargetOf(r) = t
                     ELSE dns[t]]
  BY DEF UpsertAll
<1>2. win \in SUBSET Submitted /\ \A r \in win : Trusted(r)
  BY ChangesAreTrusted
<1>3. \A r1, r2 \in win : TargetOf(r1) = TargetOf(r2) => r1 = r2
  BY <1>1 DEF Conflicting
<1>4. ASSUME NEW t \in Targets
      PROVE  \/ dns'[t] \in win /\ TargetOf(dns'[t]) = t
             \/ dns'[t] = dns[t] /\ \A r \in win : TargetOf(r) # t
  <2>1. CASE \E r \in win : TargetOf(r) = t
    BY <1>1, <2>1
  <2>2. CASE ~\E r \in win : TargetOf(r) = t
    BY <1>1, <2>2
  <2>3. QED
    BY <2>1, <2>2
<1>5. DOMAIN dns' = Targets
  BY <1>1
<1>6. Service!Publish
  BY <1>2, <1>3, <1>4, <1>5 DEF Service!Publish
<1>7. QED
  BY <1>6 DEF Service!Next

(* A step of a server run publishes what it has verified, or is invisible  *)
(* but for what it deletes or forgets.                                     *)
LEMMA ServerRefines ==
  ASSUME OwnershipInv, NEW s \in Servers, ServerNext(s)
  PROVE  Service!Next
<1>1. CloudTypeOK /\ ServerTypeOK
  BY DEF OwnershipInv, TypeOK
<1>2. \A k \in S3Keys : bucket'[k] \in {bucket[k], NoObject}
  <2>1. CASE UNCHANGED bucket
    BY <2>1
  <2>2. ASSUME NEW k \in S3Keys, DeleteObject(k)
        PROVE  \A j \in S3Keys : bucket'[j] \in {bucket[j], NoObject}
    BY <1>1, <2>2 DEF DeleteObject, CloudTypeOK
  <2>3. QED
    BY <2>1, <2>2
       DEF ServerNext, ServerStep, ServerFault, cloudVars, ServerStart,
           ServerListPage, ServerFetch, ServerFetchFails, ServerNextPage,
           ServerFetched, ServerReadDir, ServerReadKey, ServerKeysLoaded,
           ServerValidate, ServerBuildChanges, ServerCommit,
           ServerCommitRefused, ServerCommitLost, ServerDelete,
           ServerDeleteFails, ServerFinish, ServerCallFails, ServerKilled
<1>3. \A i \in Servers, k \in S3Keys :
        \/ held'[i][k] \in {held[i][k], NoObject}
        \/ held'[i][k] = bucket[k] /\ bucket[k] \in Request
  <2>1. CASE UNCHANGED held
    BY <2>1
  <2>2. CASE held' = [held EXCEPT ![s] = NothingHeld]
    BY <1>1, <2>2 DEF NothingHeld, ServerTypeOK
  <2>3. ASSUME NEW k \in S3Keys, ServerFetch(s, k)
        PROVE  \A i \in Servers, j \in S3Keys :
                 \/ held'[i][j] \in {held[i][j], NoObject}
                 \/ held'[i][j] = bucket[j] /\ bucket[j] \in Request
    <3>1. CASE UNCHANGED held
      BY <3>1
    <3>2. CASE bucket[k] \in Request /\ held' = [held EXCEPT ![s][k] = bucket[k]]
      BY <1>1, <3>2 DEF ServerTypeOK
    <3>3. QED
      BY <2>3, <3>1, <3>2, Zenon DEF ServerFetch
  <2>4. QED
    BY <2>1, <2>2, <2>3
       DEF ServerNext, ServerStep, ServerFault, Exit, ServerStart,
           ServerListPage, ServerFetchFails, ServerNextPage,
           ServerFetched, ServerReadDir, ServerReadKey, ServerKeysLoaded,
           ServerValidate, ServerBuildChanges, ServerCommit,
           ServerCommitRefused, ServerCommitLost, ServerDelete,
           ServerDeleteFails, ServerFinish, ServerCallFails, ServerKilled
<1>4. Submitted' \subseteq Submitted
  BY <1>2, <1>3, NothingNew
<1>5. CASE UNCHANGED dns
  BY <1>4, <1>5, ShrinkingRevises
<1>6. CASE UpsertAll(Changes(s))
  BY <1>4, <1>6, CommitPublishes
<1>7. QED
  BY <1>5, <1>6
     DEF ServerNext, ServerStep, ServerFault, cloudVars, ServerStart,
         ServerListPage, ServerFetch, ServerFetchFails, ServerNextPage,
         ServerFetched, ServerReadDir, ServerReadKey, ServerKeysLoaded,
         ServerValidate, ServerBuildChanges, ServerCommit,
         ServerCommitRefused, ServerCommitLost, ServerDelete,
         ServerDeleteFails, ServerFinish, ServerCallFails, ServerKilled

(* Every step of the system is a step of the abstract service, or none.    *)
LEMMA StepRefines ==
  ASSUME OwnershipInv, [Next]_vars
  PROVE  [Service!Next]_Service!vars
<1>1. ASSUME NEW c \in Clients, ClientNext(c) PROVE Service!Next
  BY <1>1, ClientRevises DEF OwnershipInv
<1>2. ASSUME NEW s \in Servers, ServerNext(s) PROVE Service!Next
  BY <1>2, ServerRefines
<1>3. ASSUME UNCHANGED <<bucket, dns, held>> PROVE Service!Next
  BY <1>3, NothingNew, ShrinkingRevises
<1>4. QED
  BY <1>1, <1>2, <1>3
     DEF Next, Clock, Tick, MachineMoves, Move, KeysRotate, vars, cloudVars, serverVars

(* The system of clients, server runs, bucket and zone, with all failures  *)
(* and overlaps, implements the service it promises: the zone changes only *)
(* by publishing, at once, trusted requests that were submitted            *)
(* (handle_client, handle_server).                                         *)
THEOREM SystemImplementsService == Spec => ImplementsService
<1>1. Init => Service!Init
  <2>1. ASSUME Init PROVE Submitted \subseteq Request
    BY <2>1, TypeInit, SubmittedType
  <2>2. QED
    BY <2>1 DEF Init, CloudInit, Service!Init
<1>2. OwnershipInv /\ [Next]_vars => [Service!Next]_Service!vars
  BY StepRefines
<1>3. QED
  BY <1>1, <1>2, OwnershipInvariant, PTL DEF Spec, ImplementsService, Service!Spec
=============================================================================
