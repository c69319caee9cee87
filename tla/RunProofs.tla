------------------------------ MODULE RunProofs ------------------------------
(***************************************************************************)
(* What the runs of the server may do, for every instance of Dyndynser:    *)
(* who may change the zone and the bucket, what the validation of requests *)
(* guarantees in time, what bad requests and revoked certificates are good *)
(* for, and how soon a run ends.                                           *)
(***************************************************************************)
EXTENDS FreshnessProofs, FiniteSetTheorems

-----------------------------------------------------------------------------
(* Whose steps *)

(* A step of one run leaves the others alone.                              *)
LEMMA OthersStand ==
  ASSUME TypeOK, NEW s \in Servers, ServerNext(s), NEW t \in Servers, Moves(t)
  PROVE  t = s
<1>1. ServerTypeOK
  BY DEF TypeOK
<1>2. SUFFICES ASSUME t # s PROVE UNCHANGED RunState(t)
  BY DEF Moves
<1>3. ASSUME NEW status, Exit(s, status), errors'[t] = errors[t]
      PROVE  UNCHANGED RunState(t)
  BY <1>1, <1>2, <1>3 DEF Exit, ServerTypeOK, RunState
<1>4. QED
  BY <1>1, <1>2, <1>3
     DEF ServerNext, ServerStep, ServerFault, Goto, ServerTypeOK, RunState, ServerStart,
         ServerListPage, ServerFetch, ServerFetchFails, ServerNextPage,
         ServerFetched, ServerReadDir, ServerReadKey, ServerKeysLoaded,
         ServerValidate, ServerBuildChanges, ServerCommit,
         ServerCommitRefused, ServerCommitLost, ServerDelete,
         ServerDeleteFails, ServerFinish, ServerCallFails, ServerKilled

(* The zone changes only by a commit and an object disappears only in a    *)
(* cleanup, and both are steps of a run.                                   *)
LEMMA ChangesAreByRuns ==
  ASSUME TypeOK, [Next]_vars, dns' # dns \/ ~NothingDeleted
  PROVE  \E s \in Servers : /\ ServerNext(s) /\ Moves(s)
                            /\ spc[s] \in {"commit", "cleanup"}
<1>1. CloudTypeOK /\ ServerTypeOK
  BY DEF TypeOK
<1>2. ~UNCHANGED <<bucket, dns>>
  BY DEF NothingDeleted
<1>3. ASSUME NEW c \in Clients, ClientNext(c) PROVE FALSE
  <2>1. CASE ClientPut(c)
    <3>1. signed[c] # NoObject
      BY <2>1, CloudAssumption DEF ClientPut, TypeOK, ClientTypeOK
    <3>2. QED
      BY <1>1, <2>1, <3>1 DEF ClientPut, PutObject, NothingDeleted, CloudTypeOK
  <2>2. CASE ~ClientPut(c)
    BY <1>2, <1>3, <2>2
       DEF ClientNext, ClientStep, ClientQueryIp, ClientSign, ClientDryRun, ClientAbort,
           cloudVars
  <2>3. QED
    BY <2>1, <2>2
<1>4. PICK s \in Servers : ServerNext(s)
  BY <1>2, <1>3 DEF Next, Clock, Tick, MachineMoves, Move, KeysRotate, vars, cloudVars
<1>5. CASE ServerCommit(s) \/ ServerCommitLost(s)
  <2>1. spc[s] = "commit" /\ spc'[s] # spc[s]
    BY <1>1, <1>5 DEF ServerCommit, ServerCommitLost, Exit, Goto, ServerTypeOK
  <2>2. QED
    BY <1>4, <2>1 DEF Moves, RunState
<1>6. ASSUME NEW k \in S3Keys, ServerDelete(s, k) \/ ServerDeleteFails(s, k)
      PROVE  spc[s] = "cleanup" /\ Moves(s)
  <2>1. spc[s] = "cleanup" /\ work'[s] # work[s]
    BY <1>1, <1>6 DEF ServerDelete, ServerDeleteFails, ServerTypeOK
  <2>2. QED
    BY <2>1 DEF Moves, RunState
<1>7. QED
  BY <1>2, <1>4, <1>5, <1>6
     DEF ServerNext, ServerStep, ServerFault, cloudVars, ServerStart,
         ServerListPage, ServerFetch, ServerFetchFails, ServerNextPage,
         ServerFetched, ServerReadDir, ServerReadKey, ServerKeysLoaded,
         ServerValidate, ServerBuildChanges, ServerCommitRefused, ServerFinish,
         ServerCallFails, ServerKilled

-----------------------------------------------------------------------------
(* What a run publishes *)

(* A record that a batch changes shows a request of the batch.             *)
LEMMA UpsertShows ==
  ASSUME NEW batch, UpsertAll(batch), NEW t \in Targets, dns'[t] # dns[t]
  PROVE  dns'[t] \in batch /\ TargetOf(dns'[t]) = t
<1>1. PICK win \in SUBSET batch :
        dns' = [u \in Targets |->
                  IF \E r \in win : TargetOf(r) = u
                  THEN CHOOSE r \in win : TargetOf(r) = u
                  ELSE dns[u]]
  BY DEF UpsertAll
<1>2. \E r \in win : TargetOf(r) = t
  BY <1>1
<1>3. dns'[t] \in win /\ TargetOf(dns'[t]) = t
  BY <1>1, <1>2
<1>4. QED
  BY <1>3

(* In a mixed fleet too, a run that verifies only publishes what it has    *)
(* verified: whoever set a record before, it ends up with its owner.       *)
THEOREM StrictRunsAreTrusted == Spec => StrictRunsPublishOwned
<1>1. ASSUME OwnershipInv, [Next]_vars, NEW s \in Servers, NEW t \in Targets,
             Moves(s), ~skip[s], dns'[t] # dns[t]
      PROVE  Owned(dns'[t]) /\ TargetOf(dns'[t]) = t
  <2>1. TypeOK
    BY <1>1 DEF OwnershipInv
  <2>2. PICK i \in Servers : ServerNext(i) /\ spc[i] \in {"commit", "cleanup"}
    BY <1>1, <2>1, ChangesAreByRuns
  <2>3. i = s
    BY <1>1, <2>1, <2>2, OthersStand
  <2>4. UpsertAll(Changes(s))
    BY <1>1, <2>2, <2>3
       DEF ServerNext, ServerStep, ServerFault, cloudVars, ServerStart,
           ServerListPage, ServerFetch, ServerFetchFails, ServerNextPage,
           ServerFetched, ServerReadDir, ServerReadKey, ServerKeysLoaded,
           ServerValidate, ServerBuildChanges, ServerCommit,
           ServerCommitRefused, ServerCommitLost, ServerDelete,
           ServerDeleteFails, ServerFinish, ServerCallFails, ServerKilled
  <2>5. dns'[t] \in Changes(s) /\ TargetOf(dns'[t]) = t
    BY <1>1, <2>4, UpsertShows
  <2>6. QED
    BY <1>1, <2>5 DEF OwnershipInv, VerifiedByOwner, Changes
<1>2. OwnershipInv /\ [Next]_vars =>
        \A s \in Servers, t \in Targets :
          Moves(s) /\ ~skip[s] /\ dns'[t] # dns[t] =>
            Owned(dns'[t]) /\ TargetOf(dns'[t]) = t
  BY <1>1
<1>3. QED
  BY <1>2, OwnershipInvariant, PTL DEF Spec, StrictRunsPublishOwned

-----------------------------------------------------------------------------
(* What a cleanup handles *)


(* A key of the bucket with the request extension is a request key.        *)
LEMMA ExtensionMeansRequest ==
  ASSUME NEW k \in S3Keys, k.ext = DDNS_JSON_FILE_EXT
  PROVE  k \in DdnsKeys
BY CloudAssumption DEF S3Keys

(* What each push adds to the keys that are noted for deletion.            *)
LEMMA PushedKeys ==
  ASSUME NEW e \in ServerErrors, NEW x
  PROVE  /\ FetchFailed(e, x).failed_s3_fetches = e.failed_s3_fetches \cup {x}
         /\ FetchFailed(e, x).failed_json_parses = e.failed_json_parses
         /\ ParseFailed(e, x).failed_s3_fetches = e.failed_s3_fetches
         /\ ParseFailed(e, x).failed_json_parses = e.failed_json_parses \cup {x}
         /\ DeleteFailed(e, x).failed_s3_fetches = e.failed_s3_fetches
         /\ DeleteFailed(e, x).failed_json_parses = e.failed_json_parses
         /\ KeyFailed(e, x).failed_s3_fetches = e.failed_s3_fetches
         /\ KeyFailed(e, x).failed_json_parses = e.failed_json_parses
         /\ CheckFailed(e, x).failed_s3_fetches = e.failed_s3_fetches
         /\ CheckFailed(e, x).failed_json_parses = e.failed_json_parses
BY DEF ServerErrors, FetchFailed, ParseFailed, DeleteFailed, KeyFailed, CheckFailed

(* The end of a run empties everything it handled but its errors, which    *)
(* still name request files only.                                          *)
LEMMA ExitHandles ==
  ASSUME ServerTypeOK, HandlesRequestsOnly, NEW s \in Servers, NEW status,
         Exit(s, status),
         \A t \in Servers :
           errors'[t].failed_s3_fetches \cup errors'[t].failed_json_parses
             \subseteq DdnsKeys
  PROVE  HandlesRequestsOnly'
<1>1. \A t \in Servers : work'[t] \subseteq work[t] /\ verified'[t] \subseteq verified[t]
  BY DEF Exit, ServerTypeOK
<1>2. \A t \in Servers : HeldKeys(t)' \subseteq HeldKeys(t)
  BY DEF Exit, ServerTypeOK, HeldKeys, NothingHeld
<1>3. QED
  BY <1>1, <1>2 DEF HandlesRequestsOnly, delete_keys

(* Every step of a server run keeps to request files.                      *)
LEMMA HandlesStep ==
  ASSUME TypeOK, AcceptedWereFetched, HandlesRequestsOnly,
         NEW s \in Servers, ServerNext(s)
  PROVE  HandlesRequestsOnly'
<1>1. ServerTypeOK
  BY DEF TypeOK
<1>2. \A t \in Servers : errors[t] \in ServerErrors
  BY <1>1 DEF ServerTypeOK
<1>3. \A t \in Servers :
        /\ errors[t].failed_s3_fetches \subseteq DdnsKeys
        /\ errors[t].failed_json_parses \subseteq DdnsKeys
  BY DEF HandlesRequestsOnly, delete_keys
<1>4. ASSUME NEW status, Exit(s, status), UNCHANGED errors
      PROVE  HandlesRequestsOnly'
  BY <1>1, <1>3, <1>4, ExitHandles
<1>5. ASSUME UNCHANGED <<held, verified, errors>>,
             \A t \in Servers : work'[t] \subseteq DdnsKeys
      PROVE  HandlesRequestsOnly'
  BY <1>5 DEF HandlesRequestsOnly, HeldKeys, delete_keys
<1>6. CASE ServerStart(s)
  <2>1. errors' = [errors EXCEPT ![s] = NoErrors]
    BY <1>6 DEF ServerStart
  <2>2. \A t \in Servers :
          errors'[t].failed_s3_fetches \cup errors'[t].failed_json_parses
            \subseteq DdnsKeys
    BY <1>1, <1>3, <2>1 DEF NoErrors, ServerTypeOK
  <2>3. QED
    BY <1>6, <2>2 DEF ServerStart, HandlesRequestsOnly, HeldKeys, delete_keys
<1>7. CASE ServerListPage(s)
  <2>1. \A t \in Servers : work'[t] \subseteq DdnsKeys
    BY <1>1, <1>7, ExtensionMeansRequest
       DEF ServerListPage, HandlesRequestsOnly, Present, ServerTypeOK
  <2>2. QED
    BY <1>5, <1>7, <2>1 DEF ServerListPage
<1>8. ASSUME NEW k \in S3Keys, ServerFetch(s, k) PROVE HandlesRequestsOnly'
  <2>1. k \in DdnsKeys
    BY <1>8 DEF ServerFetch, HandlesRequestsOnly
  <2>2. \A t \in Servers : work'[t] \subseteq DdnsKeys
    BY <1>1, <1>8 DEF ServerFetch, HandlesRequestsOnly, ServerTypeOK
  <2>3. \A t \in Servers : HeldKeys(t)' \subseteq DdnsKeys
    <3>1. held' = held \/ held' = [held EXCEPT ![s] = [held[s] EXCEPT ![k] = bucket[k]]]
      BY <1>8, Zenon DEF ServerFetch
    <3>2. \A t \in Servers : \A j \in S3Keys \ {k} : held'[t][j] = held[t][j]
      <4>1. CASE held' = held
        BY <4>1
      <4>2. CASE held' = [held EXCEPT ![s] = [held[s] EXCEPT ![k] = bucket[k]]]
        BY <1>1, <4>2 DEF ServerTypeOK
      <4>3. QED
        BY <3>1, <4>1, <4>2
    <3>3. \A t \in Servers : HeldKeys(t)' \subseteq HeldKeys(t) \cup {k}
      BY <3>2 DEF HeldKeys
    <3>4. QED
      BY <2>1, <3>3 DEF HandlesRequestsOnly
  <2>4. \A t \in Servers :
          errors'[t].failed_s3_fetches \cup errors'[t].failed_json_parses
            \subseteq DdnsKeys
    <3>1. \/ errors' = [errors EXCEPT ![s] = ParseFailed(errors[s], k)]
          \/ errors' = [errors EXCEPT ![s] = FetchFailed(errors[s], k)]
          \/ errors' = errors
      BY <1>8, Zenon DEF ServerFetch
    <3>2. CASE errors' = [errors EXCEPT ![s] = ParseFailed(errors[s], k)]
      BY <1>1, <1>2, <1>3, <2>1, <3>2, PushedKeys DEF ServerTypeOK
    <3>3. CASE errors' = [errors EXCEPT ![s] = FetchFailed(errors[s], k)]
      BY <1>1, <1>2, <1>3, <2>1, <3>3, PushedKeys DEF ServerTypeOK
    <3>4. CASE errors' = errors
      BY <1>3, <3>4
    <3>5. QED
      BY <3>1, <3>2, <3>3, <3>4
  <2>5. UNCHANGED verified
    BY <1>8 DEF ServerFetch
  <2>6. QED
    BY <2>2, <2>3, <2>4, <2>5 DEF HandlesRequestsOnly, delete_keys
<1>9. ASSUME NEW k \in S3Keys, ServerFetchFails(s, k) PROVE HandlesRequestsOnly'
  <2>1. k \in DdnsKeys
    BY <1>9 DEF ServerFetchFails, HandlesRequestsOnly
  <2>2. \A t \in Servers : work'[t] \subseteq DdnsKeys
    BY <1>1, <1>9 DEF ServerFetchFails, HandlesRequestsOnly, ServerTypeOK
  <2>3. errors' = [errors EXCEPT ![s] = FetchFailed(errors[s], k)]
    BY <1>9 DEF ServerFetchFails
  <2>4. \A t \in Servers :
          errors'[t].failed_s3_fetches \cup errors'[t].failed_json_parses
            \subseteq DdnsKeys
    BY <1>1, <1>2, <1>3, <2>1, <2>3, PushedKeys DEF ServerTypeOK
  <2>5. QED
    BY <1>9, <2>2, <2>4
       DEF ServerFetchFails, HandlesRequestsOnly, HeldKeys, delete_keys
<1>10. CASE ServerFetched(s)
  <2>1. CASE Exit(s, "ok")
    BY <1>4, <1>10, <2>1 DEF ServerFetched
  <2>2. CASE ~Exit(s, "ok")
    <3>1. UNCHANGED <<held, verified, errors>>
      BY <1>10, <2>2 DEF ServerFetched
    <3>2. work' = work \/ work' = [work EXCEPT ![s] = HeldKeys(s)]
      BY <1>10, <2>2, Zenon DEF ServerFetched
    <3>3. QED
      BY <1>1, <1>5, <3>1, <3>2 DEF HandlesRequestsOnly, ServerTypeOK
  <2>3. QED
    BY <2>1, <2>2
<1>11. CASE ServerNextPage(s)
  BY <1>5, <1>11 DEF ServerNextPage, HandlesRequestsOnly
<1>12. CASE ServerReadDir(s)
  BY <1>5, <1>12 DEF ServerReadDir, HandlesRequestsOnly
<1>13. ASSUME NEW p \in CertPaths, ServerReadKey(s, p) PROVE HandlesRequestsOnly'
  <2>1. CASE Exit(s, "err") /\ UNCHANGED errors
    BY <1>4, <2>1
  <2>2. CASE ~(Exit(s, "err") /\ UNCHANGED errors)
    <3>1. UNCHANGED <<work, held, verified>>
      BY <1>13, <2>2 DEF ServerReadKey
    <3>2. \/ errors' = [errors EXCEPT ![s] = KeyFailed(errors[s], p)]
          \/ errors' = errors
      BY <1>13, <2>2, Zenon DEF ServerReadKey
    <3>3. \A t \in Servers :
            errors'[t].failed_s3_fetches \cup errors'[t].failed_json_parses
              \subseteq DdnsKeys
      <4>1. CASE errors' = [errors EXCEPT ![s] = KeyFailed(errors[s], p)]
        BY <1>1, <1>2, <1>3, <4>1, PushedKeys DEF ServerTypeOK
      <4>2. CASE errors' = errors
        BY <1>3, <4>2
      <4>3. QED
        BY <3>2, <4>1, <4>2
    <3>4. QED
      BY <3>1, <3>3 DEF HandlesRequestsOnly, HeldKeys, delete_keys
  <2>3. QED
    BY <2>1, <2>2
<1>14. CASE ServerKeysLoaded(s)
  <2>1. CASE Exit(s, "ok")
    BY <1>4, <1>14, <2>1 DEF ServerKeysLoaded
  <2>2. CASE ~Exit(s, "ok")
    <3>1. /\ UNCHANGED <<held, verified, errors>>
          /\ work' = [work EXCEPT ![s] = HeldKeys(s)]
      BY <1>14, <2>2 DEF ServerKeysLoaded
    <3>2. \A t \in Servers : work'[t] \subseteq DdnsKeys
      BY <1>1, <3>1 DEF HandlesRequestsOnly, ServerTypeOK
    <3>3. QED
      BY <1>5, <3>1, <3>2
  <2>3. QED
    BY <2>1, <2>2
<1>15. ASSUME NEW k \in S3Keys, ServerValidate(s, k) PROVE HandlesRequestsOnly'
  <2>1. k \in DdnsKeys
    BY <1>15 DEF ServerValidate, HandlesRequestsOnly
  <2>2. \A t \in Servers : work'[t] \subseteq DdnsKeys
    BY <1>1, <1>15 DEF ServerValidate, HandlesRequestsOnly, ServerTypeOK
  <2>3. \A t \in Servers : verified'[t] \subseteq DdnsKeys
    <3>1. \/ verified' = verified
          \/ verified' = [verified EXCEPT ![s] = verified[s] \cup {k}]
      BY <1>15, Zenon DEF ServerValidate
    <3>2. \A t \in Servers : verified[t] \subseteq DdnsKeys
      BY DEF HandlesRequestsOnly, delete_keys
    <3>3. CASE verified' = verified
      BY <3>2, <3>3
    <3>4. CASE verified' = [verified EXCEPT ![s] = verified[s] \cup {k}]
      BY <1>1, <2>1, <3>2, <3>4 DEF ServerTypeOK
    <3>5. QED
      BY <3>1, <3>3, <3>4
  <2>4. \A t \in Servers :
          errors'[t].failed_s3_fetches \cup errors'[t].failed_json_parses
            \subseteq DdnsKeys
    <3>1. \/ errors' = [errors EXCEPT ![s] = CheckFailed(errors[s], held[s][k].name)]
          \/ errors' = errors
      BY <1>15, Zenon DEF ServerValidate
    <3>2. CASE errors' = [errors EXCEPT ![s] = CheckFailed(errors[s], held[s][k].name)]
      BY <1>1, <1>2, <1>3, <3>2, PushedKeys DEF ServerTypeOK
    <3>3. CASE errors' = errors
      BY <1>3, <3>3
    <3>4. QED
      BY <3>1, <3>2, <3>3
  <2>5. UNCHANGED held
    BY <1>15 DEF ServerValidate
  <2>6. QED
    BY <2>2, <2>3, <2>4, <2>5 DEF HandlesRequestsOnly, HeldKeys, delete_keys
<1>16. CASE ServerBuildChanges(s)
  <2>1. CASE Exit(s, "ok")
    BY <1>4, <1>16, <2>1 DEF ServerBuildChanges
  <2>2. CASE ~Exit(s, "ok")
    BY <1>5, <1>16, <2>2 DEF ServerBuildChanges, HandlesRequestsOnly
  <2>3. QED
    BY <2>1, <2>2
<1>17. CASE ServerCommit(s)
  <2>1. \A t \in Servers : work'[t] \subseteq DdnsKeys
    BY <1>1, <1>17 DEF ServerCommit, HandlesRequestsOnly, ServerTypeOK
  <2>2. QED
    BY <1>5, <1>17, <2>1 DEF ServerCommit
<1>18. ASSUME NEW k \in S3Keys, ServerDelete(s, k) PROVE HandlesRequestsOnly'
  <2>1. \A t \in Servers : work'[t] \subseteq DdnsKeys
    BY <1>1, <1>18 DEF ServerDelete, HandlesRequestsOnly, ServerTypeOK
  <2>2. QED
    BY <1>5, <1>18, <2>1 DEF ServerDelete
<1>19. ASSUME NEW k \in S3Keys, ServerDeleteFails(s, k) PROVE HandlesRequestsOnly'
  <2>1. \A t \in Servers : work'[t] \subseteq DdnsKeys
    BY <1>1, <1>19 DEF ServerDeleteFails, HandlesRequestsOnly, ServerTypeOK
  <2>2. errors' = [errors EXCEPT ![s] = DeleteFailed(errors[s], k)]
    BY <1>19 DEF ServerDeleteFails
  <2>3. \A t \in Servers :
          errors'[t].failed_s3_fetches \cup errors'[t].failed_json_parses
            \subseteq DdnsKeys
    BY <1>1, <1>2, <1>3, <2>2, PushedKeys DEF ServerTypeOK
  <2>4. QED
    BY <1>19, <2>1, <2>3
       DEF ServerDeleteFails, HandlesRequestsOnly, HeldKeys, delete_keys
<1>20. CASE \/ ServerCommitRefused(s) \/ ServerCommitLost(s) \/ ServerFinish(s)
            \/ ServerCallFails(s) \/ ServerKilled(s)
  BY <1>4, <1>20 DEF ServerCommitRefused, ServerCommitLost, ServerFinish,
                     ServerCallFails, ServerKilled
<1>21. QED
  BY <1>6, <1>7, <1>8, <1>9, <1>10, <1>12, <1>15, <1>16, <1>17, <1>18, <1>19,
     <1>20, <1>11, <1>13, <1>14 DEF ServerNext, ServerStep, ServerFault

(* Clients store requests under request keys, cleanup deletes such keys.   *)
LEMMA ForeignStep ==
  ASSUME HandlesRequestsOnly, ForeignFilesSurvive, TypeOK, [Next]_vars
  PROVE  ForeignFilesSurvive'
<1>1. \A k \in ForeignKeys : k \notin DdnsKeys
  BY CloudAssumption
<1>2. CASE UNCHANGED bucket
  BY <1>2 DEF ForeignFilesSurvive
<1>3. ASSUME NEW k \in DdnsKeys, NEW obj, bucket' = [bucket EXCEPT ![k] = obj]
      PROVE  ForeignFilesSurvive'
  BY <1>1, <1>3 DEF ForeignFilesSurvive, TypeOK, CloudTypeOK, S3Keys
<1>4. ASSUME NEW c \in Clients, ClientNext(c) PROVE ForeignFilesSurvive'
  <2>1. CASE ClientPut(c)
    <3>1. signed[c].name \in Names
      BY <2>1 DEF ClientPut, TypeOK, ClientTypeOK, Request
    <3>2. make_filename(signed[c].name) \in DdnsKeys
      BY <3>1 DEF DdnsKeys
    <3>3. QED
      BY <1>3, <2>1, <3>2 DEF ClientPut, PutObject
  <2>2. CASE ~ClientPut(c)
    BY <1>2, <1>4, <2>2
       DEF ClientNext, ClientStep, ClientQueryIp, ClientSign,
           ClientDryRun, ClientAbort, cloudVars
  <2>3. QED
    BY <2>1, <2>2
<1>5. ASSUME NEW s \in Servers, ServerNext(s) PROVE ForeignFilesSurvive'
  <2>1. ASSUME NEW k \in S3Keys, ServerDelete(s, k) PROVE ForeignFilesSurvive'
    BY <1>3, <2>1 DEF ServerDelete, DeleteObject, HandlesRequestsOnly
  <2>2. ASSUME NEW k \in S3Keys, ServerDeleteFails(s, k) PROVE ForeignFilesSurvive'
    BY <1>2, <1>3, <2>2 DEF ServerDeleteFails, DeleteObject, HandlesRequestsOnly
  <2>3. QED
    BY <1>2, <1>5, <2>1, <2>2
       DEF ServerNext, ServerStep, ServerFault, cloudVars, ServerStart,
           ServerListPage, ServerFetch, ServerFetchFails, ServerNextPage,
           ServerFetched, ServerReadDir, ServerReadKey, ServerKeysLoaded,
           ServerValidate, ServerBuildChanges, ServerCommit,
           ServerCommitRefused, ServerCommitLost, ServerFinish,
           ServerCallFails, ServerKilled
<1>6. QED
  BY <1>2, <1>4, <1>5
     DEF Next, Clock, Tick, MachineMoves, Move, KeysRotate, vars, cloudVars

(* The two together hold initially and are kept by every step.             *)
LEMMA HandlesInit == Init => HandlesRequestsOnly /\ ForeignFilesSurvive
BY CloudAssumption
   DEF Init, CloudInit, ServerInit, HandlesRequestsOnly, ForeignFilesSurvive,
       HeldKeys, NothingHeld, NoErrors, delete_keys

(* Whoever moves, runs handle request keys only.                           *)
LEMMA HandlesNext ==
  ASSUME OwnershipInv, HandlesRequestsOnly, [Next]_vars
  PROVE  HandlesRequestsOnly'
<1>1. ASSUME UNCHANGED serverVars PROVE HandlesRequestsOnly'
  BY <1>1 DEF serverVars, HandlesRequestsOnly, HeldKeys, delete_keys
<1>2. ASSUME NEW s \in Servers, ServerNext(s) PROVE HandlesRequestsOnly'
  BY <1>2, HandlesStep DEF OwnershipInv
<1>3. QED
  BY <1>1, <1>2 DEF Next, ClientNext, Clock, MachineMoves, KeysRotate, vars

(* Whatever the clients, the failures and the malformed requests do, no    *)
(* file but the .ddns.json ones is ever overwritten or deleted.            *)
THEOREM ForeignFilesAreSafe == Spec => []ForeignFilesSurvive
<1> DEFINE Inv == HandlesRequestsOnly /\ ForeignFilesSurvive
<1>1. Init => Inv
  BY HandlesInit
<1>2. OwnershipInv /\ Inv /\ [Next]_vars => Inv'
  <2>1. OwnershipInv => TypeOK
    BY DEF OwnershipInv
  <2>2. QED
    BY <2>1, HandlesNext, ForeignStep
<1>3. Inv => ForeignFilesSurvive
  OBVIOUS
<1> HIDE DEF Inv
<1>4. QED
  BY <1>1, <1>2, <1>3, OwnershipInvariant, PTL DEF Spec

-----------------------------------------------------------------------------
(* Dry runs *)

(* Only the flag's own run decides; no step takes a dry run to the commit. *)
LEMMA DryStep ==
  ASSUME TypeOK, DryRunsStopEarly, [Next]_vars
  PROVE  DryRunsStopEarly'
<1>1. ServerTypeOK
  BY DEF TypeOK
<1>2. ASSUME UNCHANGED serverVars PROVE DryRunsStopEarly'
  BY <1>2 DEF serverVars, DryRunsStopEarly
<1>3. ASSUME NEW s \in Servers, ServerNext(s) PROVE DryRunsStopEarly'
  <2>1. ASSUME NEW status, Exit(s, status) PROVE DryRunsStopEarly'
    BY <1>1, <2>1 DEF Exit, DryRunsStopEarly, ServerTypeOK
  <2>2. ASSUME UNCHANGED dry, UNCHANGED spc PROVE DryRunsStopEarly'
    BY <2>2 DEF DryRunsStopEarly
  <2>3. ASSUME UNCHANGED dry, NEW phase \in {"list", "fetch", "keys", "load", "validate"},
               Goto(s, phase)
        PROVE  DryRunsStopEarly'
    BY <1>1, <2>3 DEF Goto, DryRunsStopEarly, ServerTypeOK
  <2>4. CASE ServerStart(s)
    BY <1>1, <2>4 DEF ServerStart, Goto, DryRunsStopEarly, ServerTypeOK
  <2>5. CASE ServerListPage(s)
    BY <2>3, <2>5 DEF ServerListPage
  <2>6. CASE ServerFetched(s)
    BY <2>1, <2>3, <2>6 DEF ServerFetched
  <2>7. CASE ServerNextPage(s)
    BY <2>3, <2>7 DEF ServerNextPage
  <2>8. CASE ServerReadDir(s) \/ ServerKeysLoaded(s)
    BY <2>1, <2>3, <2>8 DEF ServerReadDir, ServerKeysLoaded
  <2>9. ASSUME NEW p \in CertPaths, ServerReadKey(s, p) PROVE DryRunsStopEarly'
    BY <2>1, <2>2, <2>9 DEF ServerReadKey
  <2>10. CASE ServerBuildChanges(s)
    <3>1. CASE Exit(s, "ok")
      BY <2>1, <3>1
    <3>2. CASE ~Exit(s, "ok")
      BY <1>1, <2>10, <3>2 DEF ServerBuildChanges, Goto, DryRunsStopEarly, ServerTypeOK
    <3>3. QED
      BY <3>1, <3>2
  <2>11. CASE ServerCommit(s)
    BY <1>1, <2>11 DEF ServerCommit, Goto, DryRunsStopEarly, ServerTypeOK
  <2>12. QED
    BY <1>3, <2>1, <2>2, <2>4, <2>5, <2>6, <2>8, <2>10, <2>11, <2>7, <2>9
       DEF ServerNext, ServerStep, ServerFault, ServerFetch, ServerFetchFails,
           ServerValidate, ServerCommitRefused, ServerCommitLost, ServerDelete,
           ServerDeleteFails, ServerFinish, ServerCallFails, ServerKilled
<1>4. QED
  BY <1>2, <1>3 DEF Next, ClientNext, Clock, MachineMoves, KeysRotate, vars

(* Whatever else happens, the zone changes, and objects disappear, by the  *)
(* steps of runs that are not dry.                                         *)
THEOREM DryRunsAreDry == Spec => DryRunsLeaveNoTrace
<1>1. Init => DryRunsStopEarly
  BY DEF Init, ServerInit, DryRunsStopEarly
<1>2. TypeOK /\ DryRunsStopEarly /\ [Next]_vars => DryRunsStopEarly'
  BY DryStep
<1>3. TypeOK /\ DryRunsStopEarly /\ [Next]_vars =>
        (dns' # dns \/ ~NothingDeleted => \E s \in Servers : Moves(s) /\ ~dry[s])
  BY ChangesAreByRuns DEF DryRunsStopEarly
<1>4. QED
  BY <1>1, <1>2, <1>3, TypeCorrect, PTL DEF Spec, DryRunsLeaveNoTrace



-----------------------------------------------------------------------------
(* A run judges a request once *)

(* A request that is judged leaves the list of those still to be judged.   *)
LEMMA JudgedOnceStep ==
  ASSUME TypeOK, AcceptedWereFetched, JudgedOnce, NEW s \in Servers, ServerNext(s)
  PROVE  JudgedOnce'
<1>1. ServerTypeOK
  BY DEF TypeOK
<1>2. ASSUME NEW status, Exit(s, status) PROVE JudgedOnce'
  BY <1>1, <1>2 DEF Exit, JudgedOnce, ServerTypeOK
<1>3. ASSUME UNCHANGED <<spc, verified>>, \A t \in Servers : work'[t] \subseteq work[t]
      PROVE  JudgedOnce'
  BY <1>3 DEF JudgedOnce
<1>4. ASSUME NEW phase \in Phases, Goto(s, phase), UNCHANGED verified,
             \A t \in Servers \ {s} : work'[t] = work[t],
             phase = "validate" => verified[s] = {}
      PROVE  JudgedOnce'
  BY <1>1, <1>4 DEF Goto, JudgedOnce, ServerTypeOK
<1>5. CASE ServerStart(s) \/ ServerListPage(s) \/ ServerNextPage(s) \/ ServerReadDir(s)
           \/ ServerCommit(s)
  BY <1>1, <1>4, <1>5
     DEF ServerStart, ServerListPage, ServerNextPage, ServerReadDir, ServerCommit,
         ServerTypeOK, Phases
<1>6. ASSUME NEW k \in S3Keys,
             \/ ServerFetch(s, k) \/ ServerFetchFails(s, k)
             \/ ServerDelete(s, k) \/ ServerDeleteFails(s, k)
      PROVE  JudgedOnce'
  <2>1. /\ UNCHANGED <<spc, verified>>
        /\ work' = [work EXCEPT ![s] = work[s] \ {k}]
    BY <1>6, Zenon DEF ServerFetch, ServerFetchFails, ServerDelete, ServerDeleteFails
  <2>2. QED
    BY <1>1, <1>3, <2>1 DEF ServerTypeOK
<1>7. ASSUME NEW p \in CertPaths, ServerReadKey(s, p) PROVE JudgedOnce'
  BY <1>2, <1>3, <1>7 DEF ServerReadKey
<1>8. CASE ServerFetched(s)
  <2>1. verified[s] = {}
    BY <1>8 DEF ServerFetched, AcceptedWereFetched
  <2>2. CASE Exit(s, "ok")
    BY <1>2, <2>2
  <2>3. CASE ~Exit(s, "ok")
    <3>1. /\ Goto(s, "validate") \/ Goto(s, "keys")
          /\ UNCHANGED verified
          /\ work' = work \/ work' = [work EXCEPT ![s] = HeldKeys(s)]
      BY <1>8, <2>3, Zenon DEF ServerFetched
    <3>2. QED
      BY <1>1, <1>4, <2>1, <3>1 DEF ServerTypeOK, Phases
  <2>4. QED
    BY <2>2, <2>3
<1>9. CASE ServerKeysLoaded(s)
  <2>1. verified[s] = {}
    BY <1>9 DEF ServerKeysLoaded, AcceptedWereFetched
  <2>2. QED
    BY <1>1, <1>2, <1>4, <1>9, <2>1 DEF ServerKeysLoaded, ServerTypeOK, Phases
<1>10. ASSUME NEW k \in S3Keys, ServerValidate(s, k) PROVE JudgedOnce'
  <2>1. /\ UNCHANGED spc
        /\ work' = [work EXCEPT ![s] = work[s] \ {k}]
        /\ \/ verified' = verified
           \/ verified' = [verified EXCEPT ![s] = verified[s] \cup {k}]
    BY <1>10, Zenon DEF ServerValidate
  <2>2. QED
    BY <1>1, <2>1 DEF JudgedOnce, ServerTypeOK
<1>11. CASE ServerBuildChanges(s)
  BY <1>1, <1>2, <1>4, <1>11 DEF ServerBuildChanges, ServerTypeOK, Phases
<1>12. CASE \/ ServerCommitRefused(s) \/ ServerCommitLost(s) \/ ServerFinish(s)
            \/ ServerCallFails(s) \/ ServerKilled(s)
  BY <1>2, <1>12 DEF ServerCommitRefused, ServerCommitLost, ServerFinish,
                     ServerCallFails, ServerKilled
<1>13. QED
  BY <1>5, <1>6, <1>7, <1>8, <1>9, <1>10, <1>11, <1>12
     DEF ServerNext, ServerStep, ServerFault

(* No other step touches what the runs have judged.                        *)
LEMMA JudgedOnceNext ==
  ASSUME OwnershipInv, JudgedOnce, [Next]_vars
  PROVE  JudgedOnce'
<1>1. ASSUME UNCHANGED serverVars PROVE JudgedOnce'
  BY <1>1 DEF serverVars, JudgedOnce
<1>2. ASSUME NEW s \in Servers, ServerNext(s) PROVE JudgedOnce'
  BY <1>2, JudgedOnceStep DEF OwnershipInv
<1>3. QED
  BY <1>1, <1>2 DEF Next, ClientNext, Clock, MachineMoves, KeysRotate, vars

-----------------------------------------------------------------------------
(* The age window *)

(* The instant at which a client signed is one of those that AgeWindow     *)
(* considers: cutting the stamp loses less than a second.                  *)
LEMMA SignedAtAnInstant ==
  ASSUME NEW c \in Clients, NEW a \in Addrs, now \in Int
  PROVE  now \in SignedAtInstants(c, sign(ClientName[c], a, machine_time(c),
                                          signing_key(c)))
<1>1. Skew[MachineOf[c]] \in Int /\ machine_time(c) \in Int
  BY ClientAssumption DEF machine_time
<1> DEFINE lost == machine_time(c) - timestamp(machine_time(c))
<1>2. lost \in 0..(Second - 1)
  BY <1>1, TimestampBounds, RequestsAssumption
<1>3. now = timestamp(machine_time(c)) - Skew[MachineOf[c]] + lost
  BY <1>1, TimestampBounds DEF machine_time
<1>4. QED
  BY <1>2, <1>3 DEF SignedAtInstants, sign

(* Drift within the tolerance moves the age limit by at most twice the     *)
(* tolerance, and never forward.                                           *)
LEMMA AgeArithmetic ==
  ASSUME NEW c \in Clients, Tolerable(c), NEW r \in Request,
         NEW i \in SignedAtInstants(c, r), NEW time \in Int
  PROVE  /\ time - i <= MaxAge => ~TooOld(r, time)
         /\ time - i > MaxAge + 2 * Tolerance => TooOld(r, time)
<1>1. /\ Skew[MachineOf[c]] \in Int /\ r.signed_at \in Int
      /\ MaxAge \in Int /\ Tolerance \in Int /\ Second \in Int
  BY ClientAssumption, RequestsAssumption DEF Request
<1>2. PICK j \in 0..(Second - 1) : i = r.signed_at - Skew[MachineOf[c]] + j
  BY DEF SignedAtInstants
<1>3. /\ Second - 1 - Tolerance <= Skew[MachineOf[c]]
      /\ Skew[MachineOf[c]] <= Tolerance
  BY <1>1 DEF Tolerable
<1>4. QED
  BY <1>1, <1>2, <1>3 DEF TooOld

(* Only the turn of the validation loop for a key takes the key off the    *)
(* list of those still to be judged, while the run goes on judging.        *)
LEMMA JudgedByValidate ==
  ASSUME TypeOK, [Next]_vars, NEW s \in Servers, NEW k, Judged(s, k)
  PROVE  ServerValidate(s, k) /\ k \in S3Keys
<1>1. ServerTypeOK /\ k \in S3Keys
  BY DEF Judged, TypeOK, ServerTypeOK
<1>2. ~UNCHANGED work /\ spc[s] = "validate" /\ spc'[s] = "validate"
  BY DEF Judged
<1>3. PICK t \in Servers : ServerNext(t)
  BY <1>2 DEF Next, ClientNext, Clock, MachineMoves, KeysRotate, vars, serverVars
<1>4. t = s
  <2>1. CASE work' = work
    BY <1>2, <2>1
  <2>2. ASSUME NEW w, work' = [work EXCEPT ![t] = w] PROVE t = s
    BY <1>1, <2>2 DEF Judged, ServerTypeOK
  <2>3. QED
    BY <1>3, <2>1, <2>2
       DEF ServerNext, ServerStep, ServerFault, Exit, ServerStart,
           ServerListPage, ServerFetch, ServerFetchFails, ServerNextPage,
           ServerFetched, ServerReadDir, ServerReadKey, ServerKeysLoaded,
           ServerValidate, ServerBuildChanges, ServerCommit,
           ServerCommitRefused, ServerCommitLost, ServerDelete,
           ServerDeleteFails, ServerFinish, ServerCallFails, ServerKilled
<1>5. ASSUME NEW status PROVE ~Exit(s, status)
  BY <1>1, <1>2 DEF Exit, ServerTypeOK
<1>6. ~Goto(s, "commit")
  BY <1>1, <1>2 DEF Goto, ServerTypeOK
<1>7. PICK j \in S3Keys : ServerValidate(s, j)
  BY <1>2, <1>3, <1>4, <1>5, <1>6
     DEF ServerNext, ServerStep, ServerFault, ServerStart,
         ServerListPage, ServerFetch, ServerFetchFails, ServerNextPage,
         ServerFetched, ServerReadDir, ServerReadKey, ServerKeysLoaded,
         ServerBuildChanges, ServerCommit,
         ServerCommitRefused, ServerCommitLost, ServerDelete,
         ServerDeleteFails, ServerFinish, ServerCallFails, ServerKilled
<1>8. j = k
  BY <1>1, <1>7 DEF ServerValidate, Judged, ServerTypeOK
<1>9. QED
  BY <1>1, <1>7, <1>8

(* Whatever the drift within the tolerance, an owner's request is good for *)
(* MaxAge and for no more than MaxAge and twice the tolerance.             *)
THEOREM AgeIsJudgedInTime == Spec => AgeWindow
<1>1. Init => JudgedOnce
  BY DEF Init, ServerInit, JudgedOnce
<1>2. OwnershipInv /\ JudgedOnce /\ [Next]_vars => JudgedOnce'
  BY JudgedOnceNext
<1>3. ASSUME OwnershipInv, JudgedOnce, [Next]_vars,
             NEW s \in Servers, NEW k \in DdnsKeys, NEW c \in Clients,
             Judged(s, k), ~skip[s], Tolerable(c),
             held[s][k].name = ClientName[c],
             held[s][k].signer = signing_key(c),
             certs[s][ClientName[c]] = signing_key(c),
             NEW i \in SignedAtInstants(c, held[s][k])
      PROVE  /\ now - i <= MaxAge => k \in verified'[s]
             /\ now - i > MaxAge + 2 * Tolerance => k \notin verified'[s]
  <2> DEFINE r == held[s][k]
  <2>1. ServerValidate(s, k) /\ k \in S3Keys
    BY <1>3, JudgedByValidate DEF OwnershipInv
  <2>2. ServerTypeOK /\ now \in Int
    BY <1>3, CloudAssumption DEF OwnershipInv, TypeOK, CloudTypeOK
  <2>3. r \in Request
    BY <1>3, <2>1, <2>2
       DEF Judged, OwnershipInv, AcceptedWereFetched, HeldKeys, ServerTypeOK
  <2>4. k \notin verified[s]
    BY <1>3 DEF Judged, JudgedOnce
  <2>5. signing_key(c) # NoKey
    BY ClientAssumption, RequestsAssumption DEF signing_key, Keys
  <2> HIDE DEF r
  <2>6. check_valid_ddns_request(r, certs[s], skip[s], now) <=> ~TooOld(r, now)
    BY <1>3, <2>5 DEF check_valid_ddns_request, verify_strict, validate, r
  <2>7. /\ now - i <= MaxAge => ~TooOld(r, now)
        /\ now - i > MaxAge + 2 * Tolerance => TooOld(r, now)
    BY <1>3, <2>2, <2>3, AgeArithmetic DEF r
  <2>8. CASE TooOld(r, now)
    <3>1. UNCHANGED verified
      BY <2>1, <2>6, <2>8, Zenon DEF ServerValidate, r
    <3>2. ~(now - i <= MaxAge)
      BY <2>7, <2>8
    <3>3. QED
      BY <2>4, <3>1, <3>2
  <2>9. CASE ~TooOld(r, now)
    <3>1. verified' = [verified EXCEPT ![s] = verified[s] \cup {k}]
      BY <2>1, <2>6, <2>9, Zenon DEF ServerValidate, r
    <3>2. k \in verified'[s]
      BY <2>2, <3>1 DEF ServerTypeOK
    <3>3. QED
      BY <2>7, <2>9, <3>2
  <2>10. QED
    BY <2>8, <2>9
<1>4. OwnershipInv /\ JudgedOnce /\ [Next]_vars =>
        \A s \in Servers, k \in DdnsKeys, c \in Clients :
          /\ Judged(s, k)
          /\ ~skip[s]
          /\ Tolerable(c)
          /\ held[s][k].name = ClientName[c]
          /\ held[s][k].signer = signing_key(c)
          /\ certs[s][ClientName[c]] = signing_key(c)
          => \A i \in SignedAtInstants(c, held[s][k]) :
               /\ now - i <= MaxAge => k \in verified'[s]
               /\ now - i > MaxAge + 2 * Tolerance => k \notin verified'[s]
  BY <1>3, Zenon
<1>5. QED
  BY <1>1, <1>2, <1>4, OwnershipInvariant, PTL DEF Spec, AgeWindow

-----------------------------------------------------------------------------
(* Bad requests *)

(* What the inductive invariant JudgedInv says of one run.                 *)
RunJudged(t) ==
  /\ spc[t] \in {"commit", "cleanup"} => \A k \in HeldKeys(t) \ verified[t] : Refused(t, k)
  /\ spc[t] = "validate" =>
       \A k \in HeldKeys(t) \ (verified[t] \cup work[t]) : Refused(t, k)

(* Time never runs back.                                                   *)
LEMMA TimeGoesOn ==
  ASSUME TypeOK, [Next]_vars
  PROVE  now \in Int /\ now' \in Int /\ now <= now'
<1>1. now \in Int
  BY CloudAssumption DEF TypeOK, CloudTypeOK
<1>2. CASE now' = now
  BY <1>1, <1>2
<1>3. CASE now' = now + 1
  BY <1>1, <1>3
<1> QED
  BY <1>2, <1>3
     DEF Next, vars, cloudVars, ClientNext, ClientStep, ClientAbort, ClientQueryIp, ClientSign,
         ClientDryRun, ClientPut, PutObject, MachineMoves, Move, KeysRotate, Clock, Tick,
         ServerNext, ServerStep, ServerFault, ServerStart, ServerListPage, ServerFetch,
         ServerFetchFails, ServerNextPage, ServerFetched, ServerReadDir, ServerReadKey,
         ServerKeysLoaded, ServerValidate, ServerBuildChanges, ServerCommit,
         ServerCommitRefused, ServerCommitLost, ServerDelete, ServerDeleteFails,
         ServerFinish, ServerCallFails, ServerKilled

(* A request that was refused would be refused later, too: it only gets    *)
(* older.                                                                  *)
LEMMA RefusedForGood ==
  ASSUME TypeOK, [Next]_vars, NEW t \in Servers, NEW k \in HeldKeys(t), Refused(t, k),
         held'[t] = held[t], certs'[t] = certs[t], skip'[t] = skip[t],
         errors[t].failed_signature_checks \subseteq errors'[t].failed_signature_checks
  PROVE  Refused(t, k)'
<1>1. held[t][k] \in Request
  BY DEF HeldKeys, TypeOK, ServerTypeOK
<1> DEFINE r == held[t][k]
<1>2. now \in Int /\ now' \in Int /\ now <= now'
  BY TimeGoesOn
<1>3. TooOld(r, now) => TooOld(r, now')
  BY <1>1, <1>2, RequestsAssumption DEF TooOld, Request
<1>4. ~check_valid_ddns_request(r, certs[t], skip[t], now)
  BY DEF Refused
<1>5. ~check_valid_ddns_request(r, certs[t], skip[t], now')
  BY <1>3, <1>4 DEF check_valid_ddns_request, validate
<1> QED
  BY <1>5 DEF Refused

(* A run that keeps what it holds and knows, and loses no error, keeps its *)
(* refusals, if it has nothing new to answer for.                          *)
LEMMA JudgedStays ==
  ASSUME TypeOK, [Next]_vars, NEW t \in Servers, RunJudged(t),
         held'[t] = held[t], certs'[t] = certs[t], skip'[t] = skip[t],
         verified'[t] = verified[t],
         errors[t].failed_signature_checks \subseteq errors'[t].failed_signature_checks,
         \/ spc'[t] = spc[t] /\ work'[t] = work[t]
         \/ spc[t] = "validate" /\ work[t] = {} /\ spc'[t] = "commit"
         \/ spc[t] \in {"commit", "cleanup"} /\ spc'[t] \in {"commit", "cleanup"}
  PROVE  RunJudged(t)'
<1>1. HeldKeys(t)' = HeldKeys(t)
  BY DEF HeldKeys
<1>2. \A k \in HeldKeys(t) : Refused(t, k) => Refused(t, k)'
  BY RefusedForGood
<1> QED
  BY <1>1, <1>2 DEF RunJudged

(* The steps of the run itself.                                            *)
LEMMA JudgedStep ==
  ASSUME TypeOK, [Next]_vars, NEW s \in Servers, ServerNext(s), RunJudged(s)
  PROVE  RunJudged(s)'
<1>1. ServerTypeOK
  BY DEF TypeOK
<1>2. ASSUME spc'[s] \in {"idle", "list", "fetch", "keys", "load"} PROVE RunJudged(s)'
  BY <1>2 DEF RunJudged
<1>3. ASSUME NEW status, Exit(s, status) PROVE RunJudged(s)'
  BY <1>1, <1>2, <1>3 DEF Exit, ServerTypeOK
<1>4. CASE \/ ServerStart(s) \/ ServerListPage(s) \/ ServerNextPage(s) \/ ServerReadDir(s)
           \/ \E k \in S3Keys : ServerFetch(s, k) \/ ServerFetchFails(s, k)
  BY <1>1, <1>2, <1>4
     DEF ServerStart, ServerListPage, ServerNextPage, ServerReadDir, ServerFetch,
         ServerFetchFails, Goto, ServerTypeOK
<1>5. ASSUME NEW p \in CertPaths, ServerReadKey(s, p) PROVE RunJudged(s)'
  <2>1. CASE Exit(s, "err")
    BY <1>3, <2>1
  <2>2. CASE ~Exit(s, "err")
    <3>1. spc'[s] = "load"
      BY <1>5, <2>2, Zenon DEF ServerReadKey
    <3> QED
      BY <1>2, <3>1
  <2> QED
    BY <2>1, <2>2
<1>6. ASSUME held' = held, work' = [work EXCEPT ![s] = HeldKeys(s)], Goto(s, "validate")
      PROVE  RunJudged(s)'
  <2>1. spc'[s] = "validate" /\ work'[s] = HeldKeys(s)
    BY <1>1, <1>6 DEF Goto, ServerTypeOK
  <2>2. HeldKeys(s)' = HeldKeys(s)
    BY <1>6 DEF HeldKeys
  <2> QED
    BY <2>1, <2>2 DEF RunJudged
<1>7. CASE ServerFetched(s) /\ ~Exit(s, "ok")
  <2>1. CASE skip[s]
    BY <1>6, <1>7, <2>1 DEF ServerFetched
  <2>2. CASE ~skip[s]
    BY <1>1, <1>2, <1>7, <2>2 DEF ServerFetched, Goto, ServerTypeOK
  <2> QED
    BY <2>1, <2>2
<1>8. CASE ServerKeysLoaded(s) /\ ~Exit(s, "ok")
  BY <1>6, <1>8 DEF ServerKeysLoaded
<1>9. ASSUME NEW k \in S3Keys, ServerValidate(s, k) PROVE RunJudged(s)'
  <2> DEFINE r == held[s][k]
  <2>1. /\ UNCHANGED <<spc, skip, held, certs, now>> /\ spc[s] = "validate"
        /\ work'[s] = work[s] \ {k}
    BY <1>1, <1>9 DEF ServerValidate, ServerTypeOK, cloudVars
  <2>2. HeldKeys(s)' = HeldKeys(s)
    BY <2>1 DEF HeldKeys
  <2>3. CASE check_valid_ddns_request(r, certs[s], skip[s], now)
    <3>1. /\ UNCHANGED errors
          /\ verified' = [verified EXCEPT ![s] = verified[s] \cup {k}]
      BY <1>9, <2>3, Zenon DEF ServerValidate
    <3>2. verified'[s] = verified[s] \cup {k}
      BY <1>1, <3>1 DEF ServerTypeOK
    <3>3. \A j : Refused(s, j)' <=> Refused(s, j)
      BY <2>1, <3>1 DEF Refused
    <3> QED
      BY <2>1, <2>2, <3>2, <3>3 DEF RunJudged
  <2>4. CASE ~check_valid_ddns_request(r, certs[s], skip[s], now)
    <3>1. /\ UNCHANGED verified
          /\ errors' = [errors EXCEPT ![s] = CheckFailed(errors[s], r.name)]
      BY <1>9, <2>4, Zenon DEF ServerValidate
    <3>2. errors'[s].failed_signature_checks
            = errors[s].failed_signature_checks \cup {r.name}
      BY <1>1, <3>1 DEF ServerTypeOK, ServerErrors, CheckFailed
    <3>3. \A j : Refused(s, j) \/ j = k => Refused(s, j)'
      BY <2>1, <2>4, <3>2 DEF Refused
    <3> QED
      BY <2>1, <2>2, <3>1, <3>3 DEF RunJudged
  <2> QED
    BY <2>3, <2>4
<1>10. CASE ServerBuildChanges(s) /\ ~Exit(s, "ok")
  <2>1. /\ spc[s] = "validate" /\ work[s] = {} /\ spc'[s] = "commit"
        /\ UNCHANGED <<held, certs, skip, verified, errors>>
    BY <1>1, <1>10 DEF ServerBuildChanges, Goto, ServerTypeOK
  <2> QED
    BY <2>1, JudgedStays
<1>11. CASE ServerCommit(s)
  <2>1. /\ spc[s] = "commit" /\ spc'[s] = "cleanup"
        /\ UNCHANGED <<held, certs, skip, verified, errors>>
    BY <1>1, <1>11 DEF ServerCommit, Goto, ServerTypeOK
  <2> QED
    BY <2>1, JudgedStays
<1>12. ASSUME NEW k \in S3Keys, ServerDelete(s, k) \/ ServerDeleteFails(s, k)
       PROVE  RunJudged(s)'
  <2>1. /\ spc[s] = "cleanup" /\ UNCHANGED <<spc, held, certs, skip, verified>>
        /\ errors' = errors \/ errors' = [errors EXCEPT ![s] = DeleteFailed(errors[s], k)]
    BY <1>12, Zenon DEF ServerDelete, ServerDeleteFails
  <2>2. errors[s].failed_signature_checks \subseteq errors'[s].failed_signature_checks
    <3>1. CASE errors' = errors
      BY <3>1
    <3>2. CASE errors' = [errors EXCEPT ![s] = DeleteFailed(errors[s], k)]
      BY <1>1, <3>2 DEF ServerTypeOK, ServerErrors, DeleteFailed
    <3> QED
      BY <2>1, <3>1, <3>2
  <2> QED
    BY <2>1, <2>2, JudgedStays
<1> QED
  BY <1>3, <1>4, <1>5, <1>7, <1>8, <1>9, <1>10, <1>11, <1>12
     DEF ServerNext, ServerStep, ServerFault, ServerCommitRefused, ServerCommitLost,
         ServerFinish, ServerCallFails, ServerKilled

(* A bad request never holds up the others: whatever other runs, clients   *)
(* and the administrator do meanwhile, a run that publishes leaves out only*)
(* requests it has reported and would refuse again.                        *)
THEOREM BadRequestsHoldNothingUp == Spec => []BadRequestsAreIsolated
<1>1. Init => JudgedInv
  BY DEF Init, ServerInit, JudgedInv, BadRequestsAreIsolated
<1>2. ASSUME TypeOK, JudgedInv, [Next]_vars PROVE JudgedInv'
  <2>1. \A t \in Servers : RunJudged(t)
    BY <1>2 DEF JudgedInv, BadRequestsAreIsolated, RunJudged
  <2>2. ASSUME NEW t \in Servers PROVE RunJudged(t)'
    <3>1. CASE ~Moves(t)
      BY <1>2, <2>1, <3>1, JudgedStays DEF Moves, RunState
    <3>2. CASE Moves(t)
      <4>1. PICK s \in Servers : ServerNext(s)
        BY <1>2, <3>2 DEF Next, ClientNext, Clock, MachineMoves, KeysRotate, vars,
                          serverVars, Moves, RunState
      <4>2. s = t
        BY <1>2, <3>2, <4>1, OthersStand
      <4> QED
        BY <1>2, <2>1, <4>1, <4>2, JudgedStep
    <3> QED
      BY <3>1, <3>2
  <2> QED
    BY <2>2 DEF JudgedInv, BadRequestsAreIsolated, RunJudged
<1>3. TypeOK /\ JudgedInv /\ [Next]_vars => JudgedInv'
  BY <1>2
<1>4. JudgedInv => BadRequestsAreIsolated
  BY DEF JudgedInv
<1> QED
  BY <1>1, <1>3, <1>4, TypeCorrect, PTL DEF Spec

-----------------------------------------------------------------------------
(* Revoked certificates *)

(* What a run accepts it has accepted before, or has just found valid.     *)
LEMMA AcceptedWereChecked ==
  ASSUME TypeOK, AcceptedWereFetched, NEW s \in Servers, ServerNext(s), NEW t \in Servers
  PROVE  \/ verified'[t] = {}
         \/ /\ skip'[t] = skip[t]
            /\ \A k \in verified'[t] :
                 /\ held'[t][k] = held[t][k]
                 /\ \/ k \in verified[t]
                    \/ /\ k \in S3Keys /\ held[t][k] \in Request
                       /\ check_valid_ddns_request(held[t][k], certs[t], skip[t], now)
<1>1. ServerTypeOK
  BY DEF TypeOK
<1>2. CASE ~Moves(t)
  BY <1>2 DEF Moves, RunState
<1>3. CASE Moves(t)
  <2>1. t = s
    BY <1>3, OthersStand
  <2>2. ASSUME NEW status, Exit(s, status) PROVE verified'[s] = {}
    BY <1>1, <2>2 DEF Exit, ServerTypeOK
  <2>3. CASE UNCHANGED verified /\ spc[s] \notin {"validate", "commit", "cleanup"}
    BY <2>1, <2>3 DEF AcceptedWereFetched
  <2>4. CASE UNCHANGED <<verified, held, skip>>
    BY <2>4
  <2>5. ASSUME NEW k \in S3Keys, ServerValidate(s, k)
        PROVE  /\ UNCHANGED <<held, skip>> /\ held[s][k] \in Request
               /\ \/ UNCHANGED verified
                  \/ /\ verified'[s] = verified[s] \cup {k}
                     /\ check_valid_ddns_request(held[s][k], certs[s], skip[s], now)
    <3>1. k \in HeldKeys(s) /\ UNCHANGED <<held, skip>>
      BY <2>5 DEF ServerValidate, AcceptedWereFetched
    <3>2. held[s][k] \in Request
      BY <1>1, <3>1 DEF HeldKeys, ServerTypeOK
    <3>3. \/ UNCHANGED verified
          \/ /\ verified' = [verified EXCEPT ![s] = verified[s] \cup {k}]
             /\ check_valid_ddns_request(held[s][k], certs[s], skip[s], now)
      BY <2>5, Zenon DEF ServerValidate
    <3>4. QED
      BY <1>1, <3>1, <3>2, <3>3 DEF ServerTypeOK
  <2>6. CASE \E k \in S3Keys : ServerValidate(s, k)
    BY <2>1, <2>5, <2>6
  <2>7. CASE ~\E k \in S3Keys : ServerValidate(s, k)
    <3>1. \/ verified'[s] = {}
          \/ UNCHANGED verified /\ spc[s] \notin {"validate", "commit", "cleanup"}
          \/ UNCHANGED <<verified, held, skip>>
      BY <1>1, <2>2, <2>7
         DEF ServerNext, ServerStep, ServerFault, ServerStart,
             ServerListPage, ServerFetch, ServerFetchFails, ServerNextPage,
             ServerFetched, ServerReadDir, ServerReadKey, ServerKeysLoaded,
             ServerBuildChanges, ServerCommit,
             ServerCommitRefused, ServerCommitLost, ServerDelete,
             ServerDeleteFails, ServerFinish, ServerCallFails, ServerKilled
    <3>2. QED
      BY <2>1, <2>3, <2>4, <3>1
  <2>8. QED
    BY <2>6, <2>7
<1>4. QED
  BY <1>2, <1>3

(* What a run knows of certificates it knew before, or reads now.          *)
LEMMA LookupMoves ==
  ASSUME TypeOK, NEW s \in Servers, ServerNext(s), NEW t \in Servers
  PROVE  \/ certs'[t] \in {certs[t], NoCerts}
         \/ \E p \in Installed :
              IsCertificate(keydir[p]) /\ certs'[t] = Learn(certs[t], keydir[p])
<1>1. ServerTypeOK
  BY DEF TypeOK
<1>2. CASE UNCHANGED certs
  BY <1>2
<1>3. ASSUME NEW status, Exit(s, status) PROVE certs'[t] \in {certs[t], NoCerts}
  BY <1>1, <1>3 DEF Exit, ServerTypeOK
<1>4. ASSUME NEW p \in CertPaths, ServerReadKey(s, p), ~Exit(s, "err"), ~UNCHANGED certs
      PROVE  /\ p \in Installed /\ IsCertificate(keydir[p])
             /\ certs' = [certs EXCEPT ![s] = Learn(certs[s], keydir[p])]
  BY <1>4, Zenon DEF ServerReadKey, CanRead
<1>5. ASSUME NEW p \in Installed, certs' = [certs EXCEPT ![s] = Learn(certs[s], keydir[p])]
      PROVE  certs'[t] \in {certs[t], Learn(certs[t], keydir[p])}
  BY <1>1, <1>5 DEF ServerTypeOK
<1>6. CASE \E p \in CertPaths : ServerReadKey(s, p)
  BY <1>2, <1>3, <1>4, <1>5, <1>6
<1>7. CASE ~\E p \in CertPaths : ServerReadKey(s, p)
  BY <1>2, <1>3, <1>7
     DEF ServerNext, ServerStep, ServerFault, ServerStart,
         ServerListPage, ServerFetch, ServerFetchFails, ServerNextPage,
         ServerFetched, ServerReadDir, ServerKeysLoaded,
         ServerValidate, ServerBuildChanges, ServerCommit,
         ServerCommitRefused, ServerCommitLost, ServerDelete,
         ServerDeleteFails, ServerFinish, ServerCallFails, ServerKilled
<1>8. QED
  BY <1>6, <1>7

(* A run forgets its certificates when it ends.                            *)
LEMMA IdleStep ==
  ASSUME TypeOK, IdleKnowsNothing, [Next]_vars
  PROVE  IdleKnowsNothing'
<1>1. ServerTypeOK
  BY DEF TypeOK
<1>2. ASSUME UNCHANGED serverVars PROVE IdleKnowsNothing'
  BY <1>2 DEF serverVars, IdleKnowsNothing
<1>3. ASSUME NEW s \in Servers, ServerNext(s) PROVE IdleKnowsNothing'
  <2>1. SUFFICES ASSUME NEW t \in Servers, spc'[t] = "idle" PROVE certs'[t] = NoCerts
    BY DEF IdleKnowsNothing
  <2>2. CASE ~Moves(t)
    BY <2>1, <2>2 DEF Moves, RunState, IdleKnowsNothing
  <2>3. CASE Moves(t)
    <3>1. t = s
      BY <1>3, <2>3, OthersStand
    <3>2. ASSUME NEW status, Exit(s, status) PROVE certs'[s] = NoCerts
      BY <1>1, <3>2 DEF Exit, ServerTypeOK
    <3>3. ASSUME NEW phase, phase # "idle" PROVE ~Goto(s, phase)
      BY <1>1, <2>1, <3>1, <3>3 DEF Goto, ServerTypeOK
    <3>4. ASSUME UNCHANGED spc, spc[s] # "idle" PROVE FALSE
      BY <2>1, <3>1, <3>4
    <3>5. QED
      BY <1>3, <3>1, <3>2, <3>3, <3>4
         DEF ServerNext, ServerStep, ServerFault, ServerStart,
             ServerListPage, ServerFetch, ServerFetchFails, ServerNextPage,
             ServerFetched, ServerReadDir, ServerReadKey, ServerKeysLoaded,
             ServerValidate, ServerBuildChanges, ServerCommit,
             ServerCommitRefused, ServerCommitLost, ServerDelete,
             ServerDeleteFails, ServerFinish, ServerCallFails, ServerKilled
  <2>4. QED
    BY <2>2, <2>3
<1>4. QED
  BY <1>2, <1>3 DEF Next, ClientNext, Clock, MachineMoves, KeysRotate, vars

(* With a directory that stays as it is, no lookup answers anything else.  *)
LEMMA CurrentStep ==
  ASSUME TypeOK, AcceptedWereFetched, CurrentInv, [Next]_vars
  PROVE  CurrentInv'
<1>1. ServerTypeOK
  BY DEF TypeOK
<1>2. ~KeysRotate
  BY DEF KeysRotate, Rotate, CurrentInv, TypeOK, DirTypeOK
<1>3. ASSUME UNCHANGED <<serverVars, dirVars>> PROVE CurrentInv'
  BY <1>3 DEF serverVars, dirVars, CurrentInv, LookupIsCurrent, AcceptedAreCertified,
              Certified, Installed
<1>4. ASSUME NEW s \in Servers, ServerNext(s) PROVE CurrentInv'
  <2>1. UNCHANGED <<rotations, keydir, Installed>>
    BY <1>4 DEF ServerNext, dirVars, Installed
  <2>2. ASSUME NEW t \in Servers, NEW n \in Names, certs'[t][n] # NoKey
        PROVE  \E p \in Installed : /\ IsCertificate(keydir[p])
                                    /\ keydir[p].cn = n /\ keydir[p].vk = certs'[t][n]
    <3>1. CASE certs'[t] = certs[t]
      BY <2>2, <3>1 DEF CurrentInv, LookupIsCurrent
    <3>2. CASE certs'[t] = NoCerts
      BY <2>2, <3>2 DEF NoCerts
    <3>3. CASE \E p \in Installed :
                 IsCertificate(keydir[p]) /\ certs'[t] = Learn(certs[t], keydir[p])
      <4>1. PICK p \in Installed :
              IsCertificate(keydir[p]) /\ certs'[t] = Learn(certs[t], keydir[p])
        BY <3>3
      <4>2. certs[t] \in [Names -> Keys \cup {NoKey}]
        BY <1>1 DEF ServerTypeOK
      <4>3. CASE certs'[t][n] = certs[t][n]
        BY <2>2, <4>3 DEF CurrentInv, LookupIsCurrent
      <4>4. CASE certs'[t][n] # certs[t][n]
        <5>1. n = keydir[p].cn /\ certs'[t][n] = keydir[p].vk
          BY <4>1, <4>2, <4>4 DEF Learn
        <5>2. QED
          BY <4>1, <5>1
      <4>5. QED
        BY <4>3, <4>4
    <3>4. QED
      BY <1>4, <3>1, <3>2, <3>3, LookupMoves
  <2>3. LookupIsCurrent'
    BY <2>1, <2>2 DEF LookupIsCurrent
  <2>4. ASSUME NEW t \in Servers, ~skip'[t], NEW k \in verified'[t]
        PROVE  Certified(held'[t][k])
    <3>1. /\ skip'[t] = skip[t] /\ held'[t][k] = held[t][k]
          /\ \/ k \in verified[t]
             \/ /\ k \in S3Keys /\ held[t][k] \in Request
                /\ check_valid_ddns_request(held[t][k], certs[t], skip[t], now)
      BY <1>4, <2>4, AcceptedWereChecked
    <3>2. CASE k \in verified[t]
      BY <2>4, <3>1, <3>2 DEF CurrentInv, AcceptedAreCertified
    <3>3. CASE /\ held[t][k] \in Request
               /\ check_valid_ddns_request(held[t][k], certs[t], skip[t], now)
      <4> DEFINE r == held[t][k]
      <4>1. r.name \in Names /\ certs[t][r.name] # NoKey /\ r.signer = certs[t][r.name]
        BY <2>4, <3>1, <3>3 DEF check_valid_ddns_request, verify_strict, Request
      <4>2. Certified(r)
        BY <4>1 DEF CurrentInv, LookupIsCurrent, Certified
      <4>3. QED
        BY <3>1, <4>2
    <3>4. QED
      BY <3>1, <3>2, <3>3
  <2>5. AcceptedAreCertified'
    BY <2>1, <2>4 DEF AcceptedAreCertified, Certified
  <2>6. QED
    BY <2>1, <2>3, <2>5 DEF CurrentInv
<1>5. QED
  BY <1>2, <1>3, <1>4
     DEF Next, ClientNext, Clock, MachineMoves, KeysRotate, vars

(* Revocation is complete as soon as the runs that were under way have     *)
(* ended: from then on no strict run accepts a request that no installed   *)
(* certificate stands for, whatever is left in the bucket.                 *)
THEOREM RevocationIsComplete == Spec => RevokedStayOut
<1>1. Init => IdleKnowsNothing
  BY DEF Init, ServerInit, IdleKnowsNothing
<1>2. TypeOK /\ IdleKnowsNothing /\ [Next]_vars => IdleKnowsNothing'
  BY IdleStep
<1>3. OwnershipInv => TypeOK /\ AcceptedWereFetched
  BY DEF OwnershipInv
<1>4. AcceptedWereFetched /\ IdleKnowsNothing /\ Settled => CurrentInv
  BY DEF AcceptedWereFetched, IdleKnowsNothing, Settled, CurrentInv, LookupIsCurrent,
         AcceptedAreCertified, NoCerts
<1>5. TypeOK /\ AcceptedWereFetched /\ CurrentInv /\ [Next]_vars => CurrentInv'
  BY CurrentStep
<1>6. CurrentInv => AcceptedAreCertified
  BY DEF CurrentInv
<1>7. QED
  BY <1>1, <1>2, <1>3, <1>4, <1>5, <1>6, OwnershipInvariant, PTL DEF Spec, RevokedStayOut

-----------------------------------------------------------------------------
(* Progress *)

AllKeys  == Cardinality(S3Keys)
AllPaths == Cardinality(CertPaths)
New(c)   == Cardinality(S3Keys \ c)

(* Numbers of keys, and of files. *)
LEMMA KeysAreCounted ==
  ASSUME NEW A \in SUBSET S3Keys
  PROVE  /\ Cardinality(A) \in Nat /\ AllKeys \in Nat /\ Cardinality(A) <= AllKeys
         /\ A = {} <=> Cardinality(A) = 0
         /\ IsFiniteSet(A)
         /\ \A B \in SUBSET A : Cardinality(B) \in Nat /\ Cardinality(B) <= Cardinality(A)
         /\ \A k \in A : Cardinality(A \ {k}) = Cardinality(A) - 1
<1>1. IsFiniteSet(A) /\ IsFiniteSet(S3Keys) /\ Cardinality(A) <= Cardinality(S3Keys)
  BY BucketIsFinite, FS_Subset
<1>2. /\ Cardinality(A) \in Nat /\ Cardinality(S3Keys) \in Nat
      /\ A = {} <=> Cardinality(A) = 0
  BY <1>1, FS_CardinalityType, FS_EmptySet
<1>3. \A B \in SUBSET A : Cardinality(B) \in Nat /\ Cardinality(B) <= Cardinality(A)
  BY <1>1, FS_Subset, FS_CardinalityType
<1>4. \A k \in A : Cardinality(A \ {k}) = Cardinality(A) - 1
  BY <1>1, FS_RemoveElement
<1> QED
  BY <1>1, <1>2, <1>3, <1>4 DEF AllKeys

LEMMA FilesAreCounted ==
  ASSUME NEW A \in SUBSET CertPaths
  PROVE  /\ Cardinality(A) \in Nat /\ AllPaths \in Nat /\ Cardinality(A) <= AllPaths
         /\ \A p \in A : Cardinality(A \ {p}) = Cardinality(A) - 1
<1>1. IsFiniteSet(A) /\ IsFiniteSet(CertPaths) /\ Cardinality(A) <= Cardinality(CertPaths)
  BY DirectoryIsFinite, FS_Subset
<1>2. Cardinality(A) \in Nat /\ Cardinality(CertPaths) \in Nat
  BY <1>1, FS_CardinalityType
<1>3. \A p \in A : Cardinality(A \ {p}) = Cardinality(A) - 1
  BY <1>1, FS_RemoveElement
<1> QED
  BY <1>1, <1>2, <1>3 DEF AllPaths

(* A page takes the keys of its range from those that are still new.       *)
LEMMA PageIsCounted ==
  ASSUME NEW c \in SUBSET S3Keys, NEW range \in SUBSET (S3Keys \ c)
  PROVE  /\ New(c) \in Nat /\ New(c \cup range) \in Nat /\ Cardinality(range) \in Nat
         /\ New(c \cup range) = New(c) - Cardinality(range)
<1>1. IsFiniteSet(S3Keys \ c) /\ IsFiniteSet(range)
  BY KeysAreCounted
<1>2. Cardinality((S3Keys \ c) \ range)
        = Cardinality(S3Keys \ c) - Cardinality((S3Keys \ c) \cap range)
  BY <1>1, FS_Difference
<1>3. (S3Keys \ c) \ range = S3Keys \ (c \cup range) /\ (S3Keys \ c) \cap range = range
  OBVIOUS
<1>4. /\ Cardinality(S3Keys \ c) \in Nat /\ Cardinality(range) \in Nat
      /\ Cardinality(S3Keys \ (c \cup range)) \in Nat
  BY KeysAreCounted
<1> QED
  BY <1>2, <1>3, <1>4 DEF New

(* The steps that are left, phase by phase.                                *)
PhaseSteps(s) ==
  LET todo == Cardinality(work[s])
      more == IF covered[s] = S3Keys THEN 0 ELSE 2
  IN  /\ spc[s] = "idle" => StepsLeft(s) = 0
      /\ spc[s] = "cleanup" => StepsLeft(s) = 1 + todo
      /\ spc[s] = "commit" => StepsLeft(s) = 2 + AllKeys
      /\ spc[s] = "validate" => StepsLeft(s) = 3 + AllKeys + todo
      /\ spc[s] = "load" => StepsLeft(s) = 4 + 2 * AllKeys + Cardinality(files[s])
      /\ spc[s] = "keys" => StepsLeft(s) = 5 + 2 * AllKeys + AllPaths
      /\ spc[s] = "fetch" =>
           StepsLeft(s) = 6 + 2 * AllKeys + AllPaths + 3 * New(covered[s]) + todo + more
      /\ spc[s] = "list" =>
           StepsLeft(s) = 7 + 2 * AllKeys + AllPaths + 3 * New(covered[s])

LEMMA StepsByPhase ==
  ASSUME NEW s \in Servers
  PROVE  PhaseSteps(s) /\ PhaseSteps(s)'
<1>1. PhaseSteps(s)
  BY DEF PhaseSteps, StepsLeft, AllKeys, AllPaths, New
<1>2. PhaseSteps(s)'
  BY DEF PhaseSteps, StepsLeft, AllKeys, AllPaths, New
<1> QED
  BY <1>1, <1>2

(* A run that has not ended has a step left, and no more than its bound.   *)
LEMMA StepsAreCounted ==
  ASSUME ServerTypeOK, NEW s \in Servers
  PROVE  /\ StepsLeft(s) \in Nat
         /\ spc[s] = "idle" <=> StepsLeft(s) = 0
         /\ StepsLeft(s) <= 6 * AllKeys + AllPaths + 8
<1>1. /\ spc[s] \in Phases
      /\ covered[s] \in SUBSET S3Keys /\ work[s] \in SUBSET S3Keys /\ files[s] \in SUBSET CertPaths
  BY DEF ServerTypeOK
<1>2. /\ AllKeys \in Nat /\ AllPaths \in Nat
      /\ Cardinality(work[s]) \in Nat /\ Cardinality(work[s]) <= AllKeys
      /\ Cardinality(files[s]) \in Nat /\ Cardinality(files[s]) <= AllPaths
  BY <1>1, KeysAreCounted, FilesAreCounted
<1>3. New(covered[s]) \in Nat /\ New(covered[s]) <= AllKeys
  <2>1. S3Keys \ covered[s] \in SUBSET S3Keys
    OBVIOUS
  <2> QED
    BY <2>1, KeysAreCounted DEF New
<1>4. PhaseSteps(s)
  BY StepsByPhase
<1> QED
  BY <1>1, <1>2, <1>3, <1>4 DEF PhaseSteps, Phases

(* Every step of a run that is under way leaves it fewer.                  *)
LEMMA StepAdvances ==
  ASSUME TypeOK, TypeOK', NEW s \in Servers, ServerNext(s), spc[s] # "idle"
  PROVE  StepsLeft(s)' < StepsLeft(s)
<1>1. ServerTypeOK /\ ServerTypeOK'
  BY DEF TypeOK
<1>2. /\ spc[s] \in Phases /\ spc'[s] \in Phases
      /\ covered[s] \in SUBSET S3Keys /\ covered'[s] \in SUBSET S3Keys
      /\ work[s] \in SUBSET S3Keys /\ work'[s] \in SUBSET S3Keys
      /\ files[s] \in SUBSET CertPaths /\ files'[s] \in SUBSET CertPaths
  BY <1>1 DEF ServerTypeOK
<1>3. PhaseSteps(s) /\ PhaseSteps(s)'
  BY StepsByPhase
<1>4. /\ AllKeys \in Nat /\ AllPaths \in Nat
      /\ Cardinality(work[s]) \in Nat /\ Cardinality(work[s]) <= AllKeys
      /\ Cardinality(work'[s]) \in Nat /\ Cardinality(work'[s]) <= AllKeys
      /\ Cardinality(files[s]) \in Nat /\ Cardinality(files[s]) <= AllPaths
      /\ Cardinality(files'[s]) \in Nat /\ Cardinality(files'[s]) <= AllPaths
      /\ New(covered[s]) \in Nat
      /\ work[s] = {} <=> Cardinality(work[s]) = 0
      /\ work'[s] = {} <=> Cardinality(work'[s]) = 0
      /\ \A k \in work[s] : Cardinality(work[s] \ {k}) = Cardinality(work[s]) - 1
      /\ \A p \in files[s] : Cardinality(files[s] \ {p}) = Cardinality(files[s]) - 1
  BY <1>2, KeysAreCounted, FilesAreCounted, PageIsCounted
<1>5. ASSUME NEW status, Exit(s, status) PROVE StepsLeft(s)' < StepsLeft(s)
  <2>1. spc'[s] = "idle"
    BY <1>1, <1>5 DEF Exit, ServerTypeOK
  <2>2. StepsLeft(s)' = 0
    BY <1>3, <2>1 DEF PhaseSteps
  <2>3. StepsLeft(s) \in Nat /\ StepsLeft(s) # 0
    BY <1>1, StepsAreCounted
  <2> QED
    BY <2>2, <2>3
<1>6. ASSUME NEW k \in S3Keys, k \in work[s], spc[s] \in {"fetch", "validate", "cleanup"},
             UNCHANGED <<spc, covered, files>>, work' = [work EXCEPT ![s] = work[s] \ {k}]
      PROVE  StepsLeft(s)' < StepsLeft(s)
  <2>1. Cardinality(work'[s]) = Cardinality(work[s]) - 1
    BY <1>1, <1>4, <1>6 DEF ServerTypeOK
  <2> QED
    BY <1>3, <1>4, <1>6, <2>1 DEF PhaseSteps
<1>7. ASSUME NEW k \in S3Keys,
             \/ ServerFetch(s, k) \/ ServerFetchFails(s, k) \/ ServerValidate(s, k)
             \/ ServerDelete(s, k) \/ ServerDeleteFails(s, k)
      PROVE  StepsLeft(s)' < StepsLeft(s)
  BY <1>6, <1>7 DEF ServerFetch, ServerFetchFails, ServerValidate, ServerDelete,
                    ServerDeleteFails
<1>8. CASE ServerListPage(s)
  <2>1. PICK range \in SUBSET (S3Keys \ covered[s]) :
          /\ IsPage(range, covered[s])
          /\ covered' = [covered EXCEPT ![s] = covered[s] \cup range]
          /\ work' = [work EXCEPT ![s] =
                        {k \in range \cap Present : k.ext = DDNS_JSON_FILE_EXT}]
    BY <1>8 DEF ServerListPage
  <2>2. spc[s] = "list" /\ spc'[s] = "fetch"
    BY <1>1, <1>8 DEF ServerListPage, Goto, ServerTypeOK
  <2>3. covered'[s] = covered[s] \cup range /\ work'[s] \subseteq range
    BY <1>1, <2>1 DEF ServerTypeOK
  <2>4. /\ Cardinality(range) \in Nat /\ Cardinality(work'[s]) <= Cardinality(range)
        /\ range = {} <=> Cardinality(range) = 0
    BY <2>3, KeysAreCounted
  <2>5. New(covered'[s]) \in Nat /\ New(covered'[s]) = New(covered[s]) - Cardinality(range)
    BY <1>2, <2>3, PageIsCounted
  <2>6. covered'[s] = S3Keys \/ range # {}
    BY <1>2, <2>1, <2>3 DEF IsPage
  <2> QED
    BY <1>3, <1>4, <2>2, <2>4, <2>5, <2>6 DEF PhaseSteps
<1>9. CASE ServerNextPage(s)
  <2>1. /\ spc[s] = "fetch" /\ spc'[s] = "list" /\ covered[s] # S3Keys
        /\ covered'[s] = covered[s]
    BY <1>1, <1>9 DEF ServerNextPage, Goto, ServerTypeOK
  <2> QED
    BY <1>3, <1>4, <2>1 DEF PhaseSteps
<1>10. CASE ServerFetched(s) /\ ~Exit(s, "ok")
  <2>1. spc[s] = "fetch" /\ (spc'[s] = "validate" \/ spc'[s] = "keys")
    BY <1>1, <1>10, Zenon DEF ServerFetched, Goto, ServerTypeOK
  <2> QED
    BY <1>3, <1>4, <2>1 DEF PhaseSteps
<1>11. CASE ServerReadDir(s)
  <2>1. spc[s] = "keys" /\ spc'[s] = "load"
    BY <1>1, <1>11 DEF ServerReadDir, Goto, ServerTypeOK
  <2> QED
    BY <1>3, <1>4, <2>1 DEF PhaseSteps
<1>12. ASSUME NEW p \in CertPaths, ServerReadKey(s, p), ~Exit(s, "err")
       PROVE  StepsLeft(s)' < StepsLeft(s)
  <2>1. /\ spc[s] = "load" /\ UNCHANGED spc /\ p \in files[s]
        /\ files' = [files EXCEPT ![s] = files[s] \ {p}]
    BY <1>12, Zenon DEF ServerReadKey
  <2>2. Cardinality(files'[s]) = Cardinality(files[s]) - 1
    BY <1>1, <1>4, <2>1 DEF ServerTypeOK
  <2> QED
    BY <1>3, <1>4, <2>1, <2>2 DEF PhaseSteps
<1>13. CASE ServerKeysLoaded(s) /\ ~Exit(s, "ok")
  <2>1. spc[s] = "load" /\ spc'[s] = "validate"
    BY <1>1, <1>13 DEF ServerKeysLoaded, Goto, ServerTypeOK
  <2> QED
    BY <1>3, <1>4, <2>1 DEF PhaseSteps
<1>14. CASE ServerBuildChanges(s) /\ ~Exit(s, "ok")
  <2>1. spc[s] = "validate" /\ spc'[s] = "commit"
    BY <1>1, <1>14 DEF ServerBuildChanges, Goto, ServerTypeOK
  <2> QED
    BY <1>3, <1>4, <2>1 DEF PhaseSteps
<1>15. CASE ServerCommit(s)
  <2>1. spc[s] = "commit" /\ spc'[s] = "cleanup"
    BY <1>1, <1>15 DEF ServerCommit, Goto, ServerTypeOK
  <2> QED
    BY <1>3, <1>4, <2>1 DEF PhaseSteps
<1> QED
  BY <1>5, <1>7, <1>8, <1>9, <1>10, <1>11, <1>12, <1>13, <1>14, <1>15
     DEF ServerNext, ServerStep, ServerFault, ServerStart, ServerCommitRefused,
         ServerCommitLost, ServerFinish, ServerCallFails, ServerKilled

(***************************************************************************)
(* A run that is under way ends within a number of steps of its own that   *)
(* depends only on how many keys and certificate files there can be:       *)
(* nothing that happens in the bucket, the zone or the directory meanwhile *)
(* gives it more to do.                                                    *)
(***************************************************************************)
THEOREM RunsAlwaysAdvance == Spec => RunsAdvance
<1>1. ASSUME TypeOK, TypeOK', [Next]_vars, NEW s \in Servers, spc[s] # "idle", Moves(s)
      PROVE  StepsLeft(s)' < StepsLeft(s)
  <2>1. PICK i \in Servers : ServerNext(i)
    BY <1>1 DEF Next, ClientNext, Clock, MachineMoves, KeysRotate, vars, serverVars,
                Moves, RunState
  <2>2. i = s
    BY <1>1, <2>1, OthersStand
  <2> QED
    BY <1>1, <2>1, <2>2, StepAdvances
<1>2. TypeOK /\ TypeOK' /\ [Next]_vars =>
        \A s \in Servers : spc[s] # "idle" /\ Moves(s) => StepsLeft(s)' < StepsLeft(s)
  BY <1>1
<1> QED
  BY <1>2, TypeCorrect, PTL DEF Spec, RunsAdvance

(* ... and that number is bounded.                                         *)
THEOREM RunsAreBounded ==
  Spec => [](\A s \in Servers :
               /\ StepsLeft(s) \in 0..(6 * Cardinality(S3Keys) + Cardinality(CertPaths) + 8)
               /\ spc[s] = "idle" <=> StepsLeft(s) = 0)
<1>1. TypeOK =>
        \A s \in Servers :
          /\ StepsLeft(s) \in 0..(6 * Cardinality(S3Keys) + Cardinality(CertPaths) + 8)
          /\ spc[s] = "idle" <=> StepsLeft(s) = 0
  <2> SUFFICES ASSUME TypeOK, NEW s \in Servers
               PROVE  /\ StepsLeft(s) \in 0..(6 * AllKeys + AllPaths + 8)
                      /\ spc[s] = "idle" <=> StepsLeft(s) = 0
    BY DEF AllKeys, AllPaths
  <2>1. AllKeys \in Nat /\ AllPaths \in Nat
    BY KeysAreCounted, FilesAreCounted
  <2> QED
    BY <2>1, StepsAreCounted DEF TypeOK
<1> QED
  BY <1>1, TypeCorrect, PTL

(* No listing is stuck: whatever the bucket holds by now, it has a next    *)
(* page behind what earlier pages of the run went through.                 *)
LEMMA PageExists ==
  ASSUME NEW before \in SUBSET S3Keys
  PROVE  \E range \in SUBSET (S3Keys \ before) : IsPage(range, before)
<1> DEFINE ahead == Present \ before
           all == S3Keys \ before
<1>1. Present \subseteq S3Keys
  BY DEF Present
<1>2. 1 <= PageSize /\ PageSize \in Nat
  BY CloudAssumption
<1>3. CASE ahead = {}
  <2>1. all \cap Present = {} /\ Present \ (before \cup all) = {}
    BY <1>1, <1>3
  <2>2. Cardinality(all \cap Present) <= PageSize
    BY <1>2, <2>1, FS_EmptySet
  <2> QED
    BY <2>1, <2>2 DEF IsPage
<1>4. CASE \E k \in ahead : ahead = {k}
  <2>1. PICK k \in ahead : ahead = {k}
    BY <1>4
  <2>2. all \cap Present = {k} /\ Present \ (before \cup all) = {}
    BY <1>1, <2>1
  <2>3. Cardinality(all \cap Present) <= PageSize
    BY <1>2, <2>2, FS_Singleton
  <2> QED
    BY <2>2, <2>3 DEF IsPage
<1>5. CASE ahead # {} /\ ~\E k \in ahead : ahead = {k}
  <2>1. PICK k \in ahead : ahead # {k}
    BY <1>5
  <2>2. {k} \cap Present = {k} /\ Present \ (before \cup {k}) # {}
    BY <2>1
  <2>3. Cardinality({k} \cap Present) <= PageSize
    BY <1>2, <2>2, FS_Singleton
  <2>4. IsPage({k}, before)
    BY <2>2, <2>3 DEF IsPage
  <2>5. {k} \in SUBSET all
    BY <1>1
  <2> QED
    BY <2>4, <2>5
<1> QED
  BY <1>3, <1>4, <1>5
=============================================================================
