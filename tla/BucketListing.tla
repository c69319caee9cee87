---------------------------- MODULE BucketListing ---------------------------
(***************************************************************************)
(* Where a client stores its request and where a server run looks for it.  *)
(* Client and server are each given a --bucket-ddns-dir; the client makes  *)
(* its object key from it (src/client.rs), the server lists the bucket     *)
(* with it as prefix and "/" as delimiter (fetch_ddns_jsons_from_s3 in     *)
(* src/server.rs), page by page while clients upload and other runs        *)
(* delete, and deletes by the keys it was shown.                           *)
(*                                                                         *)
(* A path is a sequence of tokens: "/", names of directories and files,    *)
(* the extension of requests.  S3 and rust-s3 are not part of the          *)
(* repository: rust-s3 removes a leading slash from the path of an object  *)
(* (README.md shows it: directory /ddns/domains, key ddns/domains/...) and *)
(* passes a prefix on as it is; S3 lists in the order of keys and rolls up *)
(* what has the delimiter behind the prefix, and rolled-up entries count   *)
(* for the size of a page.                                                 *)
(***************************************************************************)
EXTENDS Naturals, FiniteSets, SequencesExt

CONSTANTS
  TokenOrder,   \* all tokens, in the order of their bytes
  Dirs,         \* the values of --bucket-ddns-dir, for clients and servers
  Stems,        \* domains that clients ask for
  OtherFiles,   \* objects of the bucket that are not pending requests
  PageSize,     \* entries per page of a listing
  NoToken       \* no continuation token

VARIABLES
  objects,      \* keys that are stored in the bucket
  client_dir, server_dir,
  pc,           \* where the server run is
  token,        \* continuation_token
  page,         \* keys in the contents of the page, still to be looked at
  fetched,      \* keys of unverified_requests
  missing,      \* keys of failed_s3_fetches
  doomed,       \* keys the cleanup has still to delete
  steady        \* history: keys stored ever since the run began

vars == <<objects, client_dir, server_dir, pc, token, page, fetched, missing,
          doomed, steady>>

DDNS_JSON_FILE_EXT == ".ddns.json"
Slash == "/"

Tokens == ToSet(TokenOrder)

(***************************************************************************)
(* trimmed_string refuses an empty directory.  The root "/" is left out:   *)
(* its keys would begin with a slash, and rust-s3 cannot address those.    *)
(***************************************************************************)
ASSUME BucketListingAssumption ==
  /\ TokenOrder \in Seq(Tokens)
  /\ {Slash, DDNS_JSON_FILE_EXT} \subseteq Tokens
  /\ Stems \subseteq Tokens \ {Slash, DDNS_JSON_FILE_EXT}
  /\ \A d \in Dirs : d \in Seq(Tokens) /\ d # <<>> /\ d # <<Slash>>
                     /\ ~IsPrefix(<<Slash, Slash>>, d)
  /\ \A k \in OtherFiles : k \in Seq(Tokens) /\ k # <<>> /\ k[1] # Slash
  /\ PageSize \in Nat \ {0}
  /\ NoToken \notin Seq(Tokens)

-----------------------------------------------------------------------------
(* Paths *)

(* The object a path names: one leading slash is removed. *)
ObjectPath(path) == IF IsPrefix(<<Slash>>, path) THEN Tail(path) ELSE path

make_filename(stem) == <<stem, DDNS_JSON_FILE_EXT>>

(* format!("{}/{}", s3_ddns_json_directory, make_filename()) *)
ddns_json_path(dir, stem) == dir \o <<Slash>> \o make_filename(stem)

RequestKey(stem) == ObjectPath(ddns_json_path(client_dir, stem))

IsRequestFile(k) == k # <<>> /\ Last(k) = DDNS_JSON_FILE_EXT

-----------------------------------------------------------------------------
(* ListObjectsV2 *)

Rank(t) == CHOOSE i \in DOMAIN TokenOrder : TokenOrder[i] = t

(* The order of keys: by the first difference, the shorter one first. *)
Agree(k1, k2, n) == \A i \in 1..n : k1[i] = k2[i]

Before(k1, k2) ==
  \/ Len(k1) < Len(k2) /\ Agree(k1, k2, Len(k1))
  \/ \E i \in DOMAIN k1 \cap DOMAIN k2 :
       Agree(k1, k2, i - 1) /\ Rank(k1[i]) < Rank(k2[i])

Slashes(prefix, k) == {i \in (Len(prefix) + 1)..Len(k) : k[i] = Slash}

(* Mutant: the delimiter is not passed. *)
EntryOfEveryKey(prefix, k) == [key |-> k, rolled |-> FALSE]

(* The entry that stands for a key: itself, or its path up to the delimiter. *)
Entry(prefix, k) ==
  IF Slashes(prefix, k) = {} THEN [key |-> k, rolled |-> FALSE]
  ELSE [key |-> SubSeq(k, 1, Min(Slashes(prefix, k))), rolled |-> TRUE]

(* What is left of the listing behind a continuation token. *)
EntriesAfter(prefix, tok) ==
  {e \in {Entry(prefix, k) : k \in {j \in objects : IsPrefix(prefix, j)}} :
     tok = NoToken \/ Before(tok, e.key)}

(* The first PageSize entries, or all there are. *)
IsPage(first, entries) ==
  /\ \A e \in first, d \in entries \ first : Before(e.key, d.key)
  /\ Cardinality(first) <= PageSize
  /\ first = entries \/ Cardinality(first) = PageSize

(* The key a listing goes on behind, if this page is not its last. *)
NextTokens(first, entries) ==
  IF first = entries THEN {NoToken}
  ELSE {k \in {e.key : e \in first} : \A e \in first : e.key = k \/ Before(e.key, k)}

-----------------------------------------------------------------------------

Init ==
  /\ objects = OtherFiles
  /\ client_dir \in Dirs
  /\ server_dir \in Dirs
  /\ pc = "idle"
  /\ token = NoToken
  /\ page = {}
  /\ fetched = <<>>
  /\ missing = {}
  /\ doomed = {}
  /\ steady = {}

(* A client stores the request for a domain. *)
Upload(stem) ==
  /\ objects' = objects \cup {RequestKey(stem)}
  /\ UNCHANGED <<client_dir, server_dir, pc, token, page, fetched, missing>>
  /\ UNCHANGED <<doomed, steady>>

(* Another run of the server deletes a request it has used. *)
UsedByOther(stem) ==
  /\ RequestKey(stem) \in objects
  /\ objects' = objects \ {RequestKey(stem)}
  /\ steady' = steady \ {RequestKey(stem)}
  /\ UNCHANGED <<client_dir, server_dir, pc, token, page, fetched, missing, doomed>>

Start ==
  /\ pc = "idle"
  /\ pc' = "list"
  /\ steady' = objects
  /\ UNCHANGED <<objects, client_dir, server_dir, token, page, fetched, missing, doomed>>

(* Mutant: rolled-up entries are taken for keys. *)
RolledUpKept ==
  /\ pc = "list"
  /\ pc' = "fetch"
  /\ LET entries == EntriesAfter(server_dir, token)
     IN  \E first \in SUBSET entries :
           /\ IsPage(first, entries)
           /\ page' = {e.key : e \in first}
           /\ token' \in NextTokens(first, entries)
  /\ UNCHANGED <<objects, client_dir, server_dir, fetched, missing, doomed, steady>>

(* One turn of the loop over pages; the token for the next is kept. *)
ListPage ==
  /\ pc = "list"
  /\ pc' = "fetch"
  /\ LET entries == EntriesAfter(server_dir, token)
     IN  \E first \in SUBSET entries :
           /\ IsPage(first, entries)
           /\ page' = {e.key : e \in {d \in first : ~d.rolled}}
           /\ token' \in NextTokens(first, entries)
  /\ UNCHANGED <<objects, client_dir, server_dir, fetched, missing, doomed, steady>>

(* Other files are skipped; a request is fetched by the key that was listed. *)
Fetch(k) ==
  /\ pc = "fetch"
  /\ k \in page /\ \A j \in page : ~Before(j, k)
  /\ page' = page \ {k}
  /\ IF ~IsRequestFile(k) THEN UNCHANGED <<fetched, missing>>
     ELSE IF ObjectPath(k) \in objects
          THEN fetched' = Append(fetched, k) /\ UNCHANGED missing
          ELSE missing' = missing \cup {k} /\ UNCHANGED fetched
  /\ UNCHANGED <<objects, client_dir, server_dir, pc, token, doomed, steady>>

(* Mutants: a page without a key is the last; the token is not passed on. *)
EmptyPageIsLast ==
  /\ pc = "fetch"
  /\ page = {}
  /\ pc' = IF token = NoToken \/ (fetched = <<>> /\ missing = {})
           THEN "done" ELSE "list"
  /\ UNCHANGED <<objects, client_dir, server_dir, token, page, fetched, missing>>
  /\ UNCHANGED <<doomed, steady>>

TokenNotPassed ==
  /\ pc = "fetch"
  /\ page = {}
  /\ pc' = IF token = NoToken THEN "done" ELSE "list"
  /\ token' = NoToken
  /\ UNCHANGED <<objects, client_dir, server_dir, page, fetched, missing>>
  /\ UNCHANGED <<doomed, steady>>

NextPage ==
  /\ pc = "fetch"
  /\ page = {}
  /\ pc' = IF token = NoToken THEN "done" ELSE "list"
  /\ UNCHANGED <<objects, client_dir, server_dir, token, page, fetched, missing>>
  /\ UNCHANGED <<doomed, steady>>

(* The run forgets everything. *)
Exit ==
  /\ pc' = "idle"
  /\ fetched' = <<>>
  /\ missing' = {}
  /\ doomed' = {}
  /\ steady' = {}
  /\ UNCHANGED <<client_dir, server_dir, token, page>>

(***************************************************************************)
(* Some of the requests are verified (Server models which): without one    *)
(* the run ends; otherwise it goes on to delete those, any that did not    *)
(* parse, and the keys that could not be fetched.                          *)
(***************************************************************************)
Judge ==
  /\ pc = "done"
  /\ \E used \in SUBSET ToSet(fetched) :
       \/ /\ used = {}
          /\ Exit
       \/ /\ used # {}
          /\ pc' = "cleanup"
          /\ doomed' = used \cup missing
          /\ UNCHANGED <<client_dir, server_dir, token, page, fetched, missing, steady>>
  /\ UNCHANGED objects

(* delete_object, by the key that was listed *)
Delete(k) ==
  /\ pc = "cleanup"
  /\ k \in doomed
  /\ doomed' = doomed \ {k}
  /\ objects' = objects \ {ObjectPath(k)}
  /\ steady' = steady \ {ObjectPath(k)}
  /\ UNCHANGED <<client_dir, server_dir, pc, token, page, fetched, missing>>

Finish ==
  /\ pc = "cleanup"
  /\ doomed = {}
  /\ Exit
  /\ UNCHANGED objects

Next ==
  \/ \E stem \in Stems : Upload(stem) \/ UsedByOther(stem)
  \/ Start
  \/ ListPage
  \/ \E k \in page : Fetch(k)
  \/ NextPage
  \/ Judge
  \/ \E k \in doomed : Delete(k)
  \/ Finish

Spec == Init /\ [][Next]_vars

-----------------------------------------------------------------------------
(* Properties *)

(* The key lies in the directory itself: nothing of it behind the prefix   *)
(* leads into a subdirectory.                                              *)
DirectlyIn(dir, k) ==
  IsPrefix(dir, k) /\ \A i \in (Len(dir) + 1)..Len(k) : k[i] # Slash

(* Types: whatever the run handles is a key somebody stored, never a       *)
(* rolled-up entry of list_page, and a token lies under its prefix.        *)
TypeOK ==
  /\ client_dir \in Dirs /\ server_dir \in Dirs
  /\ pc \in {"idle", "list", "fetch", "done", "cleanup"}
  /\ token # NoToken => token \in Seq(Tokens) /\ IsPrefix(server_dir, token)
  /\ objects \cup page \cup ToSet(fetched) \cup missing \cup doomed
       \subseteq OtherFiles \cup {RequestKey(stem) : stem \in Stems}
  /\ steady \subseteq objects

(* The cleanup of a run only ever removes request files that lie directly  *)
(* in the run's own directory: requests kept in subdirectories, say an     *)
(* archive, and files of other programs survive every sequence of runs     *)
(* (the delimiter of list_page, the extension check, cleanup).             *)
StaysInItsDirectory ==
  [][\A k \in objects \ objects' : doomed' # doomed =>
        DirectlyIn(server_dir, k) /\ IsRequestFile(k)]_vars

(* No request is fetched twice by one run, however pages and changes of    *)
(* the bucket interleave: a second copy would be a second change for the   *)
(* same record set in one batch, which Route 53 refuses as a whole         *)
(* (continuation_token in fetch_ddns_jsons_from_s3).                       *)
NothingFetchedTwice ==
  Cardinality(ToSet(fetched) \cup missing) = Len(fetched) + Cardinality(missing)

(* The server's directory is the client's one with the slash that          *)
(* ddns_json_path puts behind it, and without a leading one.               *)
Matched == server_dir = ObjectPath(client_dir \o <<Slash>>)

AllFetched ==
  pc = "done" =>
    \A stem \in Stems : RequestKey(stem) \in steady => RequestKey(stem) \in ToSet(fetched)

(* With matching directories, a request that is in the bucket when a run   *)
(* starts and stays there is fetched by that run, also when whole pages    *)
(* hold nothing but rolled-up subdirectories (fetch_ddns_jsons_from_s3).   *)
MatchedRequestsAreFetched == Matched => AllFetched

(* cli/mod.rs gives --bucket-ddns-dir the same help and the same default   *)
(* in both commands, "S3 key prefix (directory) for pending DDNS update    *)
(* JSON files": what a client stores under a directory is fetched by the   *)
(* server that is given the same directory.                                *)
SharedDirectoryIsServed == client_dir = server_dir => AllFetched
=============================================================================
