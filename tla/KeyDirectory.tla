---------------------------- MODULE KeyDirectory ----------------------------
(***************************************************************************)
(* The server's --keys-search-path: *.crt files that the administrator     *)
(* installs, replaces and removes while the server's cron job runs.  The   *)
(* program only ever reads it (get_public_key_map, src/server.rs).         *)
(***************************************************************************)
EXTENDS Requests

CONSTANTS
  CertPaths,    \* file names with the extension .crt
  NoFile,       \* there is no such file
  KeyDirs,      \* the contents the directory may have
  MaxRotations  \* bound: how often the administrator changes it

VARIABLES
  keydir,       \* path -> the file there
  rotations     \* changes so far

dirVars == <<keydir, rotations>>

(* Every certificate file that is ever installed. *)
KnownKeys == {d[p] : d \in KeyDirs, p \in CertPaths} \ {NoFile}

ASSUME KeyDirectoryAssumption ==
  /\ NoFile \notin CertFile
  /\ KeyDirs \subseteq [CertPaths -> CertFile \cup {NoFile}]
  /\ MaxRotations \in Nat

ASSUME DirectoryIsFinite == IsFiniteSet(CertPaths)

DirTypeOK ==
  /\ keydir \in KeyDirs
  /\ rotations \in 0..MaxRotations

DirInit ==
  /\ keydir \in KeyDirs
  /\ rotations = 0

(* Certificates are rotated, revoked or added. *)
Rotate ==
  /\ rotations < MaxRotations
  /\ rotations' = rotations + 1
  /\ keydir' \in KeyDirs \ {keydir}

Installed == {p \in CertPaths : keydir[p] # NoFile}

(* read_file_limited returns the bytes of the file. *)
CanRead(p) == p \in Installed /\ Readable(keydir[p])

CertsFor(name) == {f \in KnownKeys : IsCertificate(f) /\ f.cn = name}

(* The request's signer owned its name at some time.                       *)
Owned(r) == \E f \in CertsFor(r.name) : f.vk = r.signer

(* A certificate in the directory gives the request's name to its signer.  *)
Certified(r) ==
  \E p \in Installed :
    IsCertificate(keydir[p]) /\ keydir[p].cn = r.name /\ keydir[p].vk = r.signer
=============================================================================
