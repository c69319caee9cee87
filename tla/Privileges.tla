----------------------------- MODULE Privileges -----------------------------
(***************************************************************************)
(* maybe_drop_privileges (src/unix.rs): a process that has read its keys   *)
(* as root gives its identity up for good, call by call, and any call may  *)
(* be refused.  The kernel's rules for the calls are external.             *)
(***************************************************************************)
EXTENDS Naturals

CONSTANTS
  UserNames,    \* names a user database may have, "nobody" among them
  Ids,          \* user and group ids; 0 is root
  NoUser,       \* the database has no such user
  LookupError,  \* the database cannot be asked
  Passwds       \* the user databases: name -> user, NoUser or LookupError

VARIABLES
  ident,   \* real, effective and saved user and group ids, other groups
  passwd,  \* the machine's user database
  dpc,     \* where the drop is
  user     \* the user to drop to, once it is known

privVars == <<ident, passwd, dpc, user>>

User == [uid : Ids, gid : Ids]

ASSUME PrivilegesAssumption ==
  /\ 0 \in Ids
  /\ "nobody" \in UserNames
  /\ NoUser \notin User /\ LookupError \notin User
  /\ Passwds \subseteq [UserNames -> User \cup {NoUser, LookupError}]

Identity ==
  [ruid : Ids, euid : Ids, suid : Ids, rgid : Ids, egid : Ids, sgid : Ids,
   groups : SUBSET Ids]

DropPhases ==
  {"before", "start", "groups", "gid", "uid", "verify", "escalate", "done", "failed"}

PrivTypeOK ==
  /\ ident \in Identity
  /\ passwd \in Passwds
  /\ dpc \in DropPhases
  /\ user \in User \cup {NoUser}

-----------------------------------------------------------------------------
(* The kernel *)

Uids(i) == {i.ruid, i.euid, i.suid}
Gids(i) == {i.rgid, i.egid, i.sgid}

MaySetUid(i, u) == i.euid = 0 \/ u \in Uids(i)
MaySetGid(i, g) == i.euid = 0 \/ g \in Gids(i)

(* setuid(0) succeeds: the process is root, or can become it again. *)
CanBeRoot(i) == 0 \in Uids(i)

(* An executable runs as its caller, or as root if it is setuid root. *)
Executed(i) ==
  /\ i.euid = i.suid /\ i.egid = i.sgid
  /\ i.euid \in {i.ruid, 0}

-----------------------------------------------------------------------------
(* The drop *)

DropGoto(phase) == dpc' = phase

(* Who to become: the configured user, or nobody if there is none. *)
Lookup(name) == IF passwd[name] = NoUser THEN passwd["nobody"] ELSE passwd[name]

(* A process that is not root skips the drop. *)
DropStart(name) ==
  /\ dpc = "start"
  /\ \/ /\ ident.euid # 0
        /\ DropGoto("done")
        /\ UNCHANGED user
     \/ /\ ident.euid = 0
        /\ Lookup(name) \in User
        /\ user' = Lookup(name)
        /\ DropGoto("groups")
     \/ /\ ident.euid = 0
        /\ Lookup(name) \notin User
        /\ DropGoto("failed")
        /\ UNCHANGED user
  /\ UNCHANGED <<ident, passwd>>

(* Mutants: the supplementary groups are kept; the user is changed first. *)
GroupsForgotten ==
  /\ dpc = "groups"
  /\ DropGoto("gid")
  /\ UNCHANGED <<ident, passwd, user>>

UserChangedFirst ==
  /\ dpc = "groups"
  /\ ident' = [ident EXCEPT !.groups = {}, !.ruid = user.uid, !.euid = user.uid,
                            !.suid = user.uid]
  /\ DropGoto("gid")
  /\ UNCHANGED <<passwd, user>>

setgroups ==
  /\ dpc = "groups"
  /\ ident' = [ident EXCEPT !.groups = {}]
  /\ DropGoto("gid")
  /\ UNCHANGED <<passwd, user>>

setresgid ==
  /\ dpc = "gid"
  /\ IF MaySetGid(ident, user.gid)
     THEN /\ ident' = [ident EXCEPT !.rgid = user.gid, !.egid = user.gid, !.sgid = user.gid]
          /\ DropGoto("uid")
     ELSE DropGoto("failed") /\ UNCHANGED ident
  /\ UNCHANGED <<passwd, user>>

setresuid ==
  /\ dpc = "uid"
  /\ IF MaySetUid(ident, user.uid)
     THEN /\ ident' = [ident EXCEPT !.ruid = user.uid, !.euid = user.uid, !.suid = user.uid]
          /\ DropGoto("verify")
     ELSE DropGoto("failed") /\ UNCHANGED ident
  /\ UNCHANGED <<passwd, user>>

(* The drop is verified ... *)
DropVerify ==
  /\ dpc = "verify"
  /\ IF ident.ruid = user.uid /\ ident.rgid = user.gid
     THEN DropGoto("escalate")
     ELSE DropGoto("failed")
  /\ UNCHANGED <<ident, passwd, user>>

(* ... and must not be reversible: setuid(0) has to fail. *)
DropEscalate ==
  /\ dpc = "escalate"
  /\ \/ /\ CanBeRoot(ident)
        /\ ident' = IF ident.euid = 0
                    THEN [ident EXCEPT !.ruid = 0, !.euid = 0, !.suid = 0]
                    ELSE [ident EXCEPT !.euid = 0]
        /\ DropGoto("failed")
     \/ /\ ~CanBeRoot(ident)
        /\ DropGoto("done")
        /\ UNCHANGED ident
  /\ UNCHANGED <<passwd, user>>

(* A call that is permitted fails all the same: a limit, a user namespace. *)
DropRefused ==
  /\ dpc \in {"groups", "gid", "uid"}
  /\ DropGoto("failed")
  /\ UNCHANGED <<ident, passwd, user>>

DropStep ==
  setgroups \/ setresgid \/ setresuid \/ DropVerify \/ DropEscalate
=============================================================================
