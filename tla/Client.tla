------------------------------- MODULE Client -------------------------------
(***************************************************************************)
(* `dyndynser client' (src/client.rs): a cron job that asks for the        *)
(* machine's address, signs a request for its configured name and stores   *)
(* it in the bucket.  Between the three the address, the clock and the     *)
(* bucket may change, and a process may still be at work when cron starts  *)
(* the next one.  An error return before the upload leaves no trace        *)
(* outside the process.                                                    *)
(***************************************************************************)
EXTENDS Cloud

CONSTANTS
  Machines,
  Clients,          \* client processes; several may run on one machine
  MachineOf,        \* where each runs
  ClientName,       \* --domain of each
  ClientKey,        \* the key under --key-path of each
  InsecureClients,  \* run with --insecure-skip-verify
  DryRunClients,    \* run with --dry-run
  Skew,             \* how far each machine's clock is ahead of the server's
  NoAddr, NoRequest,
  MaxMoves          \* bound: address changes over all machines

VARIABLES
  addr,     \* each machine's public address, what ip_addr_check_url answers
  moves,    \* address changes so far
  cpc,      \* where the client process is
  queried,  \* the address query_for_ip returned
  signed    \* the signed request, ready for upload

clientVars == <<addr, moves, cpc, queried, signed>>

ASSUME ClientAssumption ==
  /\ MachineOf \in [Clients -> Machines]
  /\ ClientName \in [Clients -> Names]
  /\ ClientKey \in [Clients -> SigningKeys]
  /\ InsecureClients \subseteq Clients
  /\ DryRunClients \subseteq Clients
  /\ Skew \in [Machines -> Int]
  /\ NoAddr \notin Addrs
  /\ NoRequest \notin Request
  /\ MaxMoves \in Nat

ClientTypeOK ==
  /\ addr \in [Machines -> Addrs]
  /\ moves \in 0..MaxMoves
  /\ cpc \in [Clients -> {"idle", "sign", "put"}]
  /\ queried \in [Clients -> Addrs \cup {NoAddr}]
  /\ signed \in [Clients -> Request \cup {NoRequest}]
  /\ \A c \in Clients : /\ cpc[c] = "sign" => queried[c] \in Addrs
                        /\ cpc[c] = "put" => signed[c] \in Request

ClientInit ==
  /\ addr \in [Machines -> Addrs]
  /\ moves = 0
  /\ cpc = [c \in Clients |-> "idle"]
  /\ queried = [c \in Clients |-> NoAddr]
  /\ signed = [c \in Clients |-> NoRequest]

(* The network gives the machine another address. *)
Move(m) ==
  /\ moves < MaxMoves
  /\ moves' = moves + 1
  /\ \E a \in Addrs \ {addr[m]} : addr' = [addr EXCEPT ![m] = a]
  /\ UNCHANGED <<cpc, queried, signed, cloudVars>>

-----------------------------------------------------------------------------

signing_key(c) == IF c \in InsecureClients THEN DummyKey ELSE ClientKey[c]

(* Utc::now() on the client's machine. *)
machine_time(c) == now + Skew[MachineOf[c]]

(* The cron job starts, loads its key and asks for the machine's address. *)
ClientQueryIp(c) ==
  /\ cpc[c] = "idle"
  /\ cpc' = [cpc EXCEPT ![c] = "sign"]
  /\ queried' = [queried EXCEPT ![c] = addr[MachineOf[c]]]
  /\ UNCHANGED <<addr, moves, signed, cloudVars>>

(* The request is stamped with the machine's clock and signed. *)
ClientSign(c) ==
  /\ cpc[c] = "sign"
  /\ cpc' = [cpc EXCEPT ![c] = "put"]
  /\ signed' = [signed EXCEPT ![c] =
                  sign(ClientName[c], queried[c], machine_time(c), signing_key(c))]
  /\ queried' = [queried EXCEPT ![c] = NoAddr]
  /\ UNCHANGED <<addr, moves, cloudVars>>

ClientExit(c) ==
  /\ cpc' = [cpc EXCEPT ![c] = "idle"]
  /\ queried' = [queried EXCEPT ![c] = NoAddr]
  /\ signed' = [signed EXCEPT ![c] = NoRequest]
  /\ UNCHANGED <<addr, moves>>

(* The upload takes effect, whether or not its response arrives. *)
ClientPut(c) ==
  /\ cpc[c] = "put"
  /\ c \notin DryRunClients
  /\ PutObject(make_filename(signed[c].name), signed[c])
  /\ ClientExit(c)
  /\ UNCHANGED <<dns, now, faults>>

(* A dry run prints the request and ends. *)
ClientDryRun(c) ==
  /\ cpc[c] = "put"
  /\ c \in DryRunClients
  /\ ClientExit(c)
  /\ UNCHANGED cloudVars

(* The process dies, or one of its calls fails without taking effect. *)
ClientAbort(c) ==
  /\ cpc[c] # "idle"
  /\ Fault
  /\ ClientExit(c)
  /\ UNCHANGED <<bucket, dns, now>>

ClientStep(c) ==
  ClientQueryIp(c) \/ ClientSign(c) \/ ClientPut(c) \/ ClientDryRun(c)
=============================================================================
