---------------------------- MODULE MCDyndynser -----------------------------
(***************************************************************************)
(* Instances of Dyndynser for TLC: names, machines, certificate            *)
(* directories.  Each .cfg picks its own.                                  *)
(***************************************************************************)
EXTENDS Dyndynser

One    == [domain |-> "one", dot |-> FALSE]
OneDot == [domain |-> "one", dot |-> TRUE]
Two    == [domain |-> "two", dot |-> FALSE]

MCDomains == {"one", "two"}
OneName   == {One}
TwoNames  == {One, Two}
DotNames  == {One, OneDot}

(* A file that is not a request, next to the requests. *)
Notes == {[stem |-> One, ext |-> ".txt"]}

(* Any request key may be empty or hold a file of an earlier release.      *)
CleanOrOld == {b \in [S3Keys -> {NoObject, Malformed}] :
                 \A k \in ForeignKeys : b[k] = Malformed}

(* A request for the second name, signed under the first machine's key.    *)
Misfit == [name |-> Two, data |-> CHOOSE a \in Addrs : TRUE,
           signed_at |-> 0, signer |-> "k1"]

(* Nothing but that request and files that do not parse.                   *)
BadNeighbours == {[k \in S3Keys |-> IF k = make_filename(Two) THEN Misfit
                                    ELSE Malformed]}

(* The same under the first name, with a key not certified for it.         *)
Usurped == {[k \in S3Keys |-> IF k = make_filename(One)
                               THEN [Misfit EXCEPT !.name = One, !.signer = "k2"]
                               ELSE Malformed]}

(* Certificate files, and directories that hold one or two of them. *)
Cert(n, k) == [kind |-> "cert", cn |-> n, vk |-> k]
Garbled    == [kind |-> "garbled", cn |-> One, vk |-> "k1"]
Oversized  == [kind |-> "unreadable", cn |-> One, vk |-> "k1"]

Dir(f, g) == [p \in {"a.crt", "b.crt"} |-> IF p = "a.crt" THEN f ELSE g]

TwoCerts      == {Dir(Cert(One, "k1"), Cert(Two, "k2"))}
OneCert       == {Dir(Cert(One, "k1"), NoFile)}
CertAndJunk   == {Dir(Cert(One, "k1"), Garbled)}
OversizedToo  == {Dir(Cert(One, "k1"), Oversized)}
TwinDirs      == {Dir(Cert(One, "k1"), Cert(OneDot, "k2")),
                  Dir(Cert(OneDot, "k1"), Cert(OneDot, "k2"))}
RotatedDirs   == CertAndJunk \cup {Dir(Cert(One, "k2"), NoFile)}

OneClient     == {"c1"}
TwoClients    == {"c1", "c2"}
OneMachine    == {"m1"}
TwoMachines   == {"m1", "m2"}
OnOne         == [c \in OneClient |-> "m1"]
OnEach        == [c \in TwoClients |-> IF c = "c1" THEN "m1" ELSE "m2"]
BothOnOne     == [c \in TwoClients |-> "m1"]
NameOfOne     == [c \in OneClient |-> One]
KeyOfOne      == [c \in OneClient |-> "k1"]
NameOfEach    == [c \in TwoClients |-> IF c = "c1" THEN One ELSE Two]
KeyOfEach     == [c \in TwoClients |-> IF c = "c1" THEN "k1" ELSE "k2"]
NameOfDottedTwin == [c \in TwoClients |-> IF c = "c1" THEN One ELSE OneDot]
SameName      == [c \in TwoClients |-> One]
BothUseFirstKey == [c \in TwoClients |-> "k1"]
NoSkewOne     == [m \in OneMachine |-> 0]
NoSkewTwo     == [m \in TwoMachines |-> 0]
SecondIsSlow  == [m \in TwoMachines |-> IF m = "m1" THEN 0 ELSE -1]
=============================================================================
