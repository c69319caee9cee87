---------------------------- MODULE ListingProofs ----------------------------
(***************************************************************************)
(* The listing of a directory, page by page while the bucket changes, for  *)
(* every bucket, every spelling of the directories and every page size.    *)
(***************************************************************************)
EXTENDS BucketListing, FiniteSetTheorems, SequenceTheorems, WellFoundedInduction, TLAPS

-----------------------------------------------------------------------------
(* The order of keys *)

(* Every token has its place among the tokens.                             *)
LEMMA RankIsANumber ==
  ASSUME NEW t \in Tokens
  PROVE  Rank(t) \in Nat
<1>1. TokenOrder \in Seq(Tokens)
  BY BucketListingAssumption
<1>2. DOMAIN TokenOrder \subseteq Nat
  BY <1>1
<1>3. \E i \in DOMAIN TokenOrder : TokenOrder[i] = t
  BY DEF Tokens, ToSet
<1> QED
  BY <1>2, <1>3 DEF Rank

(* No key is listed before itself.                                         *)
LEMMA NotBeforeItself ==
  ASSUME NEW k \in Seq(Tokens)
  PROVE  ~Before(k, k)
<1>1. \A i \in DOMAIN k : Rank(k[i]) \in Nat
  BY RankIsANumber
<1>2. Len(k) \in Nat
  OBVIOUS
<1> QED
  BY <1>1, <1>2 DEF Before

(* What is before a key is before everything behind that key.              *)
LEMMA BeforeIsTransitive ==
  ASSUME NEW a \in Seq(Tokens), NEW b \in Seq(Tokens), NEW c \in Seq(Tokens),
         Before(a, b), Before(b, c)
  PROVE  Before(a, c)
<1> USE DEF Agree
<1>1. /\ \A i \in 1..Len(a) : Rank(a[i]) \in Nat
      /\ \A i \in 1..Len(b) : Rank(b[i]) \in Nat
      /\ \A i \in 1..Len(c) : Rank(c[i]) \in Nat
  BY RankIsANumber
<1>2. /\ Len(a) \in Nat /\ Len(b) \in Nat /\ Len(c) \in Nat
      /\ DOMAIN a = 1..Len(a) /\ DOMAIN b = 1..Len(b) /\ DOMAIN c = 1..Len(c)
  OBVIOUS
<1>3. CASE Len(a) < Len(b) /\ Agree(a, b, Len(a))
  <2>1. CASE Len(b) < Len(c) /\ Agree(b, c, Len(b))
    BY <1>2, <1>3, <2>1 DEF Before
  <2>2. ASSUME NEW i \in 1..Len(b), i \in 1..Len(c), Agree(b, c, i - 1),
               Rank(b[i]) < Rank(c[i])
        PROVE  Before(a, c)
    <3>1. CASE i <= Len(a)
      <4>1. i \in DOMAIN a \cap DOMAIN c /\ a[i] = b[i]
        BY <1>2, <1>3, <2>2, <3>1
      <4>2. Agree(a, c, i - 1)
        BY <1>2, <1>3, <2>2, <3>1
      <4> QED
        BY <2>2, <4>1, <4>2 DEF Before
    <3>2. CASE Len(a) < i
      BY <1>2, <1>3, <2>2, <3>2 DEF Before
    <3> QED
      BY <1>2, <3>1, <3>2
  <2> QED
    BY <1>2, <2>1, <2>2 DEF Before
<1>4. ASSUME NEW i \in 1..Len(a), i \in 1..Len(b), Agree(a, b, i - 1),
             Rank(a[i]) < Rank(b[i])
      PROVE  Before(a, c)
  <2>1. CASE Len(b) < Len(c) /\ Agree(b, c, Len(b))
    BY <1>2, <1>4, <2>1 DEF Before
  <2>2. ASSUME NEW j \in 1..Len(b), j \in 1..Len(c), Agree(b, c, j - 1),
               Rank(b[j]) < Rank(c[j])
        PROVE  Before(a, c)
    <3>1. CASE i < j
      BY <1>2, <1>4, <2>2, <3>1 DEF Before
    <3>2. CASE i = j
      <4>1. Rank(a[i]) < Rank(c[i])
        BY <1>1, <1>4, <2>2, <3>2
      <4> QED
        BY <1>2, <1>4, <2>2, <3>2, <4>1 DEF Before
    <3>3. CASE j < i
      BY <1>2, <1>4, <2>2, <3>3 DEF Before
    <3> QED
      BY <1>2, <3>1, <3>2, <3>3
  <2> QED
    BY <1>2, <2>1, <2>2 DEF Before
<1> QED
  BY <1>2, <1>3, <1>4 DEF Before

-----------------------------------------------------------------------------
(* Keys and prefixes *)

(* A prefix agrees with the key as far as it goes.                         *)
LEMMA PrefixAgrees ==
  ASSUME NEW s \in Seq(Tokens), NEW t \in Seq(Tokens)
  PROVE  IsPrefix(s, t) <=> Len(s) <= Len(t) /\ \A i \in 1..Len(s) : s[i] = t[i]
<1>1. SubSeq(s, 1, Len(s)) = s
  OBVIOUS
<1>2. ASSUME Len(s) <= Len(t)
      PROVE  /\ SubSeq(t, 1, Len(s)) \in Seq(Tokens)
             /\ Len(SubSeq(t, 1, Len(s))) = Len(s)
             /\ \A i \in 1..Len(s) : SubSeq(t, 1, Len(s))[i] = t[i]
  BY <1>2
<1>3. ASSUME Len(s) <= Len(t), \A i \in 1..Len(s) : s[i] = t[i]
      PROVE  SubSeq(t, 1, Len(s)) = s
  BY <1>2, <1>3
<1> QED
  BY <1>1, <1>2, <1>3 DEF IsPrefix

(* The keys that rust-s3 can address.                                      *)
Keys == {k \in Seq(Tokens) : k # <<>> /\ k[1] # Slash}

(* The path of such an object is its key.                                  *)
LEMMA PathOfKey ==
  ASSUME NEW k \in Keys
  PROVE  ObjectPath(k) = k
<1>1. Slash \in Tokens
  BY BucketListingAssumption
<1>2. <<Slash>> \in Seq(Tokens) /\ Len(<<Slash>>) = 1 /\ <<Slash>>[1] = Slash
  BY <1>1
<1>3. k \in Seq(Tokens) /\ k[1] # Slash
  BY DEF Keys
<1>4. ~(\A i \in 1..1 : <<Slash>>[i] = k[i])
  BY <1>2, <1>3
<1>5. ~IsPrefix(<<Slash>>, k)
  BY <1>2, <1>3, <1>4, PrefixAgrees
<1> QED
  BY <1>5 DEF ObjectPath

(* rust-s3 removes one leading slash.                                      *)
LEMMA PathWithoutSlash ==
  ASSUME NEW p \in Seq(Tokens), p # <<>>
  PROVE  ObjectPath(p) = IF p[1] = Slash THEN Tail(p) ELSE p
<1>1. Slash \in Tokens
  BY BucketListingAssumption
<1>2. <<Slash>> \in Seq(Tokens) /\ Len(<<Slash>>) = 1 /\ <<Slash>>[1] = Slash
  BY <1>1
<1>3. Len(p) \in Nat /\ 1 <= Len(p)
  OBVIOUS
<1>4. (\A i \in 1..1 : <<Slash>>[i] = p[i]) <=> p[1] = Slash
  BY <1>2
<1>5. IsPrefix(<<Slash>>, p) <=> p[1] = Slash
  BY <1>2, <1>3, <1>4, PrefixAgrees
<1> QED
  BY <1>5 DEF ObjectPath

(* What a directory is.                                                    *)
LEMMA DirFacts ==
  ASSUME NEW d \in Dirs
  PROVE  /\ d \in Seq(Tokens) /\ Len(d) \in Nat \ {0}
         /\ d[1] = Slash => Len(d) \notin {0, 1} /\ d[2] # Slash
<1>1. /\ d \in Seq(Tokens) /\ d # <<>> /\ d # <<Slash>> /\ ~IsPrefix(<<Slash, Slash>>, d)
      /\ Slash \in Tokens
  BY BucketListingAssumption
<1>2. Len(d) \in Nat \ {0}
  BY <1>1
<1>3. ASSUME d[1] = Slash PROVE Len(d) \notin {0, 1}
  <2>1. Len(d) # 1
    <3>1. SUFFICES ASSUME Len(d) = 1 PROVE d = <<Slash>>
      BY <1>1
    <3> QED
      BY <1>1, <1>3, <3>1
  <2> QED
    BY <1>1, <1>2, <2>1
<1>4. ASSUME d[1] = Slash PROVE d[2] # Slash
  <2>1. SUFFICES ASSUME d[2] = Slash PROVE IsPrefix(<<Slash, Slash>>, d)
    BY <1>1
  <2> DEFINE two == <<Slash, Slash>>
  <2>2. two \in Seq(Tokens) /\ Len(two) = 2 /\ two[1] = Slash /\ two[2] = Slash
    BY <1>1
  <2>3. 2 <= Len(d)
    BY <1>1, <1>2, <1>3, <1>4
  <2> HIDE DEF two
  <2>4. \A i \in 1..2 : two[i] = d[i]
    BY <1>4, <2>1, <2>2
  <2>5. IsPrefix(two, d)
    BY <1>1, <2>2, <2>3, <2>4, PrefixAgrees
  <2> QED
    BY <2>5 DEF two
<1> QED
  BY <1>1, <1>2, <1>3, <1>4

(* The client's path: the directory, a slash, the name and the extension.  *)
LEMMA PathFacts ==
  ASSUME NEW d \in Dirs, NEW stem \in Stems
  PROVE  LET path == ddns_json_path(d, stem)
         IN  /\ path \in Seq(Tokens)
             /\ Len(path) = Len(d) + 3
             /\ \A i \in 1..Len(d) : path[i] = d[i]
             /\ path[Len(d) + 1] = Slash
             /\ path[Len(d) + 2] = stem
             /\ path[Len(d) + 3] = DDNS_JSON_FILE_EXT
<1>1. d \in Seq(Tokens) /\ Len(d) \in Nat
  BY DirFacts
<1>2. Slash \in Tokens /\ stem \in Tokens /\ DDNS_JSON_FILE_EXT \in Tokens
  BY BucketListingAssumption
<1>3. <<Slash>> \in Seq(Tokens) /\ make_filename(stem) \in Seq(Tokens)
  BY <1>2 DEF make_filename
<1>4. /\ Len(make_filename(stem)) = 2 /\ make_filename(stem)[1] = stem
      /\ make_filename(stem)[2] = DDNS_JSON_FILE_EXT
  BY DEF make_filename
<1> DEFINE ds == d \o <<Slash>>
<1>5. /\ ds \in Seq(Tokens) /\ Len(ds) = Len(d) + 1
      /\ \A i \in 1..Len(d) : ds[i] = d[i]
      /\ ds[Len(d) + 1] = Slash
  BY <1>1, <1>3
<1>6. ddns_json_path(d, stem) = ds \o make_filename(stem)
  BY <1>1, <1>3 DEF ddns_json_path
<1> HIDE DEF ds
<1>7. /\ ds \o make_filename(stem) \in Seq(Tokens)
      /\ Len(ds \o make_filename(stem)) = Len(ds) + 2
      /\ \A i \in 1..Len(ds) : (ds \o make_filename(stem))[i] = ds[i]
      /\ (ds \o make_filename(stem))[Len(ds) + 1] = make_filename(stem)[1]
      /\ (ds \o make_filename(stem))[Len(ds) + 2] = make_filename(stem)[2]
  <2> DEFINE f == make_filename(stem)
  <2>1. f \in Seq(Tokens) /\ Len(f) = 2 /\ ds \in Seq(Tokens) /\ Len(ds) \in Nat
    BY <1>3, <1>4, <1>5
  <2> HIDE DEF f
  <2>2. /\ ds \o f \in Seq(Tokens) /\ Len(ds \o f) = Len(ds) + 2
        /\ \A i \in 1..(Len(ds) + 2) :
             (ds \o f)[i] = IF i <= Len(ds) THEN ds[i] ELSE f[i - Len(ds)]
    BY <2>1, ConcatProperties
  <2>3. /\ \A i \in 1..Len(ds) : (ds \o f)[i] = ds[i]
        /\ (ds \o f)[Len(ds) + 1] = f[1]
        /\ (ds \o f)[Len(ds) + 2] = f[2]
    BY <2>1, <2>2
  <2> QED
    BY <2>2, <2>3 DEF f
<1> QED
  BY <1>1, <1>4, <1>5, <1>6, <1>7

(* Requests get keys that rust-s3 can address.                             *)
LEMMA RequestKeysAreKeys ==
  ASSUME client_dir \in Dirs, NEW stem \in Stems
  PROVE  RequestKey(stem) \in Keys /\ IsRequestFile(RequestKey(stem))
<1> DEFINE path == ddns_json_path(client_dir, stem)
<1>1. /\ path \in Seq(Tokens)
      /\ Len(path) = Len(client_dir) + 3
      /\ \A i \in 1..Len(client_dir) : path[i] = client_dir[i]
      /\ path[Len(client_dir) + 3] = DDNS_JSON_FILE_EXT
  BY PathFacts
<1>2. /\ Len(client_dir) \in Nat \ {0}
      /\ client_dir[1] = Slash => Len(client_dir) \notin {0, 1} /\ client_dir[2] # Slash
  BY DirFacts
<1>3. RequestKey(stem) = ObjectPath(path)
  BY DEF RequestKey
<1> HIDE DEF path
<1>4. path # <<>> /\ path[1] = client_dir[1]
  BY <1>1, <1>2
<1>5. ObjectPath(path) = IF path[1] = Slash THEN Tail(path) ELSE path
  BY <1>1, <1>4, PathWithoutSlash
<1>6. CASE path[1] = Slash
  <2> DEFINE key == Tail(path)
  <2>1. /\ key \in Seq(Tokens) /\ Len(key) = Len(client_dir) + 2
        /\ \A i \in 1..(Len(client_dir) + 2) : key[i] = path[i + 1]
    BY <1>1, <1>2, <1>4, HeadTailProperties
  <2> HIDE DEF key
  <2>2. key[1] # Slash
    <3>1. Len(client_dir) \in Nat /\ Len(client_dir) \notin {0, 1} /\ client_dir[2] # Slash
      BY <1>2, <1>4, <1>6
    <3>2. 2 \in 1..Len(client_dir)
      BY <3>1
    <3>3. key[1] = path[2]
      BY <3>1, <2>1
    <3> QED
      BY <1>1, <3>1, <3>2, <3>3
  <2>3. key # <<>> /\ key[Len(key)] = DDNS_JSON_FILE_EXT
    BY <1>1, <1>2, <2>1
  <2>4. key \in Keys /\ IsRequestFile(key)
    BY <2>1, <2>2, <2>3 DEF Keys, IsRequestFile, Last
  <2> QED
    BY <1>3, <1>5, <1>6, <2>4 DEF key
<1>7. CASE path[1] # Slash
  BY <1>1, <1>3, <1>4, <1>5, <1>7 DEF Keys, IsRequestFile, Last
<1> QED
  BY <1>6, <1>7

(* With matching directories, a request lies directly in the server's.     *)
LEMMA MatchedRequestsAreListed ==
  ASSUME client_dir \in Dirs, server_dir \in Dirs, Matched, NEW stem \in Stems
  PROVE  /\ IsPrefix(server_dir, RequestKey(stem))
         /\ Slashes(server_dir, RequestKey(stem)) = {}
<1> DEFINE path == ddns_json_path(client_dir, stem)
           ds   == client_dir \o <<Slash>>
<1>1. /\ path \in Seq(Tokens)
      /\ Len(path) = Len(client_dir) + 3
      /\ \A i \in 1..Len(client_dir) : path[i] = client_dir[i]
      /\ path[Len(client_dir) + 1] = Slash
      /\ path[Len(client_dir) + 2] = stem
      /\ path[Len(client_dir) + 3] = DDNS_JSON_FILE_EXT
  BY PathFacts
<1>2. client_dir \in Seq(Tokens) /\ Len(client_dir) \in Nat \ {0}
  BY DirFacts
<1>3. Slash \in Tokens /\ stem # Slash /\ DDNS_JSON_FILE_EXT # Slash
  BY BucketListingAssumption DEF DDNS_JSON_FILE_EXT, Slash
<1>4. /\ ds \in Seq(Tokens) /\ Len(ds) = Len(client_dir) + 1 /\ ds # <<>>
      /\ \A i \in 1..Len(client_dir) : ds[i] = client_dir[i]
      /\ ds[Len(client_dir) + 1] = Slash
  BY <1>2, <1>3
<1>5. RequestKey(stem) = ObjectPath(path) /\ server_dir = ObjectPath(ds)
  BY DEF RequestKey, Matched
<1> HIDE DEF path, ds
<1>6. path # <<>> /\ path[1] = ds[1] /\ \A i \in 1..Len(ds) : path[i] = ds[i]
  BY <1>1, <1>2, <1>4
<1>7. /\ ObjectPath(path) = IF path[1] = Slash THEN Tail(path) ELSE path
      /\ ObjectPath(ds) = IF ds[1] = Slash THEN Tail(ds) ELSE ds
  BY <1>1, <1>4, <1>6, PathWithoutSlash
<1>8. ASSUME NEW p \in Seq(Tokens), NEW q \in Seq(Tokens),
             Len(q) = Len(p) + 2, \A i \in 1..Len(p) : p[i] = q[i],
             q[Len(p) + 1] = stem, q[Len(p) + 2] = DDNS_JSON_FILE_EXT
      PROVE  IsPrefix(p, q) /\ Slashes(p, q) = {}
  <2>1. IsPrefix(p, q)
    BY <1>8, PrefixAgrees
  <2>2. \A i \in (Len(p) + 1)..Len(q) : i = Len(p) + 1 \/ i = Len(p) + 2
    BY <1>8
  <2> QED
    BY <1>3, <1>8, <2>1, <2>2 DEF Slashes
<1>9. CASE ds[1] = Slash
  <2>1. /\ Tail(path) \in Seq(Tokens) /\ Len(Tail(path)) = Len(path) - 1
        /\ \A i \in 1..(Len(path) - 1) : Tail(path)[i] = path[i + 1]
        /\ Tail(ds) \in Seq(Tokens) /\ Len(Tail(ds)) = Len(ds) - 1
        /\ \A i \in 1..(Len(ds) - 1) : Tail(ds)[i] = ds[i + 1]
    BY <1>1, <1>4, <1>6
  <2>2. /\ Len(Tail(path)) = Len(Tail(ds)) + 2
        /\ \A i \in 1..Len(Tail(ds)) : Tail(ds)[i] = Tail(path)[i]
        /\ Tail(path)[Len(Tail(ds)) + 1] = stem
        /\ Tail(path)[Len(Tail(ds)) + 2] = DDNS_JSON_FILE_EXT
    BY <1>1, <1>2, <1>4, <1>6, <2>1
  <2> QED
    BY <1>5, <1>6, <1>7, <1>8, <1>9, <2>1, <2>2
<1>10. CASE ds[1] # Slash
  <2>1. /\ Len(path) = Len(ds) + 2
        /\ path[Len(ds) + 1] = stem
        /\ path[Len(ds) + 2] = DDNS_JSON_FILE_EXT
    BY <1>1, <1>2, <1>4
  <2> QED
    BY <1>1, <1>4, <1>5, <1>6, <1>7, <1>8, <1>10, <2>1
<1> QED
  BY <1>9, <1>10

-----------------------------------------------------------------------------
(* Entries of a listing *)

(* A set of naturals has the least element that Min answers.               *)
LEMMA MinIsLeast ==
  ASSUME NEW S \in SUBSET Nat, S # {}
  PROVE  Min(S) \in S
<1>1. PICK m \in S : \A x \in S : ~(<<x, m>> \in OpToRel(<, Nat))
  BY WFMin, NatLessThanWellFounded
<1>2. ASSUME NEW x \in S, x < m PROVE FALSE
  <2>1. <<x, m>> \in Nat \X Nat /\ <<x, m>>[1] < <<x, m>>[2]
    BY <1>2
  <2>2. <<x, m>> \in OpToRel(<, Nat)
    BY <2>1 DEF OpToRel
  <2> QED
    BY <1>1, <2>2
<1>3. \A x \in S : m <= x
  BY <1>2
<1> QED
  BY <1>3 DEF Min

(* An entry lies under the prefix, and one that is not rolled up is a key  *)
(* directly in the directory.                                              *)
LEMMA EntryFacts ==
  ASSUME NEW prefix \in Seq(Tokens), NEW k \in Seq(Tokens), IsPrefix(prefix, k)
  PROVE  LET e == Entry(prefix, k)
         IN  /\ e.key \in Seq(Tokens) /\ IsPrefix(prefix, e.key)
             /\ ~e.rolled => e.key = k /\ DirectlyIn(prefix, k)
<1>1. /\ Len(prefix) \in Nat /\ Len(k) \in Nat /\ Len(prefix) <= Len(k)
      /\ \A i \in 1..Len(prefix) : prefix[i] = k[i]
  BY PrefixAgrees
<1>2. CASE Slashes(prefix, k) = {}
  BY <1>2 DEF Entry, Slashes, DirectlyIn
<1>3. CASE Slashes(prefix, k) # {}
  <2> DEFINE m == Min(Slashes(prefix, k))
             up == SubSeq(k, 1, m)
  <2>1. Slashes(prefix, k) \in SUBSET Nat
    BY <1>1 DEF Slashes
  <2>2. m \in (Len(prefix) + 1)..Len(k)
    BY <1>3, <2>1, MinIsLeast DEF Slashes
  <2>3. Entry(prefix, k) = [key |-> up, rolled |-> TRUE]
    BY <1>3 DEF Entry
  <2> HIDE DEF m
  <2>4. up \in Seq(Tokens) /\ Len(up) = m /\ \A i \in 1..m : up[i] = k[i]
    BY <1>1, <2>2
  <2> HIDE DEF up
  <2>5. Len(prefix) <= Len(up) /\ \A i \in 1..Len(prefix) : prefix[i] = up[i]
    BY <1>1, <2>2, <2>4
  <2>6. IsPrefix(prefix, up)
    BY <2>4, <2>5, PrefixAgrees
  <2> QED
    BY <2>3, <2>4, <2>6
<1> QED
  BY <1>2, <1>3

(* What the server is shown behind a token.                                *)
LEMMA EntriesFacts ==
  ASSUME server_dir \in Dirs, objects \subseteq Keys,
         NEW e \in EntriesAfter(server_dir, token)
  PROVE  /\ e.key \in Seq(Tokens) /\ IsPrefix(server_dir, e.key)
         /\ token # NoToken => Before(token, e.key)
         /\ ~e.rolled => e.key \in objects /\ DirectlyIn(server_dir, e.key)
<1>1. PICK k \in objects : IsPrefix(server_dir, k) /\ e = Entry(server_dir, k)
  BY DEF EntriesAfter
<1>2. token # NoToken => Before(token, e.key)
  BY DEF EntriesAfter
<1>3. server_dir \in Seq(Tokens) /\ k \in Seq(Tokens)
  BY DirFacts DEF Keys
<1>4. /\ Entry(server_dir, k).key \in Seq(Tokens)
      /\ IsPrefix(server_dir, Entry(server_dir, k).key)
      /\ ~Entry(server_dir, k).rolled =>
           Entry(server_dir, k).key = k /\ DirectlyIn(server_dir, k)
  BY <1>1, <1>3, EntryFacts
<1> QED
  BY <1>1, <1>2, <1>4, Zenon

-----------------------------------------------------------------------------
(* Where the run is *)

(* What can be stored in the bucket.                                       *)
Stored == OtherFiles \cup {RequestKey(stem) : stem \in Stems}

(* Everything that was fetched, or should have been.                       *)
Seen == ToSet(fetched) \cup missing

(* What the run handles was stored by somebody; what it remembers fits     *)
(* the place where it is.                                                  *)
PlaceInv ==
  /\ TypeOK
  /\ fetched \in Seq(Keys)
  /\ pc # "fetch" => page = {}
  /\ pc \in {"idle", "done", "cleanup"} => token = NoToken
  /\ pc = "idle" => fetched = <<>> /\ missing = {}
  /\ pc # "cleanup" => doomed = {}

(* Everything that is stored can be addressed.                             *)
LEMMA StoredAreKeys == client_dir \in Dirs => Stored \subseteq Keys
<1>1. OtherFiles \subseteq Keys
  BY BucketListingAssumption DEF Keys
<1> QED
  BY <1>1, RequestKeysAreKeys DEF Stored

(* An appended key joins the set.                                          *)
LEMMA AppendedSet ==
  ASSUME NEW s \in Seq(Keys), NEW k \in Keys
  PROVE  /\ Append(s, k) \in Seq(Keys) /\ Len(Append(s, k)) = Len(s) + 1
         /\ ToSet(Append(s, k)) = ToSet(s) \cup {k}
<1> DEFINE t == Append(s, k)
<1>1. /\ t \in Seq(Keys) /\ Len(t) = Len(s) + 1 /\ Len(s) \in Nat
      /\ \A i \in 1..Len(s) : t[i] = s[i]
      /\ t[Len(s) + 1] = k
  BY AppendProperties
<1> HIDE DEF t
<1>2. DOMAIN t = 1..(Len(s) + 1) /\ DOMAIN s = 1..Len(s)
  BY <1>1
<1>3. ASSUME NEW x \in ToSet(t) PROVE x \in ToSet(s) \cup {k}
  <2>1. PICK i \in 1..(Len(s) + 1) : x = t[i]
    BY <1>2, <1>3 DEF ToSet
  <2>2. CASE i \in 1..Len(s)
    BY <1>1, <1>2, <2>1, <2>2 DEF ToSet
  <2>3. CASE i = Len(s) + 1
    BY <1>1, <2>1, <2>3
  <2> QED
    BY <1>1, <2>1, <2>2, <2>3
<1>4. ASSUME NEW x \in ToSet(s) PROVE x \in ToSet(t)
  <2>1. PICK i \in 1..Len(s) : x = s[i]
    BY <1>2, <1>4 DEF ToSet
  <2>2. i \in DOMAIN t /\ x = t[i]
    BY <1>1, <1>2, <2>1
  <2> QED
    BY <2>2 DEF ToSet
<1>5. k \in ToSet(t)
  <2>1. Len(s) + 1 \in DOMAIN t
    BY <1>1, <1>2
  <2> QED
    BY <1>1, <2>1 DEF ToSet
<1>6. ToSet(t) = ToSet(s) \cup {k}
  BY <1>3, <1>4, <1>5
<1> QED
  BY <1>1, <1>6 DEF t

(* A page: what is on it lies behind the old token and up to the new one,  *)
(* and what is not on it behind the new one.                               *)
LEMMA PageFacts ==
  ASSUME server_dir \in Dirs, objects \subseteq Keys, ListPage
  PROVE  /\ page' \subseteq objects
         /\ \A k \in page' : /\ DirectlyIn(server_dir, k)
                             /\ token # NoToken => Before(token, k)
                             /\ token' # NoToken => k = token' \/ Before(k, token')
         /\ token' # NoToken => /\ token' \in Seq(Tokens) /\ IsPrefix(server_dir, token')
                                /\ token # NoToken => Before(token, token')
         /\ \A k \in objects :
              /\ IsPrefix(server_dir, k) /\ Slashes(server_dir, k) = {}
              /\ token = NoToken \/ Before(token, k)
              => k \in page' \/ (token' # NoToken /\ Before(token', k))
<1> DEFINE entries == EntriesAfter(server_dir, token)
<1>1. PICK first \in SUBSET entries :
        /\ IsPage(first, entries)
        /\ page' = {e.key : e \in {d \in first : ~d.rolled}}
        /\ token' \in NextTokens(first, entries)
  BY DEF ListPage
<1>2. \A e \in entries :
        /\ e.key \in Seq(Tokens) /\ IsPrefix(server_dir, e.key)
        /\ token # NoToken => Before(token, e.key)
        /\ ~e.rolled => e.key \in objects /\ DirectlyIn(server_dir, e.key)
  BY EntriesFacts
<1>3. ASSUME NEW k \in objects, IsPrefix(server_dir, k), Slashes(server_dir, k) = {},
             token = NoToken \/ Before(token, k)
      PROVE  [key |-> k, rolled |-> FALSE] \in entries
  <2>1. Entry(server_dir, k) = [key |-> k, rolled |-> FALSE]
    BY <1>3 DEF Entry
  <2>2. Entry(server_dir, k).key = k
    BY <2>1
  <2> QED
    BY <1>3, <2>1, <2>2 DEF EntriesAfter
<1> HIDE DEF entries
<1>4. /\ \A e \in first, d \in entries \ first : Before(e.key, d.key)
      /\ token' # NoToken => /\ \E e \in first : token' = e.key
                             /\ \A e \in first : e.key = token' \/ Before(e.key, token')
      /\ token' = NoToken => first = entries
  <2>1. CASE first = entries
    BY <1>1, <2>1 DEF IsPage, NextTokens
  <2>2. CASE first # entries
    <3>1. PICK e \in first : token' = e.key
      BY <1>1, <2>2 DEF NextTokens
    <3>2. token' \in Seq(Tokens)
      BY <1>1, <1>2, <3>1
    <3>3. token' # NoToken
      BY <3>2, BucketListingAssumption
    <3> QED
      BY <1>1, <2>2, <3>1, <3>3 DEF IsPage, NextTokens
  <2> QED
    BY <2>1, <2>2
<1>5. ASSUME NEW k \in page'
      PROVE  /\ k \in objects /\ DirectlyIn(server_dir, k)
             /\ token # NoToken => Before(token, k)
             /\ token' # NoToken => k = token' \/ Before(k, token')
  <2>1. PICK e \in first : ~e.rolled /\ k = e.key
    BY <1>1, <1>5
  <2> QED
    BY <1>1, <1>2, <1>4, <2>1
<1>6. ASSUME token' # NoToken
      PROVE  /\ token' \in Seq(Tokens) /\ IsPrefix(server_dir, token')
             /\ token # NoToken => Before(token, token')
  <2>1. PICK e \in first : token' = e.key
    BY <1>4, <1>6
  <2> QED
    BY <1>1, <1>2, <2>1
<1>7. ASSUME NEW k \in objects, IsPrefix(server_dir, k), Slashes(server_dir, k) = {},
             token = NoToken \/ Before(token, k)
      PROVE  k \in page' \/ (token' # NoToken /\ Before(token', k))
  <2> DEFINE e == [key |-> k, rolled |-> FALSE]
  <2>1. e \in entries /\ e.key = k /\ ~e.rolled
    BY <1>3, <1>7
  <2> HIDE DEF e
  <2>2. CASE e \in first
    BY <1>1, <2>1, <2>2
  <2>3. CASE e \notin first
    BY <1>4, <2>1, <2>3
  <2> QED
    BY <2>2, <2>3
<1> QED
  BY <1>5, <1>6, <1>7

(* The directories are those the processes were started with.              *)
LEMMA DirsAreFixed ==
  ASSUME [Next]_vars
  PROVE  /\ UNCHANGED <<client_dir, server_dir, Stored, Matched>>
         /\ \A stem \in Stems : UNCHANGED RequestKey(stem)
<1>1. UNCHANGED <<client_dir, server_dir>>
  BY DEF Next, Upload, UsedByOther, Start, ListPage, Fetch, NextPage, Judge, Exit, Delete,
     Finish, vars
<1> QED
  BY <1>1 DEF Stored, Matched, RequestKey

(* Every step keeps what the run remembers in its place.                   *)
LEMMA StepKeepsPlace ==
  ASSUME PlaceInv, [Next]_vars
  PROVE  PlaceInv'
<1>1. /\ UNCHANGED <<client_dir, server_dir, Stored>>
      /\ \A stem \in Stems : UNCHANGED RequestKey(stem)
  BY DirsAreFixed
<1>2. /\ client_dir \in Dirs /\ server_dir \in Dirs
      /\ objects \cup page \cup ToSet(fetched) \cup missing \cup doomed \subseteq Stored
      /\ steady \subseteq objects
      /\ Stored \subseteq Keys
  BY StoredAreKeys DEF PlaceInv, TypeOK, Stored
<1>3. TypeOK' = (/\ client_dir' \in Dirs /\ server_dir' \in Dirs
                 /\ pc' \in {"idle", "list", "fetch", "done", "cleanup"}
                 /\ token' # NoToken => token' \in Seq(Tokens) /\ IsPrefix(server_dir', token')
                 /\ objects' \cup page' \cup ToSet(fetched)' \cup missing' \cup doomed'
                      \subseteq Stored'
                 /\ steady' \subseteq objects')
  BY DEF TypeOK, Stored
<1>4. ToSet(<<>>) = {}
  BY DEF ToSet
<1>5. ASSUME NEW stem \in Stems, Upload(stem) PROVE PlaceInv'
  <2>1. RequestKey(stem) \in Stored
    BY DEF Stored
  <2> QED
    BY <1>1, <1>2, <1>3, <1>5, <2>1 DEF PlaceInv, TypeOK, Upload
<1>6. ASSUME NEW stem \in Stems, UsedByOther(stem) PROVE PlaceInv'
  BY <1>1, <1>2, <1>3, <1>6 DEF PlaceInv, TypeOK, UsedByOther
<1>7. CASE Start
  BY <1>1, <1>2, <1>3, <1>7 DEF PlaceInv, TypeOK, Start
<1>8. CASE ListPage
  <2>1. page' \subseteq objects
    BY <1>2, <1>8, PageFacts
  <2>2. token' # NoToken => token' \in Seq(Tokens) /\ IsPrefix(server_dir, token')
    BY <1>2, <1>8, PageFacts
  <2> QED
    BY <1>1, <1>2, <1>3, <1>8, <2>1, <2>2 DEF PlaceInv, TypeOK, ListPage
<1>9. ASSUME NEW k \in page, Fetch(k) PROVE PlaceInv'
  <2>1. k \in Keys /\ k \in Stored /\ fetched \in Seq(Keys)
    BY <1>2 DEF PlaceInv
  <2>2. /\ fetched' \in Seq(Keys)
        /\ ToSet(fetched') \subseteq ToSet(fetched) \cup {k}
        /\ missing' \subseteq missing \cup {k}
    BY <1>9, <2>1, AppendedSet DEF Fetch
  <2> QED
    BY <1>1, <1>2, <1>3, <1>9, <2>1, <2>2 DEF PlaceInv, TypeOK, Fetch
<1>10. CASE NextPage
  BY <1>1, <1>2, <1>3, <1>10 DEF PlaceInv, TypeOK, NextPage
<1>11. ASSUME Exit, UNCHANGED objects, pc \in {"done", "cleanup"} PROVE PlaceInv'
  <2>1. fetched' \in Seq(Keys)
    BY <1>11 DEF Exit
  <2> QED
    BY <1>1, <1>2, <1>3, <1>4, <1>11, <2>1 DEF PlaceInv, TypeOK, Exit
<1>12. CASE Judge
  <2>1. PICK used \in SUBSET ToSet(fetched) :
          \/ used = {} /\ Exit
          \/ /\ used # {}
             /\ pc' = "cleanup"
             /\ doomed' = used \cup missing
             /\ UNCHANGED <<client_dir, server_dir, token, page, fetched, missing, steady>>
    BY <1>12 DEF Judge
  <2>2. pc = "done" /\ UNCHANGED objects
    BY <1>12 DEF Judge
  <2>3. CASE Exit
    BY <1>11, <2>2, <2>3
  <2>4. CASE ~Exit
    BY <1>1, <1>2, <1>3, <2>1, <2>2, <2>4 DEF PlaceInv, TypeOK
  <2> QED
    BY <2>3, <2>4
<1>13. ASSUME NEW k \in doomed, Delete(k) PROVE PlaceInv'
  BY <1>1, <1>2, <1>3, <1>13 DEF PlaceInv, TypeOK, Delete
<1>14. CASE Finish
  BY <1>11, <1>14 DEF Finish
<1>15. CASE UNCHANGED vars
  BY <1>1, <1>2, <1>3, <1>15 DEF PlaceInv, TypeOK, vars
<1> QED
  BY <1>5, <1>6, <1>7, <1>8, <1>9, <1>10, <1>12, <1>13, <1>14, <1>15 DEF Next

-----------------------------------------------------------------------------
(* Once, in the directory, and all of them *)

(* What was seen lies before what is still to be seen.                     *)
OnceInv ==
  /\ IsFiniteSet(ToSet(fetched)) /\ IsFiniteSet(missing)
  /\ Cardinality(ToSet(fetched)) = Len(fetched)
  /\ ToSet(fetched) \cap missing = {}
  /\ page \cap Seen = {}
  /\ pc = "list" /\ token = NoToken => Seen = {}
  /\ token # NoToken => \A k \in page \cup Seen : k = token \/ Before(k, token)

(* The run looks at its directory only, and keeps requests only.           *)
OwnInv ==
  /\ \A k \in page : DirectlyIn(server_dir, k)
  /\ \A k \in Seen \cup doomed : DirectlyIn(server_dir, k) /\ IsRequestFile(k)

(* A request that stays in the bucket is fetched, or still to be listed.   *)
StillListed(k) ==
  \/ k \in ToSet(fetched) \cup page
  \/ token # NoToken /\ Before(token, k)
  \/ pc = "list" /\ token = NoToken

ServedInv ==
  Matched /\ pc \in {"list", "fetch", "done"} =>
    \A stem \in Stems : RequestKey(stem) \in steady => StillListed(RequestKey(stem))

(* Steps that leave the run's notes alone keep the order of its listing.   *)
LEMMA SameNotes ==
  ASSUME OnceInv, UNCHANGED <<token, page, fetched, missing>>,
         pc' = "list" => pc = "list" \/ token # NoToken \/ Seen = {}
  PROVE  OnceInv'
BY DEF OnceInv, Seen

(* Every step keeps the order between what was and what will be seen.      *)
LEMMA StepKeepsOnce ==
  ASSUME PlaceInv, PlaceInv', OnceInv, [Next]_vars
  PROVE  OnceInv'
<1>1. /\ server_dir \in Dirs /\ fetched \in Seq(Keys)
      /\ objects \cup page \cup Seen \subseteq Keys
      /\ token # NoToken => token \in Seq(Tokens)
  <2>1. objects \cup page \cup Seen \subseteq Stored
    BY DEF PlaceInv, TypeOK, Seen, Stored
  <2>2. Stored \subseteq Keys
    BY StoredAreKeys DEF PlaceInv, TypeOK
  <2> QED
    BY <2>1, <2>2 DEF PlaceInv, TypeOK
<1>2. CASE Start
  <2>1. Seen = {}
    BY <1>2 DEF Start, PlaceInv, Seen, ToSet
  <2> QED
    BY <1>2, <2>1, SameNotes DEF Start
<1>3. CASE ListPage
  <2>1. /\ page' \subseteq objects
        /\ \A k \in page' : /\ token # NoToken => Before(token, k)
                            /\ token' # NoToken => k = token' \/ Before(k, token')
        /\ token' # NoToken => /\ token' \in Seq(Tokens)
                               /\ token # NoToken => Before(token, token')
    BY <1>1, <1>3, PageFacts
  <2>2. UNCHANGED <<fetched, missing>> /\ pc = "list" /\ pc' = "fetch"
    BY <1>3 DEF ListPage
  <2>3. UNCHANGED Seen
    BY <2>2 DEF Seen
  <2>4. ASSUME NEW k \in page', k \in Seen PROVE FALSE
    <3>1. token # NoToken /\ k \in Seq(Tokens) /\ token \in Seq(Tokens)
      BY <1>1, <2>2, <2>4 DEF OnceInv, Keys
    <3>2. Before(token, k) /\ (k = token \/ Before(k, token))
      BY <2>1, <2>4, <3>1 DEF OnceInv
    <3> QED
      BY <3>1, <3>2, NotBeforeItself, BeforeIsTransitive
  <2>5. ASSUME NEW k \in Seen, token' # NoToken PROVE Before(k, token')
    <3>1. token # NoToken /\ k \in Seq(Tokens) /\ token \in Seq(Tokens)
      BY <1>1, <2>2, <2>5 DEF OnceInv, Keys
    <3>2. Before(token, token') /\ (k = token \/ Before(k, token)) /\ token' \in Seq(Tokens)
      BY <2>1, <2>5, <3>1 DEF OnceInv
    <3> QED
      BY <3>1, <3>2, BeforeIsTransitive
  <2> QED
    BY <2>1, <2>2, <2>3, <2>4, <2>5 DEF OnceInv
<1>4. ASSUME NEW k \in page, Fetch(k) PROVE OnceInv'
  <2>1. k \in Keys /\ k \notin Seen
    BY <1>1 DEF OnceInv
  <2>2. page' = page \ {k} /\ UNCHANGED <<pc, token>> /\ pc = "fetch"
    BY <1>4 DEF Fetch
  <2>3. CASE UNCHANGED <<fetched, missing>>
    BY <2>2, <2>3 DEF OnceInv, Seen
  <2>4. CASE fetched' = Append(fetched, k) /\ UNCHANGED missing
    <3>1. ToSet(fetched') = ToSet(fetched) \cup {k} /\ Len(fetched') = Len(fetched) + 1
      BY <1>1, <2>1, <2>4, AppendedSet
    <3>2. /\ IsFiniteSet(ToSet(fetched'))
          /\ Cardinality(ToSet(fetched')) = Len(fetched')
      BY <2>1, <3>1, FS_AddElement DEF OnceInv, Seen
    <3> QED
      BY <2>1, <2>2, <2>4, <3>1, <3>2 DEF OnceInv, Seen
  <2>5. CASE missing' = missing \cup {k} /\ UNCHANGED fetched
    <3>1. IsFiniteSet(missing')
      BY <2>5, FS_AddElement DEF OnceInv
    <3> QED
      BY <2>1, <2>2, <2>5, <3>1 DEF OnceInv, Seen
  <2> QED
    BY <1>4, <2>3, <2>4, <2>5 DEF Fetch
<1>5. CASE NextPage
  BY <1>5, SameNotes DEF NextPage
<1>6. CASE pc' = "idle"
  <2>1. fetched' = <<>> /\ missing' = {} /\ page' = {}
    BY <1>6 DEF PlaceInv
  <2>2. ToSet(fetched') = {} /\ Len(fetched') = 0
    BY <2>1 DEF ToSet
  <2> QED
    BY <2>1, <2>2, FS_EmptySet, <1>6 DEF OnceInv, Seen
<1>7. CASE pc' # "idle" /\ ~Start /\ ~ListPage /\ ~NextPage /\ ~(\E k \in page : Fetch(k))
  <2>1. UNCHANGED <<token, page, fetched, missing>> /\ (pc' = "list" => pc = "list")
    BY <1>7 DEF Next, Upload, UsedByOther, Judge, Exit, Delete, Finish, vars
  <2> QED
    BY <2>1, SameNotes
<1> QED
  BY <1>2, <1>3, <1>4, <1>5, <1>6, <1>7

(* Every step keeps to the directory.                                      *)
LEMMA StepKeepsOwn ==
  ASSUME PlaceInv, PlaceInv', OwnInv, [Next]_vars
  PROVE  OwnInv'
<1>1. /\ server_dir \in Dirs /\ fetched \in Seq(Keys)
      /\ objects \cup page \subseteq Keys
  BY StoredAreKeys DEF PlaceInv, TypeOK, Stored
<1>2. UNCHANGED server_dir
  BY DirsAreFixed
<1>3. CASE ListPage
  <2>1. \A k \in page' : DirectlyIn(server_dir, k)
    BY <1>1, <1>3, PageFacts
  <2> QED
    BY <1>2, <1>3, <2>1 DEF OwnInv, ListPage, Seen
<1>4. ASSUME NEW k \in page, Fetch(k) PROVE OwnInv'
  <2>1. page' \subseteq page /\ UNCHANGED doomed
    BY <1>4 DEF Fetch
  <2>2. Seen' \subseteq Seen \/ (IsRequestFile(k) /\ Seen' = Seen \cup {k})
    <3>1. CASE UNCHANGED <<fetched, missing>>
      BY <3>1 DEF Seen
    <3>2. CASE fetched' = Append(fetched, k) /\ UNCHANGED missing /\ IsRequestFile(k)
      BY <1>1, <3>2, AppendedSet DEF Seen
    <3>3. CASE missing' = missing \cup {k} /\ UNCHANGED fetched /\ IsRequestFile(k)
      BY <3>3 DEF Seen
    <3> QED
      BY <1>4, <3>1, <3>2, <3>3 DEF Fetch
  <2> QED
    BY <1>2, <2>1, <2>2 DEF OwnInv
<1>5. CASE Judge /\ pc' = "cleanup"
  <2>1. doomed' \subseteq Seen /\ UNCHANGED <<page, Seen>>
    BY <1>5 DEF Judge, Exit, Seen
  <2> QED
    BY <1>2, <2>1 DEF OwnInv
<1>6. CASE pc' = "idle"
  <2>1. page' = {} /\ doomed' = {} /\ fetched' = <<>> /\ missing' = {}
    BY <1>6 DEF PlaceInv
  <2> QED
    BY <2>1 DEF OwnInv, Seen, ToSet
<1>7. CASE /\ pc' # "idle" /\ ~ListPage /\ ~(\E k \in page : Fetch(k))
           /\ ~(Judge /\ pc' = "cleanup")
  <2>1. UNCHANGED <<page, fetched, missing>> /\ doomed' \subseteq doomed
    BY <1>7 DEF Next, Upload, UsedByOther, Start, NextPage, Judge, Exit, Delete, Finish, vars
  <2> QED
    BY <1>2, <2>1 DEF OwnInv, Seen
<1> QED
  BY <1>3, <1>4, <1>5, <1>6, <1>7

(* Every step keeps a request that stays in the bucket in sight.           *)
LEMMA StepKeepsServed ==
  ASSUME PlaceInv, PlaceInv', ServedInv, [Next]_vars
  PROVE  ServedInv'
<1>1. /\ client_dir \in Dirs /\ server_dir \in Dirs /\ fetched \in Seq(Keys)
      /\ objects \cup page \subseteq Keys /\ steady \subseteq objects
  BY StoredAreKeys DEF PlaceInv, TypeOK, Stored
<1>2. UNCHANGED Matched /\ \A stem \in Stems : UNCHANGED RequestKey(stem)
  BY DirsAreFixed
<1>3. SUFFICES ASSUME Matched, pc' \in {"list", "fetch", "done"},
                      NEW stem \in Stems, RequestKey(stem) \in steady'
               PROVE  StillListed(RequestKey(stem))'
  BY <1>2 DEF ServedInv
<1> DEFINE key == RequestKey(stem)
<1>4. /\ UNCHANGED key
      /\ IsPrefix(server_dir, key) /\ Slashes(server_dir, key) = {}
      /\ IsRequestFile(key) /\ key \in Keys
      /\ key \in steady'
  BY <1>1, <1>2, <1>3, MatchedRequestsAreListed, RequestKeysAreKeys
<1> HIDE DEF key
<1>5. ASSUME pc \in {"list", "fetch", "done"}, key \in steady PROVE StillListed(key)
  BY <1>3, <1>5 DEF ServedInv, key
<1>6. SUFFICES StillListed(key)'
  BY DEF key
<1>7. CASE Start
  BY <1>7 DEF Start, StillListed, PlaceInv
<1>8. CASE ListPage
  <2>1. /\ pc = "list" /\ pc' = "fetch" /\ UNCHANGED <<fetched, steady>>
        /\ page = {}
    BY <1>8 DEF ListPage, PlaceInv
  <2>2. key \in steady /\ key \in objects
    BY <1>1, <1>4, <2>1
  <2>3. CASE key \in ToSet(fetched)
    BY <1>4, <2>1, <2>3 DEF StillListed
  <2>4. CASE token = NoToken \/ Before(token, key)
    <3>1. key \in page' \/ (token' # NoToken /\ Before(token', key))
      BY <1>1, <1>4, <1>8, <2>2, <2>4, PageFacts
    <3> QED
      BY <1>4, <3>1 DEF StillListed
  <2> QED
    BY <1>5, <2>1, <2>2, <2>3, <2>4 DEF StillListed
<1>9. ASSUME NEW k \in page, Fetch(k) PROVE StillListed(key)'
  <2>1. /\ pc = "fetch" /\ pc' = "fetch" /\ page' = page \ {k} /\ UNCHANGED <<token, steady>>
    BY <1>9 DEF Fetch
  <2>2. key \in steady /\ key \in objects /\ k \in Keys
    BY <1>1, <1>4, <2>1
  <2>3. ToSet(fetched) \subseteq ToSet(fetched')
    <3>1. CASE UNCHANGED fetched
      BY <3>1
    <3>2. CASE fetched' = Append(fetched, k)
      BY <1>1, <2>2, <3>2, AppendedSet
    <3> QED
      BY <1>9, <3>1, <3>2 DEF Fetch
  <2>4. CASE k = key
    <3>1. ObjectPath(k) \in objects
      BY <2>2, <2>4, PathOfKey
    <3>2. fetched' = Append(fetched, k)
      BY <1>4, <1>9, <2>4, <3>1 DEF Fetch
    <3>3. key \in ToSet(fetched')
      BY <1>1, <2>2, <2>4, <3>2, AppendedSet
    <3> QED
      BY <1>4, <3>3 DEF StillListed
  <2>5. CASE k # key
    BY <1>4, <1>5, <2>1, <2>2, <2>3, <2>5 DEF StillListed
  <2> QED
    BY <2>4, <2>5
<1>10. CASE NextPage
  BY <1>4, <1>5, <1>10 DEF NextPage, StillListed
<1>11. CASE ~Start /\ ~ListPage /\ ~NextPage /\ ~(\E k \in page : Fetch(k))
  <2>1. UNCHANGED <<pc, token, page, fetched>> /\ steady' \subseteq steady
    BY <1>3, <1>11 DEF Next, Upload, UsedByOther, Judge, Exit, Delete, Finish, vars, PlaceInv
  <2> QED
    BY <1>3, <1>4, <1>5, <2>1 DEF StillListed
<1> QED
  BY <1>7, <1>8, <1>9, <1>10, <1>11

-----------------------------------------------------------------------------
(* The theorems *)

(* Everything a run keeps true while the bucket changes.                   *)
ListingInv == PlaceInv /\ OnceInv /\ OwnInv /\ ServedInv

(* Before the first run nothing is listed.                                 *)
LEMMA InitListing == Init => ListingInv
<1> SUFFICES ASSUME Init PROVE ListingInv
  OBVIOUS
<1> USE DEF Init
<1>1. ToSet(fetched) = {} /\ Len(fetched) = 0 /\ fetched \in Seq(Keys)
  BY DEF ToSet
<1>2. PlaceInv
  BY <1>1 DEF PlaceInv, TypeOK
<1>3. OnceInv
  BY <1>1, FS_EmptySet DEF OnceInv, Seen
<1>4. OwnInv /\ ServedInv
  BY <1>1 DEF OwnInv, ServedInv, Seen
<1> QED
  BY <1>2, <1>3, <1>4 DEF ListingInv

(* Every step keeps the invariant.                                         *)
LEMMA StepKeepsListing ==
  ASSUME ListingInv, [Next]_vars
  PROVE  ListingInv'
<1>1. PlaceInv'
  BY StepKeepsPlace DEF ListingInv
<1>2. OnceInv' /\ OwnInv' /\ ServedInv'
  BY <1>1, StepKeepsOnce, StepKeepsOwn, StepKeepsServed DEF ListingInv
<1> QED
  BY <1>1, <1>2 DEF ListingInv

(***************************************************************************)
(* The invariant of a listing holds in every state, however clients and    *)
(* other runs change the bucket between its calls.                         *)
(***************************************************************************)
THEOREM ListingInvariant == Spec => []ListingInv
<1>1. Init => ListingInv
  BY InitListing
<1>2. ListingInv /\ [Next]_vars => ListingInv'
  BY StepKeepsListing
<1> QED
  BY <1>1, <1>2, PTL DEF Spec

(***************************************************************************)
(* Whatever a run handles is a key that somebody stored, and its token     *)
(* lies under its prefix.                                                  *)
(***************************************************************************)
THEOREM ListingTypeCorrect == Spec => []TypeOK
<1>1. ListingInv => TypeOK
  BY DEF ListingInv, PlaceInv
<1> QED
  BY <1>1, ListingInvariant, PTL

(* What is kept in order is not there twice.                               *)
LEMMA OrderMeansOnce == OnceInv => NothingFetchedTwice
<1> SUFFICES ASSUME OnceInv PROVE NothingFetchedTwice
  OBVIOUS
<1>1. /\ IsFiniteSet(ToSet(fetched)) /\ IsFiniteSet(missing)
      /\ Cardinality(ToSet(fetched)) = Len(fetched)
      /\ Cardinality(ToSet(fetched) \cap missing) = 0
  BY FS_EmptySet DEF OnceInv
<1>2. Cardinality(ToSet(fetched)) \in Nat /\ Cardinality(missing) \in Nat
  BY <1>1, FS_CardinalityType
<1>3. Cardinality(ToSet(fetched) \cup missing) =
        Cardinality(ToSet(fetched)) + Cardinality(missing)
          - Cardinality(ToSet(fetched) \cap missing)
  BY <1>1, FS_Union
<1>4. Cardinality(ToSet(fetched) \cup missing) = Len(fetched) + Cardinality(missing)
  BY <1>1, <1>2, <1>3
<1> QED
  BY <1>4 DEF NothingFetchedTwice

(***************************************************************************)
(* No run fetches a request twice, for any page size, although the bucket  *)
(* changes between the pages: the continuation token only moves forward.   *)
(***************************************************************************)
THEOREM FetchedOnce == Spec => []NothingFetchedTwice
<1>1. ListingInv => NothingFetchedTwice
  BY OrderMeansOnce DEF ListingInv
<1> QED
  BY <1>1, ListingInvariant, PTL

(* At the end of the listing nothing is still to be listed.                *)
LEMMA NothingLeftToList == PlaceInv /\ ServedInv => MatchedRequestsAreFetched
BY DEF PlaceInv, ServedInv, StillListed, MatchedRequestsAreFetched, AllFetched

(***************************************************************************)
(* With matching directories a run fetches every request that stays in the *)
(* bucket, whatever the pages hold.                                        *)
(***************************************************************************)
THEOREM EveryRequestIsFetched == Spec => []MatchedRequestsAreFetched
<1>1. ListingInv => MatchedRequestsAreFetched
  BY NothingLeftToList DEF ListingInv
<1> QED
  BY <1>1, ListingInvariant, PTL

(* Only the cleanup shortens the list of doomed keys while objects go.     *)
LEMMA OnlyOwnFilesGo ==
  ASSUME ListingInv, [Next]_vars, NEW k \in objects \ objects', doomed' # doomed
  PROVE  DirectlyIn(server_dir, k) /\ IsRequestFile(k)
<1>1. PICK d \in doomed : Delete(d)
  BY DEF Next, Upload, UsedByOther, Start, ListPage, Fetch, NextPage, Judge, Exit, Finish, vars
<1>2. d \in Keys
  BY <1>1, StoredAreKeys DEF ListingInv, PlaceInv, TypeOK, Stored
<1>3. k = d
  BY <1>1, <1>2, PathOfKey DEF Delete
<1> QED
  BY <1>3 DEF ListingInv, OwnInv

(***************************************************************************)
(* The cleanup of a run removes request files of the run's own directory   *)
(* and nothing else, for every bucket and every spelling of the directory. *)
(***************************************************************************)
THEOREM CleanupStaysInside == Spec => StaysInItsDirectory
<1>1. ListingInv /\ [Next]_vars =>
        [\A k \in objects \ objects' : doomed' # doomed =>
           DirectlyIn(server_dir, k) /\ IsRequestFile(k)]_vars
  BY OnlyOwnFilesGo
<1> QED
  BY <1>1, ListingInvariant, PTL DEF Spec, StaysInItsDirectory
=============================================================================
