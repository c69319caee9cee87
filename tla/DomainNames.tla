---------------------------- MODULE DomainNames -----------------------------
(***************************************************************************)
(* Text arguments and domain names: trimmed_string (src/cli/mod.rs) and    *)
(* DomainName::parse (src/config.rs).  A text is a sequence of characters, *)
(* one for each kind the code tells apart.                                 *)
(***************************************************************************)
EXTENDS Naturals, Sequences, FiniteSetsExt

CONSTANTS
  MaxName,     \* 253: the longest name
  MaxLabel,    \* 63: the longest label
  Rejected     \* the verdict on an argument that is not accepted

ASSUME NameAssumption ==
  /\ MaxName \in Nat \ {0}
  /\ MaxLabel \in Nat \ {0}

(* "A" stands for every character whose lower case is an ASCII letter. *)
Chars == {"a", "A", "0", "-", ".", "blank", "other"}

LowerCase(c) == IF c = "A" THEN "a" ELSE c

IsAlphanumeric(c) == c \in {"a", "A", "0"}

trim(s) ==
  LET solid == {i \in 1..Len(s) : s[i] # "blank"}
  IN  IF solid = {} THEN <<>> ELSE SubSeq(s, Min(solid), Max(solid))

to_lowercase(s) == [i \in 1..Len(s) |-> LowerCase(s[i])]

(* The value parser of every text argument. *)
trimmed_string(s) == IF trim(s) = <<>> THEN Rejected ELSE trim(s)

strip_suffix(s) ==
  IF s # <<>> /\ s[Len(s)] = "." THEN SubSeq(s, 1, Len(s) - 1) ELSE s

(* split('.'): n dots make n + 1 labels. *)
Cuts(s) == {0, Len(s) + 1} \cup {i \in 1..Len(s) : s[i] = "."}

Labels(s) ==
  {SubSeq(s, i + 1, Min({j \in Cuts(s) : j > i}) - 1) : i \in Cuts(s) \ {Len(s) + 1}}

LastLabel(s) == SubSeq(s, Max(Cuts(s) \ {Len(s) + 1}) + 1, Len(s))

(* Mutant: only the start of a label is looked at. *)
HyphenAtTheEnd(l) ==
  /\ Len(l) \in 1..MaxLabel
  /\ l[1] # "-"
  /\ \A i \in 1..Len(l) : IsAlphanumeric(l[i]) \/ l[i] = "-"

LabelAccepted(l) ==
  /\ Len(l) \in 1..MaxLabel
  /\ l[1] # "-"
  /\ l[Len(l)] # "-"
  /\ \A i \in 1..Len(l) : IsAlphanumeric(l[i]) \/ l[i] = "-"

(* DomainName::parse; the optional trailing dot stays in the name. *)
ParseDomain(arg) ==
  LET domain_name == to_lowercase(trim(arg))
      domain      == strip_suffix(domain_name)
      tld         == LastLabel(domain)
  IN  IF /\ Len(domain_name) \in 1..MaxName
         /\ \A l \in Labels(domain) : LabelAccepted(l)
         /\ \E i \in 1..Len(tld) : tld[i] # "0"
      THEN domain_name
      ELSE Rejected

-----------------------------------------------------------------------------
(***************************************************************************)
(* What a host name is, character by character and without splitting: the  *)
(* reference for ParseDomain.  Every letter, digit or hyphen that touches  *)
(* the start, the end or a dot is a letter or a digit; no two dots meet;   *)
(* a dot interrupts every run of MaxLabel + 1; what follows the last dot   *)
(* is not a number.                                                        *)
(***************************************************************************)
HostName(s) ==
  LET n == IF s # <<>> /\ s[Len(s)] = "." THEN Len(s) - 1 ELSE Len(s)
      inside == 1..n
      edge(i) == i = 1 \/ i = n \/ s[i - 1] = "." \/ s[i + 1] = "."
  IN  /\ n > 0 /\ Len(s) <= MaxName
      /\ \A i \in inside : s[i] \in {"a", "0", "-", "."}
      /\ \A i \in inside : edge(i) => s[i] \in {"a", "0", "."}
      /\ s[1] # "." /\ s[n] # "."
      /\ \A i \in 1..(n - 1) : s[i] # "." \/ s[i + 1] # "."
      /\ \A i \in 1..(n - MaxLabel) : \E j \in i..(i + MaxLabel) : s[j] = "."
      /\ \E i \in inside : s[i] \in {"a", "-"} /\ \A j \in i..n : s[j] # "."
=============================================================================
