---------------------------- MODULE DomainProofs ----------------------------
(***************************************************************************)
(* DomainName::parse accepts exactly the host names, for texts of every    *)
(* length and for every limit on names and labels.                         *)
(***************************************************************************)
EXTENDS DomainNames, SequenceTheorems, WellFoundedInduction, TLAPS

-----------------------------------------------------------------------------
(* Least and greatest elements *)

(* A set of naturals has the least element that Min answers.               *)
LEMMA MinIsLeast ==
  ASSUME NEW S \in SUBSET Nat, S # {}
  PROVE  Min(S) \in S /\ \A x \in S : Min(S) <= x
<1>1. PICK m \in S : \A x \in S : ~(<<x, m>> \in OpToRel(<, Nat))
  BY WFMin, NatLessThanWellFounded
<1>2. ASSUME NEW x \in S, x < m PROVE FALSE
  <2>1. <<x, m>> \in Nat \X Nat /\ <<x, m>>[1] < <<x, m>>[2]
    BY <1>2
  <2>2. <<x, m>> \in OpToRel(<, Nat)
    BY <2>1 DEF OpToRel
  <2>3. QED
    BY <1>1, <2>2
<1>3. \A x \in S : m <= x
  BY <1>2
<1>4. QED
  BY <1>3 DEF Min

(* A bounded one has the greatest element that Max answers.                *)
LEMMA MaxIsGreatest ==
  ASSUME NEW n \in Nat, NEW S \in SUBSET (0..n), S # {}
  PROVE  Max(S) \in S /\ \A x \in S : x <= Max(S)
<1> DEFINE T == {n - x : x \in S}
<1>1. \A x \in S : x \in 0..n /\ n - x \in Nat /\ n - x \in T
  OBVIOUS
<1>2. T \in SUBSET Nat /\ T # {}
  BY <1>1
<1> HIDE DEF T
<1>3. Min(T) \in T /\ \A y \in T : Min(T) <= y
  BY <1>2, MinIsLeast
<1>4. PICK m \in S : Min(T) = n - m
  BY <1>3 DEF T
<1>5. ASSUME NEW x \in S PROVE x <= m
  <2>1. n - m <= n - x
    BY <1>1, <1>3, <1>4
  <2>2. QED
    BY <1>1, <2>1
<1>6. \A x \in S : x <= m /\ m >= x
  BY <1>1, <1>5
<1>7. QED
  BY <1>1, <1>6 DEF Max

-----------------------------------------------------------------------------
(* Trimming and lower case *)

(* Neither end of a trimmed text is blank.                                 *)
Solid(s) == s # <<>> => s[1] # "blank" /\ s[Len(s)] # "blank"

(* A part of a text, by its length and its characters.                     *)
LEMMA PartOfText ==
  ASSUME NEW s \in Seq(Chars), NEW m \in 1..(Len(s) + 1), NEW n \in 0..Len(s),
         m <= n + 1
  PROVE  /\ SubSeq(s, m, n) \in Seq(Chars)
         /\ Len(SubSeq(s, m, n)) = n - m + 1
         /\ \A i \in 1..(n - m + 1) : SubSeq(s, m, n)[i] = s[m + i - 1]
<1>1. \A i \in m..n : s[i] \in Chars
  OBVIOUS
<1>2. QED
  BY <1>1, SubSeqProperties

(* trim cuts off the blanks at both ends.                                  *)
LEMMA TrimIsSolid ==
  ASSUME NEW s \in Seq(Chars)
  PROVE  trim(s) \in Seq(Chars) /\ Solid(trim(s))
<1> DEFINE solid == {i \in 1..Len(s) : s[i] # "blank"}
<1>1. CASE solid = {}
  BY <1>1 DEF trim, Solid
<1>2. CASE solid # {}
  <2>1. solid \in SUBSET (0..Len(s)) /\ solid \in SUBSET Nat /\ Len(s) \in Nat
    OBVIOUS
  <2>2. /\ Min(solid) \in solid /\ Max(solid) \in solid
        /\ Min(solid) <= Max(solid)
    BY <1>2, <2>1, MinIsLeast, MaxIsGreatest
  <2>3. trim(s) = SubSeq(s, Min(solid), Max(solid))
    BY <1>2 DEF trim
  <2> DEFINE a == Min(solid)
             b == Max(solid)
  <2>4. a \in 1..Len(s) /\ b \in 1..Len(s) /\ a <= b /\ s[a] # "blank" /\ s[b] # "blank"
    BY <2>2
  <2>5. trim(s) = SubSeq(s, a, b)
    BY <2>3
  <2> HIDE DEF a, b, solid
  <2>6. /\ trim(s) \in Seq(Chars)
        /\ Len(trim(s)) = b - a + 1
        /\ \A i \in 1..(b - a + 1) : trim(s)[i] = s[a + i - 1]
    BY <2>4, <2>5, PartOfText
  <2>7. trim(s)[1] = s[a] /\ trim(s)[Len(trim(s))] = s[b]
    BY <2>4, <2>6
  <2>8. QED
    BY <2>4, <2>6, <2>7 DEF Solid
<1>3. QED
  BY <1>1, <1>2

(* ... and does nothing to a text without them.                            *)
LEMMA TrimOfSolid ==
  ASSUME NEW s \in Seq(Chars), Solid(s)
  PROVE  trim(s) = s
<1> DEFINE solid == {i \in 1..Len(s) : s[i] # "blank"}
<1>1. CASE s = <<>>
  BY <1>1 DEF trim
<1>2. CASE s # <<>>
  <2>1. Len(s) \in Nat /\ Len(s) > 0
    BY <1>2
  <2>2. 1 \in solid /\ Len(s) \in solid
    BY <1>2, <2>1 DEF Solid
  <2>3. solid \in SUBSET (0..Len(s)) /\ solid \in SUBSET Nat /\ solid # {}
    BY <2>2
  <2>4. /\ Min(solid) \in solid /\ \A x \in solid : Min(solid) <= x
        /\ Max(solid) \in solid /\ \A x \in solid : x <= Max(solid)
    BY <2>1, <2>3, MinIsLeast, MaxIsGreatest
  <2>5. Min(solid) = 1 /\ Max(solid) = Len(s)
    BY <2>1, <2>2, <2>4
  <2>6. trim(s) = SubSeq(s, Min(solid), Max(solid))
    BY <2>3 DEF trim
  <2>7. SubSeq(s, 1, Len(s)) = s
    BY SubSeqFull
  <2>8. QED
    BY <2>5, <2>6, <2>7
<1>3. QED
  BY <1>1, <1>2

(* Lower case changes no length and no blank, and has no capitals.         *)
LEMMA LowerCaseText ==
  ASSUME NEW s \in Seq(Chars)
  PROVE  /\ to_lowercase(s) \in Seq(Chars \ {"A"})
         /\ to_lowercase(s) \in Seq(Chars)
         /\ Len(to_lowercase(s)) = Len(s)
         /\ to_lowercase(s) = <<>> <=> s = <<>>
         /\ Solid(s) => Solid(to_lowercase(s))
<1>1. \A i \in 1..Len(s) : LowerCase(s[i]) \in Chars \ {"A"}
  BY DEF LowerCase, Chars
<1>2. to_lowercase(s) \in Seq(Chars \ {"A"}) /\ to_lowercase(s) \in Seq(Chars)
  BY <1>1 DEF to_lowercase
<1>3. Len(to_lowercase(s)) = Len(s)
  BY DEF to_lowercase
<1>4. \A i \in 1..Len(s) : to_lowercase(s)[i] = LowerCase(s[i])
  BY DEF to_lowercase
<1>5. to_lowercase(s) = <<>> <=> s = <<>>
  BY <1>2, <1>3
<1>6. ASSUME Solid(s) PROVE Solid(to_lowercase(s))
  BY <1>3, <1>4, <1>5, <1>6 DEF Solid, LowerCase
<1>7. QED
  BY <1>2, <1>3, <1>5, <1>6

(* A text without capitals is its own lower case.                          *)
LEMMA LowerCaseOfLower ==
  ASSUME NEW s \in Seq(Chars \ {"A"})
  PROVE  to_lowercase(s) = s
<1>1. \A i \in 1..Len(s) : LowerCase(s[i]) = s[i]
  BY DEF LowerCase
<1>2. QED
  BY <1>1 DEF to_lowercase

-----------------------------------------------------------------------------
(* Labels *)

(* A label lies between two cuts that follow each other.                   *)
Cell(d, p, q) ==
  /\ p \in Cuts(d) /\ q \in Cuts(d) /\ p < q
  /\ \A j \in Cuts(d) : j <= p \/ q <= j

(* What LabelAccepted says of a label, in terms of the whole text.         *)
CellAccepted(d, p, q) ==
  /\ p + 1 < q /\ q <= p + 1 + MaxLabel
  /\ d[p + 1] # "-" /\ d[q - 1] # "-"
  /\ \A i \in (p + 1)..(q - 1) : IsAlphanumeric(d[i]) \/ d[i] = "-"

(* Where the cuts are.                                                     *)
LEMMA CutsOfText ==
  ASSUME NEW d \in Seq(Chars)
  PROVE  /\ Cuts(d) \in SUBSET (0..(Len(d) + 1))
         /\ Len(d) \in Nat /\ 0 \in Cuts(d) /\ Len(d) + 1 \in Cuts(d)
         /\ \A i \in 1..Len(d) : i \in Cuts(d) <=> d[i] = "."
BY DEF Cuts

(* Every cut but the last one starts a label.                              *)
LEMMA CellAfter ==
  ASSUME NEW d \in Seq(Chars), NEW p \in Cuts(d) \ {Len(d) + 1}
  PROVE  Cell(d, p, Min({j \in Cuts(d) : j > p}))
<1> DEFINE later == {j \in Cuts(d) : j > p}
<1>1. /\ Cuts(d) \in SUBSET (0..(Len(d) + 1)) /\ Len(d) \in Nat
      /\ Len(d) + 1 \in Cuts(d)
  BY CutsOfText
<1>2. p \in 0..Len(d)
  BY <1>1
<1>3. Len(d) + 1 \in later /\ later \in SUBSET Nat
  BY <1>1, <1>2
<1>4. Min(later) \in later /\ \A x \in later : Min(later) <= x
  BY <1>3, MinIsLeast
<1>5. QED
  BY <1>1, <1>2, <1>4 DEF Cell

(* The end of a label is the one that Labels computes.                     *)
LEMMA CellEnd ==
  ASSUME NEW d \in Seq(Chars), NEW p, NEW q, Cell(d, p, q)
  PROVE  /\ p \in Cuts(d) \ {Len(d) + 1} /\ p \in 0..Len(d) /\ q \in 1..(Len(d) + 1)
         /\ q = Min({j \in Cuts(d) : j > p})
<1>1. /\ Cuts(d) \in SUBSET (0..(Len(d) + 1)) /\ Len(d) \in Nat
  BY CutsOfText
<1>2. p \in 0..Len(d) /\ q \in 1..(Len(d) + 1) /\ p \in Cuts(d)
  BY <1>1 DEF Cell
<1>3. Cell(d, p, Min({j \in Cuts(d) : j > p}))
  BY <1>1, <1>2, CellAfter
<1> DEFINE m == Min({j \in Cuts(d) : j > p})
<1>4. Cell(d, p, m)
  BY <1>3
<1> HIDE DEF m
<1>5. q \in Int /\ m \in Int /\ p \in Int
  BY <1>1, <1>2, <1>4 DEF Cell
<1>6. q = m
  BY <1>4, <1>5 DEF Cell
<1>7. QED
  BY <1>1, <1>2, <1>6 DEF m

(* Every character that is no dot is inside a label.                       *)
LEMMA CellAround ==
  ASSUME NEW d \in Seq(Chars), NEW i \in 1..Len(d), d[i] # "."
  PROVE  \E p \in 0..(i - 1), q \in (i + 1)..(Len(d) + 1) : Cell(d, p, q)
<1> DEFINE before == {j \in Cuts(d) : j < i}
<1>1. /\ Cuts(d) \in SUBSET (0..(Len(d) + 1)) /\ Len(d) \in Nat /\ 0 \in Cuts(d)
      /\ i \notin Cuts(d)
  BY CutsOfText
<1>2. before \in SUBSET (0..(Len(d) + 1)) /\ 0 \in before /\ Len(d) + 1 \in Nat
  BY <1>1
<1> DEFINE p == Max(before)
<1>3. p \in before /\ \A x \in before : x <= p
  BY <1>2, MaxIsGreatest
<1> DEFINE q == Min({j \in Cuts(d) : j > p})
<1>4. p \in 0..(i - 1) /\ p \in Cuts(d)
  BY <1>1, <1>3
<1>5. \A x \in Cuts(d) : x < i => x <= p
  BY <1>3
<1> HIDE DEF p, before
<1>6. Cell(d, p, q)
  BY <1>1, <1>4, CellAfter
<1> HIDE DEF q
<1>7. q \in (i + 1)..(Len(d) + 1)
  BY <1>1, <1>4, <1>5, <1>6 DEF Cell
<1>8. QED
  BY <1>4, <1>6, <1>7

(* Every label is accepted just if every cell is.                          *)
LEMMA LabelsAreCells ==
  ASSUME NEW d \in Seq(Chars)
  PROVE  (\A l \in Labels(d) : LabelAccepted(l))
           <=> (\A p, q \in 0..(Len(d) + 1) : Cell(d, p, q) => CellAccepted(d, p, q))
<1>1. ASSUME NEW p, NEW q, Cell(d, p, q)
      PROVE  LabelAccepted(SubSeq(d, p + 1, q - 1)) <=> CellAccepted(d, p, q)
  <2>1. p \in 0..Len(d) /\ q \in 1..(Len(d) + 1) /\ p < q /\ Len(d) \in Nat
    <3>1. p \in 0..Len(d) /\ q \in 1..(Len(d) + 1)
      BY <1>1, CellEnd
    <3>2. p < q /\ Len(d) \in Nat
      BY <1>1 DEF Cell
    <3>3. QED
      BY <3>1, <3>2
  <2> DEFINE l == SubSeq(d, p + 1, q - 1)
  <2>2. /\ Len(l) = q - p - 1
        /\ \A i \in 1..(q - p - 1) : l[i] = d[p + i]
    <3>1. /\ Len(SubSeq(d, p + 1, q - 1)) = (q - 1) - (p + 1) + 1
          /\ \A i \in 1..((q - 1) - (p + 1) + 1) :
               SubSeq(d, p + 1, q - 1)[i] = d[(p + 1) + i - 1]
      BY <2>1, PartOfText
    <3>2. QED
      BY <2>1, <3>1
  <2> HIDE DEF l
  <2>3. MaxLabel \in Nat
    BY NameAssumption
  <2>4. Len(l) \in 1..MaxLabel <=> p + 1 < q /\ q <= p + 1 + MaxLabel
    BY <2>1, <2>2, <2>3
  <2>5. ASSUME p + 1 < q
        PROVE  l[1] = d[p + 1] /\ l[Len(l)] = d[q - 1]
    <3>1. 1 \in 1..(q - p - 1) /\ q - p - 1 \in 1..(q - p - 1) /\ p + (q - p - 1) = q - 1
      BY <2>1, <2>5
    <3>2. QED
      BY <2>2, <3>1
  <2>6. (\A i \in 1..Len(l) : IsAlphanumeric(l[i]) \/ l[i] = "-")
          <=> (\A i \in (p + 1)..(q - 1) : IsAlphanumeric(d[i]) \/ d[i] = "-")
    <3>1. ASSUME NEW i \in (p + 1)..(q - 1)
          PROVE  i - p \in 1..Len(l) /\ l[i - p] = d[i]
      BY <2>1, <2>2, <3>1
    <3>2. ASSUME NEW i \in 1..Len(l)
          PROVE  p + i \in (p + 1)..(q - 1) /\ l[i] = d[p + i]
      BY <2>1, <2>2, <3>2
    <3>3. QED
      BY <3>1, <3>2
  <2>7. QED
    BY <2>4, <2>5, <2>6 DEF LabelAccepted, CellAccepted, l
<1>2. ASSUME \A l \in Labels(d) : LabelAccepted(l), NEW p, NEW q, Cell(d, p, q)
      PROVE  CellAccepted(d, p, q)
  <2>1. p \in Cuts(d) \ {Len(d) + 1} /\ q = Min({j \in Cuts(d) : j > p})
    BY <1>2, CellEnd
  <2>2. SubSeq(d, p + 1, q - 1) \in Labels(d)
    BY <2>1 DEF Labels
  <2>3. QED
    BY <1>1, <1>2, <2>2
<1>3. ASSUME \A p, q \in 0..(Len(d) + 1) : Cell(d, p, q) => CellAccepted(d, p, q),
             NEW l \in Labels(d)
      PROVE  LabelAccepted(l)
  <2>1. PICK p \in Cuts(d) \ {Len(d) + 1} :
          l = SubSeq(d, p + 1, Min({j \in Cuts(d) : j > p}) - 1)
    BY DEF Labels
  <2> DEFINE q == Min({j \in Cuts(d) : j > p})
  <2>2. Cell(d, p, q) /\ l = SubSeq(d, p + 1, q - 1)
    BY <2>1, CellAfter
  <2> HIDE DEF q
  <2>3. p \in 0..(Len(d) + 1) /\ q \in 0..(Len(d) + 1)
    <3>1. p \in 0..Len(d) /\ q \in 1..(Len(d) + 1)
      BY <2>2, CellEnd
    <3>2. Len(d) \in Nat
      OBVIOUS
    <3>3. QED
      BY <3>1, <3>2
  <2>4. QED
    BY <1>1, <1>3, <2>2, <2>3
<1>4. QED
  BY <1>2, <1>3

-----------------------------------------------------------------------------
(* Host names *)

(* The characters a lower-case text is made of.                            *)
LowerChars == Chars \ {"A"}

(* HostName, of the text d without the optional trailing dot.              *)
PlainHostName(d) ==
  LET n == Len(d)
      edge(i) == i = 1 \/ i = n \/ d[i - 1] = "." \/ d[i + 1] = "."
  IN  /\ n > 0
      /\ \A i \in 1..n : d[i] \in {"a", "0", "-", "."}
      /\ \A i \in 1..n : edge(i) => d[i] \in {"a", "0", "."}
      /\ d[1] # "." /\ d[n] # "."
      /\ \A i \in 1..(n - 1) : d[i] # "." \/ d[i + 1] # "."
      /\ \A i \in 1..(n - MaxLabel) : \E j \in i..(i + MaxLabel) : d[j] = "."
      /\ \E i \in 1..n : d[i] \in {"a", "-"} /\ \A j \in i..n : d[j] # "."

(* The checks of DomainName::parse on it.                                  *)
PlainAccepted(d) ==
  /\ \A l \in Labels(d) : LabelAccepted(l)
  /\ \E i \in 1..Len(LastLabel(d)) : LastLabel(d)[i] # "0"

(* The last label is the cell that ends the text.                          *)
LEMMA LastCell ==
  ASSUME NEW d \in Seq(Chars)
  PROVE  \E m \in 0..Len(d) :
           /\ Cell(d, m, Len(d) + 1)
           /\ Len(LastLabel(d)) = Len(d) - m
           /\ \A i \in 1..(Len(d) - m) : LastLabel(d)[i] = d[m + i]
<1> DEFINE starts == Cuts(d) \ {Len(d) + 1}
           m == Max(starts)
<1>1. /\ Cuts(d) \in SUBSET (0..(Len(d) + 1)) /\ Len(d) \in Nat /\ 0 \in Cuts(d)
      /\ Len(d) + 1 \in Cuts(d)
  BY CutsOfText
<1>2. starts \in SUBSET (0..Len(d)) /\ 0 \in starts
  BY <1>1
<1>3. m \in starts /\ \A x \in starts : x <= m
  BY <1>1, <1>2, MaxIsGreatest
<1>4. LastLabel(d) = SubSeq(d, m + 1, Len(d))
  BY DEF LastLabel
<1>5. \A x \in Cuts(d) : x <= m \/ x = Len(d) + 1
  BY <1>3
<1>6. m \in 0..Len(d) /\ m \in Cuts(d)
  BY <1>2, <1>3
<1> HIDE DEF m, starts
<1>7. Cell(d, m, Len(d) + 1)
  BY <1>1, <1>5, <1>6 DEF Cell
<1>8. /\ Len(LastLabel(d)) = Len(d) - (m + 1) + 1
      /\ \A i \in 1..(Len(d) - (m + 1) + 1) : LastLabel(d)[i] = d[(m + 1) + i - 1]
  BY <1>1, <1>4, <1>6, PartOfText
<1>9. /\ Len(LastLabel(d)) = Len(d) - m
      /\ \A i \in 1..(Len(d) - m) : LastLabel(d)[i] = d[m + i]
  BY <1>1, <1>6, <1>8
<1>10. QED
  BY <1>6, <1>7, <1>9

(* What the checks on labels say about single characters.                  *)
LEMMA AcceptedIsHostName ==
  ASSUME NEW d \in Seq(LowerChars), d \in Seq(Chars), PlainAccepted(d)
  PROVE  PlainHostName(d)
<1> DEFINE n == Len(d)
<1>1. /\ Cuts(d) \in SUBSET (0..(n + 1)) /\ n \in Nat /\ 0 \in Cuts(d)
      /\ n + 1 \in Cuts(d) /\ \A i \in 1..n : i \in Cuts(d) <=> d[i] = "."
  BY CutsOfText
<1>2. MaxLabel \in Nat
  BY NameAssumption
<1>3. \A p, q \in 0..(n + 1) : Cell(d, p, q) => CellAccepted(d, p, q)
  BY LabelsAreCells DEF PlainAccepted
<1>4. ASSUME NEW p \in Cuts(d) \ {n + 1}
      PROVE  p + 1 \notin Cuts(d)
  <2>1. PICK q : Cell(d, p, q)
    BY CellAfter
  <2>2. p \in 0..n /\ q \in 1..(n + 1)
    BY <2>1, CellEnd
  <2>3. CellAccepted(d, p, q)
    BY <1>1, <1>3, <2>1, <2>2
  <2>4. QED
    BY <1>1, <2>1, <2>2, <2>3 DEF Cell, CellAccepted
<1>5. n > 0
  BY <1>1, <1>4
<1>6. d[1] # "." /\ d[n] # "."
  <2>1. 1 \notin Cuts(d)
    <3>1. 0 \in Cuts(d) \ {n + 1} /\ 0 + 1 = 1
      BY <1>1
    <3>2. QED
      BY <1>4, <3>1
  <2>2. n \notin Cuts(d)
    <3>1. n # n + 1 /\ n + 1 \in Cuts(d)
      BY <1>1
    <3>2. QED
      BY <1>4, <3>1
  <2>3. QED
    BY <1>1, <1>5, <2>1, <2>2
<1>7. ASSUME NEW i \in 1..(n - 1), d[i] = "." PROVE d[i + 1] # "."
  <2>1. i \in 1..n /\ i + 1 \in 1..n /\ i # n + 1
    BY <1>1
  <2>2. i \in Cuts(d) \ {n + 1}
    BY <1>1, <1>7, <2>1
  <2>3. i + 1 \notin Cuts(d)
    BY <1>4, <2>2
  <2>4. QED
    BY <1>1, <2>1, <2>3
<1>8. ASSUME NEW i \in 1..n, d[i] # "."
      PROVE  \E p \in 0..(i - 1), q \in (i + 1)..(n + 1) :
               Cell(d, p, q) /\ CellAccepted(d, p, q)
  <2>1. PICK p \in 0..(i - 1), q \in (i + 1)..(n + 1) : Cell(d, p, q)
    BY <1>8, CellAround
  <2>2. p \in 0..(n + 1) /\ q \in 0..(n + 1)
    BY <1>1
  <2>3. QED
    BY <1>3, <2>1, <2>2
<1> HIDE DEF n
<1>9. ASSUME NEW i \in 1..n PROVE d[i] \in {"a", "0", "-", "."}
  <2>1. d[i] \in LowerChars
    BY DEF n
  <2>2. CASE d[i] # "."
    <3>1. PICK p \in 0..(i - 1), q \in (i + 1)..(n + 1) : CellAccepted(d, p, q)
      BY <1>8, <2>2
    <3>2. i \in (p + 1)..(q - 1)
      BY <1>1
    <3>3. IsAlphanumeric(d[i]) \/ d[i] = "-"
      BY <3>1, <3>2 DEF CellAccepted
    <3>4. QED
      BY <2>1, <3>3 DEF IsAlphanumeric, LowerChars
  <2>3. QED
    BY <2>2
<1>10. ASSUME NEW i \in 1..n,
              i = 1 \/ i = n \/ d[i - 1] = "." \/ d[i + 1] = "."
       PROVE  d[i] \in {"a", "0", "."}
  <2>1. SUFFICES ASSUME d[i] = "-" PROVE FALSE
    BY <1>9
  <2>2. PICK p \in 0..(i - 1), q \in (i + 1)..(n + 1) :
          Cell(d, p, q) /\ CellAccepted(d, p, q)
    BY <1>8, <2>1
  <2>3. d[p + 1] # "-" /\ d[q - 1] # "-" /\ \A j \in Cuts(d) : j <= p \/ q <= j
    BY <2>2 DEF Cell, CellAccepted
  <2>4. p + 1 # i /\ q - 1 # i
    BY <2>1, <2>3
  <2>5. i - 1 \notin Cuts(d) /\ i + 1 \notin Cuts(d)
    BY <1>1, <2>3, <2>4
  <2>6. QED
    BY <1>1, <1>10, <2>5
<1>11. ASSUME NEW i \in 1..(n - MaxLabel)
       PROVE  \E j \in i..(i + MaxLabel) : d[j] = "."
  <2>1. SUFFICES ASSUME \A j \in i..(i + MaxLabel) : d[j] # "." PROVE FALSE
    OBVIOUS
  <2>2. i \in 1..n /\ i \in i..(i + MaxLabel) /\ i + MaxLabel <= n
    BY <1>1, <1>2
  <2>3. PICK p \in 0..(i - 1), q \in (i + 1)..(n + 1) :
          Cell(d, p, q) /\ CellAccepted(d, p, q)
    BY <1>8, <2>1, <2>2
  <2>4. q \in Cuts(d) /\ q <= p + 1 + MaxLabel
    BY <2>3 DEF Cell, CellAccepted
  <2>5. q \in i..(i + MaxLabel)
    BY <1>1, <1>2, <2>2, <2>4
  <2>6. d[q] = "."
    BY <1>1, <1>2, <2>2, <2>4, <2>5
  <2>7. QED
    BY <2>1, <2>5, <2>6
<1>12. \E i \in 1..n : d[i] \in {"a", "-"} /\ \A j \in i..n : d[j] # "."
  <2>1. PICK m \in 0..n : /\ Cell(d, m, n + 1)
                          /\ Len(LastLabel(d)) = n - m
                          /\ \A i \in 1..(n - m) : LastLabel(d)[i] = d[m + i]
    BY LastCell DEF n
  <2>2. PICK i \in 1..(n - m) : d[m + i] # "0"
    BY <2>1 DEF PlainAccepted
  <2>3. \A j \in (m + i)..n : d[j] # "."
    BY <1>1, <2>1, <2>2 DEF Cell
  <2>4. m + i \in 1..n /\ m + i \in (m + i)..n
    BY <1>1, <2>1, <2>2
  <2>5. d[m + i] \in {"a", "-"}
    BY <1>9, <2>2, <2>3, <2>4
  <2>6. QED
    BY <2>3, <2>4, <2>5
<1>13. QED
  BY <1>5, <1>6, <1>7, <1>9, <1>10, <1>11, <1>12 DEF PlainHostName, n

(* ... and the other way round.                                            *)
LEMMA HostNameIsAccepted ==
  ASSUME NEW d \in Seq(Chars), PlainHostName(d)
  PROVE  PlainAccepted(d)
<1> DEFINE n == Len(d)
           edge(i) == i = 1 \/ i = n \/ d[i - 1] = "." \/ d[i + 1] = "."
<1>1. /\ Cuts(d) \in SUBSET (0..(n + 1)) /\ n \in Nat /\ 0 \in Cuts(d)
      /\ n + 1 \in Cuts(d) /\ \A i \in 1..n : i \in Cuts(d) <=> d[i] = "."
  BY CutsOfText
<1>2. MaxLabel \in Nat
  BY NameAssumption
<1>3. /\ n > 0
      /\ \A i \in 1..n : d[i] \in {"a", "0", "-", "."}
      /\ \A i \in 1..n : edge(i) => d[i] \in {"a", "0", "."}
      /\ d[1] # "." /\ d[n] # "."
      /\ \A i \in 1..(n - 1) : d[i] # "." \/ d[i + 1] # "."
      /\ \A i \in 1..(n - MaxLabel) : \E j \in i..(i + MaxLabel) : d[j] = "."
      /\ \E i \in 1..n : d[i] \in {"a", "-"} /\ \A j \in i..n : d[j] # "."
  BY DEF PlainHostName
<1>4. ASSUME NEW p \in 0..(n + 1), NEW q \in 0..(n + 1), Cell(d, p, q)
      PROVE  CellAccepted(d, p, q)
  <2>1. /\ p \in Cuts(d) /\ q \in Cuts(d) /\ p < q
        /\ \A j \in Cuts(d) : j <= p \/ q <= j
    BY <1>4 DEF Cell
  <2>2. p \in 0..n /\ q \in 1..(n + 1)
    BY <1>1, <2>1
  <2>3. p = 0 \/ (p \in 1..n /\ d[p] = ".")
    BY <1>1, <2>1, <2>2
  <2>4. q = n + 1 \/ (q \in 1..n /\ d[q] = ".")
    BY <1>1, <2>1, <2>2
  <2> HIDE DEF n
  <2>5. p + 1 < q
    <3>1. SUFFICES ASSUME q = p + 1 PROVE FALSE
      BY <1>1, <2>1, <2>2
    <3>2. CASE p = 0
      BY <1>1, <1>3, <2>4, <3>1, <3>2
    <3>3. CASE p \in 1..n /\ d[p] = "."
      <4>1. CASE q = n + 1
        BY <1>1, <1>3, <3>1, <3>3, <4>1
      <4>2. CASE q \in 1..n /\ d[q] = "."
        BY <1>1, <1>3, <3>1, <3>3, <4>2
      <4>3. QED
        BY <2>4, <4>1, <4>2
    <3>4. QED
      BY <2>3, <3>2, <3>3
  <2>6. \A i \in (p + 1)..(q - 1) : i \in 1..n /\ d[i] # "."
    BY <1>1, <2>1, <2>2
  <2>7. q <= p + 1 + MaxLabel
    <3>1. SUFFICES ASSUME q > p + 1 + MaxLabel PROVE FALSE
      BY <1>1, <1>2, <2>2
    <3>2. p + 1 \in 1..(n - MaxLabel)
      BY <1>1, <1>2, <2>2, <3>1
    <3>3. PICK j \in (p + 1)..(p + 1 + MaxLabel) : d[j] = "."
      BY <1>3, <3>2
    <3>4. j \in (p + 1)..(q - 1)
      BY <1>1, <1>2, <2>2, <3>1
    <3>5. QED
      BY <2>6, <3>3, <3>4
  <2>8. p + 1 \in 1..n /\ q - 1 \in 1..n
    BY <1>1, <2>2, <2>5
  <2>9. edge(p + 1) /\ edge(q - 1)
    <3>1. (p + 1) - 1 = p /\ (q - 1) + 1 = q
      BY <1>1, <2>2
    <3>2. edge(p + 1)
      BY <1>1, <2>3, <3>1
    <3>3. edge(q - 1)
      BY <1>1, <2>4, <3>1
    <3>4. QED
      BY <3>2, <3>3
  <2>10. d[p + 1] # "-" /\ d[q - 1] # "-"
    BY <1>3, <2>8, <2>9
  <2>11. \A i \in (p + 1)..(q - 1) : IsAlphanumeric(d[i]) \/ d[i] = "-"
    BY <1>3, <2>6 DEF IsAlphanumeric
  <2>12. QED
    BY <2>5, <2>7, <2>10, <2>11 DEF CellAccepted
<1>5. \A l \in Labels(d) : LabelAccepted(l)
  BY <1>4, LabelsAreCells
<1>6. \E i \in 1..Len(LastLabel(d)) : LastLabel(d)[i] # "0"
  <2>1. PICK m \in 0..n : /\ Cell(d, m, n + 1)
                          /\ Len(LastLabel(d)) = n - m
                          /\ \A i \in 1..(n - m) : LastLabel(d)[i] = d[m + i]
    BY LastCell
  <2>2. PICK i \in 1..n : d[i] \in {"a", "-"} /\ \A j \in i..n : d[j] # "."
    BY <1>3
  <2> HIDE DEF n
  <2>3. m \in Cuts(d)
    BY <2>1 DEF Cell
  <2>4. m < i
    BY <1>1, <2>1, <2>2, <2>3
  <2>5. i - m \in 1..(n - m) /\ m + (i - m) = i
    BY <1>1, <2>1, <2>2, <2>4
  <2>6. LastLabel(d)[i - m] = d[i]
    BY <2>1, <2>5
  <2>7. QED
    BY <2>1, <2>2, <2>5, <2>6
<1>7. QED
  BY <1>5, <1>6 DEF PlainAccepted

(* HostName looks past the optional trailing dot.                          *)
LEMMA HostNameOfStripped ==
  ASSUME NEW s \in Seq(LowerChars), s \in Seq(Chars)
  PROVE  /\ strip_suffix(s) \in Seq(LowerChars) /\ strip_suffix(s) \in Seq(Chars)
         /\ HostName(s) <=> Len(s) <= MaxName /\ PlainHostName(strip_suffix(s))
<1> DEFINE d == strip_suffix(s)
           n == IF s # <<>> /\ s[Len(s)] = "." THEN Len(s) - 1 ELSE Len(s)
<1>1. Len(s) \in Nat /\ (s # <<>> => Len(s) > 0)
  OBVIOUS
<1>2. n \in 0..Len(s) /\ n \in Nat
  BY <1>1
<1>3. d \in Seq(LowerChars) /\ d \in Seq(Chars) /\ Len(d) = n /\ \A i \in 1..n : d[i] = s[i]
  <2>1. CASE s # <<>> /\ s[Len(s)] = "."
    <3>1. d = SubSeq(s, 1, Len(s) - 1)
      BY <2>1 DEF strip_suffix
    <3>2. \A i \in 1..(Len(s) - 1) : s[i] \in LowerChars
      BY <1>1
    <3>3. d \in Seq(LowerChars)
      BY <1>1, <3>1, <3>2, SubSeqProperties
    <3>4. /\ SubSeq(s, 1, Len(s) - 1) \in Seq(Chars)
          /\ Len(SubSeq(s, 1, Len(s) - 1)) = (Len(s) - 1) - 1 + 1
          /\ \A i \in 1..((Len(s) - 1) - 1 + 1) :
               SubSeq(s, 1, Len(s) - 1)[i] = s[1 + i - 1]
      <4>1. 1 \in 1..(Len(s) + 1) /\ Len(s) - 1 \in 0..Len(s) /\ 1 <= (Len(s) - 1) + 1
        BY <1>1, <2>1
      <4>2. QED
        BY <4>1, PartOfText
    <3>5. QED
      BY <1>1, <2>1, <3>1, <3>3, <3>4
  <2>2. CASE ~(s # <<>> /\ s[Len(s)] = ".")
    BY <2>2 DEF strip_suffix
  <2>3. QED
    BY <2>1, <2>2
<1> DEFINE edge(t, i) == i = 1 \/ i = n \/ t[i - 1] = "." \/ t[i + 1] = "."
           Shape(t) ==
             /\ n > 0
             /\ \A i \in 1..n : t[i] \in {"a", "0", "-", "."}
             /\ \A i \in 1..n : edge(t, i) => t[i] \in {"a", "0", "."}
             /\ t[1] # "." /\ t[n] # "."
             /\ \A i \in 1..(n - 1) : t[i] # "." \/ t[i + 1] # "."
             /\ \A i \in 1..(n - MaxLabel) : \E j \in i..(i + MaxLabel) : t[j] = "."
             /\ \E i \in 1..n : t[i] \in {"a", "-"} /\ \A j \in i..n : t[j] # "."
<1>4. HostName(s) <=> Len(s) <= MaxName /\ Shape(s)
  BY DEF HostName
<1>5. PlainHostName(d) <=> Shape(d)
  BY <1>3 DEF PlainHostName
<1> HIDE DEF n, d
<1>6. ASSUME NEW t, NEW u, \A i \in 1..n : t[i] = u[i], Shape(t)
      PROVE  Shape(u)
  <2>1. MaxLabel \in Nat
    BY NameAssumption
  <2>2. n > 0 /\ u[1] # "." /\ u[n] # "."
    BY <1>2, <1>6
  <2>3. \A i \in 1..n : u[i] \in {"a", "0", "-", "."}
    BY <1>6
  <2>4. ASSUME NEW i \in 1..n, edge(u, i) PROVE u[i] \in {"a", "0", "."}
    <3>1. i # 1 => i - 1 \in 1..n
      BY <1>2
    <3>2. i # n => i + 1 \in 1..n
      BY <1>2
    <3>3. edge(t, i)
      BY <1>6, <2>4, <3>1, <3>2
    <3>4. QED
      BY <1>6, <3>3
  <2>5. ASSUME NEW i \in 1..(n - 1) PROVE u[i] # "." \/ u[i + 1] # "."
    <3>1. i \in 1..n /\ i + 1 \in 1..n
      BY <1>2
    <3>2. QED
      BY <1>6, <3>1
  <2>6. ASSUME NEW i \in 1..(n - MaxLabel) PROVE \E j \in i..(i + MaxLabel) : u[j] = "."
    <3>1. PICK j \in i..(i + MaxLabel) : t[j] = "."
      BY <1>6
    <3>2. j \in 1..n
      BY <1>2, <2>1
    <3>3. QED
      BY <1>6, <3>1, <3>2
  <2>7. \E i \in 1..n : u[i] \in {"a", "-"} /\ \A j \in i..n : u[j] # "."
    <3>1. PICK i \in 1..n : t[i] \in {"a", "-"} /\ \A j \in i..n : t[j] # "."
      BY <1>6
    <3>2. \A j \in i..n : j \in 1..n
      BY <1>2
    <3>3. QED
      BY <1>6, <3>1, <3>2
  <2>8. QED
    BY <2>2, <2>3, <2>4, <2>5, <2>6, <2>7
<1>7. \A i \in 1..n : d[i] = s[i] /\ s[i] = d[i]
  BY <1>3
<1>8. Shape(d) => Shape(s)
  BY <1>6, <1>7
<1>9. Shape(s) => Shape(d)
  BY <1>6, <1>7
<1> HIDE DEF Shape
<1>10. QED
  BY <1>3, <1>4, <1>5, <1>8, <1>9 DEF d

(* A host name has a character.                                            *)
LEMMA HostNameNotEmpty ==
  ASSUME NEW s \in Seq(LowerChars), s \in Seq(Chars), HostName(s)
  PROVE  s # <<>>
BY DEF HostName

(***************************************************************************)
(* DomainName::parse is exact: it accepts a text, with blanks around it    *)
(* and in any case, just if it is a host name, and answers it in lower     *)
(* case.  Splitting into labels and checking each of them is the same as   *)
(* the description of host names character by character.                   *)
(***************************************************************************)
THEOREM ParseIsExact ==
  ASSUME NEW arg \in Seq(Chars)
  PROVE  LET plain == to_lowercase(trim(arg))
         IN  ParseDomain(arg) = IF HostName(plain) THEN plain ELSE Rejected
<1> DEFINE plain == to_lowercase(trim(arg))
           d == strip_suffix(plain)
<1>1. plain \in Seq(LowerChars) /\ plain \in Seq(Chars)
  BY TrimIsSolid, LowerCaseText DEF LowerChars
<1> HIDE DEF plain
<1>2. d \in Seq(LowerChars) /\ d \in Seq(Chars)
  BY <1>1, HostNameOfStripped
<1>3. HostName(plain) <=> Len(plain) <= MaxName /\ PlainHostName(d)
  BY <1>1, HostNameOfStripped
<1> HIDE DEF d
<1>4. PlainHostName(d) <=> PlainAccepted(d)
  BY <1>2, AcceptedIsHostName, HostNameIsAccepted
<1>5. HostName(plain) => plain # <<>>
  BY <1>1, HostNameNotEmpty
<1>6. HostName(plain) <=> Len(plain) \in 1..MaxName /\ PlainAccepted(d)
  BY <1>1, <1>3, <1>4, <1>5, NameAssumption
<1>7. ParseDomain(arg) = IF Len(plain) \in 1..MaxName /\ PlainAccepted(d)
                         THEN plain ELSE Rejected
  BY DEF ParseDomain, PlainAccepted, plain, d
<1>8. QED
  BY <1>6, <1>7 DEF plain

(* A text once trimmed and lowered stays as it is.                         *)
LEMMA PlainIsPlain ==
  ASSUME NEW arg \in Seq(Chars)
  PROVE  LET plain == to_lowercase(trim(arg))
         IN  /\ plain \in Seq(Chars)
             /\ to_lowercase(trim(plain)) = plain
             /\ to_lowercase(trim(trim(arg))) = plain
             /\ trim(arg) \in Seq(Chars)
             /\ trim(arg) = <<>> => ~HostName(plain)
<1>1. trim(arg) \in Seq(Chars) /\ Solid(trim(arg))
  BY TrimIsSolid
<1>2. trim(trim(arg)) = trim(arg)
  BY <1>1, TrimOfSolid
<1> DEFINE plain == to_lowercase(trim(arg))
<1>3. /\ plain \in Seq(LowerChars) /\ plain \in Seq(Chars) /\ Solid(plain)
      /\ plain = <<>> <=> trim(arg) = <<>>
  BY <1>1, LowerCaseText DEF LowerChars
<1> HIDE DEF plain
<1>4. trim(plain) = plain
  BY <1>3, TrimOfSolid
<1>5. to_lowercase(plain) = plain
  BY <1>3, LowerCaseOfLower DEF LowerChars
<1>6. trim(arg) = <<>> => ~HostName(plain)
  BY <1>3, HostNameNotEmpty
<1>7. QED
  BY <1>1, <1>2, <1>3, <1>4, <1>5, <1>6 DEF plain
=============================================================================
