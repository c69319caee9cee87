----------------------------- MODULE WireProofs -----------------------------
(***************************************************************************)
(* What the server writes for Route 53 is what the service reads: the XML  *)
(* escape loses nothing, for names of every length and content.            *)
(***************************************************************************)
EXTENDS Route53Request, DomainProofs
LOCAL INSTANCE SequencesExt

-----------------------------------------------------------------------------
(* Induction up to n, for a set: what holds of 0 and passes from each      *)
(* number to the next holds of all.                                        *)
LEMMA UpTo ==
  ASSUME NEW n \in Nat, NEW S, 0 \in S, \A i \in 1..n : i - 1 \in S => i \in S
  PROVE  0..n \subseteq S
<1> DEFINE B == (0..n) \ S
<1>1. SUFFICES ASSUME B # {} PROVE FALSE
  OBVIOUS
<1>2. B \in SUBSET Nat
  OBVIOUS
<1>3. Min(B) \in B /\ \A x \in B : Min(B) <= x
  <2> HIDE DEF B
  <2> QED
    BY <1>1, <1>2, MinIsLeast
<1>4. PICK m \in B : \A x \in B : m <= x
  BY <1>3
<1>5. m \in 1..n /\ m \notin S /\ m - 1 \in 0..n
  OBVIOUS
<1>6. m - 1 \in B
  BY <1>5
<1>7. QED
  BY <1>4, <1>5, <1>6

(* FlattenSeq is the last of the partial concatenations, each of which     *)
(* appends one part to the one before.                                     *)
Joined(a, b) == a \o b

Partial(parts, n, F) ==
  /\ F[0] = <<>>
  /\ \A i \in 1..n : F[i] = Joined(F[i - 1], parts[i])

LEMMA PartialExists ==
  ASSUME NEW parts, NEW n \in Nat
  PROVE  \E F : F = [i \in 0..n |-> F[i]] /\ Partial(parts, n, F)
<1> DEFINE P(m, F) == F = [i \in 0..m |-> F[i]] /\ Partial(parts, m, F)
           S == {m \in 0..n : \E F : P(m, F)}
<1>1. 0 \in S
  <2>1. P(0, [i \in 0..0 |-> <<>>])
    BY DEF Partial
  <2> HIDE DEF P
  <2>2. \E F : P(0, F)
    BY <2>1
  <2>3. QED
    BY <2>2
<1>2. ASSUME NEW m \in 1..n, m - 1 \in S PROVE m \in S
  <2>1. PICK F : P(m - 1, F)
    BY <1>2
  <2>2. PICK last : last = Joined(F[m - 1], parts[m])
    OBVIOUS
  <2> DEFINE G == [i \in 0..m |-> IF i = m THEN last ELSE F[i]]
  <2>3. /\ \A i \in 0..(m - 1) : G[i] = F[i]
        /\ G[m] = last
    OBVIOUS
  <2>10. G = [i \in 0..m |-> G[i]]
    OBVIOUS
  <2> HIDE DEF G
  <2>4. F[0] = <<>> /\ \A i \in 1..(m - 1) : F[i] = Joined(F[i - 1], parts[i])
    BY <2>1 DEF Partial
  <2>5. ASSUME NEW i \in 1..m PROVE G[i] = Joined(G[i - 1], parts[i])
    <3>1. i - 1 \in 0..(m - 1) /\ (i = m \/ (i \in 1..(m - 1) /\ i \in 0..(m - 1)))
      OBVIOUS
    <3>2. CASE i = m
      BY <2>2, <2>3, <3>1, <3>2
    <3>3. CASE i \in 1..(m - 1)
      <4>1. G[i] = F[i] /\ G[i - 1] = F[i - 1]
        BY <2>3, <3>1, <3>3
      <4>2. F[i] = Joined(F[i - 1], parts[i])
        BY <2>4, <3>3
      <4>3. QED
        BY <4>1, <4>2
    <3>4. QED
      BY <3>1, <3>2, <3>3
  <2>6. G[0] = <<>>
    <3>1. 0 \in 0..(m - 1)
      OBVIOUS
    <3>2. QED
      BY <2>3, <2>4, <3>1
  <2>7. P(m, G)
    BY <2>10, <2>5, <2>6 DEF Partial
  <2> HIDE DEF P
  <2>8. \E H : P(m, H)
    BY <2>7
  <2>9. QED
    BY <2>8
<1> HIDE DEF S
<1>3. n \in S
  <2>1. 0..n \subseteq S
    BY <1>1, <1>2, UpTo
  <2>2. QED
    BY <2>1
<1>4. QED
  BY <1>3 DEF S

LEMMA FlattenIsPartial ==
  ASSUME NEW T, NEW parts \in Seq(Seq(T))
  PROVE  \E F : Partial(parts, Len(parts), F) /\ FlattenSeq(parts) = F[Len(parts)]
<1> DEFINE n == Len(parts)
<1>1. n \in Nat /\ \A i \in 1..n : parts[i] \in Seq(T)
  OBVIOUS
<1>2. PICK F : Partial(parts, n, F)
  BY <1>1, PartialExists
<1>3. CASE n = 0
  <2>1. FlattenSeq(parts) = <<>>
    BY <1>3 DEF FlattenSeq
  <2>2. F[n] = <<>>
    BY <1>2, <1>3 DEF Partial
  <2>3. QED
    BY <1>2, <2>1, <2>2
<1>4. CASE n # 0
  <2> DEFINE Rec(f) == [i \in 1..n |-> IF i = 1 THEN parts[i] ELSE f[i - 1] \o parts[i]]
             f == CHOOSE f : f = Rec(f)
             G == [i \in 1..n |-> F[i]]
             S == {i \in 0..n : i > 0 => f[i] = F[i]}
  <2>1. F[0] = <<>> /\ \A i \in 1..n : F[i] = Joined(F[i - 1], parts[i])
    BY <1>2 DEF Partial
  <2>2. F[1] = parts[1]
    <3>1. 1 \in 1..n /\ 1 - 1 = 0
      BY <1>1, <1>4
    <3>2. F[1] = Joined(<<>>, parts[1]) /\ parts[1] \in Seq(T)
      BY <1>1, <2>1, <3>1
    <3>3. QED
      BY <3>2, ConcatEmptySeq DEF Joined
  <2>3. \A i \in 1..n : G[i] = IF i = 1 THEN parts[i] ELSE Joined(G[i - 1], parts[i])
    <3>1. \A i \in 1..n : G[i] = F[i]
      OBVIOUS
    <3> HIDE DEF G
    <3>2. \A i \in 1..n : i = 1 \/ i - 1 \in 1..n
      BY <1>1
    <3>3. QED
      BY <2>1, <2>2, <3>1, <3>2
  <2>4. G = Rec(G)
    BY <2>3 DEF Joined
  <2>5. f = Rec(f)
    BY <2>4
  <2>6. FlattenSeq(parts) = f[n]
    BY <1>4 DEF FlattenSeq
  <2>7. \A i \in 1..n : f[i] = IF i = 1 THEN parts[i] ELSE Joined(f[i - 1], parts[i])
    BY <2>5 DEF Joined
  <2> HIDE DEF f, G
  <2>8. 0 \in S
    BY <1>1
  <2>9. ASSUME NEW i \in 1..n, i - 1 \in S PROVE i \in S
    <3>1. i = 1 \/ (i - 1 \in 1..n /\ i - 1 > 0)
      BY <1>1
    <3>2. CASE i = 1
      BY <1>1, <2>2, <2>7, <3>2
    <3>3. CASE i # 1
      BY <2>1, <2>7, <2>9, <3>1, <3>3
    <3>4. QED
      BY <3>2, <3>3
  <2> HIDE DEF S
  <2>10. 0..n \subseteq S
    BY <1>1, <2>8, <2>9, UpTo
  <2>11. n \in S /\ n > 0
    <3>1. n \in 0..n /\ n > 0
      BY <1>1, <1>4
    <3>2. QED
      BY <2>10, <3>1
  <2>12. f[n] = F[n]
    BY <2>11 DEF S
  <2>13. QED
    BY <1>2, <2>6, <2>12
<1>5. QED
  BY <1>3, <1>4

(* A concatenation, by its length and its elements.                        *)
IsJoin(c, a, b) ==
  /\ Len(c) = Len(a) + Len(b)
  /\ \A j \in 1..Len(a) : c[j] = a[j]
  /\ \A j \in 1..Len(b) : c[Len(a) + j] = b[j]

LEMMA JoinedFacts ==
  ASSUME NEW T, NEW a \in Seq(T), NEW b \in Seq(T)
  PROVE  Joined(a, b) \in Seq(T) /\ IsJoin(Joined(a, b), a, b)
<1>1. /\ Joined(a, b) \in Seq(T)
      /\ Len(Joined(a, b)) = Len(a) + Len(b)
      /\ \A j \in 1..(Len(a) + Len(b)) :
           Joined(a, b)[j] = IF j <= Len(a) THEN a[j] ELSE b[j - Len(a)]
  BY ConcatProperties DEF Joined
<1>2. Len(a) \in Nat /\ Len(b) \in Nat
  OBVIOUS
<1>3. ASSUME NEW j \in 1..Len(a) PROVE Joined(a, b)[j] = a[j]
  BY <1>1, <1>2
<1>4. ASSUME NEW j \in 1..Len(b) PROVE Joined(a, b)[Len(a) + j] = b[j]
  <2>1. Len(a) + j \in 1..(Len(a) + Len(b)) /\ ~(Len(a) + j <= Len(a))
        /\ (Len(a) + j) - Len(a) = j
    BY <1>2
  <2>2. QED
    BY <1>1, <2>1
<1>5. QED
  BY <1>1, <1>3, <1>4 DEF IsJoin

(* Every partial concatenation is a sequence and a prefix of the last one. *)
LEMMA PartialTypes ==
  ASSUME NEW T, NEW n \in Nat, NEW parts, \A i \in 1..n : parts[i] \in Seq(T),
         NEW F, Partial(parts, n, F)
  PROVE  \A i \in 0..n : F[i] \in Seq(T)
<1> DEFINE S == {i \in 0..n : F[i] \in Seq(T)}
<1>1. F[0] = <<>> /\ \A i \in 1..n : F[i] = Joined(F[i - 1], parts[i])
  BY DEF Partial
<1>2. 0 \in S
  <2>1. 0 \in 0..n /\ <<>> \in Seq(T)
    OBVIOUS
  <2>2. QED
    BY <1>1, <2>1
<1>3. ASSUME NEW i \in 1..n, i - 1 \in S PROVE i \in S
  <2>1. F[i - 1] \in Seq(T) /\ parts[i] \in Seq(T) /\ i \in 0..n
    BY <1>3
  <2>2. Joined(F[i - 1], parts[i]) \in Seq(T)
    BY <2>1, JoinedFacts
  <2>3. QED
    BY <1>1, <2>1, <2>2
<1> HIDE DEF S
<1>4. 0..n \subseteq S
  BY <1>2, <1>3, UpTo
<1>5. QED
  BY <1>4 DEF S

LEMMA PartialGrows ==
  ASSUME NEW T, NEW n \in Nat, NEW parts, \A i \in 1..n : parts[i] \in Seq(T),
         NEW F, Partial(parts, n, F)
  PROVE  \A i \in 1..n : IsJoin(F[i], F[i - 1], parts[i])
<1>1. \A i \in 0..n : F[i] \in Seq(T)
  BY PartialTypes
<1>2. ASSUME NEW i \in 1..n PROVE IsJoin(F[i], F[i - 1], parts[i])
  <2>1. F[i - 1] \in Seq(T) /\ parts[i] \in Seq(T)
    BY <1>1
  <2>2. IsJoin(Joined(F[i - 1], parts[i]), F[i - 1], parts[i])
    BY <2>1, JoinedFacts
  <2>3. F[i] = Joined(F[i - 1], parts[i])
    BY DEF Partial
  <2>4. QED
    BY <2>2, <2>3
<1>3. QED
  BY <1>2

LEMMA PartialIsPrefix ==
  ASSUME NEW T, NEW n \in Nat, NEW parts, \A i \in 1..n : parts[i] \in Seq(T),
         NEW F, Partial(parts, n, F), NEW i \in 0..n
  PROVE  Len(F[i]) <= Len(F[n]) /\ \A j \in 1..Len(F[i]) : F[n][j] = F[i][j]
<1> DEFINE Q(k) == Len(F[i]) <= Len(F[k]) /\ \A j \in 1..Len(F[i]) : F[k][j] = F[i][j]
           S == {k \in 0..n : i <= k => Q(k)}
<1>1. \A k \in 0..n : F[k] \in Seq(T) /\ Len(F[k]) \in Nat
  <2>1. \A k \in 0..n : F[k] \in Seq(T)
    BY PartialTypes
  <2>2. QED
    BY <2>1
<1>2. 0 \in S
  <2>1. 0 \in 0..n /\ (i <= 0 => i = 0) /\ Len(F[i]) \in Nat
    BY <1>1
  <2>2. QED
    BY <2>1
<1>3. ASSUME NEW k \in 1..n, k - 1 \in S PROVE k \in S
  <2>1. k \in 0..n /\ k - 1 \in 0..n
    OBVIOUS
  <2>2. CASE ~(i <= k)
    BY <2>1, <2>2
  <2>3. CASE i = k
    <3>1. Len(F[i]) \in Nat
      BY <1>1
    <3>2. QED
      BY <2>1, <2>3, <3>1
  <2>4. CASE i < k
    <3>1. Q(k - 1)
      <4>1. i <= k - 1
        BY <2>4
      <4>2. QED
        BY <1>3, <4>1
    <3>2. parts[k] \in Seq(T)
      OBVIOUS
    <3>3. /\ Len(F[k]) = Len(F[k - 1]) + Len(parts[k])
          /\ \A j \in 1..Len(F[k - 1]) : F[k][j] = F[k - 1][j]
      <4>1. IsJoin(F[k], F[k - 1], parts[k])
        BY PartialGrows
      <4>2. QED
        BY <4>1 DEF IsJoin
    <3> DEFINE a == Len(F[i])
               b == Len(F[k - 1])
               c == Len(F[k])
    <3>4. a \in Nat /\ b \in Nat /\ Len(parts[k]) \in Nat /\ a <= b /\ c = b + Len(parts[k])
      BY <1>1, <2>1, <3>1, <3>2, <3>3
    <3>5. a <= c /\ \A j \in 1..a : j \in 1..b
      <4> HIDE DEF a, b, c
      <4> QED
        BY <3>4
    <3>6. Q(k)
      BY <3>1, <3>3, <3>5
    <3>7. QED
      BY <2>1, <3>6
  <2>5. QED
    BY <2>2, <2>3, <2>4
<1> HIDE DEF S
<1>4. 0..n \subseteq S
  BY <1>2, <1>3, UpTo
<1>5. n \in S /\ i <= n
  BY <1>4
<1>6. QED
  BY <1>5 DEF S

-----------------------------------------------------------------------------
(* The escape *)

(* Entities differ from one another and from the characters that XML       *)
(* treats in its own way, so each is the name of one character.            *)
LEMMA EntityFacts ==
  /\ \A c \in Special : /\ Entity(c) \notin {"&", "<", "control", "cr"}
                        /\ Character(Entity(c)) = c
  /\ {"&", "<"} \subseteq Special /\ "control" \notin Special /\ "cr" \notin Special
<1>1. /\ Entity("&") = "amp;" /\ Entity("<") = "lt;" /\ Entity(">") = "gt;"
      /\ Entity("\"") = "quot;" /\ Entity("'") = "apos;"
  BY DEF Entity
<1>2. ASSUME NEW c \in Special, NEW d \in Special, Entity(c) = Entity(d) PROVE c = d
  BY <1>1, <1>2 DEF Special
<1>3. ASSUME NEW c \in Special PROVE Character(Entity(c)) = c
  <2>1. \E d \in Special : Entity(d) = Entity(c)
    OBVIOUS
  <2>2. Character(Entity(c)) \in Special /\ Entity(Character(Entity(c))) = Entity(c)
    BY <2>1 DEF Character
  <2>3. QED
    BY <1>2, <2>2
<1>4. \A c \in Special : Entity(c) \notin {"&", "<", "control", "cr"}
  BY <1>1 DEF Special
<1>5. QED
  BY <1>3, <1>4 DEF Special

(* Where the characters of s end up in its escaped form e: the i-th ends   *)
(* at o[i], behind an ampersand if it is special.                          *)
Layout(s, e, o) ==
  /\ o[0] = 0 /\ o[Len(s)] = Len(e)
  /\ \A i \in 0..Len(s) : o[i] \in 0..Len(e)
  /\ \A i \in 1..Len(s) :
       \/ s[i] \notin Special /\ o[i] = o[i - 1] + 1 /\ e[o[i]] = s[i]
       \/ /\ s[i] \in Special
          /\ o[i] = o[i - 1] + 2
          /\ e[o[i - 1] + 1] = "&" /\ e[o[i]] = Entity(s[i])

Piece(c) == IF c \in Special THEN <<"&", Entity(c)>> ELSE <<c>>

LEMMA EscapeHasLayout ==
  ASSUME NEW T, NEW s \in Seq(T)
  PROVE  /\ xml_escape(s) \in Seq(T \cup {"&"} \cup Entities)
         /\ \E o : Layout(s, xml_escape(s), o)
<1> DEFINE n == Len(s)
           U == T \cup {"&"} \cup Entities
           e == xml_escape(s)
           parts == [i \in 1..n |-> Piece(s[i])]
<1>1. n \in Nat /\ \A i \in 1..n : s[i] \in T
  OBVIOUS
<1>2. ASSUME NEW i \in 1..n PROVE Piece(s[i]) \in Seq(U)
  <2>1. CASE s[i] \in Special
    <3>1. "&" \in U /\ Entity(s[i]) \in U
      BY <2>1 DEF Entities
    <3> HIDE DEF U
    <3>2. <<"&", Entity(s[i])>> \in Seq(U)
      BY <3>1
    <3>3. QED
      BY <2>1, <3>2 DEF Piece
  <2>2. CASE s[i] \notin Special
    <3>1. s[i] \in U
      BY <1>1
    <3> HIDE DEF U
    <3>2. <<s[i]>> \in Seq(U)
      BY <3>1
    <3>3. QED
      BY <2>2, <3>2 DEF Piece
  <2>3. QED
    BY <2>1, <2>2
<1>3. \A i \in 1..n : parts[i] = Piece(s[i]) /\ parts[i] \in Seq(U)
  BY <1>2
<1>4. parts \in Seq(Seq(U)) /\ Len(parts) = n
  BY <1>1, <1>2
<1>5. e = FlattenSeq(parts)
  BY DEF xml_escape, Piece
<1> HIDE DEF n, U, e, parts
<1>6. PICK F : Partial(parts, n, F) /\ e = F[n]
  BY <1>4, <1>5, FlattenIsPartial
<1>7. \A i \in 0..n : F[i] \in Seq(U)
  BY <1>1, <1>3, <1>6, PartialTypes
<1>8. e \in Seq(U)
  BY <1>1, <1>6, <1>7
<1>9. PICK o : o = [i \in 0..n |-> Len(F[i])]
  OBVIOUS
<1>10. \A i \in 0..n : o[i] = Len(F[i]) /\ o[i] \in Nat
  BY <1>7, <1>9
<1>11. ASSUME NEW i \in 0..n
       PROVE  o[i] <= Len(e) /\ \A j \in 1..o[i] : e[j] = F[i][j]
  <2>1. Len(F[i]) <= Len(F[n]) /\ \A j \in 1..Len(F[i]) : F[n][j] = F[i][j]
    BY <1>1, <1>3, <1>6, PartialIsPrefix
  <2>2. QED
    BY <1>6, <1>10, <2>1
<1>12. \A i \in 1..n : IsJoin(F[i], F[i - 1], parts[i])
  BY <1>1, <1>3, <1>6, PartialGrows
<1>13. o[0] = 0 /\ o[n] = Len(e)
  <2>1. F[0] = <<>> /\ 0 \in 0..n /\ n \in 0..n
    BY <1>1, <1>6 DEF Partial
  <2>2. QED
    BY <1>6, <1>10, <2>1
<1>14. ASSUME NEW i \in 1..n
       PROVE  \/ s[i] \notin Special /\ o[i] = o[i - 1] + 1 /\ e[o[i]] = s[i]
              \/ /\ s[i] \in Special
                 /\ o[i] = o[i - 1] + 2
                 /\ e[o[i - 1] + 1] = "&" /\ e[o[i]] = Entity(s[i])
  <2>1. i \in 0..n /\ i - 1 \in 0..n
    BY <1>1
  <2> DEFINE p == Piece(s[i])
             a == o[i - 1]
             b == o[i]
  <2>2. a \in Nat /\ b \in Nat
    BY <1>10, <2>1
  <2>3. /\ b = a + Len(p)
        /\ \A j \in 1..Len(p) : F[i][a + j] = p[j]
    <3>1. IsJoin(F[i], F[i - 1], p)
      BY <1>3, <1>12
    <3>2. a = Len(F[i - 1]) /\ b = Len(F[i])
      BY <1>10, <2>1
    <3> HIDE DEF p, a, b
    <3>3. QED
      BY <3>1, <3>2 DEF IsJoin
  <2>4. \A j \in 1..b : e[j] = F[i][j]
    BY <1>11, <2>1
  <2>5. CASE s[i] \notin Special
    <3>1. p = <<s[i]>>
      BY <2>5 DEF Piece
    <3> HIDE DEF p, a, b
    <3>2. Len(p) = 1 /\ p[1] = s[i]
      BY <3>1
    <3>3. b = a + 1 /\ b \in 1..b /\ F[i][b] = s[i]
      BY <2>2, <2>3, <3>2
    <3>4. b = a + 1 /\ e[b] = s[i]
      BY <2>4, <3>3
    <3>5. QED
      BY <2>5, <3>4 DEF a, b
  <2>6. CASE s[i] \in Special
    <3>1. p = <<"&", Entity(s[i])>>
      BY <2>6 DEF Piece
    <3> HIDE DEF p, a, b
    <3>2. Len(p) = 2 /\ p[1] = "&" /\ p[2] = Entity(s[i])
      BY <3>1
    <3>3. b = a + 2 /\ a + 1 \in 1..b /\ b \in 1..b
      BY <2>2, <2>3, <3>2
    <3>4. F[i][a + 1] = "&" /\ F[i][b] = Entity(s[i])
      BY <2>3, <3>2, <3>3
    <3>5. b = a + 2 /\ e[a + 1] = "&" /\ e[b] = Entity(s[i])
      BY <2>4, <3>3, <3>4
    <3>6. QED
      BY <2>6, <3>5 DEF a, b
  <2>7. QED
    BY <2>5, <2>6
<1>15. \A i \in 0..n : o[i] \in 0..Len(e)
  BY <1>8, <1>10, <1>11
<1>16. Layout(s, e, o)
  BY <1>13, <1>14, <1>15 DEF Layout, n
<1>17. QED
  BY <1>8, <1>16 DEF U, e

(* A text with such a layout has no bare markup, and the reader takes its  *)
(* characters one by one, if it takes them at all.                         *)
LEMMA LayoutIsRead ==
  ASSUME NEW T, NEW s \in Seq(T), NEW U, NEW e \in Seq(U), NEW o, Layout(s, e, o)
  PROVE  /\ WellFormed(e) <=> \A i \in 1..Len(s) : s[i] # "control"
         /\ ReadText(e) = s <=> \A i \in 1..Len(s) : s[i] # "cr"
<1> DEFINE n == Len(s)
           m == Len(e)
           bare(j) == e[j] = "<" \/ (e[j] = "&" /\ (j = m \/ e[j + 1] \notin Entities))
           named(j) == j > 1 /\ e[j - 1] = "&"
           crlf(j) == j < m /\ e[j] = "cr" /\ e[j + 1] = "lf"
           read(j) == IF e[j] = "&" \/ crlf(j) THEN <<>>
                      ELSE IF named(j) THEN <<Character(e[j])>>
                      ELSE IF e[j] = "cr" THEN <<"lf">> ELSE <<e[j]>>
           Plain(i) == s[i] \notin Special /\ o[i] = o[i - 1] + 1 /\ e[o[i]] = s[i]
           Named(i) == /\ s[i] \in Special
                       /\ o[i] = o[i - 1] + 2
                       /\ e[o[i - 1] + 1] = "&" /\ e[o[i]] = Entity(s[i])
<1>1. n \in Nat /\ m \in Nat
  OBVIOUS
<1>2. o[0] = 0 /\ o[n] = m /\ \A i \in 0..n : o[i] \in 0..m
  BY DEF Layout
<1>3. \A i \in 1..n : Plain(i) \/ Named(i)
  BY DEF Layout
<1> HIDE DEF n, m
<1>4. ASSUME NEW i \in 1..n
      PROVE  /\ o[i] \in 1..m /\ e[o[i]] \notin {"&", "<"}
             /\ e[o[i]] = "control" <=> s[i] = "control"
  <2>1. i \in 0..n /\ i - 1 \in 0..n
    BY <1>1
  <2>2. o[i] \in 0..m /\ o[i - 1] \in 0..m
    BY <1>2, <2>1
  <2>3. o[i] \in 1..m
    BY <1>1, <1>3, <2>2
  <2> QED
    BY <1>3, <2>3, EntityFacts
<1>5. ASSUME NEW j \in 1..m
      PROVE  \E i \in 1..n : j = o[i] \/ (Named(i) /\ j = o[i - 1] + 1)
  <2> DEFINE Found == \E i \in 1..n : j = o[i] \/ (Named(i) /\ j = o[i - 1] + 1)
             S == {k \in 0..n : j <= o[k] => Found}
  <2>1. 0 \in S
    BY <1>1, <1>2
  <2>2. ASSUME NEW k \in 1..n, k - 1 \in S PROVE k \in S
    <3>1. CASE Found
      BY <3>1
    <3>2. CASE ~Found
      <4>1. k - 1 \in 0..n /\ k \in 0..n
        BY <1>1
      <4>2. ~(j <= o[k - 1]) /\ o[k - 1] \in Nat /\ o[k] \in Nat
        BY <1>1, <1>2, <2>2, <3>2, <4>1
      <4>3. Plain(k) \/ Named(k)
        BY <1>3
      <4>4. j # o[k] /\ (Named(k) => j # o[k - 1] + 1)
        BY <3>2
      <4>5. ~(j <= o[k])
        BY <4>2, <4>3, <4>4
      <4>6. QED
        BY <4>1, <4>5
    <3>3. QED
      BY <3>1, <3>2
  <2> HIDE DEF S, Found
  <2>3. 0..n \subseteq S
    BY <1>1, <2>1, <2>2, UpTo
  <2>4. n \in S
    BY <1>1, <2>3
  <2>5. Found
    BY <1>1, <1>2, <2>4 DEF S
  <2>6. QED
    BY <2>5 DEF Found
<1>6. ASSUME NEW j \in 1..m PROVE ~bare(j)
  <2>1. PICK i \in 1..n : j = o[i] \/ (Named(i) /\ j = o[i - 1] + 1)
    BY <1>5
  <2>2. CASE j = o[i]
    BY <1>4, <2>2
  <2>3. CASE Named(i) /\ j = o[i - 1] + 1
    <3>1. o[i] = j + 1 /\ o[i] \in 0..m /\ e[j] = "&" /\ e[j + 1] = Entity(s[i])
      <4>1. i \in 0..n /\ i - 1 \in 0..n
        BY <1>1
      <4>2. o[i - 1] \in Nat /\ o[i] \in 0..m
        BY <1>1, <1>2, <4>1
      <4>3. o[i - 1] + 2 = j + 1
        BY <2>3, <4>2
      <4>4. QED
        BY <2>3, <4>2, <4>3
    <3>2. j # m /\ e[j + 1] \in Entities
      BY <1>1, <2>3, <3>1 DEF Entities
    <3>3. QED
      BY <3>1, <3>2
  <2>4. QED
    BY <2>1, <2>2, <2>3
<1>7. WellFormed(e) <=> \A i \in 1..n : s[i] # "control"
  <2>1. WellFormed(e) <=> \A j \in 1..m : e[j] # "control"
    BY <1>6 DEF WellFormed, Bare, m
  <2>2. ASSUME NEW j \in 1..m, e[j] = "control" PROVE \E i \in 1..n : s[i] = "control"
    <3>1. PICK i \in 1..n : j = o[i] \/ (Named(i) /\ j = o[i - 1] + 1)
      BY <1>5
    <3> QED
      BY <1>4, <2>2, <3>1
  <2>3. ASSUME NEW i \in 1..n, s[i] = "control" PROVE \E j \in 1..m : e[j] = "control"
    BY <1>4, <2>3
  <2> QED
    BY <2>1, <2>2, <2>3
<1> DEFINE V == (U \cup Special \cup {"lf"}) \ {"cr"}
           parts == [j \in 1..m |-> read(j)]
<1>8. ReadText(e) = FlattenSeq(parts)
  BY DEF ReadText, ReadCharacter, m
<1>9. ASSUME NEW j \in 1..m PROVE parts[j] = read(j) /\ parts[j] \in Seq(V)
  <2>1. e[j] \in U
    BY DEF m
  <2>2. named(j) => Character(e[j]) \in V
    <3>1. SUFFICES ASSUME named(j) PROVE Character(e[j]) \in V
      OBVIOUS
    <3>2. j - 1 \in 1..m /\ ~bare(j - 1) /\ (j - 1) + 1 = j
      BY <1>1, <1>6, <3>1
    <3>3. e[j] \in Entities
      BY <3>1, <3>2
    <3>4. PICK x \in Special : e[j] = Entity(x)
      BY <3>3 DEF Entities
    <3> QED
      BY <3>4, EntityFacts
  <2>3. "lf" \in V /\ (e[j] # "cr" => e[j] \in V)
    BY <2>1
  <2> HIDE DEF V
  <2>4. /\ <<>> \in Seq(V) /\ <<"lf">> \in Seq(V)
        /\ e[j] # "cr" => <<e[j]>> \in Seq(V)
        /\ named(j) => <<Character(e[j])>> \in Seq(V)
    BY <2>2, <2>3
  <2>5. parts[j] = read(j)
    OBVIOUS
  <2> QED
    BY <2>4, <2>5
<1>10. parts \in Seq(Seq(V)) /\ Len(parts) = m
  <2>1. \A j \in 1..m : read(j) \in Seq(V)
    BY <1>9
  <2> HIDE DEF V, read
  <2>2. parts \in [1..m -> Seq(V)]
    BY <2>1
  <2> HIDE DEF parts
  <2> QED
    BY <1>1, <2>2
<1>11. "cr" \notin V
  OBVIOUS
<1> HIDE DEF V, parts
<1>12. PICK R : Partial(parts, m, R) /\ ReadText(e) = R[m]
  BY <1>8, <1>10, FlattenIsPartial
<1>13. R[0] = <<>> /\ \A j \in 1..m : R[j] = Joined(R[j - 1], parts[j])
  BY <1>12 DEF Partial
<1>14. \A j \in 0..m : R[j] \in Seq(V)
  BY <1>1, <1>9, <1>12, PartialTypes
<1>15. ASSUME ReadText(e) = s PROVE \A i \in 1..n : s[i] # "cr"
  <2>1. s \in Seq(V)
    <3>1. m \in 0..m
      BY <1>1
    <3>2. R[m] \in Seq(V)
      BY <1>14, <3>1
    <3> QED
      BY <1>12, <1>15, <3>2
  <2>2. \A i \in 1..n : s[i] \in V
    BY <2>1 DEF n
  <2> QED
    BY <1>11, <2>2
<1>16. ASSUME \A i \in 1..n : s[i] # "cr" PROVE ReadText(e) = s
  <2>1. ASSUME NEW i \in 1..n
        PROVE  /\ o[i] \in 1..m /\ parts[o[i]] = <<s[i]>>
               /\ \/ o[i] - 1 = o[i - 1]
                  \/ /\ o[i] - 1 \in 1..m /\ parts[o[i] - 1] = <<>>
                     /\ o[i] - 2 = o[i - 1]
    <3>1. i \in 0..n /\ i - 1 \in 0..n
      BY <1>1
    <3>2. o[i] \in 0..m /\ o[i - 1] \in 0..m
      BY <1>2, <3>1
    <3>3. CASE Plain(i)
      <4>1. o[i] \in 1..m /\ o[i] - 1 = o[i - 1]
        BY <1>1, <3>2, <3>3
      <4>2. ~named(o[i])
        <5>1. CASE i = 1
          BY <1>2, <3>3, <5>1
        <5>2. CASE i # 1
          <6>1. i - 1 \in 1..n
            BY <1>1, <5>2
          <6>2. e[o[i - 1]] # "&"
            BY <1>4, <6>1
          <6>3. QED
            BY <4>1, <6>2
        <5>3. QED
          BY <5>1, <5>2
      <4>3. read(o[i]) = <<s[i]>>
        BY <1>4, <1>16, <3>3, <4>2
      <4>4. QED
        BY <1>9, <4>1, <4>3
    <3>4. CASE Named(i)
      <4>1. /\ o[i] \in 1..m /\ o[i] - 1 \in 1..m /\ o[i] - 2 = o[i - 1] /\ o[i] > 1
            /\ o[i - 1] + 1 = o[i] - 1
        <5>1. PICK a : a = o[i - 1]
          OBVIOUS
        <5>2. PICK b : b = o[i]
          OBVIOUS
        <5>3. b = a + 2
          BY <3>4, <5>1, <5>2
        <5>4. a \in 0..m /\ b \in 0..m
          BY <3>2, <5>1, <5>2
        <5>5. b \in 1..m /\ b - 1 \in 1..m /\ b - 2 = a /\ b > 1 /\ a + 1 = b - 1
          BY <1>1, <5>3, <5>4
        <5>6. QED
          BY <5>1, <5>2, <5>5
      <4>2. e[o[i] - 1] = "&" /\ e[o[i]] = Entity(s[i]) /\ e[o[i]] \notin {"&", "cr"}
        BY <1>4, <3>4, <4>1, EntityFacts
      <4>3. Character(e[o[i]]) = s[i]
        BY <3>4, <4>2, EntityFacts
      <4>4. read(o[i]) = <<s[i]>> /\ read(o[i] - 1) = <<>>
        BY <4>1, <4>2, <4>3
      <4>5. QED
        BY <1>9, <4>1, <4>4
    <3>5. QED
      BY <1>3, <3>3, <3>4
  <2> DEFINE S == {i \in 0..n : R[o[i]] = SubSeq(s, 1, i)}
  <2>2. 0 \in S
    <3>1. 0 \in 0..n /\ R[o[0]] = <<>>
      BY <1>1, <1>2, <1>13
    <3>2. SubSeq(s, 1, 0) = <<>>
      OBVIOUS
    <3>3. QED
      BY <3>1, <3>2
  <2>3. ASSUME NEW i \in 1..n, i - 1 \in S PROVE i \in S
    <3>1. i - 1 \in 0..n /\ i \in 0..n
      BY <1>1
    <3>2. R[o[i - 1]] = SubSeq(s, 1, i - 1) /\ o[i - 1] \in 0..m
      BY <1>2, <2>3, <3>1
    <3>3. R[o[i] - 1] = R[o[i - 1]]
      <4>1. CASE o[i] - 1 = o[i - 1]
        BY <4>1
      <4>2. CASE o[i] - 1 # o[i - 1]
        <5>1. o[i] - 1 \in 1..m /\ parts[o[i] - 1] = <<>> /\ (o[i] - 1) - 1 = o[i - 1]
          BY <2>1, <4>2
        <5>2. R[o[i] - 1] = Joined(R[o[i - 1]], <<>>)
          BY <1>13, <5>1
        <5>3. R[o[i - 1]] \in Seq(V)
          BY <1>14, <3>2
        <5>4. QED
          BY <5>2, <5>3, ConcatEmptySeq DEF Joined
      <4>3. QED
        BY <4>1, <4>2
    <3>4. R[o[i]] = Joined(SubSeq(s, 1, i - 1), <<s[i]>>)
      BY <2>1, <1>13, <3>2, <3>3
    <3>5. Joined(SubSeq(s, 1, i - 1), <<s[i]>>) = SubSeq(s, 1, i)
      <4>1. SubSeq(s, 1, i - 1) \in Seq(T) /\ SubSeq(s, 1, i) \in Seq(T) /\ <<s[i]>> \in Seq(T)
        BY <1>1 DEF n
      <4>2. QED
        BY <1>1, <4>1, SubSeqProperties, ConcatProperties DEF n, Joined
    <3>6. QED
      BY <3>1, <3>4, <3>5
  <2> HIDE DEF S
  <2>4. 0..n \subseteq S
    BY <1>1, <2>2, <2>3, UpTo
  <2>5. n \in S
    BY <1>1, <2>4
  <2>6. R[m] = SubSeq(s, 1, n)
    BY <1>2, <2>5 DEF S
  <2>7. SubSeq(s, 1, n) = s
    BY DEF n
  <2>8. QED
    BY <1>12, <2>6, <2>7
<1> QED
  BY <1>7, <1>15, <1>16 DEF n

(* xml_escape is undone by whoever reads the document, for every text that *)
(* XML can carry: the escaped text is well formed exactly if no character  *)
(* of it is one that XML has no place for, and it is read as it was exactly*)
(* if it has no carriage return, which a reader takes for a line feed.     *)
THEOREM EscapeIsRead ==
  ASSUME NEW T, NEW s \in Seq(T)
  PROVE  /\ WellFormed(xml_escape(s)) <=> \A i \in 1..Len(s) : s[i] # "control"
         /\ ReadText(xml_escape(s)) = s <=> \A i \in 1..Len(s) : s[i] # "cr"
<1>1. xml_escape(s) \in Seq(T \cup {"&"} \cup Entities)
  BY EscapeHasLayout
<1>2. PICK o : Layout(s, xml_escape(s), o)
  BY EscapeHasLayout
<1> DEFINE e == xml_escape(s)
           U == T \cup {"&"} \cup Entities
<1> HIDE DEF e, U
<1>3. e \in Seq(U) /\ Layout(s, e, o)
  BY <1>1, <1>2 DEF e, U
<1>4. /\ WellFormed(e) <=> \A i \in 1..Len(s) : s[i] # "control"
      /\ ReadText(e) = s <=> \A i \in 1..Len(s) : s[i] # "cr"
  BY <1>3, LayoutIsRead
<1> QED
  BY <1>4 DEF e

-----------------------------------------------------------------------------
(* The whole request *)

(* A name has its final dot and is otherwise the same text.                *)
LEMMA FixedNames ==
  ASSUME NEW T, NEW name \in Seq(T)
  PROVE  /\ fixed_name(name) \in Seq(T \cup {"."})
         /\ \A i \in 1..Len(fixed_name(name)) :
              \/ i \in 1..Len(name) /\ fixed_name(name)[i] = name[i]
              \/ fixed_name(name)[i] = "."
<1>1. name \in Seq(T \cup {"."})
  OBVIOUS
<1>2. /\ Append(name, ".") \in Seq(T \cup {"."})
      /\ Len(Append(name, ".")) = Len(name) + 1
      /\ \A i \in 1..Len(name) : Append(name, ".")[i] = name[i]
      /\ Append(name, ".")[Len(name) + 1] = "."
  BY <1>1, AppendProperties
<1>3. Len(name) \in Nat
  OBVIOUS
<1> HIDE DEF ends_with
<1>4. CASE ends_with(name, ".")
  BY <1>1, <1>4 DEF fixed_name
<1>5. CASE ~ends_with(name, ".")
  BY <1>2, <1>3, <1>5 DEF fixed_name
<1> QED
  BY <1>4, <1>5

(* A change whose name is dotted.                                          *)
Change ==
  [name : Seq(NameChars \cup {"."}), type : {"A", "AAAA"}, ttl : Nat, value : STRING]

(* The name of every change that is built is that of a request, dotted.    *)
LEMMA ChangesAreBuilt ==
  ASSUME NEW requests \in Seq(ResourceRecordSet)
  PROVE  /\ build_changes(requests) \in Seq(Change)
         /\ Len(build_changes(requests)) = Len(requests)
         /\ \A i \in 1..Len(requests) :
              build_changes(requests)[i].name = fixed_name(requests[i].name)
<1> DEFINE n == Len(requests)
           changes == build_changes(requests)
<1>1. n \in Nat
  OBVIOUS
<1>2. changes = [i \in 1..n |-> [requests[i] EXCEPT !.name = fixed_name(@)]]
  BY DEF build_changes
<1>3. ASSUME NEW i \in 1..n
      PROVE  /\ [requests[i] EXCEPT !.name = fixed_name(@)] \in Change
             /\ [requests[i] EXCEPT !.name = fixed_name(@)].name = fixed_name(requests[i].name)
  <2>1. requests[i] \in ResourceRecordSet
    OBVIOUS
  <2>2. requests[i].name \in Seq(NameChars)
    BY <2>1 DEF ResourceRecordSet
  <2>3. fixed_name(requests[i].name) \in Seq(NameChars \cup {"."})
    BY <2>2, FixedNames
  <2> QED
    BY <2>1, <2>3 DEF ResourceRecordSet, Change
<1>4. changes \in Seq(Change) /\ Len(changes) = n
  BY <1>1, <1>2, <1>3
<1>5. \A i \in 1..n : changes[i].name = fixed_name(requests[i].name)
  BY <1>2, <1>3
<1> QED
  BY <1>4, <1>5

(* A text without a certain character.                                     *)
Free(text, c) == \A i \in 1..Len(text) : text[i] # c

(* What build_change_xml writes is read back as what build_changes made,   *)
(* and a document is refused only for a name that XML cannot carry.        *)
LEMMA BodyIsRead ==
  ASSUME NEW changes \in Seq(Change)
  PROVE  /\ Parses(build_change_xml(changes))
               <=> \A i \in 1..Len(changes) : Free(changes[i].name, "control")
         /\ (\A i \in 1..Len(changes) : Free(changes[i].name, "cr"))
               => ReadBody(build_change_xml(changes)) = changes
<1> DEFINE n == Len(changes)
           body == build_change_xml(changes)
<1>1. n \in Nat
  OBVIOUS
<1>2. body = [i \in 1..n |-> [changes[i] EXCEPT !.name = xml_escape(@)]]
  BY DEF build_change_xml
<1>3. \A i \in 1..n : changes[i] \in Change
  OBVIOUS
<1> HIDE DEF n, body
<1>4. Len(body) = n
  BY <1>1, <1>2
<1>5. ASSUME NEW i \in 1..n
      PROVE  /\ WellFormed(body[i].name) <=> Free(changes[i].name, "control")
             /\ Free(changes[i].name, "cr") =>
                  [body[i] EXCEPT !.name = ReadText(@)] = changes[i]
  <2> DEFINE c == changes[i]
  <2>1. c \in Change
    BY <1>3
  <2>2. body[i] = [c EXCEPT !.name = xml_escape(@)]
    BY <1>2
  <2> HIDE DEF c
  <2>3. /\ WellFormed(xml_escape(c.name)) <=> Free(c.name, "control")
        /\ ReadText(xml_escape(c.name)) = c.name <=> Free(c.name, "cr")
    BY <2>1, EscapeIsRead DEF Change, Free
  <2>4. body[i].name = xml_escape(c.name)
    BY <2>1, <2>2 DEF Change
  <2>5. ASSUME ReadText(xml_escape(c.name)) = c.name
        PROVE  [body[i] EXCEPT !.name = ReadText(@)] = c
    BY <2>1, <2>2, <2>5 DEF Change
  <2> QED
    BY <2>3, <2>4, <2>5 DEF c
<1>6. Parses(body) <=> \A i \in 1..n : Free(changes[i].name, "control")
  BY <1>4, <1>5 DEF Parses
<1>7. ASSUME \A i \in 1..n : Free(changes[i].name, "cr") PROVE ReadBody(body) = changes
  <2>1. ReadBody(body) = [i \in 1..n |-> [body[i] EXCEPT !.name = ReadText(@)]]
    BY <1>4 DEF ReadBody
  <2>2. changes = [i \in 1..n |-> changes[i]]
    BY <1>1 DEF n
  <2> QED
    BY <1>5, <1>7, <2>1, <2>2
<1> QED
  BY <1>6, <1>7 DEF n, body

(* The texts of one and two pieces that are made below.                    *)
LEMMA Short ==
  ASSUME NEW x, NEW y
  PROVE  /\ Append(<<>>, x) = <<x>> /\ Append(<<y>>, x) = <<y, x>>
         /\ SubSeq(<<x>>, 1, Len(<<x>>)) = <<x>>
         /\ SubSeq(<<y, x>>, 1, Len(<<y, x>>)) = <<y, x>>
         /\ SubSeq(<<y, x>>, 2, Len(<<y, x>>)) = <<x>>
<1> DEFINE U == {x, y}
<1>1. <<>> \in Seq(U) /\ <<x>> \in Seq(U) /\ <<y>> \in Seq(U) /\ <<y, x>> \in Seq(U)
  OBVIOUS
<1>2. Append(<<>>, x) = <<x>>
  BY <1>1, AppendProperties
<1>3. /\ Len(<<x>>) = 1 /\ <<x>>[1] = x
      /\ Len(<<y, x>>) = 2 /\ <<y, x>>[1] = y /\ <<y, x>>[2] = x
      /\ Len(<<y>>) = 1 /\ <<y>>[1] = y
  OBVIOUS
<1>4. ASSUME NEW a \in Seq(U), Len(a) = 1, a[1] = x
      PROVE  a = <<x>>
  BY <1>1, <1>3, <1>4, SeqEqual
<1>5. ASSUME NEW a \in Seq(U), Len(a) = 2, a[1] = y, a[2] = x
      PROVE  a = <<y, x>>
  <2>1. \A i \in 1..Len(a) : a[i] = <<y, x>>[i]
    BY <1>3, <1>5
  <2> QED
    BY <1>1, <1>3, <1>5, <2>1, SeqEqual
<1> DEFINE one == <<x>>
           two == <<y, x>>
<1>6. /\ one \in Seq(U) /\ Len(one) = 1 /\ one[1] = x
      /\ two \in Seq(U) /\ Len(two) = 2 /\ two[1] = y /\ two[2] = x
  BY <1>1, <1>3
<1>7. Append(<<y>>, x) = <<y, x>>
  <2> DEFINE first == <<y>>
  <2>1. first \in Seq(U) /\ Len(first) = 1 /\ first[1] = y
    BY <1>1, <1>3
  <2> HIDE DEF first
  <2>2. /\ Append(first, x) \in Seq(U) /\ Len(Append(first, x)) = 2
        /\ Append(first, x)[1] = y /\ Append(first, x)[2] = x
    <3>1. x \in U
      OBVIOUS
    <3> HIDE DEF U
    <3>2. /\ Append(first, x) \in Seq(U)
          /\ Len(Append(first, x)) = Len(first) + 1
          /\ \A i \in 1..Len(first) : Append(first, x)[i] = first[i]
          /\ Append(first, x)[Len(first) + 1] = x
      <4>1. Append(first, x) \in Seq(U)
        BY <2>1, <3>1
      <4>2. Len(Append(first, x)) = Len(first) + 1
        BY <2>1, <3>1
      <4>3. \A i \in 1..Len(first) : Append(first, x)[i] = first[i]
        BY <2>1, <3>1, AppendProperties
      <4>4. Append(first, x)[Len(first) + 1] = x
        BY <2>1, <3>1, AppendProperties
      <4> QED
        BY <4>1, <4>2, <4>3, <4>4
    <3> QED
      BY <2>1, <3>2
  <2>3. Append(first, x) = <<y, x>>
    BY <1>5, <2>2
  <2> QED
    BY <2>3 DEF first
<1> HIDE DEF U, one, two
<1>8. SubSeq(one, 1, 1) = <<x>>
  <2>1. /\ SubSeq(one, 1, 1) \in Seq(U) /\ Len(SubSeq(one, 1, 1)) = 1
        /\ SubSeq(one, 1, 1)[1] = x
    BY <1>6, SubSeqProperties
  <2> QED
    BY <1>4, <2>1
<1>9. SubSeq(two, 1, 2) = <<y, x>>
  <2>1. /\ SubSeq(two, 1, 2) \in Seq(U) /\ Len(SubSeq(two, 1, 2)) = 2
        /\ SubSeq(two, 1, 2)[1] = y /\ SubSeq(two, 1, 2)[2] = x
    BY <1>6, SubSeqProperties
  <2> QED
    BY <1>5, <2>1
<1>10. SubSeq(two, 2, 2) = <<x>>
  <2>1. /\ SubSeq(two, 2, 2) \in Seq(U) /\ Len(SubSeq(two, 2, 2)) = 1
        /\ SubSeq(two, 2, 2)[1] = x
    BY <1>6, SubSeqProperties
  <2> QED
    BY <1>4, <2>1
<1> QED
  BY <1>2, <1>3, <1>7, <1>8, <1>9, <1>10 DEF one, two

(* Trimming a prefix from one or two pieces. *)
LEMMA TrimShort ==
  ASSUME NEW t, NEW x, x # t
  PROVE  /\ trim_start_matches(<<x>>, t) = <<x>>
         /\ trim_start_matches(<<t, x>>, t) = <<x>>
         /\ \A y : y # t => trim_start_matches(<<y, x>>, t) = <<y, x>>
<1> DEFINE kept(s) == {i \in 1..Len(s) : s[i] # t}
<1>1. ASSUME NEW U, NEW s \in Seq(U), NEW k \in kept(s), \A i \in kept(s) : k <= i
      PROVE  trim_start_matches(s, t) = SubSeq(s, k, Len(s))
  <2>1. kept(s) # {} /\ kept(s) \in SUBSET Nat
    OBVIOUS
  <2> DEFINE K == kept(s)
  <2>2. trim_start_matches(s, t) = SubSeq(s, Min(K), Len(s))
    BY <2>1 DEF trim_start_matches
  <2>3. K # {} /\ K \in SUBSET Nat /\ k \in K /\ \A i \in K : k <= i
    BY <1>1, <2>1
  <2> HIDE DEF K
  <2>4. Min(K) \in K /\ \A i \in K : Min(K) <= i
    BY <2>3, MinIsLeast
  <2>5. PICK least : least = Min(K)
    OBVIOUS
  <2>6. least <= k /\ k <= least /\ least \in Nat /\ k \in Nat
    BY <2>3, <2>4, <2>5
  <2>7. Min(K) = k
    BY <2>5, <2>6
  <2> QED
    BY <2>2, <2>7
<1>2. trim_start_matches(<<x>>, t) = <<x>>
  <2> DEFINE s == <<x>>
  <2>1. s \in Seq({t, x}) /\ 1 \in kept(s) /\ \A i \in kept(s) : 1 <= i
    OBVIOUS
  <2>2. SubSeq(s, 1, Len(s)) = <<x>>
    BY Short
  <2> HIDE DEF s
  <2>3. trim_start_matches(s, t) = SubSeq(s, 1, Len(s))
    BY <1>1, <2>1
  <2> QED
    BY <2>2, <2>3 DEF s
<1>3. trim_start_matches(<<t, x>>, t) = <<x>>
  <2> DEFINE s == <<t, x>>
  <2>1. s \in Seq({t, x}) /\ 2 \in kept(s) /\ \A i \in kept(s) : 2 <= i
    OBVIOUS
  <2>2. SubSeq(s, 2, Len(s)) = <<x>>
    BY Short
  <2> HIDE DEF s
  <2>3. trim_start_matches(s, t) = SubSeq(s, 2, Len(s))
    BY <1>1, <2>1
  <2> QED
    BY <2>2, <2>3 DEF s
<1>4. ASSUME NEW y, y # t PROVE trim_start_matches(<<y, x>>, t) = <<y, x>>
  <2> DEFINE s == <<y, x>>
  <2>1. s \in Seq({x, y}) /\ 1 \in kept(s) /\ \A i \in kept(s) : 1 <= i
    BY <1>4
  <2>2. SubSeq(s, 1, Len(s)) = <<y, x>>
    BY Short
  <2> HIDE DEF s
  <2>3. trim_start_matches(s, t) = SubSeq(s, 1, Len(s))
    BY <1>1, <2>1
  <2> QED
    BY <2>2, <2>3 DEF s
<1> QED
  BY <1>2, <1>3, <1>4

(* Each spelling of a zone gives the path of that zone.                    *)
LEMMA ZonePathIsZone ==
  ASSUME NEW z, HostedZone(z)
  PROVE  ZonePath(z) = <<z[Len(z)]>>
<1>1. PICK x : x = z[Len(z)]
  OBVIOUS
<1>2. x # "/hostedzone/" /\ x # "hostedzone/"
  BY <1>1 DEF HostedZone
<1>3. \/ z = Append(<<>>, x)
      \/ z = Append(<<"/hostedzone/">>, x)
      \/ z = Append(<<"hostedzone/">>, x)
  BY <1>1 DEF HostedZone
<1>4. z = <<x>> \/ z = <<"/hostedzone/", x>> \/ z = <<"hostedzone/", x>>
  <2>1. /\ Append(<<>>, x) = <<x>>
        /\ Append(<<"/hostedzone/">>, x) = <<"/hostedzone/", x>>
        /\ Append(<<"hostedzone/">>, x) = <<"hostedzone/", x>>
    BY Short
  <2> QED
    BY <1>3, <2>1
<1>5. "hostedzone/" # "/hostedzone/"
  OBVIOUS
<1>6. CASE z = <<x>>
  <2>1. /\ trim_start_matches(z, "/hostedzone/") = <<x>>
        /\ trim_start_matches(<<x>>, "hostedzone/") = <<x>>
    BY <1>2, <1>6, TrimShort
  <2> QED
    BY <1>1, <2>1 DEF ZonePath
<1>7. CASE z = <<"/hostedzone/", x>>
  <2>1. /\ trim_start_matches(z, "/hostedzone/") = <<x>>
        /\ trim_start_matches(<<x>>, "hostedzone/") = <<x>>
    BY <1>2, <1>7, TrimShort
  <2> QED
    BY <1>1, <2>1 DEF ZonePath
<1>8. CASE z = <<"hostedzone/", x>>
  <2>1. trim_start_matches(z, "/hostedzone/") = z
    BY <1>2, <1>5, <1>8, TrimShort
  <2>2. trim_start_matches(z, "hostedzone/") = <<x>>
    BY <1>2, <1>8, TrimShort
  <2> QED
    BY <1>1, <2>1, <2>2 DEF ZonePath
<1> QED
  BY <1>4, <1>6, <1>7, <1>8
=============================================================================
