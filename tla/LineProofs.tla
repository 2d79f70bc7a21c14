------------------------------ MODULE LineProofs ------------------------------
(***************************************************************************)
(* What becomes of a line, for every set of characters, size of the        *)
(* buffers, number of parameters, set of nicknames and sequence of lines.  *)
(*                                                                         *)
(* The parser: each state stands for what has been read of the line, by    *)
(* positions of the line (StateRead), and at the end of a line of the      *)
(* grammar that is what the grammar makes of it.                           *)
(*                                                                         *)
(* The handlers: no string of the result is used that was freed, none is   *)
(* freed twice, and lines to this client are told from lines to channels.  *)
(* Their loops over the parameters are recursive functions of the number   *)
(* of turns.  That such a function exists, and what it holds after each    *)
(* turn, is shown by induction over the set of turns for which it holds.   *)
(*                                                                         *)
(* The checksums of notices: a context is that of the bytes it was given   *)
(* (Digested), whatever pieces they came in, md5_close compresses the rest *)
(* of the padded message, and a padded message tells the message.          *)
(*                                                                         *)
(* The command line: permute_args exchanges two blocks, because the cycles *)
(* it moves are as many as the greatest common divisor of their lengths    *)
(* and each holds the places of one rest; so what getopt has moved and     *)
(* what it has not reached are together what was written (GetoptInv).      *)
(***************************************************************************)
EXTENDS Parser, Commands, Checksum, Getopt, FiniteSetTheorems, WellFoundedInduction, TLAPS

-----------------------------------------------------------------------------
(* Induction and recursion.                                                 *)

\* Every non-empty set of natural numbers has a least element.
LEMMA LeastOf ==
  ASSUME NEW T \in SUBSET Nat, T # {}
  PROVE  \E x \in T : \A y \in T : x <= y
<1> DEFINE R == OpToRel(<, Nat)
<1>1. IsWellFoundedOn(R, Nat)
  BY NatLessThanWellFounded
<1>2. ASSUME NEW x \in Nat, NEW y \in Nat, y < x PROVE <<y, x>> \in R
  BY <1>2 DEF OpToRel
<1> HIDE DEF R
<1>3. PICK x \in T : \A y \in T : ~(<<y, x>> \in R)
  BY <1>1, WFMin
<1>4. ASSUME NEW y \in T PROVE x <= y
  <2>1. x \in Nat /\ y \in Nat
    OBVIOUS
  <2>2. ~(y < x)
    BY <1>2, <1>3, <2>1, Zenon
  <2> QED
    BY <2>1, <2>2
<1> QED
  BY <1>4

\* A set that holds 0 and with every turn the next one holds all turns to n.
LEMMA Turns ==
  ASSUME NEW n \in Nat, NEW G, 0 \in G,
         \A k \in 1 .. n : k - 1 \in G => k \in G
  PROVE  \A k \in 0 .. n : k \in G
<1> DEFINE bad == {k \in 0 .. n : k \notin G}
<1>1. SUFFICES ASSUME bad # {} PROVE FALSE
  OBVIOUS
<1>2. PICK m \in bad : \A k \in bad : m <= k
  <2>1. bad \in SUBSET Nat /\ bad # {}
    BY <1>1
  <2> HIDE DEF bad
  <2> QED
    BY <2>1, LeastOf
<1>3. m \in 0 .. n /\ m \notin G /\ m # 0
  BY <1>2
<1>4. m - 1 \in 0 .. n /\ ~(m <= m - 1)
  BY <1>3
<1>5. m - 1 \in G
  BY <1>2, <1>4
<1> QED
  BY <1>3, <1>5

\* A recursive function over the turns from 0 to n, with values in T.
Recursive(f, n, T, r, step) ==
  /\ f \in [0 .. n -> T] /\ f[0] = r
  /\ \A k \in 1 .. n : f[k] = step[k][f[k - 1]]

\* There is one.
LEMMA Recursion ==
  ASSUME NEW n \in Nat, NEW T, NEW r \in T, NEW step \in [1 .. n -> [T -> T]]
  PROVE  \E f : Recursive(f, n, T, r, step)
<1> DEFINE Reached(m) == \E f : Recursive(f, m, T, r, step)
           G == {m \in 0 .. n : Reached(m)}
<1>1. 0 \in G
  <2> DEFINE f == [k \in 0 .. 0 |-> r]
  <2>1. Recursive(f, 0, T, r, step)
    BY DEF Recursive
  <2> QED
    BY <2>1
<1>2. ASSUME NEW m \in 1 .. n, m - 1 \in G PROVE m \in G
  <2>1. PICK g : Recursive(g, m - 1, T, r, step)
    BY <1>2
  <2>2. g \in [0 .. (m - 1) -> T] /\ g[0] = r /\ m \in Nat /\ m > 0
    BY <2>1 DEF Recursive
  <2>3. step[m] \in [T -> T] /\ g[m - 1] \in T
    BY <2>2
  <2> DEFINE value == step[m][g[m - 1]]
             f == [k \in 0 .. m |-> IF k < m THEN g[k] ELSE value]
  <2>4. value \in T
    BY <2>3
  <2> HIDE DEF value
  <2>5. f \in [0 .. m -> T] /\ f[0] = r
    BY <2>2, <2>4
  <2>6. ASSUME NEW k \in 1 .. m PROVE f[k] = step[k][f[k - 1]]
    <3>1. CASE k = m
      <4>1. f[k] = value /\ f[k - 1] = g[m - 1]
        BY <2>2, <3>1
      <4> QED
        BY <3>1, <4>1 DEF value
    <3>2. CASE k # m
      <4>1. k \in 1 .. (m - 1) /\ f[k] = g[k] /\ f[k - 1] = g[k - 1]
        BY <2>2, <3>2
      <4>2. g[k] = step[k][g[k - 1]]
        BY <2>1, <4>1 DEF Recursive
      <4> QED
        BY <4>1, <4>2
    <3> QED
      BY <3>1, <3>2
  <2> HIDE DEF f
  <2>7. Recursive(f, m, T, r, step)
    BY <2>5, <2>6 DEF Recursive
  <2>8. m \in 0 .. n
    OBVIOUS
  <2> QED
    BY <2>7, <2>8
<1> HIDE DEF G
<1>3. \A m \in 0 .. n : m \in G
  BY <1>1, <1>2, Turns
<1>4. n \in 0 .. n
  OBVIOUS
<1> QED
  BY <1>3, <1>4 DEF G

-----------------------------------------------------------------------------
(* Parts of sequences, and first places.                                    *)

\* A part of a sequence, by its places.
LEMMA Part ==
  ASSUME NEW S, NEW l \in Seq(S), NEW a \in Nat \ {0}, NEW b \in Nat, b <= Len(l)
  PROVE  /\ SubSeq(l, a, b) \in Seq(S)
         /\ Len(SubSeq(l, a, b)) = IF a <= b THEN b - a + 1 ELSE 0
         /\ \A i \in 1 .. (b - a + 1) : SubSeq(l, a, b)[i] = l[a + i - 1]
  OBVIOUS

\* Sequences of the same elements are the same.
LEMMA SameElements ==
  ASSUME NEW S, NEW u \in Seq(S), NEW v \in Seq(S), Len(u) = Len(v),
         \A i \in 1 .. Len(u) : u[i] = v[i]
  PROVE  u = v
  OBVIOUS

\* Sequences that agree from a to b have the same part there.
LEMMA SamePart ==
  ASSUME NEW S, NEW l \in Seq(S), NEW m \in Seq(S), NEW a \in Nat \ {0}, NEW b \in Nat,
         b <= Len(l), b <= Len(m), \A i \in a .. b : l[i] = m[i]
  PROVE  SubSeq(l, a, b) = SubSeq(m, a, b)
<1> DEFINE u == SubSeq(l, a, b) 
           v == SubSeq(m, a, b)
<1>1. u \in Seq(S) /\ v \in Seq(S) /\ Len(u) = Len(v)
  BY Part
<1>2. ASSUME NEW i \in 1 .. Len(u) PROVE u[i] = v[i]
  <2>1. i \in 1 .. (b - a + 1) /\ a + i - 1 \in a .. b
    BY Part
  <2> QED
    BY <2>1, Part
<1> HIDE DEF u, v
<1>3. u = v
  BY <1>1, <1>2, SameElements
<1> QED
  BY <1>3 DEF u, v

\* A part of a part is a part.
LEMMA PartOfPart ==
  ASSUME NEW S, NEW l \in Seq(S), NEW a \in Nat \ {0}, NEW b \in Nat, b <= Len(l),
         NEW i \in Nat \ {0}, NEW j \in Nat, j <= b - a + 1
  PROVE  SubSeq(SubSeq(l, a, b), i, j) = SubSeq(l, a + i - 1, a + j - 1)
<1> DEFINE p == SubSeq(l, a, b)
           u == SubSeq(p, i, j) 
           v == SubSeq(l, a + i - 1, a + j - 1)
           n == IF i <= j THEN j - i + 1 ELSE 0
<1>1. p \in Seq(S) /\ Len(p) = (IF a <= b THEN b - a + 1 ELSE 0)
  BY Part
<1>2. j <= Len(p)
  BY <1>1
<1>3. ASSUME NEW k \in 1 .. Len(p) PROVE p[k] = l[a + k - 1]
  <2>1. k \in 1 .. (b - a + 1)
    BY <1>1
  <2> QED
    BY <2>1, Part
<1> HIDE DEF p
<1>4. u \in Seq(S) /\ Len(u) = n /\ \A k \in 1 .. n : u[k] = p[i + k - 1]
  BY <1>1, <1>2, Part
<1>5. v \in Seq(S) /\ Len(v) = n /\ \A k \in 1 .. n : v[k] = l[a + i - 1 + k - 1]
  <2>1. a + i - 1 \in Nat \ {0} /\ a + j - 1 \in Nat /\ a + j - 1 <= Len(l)
    OBVIOUS
  <2>2. /\ v \in Seq(S) /\ Len(v) = (IF a + i - 1 <= a + j - 1 THEN (a + j - 1) - (a + i - 1) + 1 ELSE 0)
        /\ \A k \in 1 .. ((a + j - 1) - (a + i - 1) + 1) : v[k] = l[(a + i - 1) + k - 1]
    BY <2>1, Part
  <2> QED
    BY <2>2
<1>6. ASSUME NEW k \in 1 .. n PROVE u[k] = v[k]
  <2>1. i + k - 1 \in 1 .. Len(p) /\ a + (i + k - 1) - 1 = a + i - 1 + k - 1
    BY <1>2
  <2>2. p[i + k - 1] = l[a + (i + k - 1) - 1]
    BY <1>3, <2>1
  <2> QED
    BY <1>4, <1>5, <2>1, <2>2
<1> HIDE DEF u, v, n
<1>7. u = v
  <2>1. Len(u) = Len(v) /\ \A k \in 1 .. Len(u) : u[k] = v[k]
    BY <1>4, <1>5, <1>6
  <2> QED
    BY <1>4, <1>5, <2>1, SameElements
<1> QED
  BY <1>7 DEF u, v, p

\* Least elements.
LEMMA FirstIs ==
  ASSUME NEW S \in SUBSET Nat, NEW m \in S, \A j \in S : m <= j
  PROVE  First(S) = m
<1>1. First(S) \in S /\ \A j \in S : First(S) <= j
  BY DEF First
<1>2. First(S) <= m /\ m <= First(S) /\ First(S) \in Nat /\ m \in Nat
  BY <1>1
<1> QED
  BY <1>2

\* A non-empty set of places has a first one.
LEMMA FirstOf ==
  ASSUME NEW S \in SUBSET Nat, S # {}
  PROVE  First(S) \in S /\ First(S) \in Nat /\ \A j \in S : First(S) <= j
<1>1. \E i \in S : \A j \in S : i <= j
  BY LeastOf
<1>2. First(S) \in S /\ \A j \in S : First(S) <= j
  BY <1>1 DEF First
<1> QED
  BY <1>2

\* The first place of a character.
LEMMA MarkAt ==
  ASSUME NEW p \in Seq(Chars), NEW c, NEW k \in 1 .. Len(p), p[k] = c,
         \A i \in 1 .. k - 1 : p[i] # c
  PROVE  At(p, c) # {} /\ First(At(p, c)) = k
<1>1. At(p, c) \in SUBSET Nat /\ k \in At(p, c)
  BY DEF At
<1>2. ASSUME NEW j \in At(p, c) PROVE k <= j
  BY DEF At
<1> QED
  BY <1>1, <1>2, FirstIs

\* The characters are different.
LEMMA Different ==
  /\ Space # Colon /\ Space # Bang /\ Space # AtSign
  /\ Colon # Bang /\ Colon # AtSign /\ Bang # AtSign
  BY DEF Space, Colon, Bang, AtSign

\* None of the characters C stands from a to b.
Clear(l, C, a, b) == \A i \in a .. b : l[i] \notin C

\* The prefix of a line, from its ":" to the space at e, read as nick, name and host.
NickOnly(l, e, n, u, h) ==
  /\ Clear(l, {Bang, AtSign}, 2, e - 1)
  /\ n = SubSeq(l, 2, e - 1) /\ u = None /\ h = None
NickAndName(l, e, n, u, h) ==
  \E b \in 2 .. e - 1 :
    /\ l[b] = Bang /\ Clear(l, {Bang, AtSign}, 2, b - 1) /\ Clear(l, {AtSign}, b + 1, e - 1)
    /\ n = SubSeq(l, 2, b - 1) /\ u = SubSeq(l, b + 1, e - 1) /\ h = None
NickNameAndHost(l, e, n, u, h) ==
  \E b \in 2 .. e - 1 : \E a \in b + 1 .. e - 1 :
    /\ l[b] = Bang /\ Clear(l, {Bang, AtSign}, 2, b - 1)
    /\ l[a] = AtSign /\ Clear(l, {AtSign}, b + 1, a - 1)
    /\ n = SubSeq(l, 2, b - 1) /\ u = SubSeq(l, b + 1, a - 1) /\ h = SubSeq(l, a + 1, e - 1)
NickAndHost(l, e, n, u, h) ==
  \E a \in 2 .. e - 1 :
    /\ l[a] = AtSign /\ Clear(l, {Bang, AtSign}, 2, a - 1)
    /\ n = SubSeq(l, 2, a - 1) /\ u = None /\ h = SubSeq(l, a + 1, e - 1)

Prefixed(l, e, n, u, h) ==
  /\ e \in 2 .. Len(l) /\ l[1] = Colon /\ l[e] = Space /\ Clear(l, {Space}, 2, e - 1)
  /\ \/ NickOnly(l, e, n, u, h) \/ NickAndName(l, e, n, u, h)
     \/ NickNameAndHost(l, e, n, u, h) \/ NickAndHost(l, e, n, u, h)

\* What the grammar takes for the prefix is what lies between the ":" and the space.
LEMMA PrefixPlace ==
  ASSUME NEW l \in Seq(Chars), NEW e \in 2 .. Len(l),
         l[1] = Colon, l[e] = Space, Clear(l, {Space}, 2, e - 1)
  PROVE  /\ HasPrefix(l) /\ PrefixEnd(l) = e - 1 /\ PrefixOf(l) = SubSeq(l, 2, e - 1)
         /\ PrefixOf(l) \in Seq(Chars) /\ Len(PrefixOf(l)) = e - 2
         /\ \A i \in 1 .. e - 2 : PrefixOf(l)[i] = l[i + 1]
<1>1. HasPrefix(l)
  BY DEF HasPrefix
<1>2. First(At(l, Space)) = e
  <2>1. \A i \in 1 .. e - 1 : l[i] # Space
    BY Different DEF Clear
  <2> QED
    BY <2>1, MarkAt
<1>3. PrefixEnd(l) = e - 1
  BY <1>1, <1>2 DEF PrefixEnd
<1>4. PrefixOf(l) = SubSeq(l, 2, e - 1)
  BY <1>3 DEF PrefixOf
<1>5. /\ SubSeq(l, 2, e - 1) \in Seq(Chars)
      /\ Len(SubSeq(l, 2, e - 1)) = (IF 2 <= e - 1 THEN e - 1 - 2 + 1 ELSE 0)
      /\ \A i \in 1 .. (e - 1 - 2 + 1) : SubSeq(l, 2, e - 1)[i] = l[2 + i - 1]
  <2>1. e - 1 \in Nat /\ e - 1 <= Len(l)
    OBVIOUS
  <2> QED
    BY <2>1, Part
<1> QED
  BY <1>1, <1>3, <1>4, <1>5

\* A part of the prefix, by positions of the prefix and of the line.
LEMMA PrefixPart ==
  ASSUME NEW l \in Seq(Chars), NEW e \in 2 .. Len(l), NEW i \in Nat \ {0}, NEW j \in Nat,
         j <= e - 2
  PROVE  SubSeq(SubSeq(l, 2, e - 1), i, j) = SubSeq(l, i + 1, j + 1)
<1>1. e - 1 \in Nat /\ e - 1 <= Len(l) /\ j <= (e - 1) - 2 + 1
  OBVIOUS
<1>2. SubSeq(SubSeq(l, 2, e - 1), i, j) = SubSeq(l, 2 + i - 1, 2 + j - 1)
  BY <1>1, PartOfPart
<1>3. 2 + i - 1 = i + 1 /\ 2 + j - 1 = j + 1
  OBVIOUS
<1> QED
  BY <1>2, <1>3

\* The parser's nick, name and host are the grammar's.
LEMMA PrefixGrammar ==
  ASSUME NEW l \in Seq(Chars), NEW e, NEW n, NEW u, NEW h,
         Prefixed(l, e, n, u, h), GoodPrefix(PrefixOf(l))
  PROVE  /\ HasPrefix(l) /\ PrefixEnd(l) = e - 1
         /\ Grammar(l)[1] = n /\ Grammar(l)[2] = u /\ Grammar(l)[3] = h
<1> DEFINE p == PrefixOf(l)
           b == BangOf(p)
           a == AtOf(p)
           nickEnd == IF b < a THEN b ELSE a
<1>1. e \in 2 .. Len(l) /\ l[1] = Colon /\ l[e] = Space /\ Clear(l, {Space}, 2, e - 1)
  BY DEF Prefixed
<1>2. /\ HasPrefix(l) /\ PrefixEnd(l) = e - 1 /\ p = SubSeq(l, 2, e - 1)
      /\ p \in Seq(Chars) /\ Len(p) = e - 2
      /\ \A i \in 1 .. e - 2 : p[i] = l[i + 1]
  BY <1>1, PrefixPlace
<1>3. /\ Grammar(l)[1] = SubSeq(p, 1, nickEnd - 1)
      /\ Grammar(l)[2] = (IF b <= Len(p) THEN SubSeq(p, b + 1, a - 1) ELSE None)
      /\ Grammar(l)[3] = (IF a <= Len(p) THEN SubSeq(p, a + 1, Len(p)) ELSE None)
  BY <1>2 DEF Grammar
<1>4. /\ \A i, j \in At(p, Bang) : i = j
      /\ \A i, j \in At(p, AtSign) : i = j
      /\ b <= a
  BY DEF GoodPrefix
<1>5. ASSUME NEW c, NEW k \in 2 .. e - 1, l[k] = c, \A i \in 2 .. k - 1 : l[i] # c
      PROVE  At(p, c) # {} /\ First(At(p, c)) = k - 1 /\ k - 1 \in At(p, c)
  <2>1. k - 1 \in 1 .. Len(p) /\ p[k - 1] = c
    BY <1>1, <1>2, <1>5
  <2>2. \A i \in 1 .. (k - 1) - 1 : p[i] # c
    BY <1>1, <1>2, <1>5
  <2>3. k - 1 \in At(p, c)
    BY <2>1 DEF At
  <2> DEFINE q == k - 1
  <2>4. p \in Seq(Chars) /\ q \in 1 .. Len(p) /\ p[q] = c /\ \A i \in 1 .. q - 1 : p[i] # c
    BY <1>2, <2>1, <2>2
  <2> HIDE DEF q, p, b, a, nickEnd
  <2>5. At(p, c) # {} /\ First(At(p, c)) = q
    BY <2>4, MarkAt
  <2> QED
    BY <2>3, <2>5 DEF q
<1>6. ASSUME NEW c, Clear(l, {c}, 2, e - 1) PROVE At(p, c) = {}
  BY <1>1, <1>2, <1>6 DEF At, Clear
<1>7. CASE NickOnly(l, e, n, u, h)
  <2>1. At(p, Bang) = {} /\ At(p, AtSign) = {}
    BY <1>6, <1>7 DEF NickOnly, Clear
  <2>2. b = e - 1 /\ a = e - 1
    BY <1>1, <1>2, <2>1 DEF BangOf, AtOf
  <2>3. SubSeq(p, 1, e - 2) = SubSeq(l, 2, e - 1)
    BY <1>1, <1>2
  <2> QED
    BY <1>1, <1>2, <1>3, <1>7, <2>2, <2>3 DEF NickOnly
<1>8. CASE NickAndName(l, e, n, u, h)
  <2>1. PICK k \in 2 .. e - 1 :
          /\ l[k] = Bang /\ Clear(l, {Bang, AtSign}, 2, k - 1) /\ Clear(l, {AtSign}, k + 1, e - 1)
          /\ n = SubSeq(l, 2, k - 1) /\ u = SubSeq(l, k + 1, e - 1) /\ h = None
    BY <1>8 DEF NickAndName
  <2>2. At(p, Bang) # {} /\ First(At(p, Bang)) = k - 1
    BY <1>5, <2>1 DEF Clear
  <2>3. At(p, AtSign) = {}
    BY <1>1, <1>6, <2>1, Different DEF Clear
  <2>4. b = k - 1 /\ a = e - 1
    BY <1>1, <1>2, <2>2, <2>3 DEF BangOf, AtOf
  <2>5. SubSeq(p, 1, k - 2) = SubSeq(l, 2, k - 1) /\ SubSeq(p, k, e - 2) = SubSeq(l, k + 1, e - 1)
    BY <1>1, <1>2, PrefixPart
  <2> HIDE DEF p, b, a
  <2>6. nickEnd - 1 = k - 2 /\ b <= Len(p) /\ b + 1 = k /\ a - 1 = e - 2 /\ ~(a <= Len(p))
    BY <1>1, <1>2, <2>4
  <2> HIDE DEF nickEnd
  <2> QED
    BY <1>2, <1>3, <2>1, <2>5, <2>6
<1>9. CASE NickNameAndHost(l, e, n, u, h)
  <2>1. PICK k \in 2 .. e - 1 : \E m \in k + 1 .. e - 1 :
          /\ l[k] = Bang /\ Clear(l, {Bang, AtSign}, 2, k - 1)
          /\ l[m] = AtSign /\ Clear(l, {AtSign}, k + 1, m - 1)
          /\ n = SubSeq(l, 2, k - 1) /\ u = SubSeq(l, k + 1, m - 1) /\ h = SubSeq(l, m + 1, e - 1)
    BY <1>9 DEF NickNameAndHost
  <2>2. PICK m \in k + 1 .. e - 1 :
          /\ l[k] = Bang /\ Clear(l, {Bang, AtSign}, 2, k - 1)
          /\ l[m] = AtSign /\ Clear(l, {AtSign}, k + 1, m - 1)
          /\ n = SubSeq(l, 2, k - 1) /\ u = SubSeq(l, k + 1, m - 1) /\ h = SubSeq(l, m + 1, e - 1)
    BY <2>1
  <2>3. At(p, Bang) # {} /\ First(At(p, Bang)) = k - 1
    BY <1>5, <2>2 DEF Clear
  <2>4. m \in 2 .. e - 1 /\ \A i \in 2 .. m - 1 : l[i] # AtSign
    <3>1. ASSUME NEW i \in 2 .. m - 1 PROVE l[i] # AtSign
      <4>1. i \in 2 .. k - 1 \/ i = k \/ i \in k + 1 .. m - 1
        BY <1>1
      <4> QED
        BY <2>2, <4>1, Different DEF Clear
    <3>2. m \in 2 .. e - 1
      BY <1>1
    <3> QED
      BY <3>1, <3>2
  <2>5. At(p, AtSign) # {} /\ First(At(p, AtSign)) = m - 1
    BY <1>5, <2>2, <2>4
  <2>6. b = k - 1 /\ a = m - 1
    BY <2>3, <2>5 DEF BangOf, AtOf
  <2>7. /\ SubSeq(p, 1, k - 2) = SubSeq(l, 2, k - 1) /\ SubSeq(p, k, m - 2) = SubSeq(l, k + 1, m - 1)
        /\ SubSeq(p, m, e - 2) = SubSeq(l, m + 1, e - 1)
    <3>1. /\ 1 \in Nat \ {0} /\ k - 2 \in Nat /\ k - 2 <= e - 2 /\ 1 + 1 = 2 /\ k - 2 + 1 = k - 1
          /\ k \in Nat \ {0} /\ m - 2 \in Nat /\ m - 2 <= e - 2 /\ m - 2 + 1 = m - 1
          /\ m \in Nat \ {0} /\ e - 2 \in Nat /\ e - 2 <= e - 2 /\ e - 2 + 1 = e - 1
      BY <1>1
    <3>2. SubSeq(p, 1, k - 2) = SubSeq(l, 1 + 1, k - 2 + 1)
      BY <1>1, <1>2, <3>1, PrefixPart
    <3>3. SubSeq(p, k, m - 2) = SubSeq(l, k + 1, m - 2 + 1)
      BY <1>1, <1>2, <3>1, PrefixPart
    <3>4. SubSeq(p, m, e - 2) = SubSeq(l, m + 1, e - 2 + 1)
      BY <1>1, <1>2, <3>1, PrefixPart
    <3> HIDE DEF p
    <3> QED
      BY <3>1, <3>2, <3>3, <3>4
  <2> HIDE DEF p, b, a
  <2>8. /\ nickEnd - 1 = k - 2 /\ b <= Len(p) /\ b + 1 = k /\ a - 1 = m - 2
        /\ a <= Len(p) /\ a + 1 = m /\ Len(p) = e - 2
    <3>1. Len(p) = e - 2 /\ b = k - 1 /\ a = m - 1
          /\ k \in 2 .. e - 1 /\ m \in k + 1 .. e - 1 /\ e \in Nat
      BY <1>1, <1>2, <2>6
    <3>2. nickEnd = k - 1
      BY <3>1
    <3> HIDE DEF nickEnd
    <3> QED
      BY <3>1, <3>2
  <2> HIDE DEF nickEnd
  <2> QED
    BY <1>2, <1>3, <2>2, <2>7, <2>8
<1>10. CASE NickAndHost(l, e, n, u, h)
  <2>1. PICK m \in 2 .. e - 1 :
          /\ l[m] = AtSign /\ Clear(l, {Bang, AtSign}, 2, m - 1)
          /\ n = SubSeq(l, 2, m - 1) /\ u = None /\ h = SubSeq(l, m + 1, e - 1)
    BY <1>10 DEF NickAndHost
  <2>2. At(p, AtSign) # {} /\ First(At(p, AtSign)) = m - 1
    BY <1>5, <2>1 DEF Clear
  <2>3. a = m - 1
    BY <2>2 DEF AtOf
  <2>4. At(p, Bang) = {}
    <3> SUFFICES ASSUME At(p, Bang) # {} PROVE FALSE
      OBVIOUS
    <3>1. PICK i \in At(p, Bang) : TRUE
      OBVIOUS
    <3>2. At(p, Bang) \subseteq Nat
      BY DEF At
    <3>3. First(At(p, Bang)) = i
      BY <1>4, <3>1, <3>2, FirstIs
    <3>4. i <= m - 1
      BY <1>4, <2>3, <3>3 DEF BangOf
    <3>5. i \in 1 .. e - 2 /\ p[i] = Bang
      BY <1>2 DEF At
    <3>6. l[i + 1] = Bang /\ i + 1 \in 2 .. m
      BY <1>2, <3>4, <3>5
    <3> QED
      BY <2>1, <3>6, Different DEF Clear
  <2>5. b = e - 1
    BY <1>1, <1>2, <2>4 DEF BangOf
  <2>6. SubSeq(p, 1, m - 2) = SubSeq(l, 2, m - 1) /\ SubSeq(p, m, e - 2) = SubSeq(l, m + 1, e - 1)
    BY <1>1, <1>2, PrefixPart
  <2> HIDE DEF p, b, a
  <2>7. /\ nickEnd - 1 = m - 2 /\ ~(b <= Len(p)) /\ a <= Len(p) /\ a + 1 = m /\ Len(p) = e - 2
    <3>1. Len(p) = e - 2 /\ a = m - 1 /\ b = e - 1 /\ m \in 2 .. e - 1 /\ e \in Nat
      BY <1>1, <1>2, <2>3, <2>5
    <3>2. nickEnd = m - 1
      BY <3>1
    <3> HIDE DEF nickEnd
    <3> QED
      BY <3>1, <3>2
  <2> HIDE DEF nickEnd
  <2> QED
    BY <1>2, <1>3, <2>1, <2>6, <2>7
<1> QED
  BY <1>2, <1>7, <1>8, <1>9, <1>10 DEF Prefixed

\* The command lies between the prefix and the space at c.
LEMMA CommandGrammar ==
  ASSUME NEW l \in Seq(Chars), NEW e \in Nat, NEW c \in Nat, e < c, c <= Len(l),
         PrefixEnd(l) = (IF e = 0 THEN 0 ELSE e - 1), e # 0 => l[e] = Space,
         l[c] = Space, Clear(l, {Space}, e + 1, c - 1), WellFormed(l)
  PROVE  e + 2 <= c /\ CommandAt(l) = e + 1 /\ CommandEnd(l) = c - 1
<1> DEFINE word == {j \in PrefixEnd(l) + 1 .. Len(l) : l[j] # Space}
           q == CommandAt(l)
           after == {j \in At(l, Space) : j > q}
<1>1. q \in word /\ \A j \in word : q <= j
  <2>1. word \in SUBSET Nat /\ word # {}
    BY DEF WellFormed
  <2>2. q = First(word)
    BY DEF CommandAt, Begins
  <2> QED
    BY <2>1, <2>2, FirstOf
<1>2. q \in Nat /\ q >= e
  BY <1>1
<1>3. CommandEnd(l) \in Nat /\ CommandEnd(l) >= q
  <2>1. after \in SUBSET Nat /\ after # {}
    BY DEF WellFormed, At
  <2>2. First(after) \in Nat /\ First(after) > q
    BY <2>1, FirstOf
  <2> QED
    BY <1>2, <2>2 DEF CommandEnd
<1>4. TrailingAt(l) \in Nat /\ TrailingAt(l) > e
  <2> DEFINE S == {j \in CommandEnd(l) + 2 .. Len(l) : l[j] = Colon /\ l[j - 1] = Space}
  <2>1. TrailingAt(l) = IF S = {} THEN Len(l) + 1 ELSE First(S)
    BY DEF TrailingAt
  <2>2. S \in SUBSET Nat /\ \A j \in S : j > e
    BY <1>2, <1>3
  <2> HIDE DEF S
  <2>3. S # {} => First(S) \in Nat /\ First(S) > e
    BY <2>2, FirstOf
  <2> QED
    BY <2>1, <2>3
<1>5. l[e + 1] # Space
  <2>1. CASE e = 0
    BY <2>1 DEF WellFormed
  <2>2. CASE e # 0
    <3>1. e \in At(l, Space)
      BY <2>2 DEF At
    <3>2. e + 1 \in At(l, Space) => e > TrailingAt(l)
      BY <3>1 DEF WellFormed
    <3>3. e + 1 \in At(l, Space) => FALSE
      BY <1>4, <3>2
    <3> QED
      BY <3>3 DEF At
  <2> QED
    BY <2>1, <2>2
<1>6. e + 2 <= c
  BY <1>5
<1>7. q = e + 1
  <2>1. e + 1 \in word
    BY <1>5, <1>6
  <2>2. e + 1 >= q
    BY <1>1, <2>1
  <2>3. q # e
    BY <1>1
  <2> QED
    BY <1>2, <2>2, <2>3
<1>8. First(after) = c
  <2>1. after \in SUBSET Nat /\ c \in after
    BY <1>6, <1>7 DEF At
  <2>2. ASSUME NEW j \in after PROVE c <= j
    <3>1. j \in Nat /\ j > e + 1 /\ l[j] = Space
      BY <1>7 DEF At
    <3> QED
      BY <3>1 DEF Clear
  <2> QED
    BY <2>1, <2>2, FirstIs
<1>9. CommandEnd(l) = c - 1
  BY <1>8 DEF CommandEnd
<1> QED
  BY <1>6, <1>7, <1>9

\* The members of an increasing sequence, counted and found by their number.
Ascending(f, n, S) ==
  /\ f \in [1 .. n -> Nat] /\ S = {f[k] : k \in 1 .. n}
  /\ \A j, k \in 1 .. n : j < k => f[j] < f[k]

LEMMA Increasing ==
  ASSUME NEW n \in Nat, NEW f, NEW S, Ascending(f, n, S)
  PROVE  Cardinality(S) = n /\ \A k \in 1 .. n : Nth(S, k) = f[k]
<1>0. /\ f \in [1 .. n -> Nat] /\ S = {f[k] : k \in 1 .. n}
      /\ \A j, k \in 1 .. n : j < k => f[j] < f[k]
  BY DEF Ascending
<1> USE <1>0
<1>1. ASSUME NEW m \in 0 .. n PROVE Cardinality({f[k] : k \in 1 .. m}) = m
  <2> DEFINE T == {f[k] : k \in 1 .. m}
             g == [k \in 1 .. m |-> f[k]]
  <2>1. g \in [1 .. m -> T] /\ \A t \in T : \E k \in 1 .. m : g[k] = t
    OBVIOUS
  <2>2. ASSUME NEW j \in 1 .. m, NEW k \in 1 .. m, g[j] = g[k] PROVE j = k
    <3>1. j \in 1 .. n /\ k \in 1 .. n /\ f[j] = f[k] /\ f[j] \in Nat /\ f[k] \in Nat
      BY <2>2
    <3>2. ~(j < k) /\ ~(k < j)
      BY <3>1
    <3> QED
      BY <3>1, <3>2
  <2>3. g \in Bijection(1 .. m, T)
    BY <2>1, <2>2 DEF Bijection, Injection, Surjection, IsInjective
  <2>4. ExistsBijection(1 .. m, T)
    BY <2>3 DEF ExistsBijection
  <2> QED
    BY <2>4, FS_CountingElements
<1>2. ASSUME NEW k \in 1 .. n PROVE Cardinality({i \in S : i <= f[k]}) = k
  <2>1. {i \in S : i <= f[k]} = {f[j] : j \in 1 .. k}
    <3>1. ASSUME NEW j \in 1 .. n, f[j] <= f[k] PROVE j \in 1 .. k
      <4>1. f[j] \in Nat /\ f[k] \in Nat /\ ~(f[k] < f[j])
        BY <3>1
      <4>2. ~(k < j)
        BY <4>1
      <4> QED
        BY <4>2
    <3>2. ASSUME NEW j \in 1 .. k PROVE f[j] <= f[k] /\ j \in 1 .. n
      <4>1. j \in 1 .. n /\ f[j] \in Nat /\ f[k] \in Nat /\ (j = k \/ j < k)
        OBVIOUS
      <4> QED
        BY <4>1
    <3> QED
      BY <3>1, <3>2
  <2>2. k \in 0 .. n
    OBVIOUS
  <2> QED
    BY <1>1, <2>1, <2>2
<1>3. Cardinality(S) = n
  <2>1. n \in 0 .. n
    OBVIOUS
  <2> QED
    BY <1>1, <2>1
<1>4. ASSUME NEW k \in 1 .. n PROVE Nth(S, k) = f[k]
  <2> DEFINE r == Nth(S, k)
  <2>1. f[k] \in S /\ Cardinality({i \in S : i <= f[k]}) = k
    BY <1>2
  <2>2. r \in S /\ Cardinality({i \in S : i <= r}) = k
    BY <2>1 DEF Nth
  <2>3. PICK m \in 1 .. n : r = f[m]
    BY <2>2
  <2>4. Cardinality({i \in S : i <= f[m]}) = m
    BY <1>2
  <2> QED
    BY <2>2, <2>3, <2>4
<1> QED
  BY <1>3, <1>4

\* The spaces from c to z are those at sp, and none but the last is followed by ":".
Spaced(l, c, z, n, sp) ==
  /\ n \in Nat \ {0} /\ sp \in [1 .. n -> Nat] /\ sp[1] = c /\ sp[n] <= z
  /\ \A j, k \in 1 .. n : j < k => sp[j] < sp[k]
  /\ \A k \in 1 .. n : l[sp[k]] = Space /\ (sp[k] < z => l[sp[k] + 1] # Colon)
  /\ \A i \in c .. z : l[i] = Space => \E k \in 1 .. n : i = sp[k]

\* Spaces lie between the first and the last.
LEMMA SpacedBounds ==
  ASSUME NEW l, NEW c \in Nat, NEW z \in Nat, NEW n, NEW sp, Spaced(l, c, z, n, sp),
         NEW k \in 1 .. n
  PROVE  sp[k] \in Nat /\ c <= sp[k] /\ sp[k] <= sp[n] /\ sp[k] <= z
<1>1. n \in Nat \ {0} /\ sp \in [1 .. n -> Nat] /\ sp[1] = c /\ sp[n] <= z
  BY DEF Spaced
<1>2. 1 \in 1 .. n /\ n \in 1 .. n /\ sp[k] \in Nat /\ sp[n] \in Nat /\ (k = 1 \/ 1 < k) /\ (k = n \/ k < n)
  BY <1>1
<1>3. (1 < k => sp[1] < sp[k]) /\ (k < n => sp[k] < sp[n])
  BY <1>2 DEF Spaced
<1> QED
  BY <1>1, <1>2, <1>3

\* The places after the spaces.
After(n, sp) == {sp[k] + 1 : k \in 1 .. n}

\* The grammar's parameters begin there; the last may be a trailing one.
LEMMA StartsGrammar ==
  ASSUME NEW l \in Seq(Chars), NEW c \in Nat \ {0}, NEW z \in Nat, z <= Len(l),
         NEW n, NEW sp, Spaced(l, c, z, n, sp), CommandEnd(l) = c - 1, WellFormed(l),
         z < Len(l) => sp[n] = z /\ l[z + 1] = Colon
  PROVE  /\ TrailingAt(l) = z + 1 /\ Starts(l) = After(n, sp)
         /\ \A k \in 1 .. n : sp[k] + 1 <= Len(l) /\ l[sp[k] + 1] # Space
<1>0. n \in Nat \ {0} /\ \A k \in 1 .. n : sp[k] \in Nat /\ c <= sp[k] /\ sp[k] <= z
  <2>1. n \in Nat \ {0}
    BY DEF Spaced
  <2>2. ASSUME NEW k \in 1 .. n PROVE sp[k] \in Nat /\ c <= sp[k] /\ sp[k] <= z
    BY SpacedBounds
  <2> QED
    BY <2>1, <2>2
<1>1. TrailingAt(l) = z + 1
  <2> DEFINE S == {j \in c + 1 .. Len(l) : l[j] = Colon /\ l[j - 1] = Space}
  <2>1. TrailingAt(l) = IF S = {} THEN Len(l) + 1 ELSE First(S)
    <3>1. CommandEnd(l) + 2 = c + 1
      OBVIOUS
    <3> QED
      BY <3>1 DEF TrailingAt
  <2>2. ASSUME NEW j \in S PROVE j > z
    <3>1. j \in Nat /\ j >= c + 1 /\ l[j] = Colon /\ l[j - 1] = Space
      OBVIOUS
    <3>2. SUFFICES ASSUME j <= z PROVE FALSE
      BY <3>1
    <3>3. j - 1 \in c .. z
      BY <3>1, <3>2
    <3>4. PICK k \in 1 .. n : j - 1 = sp[k]
      BY <3>1, <3>3 DEF Spaced
    <3>5. sp[k] < z /\ sp[k] + 1 = j
      BY <3>1, <3>2, <3>4
    <3> QED
      BY <3>1, <3>5 DEF Spaced
  <2>3. CASE z = Len(l)
    <3>1. S = {}
      BY <2>2, <2>3
    <3> QED
      BY <2>1, <2>3, <3>1
  <2>4. CASE z < Len(l)
    <3>1. sp[n] = z /\ l[z + 1] = Colon /\ l[sp[n]] = Space /\ c <= z
      BY <1>0, <2>4 DEF Spaced
    <3>2. S \in SUBSET Nat /\ z + 1 \in S
      BY <2>4, <3>1
    <3>3. \A j \in S : z + 1 <= j
      BY <2>2
    <3> HIDE DEF S
    <3>4. First(S) = z + 1
      BY <3>2, <3>3, FirstIs
    <3> QED
      BY <2>1, <3>2, <3>4
  <2> QED
    BY <2>3, <2>4
<1>2. ASSUME NEW k \in 1 .. n PROVE sp[k] + 1 <= Len(l) /\ l[sp[k] + 1] # Space
  <2>0. sp[k] \in Nat /\ c <= sp[k] /\ sp[k] <= z /\ l[sp[k]] = Space
    BY <1>0 DEF Spaced
  <2>1. sp[k] # Len(l)
    <3> SUFFICES ASSUME sp[k] = Len(l) PROVE FALSE
      OBVIOUS
    <3>1. l[Len(l)] = Space
      BY <2>0
    <3>2. TrailingAt(l) <= Len(l)
      BY <3>1 DEF WellFormed
    <3> QED
      BY <1>1, <2>0, <3>2
  <2>2. sp[k] \in At(l, Space) /\ sp[k] + 1 <= Len(l)
    BY <2>0, <2>1 DEF At
  <2>3. sp[k] + 1 \in At(l, Space) => sp[k] > z + 1
    BY <1>1, <2>2 DEF WellFormed
  <2>4. sp[k] + 1 \notin At(l, Space)
    BY <2>0, <2>3
  <2> QED
    BY <2>0, <2>2, <2>4 DEF At
<1>3. Starts(l) = After(n, sp)
  <2>1. ASSUME NEW k \in 1 .. n PROVE sp[k] + 1 \in Starts(l)
    <3> DEFINE j == sp[k] + 1
    <3>1. j \in CommandEnd(l) + 2 .. Len(l) /\ j - 1 = sp[k] /\ j <= TrailingAt(l)
      BY <1>0, <1>1, <1>2
    <3>2. l[sp[k]] = Space
      BY DEF Spaced
    <3>3. l[j - 1] = Space /\ l[j] # Space
      BY <1>2, <3>1, <3>2
    <3> HIDE DEF j
    <3>4. j \in Starts(l)
      BY <3>1, <3>3 DEF Starts
    <3> QED
      BY <3>4 DEF j
  <2>2. ASSUME NEW j \in Starts(l) PROVE \E k \in 1 .. n : j = sp[k] + 1
    <3>1. j \in c + 1 .. Len(l) /\ l[j - 1] = Space /\ j <= z + 1
      BY <1>1 DEF Starts
    <3>2. j - 1 \in c .. z
      BY <3>1
    <3>3. PICK k \in 1 .. n : j - 1 = sp[k]
      BY <3>1, <3>2 DEF Spaced
    <3>4. j = sp[k] + 1
      BY <3>1, <3>3
    <3> QED
      BY <3>4
  <2> QED
    BY <2>1, <2>2 DEF After
<1> QED
  BY <1>1, <1>2, <1>3

\* What the parser calls on_param with, for the k-th parameter of a complete line.
TextOf(l, z, n, sp, k) ==
  IF k < n THEN SubSeq(l, sp[k] + 1, sp[k + 1] - 1)
  ELSE IF z = Len(l) THEN SubSeq(l, sp[n] + 1, Len(l)) ELSE SubSeq(l, z + 2, Len(l))

\* The grammar makes the same of it.
LEMMA ParamGrammar ==
  ASSUME NEW l \in Seq(Chars), NEW c \in Nat \ {0}, NEW z \in Nat, z <= Len(l),
         NEW n, NEW sp, Spaced(l, c, z, n, sp), CommandEnd(l) = c - 1, WellFormed(l),
         z < Len(l) => sp[n] = z /\ l[z + 1] = Colon,
         NEW k \in 1 .. n
  PROVE  ParamOf(l, sp[k] + 1) = TextOf(l, z, n, sp, k)
<1> DEFINE j == sp[k] + 1
           S == {m \in At(l, Space) : m > j}
<1>0. n \in Nat \ {0} /\ k \in Nat /\ k <= n /\ k >= 1
  BY DEF Spaced
<1>1. /\ \A i \in 1 .. n : sp[i] \in Nat /\ c <= sp[i] /\ sp[i] <= sp[n] /\ sp[i] <= z
      /\ \A i, m \in 1 .. n : i < m => sp[i] < sp[m]
  <2>1. ASSUME NEW i \in 1 .. n PROVE sp[i] \in Nat /\ c <= sp[i] /\ sp[i] <= sp[n] /\ sp[i] <= z
    BY SpacedBounds
  <2> QED
    BY <2>1 DEF Spaced
<1>2. j \in Nat /\ j <= Len(l) /\ l[j] # Space
  BY <1>1, StartsGrammar
<1>3. ASSUME NEW m \in Nat, m <= z, m >= c, l[m] = Space, m > j PROVE \E i \in 1 .. n : m = sp[i] /\ k < i
  <2>1. PICK i \in 1 .. n : m = sp[i]
    BY <1>3 DEF Spaced
  <2>2. k < i
    <3> SUFFICES ASSUME ~(k < i) PROVE FALSE
      OBVIOUS
    <3>1. i = k \/ i < k
      BY <1>0
    <3>2. sp[i] <= sp[k] /\ sp[i] \in Nat /\ sp[k] \in Nat
      BY <1>1, <3>1
    <3> QED
      BY <1>3, <2>1, <3>2
  <2> QED
    BY <2>1, <2>2
<1>4. CASE k < n
  <2>1. k + 1 \in 1 .. n /\ sp[k] < sp[k + 1]
    BY <1>0, <1>1, <1>4
  <2>2. sp[k + 1] \in Nat /\ sp[k + 1] <= z /\ sp[k + 1] <= Len(l) /\ l[sp[k + 1]] = Space
    BY <1>1, <2>1 DEF Spaced
  <2>3. sp[k + 1] # j
    BY <1>2, <2>2
  <2>4. sp[k + 1] > j
    BY <1>1, <2>1, <2>2, <2>3
  <2>5. sp[k + 1] \in S /\ S \in SUBSET Nat
    BY <1>2, <2>2, <2>4 DEF At
  <2>6. ASSUME NEW m \in S PROVE sp[k + 1] <= m
    <3>1. m \in Nat /\ l[m] = Space /\ m > j /\ m >= c
      BY <1>1, <1>2 DEF At
    <3>2. CASE m <= z
      <4>1. PICK i \in 1 .. n : m = sp[i] /\ k < i
        BY <1>3, <3>1, <3>2
      <4>2. i = k + 1 \/ k + 1 < i
        BY <1>0, <4>1
      <4> QED
        BY <1>1, <2>1, <4>1, <4>2
    <3> QED
      BY <2>2, <3>1, <3>2
  <2> HIDE DEF S
  <2>7. First(S) = sp[k + 1] /\ S # {}
    BY <2>5, <2>6, FirstIs
  <2>8. l[j] # Colon
    <3>1. sp[k] < z
      BY <1>1, <2>1, <2>2
    <3> QED
      BY <3>1 DEF Spaced
  <2>9. ParamEnd(l, j) = sp[k + 1] - 1
    BY <2>7, <2>8 DEF ParamEnd, S
  <2> HIDE DEF j
  <2>10. ParamOf(l, j) = SubSeq(l, j, sp[k + 1] - 1)
    BY <2>8, <2>9 DEF ParamOf
  <2> QED
    BY <1>4, <2>10 DEF TextOf, j
<1>5. CASE k = n /\ z = Len(l)
  <2>1. S = {}
    <3> SUFFICES ASSUME NEW m \in S PROVE FALSE
      OBVIOUS
    <3>1. m \in Nat /\ l[m] = Space /\ m > j /\ m >= c /\ m <= z
      BY <1>1, <1>2, <1>5 DEF At
    <3>2. PICK i \in 1 .. n : k < i
      BY <1>3, <3>1
    <3> QED
      BY <1>0, <1>5, <3>2
  <2>2. l[j] # Colon
    <3>1. sp[k] < z
      BY <1>1, <1>2, <1>5
    <3> QED
      BY <3>1 DEF Spaced
  <2> HIDE DEF S
  <2>3. ParamEnd(l, j) = Len(l)
    BY <2>1, <2>2 DEF ParamEnd, S
  <2> HIDE DEF j
  <2>4. ParamOf(l, j) = SubSeq(l, j, Len(l))
    BY <2>2, <2>3 DEF ParamOf
  <2>5. ~(k < n) /\ j = sp[n] + 1
    BY <1>0, <1>5 DEF j
  <2> QED
    BY <1>5, <2>4, <2>5 DEF TextOf, j
<1>6. CASE k = n /\ z # Len(l)
  <2>1. j = z + 1 /\ l[j] = Colon /\ j + 1 = z + 2
    BY <1>6
  <2>2. ParamEnd(l, j) = Len(l)
    BY <2>1 DEF ParamEnd
  <2> HIDE DEF j
  <2>3. ParamOf(l, j) = SubSeq(l, z + 2, Len(l))
    BY <2>1, <2>2 DEF ParamOf
  <2>4. ~(k < n)
    BY <1>0, <1>6
  <2> QED
    BY <1>6, <2>3, <2>4 DEF TextOf, j
<1> QED
  BY <1>0, <1>4, <1>5, <1>6

\* All of them, in their order.
LEMMA ParamsGrammar ==
  ASSUME NEW l \in Seq(Chars), NEW c \in Nat \ {0}, NEW z \in Nat, z <= Len(l),
         NEW n, NEW sp, Spaced(l, c, z, n, sp), CommandEnd(l) = c - 1, WellFormed(l),
         z < Len(l) => sp[n] = z /\ l[z + 1] = Colon
  PROVE  n <= MaxParams /\ ParamsOf(l) = [k \in 1 .. n |-> TextOf(l, z, n, sp, k)]
<1>0. n \in Nat \ {0} /\ sp \in [1 .. n -> Nat]
  BY DEF Spaced
<1> DEFINE f == [k \in 1 .. n |-> sp[k] + 1]
<1>1. f \in [1 .. n -> Nat] /\ \A j, k \in 1 .. n : j < k => f[j] < f[k]
  BY <1>0 DEF Spaced
<1>2. Starts(l) = {f[k] : k \in 1 .. n}
  <2>1. Starts(l) = After(n, sp)
    BY StartsGrammar
  <2> QED
    BY <2>1 DEF After
<1> HIDE DEF f
<1>3. Cardinality(Starts(l)) = n /\ \A k \in 1 .. n : Nth(Starts(l), k) = f[k]
  <2>1. n \in Nat /\ Ascending(f, n, Starts(l))
    BY <1>0, <1>1, <1>2 DEF Ascending
  <2> QED
    BY <2>1, Increasing
<1>4. \A k \in 1 .. n : ParamOf(l, f[k]) = TextOf(l, z, n, sp, k)
  <2>1. ASSUME NEW k \in 1 .. n PROVE ParamOf(l, f[k]) = TextOf(l, z, n, sp, k)
    <3>1. f[k] = sp[k] + 1
      BY DEF f
    <3> QED
      BY <3>1, ParamGrammar
  <2> QED
    BY <2>1
<1>5. ParamsOf(l) = [k \in 1 .. n |-> TextOf(l, z, n, sp, k)]
  BY <1>3, <1>4 DEF ParamsOf
<1>6. Len(ParamsOf(l)) = n
  BY <1>0, <1>5
<1> QED
  BY <1>5, <1>6 DEF WellFormed

-----------------------------------------------------------------------------
(* What the parser has read of the line l when it is in a state, with last  *)
(* at k and the result <<n, u, h, m, ps>>.                                  *)

Added(ps, t) == IF Len(ps) < MaxParams THEN Append(ps, t) ELSE ps

PrefixRead(l, e, n, u, h) ==
  \/ e = 0 /\ (l # <<>> => l[1] # Colon) /\ n = None /\ u = None /\ h = None
  \/ Prefixed(l, e, n, u, h)
CommandRead(l, e, c, m) ==
  /\ e \in Nat /\ c \in Nat /\ e < c /\ c <= Len(l)
  /\ l[c] = Space /\ Clear(l, {Space}, e + 1, c - 1) /\ m = SubSeq(l, e + 1, c - 1)
ParamsRead(l, j, sp, ps) ==
  /\ ps \in Seq(Seq(Chars))
  /\ Len(ps) = IF j - 1 <= MaxParams THEN j - 1 ELSE MaxParams
  /\ \A i \in 1 .. Len(ps) : ps[i] = SubSeq(l, sp[i] + 1, sp[i + 1] - 1)
Read(l, z, n, u, h, m, ps, e, c, j, sp) ==
  /\ PrefixRead(l, e, n, u, h) /\ CommandRead(l, e, c, m)
  /\ c <= z /\ Spaced(l, c, z, j, sp) /\ ParamsRead(l, j, sp, ps)

NickState(l, k, n, u, h, m, ps) ==
  /\ l # <<>> /\ k = 1 /\ l[1] = Colon /\ Clear(l, {Space, Bang, AtSign}, 2, Len(l))
  /\ n = None /\ u = None /\ h = None /\ m = None /\ ps = <<>>
NameState(l, k, n, u, h, m, ps) ==
  /\ k \in 2 .. Len(l) /\ l[1] = Colon /\ l[k] = Bang
  /\ Clear(l, {Space}, 2, Len(l)) /\ Clear(l, {Bang, AtSign}, 2, k - 1)
  /\ Clear(l, {AtSign}, k + 1, Len(l))
  /\ n = SubSeq(l, 2, k - 1) /\ u = None /\ h = None /\ m = None /\ ps = <<>>
HostState(l, k, n, u, h, m, ps) ==
  /\ k \in 2 .. Len(l) /\ l[1] = Colon /\ l[k] = AtSign /\ Clear(l, {Space}, 2, Len(l))
  /\ \/ Clear(l, {Bang, AtSign}, 2, k - 1) /\ n = SubSeq(l, 2, k - 1) /\ u = None
     \/ \E b \in 2 .. k - 1 :
          /\ l[b] = Bang /\ Clear(l, {Bang, AtSign}, 2, b - 1) /\ Clear(l, {AtSign}, b + 1, k - 1)
          /\ n = SubSeq(l, 2, b - 1) /\ u = SubSeq(l, b + 1, k - 1)
  /\ h = None /\ m = None /\ ps = <<>>
CommandState(l, k, n, u, h, m, ps) ==
  /\ k \in Nat /\ k <= Len(l) /\ PrefixRead(l, k, n, u, h)
  /\ Clear(l, {Space}, k + 1, Len(l)) /\ m = None /\ ps = <<>>
ParamsState(l, k, n, u, h, m, ps) ==
  \E e, c, j, sp : Read(l, Len(l), n, u, h, m, ps, e, c, j, sp) /\ k = sp[j]
TrailingState(l, k, n, u, h, m, ps) ==
  /\ k \in Nat \ {0} /\ k <= Len(l) /\ l[k] = Colon
  /\ \E e, c, j, sp : Read(l, k - 1, n, u, h, m, ps, e, c, j, sp) /\ sp[j] = k - 1

\* A line with one character more.
LEMMA Longer ==
  ASSUME NEW l \in Seq(Chars), NEW x \in Chars, NEW r, r = Append(l, x)
  PROVE  /\ r \in Seq(Chars) /\ Len(r) = Len(l) + 1 /\ Len(l) \in Nat /\ r # <<>>
         /\ r[Len(l) + 1] = x /\ \A i \in 1 .. Len(l) : r[i] = l[i]
  OBVIOUS

\* What is clear of the characters C stays so.
LEMMA ClearLonger ==
  ASSUME NEW l \in Seq(Chars), NEW x \in Chars, NEW r, r = Append(l, x),
         NEW C, NEW a \in Nat \ {0}, NEW b \in Nat, b <= Len(l), Clear(l, C, a, b)
  PROVE  Clear(r, C, a, b)
<1>1. \A i \in 1 .. Len(l) : r[i] = l[i]
  BY Longer
<1>2. ASSUME NEW i \in a .. b PROVE r[i] \notin C
  <2>1. i \in 1 .. Len(l)
    OBVIOUS
  <2> QED
    BY <1>1, <2>1 DEF Clear
<1> QED
  BY <1>2 DEF Clear

\* The same from the second character on.
LEMMA ClearFromTwo ==
  ASSUME NEW l \in Seq(Chars), NEW x \in Chars, NEW r, r = Append(l, x),
         NEW C, NEW b \in Nat, b <= Len(l), Clear(l, C, 2, b)
  PROVE  Clear(r, C, 2, b)
<1>1. \A i \in 1 .. Len(l) : r[i] = l[i]
  BY Longer
<1>2. ASSUME NEW i \in 2 .. b PROVE r[i] \notin C
  <2>1. i \in 1 .. Len(l)
    OBVIOUS
  <2> QED
    BY <1>1, <2>1 DEF Clear
<1> QED
  BY <1>2 DEF Clear

\* And with one character more that is not of C.
LEMMA ClearOneMore ==
  ASSUME NEW l \in Seq(Chars), NEW x \in Chars, NEW r, r = Append(l, x),
         NEW C, NEW a \in Nat \ {0}, Clear(l, C, a, Len(l)), x \notin C
  PROVE  Clear(r, C, a, Len(r))
<1>1. Len(r) = Len(l) + 1 /\ r[Len(l) + 1] = x /\ Len(l) \in Nat
  BY Longer
<1>2. Clear(r, C, a, Len(l))
  <2>1. Len(l) \in Nat /\ Len(l) <= Len(l)
    BY <1>1
  <2> QED
    BY <2>1, ClearLonger
<1>3. ASSUME NEW i \in a .. Len(r) PROVE r[i] \notin C
  <2>1. i \in a .. Len(l) \/ i = Len(l) + 1
    BY <1>1
  <2> QED
    BY <1>1, <1>2, <2>1 DEF Clear
<1> QED
  BY <1>3 DEF Clear

\* The same from the second character on.
LEMMA ClearOneMoreFromTwo ==
  ASSUME NEW l \in Seq(Chars), NEW x \in Chars, NEW r, r = Append(l, x),
         NEW C, Clear(l, C, 2, Len(l)), x \notin C
  PROVE  Clear(r, C, 2, Len(r))
<1> DEFINE a == 2
<1>1. a \in Nat \ {0} /\ Clear(l, C, a, Len(l))
  OBVIOUS
<1> HIDE DEF a
<1>2. Clear(r, C, a, Len(r))
  BY <1>1, ClearOneMore
<1> QED
  BY <1>2 DEF a

\* A part stays what it is.
LEMMA PartLonger ==
  ASSUME NEW l \in Seq(Chars), NEW x \in Chars, NEW r, r = Append(l, x),
         NEW a \in Nat \ {0}, NEW b \in Nat, b <= Len(l)
  PROVE  SubSeq(r, a, b) = SubSeq(l, a, b)
<1>1. r \in Seq(Chars) /\ b <= Len(r) /\ \A i \in a .. b : r[i] = l[i]
  <2>1. Len(r) = Len(l) + 1 /\ r \in Seq(Chars) /\ \A i \in 1 .. Len(l) : r[i] = l[i]
    BY Longer
  <2> QED
    BY <2>1
<1> QED
  BY <1>1, SamePart

\* So does what was read of the prefix,
LEMMA PrefixLonger ==
  ASSUME NEW l \in Seq(Chars), NEW x \in Chars, NEW r, r = Append(l, x), NEW e, NEW n, NEW u, NEW h,
         PrefixRead(l, e, n, u, h), l = <<>> => x # Colon
  PROVE  PrefixRead(r, e, n, u, h)
<1>0. /\ r \in Seq(Chars) /\ Len(r) = Len(l) + 1 /\ Len(l) \in Nat /\ r # <<>>
      /\ r[Len(l) + 1] = x /\ \A i \in 1 .. Len(l) : r[i] = l[i]
  BY Longer
<1>1. CASE e = 0 /\ (l # <<>> => l[1] # Colon) /\ n = None /\ u = None /\ h = None
  <2>1. r[1] # Colon
    <3>1. CASE l = <<>>
      <4>1. Len(l) = 0
        BY <3>1
      <4> QED
        BY <1>0, <3>1, <4>1
    <3>2. CASE l # <<>>
      <4>1. 1 \in 1 .. Len(l)
        BY <3>2
      <4> QED
        BY <1>0, <1>1, <3>2, <4>1
    <3> QED
      BY <3>1, <3>2
  <2> QED
    BY <1>1, <2>1 DEF PrefixRead
<1>2. CASE Prefixed(l, e, n, u, h)
  <2>1. e \in 2 .. Len(l) /\ l[1] = Colon /\ l[e] = Space /\ Clear(l, {Space}, 2, e - 1)
    BY <1>2 DEF Prefixed
  <2>a. e \in 2 .. Len(r) /\ r[1] = Colon /\ r[e] = Space /\ e - 1 \in Nat /\ e - 1 <= Len(l)
    <3>1. 1 \in 1 .. Len(l) /\ e \in 1 .. Len(l)
      BY <1>0, <2>1
    <3> QED
      BY <1>0, <2>1, <3>1
  <2>b. Clear(r, {Space}, 2, e - 1)
    BY <2>1, <2>a, ClearFromTwo
  <2>2. e \in 2 .. Len(r) /\ r[1] = Colon /\ r[e] = Space /\ Clear(r, {Space}, 2, e - 1)
    BY <2>a, <2>b
  <2>3. ASSUME NickOnly(l, e, n, u, h) PROVE NickOnly(r, e, n, u, h)
    <3>1. e - 1 \in Nat /\ e - 1 <= Len(l)
      BY <1>0, <2>1
    <3>2. Clear(l, {Bang, AtSign}, 2, e - 1) /\ n = SubSeq(l, 2, e - 1) /\ u = None /\ h = None
      BY <2>3 DEF NickOnly
    <3>3. Clear(r, {Bang, AtSign}, 2, e - 1)
      BY <3>1, <3>2, ClearFromTwo
    <3>4. SubSeq(r, 2, e - 1) = SubSeq(l, 2, e - 1)
      BY <3>1, PartLonger
    <3> QED
      BY <3>2, <3>3, <3>4 DEF NickOnly
  <2>4. ASSUME NickAndName(l, e, n, u, h) PROVE NickAndName(r, e, n, u, h)
    <3>1. PICK b \in 2 .. e - 1 :
            /\ l[b] = Bang /\ Clear(l, {Bang, AtSign}, 2, b - 1) /\ Clear(l, {AtSign}, b + 1, e - 1)
            /\ n = SubSeq(l, 2, b - 1) /\ u = SubSeq(l, b + 1, e - 1) /\ h = None
      BY <2>4 DEF NickAndName
    <3>2. /\ b - 1 \in Nat /\ b - 1 <= Len(l) /\ b + 1 \in Nat \ {0} /\ e - 1 \in Nat /\ e - 1 <= Len(l)
          /\ b \in 1 .. Len(l)
      BY <1>0, <2>1
    <3>3. r[b] = Bang /\ Clear(r, {Bang, AtSign}, 2, b - 1) /\ Clear(r, {AtSign}, b + 1, e - 1)
      <4>1. Clear(r, {Bang, AtSign}, 2, b - 1)
        BY <3>1, <3>2, ClearFromTwo
      <4>2. Clear(r, {AtSign}, b + 1, e - 1)
        BY <3>1, <3>2, ClearLonger
      <4> QED
        BY <1>0, <3>1, <3>2, <4>1, <4>2
    <3>4. SubSeq(r, 2, b - 1) = SubSeq(l, 2, b - 1) /\ SubSeq(r, b + 1, e - 1) = SubSeq(l, b + 1, e - 1)
      BY <3>2, PartLonger
    <3> QED
      BY <3>1, <3>3, <3>4 DEF NickAndName
  <2>5. ASSUME NickNameAndHost(l, e, n, u, h) PROVE NickNameAndHost(r, e, n, u, h)
    <3>1. PICK b \in 2 .. e - 1 : \E a \in b + 1 .. e - 1 :
            /\ l[b] = Bang /\ Clear(l, {Bang, AtSign}, 2, b - 1)
            /\ l[a] = AtSign /\ Clear(l, {AtSign}, b + 1, a - 1)
            /\ n = SubSeq(l, 2, b - 1) /\ u = SubSeq(l, b + 1, a - 1) /\ h = SubSeq(l, a + 1, e - 1)
      BY <2>5 DEF NickNameAndHost
    <3>2. PICK a \in b + 1 .. e - 1 :
            /\ l[b] = Bang /\ Clear(l, {Bang, AtSign}, 2, b - 1)
            /\ l[a] = AtSign /\ Clear(l, {AtSign}, b + 1, a - 1)
            /\ n = SubSeq(l, 2, b - 1) /\ u = SubSeq(l, b + 1, a - 1) /\ h = SubSeq(l, a + 1, e - 1)
      BY <3>1
    <3>3. /\ b - 1 \in Nat /\ b - 1 <= Len(l) /\ b + 1 \in Nat \ {0} /\ e - 1 \in Nat /\ e - 1 <= Len(l)
          /\ a - 1 \in Nat /\ a - 1 <= Len(l) /\ a + 1 \in Nat \ {0}
          /\ b \in 1 .. Len(l) /\ a \in 1 .. Len(l)
      BY <1>0, <2>1
    <3>4. r[b] = Bang /\ Clear(r, {Bang, AtSign}, 2, b - 1) /\ r[a] = AtSign /\ Clear(r, {AtSign}, b + 1, a - 1)
      <4>1. Clear(r, {Bang, AtSign}, 2, b - 1)
        BY <3>2, <3>3, ClearFromTwo
      <4>2. Clear(r, {AtSign}, b + 1, a - 1)
        BY <3>2, <3>3, ClearLonger
      <4> QED
        BY <1>0, <3>2, <3>3, <4>1, <4>2
    <3>5. /\ SubSeq(r, 2, b - 1) = SubSeq(l, 2, b - 1) /\ SubSeq(r, b + 1, a - 1) = SubSeq(l, b + 1, a - 1)
          /\ SubSeq(r, a + 1, e - 1) = SubSeq(l, a + 1, e - 1)
      BY <3>3, PartLonger
    <3> QED
      BY <3>2, <3>4, <3>5 DEF NickNameAndHost
  <2>6. ASSUME NickAndHost(l, e, n, u, h) PROVE NickAndHost(r, e, n, u, h)
    <3>1. PICK a \in 2 .. e - 1 :
            /\ l[a] = AtSign /\ Clear(l, {Bang, AtSign}, 2, a - 1)
            /\ n = SubSeq(l, 2, a - 1) /\ u = None /\ h = SubSeq(l, a + 1, e - 1)
      BY <2>6 DEF NickAndHost
    <3>2. /\ a - 1 \in Nat /\ a - 1 <= Len(l) /\ a + 1 \in Nat \ {0} /\ e - 1 \in Nat /\ e - 1 <= Len(l)
          /\ a \in 1 .. Len(l)
      BY <1>0, <2>1
    <3>3. r[a] = AtSign /\ Clear(r, {Bang, AtSign}, 2, a - 1)
      <4>1. Clear(r, {Bang, AtSign}, 2, a - 1)
        BY <3>1, <3>2, ClearFromTwo
      <4> QED
        BY <1>0, <3>1, <3>2, <4>1
    <3>4. SubSeq(r, 2, a - 1) = SubSeq(l, 2, a - 1) /\ SubSeq(r, a + 1, e - 1) = SubSeq(l, a + 1, e - 1)
      BY <3>2, PartLonger
    <3> QED
      BY <3>1, <3>3, <3>4 DEF NickAndHost
  <2>7. Prefixed(r, e, n, u, h)
    BY <1>2, <2>2, <2>3, <2>4, <2>5, <2>6 DEF Prefixed
  <2> QED
    BY <2>7 DEF PrefixRead
<1> QED
  BY <1>1, <1>2 DEF PrefixRead

\* of the command,
LEMMA CommandLonger ==
  ASSUME NEW l \in Seq(Chars), NEW x \in Chars, NEW r, r = Append(l, x), NEW e, NEW c, NEW m,
         CommandRead(l, e, c, m)
  PROVE  CommandRead(r, e, c, m)
<1>0. /\ r \in Seq(Chars) /\ Len(r) = Len(l) + 1 /\ Len(l) \in Nat
      /\ \A i \in 1 .. Len(l) : r[i] = l[i]
  BY Longer
<1>1. /\ e \in Nat /\ c \in Nat /\ e < c /\ c <= Len(l)
      /\ l[c] = Space /\ Clear(l, {Space}, e + 1, c - 1) /\ m = SubSeq(l, e + 1, c - 1)
  BY DEF CommandRead
<1>2. e + 1 \in Nat \ {0} /\ c - 1 \in Nat /\ c - 1 <= Len(l) /\ c <= Len(r) /\ r[c] = Space
  BY <1>0, <1>1
<1>3. Clear(r, {Space}, e + 1, c - 1)
  BY <1>1, <1>2, ClearLonger
<1>4. SubSeq(r, e + 1, c - 1) = SubSeq(l, e + 1, c - 1)
  <2> DEFINE a == e + 1
             b == c - 1
  <2>1. a \in Nat \ {0} /\ b \in Nat /\ b <= Len(l)
    BY <1>2
  <2> HIDE DEF a, b
  <2>2. SubSeq(r, a, b) = SubSeq(l, a, b)
    BY <2>1, PartLonger
  <2> QED
    BY <2>2 DEF a, b
<1> QED
  BY <1>1, <1>2, <1>3, <1>4 DEF CommandRead

\* the places of the spaces
LEMMA SpacedLonger ==
  ASSUME NEW l \in Seq(Chars), NEW x \in Chars, NEW r, r = Append(l, x), NEW c \in Nat \ {0},
         NEW z \in Nat, z <= Len(l), NEW j, NEW sp, Spaced(l, c, z, j, sp)
  PROVE  Spaced(r, c, z, j, sp)
<1>0. \A i \in 1 .. Len(l) : r[i] = l[i]
  BY Longer
<1>1. ASSUME NEW k \in 1 .. j PROVE r[sp[k]] = Space /\ (sp[k] < z => r[sp[k] + 1] # Colon)
  <2>1. sp[k] \in Nat /\ c <= sp[k] /\ sp[k] <= z
    BY SpacedBounds
  <2>2. sp[k] \in 1 .. Len(l) /\ (sp[k] < z => sp[k] + 1 \in 1 .. Len(l))
    BY <2>1
  <2> QED
    BY <1>0, <2>2 DEF Spaced
<1>2. ASSUME NEW i \in c .. z, r[i] = Space PROVE \E k \in 1 .. j : i = sp[k]
  <2>1. i \in 1 .. Len(l)
    OBVIOUS
  <2>2. l[i] = Space
    BY <1>0, <1>2, <2>1
  <2> QED
    BY <2>2 DEF Spaced
<1> QED
  BY <1>1, <1>2 DEF Spaced

\* and the parameters between them.
LEMMA ParamsLonger ==
  ASSUME NEW l \in Seq(Chars), NEW x \in Chars, NEW r, r = Append(l, x), NEW c \in Nat \ {0},
         NEW z \in Nat, z <= Len(l), NEW j, NEW sp, Spaced(l, c, z, j, sp),
         NEW ps, ParamsRead(l, j, sp, ps)
  PROVE  ParamsRead(r, j, sp, ps)
<1>0. MaxParams \in Nat
  BY ParserAssumption
<1>1. ps \in Seq(Seq(Chars)) /\ j \in Nat \ {0} /\ Len(ps) = IF j - 1 <= MaxParams THEN j - 1 ELSE MaxParams
  BY DEF ParamsRead, Spaced
<1>2. ASSUME NEW i \in 1 .. Len(ps) PROVE ps[i] = SubSeq(r, sp[i] + 1, sp[i + 1] - 1)
  <2>1. i \in 1 .. j /\ i + 1 \in 1 .. j
    BY <1>0, <1>1
  <2>2. sp[i] \in Nat /\ c <= sp[i + 1] /\ sp[i + 1] \in Nat /\ sp[i + 1] <= z
    <3>1. ASSUME NEW k \in 1 .. j PROVE sp[k] \in Nat /\ c <= sp[k] /\ sp[k] <= z
      BY SpacedBounds
    <3> QED
      BY <2>1, <3>1
  <2>3. sp[i] + 1 \in Nat \ {0} /\ sp[i + 1] - 1 \in Nat /\ sp[i + 1] - 1 <= Len(l)
    <3> DEFINE e == sp[i]
               g == sp[i + 1]
    <3>1. e \in Nat /\ c <= g /\ g \in Nat /\ g <= z
      BY <2>2
    <3> HIDE DEF e, g
    <3>2. e + 1 \in Nat \ {0} /\ g - 1 \in Nat /\ g - 1 <= Len(l)
      BY <3>1
    <3> QED
      BY <3>2 DEF e, g
  <2> DEFINE a == sp[i] + 1
             b == sp[i + 1] - 1
  <2>5. a \in Nat \ {0} /\ b \in Nat /\ b <= Len(l)
    BY <2>3
  <2> HIDE DEF a, b
  <2>4. SubSeq(r, a, b) = SubSeq(l, a, b)
    BY <2>5, PartLonger
  <2> QED
    BY <2>4 DEF ParamsRead, a, b
<1> QED
  BY <1>1, <1>2 DEF ParamsRead

\* One more space among the spaces, and one more parameter.
LEMMA SpaceAdded ==
  ASSUME NEW l \in Seq(Chars), NEW r, r = Append(l, Space), Space \in Chars,
         NEW n, NEW u, NEW h, NEW m, NEW ps, NEW e, NEW c, NEW j, NEW sp,
         Read(l, Len(l), n, u, h, m, ps, e, c, j, sp)
  PROVE  ParamsState(r, Len(r), n, u, h, m, Added(ps, SubSeq(r, sp[j] + 1, Len(r) - 1)))
<1>0. /\ r \in Seq(Chars) /\ Len(r) = Len(l) + 1 /\ Len(l) \in Nat /\ r # <<>>
      /\ r[Len(l) + 1] = Space /\ \A i \in 1 .. Len(l) : r[i] = l[i]
  BY Longer
<1>1. /\ PrefixRead(l, e, n, u, h) /\ CommandRead(l, e, c, m)
      /\ Spaced(l, c, Len(l), j, sp) /\ ParamsRead(l, j, sp, ps)
  BY DEF Read
<1>2. c \in Nat \ {0} /\ c <= Len(l) /\ l # <<>>
  BY <1>0, <1>1 DEF CommandRead
<1>3. j \in Nat \ {0} /\ sp \in [1 .. j -> Nat] /\ sp[1] = c /\ sp[j] <= Len(l)
  BY <1>1 DEF Spaced
<1>4. PrefixRead(r, e, n, u, h) /\ CommandRead(r, e, c, m)
  BY <1>1, <1>2, PrefixLonger, CommandLonger
<1>5. Spaced(r, c, Len(l), j, sp) /\ ParamsRead(r, j, sp, ps)
  <2>1. Len(l) \in Nat /\ Len(l) <= Len(l)
    BY <1>0
  <2> QED
    BY <1>1, <1>2, <2>1, SpacedLonger, ParamsLonger
<1> DEFINE tp == [i \in 1 .. (j + 1) |-> IF i = j + 1 THEN Len(r) ELSE sp[i]]
<1>6. /\ tp \in [1 .. (j + 1) -> Nat] /\ tp[j + 1] = Len(r) /\ j + 1 \in Nat \ {0}
      /\ \A i \in 1 .. j : tp[i] = sp[i]
  BY <1>0, <1>3
<1> HIDE DEF tp
<1>7. Spaced(r, c, Len(r), j + 1, tp)
  <2>1. tp[1] = c /\ tp[j + 1] <= Len(r) /\ c <= Len(r)
    BY <1>0, <1>2, <1>3, <1>6
  <2>2. ASSUME NEW i \in 1 .. (j + 1), NEW k \in 1 .. (j + 1), i < k PROVE tp[i] < tp[k]
    <3>1. i \in 1 .. j
      BY <1>3, <2>2
    <3>2. tp[i] = sp[i] /\ sp[i] \in Nat /\ sp[i] <= Len(l)
      <4>1. sp[i] \in Nat /\ sp[i] <= Len(l)
        BY <1>0, <1>1, <1>2, <3>1, SpacedBounds
      <4> QED
        BY <1>6, <3>1, <4>1
    <3>3. CASE k = j + 1
      BY <1>0, <1>6, <3>2, <3>3
    <3>4. CASE k # j + 1
      <4>1. k \in 1 .. j /\ tp[k] = sp[k]
        BY <1>3, <1>6, <3>4
      <4>2. sp[i] < sp[k]
        BY <1>1, <2>2, <3>1, <4>1 DEF Spaced
      <4> QED
        BY <3>2, <4>1, <4>2
    <3> QED
      BY <3>3, <3>4
  <2>3. ASSUME NEW k \in 1 .. (j + 1)
        PROVE  r[tp[k]] = Space /\ (tp[k] < Len(r) => r[tp[k] + 1] # Colon)
    <3>1. CASE k = j + 1
      BY <1>0, <1>6, <3>1
    <3>2. CASE k # j + 1
      <4>1. k \in 1 .. j /\ tp[k] = sp[k]
        BY <1>3, <1>6, <3>2
      <4>2. r[sp[k]] = Space /\ (sp[k] < Len(l) => r[sp[k] + 1] # Colon)
        BY <1>5, <4>1 DEF Spaced
      <4>3. sp[k] \in Nat /\ sp[k] <= Len(l)
        BY <1>0, <1>1, <1>2, <4>1, SpacedBounds
      <4>4. sp[k] = Len(l) => r[sp[k] + 1] # Colon
        BY <1>0, Different
      <4>5. sp[k] < Len(l) \/ sp[k] = Len(l)
        BY <1>0, <4>3
      <4> QED
        BY <4>1, <4>2, <4>4, <4>5
    <3> QED
      BY <3>1, <3>2
  <2>4. ASSUME NEW i \in c .. Len(r), r[i] = Space PROVE \E k \in 1 .. (j + 1) : i = tp[k]
    <3>1. CASE i = Len(r)
      <4>1. j + 1 \in 1 .. (j + 1)
        BY <1>3
      <4> QED
        BY <1>6, <3>1, <4>1
    <3>2. CASE i # Len(r)
      <4>1. i \in c .. Len(l)
        BY <1>0, <1>2, <3>2
      <4>2. PICK k \in 1 .. j : i = sp[k]
        BY <1>5, <2>4, <4>1 DEF Spaced
      <4>3. k \in 1 .. (j + 1) /\ tp[k] = sp[k]
        BY <1>3, <1>6
      <4> QED
        BY <4>2, <4>3
    <3> QED
      BY <3>1, <3>2
  <2> QED
    BY <1>6, <2>1, <2>2, <2>3, <2>4 DEF Spaced
<1> DEFINE t == SubSeq(r, sp[j] + 1, Len(r) - 1)
           qs == Added(ps, t)
<1>8. t \in Seq(Chars)
  <2> DEFINE a == sp[j] + 1
             b == Len(r) - 1
  <2>1. a \in Nat \ {0} /\ b \in Nat /\ b <= Len(r)
    <3>1. j \in 1 .. j
      BY <1>3
    <3> QED
      BY <1>0, <1>3, <3>1
  <2> HIDE DEF a, b
  <2>2. SubSeq(r, a, b) \in Seq(Chars)
    BY <1>0, <2>1, Part
  <2> QED
    BY <2>2 DEF a, b
<1>9. ParamsRead(r, j + 1, tp, qs)
  <2>0. MaxParams \in Nat
    BY ParserAssumption
  <2>1. /\ ps \in Seq(Seq(Chars)) /\ Len(ps) = (IF j - 1 <= MaxParams THEN j - 1 ELSE MaxParams)
        /\ \A i \in 1 .. Len(ps) : ps[i] = SubSeq(r, sp[i] + 1, sp[i + 1] - 1)
    BY <1>5 DEF ParamsRead
  <2>2. \A i \in 1 .. Len(ps) : i \in 1 .. j /\ i + 1 \in 1 .. j
    BY <1>3, <2>0, <2>1
  <2>3. \A i \in 1 .. Len(ps) : ps[i] = SubSeq(r, tp[i] + 1, tp[i + 1] - 1)
    BY <1>6, <2>1, <2>2
  <2>4. t = SubSeq(r, tp[j] + 1, tp[j + 1] - 1)
    <3>1. j \in 1 .. j
      BY <1>3
    <3> QED
      BY <1>6, <3>1
  <2> HIDE DEF t
  <2>5. CASE Len(ps) < MaxParams
    <3>1. qs = Append(ps, t) /\ Len(ps) = j - 1
      BY <1>3, <2>0, <2>1, <2>5 DEF Added
    <3>2. qs \in Seq(Seq(Chars)) /\ Len(qs) = j /\ qs[j] = t /\ \A i \in 1 .. (j - 1) : qs[i] = ps[i]
      BY <1>3, <1>8, <2>1, <3>1
    <3>3. ASSUME NEW i \in 1 .. j PROVE qs[i] = SubSeq(r, tp[i] + 1, tp[i + 1] - 1)
      <4>1. CASE i = j
        BY <2>4, <3>2, <4>1
      <4>2. CASE i # j
        <5>1. i \in 1 .. (j - 1) /\ i \in 1 .. Len(ps)
          BY <1>3, <3>1, <4>2
        <5> QED
          BY <2>3, <3>2, <5>1
      <4> QED
        BY <4>1, <4>2
    <3>4. (j + 1) - 1 = j /\ j <= MaxParams
      BY <1>3, <2>0, <2>5, <3>1
    <3> HIDE DEF qs
    <3> QED
      BY <3>2, <3>3, <3>4 DEF ParamsRead
  <2>6. CASE ~(Len(ps) < MaxParams)
    <3>1. qs = ps /\ Len(ps) = MaxParams /\ ((j + 1) - 1 <= MaxParams => j = MaxParams /\ FALSE)
      BY <1>3, <2>0, <2>1, <2>6 DEF Added
    <3> HIDE DEF qs
    <3> QED
      BY <2>1, <2>3, <3>1 DEF ParamsRead
  <2> QED
    BY <2>5, <2>6
<1> HIDE DEF t, qs
<1>10. Read(r, Len(r), n, u, h, m, qs, e, c, j + 1, tp)
  <2>1. c <= Len(r)
    BY <1>0, <1>2
  <2> QED
    BY <1>4, <1>7, <1>9, <2>1 DEF Read
<1>11. ParamsState(r, Len(r), n, u, h, m, qs)
  BY <1>6, <1>10 DEF ParamsState
<1> QED
  BY <1>11 DEF t, qs

-----------------------------------------------------------------------------
(* One character in each state.                                             *)

\* The first character.
LEMMA Starting ==
  ASSUME NEW x \in Chars, NEW r, r = Append(<<>>, x)
  PROVE  /\ x = Colon => NickState(r, 1, None, None, None, None, <<>>)
         /\ CommandState(<<>>, 0, None, None, None, None, <<>>)
<1>1. r \in Seq(Chars) /\ Len(r) = 1 /\ r # <<>> /\ r[1] = x
  OBVIOUS
<1>2. Clear(r, {Space, Bang, AtSign}, 2, Len(r))
  BY <1>1 DEF Clear
<1>3. Len(<<>>) = 0 /\ Clear(<<>>, {Space}, 1, 0)
  BY DEF Clear
<1>4. CommandState(<<>>, 0, None, None, None, None, <<>>)
  BY <1>3 DEF CommandState, PrefixRead
<1> QED
  BY <1>1, <1>2, <1>4 DEF NickState

\* The nick goes on.
LEMMA NickStays ==
  ASSUME NEW l \in Seq(Chars), NEW x \in Chars, NEW r, r = Append(l, x),
         NEW k, NEW n, NEW u, NEW h, NEW m, NEW ps, NickState(l, k, n, u, h, m, ps),
         x \notin {Space, Bang, AtSign}
  PROVE  NickState(r, k, n, u, h, m, ps)
<1>1. r # <<>> /\ r[1] = Colon
  BY Longer DEF NickState
<1>2. Clear(r, {Space, Bang, AtSign}, 2, Len(r))
  BY ClearOneMoreFromTwo DEF NickState
<1> QED
  BY <1>1, <1>2 DEF NickState

\* The nick ends.
LEMMA NickEnds ==
  ASSUME NEW l \in Seq(Chars), NEW x \in Chars, NEW r, r = Append(l, x),
         NEW k, NEW n, NEW u, NEW h, NEW m, NEW ps, NickState(l, k, n, u, h, m, ps),
         NEW t, t = SubSeq(r, k + 1, Len(r) - 1)
  PROVE  /\ x = Bang => NameState(r, Len(r), t, u, h, m, ps)
         /\ x = AtSign => HostState(r, Len(r), t, u, h, m, ps)
         /\ x = Space => CommandState(r, Len(r), t, u, h, m, ps)
<1>0. /\ r \in Seq(Chars) /\ Len(r) = Len(l) + 1 /\ Len(l) \in Nat /\ r # <<>>
      /\ r[Len(l) + 1] = x /\ \A i \in 1 .. Len(l) : r[i] = l[i]
  BY Longer
<1>1. /\ k = 1 /\ l[1] = Colon /\ Clear(l, {Space, Bang, AtSign}, 2, Len(l)) /\ 1 <= Len(l)
      /\ n = None /\ u = None /\ h = None /\ m = None /\ ps = <<>>
  BY DEF NickState
<1>2. Clear(r, {Space, Bang, AtSign}, 2, Len(l))
  <2>1. Len(l) <= Len(l)
    BY <1>0
  <2> QED
    BY <1>0, <1>1, <2>1, ClearFromTwo
<1>3. Len(r) \in 2 .. Len(r) /\ r[1] = Colon /\ r[Len(r)] = x /\ Len(r) - 1 = Len(l)
  BY <1>0, <1>1
<1>4. t = SubSeq(r, 2, Len(r) - 1)
  BY <1>1
<1>5. Clear(r, {Space}, 2, Len(r) - 1) /\ Clear(r, {Bang, AtSign}, 2, Len(r) - 1)
  BY <1>2, <1>3 DEF Clear
<1>6. Clear(r, {AtSign}, Len(r) + 1, Len(r)) /\ Clear(r, {Space}, Len(r) + 1, Len(r))
  BY <1>0 DEF Clear
<1>7. x # Space => Clear(r, {Space}, 2, Len(r))
  BY <1>0, <1>3, <1>5 DEF Clear
<1>8. x = Bang => NameState(r, Len(r), t, u, h, m, ps)
  BY <1>1, <1>3, <1>4, <1>5, <1>6, <1>7, Different DEF NameState
<1>9. x = AtSign => HostState(r, Len(r), t, u, h, m, ps)
  BY <1>1, <1>3, <1>4, <1>5, <1>7, Different DEF HostState
<1>10. x = Space => CommandState(r, Len(r), t, u, h, m, ps)
  <2> SUFFICES ASSUME x = Space PROVE CommandState(r, Len(r), t, u, h, m, ps)
    OBVIOUS
  <2>1. NickOnly(r, Len(r), t, u, h)
    BY <1>1, <1>4, <1>5 DEF NickOnly
  <2>2. PrefixRead(r, Len(r), t, u, h)
    BY <1>3, <1>5, <2>1 DEF PrefixRead, Prefixed
  <2>3. Len(r) \in Nat /\ Len(r) <= Len(r)
    BY <1>0
  <2> QED
    BY <1>1, <1>6, <2>2, <2>3 DEF CommandState
<1> QED
  BY <1>8, <1>9, <1>10

\* The name goes on.
LEMMA NameStays ==
  ASSUME NEW l \in Seq(Chars), NEW x \in Chars, NEW r, r = Append(l, x),
         NEW k, NEW n, NEW u, NEW h, NEW m, NEW ps, NameState(l, k, n, u, h, m, ps),
         x \notin {Space, AtSign}
  PROVE  NameState(r, k, n, u, h, m, ps)
<1>0. /\ r \in Seq(Chars) /\ Len(r) = Len(l) + 1 /\ Len(l) \in Nat
      /\ r[Len(l) + 1] = x /\ \A i \in 1 .. Len(l) : r[i] = l[i]
  BY Longer
<1>1. /\ k \in 2 .. Len(l) /\ l[1] = Colon /\ l[k] = Bang
      /\ Clear(l, {Space}, 2, Len(l)) /\ Clear(l, {Bang, AtSign}, 2, k - 1)
      /\ Clear(l, {AtSign}, k + 1, Len(l)) /\ n = SubSeq(l, 2, k - 1)
  BY DEF NameState
<1>2. /\ k \in 2 .. Len(r) /\ r[1] = Colon /\ r[k] = Bang
      /\ k - 1 \in Nat /\ k - 1 <= Len(l) /\ k + 1 \in Nat \ {0}
  BY <1>0, <1>1
<1>3. Clear(r, {Space}, 2, Len(r))
  BY <1>1, ClearOneMoreFromTwo
<1>4. Clear(r, {Bang, AtSign}, 2, k - 1)
  BY <1>1, <1>2, ClearFromTwo
<1>5. Clear(r, {AtSign}, k + 1, Len(r))
  BY <1>1, <1>2, ClearOneMore
<1>6. SubSeq(r, 2, k - 1) = SubSeq(l, 2, k - 1)
  BY <1>2, PartLonger
<1> QED
  BY <1>1, <1>2, <1>3, <1>4, <1>5, <1>6 DEF NameState

\* The name ends.
LEMMA NameEnds ==
  ASSUME NEW l \in Seq(Chars), NEW x \in Chars, NEW r, r = Append(l, x),
         NEW k, NEW n, NEW u, NEW h, NEW m, NEW ps, NameState(l, k, n, u, h, m, ps),
         NEW t, t = SubSeq(r, k + 1, Len(r) - 1)
  PROVE  /\ x = AtSign => HostState(r, Len(r), n, t, h, m, ps)
         /\ x = Space => CommandState(r, Len(r), n, t, h, m, ps)
<1>0. /\ r \in Seq(Chars) /\ Len(r) = Len(l) + 1 /\ Len(l) \in Nat
      /\ r[Len(l) + 1] = x /\ \A i \in 1 .. Len(l) : r[i] = l[i]
  BY Longer
<1>1. /\ k \in 2 .. Len(l) /\ l[1] = Colon /\ l[k] = Bang
      /\ Clear(l, {Space}, 2, Len(l)) /\ Clear(l, {Bang, AtSign}, 2, k - 1)
      /\ Clear(l, {AtSign}, k + 1, Len(l)) /\ n = SubSeq(l, 2, k - 1)
      /\ u = None /\ h = None /\ m = None /\ ps = <<>>
  BY DEF NameState
<1>2. /\ k \in 2 .. Len(r) - 1 /\ r[1] = Colon /\ r[k] = Bang
      /\ k - 1 \in Nat /\ k - 1 <= Len(l) /\ k + 1 \in Nat \ {0}
      /\ Len(r) \in 2 .. Len(r) /\ r[Len(r)] = x /\ Len(r) - 1 = Len(l) /\ Len(l) <= Len(l)
  BY <1>0, <1>1
<1>3. Clear(r, {Space}, 2, Len(r) - 1)
  <2>1. Clear(r, {Space}, 2, Len(l))
    BY <1>0, <1>1, <1>2, ClearFromTwo
  <2> QED
    BY <1>2, <2>1
<1>4. Clear(r, {Bang, AtSign}, 2, k - 1)
  BY <1>1, <1>2, ClearFromTwo
<1>5. Clear(r, {AtSign}, k + 1, Len(r) - 1)
  <2>1. Clear(r, {AtSign}, k + 1, Len(l))
    BY <1>0, <1>1, <1>2, ClearLonger
  <2> QED
    BY <1>2, <2>1
<1>6. n = SubSeq(r, 2, k - 1)
  <2>1. SubSeq(r, 2, k - 1) = SubSeq(l, 2, k - 1)
    BY <1>2, PartLonger
  <2> QED
    BY <1>1, <2>1
<1>7. x = AtSign => HostState(r, Len(r), n, t, h, m, ps)
  <2> SUFFICES ASSUME x = AtSign PROVE HostState(r, Len(r), n, t, h, m, ps)
    OBVIOUS
  <2>1. Clear(r, {Space}, 2, Len(r))
    <3>1. ASSUME NEW i \in 2 .. Len(r) PROVE r[i] # Space
      <4>1. i \in 2 .. Len(r) - 1 \/ i = Len(r)
        BY <1>0
      <4> QED
        BY <1>2, <1>3, <4>1, Different DEF Clear
    <3> QED
      BY <3>1 DEF Clear
  <2> QED
    BY <1>1, <1>2, <1>4, <1>5, <1>6, <2>1 DEF HostState
<1>8. x = Space => CommandState(r, Len(r), n, t, h, m, ps)
  <2> SUFFICES ASSUME x = Space PROVE CommandState(r, Len(r), n, t, h, m, ps)
    OBVIOUS
  <2>1. NickAndName(r, Len(r), n, t, h)
    BY <1>1, <1>2, <1>4, <1>5, <1>6 DEF NickAndName
  <2>2. PrefixRead(r, Len(r), n, t, h)
    BY <1>2, <1>3, <2>1 DEF PrefixRead, Prefixed
  <2>3. Len(r) \in Nat /\ Len(r) <= Len(r) /\ Clear(r, {Space}, Len(r) + 1, Len(r))
    BY <1>0 DEF Clear
  <2> QED
    BY <1>1, <2>2, <2>3 DEF CommandState
<1> QED
  BY <1>7, <1>8

\* What host has of the nick and the name.
WhoRead(l, k, n, u) ==
  \/ Clear(l, {Bang, AtSign}, 2, k - 1) /\ n = SubSeq(l, 2, k - 1) /\ u = None
  \/ \E b \in 2 .. k - 1 :
       /\ l[b] = Bang /\ Clear(l, {Bang, AtSign}, 2, b - 1) /\ Clear(l, {AtSign}, b + 1, k - 1)
       /\ n = SubSeq(l, 2, b - 1) /\ u = SubSeq(l, b + 1, k - 1)

\* That stays what it is.
LEMMA WhoLonger ==
  ASSUME NEW l \in Seq(Chars), NEW x \in Chars, NEW r, r = Append(l, x),
         NEW k \in 2 .. Len(l), NEW n, NEW u, WhoRead(l, k, n, u)
  PROVE  WhoRead(r, k, n, u)
<1>0. /\ r \in Seq(Chars) /\ Len(r) = Len(l) + 1 /\ Len(l) \in Nat
      /\ \A i \in 1 .. Len(l) : r[i] = l[i]
  BY Longer
<1>1. k - 1 \in Nat /\ k - 1 <= Len(l)
  BY <1>0
<1>2. CASE Clear(l, {Bang, AtSign}, 2, k - 1) /\ n = SubSeq(l, 2, k - 1) /\ u = None
  <2>1. Clear(r, {Bang, AtSign}, 2, k - 1)
    BY <1>1, <1>2, ClearFromTwo
  <2>2. SubSeq(r, 2, k - 1) = SubSeq(l, 2, k - 1)
    BY <1>1, PartLonger
  <2> QED
    BY <1>2, <2>1, <2>2 DEF WhoRead
<1>3. CASE \E b \in 2 .. k - 1 :
             /\ l[b] = Bang /\ Clear(l, {Bang, AtSign}, 2, b - 1) /\ Clear(l, {AtSign}, b + 1, k - 1)
             /\ n = SubSeq(l, 2, b - 1) /\ u = SubSeq(l, b + 1, k - 1)
  <2>1. PICK b \in 2 .. k - 1 :
          /\ l[b] = Bang /\ Clear(l, {Bang, AtSign}, 2, b - 1) /\ Clear(l, {AtSign}, b + 1, k - 1)
          /\ n = SubSeq(l, 2, b - 1) /\ u = SubSeq(l, b + 1, k - 1)
    BY <1>3
  <2>2. b - 1 \in Nat /\ b - 1 <= Len(l) /\ b + 1 \in Nat \ {0} /\ r[b] = l[b]
    BY <1>0, <1>1
  <2>3. Clear(r, {Bang, AtSign}, 2, b - 1)
    BY <2>1, <2>2, ClearFromTwo
  <2>4. Clear(r, {AtSign}, b + 1, k - 1)
    BY <1>1, <2>1, <2>2, ClearLonger
  <2>5. SubSeq(r, 2, b - 1) = SubSeq(l, 2, b - 1)
    BY <2>2, PartLonger
  <2>6. SubSeq(r, b + 1, k - 1) = SubSeq(l, b + 1, k - 1)
    BY <1>1, <2>2, PartLonger
  <2> QED
    BY <2>1, <2>2, <2>3, <2>4, <2>5, <2>6 DEF WhoRead
<1> QED
  BY <1>2, <1>3 DEF WhoRead

\* The host goes on.
LEMMA HostStays ==
  ASSUME NEW l \in Seq(Chars), NEW x \in Chars, NEW r, r = Append(l, x),
         NEW k, NEW n, NEW u, NEW h, NEW m, NEW ps, HostState(l, k, n, u, h, m, ps),
         x # Space
  PROVE  HostState(r, k, n, u, h, m, ps)
<1>0. /\ r \in Seq(Chars) /\ Len(r) = Len(l) + 1 /\ Len(l) \in Nat
      /\ \A i \in 1 .. Len(l) : r[i] = l[i]
  BY Longer
<1>1. k \in 2 .. Len(l) /\ WhoRead(l, k, n, u) /\ Clear(l, {Space}, 2, Len(l))
  BY DEF HostState, WhoRead
<1>2. WhoRead(r, k, n, u)
  BY <1>1, WhoLonger
<1>3. Clear(r, {Space}, 2, Len(r))
  BY <1>1, ClearOneMoreFromTwo
<1>4. k \in 2 .. Len(r) /\ r[1] = l[1] /\ r[k] = l[k]
  BY <1>0, <1>1
<1> QED
  BY <1>2, <1>3, <1>4 DEF HostState, WhoRead

\* The host ends.
LEMMA HostEnds ==
  ASSUME NEW l \in Seq(Chars), NEW r, r = Append(l, Space), Space \in Chars,
         NEW k, NEW n, NEW u, NEW h, NEW m, NEW ps, HostState(l, k, n, u, h, m, ps),
         NEW t, t = SubSeq(r, k + 1, Len(r) - 1)
  PROVE  CommandState(r, Len(r), n, u, t, m, ps)
<1>0. /\ r \in Seq(Chars) /\ Len(r) = Len(l) + 1 /\ Len(l) \in Nat
      /\ r[Len(l) + 1] = Space /\ \A i \in 1 .. Len(l) : r[i] = l[i]
  BY Longer
<1>1. /\ k \in 2 .. Len(l) /\ l[1] = Colon /\ l[k] = AtSign /\ Clear(l, {Space}, 2, Len(l))
      /\ WhoRead(l, k, n, u) /\ m = None /\ ps = <<>>
  BY DEF HostState, WhoRead
<1>2. /\ k \in 2 .. Len(r) - 1 /\ r[1] = Colon /\ r[k] = AtSign
      /\ Len(r) \in 2 .. Len(r) /\ r[Len(r)] = Space /\ Len(r) - 1 = Len(l) /\ Len(l) <= Len(l)
      /\ Len(r) \in Nat
  BY <1>0, <1>1
<1>3. Clear(r, {Space}, 2, Len(r) - 1)
  <2>1. Clear(r, {Space}, 2, Len(l))
    BY <1>0, <1>1, <1>2, ClearFromTwo
  <2> QED
    BY <1>2, <2>1
<1>4. WhoRead(r, k, n, u)
  BY <1>1, WhoLonger
<1>5. NickNameAndHost(r, Len(r), n, u, t) \/ NickAndHost(r, Len(r), n, u, t)
  <2>1. CASE Clear(r, {Bang, AtSign}, 2, k - 1) /\ n = SubSeq(r, 2, k - 1) /\ u = None
    BY <1>2, <2>1 DEF NickAndHost
  <2>2. CASE \E b \in 2 .. k - 1 :
               /\ r[b] = Bang /\ Clear(r, {Bang, AtSign}, 2, b - 1) /\ Clear(r, {AtSign}, b + 1, k - 1)
               /\ n = SubSeq(r, 2, b - 1) /\ u = SubSeq(r, b + 1, k - 1)
    <3>1. PICK b \in 2 .. k - 1 :
               /\ r[b] = Bang /\ Clear(r, {Bang, AtSign}, 2, b - 1) /\ Clear(r, {AtSign}, b + 1, k - 1)
               /\ n = SubSeq(r, 2, b - 1) /\ u = SubSeq(r, b + 1, k - 1)
      BY <2>2
    <3>2. b \in 2 .. Len(r) - 1 /\ k \in b + 1 .. Len(r) - 1
      BY <1>2
    <3>3. NickNameAndHost(r, Len(r), n, u, t)
      BY <1>2, <3>1, <3>2 DEF NickNameAndHost
    <3> QED
      BY <3>3
  <2> QED
    BY <1>4, <2>1, <2>2 DEF WhoRead
<1>6. PrefixRead(r, Len(r), n, u, t)
  BY <1>2, <1>3, <1>5 DEF PrefixRead, Prefixed
<1>7. Len(r) <= Len(r) /\ Clear(r, {Space}, Len(r) + 1, Len(r))
  BY <1>2 DEF Clear
<1> QED
  BY <1>1, <1>2, <1>6, <1>7 DEF CommandState

\* The command goes on.
LEMMA CommandStays ==
  ASSUME NEW l \in Seq(Chars), NEW x \in Chars, NEW r, r = Append(l, x),
         NEW k, NEW n, NEW u, NEW h, NEW m, NEW ps, CommandState(l, k, n, u, h, m, ps),
         x # Space, l = <<>> => x # Colon
  PROVE  CommandState(r, k, n, u, h, m, ps)
<1>0. Len(r) = Len(l) + 1 /\ Len(l) \in Nat
  BY Longer
<1>1. k \in Nat /\ k <= Len(l) /\ PrefixRead(l, k, n, u, h) /\ Clear(l, {Space}, k + 1, Len(l))
  BY DEF CommandState
<1>2. PrefixRead(r, k, n, u, h)
  BY <1>1, PrefixLonger
<1>3. k + 1 \in Nat \ {0} /\ k <= Len(r)
  BY <1>0, <1>1
<1>4. Clear(r, {Space}, k + 1, Len(r))
  BY <1>1, <1>3, ClearOneMore
<1> QED
  BY <1>1, <1>2, <1>3, <1>4 DEF CommandState

\* The command ends.
LEMMA CommandEnds ==
  ASSUME NEW l \in Seq(Chars), NEW r, r = Append(l, Space), Space \in Chars,
         NEW k, NEW n, NEW u, NEW h, NEW m, NEW ps, CommandState(l, k, n, u, h, m, ps),
         NEW t, t = SubSeq(r, k + 1, Len(r) - 1)
  PROVE  ParamsState(r, Len(r), n, u, h, t, ps)
<1>0. /\ r \in Seq(Chars) /\ Len(r) = Len(l) + 1 /\ Len(l) \in Nat
      /\ r[Len(l) + 1] = Space /\ \A i \in 1 .. Len(l) : r[i] = l[i]
  BY Longer
<1>1. /\ k \in Nat /\ k <= Len(l) /\ PrefixRead(l, k, n, u, h) /\ Clear(l, {Space}, k + 1, Len(l))
      /\ m = None /\ ps = <<>>
  BY DEF CommandState
<1>2. PrefixRead(r, k, n, u, h)
  BY <1>1, PrefixLonger, Different
<1>3. k + 1 \in Nat \ {0} /\ Len(l) <= Len(l) /\ Len(r) - 1 = Len(l) /\ k < Len(r)
      /\ Len(r) \in Nat /\ Len(r) <= Len(r) /\ r[Len(r)] = Space
  BY <1>0, <1>1
<1>4. Clear(r, {Space}, k + 1, Len(l))
  BY <1>0, <1>1, <1>3, ClearLonger
<1>5. CommandRead(r, k, Len(r), t)
  BY <1>1, <1>3, <1>4 DEF CommandRead
<1> DEFINE sp == [i \in 1 .. 1 |-> Len(r)]
<1>6. sp \in [1 .. 1 -> Nat] /\ sp[1] = Len(r) /\ \A i \in 1 .. 1 : i = 1
  BY <1>3
<1> HIDE DEF sp
<1>7. Spaced(r, Len(r), Len(r), 1, sp)
  BY <1>3, <1>6 DEF Spaced
<1>8. ParamsRead(r, 1, sp, ps)
  <2>1. ps \in Seq(Seq(Chars)) /\ Len(ps) = 0 /\ MaxParams \in Nat /\ 1 - 1 = 0 
    BY <1>1, ParserAssumption
  <2> QED
    BY <2>1 DEF ParamsRead
<1>9. Read(r, Len(r), n, u, h, t, ps, k, Len(r), 1, sp)
  BY <1>2, <1>3, <1>5, <1>7, <1>8 DEF Read
<1> QED
  BY <1>6, <1>9 DEF ParamsState

\* A parameter ends.
LEMMA ParamsSpace ==
  ASSUME NEW l \in Seq(Chars), NEW r, r = Append(l, Space), Space \in Chars,
         NEW k, NEW n, NEW u, NEW h, NEW m, NEW ps, ParamsState(l, k, n, u, h, m, ps),
         NEW t, t = SubSeq(r, k + 1, Len(r) - 1)
  PROVE  ParamsState(r, Len(r), n, u, h, m, Added(ps, t))
<1>1. PICK e, c, j, sp : Read(l, Len(l), n, u, h, m, ps, e, c, j, sp) /\ k = sp[j]
  BY DEF ParamsState
<1>2. ParamsState(r, Len(r), n, u, h, m, Added(ps, SubSeq(r, sp[j] + 1, Len(r) - 1)))
  BY <1>1, SpaceAdded
<1> QED
  BY <1>1, <1>2

\* What was read up to z stays as it is.
LEMMA ReadLonger ==
  ASSUME NEW l \in Seq(Chars), NEW x \in Chars, NEW r, r = Append(l, x), NEW z \in Nat, z <= Len(l),
         NEW n, NEW u, NEW h, NEW m, NEW ps, NEW e, NEW c, NEW j, NEW sp,
         Read(l, z, n, u, h, m, ps, e, c, j, sp)
  PROVE  Read(r, z, n, u, h, m, ps, e, c, j, sp)
<1>1. /\ PrefixRead(l, e, n, u, h) /\ CommandRead(l, e, c, m)
      /\ c <= z /\ Spaced(l, c, z, j, sp) /\ ParamsRead(l, j, sp, ps)
  BY DEF Read
<1>2. c \in Nat \ {0} /\ c <= Len(l) /\ l # <<>>
  BY <1>1 DEF CommandRead
<1>3. PrefixRead(r, e, n, u, h)
  BY <1>1, <1>2, PrefixLonger
<1>4. CommandRead(r, e, c, m)
  BY <1>1, CommandLonger
<1>5. Spaced(r, c, z, j, sp) /\ ParamsRead(r, j, sp, ps)
  BY <1>1, <1>2, SpacedLonger, ParamsLonger
<1> QED
  BY <1>1, <1>3, <1>4, <1>5 DEF Read

\* A ":" after a space starts the trailing parameter.
LEMMA ParamsColon ==
  ASSUME NEW l \in Seq(Chars), NEW r, r = Append(l, Colon), Colon \in Chars,
         NEW k, NEW n, NEW u, NEW h, NEW m, NEW ps, ParamsState(l, k, n, u, h, m, ps),
         Len(r) = k + 1
  PROVE  TrailingState(r, Len(r), n, u, h, m, ps)
<1>0. /\ r \in Seq(Chars) /\ Len(r) = Len(l) + 1 /\ Len(l) \in Nat /\ Len(l) <= Len(l)
      /\ r[Len(l) + 1] = Colon
  BY Longer
<1>1. PICK e, c, j, sp : Read(l, Len(l), n, u, h, m, ps, e, c, j, sp) /\ k = sp[j]
  BY DEF ParamsState
<1>2. Read(r, Len(l), n, u, h, m, ps, e, c, j, sp)
  BY <1>0, <1>1, ReadLonger
<1>3. j \in Nat \ {0} /\ sp \in [1 .. j -> Nat]
  BY <1>1 DEF Read, Spaced
<1>4. sp[j] \in Nat
  BY <1>3
<1>5. Len(r) - 1 = Len(l) /\ sp[j] = Len(r) - 1 /\ Len(r) \in Nat \ {0} /\ Len(r) <= Len(r) /\ r[Len(r)] = Colon
  BY <1>0, <1>1, <1>4
<1> QED
  BY <1>2, <1>5 DEF TrailingState

\* A parameter goes on.
LEMMA ParamsStays ==
  ASSUME NEW l \in Seq(Chars), NEW x \in Chars, NEW r, r = Append(l, x),
         NEW k, NEW n, NEW u, NEW h, NEW m, NEW ps, ParamsState(l, k, n, u, h, m, ps),
         x # Space, ~(x = Colon /\ Len(r) = k + 1)
  PROVE  ParamsState(r, k, n, u, h, m, ps)
<1>0. /\ r \in Seq(Chars) /\ Len(r) = Len(l) + 1 /\ Len(l) \in Nat /\ Len(l) <= Len(l)
      /\ r[Len(l) + 1] = x /\ \A i \in 1 .. Len(l) : r[i] = l[i]
  BY Longer
<1>1. PICK e, c, j, sp : Read(l, Len(l), n, u, h, m, ps, e, c, j, sp) /\ k = sp[j]
  BY DEF ParamsState
<1>2. Read(r, Len(l), n, u, h, m, ps, e, c, j, sp)
  BY <1>0, <1>1, ReadLonger
<1>3. Spaced(r, c, Len(l), j, sp) /\ c <= Len(l) /\ CommandRead(r, e, c, m)
  BY <1>2 DEF Read
<1>4. c \in Nat /\ j \in Nat \ {0} /\ sp \in [1 .. j -> Nat] /\ sp[1] = c /\ sp[j] <= Len(l)
  BY <1>3 DEF Spaced, CommandRead
<1>5. Spaced(r, c, Len(r), j, sp)
  <2>1. ASSUME NEW q \in 1 .. j PROVE r[sp[q]] = Space /\ (sp[q] < Len(r) => r[sp[q] + 1] # Colon)
    <3>1. sp[q] \in Nat /\ sp[q] <= sp[j] /\ sp[q] <= Len(l)
      BY <1>0, <1>3, <1>4, SpacedBounds
    <3>2. r[sp[q]] = Space /\ (sp[q] < Len(l) => r[sp[q] + 1] # Colon)
      BY <1>3 DEF Spaced
    <3>3. sp[q] = Len(l) => r[sp[q] + 1] # Colon
      <4> SUFFICES ASSUME sp[q] = Len(l) PROVE x # Colon
        BY <1>0
      <4>1. j \in 1 .. j
        BY <1>4
      <4>2. sp[j] = Len(l)
        BY <1>0, <1>4, <3>1, <4>1
      <4> QED
        BY <1>0, <1>1, <4>2
    <3> QED
      BY <1>0, <3>1, <3>2, <3>3
  <2>2. ASSUME NEW i \in c .. Len(r), r[i] = Space PROVE \E q \in 1 .. j : i = sp[q]
    <3>1. i \in c .. Len(l)
      BY <1>0, <1>4, <2>2
    <3> QED
      BY <1>3, <2>2, <3>1 DEF Spaced
  <2>3. sp[j] <= Len(r)
    <3>1. j \in 1 .. j
      BY <1>4
    <3> QED
      BY <1>0, <1>4, <3>1
  <2> QED
    BY <1>3, <2>1, <2>2, <2>3 DEF Spaced
<1>6. c <= Len(r)
  BY <1>0, <1>3, <1>4
<1>7. Read(r, Len(r), n, u, h, m, ps, e, c, j, sp)
  BY <1>2, <1>5, <1>6 DEF Read
<1> QED
  BY <1>1, <1>7 DEF ParamsState

\* The trailing parameter goes on.
LEMMA TrailingStays ==
  ASSUME NEW l \in Seq(Chars), NEW x \in Chars, NEW r, r = Append(l, x),
         NEW k, NEW n, NEW u, NEW h, NEW m, NEW ps, TrailingState(l, k, n, u, h, m, ps)
  PROVE  TrailingState(r, k, n, u, h, m, ps)
<1>0. /\ Len(r) = Len(l) + 1 /\ Len(l) \in Nat /\ \A i \in 1 .. Len(l) : r[i] = l[i]
  BY Longer
<1>1. k \in Nat \ {0} /\ k <= Len(l) /\ l[k] = Colon
  BY DEF TrailingState
<1>2. PICK e, c, j, sp : Read(l, k - 1, n, u, h, m, ps, e, c, j, sp) /\ sp[j] = k - 1
  BY DEF TrailingState
<1> DEFINE z == k - 1
<1>3. z \in Nat /\ z <= Len(l)
  BY <1>0, <1>1
<1>4. Read(l, z, n, u, h, m, ps, e, c, j, sp)
  BY <1>2
<1> HIDE DEF z
<1>5. Read(r, z, n, u, h, m, ps, e, c, j, sp)
  BY <1>3, <1>4, ReadLonger
<1>6. Read(r, k - 1, n, u, h, m, ps, e, c, j, sp)
  BY <1>5 DEF z
<1>7. k <= Len(r) /\ r[k] = Colon
  BY <1>0, <1>1
<1> QED
  BY <1>1, <1>2, <1>6, <1>7 DEF TrailingState

-----------------------------------------------------------------------------
(* The end of the line.                                                     *)

\* No line of the grammar ends in its prefix.
LEMMA PrefixUnfinished ==
  ASSUME NEW l \in Seq(Chars), WellFormed(l), l # <<>>, l[1] = Colon
  PROVE  ~Clear(l, {Space}, 2, Len(l))
<1>1. PICK i \in 1 .. Len(l) : l[i] = Space
  BY DEF WellFormed, HasPrefix, At
<1>2. i # 1
  BY <1>1, Different
<1>3. i \in 2 .. Len(l)
  BY <1>2
<1> QED
  BY <1>1, <1>3 DEF Clear

\* What the grammar takes for the prefix.
LEMMA PrefixOfGrammar ==
  ASSUME NEW l \in Seq(Chars), l # <<>>, NEW e, NEW n, NEW u, NEW h, PrefixRead(l, e, n, u, h), WellFormed(l)
  PROVE  /\ e \in Nat /\ PrefixEnd(l) = (IF e = 0 THEN 0 ELSE e - 1) /\ (e # 0 => l[e] = Space)
         /\ Grammar(l)[1] = n /\ Grammar(l)[2] = u /\ Grammar(l)[3] = h
<1>1. CASE e = 0 /\ (l # <<>> => l[1] # Colon) /\ n = None /\ u = None /\ h = None
  <2>1. ~HasPrefix(l)
    BY <1>1 DEF HasPrefix
  <2>2. PrefixEnd(l) = 0 /\ e \in Nat /\ e = 0
    BY <1>1, <2>1 DEF PrefixEnd
  <2>3. Grammar(l)[1] = None /\ Grammar(l)[2] = None /\ Grammar(l)[3] = None
    BY <2>1 DEF Grammar
  <2> QED
    BY <1>1, <2>2, <2>3
<1>2. CASE Prefixed(l, e, n, u, h)
  <2>1. e \in 2 .. Len(l) /\ l[e] = Space /\ l[1] = Colon
    BY <1>2 DEF Prefixed
  <2>2. GoodPrefix(PrefixOf(l))
    BY <2>1 DEF WellFormed, HasPrefix
  <2>3. PrefixEnd(l) = e - 1 /\ Grammar(l)[1] = n /\ Grammar(l)[2] = u /\ Grammar(l)[3] = h
    BY <1>2, <2>2, PrefixGrammar
  <2>4. e \in Nat /\ e # 0
    BY <2>1
  <2> QED
    BY <2>1, <2>3, <2>4
<1> QED
  BY <1>1, <1>2 DEF PrefixRead

\* Nor in its command.
LEMMA CommandUnfinished ==
  ASSUME NEW l \in Seq(Chars), WellFormed(l), NEW k, NEW n, NEW u, NEW h, NEW m, NEW ps
  PROVE  ~CommandState(l, k, n, u, h, m, ps)
<1> SUFFICES ASSUME CommandState(l, k, n, u, h, m, ps) PROVE FALSE
  OBVIOUS
<1> DEFINE word == {j \in PrefixEnd(l) + 1 .. Len(l) : l[j] # Space}
           q == CommandAt(l)
<1>1. word # {} /\ \E j \in At(l, Space) : j > q
  BY DEF WellFormed
<1>2. k \in Nat /\ PrefixRead(l, k, n, u, h) /\ Clear(l, {Space}, k + 1, Len(l))
  BY DEF CommandState
<1>3. l # <<>>
  <2>1. l = <<>> => At(l, Space) = {}
    BY DEF At
  <2> QED
    BY <1>1, <2>1
<1>4. PrefixEnd(l) = (IF k = 0 THEN 0 ELSE k - 1)
  BY <1>2, <1>3, PrefixOfGrammar
<1>5. word \in SUBSET Nat
  BY <1>2, <1>4
<1>6. q = First(word)
  BY DEF CommandAt, Begins
<1>7. q \in word
  BY <1>1, <1>5, <1>6, FirstOf
<1>8. q \in Nat /\ q >= k
  BY <1>2, <1>4, <1>7
<1>9. PICK j \in At(l, Space) : j > q
  BY <1>1
<1>10. j \in k + 1 .. Len(l) /\ l[j] = Space
  BY <1>2, <1>8, <1>9 DEF At
<1> QED
  BY <1>2, <1>10 DEF Clear

\* The result of a complete line is the grammar's.
AsGrammar(l, n, u, h, m, ps) == m # None /\ <<n, u, h, m, ps>> = Grammar(l)

\* In the parameters it is read as the grammar says.
LEMMA ReadGrammar ==
  ASSUME NEW l \in Seq(Chars), WellFormed(l), NEW n, NEW u, NEW h, NEW m, NEW ps,
         NEW e, NEW c, NEW j, NEW sp, NEW z \in Nat, z <= Len(l),
         Read(l, z, n, u, h, m, ps, e, c, j, sp),
         z < Len(l) => sp[j] = z /\ l[z + 1] = Colon,
         NEW t \in Seq(Chars), z = Len(l) => t = SubSeq(l, sp[j] + 1, Len(l)),
         z # Len(l) => t = SubSeq(l, z + 2, Len(l))
  PROVE  AsGrammar(l, n, u, h, m, Added(ps, t))
<1>1. /\ PrefixRead(l, e, n, u, h) /\ CommandRead(l, e, c, m)
      /\ c <= z /\ Spaced(l, c, z, j, sp) /\ ParamsRead(l, j, sp, ps)
  BY DEF Read
<1>2. /\ e \in Nat /\ c \in Nat \ {0} /\ e < c /\ c <= Len(l) /\ l # <<>>
      /\ l[c] = Space /\ Clear(l, {Space}, e + 1, c - 1) /\ m = SubSeq(l, e + 1, c - 1)
  BY <1>1 DEF CommandRead
<1>3. /\ PrefixEnd(l) = (IF e = 0 THEN 0 ELSE e - 1) /\ (e # 0 => l[e] = Space)
      /\ Grammar(l)[1] = n /\ Grammar(l)[2] = u /\ Grammar(l)[3] = h
  BY <1>1, <1>2, PrefixOfGrammar
<1>4. CommandAt(l) = e + 1 /\ CommandEnd(l) = c - 1
  BY <1>2, <1>3, CommandGrammar
<1>5. Grammar(l)[4] = m
  BY <1>2, <1>4 DEF Grammar
<1>6. m # None
  <2>1. e + 1 \in Nat \ {0} /\ c - 1 \in Nat /\ c - 1 <= Len(l)
    BY <1>2
  <2>2. m \in Seq(Chars)
    BY <1>2, <2>1, Part
  <2>3. None \notin Seq(Chars)
    BY ParserAssumption DEF None
  <2> QED
    BY <2>2, <2>3
<1>7. j <= MaxParams /\ ParamsOf(l) = [k \in 1 .. j |-> TextOf(l, z, j, sp, k)]
  BY <1>1, <1>2, <1>4, ParamsGrammar
<1>8. j \in Nat \ {0} /\ MaxParams \in Nat
  BY <1>1, ParserAssumption DEF Spaced
<1>9. /\ ps \in Seq(Seq(Chars)) /\ Len(ps) = j - 1
      /\ \A i \in 1 .. Len(ps) : ps[i] = SubSeq(l, sp[i] + 1, sp[i + 1] - 1)
  BY <1>1, <1>7, <1>8 DEF ParamsRead
<1> DEFINE f == [k \in 1 .. j |-> TextOf(l, z, j, sp, k)]
           qs == Append(ps, t)
<1>10. \A i \in 1 .. Len(ps) : ps[i] = TextOf(l, z, j, sp, i)
  <2>1. ASSUME NEW i \in 1 .. Len(ps) PROVE ps[i] = TextOf(l, z, j, sp, i)
    <3>1. i < j
      BY <1>8, <1>9
    <3> QED
      BY <1>9, <3>1 DEF TextOf
  <2> QED
    BY <2>1
<1>11. t = TextOf(l, z, j, sp, j)
  BY <1>8 DEF TextOf
<1> HIDE DEF f
<1>12. Added(ps, t) = qs
  BY <1>7, <1>8, <1>9 DEF Added
<1>13. Len(qs) = j /\ DOMAIN qs = 1 .. j /\ qs[j] = t /\ \A i \in 1 .. Len(ps) : qs[i] = ps[i]
  BY <1>8, <1>9
<1>14. qs = f
  <2>1. qs = [k \in 1 .. j |-> qs[k]]
    <3>1. qs \in Seq(Seq(Chars))
      BY <1>9
    <3> HIDE DEF qs
    <3>2. qs \in [1 .. Len(qs) -> Seq(Chars)]
      BY <3>1
    <3>3. qs \in [1 .. j -> Seq(Chars)]
      BY <1>13, <3>2
    <3> QED
      BY <3>3
  <2> HIDE DEF qs
  <2>2. ASSUME NEW k \in 1 .. j PROVE qs[k] = TextOf(l, z, j, sp, k)
    <3>1. k = j \/ k \in 1 .. Len(ps)
      BY <1>8, <1>9
    <3> QED
      BY <1>10, <1>11, <1>13, <3>1
  <2> QED
    BY <2>1, <2>2 DEF f
<1>15. Grammar(l)[5] = f
  BY <1>7 DEF Grammar, f
<1>16. Grammar(l) = <<Grammar(l)[1], Grammar(l)[2], Grammar(l)[3], Grammar(l)[4], Grammar(l)[5]>>
  BY DEF Grammar
<1> QED
  BY <1>3, <1>5, <1>6, <1>12, <1>14, <1>15, <1>16 DEF AsGrammar

\* In state PARAMS the rest of the line is the last parameter,
LEMMA ParamsReadAsGrammar ==
  ASSUME NEW l \in Seq(Chars), WellFormed(l), NEW k, NEW n, NEW u, NEW h, NEW m, NEW ps,
         ParamsState(l, k, n, u, h, m, ps)
  PROVE  AsGrammar(l, n, u, h, m, Added(ps, SubSeq(l, k + 1, Len(l))))
<1>1. PICK e, c, j, sp : Read(l, Len(l), n, u, h, m, ps, e, c, j, sp) /\ k = sp[j]
  BY DEF ParamsState
<1>2. Len(l) \in Nat /\ Len(l) <= Len(l) /\ ~(Len(l) < Len(l))
  OBVIOUS
<1> DEFINE z == Len(l)
           t == SubSeq(l, k + 1, Len(l))
<1>3. /\ z \in Nat /\ z <= Len(l) /\ z = Len(l) /\ ~(z < Len(l)) /\ t = SubSeq(l, sp[j] + 1, Len(l))
      /\ Read(l, z, n, u, h, m, ps, e, c, j, sp)
  BY <1>1, <1>2
<1>5. t \in Seq(Chars)
  <2>1. j \in Nat \ {0} /\ sp \in [1 .. j -> Nat]
    BY <1>1 DEF Read, Spaced
  <2>2. k + 1 \in Nat \ {0}
    BY <1>1, <2>1
  <2> QED
    BY <1>2, <2>2, Part
<1> HIDE DEF t, z
<1>4. AsGrammar(l, n, u, h, m, Added(ps, t))
  BY <1>3, <1>5, ReadGrammar
<1> QED
  BY <1>4 DEF t

\* and in state TRAILING what follows the ":".
LEMMA TrailingReadAsGrammar ==
  ASSUME NEW l \in Seq(Chars), WellFormed(l), NEW k, NEW n, NEW u, NEW h, NEW m, NEW ps,
         TrailingState(l, k, n, u, h, m, ps)
  PROVE  AsGrammar(l, n, u, h, m, Added(ps, SubSeq(l, k + 1, Len(l))))
<1>1. k \in Nat \ {0} /\ k <= Len(l) /\ l[k] = Colon /\ Len(l) \in Nat
  BY DEF TrailingState
<1>2. PICK e, c, j, sp : Read(l, k - 1, n, u, h, m, ps, e, c, j, sp) /\ sp[j] = k - 1
  BY DEF TrailingState
<1> DEFINE z == k - 1
           t == SubSeq(l, k + 1, Len(l))
<1>3. z \in Nat /\ z <= Len(l) /\ z # Len(l) /\ z + 1 = k /\ z + 2 = k + 1
  BY <1>1
<1>4. Read(l, z, n, u, h, m, ps, e, c, j, sp) /\ sp[j] = z /\ l[z + 1] = Colon
  BY <1>1, <1>2, <1>3
<1>5. t = SubSeq(l, z + 2, Len(l))
  BY <1>3
<1>7. t \in Seq(Chars)
  <2>1. k + 1 \in Nat \ {0} /\ Len(l) <= Len(l)
    BY <1>1
  <2> QED
    BY <1>1, <2>1, Part
<1> HIDE DEF t, z
<1>6. AsGrammar(l, n, u, h, m, Added(ps, t))
  BY <1>3, <1>4, <1>5, <1>7, ReadGrammar
<1> QED
  BY <1>6 DEF t

-----------------------------------------------------------------------------
(* The parser.                                                              *)

\* What the parser has read of l, by its state.
StateRead(l, s, k, n, u, h, m, ps) ==
  /\ s \in {"INIT", "NICK", "NAME", "HOST", "COMMAND", "PARAMS", "TRAILING"}
  /\ s = "INIT" => l = <<>> /\ k = 0 /\ <<n, u, h, m, ps>> = Blank
  /\ s # "INIT" => l # <<>>
  /\ s = "NICK" => NickState(l, k, n, u, h, m, ps)
  /\ s = "NAME" => NameState(l, k, n, u, h, m, ps)
  /\ s = "HOST" => HostState(l, k, n, u, h, m, ps)
  /\ s = "COMMAND" => CommandState(l, k, n, u, h, m, ps)
  /\ s = "PARAMS" => ParamsState(l, k, n, u, h, m, ps)
  /\ s = "TRAILING" => TrailingState(l, k, n, u, h, m, ps)

\* One character more.
LEMMA StateStep ==
  ASSUME NEW l \in Seq(Chars), NEW x \in Chars, raw = l, ~(Len(Append(l, x)) > RawSize),
         StateRead(l, state, last, nick, name, host, command, params), ordinary(x)
  PROVE  /\ raw' = Append(l, x) /\ ~returned'
         /\ StateRead(raw', state', last', nick', name', host', command', params')
<1> DEFINE r == Append(l, x)
           z == Len(r)
           t == Text(r)
<1>0. r = Append(l, x) /\ t = SubSeq(r, last + 1, z - 1) /\ z = Len(r) /\ t = Text(r) /\ r # <<>>
  BY Longer DEF Text
<1>1. StateRead(l, state, last, nick, name, host, command, params)
  OBVIOUS
<1>2. /\ raw' = r /\ returned' = (state \in {"ERROR", "END"})
      /\ CASE state = "INIT" -> Start(x, r)
           [] state = "NICK" -> Nick(x, r)
           [] state = "NAME" -> Name(x, r)
           [] state = "HOST" -> Host(x, r)
           [] state = "COMMAND" -> Command(x, r)
           [] state = "PARAMS" -> Params(x, r)
           [] state = "TRAILING" -> Stay("TRAILING")
           [] OTHER -> Stay("ERROR")
  BY DEF ordinary, TooLong
<1> HIDE DEF r, z, t
<1>3. state \in {"INIT", "NICK", "NAME", "HOST", "COMMAND", "PARAMS", "TRAILING"}
  BY <1>1 DEF StateRead
<1>12. returned' = (state \in {"ERROR", "END"})
  BY <1>2
<1>13. ~returned'
  BY <1>3, <1>12
<1>14. raw' = Append(l, x) /\ raw' = r
  BY <1>0, <1>2
<1> SUFFICES StateRead(r, state', last', nick', name', host', command', params')
  BY <1>13, <1>14
<1>4. CASE state = "NICK"
  <2>1. Nick(x, r) /\ NickState(l, last, nick, name, host, command, params)
    BY <1>1, <1>2, <1>4 DEF StateRead
  <2>2. CASE x = AtSign
    <3>1. state' = "HOST" /\ last' = z /\ nick' = t /\ name' = name /\ host' = host /\ command' = command /\ params' = params
      BY <1>0, <2>1, <2>2, Different DEF Nick, CallAndGo, Call, on_param, Added, z
    <3>2. HostState(r, z, t, name, host, command, params)
      BY <1>0, <2>1, <2>2, NickEnds DEF t, z
    <3> QED
      BY <1>0, <3>1, <3>2 DEF StateRead
  <2>3. CASE x = Space
    <3>1. state' = "COMMAND" /\ last' = z /\ nick' = t /\ name' = name /\ host' = host /\ command' = command /\ params' = params
      BY <1>0, <2>1, <2>3, Different DEF Nick, CallAndGo, Call, on_param, Added, z
    <3>2. CommandState(r, z, t, name, host, command, params)
      BY <1>0, <2>1, <2>3, NickEnds DEF t, z
    <3> QED
      BY <1>0, <3>1, <3>2 DEF StateRead
  <2>4. CASE x = Bang
    <3>1. state' = "NAME" /\ last' = z /\ nick' = t /\ name' = name /\ host' = host /\ command' = command /\ params' = params
      BY <1>0, <2>1, <2>4, Different DEF Nick, CallAndGo, Call, on_param, Added, z
    <3>2. NameState(r, z, t, name, host, command, params)
      BY <1>0, <2>1, <2>4, NickEnds DEF t, z
    <3> QED
      BY <1>0, <3>1, <3>2 DEF StateRead
  <2>5. CASE x \notin {AtSign, Space, Bang}
    <3>1. state' = "NICK" /\ last' = last /\ nick' = nick /\ name' = name /\ host' = host /\ command' = command /\ params' = params
      BY <1>0, <2>1, <2>5, Different DEF Nick, Stay, result, z
    <3>2. NickState(r, last, nick, name, host, command, params)
      BY <1>0, <2>1, <2>5, NickStays DEF z
    <3> QED
      BY <1>0, <3>1, <3>2 DEF StateRead
  <2> QED
    BY <2>2, <2>3, <2>4, <2>5
<1>5. CASE state = "NAME"
  <2>1. Name(x, r) /\ NameState(l, last, nick, name, host, command, params)
    BY <1>1, <1>2, <1>5 DEF StateRead
  <2>2. CASE x = AtSign
    <3>1. state' = "HOST" /\ last' = z /\ nick' = nick /\ name' = t /\ host' = host /\ command' = command /\ params' = params
      BY <1>0, <2>1, <2>2, Different DEF Name, CallAndGo, Call, on_param, Added, z
    <3>2. HostState(r, z, nick, t, host, command, params)
      BY <1>0, <2>1, <2>2, NameEnds DEF t, z
    <3> QED
      BY <1>0, <3>1, <3>2 DEF StateRead
  <2>3. CASE x = Space
    <3>1. state' = "COMMAND" /\ last' = z /\ nick' = nick /\ name' = t /\ host' = host /\ command' = command /\ params' = params
      BY <1>0, <2>1, <2>3, Different DEF Name, CallAndGo, Call, on_param, Added, z
    <3>2. CommandState(r, z, nick, t, host, command, params)
      BY <1>0, <2>1, <2>3, NameEnds DEF t, z
    <3> QED
      BY <1>0, <3>1, <3>2 DEF StateRead
  <2>4. CASE x \notin {AtSign, Space}
    <3>1. state' = "NAME" /\ last' = last /\ nick' = nick /\ name' = name /\ host' = host /\ command' = command /\ params' = params
      BY <1>0, <2>1, <2>4, Different DEF Name, Stay, result, z
    <3>2. NameState(r, last, nick, name, host, command, params)
      BY <1>0, <2>1, <2>4, NameStays DEF z
    <3> QED
      BY <1>0, <3>1, <3>2 DEF StateRead
  <2> QED
    BY <2>2, <2>3, <2>4
<1>6. CASE state = "HOST"
  <2>1. Host(x, r) /\ HostState(l, last, nick, name, host, command, params)
    BY <1>1, <1>2, <1>6 DEF StateRead
  <2>2. CASE x = Space
    <3>1. state' = "COMMAND" /\ last' = z /\ nick' = nick /\ name' = name /\ host' = t /\ command' = command /\ params' = params
      BY <1>0, <2>1, <2>2, Different DEF Host, CallAndGo, Call, on_param, Added, z
    <3>2. CommandState(r, z, nick, name, t, command, params)
      BY <1>0, <2>1, <2>2, HostEnds DEF t, z
    <3> QED
      BY <1>0, <3>1, <3>2 DEF StateRead
  <2>3. CASE x # Space
    <3>1. state' = "HOST" /\ last' = last /\ nick' = nick /\ name' = name /\ host' = host /\ command' = command /\ params' = params
      BY <1>0, <2>1, <2>3, Different DEF Host, Stay, result, z
    <3>2. HostState(r, last, nick, name, host, command, params)
      BY <1>0, <2>1, <2>3, HostStays DEF z
    <3> QED
      BY <1>0, <3>1, <3>2 DEF StateRead
  <2> QED
    BY <2>2, <2>3
<1>7. CASE state = "PARAMS"
  <2>1. Params(x, r) /\ ParamsState(l, last, nick, name, host, command, params)
    BY <1>1, <1>2, <1>7 DEF StateRead
  <2>2. CASE x = Space
    <3>1. state' = "PARAMS" /\ last' = z /\ nick' = nick /\ name' = name /\ host' = host /\ command' = command /\ params' = Added(params, t)
      BY <1>0, <2>1, <2>2, Different DEF Params, CallAndGo, Call, on_param, Added, z
    <3>2. ParamsState(r, z, nick, name, host, command, Added(params, t))
      BY <1>0, <2>1, <2>2, ParamsSpace DEF t, z
    <3> QED
      BY <1>0, <3>1, <3>2 DEF StateRead
  <2>3. CASE x = Colon /\ z = last + 1
    <3>1. state' = "TRAILING" /\ last' = z /\ nick' = nick /\ name' = name /\ host' = host /\ command' = command /\ params' = params
      BY <1>0, <2>1, <2>3, Different DEF Params, Stay, result, z
    <3>2. TrailingState(r, z, nick, name, host, command, params)
      BY <1>0, <2>1, <2>3, ParamsColon DEF z
    <3> QED
      BY <1>0, <3>1, <3>2 DEF StateRead
  <2>4. CASE x # Space /\ ~(x = Colon /\ z = last + 1)
    <3>1. state' = "PARAMS" /\ last' = last /\ nick' = nick /\ name' = name /\ host' = host /\ command' = command /\ params' = params
      BY <1>0, <2>1, <2>4, Different DEF Params, Stay, result, z
    <3>2. ParamsState(r, last, nick, name, host, command, params)
      BY <1>0, <2>1, <2>4, ParamsStays DEF z
    <3> QED
      BY <1>0, <3>1, <3>2 DEF StateRead
  <2> QED
    BY <2>2, <2>3, <2>4
<1>8. CASE state = "TRAILING"
  <2>1. Stay("TRAILING") /\ TrailingState(l, last, nick, name, host, command, params)
    BY <1>1, <1>2, <1>8 DEF StateRead
  <2>2. CASE TRUE
    <3>1. state' = "TRAILING" /\ last' = last /\ nick' = nick /\ name' = name /\ host' = host /\ command' = command /\ params' = params
      BY <1>0, <2>1, <2>2, Different DEF Stay, Stay, result, z
    <3>2. TrailingState(r, last, nick, name, host, command, params)
      BY <1>0, <2>1, <2>2, TrailingStays DEF z
    <3> QED
      BY <1>0, <3>1, <3>2 DEF StateRead
  <2> QED
    BY <2>2
<1>9. ASSUME Command(x, r), CommandState(l, last, nick, name, host, command, params), l = <<>> => x # Colon
      PROVE  StateRead(r, state', last', nick', name', host', command', params')
  <2>1. CASE x = Space
    <3>1. state' = "PARAMS" /\ last' = z /\ nick' = nick /\ name' = name /\ host' = host /\ command' = t /\ params' = params
      BY <1>0, <1>9, <2>1 DEF Command, CallAndGo, Call, z
    <3>2. ParamsState(r, z, nick, name, host, t, params)
      BY <1>0, <1>9, <2>1, CommandEnds DEF t, z
    <3> QED
      BY <1>0, <3>1, <3>2 DEF StateRead
  <2>2. CASE x # Space
    <3>1. state' = "COMMAND" /\ last' = last /\ nick' = nick /\ name' = name /\ host' = host /\ command' = command /\ params' = params
      BY <1>0, <1>9, <2>2 DEF Command, Stay, result
    <3>2. CommandState(r, last, nick, name, host, command, params)
      BY <1>0, <1>9, <2>2, CommandStays DEF z
    <3> QED
      BY <1>0, <3>1, <3>2 DEF StateRead
  <2> QED
    BY <2>1, <2>2
<1>10. CASE state = "COMMAND"
  <2>1. Command(x, r) /\ CommandState(l, last, nick, name, host, command, params)
    BY <1>1, <1>2, <1>10 DEF StateRead
  <2>2. l # <<>>
    BY <1>1, <1>10 DEF StateRead
  <2> QED
    BY <1>9, <2>1, <2>2
<1>11. CASE state = "INIT"
  <2>1. Start(x, r) /\ l = <<>> /\ last = 0 /\ <<nick, name, host, command, params>> = Blank
    BY <1>1, <1>2, <1>11 DEF StateRead
  <2>2. nick = None /\ name = None /\ host = None /\ command = None /\ params = <<>>
    BY <2>1 DEF Blank
  <2>3. /\ x = Colon => NickState(r, 1, None, None, None, None, <<>>)
        /\ CommandState(<<>>, 0, None, None, None, None, <<>>)
    BY <1>0, <2>1, Starting
  <2>4. CASE x = Colon
    <3>1. state' = "NICK" /\ last' = 1 /\ nick' = nick /\ name' = name /\ host' = host /\ command' = command /\ params' = params
      BY <2>1, <2>4 DEF Start, result
    <3>2. NickState(r, 1, nick, name, host, command, params)
      BY <2>2, <2>3, <2>4
    <3> QED
      BY <1>0, <3>1, <3>2 DEF StateRead
  <2>5. CASE x # Colon
    <3>1. Command(x, r)
      BY <2>1, <2>5 DEF Start
    <3>2. CommandState(l, last, nick, name, host, command, params)
      BY <2>1, <2>2, <2>3
    <3> QED
      BY <1>9, <2>5, <3>1, <3>2
  <2> QED
    BY <2>4, <2>5
<1> QED
  BY <1>3, <1>4, <1>5, <1>6, <1>7, <1>8, <1>10, <1>11

\* The types of what a call changes.
States == {"INIT", "NICK", "NAME", "HOST", "COMMAND", "PARAMS", "TRAILING", "END", "ERROR"}
TextOK(t) == t = None \/ t \in Seq(Chars)
ParamsOK(ps) == ps \in Seq(Seq(Chars)) /\ Len(ps) <= MaxParams
ResultOK == TextOK(nick) /\ TextOK(name) /\ TextOK(host) /\ TextOK(command) /\ ParamsOK(params)

\* The type invariant, by variables.
LEMMA TypesOf ==
  TypeOK <=> /\ line \in Seq(Chars) /\ raw \in Seq(Chars) /\ last \in 0 .. Len(raw)
             /\ state \in States /\ ResultOK
             /\ returned \in BOOLEAN /\ complete \in BOOLEAN /\ clean \in BOOLEAN
<1>1. (\A t \in {nick, name, host, command} : t = None \/ t \in Seq(Chars))
      <=> TextOK(nick) /\ TextOK(name) /\ TextOK(host) /\ TextOK(command)
  BY DEF TextOK
<1>2. {returned, complete, clean} \subseteq BOOLEAN
      <=> returned \in BOOLEAN /\ complete \in BOOLEAN /\ clean \in BOOLEAN
  OBVIOUS
<1> QED
  BY <1>1, <1>2, Zenon DEF TypeOK, ResultOK, ParamsOK, States

\* A parameter more keeps the array's bound.
LEMMA AddedOK ==
  ASSUME NEW ps, ParamsOK(ps), NEW t \in Seq(Chars)
  PROVE  ParamsOK(Added(ps, t))
<1>1. MaxParams \in Nat /\ ps \in Seq(Seq(Chars)) /\ Len(ps) <= MaxParams
  BY ParserAssumption DEF ParamsOK
<1>2. CASE Len(ps) < MaxParams
  <2> DEFINE qs == Append(ps, t)
  <2>1. qs \in Seq(Seq(Chars)) /\ Len(qs) = Len(ps) + 1 /\ Len(ps) \in Nat
    BY <1>1
  <2>2. Added(ps, t) = qs
    BY <1>2 DEF Added
  <2> HIDE DEF qs
  <2> QED
    BY <1>1, <1>2, <2>1, <2>2 DEF ParamsOK
<1>3. CASE ~(Len(ps) < MaxParams)
  BY <1>3 DEF Added
<1> QED
  BY <1>2, <1>3

\* What a character that is no CR or LF does, in any state.
Called(r) == \E s \in States, next \in States : CallAndGo(s, r, next)
Stayed == \E s \in States : Stay(s)
Moved(r) == state' \in States /\ last' \in {1, Len(r)} /\ UNCHANGED result

\* A character in any state calls back, stays or starts a part.
LEMMA Moves ==
  ASSUME state \in States, NEW x, ordinary(x)
  PROVE  /\ raw' = Append(raw, x) /\ returned' \in BOOLEAN
         /\ Called(raw') \/ Stayed \/ Moved(raw')
<1> DEFINE r == Append(raw, x)
           s == IF Len(r) > RawSize THEN "ERROR" ELSE state
<1>1. /\ raw' = r /\ returned' = (s \in {"ERROR", "END"})
      /\ CASE s = "INIT" -> Start(x, r)
           [] s = "NICK" -> Nick(x, r)
           [] s = "NAME" -> Name(x, r)
           [] s = "HOST" -> Host(x, r)
           [] s = "COMMAND" -> Command(x, r)
           [] s = "PARAMS" -> Params(x, r)
           [] s = "TRAILING" -> Stay("TRAILING")
           [] OTHER -> Stay("ERROR")
  BY DEF ordinary, TooLong
<1>2. s \in States
  BY DEF States
<1>3. raw' = Append(raw, x)
  BY <1>1
<1> HIDE DEF r, s
<1>4. returned' \in BOOLEAN
  BY <1>1
<1>5. raw' = r
  BY <1>1
<1> SUFFICES Called(r) \/ Stayed \/ Moved(r)
  BY <1>3, <1>4, <1>5
<1>6. \A a, b \in States : CallAndGo(a, r, b) => Called(r)
  BY DEF Called
<1>7. \A a \in States : Stay(a) => Stayed
  BY DEF Stayed
<1>8. ASSUME Command(x, r) PROVE Called(r) \/ Stayed
  BY <1>6, <1>7, <1>8 DEF Command, States
<1>9. CASE s = "INIT"
  BY <1>1, <1>8, <1>9 DEF Start, Moved, States
<1>10. CASE s = "NICK"
  BY <1>1, <1>6, <1>7, <1>10 DEF Nick, States
<1>11. CASE s = "NAME"
  BY <1>1, <1>6, <1>7, <1>11 DEF Name, States
<1>12. CASE s = "HOST"
  BY <1>1, <1>6, <1>7, <1>12 DEF Host, States
<1>13. CASE s = "COMMAND"
  BY <1>1, <1>8, <1>13
<1>14. CASE s = "PARAMS"
  BY <1>1, <1>6, <1>7, <1>14 DEF Params, Moved, States
<1>15. CASE s = "TRAILING"
  BY <1>1, <1>7, <1>15 DEF States
<1>16. CASE s \in {"END", "ERROR"}
  BY <1>1, <1>7, <1>16 DEF States
<1> QED
  BY <1>2, <1>9, <1>10, <1>11, <1>12, <1>13, <1>14, <1>15, <1>16 DEF States

\* It keeps the types.
LEMMA OrdinaryTypes ==
  ASSUME TypeOK, NEW x \in Chars, ordinary(x)
  PROVE  /\ raw' \in Seq(Chars) /\ last' \in 0 .. Len(raw') /\ state' \in States
         /\ returned' \in BOOLEAN /\ ResultOK'
<1> DEFINE r == Append(raw, x)
           z == Len(r)
<1>1. raw \in Seq(Chars) /\ last \in 0 .. Len(raw) /\ state \in States /\ ResultOK
  BY TypesOf
<1>3. returned' \in BOOLEAN
  BY <1>1, Moves
<1>4. /\ r \in Seq(Chars) /\ z \in Nat /\ z = Len(r) /\ z - 1 \in Nat /\ z - 1 <= Len(r) /\ 1 <= z
      /\ last \in 0 .. z /\ last + 1 \in Nat \ {0}
  BY <1>1
<1>5. TextOK(nick) /\ TextOK(name) /\ TextOK(host) /\ TextOK(command) /\ ParamsOK(params)
  BY <1>1 DEF ResultOK
<1>6. raw' = r
  BY <1>1, Moves
<1> HIDE DEF r, z
<1> SUFFICES last' \in 0 .. z /\ state' \in States /\ ResultOK'
  BY <1>3, <1>4, <1>6
<1>7. CASE Called(r)
  <2>1. PICK s \in States, next \in States : CallAndGo(s, r, next)
    BY <1>7 DEF Called
  <2> DEFINE t == Text(r)
  <2>2. t \in Seq(Chars) /\ TextOK(t)
    <3>1. SubSeq(r, last + 1, z - 1) \in Seq(Chars)
      BY <1>4, Part
    <3> QED
      BY <1>4, <3>1 DEF Text, TextOK
  <2>3. state' \in States /\ last' = z /\ Call(s, t)
    BY <1>4, <2>1 DEF CallAndGo
  <2> HIDE DEF t
  <2>4. /\ nick' \in {nick, t} /\ name' \in {name, t} /\ host' \in {host, t} /\ command' \in {command, t}
        /\ params' \in {params, Added(params, t)}
    BY <2>3 DEF Call, on_param, Added
  <2>5. ParamsOK(Added(params, t))
    BY <1>5, <2>2, AddedOK
  <2>6. /\ TextOK(nick') /\ TextOK(name') /\ TextOK(host') /\ TextOK(command') /\ ParamsOK(params')
    BY <1>5, <2>2, <2>4, <2>5
  <2> QED
    BY <1>4, <2>3, <2>6 DEF ResultOK, TextOK, ParamsOK
<1>8. CASE Stayed
  <2>1. PICK s \in States : Stay(s)
    BY <1>8 DEF Stayed
  <2>2. state' \in States /\ last' = last /\ <<nick', name', host', command', params'>> = <<nick, name, host, command, params>>
    BY <2>1 DEF Stay, result
  <2> QED
    BY <1>4, <1>5, <2>2 DEF ResultOK, TextOK, ParamsOK
<1>9. CASE Moved(r)
  <2>1. state' \in States /\ last' \in {1, z} /\ <<nick', name', host', command', params'>> = <<nick, name, host, command, params>>
    BY <1>4, <1>9 DEF Moved, result
  <2> QED
    BY <1>4, <1>5, <2>1 DEF ResultOK, TextOK, ParamsOK
<1>10. Called(r) \/ Stayed \/ Moved(r)
  BY <1>1, <1>6, Moves
<1> QED
  BY <1>7, <1>8, <1>9, <1>10

\* What has been read of a line so far.
ReadSoFar ==
  ~returned /\ raw = Before /\ StateRead(Before, state, last, nick, name, host, command, params)

\* The inductive invariant.  A line that does not fit leaves raw at most one
\* character too long, because then the rest of the line is not read.
ParserInv ==
  /\ TypeOK
  /\ (clean /\ Fits(line)) => ReadSoFar
  /\ (clean /\ complete /\ Fits(line) /\ WellFormed(line)) => dispatched = Grammar(line)
  /\ clean => Len(raw) <= RawSize + 1
  /\ (clean /\ Len(raw) > RawSize) => returned \/ complete
  /\ returned => ~complete /\ line # <<>>

\* A parser that has been reset, or not been used.
LEMMA Fresh == StateRead(<<>>, "INIT", 0, None, None, None, None, <<>>)
  BY DEF StateRead, Blank

\* The invariant holds at first,
LEMMA InitParser == Init => ParserInv
<1> SUFFICES ASSUME Init PROVE ParserInv
  OBVIOUS
<1>1. /\ line = <<>> /\ complete = FALSE /\ raw = <<>> /\ last = 0 /\ state = "INIT" /\ returned = FALSE
      /\ nick = None /\ name = None /\ host = None /\ command = None /\ params = <<>> /\ clean = TRUE
  BY DEF Init
<1>2. TextOK(nick) /\ TextOK(name) /\ TextOK(host) /\ TextOK(command)
  BY <1>1 DEF TextOK
<1>3. ParamsOK(params)
  <2>1. params \in Seq(Seq(Chars)) /\ Len(params) = 0 /\ MaxParams \in Nat
    BY <1>1, ParserAssumption
  <2> QED
    BY <2>1 DEF ParamsOK
<1>4. line \in Seq(Chars) /\ raw \in Seq(Chars) /\ last \in 0 .. Len(raw)
  BY <1>1
<1>5. state \in States
  BY <1>1 DEF States
<1>6. returned \in BOOLEAN /\ complete \in BOOLEAN /\ clean \in BOOLEAN
  BY <1>1
<1>7. TypeOK
  BY <1>2, <1>3, <1>4, <1>5, <1>6, TypesOf, Zenon DEF ResultOK
<1>8. ReadSoFar
  BY <1>1, Fresh DEF ReadSoFar, Before
<1>9. Len(raw) <= RawSize + 1 /\ ~(Len(raw) > RawSize)
  BY <1>1, ParserAssumption
<1> QED
  BY <1>1, <1>7, <1>8, <1>9 DEF ParserInv

\* TypesOf, of the next state.
LEMMA TypesOfNext ==
  /\ line' \in Seq(Chars) /\ raw' \in Seq(Chars) /\ last' \in 0 .. Len(raw')
  /\ state' \in States /\ ResultOK'
  /\ returned' \in BOOLEAN /\ complete' \in BOOLEAN /\ clean' \in BOOLEAN
  => TypeOK'
<1>1. /\ line \in Seq(Chars) /\ raw \in Seq(Chars) /\ last \in 0 .. Len(raw)
      /\ state \in States /\ ResultOK
      /\ returned \in BOOLEAN /\ complete \in BOOLEAN /\ clean \in BOOLEAN
      => TypeOK
  BY TypesOf
<1>2. (/\ line \in Seq(Chars) /\ raw \in Seq(Chars) /\ last \in 0 .. Len(raw)
       /\ state \in States /\ ResultOK
       /\ returned \in BOOLEAN /\ complete \in BOOLEAN /\ clean \in BOOLEAN
       => TypeOK)'
  BY <1>1, PTL
<1> QED
  BY <1>2

\* A line that is complete.
LEMMA CompletedAsGrammar ==
  ASSUME NEW l \in Seq(Chars), WellFormed(l), raw = l, end_of_line,
         StateRead(l, state, last, nick, name, host, command, params)
  PROVE  dispatched' = Grammar(l)
<1>1. /\ state \in {"INIT", "NICK", "NAME", "HOST", "COMMAND", "PARAMS", "TRAILING"}
      /\ state = "INIT" => l = <<>>
      /\ state # "INIT" => l # <<>>
      /\ state = "NICK" => NickState(l, last, nick, name, host, command, params)
      /\ state = "NAME" => NameState(l, last, nick, name, host, command, params)
      /\ state = "HOST" => HostState(l, last, nick, name, host, command, params)
      /\ state = "COMMAND" => CommandState(l, last, nick, name, host, command, params)
      /\ state = "PARAMS" => ParamsState(l, last, nick, name, host, command, params)
      /\ state = "TRAILING" => TrailingState(l, last, nick, name, host, command, params)
  BY DEF StateRead
<1>2. l # <<>>
  <2>1. l = <<>> => At(l, Space) = {}
    BY DEF At
  <2> QED
    BY <2>1 DEF WellFormed
<1>3. ~NickState(l, last, nick, name, host, command, params)
  <2> SUFFICES ASSUME NickState(l, last, nick, name, host, command, params) PROVE FALSE
    OBVIOUS
  <2>1. l[1] = Colon /\ Clear(l, {Space, Bang, AtSign}, 2, Len(l))
    BY DEF NickState
  <2>2. Clear(l, {Space}, 2, Len(l))
    BY <2>1 DEF Clear
  <2> QED
    BY <1>2, <2>1, <2>2, PrefixUnfinished
<1>4. ~NameState(l, last, nick, name, host, command, params)
  BY <1>2, PrefixUnfinished DEF NameState
<1>5. ~HostState(l, last, nick, name, host, command, params)
  BY <1>2, PrefixUnfinished DEF HostState
<1>6. ~CommandState(l, last, nick, name, host, command, params)
  BY CommandUnfinished
<1>7. state \in {"PARAMS", "TRAILING"}
  BY <1>1, <1>2, <1>3, <1>4, <1>5, <1>6
<1> DEFINE t == SubSeq(l, last + 1, Len(l))
<1>8. AsGrammar(l, nick, name, host, command, Added(params, t))
  <2>1. CASE state = "PARAMS"
    BY <1>1, <2>1, ParamsReadAsGrammar
  <2>2. CASE state = "TRAILING"
    BY <1>1, <2>2, TrailingReadAsGrammar
  <2> QED
    BY <1>7, <2>1, <2>2
<1>9. dispatched' = (IF command = None THEN Blank ELSE <<nick, name, host, command, Added(params, t)>>)
  BY DEF end_of_line, on_param, Added
<1> HIDE DEF t
<1> QED
  BY <1>8, <1>9 DEF AsGrammar

\* A line fits with one character more if that is an ordinary one and there is room.
LEMMA FitsLonger ==
  ASSUME NEW l \in Seq(Chars), NEW c \in Chars, Fits(Append(l, c))
  PROVE  Fits(l) /\ c \notin {"CR", "LF"} /\ Len(l) < RawSize
<1> DEFINE r == Append(l, c)
<1>1. /\ Len(r) = Len(l) + 1 /\ Len(l) \in Nat /\ r[Len(l) + 1] = c /\ RawSize \in Nat
      /\ \A i \in 1 .. Len(l) : i \in 1 .. Len(l) + 1 /\ r[i] = l[i]
  BY ParserAssumption
<1>2. Len(r) <= RawSize /\ \A i \in 1 .. Len(r) : r[i] \notin {"CR", "LF"}
  BY DEF Fits
<1> HIDE DEF r
<1>3. \A i \in 1 .. Len(l) + 1 : r[i] \notin {"CR", "LF"}
  BY <1>1, <1>2
<1>4. Len(l) + 1 \in 1 .. Len(l) + 1
  BY <1>1
<1>5. c \notin {"CR", "LF"}
  BY <1>1, <1>3, <1>4
<1>6. \A i \in 1 .. Len(l) : l[i] \notin {"CR", "LF"}
  BY <1>1, <1>3
<1>7. Len(l) < RawSize /\ Len(l) <= RawSize
  BY <1>1, <1>2
<1> QED
  BY <1>5, <1>6, <1>7 DEF Fits

\* An ordinary character leaves raw too long only where it ends the call.
LEMMA OrdinaryEnds ==
  ASSUME NEW c, ordinary(c), raw \in Seq(Chars), c \in Chars
  PROVE  Len(raw') = Len(raw) + 1 /\ (Len(raw') > RawSize => returned')
<1> DEFINE r == Append(raw, c)
           s == IF Len(r) > RawSize THEN "ERROR" ELSE state
<1>1. raw' = r /\ returned' = (s \in {"ERROR", "END"})
  BY DEF ordinary, TooLong
<1>2. Len(r) = Len(raw) + 1
  OBVIOUS
<1> HIDE DEF r
<1> QED
  BY <1>1, <1>2

\* it is kept by a character
LEMMA ReceiveParser == \A c \in Chars : ParserInv /\ Receive(c) => ParserInv'
<1> SUFFICES ASSUME NEW c \in Chars, ParserInv, Receive(c) PROVE ParserInv'
  OBVIOUS
<1>1. /\ TypeOK /\ line \in Seq(Chars) /\ raw \in Seq(Chars) /\ last \in 0 .. Len(raw)
      /\ state \in States /\ ResultOK
      /\ returned \in BOOLEAN /\ complete \in BOOLEAN /\ clean \in BOOLEAN
  BY TypesOf DEF ParserInv
<1>2. /\ line' = Append(Before, c) /\ complete' = FALSE /\ clean' = CleanBefore
      /\ IF returned THEN UNCHANGED <<raw, last, state, returned, result>> ELSE character(c)
  BY DEF Receive
<1>3. Before \in Seq(Chars)
  BY <1>1 DEF Before
<1>4. line' \in Seq(Chars) /\ complete' \in BOOLEAN /\ clean' \in BOOLEAN /\ line' # <<>>
  <2>1. line' \in Seq(Chars) /\ line' # <<>>
    BY <1>2, <1>3
  <2>2. clean' \in BOOLEAN /\ complete' = FALSE
    BY <1>1, <1>2 DEF CleanBefore
  <2> QED
    BY <2>1, <2>2
<1>5. /\ raw' \in Seq(Chars) /\ last' \in 0 .. Len(raw') /\ state' \in States
      /\ returned' \in BOOLEAN /\ ResultOK'
  <2>1. ASSUME raw' = raw, last' = last, returned' \in BOOLEAN, state' \in States, result' = result
        PROVE  /\ raw' \in Seq(Chars) /\ last' \in 0 .. Len(raw') /\ state' \in States
               /\ returned' \in BOOLEAN /\ ResultOK'
    <3>1. ResultOK'
      BY <1>1, <2>1 DEF ResultOK, TextOK, ParamsOK, result
    <3> QED
      BY <1>1, <2>1, <3>1
  <2>2. CASE returned
    <3>1. raw' = raw /\ last' = last /\ returned' = returned /\ state' = state /\ result' = result
      BY <1>2, <2>2
    <3> QED
      BY <1>1, <2>1, <3>1
  <2>3. CASE character(c) /\ c = "CR"
    <3>1. raw' = raw /\ last' = last /\ returned' = returned /\ state' = "END" /\ result' = result
      BY <2>3 DEF character, lone_cr
    <3>2. state' \in States
      BY <3>1 DEF States
    <3> QED
      BY <1>1, <2>1, <3>1, <3>2
  <2>4. CASE character(c) /\ c = "LF"
    <3>1. raw' = raw /\ last' = last /\ returned' = TRUE /\ state' = state /\ result' = result
      BY <2>4 DEF character, lone_lf
    <3> QED
      BY <1>1, <2>1, <3>1
  <2>5. CASE character(c) /\ c \notin {"CR", "LF"}
    <3>1. ordinary(c)
      BY <2>5 DEF character
    <3> QED
      BY <1>1, <3>1, OrdinaryTypes
  <2> QED
    BY <1>2, <2>2, <2>3, <2>4, <2>5
<1>6. TypeOK'
  BY <1>4, <1>5, TypesOfNext
<1>7. ASSUME clean', Fits(line') PROVE ReadSoFar'
  <2>1. Fits(Before) /\ c \notin {"CR", "LF"} /\ Len(Before) < RawSize
    BY <1>2, <1>3, <1>7, FitsLonger
  <2>2. clean /\ Fits(line)
    BY <1>2, <1>7, <2>1 DEF CleanBefore, Before
  <2>3. ~returned /\ raw = Before /\ StateRead(Before, state, last, nick, name, host, command, params)
    BY <2>2 DEF ParserInv, ReadSoFar
  <2>4. ordinary(c)
    BY <1>2, <2>1, <2>3 DEF character
  <2>5. ~(Len(Append(Before, c)) > RawSize)
    <3>1. RawSize \in Nat
      BY ParserAssumption
    <3> QED
      BY <1>3, <2>1, <3>1
  <2>6. /\ raw' = Append(Before, c) /\ ~returned'
        /\ StateRead(raw', state', last', nick', name', host', command', params')
    BY <1>3, <2>3, <2>4, <2>5, StateStep
  <2>7. Before' = raw'
    BY <1>2, <2>6 DEF Before
  <2> QED
    BY <2>6, <2>7 DEF ReadSoFar
<1>8. ASSUME clean'
      PROVE  Len(raw') <= RawSize + 1 /\ (Len(raw') > RawSize => returned')
  <2>0. clean /\ (complete => Fits(line))
    BY <1>2, <1>8, Zenon DEF CleanBefore
  <2>1. clean /\ (complete => Fits(line)) /\ RawSize \in Nat /\ Len(raw) \in Nat
    BY <1>1, <2>0, ParserAssumption
  <2>2. Len(raw) <= RawSize + 1 /\ (Len(raw) > RawSize => returned \/ complete)
    BY <2>1 DEF ParserInv
  <2>3. complete => Len(raw) <= RawSize
    <3>1. complete => raw = <<>>
      BY <2>1 DEF ParserInv, ReadSoFar, Before
    <3> QED
      BY <2>1, <3>1
  <2>4. CASE returned
    <3>1. raw' = raw /\ returned'
      BY <1>2, <2>4
    <3> QED
      BY <2>2, <3>1
  <2>5. CASE ~returned
    <3>1. Len(raw) <= RawSize
      BY <2>1, <2>2, <2>3, <2>5
    <3>2. CASE c \in {"CR", "LF"}
      <4>1. raw' = raw
        BY <1>2, <2>5, <3>2 DEF character, lone_cr, lone_lf
      <4> QED
        BY <2>1, <3>1, <4>1
    <3>3. CASE c \notin {"CR", "LF"}
      <4>1. ordinary(c)
        BY <1>2, <2>5, <3>3 DEF character
      <4>2. Len(raw') = Len(raw) + 1 /\ (Len(raw') > RawSize => returned')
        BY <1>1, <4>1, OrdinaryEnds
      <4> QED
        BY <2>1, <3>1, <4>2
    <3> QED
      BY <3>2, <3>3
  <2> QED
    BY <2>4, <2>5
<1> QED
  BY <1>2, <1>4, <1>6, <1>7, <1>8 DEF ParserInv

\* The empty line is not one of the grammar.
LEMMA EmptyIll == ~WellFormed(<<>>)
<1>1. At(<<>>, Space) = {}
  BY DEF At
<1> QED
  BY <1>1 DEF WellFormed

\* and by the end of a line,
LEMMA ReceiveEndParser == ParserInv /\ ReceiveEnd => ParserInv'
<1> SUFFICES ASSUME ParserInv, ReceiveEnd PROVE ParserInv'
  OBVIOUS
<1>1. /\ TypeOK /\ line \in Seq(Chars) /\ raw \in Seq(Chars) /\ last \in 0 .. Len(raw)
      /\ state \in States /\ ResultOK
      /\ returned \in BOOLEAN /\ complete \in BOOLEAN /\ clean \in BOOLEAN
  BY TypesOf DEF ParserInv
<1>2. /\ complete' = TRUE /\ line' = Before /\ clean' = (clean \/ Before = <<>>) /\ returned' = FALSE
      /\ nick' = None /\ name' = None /\ host' = None /\ command' = None /\ params' = <<>>
  BY DEF ReceiveEnd
<1>3. IF returned THEN UNCHANGED <<raw, last, state, dispatched>> ELSE end_of_line
  BY DEF ReceiveEnd
<1>4. ~returned => raw' = <<>> /\ last' = 0 /\ state' = "INIT"
  BY <1>3 DEF end_of_line, irc_parser_reset
<1>5. raw' \in Seq(Chars) /\ last' \in 0 .. Len(raw')
  <2>1. returned => raw' = raw /\ last' = last
    BY <1>3
  <2>2. ~returned => raw' \in Seq(Chars) /\ last' = 0 /\ Len(raw') \in Nat
    BY <1>4
  <2> QED
    BY <1>1, <2>1, <2>2
<1>6. state' \in States
  BY <1>1, <1>3, <1>4 DEF States
<1>7. ResultOK'
  <2>1. params' \in Seq(Seq(Chars)) /\ Len(params') = 0 /\ MaxParams \in Nat
    BY <1>2, ParserAssumption
  <2>2. Len(params') <= MaxParams
    BY <2>1
  <2> QED
    BY <1>2, <2>1, <2>2 DEF ResultOK, TextOK, ParamsOK
<1>8. TypeOK'
  <2>0. clean' \in BOOLEAN
    <3>1. clean' = (clean \/ Before = <<>>)
      BY <1>2
    <3> QED
      BY <3>1
  <2>1. line' \in Seq(Chars)
    BY <1>1, <1>2 DEF Before
  <2>2. returned' \in BOOLEAN /\ complete' \in BOOLEAN
    BY <1>2
  <2> QED
    BY <1>5, <1>6, <1>7, <2>0, <2>1, <2>2, TypesOfNext
<1>9. Before = <<>> => ~returned
  BY DEF ParserInv, Before
<1>10. ASSUME clean', Before # <<>> PROVE clean /\ ~complete /\ line' = line
  BY <1>1, <1>2, <1>10 DEF Before
<1>11. ASSUME clean', Fits(line') PROVE ReadSoFar'
  <2>1. ~returned
    BY <1>9, <1>10, <1>11 DEF ParserInv, ReadSoFar
  <2>2. raw' = <<>> /\ last' = 0 /\ state' = "INIT"
    BY <1>4, <2>1
  <2>3. Before' = <<>>
    BY <1>2 DEF Before
  <2>4. StateRead(<<>>, state', last', nick', name', host', command', params')
    BY <1>2, <2>2, Fresh
  <2> QED
    BY <1>2, <2>2, <2>3, <2>4 DEF ReadSoFar
<1>12. ASSUME clean', Fits(line'), WellFormed(line') PROVE dispatched' = Grammar(line')
  <2>1. Before # <<>>
    BY <1>2, <1>12, EmptyIll
  <2>2. clean /\ ~complete /\ line' = line
    BY <1>10, <1>12, <2>1
  <2>3. ~returned /\ raw = line /\ StateRead(line, state, last, nick, name, host, command, params)
    BY <1>12, <2>2 DEF ParserInv, ReadSoFar, Before
  <2>4. end_of_line
    BY <1>3, <2>3
  <2>5. WellFormed(line)
    BY <1>12, <2>2
  <2>6. dispatched' = Grammar(line)
    BY <1>1, <2>3, <2>4, <2>5, CompletedAsGrammar
  <2> QED
    BY <2>2, <2>6
<1>13. ASSUME clean' PROVE Len(raw') <= RawSize + 1
  <2>1. RawSize \in Nat
    BY ParserAssumption
  <2>2. CASE returned
    <3>1. raw' = raw /\ clean
      BY <1>2, <1>3, <1>9, <1>13, <2>2
    <3> QED
      BY <3>1 DEF ParserInv
  <2>3. CASE ~returned
    BY <1>4, <2>1, <2>3
  <2> QED
    BY <2>2, <2>3
<1> QED
  BY <1>2, <1>8, <1>11, <1>12, <1>13 DEF ParserInv

\* and so by every step.
LEMMA StepParser == ParserInv /\ [Next]_vars => ParserInv'
<1> SUFFICES ASSUME ParserInv, [Next]_vars PROVE ParserInv'
  OBVIOUS
<1>1. CASE ReceiveEnd
  BY <1>1, ReceiveEndParser
<1>2. ASSUME NEW c \in Chars, Receive(c) PROVE ParserInv'
  BY <1>2, ReceiveParser
<1>3. CASE UNCHANGED vars
  <2>1. /\ line' = line /\ complete' = complete /\ raw' = raw /\ last' = last /\ state' = state
        /\ returned' = returned /\ dispatched' = dispatched /\ clean' = clean
        /\ nick' = nick /\ name' = name /\ host' = host /\ command' = command /\ params' = params
    BY <1>3 DEF vars, result
  <2>2. TypeOK'
    BY <2>1 DEF ParserInv, TypeOK
  <2>3. (clean /\ Fits(line))' => ReadSoFar'
    BY <2>1 DEF ParserInv, ReadSoFar, Before, Fits
  <2> QED
    BY <2>1, <2>2, <2>3 DEF ParserInv, Fits
<1> QED
  BY <1>1, <1>2, <1>3 DEF Next

\* A line of the grammar that fits is dispatched with the prefix, the command and
\* the parameters the grammar gives it, where every line before it fitted or an
\* empty one has come since the last that did not (irc_parser_execute).
THEOREM ParsedAlways == Spec => []ParsedAsGrammar
<1>1. ParserInv => ParsedAsGrammar
  BY DEF ParserInv, ParsedAsGrammar
<1> QED
  BY <1>1, InitParser, StepParser, PTL DEF Spec

\* In such a history, with one more line that does not fit, nothing is written behind
\* raw (irc_parser.c:10).
THEOREM RawKeptAlways == Spec => []RawKept
<1>1. ParserInv => RawKept
  BY DEF ParserInv, RawKept
<1> QED
  BY <1>1, InitParser, StepParser, PTL DEF Spec

-----------------------------------------------------------------------------
(* The strings of a line.                                                   *)

Results ==
  [params : [1 .. Slots -> 0 .. 2 * Slots], num_params : 0 .. Slots,
   heap : SUBSET Blocks, wrong : {FALSE}]

\* The parameters from i to n are strings, each its own.
Strings(r, i, n) ==
  /\ \A k \in i .. n : r.params[k] \in r.heap
  /\ \A k, l \in i .. n : k # l => r.params[k] # r.params[l]

\* The blocks that params still points to.
Used(r) == r.heap \cap {r.params[i] : i \in 1 .. Slots}

\* There is a block that params does not point to: there are more than slots.
LEMMA FreeBlock ==
  ASSUME NEW r \in Results
  PROVE  Blocks \ Used(r) # {}
<1> DEFINE P == {r.params[i] : i \in 1 .. Slots}
           f == [i \in 1 .. Slots |-> r.params[i]]
<1>1. Slots \in Nat /\ Slots > 0 /\ r.params \in [1 .. Slots -> 0 .. 2 * Slots]
  BY CommandsAssumption DEF Results
<1>2. f \in Surjection(1 .. Slots, P)
  BY <1>1 DEF Surjection
<1>3. IsFiniteSet(1 .. Slots) /\ Cardinality(1 .. Slots) = Slots
  BY <1>1, FS_Interval
<1>4. IsFiniteSet(Blocks) /\ Cardinality(Blocks) = 2 * Slots
  BY <1>1, FS_Interval DEF Blocks
<1> HIDE DEF f, P
<1>5. IsFiniteSet(P) /\ Cardinality(P) <= Slots
  BY <1>2, <1>3, FS_Surjection
<1>6. SUFFICES ASSUME Blocks \subseteq P PROVE FALSE
  BY DEF Used, P
<1>7. Cardinality(Blocks) <= Cardinality(P) /\ Cardinality(P) \in Nat
  BY <1>5, <1>6, FS_Subset, FS_CardinalityType
<1> QED
  BY <1>1, <1>4, <1>5, <1>7

\* Fill takes a block that no other parameter points to.
LEMMA FillIs ==
  ASSUME NEW r \in Results, NEW k \in 1 .. Slots
  PROVE  \E b \in Blocks \ Used(r) :
           /\ Fill(r, k) = [r EXCEPT !.params[k] = b, !.heap = Used(r) \cup {b}]
           /\ Fill(r, k).params = [r.params EXCEPT ![k] = b]
           /\ Fill(r, k).heap = Used(r) \cup {b}
           /\ Fill(r, k).num_params = r.num_params
<1> DEFINE S == Blocks \ Used(r)
           b == CHOOSE i \in S : \A j \in S : i <= j
           H == Used(r) \cup {b}
<1>1. S \in SUBSET Nat /\ S # {}
  BY FreeBlock, CommandsAssumption DEF Blocks
<1>2. b \in S
  <2>1. \E i \in S : \A j \in S : i <= j
    <3> HIDE DEF S
    <3> QED
      BY <1>1, LeastOf
  <2> QED
    BY <2>1
<1>3. Fill(r, k) = [r EXCEPT !.params[k] = b, !.heap = H]
  BY DEF Fill, Used
<1> HIDE DEF b, H
<1>4. /\ Fill(r, k).params = [r.params EXCEPT ![k] = b]
      /\ Fill(r, k).heap = H
      /\ Fill(r, k).num_params = r.num_params
  BY <1>3 DEF Results
<1> QED
  BY <1>2, <1>3, <1>4 DEF H

\* The parameters to n, one of which is filled, are strings if the others are.
LEMMA FillKeeps ==
  ASSUME NEW r \in Results, NEW k \in 1 .. Slots, NEW m \in 0 .. Slots, NEW n \in 0 .. Slots,
         Strings(r, 1, m), \A i \in 1 .. n : i # k => i <= m
  PROVE  /\ Fill(r, k) \in Results
         /\ Fill(r, k).num_params = r.num_params
         /\ Strings(Fill(r, k), 1, n)
<1> DEFINE F == Fill(r, k)
<1>1. PICK b \in Blocks \ Used(r) :
        /\ F = [r EXCEPT !.params[k] = b, !.heap = Used(r) \cup {b}]
        /\ F.params = [r.params EXCEPT ![k] = b]
        /\ F.heap = Used(r) \cup {b}
        /\ F.num_params = r.num_params
  BY FillIs
<1> HIDE DEF F
<1> DEFINE p == [r.params EXCEPT ![k] = b]
           h == Used(r) \cup {b}
<1>2. Slots \in Nat /\ b \in 0 .. 2 * Slots /\ b \in Blocks
  BY CommandsAssumption DEF Blocks
<1>3. r.params \in [1 .. Slots -> 0 .. 2 * Slots] /\ r.heap \in SUBSET Blocks
  BY DEF Results
<1>4. p \in [1 .. Slots -> 0 .. 2 * Slots] /\ h \in SUBSET Blocks
  BY <1>2, <1>3 DEF Used
<1>5. ASSUME NEW i \in 1 .. n, i # k PROVE p[i] = r.params[i] /\ p[i] \in Used(r) /\ i \in 1 .. m
  <2>1. i \in 1 .. m /\ i \in 1 .. Slots
    BY <1>5, <1>2
  <2>2. r.params[i] \in r.heap
    BY <2>1 DEF Strings
  <2> QED
    BY <1>3, <1>5, <2>1, <2>2 DEF Used
<1>6. k \in 1 .. n => p[k] = b
  BY <1>3
<1>7. /\ \A i \in 1 .. n : p[i] \in h
      /\ \A i, j \in 1 .. n : i # j => p[i] # p[j]
  <2> HIDE DEF p
  <2>1. ASSUME NEW i \in 1 .. n PROVE p[i] \in h
    BY <1>5, <1>6
  <2>2. ASSUME NEW i \in 1 .. n, NEW j \in 1 .. n, i # j PROVE p[i] # p[j]
    <3>1. CASE i = k
      BY <1>5, <1>6, <2>2, <3>1
    <3>2. CASE j = k
      BY <1>5, <1>6, <2>2, <3>2
    <3>3. CASE i # k /\ j # k
      <4>1. r.params[i] # r.params[j]
        BY <1>5, <2>2, <3>3 DEF Strings
      <4> QED
        BY <1>5, <3>3, <4>1
    <3> QED
      BY <3>1, <3>2, <3>3
  <2> QED
    BY <2>1, <2>2
<1>8. F \in Results
  <2> HIDE DEF h
  <2>1. F = [r EXCEPT !.params[k] = b, !.heap = h]
    BY <1>1 DEF h
  <2> QED
    BY <1>4, <2>1 DEF Results
<1> HIDE DEF p, h
<1>9. F.params = p /\ F.heap = h
  BY <1>1 DEF p, h
<1>10. Strings(F, 1, n)
  BY <1>7, <1>9 DEF Strings
<1> QED
  BY <1>1, <1>8, <1>10 DEF F

\* A string may be used.
LEMMA UseIs ==
  ASSUME NEW r \in Results, NEW k \in 1 .. Slots, r.params[k] \in r.heap
  PROVE  Use(r, k) = r
<1>1. Use(r, k) = [r EXCEPT !.wrong = FALSE]
  BY DEF Use, Results
<1> QED
  BY <1>1 DEF Results

\* Freeing the first of the parameters from k to n leaves the others, and
\* frees a string.
LEMMA ReleaseKeeps ==
  ASSUME NEW r \in Results, NEW k \in 1 .. Slots, NEW n \in 0 .. Slots, k <= n,
         Strings(r, k, n)
  PROVE  /\ Release(r, k) \in Results
         /\ Release(r, k).num_params = r.num_params
         /\ Strings(Release(r, k), k + 1, n)
<1> DEFINE F == Release(r, k)
           b == r.params[k]
           h == r.heap \ {b}
           p == [r.params EXCEPT ![k] = 0]
<1>1. Slots \in Nat /\ n \in Nat /\ k \in Nat /\ k \in k .. n
  BY CommandsAssumption
<1>2. r.params \in [1 .. Slots -> 0 .. 2 * Slots] /\ r.heap \in SUBSET Blocks
  BY DEF Results
<1>3. b \in r.heap
  BY <1>1 DEF Strings
<1>4. b # 0
  BY <1>2, <1>3 DEF Blocks
<1>5. F = [r EXCEPT !.heap = h, !.params[k] = 0]
  <2>1. Use(r, k) = r
    BY <1>3, UseIs
  <2>2. F = [Use(r, k) EXCEPT !.heap = @ \ {b}, !.params[k] = 0]
    BY <1>4 DEF Release, NULL
  <2> QED
    BY <2>1, <2>2
<1>6. p \in [1 .. Slots -> 0 .. 2 * Slots] /\ h \in SUBSET Blocks
  BY <1>1, <1>2
<1>7. /\ \A i \in k + 1 .. n : p[i] \in h
      /\ \A i, j \in k + 1 .. n : i # j => p[i] # p[j]
  <2>1. ASSUME NEW i \in k + 1 .. n PROVE i \in k .. n /\ i # k /\ p[i] = r.params[i]
    BY <1>1, <1>2
  <2> HIDE DEF p
  <2> QED
    BY <1>1, <2>1 DEF Strings
<1> HIDE DEF F, h
<1>8. F.params = p /\ F.heap = h /\ F.num_params = r.num_params
  BY <1>5 DEF Results
<1>9. F \in Results
  BY <1>5, <1>6 DEF Results
<1> HIDE DEF p
<1>10. Strings(F, k + 1, n)
  BY <1>7, <1>8 DEF Strings
<1> QED
  BY <1>8, <1>9, <1>10 DEF F

-----------------------------------------------------------------------------
(* The loops over the parameters.                                           *)

\* After k turns of the loop that fills the parameters, the first k are strings.
LEMMA EachFill ==
  ASSUME NEW r \in Results, NEW n \in 0 .. Slots
  PROVE  /\ Each(Fill, r, n) \in Results
         /\ Strings(Each(Fill, r, n), 1, n)
<1> DEFINE step == [k \in 1 .. n |-> [x \in Results |-> Fill(x, k)]]
           Is(f) == f = [k \in 0 .. n |-> IF k = 0 THEN r ELSE Fill(f[k - 1], k)]
           f == CHOOSE f : Is(f)
<1>1. Slots \in Nat /\ n \in Nat /\ n \in 0 .. n
  BY CommandsAssumption
<1>2. ASSUME NEW k \in 1 .. n, NEW x \in Results, Strings(x, 1, k - 1)
      PROVE  Fill(x, k) \in Results /\ Strings(Fill(x, k), 1, k)
  BY <1>1, <1>2, FillKeeps
<1>3. ASSUME NEW k \in 1 .. n, NEW x \in Results PROVE Fill(x, k) \in Results
  <2>1. Strings(x, 1, 0)
    BY DEF Strings
  <2> QED
    BY <1>1, <2>1, FillKeeps
<1>4. step \in [1 .. n -> [Results -> Results]]
  BY <1>3
<1> HIDE DEF step
<1>5. PICK g : Recursive(g, n, Results, r, step)
  BY <1>1, <1>4, Recursion
<1>6. Is(g)
  <2>1. g \in [0 .. n -> Results] /\ g[0] = r
    BY <1>5 DEF Recursive
  <2>2. ASSUME NEW k \in 1 .. n PROVE g[k] = Fill(g[k - 1], k)
    <3>1. g[k] = step[k][g[k - 1]] /\ g[k - 1] \in Results
      BY <1>5, <2>1 DEF Recursive
    <3> QED
      BY <3>1 DEF step
  <2> QED
    BY <2>1, <2>2
<1> HIDE DEF Is
<1>7. Is(f)
  BY <1>6, Zenon
<1>8. Each(Fill, r, n) = f[n]
  BY DEF Each, f, Is
<1> HIDE DEF f
<1>9. f[0] = r /\ \A k \in 1 .. n : f[k] = Fill(f[k - 1], k)
  BY <1>1, <1>7 DEF Is
<1> DEFINE G == {k \in 0 .. n : f[k] \in Results /\ Strings(f[k], 1, k)}
<1>10. 0 \in G
  BY <1>1, <1>9 DEF Strings
<1>11. ASSUME NEW k \in 1 .. n, k - 1 \in G PROVE k \in G
  BY <1>2, <1>9, <1>11
<1> HIDE DEF G
<1>12. n \in G
  BY <1>1, <1>10, <1>11, Turns
<1> QED
  BY <1>8, <1>12 DEF G

\* The loop that uses strings changes nothing.
LEMMA EachUse ==
  ASSUME NEW r \in Results, NEW n \in 0 .. Slots, Strings(r, 1, n)
  PROVE  Each(Use, r, n) = r
<1> DEFINE step == [k \in 1 .. n |-> [x \in {r} |-> Use(x, k)]]
           Is(f) == f = [k \in 0 .. n |-> IF k = 0 THEN r ELSE Use(f[k - 1], k)]
           f == CHOOSE f : Is(f)
<1>1. Slots \in Nat /\ n \in Nat /\ n \in 0 .. n
  BY CommandsAssumption
<1>2. ASSUME NEW k \in 1 .. n PROVE Use(r, k) = r
  <2>1. k \in 1 .. Slots /\ r.params[k] \in r.heap
    BY <1>1 DEF Strings
  <2> QED
    BY <2>1, UseIs
<1>3. step \in [1 .. n -> [{r} -> {r}]]
  BY <1>2
<1> HIDE DEF step
<1>4. PICK g : Recursive(g, n, {r}, r, step)
  BY <1>1, <1>3, Recursion
<1>5. Is(g)
  <2>1. g \in [0 .. n -> {r}] /\ g[0] = r
    BY <1>4 DEF Recursive
  <2>2. ASSUME NEW k \in 1 .. n PROVE g[k] = Use(g[k - 1], k)
    <3>1. g[k - 1] \in {r} /\ g[k] \in {r}
      BY <2>1
    <3> QED
      BY <1>2, <3>1
  <2> QED
    BY <2>1, <2>2
<1> HIDE DEF Is
<1>6. Is(f)
  BY <1>5, Zenon
<1>7. Each(Use, r, n) = f[n]
  BY DEF Each, f, Is
<1> HIDE DEF f
<1>8. f[0] = r /\ \A k \in 1 .. n : f[k] = Use(f[k - 1], k)
  BY <1>1, <1>6 DEF Is
<1> DEFINE G == {k \in 0 .. n : f[k] = r}
<1>9. 0 \in G
  BY <1>1, <1>8
<1>10. ASSUME NEW k \in 1 .. n, k - 1 \in G PROVE k \in G
  BY <1>2, <1>8, <1>10
<1> HIDE DEF G
<1>11. n \in G
  BY <1>1, <1>9, <1>10, Turns
<1> QED
  BY <1>7, <1>11 DEF G

\* What a result may be if strings were freed that are none.
Loose ==
  [params : [1 .. Slots -> 0 .. 2 * Slots], num_params : 0 .. Slots,
   heap : SUBSET Blocks, wrong : BOOLEAN]

\* It stays one when a string is freed.
LEMMA ReleaseLoose ==
  ASSUME NEW r \in Loose, NEW k \in 1 .. Slots
  PROVE  Release(r, k) \in Loose
<1> DEFINE w == r.wrong \/ r.params[k] \notin r.heap
           u == [r EXCEPT !.wrong = w]
           h == r.heap \ {r.params[k]}
<1>1. u \in Loose /\ u.heap = r.heap /\ u.params = r.params
  <2>1. w \in BOOLEAN
    OBVIOUS
  <2> HIDE DEF w
  <2> QED
    BY <2>1 DEF Loose
<1>2. Use(r, k) = u
  BY DEF Use
<1> HIDE DEF u
<1>3. [u EXCEPT !.heap = h, !.params[k] = 0] \in Loose
  <2>1. [u.params EXCEPT ![k] = 0] \in [1 .. Slots -> 0 .. 2 * Slots]
    BY <1>1, CommandsAssumption DEF Loose
  <2>2. h \in SUBSET Blocks
    BY DEF Loose
  <2> HIDE DEF h
  <2> QED
    BY <1>1, <2>1, <2>2 DEF Loose
<1>4. CASE r.params[k] = 0
  BY <1>4 DEF Release, NULL
<1>5. CASE r.params[k] # 0
  <2>1. Release(r, k) = [u EXCEPT !.heap = h, !.params[k] = 0]
    BY <1>1, <1>2, <1>5 DEF Release, NULL
  <2> QED
    BY <1>3, <2>1
<1> QED
  BY <1>4, <1>5

\* The loop that frees the strings frees strings only.
LEMMA EachRelease ==
  ASSUME NEW r \in Results, NEW n \in 0 .. Slots, Strings(r, 1, n)
  PROVE  /\ Each(Release, r, n) \in Results
         /\ Each(Release, r, n).num_params = r.num_params
<1> DEFINE step == [k \in 1 .. n |-> [x \in Loose |-> Release(x, k)]]
           Is(f) == f = [k \in 0 .. n |-> IF k = 0 THEN r ELSE Release(f[k - 1], k)]
           f == CHOOSE f : Is(f)
<1>1. Slots \in Nat /\ n \in Nat /\ n \in 0 .. n
  BY CommandsAssumption
<1>2. step \in [1 .. n -> [Loose -> Loose]]
  <2>1. ASSUME NEW k \in 1 .. n, NEW x \in Loose PROVE Release(x, k) \in Loose
    BY <1>1, ReleaseLoose
  <2> QED
    BY <2>1
<1>3. r \in Loose
  BY DEF Results, Loose
<1> HIDE DEF step
<1>4. PICK g : Recursive(g, n, Loose, r, step)
  BY <1>1, <1>2, <1>3, Recursion
<1>5. Is(g)
  <2>1. g \in [0 .. n -> Loose] /\ g[0] = r
    BY <1>4 DEF Recursive
  <2>2. ASSUME NEW k \in 1 .. n PROVE g[k] = Release(g[k - 1], k)
    <3>1. g[k] = step[k][g[k - 1]] /\ g[k - 1] \in Loose
      BY <1>4, <2>1 DEF Recursive
    <3> QED
      BY <3>1 DEF step
  <2> QED
    BY <2>1, <2>2
<1> HIDE DEF Is
<1>6. Is(f)
  BY <1>5, Zenon
<1>7. Each(Release, r, n) = f[n]
  BY DEF Each, f, Is
<1> HIDE DEF f
<1>8. f[0] = r /\ \A k \in 1 .. n : f[k] = Release(f[k - 1], k)
  BY <1>1, <1>6 DEF Is
<1> DEFINE G == {k \in 0 .. n : f[k] \in Results /\ f[k].num_params = r.num_params
                                /\ Strings(f[k], k + 1, n)}
<1>9. 0 \in G
  BY <1>1, <1>8
<1>10. ASSUME NEW k \in 1 .. n, k - 1 \in G PROVE k \in G
  <2>1. (k - 1) + 1 = k /\ k \in 1 .. Slots /\ k <= n /\ k \in 0 .. n
    BY <1>1
  <2>2. f[k - 1] \in Results /\ f[k - 1].num_params = r.num_params /\ Strings(f[k - 1], k, n)
    BY <1>10, <2>1
  <2> HIDE DEF G
  <2>3. f[k] \in Results /\ f[k].num_params = r.num_params /\ Strings(f[k], k + 1, n)
    BY <1>8, <2>1, <2>2, ReleaseKeeps
  <2> QED
    BY <2>1, <2>3 DEF G
<1> HIDE DEF G
<1>11. n \in G
  BY <1>1, <1>9, <1>10, Turns
<1> QED
  BY <1>7, <1>11 DEF G

-----------------------------------------------------------------------------
(* What the parser, the handlers and free_parser_result do with strings.    *)

\* A result that may be freed.
Whole(r) == r \in Results /\ Strings(r, 1, r.num_params)

\* A result stays one if only its number of parameters is changed.
LEMMA NumParams ==
  ASSUME NEW r \in Results, NEW n \in 0 .. Slots
  PROVE  LET x == [r EXCEPT !.num_params = n]
         IN  x \in Results /\ x.params = r.params /\ x.heap = r.heap /\ x.num_params = n
BY DEF Results

\* It may be freed if its first strings are allocated, and no two are one.
LEMMA WholeWith ==
  ASSUME NEW r \in Results, NEW n \in 0 .. Slots, Strings(r, 1, n)
  PROVE  Whole([r EXCEPT !.num_params = n])
<1> DEFINE x == [r EXCEPT !.num_params = n]
<1>1. x \in Results /\ x.params = r.params /\ x.heap = r.heap /\ x.num_params = n
  BY NumParams
<1> HIDE DEF x
<1>2. Whole(x)
  BY <1>1 DEF Whole, Strings
<1> QED
  BY <1>2 DEF x

\* What the parser leaves.
LEMMA ParserLeaves ==
  ASSUME NEW r \in Results, NEW n \in 0 .. Slots
  PROVE  Whole(on_params(r, n)) /\ on_params(r, n).num_params = n
<1> DEFINE x == Each(Fill, r, n)
<1>1. x \in Results /\ Strings(x, 1, n)
  BY EachFill
<1>2. on_params(r, n) = [x EXCEPT !.num_params = n]
  BY DEF on_params
<1> HIDE DEF x
<1> QED
  BY <1>1, <1>2, WholeWith, NumParams

\* free_parser_result frees strings, and leaves a result for the next line.
LEMMA FreeLeaves ==
  ASSUME NEW r, Whole(r)
  PROVE  free_parser_result(r) \in Results
<1> DEFINE x == Each(Release, r, r.num_params)
<1>1. r \in Results /\ r.num_params \in 0 .. Slots /\ Strings(r, 1, r.num_params)
  BY DEF Whole, Results
<1>2. x \in Results
  BY <1>1, EachRelease
<1>3. 0 \in 0 .. Slots
  BY CommandsAssumption
<1>4. free_parser_result(r) = [x EXCEPT !.num_params = 0]
  BY DEF free_parser_result
<1> HIDE DEF x
<1> QED
  BY <1>2, <1>3, <1>4, NumParams

\* Uses of the strings of a whole result.
LEMMA Uses ==
  ASSUME NEW r, Whole(r)
  PROVE  /\ \A k \in 1 .. r.num_params : Use(r, k) = r
         /\ dump_event(r) = r
<1>1. r \in Results /\ r.num_params \in 0 .. Slots /\ Strings(r, 1, r.num_params)
  BY DEF Whole, Results
<1>2. ASSUME NEW k \in 1 .. r.num_params PROVE Use(r, k) = r
  <2>1. k \in 1 .. Slots /\ r.params[k] \in r.heap
    BY <1>1, CommandsAssumption DEF Strings
  <2> QED
    BY <1>1, <2>1, UseIs
<1>3. dump_event(r) = r
  BY <1>1, EachUse DEF dump_event
<1> QED
  BY <1>2, <1>3

\* The strings of a line of two parameters, whose k-th a CTCP handler replaces.
LEMMA Replaced ==
  ASSUME NEW r \in Results, Strings(r, 1, 2), NEW k \in 1 .. 2
  PROVE  Whole([Fill(r, k) EXCEPT !.num_params = k])
<1>1. Slots \in Nat /\ 2 \in 0 .. Slots /\ k \in 0 .. Slots /\ k \in 1 .. Slots
  BY CommandsAssumption
<1>2. \A i \in 1 .. k : i # k => i <= 2
  BY <1>1
<1>3. Fill(r, k) \in Results /\ Strings(Fill(r, k), 1, k)
  BY <1>1, <1>2, FillKeeps
<1> QED
  BY <1>1, <1>3, WholeWith

\* The handlers of CTCP lines.
LEMMA CtcpLeaves ==
  ASSUME NEW r, Whole(r), r.num_params = 2
  PROVE  Whole(ctcp_action(r)) /\ Whole(ctcp_request(r)) /\ Whole(ctcp_reply(r))
<1>1. r \in Results /\ Strings(r, 1, 2) /\ Use(r, 2) = r /\ 2 \in 0 .. Slots /\ 1 \in 0 .. Slots
  <2>1. 2 \in 1 .. 2 /\ 2 \in 0 .. Slots /\ 1 \in 0 .. Slots
    BY CommandsAssumption
  <2>2. Use(r, 2) = r
    BY <2>1, Uses
  <2> QED
    BY <2>1, <2>2 DEF Whole
<1>2. Whole(ctcp_action(r))
  <2> DEFINE x == [Fill(r, 2) EXCEPT !.num_params = 2]
  <2>1. Whole(x)
    <3>1. 2 \in 1 .. 2
      OBVIOUS
    <3> QED
      BY <1>1, <3>1, Replaced
  <2>2. ctcp_action(r) = dump_event(x)
    BY <1>1 DEF ctcp_action
  <2> HIDE DEF x
  <2> QED
    BY <2>1, <2>2, Uses
<1>3. ASSUME NEW y \in Results, Strings(y, 1, 2) \/ Strings(y, 1, 0)
      PROVE  LET x == [Fill(y, 1) EXCEPT !.num_params = 1] IN Whole(x) /\ x.num_params = 1
  <2>1. 0 \in 0 .. Slots /\ 1 \in 1 .. Slots /\ 2 \in 0 .. Slots
    BY CommandsAssumption
  <2>2. (\A i \in 1 .. 1 : i # 1 => i <= 0) /\ (\A i \in 1 .. 1 : i # 1 => i <= 2)
    OBVIOUS
  <2>3. Fill(y, 1) \in Results /\ Strings(Fill(y, 1), 1, 1)
    BY <1>1, <1>3, <2>1, <2>2, FillKeeps
  <2> QED
    BY <1>1, <2>3, WholeWith, NumParams
<1>4. Whole(ctcp_request(r))
  <2> DEFINE x == [Fill(r, 1) EXCEPT !.num_params = 1]
  <2>1. Whole(x) /\ x.num_params = 1
    BY <1>1, <1>3
  <2>2. ctcp_request(r) = Use(x, 1)
    BY <1>1 DEF ctcp_request
  <2> HIDE DEF x
  <2>3. 1 \in 1 .. x.num_params
    BY <2>1
  <2> QED
    BY <2>1, <2>2, <2>3, Uses
<1>5. Whole(ctcp_reply(r))
  <2> DEFINE y == Each(Release, r, 2)
             x == [Fill(y, 1) EXCEPT !.num_params = 1]
  <2>1. y \in Results
    BY <1>1, EachRelease
  <2>2. Strings(y, 1, 0)
    BY DEF Strings
  <2> HIDE DEF y
  <2>3. Whole(x)
    BY <1>3, <2>1, <2>2
  <2>4. ctcp_reply(r) = dump_event(x)
    BY <1>1 DEF ctcp_reply, y
  <2> HIDE DEF x
  <2> QED
    BY <2>3, <2>4, Uses
<1> QED
  BY <1>2, <1>4, <1>5

\* The handler of a mode of this client: two parameters point to one string,
\* and only the first of them is counted.
LEMMA UmodeLeaves ==
  ASSUME NEW r, Whole(r), r.num_params >= 2
  PROVE  Whole(umode(r))
<1> DEFINE x == [r EXCEPT !.params[1] = r.params[2], !.num_params = 1]
           p == [r.params EXCEPT ![1] = r.params[2]]
<1>1. /\ r \in Results /\ r.num_params \in 0 .. Slots /\ Strings(r, 1, r.num_params)
      /\ r.params \in [1 .. Slots -> 0 .. 2 * Slots]
  BY DEF Whole, Results
<1>2. 1 \in 0 .. Slots /\ 2 \in 1 .. r.num_params /\ 2 \in 1 .. Slots /\ 1 \in 1 .. Slots
  BY <1>1, CommandsAssumption
<1>3. r.params[2] \in r.heap
  BY <1>1, <1>2 DEF Strings
<1>4. p \in [1 .. Slots -> 0 .. 2 * Slots] /\ p[1] = r.params[2]
  BY <1>1, <1>2
<1>5. x \in Results
  BY <1>1, <1>2, <1>4 DEF Results
<1>6. x.params = p /\ x.heap = r.heap /\ x.num_params = 1
  BY <1>1 DEF Results
<1>7. umode(r) = Use(x, 1)
  BY DEF umode, event_umode
<1> HIDE DEF x, p
<1>8. Whole(x) /\ 1 \in 1 .. x.num_params
  BY <1>3, <1>4, <1>5, <1>6 DEF Whole, Strings
<1> QED
  BY <1>7, <1>8, Uses

\* The other handlers change nothing.
LEMMA OthersLeave ==
  ASSUME NEW r, Whole(r), r.num_params >= 2, NEW b
  PROVE  event_mode(r) = r /\ Shown(r, 2, b) = r
<1>1. r.num_params \in Nat /\ 2 \in 1 .. r.num_params
  BY DEF Whole, Results
<1>2. Use(r, 2) = r /\ dump_event(r) = r
  BY <1>1, Uses
<1> QED
  BY <1>2 DEF event_mode, Shown

-----------------------------------------------------------------------------
(* The inductive invariant.                                                 *)

\* Between two lines: a result whose strings are none or forgotten, and the
\* nicknames of RFC 1459.
LinesInv ==
  /\ parsed \in Results
  /\ me \in Nicknames /\ real \in Nicknames /\ others \subseteq Nicknames
  /\ ~mixed => me = real

\* A line whose handler leaves a whole result.
LEMMA LineFreed ==
  ASSUME NEW i, NEW r, Line(i, r), Whole(r)
  PROVE  parsed' \in Results
BY FreeLeaves DEF Line

\* The step leaves the strings of its line in order.
LEMMA ParsedStep ==
  ASSUME LinesInv, CmdNext
  PROVE  parsed' \in Results
<1>1. \A n \in 1 .. Slots : Whole(Received(n)) /\ Received(n).num_params = n
  <2>1. parsed \in Results /\ Slots \in Nat
    BY CommandsAssumption DEF LinesInv
  <2>2. ASSUME NEW n \in 1 .. Slots PROVE Whole(Received(n)) /\ Received(n).num_params = n
    BY <2>1, ParserLeaves DEF Received
  <2> QED
    BY <2>2
<1>2. 1 \in 1 .. Slots /\ 2 \in 1 .. Slots /\ (2 .. Slots) \subseteq 1 .. Slots
      /\ (1 .. 2) \subseteq 1 .. Slots /\ \A n \in 2 .. Slots : n >= 2 /\ 2 \in 1 .. n
  BY CommandsAssumption
<1>3. CASE irc_ping_command
  <2>1. Whole(Received(1)) /\ Use(Received(1), 1) = Received(1)
    <3>1. Whole(Received(1)) /\ 1 \in 1 .. Received(1).num_params
      BY <1>1, <1>2
    <3> QED
      BY <3>1, Uses
  <2>2. Line(1, Received(1))
    BY <1>3, <2>1 DEF irc_ping_command
  <2> QED
    BY <2>1, <2>2, LineFreed
<1>4. CASE irc_nick_command
  <2>1. Whole(Received(1)) /\ Use(Received(1), 1) = Received(1)
    <3>1. Whole(Received(1)) /\ 1 \in 1 .. Received(1).num_params
      BY <1>1, <1>2
    <3> QED
      BY <3>1, Uses
  <2>2. Line(2, Received(1))
    BY <1>4, <2>1 DEF irc_nick_command
  <2> QED
    BY <2>1, <2>2, LineFreed
<1>5. ASSUME NEW codes, Ignored(codes) PROVE parsed' \in Results
  <2>1. PICK i \in codes, n \in 1 .. 2 : Line(i, Received(n))
    BY <1>5 DEF Ignored
  <2>2. Whole(Received(n))
    BY <1>1, <1>2
  <2> QED
    BY <2>1, <2>2, LineFreed
<1>6. CASE irc_quit_join_part_command \/ irc_topic_kick_command \/ irc_invite_kill_command
  BY <1>5, <1>6 DEF irc_quit_join_part_command, irc_topic_kick_command, irc_invite_kill_command
<1>7. CASE irc_mode_command
  <2>1. PICK target \in {real, Channel}, n \in 2 .. Slots :
          Line(6, IF BeginsWithNick(target) THEN umode(Received(n)) ELSE event_mode(Received(n)))
    BY <1>7 DEF irc_mode_command
  <2>2. Whole(Received(n)) /\ Received(n).num_params >= 2
    BY <1>1, <1>2
  <2>3. Whole(umode(Received(n))) /\ Whole(event_mode(Received(n)))
    BY <2>2, UmodeLeaves, OthersLeave
  <2> QED
    BY <2>1, <2>3, LineFreed
<1>8. Whole(Received(2)) /\ Received(2).num_params = 2 /\ Received(2).num_params >= 2
  BY <1>1, <1>2
<1>9. \A b : Whole(Shown(Received(2), 2, b))
  BY <1>8, OthersLeave
<1>10. Whole(Use(Received(2), 2))
  <2>1. 2 \in 1 .. Received(2).num_params
    BY <1>8
  <2> QED
    BY <1>8, <2>1, Uses
<1>11. CASE irc_privmsg_command
  BY <1>9, <1>11, LineFreed DEF irc_privmsg_command
<1>12. CASE handle_ctcp_request
  BY <1>8, <1>10, <1>12, CtcpLeaves, LineFreed DEF handle_ctcp_request
<1>13. CASE libirc_event_ctcp_internal
  BY <1>8, <1>13, CtcpLeaves, LineFreed DEF libirc_event_ctcp_internal
<1>14. CASE irc_notice_command
  BY <1>8, <1>9, <1>14, CtcpLeaves, LineFreed DEF irc_notice_command
<1>15. CASE irc_unknown_command
  <2>1. PICK n \in 1 .. Slots : Line(unknownCommand, dump_event(Received(n)))
    BY <1>15 DEF irc_unknown_command
  <2>2. Whole(dump_event(Received(n)))
    BY <1>1, Uses
  <2> QED
    BY <2>1, <2>2, LineFreed
<1>16. CASE event_numeric
  <2>1. PICK n \in 2 .. Slots : Line(unknownCommand, Use(dump_event(Received(n)), 2))
    BY <1>16 DEF event_numeric
  <2>2. Whole(Received(n)) /\ Received(n).num_params = n /\ 2 \in 1 .. n
    BY <1>1, <1>2
  <2>3. Whole(Use(dump_event(Received(n)), 2))
    BY <2>2, Uses
  <2> QED
    BY <2>1, <2>3, LineFreed
<1>17. CASE irc_cmd
  BY <1>17 DEF irc_cmd, LinesInv
<1> QED
  BY <1>3, <1>4, <1>6, <1>7, <1>11, <1>12, <1>13, <1>14, <1>15, <1>16, <1>17 DEF CmdNext

\* A nickname begins with itself, and the name of a channel with none.
LEMMA HandlingBegins ==
  ASSUME NEW n \in Nicknames
  PROVE  IsPrefix(n, n) /\ ~IsPrefix(n, Channel) /\ n # Channel
<1>1. n \in Seq(STRING) /\ n # <<>> /\ n[1] # "#"
  BY CommandsAssumption
<1>2. Len(n) \in Nat /\ Len(n) > 0
  BY <1>1
<1>3. Channel \in Seq({"#"}) /\ Len(Channel) = 1 /\ Channel[1] = "#"
  BY DEF Channel
<1>4. ASSUME IsPrefix(n, Channel) PROVE FALSE
  <2>1. Len(n) = 1
    <3> DEFINE k == Len(n)
    <3>1. k <= Len(Channel)
      BY <1>4 DEF IsPrefix
    <3>2. k <= 1 /\ k \in Nat /\ k > 0
      BY <1>2, <1>3, <3>1, Zenon
    <3> HIDE DEF k
    <3>3. k = 1
      BY <3>2
    <3> QED
      BY <3>3 DEF k
  <2>2. SubSeq(n, 1, 1) = SubSeq(Channel, 1, 1)
    BY <1>4, <2>1 DEF IsPrefix
  <2>3. SubSeq(n, 1, 1)[1] = n[1] /\ SubSeq(Channel, 1, 1)[1] = Channel[1]
    BY <1>1, <1>3, <2>1
  <2> QED
    BY <1>1, <1>3, <2>2, <2>3
<1>5. IsPrefix(n, n)
  BY <1>2 DEF IsPrefix
<1> QED
  BY <1>1, <1>3, <1>4, <1>5

\* The nicknames stay nicknames, and this client knows its own.
LEMMA NicknamesStep ==
  ASSUME LinesInv, CmdNext
  PROVE  /\ me' \in Nicknames /\ real' \in Nicknames /\ others' \subseteq Nicknames
         /\ ~mixed' => me' = real'
<1>1. CASE irc_nick_command
  <2>1. PICK u \in others \cup {real}, v \in Nicknames \ (others \cup {real}) :
          /\ me' = IF BeginsWithNick(u) THEN v ELSE me
          /\ real' = IF u = real THEN v ELSE real
          /\ others' = IF u = real THEN others ELSE (others \ {u}) \cup {v}
          /\ mixed' = (mixed \/ (u # real /\ IsPrefix(me, u)))
    BY <1>1 DEF irc_nick_command
  <2>2. me' \in Nicknames /\ real' \in Nicknames /\ others' \subseteq Nicknames
    BY <2>1 DEF LinesInv
  <2>3. ASSUME ~mixed' PROVE me' = real'
    <3>1. me = real /\ (u = real \/ ~IsPrefix(me, u))
      BY <2>1, <2>3 DEF LinesInv
    <3>2. IsPrefix(me, me)
      BY HandlingBegins DEF LinesInv
    <3> QED
      BY <2>1, <3>1, <3>2 DEF BeginsWithNick
  <2> QED
    BY <2>2, <2>3
<1>2. CASE irc_quit_join_part_command
  BY <1>2 DEF irc_quit_join_part_command, LinesInv
<1>3. CASE SameUsers
  BY <1>3 DEF SameUsers, LinesInv
<1> QED
  BY <1>1, <1>2, <1>3 DEF CmdNext, irc_ping_command, irc_topic_kick_command, irc_invite_kill_command,
    irc_mode_command, irc_privmsg_command, handle_ctcp_request, libirc_event_ctcp_internal,
    irc_notice_command, irc_unknown_command, event_numeric, irc_cmd

\* What a step tells of a line is right while the nicknames are not mixed up.
LEMMA EventStep ==
  ASSUME LinesInv, CmdNext
  PROVE  LinesRecognised'
<1>1. ASSUME event' = NoEvent PROVE LinesRecognised'
  BY <1>1 DEF NoEvent, LinesRecognised
<1>2. ASSUME NEW target \in {real, Channel}, Addressed(target), SameUsers PROVE LinesRecognised'
  <2>1. SUFFICES ASSUME ~mixed' PROVE event'.private = event'.ours
    BY DEF LinesRecognised
  <2>2. me = real /\ me \in Nicknames
    BY <1>2, <2>1 DEF SameUsers, LinesInv
  <2>3. event'.private = IsPrefix(me, target) /\ event'.ours = (target = real)
    BY <1>2 DEF Addressed, BeginsWithNick
  <2>4. IsPrefix(me, target) <=> target = real
    BY <1>2, <2>2, HandlingBegins
  <2>5. IsPrefix(me, target) \in BOOLEAN /\ (target = real) \in BOOLEAN
    BY DEF IsPrefix
  <2> QED
    BY <2>3, <2>4, <2>5
<1> QED
  BY <1>1, <1>2 DEF CmdNext, irc_ping_command, irc_nick_command, irc_quit_join_part_command,
    irc_topic_kick_command, irc_invite_kill_command, Ignored, Quiet,
    irc_mode_command, irc_privmsg_command, handle_ctcp_request, libirc_event_ctcp_internal,
    irc_notice_command, irc_unknown_command, event_numeric, irc_cmd

-----------------------------------------------------------------------------
(* Theorems.                                                                *)

\* The invariant of the handlers, with what it implies.
LEMMA LinesInductive ==
  CmdSpec => [](LinesInv /\ LinesRecognised)
<1>1. CmdInit => LinesInv /\ LinesRecognised
  <2> SUFFICES ASSUME CmdInit PROVE LinesInv /\ LinesRecognised
    OBVIOUS
  <2>1. parsed \in Results
    <3>1. [k \in 1 .. Slots |-> 0] \in [1 .. Slots -> 0 .. 2 * Slots] /\ 0 \in 0 .. Slots
      BY CommandsAssumption
    <3> QED
      BY <3>1 DEF CmdInit, Results, NULL
  <2> QED
    BY <2>1 DEF CmdInit, LinesInv, LinesRecognised, NoEvent
<1>2. LinesInv /\ LinesRecognised /\ [CmdNext]_cmdVars => (LinesInv /\ LinesRecognised)'
  <2>1. CASE UNCHANGED cmdVars
    BY <2>1 DEF cmdVars, LinesInv, LinesRecognised, Results
  <2>2. CASE CmdNext
    BY <2>2, ParsedStep, NicknamesStep, EventStep DEF LinesInv
  <2> QED
    BY <2>1, <2>2
<1> QED
  BY <1>1, <1>2, PTL DEF CmdSpec

\* Whatever lines come, in whatever order: only strings are used, and every
\* string is freed at most once.  The invariant says nothing of the strings
\* between two lines but that none was freed wrongly: umode and the CTCP
\* handlers leave slots that point to strings freed long ago, and the parser
\* fills a slot again before a handler may use it.
THEOREM StringsFreedOnceAlways == CmdSpec => []StringsFreedOnce
<1>1. LinesInv => StringsFreedOnce
  BY DEF LinesInv, Results, StringsFreedOnce
<1> QED
  BY <1>1, LinesInductive, PTL

\* Lines to this client are told from lines to channels, however the nicknames
\* change, until another user changes one that begins with this client's: this
\* client and the server know it by the same nickname until then.
THEOREM LinesRecognisedAlways == CmdSpec => []LinesRecognised
BY LinesInductive, PTL

-----------------------------------------------------------------------------
(* Bytes by blocks.                                                         *)

\* A multiple of a number.
LEMMA BlockStep ==
  ASSUME NEW L \in Nat, NEW q \in Int
  PROVE  q * L \in Int /\ (q + 1) * L = q * L + L
OBVIOUS

\* Blocks come one after the other.
LEMMA BlockOrder ==
  ASSUME NEW L \in Nat, NEW p \in Int, NEW q \in Int, p <= q
  PROVE  p * L <= q * L
<1>1. q = p + (q - p) /\ q - p \in Nat
  OBVIOUS
<1>2. q * L = p * L + (q - p) * L
  OBVIOUS
<1>3. (q - p) * L \in Nat
  BY <1>1
<1>4. p * L \in Int
  OBVIOUS
<1> QED
  BY <1>2, <1>3, <1>4

\* A number is in one block, at one place of it.
LEMMA Placed ==
  ASSUME NEW L \in Nat \ {0}, NEW q \in Nat, NEW r \in 0 .. L - 1
  PROVE  (q * L + r) % L = r /\ (q * L + r) \div L = q
<1> DEFINE n == q * L + r
           d == n \div L
           m == n % L
<1>1. n \in Nat /\ d \in Int /\ m \in 0 .. L - 1
  OBVIOUS
<1>2. n = d * L + m
  BY SMT
<1>3. n = q * L + r
  OBVIOUS
<1> HIDE DEF n, d, m
<1>4. d = q
  <2>1. CASE d < q
    <3>1. (d + 1) * L <= q * L /\ (d + 1) * L = d * L + L /\ d * L \in Int /\ q * L \in Int
      <4>1. d + 1 <= q /\ d + 1 \in Int
        BY <1>1, <2>1
      <4> QED
        BY <1>1, <4>1, BlockOrder, BlockStep
    <3> QED
      BY <1>1, <1>2, <1>3, <3>1
  <2>2. CASE q < d
    <3>1. (q + 1) * L <= d * L /\ (q + 1) * L = q * L + L /\ d * L \in Int /\ q * L \in Int
      <4>1. q + 1 <= d /\ q + 1 \in Int
        BY <1>1, <2>2
      <4> QED
        BY <1>1, <4>1, BlockOrder, BlockStep
    <3> QED
      BY <1>1, <1>2, <1>3, <3>1
  <2> QED
    BY <1>1, <2>1, <2>2
<1>5. q * L \in Int
  OBVIOUS
<1>6. m = r
  BY <1>1, <1>2, <1>3, <1>4, <1>5
<1> QED
  BY <1>4, <1>6 DEF n, d, m

\* There is one.
LEMMA Place ==
  ASSUME NEW L \in Nat \ {0}, NEW n \in Nat
  PROVE  \E q \in Nat, r \in 0 .. L - 1 : n = q * L + r /\ q = n \div L /\ r = n % L
<1> DEFINE d == n \div L
           m == n % L
<1>1. d \in Int /\ m \in 0 .. L - 1
  OBVIOUS
<1>2. n = d * L + m
  BY SMT
<1>3. d \in Nat
  <2> SUFFICES ASSUME d < 0 PROVE FALSE
    BY <1>1
  <2> HIDE DEF d, m
  <2>1. d <= -1 /\ -1 \in Int
    BY <1>1
  <2>2. d * L <= (-1) * L /\ d * L \in Int
    BY <1>1, <2>1, BlockOrder
  <2>3. (-1) * L = -L
    OBVIOUS
  <2> QED
    BY <1>1, <1>2, <2>2, <2>3
<1> QED
  BY <1>1, <1>2, <1>3

-----------------------------------------------------------------------------
(* What goes into a context.                                                *)

AllBytes == (HashFiles \cup {"0x80", "0x00", "?", "bits"}) \X Int
AllBlocks == [1 .. BlockLen -> AllBytes]
Contexts == [buf : AllBlocks, val : Seq(AllBlocks), count : Nat]

LEMMA BlockLenIs == BlockLen \in Nat \ {0} /\ BlockLen \in Int /\ BlockLen > 1
  BY ChecksumAssumption

\* The blocks of the first q * BlockLen bytes of a file.
BlocksTo(f, q) == [k \in 1 .. q |-> [i \in 1 .. BlockLen |-> Byte(f, (k - 1) * BlockLen + i)]]

\* The context of the first n bytes of a file: whole blocks were compressed, the
\* rest waits in buf.
Digested(c, f, n) ==
  /\ c \in Contexts /\ c.count = n
  /\ \E q \in Nat, r \in 0 .. BlockLen - 1 :
       /\ n = q * BlockLen + r
       /\ c.val = BlocksTo(f, q)
       /\ \A i \in 1 .. r : c.buf[i] = Byte(f, q * BlockLen + i)

\* The bytes that follow the first n of the file.
Continues(data, f, n) ==
  data \in Seq(AllBytes) /\ \A i \in 1 .. Len(data) : data[i] = Byte(f, n + i)

LEMMA ByteIs == ASSUME NEW f \in HashFiles, NEW i \in Int PROVE Byte(f, i) \in AllBytes
  BY DEF Byte, AllBytes

\* A function over 1 .. n is a sequence.
LEMMA AsSeq ==
  ASSUME NEW S, NEW n \in Nat, NEW g \in [1 .. n -> S]
  PROVE  g \in Seq(S) /\ Len(g) = n
OBVIOUS

LEMMA BlocksAre ==
  ASSUME NEW f \in HashFiles, NEW q \in Nat
  PROVE  BlocksTo(f, q) \in Seq(AllBlocks) /\ Len(BlocksTo(f, q)) = q
<1>1. ASSUME NEW k \in 1 .. q
      PROVE  [i \in 1 .. BlockLen |-> Byte(f, (k - 1) * BlockLen + i)] \in AllBlocks
  <2>1. ASSUME NEW i \in 1 .. BlockLen PROVE Byte(f, (k - 1) * BlockLen + i) \in AllBytes
    <3>1. (k - 1) * BlockLen \in Int
      BY BlockLenIs
    <3>2. (k - 1) * BlockLen + i \in Int
      BY <3>1, BlockLenIs
    <3> QED
      BY <3>2, ByteIs
  <2> QED
    BY <2>1 DEF AllBlocks
<1>2. BlocksTo(f, q) \in [1 .. q -> AllBlocks]
  BY <1>1 DEF BlocksTo
<1> QED
  BY <1>2, AsSeq

\* The next block is appended.
LEMMA NextBlock ==
  ASSUME NEW f \in HashFiles, NEW q \in Nat, NEW b \in AllBlocks,
         \A i \in 1 .. BlockLen : b[i] = Byte(f, q * BlockLen + i)
  PROVE  md5_round(BlocksTo(f, q), b) = BlocksTo(f, q + 1)
<1> DEFINE u == BlocksTo(f, q)
           v == BlocksTo(f, q + 1)
<1>1. u \in Seq(AllBlocks) /\ Len(u) = q /\ v \in Seq(AllBlocks) /\ Len(v) = q + 1
  BY BlocksAre
<1>2. b = [i \in 1 .. BlockLen |-> Byte(f, q * BlockLen + i)]
  BY DEF AllBlocks
<1>3. \A k \in 1 .. q : u[k] = v[k]
  BY DEF BlocksTo
<1>4. v[q + 1] = b
  <2>1. q + 1 \in 1 .. (q + 1) /\ (q + 1) - 1 = q
    OBVIOUS
  <2>2. v[q + 1] = [i \in 1 .. BlockLen |-> Byte(f, ((q + 1) - 1) * BlockLen + i)]
    BY <2>1 DEF BlocksTo
  <2> QED
    BY <1>2, <2>1, <2>2
<1> HIDE DEF u, v
<1>5. Append(u, b) = v
  <2> DEFINE w == Append(u, b)
  <2>1. w \in Seq(AllBlocks) /\ Len(w) = q + 1 /\ w[q + 1] = b /\ \A k \in 1 .. q : w[k] = u[k]
    BY <1>1
  <2> HIDE DEF w
  <2>2. \A k \in 1 .. q + 1 : w[k] = v[k]
    BY <1>3, <1>4, <2>1
  <2>3. w = v
    BY <1>1, <2>1, <2>2
  <2> QED
    BY <2>3 DEF w
<1> QED
  BY <1>5 DEF u, v, md5_round

\* Bytes that are copied into a block, and those that stay.
LEMMA Copied ==
  ASSUME NEW buf \in AllBlocks, NEW at \in Nat, NEW data \in Seq(AllBytes)
  PROVE  LET b == CopyTo(buf, at, data)
         IN  /\ b \in AllBlocks
             /\ \A i \in 1 .. BlockLen :
                  b[i] = IF i \in at + 1 .. at + Len(data) THEN data[i - at] ELSE buf[i]
<1> DEFINE b == CopyTo(buf, at, data)
<1>1. ASSUME NEW i \in 1 .. BlockLen
      PROVE  (IF i \in at + 1 .. at + Len(data) THEN data[i - at] ELSE buf[i]) \in AllBytes
  <2>1. CASE i \in at + 1 .. at + Len(data)
    <3>1. i - at \in 1 .. Len(data)
      BY <2>1, BlockLenIs
    <3> QED
      BY <2>1, <3>1
  <2>2. CASE i \notin at + 1 .. at + Len(data)
    BY <2>2 DEF AllBlocks
  <2> QED
    BY <2>1, <2>2
<1> QED
  BY <1>1 DEF CopyTo, AllBlocks

\* So many bytes are q blocks and r bytes.
BytesAre(n, q, r) == n = q * BlockLen + r

\* A context holds what it holds whatever block its last byte is in.
LEMMA DigestedAt ==
  ASSUME NEW f, NEW q \in Nat, NEW r \in 0 .. BlockLen - 1, NEW c, NEW n,
         BytesAre(n, q, r), Digested(c, f, n)
  PROVE  /\ c.val = BlocksTo(f, q)
         /\ \A i \in 1 .. r : c.buf[i] = Byte(f, q * BlockLen + i)
         /\ c.count % BlockLen = r
<1>1. PICK p \in Nat, t \in 0 .. BlockLen - 1 :
        /\ n = p * BlockLen + t
        /\ c.val = BlocksTo(f, p)
        /\ \A i \in 1 .. t : c.buf[i] = Byte(f, p * BlockLen + i)
  BY DEF Digested
<1>2. q = p /\ r = t /\ (q * BlockLen + r) % BlockLen = r
  <2>1. (q * BlockLen + r) % BlockLen = r /\ (q * BlockLen + r) \div BlockLen = q
    BY BlockLenIs, Placed
  <2>2. (p * BlockLen + t) % BlockLen = t /\ (p * BlockLen + t) \div BlockLen = p
    BY BlockLenIs, Placed
  <2> QED
    BY <1>1, <2>1, <2>2 DEF BytesAre
<1>3. c.count = n
  BY DEF Digested
<1> QED
  BY <1>1, <1>2, <1>3

-----------------------------------------------------------------------------
(* md5_short, and the blocks that are taken straight from the data.         *)

\* A context and a number of bytes of the data.
Taken(data) == [ctx : Contexts, done : 0 .. Len(data)]

\* The bytes of a part of the data.
LEMMA PartContinues ==
  ASSUME NEW f, NEW n \in Int, NEW data, Continues(data, f, n), NEW a \in Nat, NEW b \in a .. Len(data)
  PROVE  LET p == SubSeq(data, a + 1, b)
         IN  Continues(p, f, n + a) /\ Len(p) = b - a
<1> DEFINE p == SubSeq(data, a + 1, b)
<1>1. data \in Seq(AllBytes) /\ Len(data) \in Nat
  BY DEF Continues
<1>2. p \in Seq(AllBytes) /\ Len(p) = b - a /\ \A i \in 1 .. b - a : p[i] = data[a + i]
  <2>1. a + 1 \in Nat \ {0} /\ b \in Nat /\ b <= Len(data)
    BY <1>1
  <2>2. /\ p \in Seq(AllBytes)
        /\ Len(p) = IF a + 1 <= b THEN b - (a + 1) + 1 ELSE 0
        /\ \A i \in 1 .. (b - (a + 1) + 1) : p[i] = data[(a + 1) + i - 1]
    BY <1>1, <2>1, Part
  <2>3. \A i \in 1 .. b - a : (a + 1) + i - 1 = a + i
    BY <1>1
  <2>4. b - (a + 1) + 1 = b - a /\ (IF a + 1 <= b THEN b - (a + 1) + 1 ELSE 0) = b - a
    BY <1>1, <2>1
  <2> QED
    BY <2>2, <2>3, <2>4
<1>3. ASSUME NEW i \in 1 .. b - a PROVE p[i] = Byte(f, n + a + i)
  <2>1. a + i \in 1 .. Len(data) /\ n + (a + i) = n + a + i
    BY <1>1
  <2> QED
    BY <1>2, <2>1 DEF Continues
<1> HIDE DEF p
<1>4. Continues(p, f, n + a)
  BY <1>2, <1>3 DEF Continues
<1> QED
  BY <1>2, <1>4 DEF p

\* A turn takes as much as there is room for, or is left.
LEMMA TurnTakes ==
  ASSUME NEW data \in Seq(AllBytes), NEW s \in Taken(data)
  PROVE  LET r == s.ctx.count % BlockLen
             n == Smaller(BlockLen - r, Len(data) - s.done)
         IN  /\ r \in 0 .. BlockLen - 1
             /\ n \in 0 .. BlockLen - r /\ n \in 0 .. Len(data) - s.done
             /\ n = BlockLen - r \/ n = Len(data) - s.done
<1> DEFINE r == s.ctx.count % BlockLen
           a == BlockLen - r
           b == Len(data) - s.done
<1>1. s.ctx.count \in Nat /\ s.done \in 0 .. Len(data) /\ Len(data) \in Nat
  BY DEF Taken, Contexts
<1>2. r \in 0 .. BlockLen - 1
  <2>1. PICK q \in Nat, t \in 0 .. BlockLen - 1 : t = s.ctx.count % BlockLen
    BY <1>1, BlockLenIs, Place
  <2> QED
    BY <2>1
<1>3. a \in Nat /\ b \in Nat
  <2> HIDE DEF r
  <2> QED
    BY <1>1, <1>2, BlockLenIs
<1> HIDE DEF r, a, b
<1>4. Smaller(a, b) \in 0 .. a /\ Smaller(a, b) \in 0 .. b /\ (Smaller(a, b) = a \/ Smaller(a, b) = b)
  BY <1>3 DEF Smaller
<1> QED
  BY <1>2, <1>4 DEF r, a, b

\* A turn keeps types, and takes a byte unless none is left.
LEMMA TurnTypes ==
  ASSUME NEW data \in Seq(AllBytes), NEW s \in Taken(data)
  PROVE  /\ short_turn(s, data) \in Taken(data)
         /\ short_turn(s, data).done > s.done \/ short_turn(s, data).done = Len(data)
<1> DEFINE r == s.ctx.count % BlockLen
           n == Smaller(BlockLen - r, Len(data) - s.done)
           p == SubSeq(data, s.done + 1, s.done + n)
           b == CopyTo(s.ctx.buf, r, p)
           v == IF r + n = BlockLen THEN md5_round(s.ctx.val, b) ELSE s.ctx.val
           c == [buf |-> b, count |-> s.ctx.count + n, val |-> v]
<1>1. /\ s.ctx.count \in Nat /\ s.ctx.val \in Seq(AllBlocks) /\ s.ctx.buf \in AllBlocks
      /\ s.done \in Nat /\ s.done <= Len(data) /\ Len(data) \in Nat
  BY DEF Taken, Contexts
<1>2. /\ r \in 0 .. BlockLen - 1
      /\ n \in 0 .. BlockLen - r /\ n \in 0 .. Len(data) - s.done
      /\ n = BlockLen - r \/ n = Len(data) - s.done
  BY TurnTakes
<1>3. short_turn(s, data) = [ctx |-> c, done |-> s.done + n]
  BY DEF short_turn
<1> HIDE DEF r, n
<1>4. n \in Nat /\ r \in Nat /\ s.done + n \in Nat /\ s.done + n <= Len(data) /\ s.ctx.count + n \in Nat
  BY <1>1, <1>2, BlockLenIs
<1>5. p \in Seq(AllBytes)
  <2>1. s.done + 1 \in Nat \ {0}
    BY <1>1
  <2> QED
    BY <1>4, <2>1, Part
<1>6. b \in AllBlocks
  <2> HIDE DEF p
  <2> QED
    BY <1>1, <1>4, <1>5, Copied
<1>7. v \in Seq(AllBlocks)
  <2> HIDE DEF b
  <2> QED
    BY <1>1, <1>6 DEF md5_round
<1>8. c \in Contexts
  <2> HIDE DEF b, v
  <2> QED
    BY <1>4, <1>6, <1>7 DEF Contexts
<1>9. s.done + n > s.done \/ s.done + n = Len(data)
  BY <1>1, <1>2, BlockLenIs
<1> HIDE DEF c
<1> QED
  BY <1>3, <1>4, <1>8, <1>9 DEF Taken

\* A turn digests the bytes it takes.
LEMMA TurnDigests ==
  ASSUME NEW f \in HashFiles, NEW m \in Nat, NEW data, Continues(data, f, m),
         NEW s \in Taken(data), Digested(s.ctx, f, m + s.done)
  PROVE  Digested(short_turn(s, data).ctx, f, m + short_turn(s, data).done)
<1> DEFINE r == s.ctx.count % BlockLen
           n == Smaller(BlockLen - r, Len(data) - s.done)
           p == SubSeq(data, s.done + 1, s.done + n)
           b == CopyTo(s.ctx.buf, r, p)
           v == IF r + n = BlockLen THEN md5_round(s.ctx.val, b) ELSE s.ctx.val
           c == [buf |-> b, count |-> s.ctx.count + n, val |-> v]
<1>0. data \in Seq(AllBytes)
  BY DEF Continues
<1>1. /\ s.ctx.count \in Nat /\ s.ctx.val \in Seq(AllBlocks) /\ s.ctx.buf \in AllBlocks
      /\ s.done \in Nat /\ s.done <= Len(data) /\ Len(data) \in Nat
  BY <1>0 DEF Taken, Contexts
<1>2. /\ r \in 0 .. BlockLen - 1
      /\ n \in 0 .. BlockLen - r /\ n \in 0 .. Len(data) - s.done
      /\ n = BlockLen - r \/ n = Len(data) - s.done
  BY <1>0, TurnTakes
<1>3. short_turn(s, data) = [ctx |-> c, done |-> s.done + n]
  BY DEF short_turn
<1>4. c \in Contexts /\ b \in AllBlocks
  <2>1. short_turn(s, data) \in Taken(data)
    BY <1>0, TurnTypes
  <2>2. c \in Contexts
    BY <1>3, <2>1 DEF Taken
  <2> QED
    BY <2>2 DEF Contexts
<1>5. PICK q \in Nat, t \in 0 .. BlockLen - 1 : m + s.done = q * BlockLen + t
  <2>1. m + s.done \in Nat
    BY <1>1
  <2> QED
    BY <2>1, BlockLenIs, Place
<1>6. /\ s.ctx.val = BlocksTo(f, q) /\ \A i \in 1 .. t : s.ctx.buf[i] = Byte(f, q * BlockLen + i)
      /\ r = t /\ s.ctx.count = m + s.done
  <2> DEFINE k == m + s.done
  <2>1. Digested(s.ctx, f, k) /\ k = q * BlockLen + t
    BY <1>5
  <2> HIDE DEF k
  <2> DEFINE x == s.ctx
  <2>0. Digested(x, f, k)
    BY <2>1
  <2> HIDE DEF x
  <2>2. /\ x.val = BlocksTo(f, q) /\ x.count % BlockLen = t
        /\ \A i \in 1 .. t : x.buf[i] = Byte(f, q * BlockLen + i)
    <3>1. BytesAre(k, q, t)
      BY <2>1 DEF BytesAre
    <3> QED
      BY <2>0, <3>1, DigestedAt
  <2>3. s.ctx.count = k
    BY <2>1 DEF Digested
  <2> QED
    BY <2>2, <2>3 DEF k, x
<1> HIDE DEF r, n
<1> DEFINE first == q * BlockLen
           top == s.done + n
<1>7. /\ n \in Nat /\ r \in Nat /\ top \in s.done .. Len(data) /\ top \in Nat /\ r + n <= BlockLen
      /\ first \in Int /\ m + s.done = first + r /\ m + top = first + (r + n) /\ top - s.done = n
  <2>1. n \in Nat /\ r \in Nat /\ r + n <= BlockLen /\ s.done + n <= Len(data)
    BY <1>1, <1>2, BlockLenIs
  <2>2. first \in Int
    BY BlockLenIs
  <2>3. m + s.done = first + r
    BY <1>5, <1>6
  <2> DEFINE d == s.done
  <2>4. d \in Nat /\ m \in Nat /\ Len(data) \in Nat /\ d + n <= Len(data) /\ m + d = first + r
    BY <1>1, <2>1, <2>3
  <2> HIDE DEF first, d
  <2>5. m + (d + n) = first + (r + n) /\ (d + n) - d = n
        /\ d + n \in d .. Len(data) /\ d + n \in Nat
    BY <2>1, <2>2, <2>4
  <2>6. d = s.done /\ top = d + n
    BY DEF d
  <2> HIDE DEF top
  <2> QED
    BY <2>1, <2>2, <2>4, <2>5, <2>6
<1>8. Continues(p, f, m + s.done) /\ Len(p) = n
  <2>1. p = SubSeq(data, s.done + 1, top)
    OBVIOUS
  <2> HIDE DEF top
  <2>2. m \in Int /\ s.done \in Nat /\ top \in s.done .. Len(data)
    BY <1>1, <1>7
  <2>3. /\ Continues(SubSeq(data, s.done + 1, top), f, m + s.done)
        /\ Len(SubSeq(data, s.done + 1, top)) = top - s.done
    BY <2>2, PartContinues
  <2> HIDE DEF p
  <2> QED
    BY <1>7, <2>1, <2>3
<1>9. ASSUME NEW i \in 1 .. r + n PROVE b[i] = Byte(f, first + i)
  <2>1. i \in 1 .. BlockLen /\ p \in Seq(AllBytes)
    BY <1>7, <1>8, BlockLenIs DEF Continues
  <2>2. b[i] = IF i \in r + 1 .. r + n THEN p[i - r] ELSE s.ctx.buf[i]
    <3> HIDE DEF p
    <3>1. s.ctx.buf \in AllBlocks /\ r \in Nat
      BY <1>1, <1>7
    <3>2. \A j \in 1 .. BlockLen :
            b[j] = IF j \in r + 1 .. r + Len(p) THEN p[j - r] ELSE s.ctx.buf[j]
      BY <2>1, <3>1, Copied
    <3> HIDE DEF b
    <3> QED
      BY <1>8, <2>1, <3>2
  <2> HIDE DEF p, b
  <2>3. CASE i \in r + 1 .. r + n
    <3>1. i - r \in 1 .. Len(p) /\ (m + s.done) + (i - r) = first + i
      <4> HIDE DEF first
      <4> QED
        BY <1>1, <1>7, <1>8, <2>3
    <3>2. p[i - r] = Byte(f, (m + s.done) + (i - r))
      BY <1>8, <3>1 DEF Continues
    <3> QED
      BY <2>2, <2>3, <3>1, <3>2
  <2>4. CASE i \notin r + 1 .. r + n
    <3>1. i \in 1 .. t
      BY <1>6, <1>7, <2>4
    <3> QED
      BY <1>6, <2>2, <2>4, <3>1
  <2> QED
    BY <2>3, <2>4
<1>10. Digested(c, f, m + top)
  <2>1. c.count = m + top /\ c.val = v /\ c.buf = b
    BY <1>1, <1>6, <1>7
  <2>2. CASE r + n = BlockLen
    <3>1. v = BlocksTo(f, q + 1)
      <4>1. \A i \in 1 .. BlockLen : b[i] = Byte(f, q * BlockLen + i)
        BY <1>9, <2>2
      <4> HIDE DEF b
      <4>2. md5_round(BlocksTo(f, q), b) = BlocksTo(f, q + 1)
        BY <1>4, <4>1, NextBlock
      <4> QED
        BY <1>6, <2>2, <4>2
    <3>2. m + top = (q + 1) * BlockLen + 0 /\ q + 1 \in Nat /\ 0 \in 0 .. BlockLen - 1
      <4>1. (q + 1) * BlockLen = first + BlockLen
        BY BlockLenIs, BlockStep
      <4> HIDE DEF first, top
      <4> QED
        BY <1>7, <2>2, <4>1, BlockLenIs
    <3> HIDE DEF c, top
    <3> QED
      BY <1>4, <2>1, <3>1, <3>2 DEF Digested
  <2>3. CASE r + n # BlockLen
    <3>1. v = BlocksTo(f, q)
      BY <1>6, <2>3
    <3>2. r + n \in 0 .. BlockLen - 1 /\ m + top = q * BlockLen + (r + n)
      <4> HIDE DEF top
      <4> QED
        BY <1>7, <2>3, BlockLenIs
    <3> HIDE DEF c, b, top
    <3> QED
      BY <1>4, <1>9, <2>1, <3>1, <3>2 DEF Digested
  <2> QED
    BY <2>2, <2>3
<1> HIDE DEF c
<1> QED
  BY <1>3, <1>10

\* After as many turns as there are bytes all bytes are digested.
LEMMA ShortDigests ==
  ASSUME NEW f \in HashFiles, NEW m \in Nat, NEW c, Digested(c, f, m),
         NEW data, Continues(data, f, m)
  PROVE  Digested(md5_short(c, data), f, m + Len(data))
<1> DEFINE n == Len(data)
           T == Taken(data)
           s0 == [ctx |-> c, done |-> 0]
           step == [k \in 1 .. n |-> [s \in T |-> short_turn(s, data)]]
           Is(turn) == turn = [k \in 0 .. n |-> IF k = 0 THEN s0 ELSE short_turn(turn[k - 1], data)]
           turn == CHOOSE turn : Is(turn)
<1>1. data \in Seq(AllBytes) /\ n \in Nat /\ n \in 0 .. n
  BY DEF Continues
<1>2. c \in Contexts
  BY DEF Digested
<1>3. s0 \in T
  BY <1>1, <1>2 DEF Taken
<1>4. ASSUME NEW s \in T PROVE short_turn(s, data) \in T
  BY <1>1, TurnTypes
<1> HIDE DEF T, s0, n
<1>5. step \in [1 .. n -> [T -> T]]
  BY <1>4
<1> HIDE DEF step
<1>6. PICK g : Recursive(g, n, T, s0, step)
  BY <1>1, <1>3, <1>5, Recursion
<1>7. Is(g)
  <2>1. g \in [0 .. n -> T] /\ g[0] = s0
    BY <1>6 DEF Recursive
  <2>2. ASSUME NEW k \in 1 .. n PROVE g[k] = short_turn(g[k - 1], data)
    <3>1. g[k] = step[k][g[k - 1]] /\ g[k - 1] \in T
      BY <1>1, <1>6, <2>1 DEF Recursive
    <3> QED
      BY <3>1 DEF step
  <2> QED
    BY <1>1, <2>1, <2>2
<1> HIDE DEF Is
<1>8. Is(turn)
  BY <1>7, Zenon
<1>9. md5_short(c, data) = turn[n].ctx
  BY DEF md5_short, turn, Is, n, s0
<1> HIDE DEF turn
<1>10. turn[0] = s0 /\ \A k \in 1 .. n : turn[k] = short_turn(turn[k - 1], data)
  BY <1>1, <1>8 DEF Is
<1> DEFINE G == {k \in 0 .. n : /\ turn[k] \in T
                                /\ turn[k].done >= k \/ turn[k].done = n
                                /\ Digested(turn[k].ctx, f, m + turn[k].done)}
<1>11. 0 \in G
  <2>1. s0.done = 0 /\ s0.ctx = c /\ m + 0 = m
    BY DEF s0
  <2> QED
    BY <1>1, <1>3, <1>10, <2>1
<1>12. ASSUME NEW k \in 1 .. n, k - 1 \in G PROVE k \in G
  <2> DEFINE s == turn[k - 1]
             t == short_turn(s, data)
  <2>1. s \in T /\ (s.done >= k - 1 \/ s.done = n) /\ Digested(s.ctx, f, m + s.done) /\ turn[k] = t
    BY <1>10, <1>12
  <2>2. s \in Taken(data)
    BY <2>1 DEF T
  <2> HIDE DEF s
  <2>3. Digested(t.ctx, f, m + t.done) /\ t \in T /\ (t.done > s.done \/ t.done = n)
    BY <1>1, <2>1, <2>2, TurnDigests, TurnTypes DEF T, n
  <2>4. s.done \in 0 .. n /\ t.done \in 0 .. n
    BY <2>2, <2>3 DEF T, Taken, n
  <2> HIDE DEF t
  <2>5. t.done >= k \/ t.done = n
    BY <1>1, <2>1, <2>3, <2>4
  <2> QED
    BY <1>1, <2>1, <2>3, <2>5
<1> HIDE DEF G
<1>13. n \in G
  BY <1>1, <1>11, <1>12, Turns
<1>14. turn[n] \in T /\ (turn[n].done >= n \/ turn[n].done = n) /\ Digested(turn[n].ctx, f, m + turn[n].done)
  BY <1>13 DEF G
<1>15. turn[n].done = n
  <2>1. turn[n].done \in 0 .. n
    BY <1>14 DEF T, Taken, n
  <2> QED
    BY <1>1, <1>14, <2>1
<1> QED
  BY <1>9, <1>14, <1>15 DEF n

\* Bytes that are copied to the front of a block.
LEMMA CopiedToFront ==
  ASSUME NEW buf \in AllBlocks, NEW data \in Seq(AllBytes)
  PROVE  LET b == CopyTo(buf, 0, data)
         IN  /\ b \in AllBlocks
             /\ \A i \in 1 .. BlockLen : b[i] = IF i \in 1 .. Len(data) THEN data[i] ELSE buf[i]
<1>1. ASSUME NEW at \in Nat, at = 0
      PROVE  LET b == CopyTo(buf, at, data)
             IN  /\ b \in AllBlocks
                 /\ \A i \in 1 .. BlockLen : b[i] = IF i \in 1 .. Len(data) THEN data[i] ELSE buf[i]
  <2> DEFINE b == CopyTo(buf, at, data)
  <2>1. /\ b \in AllBlocks
        /\ \A i \in 1 .. BlockLen :
             b[i] = IF i \in at + 1 .. at + Len(data) THEN data[i - at] ELSE buf[i]
    BY Copied
  <2> HIDE DEF b
  <2>2. b \in AllBlocks
        /\ \A i \in 1 .. BlockLen : b[i] = IF i \in 1 .. Len(data) THEN data[i] ELSE buf[i]
    BY <1>1, <2>1, BlockLenIs
  <2> QED
    BY <2>2 DEF b
<1> QED
  BY <1>1

\* The loop over whole blocks, when nothing waits in buf.
LEMMA StraightDigests ==
  ASSUME NEW f \in HashFiles, NEW q \in Nat, NEW c, Digested(c, f, q * BlockLen),
         NEW data, Continues(data, f, q * BlockLen), NEW total, total = q * BlockLen + Len(data)
  PROVE  Digested([blocks(c, data) EXCEPT !.count = total], f, total)
<1> DEFINE n == Len(data) \div BlockLen
           r == Len(data) % BlockLen
           block(k) == SubSeq(data, (k - 1) * BlockLen + 1, k * BlockLen)
           Is(val) == val = [k \in 0 .. n |-> IF k = 0 THEN c.val ELSE md5_round(val[k - 1], block(k))]
           val == CHOOSE val : Is(val)
           rest == SubSeq(data, n * BlockLen + 1, Len(data))
           buf == CopyTo(c.buf, 0, rest)
           x == [blocks(c, data) EXCEPT !.count = total]
<1>1. data \in Seq(AllBytes) /\ Len(data) \in Nat
  BY DEF Continues
<1>2. c \in Contexts /\ c.val = BlocksTo(f, q)
  <2>1. 0 \in 0 .. BlockLen - 1 /\ q * BlockLen + 0 = q * BlockLen
    BY BlockLenIs
  <2>2. BytesAre(q * BlockLen, q, 0)
    BY <2>1 DEF BytesAre
  <2> DEFINE start == q * BlockLen
  <2>3. BytesAre(start, q, 0) /\ Digested(c, f, start)
    BY <2>2
  <2> HIDE DEF start
  <2>4. c.val = BlocksTo(f, q)
    BY <2>1, <2>3, DigestedAt
  <2> QED
    BY <2>3, <2>4 DEF Digested
<1>3. n \in Nat /\ n \in 0 .. n /\ r \in 0 .. BlockLen - 1 /\ Len(data) = n * BlockLen + r
  <2>1. PICK p \in Nat, t \in 0 .. BlockLen - 1 :
          Len(data) = p * BlockLen + t /\ p = Len(data) \div BlockLen /\ t = Len(data) % BlockLen
    BY <1>1, BlockLenIs, Place
  <2> QED
    BY <2>1
<1>4. ASSUME NEW k \in 1 .. n
      PROVE  md5_round(BlocksTo(f, q + (k - 1)), block(k)) = BlocksTo(f, q + k)
  <2> DEFINE a == (k - 1) * BlockLen
             b == k * BlockLen
             g == [i \in 1 .. BlockLen |-> Byte(f, (q + (k - 1)) * BlockLen + i)]
  <2>0. k \in Int /\ k - 1 \in Int /\ q \in Int /\ k - 1 \in Nat /\ k <= n
    BY <1>3
  <2>1. a \in Int /\ b = a + BlockLen
    <3>1. ((k - 1) + 1) * BlockLen = (k - 1) * BlockLen + BlockLen /\ (k - 1) * BlockLen \in Int
      BY <2>0, BlockLenIs, BlockStep
    <3>2. (k - 1) + 1 = k
      BY <2>0
    <3> QED
      BY <3>1, <3>2
  <2>2. 0 <= a /\ b <= Len(data)
    <3>1. 0 * BlockLen <= (k - 1) * BlockLen /\ k * BlockLen <= n * BlockLen
      <4>1. 0 <= k - 1 /\ n \in Int /\ 0 \in Int
        BY <1>3, <2>0
      <4> QED
        BY <2>0, <4>1, BlockLenIs, BlockOrder
    <3>2. 0 * BlockLen = 0 /\ n * BlockLen \in Int
      BY <1>3, BlockLenIs
    <3> DEFINE e == n * BlockLen
    <3>3. Len(data) = e + r /\ r \in Nat /\ b <= e /\ e \in Int
      BY <1>3, <3>1, <3>2, BlockLenIs
    <3> HIDE DEF e, r, a, b
    <3>4. b <= Len(data)
      BY <1>1, <2>1, <3>3, BlockLenIs
    <3> QED
      BY <3>1, <3>2, <3>4 DEF a
  <2>3. (q + (k - 1)) * BlockLen = q * BlockLen + a /\ q * BlockLen \in Int
    BY <2>0, BlockLenIs
  <2> DEFINE first == q * BlockLen
  <2>4. first \in Int
    BY <2>3
  <2>5. Continues(data, f, first)
    OBVIOUS
  <2> HIDE DEF a, b, first
  <2>6. a \in Nat /\ b \in a .. Len(data) /\ b - a = BlockLen
    BY <1>1, <2>1, <2>2, BlockLenIs
  <2>7. Continues(SubSeq(data, a + 1, b), f, first + a) /\ Len(SubSeq(data, a + 1, b)) = b - a
    BY <2>4, <2>5, <2>6, PartContinues
  <2> DEFINE p == SubSeq(data, a + 1, b)
  <2>8. p = block(k)
    BY DEF a, b
  <2> HIDE DEF p
  <2>9. p \in [1 .. BlockLen -> AllBytes]
        /\ \A i \in 1 .. BlockLen : p[i] = Byte(f, (q + (k - 1)) * BlockLen + i)
    <3>1. Continues(p, f, first + a) /\ Len(p) = BlockLen
      BY <2>6, <2>7 DEF p
    <3>2. (q + (k - 1)) * BlockLen = first + a
      BY <2>3 DEF first
    <3>3. p \in [1 .. BlockLen -> AllBytes]
      BY <3>1 DEF Continues
    <3> QED
      BY <3>1, <3>2, <3>3 DEF Continues
  <2>10. p \in AllBlocks /\ q + (k - 1) \in Nat /\ (q + (k - 1)) + 1 = q + k
    BY <2>0, <2>9 DEF AllBlocks
  <2>11. md5_round(BlocksTo(f, q + (k - 1)), p) = BlocksTo(f, (q + (k - 1)) + 1)
    BY <2>9, <2>10, NextBlock
  <2> QED
    BY <2>8, <2>10, <2>11
<1>5. blocks(c, data) = [c EXCEPT !.val = val[n], !.buf = buf]
  BY DEF blocks, val, Is, buf, rest
<1> HIDE DEF n, r
<1>6. val[n] = BlocksTo(f, q + n)
  <2> DEFINE g == [k \in 0 .. n |-> BlocksTo(f, q + k)]
  <2>1. Is(g)
    <3>1. g[0] = c.val
      <4>1. 0 \in 0 .. n /\ q + 0 = q
        BY <1>3
      <4> QED
        BY <1>2, <4>1
    <3>2. ASSUME NEW k \in 1 .. n PROVE g[k] = md5_round(g[k - 1], block(k))
      <4>1. k - 1 \in 0 .. n /\ k \in 0 .. n
        BY <1>3
      <4> HIDE DEF block
      <4> QED
        BY <1>4, <4>1
    <3>3. g = [k \in 0 .. n |-> g[k]]
      OBVIOUS
    <3> HIDE DEF g, block
    <3>4. \A k \in 0 .. n : g[k] = IF k = 0 THEN c.val ELSE md5_round(g[k - 1], block(k))
      BY <1>3, <3>1, <3>2
    <3> QED
      BY <3>3, <3>4
  <2> HIDE DEF Is, g
  <2>2. Is(val)
    BY <2>1, Zenon
  <2> HIDE DEF val
  <2>3. val[0] = c.val /\ \A k \in 1 .. n : val[k] = md5_round(val[k - 1], block(k))
    <3> HIDE DEF block
    <3> QED
      BY <1>3, <2>2 DEF Is
  <2> DEFINE G == {k \in 0 .. n : val[k] = BlocksTo(f, q + k)}
  <2>4. 0 \in G
    <3>1. q + 0 = q /\ 0 \in 0 .. n
      BY <1>3
    <3> QED
      BY <1>2, <2>3, <3>1
  <2>5. ASSUME NEW k \in 1 .. n, k - 1 \in G PROVE k \in G
    <3>1. k \in 0 .. n
      BY <1>3
    <3> HIDE DEF block
    <3> QED
      BY <1>4, <2>3, <2>5, <3>1
  <2> HIDE DEF G
  <2>6. n \in G
    BY <1>3, <2>4, <2>5, Turns
  <2> QED
    BY <2>6 DEF G
<1> DEFINE e == n * BlockLen
           first == q * BlockLen
<1>7. /\ e \in Nat /\ Len(data) \in e .. Len(data) /\ Len(data) - e = r /\ first \in Int
      /\ (q + n) * BlockLen = first + e /\ q + n \in Nat
  <2>1. 0 * BlockLen <= n * BlockLen /\ 0 * BlockLen = 0 /\ e \in Int /\ first \in Int
    <3>1. 0 <= n /\ 0 \in Int /\ n \in Int
      BY <1>3
    <3> QED
      BY <3>1, BlockLenIs, BlockOrder
  <2>2. (q + n) * BlockLen = first + e /\ q + n \in Nat
    BY <1>3, BlockLenIs
  <2>3. Len(data) = e + r /\ r \in Nat /\ 0 <= e
    BY <1>3, <2>1
  <2> HIDE DEF e, first
  <2>4. Len(data) \in e .. Len(data) /\ Len(data) - e = r /\ e \in Nat
    BY <1>1, <2>1, <2>3
  <2> QED
    BY <2>1, <2>2, <2>4
<1>8. Continues(rest, f, first + e) /\ Len(rest) = r
  <2>1. Continues(data, f, first) /\ rest = SubSeq(data, e + 1, Len(data))
    OBVIOUS
  <2> HIDE DEF rest, e, first
  <2> QED
    BY <1>7, <2>1, PartContinues
<1> HIDE DEF rest
<1>9. buf \in AllBlocks /\ \A i \in 1 .. r : buf[i] = Byte(f, (q + n) * BlockLen + i)
  <2>1. rest \in Seq(AllBytes) /\ c.buf \in AllBlocks
    BY <1>2, <1>8 DEF Continues, Contexts
  <2>2. /\ buf \in AllBlocks
        /\ \A i \in 1 .. BlockLen : buf[i] = IF i \in 1 .. Len(rest) THEN rest[i] ELSE c.buf[i]
    BY <2>1, CopiedToFront
  <2> HIDE DEF buf
  <2>3. ASSUME NEW i \in 1 .. r PROVE buf[i] = Byte(f, (q + n) * BlockLen + i)
    <3>1. i \in 1 .. BlockLen /\ i \in 1 .. Len(rest)
      BY <1>3, <1>8, BlockLenIs
    <3>2. buf[i] = rest[i]
      BY <2>2, <3>1
    <3> QED
      BY <1>7, <1>8, <3>1, <3>2 DEF Continues
  <2> QED
    BY <2>2, <2>3
<1>10. total = (q + n) * BlockLen + r /\ total \in Nat
  <2>1. Len(data) = e + r
    BY <1>3
  <2>2. total = first + Len(data) /\ first \in Nat
    <3>1. c.count = first /\ c.count \in Nat
      BY <1>2 DEF Digested, Contexts
    <3> QED
      BY <3>1
  <2>3. r \in Nat
    BY <1>3, BlockLenIs
  <2> HIDE DEF e, first
  <2> QED
    BY <1>1, <1>7, <2>1, <2>2, <2>3
<1> HIDE DEF buf, val
<1>11. x \in Contexts /\ x.count = total /\ x.val = BlocksTo(f, q + n) /\ x.buf = buf
  <2>1. x = [[c EXCEPT !.val = val[n], !.buf = buf] EXCEPT !.count = total]
    BY <1>5
  <2>2. val[n] \in Seq(AllBlocks)
    BY <1>6, <1>7, BlocksAre
  <2> DEFINE v == val[n]
  <2>3. v \in Seq(AllBlocks) /\ v = BlocksTo(f, q + n) /\ c \in Contexts /\ buf \in AllBlocks /\ total \in Nat
    BY <1>2, <1>6, <1>9, <1>10, <2>2
  <2> HIDE DEF x, v
  <2>4. x = [[c EXCEPT !.val = v, !.buf = buf] EXCEPT !.count = total]
    BY <2>1 DEF v
  <2>5. x \in Contexts /\ x.val = v /\ x.buf = buf /\ x.count = total
    BY <2>3, <2>4 DEF Contexts
  <2> QED
    BY <2>3, <2>5
<1> HIDE DEF x
<1>12. Digested(x, f, total)
  BY <1>3, <1>7, <1>9, <1>10, <1>11 DEF Digested
<1> QED
  BY <1>12 DEF x

\* sph_md5 digests the bytes it is called with, wherever they begin in a block.
LEMMA UpdateDigests ==
  ASSUME NEW f \in HashFiles, NEW m \in Nat, NEW c, Digested(c, f, m),
         NEW data, Continues(data, f, m)
  PROVE  Digested(sph_md5(c, data), f, m + Len(data))
<1> DEFINE len == Len(data)
           r == c.count % BlockLen
           t == IF r > 0 THEN BlockLen - r ELSE 0
           front == SubSeq(data, 1, t)
           rest == SubSeq(data, t + 1, len)
           d == md5_short(c, front)
<1>1. data \in Seq(AllBytes) /\ len \in Nat
  BY DEF Continues
<1>2. CASE len < 2 * BlockLen
  BY <1>2, ShortDigests DEF sph_md5
<1>3. CASE len >= 2 * BlockLen
  <2>1. PICK q \in Nat, s \in 0 .. BlockLen - 1 : m = q * BlockLen + s
    BY BlockLenIs, Place
  <2>2. r = s
    <3>1. BytesAre(m, q, s)
      BY <2>1 DEF BytesAre
    <3> QED
      BY <3>1, DigestedAt
  <2> HIDE DEF r
  <2>3. t \in 0 .. BlockLen /\ t \in 0 .. len /\ len \in t .. len
    BY <1>1, <1>3, <2>2, BlockLenIs
  <2>4. PICK p \in Nat : m + t = p * BlockLen
    <3>1. CASE r > 0
      <4> DEFINE first == q * BlockLen
      <4>1. (q + 1) * BlockLen = first + BlockLen /\ first \in Int /\ q + 1 \in Nat
        BY BlockLenIs, BlockStep
      <4>2. m = first + r /\ t = BlockLen - r /\ r \in Int
        BY <2>1, <2>2, <3>1
      <4> HIDE DEF first, t
      <4>3. m + t = (q + 1) * BlockLen
        BY <4>1, <4>2, BlockLenIs
      <4> QED
        BY <4>1, <4>3
    <3>2. CASE ~(r > 0)
      <4>1. r = 0 /\ t = 0
        BY <2>2, <3>2, BlockLenIs
      <4> DEFINE first == q * BlockLen
      <4>2. m = first + s /\ first \in Int
        BY <2>1, BlockLenIs
      <4> HIDE DEF first, t
      <4>3. s = 0
        BY <2>2, <4>1
      <4>4. m = first
        BY <4>2, <4>3
      <4>5. m + t = first
        BY <4>1, <4>4
      <4> QED
        BY <4>5 DEF first
    <3> QED
      BY <3>1, <3>2
  <2> HIDE DEF t
  <2>5. Continues(front, f, m) /\ Len(front) = t
    <3>1. ASSUME NEW a \in Nat, a = 0
          PROVE  Continues(SubSeq(data, a + 1, t), f, m + a) /\ Len(SubSeq(data, a + 1, t)) = t - a
      <4>1. t \in a .. Len(data) /\ m \in Int
        BY <2>3, <3>1
      <4> QED
        BY <4>1, PartContinues
    <3>2. 0 + 1 = 1 /\ m + 0 = m /\ t - 0 = t
      BY <2>3
    <3> QED
      BY <3>1, <3>2
  <2>6. Continues(rest, f, m + t) /\ Len(rest) = len - t
    <3>1. t \in Nat /\ len \in t .. Len(data) /\ m \in Int
      BY <2>3
    <3> QED
      BY <3>1, PartContinues
  <2> HIDE DEF front, rest
  <2>7. Digested(d, f, p * BlockLen) /\ Continues(rest, f, p * BlockLen)
    BY <2>4, <2>5, <2>6, ShortDigests
  <2>8. c.count = m
    BY DEF Digested
  <2> DEFINE total == m + len
  <2>9. total = p * BlockLen + Len(rest)
    <3> DEFINE first == p * BlockLen
    <3>1. first = m + t
      BY <2>4
    <3> HIDE DEF first
    <3>2. total = first + Len(rest)
      BY <1>1, <2>3, <2>6, <3>1
    <3> QED
      BY <3>2 DEF first
  <2>10. sph_md5(c, data) = [blocks(d, rest) EXCEPT !.count = total]
    <3>1. ~(len < 2 * BlockLen)
      BY <1>1, <1>3, BlockLenIs
    <3> QED
      BY <2>8, <3>1 DEF sph_md5, t, r, front, rest
  <2> HIDE DEF d, total
  <2>11. Digested([blocks(d, rest) EXCEPT !.count = total], f, total)
    BY <2>7, <2>9, StraightDigests
  <2> QED
    BY <2>10, <2>11 DEF total
<1> QED
  BY <1>1, <1>2, <1>3, BlockLenIs

-----------------------------------------------------------------------------
(* The padded message, by the places of its bytes.                          *)

LEMMA MaxPadIs == MaxPad \in Nat /\ MaxPad >= 1 /\ MaxPad < BlockLen /\ BlockLen - MaxPad \in Nat
  BY ChecksumAssumption

LEMMA ZerosAre ==
  ASSUME NEW n \in Nat
  PROVE  /\ Zeros(n) \in Seq(AllBytes) /\ Len(Zeros(n)) = n
         /\ \A i \in 1 .. n : Zeros(n)[i] = Byte("0x00", 0)
<1>1. Byte("0x00", 0) \in AllBytes
  BY DEF Byte, AllBytes
<1>2. Zeros(n) \in [1 .. n -> AllBytes]
  BY <1>1 DEF Zeros
<1> QED
  BY <1>2, AsSeq DEF Zeros

LEMMA LengthFieldIs ==
  ASSUME NEW n \in Nat
  PROVE  /\ LengthField(n) \in Seq(AllBytes) /\ Len(LengthField(n)) = BlockLen - MaxPad
         /\ \A i \in 1 .. BlockLen - MaxPad : LengthField(n)[i] # Mark
<1> DEFINE x == (8 * n) % LengthMod
<1>1. x \in Int
  BY ChecksumAssumption
<1>2. x * BlockLen \in Int
  BY <1>1, BlockLenIs
<1>3. LengthField(n) = [i \in 1 .. BlockLen - MaxPad |-> Byte("bits", x * BlockLen + i)]
  BY DEF LengthField
<1> DEFINE y == x * BlockLen
<1> HIDE DEF y
<1>4. ASSUME NEW i \in 1 .. BlockLen - MaxPad
      PROVE  Byte("bits", y + i) \in AllBytes /\ Byte("bits", y + i) # Mark
  <2>1. y + i \in Int
    BY <1>2 DEF y
  <2> QED
    BY <2>1 DEF Byte, AllBytes, Mark
<1>5. LengthField(n) = [i \in 1 .. BlockLen - MaxPad |-> Byte("bits", y + i)]
  BY <1>3 DEF y
<1>6. LengthField(n) \in [1 .. BlockLen - MaxPad -> AllBytes]
  BY <1>4, <1>5
<1> QED
  BY <1>4, <1>5, <1>6, MaxPadIs, AsSeq

\* The byte at place p of a message of n bytes whose zeros end at place e.
PadByte(f, n, e, p) ==
  IF p <= n THEN Byte(f, p)
  ELSE IF p = n + 1 THEN Mark
  ELSE IF p <= e THEN Byte("0x00", 0)
  ELSE LengthField(n)[p - e]

LEMMA MessageIs ==
  ASSUME NEW f \in HashFiles, NEW n \in Nat
  PROVE  /\ Message(f, n) \in Seq(AllBytes) /\ Len(Message(f, n)) = n
         /\ \A i \in 1 .. n : Message(f, n)[i] = Byte(f, i)
<1>1. \A i \in 1 .. n : Byte(f, i) \in AllBytes
  BY ByteIs
<1>2. Message(f, n) \in [1 .. n -> AllBytes]
  BY <1>1 DEF Message
<1> QED
  BY <1>2, AsSeq DEF Message

\* The zeros end where the length of the message begins, in the block of the mark
\* or in the next one.
LEMMA ZerosEnd ==
  ASSUME NEW q \in Nat, NEW r \in 0 .. BlockLen - 1, NEW n, n = q * BlockLen + r,
         NEW z, z = CHOOSE y \in 0 .. BlockLen - 1 : (n + 1 + y) % BlockLen = MaxPad % BlockLen
  PROVE  /\ z \in Nat
         /\ r + 1 <= MaxPad => n + 1 + z = q * BlockLen + MaxPad
         /\ r + 1 > MaxPad => n + 1 + z = (q + 1) * BlockLen + MaxPad
<1> DEFINE L == BlockLen
           Good(x) == (n + 1 + x) % L = MaxPad % L
           x == IF r + 1 <= MaxPad THEN MaxPad - (r + 1) ELSE L + MaxPad - (r + 1)
           p == IF r + 1 <= MaxPad THEN q ELSE q + 1
<1>1. x \in 0 .. L - 1
  BY MaxPadIs, BlockLenIs
<1>2. n + 1 + x = p * L + MaxPad /\ p \in Nat /\ n \in Nat
  <2> DEFINE first == q * L
             next == (q + 1) * L
  <2>1. first \in Nat /\ next = first + L
    BY BlockLenIs, BlockStep
  <2>2. n = first + r
    OBVIOUS
  <2> HIDE DEF first, next
  <2>3. n \in Nat
    BY <2>1, <2>2, BlockLenIs
  <2>4. CASE r + 1 <= MaxPad
    <3>1. p = q /\ x = MaxPad - (r + 1)
      BY <2>4
    <3> HIDE DEF p, x
    <3>2. n + 1 + x = first + MaxPad
      BY <2>1, <2>2, <3>1, MaxPadIs, BlockLenIs
    <3> QED
      BY <2>3, <3>1, <3>2 DEF first
  <2>5. CASE ~(r + 1 <= MaxPad)
    <3>1. p = q + 1 /\ x = L + MaxPad - (r + 1)
      BY <2>5
    <3> HIDE DEF p, x
    <3>2. n + 1 + x = next + MaxPad
      BY <2>1, <2>2, <3>1, MaxPadIs, BlockLenIs
    <3> QED
      BY <2>3, <3>1, <3>2 DEF next
  <2> QED
    BY <2>4, <2>5
<1> HIDE DEF x, p
<1>3. MaxPad \in 0 .. L - 1 /\ MaxPad % L = MaxPad
  <2>1. MaxPad \in 0 .. L - 1
    BY MaxPadIs, BlockLenIs
  <2>2. (0 * L + MaxPad) % L = MaxPad
    BY <2>1, BlockLenIs, Placed
  <2>3. 0 * L + MaxPad = MaxPad
    BY MaxPadIs, BlockLenIs
  <2> QED
    BY <2>1, <2>2, <2>3
<1>4. Good(x)
  <2>1. (p * L + MaxPad) % L = MaxPad
    BY <1>2, <1>3, BlockLenIs, Placed
  <2> QED
    BY <1>2, <1>3, <2>1
<1>5. z \in 0 .. L - 1 /\ Good(z)
  BY <1>1, <1>4
<1>6. PICK t \in Nat : n + 1 + z = t * L + MaxPad
  <2> DEFINE y == n + 1 + z
  <2>1. y \in Nat
    BY <1>2, <1>5, BlockLenIs
  <2>2. y % L = MaxPad
    BY <1>3, <1>5
  <2> HIDE DEF y
  <2>3. PICK t \in Nat, s \in 0 .. L - 1 : y = t * L + s /\ s = y % L
    BY <2>1, BlockLenIs, Place
  <2>4. s = MaxPad
    BY <2>2, <2>3
  <2> QED
    BY <2>3, <2>4 DEF y
<1>7. t = p
  <2> DEFINE a == t * L
             b == p * L
  <2>1. n + 1 + z = a + MaxPad /\ n + 1 + x = b + MaxPad /\ a \in Int /\ b \in Int
    BY <1>2, <1>6, BlockLenIs
  <2>2. t < p => a + L <= b
    <3> SUFFICES ASSUME t < p PROVE a + L <= b
      OBVIOUS
    <3>1. t + 1 <= p /\ t + 1 \in Int /\ t \in Int /\ p \in Int
      BY <1>2, <1>6
    <3>2. (t + 1) * L <= p * L /\ (t + 1) * L = t * L + L
      BY <3>1, BlockLenIs, BlockOrder, BlockStep
    <3> QED
      BY <3>2
  <2>3. p < t => b + L <= a
    <3> SUFFICES ASSUME p < t PROVE b + L <= a
      OBVIOUS
    <3>1. p + 1 <= t /\ p + 1 \in Int /\ t \in Int /\ p \in Int
      BY <1>2, <1>6
    <3>2. (p + 1) * L <= t * L /\ (p + 1) * L = p * L + L
      BY <3>1, BlockLenIs, BlockOrder, BlockStep
    <3> QED
      BY <3>2
  <2> HIDE DEF a, b
  <2>4. ~(t < p) /\ ~(p < t)
    BY <1>1, <1>2, <1>5, <2>1, <2>2, <2>3, BlockLenIs, MaxPadIs
  <2> QED
    BY <1>2, <1>6, <2>4
<1>8. n + 1 + z = p * L + MaxPad /\ z \in Nat
  BY <1>5, <1>6, <1>7, BlockLenIs
<1> QED
  BY <1>8, MaxPadIs DEF p

\* Two sequences, one behind the other.
LEMMA Joined ==
  ASSUME NEW u \in Seq(AllBytes), NEW v \in Seq(AllBytes), NEW w, w = u \o v
  PROVE  /\ w \in Seq(AllBytes) /\ Len(w) = Len(u) + Len(v)
         /\ \A i \in 1 .. Len(u) : w[i] = u[i]
         /\ \A i \in Len(u) + 1 .. Len(w) : w[i] = v[i - Len(u)]
OBVIOUS

\* A sequence is a message of n bytes with the mark, zeros up to e, and its length.
IsPadded(m, f, n, e) ==
  /\ m \in Seq(AllBytes) /\ Len(m) = e + (BlockLen - MaxPad)
  /\ \A p \in 1 .. Len(m) : m[p] = PadByte(f, n, e, p)

\* A message of n bytes with z zeros, by its places.
LEMMA PaddedPlaces ==
  ASSUME NEW f \in HashFiles, NEW n \in Nat, NEW z \in Nat, NEW e, e = n + 1 + z
  PROVE  IsPadded(Message(f, n) \o <<Mark>> \o Zeros(z) \o LengthField(n), f, n, e)
<1> DEFINE text == Message(f, n)
           field == LengthField(n)
           zeros == Zeros(z)
           mark == <<Mark>>
           k == BlockLen - MaxPad
           a == text \o mark
           b == a \o zeros
           m == b \o field
<1>1. k \in Nat /\ e \in Nat /\ n + 1 <= e /\ e - (n + 1) = z /\ n + 1 \in Nat
  BY MaxPadIs
<1>2. text \in Seq(AllBytes) /\ Len(text) = n /\ \A i \in 1 .. n : text[i] = Byte(f, i)
  BY MessageIs
<1>3. zeros \in Seq(AllBytes) /\ Len(zeros) = z /\ \A i \in 1 .. z : zeros[i] = Byte("0x00", 0)
  BY ZerosAre
<1>4. field \in Seq(AllBytes) /\ Len(field) = k
  BY LengthFieldIs
<1>5. mark \in Seq(AllBytes) /\ Len(mark) = 1 /\ mark[1] = Mark
  <2>1. Mark \in AllBytes
    BY DEF Mark, Byte, AllBytes
  <2> QED
    BY <2>1
<1>6. Message(f, n) \o <<Mark>> \o Zeros(z) \o LengthField(n) = m
  OBVIOUS
<1> HIDE DEF text, zeros, field, mark, k
<1>7. /\ a \in Seq(AllBytes) /\ Len(a) = n + 1
      /\ \A i \in 1 .. n : a[i] = text[i]
      /\ a[n + 1] = Mark
  <2>1. a = text \o mark
    OBVIOUS
  <2> HIDE DEF a
  <2>0. text \in Seq(AllBytes) /\ mark \in Seq(AllBytes)
    BY <1>2, <1>5
  <2>2. /\ a \in Seq(AllBytes) /\ Len(a) = Len(text) + Len(mark)
        /\ \A i \in 1 .. Len(text) : a[i] = text[i]
        /\ \A i \in Len(text) + 1 .. Len(a) : a[i] = mark[i - Len(text)]
    BY <2>0, <2>1, Joined
  <2>3. n + 1 \in Len(text) + 1 .. Len(a) /\ (n + 1) - Len(text) = 1
    BY <1>2, <1>5, <2>2
  <2> QED
    BY <1>2, <1>5, <2>2, <2>3
<1> HIDE DEF a
<1>8. /\ b \in Seq(AllBytes) /\ Len(b) = e
      /\ \A i \in 1 .. n + 1 : b[i] = a[i]
      /\ \A i \in n + 2 .. e : b[i] = Byte("0x00", 0)
  <2>1. b = a \o zeros
    OBVIOUS
  <2> HIDE DEF b
  <2>0. a \in Seq(AllBytes) /\ zeros \in Seq(AllBytes)
    BY <1>3, <1>7
  <2>2. /\ b \in Seq(AllBytes) /\ Len(b) = Len(a) + Len(zeros)
        /\ \A i \in 1 .. Len(a) : b[i] = a[i]
        /\ \A i \in Len(a) + 1 .. Len(b) : b[i] = zeros[i - Len(a)]
    BY <2>0, <2>1, Joined
  <2>3. Len(b) = e
    BY <1>1, <1>3, <1>7, <2>2
  <2>4. ASSUME NEW i \in n + 2 .. e PROVE b[i] = Byte("0x00", 0)
    <3>1. i \in Int /\ n + 1 < i /\ i <= e /\ i - (n + 1) \in 1 .. z
      BY <1>1
    <3>2. i \in Len(a) + 1 .. Len(b) /\ i - Len(a) \in 1 .. z
      BY <1>1, <1>7, <2>3, <3>1
    <3> QED
      BY <1>3, <2>2, <3>2
  <2> QED
    BY <1>7, <2>2, <2>3, <2>4
<1> HIDE DEF b
<1>9. /\ m \in Seq(AllBytes) /\ Len(m) = e + k
      /\ \A i \in 1 .. e : m[i] = b[i]
      /\ \A i \in e + 1 .. e + k : m[i] = LengthField(n)[i - e]
  <2>1. m = b \o field
    OBVIOUS
  <2> HIDE DEF m
  <2>0. b \in Seq(AllBytes) /\ field \in Seq(AllBytes)
    BY <1>4, <1>8
  <2>2. /\ m \in Seq(AllBytes) /\ Len(m) = Len(b) + Len(field)
        /\ \A i \in 1 .. Len(b) : m[i] = b[i]
        /\ \A i \in Len(b) + 1 .. Len(m) : m[i] = field[i - Len(b)]
    BY <2>0, <2>1, Joined
  <2> QED
    BY <1>1, <1>4, <1>8, <2>2 DEF field
<1> HIDE DEF m
<1>10. ASSUME NEW p \in 1 .. Len(m) PROVE m[p] = PadByte(f, n, e, p)
  <2>0. p \in 1 .. e + k
    BY <1>9
  <2>1. CASE p <= n
    <3>1. p \in 1 .. n /\ p \in 1 .. n + 1 /\ p \in 1 .. e
      BY <1>1, <2>0, <2>1
    <3> QED
      BY <1>2, <1>7, <1>8, <1>9, <2>1, <3>1 DEF PadByte
  <2>2. CASE p = n + 1
    <3>1. p \in 1 .. n + 1 /\ p \in 1 .. e /\ ~(p <= n)
      BY <1>1, <2>0, <2>2
    <3> QED
      BY <1>7, <1>8, <1>9, <2>2, <3>1 DEF PadByte
  <2>3. CASE p > n + 1 /\ p <= e
    <3>1. p \in n + 2 .. e /\ p \in 1 .. e /\ ~(p <= n) /\ p # n + 1
      BY <1>1, <2>0, <2>3
    <3> QED
      BY <1>8, <1>9, <2>3, <3>1 DEF PadByte
  <2>4. CASE p > e
    <3>1. p \in e + 1 .. e + k /\ ~(p <= n) /\ p # n + 1 /\ ~(p <= e)
      BY <1>1, <2>0, <2>4
    <3> QED
      BY <1>9, <3>1 DEF PadByte
  <2> QED
    BY <1>1, <2>0, <2>1, <2>2, <2>3, <2>4
<1> QED
  BY <1>6, <1>9, <1>10 DEF k, IsPadded

\* A message of n bytes ends in block q + 1, its padding at the end of block top + 1.
PadEnds(n, q, r, top, e) ==
  /\ n = q * BlockLen + r
  /\ top = IF r + 1 <= MaxPad THEN q ELSE q + 1
  /\ e = top * BlockLen + MaxPad

\* The padded message: its length field ends a block.
LEMMA PaddedIs ==
  ASSUME NEW f \in HashFiles, NEW q \in Nat, NEW r \in 0 .. BlockLen - 1, NEW n,
         NEW top, NEW e, PadEnds(n, q, r, top, e)
  PROVE  /\ IsPadded(Padded(Message(f, n)), f, n, e)
         /\ Len(Padded(Message(f, n))) = (top + 1) * BlockLen
         /\ n \in Nat /\ n + 1 <= e
<1> DEFINE z == CHOOSE z \in 0 .. BlockLen - 1 : (n + 1 + z) % BlockLen = MaxPad % BlockLen
           m == Padded(Message(f, n))
<1>0. /\ n = q * BlockLen + r /\ top = (IF r + 1 <= MaxPad THEN q ELSE q + 1)
      /\ e = top * BlockLen + MaxPad
  BY DEF PadEnds
<1>1. n \in Nat
  <2>1. q * BlockLen \in Nat
    BY BlockLenIs
  <2> QED
    BY <1>0, <2>1, BlockLenIs
<1>2. m = Message(f, n) \o <<Mark>> \o Zeros(z) \o LengthField(n)
  BY <1>1, MessageIs DEF Padded
<1>3. z \in Nat /\ e = n + 1 + z
  <2>1. /\ z \in Nat
        /\ r + 1 <= MaxPad => n + 1 + z = q * BlockLen + MaxPad
        /\ r + 1 > MaxPad => n + 1 + z = (q + 1) * BlockLen + MaxPad
    <3> HIDE DEF z
    <3>1. z = CHOOSE y \in 0 .. BlockLen - 1 : (n + 1 + y) % BlockLen = MaxPad % BlockLen
      BY DEF z
    <3> QED
      BY <1>0, <3>1, ZerosEnd
  <2> HIDE DEF z
  <2> QED
    BY <1>0, <2>1, MaxPadIs, BlockLenIs
<1> HIDE DEF z, m
<1>4. IsPadded(m, f, n, e)
  <2>1. IsPadded(Message(f, n) \o <<Mark>> \o Zeros(z) \o LengthField(n), f, n, e)
    BY <1>1, <1>3, PaddedPlaces
  <2> QED
    BY <1>2, <2>1
<1>5. Len(m) = (top + 1) * BlockLen
  <2> DEFINE x == top * BlockLen
  <2>1. (top + 1) * BlockLen = x + BlockLen /\ x \in Int /\ e = x + MaxPad
    <3>1. top \in Int
      BY <1>0
    <3> QED
      BY <1>0, <3>1, BlockLenIs, BlockStep
  <2> HIDE DEF x
  <2> QED
    BY <1>4, <2>1, BlockLenIs, MaxPadIs DEF IsPadded
<1> QED
  BY <1>1, <1>3, <1>4, <1>5 DEF m

-----------------------------------------------------------------------------
(* The last blocks, and the end of the computation.                        *)

\* The places of the k-th of so many blocks.
LEMMA BlockPlaces ==
  ASSUME NEW top \in Nat, NEW k \in 1 .. top
  PROVE  /\ (k - 1) * BlockLen \in Nat /\ k * BlockLen = (k - 1) * BlockLen + BlockLen
         /\ k * BlockLen \in Nat /\ k * BlockLen <= top * BlockLen
<1>0. k \in Int /\ k - 1 \in Nat /\ k - 1 \in Int /\ k <= top /\ top \in Int /\ (k - 1) + 1 = k
  OBVIOUS
<1>1. ((k - 1) + 1) * BlockLen = (k - 1) * BlockLen + BlockLen
  BY <1>0, BlockLenIs, BlockStep
<1>2. k * BlockLen <= top * BlockLen
  BY <1>0, BlockLenIs, BlockOrder
<1>3. (k - 1) * BlockLen \in Nat /\ k * BlockLen \in Nat
  BY <1>0, BlockLenIs
<1> QED
  BY <1>0, <1>1, <1>2, <1>3

\* The blocks of a sequence.
LEMMA BlockedIs ==
  ASSUME NEW m \in Seq(AllBytes), NEW top \in Nat, Len(m) = top * BlockLen
  PROVE  /\ Blocked(m) \in Seq(AllBlocks) /\ Len(Blocked(m)) = top
         /\ \A k \in 1 .. top : Blocked(m)[k] \in AllBlocks
         /\ \A k \in 1 .. top, i \in 1 .. BlockLen :
              (k - 1) * BlockLen + i \in 1 .. Len(m) /\ Blocked(m)[k][i] = m[(k - 1) * BlockLen + i]
<1> DEFINE block(k) == SubSeq(m, (k - 1) * BlockLen + 1, k * BlockLen)
<1>1. Len(m) \div BlockLen = top
  <2>1. 0 \in 0 .. BlockLen - 1
    BY BlockLenIs
  <2>2. (top * BlockLen + 0) \div BlockLen = top
    BY <2>1, BlockLenIs, Placed
  <2>3. top * BlockLen + 0 = top * BlockLen
    BY BlockLenIs
  <2> QED
    BY <2>2, <2>3
<1>2. Blocked(m) = [k \in 1 .. top |-> block(k)]
  BY <1>1 DEF Blocked
<1>3. ASSUME NEW k \in 1 .. top
      PROVE  /\ block(k) \in AllBlocks
             /\ \A i \in 1 .. BlockLen :
                  (k - 1) * BlockLen + i \in 1 .. Len(m) /\ block(k)[i] = m[(k - 1) * BlockLen + i]
  <2> DEFINE a == (k - 1) * BlockLen
             b == k * BlockLen
             all == top * BlockLen
             p == SubSeq(m, a + 1, b)
  <2>1. a \in Nat /\ b \in Nat /\ b = a + BlockLen /\ b <= all /\ Len(m) = all
    BY BlockPlaces
  <2>2. block(k) = p
    OBVIOUS
  <2> HIDE DEF a, b, all
  <2>3. a + 1 \in Nat \ {0} /\ b <= Len(m) /\ b - (a + 1) + 1 = BlockLen /\ a + 1 <= b /\ Len(m) \in Nat
    BY <2>1, BlockLenIs
  <2>4. /\ p \in Seq(AllBytes) /\ Len(p) = BlockLen
        /\ \A i \in 1 .. BlockLen : p[i] = m[(a + 1) + i - 1]
    <3>1. /\ p \in Seq(AllBytes) 
          /\ Len(p) = IF a + 1 <= b THEN b - (a + 1) + 1 ELSE 0
          /\ \A i \in 1 .. (b - (a + 1) + 1) : p[i] = m[(a + 1) + i - 1]
      BY <2>1, <2>3, Part
    <3> HIDE DEF p
    <3> QED
      BY <2>3, <3>1
  <2> HIDE DEF p
  <2>5. ASSUME NEW i \in 1 .. BlockLen PROVE a + i \in 1 .. Len(m) /\ p[i] = m[a + i]
    <3>1. (a + 1) + i - 1 = a + i /\ a + i \in 1 .. Len(m)
      BY <2>1, <2>3, BlockLenIs
    <3> QED
      BY <2>4, <3>1
  <2>6. p \in [1 .. BlockLen -> AllBytes]
    BY <2>4
  <2>7. block(k) \in AllBlocks
    BY <2>2, <2>6 DEF AllBlocks
  <2> QED
    BY <2>2, <2>5, <2>7 DEF a
<1> HIDE DEF block
<1>4. Blocked(m) \in [1 .. top -> AllBlocks]
  BY <1>2, <1>3
<1>5. Blocked(m) \in Seq(AllBlocks) /\ Len(Blocked(m)) = top
  BY <1>4, AsSeq
<1>6. \A k \in 1 .. top : Blocked(m)[k] = block(k)
  BY <1>2
<1> DEFINE x == Blocked(m)
<1>7. ASSUME NEW k \in 1 .. top
      PROVE  /\ x[k] \in AllBlocks
             /\ \A i \in 1 .. BlockLen :
                  (k - 1) * BlockLen + i \in 1 .. Len(m) /\ x[k][i] = m[(k - 1) * BlockLen + i]
  <2>1. x[k] = block(k)
    BY <1>6
  <2> HIDE DEF x
  <2> QED
    BY <1>3, <2>1, Zenon
<1> QED
  BY <1>5, <1>7

\* The bytes of the blocks of a padded message.
LEMMA PadInBlocks ==
  ASSUME NEW f \in HashFiles, NEW q \in Nat, NEW r \in 0 .. BlockLen - 1, NEW n,
         n = q * BlockLen + r,
         NEW top, top = (IF r + 1 <= MaxPad THEN q ELSE q + 1),
         NEW e, e = top * BlockLen + MaxPad, NEW i \in 1 .. BlockLen
  PROVE  /\ \A k \in 1 .. q : PadByte(f, n, e, (k - 1) * BlockLen + i) = Byte(f, (k - 1) * BlockLen + i)
         /\ PadByte(f, n, e, q * BlockLen + i) =
              IF i <= r THEN Byte(f, q * BlockLen + i)
              ELSE IF i = r + 1 THEN Mark
              ELSE IF top = q + 1 \/ i <= MaxPad THEN Byte("0x00", 0)
              ELSE LengthField(n)[i - MaxPad]
         /\ top = q + 1 =>
              PadByte(f, n, e, (q + 1) * BlockLen + i) =
                IF i <= MaxPad THEN Byte("0x00", 0) ELSE LengthField(n)[i - MaxPad]
<1> DEFINE first == q * BlockLen
           next == (q + 1) * BlockLen
<1>1. /\ first \in Nat /\ next = first + BlockLen /\ next \in Nat /\ n = first + r
      /\ i \in Nat /\ r \in Nat /\ i >= 1 /\ i <= BlockLen /\ r + 1 <= BlockLen
      /\ BlockLen \in Nat /\ MaxPad \in Nat /\ MaxPad < BlockLen
  BY BlockLenIs, MaxPadIs, BlockStep
<1>2. /\ r + 1 <= MaxPad => top = q /\ e = first + MaxPad
      /\ ~(r + 1 <= MaxPad) => top = q + 1 /\ e = next + MaxPad
      /\ top = q + 1 => ~(r + 1 <= MaxPad)
  OBVIOUS
<1>3. ASSUME NEW k \in 1 .. q
      PROVE  PadByte(f, n, e, (k - 1) * BlockLen + i) = Byte(f, (k - 1) * BlockLen + i)
  <2> DEFINE a == (k - 1) * BlockLen
             b == k * BlockLen
  <2>1. a \in Nat /\ b = a + BlockLen /\ b <= first
    BY BlockPlaces
  <2> HIDE DEF a, b, first, next
  <2>2. a + i <= n
    BY <1>1, <2>1
  <2>3. PadByte(f, n, e, a + i) = Byte(f, a + i)
    BY <2>2 DEF PadByte
  <2> QED
    BY <2>3 DEF a
<1> HIDE DEF first, next
<1>4. PadByte(f, n, e, first + i) =
        IF i <= r THEN Byte(f, first + i)
        ELSE IF i = r + 1 THEN Mark
        ELSE IF top = q + 1 \/ i <= MaxPad THEN Byte("0x00", 0)
        ELSE LengthField(n)[i - MaxPad]
  <2> DEFINE p == first + i
  <2>1. p <= n <=> i <= r
    BY <1>1
  <2>2. p = n + 1 <=> i = r + 1
    BY <1>1
  <2>3. top = q + 1 => p <= e
    BY <1>1, <1>2
  <2>4. top # q + 1 => e = first + MaxPad
    BY <1>2
  <2>5. top # q + 1 => (p <= e <=> i <= MaxPad) /\ p - e = i - MaxPad
    BY <1>1, <2>4
  <2> HIDE DEF p
  <2>6. PadByte(f, n, e, p) =
          IF i <= r THEN Byte(f, p)
          ELSE IF i = r + 1 THEN Mark
          ELSE IF top = q + 1 \/ i <= MaxPad THEN Byte("0x00", 0)
          ELSE LengthField(n)[i - MaxPad]
    BY <2>1, <2>2, <2>3, <2>5 DEF PadByte
  <2> QED
    BY <2>6 DEF p
<1>5. ASSUME top = q + 1
      PROVE  PadByte(f, n, e, next + i) =
               IF i <= MaxPad THEN Byte("0x00", 0) ELSE LengthField(n)[i - MaxPad]
  <2> DEFINE p == next + i
  <2>1. e = next + MaxPad
    BY <1>2, <1>5
  <2>2. ~(p <= n) /\ p # n + 1 /\ (p <= e <=> i <= MaxPad) /\ p - e = i - MaxPad
    BY <1>1, <2>1
  <2> HIDE DEF p
  <2>3. PadByte(f, n, e, p) = IF i <= MaxPad THEN Byte("0x00", 0) ELSE LengthField(n)[i - MaxPad]
    BY <2>2 DEF PadByte
  <2> QED
    BY <2>3 DEF p
<1> QED
  BY <1>3, <1>4, <1>5 DEF first, next

\* Zeros that are copied behind place at, up to place to.
LEMMA ZeroedTo ==
  ASSUME NEW buf \in AllBlocks, NEW at \in Nat, NEW to \in Nat, at <= to, to <= BlockLen
  PROVE  LET b == CopyTo(buf, at, Zeros(to - at))
         IN  /\ b \in AllBlocks
             /\ \A i \in 1 .. BlockLen :
                  b[i] = IF at < i /\ i <= to THEN Byte("0x00", 0) ELSE buf[i]
<1> DEFINE zeros == Zeros(to - at)
           b == CopyTo(buf, at, zeros)
           n == to - at
<1>1. n \in Nat
  OBVIOUS
<1>2. zeros \in Seq(AllBytes) /\ Len(zeros) = n /\ \A i \in 1 .. n : zeros[i] = Byte("0x00", 0)
  BY <1>1, ZerosAre
<1>3. /\ b \in AllBlocks
      /\ \A i \in 1 .. BlockLen :
           b[i] = IF i \in at + 1 .. at + Len(zeros) THEN zeros[i - at] ELSE buf[i]
  <2> HIDE DEF zeros
  <2> QED
    BY <1>2, Copied
<1> HIDE DEF b, zeros
<1>4. ASSUME NEW i \in 1 .. BlockLen
      PROVE  b[i] = IF at < i /\ i <= to THEN Byte("0x00", 0) ELSE buf[i]
  <2>1. i \in Nat /\ BlockLen \in Nat
    BY BlockLenIs
  <2>2. (i \in at + 1 .. at + Len(zeros)) <=> (at < i /\ i <= to)
    BY <1>1, <1>2, <2>1
  <2>3. at < i /\ i <= to => i - at \in 1 .. n
    BY <2>1
  <2> QED
    BY <1>2, <1>3, <2>2, <2>3
<1> QED
  BY <1>3, <1>4 DEF b, zeros

\* The length at the end of a block.
LEMMA LengthPut ==
  ASSUME NEW buf \in AllBlocks, NEW n \in Nat
  PROVE  LET b == CopyTo(buf, MaxPad, LengthField(n))
         IN  /\ b \in AllBlocks
             /\ \A i \in 1 .. BlockLen :
                  b[i] = IF i <= MaxPad THEN buf[i] ELSE LengthField(n)[i - MaxPad]
<1> DEFINE field == LengthField(n)
           b == CopyTo(buf, MaxPad, field)
<1>1. field \in Seq(AllBytes) /\ Len(field) = BlockLen - MaxPad
  BY LengthFieldIs
<1>2. /\ b \in AllBlocks
      /\ \A i \in 1 .. BlockLen :
           b[i] = IF i \in MaxPad + 1 .. MaxPad + Len(field) THEN field[i - MaxPad] ELSE buf[i]
  <2> HIDE DEF field
  <2> QED
    BY <1>1, MaxPadIs, Copied
<1> HIDE DEF b, field
<1>3. ASSUME NEW i \in 1 .. BlockLen
      PROVE  b[i] = IF i <= MaxPad THEN buf[i] ELSE field[i - MaxPad]
  <2>1. (i \in MaxPad + 1 .. MaxPad + Len(field)) <=> ~(i <= MaxPad)
    BY <1>1, MaxPadIs, BlockLenIs
  <2> QED
    BY <1>2, <2>1
<1> QED
  BY <1>2, <1>3 DEF b, field

\* The mark behind the bytes that wait.
LEMMA Marked ==
  ASSUME NEW buf \in AllBlocks, NEW r \in 0 .. BlockLen - 1
  PROVE  LET b == CopyTo(buf, r, <<Mark>>)
         IN  /\ b \in AllBlocks
             /\ \A i \in 1 .. BlockLen : b[i] = IF i = r + 1 THEN Mark ELSE buf[i]
<1> DEFINE mark == <<Mark>>
           b == CopyTo(buf, r, mark)
<1>1. mark \in Seq(AllBytes) /\ Len(mark) = 1 /\ mark[1] = Mark
  <2>1. Mark \in AllBytes
    BY DEF Mark, Byte, AllBytes
  <2> QED
    BY <2>1
<1>2. r \in Nat /\ BlockLen \in Nat
  BY BlockLenIs
<1>3. /\ b \in AllBlocks
      /\ \A i \in 1 .. BlockLen :
           b[i] = IF i \in r + 1 .. r + Len(mark) THEN mark[i - r] ELSE buf[i]
  <2> HIDE DEF mark
  <2> QED
    BY <1>1, <1>2, Copied
<1> HIDE DEF b, mark
<1>4. ASSUME NEW i \in 1 .. BlockLen PROVE b[i] = IF i = r + 1 THEN Mark ELSE buf[i]
  <2>1. (i \in r + 1 .. r + Len(mark)) <=> i = r + 1
    BY <1>1, <1>2
  <2>2. i = r + 1 => i - r = 1
    BY <1>2
  <2> QED
    BY <1>1, <1>3, <2>1, <2>2
<1> QED
  BY <1>3, <1>4 DEF b, mark

\* Two blocks with the same bytes.
LEMMA SameBlock ==
  ASSUME NEW x \in AllBlocks, NEW y \in AllBlocks, \A i \in 1 .. BlockLen : x[i] = y[i]
  PROVE  x = y
<1>1. x = [i \in 1 .. BlockLen |-> x[i]] /\ y = [i \in 1 .. BlockLen |-> y[i]]
  BY DEF AllBlocks
<1>2. [i \in 1 .. BlockLen |-> x[i]] = [i \in 1 .. BlockLen |-> y[i]]
  OBVIOUS
<1> QED
  BY <1>1, <1>2

\* The block with the end of the message, and the one after it when the length has
\* no room there.
EndByte(f, n, q, r, top, i) ==
  IF i <= r THEN Byte(f, q * BlockLen + i)
  ELSE IF i = r + 1 THEN Mark
  ELSE IF top = q + 1 \/ i <= MaxPad THEN Byte("0x00", 0)
  ELSE LengthField(n)[i - MaxPad]
NextByte(n, i) == IF i <= MaxPad THEN Byte("0x00", 0) ELSE LengthField(n)[i - MaxPad]

\* The blocks of a padded message.
EndsIn(x, f, n, q, r, top) ==
  /\ x \in Seq(AllBlocks) /\ Len(x) = top + 1
  /\ \A k \in 1 .. q : x[k] = BlocksTo(f, q)[k]
  /\ x[q + 1] \in AllBlocks
  /\ \A i \in 1 .. BlockLen : x[q + 1][i] = EndByte(f, n, q, r, top, i)
  /\ top = q + 1 =>
       x[q + 2] \in AllBlocks /\ \A i \in 1 .. BlockLen : x[q + 2][i] = NextByte(n, i)

LEMMA PaddedEnds ==
  ASSUME NEW f \in HashFiles, NEW q \in Nat, NEW r \in 0 .. BlockLen - 1, NEW n,
         n = q * BlockLen + r,
         NEW top, top = (IF r + 1 <= MaxPad THEN q ELSE q + 1)
  PROVE  EndsIn(Blocked(Padded(Message(f, n))), f, n, q, r, top)
<1> DEFINE e == top * BlockLen + MaxPad
           m == Padded(Message(f, n))
           x == Blocked(m)
<1>1. e = top * BlockLen + MaxPad
  OBVIOUS
<1> HIDE DEF e
<1>2. IsPadded(m, f, n, e) /\ Len(m) = (top + 1) * BlockLen
  <2>1. PadEnds(n, q, r, top, e)
    BY <1>1 DEF PadEnds
  <2> QED
    BY <2>1, PaddedIs
<1>3. top \in Nat /\ top + 1 \in Nat /\ q <= top
  OBVIOUS
<1>4. m \in Seq(AllBytes) /\ \A p \in 1 .. Len(m) : m[p] = PadByte(f, n, e, p)
  BY <1>2 DEF IsPadded
<1> HIDE DEF m
<1>5. /\ x \in Seq(AllBlocks) /\ Len(x) = top + 1
      /\ \A k \in 1 .. top + 1 : x[k] \in AllBlocks
      /\ \A k \in 1 .. top + 1, i \in 1 .. BlockLen :
           (k - 1) * BlockLen + i \in 1 .. Len(m) /\ x[k][i] = m[(k - 1) * BlockLen + i]
  BY <1>2, <1>3, <1>4, BlockedIs
<1> HIDE DEF x
<1>6. \A k \in 1 .. top + 1, i \in 1 .. BlockLen : x[k][i] = PadByte(f, n, e, (k - 1) * BlockLen + i)
  BY <1>4, <1>5, Zenon
<1>7. ASSUME NEW i \in 1 .. BlockLen
      PROVE  /\ \A k \in 1 .. q : PadByte(f, n, e, (k - 1) * BlockLen + i) = Byte(f, (k - 1) * BlockLen + i)
             /\ PadByte(f, n, e, q * BlockLen + i) = EndByte(f, n, q, r, top, i)
             /\ top = q + 1 => PadByte(f, n, e, (q + 1) * BlockLen + i) = NextByte(n, i)
  BY <1>1, PadInBlocks DEF EndByte, NextByte
<1>8. ASSUME NEW k \in 1 .. q PROVE x[k] = BlocksTo(f, q)[k]
  <2> DEFINE y == BlocksTo(f, q)[k]
  <2>1. k \in 1 .. top + 1
    BY <1>3
  <2>2. x[k] \in AllBlocks
    BY <1>5, <2>1
  <2>3. y \in AllBlocks
    BY BlocksAre
  <2>4. \A i \in 1 .. BlockLen : y[i] = Byte(f, (k - 1) * BlockLen + i)
    BY DEF BlocksTo
  <2> HIDE DEF y
  <2>5. \A i \in 1 .. BlockLen : x[k][i] = y[i]
    BY <1>6, <1>7, <2>1, <2>4, Zenon
  <2>6. x[k] = y
    BY <2>2, <2>3, <2>5, SameBlock
  <2> QED
    BY <2>6 DEF y
<1>9. x[q + 1] \in AllBlocks /\ \A i \in 1 .. BlockLen : x[q + 1][i] = EndByte(f, n, q, r, top, i)
  <2>1. q + 1 \in 1 .. top + 1 /\ (q + 1) - 1 = q
    BY <1>3
  <2>2. \A i \in 1 .. BlockLen : x[q + 1][i] = PadByte(f, n, e, ((q + 1) - 1) * BlockLen + i)
    BY <1>6, <2>1, Zenon
  <2>3. \A i \in 1 .. BlockLen : x[q + 1][i] = PadByte(f, n, e, q * BlockLen + i)
    BY <2>1, <2>2
  <2> QED
    BY <1>5, <1>7, <2>1, <2>3
<1>10. top = q + 1 =>
         x[q + 2] \in AllBlocks /\ \A i \in 1 .. BlockLen : x[q + 2][i] = NextByte(n, i)
  <2> SUFFICES ASSUME top = q + 1
               PROVE  x[q + 2] \in AllBlocks /\ \A i \in 1 .. BlockLen : x[q + 2][i] = NextByte(n, i)
    OBVIOUS
  <2>1. q + 2 \in 1 .. top + 1 /\ (q + 2) - 1 = q + 1
    BY <1>3
  <2>2. \A i \in 1 .. BlockLen : x[q + 2][i] = PadByte(f, n, e, ((q + 2) - 1) * BlockLen + i)
    BY <1>6, <2>1, Zenon
  <2>3. \A i \in 1 .. BlockLen : x[q + 2][i] = PadByte(f, n, e, (q + 1) * BlockLen + i)
    BY <2>1, <2>2
  <2> QED
    BY <1>5, <1>7, <2>1, <2>3
<1>11. EndsIn(x, f, n, q, r, top)
  BY <1>5, <1>8, <1>9, <1>10 DEF EndsIn
<1> QED
  BY <1>11 DEF x, m

\* One block is appended to the blocks of the message.
LEMMA OneMore ==
  ASSUME NEW f \in HashFiles, NEW q \in Nat, NEW x \in Seq(AllBlocks), Len(x) = q + 1,
         \A k \in 1 .. q : x[k] = BlocksTo(f, q)[k], NEW b \in AllBlocks, x[q + 1] = b
  PROVE  md5_round(BlocksTo(f, q), b) = x
<1> DEFINE u == BlocksTo(f, q)
           w == Append(u, b)
<1>1. u \in Seq(AllBlocks) /\ Len(u) = q
  BY BlocksAre
<1> HIDE DEF u
<1>2. w \in Seq(AllBlocks) /\ Len(w) = q + 1 /\ w[q + 1] = b /\ \A k \in 1 .. q : w[k] = u[k]
  BY <1>1
<1>3. \A k \in 1 .. q : x[k] = u[k]
  BY DEF u
<1> HIDE DEF w
<1>4. \A k \in 1 .. q + 1 : k \in 1 .. q \/ k = q + 1
  OBVIOUS
<1>5. \A k \in 1 .. q + 1 : w[k] = x[k]
  BY <1>2, <1>3, <1>4
<1>6. w = x
  BY <1>2, <1>5
<1> QED
  BY <1>6 DEF w, u, md5_round

\* Two blocks are.
LEMMA TwoMore ==
  ASSUME NEW f \in HashFiles, NEW q \in Nat, NEW x \in Seq(AllBlocks), Len(x) = q + 2,
         \A k \in 1 .. q : x[k] = BlocksTo(f, q)[k],
         NEW a \in AllBlocks, x[q + 1] = a, NEW b \in AllBlocks, x[q + 2] = b
  PROVE  md5_round(md5_round(BlocksTo(f, q), a), b) = x
<1> DEFINE u == BlocksTo(f, q)
           v == Append(u, a)
           w == Append(v, b)
<1>1. u \in Seq(AllBlocks) /\ Len(u) = q
  BY BlocksAre
<1> HIDE DEF u
<1>2. v \in Seq(AllBlocks) /\ Len(v) = q + 1 /\ v[q + 1] = a /\ \A k \in 1 .. q : v[k] = u[k]
  BY <1>1
<1>3. \A k \in 1 .. q : x[k] = u[k]
  BY DEF u
<1> HIDE DEF v
<1>4. w \in Seq(AllBlocks) /\ Len(w) = q + 2 /\ w[q + 2] = b /\ \A k \in 1 .. q + 1 : w[k] = v[k]
  BY <1>2
<1> HIDE DEF w
<1>5. \A k \in 1 .. q + 2 : k \in 1 .. q \/ k = q + 1 \/ k = q + 2
  OBVIOUS
<1>6. \A k \in 1 .. q : k \in 1 .. q + 1
  OBVIOUS
<1>7. q + 1 \in 1 .. q + 1
  OBVIOUS
<1>8. \A k \in 1 .. q + 2 : w[k] = x[k]
  BY <1>2, <1>3, <1>4, <1>5, <1>6, <1>7
<1>9. w = x
  BY <1>4, <1>8
<1> QED
  BY <1>9 DEF w, v, u, md5_round

\* The end of the computation when the length has room in the block.
LEMMA CloseInOne ==
  ASSUME NEW f \in HashFiles, NEW q \in Nat, NEW r \in 0 .. BlockLen - 1, r + 1 <= MaxPad,
         NEW n \in Nat, NEW buf \in AllBlocks,
         \A i \in 1 .. r : buf[i] = Byte(f, q * BlockLen + i),
         NEW x, EndsIn(x, f, n, q, r, q)
  PROVE  LET marked == CopyTo(buf, r, <<Mark>>)
             zeroed == CopyTo(marked, r + 1, Zeros(MaxPad - (r + 1)))
         IN  md5_round(BlocksTo(f, q), CopyTo(zeroed, MaxPad, LengthField(n))) = x
<1> DEFINE marked == CopyTo(buf, r, <<Mark>>)
           zeroed == CopyTo(marked, r + 1, Zeros(MaxPad - (r + 1)))
           final == CopyTo(zeroed, MaxPad, LengthField(n))
<1>1. marked \in AllBlocks /\ \A i \in 1 .. BlockLen : marked[i] = IF i = r + 1 THEN Mark ELSE buf[i]
  BY Marked
<1>2. r \in Nat /\ r + 1 \in Nat /\ MaxPad \in Nat /\ MaxPad <= BlockLen /\ BlockLen \in Nat
  BY MaxPadIs, BlockLenIs
<1> HIDE DEF marked
<1>3. /\ zeroed \in AllBlocks
      /\ \A i \in 1 .. BlockLen :
           zeroed[i] = IF r + 1 < i /\ i <= MaxPad THEN Byte("0x00", 0) ELSE marked[i]
  BY <1>1, <1>2, ZeroedTo
<1> HIDE DEF zeroed
<1>4. /\ final \in AllBlocks
      /\ \A i \in 1 .. BlockLen :
           final[i] = IF i <= MaxPad THEN zeroed[i] ELSE LengthField(n)[i - MaxPad]
  BY <1>3, LengthPut
<1> HIDE DEF final
<1>5. ASSUME NEW i \in 1 .. BlockLen PROVE final[i] = EndByte(f, n, q, r, q, i)
  <2>0. i \in Nat /\ q # q + 1
    BY <1>2
  <2>1. CASE i <= r
    <3>1. i <= MaxPad /\ i # r + 1 /\ ~(r + 1 < i) /\ i \in 1 .. r
      BY <1>2, <2>0, <2>1
    <3> QED
      BY <1>1, <1>3, <1>4, <2>1, <3>1, Zenon DEF EndByte
  <2>2. CASE i = r + 1
    <3>1. i <= MaxPad /\ ~(i <= r) /\ ~(r + 1 < i)
      BY <1>2, <2>0, <2>2
    <3> QED
      BY <1>1, <1>3, <1>4, <2>2, <3>1, Zenon DEF EndByte
  <2>3. CASE r + 1 < i
    <3>1. ~(i <= r) /\ i # r + 1
      BY <1>2, <2>0, <2>3
    <3> QED
      BY <1>3, <1>4, <2>0, <2>3, <3>1, Zenon DEF EndByte
  <2> QED
    BY <1>2, <2>0, <2>1, <2>2, <2>3
<1>6. final = x[q + 1]
  <2>1. x[q + 1] \in AllBlocks /\ \A i \in 1 .. BlockLen : x[q + 1][i] = EndByte(f, n, q, r, q, i)
    BY DEF EndsIn
  <2> DEFINE y == x[q + 1]
  <2>2. y \in AllBlocks /\ \A i \in 1 .. BlockLen : final[i] = y[i]
    BY <1>5, <2>1
  <2> HIDE DEF y
  <2>3. final = y
    BY <1>4, <2>2, SameBlock
  <2> QED
    BY <2>3 DEF y
<1>7. x \in Seq(AllBlocks) /\ Len(x) = q + 1 /\ \A k \in 1 .. q : x[k] = BlocksTo(f, q)[k]
  BY DEF EndsIn
<1>8. md5_round(BlocksTo(f, q), final) = x
  BY <1>4, <1>6, <1>7, OneMore
<1> QED
  BY <1>8 DEF final, zeroed, marked

\* And when it goes into one more.
LEMMA CloseInTwo ==
  ASSUME NEW f \in HashFiles, NEW q \in Nat, NEW r \in 0 .. BlockLen - 1, ~(r + 1 <= MaxPad),
         NEW n \in Nat, NEW buf \in AllBlocks,
         \A i \in 1 .. r : buf[i] = Byte(f, q * BlockLen + i),
         NEW x, EndsIn(x, f, n, q, r, q + 1)
  PROVE  LET marked == CopyTo(buf, r, <<Mark>>)
             full == CopyTo(marked, r + 1, Zeros(BlockLen - (r + 1)))
             zeroed == CopyTo(full, 0, Zeros(MaxPad))
         IN  md5_round(md5_round(BlocksTo(f, q), full), CopyTo(zeroed, MaxPad, LengthField(n))) = x
<1> DEFINE marked == CopyTo(buf, r, <<Mark>>)
           full == CopyTo(marked, r + 1, Zeros(BlockLen - (r + 1)))
           zeroed == CopyTo(full, 0, Zeros(MaxPad))
           final == CopyTo(zeroed, MaxPad, LengthField(n))
<1>1. marked \in AllBlocks /\ \A i \in 1 .. BlockLen : marked[i] = IF i = r + 1 THEN Mark ELSE buf[i]
  BY Marked
<1>2. /\ r \in Nat /\ r + 1 \in Nat /\ MaxPad \in Nat /\ MaxPad <= BlockLen /\ BlockLen \in Nat
      /\ r + 1 <= BlockLen /\ BlockLen <= BlockLen
  BY MaxPadIs, BlockLenIs
<1> HIDE DEF marked
<1>3. /\ full \in AllBlocks
      /\ \A i \in 1 .. BlockLen :
           full[i] = IF r + 1 < i /\ i <= BlockLen THEN Byte("0x00", 0) ELSE marked[i]
  BY <1>1, <1>2, ZeroedTo
<1> HIDE DEF full
<1>4. /\ zeroed \in AllBlocks
      /\ \A i \in 1 .. BlockLen : i <= MaxPad => zeroed[i] = Byte("0x00", 0)
  <2>1. ASSUME NEW at \in Nat, at = 0
        PROVE  LET z == CopyTo(full, at, Zeros(MaxPad - at))
               IN  /\ z \in AllBlocks
                   /\ \A i \in 1 .. BlockLen :
                        z[i] = IF at < i /\ i <= MaxPad THEN Byte("0x00", 0) ELSE full[i]
    <3>1. at <= MaxPad
      BY <1>2, <2>1
    <3> QED
      BY <1>2, <1>3, <3>1, ZeroedTo
  <2>2. MaxPad - 0 = MaxPad
    BY <1>2
  <2>3. /\ zeroed \in AllBlocks
        /\ \A i \in 1 .. BlockLen :
             zeroed[i] = IF 0 < i /\ i <= MaxPad THEN Byte("0x00", 0) ELSE full[i]
    BY <2>1, <2>2
  <2> HIDE DEF zeroed
  <2> QED
    BY <2>3
<1> HIDE DEF zeroed
<1>5. /\ final \in AllBlocks
      /\ \A i \in 1 .. BlockLen :
           final[i] = IF i <= MaxPad THEN zeroed[i] ELSE LengthField(n)[i - MaxPad]
  BY <1>4, LengthPut
<1> HIDE DEF final
<1>6. ASSUME NEW i \in 1 .. BlockLen PROVE full[i] = EndByte(f, n, q, r, q + 1, i)
  <2>0. i \in Nat /\ i <= BlockLen
    BY <1>2
  <2>1. CASE i <= r
    <3>1. i # r + 1 /\ ~(r + 1 < i) /\ i \in 1 .. r
      BY <1>2, <2>0, <2>1
    <3> QED
      BY <1>1, <1>3, <2>1, <3>1, Zenon DEF EndByte
  <2>2. CASE i = r + 1
    <3>1. ~(i <= r) /\ ~(r + 1 < i)
      BY <1>2, <2>0, <2>2
    <3> QED
      BY <1>1, <1>3, <2>2, <3>1, Zenon DEF EndByte
  <2>3. CASE r + 1 < i
    <3>1. ~(i <= r) /\ i # r + 1
      BY <1>2, <2>0, <2>3
    <3> QED
      BY <1>3, <2>0, <2>3, <3>1, Zenon DEF EndByte
  <2> QED
    BY <1>2, <2>0, <2>1, <2>2, <2>3
<1>7. ASSUME NEW i \in 1 .. BlockLen PROVE final[i] = NextByte(n, i)
  BY <1>4, <1>5, Zenon DEF NextByte
<1> DEFINE y == x[q + 1]
           z == x[q + 2]
<1>8. /\ y \in AllBlocks /\ \A i \in 1 .. BlockLen : y[i] = EndByte(f, n, q, r, q + 1, i)
      /\ z \in AllBlocks /\ \A i \in 1 .. BlockLen : z[i] = NextByte(n, i)
  BY DEF EndsIn
<1>9. x \in Seq(AllBlocks) /\ Len(x) = q + 2 /\ \A k \in 1 .. q : x[k] = BlocksTo(f, q)[k]
  <2>1. (q + 1) + 1 = q + 2
    OBVIOUS
  <2> QED
    BY <2>1 DEF EndsIn
<1>10. y = x[q + 1] /\ z = x[q + 2]
  OBVIOUS
<1> HIDE DEF y, z
<1>11. full = y
  <2>1. \A i \in 1 .. BlockLen : full[i] = y[i]
    BY <1>6, <1>8
  <2> QED
    BY <1>3, <1>8, <2>1, SameBlock
<1>12. final = z
  <2>1. \A i \in 1 .. BlockLen : final[i] = z[i]
    BY <1>7, <1>8
  <2> QED
    BY <1>5, <1>8, <2>1, SameBlock
<1>13. md5_round(md5_round(BlocksTo(f, q), full), final) = x
  BY <1>3, <1>5, <1>9, <1>10, <1>11, <1>12, TwoMore
<1> QED
  BY <1>13 DEF final, zeroed, full, marked

\* md5_close compresses what is left of the padded message.
LEMMA CloseIs ==
  ASSUME NEW f \in HashFiles, NEW n \in Nat, NEW c, Digested(c, f, n)
  PROVE  md5_close(c) = Blocked(Padded(Message(f, n)))
<1>1. PICK q \in Nat, r \in 0 .. BlockLen - 1 : n = q * BlockLen + r
  BY BlockLenIs, Place
<1>2. /\ c.val = BlocksTo(f, q) /\ c.count % BlockLen = r
      /\ \A i \in 1 .. r : c.buf[i] = Byte(f, q * BlockLen + i)
  <2>1. BytesAre(n, q, r)
    BY <1>1 DEF BytesAre
  <2> QED
    BY <2>1, DigestedAt
<1>3. c.count = n /\ c.buf \in AllBlocks
  BY DEF Digested, Contexts
<1> DEFINE x == Blocked(Padded(Message(f, n)))
           top == IF r + 1 <= MaxPad THEN q ELSE q + 1
<1>4. EndsIn(x, f, n, q, r, top)
  BY <1>1, PaddedEnds
<1> HIDE DEF x
<1>5. CASE r + 1 <= MaxPad
  <2>1. EndsIn(x, f, n, q, r, q)
    BY <1>4, <1>5
  <2>2. md5_round(BlocksTo(f, q),
          CopyTo(CopyTo(CopyTo(c.buf, r, <<Mark>>), r + 1, Zeros(MaxPad - (r + 1))), MaxPad, LengthField(n))) = x
    BY <1>2, <1>3, <1>5, <2>1, CloseInOne
  <2>3. ~(r + 1 > MaxPad) /\ (r + 1) - 1 = r
    BY <1>5, MaxPadIs, BlockLenIs
  <2>4. md5_close(c) = x
    BY <1>2, <1>3, <2>2, <2>3 DEF md5_close
  <2> QED
    BY <2>4 DEF x
<1>6. CASE ~(r + 1 <= MaxPad)
  <2>1. EndsIn(x, f, n, q, r, q + 1)
    BY <1>4, <1>6
  <2> DEFINE full == CopyTo(CopyTo(c.buf, r, <<Mark>>), r + 1, Zeros(BlockLen - (r + 1)))
  <2>2. md5_round(md5_round(BlocksTo(f, q), full),
          CopyTo(CopyTo(full, 0, Zeros(MaxPad)), MaxPad, LengthField(n))) = x
    BY <1>2, <1>3, <1>6, <2>1, CloseInTwo
  <2>3. r + 1 > MaxPad /\ (r + 1) - 1 = r
    BY <1>6, MaxPadIs, BlockLenIs
  <2>4. md5_close(c) = x
    BY <1>2, <1>3, <2>2, <2>3 DEF md5_close
  <2> QED
    BY <2>4 DEF x
<1> QED
  BY <1>5, <1>6

-----------------------------------------------------------------------------
(* Hashes tell messages apart.                                              *)

\* The blocks of a sequence tell its bytes.
LEMMA BlockedTells ==
  ASSUME NEW a \in Seq(AllBytes), NEW b \in Seq(AllBytes), NEW i \in Nat, NEW j \in Nat,
         Len(a) = i * BlockLen, Len(b) = j * BlockLen, Blocked(a) = Blocked(b)
  PROVE  Len(a) = Len(b) /\ \A p \in 1 .. Len(a) : a[p] = b[p]
<1> DEFINE x == Blocked(a)
           y == Blocked(b)
<1>1. /\ Len(x) = i
      /\ \A k \in 1 .. i, s \in 1 .. BlockLen : x[k][s] = a[(k - 1) * BlockLen + s]
  BY BlockedIs
<1>2. /\ Len(y) = j
      /\ \A k \in 1 .. j, s \in 1 .. BlockLen : y[k][s] = b[(k - 1) * BlockLen + s]
  BY BlockedIs
<1>3. x = y
  OBVIOUS
<1> HIDE DEF x, y
<1>4. i = j
  BY <1>1, <1>2, <1>3
<1>5. Len(a) = Len(b)
  BY <1>4
<1>6. ASSUME NEW p \in 1 .. Len(a) PROVE a[p] = b[p]
  <2>1. p - 1 \in Nat /\ p \in Nat /\ Len(a) \in Nat /\ p <= Len(a)
    OBVIOUS
  <2>2. PICK q \in Nat, t \in 0 .. BlockLen - 1 : p - 1 = q * BlockLen + t
    <3> DEFINE n == p - 1
    <3>1. n \in Nat
      BY <2>1
    <3> HIDE DEF n
    <3>2. \E q \in Nat, t \in 0 .. BlockLen - 1 : n = q * BlockLen + t
      BY <3>1, BlockLenIs, Place
    <3> QED
      BY <3>2 DEF n
  <2>3. q + 1 \in 1 .. i
    <3>1. CASE i <= q
      <4> DEFINE u == i * BlockLen
                 v == q * BlockLen
      <4>1. u <= v /\ u \in Int /\ v \in Int
        BY <3>1, BlockLenIs, BlockOrder
      <4>2. Len(a) = u /\ p - 1 = v + t /\ t \in Nat
        BY <2>2, BlockLenIs
      <4> HIDE DEF u, v
      <4>3. FALSE
        BY <2>1, <4>1, <4>2
      <4> QED
        BY <4>3
    <3>2. CASE ~(i <= q)
      BY <3>2
    <3> QED
      BY <3>1, <3>2
  <2>4. t + 1 \in 1 .. BlockLen /\ (q + 1) - 1 = q
    BY BlockLenIs
  <2> DEFINE v == q * BlockLen
  <2>5. v + (t + 1) = p
    <3>1. v \in Int /\ p - 1 = v + t /\ t \in Int
      BY <2>2, BlockLenIs
    <3> HIDE DEF v
    <3> QED
      BY <2>1, <3>1
  <2>6. x[q + 1][t + 1] = a[((q + 1) - 1) * BlockLen + (t + 1)]
    BY <1>1, <2>3, <2>4
  <2>7. y[q + 1][t + 1] = b[((q + 1) - 1) * BlockLen + (t + 1)]
    BY <1>2, <1>4, <2>3, <2>4
  <2>8. x[q + 1][t + 1] = a[v + (t + 1)] /\ y[q + 1][t + 1] = b[v + (t + 1)]
    BY <2>4, <2>6, <2>7
  <2> HIDE DEF v
  <2> QED
    BY <1>3, <2>5, <2>8
<1> QED
  BY <1>5, <1>6

\* The mark is none of the bytes of a file.
LEMMA MarkIsNone == ASSUME NEW f, NEW p, p # 0 PROVE Byte(f, p) # Mark
  BY DEF Byte, Mark

\* The padded message tells the bytes of the message, and how many they are.
LEMMA PaddedTells ==
  ASSUME NEW f \in HashFiles, NEW m \in Nat, NEW g \in HashFiles, NEW n \in Nat,
         Blocked(Padded(Message(f, m))) = Blocked(Padded(Message(g, n)))
  PROVE  Message(f, m) = Message(g, n)
<1> DEFINE a == Padded(Message(f, m))
           b == Padded(Message(g, n))
<1>1. ASSUME NEW h \in HashFiles, NEW k \in Nat
      PROVE  \E i \in Nat, e \in Nat :
               /\ IsPadded(Padded(Message(h, k)), h, k, e)
               /\ Len(Padded(Message(h, k))) = i * BlockLen /\ k + 1 <= e
  <2>1. PICK q \in Nat, r \in 0 .. BlockLen - 1 : k = q * BlockLen + r
    BY BlockLenIs, Place
  <2> DEFINE top == IF r + 1 <= MaxPad THEN q ELSE q + 1
             e == top * BlockLen + MaxPad
  <2>2. top = (IF r + 1 <= MaxPad THEN q ELSE q + 1) /\ top \in Nat /\ top + 1 \in Nat
    OBVIOUS
  <2>3. e = top * BlockLen + MaxPad /\ e \in Nat
    <3> HIDE DEF top
    <3>1. top * BlockLen \in Nat
      BY <2>2, BlockLenIs
    <3> QED
      BY <3>1, MaxPadIs
  <2> HIDE DEF top, e
  <2>4. /\ IsPadded(Padded(Message(h, k)), h, k, e)
        /\ Len(Padded(Message(h, k))) = (top + 1) * BlockLen /\ k + 1 <= e
    <3>1. PadEnds(k, q, r, top, e)
      BY <2>1, <2>2, <2>3 DEF PadEnds
    <3> QED
      BY <3>1, PaddedIs
  <2> QED
    BY <2>2, <2>3, <2>4
<1>2. PICK i \in Nat, d \in Nat : IsPadded(a, f, m, d) /\ Len(a) = i * BlockLen /\ m + 1 <= d
  BY <1>1
<1>3. PICK j \in Nat, e \in Nat : IsPadded(b, g, n, e) /\ Len(b) = j * BlockLen /\ n + 1 <= e
  BY <1>1
<1>4. Blocked(a) = Blocked(b)
  OBVIOUS
<1> HIDE DEF a, b
<1>5. /\ a \in Seq(AllBytes) /\ Len(a) = d + (BlockLen - MaxPad)
      /\ \A p \in 1 .. Len(a) : a[p] = PadByte(f, m, d, p)
  BY <1>2 DEF IsPadded
<1>6. /\ b \in Seq(AllBytes) /\ Len(b) = e + (BlockLen - MaxPad)
      /\ \A p \in 1 .. Len(b) : b[p] = PadByte(g, n, e, p)
  BY <1>3 DEF IsPadded
<1>7. Len(a) = Len(b) /\ \A p \in 1 .. Len(a) : a[p] = b[p]
  BY <1>2, <1>3, <1>4, <1>5, <1>6, BlockedTells
<1>8. m + 1 \in 1 .. Len(a) /\ n + 1 \in 1 .. Len(a)
  <2>1. Len(a) = d + (BlockLen - MaxPad) /\ Len(a) = e + (BlockLen - MaxPad)
    BY <1>5, <1>6, <1>7
  <2>2. m + 1 <= d /\ n + 1 <= e
    BY <1>2, <1>3
  <2> QED
    BY <2>1, <2>2, MaxPadIs
<1>9. ~(m < n)
  <2> SUFFICES ASSUME m < n PROVE FALSE
    OBVIOUS
  <2>1. m + 1 <= n /\ ~(m + 1 <= m) /\ m + 1 # 0
    OBVIOUS
  <2>2. a[m + 1] = Mark /\ b[m + 1] = Byte(g, m + 1)
    BY <1>5, <1>6, <1>7, <1>8, <2>1 DEF PadByte
  <2> QED
    BY <1>7, <1>8, <2>1, <2>2, MarkIsNone
<1>10. ~(n < m)
  <2> SUFFICES ASSUME n < m PROVE FALSE
    OBVIOUS
  <2>1. n + 1 <= m /\ ~(n + 1 <= n) /\ n + 1 # 0
    OBVIOUS
  <2>2. b[n + 1] = Mark /\ a[n + 1] = Byte(f, n + 1)
    BY <1>5, <1>6, <1>7, <1>8, <2>1 DEF PadByte
  <2> QED
    BY <1>7, <1>8, <2>1, <2>2, MarkIsNone
<1>11. m = n
  BY <1>9, <1>10
<1>12. ASSUME NEW p \in 1 .. m PROVE Byte(f, p) = Byte(g, p)
  <2>1. p \in 1 .. Len(a) /\ p <= m /\ p <= n
    BY <1>8, <1>11
  <2>2. a[p] = Byte(f, p) /\ b[p] = Byte(g, p)
    BY <1>5, <1>6, <1>7, <2>1 DEF PadByte
  <2> QED
    BY <1>7, <2>1, <2>2
<1> QED
  BY <1>11, <1>12 DEF Message

\* A hash tells the blocks that went into it.
LEMMA HashTells ==
  ASSUME NEW v, NEW w, HashOf(v) = HashOf(w)
  PROVE  v = w
<1>1. 1 \in 1 .. HashSize
  BY ChecksumAssumption
<1>2. HashOf(v)[1][1] = <<v, 1, "high">> /\ HashOf(w)[1][1] = <<w, 1, "high">>
  BY <1>1 DEF HashOf
<1>3. <<v, 1, "high">> = <<w, 1, "high">>
  BY <1>2
<1> QED
  BY <1>3

\* The text of a hash is read as that hash.
LEMMA TextIsHash ==
  ASSUME NEW v, NEW case
  PROVE  convertHashStringToBinary(md5_toString(HashOf(v), case)) = HashOf(v)
<1> DEFINE h == HashOf(v)
           text == md5_toString(h, case)
<1>1. ASSUME NEW i \in 1 .. HashSize PROVE hexToBin(text[2 * i - 1], text[2 * i]) = h[i]
  <2>1. /\ 2 * i - 1 \in 1 .. 2 * HashSize /\ 2 * i \in 1 .. 2 * HashSize
        /\ ((2 * i - 1) + 1) \div 2 = i /\ (2 * i + 1) \div 2 = i
        /\ (2 * i - 1) % 2 = 1 /\ (2 * i) % 2 = 0
    BY ChecksumAssumption
  <2>2. h[i] = << <<v, i, "high">>, <<v, i, "low">> >>
    BY DEF HashOf
  <2> HIDE DEF h
  <2>3. text[2 * i - 1].digit = h[((2 * i - 1) + 1) \div 2][2 - ((2 * i - 1) % 2)]
    BY <2>1 DEF md5_toString
  <2>4. text[2 * i].digit = h[(2 * i + 1) \div 2][2 - ((2 * i) % 2)]
    BY <2>1 DEF md5_toString
  <2>5. 2 - 1 = 1 /\ 2 - 0 = 2
    OBVIOUS
  <2>6. text[2 * i - 1].digit = h[i][1]
    BY <2>1, <2>3, <2>5
  <2>7. text[2 * i].digit = h[i][2]
    BY <2>1, <2>4, <2>5
  <2> HIDE DEF text
  <2> QED
    BY <2>2, <2>6, <2>7 DEF hexToBin, hexCharToBin
<1>2. h = [i \in 1 .. HashSize |-> h[i]]
  BY DEF HashOf
<1> HIDE DEF h, text
<1>3. convertHashStringToBinary(text) = h
  BY <1>1, <1>2 DEF convertHashStringToBinary
<1> QED
  BY <1>3 DEF h, text

\* The digits of no hash.
LEMMA NoneIsDigit == ASSUME NEW v, NEW i PROVE NoDigit # <<v, i, "high">> /\ NoDigit # <<v, i, "low">>
<1>1. NoDigit[3] = "none" /\ <<v, i, "high">>[3] = "high" /\ <<v, i, "low">>[3] = "low"
  BY DEF NoDigit
<1> QED
  BY <1>1

\* One sequence behind another.
Behind(c, a, b, S) ==
  /\ c \in Seq(S) /\ Len(c) = Len(a) + Len(b) /\ Len(a) \in Nat /\ Len(b) \in Nat
  /\ \A i \in 1 .. Len(a) : c[i] = a[i]
  /\ \A i \in 1 .. Len(b) : c[Len(a) + i] = b[i]

LEMMA BehindIs ==
  ASSUME NEW S, NEW a \in Seq(S), NEW b \in Seq(S), NEW c, c = a \o b
  PROVE  Behind(c, a, b, S)
<1>1. c \in Seq(S) /\ Len(c) = Len(a) + Len(b) /\ Len(a) \in Nat /\ Len(b) \in Nat
  OBVIOUS
<1>2. ASSUME NEW i \in 1 .. Len(a) PROVE c[i] = a[i]
  OBVIOUS
<1>3. ASSUME NEW i \in 1 .. Len(b) PROVE c[Len(a) + i] = b[i]
  OBVIOUS
<1> QED
  BY <1>1, <1>2, <1>3 DEF Behind

\* The characters of a notice.
LEMMA NoticeIs ==
  ASSUME NEW w \in Forms, NEW v
  PROVE  LET s == Notice(w, HashOf(v))
             text == md5_toString(HashOf(v), w.case)
         IN  /\ Len(s) = 1 + w.gap + 2 * HashSize
             /\ s[1].case = w.keyword
             /\ \A i \in 2 .. 1 + w.gap : s[i] = HashBlank
             /\ \A i \in 1 .. 2 * HashSize : s[1 + w.gap + i] = text[i]
             /\ \A i \in 2 .. Len(s) : s[i].case \notin DOMAIN Skipped
<1> DEFINE text == md5_toString(HashOf(v), w.case)
           g == w.gap
           n == 2 * HashSize
           first == <<[digit |-> NoDigit, case |-> w.keyword]>>
           blanks == [i \in 1 .. g |-> HashBlank]
           s == Notice(w, HashOf(v))
<1>1. g \in Nat /\ n \in Nat /\ w.case \in {"lower", "upper"}
  BY FormsAssumption, ChecksumAssumption
<1>2. \A i \in 1 .. n : text[i].case = w.case
  BY DEF md5_toString
<1>3. text = [i \in 1 .. n |-> text[i]]
  BY DEF md5_toString
<1> HIDE DEF text, n, g
<1>4. blanks \in Seq({HashBlank}) /\ Len(blanks) = g /\ \A i \in 1 .. g : blanks[i] = HashBlank
  <2>1. blanks \in [1 .. g -> {HashBlank}]
    OBVIOUS
  <2> QED
    BY <1>1, <2>1, AsSeq
<1> DEFINE Texts0 == {text[i] : i \in 1 .. n}
<1>5. text \in Seq(Texts0) /\ Len(text) = n
  <2>1. text \in [1 .. n -> Texts0]
    BY <1>3
  <2> HIDE DEF Texts0
  <2> QED
    BY <1>1, <2>1, AsSeq
<1>6. s = (first \o blanks) \o text
  BY DEF Notice, text, g
<1> DEFINE f == [digit |-> NoDigit, case |-> w.keyword]
           All == {f, HashBlank} \cup Texts0
<1>7. first = <<f>> /\ f.case = w.keyword
  OBVIOUS
<1> HIDE DEF Texts0, blanks, f, s, first
<1>8. first \in Seq(All) /\ Len(first) = 1 /\ first[1] = f
  BY <1>7
<1>9. blanks \in Seq(All) /\ text \in Seq(All)
  BY <1>4, <1>5
<1> HIDE DEF All
<1> DEFINE u == first \o blanks
<1>10. /\ u \in Seq(All) /\ Len(u) = 1 + g /\ u[1] = f
       /\ \A i \in 2 .. 1 + g : u[i] = HashBlank
  <2>1. /\ u \in Seq(All) /\ Len(u) = Len(first) + Len(blanks)
        /\ \A i \in 1 .. Len(first) : u[i] = first[i]
        /\ \A i \in 1 .. Len(blanks) : u[Len(first) + i] = blanks[i]
    <3>1. u = first \o blanks /\ first \in Seq(All) /\ blanks \in Seq(All)
      BY <1>8, <1>9
    <3> HIDE DEF u
    <3>2. Behind(u, first, blanks, All)
      BY <3>1, BehindIs, Zenon
    <3> QED
      BY <3>2 DEF Behind
  <2> HIDE DEF u
  <2>2. u \in Seq(All) /\ Len(u) = 1 + g /\ u[1] = f
    BY <1>1, <1>4, <1>8, <2>1
  <2>3. ASSUME NEW i \in 2 .. 1 + g PROVE u[i] = HashBlank
    <3>1. i - 1 \in 1 .. g /\ 1 + (i - 1) = i
      BY <1>1
    <3>2. u[1 + (i - 1)] = blanks[i - 1]
      BY <1>4, <1>8, <2>1, <3>1
    <3> QED
      BY <1>4, <3>1, <3>2
  <2> QED
    BY <2>2, <2>3
<1>11. s = u \o text
  BY <1>6
<1> HIDE DEF u
<1>12. /\ Len(s) = 1 + g + n
       /\ \A i \in 1 .. 1 + g : s[i] = u[i]
       /\ \A i \in 1 .. n : s[1 + g + i] = text[i]
  <2>1. Behind(s, u, text, All)
    BY <1>9, <1>10, <1>11, BehindIs, Zenon
  <2>2. Len(u) = 1 + g /\ Len(text) = n
    BY <1>5, <1>10
  <2> QED
    BY <2>1, <2>2, Zenon DEF Behind
<1>13. s[1].case = w.keyword /\ \A i \in 2 .. 1 + g : s[i] = HashBlank
  BY <1>1, <1>7, <1>10, <1>12
<1>14. ASSUME NEW i \in 2 .. Len(s) PROVE s[i].case \notin DOMAIN Skipped
  <2>1. CASE i \in 2 .. 1 + g
    <3>1. s[i].case = "blank"
      BY <1>13, <2>1 DEF HashBlank
    <3> QED
      BY <3>1 DEF Skipped
  <2>2. CASE i \notin 2 .. 1 + g
    <3>1. i - (1 + g) \in 1 .. n /\ 1 + g + (i - (1 + g)) = i
      BY <1>1, <1>12, <2>2
    <3>2. s[i] = text[i - (1 + g)]
      BY <1>12, <3>1
    <3>3. s[i].case = w.case
      BY <1>2, <3>1, <3>2
    <3> QED
      BY <1>1, <3>3 DEF Skipped
  <2> QED
    BY <2>1, <2>2
<1> QED
  BY <1>12, <1>13, <1>14 DEF s, g, n, text

\* The text that is cut out of a notice.
LEMMA ExtractIs ==
  ASSUME NEW w \in Forms, NEW v
  PROVE  LET s == Notice(w, HashOf(v))
             from == 1 + Skipped[w.keyword]
         IN  extractMD5(s) = [i \in 1 .. 2 * HashSize |-> IF from + i <= Len(s) THEN s[from + i] ELSE HashEnd]
<1> DEFINE s == Notice(w, HashOf(v))
<1>1. /\ Len(s) \in Nat /\ Len(s) >= 1 /\ s[1].case = w.keyword /\ w.keyword \in DOMAIN Skipped
      /\ \A i \in 2 .. Len(s) : s[i].case \notin DOMAIN Skipped
  <2>1. w.gap \in Nat /\ HashSize \in Nat
    BY FormsAssumption, ChecksumAssumption
  <2> QED
    BY <2>1, NoticeIs, FormsAssumption
<1> HIDE DEF s
<1>2. (CHOOSE i \in 1 .. Len(s) : s[i].case \in DOMAIN Skipped) = 1
  <2>1. 1 \in 1 .. Len(s) /\ s[1].case \in DOMAIN Skipped
    BY <1>1
  <2>2. ASSUME NEW i \in 1 .. Len(s), s[i].case \in DOMAIN Skipped PROVE i = 1
    BY <1>1, <2>2
  <2> QED
    BY <2>1, <2>2
<1> DEFINE at == CHOOSE i \in 1 .. Len(s) : s[i].case \in DOMAIN Skipped
<1>3. extractMD5(s) = [i \in 1 .. 2 * HashSize |->
                         IF (at + Skipped[s[at].case]) + i <= Len(s)
                         THEN s[(at + Skipped[s[at].case]) + i] ELSE HashEnd]
  BY DEF extractMD5
<1>4. at = 1
  BY <1>2
<1> HIDE DEF at
<1> QED
  BY <1>1, <1>3, <1>4 DEF s

\* A notice in the expected form gives the hash, another none.
LEMMA ExtractTells ==
  ASSUME NEW w \in Forms, NEW v, NEW u
  PROVE  HashOf(u) = convertHashStringToBinary(extractMD5(Notice(w, HashOf(v))))
           <=> Expected(w) /\ HashOf(u) = HashOf(v)
<1> DEFINE s == Notice(w, HashOf(v))
           text == md5_toString(HashOf(v), w.case)
           x == extractMD5(s)
           k == Skipped[w.keyword]
           g == w.gap
           n == 2 * HashSize
           bin == convertHashStringToBinary(x)
<1>1. k \in Nat /\ g \in Nat /\ g + 1 >= k /\ HashSize \in Nat \ {0} /\ n \in Nat /\ n >= 2
  <2>1. w.keyword \in DOMAIN Skipped
    BY FormsAssumption
  <2>2. k \in Nat
    BY <2>1 DEF Skipped
  <2> QED
    BY <2>2, FormsAssumption, ChecksumAssumption
<1>2. /\ Len(s) = 1 + g + n
      /\ \A i \in 2 .. 1 + g : s[i] = HashBlank
      /\ \A i \in 1 .. n : s[1 + g + i] = text[i]
  BY NoticeIs
<1>3. x = [i \in 1 .. n |-> IF 1 + k + i <= Len(s) THEN s[1 + k + i] ELSE HashEnd]
  BY ExtractIs
<1>4. text = [i \in 1 .. n |-> text[i]]
  BY DEF md5_toString
<1>5. convertHashStringToBinary(text) = HashOf(v)
  BY TextIsHash
<1>6. bin = [i \in 1 .. HashSize |-> <<x[2 * i - 1].digit, x[2 * i].digit>>]
  BY DEF convertHashStringToBinary, hexToBin, hexCharToBin
<1>7. /\ HashOf(u)[1] = << <<u, 1, "high">>, <<u, 1, "low">> >>
      /\ HashOf(u)[HashSize] = << <<u, HashSize, "high">>, <<u, HashSize, "low">> >>
  BY <1>1 DEF HashOf
<1>8. Expected(w) <=> g = k
  BY DEF Expected
<1> HIDE DEF s, text, x, k, g
<1>9. CASE g = k
  <2>1. ASSUME NEW i \in 1 .. n PROVE x[i] = text[i]
    BY <1>1, <1>2, <1>3, <1>9
  <2>2. x = text
    BY <1>3, <1>4, <2>1
  <2>3. bin = HashOf(v)
    BY <1>5, <2>2
  <2> QED
    BY <1>8, <1>9, <2>3 DEF x, s
<1>10. CASE g > k
  <2>1. 1 \in 1 .. n /\ 1 + k + 1 <= Len(s) /\ 1 + k + 1 \in 2 .. 1 + g
    BY <1>1, <1>2, <1>10
  <2>2. x[1] = HashBlank
    BY <1>2, <1>3, <2>1
  <2>3. bin[1] = <<x[1].digit, x[2].digit>>
    BY <1>1, <1>6
  <2>4. bin[1][1] = NoDigit
    BY <2>2, <2>3 DEF HashBlank
  <2>5. HashOf(u)[1][1] = <<u, 1, "high">>
    BY <1>7
  <2>6. HashOf(u) # bin
    BY <2>4, <2>5, NoneIsDigit
  <2> QED
    BY <1>1, <1>8, <1>10, <2>6 DEF x, s
<1>11. CASE g < k
  <2>1. n \in 1 .. n /\ ~(1 + k + n <= Len(s))
    BY <1>1, <1>2, <1>11
  <2>2. x[2 * HashSize] = HashEnd
    BY <1>3, <2>1
  <2>3. bin[HashSize] = <<x[2 * HashSize - 1].digit, x[2 * HashSize].digit>>
    BY <1>1, <1>6
  <2>4. bin[HashSize][2] = NoDigit
    BY <2>2, <2>3 DEF HashEnd
  <2>5. HashOf(u)[HashSize][2] = <<u, HashSize, "low">>
    BY <1>7
  <2>6. HashOf(u) # bin
    BY <2>4, <2>5, NoneIsDigit
  <2> QED
    BY <1>1, <1>8, <1>11, <2>6 DEF x, s
<1> QED
  BY <1>1, <1>9, <1>10, <1>11

\* The verdict about a context that digested n bytes of a file.
LEMMA EqualsIs ==
  ASSUME NEW f \in HashFiles, NEW n \in Nat, NEW c, Digested(c, f, n),
         NEW g \in HashFiles, NEW m \in Nat, NEW w \in Forms
  PROVE  equals(c, extractMD5(Notice(w, Reference(g, m))))
           <=> Expected(w) /\ Message(g, m) = Message(f, n)
<1> DEFINE v == Blocked(Padded(Message(f, n)))
           u == Blocked(Padded(Message(g, m)))
<1>1. md5_close(c) = v
  BY CloseIs
<1>2. Reference(g, m) = HashOf(u)
  BY DEF Reference
<1>3. v = u => Message(g, m) = Message(f, n)
  BY PaddedTells
<1>4. Message(g, m) = Message(f, n) => v = u
  BY Zenon
<1> HIDE DEF v, u
<1>5. HashOf(v) = HashOf(u) <=> v = u
  BY HashTells
<1>6. equals(c, extractMD5(Notice(w, Reference(g, m)))) <=> Expected(w) /\ HashOf(v) = HashOf(u)
  <2>1. equals(c, extractMD5(Notice(w, Reference(g, m))))
          <=> HashOf(v) = convertHashStringToBinary(extractMD5(Notice(w, HashOf(u))))
    BY <1>1, <1>2 DEF equals
  <2> QED
    BY <2>1, ExtractTells
<1> QED
  BY <1>3, <1>4, <1>5, <1>6

-----------------------------------------------------------------------------
(* The threads.                                                             *)

Tellings == HashFiles \X Nat \X BOOLEAN
Texts == {extractMD5(Notice(w, Reference(f, n))) : f \in HashFiles, n \in Nat, w \in Forms}
Threads ==
  [path : HashFiles, expectedHash : Texts, told : Tellings, ctx : Contexts,
   at : Nat, verdict : {"none", "succeeded", "failed"}, written : BOOLEAN]

\* What a bot told: the hash of a file of which it has so many bytes, in some form.
Tells(text, told) ==
  /\ told \in Tellings
  /\ \E w \in Forms : /\ text = extractMD5(Notice(w, Reference(told[1], told[2])))
                       /\ told[3] = Expected(w)

\* A thread digested what it read, and its verdict is about all of it.
ThreadIs(d, sizes) ==
  /\ d.at <= sizes[d.path]
  /\ Digested(d.ctx, d.path, d.at)
  /\ Tells(d.expectedHash, d.told)
  /\ d.verdict # "none" =>
       (d.verdict = "succeeded") =
         (d.told[3] /\ Message(d.told[1], d.told[2]) = Message(d.path, d.at))

HashInv ==
  /\ buffer \in Nat \ {0}
  /\ size \in [HashFiles -> Nat]
  /\ lastDownload \in HashFiles \cup {NoFile}
  /\ md5 # NoHash => Tells(md5[1], md5[2])
  /\ threads \in Seq(Threads)
  /\ \A t \in 1 .. Len(threads) : ThreadIs(threads[t], size)

\* A context at the beginning has digested nothing.
LEMMA BeginDigested ==
  ASSUME NEW f \in HashFiles
  PROVE  sph_md5_init(createHashAlgorithm) \in Contexts /\ Digested(sph_md5_init(createHashAlgorithm), f, 0)
<1> DEFINE b == [i \in 1 .. BlockLen |-> Unset]
           c == sph_md5_init(createHashAlgorithm)
<1>1. b \in AllBlocks
  <2>1. Unset \in AllBytes
    BY DEF Unset, Byte, AllBytes
  <2> QED
    BY <2>1 DEF AllBlocks
<1>2. c = [[buf |-> b, val |-> <<Unset>>, count |-> 0] EXCEPT !.val = <<>>, !.count = 0]
  BY DEF sph_md5_init, createHashAlgorithm
<1> HIDE DEF b, c
<1>3. c = [buf |-> b, val |-> <<>>, count |-> 0]
  BY <1>2
<1>4. c \in Contexts
  BY <1>1, <1>3 DEF Contexts
<1>5. BlocksTo(f, 0) = <<>>
  <2>1. BlocksTo(f, 0) \in Seq(AllBlocks) /\ Len(BlocksTo(f, 0)) = 0
    BY BlocksAre
  <2> DEFINE s == BlocksTo(f, 0)
  <2> HIDE DEF s
  <2>2. s = <<>>
    BY <2>1 DEF s
  <2> QED
    BY <2>2 DEF s
<1>6. 0 \in 0 .. BlockLen - 1 /\ 0 = 0 * BlockLen + 0 /\ \A i \in 1 .. 0 : FALSE
  BY BlockLenIs
<1>7. c.val = BlocksTo(f, 0) /\ c.count = 0
  BY <1>3, <1>5
<1>8. Digested(c, f, 0)
  BY <1>4, <1>6, <1>7 DEF Digested
<1> QED
  BY <1>4, <1>8 DEF c

\* Sizes that grow leave what threads are.
LEMMA Grown ==
  ASSUME NEW d \in Threads, NEW a \in [HashFiles -> Nat], NEW b \in [HashFiles -> Nat],
         \A f \in HashFiles : a[f] <= b[f], ThreadIs(d, a)
  PROVE  ThreadIs(d, b)
<1>1. d.path \in HashFiles /\ d.at \in Nat
  BY DEF Threads
<1>2. a[d.path] \in Nat /\ b[d.path] \in Nat /\ a[d.path] <= b[d.path] /\ d.at <= a[d.path]
  BY <1>1 DEF ThreadIs
<1>3. d.at <= b[d.path]
  BY <1>1, <1>2
<1> QED
  BY <1>3 DEF ThreadIs

\* A thread that is started.
LEMMA Started ==
  ASSUME HashInv, NEW text, NEW g \in HashFiles, NEW told, Tells(text, told),
         startChecksumThread(text, g, told)
  PROVE  threads' \in Seq(Threads) /\ \A t \in 1 .. Len(threads') : ThreadIs(threads'[t], size)
<1> DEFINE c == sph_md5_init(createHashAlgorithm)
           d == [path |-> g, expectedHash |-> text, told |-> told, ctx |-> c,
                 at |-> 0, verdict |-> "none", written |-> FALSE]
<1>1. c \in Contexts /\ Digested(c, g, 0)
  BY BeginDigested
<1>2. threads' = Append(threads, d)
  BY DEF startChecksumThread
<1> HIDE DEF c
<1>3. told \in Tellings /\ text \in Texts
  <2>1. told \in Tellings
    BY DEF Tells
  <2>2. told[1] \in HashFiles /\ told[2] \in Nat
    BY <2>1 DEF Tellings
  <2>3. \E w \in Forms : text = extractMD5(Notice(w, Reference(told[1], told[2])))
    BY DEF Tells
  <2> QED
    BY <2>1, <2>2, <2>3 DEF Texts
<1>4. d \in Threads
  BY <1>1, <1>3 DEF Threads
<1>5. ThreadIs(d, size)
  <2>1. size[g] \in Nat
    BY DEF HashInv
  <2>2. 0 <= size[g]
    BY <2>1
  <2>3. /\ d.path = g /\ d.at = 0 /\ d.ctx = c /\ d.expectedHash = text /\ d.told = told
        /\ d.verdict = "none"
    OBVIOUS
  <2> HIDE DEF d
  <2> QED
    BY <1>1, <2>2, <2>3 DEF ThreadIs
<1> HIDE DEF d
<1>6. threads \in Seq(Threads) /\ \A t \in 1 .. Len(threads) : ThreadIs(threads[t], size)
  BY DEF HashInv
<1> DEFINE l == threads
           w == Append(l, d)
<1>7. /\ w \in Seq(Threads) /\ Len(w) = Len(l) + 1 /\ w[Len(l) + 1] = d
      /\ \A t \in 1 .. Len(l) : w[t] = l[t]
  BY <1>4, <1>6
<1>8. Len(l) \in Nat /\ \A t \in 1 .. Len(l) + 1 : t \in 1 .. Len(l) \/ t = Len(l) + 1
  BY <1>6
<1>9. threads' = w
  BY <1>2
<1>10. \A t \in 1 .. Len(l) : ThreadIs(l[t], size)
  BY <1>6
<1> HIDE DEF w, l
<1>11. ASSUME NEW t \in 1 .. Len(w) PROVE ThreadIs(w[t], size)
  BY <1>5, <1>7, <1>8, <1>10
<1> QED
  BY <1>7, <1>9, <1>11

\* The first notices and files.
LEMMA HashBegins == ASSUME HashInit PROVE HashInv
<1>1. buffer \in Nat \ {0} /\ size \in [HashFiles -> Nat]
  BY ChecksumAssumption DEF HashInit
<1>2. threads = <<>> /\ md5 = NoHash /\ lastDownload = NoFile
  BY DEF HashInit
<1>3. threads \in Seq(Threads) /\ Len(threads) = 0
  BY <1>2
<1>4. \A t \in 1 .. 0 : FALSE
  OBVIOUS
<1> QED
  BY <1>1, <1>2, <1>3, <1>4 DEF HashInv

LEMMA NoticeKeeps == ASSUME HashInv, checkMD5ChecksumNotice PROVE HashInv'
<1>1. PICK f \in HashFiles, n \in Sizes, w \in Forms :
        LET text == extractMD5(Notice(w, Reference(f, n)))
            told == <<f, n, Expected(w)>>
        IN  \/ /\ lastDownload = NoFile
               /\ md5' = IF numDownloads = 1 THEN <<text, told>> ELSE md5
               /\ UNCHANGED threads
            \/ /\ lastDownload # NoFile
               /\ startChecksumThread(text, lastDownload, told)
               /\ UNCHANGED md5
  BY DEF checkMD5ChecksumNotice
<1>2. UNCHANGED <<buffer, numDownloads, size, lastDownload>>
  BY DEF checkMD5ChecksumNotice
<1>3. n \in Nat
  BY ChecksumAssumption
<1> DEFINE text == extractMD5(Notice(w, Reference(f, n)))
           told == <<f, n, Expected(w)>>
<1>4. Tells(text, told)
  <2>1. Expected(w) \in BOOLEAN
    BY DEF Expected
  <2>2. told \in Tellings /\ told[1] = f /\ told[2] = n /\ told[3] = Expected(w)
    BY <1>3, <2>1 DEF Tellings
  <2> HIDE DEF told
  <2> QED
    BY <2>2 DEF Tells
<1> HIDE DEF text, told
<1>5. \/ /\ lastDownload = NoFile
         /\ md5' = IF numDownloads = 1 THEN <<text, told>> ELSE md5
         /\ UNCHANGED threads
      \/ /\ lastDownload # NoFile
         /\ startChecksumThread(text, lastDownload, told)
         /\ UNCHANGED md5
  BY <1>1 DEF text, told
<1>6. CASE lastDownload = NoFile
  <2>1. md5' # NoHash => Tells(md5'[1], md5'[2])
    <3>1. CASE numDownloads = 1
      <4>1. md5' = <<text, told>>
        BY <1>5, <1>6, <3>1
      <4>2. md5'[1] = text /\ md5'[2] = told
        BY <4>1
      <4> QED
        BY <1>4, <4>2
    <3>2. CASE numDownloads # 1
      BY <1>5, <1>6, <3>2 DEF HashInv
    <3> QED
      BY <3>1, <3>2
  <2> QED
    BY <1>2, <1>5, <1>6, <2>1 DEF HashInv
<1>7. CASE lastDownload # NoFile
  <2>1. lastDownload \in HashFiles
    BY <1>7 DEF HashInv
  <2>2. threads' \in Seq(Threads) /\ \A t \in 1 .. Len(threads') : ThreadIs(threads'[t], size)
    BY <1>4, <1>5, <1>7, <2>1, Started
  <2> QED
    BY <1>2, <1>5, <1>7, <2>2 DEF HashInv
<1> QED
  BY <1>6, <1>7

LEMMA CompletedKeeps == ASSUME HashInv, download_completed PROVE HashInv'
<1>1. lastDownload' \in HashFiles /\ UNCHANGED <<buffer, numDownloads, size, md5>>
  BY DEF download_completed
<1>2. CASE numDownloads = 1 /\ md5 # NoHash
  <2>1. startChecksumThread(md5[1], lastDownload', md5[2])
    BY <1>2 DEF download_completed
  <2>2. Tells(md5[1], md5[2])
    BY <1>2 DEF HashInv
  <2>3. threads' \in Seq(Threads) /\ \A t \in 1 .. Len(threads') : ThreadIs(threads'[t], size)
    BY <1>1, <2>1, <2>2, Started
  <2> QED
    BY <1>1, <2>3 DEF HashInv
<1>3. CASE ~(numDownloads = 1 /\ md5 # NoHash)
  <2>1. UNCHANGED threads
    BY <1>3 DEF download_completed
  <2> QED
    BY <1>1, <2>1 DEF HashInv
<1> QED
  BY <1>2, <1>3

LEMMA WrittenKeeps == ASSUME HashInv, Written PROVE HashInv'
<1>1. PICK f \in HashFiles :
        /\ \E n \in Sizes : n > size[f] /\ size' = [size EXCEPT ![f] = n]
        /\ threads' = [t \in 1 .. Len(threads) |->
                         [threads[t] EXCEPT !.written = @ \/ threads[t].path = f]]
  BY DEF Written
<1>2. PICK n \in Sizes : n > size[f] /\ size' = [size EXCEPT ![f] = n]
  BY <1>1
<1>3. UNCHANGED <<buffer, numDownloads, lastDownload, md5>>
  BY DEF Written
<1>4. size \in [HashFiles -> Nat] /\ n \in Nat
  BY ChecksumAssumption DEF HashInv
<1>5. size' \in [HashFiles -> Nat] /\ \A g \in HashFiles : size[g] <= size'[g]
  BY <1>2, <1>4
<1>6. threads \in Seq(Threads) /\ Len(threads) \in Nat /\ \A t \in 1 .. Len(threads) : threads[t] \in Threads
  BY DEF HashInv
<1> DEFINE next(t) == [threads[t] EXCEPT !.written = @ \/ threads[t].path = f]
<1>7. ASSUME NEW t \in 1 .. Len(threads) PROVE next(t) \in Threads /\ ThreadIs(next(t), size')
  <2> DEFINE d == threads[t]
             x == next(t)
             w == d.written \/ d.path = f
  <2>1. d \in Threads /\ ThreadIs(d, size')
    <3>1. d \in Threads
      BY <1>6
    <3>2. ThreadIs(d, size)
      BY DEF HashInv
    <3> HIDE DEF d
    <3> QED
      BY <1>4, <1>5, <3>1, <3>2, Grown
  <2>2. x = [d EXCEPT !.written = w]
    OBVIOUS
  <2>3. w \in BOOLEAN
    OBVIOUS
  <2> HIDE DEF d, x, w
  <2>4. /\ x \in Threads /\ x.path = d.path /\ x.expectedHash = d.expectedHash /\ x.told = d.told
        /\ x.ctx = d.ctx /\ x.at = d.at /\ x.verdict = d.verdict
    BY <2>1, <2>2, <2>3 DEF Threads
  <2>5. ThreadIs(x, size')
    BY <2>1, <2>4 DEF ThreadIs
  <2> QED
    BY <2>4, <2>5 DEF x
<1>8. threads' = [t \in 1 .. Len(threads) |-> next(t)]
  BY <1>1
<1> HIDE DEF next
<1>9. threads' \in [1 .. Len(threads) -> Threads]
  BY <1>7, <1>8
<1>10. threads' \in Seq(Threads) /\ Len(threads') = Len(threads)
  BY <1>6, <1>9, AsSeq
<1>11. \A t \in 1 .. Len(threads') : ThreadIs(threads'[t], size')
  BY <1>7, <1>8, <1>10
<1> QED
  BY <1>3, <1>5, <1>10, <1>11 DEF HashInv

\* The piece a thread reads follows what it digested.
LEMMA PieceIs ==
  ASSUME HashInv, NEW t \in 1 .. Len(threads)
  PROVE  LET d == threads[t]
             p == Piece(t)
         IN  /\ d \in Threads /\ ThreadIs(d, size)
             /\ Continues(p, d.path, d.at)
             /\ d.at + Len(p) \in Nat /\ d.at + Len(p) <= size[d.path]
<1> DEFINE d == threads[t]
           p == Piece(t)
           n == Smaller(buffer, size[d.path] - d.at)
<1>1. d \in Threads /\ ThreadIs(d, size)
  BY DEF HashInv
<1>2. d.path \in HashFiles /\ d.at \in Nat
  <2> HIDE DEF d
  <2> QED
    BY <1>1 DEF Threads
<1>3. p = [i \in 1 .. n |-> Byte(d.path, d.at + i)]
  BY DEF Piece
<1> HIDE DEF d, p
<1>4. size[d.path] \in Nat /\ d.at <= size[d.path] /\ buffer \in Nat
  BY <1>1, <1>2 DEF HashInv, ThreadIs
<1>5. n \in Nat /\ d.at + n <= size[d.path]
  BY <1>2, <1>4 DEF Smaller
<1> HIDE DEF n
<1>6. ASSUME NEW i \in 1 .. n PROVE Byte(d.path, d.at + i) \in AllBytes
  <2>1. d.at + i \in Int
    BY <1>2, <1>5
  <2> QED
    BY <1>2, <2>1, ByteIs
<1>7. p \in [1 .. n -> AllBytes]
  BY <1>3, <1>6
<1>8. p \in Seq(AllBytes) /\ Len(p) = n
  BY <1>5, <1>7, AsSeq
<1>9. Continues(p, d.path, d.at)
  BY <1>3, <1>8 DEF Continues
<1>10. d.at + Len(p) \in Nat /\ d.at + Len(p) <= size[d.path]
  BY <1>2, <1>5, <1>8
<1> QED
  BY <1>1, <1>9, <1>10 DEF d, p

LEMMA ThreadKeeps == ASSUME HashInv, checksum_verification_thread PROVE HashInv'
<1>1. PICK t \in 1 .. Len(threads) :
        LET c == updateHash(threads[t].ctx, Piece(t))
            done == Len(Piece(t)) < buffer
        IN  threads' = [threads EXCEPT ![t].ctx = c, ![t].at = @ + Len(Piece(t)),
                          ![t].verdict = IF ~done THEN "none"
                                         ELSE IF equals(c, threads[t].expectedHash)
                                              THEN "succeeded" ELSE "failed"]
  BY DEF checksum_verification_thread
<1>2. UNCHANGED <<buffer, numDownloads, size, lastDownload, md5>>
  BY DEF checksum_verification_thread
<1> DEFINE d == threads[t]
           p == Piece(t)
           c == updateHash(d.ctx, p)
           verdict == IF ~(Len(p) < buffer) THEN "none"
                      ELSE IF equals(c, d.expectedHash) THEN "succeeded" ELSE "failed"
           at == d.at + Len(p)
           x == [[[d EXCEPT !.ctx = c] EXCEPT !.at = at] EXCEPT !.verdict = verdict]
<1>3. threads \in Seq(Threads) /\ Len(threads) \in Nat
  BY DEF HashInv
<1>4. threads' = [threads EXCEPT ![t] = x]
  BY <1>1, <1>3
<1>5. /\ d \in Threads /\ ThreadIs(d, size) /\ Continues(p, d.path, d.at)
      /\ at \in Nat /\ at <= size[d.path]
  BY PieceIs
<1>6. d \in Threads /\ verdict \in {"none", "succeeded", "failed"}
  BY <1>5
<1> DEFINE l == threads
<1>7. threads' = [l EXCEPT ![t] = x] /\ t \in 1 .. Len(l) /\ l \in Seq(Threads)
  BY <1>3, <1>4
<1>8. verdict # "none" => verdict = (IF equals(c, d.expectedHash) THEN "succeeded" ELSE "failed")
  OBVIOUS
<1> HIDE DEF d, p, verdict, at, l
<1>9. d.path \in HashFiles /\ d.at \in Nat /\ d.ctx \in Contexts
  BY <1>6 DEF Threads
<1>10. Digested(c, d.path, at)
  <2>1. Digested(d.ctx, d.path, d.at)
    BY <1>5 DEF ThreadIs
  <2>2. Digested(sph_md5(d.ctx, p), d.path, d.at + Len(p))
    BY <1>5, <1>9, <2>1, UpdateDigests
  <2> QED
    BY <2>2 DEF updateHash, at
<1> HIDE DEF c
<1>11. c \in Contexts
  BY <1>10 DEF Digested
<1>12. /\ x \in Threads /\ x.path = d.path /\ x.expectedHash = d.expectedHash /\ x.told = d.told
       /\ x.ctx = c /\ x.at = at /\ x.verdict = verdict
  BY <1>5, <1>6, <1>11 DEF Threads
<1> HIDE DEF x
<1>13. verdict # "none" =>
         (verdict = "succeeded") =
           (d.told[3] /\ Message(d.told[1], d.told[2]) = Message(d.path, at))
  <2>1. PICK w \in Forms : /\ d.expectedHash = extractMD5(Notice(w, Reference(d.told[1], d.told[2])))
                           /\ d.told[3] = Expected(w)
    BY <1>5 DEF ThreadIs, Tells
  <2>2. d.told[1] \in HashFiles /\ d.told[2] \in Nat
    <3>1. d.told \in Tellings
      BY <1>6 DEF Threads
    <3> QED
      BY <3>1 DEF Tellings
  <2>3. equals(c, d.expectedHash) <=> Expected(w) /\ Message(d.told[1], d.told[2]) = Message(d.path, at)
    BY <1>5, <1>9, <1>10, <2>1, <2>2, EqualsIs
  <2>4. d.told[3] \in BOOLEAN
    <3>1. d.told \in Tellings
      BY <1>6 DEF Threads
    <3> QED
      BY <3>1 DEF Tellings
  <2>5. d.told[3] = Expected(w)
    BY <2>1
  <2>6. equals(c, d.expectedHash) <=> (d.told[3] /\ Message(d.told[1], d.told[2]) = Message(d.path, at))
    BY <2>3, <2>4, <2>5, Zenon
  <2>7. verdict # "none" => (verdict = "succeeded" <=> equals(c, d.expectedHash))
    BY <1>8
  <2> QED
    BY <2>6, <2>7, Zenon
<1>14. ThreadIs(x, size)
  BY <1>5, <1>10, <1>12, <1>13 DEF ThreadIs
<1>15. threads' \in Seq(Threads) /\ Len(threads') = Len(l)
  BY <1>7, <1>12
<1>16. ASSUME NEW u \in 1 .. Len(threads') PROVE ThreadIs(threads'[u], size)
  <2>1. u \in 1 .. Len(l)
    BY <1>15
  <2>2. ThreadIs(l[u], size)
    BY <2>1 DEF HashInv, l
  <2>3. threads'[u] = IF u = t THEN x ELSE l[u]
    BY <1>7, <2>1
  <2> QED
    BY <1>14, <2>2, <2>3
<1> QED
  BY <1>2, <1>15, <1>16 DEF HashInv

\* Whatever pieces a thread reads a file in, wherever they lie to the blocks of MD5,
\* and whatever other threads and the main loop do (readFile, sph_md5,
\* md5_addbits_and_close, md5_equal_sph): the verdict is that the verification
\* succeeded exactly if the bot told the hash of the bytes that were read.
THEOREM VerdictIsTrue == HashSpec => []VerdictTrue
<1>1. HashInit => HashInv
  BY HashBegins
<1>2. HashInv /\ [HashNext]_hashVars => HashInv'
  <2> SUFFICES ASSUME HashInv, [HashNext]_hashVars PROVE HashInv'
    OBVIOUS
  <2>1. CASE UNCHANGED hashVars
    BY <2>1 DEF hashVars, HashInv
  <2> QED
    BY <2>1, NoticeKeeps, CompletedKeeps, WrittenKeeps, ThreadKeeps DEF HashNext
<1>3. HashInv => VerdictTrue
  BY DEF HashInv, ThreadIs, VerdictTrue
<1> QED
  BY <1>1, <1>2, <1>3, PTL DEF HashSpec

-----------------------------------------------------------------------------
(* The loop of gcd.                                                         *)

\* A number among the multiples of L, on either side of 0.
LEMMA Between ==
  ASSUME NEW L \in Nat \ {0}, NEW n \in Int
  PROVE  /\ n % L \in 0 .. L - 1
         /\ n \div L \in Int
         /\ n = (n \div L) * L + (n % L)
BY SMT

\* There is one place for it.
LEMMA OneRest ==
  ASSUME NEW L \in Nat \ {0}, NEW d \in Int, NEW e \in Int, NEW r \in 0 .. L - 1, NEW t \in 0 .. L - 1,
         d * L + r = e * L + t
  PROVE  d = e /\ r = t
<1> DEFINE x == d * L
           y == e * L
<1>1. x \in Int /\ y \in Int /\ x + r = y + t
  OBVIOUS
<1>2. d < e => x + L <= y
  <2> SUFFICES ASSUME d < e PROVE x + L <= y
    OBVIOUS
  <2>1. (d + 1) * L <= e * L /\ (d + 1) * L = d * L + L
    <3>1. d + 1 \in Int /\ d + 1 <= e
      OBVIOUS
    <3> QED
      BY <3>1, BlockOrder, BlockStep
  <2> QED
    BY <2>1
<1>3. e < d => y + L <= x
  <2> SUFFICES ASSUME e < d PROVE y + L <= x
    OBVIOUS
  <2>1. (e + 1) * L <= d * L /\ (e + 1) * L = e * L + L
    <3>1. e + 1 \in Int /\ e + 1 <= d
      OBVIOUS
    <3> QED
      BY <3>1, BlockOrder, BlockStep
  <2> QED
    BY <2>1
<1>4. d = e => x = y
  OBVIOUS
<1> HIDE DEF x, y
<1> QED
  BY <1>1, <1>2, <1>3, <1>4

\* What is left of a number when it is written as multiples of L and a rest.
LEMMA RestIs ==
  ASSUME NEW L \in Nat \ {0}, NEW n \in Int, NEW d \in Int, NEW r \in 0 .. L - 1, n = d * L + r
  PROVE  n \div L = d /\ n % L = r
<1>1. n % L \in 0 .. L - 1 /\ n \div L \in Int /\ n = (n \div L) * L + (n % L)
  BY Between
<1> QED
  BY <1>1, OneRest

\* d divides x.
Divides(d, x) == \E m \in Nat : x = d * m

\* x is put together from a and b.
Combines(x, a, b) == \E u \in Int, v \in Int : x = u * a + v * b

LEMMA CombinesRest ==
  ASSUME NEW a \in Nat, NEW b \in Nat, NEW x \in Int, NEW y \in Int, NEW k \in Int, NEW r \in Int,
         Combines(x, a, b), Combines(y, a, b), x = k * y + r
  PROVE  Combines(r, a, b)
<1>1. PICK u \in Int, v \in Int : x = u * a + v * b
  BY DEF Combines
<1>2. PICK s \in Int, t \in Int : y = s * a + t * b
  BY DEF Combines
<1>3. r = (u * a + v * b) - k * (s * a + t * b)
  BY <1>1, <1>2
<1>4. (u * a + v * b) - k * (s * a + t * b) = (u - k * s) * a + (v - k * t) * b
  OBVIOUS
<1>5. u - k * s \in Int /\ v - k * t \in Int
  OBVIOUS
<1> QED
  BY <1>3, <1>4, <1>5 DEF Combines

LEMMA DividesSum ==
  ASSUME NEW d \in Nat \ {0}, NEW x \in Nat, NEW y \in Nat, NEW k \in Nat, NEW r \in Nat,
         Divides(d, y), Divides(d, r), x = k * y + r
  PROVE  Divides(d, x)
<1>1. PICK m \in Nat : y = d * m
  BY DEF Divides
<1>2. PICK l \in Nat : r = d * l
  BY DEF Divides
<1>3. x = d * (k * m + l)
  <2>1. x = k * (d * m) + d * l
    BY <1>1, <1>2
  <2>2. k * (d * m) + d * l = d * (k * m + l)
    OBVIOUS
  <2> QED
    BY <2>1, <2>2
<1>4. k * m + l \in Nat
  <2>1. k * m \in Nat
    OBVIOUS
  <2> QED
    BY <2>1
<1> QED
  BY <1>3, <1>4 DEF Divides

Pairs == (Nat \ {0}) \X (Nat \ {0})

\* What stays true of the two numbers in the loop of gcd(a, b).
SameDivisors(t, a, b) ==
  /\ Combines(t[1], a, b) /\ Combines(t[2], a, b)
  /\ \A d \in Nat \ {0} : Divides(d, t[1]) /\ Divides(d, t[2]) => Divides(d, a) /\ Divides(d, b)

LEMMA GcdTurn ==
  ASSUME NEW a \in Nat, NEW b \in Nat, NEW t \in Pairs, SameDivisors(t, a, b)
  PROVE  /\ gcd_turn(t) \in Pairs /\ SameDivisors(gcd_turn(t), a, b)
         /\ IF t[1] % t[2] = 0 THEN gcd_turn(t) = t ELSE gcd_turn(t)[2] < t[2]
<1> DEFINE x == t[1]
           y == t[2]
           r == t[1] % t[2]
<1>1. x \in Nat \ {0} /\ y \in Nat \ {0}
  BY DEF Pairs
<1>2. PICK k \in Nat : r \in 0 .. y - 1 /\ x = k * y + r
  BY <1>1, Place
<1>3. CASE r = 0
  BY <1>3 DEF gcd_turn
<1>4. CASE r # 0
  <2>1. gcd_turn(t) = <<y, r>> /\ gcd_turn(t)[1] = y /\ gcd_turn(t)[2] = r
    BY <1>4 DEF gcd_turn
  <2> HIDE DEF r
  <2>2. r \in Nat \ {0} /\ r < y
    BY <1>1, <1>2, <1>4
  <2>3. gcd_turn(t) \in Pairs
    BY <1>1, <2>1, <2>2 DEF Pairs
  <2>4. Combines(x, a, b) /\ Combines(y, a, b)
    BY DEF SameDivisors
  <2>5. Combines(r, a, b)
    <3> HIDE DEF x, y
    <3> QED
      BY <1>1, <1>2, <2>2, <2>4, CombinesRest
  <2>6. ASSUME NEW d \in Nat \ {0}, Divides(d, y), Divides(d, r)
        PROVE  Divides(d, a) /\ Divides(d, b)
    <3>1. Divides(d, x)
      <4> HIDE DEF x, y
      <4> QED
        BY <1>1, <1>2, <2>2, <2>6, DividesSum
    <3> QED
      BY <2>6, <3>1 DEF SameDivisors
  <2>7. SameDivisors(gcd_turn(t), a, b)
    BY <2>1, <2>4, <2>5, <2>6 DEF SameDivisors
  <2> QED
    BY <1>4, <2>1, <2>2, <2>3, <2>7 DEF r
<1> QED
  BY <1>3, <1>4

\* The loop ends, with a number that divides both and is put together from them.
LEMMA GcdIs ==
  ASSUME NEW a \in Nat \ {0}, NEW b \in Nat \ {0}
  PROVE  /\ gcd(a, b) \in Nat \ {0}
         /\ Divides(gcd(a, b), a) /\ Divides(gcd(a, b), b) /\ Combines(gcd(a, b), a, b)
<1> DEFINE Is(turn) == turn = [k \in 0 .. b |-> IF k = 0 THEN <<a, b>> ELSE gcd_turn(turn[k - 1])]
           turn == CHOOSE turn : Is(turn)
           Good == {t \in Pairs : SameDivisors(t, a, b)}
           gs == [k \in 1 .. b |-> [t \in Good |-> gcd_turn(t)]]
<1>1. <<a, b>> \in Good
  <2> DEFINE t == <<a, b>>
  <2>1. t \in Pairs /\ t[1] = a /\ t[2] = b
    BY DEF Pairs
  <2>2. a = 1 * a + 0 * b /\ b = 0 * a + 1 * b
    OBVIOUS
  <2>3. Combines(a, a, b) /\ Combines(b, a, b)
    BY <2>2 DEF Combines
  <2> QED
    BY <2>1, <2>3 DEF SameDivisors
<1>2. ASSUME NEW t \in Good PROVE gcd_turn(t) \in Good
  BY <1>2, GcdTurn
<1> HIDE DEF Good
<1>3. gs \in [1 .. b -> [Good -> Good]]
  BY <1>2
<1> HIDE DEF gs
<1>4. PICK h : Recursive(h, b, Good, <<a, b>>, gs)
  BY <1>1, <1>3, Recursion
<1>5. Is(h)
  <2>1. h \in [0 .. b -> Good] /\ h[0] = <<a, b>>
    BY <1>4 DEF Recursive
  <2>2. ASSUME NEW k \in 1 .. b PROVE h[k] = gcd_turn(h[k - 1])
    <3>1. h[k] = gs[k][h[k - 1]] /\ h[k - 1] \in Good
      BY <1>4, <2>1 DEF Recursive
    <3> QED
      BY <3>1 DEF gs
  <2> DEFINE body(k) == IF k = 0 THEN <<a, b>> ELSE gcd_turn(h[k - 1])
  <2>3. h = [k \in 0 .. b |-> h[k]]
    BY <2>1
  <2>4. ASSUME NEW k \in 0 .. b PROVE h[k] = body(k)
    <3>1. CASE k = 0
      BY <2>1, <3>1
    <3>2. CASE k # 0
      <4>1. k \in 1 .. b
        BY <3>2
      <4> QED
        BY <2>2, <3>2, <4>1
    <3> QED
      BY <3>1, <3>2
  <2> HIDE DEF body
  <2>5. h = [k \in 0 .. b |-> body(k)]
    BY <2>3, <2>4
  <2> QED
    BY <2>5 DEF body
<1> HIDE DEF Is
<1>6. Is(turn)
  BY <1>5, Zenon
<1>7. gcd(a, b) = turn[b][2]
  BY DEF gcd, turn, Is
<1> HIDE DEF turn
<1>8. turn[0] = <<a, b>> /\ \A k \in 1 .. b : turn[k] = gcd_turn(turn[k - 1])
  BY <1>6 DEF Is
<1> DEFINE G == {k \in 0 .. b : turn[k] \in Good /\ (turn[k][1] % turn[k][2] = 0 \/ turn[k][2] <= b - k)}
<1>9. 0 \in G
  <2>1. turn[0][2] = b /\ b - 0 = b /\ 0 \in 0 .. b
    BY <1>8
  <2> QED
    BY <1>1, <1>8, <2>1
<1>10. ASSUME NEW k \in 1 .. b, k - 1 \in G PROVE k \in G
  <2> DEFINE s == turn[k - 1]
             t == turn[k]
  <2>1. s \in Good /\ (s[1] % s[2] = 0 \/ s[2] <= b - (k - 1)) /\ t = gcd_turn(s)
    BY <1>8, <1>10
  <2>2. s \in Pairs /\ SameDivisors(s, a, b)
    BY <2>1 DEF Good
  <2> HIDE DEF s, t
  <2>3. t \in Pairs /\ SameDivisors(t, a, b) /\ IF s[1] % s[2] = 0 THEN t = s ELSE t[2] < s[2]
    BY <2>1, <2>2, GcdTurn
  <2>4. t \in Good
    BY <2>3 DEF Good
  <2>5. t[2] \in Nat /\ s[2] \in Nat
    BY <2>2, <2>3 DEF Pairs
  <2>6. t[1] % t[2] = 0 \/ t[2] <= b - k
    <3>1. CASE s[1] % s[2] = 0
      BY <2>3, <3>1
    <3>2. CASE s[1] % s[2] # 0
      BY <2>1, <2>3, <2>5, <3>2
    <3> QED
      BY <3>1, <3>2
  <2> QED
    BY <2>4, <2>6 DEF t
<1> HIDE DEF G
<1>11. b \in G
  <2>1. \A k \in 0 .. b : k \in G
    BY <1>9, <1>10, Turns
  <2> QED
    BY <2>1
<1> DEFINE x == turn[b][1]
           y == turn[b][2]
<1>12. turn[b] \in Pairs /\ SameDivisors(turn[b], a, b) /\ (x % y = 0 \/ y <= b - b)
  BY <1>11 DEF G, Good
<1>13. x \in Nat \ {0} /\ y \in Nat \ {0}
  BY <1>12 DEF Pairs
<1>14. Combines(y, a, b) /\ (Divides(y, x) /\ Divides(y, y) => Divides(y, a) /\ Divides(y, b))
  BY <1>12, <1>13 DEF SameDivisors
<1>15. y = gcd(a, b)
  BY <1>7
<1> HIDE DEF x, y
<1>16. x % y = 0
  BY <1>12, <1>13
<1>17. Divides(y, x)
  <2>1. PICK k \in Nat : x = k * y + 0
    BY <1>13, <1>16, Place
  <2>2. x = y * k
    BY <1>13, <2>1
  <2> QED
    BY <2>2 DEF Divides
<1>18. Divides(y, y)
  <2>1. y = y * 1
    BY <1>13
  <2> QED
    BY <2>1 DEF Divides
<1> QED
  BY <1>13, <1>14, <1>15, <1>17, <1>18

-----------------------------------------------------------------------------
(* permute_args: one cycle.                                                 *)

\* Where a word goes.
Goes(x, first, middle, end) == IF x >= middle THEN x - (middle - first) ELSE x + (end - middle)

\* The places of a cycle are numbered in the order in which the loop comes to them; it
\* begins and ends at the last one.
Cyclic(C, num, L, cstart, first, middle, end) ==
  /\ num \in [C -> 1 .. L]
  /\ \A x \in C, y \in C : num[x] = num[y] => x = y
  /\ \A x \in C : /\ Goes(x, first, middle, end) \in C
                  /\ num[Goes(x, first, middle, end)] = IF num[x] = L THEN 1 ELSE num[x] + 1
  /\ cstart \in C /\ num[cstart] = L

\* The words at C have gone where they go, the others have not moved.
Gone(new, old, C, D, first, middle, end) ==
  /\ \A x \in C : new[Goes(x, first, middle, end)] = old[x]
  /\ \A x \in D \ C : new[x] = old[x]

\* After j turns of the inner loop, fewer than all: the places numbered up to j have their
\* words, and the place where the cycle begins has the word that goes next.
Underway(s, j, old, C, D, num, L, cstart, first, middle, end) ==
  /\ num[s.pos] = IF j = 0 THEN L ELSE j
  /\ \A x \in C : num[x] < j \/ (x = cstart /\ j > 0) =>
       s.argv[Goes(x, first, middle, end)] = old[x]
  /\ s.argv[cstart] = old[s.pos]
  /\ \A x \in C : x # cstart /\ num[x] > j => s.argv[x] = old[x]
  /\ \A x \in D \ C : s.argv[x] = old[x]

\* Two words change places.
LEMMA Swapped ==
  ASSUME NEW D, NEW W, NEW f \in [D -> W], NEW p \in D, NEW c \in D,
         NEW g, g = [f EXCEPT ![p] = f[c], ![c] = f[p]]
  PROVE  /\ g \in [D -> W] /\ g[c] = f[p] /\ (p # c => g[p] = f[c]) /\ (p = c => g = f)
         /\ \A x \in D : x # p /\ x # c => g[x] = f[x]
OBVIOUS

\* A turn of the inner loop that does not end the cycle.
LEMMA CycleTurn ==
  ASSUME NEW D, NEW W, NEW C \in SUBSET D, NEW L \in Nat \ {0}, NEW num, NEW cstart,
         NEW first, NEW middle, NEW end, Cyclic(C, num, L, cstart, first, middle, end),
         NEW old, NEW j \in 1 .. L - 1, NEW s \in [pos : C, argv : [D -> W]],
         Underway(s, j - 1, old, C, D, num, L, cstart, first, middle, end)
  PROVE  Underway(swap_turn(s, cstart, first, middle, end), j, old, C, D, num, L, cstart, first, middle, end)
<1> DEFINE p == s.pos
           q == Goes(s.pos, first, middle, end)
           f == s.argv
           g == [s.argv EXCEPT ![q] = s.argv[cstart], ![cstart] = s.argv[q]]
           go(x) == Goes(x, first, middle, end)
           t == swap_turn(s, cstart, first, middle, end)
<1>1. t.pos = q /\ t.argv = g
  BY DEF swap_turn, Goes
<1>2. p \in C /\ f \in [D -> W] /\ cstart \in C /\ cstart \in D
  BY DEF Cyclic
<1>3. /\ \A x \in C : num[x] \in 1 .. L /\ go(x) \in C
      /\ \A x \in C : num[go(x)] = IF num[x] = L THEN 1 ELSE num[x] + 1
      /\ \A x \in C, y \in C : num[x] = num[y] => x = y
      /\ num[cstart] = L
  BY DEF Cyclic
<1>4. num[p] = IF j - 1 = 0 THEN L ELSE j - 1
  BY DEF Underway
<1>5. q \in C /\ q \in D
  BY <1>2, <1>3
<1>6. num[q] = j /\ q # cstart
  BY <1>2, <1>3, <1>4
<1>7. /\ g[cstart] = f[q] /\ g[q] = f[cstart]
      /\ \A x \in D : x # q /\ x # cstart => g[x] = f[x]
  <2> HIDE DEF q, f
  <2>1. g = [f EXCEPT ![q] = f[cstart], ![cstart] = f[q]]
    BY DEF f
  <2> HIDE DEF g
  <2> QED
    BY <1>2, <1>5, <1>6, <2>1, Swapped
<1>8. /\ \A x \in C : num[x] < j - 1 \/ (x = cstart /\ j - 1 > 0) => f[go(x)] = old[x]
      /\ f[cstart] = old[p]
      /\ \A x \in C : x # cstart /\ num[x] > j - 1 => f[x] = old[x]
      /\ \A x \in D \ C : f[x] = old[x]
  BY DEF Underway
<1>9. go(p) = q
  OBVIOUS
<1> HIDE DEF t, g, f, q, p, go
<1>10. ASSUME NEW x \in C, num[x] < j \/ x = cstart
       PROVE  g[go(x)] = old[x]
  <2>1. CASE x = p
    BY <1>7, <1>8, <1>9, <2>1
  <2>2. CASE x # p
    <3>1. num[x] # num[p]
      BY <1>2, <1>3, <2>2
    <3>2. num[x] < j - 1 \/ (x = cstart /\ j - 1 > 0)
      BY <1>2, <1>3, <1>4, <1>10, <3>1
    <3>3. f[go(x)] = old[x]
      BY <1>8, <3>2
    <3>4. num[go(x)] # j /\ num[go(x)] # L
      BY <1>3, <3>2
    <3>5. go(x) \in D /\ go(x) # q /\ go(x) # cstart
      BY <1>3, <1>6, <3>4
    <3> QED
      BY <1>7, <3>3, <3>5
  <2> QED
    BY <2>1, <2>2
<1>11. g[cstart] = old[q]
  BY <1>5, <1>6, <1>7, <1>8
<1>12. ASSUME NEW x \in C, x # cstart, num[x] > j PROVE g[x] = old[x]
  <2>1. x \in D /\ x # q /\ num[x] > j - 1
    BY <1>3, <1>6, <1>12
  <2> QED
    BY <1>7, <1>8, <1>12, <2>1
<1>13. ASSUME NEW x \in D \ C PROVE g[x] = old[x]
  BY <1>2, <1>5, <1>7, <1>8
<1>14. Underway(t, j, old, C, D, num, L, cstart, first, middle, end)
  <2>1. \A x \in C : num[x] < j \/ (x = cstart /\ j > 0) => t.argv[Goes(x, first, middle, end)] = old[x]
    BY <1>1, <1>10 DEF go
  <2>2. num[t.pos] = IF j = 0 THEN L ELSE j
    BY <1>1, <1>6
  <2>3. t.argv[cstart] = old[t.pos]
    BY <1>1, <1>11
  <2>4. \A x \in C : x # cstart /\ num[x] > j => t.argv[x] = old[x]
    BY <1>1, <1>12
  <2>5. \A x \in D \ C : t.argv[x] = old[x]
    BY <1>1, <1>13
  <2> QED
    BY <2>1, <2>2, <2>3, <2>4, <2>5 DEF Underway
<1> QED
  BY <1>14 DEF t

\* The whole inner loop.
LEMMA CycleMoves ==
  ASSUME NEW D, NEW W, NEW C \in SUBSET D, NEW L \in Nat \ {0}, NEW num, NEW cstart,
         NEW first, NEW middle, NEW end, Cyclic(C, num, L, cstart, first, middle, end),
         NEW old \in [D -> W]
  PROVE  /\ cycle(old, cstart, L, first, middle, end) \in [D -> W]
         /\ Gone(cycle(old, cstart, L, first, middle, end), old, C, D, first, middle, end)
<1> DEFINE T == [pos : C, argv : [D -> W]]
           s0 == [pos |-> cstart, argv |-> old]
           turn(s) == swap_turn(s, cstart, first, middle, end)
           step == [k \in 1 .. L |-> [s \in T |-> turn(s)]]
           Is(st) == st = [j \in 0 .. L |-> IF j = 0 THEN s0 ELSE turn(st[j - 1])]
           st == CHOOSE st : Is(st)
           new == cycle(old, cstart, L, first, middle, end)
<1>1. /\ cstart \in C /\ num[cstart] = L /\ num \in [C -> 1 .. L]
      /\ \A x \in C : Goes(x, first, middle, end) \in C
      /\ \A x \in C, y \in C : num[x] = num[y] => x = y
      /\ \A x \in C : num[Goes(x, first, middle, end)] = IF num[x] = L THEN 1 ELSE num[x] + 1
  BY DEF Cyclic
<1>2. s0 \in T
  BY <1>1
<1>3. ASSUME NEW s \in T PROVE turn(s) \in T
  <2> DEFINE q == Goes(s.pos, first, middle, end)
             g == [s.argv EXCEPT ![q] = s.argv[cstart], ![cstart] = s.argv[q]]
  <2>1. q \in C /\ q \in D /\ cstart \in D /\ s.argv \in [D -> W]
    BY <1>1
  <2>2. turn(s) = [pos |-> q, argv |-> g]
    BY DEF swap_turn, Goes
  <2> HIDE DEF q
  <2>3. g \in [D -> W]
    BY <2>1
  <2> HIDE DEF g
  <2> QED
    BY <2>1, <2>2, <2>3
<1> HIDE DEF T, s0, turn
<1>4. step \in [1 .. L -> [T -> T]]
  BY <1>3
<1> HIDE DEF step
<1>5. PICK h : Recursive(h, L, T, s0, step)
  BY <1>2, <1>4, Recursion
<1>6. Is(h)
  <2>1. h \in [0 .. L -> T] /\ h[0] = s0
    BY <1>5 DEF Recursive
  <2>2. ASSUME NEW k \in 1 .. L PROVE h[k] = turn(h[k - 1])
    <3>1. h[k] = step[k][h[k - 1]] /\ h[k - 1] \in T
      BY <1>5, <2>1 DEF Recursive
    <3> QED
      BY <3>1 DEF step
  <2> QED
    BY <2>1, <2>2
<1> HIDE DEF Is
<1>7. Is(st)
  BY <1>6, Zenon
<1>8. new = st[L].argv
  BY DEF cycle, st, Is, s0, turn
<1> HIDE DEF st, new
<1>9. st[0] = s0 /\ \A k \in 1 .. L : st[k] = turn(st[k - 1])
  BY <1>7 DEF Is
<1> DEFINE n == L - 1
           Way(s, j) == Underway(s, j, old, C, D, num, L, cstart, first, middle, end)
           G == {j \in 0 .. n : st[j] \in T /\ Way(st[j], j)}
<1>10. 0 \in G
  <2>1. s0.pos = cstart /\ s0.argv = old
    BY DEF s0
  <2>2. \A x \in C : ~(num[x] < 0) /\ ~(0 > 0)
    BY <1>1
  <2>3. Way(s0, 0)
    BY <1>1, <2>1, <2>2 DEF Underway
  <2> HIDE DEF Way
  <2> QED
    BY <1>2, <1>9, <2>3
<1>11. ASSUME NEW j \in 1 .. n, j - 1 \in G PROVE j \in G
  <2> DEFINE s == st[j - 1]
  <2>1. s \in T /\ Way(s, j - 1) /\ st[j] = turn(s)
    BY <1>9, <1>11
  <2> HIDE DEF s
  <2>2. turn(s) \in T
    BY <1>3, <2>1
  <2>3. Way(turn(s), j)
    BY <2>1, CycleTurn DEF T, turn
  <2> HIDE DEF Way
  <2> QED
    BY <2>1, <2>2, <2>3
<1> HIDE DEF G
<1>12. n \in Nat /\ n \in 0 .. n
  OBVIOUS
<1>13. n \in G
  <2> HIDE DEF n
  <2>1. \A k \in 0 .. n : k \in G
    BY <1>10, <1>11, <1>12, Turns
  <2> QED
    BY <1>12, <2>1
<1> DEFINE s == st[n]
           q == Goes(s.pos, first, middle, end)
<1>14. s \in T /\ Way(s, n) /\ st[L] = turn(s)
  <2>1. L \in 1 .. L /\ L - 1 = n
    OBVIOUS
  <2> QED
    BY <1>9, <1>13, <2>1 DEF G
<1> HIDE DEF s
<1>15. s.pos \in C /\ s.argv \in [D -> W] /\ num[s.pos] = IF n = 0 THEN L ELSE n
  BY <1>14 DEF T, Underway
<1>16. q = cstart
  <2>1. q \in C /\ num[q] = L
    BY <1>1, <1>15
  <2> QED
    BY <1>1, <2>1
<1>17. new = s.argv
  <2>1. turn(s).argv = [s.argv EXCEPT ![q] = s.argv[cstart], ![cstart] = s.argv[q]]
    BY DEF turn, swap_turn, Goes
  <2> HIDE DEF q
  <2>2. cstart \in D
    BY <1>1
  <2>3. turn(s).argv = s.argv
    BY <1>15, <1>16, <2>1, <2>2
  <2> QED
    BY <1>8, <1>14, <2>3
<1>18. /\ \A x \in C : num[x] < n \/ (x = cstart /\ n > 0) => s.argv[Goes(x, first, middle, end)] = old[x]
       /\ s.argv[cstart] = old[s.pos]
       /\ \A x \in D \ C : s.argv[x] = old[x]
  BY <1>14 DEF Underway
<1>19. ASSUME NEW x \in C PROVE s.argv[Goes(x, first, middle, end)] = old[x]
  <2>1. CASE x = s.pos
    BY <1>16, <1>18, <2>1
  <2>2. CASE x # s.pos
    <3>1. num[x] # num[s.pos] /\ num[x] \in 1 .. L
      BY <1>1, <1>15, <2>2
    <3>2. num[x] < n \/ (num[x] = L /\ n > 0)
      BY <1>15, <3>1
    <3>3. num[x] < n \/ (x = cstart /\ n > 0)
      BY <1>1, <3>2
    <3> QED
      BY <1>18, <3>3
  <2> QED
    BY <2>1, <2>2
<1>20. Gone(new, old, C, D, first, middle, end)
  BY <1>17, <1>18, <1>19 DEF Gone
<1> QED
  BY <1>15, <1>17, <1>20 DEF new

-----------------------------------------------------------------------------
(* permute_args: the places of a cycle, numbered.                           *)

\* w is the inverse of q among the rests of L.
Inverts(w, z, q, L) == w * q + z * L = 1

\* The rest of w times y.
Rest(w, y, L) == (w * y) % L

\* It is one.
LEMMA RestInRange ==
  ASSUME NEW L \in Nat \ {0}, NEW w \in Int, NEW y \in Int
  PROVE  Rest(w, y, L) \in 0 .. L - 1
<1> DEFINE n == w * y
<1>1. n \in Int
  OBVIOUS
<1> HIDE DEF n
<1>2. n % L \in 0 .. L - 1
  BY <1>1, Between
<1> QED
  BY <1>2 DEF n, Rest

\* One more time q is one more, or all around.
IsNext(s, r, L) == s = IF r = L - 1 THEN 0 ELSE r + 1

LEMMA NextRest ==
  ASSUME NEW L \in Nat \ {0}, NEW q \in Int, NEW w \in Int, NEW z \in Int, Inverts(w, z, q, L), NEW y \in Int
  PROVE  IsNext(Rest(w, y + q, L), Rest(w, y, L), L)
<1> DEFINE n == w * y
           k == w * (y + q)
           m == n \div L
           r == n % L
<1>1. n \in Int /\ k \in Int
  OBVIOUS
<1>2. m \in Int /\ r \in 0 .. L - 1 /\ n = m * L + r
  <2> HIDE DEF n
  <2> QED
    BY <1>1, Between
<1>3. k = n + w * q /\ w * q = 1 - z * L
  <2>1. w * (y + q) = w * y + w * q
    OBVIOUS
  <2>2. w * q \in Int /\ z * L \in Int
    OBVIOUS
  <2> QED
    BY <2>1, <2>2 DEF Inverts
<1>4. k = (m - z) * L + (r + 1)
  <2> DEFINE a == m * L
             b == z * L
  <2>1. (m - z) * L = a - b /\ a \in Int /\ b \in Int
    BY <1>2
  <2>2. n = a + r /\ k = n + (1 - b)
    BY <1>2, <1>3
  <2> HIDE DEF a, b, n, k
  <2> QED
    BY <1>1, <1>2, <2>1, <2>2
<1>5. (m - z + 1) * L = (m - z) * L + L /\ (m - z) * L \in Int /\ m - z \in Int
  BY <1>2, BlockStep
<1> HIDE DEF k, m, r, n
<1>6. CASE r = L - 1
  <2>1. k = (m - z + 1) * L + 0 /\ m - z + 1 \in Int /\ 0 \in 0 .. L - 1
    BY <1>4, <1>5, <1>6
  <2>2. k % L = 0
    BY <1>1, <2>1, RestIs
  <2> QED
    BY <1>6, <2>2 DEF k, r, n, Rest, IsNext
<1>7. CASE r # L - 1
  <2>1. r + 1 \in 0 .. L - 1
    BY <1>2, <1>7
  <2> DEFINE d == m - z
             s == r + 1
  <2>2. k = d * L + s /\ d \in Int /\ s \in 0 .. L - 1
    BY <1>4, <1>5, <2>1
  <2> HIDE DEF d, s
  <2>3. k % L = s
    BY <1>1, <2>2, RestIs
  <2> QED
    BY <1>7, <2>3 DEF k, r, n, s, Rest, IsNext
<1> QED
  BY <1>6, <1>7

\* All around changes no rest.
LEMMA SameRest ==
  ASSUME NEW L \in Nat \ {0}, NEW w \in Int, NEW y \in Int
  PROVE  Rest(w, y - L, L) = Rest(w, y, L)
<1> DEFINE n == w * y
           k == w * (y - L)
           m == n \div L
           r == n % L
<1>1. n \in Int /\ k \in Int /\ k = n - w * L
  OBVIOUS
<1>2. m \in Int /\ r \in 0 .. L - 1 /\ n = m * L + r
  <2> HIDE DEF n
  <2> QED
    BY <1>1, Between
<1>3. k = (m - w) * L + r
  <2>1. (m - w) * L = m * L - w * L /\ m * L \in Int /\ w * L \in Int
    BY <1>2
  <2> HIDE DEF n, k
  <2> QED
    BY <1>1, <1>2, <2>1
<1> HIDE DEF k, m, r, n
<1>4. m - w \in Int
  BY <1>2
<1> QED
  <2>1. k % L = r
    BY <1>1, <1>2, <1>3, <1>4, RestIs
  <2> QED
    BY <2>1 DEF k, r, n, Rest

\* Different numbers below L have different rests.
LEMMA OtherRest ==
  ASSUME NEW L \in Nat \ {0}, NEW q \in Int, NEW w \in Int, NEW z \in Int, Inverts(w, z, q, L),
         NEW x \in 0 .. L - 1, NEW y \in 0 .. L - 1, Rest(w, x, L) = Rest(w, y, L)
  PROVE  x = y
<1> DEFINE n == w * x
           k == w * y
           m == n \div L
           l == k \div L
           r == n % L
           e == x - y
           h == q * (m - l) + z * e
<1>1. n \in Int /\ k \in Int /\ n - k = w * e /\ e \in Int
  OBVIOUS
<1>2. m \in Int /\ l \in Int /\ n = m * L + r /\ k = l * L + r /\ r \in 0 .. L - 1
  <2>1. k % L = r
    BY DEF Rest
  <2> HIDE DEF n, k
  <2> QED
    BY <1>1, <2>1, Between
<1>3. w * e = (m - l) * L
  <2>1. (m - l) * L = m * L - l * L /\ m * L \in Int /\ l * L \in Int
    BY <1>2
  <2> HIDE DEF n, k, m, l, r, e
  <2> QED
    BY <1>1, <1>2, <2>1
<1>4. h \in Int
  BY <1>1, <1>2
<1>5. e = h * L
  <2>1. e = (w * q + z * L) * e
    BY <1>1 DEF Inverts
  <2>2. (w * q + z * L) * e = q * (w * e) + (z * e) * L
    BY <1>1
  <2>3. q * ((m - l) * L) + (z * e) * L = h * L
    BY <1>1, <1>2
  <2> HIDE DEF e, m, l, h
  <2> QED
    BY <1>3, <2>1, <2>2, <2>3
<1>6. x = h * L + y
  BY <1>5
<1>7. x = 0 * L + x
  OBVIOUS
<1> HIDE DEF h
<1>8. h * L + y = 0 * L + x
  BY <1>6, <1>7
<1> QED
  BY <1>4, <1>8, OneRest

\* The place p = L - q is the last one.
LEMMA LastRest ==
  ASSUME NEW L \in Nat \ {0}, NEW q \in Int, NEW w \in Int, NEW z \in Int, Inverts(w, z, q, L)
  PROVE  Rest(w, L - q, L) = L - 1
<1> DEFINE k == w * (L - q)
<1>1. k = w * L - w * q
  OBVIOUS
<1>2. w * q = 1 - z * L
  <2>1. w * q \in Int /\ z * L \in Int
    OBVIOUS
  <2> QED
    BY <2>1 DEF Inverts
<1>3. (w + z - 1) * L = w * L + z * L - L
  OBVIOUS
<1>4. k = (w + z - 1) * L + (L - 1)
  <2>1. w * L \in Int /\ z * L \in Int
    OBVIOUS
  <2> HIDE DEF k
  <2> QED
    BY <1>1, <1>2, <1>3, <2>1
<1>5. w + z - 1 \in Int /\ L - 1 \in 0 .. L - 1 /\ k \in Int
  OBVIOUS
<1> HIDE DEF k
<1>6. k % L = L - 1
  <2> DEFINE d == w + z - 1
  <2>1. k = d * L + (L - 1) /\ d \in Int
    BY <1>4
  <2> HIDE DEF d
  <2> QED
    BY <1>5, <2>1, RestIs
<1> QED
  BY <1>6 DEF k, Rest

\* The places a cycle comes to lie g apart.
Class(i, g, first, end) == {x \in first .. end - 1 : (x - first) % g = i}

\* Two blocks of p and q times g words, and what makes q the inverse of some w.
TwoBlocks(g, p, q, first, middle, end) == middle = first + p * g /\ end = middle + q * g

PlaceAt(y, i, g, first) == first + y * g + i
NumberOf(x, g, first) == (x - first) \div g
Numbered(x, y, g, first) == NumberOf(x, g, first) = y
IsPlace(x, y, i, g, first) == x = PlaceAt(y, i, g, first)

\* The y-th of these places.
LEMMA ClassPlace ==
  ASSUME NEW g \in Nat \ {0}, NEW p \in Nat \ {0}, NEW q \in Nat \ {0},
         NEW first \in Int, NEW middle \in Int, NEW end \in Int, TwoBlocks(g, p, q, first, middle, end),
         NEW i \in 0 .. g - 1, NEW y \in 0 .. (p + q) - 1
  PROVE  /\ PlaceAt(y, i, g, first) \in Class(i, g, first, end)
         /\ Numbered(PlaceAt(y, i, g, first), y, g, first)
         /\ PlaceAt(y, i, g, first) >= middle <=> y >= p
<1> DEFINE L == p + q
           a == p * g
           b == L * g
           c == y * g
           x == first + c + i
<1>1. end = first + b /\ middle = first + a
  <2>1. (p + q) * g = p * g + q * g /\ p * g \in Int /\ q * g \in Int
    OBVIOUS
  <2> QED
    BY <2>1 DEF TwoBlocks
<1>2. a \in Int /\ b \in Int /\ c \in Nat /\ L \in Nat /\ y \in Int /\ y + 1 \in Int
  OBVIOUS
<1>3. c + g <= b
  <2>1. (y + 1) * g <= L * g /\ (y + 1) * g = y * g + g
    <3>1. y + 1 <= L
      OBVIOUS
    <3> HIDE DEF L
    <3> QED
      BY <1>2, <3>1, BlockOrder, BlockStep
  <2> QED
    BY <2>1
<1>4. y >= p => c >= a
  BY <1>2, BlockOrder
<1>5. y < p => c + g <= a
  <2> SUFFICES ASSUME y < p PROVE c + g <= a
    OBVIOUS
  <2>1. (y + 1) * g <= p * g /\ (y + 1) * g = y * g + g
    <3>1. y + 1 <= p
      OBVIOUS
    <3> QED
      BY <1>2, <3>1, BlockOrder, BlockStep
  <2> QED
    BY <2>1
<1>6. x - first = y * g + i /\ x \in Int
  BY <1>2
<1>7. (x - first) % g = i /\ (x - first) \div g = y
  <2> DEFINE n == x - first
  <2>1. n \in Int /\ n = y * g + i
    BY <1>6
  <2> HIDE DEF n, x
  <2>2. n % g = i /\ n \div g = y
    BY <1>2, <2>1, RestIs
  <2> QED
    BY <2>2 DEF n
<1> HIDE DEF a, b, c
<1>8. x \in first .. end - 1
  BY <1>1, <1>2, <1>3
<1>9. x >= middle <=> y >= p
  BY <1>1, <1>2, <1>4, <1>5
<1>10. x \in Class(i, g, first, end)
  BY <1>7, <1>8 DEF Class
<1> QED
  BY <1>7, <1>9, <1>10 DEF c, PlaceAt, NumberOf, Numbered

\* Every place of the class is one of these.
LEMMA PlaceOfClass ==
  ASSUME NEW g \in Nat \ {0}, NEW p \in Nat \ {0}, NEW q \in Nat \ {0},
         NEW first \in Int, NEW middle \in Int, NEW end \in Int, TwoBlocks(g, p, q, first, middle, end),
         NEW i \in 0 .. g - 1, NEW x \in Class(i, g, first, end)
  PROVE  NumberOf(x, g, first) \in 0 .. (p + q) - 1 /\ IsPlace(x, NumberOf(x, g, first), i, g, first)
<1> DEFINE n == x - first
           L == p + q
<1>1. x \in Int /\ n \in Nat /\ n % g = i /\ x <= end - 1
  BY DEF Class
<1>2. end = first + L * g
  <2>1. (p + q) * g = p * g + q * g /\ p * g \in Int /\ q * g \in Int
    OBVIOUS
  <2> QED
    BY <2>1 DEF TwoBlocks
<1> HIDE DEF n
<1>3. PICK y \in Nat, r \in 0 .. g - 1 : n = y * g + r /\ y = n \div g /\ r = n % g
  BY <1>1, Place
<1>4. r = i
  BY <1>1, <1>3
<1>5. y < L
  <2> SUFFICES ASSUME L <= y PROVE FALSE
    BY <1>3
  <2>1. L * g <= y * g /\ L * g \in Int /\ y * g \in Int
    BY <1>3, BlockOrder
  <2> DEFINE b == L * g
             c == y * g
  <2>2. b <= c /\ b \in Int /\ c \in Int /\ end = first + b /\ n = c + i
    BY <1>2, <1>3, <1>4, <2>1
  <2> HIDE DEF b, c
  <2> QED
    BY <1>1, <2>2 DEF n
<1>6. x = first + y * g + i
  BY <1>1, <1>3, <1>4 DEF n
<1> QED
  BY <1>3, <1>5, <1>6 DEF n, PlaceAt, NumberOf, IsPlace

\* So the inner loop comes to all of them before it is back where it began.
LEMMA ClassIsCyclic ==
  ASSUME NEW g \in Nat \ {0}, NEW p \in Nat \ {0}, NEW q \in Nat \ {0},
         NEW w \in Int, NEW z \in Int, Inverts(w, z, q, p + q),
         NEW first \in Int, NEW middle \in Int, NEW end \in Int, TwoBlocks(g, p, q, first, middle, end),
         NEW i \in 0 .. g - 1
  PROVE  \E num : Cyclic(Class(i, g, first, end), num, p + q, middle + i, first, middle, end)
<1> DEFINE L == p + q
           C == Class(i, g, first, end)
           turns(x) == NumberOf(x, g, first)
           num == [x \in C |-> Rest(w, turns(x), L) + 1]
           go(x) == Goes(x, first, middle, end)
           at(y) == PlaceAt(y, i, g, first)
<1>1. q \in Int /\ L \in Nat \ {0} /\ L - q = p /\ p \in 0 .. L - 1 /\ Inverts(w, z, q, L)
  OBVIOUS
<1>2. ASSUME NEW y \in 0 .. L - 1
      PROVE  at(y) \in C /\ turns(at(y)) = y /\ (at(y) >= middle <=> y >= p) /\ num[at(y)] = Rest(w, y, L) + 1
  <2>1. at(y) \in C /\ Numbered(at(y), y, g, first) /\ (at(y) >= middle <=> y >= p)
    BY ClassPlace
  <2>2. turns(at(y)) = y
    BY <2>1 DEF Numbered
  <2> HIDE DEF at, turns, C
  <2> QED
    BY <2>1, <2>2
<1>3. ASSUME NEW x \in C PROVE \E y \in 0 .. L - 1 : x = at(y) /\ y = turns(x)
  <2>1. turns(x) \in 0 .. L - 1 /\ IsPlace(x, turns(x), i, g, first)
    BY PlaceOfClass
  <2> QED
    BY <2>1 DEF IsPlace
<1>4. ASSUME NEW y \in 0 .. L - 1
      PROVE  go(at(y)) = IF y >= p THEN at(y - p) ELSE at(y + q)
  <2>1. middle - first = p * g /\ end - middle = q * g /\ p * g \in Int /\ q * g \in Int /\ y * g \in Int
    BY DEF TwoBlocks
  <2>2. (y - p) * g = y * g - p * g /\ (y + q) * g = y * g + q * g
    OBVIOUS
  <2>3. go(at(y)) = IF y >= p THEN at(y) - (middle - first) ELSE at(y) + (end - middle)
    BY <1>2 DEF Goes
  <2> DEFINE a == p * g
             b == q * g
             c == y * g
  <2>4. at(y) - a = first + (c - a) + i /\ at(y) + b = first + (c + b) + i
    BY <2>1 DEF PlaceAt
  <2> QED
    BY <2>1, <2>2, <2>3, <2>4 DEF PlaceAt
<1>5. ASSUME NEW x \in C PROVE num[x] \in 1 .. L
  <2>1. PICK y \in 0 .. L - 1 : x = at(y)
    BY <1>3
  <2>2. num[x] = Rest(w, y, L) + 1
    BY <1>2, <2>1
  <2>3. y \in Int
    OBVIOUS
  <2> HIDE DEF num
  <2>4. Rest(w, y, L) \in 0 .. L - 1
    BY <1>1, <2>3, RestInRange
  <2> QED
    BY <1>1, <2>2, <2>4
<1>6. ASSUME NEW x \in C, NEW x2 \in C, num[x] = num[x2] PROVE x = x2
  <2>1. PICK y \in 0 .. L - 1 : x = at(y)
    BY <1>3
  <2>2. PICK y2 \in 0 .. L - 1 : x2 = at(y2)
    BY <1>3
  <2> DEFINE r == Rest(w, y, L)
             r2 == Rest(w, y2, L)
  <2>3. r + 1 = r2 + 1
    BY <1>2, <1>6, <2>1, <2>2
  <2>4. r \in Int /\ r2 \in Int
    <3>1. y \in Int /\ y2 \in Int
      OBVIOUS
    <3>2. r \in 0 .. L - 1 /\ r2 \in 0 .. L - 1
      BY <1>1, <3>1, RestInRange
    <3> QED
      BY <3>2
  <2>5. r = r2
    BY <2>3, <2>4
  <2>6. y = y2
    <3> HIDE DEF L
    <3> QED
      BY <1>1, <2>5, OtherRest
  <2> QED
    BY <2>1, <2>2, <2>6
<1>7. ASSUME NEW x \in C PROVE go(x) \in C /\ num[go(x)] = IF num[x] = L THEN 1 ELSE num[x] + 1
  <2>1. PICK y \in 0 .. L - 1 : x = at(y)
    BY <1>3
  <2> DEFINE y2 == IF y >= p THEN y - p ELSE y + q
             r == Rest(w, y, L)
             r2 == Rest(w, y + q, L)
  <2>2. y2 \in 0 .. L - 1 /\ go(x) = at(y2)
    BY <1>4, <2>1
  <2>3. r2 = IF r = L - 1 THEN 0 ELSE r + 1
    <3>1. y \in Int
      OBVIOUS
    <3> HIDE DEF L
    <3>2. IsNext(Rest(w, y + q, L), Rest(w, y, L), L)
      BY <1>1, <3>1, NextRest
    <3> QED
      BY <3>2 DEF IsNext
  <2>4. Rest(w, y2, L) = r2
    <3>1. CASE y >= p
      <4>1. y2 = (y + q) - L /\ y + q \in Int
        BY <3>1
      <4> HIDE DEF L, y2
      <4> DEFINE e == y + q
      <4>2. e \in Int /\ y2 = e - L
        BY <4>1
      <4> HIDE DEF e
      <4>3. Rest(w, y2, L) = Rest(w, e, L)
        BY <1>1, <4>2, SameRest
      <4> QED
        BY <4>3 DEF e
    <3>2. CASE ~(y >= p)
      <4>1. y2 = y + q
        BY <3>2
      <4> QED
        BY <4>1
    <3> QED
      BY <3>1, <3>2
  <2> HIDE DEF y2, at, go, num
  <2>5. go(x) \in C /\ num[go(x)] = r2 + 1
    BY <1>2, <2>2, <2>4
  <2>6. num[x] = r + 1 /\ num[x] \in 1 .. L
    BY <1>2, <1>5, <2>1
  <2>7. r \in Int
    <3>1. y \in Int
      OBVIOUS
    <3>2. r \in 0 .. L - 1
      BY <1>1, <3>1, RestInRange
    <3> QED
      BY <3>2
  <2> HIDE DEF r, r2
  <2> QED
    BY <1>1, <2>3, <2>5, <2>6, <2>7
<1>8. middle + i \in C /\ num[middle + i] = L
  <2>1. middle + i = at(p)
    BY DEF TwoBlocks, PlaceAt
  <2>2. Rest(w, p, L) = L - 1
    <3>1. Rest(w, L - q, L) = L - 1
      <4> HIDE DEF L
      <4> QED
        BY <1>1, LastRest
    <3> QED
      BY <1>1, <3>1
  <2> HIDE DEF at, num
  <2> QED
    BY <1>1, <1>2, <2>1, <2>2
<1> HIDE DEF C, go
<1>9. num \in [C -> 1 .. L]
  <2> DEFINE f(x) == Rest(w, turns(x), L) + 1
  <2>1. \A x \in C : f(x) \in 1 .. L
    BY <1>5
  <2> HIDE DEF f
  <2>2. [x \in C |-> f(x)] \in [C -> 1 .. L]
    BY <2>1
  <2> QED
    BY <2>2 DEF f
<1> HIDE DEF num
<1>10. Cyclic(C, num, L, middle + i, first, middle, end)
  BY <1>5, <1>6, <1>7, <1>8, <1>9 DEF Cyclic, go
<1> QED
  BY <1>10 DEF C

-----------------------------------------------------------------------------
(* permute_args: all cycles.                                                *)

\* The two blocks as multiples of their greatest common divisor.
LEMMA InMultiples ==
  ASSUME NEW first \in Nat, NEW middle \in Nat, NEW end \in Nat, first < middle, middle < end,
         NEW g, g = gcd(middle - first, end - middle)
  PROVE  /\ g \in Nat \ {0}
         /\ \E p \in Nat \ {0}, q \in Nat \ {0} :
              /\ TwoBlocks(g, p, q, first, middle, end)
              /\ (end - first) \div g = p + q
              /\ \E w \in Int, z \in Int : Inverts(w, z, q, p + q)
<1> DEFINE a == middle - first
           b == end - middle
<1>1. a \in Nat \ {0} /\ b \in Nat \ {0}
  OBVIOUS
<1>2. middle = first + a /\ end = middle + b /\ a \in Int /\ b \in Int
  OBVIOUS
<1> HIDE DEF a, b
<1>3. g \in Nat \ {0} /\ Divides(g, a) /\ Divides(g, b) /\ Combines(g, a, b)
  <2>1. g = gcd(a, b)
    BY DEF a, b
  <2> QED
    BY <1>1, <2>1, GcdIs
<1>4. PICK p \in Nat : a = g * p
  BY <1>3 DEF Divides
<1>5. PICK q \in Nat : b = g * q
  BY <1>3 DEF Divides
<1>6. p # 0 /\ q # 0
  <2>1. g * 0 = 0
    BY <1>3
  <2> QED
    BY <1>1, <1>4, <1>5, <2>1
<1>7. a = p * g /\ b = q * g /\ p * g \in Int /\ q * g \in Int
  BY <1>3, <1>4, <1>5
<1>8. TwoBlocks(g, p, q, first, middle, end)
  BY <1>2, <1>7 DEF TwoBlocks
<1>9. (end - first) \div g = p + q
  <2> DEFINE n == end - first
             l == p + q
  <2>1. (p + q) * g = p * g + q * g
    BY <1>3
  <2>2. n = p * g + q * g
    BY <1>2, <1>7
  <2>3. n = l * g + 0
    BY <1>7, <2>1, <2>2
  <2>4. n \in Int /\ l \in Int /\ 0 \in 0 .. g - 1
    BY <1>3
  <2> HIDE DEF n, l
  <2>5. n \div g = l
    BY <1>3, <2>3, <2>4, RestIs
  <2> QED
    BY <2>5 DEF n, l
<1>10. PICK u \in Int, v \in Int : g = u * a + v * b
  BY <1>3 DEF Combines
<1>11. u * p + v * q = 1
  <2> DEFINE c == u * p + v * q
  <2>1. g = u * (p * g) + v * (q * g)
    BY <1>7, <1>10
  <2>2. u * (p * g) + v * (q * g) = c * g
    BY <1>3
  <2>3. c \in Int
    OBVIOUS
  <2> HIDE DEF c
  <2>4. c * g = g
    BY <2>1, <2>2
  <2>5. c = 1
    <3> DEFINE d == 1
    <3>1. d * g = g /\ d \in Int /\ c * g \in Int /\ 0 \in 0 .. g - 1
      BY <1>3, <2>3
    <3>2. c * g + 0 = d * g + 0
      BY <1>3, <2>4, <3>1
    <3> HIDE DEF d
    <3> QED
      BY <1>3, <2>3, <3>1, <3>2, OneRest DEF d
  <2> QED
    BY <2>5 DEF c
<1>12. Inverts(v - u, u, q, p + q) /\ v - u \in Int
  <2>1. (v - u) * q + u * (p + q) = u * p + v * q
    OBVIOUS
  <2> QED
    BY <1>11, <2>1 DEF Inverts
<1>13. \E w \in Int, z \in Int : Inverts(w, z, q, p + q)
  BY <1>12
<1>14. p \in Nat \ {0} /\ q \in Nat \ {0}
  BY <1>6
<1> QED
  BY <1>3, <1>8, <1>9, <1>13, <1>14

\* The words at places whose rest is below i have gone where they go.
Rotated(new, old, i, g, D, first, middle, end) ==
  /\ \A x \in first .. end - 1 : (x - first) % g < i => new[Goes(x, first, middle, end)] = old[x]
  /\ \A x \in D : (x \in first .. end - 1 => (x - first) % g >= i) => new[x] = old[x]

\* A turn of the outer loop.
LEMMA OuterTurn ==
  ASSUME NEW g \in Nat \ {0}, NEW first \in Int, NEW middle \in Int, NEW end \in Int,
         NEW D, first .. end - 1 \subseteq D, NEW old, NEW prev, NEW new, NEW i \in 0 .. g - 1,
         \A j \in 0 .. g - 1 : \A x \in Class(j, g, first, end) :
           Goes(x, first, middle, end) \in Class(j, g, first, end),
         Rotated(prev, old, i, g, D, first, middle, end),
         Gone(new, prev, Class(i, g, first, end), D, first, middle, end)
  PROVE  Rotated(new, old, i + 1, g, D, first, middle, end)
<1> DEFINE I == first .. end - 1
           rest(x) == (x - first) % g
           go(x) == Goes(x, first, middle, end)
           C == Class(i, g, first, end)
<1>1. ASSUME NEW x \in I PROVE rest(x) \in 0 .. g - 1 /\ go(x) \in I /\ rest(go(x)) = rest(x)
  <2> DEFINE n == x - first
             j == rest(x)
  <2>1. n \in Int
    OBVIOUS
  <2> HIDE DEF n
  <2>2. n % g \in 0 .. g - 1
    BY <2>1, Between
  <2>3. j \in 0 .. g - 1
    BY <2>2 DEF n
  <2>4. x \in Class(j, g, first, end)
    BY DEF Class
  <2> HIDE DEF j
  <2>5. go(x) \in Class(j, g, first, end)
    BY <2>3, <2>4
  <2>6. go(x) \in I /\ rest(go(x)) = j
    BY <2>5 DEF Class
  <2> QED
    BY <2>3, <2>6 DEF j
<1>2. \A x \in I : x \in C <=> rest(x) = i
  BY DEF Class
<1>3. C \subseteq I
  BY DEF Class
<1>4. /\ \A x \in I : rest(x) < i => prev[go(x)] = old[x]
      /\ \A x \in D : (x \in I => rest(x) >= i) => prev[x] = old[x]
  BY DEF Rotated
<1>5. /\ \A x \in C : new[go(x)] = prev[x]
      /\ \A x \in D \ C : new[x] = prev[x]
  BY DEF Gone
<1>6. I \subseteq D
  OBVIOUS
<1> HIDE DEF I, rest, go, C
<1>7. ASSUME NEW x \in I, rest(x) < i + 1 PROVE new[go(x)] = old[x]
  <2>1. CASE rest(x) = i
    BY <1>1, <1>2, <1>4, <1>5, <1>6, <2>1
  <2>2. CASE rest(x) # i
    <3>1. rest(x) < i
      BY <1>1, <1>7, <2>2
    <3>2. go(x) \in D \ C
      BY <1>1, <1>2, <1>6, <2>2
    <3> QED
      BY <1>4, <1>5, <3>1, <3>2
  <2> QED
    BY <2>1, <2>2
<1>8. ASSUME NEW x \in D, x \in I => rest(x) >= i + 1 PROVE new[x] = old[x]
  <2>1. x \in D \ C
    <3> SUFFICES ASSUME x \in C PROVE FALSE
      OBVIOUS
    <3>1. x \in I /\ rest(x) = i
      BY <1>2, <1>3
    <3> QED
      BY <1>8, <3>1
  <2>2. x \in I => rest(x) >= i
    BY <1>1, <1>8
  <2> QED
    BY <1>4, <1>5, <2>1, <2>2
<1> QED
  BY <1>7, <1>8 DEF Rotated, I, rest, go

\* permute_args makes the two blocks change places, and moves no other word.
Exchanged(new, old, n, first, middle, end) ==
  \A y \in 1 .. n :
    new[y] = IF y < first \/ y >= end THEN old[y]
             ELSE IF y < first + (end - middle) THEN old[y + (middle - first)]
             ELSE old[y - (end - middle)]

LEMMA PermuteIs ==
  ASSUME NEW W, NEW n \in Nat, NEW argv \in [1 .. n -> W],
         NEW first \in Nat, NEW middle \in Nat, NEW end \in Nat,
         1 <= first, first < middle, middle < end, end <= n + 1
  PROVE  /\ permute_args(first, middle, end, argv) \in [1 .. n -> W]
         /\ Exchanged(permute_args(first, middle, end, argv), argv, n, first, middle, end)
<1> DEFINE D == 1 .. n
           T == [D -> W]
           g == gcd(middle - first, end - middle)
           L == (end - first) \div g
           turn(f, i) == cycle(f, middle + i - 1, L, first, middle, end)
           step == [i \in 1 .. g |-> [f \in T |-> turn(f, i)]]
           Is(moved) == moved = [i \in 0 .. g |-> IF i = 0 THEN argv ELSE turn(moved[i - 1], i)]
           moved == CHOOSE moved : Is(moved)
           new == permute_args(first, middle, end, argv)
           go(x) == Goes(x, first, middle, end)
<1>1. /\ g \in Nat \ {0}
      /\ \E p \in Nat \ {0}, q \in Nat \ {0} :
           /\ TwoBlocks(g, p, q, first, middle, end)
           /\ L = p + q
           /\ \E w \in Int, z \in Int : Inverts(w, z, q, p + q)
  <2> DEFINE h == g
  <2>1. h = gcd(middle - first, end - middle)
    OBVIOUS
  <2> HIDE DEF h
  <2>2. /\ h \in Nat \ {0}
        /\ \E p \in Nat \ {0}, q \in Nat \ {0} :
             /\ TwoBlocks(h, p, q, first, middle, end)
             /\ (end - first) \div h = p + q
             /\ \E w \in Int, z \in Int : Inverts(w, z, q, p + q)
    BY <2>1, InMultiples
  <2> QED
    BY <2>2 DEF h
<1>2. new = moved[g]
  BY DEF permute_args, moved, Is, turn, L, g
<1> HIDE DEF g, L
<1>3. PICK p \in Nat \ {0}, q \in Nat \ {0} :
        /\ TwoBlocks(g, p, q, first, middle, end)
        /\ L = p + q
        /\ \E w \in Int, z \in Int : Inverts(w, z, q, p + q)
  BY <1>1
<1>4. PICK w \in Int, z \in Int : Inverts(w, z, q, p + q)
  BY <1>3
<1>5. first \in Int /\ middle \in Int /\ end \in Int /\ L \in Nat \ {0} /\ first .. end - 1 \subseteq D
  BY <1>3
<1> DEFINE C(i) == Class(i, g, first, end)
<1>6. ASSUME NEW i \in 0 .. g - 1 PROVE \E num : Cyclic(C(i), num, L, middle + i, first, middle, end)
  BY <1>1, <1>3, <1>4, <1>5, ClassIsCyclic
<1>7. \A j \in 0 .. g - 1 : \A x \in C(j) : go(x) \in C(j)
  <2> SUFFICES ASSUME NEW j \in 0 .. g - 1, NEW x \in C(j) PROVE go(x) \in C(j)
    OBVIOUS
  <2>1. PICK num : Cyclic(C(j), num, L, middle + j, first, middle, end)
    BY <1>6
  <2> HIDE DEF C
  <2> QED
    BY <2>1 DEF Cyclic
<1>8. ASSUME NEW i \in 0 .. g - 1 PROVE C(i) \in SUBSET D
  <2>1. C(i) \subseteq first .. end - 1
    BY DEF Class
  <2> QED
    BY <1>5, <2>1
<1> HIDE DEF D, T, turn
<1>9. ASSUME NEW i \in 1 .. g, NEW f \in T
      PROVE  turn(f, i) \in T /\ Gone(turn(f, i), f, C(i - 1), D, first, middle, end)
  <2> DEFINE j == i - 1
             cstart == middle + j
  <2>1. j \in 0 .. g - 1 /\ middle + i - 1 = cstart
    BY <1>1, <1>5
  <2> HIDE DEF C, j, cstart
  <2>2. PICK num : Cyclic(C(j), num, L, cstart, first, middle, end)
    BY <1>6, <2>1 DEF cstart
  <2>3. turn(f, i) = cycle(f, cstart, L, first, middle, end)
    BY <2>1 DEF turn
  <2>4. C(j) \in SUBSET D /\ f \in [D -> W]
    BY <1>8, <2>1 DEF T
  <2>5. LET e == cycle(f, cstart, L, first, middle, end)
        IN  e \in [D -> W] /\ Gone(e, f, C(j), D, first, middle, end)
    BY <1>5, <2>2, <2>4, CycleMoves, Zenon
  <2> QED
    BY <2>3, <2>5 DEF T, j
<1>10. argv \in T
  BY DEF T, D
<1>11. step \in [1 .. g -> [T -> T]]
  BY <1>9
<1> HIDE DEF step
<1>12. PICK h : Recursive(h, g, T, argv, step)
  BY <1>1, <1>10, <1>11, Recursion
<1>13. Is(h)
  <2>1. h \in [0 .. g -> T] /\ h[0] = argv
    BY <1>12 DEF Recursive
  <2>2. ASSUME NEW k \in 1 .. g PROVE h[k] = turn(h[k - 1], k)
    <3>1. h[k] = step[k][h[k - 1]] /\ h[k - 1] \in T
      BY <1>1, <1>12, <2>1 DEF Recursive
    <3> QED
      BY <3>1 DEF step
  <2> QED
    BY <1>1, <2>1, <2>2
<1> HIDE DEF Is
<1>14. Is(moved)
  BY <1>13, Zenon
<1> HIDE DEF moved, new
<1>15. moved[0] = argv /\ \A k \in 1 .. g : moved[k] = turn(moved[k - 1], k)
  BY <1>1, <1>14 DEF Is
<1> DEFINE Done(f, i) == Rotated(f, argv, i, g, D, first, middle, end)
           G == {i \in 0 .. g : moved[i] \in T /\ Done(moved[i], i)}
<1>16. 0 \in G
  <2>1. ASSUME NEW x \in first .. end - 1 PROVE ~((x - first) % g < 0)
    <3> DEFINE m == x - first
    <3>1. m \in Int
      BY <1>5
    <3> HIDE DEF m
    <3>2. m % g \in 0 .. g - 1
      BY <1>1, <3>1, Between
    <3> QED
      BY <1>1, <3>2 DEF m
  <2>2. Done(argv, 0)
    BY <2>1 DEF Rotated
  <2> HIDE DEF Done
  <2> QED
    BY <1>1, <1>10, <1>15, <2>2
<1>17. ASSUME NEW i \in 1 .. g, i - 1 \in G PROVE i \in G
  <2> DEFINE j == i - 1
             f == moved[i - 1]
             e == turn(f, i)
  <2>1. f \in T /\ Done(f, j) /\ moved[i] = e /\ j \in 0 .. g - 1 /\ j + 1 = i
    BY <1>1, <1>15, <1>17
  <2> HIDE DEF f
  <2>2. e \in T /\ Gone(e, f, C(j), D, first, middle, end)
    BY <1>9, <2>1
  <2> HIDE DEF e, j
  <2>3. Done(e, j + 1)
    BY <1>1, <1>5, <1>7, <2>1, <2>2, OuterTurn
  <2> HIDE DEF Done
  <2> QED
    BY <2>1, <2>2, <2>3
<1> HIDE DEF G
<1>18. g \in G
  <2>1. \A k \in 0 .. g : k \in G
    BY <1>1, <1>16, <1>17, Turns
  <2> QED
    BY <1>1, <2>1
<1>19. new \in T /\ Rotated(new, argv, g, g, D, first, middle, end)
  BY <1>2, <1>18 DEF G
<1>20. ASSUME NEW x \in first .. end - 1 PROVE new[go(x)] = argv[x]
  <2> DEFINE m == x - first
  <2>1. m \in Int
    BY <1>5
  <2> HIDE DEF m
  <2>2. m % g \in 0 .. g - 1
    BY <1>1, <2>1, Between
  <2>3. (x - first) % g < g
    BY <1>1, <2>2 DEF m
  <2> QED
    BY <1>19, <2>3 DEF Rotated
<1>21. ASSUME NEW y \in 1 .. n, y < first \/ y >= end PROVE new[y] = argv[y]
  <2>1. y \notin first .. end - 1 /\ y \in D
    BY <1>5, <1>21 DEF D
  <2> QED
    BY <1>19, <2>1 DEF Rotated
<1>22. ASSUME NEW y \in 1 .. n, ~(y < first \/ y >= end), y < first + (end - middle)
       PROVE  new[y] = argv[y + (middle - first)]
  <2> DEFINE x == y + (middle - first)
  <2>1. x \in first .. end - 1 /\ go(x) = y
    BY <1>22 DEF Goes
  <2> HIDE DEF x, go
  <2>2. new[y] = argv[x]
    BY <1>20, <2>1
  <2> QED
    BY <2>2 DEF x
<1>23. ASSUME NEW y \in 1 .. n, ~(y < first \/ y >= end), ~(y < first + (end - middle))
       PROVE  new[y] = argv[y - (end - middle)]
  <2> DEFINE x == y - (end - middle)
  <2>1. x \in first .. end - 1 /\ go(x) = y
    BY <1>23 DEF Goes
  <2> HIDE DEF x, go
  <2>2. new[y] = argv[x]
    BY <1>20, <2>1
  <2> QED
    BY <2>2 DEF x
<1>24. Exchanged(new, argv, n, first, middle, end)
  BY <1>21, <1>22, <1>23 DEF Exchanged
<1> QED
  BY <1>19, <1>24 DEF T, D, new

-----------------------------------------------------------------------------
(* The command line, read.                                                  *)

\* The number of long options is left to the table.
LEMMA TableLen == Indexes = 1 .. 8
  BY DEF Indexes, long_options

\* Each option does what it is for.
LEMMA ToldIs ==
  ASSUME NEW m \in Indexes, NEW arg
  PROVE  Told(m, arg) = [option |-> m, arg |-> arg, calls |-> Setters[m]]
<1> DEFINE calls(i) == IF long_options[i].val = "0" THEN eval_long_option(long_options[i].name)
                       ELSE by_letter(long_options[i].val)
<1>1. m \in 1 .. 8
  BY TableLen
<1>2. m = 1 => calls(m) = Setters[m]
  BY DEF long_options, by_letter, Setters
<1>3. m = 2 => calls(m) = Setters[m]
  BY DEF long_options, by_letter, Setters
<1>4. m = 3 => calls(m) = Setters[m]
  BY DEF long_options, by_letter, Setters
<1>5. m = 4 => calls(m) = Setters[m]
  BY DEF long_options, by_letter, Setters
<1>6. m = 5 => calls(m) = Setters[m]
  BY DEF long_options, eval_long_option, Setters
<1>7. m = 6 => calls(m) = Setters[m]
  BY DEF long_options, eval_long_option, Setters
<1>8. m = 7 => calls(m) = Setters[m]
  BY DEF long_options, eval_long_option, Setters
<1>9. m = 8 => calls(m) = Setters[m]
  BY DEF long_options, eval_long_option, Setters
<1> HIDE DEF calls
<1>10. calls(m) = Setters[m]
  BY <1>1, <1>2, <1>3, <1>4, <1>5, <1>6, <1>7, <1>8, <1>9
<1> QED
  BY <1>10 DEF Told, calls

LEMMA MatchedIs == ASSUME NEW x PROVE matched(x) \in Indexes \cup {0}
<1> DEFINE begins == {i \in Indexes : IsPrefix(x, long_options[i].name)}
           exact == {i \in begins : long_options[i].name = x}
           least(S) == CHOOSE i \in S : \A j \in S : i <= j
           same == \A i \in begins : Identical(i, least(begins))
<1>1. ASSUME NEW S \in SUBSET Indexes, S # {} PROVE least(S) \in Indexes
  <2>1. S \in SUBSET Nat
    BY TableLen
  <2>2. \E i \in S : \A j \in S : i <= j
    BY <1>1, <2>1, LeastOf
  <2> QED
    BY <2>2
<1>2. begins \in SUBSET Indexes /\ exact \in SUBSET Indexes
  OBVIOUS
<1>3. matched(x) = CASE exact # {} -> least(exact)
                    [] exact = {} /\ begins # {} /\ same -> least(begins)
                    [] OTHER -> 0
  BY DEF matched
<1> HIDE DEF begins, exact, least, same
<1> QED
  BY <1>1, <1>2, <1>3

\* What can be said of a word, and what has been read after some words.
Args == Word \cup {Operand(w.value) : w \in Word}
Entry(m, a) == [option |-> m, arg |-> a, calls |-> Setters[m]]
Entries == {Error} \cup {Entry(m, a) : m \in Indexes, a \in Args}
Readings == [at : Nat \ {0}, options : Seq(Entries), operands : Seq(Word)]

\* An option is understood: what is told and how many words it takes.
Understood(ws, n) ==
  LET w == ws[n]
      m == matched(w.name)
  IN  IF m = 0 \/ (~long_options[m].arg /\ w.value # "")
              \/ (long_options[m].arg /\ w.value = "" /\ n = Len(ws))
      THEN <<Error, 1>>
      ELSE IF long_options[m].arg /\ w.value = ""
           THEN <<[option |-> m, arg |-> ws[n + 1], calls |-> Setters[m]], 2>>
           ELSE <<[option |-> m, arg |-> Operand(w.value), calls |-> Setters[m]], 1>>

LEMMA UnderstoodIs ==
  ASSUME NEW ws \in Seq(Word), NEW n \in 1 .. Len(ws)
  PROVE  /\ Understood(ws, n)[1] \in Entries
         /\ Understood(ws, n)[2] \in {1, 2} /\ n + Understood(ws, n)[2] <= Len(ws) + 1
<1> DEFINE w == ws[n]
           m == matched(w.name)
           u == Understood(ws, n)
           wrong == m = 0 \/ (~long_options[m].arg /\ w.value # "")
                      \/ (long_options[m].arg /\ w.value = "" /\ n = Len(ws))
           next == long_options[m].arg /\ w.value = ""
           a == Entry(m, ws[n + 1])
           b == Entry(m, Operand(w.value))
<1>1. w \in Word /\ m \in Indexes \cup {0} /\ Len(ws) \in Nat /\ n \in Int
  BY MatchedIs
<1>2. u = IF wrong THEN <<Error, 1>> ELSE IF next THEN <<a, 2>> ELSE <<b, 1>>
  BY DEF Understood, Entry
<1>3. ~wrong => m \in Indexes
  BY <1>1
<1>4. ~wrong /\ next => n # Len(ws)
  OBVIOUS
<1>5. Operand(w.value) \in Args
  BY <1>1 DEF Args
<1> HIDE DEF wrong, next, m, w
<1>6. ~wrong => b \in Entries
  <2> DEFINE o == Operand(w.value)
  <2> HIDE DEF o
  <2>1. o \in Args
    BY <1>5 DEF o
  <2>2. ASSUME m \in Indexes PROVE Entry(m, o) \in Entries
    BY <2>1, <2>2 DEF Entries
  <2> QED
    BY <1>3, <2>2 DEF o
<1>7. ~wrong /\ next => n + 1 \in 1 .. Len(ws) /\ a \in Entries
  <2> SUFFICES ASSUME ~wrong, next PROVE n + 1 \in 1 .. Len(ws) /\ a \in Entries
    OBVIOUS
  <2> DEFINE o == ws[n + 1]
  <2>1. n + 1 \in 1 .. Len(ws)
    BY <1>1, <1>4
  <2>2. o \in Args
    BY <1>1, <2>1 DEF Args
  <2> HIDE DEF o
  <2>3. m \in Indexes
    BY <1>3
  <2>4. Entry(m, o) \in Entries
    BY <2>2, <2>3 DEF Entries
  <2> QED
    BY <2>1, <2>4 DEF o
<1>8. Error \in Entries
  BY DEF Entries
<1> HIDE DEF wrong, next, a, b, u, w, m
<1>9. CASE wrong
  <2>1. u = <<Error, 1>> /\ u[1] = Error /\ u[2] = 1
    BY <1>2, <1>9
  <2> QED
    BY <1>1, <1>8, <2>1 DEF u
<1>10. CASE ~wrong /\ next
  <2>1. u = <<a, 2>> /\ u[1] = a /\ u[2] = 2
    BY <1>2, <1>10
  <2> QED
    BY <1>1, <1>7, <1>10, <2>1 DEF u
<1>11. CASE ~wrong /\ ~next
  <2>1. u = <<b, 1>> /\ u[1] = b /\ u[2] = 1
    BY <1>2, <1>11
  <2> QED
    BY <1>1, <1>6, <1>11, <2>1 DEF u
<1> QED
  BY <1>9, <1>10, <1>11

IsRead(r, at, options, read_operands) == r.at = at /\ r.options = options /\ r.operands = read_operands

\* The reference reads a word.
LEMMA WordRead ==
  ASSUME NEW ws \in Seq(Word), NEW r \in Readings, r.at <= Len(ws)
  PROVE  /\ read_word(ws, r) \in Readings
         /\ read_word(ws, r).at > r.at
         /\ ws[r.at].kind = "operand" =>
              IsRead(read_word(ws, r), r.at + 1, r.options, Append(r.operands, ws[r.at]))
         /\ ws[r.at].kind = "end" =>
              IsRead(read_word(ws, r), Len(ws) + 1, r.options, r.operands \o SubSeq(ws, r.at + 1, Len(ws)))
         /\ ws[r.at].kind \notin {"operand", "end"} =>
              IsRead(read_word(ws, r), r.at + Understood(ws, r.at)[2],
                     Append(r.options, Understood(ws, r.at)[1]), r.operands)
<1> DEFINE w == ws[r.at]
           m == matched(w.name)
           u == Understood(ws, r.at)
           t == read_word(ws, r)
<1>1. /\ r.at \in 1 .. Len(ws) /\ w \in Word /\ Len(ws) \in Nat
      /\ r.options \in Seq(Entries) /\ r.operands \in Seq(Word)
  BY DEF Readings
<1>2. CASE w.kind = "operand"
  <2> DEFINE s == Append(r.operands, w)
             n == r.at + 1
  <2>1. t = [r EXCEPT !.operands = s, !.at = n]
    BY <1>2 DEF read_word
  <2>2. s \in Seq(Word) /\ n \in Nat \ {0} /\ n > r.at
    BY <1>1
  <2> HIDE DEF s, n, t
  <2>3. t \in Readings /\ t.at = n /\ t.options = r.options /\ t.operands = s
    BY <2>1, <2>2 DEF Readings
  <2> QED
    BY <1>2, <2>2, <2>3 DEF IsRead, s, n, t
<1>3. CASE w.kind = "end"
  <2> DEFINE s == r.operands \o SubSeq(ws, r.at + 1, Len(ws))
             n == Len(ws) + 1
  <2>1. t = [r EXCEPT !.operands = s, !.at = n]
    BY <1>3 DEF read_word
  <2>2. SubSeq(ws, r.at + 1, Len(ws)) \in Seq(Word)
    BY <1>1
  <2>3. s \in Seq(Word) /\ n \in Nat \ {0} /\ n > r.at
    BY <1>1, <2>2
  <2> HIDE DEF s, n, t
  <2>4. t \in Readings /\ t.at = n /\ t.options = r.options /\ t.operands = s
    BY <2>1, <2>3 DEF Readings
  <2> QED
    BY <1>3, <2>3, <2>4 DEF IsRead, s, n, t
<1>4. CASE w.kind \notin {"operand", "end"}
  <2> DEFINE wrong == m = 0 \/ (~long_options[m].arg /\ w.value # "")
                        \/ (long_options[m].arg /\ w.value = "" /\ r.at = Len(ws))
             next == long_options[m].arg /\ w.value = ""
             a == [option |-> m, arg |-> ws[r.at + 1], calls |-> Setters[m]]
             b == [option |-> m, arg |-> Operand(w.value), calls |-> Setters[m]]
             Meant(e, n) == [r EXCEPT !.options = Append(@, e), !.at = @ + n]
  <2>1. t = IF wrong THEN Meant(Error, 1) ELSE IF next THEN Meant(a, 2) ELSE Meant(b, 1)
    BY <1>4 DEF read_word
  <2>2. u = IF wrong THEN <<Error, 1>> ELSE IF next THEN <<a, 2>> ELSE <<b, 1>>
    BY DEF Understood
  <2> HIDE DEF wrong, next, a, b, u, t, Meant
  <2>3. t = Meant(u[1], u[2])
    BY <2>1, <2>2
  <2>4. u[1] \in Entries /\ u[2] \in {1, 2}
    BY <1>1, UnderstoodIs DEF u
  <2> DEFINE s == Append(r.options, u[1])
             n == r.at + u[2]
  <2>5. t = [r EXCEPT !.options = s, !.at = n]
    BY <2>3 DEF Meant
  <2>6. s \in Seq(Entries) /\ n \in Nat \ {0} /\ n > r.at
    BY <1>1, <2>4
  <2> HIDE DEF s, n
  <2>7. t \in Readings /\ t.at = n /\ t.options = s /\ t.operands = r.operands
    BY <2>5, <2>6 DEF Readings
  <2> QED
    BY <1>4, <2>6, <2>7 DEF IsRead, s, n, t, u
<1> QED
  BY <1>2, <1>3, <1>4

Unread == [at |-> 1, options |-> <<>>, operands |-> <<>>]

\* The reference reads the words one after the other.
LEMMA ReadingIs ==
  ASSUME NEW ws \in Seq(Word)
  PROVE  LET f == reading(ws) IN
         /\ f \in [0 .. Len(ws) -> Readings] /\ f[0] = Unread
         /\ \A k \in 1 .. Len(ws) : f[k] = IF f[k - 1].at > Len(ws) THEN f[k - 1] ELSE read_word(ws, f[k - 1])
<1> DEFINE n == Len(ws)
           turn(r) == IF r.at > n THEN r ELSE read_word(ws, r)
           step == [k \in 1 .. n |-> [r \in Readings |-> turn(r)]]
           Is(after) == after = [k \in 0 .. n |-> IF k = 0 THEN Unread ELSE turn(after[k - 1])]
           after == CHOOSE after : Is(after)
<1>1. n \in Nat
  OBVIOUS
<1>2. Unread \in Readings
  <2>1. <<>> \in Seq(Entries) /\ <<>> \in Seq(Word)
    OBVIOUS
  <2> QED
    BY <2>1 DEF Unread, Readings
<1>3. ASSUME NEW r \in Readings PROVE turn(r) \in Readings
  <2>1. r.at \in Nat
    BY DEF Readings
  <2>2. CASE r.at > n
    BY <2>2
  <2>3. CASE ~(r.at > n)
    <3>1. r.at <= Len(ws)
      BY <1>1, <2>1, <2>3
    <3>2. read_word(ws, r) \in Readings
      BY <3>1, WordRead
    <3> QED
      BY <2>3, <3>2
  <2> QED
    BY <2>2, <2>3
<1>4. reading(ws) = after
  BY DEF reading, after, Is, turn, n, Unread
<1> HIDE DEF turn, n
<1>5. step \in [1 .. n -> [Readings -> Readings]]
  BY <1>3
<1> HIDE DEF step
<1>6. PICK h : Recursive(h, n, Readings, Unread, step)
  BY <1>1, <1>2, <1>5, Recursion
<1>7. Is(h)
  <2>1. h \in [0 .. n -> Readings] /\ h[0] = Unread
    BY <1>6 DEF Recursive
  <2>2. ASSUME NEW k \in 1 .. n PROVE h[k] = turn(h[k - 1])
    <3>1. h[k] = step[k][h[k - 1]] /\ h[k - 1] \in Readings
      BY <1>1, <1>6, <2>1 DEF Recursive
    <3> QED
      BY <3>1 DEF step
  <2> QED
    BY <1>1, <2>1, <2>2
<1> HIDE DEF Is
<1>8. Is(after)
  BY <1>7, Zenon
<1> HIDE DEF after
<1>9. after[0] = Unread /\ \A k \in 1 .. n : after[k] = turn(after[k - 1])
  BY <1>1, <1>8 DEF Is
<1>10. \A k \in 0 .. n : after[k] \in Readings
  <2> DEFINE G == {k \in 0 .. n : after[k] \in Readings}
  <2>1. 0 \in G
    BY <1>1, <1>2, <1>9
  <2>2. ASSUME NEW k \in 1 .. n, k - 1 \in G PROVE k \in G
    BY <1>1, <1>3, <1>9, <2>2
  <2> HIDE DEF G
  <2>3. \A k \in 0 .. n : k \in G
    BY <1>1, <2>1, <2>2, Turns
  <2> QED
    BY <2>3 DEF G
<1>11. after \in [0 .. n -> Readings]
  <2>1. after = [k \in 0 .. n |-> after[k]]
    BY <1>8 DEF Is
  <2> QED
    BY <1>10, <2>1
<1> QED
  BY <1>4, <1>9, <1>11 DEF turn, n

\* Each turn reads a word, and after the last word nothing changes.
LEMMA ReadingGoesOn ==
  ASSUME NEW ws \in Seq(Word), NEW k \in 0 .. Len(ws)
  PROVE  /\ reading(ws)[k].at > k \/ reading(ws)[k].at > Len(ws)
         /\ reading(ws)[k].at > Len(ws) => read(ws) = reading(ws)[k]
         /\ reading(ws)[k].at <= Len(ws) =>
              k + 1 \in 0 .. Len(ws) /\ reading(ws)[k + 1] = read_word(ws, reading(ws)[k])
<1> DEFINE f == reading(ws)
           n == Len(ws)
<1>1. /\ f \in [0 .. n -> Readings] /\ f[0] = Unread /\ n \in Nat
      /\ \A j \in 1 .. n : f[j] = IF f[j - 1].at > n THEN f[j - 1] ELSE read_word(ws, f[j - 1])
  BY ReadingIs
<1>2. ASSUME NEW r \in Readings PROVE r.at \in Nat /\ (r.at <= n => read_word(ws, r).at > r.at)
  BY WordRead DEF Readings
<1>3. read(ws) = f[n]
  BY DEF read
<1> HIDE DEF f, n
<1> DEFINE G == {j \in 0 .. n : f[j].at > j \/ f[j].at > n}
<1>4. \A j \in 0 .. n : j \in G
  <2>1. 0 \in G
    BY <1>1 DEF Unread
  <2>2. ASSUME NEW j \in 1 .. n, j - 1 \in G PROVE j \in G
    <3> DEFINE r == f[j - 1]
               t == f[j]
    <3>1. r \in Readings /\ t \in Readings /\ (r.at > j - 1 \/ r.at > n)
      BY <1>1, <2>2
    <3>2. t = IF r.at > n THEN r ELSE read_word(ws, r)
      BY <1>1
    <3> HIDE DEF r, t
    <3>3. CASE r.at > n
      BY <3>2, <3>3 DEF t
    <3>4. CASE ~(r.at > n)
      <4>1. t = read_word(ws, r) /\ r.at \in Nat
        BY <1>2, <3>1, <3>2, <3>4
      <4>2. r.at <= n
        BY <1>1, <3>4, <4>1
      <4>3. t.at > r.at /\ t.at \in Nat
        BY <1>2, <3>1, <4>1, <4>2
      <4>4. t.at > j
        BY <3>1, <3>4, <4>1, <4>3
      <4> QED
        BY <4>4 DEF t
    <3> QED
      BY <3>3, <3>4
  <2> HIDE DEF G
  <2> QED
    BY <1>1, <2>1, <2>2, Turns
<1>5. k \in 0 .. n
  BY DEF n
<1>6. f[k].at > k \/ f[k].at > n
  BY <1>4, <1>5
<1>7. f[k].at > n => f[n] = f[k]
  <2> SUFFICES ASSUME f[k].at > n PROVE f[n] = f[k]
    OBVIOUS
  <2> DEFINE H == {j \in 0 .. n : j >= k => f[j] = f[k]}
  <2>1. 0 \in H
    BY <1>1, <1>5
  <2>2. ASSUME NEW j \in 1 .. n, j - 1 \in H PROVE j \in H
    <3>1. CASE j > k
      BY <1>1, <1>5, <2>2, <3>1
    <3>2. CASE j = k
      BY <3>2
    <3>3. CASE j < k
      BY <1>5, <3>3
    <3> QED
      BY <1>5, <3>1, <3>2, <3>3
  <2> HIDE DEF H
  <2>3. \A j \in 0 .. n : j \in H
    BY <1>1, <2>1, <2>2, Turns
  <2>4. n \in H
    BY <1>1, <2>3
  <2> QED
    BY <1>1, <1>5, <2>4 DEF H
<1>8. ASSUME f[k].at <= n PROVE k + 1 \in 0 .. n /\ f[k + 1] = read_word(ws, f[k])
  <2>1. f[k] \in Readings /\ f[k].at \in Nat
    BY <1>1, <1>2, <1>5
  <2>2. k + 1 \in 1 .. n /\ (k + 1) - 1 = k /\ ~(f[k].at > n)
    BY <1>1, <1>5, <1>6, <1>8, <2>1
  <2> QED
    BY <1>1, <2>2
<1> QED
  BY <1>3, <1>6, <1>7, <1>8 DEF f, n

-----------------------------------------------------------------------------
(* getopt_internal moves words, and reads them as they were written.        *)

\* The blocks after permute_args, as parts of the command line.
LEMMA PermutedIs ==
  ASSUME NEW argv \in Seq(Word), NEW first \in Nat, NEW middle \in Nat, NEW end \in Nat,
         1 <= first, first < middle, middle < end, end <= Len(argv) + 1,
         NEW new, new = permute_args(first, middle, end, argv)
  PROVE  /\ new \in Seq(Word) /\ Len(new) = Len(argv)
         /\ SubSeq(new, end - (middle - first), end - 1) = SubSeq(argv, first, middle - 1)
         /\ \A i \in end .. Len(argv) : new[i] = argv[i]
<1> DEFINE n == Len(argv)
           from == end - (middle - first)
<1>1. n \in Nat /\ argv \in [1 .. n -> Word] /\ end <= n + 1
  OBVIOUS
<1> HIDE DEF n
<1>2. new \in [1 .. n -> Word] /\ Exchanged(new, argv, n, first, middle, end)
  BY <1>1, PermuteIs
<1>3. new \in Seq(Word) /\ Len(new) = n
  BY <1>1, <1>2
<1>4. from \in Nat \ {0} /\ middle - 1 \in Nat /\ end - 1 \in Nat /\ end - 1 <= n /\ middle - 1 <= n
  BY <1>1
<1> DEFINE u == SubSeq(new, from, end - 1)
           v == SubSeq(argv, first, middle - 1)
<1>5. /\ u \in Seq(Word) /\ Len(u) = middle - first
      /\ \A i \in 1 .. middle - first : u[i] = new[from + i - 1]
  <2>1. Len(u) = IF from <= end - 1 THEN end - 1 - from + 1 ELSE 0
    BY <1>3, <1>4, Part
  <2>2. \A i \in 1 .. (end - 1 - from + 1) : u[i] = new[from + i - 1]
    BY <1>3, <1>4, Part
  <2>3. u \in Seq(Word)
    BY <1>3, <1>4, Part
  <2> HIDE DEF u
  <2> QED
    BY <1>4, <2>1, <2>2, <2>3
<1>6. /\ v \in Seq(Word) /\ Len(v) = middle - first
      /\ \A i \in 1 .. middle - first : v[i] = argv[first + i - 1]
  <2>0. argv \in Seq(Word) /\ Len(argv) = n /\ first \in Nat \ {0}
    BY DEF n
  <2>1. Len(v) = IF first <= middle - 1 THEN middle - 1 - first + 1 ELSE 0
    BY <1>4, <2>0, Part
  <2>2. \A i \in 1 .. (middle - 1 - first + 1) : v[i] = argv[first + i - 1]
    BY <1>4, <2>0, Part
  <2>3. v \in Seq(Word)
    BY <1>4, <2>0, Part
  <2> HIDE DEF v
  <2> QED
    BY <2>1, <2>2, <2>3
<1>7. ASSUME NEW i \in 1 .. middle - first PROVE new[from + i - 1] = argv[first + i - 1]
  <2> DEFINE y == from + i - 1
  <2>1. y \in 1 .. n /\ ~(y < first \/ y >= end) /\ ~(y < first + (end - middle)) /\ y - (end - middle) = first + i - 1
    BY <1>1
  <2> HIDE DEF y
  <2>2. new[y] = argv[y - (end - middle)]
    BY <1>2, <2>1 DEF Exchanged
  <2> QED
    BY <2>1, <2>2 DEF y
<1>8. u = v
  <2> HIDE DEF u, v
  <2>1. \A i \in 1 .. Len(u) : u[i] = v[i]
    BY <1>5, <1>6, <1>7
  <2> QED
    BY <1>5, <1>6, <2>1, SameElements
<1>9. \A i \in end .. n : new[i] = argv[i]
  <2> SUFFICES ASSUME NEW i \in end .. n PROVE new[i] = argv[i]
    OBVIOUS
  <2>1. i \in 1 .. n /\ i >= end
    BY <1>1
  <2> QED
    BY <1>2, <2>1 DEF Exchanged
<1> QED
  BY <1>3, <1>8, <1>9 DEF n

\* A part and the next word.
LEMMA LongerPart ==
  ASSUME NEW argv \in Seq(Word), NEW a \in Nat \ {0}, NEW n \in 1 .. Len(argv), a <= n
  PROVE  SubSeq(argv, a, n) = Append(SubSeq(argv, a, n - 1), argv[n])
<1> DEFINE u == SubSeq(argv, a, n)
           s == SubSeq(argv, a, n - 1)
           v == Append(s, argv[n])
<1>1. n \in Nat /\ n - 1 \in Nat /\ n <= Len(argv) /\ n - 1 <= Len(argv) /\ argv[n] \in Word
  OBVIOUS
<1>2. u \in Seq(Word) /\ Len(u) = n - a + 1 /\ \A i \in 1 .. (n - a + 1) : u[i] = argv[a + i - 1]
  BY <1>1, Part
<1>3. /\ s \in Seq(Word) /\ Len(s) = (IF a <= n - 1 THEN n - 1 - a + 1 ELSE 0)
      /\ \A i \in 1 .. (n - 1 - a + 1) : s[i] = argv[a + i - 1]
  BY <1>1, Part
<1> HIDE DEF u, s
<1>4. Len(s) = n - a /\ n - a \in Nat
  BY <1>1, <1>3
<1>5. v \in Seq(Word) /\ Len(v) = Len(s) + 1 /\ v[Len(s) + 1] = argv[n]
  <2> DEFINE w == argv[n]
  <2>1. w \in Word /\ s \in Seq(Word)
    BY <1>1, <1>3
  <2> HIDE DEF w
  <2> QED
    BY <2>1 DEF w
<1>6. /\ Len(v) = n - a + 1 /\ v[n - a + 1] = argv[n]
      /\ \A i \in 1 .. n - a : v[i] = s[i]
  <2>1. Len(s) + 1 = n - a + 1
    BY <1>4
  <2>2. \A i \in 1 .. Len(s) : v[i] = s[i]
    <3> DEFINE w == argv[n]
    <3>1. w \in Word /\ s \in Seq(Word)
      BY <1>1, <1>3
    <3> HIDE DEF w
    <3> QED
      BY <3>1 DEF w
  <2> QED
    BY <1>4, <1>5, <2>1, <2>2
<1> HIDE DEF v
<1>7. ASSUME NEW i \in 1 .. n - a + 1 PROVE u[i] = v[i]
  <2>1. CASE i = n - a + 1
    <3>1. u[i] = argv[a + i - 1] /\ a + i - 1 = n
      BY <1>2, <2>1
    <3> QED
      BY <1>6, <2>1, <3>1
  <2>2. CASE i # n - a + 1
    <3>1. i \in 1 .. n - a /\ i \in 1 .. (n - 1 - a + 1)
      BY <1>1, <2>2
    <3> QED
      BY <1>2, <1>3, <1>6, <3>1
  <2> QED
    BY <2>1, <2>2
<1>8. u = v
  BY <1>2, <1>5, <1>6, <1>7, SameElements
<1> QED
  BY <1>8 DEF u, v, s

\* The words that were skipped and not yet read as operands for the last time: those from
\* nonopt_start on, up to nonopt_end, or up to the next word.
SkippedWords(argv, n, start, upto) ==
  IF start = -1 THEN <<>> ELSE SubSeq(argv, start, (IF upto = -1 THEN n ELSE upto) - 1)

\* The state of getopt_internal between two words.
Going(ws, argv, n, start, upto, told) ==
  /\ argv \in Seq(Word) /\ Len(argv) = Len(ws) /\ n \in 1 .. Len(ws) + 1
  /\ \A i \in n .. Len(ws) : argv[i] = ws[i]
  /\ \/ start = -1 /\ upto = -1
     \/ start \in 1 .. n - 1 /\ upto = -1
     \/ start \in 1 .. n - 1 /\ upto \in start + 1 .. n - 1
  /\ \E k \in 0 .. Len(ws) : IsRead(reading(ws)[k], n, told, SkippedWords(argv, n, start, upto))

GetoptInv ==
  /\ words \in Seq(Word)
  /\ operands = <<"reading">> => Going(words, nargv, optind, nonopt_start, nonopt_end, seen)
  /\ GetoptAsWritten

LEMMA GetoptBegins == ASSUME GetoptInit PROVE GetoptInv
<1>1. words \in Seq(Word)
  BY DEF GetoptInit, SeqOf
<1>2. /\ nargv = words /\ optind = 1 /\ nonopt_start = -1 /\ nonopt_end = -1
      /\ seen = <<>> /\ operands = <<"reading">>
  BY DEF GetoptInit
<1>3. reading(words)[0] = Unread /\ 0 \in 0 .. Len(words)
  BY <1>1, ReadingIs
<1>4. IsRead(reading(words)[0], 1, <<>>, <<>>)
  BY <1>3 DEF IsRead, Unread
<1>5. Going(words, words, 1, -1, -1, <<>>)
  BY <1>1, <1>3, <1>4 DEF Going, SkippedWords
<1> QED
  BY <1>1, <1>2, <1>5 DEF GetoptInv, GetoptAsWritten

\* What the reference reads next.
LEMMA NextRead ==
  ASSUME NEW ws \in Seq(Word), NEW argv, NEW n, NEW start, NEW upto, NEW told,
         Going(ws, argv, n, start, upto, told), n <= Len(argv)
  PROVE  LET w == argv[n]
             s == SkippedWords(argv, n, start, upto)
             u == Understood(ws, n)
         IN  /\ w = ws[n]
             /\ w.kind = "operand" =>
                  \E k \in 0 .. Len(ws) : IsRead(reading(ws)[k], n + 1, told, Append(s, w))
             /\ w.kind = "end" =>
                  \E k \in 0 .. Len(ws) :
                    IsRead(reading(ws)[k], Len(ws) + 1, told, s \o SubSeq(ws, n + 1, Len(ws)))
             /\ w.kind \notin {"operand", "end"} =>
                  \E k \in 0 .. Len(ws) : IsRead(reading(ws)[k], n + u[2], Append(told, u[1]), s)
<1> DEFINE s == SkippedWords(argv, n, start, upto)
<1>1. n \in 1 .. Len(ws) /\ argv[n] = ws[n]
  BY DEF Going
<1>2. PICK k \in 0 .. Len(ws) : IsRead(reading(ws)[k], n, told, s)
  BY DEF Going
<1> HIDE DEF s
<1> DEFINE r == reading(ws)[k]
<1>3. r \in Readings
  BY ReadingIs
<1>4. r.at = n /\ r.options = told /\ r.operands = s
  BY <1>2 DEF IsRead
<1>5. k + 1 \in 0 .. Len(ws) /\ reading(ws)[k + 1] = read_word(ws, r)
  BY <1>1, <1>4, ReadingGoesOn
<1> HIDE DEF r
<1>6. r.at <= Len(ws)
  BY <1>1, <1>4
<1>7. /\ ws[n].kind = "operand" => IsRead(read_word(ws, r), n + 1, told, Append(s, ws[n]))
      /\ ws[n].kind = "end" =>
           IsRead(read_word(ws, r), Len(ws) + 1, told, s \o SubSeq(ws, n + 1, Len(ws)))
      /\ ws[n].kind \notin {"operand", "end"} =>
           IsRead(read_word(ws, r), n + Understood(ws, n)[2], Append(told, Understood(ws, n)[1]), s)
  BY <1>3, <1>4, <1>6, WordRead
<1> QED
  BY <1>1, <1>5, <1>7 DEF s

LEMMA OperandKeeps == ASSUME GetoptInv, operands = <<"reading">>, NonOption PROVE GetoptInv'
<1> DEFINE n == optind
           w == nargv[optind]
           s == SkippedWords(nargv, optind, nonopt_start, nonopt_end)
           s2 == SkippedWords(nargv', optind', nonopt_start', nonopt_end')
<1>1. words \in Seq(Word) /\ Going(words, nargv, n, nonopt_start, nonopt_end, seen)
  BY DEF GetoptInv
<1>2. n <= Len(nargv) /\ w.kind = "operand" /\ optind' = n + 1
      /\ words' = words /\ seen' = seen /\ operands' = operands
  BY DEF NonOption, Current
<1>3. /\ nargv \in Seq(Word) /\ Len(nargv) = Len(words) /\ n \in 1 .. Len(words) /\ Len(words) \in Nat
      /\ \A i \in n .. Len(words) : nargv[i] = words[i]
      /\ \/ nonopt_start = -1 /\ nonopt_end = -1
         \/ nonopt_start \in 1 .. n - 1 /\ nonopt_end = -1
         \/ nonopt_start \in 1 .. n - 1 /\ nonopt_end \in nonopt_start + 1 .. n - 1
  BY <1>1, <1>2 DEF Going
<1>4. \E k \in 0 .. Len(words) : IsRead(reading(words)[k], n + 1, seen, Append(s, w))
  BY <1>1, <1>2, NextRead
<1>5. SUFFICES ASSUME TRUE
               PROVE  /\ nargv' \in Seq(Word) /\ Len(nargv') = Len(words)
                      /\ \A i \in n + 1 .. Len(words) : nargv'[i] = words[i]
                      /\ nonopt_start' \in 1 .. n /\ nonopt_end' = -1 /\ s2 = Append(s, w)
  <2>1. s2 = SkippedWords(nargv', n + 1, nonopt_start', nonopt_end')
    BY <1>2
  <2> HIDE DEF s2, s, w
  <2>2. \E k \in 0 .. Len(words) :
          IsRead(reading(words)[k], n + 1, seen, SkippedWords(nargv', n + 1, nonopt_start', nonopt_end'))
    BY <1>4, <1>5, <2>1
  <2>3. n + 1 \in 1 .. Len(words) + 1 /\ nonopt_start' \in 1 .. (n + 1) - 1 /\ nonopt_end' = -1
    BY <1>3, <1>5
  <2>4. Going(words, nargv', n + 1, nonopt_start', nonopt_end', seen)
    BY <1>5, <2>2, <2>3 DEF Going
  <2> QED
    BY <1>1, <1>2, <2>4 DEF GetoptInv, GetoptAsWritten
<1>6. CASE nonopt_end # -1
  <2> DEFINE first == nonopt_start
             middle == nonopt_end
             new == permute_args(first, middle, n, nargv)
  <2>1. nargv' = new /\ nonopt_start' = n - (middle - first) /\ nonopt_end' = -1
    BY <1>3, <1>6 DEF NonOption
  <2>2. /\ first \in Nat /\ middle \in Nat /\ n \in Nat
        /\ 1 <= first /\ first < middle /\ middle < n /\ n <= Len(nargv) + 1
    BY <1>3, <1>6
  <2> HIDE DEF n, first, middle, new
  <2>3. /\ new \in Seq(Word) /\ Len(new) = Len(nargv)
        /\ SubSeq(new, n - (middle - first), n - 1) = SubSeq(nargv, first, middle - 1)
        /\ \A i \in n .. Len(nargv) : new[i] = nargv[i]
    BY <1>3, <2>2, PermutedIs DEF new
  <2> DEFINE a == n - (middle - first)
  <2>4. a \in Nat \ {0} /\ a <= n /\ a \in 1 .. n
    BY <2>2
  <2>5. s = SubSeq(nargv, first, middle - 1)
    BY <1>3, <1>6, <2>2 DEF SkippedWords, first, middle
  <2>6. s2 = SubSeq(new, a, n)
    BY <1>2, <2>1, <2>2, <2>4 DEF SkippedWords
  <2>7. SubSeq(new, a, n) = Append(SubSeq(new, a, n - 1), new[n])
    BY <1>3, <2>3, <2>4, LongerPart
  <2>8. new[n] = w
    BY <1>3, <2>3 DEF n
  <2>9. s2 = Append(s, w)
    BY <2>3, <2>5, <2>6, <2>7, <2>8
  <2>10. \A i \in n + 1 .. Len(words) : nargv'[i] = words[i]
    <3> SUFFICES ASSUME NEW i \in n + 1 .. Len(words) PROVE nargv'[i] = words[i]
      OBVIOUS
    <3>1. i \in n .. Len(words)
      BY <2>2
    <3> QED
      BY <1>3, <2>1, <2>3, <3>1 DEF n
  <2> QED
    BY <1>3, <2>1, <2>3, <2>4, <2>9, <2>10
<1>7. CASE nonopt_end = -1
  <2> DEFINE a == IF nonopt_start = -1 THEN n ELSE nonopt_start
  <2>1. nargv' = nargv /\ nonopt_start' = a /\ nonopt_end' = -1
    BY <1>7 DEF NonOption
  <2>2. a \in Nat \ {0} /\ a <= n /\ a \in 1 .. n
    BY <1>3, <1>7
  <2> HIDE DEF a
  <2>3. s2 = SubSeq(nargv, a, n)
    <3>1. nonopt_start' # -1 /\ (n + 1) - 1 = n
      BY <1>3, <2>1, <2>2
    <3> QED
      BY <1>2, <2>1, <3>1 DEF SkippedWords
  <2>4. SubSeq(nargv, a, n) = Append(SubSeq(nargv, a, n - 1), nargv[n])
    BY <1>3, <2>2, LongerPart
  <2>5. s = SubSeq(nargv, a, n - 1)
    <3>1. CASE nonopt_start = -1
      <4>1. s = <<>> /\ a = n
        BY <3>1 DEF SkippedWords, a
      <4>2. SubSeq(nargv, n, n - 1) = <<>>
        BY <1>3
      <4> QED
        BY <4>1, <4>2
    <3>2. CASE nonopt_start # -1
      BY <1>7, <3>2 DEF SkippedWords, a
    <3> QED
      BY <3>1, <3>2
  <2>6. \A i \in n + 1 .. Len(words) : nargv'[i] = words[i]
    <3> SUFFICES ASSUME NEW i \in n + 1 .. Len(words) PROVE nargv'[i] = words[i]
      OBVIOUS
    <3>1. i \in n .. Len(words)
      BY <1>3
    <3> QED
      BY <1>3, <2>1, <3>1
  <2>7. s2 = Append(s, w)
    BY <2>3, <2>4, <2>5
  <2> QED
    BY <1>3, <2>1, <2>2, <2>6, <2>7
<1> QED
  BY <1>6, <1>7

\* What getopt_internal returns for an option is what the reference understands.
LEMMA ParsedIs ==
  ASSUME words \in Seq(Word), nargv \in Seq(Word), Len(nargv) = Len(words), NEW n \in 1 .. Len(words),
         \A i \in n .. Len(words) : nargv[i] = words[i],
         NEW got, got = parse_long_options(nargv[n], n)
  PROVE  got[1] = Understood(words, n)[1] /\ got[2] = n + Understood(words, n)[2]
<1> DEFINE w == words[n]
           m == matched(w.name)
           u == Understood(words, n)
           takes == long_options[m].arg
           empty == w.value = ""
           upto == n = Len(words)
           a == [option |-> m, arg |-> words[n + 1], calls |-> Setters[m]]
           b == [option |-> m, arg |-> Operand(w.value), calls |-> Setters[m]]
<1>1. nargv[n] = w /\ Len(words) \in Nat /\ m \in Indexes \cup {0}
  BY MatchedIs
<1>2. u = IF m = 0 \/ (~takes /\ ~empty) \/ (takes /\ empty /\ upto) THEN <<Error, 1>>
          ELSE IF takes /\ empty THEN <<a, 2>> ELSE <<b, 1>>
  BY DEF Understood
<1>3. got = IF m = 0 THEN <<Error, n + 1>>
               ELSE IF ~takes THEN IF ~empty THEN <<Error, n + 1>> ELSE <<Told(m, NoArg), n + 1>>
               ELSE IF ~empty THEN <<Told(m, Operand(w.value)), n + 1>>
               ELSE IF n + 1 > Len(nargv) THEN <<Error, n + 1>>
               ELSE <<Told(m, nargv[n + 1]), n + 2>>
  BY <1>1 DEF parse_long_options
<1>4. n + 1 > Len(nargv) <=> upto
  BY <1>1
<1>5. ~upto => nargv[n + 1] = words[n + 1]
  <2> SUFFICES ASSUME ~upto PROVE nargv[n + 1] = words[n + 1]
    OBVIOUS
  <2> DEFINE y == n + 1
  <2>1. y \in n .. Len(words)
    BY <1>1
  <2> HIDE DEF y
  <2>2. nargv[y] = words[y]
    BY <2>1
  <2> QED
    BY <2>2 DEF y
<1>6. m # 0 /\ ~upto => Told(m, nargv[n + 1]) = a
  BY <1>1, <1>5, ToldIs
<1>7. m # 0 => Told(m, Operand(w.value)) = b
  BY <1>1, ToldIs
<1>8. m # 0 /\ empty => Told(m, NoArg) = b
  BY <1>1, ToldIs DEF NoArg
<1> HIDE DEF takes, empty, upto, m, a, b, u, w
<1>9. CASE m = 0 \/ (~takes /\ ~empty) \/ (takes /\ empty /\ upto)
  <2>1. u = <<Error, 1>>
    BY <1>2, <1>9
  <2>2. got = <<Error, n + 1>>
    BY <1>3, <1>4, <1>9
  <2> QED
    BY <2>1, <2>2 DEF u
<1>10. CASE m # 0 /\ takes /\ empty /\ ~upto
  <2>1. u = <<a, 2>>
    BY <1>2, <1>10
  <2>2. got = <<a, n + 2>>
    BY <1>3, <1>4, <1>6, <1>10
  <2> QED
    BY <2>1, <2>2 DEF u
<1>11. CASE m # 0 /\ ~takes /\ empty
  <2>1. u = <<b, 1>>
    BY <1>2, <1>11
  <2>2. got = <<b, n + 1>>
    BY <1>3, <1>8, <1>11
  <2> QED
    BY <2>1, <2>2 DEF u
<1>12. CASE m # 0 /\ takes /\ ~empty
  <2>1. u = <<b, 1>>
    BY <1>2, <1>12
  <2>2. got = <<b, n + 1>>
    BY <1>3, <1>7, <1>12
  <2> QED
    BY <2>1, <2>2 DEF u
<1> QED
  BY <1>9, <1>10, <1>11, <1>12

\* An option leaves the words where they are; those that were skipped end in front of it.
LEMMA OptionKeeps == ASSUME GetoptInv, operands = <<"reading">>, LongOption PROVE GetoptInv'
<1> DEFINE n == optind
           w == nargv[optind]
           s == SkippedWords(nargv, optind, nonopt_start, nonopt_end)
           u == Understood(words, optind)
           got == parse_long_options(w, n)
<1>1. words \in Seq(Word) /\ Going(words, nargv, n, nonopt_start, nonopt_end, seen)
  BY DEF GetoptInv
<1>2. /\ n <= Len(nargv) /\ w.kind = "option"
      /\ seen' = Append(seen, got[1]) /\ optind' = got[2] /\ nonopt_end' = SkippedTo
      /\ words' = words /\ nargv' = nargv /\ nonopt_start' = nonopt_start /\ operands' = operands
  BY DEF LongOption, Current
<1>3. /\ nargv \in Seq(Word) /\ Len(nargv) = Len(words) /\ n \in 1 .. Len(words) /\ Len(words) \in Nat
      /\ \A i \in n .. Len(words) : nargv[i] = words[i]
      /\ \/ nonopt_start = -1 /\ nonopt_end = -1
         \/ nonopt_start \in 1 .. n - 1 /\ nonopt_end = -1
         \/ nonopt_start \in 1 .. n - 1 /\ nonopt_end \in nonopt_start + 1 .. n - 1
  BY <1>1, <1>2 DEF Going
<1>4. got[1] = u[1] /\ got[2] = n + u[2]
  BY <1>1, <1>3, ParsedIs
<1>5. u[2] \in {1, 2} /\ n + u[2] <= Len(words) + 1
  BY <1>1, <1>3, UnderstoodIs
<1>6. \E k \in 0 .. Len(words) : IsRead(reading(words)[k], n + u[2], Append(seen, u[1]), s)
  <2>1. w.kind \notin {"operand", "end"}
    BY <1>2
  <2> QED
    BY <1>1, <1>2, <2>1, NextRead
<1> DEFINE upto == SkippedTo
           m == n + u[2]
           s2 == SkippedWords(nargv, m, nonopt_start, upto)
<1>7. m \in 1 .. Len(words) + 1 /\ m >= n + 1
  BY <1>3, <1>5
<1>8. \/ nonopt_start = -1 /\ upto = -1
      \/ nonopt_start \in 1 .. m - 1 /\ upto \in nonopt_start + 1 .. m - 1
  <2>1. upto = IF nonopt_start # -1 /\ nonopt_end = -1 THEN n ELSE nonopt_end
    BY DEF SkippedTo
  <2> HIDE DEF m, n, upto
  <2>2. m \in Int /\ n \in Int /\ n + 1 <= m
    BY <1>3, <1>7
  <2>3. CASE nonopt_start = -1 /\ nonopt_end = -1
    BY <2>1, <2>3
  <2>4. CASE nonopt_start \in 1 .. n - 1 /\ nonopt_end = -1
    <3>1. upto = n
      BY <2>1, <2>4
    <3> QED
      BY <2>2, <2>4, <3>1
  <2>5. CASE nonopt_start \in 1 .. n - 1 /\ nonopt_end \in nonopt_start + 1 .. n - 1
    <3>1. upto = nonopt_end
      BY <2>1, <2>5
    <3> QED
      BY <2>2, <2>5, <3>1
  <2> QED
    BY <1>3, <2>3, <2>4, <2>5
<1>9. s2 = s
  BY <1>3 DEF SkippedTo, SkippedWords
<1>10. optind' = m /\ seen' = Append(seen, u[1])
  BY <1>2, <1>4
<1> HIDE DEF m, upto, s, s2, u, got, w
<1>11. \A i \in m .. Len(words) : nargv[i] = words[i]
  <2> SUFFICES ASSUME NEW i \in m .. Len(words) PROVE nargv[i] = words[i]
    OBVIOUS
  <2>1. i \in n .. Len(words)
    BY <1>3, <1>7
  <2> QED
    BY <1>3, <2>1
<1>12. \E k \in 0 .. Len(words) : IsRead(reading(words)[k], m, seen', SkippedWords(nargv, m, nonopt_start, upto))
  BY <1>6, <1>9, <1>10 DEF m, s2
<1>13. Going(words, nargv, m, nonopt_start, upto, seen')
  BY <1>3, <1>7, <1>8, <1>11, <1>12 DEF Going
<1> QED
  BY <1>1, <1>2, <1>10, <1>13 DEF GetoptInv, GetoptAsWritten, upto

\* The three operands.
LEMMA ThreeTaken ==
  ASSUME NEW argv \in Seq(Word), NEW from \in Nat, 1 <= from, Len(argv) - from + 1 = 3
  PROVE  [k \in 1 .. 3 |-> argv[from + k - 1]] = SubSeq(argv, from, Len(argv))
<1> DEFINE n == Len(argv)
           s == SubSeq(argv, from, n)
<1>1. n \in Nat /\ from \in Nat \ {0} /\ n <= Len(argv) /\ from <= n /\ n - from + 1 = 3
  OBVIOUS
<1>2. s \in Seq(Word)
  BY <1>1, Part
<1>3. Len(s) = IF from <= n THEN n - from + 1 ELSE 0
  BY <1>1, Part
<1>4. \A i \in 1 .. (n - from + 1) : s[i] = argv[from + i - 1]
  BY <1>1, Part
<1> HIDE DEF s, n
<1>5. s \in [1 .. 3 -> Word]
  <2>1. Len(s) = 3
    BY <1>1, <1>3
  <2>2. s \in [1 .. Len(s) -> Word]
    BY <1>2
  <2> QED
    BY <2>1, <2>2
<1>6. \A i \in 1 .. 3 : s[i] = argv[from + i - 1]
  BY <1>1, <1>4
<1> QED
  BY <1>5, <1>6 DEF s, n

\* The loop of parseArguments has ended: what it was told and what it takes is what was read.
LEMMA Ends ==
  ASSUME words \in Seq(Word), NEW argv \in Seq(Word), NEW from \in Nat, 1 <= from, from <= Len(argv) + 1,
         seen = read(words).options, SubSeq(argv, from, Len(argv)) = read(words).operands,
         parseArguments_end(argv, from), nargv' = argv, optind' = from, words' = words, seen' = seen
  PROVE  GetoptInv'
<1> DEFINE v == [k \in 1 .. 3 |-> argv[from + k - 1]]
           n == Len(argv)
           s == SubSeq(argv, from, n)
<1>1. operands' = <<"exit">> \/ (n - from + 1 = 3 /\ operands' = v)
  BY DEF parseArguments_end
<1>2. operands' # <<"reading">>
  <2>1. CASE operands' = <<"exit">>
    <3>1. operands'[1] = "exit"
      BY <2>1
    <3> QED
      BY <3>1
  <2>2. CASE operands' = v
    <3>1. DOMAIN v = 1 .. 3
      OBVIOUS
    <3>2. 2 \in DOMAIN operands' /\ 2 \notin DOMAIN <<"reading">>
      BY <2>2, <3>1
    <3> QED
      BY <3>2
  <2> QED
    BY <1>1, <2>1, <2>2
<1>3. n - from + 1 = 3 => v = s
  BY ThreeTaken
<1>4. operands' = <<"exit">> \/ operands' = s
  BY <1>1, <1>3
<1>5. SubSeq(nargv', optind', Len(nargv')) = s
  OBVIOUS
<1> HIDE DEF s
<1>6. GetoptAsWritten'
  <2>1. read(words') = read(words) /\ s = read(words).operands
    BY DEF s
  <2> QED
    BY <1>4, <1>5, <2>1 DEF GetoptAsWritten
<1> QED
  BY <1>2, <1>6 DEF GetoptInv

\* A part up to a place, and the words behind it, which are where they were.
LEMMA TwoParts ==
  ASSUME NEW argv \in Seq(Word), NEW ws \in Seq(Word), Len(argv) = Len(ws),
         NEW n \in 1 .. Len(argv), NEW a \in 1 .. n + 1,
         \A i \in n + 1 .. Len(argv) : argv[i] = ws[i]
  PROVE  SubSeq(argv, a, Len(argv)) = SubSeq(argv, a, n) \o SubSeq(ws, n + 1, Len(argv))
<1> DEFINE m == Len(argv)
           u == SubSeq(argv, a, m)
           s == SubSeq(argv, a, n)
           t == SubSeq(ws, n + 1, m)
           v == s \o t
           c == n - a + 1
<1>1. /\ m \in Nat /\ n \in Nat /\ n <= m /\ a \in Nat \ {0} /\ n + 1 \in Nat \ {0} /\ c \in Nat
      /\ m <= Len(argv) /\ n <= Len(argv) /\ m <= Len(ws) /\ n + 1 <= m + 1
  OBVIOUS
<1>2. u \in Seq(Word)
  BY <1>1, Part
<1>3. Len(u) = IF a <= m THEN m - a + 1 ELSE 0
  BY <1>1, Part
<1>4. \A i \in 1 .. (m - a + 1) : u[i] = argv[a + i - 1]
  BY <1>1, Part
<1>5. s \in Seq(Word)
  BY <1>1, Part
<1>6. Len(s) = IF a <= n THEN n - a + 1 ELSE 0
  BY <1>1, Part
<1>7. \A i \in 1 .. (n - a + 1) : s[i] = argv[a + i - 1]
  BY <1>1, Part
<1> DEFINE n1 == n + 1
<1>8. t = SubSeq(ws, n1, m) /\ n1 \in Nat \ {0}
  BY <1>1
<1> HIDE DEF n1, t, u, s, m
<1>9. t \in Seq(Word)
  BY <1>1, <1>8, Part
<1>10. Len(t) = IF n1 <= m THEN m - n1 + 1 ELSE 0
  BY <1>1, <1>8, Part
<1>11. \A i \in 1 .. (m - n1 + 1) : t[i] = ws[n1 + i - 1]
  BY <1>1, <1>8, Part
<1>12. n1 = n + 1
  BY DEF n1
<1>13. Len(u) = m - a + 1 /\ Len(s) = c /\ Len(t) = m - n
  BY <1>1, <1>3, <1>6, <1>10, <1>12
<1>14. v \in Seq(Word) /\ Len(v) = m - a + 1
  BY <1>1, <1>5, <1>9, <1>13
<1>15. \A i \in 1 .. c : v[i] = s[i]
  BY <1>1, <1>5, <1>9, <1>13
<1>16. ASSUME NEW i \in c + 1 .. m - a + 1 PROVE v[i] = t[i - c]
  <2>1. c + (m - n) = m - a + 1 /\ c \in Nat
    BY <1>1
  <2> HIDE DEF c
  <2>2. i \in Len(s) + 1 .. Len(s) + Len(t)
    BY <1>13, <2>1
  <2>3. v[i] = t[i - Len(s)]
    BY <1>5, <1>9, <2>2
  <2> QED
    BY <1>13, <2>3
<1> HIDE DEF v
<1>17. ASSUME NEW i \in 1 .. m - a + 1 PROVE u[i] = v[i]
  <2>1. i \in Int /\ u[i] = argv[a + i - 1]
    BY <1>1, <1>4
  <2>2. CASE i <= c
    <3>1. i \in 1 .. c /\ i \in 1 .. (n - a + 1)
      BY <1>1, <2>2
    <3> QED
      BY <1>7, <1>15, <2>1, <3>1
  <2>3. CASE i > c
    <3> DEFINE j == i - c
               y == a + i - 1
    <3>1. /\ i \in c + 1 .. m - a + 1 /\ j \in 1 .. (m - n1 + 1)
          /\ y \in n + 1 .. m /\ n1 + j - 1 = y
      BY <1>1, <1>12, <2>3
    <3>2. v[i] = t[j]
      BY <1>16, <3>1
    <3>3. t[j] = ws[n1 + j - 1]
      <4> HIDE DEF j
      <4> QED
        BY <1>11, <3>1
    <3>4. argv[y] = ws[y]
      <4> HIDE DEF y
      <4> QED
        BY <3>1 DEF m
    <3> QED
      BY <2>1, <3>1, <3>2, <3>3, <3>4
  <2> QED
    BY <1>1, <2>1, <2>2, <2>3
<1>18. u = v
  BY <1>2, <1>13, <1>14, <1>17, SameElements
<1> QED
  BY <1>8, <1>18 DEF u, v, s, m, n1

\* No word is left.
LEMMA EndOfWordsKeeps == ASSUME GetoptInv, operands = <<"reading">>, EndOfWords PROVE GetoptInv'
<1> DEFINE n == optind
           s == SkippedWords(nargv, optind, nonopt_start, nonopt_end)
           first == nonopt_start
           middle == nonopt_end
           argv == IF middle # -1 THEN permute_args(first, middle, n, nargv) ELSE nargv
           from == IF middle # -1 THEN n - (middle - first) ELSE IF first # -1 THEN first ELSE n
<1>1. words \in Seq(Word) /\ Going(words, nargv, n, nonopt_start, nonopt_end, seen)
  BY DEF GetoptInv
<1>2. /\ n > Len(nargv) /\ nargv' = argv /\ optind' = from /\ parseArguments_end(argv, from)
      /\ words' = words /\ seen' = seen
  BY DEF EndOfWords, Finish
<1>3. /\ nargv \in Seq(Word) /\ Len(nargv) = Len(words) /\ Len(words) \in Nat /\ n = Len(nargv) + 1
      /\ \/ first = -1 /\ middle = -1
         \/ first \in 1 .. n - 1 /\ middle = -1
         \/ first \in 1 .. n - 1 /\ middle \in first + 1 .. n - 1
  BY <1>1, <1>2 DEF Going
<1>4. PICK k \in 0 .. Len(words) : IsRead(reading(words)[k], n, seen, s)
  BY <1>1 DEF Going
<1>5. seen = read(words).options /\ s = read(words).operands
  <2>1. reading(words)[k].at = n /\ reading(words)[k].options = seen /\ reading(words)[k].operands = s
    BY <1>4 DEF IsRead
  <2>2. reading(words)[k].at > Len(words)
    BY <1>3, <2>1
  <2>3. read(words) = reading(words)[k]
    BY <1>1, <2>2, ReadingGoesOn
  <2> QED
    BY <2>1, <2>3
<1>6. /\ argv \in Seq(Word) /\ Len(argv) = Len(nargv) /\ from \in Nat /\ 1 <= from /\ from <= n
      /\ SubSeq(argv, from, n - 1) = s
  <2>1. CASE middle # -1
    <3> DEFINE new == permute_args(first, middle, n, nargv)
    <3>1. /\ first \in Nat /\ middle \in Nat /\ n \in Nat
          /\ 1 <= first /\ first < middle /\ middle < n /\ n <= Len(nargv) + 1
      BY <1>3, <2>1
    <3>2. argv = new /\ from = n - (middle - first)
      BY <2>1
    <3>3. s = SubSeq(nargv, first, middle - 1)
      BY <2>1, <3>1 DEF SkippedWords
    <3> HIDE DEF argv, from, s, n, first, middle, new
    <3>4. /\ new \in Seq(Word) /\ Len(new) = Len(nargv)
          /\ SubSeq(new, n - (middle - first), n - 1) = SubSeq(nargv, first, middle - 1)
      BY <1>3, <3>1, PermutedIs DEF new
    <3> QED
      BY <3>1, <3>2, <3>3, <3>4
  <2>2. CASE middle = -1 /\ first # -1
    <3>1. argv = nargv /\ from = first
      BY <2>2
    <3>2. s = SubSeq(nargv, first, n - 1)
      BY <2>2 DEF SkippedWords
    <3> HIDE DEF argv, from, s
    <3> QED
      BY <1>3, <2>2, <3>1, <3>2
  <2>3. CASE middle = -1 /\ first = -1
    <3>1. argv = nargv /\ from = n
      BY <2>3
    <3>2. s = <<>>
      BY <2>3 DEF SkippedWords
    <3>3. SubSeq(nargv, n, n - 1) = <<>>
      BY <1>3
    <3> HIDE DEF argv, from, s
    <3> QED
      BY <1>3, <3>1, <3>2, <3>3
  <2> QED
    BY <2>1, <2>2, <2>3
<1> HIDE DEF argv, from, s
<1>7. SubSeq(argv, from, Len(argv)) = read(words).operands /\ from <= Len(argv) + 1
  <2>1. Len(argv) = n - 1 /\ n = Len(argv) + 1
    BY <1>3, <1>6
  <2> QED
    BY <1>5, <1>6, <2>1
<1> QED
  BY <1>1, <1>2, <1>5, <1>6, <1>7, Ends

\* The end mark: the words behind it are operands.
LEMMA EndMarkKeeps == ASSUME GetoptInv, operands = <<"reading">>, EndMark PROVE GetoptInv'
<1> DEFINE n == optind
           s == SkippedWords(nargv, optind, nonopt_start, nonopt_end)
           first == nonopt_start
           upto == SkippedTo
           argv == IF upto # -1 THEN permute_args(first, upto, n + 1, nargv) ELSE nargv
           from == IF upto # -1 THEN n + 1 - (upto - first) ELSE n + 1
<1>1. words \in Seq(Word) /\ Going(words, nargv, n, nonopt_start, nonopt_end, seen)
  BY DEF GetoptInv
<1>2. /\ n <= Len(nargv) /\ nargv[n].kind = "end"
      /\ nargv' = argv /\ optind' = from /\ parseArguments_end(argv, from)
      /\ words' = words /\ seen' = seen
  BY DEF EndMark, Current
<1>3. /\ nargv \in Seq(Word) /\ Len(nargv) = Len(words) /\ Len(words) \in Nat /\ n \in 1 .. Len(nargv)
      /\ \A i \in n .. Len(words) : nargv[i] = words[i]
      /\ \/ first = -1 /\ nonopt_end = -1
         \/ first \in 1 .. n - 1 /\ nonopt_end = -1
         \/ first \in 1 .. n - 1 /\ nonopt_end \in first + 1 .. n - 1
  BY <1>1, <1>2 DEF Going
<1> DEFINE rest == SubSeq(words, n + 1, Len(words))
<1>4. PICK k \in 0 .. Len(words) : IsRead(reading(words)[k], Len(words) + 1, seen, s \o rest)
  BY <1>1, <1>2, NextRead
<1>5. seen = read(words).options /\ s \o rest = read(words).operands
  <2>1. /\ reading(words)[k].at = Len(words) + 1 /\ reading(words)[k].options = seen
        /\ reading(words)[k].operands = s \o rest
    BY <1>4 DEF IsRead
  <2>2. reading(words)[k].at > Len(words)
    BY <1>3, <2>1
  <2>3. read(words) = reading(words)[k]
    BY <1>1, <2>2, ReadingGoesOn
  <2> QED
    BY <2>1, <2>3
<1>6. \/ first = -1 /\ upto = -1
      \/ first \in 1 .. n - 1 /\ upto \in first + 1 .. n
  <2>1. upto = IF first # -1 /\ nonopt_end = -1 THEN n ELSE nonopt_end
    BY DEF SkippedTo
  <2> HIDE DEF upto, n, first
  <2>2. n \in Int
    BY <1>3
  <2>3. CASE first = -1 /\ nonopt_end = -1
    BY <2>1, <2>3
  <2>4. CASE first \in 1 .. n - 1 /\ nonopt_end = -1
    <3>1. upto = n
      BY <2>1, <2>4
    <3> QED
      BY <2>2, <2>4, <3>1
  <2>5. CASE first \in 1 .. n - 1 /\ nonopt_end \in first + 1 .. n - 1
    <3>1. upto = nonopt_end
      BY <2>1, <2>5
    <3> QED
      BY <2>2, <2>5, <3>1
  <2> QED
    BY <1>3, <2>3, <2>4, <2>5
<1>7. s = IF first = -1 THEN <<>> ELSE SubSeq(nargv, first, upto - 1)
  BY <1>3 DEF SkippedTo, SkippedWords
<1>8. /\ argv \in Seq(Word) /\ Len(argv) = Len(nargv) /\ from \in 1 .. n + 1
      /\ SubSeq(argv, from, n) = s
      /\ \A i \in n + 1 .. Len(argv) : argv[i] = words[i]
  <2>1. CASE upto # -1
    <3> DEFINE end == n + 1
               new == permute_args(first, upto, end, nargv)
    <3>1. /\ first \in Nat /\ upto \in Nat /\ end \in Nat
          /\ 1 <= first /\ first < upto /\ upto < end /\ end <= Len(nargv) + 1
      <4> HIDE DEF upto, first, n
      <4> QED
        BY <1>3, <1>6, <2>1
    <3>2. argv = new /\ from = end - (upto - first)
      <4>1. argv = new
        BY <2>1
      <4>2. n \in Int
        BY <1>3
      <4>3. from = end - (upto - first)
        <5> HIDE DEF upto, n, first
        <5> QED
          BY <2>1, <3>1, <4>2
      <4> QED
        BY <4>1, <4>3
    <3>3. s = SubSeq(nargv, first, upto - 1)
      BY <1>7, <3>1
    <3>4. end - 1 = n /\ n \in Int
      BY <1>3
    <3> HIDE DEF argv, from, s, n, first, upto, new, end
    <3>5. /\ new \in Seq(Word) /\ Len(new) = Len(nargv)
          /\ SubSeq(new, end - (upto - first), end - 1) = SubSeq(nargv, first, upto - 1)
          /\ \A i \in end .. Len(nargv) : new[i] = nargv[i]
      BY <1>3, <3>1, PermutedIs DEF new
    <3>6. SubSeq(argv, from, n) = s
      BY <3>2, <3>3, <3>4, <3>5
    <3>7. from \in 1 .. n + 1
      BY <3>1, <3>2, <3>4
    <3>8. \A i \in n + 1 .. Len(argv) : argv[i] = words[i]
      <4> SUFFICES ASSUME NEW i \in n + 1 .. Len(argv) PROVE argv[i] = words[i]
        OBVIOUS
      <4>1. i \in end .. Len(nargv) /\ i \in n .. Len(words)
        BY <1>3, <3>1, <3>2, <3>4, <3>5
      <4>2. new[i] = nargv[i] /\ nargv[i] = words[i]
        BY <1>3, <3>5, <4>1
      <4> QED
        BY <3>2, <4>2
    <3> QED
      BY <3>2, <3>5, <3>6, <3>7, <3>8
  <2>2. CASE upto = -1
    <3>1. argv = nargv /\ from = n + 1
      BY <2>2
    <3>2. first = -1
      <4> HIDE DEF upto, first, n
      <4> QED
        BY <1>3, <1>6, <2>2
    <3>3. s = <<>>
      BY <1>7, <3>2
    <3>4. SubSeq(nargv, n + 1, n) = <<>>
      BY <1>3
    <3> HIDE DEF argv, from, s, upto
    <3>5. \A i \in n + 1 .. Len(nargv) : nargv[i] = words[i]
      <4> SUFFICES ASSUME NEW i \in n + 1 .. Len(nargv) PROVE nargv[i] = words[i]
        OBVIOUS
      <4>1. i \in n .. Len(words)
        BY <1>3
      <4> QED
        BY <1>3, <4>1
    <3> QED
      BY <1>3, <3>1, <3>3, <3>4, <3>5
  <2> QED
    BY <2>1, <2>2
<1>9. SubSeq(argv, from, Len(argv)) = s \o rest
  <2> HIDE DEF argv, from, s, n
  <2>1. n \in 1 .. Len(argv) /\ Len(argv) = Len(words)
    BY <1>3, <1>8
  <2>2. SubSeq(argv, from, Len(argv)) = SubSeq(argv, from, n) \o SubSeq(words, n + 1, Len(argv))
    BY <1>1, <1>8, <2>1, TwoParts
  <2> QED
    BY <1>8, <2>1, <2>2
<1>10. from \in Nat /\ 1 <= from /\ from <= Len(argv) + 1
  <2> HIDE DEF argv, from, s
  <2> QED
    BY <1>3, <1>8
<1> HIDE DEF argv, from, s, rest
<1> QED
  BY <1>1, <1>2, <1>5, <1>8, <1>9, <1>10, Ends

\* However options and operands are mixed, the options are told and the operands taken in the
\* order in which they were written (getopt_internal, permute_args, parseArguments).
THEOREM CommandLineAsWritten == GetoptSpec => []GetoptAsWritten
<1>1. GetoptInit => GetoptInv
  BY GetoptBegins
<1>2. GetoptInv /\ [GetoptNext]_getoptVars => GetoptInv'
  <2> SUFFICES ASSUME GetoptInv, [GetoptNext]_getoptVars PROVE GetoptInv'
    OBVIOUS
  <2>1. CASE operands = <<"reading">> /\ EndOfWords
    BY <2>1, EndOfWordsKeeps
  <2>2. CASE operands = <<"reading">> /\ NonOption
    BY <2>2, OperandKeeps
  <2>3. CASE operands = <<"reading">> /\ EndMark
    BY <2>3, EndMarkKeeps
  <2>4. CASE operands = <<"reading">> /\ LongOption
    BY <2>4, OptionKeeps
  <2>5. CASE UNCHANGED getoptVars
    BY <2>5 DEF GetoptInv, GetoptAsWritten, getoptVars
  <2> QED
    BY <2>1, <2>2, <2>3, <2>4, <2>5 DEF GetoptNext
<1>3. GetoptInv => GetoptAsWritten
  BY DEF GetoptInv
<1> QED
  BY <1>1, <1>2, <1>3, PTL DEF GetoptSpec

=============================================================================
