---------------------------- MODULE TextsProofs ----------------------------
(***************************************************************************)
(* What the functions on texts return, for texts of any length.            *)
(***************************************************************************)
EXTENDS Texts, FiniteSetTheorems, WellFoundedInduction, SequenceTheorems,
        TLAPS

-----------------------------------------------------------------------------
(* Induction on the natural numbers, over a set of them in place of a      *)
(* predicate: the initial segments that end in a missing number have a     *)
(* least one, since the order of finite sets is well-founded.              *)
LEMMA SetInduction ==
  ASSUME NEW T, 0 \in T, \A n \in Nat : n \in T => n + 1 \in T
  PROVE  Nat \subseteq T
<1> DEFINE Missed == {0..n : n \in Nat \ T}
<1>1. SUFFICES ASSUME Missed # {} PROVE FALSE
  OBVIOUS
<1>2. Missed \subseteq FiniteSubsetsOf(Nat)
  <2>1. \A n \in Nat : 0..n \in SUBSET Nat /\ IsFiniteSet(0..n)
    BY FS_Interval
  <2> QED
    BY <2>1 DEF FiniteSubsetsOf
<1>3. IsWellFoundedOn(StrictSubsetOrdering(Nat), FiniteSubsetsOf(Nat))
  BY FS_StrictSubsetOrderingWellFounded
<1>4. PICK least \in Missed : \A y \in Missed : ~(<<y, least>> \in StrictSubsetOrdering(Nat))
  <2> HIDE DEF Missed
  <2> QED
    BY <1>1, <1>2, <1>3, WFMin
<1>5. PICK n \in Nat \ T : least = 0..n
  BY <1>4
<1>6. n # 0 /\ n - 1 \in Nat /\ n - 1 \notin T
  BY <1>5
<1>7. 0..(n - 1) \in Missed
  BY <1>6
<1>8. <<0..(n - 1), 0..n>> \in StrictSubsetOrdering(Nat)
  <2>1. 0..(n - 1) \subseteq 0..n /\ 0..n \subseteq Nat
    BY <1>6
  <2>2. n \in 0..n /\ n \notin 0..(n - 1)
    BY <1>6
  <2> QED
    BY <2>1, <2>2 DEF StrictSubsetOrdering
<1> QED
  BY <1>4, <1>5, <1>7, <1>8

-----------------------------------------------------------------------------
(* Sequences: one after another, one more element, a piece of one.         *)
LEMMA Concatenated ==
  ASSUME NEW S, NEW a \in Seq(S), NEW b \in Seq(S)
  PROVE  /\ a \o b \in Seq(S) /\ Len(a \o b) = Len(a) + Len(b)
         /\ \A i \in 1..Len(a) : (a \o b)[i] = a[i]
         /\ \A i \in 1..Len(b) : (a \o b)[Len(a) + i] = b[i]
OBVIOUS

LEMMA Appending ==
  ASSUME NEW S, NEW s \in Seq(S), NEW u \in S
  PROVE  /\ Append(s, u) \in Seq(S) /\ Len(Append(s, u)) = Len(s) + 1
         /\ \A i \in 1..Len(s) : Append(s, u)[i] = s[i]
         /\ Append(s, u)[Len(s) + 1] = u
OBVIOUS

LEMMA CutIs ==
  ASSUME NEW S, NEW s \in Seq(S), NEW x \in 1..(Len(s) + 1), NEW y \in (x - 1)..Len(s)
  PROVE  /\ SubSeq(s, x, y) \in Seq(S) /\ Len(SubSeq(s, x, y)) = y - x + 1
         /\ \A i \in 1..(y - x + 1) : SubSeq(s, x, y)[i] = s[x + i - 1]
OBVIOUS

LEMMA CutJoined ==
  ASSUME NEW S, NEW s \in Seq(S), NEW x \in 0..Len(s), NEW y \in x..Len(s)
  PROVE  SubSeq(s, 1, x) \o SubSeq(s, x + 1, y) = SubSeq(s, 1, y)
<1> DEFINE a == SubSeq(s, 1, x)
           b == SubSeq(s, x + 1, y)
           l == a \o b
           r == SubSeq(s, 1, y)
<1>1. /\ a \in Seq(S) /\ Len(a) = x
      /\ \A i \in 1..x : a[i] = s[i]
  BY CutIs
<1>2. /\ b \in Seq(S) /\ Len(b) = y - x
      /\ \A i \in 1..(y - x) : b[i] = s[x + i]
  OBVIOUS
<1>3. /\ r \in Seq(S) /\ Len(r) = y
      /\ \A i \in 1..y : r[i] = s[i]
  BY CutIs
<1> HIDE DEF a, b, r
<1>4. /\ l \in Seq(S) /\ Len(l) = Len(a) + Len(b)
      /\ \A i \in 1..Len(a) : l[i] = a[i]
      /\ \A i \in 1..Len(b) : l[Len(a) + i] = b[i]
  BY <1>1, <1>2, Concatenated
<1> HIDE DEF l
<1>5. Len(l) = y
  BY <1>1, <1>2, <1>4
<1>6. ASSUME NEW i \in 1..y PROVE l[i] = r[i]
  <2>1. CASE i <= x
    <3>1. i \in 1..Len(a) /\ i \in 1..x
      BY <1>1, <2>1
    <3> QED
      BY <1>1, <1>3, <1>4, <3>1
  <2>2. CASE i > x
    <3>1. PICK j \in 1..(y - x) : i = x + j
      <4>1. i - x \in 1..(y - x) /\ i = x + (i - x)
        BY <2>2
      <4> QED
        BY <4>1
    <3>2. l[Len(a) + j] = b[j] /\ b[j] = s[x + j]
      BY <1>2, <1>4, <3>1
    <3> QED
      BY <1>1, <1>3, <3>1, <3>2
  <2> QED
    BY <2>1, <2>2
<1>7. l = r
  BY <1>3, <1>4, <1>5, <1>6, SeqEqual
<1> QED
  BY <1>7 DEF l, r, a, b

(* The texts of a sequence put together one by one.                        *)
LEMMA FlattenRead ==
  ASSUME NEW ss, NEW n \in Nat, Len(ss) = n, n # 0
  PROVE  \E flat : /\ FlattenSeq(ss) = flat[n]
                   /\ \A i \in 1..n : flat[i] = IF i = 1 THEN ss[i] ELSE flat[i - 1] \o ss[i]
<1> DEFINE Flat(f, m) == f = [i \in 1..m |-> IF i = 1 THEN ss[i] ELSE f[i - 1] \o ss[i]]
           flat == CHOOSE f : Flat(f, n)
<1>1. FlattenSeq(ss) = flat[n]
  BY DEF FlattenSeq
<1>3. \E f : Flat(f, n)
  <2> HIDE DEF Flat
  <2> DEFINE Done == {m \in Nat : \E f : Flat(f, m)}
  <2>1. 0 \in Done
    <3>1. Flat(<<>>, 0)
      BY DEF Flat
    <3> QED
      BY <3>1
  <2>2. ASSUME NEW m \in Nat, m \in Done PROVE m + 1 \in Done
    <3>1. PICK f : Flat(f, m)
      BY <2>2
    <3> DEFINE g == [i \in 1..(m + 1) |-> IF i = m + 1
                       THEN IF i = 1 THEN ss[i] ELSE f[m] \o ss[i] ELSE f[i]]
    <3>2. ASSUME NEW i \in 1..(m + 1)
          PROVE  g[i] = IF i = 1 THEN ss[i] ELSE g[i - 1] \o ss[i]
      <4>1. CASE i = m + 1
        BY <4>1
      <4>2. CASE i # m + 1
        <5>1. i \in 1..m /\ i - 1 # m + 1 /\ (i # 1 => i - 1 \in 1..m)
          BY <4>2
        <5>2. f[i] = IF i = 1 THEN ss[i] ELSE f[i - 1] \o ss[i]
          BY <3>1, <5>1, Zenon DEF Flat
        <5> QED
          BY <4>2, <5>1, <5>2
      <4> QED
        BY <4>1, <4>2
    <3>3. Flat(g, m + 1)
      <4>1. g = [i \in 1..(m + 1) |-> g[i]]
        OBVIOUS
      <4> HIDE DEF g
      <4>2. [i \in 1..(m + 1) |-> g[i]]
              = [i \in 1..(m + 1) |-> IF i = 1 THEN ss[i] ELSE g[i - 1] \o ss[i]]
        BY <3>2
      <4> QED
        BY <4>1, <4>2 DEF Flat
    <3> QED
      BY <3>3
  <2> HIDE DEF Done
  <2>3. Nat \subseteq Done
    BY <2>1, <2>2, SetInduction
  <2> QED
    BY <2>3 DEF Done
<1>4. Flat(flat, n)
  <2> HIDE DEF Flat
  <2> QED
    BY <1>3
<1> HIDE DEF flat
<1>5. \A i \in 1..n : flat[i] = IF i = 1 THEN ss[i] ELSE flat[i - 1] \o ss[i]
  BY <1>4, Zenon
<1> QED
  BY <1>1, <1>5

(* Texts put one after the other are a text, and an empty one only when    *)
(* there are none or the first is empty.                                   *)
LEMMA FlattenIsText ==
  ASSUME NEW S, NEW ss \in Seq(Seq(S))
  PROVE  /\ FlattenSeq(ss) \in Seq(S)
         /\ ss # <<>> /\ ss[1] # <<>> => FlattenSeq(ss) # <<>>
<1> DEFINE n == Len(ss)
<1>1. CASE n = 0
  BY <1>1 DEF FlattenSeq
<1>2. CASE n # 0
  <2>1. PICK flat : /\ FlattenSeq(ss) = flat[n]
                    /\ \A i \in 1..n : flat[i] = IF i = 1 THEN ss[i] ELSE flat[i - 1] \o ss[i]
    <3>1. n \in Nat
      OBVIOUS
    <3> QED
      BY <1>2, <3>1, FlattenRead, Zenon
  <2>2. \A m \in 1..n : ss[m] \in Seq(S)
    OBVIOUS
  <2>5. \A m \in 1..n : flat[m] \in Seq(S) /\ (ss[1] # <<>> => flat[m] # <<>>)
    <3> DEFINE Text == {m \in Nat : m \in 1..n =>
                          flat[m] \in Seq(S) /\ (ss[1] # <<>> => flat[m] # <<>>)}
    <3>1. 0 \in Text
      OBVIOUS
    <3>2. ASSUME NEW m \in Nat, m \in Text PROVE m + 1 \in Text
      <4> SUFFICES ASSUME m + 1 \in 1..n
                   PROVE  flat[m + 1] \in Seq(S) /\ (ss[1] # <<>> => flat[m + 1] # <<>>)
        OBVIOUS
      <4>1. flat[m + 1] = IF m + 1 = 1 THEN ss[m + 1] ELSE flat[m] \o ss[m + 1]
        <5>1. flat[m + 1] = IF m + 1 = 1 THEN ss[m + 1] ELSE flat[(m + 1) - 1] \o ss[m + 1]
          BY <2>1
        <5>2. (m + 1) - 1 = m
          OBVIOUS
        <5> QED
          BY <5>1, <5>2
      <4>2. m # 0 => flat[m] \in Seq(S) /\ (ss[1] # <<>> => flat[m] # <<>>)
        BY <3>2
      <4>3. ss[m + 1] \in Seq(S)
        BY <2>2
      <4> QED
        BY <4>1, <4>2, <4>3
    <3> HIDE DEF Text
    <3>3. Nat \subseteq Text
      BY <3>1, <3>2, SetInduction
    <3> QED
      BY <3>3 DEF Text
  <2> QED
    BY <1>2, <2>1, <2>5
<1> QED
  BY <1>1, <1>2

(* One more text at the end.                                               *)
LEMMA FlattenNext ==
  ASSUME NEW S, NEW ss \in Seq(Seq(S)), NEW x \in Seq(S)
  PROVE  FlattenSeq(Append(ss, x)) = FlattenSeq(ss) \o x
<1> DEFINE n == Len(ss)
           tt == Append(ss, x)
<1>1. n \in Nat /\ Len(tt) = n + 1 /\ tt[n + 1] = x /\ \A i \in 1..n : tt[i] = ss[i]
  OBVIOUS
<1> HIDE DEF tt
<1>2. PICK long : /\ FlattenSeq(tt) = long[n + 1]
                  /\ \A i \in 1..(n + 1) :
                        long[i] = IF i = 1 THEN tt[i] ELSE long[i - 1] \o tt[i]
  <2> DEFINE m == n + 1
  <2>1. m \in Nat /\ m # 0 /\ Len(tt) = m
    BY <1>1
  <2> HIDE DEF m
  <2>2. \E flat : /\ FlattenSeq(tt) = flat[m]
                  /\ \A i \in 1..m : flat[i] = IF i = 1 THEN tt[i] ELSE flat[i - 1] \o tt[i]
    BY <2>1, FlattenRead, Zenon
  <2> QED
    BY <2>2 DEF m
<1>3. CASE n = 0
  <2>1. FlattenSeq(ss) = <<>>
    BY <1>3 DEF FlattenSeq
  <2>2. long[n + 1] = x
    BY <1>1, <1>2, <1>3
  <2>3. <<>> \o x = x
    OBVIOUS
  <2> QED
    BY <1>2, <2>1, <2>2, <2>3 DEF tt
<1>4. CASE n # 0
  <2> HIDE DEF n
  <2>1. PICK flat : /\ FlattenSeq(ss) = flat[n]
                    /\ \A i \in 1..n : flat[i] = IF i = 1 THEN ss[i] ELSE flat[i - 1] \o ss[i]
    <3>1. Len(ss) = n
      BY DEF n
    <3> QED
      BY <1>1, <1>4, <3>1, FlattenRead, Zenon
  <2> DEFINE Same == {m \in Nat : m \in 1..n => long[m] = flat[m]}
  <2>2. 0 \in Same
    OBVIOUS
  <2>3. ASSUME NEW m \in Nat, m \in Same PROVE m + 1 \in Same
    <3> SUFFICES ASSUME m + 1 \in 1..n PROVE long[m + 1] = flat[m + 1]
      OBVIOUS
    <3> DEFINE k == m + 1
    <3>1. /\ k \in 1..n /\ k \in 1..(n + 1) /\ k - 1 = m /\ tt[k] = ss[k]
          /\ k # 1 => long[m] = flat[m]
      BY <1>1, <2>3
    <3>2. long[k] = IF k = 1 THEN tt[k] ELSE long[k - 1] \o tt[k]
      BY <1>2, <3>1
    <3>3. flat[k] = IF k = 1 THEN ss[k] ELSE flat[k - 1] \o ss[k]
      BY <2>1, <3>1
    <3> HIDE DEF k
    <3>4. long[k] = flat[k]
      BY <3>1, <3>2, <3>3
    <3> QED
      BY <3>4 DEF k
  <2> HIDE DEF Same
  <2>4. Nat \subseteq Same
    BY <2>2, <2>3, SetInduction
  <2>5. long[n] = flat[n]
    <3>1. n \in Nat /\ n \in 1..n
      BY <1>1, <1>4
    <3> QED
      BY <2>4, <3>1 DEF Same
  <2> DEFINE k == n + 1
  <2>6. k \in 1..(n + 1) /\ k # 1 /\ k - 1 = n /\ tt[k] = x
    BY <1>1, <1>4
  <2>7. long[k] = IF k = 1 THEN tt[k] ELSE long[k - 1] \o tt[k]
    BY <1>2, <2>6
  <2>8. FlattenSeq(tt) = long[k]
    BY <1>2
  <2> HIDE DEF k
  <2> QED
    BY <2>1, <2>5, <2>6, <2>7, <2>8 DEF tt
<1> QED
  BY <1>3, <1>4

(* Pieces that follow one another in a text are the text.                  *)
LEMMA CutsFlattened ==
  ASSUME NEW S, NEW b \in Seq(S), NEW pp, NEW m \in Nat \ {0}, Len(pp) = m,
         NEW to, to[m] = Len(b),
         \A k \in 1..m : /\ to[k] \in 0..Len(b)
                         /\ k = 1 => pp[k] = SubSeq(b, 1, to[k])
                         /\ k # 1 => to[k - 1] <= to[k] /\ pp[k] = SubSeq(b, to[k - 1] + 1, to[k])
  PROVE  FlattenSeq(pp) = b
<1>1. PICK flat : /\ FlattenSeq(pp) = flat[m]
                  /\ \A i \in 1..m : flat[i] = IF i = 1 THEN pp[i] ELSE flat[i - 1] \o pp[i]
  <2>1. m \in Nat /\ m # 0
    OBVIOUS
  <2> QED
    BY <2>1, FlattenRead, Zenon
<1> DEFINE Done == {j \in Nat : j \in 1..m => flat[j] = SubSeq(b, 1, to[j])}
<1>2. 0 \in Done
  OBVIOUS
<1>3. ASSUME NEW j \in Nat, j \in Done PROVE j + 1 \in Done
  <2> SUFFICES ASSUME j + 1 \in 1..m PROVE flat[j + 1] = SubSeq(b, 1, to[j + 1])
    OBVIOUS
  <2> DEFINE k == j + 1
  <2>1. k \in 1..m /\ k - 1 = j /\ (k # 1 => j \in 1..m) /\ k \in Nat
    OBVIOUS
  <2> HIDE DEF k
  <2>2. flat[k] = IF k = 1 THEN pp[k] ELSE flat[k - 1] \o pp[k]
    BY <1>1, <2>1
  <2>3. CASE k = 1
    <3>1. flat[k] = SubSeq(b, 1, to[k])
      BY <2>1, <2>2, <2>3
    <3> QED
      BY <3>1 DEF k
  <2>4. CASE k # 1
    <3>1. flat[j] = SubSeq(b, 1, to[j])
      BY <1>3, <2>1, <2>4
    <3>2. to[j] \in 0..Len(b) /\ to[k] \in to[j]..Len(b) /\ pp[k] = SubSeq(b, to[j] + 1, to[k])
      <4>1. to[k] \in 0..Len(b) /\ to[k - 1] <= to[k] /\ pp[k] = SubSeq(b, to[k - 1] + 1, to[k])
        BY <2>1, <2>4
      <4>2. to[j] \in 0..Len(b) /\ Len(b) \in Nat
        BY <2>1, <2>4
      <4>3. to[j] <= to[k] /\ pp[k] = SubSeq(b, to[j] + 1, to[k])
        BY <2>1, <4>1
      <4>4. to[k] \in to[j]..Len(b)
        BY <4>1, <4>2, <4>3
      <4> QED
        BY <4>2, <4>3, <4>4
    <3>3. SubSeq(b, 1, to[j]) \o SubSeq(b, to[j] + 1, to[k]) = SubSeq(b, 1, to[k])
      BY <3>2, CutJoined
    <3>4. flat[k] = SubSeq(b, 1, to[k])
      BY <2>1, <2>2, <2>4, <3>1, <3>2, <3>3
    <3> QED
      BY <3>4 DEF k
  <2> QED
    BY <2>3, <2>4
<1> HIDE DEF Done
<1>4. Nat \subseteq Done
  BY <1>2, <1>3, SetInduction
<1>5. flat[m] = SubSeq(b, 1, to[m])
  <2>1. m \in Nat /\ m \in 1..m
    OBVIOUS
  <2> QED
    BY <1>4, <2>1 DEF Done
<1>6. SubSeq(b, 1, Len(b)) = b
  OBVIOUS
<1> QED
  BY <1>1, <1>5, <1>6

-----------------------------------------------------------------------------
(* A word of a line is never empty: what is between two words is gone.     *)
Spelled(S) == [text : Seq(S) \ {<<>>}, assign : BOOLEAN, abs : BOOLEAN, base : STRING]

LEMMA SpacedIsText ==
  ASSUME NEW S, NEW blank \in S, NEW line \in Seq(Spelled(S)),
         NEW words, words = [i \in DOMAIN line |->
                               IF i = 1 THEN line[i].text ELSE <<blank>> \o line[i].text]
  PROVE  /\ FlattenSeq(words) \in Seq(S)
         /\ line # <<>> => FlattenSeq(words) # <<>>
<1>1. \A i \in DOMAIN line : line[i].text \in Seq(S) /\ line[i].text # <<>>
  <2>1. \A i \in DOMAIN line : line[i] \in Spelled(S)
    OBVIOUS
  <2>2. \A word \in Spelled(S) : word.text \in Seq(S) /\ word.text # <<>>
    BY DEF Spelled
  <2> QED
    BY <2>1, <2>2
<1>2. \A i \in DOMAIN line : words[i] \in Seq(S)
  BY <1>1
<1>3. DOMAIN line = 1..Len(line) /\ Len(line) \in Nat
  OBVIOUS
<1>4. words \in Seq(Seq(S)) /\ Len(words) = Len(line)
  BY <1>2, <1>3
<1>5. line # <<>> => words # <<>> /\ words[1] # <<>>
  BY <1>1, <1>3, <1>4
<1> QED
  BY <1>4, <1>5, FlattenIsText

LEMMA JoinedIsText ==
  ASSUME NEW S, " " \in S, NEW line \in Seq(Spelled(S))
  PROVE  /\ Joined(line) \in Seq(S)
         /\ line # <<>> => Joined(line) # <<>>
BY SpacedIsText, Zenon DEF Joined

(* truncate: what fits is left alone; what does not is cut to the length   *)
(* and says so.                                                            *)
LEMMA TruncateFits ==
  ASSUME NEW S, "ellipsis" \in S, NEW s \in Seq(S), NEW max \in Nat
  PROVE  /\ Truncate(s, max) \in Seq(S)
         /\ Len(Truncate(s, max)) <= max
         /\ max # 0 /\ s # <<>> => Truncate(s, max) # <<>>
         /\ max # 0 /\ Truncate(s, max) # s =>
              /\ Len(Truncate(s, max)) = max
              /\ Truncate(s, max)[max] = "ellipsis"
<1>1. CASE Len(s) <= max
  BY <1>1 DEF Truncate
<1>2. CASE Len(s) > max /\ max = 0
  BY <1>2 DEF Truncate
<1>3. CASE Len(s) > max /\ max # 0
  <2> DEFINE cut == SubSeq(s, 1, max - 1)
  <2>1. Truncate(s, max) = cut \o <<"ellipsis">>
    <3>1. ~(Len(s) <= max)
      BY <1>3
    <3> QED
      BY <1>3, <3>1, Zenon DEF Truncate
  <2>2. cut \in Seq(S) /\ Len(cut) = max - 1
    BY <1>3
  <2> HIDE DEF cut
  <2>3. /\ cut \o <<"ellipsis">> \in Seq(S)
        /\ Len(cut \o <<"ellipsis">>) = max
        /\ (cut \o <<"ellipsis">>)[max] = "ellipsis"
    BY <1>3, <2>2
  <2> QED
    BY <1>3, <2>1, <2>3
<1> QED
  BY <1>1, <1>2, <1>3

-----------------------------------------------------------------------------
(* render of a template that is `{cmd}` alone.  The rest of a template is  *)
(* a function of the place it is read from, and here it has four.          *)
LEMMA Middle ==
  ASSUME NEW open, NEW key, NEW close
  PROVE  SubSeq(<<open, key, close>>, 2, 2) = <<key>>
<1> DEFINE s == <<open, key, close>>
           S == {open, key, close}
           x == SubSeq(s, 2, 2)
<1>1. s \in Seq(S) /\ Len(s) = 3 /\ s[2] = key
  OBVIOUS
<1> HIDE DEF s
<1>2. x \in Seq(S) /\ Len(x) = 1 /\ x[1] = key
  BY <1>1
<1>3. <<key>> \in Seq(S) /\ Len(<<key>>) = 1 /\ <<key>>[1] = key
  OBVIOUS
<1> HIDE DEF x
<1>4. x = <<key>>
  BY <1>2, <1>3, SeqEqual
<1> QED
  BY <1>4 DEF x, s

LEMMA ClosedAt ==
  ASSUME NEW open, NEW key, NEW close, key # close
  PROVE  LET tail == SubSeq(<<open, key, close>>, 1 + 1, Len(<<open, key, close>>))
         IN  {i \in 1..Len(tail) : tail[i] = close} = {2}
<1> DEFINE s == <<open, key, close>>
           tail == SubSeq(s, 1 + 1, Len(s))
<1>1. s \in Seq({open, key, close}) /\ Len(s) = 3 /\ s[2] = key /\ s[3] = close
  OBVIOUS
<1> HIDE DEF s
<1>2. Len(tail) = 2 /\ tail[1] = key /\ tail[2] = close
  BY <1>1
<1> HIDE DEF tail
<1>3. {i \in 1..Len(tail) : tail[i] = close} = {2}
  BY <1>2
<1> QED
  BY <1>3 DEF tail, s

LEMMA CmdRendered ==
  ASSUME NEW S, NEW vars, "cmd" \in DOMAIN vars, vars["cmd"] \in Seq(S)
  PROVE  Render(<<"{", "cmd", "}">>, vars) = vars["cmd"]
<1> DEFINE open == "{"
           key == "cmd"
           close == "}"
           template == <<open, key, close>>
           n == Len(template)
           Close(i) == SelectInSeq(SubSeq(template, i + 1, n), LAMBDA c : c = close)
           Value(k) == IF Len(k) = 1 /\ k[1] \in DOMAIN vars THEN vars[k[1]]
                       ELSE <<open>> \o k \o <<close>>
           Piece(r, i) ==
                CASE i > n -> <<>>
                  [] i <= n /\ template[i] # open -> <<template[i]>> \o r[i + 1]
                  [] i <= n /\ template[i] = open /\ Close(i) = 0 -> SubSeq(template, i, n)
                  [] OTHER -> Value(SubSeq(template, i + 1, i + Close(i) - 1))
                                \o r[i + Close(i) + 1]
           Rest(r) == r = [i \in 1..(n + 1) |-> Piece(r, i)]
           rest == CHOOSE r : Rest(r)
<1>1. Render(template, vars) = rest[1]
  BY DEF Render
<1>2. open # key /\ open # close /\ key # close
  OBVIOUS
<1> HIDE DEF open, key, close
<1>3. n = 3 /\ template[1] = open /\ template[2] = key /\ template[3] = close
  OBVIOUS
<1>4. SubSeq(template, 2, 2) = <<key>>
  BY Middle
<1>5. Close(1) = 2
  <2> DEFINE tail == SubSeq(template, 1 + 1, n)
             Found == {i \in 1..Len(tail) : tail[i] = close}
  <2>1. Found = {2}
    BY <1>2, ClosedAt
  <2>2. Min({2}) = 2
    BY DEF Min
  <2>3. Close(1) = IF Found # {} THEN Min(Found) ELSE 0
    BY DEF SelectInSeq
  <2> HIDE DEF Found, Close
  <2> QED
    BY <2>1, <2>2, <2>3
<1>6. Value(<<key>>) = vars[key]
  BY DEF key
<1> HIDE DEF template, Close, Value
<1>7. ASSUME NEW r
      PROVE  /\ Piece(r, 4) = <<>>
             /\ Piece(r, 3) = <<close>> \o r[4]
             /\ Piece(r, 2) = <<key>> \o r[3]
             /\ Piece(r, 1) = vars[key] \o r[4]
  <2>1. Piece(r, 4) = <<>>
    BY <1>3
  <2>2. Piece(r, 3) = <<close>> \o r[4]
    <3>1. ~(3 > n) /\ 3 <= n /\ 3 + 1 = 4 /\ template[3] = close /\ close # open
      BY <1>2, <1>3
    <3> QED
      BY <3>1, Zenon
  <2>3. Piece(r, 2) = <<key>> \o r[3]
    <3>1. ~(2 > n) /\ 2 <= n /\ 2 + 1 = 3 /\ template[2] = key /\ key # open
      BY <1>2, <1>3
    <3> QED
      BY <3>1, Zenon
  <2>4. Piece(r, 1) = vars[key] \o r[4]
    <3>1. /\ ~(1 > n) /\ template[1] = open /\ Close(1) # 0
          /\ 1 + 1 = 2 /\ 1 + Close(1) - 1 = 2 /\ 1 + Close(1) + 1 = 4
      BY <1>3, <1>5
    <3>2. Piece(r, 1) = Value(SubSeq(template, 1 + 1, 1 + Close(1) - 1)) \o r[1 + Close(1) + 1]
      BY <3>1, Zenon
    <3> QED
      BY <1>4, <1>6, <3>1, <3>2, Zenon
  <2> QED
    BY <2>1, <2>2, <2>3, <2>4
<1> HIDE DEF Piece
<1>8. \E r : Rest(r)
  <2> DEFINE third == <<close>> \o <<>>
             second == <<key>> \o third
             first == vars[key] \o <<>>
             r == [i \in 1..4 |-> IF i = 1 THEN first ELSE IF i = 2 THEN second
                                  ELSE IF i = 3 THEN third ELSE <<>>]
  <2>1. /\ r[4] = <<>> /\ r[3] = <<close>> \o r[4]
        /\ r[2] = <<key>> \o r[3] /\ r[1] = vars[key] \o r[4]
    <3> HIDE DEF first, second, third
    <3>1. r[4] = <<>> /\ r[3] = third /\ r[2] = second /\ r[1] = first
      OBVIOUS
    <3> HIDE DEF r
    <3> QED
      BY <3>1 DEF first, second, third
  <2>2. r = [i \in 1..4 |-> r[i]]
    OBVIOUS
  <2> HIDE DEF r
  <2>5. /\ r[4] = Piece(r, 4) /\ r[3] = Piece(r, 3)
        /\ r[2] = Piece(r, 2) /\ r[1] = Piece(r, 1)
    BY <1>7, <2>1, Zenon
  <2>3. \A i \in 1..4 : r[i] = Piece(r, i)
    <3>1. 1..4 = {1, 2, 3, 4}
      OBVIOUS
    <3> QED
      BY <2>5, <3>1
  <2>4. [i \in 1..4 |-> r[i]] = [i \in 1..4 |-> Piece(r, i)]
    BY <2>3
  <2>6. Rest(r)
    BY <1>3, <2>2, <2>4
  <2> QED
    BY <2>6
<1>9. Rest(rest)
  <2> HIDE DEF Rest
  <2> QED
    BY <1>8
<1> HIDE DEF rest
<1>10. rest[1] = vars[key] \o <<>>
  <2>1. rest[1] = Piece(rest, 1) /\ rest[4] = Piece(rest, 4)
    BY <1>3, <1>9
  <2> QED
    BY <1>7, <2>1
<1>11. vars[key] \in Seq(S)
  BY DEF key
<1>12. Render(template, vars) = vars[key]
  BY <1>1, <1>10, <1>11
<1> QED
  BY <1>12 DEF template, open, key, close

-----------------------------------------------------------------------------
(* Decimal: the digits of k are those of k \div 10 and one more.           *)
DecimalAt(r, k) == IF k < 10 THEN <<Digit(k)>> ELSE Append(r[k \div 10], Digit(k % 10))
DecimalRun(r, n) == r = [k \in 0..n |-> DecimalAt(r, k)]

(* A number is its tenth and its last digit.                               *)
LEMMA Tenth ==
  ASSUME NEW k \in Nat
  PROVE  /\ k \div 10 \in Nat /\ k % 10 \in 0..9 /\ k = 10 * (k \div 10) + (k % 10)
         /\ k >= 10 => k \div 10 < k
OBVIOUS

(* The digits of every number are defined.                                 *)
LEMMA DecimalRunExists == \A n \in Nat : \E r : DecimalRun(r, n)
<1> DEFINE Done == {n \in Nat : \E r : DecimalRun(r, n)}
<1>1. ASSUME NEW n \in Nat, NEW r, NEW q, \A j \in 0..(n - 1) : r[j] = q[j]
      PROVE  DecimalAt(r, n) = DecimalAt(q, n)
  <2>1. CASE n < 10
    BY <2>1 DEF DecimalAt
  <2>2. CASE ~(n < 10)
    <3>1. n \div 10 \in 0..(n - 1)
      BY <2>2, Tenth
    <3>2. r[n \div 10] = q[n \div 10]
      BY <1>1, <3>1
    <3> QED
      BY <3>2, Zenon DEF DecimalAt
  <2> QED
    BY <2>1, <2>2
<1>2. 0 \in Done
  <2> DEFINE r == [k \in 0..0 |-> <<Digit(0)>>]
  <2>1. \A k \in 0..0 : DecimalAt(r, k) = <<Digit(0)>>
    BY DEF DecimalAt
  <2>2. r = [k \in 0..0 |-> DecimalAt(r, k)]
    BY <2>1
  <2> HIDE DEF r
  <2> QED
    BY <2>2 DEF DecimalRun
<1>3. ASSUME NEW n \in Nat, n \in Done PROVE n + 1 \in Done
  <2>1. PICK q : DecimalRun(q, n)
    BY <1>3
  <2> DEFINE m == n + 1
             r == [k \in 0..m |-> IF k = m THEN DecimalAt(q, m) ELSE q[k]]
  <2>2. m \in Nat /\ m - 1 = n
    OBVIOUS
  <2>3. \A j \in 0..n : r[j] = q[j] /\ q[j] = DecimalAt(q, j)
    <3>1. \A j \in 0..n : r[j] = q[j]
      OBVIOUS
    <3>2. \A j \in 0..n : q[j] = DecimalAt(q, j)
      BY <2>1, Zenon DEF DecimalRun
    <3> QED
      BY <3>1, <3>2
  <2>4. r[m] = DecimalAt(q, m) /\ r = [k \in 0..m |-> r[k]]
    BY <2>2
  <2> HIDE DEF r
  <2>5. ASSUME NEW k \in 0..m PROVE r[k] = DecimalAt(r, k)
    <3>1. \A j \in 0..(k - 1) : r[j] = q[j]
      BY <2>3
    <3>2. DecimalAt(r, k) = DecimalAt(q, k)
      BY <1>1, <3>1
    <3>3. CASE k = m
      BY <2>4, <3>2, <3>3
    <3>4. CASE k # m
      <4>1. k \in 0..n
        BY <3>4
      <4> QED
        BY <2>3, <3>2, <4>1, Zenon
    <3> QED
      BY <3>3, <3>4
  <2>6. [k \in 0..m |-> r[k]] = [k \in 0..m |-> DecimalAt(r, k)]
    BY <2>5
  <2>7. DecimalRun(r, m)
    BY <2>4, <2>6, Zenon DEF DecimalRun
  <2> QED
    BY <2>2, <2>7
<1> HIDE DEF Done
<1>4. Nat \subseteq Done
  BY <1>2, <1>3, SetInduction
<1> QED
  BY <1>4 DEF Done

(* What is computed for k does not depend on how far the run goes.         *)
LEMMA DecimalRunsAgree ==
  \A k \in Nat : \A n, m \in Nat : \A r, q :
      k <= n /\ k <= m /\ DecimalRun(r, n) /\ DecimalRun(q, m) => r[k] = q[k]
<1> DEFINE Agree(k) == \A n, m \in Nat : \A r, q :
             k <= n /\ k <= m /\ DecimalRun(r, n) /\ DecimalRun(q, m) => r[k] = q[k]
           Done == {k \in Nat : \A j \in 0..k : Agree(j)}
<1>1. ASSUME NEW k \in Nat, \A j \in 0..(k - 1) : Agree(j)
      PROVE  Agree(k)
  <2> SUFFICES ASSUME NEW n \in Nat, NEW m \in Nat, NEW r, NEW q, k <= n, k <= m,
                      DecimalRun(r, n), DecimalRun(q, m)
               PROVE  r[k] = q[k]
    BY Zenon
  <2>1. k \in 0..n /\ k \in 0..m
    OBVIOUS
  <2>2. r[k] = DecimalAt(r, k) /\ q[k] = DecimalAt(q, k)
    BY <2>1, Zenon DEF DecimalRun
  <2>3. CASE k < 10
    BY <2>2, <2>3 DEF DecimalAt
  <2>4. CASE ~(k < 10)
    <3>1. k \div 10 \in 0..(k - 1) /\ k \div 10 <= n /\ k \div 10 <= m
      BY <2>4, Tenth
    <3>2. Agree(k \div 10) /\ k \div 10 \in Nat
      BY <1>1, <2>4, <3>1, Tenth
    <3>3. r[k \div 10] = q[k \div 10]
      BY <3>1, <3>2, Zenon
    <3> QED
      BY <2>2, <2>4, <3>3, Zenon DEF DecimalAt
  <2> QED
    BY <2>3, <2>4
<1> HIDE DEF Agree
<1>2. 0 \in Done
  <2>1. Agree(0)
    BY <1>1
  <2> QED
    BY <2>1
<1>3. ASSUME NEW k \in Nat, k \in Done PROVE k + 1 \in Done
  <2>1. \A j \in 0..k : Agree(j)
    BY <1>3
  <2>2. Agree(k + 1)
    <3>1. k + 1 \in Nat /\ (k + 1) - 1 = k
      OBVIOUS
    <3> QED
      BY <1>1, <2>1, <3>1
  <2>3. \A j \in 0..(k + 1) : j \in 0..k \/ j = k + 1
    OBVIOUS
  <2> QED
    BY <2>1, <2>2, <2>3
<1> HIDE DEF Done
<1>4. Nat \subseteq Done
  BY <1>2, <1>3, SetInduction
<1>5. \A k \in Nat : Agree(k)
  BY <1>4 DEF Done
<1> QED
  BY <1>5, Zenon DEF Agree

(* The digits of a number, by its tenth: what Decimal defines.             *)
LEMMA DecimalIs ==
  ASSUME NEW n \in Nat
  PROVE  Decimal(n) = IF n < 10 THEN <<Digit(n)>>
                      ELSE Append(Decimal(n \div 10), Digit(n % 10))
<1> DEFINE run(m) == CHOOSE r : DecimalRun(r, m)
<1>1. \A m \in Nat : Decimal(m) = run(m)[m]
  BY Zenon DEF Decimal, DecimalRun, DecimalAt
<1>2. \A m \in Nat : DecimalRun(run(m), m)
  BY DecimalRunExists, Zenon
<1> HIDE DEF run
<1>3. run(n)[n] = DecimalAt(run(n), n)
  <2>1. n \in 0..n
    OBVIOUS
  <2> QED
    BY <1>2, <2>1, Zenon DEF DecimalRun
<1>4. CASE n < 10
  BY <1>1, <1>3, <1>4, Zenon DEF DecimalAt
<1>5. CASE ~(n < 10)
  <2>1. n \div 10 \in Nat /\ n \div 10 <= n /\ n \div 10 <= n \div 10
    BY <1>5, Tenth
  <2>2. run(n)[n \div 10] = run(n \div 10)[n \div 10]
    BY <1>2, <2>1, DecimalRunsAgree
  <2> QED
    BY <1>1, <1>3, <1>5, <2>1, <2>2, Zenon DEF DecimalAt
<1> QED
  BY <1>4, <1>5

Numerals == {Digit(d) : d \in 0..9}

(* A number is written in digits, and never in none.                       *)
LEMMA DecimalIsText ==
  ASSUME NEW n \in Nat
  PROVE  Decimal(n) \in Seq(Numerals) /\ Decimal(n) # <<>>
<1> DEFINE Good(k) == Decimal(k) \in Seq(Numerals) /\ Decimal(k) # <<>>
           Done == {k \in Nat : \A j \in 0..k : Good(j)}
<1>1. ASSUME NEW k \in Nat, \A j \in 0..(k - 1) : Good(j)
      PROVE  Good(k)
  <2>1. CASE k < 10
    <3>1. Digit(k) \in Numerals
      BY <2>1 DEF Numerals
    <3>2. Decimal(k) = <<Digit(k)>>
      BY <2>1, DecimalIs, Zenon
    <3> QED
      BY <3>1, <3>2
  <2>2. CASE ~(k < 10)
    <3>1. k \div 10 \in 0..(k - 1) /\ k % 10 \in 0..9
      BY <2>2, Tenth
    <3>2. Digit(k % 10) \in Numerals
      BY <3>1 DEF Numerals
    <3>3. Decimal(k) = Append(Decimal(k \div 10), Digit(k % 10))
      BY <2>2, DecimalIs, Zenon
    <3>4. Good(k \div 10)
      BY <1>1, <3>1, Zenon
    <3> QED
      BY <3>2, <3>3, <3>4
  <2> QED
    BY <2>1, <2>2
<1> HIDE DEF Good
<1>2. 0 \in Done
  <2>1. Good(0)
    BY <1>1
  <2> QED
    BY <2>1
<1>3. ASSUME NEW k \in Nat, k \in Done PROVE k + 1 \in Done
  <2>1. \A j \in 0..k : Good(j)
    BY <1>3
  <2>2. Good(k + 1)
    <3>1. k + 1 \in Nat /\ (k + 1) - 1 = k
      OBVIOUS
    <3> QED
      BY <1>1, <2>1, <3>1
  <2>3. \A j \in 0..(k + 1) : j \in 0..k \/ j = k + 1
    OBVIOUS
  <2> QED
    BY <2>1, <2>2, <2>3
<1> HIDE DEF Done
<1>4. Nat \subseteq Done
  BY <1>2, <1>3, SetInduction
<1>5. Good(n)
  BY <1>4 DEF Done
<1> QED
  BY <1>5 DEF Good

(* The duration is spelled in digits and the three letters.                *)
Spelling == Numerals \cup {"h", "m", "s"}

LEMMA TwoDigitsIsText ==
  ASSUME NEW n \in Nat
  PROVE  TwoDigits(n) \in Seq(Numerals)
<1>1. CASE n < 10
  <2>1. Digit(0) \in Numerals /\ Digit(n) \in Numerals
    BY <1>1 DEF Numerals
  <2>2. <<Digit(0), Digit(n)>> \in Seq(Numerals)
    BY <2>1
  <2> QED
    BY <1>1, <2>2, Zenon DEF TwoDigits
<1>2. CASE ~(n < 10)
  BY <1>2, DecimalIsText, Zenon DEF TwoDigits
<1> QED
  BY <1>1, <1>2

LEMMA Divided ==
  ASSUME NEW ms \in Nat
  PROVE  /\ ms \div 1000 \in Nat
         /\ \A secs \in Nat : /\ secs \div 60 \in Nat /\ secs % 60 \in 0..59
                              /\ secs = 60 * (secs \div 60) + (secs % 60)
                              /\ secs \div 3600 \in Nat /\ secs % 3600 \in 0..3599
                              /\ secs = 3600 * (secs \div 3600) + (secs % 3600)
OBVIOUS

(* The three forms of a duration, each for its range.                      *)
Seconds(secs) == Append(Decimal(secs), "s")
Minutes(secs) == Append(Append(Decimal(secs \div 60), "m") \o TwoDigits(secs % 60), "s")
Hours(secs) ==
    Append(Append(Decimal(secs \div 3600), "h") \o TwoDigits((secs % 3600) \div 60), "m")

(* FormatElapsed is one of the three.                                      *)
LEMMA ElapsedIs ==
  ASSUME NEW ms \in Nat, NEW secs, secs = ms \div 1000
  PROVE  /\ secs < 60 => FormatElapsed(ms) = Seconds(secs)
         /\ secs >= 60 /\ secs < 3600 => FormatElapsed(ms) = Minutes(secs)
         /\ secs >= 3600 => FormatElapsed(ms) = Hours(secs)
<1>1. secs \in Nat
  BY Divided
<1>2. ASSUME secs < 60 PROVE FormatElapsed(ms) = Seconds(secs)
  BY <1>1, <1>2 DEF FormatElapsed, Seconds
<1>3. ASSUME secs >= 60, secs < 3600 PROVE FormatElapsed(ms) = Minutes(secs)
  BY <1>1, <1>3 DEF FormatElapsed, Minutes
<1>4. ASSUME secs >= 3600 PROVE FormatElapsed(ms) = Hours(secs)
  BY <1>1, <1>4 DEF FormatElapsed, Hours
<1> QED
  BY <1>2, <1>3, <1>4

(* A duration is spelled in digits and letters.                            *)
LEMMA ElapsedIsText ==
  ASSUME NEW ms \in Nat
  PROVE  FormatElapsed(ms) \in Seq(Spelling)
<1> DEFINE second == "s"
           minute == "m"
           hour == "h"
<1>1. PICK secs \in Nat : secs = ms \div 1000
  BY Divided
<1>2. /\ secs \div 60 \in Nat /\ secs % 60 \in Nat /\ secs \div 3600 \in Nat
      /\ (secs % 3600) \div 60 \in Nat
  <2>1. secs % 3600 \in Nat
    BY Divided
  <2> QED
    BY <2>1, Divided
<1>3. \A k \in Nat : Decimal(k) \in Seq(Spelling) /\ TwoDigits(k) \in Seq(Spelling)
  <2>1. Seq(Numerals) \subseteq Seq(Spelling)
    BY DEF Spelling
  <2> QED
    BY <2>1, DecimalIsText, TwoDigitsIsText, Zenon
<1>4. hour \in Spelling /\ minute \in Spelling /\ second \in Spelling
  BY DEF Spelling
<1>5. ASSUME NEW a \in Seq(Spelling), NEW b \in Seq(Spelling), NEW u \in Spelling,
             NEW v \in Spelling
      PROVE  /\ Append(a, u) \in Seq(Spelling)
             /\ Append(Append(a, u) \o b, v) \in Seq(Spelling)
  OBVIOUS
<1>6. CASE secs < 60
  <2>1. FormatElapsed(ms) = Append(Decimal(secs), second)
    BY <1>1, <1>6, ElapsedIs DEF Seconds
  <2> HIDE DEF second, minute, hour
  <2>2. Decimal(secs) \in Seq(Spelling)
    BY <1>3
  <2> QED
    BY <1>4, <1>5, <2>1, <2>2
<1>7. CASE secs >= 60 /\ secs < 3600
  <2>1. FormatElapsed(ms) =
          Append(Append(Decimal(secs \div 60), minute) \o TwoDigits(secs % 60), second)
    <3>1. FormatElapsed(ms) = Minutes(secs)
      BY <1>1, <1>7, ElapsedIs
    <3> QED
      BY <3>1, Zenon DEF Minutes
  <2> HIDE DEF second, minute, hour
  <2>2. Decimal(secs \div 60) \in Seq(Spelling) /\ TwoDigits(secs % 60) \in Seq(Spelling)
    BY <1>2, <1>3
  <2> QED
    BY <1>4, <1>5, <2>1, <2>2
<1>8. CASE secs >= 3600
  <2>1. FormatElapsed(ms) =
          Append(Append(Decimal(secs \div 3600), hour) \o TwoDigits((secs % 3600) \div 60),
                 minute)
    <3>1. FormatElapsed(ms) = Hours(secs)
      BY <1>1, <1>8, ElapsedIs
    <3> QED
      BY <3>1 DEF Hours
  <2> HIDE DEF second, minute, hour
  <2>2. /\ Decimal(secs \div 3600) \in Seq(Spelling)
        /\ TwoDigits((secs % 3600) \div 60) \in Seq(Spelling)
    BY <1>2, <1>3
  <2> QED
    BY <1>4, <1>5, <2>1, <2>2
<1> QED
  BY <1>6, <1>7, <1>8

-----------------------------------------------------------------------------
(* render.  The rest of a template is a function of the place it is read   *)
(* from, and what it is there depends on later places alone.               *)
OPEN == "{"
CLOSE == "}"
Closing(template, i) ==
    SelectInSeq(SubSeq(template, i + 1, Len(template)), LAMBDA c : c = CLOSE)
Substituted(key, vars) ==
    IF Len(key) = 1 /\ key[1] \in DOMAIN vars THEN vars[key[1]]
    ELSE <<OPEN>> \o key \o <<CLOSE>>
RenderAt(template, vars, r, i) ==
    CASE i > Len(template) -> <<>>
      [] i <= Len(template) /\ template[i] # OPEN -> <<template[i]>> \o r[i + 1]
      [] i <= Len(template) /\ template[i] = OPEN /\ Closing(template, i) = 0 ->
            SubSeq(template, i, Len(template))
      [] OTHER -> Substituted(SubSeq(template, i + 1, i + Closing(template, i) - 1), vars)
                    \o r[i + Closing(template, i) + 1]

(* The least of a set of natural numbers, which SelectInSeq takes.         *)
LEMMA LeastOf ==
  ASSUME NEW S \in SUBSET Nat, S # {}
  PROVE  Min(S) \in S /\ \A k \in S : Min(S) <= k
<1> DEFINE Least(Z) == \E j \in Z : \A k \in Z : j <= k
           Done == {n \in Nat : \A Z \in SUBSET Nat : (\E j \in Z : j <= n) => Least(Z)}
<1>1. 0 \in Done
  OBVIOUS
<1>2. ASSUME NEW n \in Nat, n \in Done PROVE n + 1 \in Done
  <2>1. ASSUME NEW Z \in SUBSET Nat, NEW i \in Z, i <= n + 1 PROVE Least(Z)
    <3>1. CASE \E j \in Z : j <= n
      BY <1>2, <3>1
    <3>2. CASE \A j \in Z : ~(j <= n)
      <4>1. \A j \in Z : i <= j
        BY <2>1, <3>2
      <4> QED
        BY <4>1
    <3> QED
      BY <3>1, <3>2
  <2> HIDE DEF Least
  <2> QED
    BY <2>1
<1>3. Nat \subseteq Done
  <2> HIDE DEF Done
  <2> QED
    BY <1>1, <1>2, SetInduction
<1>4. PICK j : j \in S
  OBVIOUS
<1>5. j \in Done /\ j <= j
  BY <1>3, <1>4
<1>6. Least(S)
  BY <1>4, <1>5
<1> QED
  BY <1>6 DEF Min

(* A brace is closed within the template or not at all.                    *)
LEMMA ClosingIs ==
  ASSUME NEW T, NEW template \in Seq(T), NEW i \in 1..Len(template)
  PROVE  Closing(template, i) \in 0..(Len(template) - i)
<1> DEFINE tail == SubSeq(template, i + 1, Len(template))
           Found == {j \in 1..Len(tail) : tail[j] = CLOSE}
<1>1. Closing(template, i) = IF Found = {} THEN 0 ELSE Min(Found)
  BY DEF Closing, SelectInSeq
<1>2. Len(tail) = Len(template) - i
  OBVIOUS
<1> HIDE DEF tail
<1>3. ASSUME Found # {} PROVE Min(Found) \in Found
  <2>1. Found \in SUBSET Nat
    OBVIOUS
  <2> HIDE DEF Found
  <2> QED
    BY <1>3, <2>1, LeastOf
<1>4. Found \subseteq 1..(Len(template) - i)
  BY <1>2
<1>5. 0 \in 0..(Len(template) - i) /\ 1..(Len(template) - i) \subseteq 0..(Len(template) - i)
  OBVIOUS
<1> HIDE DEF Found
<1> QED
  BY <1>1, <1>3, <1>4, <1>5, Zenon

(* What is rendered at a place depends on the places after it.             *)
LEMMA RenderLater ==
  ASSUME NEW T, NEW template \in Seq(T), NEW vars, NEW i \in 1..(Len(template) + 1), NEW r, NEW q,
         \A j \in (i + 1)..(Len(template) + 1) : r[j] = q[j]
  PROVE  RenderAt(template, vars, r, i) = RenderAt(template, vars, q, i)
<1> DEFINE n == Len(template)
           closing == Closing(template, i)
<1>1. n \in Nat
  OBVIOUS
<1>2. CASE i > n
  BY <1>2 DEF RenderAt
<1>3. CASE ~(i > n)
  <2>1. i + 1 \in (i + 1)..(n + 1) /\ i + closing + 1 \in (i + 1)..(n + 1)
    <3>1. i \in 1..n /\ closing \in 0..(n - i)
      BY <1>1, <1>3, ClosingIs
    <3> HIDE DEF closing
    <3> QED
      BY <1>1, <3>1
  <2>2. r[i + 1] = q[i + 1] /\ r[i + closing + 1] = q[i + closing + 1]
    BY <2>1
  <2> QED
    BY <1>3, <2>2, Zenon DEF RenderAt
<1> QED
  BY <1>2, <1>3

(* Render reads a template from its first place on.                        *)
LEMMA RenderRead ==
  ASSUME NEW T, NEW template \in Seq(T), NEW vars
  PROVE  \E rest : /\ Render(template, vars) = rest[1]
                   /\ \A i \in 1..(Len(template) + 1) :
                        rest[i] = RenderAt(template, vars, rest, i)
<1> DEFINE n == Len(template) + 1
           Piece(r, i) == RenderAt(template, vars, r, i)
           Rest(r, first) == r = [i \in first..n |-> Piece(r, i)]
           rest == CHOOSE r : Rest(r, 1)
<1>1. Render(template, vars) = rest[1]
  BY DEF Render, RenderAt, Closing, Substituted, OPEN, CLOSE
<1>2. n \in Nat /\ n >= 1
  OBVIOUS
<1>3. \A r, q : \A i \in 1..n : (\A j \in (i + 1)..n : r[j] = q[j]) => Piece(r, i) = Piece(q, i)
  <2> SUFFICES ASSUME NEW r, NEW q, NEW i \in 1..n, \A j \in (i + 1)..n : r[j] = q[j]
               PROVE  Piece(r, i) = Piece(q, i)
    BY Zenon
  <2> QED
    BY RenderLater
<1> HIDE DEF n, Piece
<1>4. \E r : Rest(r, 1)
  <2> DEFINE Done == {m \in Nat : m <= n => \E r : Rest(r, n - m + 1)}
  <2>1. 0 \in Done
    <3>1. (n - 0 + 1)..n = {}
      BY <1>2
    <3>2. Rest(<<>>, n - 0 + 1)
      BY <3>1
    <3> QED
      BY <3>2
  <2>2. ASSUME NEW m \in Nat, m \in Done PROVE m + 1 \in Done
    <3> SUFFICES ASSUME m + 1 <= n PROVE \E r : Rest(r, n - (m + 1) + 1)
      OBVIOUS
    <3> DEFINE f == n - m
    <3>1. f \in 1..n /\ n - (m + 1) + 1 = f /\ n - m + 1 = f + 1
      BY <1>2
    <3>2. PICK q : Rest(q, f + 1)
      <4>1. m <= n
        BY <1>2
      <4>2. \E q : Rest(q, n - m + 1)
        BY <2>2, <4>1
      <4> QED
        BY <3>1, <4>2
    <3> HIDE DEF f
    <3> DEFINE r == [i \in f..n |-> IF i = f THEN Piece(q, f) ELSE q[i]]
    <3>3. \A j \in (f + 1)..n : r[j] = q[j]
      BY <1>2, <3>1
    <3>4. ASSUME NEW i \in f..n PROVE r[i] = Piece(r, i)
      <4>1. i \in 1..n /\ \A j \in (i + 1)..n : r[j] = q[j]
        <5>1. \A j \in (i + 1)..n : j \in (f + 1)..n
          BY <1>2, <3>1
        <5> HIDE DEF r
        <5> QED
          BY <1>2, <3>1, <3>3, <5>1
      <4>2. Piece(r, i) = Piece(q, i)
        <5> HIDE DEF r
        <5> QED
          BY <1>3, <4>1, Zenon
      <4>3. CASE i = f
        BY <4>2, <4>3, Zenon
      <4>4. CASE i # f
        <5>1. i \in (f + 1)..n
          BY <1>2, <3>1, <4>4
        <5>2. q[i] = Piece(q, i)
          BY <3>2, <5>1, Zenon
        <5> QED
          BY <3>3, <4>2, <5>1, <5>2, Zenon
      <4> QED
        BY <4>3, <4>4
    <3>5. r = [i \in f..n |-> r[i]]
      OBVIOUS
    <3> HIDE DEF r
    <3>6. Rest(r, f)
      <4>1. [i \in f..n |-> r[i]] = [i \in f..n |-> Piece(r, i)]
        BY <3>4
      <4> QED
        BY <3>5, <4>1, Zenon
    <3> QED
      BY <3>1, <3>6
  <2> HIDE DEF Done
  <2>3. n \in Done
    BY <1>2, <2>1, <2>2, SetInduction
  <2>4. n - n + 1 = 1 /\ n <= n
    BY <1>2
  <2> QED
    BY <2>3, <2>4 DEF Done
<1>5. Rest(rest, 1)
  <2> HIDE DEF Rest
  <2> QED
    BY <1>4
<1> HIDE DEF rest
<1>6. \A i \in 1..n : rest[i] = Piece(rest, i)
  BY <1>5, Zenon
<1> QED
  BY <1>1, <1>6 DEF n, Piece

(* Text in, text out: a template and values of some symbols, the braces    *)
(* among them, give a text of these.                                       *)
LEMMA RenderedIsText ==
  ASSUME NEW T, OPEN \in T, CLOSE \in T, NEW template \in Seq(T), NEW vars,
         \A k \in DOMAIN vars : vars[k] \in Seq(T)
  PROVE  Render(template, vars) \in Seq(T)
<1> DEFINE n == Len(template)
<1>1. PICK rest : /\ Render(template, vars) = rest[1]
                  /\ \A i \in 1..(n + 1) : rest[i] = RenderAt(template, vars, rest, i)
  BY RenderRead
<1>2. n \in Nat
  OBVIOUS
<1>3. ASSUME NEW key \in Seq(T) PROVE Substituted(key, vars) \in Seq(T)
  <2>1. <<OPEN>> \o key \o <<CLOSE>> \in Seq(T)
    OBVIOUS
  <2> QED
    BY <2>1, Zenon DEF Substituted
<1>4. ASSUME NEW i \in 1..n, \A j \in (i + 1)..(n + 1) : rest[j] \in Seq(T)
      PROVE  rest[i] \in Seq(T)
  <2> DEFINE closing == Closing(template, i)
             key == SubSeq(template, i + 1, i + closing - 1)
  <2>1. closing \in 0..(n - i)
    BY ClosingIs
  <2> HIDE DEF closing
  <2>2. i + 1 \in (i + 1)..(n + 1) /\ i + closing + 1 \in (i + 1)..(n + 1) /\ i \in 1..(n + 1)
    BY <1>2, <2>1
  <2>3. rest[i + 1] \in Seq(T) /\ rest[i + closing + 1] \in Seq(T)
    BY <1>4, <2>2
  <2>4. template[i] \in T /\ SubSeq(template, i, n) \in Seq(T) /\ key \in Seq(T)
    BY <1>2, <2>1
  <2>5. rest[i] \in {<<template[i]>> \o rest[i + 1], SubSeq(template, i, n),
                     Substituted(key, vars) \o rest[i + closing + 1]}
    <3>1. rest[i] = RenderAt(template, vars, rest, i)
      BY <1>1, <2>2
    <3>2. ~(i > n)
      BY <1>2
    <3> QED
      BY <3>1, <3>2, Zenon DEF RenderAt, closing
  <2>6. Substituted(key, vars) \in Seq(T)
    BY <1>3, <2>4
  <2> HIDE DEF key
  <2>7. <<template[i]>> \o rest[i + 1] \in Seq(T)
    BY <2>3, <2>4
  <2>8. Substituted(key, vars) \o rest[i + closing + 1] \in Seq(T)
    BY <2>3, <2>6
  <2> QED
    BY <2>4, <2>5, <2>7, <2>8, Zenon
<1>5. rest[n + 1] \in Seq(T)
  <2>1. n + 1 \in 1..(n + 1) /\ n + 1 > n
    BY <1>2
  <2>3. rest[n + 1] = RenderAt(template, vars, rest, n + 1)
    BY <1>1, <2>1
  <2>2. rest[n + 1] = <<>>
    BY <2>1, <2>3 DEF RenderAt
  <2> QED
    BY <2>2
<1> DEFINE Done == {m \in Nat : m <= n => \A j \in (n - m + 1)..(n + 1) : rest[j] \in Seq(T)}
<1> HIDE DEF n
<1>6. 0 \in Done
  <2>1. \A j \in (n - 0 + 1)..(n + 1) : j = n + 1
    BY <1>2
  <2> QED
    BY <1>5, <2>1
<1>7. ASSUME NEW m \in Nat, m \in Done PROVE m + 1 \in Done
  <2>1. ASSUME m + 1 <= n, NEW j \in (n - (m + 1) + 1)..(n + 1) PROVE rest[j] \in Seq(T)
    <3>1. \A k \in (n - m + 1)..(n + 1) : rest[k] \in Seq(T)
      BY <1>2, <1>7, <2>1
    <3>2. CASE j \in (n - m + 1)..(n + 1)
      BY <3>1, <3>2
    <3>3. CASE j \notin (n - m + 1)..(n + 1)
      <4>1. j \in 1..n /\ j + 1 = n - m + 1
        BY <1>2, <2>1, <3>3
      <4> QED
        BY <1>4, <3>1, <4>1
    <3> QED
      BY <3>2, <3>3
  <2> QED
    BY <2>1
<1>8. Nat \subseteq Done
  <2> HIDE DEF Done
  <2> QED
    BY <1>6, <1>7, SetInduction
<1>9. rest[1] \in Seq(T)
  <2>1. n <= n /\ 1 \in (n - n + 1)..(n + 1)
    BY <1>2
  <2>2. n \in Done
    BY <1>2, <1>8, Zenon
  <2> QED
    BY <2>1, <2>2
<1> QED
  BY <1>1, <1>9

(* The label of a running command that no file changed: one word and the   *)
(* duration.                                                               *)
LEMMA LeadClosed ==
  ASSUME NEW lead, NEW key, key # CLOSE
  PROVE  /\ Closing(<<lead, OPEN, key, CLOSE>>, 2) = 2
         /\ SubSeq(<<lead, OPEN, key, CLOSE>>, 3, 3) = <<key>>
<1> DEFINE t == <<lead, OPEN, key, CLOSE>>
           T == {lead, OPEN, key, CLOSE}
           tail == SubSeq(t, 2 + 1, Len(t))
           Found == {i \in 1..Len(tail) : tail[i] = CLOSE}
           x == SubSeq(t, 3, 3)
           y == <<key>>
<1>1. t \in Seq(T) /\ Len(t) = 4 /\ t[3] = key /\ t[4] = CLOSE
  OBVIOUS
<1>2. y \in Seq(T) /\ Len(y) = 1 /\ y[1] = key
  OBVIOUS
<1> HIDE DEF t
<1>3. Len(tail) = 2 /\ tail[1] = key /\ tail[2] = CLOSE
  BY <1>1
<1>4. x \in Seq(T) /\ Len(x) = 1 /\ x[1] = key
  BY <1>1
<1> HIDE DEF x, y
<1>5. x = y
  BY <1>2, <1>4, SeqEqual
<1> HIDE DEF tail
<1>6. Found = {2}
  BY <1>3
<1>7. Min({2}) = 2
  BY DEF Min
<1>8. Closing(t, 2) = IF Found # {} THEN Min(Found) ELSE 0
  BY DEF Closing, SelectInSeq, tail
<1> HIDE DEF Found
<1>9. Closing(t, 2) = 2
  BY <1>6, <1>7, <1>8
<1> QED
  BY <1>5, <1>9, Zenon DEF t, x, y

(* One word and one value: how the default label of a tick renders.        *)
LEMMA LeadRendered ==
  ASSUME NEW S, NEW lead, lead # OPEN, NEW key, key # CLOSE, NEW vars, key \in DOMAIN vars,
         vars[key] \in Seq(S)
  PROVE  Render(<<lead, OPEN, key, CLOSE>>, vars) = <<lead>> \o vars[key]
<1> DEFINE t == <<lead, OPEN, key, CLOSE>>
           T == {lead, OPEN, key, CLOSE}
<1>1. t \in Seq(T) /\ Len(t) = 4 /\ t[1] = lead /\ t[2] = OPEN
  OBVIOUS
<1>2. Closing(t, 2) = 2 /\ SubSeq(t, 3, 3) = <<key>>
  BY LeadClosed
<1> HIDE DEF t
<1>3. PICK rest : /\ Render(t, vars) = rest[1]
                  /\ \A i \in 1..(Len(t) + 1) : rest[i] = RenderAt(t, vars, rest, i)
  BY <1>1, RenderRead
<1>4. Substituted(<<key>>, vars) = vars[key]
  BY DEF Substituted
<1>5. rest[5] = <<>>
  <2>1. rest[5] = RenderAt(t, vars, rest, 5) /\ 5 > Len(t)
    BY <1>1, <1>3
  <2> QED
    BY <2>1 DEF RenderAt
<1>6. rest[2] = vars[key] \o rest[5]
  <2>1. rest[2] = RenderAt(t, vars, rest, 2) /\ ~(2 > Len(t)) /\ 2 <= Len(t)
    BY <1>1, <1>3
  <2>2. Closing(t, 2) # 0 /\ 2 + 1 = 3 /\ 2 + Closing(t, 2) - 1 = 3 /\ 2 + Closing(t, 2) + 1 = 5
    BY <1>2
  <2>3. rest[2] = Substituted(SubSeq(t, 2 + 1, 2 + Closing(t, 2) - 1), vars)
                    \o rest[2 + Closing(t, 2) + 1]
    BY <1>1, <2>1, <2>2, Zenon DEF RenderAt
  <2> QED
    BY <1>2, <1>4, <2>2, <2>3, Zenon
<1>7. rest[1] = <<lead>> \o rest[2]
  <2>1. rest[1] = RenderAt(t, vars, rest, 1) /\ ~(1 > Len(t)) /\ 1 <= Len(t) /\ 1 + 1 = 2
    BY <1>1, <1>3
  <2> QED
    BY <1>1, <2>1, Zenon DEF RenderAt
<1>8. vars[key] \o <<>> = vars[key]
  OBVIOUS
<1> QED
  BY <1>3, <1>5, <1>6, <1>7, <1>8, Zenon DEF t

-----------------------------------------------------------------------------
(* What clean does with one symbol, and what it begins with.               *)
Taken(acc, c, max) ==
    IF c \in Control \/ acc.full THEN acc
    ELSE IF acc.bytes + Len(Bytes(c)) > max THEN [acc EXCEPT !.full = TRUE]
    ELSE [acc EXCEPT !.text = Append(@, c), !.bytes = @ + Len(Bytes(c))]
Untaken == [text |-> <<>>, bytes |-> 0, full |-> FALSE]

(* Clean takes or leaves the symbols of a text in turn.                    *)
LEMMA CleanRead ==
  ASSUME NEW text, NEW n \in Nat, DOMAIN text = 1..n, NEW max
  PROVE  \E read : /\ Clean(text, max) = read[n].text
                   /\ read[0] = Untaken
                   /\ \A i \in 1..n : read[i] = Taken(read[i - 1], text[i], max)
<1> DEFINE At(f, s) == IF s = {} THEN Untaken
                       ELSE Taken(f[s \ {Max(s)}], text[Max(s)], max)
           Iter(f, S) == f = [s \in SUBSET S |-> At(f, s)]
           iter == CHOOSE f : Iter(f, DOMAIN text)
<1>1. Clean(text, max) = iter[DOMAIN text].text
  BY DEF Clean, FoldLeft, MapThenFoldSet, Taken, Untaken
<1> HIDE DEF At
<1>2. \A f, S, s : Iter(f, S) /\ s \in SUBSET S => f[s] = At(f, s)
  OBVIOUS
<1>3. \E f : Iter(f, 1..n)
  <2> DEFINE Done == {m \in Nat : \E f : Iter(f, 1..m)}
  <2>1. 0 \in Done
    <3> DEFINE f == [s \in SUBSET (1..0) |-> Untaken]
    <3>1. \A s \in SUBSET (1..0) : Untaken = At(f, s)
      BY DEF At
    <3>2. f = [s \in SUBSET (1..0) |-> At(f, s)]
      BY <3>1
    <3> HIDE DEF f
    <3> QED
      BY <3>2
  <2>2. ASSUME NEW m \in Nat, m \in Done PROVE m + 1 \in Done
    <3> DEFINE k == m + 1
               S == 1..m
               U == 1..k
    <3>1. PICK f : Iter(f, S)
      BY <2>2
    <3> DEFINE g == [s \in SUBSET U |-> IF k \in s THEN Taken(f[s \ {k}], text[k], max)
                                       ELSE f[s]]
    <3>2. k \in Nat /\ U \ {k} \subseteq S /\ S \subseteq U /\ k \notin S
      OBVIOUS
    <3>3. ASSUME NEW s \in SUBSET S PROVE g[s] = f[s]
      BY <3>2
    <3>4. ASSUME NEW s \in SUBSET U PROVE g[s] = At(g, s)
      <4>1. CASE k \in s
        <5>1. Max(s) = k
          <6>1. k \in s /\ \A y \in s : k >= y
            BY <4>1
          <6>2. \A x \in s : (\A y \in s : x >= y) => x = k
            BY <4>1
          <6> QED
            BY <6>1, <6>2 DEF Max
        <5>2. g[s \ {k}] = f[s \ {k}]
          <6>1. s \ {k} \in SUBSET S
            BY <3>2
          <6> QED
            BY <3>3, <6>1
        <5>3. g[s] = Taken(f[s \ {k}], text[k], max)
          BY <4>1
        <5> HIDE DEF g, U, k
        <5> QED
          BY <4>1, <5>1, <5>2, <5>3 DEF At
      <4>2. CASE k \notin s
        <5>1. s \in SUBSET S /\ s \ {Max(s)} \in SUBSET S
          BY <3>2, <4>2
        <5>2. f[s] = At(f, s)
          BY <1>2, <3>1, <5>1
        <5>3. g[s] = f[s] /\ g[s \ {Max(s)}] = f[s \ {Max(s)}]
          BY <3>3, <5>1
        <5> HIDE DEF g, U, k, S
        <5> QED
          BY <5>2, <5>3 DEF At
      <4> QED
        BY <4>1, <4>2
    <3>5. g = [s \in SUBSET U |-> g[s]]
      OBVIOUS
    <3> HIDE DEF g, U
    <3>6. Iter(g, U)
      BY <3>4, <3>5
    <3> QED
      BY <3>2, <3>6 DEF U
  <2> HIDE DEF Done, Iter
  <2>3. Nat \subseteq Done
    BY <2>1, <2>2, SetInduction
  <2> QED
    BY <2>3 DEF Done
<1>4. Iter(iter, 1..n)
  <2> HIDE DEF Iter
  <2> QED
    BY <1>3
<1> HIDE DEF iter, Iter
<1> DEFINE read == [i \in 0..n |-> iter[1..i]]
<1>5. read[0] = Untaken
  <2>1. 1..0 = {} /\ {} \in SUBSET (1..n) /\ 0 \in 0..n
    OBVIOUS
  <2>2. iter[{}] = Untaken
    BY <1>2, <1>4, <2>1 DEF At
  <2> QED
    BY <2>1, <2>2
<1>6. ASSUME NEW i \in 1..n
      PROVE  read[i] = Taken(read[i - 1], text[i], max)
  <2> DEFINE s == 1..i
  <2>1. s \in SUBSET (1..n) /\ s # {} /\ s \ {i} = 1..(i - 1) /\ i \in 0..n /\ i - 1 \in 0..n
    <3>1. i \in 0..n /\ i - 1 \in 0..n /\ i \in s
      OBVIOUS
    <3>2. s \in SUBSET (1..n)
      OBVIOUS
    <3>3. s \ {i} = 1..(i - 1)
      OBVIOUS
    <3> HIDE DEF s
    <3> QED
      BY <3>1, <3>2, <3>3
  <2>2. Max(s) = i
    <3>1. i \in s /\ \A y \in s : i >= y
      OBVIOUS
    <3>2. \A x \in s : (\A y \in s : x >= y) => x = i
      OBVIOUS
    <3> QED
      BY <3>1, <3>2 DEF Max
  <2>3. read[i] = iter[s] /\ read[i - 1] = iter[s \ {i}]
    BY <2>1
  <2> HIDE DEF s, read
  <2>4. iter[s] = At(iter, s)
    BY <1>2, <1>4, <2>1
  <2> QED
    BY <2>1, <2>2, <2>3, <2>4 DEF At
<1>7. read[n] = iter[1..n]
  OBVIOUS
<1> QED
  BY <1>1, <1>5, <1>6, <1>7

(* The bytes of a symbol and of a text.                                    *)
Octets == 0..255

LEMMA BytesAre == \A c : Bytes(c) \in Seq(Octets) /\ Len(Bytes(c)) \in Nat \ {0}
<1> SUFFICES ASSUME NEW c PROVE Bytes(c) \in Seq(Octets) /\ Len(Bytes(c)) \in Nat \ {0}
  OBVIOUS
<1>1. DOMAIN Utf8 = {"bell", "acute", "ellipsis", "padlock"}
  BY DEF Utf8
<1>2. /\ Utf8["bell"] = <<7>> /\ Utf8["acute"] = <<195, 169>>
      /\ Utf8["ellipsis"] = <<226, 128, 166>> /\ Utf8["padlock"] = <<240, 159, 148, 146>>
  BY DEF Utf8
<1>3. Bytes(c) \in {<<7>>, <<195, 169>>, <<226, 128, 166>>, <<240, 159, 148, 146>>, <<120>>}
  BY <1>1, <1>2 DEF Bytes
<1> DEFINE Good(b) == b \in Seq(Octets) /\ Len(b) \in Nat \ {0}
<1>4. Good(<<7>>) /\ Good(<<120>>)
  BY DEF Octets
<1>5. Good(<<195, 169>>)
  BY DEF Octets
<1>6. Good(<<226, 128, 166>>)
  BY DEF Octets
<1>7. Good(<<240, 159, 148, 146>>)
  BY DEF Octets
<1>8. Good(Bytes(c))
  <2> HIDE DEF Good
  <2> QED
    BY <1>3, <1>4, <1>5, <1>6, <1>7
<1> QED
  BY <1>8

LEMMA BytesOfNothing == BytesOf(<<>>) = <<>>
BY DEF BytesOf, FlattenSeq

(* The bytes of a text and of one more symbol.                             *)
LEMMA BytesOfNext ==
  ASSUME NEW T, NEW t \in Seq(T), NEW c \in T
  PROVE  BytesOf(Append(t, c)) = BytesOf(t) \o Bytes(c)
<1> DEFINE n == Len(t)
           u == Append(t, c)
           ss == [i \in DOMAIN t |-> Bytes(t[i])]
           x == Bytes(c)
           l == [i \in DOMAIN u |-> Bytes(u[i])]
           r == Append(ss, x)
<1>1. n \in Nat /\ DOMAIN t = 1..n /\ DOMAIN u = 1..(n + 1) /\ u[n + 1] = c
      /\ \A i \in 1..n : u[i] = t[i]
  OBVIOUS
<1>2. ss \in Seq(Seq(Octets)) /\ x \in Seq(Octets) /\ Len(ss) = n
  BY <1>1, BytesAre
<1> HIDE DEF x
<1>3. l = r
  <2>1. l \in Seq(Seq(Octets)) /\ Len(l) = n + 1
    <3> HIDE DEF u
    <3> QED
      BY <1>1, BytesAre
  <2>2. r \in Seq(Seq(Octets)) /\ Len(r) = n + 1
    <3> HIDE DEF ss
    <3> QED
      BY <1>2
  <2>3. ASSUME NEW i \in 1..(n + 1) PROVE l[i] = r[i]
    <3>1. CASE i = n + 1
      <4>1. l[i] = x
        BY <1>1, <3>1 DEF x
      <4>2. r[i] = x
        <5> HIDE DEF ss
        <5> QED
          BY <1>2, <3>1
      <4> QED
        BY <4>1, <4>2
    <3>2. CASE i # n + 1
      <4>1. i \in 1..n
        BY <3>2
      <4>2. l[i] = Bytes(t[i])
        BY <1>1, <4>1
      <4>3. ss[i] = Bytes(t[i])
        BY <1>1, <4>1
      <4>4. r[i] = ss[i]
        <5> HIDE DEF ss
        <5> QED
          BY <1>2, <4>1
      <4> QED
        BY <4>2, <4>3, <4>4
    <3> QED
      BY <3>1, <3>2
  <2> HIDE DEF l, r
  <2> QED
    BY <2>1, <2>2, <2>3, SeqEqual
<1> HIDE DEF ss, u
<1>4. FlattenSeq(l) = FlattenSeq(ss) \o x
  BY <1>2, <1>3, FlattenNext
<1> QED
  BY <1>4, Zenon DEF BytesOf, u, ss, x
=============================================================================
