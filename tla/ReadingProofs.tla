--------------------------- MODULE ReadingProofs ---------------------------
(***************************************************************************)
(* What a reader makes of the texts of Reports: of the duration and the    *)
(* outcome in a label, and of the fields of a record.                      *)
(***************************************************************************)
EXTENDS ReportsProofs

-----------------------------------------------------------------------------
(* A reader of durations hears one symbol after the other.                 *)
Heard(acc, c) ==
    IF c \in DOMAIN SecondsIn
    THEN [total |-> acc.total + acc.n * SecondsIn[c], n |-> 0, unit |-> c,
          sound |-> acc.sound /\ (c = "h" \/ acc.n < 60)]
    ELSE [acc EXCEPT !.n = 10 * @ + DigitRead(c)]
Unheard == [total |-> 0, n |-> 0, unit |-> "none", sound |-> TRUE]

(* ReadDuration hears the symbols of a text in turn.                       *)
LEMMA DurationHeard ==
  ASSUME NEW text, Len(text) \in Nat
  PROVE  \E read : /\ ReadDuration(text) = read[Len(text)]
                   /\ read[0] = Unheard
                   /\ \A i \in 1..Len(text) : read[i] = Heard(read[i - 1], text[i])
<1> DEFINE n == Len(text)
           Piece(r, i) == IF i = 0 THEN Unheard ELSE Heard(r[i - 1], text[i])
           Run(r, m) == r = [i \in 0..m |-> Piece(r, i)]
           read == CHOOSE r : Run(r, n)
<1>1. ReadDuration(text) = read[n]
  BY DEF ReadDuration, Heard, Unheard
<1> HIDE DEF n
<1>2. n \in Nat
  BY DEF n
<1>3. \E r : Run(r, n)
  <2> DEFINE Done == {m \in Nat : \E r : Run(r, m)}
  <2>1. 0 \in Done
    <3> DEFINE r == [i \in 0..0 |-> Unheard]
    <3>1. \A i \in 0..0 : Unheard = Piece(r, i)
      OBVIOUS
    <3>2. r = [i \in 0..0 |-> Piece(r, i)]
      BY <3>1
    <3> HIDE DEF r, Piece
    <3> QED
      BY <3>2
  <2>2. ASSUME NEW m \in Nat, m \in Done PROVE m + 1 \in Done
    <3>1. PICK q : Run(q, m)
      BY <2>2
    <3> DEFINE k == m + 1
               r == [i \in 0..k |-> IF i = k THEN Piece(q, k) ELSE q[i]]
    <3>2. k \in Nat /\ k - 1 = m /\ k # 0
      OBVIOUS
    <3>3. \A j \in 0..m : r[j] = q[j]
      OBVIOUS
    <3>4. \A j \in 0..m : q[j] = Piece(q, j)
      <4> HIDE DEF Piece
      <4> QED
        BY <3>1, Zenon
    <3>5. r[k] = Piece(q, k) /\ r = [i \in 0..k |-> r[i]]
      BY <3>2
    <3> HIDE DEF r
    <3>6. ASSUME NEW i \in 0..k PROVE r[i] = Piece(r, i)
      <4>1. CASE i = k
        <5>1. r[i - 1] = q[i - 1]
          BY <3>2, <3>3, <4>1
        <5>2. Piece(r, i) = Piece(q, i)
          BY <5>1
        <5> QED
          BY <3>5, <4>1, <5>2
      <4>2. CASE i # k
        <5>1. i \in 0..m /\ (i # 0 => i - 1 \in 0..m)
          BY <4>2
        <5>2. Piece(r, i) = Piece(q, i)
          BY <3>3, <5>1
        <5> HIDE DEF Piece
        <5> QED
          BY <3>3, <3>4, <5>1, <5>2
      <4> QED
        BY <4>1, <4>2
    <3>7. [i \in 0..k |-> r[i]] = [i \in 0..k |-> Piece(r, i)]
      BY <3>6
    <3> HIDE DEF Piece
    <3>8. Run(r, k)
      BY <3>5, <3>7, Zenon
    <3> QED
      BY <3>2, <3>8
  <2> HIDE DEF Done
  <2>3. Nat \subseteq Done
    BY <2>1, <2>2, SetInduction
  <2> QED
    BY <1>2, <2>3 DEF Done
<1>4. Run(read, n)
  <2> HIDE DEF Run
  <2> QED
    BY <1>3
<1> HIDE DEF read
<1>5. \A i \in 0..n : read[i] = Piece(read, i)
  <2> HIDE DEF Piece
  <2> QED
    BY <1>4, Zenon
<1>6. read[0] = Unheard
  BY <1>2, <1>5
<1>7. \A i \in 1..n : read[i] = Heard(read[i - 1], text[i])
  <2>1. \A i \in 1..n : i \in 0..n /\ i # 0
    BY <1>2
  <2> QED
    BY <1>5, <2>1
<1> QED
  BY <1>1, <1>6, <1>7 DEF n

Hearings == [total : Nat, n : Nat, unit : {"none", "h", "m", "s"}, sound : BOOLEAN]

(* A digit moves the number up; a letter ends it.                          *)
LEMMA DigitHeard ==
  ASSUME NEW d \in 0..9, NEW acc \in Hearings
  PROVE  Heard(acc, Digit(d)) = [acc EXCEPT !.n = 10 * acc.n + d]
<1>1. Digit(d) \notin DOMAIN SecondsIn
  BY DEF Digit, DIGITS, SecondsIn
<1>2. DigitRead(Digit(d)) = d
  <2>1. \A e \in 0..9 : Digit(e) = Digit(d) => e = d
    BY DEF Digit, DIGITS
  <2> QED
    BY <2>1 DEF DigitRead
<1> QED
  BY <1>1, <1>2 DEF Heard, Hearings

LEMMA UnitHeard ==
  ASSUME NEW acc \in Hearings
  PROVE  /\ Heard(acc, "h") = [total |-> acc.total + acc.n * 3600, n |-> 0, unit |-> "h",
                               sound |-> acc.sound]
         /\ Heard(acc, "m") = [total |-> acc.total + acc.n * 60, n |-> 0, unit |-> "m",
                               sound |-> acc.sound /\ acc.n < 60]
         /\ Heard(acc, "s") = [total |-> acc.total + acc.n * 1, n |-> 0, unit |-> "s",
                               sound |-> acc.sound /\ acc.n < 60]
BY DEF Heard, SecondsIn, Hearings

(* Digits that are heard one after the other are heard as the number.      *)
SpellsNumber(ds, v) ==
    \A read : \A p \in Nat : \A acc \in Hearings :
        /\ read[p] = acc /\ acc.n = 0
        /\ \A j \in 1..Len(ds) : read[p + j] = Heard(read[p + j - 1], ds[j])
        => read[p + Len(ds)] = [acc EXCEPT !.n = v]

(* What is heard of the digits of a number is the number.                  *)
LEMMA DecimalSpells == \A n \in Nat : SpellsNumber(Decimal(n), n)
<1> DEFINE Done == {k \in Nat : \A j \in 0..k : SpellsNumber(Decimal(j), j)}
<1>1. ASSUME NEW k \in Nat, \A j \in 0..(k - 1) : SpellsNumber(Decimal(j), j)
      PROVE  SpellsNumber(Decimal(k), k)
  <2> DEFINE ds == Decimal(k)
  <2> SUFFICES ASSUME NEW read, NEW p \in Nat, NEW acc \in Hearings, read[p] = acc, acc.n = 0,
                      \A j \in 1..Len(ds) : read[p + j] = Heard(read[p + j - 1], ds[j])
               PROVE  read[p + Len(ds)] = [acc EXCEPT !.n = k]
    BY DEF SpellsNumber
  <2>1. CASE k < 10
    <3>1. ds = <<Digit(k)>>
      BY <2>1, DecimalIs, Zenon
    <3>2. Len(ds) = 1 /\ ds[1] = Digit(k)
      BY <3>1
    <3> HIDE DEF ds
    <3>3. read[p + 1] = Heard(acc, Digit(k))
      <4>1. p + 1 - 1 = p /\ 1 \in 1..Len(ds)
        BY <3>2
      <4> QED
        BY <3>2, <4>1
    <3>4. Heard(acc, Digit(k)) = [acc EXCEPT !.n = 10 * acc.n + k]
      BY <2>1, DigitHeard
    <3>5. 10 * acc.n + k = k
      OBVIOUS
    <3> QED
      BY <3>2, <3>3, <3>4, <3>5, Zenon
  <2>2. CASE ~(k < 10)
    <3>1. PICK t \in Nat, d \in 0..9 : t = k \div 10 /\ d = k % 10 /\ k = 10 * t + d
      BY Tenth
    <3>2. t \in 0..(k - 1)
      BY <2>2, <3>1
    <3> DEFINE es == Decimal(t)
               l == Len(es)
    <3>3. ds = Append(es, Digit(d))
      BY <2>2, <3>1, DecimalIs, Zenon
    <3>4. es \in Seq(Numerals) /\ Digit(d) \in Numerals
      BY DecimalIsText DEF Numerals
    <3> HIDE DEF es
    <3>5. l \in Nat /\ Len(ds) = l + 1 /\ ds[l + 1] = Digit(d) /\ \A j \in 1..l : ds[j] = es[j]
      BY <3>3, <3>4
    <3> HIDE DEF ds
    <3>6. \A j \in 1..l : read[p + j] = Heard(read[p + j - 1], es[j])
      BY <3>5
    <3>7. read[p + l] = [acc EXCEPT !.n = t]
      <4>1. SpellsNumber(es, t)
        BY <1>1, <3>2 DEF es
      <4> QED
        BY <3>6, <4>1 DEF SpellsNumber
    <3>8. [acc EXCEPT !.n = t] \in Hearings /\ [acc EXCEPT !.n = t].n = t
      BY DEF Hearings
    <3>9. read[p + l + 1] = Heard([acc EXCEPT !.n = t], Digit(d))
      <4>1. l + 1 \in 1..Len(ds) /\ p + (l + 1) - 1 = p + l /\ p + (l + 1) = p + l + 1
        BY <3>5
      <4>2. read[p + (l + 1)] = Heard(read[p + (l + 1) - 1], ds[l + 1])
        BY <4>1
      <4> QED
        BY <3>5, <3>7, <4>1, <4>2
    <3>10. Heard([acc EXCEPT !.n = t], Digit(d))
             = [[acc EXCEPT !.n = t] EXCEPT !.n = 10 * t + d]
      <4> DEFINE b == [acc EXCEPT !.n = t]
      <4>1. b \in Hearings /\ b.n = t
        BY <3>8
      <4> HIDE DEF b
      <4>2. Heard(b, Digit(d)) = [b EXCEPT !.n = 10 * b.n + d]
        BY <4>1, DigitHeard
      <4> QED
        BY <4>1, <4>2, Zenon DEF b
    <3>11. [[acc EXCEPT !.n = t] EXCEPT !.n = 10 * t + d] = [acc EXCEPT !.n = k]
      BY <3>1 DEF Hearings
    <3>12. p + Len(ds) = p + l + 1
      BY <3>5
    <3> QED
      BY <3>9, <3>10, <3>11, <3>12, Zenon
  <2> QED
    BY <2>1, <2>2
<1>2. 0 \in Done
  <2>1. SpellsNumber(Decimal(0), 0)
    BY <1>1
  <2>2. \A j \in 0..0 : j = 0
    OBVIOUS
  <2> QED
    BY <2>1, <2>2
<1>3. ASSUME NEW k \in Nat, k \in Done PROVE k + 1 \in Done
  <2>1. \A j \in 0..k : SpellsNumber(Decimal(j), j)
    BY <1>3
  <2>2. SpellsNumber(Decimal(k + 1), k + 1)
    <3>1. k + 1 \in Nat /\ (k + 1) - 1 = k
      OBVIOUS
    <3> QED
      BY <1>1, <2>1, <3>1
  <2>3. \A j \in 0..(k + 1) : j \in 0..k \/ j = k + 1
    OBVIOUS
  <2> QED
    BY <2>1, <2>2, <2>3
<1> HIDE DEF Done
<1>4. Nat \subseteq Done
  BY <1>2, <1>3, SetInduction
<1> QED
  BY <1>4 DEF Done

LEMMA TwoDigitsSpells ==
  ASSUME NEW n \in 0..59
  PROVE  SpellsNumber(TwoDigits(n), n)
<1>1. CASE n < 10
  <2> DEFINE ds == <<Digit(0), Digit(n)>>
  <2>1. TwoDigits(n) = ds
    BY <1>1, Zenon DEF TwoDigits
  <2>2. Len(ds) = 2 /\ ds[1] = Digit(0) /\ ds[2] = Digit(n)
    OBVIOUS
  <2> HIDE DEF ds
  <2>3. ASSUME NEW read, NEW p \in Nat, NEW acc \in Hearings, read[p] = acc, acc.n = 0,
               \A j \in 1..Len(ds) : read[p + j] = Heard(read[p + j - 1], ds[j])
        PROVE  read[p + Len(ds)] = [acc EXCEPT !.n = n]
    <3>1. 1 \in 1..Len(ds) /\ 2 \in 1..Len(ds) /\ p + 1 - 1 = p /\ p + 2 - 1 = p + 1
      BY <2>2
    <3>2. read[p + 1] = Heard(acc, Digit(0))
      BY <2>2, <2>3, <3>1
    <3>3. Heard(acc, Digit(0)) = [acc EXCEPT !.n = 10 * acc.n + 0]
      BY DigitHeard
    <3>4. [acc EXCEPT !.n = 10 * acc.n + 0] = acc
      BY <2>3 DEF Hearings
    <3>5. read[p + 2] = Heard(acc, Digit(n))
      BY <2>2, <2>3, <3>1, <3>2, <3>3, <3>4
    <3>6. Heard(acc, Digit(n)) = [acc EXCEPT !.n = 10 * acc.n + n]
      BY <1>1, DigitHeard
    <3>7. 10 * acc.n + n = n
      BY <2>3
    <3> QED
      BY <2>2, <3>5, <3>6, <3>7, Zenon
  <2> QED
    BY <2>1, <2>3 DEF SpellsNumber
<1>2. CASE ~(n < 10)
  BY <1>2, DecimalSpells DEF TwoDigits
<1> QED
  BY <1>1, <1>2

LEMMA SoundHere ==
  ASSUME NEW r, NEW total, NEW unit, NEW yes, NEW n,
         r = [total |-> total, n |-> 0, unit |-> unit, sound |-> yes /\ n < 60],
         yes, n \in Nat, n < 60
  PROVE  r.total = total /\ r.unit = unit /\ r.sound
OBVIOUS

LEMMA UnheardIs ==
  Unheard \in Hearings /\ Unheard.n = 0 /\ Unheard.total = 0 /\ Unheard.sound = TRUE
BY DEF Unheard, Hearings

(* A number and its letter, heard from the start.                          *)
LEMMA OneNumberHeard ==
  ASSUME NEW S, NEW ds \in Seq(S), NEW u \in S, NEW v, SpellsNumber(ds, v)
  PROVE  ReadDuration(Append(ds, u)) = Heard([Unheard EXCEPT !.n = v], u)
<1> DEFINE text == Append(ds, u)
           l == Len(ds)
<1>1. /\ l \in Nat /\ Len(text) = l + 1 /\ text[l + 1] = u
      /\ \A j \in 1..l : text[j] = ds[j]
  OBVIOUS
<1> HIDE DEF text
<1>2. PICK read : /\ ReadDuration(text) = read[Len(text)]
                  /\ read[0] = Unheard
                  /\ \A i \in 1..Len(text) : read[i] = Heard(read[i - 1], text[i])
  BY <1>1, DurationHeard
<1>3. \A j \in 1..l : read[0 + j] = Heard(read[0 + j - 1], ds[j])
  BY <1>1, <1>2
<1>4. read[0 + l] = [Unheard EXCEPT !.n = v]
  BY <1>2, <1>3, UnheardIs DEF SpellsNumber
<1>5. read[l + 1] = Heard(read[l], u)
  <2>1. l + 1 \in 1..Len(text) /\ l + 1 - 1 = l
    BY <1>1
  <2> QED
    BY <1>1, <1>2, <2>1
<1>6. 0 + l = l
  BY <1>1
<1> QED
  BY <1>1, <1>2, <1>4, <1>5, <1>6, Zenon DEF text

HeardFrom(read, p, ds) ==
    \A j \in 1..Len(ds) : read[p + j] = Heard(read[p + j - 1], ds[j])

NumberTaken(read, p, ds, v) == read[p + Len(ds)] = [read[p] EXCEPT !.n = v]
Ready(read, p) == read[p] \in Hearings /\ read[p].n = 0

(* A number is heard wherever in a text it is.                             *)
LEMMA SpelledHeard ==
  ASSUME NEW ds, NEW v, SpellsNumber(ds, v), NEW read, NEW p \in Nat,
         Ready(read, p), HeardFrom(read, p, ds)
  PROVE  NumberTaken(read, p, ds, v)
BY DEF SpellsNumber, HeardFrom, NumberTaken, Ready

TwoParts(text, ds, u, es, w) ==
    LET l == Len(ds)
        m == Len(es)
    IN  /\ l \in Nat /\ m \in Nat /\ Len(text) = l + m + 2
        /\ text[l + 1] = u /\ text[l + m + 2] = w
        /\ \A j \in 1..l : text[j] = ds[j]
        /\ \A j \in 1..m : text[l + 1 + j] = es[j]

(* Two numbers with their letters are a text of this form.                 *)
LEMMA TwoPartsJoined ==
  ASSUME NEW S, NEW ds \in Seq(S), NEW u \in S, NEW es \in Seq(S), NEW w \in S
  PROVE  TwoParts(Append(Append(ds, u) \o es, w), ds, u, es, w)
<1> DEFINE a == Append(ds, u)
           b == a \o es
           text == Append(b, w)
<1>1. /\ a \in Seq(S) /\ Len(a) = Len(ds) + 1 /\ a[Len(ds) + 1] = u
      /\ \A j \in 1..Len(ds) : a[j] = ds[j]
  BY Appending
<1> HIDE DEF a
<1>2. /\ b \in Seq(S) /\ Len(b) = Len(a) + Len(es)
      /\ \A j \in 1..Len(a) : b[j] = a[j]
      /\ \A j \in 1..Len(es) : b[Len(a) + j] = es[j]
  <2>1. a \in Seq(S)
    BY <1>1
  <2> QED
    BY <2>1, Concatenated
<1> HIDE DEF b
<1>3. /\ Len(text) = Len(b) + 1 /\ text[Len(b) + 1] = w
      /\ \A j \in 1..Len(b) : text[j] = b[j]
  BY <1>2, Appending
<1> HIDE DEF text
<1>4. Len(ds) \in Nat /\ Len(es) \in Nat
  OBVIOUS
<1>5. TwoParts(text, ds, u, es, w)
  BY <1>1, <1>2, <1>3, <1>4 DEF TwoParts
<1> QED
  BY <1>5 DEF text, b, a

HeardAt(read, text, i) == read[i] = Heard(read[i - 1], text[i])

LEMMA HeardThere ==
  ASSUME NEW read, NEW text, NEW i, HeardAt(read, text, i)
  PROVE  read[i] = Heard(read[i - 1], text[i])
BY DEF HeardAt

(* Two numbers with their letters, heard one after the other.              *)
LEMMA TwoNumbersHeard ==
  ASSUME NEW S, NEW ds \in Seq(S), NEW u \in S, NEW v, SpellsNumber(ds, v),
         NEW es \in Seq(S), NEW w \in S, NEW x, SpellsNumber(es, x),
         NEW acc \in Hearings, Heard([Unheard EXCEPT !.n = v], u) = acc, acc.n = 0
  PROVE  ReadDuration(Append(Append(ds, u) \o es, w)) = Heard([acc EXCEPT !.n = x], w)
<1> DEFINE text == Append(Append(ds, u) \o es, w)
           l == Len(ds)
           m == Len(es)
<1>1. TwoParts(text, ds, u, es, w)
  BY TwoPartsJoined
<1> HIDE DEF text
<1>2. /\ l \in Nat /\ m \in Nat /\ Len(text) = l + m + 2
      /\ text[l + 1] = u /\ text[l + m + 2] = w
      /\ \A j \in 1..l : text[j] = ds[j]
      /\ \A j \in 1..m : text[l + 1 + j] = es[j]
  BY <1>1, Zenon DEF TwoParts
<1>3. PICK read : /\ ReadDuration(text) = read[Len(text)]
                  /\ read[0] = Unheard
                  /\ \A i \in 1..Len(text) : HeardAt(read, text, i)
  <2>1. Len(text) \in Nat
    BY <1>2
  <2> QED
    BY <2>1, DurationHeard, Zenon DEF HeardAt
<1> HIDE DEF l, m
<1>4. \A k : HeardAt(read, text, k) => read[k] = Heard(read[k - 1], text[k])
  BY Zenon DEF HeardAt
<1>5. PICK p \in Nat : p = l + 1
  BY <1>2
<1>6. PICK e \in Nat : e = l + m + 2
  BY <1>2
<1>7. read[l] = [Unheard EXCEPT !.n = v]
  <2>1. ASSUME NEW j \in 1..l PROVE read[0 + j] = Heard(read[0 + j - 1], ds[j])
    <3>1. j \in 1..Len(text) /\ 0 + j = j /\ text[j] = ds[j]
      BY <1>2
    <3>2. HeardAt(read, text, j)
      BY <1>3, <3>1
    <3>3. read[j] = Heard(read[j - 1], text[j])
      BY <1>4, <3>2
    <3> QED
      BY <3>1, <3>3
  <2>2. 0 \in Nat /\ 0 + l = l /\ read[0] = Unheard /\ l = Len(ds)
    BY <1>2, <1>3 DEF l
  <2>3. HeardFrom(read, 0, ds)
    BY <2>1, <2>2, Zenon DEF HeardFrom
  <2>4. Ready(read, 0) /\ SpellsNumber(ds, v)
    BY <2>2, UnheardIs DEF Ready
  <2>5. NumberTaken(read, 0, ds, v)
    BY <2>2, <2>3, <2>4, SpelledHeard, Zenon
  <2>6. read[0 + l] = [Unheard EXCEPT !.n = v]
    BY <2>2, <2>5 DEF NumberTaken
  <2> QED
    BY <2>2, <2>6
<1>8. read[p] = acc
  <2>1. p \in 1..Len(text) /\ p - 1 = l /\ text[p] = u
    BY <1>2, <1>5
  <2>2. HeardAt(read, text, p)
    BY <1>3, <2>1
  <2>3. read[p] = Heard(read[p - 1], text[p])
    BY <1>4, <2>2
  <2> QED
    BY <1>7, <2>1, <2>3
<1>9. read[p + m] = [acc EXCEPT !.n = x]
  <2>1. ASSUME NEW j \in 1..m
        PROVE  read[p + j] = Heard(read[p + j - 1], es[j])
    <3>1. PICK k \in Nat : k = p + j
      BY <1>2
    <3>2. k \in 1..Len(text) /\ text[k] = es[j]
      BY <1>2, <1>5, <3>1
    <3>3. HeardAt(read, text, k)
      BY <1>3, <3>2
    <3>4. read[k] = Heard(read[k - 1], text[k])
      BY <1>4, <3>3
    <3> QED
      BY <3>1, <3>2, <3>4
  <2>2. m = Len(es)
    BY DEF m
  <2>3. HeardFrom(read, p, es)
    BY <2>1, <2>2, Zenon DEF HeardFrom
  <2>4. Ready(read, p) /\ SpellsNumber(es, x) /\ p \in Nat
    BY <1>8 DEF Ready
  <2>5. NumberTaken(read, p, es, x)
    BY <2>3, <2>4, SpelledHeard, Zenon
  <2> QED
    BY <1>8, <2>2, <2>5 DEF NumberTaken
<1>10. read[e] = Heard(read[p + m], w)
  <2>1. text[e] = w
    BY <1>2, <1>6, Zenon
  <2>4. e \in 1..Len(text) /\ e - 1 = p + m
    <3>1. PICK n \in Nat : n = l + m + 2
      BY <1>2
    <3>2. Len(text) = n
      BY <1>2, <3>1, Zenon
    <3>3. e \in 1..n /\ e - 1 = p + m
      <4>1. l \in Nat /\ m \in Nat
        BY <1>2, Zenon
      <4> QED
        BY <1>5, <1>6, <3>1, <4>1
    <3> QED
      BY <3>2, <3>3, Zenon
  <2>2. HeardAt(read, text, e)
    BY <1>3, <2>4
  <2>3. read[e] = Heard(read[e - 1], text[e])
    BY <1>4, <2>2
  <2> QED
    BY <2>1, <2>3, <2>4
<1>11. ReadDuration(text) = Heard([acc EXCEPT !.n = x], w)
  <2>1. ReadDuration(text) = read[e]
    BY <1>2, <1>3, <1>6
  <2> QED
    BY <1>9, <1>10, <2>1
<1> QED
  BY <1>11 DEF text

DurationReads(read, ms) ==
    LET left == (ms \div 1000) - read.total
    IN  read.sound /\ 0 <= left /\ left < SecondsIn[read.unit]

(* What the reader makes of a formatted duration is the duration, to the   *)
(* second below an hour and to the minute from there on, however long      *)
(* (label.rs:11-21).                                                       *)
THEOREM ElapsedReadBack ==
  ASSUME NEW ms \in Nat
  PROVE  DurationReads(ReadDuration(FormatElapsed(ms)), ms)
<1>1. PICK secs \in Nat : secs = ms \div 1000
  BY Divided
<1>2. /\ \A k \in Nat : Decimal(k) \in Seq(Spelling)
      /\ \A k \in 0..59 : TwoDigits(k) \in Seq(Spelling)
  <2>1. Seq(Numerals) \subseteq Seq(Spelling) /\ \A k \in 0..59 : k \in Nat
    BY DEF Spelling
  <2> QED
    BY <2>1, DecimalIsText, TwoDigitsIsText, Zenon
<1>3. "h" \in Spelling /\ "m" \in Spelling /\ "s" \in Spelling
  BY DEF Spelling
<1>4. SecondsIn["s"] = 1 /\ SecondsIn["m"] = 60
  BY DEF SecondsIn
<1>5. \A v \in Nat : /\ [Unheard EXCEPT !.n = v] \in Hearings
                     /\ [Unheard EXCEPT !.n = v].total = 0
                     /\ [Unheard EXCEPT !.n = v].n = v
                     /\ [Unheard EXCEPT !.n = v].sound
  BY DEF Unheard, Hearings
<1>6. CASE secs < 60
  <2> DEFINE acc == [Unheard EXCEPT !.n = secs]
             r == ReadDuration(FormatElapsed(ms))
  <2>1. acc \in Hearings /\ acc.total = 0 /\ acc.n = secs /\ acc.sound
    BY <1>5
  <2>2. r = Heard(acc, "s")
    <3>1. FormatElapsed(ms) = Append(Decimal(secs), "s")
      <4>1. FormatElapsed(ms) = Seconds(secs)
        BY <1>1, <1>6, ElapsedIs
      <4> QED
        BY <4>1, Zenon DEF Seconds
    <3> QED
      BY <1>2, <1>3, <3>1, DecimalSpells, OneNumberHeard, Zenon
  <2> HIDE DEF acc, r
  <2>3. r.total = secs /\ r.unit = "s" /\ r.sound
    <3>1. r = [total |-> acc.total + acc.n * 1, n |-> 0, unit |-> "s",
               sound |-> acc.sound /\ acc.n < 60]
      BY <2>1, <2>2, UnitHeard
    <3> QED
      <4>1. acc.total + acc.n * 1 = secs
        BY <2>1
      <4> QED
        BY <1>6, <2>1, <3>1, <4>1, SoundHere
  <2> QED
    BY <1>1, <1>4, <2>3 DEF DurationReads, r
<1>7. CASE secs >= 60 /\ secs < 3600
  <2>1. PICK a \in 0..59, b \in 0..59 : a = secs \div 60 /\ b = secs % 60 /\ secs = 60 * a + b
    <3>1. /\ secs \div 60 \in Nat /\ secs % 60 \in 0..59
          /\ secs = 60 * (secs \div 60) + (secs % 60)
      BY Divided
    <3>2. secs \div 60 \in 0..59
      BY <1>7, <3>1
    <3> QED
      BY <3>1, <3>2
  <2> DEFINE first == [Unheard EXCEPT !.n = a]
             acc == Heard(first, "m")
             second == [acc EXCEPT !.n = b]
             r == ReadDuration(FormatElapsed(ms))
  <2>2. first \in Hearings /\ first.total = 0 /\ first.n = a /\ first.sound
    BY <1>5
  <2>3. /\ acc \in Hearings /\ acc.total = 60 * a /\ acc.n = 0 /\ acc.sound
    <3> HIDE DEF first
    <3>1. acc = [total |-> first.total + first.n * 60, n |-> 0, unit |-> "m",
                 sound |-> first.sound /\ first.n < 60]
      BY <2>2, UnitHeard
    <3> HIDE DEF acc
    <3> QED
      BY <2>2, <3>1 DEF Hearings
  <2>4. r = Heard(second, "s")
    <3>1. FormatElapsed(ms) = Append(Append(Decimal(a), "m") \o TwoDigits(b), "s")
      <4>1. FormatElapsed(ms) = Minutes(secs)
        BY <1>1, <1>7, ElapsedIs
      <4> QED
        BY <2>1, <4>1, Zenon DEF Minutes
    <3>2. /\ Decimal(a) \in Seq(Spelling) /\ TwoDigits(b) \in Seq(Spelling)
          /\ SpellsNumber(Decimal(a), a) /\ SpellsNumber(TwoDigits(b), b)
      <4>1. a \in Nat
        BY <2>1
      <4> QED
        BY <1>2, <4>1, DecimalSpells, TwoDigitsSpells, Zenon
    <3> QED
      <4>1. Heard([Unheard EXCEPT !.n = a], "m") = acc
        OBVIOUS
      <4> HIDE DEF acc, r
      <4>2. ReadDuration(Append(Append(Decimal(a), "m") \o TwoDigits(b), "s"))
              = Heard([acc EXCEPT !.n = b], "s")
        BY <1>3, <2>3, <3>2, <4>1, TwoNumbersHeard
      <4> QED
        BY <3>1, <4>2, Zenon DEF r
  <2>5. second \in Hearings /\ second.total = 60 * a /\ second.n = b /\ second.sound
    <3> HIDE DEF acc
    <3> QED
      BY <2>3 DEF Hearings
  <2> HIDE DEF second, acc, first, r
  <2>6. r.total = secs /\ r.unit = "s" /\ r.sound
    <3>1. r = [total |-> second.total + second.n * 1, n |-> 0, unit |-> "s",
               sound |-> second.sound /\ second.n < 60]
      BY <2>4, <2>5, UnitHeard
    <3> QED
      <4>1. second.total + second.n * 1 = secs /\ second.n \in Nat /\ second.n < 60
        BY <2>1, <2>5
      <4> QED
        BY <2>5, <3>1, <4>1, SoundHere
  <2> QED
    BY <1>1, <1>4, <2>6 DEF DurationReads, r
<1>8. CASE secs >= 3600
  <2> DEFINE a == secs \div 3600
             q == secs % 3600
  <2>1. a \in Nat /\ q \in 0..3599 /\ a = secs \div 3600 /\ q = secs % 3600
        /\ secs = 3600 * a + q
    BY Divided
  <2> HIDE DEF a, q
  <2> DEFINE b == q \div 60
  <2>2. b \in 0..59 /\ b = q \div 60 /\ 60 * b <= q /\ q < 60 * b + 60
    <3>1. b \in Nat /\ q % 60 \in 0..59 /\ q = 60 * b + (q % 60)
      BY <2>1, Divided
    <3> HIDE DEF b
    <3>2. b \in 0..59 /\ 60 * b <= q /\ q < 60 * b + 60
      BY <2>1, <3>1
    <3> QED
      BY <3>2 DEF b
  <2> HIDE DEF b
  <2> DEFINE first == [Unheard EXCEPT !.n = a]
             acc == Heard(first, "h")
             second == [acc EXCEPT !.n = b]
             r == ReadDuration(FormatElapsed(ms))
  <2>3. first \in Hearings /\ first.total = 0 /\ first.n = a /\ first.sound
    BY <1>5, <2>1, SMTT(30)
  <2>4. /\ acc \in Hearings /\ acc.total = 3600 * a /\ acc.n = 0 /\ acc.sound
    <3> HIDE DEF first
    <3>1. acc = [total |-> first.total + first.n * 3600, n |-> 0, unit |-> "h",
                 sound |-> first.sound]
      BY <2>3, UnitHeard
    <3> HIDE DEF acc
    <3> QED
      BY <2>3, <3>1 DEF Hearings
  <2>5. r = Heard(second, "m")
    <3>1. FormatElapsed(ms) = Append(Append(Decimal(a), "h") \o TwoDigits(b), "m")
      <4>1. FormatElapsed(ms) = Hours(secs)
        BY <1>1, <1>8, ElapsedIs
      <4> QED
        BY <2>1, <2>2, <4>1, SMTT(30) DEF Hours
    <3>2. /\ Decimal(a) \in Seq(Spelling) /\ TwoDigits(b) \in Seq(Spelling)
          /\ SpellsNumber(Decimal(a), a) /\ SpellsNumber(TwoDigits(b), b)
      <4>1. a \in Nat /\ b \in 0..59
        BY <2>1, <2>2
      <4> QED
        BY <1>2, <4>1, DecimalSpells, TwoDigitsSpells, Zenon
    <3> QED
      <4>1. Heard([Unheard EXCEPT !.n = a], "h") = acc
        OBVIOUS
      <4> HIDE DEF acc, r
      <4>2. ReadDuration(Append(Append(Decimal(a), "h") \o TwoDigits(b), "m"))
              = Heard([acc EXCEPT !.n = b], "m")
        BY <1>3, <2>4, <3>2, <4>1, TwoNumbersHeard, SMTT(30)
      <4> QED
        BY <3>1, <4>2, Zenon DEF r
  <2>6. second \in Hearings /\ second.total = 3600 * a /\ second.n = b /\ second.sound
    <3> HIDE DEF acc
    <3> QED
      BY <2>2, <2>4 DEF Hearings
  <2> HIDE DEF second, acc, first, r
  <2>7. r.total = 3600 * a + 60 * b /\ r.unit = "m" /\ r.sound
    <3>1. r = [total |-> second.total + second.n * 60, n |-> 0, unit |-> "m",
               sound |-> second.sound /\ second.n < 60]
      BY <2>5, <2>6, UnitHeard
    <3> QED
      <4>1. /\ second.total + second.n * 60 = 3600 * a + 60 * b
            /\ second.n \in Nat /\ second.n < 60
        BY <2>1, <2>2, <2>6
      <4> QED
        BY <2>6, <3>1, <4>1, SoundHere
  <2> QED
    BY <1>1, <1>4, <2>1, <2>2, <2>7 DEF DurationReads, r
<1> QED
  BY <1>6, <1>7, <1>8

(* The label of a running command, when it is the default one.             *)
LabelRunning == cfg.running = Default.running
SaysElapsed(r, ms) ==
    r.method = "report_metadata" /\ r.state = "working"
      => r.label = <<"running ">> \o FormatElapsed(ms)

ReadInv ==
    /\ phase \in {"prompt", "called"} => wire = <<>>
    /\ job.osc => wire = <<>>
    /\ LabelRunning => \A i \in DOMAIN wire : SaysElapsed(wire[i], asked)

(* The default label of a running command is a word and the duration.      *)
LEMMA RunningSays ==
  ASSUME NEW ms \in Nat, LabelRunning
  PROVE  RunningLabel(ms) = <<"running ">> \o FormatElapsed(ms)
<1> DEFINE values == [elapsed |-> FormatElapsed(ms), cmd |-> machine.title,
                    agent |-> <<machine.agent>>]
           lead == "running "
           key == "elapsed"
<1>1. cfg.running = <<lead, OPEN, key, CLOSE>>
  <2>1. Default.running = default_running
    BY DEF Default
  <2> QED
    BY <2>1, Zenon DEF LabelRunning, default_running, OPEN, CLOSE
<1>2. key \in DOMAIN values /\ values[key] = FormatElapsed(ms)
  OBVIOUS
<1>3. lead # OPEN /\ key # CLOSE
  BY DEF OPEN, CLOSE
<1>4. FormatElapsed(ms) \in Seq(Spelling)
  BY ElapsedIsText
<1>5. RunningLabel(ms) = Render(cfg.running, values)
  BY Zenon DEF RunningLabel
<1> HIDE DEF values, lead, key
<1>6. Render(<<lead, OPEN, key, CLOSE>>, values) = <<lead>> \o values[key]
  <2>1. values[key] \in Seq(Spelling)
    BY <1>2, <1>4
  <2> QED
    BY <1>2, <1>3, <2>1, LeadRendered, SMT
<1> QED
  BY <1>1, <1>2, <1>5, <1>6, Zenon DEF lead

(* Every label of a tick says how long the command had run at it.          *)
LEMMA TickSays ==
  ASSUME OnTick, LabelRunning, machine.start \in Nat
  PROVE  \A i \in DOMAIN wire' : SaysElapsed(wire'[i], asked')
<1>1. PICK now \in Instants, reply \in Replies :
        LET locked == Probed(reply)
            metadata == Metadata("working", Running(machine.title, locked),
                          Running(machine.display, locked),
                          RunningLabel(Elapsed(now)), 0)
        IN  /\ wire' = IF machine.reported THEN <<metadata>>
                       ELSE <<ReportAgent("working", {machine.title}), metadata>>
            /\ asked' = Elapsed(now)
  BY Zenon DEF OnTick
<1> DEFINE locked == Probed(reply)
           label == RunningLabel(Elapsed(now))
           agent == ReportAgent("working", {machine.title})
           metadata == Metadata("working", Running(machine.title, locked),
                         Running(machine.display, locked), label, 0)
<1>2. /\ wire' = (IF machine.reported THEN <<metadata>> ELSE <<agent, metadata>>)
      /\ asked' = Elapsed(now)
  BY <1>1, Zenon
<1>3. label = <<"running ">> \o FormatElapsed(asked')
  <2>1. Elapsed(now) \in Nat
    BY ElapsedNatural
  <2> QED
    BY <1>2, <2>1, RunningSays, Zenon
<1>4. metadata.label = label
  BY DEF Metadata
<1>5. agent.method = "report_agent"
  BY DEF ReportAgent
<1> HIDE DEF metadata, agent, label
<1>6. SaysElapsed(metadata, asked')
  BY <1>3, <1>4, Zenon DEF SaysElapsed
<1>7. SaysElapsed(agent, asked')
  BY <1>5 DEF SaysElapsed
<1>8. \A i \in DOMAIN wire' : wire'[i] = metadata \/ wire'[i] = agent
  BY <1>2
<1> QED
  BY <1>6, <1>7, <1>8, Zenon

LEMMA FinishSays == OnFinish => \A i \in DOMAIN wire' : SaysElapsed(wire'[i], asked')
<1> SUFFICES ASSUME OnFinish PROVE \A i \in DOMAIN wire' : SaysElapsed(wire'[i], asked')
  OBVIOUS
<1> DEFINE outcome == Classify(ExitCode)
           ttl == IF cfg.success_sticky_ms > MAX_TTL_MS THEN MAX_TTL_MS
                  ELSE cfg.success_sticky_ms
           SettledAt(now, t) ==
               <<ReportAgent("idle", {}),
                 Metadata("idle", machine.title, machine.display,
                          FinishLabel(outcome, Elapsed(now)), t)>>
<1>1. PICK now \in Instants :
        wire' = CASE outcome.kind = "failure" /\ cfg.failure_sticky -> SettledAt(now, 0)
                  [] ~(outcome.kind = "failure" /\ cfg.failure_sticky)
                       /\ ttl = 0 -> <<Release>>
                  [] OTHER -> SettledAt(now, ttl)
  BY DEF OnFinish
<1>2. wire' \in {SettledAt(now, 0), SettledAt(now, ttl), <<Release>>}
  BY <1>1
<1>3. ASSUME NEW t
      PROVE  \A i \in DOMAIN SettledAt(now, t) : SaysElapsed(SettledAt(now, t)[i], asked')
  <2> DEFINE agent == ReportAgent("idle", {})
             metadata == Metadata("idle", machine.title, machine.display,
                                  FinishLabel(outcome, Elapsed(now)), t)
  <2>1. agent.method = "report_agent"
    BY DEF ReportAgent
  <2>2. metadata.state = "idle"
    BY DEF Metadata
  <2>3. SettledAt(now, t) = <<agent, metadata>>
    OBVIOUS
  <2> HIDE DEF agent, metadata, SettledAt
  <2>4. SaysElapsed(agent, asked') /\ SaysElapsed(metadata, asked')
    BY <2>1, <2>2 DEF SaysElapsed
  <2> QED
    BY <2>3, <2>4
<1>4. \A i \in DOMAIN <<Release>> : SaysElapsed(<<Release>>[i], asked')
  <2>1. Release.method = "release_agent"
    BY DEF Release
  <2>2. SaysElapsed(Release, asked')
    BY <2>1 DEF SaysElapsed
  <2> QED
    BY <2>2
<1> HIDE DEF SettledAt
<1> QED
  BY <1>2, <1>3, <1>4

LEMMA ReadInit == Init => ReadInv /\ CallInv
<1> SUFFICES ASSUME Init PROVE ReadInv /\ CallInv
  OBVIOUS
<1>1. wire = <<>>
  BY DEF Init
<1>2. DOMAIN wire = {}
  BY <1>1
<1> QED
  BY <1>1, <1>2 DEF Init, ReadInv, CallInv

LEMMA ReadNext == ReadInv /\ CallInv /\ TypeInv /\ [Next]_vars => ReadInv'
<1> SUFFICES ASSUME ReadInv, CallInv, TypeInv, [Next]_vars PROVE ReadInv'
  OBVIOUS
<1>1. CASE Boot
  <2>1. phase = "called" /\ UNCHANGED <<job, wire>>
    BY <1>1 DEF Boot
  <2>2. wire' = <<>> /\ DOMAIN wire' = {}
    BY <2>1 DEF ReadInv
  <2> QED
    BY <2>2 DEF ReadInv
<1>2. CASE OnTick
  <2>1. phase = "watching" /\ ~call.osc /\ UNCHANGED <<job, phase, cfg>>
    BY <1>2 DEF OnTick
  <2>2. ~job.osc
    BY <2>1 DEF CallInv
  <2>3. LabelRunning' => \A i \in DOMAIN wire' : SaysElapsed(wire'[i], asked')
    BY <1>2, <2>1, TickSays DEF LabelRunning, TypeInv
  <2> QED
    BY <2>1, <2>2, <2>3, Zenon DEF ReadInv, SaysElapsed
<1>3. CASE OnFinish
  <2>1. phase = "ended" /\ ~call.osc /\ phase' = "finished" /\ UNCHANGED <<job, cfg>>
    BY <1>3 DEF OnFinish
  <2>2. ~job.osc
    BY <2>1 DEF CallInv
  <2>3. \A i \in DOMAIN wire' : SaysElapsed(wire'[i], asked')
    BY <1>3, FinishSays
  <2> QED
    BY <2>1, <2>2, <2>3 DEF ReadInv, SaysElapsed
<1>4. CASE ReportWorking \/ Finish
  <2>1. /\ phase \in {"watching", "ended"} /\ call.osc /\ UNCHANGED <<job, wire>>
        /\ phase' \in {"watching", "finished"}
    BY <1>4 DEF ReportWorking, Finish
  <2>2. job.osc
    BY <2>1 DEF CallInv
  <2>3. wire' = <<>> /\ DOMAIN wire' = {}
    BY <2>1, <2>2 DEF ReadInv
  <2> QED
    BY <2>3 DEF ReadInv
<1>5. CASE Preexec \/ EarlyTick \/ CommandEnds \/ Terminal \/ UNCHANGED vars
  <2>1. /\ UNCHANGED <<job, cfg, wire, asked>>
        /\ phase' \in {"prompt", "called"} => phase \in {"prompt", "called"}
    BY <1>5 DEF Preexec, EarlyTick, CommandEnds, Terminal, vars
  <2> QED
    BY <2>1 DEF ReadInv, LabelRunning, SaysElapsed
<1> QED
  BY <1>1, <1>2, <1>3, <1>4, <1>5 DEF Next

LEMMA OneThenTail ==
  ASSUME NEW U, NEW a \in Seq(U), Len(a) = 1, NEW t \in Seq(U)
  PROVE  Tail(a \o t) = t
<1> DEFINE s == a \o t
<1>1. /\ s \in Seq(U) /\ Len(s) = 1 + Len(t)
      /\ \A i \in 1..Len(t) : s[1 + i] = t[i]
  BY Concatenated
<1> HIDE DEF s
<1>2. /\ Tail(s) \in Seq(U) /\ Len(Tail(s)) = Len(t)
      /\ \A i \in 1..Len(t) : Tail(s)[i] = s[i + 1]
  <2>1. Len(t) \in Nat /\ s # <<>>
    BY <1>1
  <2> QED
    BY <1>1, <2>1
<1>3. Tail(s) = t
  <2> DEFINE q == Tail(s)
  <2> HIDE DEF q
  <2> QED
    BY <1>1, <1>2, SeqEqual DEF q
<1> QED
  BY <1>3 DEF s

LEMMA HeadedTail ==
  ASSUME NEW T, NEW t \in Seq(T), NEW x
  PROVE  Tail(<<x>> \o t) = t
<1> DEFINE U == T \cup {x}
           a == <<x>>
<1>1. t \in Seq(U) /\ a \in Seq(U) /\ Len(a) = 1
  OBVIOUS
<1> HIDE DEF U, a
<1>2. Tail(a \o t) = t
  BY <1>1, OneThenTail, Zenon
<1> QED
  BY <1>2 DEF a

(* A duration in a label reads as the time since the start, to the second  *)
(* or from an hour on to the minute, for every duration there is           *)
(* (ElapsedReads; label.rs:15-27).                                         *)
THEOREM ElapsedReadsHolds == Spec => []ElapsedReads
<1>1. ReadInv /\ TypeInv => ElapsedReads
  <2> SUFFICES ASSUME ReadInv, TypeInv, NEW i \in DOMAIN wire,
                      wire[i].method = "report_metadata", wire[i].state = "working", LabelRunning
               PROVE  DurationReads(ReadDuration(Tail(wire[i].label)), asked)
    BY ZenonT(40) DEF ElapsedReads, LabelRunning, DurationReads
  <2> DEFINE text == FormatElapsed(asked)
  <2>1. wire[i].label = <<"running ">> \o text
    BY DEF ReadInv, SaysElapsed
  <2>2. asked \in Nat
    BY DEF TypeInv, TypeOK
  <2>3. text \in Seq(Spelling)
    BY <2>2, ElapsedIsText
  <2>4. DurationReads(ReadDuration(text), asked)
    BY <2>2, ElapsedReadBack
  <2> HIDE DEF text
  <2>5. Tail(wire[i].label) = text
    BY <2>1, <2>3, HeadedTail
  <2> QED
    BY <2>4, <2>5
<1> QED
  BY <1>1, ReadInit, ReadNext, CallNext, WholeInit, TypeInit, TypeNext, TtyNext, PTL DEF Spec

-----------------------------------------------------------------------------
(* The outcome.  The mark of a success is a symbol that no command, no     *)
(* program and no other template has: T is what those are made of.         *)
SignalNames == {"SIGHUP", "SIGINT", "SIGQUIT", "SIGABRT", "SIGKILL", "SIGPIPE", "SIGTERM"}
Unmarked(T) ==
    /\ SUCCESS_MARK \notin T
    /\ Symbols(T) /\ LinesSpelled(T)
    /\ Spelling \cup SignalNames \cup {OPEN, CLOSE} \subseteq T
    /\ \A j \in Jobs : AgentName(NamedLine(j)) \in T
    /\ \A f \in Files : {Load(f).failure, Load(f).signal, Load(f).unknown} \subseteq Seq(T)

(* What classify makes of an exit file.                                    *)
OutcomeMeant(outcome) ==
    /\ outcome.kind \in {"success", "failure", "signal", "unknown"}
    /\ outcome.kind = "success" => Number(status) = 0
    /\ outcome.kind = "failure" => Failed /\ \E n \in Nat : outcome.value = Decimal(n)
    /\ outcome.kind = "signal" => \E s \in SignalNames : outcome.value = <<s>>

(* Classify makes of an exit file what it means.                           *)
LEMMA OutcomeIsMeant ==
  ASSUME status \in Statuses
  PROVE  OutcomeMeant(Classify(ExitCode))
<1> DEFINE code == ExitCode
<1>1. Number(status) \in 0..255 \cup {NaN}
  BY ReportsAssumption
<1>2. /\ code = (IF Number(status) = NaN THEN NoCode ELSE Number(status))
      /\ NaN = -1 /\ NoCode = 99999
  BY DEF ExitCode, NaN, NoCode
<1>5. DOMAIN SIGNALS = {1, 2, 3, 6, 9, 13, 15}
  BY DEF SIGNALS
<1> HIDE DEF code
<1>6. CASE code = NoCode
  <2>1. Classify(code) = [kind |-> "unknown", value |-> <<>>]
    BY <1>2, <1>6 DEF Classify
  <2> QED
    BY <2>1 DEF OutcomeMeant, code
<1>7. CASE code = 0
  <2>1. Classify(code) = [kind |-> "success", value |-> <<>>]
    BY <1>2, <1>7 DEF Classify
  <2>2. Number(status) = 0
    BY <1>1, <1>2, <1>7
  <2> QED
    BY <2>1, <2>2 DEF OutcomeMeant, code
<1>8. CASE /\ code # NoCode /\ code # 0
           /\ code > 128 /\ code < 192 /\ code - 128 \in DOMAIN SIGNALS
  <2>1. Classify(code) = [kind |-> "signal", value |-> <<SIGNALS[code - 128]>>]
    BY <1>8 DEF Classify
  <2>2. SIGNALS[code - 128] \in SignalNames
    BY <1>5, <1>8 DEF SIGNALS, SignalNames
  <2> QED
    BY <2>1, <2>2 DEF OutcomeMeant, code
<1>9. CASE /\ code # NoCode /\ code # 0
           /\ ~(code > 128 /\ code < 192 /\ code - 128 \in DOMAIN SIGNALS)
  <2>1. Classify(code) = [kind |-> "failure", value |-> Decimal(code)]
    BY <1>9 DEF Classify
  <2>2. code = Number(status) /\ code \in 1..255 /\ code \in Nat
    BY <1>1, <1>2, <1>9
  <2>3. code - 128 \notin DOMAIN SIGNALS
    BY <1>5, <1>9, <2>2
  <2>4. Failed
    BY <2>2, <2>3 DEF Failed
  <2> QED
    BY <2>1, <2>2, <2>4 DEF OutcomeMeant, code
<1> QED
  BY <1>6, <1>7, <1>8, <1>9

(* A watcher's program and the templates of the settings it loaded.        *)
MarkInv(T) ==
    phase \notin {"prompt", "called"} =>
        /\ machine.agent \in T
        /\ {cfg.failure, cfg.signal, cfg.unknown} \subseteq Seq(T)

(* The program and the templates stay without the mark.                    *)
LEMMA MarkNext ==
  ASSUME NEW T, Unmarked(T)
  PROVE  MarkInv(T) /\ NameInv /\ TypeInv /\ [Next]_vars => MarkInv(T)'
<1> SUFFICES ASSUME MarkInv(T), NameInv, TypeInv, [Next]_vars PROVE MarkInv(T)'
  OBVIOUS
<1>1. CASE Boot
  <2>1. phase = "called" /\ machine'.agent = IgnoreName /\ cfg' = Load(file)
    BY <1>1 DEF Boot, NoMachine
  <2>2. job \in Jobs /\ file \in Files
    BY DEF TypeInv, TypeOK
  <2> QED
    BY <2>1, <2>2, Zenon DEF Unmarked, MarkInv, NameInv
<1>2. ASSUME machine'.agent = machine.agent, cfg' = cfg,
             phase' \in {"prompt", "called"} \/ phase \notin {"prompt", "called"}
      PROVE  MarkInv(T)'
  BY <1>2 DEF MarkInv
<1>3. CASE OnTick
  BY <1>2, <1>3 DEF OnTick
<1>7. CASE EarlyTick
  <2>1. PICK reply \in Replies : machine' = [machine EXCEPT !.locked = Probed(reply)]
    BY <1>7, Zenon DEF EarlyTick
  <2>2. machine'.agent = machine.agent
    BY <2>1
  <2> QED
    BY <1>2, <1>7, <2>2 DEF EarlyTick
<1>4. CASE ReportWorking
  BY <1>2, <1>4 DEF ReportWorking
<1>5. CASE Preexec \/ CommandEnds \/ OnFinish \/ Finish
  BY <1>2, <1>5 DEF Preexec, CommandEnds, OnFinish, Finish
<1>6. CASE Terminal \/ UNCHANGED vars
  <2>1. UNCHANGED <<phase, cfg, machine>>
    BY <1>6 DEF Terminal, vars
  <2> QED
    BY <2>1 DEF MarkInv
<1> QED
  BY <1>1, <1>3, <1>4, <1>5, <1>6, <1>7 DEF Next

(* A label of an outcome is made of what its parts are made of.            *)
LEMMA LabelSpelled ==
  ASSUME NEW T, Spelling \cup SignalNames \cup {OPEN, CLOSE} \subseteq T,
         machine.title \in Seq(T), machine.agent \in T,
         NEW outcome, OutcomeMeant(outcome), cfg[outcome.kind] \in Seq(T), NEW ms \in Nat
  PROVE  FinishLabel(outcome, ms) \in Seq(T)
<1> DEFINE failed == IF outcome.kind = "failure" THEN outcome.value ELSE <<>>
           killed == IF outcome.kind = "signal" THEN outcome.value ELSE <<>>
           elapsed == FormatElapsed(ms)
           title == machine.title
           agent == <<machine.agent>>
           values == [elapsed |-> elapsed, code |-> failed, signal |-> killed,
                      cmd |-> title, agent |-> agent]
<1>1. FinishLabel(outcome, ms) = Render(cfg[outcome.kind], values)
  BY Zenon DEF FinishLabel
<1>3. /\ Spelling \subseteq T /\ Numerals \subseteq T /\ SignalNames \subseteq T
      /\ OPEN \in T /\ CLOSE \in T
  BY Zenon DEF Spelling
<1>4. elapsed \in Seq(T)
  <2>1. elapsed \in Seq(Spelling)
    BY ElapsedIsText
  <2> QED
    BY <1>3, <2>1
<1>5. failed \in Seq(T)
  <2>1. \A n \in Nat : Decimal(n) \in Seq(T)
    <3>1. \A n \in Nat : Decimal(n) \in Seq(Numerals)
      BY DecimalIsText
    <3> QED
      BY <1>3, <3>1
  <2> QED
    BY <2>1 DEF OutcomeMeant
<1>6. killed \in Seq(T)
  <2>1. \A s \in SignalNames : <<s>> \in Seq(T)
    BY <1>3
  <2>2. <<>> \in Seq(T)
    OBVIOUS
  <2> QED
    BY <2>1, <2>2, Zenon DEF OutcomeMeant
<1>7. title \in Seq(T) /\ agent \in Seq(T)
  OBVIOUS
<1> HIDE DEF failed, killed, elapsed, title, agent
<1>8. /\ DOMAIN values = {"elapsed", "code", "signal", "cmd", "agent"}
      /\ values["elapsed"] = elapsed /\ values["code"] = failed /\ values["signal"] = killed
      /\ values["cmd"] = title /\ values["agent"] = agent
  OBVIOUS
<1> HIDE DEF values
<1>9. \A k \in DOMAIN values : values[k] \in Seq(T)
  BY <1>4, <1>5, <1>6, <1>7, <1>8
<1> QED
  BY <1>1, <1>3, <1>9, RenderedIsText, Zenon

(* A label of an outcome other than success has no mark in it.             *)
LEMMA LabelUnmarked ==
  ASSUME NEW T, Unmarked(T), RowInv(T), MarkInv(T), phase = "ended",
         NEW outcome, OutcomeMeant(outcome), outcome.kind # "success", NEW ms \in Nat
  PROVE  FinishLabel(outcome, ms) \in Seq(T)
<1>1. cfg[outcome.kind] \in Seq(T)
  <2>1. outcome.kind \in {"failure", "signal", "unknown"}
    BY DEF OutcomeMeant
  <2> QED
    BY <2>1 DEF MarkInv
<1>2. machine.title \in Seq(T)
  BY TitleIsText DEF Unmarked
<1>3. machine.agent \in T
  BY DEF MarkInv
<1>4. Spelling \cup SignalNames \cup {OPEN, CLOSE} \subseteq T
  BY Zenon DEF Unmarked
<1> QED
  BY <1>1, <1>2, <1>3, <1>4, LabelSpelled, Zenon

(* A request about a finished command.                                     *)
Earned(r) ==
    r.method = "report_metadata" =>
       /\ (\E k \in DOMAIN r.label : r.label[k] = SUCCESS_MARK) => Number(status) = 0
       /\ r.ttl = 0 => Failed

EarnedInv ==
    /\ phase \in {"ended", "finished"} => status \in Statuses
    /\ phase # "finished" => record.state \in {"none", "working"}
    /\ SuccessEarned

(* The requests of the last report are earned.                             *)
LEMMA FinishEarns ==
  ASSUME NEW T, Unmarked(T), RowInv(T), MarkInv(T), TypeInv, OnFinish, status \in Statuses
  PROVE  \A i \in DOMAIN wire' : Earned(wire'[i])
<1> DEFINE outcome == Classify(ExitCode)
           sticky == outcome.kind = "failure" /\ cfg.failure_sticky
           ttl == IF cfg.success_sticky_ms > MAX_TTL_MS THEN MAX_TTL_MS
                  ELSE cfg.success_sticky_ms
           LabelAt(now) == FinishLabel(outcome, Elapsed(now))
           SettledAt(now, t) ==
               <<ReportAgent("idle", {}),
                 Metadata("idle", machine.title, machine.display, LabelAt(now), t)>>
<1>1. PICK now \in Instants :
        wire' = CASE sticky -> SettledAt(now, 0)
                  [] ~sticky /\ ttl = 0 -> <<Release>>
                  [] OTHER -> SettledAt(now, ttl)
  BY DEF OnFinish
<1>2. phase = "ended" /\ machine.start \in Nat
  BY DEF OnFinish, TypeInv
<1>3. OutcomeMeant(outcome)
  BY OutcomeIsMeant
<1> DEFINE label == LabelAt(now)
<1>4. (\E k \in DOMAIN label : label[k] = SUCCESS_MARK) => Number(status) = 0
  <2>1. CASE outcome.kind = "success"
    BY <1>3, <2>1, Zenon DEF OutcomeMeant
  <2>2. CASE outcome.kind # "success"
    <3>1. Elapsed(now) \in Nat
      BY <1>2, ElapsedNatural
    <3> HIDE DEF outcome
    <3>2. label \in Seq(T)
      BY <1>2, <1>3, <2>2, <3>1, LabelUnmarked, Zenon
    <3>3. SUCCESS_MARK \notin T
      BY Zenon DEF Unmarked
    <3> HIDE DEF label
    <3>4. \A k \in DOMAIN label : label[k] \in T
      BY <3>2
    <3> QED
      BY <3>3, <3>4, Zenon
  <2> QED
    BY <2>1, <2>2
<1>5. sticky => Failed
  BY <1>3 DEF OutcomeMeant
<1> DEFINE Settled(t) == SettledAt(now, t)
<1>7. \/ wire' = <<Release>>
      \/ \E t : wire' = Settled(t) /\ (t = 0 => Failed)
  <2> HIDE DEF outcome, ttl, sticky, Settled
  <2>1. CASE sticky
    BY <1>1, <1>5, <2>1 DEF Settled
  <2>2. CASE ~sticky /\ ttl = 0
    BY <1>1, <2>2
  <2>3. CASE ~sticky /\ ttl # 0
    BY <1>1, <2>3 DEF Settled
  <2> QED
    BY <2>1, <2>2, <2>3
<1>8. ASSUME NEW t, t = 0 => Failed
      PROVE  \A i \in DOMAIN Settled(t) : Earned(Settled(t)[i])
  <2> DEFINE agent == ReportAgent("idle", {})
             metadata == Metadata("idle", machine.title, machine.display, label, t)
  <2>1. agent.method = "report_agent"
    BY DEF ReportAgent
  <2>2. metadata.ttl = t /\ metadata.label = label
    BY DEF Metadata
  <2>3. Settled(t) = <<agent, metadata>>
    BY DEF label
  <2> HIDE DEF agent, metadata, Settled, label
  <2>4. Earned(agent) /\ Earned(metadata)
    BY <1>4, <1>8, <2>1, <2>2 DEF Earned
  <2> QED
    BY <2>3, <2>4
<1>9. \A i \in DOMAIN <<Release>> : Earned(<<Release>>[i])
  <2>1. Release.method = "release_agent"
    BY DEF Release
  <2>2. Earned(Release)
    BY <2>1 DEF Earned
  <2> QED
    BY <2>2
<1> HIDE DEF Settled
<1> QED
  BY <1>7, <1>8, <1>9

LEMMA RecordState ==
  \A state, app, title, msg : Report(state, app, title, msg).state = state
BY DEF Report

(* So is the state of the last record.                                     *)
LEMMA StateEarned ==
  ASSUME NEW outcome, OutcomeMeant(outcome)
  PROVE  /\ FinishState(outcome) = "done" => Number(status) = 0
         /\ FinishState(outcome) = "error" => Failed
<1> DEFINE sticky == outcome.kind = "failure" /\ cfg.failure_sticky
           off == cfg.success_sticky_ms = 0
<1>1. FinishState(outcome) = CASE sticky -> "error"
                               [] ~sticky /\ off -> "clear"
                               [] OTHER -> IF outcome.kind = "success" THEN "done" ELSE "idle"
  BY Zenon DEF FinishState
<1>2. sticky => Failed
  BY DEF OutcomeMeant
<1>3. outcome.kind = "success" => Number(status) = 0
  BY DEF OutcomeMeant
<1> HIDE DEF sticky, off
<1> QED
  BY <1>1, <1>2, <1>3

LEMMA FinishRecorded ==
  ASSUME Finish, status \in Statuses
  PROVE  /\ record'.state = "done" => Number(status) = 0
         /\ record'.state = "error" => Failed
<1> DEFINE finish == Invoke(FinishCall(status))
           exit == IF finish.exit = NaN THEN NoCode ELSE finish.exit
           outcome == Classify(exit)
           state == FinishState(outcome)
           LabelAt(now) == FinishLabel(outcome, Elapsed(now))
<1>1. finish = [call |-> "finish", exit |-> Number(status)]
  BY Invoked, FinishParsed, Zenon
<1>2. finish.exit = Number(status)
  BY <1>1
<1>3. PICK now \in Instants :
        record' = IF state = "clear" THEN CLEAR
                  ELSE Report(state, osc_start.agent, machine.title, LabelAt(now))
  BY DEF Finish
<1>4. exit = ExitCode
  BY <1>2, Zenon DEF ExitCode
<1>5. OutcomeMeant(outcome)
  BY <1>4, OutcomeIsMeant, Zenon
<1>6. (state = "done" => Number(status) = 0) /\ (state = "error" => Failed)
  <2> HIDE DEF outcome
  <2> QED
    BY <1>5, StateEarned, Zenon
<1> HIDE DEF state, LabelAt
<1>7. CLEAR.state = "clear"
  BY DEF CLEAR
<1>8. record'.state = "clear" \/ record'.state = state
  <2> DEFINE r == Report(state, osc_start.agent, machine.title, LabelAt(now))
  <2>1. r.state = state
    BY RecordState, Zenon
  <2> HIDE DEF r
  <2> QED
    BY <1>3, <1>7, <2>1 DEF r
<1> QED
  BY <1>6, <1>8

LEMMA EarnedNext ==
  ASSUME NEW T, Unmarked(T)
  PROVE  EarnedInv /\ RowInv(T) /\ MarkInv(T) /\ ReadInv /\ CallInv /\ TypeInv /\ [Next]_vars
           => EarnedInv'
<1> SUFFICES ASSUME EarnedInv, RowInv(T), MarkInv(T), ReadInv, CallInv, TypeInv, [Next]_vars
             PROVE  EarnedInv'
  OBVIOUS
<1>1. ASSUME phase' \notin {"ended", "finished"}, record'.state \in {"none", "working"}
      PROVE  EarnedInv'
  BY <1>1 DEF EarnedInv, SuccessEarned
<1>2. CASE Preexec \/ Boot
  <2>1. phase \in {"prompt", "called"} /\ phase' \in {"called", "parked", "watching"}
        /\ record' = record
    BY <1>2 DEF Preexec, Boot
  <2> QED
    BY <1>1, <2>1 DEF EarnedInv
<1>3. CASE EarlyTick \/ OnTick
  <2>1. phase' = "watching" /\ phase = "watching" /\ record' = record
    BY <1>3 DEF EarlyTick, OnTick
  <2> QED
    BY <1>1, <2>1 DEF EarnedInv
<1>4. CASE ReportWorking
  <2> DEFINE r == Report("working", machine.agent, machine.title, machine.title)
  <2>1. phase' = "watching" /\ record' = r
    BY <1>4 DEF ReportWorking
  <2>2. r.state = "working"
    BY RecordState, Zenon
  <2> QED
    BY <1>1, <2>1, <2>2
<1>5. CASE CommandEnds
  <2>1. phase # "finished" /\ phase' = "ended" /\ record' = record /\ status' \in Statuses
    BY <1>5 DEF CommandEnds
  <2> QED
    BY <2>1 DEF EarnedInv, SuccessEarned
<1>6. CASE OnFinish
  <2>1. phase = "ended" /\ UNCHANGED <<record, status>>
    BY <1>6 DEF OnFinish
  <2>2. status \in Statuses /\ record.state \in {"none", "working"}
    BY <2>1 DEF EarnedInv
  <2>3. \A i \in DOMAIN wire' : Earned(wire'[i])
    BY <1>6, <2>2, FinishEarns
  <2>4. SuccessEarned'
    BY <2>1, <2>2, <2>3 DEF SuccessEarned, Earned, Failed
  <2>5. phase' = "finished"
    BY <1>6 DEF OnFinish
  <2> QED
    BY <2>1, <2>2, <2>4, <2>5 DEF EarnedInv
<1>7. CASE Finish
  <2>1. phase = "ended" /\ call.osc /\ phase' = "finished" /\ UNCHANGED <<status, wire>>
    BY <1>7 DEF Finish
  <2>2. status \in Statuses
    BY <2>1 DEF EarnedInv
  <2>3. wire' = <<>>
    BY <2>1 DEF CallInv, ReadInv
  <2>4. DOMAIN wire' = {}
    BY <2>3
  <2>5. (record'.state = "done" => Number(status) = 0) /\ (record'.state = "error" => Failed)
    BY <1>7, <2>2, FinishRecorded
  <2> QED
    BY <2>1, <2>2, <2>4, <2>5 DEF EarnedInv, SuccessEarned, Failed
<1>8. CASE Terminal \/ UNCHANGED vars
  <2>1. UNCHANGED <<phase, status, record, wire>>
    BY <1>8 DEF Terminal, vars
  <2> QED
    BY <2>1 DEF EarnedInv, SuccessEarned, Failed
<1> QED
  BY <1>2, <1>3, <1>4, <1>5, <1>6, <1>7, <1>8 DEF Next

(* A command is reported as a success only when 0 was read for it, in the  *)
(* state of a record or with the mark of a success in a label, and a label *)
(* or a state that stays only when the command failed of itself: for any   *)
(* settings whose other templates do not have that mark, any commands that *)
(* do not, and any exit status (SuccessEarned; label.rs:36-37,             *)
(* osc.rs:64-66).                                                          *)
THEOREM SuccessEarnedHolds ==
  ASSUME NEW T, Unmarked(T)
  PROVE  Spec => []SuccessEarned
<1>1. Init => EarnedInv /\ MarkInv(T) /\ NameInv
  <2> SUFFICES ASSUME Init PROVE EarnedInv /\ MarkInv(T) /\ NameInv
    OBVIOUS
  <2>1. record.state = "none" /\ phase = "prompt"
    BY DEF Init, NoRecord
  <2> QED
    BY <2>1 DEF EarnedInv, SuccessEarned, MarkInv, NameInv
<1>2. EarnedInv => SuccessEarned
  BY DEF EarnedInv
<1>3. Init => RowInv(T)
  BY RowInit
<1>4. RowInv(T) /\ TypeInv /\ [Next]_vars => RowInv(T)'
  BY RowNext, Zenon DEF Unmarked
<1>5. MarkInv(T) /\ NameInv /\ TypeInv /\ [Next]_vars => MarkInv(T)'
  BY MarkNext
<1>6. EarnedInv /\ RowInv(T) /\ MarkInv(T) /\ ReadInv /\ CallInv /\ TypeInv /\ [Next]_vars
        => EarnedInv'
  BY EarnedNext
<1> QED
  BY <1>1, <1>2, <1>3, <1>4, <1>5, <1>6, ReadInit, ReadNext, CallNext, NameNext, WholeInit,
     TypeInit, TypeNext, TtyNext, PTL DEF Spec

-----------------------------------------------------------------------------
(* What is left of a symbol, and of the first symbols of a text.           *)
Plain(c) == IF c \in Control THEN <<>> ELSE Bytes(c)

LEMMA PlainIs == \A c : Plain(c) \in Seq(Octets)
<1>1. <<>> \in Seq(Octets)
  OBVIOUS
<1> QED
  BY <1>1, BytesAre, Zenon DEF Plain

LEMMA PlainNothing == \A text : PlainBytes(text, 0) = <<>>
<1> SUFFICES ASSUME NEW text PROVE PlainBytes(text, 0) = <<>>
  OBVIOUS
<1> DEFINE ss == [i \in 1..0 |-> Plain(text[i])]
<1>1. PlainBytes(text, 0) = FlattenSeq(ss)
  BY Zenon DEF PlainBytes, Plain
<1>2. ss = <<>>
  OBVIOUS
<1> HIDE DEF ss
<1>3. FlattenSeq(ss) = <<>>
  BY <1>2 DEF FlattenSeq
<1> QED
  BY <1>1, <1>3

(* The bytes that are left, symbol by symbol.                              *)
LEMMA PlainNext ==
  ASSUME NEW text, NEW k \in Nat
  PROVE  PlainBytes(text, k + 1) = PlainBytes(text, k) \o Plain(text[k + 1])
<1> DEFINE ss == [i \in 1..k |-> Plain(text[i])]
           x == Plain(text[k + 1])
           l == [i \in 1..(k + 1) |-> Plain(text[i])]
           r == Append(ss, x)
<1>1. PlainBytes(text, k) = FlattenSeq(ss) /\ PlainBytes(text, k + 1) = FlattenSeq(l)
  BY Zenon DEF PlainBytes, Plain
<1>2. ss \in Seq(Seq(Octets)) /\ x \in Seq(Octets) /\ Len(ss) = k
  BY PlainIs
<1>3. l = r
  <2>1. l \in Seq(Seq(Octets)) /\ Len(l) = k + 1
    BY PlainIs
  <2>2. r \in Seq(Seq(Octets)) /\ Len(r) = k + 1
    <3> HIDE DEF ss, x
    <3> QED
      BY <1>2
  <2>3. ASSUME NEW i \in 1..(k + 1) PROVE l[i] = r[i]
    <3>1. CASE i = k + 1
      <4>1. l[i] = x
        BY <3>1
      <4>2. r[i] = x
        <5> HIDE DEF ss, x
        <5> QED
          BY <1>2, <3>1
      <4> QED
        BY <4>1, <4>2
    <3>2. CASE i # k + 1
      <4>1. i \in 1..k
        BY <3>2
      <4>2. l[i] = Plain(text[i]) /\ ss[i] = Plain(text[i])
        BY <4>1
      <4>4. r[i] = ss[i]
        <5> HIDE DEF ss, x
        <5> QED
          BY <1>2, <4>1
      <4> QED
        BY <4>2, <4>4
    <3> QED
      BY <3>1, <3>2
  <2> HIDE DEF l, r
  <2> QED
    BY <2>1, <2>2, <2>3, SeqEqual
<1> HIDE DEF ss, x, l
<1>4. FlattenSeq(l) = FlattenSeq(ss) \o x
  BY <1>2, <1>3, FlattenNext
<1>5. x = Plain(text[k + 1])
  BY DEF x
<1> QED
  BY <1>1, <1>4, <1>5

LEMMA PlainIsText ==
  ASSUME NEW text, NEW k \in Nat
  PROVE  PlainBytes(text, k) \in Seq(Octets)
<1> DEFINE Done == {m \in Nat : PlainBytes(text, m) \in Seq(Octets)}
<1>1. 0 \in Done
  <2>1. <<>> \in Seq(Octets)
    OBVIOUS
  <2> QED
    BY <2>1, PlainNothing
<1>2. ASSUME NEW m \in Nat, m \in Done PROVE m + 1 \in Done
  <2>1. PlainBytes(text, m + 1) = PlainBytes(text, m) \o Plain(text[m + 1])
    BY PlainNext
  <2>2. PlainBytes(text, m) \in Seq(Octets) /\ Plain(text[m + 1]) \in Seq(Octets)
    BY <1>2, PlainIs
  <2>3. \A a, b \in Seq(Octets) : a \o b \in Seq(Octets)
    OBVIOUS
  <2>4. PlainBytes(text, m + 1) \in Seq(Octets)
    BY <2>1, <2>2, <2>3, Zenon
  <2> QED
    BY <2>4
<1> HIDE DEF Done
<1>3. Nat \subseteq Done
  BY <1>1, <1>2, SetInduction
<1> QED
  BY <1>3 DEF Done

(* What clean has kept of the first i symbols.                             *)
Kept(acc, T, text, i, max) ==
    /\ acc \in [text : Seq(T), bytes : 0..max, full : BOOLEAN]
    /\ acc.bytes = Len(BytesOf(acc.text))
    /\ \E k \in 0..i :
          /\ BytesOf(acc.text) = PlainBytes(text, k)
          /\ acc.full => /\ k < i /\ text[k + 1] \notin Control
                         /\ acc.bytes + Len(Bytes(text[k + 1])) > max
          /\ ~acc.full => k = i

(* What is kept of one more symbol.                                        *)
LEMMA KeptNext ==
  ASSUME NEW T, NEW text, NEW i \in Nat, NEW max \in Nat, text[i + 1] \in T,
         NEW acc, Kept(acc, T, text, i, max)
  PROVE  Kept(Taken(acc, text[i + 1], max), T, text, i + 1, max)
<1> DEFINE c == text[i + 1]
           n == Len(Bytes(c))
           new == Taken(acc, c, max)
<1>1. /\ acc \in [text : Seq(T), bytes : 0..max, full : BOOLEAN]
      /\ acc.bytes = Len(BytesOf(acc.text))
  BY DEF Kept
<1>2. PICK k \in 0..i :
          /\ BytesOf(acc.text) = PlainBytes(text, k)
          /\ acc.full => /\ k < i /\ text[k + 1] \notin Control
                         /\ acc.bytes + Len(Bytes(text[k + 1])) > max
          /\ ~acc.full => k = i
  BY DEF Kept
<1>3. /\ n \in Nat /\ Bytes(c) \in Seq(Octets)
      /\ PlainBytes(text, i + 1) = PlainBytes(text, i) \o Plain(c)
  BY BytesAre, PlainNext
<1>4. k \in 0..(i + 1) /\ i + 1 \in 0..(i + 1) /\ (k < i => k < i + 1)
  OBVIOUS
<1> HIDE DEF n
<1>5. CASE acc.full
  <2>1. new = acc
    BY <1>5 DEF Taken
  <2> QED
    BY <1>1, <1>2, <1>4, <1>5, <2>1 DEF Kept
<1>6. CASE ~acc.full /\ c \in Control
  <2>1. new = acc
    BY <1>6 DEF Taken
  <2>2. PlainBytes(text, i + 1) = PlainBytes(text, i)
    <3>1. Plain(c) = <<>>
      BY <1>6 DEF Plain
    <3>2. PlainBytes(text, i) \in Seq(Octets)
      BY PlainIsText
    <3>3. PlainBytes(text, i) \o <<>> = PlainBytes(text, i)
      BY <3>2
    <3> QED
      BY <1>3, <3>1, <3>3
  <2>3. BytesOf(acc.text) = PlainBytes(text, i + 1)
    BY <1>2, <1>6, <2>2
  <2> QED
    BY <1>1, <1>4, <1>6, <2>1, <2>3 DEF Kept
<1>7. CASE ~acc.full /\ c \notin Control /\ acc.bytes + n > max
  <2>1. new = [acc EXCEPT !.full = TRUE]
    BY <1>7 DEF Taken, n
  <2>2. /\ new \in [text : Seq(T), bytes : 0..max, full : BOOLEAN]
        /\ new.text = acc.text /\ new.bytes = acc.bytes /\ new.full
    BY <1>1, <2>1
  <2>3. /\ k = i /\ k < i + 1 /\ text[k + 1] \notin Control
        /\ acc.bytes + Len(Bytes(text[k + 1])) > max
    BY <1>2, <1>7 DEF n
  <2> HIDE DEF new
  <2> QED
    BY <1>1, <1>2, <1>4, <2>2, <2>3 DEF Kept, new
<1>8. CASE ~acc.full /\ c \notin Control /\ ~(acc.bytes + n > max)
  <2>1. new = [acc EXCEPT !.text = Append(acc.text, c), !.bytes = acc.bytes + n]
    BY <1>1, <1>8 DEF Taken, n
  <2>2. Append(acc.text, c) \in Seq(T) /\ acc.bytes + n \in 0..max /\ c \in T
    BY <1>1, <1>3, <1>8
  <2>3. /\ new \in [text : Seq(T), bytes : 0..max, full : BOOLEAN]
        /\ new.text = Append(acc.text, c) /\ new.bytes = acc.bytes + n /\ ~new.full
    BY <1>1, <1>8, <2>1, <2>2
  <2>4. BytesOf(new.text) = BytesOf(acc.text) \o Bytes(c)
    <3>1. acc.text \in Seq(T)
      BY <1>1
    <3> QED
      BY <2>2, <2>3, <3>1, BytesOfNext
  <2>5. BytesOf(new.text) = PlainBytes(text, i + 1)
    <3>1. Plain(c) = Bytes(c)
      BY <1>8 DEF Plain
    <3> QED
      BY <1>2, <1>3, <1>8, <2>4, <3>1
  <2>6. new.bytes = Len(BytesOf(new.text))
    <3>1. BytesOf(acc.text) \in Seq(Octets)
      BY <1>2, PlainIsText
    <3>2. Len(BytesOf(acc.text) \o Bytes(c)) = Len(BytesOf(acc.text)) + n
      BY <1>3, <3>1 DEF n
    <3> QED
      BY <1>1, <2>3, <2>4, <3>2
  <2> HIDE DEF new
  <2> QED
    BY <1>4, <2>3, <2>5, <2>6 DEF Kept, new
<1> QED
  BY <1>5, <1>6, <1>7, <1>8

(* What clean keeps: a beginning of the text, without its control          *)
(* characters, and all of it unless the next character does not fit.       *)
Fitting(bytes, text, max) ==
    /\ bytes \in Seq(Octets) /\ Len(bytes) <= max
    /\ \E k \in 0..Len(text) :
          /\ bytes = PlainBytes(text, k)
          /\ k < Len(text) => /\ text[k + 1] \notin Control
                              /\ Len(bytes) + Len(Bytes(text[k + 1])) > max

(* Clean keeps such a beginning of any text.                               *)
LEMMA CleanFits ==
  ASSUME NEW T, NEW text \in Seq(T), NEW max \in Nat
  PROVE  Fitting(BytesOf(Clean(text, max)), text, max)
<1> DEFINE n == Len(text)
<1>1. n \in Nat /\ DOMAIN text = 1..n /\ \A i \in 1..n : text[i] \in T
  OBVIOUS
<1> HIDE DEF n
<1>2. PICK read : /\ Clean(text, max) = read[n].text
                  /\ read[0] = Untaken
                  /\ \A i \in 1..n : read[i] = Taken(read[i - 1], text[i], max)
  BY <1>1, CleanRead, Zenon
<1> DEFINE Done == {m \in Nat : m <= n => Kept(read[m], T, text, m, max)}
<1>3. 0 \in Done
  <2>1. Untaken \in [text : Seq(T), bytes : 0..max, full : BOOLEAN]
        /\ Untaken.text = <<>> /\ Untaken.bytes = 0 /\ ~Untaken.full
    BY DEF Untaken
  <2>2. BytesOf(<<>>) = <<>> /\ PlainBytes(text, 0) = <<>> /\ Len(<<>>) = 0 /\ 0 \in 0..0
    BY BytesOfNothing, PlainNothing
  <2>3. Kept(Untaken, T, text, 0, max)
    BY <2>1, <2>2 DEF Kept
  <2> QED
    BY <1>2, <2>3
<1>4. ASSUME NEW m \in Nat, m \in Done PROVE m + 1 \in Done
  <2> SUFFICES ASSUME m + 1 <= n PROVE Kept(read[m + 1], T, text, m + 1, max)
    OBVIOUS
  <2>1. Kept(read[m], T, text, m, max) /\ text[m + 1] \in T
    BY <1>1, <1>4
  <2>2. Kept(Taken(read[m], text[m + 1], max), T, text, m + 1, max)
    BY <2>1, KeptNext
  <2>3. read[m + 1] = Taken(read[m], text[m + 1], max)
    <3> DEFINE k == m + 1
    <3>1. k \in 1..n /\ k - 1 = m
      BY <1>1
    <3> HIDE DEF k
    <3>2. read[k] = Taken(read[k - 1], text[k], max)
      BY <1>2, <3>1
    <3> QED
      BY <3>1, <3>2 DEF k
  <2> QED
    BY <2>2, <2>3
<1> HIDE DEF Done
<1>5. Nat \subseteq Done
  BY <1>3, <1>4, SetInduction
<1> DEFINE acc == read[n]
<1>6. Kept(acc, T, text, n, max)
  BY <1>1, <1>5 DEF Done
<1>7. acc \in [text : Seq(T), bytes : 0..max, full : BOOLEAN] /\ acc.bytes = Len(BytesOf(acc.text))
  BY <1>6, Zenon DEF Kept
<1>8. PICK k \in 0..n :
          /\ BytesOf(acc.text) = PlainBytes(text, k)
          /\ acc.full => /\ k < n /\ text[k + 1] \notin Control
                         /\ acc.bytes + Len(Bytes(text[k + 1])) > max
          /\ ~acc.full => k = n
  BY <1>6, Zenon DEF Kept
<1> DEFINE bytes == BytesOf(acc.text)
<1>9. bytes \in Seq(Octets)
  BY <1>8, PlainIsText
<1> HIDE DEF acc
<1>10. /\ Len(bytes) <= max
       /\ k < n => text[k + 1] \notin Control /\ Len(bytes) + Len(Bytes(text[k + 1])) > max
  BY <1>1, <1>7, <1>8
<1> HIDE DEF bytes
<1>11. Fitting(bytes, text, max)
  BY <1>8, <1>9, <1>10 DEF Fitting, n, bytes
<1> QED
  BY <1>2, <1>11 DEF acc, bytes

-----------------------------------------------------------------------------
(* Texts of four symbols each, put one after the other.                    *)
FourByFour(f, S, ss, m) ==
    /\ f \in Seq(S) /\ Len(f) = 4 * m
    /\ \A k \in 1..m : \A q \in 1..4 : f[4 * k - 4 + q] = ss[k][q]

(* One more text of four symbols, all of them, and the k-th again.         *)
LEMMA FourMore ==
  ASSUME NEW S, NEW ss, NEW m \in Nat, NEW f, FourByFour(f, S, ss, m),
         ss[m + 1] \in Seq(S), Len(ss[m + 1]) = 4
  PROVE  FourByFour(f \o ss[m + 1], S, ss, m + 1)
<1> DEFINE x == ss[m + 1]
           g == f \o x
<1>1. f \in Seq(S) /\ Len(f) = 4 * m /\ x \in Seq(S) /\ Len(x) = 4 /\ x = ss[m + 1]
  BY DEF FourByFour
<1>2. \A k \in 1..m : \A q \in 1..4 : f[4 * k - 4 + q] = ss[k][q]
  BY DEF FourByFour
<1> HIDE DEF x
<1>3. /\ g \in Seq(S) /\ Len(g) = Len(f) + Len(x)
      /\ \A i \in 1..Len(f) : g[i] = f[i]
      /\ \A i \in 1..Len(x) : g[Len(f) + i] = x[i]
  <2>1. f \in Seq(S) /\ x \in Seq(S)
    BY <1>1
  <2> QED
    BY <2>1, Concatenated
<1> HIDE DEF g
<1>4. g \in Seq(S) /\ Len(g) = 4 * (m + 1)
  BY <1>1, <1>3
<1>5. ASSUME NEW k \in 1..(m + 1), NEW q \in 1..4
      PROVE  g[4 * k - 4 + q] = ss[k][q]
  <2>1. CASE k = m + 1
    <3>1. 4 * k - 4 + q = Len(f) + q /\ q \in 1..Len(x)
      BY <1>1, <2>1
    <3>2. g[Len(f) + q] = x[q]
      BY <1>3, <3>1
    <3> QED
      BY <1>1, <2>1, <3>1, <3>2
  <2>2. CASE k # m + 1
    <3>1. k \in 1..m /\ 4 * k - 4 + q \in 1..Len(f)
      BY <1>1, <2>2
    <3> QED
      BY <1>2, <1>3, <3>1
  <2> QED
    BY <2>1, <2>2
<1>6. FourByFour(g, S, ss, m + 1)
  BY <1>4, <1>5 DEF FourByFour
<1> QED
  BY <1>6 DEF g, x

LEMMA Fours ==
  ASSUME NEW S, NEW ss, NEW n \in Nat \ {0}, Len(ss) = n,
         \A k \in 1..n : ss[k] \in Seq(S) /\ Len(ss[k]) = 4
  PROVE  FourByFour(FlattenSeq(ss), S, ss, n)
<1>1. PICK flat : /\ FlattenSeq(ss) = flat[n]
                  /\ \A i \in 1..n : flat[i] = IF i = 1 THEN ss[i] ELSE flat[i - 1] \o ss[i]
  <2>1. n \in Nat /\ n # 0
    OBVIOUS
  <2> QED
    BY <2>1, FlattenRead, Zenon
<1> DEFINE Done == {m \in Nat : m \in 1..n => FourByFour(flat[m], S, ss, m)}
<1>2. 0 \in Done
  OBVIOUS
<1>3. ASSUME NEW m \in Nat, m \in Done PROVE m + 1 \in Done
  <2> SUFFICES ASSUME m + 1 \in 1..n PROVE FourByFour(flat[m + 1], S, ss, m + 1)
    OBVIOUS
  <2>1. ss[m + 1] \in Seq(S) /\ Len(ss[m + 1]) = 4
    OBVIOUS
  <2>2. flat[m + 1] = IF m = 0 THEN ss[m + 1] ELSE flat[m] \o ss[m + 1]
    <3> DEFINE k == m + 1
    <3>1. k \in 1..n /\ k - 1 = m /\ (k = 1 <=> m = 0)
      OBVIOUS
    <3> HIDE DEF k
    <3>2. flat[k] = IF k = 1 THEN ss[k] ELSE flat[k - 1] \o ss[k]
      BY <1>1, <3>1
    <3>3. flat[k] = IF m = 0 THEN ss[k] ELSE flat[m] \o ss[k]
      BY <3>1, <3>2
    <3> QED
      BY <3>3 DEF k
  <2>3. CASE m = 0
    <3>1. flat[m + 1] = ss[1] /\ m + 1 = 1
      BY <2>2, <2>3
    <3>2. ss[1] \in Seq(S) /\ Len(ss[1]) = 4
      BY <2>1, <3>1
    <3>3. FourByFour(ss[1], S, ss, 1)
      BY <3>2 DEF FourByFour
    <3> QED
      BY <3>1, <3>3
  <2>4. CASE m # 0
    <3>1. FourByFour(flat[m], S, ss, m)
      BY <1>3, <2>4
    <3>2. FourByFour(flat[m] \o ss[m + 1], S, ss, m + 1)
      BY <2>1, <3>1, FourMore
    <3> QED
      BY <2>2, <2>4, <3>2
  <2> QED
    BY <2>3, <2>4
<1> HIDE DEF Done
<1>4. Nat \subseteq Done
  BY <1>2, <1>3, SetInduction
<1>5. FourByFour(flat[n], S, ss, n)
  BY <1>4 DEF Done
<1> QED
  BY <1>1, <1>5

LEMMA FourCut ==
  ASSUME NEW S, NEW f, NEW ss, NEW n \in Nat, FourByFour(f, S, ss, n),
         NEW k \in 1..n, ss[k] \in Seq(S), Len(ss[k]) = 4
  PROVE  SubSeq(f, 4 * k - 3, 4 * k) = ss[k]
<1> DEFINE x == 4 * k - 3
           y == 4 * k
           l == SubSeq(f, x, y)
           r == ss[k]
<1>1. f \in Seq(S) /\ Len(f) = 4 * n /\ \A q \in 1..4 : f[4 * k - 4 + q] = r[q]
  BY DEF FourByFour
<1>2. /\ x \in 1..(Len(f) + 1) /\ y \in (x - 1)..Len(f) /\ y - x + 1 = 4
      /\ \A q \in 1..4 : x + q - 1 = 4 * k - 4 + q
  BY <1>1
<1> HIDE DEF x, y, r
<1>3. /\ l \in Seq(S) /\ Len(l) = y - x + 1
      /\ \A i \in 1..(y - x + 1) : l[i] = f[x + i - 1]
  BY <1>1, <1>2, CutIs
<1> HIDE DEF l
<1>4. r \in Seq(S) /\ Len(r) = 4
  BY DEF r
<1>5. Len(l) = 4 /\ \A q \in 1..4 : l[q] = r[q]
  BY <1>1, <1>2, <1>3
<1>6. l = r
  BY <1>3, <1>4, <1>5, SeqEqual
<1> QED
  BY <1>6 DEF l, r, x, y

-----------------------------------------------------------------------------
LEMMA By64 ==
  \A x \in Nat : x % 64 \in 0..63 /\ x = 64 * (x \div 64) + (x % 64) /\ x \div 64 \in Nat
OBVIOUS

(* Three bytes are four digits: what is split can be put together again.   *)
Packs(d1, d2, d3, d4, n, b2, b3) ==
    /\ d1 \in 0..63 /\ d2 \in 0..63 /\ d3 \in 0..63 /\ d4 \in 0..63
    /\ ((d1 * 64 + d2) * 64 + d3) * 64 + d4 = n
    /\ b3 = 0 => d4 = 0
    /\ b3 = 0 /\ b2 = 0 => d3 = 0

(* Three bytes are packed by four digits, and unpacked.                    *)
LEMMA Sextets ==
  ASSUME NEW b1 \in Octets, NEW b2 \in Octets, NEW b3 \in Octets,
         NEW n, n = 65536 * b1 + 256 * b2 + b3
  PROVE  Packs(n \div 262144, (n \div 4096) % 64, (n \div 64) % 64, n % 64, n, b2, b3)
<1>1. n \in Nat /\ n < 16777216
  BY SMT DEF Octets
<1> DEFINE q1 == n \div 64
           q2 == n \div 4096
           q3 == n \div 262144
           d2 == q2 % 64
           d3 == q1 % 64
           d4 == n % 64
<1>2. q1 \in Nat /\ d4 \in 0..63 /\ n = 64 * q1 + d4
  BY <1>1, SMT
<1>3. q2 \in Nat /\ d3 \in 0..63 /\ q1 = 64 * q2 + d3
  <2>1. q2 \in Nat /\ 4096 * q2 <= n /\ n < 4096 * q2 + 4096
    BY <1>1, SMT
  <2>2. d3 \in 0..63 /\ q1 = 64 * (q1 \div 64) + d3 /\ q1 \div 64 \in Nat
    <3>1. q1 \in Nat
      BY <1>2
    <3> HIDE DEF q1
    <3> QED
      BY <3>1, By64
  <2> DEFINE p == q1 \div 64
  <2>3. p \in Nat /\ q1 = 64 * p + d3
    BY <2>2
  <2> HIDE DEF p, q1, q2, d3, d4
  <2>4. p = q2
    BY <1>1, <1>2, <2>1, <2>2, <2>3, SMT
  <2> QED
    BY <2>1, <2>2, <2>3, <2>4
<1>4. q3 \in 0..63 /\ d2 \in 0..63 /\ q2 = 64 * q3 + d2
  <2>1. q3 \in Nat /\ 262144 * q3 <= n /\ n < 262144 * q3 + 262144
    BY <1>1, SMT
  <2>2. d2 \in 0..63 /\ q2 = 64 * (q2 \div 64) + d2 /\ q2 \div 64 \in Nat
    <3>1. q2 \in Nat
      BY <1>3
    <3> HIDE DEF q2
    <3> QED
      BY <3>1, By64
  <2> DEFINE p == q2 \div 64
  <2>3. p \in Nat /\ q2 = 64 * p + d2
    BY <2>2
  <2> HIDE DEF p, q1, q2, q3, d2, d3, d4
  <2>4. p = q3 /\ q3 <= 63
    BY <1>1, <1>2, <1>3, <2>1, <2>2, <2>3, SMT
  <2> QED
    BY <2>1, <2>2, <2>3, <2>4
<1> HIDE DEF q1, q2, q3, d2, d3, d4
<1>5. ((q3 * 64 + d2) * 64 + d3) * 64 + d4 = n
  BY <1>2, <1>3, <1>4, SMT
<1>6. b3 = 0 => d4 = 0
  BY <1>2, SMT DEF Octets
<1>7. b3 = 0 /\ b2 = 0 => d3 = 0
  BY <1>2, <1>3, SMT DEF Octets
<1>8. Packs(q3, d2, d3, d4, n, b2, b3)
  BY <1>2, <1>3, <1>4, <1>5, <1>6, <1>7 DEF Packs
<1> QED
  BY <1>8 DEF q1, q2, q3, d2, d3, d4

LEMMA Octave ==
  ASSUME NEW b1 \in Octets, NEW b2 \in Octets, NEW b3 \in Octets,
         NEW n, n = 65536 * b1 + 256 * b2 + b3
  PROVE  n \div 65536 = b1 /\ (n \div 256) % 256 = b2 /\ n % 256 = b3
BY SMT DEF Octets

(* One group of digits, as Base64 writes it and as it is read back.        *)
Group(n, there) ==
    LET digits == <<n \div 262144, (n \div 4096) % 64, (n \div 64) % 64, n % 64>>
    IN  [i \in 1..4 |-> IF i - 1 <= there THEN digits[i] ELSE PAD]
Unpadded(q) == [i \in 1..4 |-> IF q[i] = PAD THEN 0 ELSE q[i]]
Number24Of(q) == ((q[1] * 64 + q[2]) * 64 + q[3]) * 64 + q[4]
ThreeOf(n) == <<n \div 65536, (n \div 256) % 256, n % 256>>
ThereIn(q) == CASE q[3] = PAD -> 1  [] q[3] # PAD /\ q[4] = PAD -> 2  [] OTHER -> 3
GroupRead(q) == SubSeq(ThreeOf(Number24Of(Unpadded(q))), 1, ThereIn(q))

ByteAt(bytes, i) == IF i <= Len(bytes) THEN bytes[i] ELSE 0
Packed(bytes, k) ==
    65536 * ByteAt(bytes, 3 * k - 2) + 256 * ByteAt(bytes, 3 * k - 1) + ByteAt(bytes, 3 * k)
QuadAt(digits, k) == SubSeq(digits, 4 * k - 3, 4 * k)
GroupAt(bytes, k) == Group(Packed(bytes, k), Len(bytes) - 3 * (k - 1))

(* Both directions, group by group.                                        *)
LEMMA Base64Is ==
  \A bytes : Base64(bytes)
    = FlattenSeq([k \in 1..((Len(bytes) + 2) \div 3) |-> GroupAt(bytes, k)])
BY DEF Base64, GroupAt, Group, Packed, ByteAt

LEMMA DecodedIs ==
  \A digits : Decoded(digits)
    = FlattenSeq([k \in 1..(Len(digits) \div 4) |-> GroupRead(QuadAt(digits, k))])
BY DEF Decoded, QuadAt, GroupRead, ThreeOf, Number24Of, Unpadded, ThereIn

(* A group of digits is read back as the bytes it was written from.        *)
LEMMA GroupReads ==
  ASSUME NEW b1 \in Octets, NEW b2 \in Octets, NEW b3 \in Octets,
         NEW n, n = 65536 * b1 + 256 * b2 + b3,
         NEW there \in Nat \ {0}, there < 3 => b3 = 0, there < 2 => b2 = 0
  PROVE  /\ Group(n, there) \in Seq(0..64) /\ Len(Group(n, there)) = 4
         /\ GroupRead(Group(n, there))
              = SubSeq(<<b1, b2, b3>>, 1, IF there < 3 THEN there ELSE 3)
<1> DEFINE d1 == n \div 262144
           d2 == (n \div 4096) % 64
           d3 == (n \div 64) % 64
           d4 == n % 64
           q == Group(n, there)
           u == Unpadded(q)
<1>1. /\ d1 \in 0..63 /\ d2 \in 0..63 /\ d3 \in 0..63 /\ d4 \in 0..63
      /\ ((d1 * 64 + d2) * 64 + d3) * 64 + d4 = n
      /\ b3 = 0 => d4 = 0
      /\ b3 = 0 /\ b2 = 0 => d3 = 0
  <2>1. Packs(d1, d2, d3, d4, n, b2, b3)
    BY Sextets
  <2> HIDE DEF d1, d2, d3, d4
  <2> QED
    BY <2>1 DEF Packs
<1>2. q = [i \in 1..4 |-> IF i - 1 <= there THEN <<d1, d2, d3, d4>>[i] ELSE PAD]
  BY DEF Group
<1>3. ThreeOf(n) = <<b1, b2, b3>>
  BY Octave DEF ThreeOf
<1> HIDE DEF d1, d2, d3, d4, q
<1>4. DOMAIN q = 1..4 /\ q[1] = d1 /\ q[2] = d2
      /\ q[3] = (IF there < 2 THEN PAD ELSE d3) /\ q[4] = (IF there < 3 THEN PAD ELSE d4)
      /\ q = [i \in 1..4 |-> q[i]]
  BY <1>2
<1>5. PAD = 64
  BY DEF PAD
<1>6. q \in Seq(0..64) /\ Len(q) = 4
  <2>1. \A i \in 1..4 : q[i] \in 0..64
    <3>1. q[1] \in 0..64 /\ q[2] \in 0..64 /\ q[3] \in 0..64 /\ q[4] \in 0..64
      BY <1>1, <1>4, <1>5
    <3>2. \A i \in 1..4 : i \in {1, 2, 3, 4}
      OBVIOUS
    <3> QED
      BY <3>1, <3>2
  <2> QED
    BY <1>4, <2>1
<1>7. u[1] = d1 /\ u[2] = d2 /\ u[3] = d3 /\ u[4] = d4
  <2>1. \A i \in 1..4 : u[i] = IF q[i] = PAD THEN 0 ELSE q[i]
    BY DEF Unpadded
  <2> HIDE DEF u
  <2>2. /\ u[1] = (IF q[1] = PAD THEN 0 ELSE q[1]) /\ u[2] = (IF q[2] = PAD THEN 0 ELSE q[2])
        /\ u[3] = (IF q[3] = PAD THEN 0 ELSE q[3]) /\ u[4] = (IF q[4] = PAD THEN 0 ELSE q[4])
    BY <2>1
  <2> QED
    BY <1>1, <1>4, <1>5, <2>2
<1> HIDE DEF u
<1>8. Number24Of(u) = n
  BY <1>1, <1>7 DEF Number24Of
<1>9. ThereIn(q) = IF there < 3 THEN there ELSE 3
  <2>1. CASE there = 1
    BY <1>4, <2>1 DEF ThereIn
  <2>2. CASE there = 2
    BY <1>1, <1>4, <1>5, <2>2 DEF ThereIn
  <2>3. CASE there >= 3
    BY <1>1, <1>4, <1>5, <2>3 DEF ThereIn
  <2> QED
    BY <2>1, <2>2, <2>3
<1> QED
  BY <1>3, <1>6, <1>8, <1>9 DEF GroupRead, u, q

(* The k-th group holds the k-th three bytes, or what is left of them.     *)
LEMMA GroupIsCut ==
  ASSUME NEW bytes \in Seq(Octets), NEW k \in Nat \ {0}, 3 * (k - 1) < Len(bytes)
  PROVE  /\ GroupAt(bytes, k) \in Seq(0..64) /\ Len(GroupAt(bytes, k)) = 4
         /\ GroupRead(GroupAt(bytes, k))
              = SubSeq(bytes, 3 * (k - 1) + 1, IF 3 * k <= Len(bytes) THEN 3 * k ELSE Len(bytes))
<1> DEFINE n == Len(bytes)
           x == 3 * (k - 1)
           b1 == ByteAt(bytes, 3 * k - 2)
           b2 == ByteAt(bytes, 3 * k - 1)
           b3 == ByteAt(bytes, 3 * k)
           there == n - x
           c == IF there < 3 THEN there ELSE 3
           y == IF 3 * k <= n THEN 3 * k ELSE n
           three == <<b1, b2, b3>>
<1>1. n \in Nat /\ \A i \in 1..n : bytes[i] \in Octets
  OBVIOUS
<1>2. /\ x \in Nat /\ x + 1 \in 1..n /\ there \in Nat \ {0} /\ c \in 1..3
      /\ y = x + c /\ y \in x..n
      /\ c <= there
      /\ 3 * k - 2 = x + 1 /\ 3 * k - 1 = x + 2 /\ 3 * k = x + 3
  <2>1. x \in Nat /\ 3 * k = x + 3 /\ x < n
    OBVIOUS
  <2>2. there \in Nat \ {0} /\ x + 1 \in 1..n /\ n = x + there
    <3> HIDE DEF x, n
    <3> QED
      BY <1>1, <2>1
  <2>3. y = IF x + 3 <= n THEN x + 3 ELSE n
    BY <2>1
  <2>4. 3 * k - 2 = x + 1 /\ 3 * k - 1 = x + 2
    OBVIOUS
  <2> HIDE DEF x, n, y, there
  <2>5. c \in 1..3 /\ c <= there
    BY <2>2
  <2>6. y = x + c
    BY <1>1, <2>1, <2>2, <2>3
  <2> HIDE DEF c
  <2> QED
    BY <1>1, <2>1, <2>2, <2>4, <2>5, <2>6
<1>3. /\ b1 \in Octets /\ b2 \in Octets /\ b3 \in Octets
      /\ there < 3 => b3 = 0
      /\ there < 2 => b2 = 0
      /\ b1 = bytes[x + 1]
      /\ c >= 2 => b2 = bytes[x + 2]
      /\ c >= 3 => b3 = bytes[x + 3]
  <2>1. 0 \in Octets
    BY DEF Octets
  <2> HIDE DEF Octets
  <2> QED
    BY <1>1, <1>2, <2>1 DEF ByteAt
<1>4. /\ Group(Packed(bytes, k), there) \in Seq(0..64)
      /\ Len(Group(Packed(bytes, k), there)) = 4
      /\ GroupRead(Group(Packed(bytes, k), there)) = SubSeq(three, 1, c)
  <2>1. Packed(bytes, k) = 65536 * b1 + 256 * b2 + b3
    BY DEF Packed
  <2> HIDE DEF b1, b2, b3, there
  <2> QED
    BY <1>2, <1>3, <2>1, GroupReads
<1>5. SubSeq(three, 1, c) = SubSeq(bytes, x + 1, y)
  <2> DEFINE l == SubSeq(three, 1, c)
             r == SubSeq(bytes, x + 1, y)
  <2>1. three \in Seq(Octets) /\ Len(three) = 3 /\ three[1] = b1 /\ three[2] = b2 /\ three[3] = b3
    <3> HIDE DEF b1, b2, b3
    <3> QED
      BY <1>3
  <2> HIDE DEF three, b1, b2, b3, c, y, there
  <2>2. l \in Seq(Octets) /\ Len(l) = c /\ \A i \in 1..c : l[i] = three[i]
    <3>1. 1 \in 1..(Len(three) + 1) /\ c \in (1 - 1)..Len(three) /\ c - 1 + 1 = c
      BY <1>2, <2>1
    <3>2. /\ l \in Seq(Octets) /\ Len(l) = c - 1 + 1
          /\ \A i \in 1..(c - 1 + 1) : l[i] = three[1 + i - 1]
      BY <2>1, <3>1, CutIs
    <3> HIDE DEF l
    <3> QED
      BY <1>2, <3>1, <3>2
  <2>3. r \in Seq(Octets) /\ Len(r) = c /\ \A i \in 1..c : r[i] = bytes[x + i]
    <3> DEFINE z == x + 1
    <3>1. z \in 1..(Len(bytes) + 1) /\ y \in (z - 1)..Len(bytes) /\ y - z + 1 = c
      BY <1>1, <1>2
    <3>3. \A i \in 1..c : z + i - 1 = x + i
      BY <1>2
    <3> HIDE DEF z
    <3>2. /\ SubSeq(bytes, z, y) \in Seq(Octets) /\ Len(SubSeq(bytes, z, y)) = y - z + 1
          /\ \A i \in 1..(y - z + 1) : SubSeq(bytes, z, y)[i] = bytes[z + i - 1]
      BY <3>1, CutIs
    <3>4. r = SubSeq(bytes, z, y)
      BY DEF z
    <3> HIDE DEF r
    <3> QED
      BY <1>2, <3>1, <3>2, <3>3, <3>4
  <2> HIDE DEF l, r
  <2>4. ASSUME NEW i \in 1..c PROVE l[i] = r[i]
    <3>1. i = 1 \/ (i = 2 /\ c >= 2) \/ (i = 3 /\ c >= 3)
      BY <1>2
    <3>2. l[i] = three[i] /\ r[i] = bytes[x + i]
      BY <2>2, <2>3
    <3> QED
      BY <1>3, <2>1, <3>1, <3>2
  <2>5. l = r
    BY <2>2, <2>3, <2>4, SeqEqual
  <2> QED
    BY <2>5 DEF l, r
<1>6. GroupAt(bytes, k) = Group(Packed(bytes, k), there)
  BY Zenon DEF GroupAt
<1> HIDE DEF x, y, there, n, c, three
<1>7. GroupRead(GroupAt(bytes, k)) = SubSeq(bytes, x + 1, y)
  BY <1>4, <1>5, <1>6, Zenon
<1>8. GroupAt(bytes, k) \in Seq(0..64) /\ Len(GroupAt(bytes, k)) = 4
  BY <1>4, <1>6, Zenon
<1> QED
  BY <1>7, <1>8 DEF x, y, n

(* What a record decodes to is what was encoded, whatever the bytes and    *)
(* however many (osc.rs:155-173).                                          *)
THEOREM Base64Decoded ==
  ASSUME NEW bytes \in Seq(Octets)
  PROVE  Decoded(Base64(bytes)) = bytes
<1> DEFINE n == Len(bytes)
           m == (n + 2) \div 3
           ss == [k \in 1..m |-> GroupAt(bytes, k)]
           digits == FlattenSeq(ss)
           to == [k \in 0..m |-> IF 3 * k <= n THEN 3 * k ELSE n]
           pp == [k \in 1..m |-> GroupRead(QuadAt(digits, k))]
<1>1. n \in Nat
  OBVIOUS
<1>2. m \in Nat /\ 3 * m >= n /\ 3 * m < n + 3
  <2> HIDE DEF n
  <2> QED
    BY <1>1
<1>3. Base64(bytes) = digits
  BY Base64Is, Zenon
<1> HIDE DEF n, m
<1>4. CASE m = 0
  <2>1. n = 0
    BY <1>1, <1>2, <1>4
  <2>2. bytes = <<>>
    BY <2>1 DEF n
  <2>3. ss = <<>>
    BY <1>4
  <2>4. digits = <<>>
    <3> HIDE DEF ss
    <3> QED
      BY <2>3 DEF FlattenSeq
  <2>5. Decoded(digits)
          = FlattenSeq([k \in 1..(Len(digits) \div 4) |-> GroupRead(QuadAt(digits, k))])
    BY DecodedIs, Zenon
  <2> HIDE DEF digits
  <2>6. Len(digits) \div 4 = 0
    BY <2>4
  <2> DEFINE none == [k \in 1..(Len(digits) \div 4) |-> GroupRead(QuadAt(digits, k))]
  <2>7. none = <<>>
    BY <2>6
  <2> HIDE DEF none
  <2>8. FlattenSeq(none) = <<>>
    BY <2>7 DEF FlattenSeq
  <2> QED
    BY <1>3, <2>2, <2>5, <2>8, Zenon DEF none
<1>5. CASE m # 0
  <2>1. ASSUME NEW k \in 1..m
        PROVE  /\ ss[k] \in Seq(0..64) /\ Len(ss[k]) = 4
               /\ GroupRead(ss[k])
                    = SubSeq(bytes, 3 * (k - 1) + 1, IF 3 * k <= n THEN 3 * k ELSE n)
    <3>1. ss[k] = GroupAt(bytes, k)
      OBVIOUS
    <3>2. k \in Nat \ {0} /\ 3 * (k - 1) < n
      BY <1>1, <1>2
    <3>3. k \in Nat \ {0} /\ 3 * (k - 1) < Len(bytes)
      BY <3>2 DEF n
    <3>4. /\ GroupAt(bytes, k) \in Seq(0..64) /\ Len(GroupAt(bytes, k)) = 4
          /\ GroupRead(GroupAt(bytes, k))
               = SubSeq(bytes, 3 * (k - 1) + 1, IF 3 * k <= Len(bytes) THEN 3 * k ELSE Len(bytes))
      BY <3>3, GroupIsCut
    <3> HIDE DEF ss
    <3> QED
      BY <3>1, <3>4 DEF n
  <2>2. Len(ss) = m
    BY <1>2
  <2> HIDE DEF ss
  <2>3. FourByFour(digits, 0..64, ss, m)
    BY <1>2, <1>5, <2>1, <2>2, Fours
  <2> HIDE DEF digits
  <2>4. Len(digits) \div 4 = m
    <3>1. Len(digits) = 4 * m
      BY <2>3, Zenon DEF FourByFour
    <3> QED
      BY <1>2, <3>1
  <2>5. ASSUME NEW k \in 1..m
        PROVE  pp[k] = SubSeq(bytes, 3 * (k - 1) + 1, IF 3 * k <= n THEN 3 * k ELSE n)
    <3>1. QuadAt(digits, k) = ss[k]
      BY <1>2, <2>1, <2>3, FourCut DEF QuadAt
    <3>2. pp[k] = GroupRead(QuadAt(digits, k))
      OBVIOUS
    <3> HIDE DEF pp
    <3> QED
      BY <2>1, <3>1, <3>2
  <2>6. Len(pp) = m
    BY <1>2
  <2>7. Decoded(digits) = FlattenSeq(pp)
    <3>1. Decoded(digits)
            = FlattenSeq([k \in 1..(Len(digits) \div 4) |-> GroupRead(QuadAt(digits, k))])
      BY DecodedIs, Zenon
    <3> QED
      BY <2>4, <3>1
  <2> HIDE DEF pp
  <2>8. \A k \in 0..m : to[k] = IF 3 * k <= n THEN 3 * k ELSE n
    OBVIOUS
  <2> HIDE DEF to
  <2>9. ASSUME NEW k \in 1..m
        PROVE  /\ to[k] \in 0..Len(bytes)
               /\ k = 1 => pp[k] = SubSeq(bytes, 1, to[k])
               /\ k # 1 => /\ to[k - 1] <= to[k]
                           /\ pp[k] = SubSeq(bytes, to[k - 1] + 1, to[k])
    <3>1. to[k] = (IF 3 * k <= n THEN 3 * k ELSE n) /\ to[k - 1] = 3 * (k - 1)
      <4>1. k \in 0..m /\ k - 1 \in 0..m /\ 3 * (k - 1) <= n
        BY <1>1, <1>2
      <4> QED
        BY <2>8, <4>1
    <3>2. pp[k] = SubSeq(bytes, to[k - 1] + 1, to[k])
      BY <2>5, <3>1
    <3>3. to[k] \in 0..n /\ to[k - 1] <= to[k]
      BY <1>1, <1>2, <3>1
    <3>4. k = 1 => to[k - 1] + 1 = 1
      BY <3>1
    <3> QED
      BY <3>2, <3>3, <3>4 DEF n
  <2>10. to[m] = Len(bytes)
    <3>1. to[m] = n
      BY <1>1, <1>2, <2>8
    <3> QED
      BY <3>1 DEF n
  <2>11. FlattenSeq(pp) = bytes
    <3>1. m \in Nat \ {0}
      BY <1>2, <1>5
    <3> QED
      BY <2>6, <2>9, <2>10, <3>1, CutsFlattened
  <2> QED
    BY <1>3, <2>7, <2>11
<1> QED
  BY <1>4, <1>5

-----------------------------------------------------------------------------
(* The field of a record carries its text.                                 *)
LEMMA Carried ==
  ASSUME NEW T, NEW text \in Seq(T), NEW max \in Nat
  PROVE  Carries(Base64(BytesOf(Clean(text, max))), text, max)
<1> DEFINE bytes == BytesOf(Clean(text, max))
<1>1. Fitting(bytes, text, max)
  BY CleanFits
<1> HIDE DEF bytes
<1>2. bytes \in Seq(Octets)
  BY <1>1, Zenon DEF Fitting
<1>3. Decoded(Base64(bytes)) = bytes
  BY <1>2, Base64Decoded, Zenon
<1>4. Carries(Base64(bytes), text, max)
  BY <1>1, <1>3, Zenon DEF Fitting, Carries
<1> QED
  BY <1>4 DEF bytes

Carrying(text, max) == Base64(BytesOf(Clean(text, max)))

LEMMA RecordTitle ==
  \A state, app, title, msg :
     Report(state, app, title, msg).title = Carrying(title, MAX_TITLE_BYTES)
BY DEF Report, Carrying

LEMMA RecordMessage ==
  \A state, app, title, msg :
     Report(state, app, title, msg).msg = Carrying(msg, MAX_MSG_BYTES)
BY DEF Report, Carrying

(* The label of how the command ended.                                     *)
LastLabel == FinishLabel(Classify(ExitCode), asked)

LEMMA LastLabelSaid ==
  ASSUME UNCHANGED <<machine, cfg, status>>
  PROVE  LastLabel' = FinishLabel(Classify(ExitCode), asked')
BY Zenon DEF LastLabel, FinishLabel, ExitCode

LEMMA LastLabelKept ==
  ASSUME UNCHANGED <<machine, cfg, status, asked>>
  PROVE  LastLabel' = LastLabel
BY LastLabelSaid, Zenon DEF LastLabel

(* A record is the title's.  The message is the title too, or the label of *)
(* how the command ended once it has; nothing is written before there is a *)
(* record.                                                                 *)
RecordInv ==
    /\ phase \in {"ended", "finished"} => status \in Statuses
    /\ tty.pc = "opening" => record.state # "none"
    /\ phase \in {"prompt", "called"} => record.state = "none"
    /\ record.state \notin {"none", "clear"} =>
          record.title = Carrying(machine.title, MAX_TITLE_BYTES)
    /\ record.state = "working" => record.msg = Carrying(machine.title, MAX_MSG_BYTES)
    /\ record.state \notin {"none", "clear", "working"} =>
          phase = "finished" /\ record.msg = Carrying(LastLabel, MAX_MSG_BYTES)

LEMMA StateFinished ==
  ASSUME NEW outcome
  PROVE  FinishState(outcome) \in {"error", "clear", "done", "idle"}
BY DEF FinishState

(* A step of the terminal begins no record.                                *)
LEMMA RecordWritten ==
  ASSUME TtyInv, TtyStep
  PROVE  tty'.pc # "opening"
<1> USE DEF TtyRecord
<1>0. tty \in TtyRecord
  BY TtyTypeIs DEF TtyInv
<1>1. CASE OpenTty
  BY <1>0, <1>1 DEF OpenTty
<1>2. CASE WritePart
  BY <1>0, <1>2 DEF WritePart
<1>3. CASE WouldBlock
  BY <1>0, <1>3 DEF WouldBlock
<1>4. CASE WriteFails \/ WriterKilled
  BY <1>0, <1>4 DEF WriteFails, WriterKilled
<1> QED
  BY <1>1, <1>2, <1>3, <1>4 DEF TtyStep

(* The record of a finished command.                                       *)
LEMMA FinishedRecord ==
  ASSUME Finish
  PROVE  \/ record' = CLEAR
         \/ \E state \in {"error", "done", "idle"} :
               record' = Report(state, osc_start.agent, machine.title, LastLabel')
<1> DEFINE finish == Invoke(FinishCall(status))
           exit == IF finish.exit = NaN THEN NoCode ELSE finish.exit
           outcome == Classify(exit)
           state == FinishState(outcome)
           LabelAt(now) == FinishLabel(outcome, Elapsed(now))
<1>1. PICK now \in Instants :
        /\ record' = IF state = "clear" THEN CLEAR
                     ELSE Report(state, osc_start.agent, machine.title, LabelAt(now))
        /\ asked' = Elapsed(now)
  BY DEF Finish
<1>2. finish.exit = Number(status)
  <2>1. finish = [call |-> "finish", exit |-> Number(status)]
    BY Invoked, FinishParsed, Zenon
  <2> QED
    BY <2>1
<1>3. exit = ExitCode
  BY <1>2, Zenon DEF ExitCode
<1>4. UNCHANGED <<machine, cfg, status>>
  BY DEF Finish
<1>5. LastLabel' = LabelAt(now)
  BY <1>1, <1>3, <1>4, LastLabelSaid, Zenon
<1>6. state \in {"error", "clear", "done", "idle"}
  <2> HIDE DEF outcome
  <2> QED
    BY StateFinished
<1> HIDE DEF state, LabelAt
<1> QED
  BY <1>1, <1>5, <1>6

(* Every step keeps it.                                                    *)
LEMMA RecordNext == RecordInv /\ TtyInv /\ [Next]_vars => RecordInv'
<1> SUFFICES ASSUME RecordInv, TtyInv, [Next]_vars PROVE RecordInv'
  OBVIOUS
<1>1. CASE Preexec
  <2>1. UNCHANGED <<tty, record, machine>> /\ phase = "prompt" /\ phase' = "called"
    BY <1>1 DEF Preexec
  <2> QED
    BY <2>1 DEF RecordInv
<1>2. CASE Boot
  <2>1. UNCHANGED <<tty, record>> /\ phase = "called" /\ phase' \in {"parked", "watching"}
    BY <1>2 DEF Boot
  <2> QED
    BY <2>1 DEF RecordInv
<1>3. CASE EarlyTick
  <2>1. PICK reply \in Replies : machine' = [machine EXCEPT !.locked = Probed(reply)]
    BY <1>3, Zenon DEF EarlyTick
  <2>2. UNCHANGED <<tty, record, phase>> /\ phase = "watching"
    BY <1>3 DEF EarlyTick
  <2>3. machine'.title = machine.title
    BY <2>1
  <2> QED
    BY <2>2, <2>3 DEF RecordInv
<1>4. CASE OnTick
  <2>1. UNCHANGED <<tty, record, phase>> /\ phase = "watching" /\ machine'.title = machine.title
    BY <1>4 DEF OnTick
  <2> QED
    BY <2>1 DEF RecordInv
<1>5. CASE CommandEnds
  <2>1. UNCHANGED <<tty, record, machine>> /\ phase \in {"watching", "parked"}
        /\ phase' = "ended" /\ status' \in Statuses
    BY <1>5 DEF CommandEnds
  <2> QED
    BY <2>1 DEF RecordInv
<1>6. CASE OnFinish
  <2>1. UNCHANGED <<tty, record, machine, status>> /\ phase = "ended" /\ phase' = "finished"
    BY <1>6 DEF OnFinish
  <2> QED
    BY <2>1 DEF RecordInv
<1>7. CASE ReportWorking
  <2> DEFINE r == Report("working", machine.agent, machine.title, machine.title)
  <2>1. record' = r /\ machine'.title = machine.title /\ phase' = "watching"
    BY <1>7 DEF ReportWorking
  <2>2. /\ r.state = "working"
        /\ r.title = Carrying(machine.title, MAX_TITLE_BYTES)
        /\ r.msg = Carrying(machine.title, MAX_MSG_BYTES)
    <3>1. r.state = "working"
      BY RecordState, Zenon
    <3>2. r.title = Carrying(machine.title, MAX_TITLE_BYTES)
      BY RecordTitle
    <3>3. r.msg = Carrying(machine.title, MAX_MSG_BYTES)
      BY RecordMessage
    <3> QED
      BY <3>1, <3>2, <3>3
  <2> HIDE DEF r
  <2>3. /\ record'.state = "working"
        /\ record'.title = Carrying(machine.title, MAX_TITLE_BYTES)
        /\ record'.msg = Carrying(machine.title, MAX_MSG_BYTES)
    BY <2>1, <2>2
  <2> QED
    BY <2>1, <2>3 DEF RecordInv
<1>8. CASE Finish
  <2>1. machine' = machine /\ phase = "ended" /\ phase' = "finished" /\ status' = status
    BY <1>8 DEF Finish
  <2>2. CASE record' = CLEAR
    <3>1. record'.state = "clear"
      BY <2>2 DEF CLEAR
    <3> QED
      BY <2>1, <3>1 DEF RecordInv
  <2>3. ASSUME NEW state \in {"error", "done", "idle"},
               record' = Report(state, osc_start.agent, machine.title, LastLabel')
        PROVE  RecordInv'
    <3> DEFINE r == Report(state, osc_start.agent, machine.title, LastLabel')
    <3>1. /\ r.state = state
          /\ r.title = Carrying(machine.title, MAX_TITLE_BYTES)
          /\ r.msg = Carrying(LastLabel', MAX_MSG_BYTES)
      <4>1. r.state = state
        BY RecordState, Zenon
      <4>2. r.title = Carrying(machine.title, MAX_TITLE_BYTES)
        BY RecordTitle
      <4>3. r.msg = Carrying(LastLabel', MAX_MSG_BYTES)
        BY RecordMessage
      <4> QED
        BY <4>1, <4>2, <4>3
    <3>2. record' = r
      BY <2>3
    <3> HIDE DEF r
    <3>3. /\ record'.state = state
          /\ record'.title = Carrying(machine.title, MAX_TITLE_BYTES)
          /\ record'.msg = Carrying(LastLabel', MAX_MSG_BYTES)
      BY <3>1, <3>2
    <3> QED
      BY <2>1, <2>3, <3>3 DEF RecordInv
  <2> QED
    BY <1>8, <2>2, <2>3, FinishedRecord
<1>9. CASE Terminal
  <2>1. UNCHANGED <<record, machine, phase, status, cfg, asked>> /\ TtyStep
    BY <1>9 DEF Terminal
  <2>2. tty'.pc # "opening"
    BY <2>1, RecordWritten
  <2>3. LastLabel' = LastLabel
    BY <2>1, LastLabelKept
  <2> QED
    BY <2>1, <2>2, <2>3 DEF RecordInv
<1>10. CASE UNCHANGED vars
  <2>1. UNCHANGED <<tty, record, machine, phase, status, cfg, asked>>
    BY <1>10 DEF vars
  <2>2. LastLabel' = LastLabel
    BY <2>1, LastLabelKept
  <2> QED
    BY <2>1, <2>2 DEF RecordInv
<1> QED
  BY <1>1, <1>2, <1>3, <1>4, <1>5, <1>6, <1>7, <1>8, <1>9, <1>10 DEF Next

LEMMA RecordInit == Init => RecordInv
<1> SUFFICES ASSUME Init PROVE RecordInv
  OBVIOUS
<1>1. record.state = "none" /\ tty.pc = "idle" /\ phase = "prompt"
  BY DEF Init, NoRecord, TtyIdle
<1> QED
  BY <1>1 DEF RecordInv

(* The label of how a command ended is a text.                             *)
LEMMA LastLabelIsText ==
  ASSUME NEW S, Symbols(S), SettingsSpelled(S), RowInv(S), LoadedInv, TypeInv,
         phase = "finished", status \in Statuses
  PROVE  \E T : LastLabel \in Seq(T)
<1> DEFINE T == S \cup Spelling \cup SignalNames \cup {OPEN, CLOSE, machine.agent}
           outcome == Classify(ExitCode)
<1>1. /\ S \subseteq T /\ Spelling \cup SignalNames \cup {OPEN, CLOSE} \subseteq T
      /\ machine.agent \in T
  BY Zenon
<1> HIDE DEF T
<1>2. machine.title \in Seq(T)
  <2>1. machine.title \in Seq(S)
    BY TitleIsText
  <2> QED
    BY <1>1, <2>1
<1>3. OutcomeMeant(outcome)
  BY OutcomeIsMeant
<1> HIDE DEF outcome
<1>4. cfg[outcome.kind] \in Seq(T)
  <2>1. {cfg.success, cfg.failure, cfg.signal, cfg.unknown} \subseteq Seq(S)
    <3>1. cfg = Load(file) /\ file \in Files
      BY DEF LoadedInv
    <3> QED
      BY <3>1, Zenon DEF SettingsSpelled
  <2>2. outcome.kind \in {"success", "failure", "signal", "unknown"}
    BY <1>3 DEF OutcomeMeant
  <2>3. cfg[outcome.kind] \in Seq(S)
    BY <2>1, <2>2
  <2> QED
    BY <1>1, <2>3
<1>5. asked \in Nat
  BY DEF TypeInv, TypeOK
<1>6. FinishLabel(outcome, asked) \in Seq(T)
  BY <1>1, <1>2, <1>3, <1>4, <1>5, LabelSpelled, Zenon
<1> QED
  BY <1>6, Zenon DEF LastLabel, outcome

(* What a record carries decodes to its text without its control           *)
(* characters, cut between two characters and no earlier than the cap      *)
(* requires, for lines and templates of any length and symbols of any      *)
(* bytes: the title, and the message, which is the title too or the label  *)
(* of how the command ended (RecordReads; osc.rs:22-30, 135-136,           *)
(* osc_watch.rs:242-254).                                                  *)
THEOREM RecordReadsHolds ==
  ASSUME NEW S, Symbols(S), LinesSpelled(S), SettingsSpelled(S)
  PROVE  Spec => []RecordReads
<1>1. Init => RowInv(S)
  BY RowInit
<1>2. RowInv(S) /\ TypeInv /\ [Next]_vars => RowInv(S)'
  BY RowNext
<1>3. RecordInv /\ RowInv(S) /\ LoadedInv /\ TypeInv => RecordReads
  <2> SUFFICES ASSUME RecordInv, RowInv(S), LoadedInv, TypeInv,
                      tty.pc = "opening", record.state # "clear"
               PROVE  /\ Carries(record.title, machine.title, MAX_TITLE_BYTES)
                      /\ record.state = "working" =>
                            Carries(record.msg, machine.title, MAX_MSG_BYTES)
                      /\ record.state # "working" =>
                            Carries(record.msg, LastLabel, MAX_MSG_BYTES)
    BY DEF RecordReads, MAX_TITLE_BYTES, MAX_MSG_BYTES, LastLabel
  <2>1. record.state # "none" /\ phase \notin {"prompt", "called"}
    BY DEF RecordInv
  <2>2. machine.title \in Seq(S)
    BY <2>1, TitleIsText
  <2>3. MAX_TITLE_BYTES \in Nat /\ MAX_MSG_BYTES \in Nat
    BY DEF MAX_TITLE_BYTES, MAX_MSG_BYTES
  <2>4. \A max \in Nat : Carries(Carrying(machine.title, max), machine.title, max)
    BY <2>2, Carried, Zenon DEF Carrying
  <2>5. ASSUME record.state # "working"
        PROVE  Carries(record.msg, LastLabel, MAX_MSG_BYTES)
    <3>1. phase = "finished" /\ record.msg = Carrying(LastLabel, MAX_MSG_BYTES)
          /\ status \in Statuses
      BY <2>1, <2>5 DEF RecordInv
    <3>2. PICK T : LastLabel \in Seq(T)
      BY <3>1, LastLabelIsText
    <3>3. Carries(Carrying(LastLabel, MAX_MSG_BYTES), LastLabel, MAX_MSG_BYTES)
      BY <2>3, <3>2, Carried, Zenon DEF Carrying
    <3> QED
      BY <3>1, <3>3
  <2> QED
    BY <2>1, <2>3, <2>4, <2>5 DEF RecordInv
<1> QED
  BY <1>1, <1>2, <1>3, RecordInit, RecordNext, LoadedInit, LoadedNext, WholeInit, TypeInit,
     TypeNext, TtyNext, PTL DEF Spec

(* A template that is `{cmd}` alone gives the title, whatever the command  *)
(* is made of, in the labels of the TUI and in the message of a record,    *)
(* that of the end included (CommandIsText; label.rs:53-83,                *)
(* osc_watch.rs:242-254).                                                  *)
THEOREM CommandIsTextHolds ==
  ASSUME NEW S, Symbols(S), LinesSpelled(S)
  PROVE  Spec => []CommandIsText
<1>1. Init => RowInv(S)
  BY RowInit
<1>2. RowInv(S) /\ TypeInv /\ [Next]_vars => RowInv(S)'
  BY RowNext
<1>3. RowInv(S) /\ RecordInv => CommandIsText
  <2> SUFFICES ASSUME RowInv(S), RecordInv, AllLiteral
               PROVE  /\ \A i \in DOMAIN wire :
                            wire[i].method = "report_metadata" => wire[i].label = machine.title
                      /\ tty.pc = "opening" /\ record.state # "clear" =>
                            Carries(record.msg, machine.title, MAX_MSG_BYTES)
    BY Zenon DEF CommandIsText, MAX_MSG_BYTES
  <2>1. ASSUME NEW i \in DOMAIN wire, wire[i].method = "report_metadata"
        PROVE  wire[i].label = machine.title
    BY <2>1, Zenon DEF RowInv, Request
  <2>2. ASSUME tty.pc = "opening", record.state # "clear"
        PROVE  Carries(record.msg, machine.title, MAX_MSG_BYTES)
    <3>1. record.state # "none" /\ phase \notin {"prompt", "called"}
      BY <2>2 DEF RecordInv
    <3>2. machine.title \in Seq(S)
      BY <3>1, TitleIsText
    <3>3. LastLabel = machine.title
      BY <3>2, LabelsLiteral, Zenon DEF LastLabel
    <3>4. record.msg = Carrying(machine.title, MAX_MSG_BYTES)
      BY <2>2, <3>1, <3>3 DEF RecordInv
    <3>5. MAX_MSG_BYTES \in Nat
      BY DEF MAX_MSG_BYTES
    <3>6. Carries(Carrying(machine.title, MAX_MSG_BYTES), machine.title, MAX_MSG_BYTES)
      BY <3>2, <3>5, Carried, Zenon DEF Carrying
    <3> QED
      BY <3>4, <3>6
  <2> QED
    BY <2>1, <2>2
<1> QED
  BY <1>1, <1>2, <1>3, RecordInit, RecordNext, WholeInit, TypeInit, TypeNext, TtyNext, PTL
  DEF Spec
=============================================================================
