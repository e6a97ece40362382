----------------------------- MODULE MCTextProofs -----------------------------
(***************************************************************************)
(* Proofs of the properties of MCText, for texts of any number of pieces:  *)
(* those about ini files follow from TextProofs; proved here are that the  *)
(* words of a page are counted as they occur, that links lead where they   *)
(* should, and that a search asks for the words that are written.          *)
(***************************************************************************)
EXTENDS MCText, TextProofs

(* The step of Without.                                                    *)
keep(chars, rest, c) == IF c \in chars THEN rest ELSE Append(rest, c)

(* It only collects characters.                                            *)
LEMMA KeepType ==
    ASSUME NEW C, NEW chars, NEW rest \in Seq(C), NEW c \in C
    PROVE  keep(chars, rest, c) \in Seq(C)
BY DEF keep

(* The fold goes through a text for every number of characters.            *)
LEMMA WithoutFold ==
    ASSUME NEW C, NEW s \in Seq(C), NEW chars
    PROVE  \E r : /\ r \in [0 .. Len(s) -> Seq(C)]
                  /\ r[0] = <<>>
                  /\ \A k \in 1 .. Len(s) : r[k] = keep(chars, r[k - 1], s[k])
                  /\ r[Len(s)] = Without(s, chars)
<1> DEFINE base == <<>>
           n == Len(s)
           A == Seq(C)
           F == [p \in A \X (1 .. n) |-> keep(chars, p[1], s[p[2]])]
           Solves(g) == g = [t \in SUBSET (1 .. n) |->
                                IF t = {} THEN base ELSE keep(chars, g[t \ {Max(t)}], s[Max(t)])]
           iter == CHOOSE g : Solves(g)
<1>1. n \in Nat /\ DOMAIN s = 1 .. n /\ \A i \in 1 .. n : s[i] \in C
  OBVIOUS
<1>2. F \in [A \X (1 .. n) -> A]
  BY <1>1, KeepType
<1>3. \A a \in A, i \in 1 .. n : F[<<a, i>>] = keep(chars, a, s[i])
  OBVIOUS
<1>4. base \in A
  OBVIOUS
<1> HIDE DEF n, A, F, base
<1>5. PICK g : Folds(g, A, base, n, F)
  BY <1>1, <1>2, <1>4, FoldIterates
<1>6. \A t \in SUBSET (1 .. n) : t # {} => Max(t) \in 1 .. n
  BY <1>1, MaxInRange
<1>7. Solves(g)
  BY <1>3, <1>5, <1>6 DEF Folds
<1>8. Solves(iter)
  BY <1>7
<1>9. Without(s, chars) = iter[1 .. n]
  BY <1>1 DEF Without, keep, FoldLeft, MapThenFoldSet, base
<1> HIDE DEF iter
<1>10. Recurs(iter, A, base, n, F)
  BY <1>3, <1>6, <1>8 DEF Recurs
<1>11. PICK r : IsRun(r, iter, A, base, n, F)
  BY <1>1, <1>2, <1>4, <1>10, FoldRuns
<1>12. \A k \in 1 .. n : r[k - 1] \in A /\ r[k] = keep(chars, r[k - 1], s[k])
  <2>1. \A k \in 1 .. n : k - 1 \in 0 .. n
    BY <1>1
  <2>2. QED
    BY <1>3, <1>11, <2>1 DEF IsRun, Iterates
<1>13. QED
  BY <1>9, <1>11, <1>12 DEF IsRun, Iterates, n, A, base

(* Without takes away the first character, if no other is among chars.     *)
LEMMA WithoutFirst ==
    ASSUME NEW C, NEW s \in Seq(C), s # <<>>, NEW chars, \A i \in 2 .. Len(s) : s[i] \notin chars
    PROVE  Without(s, chars) = IF s[1] \in chars THEN SubSeq(s, 2, Len(s)) ELSE s
<1> DEFINE n == Len(s)
           b == IF s[1] \in chars THEN 2 ELSE 1
<1>1. n \in Nat /\ n # 0 /\ b \in {1, 2} /\ (b = 2 <=> s[1] \in chars)
  OBVIOUS
<1>2. PICK r : /\ r \in [0 .. n -> Seq(C)]
               /\ r[0] = <<>>
               /\ \A k \in 1 .. n : r[k] = keep(chars, r[k - 1], s[k])
               /\ r[n] = Without(s, chars)
  BY WithoutFold
<1> HIDE DEF b
<1> DEFINE S == {k \in 0 .. n : r[k] = SubSeq(s, b, k)}
<1>3. 0 \in S
  <2>1. 0 < b /\ b \in Int /\ 0 \in 0 .. n
    BY <1>1
  <2>2. SubSeq(s, b, 0) = <<>>
    BY <2>1, SubSeqEmpty
  <2>3. QED
    BY <1>2, <2>1, <2>2
<1>4. ASSUME NEW k \in 0 .. n - 1, k \in S
      PROVE  k + 1 \in S
  <2>1. k \in Nat /\ k + 1 \in 0 .. n /\ k + 1 \in 1 .. n /\ (k + 1) - 1 = k
    BY <1>1
  <2>2. r[k + 1] = keep(chars, r[k], s[k + 1]) /\ r[k] = SubSeq(s, b, k)
    BY <1>2, <1>4, <2>1
  <2> HIDE DEF S
  <2>3. r[k + 1] = SubSeq(s, b, k + 1)
    <3>1. CASE k + 1 < b
      <4>1. k = 0 /\ b = 2 /\ k < b /\ b \in Int /\ k + 1 \in Int /\ k \in Int
        BY <1>1, <2>1, <3>1
      <4>2. SubSeq(s, b, k) = <<>> /\ SubSeq(s, b, k + 1) = <<>>
        BY <3>1, <4>1, SubSeqEmpty
      <4>3. s[k + 1] \in chars
        BY <1>1, <4>1
      <4>4. QED
        BY <2>2, <4>2, <4>3 DEF keep
    <3>2. CASE ~ (k + 1 < b)
      <4> DEFINE e == b - 1
      <4>1. e \in 0 .. k /\ e + 1 = b /\ k \in 0 .. Len(s) - 1
        BY <1>1, <2>1, <3>2
      <4> HIDE DEF e
      <4>2. SubSeq(s, e + 1, k + 1) = Append(SubSeq(s, e + 1, k), s[k + 1])
        BY <4>1, MiddleGrows
      <4>3. s[k + 1] \notin chars
        <5>1. CASE k = 0
          BY <1>1, <3>2, <5>1
        <5>2. CASE k # 0
          <6>1. k + 1 \in 2 .. Len(s)
            BY <2>1, <5>2
          <6>2. QED
            BY <6>1
        <5>3. QED
          BY <5>1, <5>2
      <4>4. QED
        BY <2>2, <4>1, <4>2, <4>3 DEF keep
    <3>3. QED
      BY <3>1, <3>2
  <2>4. QED
    BY <2>1, <2>3 DEF S
<1> HIDE DEF S
<1>5. n \in S
  <2>1. 0 .. n \subseteq S
    BY <1>1, <1>3, <1>4, RangeInduction
  <2>2. QED
    BY <1>1, <2>1
<1>6. Without(s, chars) = SubSeq(s, b, n)
  BY <1>2, <1>5 DEF S
<1>7. SubSeq(s, 1, Len(s)) = s
  BY SubSeqFull
<1>8. QED
  BY <1>6, <1>7 DEF b

(* The SMT backend cannot read this character either.                      *)
Space == " "

(* Where the word that the expression finds at i begins.                   *)
StartAt(s, i) == IF s[i] = Space THEN i + 1 ELSE i

(* w stands in s at j, from blank to blank.                                *)
StandsAt(s, w, j) ==
    /\ j \in 1 .. Len(s) - Len(w) + 1 /\ SubSeq(s, j, j + Len(w) - 1) = w
    /\ j = 1 \/ s[j - 1] = Space
    /\ j + Len(w) - 1 = Len(s) \/ s[j + Len(w)] = Space

(* A match takes the characters up to the next space.                      *)
LEMMA WordIs ==
    ASSUME NEW C, NEW s \in Seq(C), NEW i \in 1 .. Len(s)
    PROVE  \E m \in StartAt(s, i) - 1 .. Len(s) :
              /\ WordAt(s, i) = SubSeq(s, StartAt(s, i), m)
              /\ \A x \in StartAt(s, i) .. m : s[x] # Space
              /\ m < Len(s) => s[m + 1] = Space
<1> DEFINE n == Len(s)
           after == SubSeq(s, i + 1, n)
           part == Until(after, {Space})
           word == <<s[i]>> \o part
<1>1. n \in Nat /\ i \in Nat /\ 1 =< i /\ i =< n /\ i \in 0 .. Len(s) /\ s[i] \in C
  OBVIOUS
<1>2. after \in Seq(C) /\ Len(after) = n - i /\ \A k \in 1 .. n - i : after[k] = s[i + k]
  BY <1>1, SuffixIs
<1> HIDE DEF after
<1>3. PICK a \in 0 .. Len(after) :
              /\ part = SubSeq(after, 1, a)
              /\ \A k \in 1 .. a : after[k] \notin {Space}
              /\ a < Len(after) => after[a + 1] \in {Space}
  BY <1>2, UntilIs
<1>4. part \in Seq(C) /\ Len(part) = a /\ \A k \in 1 .. a : part[k] = after[k]
  <2> DEFINE p == SubSeq(after, 1, a)
  <2>1. p \in Seq(C) /\ Len(p) = a /\ \A k \in 1 .. a : p[k] = after[k]
    BY <1>2, PrefixIs
  <2>2. part = p
    BY <1>3
  <2> HIDE DEF part, p
  <2>3. QED
    BY <2>1, <2>2
<1> HIDE DEF part
<1>5. a \in Nat /\ a =< n - i /\ \A k \in 1 .. a : part[k] = s[i + k] /\ part[k] # Space
  BY <1>1, <1>2, <1>3, <1>4
<1>6. a < n - i => s[i + a + 1] = Space
  <2>1. ASSUME a < n - i
        PROVE  s[i + a + 1] = Space
    <3>1. a + 1 \in 1 .. n - i /\ i + (a + 1) = i + a + 1
      BY <1>1, <1>5, <2>1
    <3>2. QED
      BY <1>2, <1>3, <2>1, <3>1
  <2>2. QED
    BY <2>1
<1>7. word \in Seq(C) /\ Len(word) = a + 1 /\ word[1] = s[i] /\ \A k \in 1 .. a : word[k + 1] = part[k]
  BY <1>1, <1>4, <1>5
<1>8. WordAt(s, i) = Without(word, {Space})
  BY Zenon DEF WordAt, word, part, after, From, Space
<1> HIDE DEF word
<1>9. \A k \in 2 .. Len(word) : word[k] \notin {Space}
  <2>1. \A k \in 2 .. a + 1 : k - 1 \in 1 .. a /\ (k - 1) + 1 = k
    BY <1>5
  <2>2. \A k \in 1 .. a : part[k] \notin {Space}
    BY <1>5
  <2>3. ASSUME NEW k \in 2 .. a + 1
        PROVE  word[k] \notin {Space}
    <3>1. k - 1 \in 1 .. a /\ (k - 1) + 1 = k
      BY <2>1
    <3>2. word[k] = part[k - 1]
      BY <1>7, <3>1
    <3>3. QED
      BY <2>2, <3>1, <3>2
  <2>4. Len(word) = a + 1
    BY <1>7
  <2>5. QED
    BY <2>3, <2>4
<1>10. WordAt(s, i) = IF s[i] = Space THEN SubSeq(word, 2, a + 1) ELSE word
  <2>1. word # <<>>
    <3>1. Len(word) # 0
      BY <1>5, <1>7
    <3>2. QED
      BY <3>1
  <2>2. Without(word, {Space}) = IF word[1] \in {Space} THEN SubSeq(word, 2, Len(word)) ELSE word
    BY <1>7, <1>9, <2>1, WithoutFirst
  <2>3. QED
    BY <1>7, <1>8, <2>2
<1>11. word = SubSeq(s, i, i + a)
  <2> DEFINE p == SubSeq(s, i, i + a)
  <2>1. i \in Int /\ i + a \in Int /\ 1 =< i /\ i + a =< Len(s) /\ i =< i + a /\ (i + a) - i + 1 = a + 1
    BY <1>1, <1>5
  <2>2. p \in Seq(C) /\ Len(p) = a + 1 /\ \A k \in 1 .. a + 1 : p[k] = s[i + k - 1]
    <3> DEFINE j == i + a
    <3>1. i \in Int /\ j \in Int /\ 1 =< i /\ j =< Len(s) /\ i =< j /\ j - i + 1 = a + 1
      BY <2>1
    <3> HIDE DEF j
    <3>2. /\ SubSeq(s, i, j) \in Seq(C) /\ Len(SubSeq(s, i, j)) = IF i =< j THEN j - i + 1 ELSE 0
          /\ \A k \in 1 .. j - i + 1 : SubSeq(s, i, j)[k] = s[i + k - 1]
      BY <3>1, Cut
    <3>3. QED
      BY <3>1, <3>2 DEF j
  <2> HIDE DEF p
  <2>3. ASSUME NEW k \in 1 .. a + 1
        PROVE  p[k] = word[k]
    <3>1. CASE k = 1
      BY <1>1, <1>7, <2>2, <3>1
    <3>2. CASE k # 1
      <4> DEFINE h == k - 1
      <4>1. h \in 1 .. a /\ h + 1 = k /\ i + h = i + k - 1
        BY <1>1, <1>5, <3>2
      <4> HIDE DEF h
      <4>2. word[k] = part[h] /\ part[h] = s[i + h]
        BY <1>5, <1>7, <4>1
      <4>3. QED
        BY <2>2, <4>1, <4>2
    <3>3. QED
      BY <3>1, <3>2
  <2>4. p = word
    BY <1>7, <2>2, <2>3, SeqEqual
  <2>5. QED
    BY <2>4 DEF p
<1>12. \A x \in i + 1 .. i + a : s[x] # Space
  <2>1. \A x \in i + 1 .. i + a : x - i \in 1 .. a /\ i + (x - i) = x
    BY <1>1, <1>5
  <2>2. QED
    BY <1>5, <2>1
<1> DEFINE m == i + a
<1>13. m \in i .. n /\ m < n => a < n - i
  BY <1>1, <1>5
<1>14. m < n => s[m + 1] = Space
  BY <1>1, <1>5, <1>6
<1>15. CASE s[i] = Space
  <2>1. StartAt(s, i) = i + 1
    BY <1>15 DEF StartAt
  <2>2. SubSeq(word, 2, a + 1) = SubSeq(s, i + 1, m)
    <3>1. word \in Seq(C) /\ s \in Seq(C) /\ i \in 1 .. Len(s)
      BY <1>7
    <3>2. part = SubSeq(s, i + 1, m)
      <4> DEFINE e == i + 1
      <4>1. e \in 1 .. Len(s) + 1 /\ n \in e - 1 .. Len(s) /\ a \in 0 .. n - e + 1 /\ e + a - 1 = m
        BY <1>1, <1>5
      <4> HIDE DEF e
      <4>2. SubSeq(SubSeq(s, e, n), 1, a) = SubSeq(s, e, e + a - 1)
        BY <4>1, SubOfSub
      <4>3. QED
        BY <1>3, <4>1, <4>2 DEF after, e
    <3>3. <<s[i]>> \in Seq(C) /\ Len(<<s[i]>>) = 1
      BY <1>1
    <3>4. SubSeq(<<s[i]>> \o part, 1 + 1, 1 + a) = part
      BY <1>4, <3>3, TwoParts
    <3>5. 1 + 1 = 2 /\ 1 + a = a + 1
      BY <1>5
    <3>6. QED
      BY <3>2, <3>4, <3>5 DEF word
  <2>3. m \in (i + 1) - 1 .. n
    BY <1>1, <1>5
  <2>4. WordAt(s, i) = SubSeq(s, i + 1, m)
    BY <1>10, <1>15, <2>2
  <2> HIDE DEF m
  <2>5. QED
    BY <1>12, <1>14, <2>1, <2>3, <2>4 DEF m
<1>16. CASE s[i] # Space
  <2>1. StartAt(s, i) = i
    BY <1>16 DEF StartAt
  <2>2. m \in i - 1 .. n /\ \A x \in i .. m : x = i \/ x \in i + 1 .. i + a
    BY <1>1, <1>5
  <2>3. WordAt(s, i) = SubSeq(s, i, m)
    BY <1>10, <1>11, <1>16
  <2>4. \A x \in i .. m : s[x] # Space
    BY <1>12, <1>16, <2>2
  <2> HIDE DEF m
  <2>5. QED
    BY <1>14, <2>1, <2>2, <2>3, <2>4
<1>17. QED
  BY <1>15, <1>16

(* A match gives a word if the word stands behind the space it found.      *)
LEMMA FoundIsThere ==
    ASSUME NEW C, NEW s \in Seq(C), NEW i \in 1 .. Len(s),
           NEW w \in Seq(C), w # <<>>, \A k \in 1 .. Len(w) : w[k] # Space, i = 1 \/ s[i] = Space
    PROVE  WordAt(s, i) = w <=> StandsAt(s, w, StartAt(s, i))
<1> DEFINE n == Len(s)
           L == Len(w)
           j == StartAt(s, i)
<1>1. n \in Nat /\ i \in Nat /\ 1 =< i /\ i =< n /\ L \in Nat /\ L # 0
  OBVIOUS
<1>2. /\ j \in {i, i + 1} /\ j \in Nat /\ 1 =< j /\ j =< n + 1
      /\ j = 1 \/ s[j - 1] = Space
  <2>1. CASE s[i] = Space
    <3>1. j = i + 1 /\ (i + 1) - 1 = i
      BY <1>1, <2>1 DEF StartAt
    <3> HIDE DEF j
    <3>2. QED
      BY <1>1, <2>1, <3>1
  <2>2. CASE s[i] # Space
    <3>1. j = i
      BY <2>2 DEF StartAt
    <3> HIDE DEF j
    <3>2. QED
      BY <1>1, <2>2, <3>1
  <2>3. QED
    BY <2>1, <2>2
<1>3. PICK m \in j - 1 .. n : /\ WordAt(s, i) = SubSeq(s, j, m)
                              /\ \A x \in j .. m : s[x] # Space
                              /\ m < n => s[m + 1] = Space
  BY WordIs
<1> HIDE DEF j
<1>4. m \in Int /\ m =< n /\ j - 1 =< m
  BY <1>1, <1>2
<1>5. ASSUME WordAt(s, i) = w
      PROVE  StandsAt(s, w, j)
  <2>1. L = m - j + 1
    <3>1. Len(SubSeq(s, j, m)) = IF j =< m THEN m - j + 1 ELSE 0
      BY <1>2, <1>4, Cut
    <3>2. QED
      BY <1>1, <1>2, <1>3, <1>4, <1>5, <3>1
  <2>2. /\ j \in 1 .. n - L + 1 /\ j + L - 1 = m /\ j + L = m + 1 /\ (j + L - 1 = n \/ m < n)
    BY <1>1, <1>2, <1>4, <2>1
  <2>3. QED
    BY <1>2, <1>3, <1>5, <2>2 DEF StandsAt
<1>6. ASSUME StandsAt(s, w, j)
      PROVE  WordAt(s, i) = w
  <2>1. /\ j \in 1 .. n - L + 1 /\ SubSeq(s, j, j + L - 1) = w
        /\ j + L - 1 = n \/ s[j + L] = Space
    BY <1>6 DEF StandsAt
  <2>2. \A k \in 1 .. L : w[k] = s[j + k - 1]
    <3> DEFINE h == j + L - 1
    <3>1. h \in Int /\ h =< Len(s) /\ h - j + 1 = L /\ j \in Int /\ 1 =< j
      BY <1>1, <1>2, <2>1
    <3> HIDE DEF h
    <3>2. \A k \in 1 .. h - j + 1 : SubSeq(s, j, h)[k] = s[j + k - 1]
      BY <3>1, Cut
    <3>3. QED
      BY <2>1, <3>1, <3>2 DEF h
  <2>3. \A x \in j .. j + L - 1 : s[x] # Space
    <3>1. \A x \in j .. j + L - 1 : x - j + 1 \in 1 .. L /\ j + (x - j + 1) - 1 = x
      BY <1>1, <1>2
    <3>2. QED
      BY <1>6, <2>2, <3>1
  <2>4. m = j + L - 1
    <3>1. ~ (m < j + L - 1)
      <4>1. m < j + L - 1 => m < n /\ m + 1 \in j .. j + L - 1
        BY <1>1, <1>2, <1>4, <2>1
      <4>2. QED
        BY <1>3, <2>3, <4>1
    <3>2. ~ (j + L - 1 < m)
      <4>1. j + L - 1 < m => j + L \in j .. m /\ j + L - 1 # n
        BY <1>1, <1>2, <1>4, <2>1
      <4>2. QED
        BY <1>3, <2>1, <4>1
    <3>3. QED
      BY <1>1, <1>2, <1>4, <3>1, <3>2
  <2>5. QED
    BY <1>3, <2>1, <2>4
<1>7. QED
  BY <1>5, <1>6 DEF j

(* As many matches of the expression give a word as it stands in the text. *)
LEMMA FoundAsOften ==
    ASSUME NEW C, NEW s \in Seq(C), NEW w \in Seq(C), w # <<>>, \A k \in 1 .. Len(w) : w[k] # Space
    PROVE  LET found == {i \in Matches(s) : WordAt(s, i) = w}
               there == {j \in 1 .. Len(s) - Len(w) + 1 : StandsAt(s, w, j)}
           IN Cardinality(found) = Cardinality(there) /\ (there # {} <=> found # {})
<1> DEFINE n == Len(s)
           found == {i \in Matches(s) : WordAt(s, i) = w}
           there == {j \in 1 .. Len(s) - Len(w) + 1 : StandsAt(s, w, j)}
           f == [i \in found |-> StartAt(s, i)]
<1>1. n \in Nat /\ Len(w) \in Nat /\ Len(w) # 0
  OBVIOUS
<1>2. Matches(s) = {i \in 1 .. n : i = 1 \/ s[i] = Space}
  <2>1. DOMAIN s = 1 .. n
    OBVIOUS
  <2>2. Matches(s) = {i \in DOMAIN s : i = 1 \/ s[i] = Space}
    BY Zenon DEF Matches, Space
  <2>3. QED
    BY <2>1, <2>2
<1>3. \A j : StandsAt(s, w, j) => j \in 1 .. Len(s) - Len(w) + 1
  BY DEF StandsAt
<1>4. \A i \in found : i \in 1 .. n /\ (i = 1 \/ s[i] = Space) /\ StandsAt(s, w, StartAt(s, i))
  <2>1. ASSUME NEW i \in found
        PROVE  i \in 1 .. n /\ (i = 1 \/ s[i] = Space) /\ StandsAt(s, w, StartAt(s, i))
    <3>1. i \in 1 .. n /\ (i = 1 \/ s[i] = Space) /\ WordAt(s, i) = w
      BY <1>2
    <3>2. QED
      BY <3>1, FoundIsThere
  <2>2. QED
    BY <2>1
<1>5. f \in [found -> there]
  BY <1>3, <1>4
<1>6. ASSUME NEW a \in found, NEW b \in found, f[a] = f[b]
      PROVE  a = b
  <2>1. StartAt(s, a) = StartAt(s, b) /\ a \in 1 .. n /\ b \in 1 .. n
        /\ (a = 1 \/ s[a] = Space) /\ (b = 1 \/ s[b] = Space)
    BY <1>4, <1>6
  <2> HIDE DEF found, f
  <2>2. CASE s[a] = Space /\ s[b] # Space
    <3>1. a + 1 = b /\ b = 1
      BY <2>1, <2>2 DEF StartAt
    <3>2. QED
      BY <1>1, <2>1, <3>1
  <2>3. CASE s[a] # Space /\ s[b] = Space
    <3>1. a = b + 1 /\ a = 1
      BY <2>1, <2>3 DEF StartAt
    <3>2. QED
      BY <1>1, <2>1, <3>1
  <2>4. CASE s[a] = Space <=> s[b] = Space
    BY <1>1, <2>1, <2>4 DEF StartAt
  <2>5. QED
    BY <2>2, <2>3, <2>4
<1>7. ASSUME NEW j \in there
      PROVE  \E i \in found : f[i] = j
  <2>1. /\ j \in 1 .. n - Len(w) + 1 /\ SubSeq(s, j, j + Len(w) - 1) = w
        /\ j = 1 \/ s[j - 1] = Space
    BY DEF StandsAt
  <2>2. s[j] # Space /\ j \in 1 .. n
    <3> DEFINE h == j + Len(w) - 1
    <3>1. h \in Int /\ h =< Len(s) /\ h - j + 1 = Len(w) /\ j \in Int /\ 1 =< j /\ j + 1 - 1 = j /\ 1 \in 1 .. Len(w) /\ j \in 1 .. n
      BY <1>1, <2>1
    <3> HIDE DEF h
    <3>2. \A k \in 1 .. h - j + 1 : SubSeq(s, j, h)[k] = s[j + k - 1]
      BY <3>1, Cut
    <3>3. w[1] = s[j + 1 - 1]
      BY <2>1, <3>1, <3>2 DEF h
    <3>4. QED
      BY <3>1, <3>3
  <2>3. \E i \in 1 .. n : (i = 1 \/ s[i] = Space) /\ StartAt(s, i) = j
    <3>1. CASE j = 1
      BY <2>2, <3>1 DEF StartAt
    <3>2. CASE j # 1
      <4>1. j - 1 \in 1 .. n /\ (j - 1) + 1 = j
        BY <1>1, <2>2, <3>2
      <4>2. s[j - 1] = Space
        BY <2>1, <3>2
      <4>3. StartAt(s, j - 1) = j
        BY <4>1, <4>2 DEF StartAt
      <4>4. QED
        BY <4>1, <4>2, <4>3
    <3>3. QED
      BY <3>1, <3>2
  <2>4. PICK i \in 1 .. n : (i = 1 \/ s[i] = Space) /\ StartAt(s, i) = j
    BY <2>3
  <2>5. WordAt(s, i) = w
    BY <2>4, FoundIsThere
  <2>6. i \in found
    BY <1>2, <2>4, <2>5
  <2>7. QED
    BY <2>4, <2>6
<1>8. IsFiniteSet(found)
  <2>1. IsFiniteSet(1 .. n)
    BY <1>1, FS_Interval
  <2>2. found \in SUBSET (1 .. n)
    BY <1>2
  <2> HIDE DEF found
  <2>3. QED
    BY <2>1, <2>2, FS_Subset
<1> HIDE DEF found, there, f
<1>9. ExistsBijection(found, there)
  BY <1>5, <1>6, <1>7 DEF ExistsBijection, Bijection, Injection, Surjection, IsInjective
<1>10. Cardinality(found) = Cardinality(there)
  BY <1>8, <1>9, FS_Bijection
<1>11. there # {} <=> found # {}
  BY <1>5, <1>7
<1>12. QED
  BY <1>10, <1>11 DEF found, there

(* The property of MCText for any alphabet and limits: the expression      *)
(* finds a word of the right length as often as it stands between spaces   *)
(* in the page, and finds no other word.                                   *)
THEOREM WordsOf ==
    ASSUME NEW C, NEW str \in Seq(C), NEW min_len \in Nat, NEW max_len \in Nat
    PROVE  WordsAreCounted(str, min_len, max_len)
<1> DEFINE n == Len(str)
           words == collect_words(str, min_len, max_len)
           given == {w \in {WordAt(str, i) : i \in Matches(str)} : Len(w) >= min_len /\ Len(w) =< max_len}
           found(w) == {i \in Matches(str) : WordAt(str, i) = w}
           there(w) == {j \in 1 .. Len(str) - Len(w) + 1 : StandsAt(str, w, j)}
           Occurs(w) == {i \in 1 .. Len(str) - Len(w) + 1 :
                           /\ SubSeq(str, i, i + Len(w) - 1) = w
                           /\ i = 1 \/ str[i - 1] = Space
                           /\ i + Len(w) - 1 = Len(str) \/ str[i + Len(w)] = Space}
<1>1. WordsAreCounted(str, min_len, max_len) <=>
         \A w \in SubSeqs(str) \ {<<>>} :
            IF ~ HasAnyOf(w, {Space}) /\ Len(w) \in min_len .. max_len /\ Occurs(w) # {}
            THEN w \in DOMAIN words /\ words[w] = Cardinality(Occurs(w))
            ELSE w \notin DOMAIN words
  BY Zenon DEF WordsAreCounted, Space
<1>2. words = [w \in given |-> Cardinality(found(w))]
  BY DEF collect_words
<1>3. n \in Nat /\ DOMAIN str = 1 .. n
  OBVIOUS
<1>4. \A w : Occurs(w) = there(w)
  BY DEF StandsAt
<1>5. \A w : w \in given <=> found(w) # {} /\ Len(w) >= min_len /\ Len(w) =< max_len
  OBVIOUS
<1>6. ASSUME NEW i \in Matches(str)
      PROVE  WordAt(str, i) \in Seq(C) /\ \A k \in 1 .. Len(WordAt(str, i)) : WordAt(str, i)[k] # Space
  <2> DEFINE j == StartAt(str, i)
  <2>1. i \in 1 .. n
    BY <1>3 DEF Matches
  <2>2. j \in Int /\ 1 =< j /\ j =< n + 1
    BY <1>3, <2>1 DEF StartAt
  <2>3. PICK m \in j - 1 .. n : /\ WordAt(str, i) = SubSeq(str, j, m)
                                /\ \A x \in j .. m : str[x] # Space
    BY <2>1, WordIs
  <2> HIDE DEF j
  <2>4. m \in Int /\ m =< Len(str)
    BY <1>3, <2>2
  <2>5. /\ SubSeq(str, j, m) \in Seq(C)
        /\ Len(SubSeq(str, j, m)) = IF j =< m THEN m - j + 1 ELSE 0
        /\ \A k \in 1 .. m - j + 1 : SubSeq(str, j, m)[k] = str[j + k - 1]
    BY <2>2, <2>4, Cut
  <2> DEFINE p == SubSeq(str, j, m)
  <2> HIDE DEF p
  <2>6. ASSUME NEW k \in 1 .. Len(p)
        PROVE  p[k] # Space
    <3>1. k \in 1 .. m - j + 1 /\ j + k - 1 \in j .. m
      BY <2>2, <2>4, <2>5 DEF p
    <3>2. QED
      BY <2>3, <2>5, <3>1 DEF p
  <2>7. QED
    BY <2>3, <2>5, <2>6 DEF p
<1> HIDE DEF words, given, Occurs
<1>7. ASSUME NEW w \in SubSeqs(str) \ {<<>>}
      PROVE  IF ~ HasAnyOf(w, {Space}) /\ Len(w) \in min_len .. max_len /\ Occurs(w) # {}
             THEN w \in DOMAIN words /\ words[w] = Cardinality(Occurs(w))
             ELSE w \notin DOMAIN words
  <2>1. w \in Seq(C) /\ w # <<>> /\ Len(w) \in Nat
    BY PartsOf
  <2>2. HasAnyOf(w, {Space}) <=> \E k \in 1 .. Len(w) : w[k] = Space
    <3>1. HasAnyOf(w, {Space}) <=> \E k \in 1 .. Len(w) : w[k] \in {Space}
      BY <2>1, HasOne
    <3>2. QED
      BY <3>1
  <2>3. DOMAIN words = given /\ (w \in given => words[w] = Cardinality(found(w)))
    BY <1>2
  <2>4. Len(w) \in min_len .. max_len <=> Len(w) >= min_len /\ Len(w) =< max_len
    BY <2>1
  <2>5. CASE \A k \in 1 .. Len(w) : w[k] # Space
    <3>1. Cardinality(found(w)) = Cardinality(there(w)) /\ (there(w) # {} <=> found(w) # {})
      BY <2>1, <2>5, FoundAsOften, SMTT(30)
    <3> HIDE DEF found, there
    <3>2. QED
      BY <1>4, <1>5, <2>2, <2>3, <2>4, <2>5, <3>1
  <2>6. CASE ~ \A k \in 1 .. Len(w) : w[k] # Space
    <3>1. found(w) = {}
      BY <1>6, <2>6
    <3> HIDE DEF found, there
    <3>2. QED
      BY <1>5, <2>2, <2>3, <2>6, <3>1
  <2>7. QED
    BY <2>5, <2>6
<1>8. QED
  BY <1>1, <1>7

-------------------------------------------------------------------------------
(* The addresses of links.                                                 *)

(* part stands in str at i.                                                *)
OccursAt(str, part, i) ==
    /\ i \in 1 .. Len(str) - Len(part) + 1
    /\ \A k \in 1 .. Len(part) : str[i + k - 1] = part[k]

(* find of any string: its first place, or 0 if it is nowhere.             *)
LEMMA FindIs ==
    ASSUME NEW C, NEW str \in Seq(C), NEW part \in Seq(C)
    PROVE  LET f == find(str, part)
           IN /\ f \in Nat
              /\ f = 0 => \A i : ~ OccursAt(str, part, i)
              /\ f # 0 => OccursAt(str, part, f) /\ \A i : OccursAt(str, part, i) => f =< i
<1> DEFINE n == Len(str)
           L == Len(part)
           places == {i \in 1 .. n - L + 1 : SubSeq(str, i, i + L - 1) = part}
<1>1. n \in Nat /\ L \in Nat
  OBVIOUS
<1>2. ASSUME NEW i \in 1 .. n - L + 1
      PROVE  SubSeq(str, i, i + L - 1) = part <=> OccursAt(str, part, i)
  <2> DEFINE j == i + L - 1
             p == SubSeq(str, i, j)
  <2>1. i \in Int /\ j \in Int /\ 1 =< i /\ j =< n /\ j - i + 1 = L /\ (i =< j \/ L = 0)
    BY <1>1
  <2> HIDE DEF j
  <2>2. p \in Seq(C) /\ Len(p) = (IF i =< j THEN j - i + 1 ELSE 0) /\ \A k \in 1 .. j - i + 1 : p[k] = str[i + k - 1]
    BY <2>1, Cut
  <2> HIDE DEF p
  <2>3. p \in Seq(C) /\ Len(p) = L /\ \A k \in 1 .. L : p[k] = str[i + k - 1]
    BY <2>1, <2>2
  <2>4. p = part <=> \A k \in 1 .. L : p[k] = part[k]
    BY <2>3, SeqEqual
  <2>5. p = part <=> \A k \in 1 .. L : str[i + k - 1] = part[k]
    BY <2>3, <2>4
  <2>6. QED
    BY <2>5 DEF OccursAt, p, j
<1>3. \A i : i \in places <=> OccursAt(str, part, i)
  BY <1>2 DEF OccursAt
<1>4. find(str, part) = IF places = {} THEN 0 ELSE Min(places)
  BY DEF find
<1>5. places \subseteq Nat /\ \A i \in places : i # 0
  OBVIOUS
<1> HIDE DEF places
<1>6. CASE places = {}
  BY <1>3, <1>4, <1>6
<1>7. CASE places # {}
  <2>1. Min(places) \in places /\ \A x \in places : Min(places) =< x
    BY <1>5, <1>7, LeastOf
  <2>2. QED
    BY <1>3, <1>4, <1>5, <1>7, <2>1
<1>8. QED
  BY <1>6, <1>7

(* BeginsWith and Has, by the places of a text.                            *)
LEMMA BeginsIs ==
    ASSUME NEW C, NEW str \in Seq(C), NEW part \in Seq(C)
    PROVE  /\ BeginsWith(str, part) <=> OccursAt(str, part, 1)
           /\ BeginsWith(str, part) <=> Len(part) =< Len(str) /\ \A k \in 1 .. Len(part) : str[k] = part[k]
           /\ Has(str, part) <=> \E i : OccursAt(str, part, i)
<1> DEFINE f == find(str, part)
<1>1. /\ f \in Nat
      /\ f = 0 => \A i : ~ OccursAt(str, part, i)
      /\ f # 0 => OccursAt(str, part, f) /\ \A i : OccursAt(str, part, i) => f =< i
  BY FindIs
<1>2. BeginsWith(str, part) <=> f = 1
  BY DEF BeginsWith
<1>3. Has(str, part) <=> f # 0
  BY DEF Has
<1> HIDE DEF f
<1>4. \A i : OccursAt(str, part, i) => i \in Int /\ 1 =< i
  BY DEF OccursAt
<1>5. Len(str) \in Nat /\ Len(part) \in Nat
  OBVIOUS
<1>6. OccursAt(str, part, 1) <=> Len(part) =< Len(str) /\ \A k \in 1 .. Len(part) : str[k] = part[k]
  <2>1. \A k \in 1 .. Len(part) : 1 + k - 1 = k
    BY <1>5
  <2>2. 1 \in 1 .. Len(str) - Len(part) + 1 <=> Len(part) =< Len(str)
    BY <1>5
  <2>3. QED
    BY <2>1, <2>2 DEF OccursAt
<1>7. f = 1 <=> OccursAt(str, part, 1)
  BY <1>1, <1>4
<1>8. QED
  BY <1>1, <1>2, <1>3, <1>6, <1>7

(* The characters of the schemes, one by one.                              *)
LEMMA SchemeIs ==
    /\ Len(Http) = 7 /\ Len(Https) = 8 /\ Len(Www) = 4
    /\ Http[5] = ":" /\ Http[6] = "/" /\ Http[7] = "/"
    /\ Https[5] = "s" /\ Https[6] = ":" /\ Https[7] = "/" /\ Https[8] = "/"
    /\ Www[1] = "w" /\ Http[1] = "h" /\ Https[1] = "h"
BY DEF Http, Https, Www

(* What DropSlash leaves.                                                  *)
LEMMA DropIs ==
    ASSUME NEW C, NEW str \in Seq(C)
    PROVE  \E m \in 0 .. Len(str) :
              /\ DropSlash(str) = SubSeq(str, 1, m)
              /\ m \in {Len(str) - 1, Len(str)}
              /\ m = Len(str) - 1 => str[Len(str)] = "/"
              /\ m = Len(str) /\ m # 0 => str[m] # "/"
<1>1. Len(str) \in Nat /\ (str # <<>> => Len(str) # 0)
  OBVIOUS
<1>2. CASE str # <<>> /\ Last(str) = "/"
  <2>1. DropSlash(str) = SubSeq(str, 1, Len(str) - 1) /\ str[Len(str)] = "/"
    BY <1>2 DEF DropSlash, Front, Last
  <2>2. Len(str) - 1 \in 0 .. Len(str) /\ Len(str) - 1 # Len(str)
    BY <1>1, <1>2
  <2>3. QED
    BY <2>1, <2>2
<1>3. CASE ~ (str # <<>> /\ Last(str) = "/")
  <2>1. DropSlash(str) = SubSeq(str, 1, Len(str))
    BY <1>3, SubSeqFull DEF DropSlash
  <2>2. QED
    BY <1>1, <1>3, <2>1 DEF Last
<1>4. QED
  BY <1>2, <1>3

(* The step of Collapse.                                                   *)
once(char, done, c) == IF c = char /\ done # <<>> /\ Last(done) = char THEN done ELSE Append(done, c)

(* It only collects characters.                                            *)
LEMMA OnceType ==
    ASSUME NEW C, NEW char, NEW done \in Seq(C), NEW c \in C
    PROVE  once(char, done, c) \in Seq(C)
BY DEF once

(* The fold goes through a text for every number of characters.            *)
LEMMA CollapseFold ==
    ASSUME NEW C, NEW s \in Seq(C), NEW char
    PROVE  \E r : /\ r \in [0 .. Len(s) -> Seq(C)]
                  /\ r[0] = <<>>
                  /\ \A k \in 1 .. Len(s) : r[k] = once(char, r[k - 1], s[k])
                  /\ r[Len(s)] = Collapse(s, char)
<1> DEFINE base == <<>>
           n == Len(s)
           A == Seq(C)
           F == [p \in A \X (1 .. n) |-> once(char, p[1], s[p[2]])]
           Solves(g) == g = [t \in SUBSET (1 .. n) |->
                                IF t = {} THEN base ELSE once(char, g[t \ {Max(t)}], s[Max(t)])]
           iter == CHOOSE g : Solves(g)
<1>1. n \in Nat /\ DOMAIN s = 1 .. n /\ \A i \in 1 .. n : s[i] \in C
  OBVIOUS
<1>2. F \in [A \X (1 .. n) -> A]
  BY <1>1, OnceType
<1>3. \A a \in A, i \in 1 .. n : F[<<a, i>>] = once(char, a, s[i])
  OBVIOUS
<1>4. base \in A
  OBVIOUS
<1> HIDE DEF n, A, F, base
<1>5. PICK g : Folds(g, A, base, n, F)
  BY <1>1, <1>2, <1>4, FoldIterates
<1>6. \A t \in SUBSET (1 .. n) : t # {} => Max(t) \in 1 .. n
  BY <1>1, MaxInRange
<1>7. Solves(g)
  BY <1>3, <1>5, <1>6 DEF Folds
<1>8. Solves(iter)
  BY <1>7
<1>9. Collapse(s, char) = iter[1 .. n]
  BY <1>1 DEF Collapse, once, FoldLeft, MapThenFoldSet, base
<1> HIDE DEF iter
<1>10. Recurs(iter, A, base, n, F)
  BY <1>3, <1>6, <1>8 DEF Recurs
<1>11. PICK r : IsRun(r, iter, A, base, n, F)
  BY <1>1, <1>2, <1>4, <1>10, FoldRuns
<1>12. \A k \in 1 .. n : r[k - 1] \in A /\ r[k] = once(char, r[k - 1], s[k])
  <2>1. \A k \in 1 .. n : k - 1 \in 0 .. n
    BY <1>1
  <2>2. QED
    BY <1>3, <1>11, <2>1 DEF IsRun, Iterates
<1>13. QED
  BY <1>9, <1>11, <1>12 DEF IsRun, Iterates, n, A, base

(* What Collapse has made of the first k characters.                       *)
Collapsed(s, char, k, done) ==
    /\ Len(done) =< k
    /\ \A i \in 1 .. Len(done) : \E j \in 1 .. k : done[i] = s[j]
    /\ \A i \in 1 .. Len(done) - 1 : ~ (done[i] = char /\ done[i + 1] = char)
    /\ \A h \in 0 .. k - 1 : (\A i \in 1 .. h : s[i] # char) =>
           h + 1 =< Len(done) /\ \A i \in 1 .. h + 1 : done[i] = s[i]

(* A step keeps to that.                                                   *)
LEMMA CollapseStep ==
    ASSUME NEW C, NEW s \in Seq(C), NEW char, NEW k \in 0 .. Len(s) - 1, NEW done \in Seq(C),
           Collapsed(s, char, k, done)
    PROVE  Collapsed(s, char, k + 1, once(char, done, s[k + 1]))
<1> DEFINE c == s[k + 1]
           L == Len(done)
           next == once(char, done, c)
<1>1. /\ k \in Nat /\ L \in Nat /\ L =< k /\ k + 1 \in 1 .. k + 1 /\ 1 .. k \subseteq 1 .. k + 1
      /\ k + 1 \in 1 .. Len(s) /\ c \in C
  BY DEF Collapsed
<1>2. CASE c = char /\ done # <<>> /\ Last(done) = char
  <2>1. next = done
    BY <1>2 DEF once
  <2>2. L # 0 /\ done[L] = char
    BY <1>2 DEF Last
  <2>3. ASSUME NEW h \in 0 .. (k + 1) - 1, \A i \in 1 .. h : s[i] # char
        PROVE  h + 1 =< L /\ \A i \in 1 .. h + 1 : done[i] = s[i]
    <3>1. CASE h = k
      <4>1. k # 0 /\ k - 1 \in 0 .. k - 1 /\ k \in 1 .. h /\ (k - 1) + 1 = k
        BY <1>1, <2>2, <3>1
      <4>2. \A i \in 1 .. k - 1 : s[i] # char
        BY <2>3, <3>1, <1>1
      <4>3. k =< L /\ \A i \in 1 .. k : done[i] = s[i]
        BY <4>1, <4>2 DEF Collapsed
      <4>4. L = k /\ done[k] = s[k]
        BY <1>1, <4>1, <4>3
      <4>5. QED
        BY <2>2, <2>3, <4>1, <4>4
    <3>2. CASE h # k
      <4>1. h \in 0 .. k - 1
        BY <1>1, <3>2
      <4>2. QED
        BY <2>3, <4>1 DEF Collapsed
    <3>3. QED
      BY <3>1, <3>2
  <2>4. QED
    BY <1>1, <2>1, <2>3 DEF Collapsed
<1>3. CASE ~ (c = char /\ done # <<>> /\ Last(done) = char)
  <2>1. next = Append(done, c)
    BY <1>3 DEF once
  <2>2. /\ next \in Seq(C) /\ Len(next) = L + 1 /\ next[L + 1] = c
        /\ \A i \in 1 .. L : next[i] = done[i]
    BY <1>1, <2>1
  <2> HIDE DEF next
  <2>3. ASSUME NEW i \in 1 .. L + 1
        PROVE  \E j \in 1 .. k + 1 : next[i] = s[j]
    <3>1. CASE i = L + 1
      BY <1>1, <2>2, <3>1
    <3>2. CASE i # L + 1
      <4>1. i \in 1 .. L
        BY <1>1, <3>2
      <4>2. QED
        BY <1>1, <2>2, <4>1 DEF Collapsed
    <3>3. QED
      BY <3>1, <3>2
  <2>4. ASSUME NEW i \in 1 .. (L + 1) - 1
        PROVE  ~ (next[i] = char /\ next[i + 1] = char)
    <3>1. i \in 1 .. L
      BY <1>1
    <3>2. CASE i = L
      <4>1. done # <<>> /\ next[i] = Last(done) /\ next[i + 1] = c
        BY <1>1, <2>2, <3>1, <3>2 DEF Last
      <4>2. QED
        BY <1>3, <4>1
    <3>3. CASE i # L
      <4>1. i \in 1 .. L - 1 /\ i + 1 \in 1 .. L
        BY <1>1, <3>1, <3>3
      <4>2. QED
        BY <2>2, <3>1, <4>1 DEF Collapsed
    <3>4. QED
      BY <3>2, <3>3
  <2>5. ASSUME NEW h \in 0 .. (k + 1) - 1, \A i \in 1 .. h : s[i] # char
        PROVE  h + 1 =< L + 1 /\ \A i \in 1 .. h + 1 : next[i] = s[i]
    <3>1. CASE h = k
      <4>1. L = k /\ \A i \in 1 .. k : done[i] = s[i]
        <5>1. CASE k = 0
          BY <1>1, <5>1
        <5>2. CASE k # 0
          <6>1. k - 1 \in 0 .. k - 1 /\ (k - 1) + 1 = k
            BY <1>1, <5>2
          <6>2. \A i \in 1 .. k - 1 : s[i] # char
            BY <2>5, <3>1, <1>1
          <6>3. k =< L /\ \A i \in 1 .. k : done[i] = s[i]
            BY <6>1, <6>2 DEF Collapsed
          <6>4. QED
            BY <1>1, <6>3
        <5>3. QED
          BY <5>1, <5>2
      <4>2. QED
        BY <1>1, <2>2, <3>1, <4>1
    <3>2. CASE h # k
      <4>1. h \in 0 .. k - 1
        BY <1>1, <3>2
      <4>2. h + 1 =< L /\ \A i \in 1 .. h + 1 : done[i] = s[i]
        BY <2>5, <4>1 DEF Collapsed
      <4>3. QED
        BY <1>1, <2>2, <4>1, <4>2
    <3>3. QED
      BY <3>1, <3>2
  <2>6. Len(next) =< k + 1
    BY <1>1, <2>2
  <2> HIDE DEF c, L
  <2>7. Collapsed(s, char, k + 1, next)
    BY <2>2, <2>3, <2>4, <2>5, <2>6 DEF Collapsed
  <2>8. QED
    BY <2>7 DEF next, c
<1>4. QED
  BY <1>2, <1>3

(* What Collapse returns: it puts nothing in, leaves no two of the         *)
(* characters side by side, and keeps everything up to the first.          *)
LEMMA CollapseIs ==
    ASSUME NEW C, NEW s \in Seq(C), NEW char
    PROVE  Collapse(s, char) \in Seq(C) /\ Collapsed(s, char, Len(s), Collapse(s, char))
<1> DEFINE n == Len(s)
<1>1. PICK r : /\ r \in [0 .. n -> Seq(C)]
               /\ r[0] = <<>>
               /\ \A k \in 1 .. n : r[k] = once(char, r[k - 1], s[k])
               /\ r[n] = Collapse(s, char)
  BY CollapseFold
<1>2. n \in Nat
  OBVIOUS
<1> DEFINE S == {k \in 0 .. n : Collapsed(s, char, k, r[k])}
<1>3. 0 \in S
  BY <1>1, <1>2 DEF Collapsed
<1>4. ASSUME NEW k \in 0 .. n - 1, k \in S
      PROVE  k + 1 \in S
  <2>1. k + 1 \in 0 .. n /\ k + 1 \in 1 .. n /\ (k + 1) - 1 = k /\ k \in 0 .. n
    BY <1>2
  <2>2. r[k + 1] = once(char, r[k], s[k + 1]) /\ r[k] \in Seq(C) /\ Collapsed(s, char, k, r[k])
    BY <1>1, <1>4, <2>1
  <2> HIDE DEF S
  <2>3. Collapsed(s, char, k + 1, r[k + 1])
    BY <2>2, CollapseStep
  <2>4. QED
    BY <2>1, <2>3 DEF S
<1> HIDE DEF S
<1>5. 0 .. n \subseteq S
  BY <1>2, <1>3, <1>4, RangeInduction
<1>6. n \in S /\ n \in 0 .. n
  BY <1>2, <1>5
<1>7. QED
  BY <1>1, <1>6 DEF S

(* An alphabet in which addresses are written.                             *)
WritesAddresses(C) == {"h", "t", "p", "s", ":", "/", "w", "."} \subseteq C

(* The strings that are searched for are written in it.                    *)
LEMMA SchemeType ==
    ASSUME NEW C, WritesAddresses(C)
    PROVE  Http \in Seq(C) /\ Https \in Seq(C) /\ Www \in Seq(C)
BY DEF WritesAddresses, Http, Https, Www

(* What http_prefix finds, somewhere in a text that is as long.            *)
LEMMA PrefixFits ==
    ASSUME NEW C, WritesAddresses(C), NEW s \in Seq(C)
    PROVE  /\ http_prefix(s) \in Seq(C) /\ Len(http_prefix(s)) \in 0 .. Len(s)
           /\ http_prefix(s) \in {Https, Http, <<>>}
           /\ http_prefix(s) = Https <=> \E i : OccursAt(s, Https, i)
           /\ http_prefix(s) # <<>> <=> \E i : OccursAt(s, Https, i) \/ OccursAt(s, Http, i)
<1>1. Http \in Seq(C) /\ Https \in Seq(C)
  BY SchemeType
<1>2. /\ Has(s, Https) <=> \E i : OccursAt(s, Https, i)
      /\ Has(s, Http) <=> \E i : OccursAt(s, Http, i)
  BY <1>1, BeginsIs
<1>3. Http # Https /\ Http # <<>> /\ Https # <<>> /\ <<>> \in Seq(C) /\ Len(<<>>) = 0
  <2>1. Http # Https
    BY SchemeIs
  <2>2. Http # <<>> /\ Https # <<>>
    BY DEF Http, Https
  <2>3. QED
    BY <2>1, <2>2
<1>4. \A part \in {Http, Https} : (\E i : OccursAt(s, part, i)) => Len(part) \in 0 .. Len(s)
  <2>1. ASSUME NEW part \in {Http, Https}, NEW i, OccursAt(s, part, i)
        PROVE  Len(part) \in 0 .. Len(s)
    <3>1. Len(part) \in Nat /\ Len(s) \in Nat /\ i \in 1 .. Len(s) - Len(part) + 1
      BY <1>1, <2>1 DEF OccursAt
    <3>2. QED
      BY <3>1
  <2>2. QED
    BY <2>1
<1>5. CASE \E i : OccursAt(s, Https, i)
  <2>1. http_prefix(s) = Https
    BY <1>2, <1>5 DEF http_prefix
  <2>2. QED
    BY <1>1, <1>3, <1>4, <1>5, <2>1
<1>6. CASE ~ (\E i : OccursAt(s, Https, i)) /\ \E i : OccursAt(s, Http, i)
  <2>1. http_prefix(s) = Http
    BY <1>2, <1>6 DEF http_prefix
  <2>2. QED
    BY <1>1, <1>3, <1>4, <1>6, <2>1
<1>7. CASE ~ (\E i : OccursAt(s, Https, i)) /\ ~ (\E i : OccursAt(s, Http, i))
  <2>1. http_prefix(s) = <<>>
    BY <1>2, <1>7 DEF http_prefix
  <2>2. Len(s) \in Nat
    OBVIOUS
  <2>3. QED
    BY <1>3, <1>7, <2>1, <2>2
<1>8. QED
  BY <1>5, <1>6, <1>7

(* The beginning of a text has no other scheme than the text, and the same *)
(* if the text begins with it.                                             *)
LEMMA PrefixOfPrefix ==
    ASSUME NEW C, WritesAddresses(C), NEW s \in Seq(C), NEW m \in 0 .. Len(s)
    PROVE  LET scheme == http_prefix(s)
           IN /\ scheme = <<>> => http_prefix(SubSeq(s, 1, m)) = <<>>
              /\ BeginsWith(s, scheme) /\ Len(scheme) =< m => http_prefix(SubSeq(s, 1, m)) = scheme
<1> DEFINE p == SubSeq(s, 1, m)
           scheme == http_prefix(s)
<1>1. p \in Seq(C) /\ Len(p) = m /\ \A i \in 1 .. m : p[i] = s[i]
  BY PrefixIs
<1>2. Http \in Seq(C) /\ Https \in Seq(C) /\ Len(s) \in Nat /\ m \in Nat /\ m =< Len(s)
  BY SchemeType
<1> HIDE DEF p
<1>3. ASSUME NEW part \in {Http, Https}, NEW i, OccursAt(p, part, i)
      PROVE  OccursAt(s, part, i)
  <2> DEFINE L == Len(part)
  <2>1. L \in Nat /\ i \in 1 .. m - L + 1 /\ \A k \in 1 .. L : p[i + k - 1] = part[k]
    BY <1>1, <1>2, <1>3 DEF OccursAt
  <2> HIDE DEF L
  <2>2. i \in 1 .. Len(s) - L + 1 /\ \A k \in 1 .. L : i + k - 1 \in 1 .. m
    BY <1>2, <2>1
  <2>3. QED
    BY <1>1, <2>1, <2>2 DEF OccursAt, L
<1>4. /\ http_prefix(p) \in {Https, Http, <<>>}
      /\ http_prefix(p) = Https <=> \E i : OccursAt(p, Https, i)
      /\ http_prefix(p) # <<>> <=> \E i : OccursAt(p, Https, i) \/ OccursAt(p, Http, i)
  BY <1>1, PrefixFits
<1>5. /\ scheme \in {Https, Http, <<>>} /\ scheme \in Seq(C)
      /\ scheme = Https <=> \E i : OccursAt(s, Https, i)
      /\ scheme # <<>> <=> \E i : OccursAt(s, Https, i) \/ OccursAt(s, Http, i)
  BY PrefixFits
<1> HIDE DEF scheme
<1>6. ASSUME scheme = <<>>
      PROVE  http_prefix(p) = <<>>
  BY <1>3, <1>4, <1>5, <1>6
<1>7. ASSUME BeginsWith(s, scheme), Len(scheme) =< m
      PROVE  http_prefix(p) = scheme
  <2>1. CASE scheme = <<>>
    BY <1>6, <2>1
  <2>2. CASE scheme # <<>>
    <3>1. \A k \in 1 .. Len(scheme) : s[k] = scheme[k]
      BY <1>5, <1>7, BeginsIs
    <3>2. OccursAt(p, scheme, 1)
      <4>1. Len(scheme) \in Nat
        BY <1>5
      <4>2. 1 \in 1 .. Len(p) - Len(scheme) + 1 /\ \A k \in 1 .. Len(scheme) : 1 + k - 1 = k /\ k \in 1 .. m
        BY <1>1, <1>2, <1>7, <4>1
      <4>3. QED
        BY <1>1, <3>1, <4>2 DEF OccursAt
    <3>3. Http # Https
      BY SchemeIs
    <3>4. CASE scheme = Https
      BY <1>4, <3>2, <3>4
    <3>5. CASE scheme = Http
      BY <1>3, <1>4, <1>5, <3>2, <3>3, <3>5
    <3>6. QED
      BY <1>5, <2>2, <3>4, <3>5
  <2>3. QED
    BY <2>1, <2>2
<1>8. QED
  BY <1>6, <1>7 DEF p, scheme

(* base is path without the first occurrence of what it ends with from e.  *)
CutOut(path, base, e) ==
    LET found == From(path, e)
        p == find(path, found)
    IN /\ e \in 1 .. Len(path) /\ path[e] = "/"
       /\ base = SubSeq(path, 1, p - 1) \o From(path, p + Len(found))

(* get_base_path keeps the scheme, collapses slashes, and cuts no more.    *)
LEMMA BasePathIs ==
    ASSUME NEW C, WritesAddresses(C), NEW str \in Seq(C)
    PROVE  LET url == DropSlash(str)
               path == erase(url, Len(http_prefix(url)))
           IN \E base : /\ get_base_path(str) = http_prefix(url) \o Collapse(base, "/")
                        /\ base = path \/ \E e : CutOut(path, base, e)
<1> DEFINE url == DropSlash(str)
           path == erase(url, Len(http_prefix(url)))
           ends == {i \in 1 .. Len(path) - 1 : path[i] = "/" /\ ~ HasAnyOf(From(path, i + 2), {"/"})}
           found == From(path, Min(ends))
           n_pos == find(path, found)
           base == IF ends # {} /\ HasAnyOf(found, {"."})
                   THEN SubSeq(path, 1, n_pos - 1) \o From(path, n_pos + Len(found)) ELSE path
<1>1. get_base_path(str) = http_prefix(url) \o Collapse(base, "/")
  BY DEF get_base_path
<1>2. base = path \/ \E e : CutOut(path, base, e)
  <2>1. CASE ends # {} /\ HasAnyOf(found, {"."})
    <3>1. ends \subseteq Nat
      OBVIOUS
    <3>2. Min(ends) \in ends
      <4> HIDE DEF ends
      <4>1. QED
        BY <2>1, <3>1, LeastOf
    <3>3. path \in Seq(C)
      <4>1. url \in Seq(C)
        <5>1. PICK m \in 0 .. Len(str) : url = SubSeq(str, 1, m)
          BY DropIs
        <5>2. QED
          BY <5>1, PrefixIs
      <4> HIDE DEF url
      <4>2. http_prefix(url) \in Seq(C) /\ Len(http_prefix(url)) \in 0 .. Len(url)
        BY <4>1, PrefixFits
      <4>3. QED
        BY <4>1, <4>2, SuffixIs DEF erase, From
    <3> DEFINE e == Min(ends)
    <3>4. e \in 1 .. Len(path) - 1 /\ path[e] = "/"
      BY <3>2
    <3>5. base = SubSeq(path, 1, n_pos - 1) \o From(path, n_pos + Len(found))
      BY <2>1
    <3> HIDE DEF base, ends, path
    <3>6. Len(path) \in Nat
      BY <3>3
    <3>7. e \in 1 .. Len(path)
      BY <3>4, <3>6
    <3>8. found = From(path, e)
      OBVIOUS
    <3> HIDE DEF e, found
    <3>9. CutOut(path, base, e)
      BY <3>4, <3>5, <3>7, <3>8 DEF CutOut, found
    <3>10. QED
      BY <3>9
  <2>2. CASE ~ (ends # {} /\ HasAnyOf(found, {"."}))
    BY <2>2
  <2>3. QED
    BY <2>1, <2>2
<1> HIDE DEF base, path, url
<1>3. QED
  BY <1>1, <1>2 DEF path, url

(* What is found where a text is cut, begins with the slash it is cut at.  *)
LEMMA CutIs ==
    ASSUME NEW C, NEW path \in Seq(C), NEW base, NEW e, CutOut(path, base, e)
    PROVE  LET p == find(path, From(path, e))
           IN /\ e \in 1 .. Len(path) /\ path[e] = "/"
              /\ p \in 1 .. e /\ path[p] = "/"
              /\ From(path, p + Len(From(path, e))) \in Seq(C)
              /\ base = SubSeq(path, 1, p - 1) \o From(path, p + Len(From(path, e)))
              /\ p = e => base = SubSeq(path, 1, e - 1)
<1> DEFINE n == Len(path)
           found == From(path, e)
           L == Len(found)
           p == find(path, found)
<1>1. e \in 1 .. n /\ path[e] = "/" /\ n \in Nat
  BY DEF CutOut
<1>2. found \in Seq(C) /\ L = n - e + 1 /\ \A i \in 1 .. L : found[i] = path[e + i - 1]
  <2> DEFINE m == e - 1
             rest == SubSeq(path, m + 1, Len(path))
  <2>1. m \in 0 .. Len(path) /\ m + 1 = e /\ Len(path) - m = n - e + 1 /\ \A i \in 1 .. Len(path) - m : m + i = e + i - 1
    BY <1>1
  <2> HIDE DEF m
  <2>2. /\ rest \in Seq(C) /\ Len(rest) = Len(path) - m
        /\ \A i \in 1 .. Len(path) - m : rest[i] = path[m + i]
    BY <2>1, SuffixIs
  <2>3. rest = found
    BY <2>1 DEF From
  <2> HIDE DEF rest, found
  <2>4. QED
    BY <2>1, <2>2, <2>3
<1> HIDE DEF found, L
<1>3. L \in Nat /\ 1 \in 1 .. L /\ L # 0 /\ found[1] = "/" /\ e + 1 - 1 = e
  BY <1>1, <1>2
<1>4. OccursAt(path, found, e)
  <2>1. e \in 1 .. Len(path) - L + 1 /\ \A k \in 1 .. L : path[e + k - 1] = found[k]
    BY <1>1, <1>2
  <2>2. QED
    BY <2>1 DEF OccursAt, L
<1>5. p \in Nat /\ p # 0 /\ OccursAt(path, found, p) /\ p =< e
  <2>1. /\ p \in Nat
        /\ p = 0 => \A i : ~ OccursAt(path, found, i)
        /\ p # 0 => OccursAt(path, found, p) /\ \A i : OccursAt(path, found, i) => p =< i
    BY <1>2, FindIs
  <2> HIDE DEF p
  <2>2. QED
    BY <1>4, <2>1
<1> HIDE DEF p
<1>6. p \in 1 .. e /\ path[p] = "/"
  <2>1. \A k \in 1 .. L : path[p + k - 1] = found[k]
    BY <1>5 DEF OccursAt, L
  <2>2. p + 1 - 1 = p /\ p \in 1 .. e
    BY <1>1, <1>5
  <2>3. QED
    BY <1>3, <2>1, <2>2
<1>7. From(path, p + L) \in Seq(C) /\ (p = e => From(path, p + L) = <<>>)
  <2> DEFINE m == p + L - 1
  <2>1. m \in 0 .. Len(path) /\ m + 1 = p + L /\ (p = e => m = Len(path))
    <3>1. p \in Int /\ e \in Int /\ 1 =< p /\ p =< e /\ e =< n /\ L = n - e + 1 /\ n \in Int
      BY <1>1, <1>2, <1>6
    <3> HIDE DEF n
    <3>2. m \in 0 .. n /\ m + 1 = p + L /\ (p = e => m = n)
      BY <3>1
    <3>3. QED
      BY <3>2 DEF n
  <2> HIDE DEF m
  <2>2. SubSeq(path, m + 1, Len(path)) \in Seq(C) /\ Len(SubSeq(path, m + 1, Len(path))) = Len(path) - m
    BY <2>1, SuffixIs
  <2>3. From(path, p + L) = SubSeq(path, m + 1, Len(path))
    BY <2>1 DEF From
  <2> DEFINE rest == From(path, p + L)
  <2> HIDE DEF rest
  <2>4. rest \in Seq(C) /\ Len(rest) = Len(path) - m
    BY <2>2, <2>3 DEF rest
  <2>5. p = e => Len(rest) = 0
    BY <1>1, <2>1, <2>4
  <2>6. p = e => rest = <<>>
    BY <2>4, <2>5
  <2>7. QED
    BY <2>4, <2>6 DEF rest
<1>8. base = SubSeq(path, 1, p - 1) \o From(path, p + L)
  BY DEF CutOut, p, L, found
<1>9. ASSUME p = e
      PROVE  base = SubSeq(path, 1, e - 1)
  <2>1. e - 1 \in 0 .. Len(path)
    BY <1>1
  <2>2. SubSeq(path, 1, e - 1) \in Seq(C)
    BY <2>1, PrefixIs
  <2>3. QED
    BY <1>7, <1>8, <1>9, <2>2
<1>10. QED
  BY <1>1, <1>6, <1>7, <1>8, <1>9 DEF p, L, found

(* What is left of a path that begins with the name of a host: the name    *)
(* and what is behind it, unless the last name occurs before the end.      *)
LEMMA BaseKeepsHost ==
    ASSUME NEW C, NEW path \in Seq(C), NEW base, base = path \/ \E e : CutOut(path, base, e),
           NEW h \in 1 .. Len(path), \A i \in 1 .. h : path[i] # "/",
           h < Len(path) => path[h + 1] = "/",
           \A i \in DOMAIN path : path[i] = "/" => find(path, From(path, i)) = i
    PROVE  LET kept == Collapse(base, "/")
           IN /\ kept \in Seq(C) /\ h =< Len(kept)
              /\ \A i \in 1 .. h : kept[i] = path[i]
              /\ h < Len(kept) => kept[h + 1] = "/"
<1> DEFINE kept == Collapse(base, "/")
<1>1. Len(path) \in Nat /\ DOMAIN path = 1 .. Len(path) /\ h \in Nat /\ h =< Len(path)
  OBVIOUS
<1>2. PICK b \in h .. Len(path) : base = SubSeq(path, 1, b)
  <2>1. CASE base = path
    <3>1. base = SubSeq(path, 1, Len(path)) /\ Len(path) \in h .. Len(path)
      BY <1>1, <2>1, SubSeqFull
    <3>2. QED
      BY <3>1
  <2>2. CASE \E e : CutOut(path, base, e)
    <3>1. PICK e : CutOut(path, base, e)
      BY <2>2
    <3>2. e \in 1 .. Len(path) /\ path[e] = "/" /\ (find(path, From(path, e)) = e => base = SubSeq(path, 1, e - 1))
      BY <3>1, CutIs
    <3>3. base = SubSeq(path, 1, e - 1)
      BY <1>1, <3>2
    <3>4. e - 1 \in h .. Len(path)
      BY <1>1, <3>2
    <3>5. QED
      BY <3>3, <3>4
  <2>3. QED
    BY <2>1, <2>2
<1>3. b \in 0 .. Len(path)
  BY <1>1
<1>4. base \in Seq(C) /\ Len(base) = b /\ \A i \in 1 .. b : base[i] = path[i]
  BY <1>2, <1>3, PrefixIs
<1>5. kept \in Seq(C) /\ Collapsed(base, "/", b, kept)
  BY <1>4, CollapseIs
<1> HIDE DEF kept
<1>6. \A i \in 1 .. h : base[i] # "/"
  BY <1>1, <1>4
<1>7. h =< Len(kept) /\ \A i \in 1 .. h : kept[i] = path[i]
  <2>1. h - 1 \in 0 .. b - 1 /\ (h - 1) + 1 = h /\ \A i \in 1 .. h - 1 : i \in 1 .. h
    BY <1>1
  <2>2. h =< Len(kept) /\ \A i \in 1 .. h : kept[i] = base[i]
    BY <1>5, <1>6, <2>1 DEF Collapsed
  <2>3. QED
    BY <1>1, <1>4, <2>2
<1>8. ASSUME h < Len(kept)
      PROVE  kept[h + 1] = "/"
  <2>1. h < b
    BY <1>1, <1>5, <1>8 DEF Collapsed
  <2>2. h \in 0 .. b - 1 /\ h + 1 \in 1 .. h + 1 /\ h + 1 \in 1 .. b /\ h < Len(path)
    BY <1>1, <2>1
  <2>3. kept[h + 1] = base[h + 1]
    BY <1>5, <1>6, <2>2 DEF Collapsed
  <2>4. QED
    BY <1>4, <2>2, <2>3
<1>9. QED
  BY <1>5, <1>7, <1>8 DEF kept

(* Nothing is left only of nothing, or of a path from the root; and what   *)
(* is left has no two slashes side by side.                                *)
LEMMA BaseOfNone ==
    ASSUME NEW C, NEW path \in Seq(C), NEW base, base = path \/ \E e : CutOut(path, base, e)
    PROVE  LET kept == Collapse(base, "/")
           IN /\ kept \in Seq(C)
              /\ kept = <<>> => path = <<>> \/ path[1] = "/"
              /\ \A i \in 1 .. Len(kept) - 1 : ~ (kept[i] = "/" /\ kept[i + 1] = "/")
<1> DEFINE kept == Collapse(base, "/")
<1>1. base \in Seq(C) /\ (base = <<>> => path = <<>> \/ path[1] = "/")
  <2>1. CASE base = path
    BY <2>1
  <2>2. CASE \E e : CutOut(path, base, e)
    <3>1. PICK e : CutOut(path, base, e)
      BY <2>2
    <3> DEFINE p == find(path, From(path, e))
               tail == From(path, p + Len(From(path, e)))
    <3>2. /\ e \in 1 .. Len(path) /\ p \in 1 .. e /\ path[p] = "/"
          /\ tail \in Seq(C) /\ base = SubSeq(path, 1, p - 1) \o tail
      BY <3>1, CutIs
    <3> HIDE DEF tail, p
    <3>3. p - 1 \in 0 .. Len(path) /\ p - 1 \in Nat /\ p \in Nat
      BY <3>2
    <3> DEFINE head == SubSeq(path, 1, p - 1)
    <3>4. head \in Seq(C) /\ Len(head) = p - 1
      BY <3>3, PrefixIs
    <3>5. base = head \o tail
      BY <3>2
    <3> HIDE DEF head
    <3>6. base \in Seq(C) /\ Len(base) = (p - 1) + Len(tail) /\ Len(tail) \in Nat
      BY <3>2, <3>4, <3>5
    <3>7. base = <<>> => p = 1
      BY <3>3, <3>6
    <3>8. QED
      BY <3>2, <3>6, <3>7
  <2>3. QED
    BY <2>1, <2>2
<1>2. kept \in Seq(C) /\ Collapsed(base, "/", Len(base), kept)
  BY <1>1, CollapseIs
<1> HIDE DEF kept
<1>3. ASSUME kept = <<>>
      PROVE  base = <<>>
  <2>1. Len(base) \in Nat /\ Len(kept) = 0
    BY <1>1, <1>3
  <2>2. ~ (0 \in 0 .. Len(base) - 1)
    <3>1. 0 \in 0 .. Len(base) - 1 => 0 + 1 =< Len(kept)
      BY <1>2 DEF Collapsed
    <3>2. QED
      BY <2>1, <3>1
  <2>3. Len(base) = 0
    BY <2>1, <2>2
  <2>4. QED
    BY <1>1, <2>3
<1>4. \A i \in 1 .. Len(kept) - 1 : ~ (kept[i] = "/" /\ kept[i + 1] = "/")
  BY <1>2 DEF Collapsed
<1>5. QED
  BY <1>1, <1>2, <1>3, <1>4 DEF kept

(* A text begins with the first of two that it is joined of.               *)
LEMMA BeginsWithFirst ==
    ASSUME NEW C, NEW a \in Seq(C), NEW b \in Seq(C)
    PROVE  BeginsWith(a \o b, a) /\ erase(a \o b, Len(a)) = b
<1> DEFINE s == a \o b
<1>1. s \in Seq(C) /\ Len(s) = Len(a) + Len(b) /\ Len(a) \in Nat /\ Len(b) \in Nat /\ \A i \in 1 .. Len(a) : s[i] = a[i]
  OBVIOUS
<1>2. erase(s, Len(a)) = b
  BY PartOfWhole
<1> HIDE DEF s
<1>3. Len(a) =< Len(s)
  BY <1>1
<1>4. BeginsWith(s, a)
  BY <1>1, <1>3, BeginsIs
<1>5. QED
  BY <1>2, <1>4 DEF s

(* Three texts are joined alike from either end.                           *)
LEMMA JoinedOfThree ==
    ASSUME NEW C, NEW a \in Seq(C), NEW b \in Seq(C), NEW c \in Seq(C)
    PROVE  (a \o b) \o c = a \o (b \o c)
<1> DEFINE x == (a \o b) \o c
           y == a \o (b \o c)
           p == Len(a)
           q == Len(b)
           r == Len(c)
<1>1. p \in Nat /\ q \in Nat /\ r \in Nat
  OBVIOUS
<1>2. /\ x \in Seq(C) /\ Len(x) = p + q + r /\ y \in Seq(C) /\ Len(y) = p + q + r
  OBVIOUS
<1>3. ASSUME NEW i \in 1 .. p + q + r
      PROVE  x[i] = y[i]
  <2>1. CASE i \in 1 .. p
    BY <1>1, <2>1
  <2>2. CASE i \in p + 1 .. p + q
    BY <1>1, <2>2
  <2>3. CASE i \in p + q + 1 .. p + q + r
    BY <1>1, <2>3
  <2>4. QED
    BY <1>1, <2>1, <2>2, <2>3
<1> HIDE DEF x, y
<1>4. x = y
  <2>1. Len(x) = Len(y) /\ \A i \in 1 .. Len(x) : x[i] = y[i]
    BY <1>2, <1>3
  <2>2. QED
    BY <1>2, <2>1, SeqEqual
<1>5. QED
  BY <1>4 DEF x, y

(* The type of a host that is reached by a scheme.                         *)
TypeOf(scheme) == IF scheme = Http THEN "host_http" ELSE "host_https"

(* A text that begins with a scheme and a name leads to the host of that   *)
(* name.                                                                   *)
LEMMA PlaceIs ==
    ASSUME NEW C, WritesAddresses(C), NEW url \in Seq(C), NEW scheme \in {Http, Https},
           BeginsWith(url, scheme), Until(erase(url, Len(scheme)), {"/"}) # <<>>
    PROVE  Place(url) = [type |-> TypeOf(scheme), host |-> Until(erase(url, Len(scheme)), {"/"})]
<1> DEFINE rest == erase(url, Len(scheme))
           host == Until(rest, {"/"})
<1>1. Http \in Seq(C) /\ Https \in Seq(C) /\ Http # Https
  BY SchemeType, SchemeIs
<1>2. Len(scheme) \in 0 .. Len(url) /\ \A k \in 1 .. Len(scheme) : url[k] = scheme[k]
  <2>1. Len(scheme) =< Len(url) /\ \A k \in 1 .. Len(scheme) : url[k] = scheme[k]
    BY <1>1, BeginsIs
  <2>2. Len(scheme) \in Nat /\ Len(url) \in Nat
    BY <1>1
  <2>3. QED
    BY <2>1, <2>2
<1>3. rest \in Seq(C)
  BY <1>2, SuffixIs DEF erase, From
<1>4. get_host_type(url) = [type |-> TypeOf(scheme), url |-> rest]
  <2>1. CASE scheme = Http
    BY <2>1 DEF get_host_type, TypeOf
  <2>2. CASE scheme = Https
    <3>1. url[5] = "s"
      BY <1>2, <2>2, SchemeIs
    <3>2. ~ BeginsWith(url, Http)
      <4>1. BeginsWith(url, Http) => \A k \in 1 .. Len(Http) : url[k] = Http[k]
        BY <1>1, BeginsIs
      <4>2. 5 \in 1 .. Len(Http) /\ Http[5] = ":"
        BY SchemeIs
      <4>3. QED
        BY <3>1, <4>1, <4>2
    <3>3. QED
      BY <1>1, <2>2, <3>2 DEF get_host_type, TypeOf
  <2>3. QED
    BY <2>1, <2>2
<1> HIDE DEF rest
<1>5. get_host_and_target(rest).host = host
  <2> DEFINE others == {i \in 1 .. Len(rest) : rest[i] # "/"}
             bare == IF others = {} THEN <<>> ELSE From(rest, Min(others))
  <2>1. PICK m \in 0 .. Len(rest) : /\ Until(rest, {"/"}) = SubSeq(rest, 1, m)
                                    /\ \A i \in 1 .. m : rest[i] \notin {"/"}
    BY <1>3, UntilIs
  <2>2. m # 0
    <3>1. SubSeq(rest, 1, 0) = <<>>
      BY <1>3, SubSeqEmpty
    <3>2. QED
      BY <2>1, <3>1 DEF rest
  <2>3. 1 \in others /\ others \subseteq Nat
    BY <1>3, <2>1, <2>2
  <2>4. Min(others) = 1
    <3>1. Min(others) \in others /\ \A x \in others : Min(others) =< x
      <4> HIDE DEF others
      <4>1. QED
        BY <2>3, LeastOf
    <3>2. \A x \in others : 1 =< x /\ x \in Int
      OBVIOUS
    <3> DEFINE least == Min(others)
    <3>3. least \in others /\ least =< 1
      BY <2>3, <3>1
    <3> HIDE DEF least
    <3>4. least = 1
      BY <3>2, <3>3
    <3>5. QED
      BY <3>4 DEF least
  <2>5. bare = rest
    <3>1. From(rest, 1) = rest
      BY <1>3, SubSeqFull DEF From
    <3> HIDE DEF others
    <3>2. QED
      BY <2>3, <2>4, <3>1
  <2>6. get_host_and_target(rest).host = Until(bare, {"/"})
    BY DEF get_host_and_target
  <2>7. QED
    BY <2>5, <2>6
<1>6. QED
  BY <1>4, <1>5 DEF Place, rest

(* An address that may be a page's: a scheme, and the name of a host.      *)
IsAddress(page) ==
    LET scheme == http_prefix(page)
    IN scheme # <<>> /\ BeginsWith(page, scheme) /\ Until(erase(page, Len(scheme)), {"/"}) # <<>>

(* From the base of a page, a path from the root stays on its host.        *)
LEMMA BaseLeadsThere ==
    ASSUME NEW C, WritesAddresses(C), NEW page \in Seq(C), IsAddress(page),
           NEW tail \in Seq(C), tail = <<>> \/ tail[1] = "/"
    PROVE  LET base == get_base_host(page)
           IN base \in Seq(C) /\ Place(base \o tail) = Place(page) /\ BeginsWith(base \o tail, base)
<1> DEFINE scheme == http_prefix(page)
           rest == erase(page, Len(scheme))
           host == Until(rest, {"/"})
           base == get_base_host(page)
<1>1. scheme \in {Http, Https} /\ scheme \in Seq(C) /\ Len(scheme) \in 0 .. Len(page)
  BY PrefixFits DEF IsAddress
<1>2. base = scheme \o host
  BY DEF get_base_host
<1>3. rest \in Seq(C)
  BY <1>1, SuffixIs DEF erase, From
<1>4. BeginsWith(page, scheme) /\ host # <<>>
  BY DEF IsAddress
<1>5. Place(page) = [type |-> TypeOf(scheme), host |-> host]
  <2> HIDE DEF scheme
  <2>1. QED
    BY <1>1, <1>4, PlaceIs
<1> HIDE DEF scheme, rest, base
<1>6. host \in Seq(C) /\ \A i \in 1 .. Len(host) : host[i] \notin {"/"}
  BY <1>3, UntilSplits
<1> HIDE DEF host
<1>7. tail = <<>> \/ tail[1] \in {"/"}
  OBVIOUS
<1>8. Until(host \o tail, {"/"}) = host
  BY <1>6, <1>7, UntilOfTwo
<1> DEFINE url == base \o tail
<1>9. base \in Seq(C) /\ url = scheme \o (host \o tail) /\ host \o tail \in Seq(C)
  BY <1>1, <1>2, <1>6, JoinedOfThree, SMTT(30)
<1>10. BeginsWith(url, scheme) /\ erase(url, Len(scheme)) = host \o tail
  BY <1>1, <1>9, BeginsWithFirst
<1>11. BeginsWith(url, base)
  BY <1>9, BeginsWithFirst
<1>12. url \in Seq(C)
  <2>1. \A x, y \in Seq(C) : x \o y \in Seq(C)
    OBVIOUS
  <2> HIDE DEF host
  <2>2. QED
    BY <1>1, <1>9, <2>1
<1> HIDE DEF url
<1>13. Place(url) = [type |-> TypeOf(scheme), host |-> host]
  BY <1>1, <1>4, <1>8, <1>10, <1>12, PlaceIs
<1>14. QED
  BY <1>5, <1>9, <1>11, <1>13 DEF url, base

(* erase leaves a text, however much it takes.                             *)
LEMMA EraseType ==
    ASSUME NEW C, NEW s \in Seq(C), NEW m \in Nat
    PROVE  erase(s, m) \in Seq(C)
<1>1. CASE m \in 0 .. Len(s)
  BY <1>1, SuffixIs DEF erase, From
<1>2. CASE m \notin 0 .. Len(s)
  <2>1. Len(s) \in Int /\ m + 1 \in Int /\ Len(s) < m + 1
    BY <1>2
  <2>2. SubSeq(s, m + 1, Len(s)) = <<>>
    BY <2>1, SubSeqEmpty
  <2>3. QED
    BY <2>2 DEF erase, From
<1>3. QED
  BY <1>1, <1>2

(* And nothing taken leaves all.                                           *)
LEMMA EraseNone ==
    ASSUME NEW C, NEW s \in Seq(C)
    PROVE  erase(s, Len(<<>>)) = s
<1>1. Len(<<>>) + 1 = 1
  OBVIOUS
<1>2. QED
  BY <1>1, SubSeqFull DEF erase, From

(* The path of a link without a scheme.                                    *)
LEMMA RelativePath ==
    ASSUME NEW C, WritesAddresses(C), NEW url \in Seq(C), http_prefix(url) = <<>>
    PROVE  LET path == get_base_path(url)
           IN /\ path \in Seq(C) /\ ~ BeginsWith(path, Http) /\ ~ BeginsWith(path, Https)
              /\ path = <<>> => url = <<>> \/ url[1] = "/"
<1> DEFINE bare == DropSlash(url)
           path == get_base_path(url)
<1>1. PICK m \in 0 .. Len(url) : /\ bare = SubSeq(url, 1, m)
                                 /\ m \in {Len(url) - 1, Len(url)}
                                 /\ m = Len(url) - 1 => url[Len(url)] = "/"
  BY DropIs
<1>2. bare \in Seq(C) /\ Len(bare) = m /\ \A i \in 1 .. m : bare[i] = url[i]
  BY <1>1, PrefixIs
<1>3. http_prefix(bare) = <<>>
  BY <1>1, PrefixOfPrefix
<1>4. erase(bare, Len(http_prefix(bare))) = bare
  BY <1>2, <1>3, EraseNone
<1>5. PICK base : path = http_prefix(bare) \o Collapse(base, "/") /\ (base = bare \/ \E e : CutOut(bare, base, e))
  BY <1>4, BasePathIs
<1> HIDE DEF bare, path
<1> DEFINE kept == Collapse(base, "/")
<1>6. /\ kept \in Seq(C)
      /\ kept = <<>> => bare = <<>> \/ bare[1] = "/"
      /\ \A i \in 1 .. Len(kept) - 1 : ~ (kept[i] = "/" /\ kept[i + 1] = "/")
  BY <1>2, <1>5, BaseOfNone
<1> HIDE DEF kept
<1>7. path = kept
  <2>1. \A x \in Seq(C) : <<>> \o x = x
    OBVIOUS
  <2>2. QED
    BY <1>3, <1>5, <1>6, <2>1 DEF kept
<1>8. \A part \in {Http, Https} : ~ BeginsWith(path, part)
  <2> SUFFICES ASSUME NEW part \in {Http, Https}, BeginsWith(path, part)
               PROVE  FALSE
    OBVIOUS
  <2> DEFINE L == Len(part)
  <2>1. L \in {7, 8} /\ part[L - 1] = "/" /\ part[L] = "/" /\ part \in Seq(C)
    <3>1. part \in Seq(C)
      BY SchemeType
    <3>2. CASE part = Http
      BY <3>1, <3>2, SchemeIs
    <3>3. CASE part = Https
      BY <3>1, <3>3, SchemeIs
    <3>4. QED
      BY <3>2, <3>3
  <2>2. L =< Len(path) /\ \A k \in 1 .. L : path[k] = part[k]
    BY <1>6, <1>7, <2>1, BeginsIs
  <2> HIDE DEF L
  <2>3. L - 1 \in 1 .. Len(path) - 1 /\ L - 1 \in 1 .. L /\ L \in 1 .. L /\ (L - 1) + 1 = L
    BY <1>6, <1>7, <2>1, <2>2
  <2>4. path[L - 1] = "/" /\ path[(L - 1) + 1] = "/"
    BY <2>1, <2>2, <2>3
  <2>5. QED
    BY <1>6, <1>7, <2>3, <2>4
<1>9. ASSUME path = <<>>
      PROVE  url = <<>> \/ url[1] = "/"
  <2>1. CASE bare = <<>>
    <3>1. m = 0 /\ Len(url) \in Nat
      BY <1>2, <2>1
    <3>2. CASE Len(url) = 0
      BY <3>2
    <3>3. CASE Len(url) # 0
      BY <1>1, <3>1, <3>3
    <3>4. QED
      BY <3>2, <3>3
  <2>2. CASE bare # <<>> /\ bare[1] = "/"
    <3>1. m # 0 /\ m \in Nat
      BY <1>2, <2>2
    <3>2. QED
      BY <1>2, <2>2, <3>1
  <2>3. QED
    BY <1>6, <1>7, <1>9, <2>1, <2>2
<1>10. QED
  BY <1>6, <1>7, <1>8, <1>9 DEF path

(* Where a link without a scheme leads.                                    *)
LEMMA RelativeLink ==
    ASSUME NEW C, WritesAddresses(C), NEW link \in Seq(C), NEW page \in Seq(C), IsAddress(page),
           http_prefix(link) = <<>>
    PROVE  LET base == get_base_host(page)
               final == final_url(link, base)
           IN IF BeginsWith(get_base_path(DropSlash(link)), Www)
              THEN Place(final).type = "host_unknown"
              ELSE Place(final) = Place(page) /\ BeginsWith(final, base)
<1> DEFINE url == DropSlash(link)
           path == get_base_path(url)
           rest == erase(url, Len(path))
           base == get_base_host(page)
           final == final_url(link, base)
<1>1. url \in Seq(C) /\ http_prefix(url) = <<>>
  <2>1. PICK m \in 0 .. Len(link) : url = SubSeq(link, 1, m)
    BY DropIs
  <2>2. QED
    BY <2>1, PrefixIs, PrefixOfPrefix
<1>2. final = complete_url(path, base) \o rest
  BY DEF final_url
<1> HIDE DEF url
<1>3. /\ path \in Seq(C) /\ ~ BeginsWith(path, Http) /\ ~ BeginsWith(path, Https)
      /\ path = <<>> => url = <<>> \/ url[1] = "/"
  BY <1>1, RelativePath
<1>4. base \in Seq(C)
  <2>1. <<>> \in Seq(C)
    OBVIOUS
  <2>2. QED
    BY <2>1, BaseLeadsThere
<1> HIDE DEF path, base, final
<1>5. rest \in Seq(C)
  <2>1. Len(path) \in Nat
    BY <1>3
  <2>2. QED
    BY <1>1, <2>1, EraseType
<1>6. \A x, y \in Seq(C) : x \o y \in Seq(C) /\ Len(x \o y) = Len(x) + Len(y) /\ (x # <<>> => (x \o y)[1] = x[1])
  OBVIOUS
<1>6a. \A x, y, z \in Seq(C) : (x \o y) \o z = x \o (y \o z)
  BY JoinedOfThree, SMTT(30)
<1>7. CASE BeginsWith(path, Www)
  <2>1. Len(path) >= 4 /\ path[1] = "w"
    <3>1. Len(Www) =< Len(path) /\ \A k \in 1 .. Len(Www) : path[k] = Www[k]
      BY <1>3, <1>7, SchemeType, BeginsIs
    <3>2. QED
      BY <1>3, <3>1, SchemeIs
  <2>2. path # <<>>
    BY <2>1
  <2>3. complete_url(path, base) = path
    BY <1>7, <2>2 DEF complete_url
  <2> HIDE DEF rest
  <2>4. final \in Seq(C) /\ final[1] = "w"
    BY <1>2, <1>3, <1>5, <1>6, <2>1, <2>2, <2>3
  <2>5. \A part \in {Http, Https} : ~ BeginsWith(final, part)
    <3> SUFFICES ASSUME NEW part \in {Http, Https}, BeginsWith(final, part)
                 PROVE  FALSE
      OBVIOUS
    <3>1. part \in Seq(C) /\ 1 \in 1 .. Len(part) /\ part[1] = "h"
      BY SchemeType, SchemeIs
    <3>2. final[1] = part[1]
      BY <2>4, <3>1, BeginsIs
    <3>3. QED
      BY <2>4, <3>1, <3>2
  <2>6. get_host_type(final).type = "host_unknown"
    BY <2>5 DEF get_host_type
  <2>7. Place(final).type = "host_unknown"
    BY <2>6 DEF Place
  <2>8. QED
    BY <1>7, <2>7 DEF final, base, path, url
<1>8. CASE ~ BeginsWith(path, Www)
  <2>1. PICK tail \in Seq(C) : final = base \o tail /\ (tail = <<>> \/ tail[1] = "/")
    <3>1. CASE path = <<>>
      <4>1. complete_url(path, base) = base
        BY <3>1 DEF complete_url
      <4>2. rest = url
        BY <1>1, <3>1, EraseNone
      <4>3. QED
        BY <1>1, <1>2, <1>3, <3>1, <4>1, <4>2
    <3>2. CASE path # <<>>
      <4> DEFINE more == IF path[1] = "/" THEN Tail(path) ELSE path
                 slash == <<"/">>
      <4>1. more \in Seq(C)
        BY <1>3, <3>2
      <4>2. complete_url(path, base) = (base \o slash) \o more
        BY <1>3, <1>8, <3>2 DEF complete_url
      <4>3. slash \in Seq(C) /\ slash # <<>> /\ slash[1] = "/"
        BY DEF WritesAddresses
      <4> HIDE DEF more, slash, rest
      <4> DEFINE tail == (slash \o more) \o rest
      <4>4. slash \o more \in Seq(C) /\ slash \o more # <<>> /\ (slash \o more)[1] = "/"
        <5>1. Len(slash \o more) # 0
          <6>1. Len(slash) \in Nat /\ Len(slash) # 0 /\ Len(more) \in Nat
            BY <4>1, <4>3
          <6>2. QED
            BY <1>6, <4>1, <4>3, <6>1
        <5>2. QED
          BY <1>6, <4>1, <4>3, <5>1
      <4>5. tail \in Seq(C) /\ tail[1] = "/"
        <5> DEFINE head == slash \o more
        <5> HIDE DEF head
        <5>1. head \in Seq(C) /\ head # <<>> /\ head[1] = "/"
          BY <4>4 DEF head
        <5>2. head \o rest \in Seq(C) /\ (head \o rest)[1] = "/"
          BY <1>5, <1>6, <5>1
        <5>3. QED
          BY <5>2 DEF head
      <4>6. ((base \o slash) \o more) \o rest = base \o tail
        <5>1. (base \o slash) \o more = base \o (slash \o more)
          BY <1>4, <1>6a, <4>1, <4>3
        <5> DEFINE head == slash \o more
        <5> HIDE DEF head
        <5>2. head \in Seq(C)
          BY <4>4 DEF head
        <5>3. (base \o head) \o rest = base \o (head \o rest)
          BY <1>4, <1>5, <1>6a, <5>2
        <5>4. QED
          BY <5>1, <5>3 DEF head
      <4> HIDE DEF tail
      <4>7. final = base \o tail
        BY <1>2, <4>2, <4>6
      <4>8. QED
        BY <4>5, <4>7
    <3>3. QED
      BY <3>1, <3>2
  <2>2. Place(base \o tail) = Place(page) /\ BeginsWith(base \o tail, base)
    BY <2>1, BaseLeadsThere DEF base
  <2>3. QED
    BY <1>8, <2>1, <2>2 DEF final, base, path, url
<1>9. QED
  BY <1>7, <1>8

(* Texts of the same characters up to m begin with the same m of them.     *)
LEMMA SamePrefix ==
    ASSUME NEW C, NEW a \in Seq(C), NEW b \in Seq(C), NEW m \in Nat, m =< Len(a), m =< Len(b),
           \A i \in 1 .. m : a[i] = b[i]
    PROVE  SubSeq(a, 1, m) = SubSeq(b, 1, m)
<1> DEFINE p == SubSeq(a, 1, m)
           q == SubSeq(b, 1, m)
<1>1. m \in 0 .. Len(a) /\ m \in 0 .. Len(b)
  OBVIOUS
<1>2. p \in Seq(C) /\ Len(p) = m /\ \A i \in 1 .. m : p[i] = a[i]
  BY <1>1, PrefixIs
<1>3. q \in Seq(C) /\ Len(q) = m /\ \A i \in 1 .. m : q[i] = b[i]
  BY <1>1, PrefixIs
<1> HIDE DEF p, q
<1>4. \A i \in 1 .. Len(p) : p[i] = q[i]
  BY <1>2, <1>3
<1>5. p = q
  BY <1>2, <1>3, <1>4, SeqEqual
<1>6. QED
  BY <1>5 DEF p, q

(* A link that begins with a scheme, the name of a host, and names between *)
(* single slashes, of which the last occurs only at the end.               *)
LeadsAway(link) ==
    LET scheme == http_prefix(link)
        rest == erase(link, Len(scheme))
        names == DropSlash(rest)
    IN /\ scheme # <<>> /\ BeginsWith(link, scheme)
       /\ Until(rest, {"/"}) # <<>> /\ ~ Has(rest, <<"/", "/">>)
       /\ \A i \in DOMAIN names : names[i] = "/" => find(names, From(names, i)) = i

(* What DropSlash takes from such a link, once, is not among the host and  *)
(* leaves the scheme and the names.                                        *)
LEMMA DroppedLink ==
    ASSUME NEW C, WritesAddresses(C), NEW link \in Seq(C), LeadsAway(link)
    PROVE  LET scheme == http_prefix(link)
               rest == erase(link, Len(scheme))
               url == DropSlash(link)
           IN /\ url \in Seq(C) /\ DropSlash(url) = url /\ http_prefix(url) = scheme
              /\ erase(url, Len(scheme)) = DropSlash(rest)
              /\ rest \in Seq(C)
              /\ \E h \in 1 .. Len(DropSlash(rest)) :
                    /\ Until(rest, {"/"}) = SubSeq(rest, 1, h)
                    /\ \A i \in 1 .. h : DropSlash(rest)[i] # "/"
                    /\ h < Len(DropSlash(rest)) => DropSlash(rest)[h + 1] = "/"
                    /\ h =< Len(rest) /\ \A i \in 1 .. h : rest[i] = DropSlash(rest)[i]
<1> DEFINE scheme == http_prefix(link)
           L == Len(scheme)
           rest == erase(link, L)
           url == DropSlash(link)
           n == Len(link)
           path == erase(url, L)
           names == DropSlash(rest)
           pair == <<"/", "/">>
<1>1. L \in 0 .. n /\ n \in Nat /\ L \in Nat /\ L =< n
  <2>1. L \in 0 .. n
    BY PrefixFits
  <2>2. n \in Nat
    OBVIOUS
  <2> HIDE DEF L, n
  <2>3. QED
    BY <2>1, <2>2
<1>2. BeginsWith(link, scheme) /\ Until(rest, {"/"}) # <<>> /\ ~ Has(rest, pair)
  BY DEF LeadsAway
<1> HIDE DEF scheme, L
<1>3. rest \in Seq(C) /\ Len(rest) = n - L /\ \A i \in 1 .. n - L : rest[i] = link[L + i]
  BY <1>1, SuffixIs DEF erase, From
<1>4. PICK m \in 0 .. n : /\ url = SubSeq(link, 1, m)
                          /\ m \in {n - 1, n}
                          /\ m = n - 1 => link[n] = "/"
                          /\ m = n /\ m # 0 => link[m] # "/"
  BY DropIs
<1> HIDE DEF rest, url
<1>5. PICK h \in 0 .. Len(rest) : /\ Until(rest, {"/"}) = SubSeq(rest, 1, h)
                                  /\ \A i \in 1 .. h : rest[i] \notin {"/"}
                                  /\ h < Len(rest) => rest[h + 1] \in {"/"}
  BY <1>3, UntilIs
<1>6. h # 0
  <2>1. SubSeq(rest, 1, 0) = <<>>
    BY <1>3, SubSeqEmpty
  <2>2. QED
    BY <1>2, <1>5, <2>1
<1> HIDE DEF n
<1>7. h \in Nat /\ 1 =< h /\ L + h =< n /\ m \in Nat /\ m =< n /\ n - 1 =< m
  BY <1>1, <1>3, <1>4, <1>5, <1>6
<1>8. \A i \in 1 .. h : link[L + i] # "/"
  <2>1. \A i \in 1 .. h : i \in 1 .. n - L
    BY <1>1, <1>7
  <2>2. QED
    BY <1>3, <1>5, <2>1
<1>9. L + h =< m
  <2>1. CASE m = n
    BY <1>7, <2>1
  <2>2. CASE m = n - 1
    <3>1. h \in 1 .. h
      BY <1>7
    <3>2. L + h # n
      BY <1>4, <1>8, <2>2, <3>1
    <3>3. QED
      BY <1>1, <1>7, <2>2, <3>2
  <2>3. QED
    BY <1>4, <2>1, <2>2
<1>10. url \in Seq(C) /\ Len(url) = m /\ \A i \in 1 .. m : url[i] = link[i]
  BY <1>4, PrefixIs DEF n
<1>11. http_prefix(url) = scheme
  <2>1. m \in 0 .. Len(link) /\ Len(scheme) =< m
    BY <1>1, <1>4, <1>7, <1>9 DEF n, L
  <2>2. QED
    BY <1>2, <1>4, <2>1, PrefixOfPrefix DEF scheme
<1>12. url[m] # "/"
  <2>1. m # 0 /\ m \in 1 .. m
    BY <1>1, <1>7, <1>9
  <2>2. CASE m = n
    BY <1>4, <1>10, <2>1, <2>2
  <2>3. CASE m = n - 1
    <3> SUFFICES ASSUME link[m] = "/"
                 PROVE  FALSE
      BY <1>10, <2>1
    <3>1. m # L + h
      <4>1. h \in 1 .. h
        BY <1>7
      <4>2. QED
        BY <1>8, <4>1
    <3>2. m - L \in 1 .. n - L /\ L + (m - L) = m /\ (m - L) + 1 \in 1 .. n - L /\ L + ((m - L) + 1) = n
      BY <1>1, <1>7, <1>9, <2>3, <3>1
    <3>3. rest[m - L] = "/" /\ rest[(m - L) + 1] = "/"
      BY <1>3, <1>4, <2>3, <3>2
    <3>4. pair \in Seq(C) /\ Len(pair) = 2 /\ pair[1] = "/" /\ pair[2] = "/"
      BY DEF WritesAddresses
    <3>5. OccursAt(rest, pair, m - L)
      <4>1. m - L \in 1 .. Len(rest) - Len(pair) + 1
        BY <1>1, <1>3, <1>7, <2>3, <3>2, <3>4
      <4>2. (m - L) + 1 - 1 = m - L /\ (m - L) + 2 - 1 = (m - L) + 1
        BY <3>2
      <4>3. \A k \in 1 .. Len(pair) : k = 1 \/ k = 2
        BY <3>4
      <4>4. \A k \in 1 .. Len(pair) : rest[(m - L) + k - 1] = pair[k]
        BY <3>3, <3>4, <4>2, <4>3
      <4>5. QED
        BY <4>1, <4>4 DEF OccursAt
    <3>6. Has(rest, pair)
      BY <1>3, <3>4, <3>5, BeginsIs
    <3>7. QED
      BY <1>2, <3>6
  <2>4. QED
    BY <1>4, <2>2, <2>3
<1>13. DropSlash(url) = url
  <2>1. Last(url) # "/"
    BY <1>10, <1>12 DEF Last
  <2>2. QED
    BY <2>1 DEF DropSlash
<1>14. path \in Seq(C) /\ Len(path) = m - L /\ \A i \in 1 .. m - L : path[i] = link[L + i]
  <2>1. L \in 0 .. Len(url)
    BY <1>1, <1>7, <1>9, <1>10
  <2>2. path \in Seq(C) /\ Len(path) = m - L /\ \A i \in 1 .. m - L : path[i] = url[L + i]
    BY <1>10, <2>1, SuffixIs DEF erase, From
  <2>3. \A i \in 1 .. m - L : L + i \in 1 .. m
    BY <1>1, <1>7
  <2> HIDE DEF path
  <2>4. QED
    BY <1>10, <2>2, <2>3
<1> HIDE DEF path
<1>15. names = path
  <2>1. PICK q \in 0 .. Len(rest) : /\ names = SubSeq(rest, 1, q)
                                    /\ q \in {Len(rest) - 1, Len(rest)}
                                    /\ q = Len(rest) - 1 => rest[Len(rest)] = "/"
                                    /\ q = Len(rest) /\ q # 0 => rest[q] # "/"
    BY <1>3, DropIs
  <2>2. names \in Seq(C) /\ Len(names) = q /\ \A i \in 1 .. q : names[i] = rest[i]
    BY <1>3, <2>1, PrefixIs
  <2> HIDE DEF names
  <2>3. rest[n - L] = link[n] /\ n - L # 0 /\ n # 0
    <3>1. n - L \in 1 .. n - L /\ L + (n - L) = n
      BY <1>1, <1>7
    <3>2. QED
      BY <1>1, <1>3, <3>1
  <2>4. q = m - L
    <3>1. q \in {n - L - 1, n - L} /\ (q = n - L - 1 => link[n] = "/") /\ (q = n - L => link[n] # "/")
      BY <1>3, <2>1, <2>3
    <3>2. (m = n - 1 => link[n] = "/") /\ (m = n => link[n] # "/") /\ m \in {n - 1, n}
      BY <1>4, <2>3
    <3>3. CASE link[n] = "/"
      BY <1>1, <3>1, <3>2, <3>3
    <3>4. CASE link[n] # "/"
      BY <1>1, <3>1, <3>2, <3>4
    <3>5. QED
      BY <3>3, <3>4
  <2>5. \A i \in 1 .. m - L : i \in 1 .. n - L
    BY <1>1, <1>7
  <2>6. \A i \in 1 .. Len(names) : names[i] = path[i]
    BY <1>3, <1>14, <2>2, <2>4, <2>5
  <2>7. QED
    BY <1>14, <2>2, <2>4, <2>6, SeqEqual
<1>16. /\ h \in 1 .. Len(path)
       /\ \A i \in 1 .. h : path[i] # "/"
       /\ h < Len(path) => path[h + 1] = "/"
       /\ h =< Len(rest) /\ \A i \in 1 .. h : rest[i] = path[i]
  <2>1. h \in 1 .. m - L /\ h =< n - L /\ \A i \in 1 .. h : i \in 1 .. m - L /\ i \in 1 .. n - L
    BY <1>1, <1>7, <1>9
  <2>2. h < m - L => h < n - L /\ h + 1 \in 1 .. m - L /\ h + 1 \in 1 .. n - L
    BY <1>1, <1>7
  <2>3. h < m - L => path[h + 1] = "/"
    BY <1>3, <1>5, <1>14, <2>2
  <2>4. QED
    BY <1>3, <1>8, <1>14, <2>1, <2>3
<1> HIDE DEF names
<1>17. QED
  BY <1>3, <1>5, <1>10, <1>11, <1>13, <1>15, <1>16 DEF names, path, scheme, L, rest, url

(* Such a link leads where it says.                                        *)
LEMMA AbsoluteLink ==
    ASSUME NEW C, WritesAddresses(C), NEW link \in Seq(C), LeadsAway(link), NEW base
    PROVE  Place(final_url(link, base)) = Place(link)
<1> DEFINE scheme == http_prefix(link)
           L == Len(scheme)
           rest == erase(link, L)
           url == DropSlash(link)
           path == DropSlash(rest)
           final == final_url(link, base)
<1>1. /\ url \in Seq(C) /\ DropSlash(url) = url /\ http_prefix(url) = scheme
      /\ erase(url, L) = path /\ rest \in Seq(C)
  BY DroppedLink
<1>2. PICK h \in 1 .. Len(path) :
        /\ Until(rest, {"/"}) = SubSeq(rest, 1, h)
        /\ \A i \in 1 .. h : path[i] # "/"
        /\ h < Len(path) => path[h + 1] = "/"
        /\ h =< Len(rest) /\ \A i \in 1 .. h : rest[i] = path[i]
  BY DroppedLink
<1>3. /\ scheme # <<>> /\ BeginsWith(link, scheme) /\ Until(rest, {"/"}) # <<>>
      /\ \A i \in DOMAIN path : path[i] = "/" => find(path, From(path, i)) = i
  BY DEF LeadsAway
<1>4. scheme \in {Http, Https} /\ scheme \in Seq(C) /\ L \in Nat
  BY <1>3, PrefixFits
<1>5. final = complete_url(get_base_path(url), base) \o erase(url, Len(get_base_path(url)))
  BY DEF final_url
<1>6. Place(link) = [type |-> TypeOf(scheme), host |-> Until(rest, {"/"})]
  <2> HIDE DEF scheme
  <2>1. QED
    BY <1>3, <1>4, PlaceIs
<1> HIDE DEF scheme, rest, url, path, final
<1>7. PICK cut : get_base_path(url) = scheme \o Collapse(cut, "/") /\ (cut = path \/ \E e : CutOut(path, cut, e))
  <2>1. \E cut : /\ get_base_path(url) = http_prefix(DropSlash(url)) \o Collapse(cut, "/")
                 /\ \/ cut = erase(DropSlash(url), Len(http_prefix(DropSlash(url))))
                    \/ \E e : CutOut(erase(DropSlash(url), Len(http_prefix(DropSlash(url)))), cut, e)
    BY <1>1, BasePathIs
  <2>2. QED
    BY <1>1, <2>1
<1> DEFINE kept == Collapse(cut, "/")
           new == scheme \o kept
           more == erase(url, Len(new))
           x == kept \o more
<1>8. path \in Seq(C)
  BY <1>1, <1>4, EraseType
<1>9. /\ kept \in Seq(C) /\ h =< Len(kept)
      /\ \A i \in 1 .. h : kept[i] = path[i]
      /\ h < Len(kept) => kept[h + 1] = "/"
  BY <1>2, <1>3, <1>7, <1>8, BaseKeepsHost
<1> HIDE DEF kept
<1>10. \A a, b \in Seq(C) : /\ a \o b \in Seq(C) /\ Len(a \o b) = Len(a) + Len(b)
                            /\ \A i \in 1 .. Len(a) : (a \o b)[i] = a[i]
                            /\ \A i \in 1 .. Len(b) : (a \o b)[Len(a) + i] = b[i]
  OBVIOUS
<1>10a. \A a, b, c \in Seq(C) : (a \o b) \o c = a \o (b \o c)
  BY JoinedOfThree, SMTT(30)
<1>11. new \in Seq(C) /\ Len(new) = L + Len(kept) /\ BeginsWith(new, scheme)
  BY <1>4, <1>9, <1>10, BeginsWithFirst
<1>12. h \in Nat /\ h # 0 /\ h =< Len(path) /\ Len(kept) \in Nat /\ Len(path) \in Nat
  BY <1>2, <1>8, <1>9
<1>13. complete_url(new, base) = new
  <2>1. new # <<>>
    BY <1>4, <1>9, <1>11, <1>12
  <2> HIDE DEF new
  <2>2. \E prefix \in {Https, Http, Www} : BeginsWith(new, prefix)
    BY <1>4, <1>11
  <2>3. QED
    BY <2>1, <2>2 DEF complete_url
<1>14. more \in Seq(C)
  <2>1. Len(new) \in Nat
    BY <1>11
  <2> HIDE DEF new
  <2>2. QED
    BY <1>1, <2>1, EraseType
<1>15. final = scheme \o x
  <2>1. final = new \o more
    BY <1>5, <1>7, <1>13 DEF kept
  <2> HIDE DEF more
  <2>2. new \o more = scheme \o x
    BY <1>4, <1>9, <1>14, <1>10a
  <2>3. QED
    BY <2>1, <2>2
<1>16. h = Len(kept) /\ more # <<>> => more[1] = "/"
  <2> SUFFICES ASSUME h = Len(kept), more # <<>>
               PROVE  more[1] = "/"
    OBVIOUS
  <2>1. Len(url) \in Nat /\ Len(new) = L + h /\ Len(more) # 0 /\ Len(more) \in Nat
    BY <1>1, <1>11, <1>14
  <2>2. more = SubSeq(url, L + h + 1, Len(url))
    BY <2>1 DEF erase, From
  <2> DEFINE k == L + h
  <2>3. k \in 0 .. Len(url)
    <3>1. CASE k =< Len(url)
      BY <1>4, <1>12, <2>1, <3>1
    <3>2. CASE ~ (k =< Len(url))
      <4>1. Len(url) \in Int /\ k + 1 \in Int /\ Len(url) < k + 1
        BY <1>4, <1>12, <2>1, <3>2
      <4>2. SubSeq(url, k + 1, Len(url)) = <<>>
        BY <4>1, SubSeqEmpty
      <4>3. QED
        BY <2>2, <4>2
    <3>3. QED
      BY <3>1, <3>2
  <2>4. path = SubSeq(url, L + 1, Len(url))
    BY <1>1 DEF erase, From
  <2>5. L \in 0 .. Len(url) /\ k \in Nat /\ L =< k
    BY <1>4, <1>12, <2>3
  <2> HIDE DEF k, more
  <2>6. Len(more) = Len(url) - k /\ \A i \in 1 .. Len(url) - k : more[i] = url[k + i]
    BY <1>1, <2>2, <2>3, SuffixIs DEF k
  <2>7. Len(path) = Len(url) - L /\ \A i \in 1 .. Len(url) - L : path[i] = url[L + i]
    BY <1>1, <2>4, <2>5, SuffixIs
  <2>8. /\ 1 \in 1 .. Len(url) - k /\ h + 1 \in 1 .. Len(url) - L /\ L + (h + 1) = k + 1 /\ h < Len(path)
    BY <1>4, <1>12, <2>1, <2>5, <2>6, <2>7 DEF k
  <2>9. QED
    BY <1>2, <2>6, <2>7, <2>8
<1> HIDE DEF new, more
<1>17. x \in Seq(C) /\ Len(x) = Len(kept) + Len(more) /\ Len(more) \in Nat
       /\ (\A i \in 1 .. Len(kept) : x[i] = kept[i]) /\ (\A i \in 1 .. Len(more) : x[Len(kept) + i] = more[i])
  BY <1>9, <1>10, <1>14
<1> HIDE DEF x
<1>18. Until(x, {"/"}) = SubSeq(x, 1, h)
  <2>1. h \in 0 .. Len(x) /\ \A i \in 1 .. h : i \in 1 .. Len(kept)
    BY <1>9, <1>12, <1>17
  <2>2. \A i \in 1 .. h : x[i] \notin {"/"}
    BY <1>2, <1>9, <1>17, <2>1
  <2>3. h < Len(x) => x[h + 1] \in {"/"}
    <3>1. CASE h < Len(kept)
      <4>1. h + 1 \in 1 .. Len(kept)
        BY <1>12, <3>1
      <4>2. QED
        BY <1>9, <1>17, <3>1, <4>1
    <3>2. CASE h = Len(kept) /\ h < Len(x)
      <4>1. 1 \in 1 .. Len(more) /\ more # <<>>
        BY <1>12, <1>14, <1>17, <3>2
      <4>2. x[h + 1] = more[1]
        BY <1>17, <3>2, <4>1
      <4>3. QED
        BY <1>16, <3>2, <4>1, <4>2
    <3>3. QED
      BY <1>9, <1>12, <3>1, <3>2
  <2>4. QED
    BY <1>17, <2>1, <2>2, <2>3, UntilIsThat
<1>19. SubSeq(x, 1, h) = SubSeq(rest, 1, h)
  <2>1. h =< Len(x) /\ \A i \in 1 .. h : x[i] = rest[i]
    <3>1. \A i \in 1 .. h : i \in 1 .. Len(kept)
      BY <1>9, <1>12
    <3>2. QED
      BY <1>2, <1>9, <1>12, <1>17, <3>1
  <2>2. QED
    BY <1>1, <1>2, <1>12, <1>17, <2>1, SamePrefix
<1>20. final \in Seq(C) /\ BeginsWith(final, scheme) /\ erase(final, Len(scheme)) = x
  BY <1>4, <1>10, <1>15, <1>17, BeginsWithFirst
<1>21. Until(x, {"/"}) = Until(rest, {"/"})
  BY <1>2, <1>18, <1>19
<1>22. Place(final) = [type |-> TypeOf(scheme), host |-> Until(x, {"/"})]
  <2>1. Until(erase(final, Len(scheme)), {"/"}) # <<>>
    BY <1>3, <1>20, <1>21
  <2>2. QED
    BY <1>4, <1>20, <2>1, PlaceIs
<1>23. QED
  BY <1>6, <1>21, <1>22 DEF final

(* The property of MCText for any alphabet, link and page: a link without  *)
(* a scheme leads to the host of its page and passes the check for it, or  *)
(* is not fetched; one with a scheme leads to the host it names, but for   *)
(* the exceptions that the property lists.                                 *)
THEOREM LinksOf ==
    ASSUME NEW C, WritesAddresses(C), NEW link \in Seq(C), NEW page \in Seq(C), IsAddress(page)
    PROVE  RelativeLinksStayOnHost(link, page)
<1> DEFINE base == get_base_host(page)
           url == final_url(link, base)
           scheme == http_prefix(link)
           rest == erase(link, Len(scheme))
           names == DropSlash(rest)
           www == BeginsWith(get_base_path(DropSlash(link)), Www)
<1>1. ASSUME scheme = <<>>
      PROVE  /\ ~ www => Place(url) = Place(page) /\ BeginsWith(url, base)
             /\ www => Place(url).type = "host_unknown"
  BY <1>1, RelativeLink
<1>2. ASSUME scheme # <<>>, BeginsWith(link, scheme), Until(rest, {"/"}) # <<>>, ~ Has(rest, <<"/", "/">>),
             \A i \in DOMAIN names : ~ (names[i] = "/" /\ find(names, From(names, i)) # i)
      PROVE  Place(url) = Place(link)
  <2>1. LeadsAway(link)
    BY <1>2 DEF LeadsAway
  <2>2. QED
    BY <2>1, AbsoluteLink
<1> HIDE DEF base, url, scheme, rest, names, www
<1>3. /\ scheme = <<>> /\ ~ www =>
            /\ Place(url) = Place(page)
            /\ check_this_host_only(base, url, TRUE)
      /\ scheme = <<>> /\ www => Place(url).type = "host_unknown"
      /\ \/ scheme = <<>>
         \/ ~ BeginsWith(link, scheme)
         \/ Until(rest, {"/"}) = <<>> \/ Has(rest, <<"/", "/">>)
         \/ \E i \in DOMAIN names : names[i] = "/" /\ find(names, From(names, i)) # i
         \/ Place(url) = Place(link)
  BY <1>1, <1>2 DEF check_this_host_only
<1>4. QED
  BY <1>3 DEF RelativeLinksStayOnHost, base, url, scheme, rest, names, www

-------------------------------------------------------------------------------
(* Requests: what is typed, what the browser makes of it, and the words.   *)

(* More characters that the SMT backend cannot read.                       *)
Tab == "\t"
Plus == "+"
Percent == "%"
Comma == ","

(* How form_encode writes a character.                                     *)
Code(c) ==
    IF c = Space THEN <<Plus>>
    ELSE IF c = Tab THEN <<Percent, "0", "9">>
    ELSE IF c = Comma THEN <<Percent, "2", "C">> ELSE <<c>>

(* The step of form_encode.                                                *)
put(done, c) == done \o Code(c)

(* The alphabet in which what is typed is sent.                            *)
Sent(C) == C \cup {Plus, Percent, "0", "9", "2", "C"}

(* It only collects characters.                                            *)
LEMMA PutType ==
    ASSUME NEW C, NEW done \in Seq(Sent(C)), NEW c \in C
    PROVE  put(done, c) \in Seq(Sent(C)) /\ Code(c) \in Seq(Sent(C))
<1>1. {c, Plus, Percent, "0", "9", "2", "C"} \subseteq Sent(C)
  BY DEF Sent
<1>2. Code(c) \in Seq(Sent(C))
  BY <1>1 DEF Code
<1>3. QED
  BY <1>2 DEF put

(* The fold goes through what is typed for every number of characters.     *)
LEMMA EncodeFold ==
    ASSUME NEW C, NEW s \in Seq(C)
    PROVE  \E r : /\ r \in [0 .. Len(s) -> Seq(Sent(C))]
                  /\ r[0] = <<>>
                  /\ \A k \in 1 .. Len(s) : r[k] = put(r[k - 1], s[k])
                  /\ form_encode(s) = field_name \o r[Len(s)]
<1> DEFINE base == <<>>
           n == Len(s)
           A == Seq(Sent(C))
           code == [c \in ToSet(s) |->
                    CASE c = Space -> <<Plus>> [] c = Tab -> <<Percent, "0", "9">>
                      [] c = Comma -> <<Percent, "2", "C">> [] OTHER -> <<c>>]
           F == [p \in A \X (1 .. n) |-> put(p[1], s[p[2]])]
           Solves(g) == g = [t \in SUBSET (1 .. n) |->
                                IF t = {} THEN base ELSE g[t \ {Max(t)}] \o code[s[Max(t)]]]
           iter == CHOOSE g : Solves(g)
<1>1. n \in Nat /\ DOMAIN s = 1 .. n /\ \A i \in 1 .. n : s[i] \in C
  OBVIOUS
<1>2. F \in [A \X (1 .. n) -> A]
  BY <1>1, PutType
<1>3. \A a \in A, i \in 1 .. n : F[<<a, i>>] = put(a, s[i])
  OBVIOUS
<1>3a. \A i \in 1 .. n : code[s[i]] = Code(s[i])
  <2>1. ASSUME NEW c \in ToSet(s)
        PROVE  code[c] = Code(c)
    <3>1. Space # Tab /\ Space # Comma /\ Tab # Comma
      BY Zenon DEF Space, Tab, Comma
    <3>2. QED
      BY <3>1 DEF Code
  <2>2. \A i \in 1 .. n : s[i] \in ToSet(s)
    BY <1>1 DEF ToSet
  <2>3. QED
    BY <2>1, <2>2
<1>4. base \in A
  OBVIOUS
<1>5. FoldLeft(LAMBDA done, c : done \o code[c], <<>>, s) = iter[1 .. n]
  <2> HIDE DEF code
  <2>1. QED
    BY <1>1 DEF FoldLeft, MapThenFoldSet, base
<1>6. form_encode(s) = field_name \o FoldLeft(LAMBDA done, c : done \o code[c], <<>>, s)
  BY Zenon DEF form_encode, Space, Plus, Tab, Percent, Comma
<1> HIDE DEF n, A, F, base, code
<1>7. PICK g : Folds(g, A, base, n, F)
  BY <1>1, <1>2, <1>4, FoldIterates
<1>8. \A t \in SUBSET (1 .. n) : t # {} => Max(t) \in 1 .. n
  BY <1>1, MaxInRange
<1>9. Solves(g)
  BY <1>3, <1>3a, <1>7, <1>8 DEF Folds, put
<1>10. Solves(iter)
  BY <1>9
<1> HIDE DEF iter
<1>11. Recurs(iter, A, base, n, F)
  <2>1. iter[{}] = base
    BY <1>10
  <2>2. ASSUME NEW t \in SUBSET (1 .. n), t # {}, iter[t \ {Max(t)}] \in A
        PROVE  iter[t] = F[<<iter[t \ {Max(t)}], Max(t)>>]
    <3> DEFINE done == iter[t \ {Max(t)}]
               i == Max(t)
    <3>1. iter[t] = done \o code[s[i]] /\ i \in 1 .. n
      BY <1>8, <1>10, <2>2
    <3> HIDE DEF done, i
    <3>2. iter[t] = put(done, s[i])
      BY <1>3a, <3>1 DEF put
    <3>3. F[<<done, i>>] = put(done, s[i])
      BY <1>3, <2>2, <3>1 DEF done
    <3>4. QED
      BY <3>2, <3>3 DEF done, i
  <2>3. QED
    BY <2>1, <2>2 DEF Recurs
<1>12. PICK r : IsRun(r, iter, A, base, n, F)
  BY <1>1, <1>2, <1>4, <1>11, FoldRuns
<1>13. \A k \in 1 .. n : r[k - 1] \in A /\ r[k] = put(r[k - 1], s[k])
  <2>1. \A k \in 1 .. n : k - 1 \in 0 .. n
    BY <1>1
  <2>2. QED
    BY <1>3, <1>12, <2>1 DEF IsRun, Iterates
<1>14. form_encode(s) = field_name \o r[n]
  BY <1>5, <1>6, <1>12 DEF IsRun
<1>15. QED
  BY <1>12, <1>13, <1>14 DEF IsRun, Iterates, n, A, base

(* The step of Tabs.                                                       *)
untab(done, c) ==
    IF c = "9" /\ IsSuffix(<<Percent, "0">>, done)
    THEN Append(SubSeq(done, 1, Len(done) - 2), Space) ELSE Append(done, c)

(* Two characters are a suffix if they are the last two.                   *)
LEMMA LastTwo ==
    ASSUME NEW C, NEW t \in Seq(C), NEW a, NEW b
    PROVE  IsSuffix(<<a, b>>, t) <=> Len(t) >= 2 /\ t[Len(t) - 1] = a /\ t[Len(t)] = b
<1> DEFINE n == Len(t)
           D == C \cup {a, b}
           x == Reverse(<<a, b>>)
           y == Reverse(t)
<1>1. n \in Nat /\ t \in Seq(D)
  OBVIOUS
<1>2. x \in Seq(D) /\ Len(x) = 2 /\ x[1] = b /\ x[2] = a
  BY DEF Reverse
<1>3. y \in Seq(D) /\ Len(y) = n /\ \A i \in 1 .. n : y[i] = t[n - i + 1]
  BY <1>1 DEF Reverse
<1>4. IsSuffix(<<a, b>>, t) <=> 2 =< n /\ SubSeq(x, 1, 2) = SubSeq(y, 1, 2)
  BY <1>2, <1>3 DEF IsSuffix, IsPrefix
<1> HIDE DEF x, y, n, D
<1>5. ASSUME 2 =< n
      PROVE  /\ SubSeq(x, 1, 2) = SubSeq(y, 1, 2) <=> x[1] = y[1] /\ x[2] = y[2]
             /\ y[1] = t[n] /\ y[2] = t[n - 1]
  <2>1. 2 \in 0 .. Len(x) /\ 2 \in 0 .. Len(y) /\ 1 \in 1 .. n /\ 2 \in 1 .. n /\ n - 1 + 1 = n /\ n - 2 + 1 = n - 1
    BY <1>1, <1>2, <1>3, <1>5
  <2> DEFINE p == SubSeq(x, 1, 2)
             q == SubSeq(y, 1, 2)
  <2>2. p \in Seq(D) /\ Len(p) = 2 /\ \A i \in 1 .. 2 : p[i] = x[i]
    BY <1>2, <2>1, PrefixIs
  <2>3. q \in Seq(D) /\ Len(q) = 2 /\ \A i \in 1 .. 2 : q[i] = y[i]
    BY <1>3, <2>1, PrefixIs
  <2> HIDE DEF p, q
  <2>4. x[1] = y[1] /\ x[2] = y[2] => \A i \in 1 .. Len(p) : p[i] = q[i]
    BY <2>2, <2>3
  <2>5. x[1] = y[1] /\ x[2] = y[2] => p = q
    BY <2>2, <2>3, <2>4, SeqEqual
  <2>6. p = q => x[1] = y[1] /\ x[2] = y[2]
    BY <2>2, <2>3
  <2>7. QED
    BY <1>3, <2>1, <2>5, <2>6 DEF p, q
<1>6. QED
  BY <1>1, <1>2, <1>4, <1>5 DEF n

(* It only collects characters, and spaces.                                *)
LEMMA UntabType ==
    ASSUME NEW D, Space \in D, NEW done \in Seq(D), NEW c \in D
    PROVE  untab(done, c) \in Seq(D)
<1>1. CASE IsSuffix(<<Percent, "0">>, done)
  <2>1. Len(done) - 2 \in 0 .. Len(done)
    BY <1>1, LastTwo
  <2>2. SubSeq(done, 1, Len(done) - 2) \in Seq(D)
    BY <2>1, PrefixIs
  <2>3. QED
    BY <2>2 DEF untab
<1>2. CASE ~ IsSuffix(<<Percent, "0">>, done)
  BY <1>2 DEF untab
<1>3. QED
  BY <1>1, <1>2

(* The fold goes through what is sent for every number of characters.      *)
LEMMA TabsFold ==
    ASSUME NEW D, Space \in D, NEW s \in Seq(D)
    PROVE  \E r : /\ r \in [0 .. Len(s) -> Seq(D)]
                  /\ r[0] = <<>>
                  /\ \A k \in 1 .. Len(s) : r[k] = untab(r[k - 1], s[k])
                  /\ r[Len(s)] = Tabs(s)
<1> DEFINE base == <<>>
           n == Len(s)
           A == Seq(D)
           F == [p \in A \X (1 .. n) |-> untab(p[1], s[p[2]])]
           Solves(g) == g = [t \in SUBSET (1 .. n) |->
                                IF t = {} THEN base ELSE untab(g[t \ {Max(t)}], s[Max(t)])]
           iter == CHOOSE g : Solves(g)
<1>1. n \in Nat /\ DOMAIN s = 1 .. n /\ \A i \in 1 .. n : s[i] \in D
  OBVIOUS
<1>2. F \in [A \X (1 .. n) -> A]
  BY <1>1, UntabType
<1>3. \A a \in A, i \in 1 .. n : F[<<a, i>>] = untab(a, s[i])
  OBVIOUS
<1>4. base \in A
  OBVIOUS
<1>5. Tabs(s) = FoldLeft(LAMBDA done, c : untab(done, c), <<>>, s)
  BY Zenon DEF Tabs, untab, Percent, Space
<1> HIDE DEF n, A, F, base
<1>6. PICK g : Folds(g, A, base, n, F)
  BY <1>1, <1>2, <1>4, FoldIterates
<1>7. \A t \in SUBSET (1 .. n) : t # {} => Max(t) \in 1 .. n
  BY <1>1, MaxInRange
<1>8. Solves(g)
  BY <1>3, <1>6, <1>7 DEF Folds
<1>9. Solves(iter)
  BY <1>8
<1>10. Tabs(s) = iter[1 .. n]
  BY <1>1, <1>5 DEF FoldLeft, MapThenFoldSet, base
<1> HIDE DEF iter
<1>11. Recurs(iter, A, base, n, F)
  BY <1>3, <1>7, <1>9 DEF Recurs
<1>12. PICK r : IsRun(r, iter, A, base, n, F)
  BY <1>1, <1>2, <1>4, <1>11, FoldRuns
<1>13. \A k \in 1 .. n : r[k - 1] \in A /\ r[k] = untab(r[k - 1], s[k])
  <2>1. \A k \in 1 .. n : k - 1 \in 0 .. n
    BY <1>1
  <2>2. QED
    BY <1>3, <1>12, <2>1 DEF IsRun, Iterates
<1>14. QED
  BY <1>10, <1>12, <1>13 DEF IsRun, Iterates, n, A, base

(* Of the signs, C has those that the browser sends as they are, and the   *)
(* comma; and nothing that is used to encode the others.                   *)
CanBeTyped(C) == C \cap (Signs \cup {"\\", "]"}) \subseteq {".", "_", "*", "-", Comma}

(* What Tabs leaves of what is sent for a character.                       *)
Received(c) == IF c = Space THEN Plus ELSE IF c = Tab THEN Space ELSE c

(* What is typed, received, as far as the first k characters.              *)
ReceivedUpTo(s, k, done) == Len(done) = k /\ \A i \in 1 .. k : done[i] = Received(s[i])

(* The characters that encode others are not typed.                        *)
LEMMA NotTyped ==
    ASSUME NEW C, CanBeTyped(C)
    PROVE  /\ Percent \notin C /\ Plus \notin C
           /\ Percent # Plus /\ Percent # Space /\ Percent # "9" /\ Percent # "0" /\ "0" # "9"
           /\ Plus # "9" /\ Tab # Space
<1>1. {Percent, Plus} \subseteq Signs
  BY Zenon DEF Percent, Plus, Signs
<1>2. Percent \notin {".", "_", "*", "-", Comma} /\ Plus \notin {".", "_", "*", "-", Comma}
  BY Zenon DEF Percent, Plus, Comma
<1>3. /\ Percent # Plus /\ Percent # Space /\ Percent # "9" /\ Percent # "0" /\ "0" # "9"
      /\ Plus # "9" /\ Tab # Space
  BY Zenon DEF Percent, Plus, Space, Tab
<1> DEFINE All == Signs \cup {"\\", "]"}
           Few == {".", "_", "*", "-", Comma}
<1>4. C \cap All \subseteq Few /\ {Percent, Plus} \subseteq All
  BY <1>1, Zenon DEF CanBeTyped
<1> HIDE DEF All, Few
<1>5. Percent \notin Few /\ Plus \notin Few
  BY <1>2 DEF Few
<1>6. Percent \notin C /\ Plus \notin C
  BY <1>4, <1>5
<1>7. QED
  BY <1>3, <1>6

(* What is sent for a character becomes what is received for it.           *)
LEMMA ReceiveStep ==
    ASSUME NEW C, CanBeTyped(C), NEW D, Space \in D, NEW s \in Seq(C), NEW k \in 1 .. Len(s), s[k] # Comma,
           NEW done \in Seq(D), ReceivedUpTo(s, k - 1, done),
           NEW f, NEW from \in Nat, f[from] = done,
           \A i \in 1 .. Len(Code(s[k])) : f[from + i] = untab(f[from + i - 1], Code(s[k])[i]),
           \A i \in 0 .. Len(Code(s[k])) : f[from + i] \in Seq(D)
    PROVE  ReceivedUpTo(s, k, f[from + Len(Code(s[k]))])
<1> DEFINE c == s[k]
           L == k - 1
<1>1. c \in C /\ L \in Nat /\ L + 1 = k /\ Len(done) = L /\ \A i \in 1 .. L : done[i] = Received(s[i])
  BY DEF ReceivedUpTo
<1>2. /\ Percent \notin C /\ Plus \notin C
      /\ Percent # Plus /\ Percent # Space /\ Percent # "9" /\ Percent # "0" /\ "0" # "9"
      /\ Plus # "9" /\ Tab # Space
  BY NotTyped
<1>3. \A i \in 1 .. L : done[i] # Percent
  <2>1. \A i \in 1 .. L : s[i] \in C
    BY <1>1
  <2>2. QED
    BY <1>1, <1>2, <2>1 DEF Received
<1>4. ~ IsSuffix(<<Percent, "0">>, done)
  <2>1. IsSuffix(<<Percent, "0">>, done) => Len(done) >= 2 /\ done[Len(done) - 1] = Percent
    BY LastTwo
  <2>2. Len(done) >= 2 => Len(done) - 1 \in 1 .. L
    BY <1>1
  <2>3. QED
    BY <1>3, <2>1, <2>2
<1>5. \A x : untab(done, x) = Append(done, x)
  BY <1>4 DEF untab
<1>6. ASSUME NEW x, NEW next, next \in Seq(D), next = Append(done, x), x = Received(c)
      PROVE  ReceivedUpTo(s, k, next)
  <2>1. Len(next) = L + 1 /\ next[L + 1] = x /\ \A i \in 1 .. L : next[i] = done[i]
    BY <1>1, <1>6
  <2>2. \A i \in 1 .. k : i \in 1 .. L \/ i = k
    BY <1>1
  <2>3. QED
    BY <1>1, <1>6, <2>1, <2>2 DEF ReceivedUpTo
<1>7. CASE c # Tab
  <2>1. Code(c) = <<Received(c)>>
    BY <1>7 DEF Code, Received
  <2>2. Len(Code(c)) = 1 /\ Code(c)[1] = Received(c) /\ 1 \in 1 .. 1 /\ 1 \in 0 .. 1 /\ from + 1 - 1 = from
    BY <2>1
  <2>3. f[from + 1] = Append(done, Received(c)) /\ f[from + 1] \in Seq(D)
    BY <1>5, <2>2
  <2>4. QED
    BY <1>6, <2>2, <2>3
<1>8. CASE c = Tab
  <2> DEFINE w == Code(c)
             one == f[from + 1]
             two == f[from + 2]
             three == f[from + 3]
  <2>1. w = <<Percent, "0", "9">>
    BY <1>2, <1>8 DEF Code
  <2>2. Len(w) = 3 /\ w[1] = Percent /\ w[2] = "0" /\ w[3] = "9"
    BY <2>1
  <2> HIDE DEF w
  <2>3. from + 1 - 1 = from /\ from + 2 - 1 = from + 1 /\ from + 3 - 1 = from + 2
    OBVIOUS
  <2>4. one = untab(done, Percent) /\ two = untab(one, "0") /\ three = untab(two, "9")
    BY <2>2, <2>3 DEF w
  <2>5. one \in Seq(D) /\ two \in Seq(D) /\ three \in Seq(D)
    BY <2>2 DEF w
  <2> HIDE DEF one, two, three
  <2>6. one = Append(done, Percent)
    BY <1>5, <2>4
  <2>7. two = Append(one, "0")
    BY <1>2, <2>4 DEF untab
  <2>8. Len(one) = L + 1 /\ one[L + 1] = Percent /\ \A i \in 1 .. L : one[i] = done[i]
    BY <1>1, <2>5, <2>6
  <2>9. Len(two) = L + 2 /\ two[L + 2] = "0" /\ two[L + 1] = Percent /\ \A i \in 1 .. L : two[i] = done[i]
    BY <1>1, <2>5, <2>7, <2>8
  <2>10. IsSuffix(<<Percent, "0">>, two)
    <3>1. Len(two) >= 2 /\ Len(two) - 1 = L + 1
      BY <1>1, <2>9
    <3>2. QED
      BY <2>5, <2>9, <3>1, LastTwo
  <2>11. three = Append(SubSeq(two, 1, L), Space)
    <3>1. Len(two) - 2 = L
      BY <1>1, <2>9
    <3>2. QED
      BY <2>4, <2>10, <3>1 DEF untab
  <2>12. SubSeq(two, 1, L) = done
    <3> DEFINE p == SubSeq(two, 1, L)
    <3>1. L \in 0 .. Len(two)
      BY <1>1, <2>9
    <3>2. p \in Seq(D) /\ Len(p) = L /\ \A i \in 1 .. L : p[i] = two[i]
      BY <2>5, <3>1, PrefixIs
    <3> HIDE DEF p, L
    <3>3. \A i \in 1 .. Len(p) : p[i] = done[i]
      BY <2>9, <3>2
    <3>4. p = done
      BY <1>1, <3>2, <3>3, SeqEqual
    <3>5. QED
      BY <3>4 DEF p
  <2>13. Received(c) = Space
    BY <1>2, <1>8 DEF Received
  <2>14. ReceivedUpTo(s, k, three)
    BY <1>6, <2>5, <2>11, <2>12, <2>13
  <2>15. QED
    BY <2>2, <2>14 DEF w, three
<1>9. QED
  BY <1>7, <1>8

(* The server reads what is typed, with a plus for a space and a space for *)
(* a tabulator.                                                            *)
LEMMA TabsOfEncoded ==
    ASSUME NEW C, CanBeTyped(C), NEW s \in Seq(C), \A i \in 1 .. Len(s) : s[i] # Comma
    PROVE  \E sent \in Seq(Sent(C) \cup {Space}) :
              /\ form_encode(s) = field_name \o sent
              /\ Tabs(sent) \in Seq(Sent(C) \cup {Space})
              /\ ReceivedUpTo(s, Len(s), Tabs(sent))
<1> DEFINE n == Len(s)
           D == Sent(C) \cup {Space}
<1>1. PICK e : /\ e \in [0 .. n -> Seq(Sent(C))]
               /\ e[0] = <<>>
               /\ \A k \in 1 .. n : e[k] = put(e[k - 1], s[k])
               /\ form_encode(s) = field_name \o e[n]
  BY EncodeFold
<1>2. n \in Nat /\ n \in 0 .. n /\ 0 \in 0 .. n /\ \A i \in 1 .. n : s[i] \in C
  OBVIOUS
<1>3. \A k \in 0 .. n : e[k] \in Seq(D)
  <2>1. \A x \in Seq(Sent(C)) : x \in Seq(D)
    OBVIOUS
  <2> HIDE DEF D
  <2>2. QED
    BY <1>1, <2>1
<1>4. \A k \in 1 .. n : Code(s[k]) \in Seq(D)
  <2>1. \A x \in Seq(Sent(C)) : x \in Seq(D)
    OBVIOUS
  <2>2. <<>> \in Seq(Sent(C))
    OBVIOUS
  <2> HIDE DEF D
  <2>3. QED
    BY <1>2, <2>1, <2>2, PutType
<1>5. Space \in D
  OBVIOUS
<1> DEFINE sent == e[n]
<1> HIDE DEF D, n
<1>6. sent \in Seq(D)
  BY <1>2, <1>3
<1>7. PICK r : /\ r \in [0 .. Len(sent) -> Seq(D)]
               /\ r[0] = <<>>
               /\ \A k \in 1 .. Len(sent) : r[k] = untab(r[k - 1], sent[k])
               /\ r[Len(sent)] = Tabs(sent)
  BY <1>5, <1>6, TabsFold
<1>8. \A a, b \in Seq(D) : /\ Len(a) \in Nat /\ Len(b) \in Nat /\ Len(a \o b) = Len(a) + Len(b)
                           /\ \A i \in 1 .. Len(a) : (a \o b)[i] = a[i]
                           /\ \A i \in 1 .. Len(b) : (a \o b)[Len(a) + i] = b[i]
  OBVIOUS
<1>9. \A k \in 1 .. n : k - 1 \in 0 .. n /\ k \in 0 .. n /\ e[k] = e[k - 1] \o Code(s[k])
  <2>1. \A k \in 1 .. n : k - 1 \in 0 .. n /\ k \in 0 .. n
    BY <1>2
  <2>2. \A k \in 1 .. n : put(e[k - 1], s[k]) = e[k - 1] \o Code(s[k])
    BY DEF put
  <2>3. QED
    BY <1>1, <2>1, <2>2
<1>10. ASSUME NEW k \in 0 .. n
       PROVE  Len(e[k]) =< Len(sent) /\ \A i \in 1 .. Len(e[k]) : sent[i] = e[k][i]
  <2> DEFINE S == {d \in 0 .. n - k : Len(e[k]) =< Len(e[k + d]) /\ \A i \in 1 .. Len(e[k]) : e[k + d][i] = e[k][i]}
  <2>1. 0 \in S
    <3>1. k + 0 = k /\ 0 \in 0 .. n - k /\ Len(e[k]) \in Nat
      BY <1>2, <1>3
    <3>2. QED
      BY <3>1
  <2>2. ASSUME NEW d \in 0 .. n - k - 1, d \in S
        PROVE  d + 1 \in S
    <3>1. k + (d + 1) \in 1 .. n /\ (k + (d + 1)) - 1 = k + d /\ k + d \in 0 .. n /\ d + 1 \in 0 .. n - k
      BY <1>2
    <3>2. e[k + (d + 1)] = e[k + d] \o Code(s[k + (d + 1)])
      BY <1>9, <3>1
    <3> DEFINE a == e[k + d]
               b == Code(s[k + (d + 1)])
               x == e[k]
    <3>3. a \in Seq(D) /\ b \in Seq(D) /\ x \in Seq(D)
      BY <1>3, <1>4, <3>1
    <3>4. Len(x) =< Len(a) /\ \A i \in 1 .. Len(x) : a[i] = x[i]
      BY <2>2
    <3> HIDE DEF a, b, x, S
    <3>5. Len(x) =< Len(a \o b) /\ \A i \in 1 .. Len(x) : (a \o b)[i] = x[i]
      <4>1. Len(a) \in Nat /\ Len(b) \in Nat /\ Len(x) \in Nat /\ Len(a \o b) = Len(a) + Len(b)
            /\ \A i \in 1 .. Len(a) : (a \o b)[i] = a[i]
        BY <1>8, <3>3
      <4>2. \A i \in 1 .. Len(x) : i \in 1 .. Len(a)
        BY <3>4, <4>1
      <4>3. QED
        BY <3>4, <4>1, <4>2
    <3>6. QED
      BY <3>1, <3>2, <3>5 DEF S, a, b, x
  <2>3. n - k \in Nat /\ k + (n - k) = n /\ n - k \in 0 .. n - k
    BY <1>2
  <2> HIDE DEF S
  <2>4. 0 .. n - k \subseteq S
    <3> DEFINE q == n - k
    <3>1. q \in Nat /\ \A d \in 0 .. q - 1 : d \in S => d + 1 \in S
      BY <2>2, <2>3
    <3> HIDE DEF q
    <3>2. 0 .. q \subseteq S
      BY <2>1, <3>1, RangeInduction
    <3>3. QED
      BY <3>2 DEF q
  <2>5. n - k \in S
    BY <2>3, <2>4
  <2>6. QED
    BY <2>3, <2>5 DEF S
<1> DEFINE T == {k \in 0 .. n : ReceivedUpTo(s, k, r[Len(e[k])])}
<1>11. 0 \in T
  <2>1. Len(e[0]) = 0 /\ r[0] = <<>> /\ Len(<<>>) = 0
    BY <1>1, <1>7
  <2>2. ReceivedUpTo(s, 0, r[Len(e[0])])
    BY <2>1 DEF ReceivedUpTo
  <2>3. QED
    BY <1>2, <2>2
<1>12. ASSUME NEW j \in 0 .. n - 1, j \in T
       PROVE  j + 1 \in T
  <2> DEFINE k == j + 1
             w == Code(s[k])
             from == Len(e[j])
             done == r[from]
  <2>1. k \in 1 .. n /\ k - 1 = j /\ j \in 0 .. n /\ k \in 0 .. n
    BY <1>2
  <2>2. ReceivedUpTo(s, j, done)
    BY <1>12
  <2> HIDE DEF T, k
  <2>3. e[k] = e[j] \o w /\ w \in Seq(D) /\ e[j] \in Seq(D)
    BY <1>3, <1>4, <1>9, <2>1
  <2>4. /\ from \in Nat /\ Len(w) \in Nat /\ Len(e[k]) = from + Len(w)
        /\ \A i \in 1 .. Len(w) : e[k][from + i] = w[i]
    <3> DEFINE a == e[j]
    <3> HIDE DEF w, a
    <3>1. a \in Seq(D) /\ w \in Seq(D)
      BY <2>3 DEF a
    <3>2. /\ Len(a) \in Nat /\ Len(w) \in Nat /\ Len(a \o w) = Len(a) + Len(w)
          /\ \A i \in 1 .. Len(w) : (a \o w)[Len(a) + i] = w[i]
      BY <1>8, <3>1
    <3>3. e[k] = a \o w /\ from = Len(a)
      BY <2>3 DEF a
    <3>4. QED
      BY <3>2, <3>3
  <2>5. Len(e[k]) =< Len(sent) /\ \A i \in 1 .. Len(e[k]) : sent[i] = e[k][i]
    BY <1>10, <2>1
  <2>6. Len(sent) \in Nat
    BY <1>6
  <2> HIDE DEF w, from, done, sent
  <2>7. \A i \in 1 .. Len(w) : from + i \in 1 .. Len(sent) /\ from + i \in 1 .. Len(e[k])
    BY <2>4, <2>5, <2>6
  <2>8. \A i \in 1 .. Len(w) : r[from + i] = untab(r[from + i - 1], w[i])
    BY <1>7, <2>4, <2>5, <2>7
  <2>9. \A i \in 0 .. Len(w) : r[from + i] \in Seq(D)
    <3>1. \A i \in 0 .. Len(w) : from + i \in 0 .. Len(sent)
      BY <2>4, <2>5, <2>6
    <3>2. QED
      BY <1>7, <3>1
  <2>10. done \in Seq(D) /\ r[from] = done
    <3>1. from \in 0 .. Len(sent)
      BY <2>4, <2>5, <2>6
    <3>2. QED
      BY <1>7, <3>1 DEF done
  <2>11. s[k] # Comma /\ k \in 1 .. Len(s) /\ ReceivedUpTo(s, k - 1, done)
    BY <2>1, <2>2 DEF n
  <2>12. ReceivedUpTo(s, k, r[from + Len(w)])
    BY <1>5, <2>4, <2>8, <2>9, <2>10, <2>11, ReceiveStep DEF w
  <2>13. QED
    BY <2>1, <2>4, <2>12 DEF T, k
<1> HIDE DEF T
<1>13. n \in T
  <2>1. 0 .. n \subseteq T
    BY <1>2, <1>11, <1>12, RangeInduction
  <2>2. QED
    BY <1>2, <2>1
<1>14. ReceivedUpTo(s, Len(s), Tabs(sent))
  BY <1>7, <1>13 DEF T, n
<1>15. Tabs(sent) \in Seq(D)
  <2>1. Len(sent) \in 0 .. Len(sent)
    BY <1>6
  <2>2. QED
    BY <1>7, <2>1
<1>16. form_encode(s) = field_name \o sent
  BY <1>1
<1> HIDE DEF sent
<1>17. QED
  BY <1>6, <1>14, <1>15, <1>16 DEF D

(* After it the signs are spaces, as the spider makes them.                *)
LEMMA ReceivedSpaced ==
    ASSUME NEW C, CanBeTyped(C), NEW c \in C, c \notin {"-", Comma}
    PROVE  /\ (IF Received(c) \in RequestSigns THEN Space ELSE Received(c))
                = (IF c \in Signs \cup {Tab} THEN Space ELSE c)
           /\ (IF c \in Signs \cup {Tab} THEN Space ELSE c) \notin {"\\", "]"}
<1> DEFINE Few == {".", "_", "*"}
           Lost == {"\\", "]"}
<1>1. c \in Signs \cup Lost => c \in Few
  <2>1. c \in Signs \cup {"\\", "]"} => c \in {".", "_", "*", "-", Comma}
    BY Zenon DEF CanBeTyped
  <2>2. QED
    BY <2>1
<1>2. Few \subseteq RequestSigns /\ Few \subseteq Signs
  BY Zenon DEF RequestSigns, Signs
<1>3. RequestSigns \subseteq Signs
  BY Zenon DEF RequestSigns, Signs
<1>4. Plus \in RequestSigns /\ Space \notin RequestSigns /\ Space \notin Signs
  BY Zenon DEF RequestSigns, Signs, Plus, Space
<1>5. Space # Tab /\ Space \notin Lost
  BY Zenon DEF Space, Tab
<1>6. Few \cap Lost = {}
  BY Zenon
<1> HIDE DEF Few, Lost
<1>7. c \notin Signs \cup {Tab} => c \notin Lost
  BY <1>1, <1>2
<1>8. CASE c = Space
  BY <1>4, <1>5, <1>7, <1>8 DEF Received, Lost
<1>9. CASE c = Tab
  BY <1>4, <1>5, <1>9 DEF Received, Lost
<1>10. CASE c # Space /\ c # Tab
  <2>1. Received(c) = c
    BY <1>10 DEF Received
  <2>2. c \in RequestSigns <=> c \in Signs \cup {Tab}
    BY <1>1, <1>2, <1>3, <1>10
  <2>3. QED
    BY <1>5, <1>7, <2>1, <2>2 DEF Lost
<1>11. QED
  BY <1>8, <1>9, <1>10

(* Without takes nothing away where there is nothing to take.              *)
LEMMA WithoutNone ==
    ASSUME NEW C, NEW s \in Seq(C), NEW chars, \A i \in 1 .. Len(s) : s[i] \notin chars
    PROVE  Without(s, chars) = s
<1>1. CASE s = <<>>
  <2>1. PICK r : r[0] = <<>> /\ r[Len(s)] = Without(s, chars)
    BY WithoutFold
  <2>2. Len(s) = 0
    BY <1>1
  <2>3. QED
    BY <1>1, <2>1, <2>2
<1>2. CASE s # <<>>
  <2>1. 1 \in 1 .. Len(s) /\ \A i \in 2 .. Len(s) : i \in 1 .. Len(s)
    BY <1>2
  <2>2. s[1] \notin chars /\ \A i \in 2 .. Len(s) : s[i] \notin chars
    BY <2>1
  <2>3. QED
    BY <1>2, <2>2, WithoutFirst
<1>3. QED
  BY <1>1, <1>2

(* Both programs make the same of the same words, before they take them    *)
(* apart.                                                                  *)
LEMMA SameText ==
    ASSUME NEW C, CanBeTyped(C), NEW s \in Seq(C), ~ HasAnyOf(s, {"-", Comma})
    PROVE  /\ clear_request_string(form_encode(s)) = clear_signs(s)
           /\ \E D : clear_signs(s) \in Seq(D)
           /\ Len(clear_signs(s)) =< Len(s)
<1> DEFINE n == Len(s)
           Blanked(c) == IF c \in Signs \cup {Tab} THEN Space ELSE c
           M == [i \in 1 .. n |-> Blanked(s[i])]
           K == Collapse(M, Space)
           Lost == {"\\", "]"}
<1>1. n \in Nat /\ DOMAIN s = 1 .. n /\ \A i \in 1 .. n : s[i] \in C
  OBVIOUS
<1>2. \A i \in 1 .. n : s[i] \notin {"-", Comma}
  <2> DEFINE chars == {"-", Comma}
  <2>1. ~ HasAnyOf(s, chars)
    OBVIOUS
  <2> HIDE DEF chars
  <2>2. \A i \in 1 .. n : s[i] \notin chars
    BY <2>1, HasOne
  <2>3. QED
    BY <2>2 DEF chars
<1>3. \A t, signs : Spaced(t, signs) = [i \in DOMAIN t |-> IF t[i] \in signs THEN Space ELSE t[i]]
  BY Zenon DEF Spaced, Space
<1>4. Spaced(s, Signs \cup {Tab}) = M
  BY <1>1, <1>3
<1>5. clear_signs(s) = Lower(Without(Collapse(Spaced(s, Signs \cup {Tab}), Space), Lost))
  BY Zenon DEF clear_signs, Tab, Space
<1>6. \A c \in C : c \notin {"-", Comma} => Blanked(c) \notin Lost
  BY ReceivedSpaced
<1>7. \A i \in 1 .. n : Blanked(s[i]) \notin Lost
  BY <1>1, <1>2, <1>6
<1> DEFINE B == {M[i] : i \in 1 .. n}
<1>8. M \in Seq(B) /\ Len(M) = n
  <2>1. \A i \in 1 .. n : M[i] \in B
    OBVIOUS
  <2> HIDE DEF B
  <2>2. M \in [1 .. n -> B]
    BY <2>1
  <2>3. QED
    BY <1>1, <2>2
<1>9. \A i \in 1 .. n : M[i] \notin Lost
  BY <1>7
<1> HIDE DEF M, B, Lost, n
<1>10. K \in Seq(B) /\ Collapsed(M, Space, n, K)
  BY <1>8, CollapseIs
<1>11. Len(K) =< n /\ \A i \in 1 .. Len(K) : K[i] \notin Lost
  <2>1. Len(K) =< n /\ \A i \in 1 .. Len(K) : \E j \in 1 .. n : K[i] = M[j]
    BY <1>10 DEF Collapsed
  <2>2. QED
    BY <1>9, <2>1
<1> HIDE DEF K
<1>12. Without(K, Lost) = K
  BY <1>10, <1>11, WithoutNone
<1>13. clear_signs(s) = Lower(K)
  BY <1>4, <1>5, <1>12 DEF K
<1>14. clear_request_string(form_encode(s)) = Lower(K)
  <2>1. \A i \in 1 .. Len(s) : s[i] # Comma
    BY <1>2 DEF n
  <2> DEFINE D == Sent(C) \cup {Space}
  <2>2. PICK sent \in Seq(D) : /\ form_encode(s) = field_name \o sent
                               /\ Tabs(sent) \in Seq(D)
                               /\ ReceivedUpTo(s, n, Tabs(sent))
    BY <2>1, TabsOfEncoded DEF n
  <2>3. PICK F : field_name \in Seq(F)
    <3>1. field_name \in Seq({"s", "e", "a", "r", "c", "h", "_", "q", "u", "t", "="})
      BY DEF field_name
    <3>2. QED
      BY <3>1
  <2> HIDE DEF D
  <2>4. field_name \in Seq(F \cup D) /\ sent \in Seq(F \cup D)
    BY <2>3
  <2>5. /\ BeginsWith(form_encode(s), field_name)
        /\ erase(form_encode(s), Len(field_name)) = sent
    BY <2>2, <2>4, BeginsWithFirst
  <2>6. \A t : clear_request_string(t) = IF ~ BeginsWith(t, field_name) THEN <<>>
          ELSE Lower(Collapse(Spaced(Tabs(erase(t, Len(field_name))), RequestSigns), Space))
    BY Zenon DEF clear_request_string, Space
  <2>7. clear_request_string(form_encode(s)) = Lower(Collapse(Spaced(Tabs(sent), RequestSigns), Space))
    BY <2>5, <2>6
  <2>8. Spaced(Tabs(sent), RequestSigns) = M
    <3> DEFINE t == Tabs(sent)
    <3>1. t \in Seq(D) /\ Len(t) = n /\ \A i \in 1 .. n : t[i] = Received(s[i])
      BY <2>2 DEF ReceivedUpTo
    <3> HIDE DEF t
    <3>2. DOMAIN t = 1 .. n
      BY <3>1
    <3>3. \A c \in C : c \notin {"-", Comma} =>
             (IF Received(c) \in RequestSigns THEN Space ELSE Received(c)) = Blanked(c)
      BY ReceivedSpaced
    <3>4. \A i \in 1 .. n : (IF t[i] \in RequestSigns THEN Space ELSE t[i]) = Blanked(s[i])
      BY <1>1, <1>2, <3>1, <3>3
    <3>5. Spaced(t, RequestSigns) = [i \in 1 .. n |-> IF t[i] \in RequestSigns THEN Space ELSE t[i]]
      BY <1>3, <3>2
    <3>6. Spaced(t, RequestSigns) = M
      BY <3>4, <3>5 DEF M
    <3>7. QED
      BY <3>6 DEF t
  <2>9. QED
    BY <2>7, <2>8 DEF K
<1>15. (\E D : Lower(K) \in Seq(D)) /\ Len(Lower(K)) = Len(K)
  <2> DEFINE low == Lower(K)
             E == {low[i] : i \in 1 .. Len(K)}
  <2>1. DOMAIN K = 1 .. Len(K) /\ Len(K) \in Nat
    BY <1>10
  <2>2. low = [i \in 1 .. Len(K) |-> IF K[i] \in DOMAIN ToLower THEN ToLower[K[i]] ELSE K[i]]
    BY <2>1 DEF Lower
  <2> HIDE DEF low
  <2>3. \A i \in 1 .. Len(K) : low[i] \in E
    OBVIOUS
  <2> HIDE DEF E
  <2>4. low \in [1 .. Len(K) -> E]
    BY <2>2, <2>3
  <2>5. low \in Seq(E) /\ Len(low) = Len(K)
    BY <2>1, <2>4
  <2>6. QED
    BY <2>5 DEF low
<1>16. QED
  BY <1>11, <1>13, <1>14, <1>15 DEF n

(* ">>" stops where the expression does.                                   *)
LEMMA ReadFrom ==
    ASSUME NEW C, NEW s \in Seq(C), NEW j \in 1 .. Len(s), NEW m \in j - 1 .. Len(s),
           \A x \in j .. m : s[x] # Space, m < Len(s) => s[m + 1] = Space
    PROVE  Until(From(s, j), {Space}) = SubSeq(s, j, m)
<1> DEFINE k == j - 1
           rest == SubSeq(s, k + 1, Len(s))
           L == m - k
<1>1. /\ k \in 0 .. Len(s) /\ k + 1 = j /\ L \in Nat /\ k + L = m /\ j + L - 1 = m /\ Len(s) \in Nat
      /\ L \in 0 .. Len(s) - k
  OBVIOUS
<1> HIDE DEF k, L
<1>2. rest \in Seq(C) /\ Len(rest) = Len(s) - k /\ \A i \in 1 .. Len(s) - k : rest[i] = s[k + i]
  BY <1>1, SuffixIs
<1> HIDE DEF rest
<1>3. From(s, j) = rest
  BY <1>1 DEF From, rest
<1>4. L \in 0 .. Len(rest)
  BY <1>1, <1>2
<1>5. ASSUME NEW i \in 1 .. L
      PROVE  rest[i] \notin {Space}
  <2>1. i \in 1 .. Len(s) - k /\ k + i \in j .. m
    BY <1>1
  <2>2. QED
    BY <1>2, <2>1
<1>6. L < Len(rest) => rest[L + 1] \in {Space}
  <2>1. L < Len(rest) => L + 1 \in 1 .. Len(s) - k /\ k + (L + 1) = m + 1 /\ m < Len(s)
    BY <1>1, <1>2
  <2>2. QED
    BY <1>2, <2>1
<1>7. Until(rest, {Space}) = SubSeq(rest, 1, L)
  BY <1>2, <1>4, <1>5, <1>6, UntilIsThat
<1>8. SubSeq(rest, 1, L) = SubSeq(s, j, m)
  <2> DEFINE n == Len(s)
  <2>1. j \in 1 .. Len(s) + 1 /\ n \in j - 1 .. Len(s) /\ L \in 0 .. n - j + 1
    BY <1>1
  <2> HIDE DEF n
  <2>2. SubSeq(SubSeq(s, j, n), 1, L) = SubSeq(s, j, j + L - 1)
    BY <2>1, SubOfSub
  <2>3. QED
    BY <1>1, <2>2 DEF rest, n
<1>9. QED
  BY <1>3, <1>7, <1>8

(* The words that the server reads from a text are those the spider finds. *)
LEMMA SameWords ==
    ASSUME NEW C, NEW s \in Seq(C), NEW n \in Nat, Len(s) =< n
    PROVE  LET indexed == DOMAIN collect_words(s, 1, n)
           IN get_words_request_set(s) = IF indexed = {} THEN {<<>>} ELSE indexed
<1> DEFINE indexed == DOMAIN collect_words(s, 1, n)
           starts == {i \in 1 .. Len(s) : s[i] # Space /\ (i = 1 \/ s[i - 1] = Space)}
           asked == {Until(From(s, i), {Space}) : i \in starts}
           given == {w \in {WordAt(s, i) : i \in Matches(s)} : Len(w) >= 1 /\ Len(w) =< n}
<1>1. Len(s) \in Nat /\ DOMAIN s = 1 .. Len(s)
  OBVIOUS
<1>2. get_words_request_set(s) = IF starts = {} THEN {<<>>} ELSE asked
  <2>1. get_words_request_set(s) =
           LET from == {i \in DOMAIN s : s[i] # Space /\ (i = 1 \/ s[i - 1] = Space)}
           IN IF from = {} THEN {<<>>} ELSE {Until(From(s, i), {Space}) : i \in from}
    BY Zenon DEF get_words_request_set, Space
  <2>2. {i \in DOMAIN s : s[i] # Space /\ (i = 1 \/ s[i - 1] = Space)} = starts
    BY <1>1
  <2>3. QED
    BY <2>1, <2>2
<1>3. indexed = given
  BY DEF collect_words
<1>4. Matches(s) = {i \in 1 .. Len(s) : i = 1 \/ s[i] = Space}
  <2>1. Matches(s) = {i \in DOMAIN s : i = 1 \/ s[i] = Space}
    BY Zenon DEF Matches, Space
  <2>2. QED
    BY <1>1, <2>1
<1>5. ASSUME NEW i \in starts
      PROVE  Until(From(s, i), {Space}) \in given
  <2>1. PICK b \in 1 .. Len(s) : StartAt(s, b) = i /\ b \in Matches(s)
    <3>1. CASE i = 1
      BY <1>4, <3>1 DEF StartAt
    <3>2. CASE i # 1
      <4>1. i - 1 \in 1 .. Len(s) /\ s[i - 1] = Space /\ (i - 1) + 1 = i
        BY <1>1, <3>2
      <4>2. QED
        BY <1>4, <4>1 DEF StartAt
    <3>3. QED
      BY <3>1, <3>2
  <2>2. PICK m \in i - 1 .. Len(s) : /\ WordAt(s, b) = SubSeq(s, i, m)
                                     /\ \A x \in i .. m : s[x] # Space
                                     /\ m < Len(s) => s[m + 1] = Space
    BY <2>1, WordIs
  <2>3. Until(From(s, i), {Space}) = WordAt(s, b)
    BY <2>2, ReadFrom
  <2>4. i =< m /\ i \in Int /\ m \in Int /\ 1 =< i /\ m =< Len(s)
    <3>1. m = i - 1 => m < Len(s) /\ m + 1 = i
      BY <1>1
    <3>2. m # i - 1
      BY <2>2, <3>1
    <3>3. QED
      BY <1>1, <3>2
  <2>5. Len(SubSeq(s, i, m)) = m - i + 1
    BY <2>4, Cut
  <2>6. Len(WordAt(s, b)) >= 1 /\ Len(WordAt(s, b)) =< n
    BY <1>1, <2>2, <2>4, <2>5
  <2>7. QED
    BY <2>1, <2>3, <2>6
<1>6. ASSUME NEW w \in given
      PROVE  \E i \in starts : w = Until(From(s, i), {Space})
  <2>1. PICK b \in Matches(s) : w = WordAt(s, b)
    OBVIOUS
  <2>2. Len(w) >= 1
    OBVIOUS
  <2> DEFINE i == StartAt(s, b)
  <2>3. b \in 1 .. Len(s) /\ (b = 1 \/ s[b] = Space)
    BY <1>4
  <2>4. PICK m \in i - 1 .. Len(s) : /\ w = SubSeq(s, i, m)
                                     /\ \A x \in i .. m : s[x] # Space
                                     /\ m < Len(s) => s[m + 1] = Space
    BY <2>1, <2>3, WordIs
  <2>5. i \in Int /\ 1 =< i /\ m \in Int /\ m =< Len(s)
    BY <1>1, <2>3 DEF StartAt
  <2> HIDE DEF i
  <2>6. i =< m
    <3>1. Len(SubSeq(s, i, m)) = IF i =< m THEN m - i + 1 ELSE 0
      BY <2>5, Cut
    <3>2. QED
      BY <2>2, <2>4, <3>1
  <2>7. i \in 1 .. Len(s) /\ i \in i .. m
    BY <1>1, <2>5, <2>6
  <2>8. s[i] # Space
    BY <2>4, <2>7
  <2>9. i = 1 \/ s[i - 1] = Space
    BY <1>1, <2>3 DEF i, StartAt
  <2>10. w = Until(From(s, i), {Space})
    BY <2>4, <2>7, ReadFrom
  <2>11. QED
    BY <2>7, <2>8, <2>9, <2>10
<1> HIDE DEF given, starts, indexed
<1>7. asked = given
  BY <1>5, <1>6
<1>8. starts = {} <=> given = {}
  BY <1>5, <1>6
<1>9. QED
  BY <1>2, <1>3, <1>7, <1>8 DEF indexed

(* The property of MCText for whatever can be typed: the spider finds in   *)
(* a text the words that the server reads from a request of the same text. *)
THEOREM AskedOf ==
    ASSUME NEW C, CanBeTyped(C), NEW typed \in Seq(C)
    PROVE  AskedAsWritten(typed)
<1>1. SUFFICES ASSUME ~ HasAnyOf(typed, {"-", Comma})
               PROVE  LET s == clear_signs(typed)
                          indexed == DOMAIN collect_words(s, 1, Len(typed))
                      IN get_words_request_set(clear_request_string(form_encode(typed)))
                            = IF indexed = {} THEN {<<>>} ELSE indexed
  BY Zenon DEF AskedAsWritten, Comma
<1>2. /\ clear_request_string(form_encode(typed)) = clear_signs(typed)
      /\ \E D : clear_signs(typed) \in Seq(D)
      /\ Len(clear_signs(typed)) =< Len(typed)
  BY <1>1, SameText, Zenon
<1>3. PICK s : s = clear_signs(typed)
  OBVIOUS
<1>4. PICK n : n = Len(typed) /\ n \in Nat
  OBVIOUS
<1>5. PICK D : s \in Seq(D)
  BY <1>2, <1>3, Zenon
<1>6. Len(s) =< n
  BY <1>2, <1>3, <1>4, Zenon
<1>7. get_words_request_set(s) = IF DOMAIN collect_words(s, 1, n) = {} THEN {<<>>} ELSE DOMAIN collect_words(s, 1, n)
  BY <1>4, <1>5, <1>6, SameWords
<1>8. QED
  BY <1>2, <1>3, <1>4, <1>7, Zenon

-------------------------------------------------------------------------------
(* The theorems about MCText.  The characters that its texts are made of:  *)
Alphabet == Marks \cup {Semicolon, " ", "a"}
Letters == {piece[1] : piece \in Pieces["words"]}
LinkLetters == {"h", "t", "p", "s", ":", "/", "w", ".", "a", "b"}

(* The invariant: a text has characters of its subject's alphabet.         *)
Written ==
    /\ subject = "ini" => text \in Seq(Alphabet)
    /\ subject = "words" => text \in Seq(Letters)
    /\ subject = "link" => text \in Seq(LinkLetters)

(* The pieces of these subjects are single characters.                     *)
LEMMA SinglePieces ==
    /\ Pieces["ini"] = {<<c>> : c \in Alphabet}
    /\ Pieces["words"] = {<<c>> : c \in Letters}
<1>1. Pieces["ini"] = {<<c>> : c \in {"[", "]", "=", Semicolon, ".", " ", "a"}}
  BY Zenon DEF Pieces, Semicolon
<1>2. {"[", "]", "=", Semicolon, ".", " ", "a"} = Alphabet
  BY DEF Alphabet, Marks
<1>3. PICK S : Pieces["words"] = {<<c>> : c \in S}
  BY Zenon DEF Pieces
<1>4. Letters = S
  <2> DEFINE Q == Pieces["words"]
  <2>1. Letters = {piece[1] : piece \in Q}
    BY DEF Letters
  <2>2. Q = {<<c>> : c \in S}
    BY <1>3
  <2>3. /\ \A piece \in Q : \E c \in S : piece = <<c>>
        /\ \A c \in S : <<c>> \in Q
    BY <2>2
  <2> HIDE DEF Q
  <2>4. \A c : <<c>>[1] = c
    OBVIOUS
  <2>5. \A piece \in Q : piece[1] \in S
    BY <2>3, <2>4
  <2>6. \A c \in S : \E piece \in Q : c = piece[1]
    BY <2>3, <2>4
  <2>7. QED
    BY <2>1, <2>5, <2>6
<1>5. QED
  BY <1>1, <1>2, <1>3, <1>4

(* The pieces of a link are written in these letters.                      *)
LEMMA LinkPieces == \A piece \in Pieces["link"] : piece \in Seq(LinkLetters)
<1>1. Pieces["link"] = {Http, Https, Www, <<"/">>, <<".">>, <<"a">>, <<"/", "a", ".">>}
  BY Zenon DEF Pieces
<1>2. WritesAddresses(LinkLetters)
  BY DEF WritesAddresses, LinkLetters
<1>3. Http \in Seq(LinkLetters) /\ Https \in Seq(LinkLetters) /\ Www \in Seq(LinkLetters)
  BY <1>2, SchemeType
<1>4. "/" \in LinkLetters /\ "." \in LinkLetters /\ "a" \in LinkLetters
  BY DEF LinkLetters
<1>5. <<"/">> \in Seq(LinkLetters) /\ <<".">> \in Seq(LinkLetters) /\ <<"a">> \in Seq(LinkLetters)
      /\ <<"/", "a", ".">> \in Seq(LinkLetters)
  BY <1>4
<1>6. QED
  BY <1>1, <1>3, <1>5

(* Every step writes a piece of the subject.                               *)
LEMMA WrittenAlways == Spec => []Written
<1>1. Init => Written
  BY DEF Init, Written
<1>2. Written /\ [Next]_<<subject, text, pieces>> => Written'
  <2> SUFFICES ASSUME Written, [Next]_<<subject, text, pieces>>
               PROVE  Written'
    OBVIOUS
  <2>1. CASE Next
    <3>1. subject' = subject /\ \E piece \in Pieces[subject] : text' = text \o piece
      BY <2>1 DEF Next
    <3>2. ASSUME subject' = "ini"
          PROVE  text' \in Seq(Alphabet)
      <4>1. PICK piece \in {<<c>> : c \in Alphabet} : text' = text \o piece
        BY <3>1, <3>2, SinglePieces
      <4>2. QED
        BY <3>1, <3>2, <4>1 DEF Written
    <3>3. ASSUME subject' = "words"
          PROVE  text' \in Seq(Letters)
      <4>1. PICK piece \in {<<c>> : c \in Letters} : text' = text \o piece
        BY <3>1, <3>3, SinglePieces
      <4>2. QED
        BY <3>1, <3>3, <4>1 DEF Written
    <3>4. ASSUME subject' = "link"
          PROVE  text' \in Seq(LinkLetters)
      <4>1. PICK piece \in Pieces["link"] : text' = text \o piece
        BY <3>1, <3>4
      <4>2. piece \in Seq(LinkLetters) /\ text \in Seq(LinkLetters)
        BY <3>1, <3>4, LinkPieces DEF Written
      <4>3. QED
        BY <4>1, <4>2
    <3>5. QED
      BY <3>2, <3>3, <3>4 DEF Written
  <2>2. CASE UNCHANGED <<subject, text, pieces>>
    BY <2>2 DEF Written
  <2>3. QED
    BY <2>1, <2>2
<1>3. QED
  BY <1>1, <1>2, PTL DEF Spec

(* Lines: research_string of the spider's copy reads a line of an ini file *)
(* as the grammar says, whatever the line.                                 *)
THEOREM LinesTheorem == Spec => []Lines
<1>1. Marks \subseteq Alphabet
  BY DEF Alphabet
<1>2. Written => Lines
  BY <1>1, LinesOf DEF Written, Lines
<1>3. QED
  BY <1>2, WrittenAlways, PTL

(* Requests: get_section_variable_names takes a request apart at its only  *)
(* dot, and takes the end of the string for a name only if it ends in one. *)
THEOREM RequestsTheorem == Spec => []Requests
<1>1. Marks \subseteq Alphabet
  BY DEF Alphabet
<1>2. NUL \notin Alphabet
  BY Zenon DEF Alphabet, Marks, Semicolon, NUL
<1>3. Written => Requests
  BY <1>1, <1>2, RequestsOf DEF Written, Requests
<1>4. QED
  BY <1>3, WrittenAlways, PTL

(* Copies: the spider's and the server's copy read the same of a request   *)
(* and of a line, or the spider's refuses a line for its stray characters. *)
THEOREM CopiesTheorem == Spec => []Copies
<1>1. Marks \subseteq Alphabet
  BY DEF Alphabet
<1>2. Written => Copies
  BY <1>1, CopiesOf DEF Written, Copies
<1>3. QED
  BY <1>2, WrittenAlways, PTL

(* Words: collect_words counts each word of a page as often as it occurs.  *)
THEOREM WordsTheorem == Spec => []Words
<1>1. Written => Words
  BY WordsOf DEF Written, Words
<1>2. QED
  BY <1>1, WrittenAlways, PTL

(* A name of a host behind a scheme makes an address.                      *)
LEMMA NamedAddress ==
    ASSUME NEW C, WritesAddresses(C), NEW scheme \in {Http, Https}, NEW name \in Seq(C),
           name # <<>>, name[1] # "/",
           scheme = Http => \A i \in 1 .. Len(name) : name[i] # ":"
    PROVE  scheme \o name \in Seq(C) /\ IsAddress(scheme \o name)
<1> DEFINE page == scheme \o name
<1>1. Http \in Seq(C) /\ Https \in Seq(C) /\ scheme \in Seq(C)
  BY SchemeType
<1>2. page \in Seq(C) /\ Len(page) = Len(scheme) + Len(name) /\ Len(name) \in Nat /\ Len(scheme) \in {7, 8}
  BY <1>1, SchemeIs
<1>3. BeginsWith(page, scheme) /\ erase(page, Len(scheme)) = name
  BY <1>1, BeginsWithFirst
<1>4. http_prefix(page) = scheme
  <2>1. OccursAt(page, scheme, 1)
    BY <1>1, <1>2, <1>3, BeginsIs
  <2>2. CASE scheme = Https
    BY <1>2, <2>1, <2>2, PrefixFits
  <2>3. CASE scheme = Http
    <3>1. ASSUME NEW i, OccursAt(page, Https, i)
          PROVE  FALSE
      <4>1. i \in 1 .. Len(page) - 7 /\ page[i + 5] = ":" /\ page[i + 4] = "s" /\ i + 5 \in 1 .. Len(page)
        <5>1. i \in 1 .. Len(page) - Len(Https) + 1 /\ \A k \in 1 .. Len(Https) : page[i + k - 1] = Https[k]
          BY <3>1, <1>1, <1>2 DEF OccursAt
        <5>2. 6 \in 1 .. Len(Https) /\ 5 \in 1 .. Len(Https) /\ Len(Https) = 8 /\ Https[6] = ":" /\ Https[5] = "s"
          BY SchemeIs
        <5>3. i + 6 - 1 = i + 5 /\ i + 5 - 1 = i + 4
          BY <5>1, <1>2
        <5>4. page[i + 6 - 1] = ":" /\ page[i + 5 - 1] = "s"
          BY <5>1, <5>2
        <5>5. Len(page) \in Nat
          BY <1>2
        <5> HIDE DEF page
        <5>6. i \in 1 .. Len(page) - 7
          BY <5>1, <5>2, <5>5
        <5>7. i + 5 \in 1 .. Len(page)
          BY <5>5, <5>6
        <5>8. QED
          BY <5>3, <5>4, <5>6, <5>7
      <4>2. CASE i + 5 > Len(scheme)
        <5>1. i + 5 - 7 \in 1 .. Len(name) /\ page[i + 5] = name[i + 5 - 7]
          BY <1>1, <1>2, <2>3, <4>1, <4>2, SchemeIs
        <5>2. QED
          BY <2>3, <4>1, <5>1
      <4>3. CASE i + 5 =< Len(scheme)
        <5>1. Len(scheme) = 7
          BY <2>3, SchemeIs
        <5>2. page[5] = ":" /\ page[6] = "/" /\ page[7] = "/"
          BY <1>1, <1>2, <2>3, <5>1, SchemeIs
        <5>3. i + 5 \in {6, 7}
          BY <4>1, <4>3, <5>1, <1>2
        <5>4. QED
          BY <4>1, <5>2, <5>3
      <4>4. QED
        BY <1>2, <4>1, <4>2, <4>3
    <3>2. QED
      BY <1>2, <2>1, <2>3, <3>1, PrefixFits, SchemeIs
  <2>4. QED
    BY <2>2, <2>3
<1>5. Until(name, {"/"}) # <<>>
  <2>1. PICK m \in 0 .. Len(name) : /\ Until(name, {"/"}) = SubSeq(name, 1, m)
                                    /\ m < Len(name) => name[m + 1] \in {"/"}
    BY UntilIs
  <2>2. m # 0
    BY <1>2, <2>1
  <2>3. Len(SubSeq(name, 1, m)) = m
    BY <2>1
  <2>4. QED
    BY <2>1, <2>2, <2>3
<1>6. scheme # <<>>
  <2>1. Http # <<>> /\ Https # <<>>
    BY DEF Http, Https
  <2>2. QED
    BY <2>1
<1>7. IsAddress(page)
  <2> HIDE DEF page
  <2>1. QED
    BY <1>3, <1>4, <1>5, <1>6 DEF IsAddress
<1>8. QED
  BY <1>2, <1>7

(* So are the pages that MCText tries links on.                            *)
LEMMA PagesAreAddresses ==
    \A page \in Pages : page \in Seq(LinkLetters) /\ IsAddress(page)
<1> DEFINE a == <<"h">>
           b == <<"h", ".", "a", "/", "a", "/", "a", ".", "b">>
<1>1. Pages = {Https \o a, Http \o b}
  BY DEF Pages
<1>2. WritesAddresses(LinkLetters)
  BY DEF WritesAddresses, LinkLetters
<1>3. a \in Seq(LinkLetters) /\ a # <<>> /\ a[1] # "/"
  BY DEF LinkLetters
<1>4. b \in Seq(LinkLetters) /\ b # <<>> /\ b[1] # "/" /\ \A i \in 1 .. Len(b) : b[i] # ":"
  <2>1. b \in Seq({"h", "a", "b", ".", "/"})
    OBVIOUS
  <2>2. {"h", "a", "b", ".", "/"} \subseteq LinkLetters /\ ":" \notin {"h", "a", "b", ".", "/"}
    BY DEF LinkLetters
  <2>3. b # <<>> /\ b[1] # "/"
    OBVIOUS
  <2> HIDE DEF b
  <2>4. \A i \in 1 .. Len(b) : b[i] \in {"h", "a", "b", ".", "/"}
    BY <2>1
  <2>5. b \in Seq(LinkLetters)
    BY <2>1, <2>2
  <2>6. QED
    BY <2>2, <2>3, <2>4, <2>5
<1>5. Http # Https
  BY SchemeIs
<1> HIDE DEF a, b
<1>6. Https \o a \in Seq(LinkLetters) /\ IsAddress(Https \o a)
  BY <1>2, <1>3, <1>5, NamedAddress
<1>7. Http \o b \in Seq(LinkLetters) /\ IsAddress(Http \o b)
  BY <1>2, <1>4, <1>5, NamedAddress
<1>8. QED
  BY <1>1, <1>6, <1>7

(* Links: a link without a scheme leads to the host of its page and passes *)
(* the check for it, or is never fetched, and one with a scheme leads to   *)
(* the host that it names, but for the exceptions that are listed.         *)
THEOREM LinksTheorem == Spec => []Links
<1>1. WritesAddresses(LinkLetters)
  BY DEF WritesAddresses, LinkLetters
<1>2. Written => Links
  <2>1. SUFFICES ASSUME Written, subject = "link", NEW page \in Pages
                 PROVE  RelativeLinksStayOnHost(text, page)
    BY DEF Links
  <2>2. text \in Seq(LinkLetters)
    BY <2>1 DEF Written
  <2>3. page \in Seq(LinkLetters) /\ IsAddress(page)
    BY PagesAreAddresses
  <2>4. QED
    BY <1>1, <2>2, <2>3, LinksOf
<1>3. QED
  BY <1>2, WrittenAlways, PTL

(* What MCText writes of words can be typed.                               *)
LEMMA LettersCanBeTyped == CanBeTyped(Letters)
<1> DEFINE All == Signs \cup {"\\", "]"}
           Few == {".", "_", "*", "-", Comma}
<1>1. Letters = {"A", "b", Space, ".", "_", "-", Comma, Tab}
  <2>1. Pieces["words"] = {<<c>> : c \in {"A", "b", Space, ".", "_", "-", Comma, Tab}}
    BY Zenon DEF Pieces, Space, Comma, Tab
  <2> DEFINE Q == Pieces["words"]
             S == {"A", "b", Space, ".", "_", "-", Comma, Tab}
  <2>2. Letters = {piece[1] : piece \in Q}
    BY DEF Letters
  <2>3. Q = {<<c>> : c \in S}
    BY <2>1
  <2> HIDE DEF Q, S
  <2>4. \A c : <<c>>[1] = c
    OBVIOUS
  <2>5. {piece[1] : piece \in Q} = S
    BY <2>3, <2>4
  <2>6. QED
    BY <2>2, <2>5 DEF S
<1>2. "A" \notin All /\ "b" \notin All /\ Space \notin All /\ Tab \notin All
  BY Zenon DEF Signs, Space, Tab
<1>3. \A c \in {"A", "b", Space, ".", "_", "-", Comma, Tab} : c \in All => c \in Few
  <2> HIDE DEF All
  <2>1. QED
    BY <1>2
<1> HIDE DEF All, Few
<1>4. Letters \cap All \subseteq Few
  BY <1>1, <1>3
<1>5. QED
  BY <1>4 DEF CanBeTyped, All, Few

(* Asked: what is typed into the form of the search page, without a hyphen *)
(* or a comma, arrives as the words that the spider finds in a page of the *)
(* same text, or as one word without characters if it finds none.          *)
THEOREM AskedTheorem == Spec => []Asked
<1>1. Written => Asked
  BY LettersCanBeTyped, AskedOf DEF Written, Asked
<1>2. QED
  BY <1>1, WrittenAlways, PTL
===============================================================================
