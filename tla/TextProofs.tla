------------------------------ MODULE TextProofs ------------------------------
(***************************************************************************)
(* Proofs about both copies of the parser of ini files, for texts of any   *)
(* length and any alphabet that has the characters they search for: what   *)
(* they make of a line and of a request is what the grammar says, and they *)
(* agree but for one kind of line.  A loop over the characters is a fold   *)
(* here, and is proved about by an invariant that says where it is.        *)
(***************************************************************************)
EXTENDS ServerIniText, Induction, FiniteSetTheorems, SequenceTheorems

-------------------------------------------------------------------------------
(* Strings: what find, erase, Until and the others return.                 *)

(* Min takes an element of a set of naturals that has one.                 *)
LEMMA LeastOf ==
    ASSUME NEW S, S \subseteq Nat, S # {}
    PROVE  Min(S) \in S /\ \A x \in S : Min(S) =< x
<1> DEFINE R == {ss \in Nat \X Nat : ss[1] < ss[2]}
<1>1. IsWellFoundedOn(R, Nat)
  BY NatLessThanWellFounded DEF OpToRel
<1>2. \A x, y \in Nat : y < x => <<y, x>> \in R
  OBVIOUS
<1> HIDE DEF R
<1>3. PICK x \in S : \A y \in S : ~ (<<y, x>> \in R)
  BY <1>1, WFMin, Zenon
<1>4. ASSUME NEW y \in S
      PROVE  x =< y
  <2>1. x \in Nat /\ y \in Nat
    OBVIOUS
  <2>2. ~ (y < x)
    BY <1>2, <1>3, <2>1
  <2>3. QED
    BY <2>1, <2>2
<1>5. \E m \in S : \A y \in S : m =< y
  BY <1>4
<1>6. QED
  BY <1>5 DEF Min

(* What SubSeq takes out of a text, at any ends that lie inside it.        *)
LEMMA Cut ==
    ASSUME NEW C, NEW str \in Seq(C), NEW i \in Int, NEW j \in Int, 1 =< i, j =< Len(str)
    PROVE  /\ SubSeq(str, i, j) \in Seq(C)
           /\ Len(SubSeq(str, i, j)) = IF i =< j THEN j - i + 1 ELSE 0
           /\ \A k \in 1 .. j - i + 1 : SubSeq(str, i, j)[k] = str[i + k - 1]
<1>1. \A k \in i .. j : str[k] \in C
  OBVIOUS
<1>2. QED
  BY <1>1, SubSeqProperties

(* find of a single character: its first place, or 0 if it is nowhere.     *)
LEMMA FindOne ==
    ASSUME NEW C, NEW str \in Seq(C), NEW c \in C
    PROVE  LET f == find(str, <<c>>)
           IN /\ f \in 0 .. Len(str)
              /\ f = 0 => \A i \in 1 .. Len(str) : str[i] # c
              /\ f # 0 => str[f] = c /\ \A i \in 1 .. f - 1 : str[i] # c
<1> DEFINE places == {i \in 1 .. Len(str) : str[i] = c}
<1>1. Len(str) \in Nat
  OBVIOUS
<1>2. ASSUME NEW i \in 1 .. Len(str)
      PROVE  SubSeq(str, i, i) = <<c>> <=> str[i] = c
  <2>1. /\ SubSeq(str, i, i) \in Seq(C) /\ Len(SubSeq(str, i, i)) = 1
        /\ SubSeq(str, i, i)[1] = str[i]
    BY <1>1, Cut
  <2> DEFINE one == SubSeq(str, i, i)
  <2> HIDE DEF one
  <2>2. one \in Seq(C) /\ Len(one) = 1
    BY <2>1 DEF one
  <2>3. one = <<c>> <=> one[1] = c
    <3>1. <<c>> \in Seq(C) /\ Len(<<c>>) = 1 /\ <<c>>[1] = c
      OBVIOUS
    <3>2. one[1] = c => \A k \in 1 .. Len(one) : one[k] = <<c>>[k]
      BY <2>2, <3>1
    <3>3. QED
      BY <2>2, <3>1, <3>2, SeqEqual
  <2>4. QED
    BY <2>1, <2>3 DEF one
<1>3. {i \in 1 .. Len(str) - Len(<<c>>) + 1 : SubSeq(str, i, i + Len(<<c>>) - 1) = <<c>>} = places
  <2>1. Len(<<c>>) = 1
    OBVIOUS
  <2>2. Len(str) - Len(<<c>>) + 1 = Len(str) /\ \A i \in 1 .. Len(str) : i + Len(<<c>>) - 1 = i
    BY <1>1, <2>1
  <2>3. QED
    BY <1>2, <2>2
<1>4. find(str, <<c>>) = IF places = {} THEN 0 ELSE Min(places)
  BY <1>3 DEF find
<1>5. places \subseteq Nat
  OBVIOUS
<1>6. CASE places = {}
  BY <1>1, <1>4, <1>6
<1>7. CASE places # {}
  <2>1. Min(places) \in places /\ \A x \in places : Min(places) =< x
    BY <1>5, <1>7, LeastOf
  <2> DEFINE f == find(str, <<c>>)
  <2>2. f \in places /\ \A x \in places : f =< x
    BY <1>4, <1>7, <2>1
  <2> HIDE DEF f
  <2>3. f \in 1 .. Len(str) /\ str[f] = c /\ \A i \in 1 .. f - 1 : str[i] # c
    BY <1>1, <2>2
  <2>4. QED
    BY <1>1, <2>3 DEF f
<1>8. QED
  BY <1>6, <1>7

(* Until takes a prefix, and stops only before one of the characters.      *)
LEMMA UntilIs ==
    ASSUME NEW C, NEW str \in Seq(C), NEW chars
    PROVE  \E m \in 0 .. Len(str) :
              /\ Until(str, chars) = SubSeq(str, 1, m)
              /\ \A i \in 1 .. m : str[i] \notin chars
              /\ m < Len(str) => str[m + 1] \in chars
<1> DEFINE ends == {i \in 1 .. Len(str) : str[i] \in chars}
<1>1. Len(str) \in Nat /\ ends \subseteq Nat
  OBVIOUS
<1>2. CASE ends = {}
  <2>1. Until(str, chars) = SubSeq(str, 1, Len(str))
    BY <1>2, SubSeqFull DEF Until
  <2>2. QED
    BY <1>1, <1>2, <2>1
<1>3. CASE ends # {}
  <2>1. Min(ends) \in ends /\ \A x \in ends : Min(ends) =< x
    BY <1>1, <1>3, LeastOf
  <2>2. PICK f : f = Min(ends)
    OBVIOUS
  <2>3. f \in 1 .. Len(str) /\ str[f] \in chars /\ \A i \in 1 .. f - 1 : str[i] \notin chars
    <3>1. f \in 1 .. Len(str) /\ str[f] \in chars
      BY <2>1, <2>2
    <3>2. ASSUME NEW i \in 1 .. f - 1
          PROVE  str[i] \notin chars
      <4>1. i \in 1 .. Len(str) /\ ~ (f =< i)
        BY <1>1, <3>1
      <4>2. i \notin ends
        BY <2>1, <2>2, <4>1
      <4>3. QED
        BY <4>1, <4>2
    <3>3. QED
      BY <3>1, <3>2
  <2>4. Until(str, chars) = SubSeq(str, 1, f - 1)
    BY <1>3, <2>2 DEF Until
  <2>5. f - 1 \in 0 .. Len(str) /\ (f - 1) + 1 = f
    BY <1>1, <2>3
  <2>6. QED
    BY <2>3, <2>4, <2>5
<1>4. QED
  BY <1>2, <1>3

(* SkipBlanks drops blanks at the beginning, and all of those.             *)
LEMMA SkipIs ==
    ASSUME NEW C, NEW str \in Seq(C)
    PROVE  \E m \in 0 .. Len(str) :
              /\ SkipBlanks(str) = SubSeq(str, m + 1, Len(str))
              /\ \A i \in 1 .. m : str[i] \in Blank
              /\ m < Len(str) => str[m + 1] \notin Blank
<1> DEFINE others == {i \in 1 .. Len(str) : str[i] \notin Blank}
<1>1. Len(str) \in Nat /\ others \subseteq Nat
  OBVIOUS
<1>2. CASE others = {}
  <2>1. SubSeq(str, Len(str) + 1, Len(str)) = <<>>
    BY <1>1, SubSeqEmpty
  <2>2. SkipBlanks(str) = SubSeq(str, Len(str) + 1, Len(str))
    BY <1>2, <2>1 DEF SkipBlanks
  <2>3. QED
    BY <1>1, <1>2, <2>2
<1>3. CASE others # {}
  <2>1. Min(others) \in others /\ \A x \in others : Min(others) =< x
    BY <1>1, <1>3, LeastOf
  <2>2. PICK f : f = Min(others)
    OBVIOUS
  <2>3. f \in 1 .. Len(str) /\ str[f] \notin Blank /\ \A i \in 1 .. f - 1 : str[i] \in Blank
    <3>1. f \in 1 .. Len(str) /\ str[f] \notin Blank
      BY <2>1, <2>2
    <3>2. ASSUME NEW i \in 1 .. f - 1
          PROVE  str[i] \in Blank
      <4>1. i \in 1 .. Len(str) /\ ~ (f =< i)
        BY <1>1, <3>1
      <4>2. i \notin others
        BY <2>1, <2>2, <4>1
      <4>3. QED
        BY <4>1, <4>2
    <3>3. QED
      BY <3>1, <3>2
  <2>4. SkipBlanks(str) = SubSeq(str, f, Len(str))
    BY <1>3, <2>2 DEF SkipBlanks, From
  <2>5. f - 1 \in 0 .. Len(str) /\ (f - 1) + 1 = f
    BY <1>1, <2>3
  <2>6. QED
    BY <2>3, <2>4, <2>5
<1>4. QED
  BY <1>2, <1>3

(* HasAnyOf and ToSet, by the places of a text.                            *)
LEMMA HasOne ==
    ASSUME NEW C, NEW str \in Seq(C), NEW chars
    PROVE  /\ HasAnyOf(str, chars) <=> \E i \in 1 .. Len(str) : str[i] \in chars
           /\ ToSet(str) \subseteq chars <=> \A i \in 1 .. Len(str) : str[i] \in chars
<1>1. DOMAIN str = 1 .. Len(str)
  OBVIOUS
<1>2. QED
  BY <1>1 DEF HasAnyOf, ToSet

(* The first m characters of a text.                                       *)
LEMMA PrefixIs ==
    ASSUME NEW C, NEW str \in Seq(C), NEW m \in 0 .. Len(str)
    PROVE  /\ SubSeq(str, 1, m) \in Seq(C) /\ Len(SubSeq(str, 1, m)) = m
           /\ \A i \in 1 .. m : SubSeq(str, 1, m)[i] = str[i]
<1>1. /\ Len(str) \in Nat /\ m \in Nat /\ m =< Len(str) /\ 1 =< 1 /\ 1 \in Int /\ m \in Int /\ m - 1 + 1 = m
      /\ (1 =< m \/ m = 0) /\ \A i \in 1 .. m : 1 + i - 1 = i
  OBVIOUS
<1>2. /\ SubSeq(str, 1, m) \in Seq(C)
      /\ Len(SubSeq(str, 1, m)) = IF 1 =< m THEN m - 1 + 1 ELSE 0
      /\ \A k \in 1 .. m - 1 + 1 : SubSeq(str, 1, m)[k] = str[1 + k - 1]
  BY <1>1, Cut
<1>3. QED
  BY <1>1, <1>2

(* What remains of a text after its first m characters.                    *)
LEMMA SuffixIs ==
    ASSUME NEW C, NEW str \in Seq(C), NEW m \in 0 .. Len(str)
    PROVE  LET rest == SubSeq(str, m + 1, Len(str))
           IN /\ rest \in Seq(C) /\ Len(rest) = Len(str) - m
              /\ \A i \in 1 .. Len(str) - m : rest[i] = str[m + i]
<1> DEFINE n == Len(str)
           b == m + 1
           rest == SubSeq(str, b, n)
<1>1. /\ n \in Int /\ b \in Int /\ 1 =< b /\ n =< Len(str)
      /\ (IF b =< n THEN n - b + 1 ELSE 0) = n - m /\ n - b + 1 = n - m
      /\ \A i \in 1 .. n - m : b + i - 1 = m + i
  OBVIOUS
<1> HIDE DEF n, b
<1>2. /\ rest \in Seq(C) /\ Len(rest) = IF b =< n THEN n - b + 1 ELSE 0
      /\ \A k \in 1 .. n - b + 1 : rest[k] = str[b + k - 1]
  BY <1>1, Cut
<1> HIDE DEF rest
<1>3. /\ rest \in Seq(C) /\ Len(rest) = n - m
      /\ \A i \in 1 .. n - m : rest[i] = str[m + i]
  BY <1>1, <1>2
<1>4. QED
  BY <1>3 DEF rest, n, b

(* Nothing is put in.                                                      *)
LEMMA SkipType ==
    ASSUME NEW C, NEW str \in Seq(C)
    PROVE  delete_spaces(str) \in Seq(C)
<1>1. PICK m \in 0 .. Len(str) : SkipBlanks(str) = SubSeq(str, m + 1, Len(str))
  BY SkipIs
<1>2. QED
  BY <1>1, SuffixIs DEF delete_spaces

-------------------------------------------------------------------------------
(* Sections, as the spider's copy reads them.                              *)

(* The characters that the programs search for.                            *)
Marks == {"[", "]", "=", "."}

(* The SMT backend cannot read this character, so it has a name.           *)
Semicolon == ";"

(* The character that begins a comment is none of the others.              *)
LEMMA SemicolonIsOther == Semicolon \notin Blank \cup {"[", "]", "=", "."}
  BY Zenon DEF Semicolon, Blank

(* The bracket that opens the line is closed at e, after a name.           *)
Closes(str, e) ==
    /\ e \in 3 .. Len(str) /\ str[e] = "]"
    /\ \A i \in 2 .. e - 1 : str[i] \notin Blank \cup {".", "]"}
    /\ \/ \A i \in e + 1 .. Len(str) - 1 : str[i] \in Blank
       \/ \E k \in e + 1 .. Len(str) - 1 : str[k] = Semicolon /\ \A i \in e + 1 .. k - 1 : str[i] \in Blank

(* What stands before a comment is blank, by the places of the text.       *)
LEMMA BlankUpTo ==
    ASSUME NEW C, NEW str \in Seq(C)
    PROVE  ToSet(Until(str, {Semicolon})) \subseteq Blank <=>
              \/ \A i \in 1 .. Len(str) : str[i] \in Blank
              \/ \E k \in 1 .. Len(str) : str[k] = Semicolon /\ \A i \in 1 .. k - 1 : str[i] \in Blank
<1> DEFINE part == Until(str, {Semicolon})
<1>1. PICK m \in 0 .. Len(str) :
              /\ part = SubSeq(str, 1, m)
              /\ \A i \in 1 .. m : str[i] \notin {Semicolon}
              /\ m < Len(str) => str[m + 1] \in {Semicolon}
  BY UntilIs
<1>2. Len(str) \in Nat /\ m \in Nat /\ m =< Len(str)
  OBVIOUS
<1>a. \A i \in 1 .. m : str[i] # Semicolon
  BY <1>1
<1>b. m < Len(str) => str[m + 1] = Semicolon
  BY <1>1
<1>3. part \in Seq(C) /\ Len(part) = m /\ \A i \in 1 .. m : part[i] = str[i]
  BY <1>1, PrefixIs
<1> HIDE DEF part
<1>4. ToSet(part) \subseteq Blank <=> \A i \in 1 .. m : str[i] \in Blank
  BY <1>3, HasOne
<1>5. ASSUME \A i \in 1 .. m : str[i] \in Blank
      PROVE  \/ \A i \in 1 .. Len(str) : str[i] \in Blank
             \/ \E k \in 1 .. Len(str) : str[k] = Semicolon /\ \A i \in 1 .. k - 1 : str[i] \in Blank
  <2>1. CASE m = Len(str)
    BY <1>5, <2>1
  <2>2. CASE m # Len(str)
    <3>1. m + 1 \in 1 .. Len(str) /\ (m + 1) - 1 = m /\ str[m + 1] = Semicolon
      BY <1>b, <1>2, <2>2
    <3>2. QED
      BY <1>5, <3>1
  <2>3. QED
    BY <2>1, <2>2
<1>6. ASSUME NEW k \in 1 .. Len(str), str[k] = Semicolon, \A i \in 1 .. k - 1 : str[i] \in Blank
      PROVE  \A i \in 1 .. m : str[i] \in Blank
  <2>1. ~ (k =< m)
    BY <1>a, <1>2, <1>6
  <2>2. QED
    BY <1>2, <1>6, <2>1
<1>7. ToSet(part) \subseteq Blank <=>
         \/ \A i \in 1 .. Len(str) : str[i] \in Blank
         \/ \E k \in 1 .. Len(str) : str[k] = Semicolon /\ \A i \in 1 .. k - 1 : str[i] \in Blank
  BY <1>4, <1>5, <1>6
<1>8. QED
  BY <1>7 DEF part

(* The spider's copy takes for a section what Closes says, and nothing     *)
(* else.                                                                   *)
LEMMA SectionOf ==
    ASSUME NEW C, Marks \subseteq C, NEW str \in Seq(C), str # <<>>, str[1] = "["
    PROVE  /\ section_of(str) # Invalid =>
                 \E e : Closes(str, e) /\ section_of(str) = Section(SubSeq(str, 2, e - 1))
           /\ \A e : Closes(str, e) => section_of(str) = Section(SubSeq(str, 2, e - 1))
<1> DEFINE end == find(str, <<"]">>)
           name == SubSeq(str, 2, end - 1)
           tail == SubSeq(str, end + 1, Len(str) - 1)
           Wrong == \/ end \in {0, 2}
                    \/ HasAnyOf(name, Blank \cup {"."})
                    \/ ~ ToSet(Until(tail, {Semicolon})) \subseteq Blank
<1>1. section_of(str) = IF Wrong THEN Invalid ELSE Section(name)
  BY Zenon DEF section_of, Semicolon
<1>2. /\ end \in 0 .. Len(str) /\ Len(str) \in Nat
      /\ end = 0 => \A i \in 1 .. Len(str) : str[i] # "]"
      /\ end # 0 => str[end] = "]" /\ \A i \in 1 .. end - 1 : str[i] # "]"
  <2>1. "]" \in C
    BY DEF Marks
  <2>2. QED
    BY <2>1, FindOne
<1> HIDE DEF end
<1>3. end # 1
  BY <1>2
<1>4. ASSUME end \notin {0, 2}
      PROVE  ~ Wrong <=> Closes(str, end)
  <2>1. end \in 3 .. Len(str) /\ str[end] = "]" /\ \A i \in 1 .. end - 1 : str[i] # "]"
    BY <1>2, <1>3, <1>4
  <2>2. /\ name \in Seq(C) /\ Len(name) = end - 2
        /\ \A k \in 1 .. end - 2 : name[k] = str[k + 1]
    <3>1. /\ 1 =< 2 /\ end - 1 =< Len(str) /\ 2 =< end - 1 /\ (end - 1) - 2 + 1 = end - 2
          /\ end - 1 \in Int /\ \A k \in 1 .. end - 2 : 2 + k - 1 = k + 1
      BY <1>2, <2>1
    <3>2. QED
      BY <3>1, Cut
  <2>3. HasAnyOf(name, Blank \cup {"."}) <=> \E k \in 1 .. end - 2 : str[k + 1] \in Blank \cup {"."}
    <3> HIDE DEF name
    <3>1. QED
      BY <2>2, HasOne
  <2>4. ~ HasAnyOf(name, Blank \cup {"."}) <=> \A i \in 2 .. end - 1 : str[i] \notin Blank \cup {".", "]"}
    <3>1. ASSUME \A k \in 1 .. end - 2 : str[k + 1] \notin Blank \cup {"."}, NEW i \in 2 .. end - 1
          PROVE  str[i] \notin Blank \cup {".", "]"}
      <4>1. i - 1 \in 1 .. end - 2 /\ (i - 1) + 1 = i /\ i \in 1 .. end - 1
        BY <1>2, <2>1
      <4>2. str[i] # "]" /\ str[i] \notin Blank \cup {"."}
        BY <2>1, <3>1, <4>1
      <4>3. QED
        BY <4>2
    <3>2. ASSUME \A i \in 2 .. end - 1 : str[i] \notin Blank \cup {".", "]"}, NEW k \in 1 .. end - 2
          PROVE  str[k + 1] \notin Blank \cup {"."}
      <4>1. k + 1 \in 2 .. end - 1
        BY <1>2, <2>1
      <4>2. QED
        BY <3>2, <4>1
    <3>3. QED
      BY <2>3, <3>1, <3>2
  <2>5. /\ tail \in Seq(C) /\ Len(tail) = IF end + 1 =< Len(str) - 1 THEN Len(str) - 1 - end ELSE 0
        /\ \A k \in 1 .. Len(str) - 1 - end : tail[k] = str[end + k]
    <3>1. /\ 1 =< end + 1 /\ Len(str) - 1 =< Len(str) /\ end + 1 \in Int /\ Len(str) - 1 \in Int
          /\ (Len(str) - 1) - (end + 1) + 1 = Len(str) - 1 - end
          /\ \A k \in 1 .. Len(str) - 1 - end : (end + 1) + k - 1 = end + k
      BY <1>2, <2>1
    <3>2. QED
      BY <3>1, Cut
  <2>6. DOMAIN tail = 1 .. Len(str) - 1 - end /\ 1 .. Len(tail) = 1 .. Len(str) - 1 - end
    BY <1>2, <2>1, <2>5
  <2>7. ToSet(Until(tail, {Semicolon})) \subseteq Blank <=>
           \/ \A i \in 1 .. Len(str) - 1 - end : str[end + i] \in Blank
           \/ \E k \in 1 .. Len(str) - 1 - end : str[end + k] = Semicolon /\ \A i \in 1 .. k - 1 : str[end + i] \in Blank
    <3>1. \A k \in 1 .. Len(str) - 1 - end : \A i \in 1 .. k - 1 : i \in 1 .. Len(str) - 1 - end
      BY <1>2, <2>1
    <3> HIDE DEF tail
    <3>2. ToSet(Until(tail, {Semicolon})) \subseteq Blank <=>
              \/ \A i \in 1 .. Len(tail) : tail[i] \in Blank
              \/ \E k \in 1 .. Len(tail) : tail[k] = Semicolon /\ \A i \in 1 .. k - 1 : tail[i] \in Blank
      BY <2>5, BlankUpTo
    <3>3. QED
      BY <2>5, <2>6, <3>1, <3>2
  <2>8. ToSet(Until(tail, {Semicolon})) \subseteq Blank <=>
           \/ \A i \in end + 1 .. Len(str) - 1 : str[i] \in Blank
           \/ \E k \in end + 1 .. Len(str) - 1 : str[k] = Semicolon /\ \A i \in end + 1 .. k - 1 : str[i] \in Blank
    <3> DEFINE n == Len(str) - 1
    <3>1. n \in Int /\ end \in Int
      BY <1>2
    <3> HIDE DEF n
    <3>2. ASSUME NEW k \in Int
          PROVE  (\A i \in 1 .. k - end : str[end + i] \in Blank) <=> \A i \in end + 1 .. k : str[i] \in Blank
      <4>1. \A i \in 1 .. k - end : end + i \in end + 1 .. k
        BY <3>1
      <4>2. \A i \in end + 1 .. k : i - end \in 1 .. k - end /\ end + (i - end) = i
        BY <3>1
      <4>3. QED
        BY <4>1, <4>2
    <3>3. ASSUME NEW k \in 1 .. n - end, str[end + k] = Semicolon, \A i \in 1 .. k - 1 : str[end + i] \in Blank
          PROVE  \E j \in end + 1 .. n : str[j] = Semicolon /\ \A i \in end + 1 .. j - 1 : str[i] \in Blank
      <4> DEFINE j == end + k
      <4>1. j \in end + 1 .. n /\ j - 1 \in Int /\ (j - 1) - end = k - 1
        BY <3>1
      <4>2. str[j] = Semicolon
        BY <3>3
      <4> HIDE DEF j
      <4>3. \A i \in end + 1 .. j - 1 : str[i] \in Blank
        <5>1. (\A i \in 1 .. (j - 1) - end : str[end + i] \in Blank) <=> \A i \in end + 1 .. j - 1 : str[i] \in Blank
          BY <3>2, <4>1
        <5>2. QED
          BY <3>3, <4>1, <5>1
      <4>4. QED
        BY <4>1, <4>2, <4>3
    <3>4. ASSUME NEW j \in end + 1 .. n, str[j] = Semicolon, \A i \in end + 1 .. j - 1 : str[i] \in Blank
          PROVE  \E k \in 1 .. n - end : str[end + k] = Semicolon /\ \A i \in 1 .. k - 1 : str[end + i] \in Blank
      <4>1. /\ j - end \in 1 .. n - end /\ end + (j - end) = j /\ j - 1 \in Int
            /\ (j - 1) - end = (j - end) - 1
        BY <3>1
      <4>2. \A i \in 1 .. (j - end) - 1 : str[end + i] \in Blank
        BY <3>2, <3>4, <4>1
      <4>3. QED
        BY <3>4, <4>1, <4>2
    <3>5. (\A i \in 1 .. n - end : str[end + i] \in Blank) <=> \A i \in end + 1 .. n : str[i] \in Blank
      BY <3>1, <3>2
    <3>6. QED
      BY <2>7, <3>3, <3>4, <3>5 DEF n
  <2>9. QED
    BY <1>4, <2>1, <2>4, <2>8 DEF Closes
<1>5. ASSUME NEW e, Closes(str, e)
      PROVE  e = end /\ end \notin {0, 2}
  <2>1. /\ e \in 3 .. Len(str) /\ str[e] = "]"
        /\ \A i \in 2 .. e - 1 : str[i] # "]"
    BY <1>5 DEF Closes
  <2>2. end # 0 /\ end =< e
    BY <1>2, <2>1
  <2>3. ~ (end < e)
    <3>1. end < e => end \in 2 .. e - 1
      BY <1>2, <1>3, <2>1, <2>2
    <3>2. QED
      BY <1>2, <2>1, <2>2, <3>1
  <2>4. QED
    BY <1>2, <2>1, <2>2, <2>3
<1>6. ASSUME section_of(str) # Invalid
      PROVE  \E e : Closes(str, e) /\ section_of(str) = Section(SubSeq(str, 2, e - 1))
  <2>1. ~ Wrong
    BY <1>1, <1>6
  <2>2. Closes(str, end)
    BY <1>4, <2>1
  <2>3. QED
    BY <1>1, <2>1, <2>2
<1>7. ASSUME NEW e, Closes(str, e)
      PROVE  section_of(str) = Section(SubSeq(str, 2, e - 1))
  <2>1. e = end /\ ~ Wrong
    BY <1>4, <1>5, <1>7
  <2>2. QED
    BY <1>1, <2>1
<1>8. QED
  BY <1>6, <1>7

-------------------------------------------------------------------------------
(* Sections, as the loop of the server's copy reads them.                  *)

(* What the loop of the server's copy remembers of a section's line.       *)
SectionReading(C) == [at : {"name", "tail", "comment", "wrong"}, name : Seq(C)]

(* The cases of the loop, with the semicolon by its name.                  *)
LEMMA SectionStep ==
    ASSUME NEW read, NEW c
    PROVE  section_step(read, c) =
              CASE read.at = "name" /\ c = "]" -> [read EXCEPT !.at = "tail"]
                [] read.at = "name" /\ c \notin Blank \cup {".", "]"} -> [read EXCEPT !.name = Append(@, c)]
                [] read.at = "tail" /\ c \in Blank -> read
                [] read.at = "tail" /\ c = Semicolon -> [read EXCEPT !.at = "comment"]
                [] read.at = "comment" -> read
                [] OTHER -> [read EXCEPT !.at = "wrong"]
BY Zenon DEF section_step, Semicolon

(* The loop keeps to what it remembers.                                    *)
LEMMA SectionStepType ==
    ASSUME NEW C, NEW read \in SectionReading(C), NEW c \in C
    PROVE  section_step(read, c) \in SectionReading(C)
BY SectionStep DEF SectionReading

(* The loop goes through a reading for every number of characters.         *)
LEMMA SectionFold ==
    ASSUME NEW C, NEW s \in Seq(C), NEW base \in SectionReading(C)
    PROVE  \E r : /\ r \in [0 .. Len(s) -> SectionReading(C)]
                  /\ r[0] = base
                  /\ \A k \in 1 .. Len(s) : r[k] = section_step(r[k - 1], s[k])
                  /\ r[Len(s)] = FoldLeft(section_step, base, s)
<1> DEFINE n == Len(s)
           A == SectionReading(C)
           F == [p \in A \X (1 .. n) |-> section_step(p[1], s[p[2]])]
           Solves(g) == g = [t \in SUBSET (1 .. n) |->
                                IF t = {} THEN base ELSE section_step(g[t \ {Max(t)}], s[Max(t)])]
           iter == CHOOSE g : Solves(g)
<1>1. n \in Nat /\ DOMAIN s = 1 .. n /\ \A i \in 1 .. n : s[i] \in C
  OBVIOUS
<1>2. F \in [A \X (1 .. n) -> A]
  BY <1>1, SectionStepType
<1>3. \A a \in A, i \in 1 .. n : F[<<a, i>>] = section_step(a, s[i])
  OBVIOUS
<1>4. base \in A
  OBVIOUS
<1> HIDE DEF n, A, F
<1>5. PICK g : Folds(g, A, base, n, F)
  BY <1>1, <1>2, <1>4, FoldIterates
<1>6. \A t \in SUBSET (1 .. n) : t # {} => Max(t) \in 1 .. n
  BY <1>1, MaxInRange
<1>7. Solves(g)
  BY <1>3, <1>5, <1>6 DEF Folds
<1>8. Solves(iter)
  BY <1>7
<1>9. FoldLeft(section_step, base, s) = iter[1 .. n]
  BY <1>1 DEF FoldLeft, MapThenFoldSet
<1> HIDE DEF iter
<1>10. Recurs(iter, A, base, n, F)
  BY <1>3, <1>6, <1>8 DEF Recurs
<1>11. PICK r : IsRun(r, iter, A, base, n, F)
  BY <1>1, <1>2, <1>4, <1>10, FoldRuns
<1>12. \A k \in 1 .. n : r[k - 1] \in A /\ r[k] = section_step(r[k - 1], s[k])
  <2>1. \A k \in 1 .. n : k - 1 \in 0 .. n
    BY <1>1
  <2>2. QED
    BY <1>3, <1>11, <2>1 DEF IsRun, Iterates
<1>13. QED
  BY <1>9, <1>11, <1>12 DEF IsRun, Iterates, n, A

(* What the loop over a section's line has read of s after k characters:   *)
(* a part of a name, a name closed at e and blanks, or a comment as well.  *)
InName(s, k) == \A i \in 1 .. k : s[i] \notin Blank \cup {".", "]"}
InTail(s, k, e) == /\ e \in 1 .. k /\ s[e] = "]" /\ InName(s, e - 1)
                   /\ \A i \in e + 1 .. k : s[i] \in Blank
InComment(s, k, e) == /\ e \in 1 .. k /\ s[e] = "]" /\ InName(s, e - 1)
                      /\ \E m \in e + 1 .. k : s[m] = Semicolon /\ \A i \in e + 1 .. m - 1 : s[i] \in Blank

(* The invariant of the loop: the reading says where it is.                *)
SectionRead(s, k, read) ==
    /\ read.at = "name" <=> InName(s, k)
    /\ read.at = "tail" <=> \E e \in 1 .. k : InTail(s, k, e)
    /\ read.at = "comment" <=> \E e \in 1 .. k : InComment(s, k, e)
    /\ read.at = "name" => read.name = SubSeq(s, 1, k)
    /\ \A e \in 1 .. k : InTail(s, k, e) \/ InComment(s, k, e) => read.name = SubSeq(s, 1, e - 1)

(* How the three descriptions change with the next character.              *)
LEMMA OneMore ==
    ASSUME NEW s, NEW k \in Nat
    PROVE  /\ InName(s, k + 1) <=> InName(s, k) /\ s[k + 1] \notin Blank \cup {".", "]"}
           /\ \A e \in 1 .. k : InTail(s, k + 1, e) <=> InTail(s, k, e) /\ s[k + 1] \in Blank
           /\ InTail(s, k + 1, k + 1) <=> InName(s, k) /\ s[k + 1] = "]"
           /\ \A e \in 1 .. k : InComment(s, k + 1, e) <=>
                 InComment(s, k, e) \/ (InTail(s, k, e) /\ s[k + 1] = Semicolon)
           /\ ~ InComment(s, k + 1, k + 1)
<1>1. InName(s, k + 1) <=> InName(s, k) /\ s[k + 1] \notin Blank \cup {".", "]"}
  <2>1. \A i \in 1 .. k + 1 : i \in 1 .. k \/ i = k + 1
    OBVIOUS
  <2>2. 1 .. k \subseteq 1 .. k + 1 /\ k + 1 \in 1 .. k + 1
    OBVIOUS
  <2>3. QED
    BY <2>1, <2>2 DEF InName
<1>2. ASSUME NEW e \in 1 .. k
      PROVE  InTail(s, k + 1, e) <=> InTail(s, k, e) /\ s[k + 1] \in Blank
  <2>1. \A i \in e + 1 .. k + 1 : i \in e + 1 .. k \/ i = k + 1
    OBVIOUS
  <2>2. e + 1 .. k \subseteq e + 1 .. k + 1 /\ k + 1 \in e + 1 .. k + 1 /\ e \in 1 .. k + 1
    OBVIOUS
  <2>3. QED
    BY <2>1, <2>2 DEF InTail
<1>3. InTail(s, k + 1, k + 1) <=> InName(s, k) /\ s[k + 1] = "]"
  <2>1. k + 1 \in 1 .. k + 1 /\ (k + 1) - 1 = k /\ (k + 1) + 1 .. k + 1 = {}
    OBVIOUS
  <2>2. QED
    BY <2>1 DEF InTail
<1>4. ASSUME NEW e \in 1 .. k
      PROVE  InComment(s, k + 1, e) <=> InComment(s, k, e) \/ (InTail(s, k, e) /\ s[k + 1] = Semicolon)
  <2>1. \A i \in e + 1 .. k + 1 : i \in e + 1 .. k \/ i = k + 1
    OBVIOUS
  <2>2. e + 1 .. k \subseteq e + 1 .. k + 1 /\ k + 1 \in e + 1 .. k + 1 /\ e \in 1 .. k + 1 /\ (k + 1) - 1 = k
    OBVIOUS
  <2>3. QED
    BY <2>1, <2>2 DEF InTail, InComment
<1>5. ~ InComment(s, k + 1, k + 1)
  <2>1. (k + 1) + 1 .. k + 1 = {}
    OBVIOUS
  <2>2. QED
    BY <2>1 DEF InComment
<1>6. QED
  BY <1>1, <1>2, <1>3, <1>4, <1>5

(* A prefix with one character more.                                       *)
LEMMA PrefixGrows ==
    ASSUME NEW C, NEW s \in Seq(C), NEW k \in 0 .. Len(s) - 1
    PROVE  SubSeq(s, 1, k + 1) = Append(SubSeq(s, 1, k), s[k + 1])
<1> DEFINE p == SubSeq(s, 1, k)
           q == SubSeq(s, 1, k + 1)
<1>1. Len(s) \in Nat /\ k \in Nat /\ k \in 0 .. Len(s) /\ k + 1 \in 0 .. Len(s) /\ k + 1 \in 1 .. Len(s)
  OBVIOUS
<1>2. p \in Seq(C) /\ Len(p) = k /\ \A i \in 1 .. k : p[i] = s[i]
  BY <1>1, PrefixIs
<1>3. q \in Seq(C) /\ Len(q) = k + 1 /\ \A i \in 1 .. k + 1 : q[i] = s[i]
  BY <1>1, PrefixIs
<1> HIDE DEF p, q
<1>4. s[k + 1] \in C
  BY <1>1
<1>5. /\ Append(p, s[k + 1]) \in Seq(C) /\ Len(Append(p, s[k + 1])) = k + 1
      /\ \A i \in 1 .. k : Append(p, s[k + 1])[i] = p[i]
      /\ Append(p, s[k + 1])[k + 1] = s[k + 1]
  BY <1>2, <1>4, AppendProperties
<1>6. \A i \in 1 .. k + 1 : i \in 1 .. k \/ i = k + 1
  BY <1>1
<1>7. \A i \in 1 .. k + 1 : q[i] = Append(p, s[k + 1])[i]
  BY <1>1, <1>2, <1>3, <1>5, <1>6
<1>8. QED
  BY <1>3, <1>5, <1>7, SeqEqual DEF p, q

(* A step of the loop keeps its invariant.                                 *)
LEMMA SectionReadStep ==
    ASSUME NEW C, NEW s \in Seq(C), NEW k \in 0 .. Len(s) - 1,
           NEW read \in SectionReading(C), SectionRead(s, k, read)
    PROVE  SectionRead(s, k + 1, section_step(read, s[k + 1]))
<1> DEFINE c == s[k + 1]
           next == section_step(read, c)
<1>1. k \in Nat /\ Len(s) \in Nat /\ k + 1 \in 1 .. Len(s) /\ (k + 1) - 1 = k
  OBVIOUS
<1>2. /\ \A e \in 1 .. k + 1 : e \in 1 .. k \/ e = k + 1
      /\ 1 .. k \subseteq 1 .. k + 1 /\ k + 1 \in 1 .. k + 1
  BY <1>1
<1>3. "]" \notin Blank /\ Semicolon \notin Blank \cup {".", "]"}
  BY SemicolonIsOther DEF Blank
<1>4. SubSeq(s, 1, k + 1) = Append(SubSeq(s, 1, k), c)
  BY PrefixGrows
<1>5. read.at \in {"name", "tail", "comment", "wrong"}
  BY DEF SectionReading
<1> HIDE DEF c, next
<1>6. CASE read.at = "name"
  <2>1. InName(s, k) /\ \A e \in 1 .. k : ~ InTail(s, k, e) /\ ~ InComment(s, k, e)
    BY <1>6 DEF SectionRead
  <2>2. \A e \in 1 .. k + 1 : ~ InComment(s, k + 1, e) /\ (InTail(s, k + 1, e) <=> e = k + 1 /\ c = "]")
    BY <1>1, <1>2, <2>1, OneMore DEF c
  <2>3. InName(s, k + 1) <=> c \notin Blank \cup {".", "]"}
    BY <1>1, <2>1, OneMore DEF c
  <2>4. CASE c = "]"
    <3>1. next = [read EXCEPT !.at = "tail"]
      BY <1>6, <2>4, SectionStep DEF next
    <3>2. next.at = "tail" /\ next.name = SubSeq(s, 1, k)
      BY <1>6, <3>1 DEF SectionReading, SectionRead
    <3>3. QED
      BY <1>1, <1>2, <2>2, <2>3, <2>4, <3>2 DEF SectionRead, next, c
  <2>5. CASE c \notin Blank \cup {".", "]"}
    <3>1. next = [read EXCEPT !.name = Append(@, c)]
      BY <1>6, <2>5, SectionStep DEF next
    <3>2. next.at = "name" /\ next.name = SubSeq(s, 1, k + 1)
      BY <1>4, <1>6, <3>1 DEF SectionReading, SectionRead
    <3>3. QED
      BY <1>1, <1>2, <2>2, <2>3, <2>5, <3>2 DEF SectionRead, next, c
  <2>6. CASE c \in Blank \cup {"."}
    <3>1. next = [read EXCEPT !.at = "wrong"]
      BY <1>3, <1>6, <2>6, SectionStep DEF next
    <3>2. next.at = "wrong"
      BY <3>1 DEF SectionReading
    <3>3. c # "]"
      BY <1>3, <2>6
    <3>4. QED
      BY <1>1, <1>2, <2>2, <2>3, <2>6, <3>2, <3>3 DEF SectionRead, next, c
  <2>7. QED
    BY <2>4, <2>5, <2>6
<1>7. CASE read.at # "name"
  <2>1. ~ InName(s, k) /\ ~ InName(s, k + 1) /\ ~ InTail(s, k + 1, k + 1) /\ ~ InComment(s, k + 1, k + 1)
    BY <1>1, <1>7, OneMore DEF SectionRead
  <2>2. \A e \in 1 .. k + 1 :
           /\ InTail(s, k + 1, e) <=> e \in 1 .. k /\ InTail(s, k, e) /\ c \in Blank
           /\ InComment(s, k + 1, e) <=>
                 e \in 1 .. k /\ (InComment(s, k, e) \/ (InTail(s, k, e) /\ c = Semicolon))
    BY <1>1, <1>2, <2>1, OneMore DEF c
  <2>3. CASE read.at = "tail" /\ c \in Blank
    <3>1. next = read
      BY <1>3, <2>3, SectionStep DEF next
    <3>2. QED
      BY <1>2, <1>3, <2>1, <2>2, <2>3, <3>1 DEF SectionRead, next, c
  <2>4. CASE read.at = "tail" /\ c = Semicolon
    <3>1. next = [read EXCEPT !.at = "comment"]
      BY <1>3, <2>4, SectionStep DEF next
    <3>2. next.at = "comment" /\ next.name = read.name
      BY <3>1 DEF SectionReading
    <3>3. QED
      BY <1>2, <1>3, <2>1, <2>2, <2>4, <3>2 DEF SectionRead, next, c
  <2>5. CASE read.at = "comment"
    <3>1. next = read
      BY <2>5, SectionStep DEF next
    <3>2. QED
      BY <1>2, <1>3, <2>1, <2>2, <2>5, <3>1 DEF SectionRead, next, c
  <2>6. CASE read.at = "wrong" \/ (read.at = "tail" /\ c \notin Blank \cup {Semicolon})
    <3>1. next = [read EXCEPT !.at = "wrong"]
      BY <2>6, SectionStep DEF next
    <3>2. next.at = "wrong"
      BY <3>1 DEF SectionReading
    <3>3. QED
      BY <1>2, <1>3, <2>1, <2>2, <2>6, <3>2 DEF SectionRead, next, c
  <2>7. QED
    BY <1>5, <1>7, <2>3, <2>4, <2>5, <2>6
<1>8. QED
  BY <1>6, <1>7

(* So it holds when the loop ends.                                         *)
LEMMA SectionLoop ==
    ASSUME NEW C, NEW s \in Seq(C)
    PROVE  LET read == FoldLeft(section_step, [at |-> "name", name |-> <<>>], s)
           IN read \in SectionReading(C) /\ SectionRead(s, Len(s), read)
<1> DEFINE base == [at |-> "name", name |-> <<>>]
           n == Len(s)
<1>1. base \in SectionReading(C) /\ n \in Nat
  BY DEF SectionReading
<1>2. PICK r : /\ r \in [0 .. n -> SectionReading(C)]
               /\ r[0] = base
               /\ \A k \in 1 .. n : r[k] = section_step(r[k - 1], s[k])
               /\ r[n] = FoldLeft(section_step, base, s)
  BY <1>1, SectionFold
<1> DEFINE S == {k \in 0 .. n : SectionRead(s, k, r[k])}
<1>3. 0 \in S
  <2>1. 1 .. 0 = {} /\ SubSeq(s, 1, 0) = <<>> /\ 0 \in 0 .. n
    BY <1>1, SubSeqEmpty
  <2>2. r[0].at = "name" /\ r[0].name = <<>>
    BY <1>2
  <2>3. InName(s, 0)
    BY <2>1 DEF InName
  <2> HIDE DEF base
  <2>4. SectionRead(s, 0, r[0])
    BY <2>1, <2>2, <2>3 DEF SectionRead
  <2>5. QED
    BY <2>1, <2>4
<1>4. ASSUME NEW k \in 0 .. n - 1, k \in S
      PROVE  k + 1 \in S
  <2>1. k \in 0 .. n /\ k + 1 \in 0 .. n /\ k + 1 \in 1 .. n /\ (k + 1) - 1 = k
    BY <1>1
  <2>2. r[k + 1] = section_step(r[k], s[k + 1]) /\ r[k] \in SectionReading(C)
    BY <1>2, <2>1
  <2>3. SectionRead(s, k + 1, r[k + 1])
    BY <1>4, <2>2, SectionReadStep
  <2>4. QED
    BY <2>1, <2>3
<1> HIDE DEF S
<1>5. n \in S
  <2>1. 0 .. n \subseteq S
    BY <1>1, <1>3, <1>4, RangeInduction
  <2>2. QED
    BY <1>1, <2>1
<1> HIDE DEF base
<1>6. r[n] \in SectionReading(C)
  BY <1>1, <1>2
<1>7. QED
  BY <1>2, <1>5, <1>6 DEF S, base

(* The server's copy too takes for a section what Closes says.             *)
LEMMA SectionOf2 ==
    ASSUME NEW C, NEW str \in Seq(C), str # <<>>
    PROVE  /\ section_of_2(str) # Invalid =>
                 \E e : Closes(str, e) /\ section_of_2(str) = Section(SubSeq(str, 2, e - 1))
           /\ \A e : Closes(str, e) => section_of_2(str) = Section(SubSeq(str, 2, e - 1))
<1> DEFINE s == SubSeq(str, 2, Len(str) - 1)
           inner == FoldLeft(section_step, [at |-> "name", name |-> <<>>], s)
           read == IF inner.at = "name" THEN section_step(inner, Last(str)) ELSE inner
           L == Len(str)
           n == Len(s)
<1>1. /\ L \in Nat \ {0} /\ s \in Seq(C) /\ n = (IF L = 1 THEN 0 ELSE L - 2) /\ n \in Nat
      /\ \A i \in 1 .. n : s[i] = str[i + 1]
  <2>1. L \in Nat \ {0} /\ 1 =< 2 /\ L - 1 =< L /\ 2 \in Int /\ L - 1 \in Int
    OBVIOUS
  <2>2. /\ s \in Seq(C) /\ n = IF 2 =< L - 1 THEN (L - 1) - 2 + 1 ELSE 0
        /\ \A k \in 1 .. (L - 1) - 2 + 1 : s[k] = str[2 + k - 1]
    BY <2>1, Cut
  <2> HIDE DEF s, L, n
  <2>3. /\ n = (IF L = 1 THEN 0 ELSE L - 2) /\ n \in Nat /\ \A i \in 1 .. n : i \in 1 .. (L - 1) - 2 + 1 /\ 2 + i - 1 = i + 1
    <3>1. CASE L = 1
      BY <2>2, <3>1
    <3>2. CASE L # 1
      BY <2>1, <2>2, <3>2
    <3>3. QED
      BY <3>1, <3>2
  <2>4. QED
    BY <2>1, <2>2, <2>3
<1>2. inner \in SectionReading(C) /\ SectionRead(s, n, inner)
  <2> HIDE DEF s
  <2>1. QED
    BY <1>1, SectionLoop
<1>3. Last(str) = str[L]
  BY DEF Last
<1>4. section_of_2(str) = IF read.at \in {"tail", "comment"} /\ read.name # <<>> THEN Section(read.name) ELSE Invalid
  BY DEF section_of_2
<1>5. \A e \in 3 .. L : SubSeq(s, 1, e - 2) = SubSeq(str, 2, e - 1) /\ SubSeq(str, 2, e - 1) # <<>>
  <2> SUFFICES ASSUME NEW e \in 3 .. L
               PROVE SubSeq(s, 1, e - 2) = SubSeq(str, 2, e - 1) /\ SubSeq(str, 2, e - 1) # <<>>
    OBVIOUS
  <2> HIDE DEF s
  <2> DEFINE p == SubSeq(s, 1, e - 2)
             q == SubSeq(str, 2, e - 1)
  <2>1. e - 2 \in 0 .. n /\ e - 2 \in 1 .. n /\ e - 1 \in Int /\ 1 =< 2 /\ e - 1 =< L /\ 2 =< e - 1
        /\ (e - 1) - 2 + 1 = e - 2 /\ \A i \in 1 .. e - 2 : i \in 1 .. n /\ 2 + i - 1 = i + 1
    BY <1>1
  <2>2. p \in Seq(C) /\ Len(p) = e - 2 /\ \A i \in 1 .. e - 2 : p[i] = s[i]
    BY <1>1, <2>1, PrefixIs
  <2>3. q \in Seq(C) /\ Len(q) = e - 2 /\ \A i \in 1 .. e - 2 : q[i] = str[2 + i - 1]
    BY <2>1, Cut
  <2> HIDE DEF p, q
  <2>4. \A i \in 1 .. Len(p) : p[i] = q[i]
    BY <1>1, <2>1, <2>2, <2>3
  <2>5. p = q
    BY <2>2, <2>3, <2>4, SeqEqual
  <2>6. q # <<>>
    BY <2>1, <2>3
  <2>7. QED
    BY <2>5, <2>6 DEF p, q
<1> HIDE DEF s, inner, n, L
<1>6. "]" \notin Blank \cup {"."}
  BY DEF Blank
<1>7. ASSUME NEW e \in 2 .. L - 1
      PROVE  Closes(str, e) <=> e \in 3 .. L /\ (InTail(s, n, e - 1) \/ InComment(s, n, e - 1))
  <2>1. /\ e \in Nat /\ e - 1 \in 1 .. n /\ n = L - 2 /\ e =< L - 1 /\ (e - 1) + 1 = e
        /\ L \in Nat /\ n \in Nat /\ e >= 2
    BY <1>1
  <2>2. str[e] = s[e - 1]
    BY <1>1, <2>1
  <2>3. InName(s, (e - 1) - 1) <=> \A i \in 2 .. e - 1 : str[i] \notin Blank \cup {".", "]"}
    <3>1. \A i \in 1 .. (e - 1) - 1 : i \in 1 .. n /\ i + 1 \in 2 .. e - 1
      BY <2>1
    <3>2. \A i \in 2 .. e - 1 : i - 1 \in 1 .. (e - 1) - 1 /\ i - 1 \in 1 .. n /\ (i - 1) + 1 = i
      BY <2>1
    <3>3. QED
      BY <1>1, <3>1, <3>2 DEF InName
  <2>4. ASSUME NEW k \in Int, k =< n
        PROVE  (\A i \in (e - 1) + 1 .. k : s[i] \in Blank) <=> \A i \in e + 1 .. k + 1 : str[i] \in Blank
    <3>1. \A i \in (e - 1) + 1 .. k : i \in 1 .. n /\ i + 1 \in e + 1 .. k + 1
      BY <2>1, <2>4
    <3>2. \A i \in e + 1 .. k + 1 : i - 1 \in (e - 1) + 1 .. k /\ i - 1 \in 1 .. n /\ (i - 1) + 1 = i
      BY <2>1, <2>4
    <3>3. QED
      BY <1>1, <3>1, <3>2
  <2>5. (\A i \in (e - 1) + 1 .. n : s[i] \in Blank) <=> \A i \in e + 1 .. L - 1 : str[i] \in Blank
    <3>1. n + 1 = L - 1 /\ n \in Int /\ n =< n
      BY <2>1
    <3>2. (\A i \in (e - 1) + 1 .. n : s[i] \in Blank) <=> \A i \in e + 1 .. n + 1 : str[i] \in Blank
      BY <2>4, <3>1
    <3>3. QED
      BY <3>1, <3>2
  <2>6. (\E m \in (e - 1) + 1 .. n : s[m] = Semicolon /\ \A i \in (e - 1) + 1 .. m - 1 : s[i] \in Blank)
          <=> \E k \in e + 1 .. L - 1 : str[k] = Semicolon /\ \A i \in e + 1 .. k - 1 : str[i] \in Blank
    <3>1. ASSUME NEW m \in (e - 1) + 1 .. n
          PROVE  /\ m + 1 \in e + 1 .. L - 1 /\ s[m] = str[m + 1]
                 /\ (\A i \in (e - 1) + 1 .. m - 1 : s[i] \in Blank) <=> \A i \in e + 1 .. (m + 1) - 1 : str[i] \in Blank
      <4>1. m + 1 \in e + 1 .. L - 1 /\ m \in 1 .. n /\ m - 1 \in Int /\ m - 1 =< n /\ (m - 1) + 1 = (m + 1) - 1
        BY <2>1
      <4>2. (\A i \in (e - 1) + 1 .. m - 1 : s[i] \in Blank) <=> \A i \in e + 1 .. (m - 1) + 1 : str[i] \in Blank
        BY <2>4, <4>1
      <4>3. QED
        BY <1>1, <4>1, <4>2
    <3>2. \A k \in e + 1 .. L - 1 : k - 1 \in (e - 1) + 1 .. n /\ (k - 1) + 1 = k
      BY <2>1
    <3>3. ASSUME NEW k \in e + 1 .. L - 1, str[k] = Semicolon, \A i \in e + 1 .. k - 1 : str[i] \in Blank
          PROVE  \E m \in (e - 1) + 1 .. n : s[m] = Semicolon /\ \A i \in (e - 1) + 1 .. m - 1 : s[i] \in Blank
      <4> DEFINE m == k - 1
      <4>1. m \in (e - 1) + 1 .. n /\ m + 1 = k
        BY <3>2
      <4> HIDE DEF m
      <4>2. s[m] = Semicolon /\ \A i \in (e - 1) + 1 .. m - 1 : s[i] \in Blank
        BY <3>1, <3>3, <4>1
      <4>3. QED
        BY <4>1, <4>2
    <3>4. ASSUME NEW m \in (e - 1) + 1 .. n, s[m] = Semicolon, \A i \in (e - 1) + 1 .. m - 1 : s[i] \in Blank
          PROVE  \E k \in e + 1 .. L - 1 : str[k] = Semicolon /\ \A i \in e + 1 .. k - 1 : str[i] \in Blank
      <4> DEFINE k == m + 1
      <4>1. k \in e + 1 .. L - 1 /\ str[k] = Semicolon /\ \A i \in e + 1 .. k - 1 : str[i] \in Blank
        BY <3>1, <3>4
      <4> HIDE DEF k
      <4>2. QED
        BY <4>1
    <3>5. QED
      BY <3>3, <3>4
  <2>7. e \in 3 .. L <=> e - 1 # 1
    BY <2>1
  <2>8. QED
    BY <2>1, <2>2, <2>3, <2>5, <2>6, <2>7 DEF Closes, InTail, InComment, L
<1>8. ASSUME L \in 3 .. L
      PROVE  Closes(str, L) <=> InName(s, n) /\ str[L] = "]"
  <2>1. /\ n = L - 2 /\ L + 1 .. L - 1 = {} /\ \A i \in 1 .. n : i + 1 \in 2 .. L - 1
        /\ L \in Nat /\ n \in Nat
    BY <1>1, <1>8
  <2>2. \A i \in 2 .. L - 1 : i - 1 \in 1 .. n /\ (i - 1) + 1 = i
    BY <1>1, <1>8
  <2>3. InName(s, n) <=> \A i \in 2 .. L - 1 : str[i] \notin Blank \cup {".", "]"}
    <3>1. ASSUME InName(s, n), NEW i \in 2 .. L - 1
          PROVE  str[i] \notin Blank \cup {".", "]"}
      <4>1. s[i - 1] = str[(i - 1) + 1]
        BY <1>1, <2>2
      <4>2. QED
        BY <2>2, <3>1, <4>1 DEF InName
    <3>2. ASSUME \A i \in 2 .. L - 1 : str[i] \notin Blank \cup {".", "]"}, NEW i \in 1 .. n
          PROVE  s[i] \notin Blank \cup {".", "]"}
      BY <1>1, <2>1, <3>2
    <3>3. QED
      BY <3>1, <3>2 DEF InName
  <2>4. QED
    BY <1>8, <2>1, <2>3 DEF Closes, L
<1>9. \A e : Closes(str, e) => e \in 3 .. L /\ (e \in 2 .. L - 1 \/ e = L)
  BY <1>1 DEF Closes, L
<1>10. CASE inner.at = "name"
  <2>1. InName(s, n) /\ inner.name = SubSeq(s, 1, n) /\ \A e \in 1 .. n : ~ InTail(s, n, e) /\ ~ InComment(s, n, e)
    BY <1>2, <1>10 DEF SectionRead
  <2>2. \A e : Closes(str, e) => e = L
    <3>1. \A e \in 2 .. L - 1 : e - 1 \in 1 .. n
      BY <1>1
    <3>2. QED
      BY <1>7, <1>9, <2>1, <3>1
  <2>3. read = section_step(inner, str[L])
    BY <1>3, <1>10
  <2>4. CASE str[L] = "]"
    <3>1. read = [inner EXCEPT !.at = "tail"]
      BY <1>10, <2>3, <2>4, SectionStep
    <3>2. read.at = "tail" /\ read.name = SubSeq(s, 1, n)
      BY <1>2, <2>1, <3>1 DEF SectionReading
    <3>3. CASE L \in 3 .. L
      <4>1. Closes(str, L) /\ n = L - 2
        BY <1>1, <1>8, <2>1, <2>4, <3>3
      <4>2. read.name = SubSeq(str, 2, L - 1) /\ read.name # <<>>
        BY <1>5, <3>2, <3>3, <4>1
      <4> HIDE DEF read
      <4>3. section_of_2(str) = Section(SubSeq(str, 2, L - 1))
        BY <1>4, <3>2, <4>2
      <4>4. QED
        BY <2>2, <4>1, <4>3
    <3>4. CASE L \notin 3 .. L
      <4>1. n = 0
        BY <1>1, <3>4
      <4>2. read.name = <<>>
        <5>1. SubSeq(s, 1, 0) = <<>>
          BY SubSeqEmpty
        <5>2. QED
          BY <3>2, <4>1, <5>1
      <4> HIDE DEF read
      <4>3. section_of_2(str) = Invalid
        BY <1>4, <4>2
      <4>4. QED
        BY <1>9, <2>2, <3>4, <4>3
    <3>5. QED
      BY <3>3, <3>4
  <2>5. CASE str[L] # "]"
    <3>1. read.at \notin {"tail", "comment"}
      BY <1>10, <2>3, <2>5, <1>2, SectionStep DEF SectionReading
    <3>2. \A e : ~ Closes(str, e)
      BY <1>8, <1>9, <2>2, <2>5
    <3> HIDE DEF read
    <3>3. section_of_2(str) = Invalid
      BY <1>4, <3>1
    <3>4. QED
      BY <3>2, <3>3
  <2>6. QED
    BY <2>4, <2>5
<1>11. CASE inner.at # "name"
  <2>1. read = inner /\ ~ InName(s, n)
    BY <1>2, <1>11 DEF SectionRead
  <2>2. \A e : Closes(str, e) => e \in 2 .. L - 1
    BY <1>8, <1>9, <2>1
  <2>3. \A e \in 1 .. n : InTail(s, n, e) \/ InComment(s, n, e) => inner.name = SubSeq(s, 1, e - 1)
    BY <1>2 DEF SectionRead
  <2>4. read.at \in {"tail", "comment"} <=> \E e \in 1 .. n : InTail(s, n, e) \/ InComment(s, n, e)
    BY <1>2, <2>1 DEF SectionRead
  <2>5. ASSUME NEW e, Closes(str, e)
        PROVE  section_of_2(str) = Section(SubSeq(str, 2, e - 1))
    <3>1. e \in 2 .. L - 1 /\ e \in 3 .. L /\ e - 1 \in 1 .. n /\ (e - 1) - 1 = e - 2
      BY <1>1, <1>9, <2>2, <2>5
    <3>2. InTail(s, n, e - 1) \/ InComment(s, n, e - 1)
      BY <1>7, <2>5, <3>1
    <3>3. read.name = SubSeq(str, 2, e - 1) /\ read.name # <<>>
      BY <1>5, <2>1, <2>3, <3>1, <3>2
    <3>4. read.at \in {"tail", "comment"}
      BY <2>4, <3>1, <3>2
    <3> HIDE DEF read
    <3>5. QED
      BY <1>4, <3>3, <3>4
  <2>6. ASSUME section_of_2(str) # Invalid
        PROVE  \E e : Closes(str, e)
    <3>1. read.at \in {"tail", "comment"} /\ read.name # <<>>
      BY <1>4, <2>6
    <3>2. PICK e \in 1 .. n : InTail(s, n, e) \/ InComment(s, n, e)
      BY <2>4, <3>1
    <3>3. e # 1
      <4>1. SubSeq(s, 1, 0) = <<>>
        BY SubSeqEmpty
      <4>2. QED
        BY <2>1, <2>3, <3>1, <3>2, <4>1
    <3>4. e + 1 \in 2 .. L - 1 /\ (e + 1) - 1 = e /\ e + 1 \in 3 .. L
      BY <1>1, <3>3
    <3>5. Closes(str, e + 1)
      BY <1>7, <3>2, <3>4
    <3>6. QED
      BY <3>5
  <2>7. QED
    BY <2>5, <2>6
<1>12. QED
  BY <1>10, <1>11

-------------------------------------------------------------------------------
(* Variables.                                                              *)

(* A prefix of a part of a text is a part of the text.                     *)
LEMMA SubOfSub ==
    ASSUME NEW C, NEW str \in Seq(C), NEW i \in 1 .. Len(str) + 1, NEW j \in i - 1 .. Len(str),
           NEW a \in 0 .. j - i + 1
    PROVE  SubSeq(SubSeq(str, i, j), 1, a) = SubSeq(str, i, i + a - 1)
<1> DEFINE q == SubSeq(str, i, j)
           p == SubSeq(q, 1, a)
           t == SubSeq(str, i, i + a - 1)
<1>1. /\ Len(str) \in Nat /\ i \in Int /\ j \in Int /\ 1 =< i /\ j =< Len(str) /\ a \in Nat
      /\ j - i + 1 \in Nat /\ (i =< j \/ j - i + 1 = 0) /\ i + a - 1 \in Int /\ i + a - 1 =< Len(str)
      /\ (i + a - 1) - i + 1 = a /\ (i =< i + a - 1 \/ a = 0) /\ a =< j - i + 1
  OBVIOUS
<1>2. /\ q \in Seq(C) /\ Len(q) = j - i + 1
      /\ \A k \in 1 .. j - i + 1 : q[k] = str[i + k - 1]
  BY <1>1, Cut
<1>3. /\ t \in Seq(C) /\ Len(t) = a /\ \A k \in 1 .. a : t[k] = str[i + k - 1]
  <2> DEFINE h == i + a - 1
  <2>1. h \in Int /\ h =< Len(str) /\ h - i + 1 = a /\ (i =< h \/ a = 0) /\ (i =< h => a # 0)
    BY <1>1
  <2> HIDE DEF h
  <2>2. /\ SubSeq(str, i, h) \in Seq(C)
        /\ Len(SubSeq(str, i, h)) = IF i =< h THEN h - i + 1 ELSE 0
        /\ \A k \in 1 .. h - i + 1 : SubSeq(str, i, h)[k] = str[i + k - 1]
    BY <1>1, <2>1, Cut
  <2>3. QED
    BY <2>1, <2>2 DEF h
<1> HIDE DEF q, t
<1>4. p \in Seq(C) /\ Len(p) = a /\ \A k \in 1 .. a : p[k] = q[k]
  BY <1>1, <1>2, PrefixIs
<1> HIDE DEF p
<1>5. \A k \in 1 .. a : p[k] = t[k]
  <2>1. \A k \in 1 .. a : k \in 1 .. j - i + 1
    BY <1>1
  <2>2. QED
    BY <1>2, <1>3, <1>4, <2>1
<1>6. QED
  BY <1>3, <1>4, <1>5, SeqEqual DEF p, q, t

(* Only one prefix is what Until takes.                                    *)
LEMMA UntilIsThat ==
    ASSUME NEW C, NEW str \in Seq(C), NEW chars, NEW m \in 0 .. Len(str),
           \A i \in 1 .. m : str[i] \notin chars,
           m < Len(str) => str[m + 1] \in chars
    PROVE  Until(str, chars) = SubSeq(str, 1, m)
<1>1. PICK a \in 0 .. Len(str) :
              /\ Until(str, chars) = SubSeq(str, 1, a)
              /\ \A i \in 1 .. a : str[i] \notin chars
              /\ a < Len(str) => str[a + 1] \in chars
  BY UntilIs
<1>2. Len(str) \in Nat /\ a \in Nat /\ m \in Nat /\ a =< Len(str) /\ m =< Len(str)
  OBVIOUS
<1>3. ~ (a < m)
  <2>1. a < m => a + 1 \in 1 .. m /\ a < Len(str)
    BY <1>2
  <2>2. QED
    BY <1>1, <2>1
<1>4. ~ (m < a)
  <2>1. m < a => m + 1 \in 1 .. a /\ m < Len(str)
    BY <1>2
  <2>2. QED
    BY <1>1, <2>1
<1>5. a = m
  BY <1>2, <1>3, <1>4
<1>6. QED
  BY <1>1, <1>5

(* What the loop remembers of a variable's line.                           *)
VariableReading(C) == [at : {"name", "gap", "value", "comment"}, name : Seq(C), value : Seq(C)]

(* The cases of this loop.                                                 *)
LEMMA VariableStep ==
    ASSUME NEW read, NEW c
    PROVE  variable_step(read, c) =
              CASE read.at \in {"name", "gap"} /\ c = "=" -> [read EXCEPT !.at = "value"]
                [] read.at = "name" /\ c \in Blank \cup {"."} -> [read EXCEPT !.at = "gap"]
                [] read.at = "name" /\ c \notin Blank \cup {".", "="} -> [read EXCEPT !.name = Append(@, c)]
                [] read.at = "value" /\ c = Semicolon -> [read EXCEPT !.at = "comment"]
                [] read.at = "value" /\ c # Semicolon -> [read EXCEPT !.value = Append(@, c)]
                [] OTHER -> read
BY Zenon DEF variable_step, Semicolon

(* The loop keeps to what it remembers.                                    *)
LEMMA VariableStepType ==
    ASSUME NEW C, NEW read \in VariableReading(C), NEW c \in C
    PROVE  variable_step(read, c) \in VariableReading(C)
<1>1. \A part \in Seq(C) : Append(part, c) \in Seq(C)
  OBVIOUS
<1>2. variable_step(read, c) \in {read, [read EXCEPT !.at = "value"], [read EXCEPT !.at = "gap"],
          [read EXCEPT !.name = Append(@, c)], [read EXCEPT !.at = "comment"], [read EXCEPT !.value = Append(@, c)]}
  BY VariableStep, Zenon
<1>3. QED
  BY <1>1, <1>2 DEF VariableReading

(* The loop goes through a reading for every number of characters.         *)
LEMMA VariableFold ==
    ASSUME NEW C, NEW s \in Seq(C), NEW base \in VariableReading(C)
    PROVE  \E r : /\ r \in [0 .. Len(s) -> VariableReading(C)]
                  /\ r[0] = base
                  /\ \A k \in 1 .. Len(s) : r[k] = variable_step(r[k - 1], s[k])
                  /\ r[Len(s)] = FoldLeft(variable_step, base, s)
<1> DEFINE n == Len(s)
           A == VariableReading(C)
           F == [p \in A \X (1 .. n) |-> variable_step(p[1], s[p[2]])]
           Solves(g) == g = [t \in SUBSET (1 .. n) |->
                                IF t = {} THEN base ELSE variable_step(g[t \ {Max(t)}], s[Max(t)])]
           iter == CHOOSE g : Solves(g)
<1>1. n \in Nat /\ DOMAIN s = 1 .. n /\ \A i \in 1 .. n : s[i] \in C
  OBVIOUS
<1>2. F \in [A \X (1 .. n) -> A]
  BY <1>1, VariableStepType
<1>3. \A a \in A, i \in 1 .. n : F[<<a, i>>] = variable_step(a, s[i])
  OBVIOUS
<1>4. base \in A
  OBVIOUS
<1> HIDE DEF n, A, F
<1>5. PICK g : Folds(g, A, base, n, F)
  BY <1>1, <1>2, <1>4, FoldIterates
<1>6. \A t \in SUBSET (1 .. n) : t # {} => Max(t) \in 1 .. n
  BY <1>1, MaxInRange
<1>7. Solves(g)
  BY <1>3, <1>5, <1>6 DEF Folds
<1>8. Solves(iter)
  BY <1>7
<1>9. FoldLeft(variable_step, base, s) = iter[1 .. n]
  BY <1>1 DEF FoldLeft, MapThenFoldSet
<1> HIDE DEF iter
<1>10. Recurs(iter, A, base, n, F)
  BY <1>3, <1>6, <1>8 DEF Recurs
<1>11. PICK r : IsRun(r, iter, A, base, n, F)
  BY <1>1, <1>2, <1>4, <1>10, FoldRuns
<1>12. \A k \in 1 .. n : r[k - 1] \in A /\ r[k] = variable_step(r[k - 1], s[k])
  <2>1. \A k \in 1 .. n : k - 1 \in 0 .. n
    BY <1>1
  <2>2. QED
    BY <1>3, <1>11, <2>1 DEF IsRun, Iterates
<1>13. QED
  BY <1>9, <1>11, <1>12 DEF IsRun, Iterates, n, A

(* The part before "=", without what follows its first blank or dot.       *)
NameOf(s, k, name) == \E a \in 0 .. k :
    /\ name = SubSeq(s, 1, a)
    /\ \A i \in 1 .. a : s[i] \notin Blank \cup {"."}
    /\ a < k => s[a + 1] \in Blank \cup {"."}
ValueOf(s, k, e, read) == \E m \in e .. k :
    /\ read.value = SubSeq(s, e + 1, m)
    /\ \A i \in e + 1 .. m : s[i] # Semicolon
    /\ m < k => s[m + 1] = Semicolon
    /\ read.at = "value" <=> m = k
Before(s, k) == \A i \in 1 .. k : s[i] # "="
VariableRead(s, k, read) ==
    \/ /\ read.at \in {"name", "gap"} /\ Before(s, k)
       /\ NameOf(s, k, read.name) /\ read.value = <<>>
       /\ read.at = "name" <=> \A i \in 1 .. k : s[i] \notin Blank \cup {"."}
    \/ /\ read.at \in {"value", "comment"}
       /\ \E e \in 1 .. k : /\ s[e] = "=" /\ Before(s, e - 1)
                            /\ NameOf(s, e - 1, read.name) /\ ValueOf(s, k, e, read)

(* A part of a text with one character more.                               *)
LEMMA MiddleGrows ==
    ASSUME NEW C, NEW s \in Seq(C), NEW k \in 0 .. Len(s) - 1, NEW e \in 0 .. k
    PROVE  SubSeq(s, e + 1, k + 1) = Append(SubSeq(s, e + 1, k), s[k + 1])
<1>1. /\ Len(s) \in Nat /\ k \in Nat /\ e \in Nat /\ e + 1 \in 1 .. Len(s) /\ k + 1 \in e + 1 .. Len(s)
      /\ (k + 1) - 1 = k /\ s[k + 1] \in C
  OBVIOUS
<1>2. SubSeq(s, e + 1, k + 1) = SubSeq(s, e + 1, (k + 1) - 1) \o <<s[k + 1]>>
  BY <1>1, SubSeqRecursiveSecond
<1>3. SubSeq(s, e + 1, k) \in Seq(C)
  <2>1. 1 =< e + 1 /\ e + 1 \in Int /\ k \in Int /\ k =< Len(s)
    BY <1>1
  <2>2. QED
    BY <2>1, Cut
<1>4. QED
  BY <1>1, <1>2, <1>3, AppendIsConcat

(* A step of the loop keeps its invariant.                                 *)
LEMMA VariableReadStep ==
    ASSUME NEW C, NEW s \in Seq(C), NEW k \in 0 .. Len(s) - 1,
           NEW read \in VariableReading(C), VariableRead(s, k, read)
    PROVE  VariableRead(s, k + 1, variable_step(read, s[k + 1]))
<1> DEFINE c == s[k + 1]
           next == variable_step(read, c)
           Stops == Blank \cup {"."}
<1>1. k \in Nat /\ Len(s) \in Nat /\ k + 1 \in 1 .. Len(s) /\ (k + 1) - 1 = k /\ k + 1 \in 0 .. k + 1
  OBVIOUS
<1>2. \A i \in 1 .. k + 1 : i \in 1 .. k \/ i = k + 1
  BY <1>1
<1>3. "=" \notin Stops
  BY DEF Blank
<1> HIDE DEF c, next
<1>4. Before(s, k) /\ c # "=" => Before(s, k + 1)
  BY <1>2 DEF Before, c
<1>5. CASE read.at \in {"name", "gap"}
  <2>1. /\ Before(s, k) /\ NameOf(s, k, read.name) /\ read.value = <<>>
        /\ read.at = "name" <=> \A i \in 1 .. k : s[i] \notin Stops
    BY <1>5 DEF VariableRead
  <2>2. CASE c = "="
    <3>1. next = [read EXCEPT !.at = "value"]
      BY <1>3, <1>5, <2>2, VariableStep DEF next
    <3>2. next.at = "value" /\ next.name = read.name /\ next.value = <<>>
      BY <2>1, <3>1 DEF VariableReading
    <3> DEFINE e == k + 1
    <3>3. e \in 1 .. e /\ e - 1 = k /\ e \in e .. e /\ SubSeq(s, e + 1, e) = <<>> /\ e + 1 .. e = {} /\ ~ (e < e)
      BY <1>1, SubSeqEmpty
    <3>4. s[e] = "="
      BY <2>2 DEF c
    <3> HIDE DEF e
    <3>5. ValueOf(s, e, e, next)
      BY <3>2, <3>3 DEF ValueOf
    <3>6. VariableRead(s, e, next)
      BY <2>1, <3>2, <3>3, <3>4, <3>5 DEF VariableRead
    <3>7. QED
      BY <3>6 DEF e, next, c
  <2>3. PICK a \in 0 .. k :
           /\ read.name = SubSeq(s, 1, a)
           /\ \A i \in 1 .. a : s[i] \notin Stops
           /\ a < k => s[a + 1] \in Stops
    BY <2>1 DEF NameOf
  <2>4. CASE read.at = "name" /\ c \in Stops
    <3>1. next = [read EXCEPT !.at = "gap"]
      BY <1>3, <2>4, VariableStep DEF next
    <3>2. next.at = "gap" /\ next.name = read.name /\ next.value = <<>>
      BY <2>1, <3>1 DEF VariableReading
    <3>3. a = k
      BY <1>1, <2>1, <2>3, <2>4
    <3>4. a \in 0 .. k + 1 /\ a < k + 1 /\ k + 1 \in 1 .. k + 1
      BY <1>1, <3>3
    <3>5. NameOf(s, k + 1, next.name)
      BY <2>3, <2>4, <3>2, <3>3, <3>4 DEF NameOf, c
    <3>6. QED
      BY <1>3, <1>4, <2>1, <2>4, <3>2, <3>4, <3>5 DEF VariableRead, next, c
  <2>5. CASE read.at = "name" /\ c \notin Stops \cup {"="}
    <3>1. next = [read EXCEPT !.name = Append(@, c)]
      BY <2>5, VariableStep DEF next
    <3>2. a = k
      BY <1>1, <2>1, <2>3, <2>5
    <3>3. next.at = "name" /\ next.name = SubSeq(s, 1, k + 1) /\ next.value = <<>>
      BY <2>1, <2>3, <2>5, <3>1, <3>2, PrefixGrows DEF VariableReading, c
    <3>4. \A i \in 1 .. k + 1 : s[i] \notin Stops
      BY <1>2, <2>1, <2>5 DEF c
    <3>5. NameOf(s, k + 1, next.name)
      BY <1>1, <3>3, <3>4 DEF NameOf
    <3>6. QED
      BY <1>4, <2>1, <2>5, <3>3, <3>4, <3>5 DEF VariableRead, next, c
  <2>6. CASE read.at = "gap" /\ c # "="
    <3>1. next = read
      BY <2>6, VariableStep DEF next
    <3>2. a < k
      <4>1. a # k
        BY <2>1, <2>3, <2>6
      <4>2. QED
        BY <1>1, <4>1
    <3>3. a \in 0 .. k + 1 /\ 1 .. k \subseteq 1 .. k + 1
      BY <1>1
    <3>4. NameOf(s, k + 1, next.name)
      BY <2>3, <3>1, <3>2, <3>3 DEF NameOf
    <3>5. QED
      BY <1>4, <2>1, <2>6, <3>1, <3>3, <3>4 DEF VariableRead, next, c
  <2>7. QED
    BY <1>5, <2>2, <2>4, <2>5, <2>6
<1>6. CASE read.at \in {"value", "comment"}
  <2>1. PICK e \in 1 .. k : /\ s[e] = "=" /\ Before(s, e - 1)
                           /\ NameOf(s, e - 1, read.name) /\ ValueOf(s, k, e, read)
    BY <1>6 DEF VariableRead
  <2>2. PICK m \in e .. k :
           /\ read.value = SubSeq(s, e + 1, m)
           /\ \A i \in e + 1 .. m : s[i] # Semicolon
           /\ m < k => s[m + 1] = Semicolon
           /\ read.at = "value" <=> m = k
    BY <2>1 DEF ValueOf
  <2>3. e \in 1 .. k + 1 /\ m \in e .. k + 1 /\ e \in 0 .. k /\ m \in Nat /\ m < k + 1 /\ m # k + 1
    BY <1>1
  <2>4. ASSUME next.at \in {"value", "comment"}, next.name = read.name, ValueOf(s, k + 1, e, next)
        PROVE  VariableRead(s, k + 1, next)
    BY <2>1, <2>3, <2>4 DEF VariableRead
  <2>5. CASE read.at = "value" /\ c = Semicolon
    <3>1. next = [read EXCEPT !.at = "comment"]
      BY <2>5, VariableStep, SemicolonIsOther DEF next
    <3>2. next.at = "comment" /\ next.name = read.name /\ next.value = read.value
      BY <3>1 DEF VariableReading
    <3>3. ValueOf(s, k + 1, e, next)
      BY <2>2, <2>3, <2>5, <3>2 DEF ValueOf, c
    <3>4. QED
      BY <2>4, <3>2, <3>3 DEF next, c
  <2>6. CASE read.at = "value" /\ c # Semicolon
    <3>1. next = [read EXCEPT !.value = Append(@, c)]
      BY <2>6, VariableStep DEF next
    <3>2. next.at = "value" /\ next.name = read.name /\ next.value = SubSeq(s, e + 1, k + 1)
      BY <2>2, <2>3, <2>6, <3>1, MiddleGrows DEF VariableReading, c
    <3>3. /\ k + 1 \in e .. k + 1 /\ ~ (k + 1 < k + 1)
          /\ \A i \in e + 1 .. k + 1 : i \in e + 1 .. k \/ i = k + 1
      BY <1>1
    <3>4. \A i \in e + 1 .. k + 1 : s[i] # Semicolon
      BY <2>2, <2>6, <3>3 DEF c
    <3>5. ValueOf(s, k + 1, e, next)
      BY <3>2, <3>3, <3>4 DEF ValueOf
    <3>6. QED
      BY <2>4, <3>2, <3>5 DEF next, c
  <2>7. CASE read.at = "comment"
    <3>1. next = read
      BY <2>7, VariableStep DEF next
    <3>2. m < k
      BY <1>1, <2>2, <2>7
    <3>3. ValueOf(s, k + 1, e, next)
      BY <2>2, <2>3, <2>7, <3>1, <3>2 DEF ValueOf
    <3>4. QED
      BY <1>6, <2>4, <3>1, <3>3 DEF next, c
  <2>8. QED
    BY <1>6, <2>5, <2>6, <2>7
<1>7. QED
  BY <1>5, <1>6 DEF VariableReading

(* So it holds when the loop ends.                                         *)
LEMMA VariableLoop ==
    ASSUME NEW C, NEW s \in Seq(C)
    PROVE  LET read == FoldLeft(variable_step, [at |-> "name", name |-> <<>>, value |-> <<>>], s)
           IN read \in VariableReading(C) /\ VariableRead(s, Len(s), read)
<1> DEFINE base == [at |-> "name", name |-> <<>>, value |-> <<>>]
           n == Len(s)
<1>1. base \in VariableReading(C) /\ n \in Nat
  BY DEF VariableReading
<1>2. PICK r : /\ r \in [0 .. n -> VariableReading(C)]
               /\ r[0] = base
               /\ \A k \in 1 .. n : r[k] = variable_step(r[k - 1], s[k])
               /\ r[n] = FoldLeft(variable_step, base, s)
  BY <1>1, VariableFold
<1> DEFINE S == {k \in 0 .. n : VariableRead(s, k, r[k])}
<1>3. 0 \in S
  <2>1. 1 .. 0 = {} /\ SubSeq(s, 1, 0) = <<>> /\ 0 \in 0 .. n /\ 0 \in 0 .. 0 /\ ~ (0 < 0)
    BY <1>1, SubSeqEmpty
  <2>2. r[0].at = "name" /\ r[0].name = <<>> /\ r[0].value = <<>>
    BY <1>2
  <2> HIDE DEF base
  <2>3. Before(s, 0) /\ NameOf(s, 0, r[0].name)
    BY <2>1, <2>2 DEF Before, NameOf
  <2>4. VariableRead(s, 0, r[0])
    BY <2>1, <2>2, <2>3 DEF VariableRead
  <2>5. QED
    BY <2>1, <2>4
<1>4. ASSUME NEW k \in 0 .. n - 1, k \in S
      PROVE  k + 1 \in S
  <2>1. k \in 0 .. n /\ k + 1 \in 0 .. n /\ k + 1 \in 1 .. n /\ (k + 1) - 1 = k
    BY <1>1
  <2>2. r[k + 1] = variable_step(r[k], s[k + 1]) /\ r[k] \in VariableReading(C)
    BY <1>2, <2>1
  <2>3. VariableRead(s, k + 1, r[k + 1])
    BY <1>4, <2>2, VariableReadStep
  <2>4. QED
    BY <2>1, <2>3
<1> HIDE DEF S
<1>5. n \in S
  <2>1. 0 .. n \subseteq S
    BY <1>1, <1>3, <1>4, RangeInduction
  <2>2. QED
    BY <1>1, <2>1
<1> HIDE DEF base
<1>6. r[n] \in VariableReading(C)
  BY <1>1, <1>2
<1>7. QED
  BY <1>2, <1>5, <1>6 DEF S, base

(* Both copies take the same parts of a line for name and value.           *)
LEMMA VariableOf2 ==
    ASSUME NEW C, Marks \subseteq C, NEW str \in Seq(C)
    PROVE  LET end == find(str, <<"=">>)
               name == Until(SubSeq(str, 1, end - 1), Blank \cup {"."})
           IN variable_of_2(str) = IF end = 0 \/ name = <<>> THEN Invalid
                                   ELSE Variable(name, Until(From(str, end + 1), {Semicolon}))
<1> DEFINE end == find(str, <<"=">>)
           name == Until(SubSeq(str, 1, end - 1), Blank \cup {"."})
           value == Until(From(str, end + 1), {Semicolon})
           read == FoldLeft(variable_step, [at |-> "name", name |-> <<>>, value |-> <<>>], str)
           n == Len(str)
<1>1. /\ end \in 0 .. n /\ n \in Nat
      /\ end = 0 => \A i \in 1 .. n : str[i] # "="
      /\ end # 0 => str[end] = "=" /\ \A i \in 1 .. end - 1 : str[i] # "="
  <2>1. "=" \in C
    BY DEF Marks
  <2>2. QED
    BY <2>1, FindOne
<1>2. VariableRead(str, n, read)
  BY VariableLoop
<1>3. variable_of_2(str) = IF read.at \in {"name", "gap"} \/ read.name = <<>> THEN Invalid
                           ELSE Variable(read.name, read.value)
  BY DEF variable_of_2
<1> HIDE DEF end, read
<1>4. CASE read.at \in {"name", "gap"}
  <2>1. Before(str, n)
    BY <1>2, <1>4 DEF VariableRead
  <2>2. end = 0
    BY <1>1, <2>1 DEF Before
  <2>3. QED
    BY <1>3, <1>4, <2>2 DEF end
<1>5. CASE read.at \notin {"name", "gap"}
  <2>1. PICK e \in 1 .. n : /\ str[e] = "=" /\ Before(str, e - 1)
                            /\ NameOf(str, e - 1, read.name) /\ ValueOf(str, n, e, read)
    BY <1>2, <1>5 DEF VariableRead
  <2>2. e = end
    <3>1. end # 0
      BY <1>1, <2>1
    <3>2. ~ (end < e)
      <4>1. end < e => end \in 1 .. e - 1
        BY <1>1, <3>1
      <4>2. QED
        BY <1>1, <2>1, <3>1, <4>1 DEF Before
    <3>3. ~ (e < end)
      <4>1. e < end => e \in 1 .. end - 1
        BY <1>1, <3>1
      <4>2. QED
        BY <1>1, <2>1, <3>1, <4>1
    <3>4. QED
      BY <1>1, <3>1, <3>2, <3>3
  <2>3. e \in Nat /\ e >= 1 /\ e =< n /\ e - 1 \in 0 .. n
    BY <1>1
  <2>4. read.name = name
    <3> DEFINE before == SubSeq(str, 1, e - 1)
    <3>1. PICK a \in 0 .. e - 1 :
             /\ read.name = SubSeq(str, 1, a)
             /\ \A i \in 1 .. a : str[i] \notin Blank \cup {"."}
             /\ a < e - 1 => str[a + 1] \in Blank \cup {"."}
      BY <2>1 DEF NameOf
    <3>2. before \in Seq(C) /\ Len(before) = e - 1 /\ \A i \in 1 .. e - 1 : before[i] = str[i]
      BY <2>3, PrefixIs
    <3>3. /\ a \in 0 .. Len(before) /\ \A i \in 1 .. a : i \in 1 .. e - 1
          /\ a < Len(before) => a + 1 \in 1 .. e - 1
      BY <2>3, <3>2
    <3>4. SubSeq(before, 1, a) = SubSeq(str, 1, a)
      <4>1. 1 \in 1 .. Len(str) + 1 /\ e - 1 \in 1 - 1 .. Len(str) /\ a \in 0 .. (e - 1) - 1 + 1 /\ 1 + a - 1 = a
        BY <1>1, <2>3
      <4> DEFINE j == e - 1
      <4>2. 1 \in 1 .. Len(str) + 1 /\ j \in 1 - 1 .. Len(str) /\ a \in 0 .. j - 1 + 1
        BY <4>1
      <4> HIDE DEF j
      <4>3. SubSeq(SubSeq(str, 1, j), 1, a) = SubSeq(str, 1, 1 + a - 1)
        BY <4>2, SubOfSub
      <4>4. QED
        BY <4>1, <4>3 DEF j
    <3> HIDE DEF before
    <3>5. /\ \A i \in 1 .. a : before[i] \notin Blank \cup {"."}
          /\ a < Len(before) => before[a + 1] \in Blank \cup {"."}
      BY <3>1, <3>2, <3>3
    <3>6. Until(before, Blank \cup {"."}) = SubSeq(before, 1, a)
      <4> DEFINE stops == Blank \cup {"."}
      <4> HIDE DEF stops
      <4>1. Until(before, stops) = SubSeq(before, 1, a)
        BY <3>2, <3>3, <3>5, UntilIsThat DEF stops
      <4>2. QED
        BY <4>1 DEF stops
    <3>7. QED
      BY <2>2, <3>1, <3>4, <3>6 DEF before
  <2>5. read.value = value
    <3> DEFINE after == SubSeq(str, e + 1, Len(str))
    <3>1. PICK m \in e .. n :
             /\ read.value = SubSeq(str, e + 1, m)
             /\ \A i \in e + 1 .. m : str[i] # Semicolon
             /\ m < n => str[m + 1] = Semicolon
      BY <2>1 DEF ValueOf
    <3>2. after \in Seq(C) /\ Len(after) = n - e /\ \A i \in 1 .. n - e : after[i] = str[e + i]
      <4>1. e \in 0 .. Len(str)
        BY <2>3
      <4>2. QED
        BY <4>1, SuffixIs
    <3> DEFINE b == m - e
    <3>3. /\ b \in 0 .. n - e /\ \A i \in 1 .. b : i \in 1 .. n - e /\ e + i \in e + 1 .. m
          /\ b < n - e => b + 1 \in 1 .. n - e /\ e + (b + 1) = m + 1 /\ m < n
          /\ e + 1 \in 1 .. n + 1 /\ n \in (e + 1) - 1 .. n /\ b \in 0 .. n - (e + 1) + 1 /\ (e + 1) + b - 1 = m
      BY <1>1, <2>3
    <3> HIDE DEF b
    <3>4. SubSeq(after, 1, b) = SubSeq(str, e + 1, m)
      <4> DEFINE i == e + 1
      <4>1. i \in 1 .. n + 1 /\ n \in i - 1 .. n /\ b \in 0 .. n - i + 1 /\ i + b - 1 = m
        BY <3>3
      <4> HIDE DEF i
      <4>2. SubSeq(SubSeq(str, i, n), 1, b) = SubSeq(str, i, i + b - 1)
        BY <4>1, SubOfSub
      <4>3. QED
        BY <4>1, <4>2 DEF i
    <3> HIDE DEF after
    <3>5. /\ \A i \in 1 .. b : after[i] \notin {Semicolon}
          /\ b < Len(after) => after[b + 1] \in {Semicolon}
      BY <3>1, <3>2, <3>3
    <3>6. Until(after, {Semicolon}) = SubSeq(after, 1, b)
      BY <3>2, <3>3, <3>5, UntilIsThat
    <3>7. QED
      BY <2>2, <3>1, <3>4, <3>6 DEF after, From
  <2>6. end # 0
    BY <2>2, <2>3
  <2> HIDE DEF name, value
  <2>7. variable_of_2(str) = IF name = <<>> THEN Invalid ELSE Variable(name, value)
    BY <1>3, <1>5, <2>4, <2>5
  <2>8. QED
    BY <2>6, <2>7 DEF name, value, end
<1>6. QED
  BY <1>4, <1>5

-------------------------------------------------------------------------------
(* Lines: the copies of research_string agree.                             *)

(* The loop of the server's delete_spaces.                                 *)
skip_step(temp, c) == IF c \in Blank /\ temp = <<>> THEN temp ELSE Append(temp, c)

(* It only collects characters.                                            *)
LEMMA SkipStepType ==
    ASSUME NEW C, NEW temp \in Seq(C), NEW c \in C
    PROVE  skip_step(temp, c) \in Seq(C)
BY DEF skip_step

(* The loop goes through a text for every number of characters.            *)
LEMMA SkipFold ==
    ASSUME NEW C, NEW s \in Seq(C)
    PROVE  \E r : /\ r \in [0 .. Len(s) -> Seq(C)]
                  /\ r[0] = <<>>
                  /\ \A k \in 1 .. Len(s) : r[k] = skip_step(r[k - 1], s[k])
                  /\ r[Len(s)] = delete_spaces_2(s)
<1> DEFINE base == <<>>
           n == Len(s)
           A == Seq(C)
           F == [p \in A \X (1 .. n) |-> skip_step(p[1], s[p[2]])]
           Solves(g) == g = [t \in SUBSET (1 .. n) |->
                                IF t = {} THEN base ELSE skip_step(g[t \ {Max(t)}], s[Max(t)])]
           iter == CHOOSE g : Solves(g)
<1>1. n \in Nat /\ DOMAIN s = 1 .. n /\ \A i \in 1 .. n : s[i] \in C
  OBVIOUS
<1>2. F \in [A \X (1 .. n) -> A]
  BY <1>1, SkipStepType
<1>3. \A a \in A, i \in 1 .. n : F[<<a, i>>] = skip_step(a, s[i])
  OBVIOUS
<1>4. base \in A
  OBVIOUS
<1> HIDE DEF n, A, F, base
<1>5. PICK g : Folds(g, A, base, n, F)
  BY <1>1, <1>2, <1>4, FoldIterates
<1>6. \A t \in SUBSET (1 .. n) : t # {} => Max(t) \in 1 .. n
  BY <1>1, MaxInRange
<1>7. Solves(g)
  BY <1>3, <1>5, <1>6 DEF Folds
<1>8. Solves(iter)
  BY <1>7
<1>9. delete_spaces_2(s) = iter[1 .. n]
  BY <1>1 DEF delete_spaces_2, skip_step, FoldLeft, MapThenFoldSet, base
<1> HIDE DEF iter
<1>10. Recurs(iter, A, base, n, F)
  BY <1>3, <1>6, <1>8 DEF Recurs
<1>11. PICK r : IsRun(r, iter, A, base, n, F)
  BY <1>1, <1>2, <1>4, <1>10, FoldRuns
<1>12. \A k \in 1 .. n : r[k - 1] \in A /\ r[k] = skip_step(r[k - 1], s[k])
  <2>1. \A k \in 1 .. n : k - 1 \in 0 .. n
    BY <1>1
  <2>2. QED
    BY <1>3, <1>11, <2>1 DEF IsRun, Iterates
<1>13. QED
  BY <1>9, <1>11, <1>12 DEF IsRun, Iterates, n, A, base

(* Both copies drop the same blanks.                                       *)
LEMMA SkipSame ==
    ASSUME NEW C, NEW str \in Seq(C)
    PROVE  delete_spaces_2(str) = delete_spaces(str)
<1> DEFINE n == Len(str)
<1>1. PICK r : /\ r \in [0 .. n -> Seq(C)]
               /\ r[0] = <<>>
               /\ \A k \in 1 .. n : r[k] = skip_step(r[k - 1], str[k])
               /\ r[n] = delete_spaces_2(str)
  BY SkipFold
<1>2. PICK m \in 0 .. n :
              /\ SkipBlanks(str) = SubSeq(str, m + 1, n)
              /\ \A i \in 1 .. m : str[i] \in Blank
              /\ m < n => str[m + 1] \notin Blank
  BY SkipIs
<1>3. n \in Nat /\ m \in Nat /\ m =< n
  OBVIOUS
<1> DEFINE S == {k \in 0 .. n : r[k] = SubSeq(str, m + 1, k)}
<1>4. 0 \in S
  <2>1. SubSeq(str, m + 1, 0) = <<>> /\ 0 \in 0 .. n
    BY <1>3, SubSeqEmpty
  <2>2. QED
    BY <1>1, <2>1
<1>5. ASSUME NEW k \in 0 .. n - 1, k \in S
      PROVE  k + 1 \in S
  <2>1. k \in 0 .. n /\ k + 1 \in 0 .. n /\ k + 1 \in 1 .. n /\ (k + 1) - 1 = k
    BY <1>3
  <2>2. r[k + 1] = skip_step(r[k], str[k + 1]) /\ r[k] = SubSeq(str, m + 1, k)
    BY <1>1, <1>5, <2>1
  <2>3. CASE k < m
    <3>1. k < m + 1 /\ k + 1 < m + 1 /\ k + 1 \in 1 .. m
      BY <1>3, <2>1, <2>3
    <3>2. SubSeq(str, m + 1, k) = <<>> /\ SubSeq(str, m + 1, k + 1) = <<>>
      BY <1>3, <2>1, <3>1, SubSeqEmpty
    <3>3. r[k + 1] = <<>>
      BY <1>2, <2>2, <3>1, <3>2 DEF skip_step
    <3>4. QED
      BY <2>1, <3>2, <3>3
  <2>4. CASE ~ (k < m)
    <3>1. m \in 0 .. k /\ k \in 0 .. Len(str) - 1
      BY <1>3, <2>1, <2>4
    <3>2. SubSeq(str, m + 1, k + 1) = Append(SubSeq(str, m + 1, k), str[k + 1])
      BY <3>1, MiddleGrows
    <3>3. r[k + 1] = Append(r[k], str[k + 1])
      <4>1. CASE k = m
        <5>1. str[k + 1] \notin Blank
          BY <1>2, <1>3, <2>1, <4>1
        <5>2. QED
          BY <2>2, <5>1 DEF skip_step
      <4>2. CASE k # m
        <5>1. m + 1 =< k /\ 1 =< m + 1 /\ m + 1 \in Int /\ k \in Int /\ k =< Len(str) /\ k - (m + 1) + 1 # 0
          BY <1>3, <2>1, <2>4, <4>2
        <5>2. Len(SubSeq(str, m + 1, k)) # 0
          BY <5>1, Cut
        <5>3. Len(r[k]) # 0
          BY <2>2, <5>2
        <5>4. r[k] # <<>>
          <6>1. Len(<<>>) = 0
            OBVIOUS
          <6> HIDE DEF S
          <6>2. QED
            BY <5>3, <6>1
        <5>5. QED
          BY <2>2, <5>4 DEF skip_step
      <4>3. QED
        BY <4>1, <4>2
    <3>4. QED
      BY <2>1, <2>2, <3>2, <3>3
  <2>5. QED
    BY <2>3, <2>4
<1> HIDE DEF S
<1>6. n \in S
  <2>1. 0 .. n \subseteq S
    BY <1>3, <1>4, <1>5, RangeInduction
  <2>2. QED
    BY <1>3, <2>1
<1>7. QED
  BY <1>1, <1>2, <1>6 DEF S, delete_spaces

(* The cases of both research_string, with the semicolon by its name.      *)
LEMMA ResearchCases ==
    ASSUME NEW str
    PROVE  /\ research_string(str) =
                 IF str = <<>> \/ str[1] = Semicolon THEN Empty
                 ELSE IF str[1] = "[" THEN section_of(str) ELSE variable_of(str)
           /\ research_string_2(str) =
                 CASE str = <<>> -> Empty
                   [] Len(str) > 0 /\ Head(str) = Semicolon -> Empty
                   [] Len(str) > 0 /\ Head(str) = "[" -> section_of_2(str)
                   [] OTHER -> variable_of_2(str)
           /\ variable_of(str) =
                 LET end == find(str, <<"=">>)
                     before == SubSeq(str, 1, end - 1)
                     name == Until(before, Blank \cup {"."})
                 IN IF end = 0 \/ name = <<>> \/ ~ ToSet(erase(before, Len(name))) \subseteq Blank
                    THEN Invalid ELSE Variable(name, Until(From(str, end + 1), {Semicolon}))
BY Zenon DEF research_string, research_string_2, variable_of, Semicolon

(* Both copies read the same sections.                                     *)
LEMMA SectionsAgree ==
    ASSUME NEW C, Marks \subseteq C, NEW str \in Seq(C), str # <<>>, str[1] = "["
    PROVE  section_of_2(str) = section_of(str)
<1>1. /\ section_of(str) # Invalid =>
            \E e : Closes(str, e) /\ section_of(str) = Section(SubSeq(str, 2, e - 1))
      /\ \A e : Closes(str, e) => section_of(str) = Section(SubSeq(str, 2, e - 1))
  BY SectionOf
<1>2. /\ section_of_2(str) # Invalid =>
            \E e : Closes(str, e) /\ section_of_2(str) = Section(SubSeq(str, 2, e - 1))
      /\ \A e : Closes(str, e) => section_of_2(str) = Section(SubSeq(str, 2, e - 1))
  BY SectionOf2
<1>3. CASE section_of(str) # Invalid
  BY <1>1, <1>2, <1>3
<1>4. CASE section_of_2(str) # Invalid
  BY <1>1, <1>2, <1>4
<1>5. CASE section_of(str) = Invalid /\ section_of_2(str) = Invalid
  BY <1>5
<1>6. QED
  BY <1>3, <1>4, <1>5

(* What the copies read of a line is the same, or the one copy refuses it. *)
LEMMA LinesAgree ==
    ASSUME NEW C, Marks \subseteq C, NEW str \in Seq(C)
    PROVE  LET one == research_string(str)
               other == research_string_2(str)
               stray == erase(SubSeq(str, 1, find(str, <<"=">>) - 1), Len(other.name))
           IN /\ one = other \/ one = Invalid
              /\ one # other <=> other.type = "_variable_" /\ ~ ToSet(stray) \subseteq Blank
<1> DEFINE one == research_string(str)
           other == research_string_2(str)
           stray == erase(SubSeq(str, 1, find(str, <<"=">>) - 1), Len(other.name))
<1>1. CASE str = <<>>
  <2>1. one = Empty /\ other = Empty
    BY <1>1, ResearchCases
  <2>2. QED
    BY <2>1 DEF Empty
<1>2. CASE str # <<>>
  <2>1. Len(str) > 0 /\ Head(str) = str[1]
    BY <1>2
  <2>2. CASE str[1] = Semicolon
    <3>1. Semicolon # "["
      BY SemicolonIsOther
    <3>2. one = Empty /\ other = Empty
      BY <1>2, <2>1, <2>2, <3>1, ResearchCases
    <3>3. QED
      BY <3>2 DEF Empty
  <2>3. CASE str[1] = "["
    <3>1. Semicolon # "["
      BY SemicolonIsOther
    <3>2. one = section_of(str) /\ other = section_of_2(str)
      BY <1>2, <2>1, <2>3, <3>1, ResearchCases
    <3>3. one = other
      BY <1>2, <2>3, <3>2, SectionsAgree
    <3>4. other.type # "_variable_"
      <4>1. section_of(str) = Invalid \/ \E e : section_of(str) = Section(SubSeq(str, 2, e - 1))
        BY <1>2, <2>3, SectionOf
      <4>2. QED
        BY <3>2, <3>3, <4>1 DEF Invalid, Section
    <3>5. QED
      BY <3>3, <3>4
  <2>4. CASE str[1] \notin {Semicolon, "["}
    <3> DEFINE end == find(str, <<"=">>)
               before == SubSeq(str, 1, end - 1)
               name == Until(before, Blank \cup {"."})
               value == Until(From(str, end + 1), {Semicolon})
               Wrong == ~ ToSet(erase(before, Len(name))) \subseteq Blank
    <3>1. one = IF end = 0 \/ name = <<>> \/ Wrong THEN Invalid ELSE Variable(name, value)
      <4>1. one = variable_of(str)
        BY <1>2, <2>4, ResearchCases
      <4>2. QED
        BY <4>1, ResearchCases
    <3>2. other = IF end = 0 \/ name = <<>> THEN Invalid ELSE Variable(name, value)
      <4>1. other = variable_of_2(str)
        BY <1>2, <2>1, <2>4, ResearchCases
      <4>2. QED
        BY <4>1, VariableOf2
    <3>3. CASE end = 0 \/ name = <<>>
      <4> HIDE DEF one, other
      <4>1. one = Invalid /\ other = Invalid
        BY <3>1, <3>2, <3>3
      <4>2. QED
        BY <4>1 DEF Invalid, one, other
    <3>4. CASE ~ (end = 0 \/ name = <<>>)
      <4> HIDE DEF one, other
      <4>1. other = Variable(name, value) /\ other.name = name /\ other.type = "_variable_"
        BY <3>2, <3>4 DEF Variable
      <4>2. Variable(name, value) # Invalid
        BY DEF Variable, Invalid
      <4>3. stray = erase(before, Len(name))
        BY <4>1
      <4>4. one = IF Wrong THEN Invalid ELSE Variable(name, value)
        BY <3>1, <3>4
      <4> HIDE DEF name, value
      <4>5. /\ one = other \/ one = Invalid
            /\ one # other <=> Wrong
        BY <4>1, <4>2, <4>4
      <4> HIDE DEF stray, Wrong
      <4>6. /\ one = other \/ one = Invalid
            /\ one # other <=> other.type = "_variable_" /\ ~ ToSet(stray) \subseteq Blank
        BY <4>1, <4>3, <4>5 DEF Wrong
      <4>7. QED
        BY <4>6 DEF one, other, stray
    <3>5. QED
      BY <3>3, <3>4
  <2>5. QED
    BY <2>2, <2>3, <2>4
<1>3. QED
  BY <1>1, <1>2

-------------------------------------------------------------------------------
(* Requests.                                                               *)

(* What the loop of the server's copy remembers of a request.              *)
RequestReading(C) == [at : {"section", "variable", "wrong"}, section : Seq(C), variable : Seq(C)]

(* The first k characters of s are all of a section, or are section, dot   *)
(* at e and variable.                                                      *)
Plain(s, i, j) == \A x \in i .. j : s[x] \notin {".", " "}
Named(s, k, e) == e \in 1 .. k /\ s[e] = "." /\ Plain(s, 1, e - 1) /\ Plain(s, e + 1, k)

(* The invariant of the loop over a request.                               *)
RequestRead(s, k, read) ==
    /\ read.at = "section" <=> Plain(s, 1, k)
    /\ read.at = "section" => read.section = SubSeq(s, 1, k) /\ read.variable = <<>>
    /\ read.at = "variable" <=> \E e \in 1 .. k : Named(s, k, e)
    /\ \A e \in 1 .. k : Named(s, k, e) =>
          read.section = SubSeq(s, 1, e - 1) /\ read.variable = SubSeq(s, e + 1, k)

(* The loop keeps to what it remembers.                                    *)
LEMMA RequestStepType ==
    ASSUME NEW C, NEW read \in RequestReading(C), NEW c \in C
    PROVE  request_step(read, c) \in RequestReading(C)
<1>1. \A part \in Seq(C) : Append(part, c) \in Seq(C)
  OBVIOUS
<1>2. request_step(read, c) \in {[read EXCEPT !.at = "variable"], [read EXCEPT !.at = "wrong"],
          [read EXCEPT !.section = Append(@, c)], [read EXCEPT !.variable = Append(@, c)]}
  BY DEF request_step
<1>3. QED
  BY <1>1, <1>2 DEF RequestReading

(* The loop goes through a reading for every number of characters.         *)
LEMMA RequestFold ==
    ASSUME NEW C, NEW s \in Seq(C), NEW base \in RequestReading(C)
    PROVE  \E r : /\ r \in [0 .. Len(s) -> RequestReading(C)]
                  /\ r[0] = base
                  /\ \A k \in 1 .. Len(s) : r[k] = request_step(r[k - 1], s[k])
                  /\ r[Len(s)] = FoldLeft(request_step, base, s)
<1> DEFINE n == Len(s)
           A == RequestReading(C)
           F == [p \in A \X (1 .. n) |-> request_step(p[1], s[p[2]])]
           Solves(g) == g = [t \in SUBSET (1 .. n) |->
                                IF t = {} THEN base ELSE request_step(g[t \ {Max(t)}], s[Max(t)])]
           iter == CHOOSE g : Solves(g)
<1>1. n \in Nat /\ DOMAIN s = 1 .. n /\ \A i \in 1 .. n : s[i] \in C
  OBVIOUS
<1>2. F \in [A \X (1 .. n) -> A]
  BY <1>1, RequestStepType
<1>3. \A a \in A, i \in 1 .. n : F[<<a, i>>] = request_step(a, s[i])
  OBVIOUS
<1>4. base \in A
  OBVIOUS
<1> HIDE DEF n, A, F
<1>5. PICK g : Folds(g, A, base, n, F)
  BY <1>1, <1>2, <1>4, FoldIterates
<1>6. \A t \in SUBSET (1 .. n) : t # {} => Max(t) \in 1 .. n
  BY <1>1, MaxInRange
<1>7. Solves(g)
  BY <1>3, <1>5, <1>6 DEF Folds
<1>8. Solves(iter)
  BY <1>7
<1>9. FoldLeft(request_step, base, s) = iter[1 .. n]
  BY <1>1 DEF FoldLeft, MapThenFoldSet
<1> HIDE DEF iter
<1>10. Recurs(iter, A, base, n, F)
  BY <1>3, <1>6, <1>8 DEF Recurs
<1>11. PICK r : IsRun(r, iter, A, base, n, F)
  BY <1>1, <1>2, <1>4, <1>10, FoldRuns
<1>12. \A k \in 1 .. n : r[k - 1] \in A /\ r[k] = request_step(r[k - 1], s[k])
  <2>1. \A k \in 1 .. n : k - 1 \in 0 .. n
    BY <1>1
  <2>2. QED
    BY <1>3, <1>11, <2>1 DEF IsRun, Iterates
<1>13. QED
  BY <1>9, <1>11, <1>12 DEF IsRun, Iterates, n, A

(* How the descriptions change with the next character.                    *)
LEMMA NamedGrows ==
    ASSUME NEW s, NEW k \in Nat
    PROVE  /\ Plain(s, 1, k + 1) <=> Plain(s, 1, k) /\ s[k + 1] \notin {".", " "}
           /\ \A e \in 1 .. k : Named(s, k + 1, e) <=> Named(s, k, e) /\ s[k + 1] \notin {".", " "}
           /\ Named(s, k + 1, k + 1) <=> Plain(s, 1, k) /\ s[k + 1] = "."
           /\ \A e \in 1 .. k : Named(s, k, e) => ~ Plain(s, 1, k)
<1>1. ASSUME NEW i \in Nat, i =< k + 1
      PROVE  Plain(s, i, k + 1) <=> Plain(s, i, k) /\ s[k + 1] \notin {".", " "}
  <2>1. i .. k + 1 = (i .. k) \cup {k + 1}
    BY <1>1
  <2>2. QED
    BY <2>1 DEF Plain
<1>2. 1 \in Nat /\ 1 =< k + 1 /\ k + 1 \in 1 .. k + 1 /\ (k + 1) - 1 = k
  OBVIOUS
<1>3. ASSUME NEW e \in 1 .. k
      PROVE  /\ Named(s, k + 1, e) <=> Named(s, k, e) /\ s[k + 1] \notin {".", " "}
             /\ Named(s, k, e) => ~ Plain(s, 1, k)
  <2>1. e + 1 \in Nat /\ e + 1 =< k + 1 /\ e \in 1 .. k + 1
    OBVIOUS
  <2>2. Plain(s, e + 1, k + 1) <=> Plain(s, e + 1, k) /\ s[k + 1] \notin {".", " "}
    BY <1>1, <2>1
  <2>3. QED
    BY <2>1, <2>2 DEF Named, Plain
<1>4. Named(s, k + 1, k + 1) <=> Plain(s, 1, k) /\ s[k + 1] = "."
  <2>1. (k + 1) + 1 .. k + 1 = {}
    OBVIOUS
  <2>2. Plain(s, (k + 1) + 1, k + 1)
    BY <2>1 DEF Plain
  <2>3. QED
    BY <1>2, <2>2 DEF Named
<1>5. QED
  BY <1>1, <1>2, <1>3, <1>4

(* A step of the loop keeps its invariant.                                 *)
LEMMA RequestReadStep ==
    ASSUME NEW C, NEW s \in Seq(C), NEW k \in 0 .. Len(s) - 1,
           NEW read \in RequestReading(C), RequestRead(s, k, read)
    PROVE  RequestRead(s, k + 1, request_step(read, s[k + 1]))
<1> DEFINE c == s[k + 1]
           next == request_step(read, c)
<1>1. /\ k \in Nat /\ Len(s) \in Nat /\ k + 1 \in 1 .. Len(s) /\ (k + 1) - 1 = k
      /\ 1 .. k + 1 = (1 .. k) \cup {k + 1} /\ k + 1 \in 1 .. k + 1
  OBVIOUS
<1>2. /\ Plain(s, 1, k + 1) <=> Plain(s, 1, k) /\ c \notin {".", " "}
      /\ \A e \in 1 .. k : Named(s, k + 1, e) <=> Named(s, k, e) /\ c \notin {".", " "}
      /\ Named(s, k + 1, k + 1) <=> Plain(s, 1, k) /\ c = "."
      /\ \A e \in 1 .. k : Named(s, k, e) => ~ Plain(s, 1, k)
  BY <1>1, NamedGrows
<1>3. /\ read.at = "section" <=> Plain(s, 1, k)
      /\ read.at = "section" => read.section = SubSeq(s, 1, k) /\ read.variable = <<>>
      /\ read.at = "variable" <=> \E e \in 1 .. k : Named(s, k, e)
      /\ \A e \in 1 .. k : Named(s, k, e) =>
            read.section = SubSeq(s, 1, e - 1) /\ read.variable = SubSeq(s, e + 1, k)
  BY DEF RequestRead
<1>4. SubSeq(s, 1, k + 1) = Append(SubSeq(s, 1, k), c)
  BY PrefixGrows
<1>5. \A e \in 1 .. k : SubSeq(s, e + 1, k + 1) = Append(SubSeq(s, e + 1, k), c)
  <2>1. ASSUME NEW e \in 1 .. k
        PROVE  SubSeq(s, e + 1, k + 1) = Append(SubSeq(s, e + 1, k), c)
    <3>1. e \in 0 .. k
      BY <1>1
    <3>2. QED
      BY <3>1, MiddleGrows
  <2>2. QED
    BY <2>1
<1>6. SubSeq(s, (k + 1) + 1, k + 1) = <<>>
  <2>1. /\ (k + 1) + 1 \in Nat /\ k + 1 \in Nat /\ k + 1 < (k + 1) + 1
    BY <1>1
  <2>2. QED
    BY <2>1, SubSeqEmpty
<1>7. read.at \in {"section", "variable", "wrong"} /\ DOMAIN read = {"at", "section", "variable"}
  BY DEF RequestReading
<1> HIDE DEF c
<1>8. CASE read.at = "section" /\ c = "."
  <2>1. next = [read EXCEPT !.at = "variable"]
    BY <1>8 DEF request_step
  <2>2. /\ next.at = "variable" /\ next.section = SubSeq(s, 1, (k + 1) - 1)
        /\ next.variable = SubSeq(s, (k + 1) + 1, k + 1)
    BY <1>1, <1>3, <1>6, <1>7, <1>8, <2>1
  <2> HIDE DEF next
  <2>3. ~ Plain(s, 1, k + 1) /\ Named(s, k + 1, k + 1) /\ \A e \in 1 .. k : ~ Named(s, k + 1, e)
    BY <1>2, <1>3, <1>8
  <2>4. RequestRead(s, k + 1, next)
    BY <1>1, <2>2, <2>3 DEF RequestRead
  <2>5. QED
    BY <2>4 DEF next, c
<1>9. CASE read.at = "section" /\ c \notin {".", " "}
  <2>1. next = [read EXCEPT !.section = Append(@, c)]
    BY <1>9 DEF request_step
  <2>2. /\ next.at = "section" /\ next.section = SubSeq(s, 1, k + 1) /\ next.variable = <<>>
    BY <1>3, <1>4, <1>7, <1>9, <2>1
  <2> HIDE DEF next
  <2>3. Plain(s, 1, k + 1) /\ \A e \in 1 .. k + 1 : ~ Named(s, k + 1, e)
    BY <1>1, <1>2, <1>3, <1>9
  <2>4. RequestRead(s, k + 1, next)
    BY <2>2, <2>3 DEF RequestRead
  <2>5. QED
    BY <2>4 DEF next, c
<1>10. CASE read.at = "variable" /\ c \notin {".", " "}
  <2>1. next = [read EXCEPT !.variable = Append(@, c)]
    BY <1>10 DEF request_step
  <2>2. next.at = "variable" /\ next.section = read.section /\ next.variable = Append(read.variable, c)
    BY <1>7, <1>10, <2>1
  <2> HIDE DEF next
  <2>3. ~ Plain(s, 1, k + 1) /\ ~ Named(s, k + 1, k + 1)
    BY <1>2, <1>3, <1>10
  <2>4. \A e \in 1 .. k : Named(s, k + 1, e) <=> Named(s, k, e)
    BY <1>2, <1>10
  <2>5. \A e \in 1 .. k + 1 : Named(s, k + 1, e) =>
           next.section = SubSeq(s, 1, e - 1) /\ next.variable = SubSeq(s, e + 1, k + 1)
    BY <1>1, <1>3, <1>5, <2>2, <2>3, <2>4
  <2>6. \E e \in 1 .. k + 1 : Named(s, k + 1, e)
    BY <1>1, <1>3, <1>10, <2>4
  <2>7. RequestRead(s, k + 1, next)
    BY <1>10, <2>2, <2>3, <2>5, <2>6 DEF RequestRead
  <2>8. QED
    BY <2>7 DEF next, c
<1>11. CASE \/ read.at = "section" /\ c = " "
            \/ read.at = "variable" /\ c \in {".", " "}
            \/ read.at = "wrong"
  <2>1. next = [read EXCEPT !.at = "wrong"]
    BY <1>11 DEF request_step
  <2>2. next.at = "wrong"
    BY <1>7, <2>1
  <2> HIDE DEF next
  <2>3. ~ Plain(s, 1, k + 1) /\ \A e \in 1 .. k + 1 : ~ Named(s, k + 1, e)
    <3>1. " " # "."
      OBVIOUS
    <3>2. ~ Plain(s, 1, k + 1)
      BY <1>2, <1>3, <1>11
    <3>3. ~ Named(s, k + 1, k + 1)
      BY <1>2, <1>3, <1>11, <3>1
    <3>4. \A e \in 1 .. k : ~ Named(s, k + 1, e)
      BY <1>2, <1>3, <1>11
    <3>5. QED
      BY <1>1, <3>2, <3>3, <3>4
  <2>4. RequestRead(s, k + 1, next)
    BY <2>2, <2>3 DEF RequestRead
  <2>5. QED
    BY <2>4 DEF next, c
<1>12. QED
  BY <1>7, <1>8, <1>9, <1>10, <1>11

(* So it holds when the loop ends.                                         *)
LEMMA RequestLoop ==
    ASSUME NEW C, NEW s \in Seq(C)
    PROVE  LET read == FoldLeft(request_step, [at |-> "section", section |-> <<>>, variable |-> <<>>], s)
           IN read \in RequestReading(C) /\ RequestRead(s, Len(s), read)
<1> DEFINE base == [at |-> "section", section |-> <<>>, variable |-> <<>>]
           n == Len(s)
<1>1. base \in RequestReading(C) /\ n \in Nat
  BY DEF RequestReading
<1>2. PICK r : /\ r \in [0 .. n -> RequestReading(C)]
               /\ r[0] = base
               /\ \A k \in 1 .. n : r[k] = request_step(r[k - 1], s[k])
               /\ r[n] = FoldLeft(request_step, base, s)
  BY <1>1, RequestFold
<1> DEFINE S == {k \in 0 .. n : RequestRead(s, k, r[k])}
<1>3. 0 \in S
  <2>1. 1 .. 0 = {} /\ SubSeq(s, 1, 0) = <<>> /\ 0 \in 0 .. n
    BY <1>1, SubSeqEmpty
  <2>2. r[0].at = "section" /\ r[0].section = <<>> /\ r[0].variable = <<>>
    BY <1>2
  <2> HIDE DEF base
  <2>3. Plain(s, 1, 0)
    BY <2>1 DEF Plain
  <2>4. RequestRead(s, 0, r[0])
    BY <2>1, <2>2, <2>3 DEF RequestRead
  <2>5. QED
    BY <2>1, <2>4
<1>4. ASSUME NEW k \in 0 .. n - 1, k \in S
      PROVE  k + 1 \in S
  <2>1. k \in 0 .. n /\ k + 1 \in 0 .. n /\ k + 1 \in 1 .. n /\ (k + 1) - 1 = k
    BY <1>1
  <2>2. r[k + 1] = request_step(r[k], s[k + 1]) /\ r[k] \in RequestReading(C)
    BY <1>2, <2>1
  <2>3. RequestRead(s, k + 1, r[k + 1])
    BY <1>4, <2>2, RequestReadStep
  <2>4. QED
    BY <2>1, <2>3
<1> HIDE DEF S
<1>5. n \in S
  <2>1. 0 .. n \subseteq S
    BY <1>1, <1>3, <1>4, RangeInduction
  <2>2. QED
    BY <1>1, <2>1
<1> HIDE DEF base
<1>6. r[n] \in RequestReading(C)
  BY <1>1, <1>2
<1>7. QED
  BY <1>2, <1>5, <1>6 DEF S, base

(* What the loop made of a request: the parts around its only dot.         *)
LEMMA RequestOf ==
    ASSUME NEW C, NEW s \in Seq(C), NEW d \in 1 .. Len(s), s[d] = ".", Plain(s, 1, d - 1) \/ \A i \in 1 .. d - 1 : s[i] # "."
    PROVE  LET read == FoldLeft(request_step, [at |-> "section", section |-> <<>>, variable |-> <<>>], s)
           IN /\ read.at = "variable" <=> Named(s, Len(s), d)
              /\ read.at = "variable" => /\ read.section = SubSeq(s, 1, d - 1)
                                         /\ read.variable = SubSeq(s, d + 1, Len(s))
<1> DEFINE read == FoldLeft(request_step, [at |-> "section", section |-> <<>>, variable |-> <<>>], s)
           n == Len(s)
<1>1. RequestRead(s, n, read) /\ n \in Nat /\ d \in Nat /\ 1 =< d /\ d =< n
  BY RequestLoop
<1> HIDE DEF read
<1>2. ASSUME NEW e \in 1 .. n, Named(s, n, e)
      PROVE  e = d
  <2>1. s[e] = "." /\ Plain(s, 1, e - 1) /\ Plain(s, e + 1, n) /\ e \in Nat
    BY <1>2 DEF Named
  <2>2. ~ (d < e)
    <3>1. d < e => d \in 1 .. e - 1
      BY <1>1, <2>1
    <3>2. QED
      BY <2>1, <3>1 DEF Plain
  <2>3. ~ (e < d)
    <3>1. e < d => d \in e + 1 .. n
      BY <1>1, <2>1
    <3>2. QED
      BY <2>1, <3>1 DEF Plain
  <2>4. QED
    BY <1>1, <2>1, <2>2, <2>3
<1>3. read.at = "variable" <=> Named(s, n, d)
  BY <1>1, <1>2 DEF RequestRead
<1>4. Named(s, n, d) => read.section = SubSeq(s, 1, d - 1) /\ read.variable = SubSeq(s, d + 1, n)
  BY <1>1 DEF RequestRead
<1>5. QED
  BY <1>3, <1>4 DEF read

(* The two parts are free of blanks and dots where no place has one.       *)
LEMMA PlainParts ==
    ASSUME NEW C, NEW s \in Seq(C), NEW d \in 1 .. Len(s), s[d] = ".", \A i \in 1 .. d - 1 : s[i] # "."
    PROVE  Named(s, Len(s), d) <=> /\ ~ HasAnyOf(SubSeq(s, 1, d - 1), {" "})
                                   /\ ~ HasAnyOf(SubSeq(s, d + 1, Len(s)), {".", " "})
<1> DEFINE one == SubSeq(s, 1, d - 1)
           two == SubSeq(s, d + 1, Len(s))
           n == Len(s)
<1>1. n \in Nat /\ d \in Nat /\ 1 =< d /\ d =< n /\ d - 1 \in 0 .. n /\ d \in 0 .. n
  OBVIOUS
<1>2. one \in Seq(C) /\ Len(one) = d - 1 /\ \A i \in 1 .. d - 1 : one[i] = s[i]
  BY <1>1, PrefixIs
<1>3. two \in Seq(C) /\ Len(two) = n - d /\ \A i \in 1 .. n - d : two[i] = s[d + i]
  BY <1>1, SuffixIs
<1> HIDE DEF one, two
<1>4. HasAnyOf(one, {" "}) <=> \E i \in 1 .. d - 1 : s[i] = " "
  <2>1. HasAnyOf(one, {" "}) <=> \E i \in 1 .. Len(one) : one[i] \in {" "}
    BY <1>2, HasOne
  <2>2. QED
    BY <1>2, <2>1
<1>5. HasAnyOf(two, {".", " "}) <=> \E i \in 1 .. n - d : s[d + i] \in {".", " "}
  <2>1. HasAnyOf(two, {".", " "}) <=> \E i \in 1 .. Len(two) : two[i] \in {".", " "}
    BY <1>3, HasOne
  <2>2. QED
    BY <1>3, <2>1
<1>6. Plain(s, 1, d - 1) <=> ~ HasAnyOf(one, {" "})
  BY <1>4 DEF Plain
<1>7. Plain(s, d + 1, n) <=> ~ HasAnyOf(two, {".", " "})
  <2>1. /\ \A i \in 1 .. n - d : d + i \in d + 1 .. n
        /\ \A x \in d + 1 .. n : x - d \in 1 .. n - d /\ d + (x - d) = x
    BY <1>1
  <2>2. QED
    BY <1>5, <2>1 DEF Plain
<1>8. QED
  BY <1>6, <1>7 DEF Named, one, two

(* The test of the server's copy for a dot at the end and no other.        *)
LEMMA LastDot ==
    ASSUME NEW C, Marks \subseteq C, NEW s \in Seq(C)
    PROVE  (s # <<>> /\ Last(s) = "." /\ ~ Has(Front(s), <<".">>)) <=>
              s # <<>> /\ find(s, <<".">>) = Len(s)
<1> DEFINE n == Len(s)
           d == find(s, <<".">>)
           body == Front(s)
<1>1. CASE s = <<>>
  BY <1>1
<1>2. CASE s # <<>>
  <2>1. n \in Nat /\ n # 0 /\ n - 1 \in 0 .. n /\ "." \in C
    BY <1>2 DEF Marks
  <2>2. d \in 0 .. n /\ (d = 0 => \A i \in 1 .. n : s[i] # ".")
        /\ (d # 0 => s[d] = "." /\ \A i \in 1 .. d - 1 : s[i] # ".")
    BY <2>1, FindOne
  <2>3. body = SubSeq(s, 1, n - 1) /\ Last(s) = s[n]
    BY DEF Front, Last
  <2>4. body \in Seq(C) /\ Len(body) = n - 1 /\ \A i \in 1 .. n - 1 : body[i] = s[i]
    BY <2>1, <2>3, PrefixIs
  <2> DEFINE f == find(body, <<".">>)
  <2> HIDE DEF body, d
  <2>5. f \in 0 .. Len(body) /\ (f = 0 => \A i \in 1 .. Len(body) : body[i] # ".")
        /\ (f # 0 => body[f] = "." /\ \A i \in 1 .. f - 1 : body[i] # ".")
    BY <2>1, <2>4, FindOne
  <2> HIDE DEF f
  <2>6. f = 0 <=> \A i \in 1 .. n - 1 : s[i] # "."
    BY <2>1, <2>4, <2>5
  <2>7. d = n <=> s[n] = "." /\ \A i \in 1 .. n - 1 : s[i] # "."
    <3>1. ASSUME s[n] = ".", \A i \in 1 .. n - 1 : s[i] # "."
          PROVE  d = n
      <4>1. n \in 1 .. n
        BY <2>1
      <4>2. d # 0
        BY <2>2, <3>1, <4>1
      <4>3. d < n => d \in 1 .. n - 1
        BY <2>1, <2>2, <4>2
      <4>4. QED
        BY <2>1, <2>2, <3>1, <4>2, <4>3
    <3>2. QED
      BY <2>1, <2>2, <3>1
  <2>8. QED
    BY <1>2, <2>3, <2>6, <2>7 DEF Has, body, f, d
<1>3. QED
  BY <1>1, <1>2

(* Both copies read the same section and variable from a request.          *)
LEMMA RequestsAgree ==
    ASSUME NEW C, Marks \subseteq C, NEW str \in Seq(C)
    PROVE  get_section_variable_names_2(str) = get_section_variable_names(str)
<1> DEFINE s == delete_spaces(str)
           n == Len(s)
           d == find(s, <<".">>)
           base == [at |-> "section", section |-> <<>>, variable |-> <<>>]
           t == IF s # <<>> /\ d = n THEN Append(s, NUL) ELSE s
           read == FoldLeft(request_step, base, t)
           section == SubSeq(s, 1, d - 1)
           variable == IF d = n THEN <<NUL>> ELSE From(s, d + 1)
           names == [section |-> section, variable |-> variable]
<1>1. s \in Seq(C)
  BY SkipType
<1>2. get_section_variable_names(str) =
         IF d \in {0, 1} \/ n < 3 \/ HasAnyOf(section, {" "}) \/ HasAnyOf(variable, {".", " "}) THEN Bad ELSE names
  BY DEF get_section_variable_names
<1>3. get_section_variable_names_2(str) =
         IF n < 3 \/ read.at # "variable" \/ read.section = <<>> THEN Bad
         ELSE [section |-> read.section, variable |-> read.variable]
  <2> DEFINE Ends == s # <<>> /\ Last(s) = "." /\ ~ Has(Front(s), <<".">>)
             u == IF Ends THEN Append(s, NUL) ELSE s
             seen == FoldLeft(request_step, base, u)
  <2>1. delete_spaces_2(str) = s
    BY SkipSame
  <2>2. get_section_variable_names_2(str) =
           IF n < 3 \/ seen.at # "variable" \/ seen.section = <<>> THEN Bad
           ELSE [section |-> seen.section, variable |-> seen.variable]
    BY <2>1 DEF get_section_variable_names_2
  <2>3. Ends <=> s # <<>> /\ d = n
    BY <1>1, LastDot
  <2> HIDE DEF Ends, s
  <2>4. u = t
    BY <2>3
  <2>5. QED
    BY <2>2, <2>4
<1> HIDE DEF s
<1>4. n \in Nat /\ (s = <<>> <=> n = 0)
  BY <1>1 DEF Marks
<1>5. d \in 0 .. n /\ (d = 0 => \A i \in 1 .. n : s[i] # ".")
      /\ (d # 0 => s[d] = "." /\ \A i \in 1 .. d - 1 : s[i] # ".")
  <2>1. "." \in C
    BY DEF Marks
  <2>2. QED
    BY <1>1, <2>1, FindOne
<1>6. CASE n < 3
  BY <1>2, <1>3, <1>6
<1>7. CASE ~ (n < 3) /\ d = 0
  <2> HIDE DEF d
  <2>1. d # n
    BY <1>4, <1>7
  <2>a. t = s
    BY <2>1
  <2>2. RequestRead(s, n, read)
    BY <1>1, <2>a, RequestLoop
  <2>3. \A e \in 1 .. n : ~ Named(s, n, e)
    BY <1>5, <1>7 DEF Named
  <2> HIDE DEF read
  <2>4. read.at # "variable"
    BY <2>2, <2>3 DEF RequestRead
  <2>5. QED
    BY <1>2, <1>3, <1>7, <2>4
<1>8. CASE ~ (n < 3) /\ d # 0
  <2> HIDE DEF d
  <2>1. d \in 1 .. n /\ s[d] = "." /\ d - 1 \in 0 .. n /\ \A i \in 1 .. d - 1 : s[i] # "."
    BY <1>4, <1>5, <1>8
  <2>2. /\ read.at = "variable" <=> ~ HasAnyOf(section, {" "}) /\ ~ HasAnyOf(variable, {".", " "})
        /\ read.at = "variable" => read.section = section /\ read.variable = variable
    <3>1. CASE d # n
      <4>1. t = s
        BY <3>1
      <4>2. /\ read.at = "variable" <=> Named(s, n, d)
            /\ read.at = "variable" => /\ read.section = SubSeq(s, 1, d - 1)
                                       /\ read.variable = SubSeq(s, d + 1, n)
        BY <1>1, <2>1, <4>1, RequestOf
      <4>3. variable = SubSeq(s, d + 1, n)
        BY <3>1 DEF From
      <4>4. Named(s, n, d) <=> ~ HasAnyOf(section, {" "}) /\ ~ HasAnyOf(SubSeq(s, d + 1, n), {".", " "})
        BY <1>1, <2>1, PlainParts
      <4> HIDE DEF read, variable, section
      <4>5. QED
        BY <4>2, <4>3, <4>4 DEF section
    <3>2. CASE d = n
      <4> DEFINE D == C \cup {NUL}
      <4>1. t = Append(s, NUL)
        BY <1>4, <1>8, <3>2
      <4>2. /\ t \in Seq(D) /\ Len(t) = n + 1 /\ t[n + 1] = NUL
            /\ \A i \in 1 .. n : t[i] = s[i]
        <5>1. s \in Seq(D) /\ NUL \in D
          BY <1>1
        <5> HIDE DEF t, D
        <5>2. QED
          BY <4>1, <5>1
      <4> HIDE DEF t, D
      <4>3. d \in 1 .. Len(t) /\ t[d] = "." /\ \A i \in 1 .. d - 1 : t[i] # "."
        BY <1>4, <2>1, <4>2
      <4>4. /\ read.at = "variable" <=> Named(t, n + 1, d)
            /\ read.at = "variable" => /\ read.section = SubSeq(t, 1, d - 1)
                                       /\ read.variable = SubSeq(t, d + 1, n + 1)
        BY <4>2, <4>3, RequestOf
      <4>5. Named(t, n + 1, d) <=> /\ ~ HasAnyOf(SubSeq(t, 1, d - 1), {" "})
                                   /\ ~ HasAnyOf(SubSeq(t, d + 1, n + 1), {".", " "})
        BY <4>2, <4>3, PlainParts
      <4>6. SubSeq(t, 1, d - 1) = section
        <5> DEFINE p == SubSeq(t, 1, d - 1)
                   q == SubSeq(s, 1, d - 1)
        <5>1. d - 1 \in 0 .. Len(t)
          BY <1>4, <2>1, <4>2
        <5>2. p \in Seq(D) /\ Len(p) = d - 1 /\ \A i \in 1 .. d - 1 : p[i] = t[i]
          BY <4>2, <5>1, PrefixIs
        <5>3. q \in Seq(C) /\ Len(q) = d - 1 /\ \A i \in 1 .. d - 1 : q[i] = s[i]
          BY <1>1, <2>1, PrefixIs
        <5>4. q \in Seq(D) /\ \A i \in 1 .. d - 1 : i \in 1 .. n
          BY <1>4, <2>1, <5>3 DEF D
        <5> HIDE DEF p, q
        <5>5. p = q
          BY <4>2, <5>2, <5>3, <5>4, SeqEqual
        <5>6. QED
          BY <5>5 DEF p, q
      <4>7. SubSeq(t, d + 1, n + 1) = variable
        <5> DEFINE p == SubSeq(t, d + 1, n + 1)
        <5>1. d \in 0 .. Len(t) /\ Len(t) - d = 1 /\ d + 1 = n + 1
          BY <1>4, <3>2, <4>2
        <5>2. p \in Seq(D) /\ Len(p) = 1 /\ p[1] = t[d + 1]
          BY <4>2, <5>1, SuffixIs
        <5>3. variable = <<NUL>> /\ <<NUL>> \in Seq(D) /\ Len(<<NUL>>) = 1 /\ <<NUL>>[1] = NUL
          BY <3>2 DEF D
        <5> HIDE DEF p, variable
        <5>4. p[1] = NUL
          BY <4>2, <5>1, <5>2
        <5>5. \A i \in 1 .. Len(p) : p[i] = variable[i]
          BY <5>2, <5>3, <5>4
        <5>6. p = variable
          BY <5>2, <5>3, <5>5, SeqEqual
        <5>7. QED
          BY <5>6 DEF p
      <4> HIDE DEF read, section, variable
      <4>8. QED
        BY <4>4, <4>5, <4>6, <4>7
    <3>3. QED
      BY <3>1, <3>2
  <2>3. section = <<>> <=> d = 1
    <3>1. Len(section) = d - 1
      BY <1>1, <2>1, PrefixIs
    <3>2. section \in Seq(C)
      BY <1>1, <2>1, PrefixIs
    <3> HIDE DEF section
    <3>3. section = <<>> <=> Len(section) = 0
      BY <3>2
    <3>4. QED
      BY <1>4, <2>1, <3>1, <3>3
  <2> HIDE DEF read, section, variable
  <2>4. QED
    BY <1>2, <1>3, <1>8, <2>1, <2>2, <2>3
<1>9. QED
  BY <1>6, <1>7, <1>8

(* The property of MCText for any alphabet: the two copies of the parser   *)
(* give the same request, and the same line but for the stray characters   *)
(* before "=" that the server's copy does not look at.                     *)
THEOREM CopiesOf ==
    ASSUME NEW C, Marks \subseteq C, NEW str \in Seq(C)
    PROVE  CopiesAgree(str)
<1> DEFINE line == delete_spaces(str)
<1>1. line \in Seq(C)
  BY SkipType
<1>2. /\ delete_spaces_2(str) = line
      /\ get_section_variable_names_2(str) = get_section_variable_names(str)
  BY SkipSame, RequestsAgree
<1> HIDE DEF line
<1>3. LET one == research_string(line)
          other == research_string_2(line)
          stray == erase(SubSeq(line, 1, find(line, <<"=">>) - 1), Len(other.name))
      IN /\ one = other \/ one = Invalid
         /\ one # other <=> other.type = "_variable_" /\ ~ ToSet(stray) \subseteq Blank
  BY <1>1, LinesAgree
<1>4. QED
  BY <1>2, <1>3, Zenon DEF CopiesAgree, line

-------------------------------------------------------------------------------
(* What the grammars say: texts of parts.                                  *)

(* A text of two parts with a character between.                           *)
Joined(s, a, c, b) == s = a \o <<c>> \o b

(* The places and the parts of such a text.                                *)
LEMMA Concatenated ==
    ASSUME NEW C, NEW a \in Seq(C), NEW c \in C, NEW b \in Seq(C), NEW s, Joined(s, a, c, b)
    PROVE  /\ s \in Seq(C) /\ Len(s) = Len(a) + 1 + Len(b) /\ s[Len(a) + 1] = c
           /\ \A i \in 1 .. Len(a) : s[i] = a[i]
           /\ \A i \in 1 .. Len(b) : s[Len(a) + 1 + i] = b[i]
           /\ SubSeq(s, 1, Len(a)) = a /\ SubSeq(s, Len(a) + 2, Len(s)) = b
<1> DEFINE m == Len(a)
           n == Len(s)
<1>1. /\ s \in Seq(C) /\ n = m + 1 + Len(b) /\ m \in Nat /\ Len(b) \in Nat
      /\ s[m + 1] = c
      /\ \A i \in 1 .. m : s[i] = a[i]
      /\ \A i \in 1 .. Len(b) : s[m + 1 + i] = b[i]
  BY DEF Joined
<1>2. SubSeq(s, 1, m) = a
  <2> DEFINE p == SubSeq(s, 1, m)
  <2>1. m \in 0 .. Len(s)
    BY <1>1
  <2>2. p \in Seq(C) /\ Len(p) = m /\ \A i \in 1 .. m : p[i] = s[i]
    BY <1>1, <2>1, PrefixIs
  <2> HIDE DEF p
  <2>3. p = a
    BY <1>1, <2>2, SeqEqual
  <2>4. QED
    BY <2>3 DEF p
<1>3. SubSeq(s, m + 2, n) = b
  <2> DEFINE e == m + 1
             p == SubSeq(s, e + 1, n)
  <2>1. e \in 0 .. Len(s) /\ Len(s) - e = Len(b) /\ e + 1 = m + 2
    BY <1>1
  <2>2. p \in Seq(C) /\ Len(p) = Len(s) - e /\ \A i \in 1 .. Len(s) - e : p[i] = s[e + i]
    <3> HIDE DEF e
    <3>1. QED
      BY <1>1, <2>1, SuffixIs
  <2>3. \A i \in 1 .. Len(b) : p[i] = b[i]
    BY <1>1, <2>1, <2>2
  <2> HIDE DEF p
  <2>4. p = b
    BY <2>1, <2>2, <2>3, SeqEqual
  <2>5. QED
    BY <2>1, <2>4 DEF p
<1>4. QED
  BY <1>1, <1>2, <1>3

(* Every text is joined so around each of its places.                      *)
LEMMA Split ==
    ASSUME NEW C, NEW s \in Seq(C), NEW d \in 1 .. Len(s)
    PROVE  s = SubSeq(s, 1, d - 1) \o <<s[d]>> \o SubSeq(s, d + 1, Len(s))
<1> DEFINE a == SubSeq(s, 1, d - 1)
           b == SubSeq(s, d + 1, Len(s))
           t == a \o <<s[d]>> \o b
           n == Len(s)
<1>1. n \in Nat /\ d \in Nat /\ 1 =< d /\ d =< n /\ d - 1 \in 0 .. Len(s) /\ d \in 0 .. Len(s) /\ s[d] \in C
  OBVIOUS
<1>2. a \in Seq(C) /\ Len(a) = d - 1 /\ \A i \in 1 .. d - 1 : a[i] = s[i]
  BY <1>1, PrefixIs
<1>3. b \in Seq(C) /\ Len(b) = n - d /\ \A i \in 1 .. n - d : b[i] = s[d + i]
  BY <1>1, SuffixIs
<1> HIDE DEF a, b
<1>4. /\ t \in Seq(C) /\ Len(t) = Len(a) + 1 + Len(b) /\ t[Len(a) + 1] = s[d]
      /\ \A i \in 1 .. Len(a) : t[i] = a[i]
      /\ \A i \in 1 .. Len(b) : t[Len(a) + 1 + i] = b[i]
  <2> DEFINE c == s[d]
  <2>1. Joined(t, a, c, b)
    BY DEF Joined
  <2>a. a \in Seq(C) /\ c \in C /\ b \in Seq(C)
    BY <1>1, <1>2, <1>3
  <2> HIDE DEF t, c
  <2>2. /\ t \in Seq(C) /\ Len(t) = Len(a) + 1 + Len(b) /\ t[Len(a) + 1] = c
        /\ \A i \in 1 .. Len(a) : t[i] = a[i]
        /\ \A i \in 1 .. Len(b) : t[Len(a) + 1 + i] = b[i]
    BY <2>a, <2>1, Concatenated
  <2>3. QED
    BY <2>2 DEF c
<1> HIDE DEF t
<1>5. ASSUME NEW i \in 1 .. n
      PROVE  t[i] = s[i]
  <2>1. CASE i < d
    <3>1. i \in 1 .. d - 1
      BY <1>1, <2>1
    <3>2. QED
      BY <1>2, <1>4, <3>1
  <2>2. CASE i = d
    BY <1>1, <1>2, <1>4, <2>2
  <2>3. CASE d < i
    <3> DEFINE j == i - d
    <3>1. j \in 1 .. n - d /\ d + j = i
      BY <1>1, <2>3
    <3> HIDE DEF j
    <3>2. (d - 1) + 1 = d
      BY <1>1
    <3>3. t[d + j] = b[j]
      BY <1>2, <1>3, <1>4, <3>1, <3>2
    <3>4. QED
      BY <1>3, <3>1, <3>3
  <2>4. QED
    BY <1>1, <2>1, <2>2, <2>3
<1>6. Len(t) = n
  BY <1>1, <1>2, <1>3, <1>4
<1>7. t = s
  BY <1>4, <1>5, <1>6, SeqEqual
<1>8. QED
  BY <1>7 DEF t, a, b

(* A part of a text has the characters of the text.                        *)
LEMMA PartsOf ==
    ASSUME NEW C, NEW s \in Seq(C), NEW part \in SubSeqs(s)
    PROVE  part \in Seq(C)
<1>1. PICK i \in 0 .. Len(s), j \in 0 .. Len(s) : part = SubSeq(s, i + 1, j)
  BY DEF SubSeqs
<1>2. i + 1 \in Int /\ j \in Int /\ 1 =< i + 1 /\ j =< Len(s)
  OBVIOUS
<1>3. QED
  BY <1>1, <1>2, Cut

(* The property of MCText for any alphabet without the NUL that the code   *)
(* takes for a name: a request is read as section and variable exactly if  *)
(* it is these two parts with a dot between, and the NUL is taken only for *)
(* what ends in a dot.                                                     *)
THEOREM RequestsOf ==
    ASSUME NEW C, Marks \subseteq C, NUL \notin C, NEW str \in Seq(C)
    PROVE  RequestGrammar(str)
<1> DEFINE s == delete_spaces(str)
           n == Len(s)
           d == find(s, <<".">>)
           section == SubSeq(s, 1, d - 1)
           variable == IF d = n THEN <<NUL>> ELSE From(s, d + 1)
           made == [section |-> section, variable |-> variable]
           names == get_section_variable_names(str)
           Wrong == \/ d \in {0, 1} \/ n < 3
                    \/ HasAnyOf(section, {" "}) \/ HasAnyOf(variable, {".", " "})
<1>1. s \in Seq(C)
  BY SkipType
<1>2. names = IF Wrong THEN Bad ELSE made
  BY DEF get_section_variable_names
<1>3. RequestGrammar(str) <=>
         /\ \A a, b \in SubSeqs(s) \ {<<>>} :
               s = a \o <<".">> \o b /\ ~ HasAnyOf(a, {".", " "}) /\ ~ HasAnyOf(b, {".", " "})
                  <=> names = [section |-> a, variable |-> b]
         /\ names.variable = <<NUL>> => s = names.section \o <<".">>
  BY Zenon DEF RequestGrammar
<1> HIDE DEF s, names
<1>4. n \in Nat /\ (s = <<>> <=> n = 0)
  BY <1>1
<1>5. d \in 0 .. n /\ (d = 0 => \A i \in 1 .. n : s[i] # ".")
      /\ (d # 0 => s[d] = "." /\ \A i \in 1 .. d - 1 : s[i] # ".")
  <2>1. "." \in C
    BY DEF Marks
  <2>2. QED
    BY <1>1, <2>1, FindOne
<1>6. ASSUME d # 0
      PROVE  /\ section \in Seq(C) /\ Len(section) = d - 1 /\ \A i \in 1 .. d - 1 : section[i] = s[i]
             /\ section = <<>> <=> d = 1
             /\ ~ HasAnyOf(section, {"."})
             /\ s = section \o <<".">> \o SubSeq(s, d + 1, n)
             /\ d = n => SubSeq(s, d + 1, n) = <<>>
  <2> HIDE DEF d
  <2>1. d \in 1 .. n /\ d - 1 \in 0 .. n /\ s[d] = "." /\ \A i \in 1 .. d - 1 : s[i] # "."
    BY <1>4, <1>5, <1>6
  <2>2. section \in Seq(C) /\ Len(section) = d - 1 /\ \A i \in 1 .. d - 1 : section[i] = s[i]
    BY <1>1, <2>1, PrefixIs
  <2>3. s = section \o <<".">> \o SubSeq(s, d + 1, n)
    BY <1>1, <2>1, Split
  <2>4. d = n => SubSeq(s, d + 1, n) = <<>>
    <3>1. ASSUME d = n
          PROVE  d + 1 \in Nat /\ n \in Nat /\ n < d + 1
      BY <1>4, <3>1
    <3>2. QED
      BY <1>1, <3>1, SubSeqEmpty
  <2> HIDE DEF section
  <2>5. section = <<>> <=> d = 1
    <3>1. section \in Seq(C) /\ Len(section) = d - 1
      BY <2>2
    <3> HIDE DEF variable
    <3>2. \A q \in Seq(C) : q = <<>> <=> Len(q) = 0
      OBVIOUS
    <3>3. section = <<>> <=> Len(section) = 0
      BY <3>1, <3>2
    <3>4. QED
      BY <1>4, <2>1, <3>1, <3>3
  <2>6. ~ HasAnyOf(section, {"."})
    <3>1. HasAnyOf(section, {"."}) <=> \E i \in 1 .. Len(section) : section[i] \in {"."}
      BY <2>2, HasOne
    <3>2. QED
      BY <2>1, <2>2, <3>1
  <2>7. QED
    BY <2>2, <2>3, <2>4, <2>5, <2>6
<1>7. \A q : HasAnyOf(q, {".", " "}) <=> HasAnyOf(q, {"."}) \/ HasAnyOf(q, {" "})
  BY DEF HasAnyOf
<1>8. ASSUME NEW a \in SubSeqs(s) \ {<<>>}, NEW b \in SubSeqs(s) \ {<<>>},
             s = a \o <<".">> \o b, ~ HasAnyOf(a, {".", " "}), ~ HasAnyOf(b, {".", " "})
      PROVE  names = [section |-> a, variable |-> b]
  <2>1. a \in Seq(C) /\ b \in Seq(C) /\ "." \in C
    BY <1>1, PartsOf DEF Marks
  <2>2. /\ n = Len(a) + 1 + Len(b) /\ s[Len(a) + 1] = "."
        /\ \A i \in 1 .. Len(a) : s[i] = a[i]
        /\ SubSeq(s, 1, Len(a)) = a /\ SubSeq(s, Len(a) + 2, n) = b
    <3>1. Joined(s, a, ".", b)
      BY <1>8 DEF Joined
    <3>2. QED
      BY <2>1, <3>1, Concatenated
  <2>3. Len(a) \in Nat /\ Len(b) \in Nat /\ Len(a) # 0 /\ Len(b) # 0
    BY <2>1
  <2>4. \A i \in 1 .. Len(a) : s[i] # "."
    <3>1. HasAnyOf(a, {".", " "}) <=> \E i \in 1 .. Len(a) : a[i] \in {".", " "}
      BY <2>1, HasOne
    <3>2. QED
      BY <1>8, <2>2, <3>1
  <2> HIDE DEF d
  <2>5. d = Len(a) + 1
    <3>1. Len(a) + 1 \in 1 .. n
      BY <2>2, <2>3
    <3>2. d # 0
      BY <1>5, <2>2, <3>1
    <3>3. ~ (d < Len(a) + 1)
      <4>1. d < Len(a) + 1 => d \in 1 .. Len(a)
        BY <1>4, <1>5, <2>3, <3>2
      <4>2. QED
        BY <1>5, <2>4, <3>2, <4>1
    <3>4. ~ (Len(a) + 1 < d)
      <4>1. Len(a) + 1 < d => Len(a) + 1 \in 1 .. d - 1
        BY <1>4, <1>5, <2>3, <3>2
      <4>2. QED
        BY <1>5, <2>2, <3>2, <4>1
    <3>5. QED
      BY <1>4, <1>5, <2>3, <3>3, <3>4
  <2>6. /\ d - 1 = Len(a) /\ d + 1 = Len(a) + 2 /\ d # n /\ d \notin {0, 1} /\ ~ (n < 3)
    BY <2>2, <2>3, <2>5
  <2>7. section = a /\ variable = b
    BY <2>2, <2>6 DEF From
  <2> HIDE DEF section, variable
  <2>8. ~ Wrong
    BY <1>7, <1>8, <2>6, <2>7
  <2>9. QED
    BY <1>2, <2>7, <2>8
<1>9. ASSUME ~ Wrong
      PROVE  d # 0 /\ names = made /\ ~ HasAnyOf(section, {".", " "}) /\ ~ HasAnyOf(variable, {".", " "})
  <2>1. d # 0 /\ ~ HasAnyOf(section, {" "}) /\ ~ HasAnyOf(variable, {".", " "}) /\ names = made
    BY <1>2, <1>9
  <2>2. ~ HasAnyOf(section, {"."})
    BY <1>6, <2>1
  <2>3. QED
    BY <1>7, <2>1, <2>2
<1>10. ASSUME NEW a \in SubSeqs(s) \ {<<>>}, NEW b \in SubSeqs(s) \ {<<>>},
              names = [section |-> a, variable |-> b]
       PROVE  s = a \o <<".">> \o b /\ ~ HasAnyOf(a, {".", " "}) /\ ~ HasAnyOf(b, {".", " "})
  <2>1. b \in Seq(C)
    BY <1>1, PartsOf
  <2>2. Bad.section = <<>> /\ names.section = a /\ names.variable = b /\ a # <<>>
    BY <1>10 DEF Bad
  <2>3. ~ Wrong
    BY <1>2, <2>2
  <2>4. d # 0 /\ section = a /\ variable = b /\ ~ HasAnyOf(a, {".", " "}) /\ ~ HasAnyOf(b, {".", " "})
    <3>1. d # 0 /\ names = made /\ ~ HasAnyOf(section, {".", " "}) /\ ~ HasAnyOf(variable, {".", " "})
      BY <1>9, <2>3
    <3> HIDE DEF section, variable, Wrong, d
    <3>2. names.section = section /\ names.variable = variable
      BY <3>1
    <3>3. QED
      BY <2>2, <3>1, <3>2
  <2>5. d # n
    <3>1. \A i \in 1 .. Len(b) : b[i] \in C
      BY <2>1
    <3>2. Len(<<NUL>>) = 1 /\ <<NUL>>[1] = NUL
      OBVIOUS
    <3>3. b # <<NUL>>
      BY <3>1, <3>2
    <3>4. QED
      BY <2>4, <3>3
  <2>6. b = SubSeq(s, d + 1, n)
    BY <2>4, <2>5 DEF From
  <2>7. s = section \o <<".">> \o SubSeq(s, d + 1, n)
    BY <1>6, <2>4
  <2> HIDE DEF section, variable, d
  <2>8. QED
    BY <2>4, <2>6, <2>7
<1>11. ASSUME names.variable = <<NUL>>
       PROVE  s = names.section \o <<".">>
  <2>1. ~ Wrong
    <3>1. Bad.variable = <<>> /\ <<NUL>> # <<>>
      BY DEF Bad
    <3>2. QED
      BY <1>2, <1>11, <3>1
  <2>2. d # 0 /\ names.section = section /\ variable = <<NUL>>
    <3>1. d # 0 /\ names = made
      BY <1>9, <2>1
    <3> HIDE DEF section, variable, Wrong, d
    <3>2. names.section = section /\ names.variable = variable
      BY <3>1
    <3>3. QED
      BY <1>11, <3>1, <3>2
  <2>3. d = n
    <3>1. ASSUME d # n
          PROVE  FALSE
      <4>1. SubSeq(s, d + 1, n) = <<NUL>>
        BY <2>2, <3>1 DEF From
      <4>2. d \in 0 .. Len(s)
        BY <1>5
      <4>3. SubSeq(s, d + 1, n) \in Seq(C)
        BY <1>1, <4>2, SuffixIs
      <4>4. \A q \in Seq(C) : \A i \in 1 .. Len(q) : q[i] \in C
        OBVIOUS
      <4>5. Len(<<NUL>>) = 1 /\ <<NUL>>[1] = NUL
        OBVIOUS
      <4>6. <<NUL>> \notin Seq(C)
        BY <4>4, <4>5
      <4>7. QED
        BY <4>1, <4>3, <4>6
    <3>2. QED
      BY <3>1
  <2>4. s = section \o <<".">> \o <<>> /\ section \in Seq(C)
    BY <1>6, <2>2, <2>3
  <2> HIDE DEF section
  <2>5. s = section \o <<".">>
    BY <2>4
  <2>6. QED
    BY <2>2, <2>5
<1>12. QED
  BY <1>3, <1>8, <1>10, <1>11, Zenon

-------------------------------------------------------------------------------
(* Section lines.                                                          *)

(* The places and the parts of a text of two parts.                        *)
LEMMA TwoParts ==
    ASSUME NEW C, NEW a \in Seq(C), NEW b \in Seq(C)
    PROVE  /\ a \o b \in Seq(C) /\ Len(a \o b) = Len(a) + Len(b)
           /\ \A i \in 1 .. Len(a) : (a \o b)[i] = a[i]
           /\ \A i \in 1 .. Len(b) : (a \o b)[Len(a) + i] = b[i]
           /\ SubSeq(a \o b, 1, Len(a)) = a
           /\ SubSeq(a \o b, Len(a) + 1, Len(a) + Len(b)) = b
<1> DEFINE s == a \o b
           m == Len(a)
           n == Len(b)
<1>1. /\ s \in Seq(C) /\ Len(s) = m + n /\ m \in Nat /\ n \in Nat
      /\ \A i \in 1 .. m : s[i] = a[i]
      /\ \A i \in 1 .. n : s[m + i] = b[i]
  OBVIOUS
<1>2. m \in 0 .. Len(s) /\ Len(s) - m = n
  BY <1>1
<1> HIDE DEF s
<1>3. SubSeq(s, 1, m) = a
  <2> DEFINE p == SubSeq(s, 1, m)
  <2>1. p \in Seq(C) /\ Len(p) = m /\ \A i \in 1 .. m : p[i] = s[i]
    BY <1>1, <1>2, PrefixIs
  <2> HIDE DEF p
  <2>2. p = a
    BY <1>1, <2>1, SeqEqual
  <2>3. QED
    BY <2>2 DEF p
<1>4. SubSeq(s, m + 1, m + n) = b
  <2> DEFINE p == SubSeq(s, m + 1, m + n)
  <2>1. p \in Seq(C) /\ Len(p) = n /\ \A i \in 1 .. n : p[i] = s[m + i]
    BY <1>1, <1>2, SuffixIs
  <2> HIDE DEF p
  <2>2. \A i \in 1 .. n : p[i] = b[i]
    BY <1>1, <2>1
  <2>3. p = b
    BY <2>1, <2>2, SeqEqual
  <2>4. QED
    BY <2>3 DEF p
<1>5. QED
  BY <1>1, <1>3, <1>4 DEF s

(* What may follow the bracket at e.                                       *)
TailFrom(s, e) ==
    \/ \A i \in e + 1 .. Len(s) - 1 : s[i] \in Blank
    \/ \E k \in e + 1 .. Len(s) - 1 : s[k] = Semicolon /\ \A i \in e + 1 .. k - 1 : s[i] \in Blank

(* TailFrom, by the rest of the line.                                      *)
LEMMA RestIs ==
    ASSUME NEW C, NEW s \in Seq(C), NEW e \in 1 .. Len(s), NEW rest, rest = SubSeq(s, e + 1, Len(s))
    PROVE  TailFrom(s, e) <=>
              \/ Len(rest) =< 1
              \/ \E k \in 0 .. Len(rest) - 1 :
                    /\ ToSet(SubSeq(rest, 1, k)) \subseteq Blank
                    /\ k + 1 = Len(rest) \/ rest[k + 1] = Semicolon
<1> DEFINE n == Len(s)
           r == n - e
<1>1. n \in Nat /\ e \in Nat /\ 1 =< e /\ e =< n /\ r \in Nat /\ e \in 0 .. Len(s)
  OBVIOUS
<1>2. rest \in Seq(C) /\ Len(rest) = r /\ \A i \in 1 .. r : rest[i] = s[e + i]
  BY <1>1, SuffixIs
<1>3. ASSUME NEW k \in 0 .. r
      PROVE  ToSet(SubSeq(rest, 1, k)) \subseteq Blank <=> \A i \in e + 1 .. e + k : s[i] \in Blank
  <2> DEFINE p == SubSeq(rest, 1, k)
  <2>1. k \in 0 .. Len(rest)
    BY <1>2
  <2>2. p \in Seq(C) /\ Len(p) = k /\ \A i \in 1 .. k : p[i] = rest[i]
    BY <1>2, <2>1, PrefixIs
  <2> HIDE DEF p
  <2>3. ToSet(p) \subseteq Blank <=> \A i \in 1 .. Len(p) : p[i] \in Blank
    BY <2>2, HasOne
  <2>4. ToSet(p) \subseteq Blank <=> \A i \in 1 .. k : s[e + i] \in Blank
    <3>1. \A i \in 1 .. k : i \in 1 .. r
      BY <1>1
    <3>2. QED
      BY <1>2, <2>2, <2>3, <3>1
  <2>5. /\ \A i \in 1 .. k : e + i \in e + 1 .. e + k
        /\ \A i \in e + 1 .. e + k : i - e \in 1 .. k /\ e + (i - e) = i
    BY <1>1
  <2>6. QED
    BY <2>4, <2>5 DEF p
<1> HIDE DEF r
<1>4. r = n - e
  BY DEF r
<1>5. ASSUME TailFrom(s, e), ~ (r =< 1)
      PROVE  \E k \in 0 .. r - 1 : /\ ToSet(SubSeq(rest, 1, k)) \subseteq Blank
                                   /\ k + 1 = r \/ rest[k + 1] = Semicolon
  <2>1. CASE \A i \in e + 1 .. n - 1 : s[i] \in Blank
    <3>1. r - 1 \in 0 .. r - 1 /\ r - 1 \in 0 .. r /\ (r - 1) + 1 = r /\ e + (r - 1) = n - 1
      BY <1>1, <1>4, <1>5
    <3>2. ToSet(SubSeq(rest, 1, r - 1)) \subseteq Blank
      BY <1>3, <2>1, <3>1
    <3>3. QED
      BY <3>1, <3>2
  <2>2. ASSUME NEW j \in e + 1 .. n - 1, s[j] = Semicolon, \A i \in e + 1 .. j - 1 : s[i] \in Blank
        PROVE  \E k \in 0 .. r - 1 : /\ ToSet(SubSeq(rest, 1, k)) \subseteq Blank
                                     /\ k + 1 = r \/ rest[k + 1] = Semicolon
    <3> DEFINE k == j - 1 - e
    <3>1. k \in 0 .. r - 1 /\ k \in 0 .. r /\ e + k = j - 1 /\ k + 1 \in 1 .. r /\ e + (k + 1) = j
      BY <1>1, <1>4
    <3> HIDE DEF k
    <3>2. ToSet(SubSeq(rest, 1, k)) \subseteq Blank
      BY <1>3, <2>2, <3>1
    <3>3. rest[k + 1] = Semicolon
      BY <1>2, <2>2, <3>1
    <3>4. QED
      BY <3>1, <3>2, <3>3
  <2>3. QED
    BY <1>5, <2>1, <2>2 DEF TailFrom
<1>6. ASSUME r =< 1
      PROVE  TailFrom(s, e)
  <2>1. e + 1 .. n - 1 = {}
    BY <1>1, <1>4, <1>6
  <2>2. QED
    BY <2>1 DEF TailFrom
<1>7. ASSUME NEW k \in 0 .. r - 1, ToSet(SubSeq(rest, 1, k)) \subseteq Blank, k + 1 = r \/ rest[k + 1] = Semicolon
      PROVE  TailFrom(s, e)
  <2>1. k \in 0 .. r /\ k + 1 \in 1 .. r
    BY <1>1, <1>4
  <2>2. \A i \in e + 1 .. e + k : s[i] \in Blank
    BY <1>3, <1>7, <2>1
  <2>3. CASE k + 1 = r
    <3>1. e + k = n - 1
      BY <1>1, <1>4, <2>3
    <3>2. QED
      BY <2>2, <3>1 DEF TailFrom
  <2>4. CASE k + 1 # r
    <3> DEFINE j == e + (k + 1)
    <3>1. j \in e + 1 .. n - 1 /\ j - 1 = e + k
      BY <1>1, <1>4, <2>4
    <3>2. s[j] = Semicolon
      BY <1>2, <1>7, <2>1, <2>4
    <3> HIDE DEF j
    <3>3. QED
      BY <2>2, <3>1, <3>2 DEF TailFrom
  <2>5. QED
    BY <2>3, <2>4
<1>8. QED
  BY <1>2, <1>5, <1>6, <1>7

(* A line is a section's, by the grammar, if a bracket closes it so.       *)
LEMMA SectionLineIs ==
    ASSUME NEW C, Marks \subseteq C, NEW s \in Seq(C), NEW name \in Seq(C)
    PROVE  IsSectionLine(s, name) <=>
              /\ s # <<>> /\ s[1] = "["
              /\ \E e : Closes(s, e) /\ name = SubSeq(s, 2, e - 1)
<1> DEFINE n == Len(s)
           m == Len(name)
           Stops == Blank \cup {".", "]"}
           Follows(rest) ==
               \/ Len(rest) =< 1
               \/ \E k \in 0 .. Len(rest) - 1 :
                     /\ ToSet(SubSeq(rest, 1, k)) \subseteq Blank
                     /\ k + 1 = Len(rest) \/ rest[k + 1] = Semicolon
           open == <<"[">> \o name
<1>1. IsSectionLine(s, name) <=>
         /\ name # <<>> /\ ~ HasAnyOf(name, Stops)
         /\ \E rest \in Suffixes(s) : s = open \o <<"]">> \o rest /\ Follows(rest)
  BY Zenon DEF IsSectionLine, Semicolon
<1>2. n \in Nat /\ m \in Nat /\ (name = <<>> <=> m = 0) /\ "[" \in C /\ "]" \in C
  BY DEF Marks
<1>3. /\ open \in Seq(C) /\ Len(open) = m + 1 /\ open[1] = "["
      /\ \A i \in 1 .. m : open[i + 1] = name[i]
  BY <1>2
<1> HIDE DEF open
<1>4. HasAnyOf(name, Stops) <=> \E i \in 1 .. m : name[i] \in Stops
  <2> HIDE DEF Stops
  <2>1. QED
    BY HasOne
<1>5. \A e : Closes(s, e) <=> /\ e \in 3 .. n /\ s[e] = "]"
                              /\ \A i \in 2 .. e - 1 : s[i] \notin Stops
                              /\ TailFrom(s, e)
  BY DEF Closes, TailFrom
<1> HIDE DEF Stops, Follows
<1>6. ASSUME name # <<>>, ~ HasAnyOf(name, Stops), NEW rest \in Suffixes(s),
             s = open \o <<"]">> \o rest, Follows(rest)
      PROVE  /\ s # <<>> /\ s[1] = "["
             /\ \E e : Closes(s, e) /\ name = SubSeq(s, 2, e - 1)
  <2> DEFINE e == m + 2
  <2>1. rest \in Seq(C)
    <3>1. CASE rest = <<>>
      BY <3>1
    <3>2. CASE rest # <<>>
      <4>1. PICK l \in 1 .. Len(s) : rest = SubSeq(s, l, Len(s))
        BY <3>2 DEF Suffixes
      <4>2. l \in Int /\ Len(s) \in Int /\ 1 =< l /\ Len(s) =< Len(s)
        BY <1>2
      <4>3. QED
        BY <4>1, <4>2, Cut
    <3>3. QED
      BY <3>1, <3>2
  <2>2. /\ n = Len(open) + 1 + Len(rest) /\ s[Len(open) + 1] = "]"
        /\ \A i \in 1 .. Len(open) : s[i] = open[i]
        /\ SubSeq(s, Len(open) + 2, n) = rest
    <3>1. Joined(s, open, "]", rest)
      BY <1>6 DEF Joined
    <3>2. QED
      BY <1>2, <1>3, <2>1, <3>1, Concatenated
  <2>3. /\ e \in 3 .. n /\ Len(open) + 1 = e /\ e + 1 = Len(open) + 2 /\ e \in 1 .. Len(s)
        /\ Len(rest) \in Nat
    BY <1>2, <1>3, <1>6, <2>1, <2>2
  <2>4. s[1] = "[" /\ \A i \in 1 .. m : s[i + 1] = name[i]
    BY <1>2, <1>3, <2>2
  <2>5. s[e] = "]" /\ rest = SubSeq(s, e + 1, n)
    BY <2>2, <2>3
  <2>6. \A i \in 2 .. e - 1 : s[i] \notin Stops
    <3>1. \A i \in 2 .. e - 1 : i - 1 \in 1 .. m /\ (i - 1) + 1 = i
      BY <1>2
    <3>2. QED
      BY <1>4, <1>6, <2>4, <3>1
  <2>7. TailFrom(s, e)
    <3> HIDE DEF e
    <3>1. QED
      BY <1>6, <2>3, <2>5, RestIs DEF Follows
  <2>8. name = SubSeq(s, 2, e - 1)
    <3> DEFINE p == SubSeq(s, 2, e - 1)
    <3>1. /\ 2 \in Int /\ e - 1 \in Int /\ 1 =< 2 /\ e - 1 =< Len(s)
          /\ (2 =< e - 1 \/ m = 0) /\ (e - 1) - 2 + 1 = m /\ (2 =< e - 1 => m # 0)
      BY <1>2, <2>3
    <3> DEFINE j == e - 1
    <3>2. j \in Int /\ j =< Len(s) /\ (2 =< j \/ m = 0) /\ j - 2 + 1 = m /\ (2 =< j => m # 0)
      BY <3>1
    <3> HIDE DEF j
    <3>3. /\ SubSeq(s, 2, j) \in Seq(C) /\ Len(SubSeq(s, 2, j)) = IF 2 =< j THEN j - 2 + 1 ELSE 0
          /\ \A k \in 1 .. j - 2 + 1 : SubSeq(s, 2, j)[k] = s[2 + k - 1]
      BY <3>1, <3>2, Cut
    <3>4. p \in Seq(C) /\ Len(p) = m /\ \A k \in 1 .. m : p[k] = s[k + 1]
      <4>1. \A k \in 1 .. m : 2 + k - 1 = k + 1
        BY <1>2
      <4>2. QED
        BY <3>2, <3>3, <4>1 DEF j
    <3> HIDE DEF p
    <3>5. p = name
      BY <2>4, <3>4, SeqEqual
    <3>6. QED
      BY <3>5 DEF p
  <2> HIDE DEF e
  <2>9. Closes(s, e)
    BY <1>5, <2>3, <2>5, <2>6, <2>7
  <2>10. s # <<>>
    BY <1>2, <2>3
  <2>11. QED
    BY <2>4, <2>8, <2>9, <2>10
<1>7. ASSUME s # <<>>, s[1] = "[", NEW e, Closes(s, e), name = SubSeq(s, 2, e - 1)
      PROVE  /\ name # <<>> /\ ~ HasAnyOf(name, Stops)
             /\ \E rest \in Suffixes(s) : s = open \o <<"]">> \o rest /\ Follows(rest)
  <2> DEFINE rest == SubSeq(s, e + 1, n)
  <2>1. /\ e \in 3 .. n /\ s[e] = "]" /\ TailFrom(s, e) /\ e \in 1 .. Len(s) /\ e \in Nat
        /\ \A i \in 2 .. e - 1 : s[i] \notin Stops
    BY <1>2, <1>5, <1>7
  <2>2. /\ m = e - 2 /\ \A k \in 1 .. m : name[k] = s[k + 1]
    <3> DEFINE j == e - 1
    <3>1. j \in Int /\ j =< Len(s) /\ 2 =< j /\ j - 2 + 1 = e - 2 /\ 2 \in Int /\ 1 =< 2
          /\ \A k \in 1 .. e - 2 : 2 + k - 1 = k + 1
      BY <1>2, <2>1
    <3> HIDE DEF j
    <3>2. /\ Len(SubSeq(s, 2, j)) = IF 2 =< j THEN j - 2 + 1 ELSE 0
          /\ \A k \in 1 .. j - 2 + 1 : SubSeq(s, 2, j)[k] = s[2 + k - 1]
      BY <3>1, Cut
    <3>3. QED
      BY <1>7, <3>1, <3>2 DEF j
  <2>3. name # <<>> /\ ~ HasAnyOf(name, Stops)
    <3>1. m # 0 /\ \A k \in 1 .. m : k + 1 \in 2 .. e - 1
      BY <1>2, <2>1, <2>2
    <3>2. QED
      BY <1>2, <1>4, <2>1, <2>2, <3>1
  <2>4. open = SubSeq(s, 1, e - 1)
    <3> DEFINE p == SubSeq(s, 1, e - 1)
    <3>1. e - 1 \in 0 .. Len(s) /\ e - 1 = m + 1
      BY <1>2, <2>1, <2>2
    <3>2. p \in Seq(C) /\ Len(p) = e - 1 /\ \A i \in 1 .. e - 1 : p[i] = s[i]
      BY <3>1, PrefixIs
    <3> HIDE DEF p
    <3>3. ASSUME NEW i \in 1 .. m + 1
          PROVE  open[i] = p[i]
      <4>1. CASE i = 1
        BY <1>3, <1>7, <3>1, <3>2, <4>1
      <4>2. CASE i # 1
        <5>1. i - 1 \in 1 .. m /\ (i - 1) + 1 = i
          BY <1>2, <4>2
        <5>2. open[i] = name[i - 1] /\ name[i - 1] = s[i]
          BY <1>3, <2>2, <5>1
        <5>3. QED
          BY <3>1, <3>2, <5>2
      <4>3. QED
        BY <4>1, <4>2
    <3>4. open = p
      BY <1>3, <3>1, <3>2, <3>3, SeqEqual
    <3>5. QED
      BY <3>4 DEF p
  <2>5. s = open \o <<"]">> \o rest
    BY <2>1, <2>4, Split
  <2>6. Follows(rest)
    BY <2>1, RestIs DEF Follows
  <2>7. rest \in Suffixes(s)
    <3>1. CASE e = n
      <4>1. e + 1 \in Int /\ n \in Int /\ n < e + 1
        BY <1>2, <2>1, <3>1
      <4>2. rest = <<>>
        BY <4>1, SubSeqEmpty
      <4>3. QED
        BY <4>2 DEF Suffixes
    <3>2. CASE e # n
      <4>1. e + 1 \in 1 .. Len(s)
        BY <1>2, <2>1, <3>2
      <4>2. QED
        BY <4>1 DEF Suffixes
    <3>3. QED
      BY <3>1, <3>2
  <2> HIDE DEF rest
  <2>8. QED
    BY <2>3, <2>5, <2>6, <2>7
<1>8. QED
  BY <1>1, <1>6, <1>7

-------------------------------------------------------------------------------
(* Variable lines.                                                         *)

(* The parts of a text are a prefix and a suffix of it.                    *)
LEMMA PartOfWhole ==
    ASSUME NEW C, NEW a \in Seq(C), NEW b \in Seq(C)
    PROVE  /\ a \in Prefixes(a \o b) /\ b \in Suffixes(a \o b)
           /\ erase(a \o b, Len(a)) = b
<1> DEFINE s == a \o b
<1>1. /\ s \in Seq(C) /\ Len(s) = Len(a) + Len(b) /\ SubSeq(s, 1, Len(a)) = a
      /\ SubSeq(s, Len(a) + 1, Len(s)) = b
  BY TwoParts
<1>2. Len(a) \in Nat /\ Len(b) \in Nat /\ (b = <<>> <=> Len(b) = 0)
  OBVIOUS
<1> HIDE DEF s
<1>3. a \in Prefixes(s)
  <2>1. Len(a) \in 0 .. Len(s)
    BY <1>1, <1>2
  <2>2. QED
    BY <1>1, <2>1 DEF Prefixes
<1>4. b \in Suffixes(s)
  <2>1. CASE b = <<>>
    BY <2>1 DEF Suffixes
  <2>2. CASE b # <<>>
    <3>1. Len(a) + 1 \in 1 .. Len(s)
      BY <1>1, <1>2, <2>2
    <3>2. QED
      BY <1>1, <3>1 DEF Suffixes
  <2>3. QED
    BY <2>1, <2>2
<1>5. erase(s, Len(a)) = b
  BY <1>1 DEF erase, From
<1>6. QED
  BY <1>3, <1>4, <1>5 DEF s

(* Prefixes and suffixes have the characters of the text.                  *)
LEMMA PrefixesOf ==
    ASSUME NEW C, NEW s \in Seq(C), NEW m \in Nat, NEW part \in Prefixes(erase(s, m)) \cup Suffixes(s)
    PROVE  part \in Seq(C)
<1>1. \A i \in Nat : SubSeq(s, i + 1, Len(s)) \in Seq(C)
  <2>1. ASSUME NEW i \in Nat
        PROVE  SubSeq(s, i + 1, Len(s)) \in Seq(C)
    <3>1. i + 1 \in Int /\ Len(s) \in Int /\ 1 =< i + 1 /\ Len(s) =< Len(s)
      OBVIOUS
    <3>2. QED
      BY <3>1, Cut
  <2>2. QED
    BY <2>1
<1>2. CASE part \in Prefixes(erase(s, m))
  <2> DEFINE q == erase(s, m)
  <2>1. q \in Seq(C)
    BY <1>1 DEF erase, From
  <2> HIDE DEF q
  <2>2. PICK l \in 0 .. Len(q) : part = SubSeq(q, 1, l)
    BY <1>2 DEF Prefixes, q
  <2>3. QED
    BY <2>1, <2>2, PrefixIs
<1>3. CASE part \in Suffixes(s)
  <2>1. CASE part = <<>>
    BY <2>1
  <2>2. CASE part # <<>>
    <3>1. PICK l \in 1 .. Len(s) : part = SubSeq(s, l, Len(s))
      BY <1>3, <2>2 DEF Suffixes
    <3>2. l - 1 \in Nat /\ (l - 1) + 1 = l
      OBVIOUS
    <3>3. QED
      BY <1>1, <3>1, <3>2
  <2>3. QED
    BY <2>1, <2>2
<1>4. QED
  BY <1>2, <1>3

(* Until splits a text before the first of the characters.                 *)
LEMMA UntilSplits ==
    ASSUME NEW C, NEW s \in Seq(C), NEW chars
    PROVE  LET part == Until(s, chars)
               rest == erase(s, Len(part))
           IN /\ part \in Seq(C) /\ rest \in Seq(C) /\ s = part \o rest
              /\ \A i \in 1 .. Len(part) : part[i] \notin chars
              /\ rest = <<>> \/ rest[1] \in chars
<1> DEFINE part == Until(s, chars)
           rest == erase(s, Len(part))
<1>1. PICK m \in 0 .. Len(s) :
              /\ part = SubSeq(s, 1, m)
              /\ \A i \in 1 .. m : s[i] \notin chars
              /\ m < Len(s) => s[m + 1] \in chars
  BY UntilIs
<1>2. part \in Seq(C) /\ Len(part) = m /\ \A i \in 1 .. m : part[i] = s[i]
  BY <1>1, PrefixIs
<1>3. rest = SubSeq(s, m + 1, Len(s))
  BY <1>2 DEF erase, From
<1> HIDE DEF part, rest
<1>4. rest \in Seq(C) /\ Len(rest) = Len(s) - m /\ \A i \in 1 .. Len(s) - m : rest[i] = s[m + i]
  BY <1>3, SuffixIs
<1>5. s = part \o rest
  <2>1. 1 \in 1 .. Len(s) + 1 /\ m \in 1 - 1 .. Len(s) /\ Len(s) \in m .. Len(s)
    OBVIOUS
  <2>2. SubSeq(s, 1, m) \o SubSeq(s, m + 1, Len(s)) = SubSeq(s, 1, Len(s))
    BY <2>1, ConcatAdjacentSubSeq
  <2>3. QED
    BY <1>1, <1>3, <2>2, SubSeqFull
<1>6. rest = <<>> \/ rest[1] \in chars
  <2>1. ASSUME rest # <<>>
        PROVE  rest[1] \in chars
    <3>1. Len(rest) # 0
      BY <1>4, <2>1
    <3>2. m < Len(s) /\ 1 \in 1 .. Len(s) - m
      BY <1>4, <3>1
    <3>3. QED
      BY <1>1, <1>4, <3>2
  <2>2. QED
    BY <2>1
<1>7. \A i \in 1 .. Len(part) : part[i] \notin chars
  BY <1>1, <1>2
<1>8. QED
  BY <1>2, <1>4, <1>5, <1>6, <1>7 DEF part, rest

(* And only there.                                                         *)
LEMMA UntilOfTwo ==
    ASSUME NEW C, NEW part \in Seq(C), NEW rest \in Seq(C), NEW chars,
           \A i \in 1 .. Len(part) : part[i] \notin chars,
           rest = <<>> \/ rest[1] \in chars
    PROVE  Until(part \o rest, chars) = part
<1> DEFINE s == part \o rest
           m == Len(part)
<1>1. /\ s \in Seq(C) /\ Len(s) = m + Len(rest) /\ SubSeq(s, 1, m) = part
      /\ \A i \in 1 .. m : s[i] = part[i]
      /\ \A i \in 1 .. Len(rest) : s[m + i] = rest[i]
  BY TwoParts
<1>2. m \in Nat /\ Len(rest) \in Nat /\ (rest = <<>> <=> Len(rest) = 0)
  OBVIOUS
<1> HIDE DEF s
<1>3. m \in 0 .. Len(s) /\ \A i \in 1 .. m : s[i] \notin chars
  BY <1>1, <1>2
<1>4. m < Len(s) => s[m + 1] \in chars
  <2>1. ASSUME m < Len(s)
        PROVE  s[m + 1] \in chars
    <3>1. Len(rest) # 0 /\ 1 \in 1 .. Len(rest)
      BY <1>1, <1>2, <2>1
    <3>2. QED
      BY <1>1, <1>2, <3>1
  <2>2. QED
    BY <2>1
<1>5. Until(s, chars) = SubSeq(s, 1, m)
  BY <1>1, <1>3, <1>4, UntilIsThat
<1>6. QED
  BY <1>1, <1>5 DEF s

(* find of a character that the first part has not.                        *)
LEMMA FirstOf ==
    ASSUME NEW C, NEW a \in Seq(C), NEW c \in C, NEW b \in Seq(C), NEW s, Joined(s, a, c, b),
           \A i \in 1 .. Len(a) : a[i] # c
    PROVE  /\ find(s, <<c>>) = Len(a) + 1 /\ SubSeq(s, 1, find(s, <<c>>) - 1) = a
           /\ From(s, find(s, <<c>>) + 1) = b
<1> DEFINE m == Len(a)
           f == find(s, <<c>>)
           n == Len(s)
<1>1. /\ s \in Seq(C) /\ n = m + 1 + Len(b) /\ s[m + 1] = c
      /\ \A i \in 1 .. m : s[i] = a[i]
      /\ SubSeq(s, 1, m) = a /\ SubSeq(s, m + 2, n) = b
  BY Concatenated
<1>2. m \in Nat /\ Len(b) \in Nat /\ n \in Nat
  BY <1>1
<1>3. /\ f \in 0 .. n
      /\ f = 0 => \A i \in 1 .. n : s[i] # c
      /\ f # 0 => s[f] = c /\ \A i \in 1 .. f - 1 : s[i] # c
  BY <1>1, FindOne
<1> HIDE DEF f
<1>4. f = m + 1
  <2>1. m + 1 \in 1 .. n
    BY <1>1, <1>2
  <2>2. f # 0
    BY <1>1, <1>3, <2>1
  <2>3. ~ (f < m + 1)
    <3>1. f < m + 1 => f \in 1 .. m
      BY <1>2, <1>3, <2>2
    <3>2. QED
      BY <1>1, <1>3, <2>2, <3>1
  <2>4. ~ (m + 1 < f)
    <3>1. m + 1 < f => m + 1 \in 1 .. f - 1
      BY <1>2, <1>3
    <3>2. QED
      BY <1>1, <1>3, <2>2, <3>1
  <2>5. QED
    BY <1>2, <1>3, <2>3, <2>4
<1>5. f - 1 = m /\ f + 1 = m + 2
  BY <1>2, <1>4
<1>6. QED
  BY <1>1, <1>4, <1>5 DEF f, From

(* What ends a variable's name.                                            *)
Stops == Blank \cup {"."}

(* What variable_of and variable_of_2 take of a line.                      *)
NameIn(s) == Until(SubSeq(s, 1, find(s, <<"=">>) - 1), Stops)
GapIn(s) == erase(SubSeq(s, 1, find(s, <<"=">>) - 1), Len(NameIn(s)))
ValueIn(s) == Until(From(s, find(s, <<"=">>) + 1), {Semicolon})

(* A line is a variable's, by the grammar, if its parts are these.         *)
LEMMA VariableLineIs ==
    ASSUME NEW C, Marks \subseteq C, NEW s \in Seq(C), NEW name \in Seq(C), NEW value \in Seq(C)
    PROVE  IsVariableLine(s, name, value) <=>
              /\ s # <<>> /\ s[1] \notin {Semicolon, "["}
              /\ find(s, <<"=">>) # 0 /\ name # <<>>
              /\ name = NameIn(s) /\ ToSet(GapIn(s)) \subseteq Blank /\ value = ValueIn(s)
<1> DEFINE Plainly == /\ name # <<>> /\ name[1] \notin {Semicolon, "["}
                      /\ ~ HasAnyOf(name, Blank \cup {".", "="}) /\ ~ HasAnyOf(value, {Semicolon})
           Around(gap, rest) == /\ s = name \o gap \o <<"=">> \o value \o rest
                                /\ ToSet(gap) \subseteq Blank
                                /\ rest = <<>> \/ rest[1] = Semicolon
           end == find(s, <<"=">>)
<1>1. IsVariableLine(s, name, value) <=>
         /\ Plainly
         /\ \E rest \in Suffixes(s) : \E gap \in Prefixes(erase(s, Len(name))) : Around(gap, rest)
  BY Zenon DEF IsVariableLine, Semicolon
<1>2. "=" \in C /\ "=" \notin Blank \cup {"."} /\ Len(name) \in Nat
  BY DEF Marks, Blank
<1>3. /\ HasAnyOf(name, Blank \cup {".", "="}) <=> \E i \in 1 .. Len(name) : name[i] \in Stops \/ name[i] = "="
      /\ HasAnyOf(value, {Semicolon}) <=> \E i \in 1 .. Len(value) : value[i] = Semicolon
  <2>1. Blank \cup {".", "="} = Stops \cup {"="}
    BY DEF Stops
  <2> HIDE DEF Stops
  <2>2. HasAnyOf(name, Stops \cup {"="}) <=> \E i \in 1 .. Len(name) : name[i] \in Stops \cup {"="}
    BY HasOne
  <2>3. HasAnyOf(value, {Semicolon}) <=> \E i \in 1 .. Len(value) : value[i] \in {Semicolon}
    BY HasOne
  <2>4. QED
    BY <2>1, <2>2, <2>3
<1>4. ASSUME Plainly, NEW gap \in Seq(C), NEW rest \in Seq(C), Around(gap, rest)
      PROVE  /\ s # <<>> /\ s[1] \notin {Semicolon, "["} /\ end # 0
             /\ name = NameIn(s) /\ ToSet(GapIn(s)) \subseteq Blank /\ value = ValueIn(s)
  <2> DEFINE before == name \o gap
             after == value \o rest
  <2>1. before \in Seq(C) /\ after \in Seq(C)
    OBVIOUS
  <2>2. Joined(s, before, "=", after)
    <3> DEFINE front == before \o <<"=">>
    <3>1. front \in Seq(C) /\ s = (front \o value) \o rest
      BY <1>2, <1>4
    <3> HIDE DEF front
    <3>a. front \in Seq(C) /\ value \in Seq(C) /\ rest \in Seq(C)
      BY <3>1
    <3>2. (front \o value) \o rest = front \o (value \o rest)
      BY <3>a, ConcatAssociative, SMTT(30)
    <3>3. s = front \o after
      BY <3>1, <3>2, Zenon
    <3>4. QED
      BY <3>3 DEF front, Joined
  <2>3. \A i \in 1 .. Len(gap) : gap[i] \in Blank
    BY <1>4, HasOne
  <2>4. /\ \A i \in 1 .. Len(name) : name[i] \notin Stops /\ name[i] # "="
        /\ \A i \in 1 .. Len(value) : value[i] \notin {Semicolon}
    BY <1>3, <1>4
  <2>5. /\ Len(before) = Len(name) + Len(gap)
        /\ \A i \in 1 .. Len(name) : before[i] = name[i]
        /\ \A i \in 1 .. Len(gap) : before[Len(name) + i] = gap[i]
    BY TwoParts
  <2>6. \A i \in 1 .. Len(before) : before[i] # "="
    <3>1. ASSUME NEW i \in 1 .. Len(before)
          PROVE  before[i] # "="
      <4>1. Len(gap) \in Nat
        OBVIOUS
      <4> HIDE DEF before
      <4>2. i \in 1 .. Len(name) \/ (i - Len(name) \in 1 .. Len(gap) /\ Len(name) + (i - Len(name)) = i)
        BY <1>2, <2>5, <4>1
      <4>3. CASE i \in 1 .. Len(name)
        BY <2>4, <2>5, <4>3
      <4>4. CASE i - Len(name) \in 1 .. Len(gap) /\ Len(name) + (i - Len(name)) = i
        <5>1. before[i] \in Blank
          BY <2>3, <2>5, <4>4
        <5>2. QED
          BY <1>2, <5>1
      <4>5. QED
        BY <4>2, <4>3, <4>4
    <3>2. QED
      BY <3>1
  <2>7. Until(before, Stops) = name /\ erase(before, Len(name)) = gap
    <3>1. gap = <<>> \/ gap[1] \in Stops
      <4>1. ASSUME gap # <<>>
            PROVE  gap[1] \in Stops
        <5>1. 1 \in 1 .. Len(gap)
          BY <4>1
        <5>2. QED
          BY <2>3, <5>1 DEF Stops
      <4>2. QED
        BY <4>1
    <3>2. QED
      BY <2>4, <3>1, UntilOfTwo, PartOfWhole
  <2>8. Until(after, {Semicolon}) = value
    <3>1. rest = <<>> \/ rest[1] \in {Semicolon}
      BY <1>4
    <3>2. QED
      BY <2>4, <3>1, UntilOfTwo
  <2>9. Len(before) \in Nat /\ before # <<>> /\ before[1] = name[1]
    <3>1. Len(name) # 0 /\ Len(gap) \in Nat /\ 1 \in 1 .. Len(name)
      BY <1>2, <1>4
    <3> HIDE DEF before
    <3>2. Len(before) # 0
      BY <1>2, <2>5, <3>1
    <3>3. before # <<>>
      BY <3>2
    <3>4. QED
      BY <1>2, <2>5, <3>1, <3>3
  <2> HIDE DEF before, after
  <2>10. end = Len(before) + 1 /\ SubSeq(s, 1, end - 1) = before /\ From(s, end + 1) = after
    <3>1. /\ find(s, <<"=">>) = Len(before) + 1 /\ SubSeq(s, 1, find(s, <<"=">>) - 1) = before
          /\ From(s, find(s, <<"=">>) + 1) = after
      <4>1. "=" \in C /\ before \in Seq(C) /\ after \in Seq(C)
        BY <1>2, <2>1
      <4>2. QED
        BY <2>2, <2>6, <4>1, FirstOf, SMTT(30)
    <3>2. QED
      BY <3>1
  <2>11. s # <<>> /\ s[1] = name[1]
    <3>1. /\ Len(s) = Len(before) + 1 + Len(after)
          /\ \A i \in 1 .. Len(before) : s[i] = before[i]
      BY <1>2, <2>1, <2>2, Concatenated
    <3>2. Len(before) # 0 /\ 1 \in 1 .. Len(before)
      BY <2>1, <2>9
    <3>3. s[1] = before[1]
      BY <3>1, <3>2
    <3>4. Len(s) # 0
      BY <2>1, <2>9, <3>1
    <3>5. QED
      BY <2>9, <3>3, <3>4
  <2>12. end # 0
    BY <2>9, <2>10
  <2>13. NameIn(s) = name /\ GapIn(s) = gap /\ ValueIn(s) = value
    BY <2>7, <2>8, <2>10 DEF NameIn, GapIn, ValueIn
  <2>14. QED
    BY <1>4, <2>11, <2>12, <2>13
<1>5. ASSUME s # <<>>, s[1] \notin {Semicolon, "["}, end # 0, name # <<>>,
             name = NameIn(s), ToSet(GapIn(s)) \subseteq Blank, value = ValueIn(s)
      PROVE  /\ Plainly
             /\ \E rest \in Suffixes(s) : \E gap \in Prefixes(erase(s, Len(name))) : Around(gap, rest)
  <2> DEFINE before == SubSeq(s, 1, end - 1)
             after == From(s, end + 1)
             gap == GapIn(s)
             rest == erase(after, Len(value))
  <2>1. /\ end \in 1 .. Len(s) /\ s[end] = "=" /\ \A i \in 1 .. end - 1 : s[i] # "="
    <3>1. /\ end \in 0 .. Len(s)
          /\ end # 0 => s[end] = "=" /\ \A i \in 1 .. end - 1 : s[i] # "="
      BY <1>2, FindOne
    <3> HIDE DEF end
    <3>2. QED
      BY <1>5, <3>1
  <2>a. NameIn(s) = Until(before, Stops) /\ GapIn(s) = erase(before, Len(Until(before, Stops))) /\ ValueIn(s) = Until(after, {Semicolon})
    BY DEF NameIn, GapIn, ValueIn
  <2> HIDE DEF end
  <2>2. /\ before \in Seq(C) /\ Len(before) = end - 1 /\ \A i \in 1 .. end - 1 : before[i] = s[i]
        /\ after \in Seq(C)
    <3>1. end - 1 \in 0 .. Len(s) /\ end \in 0 .. Len(s)
      BY <2>1
    <3>2. after \in Seq(C)
      BY <3>1, SuffixIs DEF From
    <3>3. QED
      BY <3>1, <3>2, PrefixIs
  <2>3. s = before \o <<"=">> \o after
    BY <2>1, Split DEF From
  <2> HIDE DEF before, after
  <2>4. /\ gap \in Seq(C) /\ before = name \o gap
        /\ \A i \in 1 .. Len(name) : name[i] \notin Stops
    <3> DEFINE part == Until(before, Stops)
    <3> HIDE DEF Stops
    <3>1. /\ erase(before, Len(part)) \in Seq(C) /\ before = part \o erase(before, Len(part))
          /\ \A i \in 1 .. Len(part) : part[i] \notin Stops
      BY <2>2, UntilSplits
    <3>2. part = name /\ erase(before, Len(part)) = gap
      BY <1>5, <2>a
    <3> HIDE DEF part, gap
    <3>3. QED
      BY <3>1, <3>2
  <2>5. /\ rest \in Seq(C) /\ after = value \o rest
        /\ \A i \in 1 .. Len(value) : value[i] \notin {Semicolon}
        /\ rest = <<>> \/ rest[1] \in {Semicolon}
    <3> DEFINE part == Until(after, {Semicolon})
               left == erase(after, Len(part))
    <3>1. /\ left \in Seq(C) /\ after = part \o left
          /\ \A i \in 1 .. Len(part) : part[i] \notin {Semicolon}
          /\ left = <<>> \/ left[1] \in {Semicolon}
      BY <2>2, UntilSplits, Zenon
    <3>2. part = value
      BY <1>5, <2>a
    <3> HIDE DEF part
    <3>3. left = rest
      BY <3>2
    <3> HIDE DEF left, rest
    <3>4. QED
      BY <3>1, <3>2, <3>3
  <2> HIDE DEF gap, rest
  <2>6. /\ Len(before) = Len(name) + Len(gap) /\ \A i \in 1 .. Len(name) : before[i] = name[i]
    BY <2>4, TwoParts
  <2>7. Len(gap) \in Nat /\ Len(name) # 0 /\ 1 \in 1 .. Len(name) /\ \A i \in 1 .. Len(name) : i \in 1 .. end - 1
    <3>1. Len(gap) \in Nat /\ Len(name) # 0
      BY <1>5, <2>4
    <3>2. QED
      BY <1>2, <2>1, <2>2, <2>6, <3>1
  <2>8. \A i \in 1 .. Len(name) : name[i] = s[i] /\ name[i] # "="
    BY <2>1, <2>2, <2>6, <2>7
  <2>9. Plainly
    BY <1>3, <1>5, <2>4, <2>5, <2>7, <2>8
  <2>10. s = name \o gap \o <<"=">> \o value \o rest
    <3> DEFINE front == before \o <<"=">>
    <3>1. front \in Seq(C) /\ s = front \o (value \o rest)
      BY <1>2, <2>2, <2>3, <2>5
    <3> HIDE DEF front
    <3>a. front \in Seq(C) /\ value \in Seq(C) /\ rest \in Seq(C)
      BY <2>5, <3>1
    <3>2. (front \o value) \o rest = front \o (value \o rest)
      BY <3>a, ConcatAssociative, SMTT(30)
    <3>3. s = (front \o value) \o rest
      BY <3>1, <3>2, Zenon
    <3>4. QED
      BY <2>4, <3>3 DEF front
  <2>11. gap \in Prefixes(erase(s, Len(name)))
    <3> DEFINE z == <<"=">> \o after
    <3>1. z \in Seq(C) /\ <<"=">> \in Seq(C)
      BY <1>2, <2>2
    <3>2. s = (name \o gap) \o z
      BY <2>2, <2>3, <2>4, <3>1, ConcatAssociative
    <3> HIDE DEF z
    <3>3. s = name \o (gap \o z) /\ gap \o z \in Seq(C)
      BY <2>4, <3>1, <3>2, ConcatAssociative
    <3>4. erase(s, Len(name)) = gap \o z
      BY <3>3, PartOfWhole
    <3>5. QED
      BY <2>4, <3>1, <3>4, PartOfWhole
  <2>12. rest \in Suffixes(s)
    <3> DEFINE z == name \o gap \o <<"=">> \o value
    <3>1. z \in Seq(C) /\ s = z \o rest
      BY <1>2, <2>4, <2>10
    <3> HIDE DEF z
    <3>2. QED
      BY <2>5, <3>1, PartOfWhole
  <2>13. ToSet(gap) \subseteq Blank /\ (rest = <<>> \/ rest[1] = Semicolon)
    BY <1>5, <2>5 DEF gap
  <2>14. Around(gap, rest)
    BY <2>10, <2>13
  <2>15. QED
    BY <2>9, <2>11, <2>12, <2>14
<1>6. ASSUME Plainly, NEW rest \in Suffixes(s), NEW gap \in Prefixes(erase(s, Len(name))), Around(gap, rest)
      PROVE  /\ s # <<>> /\ s[1] \notin {Semicolon, "["} /\ end # 0 /\ name # <<>>
             /\ name = NameIn(s) /\ ToSet(GapIn(s)) \subseteq Blank /\ value = ValueIn(s)
  <2>1. gap \in Seq(C) /\ rest \in Seq(C)
    BY <1>2, <1>6, PrefixesOf
  <2> HIDE DEF end, Around
  <2>2. QED
    BY <1>4, <1>6, <2>1
<1> HIDE DEF Plainly, Around
<1>7. QED
  BY <1>1, <1>5, <1>6

-------------------------------------------------------------------------------
(* Lines.                                                                  *)

(* What the spider's research_string makes of any line.                    *)
LEMMA ReadingOf ==
    ASSUME NEW C, Marks \subseteq C, NEW s \in Seq(C)
    PROVE  LET read == research_string(s)
           IN /\ \A name \in Seq(C) : read = Section(name) <=>
                    s # <<>> /\ s[1] = "[" /\ \E e : Closes(s, e) /\ name = SubSeq(s, 2, e - 1)
              /\ \A name, value : read = Variable(name, value) <=>
                    /\ s # <<>> /\ s[1] \notin {Semicolon, "["}
                    /\ find(s, <<"=">>) # 0 /\ name # <<>>
                    /\ name = NameIn(s) /\ ToSet(GapIn(s)) \subseteq Blank /\ value = ValueIn(s)
              /\ read.type = "_empty_" <=> s = <<>> \/ s[1] = Semicolon
<1> DEFINE read == research_string(s)
<1>1. Semicolon # "["
  BY SemicolonIsOther
<1>2. read = IF s = <<>> \/ s[1] = Semicolon THEN Empty
             ELSE IF s[1] = "[" THEN section_of(s) ELSE variable_of(s)
  BY ResearchCases
<1>3. /\ Empty.type = "_empty_" /\ Invalid.type = "_invalid_"
      /\ \A name : Section(name).type = "_section_" /\ Section(name).name = name
      /\ \A name, value : /\ Variable(name, value).type = "_variable_"
                          /\ Variable(name, value).name = name /\ Variable(name, value).value = value
  BY DEF Empty, Invalid, Section, Variable
<1>4. variable_of(s) = IF find(s, <<"=">>) = 0 \/ NameIn(s) = <<>> \/ ~ ToSet(GapIn(s)) \subseteq Blank
                       THEN Invalid ELSE Variable(NameIn(s), ValueIn(s))
  BY ResearchCases DEF NameIn, GapIn, ValueIn, Stops
<1> HIDE DEF read
<1>5. CASE s = <<>> \/ s[1] = Semicolon
  <2>1. read = Empty
    BY <1>2, <1>5
  <2>2. /\ \A name : read # Section(name)
        /\ \A name, value : read # Variable(name, value)
        /\ read.type = "_empty_"
    BY <1>3, <2>1
  <2>3. QED
    BY <1>1, <1>5, <2>2 DEF read
<1>6. CASE s # <<>> /\ s[1] = "["
  <2>1. read = section_of(s)
    BY <1>1, <1>2, <1>6
  <2>2. /\ section_of(s) # Invalid =>
              \E e : Closes(s, e) /\ section_of(s) = Section(SubSeq(s, 2, e - 1))
        /\ \A e : Closes(s, e) => section_of(s) = Section(SubSeq(s, 2, e - 1))
    BY <1>6, SectionOf
  <2>3. /\ \A name, value : read # Variable(name, value)
        /\ read.type # "_empty_"
    BY <1>3, <2>1, <2>2
  <2>4. \A name : read = Section(name) <=> \E e : Closes(s, e) /\ name = SubSeq(s, 2, e - 1)
    <3>1. \A name : Section(name) # Invalid
      BY <1>3
    <3>2. \A a, b : Section(a) = Section(b) => a = b
      BY <1>3
    <3>3. ASSUME NEW name, read = Section(name)
          PROVE  \E e : Closes(s, e) /\ name = SubSeq(s, 2, e - 1)
      <4>1. section_of(s) # Invalid
        BY <2>1, <3>1, <3>3
      <4>2. PICK e : Closes(s, e) /\ section_of(s) = Section(SubSeq(s, 2, e - 1))
        BY <2>2, <4>1
      <4>3. name = SubSeq(s, 2, e - 1)
        BY <2>1, <3>2, <3>3, <4>2
      <4>4. QED
        BY <4>2, <4>3
    <3>4. QED
      BY <2>1, <2>2, <3>3
  <2>5. QED
    BY <1>1, <1>6, <2>3, <2>4 DEF read
<1>7. CASE s # <<>> /\ s[1] \notin {Semicolon, "["}
  <2>1. read = variable_of(s)
    BY <1>2, <1>7
  <2>2. /\ \A name : read # Section(name)
        /\ read.type # "_empty_"
    BY <1>3, <1>4, <2>1
  <2>3. ASSUME NEW name, NEW value
        PROVE  read = Variable(name, value) <=>
                  /\ find(s, <<"=">>) # 0 /\ name # <<>>
                  /\ name = NameIn(s) /\ ToSet(GapIn(s)) \subseteq Blank /\ value = ValueIn(s)
    <3>1. Variable(name, value) # Invalid
      BY <1>3
    <3>2. Variable(name, value) = Variable(NameIn(s), ValueIn(s)) <=> name = NameIn(s) /\ value = ValueIn(s)
      BY <1>3
    <3>3. QED
      BY <1>4, <2>1, <3>1, <3>2
  <2>4. QED
    BY <1>7, <2>2, <2>3 DEF read
<1>8. QED
  BY <1>5, <1>6, <1>7

(* The property of MCText for any alphabet: what the spider's parser makes *)
(* of a line is what the grammar of ini files says of it, and every other  *)
(* line is invalid or empty.                                               *)
THEOREM LinesOf ==
    ASSUME NEW C, Marks \subseteq C, NEW str \in Seq(C)
    PROVE  LinesAreRead(str)
<1> DEFINE s == delete_spaces(str)
           read == research_string(s)
<1>1. s \in Seq(C)
  BY SkipType
<1>2. LinesAreRead(str) <=>
         /\ \A part \in SubSeqs(s) :
               /\ IsSectionLine(s, part) <=> read = Section(part)
               /\ \A value \in SubSeqs(s) : IsVariableLine(s, part, value) <=> read = Variable(part, value)
         /\ read.type = "_empty_" <=> s = <<>> \/ s[1] = Semicolon
  BY Zenon DEF LinesAreRead, Semicolon
<1> HIDE DEF s
<1>3. /\ \A name \in Seq(C) : read = Section(name) <=>
            s # <<>> /\ s[1] = "[" /\ \E e : Closes(s, e) /\ name = SubSeq(s, 2, e - 1)
      /\ \A name, value : read = Variable(name, value) <=>
            /\ s # <<>> /\ s[1] \notin {Semicolon, "["}
            /\ find(s, <<"=">>) # 0 /\ name # <<>>
            /\ name = NameIn(s) /\ ToSet(GapIn(s)) \subseteq Blank /\ value = ValueIn(s)
      /\ read.type = "_empty_" <=> s = <<>> \/ s[1] = Semicolon
  BY <1>1, ReadingOf
<1> HIDE DEF read
<1>4. ASSUME NEW part \in SubSeqs(s)
      PROVE  IsSectionLine(s, part) <=> read = Section(part)
  <2>1. part \in Seq(C)
    BY <1>1, PartsOf
  <2>2. IsSectionLine(s, part) <=>
           s # <<>> /\ s[1] = "[" /\ \E e : Closes(s, e) /\ part = SubSeq(s, 2, e - 1)
    BY <1>1, <2>1, SectionLineIs
  <2>3. QED
    BY <1>3, <2>1, <2>2
<1>5. ASSUME NEW part \in SubSeqs(s), NEW value \in SubSeqs(s)
      PROVE  IsVariableLine(s, part, value) <=> read = Variable(part, value)
  <2>1. part \in Seq(C) /\ value \in Seq(C)
    BY <1>1, PartsOf
  <2>2. IsVariableLine(s, part, value) <=>
           /\ s # <<>> /\ s[1] \notin {Semicolon, "["}
           /\ find(s, <<"=">>) # 0 /\ part # <<>>
           /\ part = NameIn(s) /\ ToSet(GapIn(s)) \subseteq Blank /\ value = ValueIn(s)
    BY <1>1, <2>1, VariableLineIs
  <2>3. QED
    BY <1>3, <2>2
<1>6. QED
  BY <1>2, <1>3, <1>4, <1>5
===============================================================================
