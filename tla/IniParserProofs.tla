--------------------------- MODULE IniParserProofs --------------------------
(***************************************************************************)
(* Without an assignment, the objects of ini_parser never share, lose or   *)
(* doubly free their stores, and one's values are out of reach of the      *)
(* others, for any number of objects, stores, files and lines.  What       *)
(* fill_parser makes of a file plays no part in this: only that it writes  *)
(* into the store of its own object.                                       *)
(*                                                                         *)
(* The second part is about what it makes of a file: by induction over its *)
(* lines, that section numbers stay indices of the variables (Sound), and  *)
(* that the maps hold what the lines so far say (Reached).  The third part *)
(* carries that from one step of the class to the next (Remembers).        *)
(***************************************************************************)
EXTENDS IniParser, Induction, FiniteSetTheorems

(* What the steps need to know of the fields they change.                  *)
Shape ==
    /\ parser = [o \in Object |-> parser[o]]
    /\ \A o \in Object : {"alive", "store"} \subseteq DOMAIN parser[o]
    /\ \A o \in Object : parser[o].store \in Stores \cup {Null, Dangling}
    /\ heap = [s \in Stores |-> heap[s]]
    /\ \A s \in Stores : heap[s].live \in BOOLEAN
    /\ assigned \in BOOLEAN

OwnersAreSole ==
    /\ \A o \in Object : parser[o].store # Dangling /\ (Owns(o) => parser[o].alive)
    /\ \A o, other \in Object : Owns(o) /\ parser[o].store = parser[other].store => o = other
    /\ \A s \in Stores : heap[s].live <=> \E o \in Object : parser[o].store = s

Inv == Shape /\ (~ assigned => status # "corrupt" /\ OwnersAreSole)

(* Null and Dangling are no stores: the numbers of these begin at 1.       *)
LEMMA NoStore == Null \notin Stores /\ Dangling \notin Stores /\ Null # Dangling
  BY IniAssumption DEF Null, Dangling, Stores

LEMMA InitInv == Init => Inv
  <1> SUFFICES ASSUME Init PROVE Inv
    OBVIOUS
  <1>1. NoParser.store = Null /\ DOMAIN NoParser = DOMAIN Constructed(Null)
    BY DEF NoParser, Constructed
  <1>2. {"alive", "store"} \subseteq DOMAIN Constructed(Null)
    BY DEF Constructed
  <1>3. Shape
    BY <1>1, <1>2, NoStore DEF Init, Shape, Free
  <1>4. OwnersAreSole
    BY <1>1, NoStore DEF Init, OwnersAreSole, Owns, Free
  <1> QED
    BY <1>3, <1>4 DEF Init, Inv

(* A step that follows a lost pointer changes the status only, and without *)
(* an assignment no pointer dangles.                                       *)
LEMMA BreakInv ==
    ASSUME Inv, NEW o \in Object, Break(o), UNCHANGED assigned
    PROVE  Inv'
  <1>1. Shape'
    BY DEF Inv, Shape, Break, Stores
  <1>2. ~ assigned => status' # "corrupt" /\ OwnersAreSole'
    <2> SUFFICES ASSUME ~ assigned PROVE status' # "corrupt" /\ OwnersAreSole'
      OBVIOUS
    <2>1. OwnersAreSole /\ parser[o].store = Null
      BY DEF Inv, Shape, OwnersAreSole, Break, Owns
    <2>2. OwnersAreSole'
      BY <2>1 DEF OwnersAreSole, Break, Owns
    <2> QED
      BY <2>1, <2>2 DEF Break
  <1> QED
    BY <1>1, <1>2 DEF Inv

LEMMA ConstructInv ==
    ASSUME Inv, NEW o \in Object, construct(o)
    PROVE  Inv'
  <1>1. PICK s \in Stores :
             /\ ~ heap[s].live
             /\ heap' = [heap EXCEPT ![s] = Created]
             /\ parser' = [parser EXCEPT ![o] = Constructed(s)]
    BY DEF construct
  <1>2. /\ {"alive", "store"} \subseteq DOMAIN Constructed(s)
        /\ Constructed(s).alive /\ Constructed(s).store = s
        /\ Created.live = TRUE
    BY DEF Constructed, Created, Free
  <1>3. Shape'
    BY <1>1, <1>2 DEF Inv, Shape, construct, Stores
  <1>4. ~ assigned' => status' # "corrupt" /\ OwnersAreSole'
    BY <1>1, <1>2, NoStore DEF Inv, Shape, OwnersAreSole, Owns, construct
  <1> QED
    BY <1>3, <1>4 DEF Inv

LEMMA CopyInv ==
    ASSUME Inv, NEW o \in Object, NEW other \in Object, copy_construct(o, other)
    PROVE  Inv'
  <1>1. CASE Owns(other) /\ status' = status
    <2>1. PICK s \in Stores :
               /\ ~ heap[s].live
               /\ heap' = [heap EXCEPT ![s] = heap[parser[other].store]]
               /\ parser' = [parser EXCEPT ![o] = [parser[other] EXCEPT !.store = s]]
      BY <1>1 DEF copy_construct, Break
    <2>2. /\ fills' = [fills EXCEPT ![o] = fills[other]]
          /\ UNCHANGED assigned
      BY <1>1 DEF copy_construct, Break
    <2>3. Shape'
      BY <1>1, <2>1, <2>2 DEF Inv, Shape, Owns
    <2>4. ~ assigned' => status' # "corrupt" /\ OwnersAreSole'
      BY <1>1, <2>1, <2>2, NoStore DEF Inv, Shape, OwnersAreSole, Owns, copy_construct
    <2> QED
      BY <2>3, <2>4 DEF Inv
  <1>2. CASE Break(other)
    BY <1>2, BreakInv DEF copy_construct
  <1> QED
    BY <1>1, <1>2 DEF copy_construct

LEMMA MoveInv ==
    ASSUME Inv, NEW o \in Object, NEW other \in Object, move_construct(o, other)
    PROVE  Inv'
  <1>1. o # other
    BY DEF move_construct
  <1>2. Shape'
    BY <1>1, NoStore DEF Inv, Shape, move_construct
  <1>3. ~ assigned' => status' # "corrupt" /\ OwnersAreSole'
    <2> SUFFICES ASSUME ~ assigned PROVE status' # "corrupt" /\ OwnersAreSole'
      BY DEF move_construct
    <2>1. OwnersAreSole /\ status' # "corrupt" /\ heap' = heap /\ ~ Owns(o)
      BY DEF Inv, OwnersAreSole, move_construct
    <2>2. /\ parser'[o].store = parser[other].store /\ parser'[o].alive
          /\ parser'[other].store = Null
          /\ \A p \in Object \ {o, other} : parser'[p] = parser[p]
      BY <1>1 DEF Inv, Shape, move_construct
    <2>3. /\ \A p \in Object : parser'[p].store # Dangling /\ (parser'[p].store \in Stores => parser'[p].alive)
          /\ \A p, r \in Object : parser'[p].store \in Stores /\ parser'[p].store = parser'[r].store => p = r
      BY <1>1, <2>1, <2>2, NoStore DEF OwnersAreSole, Owns
    <2>4. \A s \in Stores : (\E p \in Object : parser[p].store = s) <=> \E p \in Object : parser'[p].store = s
      <3>1. \A s \in Stores, p \in Object :
               parser[p].store = s => parser'[IF p = other THEN o ELSE p].store = s
        BY <1>1, <2>1, <2>2 DEF Owns
      <3>2. \A s \in Stores, p \in Object :
               parser'[p].store = s => parser[IF p = o THEN other ELSE p].store = s
        BY <1>1, <2>2, NoStore
      <3> QED
        BY <3>1, <3>2
    <2> QED
      BY <2>1, <2>3, <2>4 DEF OwnersAreSole, Owns
  <1> QED
    BY <1>2, <1>3 DEF Inv

LEMMA DestroyInv ==
    ASSUME Inv, NEW o \in Object, destroy(o)
    PROVE  Inv'
  <1>1. NoParser.store = Null /\ {"alive", "store"} \subseteq DOMAIN NoParser
    BY DEF NoParser, Constructed
  <1>2. CASE parser[o].store # Dangling /\ status' = status
    <2>1. /\ heap' = [s \in Stores |-> IF s = parser[o].store THEN Free ELSE heap[s]]
          /\ parser' = [p \in Object |->
                IF p = o THEN NoParser
                ELSE IF parser[p].store = parser[o].store /\ Owns(o) THEN [parser[p] EXCEPT !.store = Dangling]
                ELSE parser[p]]
          /\ fills' = [fills EXCEPT ![o] = <<>>]
          /\ UNCHANGED assigned
      BY <1>2 DEF destroy
    <2>2. Shape'
      BY <1>1, <2>1, NoStore DEF Inv, Shape, Free
    <2>3. ASSUME ~ assigned PROVE OwnersAreSole'
      <3>1. OwnersAreSole
        BY <2>3 DEF Inv
      <3>2. parser' = [parser EXCEPT ![o] = NoParser]
        BY <2>1, <3>1 DEF OwnersAreSole, Inv, Shape
      <3> QED
        BY <1>1, <2>1, <3>1, <3>2, NoStore DEF Inv, Shape, OwnersAreSole, Owns, Free
    <2> QED
      BY <1>2, <2>1, <2>2, <2>3 DEF Inv
  <1>3. CASE Break(o)
    BY <1>3, BreakInv DEF destroy
  <1> QED
    BY <1>2, <1>3 DEF destroy

(* After an assignment only the shape is left.                             *)
LEMMA AssignInv ==
    ASSUME Inv, NEW o \in Object, NEW other \in Object,
           \/ copy_assign(o, other) \/ move_assign(o, other)
           \/ copy_assign_2(o, other) \/ move_assign_2(o, other)
    PROVE  Inv'
  <1>1. assigned' = TRUE
    BY DEF copy_assign, move_assign, copy_assign_2, move_assign_2
  <1>2. Shape'
    <2>1. CASE copy_assign(o, other)
      BY <1>1, <2>1 DEF Inv, Shape, copy_assign, Break
    <2>2. CASE move_assign(o, other)
      BY <1>1, <2>2 DEF Inv, Shape, move_assign
    <2>3. CASE move_assign_2(o, other)
      BY <1>1, <2>3 DEF Inv, Shape, move_assign_2, Break
    <2> QED
      BY <2>1, <2>2, <2>3 DEF copy_assign_2
  <1> QED
    BY <1>1, <1>2 DEF Inv

LEMMA FillInv ==
    ASSUME Inv, NEW o \in Object, NEW file \in File, fill_parser(o, file)
    PROVE  Inv'
  <1>1. CASE file \notin DOMAIN Lines
    <2>1. /\ parser' = [parser EXCEPT ![o].parser_invalid = TRUE]
          /\ fills' = [fills EXCEPT ![o] = Append(@, file)]
          /\ UNCHANGED <<heap, status, assigned>>
      BY <1>1 DEF fill_parser
    <2>2. \A p \in Object : /\ parser'[p].store = parser[p].store /\ parser'[p].alive = parser[p].alive
                            /\ DOMAIN parser'[p] = DOMAIN parser[p]
      BY <2>1 DEF Inv, Shape
    <2>3. Shape'
      BY <2>1, <2>2 DEF Inv, Shape
    <2>4. ~ assigned' => status' # "corrupt" /\ OwnersAreSole'
      BY <2>1, <2>2 DEF Inv, OwnersAreSole, Owns
    <2> QED
      BY <2>3, <2>4 DEF Inv
  <1>2. CASE file \in DOMAIN Lines /\ Owns(o)
    <2> DEFINE store == written(filled(o, Lines[file]))
               fields == noted(parser[o], filled(o, Lines[file]))
    <2>1. /\ heap' = [heap EXCEPT ![parser[o].store] = store]
          /\ parser' = [parser EXCEPT ![o] = fields]
          /\ fills' = [fills EXCEPT ![o] = Append(@, file)]
          /\ UNCHANGED <<status, assigned>>
      BY <1>2 DEF fill_parser, Break
    <2>2. store.live = TRUE
      BY DEF written
    <2>3. fields.store = parser[o].store /\ fields.alive = parser[o].alive /\ DOMAIN fields = DOMAIN parser[o]
      BY DEF Inv, Shape, noted
    <2> HIDE DEF store, fields
    <2>4. Shape'
      BY <1>2, <2>1, <2>2, <2>3 DEF Inv, Shape, Owns
    <2>5. ~ assigned' => status' # "corrupt" /\ OwnersAreSole'
      BY <1>2, <2>1, <2>2, <2>3 DEF Inv, Shape, OwnersAreSole, Owns
    <2> QED
      BY <2>4, <2>5 DEF Inv
  <1>3. CASE Break(o)
    BY <1>3, BreakInv DEF fill_parser
  <1> QED
    BY <1>1, <1>2, <1>3 DEF fill_parser

LEMMA NextInv == Inv /\ [Next]_vars => Inv'
  <1> SUFFICES ASSUME Inv, [Next]_vars PROVE Inv'
    OBVIOUS
  <1>1. CASE UNCHANGED vars
    BY <1>1 DEF vars, Inv, Shape, OwnersAreSole, Owns, Stores
  <1>2. CASE Next
    <2>1. PICK o \in Object, other \in Object :
               \/ construct(o) \/ destroy(o) \/ ask(o)
               \/ copy_construct(o, other) \/ move_construct(o, other)
               \/ copy_assign(o, other) \/ move_assign(o, other)
               \/ copy_assign_2(o, other) \/ move_assign_2(o, other)
               \/ \E file \in File : fill_parser(o, file)
      BY <1>2 DEF Next
    <2>2. CASE construct(o)
      BY <2>2, ConstructInv
    <2>3. CASE destroy(o)
      BY <2>3, DestroyInv
    <2>4. CASE ask(o)
      BY <2>4, BreakInv DEF ask
    <2>5. CASE copy_construct(o, other)
      BY <2>5, CopyInv
    <2>6. CASE move_construct(o, other)
      BY <2>6, MoveInv
    <2>7. CASE \/ copy_assign(o, other) \/ move_assign(o, other)
               \/ copy_assign_2(o, other) \/ move_assign_2(o, other)
      BY <2>7, AssignInv
    <2>8. CASE \E file \in File : fill_parser(o, file)
      BY <2>8, FillInv
    <2> QED
      BY <2>1, <2>2, <2>3, <2>4, <2>5, <2>6, <2>7, <2>8
  <1> QED
    BY <1>1, <1>2

(* The invariant, of every behaviour of the class.                         *)
THEOREM Invariance == Spec => []Inv
  BY InitInv, NextInv, PTL DEF Spec

(* Without an assignment each store has one owner, no pointer dangles,     *)
(* nothing leaks and nothing is deleted twice (ini_parser.cpp:6-76).       *)
THEOREM DamageTheorem == Spec => []DamageOnlyByAssignment
  <1>1. Inv => DamageOnlyByAssignment
    BY DEF Inv, OwnersAreSole, DamageOnlyByAssignment
  <1> QED
    BY <1>1, Invariance, PTL

(* The history is of files.                                                *)
FillsAreFiles == fills \in [Object -> Seq(File)]

LEMMA FillsStep == FillsAreFiles /\ [Next]_vars => FillsAreFiles'
  <1> SUFFICES ASSUME FillsAreFiles, [Next]_vars PROVE FillsAreFiles'
    OBVIOUS
  <1>1. <<>> \in Seq(File)
    OBVIOUS
  <1>2. \A o, other \in Object :
           /\ [fills EXCEPT ![o] = <<>>] \in [Object -> Seq(File)]
           /\ [fills EXCEPT ![o] = fills[other]] \in [Object -> Seq(File)]
           /\ [fills EXCEPT ![o] = fills[other], ![other] = <<>>] \in [Object -> Seq(File)]
    BY <1>1 DEF FillsAreFiles
  <1>3. \A o \in Object, file \in File : [fills EXCEPT ![o] = Append(fills[o], file)] \in [Object -> Seq(File)]
    BY DEF FillsAreFiles
  <1>4. CASE UNCHANGED fills
    BY <1>4 DEF FillsAreFiles
  <1>5. CASE Next
    <2>1. PICK o \in Object, other \in Object :
               \/ construct(o) \/ destroy(o) \/ ask(o)
               \/ copy_construct(o, other) \/ move_construct(o, other)
               \/ copy_assign(o, other) \/ move_assign(o, other)
               \/ copy_assign_2(o, other) \/ move_assign_2(o, other)
               \/ \E file \in File : fill_parser(o, file)
      BY <1>5 DEF Next
    <2>2. ASSUME NEW file \in File, fill_parser(o, file) PROVE FillsAreFiles'
      <3>1. UNCHANGED fills \/ fills' = [fills EXCEPT ![o] = Append(fills[o], file)]
        BY <2>2 DEF fill_parser, Break
      <3>2. CASE fills' = [fills EXCEPT ![o] = Append(fills[o], file)]
        BY <3>2, <1>3, Zenon DEF FillsAreFiles
      <3> QED
        BY <3>1, <3>2, <1>4
    <2>3. CASE construct(o) \/ destroy(o) \/ ask(o)
      BY <2>3, <1>2, <1>4, ZenonT(60) DEF construct, destroy, ask, Break, FillsAreFiles
    <2>4. CASE copy_construct(o, other) \/ move_construct(o, other)
      BY <2>4, <1>2, <1>4, ZenonT(60) DEF copy_construct, move_construct, Break, FillsAreFiles
    <2>5. CASE \/ copy_assign(o, other) \/ move_assign(o, other)
               \/ copy_assign_2(o, other) \/ move_assign_2(o, other)
      BY <2>5, <1>2, <1>4, ZenonT(60) DEF copy_assign, move_assign, copy_assign_2, move_assign_2, Break, FillsAreFiles
    <2> QED
      BY <2>1, <2>2, <2>3, <2>4, <2>5
  <1> QED
    BY <1>4, <1>5 DEF vars

(* What CopiesAreIndependent asks of a step, for one object.               *)
Untouched(o) ==
    /\ Intact(o) /\ ~ assigned'
    /\ parser'[o].alive /\ parser'[o].store \in Stores
    /\ fills'[o] = fills[o]
    => heap'[parser'[o].store] = heap[parser[o].store]

LEMMA StepTouchesItsOwn == Inv /\ FillsAreFiles /\ [Next]_vars => \A o \in Object : Untouched(o)
  <1> SUFFICES ASSUME Inv, FillsAreFiles, [Next]_vars, NEW o \in Object,
                      Intact(o), ~ assigned',
                      parser'[o].alive, parser'[o].store \in Stores,
                      fills'[o] = fills[o]
               PROVE  heap'[parser'[o].store] = heap[parser[o].store]
    BY DEF Untouched
  <1>1. /\ OwnersAreSole
        /\ parser[o].alive /\ parser[o].store \in Stores /\ heap[parser[o].store].live
        /\ parser = [p \in Object |-> parser[p]]
        /\ heap = [s \in Stores |-> heap[s]]
    BY DEF Inv, Shape, Intact, OwnersAreSole, Owns
  <1>2. ASSUME NEW p \in Object, Break(p)
        PROVE  heap'[parser'[o].store] = heap[parser[o].store]
    BY <1>2 DEF Break
  <1>3. CASE UNCHANGED vars
    BY <1>3 DEF vars
  <1>4. ASSUME NEW p \in Object, construct(p)
        PROVE  heap'[parser'[o].store] = heap[parser[o].store]
    <2>1. p # o
      BY <1>1, <1>4 DEF construct
    <2> QED
      BY <1>1, <1>4, <2>1 DEF construct
  <1>5. ASSUME NEW p \in Object, destroy(p)
        PROVE  heap'[parser'[o].store] = heap[parser[o].store]
    <2>1. CASE Break(p)
      BY <2>1, <1>2
    <2>2. CASE ~ Break(p)
      <3>1. /\ heap' = [s \in Stores |-> IF s = parser[p].store THEN Free ELSE heap[s]]
            /\ parser' = [r \in Object |->
                  IF r = p THEN NoParser
                  ELSE IF parser[r].store = parser[p].store /\ Owns(p) THEN [parser[r] EXCEPT !.store = Dangling]
                  ELSE parser[r]]
        BY <1>5, <2>2 DEF destroy
      <3>2. p # o
        BY <3>1 DEF NoParser, Constructed
      <3>3. parser[p].store # parser[o].store
        BY <1>1, <3>2 DEF OwnersAreSole, Owns
      <3> QED
        BY <1>1, <3>1, <3>2, <3>3
    <2> QED
      BY <2>1, <2>2
  <1>6. ASSUME NEW p \in Object, NEW other \in Object, copy_construct(p, other)
        PROVE  heap'[parser'[o].store] = heap[parser[o].store]
    <2>1. p # o
      BY <1>1, <1>6 DEF copy_construct
    <2>2. CASE Break(other)
      BY <2>2, <1>2
    <2>3. CASE ~ Break(other)
      BY <1>1, <1>6, <2>1, <2>3 DEF copy_construct
    <2> QED
      BY <2>2, <2>3
  <1>7. ASSUME NEW p \in Object, NEW other \in Object, move_construct(p, other)
        PROVE  heap'[parser'[o].store] = heap[parser[o].store]
    <2>1. p # o /\ heap' = heap
      BY <1>1, <1>7 DEF move_construct
    <2>2. o # other
      BY <1>7, <2>1, NoStore, <1>1 DEF move_construct, Inv, Shape
    <2> QED
      BY <1>1, <1>7, <2>1, <2>2 DEF move_construct
  <1>8. ASSUME NEW p \in Object, NEW file \in File, fill_parser(p, file)
        PROVE  heap'[parser'[o].store] = heap[parser[o].store]
    <2>1. CASE Break(p)
      BY <2>1, <1>2
    <2>2. CASE ~ Break(p)
      <3>1. fills' = [fills EXCEPT ![p] = Append(fills[p], file)]
        BY <1>8, <2>2 DEF fill_parser
      <3>2. p # o
        <4> SUFFICES ASSUME p = o PROVE FALSE
          OBVIOUS
        <4>1. fills[o] \in Seq(File) /\ fills'[o] = Append(fills[o], file)
          BY <3>1 DEF FillsAreFiles
        <4> QED
          BY <4>1
      <3>3. \/ UNCHANGED heap
            \/ heap' = [heap EXCEPT ![parser[p].store] = written(filled(p, Lines[file]))]
        BY <1>8, <2>2 DEF fill_parser
      <3>4. parser'[o] = parser[o]
        <4>1. \/ parser' = [parser EXCEPT ![p].parser_invalid = TRUE]
              \/ parser' = [parser EXCEPT ![p] = noted(parser[p], filled(p, Lines[file]))]
          BY <1>8, <2>2 DEF fill_parser
        <4> QED
          BY <4>1, <3>2, <1>1
      <3>5. parser[p].store # parser[o].store
        BY <1>1, <3>2 DEF OwnersAreSole, Owns
      <3> QED
        BY <1>1, <3>3, <3>4, <3>5
    <2> QED
      BY <2>1, <2>2
  <1>9. CASE Next
    <2>1. \A p, other \in Object :
             /\ ~ copy_assign(p, other) /\ ~ move_assign(p, other)
             /\ ~ copy_assign_2(p, other) /\ ~ move_assign_2(p, other)
      BY DEF copy_assign, move_assign, copy_assign_2, move_assign_2
    <2>2. \A p \in Object : ask(p) => Break(p)
      BY DEF ask
    <2> QED
      BY <1>9, <1>2, <1>4, <1>5, <1>6, <1>7, <1>8, <2>1, <2>2 DEF Next
  <1> QED
    BY <1>3, <1>9

(* An object's values change by its own fill_parser only                   *)
(* (ini_parser.cpp:26-47).                                                 *)
THEOREM IndependenceTheorem == Spec => CopiesAreIndependent
  <1>1. Inv /\ FillsAreFiles /\ [Next]_vars => [\A o \in Object : Untouched(o)]_vars
    BY StepTouchesItsOwn
  <1>2. Init => FillsAreFiles
    <2>1. <<>> \in Seq(File)
      OBVIOUS
    <2> QED
      BY <2>1 DEF Init, FillsAreFiles
  <1>3. Spec => [][\A o \in Object : Untouched(o)]_vars
    BY <1>1, <1>2, FillsStep, Invariance, PTL DEF Spec
  <1> QED
    BY <1>3 DEF Untouched, CopiesAreIndependent
-----------------------------------------------------------------------------

(* The functions from some of D to R.                                      *)
Maps(D, R) == UNION {[E -> R] : E \in SUBSET D}

Taken(base, lines) == FoldLeft(take_line, base, lines)

(* What the fill is before the first line, and after each line.            *)
Passes(r, A, base, lines) ==
    /\ r \in [0 .. Len(lines) -> A]
    /\ r[0] = base
    /\ \A k \in 0 .. Len(lines) - 1 : r[k + 1] = take_line(r[k], lines[k + 1])
    /\ Taken(base, lines) = r[Len(lines)]

(* The fold over the lines of a file has a value after each line.          *)
LEMMA LinesFold ==
    ASSUME NEW A, NEW L, NEW lines \in Seq(L), NEW base \in A,
           \A fill \in A, line \in L : take_line(fill, line) \in A
    PROVE  \E r : Passes(r, A, base, lines)
  <1> DEFINE n == Len(lines)
             F == [p \in A \X (1 .. n) |-> take_line(p[1], lines[p[2]])]
             Solves(g) == g = [s \in SUBSET (1 .. n) |->
                                   IF s = {} THEN base
                                   ELSE take_line(g[s \ {Max(s)}], lines[Max(s)])]
             iter == CHOOSE g : Solves(g)
  <1>1. n \in Nat /\ DOMAIN lines = 1 .. n /\ \A i \in 1 .. n : lines[i] \in L
    OBVIOUS
  <1>2. F \in [A \X (1 .. n) -> A]
    BY <1>1
  <1>3. \A fill \in A, i \in 1 .. n : F[<<fill, i>>] = take_line(fill, lines[i])
    OBVIOUS
  <1> HIDE DEF n, F
  <1>4. PICK g : Folds(g, A, base, n, F)
    BY <1>1, <1>2, FoldIterates
  <1>5. Solves(g)
    <2>1. ASSUME NEW s \in SUBSET (1 .. n), s # {}
          PROVE  F[<<g[s \ {Max(s)}], Max(s)>>] = take_line(g[s \ {Max(s)}], lines[Max(s)])
      <3>1. Max(s) \in 1 .. n
        BY <1>1, <2>1, MaxInRange
      <3>2. QED
        BY <1>3, <1>4, <3>1 DEF Folds
    <2>2. QED
      BY <1>4, <2>1 DEF Folds
  <1>6. Solves(iter)
    BY <1>5
  <1>7. Taken(base, lines) = iter[1 .. n]
    BY <1>1 DEF Taken, FoldLeft, MapThenFoldSet
  <1> DEFINE r == [k \in 0 .. n |-> iter[1 .. k]]
  <1>8. r[0] = base
    <2>1. 1 .. 0 = {} /\ {} \in SUBSET (1 .. n) /\ 0 \in 0 .. n
      BY <1>1
    <2>2. iter[{}] = base
      BY <1>6, <2>1
    <2> HIDE DEF iter
    <2>3. QED
      BY <2>1, <2>2
  <1>9. ASSUME NEW k \in 0 .. n - 1
        PROVE  r[k + 1] = take_line(r[k], lines[k + 1])
    <2>1. /\ k \in Nat /\ k \in 0 .. n /\ k + 1 \in 0 .. n
          /\ 1 .. k + 1 \in SUBSET (1 .. n)
          /\ k + 1 \in 1 .. k + 1
          /\ (1 .. k + 1) \ {k + 1} = 1 .. k
      BY <1>1
    <2>2. Max(1 .. k + 1) = k + 1
      BY <2>1, MaxOfRange
    <2>3. iter[1 .. k + 1] = take_line(iter[1 .. k], lines[k + 1])
      BY <1>6, <2>1, <2>2
    <2> HIDE DEF iter
    <2>4. QED
      BY <2>1, <2>3
  <1>10. Taken(base, lines) = r[n]
    <2>1. n \in 0 .. n
      BY <1>1
    <2> HIDE DEF iter
    <2>2. QED
      BY <1>7, <2>1
  <1>11. r \in [0 .. n -> A]
    <2> DEFINE S == {k \in 0 .. n : r[k] \in A}
    <2> HIDE DEF r
    <2>1. 0 \in S
      BY <1>1, <1>8
    <2>2. ASSUME NEW k \in 0 .. n - 1, k \in S
          PROVE  k + 1 \in S
      BY <1>1, <1>9, <2>2
    <2> HIDE DEF S
    <2>3. 0 .. n \subseteq S
      BY <1>1, <2>1, <2>2, RangeInduction
    <2>4. \A k \in 0 .. n : r[k] \in A
      BY <2>3 DEF S
    <2>5. QED
      BY <2>4 DEF r
  <1> HIDE DEF r
  <1>12. QED
    BY <1>8, <1>9, <1>10, <1>11 DEF n, Passes

(* What the lines of the files are read as, by either copy of the class.   *)
Reads == UNION {{research_string(delete_spaces(line)), research_string_2(delete_spaces_2(line))} :
                   line \in UNION {ToSet(Lines[file]) : file \in DOMAIN Lines}}
Names == {read.name : read \in Reads}
Values == {read.value : read \in Reads}

(* The maps of the class: std::map from names.                             *)
Numbers == Int
Tables == Seq(Maps(Names, Values))

Fill == [sections : Maps(Names, Numbers), variables : Tables, current_section_number : Int,
         incorrect_str_num : Nat, sections_count : Nat, lines_count : Nat, done : BOOLEAN]

(* Section numbers, kept or given next, are indices of the variables; of   *)
(* these there are at least so many as before.                             *)
Sound(fill, before) ==
    /\ fill \in Fill
    /\ \A name \in DOMAIN fill.sections : fill.sections[name] \in 0 .. Len(fill.variables) - 1
    /\ fill.current_section_number \in -1 .. Len(fill.variables) - 1
    /\ fill.sections_count =< Len(fill.variables)
    /\ before =< Len(fill.variables)

(* put adds one key, and changes no other.                                 *)
LEMMA PutInMap ==
    ASSUME NEW D, NEW R, NEW map \in Maps(D, R), NEW key \in D, NEW value \in R
    PROVE  /\ put(map, key, value) \in Maps(D, R)
           /\ DOMAIN put(map, key, value) = DOMAIN map \cup {key}
           /\ put(map, key, value)[key] = value
           /\ \A k \in DOMAIN map \ {key} : put(map, key, value)[k] = map[k]
  <1>1. PICK E \in SUBSET D : map \in [E -> R]
    BY DEF Maps
  <1>2. put(map, key, value) \in [E \cup {key} -> R]
    BY <1>1 DEF put
  <1>3. E \cup {key} \in SUBSET D
    OBVIOUS
  <1>4. put(map, key, value) \in Maps(D, R)
    BY <1>2, <1>3 DEF Maps
  <1>5. QED
    BY <1>1, <1>4 DEF put

LEMMA MapFacts ==
    ASSUME NEW D, NEW R, NEW map \in Maps(D, R)
    PROVE  DOMAIN map \subseteq D /\ \A k \in DOMAIN map : map[k] \in R
  BY DEF Maps

(* What a line does to a fill, one case for each kind of line.             *)
Counted(fill) == [fill EXCEPT !.lines_count = @ + 1]
Ended(fill) == [fill EXCEPT !.done = fill.incorrect_str_num # 0]

LEMMA TakeLineCases ==
    ASSUME NEW fill, NEW line
    PROVE  LET read == read_line(line)
               next == Counted(fill)
           IN take_line(fill, line) =
                 IF fill.done THEN fill
                 ELSE Ended(CASE read.type = "_section_" -> take_section(next, read.name)
                              [] read.type = "_variable_" -> take_variable(next, read.name, read.value)
                              [] read.type = "_invalid_" -> [next EXCEPT !.incorrect_str_num = next.lines_count]
                              [] OTHER -> next)
  BY DEF take_line, Counted, Ended

(* A section is numbered with an index of variables that exists from then  *)
(* on.                                                                     *)
LEMMA TakeSectionSound ==
    ASSUME NEW before \in Nat, NEW fill, Sound(fill, before), NEW name \in Names
    PROVE  Sound(take_section(fill, name), before)
  <1>0. fill \in Fill
    BY DEF Sound
  <1>1. CASE name \in DOMAIN fill.sections
    BY <1>0, <1>1 DEF Sound, take_section, Fill
  <1>2. CASE name \notin DOMAIN fill.sections
    <2> DEFINE new == take_section(fill, name)
               map == put(fill.sections, name, fill.sections_count)
               tables == Append(fill.variables, <<>>)
    <2>1. new = [fill EXCEPT !.sections = map, !.current_section_number = fill.sections_count,
                             !.sections_count = fill.sections_count + 1, !.variables = tables]
      BY <1>0, <1>2 DEF take_section, Fill
    <2>2. /\ map \in Maps(Names, Numbers)
          /\ DOMAIN map = DOMAIN fill.sections \cup {name}
          /\ map[name] = fill.sections_count
          /\ \A k \in DOMAIN fill.sections \ {name} : map[k] = fill.sections[k]
      <3> DEFINE old == fill.sections
                 count == fill.sections_count
      <3>1. old \in Maps(Names, Numbers) /\ count \in Numbers
        BY <1>0 DEF Fill, Numbers
      <3> HIDE DEF old, count
      <3>2. /\ put(old, name, count) \in Maps(Names, Numbers)
            /\ DOMAIN put(old, name, count) = DOMAIN old \cup {name}
            /\ put(old, name, count)[name] = count
            /\ \A k \in DOMAIN old \ {name} : put(old, name, count)[k] = old[k]
        BY <3>1, PutInMap
      <3>3. QED
        BY <3>2 DEF old, count
    <2>3. <<>> \in Maps(Names, Values)
      <3>1. <<>> \in [{} -> Values]
        OBVIOUS
      <3>2. QED
        BY <3>1 DEF Maps
    <2>4. tables \in Tables /\ Len(tables) = Len(fill.variables) + 1 /\ Len(fill.variables) \in Nat
      BY <1>0, <2>3 DEF Fill, Tables
    <2> HIDE DEF map, tables
    <2>5. /\ new \in Fill /\ new.sections = map /\ new.variables = tables
          /\ new.current_section_number = fill.sections_count
          /\ new.sections_count = fill.sections_count + 1
      <3>1. fill.sections_count \in Nat /\ map \in Maps(Names, Numbers) /\ tables \in Tables
        BY <1>0, <2>2, <2>4 DEF Fill
      <3>2. new = [sections |-> map, variables |-> tables,
                   current_section_number |-> fill.sections_count,
                   incorrect_str_num |-> fill.incorrect_str_num,
                   sections_count |-> fill.sections_count + 1,
                   lines_count |-> fill.lines_count, done |-> fill.done]
        BY <1>0, <2>1 DEF Fill
      <3>3. QED
        BY <1>0, <3>1, <3>2 DEF Fill
    <2> HIDE DEF new
    <2>6. \A k \in DOMAIN map : map[k] \in 0 .. Len(tables) - 1
      BY <1>0, <2>2, <2>4 DEF Sound, Fill
    <2>7. Sound(new, before)
      BY <1>0, <2>2, <2>4, <2>5, <2>6 DEF Sound, Fill
    <2>8. QED
      BY <2>7 DEF new
  <1>3. QED
    BY <1>1, <1>2

(* A variable is put in a map that exists, whether its section is new or   *)
(* old.                                                                    *)
LEMMA TakeVariableSound ==
    ASSUME NEW before \in Nat, NEW fill, Sound(fill, before), NEW name \in Names, NEW value \in Values
    PROVE  Sound(take_variable(fill, name, value), before)
  <1>0. fill \in Fill
    BY DEF Sound
  <1>1. CASE fill.current_section_number < 0
    BY <1>0, <1>1 DEF Sound, take_variable, Fill
  <1>2. CASE ~ fill.current_section_number < 0
    <2> DEFINE new == take_variable(fill, name, value)
               i == fill.current_section_number + 1
               tables == [fill.variables EXCEPT ![i] = put(fill.variables[i], name, value)]
    <2>1. new = [fill EXCEPT !.variables = tables]
      BY <1>0, <1>2 DEF take_variable, Fill
    <2>2. i \in DOMAIN fill.variables /\ fill.variables \in Tables
      BY <1>0, <1>2 DEF Sound, Fill, Tables
    <2>3. put(fill.variables[i], name, value) \in Maps(Names, Values)
      <3>1. fill.variables[i] \in Maps(Names, Values)
        BY <2>2 DEF Tables
      <3> HIDE DEF i
      <3>2. QED
        BY <3>1, PutInMap
    <2>4. tables \in Tables /\ Len(tables) = Len(fill.variables)
      BY <2>2, <2>3 DEF Tables
    <2> HIDE DEF tables, i
    <2>5. /\ new \in Fill /\ new.variables = tables /\ new.sections = fill.sections
          /\ new.current_section_number = fill.current_section_number
          /\ new.sections_count = fill.sections_count
      BY <1>0, <2>1, <2>4 DEF Fill
    <2> HIDE DEF new
    <2>6. Sound(new, before)
      BY <2>4, <2>5 DEF Sound
    <2>7. QED
      BY <2>6 DEF new
  <1>3. QED
    BY <1>1, <1>2

(* So no line takes a number out of the range of the variables.            *)
LEMMA TakeLineSound ==
    ASSUME NEW before \in Nat, NEW fill, Sound(fill, before), NEW line, read_line(line) \in Reads
    PROVE  Sound(take_line(fill, line), before)
  <1> DEFINE read == read_line(line)
             next == Counted(fill)
  <1>1. read.name \in Names /\ read.value \in Values
    BY DEF Names, Values
  <1>2. Sound(next, before)
    BY DEF Sound, Counted, Fill
  <1>3. Sound([next EXCEPT !.incorrect_str_num = next.lines_count], before)
    <2>1. next \in Fill
      BY <1>2 DEF Sound
    <2> HIDE DEF next
    <2>2. QED
      BY <1>2, <2>1 DEF Sound, Fill
  <1>4. \A f : Sound(f, before) => Sound(Ended(f), before)
    BY DEF Sound, Ended, Fill
  <1> HIDE DEF next, read
  <1>5. Sound(take_section(next, read.name), before)
    BY <1>1, <1>2, TakeSectionSound
  <1>6. Sound(take_variable(next, read.name, read.value), before)
    BY <1>1, <1>2, TakeVariableSound
  <1>7. QED
    BY <1>2, <1>3, <1>4, <1>5, <1>6, TakeLineCases DEF next, read

(* Types that the provers can use: those of TypeOK say less.               *)
Stored == [live : BOOLEAN, sections : Maps(Names, Numbers), variables : Tables]
Fields == [alive : BOOLEAN, store : Stores \cup {Null, Dangling}, parser_invalid : BOOLEAN,
           file_read : BOOLEAN, invalid_data : BOOLEAN, incorrect_str_num : Nat,
           current_section_number : Int]

InRange(store) ==
    \A name \in DOMAIN store.sections : store.sections[name] \in 0 .. Len(store.variables) - 1

(* A store that somebody owns is not free: no number of a section outlives *)
(* the variables it is an index of.                                        *)
Typed ==
    /\ program \in {"spider", "server"}
    /\ parser \in [Object -> Fields]
    /\ heap \in [Stores -> Stored]
    /\ status \in {"ok", "crashed", "corrupt"}
    /\ assigned \in BOOLEAN
    /\ \A s \in Stores : InRange(heap[s])
    /\ \A o \in Object : Owns(o) =>
          /\ heap[parser[o].store].live
          /\ parser[o].current_section_number \in -1 .. Len(heap[parser[o].store].variables) - 1

LEMMA FreeIsStored ==
    /\ Free \in Stored /\ Created \in Stored
    /\ InRange(Free) /\ InRange(Created)
    /\ Created.live /\ ~ Free.live
    /\ Created.variables = <<>> /\ Created.sections = <<>>
  <1>1. <<>> \in Maps(Names, Numbers) /\ <<>> \in Tables
    <2>1. <<>> \in [{} -> Numbers] /\ <<>> \in Seq(Maps(Names, Values))
      OBVIOUS
    <2>2. QED
      BY <2>1 DEF Maps, Tables
  <1>2. DOMAIN <<>> = {}
    OBVIOUS
  <1>3. QED
    BY <1>1, <1>2 DEF Free, Created, Stored, InRange

LEMMA ConstructedIsTyped ==
    /\ \A s \in Stores \cup {Null, Dangling} : Constructed(s) \in Fields
    /\ \A s \in Stores \cup {Null, Dangling} : Constructed(s).store = s /\ Constructed(s).current_section_number = -1
    /\ NoParser \in Fields /\ NoParser.store = Null
  <1>1. \A s \in Stores \cup {Null, Dangling} : Constructed(s) \in Fields
    BY DEF Constructed, Fields
  <1>2. NoParser \in Fields /\ NoParser.store = Null
    BY <1>1 DEF NoParser, Constructed, Fields
  <1>3. QED
    BY <1>1, <1>2 DEF Constructed

LEMMA TypedInit == Init => Typed
  <1> SUFFICES ASSUME Init PROVE Typed
    OBVIOUS
  <1>1. \A o \in Object : ~ Owns(o)
    BY ConstructedIsTyped, NoStore DEF Init, Owns
  <1>2. QED
    BY <1>1, FreeIsStored, ConstructedIsTyped DEF Init, Typed

(* The lines of a file, and what they are read as.                         *)
LEMMA LinesAreReads ==
    ASSUME program \in {"spider", "server"}, NEW file \in DOMAIN Lines
    PROVE  /\ Lines[file] \in Seq(ToSet(Lines[file]))
           /\ \A line \in ToSet(Lines[file]) : read_line(line) \in Reads
  <1>1. Lines[file] \in Seq(ToSet(Lines[file]))
    BY IniAssumption
  <1>2. ASSUME NEW line \in ToSet(Lines[file])
        PROVE  read_line(line) \in Reads
    <2>1. line \in UNION {ToSet(Lines[f]) : f \in DOMAIN Lines}
      OBVIOUS
    <2>2. read_line(line) \in {research_string(delete_spaces(line)), research_string_2(delete_spaces_2(line))}
      BY DEF read_line
    <2>3. QED
      BY <2>1, <2>2 DEF Reads
  <1>3. QED
    BY <1>1, <1>2

(* Nor does a file, whatever the object had before.                        *)
LEMMA FilledSound ==
    ASSUME Typed, NEW o \in Object, Owns(o), NEW file \in DOMAIN Lines
    PROVE  Sound(filled(o, Lines[file]), Len(heap[parser[o].store].variables))
  <1> DEFINE store == heap[parser[o].store]
             before == Len(store.variables)
             base == [sections |-> store.sections, variables |-> store.variables,
                      current_section_number |-> parser[o].current_section_number,
                      incorrect_str_num |-> parser[o].incorrect_str_num,
                      sections_count |-> 0, lines_count |-> 0, done |-> FALSE]
             A == {fill \in Fill : Sound(fill, before)}
             lines == Lines[file]
             L == ToSet(lines)
  <1>1. store \in Stored /\ parser[o] \in Fields /\ InRange(store)
        /\ parser[o].current_section_number \in -1 .. before - 1
    BY DEF Typed, Owns
  <1>2. before \in Nat
    BY <1>1 DEF Stored, Tables
  <1> HIDE DEF store, before
  <1>3. Sound(base, before)
    <2>1. base \in Fill
      BY <1>1 DEF Stored, Fields, Fill
    <2>2. QED
      BY <1>1, <1>2, <2>1 DEF Sound, InRange, before
  <1>4. base \in A /\ lines \in Seq(L)
    BY <1>3, LinesAreReads DEF Sound, Typed
  <1>5. \A fill \in A, line \in L : take_line(fill, line) \in A
    BY <1>2, TakeLineSound, LinesAreReads DEF Sound, Typed
  <1>6. filled(o, Lines[file]) = Taken(base, lines)
    BY DEF filled, store, Taken
  <1> HIDE DEF base, A, L, lines
  <1>7. PICK r : Passes(r, A, base, lines)
    BY <1>4, <1>5, LinesFold
  <1>8. Len(lines) \in Nat
    BY <1>4
  <1>9. filled(o, Lines[file]) \in A
    BY <1>6, <1>7, <1>8 DEF Passes
  <1>10. QED
    BY <1>9 DEF A, before, store

LEMMA BreakTyped ==
    ASSUME Typed, NEW o \in Object, Break(o), assigned' \in BOOLEAN
    PROVE  Typed'
  BY DEF Typed, Break, Owns, Stores

LEMMA ConstructTyped ==
    ASSUME Typed, NEW o \in Object, construct(o)
    PROVE  Typed'
  <1>1. PICK s \in Stores :
               /\ ~ heap[s].live
               /\ heap' = [heap EXCEPT ![s] = Created]
               /\ parser' = [parser EXCEPT ![o] = Constructed(s)]
    BY DEF construct
  <1>2. Constructed(s) \in Fields /\ Constructed(s).store = s /\ Constructed(s).current_section_number = -1
    BY ConstructedIsTyped
  <1>3. UNCHANGED <<program, status, assigned>>
    BY DEF construct
  <1>4. \A p \in Object \ {o} : Owns(p) => parser[p].store # s
    BY <1>1 DEF Typed
  <1>5. Len(Created.variables) = 0
    BY FreeIsStored
  <1>6. ASSUME NEW p \in Object, Owns(p)'
        PROVE  /\ heap'[parser'[p].store].live
               /\ parser'[p].current_section_number \in -1 .. Len(heap'[parser'[p].store].variables) - 1
    <2>1. CASE p = o
      BY <1>1, <1>2, <1>5, <2>1, FreeIsStored DEF Typed, Owns, Stores
    <2>2. CASE p # o
      BY <1>1, <1>4, <1>6, <2>2 DEF Typed, Owns, Stores
    <2>3. QED
      BY <2>1, <2>2
  <1>7. QED
    BY <1>1, <1>2, <1>3, <1>6, FreeIsStored DEF Typed, Owns, Stores

LEMMA CopyTyped ==
    ASSUME Typed, NEW o \in Object, NEW other \in Object, copy_construct(o, other)
    PROVE  Typed'
  <1>1. CASE Break(other)
    BY <1>1, BreakTyped DEF copy_construct, Typed
  <1>2. CASE Owns(other) /\ ~ Break(other)
    <2>1. PICK s \in Stores :
               /\ ~ heap[s].live
               /\ heap' = [heap EXCEPT ![s] = heap[parser[other].store]]
               /\ parser' = [parser EXCEPT ![o] = [parser[other] EXCEPT !.store = s]]
      BY <1>2 DEF copy_construct
    <2>2. UNCHANGED <<program, status, assigned>>
      BY <1>2 DEF copy_construct
    <2>3. \A p \in Object : Owns(p) => parser[p].store # s
      BY <2>1 DEF Typed
    <2> DEFINE new == [parser[other] EXCEPT !.store = s]
    <2>4. /\ new \in Fields /\ new.store = s
          /\ new.current_section_number = parser[other].current_section_number
      BY DEF Typed, Fields
    <2> HIDE DEF new
    <2>5. ASSUME NEW p \in Object, Owns(p)'
          PROVE  /\ heap'[parser'[p].store].live
                 /\ parser'[p].current_section_number \in -1 .. Len(heap'[parser'[p].store].variables) - 1
      <3>1. CASE p = o
        BY <1>2, <2>1, <2>3, <2>4, <3>1 DEF Typed, Owns, new
      <3>2. CASE p # o
        BY <2>1, <2>3, <2>5, <3>2 DEF Typed, Owns, Stores
      <3>3. QED
        BY <3>1, <3>2
    <2>6. QED
      BY <1>2, <2>1, <2>2, <2>4, <2>5 DEF Typed, Owns, Stores, new
  <1>3. QED
    BY <1>1, <1>2 DEF copy_construct

LEMMA MoveTyped ==
    ASSUME Typed, NEW o \in Object, NEW other \in Object, move_construct(o, other)
    PROVE  Typed'
  <1>1. o # other
    BY DEF move_construct
  <1>2. /\ parser' = [parser EXCEPT ![o] = parser[other], ![other].store = Null]
        /\ UNCHANGED <<program, heap, status, assigned>>
    BY DEF move_construct
  <1>3. parser' \in [Object -> Fields]
    BY <1>1, <1>2 DEF Typed, Fields
  <1>4. /\ parser'[o] = parser[other]
        /\ parser'[other].store = Null
        /\ \A p \in Object \ {o, other} : parser'[p] = parser[p]
    BY <1>1, <1>2 DEF Typed, Fields
  <1>5. QED
    BY <1>2, <1>3, <1>4, NoStore DEF Typed, Owns, Stores

LEMMA DestroyTyped ==
    ASSUME Typed, NEW o \in Object, destroy(o)
    PROVE  Typed'
  <1>1. CASE Break(o)
    BY <1>1, BreakTyped DEF destroy, Typed
  <1>2. CASE ~ Break(o)
    <2>1. /\ heap' = [s \in Stores |-> IF s = parser[o].store THEN Free ELSE heap[s]]
          /\ parser' = [p \in Object |->
                IF p = o THEN NoParser
                ELSE IF parser[p].store = parser[o].store /\ Owns(o) THEN [parser[p] EXCEPT !.store = Dangling]
                ELSE parser[p]]
          /\ UNCHANGED <<program, status, assigned>>
      BY <1>2 DEF destroy
    <2>2. parser' \in [Object -> Fields]
      BY <2>1, ConstructedIsTyped DEF Typed, Fields
    <2>3. ASSUME NEW p \in Object, Owns(p)'
          PROVE  /\ Owns(p) /\ parser'[p] = parser[p]
                 /\ heap'[parser'[p].store] = heap[parser[p].store]
      <3>1. p # o
        BY <2>1, <2>3, ConstructedIsTyped, NoStore DEF Owns, Stores
      <3>2. ~ (parser[p].store = parser[o].store /\ Owns(o))
        <4> SUFFICES ASSUME parser[p].store = parser[o].store, Owns(o) PROVE FALSE
          OBVIOUS
        <4>1. parser'[p].store = Dangling
          BY <2>1, <3>1 DEF Typed, Fields
        <4>2. QED
          BY <2>3, <4>1, NoStore DEF Owns, Stores
      <3>3. QED
        BY <2>1, <2>3, <3>1, <3>2 DEF Owns, Stores
    <2>4. \A s \in Stores : heap'[s] = Free \/ heap'[s] = heap[s]
      BY <2>1
    <2>5. heap' \in [Stores -> Stored]
      BY <2>1, FreeIsStored DEF Typed
    <2>6. QED
      BY <2>1, <2>2, <2>3, <2>4, <2>5, FreeIsStored DEF Typed, InRange, Stores
  <1>3. QED
    BY <1>1, <1>2

LEMMA AssignTyped ==
    ASSUME Typed, NEW o \in Object, NEW other \in Object,
           \/ copy_assign(o, other) \/ move_assign(o, other)
           \/ copy_assign_2(o, other) \/ move_assign_2(o, other)
    PROVE  Typed'
  <1>1. assigned' = TRUE
    BY DEF copy_assign, move_assign, copy_assign_2, move_assign_2
  <1>2. CASE Break(other)
    BY <1>1, <1>2, BreakTyped
  <1>3. CASE copy_assign(o, other) /\ ~ Break(other)
    <2>1. /\ parser' = [parser EXCEPT ![o] = [parser[other] EXCEPT !.store = Dangling]]
          /\ UNCHANGED <<program, heap, status>>
      BY <1>3 DEF copy_assign
    <2>2. parser' \in [Object -> Fields]
      BY <2>1 DEF Typed, Fields
    <2>3. parser'[o].store = Dangling /\ \A p \in Object \ {o} : parser'[p] = parser[p]
      BY <2>1 DEF Typed, Fields
    <2>4. QED
      BY <1>1, <2>1, <2>2, <2>3, NoStore DEF Typed, Owns, Stores
  <1>4. CASE move_assign(o, other)
    BY <1>1, <1>4 DEF move_assign, Typed, Owns, Stores
  <1>5. CASE move_assign_2(o, other) /\ ~ Break(other)
    BY <1>1, <1>5 DEF move_assign_2, Typed, Owns, Stores
  <1>6. QED
    BY <1>2, <1>3, <1>4, <1>5 DEF copy_assign_2

LEMMA FillTyped ==
    ASSUME Typed, NEW o \in Object, NEW file \in File, fill_parser(o, file)
    PROVE  Typed'
  <1>1. CASE Break(o)
    BY <1>1, BreakTyped DEF fill_parser, Typed
  <1>2. CASE file \notin DOMAIN Lines
    <2>1. /\ parser' = [parser EXCEPT ![o].parser_invalid = TRUE]
          /\ UNCHANGED <<program, heap, status, assigned>>
      BY <1>2 DEF fill_parser
    <2>2. parser' \in [Object -> Fields]
      BY <2>1 DEF Typed, Fields
    <2>3. \A p \in Object : /\ parser'[p].store = parser[p].store
                            /\ parser'[p].current_section_number = parser[p].current_section_number
      BY <2>1 DEF Typed, Fields
    <2>4. QED
      BY <2>1, <2>2, <2>3 DEF Typed, Owns, Stores
  <1>3. CASE file \in DOMAIN Lines /\ Owns(o) /\ ~ Break(o)
    <2> DEFINE fill == filled(o, Lines[file])
               store == parser[o].store
               before == Len(heap[store].variables)
    <2>1. /\ heap' = [heap EXCEPT ![store] = written(fill)]
          /\ parser' = [parser EXCEPT ![o] = noted(parser[o], fill)]
          /\ UNCHANGED <<program, status, assigned>>
      BY <1>3 DEF fill_parser
    <2>2. Sound(fill, before)
      BY <1>3, FilledSound
    <2>3. store \in Stores
      BY <1>3 DEF Owns
    <2> HIDE DEF fill
    <2>4. /\ written(fill) \in Stored /\ InRange(written(fill)) /\ written(fill).live
          /\ written(fill).variables = fill.variables
      BY <2>2 DEF Sound, Fill, written, Stored, InRange
    <2>5. noted(parser[o], fill) \in Fields
      BY <2>2 DEF Sound, Fill, noted, Typed, Fields
    <2>6. /\ noted(parser[o], fill).store = store
          /\ noted(parser[o], fill).current_section_number = fill.current_section_number
      BY DEF noted, Typed, Fields
    <2>7. Len(fill.variables) \in Nat /\ before \in Nat
      BY <2>2, <2>3 DEF Sound, Fill, Tables, Typed, Stored
    <2>8. ASSUME NEW p \in Object, Owns(p)'
          PROVE  /\ heap'[parser'[p].store].live
                 /\ parser'[p].current_section_number \in -1 .. Len(heap'[parser'[p].store].variables) - 1
      <3>1. CASE p = o
        BY <2>1, <2>2, <2>3, <2>4, <2>6, <3>1 DEF Typed, Sound
      <3>2. CASE p # o
        <4>1. Owns(p) /\ parser'[p] = parser[p]
          BY <2>1, <2>8, <3>2 DEF Typed, Owns, Stores
        <4>2. CASE parser[p].store = store
          <5>1. heap'[store] = written(fill)
            BY <2>1, <2>3 DEF Typed
          <5>2. parser[p].current_section_number \in -1 .. before - 1
            BY <4>1, <4>2 DEF Typed
          <5>3. before =< Len(fill.variables)
            BY <2>2 DEF Sound
          <5> HIDE DEF before, store
          <5>4. parser[p].current_section_number \in -1 .. Len(fill.variables) - 1
            BY <2>7, <5>2, <5>3
          <5>5. QED
            BY <2>4, <4>1, <4>2, <5>1, <5>4
        <4>3. CASE parser[p].store # store
          BY <2>1, <4>1, <4>3 DEF Typed, Owns
        <4>4. QED
          BY <4>2, <4>3
      <3>3. QED
        BY <3>1, <3>2
    <2>9. QED
      BY <2>1, <2>3, <2>4, <2>5, <2>8 DEF Typed, Owns, Stores
  <1>4. QED
    BY <1>1, <1>2, <1>3 DEF fill_parser

LEMMA TypedStep == Typed /\ [Next]_vars => Typed'
  <1>1. ASSUME Typed, [Next]_vars
        PROVE  Typed'
    <2>1. CASE UNCHANGED vars
      BY <1>1, <2>1 DEF vars, Typed, Owns, Stores
    <2>2. CASE Next
      <3>1. PICK o \in Object, other \in Object :
                 \/ construct(o) \/ destroy(o) \/ ask(o)
                 \/ copy_construct(o, other) \/ move_construct(o, other)
                 \/ copy_assign(o, other) \/ move_assign(o, other)
                 \/ copy_assign_2(o, other) \/ move_assign_2(o, other)
                 \/ \E file \in File : fill_parser(o, file)
        BY <2>2 DEF Next
      <3>2. CASE ask(o)
        BY <1>1, <3>2, BreakTyped DEF ask, Typed
      <3>3. QED
        BY <1>1, <3>1, <3>2, ConstructTyped, DestroyTyped, CopyTyped, MoveTyped, AssignTyped, FillTyped
    <2>3. QED
      BY <1>1, <2>1, <2>2
  <1>2. QED
    BY <1>1

(***************************************************************************)
(* Whatever objects are made, copied, moved, assigned, filled and          *)
(* destroyed, from files of any length, the number of a section is always  *)
(* the index of some map of variables: operator[] never leaves             *)
(* variables_str_array (ini_parser.cpp:464-554).                           *)
(***************************************************************************)
THEOREM TypeCorrect == Spec => []TypeOK
  <1>1. Typed => TypeOK
    BY DEF Typed, TypeOK, TypeOfStore, Fields, Stored, InRange
  <1>2. QED
    BY <1>1, TypedInit, TypedStep, PTL DEF Spec

-----------------------------------------------------------------------------

(* A file as what its lines are read as: rd.                               *)
SectionsTo(rd, n) == {i \in 1 .. n : rd[i].type = "_section_"}
IsGood(rd, i) ==
    \/ rd[i].type \in {"_section_", "_empty_"}
    \/ rd[i].type = "_variable_" /\ SectionsTo(rd, i) # {}
AllGood(rd, n) == \A i \in 1 .. n : IsGood(rd, i)
SectionAt(rd, i) == rd[Max(SectionsTo(rd, i))].name
LinesOf(rd, n, section, variable) ==
    {i \in 1 .. n : rd[i].type = "_variable_" /\ rd[i].name = variable /\ SectionAt(rd, i) = section}

(* sections and variables hold what the first n lines say: the sections    *)
(* are numbered without a gap, and a variable has its last value.          *)
Holds(rd, n, sections, variables) ==
    /\ DOMAIN sections = {rd[i].name : i \in SectionsTo(rd, n)}
    /\ \A s, t \in DOMAIN sections : sections[s] = sections[t] => s = t
    /\ \A s \in DOMAIN sections : sections[s] + 1 \in DOMAIN variables
    /\ \A i \in DOMAIN variables : \E s \in DOMAIN sections : sections[s] = i - 1
    /\ Cardinality(DOMAIN sections) = Len(variables) /\ IsFiniteSet(DOMAIN sections)
    /\ \A s \in DOMAIN sections, name \in Names :
          LET lines == LinesOf(rd, n, s, name)
              values == variables[sections[s] + 1]
          IN IF lines = {} THEN name \notin DOMAIN values
             ELSE name \in DOMAIN values /\ values[name] = rd[Max(lines)].value

(* After n good lines.                                                     *)
Reached(rd, n, fill) ==
    /\ Sound(fill, 0)
    /\ ~ fill.done /\ fill.incorrect_str_num = 0
    /\ fill.lines_count = n
    /\ fill.sections_count = Len(fill.variables)
    /\ Holds(rd, n, fill.sections, fill.variables)
    /\ IF SectionsTo(rd, n) = {} THEN fill.current_section_number = -1
       ELSE /\ SectionAt(rd, n) \in DOMAIN fill.sections
            /\ fill.current_section_number = fill.sections[SectionAt(rd, n)]

(* The line after the first n, if it is no section, leaves the section.    *)
LEMMA NextSection ==
    ASSUME NEW rd, NEW n \in Nat
    PROVE  /\ rd[n + 1].type = "_section_" =>
                 /\ SectionsTo(rd, n + 1) = SectionsTo(rd, n) \cup {n + 1}
                 /\ SectionAt(rd, n + 1) = rd[n + 1].name
           /\ rd[n + 1].type # "_section_" =>
                 /\ SectionsTo(rd, n + 1) = SectionsTo(rd, n)
                 /\ SectionAt(rd, n + 1) = SectionAt(rd, n)
  <1>1. CASE rd[n + 1].type = "_section_"
    <2>1. SectionsTo(rd, n + 1) = SectionsTo(rd, n) \cup {n + 1}
      BY <1>1 DEF SectionsTo
    <2>2. SectionsTo(rd, n + 1) \subseteq 1 .. n + 1 /\ n + 1 \in SectionsTo(rd, n + 1)
      BY <1>1 DEF SectionsTo
    <2>3. Max(SectionsTo(rd, n + 1)) = n + 1
      BY <2>2, MaxOfRange
    <2>4. QED
      BY <1>1, <2>1, <2>3 DEF SectionAt
  <1>2. CASE rd[n + 1].type # "_section_"
    <2>1. SectionsTo(rd, n + 1) = SectionsTo(rd, n)
      BY <1>2 DEF SectionsTo
    <2>2. QED
      BY <1>2, <2>1 DEF SectionAt
  <1>3. QED
    BY <1>1, <1>2

(* A line is one more of a variable only if it says so.                    *)
LEMMA NextLines ==
    ASSUME NEW rd, NEW n \in Nat, NEW s, NEW name
    PROVE  /\ rd[n + 1].type = "_variable_" /\ rd[n + 1].name = name /\ SectionAt(rd, n + 1) = s =>
                 LinesOf(rd, n + 1, s, name) = LinesOf(rd, n, s, name) \cup {n + 1}
           /\ ~ (rd[n + 1].type = "_variable_" /\ rd[n + 1].name = name /\ SectionAt(rd, n + 1) = s) =>
                 LinesOf(rd, n + 1, s, name) = LinesOf(rd, n, s, name)
  <1>1. 1 .. n + 1 = (1 .. n) \cup {n + 1}
    OBVIOUS
  <1>2. QED
    BY <1>1 DEF LinesOf

(* A line that is neither section nor variable changes nothing.            *)
LEMMA HoldsOn ==
    ASSUME NEW rd, NEW n \in Nat, NEW sections, NEW variables, Holds(rd, n, sections, variables),
           rd[n + 1].type \notin {"_section_", "_variable_"}
    PROVE  Holds(rd, n + 1, sections, variables)
  <1>1. SectionsTo(rd, n + 1) = SectionsTo(rd, n)
    BY NextSection
  <1>2. ASSUME NEW s, NEW name
        PROVE  LinesOf(rd, n + 1, s, name) = LinesOf(rd, n, s, name)
    BY NextLines
  <1>3. QED
    BY <1>1, <1>2 DEF Holds

(* An empty store holds what no line says.                                 *)
LEMMA EmptyReached ==
    ASSUME NEW rd
    PROVE  Reached(rd, 0, [sections |-> <<>>, variables |-> <<>>, current_section_number |-> -1,
                           incorrect_str_num |-> 0, sections_count |-> 0, lines_count |-> 0, done |-> FALSE])
  <1> DEFINE base == [sections |-> <<>>, variables |-> <<>>, current_section_number |-> -1,
                      incorrect_str_num |-> 0, sections_count |-> 0, lines_count |-> 0, done |-> FALSE]
  <1>1. <<>> \in Maps(Names, Numbers) /\ <<>> \in Tables
    BY FreeIsStored DEF Stored, Free
  <1>2. DOMAIN <<>> = {} /\ Len(<<>>) = 0 /\ 1 .. 0 = {}
    OBVIOUS
  <1>3. base \in Fill
    BY <1>1 DEF Fill
  <1>4. Sound(base, 0)
    BY <1>2, <1>3 DEF Sound
  <1>5. SectionsTo(rd, 0) = {}
    BY DEF SectionsTo
  <1>6. Holds(rd, 0, <<>>, <<>>)
    BY <1>2, <1>5, FS_EmptySet DEF Holds
  <1>7. QED
    BY <1>2, <1>4, <1>5, <1>6 DEF Reached

(* A variable line has a section above it, and that section is listed.     *)
LEMMA ListedSection ==
    ASSUME NEW rd, NEW n \in Nat, NEW i \in 1 .. n, SectionsTo(rd, i) # {}
    PROVE  SectionAt(rd, i) \in {rd[j].name : j \in SectionsTo(rd, n)}
  <1>1. SectionsTo(rd, i) \in SUBSET (1 .. i) /\ i \in Nat
    BY DEF SectionsTo
  <1>2. Max(SectionsTo(rd, i)) \in SectionsTo(rd, i)
    BY <1>1, MaxInRange
  <1>3. SectionsTo(rd, i) \subseteq SectionsTo(rd, n)
    BY DEF SectionsTo
  <1>4. QED
    BY <1>2, <1>3 DEF SectionAt

LEMMA CountedFacts ==
    ASSUME NEW fill \in Fill
    PROVE  LET next == Counted(fill)
           IN /\ next \in Fill
              /\ next.sections = fill.sections /\ next.variables = fill.variables
              /\ next.current_section_number = fill.current_section_number
              /\ next.incorrect_str_num = fill.incorrect_str_num
              /\ next.sections_count = fill.sections_count
              /\ next.lines_count = fill.lines_count + 1 /\ next.done = fill.done
  BY DEF Counted, Fill

LEMMA EndedFacts ==
    ASSUME NEW fill \in Fill
    PROVE  LET end == Ended(fill)
           IN /\ end.sections = fill.sections /\ end.variables = fill.variables
              /\ end.current_section_number = fill.current_section_number
              /\ end.incorrect_str_num = fill.incorrect_str_num
              /\ end.sections_count = fill.sections_count
              /\ end.lines_count = fill.lines_count
              /\ end.done = (fill.incorrect_str_num # 0)
  BY DEF Ended, Fill

LEMMA EmptyLine ==
    ASSUME NEW rd, NEW n \in Nat, NEW fill, Reached(rd, n, fill),
           NEW line, read_line(line) = rd[n + 1], read_line(line) \in Reads,
           rd[n + 1].type = "_empty_"
    PROVE  Reached(rd, n + 1, take_line(fill, line))
  <1> DEFINE new == take_line(fill, line)
  <1>1. fill \in Fill
    BY DEF Reached, Sound
  <1>2. new = Ended(Counted(fill))
    BY TakeLineCases DEF Reached
  <1>3. /\ new.sections = fill.sections /\ new.variables = fill.variables
        /\ new.current_section_number = fill.current_section_number
        /\ new.incorrect_str_num = 0 /\ new.sections_count = fill.sections_count
        /\ new.lines_count = n + 1 /\ ~ new.done
    BY <1>1, <1>2 DEF Ended, Counted, Reached, Fill
  <1>4. Sound(new, 0)
    <2>1. Sound(fill, 0) /\ 0 \in Nat
      BY DEF Reached
    <2>2. QED
      BY <2>1, TakeLineSound
  <1> HIDE DEF new
  <1>5. Holds(rd, n + 1, new.sections, new.variables)
    BY <1>3, HoldsOn DEF Reached
  <1>6. SectionsTo(rd, n + 1) = SectionsTo(rd, n) /\ SectionAt(rd, n + 1) = SectionAt(rd, n)
    BY NextSection
  <1>7. Reached(rd, n + 1, new)
    BY <1>3, <1>4, <1>5, <1>6 DEF Reached
  <1>8. QED
    BY <1>7 DEF new

(* A section that comes back is current again, and keeps its variables.    *)
LEMMA KnownSectionLine ==
    ASSUME NEW rd, NEW n \in Nat, NEW fill, Reached(rd, n, fill),
           NEW line, read_line(line) = rd[n + 1], read_line(line) \in Reads,
           rd[n + 1].type = "_section_", rd[n + 1].name \in DOMAIN fill.sections
    PROVE  Reached(rd, n + 1, take_line(fill, line))
  <1> DEFINE new == take_line(fill, line)
             name == rd[n + 1].name
  <1>1. fill \in Fill
    BY DEF Reached, Sound
  <1>2. new = Ended(take_section(Counted(fill), name))
    BY TakeLineCases DEF Reached
  <1>3. LET next == take_section(Counted(fill), name)
        IN /\ next \in Fill
           /\ next.sections = fill.sections /\ next.variables = fill.variables
           /\ next.current_section_number = fill.sections[name]
           /\ next.incorrect_str_num = 0 /\ next.sections_count = fill.sections_count
           /\ next.lines_count = n + 1
    <2> DEFINE counted == Counted(fill)
    <2>1. /\ counted \in Fill
          /\ counted.sections = fill.sections /\ counted.variables = fill.variables
          /\ counted.incorrect_str_num = 0 /\ counted.sections_count = fill.sections_count
          /\ counted.lines_count = n + 1
      BY <1>1, CountedFacts DEF Reached
    <2>2. take_section(counted, name) = [counted EXCEPT !.current_section_number = fill.sections[name]]
      BY <2>1 DEF take_section
    <2>3. fill.sections[name] \in Int
      BY DEF Reached, Sound
    <2> HIDE DEF counted
    <2>4. LET next == take_section(counted, name)
          IN /\ next \in Fill
             /\ next.sections = fill.sections /\ next.variables = fill.variables
             /\ next.current_section_number = fill.sections[name]
             /\ next.incorrect_str_num = 0 /\ next.sections_count = fill.sections_count
             /\ next.lines_count = n + 1
      BY <2>1, <2>2, <2>3 DEF Fill
    <2>5. QED
      BY <2>4 DEF counted
  <1>4. /\ new.sections = fill.sections /\ new.variables = fill.variables
        /\ new.current_section_number = fill.sections[name]
        /\ new.incorrect_str_num = 0 /\ new.sections_count = fill.sections_count
        /\ new.lines_count = n + 1 /\ ~ new.done
    BY <1>2, <1>3, EndedFacts
  <1>5. Sound(new, 0)
    <2>1. Sound(fill, 0) /\ 0 \in Nat
      BY DEF Reached
    <2>2. QED
      BY <2>1, TakeLineSound
  <1>6. SectionsTo(rd, n + 1) = SectionsTo(rd, n) \cup {n + 1} /\ SectionAt(rd, n + 1) = name
    BY NextSection
  <1>7. {rd[i].name : i \in SectionsTo(rd, n + 1)} = DOMAIN fill.sections
    BY <1>6 DEF Reached, Holds
  <1> HIDE DEF new
  <1>8. Holds(rd, n + 1, fill.sections, fill.variables)
    <2>1. ASSUME NEW s, NEW variable
          PROVE  LinesOf(rd, n + 1, s, variable) = LinesOf(rd, n, s, variable)
      BY NextLines
    <2>2. Holds(rd, n, fill.sections, fill.variables)
      BY DEF Reached
    <2>3. ASSUME NEW s \in DOMAIN fill.sections, NEW variable \in Names
          PROVE  LET lines == LinesOf(rd, n + 1, s, variable)
                     values == fill.variables[fill.sections[s] + 1]
                 IN IF lines = {} THEN variable \notin DOMAIN values
                    ELSE variable \in DOMAIN values /\ values[variable] = rd[Max(lines)].value
      BY <2>1, <2>2 DEF Holds
    <2>4. QED
      BY <1>7, <2>2, <2>3 DEF Holds
  <1>9. Reached(rd, n + 1, new)
    <2>1. SectionsTo(rd, n + 1) # {}
      BY <1>6
    <2> HIDE DEF name
    <2>2. name \in DOMAIN fill.sections
      BY DEF name
    <2>3. QED
      BY <1>4, <1>5, <1>6, <1>8, <2>1, <2>2 DEF Reached
  <1>10. QED
    BY <1>9 DEF new

(* A section that was not there gets the next number, and no variables: no *)
(* line before was of it.                                                  *)
LEMMA NewSectionLine ==
    ASSUME NEW rd, NEW n \in Nat, NEW fill, Reached(rd, n, fill), AllGood(rd, n),
           NEW line, read_line(line) = rd[n + 1], read_line(line) \in Reads,
           rd[n + 1].type = "_section_", rd[n + 1].name \notin DOMAIN fill.sections
    PROVE  Reached(rd, n + 1, take_line(fill, line))
  <1> DEFINE new == take_line(fill, line)
             name == rd[n + 1].name
             old == fill.sections
             count == Len(fill.variables)
             sections == put(old, name, count)
             variables == Append(fill.variables, <<>>)
  <1>1. fill \in Fill /\ name \in Names
    BY DEF Reached, Sound, Names
  <1>2. new = Ended(take_section(Counted(fill), name))
    BY TakeLineCases DEF Reached
  <1>3. LET next == take_section(Counted(fill), name)
        IN /\ next \in Fill
           /\ next.sections = sections /\ next.variables = variables
           /\ next.current_section_number = count
           /\ next.incorrect_str_num = 0 /\ next.sections_count = count + 1
           /\ next.lines_count = n + 1
    <2> DEFINE counted == Counted(fill)
    <2>1. /\ counted \in Fill
          /\ counted.sections = fill.sections /\ counted.variables = fill.variables
          /\ counted.incorrect_str_num = 0 /\ counted.sections_count = count
          /\ counted.lines_count = n + 1
      BY <1>1, CountedFacts DEF Reached
    <2>2. take_section(counted, name) =
             [counted EXCEPT !.sections = sections, !.current_section_number = count,
                             !.sections_count = count + 1, !.variables = variables]
      BY <2>1 DEF take_section
    <2>3. Sound(counted, 0)
      BY DEF Reached, Sound, Counted, Fill
    <2>4. take_section(counted, name) \in Fill
      BY <1>1, <2>3, TakeSectionSound DEF Sound
    <2> HIDE DEF counted
    <2>5. LET next == take_section(counted, name)
          IN /\ next.sections = sections /\ next.variables = variables
             /\ next.current_section_number = count
             /\ next.incorrect_str_num = 0 /\ next.sections_count = count + 1
             /\ next.lines_count = n + 1
      <3> HIDE DEF sections, variables, count
      <3>1. QED
        BY <2>1, <2>2, <2>4 DEF Fill
    <2>6. QED
      BY <2>4, <2>5 DEF counted
  <1>4. count \in Nat /\ DOMAIN fill.variables = 1 .. count /\ fill.variables \in Tables
    BY <1>1 DEF Fill, Tables
  <1>5. /\ DOMAIN sections = DOMAIN old \cup {name}
        /\ sections[name] = count
        /\ \A s \in DOMAIN old : sections[s] = old[s]
    BY DEF put
  <1>6. /\ DOMAIN variables = 1 .. count + 1 /\ Len(variables) = count + 1
        /\ variables[count + 1] = <<>>
        /\ \A i \in 1 .. count : variables[i] = fill.variables[i]
    BY <1>4 DEF Tables
  <1> HIDE DEF sections, variables
  <1>7. /\ new.sections = sections /\ new.variables = variables
        /\ new.current_section_number = count
        /\ new.incorrect_str_num = 0 /\ new.sections_count = count + 1
        /\ new.lines_count = n + 1 /\ ~ new.done
    BY <1>2, <1>3, EndedFacts
  <1>8. Sound(new, 0)
    <2>1. Sound(fill, 0) /\ 0 \in Nat
      BY DEF Reached
    <2>2. QED
      BY <2>1, TakeLineSound
  <1>9. SectionsTo(rd, n + 1) = SectionsTo(rd, n) \cup {n + 1} /\ SectionAt(rd, n + 1) = name
    BY NextSection
  <1>10. /\ DOMAIN old = {rd[i].name : i \in SectionsTo(rd, n)}
         /\ \A s, t \in DOMAIN old : old[s] = old[t] => s = t
         /\ \A s \in DOMAIN old : old[s] + 1 \in 1 .. count
         /\ \A i \in 1 .. count : \E s \in DOMAIN old : old[s] = i - 1
         /\ Cardinality(DOMAIN old) = count /\ IsFiniteSet(DOMAIN old)
    BY <1>4 DEF Reached, Holds
  <1>11. {rd[i].name : i \in SectionsTo(rd, n + 1)} = DOMAIN sections
    BY <1>5, <1>9, <1>10
  <1>12. ASSUME NEW variable
         PROVE  LinesOf(rd, n + 1, name, variable) = {}
    <2> SUFFICES ASSUME NEW i \in LinesOf(rd, n, name, variable) PROVE FALSE
      BY NextLines
    <2>1. i \in 1 .. n /\ SectionsTo(rd, i) # {} /\ SectionAt(rd, i) = name
      BY DEF LinesOf, AllGood, IsGood
    <2>2. QED
      BY <1>10, <2>1, ListedSection
  <1>13. \A s \in DOMAIN old : old[s] \in 0 .. count - 1
    BY DEF Reached, Sound
  <1> HIDE DEF new, name, old
  <1>14. Holds(rd, n + 1, sections, variables)
    <2>1. \A s, t \in DOMAIN sections : sections[s] = sections[t] => s = t
      BY <1>5, <1>10, <1>13
    <2>2. \A s \in DOMAIN sections : sections[s] + 1 \in DOMAIN variables
      BY <1>4, <1>5, <1>6, <1>10
    <2>3. \A i \in DOMAIN variables : \E s \in DOMAIN sections : sections[s] = i - 1
      <3> SUFFICES ASSUME NEW i \in 1 .. count + 1
                   PROVE  \E s \in DOMAIN sections : sections[s] = i - 1
        BY <1>6
      <3>1. CASE i = count + 1
        BY <1>4, <1>5, <3>1
      <3>2. CASE i \in 1 .. count
        BY <1>5, <1>10, <3>2
      <3>3. QED
        BY <1>4, <3>1, <3>2
    <2>4. Cardinality(DOMAIN sections) = Len(variables) /\ IsFiniteSet(DOMAIN sections)
      <3> DEFINE names == DOMAIN old
      <3>1. name \notin names /\ IsFiniteSet(names) /\ Cardinality(names) = count
        BY <1>10 DEF name, old
      <3> HIDE DEF names
      <3>2. IsFiniteSet(names \cup {name}) /\ Cardinality(names \cup {name}) = count + 1
        BY <3>1, FS_AddElement
      <3>3. QED
        BY <1>5, <1>6, <3>2 DEF names
    <2>5. ASSUME NEW s \in DOMAIN sections, NEW variable \in Names
          PROVE  LET lines == LinesOf(rd, n + 1, s, variable)
                     values == variables[sections[s] + 1]
                 IN IF lines = {} THEN variable \notin DOMAIN values
                    ELSE variable \in DOMAIN values /\ values[variable] = rd[Max(lines)].value
      <3>1. CASE s = name
        <4>1. variables[sections[s] + 1] = <<>>
          BY <1>5, <1>6, <3>1
        <4>2. DOMAIN <<>> = {}
          OBVIOUS
        <4>3. QED
          BY <1>12, <3>1, <4>1, <4>2
      <3>2. CASE s # name
        <4>1. s \in DOMAIN old /\ sections[s] = old[s]
          BY <1>5, <3>2
        <4>2. variables[sections[s] + 1] = fill.variables[old[s] + 1]
          BY <1>6, <1>10, <4>1
        <4>3. LinesOf(rd, n + 1, s, variable) = LinesOf(rd, n, s, variable)
          BY NextLines
        <4>4. QED
          BY <4>1, <4>2, <4>3 DEF Reached, Holds, old
      <3>3. QED
        BY <3>1, <3>2
    <2>6. QED
      BY <1>11, <2>1, <2>2, <2>3, <2>4, <2>5 DEF Holds
  <1>15. Reached(rd, n + 1, new)
    <2>1. SectionsTo(rd, n + 1) # {}
      BY <1>9
    <2>2. QED
      BY <1>5, <1>6, <1>7, <1>8, <1>9, <1>14, <2>1 DEF Reached
  <1>16. QED
    BY <1>15 DEF new

(* A variable goes into the section above it, over its former value there. *)
LEMMA VariableLine ==
    ASSUME NEW rd, NEW n \in Nat, NEW fill, Reached(rd, n, fill),
           NEW line, read_line(line) = rd[n + 1], read_line(line) \in Reads,
           rd[n + 1].type = "_variable_", SectionsTo(rd, n + 1) # {}
    PROVE  Reached(rd, n + 1, take_line(fill, line))
  <1> DEFINE new == take_line(fill, line)
             name == rd[n + 1].name
             value == rd[n + 1].value
             current == fill.current_section_number
             at == SectionAt(rd, n)
             tables == [fill.variables EXCEPT ![current + 1] = put(fill.variables[current + 1], name, value)]
  <1>1. fill \in Fill /\ Sound(fill, 0) /\ fill.variables \in Tables
    BY DEF Reached, Sound, Fill
  <1>2. SectionsTo(rd, n + 1) = SectionsTo(rd, n) /\ SectionAt(rd, n + 1) = at
    BY NextSection
  <1>3. at \in DOMAIN fill.sections /\ current = fill.sections[at] /\ current + 1 \in DOMAIN fill.variables
    BY <1>2 DEF Reached, Holds
  <1>4. ~ current < 0 /\ current \in Int
    BY <1>1, <1>3 DEF Sound
  <1>5. new = Ended(take_variable(Counted(fill), name, value))
    BY TakeLineCases DEF Reached
  <1>6. LET next == take_variable(Counted(fill), name, value)
        IN /\ next \in Fill
           /\ next.sections = fill.sections /\ next.variables = tables
           /\ next.current_section_number = current
           /\ next.incorrect_str_num = 0 /\ next.sections_count = fill.sections_count
           /\ next.lines_count = n + 1
    <2> DEFINE counted == Counted(fill)
               next == take_variable(counted, name, value)
    <2>1. /\ counted \in Fill
          /\ counted.sections = fill.sections /\ counted.variables = fill.variables
          /\ counted.current_section_number = current
          /\ counted.incorrect_str_num = 0 /\ counted.sections_count = fill.sections_count
          /\ counted.lines_count = n + 1
      BY <1>1, CountedFacts DEF Reached
    <2>2. next = [counted EXCEPT !.variables = tables]
      BY <1>4, <2>1 DEF take_variable
    <2>3. Sound(counted, 0)
      BY <1>1 DEF Sound, Counted, Fill
    <2>4. name \in Names /\ value \in Values
      BY DEF Names, Values
    <2> HIDE DEF counted, name, value
    <2>5. next \in Fill
      BY <2>3, <2>4, TakeVariableSound DEF Sound
    <2>6. /\ next \in Fill
          /\ next.sections = fill.sections /\ next.variables = tables
          /\ next.current_section_number = current
          /\ next.incorrect_str_num = 0 /\ next.sections_count = fill.sections_count
          /\ next.lines_count = n + 1
      <3> HIDE DEF tables, current
      <3>1. QED
        BY <2>1, <2>2, <2>5 DEF Fill
    <2>7. QED
      BY <2>6 DEF counted, name, value
  <1>7. /\ DOMAIN tables = DOMAIN fill.variables /\ Len(tables) = Len(fill.variables)
        /\ tables[current + 1] = put(fill.variables[current + 1], name, value)
        /\ \A i \in DOMAIN fill.variables \ {current + 1} : tables[i] = fill.variables[i]
    BY <1>1, <1>3 DEF Tables
  <1> HIDE DEF tables
  <1>8. /\ new.sections = fill.sections /\ new.variables = tables
        /\ new.current_section_number = current
        /\ new.incorrect_str_num = 0 /\ new.sections_count = fill.sections_count
        /\ new.lines_count = n + 1 /\ ~ new.done
    BY <1>5, <1>6, EndedFacts
  <1>9. Sound(new, 0)
    BY <1>1, TakeLineSound
  <1>10. Holds(rd, n, fill.sections, fill.variables)
    BY DEF Reached
  <1> HIDE DEF new, name, value, current, at
  <1>11. Holds(rd, n + 1, fill.sections, tables)
    <2> SUFFICES ASSUME NEW s \in DOMAIN fill.sections, NEW variable \in Names
                 PROVE  LET lines == LinesOf(rd, n + 1, s, variable)
                            values == tables[fill.sections[s] + 1]
                        IN IF lines = {} THEN variable \notin DOMAIN values
                           ELSE variable \in DOMAIN values /\ values[variable] = rd[Max(lines)].value
      BY <1>2, <1>7, <1>10 DEF Holds
    <2> DEFINE before == LinesOf(rd, n, s, variable)
               lines == LinesOf(rd, n + 1, s, variable)
               old == fill.variables[fill.sections[s] + 1]
    <2>1. IF before = {} THEN variable \notin DOMAIN old
          ELSE variable \in DOMAIN old /\ old[variable] = rd[Max(before)].value
      BY <1>10 DEF Holds
    <2>2. CASE s = at /\ variable = name
      <3>1. lines = before \cup {n + 1}
        BY <1>2, <2>2, NextLines DEF name
      <3>2. lines \subseteq 1 .. n + 1
        BY DEF LinesOf
      <3>3. Max(lines) = n + 1
        BY <3>1, <3>2, MaxOfRange
      <3>4. name \in DOMAIN put(old, name, value) /\ put(old, name, value)[name] = value
        BY DEF put
      <3>5. QED
        BY <1>3, <1>7, <2>2, <3>1, <3>3, <3>4 DEF value
    <2>3. CASE s = at /\ variable # name
      <3>1. lines = before
        BY <2>3, NextLines DEF name
      <3>2. /\ variable \in DOMAIN put(old, name, value) <=> variable \in DOMAIN old
            /\ variable \in DOMAIN old => put(old, name, value)[variable] = old[variable]
        BY <2>3 DEF put
      <3>3. QED
        BY <1>3, <1>7, <2>1, <2>3, <3>1, <3>2
    <2>4. CASE s # at
      <3>1. lines = before
        BY <1>2, <2>4, NextLines
      <3>2. fill.sections[s] + 1 \in DOMAIN fill.variables /\ fill.sections[s] # current
        BY <1>3, <1>10, <2>4 DEF Holds
      <3>3. fill.sections[s] \in Int
        BY <1>1 DEF Sound
      <3>4. tables[fill.sections[s] + 1] = old
        BY <1>4, <1>7, <3>2, <3>3
      <3>5. QED
        BY <2>1, <3>1, <3>4
    <2>5. QED
      BY <2>2, <2>3, <2>4
  <1>12. Reached(rd, n + 1, new)
    BY <1>2, <1>3, <1>7, <1>8, <1>9, <1>11 DEF Reached, at
  <1>13. QED
    BY <1>12 DEF new

(* A good line after good lines.                                           *)
LEMMA GoodLine ==
    ASSUME NEW rd, NEW n \in Nat, NEW fill, Reached(rd, n, fill), AllGood(rd, n), IsGood(rd, n + 1),
           NEW line, read_line(line) = rd[n + 1], read_line(line) \in Reads
    PROVE  Reached(rd, n + 1, take_line(fill, line))
  <1>1. CASE rd[n + 1].type = "_empty_"
    BY <1>1, EmptyLine
  <1>2. CASE rd[n + 1].type = "_section_"
    BY <1>2, KnownSectionLine, NewSectionLine
  <1>3. CASE rd[n + 1].type = "_variable_"
    BY <1>3, VariableLine DEF IsGood
  <1>4. QED
    BY <1>1, <1>2, <1>3 DEF IsGood

(* The four types of a line.                                               *)
LEMMA TypesOfReads ==
    \A read \in Reads : read.type \in {"_section_", "_variable_", "_invalid_", "_empty_"}
  <1> DEFINE Types == {"_section_", "_variable_", "_invalid_", "_empty_"}
  <1>1. /\ Empty.type \in Types /\ Invalid.type \in Types
        /\ \A name : Section(name).type \in Types
        /\ \A name, value : Variable(name, value).type \in Types
    BY DEF Empty, Invalid, Section, Variable
  <1> HIDE DEF Types
  <1>2. \A text : section_of(text).type \in Types /\ variable_of(text).type \in Types
    BY <1>1, Zenon DEF section_of, variable_of
  <1>3. \A text : section_of_2(text).type \in Types /\ variable_of_2(text).type \in Types
    BY <1>1, Zenon DEF section_of_2, variable_of_2
  <1>4. ASSUME NEW text
        PROVE  research_string(text).type \in Types /\ research_string_2(text).type \in Types
    BY <1>1, <1>2, <1>3 DEF research_string, research_string_2
  <1>5. QED
    BY <1>4 DEF Reads, Types

(* The first line that is not good ends the reading: the maps stay.        *)
LEMMA BadLine ==
    ASSUME NEW rd, NEW n \in Nat, NEW fill, Reached(rd, n, fill), ~ IsGood(rd, n + 1),
           NEW line, read_line(line) = rd[n + 1], read_line(line) \in Reads
    PROVE  LET new == take_line(fill, line)
           IN new.done /\ new.sections = fill.sections /\ new.variables = fill.variables
  <1> DEFINE counted == Counted(fill)
             next == [counted EXCEPT !.incorrect_str_num = counted.lines_count]
  <1>1. fill \in Fill /\ ~ fill.done /\ fill.lines_count = n
    BY DEF Reached, Sound
  <1>2. /\ counted \in Fill
        /\ counted.sections = fill.sections /\ counted.variables = fill.variables
        /\ counted.current_section_number = fill.current_section_number
        /\ counted.lines_count = n + 1
    BY <1>1, CountedFacts
  <1>3. take_line(fill, line) = Ended(next)
    <2>1. CASE rd[n + 1].type = "_invalid_"
      BY <1>1, <2>1, TakeLineCases
    <2>2. CASE rd[n + 1].type = "_variable_" /\ SectionsTo(rd, n + 1) = {}
      <3>1. fill.current_section_number = -1
        BY <2>2, NextSection DEF Reached
      <3>2. take_variable(counted, rd[n + 1].name, rd[n + 1].value) = next
        BY <1>2, <3>1 DEF take_variable
      <3>3. QED
        BY <1>1, <2>2, <3>2, TakeLineCases
    <2>3. QED
      BY <2>1, <2>2, TypesOfReads DEF IsGood
  <1> HIDE DEF counted
  <1>4. /\ next \in Fill /\ next.sections = fill.sections /\ next.variables = fill.variables
        /\ next.incorrect_str_num = n + 1
    BY <1>2 DEF Fill
  <1> HIDE DEF next
  <1>5. next.incorrect_str_num # 0
    BY <1>4
  <1>6. /\ Ended(next).sections = fill.sections /\ Ended(next).variables = fill.variables
        /\ Ended(next).done
    BY <1>4, <1>5 DEF Ended, Fill
  <1>7. QED
    BY <1>3, <1>6

(* After it no line is taken.                                              *)
LEMMA DoneLine ==
    ASSUME NEW fill, fill.done, NEW line
    PROVE  take_line(fill, line) = fill
  BY TakeLineCases

(* The lines of a file as they are read, and a fill that begins.           *)
AsRead(file) == [i \in DOMAIN Lines[file] |-> read_line(Lines[file][i])]
Fresh == [sections |-> <<>>, variables |-> <<>>, current_section_number |-> -1,
          incorrect_str_num |-> 0, sections_count |-> 0, lines_count |-> 0, done |-> FALSE]

(* m lines are good, the next is not or there is none, and what they say   *)
(* is held.                                                                *)
ReadTo(rd, m, last, sections, variables) ==
    /\ AllGood(rd, m) /\ (m < last => ~ IsGood(rd, m + 1))
    /\ Holds(rd, m, sections, variables)

(* A fill of an empty store holds what the lines say up to the first one   *)
(* that is not good, however many there are.                               *)
LEMMA FileRead ==
    ASSUME program \in {"spider", "server"}, NEW file \in DOMAIN Lines
    PROVE  LET fill == Taken(Fresh, Lines[file])
               last == Len(Lines[file])
           IN \E m \in 0 .. last :
                 /\ ReadTo(AsRead(file), m, last, fill.sections, fill.variables)
                 /\ fill.done <=> m < last
  <1> DEFINE lines == Lines[file]
             n == Len(lines)
             rd == AsRead(file)
             A == {fill \in Fill : Sound(fill, 0)}
             L == ToSet(lines)
  <1>1. lines \in Seq(L) /\ \A line \in L : read_line(line) \in Reads
    BY LinesAreReads
  <1>2. Reached(rd, 0, Fresh)
    BY EmptyReached DEF Fresh
  <1>3. Fresh \in A
    BY <1>2 DEF Reached, Sound
  <1>4. \A fill \in A, line \in L : take_line(fill, line) \in A
    <2>1. 0 \in Nat
      OBVIOUS
    <2>2. QED
      BY <1>1, <2>1, TakeLineSound DEF Sound
  <1>5. /\ n \in Nat
        /\ \A i \in 1 .. n : lines[i] \in L /\ rd[i] = read_line(lines[i]) /\ read_line(lines[i]) \in Reads
    BY <1>1 DEF AsRead
  <1> HIDE DEF A, L, lines, rd
  <1>6. PICK r : Passes(r, A, Fresh, lines)
    BY <1>1, <1>3, <1>4, LinesFold
  <1> HIDE DEF n
  <1>7. /\ r[0] = Fresh /\ Taken(Fresh, lines) = r[n]
        /\ \A k \in 0 .. n - 1 : r[k + 1] = take_line(r[k], lines[k + 1])
    BY <1>6 DEF Passes, n
  <1> DEFINE Going(k) == AllGood(rd, k) /\ Reached(rd, k, r[k])
             Over(k, m) == /\ AllGood(rd, m) /\ ~ IsGood(rd, m + 1)
                           /\ Holds(rd, m, r[k].sections, r[k].variables)
                           /\ r[k].done
             S == {k \in 0 .. n : Going(k) \/ \E m \in 0 .. k - 1 : Over(k, m)}
  <1>8. 0 \in S
    BY <1>2, <1>5, <1>7 DEF AllGood
  <1>9. ASSUME NEW k \in 0 .. n - 1, k \in S
        PROVE  k + 1 \in S
    <2>1. /\ k \in Nat /\ k + 1 \in 1 .. n /\ k + 1 \in 0 .. n
          /\ rd[k + 1] = read_line(lines[k + 1]) /\ read_line(lines[k + 1]) \in Reads
          /\ r[k + 1] = take_line(r[k], lines[k + 1])
      BY <1>5, <1>7
    <2>2. CASE Going(k) /\ IsGood(rd, k + 1)
      <3>1. Reached(rd, k + 1, take_line(r[k], lines[k + 1]))
        <4> DEFINE line == lines[k + 1]
                   fill == r[k]
        <4>1. /\ Reached(rd, k, fill) /\ AllGood(rd, k) /\ IsGood(rd, k + 1)
              /\ read_line(line) = rd[k + 1] /\ read_line(line) \in Reads /\ k \in Nat
          BY <2>1, <2>2
        <4> HIDE DEF line, fill
        <4>2. Reached(rd, k + 1, take_line(fill, line))
          BY <4>1, GoodLine
        <4>3. QED
          BY <4>2 DEF line, fill
      <3>2. AllGood(rd, k + 1)
        BY <2>1, <2>2 DEF AllGood
      <3>3. QED
        BY <2>1, <3>1, <3>2
    <2>3. CASE Going(k) /\ ~ IsGood(rd, k + 1)
      <3>1. /\ r[k + 1].done /\ r[k + 1].sections = r[k].sections
            /\ r[k + 1].variables = r[k].variables
        <4> DEFINE line == lines[k + 1]
                   fill == r[k]
        <4>1. /\ Reached(rd, k, fill) /\ ~ IsGood(rd, k + 1)
              /\ read_line(line) = rd[k + 1] /\ read_line(line) \in Reads /\ k \in Nat
          BY <2>1, <2>3
        <4> HIDE DEF line, fill
        <4>2. /\ take_line(fill, line).done /\ take_line(fill, line).sections = fill.sections
              /\ take_line(fill, line).variables = fill.variables
          BY <4>1, BadLine
        <4>3. QED
          BY <2>1, <4>2 DEF line, fill
      <3>2. Over(k + 1, k)
        BY <2>3, <3>1 DEF Reached
      <3>3. k \in 0 .. (k + 1) - 1
        BY <2>1
      <3> HIDE DEF Over, Going
      <3>4. QED
        BY <2>1, <3>2, <3>3
    <2>4. CASE \E m \in 0 .. k - 1 : Over(k, m)
      <3>1. PICK m \in 0 .. k - 1 : Over(k, m)
        BY <2>4
      <3>2. r[k + 1] = r[k]
        <4> DEFINE line == lines[k + 1]
                   fill == r[k]
        <4>1. fill.done
          BY <3>1
        <4> HIDE DEF line, fill
        <4>2. take_line(fill, line) = fill
          BY <4>1, DoneLine
        <4>3. QED
          BY <2>1, <4>2 DEF line, fill
      <3>3. Over(k + 1, m) /\ m \in 0 .. (k + 1) - 1
        BY <2>1, <3>1, <3>2
      <3> HIDE DEF Over, Going
      <3>4. QED
        BY <2>1, <3>3
    <2>5. QED
      BY <1>9, <2>2, <2>3, <2>4
  <1> HIDE DEF S
  <1>10. 0 .. n \subseteq S
    BY <1>5, <1>8, <1>9, RangeInduction
  <1>11. n \in S
    BY <1>5, <1>10
  <1>12. \E m \in 0 .. n : /\ ReadTo(rd, m, n, r[n].sections, r[n].variables)
                           /\ r[n].done <=> m < n
    <2>1. CASE Going(n)
      <3>1. ReadTo(rd, n, n, r[n].sections, r[n].variables) /\ ~ r[n].done
        BY <1>5, <2>1 DEF ReadTo, Reached
      <3>2. QED
        BY <1>5, <3>1
    <2>2. CASE \E m \in 0 .. n - 1 : Over(n, m)
      <3>1. PICK m \in 0 .. n - 1 : Over(n, m)
        BY <2>2
      <3>2. ReadTo(rd, m, n, r[n].sections, r[n].variables) /\ r[n].done /\ m < n /\ m \in 0 .. n
        BY <1>5, <3>1 DEF ReadTo
      <3>3. QED
        BY <3>2
    <2>3. QED
      BY <1>11, <2>1, <2>2 DEF S
  <1>13. QED
    BY <1>7, <1>12 DEF n, lines, rd

(* What an object has of the one file it was filled from, or of none.      *)
Remembers(fields, store, files) ==
    /\ files = <<>> =>
          /\ ~ fields.parser_invalid /\ ~ fields.file_read /\ ~ fields.invalid_data
          /\ fields.incorrect_str_num = 0 /\ fields.current_section_number = -1
          /\ store.sections = <<>> /\ store.variables = <<>>
    /\ Len(files) = 1 /\ files[1] \notin DOMAIN Lines => fields.parser_invalid /\ ~ fields.file_read
    /\ Len(files) = 1 /\ files[1] \in DOMAIN Lines =>
          /\ ~ fields.parser_invalid /\ fields.file_read
          /\ \E m \in 0 .. Len(Lines[files[1]]) :
                /\ ReadTo(AsRead(files[1]), m, Len(Lines[files[1]]), store.sections, store.variables)
                /\ fields.invalid_data <=> m < Len(Lines[files[1]])

RemembersOf(o) == Remembers(parser[o], heap[parser[o].store], fills[o])
Remembered ==
    ~ assigned =>
        /\ \A o \in Object : parser[o].alive /\ Owns(o) => RemembersOf(o)
        /\ \A o \in Object : ~ parser[o].alive => fills[o] = <<>>

(* What the object o has after a step is what p had before.                *)
Inherits(o, p) ==
    /\ parser[p].alive /\ Owns(p)
    /\ parser'[o] = [parser[p] EXCEPT !.store = parser'[o].store]
    /\ heap'[parser'[o].store] = heap[parser[p].store]
    /\ fills'[o] = fills[p]
    /\ UNCHANGED program

(* A copy, or what was moved to, remembers what its source did.            *)
LEMMA InheritsRemembers ==
    ASSUME Typed, NEW o \in Object, NEW p \in Object, Inherits(o, p), RemembersOf(p)
    PROVE  RemembersOf(o)'
  <1>1. \A file : AsRead(file)' = AsRead(file)
    BY DEF AsRead, read_line, Inherits
  <1>2. /\ parser'[o].parser_invalid = parser[p].parser_invalid
        /\ parser'[o].file_read = parser[p].file_read
        /\ parser'[o].invalid_data = parser[p].invalid_data
        /\ parser'[o].incorrect_str_num = parser[p].incorrect_str_num
        /\ parser'[o].current_section_number = parser[p].current_section_number
    <2>1. parser[p] \in Fields
      BY DEF Typed
    <2> DEFINE s == parser'[o].store
    <2> HIDE DEF s
    <2>2. parser'[o] = [parser[p] EXCEPT !.store = s]
      BY DEF Inherits, s
    <2>3. QED
      BY <2>1, <2>2 DEF Fields
  <1>3. QED
    BY <1>1, <1>2 DEF RemembersOf, Remembers, Inherits

(* The objects a step leaves alone.                                        *)
LEMMA StaysRemembers ==
    ASSUME Typed, NEW o \in Object, parser[o].alive, Owns(o), RemembersOf(o),
           parser'[o] = parser[o], heap'[parser[o].store] = heap[parser[o].store],
           fills'[o] = fills[o], program' = program
    PROVE  RemembersOf(o)'
  <1>1. parser[o] = [parser[o] EXCEPT !.store = parser[o].store]
    BY DEF Typed, Fields
  <1>2. Inherits(o, o)
    BY <1>1 DEF Inherits
  <1>3. QED
    BY <1>2, InheritsRemembers

LEMMA ConstructRemembers ==
    ASSUME Typed, Inv, FillsAreFiles, Remembered, NEW p \in Object, construct(p), ~ assigned',
           NEW o \in Object, parser'[o].alive, Owns(o)'
    PROVE  RemembersOf(o)'
  <1>1. PICK s \in Stores :
               /\ ~ heap[s].live
               /\ heap' = [heap EXCEPT ![s] = Created]
               /\ parser' = [parser EXCEPT ![p] = Constructed(s)]
    BY DEF construct
  <1>2. UNCHANGED <<program, fills, assigned>> /\ fills[p] = <<>>
    BY DEF construct, Remembered
  <1>3. CASE o = p
    <2>1. parser'[o] = Constructed(s) /\ heap'[s] = Created /\ fills'[o] = <<>>
      BY <1>1, <1>2, <1>3 DEF Typed
    <2>2. /\ Constructed(s).store = s
          /\ ~ Constructed(s).parser_invalid /\ ~ Constructed(s).file_read /\ ~ Constructed(s).invalid_data
          /\ Constructed(s).incorrect_str_num = 0 /\ Constructed(s).current_section_number = -1
      BY DEF Constructed
    <2>3. Len(<<>>) = 0
      OBVIOUS
    <2>4. QED
      BY <2>1, <2>2, <2>3, FreeIsStored DEF RemembersOf, Remembers
  <1>4. CASE o # p
    <2>1. parser'[o] = parser[o] /\ parser[o].alive /\ Owns(o)
      BY <1>1, <1>4 DEF Typed, Owns, Stores
    <2>2. heap'[parser[o].store] = heap[parser[o].store]
      BY <1>1, <2>1 DEF Typed, Owns
    <2>3. QED
      BY <1>2, <2>1, <2>2, StaysRemembers DEF Remembered
  <1>5. QED
    BY <1>3, <1>4

LEMMA CopyRemembers ==
    ASSUME Typed, Inv, FillsAreFiles, Remembered, NEW p \in Object, NEW other \in Object,
           copy_construct(p, other), ~ Break(other), ~ assigned',
           NEW o \in Object, parser'[o].alive, Owns(o)'
    PROVE  RemembersOf(o)'
  <1>1. PICK s \in Stores :
               /\ ~ heap[s].live
               /\ heap' = [heap EXCEPT ![s] = heap[parser[other].store]]
               /\ parser' = [parser EXCEPT ![p] = [parser[other] EXCEPT !.store = s]]
    BY DEF copy_construct
  <1>2. /\ fills' = [fills EXCEPT ![p] = fills[other]]
        /\ UNCHANGED <<program, assigned>>
        /\ parser[other].alive /\ Owns(other)
    BY DEF copy_construct
  <1>3. CASE o = p
    <2>1. /\ parser'[o] = [parser[other] EXCEPT !.store = s] /\ parser'[o].store = s
          /\ heap'[s] = heap[parser[other].store] /\ fills'[o] = fills[other]
      BY <1>1, <1>2, <1>3 DEF Typed, Fields, FillsAreFiles
    <2>2. Inherits(o, other)
      BY <1>2, <2>1 DEF Inherits
    <2>3. QED
      BY <1>2, <2>2, InheritsRemembers DEF Remembered
  <1>4. CASE o # p
    <2>1. parser'[o] = parser[o] /\ parser[o].alive /\ Owns(o) /\ fills'[o] = fills[o]
      BY <1>1, <1>2, <1>4 DEF Typed, Owns, Stores, FillsAreFiles
    <2>2. heap'[parser[o].store] = heap[parser[o].store]
      BY <1>1, <2>1 DEF Typed, Owns
    <2>3. QED
      BY <1>2, <2>1, <2>2, StaysRemembers DEF Remembered
  <1>5. QED
    BY <1>3, <1>4

LEMMA MoveRemembers ==
    ASSUME Typed, Inv, FillsAreFiles, Remembered, NEW p \in Object, NEW other \in Object,
           move_construct(p, other), ~ assigned',
           NEW o \in Object, parser'[o].alive, Owns(o)'
    PROVE  RemembersOf(o)'
  <1>1. /\ p # other /\ parser[other].alive
        /\ parser' = [parser EXCEPT ![p] = parser[other], ![other].store = Null]
        /\ fills' = [fills EXCEPT ![p] = fills[other], ![other] = <<>>]
        /\ UNCHANGED <<program, heap, status, assigned>>
    BY DEF move_construct
  <1>2. /\ parser'[p] = parser[other]
        /\ parser'[other].store = Null
        /\ \A r \in Object \ {p, other} : parser'[r] = parser[r]
    BY <1>1 DEF Typed, Fields
  <1>3. /\ fills'[p] = fills[other]
        /\ \A r \in Object \ {p, other} : fills'[r] = fills[r]
    BY <1>1 DEF FillsAreFiles
  <1>4. CASE o = p
    <2>1. Owns(other)
      BY <1>2, <1>4 DEF Owns, Stores
    <2>2. parser[other] = [parser[other] EXCEPT !.store = parser[other].store]
      BY DEF Typed, Fields
    <2>3. Inherits(o, other)
      BY <1>1, <1>2, <1>3, <1>4, <2>1, <2>2 DEF Inherits
    <2>4. QED
      BY <1>1, <2>1, <2>3, InheritsRemembers DEF Remembered
  <1>5. CASE o # p
    <2>1. o # other
      BY <1>2, NoStore DEF Owns, Stores
    <2>2. parser'[o] = parser[o] /\ parser[o].alive /\ Owns(o) /\ fills'[o] = fills[o]
      BY <1>2, <1>3, <1>5, <2>1 DEF Owns, Stores
    <2>3. QED
      BY <1>1, <2>2, StaysRemembers DEF Remembered
  <1>6. QED
    BY <1>4, <1>5

LEMMA DestroyRemembers ==
    ASSUME Typed, Inv, FillsAreFiles, Remembered, NEW p \in Object, destroy(p), ~ Break(p), ~ assigned',
           NEW o \in Object, parser'[o].alive, Owns(o)'
    PROVE  RemembersOf(o)'
  <1>1. /\ heap' = [s \in Stores |-> IF s = parser[p].store THEN Free ELSE heap[s]]
        /\ parser' = [r \in Object |->
              IF r = p THEN NoParser
              ELSE IF parser[r].store = parser[p].store /\ Owns(p) THEN [parser[r] EXCEPT !.store = Dangling]
              ELSE parser[r]]
        /\ fills' = [fills EXCEPT ![p] = <<>>]
        /\ UNCHANGED <<program, status, assigned>>
    BY DEF destroy
  <1>2. o # p
    BY <1>1, ConstructedIsTyped, NoStore DEF Owns, Stores
  <1>3. parser[o].store # parser[p].store \/ ~ Owns(p)
    BY <1>1, <1>2 DEF Inv, OwnersAreSole, Owns
  <1>4. parser'[o] = parser[o] /\ fills'[o] = fills[o]
    BY <1>1, <1>2, <1>3 DEF FillsAreFiles
  <1>5. Owns(o) /\ parser[o].alive
    BY <1>4 DEF Owns, Stores
  <1>6. heap'[parser[o].store] = heap[parser[o].store]
    BY <1>1, <1>3, <1>5 DEF Owns
  <1>7. QED
    BY <1>1, <1>4, <1>5, <1>6, StaysRemembers DEF Remembered

(* The first fill_parser of an object reads the file into an empty store.  *)
LEMMA FirstFill ==
    ASSUME Typed, NEW o \in Object, Owns(o), RemembersOf(o), fills[o] = <<>>, NEW file \in DOMAIN Lines
    PROVE  LET fill == filled(o, Lines[file])
               last == Len(Lines[file])
           IN \E m \in 0 .. last :
                 /\ ReadTo(AsRead(file), m, last, fill.sections, fill.variables)
                 /\ fill.done <=> m < last
  <1> DEFINE store == heap[parser[o].store]
             base == [sections |-> store.sections, variables |-> store.variables,
                      current_section_number |-> parser[o].current_section_number,
                      incorrect_str_num |-> parser[o].incorrect_str_num,
                      sections_count |-> 0, lines_count |-> 0, done |-> FALSE]
  <1>1. filled(o, Lines[file]) = Taken(base, Lines[file])
    BY DEF filled, Taken
  <1>2. base = Fresh
    BY DEF RemembersOf, Remembers, Fresh
  <1>3. program \in {"spider", "server"}
    BY DEF Typed
  <1>4. QED
    BY <1>1, <1>2, <1>3, FileRead

LEMMA FillRemembers ==
    ASSUME Typed, Inv, FillsAreFiles, Remembered, NEW p \in Object, NEW file \in File,
           fill_parser(p, file), ~ Break(p), ~ assigned',
           NEW o \in Object, parser'[o].alive, Owns(o)'
    PROVE  RemembersOf(o)'
  <1>1. /\ fills' = [fills EXCEPT ![p] = Append(fills[p], file)]
        /\ UNCHANGED <<program, assigned>> /\ parser[p].alive
    BY DEF fill_parser
  <1>2. \/ /\ file \notin DOMAIN Lines
           /\ parser' = [parser EXCEPT ![p].parser_invalid = TRUE]
           /\ heap' = heap
        \/ /\ file \in DOMAIN Lines /\ Owns(p)
           /\ heap' = [heap EXCEPT ![parser[p].store] = written(filled(p, Lines[file]))]
           /\ parser' = [parser EXCEPT ![p] = noted(parser[p], filled(p, Lines[file]))]
    BY DEF fill_parser
  <1>3. CASE o # p
    <2>1. parser'[o] = parser[o] /\ fills'[o] = fills[o]
      BY <1>1, <1>2, <1>3 DEF Typed, FillsAreFiles
    <2>2. Owns(o) /\ parser[o].alive
      BY <2>1 DEF Owns, Stores
    <2>3. heap'[parser[o].store] = heap[parser[o].store]
      <3>1. Owns(p) => parser[p].store # parser[o].store
        BY <1>1, <1>3 DEF Inv, OwnersAreSole
      <3>2. QED
        BY <1>2, <2>2, <3>1 DEF Typed, Owns
    <2>4. QED
      BY <1>1, <2>1, <2>2, <2>3, StaysRemembers DEF Remembered
  <1>4. CASE o = p
    <2>1. /\ fills[o] \in Seq(File) /\ fills'[o] = Append(fills[o], file)
      BY <1>1, <1>4 DEF FillsAreFiles
    <2>2. CASE fills[o] # <<>>
      <3>1. Len(fills'[o]) # 1 /\ fills'[o] # <<>>
        BY <2>1, <2>2
      <3>2. QED
        BY <3>1 DEF RemembersOf, Remembers
    <2>3. CASE fills[o] = <<>>
      <3>1. Len(fills'[o]) = 1 /\ fills'[o][1] = file /\ fills'[o] # <<>>
        BY <2>1, <2>3
      <3>2. Owns(o)
        BY <1>2, <1>4 DEF Owns, Stores, Typed, Fields
      <3>3. RemembersOf(o)
        BY <1>1, <1>4, <3>2 DEF Remembered
      <3>4. parser[o] \in Fields /\ ~ parser[o].parser_invalid /\ ~ parser[o].file_read /\ ~ parser[o].invalid_data
        BY <2>3, <3>3 DEF RemembersOf, Remembers, Typed
      <3>5. CASE file \notin DOMAIN Lines
        <4>1. parser'[o] = [parser[o] EXCEPT !.parser_invalid = TRUE]
          BY <1>2, <1>4, <3>5 DEF Typed
        <4>2. parser'[o].parser_invalid /\ ~ parser'[o].file_read
          BY <3>4, <4>1 DEF Fields
        <4>3. QED
          BY <3>1, <3>5, <4>2 DEF RemembersOf, Remembers
      <3>6. CASE file \in DOMAIN Lines
        <4> DEFINE fill == filled(o, Lines[file])
                   last == Len(Lines[file])
        <4>1. /\ parser'[o] = noted(parser[o], fill)
              /\ heap' = [heap EXCEPT ![parser[o].store] = written(fill)]
          BY <1>2, <1>4, <3>6 DEF Typed
        <4>2. PICK m \in 0 .. last :
                    /\ ReadTo(AsRead(file), m, last, fill.sections, fill.variables)
                    /\ fill.done <=> m < last
          BY <2>3, <3>2, <3>3, <3>6, FirstFill
        <4>3. fill \in Fill /\ fill.variables \in Tables
          BY <3>2, <3>6, FilledSound DEF Sound, Fill
        <4> HIDE DEF fill, last
        <4>4. Len(fill.variables) = Cardinality(DOMAIN fill.sections)
          BY <4>2 DEF ReadTo, Holds
        <4>5. /\ parser'[o].store = parser[o].store /\ parser'[o].file_read /\ ~ parser'[o].parser_invalid
              /\ parser'[o].invalid_data <=> fill.done
          BY <3>4, <4>1, <4>4 DEF noted, Fields
        <4>6. heap'[parser'[o].store] = written(fill)
          BY <3>2, <4>1, <4>5 DEF Typed, Owns
        <4>7. heap'[parser'[o].store].sections = fill.sections /\ heap'[parser'[o].store].variables = fill.variables
          BY <4>6 DEF written
        <4>8. AsRead(file)' = AsRead(file)
          BY <1>1 DEF AsRead, read_line
        <4>9. QED
          BY <3>1, <3>6, <4>2, <4>5, <4>7, <4>8 DEF RemembersOf, Remembers, last
      <3>7. QED
        BY <3>5, <3>6
    <2>4. QED
      BY <2>2, <2>3
  <1>5. QED
    BY <1>3, <1>4

(* The inductive invariant.                                                *)
FullInv == Inv /\ Typed /\ FillsAreFiles /\ Remembered

LEMMA RememberedInit == Init => Remembered
  <1> SUFFICES ASSUME Init PROVE Remembered
    OBVIOUS
  <1>1. \A o \in Object : parser[o] = NoParser /\ fills[o] = <<>>
    BY DEF Init
  <1>2. ~ NoParser.alive
    BY DEF NoParser, Constructed
  <1>3. QED
    BY <1>1, <1>2 DEF Remembered

LEMMA RememberedStep ==
    ASSUME FullInv, [Next]_vars
    PROVE  Remembered'
  <1> SUFFICES ASSUME ~ assigned'
               PROVE  /\ \A o \in Object : parser'[o].alive /\ Owns(o)' => RemembersOf(o)'
                      /\ \A o \in Object : ~ parser'[o].alive => fills'[o] = <<>>
    BY DEF Remembered
  <1> USE DEF FullInv
  <1>0. \A file : program' = program => AsRead(file)' = AsRead(file)
    BY DEF AsRead, read_line
  <1>1. ASSUME UNCHANGED <<program, parser, heap, fills>>, ~ assigned
        PROVE  /\ \A o \in Object : parser'[o].alive /\ Owns(o)' => RemembersOf(o)'
               /\ \A o \in Object : ~ parser'[o].alive => fills'[o] = <<>>
    BY <1>0, <1>1 DEF Remembered, RemembersOf, Remembers, Owns, Stores
  <1>2. CASE UNCHANGED vars
    BY <1>1, <1>2 DEF vars
  <1>3. ASSUME NEW p \in Object, Break(p), UNCHANGED assigned
        PROVE  /\ \A o \in Object : parser'[o].alive /\ Owns(o)' => RemembersOf(o)'
               /\ \A o \in Object : ~ parser'[o].alive => fills'[o] = <<>>
    BY <1>1, <1>3 DEF Break
  <1>4. ASSUME NEW p \in Object, construct(p)
        PROVE  /\ \A o \in Object : parser'[o].alive /\ Owns(o)' => RemembersOf(o)'
               /\ \A o \in Object : ~ parser'[o].alive => fills'[o] = <<>>
    <2>1. \A o \in Object : ~ parser'[o].alive => fills'[o] = <<>>
      BY <1>4 DEF construct, Typed, Constructed, Remembered
    <2>2. QED
      BY <1>4, <2>1, ConstructRemembers
  <1>5. ASSUME NEW p \in Object, destroy(p)
        PROVE  /\ \A o \in Object : parser'[o].alive /\ Owns(o)' => RemembersOf(o)'
               /\ \A o \in Object : ~ parser'[o].alive => fills'[o] = <<>>
    <2>1. CASE Break(p)
      BY <1>3, <1>5, <2>1 DEF destroy
    <2>2. CASE ~ Break(p)
      <3>1. /\ \A r \in Object : r # p => parser'[r].alive = parser[r].alive
            /\ fills' = [fills EXCEPT ![p] = <<>>] /\ UNCHANGED assigned
        BY <1>5, <2>2 DEF destroy, Typed, Fields
      <3>2. \A o \in Object : ~ parser'[o].alive => fills'[o] = <<>>
        BY <3>1 DEF Remembered, FillsAreFiles
      <3>3. QED
        BY <1>5, <2>2, <3>2, DestroyRemembers
    <2>3. QED
      BY <2>1, <2>2
  <1>6. ASSUME NEW p \in Object, NEW other \in Object, copy_construct(p, other)
        PROVE  /\ \A o \in Object : parser'[o].alive /\ Owns(o)' => RemembersOf(o)'
               /\ \A o \in Object : ~ parser'[o].alive => fills'[o] = <<>>
    <2>1. CASE Break(other)
      BY <1>3, <1>6, <2>1 DEF copy_construct
    <2>2. CASE ~ Break(other)
      <3>1. PICK s \in Stores : parser' = [parser EXCEPT ![p] = [parser[other] EXCEPT !.store = s]]
        BY <1>6, <2>2 DEF copy_construct
      <3>2. /\ fills' = [fills EXCEPT ![p] = fills[other]] /\ UNCHANGED assigned
            /\ parser[other].alive
        BY <1>6, <2>2 DEF copy_construct
      <3>3. parser'[p].alive /\ \A r \in Object \ {p} : parser'[r] = parser[r]
        BY <3>1, <3>2 DEF Typed, Fields
      <3>4. \A o \in Object : ~ parser'[o].alive => fills'[o] = <<>>
        BY <3>2, <3>3 DEF Remembered, FillsAreFiles
      <3>5. QED
        BY <1>6, <2>2, <3>4, CopyRemembers
    <2>3. QED
      BY <2>1, <2>2
  <1>7. ASSUME NEW p \in Object, NEW other \in Object, move_construct(p, other)
        PROVE  /\ \A o \in Object : parser'[o].alive /\ Owns(o)' => RemembersOf(o)'
               /\ \A o \in Object : ~ parser'[o].alive => fills'[o] = <<>>
    <2>1. /\ parser' = [parser EXCEPT ![p] = parser[other], ![other].store = Null]
          /\ fills' = [fills EXCEPT ![p] = fills[other], ![other] = <<>>]
          /\ UNCHANGED assigned /\ parser[other].alive /\ p # other
      BY <1>7 DEF move_construct
    <2>2. parser'[p].alive /\ \A r \in Object \ {p, other} : parser'[r] = parser[r]
      BY <2>1 DEF Typed, Fields
    <2>3. \A o \in Object : ~ parser'[o].alive => fills'[o] = <<>>
      BY <2>1, <2>2 DEF Remembered, FillsAreFiles
    <2>4. QED
      BY <1>7, <2>3, MoveRemembers
  <1>8. ASSUME NEW p \in Object, NEW file \in File, fill_parser(p, file)
        PROVE  /\ \A o \in Object : parser'[o].alive /\ Owns(o)' => RemembersOf(o)'
               /\ \A o \in Object : ~ parser'[o].alive => fills'[o] = <<>>
    <2>1. CASE Break(p)
      BY <1>3, <1>8, <2>1 DEF fill_parser
    <2>2. CASE ~ Break(p)
      <3>1. /\ fills' = [fills EXCEPT ![p] = Append(fills[p], file)] /\ UNCHANGED assigned
            /\ parser[p].alive
        BY <1>8, <2>2 DEF fill_parser
      <3>2. \/ parser' = [parser EXCEPT ![p].parser_invalid = TRUE]
            \/ parser' = [parser EXCEPT ![p] = noted(parser[p], filled(p, Lines[file]))]
        BY <1>8, <2>2 DEF fill_parser
      <3>3. noted(parser[p], filled(p, Lines[file])).alive = parser[p].alive
        BY DEF noted, Typed, Fields
      <3>4. \A r \in Object : parser'[r].alive = parser[r].alive
        BY <3>2, <3>3 DEF Typed, Fields
      <3>5. \A o \in Object : ~ parser'[o].alive => fills'[o] = <<>>
        BY <3>1, <3>4 DEF Remembered, FillsAreFiles
      <3>6. QED
        BY <1>8, <2>2, <3>5, FillRemembers
    <2>3. QED
      BY <2>1, <2>2
  <1>9. CASE Next
    <2>1. \A p, other \in Object :
             /\ ~ copy_assign(p, other) /\ ~ move_assign(p, other)
             /\ ~ copy_assign_2(p, other) /\ ~ move_assign_2(p, other)
      BY DEF copy_assign, move_assign, copy_assign_2, move_assign_2
    <2>2. \A p \in Object : ask(p) => Break(p) /\ UNCHANGED assigned
      BY DEF ask
    <2>3. QED
      BY <1>9, <1>3, <1>4, <1>5, <1>6, <1>7, <1>8, <2>1, <2>2 DEF Next
  <1>10. QED
    BY <1>2, <1>9

(* A greatest element is the maximum.                                      *)
LEMMA MaxIs ==
    ASSUME NEW S, NEW m \in S, S \subseteq Int, \A n \in S : n =< m
    PROVE  Max(S) = m
  <1>1. \E x \in S : \A y \in S : x >= y
    OBVIOUS
  <1>2. PICK x \in S : x = Max(S) /\ \A y \in S : x >= y
    BY <1>1 DEF Max
  <1>3. QED
    BY <1>2

(* What ValueIsOfItsSection says of one object.                            *)
LEMMA ReadValues ==
    ASSUME FullInv, NEW o \in Object, Intact(o), Len(fills[o]) = 1, fills[o][1] \in DOMAIN Lines
    PROVE  LET read == [i \in DOMAIN Lines[fills[o][1]] |-> read_line(Lines[fills[o][1]][i])]
               sections(n) == {i \in 1 .. n : read[i].type = "_section_"}
               Good(i) == \/ read[i].type \in {"_section_", "_empty_"}
                          \/ read[i].type = "_variable_" /\ sections(i) # {}
               accepted == Max({n \in 0 .. Len(read) : \A i \in 1 .. n : Good(i)})
               Under(i) == read[Max(sections(i))].name
               says(section, variable) == {i \in 1 .. accepted :
                   read[i].type = "_variable_" /\ read[i].name = variable /\ Under(i) = section}
               store == heap[parser[o].store]
               printed == print_all_sections_info(o)
           IN /\ DOMAIN store.sections = {read[i].name : i \in sections(accepted)}
              /\ \A section \in DOMAIN store.sections, variable \in {read[i].name : i \in DOMAIN read} :
                    get_variable_value(store, get_section_number(store, section), variable) =
                       IF says(section, variable) = {} THEN Throw("no_variable")
                       ELSE Give(read[Max(says(section, variable))].value)
              /\ parser[o].invalid_data <=> accepted < Len(read)
              /\ Len(printed) = Cardinality(DOMAIN store.sections)
              /\ \A i \in DOMAIN printed : printed[i].variables = store.variables[store.sections[printed[i].name] + 1]
  <1> DEFINE file == fills[o][1]
             rd == AsRead(file)
             store == heap[parser[o].store]
             last == Len(Lines[file])
             printed == print_all_sections_info(o)
  <1>1. PICK m \in 0 .. last :
              /\ ReadTo(rd, m, last, store.sections, store.variables)
              /\ parser[o].invalid_data <=> m < last
    BY DEF FullInv, Remembered, RemembersOf, Remembers, Intact
  <1>2. /\ Lines[file] \in Seq(ToSet(Lines[file]))
        /\ \A line \in ToSet(Lines[file]) : read_line(line) \in Reads
    BY LinesAreReads DEF FullInv, Typed
  <1>3. /\ last \in Nat /\ DOMAIN Lines[file] = 1 .. last
        /\ DOMAIN rd = 1 .. last /\ Len(rd) = last
        /\ \A i \in 1 .. last : rd[i] \in Reads
    BY <1>2 DEF AsRead
  <1>4. /\ store \in Stored /\ InRange(store)
    BY DEF FullInv, Typed, Intact, Owns
  <1>5. /\ AllGood(rd, m) /\ (m < last => ~ IsGood(rd, m + 1))
        /\ Holds(rd, m, store.sections, store.variables)
    BY <1>1 DEF ReadTo
  <1>6. printed = [i \in 1 .. Len(store.variables) |->
                      [name |-> get_section_name(store, i - 1), variables |-> store.variables[i]]]
    BY DEF print_all_sections_info
  <1>7. rd = [i \in DOMAIN Lines[fills[o][1]] |-> read_line(Lines[fills[o][1]][i])]
    BY DEF AsRead
  <1>8. Len(store.variables) \in Nat /\ DOMAIN store.variables = 1 .. Len(store.variables)
    BY <1>4 DEF Stored, Tables
  <1> HIDE DEF file, rd, store, last, printed
  <1>9. Max({n \in 0 .. Len(rd) : AllGood(rd, n)}) = m
    <2> DEFINE S == {n \in 0 .. Len(rd) : AllGood(rd, n)}
    <2>1. m \in S /\ S \subseteq Int
      BY <1>1, <1>3, <1>5
    <2>2. ASSUME NEW n \in S PROVE n =< m
      BY <1>3, <1>5, <2>2 DEF AllGood
    <2> HIDE DEF S
    <2>3. Max(S) = m
      BY <2>1, <2>2, MaxIs
    <2>4. QED
      BY <2>3 DEF S
  <1>10. DOMAIN store.sections = {rd[i].name : i \in SectionsTo(rd, m)}
    BY <1>5 DEF Holds
  <1>11. ASSUME NEW section \in DOMAIN store.sections, NEW variable \in {rd[i].name : i \in DOMAIN rd}
         PROVE  get_variable_value(store, get_section_number(store, section), variable) =
                   IF LinesOf(rd, m, section, variable) = {} THEN Throw("no_variable")
                   ELSE Give(rd[Max(LinesOf(rd, m, section, variable))].value)
    <2> DEFINE number == store.sections[section]
               lines == LinesOf(rd, m, section, variable)
    <2>1. number \in 0 .. Len(store.variables) - 1
      BY <1>4 DEF InRange
    <2>2. variable \in Names
      BY <1>3 DEF Names
    <2>3. IF lines = {} THEN variable \notin DOMAIN store.variables[number + 1]
          ELSE /\ variable \in DOMAIN store.variables[number + 1]
               /\ store.variables[number + 1][variable] = rd[Max(lines)].value
      BY <1>5, <2>2 DEF Holds
    <2>4. get_section_number(store, section) = number
      BY DEF get_section_number
    <2> HIDE DEF number, lines
    <2>5. get_variable_value(store, number, variable) =
             IF variable \notin DOMAIN store.variables[number + 1] THEN Throw("no_variable")
             ELSE Give(store.variables[number + 1][variable])
      BY <1>8, <2>1 DEF get_variable_value
    <2>6. QED
      BY <2>3, <2>4, <2>5 DEF lines
  <1>12. Len(printed) = Cardinality(DOMAIN store.sections)
    <2>1. Len(printed) = Len(store.variables)
      BY <1>6, <1>8
    <2>2. QED
      BY <1>5, <2>1 DEF Holds
  <1>13. ASSUME NEW i \in DOMAIN printed
         PROVE  printed[i].variables = store.variables[store.sections[printed[i].name] + 1]
    <2>1. i \in 1 .. Len(store.variables)
      BY <1>6, <1>13
    <2>2. PICK s \in DOMAIN store.sections : store.sections[s] = i - 1
      BY <1>5, <1>8, <2>1 DEF Holds
    <2>3. store.sections[get_section_name(store, i - 1)] = i - 1
      BY <2>2 DEF get_section_name
    <2>4. printed[i].name = get_section_name(store, i - 1) /\ printed[i].variables = store.variables[i]
      BY <1>6, <2>1
    <2>5. QED
      BY <2>1, <2>3, <2>4
  <1> DEFINE accepted == Max({n \in 0 .. Len(rd) : AllGood(rd, n)})
  <1>14. /\ DOMAIN store.sections = {rd[i].name : i \in SectionsTo(rd, accepted)}
         /\ \A section \in DOMAIN store.sections, variable \in {rd[i].name : i \in DOMAIN rd} :
               get_variable_value(store, get_section_number(store, section), variable) =
                  IF LinesOf(rd, accepted, section, variable) = {} THEN Throw("no_variable")
                  ELSE Give(rd[Max(LinesOf(rd, accepted, section, variable))].value)
         /\ parser[o].invalid_data <=> accepted < Len(rd)
         /\ Len(printed) = Cardinality(DOMAIN store.sections)
         /\ \A i \in DOMAIN printed : printed[i].variables = store.variables[store.sections[printed[i].name] + 1]
    <2>1. accepted = m
      BY <1>9
    <2> HIDE DEF accepted
    <2>2. QED
      BY <1>1, <1>3, <1>10, <1>11, <1>12, <1>13, <2>1
  <1>15. QED
    BY <1>14, Zenon DEF AllGood, IsGood, SectionsTo, SectionAt, LinesOf, printed, store, rd, file, AsRead

LEMMA FullInvInit == Init => FullInv
  <1>1. <<>> \in Seq(File)
    OBVIOUS
  <1>2. Init => FillsAreFiles
    BY <1>1 DEF Init, FillsAreFiles
  <1>3. QED
    BY <1>2, InitInv, TypedInit, RememberedInit DEF FullInv

LEMMA FullInvStep == FullInv /\ [Next]_vars => FullInv'
  BY NextInv, TypedStep, FillsStep, RememberedStep DEF FullInv

(* The whole invariant, of every behaviour.                                *)
LEMMA FullInvariance == Spec => []FullInv
  BY FullInvInit, FullInvStep, PTL DEF Spec

(***************************************************************************)
(* After one fill_parser a variable has the value of its last line in the  *)
(* parts of the file under its section, up to the first line that is       *)
(* wrong, and nothing else has one, for files of any length and any number *)
(* of sections, and whatever was copied, moved or destroyed since          *)
(* (ini_parser.cpp:417-554).                                               *)
(***************************************************************************)
THEOREM ValuesTheorem == Spec => []ValueIsOfItsSection
  <1>1. FullInv => ValueIsOfItsSection
    BY ReadValues, Zenon DEF ValueIsOfItsSection
  <1>2. QED
    BY <1>1, FullInvariance, PTL

(***************************************************************************)
(* main catches what get_value throws at it: no request of the form        *)
(* section.variable comes to another exception while the parser was filled *)
(* at most once (diploma_thesis.cpp:15-54, diploma_thesis_2.cpp:14-54).    *)
(***************************************************************************)
THEOREM MainTheorem == Spec => []MainCatchesAll
  <1>1. ASSUME FullInv, NEW o \in Object, Intact(o), Len(fills[o]) =< 1,
               NEW request \in Requests, NEW T \in {"string", "int", "bool"}
        PROVE  get_value(T, o, request).exception \in {"none", "no_file", "no_section", "no_variable"}
    <2> DEFINE Caught == {"none", "no_file", "no_section", "no_variable"}
               names == read_request(request)
               store == heap[parser[o].store]
               index == get_section_number(store, names.section)
               found == get_variable_value(store, index, names.variable)
    <2>1. \A name : Throw(name).exception = name /\ \A value : Give(value).exception = "none"
      BY DEF Throw, Give
    <2>2. check_parser(o) # "error"
      <3>1. RemembersOf(o) /\ fills[o] \in Seq(File)
        BY <1>1 DEF FullInv, Remembered, Intact, FillsAreFiles
      <3>2. fills[o] = <<>> \/ Len(fills[o]) = 1
        <4>1. \A files \in Seq(File) : Len(files) =< 1 => files = <<>> \/ Len(files) = 1
          OBVIOUS
        <4>2. QED
          BY <1>1, <3>1, <4>1
      <3>3. parser[o].file_read => ~ parser[o].parser_invalid
        BY <3>1, <3>2 DEF RemembersOf, Remembers
      <3>4. parser[o].store # Null
        BY <1>1, NoStore DEF Intact, Owns
      <3>5. QED
        BY <3>3, <3>4 DEF check_parser
    <2>3. check_parser(o) \in {"no_file", "error", "incorrect_data", "none"}
      BY DEF check_parser
    <2>4. names # Bad
      BY IniAssumption DEF read_request
    <2>5. ~ index < 0 => found.exception \in Caught
      <3>1. store \in Stored /\ InRange(store)
        BY <1>1 DEF FullInv, Typed, Intact, Owns
      <3>2. Len(store.variables) \in Nat
        BY <3>1 DEF Stored, Tables
      <3> SUFFICES ASSUME ~ index < 0 PROVE found.exception \in Caught
        OBVIOUS
      <3>3. index \in 0 .. Len(store.variables) - 1
        BY <3>1 DEF get_section_number, InRange
      <3> HIDE DEF index, store, names
      <3>4. ~ index >= Len(store.variables)
        BY <3>2, <3>3
      <3>5. found = IF names.variable \notin DOMAIN store.variables[index + 1] THEN Throw("no_variable")
                    ELSE Give(store.variables[index + 1][names.variable])
        BY <3>4 DEF get_variable_value
      <3> HIDE DEF found
      <3>6. QED
        BY <2>1, <3>5
    <2>6. \A text : as_type(T, text).exception \in Caught
      <3>1. \A text : stoi(text).exception \in Caught
        BY <2>1, Zenon DEF stoi
      <3> HIDE DEF Caught
      <3>2. "none" \in Caught
        BY DEF Caught
      <3>3. QED
        BY <1>1, <2>1, <3>1, <3>2 DEF as_type
    <2>7. get_value(T, o, request) =
             IF check_parser(o) \in {"no_file", "error"} THEN Throw(check_parser(o))
             ELSE IF names = Bad THEN Throw("incorrect_request")
             ELSE IF index < 0 THEN Throw("no_section")
             ELSE IF found.exception # "none" THEN found
             ELSE as_type(T, found.value)
      BY DEF get_value
    <2> HIDE DEF names, store, index, found
    <2>8. QED
      BY <2>1, <2>2, <2>3, <2>4, <2>5, <2>6, <2>7
  <1>2. FullInv => MainCatchesAll
    BY <1>1, Zenon DEF MainCatchesAll
  <1>3. QED
    BY <1>2, FullInvariance, PTL
=============================================================================
