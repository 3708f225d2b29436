---------------------------- MODULE ParsingProofs ---------------------------
(***************************************************************************)
(* Theorems about what Mobly parses: the selectors of the command line     *)
(* (TestSelectors) and the output of an instrumentation run                *)
(* (Instrumentation).  The selectors pick exactly what was asked for,      *)
(* whatever classes and test names there are (SelectsAsked), and the       *)
(* parser files the record of each test, however many there are            *)
(* (FilesEach).                                                            *)
(*                                                                         *)
(* Their loops are recursive functions over the positions of a sequence.   *)
(* That these have a value, and what it is, is shown by induction over a   *)
(* set of positions: one with 0 that goes from each position to the next   *)
(* has them all (Upwards).                                                 *)
(***************************************************************************)
EXTENDS MCTestRun, SequenceTheorems, FiniteSetTheorems, WellFoundedInduction, TLAPS

-----------------------------------------------------------------------------
(* Induction: a set of natural numbers has a least element.                  *)
LEMMA Least ==
  ASSUME NEW T, T \subseteq Nat, T # {}
  PROVE  \E x \in T : \A y \in T : x <= y
<1>1. PICK x \in T : \A y \in T : <<y, x>> \notin OpToRel(<, Nat)
  BY NatLessThanWellFounded, WFMin
<1>2. ASSUME NEW y \in T PROVE x <= y
  <2>1. <<y, x>> \notin {ss \in Nat \X Nat : ss[1] < ss[2]}
    BY <1>1 DEF OpToRel
  <2> QED
    BY <2>1
<1> QED
  BY <1>2

(* What holds of 0, and of a number if of the one before, holds of all up to  *)
(* a bound.                                                                  *)
LEMMA Upwards ==
  ASSUME NEW top \in Nat, NEW S, 0 \in S,
         \A i \in 1..top : i - 1 \in S => i \in S
  PROVE  \A i \in 0..top : i \in S
<1> DEFINE Bad == {i \in 0..top : i \notin S}
<1>1. Bad \subseteq Nat
  OBVIOUS
<1> SUFFICES ASSUME Bad # {} PROVE FALSE
  OBVIOUS
<1> HIDE DEF Bad
<1>2. PICK k \in Bad : \A j \in Bad : k <= j
  BY <1>1, Least
<1> USE DEF Bad
<1>3. k \in 1..top /\ k - 1 \in 0..top /\ k - 1 \notin Bad
  BY <1>2
<1> QED
  BY <1>2, <1>3

-----------------------------------------------------------------------------
(* Selectors *)

(* Selectors of parts X of names and of tests T, and the entries of the dict. *)
SelectorType(X, T) == [name : Seq(X) \ {<<>>}, test : T]

DictEntry(X, T) ==
  [key : [cls : X, suffix : Seq(X)], tests : [all : BOOLEAN, names : Seq(T)]]

(* Selector number j names the key. *)
NamesKey(selectors, j, key) == Selectors!Key(selectors[j]) = key

(* What the dict holds after the first i selectors: a key for each of them,   *)
(* once, in the order of their first selectors, with the tests asked for.    *)
Collected(d, selectors, i) ==
  /\ \A a, b \in DOMAIN d : d[a].key = d[b].key => a = b
  /\ \A j \in 1..i : \E a \in DOMAIN d : NamesKey(selectors, j, d[a].key)
  /\ \A a \in DOMAIN d : \E j \in 1..i :
       /\ NamesKey(selectors, j, d[a].key)
       /\ \A b \in DOMAIN d : a < b =>
            \A l \in 1..j : ~NamesKey(selectors, l, d[b].key)
  /\ \A a \in DOMAIN d : \A t :
       t # Selectors!None =>
         (Selectors!Runs(d[a].tests, t) <=>
            \E j \in 1..i : /\ NamesKey(selectors, j, d[a].key)
                            /\ selectors[j].test \in {Selectors!None, t})

(* A selector for a class that has one already adds what it asks for.        *)
LEMMA MergedRuns ==
  ASSUME NEW T, NEW tests \in [all : BOOLEAN, names : Seq(T)], NEW test \in T
  PROVE  /\ Selectors!Merged(tests, test) \in [all : BOOLEAN, names : Seq(T)]
         /\ \A t : t # Selectors!None =>
              (Selectors!Runs(Selectors!Merged(tests, test), t) <=>
                 Selectors!Runs(tests, t) \/ test \in {Selectors!None, t})
<1> DEFINE new == Selectors!Merged(tests, test)
<1>1. CASE test = Selectors!None \/ tests.all
  <2>1. new = [all |-> TRUE, names |-> <<>>]
    BY <1>1 DEF Selectors!Merged, Selectors!Whole
  <2> QED
    BY <1>1, <2>1 DEF Selectors!Runs
<1>2. CASE ~(test = Selectors!None \/ tests.all)
  <2> DEFINE more == Append(tests.names, test)
  <2>1. /\ more \in Seq(T) /\ Len(more) = Len(tests.names) + 1
        /\ \A i \in 1..Len(tests.names) : more[i] = tests.names[i]
        /\ more[Len(tests.names) + 1] = test
    BY AppendProperties
  <2>2. new = [all |-> FALSE, names |-> more]
    BY <1>2 DEF Selectors!Merged
  <2>3. /\ DOMAIN tests.names = 1..Len(tests.names)
        /\ Len(tests.names) \in Nat
        /\ DOMAIN more = 1..Len(tests.names) + 1
    BY <2>1
  <2> HIDE DEF more, new
  <2>4. \A t : (\E i \in DOMAIN more : more[i] = t) <=>
                 t = test \/ \E i \in DOMAIN tests.names : tests.names[i] = t
    BY <2>1, <2>3
  <2>5. \A t : t \in {more[i] : i \in DOMAIN more} <=>
                 t = test \/ t \in {tests.names[i] : i \in DOMAIN tests.names}
    BY <2>4
  <2> QED
    BY <1>2, <2>1, <2>2, <2>5 DEF Selectors!Runs, Selectors!ToSet, new
<1> QED
  BY <1>1, <1>2

(* A selector is entered under its key. *)
LEMMA NotedKeeps ==
  ASSUME NEW X, NEW T, NEW selectors \in Seq(SelectorType(X, T)),
         NEW i \in 1..Len(selectors),
         NEW d \in Seq(DictEntry(X, T)), Collected(d, selectors, i - 1)
  PROVE  /\ Selectors!Noted(d, selectors[i]) \in Seq(DictEntry(X, T))
         /\ Collected(Selectors!Noted(d, selectors[i]), selectors, i)
<1> DEFINE s == selectors[i]
           key == Selectors!Key(s)
           e == Selectors!Noted(d, s)
<1>1. s \in SelectorType(X, T) /\ i \in Nat /\ Len(selectors) \in Nat
      /\ s.test \in T /\ s.name \in Seq(X) /\ s.name # <<>>
  <2>1. i \in Nat /\ Len(selectors) \in Nat
    OBVIOUS
  <2>2. selectors[i] \in SelectorType(X, T)
    BY ElementOfSeq
  <2> QED
    BY <2>1, <2>2 DEF SelectorType
<1>2. key \in [cls : X, suffix : Seq(X)]
  <2>1. Head(s.name) \in X /\ Tail(s.name) \in Seq(X)
    BY <1>1, HeadTailProperties
  <2> QED
    BY <2>1 DEF Selectors!Key
<1>3. \A k : NamesKey(selectors, i, k) <=> key = k
  BY DEF NamesKey
<1> HIDE DEF s, key
<1>4. DOMAIN d = 1..Len(d) /\ Len(d) \in Nat
      /\ \A a \in DOMAIN d : d[a] \in DictEntry(X, T)
  OBVIOUS
<1>5. \A j : j \in 1..i <=> j \in 1..i - 1 \/ j = i
  BY <1>1
<1>6. CASE key \in Selectors!KeysOf(d)
  <2>1. e = [a \in DOMAIN d |->
               IF d[a].key = key
               THEN [d[a] EXCEPT !.tests = Selectors!Merged(@, s.test)] ELSE d[a]]
    BY <1>6 DEF Selectors!Noted, key
  <2> DEFINE new(a) == Selectors!Merged(d[a].tests, s.test)
  <2>2. \A a \in DOMAIN d :
          /\ new(a) \in [all : BOOLEAN, names : Seq(T)]
          /\ \A t : t # Selectors!None =>
               (Selectors!Runs(new(a), t) <=>
                  Selectors!Runs(d[a].tests, t) \/ s.test \in {Selectors!None, t})
    <3> SUFFICES ASSUME NEW a \in DOMAIN d
                 PROVE  /\ new(a) \in [all : BOOLEAN, names : Seq(T)]
                        /\ \A t : t # Selectors!None =>
                             (Selectors!Runs(new(a), t) <=>
                                \/ Selectors!Runs(d[a].tests, t)
                                \/ s.test \in {Selectors!None, t})
      OBVIOUS
    <3>1. d[a].tests \in [all : BOOLEAN, names : Seq(T)]
      BY <1>4 DEF DictEntry
    <3> QED
      BY <1>1, <3>1, MergedRuns
  <2> HIDE DEF new
  <2>3. DOMAIN e = DOMAIN d
    BY <2>1
  <2>4. \A a \in DOMAIN d :
          /\ e[a] \in DictEntry(X, T)
          /\ e[a].key = d[a].key
          /\ e[a].tests = IF d[a].key = key THEN new(a) ELSE d[a].tests
    <3> SUFFICES ASSUME NEW a \in DOMAIN d
                 PROVE  /\ e[a] \in DictEntry(X, T)
                        /\ e[a].key = d[a].key
                        /\ e[a].tests = IF d[a].key = key THEN new(a)
                                                          ELSE d[a].tests
      OBVIOUS
    <3>1. e[a] = IF d[a].key = key
                 THEN [d[a] EXCEPT !.tests = new(a)] ELSE d[a]
      BY <2>1 DEF new
    <3>2. d[a] \in DictEntry(X, T) /\ new(a) \in [all : BOOLEAN, names : Seq(T)]
      BY <1>4, <2>2
    <3> QED
      BY <3>1, <3>2 DEF DictEntry
  <2>5. e \in Seq(DictEntry(X, T))
    <3>1. e = [a \in 1..Len(d) |-> e[a]]
      BY <1>4, <2>1
    <3> HIDE DEF e
    <3>2. e \in [1..Len(d) -> DictEntry(X, T)]
      BY <1>4, <2>4, <3>1
    <3> QED
      BY <1>4, <3>2, SeqDef
  <2>6. PICK b \in DOMAIN d : d[b].key = key
    BY <1>6 DEF Selectors!KeysOf
  <2> HIDE DEF e
  <2>7. /\ \A a, c \in DOMAIN e : e[a].key = e[c].key => a = c
        /\ \A j \in 1..i : \E a \in DOMAIN e : NamesKey(selectors, j, e[a].key)
    <3>1. \A a, c \in DOMAIN e : e[a].key = e[c].key => a = c
      BY <2>3, <2>4 DEF Collected
    <3>2. ASSUME NEW j \in 1..i
          PROVE  \E a \in DOMAIN d : NamesKey(selectors, j, d[a].key)
      <4>1. CASE j = i
        BY <1>3, <2>6, <4>1
      <4>2. CASE j \in 1..i - 1
        BY <4>2 DEF Collected
      <4> QED
        BY <1>5, <3>2, <4>1, <4>2
    <3> QED
      BY <2>3, <2>4, <3>1, <3>2
  <2>8. ASSUME NEW a \in DOMAIN e
        PROVE  \E j \in 1..i :
                 /\ NamesKey(selectors, j, e[a].key)
                 /\ \A c \in DOMAIN e : a < c =>
                      \A l \in 1..j : ~NamesKey(selectors, l, e[c].key)
    <3>1. PICK j \in 1..i - 1 :
            /\ NamesKey(selectors, j, d[a].key)
            /\ \A c \in DOMAIN d : a < c =>
                 \A l \in 1..j : ~NamesKey(selectors, l, d[c].key)
      BY <2>3, <2>8 DEF Collected
    <3> QED
      BY <1>5, <2>3, <2>4, <2>8, <3>1
  <2>9. ASSUME NEW a \in DOMAIN e, NEW t, t # Selectors!None
        PROVE  Selectors!Runs(e[a].tests, t) <=>
                 \E j \in 1..i : /\ NamesKey(selectors, j, e[a].key)
                                 /\ selectors[j].test \in {Selectors!None, t}
    <3>1. Selectors!Runs(d[a].tests, t) <=>
            \E j \in 1..i - 1 : /\ NamesKey(selectors, j, d[a].key)
                                /\ selectors[j].test \in {Selectors!None, t}
      BY <2>3, <2>9 DEF Collected
    <3>2. CASE d[a].key = key
      <4>1. Selectors!Runs(e[a].tests, t) <=>
              Selectors!Runs(d[a].tests, t) \/ s.test \in {Selectors!None, t}
        BY <2>2, <2>3, <2>4, <2>9, <3>2
      <4> QED
        BY <1>3, <1>5, <2>3, <2>4, <2>9, <3>1, <3>2, <4>1 DEF s
    <3>3. CASE d[a].key # key
      BY <1>3, <1>5, <2>3, <2>4, <2>9, <3>1, <3>3
    <3> QED
      BY <3>2, <3>3
  <2> QED
    BY <2>5, <2>7, <2>8, <2>9 DEF Collected, e, s
<1>7. CASE key \notin Selectors!KeysOf(d)
  <2> DEFINE tests == IF s.test = Selectors!None THEN Selectors!Whole
                      ELSE Selectors!Just(s.test)
             last == Len(d) + 1
             entry == [key |-> key, tests |-> tests]
  <2>1. e = Append(d, entry)
    BY <1>7 DEF Selectors!Noted, key
  <2>2. /\ tests \in [all : BOOLEAN, names : Seq(T)]
        /\ \A t : t # Selectors!None =>
             (Selectors!Runs(tests, t) <=> s.test \in {Selectors!None, t})
    <3>1. CASE s.test = Selectors!None
      <4>1. tests = [all |-> TRUE, names |-> <<>>]
        BY <3>1 DEF Selectors!Whole
      <4> HIDE DEF tests
      <4> QED
        BY <3>1, <4>1 DEF Selectors!Runs
    <3>2. CASE s.test # Selectors!None
      <4>1. tests = [all |-> FALSE, names |-> <<s.test>>]
        BY <3>2 DEF Selectors!Just
      <4>2. /\ <<s.test>> \in Seq(T) /\ DOMAIN <<s.test>> = {1}
            /\ <<s.test>>[1] = s.test
        BY <1>1
      <4>3. \A t : t \in {<<s.test>>[x] : x \in DOMAIN <<s.test>>} <=> t = s.test
        BY <4>2
      <4> HIDE DEF tests
      <4>4. \A t : Selectors!Runs(tests, t) <=> t = s.test
        BY <4>1, <4>3 DEF Selectors!Runs, Selectors!ToSet
      <4>5. tests \in [all : BOOLEAN, names : Seq(T)]
        BY <4>1, <4>2
      <4> QED
        BY <3>2, <4>4, <4>5
    <3> QED
      BY <3>1, <3>2
  <2> HIDE DEF tests
  <2>3. entry \in DictEntry(X, T) /\ entry.key = key /\ entry.tests = tests
    BY <1>2, <2>2 DEF DictEntry
  <2> HIDE DEF entry
  <2>4. /\ e \in Seq(DictEntry(X, T)) /\ DOMAIN e = DOMAIN d \cup {last}
        /\ e[last] = entry /\ \A a \in DOMAIN d : e[a] = d[a] /\ a < last
        /\ last \notin DOMAIN d
    BY <1>4, <2>1, <2>3, AppendProperties
  <2>5. \A a \in DOMAIN d : d[a].key # key
    BY <1>7 DEF Selectors!KeysOf
  <2> HIDE DEF e, last
  <2>6. \A a, c \in DOMAIN e : e[a].key = e[c].key => a = c
    BY <2>3, <2>4, <2>5 DEF Collected
  <2>7. \A j \in 1..i : \E a \in DOMAIN e : NamesKey(selectors, j, e[a].key)
    BY <1>3, <1>5, <2>3, <2>4 DEF Collected
  <2>8. \A j \in 1..i - 1 : ~NamesKey(selectors, j, key)
    BY <2>5 DEF Collected, NamesKey
  <2>9. ASSUME NEW a \in DOMAIN e
        PROVE  \E j \in 1..i :
                 /\ NamesKey(selectors, j, e[a].key)
                 /\ \A c \in DOMAIN e : a < c =>
                      \A l \in 1..j : ~NamesKey(selectors, l, e[c].key)
    <3>1. CASE a = last
      <4>1. \A c \in DOMAIN e : ~(a < c)
        BY <1>4, <2>4, <3>1 DEF last
      <4> QED
        BY <1>3, <1>5, <2>3, <2>4, <3>1, <4>1
    <3>2. CASE a \in DOMAIN d
      <4>1. PICK j \in 1..i - 1 :
              /\ NamesKey(selectors, j, d[a].key)
              /\ \A c \in DOMAIN d : a < c =>
                   \A l \in 1..j : ~NamesKey(selectors, l, d[c].key)
        BY <3>2 DEF Collected
      <4>2. \A l \in 1..j : l \in 1..i - 1
        BY <1>1, <4>1
      <4>3. \A l \in 1..j : ~NamesKey(selectors, l, key)
        BY <2>8, <4>2
      <4> QED
        BY <1>5, <2>3, <2>4, <3>2, <4>1, <4>3
    <3> QED
      BY <2>4, <2>9, <3>1, <3>2
  <2>10. ASSUME NEW a \in DOMAIN e, NEW t, t # Selectors!None
         PROVE  Selectors!Runs(e[a].tests, t) <=>
                  \E j \in 1..i : /\ NamesKey(selectors, j, e[a].key)
                                  /\ selectors[j].test \in {Selectors!None, t}
    <3>1. CASE a = last
      <4>1. \A j \in 1..i : NamesKey(selectors, j, key) <=> j = i
        BY <1>3, <1>5, <2>8
      <4>2. i \in 1..i
        BY <1>5
      <4> QED
        BY <2>2, <2>3, <2>4, <2>10, <3>1, <4>1, <4>2 DEF s
    <3>2. CASE a \in DOMAIN d
      <4>1. Selectors!Runs(d[a].tests, t) <=>
              \E j \in 1..i - 1 : /\ NamesKey(selectors, j, d[a].key)
                                  /\ selectors[j].test \in {Selectors!None, t}
        BY <2>10, <3>2 DEF Collected
      <4> QED
        BY <1>3, <1>5, <2>4, <2>5, <3>2, <4>1
    <3> QED
      BY <2>4, <2>10, <3>1, <3>2
  <2> QED
    BY <2>4, <2>6, <2>7, <2>9, <2>10 DEF Collected, e, s
<1> QED
  BY <1>6, <1>7

(* _parse_raw_test_selector enters them one by one. *)
LEMMA ParsedCollects ==
  ASSUME NEW X, NEW T, NEW selectors \in Seq(SelectorType(X, T))
  PROVE  LET d == Selectors!ParseRawTestSelector(selectors)
         IN /\ d \in Seq(DictEntry(X, T))
            /\ Collected(d, selectors, Len(selectors))
<1> DEFINE size == Len(selectors)
           Turn(d, i) == Selectors!Noted(d, selectors[i])
           Solved(k) ==
             \E g : g = [i \in 0..k |->
                          IF i = 0 THEN <<>> ELSE Turn(g[i - 1], i)]
<1>1. size \in Nat
  OBVIOUS
<1> HIDE DEF Turn
<1>2. Solved(0)
  <2>1. [i \in 0..0 |-> <<>>] =
          [i \in 0..0 |->
            IF i = 0 THEN <<>> ELSE Turn([j \in 0..0 |-> <<>>][i - 1], i)]
    OBVIOUS
  <2> QED
    BY <2>1
<1>3. ASSUME NEW k \in 1..size, Solved(k - 1) PROVE Solved(k)
  <2>1. PICK g : g = [i \in 0..k - 1 |->
                       IF i = 0 THEN <<>> ELSE Turn(g[i - 1], i)]
    BY <1>3
  <2> DEFINE h == [i \in 0..k |-> IF i = k THEN Turn(g[k - 1], k) ELSE g[i]]
  <2>2. ASSUME NEW i \in 0..k
        PROVE  h[i] = IF i = 0 THEN <<>> ELSE Turn(h[i - 1], i)
    <3>1. CASE i = k
      <4>1. k - 1 \in 0..k /\ k - 1 # k /\ k # 0 /\ k \in 0..k
        BY <1>1
      <4>2. h[k - 1] = g[k - 1]
        BY <4>1
      <4> QED
        BY <3>1, <4>1, <4>2
    <3>2. CASE i # k
      <4>1. i \in 0..k - 1
        BY <1>1, <2>2, <3>2
      <4>2. i # 0 => i - 1 \in 0..k /\ i - 1 # k
        BY <4>1
      <4>3. i # 0 => h[i - 1] = g[i - 1]
        BY <4>2
      <4>4. h[i] = g[i]
        BY <3>2
      <4> QED
        BY <2>1, <4>1, <4>3, <4>4
    <3> QED
      BY <3>1, <3>2
  <2> HIDE DEF h
  <2>3. h = [i \in 0..k |-> h[i]]
    BY DEF h
  <2>4. h = [i \in 0..k |-> IF i = 0 THEN <<>> ELSE Turn(h[i - 1], i)]
    BY <2>2, <2>3
  <2> QED
    BY <2>4
<1>4. Solved(size)
  <2> DEFINE S == {k \in 0..size : Solved(k)}
  <2> HIDE DEF Solved
  <2>1. 0 \in S
    BY <1>1, <1>2
  <2>2. ASSUME NEW k \in 1..size, k - 1 \in S PROVE k \in S
    BY <1>1, <1>3, <2>2
  <2>3. size \in 0..size
    BY <1>1
  <2> HIDE DEF S
  <2>4. \A k \in 0..size : k \in S
    BY <1>1, <2>1, <2>2, Upwards
  <2> QED
    BY <2>3, <2>4 DEF S
<1> DEFINE noted[i \in 0..size] ==
             IF i = 0 THEN <<>> ELSE Turn(noted[i - 1], i)
<1>5. Selectors!ParseRawTestSelector(selectors) = noted[size]
  BY DEF Selectors!ParseRawTestSelector, Turn
<1>6. noted = CHOOSE g : g = [i \in 0..size |->
                IF i = 0 THEN <<>> ELSE Turn(g[i - 1], i)]
  BY DEF noted
<1>7. noted = [i \in 0..size |-> IF i = 0 THEN <<>> ELSE Turn(noted[i - 1], i)]
  BY <1>4, <1>6
<1> HIDE DEF noted
<1> DEFINE S == {i \in 0..size : /\ noted[i] \in Seq(DictEntry(X, T))
                                 /\ Collected(noted[i], selectors, i)}
<1>8. 0 \in S
  <2>1. noted[0] = <<>>
    BY <1>1, <1>7
  <2>2. /\ <<>> \in Seq(DictEntry(X, T)) /\ DOMAIN <<>> = {} /\ 1..0 = {}
        /\ 0 \in 0..size
    BY <1>1
  <2>3. Collected(<<>>, selectors, 0)
    BY <2>2 DEF Collected
  <2> HIDE DEF size
  <2> QED
    BY <2>1, <2>2, <2>3
<1>9. ASSUME NEW i \in 1..size, i - 1 \in S PROVE i \in S
  <2>1. noted[i] = Selectors!Noted(noted[i - 1], selectors[i])
    BY <1>1, <1>7 DEF Turn
  <2>2. /\ noted[i - 1] \in Seq(DictEntry(X, T))
        /\ Collected(noted[i - 1], selectors, i - 1)
    BY <1>9
  <2>3. noted[i] \in Seq(DictEntry(X, T)) /\ Collected(noted[i], selectors, i)
    BY <2>1, <2>2, NotedKeeps
  <2> QED
    BY <1>1, <2>3
<1>10. size \in S
  <2> HIDE DEF S
  <2>1. \A i \in 0..size : i \in S
    BY <1>1, <1>8, <1>9, Upwards
  <2> QED
    BY <1>1, <2>1
<1> QED
  BY <1>5, <1>10

(* The first selector for a key there is one for.                            *)
LEMMA FirstForIs ==
  ASSUME NEW selectors, NEW key, NEW size \in Nat, DOMAIN selectors = 1..size,
         NEW j \in 1..size, NamesKey(selectors, j, key)
  PROVE  LET first == Selectors!FirstFor(selectors, key)
         IN /\ first \in 1..size /\ NamesKey(selectors, first, key)
            /\ \A l \in 1..first - 1 : ~NamesKey(selectors, l, key)
<1> DEFINE those == {l \in 1..size : NamesKey(selectors, l, key)}
<1>1. those \subseteq Nat /\ those # {}
  OBVIOUS
<1>2. PICK first \in those : \A l \in those : first <= l
  <2> HIDE DEF those
  <2> QED
    BY <1>1, Least
<1>3. /\ Selectors!Names(selectors[first], key)
      /\ \A l \in 1..first - 1 : ~Selectors!Names(selectors[l], key)
  BY <1>2 DEF Selectors!Names, NamesKey
<1>4. \E k \in DOMAIN selectors :
        /\ Selectors!Names(selectors[k], key)
        /\ \A l \in 1..k - 1 : ~Selectors!Names(selectors[l], key)
  BY <1>2, <1>3
<1> QED
  BY <1>4 DEF Selectors!FirstFor, Selectors!Names, NamesKey

(* compute_selected_tests and add_test_class, for any list of selectors, any   *)
(* classes and any offers of a suite: what is run is what is asked for.       *)
THEOREM SelectsAsked ==
  ASSUME NEW X, NEW T, NEW selectors \in Seq(SelectorType(X, T)),
         NEW classes, NEW offers, NEW K, NEW W,
         offers \subseteq [key : K, tests : W],
         NEW tests, Selectors!None \notin tests
  PROVE  Selectors!SelectsNamed(classes, offers, tests, selectors)
<1> DEFINE d == Selectors!ParseRawTestSelector(selectors)
           runs == Selectors!ComputeSelectedTests(classes, selectors)
           KeyOf(i) == [cls |-> runs[i].cls, suffix |-> <<>>]
           size == Len(selectors)
<1>1. d \in Seq(DictEntry(X, T)) /\ Collected(d, selectors, size)
  BY ParsedCollects
<1>2. SUFFICES ASSUME selectors # <<>>
               PROVE  Selectors!SelectsNamed(classes, offers, tests, selectors)
  BY DEF Selectors!SelectsNamed
<1>3. size \in Nat /\ DOMAIN selectors = 1..size
  OBVIOUS
<1>4. runs = [i \in DOMAIN d |-> [cls |-> d[i].key.cls, tests |-> d[i].tests]]
  BY <1>2 DEF Selectors!ComputeSelectedTests
<1>5. \A i \in DOMAIN d : d[i].key \in [cls : X, suffix : Seq(X)]
  <2>1. \A i \in DOMAIN d : d[i] \in DictEntry(X, T)
    BY <1>1
  <2> QED
    BY <2>1 DEF DictEntry
<1> HIDE DEF d, runs, size
<1>6. DOMAIN runs = DOMAIN d /\ \A i \in DOMAIN d :
        runs[i].cls = d[i].key.cls /\ runs[i].tests = d[i].tests
  BY <1>4
<1>7. \A key, t : Selectors!Asked(selectors, key, t) <=>
        \E j \in 1..size : /\ NamesKey(selectors, j, key)
                           /\ selectors[j].test \in {Selectors!None, t}
  BY <1>3 DEF Selectors!Asked, Selectors!Names, NamesKey
<1>8. ASSUME NEW key, NEW t \in tests
      PROVE  Selectors!Asked(selectors, key, t) <=>
               \E i \in DOMAIN d : d[i].key = key /\ Selectors!Runs(d[i].tests, t)
  <2>1. t # Selectors!None
    BY <1>8
  <2>2. ASSUME Selectors!Asked(selectors, key, t)
        PROVE  \E i \in DOMAIN d :
                 d[i].key = key /\ Selectors!Runs(d[i].tests, t)
    <3>1. PICK j \in 1..size : /\ NamesKey(selectors, j, key)
                               /\ selectors[j].test \in {Selectors!None, t}
      BY <1>7, <2>2
    <3>2. PICK i \in DOMAIN d : NamesKey(selectors, j, d[i].key)
      BY <1>1 DEF Collected
    <3>3. d[i].key = key
      BY <3>1, <3>2 DEF NamesKey
    <3> QED
      BY <1>1, <2>1, <3>1, <3>2, <3>3 DEF Collected
  <2>3. ASSUME NEW i \in DOMAIN d, d[i].key = key,
               Selectors!Runs(d[i].tests, t)
        PROVE  Selectors!Asked(selectors, key, t)
    BY <1>1, <1>7, <2>1, <2>3 DEF Collected
  <2> QED
    BY <2>2, <2>3
<1>9. ASSUME ~Selectors!Refused(classes, selectors)
      PROVE  /\ \A i, j \in DOMAIN runs :
                  i < j => Selectors!FirstFor(selectors, KeyOf(i))
                             < Selectors!FirstFor(selectors, KeyOf(j))
             /\ \A c \in Selectors!ToSet(classes), t \in tests :
                  Selectors!Asked(selectors, [cls |-> c, suffix |-> <<>>], t)
                    <=> \E i \in DOMAIN runs :
                          runs[i].cls = c /\ Selectors!Runs(runs[i].tests, t)
  <2>1. \A i \in DOMAIN d : d[i].key.suffix = <<>>
    BY <1>9 DEF Selectors!Refused, Selectors!KeysOf, d
  <2>2. \A i \in DOMAIN d : KeyOf(i) = d[i].key
    BY <1>5, <1>6, <2>1
  <2>3. \A i \in DOMAIN d : \A c :
          d[i].key = [cls |-> c, suffix |-> <<>>] <=> d[i].key.cls = c
    BY <1>5, <2>1
  <2> HIDE DEF KeyOf
  <2>4. ASSUME NEW a \in DOMAIN d, NEW b \in DOMAIN d, a < b
        PROVE  Selectors!FirstFor(selectors, KeyOf(a))
                 < Selectors!FirstFor(selectors, KeyOf(b))
    <3> DEFINE f == Selectors!FirstFor(selectors, KeyOf(a))
               g == Selectors!FirstFor(selectors, KeyOf(b))
    <3>1. PICK j \in 1..size :
            /\ NamesKey(selectors, j, d[a].key)
            /\ \A c \in DOMAIN d : a < c =>
                 \A l \in 1..j : ~NamesKey(selectors, l, d[c].key)
      BY <1>1 DEF Collected
    <3>2. PICK k \in 1..size : NamesKey(selectors, k, d[b].key)
      BY <1>1 DEF Collected
    <3>3. /\ f \in 1..size /\ \A l \in 1..f - 1 : ~NamesKey(selectors, l, d[a].key)
      BY <1>3, <2>2, <3>1, FirstForIs
    <3>4. g \in 1..size /\ NamesKey(selectors, g, d[b].key)
      BY <1>3, <2>2, <3>2, FirstForIs
    <3> HIDE DEF f, g
    <3>5. ~(j < f) /\ ~(g <= j)
      BY <1>3, <2>4, <3>1, <3>3, <3>4
    <3>6. f < g
      BY <1>3, <3>1, <3>3, <3>4, <3>5
    <3> QED
      BY <3>6 DEF f, g
  <2> QED
    BY <1>6, <1>8, <2>3, <2>4
<1>10. ASSUME NEW offer \in offers, NEW t \in tests
       PROVE  Selectors!Asked(selectors, offer.key, t)
                <=> \E picked \in Selectors!AddTestClass(offer, selectors) :
                      Selectors!Runs(picked.tests, t)
  <2>1. Selectors!AddTestClass(offer, selectors) =
          {[offer EXCEPT !.tests = d[i].tests] :
             i \in {i \in DOMAIN d : d[i].key = offer.key}}
    BY <1>2 DEF Selectors!AddTestClass, d
  <2>2. offer \in [key : K, tests : W]
    BY <1>10
  <2>3. \A i : [offer EXCEPT !.tests = d[i].tests].tests = d[i].tests
    BY <2>2
  <2>4. Selectors!Asked(selectors, offer.key, t)
          <=> \E i \in DOMAIN d :
                d[i].key = offer.key /\ Selectors!Runs(d[i].tests, t)
    BY <1>8, <1>10
  <2>5. ASSUME NEW i \in DOMAIN d, d[i].key = offer.key,
               Selectors!Runs(d[i].tests, t)
        PROVE  \E picked \in Selectors!AddTestClass(offer, selectors) :
                 Selectors!Runs(picked.tests, t)
    <3>1. [offer EXCEPT !.tests = d[i].tests]
            \in Selectors!AddTestClass(offer, selectors)
      BY <2>1, <2>5
    <3> QED
      BY <2>3, <2>5, <3>1
  <2>6. ASSUME NEW picked \in Selectors!AddTestClass(offer, selectors),
               Selectors!Runs(picked.tests, t)
        PROVE  \E i \in DOMAIN d :
                 d[i].key = offer.key /\ Selectors!Runs(d[i].tests, t)
    <3>1. PICK i \in DOMAIN d : /\ d[i].key = offer.key
                                /\ picked = [offer EXCEPT !.tests = d[i].tests]
      BY <2>1, <2>6
    <3> QED
      BY <2>3, <2>6, <3>1
  <2> QED
    BY <2>4, <2>5, <2>6
<1> QED
  BY <1>9, <1>10 DEF Selectors!SelectsNamed, runs

(* The command lines of the runs are among those.                            *)
THEOREM SelectionCorrect == RunSpec => []SelectionSound
<1>1. SelectionSound
  <2> DEFINE X == {"Foo", "Bar", "Baz", "A"}
             T == {"None", "test_a", "test_b"}
  <2>1. MCSelectors \subseteq SelectorType(X, T)
    <3>1. /\ <<"Foo">> \in Seq(X) \ {<<>>} /\ <<"Foo", "A">> \in Seq(X) \ {<<>>}
          /\ <<"Bar">> \in Seq(X) \ {<<>>} /\ <<"Baz">> \in Seq(X) \ {<<>>}
      OBVIOUS
    <3>2. ASSUME NEW s \in MCSelectors PROVE s.name \in Seq(X) \ {<<>>}
      <4>1. s.name \in {<<"Foo">>, <<"Foo", "A">>, <<"Bar">>, <<"Baz">>}
        BY <3>2 DEF MCSelectors
      <4> HIDE DEF X
      <4> QED
        BY <3>1, <4>1
    <3>3. \A s \in MCSelectors :
            s.test \in T /\ s = [name |-> s.name, test |-> s.test]
      BY DEF MCSelectors
    <3> HIDE DEF X, T
    <3> QED
      BY <3>2, <3>3 DEF SelectorType
  <2>2. ASSUME NEW selectors \in Selectors!BoundedSeq(MCSelectors, 3)
        PROVE  selectors \in Seq(SelectorType(X, T))
    <3>1. PICK m \in 0..3 : selectors \in [1..m -> MCSelectors]
      BY DEF Selectors!BoundedSeq, Selectors!SeqOf
    <3>2. selectors \in [1..m -> SelectorType(X, T)] /\ m \in Nat
      BY <2>1, <3>1
    <3> QED
      BY <3>2, SeqDef
  <2>3. PICK K, W : MCOffers \subseteq [key : K, tests : W]
    <3> DEFINE K == {[cls |-> "Foo", suffix |-> x] : x \in {<<>>, <<"A">>, <<"B">>}}
               W == {Selectors!Whole, Selectors!Just("test_a")}
    <3>1. MCOffers \subseteq [key : K, tests : W]
      BY DEF MCOffers
    <3> QED
      BY <3>1
  <2>4. Selectors!None \notin {"test_a", "test_b"}
    BY DEF Selectors!None
  <2> HIDE DEF X, T
  <2> QED
    BY <2>2, <2>3, <2>4, SelectsAsked DEF SelectionSound
<1> QED
  BY <1>1, PTL

-----------------------------------------------------------------------------
(* The parser of an instrumentation run *)

(* The states of the parser as its lines are handed over.                    *)
LEMMA ParsedIs ==
  ASSUME NEW p, NEW lines, Len(lines) \in Nat
  PROVE  \E a : /\ a[0] = p
                /\ \A i \in 1..Len(lines) :
                     a[i] = Parser!ParseLine(a[i - 1], lines[i])
                /\ Parser!ParseLines(p, lines) = a[Len(lines)]
<1> DEFINE size == Len(lines)
           Turn(q, i) == Parser!ParseLine(q, lines[i])
           Solved(k) ==
             \E g : g = [i \in 0..k |-> IF i = 0 THEN p ELSE Turn(g[i - 1], i)]
<1>1. size \in Nat
  OBVIOUS
<1> HIDE DEF Turn, size
<1>2. Solved(0)
  <2>1. [i \in 0..0 |-> p] =
          [i \in 0..0 |-> IF i = 0 THEN p ELSE Turn([j \in 0..0 |-> p][i - 1], i)]
    OBVIOUS
  <2> QED
    BY <2>1
<1>3. ASSUME NEW k \in 1..size, Solved(k - 1) PROVE Solved(k)
  <2>1. PICK g : g = [i \in 0..k - 1 |-> IF i = 0 THEN p ELSE Turn(g[i - 1], i)]
    BY <1>3
  <2> DEFINE h == [i \in 0..k |-> IF i = k THEN Turn(g[k - 1], k) ELSE g[i]]
  <2>2. ASSUME NEW i \in 0..k
        PROVE  h[i] = IF i = 0 THEN p ELSE Turn(h[i - 1], i)
    <3>1. CASE i = k
      <4>1. k - 1 \in 0..k /\ k - 1 # k /\ k # 0 /\ k \in 0..k
        BY <1>1
      <4>2. h[k - 1] = g[k - 1]
        BY <4>1
      <4> QED
        BY <3>1, <4>1, <4>2
    <3>2. CASE i # k
      <4>1. i \in 0..k - 1
        BY <1>1, <2>2, <3>2
      <4>2. i # 0 => i - 1 \in 0..k /\ i - 1 # k
        BY <4>1
      <4>3. i # 0 => h[i - 1] = g[i - 1]
        BY <4>2
      <4>4. h[i] = g[i]
        BY <3>2
      <4> QED
        BY <2>1, <4>1, <4>3, <4>4
    <3> QED
      BY <3>1, <3>2
  <2> HIDE DEF h
  <2>3. h = [i \in 0..k |-> h[i]]
    BY DEF h
  <2>4. h = [i \in 0..k |-> IF i = 0 THEN p ELSE Turn(h[i - 1], i)]
    BY <2>2, <2>3
  <2> QED
    BY <2>4
<1>4. Solved(size)
  <2> DEFINE S == {k \in 0..size : Solved(k)}
  <2> HIDE DEF Solved
  <2>1. 0 \in S
    BY <1>1, <1>2
  <2>2. ASSUME NEW k \in 1..size, k - 1 \in S PROVE k \in S
    BY <1>1, <1>3, <2>2
  <2>3. size \in 0..size
    BY <1>1
  <2> HIDE DEF S
  <2>4. \A k \in 0..size : k \in S
    BY <1>1, <2>1, <2>2, Upwards
  <2> QED
    BY <2>3, <2>4 DEF S
<1> DEFINE after[i \in 0..size] == IF i = 0 THEN p ELSE Turn(after[i - 1], i)
<1>5. Parser!ParseLines(p, lines) = after[size]
  BY DEF Parser!ParseLines, Turn, size
<1>6. after = CHOOSE g : g = [i \in 0..size |->
                IF i = 0 THEN p ELSE Turn(g[i - 1], i)]
  BY DEF after
<1>7. after = [i \in 0..size |-> IF i = 0 THEN p ELSE Turn(after[i - 1], i)]
  BY <1>4, <1>6
<1> HIDE DEF after
<1>8. after[0] = p /\ \A i \in 1..size : after[i] = Turn(after[i - 1], i)
  BY <1>1, <1>7
<1> QED
  BY <1>5, <1>8 DEF Turn, size

(* Lines in two parts are handed over in two parts.                          *)
LEMMA ParseConcat ==
  ASSUME NEW p, NEW S, NEW s \in Seq(S), NEW t \in Seq(S)
  PROVE  Parser!ParseLines(p, s \o t) =
           Parser!ParseLines(Parser!ParseLines(p, s), t)
<1> DEFINE m == Len(s)
           k == Len(t)
           u == s \o t
           q == Parser!ParseLines(p, s)
<1>1. /\ m \in Nat /\ k \in Nat /\ Len(u) = m + k
      /\ \A i \in 1..m + k : u[i] = IF i <= m THEN s[i] ELSE t[i - m]
  BY ConcatProperties
<1> HIDE DEF u, m, k, q
<1>2. Len(u) \in Nat
  BY <1>1
<1>3. PICK a : /\ a[0] = p
               /\ \A i \in 1..m : a[i] = Parser!ParseLine(a[i - 1], s[i])
               /\ q = a[m]
  BY <1>1, ParsedIs DEF m, q
<1>4. PICK b : /\ b[0] = q
               /\ \A i \in 1..k : b[i] = Parser!ParseLine(b[i - 1], t[i])
               /\ Parser!ParseLines(q, t) = b[k]
  BY <1>1, ParsedIs DEF k
<1>5. PICK c : /\ c[0] = p
               /\ \A i \in 1..m + k : c[i] = Parser!ParseLine(c[i - 1], u[i])
               /\ Parser!ParseLines(p, u) = c[m + k]
  <2>1. PICK c : /\ c[0] = p
                 /\ \A i \in 1..Len(u) :
                      c[i] = Parser!ParseLine(c[i - 1], u[i])
                 /\ Parser!ParseLines(p, u) = c[Len(u)]
    BY <1>2, ParsedIs
  <2> QED
    BY <1>1, <2>1
<1> DEFINE S1 == {i \in 0..m : c[i] = a[i]}
           S2 == {i \in 0..k : c[m + i] = b[i]}
<1>6. c[m] = a[m]
  <2>1. 0 \in S1
    BY <1>1, <1>3, <1>5
  <2>2. ASSUME NEW i \in 1..m, i - 1 \in S1 PROVE i \in S1
    <3>1. i \in 1..m + k /\ i <= m
      BY <1>1
    <3> QED
      BY <1>1, <1>3, <1>5, <2>2, <3>1
  <2> HIDE DEF S1
  <2>3. \A i \in 0..m : i \in S1
    BY <1>1, <2>1, <2>2, Upwards
  <2> QED
    BY <1>1, <2>3 DEF S1
<1>7. c[m + k] = b[k]
  <2>1. 0 \in S2
    <3>1. m + 0 = m /\ 0 \in 0..k
      BY <1>1
    <3> QED
      BY <1>3, <1>4, <1>6, <3>1
  <2>2. ASSUME NEW i \in 1..k, i - 1 \in S2 PROVE i \in S2
    <3>1. /\ m + i \in 1..m + k /\ ~(m + i <= m) /\ (m + i) - m = i
          /\ (m + i) - 1 = m + (i - 1)
      BY <1>1
    <3>2. u[m + i] = t[i]
      BY <1>1, <3>1
    <3>3. c[m + i] = Parser!ParseLine(c[m + (i - 1)], t[i])
      BY <1>5, <3>1, <3>2
    <3> QED
      BY <1>1, <1>4, <2>2, <3>3
  <2> HIDE DEF S2
  <2>3. \A i \in 0..k : i \in S2
    BY <1>1, <2>1, <2>2, Upwards
  <2> QED
    BY <1>1, <2>3 DEF S2
<1> QED
  BY <1>4, <1>5, <1>7 DEF u, q

(* No lines leave the parser as it is.                                       *)
LEMMA NothingParsed ==
  ASSUME NEW p
  PROVE  Parser!ParseLines(p, <<>>) = p
<1>1. Len(<<>>) = 0
  OBVIOUS
<1> QED
  BY <1>1, ParsedIs

-----------------------------------------------------------------------------
(* The parser, line by line *)

(* The parser in a block that has no code yet. *)
BlockFields ==
  {"state", "code", "test", "keys", "lines", "empty", "error", "previous"}

At(p, state, keys, test, lines, previous, filed) ==
  /\ DOMAIN p = {"block", "filed", "raised"}
  /\ DOMAIN p.block = BlockFields
  /\ ~p.raised /\ p.filed = filed
  /\ p.block.state = state /\ p.block.code = Parser!None
  /\ p.block.keys = keys /\ p.block.test = test
  /\ p.block.lines = lines /\ p.block.previous = previous
  /\ ~p.block.error

(* Between two blocks, and in the block of a test.                           *)
Between(p, lines, previous, filed) ==
  At(p, "UNKNOWN", {}, Parser!None, lines, previous, filed) /\ p.block.empty

InTest(p, keys, test, lines, previous, filed) ==
  At(p, "METHOD", keys, test, lines, previous, filed) /\ ~p.block.empty

KeyAdded(p, line) == [p EXCEPT !.block = Parser!SetKey(@, line)]

LineAdded(p, line) == [p EXCEPT !.block = Parser!AddValue(@, line)]

NameAfter(key, value, test) == IF key = "test" THEN value ELSE test

(* A key of the block of a test is added to those it has; that of the test   *)
(* names it.                                                                 *)
LEMMA KeySet ==
  ASSUME NEW p, NEW keys, NEW test, NEW lines, NEW previous,
         NEW filed, NEW line,
         At(p, "METHOD", keys, test, lines, previous, filed)
  PROVE  InTest(KeyAdded(p, line), keys \cup {line.key},
                NameAfter(line.key, line.value, test), lines, previous, filed)
<1> DEFINE b == Parser!SetKey(p.block, line)
           q == KeyAdded(p, line)
<1>1. /\ DOMAIN b = BlockFields
      /\ b.state = p.block.state /\ b.code = p.block.code
      /\ b.keys = p.block.keys \cup {line.key}
      /\ b.test = NameAfter(line.key, line.value, p.block.test)
      /\ ~b.empty
      /\ b.error = p.block.error
      /\ b.lines = p.block.lines
      /\ b.previous = p.block.previous
  BY DEF Parser!SetKey, At, BlockFields, NameAfter
<1> HIDE DEF b
<1>2. /\ DOMAIN q = DOMAIN p /\ q.block = b /\ q.filed = p.filed
      /\ q.raised = p.raised
  BY DEF At, b, KeyAdded
<1> HIDE DEF q
<1> QED
  BY <1>1, <1>2 DEF At, q, InTest

(* Text is added to the lines of a block, and only a blank one leaves an     *)
(* empty block empty.                                                        *)
LEMMA TextAdded ==
  ASSUME NEW p, NEW state, NEW keys, NEW test, NEW lines, NEW previous,
         NEW filed, NEW line,
         At(p, state, keys, test, lines, previous, filed)
  PROVE  /\ At(LineAdded(p, line), state, keys, test, lines \cup {line},
               previous, filed)
         /\ LineAdded(p, line).block.empty <=>
              p.block.empty /\ line = Parser!Blank
<1> DEFINE b == Parser!AddValue(p.block, line)
           q == LineAdded(p, line)
<1>1. /\ DOMAIN b = BlockFields
      /\ b.state = p.block.state /\ b.code = p.block.code
      /\ b.keys = p.block.keys
      /\ b.test = p.block.test
      /\ b.empty <=> p.block.empty /\ line = Parser!Blank
      /\ b.error = p.block.error
      /\ b.lines = p.block.lines \cup {line}
      /\ b.previous = p.block.previous
  BY DEF Parser!AddValue, At, BlockFields
<1> HIDE DEF b
<1>2. /\ DOMAIN q = DOMAIN p /\ q.block = b /\ q.filed = p.filed
      /\ q.raised = p.raised
  BY DEF At, b, LineAdded
<1> HIDE DEF q
<1> QED
  BY <1>1, <1>2 DEF At, q

(* A block whose kind was unknown becomes of a kind. *)
LEMMA Turned ==
  ASSUME NEW p, NEW lines, NEW previous, NEW filed, NEW new,
         Between(p, lines, previous, filed)
  PROVE  At(Parser!Transition(p, new), new, {}, Parser!None, lines, previous,
            filed \o Parser!Formatted(p.block, new))
<1> DEFINE b == Parser!TransitionState(p.block, new)
           more == Parser!Formatted(p.block, new)
           q == Parser!Transition(p, new)
<1>1. b = [p.block EXCEPT !.state = new]
  BY DEF Parser!TransitionState, At, Between
<1>2. /\ DOMAIN b = BlockFields
      /\ b.state = new /\ b.code = p.block.code
      /\ b.keys = p.block.keys
      /\ b.test = p.block.test
      /\ b.error = p.block.error
      /\ b.lines = p.block.lines
      /\ b.previous = p.block.previous
  BY <1>1 DEF At, Between, BlockFields
<1> HIDE DEF b, more
<1>3. /\ DOMAIN q = DOMAIN p /\ q.block = b /\ q.filed = filed \o more
      /\ q.raised = p.raised
  BY DEF At, Between, b, more, Parser!Transition
<1> HIDE DEF q
<1>4. At(q, new, {}, Parser!None, lines, previous, filed \o more)
  BY <1>2, <1>3 DEF At, Between
<1> QED
  BY <1>4 DEF q, more

(* The lines of a test: a key, another line of its value, and the code.      *)
LEMMA TestKey ==
  ASSUME NEW p, NEW keys, NEW test, NEW lines, NEW previous,
         NEW filed, NEW key, NEW value,
         InTest(p, keys, test, lines, previous, filed)
  PROVE  InTest(Parser!ParseLine(p, Parser!Status(key, value)), keys \cup {key},
                NameAfter(key, value, test), lines, previous, filed)
<1> DEFINE line == Parser!Status(key, value)
           q == Parser!ParseLine(p, line)
<1>1. line.kind = "status" /\ line.key = key /\ line.value = value
  BY DEF Parser!Status
<1> HIDE DEF line
<1>2. q = KeyAdded(p, line)
  BY <1>1 DEF Parser!ParseLine, At, InTest, Parser!ParseMethodBlockLine, KeyAdded
<1> HIDE DEF q
<1>3. InTest(q, keys \cup {line.key}, NameAfter(line.key, line.value, test),
             lines, previous, filed)
  BY <1>2, KeySet DEF InTest
<1> QED
  BY <1>1, <1>3 DEF q, line

(* A key between two blocks begins the block of a test, and files nothing.   *)
LEMMA FirstKey ==
  ASSUME NEW p, NEW lines, NEW previous, NEW S, NEW filed \in Seq(S),
         NEW key, NEW value,
         Between(p, lines, previous, filed)
  PROVE  InTest(Parser!ParseLine(p, Parser!Status(key, value)), {key},
                NameAfter(key, value, Parser!None), lines, previous, filed)
<1> DEFINE line == Parser!Status(key, value)
           q == Parser!ParseLine(p, line)
           r == Parser!Transition(p, "METHOD")
<1>1. line.kind = "status" /\ line.key = key /\ line.value = value
  BY DEF Parser!Status
<1> HIDE DEF line
<1>2. Parser!ParseMethodBlockLine(r, line) = KeyAdded(r, line)
  BY <1>1 DEF Parser!ParseMethodBlockLine, KeyAdded
<1>3. q = Parser!ParseMethodBlockLine(r, line)
  BY <1>1 DEF Parser!ParseLine, Parser!ParseUnknownBlockLine, At, Between
<1>4. Parser!Formatted(p.block, "METHOD") = <<>>
  BY DEF Parser!Formatted, Parser!PreviousNeverCompleted, At, Between, Parser!None
<1>5. filed \o <<>> = filed
  BY ConcatEmptySeq
<1>6. At(r, "METHOD", {}, Parser!None, lines, previous,
         filed \o Parser!Formatted(p.block, "METHOD"))
  BY Turned
<1>7. At(r, "METHOD", {}, Parser!None, lines, previous, filed)
  BY <1>4, <1>5, <1>6
<1> HIDE DEF r, q
<1>8. InTest(q, {} \cup {line.key}, NameAfter(line.key, line.value, Parser!None),
             lines, previous, filed)
  BY <1>2, <1>3, <1>7, KeySet
<1> QED
  BY <1>1, <1>8 DEF q, line

(* Text in the block of a test leaves it open.                               *)
LEMMA TestText ==
  ASSUME NEW p, NEW keys, NEW test, NEW lines, NEW previous, NEW filed, NEW what,
         InTest(p, keys, test, lines, previous, filed)
  PROVE  InTest(Parser!ParseLine(p, Parser!Text(what)), keys, test,
                lines \cup {Parser!Text(what)}, previous, filed)
<1> DEFINE line == Parser!Text(what)
           q == Parser!ParseLine(p, line)
<1>1. line.kind = "text"
  BY DEF Parser!Text
<1> HIDE DEF line
<1>2. q = LineAdded(p, line)
  BY <1>1 DEF Parser!ParseLine, Parser!ParseMethodBlockLine, At, InTest, LineAdded
<1> HIDE DEF q
<1>3. /\ At(q, "METHOD", keys, test, lines \cup {line}, previous, filed)
      /\ q.block.empty <=> p.block.empty /\ line = Parser!Blank
  BY <1>2, TextAdded DEF InTest
<1> QED
  BY <1>3 DEF q, line, InTest

(* A blank line between two blocks begins none.                              *)
LEMMA BetweenBlank ==
  ASSUME NEW p, NEW lines, NEW previous, NEW filed,
         Between(p, lines, previous, filed)
  PROVE  Between(Parser!ParseLine(p, Parser!Blank),
                 lines \cup {Parser!Blank}, previous, filed)
<1> DEFINE line == Parser!Blank
           q == Parser!ParseLine(p, line)
<1>1. line.kind = "text"
  BY DEF Parser!Text, Parser!Blank
<1> HIDE DEF line
<1>2. q = LineAdded(p, line)
  BY <1>1
    DEF Parser!ParseLine, Parser!ParseUnknownBlockLine, At, Between, LineAdded
<1> HIDE DEF q
<1>3. /\ At(q, "UNKNOWN", {}, Parser!None, lines \cup {line}, previous, filed)
      /\ q.block.empty <=> p.block.empty /\ line = Parser!Blank
  BY <1>2, TextAdded DEF Between
<1> QED
  BY <1>3 DEF q, line, Between

(* The block of a test that ends with a code.                                *)
Test(b, c, keys, test, previous) ==
  /\ DOMAIN b = BlockFields
  /\ b.code = c /\ b.keys = keys /\ b.test = test /\ b.previous = previous
  /\ ~b.error /\ ~b.empty

Closed(b) == [b EXCEPT !.previous = <<>>]

(* A code ends the block of a test: what it deserves is filed, and the block *)
(* is the one before from then on.                                           *)
LEMMA TestCode ==
  ASSUME NEW p, NEW keys, NEW test, NEW lines, NEW previous, NEW filed, NEW c,
         InTest(p, keys, test, lines, previous, filed)
  PROVE  \E b : /\ Test(b, c, keys, test, previous)
                /\ Between(Parser!ParseLine(p, Parser!Code(c)), {}, <<Closed(b)>>,
                           filed \o Parser!Formatted(b, "UNKNOWN"))
<1> DEFINE line == Parser!Code(c)
           q == Parser!ParseLine(p, line)
           b == Parser!SetStatusCode(p.block, line)
           r == [p EXCEPT !.block = Parser!SetStatusCode(@, line)]
           new == Parser!NewBlock("UNKNOWN", <<Closed(b)>>)
           more == Parser!Formatted(b, "UNKNOWN")
<1>1. line.kind = "code" /\ line.code = c
  BY DEF Parser!Code
<1> HIDE DEF line
<1>2. q = Parser!Transition(r, "UNKNOWN")
  BY <1>1 DEF Parser!ParseLine, Parser!ParseMethodBlockLine, At, InTest
<1>3. Test(b, c, keys, test, previous) /\ b.state = "METHOD"
  BY <1>1 DEF Parser!SetStatusCode, At, InTest, BlockFields, Test
<1> HIDE DEF b
<1>4. /\ DOMAIN r = {"block", "filed", "raised"}
      /\ r.block = b /\ r.filed = filed /\ ~r.raised
  BY DEF At, InTest, b
<1> HIDE DEF r
<1>5. Parser!TransitionState(b, "UNKNOWN") = new
  BY <1>3 DEF Parser!TransitionState, Closed
<1>6. /\ DOMAIN new = BlockFields /\ new.state = "UNKNOWN"
      /\ new.code = Parser!None /\ new.test = Parser!None
      /\ new.keys = {} /\ new.lines = {} /\ new.empty /\ ~new.error
      /\ new.previous = <<Closed(b)>>
  BY DEF Parser!NewBlock, BlockFields
<1> HIDE DEF new, more
<1>7. /\ DOMAIN q = DOMAIN r /\ q.block = new
      /\ q.filed = filed \o more /\ q.raised = r.raised
  BY <1>2, <1>4, <1>5 DEF Parser!Transition, more
<1> HIDE DEF q
<1>8. Between(q, {}, <<Closed(b)>>, filed \o more)
  BY <1>4, <1>6, <1>7 DEF At, Between
<1> QED
  BY <1>3, <1>8 DEF q, line, more

(* The lines of the result of a run.                                         *)
LEMMA ResultLine ==
  ASSUME NEW p, NEW lines, NEW previous, NEW filed, NEW key,
         Between(p, lines, previous, filed)
  PROVE  At(Parser!ParseLine(p, Parser!Result(key)), "RESULT", {}, Parser!None,
            lines \cup {Parser!Result(key)}, previous,
            filed \o Parser!Formatted(p.block, "RESULT"))
<1> DEFINE line == Parser!Result(key)
           q == Parser!ParseLine(p, line)
           r == Parser!Transition(p, "RESULT")
           more == Parser!Formatted(p.block, "RESULT")
<1>1. line.kind = "result"
  BY DEF Parser!Result
<1> HIDE DEF line
<1>2. q = Parser!ParseResultBlockLine(r, line)
  BY <1>1 DEF Parser!ParseLine, Parser!ParseUnknownBlockLine, At, Between
<1>3. Parser!ParseResultBlockLine(r, line) = LineAdded(r, line)
  BY DEF Parser!ParseResultBlockLine, LineAdded
<1>4. At(r, "RESULT", {}, Parser!None, lines, previous, filed \o more)
  BY Turned
<1> HIDE DEF r, q, more
<1> DEFINE all == filed \o more
           keys == {}
<1>5. At(r, "RESULT", keys, Parser!None, lines, previous, all)
  BY <1>4
<1> HIDE DEF all, keys
<1>6. At(q, "RESULT", keys, Parser!None, lines \cup {line}, previous, all)
  BY <1>2, <1>3, <1>5, TextAdded
<1> QED
  BY <1>6 DEF q, line, all, keys, more

(* Text in the block of the result is kept with it.                          *)
LEMMA ResultText ==
  ASSUME NEW p, NEW keys, NEW test, NEW lines, NEW previous, NEW filed, NEW what,
         At(p, "RESULT", keys, test, lines, previous, filed)
  PROVE  At(Parser!ParseLine(p, Parser!Text(what)), "RESULT", keys, test,
            lines \cup {Parser!Text(what)}, previous, filed)
<1> DEFINE line == Parser!Text(what)
           q == Parser!ParseLine(p, line)
<1>1. q = LineAdded(p, line)
  BY DEF Parser!ParseLine, Parser!ParseResultBlockLine, At, LineAdded
<1> HIDE DEF q, line
<1>2. At(q, "RESULT", keys, test, lines \cup {line}, previous, filed)
  BY <1>1, TextAdded
<1> QED
  BY <1>2 DEF q, line

-----------------------------------------------------------------------------
(* Several lines *)

LEMMA TwoParsed ==
  ASSUME NEW p, NEW x, NEW y
  PROVE  Parser!ParseLines(p, <<x, y>>) =
           Parser!ParseLine(Parser!ParseLine(p, x), y)
<1> DEFINE s == <<x, y>>
<1>1. Len(s) = 2 /\ s[1] = x /\ s[2] = y
  OBVIOUS
<1> HIDE DEF s
<1>2. Len(s) \in Nat
  BY <1>1
<1>3. PICK a : /\ a[0] = p
               /\ \A i \in 1..Len(s) : a[i] = Parser!ParseLine(a[i - 1], s[i])
               /\ Parser!ParseLines(p, s) = a[Len(s)]
  BY <1>2, ParsedIs
<1>4. /\ a[1] = Parser!ParseLine(a[0], s[1])
      /\ a[2] = Parser!ParseLine(a[1], s[2])
  BY <1>1, <1>3
<1> QED
  BY <1>1, <1>3, <1>4 DEF s

LEMMA ThreeParsed ==
  ASSUME NEW p, NEW x, NEW y, NEW z
  PROVE  Parser!ParseLines(p, <<x, y, z>>) =
           Parser!ParseLine(Parser!ParseLine(Parser!ParseLine(p, x), y), z)
<1> DEFINE s == <<x, y, z>>
<1>1. Len(s) = 3 /\ s[1] = x /\ s[2] = y /\ s[3] = z
  OBVIOUS
<1> HIDE DEF s
<1>2. Len(s) \in Nat
  BY <1>1
<1>3. PICK a : /\ a[0] = p
               /\ \A i \in 1..Len(s) : a[i] = Parser!ParseLine(a[i - 1], s[i])
               /\ Parser!ParseLines(p, s) = a[Len(s)]
  BY <1>2, ParsedIs
<1>4. /\ a[1] = Parser!ParseLine(a[0], s[1])
      /\ a[2] = Parser!ParseLine(a[1], s[2])
      /\ a[3] = Parser!ParseLine(a[2], s[3])
  BY <1>1, <1>3
<1> QED
  BY <1>1, <1>3, <1>4 DEF s

LEMMA FourParsed ==
  ASSUME NEW p, NEW x, NEW y, NEW z, NEW w
  PROVE  Parser!ParseLines(p, <<x, y, z, w>>) =
           Parser!ParseLine(Parser!ParseLine(Parser!ParseLine(
             Parser!ParseLine(p, x), y), z), w)
<1> DEFINE s == <<x, y, z, w>>
<1>1. Len(s) = 4 /\ s[1] = x /\ s[2] = y /\ s[3] = z /\ s[4] = w
  OBVIOUS
<1> HIDE DEF s
<1>2. Len(s) \in Nat
  BY <1>1
<1>3. PICK a : /\ a[0] = p
               /\ \A i \in 1..Len(s) : a[i] = Parser!ParseLine(a[i - 1], s[i])
               /\ Parser!ParseLines(p, s) = a[Len(s)]
  BY <1>2, ParsedIs
<1>4. /\ a[1] = Parser!ParseLine(a[0], s[1])
      /\ a[2] = Parser!ParseLine(a[1], s[2])
      /\ a[3] = Parser!ParseLine(a[2], s[3])
      /\ a[4] = Parser!ParseLine(a[3], s[4])
  BY <1>1, <1>3
<1> QED
  BY <1>1, <1>3, <1>4 DEF s

LEMMA SevenParsed ==
  ASSUME NEW p, NEW x, NEW y, NEW z, NEW w, NEW v, NEW r, NEW t
  PROVE  Parser!ParseLines(p, <<x, y, z, w, v, r, t>>) =
           Parser!ParseLine(Parser!ParseLine(Parser!ParseLine(Parser!ParseLine(
             Parser!ParseLine(Parser!ParseLine(
               Parser!ParseLine(p, x), y), z), w), v), r), t)
<1> DEFINE s == <<x, y, z, w, v, r, t>>
<1>1. /\ Len(s) = 7 /\ s[1] = x /\ s[2] = y /\ s[3] = z /\ s[4] = w
      /\ s[5] = v /\ s[6] = r /\ s[7] = t
  OBVIOUS
<1> HIDE DEF s
<1>2. Len(s) \in Nat
  BY <1>1
<1>3. PICK a : /\ a[0] = p
               /\ \A i \in 1..Len(s) : a[i] = Parser!ParseLine(a[i - 1], s[i])
               /\ Parser!ParseLines(p, s) = a[Len(s)]
  BY <1>2, ParsedIs
<1>4. /\ a[1] = Parser!ParseLine(a[0], s[1])
      /\ a[2] = Parser!ParseLine(a[1], s[2])
      /\ a[3] = Parser!ParseLine(a[2], s[3])
      /\ a[4] = Parser!ParseLine(a[3], s[4])
      /\ a[5] = Parser!ParseLine(a[4], s[5])
      /\ a[6] = Parser!ParseLine(a[5], s[6])
      /\ a[7] = Parser!ParseLine(a[6], s[7])
  BY <1>1, <1>3
<1> QED
  BY <1>1, <1>3, <1>4 DEF s

-----------------------------------------------------------------------------
(* The records of the blocks *)

(* A test that began is none of the others when its block is made a record.  *)
LEMMA Made ==
  ASSUME NEW b, NEW c, NEW keys, NEW test, NEW previous,
         Test(b, c, keys, test, previous)
  PROVE  /\ c \in Parser!Timing /\ keys \subseteq {"stream", "test"} =>
              Parser!CreateRecord(b) = <<>>
         /\ /\ c \in Parser!Ends /\ c # "never"
            /\ IF c \in {"FAILURE", "ASSUMPTION_FAILURE"}
               THEN keys = {"stack", "test"} ELSE keys = {"test"}
            => Parser!CreateRecord(b) =
                 <<Parser!Deserved([test |-> test, end |-> c])>>
<1>1. b.code = c /\ b.keys = keys /\ b.test = test /\ ~b.error
  BY DEF Test
<1>2. ASSUME c \in Parser!Timing, keys \subseteq {"stream", "test"}
      PROVE  Parser!CreateRecord(b) = <<>>
  <2>1. ~Parser!IsFailed(b)
    BY <1>1, <1>2 DEF Parser!IsFailed, Parser!Timing
  <2>2. Parser!ResultOf(b) = Parser!None
    BY <1>1, <1>2, <2>1 DEF Parser!ResultOf, Parser!Timing
  <2> QED
    BY <2>2 DEF Parser!CreateRecord
<1>3. ASSUME c \in Parser!Ends, c # "never",
             IF c \in {"FAILURE", "ASSUMPTION_FAILURE"}
             THEN keys = {"stack", "test"} ELSE keys = {"test"}
      PROVE  Parser!CreateRecord(b) =
               <<Parser!Deserved([test |-> test, end |-> c])>>
  <2> DEFINE t == [test |-> test, end |-> c]
             r == Parser!ResultOf(b)
  <2>1. c \in {"OK", "FAILURE", "ERROR", "IGNORED", "ASSUMPTION_FAILURE"}
    BY <1>3 DEF Parser!Ends
  <2>2. Parser!IsFailed(b) <=> c \in {"FAILURE", "ERROR"}
    BY <1>1, <1>3, <2>1 DEF Parser!IsFailed
  <2>3. /\ c = "OK" => r = "PASS"
        /\ c \in {"FAILURE", "ERROR"} => r = "FAIL"
        /\ c \in {"IGNORED", "ASSUMPTION_FAILURE"} => r = "SKIP"
    BY <1>1, <2>1, <2>2 DEF Parser!ResultOf, Parser!Timing
  <2>4. t.test = test /\ t.end = c
    OBVIOUS
  <2> HIDE DEF r, t
  <2>5. r # Parser!None
    BY <2>1, <2>3 DEF Parser!None
  <2>6. Parser!Deserved(t) = [test |-> test, result |-> r]
    BY <2>1, <2>3, <2>4 DEF Parser!Deserved
  <2>7. Parser!CreateRecord(b) = <<[test |-> b.test, result |-> r]>>
    BY <2>5 DEF Parser!CreateRecord, r
  <2> QED
    BY <1>1, <2>6, <2>7 DEF t
<1> QED
  BY <1>2, <1>3

(* A test that was begun and never ended has the record of an error.         *)
LEMMA Owing ==
  ASSUME NEW b, NEW keys, NEW test, NEW previous,
         Test(b, "START", keys, test, previous),
         keys \subseteq {"stream", "test"}
  PROVE  Parser!CreateRecord([Closed(b) EXCEPT !.error = TRUE]) =
           <<[test |-> test, result |-> "ERROR"]>>
<1> DEFINE d == Closed(b)
           e == [d EXCEPT !.error = TRUE]
<1>1. /\ DOMAIN d = BlockFields /\ d.code = "START" /\ d.keys = keys
      /\ d.test = test
  BY DEF Closed, Test, BlockFields
<1> HIDE DEF d
<1>2. e.code = "START" /\ e.keys = keys /\ e.test = test /\ e.error
  BY <1>1 DEF BlockFields
<1> HIDE DEF e
<1>3. ~Parser!IsFailed(e)
  BY <1>2 DEF Parser!IsFailed
<1>4. Parser!ResultOf(e) = "ERROR"
  BY <1>2, <1>3 DEF Parser!ResultOf, Parser!Timing
<1>5. Parser!CreateRecord(e) = <<[test |-> test, result |-> "ERROR"]>>
  BY <1>2, <1>4 DEF Parser!CreateRecord, Parser!None
<1> QED
  BY <1>5 DEF d, e

(* What the block before leaves to be filed.                                 *)
NothingOpen(previous) ==
  previous = <<>> \/ \E b : previous = <<b>> /\ b.code \notin Parser!Timing

Owed(previous, test) ==
  \E b, x : /\ previous = <<Closed(b)>>
            /\ Test(b, "START", {"stream", "test"}, test, x)

Unended(test) == [test |-> test, result |-> "ERROR"]

(* When a test begins or the run ends, the block before is an unfinished     *)
(* test exactly if its record is owed.                                       *)
LEMMA NotCompleted ==
  ASSUME NEW b, NEW new, NEW test,
         b.code = "START" \/ new = "RESULT"
  PROVE  /\ NothingOpen(b.previous) => ~Parser!PreviousNeverCompleted(b, new)
         /\ Owed(b.previous, test) =>
              /\ Parser!PreviousNeverCompleted(b, new)
              /\ Parser!CreateRecord([b.previous[1] EXCEPT !.error = TRUE]) =
                   <<Unended(test)>>
<1>1. ASSUME NothingOpen(b.previous)
      PROVE  ~Parser!PreviousNeverCompleted(b, new)
  BY <1>1 DEF NothingOpen, Parser!PreviousNeverCompleted
<1>2. ASSUME Owed(b.previous, test)
      PROVE  /\ Parser!PreviousNeverCompleted(b, new)
             /\ Parser!CreateRecord([b.previous[1] EXCEPT !.error = TRUE]) =
                  <<Unended(test)>>
  <2>1. PICK a, x : /\ b.previous = <<Closed(a)>>
                    /\ Test(a, "START", {"stream", "test"}, test, x)
    BY <1>2 DEF Owed
  <2>2. b.previous # <<>> /\ b.previous[1] = Closed(a)
    BY <2>1
  <2>3. Closed(a).code = "START"
    BY <2>1 DEF Closed, Test, BlockFields
  <2>4. Parser!PreviousNeverCompleted(b, new)
    BY <2>2, <2>3 DEF Parser!PreviousNeverCompleted, Parser!Timing
  <2>5. Parser!CreateRecord([Closed(a) EXCEPT !.error = TRUE]) = <<Unended(test)>>
    BY <2>1, Owing DEF Unended
  <2> QED
    BY <2>2, <2>4, <2>5
<1> QED
  BY <1>1, <1>2

(* A test that begins files the record that is owed, and none of its own.    *)
LEMMA FiledAtStart ==
  ASSUME NEW b, NEW test, NEW previous, NEW other,
         Test(b, "START", {"stream", "test"}, test, previous)
  PROVE  /\ NothingOpen(previous) => Parser!Formatted(b, "UNKNOWN") = <<>>
         /\ Owed(previous, other) =>
              Parser!Formatted(b, "UNKNOWN") = <<Unended(other)>>
<1>1. b.code = "START" /\ b.previous = previous /\ ~b.empty
  BY DEF Test
<1>2. Parser!CreateRecord(b) = <<>>
  BY Made DEF Parser!Timing
<1>3. ASSUME NothingOpen(previous)
      PROVE  Parser!Formatted(b, "UNKNOWN") = <<>>
  <2>1. ~Parser!PreviousNeverCompleted(b, "UNKNOWN")
    BY <1>1, <1>3, NotCompleted
  <2>2. Parser!Formatted(b, "UNKNOWN") = <<>> \o <<>>
    BY <1>1, <1>2, <2>1 DEF Parser!Formatted
  <2> QED
    BY <2>2
<1>4. ASSUME Owed(previous, other)
      PROVE  Parser!Formatted(b, "UNKNOWN") = <<Unended(other)>>
  <2> DEFINE e == Parser!CreateRecord([b.previous[1] EXCEPT !.error = TRUE])
  <2>1. Parser!PreviousNeverCompleted(b, "UNKNOWN") /\ e = <<Unended(other)>>
    BY <1>1, <1>4, NotCompleted
  <2>2. Parser!Formatted(b, "UNKNOWN") =
          (IF Parser!PreviousNeverCompleted(b, "UNKNOWN") THEN e ELSE <<>>) \o
          (IF b.empty THEN <<>> ELSE Parser!CreateRecord(b))
    BY DEF Parser!Formatted
  <2> HIDE DEF e
  <2>3. Parser!Formatted(b, "UNKNOWN") = <<Unended(other)>> \o <<>>
    BY <1>1, <1>2, <2>1, <2>2
  <2>4. <<Unended(other)>> \o <<>> = <<Unended(other)>>
    OBVIOUS
  <2> QED
    BY <2>3, <2>4
<1> QED
  BY <1>3, <1>4

(* Any other code files the record of its own block alone.                   *)
LEMMA FiledAtCode ==
  ASSUME NEW b, NEW c, NEW keys, NEW test, NEW previous,
         Test(b, c, keys, test, previous), c # "START",
         NEW S, Parser!CreateRecord(b) \in Seq(S)
  PROVE  Parser!Formatted(b, "UNKNOWN") = Parser!CreateRecord(b)
<1>1. ~Parser!PreviousNeverCompleted(b, "UNKNOWN") /\ ~b.empty
  BY DEF Parser!PreviousNeverCompleted, Test
<1>2. Parser!Formatted(b, "UNKNOWN") = <<>> \o Parser!CreateRecord(b)
  BY <1>1 DEF Parser!Formatted
<1> QED
  BY <1>2, ConcatEmptySeq

(* The end of the run files the record that is owed.                         *)
LEMMA FiledAtResult ==
  ASSUME NEW b, NEW other, b.empty
  PROVE  /\ NothingOpen(b.previous) => Parser!Formatted(b, "RESULT") = <<>>
         /\ Owed(b.previous, other) =>
              Parser!Formatted(b, "RESULT") = <<Unended(other)>>
<1>1. ASSUME NothingOpen(b.previous)
      PROVE  Parser!Formatted(b, "RESULT") = <<>>
  <2>1. ~Parser!PreviousNeverCompleted(b, "RESULT")
    BY <1>1, NotCompleted
  <2>2. Parser!Formatted(b, "RESULT") = <<>> \o <<>>
    BY <2>1 DEF Parser!Formatted
  <2> QED
    BY <2>2
<1>2. ASSUME Owed(b.previous, other)
      PROVE  Parser!Formatted(b, "RESULT") = <<Unended(other)>>
  <2> DEFINE e == Parser!CreateRecord([b.previous[1] EXCEPT !.error = TRUE])
  <2>1. Parser!PreviousNeverCompleted(b, "RESULT") /\ e = <<Unended(other)>>
    BY <1>2, NotCompleted
  <2>2. Parser!Formatted(b, "RESULT") =
          (IF Parser!PreviousNeverCompleted(b, "RESULT") THEN e ELSE <<>>) \o
          (IF b.empty THEN <<>> ELSE Parser!CreateRecord(b))
    BY DEF Parser!Formatted
  <2> HIDE DEF e
  <2>3. Parser!Formatted(b, "RESULT") = <<Unended(other)>> \o <<>>
    BY <2>1, <2>2
  <2>4. <<Unended(other)>> \o <<>> = <<Unended(other)>>
    OBVIOUS
  <2> QED
    BY <2>3, <2>4
<1> QED
  BY <1>1, <1>2

-----------------------------------------------------------------------------
(* The output of a device *)

(* The lines a device may print, for the tests of a set.                     *)
Printed(U) ==
  {Parser!Status("stream", Parser!None), Parser!Status("stack", Parser!None),
   Parser!Result("stream"), Parser!Result("shortMsg"), Parser!Blank,
   Parser!Text("more"), Parser!Text("OK ("), Parser!Text("FAILURES!!!")}
  \cup {Parser!Status("test", t) : t \in U}
  \cup {Parser!Code(c) : c \in Parser!Ends \cup Parser!Timing}

(* Sequences given by their elements.                                        *)
LEMMA TupleType ==
  ASSUME NEW S
  PROVE  /\ \A a, b \in S : <<a, b>> \in Seq(S)
         /\ \A a, b, c \in S : <<a, b, c>> \in Seq(S)
         /\ \A a, b, c, d \in S : <<a, b, c, d>> \in Seq(S)
         /\ \A a, b, c, d, e, f, g \in S : <<a, b, c, d, e, f, g>> \in Seq(S)
OBVIOUS

(* What a test prints is of those lines.                                     *)
LEMMA PrintedType ==
  ASSUME NEW U, NEW test \in U, NEW end \in Parser!Ends
  PROVE  /\ Parser!Begins(test) \in Seq(Printed(U))
         /\ Parser!Ended(test, end) \in Seq(Printed(U))
         /\ <<Parser!Status("test", test), Parser!Code("IN_PROGRESS")>>
              \in Seq(Printed(U))
         /\ <<Parser!Status("stack", Parser!None), Parser!Text("more")>>
              \in Seq(Printed(U))
         /\ <<Parser!Status("test", test), Parser!Code(end), Parser!Blank>>
              \in Seq(Printed(U))
<1> DEFINE L == Printed(U)
<1>1. /\ Parser!Status("stream", Parser!None) \in L
      /\ Parser!Status("stack", Parser!None) \in L
      /\ Parser!Blank \in L /\ Parser!Text("more") \in L
  BY DEF Printed
<1>2. Parser!Status("test", test) \in L
  BY DEF Printed
<1>3. \A c \in Parser!Ends \cup Parser!Timing : Parser!Code(c) \in L
  BY DEF Printed
<1>4. Parser!Code("START") \in L /\ Parser!Code("IN_PROGRESS") \in L
  BY <1>3 DEF Parser!Timing
<1>5. Parser!Code(end) \in L
  BY <1>3
<1> DEFINE A == <<Parser!Status("test", test), Parser!Code("IN_PROGRESS")>>
           B == <<Parser!Status("stack", Parser!None), Parser!Text("more")>>
           C == <<Parser!Status("test", test), Parser!Code(end), Parser!Blank>>
<1> HIDE DEF L
<1>6. A \in Seq(L) /\ B \in Seq(L) /\ C \in Seq(L) /\ <<>> \in Seq(L)
  <2>1. A \in Seq(L)
    BY <1>2, <1>4
  <2>2. B \in Seq(L)
    BY <1>1, TupleType
  <2>3. C \in Seq(L)
    BY <1>1, <1>2, <1>5, TupleType
  <2> QED
    BY <2>1, <2>2, <2>3
<1>7. Parser!Begins(test) \in Seq(L)
  BY <1>1, <1>2, <1>4, TupleType DEF Parser!Begins
<1>8. Parser!Ended(test, end) \in Seq(L)
  <2>1. Parser!Ended(test, end) =
          IF end = "never" THEN <<>>
          ELSE ((IF end = "OK" THEN A ELSE <<>>) \o
                (IF end \in {"FAILURE", "ASSUMPTION_FAILURE"} THEN B ELSE <<>>))
               \o C
    BY DEF Parser!Ended
  <2> HIDE DEF A, B, C
  <2> DEFINE x == IF end = "OK" THEN A ELSE <<>>
             y == IF end \in {"FAILURE", "ASSUMPTION_FAILURE"} THEN B ELSE <<>>
  <2>2. x \in Seq(L) /\ y \in Seq(L)
    BY <1>6
  <2> HIDE DEF x, y
  <2>3. x \o y \in Seq(L)
    BY <2>2, ConcatProperties
  <2>4. (x \o y) \o C \in Seq(L)
    BY <1>6, <2>3, ConcatProperties
  <2> QED
    BY <1>6, <2>1, <2>4 DEF x, y
<1> QED
  BY <1>6, <1>7, <1>8 DEF L

(* What ends the output is of those lines.                                   *)
LEMMA FinishType ==
  ASSUME NEW U, NEW how \in Parser!Finishes
  PROVE  Parser!Finish(how) \in Seq(Printed(U))
<1> DEFINE L == Printed(U)
<1>1. /\ Parser!Status("stream", Parser!None) \in L
      /\ Parser!Result("stream") \in L /\ Parser!Result("shortMsg") \in L
      /\ Parser!Blank \in L /\ Parser!Text("more") \in L
      /\ Parser!Text("OK (") \in L /\ Parser!Text("FAILURES!!!") \in L
  BY DEF Printed
<1> HIDE DEF L
<1>2. Parser!Finish(how) \in Seq(L)
  <2>1. CASE how = "passed"
    BY <1>1, <2>1, TupleType DEF Parser!Finish
  <2>2. CASE how = "failed"
    BY <1>1, <2>2, TupleType DEF Parser!Finish
  <2>3. CASE how = "crash"
    BY <1>1, <2>3, TupleType DEF Parser!Finish
  <2>4. CASE how = "torn"
    BY <1>1, <2>4, TupleType DEF Parser!Finish
  <2>5. CASE how = "cut"
    BY <2>5 DEF Parser!Finish
  <2> QED
    BY <2>1, <2>2, <2>3, <2>4, <2>5 DEF Parser!Finishes
<1> QED
  BY <1>2 DEF L

-----------------------------------------------------------------------------
(* The parser, test by test *)

(* The parser between two tests, with the records it filed: the one before   *)
(* ended, or is owed a record.                                               *)
Idle(p, filed) ==
  \E lines, previous :
    /\ lines \subseteq {Parser!Blank}
    /\ Between(p, lines, previous, filed)
    /\ NothingOpen(previous)

Pending(p, test, filed) ==
  \E lines, previous :
    /\ lines \subseteq {Parser!Blank}
    /\ Between(p, lines, previous, filed)
    /\ Owed(previous, test)

(* The lines that begin a test, after which its block is the one before.     *)
LEMMA BegunBlock ==
  ASSUME NEW p, NEW test, NEW S, NEW filed \in Seq(S), NEW lines, NEW previous,
         Between(p, lines, previous, filed)
  PROVE  \E b : /\ Test(b, "START", {"stream", "test"}, test, previous)
                /\ Between(Parser!ParseLines(p, Parser!Begins(test)),
                           {Parser!Blank}, <<Closed(b)>>,
                           filed \o Parser!Formatted(b, "UNKNOWN"))
<1> DEFINE x1 == Parser!Status("stream", Parser!None)
           x2 == Parser!Text("more")
           x3 == Parser!Text("")
           x4 == Parser!Status("test", test)
           x6 == Parser!Code("START")
           q1 == Parser!ParseLine(p, x1)
           q2 == Parser!ParseLine(q1, x2)
           q3 == Parser!ParseLine(q2, x3)
           q4 == Parser!ParseLine(q3, x4)
           q5 == Parser!ParseLine(q4, x3)
           q6 == Parser!ParseLine(q5, x6)
           q7 == Parser!ParseLine(q6, x3)
           unnamed == NameAfter("stream", Parser!None, Parser!None)
           one == {"stream"}
           both == {"stream", "test"}
<1>1. Parser!ParseLines(p, Parser!Begins(test)) = q7
  <2>1. Parser!Begins(test) = <<x1, x2, x3, x4, x3, x6, x3>>
    BY DEF Parser!Begins, Parser!Blank
  <2> HIDE DEF x1, x2, x3, x4, x6
  <2>2. Parser!ParseLines(p, <<x1, x2, x3, x4, x3, x6, x3>>) = q7
    BY SevenParsed
  <2> HIDE DEF q7
  <2> QED
    BY <2>1, <2>2
<1>2. one \cup {"test"} = both
  OBVIOUS
<1>3. NameAfter("test", test, unnamed) = test
  BY DEF NameAfter
<1>4. InTest(q1, one, unnamed, lines, previous, filed)
  BY FirstKey
<1> HIDE DEF unnamed, one, both, q1
<1>5. PICK l2 : InTest(q2, one, unnamed, l2, previous, filed)
  BY <1>4, TestText
<1> HIDE DEF q2
<1>6. PICK l3 : InTest(q3, one, unnamed, l3, previous, filed)
  BY <1>5, TestText
<1> HIDE DEF q3
<1>7. InTest(q4, both, test, l3, previous, filed)
  <2>1. InTest(q4, one \cup {"test"}, NameAfter("test", test, unnamed),
               l3, previous, filed)
    BY <1>6, TestKey
  <2> QED
    BY <1>2, <1>3, <2>1
<1> HIDE DEF q4
<1>8. PICK l5 : InTest(q5, both, test, l5, previous, filed)
  BY <1>7, TestText
<1> HIDE DEF q5
<1>9. PICK b : /\ Test(b, "START", both, test, previous)
               /\ Between(q6, {}, <<Closed(b)>>,
                          filed \o Parser!Formatted(b, "UNKNOWN"))
  BY <1>8, TestCode
<1> HIDE DEF q6
<1>10. Between(q7, {} \cup {Parser!Blank}, <<Closed(b)>>,
               filed \o Parser!Formatted(b, "UNKNOWN"))
  BY <1>9, BetweenBlank DEF Parser!Blank
<1>11. {} \cup {Parser!Blank} = {Parser!Blank}
  OBVIOUS
<1> HIDE DEF q7
<1> QED
  BY <1>1, <1>9, <1>10, <1>11 DEF both

(* A test that begins is owed a record, and that of an unfinished one before *)
(* it is filed.                                                              *)
LEMMA Begun ==
  ASSUME NEW p, NEW test, NEW S, NEW filed \in Seq(S)
  PROVE  /\ Idle(p, filed) =>
              Pending(Parser!ParseLines(p, Parser!Begins(test)), test, filed)
         /\ \A other : Pending(p, other, filed) =>
              Pending(Parser!ParseLines(p, Parser!Begins(test)), test,
                      filed \o <<Unended(other)>>)
<1> DEFINE q == Parser!ParseLines(p, Parser!Begins(test))
<1>1. filed \o <<>> = filed
  BY ConcatEmptySeq
<1>2. \A b, x : Test(b, "START", {"stream", "test"}, test, x) =>
                  Owed(<<Closed(b)>>, test)
  BY DEF Owed
<1> HIDE DEF q
<1>3. ASSUME Idle(p, filed) PROVE Pending(q, test, filed)
  <2>1. PICK lines, previous :
          Between(p, lines, previous, filed) /\ NothingOpen(previous)
    BY <1>3 DEF Idle
  <2>2. PICK b : /\ Test(b, "START", {"stream", "test"}, test, previous)
                 /\ Between(q, {Parser!Blank}, <<Closed(b)>>,
                            filed \o Parser!Formatted(b, "UNKNOWN"))
    BY <2>1, BegunBlock DEF q
  <2>3. Parser!Formatted(b, "UNKNOWN") = <<>>
    BY <2>1, <2>2, FiledAtStart
  <2>4. Between(q, {Parser!Blank}, <<Closed(b)>>, filed)
    BY <1>1, <2>2, <2>3
  <2> QED
    BY <1>2, <2>2, <2>4 DEF Pending
<1>4. ASSUME NEW other, Pending(p, other, filed)
      PROVE  Pending(q, test, filed \o <<Unended(other)>>)
  <2>1. PICK lines, previous :
          Between(p, lines, previous, filed) /\ Owed(previous, other)
    BY <1>4 DEF Pending
  <2>2. PICK b : /\ Test(b, "START", {"stream", "test"}, test, previous)
                 /\ Between(q, {Parser!Blank}, <<Closed(b)>>,
                            filed \o Parser!Formatted(b, "UNKNOWN"))
    BY <2>1, BegunBlock DEF q
  <2>3. Parser!Formatted(b, "UNKNOWN") = <<Unended(other)>>
    BY <2>1, <2>2, FiledAtStart
  <2>4. Between(q, {Parser!Blank}, <<Closed(b)>>, filed \o <<Unended(other)>>)
    BY <2>2, <2>3
  <2> QED
    BY <1>2, <2>2, <2>4 DEF Pending
<1> QED
  BY <1>3, <1>4 DEF q

(* The last lines of a test: its name, its code and a blank one.             *)
LEMMA EndedBlock ==
  ASSUME NEW p, NEW test, NEW end, NEW keys, NEW lines, NEW previous, NEW filed,
         InTest(Parser!ParseLine(p, Parser!Status("test", test)),
                keys, test, lines, previous, filed)
  PROVE  \E b : /\ Test(b, end, keys, test, previous)
                /\ Between(Parser!ParseLines(p, <<Parser!Status("test", test),
                                                  Parser!Code(end), Parser!Blank>>),
                           {Parser!Blank}, <<Closed(b)>>,
                           filed \o Parser!Formatted(b, "UNKNOWN"))
<1> DEFINE q1 == Parser!ParseLine(p, Parser!Status("test", test))
           q2 == Parser!ParseLine(q1, Parser!Code(end))
           q3 == Parser!ParseLine(q2, Parser!Blank)
<1>1. Parser!ParseLines(p, <<Parser!Status("test", test), Parser!Code(end),
                             Parser!Blank>>) = q3
  BY ThreeParsed
<1>2. PICK b : /\ Test(b, end, keys, test, previous)
               /\ Between(q2, {}, <<Closed(b)>>,
                          filed \o Parser!Formatted(b, "UNKNOWN"))
  BY TestCode
<1> HIDE DEF q1, q2
<1>3. Between(q3, {} \cup {Parser!Blank}, <<Closed(b)>>,
              filed \o Parser!Formatted(b, "UNKNOWN"))
  BY <1>2, BetweenBlank
<1>4. {} \cup {Parser!Blank} = {Parser!Blank}
  OBVIOUS
<1> HIDE DEF q3
<1>5. Between(q3, {Parser!Blank}, <<Closed(b)>>,
              filed \o Parser!Formatted(b, "UNKNOWN"))
  BY <1>3, <1>4
<1> QED
  BY <1>1, <1>2, <1>5

(* A test that ends without a stack, and one that ends with it.              *)
LEMMA EndedPlain ==
  ASSUME NEW p, NEW test, NEW end, NEW lines, NEW previous,
         NEW S, NEW filed \in Seq(S),
         Between(p, lines, previous, filed)
  PROVE  \E b : /\ Test(b, end, {"test"}, test, previous)
                /\ Between(Parser!ParseLines(p, <<Parser!Status("test", test),
                                                  Parser!Code(end), Parser!Blank>>),
                           {Parser!Blank}, <<Closed(b)>>,
                           filed \o Parser!Formatted(b, "UNKNOWN"))
<1> DEFINE one == {"test"}
           q == Parser!ParseLine(p, Parser!Status("test", test))
<1>1. InTest(q, one, NameAfter("test", test, Parser!None), lines, previous, filed)
  BY FirstKey
<1>2. NameAfter("test", test, Parser!None) = test
  BY DEF NameAfter
<1> HIDE DEF one, q
<1>3. InTest(q, one, test, lines, previous, filed)
  BY <1>1, <1>2
<1> QED
  BY <1>3, EndedBlock DEF one, q

(* The same for a test that ends with a stack trace.                         *)
LEMMA EndedStack ==
  ASSUME NEW p, NEW test, NEW end, NEW lines, NEW previous,
         NEW S, NEW filed \in Seq(S),
         Between(p, lines, previous, filed)
  PROVE  \E b : /\ Test(b, end, {"stack", "test"}, test, previous)
                /\ Between(Parser!ParseLines(
                             Parser!ParseLines(p, <<Parser!Status("stack", Parser!None),
                                                    Parser!Text("more")>>),
                             <<Parser!Status("test", test),
                               Parser!Code(end), Parser!Blank>>),
                           {Parser!Blank}, <<Closed(b)>>,
                           filed \o Parser!Formatted(b, "UNKNOWN"))
<1> DEFINE one == {"stack"}
           both == {"stack", "test"}
           unnamed == NameAfter("stack", Parser!None, Parser!None)
           q1 == Parser!ParseLine(p, Parser!Status("stack", Parser!None))
           q2 == Parser!ParseLine(q1, Parser!Text("more"))
           q3 == Parser!ParseLine(q2, Parser!Status("test", test))
<1>1. Parser!ParseLines(p, <<Parser!Status("stack", Parser!None),
                             Parser!Text("more")>>) = q2
  BY TwoParsed
<1>2. one \cup {"test"} = both
  OBVIOUS
<1>3. NameAfter("test", test, unnamed) = test
  BY DEF NameAfter
<1>4. InTest(q1, one, unnamed, lines, previous, filed)
  BY FirstKey
<1> HIDE DEF one, both, unnamed, q1
<1>5. PICK l2 : InTest(q2, one, unnamed, l2, previous, filed)
  BY <1>4, TestText
<1> HIDE DEF q2
<1>6. InTest(q3, one \cup {"test"}, NameAfter("test", test, unnamed), l2,
             previous, filed)
  BY <1>5, TestKey
<1>7. InTest(q3, both, test, l2, previous, filed)
  BY <1>2, <1>3, <1>6
<1> QED
  BY <1>1, <1>7, EndedBlock DEF both

(* A test that ended has the record it deserves, and nothing is owed.        *)
LEMMA Completed ==
  ASSUME NEW b, NEW end \in Parser!Ends, end # "never", NEW test, NEW keys,
         IF end \in {"FAILURE", "ASSUMPTION_FAILURE"}
         THEN keys = {"stack", "test"} ELSE keys = {"test"},
         NEW q, NEW previous, NEW filed, Test(b, end, keys, test, previous),
         Between(q, {Parser!Blank}, <<Closed(b)>>,
                 filed \o Parser!Formatted(b, "UNKNOWN"))
  PROVE  Idle(q, filed \o <<Parser!Deserved([test |-> test, end |-> end])>>)
<1> DEFINE r == Parser!Deserved([test |-> test, end |-> end])
<1>1. Parser!CreateRecord(b) = <<r>>
  BY Made
<1> HIDE DEF r
<1>2. end # "START" /\ end \notin Parser!Timing
  BY DEF Parser!Ends, Parser!Timing
<1>3. Parser!CreateRecord(b) \in Seq({r})
  BY <1>1
<1>4. Parser!Formatted(b, "UNKNOWN") = <<r>>
  BY <1>1, <1>2, <1>3, FiledAtCode
<1>5. Between(q, {Parser!Blank}, <<Closed(b)>>, filed \o <<r>>)
  BY <1>4
<1>6. Closed(b).code = end
  BY DEF Closed, Test, BlockFields
<1>7. NothingOpen(<<Closed(b)>>)
  BY <1>2, <1>6 DEF NothingOpen
<1>8. Idle(q, filed \o <<r>>)
  BY <1>5, <1>7 DEF Idle
<1> QED
  BY <1>8 DEF r

(* The block of a test in progress files nothing.                            *)
LEMMA InProgress ==
  ASSUME NEW p, NEW test, NEW lines, NEW previous, NEW S, NEW filed \in Seq(S),
         Between(p, lines, previous, filed)
  PROVE  \E last :
           Between(Parser!ParseLines(p, <<Parser!Status("test", test),
                                          Parser!Code("IN_PROGRESS")>>),
                   {}, last, filed)
<1> DEFINE one == {"test"}
           q1 == Parser!ParseLine(p, Parser!Status("test", test))
           q2 == Parser!ParseLine(q1, Parser!Code("IN_PROGRESS"))
<1>1. Parser!ParseLines(p, <<Parser!Status("test", test),
                             Parser!Code("IN_PROGRESS")>>) = q2
  BY TwoParsed
<1>2. InTest(q1, one, NameAfter("test", test, Parser!None), lines, previous, filed)
  BY FirstKey
<1>3. one \subseteq {"stream", "test"}
  OBVIOUS
<1> HIDE DEF one, q1
<1>4. PICK b, x : /\ Test(b, "IN_PROGRESS", one, x, previous)
                  /\ Between(q2, {}, <<Closed(b)>>,
                             filed \o Parser!Formatted(b, "UNKNOWN"))
  BY <1>2, TestCode
<1> HIDE DEF q2
<1>5. Parser!CreateRecord(b) = <<>>
  <2>1. "IN_PROGRESS" \in Parser!Timing
    BY DEF Parser!Timing
  <2> QED
    BY <1>3, <1>4, <2>1, Made
<1>6. Parser!Formatted(b, "UNKNOWN") = <<>>
  <2>1. Parser!CreateRecord(b) \in Seq({})
    BY <1>5
  <2> QED
    BY <1>4, <1>5, <2>1, FiledAtCode
<1>7. filed \o <<>> = filed
  BY ConcatEmptySeq
<1>8. Between(q2, {}, <<Closed(b)>>, filed)
  BY <1>4, <1>6, <1>7
<1> QED
  BY <1>1, <1>8

(* A test that ends is filed as it ended. *)
LEMMA Done ==
  ASSUME NEW U, NEW test \in U, NEW end \in Parser!Ends, end # "never",
         NEW p, NEW S, NEW filed \in Seq(S), NEW other,
         Pending(p, other, filed)
  PROVE  Idle(Parser!ParseLines(p, Parser!Ended(test, end)),
              filed \o <<Parser!Deserved([test |-> test, end |-> end])>>)
<1> DEFINE A == <<Parser!Status("test", test), Parser!Code("IN_PROGRESS")>>
           B == <<Parser!Status("stack", Parser!None), Parser!Text("more")>>
           C == <<Parser!Status("test", test), Parser!Code(end), Parser!Blank>>
           r == Parser!Deserved([test |-> test, end |-> end])
           q == Parser!ParseLines(p, Parser!Ended(test, end))
           plain == {"test"}
           stack == {"stack", "test"}
<1>1. PICK lines, previous : Between(p, lines, previous, filed)
  BY DEF Pending
<1>2. A \in Seq(Printed(U)) /\ B \in Seq(Printed(U)) /\ C \in Seq(Printed(U))
  BY PrintedType
<1>3. Parser!Ended(test, end) =
        ((IF end = "OK" THEN A ELSE <<>>) \o
         (IF end \in {"FAILURE", "ASSUMPTION_FAILURE"} THEN B ELSE <<>>)) \o C
  BY DEF Parser!Ended
<1>4. \A x, last : Between(x, {}, last, filed) \/ Between(x, lines, previous, filed)
        => \E b, y : /\ Test(b, end, plain, test, y)
                     /\ Between(Parser!ParseLines(x, C), {Parser!Blank},
                                <<Closed(b)>>,
                                filed \o Parser!Formatted(b, "UNKNOWN"))
  BY EndedPlain
<1>5. \E b, y : /\ Test(b, end, stack, test, y)
                /\ Between(Parser!ParseLines(Parser!ParseLines(p, B), C),
                           {Parser!Blank}, <<Closed(b)>>,
                           filed \o Parser!Formatted(b, "UNKNOWN"))
  BY <1>1, EndedStack
<1>6. \E last : Between(Parser!ParseLines(p, A), {}, last, filed)
  BY <1>1, InProgress
<1>7. \A x, y, b :
        /\ IF end \in {"FAILURE", "ASSUMPTION_FAILURE"}
           THEN Test(b, end, stack, test, y) ELSE Test(b, end, plain, test, y)
        /\ Between(x, {Parser!Blank}, <<Closed(b)>>,
                   filed \o Parser!Formatted(b, "UNKNOWN"))
        => Idle(x, filed \o <<r>>)
  BY Completed
<1> HIDE DEF A, B, C, r, q, plain, stack
<1>8. CASE end = "OK"
  <2>1. Parser!Ended(test, end) = A \o C
    <3>1. A \o <<>> = A
      BY <1>2, ConcatEmptySeq
    <3> QED
      BY <1>3, <1>8, <3>1
  <2>2. q = Parser!ParseLines(Parser!ParseLines(p, A), C)
    BY <1>2, <2>1, ParseConcat DEF q
  <2> DEFINE x == Parser!ParseLines(p, A)
  <2>3. PICK last : Between(x, {}, last, filed)
    BY <1>6
  <2>4. PICK b, y : /\ Test(b, end, plain, test, y)
                    /\ Between(q, {Parser!Blank}, <<Closed(b)>>,
                               filed \o Parser!Formatted(b, "UNKNOWN"))
    BY <1>4, <2>2, <2>3
  <2>5. Idle(q, filed \o <<r>>)
    BY <1>7, <1>8, <2>4
  <2> QED
    BY <2>5 DEF q, r
<1>9. CASE end \in {"FAILURE", "ASSUMPTION_FAILURE"}
  <2>1. Parser!Ended(test, end) = B \o C
    <3>1. <<>> \o B = B
      BY <1>2, ConcatEmptySeq
    <3> QED
      BY <1>3, <1>9, <3>1
  <2>2. q = Parser!ParseLines(Parser!ParseLines(p, B), C)
    BY <1>2, <2>1, ParseConcat DEF q
  <2> QED
    BY <1>5, <1>7, <1>9, <2>2 DEF q, r
<1>10. CASE end # "OK" /\ end \notin {"FAILURE", "ASSUMPTION_FAILURE"}
  <2>1. Parser!Ended(test, end) = C
    <3>1. <<>> \o <<>> = <<>> /\ <<>> \o C = C
      BY <1>2, ConcatEmptySeq
    <3> QED
      BY <1>3, <1>10, <3>1
  <2>2. q = Parser!ParseLines(p, C)
    BY <2>1 DEF q
  <2>3. PICK b, y : /\ Test(b, end, plain, test, y)
                    /\ Between(q, {Parser!Blank}, <<Closed(b)>>,
                               filed \o Parser!Formatted(b, "UNKNOWN"))
    BY <1>1, <1>4, <2>2
  <2>4. Idle(q, filed \o <<r>>)
    BY <1>7, <1>10, <2>3
  <2> QED
    BY <2>4 DEF q, r
<1> QED
  BY <1>8, <1>9, <1>10

(* The end of a run: what it files, and how it ends.                         *)
LEMMA FinishedBlock ==
  ASSUME NEW p, NEW lines, NEW previous, NEW filed,
         NEW how \in {"passed", "failed", "crash"},
         lines \subseteq {Parser!Blank}, Between(p, lines, previous, filed)
  PROVE  LET q == Parser!ParseLines(p, Parser!Finish(how)) IN
         /\ q.filed = filed \o Parser!Formatted(p.block, "RESULT")
         /\ Parser!FinishParsing(q) =
              IF how \in {"passed", "failed"} THEN how ELSE "TestError"
<1> DEFINE q == Parser!ParseLines(p, Parser!Finish(how))
           all == filed \o Parser!Formatted(p.block, "RESULT")
           keys == {}
           In(x, l) == At(x, "RESULT", keys, Parser!None, l, previous, all)
           Lines(l) ==
             IF how = "passed" THEN l \cup {Parser!Result("stream"), Parser!Blank,
                                            Parser!Text("OK ("), Parser!Text("more")}
             ELSE IF how = "failed"
             THEN l \cup {Parser!Result("stream"), Parser!Text("FAILURES!!!")}
             ELSE l \cup {Parser!Result("shortMsg"), Parser!Text("more")}
<1>1. \A key : In(Parser!ParseLine(p, Parser!Result(key)),
                  lines \cup {Parser!Result(key)})
  BY ResultLine
<1> HIDE DEF all, keys
<1>2. \A x, l, what : In(x, l) =>
        In(Parser!ParseLine(x, Parser!Text(what)), l \cup {Parser!Text(what)})
  BY ResultText
<1> HIDE DEF In
<1>3. In(q, Lines(lines))
  <2>1. CASE how = "passed"
    <3> DEFINE q1 == Parser!ParseLine(p, Parser!Result("stream"))
               q2 == Parser!ParseLine(q1, Parser!Text(""))
               q3 == Parser!ParseLine(q2, Parser!Text("OK ("))
               q4 == Parser!ParseLine(q3, Parser!Text("more"))
               l1 == lines \cup {Parser!Result("stream")}
               l2 == l1 \cup {Parser!Text("")}
               l3 == l2 \cup {Parser!Text("OK (")}
               l4 == l3 \cup {Parser!Text("more")}
    <3>1. q = q4
      <4>1. Parser!Finish(how) =
              <<Parser!Result("stream"), Parser!Text(""), Parser!Text("OK ("),
                Parser!Text("more")>>
        BY <2>1 DEF Parser!Finish, Parser!Blank
      <4>2. Parser!ParseLines(p, <<Parser!Result("stream"), Parser!Text(""),
                                   Parser!Text("OK ("), Parser!Text("more")>>) = q4
        <5> DEFINE a == Parser!Result("stream")
                   b == Parser!Text("")
                   c == Parser!Text("OK (")
                   d == Parser!Text("more")
        <5> HIDE DEF a, b, c, d
        <5>1. Parser!ParseLines(p, <<a, b, c, d>>) =
                Parser!ParseLine(Parser!ParseLine(Parser!ParseLine(
                  Parser!ParseLine(p, a), b), c), d)
          BY FourParsed
        <5> QED
          BY <5>1 DEF a, b, c, d
      <4> HIDE DEF q4
      <4> QED
        BY <4>1, <4>2
    <3>2. In(q1, l1)
      BY <1>1
    <3>3. In(q2, l2)
      BY <1>2, <3>2
    <3>4. In(q3, l3)
      BY <1>2, <3>3
    <3>5. In(q4, l4)
      BY <1>2, <3>4
    <3>6. l4 = Lines(lines)
      BY <2>1 DEF Parser!Blank
    <3> QED
      BY <3>1, <3>5, <3>6
  <2>2. CASE how = "failed"
    <3> DEFINE q1 == Parser!ParseLine(p, Parser!Result("stream"))
               q2 == Parser!ParseLine(q1, Parser!Text("FAILURES!!!"))
               l1 == lines \cup {Parser!Result("stream")}
               l2 == l1 \cup {Parser!Text("FAILURES!!!")}
    <3>1. q = q2
      BY <2>2, TwoParsed DEF Parser!Finish
    <3>2. In(q1, l1)
      BY <1>1
    <3>3. In(q2, l2)
      BY <1>2, <3>2
    <3>4. l2 = Lines(lines)
      BY <2>2
    <3> QED
      BY <3>1, <3>3, <3>4
  <2>3. CASE how = "crash"
    <3> DEFINE q1 == Parser!ParseLine(p, Parser!Result("shortMsg"))
               q2 == Parser!ParseLine(q1, Parser!Text("more"))
               l1 == lines \cup {Parser!Result("shortMsg")}
               l2 == l1 \cup {Parser!Text("more")}
    <3>1. q = q2
      BY <2>3, TwoParsed DEF Parser!Finish
    <3>2. In(q1, l1)
      BY <1>1
    <3>3. In(q2, l2)
      BY <1>2, <3>2
    <3>4. l2 = Lines(lines)
      BY <2>3
    <3> QED
      BY <3>1, <3>3, <3>4
  <2> QED
    BY <2>1, <2>2, <2>3
<1>4. /\ Parser!Text("OK (") \in Lines(lines) <=> how = "passed"
      /\ Parser!Text("FAILURES!!!") \in Lines(lines) <=> how = "failed"
  BY DEF Parser!Text, Parser!Blank, Parser!Result
<1> HIDE DEF Lines, q
<1>5. q.filed = all /\ q.block.lines = Lines(lines) /\ ~q.raised
  BY <1>3 DEF In, At
<1>6. Parser!FinishParsing(q) =
        IF how \in {"passed", "failed"} THEN how ELSE "TestError"
  BY <1>4, <1>5 DEF Parser!FinishParsing
<1> QED
  BY <1>5, <1>6 DEF q, all

Outcome(how) == IF how \in {"passed", "failed"} THEN how ELSE "TestError"

(* The end of the output files the record that is owed, unless the output is *)
(* cut off, and says how the run went.                                       *)
LEMMA RunFinished ==
  ASSUME NEW p, NEW S, NEW filed \in Seq(S),
         NEW how \in Parser!Finishes \ {"torn"}
  PROVE  /\ Idle(p, filed) =>
              /\ Parser!ParseLines(p, Parser!Finish(how)).filed = filed
              /\ Parser!FinishParsing(Parser!ParseLines(p, Parser!Finish(how))) =
                   Outcome(how)
         /\ \A test : Pending(p, test, filed) =>
              /\ Parser!ParseLines(p, Parser!Finish(how)).filed =
                   IF how = "cut" THEN filed ELSE filed \o <<Unended(test)>>
              /\ Parser!FinishParsing(Parser!ParseLines(p, Parser!Finish(how))) =
                   Outcome(how)
<1> DEFINE q == Parser!ParseLines(p, Parser!Finish(how))
           right == Parser!FinishParsing(q) = Outcome(how)
<1>1. CASE how = "cut"
  <2>1. q = p
    BY <1>1, NothingParsed DEF Parser!Finish
  <2>2. \A lines, previous :
          lines \subseteq {Parser!Blank} /\ Between(p, lines, previous, filed)
          => p.filed = filed /\ Parser!FinishParsing(p) = "TestError"
    <3> SUFFICES ASSUME NEW lines, NEW previous, lines \subseteq {Parser!Blank},
                        Between(p, lines, previous, filed)
                 PROVE  p.filed = filed /\ Parser!FinishParsing(p) = "TestError"
      OBVIOUS
    <3>1. p.filed = filed /\ ~p.raised /\ p.block.lines = lines
      BY DEF Between, At
    <3>2. Parser!Text("OK (") \notin lines /\ Parser!Text("FAILURES!!!") \notin lines
      BY DEF Parser!Text, Parser!Blank
    <3> QED
      BY <3>1, <3>2 DEF Parser!FinishParsing
  <2>3. Idle(p, filed) => p.filed = filed /\ Parser!FinishParsing(p) = "TestError"
    BY <2>2 DEF Idle
  <2>4. \A test : Pending(p, test, filed) =>
                    p.filed = filed /\ Parser!FinishParsing(p) = "TestError"
    BY <2>2 DEF Pending
  <2> HIDE DEF q
  <2> QED
    BY <1>1, <2>1, <2>3, <2>4 DEF q, Outcome
<1>2. CASE how # "cut"
  <2>1. how \in {"passed", "failed", "crash"}
    BY <1>2 DEF Parser!Finishes
  <2>2. \A lines, previous :
          lines \subseteq {Parser!Blank} /\ Between(p, lines, previous, filed)
          => q.filed = filed \o Parser!Formatted(p.block, "RESULT") /\ right
    BY <2>1, FinishedBlock DEF Outcome
  <2>3. filed \o <<>> = filed
    BY ConcatEmptySeq
  <2> HIDE DEF q, right
  <2>4. ASSUME Idle(p, filed) PROVE q.filed = filed /\ right
    <3>1. PICK lines, previous : /\ lines \subseteq {Parser!Blank}
                                 /\ Between(p, lines, previous, filed)
                                 /\ NothingOpen(previous)
      BY <2>4 DEF Idle
    <3>2. p.block.empty /\ p.block.previous = previous
      BY <3>1 DEF Between, At
    <3>3. NothingOpen(p.block.previous)
      BY <3>1, <3>2
    <3>4. Parser!Formatted(p.block, "RESULT") = <<>>
      BY <3>2, <3>3, FiledAtResult
    <3> QED
      BY <2>2, <2>3, <3>1, <3>4
  <2>5. ASSUME NEW test, Pending(p, test, filed)
        PROVE  q.filed = filed \o <<Unended(test)>> /\ right
    <3>1. PICK lines, previous : /\ lines \subseteq {Parser!Blank}
                                 /\ Between(p, lines, previous, filed)
                                 /\ Owed(previous, test)
      BY <2>5 DEF Pending
    <3>2. p.block.empty /\ p.block.previous = previous
      BY <3>1 DEF Between, At
    <3>3. Owed(p.block.previous, test)
      BY <3>1, <3>2
    <3>4. Parser!Formatted(p.block, "RESULT") = <<Unended(test)>>
      BY <3>2, <3>3, FiledAtResult
    <3> QED
      BY <2>2, <3>1, <3>4
  <2> QED
    BY <1>2, <2>4, <2>5 DEF q, right
<1> QED
  BY <1>1, <1>2

-----------------------------------------------------------------------------
(* Every test of an output *)

(* What a device prints, test after test.                                    *)
Part(test) ==
  Parser!Begins(test.test) \o Parser!Ended(test.test, test.end)

(* The output as it grows test by test.                                      *)
LEMMA PrintedIs ==
  ASSUME NEW tests, Len(tests) \in Nat, NEW how
  PROVE  \E a : /\ a[0] = <<>>
                /\ \A i \in 1..Len(tests) : a[i] = a[i - 1] \o Part(tests[i])
                /\ Parser!Output(tests, how) =
                     a[Len(tests)] \o Parser!Finish(how)
<1> DEFINE size == Len(tests)
           Turn(q, i) == q \o Part(tests[i])
           Solved(k) ==
             \E g : g = [i \in 0..k |-> IF i = 0 THEN <<>> ELSE Turn(g[i - 1], i)]
<1>1. size \in Nat
  OBVIOUS
<1> HIDE DEF Turn, size
<1>2. Solved(0)
  <2>1. [i \in 0..0 |-> <<>>] =
          [i \in 0..0 |-> IF i = 0 THEN <<>>
                          ELSE Turn([j \in 0..0 |-> <<>>][i - 1], i)]
    OBVIOUS
  <2> QED
    BY <2>1
<1>3. ASSUME NEW k \in 1..size, Solved(k - 1) PROVE Solved(k)
  <2>1. PICK g : g = [i \in 0..k - 1 |-> IF i = 0 THEN <<>> ELSE Turn(g[i - 1], i)]
    BY <1>3
  <2> DEFINE h == [i \in 0..k |-> IF i = k THEN Turn(g[k - 1], k) ELSE g[i]]
  <2>2. ASSUME NEW i \in 0..k
        PROVE  h[i] = IF i = 0 THEN <<>> ELSE Turn(h[i - 1], i)
    <3>1. CASE i = k
      <4>1. k - 1 \in 0..k /\ k - 1 # k /\ k # 0 /\ k \in 0..k
        BY <1>1
      <4>2. h[k - 1] = g[k - 1]
        BY <4>1
      <4> QED
        BY <3>1, <4>1, <4>2
    <3>2. CASE i # k
      <4>1. i \in 0..k - 1
        BY <1>1, <2>2, <3>2
      <4>2. i # 0 => i - 1 \in 0..k /\ i - 1 # k
        BY <4>1
      <4>3. i # 0 => h[i - 1] = g[i - 1]
        BY <4>2
      <4>4. h[i] = g[i]
        BY <3>2
      <4> QED
        BY <2>1, <4>1, <4>3, <4>4
    <3> QED
      BY <3>1, <3>2
  <2> HIDE DEF h
  <2>3. h = [i \in 0..k |-> h[i]]
    BY DEF h
  <2>4. h = [i \in 0..k |-> IF i = 0 THEN <<>> ELSE Turn(h[i - 1], i)]
    BY <2>2, <2>3
  <2> QED
    BY <2>4
<1>4. Solved(size)
  <2> DEFINE T == {k \in 0..size : Solved(k)}
  <2> HIDE DEF Solved
  <2>1. 0 \in T
    BY <1>1, <1>2
  <2>2. ASSUME NEW k \in 1..size, k - 1 \in T PROVE k \in T
    BY <1>1, <1>3, <2>2
  <2>3. size \in 0..size
    BY <1>1
  <2> HIDE DEF T
  <2>4. \A k \in 0..size : k \in T
    BY <1>1, <2>1, <2>2, Upwards
  <2> QED
    BY <2>3, <2>4 DEF T
<1> DEFINE printed[i \in 0..size] == IF i = 0 THEN <<>> ELSE Turn(printed[i - 1], i)
<1>5. Parser!Output(tests, how) = printed[size] \o Parser!Finish(how)
  BY DEF Parser!Output, Turn, size, Part
<1>6. printed = CHOOSE g : g = [i \in 0..size |->
                  IF i = 0 THEN <<>> ELSE Turn(g[i - 1], i)]
  BY DEF printed
<1>7. printed = [i \in 0..size |-> IF i = 0 THEN <<>> ELSE Turn(printed[i - 1], i)]
  BY <1>4, <1>6
<1> HIDE DEF printed
<1>8. printed[0] = <<>> /\ \A i \in 1..size : printed[i] = Turn(printed[i - 1], i)
  BY <1>1, <1>7
<1> QED
  BY <1>5, <1>8 DEF Turn, size

Records(U) == [test : U, result : {"PASS", "FAIL", "SKIP", "ERROR"}]

(* The records of tests, that of an unfinished one among them.               *)
LEMMA DeservedType ==
  ASSUME NEW U, NEW t \in [test : U, end : Parser!Ends]
  PROVE  /\ Parser!Deserved(t) \in Records(U)
         /\ t.end = "never" => Parser!Deserved(t) = Unended(t.test)
<1> DEFINE r == CASE t.end = "OK" -> "PASS"
                  [] t.end \in {"FAILURE", "ERROR"} -> "FAIL"
                  [] t.end \in {"IGNORED", "ASSUMPTION_FAILURE"} -> "SKIP"
                  [] t.end = "never" -> "ERROR"
<1>1. Parser!Deserved(t) = [test |-> t.test, result |-> r]
  BY DEF Parser!Deserved
<1>2. r \in {"PASS", "FAIL", "SKIP", "ERROR"}
  BY DEF Parser!Ends
<1>3. t.end = "never" => r = "ERROR"
  OBVIOUS
<1> HIDE DEF r
<1> QED
  BY <1>1, <1>2, <1>3 DEF Records, Unended

(* A test is handed over in two parts, its beginning and its end.            *)
LEMMA PartParsed ==
  ASSUME NEW U, NEW t \in [test : U, end : Parser!Ends], NEW p
  PROVE  /\ Part(t) \in Seq(Printed(U))
         /\ Parser!ParseLines(p, Part(t)) =
              Parser!ParseLines(Parser!ParseLines(p, Parser!Begins(t.test)),
                                Parser!Ended(t.test, t.end))
<1> DEFINE L == Printed(U)
           B == Parser!Begins(t.test)
           E == Parser!Ended(t.test, t.end)
<1>1. B \in Seq(L) /\ E \in Seq(L)
  BY PrintedType
<1>2. Part(t) = B \o E
  BY DEF Part
<1> HIDE DEF L, B, E
<1>3. B \o E \in Seq(L)
  BY <1>1, ConcatProperties
<1>4. Parser!ParseLines(p, B \o E) =
        Parser!ParseLines(Parser!ParseLines(p, B), E)
  BY <1>1, ParseConcat
<1> QED
  BY <1>2, <1>3, <1>4 DEF L, B, E

(* One more test: the record of an open one before it, and its own.          *)
LEMMA OneMore ==
  ASSUME NEW U, NEW t \in [test : U, end : Parser!Ends], NEW p,
         NEW filed \in Seq(Records(U)), NEW last \in Seq(Records(U)),
         Idle(p, filed) \/ \E u \in U : /\ Pending(p, u, last)
                                        /\ filed = last \o <<Unended(u)>>
  PROVE  IF t.end = "never"
         THEN Pending(Parser!ParseLines(p, Part(t)), t.test, filed)
         ELSE Idle(Parser!ParseLines(p, Part(t)),
                   filed \o <<Parser!Deserved(t)>>)
<1> DEFINE q == Parser!ParseLines(p, Parser!Begins(t.test))
           r == Parser!ParseLines(p, Part(t))
<1>1. Pending(q, t.test, filed)
  <2>1. CASE Idle(p, filed)
    BY <2>1, Begun
  <2>2. CASE \E u \in U : Pending(p, u, last) /\ filed = last \o <<Unended(u)>>
    <3>1. PICK u \in U : Pending(p, u, last) /\ filed = last \o <<Unended(u)>>
      BY <2>2
    <3>2. Pending(q, t.test, last \o <<Unended(u)>>)
      BY <3>1, Begun
    <3> QED
      BY <3>1, <3>2
  <2> QED
    BY <2>1, <2>2
<1>2. r = Parser!ParseLines(q, Parser!Ended(t.test, t.end))
  BY PartParsed
<1>3. t.test \in U /\ t.end \in Parser!Ends
  OBVIOUS
<1> HIDE DEF q, r
<1>4. CASE t.end = "never"
  <2>1. Parser!Ended(t.test, t.end) = <<>>
    BY <1>4 DEF Parser!Ended
  <2>2. r = q
    BY <1>2, <2>1, NothingParsed
  <2> QED
    BY <1>1, <1>4, <2>2 DEF r
<1>5. CASE t.end # "never"
  <2> DEFINE test == t.test
             end == t.end
  <2>1. [test |-> test, end |-> end] = t
    OBVIOUS
  <2>2. test \in U /\ end \in Parser!Ends /\ end # "never"
    BY <1>3, <1>5
  <2>3. r = Parser!ParseLines(q, Parser!Ended(test, end))
    BY <1>2
  <2>4. Pending(q, test, filed)
    BY <1>1
  <2> HIDE DEF test, end
  <2>5. Idle(r, filed \o <<Parser!Deserved([test |-> test, end |-> end])>>)
    BY <2>2, <2>3, <2>4, Done
  <2>6. Idle(r, filed \o <<Parser!Deserved(t)>>)
    BY <2>1, <2>5
  <2> QED
    BY <1>5, <2>6 DEF r
<1> QED
  BY <1>4, <1>5

(* run_instrumentation_test, for any number of tests and names and whatever  *)
(* became of each: the parser files one record for each test, in their order *)
(* and with the result the device reported. A test that never ended, because *)
(* its process died with it, is an ERROR, but for the last one of an output  *)
(* that is cut off there; and the run passes or fails as its last lines say, *)
(* or raises TestError if there are none. By induction on the tests, with    *)
(* the state of the parser between two of them: nothing owed (Idle), or the  *)
(* record of the one before (Pending).                                       *)
THEOREM FilesEach ==
  ASSUME NEW U, NEW tests \in Seq([test : U, end : Parser!Ends]),
         NEW how \in Parser!Finishes \ {"torn"}
  PROVE  Parser!FilesEachTest(tests, how)
<1> DEFINE size == Len(tests)
           T == [test : U, end : Parser!Ends]
           L == Printed(U)
           R(k) == [j \in 1..k |-> Parser!Deserved(tests[j])]
<1>1. size \in Nat /\ DOMAIN tests = 1..size /\ \A i \in 1..size : tests[i] \in T
  <2> HIDE DEF T
  <2>1. tests \in Seq(T)
    BY DEF T
  <2> QED
    BY <2>1, LenProperties
<1>2. PICK a : /\ a[0] = <<>>
               /\ \A i \in 1..size : a[i] = a[i - 1] \o Part(tests[i])
               /\ Parser!Output(tests, how) = a[size] \o Parser!Finish(how)
  BY <1>1, PrintedIs
<1> HIDE DEF size
<1>3. \A k \in 0..size : R(k) \in Seq(Records(U))
  <2>1. \A j \in 1..size : Parser!Deserved(tests[j]) \in Records(U)
    BY <1>1, DeservedType
  <2> QED
    BY <1>1, <2>1
<1>4. \A k \in 1..size : R(k) = R(k - 1) \o <<Parser!Deserved(tests[k])>>
  <2> TAKE k \in 1..size
  <2> DEFINE r == Parser!Deserved(tests[k])
             s == R(k - 1)
  <2>1. /\ s \in Seq(Records(U)) /\ Len(s) = k - 1
        /\ \A j \in 1..k - 1 : s[j] = Parser!Deserved(tests[j])
    <3>1. k - 1 \in 0..size
      BY <1>1
    <3> QED
      BY <1>1, <1>3, <3>1
  <2>2. r \in Records(U)
    BY <1>1, DeservedType
  <2> HIDE DEF s, r
  <2>3. Len(s \o <<r>>) = k /\ DOMAIN (s \o <<r>>) = 1..k
    BY <1>1, <2>1, <2>2
  <2>4. \A j \in 1..k : (s \o <<r>>)[j] = Parser!Deserved(tests[j])
    BY <1>1, <2>1, <2>2 DEF r
  <2>5. s \o <<r>> = [j \in 1..k |-> (s \o <<r>>)[j]]
    BY <2>1, <2>2, <2>3
  <2> QED
    BY <2>4, <2>5 DEF s, r
<1> DEFINE P(i) == Parser!ParseLines(Parser!Start, a[i])
           Unfinished(i) == i # 0 /\ tests[i].end = "never"
           Good == {i \in 0..size :
                      /\ a[i] \in Seq(L)
                      /\ IF Unfinished(i) THEN Pending(P(i), tests[i].test, R(i - 1))
                         ELSE Idle(P(i), R(i))}
<1> HIDE DEF R, P, L
<1>5. 0 \in Good
  <2>1. R(0) = <<>> /\ a[0] \in Seq(L)
    BY <1>2 DEF R
  <2>2. P(0) = Parser!Start
    BY <1>2, NothingParsed DEF P
  <2>3. Between(Parser!Start, {}, <<>>, <<>>)
    BY DEF Between, At, Parser!Start, Parser!NewBlock, BlockFields
  <2>4. Idle(P(0), R(0))
    BY <2>1, <2>2, <2>3 DEF Idle, NothingOpen
  <2> QED
    BY <1>1, <2>1, <2>4
<1>6. ASSUME NEW i \in 1..size, i - 1 \in Good PROVE i \in Good
  <2> DEFINE t == tests[i]
             p == P(i - 1)
             filed == R(i - 1)
  <2>1. /\ i - 1 \in 0..size /\ a[i - 1] \in Seq(L)
        /\ IF Unfinished(i - 1) THEN Pending(p, tests[i - 1].test, R(i - 2))
           ELSE Idle(p, filed)
    <3>1. (i - 1) - 1 = i - 2
      BY <1>1
    <3> QED
      BY <1>6, <3>1
  <2>2. t \in T /\ filed \in Seq(Records(U))
    BY <1>1, <1>3, <2>1
  <2>3. a[i] = a[i - 1] \o Part(t) /\ Part(t) \in Seq(L)
    <3>1. Part(t) \in Seq(L)
      BY <2>2, PartParsed DEF L
    <3> QED
      BY <1>2, <3>1
  <2>4. a[i] \in Seq(L)
    BY <2>1, <2>3, ConcatProperties
  <2>5. P(i) = Parser!ParseLines(p, Part(t))
    BY <2>1, <2>3, ParseConcat DEF P
  <2>6. \E last \in Seq(Records(U)) :
          \/ Idle(p, filed)
          \/ \E u \in U : Pending(p, u, last) /\ filed = last \o <<Unended(u)>>
    <3>1. CASE ~Unfinished(i - 1)
      BY <2>1, <2>2, <3>1
    <3>2. CASE Unfinished(i - 1)
      <4>1. i - 1 \in 1..size /\ i - 2 \in 0..size /\ (i - 1) - 1 = i - 2
        BY <1>1, <3>2
      <4>2. filed = R(i - 2) \o <<Parser!Deserved(tests[i - 1])>>
        BY <1>4, <4>1
      <4>3. tests[i - 1] \in T /\ tests[i - 1].test \in U
        BY <1>1, <4>1
      <4>4. Parser!Deserved(tests[i - 1]) = Unended(tests[i - 1].test)
        BY <3>2, <4>3, DeservedType
      <4>5. Pending(p, tests[i - 1].test, R(i - 2))
        BY <2>1, <3>2
      <4>6. R(i - 2) \in Seq(Records(U))
        BY <1>3, <4>1
      <4> QED
        BY <4>2, <4>3, <4>4, <4>5, <4>6
    <3> QED
      BY <3>1, <3>2
  <2>7. R(i) = filed \o <<Parser!Deserved(t)>>
    BY <1>4
  <2>8. i # 0 /\ i \in 0..size
    BY <1>1
  <2> HIDE DEF t, p, filed
  <2>9. PICK last \in Seq(Records(U)) :
          \/ Idle(p, filed)
          \/ \E u \in U : Pending(p, u, last) /\ filed = last \o <<Unended(u)>>
    BY <2>6
  <2>10. IF t.end = "never"
         THEN Pending(Parser!ParseLines(p, Part(t)), t.test, filed)
         ELSE Idle(Parser!ParseLines(p, Part(t)),
                   filed \o <<Parser!Deserved(t)>>)
    BY <2>2, <2>9, OneMore
  <2>11. IF t.end = "never" THEN Pending(P(i), t.test, filed)
         ELSE Idle(P(i), R(i))
    BY <2>5, <2>7, <2>10
  <2> QED
    BY <2>4, <2>8, <2>11 DEF t, filed
<1>7. size \in Good
  <2> HIDE DEF Good
  <2>1. \A i \in 0..size : i \in Good
    BY <1>1, <1>5, <1>6, Upwards
  <2> QED
    BY <1>1, <2>1
<1> DEFINE run == Parser!RunInstrumentationTest(Parser!Output(tests, how))
           q == Parser!ParseLines(P(size), Parser!Finish(how))
           records == [i \in DOMAIN tests |-> Parser!Deserved(tests[i])]
           open == tests # <<>> /\ Parser!Last(tests).end = "never" /\ how = "cut"
<1>8. Parser!Finish(how) \in Seq(L)
  BY FinishType DEF L
<1>9. Parser!ParseLines(Parser!Start, Parser!Output(tests, how)) = q
  BY <1>2, <1>7, <1>8, ParseConcat DEF P
<1>10. run.filed = q.filed /\ run.outcome = Parser!FinishParsing(q)
  BY <1>9 DEF Parser!RunInstrumentationTest
<1>11. records = R(size)
  BY <1>1 DEF R
<1>12. open <=> Unfinished(size) /\ how = "cut"
  BY <1>1 DEF Parser!Last, size
<1>13. Unfinished(size) => size - 1 \in 0..size /\ Parser!Front(records) = R(size - 1)
  <2> HAVE Unfinished(size)
  <2>1. size \in 1..size /\ size - 1 \in 0..size
    BY <1>1
  <2> DEFINE s == R(size - 1)
             r == Parser!Deserved(tests[size])
  <2>2. records = s \o <<r>>
    BY <1>4, <1>11, <2>1
  <2>3. s \in Seq(Records(U)) /\ Len(s) = size - 1
    <3>1. Len(R(size - 1)) = size - 1
      BY <2>1 DEF R
    <3> QED
      BY <1>3, <2>1, <3>1
  <2>4. r \in Records(U)
    BY <1>1, <2>1, DeservedType
  <2> HIDE DEF s, r, records
  <2>5. Parser!Front(s \o <<r>>) = s
    <3>1. Len(s \o <<r>>) = size
      BY <1>1, <2>3, <2>4
    <3>2. Parser!Front(s \o <<r>>) = SubSeq(s \o <<r>>, 1, size - 1)
      BY <3>1 DEF Parser!Front
    <3>3. SubSeq(s \o <<r>>, 1, size - 1) = [j \in 1..size - 1 |-> (s \o <<r>>)[j]]
      BY <1>1, <2>1, <2>3, <2>4, <3>1
    <3>4. \A j \in 1..size - 1 : (s \o <<r>>)[j] = s[j]
      BY <1>1, <2>3, <2>4
    <3>5. s = [j \in 1..size - 1 |-> s[j]]
      BY <2>3
    <3> QED
      BY <3>2, <3>3, <3>4, <3>5
  <2> QED
    BY <2>1, <2>2, <2>5 DEF s
<1>14. /\ run.filed = IF open THEN Parser!Front(records) ELSE records
       /\ run.outcome = Outcome(how)
  <2> DEFINE p == P(size)
  <2>1. IF Unfinished(size) THEN Pending(p, tests[size].test, R(size - 1))
        ELSE Idle(p, R(size))
    BY <1>7
  <2> HIDE DEF p, run, records, open, q
  <2>2. q = Parser!ParseLines(p, Parser!Finish(how))
    BY DEF q, p
  <2>3. CASE ~Unfinished(size)
    <3>1. R(size) \in Seq(Records(U)) /\ Idle(p, R(size))
      BY <1>1, <1>3, <2>1, <2>3
    <3> DEFINE all == R(size)
    <3> HIDE DEF all
    <3>2. q.filed = all /\ Parser!FinishParsing(q) = Outcome(how)
      <4> DEFINE r == Parser!ParseLines(p, Parser!Finish(how))
                 K == Records(U)
      <4> HIDE DEF K
      <4>1. all \in Seq(K) /\ Idle(p, all)
        BY <3>1 DEF K, all
      <4>2. r.filed = all /\ Parser!FinishParsing(r) = Outcome(how)
        BY <4>1, RunFinished
      <4> QED
        BY <2>2, <4>2
    <3> QED
      BY <1>10, <1>11, <1>12, <2>3, <3>2 DEF all
  <2>4. CASE Unfinished(size)
    <3> DEFINE last == R(size - 1)
               u == tests[size].test
    <3>1. /\ last \in Seq(Records(U)) /\ Pending(p, u, last)
          /\ Parser!Front(records) = last
      BY <1>3, <1>13, <2>1, <2>4
    <3>2. R(size) = last \o <<Unended(u)>>
      <4>1. size \in 1..size /\ tests[size] \in T /\ tests[size].end = "never"
        BY <1>1, <2>4
      <4>2. Parser!Deserved(tests[size]) = Unended(u)
        BY <4>1, DeservedType
      <4> QED
        BY <1>4, <4>1, <4>2
    <3> HIDE DEF last, u
    <3>3. /\ q.filed = IF how = "cut" THEN last ELSE last \o <<Unended(u)>>
          /\ Parser!FinishParsing(q) = Outcome(how)
      <4> DEFINE r == Parser!ParseLines(p, Parser!Finish(how))
                 K == Records(U)
      <4> HIDE DEF K
      <4>1. last \in Seq(K) /\ Pending(p, u, last)
        BY <3>1 DEF K
      <4>2. /\ r.filed = IF how = "cut" THEN last ELSE last \o <<Unended(u)>>
            /\ Parser!FinishParsing(r) = Outcome(how)
        BY <4>1, RunFinished
      <4> QED
        BY <2>2, <4>2
    <3> QED
      BY <1>10, <1>11, <1>12, <2>4, <3>1, <3>2, <3>3
  <2> QED
    BY <2>3, <2>4
<1> QED
  BY <1>14 DEF Parser!FilesEachTest, Outcome

(* What the runs check of the parser: the outputs of up to three tests are   *)
(* among those of FilesEach.                                                 *)
THEOREM InstrumentationCorrect == RunSpec => []InstrumentationSound
<1>1. InstrumentationSound
  <2> DEFINE T == [test : {"a", "b"}, end : Parser!Ends]
  <2>1. DeviceRuns \subseteq Seq(T)
    <3> SUFFICES ASSUME NEW tests \in DeviceRuns PROVE tests \in Seq(T)
      OBVIOUS
    <3>1. PICK m \in 0..3 : tests \in [1..m -> T]
      BY DEF DeviceRuns, Parser!BoundedSeq, Parser!SeqOf
    <3> HIDE DEF T
    <3> QED
      BY <3>1, SeqDef
  <2> QED
    BY <2>1, FilesEach DEF InstrumentationSound
<1> QED
  BY <1>1, PTL
=============================================================================
