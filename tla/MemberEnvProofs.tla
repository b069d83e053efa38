-------------------------- MODULE MemberEnvProofs --------------------------
(***************************************************************************)
(* What MergeMemberEnv and OtherArgs of SharedObjects compute, for lists   *)
(* of every length.  Both are defined by recursion over a list, so the     *)
(* lemmas are proved by induction.  The induction theorems of the library  *)
(* take the formula as an operator, which the provers cannot instantiate;  *)
(* here induction is a fact about sets instead: a set of numbers that has  *)
(* 0 and with every number the next one has them all.                      *)
(***************************************************************************)
EXTENDS SharedObjects, SequenceTheorems, WellFoundedInduction, TLAPS

-----------------------------------------------------------------------------
(* Induction *)

\* A set of natural numbers that is not empty has a least element.
LEMMA LeastElement ==
    ASSUME NEW S, S \subseteq Nat, S # {}
    PROVE  \E x \in S : \A y \in S : x <= y
<1> DEFINE R == OpToRel(<, Nat)
<1>1. \E x \in S : \A y \in S : ~ (<<y, x>> \in R)
  <2>1. IsWellFoundedOn(R, Nat)
    BY NatLessThanWellFounded
  <2> HIDE DEF R
  <2> QED
    BY <2>1, WFMin
<1>2. ASSUME NEW x \in S, NEW y \in S, ~ (<<y, x>> \in R)
      PROVE  x <= y
  <2>1. y < x => <<y, x>> \in R
    BY DEF OpToRel
  <2> HIDE DEF R
  <2> QED
    BY <1>2, <2>1
<1> HIDE DEF R
<1> QED
  BY <1>1, <1>2

\* Min of such a set is its least element.
LEMMA MinIsLeast ==
    ASSUME NEW S, S \subseteq Nat, S # {}
    PROVE  Min(S) \in S /\ \A y \in S : Min(S) <= y
  BY LeastElement DEF Min

\* A set that has 0 and with a number the next one has every number.
LEMMA Induction ==
    ASSUME NEW T, 0 \in T, \A n \in Nat : n \in T => n + 1 \in T
    PROVE  Nat \subseteq T
<1> SUFFICES ASSUME Nat \ T # {} PROVE FALSE
  OBVIOUS
<1>1. PICK x \in Nat \ T : \A y \in Nat \ T : x <= y
  <2>1. Nat \ T \subseteq Nat
    OBVIOUS
  <2> QED
    BY <2>1, LeastElement
<1>2. x # 0
  BY <1>1
<1>3. x - 1 \in Nat /\ x - 1 \notin T
  BY <1>1, <1>2, x - 1 + 1 = x
<1> QED
  BY <1>1, <1>3

\* A set that has the empty list and with a list every one longer by an
\* element has all lists.
LEMMA ListInduction ==
    ASSUME NEW A, NEW T, <<>> \in T,
           \A s \in Seq(A), e \in A : s \in T => Append(s, e) \in T
    PROVE  Seq(A) \subseteq T
<1> DEFINE N == {n \in Nat : \A s \in Seq(A) : Len(s) = n => s \in T}
<1>1. 0 \in N
  BY EmptySeq
<1>2. ASSUME NEW n \in Nat, n \in N PROVE n + 1 \in N
  <2> SUFFICES ASSUME NEW s \in Seq(A), Len(s) = n + 1 PROVE s \in T
    OBVIOUS
  <2>1. s # <<>>
    BY EmptySeq
  <2>2. PICK r \in Seq(A), e \in A : s = Append(r, e)
    BY <2>1, SequenceEmptyOrAppend
  <2>3. Len(r) = n
    BY <2>2, AppendProperties, LenProperties
  <2> QED
    BY <1>2, <2>2, <2>3
<1>3. Nat \subseteq N
  <2> HIDE DEF N
  <2> QED
    BY <1>1, <1>2, Induction
<1> QED
  BY <1>3, LenProperties

-----------------------------------------------------------------------------
(* Among *)

\* What Among unfolds to: the list it has built after n elements.
LEMMA AmongUnfolds ==
    ASSUME NEW A, NEW list \in Seq(A), NEW set
    PROVE  \E upTo :
             /\ upTo = [n \in 0..Len(list) |->
                          IF n = 0 THEN <<>>
                          ELSE IF list[n] \in set
                               THEN Append(upTo[n-1], list[n])
                               ELSE upTo[n-1]]
             /\ Among(list, set) = upTo[Len(list)]
<1> DEFINE Step(f, n) == IF n = 0 THEN <<>>
                         ELSE IF list[n] \in set THEN Append(f[n-1], list[n])
                                                 ELSE f[n-1]
           Defined == {m \in Nat : \E f : f = [n \in 0..m |-> Step(f, n)]}
<1>1. 0 \in Defined
  <2>1. [n \in 0..0 |-> <<>>]
            = [n \in 0..0 |-> Step([k \in 0..0 |-> <<>>], n)]
    OBVIOUS
  <2> QED
    BY <2>1
<1>2. ASSUME NEW m \in Nat, m \in Defined PROVE m + 1 \in Defined
  <2>1. PICK f : f = [n \in 0..m |-> Step(f, n)]
    BY <1>2
  <2> DEFINE g == [n \in 0..(m+1) |-> IF n = m + 1 THEN Step(f, n) ELSE f[n]]
  <2>2. \A n \in 0..(m+1) : Step(g, n) = Step(f, n)
    OBVIOUS
  <2>3. \A n \in 0..m : f[n] = Step(f, n)
    BY <2>1
  <2>4. \A n \in 0..(m+1) : g[n] = Step(f, n)
    BY <2>3, 0..(m+1) = 0..m \cup {m+1}
  <2>5. g = [n \in 0..(m+1) |-> Step(g, n)]
    BY <2>4, <2>2
  <2> HIDE DEF g
  <2>6. m + 1 \in Nat
    OBVIOUS
  <2> QED
    BY <2>5, <2>6
<1>3. Len(list) \in Defined
  <2> HIDE DEF Defined
  <2> QED
    BY <1>1, <1>2, Induction, LenProperties
<1> DEFINE upTo == CHOOSE f : f = [n \in 0..Len(list) |-> Step(f, n)]
<1>4. upTo = [n \in 0..Len(list) |-> Step(upTo, n)]
  BY <1>3
<1>5. Among(list, set) = upTo[Len(list)]
  BY Zenon DEF Among
<1> QED
  BY <1>4, <1>5

\* No entry of the empty list is in a set.
LEMMA AmongEmpty == ASSUME NEW set PROVE Among(<<>>, set) = <<>>
<1>1. <<>> \in Seq({}) /\ Len(<<>>) = 0
  BY EmptySeq
<1>2. PICK f : /\ f = [n \in 0..Len(<<>>) |->
                         IF n = 0 THEN <<>>
                         ELSE IF <<>>[n] \in set THEN Append(f[n-1], <<>>[n])
                                                 ELSE f[n-1]]
               /\ Among(<<>>, set) = f[Len(<<>>)]
  BY <1>1, AmongUnfolds, Zenon
<1>3. 0 \in 0..0
  OBVIOUS
<1> QED
  BY <1>1, <1>2, <1>3

\* An entry more at the end is one more if it is in the set.
LEMMA AmongAppend ==
    ASSUME NEW A, NEW list \in Seq(A), NEW e \in A, NEW set
    PROVE  Among(Append(list, e), set)
             = IF e \in set THEN Append(Among(list, set), e)
                            ELSE Among(list, set)
<1> DEFINE longer == Append(list, e)
<1>1. /\ longer \in Seq(A) /\ Len(longer) = Len(list) + 1
      /\ Len(list) \in Nat
      /\ \A i \in 1..Len(list) : longer[i] = list[i]
      /\ longer[Len(list) + 1] = e
  BY AppendProperties, LenProperties
<1> HIDE DEF longer
<1>2. PICK f : /\ f = [n \in 0..Len(list) |->
                         IF n = 0 THEN <<>>
                         ELSE IF list[n] \in set THEN Append(f[n-1], list[n])
                                                 ELSE f[n-1]]
               /\ Among(list, set) = f[Len(list)]
  BY AmongUnfolds
<1>3. PICK g : /\ g = [n \in 0..Len(longer) |->
                         IF n = 0 THEN <<>>
                         ELSE IF longer[n] \in set
                              THEN Append(g[n-1], longer[n]) ELSE g[n-1]]
               /\ Among(longer, set) = g[Len(longer)]
  BY <1>1, AmongUnfolds
<1> DEFINE Same == {n \in Nat : n <= Len(list) => g[n] = f[n]}
<1>4. 0 \in Same
  <2>1. 0 \in 0..Len(list) /\ 0 \in 0..Len(longer)
    BY <1>1
  <2>2. f[0] = <<>> /\ g[0] = <<>>
    BY <1>2, <1>3, <2>1
  <2> QED
    BY <2>2
<1>5. ASSUME NEW n \in Nat, n \in Same PROVE n + 1 \in Same
  <2> SUFFICES ASSUME n + 1 <= Len(list) PROVE g[n+1] = f[n+1]
    OBVIOUS
  <2>1. /\ n + 1 \in 0..Len(list) /\ n + 1 \in 0..Len(longer)
        /\ n + 1 # 0 /\ (n + 1) - 1 = n /\ n + 1 \in 1..Len(list)
    BY <1>1
  <2>2. f[n+1] = IF list[n+1] \in set THEN Append(f[n], list[n+1]) ELSE f[n]
    BY <1>2, <2>1
  <2>3. g[n+1] = IF longer[n+1] \in set THEN Append(g[n], longer[n+1])
                                        ELSE g[n]
    BY <1>3, <2>1
  <2> QED
    BY <1>1, <1>5, <2>1, <2>2, <2>3
<1>6. g[Len(list)] = f[Len(list)]
  <2>1. Nat \subseteq Same
    <3> HIDE DEF Same
    <3> QED
      BY <1>4, <1>5, Induction
  <2> QED
    BY <1>1, <2>1
<1>7. g[Len(longer)] = IF e \in set THEN Append(g[Len(list)], e)
                                    ELSE g[Len(list)]
  <2>1. /\ Len(longer) \in 0..Len(longer) /\ Len(longer) # 0
        /\ Len(longer) - 1 = Len(list)
    BY <1>1
  <2> QED
    BY <1>1, <1>3, <2>1
<1> QED
  BY <1>2, <1>3, <1>6, <1>7 DEF longer

\* The result is a list of entries that are in the set.
LEMMA AmongType ==
    ASSUME NEW A, NEW set
    PROVE  \A list \in Seq(A) : Among(list, set) \in Seq(A \cap set)
<1> DEFINE Typed == {list \in Seq(A) : Among(list, set) \in Seq(A \cap set)}
<1>1. <<>> \in Typed
  BY AmongEmpty, EmptySeq
<1>2. ASSUME NEW list \in Seq(A), NEW e \in A, list \in Typed
      PROVE  Append(list, e) \in Typed
  <2>1. Append(list, e) \in Seq(A)
    BY AppendProperties
  <2>2. CASE e \in set
    <3>1. Among(Append(list, e), set) = Append(Among(list, set), e)
      BY <2>2, AmongAppend
    <3>2. e \in A \cap set
      BY <2>2
    <3>3. Append(Among(list, set), e) \in Seq(A \cap set)
      BY <1>2, <3>2, AppendProperties
    <3> QED
      BY <2>1, <3>1, <3>3
  <2>3. CASE e \notin set
    BY <1>2, <2>1, <2>3, AmongAppend
  <2> QED
    BY <2>2, <2>3
<1>3. Seq(A) \subseteq Typed
  <2> HIDE DEF Typed
  <2> QED
    BY <1>1, <1>2, ListInduction
<1> QED
  BY <1>3

\* A list with all its entries in the set stays what it is.
LEMMA AmongAll ==
    ASSUME NEW A, NEW set, A \subseteq set
    PROVE  \A list \in Seq(A) : Among(list, set) = list
<1> DEFINE Stays == {list \in Seq(A) : Among(list, set) = list}
<1>1. <<>> \in Stays
  BY AmongEmpty, EmptySeq
<1>2. ASSUME NEW list \in Seq(A), NEW e \in A, list \in Stays
      PROVE  Append(list, e) \in Stays
  <2>1. e \in set /\ Append(list, e) \in Seq(A)
    BY AppendProperties
  <2>2. Among(Append(list, e), set) = Append(Among(list, set), e)
    BY <2>1, AmongAppend
  <2> QED
    BY <1>2, <2>1, <2>2
<1>3. Seq(A) \subseteq Stays
  <2> HIDE DEF Stays
  <2> QED
    BY <1>1, <1>2, ListInduction
<1> QED
  BY <1>3

\* Nothing is left of a list with none of its entries in the set.
LEMMA AmongNone ==
    ASSUME NEW A, NEW set, A \cap set = {}
    PROVE  \A list \in Seq(A) : Among(list, set) = <<>>
<1> DEFINE Goes == {list \in Seq(A) : Among(list, set) = <<>>}
<1>1. <<>> \in Goes
  BY AmongEmpty, EmptySeq
<1>2. ASSUME NEW list \in Seq(A), NEW e \in A, list \in Goes
      PROVE  Append(list, e) \in Goes
  BY <1>2, AppendProperties, AmongAppend
<1>3. Seq(A) \subseteq Goes
  <2> HIDE DEF Goes
  <2> QED
    BY <1>1, <1>2, ListInduction
<1> QED
  BY <1>3

\* An element appended to the second of two lists is appended to both.
LEMMA AppendToConcat ==
    ASSUME NEW A, NEW s \in Seq(A), NEW t \in Seq(A), NEW e \in A
    PROVE  s \o Append(t, e) = Append(s \o t, e)
<1>1. <<e>> \in Seq(A) /\ s \o t \in Seq(A)
  BY ConcatProperties
<1>2. Append(t, e) = t \o <<e>> /\ Append(s \o t, e) = (s \o t) \o <<e>>
  BY <1>1, AppendIsConcat
<1> QED
  BY <1>1, <1>2, ConcatAssociative

\* Of two lists, what is in the set comes after each other.
LEMMA AmongConcat ==
    ASSUME NEW A, NEW set, NEW s \in Seq(A)
    PROVE  \A t \in Seq(A) :
              Among(s \o t, set) = Among(s, set) \o Among(t, set)
<1> DEFINE Both == {t \in Seq(A) :
                      Among(s \o t, set) = Among(s, set) \o Among(t, set)}
<1>1. <<>> \in Both
  <2>1. Among(s, set) \in Seq(A \cap set)
    BY AmongType
  <2> QED
    BY <2>1, AmongEmpty, EmptySeq, ConcatEmptySeq
<1>2. ASSUME NEW t \in Seq(A), NEW e \in A, t \in Both
      PROVE  Append(t, e) \in Both
  <2>1. Append(t, e) \in Seq(A) /\ s \o t \in Seq(A)
    BY AppendProperties, ConcatProperties
  <2>2. s \o Append(t, e) = Append(s \o t, e)
    BY AppendToConcat
  <2>3. /\ Among(s, set) \in Seq(A \cap set)
        /\ Among(t, set) \in Seq(A \cap set)
    BY AmongType
  <2>4. CASE e \in set
    <3>1. /\ Among(Append(s \o t, e), set) = Append(Among(s \o t, set), e)
          /\ Among(Append(t, e), set) = Append(Among(t, set), e)
      <4>1. \A list \in Seq(A) :
              Among(Append(list, e), set) = Append(Among(list, set), e)
        BY <2>4, AmongAppend
      <4> QED
        BY <2>1, <4>1
    <3>2. Among(s, set) \o Append(Among(t, set), e)
             = Append(Among(s, set) \o Among(t, set), e)
      <4>1. e \in A \cap set
        BY <2>4
      <4> QED
        BY <2>3, <4>1, AppendToConcat
    <3> QED
      BY <1>2, <2>1, <2>2, <3>1, <3>2
  <2>5. CASE e \notin set
    <3>1. /\ Among(Append(s \o t, e), set) = Among(s \o t, set)
          /\ Among(Append(t, e), set) = Among(t, set)
      <4>1. \A list \in Seq(A) :
              Among(Append(list, e), set) = Among(list, set)
        BY <2>5, AmongAppend
      <4> QED
        BY <2>1, <4>1
    <3> QED
      BY <1>2, <2>1, <2>2, <3>1
  <2> QED
    BY <2>4, <2>5
<1>3. Seq(A) \subseteq Both
  <2> HIDE DEF Both
  <2> QED
    BY <1>1, <1>2, ListInduction
<1> QED
  BY <1>3

\* What follows a list and is all in the set stays as it is.
LEMMA AmongThenInside ==
    ASSUME NEW A, NEW set, set \subseteq A, NEW s \in Seq(A), NEW t \in Seq(set)
    PROVE  Among(s \o t, set) = Among(s, set) \o t
<1>1. t \in Seq(A)
  OBVIOUS
<1>3. Among(s \o t, set) = Among(s, set) \o Among(t, set)
  BY <1>1, AmongConcat
<1>4. Among(t, set) = t
  BY AmongAll
<1> QED
  BY <1>3, <1>4

\* What follows a list and is not in the set at all goes.
LEMMA AmongThenOutside ==
    ASSUME NEW A, NEW set, NEW more, more \subseteq A, more \cap set = {},
           NEW s \in Seq(A), NEW t \in Seq(more)
    PROVE  Among(s \o t, set) = Among(s, set)
<1>1. t \in Seq(A)
  OBVIOUS
<1>2. Among(s \o t, set) = Among(s, set) \o Among(t, set)
  BY <1>1, AmongConcat
<1>3. Among(t, set) = <<>>
  BY AmongNone
<1>4. Among(s, set) \in Seq(A \cap set)
  BY AmongType
<1> QED
  BY <1>2, <1>3, <1>4, ConcatEmptySeq

\* The variables of the wanted names and the others, after a list.
LEMMA VariablesFollow ==
    ASSUME NEW names
    PROVE  /\ \A s \in Seq(EnvVar), t \in Seq(Configured(names)) :
                Among(s \o t, Configured(names))
                  = Among(s, Configured(names)) \o t
           /\ \A s \in Seq(EnvVar), t \in Seq(Configured(names)) :
                Among(s \o t, Foreign(names)) = Among(s, Foreign(names))
           /\ \A s \in Seq(EnvVar), t \in Seq(Foreign(names)) :
                Among(s \o t, Foreign(names)) = Among(s, Foreign(names)) \o t
           /\ \A s \in Seq(EnvVar), t \in Seq(Foreign(names)) :
                Among(s \o t, Configured(names)) = Among(s, Configured(names))
<1>1. /\ Configured(names) \subseteq EnvVar /\ Foreign(names) \subseteq EnvVar
      /\ Configured(names) \cap Foreign(names) = {}
      /\ Foreign(names) \cap Configured(names) = {}
  BY DEF Configured, Foreign
<1>2. \A s \in Seq(EnvVar), t \in Seq(Configured(names)) :
         Among(s \o t, Configured(names)) = Among(s, Configured(names)) \o t
  BY <1>1, AmongThenInside
<1>3. \A s \in Seq(EnvVar), t \in Seq(Configured(names)) :
         Among(s \o t, Foreign(names)) = Among(s, Foreign(names))
  BY <1>1, AmongThenOutside
<1>4. \A s \in Seq(EnvVar), t \in Seq(Foreign(names)) :
         Among(s \o t, Foreign(names)) = Among(s, Foreign(names)) \o t
  BY <1>1, AmongThenInside
<1>5. \A s \in Seq(EnvVar), t \in Seq(Foreign(names)) :
         Among(s \o t, Configured(names)) = Among(s, Configured(names))
  BY <1>1, AmongThenOutside
<1> QED
  BY <1>2, <1>3, <1>4, <1>5

-----------------------------------------------------------------------------
(* MergeMemberEnv *)

\* The place after the wanted entry of an item's name: beyond the first by at
\* least one if there is such an entry, by no more than one if the first is
\* it, and the first itself if there is none.
LEMMA PlaceAfterBounds ==
    ASSUME NEW wanted \in Seq(EnvVar), NEW first \in 1..Len(wanted)+1,
           NEW item
    PROVE  /\ PlaceAfter(wanted, first, item) \in first..Len(wanted)+1
           /\ first <= Len(wanted) /\ wanted[first].name = item.name
                => PlaceAfter(wanted, first, item) = first + 1
           /\ item.name \notin Names(wanted)
                => PlaceAfter(wanted, first, item) = first
<1> DEFINE hits == {i \in first..Len(wanted) : wanted[i].name = item.name}
<1>1. Len(wanted) \in Nat /\ hits \subseteq Nat
  BY LenProperties
<1>2. PlaceAfter(wanted, first, item)
        = IF hits = {} THEN first ELSE Min(hits) + 1
  BY DEF PlaceAfter
<1>3. CASE hits = {}
  BY <1>1, <1>2, <1>3
<1>5. item.name \notin Names(wanted) => hits = {}
  BY <1>1 DEF Names
<1>4. CASE hits # {}
  <2>1. Min(hits) \in hits /\ \A i \in hits : Min(hits) <= i
    <3> HIDE DEF hits
    <3> QED
      BY <1>1, <1>4, MinIsLeast
  <2>2. Min(hits) \in first..Len(wanted)
    BY <2>1
  <2>3. first <= Len(wanted) /\ wanted[first].name = item.name
          => first \in hits
    BY <1>1
  <2> HIDE DEF hits
  <2> QED
    BY <1>1, <1>2, <1>4, <1>5, <2>1, <2>2, <2>3
<1> QED
  BY <1>3, <1>4

\* What of the wanted entries is placed at the n-th current entry, given
\* how far they were placed before and are now.
Batch(current, wanted, next, n) ==
    IF current[n].name \in Names(wanted)
    THEN SubSeq(wanted, next[n-1], next[n] - 1)
    ELSE <<current[n]>>

\* What MergeMemberEnv unfolds to: how far the wanted entries are placed and
\* what has become of the list after n current entries.
LEMMA MergeUnfolds ==
    ASSUME NEW current \in Seq(EnvVar), NEW wanted \in Seq(EnvVar)
    PROVE  \E next, merged :
             /\ next \in [0..Len(current) -> 1..Len(wanted)+1]
             /\ next[0] = 1
             /\ \A n \in 1..Len(current) :
                   next[n] = PlaceAfter(wanted, next[n-1], current[n])
             /\ merged[0] = <<>>
             /\ \A n \in 1..Len(current) :
                   merged[n] = merged[n-1] \o Batch(current, wanted, next, n)
             /\ MergeMemberEnv(current, wanted)
                  = merged[Len(current)]
                    \o SubSeq(wanted, next[Len(current)], Len(wanted))
<1> DEFINE N == Len(current)
           Place == 1..Len(wanted)+1
           after == [n \in DOMAIN current |-> [first \in Place |->
                        PlaceAfter(wanted, first, current[n])]]
           NextStep(f, n) == IF n = 0 THEN 1 ELSE after[n][f[n-1]]
           next == CHOOSE f : f = [n \in 0..N |-> NextStep(f, n)]
<1>1. N \in Nat /\ Len(wanted) \in Nat /\ DOMAIN current = 1..N
  BY LenProperties
<1>2. \A n \in 1..N, first \in Place :
         /\ after[n][first] = PlaceAfter(wanted, first, current[n])
         /\ after[n][first] \in Place
  BY <1>1, PlaceAfterBounds
<1> HIDE DEF N, after
<1>3. next = [n \in 0..N |-> NextStep(next, n)]
  <2> DEFINE Defined == {m \in Nat : \E f : f = [n \in 0..m |-> NextStep(f, n)]}
  <2>1. 0 \in Defined
    <3>1. [n \in 0..0 |-> 1]
              = [n \in 0..0 |-> NextStep([k \in 0..0 |-> 1], n)]
      OBVIOUS
    <3> QED
      BY <3>1
  <2>2. ASSUME NEW m \in Nat, m \in Defined PROVE m + 1 \in Defined
    <3>1. PICK f : f = [n \in 0..m |-> NextStep(f, n)]
      BY <2>2
    <3> DEFINE g == [n \in 0..(m+1) |-> IF n = m + 1 THEN NextStep(f, n)
                                                     ELSE f[n]]
    <3>2. \A n \in 0..(m+1) : NextStep(g, n) = NextStep(f, n)
      OBVIOUS
    <3>3. \A n \in 0..m : f[n] = NextStep(f, n)
      BY <3>1
    <3>4. \A n \in 0..(m+1) : g[n] = NextStep(f, n)
      BY <3>3, 0..(m+1) = 0..m \cup {m+1}
    <3>5. g = [n \in 0..(m+1) |-> NextStep(g, n)]
      BY <3>4, <3>2
    <3> HIDE DEF g
    <3>6. m + 1 \in Nat
      OBVIOUS
    <3> QED
      BY <3>5, <3>6
  <2>3. N \in Defined
    <3> HIDE DEF Defined
    <3> QED
      BY <1>1, <2>1, <2>2, Induction
  <2> QED
    BY <2>3
<1> HIDE DEF next
<1>4. \A n \in 0..N : next[n] = NextStep(next, n)
  BY <1>3
<1>5. /\ next[0] = 1
      /\ \A n \in 1..N : next[n] = after[n][next[n-1]]
  BY <1>1, <1>4
<1>6. \A n \in 0..N : next[n] \in Place
  <2> DEFINE Inside == {n \in Nat : n <= N => next[n] \in Place}
  <2>1. 0 \in Inside
    BY <1>1, <1>5
  <2>2. ASSUME NEW n \in Nat, n \in Inside PROVE n + 1 \in Inside
    <3> SUFFICES ASSUME n + 1 <= N PROVE next[n+1] \in Place
      OBVIOUS
    <3>1. n + 1 \in 1..N /\ (n + 1) - 1 = n /\ n <= N
      BY <1>1
    <3>2. next[n] \in Place
      BY <2>2, <3>1
    <3>3. next[n+1] = after[n+1][next[n]]
      BY <1>5, <3>1
    <3> QED
      BY <1>2, <3>1, <3>2, <3>3
  <2>3. Nat \subseteq Inside
    <3> HIDE DEF Inside
    <3> QED
      BY <2>1, <2>2, Induction
  <2> QED
    BY <1>1, <2>3
<1>7. next \in [0..N -> Place]
  BY <1>3, <1>6
<1>8. \A n \in 1..N : next[n] = PlaceAfter(wanted, next[n-1], current[n])
  <2> SUFFICES ASSUME NEW n \in 1..N
               PROVE  next[n] = PlaceAfter(wanted, next[n-1], current[n])
    OBVIOUS
  <2>1. n - 1 \in 0..N
    BY <1>1
  <2> QED
    BY <1>2, <1>5, <1>6, <2>1
<1> DEFINE MergeStep(f, n) ==
             IF n = 0 THEN <<>>
             ELSE f[n-1] \o (IF current[n].name \in Names(wanted)
                             THEN SubSeq(wanted, next[n-1], next[n] - 1)
                             ELSE <<current[n]>>)
           merged == CHOOSE f : f = [n \in 0..N |-> MergeStep(f, n)]
<1>9. merged = [n \in 0..N |-> MergeStep(merged, n)]
  <2> DEFINE Defined == {m \in Nat : \E f : f = [n \in 0..m |-> MergeStep(f, n)]}
  <2>1. 0 \in Defined
    <3>1. [n \in 0..0 |-> <<>>]
              = [n \in 0..0 |-> MergeStep([k \in 0..0 |-> <<>>], n)]
      OBVIOUS
    <3> QED
      BY <3>1
  <2>2. ASSUME NEW m \in Nat, m \in Defined PROVE m + 1 \in Defined
    <3>1. PICK f : f = [n \in 0..m |-> MergeStep(f, n)]
      BY <2>2
    <3> DEFINE g == [n \in 0..(m+1) |-> IF n = m + 1 THEN MergeStep(f, n)
                                                     ELSE f[n]]
    <3>2. \A n \in 0..(m+1) : MergeStep(g, n) = MergeStep(f, n)
      OBVIOUS
    <3>3. \A n \in 0..m : f[n] = MergeStep(f, n)
      BY <3>1
    <3>4. \A n \in 0..(m+1) : g[n] = MergeStep(f, n)
      BY <3>3, 0..(m+1) = 0..m \cup {m+1}
    <3>5. g = [n \in 0..(m+1) |-> MergeStep(g, n)]
      BY <3>4, <3>2
    <3> HIDE DEF g
    <3>6. m + 1 \in Nat
      OBVIOUS
    <3> QED
      BY <3>5, <3>6
  <2>3. N \in Defined
    <3> HIDE DEF Defined
    <3> QED
      BY <1>1, <2>1, <2>2, Induction
  <2> QED
    BY <2>3
<1>10. MergeMemberEnv(current, wanted)
         = merged[N] \o SubSeq(wanted, next[N], Len(wanted))
  BY Zenon DEF MergeMemberEnv, next, N, after
<1> HIDE DEF merged
<1>11. /\ merged[0] = <<>>
       /\ \A n \in 1..N : merged[n]
                            = merged[n-1] \o Batch(current, wanted, next, n)
  <2>1. \A n \in 0..N : merged[n] = MergeStep(merged, n)
    BY <1>9
  <2>2. \A n \in 1..N : MergeStep(merged, n)
                          = merged[n-1] \o Batch(current, wanted, next, n)
    <3> SUFFICES ASSUME NEW n \in 1..N
                 PROVE  MergeStep(merged, n)
                          = merged[n-1] \o Batch(current, wanted, next, n)
      OBVIOUS
    <3>1. n # 0
      BY <1>1
    <3> QED
      BY <3>1, Zenon DEF Batch
  <2>3. MergeStep(merged, 0) = <<>>
    OBVIOUS
  <2>4. 0 \in 0..N /\ \A n \in 1..N : n \in 0..N
    BY <1>1
  <2> HIDE DEF MergeStep
  <2> QED
    BY <2>1, <2>2, <2>3, <2>4
<1> QED
  BY <1>5, <1>7, <1>8, <1>10, <1>11 DEF N

\* The variables of the wanted list have its names.
LEMMA WantedConfigured ==
    ASSUME NEW wanted \in Seq(EnvVar)
    PROVE  wanted \in Seq(Configured(Names(wanted)))
<1>1. \A i \in 1..Len(wanted) : wanted[i] \in Configured(Names(wanted))
  BY DEF Configured, Names
<1>2. SubSeq(wanted, 1, Len(wanted)) \in Seq(Configured(Names(wanted)))
  BY <1>1, LenProperties, SubSeqProperties
<1> QED
  BY <1>2, SubSeqFull

\* A part of a list, up to and from any place, is a list of its entries.
LEMMA PartOfList ==
    ASSUME NEW A, NEW list \in Seq(A),
           NEW first \in 1..Len(list)+1, NEW last \in 0..Len(list)
    PROVE  SubSeq(list, first, last) \in Seq(A)
<1>1. \A i \in first..last : list[i] \in A
  BY LenProperties
<1>2. first \in Int /\ last \in Int
  BY LenProperties
<1> QED
  BY <1>1, <1>2, SubSeqProperties, Zenon

\* One entry more of a list.
LEMMA PrefixGrows ==
    ASSUME NEW A, NEW list \in Seq(A), NEW n \in 1..Len(list)
    PROVE  /\ SubSeq(list, 1, n-1) \in Seq(A)
           /\ list[n] \in A
           /\ SubSeq(list, 1, n) = SubSeq(list, 1, n-1) \o <<list[n]>>
<1>1. n - 1 \in 0..Len(list) /\ 1 \in 1..Len(list)+1 /\ Len(list) \in Nat
      /\ 1 \in 1..Len(list) /\ n \in 1..Len(list) /\ n \in 1..n
  BY LenProperties
<1>2. SubSeq(list, 1, n-1) \in Seq(A)
  BY <1>1, PartOfList
<1>3. SubSeq(list, 1, n) = SubSeq(list, 1, n-1) \o <<list[n]>>
  BY <1>1, SubSeqRecursiveSecond
<1> QED
  BY <1>2, <1>3, ElementOfSeq

\* The part of a list from a place to that place is its entry.
LEMMA OneEntry ==
    ASSUME NEW A, NEW list \in Seq(A)
    PROVE  \A k \in 1..Len(list) : SubSeq(list, k, k) = <<list[k]>>
<1> SUFFICES ASSUME NEW k \in 1..Len(list)
             PROVE  SubSeq(list, k, k) = <<list[k]>>
  OBVIOUS
<1>1. k \in k..Len(list) /\ k \in Int /\ k + 1 \in Int /\ k < k + 1
  BY LenProperties
<1>2. SubSeq(list, k, k) = <<list[k]>> \o SubSeq(list, k+1, k)
  BY <1>1, SubSeqRecursiveFirst
<1>3. SubSeq(list, k+1, k) = <<>>
  BY <1>1, SubSeqEmpty
<1>4. <<list[k]>> \in Seq(A)
  BY ElementOfSeq
<1> QED
  BY <1>2, <1>3, <1>4, ConcatEmptySeq

\* After n current entries: the wanted entries that are placed are all of
\* their names in the merged list, in their order, and of the others it has
\* what the current list has up to there.
LEMMA MergedSoFar ==
    ASSUME NEW current \in Seq(EnvVar), NEW wanted \in Seq(EnvVar),
           NEW next \in [0..Len(current) -> 1..Len(wanted)+1], next[0] = 1,
           \A n \in 1..Len(current) :
              next[n] = PlaceAfter(wanted, next[n-1], current[n]),
           NEW merged, merged[0] = <<>>,
           \A n \in 1..Len(current) :
              merged[n] = merged[n-1] \o Batch(current, wanted, next, n)
    PROVE  \A n \in 0..Len(current) :
             /\ merged[n] \in Seq(EnvVar)
             /\ Among(merged[n], Configured(Names(wanted)))
                  = SubSeq(wanted, 1, next[n] - 1)
             /\ Among(merged[n], Foreign(Names(wanted)))
                  = Among(SubSeq(current, 1, n), Foreign(Names(wanted)))
<1> DEFINE ours == Configured(Names(wanted))
           theirs == Foreign(Names(wanted))
           Placed(n) == /\ merged[n] \in Seq(EnvVar)
                        /\ Among(merged[n], ours)
                             = SubSeq(wanted, 1, next[n] - 1)
                        /\ Among(merged[n], theirs)
                             = Among(SubSeq(current, 1, n), theirs)
           Good == {n \in Nat : n <= Len(current) => Placed(n)}
<1>1. Len(current) \in Nat /\ Len(wanted) \in Nat
  BY LenProperties
<1>2. /\ ours \cap theirs = {} /\ EnvVar = ours \cup theirs
      /\ wanted \in Seq(ours)
  BY WantedConfigured DEF Configured, Foreign
<1>3. Placed(0)
  <2>1. SubSeq(wanted, 1, 0) = <<>> /\ SubSeq(current, 1, 0) = <<>>
    BY SubSeqEmpty
  <2>2. next[0] - 1 = 0 /\ <<>> \in Seq(EnvVar)
    BY EmptySeq
  <2> QED
    BY <2>1, <2>2, AmongEmpty
<1>4. ASSUME NEW n \in 1..Len(current), Placed(n-1) PROVE Placed(n)
  <2> DEFINE batch == Batch(current, wanted, next, n)
             before == SubSeq(current, 1, n-1)
             item == <<current[n]>>
  <2>1. /\ before \in Seq(EnvVar) /\ current[n] \in EnvVar
        /\ SubSeq(current, 1, n) = before \o item
    BY PrefixGrows, Zenon
  <2>2. /\ n - 1 \in 0..Len(current) /\ n \in 0..Len(current)
        /\ next[n-1] \in 1..Len(wanted)+1
        /\ next[n] = PlaceAfter(wanted, next[n-1], current[n])
    <3>1. n - 1 \in 0..Len(current) /\ n \in 0..Len(current)
      BY <1>1
    <3> QED
      BY <3>1
  <2>3. /\ next[n] \in next[n-1]..Len(wanted)+1
        /\ current[n].name \notin Names(wanted) => next[n] = next[n-1]
    <3>1. \A it : \A first \in 1..Len(wanted)+1 :
            /\ PlaceAfter(wanted, first, it) \in first..Len(wanted)+1
            /\ it.name \notin Names(wanted)
                 => PlaceAfter(wanted, first, it) = first
      BY PlaceAfterBounds
    <3> QED
      BY <2>2, <3>1
  <2>4. merged[n] = merged[n-1] \o batch
    OBVIOUS
  <2>5. CASE current[n].name \in Names(wanted)
    <3>1. batch = SubSeq(wanted, next[n-1], next[n] - 1)
      BY <2>5 DEF Batch
    <3>2. next[n] - 1 \in 0..Len(wanted)
      BY <1>1, <2>2, <2>3
    <3>3. batch \in Seq(ours)
      <4> HIDE DEF batch, ours
      <4> QED
        BY <1>2, <2>2, <3>1, <3>2, PartOfList
    <3>4. item \in Seq(ours)
      <4>1. current[n] \in ours
        BY <2>1, <2>5 DEF Configured
      <4> QED
        BY <4>1
    <3>5. SubSeq(wanted, 1, next[n-1] - 1) \o batch
            = SubSeq(wanted, 1, next[n] - 1)
      <4>1. /\ next[n-1] - 1 \in (1-1)..Len(wanted)
            /\ next[n] - 1 \in (next[n-1] - 1)..Len(wanted)
            /\ 1 \in 1..Len(wanted)+1
            /\ (next[n-1] - 1) + 1 = next[n-1]
        BY <1>1, <2>2, <2>3
      <4> QED
        BY <3>1, <4>1, ConcatAdjacentSubSeq
    <3> HIDE DEF batch, before, item, ours, theirs
    <3>6. /\ merged[n-1] \o batch \in Seq(EnvVar)
          /\ Among(merged[n-1] \o batch, ours)
               = Among(merged[n-1], ours) \o batch
          /\ Among(merged[n-1] \o batch, theirs) = Among(merged[n-1], theirs)
          /\ Among(before \o item, theirs) = Among(before, theirs)
      <4>1. ours \subseteq EnvVar
        BY <1>2
      <4>2. \A s \in Seq(EnvVar), t \in Seq(ours) :
              /\ Among(s \o t, ours) = Among(s, ours) \o t
              /\ Among(s \o t, theirs) = Among(s, theirs)
        BY VariablesFollow DEF ours, theirs
      <4>3. batch \in Seq(EnvVar)
        BY <3>3, <4>1
      <4> QED
        BY <1>4, <2>1, <3>3, <3>4, <4>2, <4>3, ConcatProperties
    <3> QED
      BY <1>4, <2>1, <2>4, <3>5, <3>6 DEF before
  <2>6. CASE current[n].name \notin Names(wanted)
    <3>1. batch = item
      BY <2>6 DEF Batch
    <3>2. item \in Seq(theirs)
      <4>1. current[n] \in theirs
        BY <2>1, <2>6 DEF Foreign, Configured
      <4> QED
        BY <4>1
    <3> HIDE DEF batch, before, item, ours, theirs
    <3>3. /\ merged[n-1] \o item \in Seq(EnvVar)
          /\ Among(merged[n-1] \o item, ours) = Among(merged[n-1], ours)
          /\ Among(merged[n-1] \o item, theirs)
               = Among(merged[n-1], theirs) \o item
          /\ Among(before \o item, theirs) = Among(before, theirs) \o item
      <4>1. theirs \subseteq EnvVar
        BY <1>2
      <4>2. \A s \in Seq(EnvVar), t \in Seq(theirs) :
              /\ Among(s \o t, theirs) = Among(s, theirs) \o t
              /\ Among(s \o t, ours) = Among(s, ours)
        BY VariablesFollow DEF ours, theirs
      <4>3. item \in Seq(EnvVar)
        BY <3>2, <4>1
      <4> QED
        BY <1>4, <2>1, <3>2, <4>2, <4>3, ConcatProperties
    <3> QED
      BY <1>4, <2>1, <2>3, <2>4, <2>6, <3>1, <3>3 DEF before
  <2> QED
    BY <2>5, <2>6
<1>5. Nat \subseteq Good
  <2>1. 0 \in Good
    BY <1>3
  <2>2. ASSUME NEW n \in Nat, n \in Good PROVE n + 1 \in Good
    <3> HIDE DEF Placed
    <3> SUFFICES ASSUME n + 1 <= Len(current) PROVE Placed(n + 1)
      OBVIOUS
    <3>1. n + 1 \in 1..Len(current) /\ (n + 1) - 1 = n /\ n <= Len(current)
      BY <1>1
    <3>2. Placed((n + 1) - 1)
      BY <2>2, <3>1
    <3> QED
      BY <1>4, <3>1, <3>2
  <2> HIDE DEF Good
  <2> QED
    BY <2>1, <2>2, Induction
<1> QED
  BY <1>1, <1>5

\* The merged list has the wanted variables and no other of their names, and
\* the variables of other names that the current list has, all in their order.
THEOREM MergeKeepsAndPlaces ==
    ASSUME NEW current \in Seq(EnvVar), NEW wanted \in Seq(EnvVar)
    PROVE  /\ MergeMemberEnv(current, wanted) \in Seq(EnvVar)
           /\ Among(MergeMemberEnv(current, wanted),
                    Configured(Names(wanted))) = wanted
           /\ Among(MergeMemberEnv(current, wanted), Foreign(Names(wanted)))
                = Among(current, Foreign(Names(wanted)))
<1> DEFINE N == Len(current)
           ours == Configured(Names(wanted))
           theirs == Foreign(Names(wanted))
<1>1. PICK next, merged :
        /\ next \in [0..N -> 1..Len(wanted)+1]
        /\ next[0] = 1
        /\ \A n \in 1..N : next[n] = PlaceAfter(wanted, next[n-1], current[n])
        /\ merged[0] = <<>>
        /\ \A n \in 1..N :
              merged[n] = merged[n-1] \o Batch(current, wanted, next, n)
        /\ MergeMemberEnv(current, wanted)
             = merged[N] \o SubSeq(wanted, next[N], Len(wanted))
  BY MergeUnfolds
<1>2. N \in 0..N /\ N \in Nat /\ Len(wanted) \in Nat
  BY LenProperties
<1>3. next[N] \in 1..Len(wanted)+1
  BY <1>1, <1>2
<1>4. /\ merged[N] \in Seq(EnvVar)
      /\ Among(merged[N], ours) = SubSeq(wanted, 1, next[N] - 1)
      /\ Among(merged[N], theirs) = Among(SubSeq(current, 1, N), theirs)
  BY <1>1, <1>2, MergedSoFar, Zenon
<1> DEFINE rest == SubSeq(wanted, next[N], Len(wanted))
<1>5. rest \in Seq(ours)
  <2>1. wanted \in Seq(ours) /\ Len(wanted) \in 0..Len(wanted)
    BY <1>2, WantedConfigured
  <2> HIDE DEF ours
  <2> QED
    BY <1>3, <2>1, PartOfList
<1>6. SubSeq(wanted, 1, next[N] - 1) \o rest = wanted
  <2>1. /\ next[N] - 1 \in (1-1)..Len(wanted)
        /\ Len(wanted) \in (next[N] - 1)..Len(wanted)
        /\ 1 \in 1..Len(wanted)+1
        /\ (next[N] - 1) + 1 = next[N]
    BY <1>2, <1>3
  <2>2. SubSeq(wanted, 1, next[N] - 1) \o rest = SubSeq(wanted, 1, Len(wanted))
    BY <2>1, ConcatAdjacentSubSeq
  <2> QED
    BY <2>2, SubSeqFull
<1>7. SubSeq(current, 1, N) = current
  BY SubSeqFull
<1>8. rest \in Seq(EnvVar)
  BY <1>5 DEF Configured
<1>9. /\ Among(merged[N] \o rest, ours) = Among(merged[N], ours) \o rest
      /\ Among(merged[N] \o rest, theirs) = Among(merged[N], theirs)
  <2> HIDE DEF rest, N
  <2> QED
    BY <1>4, <1>5, VariablesFollow
<1>10. merged[N] \o rest \in Seq(EnvVar)
  <2> HIDE DEF rest, N
  <2> QED
    BY <1>4, <1>8, ConcatProperties
<1> QED
  BY <1>1, <1>4, <1>6, <1>7, <1>9, <1>10, Zenon

\* An entry that is in the set has its place in what is among the set: the
\* one after what is before it.
LEMMA NextAmong ==
    ASSUME NEW A, NEW list \in Seq(A), NEW set, NEW n \in 1..Len(list),
           list[n] \in set
    PROVE  LET k == Len(Among(SubSeq(list, 1, n-1), set)) + 1
           IN /\ k \in 1..Len(Among(list, set))
              /\ Among(list, set)[k] = list[n]
              /\ Among(SubSeq(list, 1, n), set)
                   = Append(Among(SubSeq(list, 1, n-1), set), list[n])
<1> DEFINE before == SubSeq(list, 1, n-1)
           upTo == SubSeq(list, 1, n)
           after == SubSeq(list, n+1, Len(list))
           k == Len(Among(before, set)) + 1
<1>1. /\ before \in Seq(A) /\ list[n] \in A
      /\ upTo = before \o <<list[n]>>
  BY PrefixGrows, Zenon
<1>2. Append(before, list[n]) = before \o <<list[n]>>
  <2> HIDE DEF before
  <2> QED
    BY <1>1, AppendIsConcat
<1>3. upTo \in Seq(A) /\ after \in Seq(A) /\ upTo \o after = list
  <2>1. /\ Len(list) \in Nat /\ 1 \in 1..Len(list)+1
        /\ n \in 0..Len(list) /\ n \in (1-1)..Len(list)
        /\ n + 1 \in 1..Len(list)+1 /\ Len(list) \in 0..Len(list)
        /\ Len(list) \in n..Len(list)
    BY LenProperties
  <2>2. upTo \in Seq(A)
    BY <2>1, PartOfList
  <2>3. after \in Seq(A)
    BY <2>1, PartOfList
  <2>4. upTo \o after = SubSeq(list, 1, Len(list))
    BY <2>1, ConcatAdjacentSubSeq
  <2> QED
    BY <2>2, <2>3, <2>4, SubSeqFull
<1> HIDE DEF before, upTo, after
<1>4. Among(upTo, set) = Append(Among(before, set), list[n])
  <2>1. \A s \in Seq(A), e \in A :
           e \in set => Among(Append(s, e), set) = Append(Among(s, set), e)
    BY AmongAppend
  <2>2. upTo = Append(before, list[n])
    BY <1>1, <1>2
  <2> QED
    BY <1>1, <2>1, <2>2
<1>5. Among(list, set) = Among(upTo, set) \o Among(after, set)
  BY <1>3, AmongConcat
<1>6. /\ Among(before, set) \in Seq(A)
      /\ Among(upTo, set) \in Seq(A)
      /\ Among(after, set) \in Seq(A)
  <2>1. \A s \in Seq(A) : Among(s, set) \in Seq(A)
    <3>1. \A s \in Seq(A) : Among(s, set) \in Seq(A \cap set)
      BY AmongType
    <3>2. \A s \in Seq(A \cap set) : s \in Seq(A)
      OBVIOUS
    <3> QED
      BY <3>1, <3>2
  <2> QED
    BY <1>1, <1>3, <2>1
<1>7. Len(Among(upTo, set)) = k /\ Among(upTo, set)[k] = list[n]
  BY <1>1, <1>4, <1>6, AppendProperties
<1>8. /\ Len(Among(before, set)) \in Nat /\ Len(Among(after, set)) \in Nat
  BY <1>6, LenProperties
<1>9. k \in 1..Len(Among(list, set)) /\ Among(list, set)[k] = list[n]
  BY <1>5, <1>6, <1>7, <1>8, ConcatProperties
<1> QED
  BY <1>4, <1>9 DEF before, upTo

\* A list that has the wanted variables, in their order and no other of their
\* names, is merged into itself.
THEOREM MergeIsFinal ==
    ASSUME NEW env \in Seq(EnvVar), NEW wanted \in Seq(EnvVar),
           Among(env, Configured(Names(wanted))) = wanted
    PROVE  MergeMemberEnv(env, wanted) = env
<1> DEFINE N == Len(env)
           ours == Configured(Names(wanted))
           before(n) == SubSeq(env, 1, n)
<1>1. PICK next, merged :
        /\ next \in [0..N -> 1..Len(wanted)+1]
        /\ next[0] = 1
        /\ \A n \in 1..N : next[n] = PlaceAfter(wanted, next[n-1], env[n])
        /\ merged[0] = <<>>
        /\ \A n \in 1..N :
              merged[n] = merged[n-1] \o Batch(env, wanted, next, n)
        /\ MergeMemberEnv(env, wanted)
             = merged[N] \o SubSeq(wanted, next[N], Len(wanted))
  BY MergeUnfolds
<1>2. N \in Nat /\ Len(wanted) \in Nat
  BY LenProperties
<1> DEFINE Same(n) == /\ merged[n] = before(n)
                      /\ next[n] = Len(Among(before(n), ours)) + 1
           Good == {n \in Nat : n <= N => Same(n)}
<1>3. Same(0)
  <2>1. before(0) = <<>>
    BY SubSeqEmpty
  <2>2. Len(<<>>) = 0
    BY EmptySeq
  <2>3. Among(before(0), ours) = <<>>
    BY <2>1, AmongEmpty
  <2> HIDE DEF before, ours
  <2> QED
    BY <1>1, <2>1, <2>2, <2>3
<1>4. ASSUME NEW n \in 1..N, Same(n-1) PROVE Same(n)
  <2>1. /\ n - 1 \in 0..N /\ n \in 0..N
    BY <1>2
  <2>2. /\ before(n-1) \in Seq(EnvVar) /\ env[n] \in EnvVar
        /\ before(n) = before(n-1) \o <<env[n]>>
    BY PrefixGrows, Zenon
  <2>3. /\ next[n-1] \in 1..Len(wanted)+1
        /\ next[n] = PlaceAfter(wanted, next[n-1], env[n])
        /\ merged[n] = before(n-1) \o Batch(env, wanted, next, n)
    BY <1>1, <1>4, <2>1
  <2>4. /\ next[n-1] <= Len(wanted)
             /\ wanted[next[n-1]].name = env[n].name
             => next[n] = next[n-1] + 1
        /\ env[n].name \notin Names(wanted) => next[n] = next[n-1]
    <3>1. \A it : \A first \in 1..Len(wanted)+1 :
            /\ first <= Len(wanted) /\ wanted[first].name = it.name
                 => PlaceAfter(wanted, first, it) = first + 1
            /\ it.name \notin Names(wanted)
                 => PlaceAfter(wanted, first, it) = first
      BY PlaceAfterBounds
    <3> QED
      BY <2>3, <3>1
  <2>5. CASE env[n].name \in Names(wanted)
    <3>1. env[n] \in ours
      BY <2>2, <2>5 DEF Configured
    <3>2. /\ next[n-1] \in 1..Len(wanted)
          /\ wanted[next[n-1]] = env[n]
          /\ Among(before(n), ours) = Append(Among(before(n-1), ours), env[n])
      <4>1. Among(env, ours) = wanted
        OBVIOUS
      <4>2. next[n-1] = Len(Among(before(n-1), ours)) + 1
        BY <1>4
      <4> HIDE DEF ours
      <4>3. /\ Len(Among(before(n-1), ours)) + 1 \in 1..Len(Among(env, ours))
            /\ Among(env, ours)[Len(Among(before(n-1), ours)) + 1] = env[n]
            /\ Among(before(n), ours)
                 = Append(Among(before(n-1), ours), env[n])
        BY <3>1, NextAmong, Zenon
      <4> HIDE DEF before
      <4> QED
        BY <4>1, <4>2, <4>3
    <3>3. next[n] = next[n-1] + 1
      BY <1>2, <2>4, <3>2
    <3>4. Batch(env, wanted, next, n) = SubSeq(wanted, next[n-1], next[n] - 1)
      BY <2>5 DEF Batch
    <3>5. SubSeq(wanted, next[n-1], next[n] - 1) = <<env[n]>>
      <4>1. next[n] - 1 = next[n-1]
        BY <1>2, <3>2, <3>3
      <4>2. SubSeq(wanted, next[n-1], next[n-1]) = <<wanted[next[n-1]]>>
        <5>1. \A k \in 1..Len(wanted) : SubSeq(wanted, k, k) = <<wanted[k]>>
          BY OneEntry
        <5> QED
          BY <3>2, <5>1
      <4> QED
        BY <3>2, <4>1, <4>2
    <3>6. Len(Append(Among(before(n-1), ours), env[n]))
            = Len(Among(before(n-1), ours)) + 1
      <4>1. Among(before(n-1), ours) \in Seq(EnvVar \cap ours)
        BY <2>2, AmongType
      <4>2. env[n] \in EnvVar \cap ours
        BY <2>2, <3>1
      <4>3. \A s \in Seq(EnvVar \cap ours), e \in EnvVar \cap ours :
               Len(Append(s, e)) = Len(s) + 1
        BY AppendProperties
      <4> HIDE DEF before, ours
      <4> QED
        BY <4>1, <4>2, <4>3
    <3> HIDE DEF before, ours
    <3> QED
      BY <1>4, <2>2, <2>3, <3>2, <3>3, <3>4, <3>5, <3>6
  <2>6. CASE env[n].name \notin Names(wanted)
    <3>1. Batch(env, wanted, next, n) = <<env[n]>>
      BY <2>6 DEF Batch
    <3>2. <<env[n]>> \in Seq(Foreign(Names(wanted)))
      <4>1. env[n] \in Foreign(Names(wanted))
        BY <2>2, <2>6 DEF Foreign, Configured
      <4> QED
        BY <4>1
    <3>3. Among(before(n), ours) = Among(before(n-1), ours)
      <4>1. \A s \in Seq(EnvVar), t \in Seq(Foreign(Names(wanted))) :
               Among(s \o t, ours) = Among(s, ours)
        BY VariablesFollow
      <4> HIDE DEF before, ours
      <4> QED
        BY <2>2, <3>2, <4>1
    <3> HIDE DEF before, ours
    <3> QED
      BY <1>4, <2>2, <2>3, <2>4, <2>6, <3>1, <3>3
  <2> QED
    BY <2>5, <2>6
<1>5. Nat \subseteq Good
  <2>1. 0 \in Good
    BY <1>3
  <2>2. ASSUME NEW n \in Nat, n \in Good PROVE n + 1 \in Good
    <3> HIDE DEF Same
    <3> SUFFICES ASSUME n + 1 <= N PROVE Same(n + 1)
      OBVIOUS
    <3>1. n + 1 \in 1..N /\ (n + 1) - 1 = n /\ n <= N
      BY <1>2
    <3>2. Same((n + 1) - 1)
      BY <2>2, <3>1
    <3> QED
      BY <1>4, <3>1, <3>2
  <2> HIDE DEF Good
  <2> QED
    BY <2>1, <2>2, Induction
<1>6. merged[N] = before(N) /\ next[N] = Len(Among(before(N), ours)) + 1
  BY <1>2, <1>5
<1>7. before(N) = env
  BY SubSeqFull
<1>8. next[N] = Len(wanted) + 1
  BY <1>6, <1>7
<1>9. SubSeq(wanted, next[N], Len(wanted)) = <<>>
  <2>1. \A m \in Nat : SubSeq(wanted, m + 1, m) = <<>>
    BY SubSeqEmpty
  <2> QED
    BY <1>2, <1>8, <2>1
<1>10. MergeMemberEnv(env, wanted) = env \o <<>>
  BY <1>1, <1>6, <1>7, <1>9
<1> QED
  BY <1>10, ConcatEmptySeq

-----------------------------------------------------------------------------
(* OtherArgs and SetMigrationCheck *)

\* The other arguments are a list of arguments that are not the flag.
LEMMA OtherArgsType ==
    ASSUME NEW args \in Seq(Arg)
    PROVE  OtherArgs(args) \in Seq(Arg \ Flags)
<1> DEFINE IsValue(i) == /\ i > 1 /\ args[i-1] = "--migrate-check"
                         /\ args[i] \in {"true", "false"}
           others == {i \in DOMAIN args : args[i] \notin Flags /\ ~IsValue(i)}
           indices == [i \in DOMAIN args |-> i]
           places == Among(indices, others)
<1>1. /\ DOMAIN args = 1..Len(args) /\ Len(args) \in Nat
      /\ \A i \in DOMAIN args : args[i] \in Arg
  BY LenProperties, ElementOfSeq
<1>2. indices \in Seq(DOMAIN args)
  BY <1>1
<1>3. places \in Seq((DOMAIN args) \cap others)
  <2> HIDE DEF others, indices
  <2> QED
    BY <1>2, AmongType
<1>4. OtherArgs(args) = [k \in DOMAIN places |-> args[places[k]]]
  BY Zenon DEF OtherArgs
<1>5. \A i \in (DOMAIN args) \cap others : args[i] \in Arg \ Flags
  BY <1>1
<1> HIDE DEF places, others
<1>6. /\ DOMAIN places = 1..Len(places) /\ Len(places) \in Nat
      /\ \A k \in 1..Len(places) : places[k] \in (DOMAIN args) \cap others
  BY <1>3, LenProperties, ElementOfSeq
<1>7. \A k \in 1..Len(places) : args[places[k]] \in Arg \ Flags
  BY <1>5, <1>6
<1> QED
  BY <1>4, <1>6, <1>7

\* What is not the flag is all there is beside a flag at the end.
LEMMA OtherArgsBeforeFlag ==
    ASSUME NEW args \in Seq(Arg \ Flags), NEW flag \in Flags
    PROVE  OtherArgs(Append(args, flag)) = args
<1> DEFINE longer == Append(args, flag)
           L == Len(args)
           IsValue(i) == /\ i > 1 /\ longer[i-1] = "--migrate-check"
                         /\ longer[i] \in {"true", "false"}
           others == {i \in DOMAIN longer : longer[i] \notin Flags /\ ~IsValue(i)}
           indices == [i \in DOMAIN longer |-> i]
           first == [i \in 1..L |-> i]
           places == Among(indices, others)
<1>1. /\ L \in Nat /\ DOMAIN args = 1..L
      /\ \A i \in 1..L : args[i] \in Arg \ Flags
      /\ DOMAIN longer = 1..(L+1)
      /\ \A i \in 1..L : longer[i] = args[i]
      /\ longer[L+1] = flag
  <2>1. args \in Seq(Arg \cup Flags) /\ flag \in Arg \cup Flags
    OBVIOUS
  <2>2. /\ longer \in Seq(Arg \cup Flags)
        /\ Len(longer) = L + 1
        /\ \A i \in 1..L : longer[i] = args[i]
        /\ longer[L+1] = flag
    BY <2>1, AppendProperties
  <2> QED
    BY <2>2, LenProperties, ElementOfSeq
<1>2. others = 1..L
  <2>1. "--migrate-check" \in Flags
    BY DEF Flags
  <2>2. \A i \in 1..L : longer[i] \notin Flags /\ (i > 1 => i - 1 \in 1..L)
    BY <1>1
  <2>3. 1..L \subseteq others
    <3> SUFFICES ASSUME NEW i \in 1..L PROVE i \in others
      OBVIOUS
    <3>1. i \in DOMAIN longer
      BY <1>1
    <3>2. ~IsValue(i)
      <4> HIDE DEF longer
      <4> QED
        BY <2>1, <2>2
    <3> QED
      BY <2>2, <3>1, <3>2
  <2>4. others \subseteq 1..L
    <3> HIDE DEF longer
    <3> QED
      BY <1>1
  <2> QED
    BY <2>3, <2>4
<1>3. OtherArgs(longer) = [k \in DOMAIN places |-> longer[places[k]]]
  BY Zenon DEF OtherArgs
<1> HIDE DEF others, longer, L
<1>4. /\ first \in Seq(1..L) /\ first \in Seq(Nat) /\ Len(first) = L
      /\ L + 1 \in Nat
      /\ \A i \in 1..L : first[i] = i
  BY <1>1
<1>5. indices = Append(first, L+1)
  <2>1. \A s \in Seq(Nat), e \in Nat :
           /\ Append(s, e) \in Seq(Nat)
           /\ Len(Append(s, e)) = Len(s) + 1
           /\ \A i \in 1..Len(s) : Append(s, e)[i] = s[i]
           /\ Append(s, e)[Len(s) + 1] = e
    BY AppendProperties
  <2>2. /\ Append(first, L+1) \in Seq(Nat)
        /\ Len(Append(first, L+1)) = L + 1
        /\ \A i \in 1..L : Append(first, L+1)[i] = i
        /\ Append(first, L+1)[L+1] = L + 1
    <3> HIDE DEF first
    <3> QED
      BY <1>4, <2>1
  <2>3. /\ indices \in Seq(Nat) /\ Len(indices) = L + 1
        /\ \A i \in 1..(L+1) : indices[i] = i
    BY <1>1
  <2>4. \A i \in 1..(L+1) : indices[i] = Append(first, L+1)[i]
    <3> HIDE DEF indices, first
    <3> QED
      BY <1>1, <2>2, <2>3
  <2> HIDE DEF indices, first
  <2> QED
    BY <2>2, <2>3, <2>4, SeqEqual
<1>6. places = first
  <2>1. \A s \in Seq(Nat) : Among(Append(s, L+1), others) = Among(s, others)
    <3>1. L + 1 \notin others
      BY <1>1, <1>2
    <3>2. \A s \in Seq(Nat), e \in Nat :
             e \notin others => Among(Append(s, e), others) = Among(s, others)
      BY AmongAppend
    <3> QED
      BY <1>4, <3>1, <3>2
  <2>2. Among(first, others) = first
    <3> HIDE DEF first
    <3> QED
      BY <1>2, <1>4, AmongAll
  <2> HIDE DEF first, indices
  <2> QED
    BY <1>4, <1>5, <2>1, <2>2 DEF places
<1> HIDE DEF places
<1>7. OtherArgs(longer) = [k \in 1..L |-> args[k]]
  BY <1>1, <1>3, <1>6
<1> QED
  BY <1>1, <1>7 DEF longer, L

\* After its flag is set, a list of arguments has the other arguments it had,
\* the flag once, and to set it again changes nothing.
THEOREM FlagIsSet ==
    ASSUME NEW args \in Seq(Arg), NEW s
    PROVE  /\ SetMigrationCheck(args, s) \in Seq(Arg)
           /\ OtherArgs(SetMigrationCheck(args, s)) = OtherArgs(args)
           /\ Among(SetMigrationCheck(args, s), Flags) = <<Flag(s.check)>>
           /\ SetMigrationCheck(SetMigrationCheck(args, s), s)
                = SetMigrationCheck(args, s)
<1> DEFINE flag == Flag(s.check)
           others == OtherArgs(args)
<1>1. /\ flag \in Flags /\ flag \in Arg
      /\ others \in Seq(Arg \ Flags)
  BY OtherArgsType DEF Flag, Flags, Arg
<1>2. SetMigrationCheck(args, s) = Append(others, flag)
  BY DEF SetMigrationCheck
<1> HIDE DEF flag, others
<1>3. others \in Seq(Arg) /\ Append(others, flag) \in Seq(Arg)
  BY <1>1, AppendProperties
<1>4. OtherArgs(Append(others, flag)) = others
  BY <1>1, OtherArgsBeforeFlag
<1>5. Among(Append(others, flag), Flags) = <<flag>>
  <2>1. Among(others, Flags) = <<>>
    <3>1. (Arg \ Flags) \cap Flags = {}
      OBVIOUS
    <3> QED
      BY <1>1, <3>1, AmongNone
  <2>2. Among(Append(others, flag), Flags) = Append(Among(others, Flags), flag)
    BY <1>1, <1>3, AmongAppend
  <2> QED
    BY <2>1, <2>2
<1>6. SetMigrationCheck(Append(others, flag), s)
        = Append(OtherArgs(Append(others, flag)), flag)
  BY DEF SetMigrationCheck, flag
<1> QED
  BY <1>2, <1>3, <1>4, <1>5, <1>6 DEF flag, others
=============================================================================
