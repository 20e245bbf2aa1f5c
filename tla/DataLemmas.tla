----------------------------- MODULE DataLemmas -----------------------------
(***************************************************************************)
(* Facts about numbers, finite sets and sequences that the proofs of the   *)
(* components share: least and greatest elements, sequences that grow and  *)
(* change, folds, sums, places in an order.  The induction they need is    *)
(* over the natural numbers, as the existence of a least counterexample.   *)
(***************************************************************************)
EXTENDS Integers, FiniteSetsExt, Functions, TLAPS, WellFoundedInduction, SequenceTheorems, FiniteSetTheorems

\* A set of natural numbers that is not empty has a least element.
LEMMA LeastNumber ==
  ASSUME NEW T, T \subseteq Nat, T # {}
  PROVE  \E n \in T : \A m \in T : n <= m
<1> DEFINE less == OpToRel(<, Nat)
<1>1. \A m, n \in Nat : m < n => <<m, n>> \in less BY DEF OpToRel
<1>2. IsWellFoundedOn(less, Nat) BY NatLessThanWellFounded
<1> HIDE DEF less
<1>3. PICK n \in T : \A m \in T : <<m, n>> \notin less BY <1>2, WFMin
<1>4. ASSUME NEW m \in T PROVE n <= m
  <2>1. m \in Nat /\ n \in Nat BY <1>4
  <2>2. ~(m < n) BY <1>1, <1>3, <2>1, Zenon
  <2>3. QED BY <2>1, <2>2
<1>5. QED BY <1>4

\* And a greatest one when it is bounded.
LEMMA GreatestNumber ==
  ASSUME NEW T, T \subseteq Nat, T # {}, NEW b \in Nat, \A m \in T : m <= b
  PROVE  \E n \in T : \A m \in T : m <= n
<1> DEFINE D == {b - m : m \in T}
<1>1. D \subseteq Nat /\ D # {}
  <2>1. \A m \in T : m \in Nat /\ m <= b OBVIOUS
  <2>2. \A m \in Nat : m <= b => b - m \in Nat OBVIOUS
  <2>3. QED BY <2>1, <2>2
<1>2. PICK d \in D : \A c \in D : d <= c BY <1>1, LeastNumber
<1>3. PICK n \in T : d = b - n OBVIOUS
<1>4. ASSUME NEW m \in T PROVE m <= n
  <2>1. b - n <= b - m BY <1>2, <1>3
  <2>2. m \in Nat /\ n \in Nat OBVIOUS
  <2>3. QED BY <2>1, <2>2
<1>5. QED BY <1>4

\* Max picks that one.
LEMMA MaxIsGreatest ==
  ASSUME NEW T, T \subseteq Nat, T # {}, NEW b \in Nat, \A m \in T : m <= b
  PROVE  Max(T) \in T /\ \A m \in T : m <= Max(T)
<1>1. PICK n \in T : \A m \in T : m <= n BY GreatestNumber
<1>2. \A m \in T : n >= m
  <2>1. \A m \in T : m \in Nat OBVIOUS
  <2>2. QED BY <1>1, <2>1
<1>3. Max(T) \in T /\ \A m \in T : Max(T) >= m BY <1>2 DEF Max
<1>4. QED
  <2>1. \A m \in T : m \in Nat OBVIOUS
  <2>2. QED BY <1>3, <2>1

\* The community operator Min finds the least.
LEMMA MinIsLeast ==
  ASSUME NEW T, T \subseteq Nat, T # {}
  PROVE  Min(T) \in T /\ \A m \in T : Min(T) <= m
<1>1. PICK n \in T : \A m \in T : n <= m BY LeastNumber
<1>2. QED BY <1>1 DEF Min

\* What is least is found by Min.
LEMMA LeastIsMin ==
  ASSUME NEW T, T \subseteq Nat, NEW x \in T, \A m \in T : x <= m
  PROVE  Min(T) = x
<1>1. Min(T) \in T /\ Min(T) <= x BY MinIsLeast
<1>2. x <= Min(T) /\ x \in Nat /\ Min(T) \in Nat BY <1>1
<1>3. QED BY <1>1, <1>2

\* The least of a set and one more.
LEMMA LeastWithOneMore ==
  ASSUME NEW T, T \subseteq Nat, T # {}, NEW x \in Nat
  PROVE  Min(T \cup {x}) = Min({Min(T), x})
<1> PICK m : m = Min(T) OBVIOUS
<1>1. m \in T /\ \A n \in T : m <= n BY MinIsLeast
<1> PICK k : k = Min({m, x}) OBVIOUS
<1>2. k \in {m, x} /\ k <= m /\ k <= x BY <1>1, MinIsLeast
<1>3. \A n \in T \cup {x} : k <= n BY <1>1, <1>2
<1>4. T \cup {x} \subseteq Nat /\ k \in T \cup {x} BY <1>1, <1>2
<1>5. Min(T \cup {x}) = k BY <1>3, <1>4, LeastIsMin
<1>6. QED BY <1>5

-----------------------------------------------------------------------------
\* A sequence of whatever it holds.
IsASequence(s) == s \in Seq({s[i] : i \in DOMAIN s})

\* It is a function on 1..n that has length n.
LEMMA SequenceIsFunction ==
  ASSUME NEW s, NEW n \in Nat, DOMAIN s = 1..n, s = [i \in 1..n |-> s[i]]
  PROVE  IsASequence(s)
<1>1. s \in [1..n -> {s[i] : i \in DOMAIN s}] OBVIOUS
<1>2. QED BY <1>1, SeqDef DEF IsASequence

\* What Append does to one.
LEMMA AppendSequence ==
  ASSUME NEW s, IsASequence(s), NEW x
  PROVE  /\ IsASequence(Append(s, x))
         /\ Len(s) \in Nat /\ DOMAIN s = 1..Len(s) /\ Len(Append(s, x)) = Len(s) + 1
         /\ DOMAIN Append(s, x) = DOMAIN s \cup {Len(s) + 1} /\ Len(s) + 1 \notin DOMAIN s
         /\ Append(s, x)[Len(s) + 1] = x /\ \A i \in DOMAIN s : Append(s, x)[i] = s[i]
<1> DEFINE R == {s[i] : i \in DOMAIN s}
           t == Append(s, x)
<1>1. s \in Seq(R \cup {x})
  <2>1. s \in Seq(R) BY DEF IsASequence
  <2>2. QED BY <2>1, SeqMonotonic
<1>2. /\ Len(s) \in Nat /\ DOMAIN s = 1..Len(s) /\ Len(t) = Len(s) + 1
      /\ t \in Seq(R \cup {x}) /\ DOMAIN t = 1..Len(s) + 1
      /\ t[Len(s) + 1] = x /\ \A i \in 1..Len(s) : t[i] = s[i]
  BY <1>1
<1> HIDE DEF t
<1>3. IsASequence(t)
  <2>1. t \in [1..Len(s) + 1 -> R \cup {x}] BY <1>2, LenProperties
  <2>2. t = [i \in 1..Len(s) + 1 |-> t[i]] BY <2>1
  <2>3. QED BY <1>2, <2>2, SequenceIsFunction
<1>4. QED BY <1>2, <1>3 DEF t

\* And what replacing an element does.
LEMMA ExceptSequence ==
  ASSUME NEW s, IsASequence(s), NEW i \in DOMAIN s, NEW x
  PROVE  /\ IsASequence([s EXCEPT ![i] = x]) /\ DOMAIN [s EXCEPT ![i] = x] = DOMAIN s
         /\ Len([s EXCEPT ![i] = x]) = Len(s)
         /\ [s EXCEPT ![i] = x][i] = x
         /\ \A j \in DOMAIN s : j # i => [s EXCEPT ![i] = x][j] = s[j]
<1> DEFINE t == [s EXCEPT ![i] = x]
<1>1. Len(s) \in Nat /\ DOMAIN s = 1..Len(s) BY DEF IsASequence
<1>2. /\ DOMAIN t = 1..Len(s) /\ t[i] = x /\ \A j \in DOMAIN s : j # i => t[j] = s[j]
      /\ t = [j \in 1..Len(s) |-> t[j]]
  BY <1>1
<1> HIDE DEF t
<1>3. IsASequence(t) BY <1>1, <1>2, SequenceIsFunction
<1>4. Len(t) = Len(s)
  <2>1. Len(t) \in Nat /\ DOMAIN t = 1..Len(t) BY <1>3 DEF IsASequence
  <2>2. QED BY <1>1, <1>2, <2>1
<1>5. QED BY <1>1, <1>2, <1>3, <1>4 DEF t

-----------------------------------------------------------------------------
(* Folds over finite sets.                                                  *)

\* Of some subsets of a finite set, one has no other below it.
LEMMA SmallestSet ==
  ASSUME NEW S, IsFiniteSet(S), NEW bad, bad \subseteq SUBSET S, bad # {}
  PROVE  \E t \in bad : \A u \in SUBSET t : u # t => u \notin bad
<1> DEFINE sizes == {Cardinality(t) : t \in bad}
<1>1. \A t \in SUBSET S : IsFiniteSet(t) /\ Cardinality(t) \in Nat
  BY FS_Subset, FS_CardinalityType
<1>2. PICK n \in sizes : \A m \in sizes : n <= m
  <2>1. sizes \subseteq Nat /\ sizes # {} BY <1>1
  <2>2. QED BY <2>1, LeastNumber
<1>3. PICK t \in bad : n = Cardinality(t) OBVIOUS
<1>4. ASSUME NEW u \in SUBSET t, u # t, u \in bad PROVE FALSE
  <2>1. Cardinality(t) <= Cardinality(u) BY <1>2, <1>3, <1>4
  <2>2. Cardinality(u) <= Cardinality(t) /\ Cardinality(u) # Cardinality(t)
    BY <1>1, <1>4, FS_Subset
  <2>3. Cardinality(u) \in Nat /\ Cardinality(t) \in Nat BY <1>1
  <2>4. QED BY <2>1, <2>2, <2>3
<1>5. QED BY <1>4

\* The results of a fold over every subset of S, c naming the next element.
FoldsTo(S, V, base, c, step, g) ==
  /\ g \in [SUBSET S -> V]
  /\ \A t \in SUBSET S : g[t] = IF t = {} THEN base ELSE step[<<c[t], g[t \ {c[t]}]>>]

\* A fold over the subsets of a finite set exists.
LEMMA FoldExists ==
  ASSUME NEW S, IsFiniteSet(S), NEW c, \A t \in SUBSET S : t # {} => c[t] \in t,
         NEW V, NEW base \in V, NEW step \in [S \X V -> V]
  PROVE  \E g : FoldsTo(S, V, base, c, step, g)
<1> DEFINE After(g, t) == IF t = {} THEN base ELSE step[<<c[t], g[t \ {c[t]}]>>]
           Good(n) == \E g \in [SUBSET S -> V] :
                        \A t \in SUBSET S : Cardinality(t) <= n => g[t] = After(g, t)
           bad == {n \in Nat : ~Good(n)}
<1>1. \A t \in SUBSET S : /\ IsFiniteSet(t) /\ Cardinality(t) \in Nat
                          /\ Cardinality(t) <= Cardinality(S)
                          /\ Cardinality(t) = 0 <=> t = {}
  BY FS_Subset, FS_CardinalityType, FS_EmptySet
<1>2. ASSUME NEW g \in [SUBSET S -> V]
      PROVE  [t \in SUBSET S |-> After(g, t)] \in [SUBSET S -> V]
  <2>1. ASSUME NEW t \in SUBSET S, t # {} PROVE step[<<c[t], g[t \ {c[t]}]>>] \in V
    <3>1. c[t] \in S /\ g[t \ {c[t]}] \in V BY <2>1
    <3>2. QED BY <3>1
  <2>2. QED BY <2>1
<1>3. Good(0)
  <2> DEFINE h == [t \in SUBSET S |-> base]
  <2>1. h \in [SUBSET S -> V] OBVIOUS
  <2>2. \A t \in SUBSET S : Cardinality(t) <= 0 => t = {} BY <1>1
  <2>3. QED BY <2>1, <2>2
<1>4. ASSUME NEW n \in Nat, Good(n) PROVE Good(n + 1)
  <2>1. PICK g \in [SUBSET S -> V] :
          \A t \in SUBSET S : Cardinality(t) <= n => g[t] = After(g, t)
    BY <1>4
  <2> DEFINE h == [t \in SUBSET S |-> After(g, t)]
  <2>2. h \in [SUBSET S -> V] BY <1>2
  <2>3. ASSUME NEW t \in SUBSET S, Cardinality(t) <= n + 1 PROVE h[t] = After(h, t)
    <3>1. CASE t = {} BY <3>1
    <3>2. CASE t # {}
      <4>1. c[t] \in t /\ t \ {c[t]} \in SUBSET S BY <3>2
      <4>2. Cardinality(t \ {c[t]}) = Cardinality(t) - 1 BY <1>1, <4>1, FS_RemoveElement
      <4>3. Cardinality(t \ {c[t]}) <= n BY <1>1, <2>3, <4>2
      <4>4. h[t \ {c[t]}] = g[t \ {c[t]}] BY <2>1, <4>1, <4>3
      <4>5. QED BY <3>2, <4>4
    <3>3. QED BY <3>1, <3>2
  <2> HIDE DEF h, After
  <2>4. QED BY <2>2, <2>3
<1> HIDE DEF After, Good
<1>5. bad = {}
  <2> SUFFICES ASSUME bad # {} PROVE FALSE OBVIOUS
  <2>1. PICK m \in bad : \A k \in bad : m <= k BY LeastNumber
  <2>2. m \in Nat /\ m # 0 /\ ~Good(m) BY <1>3
  <2>3. m - 1 \in Nat /\ m - 1 \notin bad BY <2>1, <2>2
  <2>4. Good(m - 1) BY <2>3
  <2>5. Good((m - 1) + 1) BY <1>4, <2>3, <2>4
  <2>6. (m - 1) + 1 = m BY <2>2
  <2>7. QED BY <2>2, <2>5, <2>6
<1>6. Good(Cardinality(S))
  <2>1. Cardinality(S) \in Nat BY FS_CardinalityType
  <2>2. QED BY <1>5, <2>1
<1>7. QED BY <1>1, <1>6 DEF After, Good, FoldsTo

-----------------------------------------------------------------------------
(* Sums.                                                                    *)

\* The sums of f over every subset of S.
SumsTo(f, S, g) ==
  /\ g \in [SUBSET S -> Int]
  /\ \A t \in SUBSET S : g[t] = IF t = {} THEN 0
       ELSE f[CHOOSE x \in t : TRUE] + g[t \ {CHOOSE x \in t : TRUE}]

\* What the community operator SumFunctionOnSet means.
LEMMA SumIsFold ==
  ASSUME NEW S, IsFiniteSet(S), NEW f, \A x \in S : f[x] \in Int
  PROVE  \E g : SumsTo(f, S, g) /\ SumFunctionOnSet(f, S) = g[S]
<1> DEFINE c == [t \in SUBSET S |-> CHOOSE x \in t : TRUE]
           step == [p \in S \X Int |-> f[p[1]] + p[2]]
           Iter(g) == [t \in SUBSET S |-> IF t = {} THEN 0
                         ELSE f[CHOOSE x \in t : TRUE] + g[t \ {CHOOSE x \in t : TRUE}]]
<1>1. \A t \in SUBSET S : t # {} => (CHOOSE x \in t : TRUE) \in t OBVIOUS
<1>2. step \in [S \X Int -> Int] OBVIOUS
<1>3. \A x \in S, v \in Int : step[<<x, v>>] = f[x] + v OBVIOUS
<1>4. \A t \in SUBSET S : c[t] = CHOOSE x \in t : TRUE OBVIOUS
<1>5. \A t \in SUBSET S : t # {} => c[t] \in t BY <1>1, <1>4
<1> HIDE DEF c, step
<1>6. PICK g : FoldsTo(S, Int, 0, c, step, g)
  <2>1. 0 \in Int OBVIOUS
  <2>2. QED BY <1>5, <1>2, <2>1, FoldExists
<1>7. /\ g \in [SUBSET S -> Int]
      /\ \A t \in SUBSET S : g[t] = IF t = {} THEN 0 ELSE step[<<c[t], g[t \ {c[t]}]>>]
  BY <1>6 DEF FoldsTo
<1>8. ASSUME NEW t \in SUBSET S
      PROVE  g[t] = IF t = {} THEN 0
               ELSE f[CHOOSE x \in t : TRUE] + g[t \ {CHOOSE x \in t : TRUE}]
  <2>1. PICK x : x = CHOOSE y \in t : TRUE OBVIOUS
  <2>2. c[t] = x BY <1>4, <2>1
  <2>3. t # {} => x \in S /\ g[t \ {x}] \in Int BY <1>5, <1>7, <2>2
  <2>4. g[t] = IF t = {} THEN 0 ELSE f[x] + g[t \ {x}] BY <1>3, <1>7, <2>2, <2>3
  <2>5. QED BY <2>1, <2>4
<1>9. g = Iter(g) BY <1>7, <1>8
<1> DEFINE h == CHOOSE h : h = Iter(h)
<1>10. h = Iter(h) BY <1>9
<1>11. SumFunctionOnSet(f, S) = h[S] BY DEF SumFunctionOnSet, FoldFunctionOnSet, MapThenFoldSet
<1> HIDE DEF h
<1>12. \A t \in SUBSET S : h[t] = IF t = {} THEN 0
         ELSE f[CHOOSE x \in t : TRUE] + h[t \ {CHOOSE x \in t : TRUE}]
  BY <1>10
<1>13. \A t \in SUBSET S : h[t] = g[t]
  <2> DEFINE bad == {t \in SUBSET S : h[t] # g[t]}
  <2> SUFFICES ASSUME bad # {} PROVE FALSE OBVIOUS
  <2>1. bad \subseteq SUBSET S OBVIOUS
  <2>2. PICK t \in bad : \A u \in SUBSET t : u # t => u \notin bad
    <3> HIDE DEF bad
    <3>1. QED BY <2>1, SmallestSet
  <2>3. t # {} BY <1>8, <1>12, <2>2
  <2>4. PICK x \in t : x = CHOOSE y \in t : TRUE BY <2>3
  <2>5. t \ {x} \in SUBSET S /\ t \ {x} # t OBVIOUS
  <2>6. h[t \ {x}] = g[t \ {x}] BY <2>2, <2>5
  <2>7. h[t] = f[x] + h[t \ {x}] /\ g[t] = f[x] + g[t \ {x}]
    BY <1>8, <1>12, <2>2, <2>3, <2>4
  <2>8. QED BY <2>2, <2>6, <2>7
<1>14. SumsTo(f, S, g) BY <1>7, <1>8 DEF SumsTo
<1>15. SumFunctionOnSet(f, S) = g[S] BY <1>11, <1>13
<1>16. QED BY <1>14, <1>15

\* The sum does not depend on the order in which the set is gone through.
LEMMA SumStep ==
  ASSUME NEW S, IsFiniteSet(S), NEW f, \A x \in S : f[x] \in Int
  PROVE  /\ SumFunctionOnSet(f, S) \in Int
         /\ S = {} => SumFunctionOnSet(f, S) = 0
         /\ \A x \in S : SumFunctionOnSet(f, S) = f[x] + SumFunctionOnSet(f, S \ {x})
<1>1. PICK g : SumsTo(f, S, g) /\ SumFunctionOnSet(f, S) = g[S] BY SumIsFold
<1>2. /\ g \in [SUBSET S -> Int] /\ SumFunctionOnSet(f, S) = g[S]
      /\ \A t \in SUBSET S : g[t] = IF t = {} THEN 0
           ELSE f[CHOOSE x \in t : TRUE] + g[t \ {CHOOSE x \in t : TRUE}]
  BY <1>1 DEF SumsTo
<1> DEFINE bad == {t \in SUBSET S : \E x \in t : g[t] # f[x] + g[t \ {x}]}
<1>3. bad = {}
  <2> SUFFICES ASSUME bad # {} PROVE FALSE OBVIOUS
  <2>1. bad \subseteq SUBSET S OBVIOUS
  <2>2. PICK t \in bad : \A u \in SUBSET t : u # t => u \notin bad
    <3> HIDE DEF bad
    <3>1. QED BY <2>1, SmallestSet
  <2>3. PICK x \in t : g[t] # f[x] + g[t \ {x}] BY <2>2
  <2>4. PICK y \in t : y = CHOOSE z \in t : TRUE BY <2>3
  <2>5. t \in SUBSET S /\ g[t] = f[y] + g[t \ {y}] BY <1>2, <2>3, <2>4
  <2>6. x # y BY <2>3, <2>5
  <2>7. g[t \ {y}] = f[x] + g[(t \ {y}) \ {x}]
    <3>1. t \ {y} \in SUBSET t /\ t \ {y} # t /\ t \ {y} \in SUBSET S BY <2>5
    <3>2. x \in t \ {y} BY <2>6
    <3>3. t \ {y} \notin bad BY <2>2, <3>1
    <3>4. QED BY <3>1, <3>2, <3>3
  <2>8. g[t \ {x}] = f[y] + g[(t \ {x}) \ {y}]
    <3>1. t \ {x} \in SUBSET t /\ t \ {x} # t /\ t \ {x} \in SUBSET S BY <2>5
    <3>2. y \in t \ {x} BY <2>6
    <3>3. t \ {x} \notin bad BY <2>2, <3>1
    <3>4. QED BY <3>1, <3>2, <3>3
  <2>9. (t \ {x}) \ {y} = (t \ {y}) \ {x} OBVIOUS
  <2>10. f[x] \in Int /\ f[y] \in Int /\ g[(t \ {x}) \ {y}] \in Int BY <1>2, <2>5
  <2>11. g[t] = f[y] + (f[x] + g[(t \ {x}) \ {y}]) BY <2>5, <2>7, <2>9
  <2>12. f[x] + g[t \ {x}] = f[x] + (f[y] + g[(t \ {x}) \ {y}]) BY <2>8
  <2>13. PICK a, b, v : a = f[x] /\ b = f[y] /\ v = g[(t \ {x}) \ {y}] OBVIOUS
  <2>14. b + (a + v) = a + (b + v) BY <2>10, <2>13
  <2>15. QED BY <2>3, <2>11, <2>12, <2>13, <2>14
<1>4. ASSUME NEW x \in S PROVE SumFunctionOnSet(f, S \ {x}) = g[S \ {x}]
  <2> DEFINE T == S \ {x}
  <2>1. IsFiniteSet(T) BY FS_Subset
  <2>2. \A y \in T : f[y] \in Int OBVIOUS
  <2>3. PICK h : SumsTo(f, T, h) /\ SumFunctionOnSet(f, T) = h[T]
    <3> HIDE DEF T
    <3>1. QED BY <2>1, <2>2, SumIsFold
  <2>4. /\ h \in [SUBSET T -> Int] /\ SumFunctionOnSet(f, T) = h[T]
        /\ \A t \in SUBSET T : h[t] = IF t = {} THEN 0
             ELSE f[CHOOSE z \in t : TRUE] + h[t \ {CHOOSE z \in t : TRUE}]
    BY <2>3 DEF SumsTo
  <2> DEFINE differ == {t \in SUBSET T : h[t] # g[t]}
  <2>5. differ = {}
    <3> SUFFICES ASSUME differ # {} PROVE FALSE OBVIOUS
    <3>1. differ \subseteq SUBSET T OBVIOUS
    <3>2. PICK t \in differ : \A u \in SUBSET t : u # t => u \notin differ
      <4> HIDE DEF differ, T
      <4>1. QED BY <2>1, <3>1, SmallestSet
    <3>3. t \in SUBSET T /\ t \in SUBSET S /\ h[t] # g[t] BY <3>2
    <3>4. t # {} BY <1>2, <2>4, <3>3
    <3>5. PICK y \in t : y = CHOOSE z \in t : TRUE BY <3>4
    <3>6. h[t \ {y}] = g[t \ {y}]
      <4>1. t \ {y} \in SUBSET t /\ t \ {y} # t BY <3>5
      <4>2. t \ {y} \notin differ BY <3>2, <4>1
      <4>3. QED BY <3>3, <4>2
    <3>7. h[t] = f[y] + h[t \ {y}] BY <2>4, <3>3, <3>4, <3>5
    <3>8. g[t] = f[y] + g[t \ {y}] BY <1>2, <3>3, <3>4, <3>5
    <3>9. QED BY <3>3, <3>6, <3>7, <3>8
  <2>6. h[T] = g[T] BY <2>5
  <2>7. QED BY <2>4, <2>6
<1>5. S = {} => SumFunctionOnSet(f, S) = 0 BY <1>2
<1>6. ASSUME NEW x \in S PROVE SumFunctionOnSet(f, S) = f[x] + SumFunctionOnSet(f, S \ {x})
  <2>1. g[S] = f[x] + g[S \ {x}] BY <1>3
  <2>2. QED BY <1>2, <1>4, <2>1
<1>7. SumFunctionOnSet(f, S) \in Int BY <1>2
<1>8. QED BY <1>5, <1>6, <1>7

\* Sums of what is the same are the same.
LEMMA SumSame ==
  ASSUME NEW S, IsFiniteSet(S), NEW f, NEW h, \A x \in S : f[x] \in Int /\ h[x] = f[x]
  PROVE  SumFunctionOnSet(h, S) = SumFunctionOnSet(f, S)
<1> DEFINE differ == {t \in SUBSET S : SumFunctionOnSet(h, t) # SumFunctionOnSet(f, t)}
<1>1. differ = {}
  <2> SUFFICES ASSUME differ # {} PROVE FALSE OBVIOUS
  <2>1. differ \subseteq SUBSET S OBVIOUS
  <2>2. PICK t \in differ : \A u \in SUBSET t : u # t => u \notin differ
    <3> HIDE DEF differ
    <3>1. QED BY <2>1, SmallestSet
  <2>3. t \in SUBSET S /\ SumFunctionOnSet(h, t) # SumFunctionOnSet(f, t) BY <2>2
  <2>4. IsFiniteSet(t) BY <2>3, FS_Subset
  <2>5. \A x \in t : f[x] \in Int /\ h[x] \in Int /\ h[x] = f[x] BY <2>3
  <2>6. /\ t = {} => SumFunctionOnSet(f, t) = 0
        /\ \A x \in t : SumFunctionOnSet(f, t) = f[x] + SumFunctionOnSet(f, t \ {x})
    BY <2>4, <2>5, SumStep
  <2>7. /\ t = {} => SumFunctionOnSet(h, t) = 0
        /\ \A x \in t : SumFunctionOnSet(h, t) = h[x] + SumFunctionOnSet(h, t \ {x})
    BY <2>4, <2>5, SumStep
  <2>8. PICK x \in t : TRUE BY <2>3, <2>6, <2>7
  <2>9. t \ {x} \notin differ /\ t \ {x} \in SUBSET S
    <3>1. t \ {x} \in SUBSET t /\ t \ {x} # t BY <2>8
    <3>2. QED BY <2>2, <2>3, <3>1
  <2>10. SumFunctionOnSet(h, t \ {x}) = SumFunctionOnSet(f, t \ {x}) BY <2>9
  <2>11. QED BY <2>3, <2>5, <2>6, <2>7, <2>8, <2>10
<1>2. QED BY <1>1

-----------------------------------------------------------------------------
(* Functions that are computed number by number.                            *)

\* A function that is computed number by number exists.
LEMMA StepsExist ==
  ASSUME NEW N \in Nat, NEW V, NEW base \in V, NEW step \in [V -> V]
  PROVE  \E g \in [1..N -> V] : \A n \in 1..N : g[n] = IF n = 1 THEN base ELSE step[g[n - 1]]
<1> DEFINE After(g, n) == IF n = 1 THEN base ELSE step[g[n - 1]]
           Good(m) == \E g \in [1..m -> V] : \A n \in 1..m : g[n] = After(g, n)
           bad == {m \in Nat : ~Good(m)}
<1>1. Good(0)
  <2> DEFINE h == [n \in 1..0 |-> base]
  <2>1. h \in [1..0 -> V] /\ \A n \in 1..0 : h[n] = After(h, n) OBVIOUS
  <2>2. QED BY <2>1
<1>2. ASSUME NEW m \in Nat, Good(m) PROVE Good(m + 1)
  <2>1. PICK g \in [1..m -> V] : \A n \in 1..m : g[n] = After(g, n) BY <1>2
  <2> DEFINE h == [n \in 1..(m + 1) |-> After(g, n)]
  <2>2. \A n \in 1..(m + 1) : n # 1 => n - 1 \in 1..m OBVIOUS
  <2>3. h \in [1..(m + 1) -> V] BY <2>2
  <2>4. ASSUME NEW n \in 1..(m + 1) PROVE h[n] = After(h, n)
    <3>1. CASE n = 1 BY <3>1
    <3>2. CASE n # 1
      <4>1. n - 1 \in 1..m /\ n - 1 \in 1..(m + 1) BY <2>2, <3>2
      <4>2. h[n - 1] = g[n - 1] BY <2>1, <4>1
      <4>3. QED BY <3>2, <4>2
    <3>3. QED BY <3>1, <3>2
  <2> HIDE DEF h, After
  <2>5. QED BY <2>3, <2>4
<1> HIDE DEF Good
<1>3. bad = {}
  <2> SUFFICES ASSUME bad # {} PROVE FALSE OBVIOUS
  <2>1. PICK m \in bad : \A k \in bad : m <= k BY LeastNumber
  <2>2. m \in Nat /\ m # 0 /\ ~Good(m) BY <1>1
  <2>3. m - 1 \in Nat /\ m - 1 \notin bad BY <2>1, <2>2
  <2>4. Good((m - 1) + 1) BY <1>2, <2>3
  <2>5. (m - 1) + 1 = m BY <2>2
  <2>6. QED BY <2>2, <2>4, <2>5
<1>4. Good(N) BY <1>3
<1>5. QED BY <1>4 DEF Good, After

\* What holds at 0 and goes on to hold, holds as far as n.
LEMMA UpTo ==
  ASSUME NEW n \in Nat, NEW good, 0 \in good, \A k \in 0..(n - 1) : k \in good => k + 1 \in good
  PROVE  n \in good
<1> DEFINE bad == {k \in 0..n : k \notin good}
<1> SUFFICES ASSUME n \notin good PROVE FALSE OBVIOUS
<1>1. bad \subseteq Nat /\ bad # {} OBVIOUS
<1>2. PICK m \in bad : \A k \in bad : m <= k
  <2> HIDE DEF bad
  <2>1. QED BY <1>1, LeastNumber
<1>3. m \in 1..n OBVIOUS
<1>4. m - 1 \in 0..(n - 1) /\ m - 1 \notin bad BY <1>2, <1>3
<1>5. m - 1 \in good BY <1>4
<1>6. (m - 1) + 1 \in good BY <1>4, <1>5
<1>7. QED BY <1>3, <1>6

-----------------------------------------------------------------------------
(* Folds over sequences, as folds over the sets of their indices.           *)

\* A step of a fold over a sequence of length n takes an index and a value to a value.
Folding(n, V, base, step) == base \in V /\ step \in [(1..n) \X V -> V]

\* Its results for all sets of indices, the greatest of which comes last.
Folded(n, V, base, step, g) ==
  /\ g \in [SUBSET (1..n) -> V]
  /\ \A t \in SUBSET (1..n) :
       g[t] = IF t = {} THEN base ELSE step[<<Max(t), g[t \ {Max(t)}]>>]

\* The prefixes of a sequence one after the other, as a fold that takes the
\* greatest index last goes through them.
LEMMA PrefixFold ==
  ASSUME NEW n \in Nat, NEW V, NEW base, NEW step, Folding(n, V, base, step)
  PROVE  \E g : Folded(n, V, base, step, g)
<1> DEFINE S == 1..n
           c == [t \in SUBSET S |-> Max(t)]
<1>1. IsFiniteSet(S) BY FS_Interval
<1>2. \A t \in SUBSET S : t # {} => Max(t) \in t
  <2>1. ASSUME NEW t \in SUBSET S, t # {} PROVE Max(t) \in t
    <3>1. t \subseteq Nat /\ \A m \in t : m <= n OBVIOUS
    <3>2. QED BY <2>1, <3>1, MaxIsGreatest
  <2>2. QED BY <2>1
<1>3. \A t \in SUBSET S : c[t] = Max(t) OBVIOUS
<1>4. \A t \in SUBSET S : t # {} => c[t] \in t BY <1>2, <1>3
<1> HIDE DEF c, S
<1>5. base \in V /\ step \in [S \X V -> V] BY DEF S, Folding
<1>6. PICK g : FoldsTo(S, V, base, c, step, g)
  BY <1>1, <1>4, <1>5, FoldExists
<1>7. /\ g \in [SUBSET S -> V]
      /\ \A t \in SUBSET S : g[t] = IF t = {} THEN base ELSE step[<<c[t], g[t \ {c[t]}]>>]
  BY <1>6 DEF FoldsTo
<1>8. \A t \in SUBSET S : g[t] = IF t = {} THEN base ELSE step[<<Max(t), g[t \ {Max(t)}]>>]
  BY <1>3, <1>7
<1>9. Folded(n, V, base, step, g) BY <1>7, <1>8 DEF S, Folded
<1>10. QED BY <1>9

\* The greatest number of a prefix.
LEMMA MaxOfPrefix ==
  ASSUME NEW k \in Nat
  PROVE  Max(1..(k + 1)) = k + 1 /\ (1..(k + 1)) \ {k + 1} = 1..k
<1> PICK t : t = 1..(k + 1) OBVIOUS
<1>1. t \subseteq Nat /\ t # {} /\ k + 1 \in t /\ \A m \in t : m <= k + 1
  <2>1. k + 1 \in 1..(k + 1) OBVIOUS
  <2>2. \A m \in 1..(k + 1) : m \in Nat /\ m <= k + 1 OBVIOUS
  <2>3. QED BY <2>1, <2>2
<1>2. Max(t) \in t /\ \A m \in t : m <= Max(t)
  <2>1. k + 1 \in Nat OBVIOUS
  <2>2. QED BY <1>1, <2>1, MaxIsGreatest
<1> PICK m : m = Max(t) OBVIOUS
<1>3. m \in 1..(k + 1) /\ k + 1 <= m BY <1>1, <1>2
<1>4. m = k + 1 BY <1>3
<1>5. QED BY <1>4

-----------------------------------------------------------------------------
(* Places in an order.                                                      *)

\* Finitely many things in a line: each place is that of one of them.
LEMMA EachPlaceTaken ==
  ASSUME NEW D, IsFiniteSet(D), NEW before,
         \A d \in D : <<d, d>> \notin before,
         \A d, e \in D : d # e => <<d, e>> \in before \/ <<e, d>> \in before,
         \A d, e, f \in D : <<d, e>> \in before /\ <<e, f>> \in before => <<d, f>> \in before
  PROVE  \A i \in 1..Cardinality(D) :
           \E d \in D : Cardinality({x \in D : <<x, d>> \in before}) = i - 1
<1> PICK n \in Nat : n = Cardinality(D) BY FS_CardinalityType
<1> DEFINE ahead(d) == {x \in D : <<x, d>> \in before}
           rank == [d \in D |-> Cardinality(ahead(d)) + 1]
<1>1. \A d \in D : IsFiniteSet(ahead(d)) /\ Cardinality(ahead(d)) \in Nat
  <2>1. \A d \in D : ahead(d) \in SUBSET D OBVIOUS
  <2> HIDE DEF ahead
  <2>2. QED BY <2>1, FS_Subset, FS_CardinalityType
<1>2. ASSUME NEW d \in D, NEW e \in D, <<d, e>> \in before PROVE rank[d] # rank[e]
  <2>1. ahead(d) \in SUBSET ahead(e) BY <1>2
  <2>2. d \in ahead(e) /\ d \notin ahead(d) BY <1>2
  <2>3. ahead(d) # ahead(e) BY <2>2
  <2>4. PICK a, b : a = ahead(d) /\ b = ahead(e) OBVIOUS
  <2>5. Cardinality(a) # Cardinality(b)
    <3>1. IsFiniteSet(b) /\ a \in SUBSET b /\ a # b BY <1>1, <2>1, <2>3, <2>4
    <3> HIDE DEF ahead
    <3>2. QED BY <3>1, FS_Subset
  <2>6. Cardinality(a) \in Nat /\ Cardinality(b) \in Nat BY <1>1, <2>4
  <2>7. rank[d] = Cardinality(a) + 1 /\ rank[e] = Cardinality(b) + 1 BY <2>4
  <2> HIDE DEF rank
  <2>8. QED BY <2>5, <2>6, <2>7
<1>3. \A d, e \in D : rank[d] = rank[e] => d = e BY <1>2
<1>4. ASSUME NEW d \in D PROVE rank[d] \in 1..n
  <2>1. PICK a : a = ahead(d) OBVIOUS
  <2>2. a \in SUBSET D /\ a # D /\ rank[d] = Cardinality(a) + 1 BY <2>1
  <2>3. Cardinality(a) <= n /\ Cardinality(a) # n
    <3> HIDE DEF ahead, rank
    <3>1. QED BY <2>2, FS_Subset
  <2>4. Cardinality(a) \in Nat BY <1>1, <2>1
  <2>5. QED BY <2>2, <2>3, <2>4
<1> HIDE DEF rank
<1>5. ASSUME NEW i \in 1..n PROVE \E d \in D : rank[d] = i
  <2> SUFFICES ASSUME \A d \in D : rank[d] # i PROVE FALSE OBVIOUS
  <2> DEFINE R == (1..n) \ {i}
  <2>1. IsFiniteSet(R) /\ Cardinality(R) = n - 1
    <3>1. IsFiniteSet(1..n) /\ Cardinality(1..n) = n BY FS_Interval
    <3>2. QED BY <3>1, FS_RemoveElement
  <2>2. rank \in [D -> R]
    <3>1. rank = [d \in D |-> rank[d]] BY DEF rank
    <3>2. QED BY <1>4, <3>1
  <2>3. Cardinality(R) < Cardinality(D) BY <2>1
  <2> HIDE DEF R
  <2>4. \E d, e \in D : d # e /\ rank[d] = rank[e] BY <2>1, <2>2, <2>3, FS_PigeonHole
  <2>5. QED BY <1>3, <2>4
<1>6. ASSUME NEW i \in 1..n PROVE \E d \in D : Cardinality(ahead(d)) = i - 1
  <2>1. PICK d \in D : rank[d] = i BY <1>5
  <2>2. rank[d] = Cardinality(ahead(d)) + 1 BY DEF rank
  <2>3. Cardinality(ahead(d)) \in Nat BY <1>1
  <2> HIDE DEF ahead
  <2>4. QED BY <2>1, <2>2, <2>3
<1>7. QED BY <1>6

\* As many things as places, no two in one place: no place is left.
LEMMA OntoIfApart ==
  ASSUME NEW S, IsFiniteSet(S), NEW T, IsFiniteSet(T), Cardinality(S) = Cardinality(T),
         NEW f \in [S -> T], \A x, y \in S : f[x] = f[y] => x = y
  PROVE  \A t \in T : \E x \in S : f[x] = t
<1> SUFFICES ASSUME NEW t \in T, \A x \in S : f[x] # t PROVE FALSE OBVIOUS
<1> DEFINE R == T \ {t}
<1>1. IsFiniteSet(R) /\ Cardinality(R) = Cardinality(T) - 1 BY FS_RemoveElement
<1>2. Cardinality(T) \in Nat BY FS_CardinalityType
<1>3. Cardinality(R) < Cardinality(S) BY <1>1, <1>2
<1>4. f \in [S -> R] OBVIOUS
<1> HIDE DEF R
<1>5. \E x, y \in S : x # y /\ f[x] = f[y] BY <1>1, <1>3, <1>4, FS_PigeonHole
<1>6. QED BY <1>5

=============================================================================
