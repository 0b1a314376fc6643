-------------------------- MODULE AccountingProofs --------------------------
(***************************************************************************)
(* Theorems of StatementImport, Purchasing, Ledger, OwnerCosts, CashFlow   *)
(* and ReorderEngine: what accounting books, orders, posts, costs, plans   *)
(* and recommends, for any people, papers, lines, deliveries, invoices,    *)
(* journals, periods, products, forecasts and requests.                    *)
(***************************************************************************)
EXTENDS StatementImport, Purchasing, Ledger, OwnerCosts, CashFlow, ReorderEngine,
        FiniteSetTheorems, WellFoundedInduction, TLAPS

-----------------------------------------------------------------------------
(* Sums.  The sum over a set is a fold, defined by recursion over the set; *)
(* the induction is by smallest exception.                                 *)

SumOf(v, S) == MapThenSumSet(LAMBDA x : v[x], S)

\* One element of a set, and the table of the sums of all its subsets.
One(S) == CHOOSE x \in S : TRUE
Table(g, v, S) ==
    g = [s \in SUBSET S |-> IF s = {} THEN 0 ELSE v[One(s)] + g[s \ {One(s)}]]

LEMMA SumIsTable ==
  ASSUME NEW v, NEW S
  PROVE  SumOf(v, S) = (CHOOSE g : Table(g, v, S))[S]
BY DEF SumOf, MapThenSumSet, MapThenFoldSet, Table, One

\* Of some subsets of a finite set, one has no other of them inside: the induction
\* below argues by what such a smallest exception would be.
LEMMA SmallestOf ==
  ASSUME NEW T, IsFiniteSet(T), NEW C, C \subseteq SUBSET T, C # {}
  PROVE  \E S \in C : \A R \in SUBSET S : R # S => R \notin C
<1>1. C \subseteq FiniteSubsetsOf(T)
  BY FS_FiniteSubsetsOfFinite
<1>2. PICK S \in C : \A R \in C : ~(<< R, S >> \in StrictSubsetOrdering(T))
  BY <1>1, WFMin, FS_StrictSubsetOrderingWellFounded
<1>3. ASSUME NEW R \in SUBSET S, R # S, R \in C PROVE FALSE
  <2>1. << R, S >> \in StrictSubsetOrdering(T) BY <1>2, <1>3 DEF StrictSubsetOrdering
  <2> QED BY <1>2, <1>3, <2>1
<1> QED BY <1>2, <1>3

LEMMA OneIsIn == ASSUME NEW S, S # {} PROVE One(S) \in S
BY DEF One

\* Two tables agree wherever both are defined.
LEMMA TablesAgree ==
  ASSUME NEW v, NEW S, IsFiniteSet(S), NEW R, NEW g, NEW h, Table(g, v, S), Table(h, v, R)
  PROVE  \A s \in SUBSET S : s \subseteq R => g[s] = h[s]
<1> DEFINE C == {s \in SUBSET S : s \subseteq R /\ g[s] # h[s]}
<1> SUFFICES ASSUME C # {} PROVE FALSE OBVIOUS
<1>1. C \subseteq SUBSET S OBVIOUS
<1>2. PICK s \in C : \A r \in SUBSET s : r # s => r \notin C
  <2> HIDE DEF C
  <2> QED BY <1>1, SmallestOf
<1>3. s \in SUBSET S /\ s \in SUBSET R /\ g[s] # h[s] OBVIOUS
<1>4. /\ g[s] = IF s = {} THEN 0 ELSE v[One(s)] + g[s \ {One(s)}]
      /\ h[s] = IF s = {} THEN 0 ELSE v[One(s)] + h[s \ {One(s)}]
  BY <1>3 DEF Table
<1>5. s # {} BY <1>3, <1>4
<1>6. One(s) \in s BY <1>5, OneIsIn
<1> DEFINE r == s \ {One(s)}
<1>7. r \in SUBSET s /\ r # s /\ r \in SUBSET S /\ r \in SUBSET R BY <1>3, <1>6
<1>8. g[r] = h[r] BY <1>2, <1>7
<1> QED BY <1>3, <1>4, <1>5, <1>8

LEMMA TableExists ==
  ASSUME NEW v, NEW T, IsFiniteSet(T)
  PROVE  \E g : Table(g, v, T)
<1> DEFINE C == {S \in SUBSET T : ~\E g : Table(g, v, S)}
<1> SUFFICES ASSUME C # {} PROVE FALSE
  <2>1. T \in SUBSET T OBVIOUS
  <2> QED BY <2>1
<1>1. C \subseteq SUBSET T OBVIOUS
<1>2. PICK S \in C : \A R \in SUBSET S : R # S => R \notin C
  <2> HIDE DEF C
  <2> QED BY <1>1, SmallestOf
<1>3. S \in SUBSET T /\ ~\E g : Table(g, v, S) OBVIOUS
<1>4. \A R \in SUBSET S : R # S => \E g : Table(g, v, R) BY <1>2, <1>3
<1> DEFINE G(R) == CHOOSE g : Table(g, v, R)
           Sum(s) == IF s = {} THEN 0
                     ELSE v[One(s)] + G(s \ {One(s)})[s \ {One(s)}]
           h == [s \in SUBSET S |-> Sum(s)]
<1>5. \A R \in SUBSET S : R # S => Table(G(R), v, R) BY <1>4
<1>6. \A R \in SUBSET S : IsFiniteSet(R) BY <1>3, FS_Subset
<1> HIDE DEF G
<1>7. ASSUME NEW r \in SUBSET S, r # S PROVE Sum(r) = G(r)[r]
  <2>1. Table(G(r), v, r) BY <1>5, <1>7
  <2>2. G(r)[r] = IF r = {} THEN 0 ELSE v[One(r)] + G(r)[r \ {One(r)}]
    BY <2>1 DEF Table
  <2>3. CASE r = {} BY <2>2, <2>3
  <2>4. CASE r # {}
    <3> DEFINE q == r \ {One(r)}
    <3>1. One(r) \in r BY <2>4, OneIsIn
    <3>2. q \in SUBSET S /\ q # S /\ q \in SUBSET r BY <3>1
    <3>3. Table(G(q), v, q) BY <1>5, <3>2
    <3>4. IsFiniteSet(q) BY <1>6, <3>2
    <3> HIDE DEF q
    <3>5. \A s \in SUBSET q : s \subseteq r => G(q)[s] = G(r)[s]
      <4>1. ASSUME NEW g, NEW k, Table(g, v, q), Table(k, v, r)
            PROVE  \A s \in SUBSET q : s \subseteq r => g[s] = k[s]
        BY <3>4, <4>1, TablesAgree
      <4> QED BY <2>1, <3>3, <4>1
    <3>6. G(q)[q] = G(r)[q] BY <3>2, <3>5
    <3> QED BY <2>2, <2>4, <3>6 DEF q
  <2> QED BY <2>3, <2>4
<1>8. ASSUME NEW s \in SUBSET S
      PROVE  Sum(s) = IF s = {} THEN 0 ELSE v[One(s)] + h[s \ {One(s)}]
  <2>1. CASE s = {} BY <2>1
  <2>2. CASE s # {}
    <3> DEFINE r == s \ {One(s)}
    <3>1. One(s) \in s BY <2>2, OneIsIn
    <3>2. r \in SUBSET S /\ r # S BY <3>1
    <3>3. h[r] = Sum(r) BY <3>2
    <3>4. Sum(r) = G(r)[r] BY <1>7, <3>2
    <3>5. Sum(s) = v[One(s)] + G(r)[r] BY <2>2
    <3> HIDE DEF r, Sum, h
    <3>6. Sum(s) = v[One(s)] + h[r] BY <3>3, <3>4, <3>5
    <3> QED BY <2>2, <3>6 DEF r
  <2> QED BY <2>1, <2>2
<1>9. h = [s \in SUBSET S |-> IF s = {} THEN 0 ELSE v[One(s)] + h[s \ {One(s)}]]
  <2>1. h = [s \in SUBSET S |-> Sum(s)] OBVIOUS
  <2> HIDE DEF h, Sum
  <2> QED BY <1>8, <2>1
<1>10. Table(h, v, S) BY <1>9 DEF Table
<1> QED BY <1>3, <1>10

\* The sum of a set is that of one of its elements and of the rest.
LEMMA SumByOne ==
  ASSUME NEW v, NEW S, IsFiniteSet(S)
  PROVE  /\ S = {} => SumOf(v, S) = 0
         /\ S # {} => SumOf(v, S) = v[One(S)] + SumOf(v, S \ {One(S)})
<1> DEFINE G(R) == CHOOSE g : Table(g, v, R)
<1>1. \A R : IsFiniteSet(R) => Table(G(R), v, R) BY TableExists
<1>2. \A R : SumOf(v, R) = G(R)[R] BY SumIsTable
<1> HIDE DEF G
<1>3. G(S)[S] = IF S = {} THEN 0 ELSE v[One(S)] + G(S)[S \ {One(S)}]
  BY <1>1 DEF Table
<1> DEFINE r == S \ {One(S)}
<1>4. IsFiniteSet(r) /\ r \in SUBSET S BY FS_Subset
<1>5. G(r)[r] = G(S)[r]
  <2> HIDE DEF r
  <2>1. Table(G(r), v, r) /\ Table(G(S), v, S) BY <1>1, <1>4
  <2>2. \A s \in SUBSET r : s \subseteq S => G(r)[s] = G(S)[s] BY <1>4, <2>1, TablesAgree
  <2> QED BY <1>4, <2>2
<1> QED BY <1>2, <1>3, <1>5

LEMMA SumIsInteger ==
  ASSUME NEW v, NEW T, IsFiniteSet(T), \A x \in T : v[x] \in Int
  PROVE  \A S \in SUBSET T : SumOf(v, S) \in Int
<1> DEFINE C == {S \in SUBSET T : SumOf(v, S) \notin Int}
<1> SUFFICES ASSUME C # {} PROVE FALSE OBVIOUS
<1>1. C \subseteq SUBSET T OBVIOUS
<1>2. PICK S \in C : \A R \in SUBSET S : R # S => R \notin C
  <2> HIDE DEF C
  <2> QED BY <1>1, SmallestOf
<1>3. S \in SUBSET T /\ SumOf(v, S) \notin Int OBVIOUS
<1>4. IsFiniteSet(S) BY <1>3, FS_Subset
<1>5. S # {}
  <2>1. S = {} => SumOf(v, S) = 0 BY <1>4, SumByOne
  <2> HIDE DEF C
  <2> QED BY <1>3, <2>1
<1>6. One(S) \in S BY <1>5, OneIsIn
<1> DEFINE r == S \ {One(S)}
<1>7. r \in SUBSET S /\ r # S /\ r \in SUBSET T BY <1>3, <1>6
<1>8. SumOf(v, r) \in Int BY <1>2, <1>7
<1>9. SumOf(v, S) = v[One(S)] + SumOf(v, r) BY <1>4, <1>5, SumByOne
<1>10. v[One(S)] \in Int BY <1>3, <1>6
<1> HIDE DEF r
<1> QED BY <1>3, <1>8, <1>9, <1>10

LEMMA SumIsNatural ==
  ASSUME NEW v, NEW T, IsFiniteSet(T), \A x \in T : v[x] \in Nat
  PROVE  \A S \in SUBSET T : SumOf(v, S) \in Nat
<1> DEFINE C == {S \in SUBSET T : SumOf(v, S) \notin Nat}
<1> SUFFICES ASSUME C # {} PROVE FALSE OBVIOUS
<1>1. C \subseteq SUBSET T OBVIOUS
<1>2. PICK S \in C : \A R \in SUBSET S : R # S => R \notin C
  <2> HIDE DEF C
  <2> QED BY <1>1, SmallestOf
<1>3. S \in SUBSET T /\ SumOf(v, S) \notin Nat OBVIOUS
<1>4. IsFiniteSet(S) BY <1>3, FS_Subset
<1>5. S # {}
  <2>1. S = {} => SumOf(v, S) = 0 BY <1>4, SumByOne
  <2> HIDE DEF C
  <2> QED BY <1>3, <2>1
<1>6. One(S) \in S BY <1>5, OneIsIn
<1> DEFINE r == S \ {One(S)}
<1>7. r \in SUBSET S /\ r # S /\ r \in SUBSET T BY <1>3, <1>6
<1>8. SumOf(v, r) \in Nat BY <1>2, <1>7
<1>9. SumOf(v, S) = v[One(S)] + SumOf(v, r) BY <1>4, <1>5, SumByOne
<1>10. v[One(S)] \in Nat BY <1>3, <1>6
<1> HIDE DEF r
<1> QED BY <1>3, <1>8, <1>9, <1>10

\* Whichever element is taken first, the sum is the same.
LEMMA SumByAny ==
  ASSUME NEW v, NEW T, IsFiniteSet(T), \A x \in T : v[x] \in Int, NEW x \in T
  PROVE  SumOf(v, T) = v[x] + SumOf(v, T \ {x})
<1> DEFINE Splits(S) == \A y \in S : SumOf(v, S) = v[y] + SumOf(v, S \ {y})
           C == {S \in SUBSET T : ~Splits(S)}
<1> SUFFICES ASSUME C # {} PROVE FALSE
  <2>1. T \in SUBSET T OBVIOUS
  <2> QED BY <2>1
<1>1. C \subseteq SUBSET T OBVIOUS
<1>2. PICK S \in C : \A R \in SUBSET S : R # S => R \notin C
  <2> HIDE DEF C
  <2> QED BY <1>1, SmallestOf
<1>3. S \in SUBSET T /\ ~Splits(S) OBVIOUS
<1>4. \A R \in SUBSET S : R # S => Splits(R) BY <1>2, <1>3
<1>5. PICK y \in S : SumOf(v, S) # v[y] + SumOf(v, S \ {y}) BY <1>3
<1>6. IsFiniteSet(S) BY <1>3, FS_Subset
<1> DEFINE o == One(S)
<1>7. o \in S BY <1>5, OneIsIn
<1>8. SumOf(v, S) = v[o] + SumOf(v, S \ {o}) BY <1>5, <1>6, SumByOne
<1> HIDE DEF o
<1>9. y # o BY <1>5, <1>8
<1>10. SumOf(v, S \ {o}) = v[y] + SumOf(v, (S \ {o}) \ {y})
  <2>1. S \ {o} \in SUBSET S /\ S \ {o} # S /\ y \in S \ {o} BY <1>7, <1>9
  <2>2. Splits(S \ {o}) BY <1>4, <2>1
  <2> QED BY <2>1, <2>2
<1>11. SumOf(v, S \ {y}) = v[o] + SumOf(v, (S \ {y}) \ {o})
  <2>1. S \ {y} \in SUBSET S /\ S \ {y} # S /\ o \in S \ {y} BY <1>7, <1>9
  <2>2. Splits(S \ {y}) BY <1>4, <2>1
  <2> QED BY <2>1, <2>2
<1>12. (S \ {o}) \ {y} = (S \ {y}) \ {o} OBVIOUS
<1>13. SumOf(v, (S \ {y}) \ {o}) \in Int
  <2>1. (S \ {y}) \ {o} \in SUBSET T BY <1>3
  <2> QED BY <2>1, SumIsInteger
<1>14. v[y] \in Int /\ v[o] \in Int BY <1>3, <1>7
<1> DEFINE a == SumOf(v, S)  b == SumOf(v, S \ {o})  c == SumOf(v, S \ {y})
           d == SumOf(v, (S \ {y}) \ {o})  u == v[y]  w == v[o]
<1>15. a = w + b /\ b = u + d /\ c = w + d /\ a # u + c BY <1>5, <1>8, <1>10, <1>11, <1>12
<1>16. d \in Int /\ u \in Int /\ w \in Int BY <1>13, <1>14
<1> HIDE DEF a, b, c, d, u, w
<1> QED BY <1>15, <1>16

\* A sum over more: one element more, and its value.
LEMMA SumByOneMore ==
  ASSUME NEW v, NEW T, IsFiniteSet(T), NEW x, x \notin T, \A y \in T \cup {x} : v[y] \in Nat
  PROVE  /\ SumOf(v, T) \in Nat
         /\ SumOf(v, T \cup {x}) = v[x] + SumOf(v, T)
<1>1. IsFiniteSet(T \cup {x}) BY FS_AddElement
<1>2. x \in T \cup {x} /\ (T \cup {x}) \ {x} = T /\ T \in SUBSET T OBVIOUS
<1>3. SumOf(v, T \cup {x}) = v[x] + SumOf(v, (T \cup {x}) \ {x})
  BY <1>1, <1>2, SumByAny
<1>4. SumOf(v, T) \in Nat BY <1>2, SumIsNatural
<1> QED BY <1>2, <1>3, <1>4

\* A sum over two sets that have nothing in common.
LEMMA SumOfBoth ==
  ASSUME NEW v, NEW A, NEW B, IsFiniteSet(A), IsFiniteSet(B), A \cap B = {},
         \A x \in A \cup B : v[x] \in Int
  PROVE  SumOf(v, A \cup B) = SumOf(v, A) + SumOf(v, B)
<1> DEFINE Adds(S) == SumOf(v, S \cup B) = SumOf(v, S) + SumOf(v, B)
           C == {S \in SUBSET A : ~Adds(S)}
<1> SUFFICES ASSUME C # {} PROVE FALSE
  <2>1. A \in SUBSET A OBVIOUS
  <2> QED BY <2>1
<1>1. C \subseteq SUBSET A OBVIOUS
<1>2. PICK S \in C : \A R \in SUBSET S : R # S => R \notin C
  <2> HIDE DEF C
  <2> QED BY <1>1, SmallestOf
<1>3. S \in SUBSET A /\ ~Adds(S) OBVIOUS
<1>4. \A R \in SUBSET S : R # S => Adds(R) BY <1>2, <1>3
<1>5. IsFiniteSet(S) /\ IsFiniteSet(S \cup B) BY <1>3, FS_Subset, FS_Union
<1>6. \A R \in SUBSET (A \cup B) : SumOf(v, R) \in Int
  <2>1. IsFiniteSet(A \cup B) BY FS_Union
  <2> QED BY <2>1, SumIsInteger
<1>7. S # {}
  <2>1. SumOf(v, {}) = 0 BY FS_EmptySet, SumByOne
  <2>2. SumOf(v, B) \in Int
    <3>1. B \in SUBSET (A \cup B) OBVIOUS
    <3> QED BY <1>6, <3>1
  <2>3. ASSUME S = {} PROVE FALSE
    <3>1. SumOf(v, S \cup B) = SumOf(v, B) /\ SumOf(v, S) = 0
      <4>1. S \cup B = B BY <2>3
      <4> QED BY <2>1, <2>3, <4>1
    <3> HIDE DEF C
    <3> QED BY <1>3, <2>2, <3>1
  <2> QED BY <2>3
<1>8. PICK x \in S : TRUE BY <1>7
<1> DEFINE r == S \ {x}
<1>9. r \in SUBSET S /\ r # S /\ (S \cup B) \ {x} = r \cup B BY <1>3, <1>8
<1>10. SumOf(v, S) = v[x] + SumOf(v, r) BY <1>3, <1>5, <1>8, SumByAny
<1>11. SumOf(v, S \cup B) = v[x] + SumOf(v, r \cup B)
  <2>1. \A y \in S \cup B : v[y] \in Int BY <1>3
  <2>2. x \in S \cup B BY <1>8
  <2>3. SumOf(v, S \cup B) = v[x] + SumOf(v, (S \cup B) \ {x}) BY <1>5, <2>1, <2>2, SumByAny
  <2> QED BY <1>9, <2>3
<1>12. Adds(r) BY <1>4, <1>9
<1>13. v[x] \in Int /\ SumOf(v, r) \in Int /\ SumOf(v, B) \in Int
  <2>1. r \in SUBSET (A \cup B) /\ B \in SUBSET (A \cup B) BY <1>3, <1>9
  <2> QED BY <1>3, <1>6, <1>8, <2>1
<1> DEFINE a == SumOf(v, S)  b == SumOf(v, S \cup B)  c == SumOf(v, r)  d == SumOf(v, r \cup B)
           e == SumOf(v, B)  u == v[x]
<1>14. a = u + c /\ b = u + d /\ d = c + e /\ b # a + e BY <1>3, <1>10, <1>11, <1>12
<1>15. u \in Int /\ c \in Int /\ e \in Int BY <1>13
<1> HIDE DEF a, b, c, d, e, u
<1> QED BY <1>14, <1>15

\* A part of naturals does not add up to more than all of them.
LEMMA SumOfPart ==
  ASSUME NEW v, NEW T, IsFiniteSet(T), \A x \in T : v[x] \in Nat, NEW S \in SUBSET T
  PROVE  SumOf(v, S) \in Nat /\ SumOf(v, S) <= SumOf(v, T)
<1> DEFINE R == T \ S
<1>1. IsFiniteSet(S) /\ IsFiniteSet(R) BY FS_Subset
<1>2. S \cap R = {} /\ S \cup R = T /\ \A x \in S \cup R : v[x] \in Int OBVIOUS
<1>3. SumOf(v, T) = SumOf(v, S) + SumOf(v, R)
  <2> HIDE DEF R
  <2>1. SumOf(v, S \cup R) = SumOf(v, S) + SumOf(v, R) BY <1>1, <1>2, SumOfBoth
  <2> QED BY <1>2, <2>1
<1>4. SumOf(v, S) \in Nat /\ SumOf(v, R) \in Nat
  <2>1. S \in SUBSET T /\ R \in SUBSET T OBVIOUS
  <2> QED BY <2>1, SumIsNatural
<1> QED BY <1>3, <1>4

\* The sum of what is owed is the sum of what is paid, negated.
LEMMA SumNegated ==
  ASSUME NEW v, NEW w, NEW T, IsFiniteSet(T), \A x \in T : v[x] \in Int /\ w[x] = -v[x]
  PROVE  SumOf(w, T) = -SumOf(v, T)
<1> DEFINE C == {S \in SUBSET T : SumOf(w, S) # -SumOf(v, S)}
<1> SUFFICES ASSUME C # {} PROVE FALSE
  <2>1. T \in SUBSET T OBVIOUS
  <2> QED BY <2>1
<1>1. C \subseteq SUBSET T OBVIOUS
<1>2. PICK S \in C : \A R \in SUBSET S : R # S => R \notin C
  <2> HIDE DEF C
  <2> QED BY <1>1, SmallestOf
<1>3. S \in SUBSET T /\ SumOf(w, S) # -SumOf(v, S) OBVIOUS
<1>4. IsFiniteSet(S) BY <1>3, FS_Subset
<1>5. S # {}
  <2>1. S = {} => SumOf(v, S) = 0 /\ SumOf(w, S) = 0 BY <1>4, SumByOne
  <2> HIDE DEF C
  <2> QED BY <1>3, <2>1
<1>6. One(S) \in S BY <1>5, OneIsIn
<1> DEFINE r == S \ {One(S)}
<1>7. r \in SUBSET S /\ r # S /\ r \in SUBSET T BY <1>3, <1>6
<1>8. SumOf(w, r) = -SumOf(v, r) BY <1>2, <1>7
<1>9. SumOf(v, S) = v[One(S)] + SumOf(v, r) /\ SumOf(w, S) = w[One(S)] + SumOf(w, r)
  BY <1>4, <1>5, SumByOne
<1>10. v[One(S)] \in Int /\ w[One(S)] = -v[One(S)] BY <1>3, <1>6
<1>11. SumOf(v, r) \in Int BY <1>7, SumIsInteger
<1> HIDE DEF r
<1> DEFINE a == SumOf(v, S)  b == SumOf(w, S)  c == SumOf(v, r)  d == SumOf(w, r)
           t == v[One(S)]  u == w[One(S)]
<1>12. a = t + c /\ b = u + d /\ d = -c /\ u = -t /\ b # -a BY <1>3, <1>8, <1>9, <1>10
<1>13. t \in Int /\ c \in Int BY <1>10, <1>11
<1> HIDE DEF a, b, c, d, t, u
<1> QED BY <1>12, <1>13

-----------------------------------------------------------------------------
(* Numbers.                                                                *)

\* The least of a set of naturals.
LEMMA LeastOf ==
  ASSUME NEW S, S \subseteq Nat, S # {}
  PROVE  Min(S) \in S /\ \A y \in S : Min(S) <= y
<1>1. PICK x \in S : \A y \in S : ~(<< y, x >> \in OpToRel(<, Nat))
  BY WFMin, NatLessThanWellFounded
<1>2. ASSUME NEW y \in S PROVE x <= y
  <2>1. x \in Nat /\ y \in Nat OBVIOUS
  <2>2. y < x => << y, x >> \in OpToRel(<, Nat) BY <2>1 DEF OpToRel
  <2>3. ~(<< y, x >> \in OpToRel(<, Nat)) BY <1>1
  <2>4. ~(y < x) BY <2>2, <2>3, Zenon
  <2> QED BY <2>1, <2>4
<1> QED BY <1>2 DEF Min

LEMMA DivBounds ==
  ASSUME NEW x \in Int, NEW d \in Nat \ {0}
  PROVE  x \div d \in Int /\ (x \div d) * d <= x /\ x < (x \div d) * d + d
OBVIOUS

LEMMA TimesMonotone ==
  ASSUME NEW a \in Int, NEW b \in Int, a <= b, NEW c \in Nat
  PROVE  a * c <= b * c
OBVIOUS

LEMMA DivMonotone ==
  ASSUME NEW x \in Int, NEW y \in Int, x <= y, NEW d \in Nat \ {0}
  PROVE  x \div d <= y \div d
OBVIOUS

-----------------------------------------------------------------------------
(* Bank statements.                                                        *)

Papers == {"review_required", "approved", "deletion_pending", "deleted"}

Hands ==
    {Empty} \cup [pc : {"import"}, review : Reviews]
            \cup [pc : {"match", "mark"}, movement : Movements, target : Targets]

HandOK == hand \in [Clerks -> Hands]

\* The inductive invariant: what a clerk holds between reading and writing is
\* something that was once there, and no more is known of it.
StatementInv == StatementsAreSound /\ HandOK

\* A movement names its import.
LEMMA MovementsDiffer ==
  ASSUME NEW r \in Reviews, NEW m \in MovementsOf(r)
  PROVE  m \in Movements /\ m.review = r
BY DEF MovementsOf, Movements

LEMMA MovementsOfType ==
  ASSUME NEW r \in Reviews
  PROVE  MovementsOf(r) \subseteq Movements
BY MovementsDiffer

LEMMA HeldType ==
  ASSUME NEW c \in Clerks, NEW h \in Hands, HandOK, Hold(c, h)
  PROVE  HandOK' /\ DOMAIN hand' = Clerks
BY DEF HandOK, Hold

LEMMA StatementInitInv == StatementInit => StatementInv
<1> SUFFICES ASSUME StatementInit PROVE StatementInv OBVIOUS
<1>1. HandOK BY DEF StatementInit, HandOK, Hands
<1>2. StatementTypeOK BY DEF StatementInit, StatementTypeOK
<1>3. NoDoubleMovements /\ ImportsAreWhole /\ MatchedStays /\ PaperFollowsImport
  BY DEF StatementInit, NoDoubleMovements, ImportsAreWhole, MatchedStays, PaperFollowsImport
<1> QED BY <1>1, <1>2, <1>3 DEF StatementInv, StatementsAreSound

\* Nothing but the hand of a clerk changes in a reading step.
LEMMA OnlyHandChanges ==
  ASSUME StatementInv, HandOK', DOMAIN hand' = Clerks,
         UNCHANGED << imports, movements, reconciled, matches, paper >>
  PROVE  StatementInv'
BY DEF StatementInv, StatementsAreSound, StatementTypeOK, NoDoubleMovements,
       ImportsAreWhole, MatchedStays, PaperFollowsImport, Overlap, MovementsOf

LEMMA CommitStep ==
  ASSUME StatementInv, NEW c \in Clerks, CommitStatement(c)
  PROVE  StatementInv'
<1> DEFINE r == hand[c].review
<1>1. r \in Reviews /\ r.document \in Documents
  BY StatementAssumption DEF CommitStatement, StatementInv, HandOK, Hands, Empty
<1>2. HandOK' /\ DOMAIN hand' = Clerks
  BY HeldType DEF CommitStatement, Hands, StatementInv
<1>3. CASE ~ImportAccepted(r)
  BY <1>2, <1>3, OnlyHandChanges DEF CommitStatement
<1>4. CASE ImportAccepted(r)
  <2> HIDE DEF r
  <2>1. /\ imports' = imports \cup {r}
        /\ movements' = movements \cup MovementsOf(r)
        /\ paper' = [paper EXCEPT ![r.document] = "approved"]
        /\ UNCHANGED << reconciled, matches >>
    BY <1>4 DEF CommitStatement, r
  <2>2. StatementTypeOK'
    BY <1>1, <1>2, <2>1, MovementsOfType DEF StatementInv, StatementsAreSound, StatementTypeOK
  <2>3. NoDoubleMovements'
    <3>1. \A q \in imports : r.document # q.document /\ ~Overlap(r, q) /\ ~Overlap(q, r)
      BY <1>4, <1>1 DEF ImportAccepted, Overlap
    <3> QED BY <2>1, <3>1 DEF StatementInv, StatementsAreSound, NoDoubleMovements, Overlap
  <2>4. ImportsAreWhole'
    BY <2>1 DEF StatementInv, StatementsAreSound, ImportsAreWhole, MovementsOf
  <2>5. MatchedStays'
    BY <2>1 DEF StatementInv, StatementsAreSound, MatchedStays
  <2>6. PaperFollowsImport'
    BY <1>1, <2>1 DEF StatementInv, StatementsAreSound, StatementTypeOK, PaperFollowsImport
  <2> QED BY <1>2, <2>2, <2>3, <2>4, <2>5, <2>6 DEF StatementInv, StatementsAreSound
<1> QED BY <1>3, <1>4

LEMMA ReadForMatchStep ==
  ASSUME StatementInv, NEW c \in Clerks, NEW m \in movements, NEW target \in Targets,
         ReadForMatch(c, m, target)
  PROVE  StatementInv'
<1>1. m \in Movements BY DEF StatementInv, StatementsAreSound, StatementTypeOK
<1>2. [pc |-> "match", movement |-> m, target |-> target] \in Hands BY <1>1 DEF Hands
<1> QED BY <1>2, HeldType, OnlyHandChanges DEF ReadForMatch, StatementInv

LEMMA ConfirmStep ==
  ASSUME StatementInv, NEW c \in Clerks, ConfirmMatch(c)
  PROVE  StatementInv'
<1> DEFINE m == hand[c].movement  t == hand[c].target
<1>1. hand[c] \in [pc : {"match", "mark"}, movement : Movements, target : Targets]
  BY DEF ConfirmMatch, StatementInv, HandOK, Hands, Empty
<1>2. CASE m \notin movements
  BY <1>2, HeldType, OnlyHandChanges DEF ConfirmMatch, Hands, StatementInv
<1>3. CASE m \in movements
  <2>1. [hand[c] EXCEPT !.pc = "mark"] \in Hands BY <1>1 DEF Hands
  <2>2. HandOK' /\ DOMAIN hand' = Clerks
    BY <1>3, <2>1, HeldType DEF ConfirmMatch, StatementInv
  <2>3. /\ matches' = matches \cup {[movement |-> m, target |-> t]}
        /\ UNCHANGED << imports, movements, reconciled, paper >>
    BY <1>3 DEF ConfirmMatch
  <2>4. m.review \in imports
    <3>1. PICK r \in imports : m \in MovementsOf(r)
      BY <1>3 DEF StatementInv, StatementsAreSound, ImportsAreWhole
    <3> QED BY <3>1, MovementsDiffer DEF StatementInv, StatementsAreSound, StatementTypeOK
  <2>5. StatementTypeOK'
    BY <1>1, <2>2, <2>3 DEF StatementInv, StatementsAreSound, StatementTypeOK
  <2>6. MatchedStays'
    BY <1>3, <2>3, <2>4 DEF StatementInv, StatementsAreSound, MatchedStays
  <2>7. NoDoubleMovements' /\ ImportsAreWhole' /\ PaperFollowsImport'
    BY <2>3 DEF StatementInv, StatementsAreSound, NoDoubleMovements, Overlap,
                ImportsAreWhole, MovementsOf, PaperFollowsImport
  <2> QED BY <2>2, <2>5, <2>6, <2>7 DEF StatementInv, StatementsAreSound
<1> QED BY <1>2, <1>3

LEMMA MarkStep ==
  ASSUME StatementInv, NEW c \in Clerks, MarkReconciled(c)
  PROVE  StatementInv'
<1>1. HandOK' /\ DOMAIN hand' = Clerks
  BY HeldType DEF MarkReconciled, Hands, StatementInv
<1>2. StatementTypeOK'
  BY <1>1 DEF MarkReconciled, StatementInv, StatementsAreSound, StatementTypeOK
<1> QED BY <1>1, <1>2 DEF MarkReconciled, StatementInv, StatementsAreSound,
          NoDoubleMovements, Overlap, ImportsAreWhole, MovementsOf, MatchedStays,
          PaperFollowsImport

\* The movements of the statements that stay are not those that are undone.
LEMMA UndoStep ==
  ASSUME StatementInv, NEW r \in Reviews, UndoStatement(r)
  PROVE  StatementInv'
<1>1. /\ r \in imports
      /\ imports' = imports \ {r}
      /\ movements' = movements \ MovementsOf(r)
      /\ paper' = [paper EXCEPT ![r.document] = IF @ = "approved" THEN "review_required" ELSE @]
      /\ UNCHANGED << reconciled, matches, hand >>
  BY DEF UndoStatement
<1>2. \A x \in matches : x.movement \notin MovementsOf(r) BY DEF UndoStatement, Undoable
<1>3. r.document \in Documents BY StatementAssumption
<1>4. StatementTypeOK' /\ HandOK'
  BY <1>1, <1>3 DEF StatementInv, StatementsAreSound, StatementTypeOK, HandOK
<1>5. NoDoubleMovements'
  BY <1>1 DEF StatementInv, StatementsAreSound, NoDoubleMovements, Overlap
<1>6. ImportsAreWhole'
  <2>1. \A q \in imports : q # r => MovementsOf(q) \cap MovementsOf(r) = {}
    BY MovementsDiffer DEF StatementInv, StatementsAreSound, StatementTypeOK
  <2>2. movements = UNION {MovementsOf(q) : q \in imports}
    BY DEF StatementInv, StatementsAreSound, ImportsAreWhole
  <2>3. movements' = UNION {MovementsOf(q) : q \in imports \ {r}} BY <1>1, <2>1, <2>2
  <2> QED BY <1>1, <2>3 DEF ImportsAreWhole, MovementsOf
<1>7. MatchedStays'
  <2> SUFFICES ASSUME NEW x \in matches
               PROVE  x.movement \in movements' /\ x.movement.review \in imports'
    BY <1>1 DEF MatchedStays
  <2>1. x.movement \in movements /\ x.movement.review \in imports
    BY DEF StatementInv, StatementsAreSound, MatchedStays
  <2>2. PICK q \in imports : x.movement \in MovementsOf(q)
    BY <2>1 DEF StatementInv, StatementsAreSound, ImportsAreWhole
  <2>3. x.movement.review = q
    BY <2>2, MovementsDiffer DEF StatementInv, StatementsAreSound, StatementTypeOK
  <2> QED BY <1>1, <1>2, <2>1, <2>2, <2>3
<1>8. PaperFollowsImport'
  <2>1. paper[r.document] = "approved" /\ paper \in [Documents -> Papers]
    BY <1>1, <1>3 DEF StatementInv, StatementsAreSound, PaperFollowsImport, StatementTypeOK, Papers
  <2>2. \A q \in imports' : q.document # r.document
    BY <1>1 DEF StatementInv, StatementsAreSound, NoDoubleMovements
  <2> SUFFICES ASSUME NEW d \in Documents
               PROVE  (paper'[d] = "approved") <=> (\E q \in imports' : q.document = d)
    BY DEF PaperFollowsImport
  <2>3. CASE d = r.document BY <1>1, <1>3, <2>1, <2>2, <2>3
  <2>4. CASE d # r.document
    BY <1>1, <2>1, <2>4 DEF StatementInv, StatementsAreSound, PaperFollowsImport
  <2> QED BY <2>3, <2>4
<1> QED BY <1>4, <1>5, <1>6, <1>7, <1>8 DEF StatementInv, StatementsAreSound

LEMMA DeletionStep ==
  ASSUME StatementInv, NEW d \in Documents, BeginDeletion(d) \/ FinishDeletion(d)
  PROVE  StatementInv'
<1>1. /\ paper[d] # "approved"
      /\ \E s \in {"deletion_pending", "deleted"} : paper' = [paper EXCEPT ![d] = s]
      /\ UNCHANGED << imports, movements, reconciled, matches, hand >>
  BY DEF BeginDeletion, FinishDeletion, DeletionAllowed
<1>2. StatementTypeOK' /\ HandOK'
  BY <1>1 DEF StatementInv, StatementsAreSound, StatementTypeOK, HandOK
<1>3. PaperFollowsImport'
  BY <1>1 DEF StatementInv, StatementsAreSound, StatementTypeOK, PaperFollowsImport
<1>4. NoDoubleMovements' /\ ImportsAreWhole' /\ MatchedStays'
  BY <1>1 DEF StatementInv, StatementsAreSound, NoDoubleMovements, Overlap,
              ImportsAreWhole, MovementsOf, MatchedStays
<1> QED BY <1>2, <1>3, <1>4 DEF StatementInv, StatementsAreSound

LEMMA StatementStep == StatementInv /\ [StatementNext]_statementVars => StatementInv'
<1> SUFFICES ASSUME StatementInv, [StatementNext]_statementVars PROVE StatementInv' OBVIOUS
<1>1. CASE UNCHANGED statementVars
  BY <1>1, OnlyHandChanges DEF statementVars, StatementInv, HandOK, StatementsAreSound, StatementTypeOK
<1>2. ASSUME NEW c \in Clerks, NEW r \in Reviews, Prepare(c, r) PROVE StatementInv'
  <2>1. [pc |-> "import", review |-> r] \in Hands BY DEF Hands
  <2> QED BY <1>2, <2>1, HeldType, OnlyHandChanges DEF Prepare, StatementInv
<1> QED BY <1>1, <1>2, CommitStep, ReadForMatchStep, ConfirmStep, MarkStep, UndoStep,
           DeletionStep DEF StatementNext

\* The movements of an account are those of its approved statements, which
\* never overlap; what is matched is never undone, and the document of a
\* statement is approved exactly while the statement stands.
THEOREM StatementsStand == StatementSpec => []StatementsAreSound
<1>1. StatementInv => StatementsAreSound BY DEF StatementInv
<1> QED BY <1>1, StatementInitInv, StatementStep, PTL DEF StatementSpec

-----------------------------------------------------------------------------
(* Purchase orders.                                                        *)

Statuses == {"none", "draft", "awaiting_approval", "approved", "invoiced"}
                \cup Receivable \cup Invoiceable

\* What lies on a desk between the reading and the writing of a request.
Desks ==
    {Free} \cup [pc : {"send"}]
           \cup [pc : {"receive"}, seen : [Lines -> Nat], quantity : Deliveries]
           \cup [pc : {"match"}, document : Invoices, status : {"matched", "price_mismatch"}]

DesksOK == desk \in [People -> Desks] /\ IsFiniteSet(goodsReceipts)

\* What was true of the order when a request read it is true when it writes:
\* the date stays recorded, and the order has come at least as far.
StillTrue ==
    /\ order.dated => order.status # "none"
    /\ \A p \in People : /\ desk[p].pc = "send" => order.dated
                         /\ desk[p].pc = "match" => Stage(order.status) >= 5
    /\ Stage(order.status) >= 2 => order.approver \notin {NoOne, order.creator}
    /\ Stage(order.status) >= 3 => order.dated

PurchasingInv == PurchasingTypeOK /\ DesksOK /\ StillTrue /\ InvoicedMeansMatched

LEMMA Stages ==
  /\ Stage("none") = 0 /\ Stage("draft") = 1 /\ Stage("awaiting_approval") = 1
  /\ Stage("approved") = 2 /\ Stage("sent") = 3 /\ Stage("partially_received") = 4
  /\ Stage("received") = 5 /\ Stage("partially_invoiced") = 6 /\ Stage("invoiced") = 7
BY DEF Stage

LEMMA StatusSet ==
  /\ Statuses = {"none", "draft", "awaiting_approval", "approved", "sent",
                 "partially_received", "received", "partially_invoiced", "invoiced"}
  /\ \A s \in Statuses : Stage(s) \in 0..7
BY Stages DEF Statuses, Receivable, Invoiceable

LEMMA OrderType ==
  PurchasingTypeOK <=>
    /\ order \in [status : Statuses, creator : People \cup {NoOne},
                  approver : People \cup {NoOne}, dated : BOOLEAN]
    /\ received \in [Lines -> Nat]
    /\ goodsReceipts \subseteq [no : 1..MaxReceipts, quantity : Deliveries]
    /\ invoiceMatches \subseteq [document : Invoices, status : {"matched", "price_mismatch"}]
    /\ document \in [Invoices -> {"uploaded", "review_required", "approved"}]
    /\ DOMAIN desk = People
    /\ overlapped \in BOOLEAN
BY DEF PurchasingTypeOK, Statuses

LEMMA PurchasingInitInv == PurchasingInit => PurchasingInv
<1> SUFFICES ASSUME PurchasingInit PROVE PurchasingInv OBVIOUS
<1>1. order = [status |-> "none", creator |-> NoOne, approver |-> NoOne, dated |-> FALSE]
  BY DEF PurchasingInit
<1>2. PurchasingTypeOK
  <2>1. overlapped \in BOOLEAN BY DEF PurchasingInit
  <2>2. order \in [status : Statuses, creator : People \cup {NoOne},
                   approver : People \cup {NoOne}, dated : BOOLEAN]
    BY <1>1, StatusSet
  <2> QED BY <2>1, <2>2, OrderType DEF PurchasingInit
<1>3. DesksOK BY FS_EmptySet DEF PurchasingInit, DesksOK, Desks
<1>4. StillTrue BY <1>1, Stages DEF PurchasingInit, StillTrue, Free
<1>5. InvoicedMeansMatched BY <1>1 DEF PurchasingInit, InvoicedMeansMatched
<1> QED BY <1>2, <1>3, <1>4, <1>5 DEF PurchasingInv

\* A desk is filled or cleared and nothing else changes.
LEMMA ReadStep ==
  ASSUME PurchasingInv, NEW p \in People, NEW h \in Desks,
         desk' = [desk EXCEPT ![p] = h],
         h.pc = "send" => order.dated,
         h.pc = "match" => Stage(order.status) >= 5,
         UNCHANGED << order, received, goodsReceipts, invoiceMatches, document, overlapped >>
  PROVE  PurchasingInv'
<1> USE DEF PurchasingInv
<1>1. DesksOK' BY DEF DesksOK
<1>2. PurchasingTypeOK' BY DEF PurchasingTypeOK
<1>3. StillTrue' BY DEF StillTrue, DesksOK
<1>4. InvoicedMeansMatched' BY DEF InvoicedMeansMatched
<1> QED BY <1>1, <1>2, <1>3, <1>4

LEMMA CreateStep ==
  ASSUME PurchasingInv, NEW p \in People, NEW submit \in BOOLEAN, NEW dated \in BOOLEAN,
         Create(p, submit, dated)
  PROVE  PurchasingInv' /\ Stage(order'.status) >= Stage(order.status)
<1> DEFINE s == IF submit THEN "awaiting_approval" ELSE "draft"
<1>1. /\ order.status = "none"
      /\ order' = [status |-> s, creator |-> p, approver |-> NoOne, dated |-> dated]
      /\ UNCHANGED << received, goodsReceipts, invoiceMatches, document, desk, overlapped >>
  BY DEF Create
<1>2. s \in Statuses /\ Stage(s) = 1 /\ s \notin {"none", "invoiced"} BY Stages, StatusSet
<1> HIDE DEF s
<1>3. PurchasingTypeOK' BY <1>1, <1>2, OrderType DEF PurchasingInv, PurchasingTypeOK, Statuses
<1>4. DesksOK' BY <1>1 DEF PurchasingInv, DesksOK
<1>5. StillTrue'
  <2>1. \A q \in People : desk[q].pc # "send" /\ desk[q].pc # "match"
    BY <1>1, Stages DEF PurchasingInv, StillTrue
  <2> QED BY <1>1, <1>2, <2>1 DEF StillTrue
<1>6. InvoicedMeansMatched'
  BY <1>1, <1>2 DEF PurchasingInv, InvoicedMeansMatched
<1>7. Stage(order'.status) >= Stage(order.status) BY <1>1, <1>2, Stages
<1> QED BY <1>3, <1>4, <1>5, <1>6, <1>7 DEF PurchasingInv

\* Only the order changes, and forward.
LEMMA OrderStep ==
  ASSUME PurchasingInv, NEW s \in Statuses, NEW approver \in People \cup {NoOne},
         NEW dated \in BOOLEAN,
         order' = [order EXCEPT !.status = s, !.approver = approver, !.dated = dated],
         Stage(s) >= Stage(order.status),
         order.dated => dated,
         dated => s # "none",
         Stage(s) >= 2 => approver \notin {NoOne, order.creator},
         Stage(s) >= 3 => dated,
         (s = "invoiced") <=> (order.status = "invoiced"),
         DesksOK', desk' = desk \/ \E p \in People : desk' = [desk EXCEPT ![p] = Free],
         UNCHANGED << received, goodsReceipts, invoiceMatches, document, overlapped >>
  PROVE  PurchasingInv'
<1>1. order \in [status : Statuses, creator : People \cup {NoOne},
                 approver : People \cup {NoOne}, dated : BOOLEAN]
  BY OrderType DEF PurchasingInv
<1>2. /\ order'.status = s /\ order'.approver = approver /\ order'.dated = dated
      /\ order'.creator = order.creator
  BY <1>1
<1>3. PurchasingTypeOK'
  BY <1>1, OrderType DEF PurchasingInv, PurchasingTypeOK, Statuses, DesksOK
<1>4. StillTrue'
  <2>1. Stage(s) \in 0..7 /\ Stage(order.status) \in 0..7 BY <1>1, StatusSet
  <2>2. \A p \in People : /\ desk'[p].pc = "send" => desk[p].pc = "send"
                          /\ desk'[p].pc = "match" => desk[p].pc = "match"
    BY DEF PurchasingInv, DesksOK, Free
  <2> QED BY <1>2, <2>1, <2>2 DEF PurchasingInv, StillTrue
<1>5. InvoicedMeansMatched' BY <1>2 DEF PurchasingInv, InvoicedMeansMatched
<1> QED BY <1>3, <1>4, <1>5 DEF PurchasingInv

LEMMA ApproveStep ==
  ASSUME PurchasingInv, NEW p \in People, Approve(p)
  PROVE  PurchasingInv' /\ Stage(order'.status) >= Stage(order.status)
<1> DEFINE s == "approved"  approver == p  dated == order.dated
<1>1. order \in [status : Statuses, creator : People \cup {NoOne},
                 approver : People \cup {NoOne}, dated : BOOLEAN]
  BY OrderType DEF PurchasingInv
<1>2. order' = [order EXCEPT !.status = s, !.approver = approver, !.dated = dated]
  BY <1>1 DEF Approve
<1>3. /\ Stage(s) = 2 /\ Stage(order.status) = 1 /\ s \in Statuses
      /\ order.status = "awaiting_approval"
  BY Stages, StatusSet DEF Approve
<1>4. /\ approver \notin {NoOne, order.creator} /\ approver \in People \cup {NoOne}
      /\ dated \in BOOLEAN /\ s # "none" /\ s # "invoiced" /\ (order.dated => dated)
  BY <1>1, PurchasingAssumption DEF Approve
<1>5. /\ DesksOK' /\ desk' = desk
      /\ UNCHANGED << received, goodsReceipts, invoiceMatches, document, overlapped >>
  BY DEF Approve, PurchasingInv, DesksOK
<1>6. order'.status = s BY <1>1, <1>2
<1> HIDE DEF s, approver, dated
<1>7. (s = "invoiced") <=> (order.status = "invoiced") BY <1>3, <1>4
<1>8. Stage(s) >= Stage(order.status) /\ ~(Stage(s) >= 3) BY <1>3
<1>9. PurchasingInv' BY <1>2, <1>3, <1>4, <1>5, <1>7, <1>8, OrderStep
<1> QED BY <1>6, <1>8, <1>9

LEMMA DateStep ==
  ASSUME PurchasingInv, NEW p \in People, SetCommitmentDate(p)
  PROVE  PurchasingInv' /\ Stage(order'.status) >= Stage(order.status)
<1> DEFINE s == order.status  approver == order.approver  dated == TRUE
<1>1. order \in [status : Statuses, creator : People \cup {NoOne},
                 approver : People \cup {NoOne}, dated : BOOLEAN]
  BY OrderType DEF PurchasingInv
<1>2. order' = [order EXCEPT !.status = s, !.approver = approver, !.dated = dated]
  BY <1>1 DEF SetCommitmentDate
<1>3. /\ Stage(s) \in 0..7 /\ s \in Statuses /\ s # "none"
      /\ approver \in People \cup {NoOne} /\ dated \in BOOLEAN /\ dated
  BY <1>1, StatusSet DEF SetCommitmentDate
<1>4. /\ DesksOK' /\ desk' = desk
      /\ UNCHANGED << received, goodsReceipts, invoiceMatches, document, overlapped >>
  BY DEF SetCommitmentDate, PurchasingInv, DesksOK
<1>5. /\ Stage(s) >= 2 => approver \notin {NoOne, order.creator}
      /\ (s = "invoiced") <=> (order.status = "invoiced")
      /\ Stage(s) >= Stage(order.status)
  BY <1>3 DEF PurchasingInv, StillTrue
<1>6. order'.status = s BY <1>1, <1>2
<1> HIDE DEF s, approver, dated
<1>7. PurchasingInv' BY <1>2, <1>3, <1>4, <1>5, OrderStep
<1> QED BY <1>5, <1>6, <1>7

LEMMA SendStep ==
  ASSUME PurchasingInv, NEW p \in People, MarkSent(p)
  PROVE  PurchasingInv' /\ Stage(order'.status) >= Stage(order.status)
<1>1. order \in [status : Statuses, creator : People \cup {NoOne},
                 approver : People \cup {NoOne}, dated : BOOLEAN]
  BY OrderType DEF PurchasingInv
<1> DEFINE s == IF order.status = "approved" THEN "sent" ELSE order.status
<1>2. order' = [order EXCEPT !.status = s, !.approver = order.approver, !.dated = order.dated]
  BY <1>1 DEF MarkSent
<1>3. s \in Statuses /\ Stage(s) \in 0..7 /\ Stage(order.status) \in 0..7
  BY <1>1, StatusSet
<1>4. order.dated BY DEF MarkSent, PurchasingInv, StillTrue
<1>5. Stage(s) >= Stage(order.status) BY <1>3, Stages
<1>6. DesksOK' BY DEF MarkSent, PurchasingInv, DesksOK, Desks
<1>7. /\ order.status # "none" => s # "none"
      /\ Stage(s) >= 2 => order.approver \notin {NoOne, order.creator}
      /\ s = "invoiced" <=> order.status = "invoiced"
  BY Stages DEF PurchasingInv, StillTrue
<1>8. order.status # "none" BY <1>4 DEF PurchasingInv, StillTrue
<1>9. order'.status = s BY <1>1, <1>2
<1> HIDE DEF s
<1>10. PurchasingInv'
  BY <1>1, <1>2, <1>3, <1>4, <1>5, <1>6, <1>7, <1>8, OrderStep DEF MarkSent
<1> QED BY <1>5, <1>9, <1>10

LEMMA ReceiveStep ==
  ASSUME PurchasingInv, NEW p \in People, Receive(p)
  PROVE  PurchasingInv' /\ Stage(order'.status) >= Stage(order.status)
<1> DEFINE total == [l \in Lines |-> Arrived(p, l)]
           s == StatusAfterReceipt(total)
           receipt == [no |-> Cardinality(goodsReceipts) + 1, quantity |-> desk[p].quantity]
<1>1. order \in [status : Statuses, creator : People \cup {NoOne},
                 approver : People \cup {NoOne}, dated : BOOLEAN]
  BY OrderType DEF PurchasingInv
<1>2. desk[p] \in [pc : {"receive"}, seen : [Lines -> Nat], quantity : Deliveries]
  BY DEF Receive, PurchasingInv, DesksOK, Desks, Free
<1>3. total \in [Lines -> Nat] BY <1>2, PurchasingAssumption DEF Arrived
<1>4. receipt \in [no : 1..MaxReceipts, quantity : Deliveries]
  <2>1. Cardinality(goodsReceipts) \in Nat /\ Cardinality(goodsReceipts) < MaxReceipts
    BY FS_CardinalityType DEF PurchasingInv, DesksOK, Receive
  <2> QED BY <1>2, <2>1, PurchasingAssumption
<1>5. /\ received' = total
      /\ goodsReceipts' = goodsReceipts \cup {receipt}
      /\ order' = [order EXCEPT !.status = s]
      /\ desk' = [desk EXCEPT ![p] = Free]
      /\ overlapped' \in BOOLEAN
      /\ UNCHANGED << invoiceMatches, document >>
  BY DEF Receive, PurchasingInv, PurchasingTypeOK
<1>6. /\ s \in Statuses /\ Stage(s) >= Stage(order.status)
      /\ s # order.status => order.status \in Receivable /\ Stage(order.status) >= 3
      /\ s # order.status => Stage(order.status) < 5 /\ s \notin {"none", "invoiced"}
      /\ order.status = "none" \/ order.status = "invoiced" => s = order.status
  BY <1>1, Stages, StatusSet DEF StatusAfterReceipt, Receivable
<1> HIDE DEF total, s, receipt
<1>7. /\ order'.status = s /\ order'.approver = order.approver
      /\ order'.dated = order.dated /\ order'.creator = order.creator
  BY <1>1, <1>5
<1>8. DesksOK'
  BY <1>5, FS_AddElement DEF PurchasingInv, DesksOK, Desks
<1>9. PurchasingTypeOK'
  <2>1. order' \in [status : Statuses, creator : People \cup {NoOne},
                    approver : People \cup {NoOne}, dated : BOOLEAN]
    BY <1>1, <1>5, <1>6
  <2> QED BY <1>3, <1>4, <1>5, <1>8, <2>1
          DEF PurchasingInv, PurchasingTypeOK, Statuses, DesksOK
<1>10. StillTrue'
  <2>1. Stage(s) \in 0..7 /\ Stage(order.status) \in 0..7 BY <1>1, <1>6, StatusSet
  <2>2. \A q \in People : /\ desk'[q].pc = "send" => desk[q].pc = "send"
                          /\ desk'[q].pc = "match" => desk[q].pc = "match"
    BY <1>5 DEF PurchasingInv, DesksOK, Free
  <2> QED BY <1>6, <1>7, <2>1, <2>2 DEF PurchasingInv, StillTrue
<1>11. InvoicedMeansMatched'
  BY <1>5, <1>6, <1>7 DEF PurchasingInv, InvoicedMeansMatched
<1> QED BY <1>6, <1>7, <1>8, <1>9, <1>10, <1>11 DEF PurchasingInv

LEMMA MatchStep ==
  ASSUME PurchasingInv, NEW p \in People, MatchInvoice(p)
  PROVE  PurchasingInv' /\ Stage(order'.status) >= Stage(order.status)
<1> DEFINE outcome == desk[p].status
           s == StatusAfterMatch(outcome)
           m == [document |-> desk[p].document, status |-> outcome]
<1>1. order \in [status : Statuses, creator : People \cup {NoOne},
                 approver : People \cup {NoOne}, dated : BOOLEAN]
  BY OrderType DEF PurchasingInv
<1>2. desk[p] \in [pc : {"match"}, document : Invoices,
                   status : {"matched", "price_mismatch"}]
  BY DEF MatchInvoice, PurchasingInv, DesksOK, Desks, Free
<1>3. /\ invoiceMatches' = invoiceMatches \cup {m}
      /\ order' = [order EXCEPT !.status = s]
      /\ document' = [document EXCEPT ![desk[p].document] =
                          IF outcome = "matched" THEN "approved" ELSE "review_required"]
      /\ desk' = [desk EXCEPT ![p] = Free]
      /\ UNCHANGED << received, goodsReceipts, overlapped >>
  BY DEF MatchInvoice
<1>4. order.status \in Invoiceable \cup {"invoiced"}
  <2>1. Stage(order.status) >= 5 BY <1>2 DEF PurchasingInv, StillTrue
  <2> QED BY <1>1, <2>1, Stages, StatusSet DEF Invoiceable
<1>5. /\ s \in Statuses /\ Stage(s) >= Stage(order.status) /\ Stage(s) >= 5
      /\ s # "none" /\ Stage(order.status) >= 5
      /\ s = "invoiced" <=> order.status = "invoiced" \/ outcome = "matched"
  BY <1>2, <1>4, Stages, StatusSet DEF StatusAfterMatch, Invoiceable
<1>6. m \in [document : Invoices, status : {"matched", "price_mismatch"}]
      /\ m.status = outcome
  BY <1>2
<1> HIDE DEF s, m, outcome
<1>7. /\ order'.status = s /\ order'.approver = order.approver
      /\ order'.dated = order.dated /\ order'.creator = order.creator
  BY <1>1, <1>3
<1>8. DesksOK' BY <1>3 DEF PurchasingInv, DesksOK, Desks
<1>9. PurchasingTypeOK'
  <2>1. order' \in [status : Statuses, creator : People \cup {NoOne},
                    approver : People \cup {NoOne}, dated : BOOLEAN]
    BY <1>1, <1>3, <1>5
  <2> QED BY <1>3, <1>6, <1>8, <2>1
          DEF PurchasingInv, PurchasingTypeOK, Statuses, DesksOK
<1>10. StillTrue'
  <2>1. Stage(s) \in 0..7 /\ Stage(order.status) \in 0..7 BY <1>1, <1>5, StatusSet
  <2>2. \A q \in People : /\ desk'[q].pc = "send" => desk[q].pc = "send"
                          /\ desk'[q].pc = "match" => desk[q].pc = "match"
    BY <1>3 DEF PurchasingInv, DesksOK, Free
  <2> QED BY <1>5, <1>7, <2>1, <2>2 DEF PurchasingInv, StillTrue
<1>11. InvoicedMeansMatched'
  BY <1>3, <1>5, <1>6, <1>7 DEF PurchasingInv, InvoicedMeansMatched
<1> QED BY <1>5, <1>7, <1>8, <1>9, <1>10, <1>11 DEF PurchasingInv

LEMMA PurchasingStep ==
  ASSUME PurchasingInv, PurchasingNext
  PROVE  PurchasingInv' /\ Stage(order'.status) >= Stage(order.status)
<1>0. PICK p \in People :
        \/ \E submit, dated \in BOOLEAN : Create(p, submit, dated)
        \/ Approve(p)
        \/ SetCommitmentDate(p)
        \/ ReadForSending(p) \/ MarkSent(p)
        \/ \E quantity \in Deliveries : ReadForReceiving(p, quantity)
        \/ Receive(p)
        \/ \E d \in Invoices, equal \in BOOLEAN : ReadForMatching(p, d, equal)
        \/ MatchInvoice(p)
  BY DEF PurchasingNext
<1>s. Stage(order.status) \in 0..7 BY OrderType, StatusSet DEF PurchasingInv
<1>1. CASE ReadForSending(p)
  <2> DEFINE h == [pc |-> "send"]
  <2>1. h \in Desks /\ h.pc = "send" BY DEF Desks
  <2>2. /\ order.dated /\ desk' = [desk EXCEPT ![p] = h]
        /\ UNCHANGED << order, received, goodsReceipts, invoiceMatches, document, overlapped >>
    BY <1>1 DEF ReadForSending
  <2> HIDE DEF h
  <2>3. PurchasingInv' BY <2>1, <2>2, ReadStep
  <2> QED BY <1>s, <2>2, <2>3
<1>2. ASSUME NEW quantity \in Deliveries, ReadForReceiving(p, quantity)
      PROVE  PurchasingInv' /\ Stage(order'.status) >= Stage(order.status)
  <2> DEFINE h == [pc |-> "receive", seen |-> received, quantity |-> quantity]
  <2>1. h \in Desks /\ h.pc = "receive" BY DEF Desks, PurchasingInv, PurchasingTypeOK
  <2>2. /\ desk' = [desk EXCEPT ![p] = h]
        /\ UNCHANGED << order, received, goodsReceipts, invoiceMatches, document, overlapped >>
    BY <1>2 DEF ReadForReceiving
  <2> HIDE DEF h
  <2>3. PurchasingInv' BY <2>1, <2>2, ReadStep
  <2> QED BY <1>s, <2>2, <2>3
<1>3. ASSUME NEW d \in Invoices, NEW equal \in BOOLEAN, ReadForMatching(p, d, equal)
      PROVE  PurchasingInv' /\ Stage(order'.status) >= Stage(order.status)
  <2> DEFINE h == [pc |-> "match", document |-> d,
                   status |-> IF equal THEN "matched" ELSE "price_mismatch"]
  <2>1. h \in Desks BY DEF Desks
  <2>2. Stage(order.status) >= 5 BY <1>3, Stages DEF ReadForMatching, Invoiceable
  <2>3. h.pc = "match" /\ desk' = [desk EXCEPT ![p] = h]
        /\ UNCHANGED << order, received, goodsReceipts, invoiceMatches, document, overlapped >>
    BY <1>3 DEF ReadForMatching
  <2> HIDE DEF h
  <2>4. PurchasingInv' BY <2>1, <2>2, <2>3, ReadStep
  <2> QED BY <1>s, <2>3, <2>4
<1> QED BY <1>0, <1>1, <1>2, <1>3, CreateStep, ApproveStep, DateStep, SendStep,
           ReceiveStep, MatchStep

LEMMA PurchasingInvariant == PurchasingSpec => []PurchasingInv
<1>1. PurchasingInv /\ UNCHANGED purchasingVars => PurchasingInv'
  BY DEF purchasingVars, PurchasingInv, PurchasingTypeOK, DesksOK, StillTrue,
         InvoicedMeansMatched
<1>2. PurchasingInv /\ [PurchasingNext]_purchasingVars => PurchasingInv'
  BY <1>1, PurchasingStep
<1> QED BY PurchasingInitInv, <1>2, PTL DEF PurchasingSpec

\* Goods are on order only with a second person's approval and a recorded date,
\* and an order is invoiced exactly when an equal invoice was matched.
THEOREM OrdersStandForWork ==
  PurchasingSpec => [](PurchasingTypeOK /\ SentIsApprovedAndDated /\ InvoicedMeansMatched)
<1>1. PurchasingInv => PurchasingTypeOK /\ SentIsApprovedAndDated /\ InvoicedMeansMatched
  <2> SUFFICES ASSUME PurchasingInv PROVE SentIsApprovedAndDated BY DEF PurchasingInv
  <2>1. Stage(order.status) \in 0..7 BY OrderType, StatusSet DEF PurchasingInv
  <2> QED BY <2>1 DEF PurchasingInv, StillTrue, SentIsApprovedAndDated
<1> QED BY <1>1, PurchasingInvariant, PTL

(* Receipts.                                                               *)

\* What the receipts in S bring of line l, as Backed adds it up.
Brought(l, S) == MapThenSumSet(LAMBDA x : x.quantity[l], S)

LEMMA BroughtIsSum ==
  ASSUME NEW l, NEW S, IsFiniteSet(S), NEW v, \A x \in S : v[x] = x.quantity[l]
  PROVE  Brought(l, S) = SumOf(v, S)
<1> DEFINE Rows(g) == g = [s \in SUBSET S |->
                             IF s = {} THEN 0 ELSE One(s).quantity[l] + g[s \ {One(s)}]]
           G == CHOOSE g : Rows(g)
           H == CHOOSE g : Table(g, v, S)
<1>1. Brought(l, S) = G[S] BY DEF Brought, MapThenSumSet, MapThenFoldSet, One
<1>2. SumOf(v, S) = H[S] BY SumIsTable
<1>3. \A s \in SUBSET S : s # {} => v[One(s)] = One(s).quantity[l] BY OneIsIn
<1>4. ASSUME NEW g PROVE Rows(g) <=> Table(g, v, S)
  BY <1>3 DEF Table
<1>5. \E g : Table(g, v, S) BY TableExists
<1> HIDE DEF Rows
<1>6. Table(H, v, S) BY <1>5
<1>7. Rows(G)
  <2>1. \E g : Rows(g) BY <1>4, <1>5
  <2> QED BY <2>1
<1>8. Table(G, v, S) BY <1>4, <1>7
<1> HIDE DEF G, H
<1>9. \A s \in SUBSET S : s \subseteq S => G[s] = H[s] BY <1>6, <1>8, TablesAgree
<1> QED BY <1>1, <1>2, <1>9

\* A receipt more adds what it brings.
LEMMA BroughtByOneMore ==
  ASSUME NEW l, NEW T, IsFiniteSet(T), NEW x, x \notin T,
         \A y \in T \cup {x} : y.quantity[l] \in Nat
  PROVE  /\ Brought(l, T) \in Nat
         /\ Brought(l, T \cup {x}) = x.quantity[l] + Brought(l, T)
<1> DEFINE v == [y \in T \cup {x} |-> y.quantity[l]]
<1>1. \A y \in T \cup {x} : v[y] = y.quantity[l] OBVIOUS
<1> HIDE DEF v
<1>2. IsFiniteSet(T \cup {x}) BY FS_AddElement
<1>3. Brought(l, T) = SumOf(v, T) BY <1>1, BroughtIsSum
<1>4. Brought(l, T \cup {x}) = SumOf(v, T \cup {x}) BY <1>1, <1>2, BroughtIsSum
<1>5. \A y \in T \cup {x} : v[y] \in Nat BY <1>1
<1>6. SumOf(v, T) \in Nat /\ SumOf(v, T \cup {x}) = v[x] + SumOf(v, T)
  BY <1>5, SumByOneMore
<1> QED BY <1>1, <1>3, <1>4, <1>6

\* What is stored, and what anybody at a desk has seen of it, is backed by receipts.
ReceiptsHold ==
    /\ \A r \in goodsReceipts : r.no <= Cardinality(goodsReceipts)
    /\ \A l \in Lines :
          /\ received[l] <= Brought(l, goodsReceipts)
          /\ ~overlapped => received[l] = Brought(l, goodsReceipts)
          /\ \A p \in People :
                desk[p].pc = "receive" => desk[p].seen[l] <= Brought(l, goodsReceipts)

LEMMA ReceiptsType ==
  ASSUME PurchasingInv
  PROVE  /\ IsFiniteSet(goodsReceipts) /\ Cardinality(goodsReceipts) \in Nat
         /\ \A r \in goodsReceipts : r.no \in Nat /\ \A l \in Lines : r.quantity[l] \in Nat
<1>1. IsFiniteSet(goodsReceipts) BY DEF PurchasingInv, DesksOK
<1>2. goodsReceipts \subseteq [no : 1..MaxReceipts, quantity : [Lines -> Nat]]
  BY PurchasingAssumption DEF PurchasingInv, PurchasingTypeOK
<1> QED BY <1>1, <1>2, FS_CardinalityType

LEMMA ReceiptsAtFirst == ASSUME PurchasingInit PROVE ReceiptsHold
<1>1. goodsReceipts = {} /\ \A l \in Lines : received[l] = 0 BY DEF PurchasingInit
<1>2. \A p \in People : desk[p].pc # "receive" BY DEF PurchasingInit, Free
<1>3. ASSUME NEW l \in Lines PROVE Brought(l, goodsReceipts) = 0
  <2> DEFINE v == [x \in {} |-> 0]
  <2>1. IsFiniteSet(goodsReceipts) BY <1>1, FS_EmptySet
  <2>2. Brought(l, goodsReceipts) = SumOf(v, goodsReceipts) BY <1>1, <2>1, BroughtIsSum
  <2>3. SumOf(v, goodsReceipts) = 0 BY <1>1, <2>1, SumByOne
  <2> QED BY <2>2, <2>3
<1> QED BY <1>1, <1>2, <1>3 DEF ReceiptsHold

\* No receipt is written, and nobody reads: what is backed stays backed.
LEMMA ReceiptsUntouched ==
  ASSUME PurchasingInv, ReceiptsHold, UNCHANGED << received, goodsReceipts, overlapped >>,
         \A p \in People : desk'[p].pc = "receive" => desk'[p] = desk[p]
  PROVE  ReceiptsHold'
BY DEF ReceiptsHold

LEMMA ReceiptsRead ==
  ASSUME PurchasingInv, ReceiptsHold, NEW p \in People, NEW quantity \in Deliveries,
         ReadForReceiving(p, quantity)
  PROVE  ReceiptsHold'
<1>1. /\ desk' = [desk EXCEPT ![p] = [pc |-> "receive", seen |-> received,
                                      quantity |-> quantity]]
      /\ UNCHANGED << received, goodsReceipts, overlapped >>
  BY DEF ReadForReceiving
<1>2. \A q \in People : desk'[q] = desk[q] \/ desk'[q].seen = received
  BY <1>1 DEF PurchasingInv, DesksOK
<1> QED BY <1>1, <1>2 DEF ReceiptsHold

LEMMA ReceiptsWritten ==
  ASSUME PurchasingInv, ReceiptsHold, NEW p \in People, Receive(p)
  PROVE  ReceiptsHold'
<1> DEFINE x == [no |-> Cardinality(goodsReceipts) + 1, quantity |-> desk[p].quantity]
<1>1. /\ desk[p].pc = "receive"
      /\ received' = [l \in Lines |-> Arrived(p, l)]
      /\ goodsReceipts' = goodsReceipts \cup {x}
      /\ desk' = [desk EXCEPT ![p] = Free]
      /\ overlapped' = (overlapped \/ desk[p].seen # received)
  BY DEF Receive
<1>2. desk[p] \in [pc : {"receive"}, seen : [Lines -> Nat], quantity : Deliveries]
  BY <1>1 DEF PurchasingInv, DesksOK, Desks, Free
<1>3. /\ \A l \in Lines : x.quantity[l] \in Nat /\ x.quantity[l] = desk[p].quantity[l]
      /\ x.no = Cardinality(goodsReceipts) + 1
  BY <1>2, PurchasingAssumption
<1> HIDE DEF x
<1>4. x \notin goodsReceipts BY <1>3, ReceiptsType DEF ReceiptsHold
<1>5. Cardinality(goodsReceipts') = Cardinality(goodsReceipts) + 1
  BY <1>1, <1>4, ReceiptsType, FS_AddElement
<1>6. \A r \in goodsReceipts' : r.no <= Cardinality(goodsReceipts')
  BY <1>1, <1>3, <1>5, ReceiptsType DEF ReceiptsHold
<1>7. ASSUME NEW l \in Lines
      PROVE  /\ Brought(l, goodsReceipts) \in Nat
             /\ Brought(l, goodsReceipts') = x.quantity[l] + Brought(l, goodsReceipts)
  <2>1. \A y \in goodsReceipts \cup {x} : y.quantity[l] \in Nat BY <1>3, ReceiptsType
  <2>2. IsFiniteSet(goodsReceipts) BY ReceiptsType
  <2> QED BY <1>1, <1>4, <2>1, <2>2, BroughtByOneMore
<1>8. ASSUME NEW l \in Lines
      PROVE  /\ received'[l] <= Brought(l, goodsReceipts')
             /\ ~overlapped' => received'[l] = Brought(l, goodsReceipts')
  <2>1. received'[l] = desk[p].seen[l] + x.quantity[l] BY <1>1, <1>3 DEF Arrived
  <2>2. desk[p].seen[l] <= Brought(l, goodsReceipts) BY <1>1 DEF ReceiptsHold
  <2>3. desk[p].seen[l] \in Nat /\ x.quantity[l] \in Nat BY <1>2, <1>3
  <2>4. ~overlapped' => desk[p].seen[l] = Brought(l, goodsReceipts)
    BY <1>1 DEF ReceiptsHold
  <2> QED BY <1>7, <2>1, <2>2, <2>3, <2>4
<1>9. ASSUME NEW l \in Lines, NEW q \in People, desk'[q].pc = "receive"
      PROVE  desk'[q].seen[l] <= Brought(l, goodsReceipts')
  <2>1. desk'[q] = desk[q] /\ desk[q].pc = "receive"
    BY <1>1, <1>9 DEF PurchasingInv, DesksOK, Free
  <2>2. desk[q] \in [pc : {"receive"}, seen : [Lines -> Nat], quantity : Deliveries]
    BY <2>1 DEF PurchasingInv, DesksOK, Desks, Free
  <2>3. desk[q].seen[l] <= Brought(l, goodsReceipts) BY <2>1 DEF ReceiptsHold
  <2>4. desk[q].seen[l] \in Nat /\ x.quantity[l] \in Nat BY <1>3, <2>2
  <2> QED BY <1>7, <2>1, <2>3, <2>4
<1> QED BY <1>6, <1>8, <1>9 DEF ReceiptsHold

LEMMA ReceiptsStep ==
  ASSUME PurchasingInv, ReceiptsHold, [PurchasingNext]_purchasingVars
  PROVE  ReceiptsHold'
<1> DEFINE Kept == /\ UNCHANGED << received, goodsReceipts, overlapped >>
                   /\ \A q \in People : desk'[q].pc = "receive" => desk'[q] = desk[q]
<1>1. Kept => ReceiptsHold' BY ReceiptsUntouched
<1>2. ASSUME NEW p \in People, NEW h, h.pc # "receive", desk' = [desk EXCEPT ![p] = h]
      PROVE  \A q \in People : desk'[q].pc = "receive" => desk'[q] = desk[q]
  BY <1>2 DEF PurchasingInv, DesksOK
<1>3. CASE UNCHANGED purchasingVars BY <1>1, <1>3 DEF purchasingVars
<1>4. CASE PurchasingNext
  <2>1. PICK p \in People :
          \/ \E submit, dated \in BOOLEAN : Create(p, submit, dated)
          \/ Approve(p)
          \/ SetCommitmentDate(p)
          \/ ReadForSending(p) \/ MarkSent(p)
          \/ \E quantity \in Deliveries : ReadForReceiving(p, quantity)
          \/ Receive(p)
          \/ \E d \in Invoices, equal \in BOOLEAN : ReadForMatching(p, d, equal)
          \/ MatchInvoice(p)
    BY <1>4 DEF PurchasingNext
  <2>2. ASSUME NEW submit \in BOOLEAN, NEW dated \in BOOLEAN, Create(p, submit, dated)
        PROVE  ReceiptsHold'
    BY <1>1, <2>2 DEF Create
  <2>3. CASE Approve(p) BY <1>1, <2>3 DEF Approve
  <2>4. CASE SetCommitmentDate(p) BY <1>1, <2>4 DEF SetCommitmentDate
  <2>5. CASE ReadForSending(p)
    <3>1. [pc |-> "send"].pc # "receive" OBVIOUS
    <3> QED BY <1>1, <1>2, <2>5, <3>1 DEF ReadForSending
  <2>6. Free.pc # "receive" BY DEF Free
  <2>7. CASE MarkSent(p) BY <1>1, <1>2, <2>6, <2>7 DEF MarkSent
  <2>8. ASSUME NEW quantity \in Deliveries, ReadForReceiving(p, quantity) PROVE ReceiptsHold'
    BY <2>8, ReceiptsRead
  <2>9. CASE Receive(p) BY <2>9, ReceiptsWritten
  <2>10. ASSUME NEW d \in Invoices, NEW equal \in BOOLEAN, ReadForMatching(p, d, equal)
         PROVE  ReceiptsHold'
    <3> DEFINE h == [pc |-> "match", document |-> d,
                     status |-> IF equal THEN "matched" ELSE "price_mismatch"]
    <3>1. h.pc # "receive" OBVIOUS
    <3>2. /\ desk' = [desk EXCEPT ![p] = h]
          /\ UNCHANGED << received, goodsReceipts, overlapped >>
      BY <2>10 DEF ReadForMatching
    <3> HIDE DEF h
    <3> QED BY <1>1, <1>2, <3>1, <3>2
  <2>11. CASE MatchInvoice(p) BY <1>1, <1>2, <2>6, <2>11 DEF MatchInvoice
  <2> QED BY <2>1, <2>2, <2>3, <2>4, <2>5, <2>7, <2>8, <2>9, <2>10, <2>11
<1> QED BY <1>3, <1>4

(* Invoice documents.                                                      *)

LEMMA DocumentsMatched ==
  ASSUME PurchasingInv, DocumentsFollow, NEW p \in People, MatchInvoice(p)
  PROVE  DocumentsFollow'
<1> DEFINE m == [document |-> desk[p].document, status |-> desk[p].status]
<1>1. desk[p] \in [pc : {"match"}, document : Invoices,
                   status : {"matched", "price_mismatch"}]
  BY DEF MatchInvoice, PurchasingInv, DesksOK, Desks, Free
<1>2. /\ invoiceMatches' = invoiceMatches \cup {m}
      /\ document' = [document EXCEPT ![m.document] =
                          IF m.status = "matched" THEN "approved" ELSE "review_required"]
  BY DEF MatchInvoice
<1>3. m.document \in Invoices /\ m.status \in {"matched", "price_mismatch"} BY <1>1
<1> HIDE DEF m
<1>4. document \in [Invoices -> {"uploaded", "review_required", "approved"}]
  BY DEF PurchasingInv, PurchasingTypeOK
<1> SUFFICES ASSUME NEW d \in Invoices
             PROVE  /\ document'[d] = "uploaded" => Outcomes(d)' = {}
                    /\ document'[d] = "approved" => "matched" \in Outcomes(d)'
                    /\ document'[d] = "review_required" => "price_mismatch" \in Outcomes(d)'
  BY DEF DocumentsFollow
<1>5. CASE d = m.document
  <2>1. m.status \in Outcomes(d)' BY <1>2, <1>5 DEF Outcomes
  <2>2. document'[d] = IF m.status = "matched" THEN "approved" ELSE "review_required"
    BY <1>2, <1>4, <1>5
  <2> QED BY <1>3, <2>1, <2>2
<1>6. CASE d # m.document
  <2>1. Outcomes(d)' = Outcomes(d) BY <1>2, <1>6 DEF Outcomes
  <2>2. document'[d] = document[d] BY <1>2, <1>4, <1>6
  <2> QED BY <2>1, <2>2 DEF DocumentsFollow
<1> QED BY <1>5, <1>6

LEMMA DocumentsStep ==
  ASSUME PurchasingInv, DocumentsFollow, [PurchasingNext]_purchasingVars
  PROVE  DocumentsFollow'
<1>1. UNCHANGED << invoiceMatches, document >> => DocumentsFollow'
  BY DEF DocumentsFollow, Outcomes
<1>2. CASE UNCHANGED purchasingVars BY <1>1, <1>2 DEF purchasingVars
<1>3. CASE PurchasingNext
  <2>1. (\E p \in People : MatchInvoice(p)) \/ UNCHANGED << invoiceMatches, document >>
    BY <1>3 DEF PurchasingNext, Create, Approve, SetCommitmentDate, ReadForSending,
                MarkSent, ReadForReceiving, Receive, ReadForMatching
  <2> QED BY <1>1, <2>1, DocumentsMatched
<1> QED BY <1>2, <1>3

\* Every status of an order, and of the invoice documents matched to it, stands for
\* what people did, and what its lines say has arrived is backed by goods receipts:
\* never more than their sum, and exactly their sum until two receipts cross, for any
\* number of people, lines, deliveries and requests in flight (purchasing/route.ts).
THEOREM OrdersSound == PurchasingSpec => []OrdersAreSound
<1>1. PurchasingInv /\ ReceiptsHold /\ [PurchasingNext]_purchasingVars => ReceiptsHold'
  BY ReceiptsStep
<1>2. PurchasingInv /\ DocumentsFollow /\ [PurchasingNext]_purchasingVars => DocumentsFollow'
  BY DocumentsStep
<1>3. PurchasingSpec => []ReceiptsHold
  BY ReceiptsAtFirst, <1>1, PurchasingInvariant, PTL DEF PurchasingSpec
<1>4. PurchasingInit => DocumentsFollow
  BY DEF PurchasingInit, DocumentsFollow, Outcomes
<1>5. PurchasingSpec => []DocumentsFollow
  BY <1>2, <1>4, PurchasingInvariant, PTL DEF PurchasingSpec
<1>6. ReceiptsHold => Backed BY DEF ReceiptsHold, Backed, Brought
<1>7. PurchasingTypeOK /\ SentIsApprovedAndDated /\ InvoicedMeansMatched /\ Backed
        /\ DocumentsFollow => OrdersAreSound
  BY DEF OrdersAreSound
<1> QED BY <1>3, <1>5, <1>6, <1>7, OrdersStandForWork, PTL

\* Whoever acts on an order, and however stale what they saw of it, it never
\* goes back to an earlier stage.
THEOREM OrdersGoForward == PurchasingSpec => OrderNeverGoesBack
<1>1. PurchasingInv /\ [PurchasingNext]_purchasingVars
        => [Stage(order'.status) >= Stage(order.status)]_order
  BY PurchasingStep DEF purchasingVars
<1> QED BY <1>1, PurchasingInvariant, PTL DEF PurchasingSpec, OrderNeverGoesBack

-----------------------------------------------------------------------------
(* Journals and periods.                                                   *)

Tasks ==
    {Ready} \cup [pc : {"post"}, key : Keys, period : Periods]
            \cup [pc : {"original"}, key : Keys, original : Keys]
            \cup [pc : {"reverse"}, key : Keys, period : Periods, original : Keys]
            \cup [pc : {"lock"}, period : Periods]
            \cup [pc : {"category"}, request : Categories]

\* The original of a reversal under way was posted, and nothing unposts it.
TasksOK ==
    /\ task \in [Writers -> Tasks]
    /\ \A w \in Writers : task[w].pc \in {"original", "reverse"} => Posted(task[w].original)

\* A journal is posted before it is reversed, by one other journal.
OneReversal ==
    /\ \A r \in Keys : Posted(r) /\ journal[r].reverses # Nothing =>
          Posted(journal[r].reverses)
    /\ \A k \in Keys : Posted(k) /\ journal[k].status = "posted" => Reversals(k) = {}
    /\ \A k \in Keys : Posted(k) /\ journal[k].status = "reversed" =>
          \E r \in Keys \ {k} : Reversals(k) = {r}

\* No two requests for categories share a code.
DistinctCodes ==
    \A c, d \in Categories : account[c] = account[d] /\ account[c] # Nothing => c = d

LedgerInv == LedgerTypeOK /\ TasksOK /\ OneReversal /\ DistinctCodes

\* An entry is not the absence of one, and what it says can be read.
LEMMA Entries ==
  ASSUME NEW e \in Entry
  PROVE  /\ e # NoEntry /\ e.period \in Periods
         /\ e.status \in {"posted", "reversed"} /\ e.reverses \in Keys \cup {Nothing}
BY DEF Entry, NoEntry

LEMMA PostedEntry ==
  ASSUME LedgerTypeOK, NEW k \in Keys
  PROVE  Posted(k) <=> journal[k] \in Entry
BY Entries DEF LedgerTypeOK, Posted

LEMMA LedgerInitInv == LedgerInit => LedgerInv
<1> SUFFICES ASSUME LedgerInit PROVE LedgerInv OBVIOUS
<1>1. LedgerTypeOK BY LedgerAssumption DEF LedgerInit, LedgerTypeOK
<1>2. TasksOK BY DEF LedgerInit, TasksOK, Tasks, Ready
<1>3. OneReversal BY DEF LedgerInit, OneReversal, Posted
<1>4. DistinctCodes BY DEF LedgerInit, DistinctCodes
<1> QED BY <1>1, <1>2, <1>3, <1>4 DEF LedgerInv

\* A writer takes a turn and the journals stay as they are.
LEMMA TurnStep ==
  ASSUME LedgerInv, NEW w \in Writers, NEW t \in Tasks, Turn(w, t),
         t.pc \in {"original", "reverse"} => Posted(t.original),
         journal' = journal
  PROVE  TasksOK' /\ OneReversal' /\ DOMAIN task' = Writers
<1>1. TasksOK' /\ DOMAIN task' = Writers BY DEF LedgerInv, TasksOK, Turn, Posted
<1>2. OneReversal' BY DEF LedgerInv, OneReversal, Posted, Reversals
<1> QED BY <1>1, <1>2

LEMMA ReadSteps ==
  ASSUME LedgerInv, NEW w \in Writers,
         \/ \E k \in Keys, p \in Periods : ReadForPosting(w, k, p)
         \/ \E k, original \in Keys : ReadOriginal(w, k, original)
         \/ \E p \in Periods : ReadForReversing(w, p)
         \/ \E c \in Categories : ReadForCategory(w, c)
  PROVE  LedgerInv' /\ journal' = journal /\ account' = account
<1>1. /\ UNCHANGED << journal, period, item, account, locks, reopens >>
      /\ \E t \in Tasks : /\ Turn(w, t)
                          /\ t.pc \in {"original", "reverse"} => Posted(t.original)
  <2>1. ASSUME NEW k \in Keys, NEW p \in Periods, ReadForPosting(w, k, p)
        PROVE  <1>1!2
    <3> DEFINE t == [pc |-> "post", key |-> k, period |-> p]
    <3>1. t \in Tasks /\ t.pc = "post" /\ Turn(w, t) BY <2>1 DEF ReadForPosting, Tasks
    <3> HIDE DEF t
    <3> QED BY <3>1
  <2>2. ASSUME NEW k \in Keys, NEW original \in Keys, ReadOriginal(w, k, original)
        PROVE  <1>1!2
    <3> DEFINE t == [pc |-> "original", key |-> k, original |-> original]
    <3>1. t \in Tasks /\ Posted(t.original) /\ Turn(w, t) BY <2>2 DEF ReadOriginal, Tasks
    <3> HIDE DEF t
    <3> QED BY <3>1
  <2>3. ASSUME NEW p \in Periods, ReadForReversing(w, p) PROVE <1>1!2
    <3>1. task[w].pc = "original" /\ task[w] \in Tasks /\ Posted(task[w].original)
      BY <2>3 DEF ReadForReversing, LedgerInv, TasksOK
    <3> DEFINE t == [pc |-> "reverse", key |-> task[w].key, period |-> p,
                     original |-> task[w].original]
    <3>2. t \in Tasks /\ Posted(t.original) BY <3>1 DEF Tasks, Ready
    <3>3. Turn(w, t) \/ Turn(w, Ready) BY <2>3 DEF ReadForReversing
    <3> HIDE DEF t
    <3>4. Ready \in Tasks /\ Ready.pc = "ready" BY DEF Tasks, Ready
    <3> QED BY <3>2, <3>3, <3>4
  <2>4. ASSUME NEW c \in Categories, ReadForCategory(w, c) PROVE <1>1!2
    <3> DEFINE t == [pc |-> "category", request |-> c]
    <3>1. t \in Tasks /\ t.pc = "category" /\ Turn(w, t) BY <2>4 DEF ReadForCategory, Tasks
    <3> HIDE DEF t
    <3> QED BY <3>1
  <2>5. UNCHANGED << journal, period, item, account, locks, reopens >>
    BY DEF ReadForPosting, ReadOriginal, ReadForReversing, ReadForCategory
  <2> QED BY <2>1, <2>2, <2>3, <2>4, <2>5
<1>2. TasksOK' /\ OneReversal' /\ DOMAIN task' = Writers BY <1>1, TurnStep
<1> QED BY <1>1, <1>2 DEF LedgerInv, LedgerTypeOK, DistinctCodes

LEMMA ReadyTask == Ready \in Tasks /\ Ready.pc = "ready"
BY DEF Tasks, Ready

LEMMA PeriodSteps ==
  ASSUME LedgerInv, NEW w \in Writers,
         LockPeriod(w) \/ \E p \in Periods : ReadForLocking(w, p)
  PROVE  LedgerInv' /\ journal' = journal /\ account' = account
<1>1. CASE LockPeriod(w)
  <2>1. task[w] \in [pc : {"lock"}, period : Periods]
    BY <1>1 DEF LockPeriod, LedgerInv, TasksOK, Tasks, Ready
  <2>2. TasksOK' /\ OneReversal' /\ DOMAIN task' = Writers
    BY <1>1, ReadyTask, TurnStep DEF LockPeriod
  <2> QED BY <1>1, <2>1, <2>2 DEF LockPeriod, LedgerInv, LedgerTypeOK, DistinctCodes
<1>2. ASSUME NEW p \in Periods, ReadForLocking(w, p)
      PROVE  LedgerInv' /\ journal' = journal /\ account' = account
  <2> DEFINE t == [pc |-> "lock", period |-> p]
  <2>1. t \in Tasks /\ t.pc = "lock" /\ Turn(w, t) BY <1>2 DEF ReadForLocking, Tasks
  <2> HIDE DEF t
  <2>2. TasksOK' /\ OneReversal' /\ DOMAIN task' = Writers
    BY <1>2, <2>1, TurnStep DEF ReadForLocking
  <2>3. locks' \in 0..MaxLocks
    BY <1>2, LedgerAssumption DEF ReadForLocking, LedgerInv, LedgerTypeOK
  <2> QED BY <1>2, <2>2, <2>3 DEF ReadForLocking, LedgerInv, LedgerTypeOK, DistinctCodes
<1> QED BY <1>1, <1>2

LEMMA ClosingSteps ==
  ASSUME LedgerInv,
         \/ \E i \in Items, done \in BOOLEAN : SetItem(i, done)
         \/ \E p \in Periods : UnlockPeriod(p)
  PROVE  LedgerInv' /\ journal' = journal /\ account' = account
<1>1. journal' = journal /\ account' = account /\ task' = task
  BY DEF SetItem, UnlockPeriod
<1>2. LedgerTypeOK'
  BY LedgerAssumption DEF SetItem, UnlockPeriod, LedgerInv, LedgerTypeOK
<1> QED BY <1>1, <1>2
        DEF LedgerInv, TasksOK, OneReversal, DistinctCodes, Posted, Reversals

\* A new journal under a free key, which reverses nothing.
LEMMA PostStep ==
  ASSUME LedgerInv, NEW w \in Writers, PostJournal(w)
  PROVE  /\ LedgerInv' /\ account' = account
         /\ \/ journal' = journal
            \/ \E k \in Keys, p \in Periods :
                  /\ ~Posted(k) /\ period[p] \in Open
                  /\ journal' = [journal EXCEPT ![k] =
                        [status |-> "posted", period |-> p, reverses |-> Nothing]]
<1> DEFINE k == task[w].key  p == task[w].period
           e == [status |-> "posted", period |-> p, reverses |-> Nothing]
<1>1. k \in Keys /\ p \in Periods
  BY DEF PostJournal, LedgerInv, TasksOK, Tasks, Ready
<1>2. e \in Entry BY <1>1 DEF Entry
<1>3. CASE ~(KeyFree(k) /\ PeriodAvailable(p))
  <2>1. journal' = journal /\ Turn(w, Ready)
        /\ UNCHANGED << period, item, account, locks, reopens >>
    BY <1>3 DEF PostJournal
  <2>2. TasksOK' /\ OneReversal' /\ DOMAIN task' = Writers BY <2>1, ReadyTask, TurnStep
  <2> QED BY <2>1, <2>2 DEF LedgerInv, LedgerTypeOK, DistinctCodes
<1>4. CASE KeyFree(k) /\ PeriodAvailable(p)
  <2>1. /\ journal' = [journal EXCEPT ![k] = e]
        /\ task' = [task EXCEPT ![w] = Ready]
        /\ UNCHANGED << period, item, account, locks, reopens >>
        /\ ~Posted(k) /\ period[p] \in Open
    BY <1>4 DEF PostJournal, KeyFree, PeriodAvailable, Turn
  <2>2. e.status = "posted" /\ e.reverses = Nothing OBVIOUS
  <2>e. journal' = [journal EXCEPT ![k] =
                       [status |-> "posted", period |-> p, reverses |-> Nothing]]
    BY <2>1
  <2> HIDE DEF e, k, p
  <2>3. LedgerTypeOK'
    BY <1>1, <1>2, <2>1 DEF LedgerInv, LedgerTypeOK, TasksOK
  <2>4. \A q \in Keys : Posted(q)' <=> Posted(q) \/ q = k
    BY <1>1, <1>2, <2>1, Entries DEF Posted, LedgerInv, LedgerTypeOK
  <2>5. \A q \in Keys : q # k => journal'[q] = journal[q]
    BY <2>1 DEF LedgerInv, LedgerTypeOK
  <2>6. journal'[k] = e BY <1>1, <2>1 DEF LedgerInv, LedgerTypeOK
  <2>7. TasksOK'
    BY <1>1, <2>1, <2>4, ReadyTask DEF LedgerInv, TasksOK, Tasks
  <2>8. \A q \in Keys : Reversals(q)' = Reversals(q)
    BY <1>1, <2>1, <2>2, <2>4, <2>5, <2>6, LedgerAssumption DEF Reversals
  <2>9. Reversals(k) = {}
    BY <2>1, <1>1, LedgerAssumption DEF Reversals, LedgerInv, OneReversal
  <2>10. OneReversal'
    BY <1>1, <2>2, <2>4, <2>5, <2>6, <2>8, <2>9, PostedEntry, Entries
    DEF LedgerInv, OneReversal
  <2> QED BY <1>1, <2>1, <2>e, <2>3, <2>7, <2>10 DEF LedgerInv, DistinctCodes
<1> QED BY <1>3, <1>4

\* A new journal under a free key, which reverses one that nothing reverses.
LEMMA ReverseStep ==
  ASSUME LedgerInv, NEW w \in Writers, ReverseJournal(w)
  PROVE  /\ LedgerInv' /\ account' = account
         /\ \/ journal' = journal
            \/ \E k, o \in Keys, p \in Periods :
                  /\ ~Posted(k) /\ Posted(o) /\ period[p] \in Open
                  /\ journal' = [q \in Keys |->
                       IF q = k THEN [status |-> "posted", period |-> p, reverses |-> o]
                       ELSE IF q = o THEN [journal[q] EXCEPT !.status = "reversed"]
                       ELSE journal[q]]
<1> DEFINE k == task[w].key  p == task[w].period  o == task[w].original
           e == [status |-> "posted", period |-> p, reverses |-> o]
           f == [journal[o] EXCEPT !.status = "reversed"]
<1>1. k \in Keys /\ p \in Periods /\ o \in Keys /\ Posted(o)
  BY DEF ReverseJournal, LedgerInv, TasksOK, Tasks, Ready
<1>2. e \in Entry BY <1>1 DEF Entry
<1>3. f \in Entry /\ f.status = "reversed" /\ f.reverses = journal[o].reverses
  BY <1>1, PostedEntry DEF Entry, LedgerInv
<1>4. CASE ~(KeyFree(k) /\ ReversalFree(o) /\ PeriodAvailable(p))
  <2>1. journal' = journal /\ Turn(w, Ready)
        /\ UNCHANGED << period, item, account, locks, reopens >>
    BY <1>4 DEF ReverseJournal
  <2>2. TasksOK' /\ OneReversal' /\ DOMAIN task' = Writers BY <2>1, ReadyTask, TurnStep
  <2> QED BY <2>1, <2>2 DEF LedgerInv, LedgerTypeOK, DistinctCodes
<1>5. CASE KeyFree(k) /\ ReversalFree(o) /\ PeriodAvailable(p)
  <2>1. /\ journal' = [q \in Keys |-> IF q = k THEN e ELSE IF q = o THEN f ELSE journal[q]]
        /\ task' = [task EXCEPT ![w] = Ready]
        /\ UNCHANGED << period, item, account, locks, reopens >>
        /\ ~Posted(k) /\ period[p] \in Open /\ Reversals(o) = {}
    BY <1>5 DEF ReverseJournal, KeyFree, PeriodAvailable, ReversalFree, Turn
  <2>2. e.status = "posted" /\ e.reverses = o /\ o # k BY <1>1, <2>1
  <2>e. journal' = [q \in Keys |->
                       IF q = k THEN [status |-> "posted", period |-> p, reverses |-> o]
                       ELSE IF q = o THEN [journal[q] EXCEPT !.status = "reversed"]
                       ELSE journal[q]]
    BY <2>1
  <2> HIDE DEF e, f, k, p, o
  <2>3. LedgerTypeOK'
    BY <1>1, <1>2, <1>3, <2>1 DEF LedgerInv, LedgerTypeOK, TasksOK
  <2>5. /\ journal'[k] = e /\ journal'[o] = f
        /\ \A q \in Keys : q # k /\ q # o => journal'[q] = journal[q]
    BY <1>1, <2>1, <2>2
  <2>4. \A q \in Keys : Posted(q)' <=> Posted(q) \/ q = k
    BY <1>1, <1>2, <1>3, <2>5, Entries DEF Posted
  <2>6. TasksOK'
    BY <1>1, <2>1, <2>4, ReadyTask DEF LedgerInv, TasksOK, Tasks
  <2>7. \A q, r \in Keys : r \in Reversals(q)' <=> r \in Reversals(q) \/ (r = k /\ q = o)
    BY <1>1, <1>3, <2>1, <2>2, <2>4, <2>5 DEF Reversals
  <2>8. \A q \in Keys : q = o => Reversals(q)' = {k}
    <3>1. \A q \in Keys : Reversals(q)' \subseteq Keys BY DEF Reversals
    <3> QED BY <1>1, <2>1, <2>7, <3>1
  <2>9. \A q \in Keys : q # o => Reversals(q)' = Reversals(q)
    BY <2>7 DEF Reversals
  <2>10. Reversals(k) = {}
    BY <2>1, <1>1, LedgerAssumption DEF Reversals, LedgerInv, OneReversal
  <2>11. OneReversal'
    <3>1. \A r \in Keys : Posted(r)' /\ journal'[r].reverses # Nothing
             => Posted(journal[r].reverses)'
      <4> SUFFICES ASSUME NEW r \in Keys, Posted(r)', journal'[r].reverses # Nothing
                   PROVE  Posted(journal[r].reverses)'
        OBVIOUS
      <4>1. CASE r = k BY <1>1, <2>2, <2>4, <2>5, <4>1
      <4>2. CASE r # k
        <5>1. Posted(r) /\ journal'[r].reverses = journal[r].reverses
          BY <1>3, <2>4, <2>5, <4>2
        <5>2. Posted(journal[r].reverses) /\ journal[r].reverses \in Keys
          BY <5>1, PostedEntry, Entries DEF LedgerInv, OneReversal
        <5> QED BY <2>4, <5>1, <5>2
      <4> QED BY <4>1, <4>2
    <3>2. \A q \in Keys : Posted(q)' /\ journal'[q].status = "posted" => Reversals(q)' = {}
      BY <1>1, <1>3, <2>2, <2>4, <2>5, <2>9, <2>10 DEF LedgerInv, OneReversal
    <3>3. \A q \in Keys : Posted(q)' /\ journal'[q].status = "reversed" =>
            \E r \in Keys \ {q} : Reversals(q)' = {r}
      BY <1>1, <2>2, <2>4, <2>5, <2>8, <2>9 DEF LedgerInv, OneReversal
    <3> QED BY <3>1, <3>2, <3>3 DEF OneReversal
  <2> QED BY <1>1, <2>1, <2>e, <2>3, <2>6, <2>11 DEF LedgerInv, DistinctCodes
<1> QED BY <1>4, <1>5

\* The lowest free code is free.
LEMMA CategoryStep ==
  ASSUME LedgerInv, NEW w \in Writers, CreateCategory(w)
  PROVE  /\ LedgerInv' /\ journal' = journal
         /\ \A c \in Categories : account[c] # Nothing => account'[c] = account[c]
<1> DEFINE c == task[w].request
<1>1. c \in Categories BY DEF CreateCategory, LedgerInv, TasksOK, Tasks, Ready
<1>2. TasksOK' /\ OneReversal' /\ DOMAIN task' = Writers
  BY ReadyTask, TurnStep DEF CreateCategory
<1>3. CASE ~(account[c] = Nothing /\ FreeCodes # {})
  BY <1>2, <1>3 DEF CreateCategory, LedgerInv, LedgerTypeOK, DistinctCodes
<1>4. CASE account[c] = Nothing /\ FreeCodes # {}
  <2> DEFINE m == Min(FreeCodes)
  <2>1. m \in FreeCodes
    <3>1. \E x \in FreeCodes : \A y \in FreeCodes : x <= y
      BY <1>4, LedgerAssumption DEF FreeCodes
    <3> QED BY <3>1 DEF Min
  <2>2. m \in Codes /\ \A d \in Categories : account[d] # m BY <2>1 DEF FreeCodes
  <2>3. /\ account' = [account EXCEPT ![c] = m]
        /\ UNCHANGED << journal, period, item, locks, reopens >>
    BY <1>4 DEF CreateCategory
  <2> HIDE DEF m
  <2> QED BY <1>1, <1>2, <1>4, <2>2, <2>3 DEF LedgerInv, LedgerTypeOK, DistinctCodes
<1> QED BY <1>3, <1>4

\* What a step makes of the journals and of the codes.
LEMMA LedgerStep ==
  ASSUME LedgerInv, [LedgerNext]_ledgerVars
  PROVE  /\ LedgerInv'
         /\ \A c \in Categories : account[c] # Nothing => account'[c] = account[c]
         /\ \/ journal' = journal
            \/ \E k \in Keys, p \in Periods :
                  /\ ~Posted(k) /\ period[p] \in Open
                  /\ journal' = [journal EXCEPT ![k] =
                        [status |-> "posted", period |-> p, reverses |-> Nothing]]
            \/ \E k, o \in Keys, p \in Periods :
                  /\ ~Posted(k) /\ Posted(o) /\ period[p] \in Open
                  /\ journal' = [q \in Keys |->
                       IF q = k THEN [status |-> "posted", period |-> p, reverses |-> o]
                       ELSE IF q = o THEN [journal[q] EXCEPT !.status = "reversed"]
                       ELSE journal[q]]
<1>1. CASE UNCHANGED ledgerVars
  BY <1>1 DEF ledgerVars, LedgerInv, LedgerTypeOK, TasksOK, OneReversal, DistinctCodes,
              Posted, Reversals
<1>2. CASE LedgerNext
  <2>1. \/ \E w \in Writers :
             \/ \/ \E k \in Keys, p \in Periods : ReadForPosting(w, k, p)
                \/ \E k, original \in Keys : ReadOriginal(w, k, original)
                \/ \E p \in Periods : ReadForReversing(w, p)
                \/ \E c \in Categories : ReadForCategory(w, c)
             \/ LockPeriod(w) \/ \E p \in Periods : ReadForLocking(w, p)
             \/ PostJournal(w) \/ ReverseJournal(w) \/ CreateCategory(w)
        \/ \E i \in Items, done \in BOOLEAN : SetItem(i, done)
        \/ \E p \in Periods : UnlockPeriod(p)
    BY <1>2 DEF LedgerNext, JournalNext, CategoryNext
  <2> QED BY <2>1, ReadSteps, PeriodSteps, ClosingSteps, PostStep, ReverseStep, CategoryStep
<1> QED BY <1>1, <1>2

LEMMA LedgerInvariant == LedgerSpec => []LedgerInv
BY LedgerInitInv, LedgerStep, PTL DEF LedgerSpec

\* A journal is marked reversed exactly when one other journal reverses it,
\* however many people reverse it at once and however often they retry.
THEOREM JournalsCountOnce == LedgerSpec => []LedgerIsSound
<1>1. LedgerInv => LedgerIsSound
  <2> SUFFICES ASSUME LedgerInv PROVE ReversedOnce BY DEF LedgerInv, LedgerIsSound
  <2> SUFFICES ASSUME NEW k \in Keys, Posted(k)
               PROVE  /\ Cardinality(Reversals(k)) =
                            IF journal[k].status = "reversed" THEN 1 ELSE 0
                      /\ k \notin Reversals(k)
    BY DEF ReversedOnce
  <2>1. journal[k].status \in {"posted", "reversed"} BY PostedEntry, Entries DEF LedgerInv
  <2>2. CASE journal[k].status = "posted"
    BY <2>2, FS_EmptySet DEF LedgerInv, OneReversal
  <2>3. CASE journal[k].status = "reversed"
    <3>1. PICK r \in Keys \ {k} : Reversals(k) = {r}
      BY <2>3 DEF LedgerInv, OneReversal
    <3>2. Cardinality({r}) = 1 BY FS_Singleton
    <3> QED BY <2>3, <3>1, <3>2
  <2> QED BY <2>1, <2>2, <2>3
<1> QED BY <1>1, LedgerInvariant, PTL

\* Nothing is posted into a locked period, a key names one journal for ever,
\* and no two categories share a code.
THEOREM BooksStandStill == LedgerSpec => BooksAreStable
<1>1. LedgerInv /\ [LedgerNext]_ledgerVars => [
          \A k \in Keys : journal'[k] # journal[k] /\ journal[k] = NoEntry
             => period[journal'[k].period] # "locked"]_ledgerVars
  <2> SUFFICES ASSUME LedgerInv, [LedgerNext]_ledgerVars, NEW k \in Keys,
                      journal'[k] # journal[k], journal[k] = NoEntry
               PROVE  period[journal'[k].period] # "locked"
    OBVIOUS
  <2> QED BY LedgerStep DEF LedgerInv, LedgerTypeOK, Posted, Open
<1>2. LedgerInv /\ [LedgerNext]_ledgerVars => [
          \A k \in Keys : Posted(k) => /\ journal'[k].period = journal[k].period
                                       /\ journal'[k].reverses = journal[k].reverses
          ]_ledgerVars
  <2> SUFFICES ASSUME LedgerInv, [LedgerNext]_ledgerVars, NEW k \in Keys, Posted(k)
               PROVE  /\ journal'[k].period = journal[k].period
                      /\ journal'[k].reverses = journal[k].reverses
    OBVIOUS
  <2>1. journal[k] \in Entry BY PostedEntry DEF LedgerInv
  <2> QED BY <2>1, LedgerStep DEF LedgerInv, LedgerTypeOK, Entry
<1>3. LedgerInv /\ [LedgerNext]_ledgerVars => [
          /\ \A c, d \in Categories :
                account'[c] = account'[d] /\ account'[c] # Nothing => c = d
          /\ \A c \in Categories : account[c] # Nothing => account'[c] = account[c]
          ]_ledgerVars
  BY LedgerStep DEF LedgerInv, DistinctCodes
<1> QED BY <1>1, <1>2, <1>3, LedgerInvariant, PTL
        DEF LedgerSpec, BooksAreStable, LockedStaysShut, KeyKeepsItsJournal, CodesDistinct

-----------------------------------------------------------------------------
(* Costs of the owner and of the provider (OwnerCosts).                    *)

SyncSteps == {"products", "lines", "check", "apply", "sales", "fill", "count", "sum", "publish",
              "finish"}
SyncShapes == {Resting} \cup [pc : SyncSteps, alone : BOOLEAN, publish : BOOLEAN, sum : Nat]
RequestShapes ==
    {Resting} \cup [pc : {"read", "lines", "sales", "day", "done", "dead"}, product : Products,
                    cost : OwnerAmounts]

CostTyped ==
    /\ CostTypeOK
    /\ sync \in SyncShapes
    /\ request \in [CostRequests -> RequestShapes]

\* Nothing is published while an import works.
Withdrawn == sync.pc # "rest" => promotion = "staging"

\* Where a line does not have its owner's cost, a request is about to write it, or
\* died, or what the import brought is not published and its own pass is to come.
LinesFollow ==
    \/ \A p \in Owned : line[p].cost = ownerCost[p]
    \/ \E r \in CostRequests : request[r].pc \in {"lines", "dead"}
    \/ promotion = "staging" /\ sync.pc \in {"rest", "products", "lines", "check", "apply"}

\* Once an import has counted no line without a cost, there is none.
Costed ==
    /\ promotion = "approved" => Uncosted = {}
    /\ sync.pc \in {"sum", "publish"} => sync.publish
    /\ sync.pc \in {"sum", "publish", "finish"} /\ sync.publish => Uncosted = {}

\* A request that passes finds a day to write and a cost to write it for.
DayExists ==
    /\ promotion = "approved" => metric # NoCost
    /\ \A r \in CostRequests : /\ request[r].pc # "rest" => metric # NoCost
                               /\ request[r].pc \in {"lines", "sales", "day"} => Owned # {}
    /\ sync.pc = "finish" /\ sync.publish => metric # NoCost

\* An import that is alone publishes the sum of the lines as they are.
AloneHolds ==
    sync.pc # "rest" /\ sync.alone =>
        /\ Active = {}
        /\ sync.pc = "publish" => sync.sum = SumCosts
        /\ sync.pc = "finish" /\ sync.publish => metric = SumCosts

\* A published day is its lines' sum, or a request that changed them has yet to
\* write the day.
DayFollows ==
    promotion = "approved" /\ settled =>
        metric = SumCosts \/ \E r \in CostRequests : request[r].pc \in {"sales", "day"}

CostInv ==
    /\ CostTyped /\ Withdrawn /\ LinesFollow /\ Costed /\ DayExists /\ AloneHolds /\ DayFollows

LEMMA CostsAreNatural ==
  /\ Costs \ {NoCost} \subseteq Nat /\ 0 \in Costs \ {NoCost}
  /\ OwnerAmounts \subseteq Costs \ {NoCost} /\ ProviderCosts \subseteq Costs \ {NoCost}
<1>1. 0 \in Nat /\ 0 # NoCost BY CostAssumption
<1>2. OwnerAmounts \subseteq Nat /\ ProviderCosts \subseteq Nat /\ NoCost \notin Nat
  BY CostAssumption
<1> QED BY <1>1, <1>2 DEF Costs

\* The recursion of the fold is that of the sums above.
LEMMA SumCostsIsSum ==
  ASSUME NEW v, \A p \in Products : v[p] = line[p].cost
  PROVE  SumCosts = SumOf(v, Products)
<1> DEFINE Lines1(g) == g = [s \in SUBSET Products |->
                              IF s = {} THEN 0 ELSE line[One(s)].cost + g[s \ {One(s)}]]
           G == CHOOSE g : Lines1(g)
           H == CHOOSE g : Table(g, v, Products)
<1>0. IsFiniteSet(Products) BY CostAssumption
<1>1. SumCosts = G[Products] BY DEF SumCosts, MapThenSumSet, MapThenFoldSet, One
<1>2. SumOf(v, Products) = H[Products] BY SumIsTable
<1>3. \A s \in SUBSET Products : s # {} => v[One(s)] = line[One(s)].cost BY OneIsIn
<1>4. ASSUME NEW g PROVE Lines1(g) <=> Table(g, v, Products) BY <1>3 DEF Table
<1>5. \E g : Table(g, v, Products) BY <1>0, TableExists
<1> HIDE DEF Lines1
<1>6. Table(H, v, Products) BY <1>5
<1>7. Lines1(G)
  <2>1. \E g : Lines1(g) BY <1>4, <1>5
  <2> QED BY <2>1
<1>8. Table(G, v, Products) BY <1>4, <1>7
<1> HIDE DEF G, H
<1>9. \A s \in SUBSET Products : s \subseteq Products => G[s] = H[s]
  BY <1>0, <1>6, <1>8, TablesAgree
<1> QED BY <1>1, <1>2, <1>9

LEMMA SumCostsNatural == ASSUME CostTypeOK PROVE SumCosts \in Nat
<1> DEFINE v == [p \in Products |-> line[p].cost]
<1>1. \A p \in Products : v[p] = line[p].cost OBVIOUS
<1>2. \A p \in Products : v[p] \in Nat BY CostsAreNatural DEF CostTypeOK
<1> HIDE DEF v
<1>3. SumOf(v, Products) \in Nat
  <2>1. IsFiniteSet(Products) /\ Products \in SUBSET Products BY CostAssumption
  <2> QED BY <1>2, <2>1, SumIsNatural
<1> QED BY <1>1, <1>3, SumCostsIsSum

LEMMA SumCostsSame == ASSUME line' = line PROVE SumCosts' = SumCosts
BY DEF SumCosts, MapThenSumSet, MapThenFoldSet

LEMMA CostInitInv == ASSUME CostInit PROVE CostInv
<1>1. CostTyped
  <2>1. ownerCost \in [Products -> OwnerAmounts \cup {NoCost}]
        /\ defaultCost \in [Products -> ProviderCosts \cup {NoCost}]
    BY DEF CostInit
  <2>2. line \in [Products -> [cost : Costs \ {NoCost}, known : BOOLEAN]]
    BY CostsAreNatural DEF CostInit
  <2>3. staged \in [Products -> Costs \ {NoCost}] BY CostsAreNatural DEF CostInit
  <2>4. metric \in Nat \cup {NoCost} /\ promotion \in {"staging", "approved"}
    BY DEF CostInit
  <2>5. syncs \in 0..MaxSyncs BY CostAssumption DEF CostInit
  <2>6. settled \in BOOLEAN BY DEF CostInit
  <2>7. sync \in SyncShapes /\ request \in [CostRequests -> RequestShapes]
    BY DEF CostInit, SyncShapes, RequestShapes
  <2> QED BY <2>1, <2>2, <2>3, <2>4, <2>5, <2>6, <2>7 DEF CostTyped, CostTypeOK
<1>2. /\ sync.pc = "rest" /\ promotion = "staging"
      /\ \A r \in CostRequests : request[r].pc = "rest"
  BY DEF CostInit, Resting
<1>3. Withdrawn /\ LinesFollow /\ Costed /\ DayExists /\ AloneHolds /\ DayFollows
  BY <1>2 DEF Withdrawn, LinesFollow, Costed, DayExists, AloneHolds, DayFollows
<1> QED BY <1>1, <1>3 DEF CostInv

\* What a step of the import, and one of a request, does to both.
LEMMA SyncMoves ==
  ASSUME sync \in SyncShapes, NEW from \in SyncSteps, NEW to \in SyncSteps, SyncAt(from, to)
  PROVE  /\ sync' \in SyncShapes /\ sync.pc = from /\ sync'.pc = to
         /\ sync'.alone = sync.alone /\ sync'.publish = sync.publish /\ sync'.sum = sync.sum
         /\ sync.alone \in BOOLEAN /\ sync.publish \in BOOLEAN /\ sync.sum \in Nat
<1>1. sync.pc = from /\ sync' = [sync EXCEPT !.pc = to] BY DEF SyncAt
<1>2. sync.pc # "rest" BY <1>1 DEF SyncSteps
<1>3. sync \in [pc : SyncSteps, alone : BOOLEAN, publish : BOOLEAN, sum : Nat]
  BY <1>2 DEF SyncShapes, Resting
<1> QED BY <1>1, <1>3 DEF SyncShapes

Beside == sync' = IF sync.pc = "rest" THEN sync ELSE [sync EXCEPT !.alone = FALSE]

LEMMA SyncBeside ==
  ASSUME sync \in SyncShapes, Beside
  PROVE  /\ sync' \in SyncShapes /\ sync'.pc = sync.pc
         /\ sync.pc # "rest" => /\ ~sync'.alone
                                /\ sync'.publish = sync.publish /\ sync'.sum = sync.sum
<1>1. CASE sync.pc = "rest" BY <1>1 DEF Beside
<1>2. CASE sync.pc # "rest"
  <2>1. sync \in [pc : SyncSteps, alone : BOOLEAN, publish : BOOLEAN, sum : Nat]
    BY <1>2 DEF SyncShapes, Resting
  <2>2. sync' = [sync EXCEPT !.alone = FALSE] BY <1>2 DEF Beside
  <2> QED BY <2>1, <2>2 DEF SyncShapes
<1> QED BY <1>1, <1>2

RequestSteps == {"read", "lines", "sales", "day", "done", "dead"}

LEMMA RequestMoves ==
  ASSUME sync \in SyncShapes, request \in [CostRequests -> RequestShapes],
         NEW r \in CostRequests, NEW to \in RequestSteps, request[r].pc # "rest",
         request' = [request EXCEPT ![r].pc = to]
  PROVE  /\ request' \in [CostRequests -> RequestShapes]
         /\ request'[r].pc = to
         /\ \A q \in CostRequests : q # r => request'[q] = request[q]
         /\ request[r].product \in Products /\ request[r].cost \in OwnerAmounts
<1>1. request[r] \in [pc : RequestSteps, product : Products, cost : OwnerAmounts]
  BY DEF RequestShapes, RequestSteps, Resting
<1>2. request'[r] = [request[r] EXCEPT !.pc = to] OBVIOUS
<1>3. request'[r] \in RequestShapes BY <1>1, <1>2 DEF RequestShapes, RequestSteps
<1> QED BY <1>1, <1>2, <1>3

\* The three statements.
LEMMA LinesApplied ==
  ASSUME CostTypeOK, ApplyToLines, UNCHANGED << ownerCost, defaultCost >>
  PROVE  /\ line' \in [Products -> [cost : Costs \ {NoCost}, known : BOOLEAN]]
         /\ Owned' = Owned
         /\ \A p \in Owned' : line'[p].cost = ownerCost'[p]
         /\ Uncosted' \subseteq Uncosted
<1>1. Owned' = Owned BY DEF Owned
<1>2. \A p \in Owned : p \in Products /\ ownerCost[p] \in OwnerAmounts
  BY DEF CostTypeOK, Owned
<1>3. \A p \in Products : line[p] \in [cost : Costs \ {NoCost}, known : BOOLEAN]
  BY DEF CostTypeOK
<1>4. ASSUME NEW p \in Products
      PROVE  /\ line'[p] \in [cost : Costs \ {NoCost}, known : BOOLEAN]
             /\ p \in Owned => line'[p].cost = ownerCost[p]
             /\ p \notin Owned => line'[p] = line[p]
  <2>1. line'[p] = IF p \in Owned THEN [line[p] EXCEPT !.cost = ownerCost[p]] ELSE line[p]
    BY DEF ApplyToLines
  <2> QED BY <1>2, <1>3, <2>1, CostsAreNatural
<1>5. line' \in [Products -> [cost : Costs \ {NoCost}, known : BOOLEAN]]
  <2>1. line' = [p \in Products |-> IF p \in Owned THEN [line[p] EXCEPT !.cost = ownerCost[p]]
                                    ELSE line[p]]
    BY DEF ApplyToLines
  <2>2. line' = [p \in Products |-> line'[p]] BY <2>1
  <2> QED BY <1>4, <2>2
<1>6. Uncosted' \subseteq Uncosted
  <2>1. ASSUME NEW p \in Uncosted' PROVE p \in Uncosted
    <3>1. p \in Products /\ ~line'[p].known /\ line'[p].cost = 0 /\ ProductCost(p)' = NoCost
      BY <2>1 DEF Uncosted
    <3>2. ProductCost(p)' = ProductCost(p) BY <1>1 DEF ProductCost
    <3>3. p \notin Owned
      <4>1. p \in Owned => ProductCost(p) \in OwnerAmounts BY <1>2 DEF ProductCost
      <4> QED BY <3>1, <3>2, <4>1, CostsAreNatural
    <3> QED BY <1>4, <3>1, <3>2, <3>3 DEF Uncosted
  <2> QED BY <2>1
<1> QED BY <1>1, <1>2, <1>4, <1>5, <1>6

LEMMA SalesApplied ==
  ASSUME CostTypeOK, ApplyToSales
  PROVE  staged' \in [Products -> Costs \ {NoCost}]
BY DEF CostTypeOK, ApplyToSales

\* The parts follow what they read.
LEMMA OwnedSame == ASSUME ownerCost' = ownerCost PROVE Owned' = Owned
BY DEF Owned

LEMMA UncostedSame ==
  ASSUME UNCHANGED << line, ownerCost, defaultCost >> PROVE Uncosted' = Uncosted
<1>1. Owned' = Owned BY OwnedSame
<1>2. \A p \in Products : ProductCost(p)' = ProductCost(p) BY <1>1 DEF ProductCost
<1> QED BY <1>2 DEF Uncosted

LEMMA ActiveSame == ASSUME request' = request PROVE Active' = Active
BY DEF Active

\* A step of the import between its first and its last keeps what was withdrawn
\* withdrawn: what is left to say is where its lines and its sum stand.
LEMMA ImportStep ==
  ASSUME CostInv, CostTypeOK', sync.pc # "rest",
         sync' \in SyncShapes, sync'.pc # "rest", sync'.alone = sync.alone,
         UNCHANGED << ownerCost, promotion, request, settled >>,
         metric' = metric \/ metric' # NoCost,
         LinesFollow',
         sync'.pc \in {"sum", "publish"} => sync'.publish,
         sync'.pc \in {"sum", "publish", "finish"} /\ sync'.publish => Uncosted' = {},
         sync'.pc = "finish" /\ sync'.publish => metric' # NoCost,
         sync'.alone =>
            /\ sync'.pc = "publish" => sync'.sum = SumCosts'
            /\ sync'.pc = "finish" /\ sync'.publish => metric' = SumCosts'
  PROVE  CostInv'
<1>1. promotion = "staging" /\ promotion' = "staging" BY DEF CostInv, Withdrawn
<1>2. CostTyped' BY DEF CostInv, CostTyped
<1>3. Withdrawn' BY <1>1 DEF Withdrawn
<1>4. Costed' BY <1>1 DEF Costed
<1>5. DayExists'
  <2>1. Owned' = Owned BY OwnedSame
  <2> QED BY <1>1, <2>1 DEF CostInv, DayExists
<1>6. AloneHolds'
  <2>1. Active' = Active BY ActiveSame
  <2> QED BY <2>1 DEF CostInv, AloneHolds
<1>7. DayFollows' BY <1>1 DEF DayFollows
<1> QED BY <1>2, <1>3, <1>4, <1>5, <1>6, <1>7 DEF CostInv

\* A step of a request tells the import, if there is one, that it is not alone.
LEMMA RequestStep ==
  ASSUME CostInv, CostTypeOK', Beside, NEW r \in CostRequests,
         request' \in [CostRequests -> RequestShapes],
         \A q \in CostRequests : q # r => request'[q] = request[q],
         UNCHANGED << defaultCost, promotion >>,
         metric' = metric \/ metric' # NoCost,
         metric # NoCost,
         Owned \subseteq Owned', Uncosted' \subseteq Uncosted,
         request'[r].pc \in {"lines", "sales", "day"} => Owned' # {},
         LinesFollow', DayFollows'
  PROVE  CostInv'
<1>1. /\ sync' \in SyncShapes /\ sync'.pc = sync.pc
      /\ sync.pc # "rest" => /\ ~sync'.alone
                             /\ sync'.publish = sync.publish /\ sync'.sum = sync.sum
  BY SyncBeside DEF CostInv, CostTyped
<1>2. CostTyped' BY <1>1 DEF CostTyped
<1>3. Withdrawn' BY <1>1 DEF CostInv, Withdrawn
<1>4. Costed'
  <2>1. promotion' = "approved" => Uncosted' = {} BY DEF CostInv, Costed
  <2>2. sync.pc \in {"sum", "publish"} => sync.publish BY DEF CostInv, Costed
  <2>3. sync.pc \in {"sum", "publish", "finish"} /\ sync.publish => Uncosted' = {}
    BY DEF CostInv, Costed
  <2>4. sync.pc \in {"sum", "publish", "finish"} => sync'.publish = sync.publish BY <1>1
  <2> QED BY <1>1, <2>1, <2>2, <2>3, <2>4 DEF Costed
<1>5. DayExists'
  <2>1. ASSUME NEW q \in CostRequests
        PROVE  /\ request'[q].pc # "rest" => metric' # NoCost
               /\ request'[q].pc \in {"lines", "sales", "day"} => Owned' # {}
    <3>1. CASE q = r BY <3>1
    <3>2. CASE q # r
      <4>1. request'[q] = request[q] BY <3>2
      <4>2. request[q].pc \in {"lines", "sales", "day"} => Owned # {}
        BY DEF CostInv, DayExists
      <4> QED BY <4>1, <4>2
    <3> QED BY <3>1, <3>2
  <2> QED BY <2>1 DEF DayExists
<1>6. AloneHolds' BY <1>1 DEF AloneHolds
<1> QED BY <1>2, <1>3, <1>4, <1>5, <1>6 DEF CostInv

LEMMA CostBegins == ASSUME CostInv, BeginSync PROVE CostInv'
<1>1. /\ sync.pc = "rest" /\ syncs < MaxSyncs /\ syncs' = syncs + 1 /\ promotion' = "staging"
      /\ sync' = [pc |-> "products", alone |-> Active = {}, publish |-> FALSE, sum |-> 0]
  BY DEF BeginSync
<1>2. UNCHANGED << ownerCost, defaultCost, line, staged, metric, request, settled >>
  BY DEF BeginSync
<1>3. CostTypeOK'
  <2>1. syncs' \in 0..MaxSyncs BY <1>1, CostAssumption DEF CostInv, CostTyped, CostTypeOK
  <2> QED BY <1>1, <1>2, <2>1 DEF CostInv, CostTyped, CostTypeOK
<1>4. CostTyped'
  <2>1. sync' \in SyncShapes BY <1>1 DEF SyncShapes, SyncSteps
  <2> QED BY <1>2, <1>3, <2>1 DEF CostInv, CostTyped
<1>5. Withdrawn' /\ DayFollows' /\ Costed' BY <1>1 DEF Withdrawn, DayFollows, Costed
<1>6. LinesFollow'
  <2>1. promotion' = "staging" /\ sync'.pc = "products" BY <1>1
  <2> QED BY <2>1 DEF LinesFollow
<1>7. DayExists'
  <2>1. Owned' = Owned BY <1>2, OwnedSame
  <2> QED BY <1>1, <1>2, <2>1 DEF CostInv, DayExists
<1>8. AloneHolds'
  <2>1. Active' = Active BY <1>2, ActiveSame
  <2> QED BY <1>1, <2>1 DEF AloneHolds
<1> QED BY <1>4, <1>5, <1>6, <1>7, <1>8 DEF CostInv

LEMMA CostWritesProducts == ASSUME CostInv, WriteProducts PROVE CostInv'
<1>1. /\ sync' \in SyncShapes /\ sync.pc = "products" /\ sync'.pc = "lines"
      /\ sync'.alone = sync.alone
  BY SyncMoves DEF WriteProducts, SyncSteps, CostInv, CostTyped
<1>2. UNCHANGED << ownerCost, line, staged, metric, promotion, request, syncs, settled >>
  BY DEF WriteProducts
<1>3. CostTypeOK'
  <2>1. defaultCost' \in [Products -> ProviderCosts \cup {NoCost}]
    BY DEF WriteProducts, CostInv, CostTyped, CostTypeOK
  <2> QED BY <1>2, <2>1 DEF CostInv, CostTyped, CostTypeOK
<1>4. LinesFollow' BY <1>1, <1>2 DEF CostInv, Withdrawn, LinesFollow
<1> QED BY <1>1, <1>2, <1>3, <1>4, ImportStep

LEMMA CostWritesLines == ASSUME CostInv, WriteLines PROVE CostInv'
<1>1. /\ sync' \in SyncShapes /\ sync.pc = "lines" /\ sync'.pc = "check"
      /\ sync'.alone = sync.alone
  BY SyncMoves DEF WriteLines, SyncSteps, CostInv, CostTyped
<1>2. UNCHANGED << ownerCost, defaultCost, metric, promotion, request, syncs, settled >>
  BY DEF WriteLines
<1>3. CostTypeOK'
  <2>1. PICK changed \in SUBSET Products, c \in ProviderCosts \cup {NoCost} :
          LET cost == IF c = NoCost THEN 0 ELSE c
          IN /\ line' = [p \in Products |->
                            IF p \in changed THEN [cost |-> cost, known |-> c # NoCost]
                            ELSE line[p]]
             /\ staged' = [p \in Products |-> IF p \in changed THEN cost ELSE staged[p]]
    BY DEF WriteLines
  <2> DEFINE cost == IF c = NoCost THEN 0 ELSE c
  <2>2. cost \in Costs \ {NoCost} BY CostsAreNatural
  <2>3. /\ line' = [p \in Products |-> IF p \in changed THEN [cost |-> cost, known |-> c # NoCost]
                                       ELSE line[p]]
        /\ staged' = [p \in Products |-> IF p \in changed THEN cost ELSE staged[p]]
    BY <2>1
  <2>4. /\ line \in [Products -> [cost : Costs \ {NoCost}, known : BOOLEAN]]
        /\ staged \in [Products -> Costs \ {NoCost}]
    BY DEF CostInv, CostTyped, CostTypeOK
  <2> HIDE DEF cost
  <2>5. line' \in [Products -> [cost : Costs \ {NoCost}, known : BOOLEAN]] BY <2>2, <2>3, <2>4
  <2>6. staged' \in [Products -> Costs \ {NoCost}] BY <2>2, <2>3, <2>4
  <2> QED BY <1>2, <2>5, <2>6 DEF CostInv, CostTyped, CostTypeOK
<1>4. LinesFollow'
  <2>1. promotion' = "staging" /\ sync'.pc = "check" BY <1>1, <1>2 DEF CostInv, Withdrawn
  <2> QED BY <2>1 DEF LinesFollow
<1> QED BY <1>1, <1>2, <1>3, <1>4, ImportStep

LEMMA CostChecks == ASSUME CostInv, CheckOverrides PROVE CostInv'
<1>1. /\ sync' \in SyncShapes /\ sync.pc = "check" /\ sync'.alone = sync.alone
      /\ sync'.pc = IF Owned = {} THEN "fill" ELSE "apply"
  <2> DEFINE to == IF Owned = {} THEN "fill" ELSE "apply"
  <2>1. to \in SyncSteps /\ "check" \in SyncSteps BY DEF SyncSteps
  <2>2. SyncAt("check", to) BY DEF CheckOverrides
  <2> HIDE DEF to
  <2>3. /\ sync' \in SyncShapes /\ sync.pc = "check" /\ sync'.alone = sync.alone
        /\ sync'.pc = to
    BY <2>1, <2>2, SyncMoves DEF CostInv, CostTyped
  <2> QED BY <2>3 DEF to
<1>2. UNCHANGED << ownerCost, defaultCost, line, staged, metric, promotion, request, syncs,
                   settled >>
  BY DEF CheckOverrides
<1>3. CostTypeOK' BY <1>2 DEF CostInv, CostTyped, CostTypeOK
<1>4. LinesFollow'
  <2>1. Owned' = Owned BY <1>2, OwnedSame
  <2>2. CASE Owned = {} BY <2>1, <2>2 DEF LinesFollow
  <2>3. CASE Owned # {}
    <3>1. promotion' = "staging" /\ sync'.pc = "apply"
      BY <1>1, <1>2, <2>3 DEF CostInv, Withdrawn
    <3> QED BY <3>1 DEF LinesFollow
  <2> QED BY <2>2, <2>3
<1>5. sync'.pc \in {"fill", "apply"} BY <1>1
<1> QED BY <1>1, <1>2, <1>3, <1>4, <1>5, ImportStep

LEMMA CostSyncsLines == ASSUME CostInv, SyncLines PROVE CostInv'
<1>1. /\ sync' \in SyncShapes /\ sync.pc = "apply" /\ sync'.pc = "sales"
      /\ sync'.alone = sync.alone
  BY SyncMoves DEF SyncLines, SyncSteps, CostInv, CostTyped
<1>2. UNCHANGED << ownerCost, defaultCost, staged, metric, promotion, request, syncs, settled >>
  BY DEF SyncLines
<1>3. /\ line' \in [Products -> [cost : Costs \ {NoCost}, known : BOOLEAN]]
      /\ \A p \in Owned' : line'[p].cost = ownerCost'[p]
  BY <1>2, LinesApplied DEF SyncLines, CostInv, CostTyped
<1>4. CostTypeOK' BY <1>2, <1>3 DEF CostInv, CostTyped, CostTypeOK
<1>5. LinesFollow' BY <1>3 DEF LinesFollow
<1> QED BY <1>1, <1>2, <1>4, <1>5, ImportStep

LEMMA CostSyncsSales == ASSUME CostInv, SyncSales PROVE CostInv'
<1>1. /\ sync' \in SyncShapes /\ sync.pc = "sales" /\ sync'.pc = "fill"
      /\ sync'.alone = sync.alone
  BY SyncMoves DEF SyncSales, SyncSteps, CostInv, CostTyped
<1>2. UNCHANGED << ownerCost, defaultCost, line, metric, promotion, request, syncs, settled >>
  BY DEF SyncSales
<1>3. staged' \in [Products -> Costs \ {NoCost}]
  BY SalesApplied DEF SyncSales, CostInv, CostTyped
<1>4. CostTypeOK' BY <1>2, <1>3 DEF CostInv, CostTyped, CostTypeOK
<1>5. LinesFollow'
  <2>1. Owned' = Owned BY <1>2, OwnedSame
  <2>2. \/ \A p \in Owned : line[p].cost = ownerCost[p]
        \/ \E r \in CostRequests : request[r].pc \in {"lines", "dead"}
    BY <1>1 DEF CostInv, LinesFollow
  <2> QED BY <1>2, <2>1, <2>2 DEF LinesFollow
<1> QED BY <1>1, <1>2, <1>4, <1>5, ImportStep

LEMMA CostFills == ASSUME CostInv, FillUnknown PROVE CostInv'
<1>1. /\ sync' \in SyncShapes /\ sync.pc = "fill" /\ sync'.pc = "count"
      /\ sync'.alone = sync.alone
  BY SyncMoves DEF FillUnknown, SyncSteps, CostInv, CostTyped
<1>2. UNCHANGED << ownerCost, defaultCost, staged, metric, promotion, request, syncs, settled >>
  BY DEF FillUnknown
<1>3. CostTypeOK BY DEF CostInv, CostTyped
<1> DEFINE cost(p) == IF ProductCost(p) = NoCost THEN 0 ELSE ProductCost(p)
<1>4. line' = [p \in Products |-> IF line[p].known THEN line[p]
                                  ELSE [line[p] EXCEPT !.cost = cost(p)]]
  BY DEF FillUnknown
<1>5. ASSUME NEW p \in Products
      PROVE  cost(p) \in Costs \ {NoCost} /\ (p \in Owned => cost(p) = ownerCost[p])
  <2>1. ProductCost(p) \in OwnerAmounts \cup ProviderCosts \cup {NoCost}
    BY <1>3 DEF ProductCost, CostTypeOK
  <2>2. p \in Owned => ProductCost(p) = ownerCost[p] /\ ownerCost[p] # NoCost
    BY DEF ProductCost, Owned
  <2> QED BY <2>1, <2>2, CostsAreNatural
<1> HIDE DEF cost
<1>6. \A p \in Products : line[p] \in [cost : Costs \ {NoCost}, known : BOOLEAN]
  BY <1>3 DEF CostTypeOK
<1>7. line' \in [Products -> [cost : Costs \ {NoCost}, known : BOOLEAN]]
  <2>1. \A p \in Products : [line[p] EXCEPT !.cost = cost(p)]
                               \in [cost : Costs \ {NoCost}, known : BOOLEAN]
    BY <1>5, <1>6
  <2> QED BY <1>4, <1>6, <2>1
<1>8. CostTypeOK' BY <1>2, <1>3, <1>7 DEF CostTypeOK
<1>9. LinesFollow'
  <2>1. Owned' = Owned BY <1>2, OwnedSame
  <2>2. CASE \A p \in Owned : line[p].cost = ownerCost[p]
    <3>1. ASSUME NEW p \in Owned PROVE line'[p].cost = ownerCost[p]
      <4>1. p \in Products BY DEF Owned
      <4>2. line'[p] = IF line[p].known THEN line[p] ELSE [line[p] EXCEPT !.cost = cost(p)]
        BY <1>4, <4>1
      <4> QED BY <1>5, <1>6, <2>2, <4>1, <4>2
    <3> QED BY <1>2, <2>1, <3>1 DEF LinesFollow
  <2>3. CASE \E r \in CostRequests : request[r].pc \in {"lines", "dead"}
    BY <1>2, <2>3 DEF LinesFollow
  <2> QED BY <1>1, <2>2, <2>3 DEF CostInv, LinesFollow
<1> QED BY <1>1, <1>2, <1>8, <1>9, ImportStep

LEMMA CostCounts == ASSUME CostInv, CountMissing PROVE CostInv'
<1>1. /\ sync.pc = "count"
      /\ sync' = [sync EXCEPT !.publish = (Uncosted = {}),
                              !.pc = IF Uncosted = {} THEN "sum" ELSE "finish"]
  BY DEF CountMissing
<1>2. UNCHANGED << ownerCost, defaultCost, line, staged, metric, promotion, request, syncs,
                   settled >>
  BY DEF CountMissing
<1>3. sync \in [pc : SyncSteps, alone : BOOLEAN, publish : BOOLEAN, sum : Nat]
  BY <1>1 DEF CostInv, CostTyped, SyncShapes, Resting
<1>4. /\ sync' \in SyncShapes /\ sync'.alone = sync.alone
      /\ sync'.publish = (Uncosted = {})
      /\ sync'.pc = IF Uncosted = {} THEN "sum" ELSE "finish"
  BY <1>1, <1>3 DEF SyncShapes, SyncSteps
<1>5. Uncosted' = Uncosted BY <1>2, UncostedSame
<1>6. CostTypeOK' BY <1>2 DEF CostInv, CostTyped, CostTypeOK
<1>7. LinesFollow'
  <2>1. Owned' = Owned BY <1>2, OwnedSame
  <2>2. \/ \A p \in Owned : line[p].cost = ownerCost[p]
        \/ \E r \in CostRequests : request[r].pc \in {"lines", "dead"}
    BY <1>1 DEF CostInv, LinesFollow
  <2> QED BY <1>2, <2>1, <2>2 DEF LinesFollow
<1>8. CASE Uncosted = {}
  <2>1. sync'.pc = "sum" /\ sync'.publish BY <1>4, <1>8
  <2> QED BY <1>1, <1>2, <1>4, <1>5, <1>6, <1>7, <1>8, <2>1, ImportStep
<1>9. CASE Uncosted # {}
  <2>1. sync'.pc = "finish" /\ ~sync'.publish BY <1>4, <1>9
  <2> QED BY <1>1, <1>2, <1>4, <1>5, <1>6, <1>7, <1>9, <2>1, ImportStep
<1> QED BY <1>8, <1>9

LEMMA CostSums == ASSUME CostInv, SumSales PROVE CostInv'
<1>1. sync.pc = "sum" /\ sync' = [sync EXCEPT !.pc = "publish", !.sum = SumCosts]
  BY DEF SumSales
<1>2. UNCHANGED << ownerCost, defaultCost, line, staged, metric, promotion, request, syncs,
                   settled >>
  BY DEF SumSales
<1>3. sync \in [pc : SyncSteps, alone : BOOLEAN, publish : BOOLEAN, sum : Nat]
  BY <1>1 DEF CostInv, CostTyped, SyncShapes, Resting
<1>4. SumCosts \in Nat /\ SumCosts' = SumCosts
  BY <1>2, SumCostsNatural, SumCostsSame DEF CostInv, CostTyped
<1>5. /\ sync' \in SyncShapes /\ sync'.alone = sync.alone /\ sync'.publish = sync.publish
      /\ sync'.sum = SumCosts /\ sync'.pc = "publish"
  BY <1>1, <1>3, <1>4 DEF SyncShapes, SyncSteps
<1>6. Uncosted' = Uncosted BY <1>2, UncostedSame
<1>7. sync.publish /\ Uncosted = {} BY <1>1 DEF CostInv, Costed
<1>8. CostTypeOK' BY <1>2 DEF CostInv, CostTyped, CostTypeOK
<1>9. LinesFollow'
  <2>1. Owned' = Owned BY <1>2, OwnedSame
  <2>2. \/ \A p \in Owned : line[p].cost = ownerCost[p]
        \/ \E r \in CostRequests : request[r].pc \in {"lines", "dead"}
    BY <1>1 DEF CostInv, LinesFollow
  <2> QED BY <1>2, <2>1, <2>2 DEF LinesFollow
<1> QED BY <1>1, <1>2, <1>4, <1>5, <1>6, <1>7, <1>8, <1>9, ImportStep

LEMMA CostPublishes == ASSUME CostInv, PublishDays PROVE CostInv'
<1>1. /\ sync' \in SyncShapes /\ sync.pc = "publish" /\ sync'.pc = "finish"
      /\ sync'.alone = sync.alone /\ sync'.publish = sync.publish /\ sync.sum \in Nat
  BY SyncMoves DEF PublishDays, SyncSteps, CostInv, CostTyped
<1>2. UNCHANGED << ownerCost, defaultCost, line, staged, promotion, request, syncs, settled >>
  BY DEF PublishDays
<1>3. metric' = sync.sum BY DEF PublishDays
<1>4. metric' \in Nat /\ metric' # NoCost BY <1>1, <1>3, CostAssumption
<1>5. CostTypeOK' BY <1>2, <1>4 DEF CostInv, CostTyped, CostTypeOK
<1>6. Uncosted' = {} BY <1>1, <1>2, UncostedSame DEF CostInv, Costed
<1>7. sync.alone => metric' = SumCosts'
  <2>1. SumCosts' = SumCosts BY <1>2, SumCostsSame
  <2> QED BY <1>1, <1>3, <2>1 DEF CostInv, AloneHolds
<1>8. LinesFollow'
  <2>1. Owned' = Owned BY <1>2, OwnedSame
  <2>2. \/ \A p \in Owned : line[p].cost = ownerCost[p]
        \/ \E r \in CostRequests : request[r].pc \in {"lines", "dead"}
    BY <1>1 DEF CostInv, LinesFollow
  <2> QED BY <1>2, <2>1, <2>2 DEF LinesFollow
<1> QED BY <1>1, <1>2, <1>4, <1>5, <1>6, <1>7, <1>8, ImportStep

LEMMA CostFinishes == ASSUME CostInv, FinishSync PROVE CostInv'
<1>1. /\ sync.pc = "finish" /\ sync' = Resting
      /\ promotion' = IF sync.publish THEN "approved" ELSE "staging"
      /\ settled' = IF sync.publish /\ sync.alone THEN TRUE ELSE settled /\ sync.alone
  BY DEF FinishSync
<1>2. UNCHANGED << ownerCost, defaultCost, line, staged, metric, request, syncs >>
  BY DEF FinishSync
<1>3. sync \in [pc : SyncSteps, alone : BOOLEAN, publish : BOOLEAN, sum : Nat]
  BY <1>1 DEF CostInv, CostTyped, SyncShapes, Resting
<1>4. sync'.pc = "rest" BY <1>1 DEF Resting
<1>5. CostTyped'
  <2>1. settled' \in BOOLEAN BY <1>1, <1>3 DEF CostInv, CostTyped, CostTypeOK
  <2>2. promotion' \in {"staging", "approved"} BY <1>1
  <2>3. CostTypeOK' BY <1>2, <2>1, <2>2 DEF CostInv, CostTyped, CostTypeOK
  <2>4. sync' \in SyncShapes BY <1>1 DEF SyncShapes
  <2> QED BY <1>2, <2>3, <2>4 DEF CostInv, CostTyped
<1>6. Withdrawn' /\ AloneHolds' BY <1>4 DEF Withdrawn, AloneHolds
<1>7. LinesFollow'
  <2>1. Owned' = Owned BY <1>2, OwnedSame
  <2>2. \/ \A p \in Owned : line[p].cost = ownerCost[p]
        \/ \E r \in CostRequests : request[r].pc \in {"lines", "dead"}
    BY <1>1 DEF CostInv, LinesFollow
  <2> QED BY <1>2, <2>1, <2>2 DEF LinesFollow
<1>8. Costed'
  <2>1. Uncosted' = Uncosted BY <1>2, UncostedSame
  <2> QED BY <1>1, <1>4, <2>1 DEF CostInv, Costed
<1>9. DayExists'
  <2>1. Owned' = Owned BY <1>2, OwnedSame
  <2>2. sync.publish => metric # NoCost BY <1>1 DEF CostInv, DayExists
  <2>3. promotion' = "approved" => metric' # NoCost BY <1>1, <1>2, <2>2
  <2>4. \A r \in CostRequests :
           /\ request[r].pc # "rest" => metric # NoCost
           /\ request[r].pc \in {"lines", "sales", "day"} => Owned # {}
    BY DEF CostInv, DayExists
  <2> QED BY <1>2, <1>4, <2>1, <2>3, <2>4 DEF DayExists
<1>10. DayFollows'
  <2>1. CASE sync.publish /\ sync.alone
    <3>1. metric = SumCosts BY <1>1, <2>1 DEF CostInv, AloneHolds
    <3>2. SumCosts' = SumCosts BY <1>2, SumCostsSame
    <3> QED BY <1>2, <3>1, <3>2 DEF DayFollows
  <2>2. CASE ~sync.publish BY <1>1, <2>2 DEF DayFollows
  <2>3. CASE sync.publish /\ ~sync.alone BY <1>1, <2>3 DEF DayFollows
  <2> QED BY <2>1, <2>2, <2>3
<1> QED BY <1>5, <1>6, <1>7, <1>8, <1>9, <1>10 DEF CostInv

LEMMA CostSyncFails == ASSUME CostInv, SyncFails PROVE CostInv'
<1>1. sync.pc # "rest" /\ sync' = Resting /\ settled' = FALSE BY DEF SyncFails
<1>2. UNCHANGED << ownerCost, defaultCost, line, staged, metric, promotion, request, syncs >>
  BY DEF SyncFails
<1>3. sync'.pc = "rest" BY <1>1 DEF Resting
<1>4. promotion' = "staging" BY <1>1, <1>2 DEF CostInv, Withdrawn
<1>5. CostTyped'
  <2>1. sync' \in SyncShapes BY <1>1 DEF SyncShapes
  <2>2. CostTypeOK' BY <1>1, <1>2 DEF CostInv, CostTyped, CostTypeOK
  <2> QED BY <1>2, <2>1, <2>2 DEF CostInv, CostTyped
<1>6. Withdrawn' /\ AloneHolds' /\ LinesFollow' /\ Costed' /\ DayFollows'
  BY <1>1, <1>3, <1>4 DEF Withdrawn, AloneHolds, LinesFollow, Costed, DayFollows
<1>7. DayExists'
  <2>1. Owned' = Owned BY <1>2, OwnedSame
  <2> QED BY <1>2, <1>3, <1>4, <2>1 DEF CostInv, DayExists
<1> QED BY <1>5, <1>6, <1>7 DEF CostInv

\* A request begins only where something is published, so there is a day.
LEMMA CostIsRead ==
  ASSUME CostInv, NEW r \in CostRequests, NEW p \in Products, NEW c \in OwnerAmounts,
         ReadProducts(r, p, c)
  PROVE  CostInv'
<1>1. /\ request[r].pc = "rest" /\ promotion = "approved"
      /\ request' = [request EXCEPT ![r] = [pc |-> "read", product |-> p, cost |-> c]]
      /\ Beside
  BY DEF ReadProducts, Beside
<1>2. UNCHANGED << ownerCost, defaultCost, line, staged, metric, promotion, syncs, settled >>
  BY DEF ReadProducts
<1>3. /\ request' \in [CostRequests -> RequestShapes] /\ request'[r].pc = "read"
      /\ \A q \in CostRequests : q # r => request'[q] = request[q]
  <2>1. [pc |-> "read", product |-> p, cost |-> c] \in RequestShapes BY DEF RequestShapes
  <2> QED BY <1>1, <2>1 DEF CostInv, CostTyped
<1>4. CostTypeOK' BY <1>2 DEF CostInv, CostTyped, CostTypeOK
<1>5. metric # NoCost BY <1>1 DEF CostInv, DayExists
<1>6. Owned' = Owned /\ Uncosted' = Uncosted /\ SumCosts' = SumCosts
  BY <1>2, OwnedSame, UncostedSame, SumCostsSame
<1>7. LinesFollow'
  <2>1. \/ \A q \in Owned : line[q].cost = ownerCost[q]
        \/ \E q \in CostRequests : request[q].pc \in {"lines", "dead"}
    BY <1>1 DEF CostInv, LinesFollow
  <2>2. ASSUME NEW q \in CostRequests, request[q].pc \in {"lines", "dead"}
        PROVE  request'[q].pc \in {"lines", "dead"}
    <3>1. q # r BY <1>1, <2>2
    <3> QED BY <1>3, <2>2, <3>1
  <2> QED BY <1>2, <1>6, <2>1, <2>2 DEF LinesFollow
<1>8. DayFollows'
  <2>1. ASSUME NEW q \in CostRequests, request[q].pc \in {"sales", "day"}
        PROVE  request'[q].pc \in {"sales", "day"}
    <3>1. q # r BY <1>1, <2>1
    <3> QED BY <1>3, <2>1, <3>1
  <2> QED BY <1>2, <1>6, <2>1 DEF CostInv, DayFollows
<1> QED BY <1>1, <1>2, <1>3, <1>4, <1>5, <1>6, <1>7, <1>8, RequestStep

LEMMA CostIsSaved ==
  ASSUME CostInv, NEW r \in CostRequests, SaveCost(r) PROVE CostInv'
<1>1. /\ request[r].pc = "read" /\ request' = [request EXCEPT ![r].pc = "lines"] /\ Beside
      /\ ownerCost' = [ownerCost EXCEPT ![request[r].product] = request[r].cost]
  BY DEF SaveCost, RequestAt, Beside
<1>2. UNCHANGED << defaultCost, line, staged, metric, promotion, syncs, settled >>
  BY DEF SaveCost
<1>3. /\ request' \in [CostRequests -> RequestShapes] /\ request'[r].pc = "lines"
      /\ \A q \in CostRequests : q # r => request'[q] = request[q]
      /\ request[r].product \in Products /\ request[r].cost \in OwnerAmounts
  BY <1>1, RequestMoves DEF RequestSteps, CostInv, CostTyped
<1>4. ownerCost \in [Products -> OwnerAmounts \cup {NoCost}]
  BY DEF CostInv, CostTyped, CostTypeOK
<1>5. CostTypeOK'
  <2>1. ownerCost' \in [Products -> OwnerAmounts \cup {NoCost}] BY <1>1, <1>3, <1>4
  <2> QED BY <1>2, <2>1 DEF CostInv, CostTyped, CostTypeOK
<1>6. metric # NoCost BY <1>1 DEF CostInv, DayExists
<1>7. request[r].cost # NoCost BY <1>3, CostsAreNatural
<1>8. Owned \subseteq Owned' /\ Owned' # {}
  <2>1. \A p \in Products : ownerCost[p] # NoCost => ownerCost'[p] # NoCost
    BY <1>1, <1>3, <1>4, <1>7
  <2>2. ownerCost'[request[r].product] # NoCost BY <1>1, <1>3, <1>4, <1>7
  <2> QED BY <1>3, <2>1, <2>2 DEF Owned
<1>9. Uncosted' \subseteq Uncosted
  <2>1. ASSUME NEW p \in Uncosted' PROVE p \in Uncosted
    <3>1. p \in Products /\ ~line[p].known /\ line[p].cost = 0 /\ ProductCost(p)' = NoCost
      BY <1>2, <2>1 DEF Uncosted
    <3>2. p \notin Owned'
      <4>1. p \in Owned' => ProductCost(p)' = ownerCost'[p] /\ ownerCost'[p] # NoCost
        BY DEF ProductCost, Owned
      <4> QED BY <3>1, <4>1
    <3>3. ProductCost(p)' = defaultCost[p] BY <1>2, <3>2 DEF ProductCost
    <3>4. p \notin Owned BY <1>8, <3>2
    <3>5. ProductCost(p) = defaultCost[p] BY <3>4 DEF ProductCost
    <3> QED BY <3>1, <3>3, <3>5 DEF Uncosted
  <2> QED BY <2>1
<1>10. LinesFollow' BY <1>3 DEF LinesFollow
<1>11. DayFollows'
  <2>1. ASSUME NEW q \in CostRequests, request[q].pc \in {"sales", "day"}
        PROVE  request'[q].pc \in {"sales", "day"}
    <3>1. q # r BY <1>1, <2>1
    <3> QED BY <1>3, <2>1, <3>1
  <2>2. SumCosts' = SumCosts BY <1>2, SumCostsSame
  <2> QED BY <1>2, <2>1, <2>2 DEF CostInv, DayFollows
<1> QED BY <1>1, <1>2, <1>3, <1>5, <1>6, <1>8, <1>9, <1>10, <1>11, RequestStep

LEMMA CostReachesLines ==
  ASSUME CostInv, NEW r \in CostRequests, RequestLines(r) PROVE CostInv'
<1>1. /\ request[r].pc = "lines" /\ request' = [request EXCEPT ![r].pc = "sales"] /\ Beside
      /\ ApplyToLines
  BY DEF RequestLines, RequestAt, Beside
<1>2. UNCHANGED << ownerCost, defaultCost, staged, metric, promotion, syncs, settled >>
  BY DEF RequestLines
<1>3. /\ request' \in [CostRequests -> RequestShapes] /\ request'[r].pc = "sales"
      /\ \A q \in CostRequests : q # r => request'[q] = request[q]
  BY <1>1, RequestMoves DEF RequestSteps, CostInv, CostTyped
<1>4. /\ line' \in [Products -> [cost : Costs \ {NoCost}, known : BOOLEAN]]
      /\ Owned' = Owned
      /\ \A p \in Owned' : line'[p].cost = ownerCost'[p]
      /\ Uncosted' \subseteq Uncosted
  BY <1>1, <1>2, LinesApplied DEF CostInv, CostTyped
<1>5. CostTypeOK' BY <1>2, <1>4 DEF CostInv, CostTyped, CostTypeOK
<1>6. metric # NoCost /\ Owned # {} BY <1>1 DEF CostInv, DayExists
<1>7. LinesFollow' BY <1>4 DEF LinesFollow
<1>8. DayFollows' BY <1>3 DEF DayFollows
<1> QED BY <1>1, <1>2, <1>3, <1>4, <1>5, <1>6, <1>7, <1>8, RequestStep

LEMMA CostReachesSales ==
  ASSUME CostInv, NEW r \in CostRequests, RequestSales(r) PROVE CostInv'
<1>1. /\ request[r].pc = "sales" /\ request' = [request EXCEPT ![r].pc = "day"] /\ Beside
      /\ ApplyToSales
  BY DEF RequestSales, RequestAt, Beside
<1>2. UNCHANGED << ownerCost, defaultCost, line, metric, promotion, syncs, settled >>
  BY DEF RequestSales
<1>3. /\ request' \in [CostRequests -> RequestShapes] /\ request'[r].pc = "day"
      /\ \A q \in CostRequests : q # r => request'[q] = request[q]
  BY <1>1, RequestMoves DEF RequestSteps, CostInv, CostTyped
<1>4. CostTypeOK'
  <2>1. staged' \in [Products -> Costs \ {NoCost}]
    BY <1>1, SalesApplied DEF CostInv, CostTyped
  <2> QED BY <1>2, <2>1 DEF CostInv, CostTyped, CostTypeOK
<1>5. metric # NoCost /\ Owned # {} BY <1>1 DEF CostInv, DayExists
<1>6. Owned' = Owned /\ Uncosted' = Uncosted BY <1>2, OwnedSame, UncostedSame
<1>7. LinesFollow'
  <2>1. ASSUME NEW q \in CostRequests, request[q].pc \in {"lines", "dead"}
        PROVE  request'[q].pc \in {"lines", "dead"}
    <3>1. q # r BY <1>1, <2>1
    <3> QED BY <1>3, <2>1, <3>1
  <2>2. Beside /\ sync.pc = sync'.pc BY <1>1, SyncBeside DEF CostInv, CostTyped
  <2> QED BY <1>2, <1>6, <2>1, <2>2 DEF CostInv, LinesFollow
<1>8. DayFollows' BY <1>3 DEF DayFollows
<1> QED BY <1>1, <1>2, <1>3, <1>4, <1>5, <1>6, <1>7, <1>8, RequestStep

LEMMA CostReachesDay ==
  ASSUME CostInv, NEW r \in CostRequests, RequestDay(r) PROVE CostInv'
<1>1. /\ request[r].pc = "day" /\ request' = [request EXCEPT ![r].pc = "done"] /\ Beside
      /\ ApplyToDay
  BY DEF RequestDay, RequestAt, Beside
<1>2. UNCHANGED << ownerCost, defaultCost, line, staged, promotion, syncs, settled >>
  BY DEF RequestDay
<1>3. /\ request' \in [CostRequests -> RequestShapes] /\ request'[r].pc = "done"
      /\ \A q \in CostRequests : q # r => request'[q] = request[q]
  BY <1>1, RequestMoves DEF RequestSteps, CostInv, CostTyped
<1>4. metric # NoCost /\ Owned # {} BY <1>1 DEF CostInv, DayExists
<1>5. metric' = SumCosts /\ metric' = SumCosts' BY <1>1, <1>2, <1>4, SumCostsSame DEF ApplyToDay
<1>6. metric' \in Nat /\ metric' # NoCost
  BY <1>5, SumCostsNatural, CostAssumption DEF CostInv, CostTyped
<1>7. CostTypeOK' BY <1>2, <1>6 DEF CostInv, CostTyped, CostTypeOK
<1>8. Owned' = Owned /\ Uncosted' = Uncosted BY <1>2, OwnedSame, UncostedSame
<1>9. LinesFollow'
  <2>1. ASSUME NEW q \in CostRequests, request[q].pc \in {"lines", "dead"}
        PROVE  request'[q].pc \in {"lines", "dead"}
    <3>1. q # r BY <1>1, <2>1
    <3> QED BY <1>3, <2>1, <3>1
  <2>2. Beside /\ sync.pc = sync'.pc BY <1>1, SyncBeside DEF CostInv, CostTyped
  <2> QED BY <1>2, <1>8, <2>1, <2>2 DEF CostInv, LinesFollow
<1>10. DayFollows' BY <1>5 DEF DayFollows
<1> QED BY <1>1, <1>2, <1>3, <1>4, <1>6, <1>7, <1>8, <1>9, <1>10, RequestStep

LEMMA CostRequestDies ==
  ASSUME CostInv, NEW r \in CostRequests, RequestDies(r) PROVE CostInv'
<1>1. /\ request[r].pc \notin {"rest", "done", "dead"}
      /\ request' = [request EXCEPT ![r].pc = "dead"] /\ Beside /\ settled' = FALSE
  BY DEF RequestDies, Active, Beside
<1>2. UNCHANGED << ownerCost, defaultCost, line, staged, metric, promotion, syncs >>
  BY DEF RequestDies
<1>3. /\ request' \in [CostRequests -> RequestShapes] /\ request'[r].pc = "dead"
      /\ \A q \in CostRequests : q # r => request'[q] = request[q]
  BY <1>1, RequestMoves DEF RequestSteps, CostInv, CostTyped
<1>4. metric # NoCost BY <1>1 DEF CostInv, DayExists
<1>5. CostTypeOK' BY <1>1, <1>2 DEF CostInv, CostTyped, CostTypeOK
<1>6. Owned' = Owned /\ Uncosted' = Uncosted BY <1>2, OwnedSame, UncostedSame
<1>7. LinesFollow' BY <1>3 DEF LinesFollow
<1>8. DayFollows' BY <1>1 DEF DayFollows
<1> QED BY <1>1, <1>2, <1>3, <1>4, <1>5, <1>6, <1>7, <1>8, RequestStep

LEMMA CostStutters == ASSUME CostInv, UNCHANGED costVars PROVE CostInv'
<1>1. UNCHANGED << ownerCost, defaultCost, line, staged, metric, promotion, sync, request,
                   syncs, settled >>
  BY DEF costVars
<1>2. Owned' = Owned /\ Uncosted' = Uncosted /\ SumCosts' = SumCosts /\ Active' = Active
  BY <1>1, OwnedSame, UncostedSame, SumCostsSame, ActiveSame
<1>3. CostTyped' BY <1>1 DEF CostInv, CostTyped, CostTypeOK
<1>4. Withdrawn' /\ LinesFollow' BY <1>1, <1>2 DEF CostInv, Withdrawn, LinesFollow
<1>5. Costed' /\ DayExists' BY <1>1, <1>2 DEF CostInv, Costed, DayExists
<1>6. AloneHolds' /\ DayFollows' BY <1>1, <1>2 DEF CostInv, AloneHolds, DayFollows
<1> QED BY <1>3, <1>4, <1>5, <1>6 DEF CostInv

\* The owner's costs stand (inventory-costs.ts, lightspeed.ts): in published data the
\* lines of a product have its owner's cost, a published day is the sum of its lines
\* once an import has run alone, and no published line is without a cost.
THEOREM CostsStand == CostSpec => []CostsAreSound
<1>1. CostInit => CostInv BY CostInitInv
<1>2. CostInv /\ [CostNext]_costVars => CostInv'
  <2> SUFFICES ASSUME CostInv, [CostNext]_costVars PROVE CostInv' OBVIOUS
  <2>1. CASE BeginSync BY <2>1, CostBegins
  <2>2. CASE WriteProducts BY <2>2, CostWritesProducts
  <2>3. CASE WriteLines BY <2>3, CostWritesLines
  <2>4. CASE CheckOverrides BY <2>4, CostChecks
  <2>5. CASE SyncLines BY <2>5, CostSyncsLines
  <2>6. CASE SyncSales BY <2>6, CostSyncsSales
  <2>7. CASE FillUnknown BY <2>7, CostFills
  <2>8. CASE CountMissing BY <2>8, CostCounts
  <2>9. CASE SumSales BY <2>9, CostSums
  <2>10. CASE PublishDays BY <2>10, CostPublishes
  <2>11. CASE FinishSync BY <2>11, CostFinishes
  <2>12. CASE SyncFails BY <2>12, CostSyncFails
  <2>13. ASSUME NEW r \in CostRequests, NEW p \in Products, NEW c \in OwnerAmounts,
                ReadProducts(r, p, c)
         PROVE  CostInv'
    BY <2>13, CostIsRead
  <2>14. ASSUME NEW r \in CostRequests, SaveCost(r) PROVE CostInv' BY <2>14, CostIsSaved
  <2>15. ASSUME NEW r \in CostRequests, RequestLines(r) PROVE CostInv'
    BY <2>15, CostReachesLines
  <2>16. ASSUME NEW r \in CostRequests, RequestSales(r) PROVE CostInv'
    BY <2>16, CostReachesSales
  <2>17. ASSUME NEW r \in CostRequests, RequestDay(r) PROVE CostInv'
    BY <2>17, CostReachesDay
  <2>18. ASSUME NEW r \in CostRequests, RequestDies(r) PROVE CostInv'
    BY <2>18, CostRequestDies
  <2>19. CASE UNCHANGED costVars BY <2>19, CostStutters
  <2> QED
    BY <2>1, <2>2, <2>3, <2>4, <2>5, <2>6, <2>7, <2>8, <2>9, <2>10, <2>11, <2>12, <2>13, <2>14,
       <2>15, <2>16, <2>17, <2>18, <2>19 DEF CostNext
<1>3. CostInv => CostsAreSound
  <2> SUFFICES ASSUME CostInv PROVE CostsAreSound OBVIOUS
  <2>1. CostTypeOK BY DEF CostInv, CostTyped
  <2>2. OwnerCostReachesLines
    <3> SUFFICES ASSUME promotion = "approved",
                        \A r \in CostRequests : request[r].pc \in {"rest", "done"}
                 PROVE  \A p \in Owned : line[p].cost = ownerCost[p]
      BY DEF OwnerCostReachesLines
    <3> QED BY DEF CostInv, LinesFollow
  <2>3. DayIsItsLines
    <3> SUFFICES ASSUME promotion = "approved", settled, Active = {} PROVE metric = SumCosts
      BY DEF DayIsItsLines
    <3>1. \A r \in CostRequests : request[r].pc \notin {"sales", "day"} BY DEF Active
    <3> QED BY <3>1 DEF CostInv, DayFollows
  <2>4. PublishedIsCosted BY DEF CostInv, Costed, PublishedIsCosted
  <2> QED BY <2>1, <2>2, <2>3, <2>4 DEF CostsAreSound
<1> QED BY <1>1, <1>2, <1>3, PTL DEF CostSpec

-----------------------------------------------------------------------------
(* Cash (CashFlow).                                                        *)

LEMMA MaxWithZero ==
  ASSUME NEW x \in Int PROVE Max({0, x}) = IF x > 0 THEN x ELSE 0
BY DEF Max

\* The recursions of the two folds are that of the sums above.
LEMMA TotalIsSum ==
  ASSUME NEW v, NEW S, IsFiniteSet(S), \A i \in S : v[i] = Signed(i)
  PROVE  Total(S) = SumOf(v, S)
<1> DEFINE Totals(g) == g = [s \in SUBSET S |->
                              IF s = {} THEN 0 ELSE Signed(One(s)) + g[s \ {One(s)}]]
           G == CHOOSE g : Totals(g)
           H == CHOOSE g : Table(g, v, S)
<1>1. Total(S) = G[S] BY DEF Total, MapThenSumSet, MapThenFoldSet, One
<1>2. SumOf(v, S) = H[S] BY SumIsTable
<1>3. \A s \in SUBSET S : s # {} => v[One(s)] = Signed(One(s)) BY OneIsIn
<1>4. ASSUME NEW g PROVE Totals(g) <=> Table(g, v, S) BY <1>3 DEF Table
<1>5. \E g : Table(g, v, S) BY TableExists
<1> HIDE DEF Totals
<1>6. Table(H, v, S) BY <1>5
<1>7. Totals(G)
  <2>1. \E g : Totals(g) BY <1>4, <1>5
  <2> QED BY <2>1
<1>8. Table(G, v, S) BY <1>4, <1>7
<1> HIDE DEF G, H
<1>9. \A s \in SUBSET S : s \subseteq S => G[s] = H[s] BY <1>6, <1>8, TablesAgree
<1> QED BY <1>1, <1>2, <1>9

Amounts(S) == MapThenSumSet(LAMBDA i : i.amount, S)

LEMMA AmountsAreSum ==
  ASSUME NEW v, NEW S, IsFiniteSet(S), \A i \in S : v[i] = i.amount
  PROVE  Amounts(S) = SumOf(v, S)
<1> DEFINE Totals(g) == g = [s \in SUBSET S |->
                              IF s = {} THEN 0 ELSE One(s).amount + g[s \ {One(s)}]]
           G == CHOOSE g : Totals(g)
           H == CHOOSE g : Table(g, v, S)
<1>1. Amounts(S) = G[S] BY DEF Amounts, MapThenSumSet, MapThenFoldSet, One
<1>2. SumOf(v, S) = H[S] BY SumIsTable
<1>3. \A s \in SUBSET S : s # {} => v[One(s)] = One(s).amount BY OneIsIn
<1>4. ASSUME NEW g PROVE Totals(g) <=> Table(g, v, S) BY <1>3 DEF Table
<1>5. \E g : Table(g, v, S) BY TableExists
<1> HIDE DEF Totals
<1>6. Table(H, v, S) BY <1>5
<1>7. Totals(G)
  <2>1. \E g : Totals(g) BY <1>4, <1>5
  <2> QED BY <2>1
<1>8. Table(G, v, S) BY <1>4, <1>7
<1> HIDE DEF G, H
<1>9. \A s \in SUBSET S : s \subseteq S => G[s] = H[s] BY <1>6, <1>8, TablesAgree
<1> QED BY <1>1, <1>2, <1>9

\* What a forecast is made of.
LEMMA ForecastNumbers ==
  ASSUME NEW in \in Forecasts
  PROVE  /\ in.asOf \in Int /\ in.opening \in Int \cup {NoCash} /\ in.threshold \in Nat
         /\ IsFiniteSet(in.items)
         /\ \A i \in in.items : /\ i.due \in Int /\ i.amount \in Nat
                                /\ Effective(in, i) \in Int
                                /\ Effective(in, i) >= in.asOf /\ Effective(in, i) >= i.due
                                /\ Effective(in, i) \in {in.asOf, i.due}
                                /\ Signed(i) \in Int
                                /\ i.direction = "out" => Signed(i) = -i.amount
<1>1. /\ in.asOf \in Int /\ in.opening \in Int \cup {NoCash} /\ in.threshold \in Nat
      /\ IsFiniteSet(in.items)
      /\ \A i \in in.items : /\ i.due \in Int /\ i.amount \in Nat
                             /\ i.direction \in {"in", "out"}
  BY CashAssumption
<1>2. ASSUME NEW i \in in.items
      PROVE  /\ Effective(in, i) \in {in.asOf, i.due}
             /\ Effective(in, i) >= in.asOf /\ Effective(in, i) >= i.due
  <2> DEFINE a == in.asOf  b == i.due
  <2>1. a \in Int /\ b \in Int BY <1>1
  <2>2. Effective(in, i) = Max({a, b}) BY DEF Effective
  <2> HIDE DEF a, b
  <2>3. \E m \in {a, b} : \A y \in {a, b} : m >= y BY <2>1
  <2>4. Max({a, b}) \in {a, b} /\ \A y \in {a, b} : Max({a, b}) >= y BY <2>3 DEF Max
  <2> QED BY <2>2, <2>4 DEF a, b
<1> QED BY <1>1, <1>2 DEF Signed

LEMMA WeekDays ==
  ASSUME NEW in \in Forecasts, NEW w \in 0..13
  PROVE  /\ WeekStart(in, w) \in Int /\ WeekEnd(in, w) \in Int
         /\ WeekEnd(in, 0) < in.asOf /\ in.asOf <= WeekEnd(in, 1)
         /\ w > 0 => /\ WeekEnd(in, w - 1) = WeekStart(in, w) - 1
                     /\ WeekStart(in, w) <= WeekEnd(in, w)
                     /\ in.asOf <= WeekEnd(in, w)
         /\ WeekEnd(in, w) <= WeekEnd(in, 13)
<1> DEFINE a == in.asOf  f == a - (a % 7)
<1>1. a \in Int /\ a % 7 \in 0..6 BY CashAssumption
<1>2. f \in Int /\ f <= a /\ a <= f + 6 BY <1>1
<1>3. ASSUME NEW u \in 0..13
      PROVE  WeekStart(in, u) = f + (u - 1) * 7 /\ WeekEnd(in, u) = f + (u - 1) * 7 + 6
  BY DEF WeekStart, WeekEnd, FirstWeek
<1>4. 0 \in 0..13 /\ 1 \in 0..13 /\ 13 \in 0..13 /\ w \in Int OBVIOUS
<1>5. w > 0 => w - 1 \in 0..13 OBVIOUS
<1>6. WeekStart(in, w) = f + (w - 1) * 7 /\ WeekEnd(in, w) = f + (w - 1) * 7 + 6 BY <1>3
<1>7. WeekEnd(in, 0) = f - 1 /\ WeekEnd(in, 1) = f + 6 /\ WeekEnd(in, 13) = f + 90
  BY <1>2, <1>3, <1>4
<1>8. w > 0 => WeekEnd(in, w - 1) = f + ((w - 1) - 1) * 7 + 6 BY <1>3, <1>5
<1> HIDE DEF a, f
<1>9. WeekStart(in, w) \in Int /\ WeekEnd(in, w) \in Int BY <1>2, <1>4, <1>6
<1>10. WeekEnd(in, 0) < a /\ a <= WeekEnd(in, 1) BY <1>1, <1>2, <1>7
<1>11. w > 0 => /\ WeekEnd(in, w - 1) = WeekStart(in, w) - 1
                /\ WeekStart(in, w) <= WeekEnd(in, w)
                /\ a <= WeekEnd(in, w)
  BY <1>1, <1>2, <1>4, <1>6, <1>8
<1>12. WeekEnd(in, w) <= WeekEnd(in, 13)
  <2>1. w <= 13 OBVIOUS
  <2> QED BY <1>2, <1>4, <1>6, <1>7, <2>1
<1> QED BY <1>9, <1>10, <1>11, <1>12 DEF a

\* The recursion over the weeks has one solution: the opening balance and all that
\* is due by the end of the week.
LEMMA ClosingIsSum ==
  ASSUME NEW in \in Forecasts, OpeningCash(in) # NoCash
  PROVE  Closing(in, in.items)[13] =
            in.opening + Total({i \in in.items : i.due <= WeekEnd(in, 13)})
<1> DEFINE O == OpeningCash(in)
           v == [i \in in.items |-> Signed(i)]
           T(w) == Total(WeekItems(in, w) \cap in.items)
           Upto(w) == {i \in in.items : Effective(in, i) <= WeekEnd(in, w)}
           h == [w \in 0..13 |-> O + SumOf(v, Upto(w))]
           Carried(g) == g = [w \in 0..13 |-> IF w = 0 THEN O ELSE g[w - 1] + T(w)]
           cash == CHOOSE g : Carried(g)
<1>1. O = in.opening /\ O \in Int BY ForecastNumbers DEF OpeningCash
<1>2. IsFiniteSet(in.items) /\ \A i \in in.items : v[i] = Signed(i) /\ v[i] \in Int
  BY ForecastNumbers
<1>3. Closing(in, in.items)[13] = cash[13] BY DEF Closing, Weeks
<1>4. \A w \in 0..13 : Upto(w) \in SUBSET in.items /\ IsFiniteSet(Upto(w)) BY <1>2, FS_Subset
<1>5. \A w \in 0..13 : SumOf(v, Upto(w)) \in Int BY <1>2, <1>4, SumIsInteger
<1> HIDE DEF v
<1>6. Upto(0) = {} /\ SumOf(v, Upto(0)) = 0
  <2>1. \A i \in in.items : ~(Effective(in, i) <= WeekEnd(in, 0))
    BY ForecastNumbers, WeekDays
  <2>2. Upto(0) = {} BY <2>1
  <2> QED BY <2>2, FS_EmptySet, SumByOne
<1>7. ASSUME NEW w \in 1..13
      PROVE  SumOf(v, Upto(w)) = SumOf(v, Upto(w - 1)) + T(w)
  <2> DEFINE A == Upto(w - 1)  B == WeekItems(in, w)
  <2>1. w - 1 \in 0..13 /\ w \in 0..13 OBVIOUS
  <2>2. /\ WeekEnd(in, w - 1) = WeekStart(in, w) - 1 /\ WeekStart(in, w) \in Int
        /\ WeekEnd(in, w) \in Int /\ WeekStart(in, w) <= WeekEnd(in, w)
    BY <2>1, WeekDays
  <2>3. \A i \in in.items : Effective(in, i) \in Int BY ForecastNumbers
  <2>4. A \cap B = {} /\ A \cup B = Upto(w) /\ B \subseteq in.items
    BY <2>2, <2>3 DEF WeekItems
  <2>5. IsFiniteSet(A) /\ IsFiniteSet(B) BY <1>2, <1>4, <2>1, <2>4, FS_Subset
  <2>6. \A i \in A \cup B : v[i] \in Int BY <1>2, <2>4
  <2>7. B \cap in.items = B BY <2>4
  <2>8. Total(B) = SumOf(v, B)
    <3>1. \A i \in B : v[i] = Signed(i) BY <1>2, <2>4
    <3> HIDE DEF B
    <3> QED BY <2>5, <3>1, TotalIsSum
  <2>9. T(w) = SumOf(v, B) BY <2>7, <2>8
  <2> HIDE DEF A, B, T
  <2>10. SumOf(v, A \cup B) = SumOf(v, A) + SumOf(v, B) BY <2>4, <2>5, <2>6, SumOfBoth
  <2> QED BY <2>4, <2>9, <2>10 DEF A
<1> HIDE DEF T, Upto, O
<1>8. Carried(h)
  <2>1. ASSUME NEW w \in 0..13
        PROVE  h[w] = IF w = 0 THEN O ELSE h[w - 1] + T(w)
    <3>1. CASE w = 0
      <4>1. h[0] = O + SumOf(v, Upto(0)) OBVIOUS
      <4> QED BY <1>1, <1>6, <3>1, <4>1
    <3>2. CASE w # 0
      <4>1. w \in 1..13 /\ w - 1 \in 0..13 BY <3>2
      <4>2. h[w] = O + SumOf(v, Upto(w)) /\ h[w - 1] = O + SumOf(v, Upto(w - 1)) BY <4>1
      <4>3. SumOf(v, Upto(w)) = SumOf(v, Upto(w - 1)) + T(w) BY <1>7, <4>1
      <4>4. SumOf(v, Upto(w)) \in Int /\ SumOf(v, Upto(w - 1)) \in Int BY <1>5, <4>1
      <4> DEFINE a == SumOf(v, Upto(w))  b == SumOf(v, Upto(w - 1))  c == T(w)
      <4>5. c = Total(WeekItems(in, w) \cap in.items) BY DEF T
      <4>6. c \in Int
        <5>1. WeekItems(in, w) \cap in.items \subseteq in.items OBVIOUS
        <5>2. IsFiniteSet(WeekItems(in, w) \cap in.items) BY <1>2, <5>1, FS_Subset
        <5>3. Total(WeekItems(in, w) \cap in.items) = SumOf(v, WeekItems(in, w) \cap in.items)
          BY <1>2, <5>1, <5>2, TotalIsSum
        <5>4. SumOf(v, WeekItems(in, w) \cap in.items) \in Int
          BY <1>2, <5>1, SumIsInteger
        <5> QED BY <4>5, <5>3, <5>4
      <4> HIDE DEF a, b, c, h
      <4>7. h[w] = O + a /\ h[w - 1] = O + b /\ a = b + c BY <4>2, <4>3 DEF a, b, c
      <4>8. h[w] = h[w - 1] + c BY <1>1, <4>4, <4>6, <4>7 DEF a, b
      <4> QED BY <3>2, <4>8 DEF c
    <3> QED BY <3>1, <3>2
  <2>2. h = [w \in 0..13 |-> h[w]] OBVIOUS
  <2> HIDE DEF h
  <2> QED BY <2>1, <2>2
<1>9. Carried(cash)
  <2> HIDE DEF Carried, h
  <2> QED BY <1>8
<1>10. ASSUME NEW g, Carried(g) PROVE \A w \in 0..13 : g[w] = h[w]
  <2> DEFINE E == {w \in 0..13 : g[w] # h[w]}
  <2> SUFFICES ASSUME E # {} PROVE FALSE OBVIOUS
  <2> DEFINE w == Min(E)
  <2>1. E \subseteq Nat OBVIOUS
  <2>2. w \in E /\ \A y \in E : w <= y
    <3> HIDE DEF E
    <3> QED BY <2>1, LeastOf
  <2> HIDE DEF w
  <2>3. w \in 0..13 /\ g[w] # h[w] BY <2>2
  <2> HIDE DEF h
  <2>4. /\ g[w] = IF w = 0 THEN O ELSE g[w - 1] + T(w)
        /\ h[w] = IF w = 0 THEN O ELSE h[w - 1] + T(w)
    BY <1>8, <1>10, <2>3
  <2>5. w # 0 BY <2>3, <2>4
  <2>6. w - 1 \in 0..13 /\ w - 1 < w BY <2>3, <2>5
  <2>7. g[w - 1] = h[w - 1] BY <2>2, <2>6
  <2> QED BY <2>3, <2>4, <2>5, <2>7
<1>11. cash[13] = h[13]
  <2> HIDE DEF Carried, cash, h
  <2> QED BY <1>9, <1>10
<1>12. h[13] = O + SumOf(v, Upto(13)) OBVIOUS
<1>13. Upto(13) = {i \in in.items : i.due <= WeekEnd(in, 13)}
  <2>1. in.asOf <= WeekEnd(in, 13) /\ WeekEnd(in, 13) \in Int /\ in.asOf \in Int
    BY WeekDays, ForecastNumbers
  <2>2. ASSUME NEW i \in in.items
        PROVE  Effective(in, i) <= WeekEnd(in, 13) <=> i.due <= WeekEnd(in, 13)
    <3>1. /\ i.due \in Int /\ Effective(in, i) \in Int /\ Effective(in, i) >= i.due
          /\ Effective(in, i) \in {in.asOf, i.due}
      BY ForecastNumbers
    <3> QED BY <2>1, <3>1
  <2> QED BY <2>2 DEF Upto
<1>14. Total(Upto(13)) = SumOf(v, Upto(13)) BY <1>2, <1>4, TotalIsSum
<1> HIDE DEF h, cash, Carried
<1> QED BY <1>1, <1>3, <1>11, <1>12, <1>13, <1>14

\* What is paid by the end of a week of the forecast is among what is owed.
LEMMA CapacityHolds ==
  ASSUME NEW in \in Forecasts, Capacity(in) # NoCash, Capacity(in) > 0, NEW w \in Weeks
  PROVE  in.opening - Capacity(in)
         - Amounts({i \in in.items : /\ i.direction = "out" /\ i.certainty = "confirmed"
                                     /\ Effective(in, i) <= WeekEnd(in, w)})
            >= in.threshold
<1> DEFINE D == {i \in Certain(in.items) : i.direction = "out"}
           A == {i \in Certain(in.items) : i.direction = "out" /\ i.due <= WeekEnd(in, 13)}
           P == {i \in in.items : /\ i.direction = "out" /\ i.certainty = "confirmed"
                                  /\ Effective(in, i) <= WeekEnd(in, w)}
           v == [i \in in.items |-> i.amount]
           u == [i \in in.items |-> Signed(i)]
<1>1. in.opening \in Int /\ in.threshold \in Nat
  <2>1. OpeningCash(in) # NoCash BY DEF Capacity, CapacityStatus
  <2> QED BY <2>1, ForecastNumbers DEF OpeningCash
<1>2. A \subseteq D /\ P \subseteq D /\ D \subseteq in.items BY DEF Certain
<1>3. P \subseteq A
  <2>1. WeekEnd(in, w) <= WeekEnd(in, 13) /\ WeekEnd(in, w) \in Int /\ WeekEnd(in, 13) \in Int
    <3>1. w \in 0..13 /\ 13 \in 0..13 BY DEF Weeks
    <3> QED BY <3>1, WeekDays
  <2>2. ASSUME NEW i \in in.items, Effective(in, i) <= WeekEnd(in, w)
        PROVE  i.due <= WeekEnd(in, 13)
    <3>1. i.due \in Int /\ Effective(in, i) \in Int /\ Effective(in, i) >= i.due
      BY ForecastNumbers
    <3> QED BY <2>1, <2>2, <3>1
  <2> QED BY <2>2 DEF Certain
<1>4. IsFiniteSet(D) /\ IsFiniteSet(A) /\ IsFiniteSet(P)
  <2>1. IsFiniteSet(in.items) BY ForecastNumbers
  <2> HIDE DEF D, A, P
  <2> QED BY <1>2, <2>1, FS_Subset
<1>5. \A i \in D : /\ v[i] = i.amount /\ v[i] \in Nat
                   /\ u[i] = Signed(i) /\ u[i] \in Int /\ u[i] = -v[i]
  BY <1>2, ForecastNumbers
<1> HIDE DEF D, A, P, v, u
<1>6. ASSUME NEW S \in SUBSET D, IsFiniteSet(S) PROVE -Total(S) = SumOf(v, S)
  <2>1. Total(S) = SumOf(u, S) BY <1>5, <1>6, TotalIsSum
  <2>2. \A i \in S : v[i] \in Int /\ u[i] = -v[i] BY <1>5
  <2>3. SumOf(u, S) = -SumOf(v, S) BY <1>6, <2>2, SumNegated
  <2>4. SumOf(v, S) \in Int BY <1>6, <2>2, SumIsInteger
  <2> QED BY <2>1, <2>3, <2>4
<1>7. Amounts(P) = SumOf(v, P) BY <1>2, <1>4, <1>5, AmountsAreSum
<1>8. SumOf(v, P) \in Nat /\ SumOf(v, P) <= SumOf(v, A)
  BY <1>2, <1>3, <1>4, <1>5, SumOfPart
<1>9. SumOf(v, A) \in Nat /\ SumOf(v, A) <= SumOf(v, D) /\ SumOf(v, D) \in Nat
  BY <1>2, <1>4, <1>5, SumOfPart
<1>10. Obligations(in) = SumOf(v, D) \/ Obligations(in) = SumOf(v, A)
  <2>1. -Total(D) = SumOf(v, D) /\ -Total(A) = SumOf(v, A) BY <1>2, <1>4, <1>6
  <2>2. Obligations(in) = -Total(D) \/ Obligations(in) = -Total(A)
    BY DEF Obligations, ConfirmedOutflows, D, A
  <2> QED BY <2>1, <2>2
<1> DEFINE o == Obligations(in)  p == Amounts(P)  c == Capacity(in)
           x == in.opening  t == in.threshold
<1>11. o \in Int /\ p \in Int /\ p <= o BY <1>7, <1>8, <1>9, <1>10
<1>12. c = x - t - o
  <2>1. c = Max({0, x - t - o}) BY DEF Capacity
  <2>2. x - t - o \in Int BY <1>1, <1>11
  <2> HIDE DEF o, x, t
  <2>3. c = IF x - t - o > 0 THEN x - t - o ELSE 0 BY <2>1, <2>2, MaxWithZero
  <2>4. c > 0 OBVIOUS
  <2> HIDE DEF c
  <2> QED BY <2>2, <2>3, <2>4
<1>13. x - c - p >= t
  <2> HIDE DEF o, p, c, x, t
  <2>1. x \in Int /\ t \in Int BY <1>1 DEF x, t
  <2> QED BY <1>11, <1>12, <2>1
<1> QED BY <1>13 DEF P

\* The buckets of a window end where the next begins.
LEMMA DaysAreCut ==
  ASSUME NEW days \in Nat \ {0}, NEW day \in 0..(days - 1)
  PROVE  Cardinality({b \in 1..Buckets(days) : day \in BucketDays(days, b)}) = 1
<1> DEFINE k == IF days > 90 THEN 12 ELSE 6
           n == Buckets(days)
           F(b) == (b * days) \div n
           E == {b \in 1..n : day < F(b)}
           b0 == Min(E)
<1>1. n \in Nat \ {0}
  <2>1. {days, k} \subseteq Nat \ {0} /\ {days, k} # {} OBVIOUS
  <2> HIDE DEF k
  <2>2. Min({days, k}) \in {days, k} BY <2>1, LeastOf
  <2>3. n = Min({days, k}) BY DEF Buckets, k
  <2> QED BY <2>1, <2>2, <2>3
<1> HIDE DEF k, n
<1>2. ASSUME NEW b \in 0..n PROVE b * days \in Nat /\ F(b) \in Int
  BY <1>1
<1>3. ASSUME NEW b \in 0..n, NEW c \in 0..n, b <= c PROVE F(b) <= F(c)
  <2>1. b * days <= c * days BY <1>1, <1>3, TimesMonotone
  <2>2. b * days \in Int /\ c * days \in Int BY <1>1, <1>2
  <2> QED BY <1>1, <2>1, <2>2, DivMonotone
<1>4. F(0) = 0 /\ F(n) = days
  <2>1. 0 * days = 0 OBVIOUS
  <2>2. 0 \div n = 0 BY <1>1
  <2>3. (n * days) \div n = days BY <1>1
  <2> QED BY <2>1, <2>2, <2>3
<1>5. n \in 0..n /\ 0 \in 0..n BY <1>1
<1>6. \A b \in 1..n : BucketDays(days, b) = F(b - 1)..(F(b) - 1)
  BY DEF BucketDays, n
<1> HIDE DEF F
<1>7. b0 \in E /\ \A b \in E : b0 <= b
  <2>1. E \subseteq Nat OBVIOUS
  <2>2. n \in E BY <1>1, <1>4
  <2> HIDE DEF E
  <2> QED BY <2>1, <2>2, LeastOf
<1> HIDE DEF b0
<1>8. b0 \in 1..n /\ day < F(b0) /\ b0 - 1 \in 0..n /\ F(b0) \in Int /\ F(b0 - 1) \in Int
  BY <1>1, <1>2, <1>7
<1>9. F(b0 - 1) <= day
  <2>1. CASE b0 = 1 BY <1>4, <2>1
  <2>2. CASE b0 # 1
    <3>1. b0 - 1 \in 1..n BY <1>1, <1>8, <2>2
    <3>2. b0 - 1 \notin E BY <1>7, <1>8
    <3> QED BY <1>8, <3>1, <3>2
  <2> QED BY <2>1, <2>2
<1>10. day \in BucketDays(days, b0) BY <1>6, <1>8, <1>9
<1>11. ASSUME NEW b \in 1..n, day \in BucketDays(days, b) PROVE b = b0
  <2>1. b \in 0..n /\ b - 1 \in 0..n /\ F(b) \in Int /\ F(b - 1) \in Int BY <1>1, <1>2
  <2>2. F(b - 1) <= day /\ day < F(b) BY <1>6, <1>11, <2>1
  <2>3. b \in E BY <2>2
  <2>4. b0 <= b BY <1>7, <2>3
  <2>5. ASSUME b0 < b PROVE FALSE
    <3>1. b0 \in 0..n /\ b0 <= b - 1 BY <1>1, <1>8, <2>5
    <3>2. F(b0) <= F(b - 1) BY <1>3, <2>1, <3>1
    <3> QED BY <1>8, <2>1, <2>2, <3>2
  <2> QED BY <1>8, <2>4, <2>5
<1>12. {b \in 1..n : day \in BucketDays(days, b)} = {b0} BY <1>8, <1>10, <1>11
<1> QED BY <1>12, FS_Singleton DEF n

\* Without the amount, the points do not reach a suggestion.
LEMMA ScoreNeedsTheAmount ==
  ASSUME NEW m, MatchScore(m) >= 5500 PROVE m.amount = m.candidate.amount
<1> DEFINE p(holds, points) == Points(holds, points)
           x == p(m.candidate.reference \in m.words, 2000)
           y == p(Apart(m.day, m.candidate.day) <= 7, 1500)
           z == p(m.candidate.label \cap m.words # {}, 1000)
<1>1. x \in {0, 2000} /\ y \in {0, 1500} /\ z \in {0, 1000} BY DEF Points
<1>2. ASSUME m.amount # m.candidate.amount PROVE FALSE
  <2>1. p(m.amount = m.candidate.amount, 5500) = 0 BY <1>2 DEF Points
  <2>2. MatchScore(m) = 0 + x + y + z BY <2>1 DEF MatchScore
  <2> HIDE DEF x, y, z
  <2> QED BY <1>1, <2>2
<1> QED BY <1>2

\* Every answer is that of the input before it.
AnswersFollow ==
    /\ books.kind = "forecast" => books.in \in Forecasts
    /\ books.kind = "activity" => books.in \in Windows
    /\ forecast # NoCash =>
          /\ books.kind = "forecast"
          /\ forecast = [planning |-> Closing(books.in, books.in.items),
                         conservative |-> Closing(books.in, Certain(books.in.items)),
                         capacity |-> Capacity(books.in)]
    /\ activity # NoCash =>
          /\ books.kind = "activity"
          /\ activity = [b \in 1..Buckets(books.in) |-> BucketDays(books.in, b)]
    /\ match # NoCash /\ match.suggested => MatchScore(books.in) >= 5500

LEMMA CashInitFollows == CashInit => AnswersFollow
BY DEF CashInit, AnswersFollow

LEMMA CashStepsFollow == AnswersFollow /\ [CashNext]_cashVars => AnswersFollow'
<1> SUFFICES ASSUME AnswersFollow, [CashNext]_cashVars PROVE AnswersFollow'
  OBVIOUS
<1>1. CASE BuildForecast BY <1>1 DEF BuildForecast, AnswersFollow
<1>2. CASE BuildActivity BY <1>2 DEF BuildActivity, AnswersFollow
<1>3. CASE SuggestMatch BY <1>3 DEF SuggestMatch, AnswersFollow
<1>4. CASE UNCHANGED cashVars BY <1>4 DEF cashVars, AnswersFollow
<1> QED BY <1>1, <1>2, <1>3, <1>4 DEF CashNext

LEMMA CashFollows == AnswersFollow => CashIsSound
<1> SUFFICES ASSUME AnswersFollow PROVE CashIsSound
  OBVIOUS
<1>1. EveryItemOnce
  <2> SUFFICES ASSUME forecast # NoCash, OpeningCash(books.in) # NoCash
               PROVE  forecast.planning[13] =
                        books.in.opening
                        + Total({i \in books.in.items : i.due <= WeekEnd(books.in, 13)})
    BY DEF EveryItemOnce
  <2>1. books.in \in Forecasts /\ forecast.planning = Closing(books.in, books.in.items)
    BY DEF AnswersFollow
  <2> QED BY <2>1, ClosingIsSum
<1>2. CapacityIsSafe
  <2> SUFFICES ASSUME forecast # NoCash, forecast.capacity # NoCash, forecast.capacity > 0,
                      NEW w \in Weeks
               PROVE  books.in.opening - forecast.capacity
                      - MapThenSumSet(LAMBDA i : i.amount,
                            {i \in books.in.items :
                                /\ i.direction = "out" /\ i.certainty = "confirmed"
                                /\ Effective(books.in, i) <= WeekEnd(books.in, w)})
                        >= books.in.threshold
    BY DEF CapacityIsSafe
  <2>1. books.in \in Forecasts /\ forecast.capacity = Capacity(books.in)
    BY DEF AnswersFollow
  <2>2. books.in.opening - Capacity(books.in)
        - Amounts({i \in books.in.items : /\ i.direction = "out" /\ i.certainty = "confirmed"
                                          /\ Effective(books.in, i) <= WeekEnd(books.in, w)})
          >= books.in.threshold
    BY <2>1, CapacityHolds
  <2> QED BY <2>1, <2>2 DEF Amounts
<1>3. EveryDayOnce
  <2> SUFFICES ASSUME activity # NoCash, NEW day \in 0..(books.in - 1)
               PROVE  Cardinality({b \in DOMAIN activity : day \in activity[b]}) = 1
    BY DEF EveryDayOnce
  <2>1. /\ books.in \in Nat \ {0}
        /\ activity = [b \in 1..Buckets(books.in) |-> BucketDays(books.in, b)]
    <3>1. /\ books.in \in Windows
          /\ activity = [b \in 1..Buckets(books.in) |-> BucketDays(books.in, b)]
      BY DEF AnswersFollow
    <3>2. Windows \subseteq Nat \ {0} BY CashAssumption
    <3> QED BY <3>1, <3>2
  <2>2. {b \in DOMAIN activity : day \in activity[b]}
          = {b \in 1..Buckets(books.in) : day \in BucketDays(books.in, b)}
    BY <2>1
  <2> QED BY <2>1, <2>2, DaysAreCut
<1>4. SuggestedAmountsAgree
  BY ScoreNeedsTheAmount DEF SuggestedAmountsAgree, AnswersFollow
<1> QED BY <1>1, <1>2, <1>3, <1>4 DEF CashIsSound

\* The forecast of the coming weeks, what purchasing may spend, the chart and the
\* suggestions: every due item moves the planned balance once, the capacity can be
\* spent today without the balance falling below the threshold, every day of a window
\* is in one bucket, and no other amount is ever suggested.
THEOREM CashStands == CashSpec => []CashIsSound
<1>1. AnswersFollow /\ [CashNext]_cashVars => AnswersFollow' BY CashStepsFollow
<1>2. CashInit => AnswersFollow BY CashInitFollows
<1>3. AnswersFollow => CashIsSound BY CashFollows
<1> QED BY <1>1, <1>2, <1>3, PTL DEF CashSpec

-----------------------------------------------------------------------------
(* Orders of the reorder engine (ReorderEngine).                           *)

LEMMA WholePacks == ASSUME NEW k \in Nat, NEW d \in Nat \ {0} PROVE (k * d) % d = 0
OBVIOUS

\* The greater and the least of a few numbers.
LEMMA ZeroOrMore ==
  ASSUME NEW x \in Int
  PROVE  AtLeastZero(x) \in Nat /\ AtLeastZero(x) = IF x > 0 THEN x ELSE 0
BY DEF AtLeastZero, Max

LEMMA MaxOfThree ==
  ASSUME NEW a \in Int, NEW b \in Int, NEW c \in Int
  PROVE  /\ Max({a, b, c}) \in {a, b, c}
         /\ Max({a, b, c}) >= a /\ Max({a, b, c}) >= b /\ Max({a, b, c}) >= c
<1>1. \E m \in {a, b, c} : \A y \in {a, b, c} : m >= y
  <2>1. CASE a >= b /\ a >= c BY <2>1
  <2>2. CASE b >= a /\ b >= c BY <2>2
  <2>3. CASE c >= a /\ c >= b BY <2>3
  <2> QED BY <2>1, <2>2, <2>3
<1> DEFINE m == Max({a, b, c})
<1>2. m \in {a, b, c} /\ \A y \in {a, b, c} : m >= y BY <1>1 DEF Max
<1> HIDE DEF m
<1>3. m >= a /\ m >= b /\ m >= c BY <1>2
<1> QED BY <1>2, <1>3 DEF m

LEMMA CeilBounds ==
  ASSUME NEW x \in Int, NEW d \in Nat \ {0}
  PROVE  /\ CeilDiv(x, d) \in Int /\ CeilDiv(x, d) * d >= x
         /\ x >= 0 => CeilDiv(x, d) \in Nat
<1> DEFINE q == (-x) \div d
<1>1. q \in Int /\ q * d <= -x /\ -x < q * d + d BY DivBounds
<1>2. CeilDiv(x, d) = -q BY DEF CeilDiv
<1>3. x >= 0 => q <= 0
  <2>1. x >= 0 => q <= 0 \div d BY DivMonotone
  <2>2. 0 \div d = 0 OBVIOUS
  <2> QED BY <2>1, <2>2
<1> HIDE DEF q
<1>4. (-q) * d = -(q * d) BY <1>1
<1> QED BY <1>1, <1>2, <1>3, <1>4

LEMMA CeilMonotone ==
  ASSUME NEW x \in Int, NEW y \in Int, x <= y, NEW d \in Nat \ {0}
  PROVE  CeilDiv(x, d) <= CeilDiv(y, d)
<1>1. (-y) \div d <= (-x) \div d BY DivMonotone
<1>2. (-y) \div d \in Int /\ (-x) \div d \in Int BY DivBounds
<1> QED BY <1>1, <1>2 DEF CeilDiv

\* Rounding up is not below, rounding down not above; both are whole packs.
LEMMA RoundsUp ==
  ASSUME NEW x \in Int, NEW d \in Nat \ {0}
  PROVE  /\ RoundUp(x, d) \in Nat /\ RoundUp(x, d) >= x /\ RoundUp(x, d) % d = 0
<1> DEFINE k == CeilDiv(AtLeastZero(x), d)
<1>1. AtLeastZero(x) \in Nat /\ AtLeastZero(x) >= x BY ZeroOrMore
<1>2. k \in Nat /\ k * d >= AtLeastZero(x) BY <1>1, CeilBounds
<1>3. RoundUp(x, d) = k * d BY DEF RoundUp
<1> HIDE DEF k
<1>4. k * d \in Nat /\ (k * d) % d = 0 BY <1>2, WholePacks
<1> QED BY <1>1, <1>2, <1>3, <1>4

LEMMA RoundsUpMonotone ==
  ASSUME NEW x \in Int, NEW y \in Int, x <= y, NEW d \in Nat \ {0}
  PROVE  RoundUp(x, d) <= RoundUp(y, d)
<1> DEFINE a == AtLeastZero(x)  b == AtLeastZero(y)
<1>1. a \in Nat /\ b \in Nat /\ a <= b BY ZeroOrMore
<1> HIDE DEF a, b
<1> DEFINE j == CeilDiv(a, d)  k == CeilDiv(b, d)
<1>2. j \in Int /\ k \in Int /\ j <= k BY <1>1, CeilBounds, CeilMonotone
<1> HIDE DEF j, k
<1>3. j * d <= k * d BY <1>2, TimesMonotone
<1> QED BY <1>3 DEF RoundUp, a, b, j, k

LEMMA RoundsDown ==
  ASSUME NEW x \in Int, NEW d \in Nat \ {0}
  PROVE  /\ RoundDown(x, d) \in Nat /\ RoundDown(x, d) <= AtLeastZero(x)
         /\ RoundDown(x, d) % d = 0
<1> DEFINE a == AtLeastZero(x)
<1>1. a \in Nat BY ZeroOrMore
<1> DEFINE k == a \div d
<1>2. k \in Nat /\ k * d <= a
  <2> HIDE DEF a
  <2>1. k \in Int /\ k * d <= a BY <1>1, DivBounds
  <2>2. 0 \div d <= k BY <1>1, DivMonotone
  <2>3. 0 \div d = 0 OBVIOUS
  <2> QED BY <2>1, <2>2, <2>3
<1>3. RoundDown(x, d) = k * d BY DEF RoundDown
<1> HIDE DEF k, a
<1>4. k * d \in Nat /\ (k * d) % d = 0 BY <1>2, WholePacks
<1> QED BY <1>2, <1>3, <1>4 DEF a

\* What a request brings.
LEMMA RequestNumbers ==
  ASSUME NEW in \in ReorderRequests
  PROVE  /\ in.onHand \in Nat /\ in.incoming \in Nat /\ in.demand \in Nat /\ in.review \in Nat
         /\ in.lead \in Nat /\ in.z \in Nat /\ in.deviation \in Nat \cup {Null}
         /\ in.season \in Nat /\ in.promotion \in Nat /\ in.weather \in Nat
         /\ in.pack \in Nat \ {0} /\ in.cost \in Nat \ {0}
         /\ in.minimum \in Nat /\ in.minimumSpend \in Nat
         /\ in.cash \in Nat /\ in.threshold \in Nat /\ in.commitments \in Nat
         /\ in.shelfLife \in Nat \cup {Null} /\ in.storage \in Nat \cup {Null}
         /\ in.expiring \in Nat
         /\ Null \notin Nat
BY ReorderAssumption

LEMMA SafetyIsInteger == ASSUME NEW in \in ReorderRequests PROVE SafetyStock(in) \in Int
<1>1. CASE in.deviation = Null
  <2>1. in.demand * in.lead \in Nat BY RequestNumbers
  <2>2. CeilDiv(in.demand * in.lead, 4) \in Int BY <2>1, CeilBounds
  <2> QED BY <1>1, <2>2 DEF SafetyStock
<1>2. CASE in.deviation # Null
  <2>1. in.z \in Nat /\ in.deviation \in Nat BY <1>2, RequestNumbers
  <2>2. SqrtOf(in.lead) \in Nat
    <3>1. \E r \in 0..in.lead : r * r = in.lead BY ReorderAssumption
    <3>2. SqrtOf(in.lead) \in 0..in.lead BY <3>1 DEF SqrtOf
    <3> QED BY <3>2, RequestNumbers
  <2>3. SafetyStock(in) = in.z * in.deviation * SqrtOf(in.lead) BY <1>2 DEF SafetyStock
  <2> DEFINE a == in.z  b == in.deviation  c == SqrtOf(in.lead)
  <2>4. a \in Nat /\ b \in Nat /\ c \in Nat BY <2>1, <2>2
  <2> HIDE DEF a, b, c
  <2>5. a * b * c \in Int BY <2>4
  <2> QED BY <2>3, <2>5 DEF a, b, c
<1> QED BY <1>1, <1>2

\* More demand, more need.
LEMMA NeedGrows ==
  ASSUME NEW in \in ReorderRequests, NEW f \in Nat, NEW g \in Nat, f <= g
  PROVE  NetNeed(in, f) \in Nat /\ NetNeed(in, g) \in Nat /\ NetNeed(in, f) <= NetNeed(in, g)
<1> DEFINE base == in.demand * (in.lead + in.review) * in.season * in.promotion * in.weather
<1>1. base \in Nat
  <2> DEFINE a == in.demand  b == in.lead + in.review  c == in.season  d == in.promotion
             e == in.weather
  <2>1. a \in Nat /\ b \in Nat /\ c \in Nat /\ d \in Nat /\ e \in Nat BY RequestNumbers
  <2>2. base = a * b * c * d * e OBVIOUS
  <2> HIDE DEF a, b, c, d, e, base
  <2>3. a * b \in Nat BY <2>1
  <2>4. a * b * c \in Nat BY <2>1, <2>3
  <2>5. a * b * c * d \in Nat BY <2>1, <2>4
  <2>6. a * b * c * d * e \in Nat BY <2>1, <2>5
  <2> QED BY <2>2, <2>6
<1>2. DemandUnits(in, f) = CeilDiv(base * f, 160000)
      /\ DemandUnits(in, g) = CeilDiv(base * g, 160000)
  BY DEF DemandUnits
<1> HIDE DEF base
<1>3. base * f \in Nat /\ base * g \in Nat /\ base * f <= base * g BY <1>1
<1>4. /\ DemandUnits(in, f) \in Int /\ DemandUnits(in, g) \in Int
      /\ DemandUnits(in, f) <= DemandUnits(in, g)
  BY <1>2, <1>3, CeilBounds, CeilMonotone
<1> DEFINE rest == SafetyStock(in) - AtLeastZero(in.onHand - in.expiring) - in.incoming
           m == DemandUnits(in, f)  n == DemandUnits(in, g)
<1>5. rest \in Int
  <2>1. SafetyStock(in) \in Int BY SafetyIsInteger
  <2>2. AtLeastZero(in.onHand - in.expiring) \in Nat BY RequestNumbers, ZeroOrMore
  <2> QED BY <2>1, <2>2, RequestNumbers
<1>6. NetNeed(in, f) = AtLeastZero(m + rest) /\ NetNeed(in, g) = AtLeastZero(n + rest)
  <2>1. SafetyStock(in) \in Int BY SafetyIsInteger
  <2>2. AtLeastZero(in.onHand - in.expiring) \in Nat BY RequestNumbers, ZeroOrMore
  <2> QED BY <1>4, <2>1, <2>2, RequestNumbers DEF NetNeed
<1> HIDE DEF rest, m, n
<1>7. m \in Int /\ n \in Int /\ m <= n BY <1>4 DEF m, n
<1> QED BY <1>5, <1>6, <1>7, ZeroOrMore

\* The need, raised to the minimums in whole packs.
LEMMA UnconstrainedIsEnough ==
  ASSUME NEW in \in ReorderRequests, NEW f \in Nat
  PROVE  /\ Unconstrained(in, f) \in Nat /\ Unconstrained(in, f) % in.pack = 0
         /\ Unconstrained(in, f) >= NetNeed(in, f)
         /\ Unconstrained(in, f) # 0 =>
               /\ Unconstrained(in, f) >= in.minimum
               /\ Unconstrained(in, f) * in.cost >= in.minimumSpend
<1> DEFINE need == NetNeed(in, f)
           spend == MinimumSpendUnits(in)
           most == Max({need, in.minimum, spend})
<1>1. need \in Nat BY NeedGrows
<1>2. spend \in Nat /\ spend * in.cost >= in.minimumSpend
  BY CeilBounds, RequestNumbers DEF MinimumSpendUnits
<1>3. Unconstrained(in, f) = IF need = 0 THEN 0 ELSE RoundUp(most, in.pack)
  BY DEF Unconstrained
<1>4. in.minimum \in Nat /\ in.pack \in Nat \ {0} /\ in.cost \in Nat \ {0}
      /\ in.minimumSpend \in Nat
  BY RequestNumbers
<1> DEFINE minimum == in.minimum
<1>5. most \in Int /\ most >= need /\ most >= minimum /\ most >= spend
  <2> HIDE DEF need, spend, minimum
  <2>1. minimum \in Int BY <1>4 DEF minimum
  <2>2. need \in Int /\ spend \in Int BY <1>1, <1>2
  <2>3. /\ Max({need, minimum, spend}) \in {need, minimum, spend}
        /\ Max({need, minimum, spend}) >= need /\ Max({need, minimum, spend}) >= minimum
        /\ Max({need, minimum, spend}) >= spend
    BY <2>1, <2>2, MaxOfThree, Zenon
  <2>4. most = Max({need, minimum, spend}) BY DEF minimum
  <2> HIDE DEF most
  <2> QED BY <2>1, <2>2, <2>3, <2>4
<1> HIDE DEF need, spend, most
<1>6. CASE need = 0
  <2>1. Unconstrained(in, f) = 0 BY <1>3, <1>6
  <2>2. 0 % in.pack = 0 BY <1>4
  <2> QED BY <1>1, <1>6, <2>1, <2>2 DEF need
<1>7. CASE need # 0
  <2> DEFINE u == RoundUp(most, in.pack)
  <2>1. u \in Nat /\ u >= most /\ u % in.pack = 0 BY <1>4, <1>5, RoundsUp
  <2>2. Unconstrained(in, f) = u BY <1>3, <1>7
  <2> HIDE DEF u
  <2>3. u >= spend /\ u >= need /\ u >= minimum BY <1>1, <1>2, <1>4, <1>5, <2>1
  <2>4. spend * in.cost <= u * in.cost
    BY <1>2, <1>4, <2>1, <2>3, TimesMonotone
  <2> DEFINE x == spend * in.cost  y == u * in.cost
  <2>5. x \in Int /\ y \in Int BY <1>2, <1>4, <2>1
  <2>6. x >= in.minimumSpend /\ x <= y BY <1>2, <2>4
  <2> HIDE DEF x, y
  <2>7. y >= in.minimumSpend BY <1>4, <2>5, <2>6
  <2> QED BY <2>1, <2>2, <2>3, <2>7 DEF need, y, minimum
<1> QED BY <1>6, <1>7

LEMMA UnconstrainedGrows ==
  ASSUME NEW in \in ReorderRequests, NEW f \in Nat, NEW g \in Nat, f <= g
  PROVE  Unconstrained(in, f) <= Unconstrained(in, g)
<1> DEFINE a == NetNeed(in, f)  b == NetNeed(in, g)
           minimum == in.minimum  spend == MinimumSpendUnits(in)
           m == Max({a, minimum, spend})  n == Max({b, minimum, spend})
<1>1. a \in Nat /\ b \in Nat /\ a <= b BY NeedGrows
<1>2. spend \in Nat /\ minimum \in Nat
  BY CeilBounds, RequestNumbers DEF MinimumSpendUnits
<1>3. /\ Unconstrained(in, f) = IF a = 0 THEN 0 ELSE RoundUp(m, in.pack)
      /\ Unconstrained(in, g) = IF b = 0 THEN 0 ELSE RoundUp(n, in.pack)
  BY DEF Unconstrained
<1>4. m \in Int /\ n \in Int /\ m <= n
  <2> HIDE DEF a, b, minimum, spend
  <2>1. m \in {a, minimum, spend} /\ n >= b /\ n >= minimum /\ n >= spend
        /\ n \in {b, minimum, spend}
    <3>1. a \in Int /\ b \in Int /\ spend \in Int /\ minimum \in Int BY <1>1, <1>2
    <3> QED BY <3>1, MaxOfThree, Zenon
  <2> HIDE DEF m, n
  <2> QED BY <1>1, <1>2, <2>1
<1> HIDE DEF m, n, a, b
<1>5. RoundUp(m, in.pack) <= RoundUp(n, in.pack) BY <1>4, RoundsUpMonotone, RequestNumbers
<1>6. RoundUp(n, in.pack) \in Nat BY <1>4, RoundsUp, RequestNumbers
<1> QED BY <1>1, <1>3, <1>5, <1>6

\* What is sold within the shelf life.
LEMMA SoldInTime ==
  ASSUME NEW in \in ReorderRequests, in.shelfLife # Null
  PROVE  LET all == in.demand * in.shelfLife * in.season * in.promotion
         IN all \in Int /\ all \div 400 \in Int /\ (all \div 400) * 400 <= all
<1> DEFINE a == in.demand  b == in.shelfLife  c == in.season  d == in.promotion
<1>1. a \in Nat /\ b \in Nat /\ c \in Nat /\ d \in Nat BY RequestNumbers
<1> HIDE DEF a, b, c, d
<1>2. a * b \in Nat BY <1>1
<1>3. a * b * c \in Nat BY <1>1, <1>2
<1> DEFINE all == a * b * c * d
<1>4. all \in Int BY <1>1, <1>3
<1> HIDE DEF all
<1>5. all \div 400 \in Int /\ (all \div 400) * 400 <= all BY <1>4
<1> QED BY <1>4, <1>5 DEF all, a, b, c, d

\* Every cap is a number of whole packs.
LEMMA CapsAreWhole ==
  ASSUME NEW in \in ReorderRequests
  PROVE  Caps(in) \subseteq Nat /\ \A c \in Caps(in) : c % in.pack = 0
<1>1. in.pack \in Nat \ {0} /\ in.cost \in Nat \ {0} BY RequestNumbers
<1>2. CashForOrder(in) \in Nat BY RequestNumbers, ZeroOrMore DEF CashForOrder
<1>3. CashCap(in) \in Nat /\ CashCap(in) % in.pack = 0
  <2>1. CashForOrder(in) \div in.cost \in Int BY <1>1, <1>2, DivBounds
  <2> QED BY <1>1, <2>1, RoundsDown DEF CashCap
<1>4. \A c \in StorageCap(in) : c \in Nat /\ c % in.pack = 0
  <2>1. CASE in.storage = Null BY <2>1 DEF StorageCap
  <2>2. CASE in.storage # Null
    <3>1. in.storage - in.onHand - in.incoming \in Int BY <2>2, RequestNumbers
    <3> QED BY <1>1, <2>2, <3>1, RoundsDown DEF StorageCap
  <2> QED BY <2>1, <2>2
<1>5. \A c \in ShelfLifeCap(in) : c \in Nat /\ c % in.pack = 0
  <2>1. CASE in.shelfLife = Null \/ in.demand = 0 BY <2>1 DEF ShelfLifeCap
  <2>2. CASE ~(in.shelfLife = Null \/ in.demand = 0)
    <3> DEFINE sold == (in.demand * in.shelfLife * in.season * in.promotion) \div 400
    <3>1. sold \in Int BY <2>2, SoldInTime
    <3>2. ShelfLifeCap(in) = {RoundDown(sold - in.onHand - in.incoming, in.pack)}
      BY <2>2 DEF ShelfLifeCap
    <3> HIDE DEF sold
    <3>3. sold - in.onHand - in.incoming \in Int BY <3>1, RequestNumbers
    <3> QED BY <1>1, <3>2, <3>3, RoundsDown
  <2> QED BY <2>1, <2>2
<1> QED BY <1>3, <1>4, <1>5 DEF Caps

\* An order is one of what is wanted and the caps, and none of them is less.
LEMMA OrderIsLeast ==
  ASSUME NEW in \in ReorderRequests, NEW f \in Nat
  PROVE  /\ BoundedOrder(in, f) \in Nat /\ BoundedOrder(in, f) % in.pack = 0
         /\ BoundedOrder(in, f) <= Unconstrained(in, f)
         /\ \A c \in Caps(in) : BoundedOrder(in, f) <= c
         /\ BoundedOrder(in, f) \in {Unconstrained(in, f)} \cup Caps(in)
<1> DEFINE S == {Unconstrained(in, f)} \cup Caps(in)
<1>1. S \subseteq Nat /\ S # {} /\ \A c \in S : c % in.pack = 0
  BY UnconstrainedIsEnough, CapsAreWhole
<1>2. BoundedOrder(in, f) = Min(S) BY DEF BoundedOrder
<1>3. Unconstrained(in, f) \in S /\ \A c \in Caps(in) : c \in S OBVIOUS
<1> HIDE DEF S
<1>4. Min(S) \in S /\ \A y \in S : Min(S) <= y BY <1>1, LeastOf
<1> QED BY <1>1, <1>2, <1>3, <1>4 DEF S

LEMMA OrderGrows ==
  ASSUME NEW in \in ReorderRequests, NEW f \in Nat, NEW g \in Nat, f <= g
  PROVE  BoundedOrder(in, f) <= BoundedOrder(in, g)
<1>1. /\ BoundedOrder(in, f) \in Nat /\ BoundedOrder(in, f) <= Unconstrained(in, f)
      /\ \A c \in Caps(in) : BoundedOrder(in, f) <= c
  BY OrderIsLeast
<1>2. BoundedOrder(in, g) \in {Unconstrained(in, g)} \cup Caps(in) BY OrderIsLeast
<1>3. Unconstrained(in, f) \in Nat /\ Unconstrained(in, g) \in Nat
      /\ Unconstrained(in, f) <= Unconstrained(in, g)
  BY UnconstrainedIsEnough, UnconstrainedGrows
<1> QED BY <1>1, <1>2, <1>3

\* What can be paid, stored and sold in time.
LEMMA OrderFitsIn ==
  ASSUME NEW in \in ReorderRequests, NEW units \in Nat, units > 0,
         \A c \in Caps(in) : units <= c
  PROVE  /\ in.cash - in.commitments - units * in.cost >= in.threshold
         /\ in.storage # Null => units + in.onHand + in.incoming <= in.storage
         /\ in.shelfLife # Null /\ in.demand > 0 =>
               (units + in.onHand + in.incoming) * 400
                  <= in.demand * in.shelfLife * in.season * in.promotion
<1>1. in.pack \in Nat \ {0} /\ in.cost \in Nat \ {0} BY RequestNumbers
<1>2. in.cash - in.commitments - units * in.cost >= in.threshold
  <2> DEFINE cash == CashForOrder(in)  q == cash \div in.cost
             room == in.cash - in.threshold - in.commitments
  <2>1. room \in Int BY RequestNumbers
  <2>2. cash = AtLeastZero(room) BY DEF CashForOrder
  <2>3. CashCap(in) = RoundDown(q, in.pack) BY DEF CashCap
  <2>4. units <= CashCap(in) BY DEF Caps
  <2> HIDE DEF room, cash
  <2>5. cash \in Nat /\ (room > 0 => cash = room) /\ (room <= 0 => cash = 0)
    BY <2>1, <2>2, ZeroOrMore
  <2>6. q \in Int /\ q * in.cost <= cash BY <1>1, <2>5, DivBounds
  <2> HIDE DEF q
  <2>7. RoundDown(q, in.pack) \in Nat /\ RoundDown(q, in.pack) <= AtLeastZero(q)
    BY <1>1, <2>6, RoundsDown
  <2>8. AtLeastZero(q) = IF q > 0 THEN q ELSE 0 BY <2>6, ZeroOrMore
  <2>9. units <= q BY <2>3, <2>4, <2>6, <2>7, <2>8
  <2>10. units * in.cost <= q * in.cost BY <1>1, <2>6, <2>9, TimesMonotone
  <2> DEFINE x == units * in.cost  y == q * in.cost
  <2>11. x \in Nat /\ y \in Int /\ x <= y /\ y <= cash /\ x > 0
    BY <1>1, <2>6, <2>10
  <2> HIDE DEF x, y
  <2>12. x <= room BY <2>1, <2>5, <2>11
  <2>13. in.cash - in.commitments - x >= in.threshold BY <2>11, <2>12, RequestNumbers DEF room
  <2> QED BY <2>13 DEF x
<1>3. ASSUME in.storage # Null PROVE units + in.onHand + in.incoming <= in.storage
  <2> DEFINE room == in.storage - in.onHand - in.incoming
  <2>1. room \in Int BY <1>3, RequestNumbers
  <2>2. units <= RoundDown(room, in.pack) BY <1>3 DEF Caps, StorageCap
  <2> HIDE DEF room
  <2>3. RoundDown(room, in.pack) \in Nat /\ RoundDown(room, in.pack) <= AtLeastZero(room)
    BY <1>1, <2>1, RoundsDown
  <2>4. units <= room BY <2>1, <2>2, <2>3, ZeroOrMore
  <2> QED BY <1>3, <2>4, RequestNumbers DEF room
<1>4. ASSUME in.shelfLife # Null, in.demand > 0
      PROVE  (units + in.onHand + in.incoming) * 400
                <= in.demand * in.shelfLife * in.season * in.promotion
  <2> DEFINE all == in.demand * in.shelfLife * in.season * in.promotion
             sold == all \div 400
             room == sold - in.onHand - in.incoming
  <2>1. all \in Int /\ sold \in Int /\ sold * 400 <= all BY <1>4, SoldInTime
  <2>2. in.demand # 0 BY <1>4, RequestNumbers
  <2>3. units <= RoundDown(room, in.pack) BY <1>4, <2>2 DEF Caps, ShelfLifeCap
  <2> HIDE DEF all, sold
  <2>4. room \in Int BY <2>1, RequestNumbers
  <2> HIDE DEF room
  <2>5. RoundDown(room, in.pack) \in Nat /\ RoundDown(room, in.pack) <= AtLeastZero(room)
    BY <1>1, <2>4, RoundsDown
  <2>6. units <= room BY <2>3, <2>4, <2>5, ZeroOrMore
  <2>7. (units + in.onHand + in.incoming) * 400 <= all
    BY <2>1, <2>6, RequestNumbers DEF room
  <2> QED BY <2>7 DEF all
<1> QED BY <1>2, <1>3, <1>4

\* Nobody has to look for what is wrong with an order that is called ready.
LEMMA ReadyIsEnough ==
  ASSUME NEW in \in ReorderRequests, ReviewStatus(in) = "ready_for_review"
  PROVE  /\ BoundedOrder(in, 20) >= NetNeed(in, 20)
         /\ BoundedOrder(in, 20) >= in.minimum
         /\ BoundedOrder(in, 20) * in.cost >= in.minimumSpend
         /\ in.history >= 28 /\ in.age <= 72
<1> DEFINE u == Unconstrained(in, 20)  o == BoundedOrder(in, 20)
<1>1. u # 0 /\ ~Constrained(in) /\ Confidence(in) # "low" BY DEF ReviewStatus
<1>2. o = u
  <2>1. o <= u /\ o \in {u} \cup Caps(in) BY OrderIsLeast
  <2>2. u \in Nat /\ Caps(in) \subseteq Nat BY UnconstrainedIsEnough, CapsAreWhole
  <2>3. \A c \in Caps(in) : c >= u BY <1>1, <2>2 DEF Constrained
  <2> HIDE DEF u, o
  <2> QED BY <2>1, <2>2, <2>3
<1>3. u >= NetNeed(in, 20) /\ u >= in.minimum /\ u * in.cost >= in.minimumSpend
  BY <1>1, UnconstrainedIsEnough
<1>4. in.history >= 28 /\ in.age <= 72
  <2>1. in.history \in Nat /\ in.age \in Nat BY ReorderAssumption
  <2> QED BY <1>1, <2>1 DEF Confidence
<1> QED BY <1>2, <1>3, <1>4

\* The answer is that of the inputs it is shown beside.
Answered ==
    recommendation # Null =>
        /\ reorder \in ReorderRequests
        /\ recommendation.status = ReviewStatus(reorder)
        /\ recommendation.scenarios = [f \in Scenarios |-> BoundedOrder(reorder, f)]

ReorderInv == reorder \in ReorderRequests /\ Answered

\* Reorders are sound (reorder-engine.ts): for any finite inputs, in every scenario an
\* order leaves the cash threshold and every commitment untouched, fits into the
\* storage, is sold within its shelf life and is in whole packs; it is called ready
\* only if it covers the need and both minimums; and the scenarios are ordered.
THEOREM ReordersAreSound == ReorderSpec => []RecommendationIsSound
<1>1. ReorderInit => ReorderInv BY DEF ReorderInit, ReorderInv, Answered
<1>2. ReorderInv /\ [Recommend]_reorderVars => ReorderInv'
  <2> SUFFICES ASSUME ReorderInv, [Recommend]_reorderVars PROVE ReorderInv' OBVIOUS
  <2>1. CASE Recommend BY <2>1 DEF Recommend, ReorderInv, Answered
  <2>2. CASE UNCHANGED reorderVars BY <2>2 DEF reorderVars, ReorderInv, Answered
  <2> QED BY <2>1, <2>2
<1>3. ReorderInv => RecommendationIsSound
  <2> SUFFICES ASSUME ReorderInv, recommendation # Null
               PROVE  OrderIsAffordable /\ ReadyIsComplete /\ ScenariosAreOrdered
    BY DEF RecommendationIsSound, OrderIsAffordable, ReadyIsComplete, ScenariosAreOrdered
  <2>1. /\ reorder \in ReorderRequests
        /\ recommendation.status = ReviewStatus(reorder)
        /\ recommendation.scenarios = [f \in Scenarios |-> BoundedOrder(reorder, f)]
    BY DEF ReorderInv, Answered
  <2>2. \A f \in Scenarios : f \in Nat /\ recommendation.scenarios[f] = BoundedOrder(reorder, f)
    BY <2>1 DEF Scenarios
  <2>3. OrderIsAffordable
    <3> SUFFICES ASSUME NEW f \in Scenarios, recommendation.scenarios[f] > 0
                 PROVE  LET units == recommendation.scenarios[f]
                            stock == units + reorder.onHand + reorder.incoming
                        IN /\ reorder.cash - reorder.commitments - units * reorder.cost
                                  >= reorder.threshold
                           /\ reorder.storage # Null => stock <= reorder.storage
                           /\ reorder.shelfLife # Null /\ reorder.demand > 0 =>
                                 stock * 400 <= reorder.demand * reorder.shelfLife
                                                  * reorder.season * reorder.promotion
                           /\ units % reorder.pack = 0
      BY DEF OrderIsAffordable
    <3> DEFINE units == recommendation.scenarios[f]
    <3>1. /\ units \in Nat /\ units % reorder.pack = 0
          /\ \A c \in Caps(reorder) : units <= c
      BY <2>1, <2>2, OrderIsLeast
    <3> HIDE DEF units
    <3>2. units > 0 BY DEF units
    <3>3. /\ reorder.cash - reorder.commitments - units * reorder.cost >= reorder.threshold
          /\ reorder.storage # Null => units + reorder.onHand + reorder.incoming <= reorder.storage
          /\ reorder.shelfLife # Null /\ reorder.demand > 0 =>
                (units + reorder.onHand + reorder.incoming) * 400
                   <= reorder.demand * reorder.shelfLife * reorder.season * reorder.promotion
      BY <2>1, <3>1, <3>2, OrderFitsIn
    <3> QED BY <3>1, <3>3 DEF units
  <2>4. ReadyIsComplete
    <3> SUFFICES ASSUME recommendation.status = "ready_for_review"
                 PROVE  /\ Units >= NetNeed(reorder, 20)
                        /\ Units >= reorder.minimum
                        /\ Units * reorder.cost >= reorder.minimumSpend
                        /\ reorder.history >= 28 /\ reorder.age <= 72
      BY DEF ReadyIsComplete
    <3>1. Units = BoundedOrder(reorder, 20) BY <2>1 DEF Units, Scenarios
    <3> QED BY <2>1, <3>1, ReadyIsEnough
  <2>5. ScenariosAreOrdered
    <3>1. /\ Units = BoundedOrder(reorder, 20)
          /\ recommendation.scenarios[17] = BoundedOrder(reorder, 17)
          /\ recommendation.scenarios[24] = BoundedOrder(reorder, 24)
      BY <2>1 DEF Units, Scenarios
    <3>2. /\ BoundedOrder(reorder, 17) <= BoundedOrder(reorder, 20)
          /\ BoundedOrder(reorder, 20) <= BoundedOrder(reorder, 24)
      BY <2>1, OrderGrows
    <3> QED BY <3>1, <3>2 DEF ScenariosAreOrdered
  <2> QED BY <2>3, <2>4, <2>5
<1> QED BY <1>1, <1>2, <1>3, PTL DEF ReorderSpec
=============================================================================
