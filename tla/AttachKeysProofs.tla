-------------------------- MODULE AttachKeysProofs --------------------------
(***************************************************************************)
(* What the user types and what the gateway gets: localPrefix, a loop over *)
(* the chunks that the reads happen to cut, against the meaning of the     *)
(* whole, for keys of any number; and the types of Attach.                 *)
(*                                                                         *)
(* A loop is reasoned about by induction on the keys it has seen.  The     *)
(* principle is derived here from the finite subsets of the naturals being *)
(* well-founded under inclusion, as a statement about sets.                *)
(***************************************************************************)
EXTENDS AttachProofs

-----------------------------------------------------------------------------
(* Induction over the naturals.                                            *)

LEMMA LeastOfNat ==
  ASSUME NEW T \in SUBSET Nat, T # {}
  PROVE  \E m \in T : \A n \in T : m <= n
<1> DEFINE R == StrictSubsetOrdering(Nat)
           U == {1..n : n \in T}
<1>1. IsWellFoundedOn(R, FiniteSubsetsOf(Nat))
  BY FS_StrictSubsetOrderingWellFounded
<1>2. U \subseteq FiniteSubsetsOf(Nat)
  BY FS_Interval DEF FiniteSubsetsOf
<1>3. U # {}
  OBVIOUS
<1>4. PICK x \in U : \A y \in U : ~ (<<y, x>> \in R)
  <2> HIDE DEF R, U
  <2> QED BY <1>1, <1>2, <1>3, WFMin
<1>5. PICK m \in T : x = 1..m
  OBVIOUS
<1>6. ASSUME NEW n \in T, n < m PROVE FALSE
  <2>1. 1..n \subseteq 1..m /\ m \in 1..m /\ m \notin 1..n
    BY <1>6
  <2>2. 1..n \in SUBSET Nat /\ 1..m \in SUBSET Nat
    OBVIOUS
  <2>3. <<1..n, 1..m>> \in R
    BY <2>1, <2>2, Zenon DEF StrictSubsetOrdering
  <2> QED BY <1>4, <1>5, <2>3
<1> QED BY <1>6

LEMMA NatClosed ==
  ASSUME NEW S, 0 \in S, \A n \in Nat : n \in S => n + 1 \in S
  PROVE  Nat \subseteq S
<1> SUFFICES ASSUME NEW k \in Nat, k \notin S PROVE FALSE
  OBVIOUS
<1> DEFINE T == Nat \ S
<1>1. PICK m \in T : \A n \in T : m <= n
  BY LeastOfNat
<1>2. m # 0 /\ m - 1 \in Nat /\ m - 1 \notin T
  BY <1>1
<1> QED BY <1>2

-----------------------------------------------------------------------------
(* The loop of localPrefix.                                                *)

LoopState == [out : Seq(Key), pending : BOOLEAN, detach : BOOLEAN]

LEMMA PrefixStepTyped ==
  ASSUME NEW s \in LoopState, NEW k \in Key
  PROVE  PrefixStep(s, k) \in LoopState
<1>1. "p" \in Key /\ s.out \in Seq(Key) /\ s.pending \in BOOLEAN /\ s.detach \in BOOLEAN
  BY DEF LoopState, Key
<1>2. Append(s.out, "p") \in Seq(Key) /\ Append(s.out, k) \in Seq(Key) /\ s.out \o <<"p", k>> \in Seq(Key)
  BY <1>1
<1>3. CASE s.detach
  BY <1>3 DEF PrefixStep
<1>4. CASE ~s.detach /\ s.pending
  <2> DEFINE o == CASE k = "d" -> s.out [] k = "p" -> Append(s.out, "p") [] OTHER -> s.out \o <<"p", k>>
  <2>1. PrefixStep(s, k) = [s EXCEPT !.pending = FALSE, !.detach = k = "d", !.out = o]
    BY <1>4 DEF PrefixStep
  <2>2. o \in Seq(Key)
    BY <1>1, <1>2
  <2> HIDE DEF o
  <2> QED BY <2>1, <2>2 DEF LoopState
<1>5. CASE ~s.detach /\ ~s.pending
  <2> DEFINE o == Append(s.out, k)
  <2>1. PrefixStep(s, k) = IF k = "p" THEN [s EXCEPT !.pending = TRUE] ELSE [s EXCEPT !.out = o]
    BY <1>5 DEF PrefixStep
  <2>2. o \in Seq(Key)
    BY <1>2
  <2> HIDE DEF o
  <2> QED BY <2>1, <2>2 DEF LoopState
<1> QED BY <1>1, <1>3, <1>4, <1>5

LEMMA PrefixStepIs ==
  ASSUME NEW x, NEW k \in Key
  PROVE  /\ \A p \in BOOLEAN : PrefixStep([out |-> x, pending |-> p, detach |-> TRUE], k) =
                                 [out |-> x, pending |-> p, detach |-> TRUE]
         /\ k = "d" => PrefixStep([out |-> x, pending |-> TRUE, detach |-> FALSE], k) =
                         [out |-> x, pending |-> FALSE, detach |-> TRUE]
         /\ k = "p" => PrefixStep([out |-> x, pending |-> TRUE, detach |-> FALSE], k) =
                         [out |-> Append(x, "p"), pending |-> FALSE, detach |-> FALSE]
         /\ k = "x" => PrefixStep([out |-> x, pending |-> TRUE, detach |-> FALSE], k) =
                         [out |-> x \o <<"p", k>>, pending |-> FALSE, detach |-> FALSE]
         /\ k = "p" => PrefixStep([out |-> x, pending |-> FALSE, detach |-> FALSE], k) =
                         [out |-> x, pending |-> TRUE, detach |-> FALSE]
         /\ k # "p" => PrefixStep([out |-> x, pending |-> FALSE, detach |-> FALSE], k) =
                         [out |-> Append(x, k), pending |-> FALSE, detach |-> FALSE]
<1> DEFINE u == Append(x, k)
           v == x \o <<"p", k>>
           s == [out |-> x, pending |-> TRUE, detach |-> FALSE]
           t == [out |-> x, pending |-> FALSE, detach |-> FALSE]
<1>1. \A p \in BOOLEAN : PrefixStep([out |-> x, pending |-> p, detach |-> TRUE], k) =
                           [out |-> x, pending |-> p, detach |-> TRUE]
  BY DEF PrefixStep
<1>2. k = "d" => PrefixStep(s, k) = [out |-> x, pending |-> FALSE, detach |-> TRUE]
  BY DEF PrefixStep
<1>3. k = "p" => PrefixStep(s, k) = [s EXCEPT !.pending = FALSE, !.detach = FALSE, !.out = u]
  BY DEF PrefixStep
<1>4. k = "x" => PrefixStep(s, k) = [s EXCEPT !.pending = FALSE, !.detach = FALSE, !.out = v]
  BY DEF PrefixStep
<1>5. PrefixStep(t, k) = IF k = "p" THEN [t EXCEPT !.pending = TRUE] ELSE [t EXCEPT !.out = u]
  BY DEF PrefixStep
<1> HIDE DEF u, v
<1>6. k = "p" => PrefixStep(s, k) = [out |-> u, pending |-> FALSE, detach |-> FALSE]
  BY <1>3
<1>7. k = "x" => PrefixStep(s, k) = [out |-> v, pending |-> FALSE, detach |-> FALSE]
  BY <1>4
<1>8. k = "p" => PrefixStep(t, k) = [out |-> x, pending |-> TRUE, detach |-> FALSE]
  BY <1>5
<1>9. k # "p" => PrefixStep(t, k) = [out |-> u, pending |-> FALSE, detach |-> FALSE]
  BY <1>5
<1> QED BY <1>1, <1>2, <1>6, <1>7, <1>8, <1>9 DEF u, v

\* f runs the loop over the first n keys of c.
Runs(f, c, first, n) ==
  /\ f \in [0..n -> LoopState] /\ f[0] = first
  /\ \A i \in 1..n : f[i] = PrefixStep(f[i - 1], c[i])

LEMMA RunsExist ==
  ASSUME NEW c \in Seq(Key), NEW first \in LoopState
  PROVE  \E f : Runs(f, c, first, Len(c))
<1> DEFINE S == {n \in Nat : n <= Len(c) => \E f : Runs(f, c, first, n)}
<1>1. 0 \in S
  <2> DEFINE f == [i \in 0..0 |-> first]
  <2>1. Runs(f, c, first, 0)
    BY DEF Runs
  <2> HIDE DEF f
  <2> QED BY <2>1
<1>2. ASSUME NEW n \in Nat, n \in S, n + 1 <= Len(c) PROVE \E f : Runs(f, c, first, n + 1)
  <2>1. PICK f : Runs(f, c, first, n)
    BY <1>2
  <2> DEFINE z == PrefixStep(f[n], c[n + 1])
             g == [i \in 0..(n + 1) |-> IF i = n + 1 THEN z ELSE f[i]]
  <2>2. f[n] \in LoopState /\ c[n + 1] \in Key
    BY <1>2, <2>1 DEF Runs
  <2>3. z \in LoopState
    BY <2>2, PrefixStepTyped
  <2>4. g[n + 1] = PrefixStep(g[n], c[n + 1])
    OBVIOUS
  <2> HIDE DEF z
  <2>5. g \in [0..(n + 1) -> LoopState] /\ g[0] = first
    BY <2>1, <2>3 DEF Runs
  <2>6. \A i \in 1..n : g[i] = f[i] /\ g[i - 1] = f[i - 1]
    OBVIOUS
  <2> HIDE DEF g
  <2>7. \A i \in 1..(n + 1) : g[i] = PrefixStep(g[i - 1], c[i])
    <3> SUFFICES ASSUME NEW i \in 1..(n + 1) PROVE g[i] = PrefixStep(g[i - 1], c[i])
      OBVIOUS
    <3>1. CASE i = n + 1
      BY <2>4, <3>1
    <3>2. CASE i # n + 1
      <4>1. i \in 1..n
        BY <3>2
      <4>2. f[i] = PrefixStep(f[i - 1], c[i])
        BY <2>1, <4>1 DEF Runs
      <4>3. g[i] = f[i] /\ g[i - 1] = f[i - 1]
        BY <2>6, <4>1
      <4> QED BY <4>2, <4>3
    <3> QED BY <3>1, <3>2
  <2>8. Runs(g, c, first, n + 1)
    BY <2>5, <2>7 DEF Runs
  <2> QED BY <2>8
<1>3. \A n \in Nat : n \in S => n + 1 \in S
  BY <1>2
<1> HIDE DEF S
<1>4. Len(c) \in S
  BY <1>1, <1>3, NatClosed
<1> QED BY <1>4 DEF S

\* The loop as it is written runs so.
LEMMA FilteredRuns ==
  ASSUME NEW c \in Seq(Key), NEW first \in LoopState
  PROVE  \E f : Runs(f, c, first, Len(c)) /\ Filtered(c, first) = f[Len(c)]
<1> DEFINE After(f) == [i \in 0..Len(c) |-> IF i = 0 THEN first ELSE PrefixStep(f[i - 1], c[i])]
           g == CHOOSE f : f = After(f)
<1>1. PICK f : Runs(f, c, first, Len(c))
  BY RunsExist
<1>2. f = After(f)
  BY <1>1 DEF Runs
<1>3. g = After(g)
  <2> HIDE DEF After
  <2> QED BY <1>2
<1>4. Filtered(c, first) = g[Len(c)]
  BY DEF Filtered
<1> HIDE DEF g
<1>5. g[0] = first /\ \A i \in 1..Len(c) : g[i] = PrefixStep(g[i - 1], c[i])
  <2>1. 0 \in 0..Len(c) /\ \A i \in 1..Len(c) : i \in 0..Len(c) /\ i # 0
    OBVIOUS
  <2>2. \A i \in 0..Len(c) : g[i] = IF i = 0 THEN first ELSE PrefixStep(g[i - 1], c[i])
    BY <1>3, Zenon
  <2> QED BY <2>1, <2>2, Zenon
<1> DEFINE S == {n \in Nat : n <= Len(c) => g[n] \in LoopState}
<1>6. 0 \in S
  BY <1>5
<1>7. ASSUME NEW n \in Nat, n \in S, n + 1 <= Len(c) PROVE g[n + 1] \in LoopState
  <2>1. g[n + 1] = PrefixStep(g[n], c[n + 1])
    BY <1>5, <1>7
  <2>2. g[n] \in LoopState /\ c[n + 1] \in Key
    BY <1>7
  <2> QED BY <2>1, <2>2, PrefixStepTyped
<1>8. \A n \in Nat : n \in S => n + 1 \in S
  BY <1>7
<1> HIDE DEF S
<1>9. \A n \in 0..Len(c) : n \in S
  BY <1>6, <1>8, NatClosed
<1>10. \A n \in 0..Len(c) : g[n] \in LoopState
  BY <1>9 DEF S
<1>11. g \in [0..Len(c) -> LoopState]
  <2>1. g = [i \in 0..Len(c) |-> g[i]]
    BY <1>3, Zenon
  <2> QED BY <1>10, <2>1
<1> QED BY <1>4, <1>5, <1>11 DEF Runs

-----------------------------------------------------------------------------
(* Which prefixes open, key by key.                                        *)

LEMMA KeyAppend ==
  ASSUME NEW s \in Seq(Key), NEW k \in Key
  PROVE  /\ Append(s, k) \in Seq(Key) /\ Len(s) \in Nat /\ Len(Append(s, k)) = Len(s) + 1
         /\ Append(s, k)[Len(s) + 1] = k /\ \A i \in 1..Len(s) : Append(s, k)[i] = s[i]
OBVIOUS

Before(s, i) == {j \in 0..(i - 1) : \A l \in (j + 1)..(i - 1) : s[l] = "p"}

LEMMA BeforeFinite ==
  ASSUME NEW s, NEW i \in Nat \ {0}
  PROVE  /\ IsFiniteSet(Before(s, i)) /\ Cardinality(Before(s, i)) \in Nat
         /\ (Opens(s, i) <=> s[i] = "p" /\ Cardinality(Before(s, i)) % 2 = 1)
<1>1. IsFiniteSet(0..(i - 1)) /\ Before(s, i) \in SUBSET (0..(i - 1))
  BY FS_Interval DEF Before
<1>2. IsFiniteSet(Before(s, i))
  BY <1>1, FS_Subset
<1> QED BY <1>2, FS_CardinalityType DEF Opens, Before

LEMMA OpensFirst ==
  ASSUME NEW s
  PROVE  Opens(s, 1) <=> s[1] = "p"
<1>1. Before(s, 1) = {0}
  BY DEF Before
<1>2. Cardinality(Before(s, 1)) = 1
  BY <1>1, FS_Singleton
<1> QED BY <1>2, BeforeFinite

LEMMA OpensNext ==
  ASSUME NEW s, NEW i \in Nat \ {0}
  PROVE  Opens(s, i + 1) <=> s[i + 1] = "p" /\ ~Opens(s, i)
<1> DEFINE b == Cardinality(Before(s, i))
           c == Cardinality(Before(s, i + 1))
<1>1. /\ (Opens(s, i) <=> s[i] = "p" /\ b % 2 = 1) /\ b \in Nat
      /\ (Opens(s, i + 1) <=> s[i + 1] = "p" /\ c % 2 = 1)
  BY BeforeFinite
<1>2. CASE s[i] = "p"
  <2>1. Before(s, i + 1) = Before(s, i) \cup {i} /\ i \notin Before(s, i)
    <3>1. ASSUME NEW j \in 0..(i - 1)
          PROVE  (\A l \in (j + 1)..i : s[l] = "p") <=> \A l \in (j + 1)..(i - 1) : s[l] = "p"
      <4>1. (j + 1)..i = (j + 1)..(i - 1) \cup {i}
        OBVIOUS
      <4> QED BY <1>2, <4>1
    <3>2. 0..i = 0..(i - 1) \cup {i} /\ i \notin 0..(i - 1) /\ (i + 1)..i = {} /\ (i + 1) - 1 = i
      OBVIOUS
    <3> QED BY <3>1, <3>2 DEF Before
  <2>2. c = b + 1
    BY <2>1, BeforeFinite, FS_AddElement
  <2>3. \A n \in Nat : (n + 1) % 2 = 1 <=> ~(n % 2 = 1)
    OBVIOUS
  <2> HIDE DEF b, c
  <2> QED BY <1>1, <1>2, <2>2, <2>3
<1>3. CASE s[i] # "p"
  <2>1. Before(s, i + 1) = {i}
    BY <1>3 DEF Before
  <2>2. c = 1
    BY <2>1, FS_Singleton
  <2> QED BY <1>1, <1>3, <2>2
<1> QED BY <1>2, <1>3

\* A later key does not change what an earlier one means.
LEMMA OpensStays ==
  ASSUME NEW s \in Seq(Key), NEW k \in Key, NEW i \in 1..Len(s)
  PROVE  Opens(Append(s, k), i) <=> Opens(s, i)
<1>1. \A l \in 1..i : Append(s, k)[l] = s[l]
  BY KeyAppend
<1> DEFINE t == Append(s, k)
<1> HIDE DEF t
<1>2. Before(t, i) = Before(s, i)
  <2>1. \A j \in 0..(i - 1) : \A l \in (j + 1)..(i - 1) : t[l] = s[l]
    BY <1>1 DEF t
  <2> QED BY <2>1 DEF Before
<1>3. t[i] = s[i]
  BY <1>1 DEF t
<1>4. /\ (Opens(t, i) <=> t[i] = "p" /\ Cardinality(Before(t, i)) % 2 = 1)
      /\ (Opens(s, i) <=> s[i] = "p" /\ Cardinality(Before(s, i)) % 2 = 1)
  <2>1. i \in Nat \ {0}
    OBVIOUS
  <2> QED BY <2>1, BeforeFinite
<1> QED BY <1>2, <1>3, <1>4 DEF t

-----------------------------------------------------------------------------
(* Keys listed in the order of their places.                               *)

LEMMA RankAdd ==
  ASSUME NEW m \in Nat, NEW K \in SUBSET (1..m)
  PROVE  /\ IsFiniteSet(K) /\ Cardinality(K) \in Nat
         /\ Cardinality(K \cup {m + 1}) = Cardinality(K) + 1
         /\ Rank(K \cup {m + 1}, m + 1) = Cardinality(K) + 1
         /\ \A i \in K : /\ Rank(K \cup {m + 1}, i) = Rank(K, i)
                         /\ Rank(K, i) \in 1..Cardinality(K)
<1>1. IsFiniteSet(K)
  <2>1. IsFiniteSet(1..m)
    BY FS_Interval
  <2> QED BY <2>1, FS_Subset
<1>2. m + 1 \notin K /\ \A j \in K : j \in Nat /\ j <= m
  OBVIOUS
<1>3. Cardinality(K) \in Nat /\ Cardinality(K \cup {m + 1}) = Cardinality(K) + 1
  BY <1>1, <1>2, FS_CardinalityType, FS_AddElement
<1>4. {j \in K \cup {m + 1} : j <= m + 1} = K \cup {m + 1}
  <2>1. \A j \in K \cup {m + 1} : j <= m + 1
    BY <1>2
  <2> QED BY <2>1
<1>5. ASSUME NEW i \in K
      PROVE  Rank(K \cup {m + 1}, i) = Rank(K, i) /\ Rank(K, i) \in 1..Cardinality(K)
  <2> DEFINE L == {j \in K : j <= i}
  <2>1. {j \in K \cup {m + 1} : j <= i} = L
    BY <1>2
  <2>2. i \in L /\ L \in SUBSET K
    BY <1>2
  <2> HIDE DEF L
  <2>3. IsFiniteSet(L) /\ Cardinality(L) <= Cardinality(K) /\ Cardinality(L) \in Nat
    BY <1>1, <2>2, FS_Subset, FS_CardinalityType
  <2>4. Cardinality(L) # 0
    BY <2>2, <2>3, FS_EmptySet
  <2>5. Rank(K, i) = Cardinality(L) /\ Rank(K \cup {m + 1}, i) = Cardinality(L)
    BY <2>1 DEF Rank, L
  <2> QED BY <1>3, <2>3, <2>4, <2>5
<1> QED BY <1>1, <1>3, <1>4, <1>5 DEF Rank

LEMMA RankOnto ==
  \A m \in Nat : \A K \in SUBSET (1..m) : \A n \in 1..Cardinality(K) : \E i \in K : Rank(K, i) = n
<1> DEFINE Onto(K) == \A n \in 1..Cardinality(K) : \E i \in K : Rank(K, i) = n
           S == {m \in Nat : \A K \in SUBSET (1..m) : Onto(K)}
<1>1. 0 \in S
  <2>1. \A K \in SUBSET (1..0) : K = {}
    OBVIOUS
  <2>2. Onto({})
    BY FS_EmptySet
  <2> HIDE DEF Onto
  <2> QED BY <2>1, <2>2
<1>2. ASSUME NEW m \in Nat, m \in S, NEW K \in SUBSET (1..(m + 1)) PROVE Onto(K)
  <2> DEFINE L == K \ {m + 1}
  <2>1. L \in SUBSET (1..m)
    OBVIOUS
  <2>2. Onto(L)
    BY <1>2, <2>1
  <2>3. CASE m + 1 \notin K
    <3>1. K = L
      BY <2>3
    <3> HIDE DEF Onto
    <3> QED BY <2>2, <3>1
  <2>4. CASE m + 1 \in K
    <3>1. K = L \cup {m + 1}
      BY <2>4
    <3> HIDE DEF L
    <3>2. ASSUME NEW n \in 1..Cardinality(K) PROVE \E i \in K : Rank(K, i) = n
      <4>1. Cardinality(K) = Cardinality(L) + 1 /\ Cardinality(L) \in Nat
            /\ Rank(K, m + 1) = Cardinality(L) + 1 /\ \A i \in L : Rank(K, i) = Rank(L, i)
        BY <2>1, <3>1, RankAdd
      <4>2. CASE n = Cardinality(L) + 1
        BY <2>4, <4>1, <4>2
      <4>3. CASE n # Cardinality(L) + 1
        <5>1. n \in 1..Cardinality(L)
          BY <4>1, <4>3
        <5>2. PICK i \in L : Rank(L, i) = n
          BY <2>2, <5>1
        <5> QED BY <3>1, <4>1, <5>2
      <4> QED BY <4>2, <4>3
    <3> QED BY <3>2
  <2> QED BY <2>3, <2>4
<1>3. \A m \in Nat : m \in S => m + 1 \in S
  BY <1>2
<1> HIDE DEF S
<1>4. Nat \subseteq S
  BY <1>1, <1>3, NatClosed
<1> QED BY <1>4 DEF S

\* The key that is listed at n.
Nth(K, n) == CHOOSE i \in K : Rank(K, i) = n

LEMMA NthIn ==
  ASSUME NEW m \in Nat, NEW K \in SUBSET (1..m), NEW n \in 1..Cardinality(K)
  PROVE  Nth(K, n) \in K /\ Rank(K, Nth(K, n)) = n
<1>1. \E i \in K : Rank(K, i) = n
  BY RankOnto
<1> QED BY <1>1 DEF Nth

LEMMA NthAdd ==
  ASSUME NEW m \in Nat, NEW K \in SUBSET (1..m)
  PROVE  /\ Nth(K \cup {m + 1}, Cardinality(K) + 1) = m + 1
         /\ \A n \in 1..Cardinality(K) : Nth(K \cup {m + 1}, n) = Nth(K, n)
<1> DEFINE L == K \cup {m + 1}
<1>1. /\ Cardinality(K) \in Nat /\ Rank(L, m + 1) = Cardinality(K) + 1
      /\ \A i \in K : Rank(L, i) = Rank(K, i) /\ Rank(K, i) \in 1..Cardinality(K)
  BY RankAdd
<1>2. Nth(L, Cardinality(K) + 1) = m + 1
  <2>1. \A i \in L : Rank(L, i) = Cardinality(K) + 1 <=> i = m + 1
    BY <1>1
  <2>2. m + 1 \in L
    OBVIOUS
  <2> HIDE DEF L
  <2>3. Nth(L, Cardinality(K) + 1) \in L /\ Rank(L, Nth(L, Cardinality(K) + 1)) = Cardinality(K) + 1
    BY <1>1, <2>2 DEF Nth
  <2> QED BY <2>1, <2>3
<1>3. ASSUME NEW n \in 1..Cardinality(K) PROVE Nth(L, n) = Nth(K, n)
  <2>1. n # Cardinality(K) + 1
    BY <1>1
  <2>2. \A i : (i \in L /\ Rank(L, i) = n) <=> (i \in K /\ Rank(K, i) = n)
    BY <1>1, <2>1
  <2> HIDE DEF L
  <2> QED BY <2>2, Zenon DEF Nth
<1> QED BY <1>2, <1>3

LEMMA ListedTyped ==
  ASSUME NEW s \in Seq(Key), NEW K \in SUBSET (1..Len(s))
  PROVE  /\ Listed(s, K) \in Seq(Key) /\ Len(Listed(s, K)) = Cardinality(K)
         /\ Cardinality(K) \in Nat
         /\ \A n \in 1..Cardinality(K) : Listed(s, K)[n] = s[Nth(K, n)]
<1>1. Cardinality(K) \in Nat /\ \A n \in 1..Cardinality(K) : Nth(K, n) \in K
  <2>1. Len(s) \in Nat
    OBVIOUS
  <2> QED BY <2>1, NthIn, RankAdd
<1>2. Listed(s, K) = [n \in 1..Cardinality(K) |-> s[Nth(K, n)]]
  BY DEF Listed, Nth
<1>3. \A n \in 1..Cardinality(K) : s[Nth(K, n)] \in Key
  <2>1. \A i \in K : s[i] \in Key
    OBVIOUS
  <2> QED BY <1>1, <2>1
<1> QED BY <1>1, <1>2, <1>3

\* It depends on the keys at those places only.
LEMMA ListedSame ==
  ASSUME NEW s \in Seq(Key), NEW t \in Seq(Key), NEW K \in SUBSET (1..Len(s)),
         Len(s) <= Len(t), \A i \in 1..Len(s) : t[i] = s[i]
  PROVE  Listed(t, K) = Listed(s, K)
<1>1. Cardinality(K) \in Nat /\ \A n \in 1..Cardinality(K) : Nth(K, n) \in 1..Len(s)
  <2>1. Len(s) \in Nat
    OBVIOUS
  <2>2. Cardinality(K) \in Nat /\ \A n \in 1..Cardinality(K) : Nth(K, n) \in K
    BY <2>1, NthIn, RankAdd
  <2> QED BY <2>2
<1>2. \A n \in 1..Cardinality(K) : t[Nth(K, n)] = s[Nth(K, n)]
  BY <1>1
<1> QED BY <1>2 DEF Listed, Nth

\* A key after all others comes last.
LEMMA ListedAdd ==
  ASSUME NEW s \in Seq(Key), NEW m \in Nat, m + 1 <= Len(s), NEW K \in SUBSET (1..m)
  PROVE  Listed(s, K \cup {m + 1}) = Append(Listed(s, K), s[m + 1])
<1> DEFINE L == K \cup {m + 1}
           c == Cardinality(K)
           a == Append(Listed(s, K), s[m + 1])
<1>1. K \in SUBSET (1..Len(s)) /\ L \in SUBSET (1..Len(s)) /\ s[m + 1] \in Key
  OBVIOUS
<1>2. c \in Nat /\ Cardinality(L) = c + 1
  BY RankAdd
<1>3. Nth(L, c + 1) = m + 1 /\ \A n \in 1..c : Nth(L, n) = Nth(K, n)
  BY NthAdd
<1>4. /\ Listed(s, L) \in Seq(Key) /\ Len(Listed(s, L)) = Cardinality(L)
      /\ \A n \in 1..Cardinality(L) : Listed(s, L)[n] = s[Nth(L, n)]
      /\ Listed(s, K) \in Seq(Key) /\ Len(Listed(s, K)) = c
      /\ \A n \in 1..c : Listed(s, K)[n] = s[Nth(K, n)]
  BY <1>1, ListedTyped
<1> HIDE DEF L, c
<1>5. /\ a \in Seq(Key) /\ Len(a) = c + 1 /\ a[c + 1] = s[m + 1]
      /\ \A n \in 1..c : a[n] = Listed(s, K)[n]
  BY <1>1, <1>2, <1>4
<1> HIDE DEF a
<1>6. \A n \in 1..(c + 1) : Listed(s, L)[n] = a[n]
  <2> SUFFICES ASSUME NEW n \in 1..(c + 1) PROVE Listed(s, L)[n] = a[n]
    OBVIOUS
  <2>1. CASE n = c + 1
    BY <1>2, <1>3, <1>4, <1>5, <2>1
  <2>2. CASE n \in 1..c
    BY <1>2, <1>3, <1>4, <1>5, <2>2
  <2> QED BY <1>2, <2>1, <2>2
<1>7. Listed(s, L) = a
  BY <1>2, <1>4, <1>5, <1>6
<1> QED BY <1>7 DEF L, a

-----------------------------------------------------------------------------
(* What one more key adds to the meaning.                                  *)

LeavesOpen(s) == Len(s) # 0 /\ Opens(s, Len(s))

LEMMA LeavesOpenAppend ==
  ASSUME NEW s \in Seq(Key), NEW k \in Key
  PROVE  LeavesOpen(Append(s, k)) <=> k = "p" /\ ~LeavesOpen(s)
<1> DEFINE t == Append(s, k)
           n == Len(s)
<1>1. t \in Seq(Key) /\ n \in Nat /\ Len(t) = n + 1 /\ t[n + 1] = k
  BY KeyAppend
<1>2. \A i \in 1..n : Opens(t, i) <=> Opens(s, i)
  BY OpensStays
<1> HIDE DEF t
<1>3. LeavesOpen(t) <=> Opens(t, n + 1)
  BY <1>1 DEF LeavesOpen
<1>4. CASE n = 0
  BY <1>1, <1>3, <1>4, OpensFirst DEF LeavesOpen, t
<1>5. CASE n # 0
  <2>1. n \in Nat \ {0} /\ n \in 1..n
    BY <1>1, <1>5
  <2>2. Opens(t, n + 1) <=> t[n + 1] = "p" /\ ~Opens(t, n)
    BY <2>1, OpensNext
  <2> QED BY <1>1, <1>2, <1>3, <1>5, <2>1, <2>2 DEF LeavesOpen, t
<1> QED BY <1>4, <1>5

LEMMA DetachesAppend ==
  ASSUME NEW s \in Seq(Key), NEW k \in Key
  PROVE  /\ k = "d" /\ LeavesOpen(s) => Detaches(Append(s, k)) = Detaches(s) \cup {Len(s) + 1}
         /\ ~(k = "d" /\ LeavesOpen(s)) => Detaches(Append(s, k)) = Detaches(s)
<1> DEFINE t == Append(s, k)
           n == Len(s)
<1>1. t \in Seq(Key) /\ n \in Nat /\ Len(t) = n + 1 /\ t[n + 1] = k /\ \A i \in 1..n : t[i] = s[i]
  BY KeyAppend
<1>2. \A i \in 1..n : Opens(t, i) <=> Opens(s, i)
  BY OpensStays
<1> HIDE DEF t
<1>3. \A i \in 2..n : i - 1 \in 1..n /\ i \in 1..n
  BY <1>1
<1>4. \A i \in 2..n : i \in Detaches(t) <=> i \in Detaches(s)
  <2> SUFFICES ASSUME NEW i \in 2..n PROVE i \in Detaches(t) <=> i \in Detaches(s)
    OBVIOUS
  <2>1. t[i] = s[i] /\ (Opens(t, i - 1) <=> Opens(s, i - 1)) /\ i \in 2..Len(t)
    BY <1>1, <1>2, <1>3
  <2> QED BY <2>1 DEF Detaches
<1>5. n + 1 \in Detaches(t) <=> k = "d" /\ LeavesOpen(s)
  <2>1. CASE n = 0
    BY <1>1, <2>1 DEF Detaches, LeavesOpen
  <2>2. CASE n # 0
    <3>1. n + 1 \in 2..Len(t) /\ (n + 1) - 1 = n /\ n \in 1..n
      BY <1>1, <2>2
    <3> QED BY <1>1, <1>2, <2>2, <3>1 DEF Detaches, LeavesOpen
  <2> QED BY <2>1, <2>2
<1>6. Detaches(t) \subseteq 2..(n + 1) /\ Detaches(s) \subseteq 2..n /\ \A i \in 2..(n + 1) : i \in 2..n \/ i = n + 1
  BY <1>1 DEF Detaches
<1>7. n + 1 \notin 2..n
  BY <1>1
<1> QED BY <1>4, <1>5, <1>6, <1>7 DEF t

LEMMA LeastIs ==
  ASSUME NEW T \in SUBSET Nat, NEW m \in T, \A n \in T : m <= n
  PROVE  Min(T) = m
<1>1. Min(T) \in T /\ \A n \in T : Min(T) <= n
  BY DEF Min
<1>2. Min(T) \in Nat /\ m \in Nat /\ Min(T) <= m /\ m <= Min(T)
  BY <1>1
<1> QED BY <1>2

LEMMA UntilIn ==
  ASSUME NEW s \in Seq(Key)
  PROVE  /\ Until(s) \in 0..Len(s) /\ Len(s) \in Nat
         /\ Detaches(s) = {} => Until(s) = Len(s)
         /\ Detaches(s) # {} => /\ Until(s) < Len(s) /\ Until(s) + 1 \in Detaches(s)
                               /\ \A n \in Detaches(s) : Until(s) + 1 <= n
<1>1. Len(s) \in Nat
  OBVIOUS
<1>2. CASE Detaches(s) = {}
  BY <1>1, <1>2 DEF Until
<1>3. CASE Detaches(s) # {}
  <2>1. Detaches(s) \in SUBSET Nat /\ Detaches(s) \in SUBSET (2..Len(s))
    BY <1>1 DEF Detaches
  <2>2. PICK m \in Detaches(s) : \A n \in Detaches(s) : m <= n
    BY <1>3, <2>1, LeastOfNat
  <2>3. Min(Detaches(s)) = m
    BY <2>1, <2>2, LeastIs
  <2>4. Until(s) = m - 1
    BY <1>3, <2>3 DEF Until
  <2>5. m \in 2..Len(s)
    BY <2>1, <2>2
  <2>6. Until(s) \in 0..Len(s) /\ Until(s) < Len(s) /\ Until(s) + 1 = m
    BY <1>1, <2>4, <2>5
  <2> QED BY <1>1, <1>3, <2>2, <2>6
<1> QED BY <1>2, <1>3

LEMMA KeptIn ==
  ASSUME NEW s \in Seq(Key)
  PROVE  /\ Kept(s) \in SUBSET (1..Len(s)) /\ Meant(s) \in Seq(Key)
         /\ \A i : i \in Kept(s) <=> i \in 1..Until(s) /\ (Opens(s, i) => i < Until(s) /\ s[i + 1] # "p")
<1>1. Until(s) \in 0..Len(s) /\ Len(s) \in Nat
  BY UntilIn
<1>2. Kept(s) \in SUBSET (1..Len(s))
  BY <1>1 DEF Kept
<1> QED BY <1>2, ListedTyped DEF Meant, Kept

\* After Ctrl-] d, and with it, nothing is added.
LEMMA MeantFrozen ==
  ASSUME NEW s \in Seq(Key), NEW k \in Key, Detaches(s) # {} \/ (k = "d" /\ LeavesOpen(s))
  PROVE  Detaches(Append(s, k)) # {} /\ Meant(Append(s, k)) = Meant(s)
<1> DEFINE t == Append(s, k)
           n == Len(s)
<1>1. t \in Seq(Key) /\ n \in Nat /\ Len(t) = n + 1 /\ t[n + 1] = k /\ \A i \in 1..n : t[i] = s[i]
  BY KeyAppend
<1>2. \A i \in 1..n : Opens(t, i) <=> Opens(s, i)
  BY OpensStays
<1>3. /\ k = "d" /\ LeavesOpen(s) => Detaches(t) = Detaches(s) \cup {n + 1}
      /\ ~(k = "d" /\ LeavesOpen(s)) => Detaches(t) = Detaches(s)
  BY DetachesAppend
<1> HIDE DEF t, n
<1>4. Detaches(t) # {} /\ Detaches(s) \subseteq Detaches(t) /\ Detaches(t) \subseteq Detaches(s) \cup {n + 1}
  BY <1>3
<1>5. /\ Until(s) \in 0..n /\ (Detaches(s) = {} => Until(s) = n)
      /\ Detaches(s) # {} => /\ Until(s) < n /\ Until(s) + 1 \in Detaches(s)
                            /\ \A i \in Detaches(s) : Until(s) + 1 <= i
  BY UntilIn DEF n
<1>6. Until(t) \in Nat /\ Until(t) + 1 \in Detaches(t) /\ \A i \in Detaches(t) : Until(t) + 1 <= i
  BY <1>1, <1>4, UntilIn
<1>7. Until(t) = Until(s)
  <2>1. CASE Detaches(s) = {}
    <3>1. Until(t) + 1 = n + 1
      BY <1>4, <1>6, <2>1
    <3> QED BY <1>1, <1>5, <1>6, <2>1, <3>1
  <2>2. CASE Detaches(s) # {}
    <3>1. Until(t) + 1 <= Until(s) + 1
      BY <1>4, <1>5, <1>6, <2>2
    <3>2. Until(t) + 1 # n + 1
      BY <1>1, <1>5, <1>6, <2>2, <3>1
    <3>3. Until(s) + 1 <= Until(t) + 1
      BY <1>4, <1>5, <1>6, <2>2, <3>2
    <3> QED BY <1>1, <1>5, <1>6, <3>1, <3>3
  <2> QED BY <2>1, <2>2
<1>8. Kept(t) = Kept(s)
  <2>1. ASSUME NEW i \in 1..Until(s)
        PROVE  /\ Opens(t, i) <=> Opens(s, i)
               /\ i < Until(s) => t[i + 1] = s[i + 1]
    <3>1. i \in 1..n /\ (i < Until(s) => i + 1 \in 1..n)
      BY <1>1, <1>5
    <3> QED BY <1>1, <1>2, <3>1
  <2> QED BY <1>7, <2>1 DEF Kept
<1>9. Kept(s) \in SUBSET (1..Len(s)) /\ Len(s) <= Len(t) /\ \A i \in 1..Len(s) : t[i] = s[i]
  BY <1>1, KeptIn DEF n
<1>10. Listed(t, Kept(s)) = Listed(s, Kept(s))
  BY <1>1, <1>9, ListedSame
<1> QED BY <1>4, <1>8, <1>10 DEF Meant, t

\* Without a detach, the key decides about the prefix before it and itself.
LEMMA KeptAppend ==
  ASSUME NEW s \in Seq(Key), NEW k \in Key, Detaches(s) = {}, ~(k = "d" /\ LeavesOpen(s))
  PROVE  Kept(Append(s, k)) =
           (Kept(s) \cup (IF LeavesOpen(s) /\ k # "p" THEN {Len(s)} ELSE {}))
             \cup (IF k = "p" /\ ~LeavesOpen(s) THEN {} ELSE {Len(s) + 1})
<1> DEFINE t == Append(s, k)
           n == Len(s)
           K == (Kept(s) \cup (IF LeavesOpen(s) /\ k # "p" THEN {n} ELSE {}))
                  \cup (IF k = "p" /\ ~LeavesOpen(s) THEN {} ELSE {n + 1})
<1>1. t \in Seq(Key) /\ n \in Nat /\ Len(t) = n + 1 /\ t[n + 1] = k /\ \A i \in 1..n : t[i] = s[i]
  BY KeyAppend
<1>2. \A i \in 1..n : Opens(t, i) <=> Opens(s, i)
  BY OpensStays
<1>3. Detaches(t) = {}
  BY DetachesAppend
<1>4. LeavesOpen(t) <=> k = "p" /\ ~LeavesOpen(s)
  BY LeavesOpenAppend
<1> HIDE DEF t
<1>5. Until(t) = n + 1 /\ Until(s) = n
  BY <1>1, <1>3, UntilIn
<1>6. Opens(t, n + 1) <=> k = "p" /\ ~LeavesOpen(s)
  BY <1>1, <1>4 DEF LeavesOpen
<1>7. LeavesOpen(s) <=> n # 0 /\ Opens(s, n)
  BY DEF LeavesOpen
<1>8. /\ \A i : i \in Kept(s) <=> i \in 1..n /\ (Opens(s, i) => i < n /\ s[i + 1] # "p")
      /\ \A i : i \in Kept(t) <=> i \in 1..(n + 1) /\ (Opens(t, i) => i < n + 1 /\ t[i + 1] # "p")
  BY <1>1, <1>5, KeptIn
<1>9. \A i \in 1..(n + 1) : i \in Kept(t) <=> i \in K
  <2> SUFFICES ASSUME NEW i \in 1..(n + 1) PROVE i \in Kept(t) <=> i \in K
    OBVIOUS
  <2>1. CASE i = n + 1
    <3>1. i \in K <=> ~(k = "p" /\ ~LeavesOpen(s))
      <4>1. i \notin Kept(s) /\ i # n
        BY <1>1, <1>8, <2>1
      <4> QED BY <2>1, <4>1
    <3>2. i \in Kept(t) <=> ~Opens(t, n + 1)
      BY <1>1, <1>8, <2>1
    <3> QED BY <1>6, <3>1, <3>2
  <2>2. CASE i = n /\ n # 0
    <3>1. i \in K <=> (~Opens(s, n) \/ k # "p")
      <4>1. i \in Kept(s) <=> ~Opens(s, n)
        BY <1>1, <1>8, <2>2
      <4>2. i # n + 1
        BY <1>1, <2>2
      <4> QED BY <1>7, <2>2, <4>1, <4>2
    <3>2. i \in Kept(t) <=> (Opens(t, n) => k # "p")
      BY <1>1, <1>8, <2>2
    <3>3. Opens(t, n) <=> Opens(s, n)
      BY <1>1, <1>2, <2>2
    <3> QED BY <3>1, <3>2, <3>3
  <2>3. CASE i \in 1..n /\ i # n
    <3>1. i < n /\ i < n + 1 /\ i + 1 \in 1..n
      BY <1>1, <2>3
    <3>2. t[i + 1] = s[i + 1] /\ (Opens(t, i) <=> Opens(s, i))
      BY <1>1, <1>2, <2>3, <3>1
    <3>3. i \in K <=> i \in Kept(s)
      BY <2>3, <3>1, <1>1
    <3> QED BY <1>8, <2>3, <3>1, <3>2, <3>3
  <2> QED BY <1>1, <2>1, <2>2, <2>3
<1>10. Kept(t) \subseteq 1..(n + 1) /\ K \subseteq 1..(n + 1)
  <2>1. Kept(t) \subseteq 1..(n + 1) /\ Kept(s) \subseteq 1..(n + 1)
    BY <1>1, <1>8
  <2>2. n + 1 \in 1..(n + 1) /\ (LeavesOpen(s) => n \in 1..(n + 1))
    BY <1>1, <1>7
  <2> QED BY <2>1, <2>2
<1> HIDE DEF K
<1>11. Kept(t) = K
  BY <1>9, <1>10
<1> QED BY <1>11 DEF K, t

LEMMA MeantAppend ==
  ASSUME NEW s \in Seq(Key), NEW k \in Key, Detaches(s) = {}, ~(k = "d" /\ LeavesOpen(s))
  PROVE  /\ Detaches(Append(s, k)) = {}
         /\ LeavesOpen(s) /\ k = "p" => Meant(Append(s, k)) = Append(Meant(s), "p")
         /\ LeavesOpen(s) /\ k # "p" => Meant(Append(s, k)) = Meant(s) \o <<"p", k>>
         /\ ~LeavesOpen(s) /\ k = "p" => Meant(Append(s, k)) = Meant(s)
         /\ ~LeavesOpen(s) /\ k # "p" => Meant(Append(s, k)) = Append(Meant(s), k)
<1> DEFINE t == Append(s, k)
           n == Len(s)
<1>1. t \in Seq(Key) /\ n \in Nat /\ Len(t) = n + 1 /\ t[n + 1] = k /\ \A i \in 1..n : t[i] = s[i]
  BY KeyAppend
<1>2. Detaches(t) = {}
  BY DetachesAppend
<1>3. Kept(t) = (Kept(s) \cup (IF LeavesOpen(s) /\ k # "p" THEN {n} ELSE {}))
                  \cup (IF k = "p" /\ ~LeavesOpen(s) THEN {} ELSE {n + 1})
  BY KeptAppend
<1> HIDE DEF t
<1>4. Kept(s) \in SUBSET (1..n) /\ Meant(s) = Listed(s, Kept(s)) /\ Meant(s) \in Seq(Key)
      /\ Meant(t) = Listed(t, Kept(t))
  BY KeptIn DEF Meant
<1>5. Listed(t, Kept(s)) = Meant(s)
  BY <1>1, <1>4, ListedSame
<1>6. \A K \in SUBSET (1..n) : Listed(t, K \cup {n + 1}) = Append(Listed(t, K), k)
  <2> SUFFICES ASSUME NEW K \in SUBSET (1..n)
               PROVE  Listed(t, K \cup {n + 1}) = Append(Listed(t, K), k)
    OBVIOUS
  <2>1. n + 1 <= Len(t)
    BY <1>1
  <2>2. Listed(t, K \cup {n + 1}) = Append(Listed(t, K), t[n + 1])
    BY <1>1, <2>1, ListedAdd
  <2> QED BY <1>1, <2>2
<1>7. CASE ~(LeavesOpen(s) /\ k # "p")
  <2>1. Kept(s) \cup {} = Kept(s)
    OBVIOUS
  <2>2. CASE k = "p" /\ ~LeavesOpen(s)
    <3>1. Kept(t) = Kept(s)
      BY <1>3, <2>2
    <3> QED BY <1>2, <1>4, <1>5, <2>2, <3>1 DEF t
  <2>3. CASE ~(k = "p" /\ ~LeavesOpen(s))
    <3>1. Kept(t) = Kept(s) \cup {n + 1}
      BY <1>3, <1>7, <2>1, <2>3
    <3>2. Meant(t) = Append(Meant(s), k)
      BY <1>4, <1>5, <1>6, <3>1
    <3> QED BY <1>2, <1>7, <2>3, <3>2 DEF t
  <2> QED BY <2>2, <2>3
<1>8. CASE LeavesOpen(s) /\ k # "p"
  <2> DEFINE K == Kept(s) \cup {n}
  <2>1. n \in 1..n /\ Opens(s, n) /\ s[n] = "p" /\ n - 1 \in Nat /\ (n - 1) + 1 = n
    BY <1>1, <1>8 DEF LeavesOpen, Opens
  <2>2. n \notin Kept(s)
    <3>1. Until(s) = n
      BY UntilIn
    <3> QED BY <1>1, <2>1, <3>1, KeptIn
  <2>3. Kept(s) \in SUBSET (1..(n - 1))
    BY <1>1, <1>4, <2>1, <2>2
  <2>4. (n - 1) + 1 <= Len(t)
    BY <1>1
  <2>5. Listed(t, Kept(s) \cup {(n - 1) + 1}) = Append(Listed(t, Kept(s)), t[(n - 1) + 1])
    BY <1>1, <2>1, <2>3, <2>4, ListedAdd
  <2>6. t[n] = "p"
    BY <1>1, <2>1
  <2>7. Listed(t, K) = Append(Meant(s), "p")
    BY <1>5, <2>1, <2>5, <2>6
  <2>8. K \in SUBSET (1..n) /\ Kept(t) = K \cup {n + 1}
    BY <1>3, <1>4, <1>8, <2>1
  <2>9. Meant(t) = Append(Append(Meant(s), "p"), k)
    BY <1>4, <1>6, <2>7, <2>8
  <2>10. Append(Append(Meant(s), "p"), k) = Meant(s) \o <<"p", k>>
    BY <1>4 DEF Key
  <2> QED BY <1>2, <1>8, <2>9, <2>10 DEF t
<1> QED BY <1>7, <1>8

\* What a sequence of keys means, as the state in which the loop should be.
Sense(s) == [out     |-> Meant(s),
             pending |-> Detaches(s) = {} /\ LeavesOpen(s),
             detach  |-> Detaches(s) # {}]

\* localPrefix, one key at a time, follows the meaning.
LEMMA SenseStep ==
  ASSUME NEW s \in Seq(Key), NEW k \in Key
  PROVE  Sense(Append(s, k)) = PrefixStep(Sense(s), k)
<1> DEFINE t == Append(s, k)
           z == Sense(s)
           o == Meant(s)
<1>1. z = [out |-> o, pending |-> (Detaches(s) = {} /\ LeavesOpen(s)), detach |-> (Detaches(s) # {})]
  BY DEF Sense
<1>2. Sense(t) = [out |-> Meant(t), pending |-> (Detaches(t) = {} /\ LeavesOpen(t)), detach |-> (Detaches(t) # {})]
  BY DEF Sense
<1>3. LeavesOpen(t) <=> k = "p" /\ ~LeavesOpen(s)
  BY LeavesOpenAppend
<1> HIDE DEF t, z, o
<1>4. CASE Detaches(s) # {}
  <2>1. Detaches(t) # {} /\ Meant(t) = o
    BY <1>4, MeantFrozen DEF t, o
  <2>2. PrefixStep(z, k) = z
    BY <1>1, <1>4 DEF PrefixStep
  <2> QED BY <1>1, <1>2, <1>4, <2>1, <2>2 DEF t, z
<1>5. CASE Detaches(s) = {} /\ LeavesOpen(s)
  <2>0. z = [out |-> o, pending |-> TRUE, detach |-> FALSE]
    BY <1>1, <1>5
  <2>1. CASE k = "d"
    <3>1. Detaches(t) # {} /\ Meant(t) = o
      BY <1>5, <2>1, MeantFrozen DEF t, o
    <3>2. PrefixStep(z, k) = [out |-> o, pending |-> FALSE, detach |-> TRUE]
      BY <2>0, <2>1 DEF PrefixStep
    <3> QED BY <1>2, <3>1, <3>2 DEF t, z
  <2>2. CASE k = "p"
    <3> DEFINE q == Append(o, "p")
    <3>1. Detaches(t) = {} /\ Meant(t) = q
      BY <1>5, <2>2, MeantAppend DEF t, o
    <3>2. PrefixStep(z, k) = [out |-> q, pending |-> FALSE, detach |-> FALSE]
      BY <2>0, <2>2 DEF PrefixStep
    <3> HIDE DEF q
    <3> QED BY <1>2, <1>3, <1>5, <3>1, <3>2 DEF t, z
  <2>3. CASE k \notin {"d", "p"}
    <3> DEFINE q == o \o <<"p", k>>
    <3>1. Detaches(t) = {} /\ Meant(t) = q
      BY <1>5, <2>3, MeantAppend DEF t, o
    <3>2. PrefixStep(z, k) = [out |-> q, pending |-> FALSE, detach |-> FALSE]
      BY <2>0, <2>3 DEF PrefixStep
    <3> HIDE DEF q
    <3> QED BY <1>2, <1>3, <1>5, <3>1, <3>2 DEF t, z
  <2> QED BY <2>1, <2>2, <2>3
<1>6. CASE Detaches(s) = {} /\ ~LeavesOpen(s)
  <2>0. z = [out |-> o, pending |-> FALSE, detach |-> FALSE]
    BY <1>1, <1>6
  <2>1. CASE k = "p"
    <3>1. Detaches(t) = {} /\ Meant(t) = o
      BY <1>6, <2>1, MeantAppend DEF t, o
    <3>2. PrefixStep(z, k) = [out |-> o, pending |-> TRUE, detach |-> FALSE]
      BY <2>0, <2>1 DEF PrefixStep
    <3> QED BY <1>2, <1>3, <1>6, <2>1, <3>1, <3>2 DEF t, z
  <2>2. CASE k # "p"
    <3> DEFINE q == Append(o, k)
    <3>1. Detaches(t) = {} /\ Meant(t) = q
      BY <1>6, <2>2, MeantAppend DEF t, o
    <3>2. PrefixStep(z, k) = [out |-> q, pending |-> FALSE, detach |-> FALSE]
      BY <2>0, <2>2 DEF PrefixStep
    <3> HIDE DEF q
    <3> QED BY <1>2, <1>3, <2>2, <3>1, <3>2 DEF t, z
  <2> QED BY <2>1, <2>2
<1> QED BY <1>4, <1>5, <1>6

-----------------------------------------------------------------------------
(* A chunk after the keys that came before it.                             *)

After(o, s) == [out |-> o \o s.out, pending |-> s.pending, detach |-> s.detach]

\* What the loop has put out before does not matter to its next step.
LEMMA PrefixStepAfter ==
  ASSUME NEW s \in LoopState, NEW o \in Seq(Key), NEW k \in Key
  PROVE  PrefixStep(After(o, s), k) = After(o, PrefixStep(s, k))
<1>1. PICK x \in Seq(Key), p \in BOOLEAN, d \in BOOLEAN : s = [out |-> x, pending |-> p, detach |-> d]
  BY DEF LoopState
<1>2. /\ o \o Append(x, k) = Append(o \o x, k)
      /\ o \o (x \o <<"p", k>>) = (o \o x) \o <<"p", k>>
  BY DEF Key
<1>3. \A z, q, e : After(o, [out |-> z, pending |-> q, detach |-> e]) =
                     [out |-> o \o z, pending |-> q, detach |-> e]
  BY DEF After
<1>4. After(o, s) = [out |-> o \o x, pending |-> p, detach |-> d]
  BY <1>1, <1>3
<1> DEFINE y == o \o x
<1>5. CASE d
  <2>1. s = [out |-> x, pending |-> p, detach |-> TRUE] /\ After(o, s) = [out |-> y, pending |-> p, detach |-> TRUE]
    BY <1>1, <1>4, <1>5
  <2> HIDE DEF y
  <2> QED BY <2>1, PrefixStepIs, Zenon
<1>6. CASE ~d /\ p
  <2>1. s = [out |-> x, pending |-> TRUE, detach |-> FALSE] /\ After(o, s) = [out |-> y, pending |-> TRUE, detach |-> FALSE]
    BY <1>1, <1>4, <1>6
  <2>2. CASE k = "d"
    <3>1. PrefixStep(s, k) = [out |-> x, pending |-> FALSE, detach |-> TRUE]
      BY <2>1, <2>2, PrefixStepIs, Zenon
    <3>2. PrefixStep(After(o, s), k) = [out |-> y, pending |-> FALSE, detach |-> TRUE]
      <4> HIDE DEF y
      <4> QED BY <2>1, <2>2, PrefixStepIs, Zenon
    <3> QED BY <1>3, <3>1, <3>2
  <2>3. CASE k = "p"
    <3>1. PrefixStep(s, k) = [out |-> Append(x, "p"), pending |-> FALSE, detach |-> FALSE]
      BY <2>1, <2>3, PrefixStepIs, Zenon
    <3>2. PrefixStep(After(o, s), k) = [out |-> Append(y, "p"), pending |-> FALSE, detach |-> FALSE]
      <4> HIDE DEF y
      <4> QED BY <2>1, <2>3, PrefixStepIs, Zenon
    <3>3. After(o, PrefixStep(s, k)) = [out |-> o \o (Append(x, "p")), pending |-> FALSE, detach |-> FALSE]
      BY <1>3, <3>1, Zenon
    <3>4. o \o (Append(x, "p")) = Append(y, "p")
      BY <1>2, <2>3
    <3> QED BY <3>2, <3>3, <3>4, Zenon
  <2>4. CASE k = "x"
    <3>1. PrefixStep(s, k) = [out |-> x \o <<"p", k>>, pending |-> FALSE, detach |-> FALSE]
      BY <2>1, <2>4, PrefixStepIs, Zenon
    <3>2. PrefixStep(After(o, s), k) = [out |-> y \o <<"p", k>>, pending |-> FALSE, detach |-> FALSE]
      <4> HIDE DEF y
      <4> QED BY <2>1, <2>4, PrefixStepIs, Zenon
    <3>3. After(o, PrefixStep(s, k)) = [out |-> o \o (x \o <<"p", k>>), pending |-> FALSE, detach |-> FALSE]
      <4> DEFINE v == x \o <<"p", k>>
      <4>1. PrefixStep(s, k) = [out |-> v, pending |-> FALSE, detach |-> FALSE]
        BY <3>1
      <4> HIDE DEF v
      <4>2. After(o, PrefixStep(s, k)) = [out |-> o \o v, pending |-> FALSE, detach |-> FALSE]
        BY <1>3, <4>1, Zenon
      <4> QED BY <4>2 DEF v
    <3>4. o \o (x \o <<"p", k>>) = y \o <<"p", k>>
      BY <1>2
    <3> QED BY <3>2, <3>3, <3>4, Zenon
  <2> QED BY <2>2, <2>3, <2>4 DEF Key
<1>7. CASE ~d /\ ~p
  <2>1. s = [out |-> x, pending |-> FALSE, detach |-> FALSE] /\ After(o, s) = [out |-> y, pending |-> FALSE, detach |-> FALSE]
    BY <1>1, <1>4, <1>7
  <2>2. CASE k = "p"
    <3>1. PrefixStep(s, k) = [out |-> x, pending |-> TRUE, detach |-> FALSE]
      BY <2>1, <2>2, PrefixStepIs, Zenon
    <3>2. PrefixStep(After(o, s), k) = [out |-> y, pending |-> TRUE, detach |-> FALSE]
      <4> HIDE DEF y
      <4> QED BY <2>1, <2>2, PrefixStepIs, Zenon
    <3> QED BY <1>3, <3>1, <3>2
  <2>3. CASE k # "p"
    <3>1. PrefixStep(s, k) = [out |-> Append(x, k), pending |-> FALSE, detach |-> FALSE]
      BY <2>1, <2>3, PrefixStepIs, Zenon
    <3>2. PrefixStep(After(o, s), k) = [out |-> Append(y, k), pending |-> FALSE, detach |-> FALSE]
      <4> HIDE DEF y
      <4> QED BY <2>1, <2>3, PrefixStepIs, Zenon
    <3>3. After(o, PrefixStep(s, k)) = [out |-> o \o (Append(x, k)), pending |-> FALSE, detach |-> FALSE]
      BY <1>3, <3>1, Zenon
    <3>4. o \o (Append(x, k)) = Append(y, k)
      BY <1>2
    <3> QED BY <3>2, <3>3, <3>4, Zenon
  <2> QED BY <2>2, <2>3
<1> QED BY <1>5, <1>6, <1>7

Firsts(s, n) == SubSeq(s, 1, n)

LEMMA FirstsNext ==
  ASSUME NEW s \in Seq(Key), NEW n \in Nat, n + 1 <= Len(s)
  PROVE  /\ Firsts(s, n) \in Seq(Key) /\ s[n + 1] \in Key
         /\ Firsts(s, n + 1) = Append(Firsts(s, n), s[n + 1])
<1>1. /\ Firsts(s, n) \in Seq(Key) /\ Len(Firsts(s, n)) = n /\ s[n + 1] \in Key
      /\ \A i \in 1..n : Firsts(s, n)[i] = s[i]
  BY DEF Firsts
<1>2. /\ Firsts(s, n + 1) \in Seq(Key) /\ Len(Firsts(s, n + 1)) = n + 1
      /\ \A i \in 1..(n + 1) : Firsts(s, n + 1)[i] = s[i]
  BY DEF Firsts
<1> DEFINE f == Firsts(s, n)
           g == Firsts(s, n + 1)
           h == Append(f, s[n + 1])
<1> HIDE DEF f, g
<1>3. /\ h \in Seq(Key) /\ Len(h) = n + 1 /\ h[n + 1] = s[n + 1]
      /\ \A i \in 1..n : h[i] = s[i]
  BY <1>1 DEF f
<1> HIDE DEF h
<1>4. \A i \in 1..(n + 1) : g[i] = h[i]
  BY <1>2, <1>3 DEF g
<1>5. g = h
  <2>1. g \in Seq(Key) /\ Len(g) = n + 1 /\ h \in Seq(Key) /\ Len(h) = n + 1
    BY <1>2, <1>3 DEF g
  <2> QED BY <2>1, <1>4
<1> QED BY <1>1, <1>5 DEF f, g, h

\* However the keys are cut: the loop over a chunk, starting with the prefix
\* that the keys before it leave open, continues their meaning.
LEMMA ChunkSense ==
  ASSUME NEW s \in Seq(Key), NEW a \in Nat, NEW b \in Nat, a <= b, b <= Len(s),
         Detaches(Firsts(s, a)) = {}
  PROVE  LET r == LocalPrefix(SubSeq(s, a + 1, b), LeavesOpen(Firsts(s, a)))
         IN  r \in LoopState /\ Sense(Firsts(s, b)) = After(Meant(Firsts(s, a)), r)
<1> DEFINE c     == SubSeq(s, a + 1, b)
           open  == LeavesOpen(Firsts(s, a))
           o     == Meant(Firsts(s, a))
           first == [out |-> <<>>, pending |-> open, detach |-> FALSE]
<1>1. c \in Seq(Key) /\ Len(c) = b - a /\ \A i \in 1..(b - a) : c[i] = s[a + i]
  OBVIOUS
<1>2. first \in LoopState /\ open \in BOOLEAN
  BY DEF LoopState, LeavesOpen, Opens
<1>3. o \in Seq(Key)
  <2>1. Firsts(s, a) \in Seq(Key)
    BY DEF Firsts
  <2> QED BY <2>1, KeptIn
<1>4. After(o, first) = Sense(Firsts(s, a))
  <2>1. o \o <<>> = o
    BY <1>3
  <2>2. Sense(Firsts(s, a)) = [out |-> o, pending |-> open, detach |-> FALSE]
    BY <1>2 DEF Sense
  <2> HIDE DEF o, open
  <2> QED BY <2>1, <2>2 DEF After
<1> HIDE DEF c, open, o, first
<1>5. PICK f : Runs(f, c, first, Len(c)) /\ Filtered(c, first) = f[Len(c)]
  BY <1>1, <1>2, FilteredRuns
<1> DEFINE S == {n \in Nat : n <= b - a => Sense(Firsts(s, a + n)) = After(o, f[n])}
<1>6. 0 \in S
  BY <1>4, <1>5 DEF Runs
<1>7. ASSUME NEW n \in Nat, n \in S, n + 1 <= b - a
      PROVE  Sense(Firsts(s, a + (n + 1))) = After(o, f[n + 1])
  <2>1. n \in 0..(b - a) /\ n + 1 \in 1..(b - a) /\ a + n \in Nat /\ (a + n) + 1 <= Len(s)
        /\ a + (n + 1) = (a + n) + 1 /\ (n + 1) - 1 = n
    BY <1>7
  <2>2. Sense(Firsts(s, a + n)) = After(o, f[n])
    BY <1>7
  <2> DEFINE k == s[(a + n) + 1]
  <2>3. Firsts(s, a + n) \in Seq(Key) /\ k \in Key /\ Firsts(s, (a + n) + 1) = Append(Firsts(s, a + n), k)
    BY <2>1, FirstsNext
  <2>4. f[n] \in LoopState /\ f[n + 1] = PrefixStep(f[n], c[n + 1]) /\ c[n + 1] = k
    <3>1. Len(c) = b - a /\ c[n + 1] = k
      BY <1>1, <2>1
    <3> QED BY <1>5, <2>1, <3>1 DEF Runs
  <2> HIDE DEF k, S
  <2>5. Sense(Firsts(s, (a + n) + 1)) = PrefixStep(After(o, f[n]), k)
    BY <2>2, <2>3, SenseStep
  <2>6. PrefixStep(After(o, f[n]), k) = After(o, f[n + 1])
    BY <1>3, <2>3, <2>4, PrefixStepAfter
  <2> QED BY <2>1, <2>5, <2>6
<1>8. \A n \in Nat : n \in S => n + 1 \in S
  BY <1>7
<1> HIDE DEF S
<1>9. b - a \in S /\ b - a \in Nat /\ a + (b - a) = b
  BY <1>6, <1>8, NatClosed
<1>10. Sense(Firsts(s, a + (b - a))) = After(o, f[b - a])
  BY <1>9 DEF S
<1>11. f[b - a] \in LoopState
  BY <1>1, <1>5, <1>9 DEF Runs
<1>12. LocalPrefix(c, open) = f[b - a]
  BY <1>1, <1>5 DEF LocalPrefix, first
<1> QED BY <1>9, <1>10, <1>11, <1>12 DEF c, open, o

LEMMA EmptyMeans == Meant(<<>>) = <<>> /\ Detaches(<<>>) = {} /\ ~LeavesOpen(<<>>)
<1>1. <<>> \in Seq(Key) /\ Len(<<>>) = 0
  OBVIOUS
<1>2. Detaches(<<>>) = {}
  BY <1>1 DEF Detaches
<1>3. Kept(<<>>) = {}
  <2>1. Kept(<<>>) \in SUBSET (1..Len(<<>>))
    BY <1>1, KeptIn
  <2> QED BY <1>1, <2>1
<1>4. Len(Meant(<<>>)) = 0 /\ Meant(<<>>) \in Seq(Key)
  BY <1>1, <1>3, ListedTyped, FS_EmptySet DEF Meant
<1>5. Meant(<<>>) = <<>>
  BY <1>4
<1> QED BY <1>1, <1>2, <1>5 DEF LeavesOpen

\* What localPrefix makes of the keys when no chunk was cut: it puts out the
\* keys that were meant, it detaches exactly when a prefix key is followed by d,
\* and otherwise it remembers a prefix exactly when the last key opened one.
THEOREM LocalPrefixMeans ==
  ASSUME NEW s \in Seq(Key)
  PROVE  LET r == LocalPrefix(s, FALSE)
         IN  /\ r.out = Meant(s)
             /\ r.detach <=> Detaches(s) # {}
             /\ ~r.detach => (r.pending <=> LeavesOpen(s))
<1> DEFINE none == Firsts(s, 0)
           r    == LocalPrefix(s, FALSE)
<1>1. none = <<>> /\ Firsts(s, Len(s)) = s /\ SubSeq(s, 0 + 1, Len(s)) = s /\ Len(<<>>) = 0 /\ Len(s) \in Nat
  BY DEF Firsts
<1>2. Detaches(none) = {} /\ LeavesOpen(none) = FALSE /\ Meant(none) = <<>>
  BY <1>1, EmptyMeans
<1>3. r \in LoopState /\ Sense(Firsts(s, Len(s))) = After(Meant(none), r)
  <2>1. /\ LocalPrefix(SubSeq(s, 0 + 1, Len(s)), LeavesOpen(none)) \in LoopState
        /\ Sense(Firsts(s, Len(s)))
             = After(Meant(none), LocalPrefix(SubSeq(s, 0 + 1, Len(s)), LeavesOpen(none)))
    <3>1. 0 \in Nat /\ Len(s) \in Nat /\ 0 <= Len(s) /\ Len(s) <= Len(s)
      OBVIOUS
    <3> QED BY <1>2, <3>1, ChunkSense
  <2>2. LocalPrefix(SubSeq(s, 0 + 1, Len(s)), LeavesOpen(none)) = r
    BY <1>1, <1>2, Zenon
  <2> HIDE DEF r, none
  <2> QED BY <2>1, <2>2
<1>4. Sense(s) = After(<<>>, r)
  BY <1>1, <1>2, <1>3
<1> HIDE DEF r
<1>5. PICK o \in Seq(Key), p \in BOOLEAN, d \in BOOLEAN : r = [out |-> o, pending |-> p, detach |-> d]
  BY <1>3 DEF LoopState
<1>6. <<>> \o o = o
  OBVIOUS
<1>7. Sense(s) = r
  BY <1>4, <1>5, <1>6 DEF After
<1>8. r.out = Meant(s) /\ r.pending = (Detaches(s) = {} /\ LeavesOpen(s)) /\ r.detach = (Detaches(s) # {})
  BY <1>7 DEF Sense
<1> QED BY <1>8 DEF r

-----------------------------------------------------------------------------
(* The inductive invariant: the gateway's keys and the frame that is being *)
(* written are what the keys taken so far mean, and as long as the loop    *)
(* goes on, prefixPending is the prefix that they leave open.              *)

Over == {"close", "restore", "out"}

KeysShape ==
  /\ keys \in [typed : Seq(Key), read : Nat, boxed : Nat, got : Nat]
  /\ keys.got <= keys.boxed /\ keys.boxed <= keys.read /\ keys.read <= Len(keys.typed)
  /\ pending \in BOOLEAN
  /\ gateway.keys \in Seq(Key) /\ frame.keys \in Seq(Key) /\ frame.detach \in BOOLEAN

KeysInv ==
  /\ KeysShape
  /\ pc # "write" => frame.kind # "keys"
  /\ frame.kind # "keys" => frame.keys = <<>> /\ frame.detach = FALSE
  /\ IsPrefix(gateway.keys, Meant(Got))
  /\ gateway.open /\ exit \notin {"panic", "crash"} => gateway.keys \o frame.keys = Meant(Got)
  /\ exit = "detached" => Detaches(Got) # {}
  /\ exit \in {"panic", "crash"} => pc = "out"
  /\ pc \notin Over => IF frame.detach THEN Detaches(Got) # {}
                       ELSE Detaches(Got) = {} /\ (pending <=> LeavesOpen(Got))

LEMMA PrefixGrows ==
  ASSUME NEW s \in Seq(Key), NEW t \in Seq(Key), NEW o \in Seq(Key)
  PROVE  /\ IsPrefix(s, s) /\ IsPrefix(s, s \o o) /\ IsPrefix(<<>>, s)
         /\ IsPrefix(s, t) => IsPrefix(s, t \o o)
<1>1. IsPrefix(s, s) /\ IsPrefix(s, s \o o) /\ IsPrefix(<<>>, s)
  BY DEF IsPrefix
<1>2. ASSUME IsPrefix(s, t) PROVE IsPrefix(s, t \o o)
  <2>1. Len(s) <= Len(t) /\ SubSeq(s, 1, Len(s)) = SubSeq(t, 1, Len(s))
    BY <1>2 DEF IsPrefix
  <2>2. SubSeq(t \o o, 1, Len(s)) = SubSeq(t, 1, Len(s)) /\ Len(s) <= Len(t \o o)
    BY <2>1
  <2> QED BY <2>1, <2>2 DEF IsPrefix
<1> QED BY <1>1, <1>2

\* A step that neither takes nor sends keys.
LEMMA KeysStay ==
  ASSUME KeysInv, UNCHANGED <<pending, frame>>, Got' = Got, KeysShape',
         gateway'.keys = gateway.keys, gateway'.open => gateway.open,
         pc' = pc \/ (pc # "write" /\ pc' # "write"),
         pc \in Over => pc' \in Over, pc = "out" => pc' = "out",
         exit' = exit \/ exit' \notin {"detached", "panic", "crash"},
         exit \in {"panic", "crash"} => exit' = exit
  PROVE  KeysInv'
BY DEF KeysInv

LEMMA GotSame ==
  ASSUME KeysShape, keys' = keys
  PROVE  Got' = Got
BY DEF Got

\* The loop ends, and what it was writing may be lost.
LEMMA KeysGone ==
  ASSUME KeysInv, Gone, gateway' = gateway, (exit' = exit /\ pc = "restore") \/ exit' \in {"panic", "crash"}
  PROVE  KeysInv'
<1>1. /\ pc' = "out" /\ pending' = FALSE /\ keys' = keys
      /\ frame' = [kind |-> "none", keys |-> <<>>, size |-> AnySize, detach |-> FALSE]
  BY DEF Gone, NoFrame
<1>2. frame'.keys = <<>> /\ frame'.kind = "none" /\ frame'.detach = FALSE /\ <<>> \in Seq(Key)
  BY <1>1
<1>3. Got' = Got
  BY <1>1, GotSame DEF KeysInv
<1>4. KeysShape'
  BY <1>1, <1>2 DEF KeysInv, KeysShape
<1>5. pc = "restore" => frame.keys = <<>>
  BY DEF KeysInv
<1> QED BY <1>1, <1>2, <1>3, <1>4, <1>5 DEF KeysInv, Over

LEMMA ControlsKeys ==
  ASSUME ShapeInv, ModeInv, KeysInv, Controls, ~WriteEnds
  PROVE  KeysInv'
<1>1. CASE Restore \/ PanicUnwinds \/ \E g \in {"setup", "socket", "input", "resize"} : PanicKills(g)
  BY <1>1, KeysGone DEF Restore, PanicUnwinds, PanicKills
<1>2. CASE StartStep \/ OnSignal \/ SetupEnds \/ SetupCancelled \/ Close \/ Signal
  <2>1. /\ UNCHANGED <<keys, pending, frame, gateway>>
        /\ pc' = pc \/ (pc # "write" /\ pc' # "write")
        /\ pc \in Over => pc' \in Over
        /\ pc = "out" => pc' = "out" /\ exit' = exit
        /\ exit' = exit \/ exit' \notin {"detached", "panic", "crash"}
    <3>1. CASE StartStep
      BY <3>1 DEF StartStep, Checks, Watch, EnterRaw, Connected, run, ins, Over
    <3>2. CASE OnSignal
      BY <3>2 DEF OnSignal, SignalInSetup, TakeSignal, Leave, run, ins, Over
    <3>3. CASE SetupEnds \/ SetupCancelled \/ Close
      BY <3>3 DEF SetupEnds, SetupCancelled, Close, run, ins, Over
    <3>4. CASE Signal
      BY <3>4 DEF Signal, run, ins, Over, ModeInv, ShapeInv
    <3> QED BY <1>2, <3>1, <3>2, <3>3, <3>4
  <2>2. Got' = Got
    BY <2>1, GotSame DEF KeysInv
  <2>3. KeysShape'
    BY <2>1 DEF KeysInv, KeysShape
  <2>4. exit \in {"panic", "crash"} => exit' = exit
    BY <2>1 DEF KeysInv
  <2> QED BY <2>1, <2>2, <2>3, <2>4, KeysStay
<1> QED BY <1>1, <1>2 DEF Controls, MainStep

\* The write of the keys that were meant ends, or fails when nobody listens.
LEMMA WriteEndsKeys ==
  ASSUME ShapeInv, ModeInv, KeysInv, WriteEnds
  PROVE  KeysInv'
<1>1. /\ gateway'.open = gateway.open /\ pc = "write" /\ pc' \in {"run", "close"}
      /\ exit' \in {exit, "detached", "1"} /\ frame' = NoFrame /\ UNCHANGED <<keys, pending>>
      /\ exit = "none"
  BY WriteEndsKeeps DEF ins, ModeInv
<1>2. frame'.keys = <<>> /\ frame'.kind = "none" /\ frame'.detach = FALSE /\ <<>> \in Seq(Key)
  BY <1>1, NoFrameTyped
<1>3. Got' = Got
  BY <1>1, GotSame DEF KeysInv
<1>4. /\ gateway.keys \in Seq(Key) /\ frame.keys \in Seq(Key)
      /\ gateway \in [open : BOOLEAN, keys : {gateway.keys}, size : Good]
  BY DEF KeysInv, KeysShape, ShapeInv
<1>5. gateway'.keys = IF gateway.open THEN gateway.keys \o frame.keys ELSE gateway.keys
  <2> DEFINE q == gateway.keys \o frame.keys
  <2>1. gateway' = CASE gateway.open /\ frame.kind = "keys" -> [gateway EXCEPT !.keys = q]
                     [] gateway.open /\ frame.kind = "size" -> [gateway EXCEPT !.size = frame.size]
                     [] OTHER -> gateway
    BY DEF WriteEnds
  <2>2. frame.kind # "keys" => q = gateway.keys
    BY <1>4 DEF KeysInv
  <2> HIDE DEF q
  <2>3. ~gateway.open => gateway'.keys = gateway.keys
    BY <2>1
  <2>4. gateway.open /\ frame.kind = "keys" => gateway'.keys = q
    BY <1>4, <2>1
  <2>5. gateway.open /\ frame.kind # "keys" => gateway'.keys = q
    BY <1>4, <2>1, <2>2
  <2> QED BY <2>3, <2>4, <2>5 DEF q
<1>6. (pc' = "run" => ~frame.detach \/ pc' = "close") /\ (exit' = "detached" => frame.detach)
  BY <1>1 DEF WriteEnds, Leave
<1>7. gateway.open => gateway.keys \o frame.keys = Meant(Got)
  BY <1>1 DEF KeysInv
<1>8. gateway'.keys \in Seq(Key)
  BY <1>4, <1>5
<1>9. IsPrefix(gateway'.keys, Meant(Got))
  BY <1>4, <1>5, <1>7, <1>8, PrefixGrows DEF KeysInv
<1>10. gateway'.open => gateway'.keys \o frame'.keys = Meant(Got)
  <2>1. \A s \in Seq(Key) : s \o <<>> = s
    OBVIOUS
  <2>2. gateway'.open => gateway'.keys = Meant(Got)
    BY <1>1, <1>5, <1>7
  <2> QED BY <1>2, <1>8, <2>1, <2>2
<1>11. KeysShape'
  BY <1>1, <1>2, <1>8 DEF KeysInv, KeysShape
<1>12. /\ frame.detach => Detaches(Got) # {}
       /\ ~frame.detach => Detaches(Got) = {} /\ (pending <=> LeavesOpen(Got))
  BY <1>1 DEF KeysInv, Over
<1> QED BY <1>1, <1>2, <1>3, <1>6, <1>9, <1>10, <1>11, <1>12 DEF KeysInv, Over

\* Typing and reading do not change what was taken.
LEMMA MovesKeys ==
  ASSUME ShapeInv, KeysInv, Moves
  PROVE  KeysInv'
<1>0. UNCHANGED <<pc, exit>> /\ KeysShape
  BY MovesKeep DEF KeysInv
<1>1. CASE SocketHands \/ ResizeReads \/ ResizeHands \/ WindowChanges \/ HangUp \/ GatewaySays \/ GatewayCloses
  <2>1. UNCHANGED <<keys, pending, frame>> /\ gateway'.keys = gateway.keys /\ (gateway'.open => gateway.open)
    BY <1>1 DEF SocketHands, ResizeReads, ResizeHands, WindowChanges, HangUp, GatewaySays, GatewayCloses,
                ins, ShapeInv
  <2>2. Got' = Got
    BY <1>0, <2>1, GotSame
  <2>3. KeysShape'
    BY <1>0, <2>1 DEF KeysShape
  <2> QED BY <1>0, <2>1, <2>2, <2>3, KeysStay
<1>2. CASE Type
  <2>1. PICK k \in Key : keys' = [keys EXCEPT !.typed = Append(keys.typed, k)]
    BY <1>2 DEF Type
  <2>2. UNCHANGED <<gateway, pending, frame>>
    BY <1>2 DEF Type
  <2>3. /\ keys'.typed = Append(keys.typed, k) /\ keys'.got = keys.got /\ keys'.boxed = keys.boxed
        /\ keys'.read = keys.read /\ keys' \in [typed : Seq(Key), read : Nat, boxed : Nat, got : Nat]
    <3> DEFINE q == Append(keys.typed, k)
    <3>1. q \in Seq(Key) /\ keys' = [keys EXCEPT !.typed = q]
      BY <1>0, <2>1 DEF KeysShape
    <3> HIDE DEF q
    <3>2. keys'.typed = q /\ keys'.got = keys.got /\ keys'.boxed = keys.boxed /\ keys'.read = keys.read
          /\ keys' \in [typed : Seq(Key), read : Nat, boxed : Nat, got : Nat]
      BY <1>0, <3>1 DEF KeysShape
    <3> QED BY <3>2 DEF q
  <2>4. /\ keys.typed \in Seq(Key) /\ keys.got \in Nat /\ keys.got <= Len(keys.typed)
        /\ keys.read \in Nat /\ keys.read <= Len(keys.typed)
    BY <1>0 DEF KeysShape
  <2>5. Len(keys'.typed) = Len(keys.typed) + 1 /\ Len(keys.typed) \in Nat
    BY <2>3, <2>4
  <2>6. KeysShape'
    BY <1>0, <2>2, <2>3, <2>4, <2>5 DEF KeysShape
  <2>7. Got' = Got
    <3>1. \A n \in Nat : n <= Len(keys.typed) => SubSeq(Append(keys.typed, k), 1, n) = SubSeq(keys.typed, 1, n)
      BY <2>4
    <3> QED BY <2>3, <2>4, <3>1 DEF Got
  <2> QED BY <1>0, <2>2, <2>6, <2>7, KeysStay
<1>3. CASE InputReads \/ InputHands
  <2>1. /\ UNCHANGED <<gateway, pending, frame>>
        /\ \/ \E n \in (keys.read + 1)..Len(keys.typed) : keys' = [keys EXCEPT !.read = n]
           \/ keys' = [keys EXCEPT !.boxed = keys.read]
    BY <1>3 DEF InputReads, InputHands
  <2>2. KeysShape' /\ keys'.typed = keys.typed /\ keys'.got = keys.got
    BY <1>0, <2>1 DEF KeysShape
  <2>3. Got' = Got
    BY <2>2 DEF Got
  <2> QED BY <1>0, <2>1, <2>2, <2>3, KeysStay
<1> QED BY <1>1, <1>2, <1>3 DEF Moves

LEMMA TakeKeysKeys ==
  ASSUME ShapeInv, ModeInv, KeysInv, TakeKeys
  PROVE  KeysInv'
<1> DEFINE s == keys.typed
           a == keys.got
           b == keys.boxed
           r == LocalPrefix(SubSeq(s, a + 1, b), pending)
           m == Meant(Got)
<1>0. KeysShape /\ exit = "none" /\ pc = "run"
  BY DEF KeysInv, ModeInv, TakeKeys
<1>1. s \in Seq(Key) /\ a \in Nat /\ b \in Nat /\ a <= b /\ b <= Len(s) /\ keys.read \in Nat
      /\ b <= keys.read /\ keys.read <= Len(s)
  BY <1>0 DEF KeysShape
<1>2. Got = Firsts(s, a) /\ Got \in Seq(Key) /\ m \in Seq(Key)
  <2>1. Got = Firsts(s, a) /\ Got \in Seq(Key)
    BY <1>1 DEF Got, Firsts
  <2> QED BY <2>1, KeptIn
<1>3. Detaches(Got) = {} /\ (pending <=> LeavesOpen(Got)) /\ pending = LeavesOpen(Got)
      /\ frame.kind # "keys" /\ frame.keys = <<>> /\ frame.detach = FALSE
  <2>1. Detaches(Got) = {} /\ (pending <=> LeavesOpen(Got))
        /\ frame.kind # "keys" /\ frame.keys = <<>> /\ frame.detach = FALSE
    BY <1>0 DEF KeysInv, Over
  <2>2. pending \in BOOLEAN /\ LeavesOpen(Got) \in BOOLEAN
    BY <1>0 DEF KeysShape, LeavesOpen, Opens
  <2> QED BY <2>1, <2>2
<1>4. r \in LoopState /\ Sense(Firsts(s, b)) = After(m, r)
  BY <1>1, <1>2, <1>3, ChunkSense, Zenon
<1>5. /\ keys' = [keys EXCEPT !.got = b] /\ pending' = r.pending /\ gateway' = gateway
      /\ IF r.out # <<>>
         THEN /\ pc' = "write" /\ UNCHANGED exit
              /\ frame' = [NoFrame EXCEPT !.kind = "keys", !.keys = r.out, !.detach = r.detach]
         ELSE /\ IF r.detach THEN pc' = "close" /\ exit' = "detached" ELSE UNCHANGED <<pc, exit>>
              /\ UNCHANGED frame
  BY DEF TakeKeys, Leave
<1> HIDE DEF r
<1>6. keys'.typed = s /\ keys'.got = b /\ keys'.boxed = b /\ keys'.read = keys.read
      /\ keys' \in [typed : Seq(Key), read : Nat, boxed : Nat, got : Nat]
  BY <1>0, <1>1, <1>5 DEF KeysShape
<1>7. r.out \in Seq(Key) /\ r.pending \in BOOLEAN /\ r.detach \in BOOLEAN
  BY <1>4 DEF LoopState
<1>8. Got' = Firsts(s, b)
  BY <1>6 DEF Got, Firsts
<1>9. /\ Meant(Got') = m \o r.out /\ (Detaches(Got') # {} <=> r.detach)
      /\ (r.pending <=> Detaches(Got') = {} /\ LeavesOpen(Got'))
  <2> DEFINE q == m \o r.out
             g == Got'
  <2>1. Sense(g) = [out |-> q, pending |-> r.pending, detach |-> r.detach]
    BY <1>4, <1>8 DEF After
  <2>2. Sense(g) = [out |-> Meant(g), pending |-> (Detaches(g) = {} /\ LeavesOpen(g)), detach |-> (Detaches(g) # {})]
    BY DEF Sense
  <2> HIDE DEF q, g
  <2>3. Meant(g) = q /\ r.pending = (Detaches(g) = {} /\ LeavesOpen(g)) /\ r.detach = (Detaches(g) # {})
    BY <2>1, <2>2
  <2> QED BY <1>7, <2>3 DEF q, g
<1>10. \/ /\ r.out # <<>> /\ pc' = "write" /\ exit' = exit
          /\ frame'.kind = "keys" /\ frame'.keys = r.out /\ frame'.detach = r.detach
       \/ /\ r.out = <<>> /\ r.detach /\ pc' = "close" /\ exit' = "detached" /\ frame' = frame
       \/ /\ r.out = <<>> /\ ~r.detach /\ pc' = pc /\ exit' = exit /\ frame' = frame
  <2>1. CASE r.out # <<>>
    <3>1. frame' = [kind |-> "keys", keys |-> r.out, size |-> AnySize, detach |-> r.detach]
      BY <1>5, <2>1, NoFrameTyped
    <3> QED BY <1>5, <2>1, <3>1
  <2>2. CASE r.out = <<>>
    BY <1>5, <1>7, <2>2
  <2> QED BY <2>1, <2>2
<1>11. frame'.keys = r.out
  BY <1>3, <1>10
<1>12. gateway.keys \in Seq(Key) /\ IsPrefix(gateway.keys, m) /\ (gateway.open => gateway.keys = m)
  <2>1. gateway.keys \in Seq(Key) /\ (gateway.open => gateway.keys \o <<>> = m) /\ IsPrefix(gateway.keys, m)
    BY <1>0, <1>3 DEF KeysInv, KeysShape
  <2>2. gateway.keys \o <<>> = gateway.keys
    BY <2>1
  <2> QED BY <2>1, <2>2
<1> HIDE DEF m
<1>13. IsPrefix(gateway'.keys, Meant(Got')) /\ (gateway'.open => gateway'.keys \o frame'.keys = Meant(Got'))
  BY <1>2, <1>5, <1>7, <1>9, <1>11, <1>12, PrefixGrows
<1>14. KeysShape'
  BY <1>0, <1>1, <1>3, <1>5, <1>6, <1>7, <1>10, <1>11 DEF KeysShape
<1> QED BY <1>0, <1>3, <1>5, <1>7, <1>9, <1>10, <1>13, <1>14 DEF KeysInv, Over

LEMMA LoopKeys ==
  ASSUME ShapeInv, ModeInv, KeysInv, LoopStep \/ SocketReads, ~TakeKeys
  PROVE  KeysInv'
<1>0. KeysShape
  BY DEF KeysInv
<1>1. CASE TakeOutput \/ TakeClose \/ TakeInputEnd \/ SocketReads
  <2>1. /\ UNCHANGED <<keys, pending, frame, gateway>> /\ pc \notin Over
        /\ pc' = pc \/ (pc # "write" /\ pc' # "write")
        /\ exit' = exit \/ exit' \notin {"detached", "panic", "crash"}
    BY <1>1 DEF TakeOutput, TakeClose, TakeInputEnd, SocketReads, Running, Leave, ExitFor, ins, Over
  <2>2. Got' = Got /\ KeysShape'
    BY <1>0, <2>1, GotSame DEF KeysShape
  <2> QED BY <2>1, <2>2, KeysStay DEF KeysInv, Over
<1>2. CASE TakeChallenge \/ TakeSize
  <2>1. /\ UNCHANGED <<keys, pending, gateway>> /\ pc = "run" /\ pc' \in {"run", "write", "close"}
        /\ exit' \in {exit, "lock"}
        /\ \/ frame' = frame /\ pc' # "write"
           \/ /\ pc' = "write" /\ frame'.kind \in {"proof", "size"} /\ frame'.keys = <<>>
              /\ frame'.detach = FALSE
    <3>1. CASE TakeChallenge
      <4>1. frame' = frame \/ frame' = [kind |-> "proof", keys |-> <<>>, size |-> AnySize, detach |-> FALSE]
        BY <3>1, NoFrameTyped DEF TakeChallenge
      <4> QED BY <3>1, <4>1, NoFrameTyped DEF TakeChallenge, Leave, ins
    <3>2. CASE TakeSize
      <4>1. frame' = frame \/ frame' = [kind |-> "size", keys |-> <<>>, size |-> window.box, detach |-> FALSE]
        BY <3>2, NoFrameTyped DEF TakeSize
      <4> QED BY <3>2, <4>1, NoFrameTyped DEF TakeSize, ins
    <3> QED BY <1>2, <3>1, <3>2
  <2>2. Got' = Got /\ frame.keys = <<>> /\ frame.detach = FALSE
    BY <1>0, <2>1, GotSame DEF KeysInv
  <2>3. frame'.keys = frame.keys /\ frame'.detach = frame.detach
    BY <2>1, <2>2
  <2>4. KeysShape'
    BY <1>0, <2>1, <2>3 DEF KeysShape
  <2> QED BY <2>1, <2>2, <2>3, <2>4 DEF KeysInv, Over, ModeInv
<1> QED BY <1>1, <1>2 DEF LoopStep

LEMMA KeysInvariant == Spec => []KeysInv
<1>1. ASSUME Init PROVE KeysInv
  <2>1. gateway.keys = <<>> /\ keys.typed = <<>> /\ keys.got = 0 /\ keys.boxed = 0 /\ keys.read = 0
        /\ keys \in [typed : Seq(Key), read : Nat, boxed : Nat, got : Nat]
        /\ pc = "checks" /\ exit = "none" /\ pending = FALSE
    BY <1>1 DEF Init
  <2>2. frame.keys = <<>> /\ frame.kind = "none" /\ frame.detach = FALSE
    BY <1>1, NoFrameTyped DEF Init
  <2>3. <<>> \in Seq(Key) /\ Len(<<>>) = 0 /\ SubSeq(<<>>, 1, 0) = <<>> /\ <<>> \o <<>> = <<>>
    OBVIOUS
  <2>4. Got = <<>>
    BY <2>1, <2>3 DEF Got
  <2>5. KeysShape
    <3>1. keys.read <= Len(keys.typed)
      BY <2>1, <2>3
    <3>2. gateway.keys \in Seq(Key) /\ frame.keys \in Seq(Key)
      BY <2>1, <2>2, <2>3
    <3> QED BY <2>1, <2>2, <3>1, <3>2 DEF KeysShape
  <2>6. IsPrefix(<<>>, <<>>)
    BY <2>3, PrefixGrows
  <2> QED BY <2>1, <2>2, <2>3, <2>4, <2>5, <2>6, EmptyMeans DEF KeysInv
<1>2. ASSUME ShapeInv, ModeInv, KeysInv, [Next]_vars PROVE KeysInv'
  <2>1. CASE UNCHANGED vars
    <3>1. UNCHANGED <<keys, pending, frame, gateway, pc, exit>>
      BY <2>1 DEF vars, run, ins
    <3>2. Got' = Got /\ KeysShape'
      BY <1>2, <3>1, GotSame DEF KeysInv, KeysShape
    <3> QED BY <1>2, <3>1, <3>2, KeysStay
  <2> QED BY <1>2, <2>1, AllSteps, ControlsKeys, WriteEndsKeys, MovesKeys, TakeKeysKeys, LoopKeys
<1> QED BY <1>1, <1>2, ShapeInvariant, ModeInvariant, PTL DEF Spec

\* The gateway gets the keys that were meant, in order and once, however many
\* there are, however the reads cut them into chunks and whatever else the loop
\* does in between; it gets none after Ctrl-] d, and only that detaches
\* (localPrefix, Run).
THEOREM KeysArriveCorrect == Spec => []KeysArrive
<1>1. ASSUME KeysInv PROVE KeysArrive
  <2>1. pc # "write" => frame.keys = <<>>
    BY <1>1 DEF KeysInv
  <2>2. gateway.keys \in Seq(Key) /\ gateway.keys \o <<>> = gateway.keys
    BY <1>1 DEF KeysInv, KeysShape
  <2>3. pc # "write" /\ gateway.open /\ exit \notin {"panic", "crash"} => gateway.keys = Meant(Got)
    BY <1>1, <2>1, <2>2 DEF KeysInv
  <2> QED BY <1>1, <2>3 DEF KeysInv, KeysArrive
<1> QED BY <1>1, KeysInvariant, PTL

-----------------------------------------------------------------------------
(* The types, and the bounds of what is counted.                           *)

Exits   == {"none", "ok", "detached", "1", "2", "3", "5", "9", "11", "lock", "signal",
            "setup", "panic", "crash", "killed"}
Typings == [held : {"none", "keys", "eof", "error", "end"}, box : {"none", "keys", "eof", "error"}]

EndInv == exit \in Exits /\ tty \in {"cooked", "raw", "stuck"} /\ typing \in Typings

\* Every frame of the gateway, its output and every key is an event.
CountInv ==
  /\ events \in 0..MaxEvents
  /\ Len(wire) <= events /\ said <= events /\ Len(keys.typed) <= events
  /\ shown <= said

LEMMA EndsTyped ==
  ASSUME ShapeInv, EndInv, [Next]_vars
  PROVE  EndInv'
<1>1. exit' \in Exits
  <2>1. CASE TakeKeys
    BY <2>1, TakeKeysFrame DEF EndInv, Exits
  <2>2. CASE WriteEnds
    BY <2>2, WriteEndsKeeps DEF EndInv, Exits
  <2>3. CASE Moves \/ UNCHANGED vars
    BY <2>3, MovesKeep DEF EndInv
  <2>4. CASE StartStep \/ SetupEnds \/ SetupCancelled \/ Close \/ Restore \/ OnSignal \/ PanicUnwinds \/ Signal
    BY <2>4 DEF StartStep, Checks, Watch, EnterRaw, Connected, SetupEnds, SetupCancelled, Close,
                Restore, OnSignal, SignalInSetup, TakeSignal, Leave, PanicUnwinds, Signal, EndInv, Exits
  <2>5. ASSUME NEW g \in {"setup", "socket", "input", "resize"}, PanicKills(g) PROVE exit' \in Exits
    BY <2>5 DEF PanicKills, Exits
  <2>6. CASE TakeOutput \/ TakeChallenge \/ TakeClose \/ TakeInputEnd \/ TakeSize \/ SocketReads
    BY <2>6 DEF TakeOutput, TakeChallenge, TakeClose, TakeInputEnd, TakeSize, SocketReads, Leave,
                ExitFor, EndInv, Exits
  <2> QED BY <2>1, <2>2, <2>3, <2>4, <2>5, <2>6, AllSteps DEF Controls, MainStep, LoopStep
<1>2. tty' \in {"cooked", "raw", "stuck"}
  <2>1. CASE TakeKeys
    BY <2>1, TakeKeysFrame DEF EndInv
  <2>2. CASE Moves \/ UNCHANGED vars
    BY <2>2, MovesKeep DEF EndInv
  <2>3. CASE Controls
    BY <2>3 DEF Controls, StartStep, Checks, Watch, EnterRaw, Connected, SetupEnds, MainStep,
                SetupCancelled, WriteEnds, Close, Restore, OnSignal, SignalInSetup, TakeSignal,
                PanicUnwinds, PanicKills, Signal, EndInv
  <2>4. CASE TakeOutput \/ TakeChallenge \/ TakeClose \/ TakeInputEnd \/ TakeSize \/ SocketReads
    BY <2>4 DEF TakeOutput, TakeChallenge, TakeClose, TakeInputEnd, TakeSize, SocketReads, EndInv
  <2> QED BY <2>1, <2>2, <2>3, <2>4, AllSteps DEF LoopStep
<1>3. typing' \in Typings
  <2>0. typing \in Typings
    BY DEF EndInv
  <2>1. CASE TakeKeys \/ TakeInputEnd
    BY <2>0, <2>1 DEF TakeKeys, TakeInputEnd, Typings
  <2>2. CASE Restore \/ PanicUnwinds \/ \E g \in {"setup", "socket", "input", "resize"} : PanicKills(g)
    BY <2>2 DEF Restore, PanicUnwinds, PanicKills, Gone, Typings
  <2>3. CASE InputReads \/ HangUp \/ InputHands
    BY <2>0, <2>3 DEF InputReads, HangUp, InputHands, Typings
  <2>4. CASE SocketHands \/ ResizeReads \/ ResizeHands \/ Type \/ WindowChanges \/ GatewaySays \/ GatewayCloses
    BY <2>0, <2>4 DEF SocketHands, ResizeReads, ResizeHands, Type, WindowChanges, GatewaySays,
                      GatewayCloses, ins
  <2>5. CASE StartStep \/ SetupEnds \/ SetupCancelled \/ Close \/ OnSignal \/ Signal \/ UNCHANGED vars
    BY <2>0, <2>5 DEF StartStep, Checks, Watch, EnterRaw, Connected, SetupEnds, SetupCancelled,
                      Close, OnSignal, SignalInSetup, TakeSignal, Signal, run, ins, vars
  <2>6. CASE WriteEnds
    BY <2>0, <2>6 DEF WriteEnds, ins
  <2>7. CASE TakeOutput \/ TakeChallenge \/ TakeClose \/ TakeSize \/ SocketReads
    BY <2>0, <2>7 DEF TakeOutput, TakeChallenge, TakeClose, TakeSize, SocketReads, ins
  <2> QED BY <2>1, <2>2, <2>3, <2>4, <2>5, <2>6, <2>7, AllSteps DEF Controls, MainStep, Moves, LoopStep
<1> QED BY <1>1, <1>2, <1>3 DEF EndInv

LEMMA CountStays ==
  ASSUME CountInv, UNCHANGED <<wire, said, shown>>, keys'.typed = keys.typed, events' = events
  PROVE  CountInv'
BY DEF CountInv

\* Steps of the environment are counted; the others are not.
LEMMA EventCounts ==
  ASSUME CountInv, [Next]_vars
  PROVE  /\ events' \in 0..MaxEvents
         /\ \/ (Program \/ UNCHANGED vars) /\ events' = events
            \/ Environment /\ events' = events + 1
<1>1. events \in Nat /\ events <= MaxEvents /\ MaxEvents \in Nat
  BY AttachAssumption DEF CountInv
<1>2. \/ (Program \/ UNCHANGED vars) /\ events' = events
      \/ Environment /\ events < MaxEvents /\ events' = events + 1
  BY DEF Next, vars
<1> QED BY <1>1, <1>2

LEMMA EnvironmentCounts ==
  ASSUME ShapeInv, KeysShape, CountInv, Environment, events' = events + 1, events' \in 0..MaxEvents
  PROVE  CountInv'
<1>0. events \in Nat /\ Len(wire) \in Nat /\ said \in Nat /\ shown \in Nat /\ Len(keys.typed) \in Nat
      /\ keys.typed \in Seq(Key) /\ wire \in Seq(Frame)
      /\ Len(wire) <= events /\ said <= events /\ Len(keys.typed) <= events /\ shown <= said
  BY DEF CountInv, ShapeInv, KeysShape
<1>1. CASE Signal \/ HangUp \/ WindowChanges
  <2>1. UNCHANGED <<wire, said, shown, keys>>
    BY <1>1 DEF Signal, HangUp, WindowChanges, run, outs, ins
  <2> QED BY <1>0, <2>1 DEF CountInv
<1>2. CASE Type
  <2>1. UNCHANGED <<wire, said, shown>> /\ \E k \in Key : keys' = [keys EXCEPT !.typed = Append(@, k)]
    BY <1>2 DEF Type, outs
  <2>2. Len(keys'.typed) = Len(keys.typed) + 1
    BY <1>0, <2>1 DEF KeysShape
  <2> QED BY <1>0, <2>1, <2>2 DEF CountInv
<1>3. CASE GatewaySays \/ GatewayCloses
  <2>1. /\ \E f \in Frame : wire' = Append(wire, f)
        /\ said' \in {said, said + 1} /\ UNCHANGED <<shown, keys>>
    BY <1>3 DEF GatewaySays, GatewayCloses, ins, Frame
  <2>2. Len(wire') = Len(wire) + 1
    BY <1>0, <2>1
  <2> QED BY <1>0, <2>1, <2>2 DEF CountInv
<1> QED BY <1>1, <1>2, <1>3 DEF Environment

LEMMA ProgramCounts ==
  ASSUME ShapeInv, ModeInv, LastInv, KeysShape, CountInv, Program \/ UNCHANGED vars, events' = events
  PROVE  CountInv'
<1>1. CASE StartStep \/ SetupEnds \/ SetupCancelled \/ Close \/ OnSignal \/ UNCHANGED vars
  <2>1. UNCHANGED <<wire, said, shown, keys>>
    BY <1>1 DEF StartStep, Checks, Watch, EnterRaw, Connected, SetupEnds, SetupCancelled,
                Close, OnSignal, SignalInSetup, TakeSignal, run, outs, ins, vars
  <2> QED BY <2>1, CountStays
<1>2. CASE WriteEnds \/ Restore \/ PanicUnwinds
           \/ \E g \in {"setup", "socket", "input", "resize"} : PanicKills(g)
  <2>1. UNCHANGED <<wire, said, shown, keys>>
    BY <1>2 DEF WriteEnds, Restore, PanicUnwinds, PanicKills, Gone, outs, ins
  <2> QED BY <2>1, CountStays
<1>3. CASE SocketHands \/ InputReads \/ InputHands \/ ResizeReads \/ ResizeHands
  <2>1. UNCHANGED <<wire, said, shown>>
    BY <1>3 DEF SocketHands, InputReads, InputHands, ResizeReads, ResizeHands, outs
  <2>2. keys'.typed = keys.typed
    BY <1>3 DEF SocketHands, InputReads, InputHands, ResizeReads, ResizeHands, ins, KeysShape
  <2> QED BY <2>1, <2>2, CountStays
<1>4. CASE TakeChallenge \/ TakeClose \/ TakeKeys \/ TakeInputEnd \/ TakeSize
  <2>1. UNCHANGED <<wire, said, shown>>
    BY <1>4 DEF TakeChallenge, TakeClose, TakeKeys, TakeInputEnd, TakeSize, outs
  <2>2. keys'.typed = keys.typed
    BY <1>4 DEF TakeChallenge, TakeClose, TakeKeys, TakeInputEnd, TakeSize, ins, KeysShape
  <2> QED BY <2>1, <2>2, CountStays
<1>5. CASE TakeOutput
  <2>1. box = "out" /\ pc = "run" /\ shown' \in {shown, shown + 1} /\ UNCHANGED <<wire, said, keys>>
    BY <1>5 DEF TakeOutput, ins
  <2>2. exit = "none"
    BY <2>1 DEF ModeInv
  <2>3. said = shown + Outs(wire) + One(held) + One(box)
    BY <2>1, <2>2 DEF LastInv
  <2>4. Outs(wire) \in Nat /\ One(held) \in Nat /\ One(box) = 1 /\ said \in Nat /\ shown \in Nat
    BY <2>1, OutsFinite DEF One, ShapeInv
  <2>5. shown' <= said
    BY <2>1, <2>3, <2>4
  <2> QED BY <2>1, <2>5 DEF CountInv
<1>6. CASE SocketReads
  <2>1. wire # <<>> /\ wire' = Tail(wire) /\ UNCHANGED <<said, shown, keys>>
    BY <1>6 DEF SocketReads, ins
  <2>2. Len(wire') = Len(wire) - 1 /\ Len(wire) \in Nat
    BY <2>1 DEF ShapeInv
  <2>3. events \in Nat
    BY DEF CountInv
  <2> QED BY <2>1, <2>2, <2>3 DEF CountInv
<1> QED
  BY <1>1, <1>2, <1>3, <1>4, <1>5, <1>6
  DEF Program, MainStep, LoopStep, Feeders

\* Every variable of an attach keeps its type, the keys of the gateway and of
\* the frames among them, no reader is ahead of the one that feeds it, and no
\* more output is shown than was sent, for every bound of the events.
THEOREM AttachTypeCorrect == Spec => []TypeOK
<1>1. ASSUME Init PROVE EndInv /\ CountInv
  <2>1. typing = [held |-> "none", box |-> "none"] /\ wire = <<>> /\ keys.typed = <<>>
        /\ exit = "none" /\ tty = "cooked" /\ said = 0 /\ shown = 0 /\ events = 0
    BY <1>1 DEF Init
  <2>2. Len(<<>>) = 0 /\ 0 \in 0..MaxEvents
    BY AttachAssumption
  <2>3. EndInv
    BY <2>1 DEF EndInv, Exits, Typings
  <2> QED BY <2>1, <2>2, <2>3 DEF CountInv
<1>2. ASSUME ShapeInv, ModeInv, LastInv, KeysInv, EndInv, CountInv, [Next]_vars PROVE EndInv' /\ CountInv'
  <2>1. EndInv'
    BY <1>2, EndsTyped
  <2>2. /\ events' \in 0..MaxEvents
        /\ \/ (Program \/ UNCHANGED vars) /\ events' = events
           \/ Environment /\ events' = events + 1
    BY <1>2, EventCounts
  <2>3. KeysShape
    BY <1>2 DEF KeysInv
  <2> QED BY <1>2, <2>1, <2>2, <2>3, ProgramCounts, EnvironmentCounts
<1>3. ASSUME ShapeInv, KeysInv, EndInv, CountInv PROVE TypeOK
  <2>1. /\ gateway \in [open : BOOLEAN, keys : {gateway.keys}, size : Good] /\ gateway.keys \in Seq(Key)
        /\ frame \in [kind : {"none", "keys", "size", "proof"}, keys : {frame.keys}, size : Good,
                      detach : {frame.detach}]
        /\ frame.keys \in Seq(Key) /\ frame.detach \in BOOLEAN /\ Good \subseteq Size
    BY <1>3 DEF ShapeInv, KeysInv, KeysShape, Size
  <2>2. gateway \in [open : BOOLEAN, keys : Seq(Key), size : Good]
    BY <2>1
  <2>3. frame \in [kind : {"none", "keys", "size", "proof"}, keys : Seq(Key), size : Size,
                   detach : BOOLEAN]
    BY <2>1
  <2>4. /\ keys \in [typed : Seq(Key), read : Nat, boxed : Nat, got : Nat]
        /\ keys.got <= keys.boxed /\ keys.boxed <= keys.read /\ keys.read <= Len(keys.typed)
        /\ pending \in BOOLEAN
    BY <1>3 DEF KeysInv, KeysShape
  <2>5. events \in Nat /\ events <= MaxEvents /\ MaxEvents \in Nat /\ said \in Nat /\ shown \in Nat
        /\ wire \in Seq(Frame) /\ Len(wire) <= events /\ said <= events /\ Len(keys.typed) <= events
        /\ shown <= said
    BY <1>3, AttachAssumption DEF CountInv, ShapeInv
  <2>6. keys \in [typed : Seq(Key), read : 0..MaxEvents, boxed : 0..MaxEvents, got : 0..MaxEvents]
    <3>1. Len(keys.typed) \in Nat /\ keys.read \in Nat /\ keys.boxed \in Nat /\ keys.got \in Nat
      BY <2>4
    <3>2. keys.read \in 0..MaxEvents /\ keys.boxed \in 0..MaxEvents /\ keys.got \in 0..MaxEvents
      BY <2>4, <2>5, <3>1
    <3> QED BY <2>4, <3>2
  <2>7. Len(wire) <= MaxEvents /\ said \in 0..MaxEvents /\ shown \in 0..said
    <3>1. Len(wire) \in Nat
      BY <2>5
    <3> QED BY <2>5, <3>1
  <2> QED BY <1>3, <2>2, <2>3, <2>4, <2>5, <2>6, <2>7 DEF TypeOK, ShapeInv, EndInv, CountInv, Exits, Typings
<1> QED BY <1>1, <1>2, <1>3, ShapeInvariant, ModeInvariant, LastInvariant, KeysInvariant, PTL DEF Spec

=============================================================================
