------------------------------ MODULE OversightProofs ------------------------------
(***************************************************************************)
(* What holds of Oversight for any drafts, effect types, policies, users   *)
(* and feed connections: which commits are reviewed, which types are       *)
(* tripped and what a viewer of the event feed is told.                    *)
(***************************************************************************)
EXTENDS Oversight, TLAPS, WellFoundedInduction, SequenceTheorems, FiniteSetTheorems

-------------------------------------------------------------------------------
(***************************************************************************)
(* Selected, by induction: every nonempty set of numbers has a least one.  *)
(***************************************************************************)
LEMMA Induction ==
  ASSUME NEW T, 0 \in T, \A n \in Nat : n \in T => n + 1 \in T
  PROVE  \A n \in Nat : n \in T
<1> SUFFICES ASSUME NEW k \in Nat, k \notin T PROVE FALSE
  OBVIOUS
<1> DEFINE F == Nat \ T
<1>1. \E n \in F : \A m \in F : ~(<<m, n>> \in OpToRel(<, Nat))
  BY NatLessThanWellFounded, WFMin
<1>2. PICK n \in F : \A m \in F : ~(m < n)
  BY <1>1 DEF OpToRel
<1>3. n # 0 /\ n - 1 \in Nat /\ n - 1 < n /\ (n - 1) + 1 = n
  OBVIOUS
<1>4. n - 1 \in T
  BY <1>2, <1>3
<1> QED BY <1>3, <1>4

\* f selects from the first k elements.
Selects(f, s, S, k) ==
  f = [n \in 0..k |-> IF n = 0 THEN <<>>
                      ELSE IF s[n] \in S THEN Append(f[n - 1], s[n]) ELSE f[n - 1]]

LEMMA SelectsExists == ASSUME NEW s, NEW S PROVE \A k \in Nat : \E f : Selects(f, s, S, k)
<1> DEFINE T == {k \in Nat : \E f : Selects(f, s, S, k)}
<1>1. 0 \in T
  <2> DEFINE f == [n \in 0..0 |-> <<>>]
  <2>1. Selects(f, s, S, 0)
    BY DEF Selects
  <2> QED BY <2>1
<1>2. ASSUME NEW k \in Nat, k \in T PROVE k + 1 \in T
  <2>1. PICK f : Selects(f, s, S, k)
    BY <1>2
  <2> DEFINE last == IF s[k + 1] \in S THEN Append(f[k], s[k + 1]) ELSE f[k]
             g == [n \in 0..k + 1 |-> IF n = k + 1 THEN last ELSE f[n]]
  <2> HIDE DEF last
  <2>2. \A n \in 0..k : g[n] = f[n]
    OBVIOUS
  <2>3. \A n \in 0..k : f[n] = IF n = 0 THEN <<>>
           ELSE IF s[n] \in S THEN Append(f[n - 1], s[n]) ELSE f[n - 1]
    BY <2>1 DEF Selects
  <2>4. \A n \in 0..k + 1 : g[n] = IF n = 0 THEN <<>>
           ELSE IF s[n] \in S THEN Append(g[n - 1], s[n]) ELSE g[n - 1]
    <3> TAKE n \in 0..k+1
    <3>1. CASE n = 0
      BY <3>1, <2>3, <2>2
    <3>2. CASE n \in 1..k
      <4>1. n \in 0..k /\ n - 1 \in 0..k
        BY <3>2
      <4> QED BY <3>2, <4>1, <2>3, <2>2
    <3>3. CASE n = k + 1
      <4>1. g[n] = last /\ g[n - 1] = f[k] /\ n # 0
        BY <3>3
      <4> HIDE DEF g
      <4> QED BY <3>3, <4>1 DEF last
    <3> QED BY <3>1, <3>2, <3>3
  <2>5. Selects(g, s, S, k + 1)
    BY <2>4 DEF Selects
  <2> QED BY <2>5
<1> HIDE DEF T
<1>3. \A k \in Nat : k \in T
  BY <1>1, <1>2, Induction
<1> QED BY <1>3 DEF T

LEMMA SelectedIs ==
  ASSUME NEW s, NEW S, Len(s) \in Nat
  PROVE  \E f : Selects(f, s, S, Len(s)) /\ Selected(s, S) = f[Len(s)]
<1> DEFINE F == CHOOSE f : Selects(f, s, S, Len(s))
<1>1. Selected(s, S) = F[Len(s)]
  BY DEF Selected, Selects
<1>2. Selects(F, s, S, Len(s))
  BY SelectsExists
<1> QED BY <1>1, <1>2

LEMMA SelectsNext ==
  ASSUME NEW s, NEW S, NEW f, NEW k \in Nat, NEW n \in Nat, n + 1 <= k,
         Selects(f, s, S, k)
  PROVE  f[n + 1] = IF s[n + 1] \in S THEN Append(f[n], s[n + 1]) ELSE f[n]
<1>1. PICK m : m = n + 1
  OBVIOUS
<1>2. m \in 0..k /\ m # 0 /\ m - 1 = n
  BY <1>1
<1>3. f[m] = IF s[m] \in S THEN Append(f[m - 1], s[m]) ELSE f[m - 1]
  BY <1>2 DEF Selects
<1> QED BY <1>1, <1>2, <1>3

LEMMA SelectsAgree ==
  ASSUME NEW s, NEW t, NEW S, NEW f, NEW g, NEW k \in Nat, NEW l \in Nat, k <= l,
         \A n \in 1..k : s[n] = t[n], Selects(f, s, S, k), Selects(g, t, S, l)
  PROVE  \A n \in 0..k : f[n] = g[n]
<1> DEFINE T == {n \in Nat : n <= k => f[n] = g[n]}
<1>1. 0 \in T
  BY DEF Selects
<1>2. ASSUME NEW n \in Nat, n \in T PROVE n + 1 \in T
  <2>1. CASE n + 1 <= k
    <3>1. f[n] = g[n] /\ s[n + 1] = t[n + 1]
      BY <1>2, <2>1
    <3>2. f[n + 1] = IF s[n + 1] \in S THEN Append(f[n], s[n + 1]) ELSE f[n]
      BY <2>1, SelectsNext
    <3>3. g[n + 1] = IF t[n + 1] \in S THEN Append(g[n], t[n + 1]) ELSE g[n]
      BY <2>1, SelectsNext
    <3> QED BY <3>1, <3>2, <3>3
  <2>2. CASE ~(n + 1 <= k)
    BY <2>2
  <2> QED BY <2>1, <2>2
<1> HIDE DEF T
<1>3. \A n \in Nat : n \in T
  BY <1>1, <1>2, Induction
<1> QED BY <1>3 DEF T

LEMMA SelectedEmpty == ASSUME NEW S PROVE Selected(<<>>, S) = <<>>
<1>1. PICK f : Selects(f, <<>>, S, Len(<<>>)) /\ Selected(<<>>, S) = f[Len(<<>>)]
  BY SelectedIs
<1> QED BY <1>1 DEF Selects

LEMMA SelectedAppend ==
  ASSUME NEW R, NEW s \in Seq(R), NEW e \in R, NEW S
  PROVE  Selected(Append(s, e), S)
           = IF e \in S THEN Append(Selected(s, S), e) ELSE Selected(s, S)
<1> DEFINE t == Append(s, e)
           k == Len(s)
<1>1. /\ k \in Nat /\ Len(t) = k + 1 /\ t[k + 1] = e
      /\ \A n \in 1..k : s[n] = t[n]
  OBVIOUS
<1> HIDE DEF t
<1>2. PICK f : Selects(f, s, S, k) /\ Selected(s, S) = f[k]
  BY <1>1, SelectedIs
<1>3. PICK g : Selects(g, t, S, k + 1) /\ Selected(t, S) = g[k + 1]
  BY <1>1, SelectedIs
<1> HIDE DEF k
<1>4. f[k] = g[k]
  BY <1>1, <1>2, <1>3, SelectsAgree
<1>5. g[k + 1] = IF e \in S THEN Append(g[k], e) ELSE g[k]
  BY <1>1, <1>3, SelectsNext
<1> QED BY <1>2, <1>3, <1>4, <1>5 DEF t

LEMMA SequenceInduction ==
  ASSUME NEW R, NEW T, <<>> \in T,
         \A s \in Seq(R), e \in R : s \in T => Append(s, e) \in T
  PROVE  \A s \in Seq(R) : s \in T
<1> DEFINE N == {n \in Nat : \A s \in Seq(R) : Len(s) = n => s \in T}
<1>1. 0 \in N
  <2>1. \A s \in Seq(R) : Len(s) = 0 => s = <<>>
    OBVIOUS
  <2> QED BY <2>1
<1>2. ASSUME NEW n \in Nat, n \in N PROVE n + 1 \in N
  <2> SUFFICES ASSUME NEW s \in Seq(R), Len(s) = n + 1 PROVE s \in T
    OBVIOUS
  <2>1. s # <<>>
    OBVIOUS
  <2>2. PICK t \in Seq(R), e \in R : s = Append(t, e)
    BY <2>1, SequenceEmptyOrAppend
  <2>3. Len(t) = n
    BY <2>2
  <2> QED BY <1>2, <2>2, <2>3
<1> HIDE DEF N
<1>3. \A n \in Nat : n \in N
  BY <1>1, <1>2, Induction
<1> QED BY <1>3 DEF N

LEMMA SelectedType ==
  ASSUME NEW R, NEW S
  PROVE  \A s \in Seq(R) : Selected(s, S) \in Seq(R)
<1> DEFINE T == {s \in Seq(R) : Selected(s, S) \in Seq(R)}
<1>1. <<>> \in T
  <2>1. Selected(<<>>, S) = <<>>
    BY SelectedEmpty
  <2>2. <<>> \in Seq(R)
    OBVIOUS
  <2> QED BY <2>1, <2>2
<1>2. ASSUME NEW s \in Seq(R), NEW e \in R, s \in T PROVE Append(s, e) \in T
  <2>1. Append(s, e) \in Seq(R) /\ Selected(s, S) \in Seq(R)
    BY <1>2
  <2>2. Append(Selected(s, S), e) \in Seq(R)
    BY <2>1
  <2> QED BY <2>1, <2>2, SelectedAppend
<1> HIDE DEF T
<1>3. \A s \in Seq(R) : s \in T
  BY <1>1, <1>2, SequenceInduction
<1> QED BY <1>3 DEF T

LEMMA SelectedTwice ==
  ASSUME NEW R, NEW A, NEW B
  PROVE  \A s \in Seq(R) : Selected(Selected(s, A), B) = Selected(s, A \cap B)
<1> DEFINE T == {s \in Seq(R) : Selected(Selected(s, A), B) = Selected(s, A \cap B)}
<1>1. <<>> \in T
  BY SelectedEmpty
<1>2. ASSUME NEW s \in Seq(R), NEW e \in R, s \in T PROVE Append(s, e) \in T
  <2>1. Selected(s, A) \in Seq(R)
    BY SelectedType
  <2>2. Selected(Append(s, e), A)
          = IF e \in A THEN Append(Selected(s, A), e) ELSE Selected(s, A)
    BY SelectedAppend
  <2>3. Selected(Append(Selected(s, A), e), B)
          = IF e \in B THEN Append(Selected(Selected(s, A), B), e)
                       ELSE Selected(Selected(s, A), B)
    BY <2>1, SelectedAppend
  <2>4. Selected(Append(s, e), A \cap B)
          = IF e \in A \cap B THEN Append(Selected(s, A \cap B), e)
                              ELSE Selected(s, A \cap B)
    BY SelectedAppend
  <2>5. Selected(Selected(s, A), B) = Selected(s, A \cap B) /\ Append(s, e) \in Seq(R)
    BY <1>2
  <2>6. Selected(Selected(Append(s, e), A), B) = Selected(Append(s, e), A \cap B)
    <3>1. CASE e \in A
      <4>1. Selected(Append(s, e), A) = Append(Selected(s, A), e)
        BY <2>2, <3>1
      <4>2. (e \in A \cap B) = (e \in B)
        BY <3>1
      <4> QED BY <2>3, <2>4, <2>5, <4>1, <4>2, Zenon
    <3>2. CASE e \notin A
      BY <2>2, <2>4, <2>5, <3>2
    <3> QED BY <3>1, <3>2
  <2> QED BY <2>5, <2>6
<1> HIDE DEF T
<1>3. \A s \in Seq(R) : s \in T
  BY <1>1, <1>2, SequenceInduction
<1> QED BY <1>3 DEF T

LEMMA SelectedNothing ==
  ASSUME NEW R
  PROVE  \A s \in Seq(R) : Selected(s, {}) = <<>>
<1> DEFINE T == {s \in Seq(R) : Selected(s, {}) = <<>>}
<1>1. <<>> \in T
  BY SelectedEmpty
<1>2. ASSUME NEW s \in Seq(R), NEW e \in R, s \in T PROVE Append(s, e) \in T
  BY <1>2, SelectedAppend
<1> HIDE DEF T
<1>3. \A s \in Seq(R) : s \in T
  BY <1>1, <1>2, SequenceInduction
<1> QED BY <1>3 DEF T

\* r says where in Selected(s, S) each selected element of s is.
Places(s, S) == {n \in 1..Len(s) : s[n] \in S}

Ranks(r, s, S) ==
  /\ \A n \in Places(s, S) : r[n] \in 1..Len(Selected(s, S)) /\ Selected(s, S)[r[n]] = s[n]
  /\ \A m, n \in Places(s, S) : m < n => r[m] < r[n]
  /\ \A k \in 1..Len(Selected(s, S)) : \E n \in Places(s, S) : r[n] = k

LEMMA RanksExist ==
  ASSUME NEW R, NEW S
  PROVE  \A s \in Seq(R) : \E r : Ranks(r, s, S)
<1> DEFINE T == {s \in Seq(R) : \E r : Ranks(r, s, S)}
<1>1. <<>> \in T
  <2>1. Ranks(<<>>, <<>>, S)
    BY SelectedEmpty DEF Ranks, Places
  <2> QED BY <2>1
<1>2. ASSUME NEW s \in Seq(R), NEW e \in R, s \in T PROVE Append(s, e) \in T
  <2>1. PICK r : Ranks(r, s, S)
    BY <1>2
  <2> DEFINE t == Append(s, e)
             k == Len(s)
             a == Selected(s, S)
             b == Selected(t, S)
             q == [n \in 1..k + 1 |-> IF n = k + 1 THEN Len(a) + 1 ELSE r[n]]
  <2>2. /\ k \in Nat /\ t \in Seq(R) /\ Len(t) = k + 1 /\ t[k + 1] = e
        /\ \A n \in 1..k : t[n] = s[n]
    OBVIOUS
  <2>3. a \in Seq(R)
    BY SelectedType
  <2>4. b = IF e \in S THEN Append(a, e) ELSE a
    BY SelectedAppend
  <2>5. Places(t, S) = IF e \in S THEN Places(s, S) \cup {k + 1} ELSE Places(s, S)
    BY <2>2 DEF Places
  <2>6. Places(s, S) \subseteq 1..k
    BY DEF Places
  <2>7. \A n \in Places(s, S) : q[n] = r[n] /\ t[n] = s[n]
    BY <2>2, <2>6
  <2>8. q[k + 1] = Len(a) + 1
    BY <2>2
  <2> HIDE DEF t, k, a, b, q
  <2>9. /\ \A n \in Places(s, S) : r[n] \in 1..Len(a) /\ a[r[n]] = s[n]
        /\ \A m, n \in Places(s, S) : m < n => r[m] < r[n]
        /\ \A j \in 1..Len(a) : \E n \in Places(s, S) : r[n] = j
    BY <2>1 DEF Ranks, a
  <2>10. CASE e \in S
    <3>1. /\ b = Append(a, e) /\ Len(b) = Len(a) + 1 /\ b[Len(a) + 1] = e
          /\ \A j \in 1..Len(a) : b[j] = a[j]
          /\ Len(a) \in Nat
      BY <2>3, <2>4, <2>10
    <3>2. Places(t, S) = Places(s, S) \cup {k + 1}
      BY <2>5, <2>10
    <3>3. \A n \in Places(t, S) : q[n] \in 1..Len(b) /\ b[q[n]] = t[n]
      BY <2>2, <2>7, <2>8, <2>9, <3>1, <3>2
    <3>4. \A m, n \in Places(t, S) : m < n => q[m] < q[n]
      BY <2>2, <2>6, <2>7, <2>8, <2>9, <3>1, <3>2
    <3>5. \A j \in 1..Len(b) : \E n \in Places(t, S) : q[n] = j
      <4> TAKE j \in 1..Len(b)
      <4>1. CASE j = Len(b)
        BY <2>8, <3>1, <3>2, <4>1
      <4>2. CASE j \in 1..Len(a)
        <5>1. PICK n \in Places(s, S) : r[n] = j
          BY <2>9, <4>2
        <5> QED BY <2>7, <3>2, <5>1
      <4> QED BY <3>1, <4>1, <4>2
    <3>6. Ranks(q, t, S)
      BY <3>3, <3>4, <3>5 DEF Ranks, b
    <3> QED BY <2>2, <3>6 DEF t
  <2>11. CASE e \notin S
    <3>1. b = a /\ Places(t, S) = Places(s, S)
      BY <2>4, <2>5, <2>11
    <3>2. Ranks(r, t, S)
      BY <2>7, <2>9, <3>1 DEF Ranks, b
    <3> QED BY <2>2, <3>2 DEF t
  <2> QED BY <2>10, <2>11
<1> HIDE DEF T
<1>3. \A s \in Seq(R) : s \in T
  BY <1>1, <1>2, SequenceInduction
<1> QED BY <1>3 DEF T

-------------------------------------------------------------------------------
(***************************************************************************)
(* Counting: the window, read as a sequence, is the latest verdicts.       *)
(***************************************************************************)
\* f maps A to B one to one.
Matches(f, A, B) ==
  /\ \A x \in A : f[x] \in B
  /\ \A x, y \in A : f[x] = f[y] => x = y
  /\ \A b \in B : \E x \in A : f[x] = b

LEMMA SameSize ==
  ASSUME NEW A, NEW B, NEW f, IsFiniteSet(B), Matches(f, A, B)
  PROVE  IsFiniteSet(A) /\ Cardinality(A) = Cardinality(B)
<1> DEFINE g == [x \in A |-> f[x]]
<1>1. g \in Injection(A, B) /\ g \in Surjection(A, B)
  BY DEF Matches, Injection, IsInjective, Surjection
<1> QED BY <1>1, FS_Injection

LEMMA IntervalSize ==
  ASSUME NEW a \in Int, NEW b \in Int, a <= b + 1
  PROVE  IsFiniteSet(a..b) /\ Cardinality(a..b) = b - a + 1
BY FS_Interval, Z3

\* How many elements LastOf leaves out.
Skipped(s, n) == IF Len(s) <= n THEN 0 ELSE Len(s) - n

LEMMA LastOfIs ==
  ASSUME NEW R, NEW s \in Seq(R), NEW n \in Nat
  PROVE  /\ Skipped(s, n) \in 0..Len(s) /\ LastOf(s, n) \in Seq(R)
         /\ Len(LastOf(s, n)) = Len(s) - Skipped(s, n)
         /\ \A j \in 1..Len(LastOf(s, n)) : LastOf(s, n)[j] = s[j + Skipped(s, n)]
<1>1. CASE Len(s) <= n
  BY <1>1 DEF LastOf, Skipped
<1>2. CASE Len(s) > n
  BY <1>2 DEF LastOf, Skipped
<1> QED BY <1>1, <1>2

\* What a type's policy is.
LEMMA PolicyIs ==
  ASSUME NEW t \in Managed
  PROVE  t \in Types /\ Policy[t].window \in Nat \ {0} /\ Policy[t].threshold \in Nat
BY OversightAssumption DEF Managed, ValidPolicies

LEMMA WindowIsLatest ==
  ASSUME verdicts \in Seq(Verdicts), NEW t \in Managed
  PROVE  /\ Cardinality(Latest(t)) = Len(Window(t))
         /\ Latest(t) # {} => Window(t) # <<>>
         /\ Cardinality({n \in Latest(t) : verdicts[n].decision = "disagreed"})
              = Disagreed(Window(t))
         /\ Len(Window(t)) \in Nat
<1> DEFINE S == VerdictsOn(t)
           of == Places(verdicts, S)
           s == OfType(t)
           w == Policy[t].window
           d == Skipped(s, w)
<1>1. w \in Nat \ {0}
  BY PolicyIs
<1>2. s \in Seq(Verdicts) /\ Len(s) \in Nat
  BY SelectedType DEF OfType
<1>3. PICK r : Ranks(r, verdicts, S)
  BY RanksExist
<1>4. /\ \A n \in of : r[n] \in 1..Len(s) /\ s[r[n]] = verdicts[n]
      /\ \A m, n \in of : m < n => r[m] < r[n]
      /\ \A k \in 1..Len(s) : \E n \in of : r[n] = k
  BY <1>3 DEF Ranks, OfType
<1>5. of = {n \in DOMAIN verdicts : TypeOf[verdicts[n].item] = t} /\ of \subseteq Nat
  BY DEF Places, VerdictsOn
<1>6. /\ d \in 0..Len(s) /\ Window(t) \in Seq(Verdicts) /\ Len(Window(t)) = Len(s) - d
      /\ \A j \in 1..Len(Window(t)) : Window(t)[j] = s[j + d]
  BY <1>1, <1>2, LastOfIs DEF Window
<1>7. d = IF Len(s) <= w THEN 0 ELSE Len(s) - w
  BY DEF Skipped
<1> HIDE DEF S, of, s, w, d
<1>8. \A m, n \in of : (m > n) = (r[m] > r[n]) /\ (r[m] = r[n] => m = n)
  <2> TAKE m, n \in of
  <2>1. m \in Nat /\ n \in Nat /\ r[m] \in Nat /\ r[n] \in Nat
    BY <1>2, <1>4, <1>5
  <2>2. (m < n => r[m] < r[n]) /\ (n < m => r[n] < r[m])
    BY <1>4
  <2> QED BY <2>1, <2>2
<1>9. ASSUME NEW n \in of
      PROVE  Cardinality({m \in of : m > n}) = Len(s) - r[n]
  <2>1. r[n] \in 1..Len(s)
    BY <1>4
  <2>2. /\ IsFiniteSet(r[n] + 1..Len(s))
        /\ Cardinality(r[n] + 1..Len(s)) = Len(s) - r[n]
    <3>1. PICK a, b : a = r[n] + 1 /\ b = Len(s)
      OBVIOUS
    <3>2. a \in Int /\ b \in Int /\ a <= b + 1 /\ b - a + 1 = Len(s) - r[n]
      BY <1>2, <2>1, <3>1
    <3>3. IsFiniteSet(a..b) /\ Cardinality(a..b) = b - a + 1
      BY <3>2, IntervalSize
    <3> QED BY <3>1, <3>2, <3>3
  <2>3. \A m \in {m \in of : m > n} : r[m] \in r[n] + 1..Len(s)
    BY <1>2, <1>4, <1>8, <2>1
  <2>4. \A k \in r[n] + 1..Len(s) : \E m \in {m \in of : m > n} : r[m] = k
    <3> TAKE k \in r[n] + 1..Len(s)
    <3>1. k \in 1..Len(s) /\ k > r[n]
      BY <1>2, <2>1
    <3>2. PICK m \in of : r[m] = k
      BY <1>4, <3>1
    <3>3. m > n
      BY <1>8, <3>1, <3>2
    <3> QED BY <3>2, <3>3
  <2>5. \A x, y \in {m \in of : m > n} : r[x] = r[y] => x = y
    BY <1>8
  <2>6. Matches(r, {m \in of : m > n}, r[n] + 1..Len(s))
    BY <2>3, <2>4, <2>5 DEF Matches
  <2> QED BY <2>2, <2>6, SameSize
<1>10. Latest(t) = {n \in of : r[n] > d}
  <2>1. Latest(t) = {n \in of : Cardinality({m \in of : m > n}) < w}
    BY <1>5 DEF Latest, w
  <2>2. \A n \in of : (Len(s) - r[n] < w) = (r[n] > d)
    BY <1>1, <1>2, <1>4, <1>7
  <2> QED BY <1>9, <2>1, <2>2
<1> DEFINE f == [n \in Latest(t) |-> r[n] - d]
           no == {n \in Latest(t) : verdicts[n].decision = "disagreed"}
           positions == {j \in DOMAIN Window(t) : Window(t)[j].decision = "disagreed"}
<1>11. \A n \in Latest(t) : f[n] \in 1..Len(Window(t)) /\ Window(t)[f[n]] = verdicts[n]
  <2> TAKE n \in Latest(t)
  <2>1. n \in of /\ r[n] > d /\ r[n] \in 1..Len(s) /\ s[r[n]] = verdicts[n]
    BY <1>4, <1>10
  <2>2. f[n] = r[n] - d /\ f[n] + d = r[n]
    BY <1>2, <1>6, <2>1
  <2>3. f[n] \in 1..Len(Window(t))
    BY <1>2, <1>6, <2>1, <2>2
  <2> HIDE DEF f
  <2> QED BY <1>6, <2>1, <2>2, <2>3
<1>12. \A x, y \in Latest(t) : f[x] = f[y] => x = y
  <2> TAKE x, y \in Latest(t)
  <2>1. x \in of /\ y \in of /\ r[x] \in Nat /\ r[y] \in Nat
    BY <1>2, <1>4, <1>10
  <2>2. (f[x] = f[y]) => r[x] = r[y]
    BY <1>2, <1>6, <2>1
  <2> QED BY <1>8, <2>1, <2>2
<1>13. \A j \in 1..Len(Window(t)) : \E n \in Latest(t) : f[n] = j
  <2> TAKE j \in 1..Len(Window(t))
  <2>1. j + d \in 1..Len(s) /\ j + d > d
    BY <1>2, <1>6
  <2>2. PICK n \in of : r[n] = j + d
    BY <1>4, <2>1
  <2>3. n \in Latest(t)
    BY <1>10, <2>1, <2>2
  <2>4. f[n] = j
    BY <1>2, <1>6, <2>2, <2>3
  <2> QED BY <2>3, <2>4
<1> HIDE DEF f
<1>14. /\ IsFiniteSet(1..Len(Window(t))) /\ Len(Window(t)) \in Nat
       /\ Cardinality(1..Len(Window(t))) = Len(Window(t))
  <2>1. Len(Window(t)) \in Nat
    BY <1>6
  <2>2. PICK b : b = Len(Window(t))
    OBVIOUS
  <2>3. IsFiniteSet(1..b) /\ Cardinality(1..b) = b - 1 + 1 /\ b - 1 + 1 = b
    BY <2>1, <2>2, IntervalSize
  <2> QED BY <2>1, <2>2, <2>3
<1>15. IsFiniteSet(Latest(t)) /\ Cardinality(Latest(t)) = Len(Window(t))
  <2>1. Matches(f, Latest(t), 1..Len(Window(t)))
    BY <1>11, <1>12, <1>13 DEF Matches
  <2> QED BY <1>14, <2>1, SameSize
<1>16. Latest(t) # {} => Window(t) # <<>>
  BY <1>6, <1>11
<1>17. DOMAIN Window(t) = 1..Len(Window(t))
  BY <1>6
<1>18. Cardinality(no) = Cardinality(positions)
  <2>1. \A n \in no : f[n] \in positions
    BY <1>11, <1>17
  <2>2. \A x, y \in no : f[x] = f[y] => x = y
    BY <1>12
  <2>3. \A j \in positions : \E n \in no : f[n] = j
    BY <1>11, <1>13, <1>17
  <2>4. IsFiniteSet(positions)
    BY <1>14, <1>17, FS_Subset
  <2>5. Matches(f, no, positions)
    BY <2>1, <2>2, <2>3 DEF Matches
  <2> QED BY <2>4, <2>5, SameSize
<1>19. Disagreed(Window(t)) = Cardinality(positions)
  BY DEF Disagreed
<1> HIDE DEF no, positions
<1> QED BY <1>14, <1>15, <1>16, <1>18, <1>19 DEF no

-------------------------------------------------------------------------------
\* The part of TypeOK that the two properties rest on.
Shapes ==
  /\ item \in [Items -> [stage : Stages, actor : Actors]]
  /\ approvals \in [Approvals -> Decisions \cup {"absent", "pending"}]
  /\ feed \in [Viewers -> Connections]

\* What a connection has seen and pushed: everything seen was pushed once, but
\* what was there when it was opened; and of what is undecided it has seen all
\* but what came after its last poll.
ConnectionOK(v) ==
  feed[v].open =>
    /\ feed[v].known \subseteq Created /\ feed[v].seen \subseteq Created
    /\ \A a \in Approvals :
         feed[v].pushed[a] = IF a \in feed[v].seen \ feed[v].known THEN 1 ELSE 0
    /\ Pending \ feed[v].fresh \subseteq feed[v].seen
    /\ feed[v].fresh \cap feed[v].known = {}

OInv ==
  /\ Shapes
  /\ ReviewsAreOfAgentCommits
  /\ \A v \in Viewers : ConnectionOK(v)

\* A step that leaves the feed alone and makes nothing undecided keeps what a
\* connection knows.
LEMMA FeedUntouched ==
  ASSUME NEW v \in Viewers, ConnectionOK(v), Created' = Created, Pending' \subseteq Pending,
         feed'[v] = feed[v]
  PROVE  ConnectionOK(v)'
BY DEF ConnectionOK

\* The step of a commit that asks a human about an approval that was not there.
LEMMA CreateKeepsConnections ==
  ASSUME OInv, NEW a \in Approvals, approvals[a] = "absent", Create(a)
  PROVE  /\ approvals' \in [Approvals -> Decisions \cup {"absent", "pending"}]
         /\ feed' \in [Viewers -> Connections]
         /\ \A v \in Viewers : ConnectionOK(v)'
<1>1. approvals' \in [Approvals -> Decisions \cup {"absent", "pending"}]
  BY DEF OInv, Shapes, Create
<1>2. feed' \in [Viewers -> Connections]
  <2> SUFFICES ASSUME NEW v \in Viewers
               PROVE  (IF feed[v].open THEN [feed[v] EXCEPT !.fresh = @ \cup {a}]
                       ELSE feed[v]) \in Connections
    BY DEF Create
  <2> QED BY DEF OInv, Shapes, Connections
<1>3. ASSUME NEW v \in Viewers PROVE ConnectionOK(v)'
  <2>1. Created' = Created \cup {a} /\ Pending' = Pending \cup {a} /\ a \notin Created
    BY DEF OInv, Shapes, Create, Created, Pending
  <2>2. CASE ~feed[v].open
    BY <2>2 DEF Create, ConnectionOK
  <2>3. CASE feed[v].open
    <3>1. feed[v] \in Connections BY DEF OInv, Shapes
    <3>2. /\ feed'[v].open = feed[v].open /\ feed'[v].seen = feed[v].seen
          /\ feed'[v].pushed = feed[v].pushed /\ feed'[v].known = feed[v].known
          /\ feed'[v].fresh = feed[v].fresh \cup {a}
      BY <2>3, <3>1 DEF Create, Connections
    <3> QED BY <2>1, <2>3, <3>2 DEF OInv, ConnectionOK
  <2> QED BY <2>2, <2>3
<1> QED BY <1>1, <1>2, <1>3

\* An action that is not about the feed or about new approvals.
LEMMA QuietStep ==
  ASSUME OInv, UNCHANGED <<approvals, feed>>,
         item' \in [Items -> [stage : Stages, actor : Actors]],
         \A i \in Items : item[i].stage = "committed" => item'[i] = item[i]
  PROVE  OInv'
<1>1. Shapes' BY DEF OInv, Shapes
<1>2. ReviewsAreOfAgentCommits'
  <2> SUFFICES ASSUME NEW i \in Items, approvals[<<"review_commit", i>>] # "absent"
               PROVE  item'[i] = [stage |-> "committed", actor |-> "agent"]
    BY DEF ReviewsAreOfAgentCommits
  <2>1. item[i] = [stage |-> "committed", actor |-> "agent"]
    BY DEF OInv, ReviewsAreOfAgentCommits
  <2> QED BY <2>1
<1>3. \A v \in Viewers : ConnectionOK(v)'
  BY FeedUntouched DEF OInv, Created, Pending
<1> QED BY <1>1, <1>2, <1>3 DEF OInv

LEMMA ItemMoves ==
  ASSUME Shapes, NEW i \in Items, item[i].stage # "committed",
         NEW stage \in Stages, NEW actor \in Actors,
         item' = [item EXCEPT ![i] = [stage |-> stage, actor |-> actor]]
  PROVE  /\ item' \in [Items -> [stage : Stages, actor : Actors]]
         /\ \A j \in Items : item[j].stage = "committed" => item'[j] = item[j]
BY DEF Shapes

LEMMA GatewayKeeps ==
  ASSUME OInv, NEW i \in Items,
         AgentCommits(i) \/ HumanCommits(i) \/ CommitFails(i)
  PROVE  OInv'
<1> /\ {"executing", "draft", "committed"} \subseteq Stages
    /\ {"nobody", "agent", "human"} \subseteq Actors
  BY DEF Stages, Actors
<1>1. CASE AgentCommits(i) \/ HumanCommits(i)
  BY <1>1, ItemMoves, QuietStep DEF OInv, AgentCommits, HumanCommits, Execute
<1>2. CASE CommitFails(i)
  BY <1>2, ItemMoves, QuietStep DEF OInv, CommitFails
<1> QED BY <1>1, <1>2

LEMMA AskHumanKeeps ==
  ASSUME OInv, NEW i \in Items, AskHuman(i)
  PROVE  OInv'
<1> DEFINE a == <<"commit_effect", i>>
<1>1. a \in Approvals /\ approvals[a] = "absent" /\ Create(a) /\ item' = item
  BY DEF AskHuman, Approvals
<1>2. /\ approvals' \in [Approvals -> Decisions \cup {"absent", "pending"}]
      /\ feed' \in [Viewers -> Connections]
      /\ \A v \in Viewers : ConnectionOK(v)'
  BY <1>1, CreateKeepsConnections
<1>3. \A j \in Items : approvals'[<<"review_commit", j>>] = approvals[<<"review_commit", j>>]
  BY <1>1 DEF OInv, Shapes, Create, Approvals
<1> QED BY <1>1, <1>2, <1>3 DEF OInv, Shapes, ReviewsAreOfAgentCommits

\* A commit is reviewed only when an agent made it, and was not before.
LEMMA CommitKeeps ==
  ASSUME OInv, NEW i \in Items, Commit(i)
  PROVE  OInv'
<1> DEFINE a == <<"review_commit", i>>
<1>1. /\ item[i].stage = "executing"
      /\ item' = [item EXCEPT ![i].stage = "committed"]
  BY DEF Commit
<1>2. item[i] \in [stage : Stages, actor : Actors]
  BY DEF OInv, Shapes
<1>3. item' = [item EXCEPT ![i] = [stage |-> "committed", actor |-> item[i].actor]]
  <2>1. [item[i] EXCEPT !.stage = "committed"]
          = [stage |-> "committed", actor |-> item[i].actor]
    BY <1>2
  <2> QED BY <1>1, <2>1
<1>4. /\ item' \in [Items -> [stage : Stages, actor : Actors]]
      /\ \A j \in Items : item[j].stage = "committed" => item'[j] = item[j]
      /\ item'[i] = [stage |-> "committed", actor |-> item[i].actor]
  BY <1>1, <1>2, <1>3, ItemMoves DEF OInv, Shapes, Stages
<1>5. CASE UNCHANGED <<approvals, feed>>
  BY <1>4, <1>5, QuietStep
<1>6. CASE Routed(i) /\ Create(a)
  <2>1. a \in Approvals /\ approvals[a] = "absent"
    BY <1>1 DEF OInv, ReviewsAreOfAgentCommits, Approvals
  <2>2. /\ approvals' \in [Approvals -> Decisions \cup {"absent", "pending"}]
        /\ feed' \in [Viewers -> Connections]
        /\ \A v \in Viewers : ConnectionOK(v)'
    BY <1>6, <2>1, CreateKeepsConnections
  <2>3. ASSUME NEW j \in Items, approvals'[<<"review_commit", j>>] # "absent"
        PROVE  item'[j] = [stage |-> "committed", actor |-> "agent"]
    <3>1. CASE j = i
      BY <1>4, <1>6, <3>1 DEF Routed
    <3>2. CASE j # i
      <4>1. approvals'[<<"review_commit", j>>] = approvals[<<"review_commit", j>>]
        BY <1>6, <3>2 DEF OInv, Shapes, Create, Approvals
      <4>2. item[j] = [stage |-> "committed", actor |-> "agent"]
        BY <2>3, <4>1 DEF OInv, ReviewsAreOfAgentCommits
      <4> QED BY <1>4, <4>2
    <3> QED BY <3>1, <3>2
  <2> QED BY <1>4, <2>2, <2>3 DEF OInv, Shapes, ReviewsAreOfAgentCommits
<1> QED BY <1>5, <1>6 DEF Commit

\* A decision makes nothing undecided and creates nothing.
LEMMA ResolveKeeps ==
  ASSUME OInv, NEW a \in Approvals, NEW decision \in Decisions,
         ResolveApproval(a, decision)
  PROVE  OInv'
<1>1. /\ a \in Created /\ approvals' = [approvals EXCEPT ![a] = decision]
      /\ item' = item /\ feed' = feed
  BY DEF ResolveApproval
<1>2. decision # "absent" /\ decision # "pending"
  BY DEF Decisions
<1>3. /\ Created' = Created /\ Pending' \subseteq Pending
      /\ approvals' \in [Approvals -> Decisions \cup {"absent", "pending"}]
  BY <1>1, <1>2 DEF OInv, Shapes, Created, Pending
<1>4. \A v \in Viewers : ConnectionOK(v)'
  BY <1>1, <1>3, FeedUntouched DEF OInv
<1>5. \A i \in Items : approvals'[<<"review_commit", i>>] # "absent"
        => approvals[<<"review_commit", i>>] # "absent"
  BY <1>1 DEF OInv, Shapes, Created
<1> QED BY <1>1, <1>3, <1>4, <1>5 DEF OInv, Shapes, ReviewsAreOfAgentCommits

LEMMA ConnectKeeps ==
  ASSUME OInv, NEW v \in Viewers, Connect(v) \/ Disconnect(v)
  PROVE  OInv'
<1> DEFINE opened == [open |-> TRUE, seen |-> Pending, pushed |-> [a \in Approvals |-> 0],
                      known |-> Created, fresh |-> {}]
<1>1. UNCHANGED <<item, approvals>> BY DEF Connect, Disconnect
<1>2. feed' = [feed EXCEPT ![v] = opened] \/ feed' = [feed EXCEPT ![v] = Closed]
  BY DEF Connect, Disconnect, Closed
<1>3. opened \in Connections /\ Closed \in Connections
  BY DEF Connections, Closed, Created, Pending
<1>4. feed' \in [Viewers -> Connections]
  BY <1>2, <1>3 DEF OInv, Shapes
<1>5. ASSUME NEW w \in Viewers PROVE ConnectionOK(w)'
  <2>1. CASE w # v
    BY <1>1, <1>2, <2>1, FeedUntouched DEF OInv, Shapes, Created, Pending
  <2>2. CASE w = v /\ feed'[v] = opened
    <3>1. Created' = Created /\ Pending' = Pending /\ Pending \subseteq Created
      BY <1>1 DEF Created, Pending
    <3> QED BY <2>2, <3>1 DEF ConnectionOK
  <2>3. CASE w = v /\ feed'[v] = Closed
    BY <2>3 DEF ConnectionOK, Closed
  <2> QED BY <1>2, <2>1, <2>2, <2>3 DEF OInv, Shapes
<1> QED BY <1>1, <1>4, <1>5 DEF OInv, Shapes, ReviewsAreOfAgentCommits

\* A poll pushes what is undecided and was not seen yet: never what was known.
LEMMA PollKeeps ==
  ASSUME OInv, NEW v \in Viewers, Poll(v)
  PROVE  OInv'
<1> DEFINE c == feed[v]
           new == Pending \ c.seen
           after == [open |-> TRUE, seen |-> c.seen \cup new,
                     pushed |-> [a \in Approvals |->
                       IF a \in new THEN c.pushed[a] + 1 ELSE c.pushed[a]],
                     known |-> c.known, fresh |-> {}]
<1>1. UNCHANGED <<item, approvals>> /\ c.open BY DEF Poll
<1>2. c \in Connections BY DEF OInv, Shapes
<1>3. feed' = [feed EXCEPT ![v] = after]
  BY DEF Poll, SeenAfter
<1>4. after \in Connections
  BY <1>2 DEF Connections, Pending
<1>5. feed' \in [Viewers -> Connections]
  BY <1>3, <1>4 DEF OInv, Shapes
<1>6. Created' = Created /\ Pending' = Pending /\ Pending \subseteq Created
  BY <1>1 DEF Created, Pending
<1>7. ASSUME NEW w \in Viewers PROVE ConnectionOK(w)'
  <2>1. CASE w # v
    BY <1>3, <1>6, <2>1, FeedUntouched DEF OInv, Shapes
  <2>2. CASE w = v
    <3>1. feed'[v] = after BY <1>3 DEF OInv, Shapes
    <3>2. /\ c.known \subseteq Created /\ c.seen \subseteq Created
          /\ \A a \in Approvals : c.pushed[a] = IF a \in c.seen \ c.known THEN 1 ELSE 0
          /\ Pending \ c.fresh \subseteq c.seen
          /\ c.fresh \cap c.known = {}
      BY <1>1 DEF OInv, ConnectionOK
    <3>3. new \subseteq c.fresh /\ new \cap c.known = {}
      BY <3>2
    <3>4. \A a \in Approvals :
            after.pushed[a] = IF a \in after.seen \ after.known THEN 1 ELSE 0
      BY <3>2, <3>3
    <3>5. Pending \subseteq after.seen /\ after.seen \subseteq Created
      BY <1>6, <3>2
    <3> HIDE DEF new
    <3> QED BY <1>6, <2>2, <3>1, <3>2, <3>4, <3>5 DEF ConnectionOK
  <2> QED BY <2>1, <2>2
<1> QED BY <1>1, <1>5, <1>7 DEF OInv, Shapes, ReviewsAreOfAgentCommits

-------------------------------------------------------------------------------
LEMMA OInitOK == Init => OInv
BY DEF Init, OInv, Shapes, ReviewsAreOfAgentCommits, ConnectionOK, Closed,
       Connections, Stages, Actors, Approvals

LEMMA OStep == OInv /\ [Next]_vars => OInv'
<1> SUFFICES ASSUME OInv, [Next]_vars PROVE OInv'
  OBVIOUS
<1>1. ASSUME NEW i \in Items,
             AgentCommits(i) \/ AskHuman(i) \/ HumanCommits(i) \/ CommitFails(i) \/ Commit(i)
      PROVE  OInv'
  BY <1>1, GatewayKeeps, AskHumanKeeps, CommitKeeps
<1>2. ASSUME NEW a \in Approvals, NEW request \in Requests, DashboardResolves(a, request)
      PROVE  OInv'
  BY <1>2, ResolveKeeps DEF DashboardResolves, OperatorResolves, Valid
<1>3. ASSUME NEW a \in Approvals, NEW user \in Users, NEW decision \in Decisions,
             SlackResolves(a, user, decision)
      PROVE  OInv'
  BY <1>3, ResolveKeeps DEF SlackResolves, OperatorResolves, Valid
<1>4. ASSUME NEW v \in Viewers, Connect(v) \/ Poll(v) \/ Disconnect(v)
      PROVE  OInv'
  BY <1>4, ConnectKeeps, PollKeeps
<1>5. CASE UNCHANGED <<item, approvals, feed>>
  BY <1>5, QuietStep DEF OInv, Shapes
<1>6. CASE (\E i \in Items : RecordVerdict(i)) \/ (\E t \in Types : Reset(t))
           \/ WeighVerdicts \/ SetTripped \/ FinishReset \/ UNCHANGED vars
  BY <1>5, <1>6 DEF RecordVerdict, Reset, WeighVerdicts, SetTripped, FinishReset, vars
<1> QED BY <1>1, <1>2, <1>3, <1>4, <1>6 DEF Next

LEMMA OversightInvariant == Spec => []OInv
BY OInitOK, OStep, PTL DEF Spec

\* Reviews are held after the fact, of what no human had looked at
\* (effect-gateway.ts, routePostHocReview): however commits fail, are repeated
\* or come to need a human in between.
THEOREM ReviewsFollowAgents == Spec => []ReviewsAreOfAgentCommits
BY OversightInvariant, PTL DEF OInv

LEMMA FeedFollows == OInv => FeedTellsWhatIsNew
<1> SUFFICES ASSUME OInv, NEW v \in Viewers, feed[v].open
             PROVE  /\ \A a \in Approvals :
                         feed[v].pushed[a] <= (IF a \in feed[v].known THEN 0 ELSE 1)
                    /\ \A a \in Pending \ (feed[v].known \cup feed[v].fresh) :
                         feed[v].pushed[a] = 1
  BY DEF FeedTellsWhatIsNew
<1>1. ConnectionOK(v) BY DEF OInv
<1>2. Pending \subseteq Approvals BY DEF Pending
<1> QED BY <1>1, <1>2 DEF ConnectionOK

\* A viewer is told of every approval at most once, of none that was there
\* before it connected, and after a poll of each that still is undecided
\* (dashboard.ts, the events endpoint's poll).
THEOREM FeedIsFaithful == Spec => []FeedTellsWhatIsNew
BY OversightInvariant, FeedFollows, PTL

-------------------------------------------------------------------------------
(***************************************************************************)
(* The QA loop: a verdict in three statements, a reset in two, by two      *)
(* processes.  What a type's window says is said of the sequence that the  *)
(* code reads; WindowIsLatest makes it a statement about the table.        *)
(***************************************************************************)
\* The verdicts on a type ask for its trip.
MustTrip(t) == AtThreshold(Window(t), t)

\* A type that was not recorded and reset at the same time: while it is being
\* reset it has no verdicts, and it lacks its trip only while one is recorded.
TypeInOrder(t) ==
  /\ t \in tripped => t \in caused
  /\ recording.type = t => resetting # t
  /\ resetting = t => OfType(t) = <<>>
  /\ recording.type # t /\ t \in Managed /\ MustTrip(t) => t \in tripped

QAShapes ==
  /\ verdicts \in Seq(Verdicts)
  /\ tripped \subseteq Types /\ caused \subseteq Types \cap Managed /\ raced \subseteq Types
  /\ resetting \in Types \cup {NoType}
  /\ recording \in [type : Types \cup {NoType}, over : BOOLEAN]
  /\ recorded \in 0..MaxVerdicts /\ resets \in 0..MaxResets /\ connects \in 0..MaxConnects

\* A recording that is over the threshold has a cause, unless it was reset.
TInv ==
  /\ QAShapes
  /\ recording.over => recording.type \in Managed \cap (caused \cup raced)
  /\ \A t \in Types \ raced : TypeInOrder(t)

LEMMA TInitial == Init => TInv
<1> SUFFICES ASSUME Init PROVE TInv
  OBVIOUS
<1>1. QAShapes
  BY OversightAssumption DEF Init, QAShapes, NoRecording
<1>2. \A t \in Types : OfType(t) = <<>> /\ Window(t) = <<>>
  <2> TAKE t \in Types
  <2>1. OfType(t) = <<>>
    BY SelectedEmpty DEF Init, OfType
  <2>2. CASE Len(<<>>) <= Policy[t].window
    BY <2>1, <2>2 DEF Window, LastOf
  <2> QED BY <2>1, <2>2 DEF Window, LastOf
<1>3. \A t \in Types : ~MustTrip(t)
  BY <1>2 DEF MustTrip, AtThreshold
<1> QED BY <1>1, <1>2, <1>3, OversightAssumption DEF Init, TInv, TypeInOrder, NoRecording

\* Without verdicts there is no reason to trip.
LEMMA NothingToWeigh ==
  ASSUME NEW t \in Managed, OfType(t) = <<>>
  PROVE  ~MustTrip(t)
<1>1. Len(<<>>) <= Policy[t].window
  BY PolicyIs
<1> QED BY <1>1 DEF MustTrip, AtThreshold, Window, LastOf

LEMMA NothingToWeighAfter ==
  ASSUME NEW t \in Managed, OfType(t)' = <<>>
  PROVE  ~MustTrip(t)'
<1>1. Len(<<>>) <= Policy[t].window
  BY PolicyIs
<1> QED BY <1>1 DEF MustTrip, AtThreshold, Window, LastOf

\* The window of a type depends on its own verdicts alone.
LEMMA SameVerdictsSameWindow ==
  ASSUME NEW t, OfType(t)' = OfType(t)
  PROVE  MustTrip(t)' = MustTrip(t)
BY DEF MustTrip, AtThreshold, Window, LastOf, Disagreed

LEMMA RecordKeepsTrips ==
  ASSUME Shapes, TInv, NEW i \in Items, RecordVerdict(i)
  PROVE  TInv'
<1> DEFINE u == TypeOf[i]
           v == [item |-> i, decision |-> VerdictOf(approvals[<<"review_commit", i>>])]
<1>1. /\ u \in Types /\ v \in Verdicts
      /\ verdicts' = Append(verdicts, v) /\ recording' = [type |-> u, over |-> FALSE]
      /\ recorded' = recorded + 1 /\ recorded < MaxVerdicts
      /\ raced' = IF resetting = u THEN raced \cup {u} ELSE raced
      /\ UNCHANGED <<tripped, resetting, resets, connects, caused>>
      /\ recording = NoRecording
  BY OversightAssumption DEF RecordVerdict, Verdicts, VerdictOf
<1>2. QAShapes'
  BY <1>1, OversightAssumption DEF TInv, QAShapes
<1>3. ASSUME NEW t \in Types, t # u PROVE OfType(t)' = OfType(t)
  <2>1. v \notin VerdictsOn(t)
    BY <1>3 DEF VerdictsOn
  <2> QED BY <1>1, <2>1, SelectedAppend DEF TInv, QAShapes, OfType
<1>4. ASSUME NEW t \in Types \ raced' PROVE TypeInOrder(t)'
  <2>1. t \in Types \ raced
    BY <1>1, <1>4
  <2>2. TypeInOrder(t)
    BY <2>1 DEF TInv
  <2>3. CASE t = u
    <3>1. resetting # u
      BY <1>1, <1>4, <2>3
    <3> QED BY <1>1, <2>2, <2>3, <3>1 DEF TypeInOrder
  <2>4. CASE t # u
    <3>1. OfType(t)' = OfType(t) /\ MustTrip(t)' = MustTrip(t)
      BY <1>3, <2>1, <2>4, SameVerdictsSameWindow
    <3>2. recording.type # t
      BY <1>1, <2>1, OversightAssumption DEF NoRecording
    <3> QED BY <1>1, <2>2, <2>4, <3>1, <3>2 DEF TypeInOrder
  <2> QED BY <2>3, <2>4
<1> QED BY <1>1, <1>2, <1>4 DEF TInv

LEMMA WeighKeepsTrips ==
  ASSUME Shapes, TInv, WeighVerdicts
  PROVE  TInv'
<1> DEFINE u == recording.type
           over == u \in Managed /\ MustTrip(u)
<1>1. /\ recording # NoRecording /\ ~recording.over
      /\ recording \in [type : Types \cup {NoType}, over : BOOLEAN]
      /\ UNCHANGED <<verdicts, tripped, resetting, recorded, resets, connects, raced>>
      /\ IF over THEN recording' = [recording EXCEPT !.over = TRUE] /\ caused' = caused \cup {u}
                 ELSE recording' = NoRecording /\ UNCHANGED caused
  BY DEF WeighVerdicts, TInv, QAShapes, MustTrip
<1>2. \A t \in Types : OfType(t)' = OfType(t) /\ MustTrip(t)' = MustTrip(t)
  BY <1>1, SameVerdictsSameWindow DEF OfType
<1>3. CASE over
  <2>1. u \in Managed /\ u \in Types
    BY <1>3, PolicyIs
  <2>2. /\ recording' \in [type : Types \cup {NoType}, over : BOOLEAN]
        /\ recording'.type = u /\ recording'.over
    BY <1>1, <1>3
  <2>3. caused' = caused \cup {u}
    BY <1>1, <1>3
  <2>4. QAShapes'
    BY <1>1, <2>1, <2>2, <2>3 DEF TInv, QAShapes
  <2>5. \A t \in Types \ raced' : TypeInOrder(t)'
    BY <1>1, <1>2, <2>2, <2>3 DEF TInv, TypeInOrder
  <2> QED BY <2>1, <2>2, <2>3, <2>4, <2>5 DEF TInv
<1>4. CASE ~over
  <2>1. recording' = NoRecording /\ caused' = caused
    BY <1>1, <1>4
  <2>2. QAShapes'
    BY <1>1, <2>1 DEF TInv, QAShapes, NoRecording
  <2>3. ASSUME NEW t \in Types \ raced' PROVE TypeInOrder(t)'
    <3>1. TypeInOrder(t)
      BY <1>1, <2>3 DEF TInv
    <3>2. recording'.type # t
      BY <2>1, <2>3, OversightAssumption DEF NoRecording
    <3> QED BY <1>1, <1>2, <1>4, <2>1, <2>3, <3>1, <3>2 DEF TypeInOrder
  <2>4. ~recording'.over
    BY <2>1 DEF NoRecording
  <2> QED BY <2>2, <2>3, <2>4 DEF TInv
<1> QED BY <1>3, <1>4

LEMMA TripKeepsTrips ==
  ASSUME Shapes, TInv, SetTripped
  PROVE  TInv'
<1> DEFINE u == recording.type
<1>1. /\ recording.over /\ tripped' = tripped \cup {u} /\ recording' = NoRecording
      /\ UNCHANGED <<verdicts, resetting, recorded, resets, connects, caused, raced>>
  BY DEF SetTripped
<1>2. u \in Managed /\ u \in Types /\ u \in caused \cup raced
  BY <1>1, PolicyIs DEF TInv
<1>3. QAShapes'
  BY <1>1, <1>2 DEF TInv, QAShapes, NoRecording
<1>4. \A t \in Types : OfType(t)' = OfType(t) /\ MustTrip(t)' = MustTrip(t)
  BY <1>1, SameVerdictsSameWindow DEF OfType
<1>5. ASSUME NEW t \in Types \ raced' PROVE TypeInOrder(t)'
  <2>1. TypeInOrder(t)
    BY <1>1, <1>5 DEF TInv
  <2>2. recording'.type # t
    BY <1>1, <1>5, OversightAssumption DEF NoRecording
  <2> QED BY <1>1, <1>2, <1>4, <1>5, <2>1, <2>2 DEF TypeInOrder
<1>6. ~recording'.over
  BY <1>1 DEF NoRecording
<1> QED BY <1>3, <1>5, <1>6 DEF TInv

LEMMA ResetKeepsTrips ==
  ASSUME Shapes, TInv, NEW u \in Types, Reset(u)
  PROVE  TInv'
<1> DEFINE rest == Verdicts \ VerdictsOn(u)
<1>1. /\ resetting = NoType /\ resets < MaxResets /\ resetting' = u
      /\ verdicts' = Selected(verdicts, rest) /\ resets' = resets + 1
      /\ raced' = IF recording.type = u THEN raced \cup {u} ELSE raced
      /\ UNCHANGED <<tripped, recording, recorded, connects, caused>>
      /\ verdicts \in Seq(Verdicts)
  BY DEF Reset, TInv, QAShapes
<1>2. verdicts' \in Seq(Verdicts)
  BY <1>1, SelectedType
<1>3. QAShapes'
  BY <1>1, <1>2, OversightAssumption DEF TInv, QAShapes
<1>4. \A t \in Types : OfType(t)' = Selected(verdicts, rest \cap VerdictsOn(t))
  BY <1>1, SelectedTwice DEF OfType, VerdictsOn
<1>5. ASSUME NEW t \in Types, t # u PROVE OfType(t)' = OfType(t)
  <2>1. rest \cap VerdictsOn(t) = VerdictsOn(t)
    BY <1>5 DEF VerdictsOn
  <2> QED BY <1>4, <2>1 DEF OfType
<1>6. OfType(u)' = <<>>
  <2>1. rest \cap VerdictsOn(u) = {}
    OBVIOUS
  <2> QED BY <1>1, <1>4, <2>1, SelectedNothing
<1>7. ASSUME NEW t \in Types \ raced' PROVE TypeInOrder(t)'
  <2>1. TypeInOrder(t)
    BY <1>1, <1>7 DEF TInv
  <2>2. CASE t = u
    <3>1. recording.type # u
      BY <1>1, <1>7, <2>2
    <3>2. t \in Managed => ~MustTrip(t)'
      BY <1>6, <2>2, NothingToWeighAfter
    <3> QED BY <1>1, <1>6, <2>1, <2>2, <3>1, <3>2 DEF TypeInOrder
  <2>3. CASE t # u
    <3>1. OfType(t)' = OfType(t) /\ MustTrip(t)' = MustTrip(t)
      BY <1>5, <1>7, <2>3, SameVerdictsSameWindow
    <3> QED BY <1>1, <2>1, <2>3, <3>1 DEF TypeInOrder
  <2> QED BY <2>2, <2>3
<1> QED BY <1>1, <1>3, <1>7 DEF TInv

LEMMA FinishKeepsTrips ==
  ASSUME Shapes, TInv, FinishReset
  PROVE  TInv'
<1> DEFINE u == resetting
<1>1. /\ u # NoType /\ tripped' = tripped \ {u} /\ caused' = caused \ {u} /\ resetting' = NoType
      /\ UNCHANGED <<verdicts, recording, recorded, resets, connects, raced>>
      /\ u \in Types
  BY DEF FinishReset, TInv, QAShapes
<1>2. QAShapes'
  BY <1>1 DEF TInv, QAShapes
<1>3. \A t \in Types : OfType(t)' = OfType(t) /\ MustTrip(t)' = MustTrip(t)
  BY <1>1, SameVerdictsSameWindow DEF OfType
<1>4. recording.over => recording.type \in Managed \cap (caused' \cup raced')
  <2>1. recording.type = u => u \in raced
    BY <1>1 DEF TInv, TypeInOrder
  <2> QED BY <1>1, <2>1 DEF TInv
<1>5. ASSUME NEW t \in Types \ raced' PROVE TypeInOrder(t)'
  <2>1. TypeInOrder(t) /\ resetting' # t
    BY <1>1, <1>5, OversightAssumption DEF TInv
  <2>2. t = u /\ t \in Managed => ~MustTrip(t)
    BY <2>1, NothingToWeigh DEF TypeInOrder
  <2> QED BY <1>1, <1>3, <1>5, <2>1, <2>2 DEF TypeInOrder
<1> QED BY <1>1, <1>2, <1>4, <1>5 DEF TInv

\* What the QA loop does not see.
LEMMA OthersKeepTrips ==
  ASSUME TInv, UNCHANGED qaVars, connects' \in 0..MaxConnects
  PROVE  TInv'
<1>1. /\ UNCHANGED <<verdicts, tripped, recording, resetting, recorded, resets, caused, raced>>
      /\ QAShapes'
  BY DEF qaVars, TInv, QAShapes
<1>2. \A t \in Types : OfType(t)' = OfType(t) /\ MustTrip(t)' = MustTrip(t)
  BY <1>1, SameVerdictsSameWindow DEF OfType
<1>3. \A t \in Types \ raced' : TypeInOrder(t)'
  BY <1>1, <1>2 DEF TInv, TypeInOrder
<1> QED BY <1>1, <1>3 DEF TInv

LEMMA TStep == OInv /\ TInv /\ [Next]_vars => TInv'
<1> SUFFICES ASSUME OInv, TInv, [Next]_vars PROVE TInv'
  OBVIOUS
<1>1. Shapes
  BY DEF OInv
<1>2. CASE UNCHANGED qaVars /\ connects' \in 0..MaxConnects
  BY <1>2, OthersKeepTrips
<1>3. connects \in 0..MaxConnects /\ connects' = connects => connects' \in 0..MaxConnects
  OBVIOUS
<1>4. connects \in 0..MaxConnects
  BY DEF TInv, QAShapes
<1>5. ASSUME NEW i \in Items,
             AgentCommits(i) \/ AskHuman(i) \/ HumanCommits(i) \/ CommitFails(i) \/ Commit(i)
      PROVE  TInv'
  BY <1>2, <1>4, <1>5 DEF AgentCommits, AskHuman, HumanCommits, CommitFails, Commit
<1>6. ASSUME NEW a \in Approvals, NEW request \in Requests, DashboardResolves(a, request)
      PROVE  TInv'
  BY <1>2, <1>4, <1>6 DEF DashboardResolves, OperatorResolves, ResolveApproval
<1>7. ASSUME NEW a \in Approvals, NEW user \in Users, NEW decision \in Decisions,
             SlackResolves(a, user, decision)
      PROVE  TInv'
  BY <1>2, <1>4, <1>7 DEF SlackResolves, OperatorResolves, ResolveApproval
<1>8. ASSUME NEW v \in Viewers, Connect(v) \/ Poll(v) \/ Disconnect(v)
      PROVE  TInv'
  <2>1. connects' \in 0..MaxConnects
    BY <1>4, <1>8, OversightAssumption DEF Connect, Poll, Disconnect
  <2> QED BY <1>2, <1>8, <2>1 DEF Connect, Poll, Disconnect
<1>9. CASE UNCHANGED vars
  BY <1>2, <1>4, <1>9 DEF vars
<1> QED BY <1>1, <1>5, <1>6, <1>7, <1>8, <1>9, RecordKeepsTrips, WeighKeepsTrips,
           TripKeepsTrips, ResetKeepsTrips, FinishKeepsTrips DEF Next

LEMMA TripInvariant == Spec => []TInv
BY TInitial, TStep, OversightInvariant, PTL DEF Spec

\* The type of every variable, the table of verdicts among them.
THEOREM TypeCorrect == Spec => []TypeOK
<1>1. OInv /\ TInv => TypeOK
  BY DEF OInv, Shapes, TInv, QAShapes, TypeOK
<1> QED BY <1>1, OversightInvariant, TripInvariant, PTL

LEMMA WindowDecides ==
  ASSUME TInv, NEW t \in Managed, Latest(t) # {},
         100 * Cardinality({n \in Latest(t) : verdicts[n].decision = "disagreed"})
           >= Policy[t].threshold * Cardinality(Latest(t))
  PROVE  MustTrip(t)
BY WindowIsLatest DEF TInv, QAShapes, MustTrip, AtThreshold

\* A type is tripped exactly as its latest verdicts and its resets ask for,
\* whatever the recording of a verdict on another type or its reset is in the
\* middle of (sampling-qa.ts): only a type's own reset during the recording of
\* its own verdict can part them.
THEOREM TripsFollowTheWindow == Spec => []TripFollowsTheWindow
<1>1. TInv => TripFollowsTheWindow
  <2> SUFFICES ASSUME TInv, NEW t \in Types \ raced, recording.type # t, resetting # t
               PROVE  /\ t \in tripped => t \in caused /\ t \in Managed
                      /\ t \in Managed =>
                           LET no == {n \in Latest(t) : verdicts[n].decision = "disagreed"} IN
                             /\ Latest(t) # {}
                             /\ 100 * Cardinality(no) >= Policy[t].threshold * Cardinality(Latest(t))
                             => t \in tripped
    BY DEF TripFollowsTheWindow
  <2>1. TypeInOrder(t) /\ caused \subseteq Managed
    BY DEF TInv, QAShapes
  <2> QED BY <2>1, WindowDecides DEF TypeInOrder
<1> QED BY <1>1, TripInvariant, PTL
===============================================================================
