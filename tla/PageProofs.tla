------------------------------- MODULE PageProofs -------------------------------
(***************************************************************************)
(* What the pages of the browser promise for every value of their          *)
(* constants: proofs about PanelPopovers, PanelCard, Automations,          *)
(* DashboardShell and Explorer, one section each, as WebPages instantiates *)
(* them.  The pages of the settings follow in WebPagesProofs.              *)
(***************************************************************************)
EXTENDS WebPages, FiniteSets, SequenceTheorems, FiniteSetTheorems, NaturalsInduction, WellFoundedInduction, Lists, TLAPS

-----------------------------------------------------------------------------
(***************************************************************************)
(* Sequences: one without an element, and what is kept of a list.          *)
(***************************************************************************)
(* A sequence that has lost one element (RemoveAt).                        *)
IsCut(t, s, i) ==
    /\ Len(t) = Len(s) - 1
    /\ \A k \in 1..Len(t) : t[k] = s[IF k < i THEN k ELSE k + 1]

LEMMA Cut ==
  ASSUME NEW S, NEW s \in Seq(S), NEW i \in DOMAIN s, NEW t,
         t = SubSeq(s, 1, i - 1) \o SubSeq(s, i + 1, Len(s))
  PROVE  t \in Seq(S) /\ IsCut(t, s, i)
<1>1. PICK n \in Nat : n = Len(s) /\ i \in 1..n /\ \A k \in 1..n : s[k] \in S
  BY LenProperties, ElementOfSeq
<1>2. i - 1 \in Int /\ i + 1 \in Int /\ (\A k \in 1..(i - 1) : s[k] \in S) /\ \A k \in (i + 1)..n : s[k] \in S
  BY <1>1
<1>3. PICK a : a = SubSeq(s, 1, i - 1) OBVIOUS
<1>4. PICK b : b = SubSeq(s, i + 1, n) OBVIOUS
<1>5. a \in Seq(S) /\ Len(a) = i - 1 /\ \A k \in 1..(i - 1) : a[k] = s[k]
  <2>1. /\ a \in Seq(S) /\ Len(a) = (IF 1 <= i - 1 THEN (i - 1) - 1 + 1 ELSE 0)
        /\ \A k \in 1..((i - 1) - 1 + 1) : a[k] = s[1 + k - 1]
    BY ONLY <1>2, <1>3, SubSeqProperties
  <2> QED BY <1>1, <2>1
<1>6. b \in Seq(S) /\ Len(b) = n - i /\ \A k \in 1..(n - i) : b[k] = s[i + k]
  <2>1. /\ b \in Seq(S) /\ Len(b) = (IF i + 1 <= n THEN n - (i + 1) + 1 ELSE 0)
        /\ \A k \in 1..(n - (i + 1) + 1) : b[k] = s[(i + 1) + k - 1]
    BY ONLY <1>1, <1>2, <1>4, SubSeqProperties
  <2>2. Len(b) = n - i BY ONLY <1>1, <2>1
  <2>3. ASSUME NEW k \in 1..(n - i) PROVE b[k] = s[i + k]
    <3>1. k \in 1..(n - (i + 1) + 1) /\ (i + 1) + k - 1 = i + k BY ONLY <1>1, <2>3
    <3> QED BY ONLY <2>1, <3>1
  <2> QED BY ONLY <2>1, <2>2, <2>3
<1>7. t = a \o b BY <1>1, <1>3, <1>4
<1>8. /\ t \in Seq(S) /\ Len(t) = Len(a) + Len(b)
      /\ \A k \in 1..(Len(a) + Len(b)) : t[k] = IF k <= Len(a) THEN a[k] ELSE b[k - Len(a)]
  BY ONLY <1>5, <1>6, <1>7, ConcatProperties
<1>9. Len(t) = n - 1
  <2>1. n \in Int /\ i \in Int BY ONLY <1>1
  <2>2. Len(t) = (i - 1) + (n - i) BY ONLY <1>5, <1>6, <1>8, Zenon
  <2> QED BY ONLY <2>1, <2>2
<1>10. ASSUME NEW k \in 1..(n - 1) PROVE t[k] = s[IF k < i THEN k ELSE k + 1]
  <2>0. t[k] = IF k <= i - 1 THEN a[k] ELSE b[k - (i - 1)] BY ONLY SMTT(40), <1>1, <1>5, <1>6, <1>8, <1>10
  <2>1. CASE k < i BY ONLY <1>1, <1>5, <1>10, <2>0, <2>1
  <2>2. CASE ~(k < i)
    <3>1. t[k] = b[k - (i - 1)] BY ONLY <1>1, <1>10, <2>0, <2>2
    <3>2. k - (i - 1) \in 1..(n - i) BY ONLY <1>1, <1>10, <2>2
    <3>3. b[k - (i - 1)] = s[i + (k - (i - 1))] BY ONLY <1>6, <3>2
    <3>4. i + (k - (i - 1)) = k + 1 BY ONLY <1>1, <1>10
    <3> QED BY <2>2, <3>1, <3>3, <3>4
  <2> QED BY <2>1, <2>2
<1> QED BY <1>1, <1>8, <1>9, <1>10 DEF IsCut

LEMMA CutFrom ==
  ASSUME NEW S, NEW s \in Seq(S), NEW t \in Seq(S), NEW i \in DOMAIN s, IsCut(t, s, i)
  PROVE  /\ Len(t) = Len(s) - 1
         /\ \A k \in DOMAIN t : \E j \in DOMAIN s \ {i} : t[k] = s[j] /\ j = (IF k < i THEN k ELSE k + 1)
         /\ \A j \in DOMAIN s \ {i} : \E k \in DOMAIN t : t[k] = s[j]
<1>1. PICK n \in Nat : n = Len(s) /\ DOMAIN s = 1..n /\ i \in 1..n OBVIOUS
<1>2. Len(t) = n - 1 /\ DOMAIN t = 1..(n - 1) /\ \A k \in 1..(n - 1) : t[k] = s[IF k < i THEN k ELSE k + 1]
  BY <1>1 DEF IsCut
<1>3. ASSUME NEW k \in DOMAIN t PROVE \E j \in DOMAIN s \ {i} : t[k] = s[j] /\ j = (IF k < i THEN k ELSE k + 1)
  <2>1. (IF k < i THEN k ELSE k + 1) \in (1..n) \ {i} BY <1>1, <1>2
  <2> QED BY <1>1, <1>2, <2>1
<1>4. ASSUME NEW j \in DOMAIN s \ {i} PROVE \E k \in DOMAIN t : t[k] = s[j]
  <2>1. CASE j < i
    <3>1. j \in 1..(n - 1) BY <1>1, <2>1
    <3> QED BY <1>2, <2>1, <3>1
  <2>2. CASE ~(j < i)
    <3>1. j - 1 \in 1..(n - 1) /\ ~(j - 1 < i) /\ (j - 1) + 1 = j BY <1>1, <2>2
    <3>2. t[j - 1] = s[j] BY <1>2, <3>1
    <3> QED BY <1>2, <3>1, <3>2
  <2> QED BY <2>1, <2>2
<1> QED BY <1>1, <1>2, <1>3, <1>4

LEMMA LeastNumber ==
  ASSUME NEW S, S \subseteq Nat, S # {}
  PROVE  \E n \in S : \A m \in S : n <= m
<1> DEFINE R == {p \in Nat \X Nat : p[1] < p[2]}
<1>1. IsWellFoundedOn(R, Nat) BY NatLessThanWellFounded DEF OpToRel
<1>2. PICK n \in S : \A m \in S : ~(<<m, n>> \in R)
  <2> HIDE DEF R
  <2> QED BY <1>1, WFMin
<1>3. ASSUME NEW m \in S PROVE n <= m
  <2>1. m \in Nat /\ n \in Nat OBVIOUS
  <2>2. m < n => <<m, n>> \in R BY <2>1
  <2> HIDE DEF R
  <2> QED BY <2>1, <2>2, <1>2
<1> QED BY <1>2, <1>3

(* Filtering a list (Kept), step by step: what is kept of each beginning.  *)
Sift(k, s, S, n) == IF n = 0 THEN <<>> ELSE IF s[n] \in S THEN Append(k[n - 1], s[n]) ELSE k[n - 1]
IsSift(k, s, S) == k = [n \in 0..Len(s) |-> Sift(k, s, S, n)]

LEMMA SiftThere == ASSUME NEW T, NEW s \in Seq(T), NEW S PROVE \E k : IsSift(k, s, S)
<1> DEFINE There(m) == \E k : k = [i \in 0..m |-> Sift(k, s, S, i)]
<1>0. Len(s) \in Nat OBVIOUS
<1>1. There(0)
  <2>1. PICK k : k = [i \in 0..0 |-> <<>>] OBVIOUS
  <2>2. \A i \in 0..0 : Sift(k, s, S, i) = <<>> BY DEF Sift
  <2>3. k = [i \in 0..0 |-> Sift(k, s, S, i)] BY <2>1, <2>2
  <2> QED BY <2>3
<1>2. ASSUME NEW m \in Nat, There(m) PROVE There(m + 1)
  <2>1. PICK g : g = [i \in 0..m |-> Sift(g, s, S, i)] BY <1>2
  <2>2. PICK f : f = [i \in 0..(m + 1) |-> IF i = m + 1 THEN Sift(g, s, S, m + 1) ELSE g[i]] OBVIOUS
  <2>3. \A i \in 0..(m + 1) : f[i] = Sift(f, s, S, i)
    <3> SUFFICES ASSUME NEW i \in 0..(m + 1) PROVE f[i] = Sift(f, s, S, i) OBVIOUS
    <3>1. f[i] = Sift(g, s, S, i)
      <4>1. CASE i = m + 1 BY <2>2, <4>1
      <4>2. CASE i # m + 1
        <5>1. i \in 0..m /\ f[i] = g[i] BY <2>2, <4>2
        <5> QED BY <2>1, <5>1
      <4> QED BY <4>1, <4>2
    <3>2. i # 0 => f[i - 1] = g[i - 1]
      <4> SUFFICES ASSUME i # 0 PROVE f[i - 1] = g[i - 1] OBVIOUS
      <4>1. i - 1 \in 0..(m + 1) /\ i - 1 # m + 1 OBVIOUS
      <4> QED BY <2>2, <4>1
    <3> QED BY <3>1, <3>2 DEF Sift
  <2>4. f = [i \in 0..(m + 1) |-> Sift(f, s, S, i)]
    <3>1. \A F, G : (F = [i \in 0..(m + 1) |-> F[i]] /\ G = [i \in 0..(m + 1) |-> G[i]]
                       /\ \A i \in 0..(m + 1) : F[i] = G[i]) => F = G
      OBVIOUS
    <3>2. f = [i \in 0..(m + 1) |-> f[i]] BY <2>2
    <3>3. PICK k : k = [i \in 0..(m + 1) |-> Sift(f, s, S, i)] OBVIOUS
    <3>4. k = [i \in 0..(m + 1) |-> k[i]] /\ \A i \in 0..(m + 1) : k[i] = f[i] BY <2>3, <3>3
    <3>5. f = k BY <3>1, <3>2, <3>4
    <3> QED BY <3>3, <3>5
  <2> QED BY <2>4
<1>3. There(Len(s))
  <2> SUFFICES ASSUME ~There(Len(s)) PROVE FALSE OBVIOUS
  <2>1. PICK B : B = {m \in Nat : ~There(m)} OBVIOUS
  <2> HIDE DEF There
  <2>2. PICK m \in B : \A k \in B : m <= k BY <1>0, <2>1, LeastNumber
  <2>3. m \in Nat /\ ~There(m) /\ m # 0 BY <1>1, <2>1, <2>2
  <2>4. m - 1 \in Nat /\ There(m - 1) BY <2>1, <2>2, <2>3
  <2>5. There((m - 1) + 1) BY <1>2, <2>4
  <2> QED BY <2>3, <2>4, <2>5
<1> QED BY <1>3 DEF IsSift

LEMMA KeptIsSift ==
  ASSUME NEW T, NEW s \in Seq(T), NEW S
  PROVE  \E k : IsSift(k, s, S) /\ Kept(s, S) = k[Len(s)]
<1>1. \E k : k = [n \in 0..Len(s) |->
          IF n = 0 THEN <<>> ELSE IF s[n] \in S THEN Append(k[n - 1], s[n]) ELSE k[n - 1]]
  BY ZenonT(40), SiftThere DEF IsSift, Sift
<1> DEFINE k == CHOOSE k : k = [n \in 0..Len(s) |->
          IF n = 0 THEN <<>> ELSE IF s[n] \in S THEN Append(k[n - 1], s[n]) ELSE k[n - 1]]
<1>2. k = [n \in 0..Len(s) |->
          IF n = 0 THEN <<>> ELSE IF s[n] \in S THEN Append(k[n - 1], s[n]) ELSE k[n - 1]]
  BY <1>1
<1>3. Kept(s, S) = k[Len(s)] BY DEF Kept
<1> HIDE DEF k
<1>4. IsSift(k, s, S) BY <1>2 DEF IsSift, Sift
<1> QED BY <1>3, <1>4

LEMMA SiftSteps ==
  ASSUME NEW s, Len(s) \in Nat, NEW S, NEW k, IsSift(k, s, S)
  PROVE  /\ k[0] = <<>>
         /\ \A n \in 1..Len(s) : k[n] = IF s[n] \in S THEN Append(k[n - 1], s[n]) ELSE k[n - 1]
<1>1. \A n \in 0..Len(s) : k[n] = Sift(k, s, S, n) BY DEF IsSift
<1>2. 0 \in 0..Len(s) OBVIOUS
<1>3. k[0] = <<>> BY <1>1, <1>2 DEF Sift
<1>4. ASSUME NEW n \in 1..Len(s) PROVE k[n] = IF s[n] \in S THEN Append(k[n - 1], s[n]) ELSE k[n - 1]
  <2>1. n \in 0..Len(s) /\ n # 0 OBVIOUS
  <2> QED BY <1>1, <2>1 DEF Sift
<1> QED BY <1>3, <1>4

(* What is kept: places of the list, in order, and all that are in S.      *)
IsKept(t, s, S, n) ==
    \E m \in [1..Len(t) -> 1..n] :
        /\ \A a \in 1..Len(t) : t[a] = s[m[a]] /\ s[m[a]] \in S
        /\ \A a, b \in 1..Len(t) : a < b => m[a] < m[b]
        /\ \A j \in 1..n : s[j] \in S => \E a \in 1..Len(t) : m[a] = j

LEMMA SiftKeeps ==
  ASSUME NEW T, NEW s \in Seq(T), NEW S, NEW k, IsSift(k, s, S)
  PROVE  \A n \in 0..Len(s) : k[n] \in Seq(T) /\ IsKept(k[n], s, S, n)
<1> DEFINE P(n) == k[n] \in Seq(T) /\ IsKept(k[n], s, S, n)
<1>0. Len(s) \in Nat /\ \A i \in 1..Len(s) : s[i] \in T BY LenProperties, ElementOfSeq
<1>1. P(0)
  <2>1. k[0] = <<>> BY <1>0, SiftSteps
  <2>2. <<>> \in Seq(T) /\ Len(<<>>) = 0 OBVIOUS
  <2>3. PICK t : t = <<>> /\ Len(t) = 0 BY <2>2
  <2>4. [a \in 1..Len(t) |-> 1] \in [1..Len(t) -> 1..0] BY <2>3
  <2>5. IsKept(t, s, S, 0)
    <3>1. PICK m \in [1..Len(t) -> 1..0] : TRUE BY <2>4
    <3>2. \A a \in 1..Len(t) : FALSE BY <2>3
    <3>3. \A j \in 1..0 : FALSE OBVIOUS
    <3>4. /\ \A a \in 1..Len(t) : t[a] = s[m[a]] /\ s[m[a]] \in S
          /\ \A a, b \in 1..Len(t) : a < b => m[a] < m[b]
          /\ \A j \in 1..0 : s[j] \in S => \E a \in 1..Len(t) : m[a] = j
      BY ONLY <3>2, <3>3
    <3> QED BY <3>4 DEF IsKept
  <2> QED BY <2>1, <2>2, <2>3, <2>5
<1>2. ASSUME NEW n \in 1..Len(s), P(n - 1) PROVE P(n)
  <2>0. n \in Nat /\ n - 1 \in Nat /\ s[n] \in T BY <1>0
  <2>1. PICK t : t = k[n - 1] OBVIOUS
  <2>2. t \in Seq(T) /\ IsKept(t, s, S, n - 1) BY <1>2, <2>1
  <2>3. PICK L \in Nat : L = Len(t) BY <2>2, LenProperties
  <2>4. PICK m \in [1..L -> 1..(n - 1)] :
            /\ \A a \in 1..L : t[a] = s[m[a]] /\ s[m[a]] \in S
            /\ \A a, b \in 1..L : a < b => m[a] < m[b]
            /\ \A j \in 1..(n - 1) : s[j] \in S => \E a \in 1..L : m[a] = j
    BY <2>2, <2>3 DEF IsKept
  <2>5. k[n] = IF s[n] \in S THEN Append(t, s[n]) ELSE t BY <1>0, <2>1, SiftSteps
  <2>6. CASE s[n] \notin S
    <3>1. k[n] = t BY <2>5, <2>6
    <3>2. m \in [1..L -> 1..n] BY <2>0, <2>4
    <3>3. \A j \in 1..n : s[j] \in S => \E a \in 1..L : m[a] = j
      <4> SUFFICES ASSUME NEW j \in 1..n, s[j] \in S PROVE \E a \in 1..L : m[a] = j OBVIOUS
      <4>1. j # n BY <2>6
      <4>2. j \in 1..(n - 1) BY <2>0, <4>1
      <4> QED BY <2>4, <4>2
    <3>4. IsKept(t, s, S, n) BY <2>3, <2>4, <3>2, <3>3 DEF IsKept
    <3> QED BY <2>2, <3>1, <3>4
  <2>7. CASE s[n] \in S
    <3>1. PICK u : u = Append(t, s[n]) OBVIOUS
    <3>2. /\ u \in Seq(T) /\ Len(u) = L + 1 /\ u[L + 1] = s[n]
          /\ \A a \in 1..L : u[a] = t[a]
      BY <2>0, <2>2, <2>3, <3>1, AppendProperties
    <3>3. PICK q : q = [a \in 1..(L + 1) |-> IF a = L + 1 THEN n ELSE m[a]] OBVIOUS
    <3>4. /\ q[L + 1] = n /\ \A a \in 1..L : q[a] = m[a] /\ m[a] \in 1..(n - 1)
      <4>1. L + 1 \in 1..(L + 1) OBVIOUS
      <4>2. \A a \in 1..L : a \in 1..(L + 1) /\ a # L + 1 OBVIOUS
      <4> QED BY <2>4, <3>3, <4>1, <4>2
    <3>5. \A a \in 1..(L + 1) : a \in 1..L \/ a = L + 1 OBVIOUS
    <3>6. \A a \in 1..(L + 1) : q[a] \in 1..n
      <4>1. n \in 1..n /\ \A x \in 1..(n - 1) : x \in 1..n BY <2>0
      <4>2. \A a \in 1..L : q[a] \in 1..n BY <3>4, <4>1
      <4> QED BY <3>4, <3>5, <4>1, <4>2
    <3>7. q \in [1..(L + 1) -> 1..n] BY <3>3, <3>6
    <3>8. \A a \in 1..(L + 1) : u[a] = s[q[a]] /\ s[q[a]] \in S BY <2>4, <2>7, <3>2, <3>4, <3>5
    <3>9. ASSUME NEW a \in 1..(L + 1), NEW b \in 1..(L + 1), a < b PROVE q[a] < q[b]
      <4>1. a \in 1..L BY <3>9
      <4>2. CASE b = L + 1 BY <2>0, <3>4, <4>1, <4>2
      <4>3. CASE b \in 1..L BY <2>4, <3>4, <3>9, <4>1, <4>3
      <4> QED BY <3>5, <4>2, <4>3
    <3>10. ASSUME NEW j \in 1..n, s[j] \in S PROVE \E a \in 1..(L + 1) : q[a] = j
      <4>1. CASE j = n BY <3>4, <4>1
      <4>2. CASE j # n
        <5>1. j \in 1..(n - 1) BY <2>0, <4>2
        <5>2. PICK a \in 1..L : m[a] = j BY <2>4, <3>10, <5>1
        <5> QED BY SMTT(40), <3>4, <5>2
      <4> QED BY <4>1, <4>2
    <3>11. IsKept(u, s, S, n)
      <4>1. \E r \in [1..Len(u) -> 1..n] :
              /\ \A a \in 1..Len(u) : u[a] = s[r[a]] /\ s[r[a]] \in S
              /\ \A a, b \in 1..Len(u) : a < b => r[a] < r[b]
              /\ \A j \in 1..n : s[j] \in S => \E a \in 1..Len(u) : r[a] = j
        <5>1. Len(u) = L + 1 BY <3>2
        <5>2. q \in [1..Len(u) -> 1..n] BY <3>7, <5>1
        <5>3. /\ \A a \in 1..Len(u) : u[a] = s[q[a]] /\ s[q[a]] \in S
              /\ \A a, b \in 1..Len(u) : a < b => q[a] < q[b]
              /\ \A j \in 1..n : s[j] \in S => \E a \in 1..Len(u) : q[a] = j
          BY <3>8, <3>9, <3>10, <5>1
        <5> QED BY <5>2, <5>3
      <4> QED BY <4>1 DEF IsKept
    <3> QED BY <2>5, <2>7, <3>1, <3>2, <3>11
  <2> QED BY <2>6, <2>7
<1> SUFFICES ASSUME NEW n \in 0..Len(s), ~P(n) PROVE FALSE OBVIOUS
<1> HIDE DEF P
<1>3. PICK B : B = {i \in 0..Len(s) : ~P(i)} OBVIOUS
<1>a. B \subseteq Nat /\ B # {} BY <1>0, <1>3
<1>4. PICK i \in B : \A j \in B : i <= j BY <1>a, LeastNumber
<1>5. i \in 0..Len(s) /\ ~P(i) /\ i # 0 BY <1>1, <1>3, <1>4
<1>6. i \in 1..Len(s) /\ i - 1 \in 0..Len(s) BY <1>0, <1>5
<1>7. P(i - 1) BY <1>0, <1>3, <1>4, <1>6
<1> QED BY <1>2, <1>5, <1>6, <1>7

LEMMA KeptForm ==
  ASSUME NEW T, NEW s \in Seq(T), NEW S
  PROVE  Kept(s, S) \in Seq(T) /\ IsKept(Kept(s, S), s, S, Len(s))
<1>1. PICK k : IsSift(k, s, S) /\ Kept(s, S) = k[Len(s)] BY KeptIsSift
<1>2. Len(s) \in 0..Len(s) OBVIOUS
<1> QED BY <1>1, <1>2, SiftKeeps

(* Nothing of it stays, or all of it.                                      *)
LEMMA KeptSet ==
  ASSUME NEW T, NEW s \in Seq(T), NEW S
  PROVE  /\ \A a \in DOMAIN Kept(s, S) : Kept(s, S)[a] \in S /\ \E i \in DOMAIN s : Kept(s, S)[a] = s[i]
         /\ \A i \in DOMAIN s : s[i] \in S => \E a \in DOMAIN Kept(s, S) : Kept(s, S)[a] = s[i]
<1>1. PICK t : t = Kept(s, S) OBVIOUS
<1>2. t \in Seq(T) /\ IsKept(t, s, S, Len(s)) BY <1>1, KeptForm
<1>3. DOMAIN t = 1..Len(t) /\ DOMAIN s = 1..Len(s) BY <1>2
<1>4. PICK m \in [1..Len(t) -> 1..Len(s)] :
          /\ \A a \in 1..Len(t) : t[a] = s[m[a]] /\ s[m[a]] \in S
          /\ \A j \in 1..Len(s) : s[j] \in S => \E a \in 1..Len(t) : m[a] = j
  BY <1>2 DEF IsKept
<1>5. ASSUME NEW a \in DOMAIN t PROVE t[a] \in S /\ \E i \in DOMAIN s : t[a] = s[i] BY <1>3, <1>4
<1>6. ASSUME NEW i \in DOMAIN s, s[i] \in S PROVE \E a \in DOMAIN t : t[a] = s[i] BY <1>3, <1>4, <1>6
<1> QED BY <1>1, <1>5, <1>6
(* What holds of the start and goes from each number to the next.          *)
LEMMA Upward ==
  ASSUME NEW N \in Nat, NEW G, 0 \in G, \A n \in 1..N : (n - 1) \in G => n \in G
  PROVE  \A n \in 0..N : n \in G
<1> SUFFICES ASSUME NEW n \in 0..N, n \notin G PROVE FALSE OBVIOUS
<1>1. PICK B : B = (0..N) \ G OBVIOUS
<1>2. B \subseteq Nat /\ B # {} BY <1>1
<1>3. PICK m \in B : \A k \in B : m <= k BY <1>2, LeastNumber
<1>4. m \in 1..N BY <1>1, <1>3
<1>5. m - 1 \in 0..N /\ ~(m <= m - 1) BY <1>4
<1>6. (m - 1) \in G BY <1>1, <1>3, <1>5
<1> QED BY <1>1, <1>3, <1>4, <1>6

LEMMA SameSeq ==
  ASSUME NEW T, NEW a \in Seq(T), NEW U, NEW b \in Seq(U), Len(a) = Len(b), \A i \in 1..Len(a) : a[i] = b[i]
  PROVE  a = b
<1>1. DOMAIN a = 1..Len(a) /\ DOMAIN b = 1..Len(a) OBVIOUS
<1>2. a = [i \in 1..Len(a) |-> a[i]] /\ b = [i \in 1..Len(a) |-> b[i]] BY <1>1
<1> QED BY <1>2

LEMMA KeptAll ==
  ASSUME NEW T, NEW s \in Seq(T), NEW S, \A i \in 1..Len(s) : s[i] \in S
  PROVE  Kept(s, S) = s
<1>0. PICK n \in Nat : n = Len(s) /\ \A i \in 1..n : s[i] \in T BY LenProperties, ElementOfSeq
<1>1. PICK k : IsSift(k, s, S) /\ Kept(s, S) = k[n] BY <1>0, KeptIsSift
<1>a. k[0] = <<>> /\ \A i \in 1..n : k[i] = IF s[i] \in S THEN Append(k[i - 1], s[i]) ELSE k[i - 1]
  BY <1>0, <1>1, SiftSteps
<1>2. k[0] = <<>> /\ \A i \in 1..n : k[i] = Append(k[i - 1], s[i]) BY <1>0, <1>a
<1>3. PICK G : G = {i \in 0..n : k[i] \in Seq(T) /\ Len(k[i]) = i /\ \A a \in 1..i : k[i][a] = s[a]} OBVIOUS
<1>4. 0 \in G
  <2>1. k[0] \in Seq(T) /\ Len(k[0]) = 0
    <3>1. <<>> \in Seq(T) /\ Len(<<>>) = 0 OBVIOUS
    <3> QED BY <1>2, <3>1
  <2>2. 0 \in 0..n /\ \A a \in 1..0 : k[0][a] = s[a] BY <1>0
  <2> QED BY ONLY <1>3, <2>1, <2>2
<1>5. ASSUME NEW i \in 1..n, (i - 1) \in G PROVE i \in G
  <2>1. PICK t : t = k[i - 1] OBVIOUS
  <2>2. t \in Seq(T) /\ Len(t) = i - 1 /\ \A a \in 1..(i - 1) : t[a] = s[a] BY <1>3, <1>5, <2>1
  <2>3. PICK u : u = k[i] /\ u = Append(t, s[i]) BY <1>2, <2>1
  <2>4. u \in Seq(T) /\ Len(u) = Len(t) + 1 /\ (\A a \in 1..Len(t) : u[a] = t[a]) /\ u[Len(t) + 1] = s[i]
    BY <1>0, <2>2, <2>3, AppendProperties
  <2>5. Len(u) = i /\ \A a \in 1..i : u[a] = s[a]
    <3>1. (i - 1) + 1 = i BY <1>0
    <3>2. \A a \in 1..i : a \in 1..(i - 1) \/ a = i BY <1>0
    <3> QED BY <2>2, <2>4, <3>1, <3>2
  <2>6. i \in 0..n BY <1>0
  <2> QED BY <1>3, <2>3, <2>4, <2>5, <2>6
<1>b. n \in 0..n /\ \A i \in 1..n : (i - 1) \in G => i \in G BY <1>0, <1>5
<1>6. n \in 0..n /\ \A i \in 0..n : i \in G BY ONLY <1>0, <1>b, <1>4, Upward
<1>7. k[n] \in Seq(T) /\ Len(k[n]) = n /\ \A a \in 1..n : k[n][a] = s[a] BY <1>3, <1>6
<1> QED BY <1>0, <1>1, <1>7, SameSeq

LEMMA KeptNone ==
  ASSUME NEW T, NEW s \in Seq(T), NEW S, \A i \in 1..Len(s) : s[i] \notin S
  PROVE  Kept(s, S) = <<>>
<1>1. PICK t : t = Kept(s, S) OBVIOUS
<1>2. t \in Seq(T) /\ (\A a \in DOMAIN t : t[a] \in S /\ \E i \in DOMAIN s : t[a] = s[i]) BY <1>1, KeptForm, KeptSet
<1>3. DOMAIN s = 1..Len(s) /\ DOMAIN t = 1..Len(t) /\ Len(t) \in Nat BY <1>2
<1>4. \A a \in 1..Len(t) : FALSE BY <1>2, <1>3
<1>5. Len(t) = 0
  <2>1. 1 \notin 1..Len(t) BY <1>4
  <2> QED BY <1>3, <2>1
<1>6. t = <<>> BY <1>2, <1>5
<1> QED BY <1>1, <1>6

(* A list and its image under f, filtered alike.                           *)
LEMMA KeptMap ==
  ASSUME NEW T, NEW s \in Seq(T), NEW U, NEW u \in Seq(U), NEW S, NEW R, NEW f,
         Len(u) = Len(s), \A i \in 1..Len(s) : u[i] = f[s[i]] /\ (u[i] \in R <=> s[i] \in S)
  PROVE  /\ Len(Kept(u, R)) = Len(Kept(s, S))
         /\ \A a \in 1..Len(Kept(s, S)) : Kept(u, R)[a] = f[Kept(s, S)[a]]
<1>0. PICK n \in Nat : n = Len(s) /\ (\A i \in 1..n : s[i] \in T) /\ (\A i \in 1..n : u[i] \in U)
  BY LenProperties, ElementOfSeq
<1>1. PICK k : IsSift(k, s, S) /\ Kept(s, S) = k[n] BY <1>0, KeptIsSift
<1>2. PICK h : IsSift(h, u, R) /\ Kept(u, R) = h[n] BY <1>0, KeptIsSift
<1>3. k[0] = <<>> /\ \A i \in 1..n : k[i] = IF s[i] \in S THEN Append(k[i - 1], s[i]) ELSE k[i - 1]
  BY <1>0, <1>1, SiftSteps
<1>4. h[0] = <<>> /\ \A i \in 1..n : h[i] = IF u[i] \in R THEN Append(h[i - 1], u[i]) ELSE h[i - 1]
  BY <1>0, <1>2, SiftSteps
<1>5. PICK G : G = {i \in 0..n : k[i] \in Seq(T) /\ h[i] \in Seq(U) /\ Len(h[i]) = Len(k[i])
                                 /\ \A a \in 1..Len(k[i]) : h[i][a] = f[k[i][a]]}
  OBVIOUS
<1>6. 0 \in G
  <2>1. k[0] \in Seq(T) /\ h[0] \in Seq(U) /\ Len(k[0]) = 0 /\ Len(h[0]) = 0
    <3>1. <<>> \in Seq(T) /\ <<>> \in Seq(U) /\ Len(<<>>) = 0 OBVIOUS
    <3> QED BY <1>3, <1>4, <3>1
  <2>2. 0 \in 0..n /\ \A a \in 1..0 : FALSE BY <1>0
  <2>3. \A a \in 1..Len(k[0]) : h[0][a] = f[k[0][a]] BY ONLY <2>1, <2>2
  <2> QED BY ONLY <1>5, <2>1, <2>2, <2>3
<1>7. ASSUME NEW i \in 1..n, (i - 1) \in G PROVE i \in G
  <2>1. PICK t, v : t = k[i - 1] /\ v = h[i - 1] OBVIOUS
  <2>2. /\ t \in Seq(T) /\ v \in Seq(U) /\ Len(v) = Len(t)
        /\ \A a \in 1..Len(t) : v[a] = f[t[a]]
    BY <1>5, <1>7, <2>1
  <2>3. PICK L \in Nat : L = Len(t) BY <2>2, LenProperties
  <2>4. i \in 0..n BY <1>0
  <2>5. CASE s[i] \notin S
    <3>1. k[i] = t /\ h[i] = v BY <1>0, <1>3, <1>4, <2>1, <2>5
    <3> QED BY <1>5, <2>2, <2>4, <3>1
  <2>6. CASE s[i] \in S
    <3>1. u[i] \in R /\ u[i] = f[s[i]] BY <1>0, <2>6
    <3>2. PICK p : p = k[i] /\ p = Append(t, s[i]) BY <1>3, <2>1, <2>6
    <3>3. PICK q : q = h[i] /\ q = Append(v, u[i]) BY <1>4, <2>1, <3>1
    <3>4. p \in Seq(T) /\ Len(p) = L + 1 /\ (\A a \in 1..L : p[a] = t[a]) /\ p[L + 1] = s[i]
      BY <1>0, <2>2, <2>3, <3>2, AppendProperties
    <3>5. q \in Seq(U) /\ Len(q) = L + 1 /\ (\A a \in 1..L : q[a] = v[a]) /\ q[L + 1] = u[i]
      BY <1>0, <2>2, <2>3, <3>3, AppendProperties
    <3>6. \A a \in 1..(L + 1) : q[a] = f[p[a]]
      <4>1. \A a \in 1..(L + 1) : a \in 1..L \/ a = L + 1 OBVIOUS
      <4> QED BY <2>2, <2>3, <3>1, <3>4, <3>5, <4>1
    <3> QED BY <1>5, <2>4, <3>2, <3>3, <3>4, <3>5, <3>6
  <2> QED BY <2>5, <2>6
<1>b. n \in 0..n /\ \A i \in 1..n : (i - 1) \in G => i \in G BY <1>0, <1>7
<1>8. n \in 0..n /\ \A i \in 0..n : i \in G BY ONLY <1>0, <1>b, <1>6, Upward
<1>9. Len(h[n]) = Len(k[n]) /\ \A a \in 1..Len(k[n]) : h[n][a] = f[k[n][a]] BY <1>5, <1>8
<1> QED BY <1>1, <1>2, <1>9


-----------------------------------------------------------------------------
(***************************************************************************)
(* The popovers of a panel (PanelPopovers).                                *)
(***************************************************************************)
(* Its runs, with no fairness assumed. *)
PopoverRuns == Popovers!Init /\ [][Popovers!Next]_(Popovers!vars)

PopoverInv == Popovers!TypeOK /\ Popovers!StaysUnderPointer

LEMMA PartsHeld == ASSUME NEW p \in Popovers!Places PROVE Popovers!Held(p) \subseteq Popovers!Parts /\ Popovers!Sets(p) \subseteq Popovers!Held(p)
BY DEF Popovers!Held, Popovers!Region, Popovers!Sets, Popovers!Parts

LEMMA OfferedIsSet == ASSUME NEW p \in Popovers!Places, Popovers!Offered(p) PROVE Popovers!Held(p) \subseteq hovered \cup Popovers!Sets(p)
BY DEF Popovers!Offered, Popovers!Held, Popovers!Region, Popovers!Sets, Popovers!Parts, Popovers!Places

LEMMA MoveStep == ASSUME PopoverInv, NEW p \in Popovers!Places, Popovers!Move(p) PROVE PopoverInv'
<1>1. /\ pointer' = p /\ hovered' = hovered \cup Popovers!Sets(p) /\ isPinned' = isPinned
      /\ leaving' = (leaving \ Popovers!Held(p)) \cup (Popovers!Held(pointer) \ Popovers!Held(p)) /\ Popovers!Offered(p)
  BY DEF Popovers!Move, Popovers!Left
<1>2. Popovers!Held(p) \subseteq hovered' /\ Popovers!Sets(p) \subseteq Popovers!Parts BY <1>1, OfferedIsSet, PartsHeld
<1>3. Popovers!Held(pointer) \subseteq hovered BY DEF PopoverInv, Popovers!StaysUnderPointer
<1>4. Popovers!TypeOK' BY <1>1, <1>2, <1>3 DEF PopoverInv, Popovers!TypeOK
<1>5. Popovers!Held(pointer)' = Popovers!Held(p) BY <1>1 DEF Popovers!Held, Popovers!Region
<1> QED BY <1>1, <1>2, <1>4, <1>5 DEF PopoverInv, Popovers!StaysUnderPointer

LEMMA PopoversKept == PopoverRuns => []PopoverInv
<1>1. Popovers!Init => PopoverInv
  BY DEF Popovers!Init, PopoverInv, Popovers!TypeOK, Popovers!StaysUnderPointer, Popovers!Held, Popovers!Region, Popovers!Places
<1>2. ASSUME PopoverInv, [Popovers!Next]_(Popovers!vars) PROVE PopoverInv'
  <2>1. ASSUME NEW part \in Popovers!Parts, Popovers!Leave(part) PROVE PopoverInv'
    <3>1. Popovers!Held(pointer)' = Popovers!Held(pointer) BY <2>1 DEF Popovers!Leave, Popovers!Held, Popovers!Region
    <3> QED BY <1>2, <2>1, <3>1 DEF Popovers!Leave, PopoverInv, Popovers!TypeOK, Popovers!StaysUnderPointer
  <2>2. CASE Popovers!Pin
    <3>1. Popovers!Held(pointer)' = Popovers!Held(pointer) BY <2>2 DEF Popovers!Pin, Popovers!Held, Popovers!Region
    <3> QED BY <1>2, <2>2, <3>1 DEF Popovers!Pin, PopoverInv, Popovers!TypeOK, Popovers!StaysUnderPointer
  <2>3. CASE UNCHANGED Popovers!vars
    <3>1. Popovers!Held(pointer)' = Popovers!Held(pointer) BY <2>3 DEF Popovers!vars, Popovers!Held, Popovers!Region
    <3> QED BY <1>2, <2>3, <3>1 DEF Popovers!vars, PopoverInv, Popovers!TypeOK, Popovers!StaysUnderPointer
  <2> QED BY <1>2, <2>1, <2>2, <2>3, MoveStep DEF Popovers!Next
<1> QED BY <1>1, <1>2, PTL DEF PopoverRuns

(* What the pointer is over, which popovers are held open and which are    *)
(* pinned keep their types (PanelWrapper.tsx).                             *)
THEOREM PopoversTyped == PopoverRuns => []Popovers!TypeOK
<1>1. PopoverInv => Popovers!TypeOK BY DEF PopoverInv
<1> QED BY <1>1, PopoversKept, PTL

(* However the pointer moves and whichever timers run out, no popover that *)
(* the pointer is over is closed (PanelWrapper.tsx, the delayed close that *)
(* entering must cancel).                                                  *)
THEOREM NothingClosesUnderPointer == PopoverRuns => []Popovers!StaysUnderPointer
<1>1. PopoverInv => Popovers!StaysUnderPointer BY DEF PopoverInv
<1> QED BY <1>1, PopoversKept, PTL


-----------------------------------------------------------------------------
(***************************************************************************)
(* A panel's card (PanelCard).  A change that carries keys it does not     *)
(* mean to change has them as the row has them, as long as it is the only  *)
(* one (RowInv).                                                           *)
(***************************************************************************)
(* Its runs, with no fairness assumed. *)
CardRuns == Card!Init /\ [][Card!Next]_(Card!vars)

(* A request by its kind: what it carries, and the row it was answered     *)
(* with.                                                                   *)
Copies == {"duplicate", "copy", "move"}
CardAnswers == {<<>>} \cup {<<r>> : r \in Card!Rows}
CardCalls ==
    [kind : {"title"}, body : [title : Titles], answer : CardAnswers]
      \cup [kind : {"save"}, body : [config : Configs, pinned : BOOLEAN, broker : PanelBrokers], answer : CardAnswers]
      \cup [kind : {"pin"}, body : [config : Configs, pinned : BOOLEAN, was : BOOLEAN], answer : CardAnswers]
      \cup [kind : {"own"}, body : [panel : Card!Rows, on : BOOLEAN], answer : CardAnswers]
      \cup [kind : Copies \cup {"delete"}, body : OtherDashboards \cup {Card!Nobody}, answer : CardAnswers]
Flags == /\ mounted \in BOOLEAN /\ showConfig \in BOOLEAN /\ openConfigTimeout \in BOOLEAN
         /\ openConfigPanels \in BOOLEAN /\ copyModalOpen \in BOOLEAN /\ actionBusy \in BOOLEAN
         /\ meddled \in BOOLEAN /\ failed \in BOOLEAN
CardTyped == Card!TypeOK /\ Flags /\ calls \in Seq(CardCalls)
CopyInv == Card!OneCopy /\ (Card!InFlight(Copies) => actionBusy \/ ~mounted)
(* The one change under way carries the keys it does not mean to change as *)
(* the row and the page both have them; once answered, it has the row.     *)
Carries(c) == /\ c.kind = "save" => c.body.pinned = panel.pinned
              /\ c.kind = "pin" => c.body.config = panel.config
              /\ c.kind = "own" => c.body.panel = panel
RowInv == ~meddled /\ ~failed =>
    /\ \A i, j \in DOMAIN calls : calls[i].kind \in Card!Changes /\ calls[j].kind \in Card!Changes => i = j
    /\ \A i \in DOMAIN calls : calls[i].kind \in Card!Changes =>
            IF calls[i].answer = <<>> THEN panel = server /\ Carries(calls[i]) ELSE Card!Taken(calls[i]) = server
    /\ ~Card!InFlight(Card!Changes) => panel = server
CardInv == CardTyped /\ Card!PickForOneWindow /\ Card!WindowKnown /\ CopyInv /\ RowInv

-----------------------------------------------------------------------------
LEMMA CallTyped ==
  ASSUME NEW c \in CardCalls
  PROVE  /\ c.kind \in Card!Changes \cup Copies \cup {"delete"} /\ c.answer \in CardAnswers
         /\ c.kind = "title" => c.body \in [title : Titles]
         /\ c.kind = "save" => c.body \in [config : Configs, pinned : BOOLEAN, broker : PanelBrokers]
         /\ c.kind = "pin" => c.body \in [config : Configs, pinned : BOOLEAN, was : BOOLEAN]
         /\ c.kind = "own" => c.body \in [panel : Card!Rows, on : BOOLEAN]
         /\ \A a \in CardAnswers : [c EXCEPT !.answer = a] \in CardCalls /\ [c EXCEPT !.answer = a].kind = c.kind
                                   /\ [c EXCEPT !.answer = a].answer = a /\ [c EXCEPT !.answer = a].body = c.body
<1> USE DEF Card!Changes, Copies
<1>1. CASE c \in [kind : {"title"}, body : [title : Titles], answer : CardAnswers] BY <1>1 DEF CardCalls
<1>2. CASE c \in [kind : {"save"}, body : [config : Configs, pinned : BOOLEAN, broker : PanelBrokers], answer : CardAnswers]
  BY <1>2 DEF CardCalls
<1>3. CASE c \in [kind : {"pin"}, body : [config : Configs, pinned : BOOLEAN, was : BOOLEAN], answer : CardAnswers]
  BY <1>3 DEF CardCalls
<1>5. CASE c \in [kind : {"own"}, body : [panel : Card!Rows, on : BOOLEAN], answer : CardAnswers] BY <1>5 DEF CardCalls
<1>4. CASE c \in [kind : Copies \cup {"delete"}, body : OtherDashboards \cup {Card!Nobody}, answer : CardAnswers] BY <1>4 DEF CardCalls
<1> QED BY <1>1, <1>2, <1>3, <1>4, <1>5 DEF CardCalls

LEMMA AnswerIs == ASSUME NEW a \in CardAnswers, a # <<>> PROVE a[1] \in Card!Rows
BY DEF CardAnswers

(* What the page takes of an answered change.                              *)
LEMMA TakenTyped ==
  ASSUME Card!CardFits, NEW c \in CardCalls, c.answer # <<>>
  PROVE  Card!Taken(c) \in Card!Rows
<1>1. CASE c.kind = "own"
  <2>1. c.body.panel \in Card!Rows /\ c.body.on \in BOOLEAN BY <1>1, CallTyped
  <2>2. Turned[c.body.panel.config][c.body.on] \in Configs BY <2>1 DEF Card!CardFits, Card!Rows
  <2> QED BY <1>1, <2>1, <2>2 DEF Card!Taken, Card!Rows
<1>2. CASE c.kind # "own" BY <1>2, CallTyped, AnswerIs DEF Card!Taken
<1> QED BY <1>1, <1>2

LEMMA MergedTyped ==
  ASSUME Card!CardFits, NEW row \in Card!Rows, NEW c \in CardCalls
  PROVE  Card!Merged(row, c) \in Card!Rows
<1>1. CASE c.kind = "title" BY <1>1, CallTyped DEF Card!Merged, Card!Rows
<1>2. CASE c.kind = "save" BY <1>2, CallTyped DEF Card!Merged, Card!Rows
<1>3. CASE c.kind = "pin" BY <1>3, CallTyped DEF Card!Merged, Card!Rows
<1>5. CASE c.kind = "own"
  <2>1. Turned[row.config][c.body.on] \in Configs BY <1>5, CallTyped DEF Card!CardFits, Card!Rows
  <2> QED BY <1>5, <2>1 DEF Card!Merged, Card!Rows
<1>4. CASE c.kind \notin Card!Changes BY <1>4 DEF Card!Merged, Card!Changes
<1> QED BY <1>1, <1>2, <1>3, <1>4, <1>5 DEF Card!Changes

LEMMA GoneRequest ==
  ASSUME calls \in Seq(CardCalls), NEW i \in DOMAIN calls, Card!Drop(i)
  PROVE  /\ calls' \in Seq(CardCalls) /\ Len(calls') <= Len(calls)
         /\ \A k \in DOMAIN calls' : \E j \in DOMAIN calls \ {i} : calls'[k] = calls[j] /\ j = (IF k < i THEN k ELSE k + 1)
         /\ \A j \in DOMAIN calls \ {i} : \E k \in DOMAIN calls' : calls'[k] = calls[j]
         /\ \A kinds : (\A a, b \in DOMAIN calls : calls[a].kind \in kinds /\ calls[b].kind \in kinds => a = b) =>
                \A m, n \in DOMAIN calls' : calls'[m].kind \in kinds /\ calls'[n].kind \in kinds => m = n
<1>1. PICK t : t = Card!RemoveAt(calls, i) OBVIOUS
<1>2. t = SubSeq(calls, 1, i - 1) \o SubSeq(calls, i + 1, Len(calls)) BY <1>1 DEF Card!RemoveAt
<1>3. t \in Seq(CardCalls) /\ IsCut(t, calls, i) BY <1>2, Cut
<1>4. /\ Len(t) = Len(calls) - 1
      /\ \A k \in DOMAIN t : \E j \in DOMAIN calls \ {i} : t[k] = calls[j] /\ j = (IF k < i THEN k ELSE k + 1)
      /\ \A j \in DOMAIN calls \ {i} : \E k \in DOMAIN t : t[k] = calls[j]
  BY <1>3, CutFrom
<1>5. calls' = t BY <1>1 DEF Card!Drop
<1>6. DOMAIN calls = 1..Len(calls) /\ Len(calls) \in Nat /\ DOMAIN t = 1..Len(t) /\ Len(t) \in Nat
  BY ONLY <1>3, LenProperties, calls \in Seq(CardCalls)
<1>7. ASSUME NEW kinds, \A a, b \in DOMAIN calls : calls[a].kind \in kinds /\ calls[b].kind \in kinds => a = b
      PROVE  \A m, n \in DOMAIN t : t[m].kind \in kinds /\ t[n].kind \in kinds => m = n
  <2> SUFFICES ASSUME NEW m \in DOMAIN t, NEW n \in DOMAIN t, t[m].kind \in kinds, t[n].kind \in kinds PROVE m = n
    OBVIOUS
  <2>1. PICK a \in DOMAIN calls : t[m] = calls[a] /\ a = (IF m < i THEN m ELSE m + 1) BY <1>4
  <2>2. PICK b \in DOMAIN calls : t[n] = calls[b] /\ b = (IF n < i THEN n ELSE n + 1) BY <1>4
  <2>3. a = b BY <1>7, <2>1, <2>2
  <2>4. m \in Nat /\ n \in Nat /\ i \in Nat BY <1>6
  <2> QED BY ONLY <2>1, <2>2, <2>3, <2>4
<1>8. Len(t) <= Len(calls) BY ONLY <1>4, <1>6
<1> QED BY ONLY <1>3, <1>4, <1>5, <1>7, <1>8

LEMMA NewRequest ==
  ASSUME calls \in Seq(CardCalls), MaxCalls \in Nat, NEW k, NEW b, Card!Request(k, b),
         NEW c, c = [kind |-> k, body |-> b, answer |-> <<>>], c \in CardCalls
  PROVE  /\ calls' \in Seq(CardCalls) /\ Len(calls') <= MaxCalls
         /\ \A j \in DOMAIN calls' : (calls'[j] = c /\ j = Len(calls) + 1) \/ (j \in DOMAIN calls /\ calls'[j] = calls[j])
         /\ \A j \in DOMAIN calls : j \in DOMAIN calls' /\ calls'[j] = calls[j]
         /\ \E j \in DOMAIN calls' : calls'[j] = c
<1>1. PICK n \in Nat : n = Len(calls) /\ DOMAIN calls = 1..n BY LenProperties
<1>2. calls' = Append(calls, c) /\ Len(calls) < MaxCalls BY DEF Card!Request
<1>3. /\ calls' \in Seq(CardCalls) /\ Len(calls') = n + 1 /\ calls'[n + 1] = c /\ \A j \in 1..n : calls'[j] = calls[j]
      /\ DOMAIN calls' = 1..(n + 1)
  BY <1>1, <1>2
<1> QED BY <1>1, <1>2, <1>3
-----------------------------------------------------------------------------
LEMMA CardInit == ASSUME Card!CardFits, Card!Init PROVE CardInv
<1>1. PICK t : t = CHOOSE x \in Titles : TRUE OBVIOUS
<1>2. t \in Titles BY <1>1 DEF Card!CardFits
<1>3. PICK c \in Configs, p \in BOOLEAN, b \in PanelBrokers : server = Card!Row(t, c, p, b) BY <1>1 DEF Card!Init
<1>4. server \in Card!Rows /\ server.config = c /\ server.title = t BY <1>2, <1>3 DEF Card!Row, Card!Rows
<1>5. /\ panel = server /\ title = server.title /\ mounted = TRUE /\ showConfig = FALSE /\ capturedPicker = Card!NoPick
      /\ openConfigTimeout = FALSE /\ openConfigPanels = FALSE /\ pickerReturn \in {Card!NoPick, server.config}
      /\ optimisticPinned = Card!NoPin /\ copyModalOpen = FALSE /\ actionBusy = FALSE
      /\ calls = <<>> /\ meddled = FALSE /\ failed = FALSE
  BY DEF Card!Init
<1>6. calls \in Seq(CardCalls) /\ Len(calls) = 0 /\ DOMAIN calls = {} BY <1>5
<1>7. Card!TypeOK BY <1>2, <1>4, <1>5, <1>6 DEF Card!TypeOK, Card!CardFits
<1>8. Flags BY <1>5 DEF Flags
<1>9. Card!PickForOneWindow /\ Card!WindowKnown BY <1>5 DEF Card!PickForOneWindow, Card!WindowKnown
<1>10. CopyInv BY <1>6 DEF CopyInv, Card!OneCopy, Card!InFlight
<1>11. RowInv BY <1>5, <1>6 DEF RowInv, Card!InFlight
<1> QED BY <1>6, <1>7, <1>8, <1>9, <1>10, <1>11 DEF CardInv, CardTyped

LEMMA RowSame == ASSUME RowInv, UNCHANGED <<server, panel, calls, meddled, failed>> PROVE RowInv'
BY DEF RowInv, Card!InFlight, Carries

LEMMA CopySame ==
  ASSUME CopyInv, UNCHANGED calls, actionBusy \/ ~mounted => actionBusy' \/ ~mounted'
  PROVE  CopyInv'
BY DEF CopyInv, Card!OneCopy, Card!InFlight

(* A new request, of a change of the row or of another kind.               *)
LEMMA ChangeStep ==
  ASSUME CardInv, MaxCalls \in Nat, NEW k \in Card!Changes, NEW b, Card!Change(k, b), NEW c,
         c = [kind |-> k, body |-> b, answer |-> <<>>], c \in CardCalls, Carries(c),
         UNCHANGED <<server, panel, mounted, actionBusy>>
  PROVE  CopyInv' /\ RowInv' /\ calls' \in Seq(CardCalls) /\ Len(calls') <= MaxCalls /\ meddled' \in BOOLEAN
<1>1. /\ calls' \in Seq(CardCalls) /\ Len(calls') <= MaxCalls
      /\ \A j \in DOMAIN calls' : (calls'[j] = c /\ j = Len(calls) + 1) \/ (j \in DOMAIN calls /\ calls'[j] = calls[j])
      /\ \A j \in DOMAIN calls : j \in DOMAIN calls' /\ calls'[j] = calls[j]
      /\ \E j \in DOMAIN calls' : calls'[j] = c
  BY NewRequest DEF CardInv, CardTyped, Card!Change
<1>2. c.kind = k /\ c.answer = <<>> /\ k \notin Copies BY DEF Card!Changes, Copies
<1>3. CopyInv'
  <2>1. \A j \in DOMAIN calls' : calls'[j].kind \in Copies => j \in DOMAIN calls /\ calls'[j] = calls[j] BY <1>1, <1>2
  <2>2. Card!OneCopy' BY <2>1 DEF CardInv, CopyInv, Card!OneCopy, Copies
  <2>3. Card!InFlight(Copies)' => Card!InFlight(Copies) BY <2>1 DEF Card!InFlight
  <2> QED BY <2>2, <2>3 DEF CardInv, CopyInv
<1>4. meddled \in BOOLEAN /\ Card!InFlight(Card!Changes) \in BOOLEAN BY DEF CardInv, CardTyped, Flags, Card!InFlight
<1>5. meddled' = (meddled \/ Card!InFlight(Card!Changes)) /\ failed' = failed BY DEF Card!Change
<1>6. RowInv'
  <2> SUFFICES ASSUME ~meddled, ~Card!InFlight(Card!Changes), ~failed
               PROVE  /\ \A i, j \in DOMAIN calls' : calls'[i].kind \in Card!Changes /\ calls'[j].kind \in Card!Changes => i = j
                      /\ \A i \in DOMAIN calls' : calls'[i].kind \in Card!Changes =>
                            calls'[i].answer = <<>> /\ panel' = server' /\ Carries(calls[i])'
                      /\ Card!InFlight(Card!Changes)'
    BY <1>4, <1>5 DEF RowInv
  <2>1. \A j \in DOMAIN calls' : calls'[j].kind \in Card!Changes => calls'[j] = c /\ j = Len(calls) + 1
    BY <1>1 DEF Card!InFlight
  <2>2. panel = server BY DEF CardInv, RowInv
  <2>3. Carries(c)' BY DEF Carries
  <2>4. Card!InFlight(Card!Changes)' BY <1>1, <1>2 DEF Card!InFlight
  <2>5. ASSUME NEW i \in DOMAIN calls', calls'[i].kind \in Card!Changes
        PROVE  calls'[i].answer = <<>> /\ panel' = server' /\ Carries(calls[i])'
    BY <1>2, <2>1, <2>2, <2>3, <2>5 DEF Carries
  <2> QED BY <2>1, <2>4, <2>5
<1> QED BY <1>1, <1>3, <1>4, <1>5, <1>6

LEMMA AskStep ==
  ASSUME CardInv, MaxCalls \in Nat, NEW k \in Copies \cup {"delete"}, NEW b \in OtherDashboards \cup {Card!Nobody}, Card!Request(k, b),
         UNCHANGED <<server, panel, mounted, meddled, failed>>,
         IF k \in Copies THEN mounted /\ ~actionBusy /\ actionBusy' ELSE actionBusy' = actionBusy
  PROVE  CopyInv' /\ RowInv' /\ calls' \in Seq(CardCalls) /\ Len(calls') <= MaxCalls
<1>1. PICK c : c = [kind |-> k, body |-> b, answer |-> <<>>] OBVIOUS
<1>2. c \in CardCalls /\ c.kind = k /\ k \notin Card!Changes BY <1>1 DEF CardCalls, CardAnswers, Card!Changes, Copies
<1>3. /\ calls' \in Seq(CardCalls) /\ Len(calls') <= MaxCalls
      /\ \A j \in DOMAIN calls' : (calls'[j] = c /\ j = Len(calls) + 1) \/ (j \in DOMAIN calls /\ calls'[j] = calls[j])
      /\ \A j \in DOMAIN calls : j \in DOMAIN calls' /\ calls'[j] = calls[j]
  BY <1>1, <1>2, NewRequest DEF CardInv, CardTyped
<1>4. CopyInv'
  <2>1. CASE k \in Copies
    <3>1. ~Card!InFlight(Copies) BY <2>1 DEF CardInv, CopyInv
    <3>2. \A j \in DOMAIN calls' : calls'[j].kind \in Copies => j = Len(calls) + 1 BY <1>3, <3>1 DEF Card!InFlight
    <3> QED BY <2>1, <3>2 DEF CopyInv, Card!OneCopy, Copies
  <2>2. CASE k \notin Copies
    <3>1. \A j \in DOMAIN calls' : calls'[j].kind \in Copies => j \in DOMAIN calls /\ calls'[j] = calls[j] BY <1>2, <1>3, <2>2
    <3>2. Card!OneCopy' BY <3>1 DEF CardInv, CopyInv, Card!OneCopy, Copies
    <3>3. Card!InFlight(Copies)' => Card!InFlight(Copies) BY <3>1 DEF Card!InFlight
    <3> QED BY <2>2, <3>2, <3>3 DEF CardInv, CopyInv
  <2> QED BY <2>1, <2>2
<1>5. RowInv'
  <2>1. \A j \in DOMAIN calls' : calls'[j].kind \in Card!Changes => j \in DOMAIN calls /\ calls'[j] = calls[j] BY <1>2, <1>3
  <2>2. Card!InFlight(Card!Changes)' <=> Card!InFlight(Card!Changes) BY <1>3, <2>1 DEF Card!InFlight
  <2> QED BY <2>1, <2>2 DEF CardInv, RowInv, Carries
<1> QED BY <1>3, <1>4, <1>5
-----------------------------------------------------------------------------
(* A request is carried out: the row, and the answer with it.              *)
LEMMA CardServed ==
  ASSUME Card!CardFits, CardTyped, NEW i \in DOMAIN calls, Card!Serve(i)
  PROVE  /\ calls[i] \in CardCalls /\ calls[i].answer = <<>> /\ server' = Card!Merged(server, calls[i]) /\ server' \in Card!Rows
         /\ calls' \in Seq(CardCalls) /\ Len(calls') = Len(calls) /\ DOMAIN calls' = DOMAIN calls
         /\ calls'[i] \in CardCalls /\ calls'[i].kind = calls[i].kind /\ calls'[i].answer = <<server'>> /\ calls'[i].body = calls[i].body
         /\ \A j \in DOMAIN calls : j # i => calls'[j] = calls[j]
<1>1. PICK c : c = calls[i] OBVIOUS
<1>2. c \in CardCalls /\ calls \in Seq(CardCalls) BY <1>1 DEF CardTyped
<1>3. server' = Card!Merged(server, c) /\ c.answer = <<>> BY <1>1 DEF Card!Serve
<1>4. server' \in Card!Rows BY <1>2, <1>3, MergedTyped DEF CardTyped, Card!TypeOK
<1>5. <<server'>> \in CardAnswers BY <1>4 DEF CardAnswers
<1>6. PICK d : d = [c EXCEPT !.answer = <<server'>>] OBVIOUS
<1>7. d \in CardCalls /\ d.kind = c.kind /\ d.answer = <<server'>> /\ d.body = c.body BY <1>2, <1>5, <1>6, CallTyped
<1>8. calls' = [calls EXCEPT ![i] = d] BY <1>1, <1>6 DEF Card!Serve
<1>9. i \in 1..Len(calls) /\ DOMAIN calls = 1..Len(calls) BY <1>2, LenProperties
<1>10. /\ calls' \in Seq(CardCalls) /\ Len(calls') = Len(calls)
       /\ \A j \in 1..Len(calls) : calls'[j] = IF j = i THEN d ELSE calls[j]
  BY ONLY <1>2, <1>7, <1>8, <1>9, ExceptSeq
<1>11. DOMAIN calls' = DOMAIN calls BY <1>8
<1> QED BY <1>1, <1>2, <1>3, <1>4, <1>7, <1>9, <1>10, <1>11

(* What a change moves of a row that the page has.                         *)
LEMMA MergedMoves ==
  ASSUME CardTyped, NEW c \in CardCalls, panel = server, Carries(c)
  PROVE  \A k \in DOMAIN server : k \in Card!Owned(c.kind) \/ Card!Merged(server, c)[k] = server[k]
<1>1. server \in Card!Rows /\ DOMAIN server = {"title", "config", "pinned", "broker"} BY DEF CardTyped, Card!TypeOK, Card!Rows
<1>2. CASE c.kind = "title" BY <1>1, <1>2 DEF Card!Owned, Card!Merged, Card!Rows
<1>3. CASE c.kind = "save" BY <1>1, <1>3 DEF Card!Owned, Card!Merged, Card!Rows, Carries
<1>4. CASE c.kind = "pin" BY <1>1, <1>4 DEF Card!Owned, Card!Merged, Card!Rows, Carries
<1>6. CASE c.kind = "own" BY <1>1, <1>6 DEF Card!Owned, Card!Merged, Card!Rows
<1>5. CASE c.kind \notin Card!Changes BY <1>5 DEF Card!Merged, Card!Changes
<1> QED BY <1>2, <1>3, <1>4, <1>5, <1>6 DEF Card!Changes

LEMMA CardServeStep == ASSUME Card!CardFits, CardInv, NEW i \in DOMAIN calls, Card!Serve(i) PROVE CardInv'
<1>1. CardTyped BY DEF CardInv
<1>2. /\ calls[i] \in CardCalls /\ calls[i].answer = <<>> /\ server' = Card!Merged(server, calls[i]) /\ server' \in Card!Rows
      /\ calls' \in Seq(CardCalls) /\ Len(calls') = Len(calls) /\ DOMAIN calls' = DOMAIN calls
      /\ calls'[i].kind = calls[i].kind /\ calls'[i].answer = <<server'>>
      /\ \A j \in DOMAIN calls : j # i => calls'[j] = calls[j]
  BY <1>1, CardServed
<1>3. UNCHANGED <<panel, mounted, title, editingTitle, showConfig, capturedPicker, openConfigTimeout, pickerReturn,
                  openConfigPanels, optimisticPinned, copyModalOpen, actionBusy, meddled, failed>>
  BY DEF Card!Serve, Card!window, Card!ghosts
<1>4. \A j \in DOMAIN calls : calls'[j].kind = calls[j].kind BY <1>2
<1>5. CardTyped' BY <1>1, <1>2, <1>3 DEF CardTyped, Card!TypeOK, Flags
<1>6. Card!PickForOneWindow' /\ Card!WindowKnown' BY <1>3 DEF CardInv, Card!PickForOneWindow, Card!WindowKnown
<1>7. CopyInv' BY <1>2, <1>3, <1>4 DEF CardInv, CopyInv, Card!OneCopy, Card!InFlight
<1>8. RowInv'
  <2> SUFFICES ASSUME ~meddled, ~failed PROVE RowInv' BY <1>3 DEF RowInv
  <2>1. /\ \A m, n \in DOMAIN calls : calls[m].kind \in Card!Changes /\ calls[n].kind \in Card!Changes => m = n
        /\ \A m \in DOMAIN calls : calls[m].kind \in Card!Changes =>
              IF calls[m].answer = <<>> THEN panel = server /\ Carries(calls[m]) ELSE Card!Taken(calls[m]) = server
        /\ ~Card!InFlight(Card!Changes) => panel = server
    BY DEF CardInv, RowInv
  <2>2. Card!InFlight(Card!Changes)' <=> Card!InFlight(Card!Changes) BY <1>2, <1>4 DEF Card!InFlight
  <2>3. CASE calls[i].kind \in Card!Changes
    <3>1. \A m \in DOMAIN calls' : calls'[m].kind \in Card!Changes => m = i BY <1>2, <1>4, <2>1, <2>3
    <3>2. calls'[i].answer # <<>> /\ Card!Taken(calls[i])' = server'
      <4>1. PICK c \in CardCalls : c = calls[i] BY <1>2
      <4>2. PICK d \in CardCalls : d = calls'[i] BY <1>1, CardServed
      <4>3. d.kind = c.kind /\ d.body = c.body /\ d.answer = <<server'>> BY <1>1, <4>1, <4>2, CardServed
      <4>4. panel = server /\ Carries(c) BY <1>2, <2>1, <2>3, <4>1
      <4>5. Card!Taken(d) = server'
        <5>1. CASE c.kind = "own"
          <6>1. c.body.panel = server BY <4>4, <5>1 DEF Carries
          <6> QED BY <1>2, <4>1, <4>3, <5>1, <6>1 DEF Card!Taken, Card!Merged
        <5>2. CASE c.kind # "own" BY <4>3, <5>2 DEF Card!Taken
        <5> QED BY <5>1, <5>2
      <4> QED BY <4>2, <4>3, <4>5 DEF Card!Taken
    <3>3. Card!InFlight(Card!Changes)' BY <1>2, <1>4, <2>3 DEF Card!InFlight
    <3> QED BY <3>1, <3>2, <3>3 DEF RowInv
  <2>4. CASE calls[i].kind \notin Card!Changes
    <3>1. server' = server BY <1>2, <2>4 DEF Card!Merged, Card!Changes
    <3>2. \A m \in DOMAIN calls : calls[m].kind \in Card!Changes => calls'[m] = calls[m] BY <1>2, <2>4
    <3> QED BY <1>2, <1>3, <1>4, <2>1, <2>2, <3>1, <3>2 DEF RowInv, Carries
  <2> QED BY <2>3, <2>4
<1> QED BY <1>5, <1>6, <1>7, <1>8 DEF CardInv

LEMMA AnswerStep == ASSUME Card!CardFits, CardInv, MaxCalls \in Nat, NEW i \in DOMAIN calls, Card!Answer(i) PROVE CardInv'
<1>1. Card!Drop(i) /\ UNCHANGED <<server, title, meddled, acts>> BY DEF Card!Answer
<1>2. /\ calls' \in Seq(CardCalls) /\ Len(calls') <= Len(calls)
      /\ \A k \in DOMAIN calls' : \E j \in DOMAIN calls \ {i} : calls'[k] = calls[j] /\ j = (IF k < i THEN k ELSE k + 1)
      /\ \A j \in DOMAIN calls \ {i} : \E k \in DOMAIN calls' : calls'[k] = calls[j]
      /\ \A kinds : (\A a, b \in DOMAIN calls : calls[a].kind \in kinds /\ calls[b].kind \in kinds => a = b) =>
            \A m, n \in DOMAIN calls' : calls'[m].kind \in kinds /\ calls'[n].kind \in kinds => m = n
  BY <1>1, GoneRequest DEF CardInv, CardTyped
<1>3. PICK c \in CardCalls : c = calls[i] BY DEF CardInv, CardTyped
<1>4. c.answer # <<>> => Card!Taken(c) \in Card!Rows BY TakenTyped
<1>5. Len(calls') <= MaxCalls
  <2>1. Len(calls) \in Nat /\ Len(calls') \in Nat /\ Len(calls) <= MaxCalls
    BY <1>2, LenProperties DEF CardInv, CardTyped, Card!TypeOK
  <2> QED BY <1>2, <2>1
<1>6. /\ capturedPicker' = capturedPicker /\ pickerReturn' = pickerReturn
      /\ \/ UNCHANGED <<mounted, showConfig, openConfigPanels, openConfigTimeout>>
         \/ mounted' = FALSE /\ showConfig' = FALSE /\ openConfigPanels' = FALSE /\ openConfigTimeout' = FALSE
  BY DEF Card!Answer, Card!Updated, Card!Copied, Card!Removed, Card!Errs, Card!window, Card!Unmount
<1>7. /\ panel' \in Card!Rows
      /\ optimisticPinned' \in {Card!NoPin, "yes", "no"}
      /\ UNCHANGED panel \/ (c.kind \in Card!Changes /\ c.answer # <<>> /\ panel' = Card!Taken(c))
      /\ failed' = TRUE \/ (failed' = failed /\ (c.kind \in Card!Changes => c.answer # <<>> /\ panel' = Card!Taken(c)))
  <2>0. panel \in Card!Rows /\ optimisticPinned \in {Card!NoPin, "yes", "no"} BY DEF CardInv, CardTyped, Card!TypeOK
  <2>1. CASE Card!Updated(i) /\ UNCHANGED failed BY <1>3, <1>4, <2>0, <2>1 DEF Card!Updated
  <2>2. CASE Card!Copied(i) /\ UNCHANGED failed BY <1>3, <2>0, <2>2 DEF Card!Copied, Card!Changes
  <2>3. CASE Card!Removed(i) /\ UNCHANGED failed BY <1>3, <2>0, <2>3 DEF Card!Removed, Card!Changes
  <2>4. CASE Card!Errs(i) /\ failed' = TRUE BY <2>0, <2>4 DEF Card!Errs, Card!PinFailed, Card!Pinned
  <2> QED BY <2>1, <2>2, <2>3, <2>4 DEF Card!Answer
<1>8. /\ copyModalOpen' \in BOOLEAN /\ actionBusy' \in BOOLEAN
      /\ actionBusy' => copyModalOpen'
      /\ (actionBusy \/ ~mounted => actionBusy' \/ ~mounted') \/ c.kind \in Copies
  <2>0. copyModalOpen \in BOOLEAN /\ actionBusy \in BOOLEAN /\ (actionBusy => copyModalOpen) /\ mounted \in BOOLEAN
    BY DEF CardInv, CardTyped, Card!TypeOK, Flags
  <2>1. CASE Card!Updated(i) BY <2>0, <2>1 DEF Card!Updated, Card!copying
  <2>2. CASE Card!Copied(i) BY <1>3, <2>2 DEF Card!Copied, Copies
  <2>3. CASE Card!Removed(i) BY <2>3 DEF Card!Removed, Card!Unmount
  <2>4. CASE Card!Errs(i) BY <1>3, <2>0, <2>4 DEF Card!Errs, Card!BusyAfter, Copies
  <2> QED BY <2>1, <2>2, <2>3, <2>4 DEF Card!Answer
<1>9. CardTyped'
  <2>0. Card!TypeOK /\ Flags BY DEF CardInv, CardTyped
  <2>1. Card!TypeOK'
    <3>1. /\ server' \in Card!Rows /\ title' \in Titles /\ capturedPicker' \in Configs \cup {Card!NoPick}
          /\ pickerReturn' \in Configs \cup {Card!NoPick}
      BY <1>1, <1>6, <2>0 DEF Card!TypeOK
    <3> QED BY <1>5, <1>7, <1>8, <3>1 DEF Card!TypeOK
  <2>2. failed' \in BOOLEAN BY <1>7 DEF CardInv, CardTyped, Flags
  <2>3. /\ mounted' \in BOOLEAN /\ showConfig' \in BOOLEAN /\ openConfigPanels' \in BOOLEAN
        /\ openConfigTimeout' \in BOOLEAN /\ meddled' \in BOOLEAN
    <3>1. CASE UNCHANGED <<mounted, showConfig, openConfigPanels, openConfigTimeout>> BY <1>1, <2>0, <3>1 DEF Flags
    <3>2. CASE mounted' = FALSE /\ showConfig' = FALSE /\ openConfigPanels' = FALSE /\ openConfigTimeout' = FALSE
      BY <1>1, <2>0, <3>2 DEF Flags
    <3> QED BY <1>6, <3>1, <3>2
  <2>4. Flags' BY <1>8, <2>2, <2>3 DEF Flags
  <2> QED BY <1>2, <2>1, <2>4 DEF CardTyped
<1>10. Card!PickForOneWindow' /\ Card!WindowKnown'
  <2>1. CASE UNCHANGED <<mounted, showConfig, openConfigPanels, openConfigTimeout>>
    BY <1>6, <2>1 DEF CardInv, Card!PickForOneWindow, Card!WindowKnown
  <2>2. CASE mounted' = FALSE /\ showConfig' = FALSE /\ openConfigPanels' = FALSE /\ openConfigTimeout' = FALSE
    BY <2>2 DEF Card!PickForOneWindow, Card!WindowKnown
  <2> QED BY <1>6, <2>1, <2>2
<1>11. CopyInv'
  <2>1. Card!OneCopy' BY <1>2 DEF CardInv, CopyInv, Card!OneCopy, Copies
  <2>2. Card!InFlight(Copies)' => \E j \in DOMAIN calls \ {i} : calls[j].kind \in Copies BY <1>2 DEF Card!InFlight
  <2>3. CASE c.kind \in Copies
    <3>1. ~(\E j \in DOMAIN calls \ {i} : calls[j].kind \in Copies)
      BY <1>3, <2>3 DEF CardInv, CopyInv, Card!OneCopy, Copies
    <3> QED BY <2>1, <2>2, <3>1 DEF CopyInv
  <2>4. CASE c.kind \notin Copies
    <3>1. Card!InFlight(Copies)' => Card!InFlight(Copies) BY <2>2 DEF Card!InFlight
    <3> QED BY <1>8, <2>1, <2>4, <3>1 DEF CardInv, CopyInv
  <2> QED BY <2>3, <2>4
<1>12. RowInv'
  <2> SUFFICES ASSUME ~meddled, ~failed' PROVE RowInv' BY <1>1 DEF RowInv
  <2>0. ~failed BY <1>7
  <2>1. /\ \A m, n \in DOMAIN calls : calls[m].kind \in Card!Changes /\ calls[n].kind \in Card!Changes => m = n
        /\ \A m \in DOMAIN calls : calls[m].kind \in Card!Changes =>
              IF calls[m].answer = <<>> THEN panel = server /\ Carries(calls[m]) ELSE Card!Taken(calls[m]) = server
        /\ ~Card!InFlight(Card!Changes) => panel = server
    BY <2>0 DEF CardInv, RowInv
  <2>2. \A m, n \in DOMAIN calls' : calls'[m].kind \in Card!Changes /\ calls'[n].kind \in Card!Changes => m = n
    BY <1>2, <2>1
  <2>3. CASE c.kind \in Card!Changes
    <3>1. panel' = server' BY <1>1, <1>3, <1>7, <2>1, <2>3
    <3>2. \A k \in DOMAIN calls' : calls'[k].kind \notin Card!Changes BY <1>2, <1>3, <2>1, <2>3
    <3> QED BY <3>1, <3>2 DEF RowInv
  <2>4. CASE c.kind \notin Card!Changes
    <3>1. panel' = panel BY <1>7, <2>4
    <3>2. Card!InFlight(Card!Changes)' <=> Card!InFlight(Card!Changes) BY <1>2, <1>3, <2>4 DEF Card!InFlight
    <3> QED BY <1>1, <1>2, <2>1, <2>2, <3>1, <3>2 DEF RowInv, Carries
  <2> QED BY <2>3, <2>4
<1> QED BY <1>9, <1>10, <1>11, <1>12 DEF CardInv
-----------------------------------------------------------------------------
(* The user's steps.  What none of them but some touches is kept.          *)
LEMMA WindowStep ==
  ASSUME CardInv, UNCHANGED <<server, panel, title, optimisticPinned, copyModalOpen, actionBusy, calls, meddled, failed>>,
         mounted' \in BOOLEAN, ~mounted => ~mounted', showConfig' \in BOOLEAN, openConfigTimeout' \in BOOLEAN, openConfigPanels' = (mounted' /\ showConfig'),
         capturedPicker' \in Configs \cup {Card!NoPick}, pickerReturn' \in Configs \cup {Card!NoPick},
         mounted' /\ capturedPicker' # Card!NoPick => showConfig' \/ openConfigTimeout'
  PROVE  CardInv'
<1>1. Card!TypeOK' BY DEF CardInv, CardTyped, Card!TypeOK
<1>2. Flags'
  <2>1. openConfigPanels' \in BOOLEAN OBVIOUS
  <2> QED BY <2>1 DEF CardInv, CardTyped, Flags
<1>3. Card!PickForOneWindow' /\ Card!WindowKnown' BY DEF Card!PickForOneWindow, Card!WindowKnown
<1>4. CopyInv' BY CopySame DEF CardInv
<1>5. RowInv' BY RowSame DEF CardInv
<1> QED BY <1>1, <1>2, <1>3, <1>4, <1>5 DEF CardInv, CardTyped

(* A step that leaves the window alone.                                    *)
LEMMA BesideStep ==
  ASSUME CardInv, UNCHANGED <<mounted, Card!window>>, server' \in Card!Rows, panel' \in Card!Rows, title' \in Titles,
         optimisticPinned' \in {Card!NoPin, "yes", "no"}, copyModalOpen' \in BOOLEAN, actionBusy' \in BOOLEAN,
         actionBusy' => copyModalOpen', calls' \in Seq(CardCalls), Len(calls') <= MaxCalls,
         meddled' \in BOOLEAN, failed' \in BOOLEAN, CopyInv', RowInv'
  PROVE  CardInv'
<1>1. UNCHANGED <<mounted, showConfig, capturedPicker, openConfigTimeout, pickerReturn, openConfigPanels>> BY DEF Card!window
<1>2. Card!TypeOK' BY <1>1 DEF CardInv, CardTyped, Card!TypeOK
<1>3. Flags' BY <1>1 DEF CardInv, CardTyped, Flags
<1>4. Card!PickForOneWindow' /\ Card!WindowKnown' BY <1>1 DEF CardInv, Card!PickForOneWindow, Card!WindowKnown
<1> QED BY <1>2, <1>3, <1>4 DEF CardInv, CardTyped

LEMMA CardShape ==
  ASSUME CardInv
  PROVE  /\ server \in Card!Rows /\ panel \in Card!Rows /\ title \in Titles /\ optimisticPinned \in {Card!NoPin, "yes", "no"}
         /\ copyModalOpen \in BOOLEAN /\ actionBusy \in BOOLEAN /\ (actionBusy => copyModalOpen)
         /\ calls \in Seq(CardCalls) /\ Len(calls) <= MaxCalls /\ meddled \in BOOLEAN /\ failed \in BOOLEAN
         /\ mounted \in BOOLEAN /\ showConfig \in BOOLEAN /\ openConfigTimeout \in BOOLEAN /\ openConfigPanels \in BOOLEAN
         /\ capturedPicker \in Configs \cup {Card!NoPick} /\ pickerReturn \in Configs \cup {Card!NoPick}
         /\ CopyInv /\ RowInv /\ openConfigPanels = (mounted /\ showConfig)
         /\ panel.title \in Titles /\ panel.config \in Configs /\ panel.pinned \in BOOLEAN
<1>1. panel \in Card!Rows BY DEF CardInv, CardTyped, Card!TypeOK
<1>2. panel.title \in Titles /\ panel.config \in Configs /\ panel.pinned \in BOOLEAN BY <1>1 DEF Card!Rows
<1> QED BY <1>1, <1>2 DEF CardInv, CardTyped, Card!TypeOK, Flags, Card!WindowKnown

LEMMA TitleStep == ASSUME CardInv, MaxCalls \in Nat, NEW t \in Titles, Card!saveTitle(t) PROVE CardInv'
<1> USE CardShape
<1>1. title' = t /\ UNCHANGED <<server, panel, mounted, Card!window, optimisticPinned, copyModalOpen, actionBusy>>
  BY DEF Card!saveTitle, Card!copying
<1>2. CASE t = panel.title
  <2>1. UNCHANGED <<calls, meddled, failed>> BY <1>2 DEF Card!saveTitle, Card!ghosts
  <2>2. CopyInv' /\ RowInv' BY <1>1, <2>1, CopySame, RowSame
  <2> QED BY <1>1, <2>1, <2>2, BesideStep
<1>3. CASE t # panel.title
  <2>1. PICK c : c = [kind |-> "title", body |-> [title |-> t], answer |-> <<>>] OBVIOUS
  <2>2. c \in CardCalls /\ Carries(c) BY <2>1 DEF CardCalls, Carries, CardAnswers
  <2>3. Card!Change("title", [title |-> t]) /\ "title" \in Card!Changes BY <1>3 DEF Card!saveTitle, Card!Changes
  <2>4. CopyInv' /\ RowInv' /\ calls' \in Seq(CardCalls) /\ Len(calls') <= MaxCalls /\ meddled' \in BOOLEAN
    BY <1>1, <2>1, <2>2, <2>3, ChangeStep
  <2>5. failed' = failed BY <2>3 DEF Card!Change
  <2> QED BY <1>1, <2>4, <2>5, BesideStep
<1> QED BY <1>2, <1>3

LEMMA CardSaveStep ==
  ASSUME CardInv, MaxCalls \in Nat, NEW x \in Configs, NEW b \in PanelBrokers, Card!saveConfig(x, b)
  PROVE  CardInv'
<1> USE CardShape
<1>1. PICK c : c = [kind |-> "save", body |-> Card!NextConfig(x, b), answer |-> <<>>] OBVIOUS
<1>2. c \in CardCalls /\ Carries(c) BY <1>1 DEF CardCalls, Carries, CardAnswers, Card!NextConfig
<1>3. Card!Change("save", Card!NextConfig(x, b)) /\ "save" \in Card!Changes BY DEF Card!saveConfig, Card!Changes
<1>4. /\ UNCHANGED <<server, panel, mounted, title, optimisticPinned, copyModalOpen, actionBusy, failed>>
      /\ UNCHANGED <<openConfigTimeout, pickerReturn>> /\ showConfig' = FALSE /\ openConfigPanels' = FALSE /\ capturedPicker' = Card!NoPick
  BY <1>3 DEF Card!saveConfig, Card!copying, Card!closeConfigModal, Card!Change
<1>5. CopyInv' /\ RowInv' /\ calls' \in Seq(CardCalls) /\ Len(calls') <= MaxCalls /\ meddled' \in BOOLEAN
  BY <1>1, <1>2, <1>3, <1>4, ChangeStep
<1>6. Card!TypeOK' BY <1>4, <1>5 DEF Card!TypeOK
<1>7. Flags' BY <1>4, <1>5 DEF Flags
<1>8. Card!PickForOneWindow' /\ Card!WindowKnown' BY <1>4 DEF Card!PickForOneWindow, Card!WindowKnown
<1> QED BY <1>5, <1>6, <1>7, <1>8 DEF CardInv, CardTyped

LEMMA PinStep == ASSUME CardInv, MaxCalls \in Nat, Card!updateMetaPinned PROVE CardInv'
<1> USE CardShape
<1>1. PICK p \in BOOLEAN : p = ~Card!isPinned OBVIOUS
<1>2. PICK c : c = [kind |-> "pin", body |-> [config |-> panel.config, pinned |-> p, was |-> panel.pinned], answer |-> <<>>] OBVIOUS
<1>3. c \in CardCalls /\ Carries(c) BY <1>2 DEF CardCalls, Carries, CardAnswers
<1>4. Card!Change("pin", [config |-> panel.config, pinned |-> p, was |-> panel.pinned]) /\ "pin" \in Card!Changes BY <1>1 DEF Card!updateMetaPinned, Card!Changes
<1>5. /\ UNCHANGED <<server, panel, mounted, title, Card!window, copyModalOpen, actionBusy, failed>>
      /\ optimisticPinned' \in {Card!NoPin, "yes", "no"}
  BY <1>4 DEF Card!updateMetaPinned, Card!copying, Card!Change, Card!Pinned
<1>6. CopyInv' /\ RowInv' /\ calls' \in Seq(CardCalls) /\ Len(calls') <= MaxCalls /\ meddled' \in BOOLEAN
  BY <1>2, <1>3, <1>4, <1>5, ChangeStep
<1> QED BY <1>5, <1>6, BesideStep

LEMMA OwnChangeStep == ASSUME CardInv, MaxCalls \in Nat, NEW on \in BOOLEAN, Card!handleToggle(on) PROVE CardInv'
<1> USE CardShape
<1>1. PICK c : c = [kind |-> "own", body |-> [panel |-> panel, on |-> on], answer |-> <<>>] OBVIOUS
<1>2. c \in CardCalls /\ Carries(c) BY <1>1 DEF CardCalls, Carries, CardAnswers
<1>3. Card!Change("own", [panel |-> panel, on |-> on]) /\ "own" \in Card!Changes BY DEF Card!handleToggle, Card!Changes
<1>4. UNCHANGED <<server, panel, mounted, title, Card!window, optimisticPinned, copyModalOpen, actionBusy, failed>>
  BY <1>3 DEF Card!handleToggle, Card!copying, Card!Change
<1>5. CopyInv' /\ RowInv' /\ calls' \in Seq(CardCalls) /\ Len(calls') <= MaxCalls /\ meddled' \in BOOLEAN
  BY <1>1, <1>2, <1>3, <1>4, ChangeStep
<1> QED BY <1>4, <1>5, BesideStep

LEMMA CopyButtons ==
  ASSUME CardInv, MaxCalls \in Nat,
         Card!OpenCopy \/ Card!CloseCopy \/ Card!handleDelete
           \/ \E kind \in Copies, d \in OtherDashboards \cup {Card!Nobody} : Card!Copy(kind, d)
  PROVE  CardInv'
<1> USE CardShape
<1>1. CASE Card!OpenCopy
  <2>1. UNCHANGED <<server, panel, mounted, title, Card!window, optimisticPinned, actionBusy, calls, meddled, failed>> /\ copyModalOpen' = TRUE
    BY <1>1 DEF Card!OpenCopy, Card!ghosts
  <2>2. CopyInv' /\ RowInv' BY <2>1, CopySame, RowSame
  <2> QED BY <2>1, <2>2, BesideStep
<1>2. CASE Card!CloseCopy
  <2>1. /\ UNCHANGED <<server, panel, mounted, title, Card!window, optimisticPinned, actionBusy, calls, meddled, failed>>
        /\ copyModalOpen' = FALSE /\ ~actionBusy
    BY <1>2 DEF Card!CloseCopy, Card!CopyClosable, Card!ghosts
  <2>2. CopyInv' /\ RowInv' BY <2>1, CopySame, RowSame
  <2> QED BY <2>1, <2>2, BesideStep
<1>3. CASE Card!handleDelete
  <2>1. /\ UNCHANGED <<server, panel, mounted, title, Card!window, optimisticPinned, copyModalOpen, actionBusy, meddled, failed>>
        /\ Card!Request("delete", Card!Nobody)
    BY <1>3 DEF Card!handleDelete, Card!copying, Card!ghosts
  <2>2. "delete" \notin Copies BY DEF Copies
  <2>3. CopyInv' /\ RowInv' /\ calls' \in Seq(CardCalls) /\ Len(calls') <= MaxCalls BY <2>1, <2>2, AskStep
  <2> QED BY <2>1, <2>3, BesideStep
<1>4. ASSUME NEW kind \in Copies, NEW d \in OtherDashboards \cup {Card!Nobody}, Card!Copy(kind, d) PROVE CardInv'
  <2>1. /\ UNCHANGED <<server, panel, mounted, title, Card!window, optimisticPinned, copyModalOpen, meddled, failed>>
        /\ Card!Request(kind, d) /\ mounted /\ copyModalOpen /\ ~actionBusy /\ actionBusy' = TRUE
    BY <1>4 DEF Card!Copy, Card!CopyOffered, Card!ghosts
  <2>3. CopyInv' /\ RowInv' /\ calls' \in Seq(CardCalls) /\ Len(calls') <= MaxCalls BY <2>1, AskStep
  <2> QED BY <2>1, <2>3, BesideStep
<1> QED BY <1>1, <1>2, <1>3, <1>4

LEMMA WindowButtons ==
  ASSUME CardInv, Card!EditTitle \/ Card!handleOpenConfig \/ Card!Scrolled \/ Card!TakePick \/ Card!CloseConfig \/ Card!handlePickTopic
  PROVE  CardInv'
<1> USE CardShape
<1>0. mounted /\ capturedPicker # Card!NoPick => showConfig \/ openConfigTimeout BY DEF CardInv, Card!PickForOneWindow
<1>1. CASE Card!EditTitle
  <2>1. UNCHANGED <<server, panel, mounted, title, showConfig, capturedPicker, openConfigTimeout, pickerReturn, openConfigPanels,
                    optimisticPinned, copyModalOpen, actionBusy, calls, meddled, failed>>
    BY <1>1 DEF Card!EditTitle, Card!window, Card!copying, Card!ghosts
  <2> QED BY <1>0, <2>1, WindowStep
<1>2. CASE Card!handleOpenConfig
  <2>1. /\ UNCHANGED <<server, panel, mounted, title, capturedPicker, pickerReturn, optimisticPinned, copyModalOpen, actionBusy,
                       calls, meddled, failed>>
        /\ mounted /\ Card!OpenOrScroll
    BY <1>2 DEF Card!handleOpenConfig, Card!copying, Card!ghosts
  <2>2. \/ showConfig' = TRUE /\ openConfigPanels' = TRUE /\ openConfigTimeout' = FALSE
        \/ openConfigTimeout' = TRUE /\ UNCHANGED <<showConfig, openConfigPanels>>
    BY <2>1 DEF Card!OpenOrScroll, Card!Show
  <2>3. /\ showConfig' \in BOOLEAN /\ openConfigTimeout' \in BOOLEAN /\ openConfigPanels' = (mounted' /\ showConfig')
        /\ showConfig' \/ openConfigTimeout'
    BY <2>1, <2>2
  <2> QED BY <2>1, <2>3, WindowStep
<1>3. CASE Card!Scrolled
  <2>1. /\ UNCHANGED <<server, panel, mounted, title, capturedPicker, pickerReturn, optimisticPinned, copyModalOpen, actionBusy,
                       calls, meddled, failed>>
        /\ mounted /\ showConfig' = TRUE /\ openConfigPanels' = TRUE /\ openConfigTimeout' = FALSE
    BY <1>3 DEF Card!Scrolled, Card!Show, Card!copying, Card!ghosts
  <2> QED BY <2>1, WindowStep
<1>4. CASE Card!TakePick
  <2>1. /\ UNCHANGED <<server, panel, mounted, title, optimisticPinned, copyModalOpen, actionBusy, calls, meddled, failed>>
        /\ mounted /\ Card!OpenOrScroll /\ capturedPicker' = pickerReturn /\ pickerReturn' = Card!NoPick
    BY <1>4 DEF Card!TakePick, Card!copying, Card!ghosts
  <2>2. \/ showConfig' = TRUE /\ openConfigPanels' = TRUE /\ openConfigTimeout' = FALSE
        \/ openConfigTimeout' = TRUE /\ UNCHANGED <<showConfig, openConfigPanels>>
    BY <2>1 DEF Card!OpenOrScroll, Card!Show
  <2>3. /\ showConfig' \in BOOLEAN /\ openConfigTimeout' \in BOOLEAN /\ openConfigPanels' = (mounted' /\ showConfig')
        /\ showConfig' \/ openConfigTimeout'
    BY <2>1, <2>2
  <2> QED BY <2>1, <2>3, WindowStep
<1>5. CASE Card!CloseConfig
  <2>1. /\ UNCHANGED <<server, panel, mounted, title, openConfigTimeout, pickerReturn, optimisticPinned, copyModalOpen, actionBusy,
                       calls, meddled, failed>>
        /\ showConfig' = FALSE /\ openConfigPanels' = FALSE /\ capturedPicker' = Card!NoPick
    BY <1>5 DEF Card!CloseConfig, Card!closeConfigModal, Card!copying, Card!ghosts
  <2> QED BY <2>1, WindowStep
<1>6. CASE Card!handlePickTopic
  <2>1. /\ UNCHANGED <<server, panel, title, capturedPicker, pickerReturn, optimisticPinned, copyModalOpen, actionBusy,
                       calls, meddled, failed>>
        /\ mounted' = FALSE /\ showConfig' = FALSE /\ openConfigPanels' = FALSE /\ openConfigTimeout' = FALSE
    BY <1>6 DEF Card!handlePickTopic, Card!Unmount, Card!copying, Card!ghosts
  <2> QED BY <2>1, WindowStep
<1> QED BY <1>1, <1>2, <1>3, <1>4, <1>5, <1>6

LEMMA CardKept == ASSUME Card!CardFits PROVE CardRuns => []CardInv
<1>1. Card!Init => CardInv BY CardInit
<1>2. ASSUME CardInv, [Card!Next]_(Card!vars) PROVE CardInv'
  <2>0. MaxCalls \in Nat BY DEF Card!CardFits
  <2>1. CASE UNCHANGED Card!vars
    <3>1. UNCHANGED <<server, panel, mounted, title, showConfig, capturedPicker, openConfigTimeout, pickerReturn, openConfigPanels,
                      optimisticPinned, copyModalOpen, actionBusy, calls, meddled, failed>>
      BY <2>1 DEF Card!vars, Card!window, Card!copying, Card!ghosts
    <3>2. mounted /\ capturedPicker # Card!NoPick => showConfig \/ openConfigTimeout BY <1>2 DEF CardInv, Card!PickForOneWindow
    <3> QED BY <1>2, <3>1, <3>2, WindowStep, CardShape
  <2>2. CASE Card!Next
    <3>1. ASSUME NEW kind \in {"duplicate", "copy", "move"}, NEW d \in OtherDashboards \cup {Card!Nobody}, Card!Copy(kind, d) PROVE CardInv'
      BY <1>2, <2>0, <3>1, CopyButtons DEF Copies
    <3> QED BY <1>2, <2>0, <2>2, <3>1, TitleStep, CardSaveStep, PinStep, OwnChangeStep, CopyButtons, WindowButtons, CardServeStep, AnswerStep
            DEF Card!Next
  <2> QED BY <1>2, <2>1, <2>2
<1> QED BY <1>1, <1>2, PTL DEF CardRuns

(* A panel's card keeps values of their types over any renames, pins,      *)
(* saves, copies and moves (PanelWrapper.tsx).                             *)
THEOREM CardIsTyped == ASSUME Card!CardFits PROVE CardRuns => []Card!TypeOK
<1>1. CardInv => Card!TypeOK BY DEF CardInv, CardTyped
<1> QED BY <1>1, CardKept, PTL

(* What was picked in the explorer for a panel's settings waits for that   *)
(* one window and no other (PanelWrapper.tsx, the picker's return that the *)
(* card captures).                                                         *)
THEOREM PicksAreForOneWindow == ASSUME Card!CardFits PROVE CardRuns => []Card!PickForOneWindow
<1>1. CardInv => Card!PickForOneWindow BY DEF CardInv
<1> QED BY <1>1, CardKept, PTL

(* The dashboard knows of a panel's open settings window, and of none that *)
(* has gone (PanelWrapper.tsx, openConfigPanels).                          *)
THEOREM WindowIsKnown == ASSUME Card!CardFits PROVE CardRuns => []Card!WindowKnown
<1>1. CardInv => Card!WindowKnown BY DEF CardInv
<1> QED BY <1>1, CardKept, PTL

(* A card asks for one copy, one move or one deletion at a time, as long   *)
(* as it is there (PanelWrapper.tsx, actionBusy).                          *)
THEOREM OneCopyAsked == ASSUME Card!CardFits PROVE CardRuns => []Card!OneCopy
<1>1. CardInv => Card!OneCopy BY DEF CardInv, CopyInv
<1> QED BY <1>1, CardKept, PTL

(* With nothing under way a panel is as its row has it, unless two changes *)
(* overlapped or one failed (PanelWrapper.tsx, the optimistic pin and what *)
(* the answers bring).                                                     *)
THEOREM RowStaysInStep == ASSUME Card!CardFits PROVE CardRuns => []Card!RowInStep
<1>1. CardInv => Card!RowInStep BY DEF CardInv, RowInv, Card!RowInStep
<1> QED BY <1>1, CardKept, PTL

(* Only the server's step answers a request where it stands.               *)
LEMMA OthersMoveNothing ==
  ASSUME Card!CardFits, CardInv, Card!Next, NEW i \in DOMAIN calls, calls[i].answer = <<>>, i \in DOMAIN calls', calls'[i].answer # <<>>,
         ~Card!Serve(i)
  PROVE  server' = server
<1>2. ASSUME NEW on, Card!handleToggle(on) PROVE server' = server BY <1>2 DEF Card!handleToggle
<1>3. ASSUME NEW j \in DOMAIN calls, Card!Serve(j) PROVE FALSE
  <2>1. j # i BY <1>3
  <2>2. calls'[i] = calls[i] BY <1>3, <2>1, CardServed DEF CardInv
  <2> QED BY <2>2
<1>4. ASSUME NEW j \in DOMAIN calls, Card!Answer(j) PROVE server' = server BY <1>4 DEF Card!Answer
<1>5. ASSUME NEW t, Card!saveTitle(t) PROVE server' = server BY <1>5 DEF Card!saveTitle
<1>6. ASSUME NEW c, NEW b, Card!saveConfig(c, b) PROVE server' = server BY <1>6 DEF Card!saveConfig
<1>7. ASSUME NEW k, NEW d, Card!Copy(k, d) PROVE server' = server BY <1>7 DEF Card!Copy
<1>8. CASE \/ Card!EditTitle \/ Card!handleOpenConfig \/ Card!Scrolled \/ Card!TakePick \/ Card!CloseConfig \/ Card!handlePickTopic
           \/ Card!updateMetaPinned \/ Card!OpenCopy \/ Card!CloseCopy \/ Card!handleDelete
  BY <1>8 DEF Card!EditTitle, Card!handleOpenConfig, Card!Scrolled, Card!TakePick, Card!CloseConfig, Card!handlePickTopic, Card!updateMetaPinned, Card!OpenCopy,
              Card!CloseCopy, Card!handleDelete
<1> QED BY <1>2, <1>3, <1>4, <1>5, <1>6, <1>7, <1>8 DEF Card!Next

(* A change of a panel moves no more of its row than it is about, unless   *)
(* two overlapped or one failed: the save carries the pin, and the pin the *)
(* configuration (PanelWrapper.tsx, the bodies of its requests).           *)
THEOREM ChangesMoveTheirOwn == ASSUME Card!CardFits PROVE CardRuns => [][Card!MovesOwnKeys]_(Card!vars)
<1>1. ASSUME CardInv, [Card!Next]_(Card!vars) PROVE Card!MovesOwnKeys \/ UNCHANGED Card!vars
  <2> SUFFICES ASSUME Card!Next, ~meddled, ~failed, NEW i \in DOMAIN calls, i \in DOMAIN calls', calls[i].answer = <<>>,
                      calls'[i].answer # <<>>, NEW k \in DOMAIN server
               PROVE  k \in Card!Owned(calls[i].kind) \/ server'[k] = server[k]
    BY <1>1 DEF Card!MovesOwnKeys
  <2>1. CASE Card!Serve(i)
    <3>1. calls[i] \in CardCalls /\ server' = Card!Merged(server, calls[i]) BY <1>1, <2>1, CardServed DEF CardInv
    <3>2. CASE calls[i].kind \in Card!Changes
      <4>1. panel = server /\ Carries(calls[i]) BY <1>1, <3>2 DEF CardInv, RowInv
      <4> QED BY <1>1, <3>1, <4>1, MergedMoves DEF CardInv
    <3>3. CASE calls[i].kind \notin Card!Changes BY <3>1, <3>3 DEF Card!Merged, Card!Changes
    <3> QED BY <3>2, <3>3
  <2>2. CASE ~Card!Serve(i) BY <1>1, <2>2, OthersMoveNothing
  <2> QED BY <2>1, <2>2
<1> QED BY <1>1, CardKept, PTL DEF CardRuns


-----------------------------------------------------------------------------
(***************************************************************************)
(* The page of the automations (Automations).  That a row is hidden only   *)
(* where the page says so is a counting argument: the sort gives every row *)
(* one place of the table (Places).                                        *)
(***************************************************************************)
(* The number of elements, as the page counts them. *)
LEMMA JobsCounts == \A S : Jobs!Cardinality(S) = Cardinality(S) /\ (Jobs!IsFiniteSet(S) <=> IsFiniteSet(S))
BY DEF Jobs!Cardinality, Jobs!IsFiniteSet, Cardinality, IsFiniteSet

(* Its runs, with no fairness assumed. *)
JobRuns == Jobs!Init /\ [][Jobs!Next]_(Jobs!vars)

-----------------------------------------------------------------------------
(* A strict order on a finite set gives every element its place.           *)
LEMMA Places ==
  ASSUME NEW S, IsFiniteSet(S), NEW R,
         \A i \in S : <<i, i>> \notin R,
         \A i, j \in S : i # j => <<i, j>> \in R \/ <<j, i>> \in R,
         \A i, j, k \in S : <<i, j>> \in R /\ <<j, k>> \in R => <<i, k>> \in R
  PROVE  /\ \A n \in 1..Cardinality(S) : \E j \in S : Cardinality({i \in S : <<i, j>> \in R}) = n - 1
         /\ \A j \in S : Cardinality({i \in S : <<i, j>> \in R}) + 1 \in 1..Cardinality(S)
         /\ \A j, k \in S : Cardinality({i \in S : <<i, j>> \in R}) = Cardinality({i \in S : <<i, k>> \in R}) => j = k
<1>1. PICK n \in Nat : n = Cardinality(S) BY FS_CardinalityType
<1>2. PICK f : f = [j \in S |-> Cardinality({i \in S : <<i, j>> \in R})] OBVIOUS
<1>3. ASSUME NEW j \in S PROVE f[j] \in 0..(n - 1)
  <2>1. PICK B : B = {i \in S : <<i, j>> \in R} OBVIOUS
  <2>2. B \in SUBSET (S \ {j}) BY <2>1
  <2>3. IsFiniteSet(S \ {j}) /\ Cardinality(S \ {j}) = n - 1 BY <1>1, FS_RemoveElement
  <2>4. IsFiniteSet(B) /\ Cardinality(B) <= n - 1 BY <2>2, <2>3, FS_Subset
  <2>5. Cardinality(B) \in Nat BY <2>4, FS_CardinalityType
  <2>6. f[j] = Cardinality(B) BY <1>2, <2>1
  <2> QED BY <2>4, <2>5, <2>6
<1>4. ASSUME NEW j \in S, NEW k \in S, <<j, k>> \in R PROVE f[j] # f[k]
  <2>1. PICK B : B = {i \in S : <<i, j>> \in R} OBVIOUS
  <2>2. PICK C : C = {i \in S : <<i, k>> \in R} OBVIOUS
  <2>3. B \in SUBSET C /\ j \in C /\ j \notin B BY <1>4, <2>1, <2>2
  <2>4. IsFiniteSet(C) BY <2>2, FS_Subset
  <2>5. Cardinality(B) # Cardinality(C) BY <2>3, <2>4, FS_Subset
  <2>6. f[j] = Cardinality(B) /\ f[k] = Cardinality(C) BY <1>2, <2>1, <2>2
  <2> QED BY <2>5, <2>6
<1>5. \A j, k \in S : f[j] = f[k] => j = k BY <1>4
<1>6. f \in Injection(S, 0..(n - 1))
  <2>1. f \in [S -> 0..(n - 1)] BY <1>2, <1>3
  <2> QED BY <1>5, <2>1 DEF Injection, IsInjective
<1>7. IsFiniteSet(0..(n - 1)) /\ Cardinality(0..(n - 1)) = n
  <2>1. 0 \in Int /\ n - 1 \in Int OBVIOUS
  <2>2. IsFiniteSet(0..(n - 1)) /\ Cardinality(0..(n - 1)) = IF 0 > n - 1 THEN 0 ELSE (n - 1) - 0 + 1 BY ONLY <2>1, FS_Interval
  <2> QED BY <2>2
<1>8. f \in Surjection(S, 0..(n - 1)) BY <1>1, <1>6, <1>7, FS_Injection
<1>9. \A t \in 0..(n - 1) : \E j \in S : f[j] = t BY <1>8 DEF Surjection
<1>10. ASSUME NEW m \in 1..n PROVE \E j \in S : f[j] = m - 1
  <2>1. m - 1 \in 0..(n - 1) OBVIOUS
  <2> QED BY <1>9, <2>1
<1>11. ASSUME NEW j \in S PROVE f[j] + 1 \in 1..n BY <1>3
<1>12. \A j \in S : f[j] = Cardinality({i \in S : <<i, j>> \in R}) BY <1>2
<1> QED BY <1>1, <1>5, <1>10, <1>11, <1>12

LEMMA DefaultsDomain ==
  DOMAIN Jobs!DEFAULT_FILTERS = {"status", "type", "automation", "topic", "payload", "qos", "retain", "triggerExecution", "timing", "broker"}
BY DEF Jobs!DEFAULT_FILTERS

LEMMA ColumnsAre ==
  Jobs!Columns = {"status", "type", "automation", "topic", "payload", "trigger_execution", "broker"}
<1>1. \A f \in DOMAIN Jobs!DEFAULT_FILTERS : Jobs!Column(f) = IF f \in {"payload", "qos", "retain"} THEN "payload"
          ELSE IF f \in {"triggerExecution", "timing"} THEN "trigger_execution" ELSE f
  BY DEF Jobs!Column
<1>2. /\ Jobs!Column("status") = "status" /\ Jobs!Column("type") = "type" /\ Jobs!Column("automation") = "automation" /\ Jobs!Column("topic") = "topic"
      /\ Jobs!Column("payload") = "payload" /\ Jobs!Column("timing") = "trigger_execution" /\ Jobs!Column("broker") = "broker"
  BY DEF Jobs!Column
<1>3. Jobs!Columns \subseteq {"status", "type", "automation", "topic", "payload", "trigger_execution", "broker"}
  BY <1>1, DefaultsDomain DEF Jobs!Columns
<1>4. {"status", "type", "automation", "topic", "payload", "trigger_execution", "broker"} \subseteq Jobs!Columns
  BY <1>2, DefaultsDomain DEF Jobs!Columns
<1> QED BY <1>3, <1>4

LEMMA SortValues ==
  ASSUME Jobs!JobsFit, NEW j \in JobIds, sort.key \in Jobs!Columns
  PROVE  Jobs!SortValue(j) \in Int
<1>1. /\ Attr[j].trigger \in Int /\ Attr[j].automation \in Int /\ Attr[j].topic \in Int /\ Attr[j].payload \in Int
      /\ Attr[j].broker \in Int
  BY DEF Jobs!JobsFit
<1>2. CASE sort.key \in {"status", "type", "trigger_execution"} BY <1>1, <1>2 DEF Jobs!SortValue
<1>3. CASE sort.key = "automation" BY <1>1, <1>3 DEF Jobs!SortValue
<1>4. CASE sort.key = "topic" BY <1>1, <1>4 DEF Jobs!SortValue
<1>5. CASE sort.key = "payload" BY <1>1, <1>5 DEF Jobs!SortValue
<1>6. CASE sort.key = "broker" BY <1>1, <1>6 DEF Jobs!SortValue
<1> QED BY <1>2, <1>3, <1>4, <1>5, <1>6, ColumnsAre

(* The order of the rows is one.                                           *)
LEMMA RowsInOrder ==
  ASSUME Jobs!JobsFit, sort.key \in Jobs!Columns \cup {"none"}
  PROVE  /\ \A i \in JobIds : ~Jobs!Before(i, i)
         /\ \A i, j \in JobIds : i # j => Jobs!Before(i, j) \/ Jobs!Before(j, i)
         /\ \A i, j, k \in JobIds : Jobs!Before(i, j) /\ Jobs!Before(j, k) => Jobs!Before(i, k)
<1>1. PICK s : s = (IF sort.order = "asc" THEN 1 ELSE -1) OBVIOUS
<1>2. PICK v : v = [j \in JobIds |-> IF sort.key = "none" THEN 0 ELSE Jobs!SortValue(j)] OBVIOUS
<1>3. \A j \in JobIds : v[j] \in Int /\ Attr[j].at \in Int
  BY <1>2, SortValues DEF Jobs!JobsFit
<1>4. \A i, j \in JobIds : Jobs!Before(i, j) <=> (v[i] - v[j]) * s < 0 \/ ((v[i] - v[j]) * s = 0 /\ Attr[i].at < Attr[j].at)
  <2> SUFFICES ASSUME NEW i \in JobIds, NEW j \in JobIds
               PROVE  Jobs!Before(i, j) <=> (v[i] - v[j]) * s < 0 \/ ((v[i] - v[j]) * s = 0 /\ Attr[i].at < Attr[j].at)
    OBVIOUS
  <2>1. CASE sort.key = "none"
    <3>1. v[i] = 0 /\ v[j] = 0 BY <1>2, <2>1
    <3>2. (v[i] - v[j]) * s = 0 BY <1>1, <3>1
    <3> QED BY <2>1, <3>2 DEF Jobs!Before
  <2>2. CASE sort.key # "none"
    <3>1. v[i] = Jobs!SortValue(i) /\ v[j] = Jobs!SortValue(j) BY <1>2, <2>2
    <3> QED BY <1>1, <2>2, <3>1 DEF Jobs!Before
  <2> QED BY <2>1, <2>2
<1>5. CASE s = 1
  <2>1. \A i, j \in JobIds : Jobs!Before(i, j) <=> v[i] < v[j] \/ (v[i] = v[j] /\ Attr[i].at < Attr[j].at) BY <1>3, <1>4, <1>5
  <2> QED BY <1>3, <2>1 DEF Jobs!JobsFit
<1>6. CASE s = -1
  <2>1. \A i, j \in JobIds : Jobs!Before(i, j) <=> v[j] < v[i] \/ (v[i] = v[j] /\ Attr[i].at < Attr[j].at) BY <1>3, <1>4, <1>6
  <2> QED BY <1>3, <2>1 DEF Jobs!JobsFit
<1> QED BY <1>1, <1>5, <1>6

(* Sorting loses no row and adds none.                                     *)
LEMMA SortKeepsRows ==
  ASSUME Jobs!JobsFit, sort.key \in Jobs!Columns \cup {"none"}
  PROVE  Jobs!ToSet(Jobs!displayedJobs) = Jobs!Shown
<1>1. Jobs!Shown \subseteq JobIds BY DEF Jobs!Shown, Jobs!Present
<1>2. IsFiniteSet(Jobs!Shown) BY <1>1, FS_Subset, JobsCounts DEF Jobs!JobsFit
<1>3. PICK R : R = {p \in Jobs!Shown \X Jobs!Shown : Jobs!Before(p[1], p[2])} OBVIOUS
<1>4. \A i, j \in Jobs!Shown : <<i, j>> \in R <=> Jobs!Before(i, j) BY <1>3
<1>5. /\ \A i \in Jobs!Shown : <<i, i>> \notin R
      /\ \A i, j \in Jobs!Shown : i # j => <<i, j>> \in R \/ <<j, i>> \in R
      /\ \A i, j, k \in Jobs!Shown : <<i, j>> \in R /\ <<j, k>> \in R => <<i, k>> \in R
  BY <1>1, <1>4, RowsInOrder
<1>6. /\ \A n \in 1..Cardinality(Jobs!Shown) : \E j \in Jobs!Shown : Cardinality({i \in Jobs!Shown : <<i, j>> \in R}) = n - 1
      /\ \A j \in Jobs!Shown : Cardinality({i \in Jobs!Shown : <<i, j>> \in R}) + 1 \in 1..Cardinality(Jobs!Shown)
      /\ \A j, k \in Jobs!Shown :
            Cardinality({i \in Jobs!Shown : <<i, j>> \in R}) = Cardinality({i \in Jobs!Shown : <<i, k>> \in R}) => j = k
  BY <1>2, <1>5, Places
<1>7. \A j \in Jobs!Shown : {i \in Jobs!Shown : <<i, j>> \in R} = {i \in Jobs!Shown : Jobs!Before(i, j)} BY <1>4
<1>8. PICK g : g = [j \in Jobs!Shown |-> Cardinality({i \in Jobs!Shown : Jobs!Before(i, j)})] OBVIOUS
<1>9. /\ \A n \in 1..Cardinality(Jobs!Shown) : \E j \in Jobs!Shown : g[j] = n - 1
      /\ \A j \in Jobs!Shown : g[j] + 1 \in 1..Cardinality(Jobs!Shown)
      /\ \A j, k \in Jobs!Shown : g[j] = g[k] => j = k
  BY <1>6, <1>7, <1>8
<1>10. \A j \in Jobs!Shown : g[j] \in Nat
  <2> SUFFICES ASSUME NEW j \in Jobs!Shown PROVE g[j] \in Nat OBVIOUS
  <2>1. {i \in Jobs!Shown : Jobs!Before(i, j)} \in SUBSET Jobs!Shown OBVIOUS
  <2> QED BY <1>2, <1>8, <2>1, FS_Subset, FS_CardinalityType
<1>11. PICK d : d = Jobs!displayedJobs OBVIOUS
<1>12. /\ DOMAIN d = 1..Cardinality(Jobs!Shown)
       /\ \A n \in 1..Cardinality(Jobs!Shown) : d[n] = CHOOSE j \in Jobs!Shown : g[j] = n - 1
  <2>1. g = [j \in Jobs!Shown |-> Jobs!Cardinality({i \in Jobs!Shown : Jobs!Before(i, j)})] BY <1>8, JobsCounts
  <2>2. /\ DOMAIN d = 1..Jobs!Cardinality(Jobs!Shown)
        /\ \A n \in 1..Jobs!Cardinality(Jobs!Shown) : d[n] = CHOOSE j \in Jobs!Shown : g[j] = n - 1
    BY <1>11, <2>1 DEF Jobs!displayedJobs
  <2> QED BY <2>2, JobsCounts
<1>13. \A n \in 1..Cardinality(Jobs!Shown) : d[n] \in Jobs!Shown /\ g[d[n]] = n - 1 BY <1>9, <1>12
<1>14. ASSUME NEW j \in Jobs!Shown PROVE \E n \in DOMAIN d : d[n] = j
  <2>1. g[j] + 1 \in 1..Cardinality(Jobs!Shown) /\ (g[j] + 1) - 1 = g[j] BY <1>9, <1>10
  <2>2. d[g[j] + 1] \in Jobs!Shown /\ g[d[g[j] + 1]] = g[j] BY <1>13, <2>1
  <2>3. d[g[j] + 1] = j BY <1>9, <2>2
  <2> QED BY <1>12, <2>1, <2>3
<1> QED BY <1>11, <1>12, <1>13, <1>14 DEF Jobs!ToSet
-----------------------------------------------------------------------------
(* The state a step may be in.                                             *)
Entries == [there : BOOLEAN, enabled : BOOLEAN, next : BOOLEAN]
JobAnswers == {Jobs!Unserved, Jobs!Failed} \cup {<<s>> : s \in [JobIds -> Entries]}
JobCalls == [kind : {"load"}, job : {Jobs!All}, was : BOOLEAN, step : {"get"}, ans : JobAnswers]
           \cup [kind : {"toggle"}, job : JobIds, was : BOOLEAN, step : {"put", "get"}, ans : JobAnswers]
Fields == {"status", "type", "automation", "topic", "payload", "qos", "retain", "triggerExecution", "timing", "broker"}
Filtered == /\ DOMAIN filters = Fields
            /\ filters["status"] \in {Jobs!All, "active", "paused"} /\ filters["qos"] \in 0..Jobs!AnyQos
            /\ filters["payload"] \in {0} \cup SearchTexts /\ filters["topic"] \in {0} \cup SearchTexts
            /\ searchQuery \in {0} \cup SearchTexts
            /\ sort.key \in Jobs!Columns \cup {"none"} /\ activeFilterCol \in Jobs!Columns \cup {"none"}
JobListed == /\ server \in [JobIds -> Entries] /\ jobs \in [JobIds -> Entries] /\ \A j \in JobIds : server[j] \in Jobs!States(j)
             /\ dashboards \subseteq Dashboards /\ calls \subseteq JobCalls
             /\ loading \in BOOLEAN /\ toast \in BOOLEAN /\ crossed \in BOOLEAN
(* A fetch that was asked for by hand, or at first, lights the button.     *)
LoadIsShown == \A c \in calls : c.kind = "load" => loading
(* Unless requests crossed: what an answer holds is what the server has, a *)
(* switch that has not been taken is the only difference of its row, and   *)
(* of the others none is there that differs; and none differs at all       *)
(* unless a list is on its way.                                            *)
Pending(j) == \E c \in calls : c.kind = "toggle" /\ c.job = j
JobAsked(j) == \E c \in calls : c.kind = "toggle" /\ c.job = j /\ c.step = "put"
Fetching == \E c \in calls : c.step = "get"
AnswersFresh == \A c \in calls : c.ans \notin {Jobs!Unserved, Jobs!Failed} => c.ans[1] = server
SwitchOnly == \A c \in calls : c.step = "put" =>
    jobs[c.job].there /\ [jobs[c.job] EXCEPT !.enabled = c.was] = server[c.job]
OthersAgree == \A j \in JobIds : jobs[j].there /\ ~Pending(j) => jobs[j] = server[j]
AllAgree == ~Fetching => \A j \in JobIds : JobAsked(j) \/ jobs[j] = server[j]
InStepInv == ~crossed => AnswersFresh /\ SwitchOnly /\ OthersAgree /\ AllAgree
(* An answer to a switch that could not be taken is an error.              *)
PutAnswers == \A c \in calls : c.step = "put" => c.ans \in {Jobs!Unserved, Jobs!Failed}
JobInv == Filtered /\ JobListed /\ Jobs!SwitchHeld /\ LoadIsShown /\ PutAnswers /\ InStepInv

-----------------------------------------------------------------------------
LEMMA JobForms ==
  ASSUME NEW j
  PROVE  Jobs!States(j) \subseteq Entries /\ \A e \in Jobs!States(j) : e.enabled => e.there /\ (Jobs!Scheduled(j) => e.next)
<1>1. PICK s \in BOOLEAN : s = Jobs!Scheduled(j) BY DEF Jobs!Scheduled
<1>2. PICK a : a = [there |-> TRUE, enabled |-> TRUE, next |-> s] OBVIOUS
<1>3. PICK b : b = [there |-> TRUE, enabled |-> FALSE, next |-> FALSE] OBVIOUS
<1>4. PICK d : d = [there |-> FALSE, enabled |-> FALSE, next |-> FALSE] OBVIOUS
<1>5. Jobs!States(j) = {d, a, b} BY <1>1, <1>2, <1>3, <1>4 DEF Jobs!States, Jobs!Job, Jobs!NoJob
<1>6. a \in Entries /\ b \in Entries /\ d \in Entries BY <1>2, <1>3, <1>4 DEF Entries
<1>7. a.there /\ a.next = s /\ ~b.enabled /\ ~d.enabled BY <1>2, <1>3, <1>4
<1>8. ASSUME NEW e \in Jobs!States(j) PROVE e.enabled => e.there /\ (s => e.next) BY <1>5, <1>7
<1> QED BY <1>1, <1>5, <1>6, <1>8

LEMMA JobCallForms ==
  ASSUME NEW c \in JobCalls
  PROVE  /\ c.kind \in {"load", "toggle"} /\ c.was \in BOOLEAN /\ c.step \in {"put", "get"} /\ c.ans \in JobAnswers
         /\ c.kind = "load" => c.job = Jobs!All /\ c.step = "get"
         /\ c.kind = "toggle" => c.job \in JobIds
         /\ \A a \in JobAnswers : [c EXCEPT !.ans = a] \in JobCalls
         /\ c.kind = "toggle" => [c EXCEPT !.step = "get"] \in JobCalls
<1>1. CASE c \in [kind : {"load"}, job : {Jobs!All}, was : BOOLEAN, step : {"get"}, ans : JobAnswers] BY <1>1 DEF JobCalls
<1>2. CASE c \in [kind : {"toggle"}, job : JobIds, was : BOOLEAN, step : {"put", "get"}, ans : JobAnswers] BY <1>2 DEF JobCalls
<1> QED BY <1>1, <1>2 DEF JobCalls

LEMMA JobCallFields ==
  ASSUME NEW c \in JobCalls, NEW a, NEW t
  PROVE  /\ [c EXCEPT !.ans = a].kind = c.kind /\ [c EXCEPT !.ans = a].job = c.job /\ [c EXCEPT !.ans = a].was = c.was
         /\ [c EXCEPT !.ans = a].step = c.step /\ [c EXCEPT !.ans = a].ans = a
         /\ [c EXCEPT !.step = t].kind = c.kind /\ [c EXCEPT !.step = t].job = c.job /\ [c EXCEPT !.step = t].was = c.was
         /\ [c EXCEPT !.step = t].step = t /\ [c EXCEPT !.step = t].ans = c.ans
<1>1. CASE c \in [kind : {"load"}, job : {Jobs!All}, was : BOOLEAN, step : {"get"}, ans : JobAnswers] BY <1>1
<1>2. CASE c \in [kind : {"toggle"}, job : JobIds, was : BOOLEAN, step : {"put", "get"}, ans : JobAnswers] BY <1>2
<1> QED BY <1>1, <1>2 DEF JobCalls

LEMMA AnswerForms ==
  ASSUME NEW a \in JobAnswers, a \notin {Jobs!Unserved, Jobs!Failed}
  PROVE  a[1] \in [JobIds -> Entries] /\ a = <<a[1]>>
BY DEF JobAnswers

LEMMA EntryTurned ==
  ASSUME NEW r \in Entries, NEW b
  PROVE  /\ b \in BOOLEAN => [r EXCEPT !.enabled = b] \in Entries
         /\ [r EXCEPT !.enabled = b].there = r.there
         /\ [r EXCEPT !.enabled = b].enabled = b
         /\ [r EXCEPT !.enabled = r.enabled] = r
         /\ [[r EXCEPT !.enabled = b] EXCEPT !.enabled = r.enabled] = r
         /\ r.enabled \in BOOLEAN /\ (~r.enabled) \in BOOLEAN
<1>1. PICK t \in BOOLEAN, e \in BOOLEAN, n \in BOOLEAN : r = [there |-> t, enabled |-> e, next |-> n] BY DEF Entries
<1>2. r.enabled = e /\ r.there = t /\ r.next = n BY <1>1
<1>3. [r EXCEPT !.enabled = b] = [there |-> t, enabled |-> b, next |-> n] BY <1>1
<1>4. [r EXCEPT !.enabled = b].there = t /\ [r EXCEPT !.enabled = b].enabled = b BY <1>3
<1>5. [r EXCEPT !.enabled = e] = [there |-> t, enabled |-> e, next |-> n] BY <1>1
<1>6. [r EXCEPT !.enabled = r.enabled] = r BY <1>1, <1>2, <1>5
<1>7. [[r EXCEPT !.enabled = b] EXCEPT !.enabled = e] = [there |-> t, enabled |-> e, next |-> n]
  <2>1. PICK s : s = [there |-> t, enabled |-> b, next |-> n] OBVIOUS
  <2>2. [s EXCEPT !.enabled = e] = [there |-> t, enabled |-> e, next |-> n] BY <2>1
  <2> QED BY <1>3, <2>1, <2>2
<1>8. [[r EXCEPT !.enabled = b] EXCEPT !.enabled = r.enabled] = r BY <1>1, <1>2, <1>7
<1>9. b \in BOOLEAN => [r EXCEPT !.enabled = b] \in Entries BY <1>3 DEF Entries
<1>10. r.enabled \in BOOLEAN BY <1>2
<1>11. (~r.enabled) \in BOOLEAN OBVIOUS
<1> QED BY <1>2, <1>4, <1>6, <1>8, <1>9, <1>10, <1>11

LEMMA NoJobsForm == Jobs!NoJob \in Entries /\ Jobs!NoJobs \in [JobIds -> Entries] /\ Jobs!Unserved # Jobs!Failed
BY DEF Jobs!NoJob, Jobs!NoJobs, Entries, Jobs!Unserved, Jobs!Failed

LEMMA ServedIsAnswer ==
  ASSUME NEW s \in [JobIds -> Entries]
  PROVE  <<s>> \in JobAnswers /\ <<s>> # Jobs!Unserved /\ <<s>> # Jobs!Failed /\ <<s>>[1] = s
<1>1. Len(<<s>>) = 1 /\ Len(<<Jobs!NoJobs, Jobs!NoJobs>>) = 2 /\ Len(<<>>) = 0 OBVIOUS
<1> QED BY <1>1 DEF JobAnswers, Jobs!Unserved, Jobs!Failed

LEMMA JobInit == ASSUME Jobs!JobsFit, Jobs!Init PROVE JobInv
<1>1. calls = {Jobs!Load} /\ jobs = Jobs!NoJobs /\ dashboards = {} /\ loading = TRUE /\ togglingIds = {} /\ toast = FALSE /\ crossed = FALSE
  BY DEF Jobs!Init
<1>2. Jobs!Load \in JobCalls /\ Jobs!Load.kind = "load" /\ Jobs!Load.step = "get" /\ Jobs!Load.job = Jobs!All /\ Jobs!Load.ans = Jobs!Unserved
  BY DEF Jobs!Load, JobCalls, JobAnswers
<1>3. Filtered
  <2>1. filters = Jobs!DEFAULT_FILTERS /\ searchQuery = 0 /\ sort.key = "none" /\ activeFilterCol = "none" BY DEF Jobs!Init
  <2>2. DOMAIN filters = Fields BY <2>1, DefaultsDomain DEF Fields
  <2>3. filters["status"] = Jobs!All /\ filters["qos"] = Jobs!AnyQos /\ filters["payload"] = 0 /\ filters["topic"] = 0
    BY <2>1 DEF Jobs!DEFAULT_FILTERS
  <2> QED BY <2>1, <2>2, <2>3 DEF Filtered, Jobs!AnyQos
<1>4. server \in [JobIds -> UNION {Jobs!States(j) : j \in JobIds}] BY DEF Jobs!Init
<1>11. \A j \in JobIds : server[j] \in Jobs!States(j) BY DEF Jobs!Init
<1>5. server \in [JobIds -> Entries]
  <2>1. \A j \in JobIds : server[j] \in Entries BY <1>11, JobForms
  <2>2. \E X : server \in [JobIds -> X] BY ONLY <1>4
  <2> QED BY <2>1, <2>2
<1>6. JobListed BY <1>1, <1>2, <1>11, <1>5, NoJobsForm DEF JobListed
<1>7. Jobs!SwitchHeld BY <1>1, <1>2 DEF Jobs!SwitchHeld
<1>8. LoadIsShown /\ PutAnswers BY <1>1, <1>2 DEF LoadIsShown, PutAnswers
<1>9. \A j \in JobIds : ~jobs[j].there BY <1>1 DEF Jobs!NoJobs, Jobs!NoJob
<1>10. InStepInv BY <1>1, <1>2, <1>9 DEF InStepInv, AnswersFresh, SwitchOnly, OthersAgree, AllAgree, Fetching
<1> QED BY <1>3, <1>6, <1>7, <1>8, <1>10 DEF JobInv

(* What a step leaves alone it keeps.                                      *)
LEMMA ListSame ==
  ASSUME JobListed, Jobs!SwitchHeld, LoadIsShown, PutAnswers, InStepInv,
         UNCHANGED <<server, jobs, dashboards, loading, togglingIds, calls, crossed>>, toast' \in BOOLEAN
  PROVE  JobListed' /\ Jobs!SwitchHeld' /\ LoadIsShown' /\ PutAnswers' /\ InStepInv'
<1>1. JobListed' BY DEF JobListed
<1>2. Jobs!SwitchHeld' BY DEF Jobs!SwitchHeld
<1>3. LoadIsShown' /\ PutAnswers' BY DEF LoadIsShown, PutAnswers
<1>4. InStepInv' BY DEF InStepInv, AnswersFresh, SwitchOnly, OthersAgree, AllAgree, Fetching, JobAsked, Pending
<1> QED BY <1>1, <1>2, <1>3, <1>4

LEMMA FilterSame ==
  ASSUME Filtered, UNCHANGED Jobs!view
  PROVE  Filtered'
BY DEF Filtered, Jobs!view

LEMMA FilterValues ==
  ASSUME NEW f \in Fields, NEW v \in Jobs!Options(f)
  PROVE  /\ f = "status" => v \in {Jobs!All, "active", "paused"}
         /\ f = "qos" => v \in 0..Jobs!AnyQos
         /\ f = "retain" => v \in BOOLEAN
         /\ f \in {"payload", "topic"} => v \in {0} \cup SearchTexts
<1>1. CASE f = "status" BY <1>1 DEF Jobs!Options, Jobs!Column
<1>2. CASE f = "qos" BY <1>2 DEF Jobs!Options, Jobs!Column, Jobs!PayloadOptions
<1>3. CASE f = "payload" BY <1>3 DEF Jobs!Options, Jobs!Column, Jobs!PayloadOptions
<1>4. CASE f = "topic" BY <1>4 DEF Jobs!Options, Jobs!Column
<1>5. CASE f = "retain" BY <1>5 DEF Jobs!Options, Jobs!Column, Jobs!PayloadOptions
<1> QED BY <1>1, <1>2, <1>3, <1>4, <1>5

(* The steps that only change how the list is looked at.                   *)
LEMMA ViewStep ==
  ASSUME JobInv, Jobs!JobsFit,
         \/ \E d \in {Jobs!All} \cup Dashboards : Jobs!SelectDashboard(d)
         \/ \E q \in {0} \cup SearchTexts : Jobs!Search(q)
         \/ \E col \in Used : Jobs!handleSort(col) \/ Jobs!handleOpenFilter(col) \/ Jobs!ClearColumn(col)
         \/ \E f \in DOMAIN filters : \E v \in Jobs!Options(f) : Jobs!SetFilter(f, v)
         \/ Jobs!handleCloseFilter \/ Jobs!handleResetAllFilters
  PROVE  JobInv'
<1>0. Filtered /\ Used \subseteq Jobs!Columns BY DEF JobInv, Jobs!JobsFit
<1>1. ASSUME Jobs!SetView, Filtered' PROVE JobInv'
  <2>1. toast' \in BOOLEAN BY <1>1 DEF JobInv, JobListed, Jobs!SetView
  <2> QED BY <1>1, <2>1, ListSame DEF JobInv, Jobs!SetView
<1>2. ASSUME NEW d, Jobs!SelectDashboard(d) PROVE JobInv' BY <1>0, <1>1, <1>2 DEF Jobs!SelectDashboard, Filtered
<1>3. ASSUME NEW q \in {0} \cup SearchTexts, Jobs!Search(q) PROVE JobInv' BY <1>0, <1>1, <1>3 DEF Jobs!Search, Filtered
<1>4. ASSUME NEW col \in Used, Jobs!handleSort(col) PROVE JobInv'
  <2>1. sort'.key \in Jobs!Columns \cup {"none"} BY <1>0, <1>4 DEF Jobs!handleSort
  <2> QED BY <1>0, <1>1, <1>4, <2>1 DEF Jobs!handleSort, Filtered
<1>5. ASSUME NEW col \in Used, Jobs!handleOpenFilter(col) PROVE JobInv'
  BY <1>0, <1>1, <1>5 DEF Jobs!handleOpenFilter, Filtered
<1>6. ASSUME NEW col \in Used, Jobs!ClearColumn(col) PROVE JobInv'
  <2>1. filters' = [f \in DOMAIN filters |-> IF Jobs!Column(f) = col THEN Jobs!DEFAULT_FILTERS[f] ELSE filters[f]] BY <1>6 DEF Jobs!ClearColumn
  <2>2. /\ DOMAIN filters' = Fields /\ \A f \in Fields : filters'[f] \in {Jobs!DEFAULT_FILTERS[f], filters[f]}
    BY <1>0, <2>1 DEF Filtered
  <2>3. /\ Jobs!DEFAULT_FILTERS["status"] = Jobs!All /\ Jobs!DEFAULT_FILTERS["qos"] = Jobs!AnyQos /\ Jobs!DEFAULT_FILTERS["payload"] = 0
        /\ Jobs!DEFAULT_FILTERS["topic"] = 0
    BY DEF Jobs!DEFAULT_FILTERS
  <2>4. UNCHANGED <<searchQuery, sort, activeFilterCol>> BY <1>6 DEF Jobs!ClearColumn
  <2>5. Filtered' BY <1>0, <2>2, <2>3, <2>4 DEF Filtered, Fields, Jobs!AnyQos
  <2> QED BY <1>1, <1>6, <2>5 DEF Jobs!ClearColumn
<1>7. ASSUME NEW f \in DOMAIN filters, NEW v \in Jobs!Options(f), Jobs!SetFilter(f, v) PROVE JobInv'
  <2>1. f \in Fields /\ filters' = [filters EXCEPT ![f] = v] BY <1>0, <1>7 DEF Jobs!SetFilter, Filtered
  <2>2. DOMAIN filters' = Fields /\ \A g \in Fields : filters'[g] = IF g = f THEN v ELSE filters[g]
    BY <1>0, <2>1 DEF Filtered
  <2>3. UNCHANGED <<searchQuery, sort, activeFilterCol>> BY <1>7 DEF Jobs!SetFilter
  <2>4. /\ f = "status" => v \in {Jobs!All, "active", "paused"}
        /\ f = "qos" => v \in 0..Jobs!AnyQos
        /\ f = "retain" => v \in BOOLEAN
        /\ f \in {"payload", "topic"} => v \in {0} \cup SearchTexts
    BY <2>1, FilterValues
  <2>5. Filtered' BY <1>0, <2>2, <2>3, <2>4 DEF Filtered, Fields
  <2> QED BY <1>1, <1>7, <2>5 DEF Jobs!SetFilter
<1>8. CASE Jobs!handleCloseFilter BY <1>0, <1>1, <1>8 DEF Jobs!handleCloseFilter, Filtered
<1>9. CASE Jobs!handleResetAllFilters
  <2>1. filters' = Jobs!DEFAULT_FILTERS /\ searchQuery' = 0 /\ UNCHANGED <<sort, activeFilterCol>> BY <1>9 DEF Jobs!handleResetAllFilters
  <2>2. DOMAIN filters' = Fields BY <2>1, DefaultsDomain DEF Fields
  <2>3. filters'["status"] = Jobs!All /\ filters'["qos"] = Jobs!AnyQos /\ filters'["payload"] = 0 /\ filters'["topic"] = 0
    BY <2>1 DEF Jobs!DEFAULT_FILTERS
  <2>4. Filtered' BY <1>0, <2>1, <2>2, <2>3 DEF Filtered, Jobs!AnyQos
  <2> QED BY <1>1, <1>9, <2>4 DEF Jobs!handleResetAllFilters
<1> QED BY <1>2, <1>3, <1>4, <1>5, <1>6, <1>7, <1>8, <1>9
-----------------------------------------------------------------------------
(* The requests.                                                           *)
LEMMA Replaced ==
  ASSUME JobInv, NEW c \in calls, NEW d \in JobCalls, d.job = c.job, d.kind = c.kind,
         calls' = (calls \ {c}) \cup {d}, UNCHANGED <<togglingIds, loading>>
  PROVE  Jobs!SwitchHeld' /\ LoadIsShown' /\ calls' \subseteq JobCalls /\ \A j : Pending(j)' <=> Pending(j)
<1>1. calls \subseteq JobCalls BY DEF JobInv, JobListed
<1>2. \A x \in calls' : (x \in calls /\ x # c) \/ x = d OBVIOUS
<1>3. \A x \in calls : x = c \/ x \in calls' OBVIOUS
<1>4. d \in calls' OBVIOUS
<1>5. ASSUME NEW x \in calls', NEW y \in calls', x.job = y.job PROVE x = y
  BY <1>2, <1>5 DEF JobInv, Jobs!SwitchHeld
<1>6. {x.job : x \in {e \in calls' : e.kind = "toggle"}} = {x.job : x \in {e \in calls : e.kind = "toggle"}}
  <2>1. ASSUME NEW x \in calls', x.kind = "toggle" PROVE \E y \in calls : y.kind = "toggle" /\ y.job = x.job BY <1>2, <2>1
  <2>2. ASSUME NEW x \in calls, x.kind = "toggle" PROVE \E y \in calls' : y.kind = "toggle" /\ y.job = x.job
    BY <1>3, <1>4, <2>2
  <2> QED BY <2>1, <2>2
<1>7. Jobs!SwitchHeld' BY <1>5, <1>6 DEF JobInv, Jobs!SwitchHeld
<1>8. LoadIsShown' BY <1>2 DEF JobInv, LoadIsShown
<1>9. ASSUME NEW j PROVE Pending(j)' <=> Pending(j) BY <1>2, <1>3, <1>4 DEF Pending
<1> QED BY <1>1, <1>7, <1>8, <1>9

LEMMA PutServed == ASSUME JobInv, Jobs!JobsFit, NEW c \in calls, Jobs!ServePut(c) PROVE JobInv'
<1>1. c \in JobCalls /\ c.step = "put" /\ c.ans = Jobs!Unserved BY DEF JobInv, JobListed, Jobs!ServePut
<1>2. c.kind = "toggle" /\ c.job \in JobIds /\ c.was \in BOOLEAN BY <1>1, JobCallForms
<1>3. UNCHANGED <<jobs, dashboards, loading, togglingIds, toast, Jobs!view>> /\ crossed' = (crossed \/ calls # {c})
  BY DEF Jobs!ServePut
<1>4. Filtered' BY <1>3, FilterSame DEF JobInv
<1>5. CASE server[c.job].there /\ server' = [server EXCEPT ![c.job] = Jobs!Job(c.job, ~c.was)]
             /\ calls' = (calls \ {c}) \cup {[c EXCEPT !.step = "get"]}
  <2>1. PICK d : d = [c EXCEPT !.step = "get"] OBVIOUS
  <2>2. /\ d \in JobCalls /\ d.kind = c.kind /\ d.job = c.job /\ d.step = "get" /\ d.ans = Jobs!Unserved
        /\ calls' = (calls \ {c}) \cup {d}
    <3>1. d \in JobCalls BY ONLY <1>1, <1>2, <2>1, JobCallForms
    <3>2. d.kind = c.kind /\ d.job = c.job /\ d.step = "get" /\ d.ans = c.ans BY ONLY <1>1, <2>1, JobCallFields
    <3> QED BY ONLY <1>1, <1>5, <2>1, <3>1, <3>2
  <2>3. Jobs!SwitchHeld' /\ LoadIsShown' /\ calls' \subseteq JobCalls BY <1>3, <2>2, Replaced
  <2>4. Jobs!Job(c.job, ~c.was) \in Jobs!States(c.job) BY <1>2 DEF Jobs!States
  <2>5. server' \in [JobIds -> Entries] /\ \A j \in JobIds : server'[j] \in Jobs!States(j)
    BY <1>2, <1>5, <2>4, JobForms DEF JobInv, JobListed
  <2>6. JobListed' BY <1>3, <2>3, <2>5 DEF JobInv, JobListed
  <2>7. PutAnswers' BY <2>2 DEF JobInv, PutAnswers
  <2>8. InStepInv'
    <3> SUFFICES ASSUME ~crossed, calls = {c} PROVE InStepInv' BY <1>3 DEF InStepInv
    <3>1. calls' = {d} BY <2>2
    <3>2. AnswersFresh' BY <2>2, <3>1 DEF AnswersFresh
    <3>3. SwitchOnly' BY <2>2, <3>1 DEF SwitchOnly
    <3>4. AllAgree' BY <2>2, <3>1 DEF AllAgree, Fetching
    <3>5. OthersAgree'
      <4> SUFFICES ASSUME NEW j \in JobIds, jobs'[j].there, ~Pending(j)' PROVE jobs'[j] = server'[j] BY DEF OthersAgree
      <4>1. j # c.job BY <1>2, <2>2, <3>1 DEF Pending
      <4>2. ~Pending(j) BY <4>1 DEF Pending
      <4>3. server'[j] = server[j] BY <1>5, <4>1 DEF JobInv, JobListed
      <4> QED BY <1>3, <4>2, <4>3 DEF JobInv, InStepInv, OthersAgree
    <3> QED BY <3>2, <3>3, <3>4, <3>5 DEF InStepInv
  <2> QED BY <1>4, <2>3, <2>6, <2>7, <2>8 DEF JobInv
<1>6. CASE calls' = (calls \ {c}) \cup {[c EXCEPT !.ans = Jobs!Failed]} /\ UNCHANGED server
  <2>1. PICK d : d = [c EXCEPT !.ans = Jobs!Failed] OBVIOUS
  <2>2. /\ d \in JobCalls /\ d.kind = c.kind /\ d.job = c.job /\ d.was = c.was /\ d.step = "put" /\ d.ans = Jobs!Failed
        /\ calls' = (calls \ {c}) \cup {d}
    <3>1. Jobs!Failed \in JobAnswers BY DEF JobAnswers
    <3>2. d \in JobCalls BY ONLY <1>1, <2>1, <3>1, JobCallForms
    <3>3. d.kind = c.kind /\ d.job = c.job /\ d.was = c.was /\ d.step = c.step /\ d.ans = Jobs!Failed
      BY ONLY <1>1, <2>1, JobCallFields
    <3> QED BY ONLY <1>1, <1>6, <2>1, <3>2, <3>3
  <2>3. Jobs!SwitchHeld' /\ LoadIsShown' /\ calls' \subseteq JobCalls /\ \A j : Pending(j)' <=> Pending(j) BY <1>3, <2>2, Replaced
  <2>4. JobListed' BY <1>3, <1>6, <2>3 DEF JobInv, JobListed
  <2>5. PutAnswers' BY <2>2 DEF JobInv, PutAnswers
  <2>6. InStepInv'
    <3> SUFFICES ASSUME ~crossed, calls = {c} PROVE InStepInv' BY <1>3 DEF InStepInv
    <3>0. AnswersFresh /\ SwitchOnly /\ OthersAgree /\ AllAgree BY DEF JobInv, InStepInv
    <3>1. calls' = {d} BY <2>2
    <3>2. AnswersFresh' BY <2>2, <3>1 DEF AnswersFresh
    <3>3. SwitchOnly' BY <1>1, <1>3, <1>6, <2>2, <3>0, <3>1 DEF SwitchOnly
    <3>4. ~Fetching BY <1>1 DEF Fetching
    <3>5. \A j \in JobIds : JobAsked(j) => JobAsked(j)' BY <1>1, <1>2, <2>2, <3>1 DEF JobAsked
    <3>6. AllAgree' BY <1>3, <1>6, <3>0, <3>4, <3>5 DEF AllAgree
    <3>7. OthersAgree' BY <1>3, <1>6, <2>3, <3>0 DEF OthersAgree
    <3> QED BY <3>2, <3>3, <3>6, <3>7 DEF InStepInv
  <2> QED BY <1>4, <2>3, <2>4, <2>5, <2>6 DEF JobInv
<1> QED BY <1>5, <1>6 DEF Jobs!ServePut

LEMMA ListServed == ASSUME JobInv, Jobs!JobsFit, NEW c \in calls, Jobs!ServeList(c) PROVE JobInv'
<1>1. c \in JobCalls /\ c.step = "get" /\ c.ans = Jobs!Unserved BY DEF JobInv, JobListed, Jobs!ServeList
<1>2. UNCHANGED <<server, jobs, dashboards, loading, togglingIds, toast, Jobs!view, crossed>> BY DEF Jobs!ServeList
<1>3. PICK a \in {<<server>>, Jobs!Failed} : calls' = (calls \ {c}) \cup {[c EXCEPT !.ans = a]} BY DEF Jobs!ServeList
<1>4. a \in JobAnswers BY ServedIsAnswer DEF JobInv, JobListed, JobAnswers
<1>5. PICK d : d = [c EXCEPT !.ans = a] OBVIOUS
<1>6. /\ d \in JobCalls /\ d.kind = c.kind /\ d.job = c.job /\ d.was = c.was /\ d.step = "get" /\ d.ans = a
      /\ calls' = (calls \ {c}) \cup {d}
  <2>1. d \in JobCalls BY ONLY <1>1, <1>4, <1>5, JobCallForms
  <2>2. d.kind = c.kind /\ d.job = c.job /\ d.was = c.was /\ d.step = c.step /\ d.ans = a
    BY ONLY <1>1, <1>5, JobCallFields
  <2> QED BY ONLY <1>1, <1>3, <1>5, <2>1, <2>2
<1>7. Jobs!SwitchHeld' /\ LoadIsShown' /\ calls' \subseteq JobCalls /\ \A j : Pending(j)' <=> Pending(j) BY <1>2, <1>6, Replaced
<1>8. Filtered' BY <1>2, FilterSame DEF JobInv
<1>9. JobListed' BY <1>2, <1>7 DEF JobInv, JobListed
<1>10. PutAnswers' BY <1>6 DEF JobInv, PutAnswers
<1>11. InStepInv'
  <2> SUFFICES ASSUME ~crossed PROVE InStepInv' BY <1>2 DEF InStepInv
  <2>0. AnswersFresh /\ SwitchOnly /\ OthersAgree /\ AllAgree BY DEF JobInv, InStepInv
  <2>1. a # Jobs!Failed => a[1] = server BY <1>3
  <2>2. AnswersFresh' BY <1>2, <1>6, <2>0, <2>1 DEF AnswersFresh
  <2>3. SwitchOnly' BY <1>2, <1>6, <2>0 DEF SwitchOnly
  <2>4. OthersAgree' BY <1>2, <1>7, <2>0 DEF OthersAgree
  <2>5. Fetching' BY <1>6 DEF Fetching
  <2>6. AllAgree' BY <2>5 DEF AllAgree
  <2> QED BY <2>2, <2>3, <2>4, <2>6 DEF InStepInv
<1> QED BY <1>7, <1>8, <1>9, <1>10, <1>11 DEF JobInv

LEMMA RefreshStep == ASSUME JobInv, Jobs!JobsFit, Jobs!handleRefresh PROVE JobInv'
<1>1. /\ ~loading /\ loading' = TRUE /\ calls' = calls \cup {Jobs!Load}
      /\ UNCHANGED <<server, jobs, dashboards, togglingIds, toast, Jobs!view, crossed>>
  BY DEF Jobs!handleRefresh
<1>2. Jobs!Load \in JobCalls /\ Jobs!Load.kind = "load" /\ Jobs!Load.step = "get" /\ Jobs!Load.job = Jobs!All /\ Jobs!Load.ans = Jobs!Unserved
  BY DEF Jobs!Load, JobCalls, JobAnswers
<1>3. \A c \in calls : c \in JobCalls /\ c.kind = "toggle" /\ c.job # Jobs!All
  <2>1. \A c \in calls : c \in JobCalls BY DEF JobInv, JobListed
  <2>2. \A c \in calls : c.kind # "load" BY <1>1 DEF JobInv, LoadIsShown
  <2>3. \A c \in calls : c.kind = "toggle" /\ c.job \in JobIds BY <2>1, <2>2, JobCallForms
  <2> QED BY <2>1, <2>3 DEF Jobs!JobsFit
<1>4. Filtered' BY <1>1, FilterSame DEF JobInv
<1>5. JobListed' BY <1>1, <1>2 DEF JobInv, JobListed
<1>6. Jobs!SwitchHeld'
  <2>1. {d \in calls' : d.kind = "toggle"} = {d \in calls : d.kind = "toggle"} BY <1>1, <1>2
  <2>2. \A c, d \in calls' : c.job = d.job => c = d BY <1>1, <1>2, <1>3 DEF JobInv, Jobs!SwitchHeld
  <2> QED BY <1>1, <2>1, <2>2 DEF JobInv, Jobs!SwitchHeld
<1>7. LoadIsShown' BY <1>1 DEF LoadIsShown
<1>8. PutAnswers' BY <1>1, <1>2 DEF JobInv, PutAnswers
<1>9. InStepInv'
  <2> SUFFICES ASSUME ~crossed PROVE InStepInv' BY <1>1 DEF InStepInv
  <2>0. AnswersFresh /\ SwitchOnly /\ OthersAgree BY DEF JobInv, InStepInv
  <2>1. AnswersFresh' /\ SwitchOnly' BY <1>1, <1>2, <2>0 DEF AnswersFresh, SwitchOnly
  <2>2. \A j \in JobIds : Pending(j) => Pending(j)' BY <1>1 DEF Pending
  <2>3. OthersAgree' BY <1>1, <2>0, <2>2 DEF OthersAgree
  <2>4. AllAgree' BY <1>1, <1>2 DEF AllAgree, Fetching
  <2> QED BY <2>1, <2>3, <2>4 DEF InStepInv
<1> QED BY <1>4, <1>5, <1>6, <1>7, <1>8, <1>9 DEF JobInv

LEMMA JobToggleStep == ASSUME JobInv, Jobs!JobsFit, NEW j \in JobIds, Jobs!handleToggle(j) PROVE JobInv'
<1>1. PICK c : c = [kind |-> "toggle", job |-> j, was |-> jobs[j].enabled, step |-> "put", ans |-> Jobs!Unserved] OBVIOUS
<1>2. /\ j \notin togglingIds /\ togglingIds' = togglingIds \cup {j} /\ jobs' = [jobs EXCEPT ![j].enabled = ~@]
      /\ calls' = calls \cup {c} /\ UNCHANGED <<server, dashboards, loading, toast, Jobs!view, crossed>>
  BY <1>1 DEF Jobs!handleToggle, Jobs!SwitchShown
<1>3. jobs[j].there
  <2>1. j \in Jobs!ToSet(Jobs!displayedJobs) BY DEF Jobs!handleToggle, Jobs!Rows
  <2>2. j \in Jobs!Shown BY <2>1, SortKeepsRows DEF JobInv, Filtered
  <2> QED BY <2>2 DEF Jobs!Shown, Jobs!Present
<1>4. jobs[j] \in Entries BY DEF JobInv, JobListed
<1>5. jobs[j].enabled \in BOOLEAN BY <1>4 DEF Entries
<1>6. PICK e : e = [jobs[j] EXCEPT !.enabled = ~jobs[j].enabled] OBVIOUS
<1>7. /\ e \in Entries /\ e.there = jobs[j].there /\ [e EXCEPT !.enabled = jobs[j].enabled] = jobs[j]
  BY <1>4, <1>6, EntryTurned
<1>8. jobs' = [jobs EXCEPT ![j] = e] BY <1>2, <1>6
<1>9. /\ jobs' \in [JobIds -> Entries] /\ jobs'[j] = e /\ \A i \in JobIds : i # j => jobs'[i] = jobs[i]
  BY <1>7, <1>8 DEF JobInv, JobListed
<1>10. c \in JobCalls /\ c.kind = "toggle" /\ c.job = j /\ c.step = "put" /\ c.ans = Jobs!Unserved /\ c.was = jobs[j].enabled
  BY <1>1, <1>5 DEF JobCalls, JobAnswers
<1>11. \A d \in calls : d \in JobCalls /\ d.job # j
  <2>1. \A d \in calls : d \in JobCalls BY DEF JobInv, JobListed
  <2>2. \A d \in calls : d.kind = "toggle" => d.job \in togglingIds BY DEF JobInv, Jobs!SwitchHeld
  <2>3. \A d \in calls : d.kind # "toggle" => d.job = Jobs!All BY <2>1, JobCallForms
  <2> QED BY <1>2, <2>1, <2>2, <2>3 DEF Jobs!JobsFit
<1>12. Filtered' BY <1>2, FilterSame DEF JobInv
<1>13. JobListed' BY <1>2, <1>9, <1>10 DEF JobInv, JobListed
<1>14. Jobs!SwitchHeld'
  <2>1. {d.job : d \in {x \in calls' : x.kind = "toggle"}} = {d.job : d \in {x \in calls : x.kind = "toggle"}} \cup {j}
    BY <1>2, <1>10
  <2>2. \A a, b \in calls' : a.job = b.job => a = b BY <1>2, <1>10, <1>11 DEF JobInv, Jobs!SwitchHeld
  <2> QED BY <1>2, <2>1, <2>2 DEF JobInv, Jobs!SwitchHeld
<1>15. LoadIsShown' BY <1>2, <1>10 DEF JobInv, LoadIsShown
<1>16. PutAnswers' BY <1>2, <1>10 DEF JobInv, PutAnswers
<1>17. InStepInv'
  <2> SUFFICES ASSUME ~crossed PROVE InStepInv' BY <1>2 DEF InStepInv
  <2>0. AnswersFresh /\ SwitchOnly /\ OthersAgree /\ AllAgree BY DEF JobInv, InStepInv
  <2>1. ~Pending(j) BY <1>11 DEF Pending
  <2>2. jobs[j] = server[j] BY <1>3, <2>0, <2>1 DEF OthersAgree
  <2>3. AnswersFresh' BY <1>2, <1>10, <2>0 DEF AnswersFresh
  <2>4. SwitchOnly'
    <3> SUFFICES ASSUME NEW d \in calls', d.step = "put"
                 PROVE  jobs'[d.job].there /\ [jobs'[d.job] EXCEPT !.enabled = d.was] = server'[d.job]
      BY DEF SwitchOnly
    <3>1. CASE d = c BY <1>2, <1>3, <1>7, <1>9, <1>10, <2>2, <3>1
    <3>2. CASE d # c
      <4>1. d \in calls /\ d.job # j BY <1>2, <1>11, <3>2
      <4>2. d.job \in JobIds BY <1>11, <4>1, JobCallForms
      <4>3. jobs'[d.job] = jobs[d.job] BY <1>9, <4>1, <4>2
      <4> QED BY <1>2, <2>0, <4>1, <4>3 DEF SwitchOnly
    <3> QED BY <3>1, <3>2
  <2>5. \A i \in JobIds : (Pending(i) => Pending(i)') /\ (JobAsked(i) => JobAsked(i)') BY <1>2 DEF Pending, JobAsked
  <2>6. Pending(j)' /\ JobAsked(j)' BY <1>2, <1>10 DEF Pending, JobAsked
  <2>7. OthersAgree' BY <1>2, <1>9, <2>0, <2>5, <2>6 DEF OthersAgree
  <2>8. Fetching' <=> Fetching BY <1>2, <1>10 DEF Fetching
  <2>9. AllAgree' BY <1>2, <1>9, <2>0, <2>5, <2>6, <2>8 DEF AllAgree
  <2> QED BY <2>3, <2>4, <2>7, <2>9 DEF InStepInv
<1> QED BY <1>12, <1>13, <1>14, <1>15, <1>16, <1>17 DEF JobInv
LEMMA JobAnsweredStep == ASSUME JobInv, Jobs!JobsFit, NEW c \in calls, Jobs!Answered(c) PROVE JobInv'
<1>1. c \in JobCalls /\ c.ans # Jobs!Unserved /\ c.ans \in JobAnswers BY JobCallForms DEF JobInv, JobListed, Jobs!Answered
<1>2. /\ calls' = calls \ {c} /\ jobs' = Jobs!NewJobs(c) /\ togglingIds' = togglingIds \ {c.job}
      /\ UNCHANGED <<server, Jobs!view, acts>>
  BY DEF Jobs!Answered
<1>3. loading' = (loading /\ c.kind # "load") BY DEF Jobs!Answered, Jobs!StillLoading
<1>4. crossed' = (crossed \/ (c.ans = Jobs!Failed /\ c.step = "get")) BY DEF Jobs!Answered
<1>5. c.ans # Jobs!Failed => c.ans[1] \in [JobIds -> Entries] /\ jobs' = c.ans[1] BY <1>1, <1>2, AnswerForms DEF Jobs!NewJobs
<1>6. c.ans = Jobs!Failed => jobs' = (IF c.kind = "toggle" /\ jobs[c.job].there
                                      THEN [jobs EXCEPT ![c.job] = [jobs[c.job] EXCEPT !.enabled = c.was]] ELSE jobs)
  BY <1>2 DEF Jobs!NewJobs
<1>7. jobs \in [JobIds -> Entries] /\ server \in [JobIds -> Entries] /\ \A d \in calls : d \in JobCalls BY DEF JobInv, JobListed
<1>8. jobs' \in [JobIds -> Entries]
  <2>1. CASE c.ans # Jobs!Failed BY <1>5, <2>1
  <2>2. CASE c.ans = Jobs!Failed
    <3>1. CASE c.kind = "toggle" /\ jobs[c.job].there
      <4>1. c.job \in JobIds /\ c.was \in BOOLEAN BY <1>1, <3>1, JobCallForms
      <4>2. [jobs[c.job] EXCEPT !.enabled = c.was] \in Entries BY <1>7, <4>1, EntryTurned
      <4> QED BY <1>6, <1>7, <2>2, <3>1, <4>2
    <3>2. CASE ~(c.kind = "toggle" /\ jobs[c.job].there) BY <1>6, <1>7, <2>2, <3>2
    <3> QED BY <3>1, <3>2
  <2> QED BY <2>1, <2>2
<1>9. Filtered' BY <1>2, FilterSame DEF JobInv
<1>10. JobListed'
  <2>1. dashboards' \in {dashboards, Dashboards} BY DEF Jobs!Answered
  <2>2. toast' \in BOOLEAN BY DEF Jobs!Answered
  <2>3. loading' \in BOOLEAN /\ crossed' \in BOOLEAN BY <1>3, <1>4
  <2>4. calls' \subseteq JobCalls BY <1>2, <1>7
  <2>5. \A j \in JobIds : server'[j] \in Jobs!States(j) BY <1>2 DEF JobInv, JobListed
  <2> QED BY <1>2, <1>7, <1>8, <2>1, <2>2, <2>3, <2>4, <2>5 DEF JobInv, JobListed
<1>11. Jobs!SwitchHeld'
  <2>1. \A d, e \in calls : d.job = e.job => d = e BY DEF JobInv, Jobs!SwitchHeld
  <2>2. togglingIds = {d.job : d \in {x \in calls : x.kind = "toggle"}} BY DEF JobInv, Jobs!SwitchHeld
  <2>3. \A d \in calls' : d \in calls /\ d # c BY <1>2
  <2>4. \A d \in calls : d # c => d \in calls' /\ d.job # c.job BY <1>2, <2>1
  <2>5. togglingIds' = {d.job : d \in {x \in calls' : x.kind = "toggle"}} BY <1>2, <2>2, <2>3, <2>4
  <2> QED BY <2>1, <2>3, <2>5 DEF Jobs!SwitchHeld
<1>12. LoadIsShown'
  <2> SUFFICES ASSUME NEW d \in calls', d.kind = "load" PROVE loading' BY DEF LoadIsShown
  <2>1. d \in calls /\ d # c /\ loading BY <1>2 DEF JobInv, LoadIsShown
  <2>2. d.job # c.job BY <2>1 DEF JobInv, Jobs!SwitchHeld
  <2>3. c.kind # "load" BY <1>1, <1>7, <2>1, <2>2, JobCallForms
  <2> QED BY <1>3, <2>1, <2>3
<1>13. PutAnswers' BY <1>2 DEF JobInv, PutAnswers
<1>14. InStepInv'
  <2> SUFFICES ASSUME ~crossed' PROVE InStepInv' BY DEF InStepInv
  <2>0. ~crossed /\ ~(c.ans = Jobs!Failed /\ c.step = "get") BY <1>4
  <2>1. AnswersFresh /\ SwitchOnly /\ OthersAgree /\ AllAgree BY <2>0 DEF JobInv, InStepInv
  <2>2. AnswersFresh' BY <1>2, <2>1 DEF AnswersFresh
  <2>3. CASE c.ans # Jobs!Failed
    <3>1. jobs' = server BY <1>1, <1>5, <2>1, <2>3 DEF AnswersFresh
    <3>2. OthersAgree' /\ AllAgree' BY <1>2, <3>1 DEF OthersAgree, AllAgree
    <3>3. SwitchOnly'
      <4> SUFFICES ASSUME NEW d \in calls', d.step = "put"
                   PROVE  server[d.job].there /\ [server[d.job] EXCEPT !.enabled = d.was] = server[d.job]
        BY <1>2, <3>1 DEF SwitchOnly
      <4>1. d \in calls /\ d \in JobCalls BY <1>2, <1>7
      <4>2. d.job \in JobIds BY <4>1, JobCallForms
      <4>3. jobs[d.job].there /\ [jobs[d.job] EXCEPT !.enabled = d.was] = server[d.job] BY <2>1, <4>1 DEF SwitchOnly
      <4>4. jobs[d.job] \in Entries /\ server[d.job] \in Entries BY <1>7, <4>2
      <4>7. PICK r : r = jobs[d.job] OBVIOUS
      <4>8. r \in Entries => [r EXCEPT !.enabled = d.was].there = r.there BY EntryTurned
      <4>9. r \in Entries => [r EXCEPT !.enabled = d.was].enabled = d.was BY EntryTurned
      <4>5. server[d.job].there = jobs[d.job].there /\ server[d.job].enabled = d.was BY <4>3, <4>4, <4>7, <4>8, <4>9
      <4>6. [server[d.job] EXCEPT !.enabled = server[d.job].enabled] = server[d.job] BY <4>4, EntryTurned
      <4> QED BY <4>3, <4>5, <4>6
    <3> QED BY <2>2, <3>2, <3>3 DEF InStepInv
  <2>4. CASE c.ans = Jobs!Failed
    <3>1. c.step = "put" BY <1>1, <2>0, <2>4, JobCallForms
    <3>2. c.kind = "toggle" /\ c.job \in JobIds BY <1>1, <3>1, JobCallForms
    <3>3. jobs[c.job].there /\ [jobs[c.job] EXCEPT !.enabled = c.was] = server[c.job] BY <2>1, <3>1 DEF SwitchOnly
    <3>4. jobs' = [jobs EXCEPT ![c.job] = server[c.job]] BY <1>6, <2>4, <3>2, <3>3
    <3>5. jobs'[c.job] = server[c.job] /\ \A j \in JobIds : j # c.job => jobs'[j] = jobs[j] BY <1>7, <3>2, <3>4
    <3>6. \A d \in calls' : d \in calls /\ d.job # c.job BY <1>2 DEF JobInv, Jobs!SwitchHeld
    <3>7. SwitchOnly'
      <4> SUFFICES ASSUME NEW d \in calls', d.step = "put"
                   PROVE  jobs'[d.job].there /\ [jobs'[d.job] EXCEPT !.enabled = d.was] = server[d.job]
        BY <1>2 DEF SwitchOnly
      <4>1. d \in calls /\ d.job # c.job /\ d.job \in JobIds BY <1>7, <3>6, JobCallForms
      <4>2. jobs'[d.job] = jobs[d.job] BY <3>5, <4>1
      <4> QED BY <2>1, <4>1, <4>2 DEF SwitchOnly
    <3>8. \A j \in JobIds : j # c.job => (Pending(j) => Pending(j)') /\ (JobAsked(j) => JobAsked(j)') BY <1>2 DEF Pending, JobAsked
    <3>9. OthersAgree' BY <1>2, <2>1, <3>5, <3>8 DEF OthersAgree
    <3>10. Fetching => Fetching' BY <1>2, <3>1 DEF Fetching
    <3>11. AllAgree' BY <1>2, <2>1, <3>5, <3>8, <3>10 DEF AllAgree
    <3> QED BY <2>2, <3>7, <3>9, <3>11 DEF InStepInv
  <2> QED BY <2>3, <2>4
<1> QED BY <1>9, <1>10, <1>11, <1>12, <1>13, <1>14 DEF JobInv

LEMMA ElsewhereStep == ASSUME JobInv, Jobs!JobsFit, NEW j \in JobIds, Jobs!Elsewhere(j) PROVE JobInv'
<1>1. /\ crossed' = TRUE /\ UNCHANGED <<jobs, dashboards, loading, togglingIds, toast, Jobs!view, calls>>
      /\ \E s \in Jobs!States(j) : server' = [server EXCEPT ![j] = s]
  BY DEF Jobs!Elsewhere
<1>2. Filtered' BY <1>1, FilterSame DEF JobInv
<1>3. PICK s \in Jobs!States(j) : server' = [server EXCEPT ![j] = s] BY <1>1
<1>4. s \in Entries BY JobForms
<1>5. server' \in [JobIds -> Entries] /\ \A i \in JobIds : server'[i] \in Jobs!States(i) BY <1>3, <1>4 DEF JobInv, JobListed
<1>6. JobListed' BY <1>1, <1>5 DEF JobInv, JobListed
<1>7. Jobs!SwitchHeld' /\ LoadIsShown' /\ PutAnswers' BY <1>1 DEF JobInv, Jobs!SwitchHeld, LoadIsShown, PutAnswers
<1>8. InStepInv' BY <1>1 DEF InStepInv
<1> QED BY <1>2, <1>6, <1>7, <1>8 DEF JobInv

(* No step of the page leaves what the proofs rest on.                     *)
LEMMA JobsKept == ASSUME Jobs!JobsFit, JobInv, [Jobs!Next]_(Jobs!vars) PROVE JobInv'
<1>1. CASE UNCHANGED Jobs!vars
  <2>1. Filtered' BY <1>1, FilterSame DEF JobInv, Jobs!vars
  <2>2. toast' \in BOOLEAN BY <1>1 DEF JobInv, JobListed, Jobs!vars
  <2> QED BY <1>1, <2>1, <2>2, ListSame DEF JobInv, Jobs!vars
<1>2. CASE Jobs!DismissToast
  <2>1. Filtered' BY <1>2, FilterSame DEF JobInv, Jobs!DismissToast
  <2>2. toast' \in BOOLEAN BY <1>2 DEF Jobs!DismissToast
  <2> QED BY <1>2, <2>1, <2>2, ListSame DEF JobInv, Jobs!DismissToast
<1>3. CASE \/ \E d \in {Jobs!All} \cup Dashboards : Jobs!SelectDashboard(d)
           \/ \E q \in {0} \cup SearchTexts : Jobs!Search(q)
           \/ \E col \in Used : Jobs!handleSort(col) \/ Jobs!handleOpenFilter(col) \/ Jobs!ClearColumn(col)
           \/ \E f \in DOMAIN filters : \E v \in Jobs!Options(f) : Jobs!SetFilter(f, v)
           \/ Jobs!handleCloseFilter \/ Jobs!handleResetAllFilters
  BY <1>3, ViewStep
<1>4. CASE Jobs!handleRefresh BY <1>4, RefreshStep
<1>5. ASSUME NEW j \in JobIds, Jobs!handleToggle(j) \/ Jobs!Elsewhere(j) PROVE JobInv' BY <1>5, JobToggleStep, ElsewhereStep
<1>6. ASSUME NEW c \in calls, Jobs!ServePut(c) \/ Jobs!ServeList(c) \/ Jobs!Answered(c) PROVE JobInv'
  BY <1>6, PutServed, ListServed, JobAnsweredStep
<1> QED BY <1>1, <1>2, <1>3, <1>4, <1>5, <1>6 DEF Jobs!Next

(* The invariant behind the automations page: what a call carries is what  *)
(* the switch stood for when it was asked, and what a list brings is what  *)
(* the server held (AutomationsPage.tsx).                                  *)
THEOREM JobsInvariant == ASSUME Jobs!JobsFit PROVE JobRuns => []JobInv
<1>1. Jobs!Init => JobInv BY JobInit
<1>2. JobInv /\ [Jobs!Next]_(Jobs!vars) => JobInv' BY JobsKept
<1> QED BY <1>1, <1>2, PTL DEF JobRuns

(* The automations page keeps values of their types, and has one call      *)
(* under way for each switch that waits (AutomationsPage.tsx,              *)
(* togglingIds).                                                           *)
THEOREM JobsTyped == ASSUME Jobs!JobsFit PROVE JobRuns => []Jobs!TypeOK
<1>1. ASSUME JobInv PROVE Jobs!TypeOK
  <2>1. \A j \in JobIds : {server[j], jobs[j]} \subseteq [there: BOOLEAN, enabled: BOOLEAN, next: BOOLEAN]
    BY <1>1 DEF JobInv, JobListed, Entries
  <2>2. dashboards \subseteq Dashboards /\ {loading, toast, crossed} \subseteq BOOLEAN BY <1>1 DEF JobInv, JobListed
  <2>3. /\ activeFilterCol \in Jobs!Columns \union {"none"} /\ filters.status \in {Jobs!All, "active", "paused"}
        /\ filters.qos \in 0..Jobs!AnyQos /\ {filters.payload, filters.topic, searchQuery} \subseteq {0} \union SearchTexts
    BY <1>1 DEF JobInv, Filtered
  <2> QED BY <2>1, <2>2, <2>3 DEF Jobs!TypeOK
<1> QED BY <1>1, JobsInvariant, PTL

(* A switch takes one request at a time, whatever lists are loaded         *)
(* meanwhile (AutomationsPage.tsx, togglingIds).                           *)
THEOREM SwitchIsHeld == ASSUME Jobs!JobsFit PROVE JobRuns => []Jobs!SwitchHeld
<1>1. JobInv => Jobs!SwitchHeld BY DEF JobInv
<1> QED BY <1>1, JobsInvariant, PTL

(* With nothing in flight the switches of the automations stand as the     *)
(* server has them, unless requests crossed or one failed                  *)
(* (AutomationsPage.tsx, handleToggle and the refresh).                    *)
THEOREM SwitchesAreInStep == ASSUME Jobs!JobsFit PROVE JobRuns => []Jobs!SwitchesInStep
<1>1. ASSUME JobInv PROVE Jobs!SwitchesInStep
  <2> SUFFICES ASSUME calls = {}, ~crossed, NEW j \in JobIds
               PROVE  jobs[j] = server[j] /\ (Jobs!Execution(j) = "paused") = ~server[j].enabled
    BY DEF Jobs!SwitchesInStep
  <2>1. AllAgree /\ ~Fetching /\ ~JobAsked(j) BY <1>1 DEF JobInv, InStepInv, Fetching, JobAsked
  <2>2. jobs[j] = server[j] BY <2>1 DEF AllAgree
  <2>3. server[j] \in Jobs!States(j) BY <1>1 DEF JobInv, JobListed
  <2>4. server[j].enabled => server[j].there /\ (Jobs!Scheduled(j) => server[j].next) BY <2>3, JobForms
  <2>5. server[j].enabled \in BOOLEAN BY <2>3, JobForms DEF Entries
  <2>6. (Jobs!Execution(j) = "paused") <=> ~server[j].enabled BY <2>2, <2>4 DEF Jobs!Execution
  <2> QED BY <2>2, <2>6
<1> QED BY <1>1, JobsInvariant, PTL

(* The filter by retained messages is a switch.                            *)
RetainTyped == filters["retain"] \in BOOLEAN
LEMMA RetainKept == ASSUME JobInv, RetainTyped, [Jobs!Next]_(Jobs!vars) PROVE RetainTyped'
<1>1. CASE filters' = filters BY <1>1 DEF RetainTyped
<1>2. ASSUME NEW f \in Fields, NEW v \in Jobs!Options(f), Jobs!SetFilter(f, v) PROVE RetainTyped'
  <2>1. filters' = [filters EXCEPT ![f] = v] BY <1>2 DEF Jobs!SetFilter
  <2>2. "retain" \in DOMAIN filters BY DEF JobInv, Filtered, Fields
  <2>3. CASE f = "retain"
    <3>1. v \in BOOLEAN BY <2>3, FilterValues
    <3>2. filters'["retain"] = v BY <2>1, <2>2, <2>3
    <3> QED BY <3>1, <3>2 DEF RetainTyped
  <2>4. CASE f # "retain"
    <3>1. filters'["retain"] = filters["retain"] BY <2>1, <2>2, <2>4
    <3> QED BY <3>1 DEF RetainTyped
  <2> QED BY <2>3, <2>4
<1>3. Jobs!DEFAULT_FILTERS["retain"] \in BOOLEAN BY DEF Jobs!DEFAULT_FILTERS
<1>4. ASSUME NEW col, Jobs!ClearColumn(col) PROVE RetainTyped'
  <2>1. filters' = [f \in DOMAIN filters |-> IF Jobs!Column(f) = col THEN Jobs!DEFAULT_FILTERS[f] ELSE filters[f]]
    BY <1>4 DEF Jobs!ClearColumn
  <2>2. "retain" \in DOMAIN filters BY DEF JobInv, Filtered, Fields
  <2>3. filters'["retain"] = Jobs!DEFAULT_FILTERS["retain"] \/ filters'["retain"] = filters["retain"] BY <2>1, <2>2
  <2> QED BY <1>3, <2>3 DEF RetainTyped
<1>5. CASE Jobs!handleResetAllFilters
  <2>1. filters' = Jobs!DEFAULT_FILTERS BY <1>5 DEF Jobs!handleResetAllFilters
  <2> QED BY <1>3, <2>1 DEF RetainTyped
<1>6. \/ filters' = filters \/ Jobs!handleResetAllFilters \/ \E col \in Used : Jobs!ClearColumn(col)
      \/ \E f \in Fields : \E v \in Jobs!Options(f) : Jobs!SetFilter(f, v)
  <2>1. DOMAIN filters = Fields BY DEF JobInv, Filtered
  <2> QED BY <2>1 DEF Jobs!Next, Jobs!vars, Jobs!view, Jobs!SelectDashboard, Jobs!Search, Jobs!handleSort, Jobs!handleOpenFilter, Jobs!handleCloseFilter,
          Jobs!handleRefresh, Jobs!DismissToast, Jobs!handleToggle, Jobs!Elsewhere, Jobs!ServePut, Jobs!ServeList, Jobs!Answered
<1> QED BY <1>1, <1>2, <1>4, <1>5, <1>6

(* What is retained in a row is a switch, on or off. *)
THEOREM RetainIsSwitch == ASSUME Jobs!JobsFit PROVE JobRuns => []RetainTyped
<1>1. Jobs!Init => RetainTyped
  <2>1. Jobs!DEFAULT_FILTERS["retain"] \in BOOLEAN BY DEF Jobs!DEFAULT_FILTERS
  <2>2. Jobs!Init => filters = Jobs!DEFAULT_FILTERS BY DEF Jobs!Init
  <2> QED BY <2>1, <2>2 DEF RetainTyped
<1>2. JobInv /\ RetainTyped /\ [Jobs!Next]_(Jobs!vars) => RetainTyped' BY RetainKept
<1> QED BY <1>1, <1>2, JobsInvariant, PTL DEF JobRuns

(* An automation is hidden only if a filled funnel, the search or the      *)
(* chosen dashboard says so, for any table (AutomationsPage.tsx,           *)
(* displayedJobs and the funnels of the columns).                          *)
THEOREM HidingExplained == ASSUME Jobs!JobsFit PROVE JobRuns => []Jobs!HiddenExplained
<1>1. ASSUME JobInv, RetainTyped PROVE Jobs!HiddenExplained
  <2> SUFFICES ASSUME Jobs!ToSet(Jobs!displayedJobs) # Jobs!Present
               PROVE  /\ Jobs!ClearOffered
                      /\ \/ searchQuery # 0 \/ selectedDashboardId # Jobs!All
                         \/ \E col \in Jobs!Columns : Jobs!Funnel(col) = "filled"
    BY DEF Jobs!HiddenExplained
  <2>0. Filtered BY <1>1 DEF JobInv
  <2>1. Jobs!Shown # Jobs!Present BY SortKeepsRows, <2>0 DEF Filtered
  <2>2. PICK j \in Jobs!Present : ~Jobs!Passes(j) BY <2>1 DEF Jobs!Shown
  <2>3. \/ searchQuery # 0 \/ selectedDashboardId # Jobs!All
        \/ /\ \E f \in Fields : filters[f] # Jobs!DEFAULT_FILTERS[f]
           /\ \E col \in Jobs!Columns : Jobs!Funnel(col) = "filled"
    <3> SUFFICES ASSUME searchQuery = 0, selectedDashboardId = Jobs!All
                 PROVE  /\ \E f \in Fields : filters[f] # Jobs!DEFAULT_FILTERS[f]
                        /\ \E col \in Jobs!Columns : Jobs!Funnel(col) = "filled"
      OBVIOUS
    <3>1. PICK g \in Fields : filters[g] # Jobs!DEFAULT_FILTERS[g]
      <4> SUFFICES ASSUME \A f \in Fields : filters[f] = Jobs!DEFAULT_FILTERS[f] PROVE FALSE OBVIOUS
      <4>1. /\ filters.status = Jobs!All /\ filters.type = Jobs!All /\ filters.automation = 0 /\ filters.topic = 0 /\ filters.payload = 0
            /\ filters.qos = Jobs!AnyQos /\ filters.retain = FALSE /\ filters.triggerExecution = 0 /\ filters.timing = Jobs!All
            /\ filters.broker = 0
        BY DEF Fields, Jobs!DEFAULT_FILTERS
      <4>2. Jobs!Passes(j) BY <4>1 DEF Jobs!Passes, Jobs!Found, Jobs!All
      <4> QED BY <2>2, <4>2
    <3>2. \E col \in Jobs!Columns : Jobs!isColFiltered(col)
      <4>1. CASE g \in {"payload", "qos", "retain"}
        <5>2. g = "retain" => filters.retain
          <6>1. filters["retain"] \in BOOLEAN BY <1>1 DEF RetainTyped
          <6>2. Jobs!DEFAULT_FILTERS["retain"] = FALSE BY DEF Jobs!DEFAULT_FILTERS
          <6>3. g = "retain" => filters["retain"] # Jobs!DEFAULT_FILTERS["retain"] BY <3>1
          <6>4. g = "retain" => filters["retain"] # FALSE BY <6>2, <6>3
          <6> QED BY ONLY <6>1, <6>4
        <5>3. g # "retain" => filters.payload # 0 \/ filters.qos # Jobs!AnyQos BY <3>1, <4>1 DEF Jobs!DEFAULT_FILTERS
        <5>1. Jobs!isColFiltered("payload") BY <5>2, <5>3 DEF Jobs!isColFiltered
        <5> QED BY <5>1, ColumnsAre
      <4>2. CASE g \in {"triggerExecution", "timing"}
        <5>1. Jobs!isColFiltered("trigger_execution") BY <3>1, <4>2 DEF Jobs!isColFiltered, Jobs!DEFAULT_FILTERS
        <5> QED BY <5>1, ColumnsAre
      <4>3. CASE g \in {"status", "type"}
        <5>1. Jobs!isColFiltered(g) BY <3>1, <4>3 DEF Jobs!isColFiltered, Jobs!DEFAULT_FILTERS
        <5> QED BY <4>3, <5>1, ColumnsAre
      <4>4. CASE g \in {"automation", "topic", "broker"}
        <5>1. Jobs!isColFiltered(g) BY <3>1, <4>4 DEF Jobs!isColFiltered, Jobs!DEFAULT_FILTERS
        <5> QED BY <4>4, <5>1, ColumnsAre
      <4> QED BY <4>1, <4>2, <4>3, <4>4 DEF Fields
    <3> QED BY <3>1, <3>2 DEF Jobs!Funnel
  <2>4. Jobs!ClearOffered BY <2>0, <2>3 DEF Jobs!ClearOffered, Jobs!isFilterActive, Filtered
  <2> QED BY <2>3, <2>4
<1> QED BY <1>1, JobsInvariant, RetainIsSwitch, PTL


-----------------------------------------------------------------------------
(***************************************************************************)
(* The shell around the dashboards (DashboardShell).  List and panels are  *)
(* followed through the calls under way: what each will do to the server's *)
(* rows and to the page's is the same (ListInv, PanelsFit).                *)
(***************************************************************************)
(* What is known of Kept, of the one that the shell uses. *)
LEMMA ShellKept == \A s, S : Shell!Kept(s, S) = Kept(s, S)
BY DEF Shell!Kept, Kept

LEMMA ShellKeptForm ==
  ASSUME NEW T, NEW s \in Seq(T), NEW S
  PROVE  Shell!Kept(s, S) \in Seq(T) /\ IsKept(Shell!Kept(s, S), s, S, Len(s))
BY KeptForm, ShellKept

LEMMA ShellKeptSet ==
  ASSUME NEW T, NEW s \in Seq(T), NEW S
  PROVE  /\ \A a \in DOMAIN Shell!Kept(s, S) : Shell!Kept(s, S)[a] \in S /\ \E i \in DOMAIN s : Shell!Kept(s, S)[a] = s[i]
         /\ \A i \in DOMAIN s : s[i] \in S => \E a \in DOMAIN Shell!Kept(s, S) : Shell!Kept(s, S)[a] = s[i]
BY KeptSet, ShellKept

(* Its runs, with no fairness assumed. *)
ShellRuns == Shell!Init /\ [][Shell!Next]_(Shell!vars)

-----------------------------------------------------------------------------
(* The state a step may be in.                                             *)
Selecting == Shell!Changes \cup {"rename"}
Moving == {"move", "copy"}
PanelOps == {"add", "panel copy", "remove"} \cup Moving
ShellCalls == [op : Selecting \cup PanelOps, dash : Dashboards \cup {NoDash}, panel : Panels \cup {Shell!None},
               made : Dashboards \cup Panels \cup {Shell!None, "failed"}, here : BOOLEAN]
Landed(c) == c.made \notin {Shell!None, "failed"}
Added(c) == c.op \in Shell!Creating /\ Landed(c)
Deleted(c) == c.op = "delete" /\ Landed(c)
Joins(c) == c.op \in {"add", "panel copy"} /\ Landed(c)
Leaves(c) == c.op \in {"move", "remove"} /\ Landed(c)
OwnForm(c) == /\ c.op \in PanelOps => c.dash \in Dashboards
              /\ c.op \in {"panel copy", "copy", "move", "remove"} => c.panel \in Panels
              /\ Added(c) => c.made \in Dashboards
              /\ Deleted(c) => c.dash \in Dashboards
              /\ (Landed(c) /\ c.op \in {"add", "panel copy", "copy"}) => c.made \in Panels
Loads == [dash : Dashboards, ans : {<<>>} \cup {<<s>> : s \in SUBSET Panels}, mixed : BOOLEAN]

ServerTyped == rows \in Seq(Dashboards) /\ home \in [Panels -> Dashboards \cup {NoDash}]
LayoutTyped ==
    /\ path \in {"dashboard", "other"} /\ query \in Dashboards \cup {NoDash}
    /\ dashboards \in Seq(Dashboards) /\ activeDashboardId \in Dashboards \cup {NoDash} /\ stored = activeDashboardId
    /\ dashboardsLoading \in BOOLEAN /\ listCalls \in Seq({Shell!Unserved} \cup Seq(Dashboards))
ModesTyped ==
    /\ editMode \in BOOLEAN /\ panelLibraryOpen \in BOOLEAN /\ busy \in BOOLEAN
    /\ dialogs \subseteq {"create", "rename", "delete"} /\ (panelLibraryOpen => editMode /\ Shell!Mounted)
PageTyped == panels \subseteq Panels /\ isLoadingLayout \in BOOLEAN /\ layoutCall \in {Shell!NoCall} \cup Loads
CallsTyped == \A c \in calls : c \in ShellCalls /\ OwnForm(c)
GhostsTyped == astray \in BOOLEAN /\ overlapped \in BOOLEAN /\ raced \in BOOLEAN /\ nowhere \in BOOLEAN
ShellTyped == ServerTyped /\ LayoutTyped /\ ModesTyped /\ PageTyped /\ CallsTyped /\ GhostsTyped

(* When the page loads, and what.                                          *)
LoadInv ==
    /\ layoutCall # Shell!NoCall => /\ Shell!Mounted /\ ~dashboardsLoading /\ isLoadingLayout
                                    /\ layoutCall.dash = activeDashboardId /\ activeDashboardId # NoDash
    /\ (Shell!Mounted /\ ~dashboardsLoading /\ activeDashboardId # NoDash /\ isLoadingLayout) => layoutCall # Shell!NoCall
    /\ ~Shell!Mounted => isLoadingLayout
Opening == dashboardsLoading => isLoadingLayout /\ calls = {} /\ dashboards = <<>> /\ ~overlapped

(* The list: unless an answer for it crossed a change, it differs from the *)
(* server's by the changes that were served and not answered yet.          *)
ChangesLanded == \E c \in calls : Added(c) \/ Deleted(c)
SameSet ==
    (~dashboardsLoading /\ ~overlapped) =>
        /\ \A d \in Dashboards : (d \in Shell!ToSet(dashboards) /\ d \notin Shell!ToSet(rows)) <=> \E c \in calls : Deleted(c) /\ c.dash = d
        /\ \A d \in Dashboards : (d \in Shell!ToSet(rows) /\ d \notin Shell!ToSet(dashboards)) <=> \E c \in calls : Added(c) /\ c.made = d
        /\ \A c \in calls : c.op = "delete" /\ c.dash \in Shell!ToSet(rows) => c.dash \in Shell!ToSet(dashboards)
        /\ \A c, d \in calls : Added(c) /\ Added(d) /\ c.made = d.made => c = d
        /\ \A c, d \in calls : Deleted(c) /\ Deleted(d) /\ c.dash = d.dash => c = d
FreshLists ==
    (dashboards = <<>> /\ ~overlapped /\ ~ChangesLanded) => \A i \in DOMAIN listCalls : listCalls[i] \in {Shell!Unserved, rows}
OneByOne == ~raced => \A c, d \in calls : c.op \in Shell!Changes /\ d.op \in Shell!Changes => c = d
SameOrder ==
    (~dashboardsLoading /\ ~overlapped /\ ~raced) =>
        /\ ~ChangesLanded => dashboards = rows
        /\ \A c \in calls : Added(c) => rows = Append(dashboards, c.made)
        /\ \A c \in calls : Deleted(c) => rows = Shell!Kept(dashboards, Dashboards \ {c.dash})
ActiveListed ==
    (~dashboardsLoading /\ ~overlapped /\ ~nowhere) =>
        IF dashboards = <<>> THEN activeDashboardId = NoDash ELSE activeDashboardId \in Shell!ToSet(dashboards)
ListInv == SameSet /\ FreshLists /\ OneByOne /\ SameOrder /\ ActiveListed

(* The panels: since a load that nothing crossed, they differ from the     *)
(* server's by the requests that were served and not answered yet.         *)
Clean ==
    /\ Shell!Mounted /\ ~dashboardsLoading /\ activeDashboardId # NoDash
    /\ layoutCall = Shell!NoCall => ~astray
    /\ layoutCall # Shell!NoCall => ~layoutCall.mixed
OwnCalls ==
    Clean => \A c \in calls : /\ c.here /\ (c.op \in Moving <=> c.dash # activeDashboardId)
                              /\ layoutCall # Shell!NoCall => c.op \in Selecting
DashThere == \A c \in calls : ~Deleted(c)
AnswerFits == (Clean /\ DashThere /\ layoutCall # Shell!NoCall) => layoutCall.ans \in {<<>>, <<Shell!Housed(activeDashboardId)>>}
PanelsFit ==
    (Clean /\ DashThere /\ layoutCall = Shell!NoCall) =>
        /\ \A p \in Panels : (p \in panels /\ ~\E c \in calls : Leaves(c) /\ c.panel = p)
                               <=> (home[p] = activeDashboardId /\ ~\E c \in calls : Joins(c) /\ c.made = p)
        /\ \A c \in calls : Leaves(c) => home[c.panel] # activeDashboardId
        /\ \A c \in calls : Joins(c) => /\ home[c.made] = activeDashboardId /\ c.made \notin panels
                                        /\ \A d \in calls : d.panel # c.made /\ (Joins(d) /\ d.made = c.made => d = c)
PageInv == OwnCalls /\ AnswerFits /\ PanelsFit

ShellInv == ShellTyped /\ LoadInv /\ Opening /\ ListInv /\ PageInv

-----------------------------------------------------------------------------
(* The forms of requests and loads.                                        *)
LEMMA ShellCallFields ==
  ASSUME NEW c \in ShellCalls, NEW m, NEW h
  PROVE  /\ [c EXCEPT !.made = m].op = c.op /\ [c EXCEPT !.made = m].dash = c.dash /\ [c EXCEPT !.made = m].panel = c.panel
         /\ [c EXCEPT !.made = m].here = c.here /\ [c EXCEPT !.made = m].made = m
         /\ [c EXCEPT !.here = h].op = c.op /\ [c EXCEPT !.here = h].dash = c.dash /\ [c EXCEPT !.here = h].panel = c.panel
         /\ [c EXCEPT !.here = h].made = c.made /\ [c EXCEPT !.here = h].here = h
BY DEF ShellCalls

LEMMA ShellCallForms ==
  ASSUME NEW c \in ShellCalls
  PROVE  /\ c.op \in Selecting \cup PanelOps /\ c.dash \in Dashboards \cup {NoDash} /\ c.panel \in Panels \cup {Shell!None}
         /\ c.made \in Dashboards \cup Panels \cup {Shell!None, "failed"} /\ c.here \in BOOLEAN
         /\ \A m \in Dashboards \cup Panels \cup {Shell!None, "failed"} : [c EXCEPT !.made = m] \in ShellCalls
         /\ \A h \in BOOLEAN : [c EXCEPT !.here = h] \in ShellCalls
BY DEF ShellCalls

LEMMA LoadForms ==
  ASSUME Shell!ShellFit
  PROVE  /\ Shell!NoCall \notin Loads /\ Shell!NoCall.dash = NoDash
         /\ \A l \in Loads : l.dash \in Dashboards /\ l.ans \in {<<>>} \cup {<<s>> : s \in SUBSET Panels} /\ l.mixed \in BOOLEAN
         /\ \A a \in Dashboards, m \in BOOLEAN : /\ [dash |-> a, ans |-> <<>>, mixed |-> m] \in Loads
                                                 /\ [dash |-> a, ans |-> <<>>, mixed |-> m].ans = <<>>
                                                 /\ [dash |-> a, ans |-> <<>>, mixed |-> m].dash = a
                                                 /\ [dash |-> a, ans |-> <<>>, mixed |-> m].mixed = m
<1>1. Shell!NoCall.dash = NoDash BY DEF Shell!NoCall
<1>2. \A l \in Loads : l.dash \in Dashboards /\ l.ans \in {<<>>} \cup {<<s>> : s \in SUBSET Panels} /\ l.mixed \in BOOLEAN
  BY DEF Loads
<1>3. Shell!NoCall \notin Loads BY <1>1, <1>2 DEF Shell!ShellFit
<1>4. \A a \in Dashboards, m \in BOOLEAN : [dash |-> a, ans |-> <<>>, mixed |-> m] \in Loads BY DEF Loads
<1> QED BY <1>1, <1>2, <1>3, <1>4

LEMMA NamedIs == \A ds, q, a : Shell!Named(ds, q, a) = a \/ (Shell!Named(ds, q, a) = q /\ q \in Shell!ToSet(ds))
BY DEF Shell!Named

(* The answer of a request is served, in one of these ways.                *)
LEMMA ShellServeWays ==
  ASSUME NEW c \in ShellCalls, Shell!Serve(c)
  PROVE  /\ c.made = Shell!None /\ UNCHANGED <<Shell!layout, Shell!modes, Shell!page, astray, Shell!races, acts>>
         /\ \/ Shell!Refuse(c)
            \/ \E made \in Dashboards \cup Panels :
                 /\ calls' = (calls \ {c}) \cup {[c EXCEPT !.made = made]}
                 /\ \/ /\ c.op \in Shell!Creating /\ made \in Shell!FreeDash /\ rows' = Append(rows, made)
                       /\ \E ps \in SUBSET Shell!FreePanels : home' = [p \in Panels |-> IF p \in ps THEN made ELSE home[p]]
                    \/ /\ c.op = "delete" /\ made = c.dash /\ made \in Shell!ToSet(rows) /\ rows' = Shell!Kept(rows, Dashboards \ {made})
                       /\ home' = [p \in Panels |-> IF home[p] = made THEN NoDash ELSE home[p]]
                    \/ /\ c.op \in {"add", "panel copy", "copy"} /\ made \in Shell!FreePanels
                       /\ home' = [home EXCEPT ![made] = c.dash] /\ UNCHANGED rows
                    \/ /\ c.op = "move" /\ made = c.panel /\ home' = [home EXCEPT ![made] = c.dash] /\ UNCHANGED rows
                    \/ /\ c.op = "rename" /\ made = c.dash /\ UNCHANGED Shell!server
                    \/ /\ c.op = "remove" /\ made = c.panel /\ home' = [home EXCEPT ![made] = NoDash] /\ UNCHANGED rows
<1>1. c.op \in Selecting \cup PanelOps BY ShellCallForms
<1>2. c.made = Shell!None /\ UNCHANGED <<Shell!layout, Shell!modes, Shell!page, astray, Shell!races, acts>> BY DEF Shell!Serve
<1>3. CASE Shell!Refuse(c) BY <1>2, <1>3
<1>4. CASE ~Shell!Refuse(c)
  <2>1. PICK made \in Dashboards \cup Panels :
            /\ calls' = (calls \ {c}) \cup {[c EXCEPT !.made = made]}
            /\ CASE c.op \in Shell!Creating ->
                       /\ made \in Shell!FreeDash
                       /\ rows' = Append(rows, made)
                       /\ \E ps \in SUBSET Shell!FreePanels :
                             /\ Shell!Cardinality(ps) <= (IF c.op = "create" THEN 0
                                                          ELSE IF c.op \in {"template", "import"} THEN 1
                                                          ELSE Shell!Cardinality(Shell!Housed(c.dash)))
                             /\ home' = [p \in Panels |-> IF p \in ps THEN made ELSE home[p]]
                 [] c.op = "delete" ->
                       /\ made = c.dash /\ made \in Shell!ToSet(rows) /\ Len(rows) > 1
                       /\ rows' = Shell!Kept(rows, Dashboards \ {made})
                       /\ home' = [p \in Panels |-> IF home[p] = made THEN NoDash ELSE home[p]]
                 [] c.op \in {"add", "panel copy", "copy"} ->
                       /\ made \in Shell!FreePanels /\ c.dash \in Shell!ToSet(rows)
                       /\ home' = [home EXCEPT ![made] = c.dash] /\ UNCHANGED rows
                 [] c.op = "move" ->
                       /\ made = c.panel /\ home[made] # NoDash /\ c.dash \in Shell!ToSet(rows)
                       /\ home' = [home EXCEPT ![made] = c.dash] /\ UNCHANGED rows
                 [] c.op = "rename" -> made = c.dash /\ made \in Shell!ToSet(rows) /\ UNCHANGED Shell!server
                 [] c.op = "remove" ->
                       /\ made = c.panel
                       /\ home' = [home EXCEPT ![made] = NoDash] /\ UNCHANGED rows
    BY <1>4 DEF Shell!Serve
  <2>2. CASE c.op \in Shell!Creating BY <1>2, <2>1, <2>2
  <2>3. CASE c.op = "delete" BY <1>2, <2>1, <2>3
  <2>4. CASE c.op \in {"add", "panel copy", "copy"} BY <1>2, <2>1, <2>4
  <2>5. CASE c.op = "move" BY <1>2, <2>1, <2>5
  <2>6. CASE c.op = "rename" BY <1>2, <2>1, <2>6
  <2>7. CASE c.op = "remove" BY <1>2, <2>1, <2>7
  <2> QED BY <1>1, <2>2, <2>3, <2>4, <2>5, <2>6, <2>7 DEF Selecting, Shell!Changes, Shell!Creating, PanelOps, Moving
<1> QED BY <1>3, <1>4

LEMMA AnswerWays ==
  ASSUME NEW c \in ShellCalls, c.made # "failed" \/ c.made = "failed", Shell!Answered(c)
  PROVE  \/ /\ c.made = "failed" \/ c.op = "rename"
            /\ UNCHANGED <<query, dashboards, activeDashboardId, stored, Shell!page>>
         \/ /\ Added(c) /\ Shell!SwitchTo(Append(dashboards, c.made), c.made, panels)
         \/ /\ Deleted(c) /\ Shell!SwitchTo(Shell!Remaining(c.dash), Shell!Following(Shell!Remaining(c.dash)), panels)
         \/ /\ c.op = "move" /\ Leaves(c) /\ Shell!SwitchTo(dashboards, c.dash, IF c.here THEN panels \ {c.panel} ELSE panels)
         \/ /\ c.op = "copy" /\ Landed(c) /\ Shell!SwitchTo(dashboards, c.dash, panels)
         \/ /\ c.op \in {"add", "panel copy", "remove"} /\ Landed(c)
            /\ panels' = (IF c.here THEN Shell!PanelsAfter(c) ELSE panels)
            /\ UNCHANGED <<query, dashboards, activeDashboardId, stored, isLoadingLayout, layoutCall>>
<1>1. c.op \in Selecting \cup PanelOps /\ c.made # Shell!None BY ShellCallForms DEF Shell!Answered
<1>2. CASE c.made = "failed" \/ c.op = "rename" BY <1>2 DEF Shell!Answered, Shell!Creating, Added
<1>3. CASE c.made # "failed"
  <2>0. Landed(c) BY <1>1, <1>3 DEF Landed
  <2>1. CASE c.op \in Shell!Creating BY <1>3, <2>0, <2>1 DEF Shell!Answered, Added, Shell!Creating
  <2>2. CASE c.op = "delete" BY <1>3, <2>0, <2>2 DEF Shell!Answered, Deleted
  <2>3. CASE c.op = "move" BY <1>3, <2>0, <2>3 DEF Shell!Answered, Leaves
  <2>4. CASE c.op = "copy" BY <1>3, <2>0, <2>4 DEF Shell!Answered
  <2>5. CASE c.op \in {"add", "panel copy", "remove"} BY <1>3, <2>0, <2>5 DEF Shell!Answered, Shell!Creating
  <2> QED BY <1>1, <1>2, <2>1, <2>2, <2>3, <2>4, <2>5 DEF Selecting, Shell!Changes, Shell!Creating, PanelOps, Moving
<1> QED BY <1>2, <1>3

(* Lists of dashboards as sets.                                            *)
LEMMA SetOf ==
  ASSUME NEW s \in Seq(Dashboards)
  PROVE  /\ Shell!ToSet(s) \subseteq Dashboards /\ (s = <<>> <=> Shell!ToSet(s) = {}) /\ (s # <<>> => s[1] \in Shell!ToSet(s))
         /\ \A x \in Dashboards : /\ Append(s, x) \in Seq(Dashboards) /\ Append(s, x) # <<>>
                                  /\ Shell!ToSet(Append(s, x)) = Shell!ToSet(s) \cup {x}
<1>1. PICK n \in Nat : n = Len(s) /\ DOMAIN s = 1..n /\ \A k \in 1..n : s[k] \in Dashboards BY LenProperties, ElementOfSeq
<1>2. Shell!ToSet(s) \subseteq Dashboards BY <1>1 DEF Shell!ToSet
<1>3. s = <<>> <=> n = 0 BY <1>1, EmptySeq
<1>4. Shell!ToSet(s) = {} <=> n = 0
  <2>1. n # 0 => 1 \in 1..n BY <1>1
  <2>2. n = 0 => 1..n = {} BY <1>1
  <2> QED BY <1>1, <2>1, <2>2 DEF Shell!ToSet
<1>5. s # <<>> => s[1] \in Shell!ToSet(s)
  <2>1. n # 0 => 1 \in 1..n BY <1>1
  <2> QED BY <1>1, <1>3, <2>1 DEF Shell!ToSet
<1>6. ASSUME NEW x \in Dashboards
      PROVE  Append(s, x) \in Seq(Dashboards) /\ Append(s, x) # <<>> /\ Shell!ToSet(Append(s, x)) = Shell!ToSet(s) \cup {x}
  <2>1. PICK t : t = Append(s, x) OBVIOUS
  <2>2. t \in Seq(Dashboards) /\ Len(t) = n + 1 /\ t[n + 1] = x /\ \A k \in 1..n : t[k] = s[k]
    BY <1>1, <2>1, AppendProperties
  <2>3. DOMAIN t = 1..(n + 1) /\ 1..(n + 1) = (1..n) \cup {n + 1} BY <1>1, <2>2
  <2>4. Shell!ToSet(t) = Shell!ToSet(s) \cup {x} BY ONLY <1>1, <2>2, <2>3 DEF Shell!ToSet
  <2>5. t # <<>> BY <1>1, <2>2
  <2> QED BY <2>1, <2>2, <2>4, <2>5
<1> QED BY <1>2, <1>3, <1>4, <1>5, <1>6

LEMMA KeptOf ==
  ASSUME NEW s \in Seq(Dashboards), NEW d
  PROVE  Shell!Kept(s, Dashboards \ {d}) \in Seq(Dashboards) /\ Shell!ToSet(Shell!Kept(s, Dashboards \ {d})) = Shell!ToSet(s) \ {d}
<1>0. PICK D : D = Dashboards \ {d} OBVIOUS
<1>1. PICK t : t = Shell!Kept(s, D) OBVIOUS
<1>2. t \in Seq(Dashboards) BY ONLY <1>1, ShellKeptForm
<1>3. /\ \A a \in DOMAIN Shell!Kept(s, D) : Shell!Kept(s, D)[a] \in D /\ \E i \in DOMAIN s : Shell!Kept(s, D)[a] = s[i]
      /\ \A i \in DOMAIN s : s[i] \in D => \E a \in DOMAIN Shell!Kept(s, D) : Shell!Kept(s, D)[a] = s[i]
  BY ONLY s \in Seq(Dashboards), ShellKeptSet
<1>4. \A i \in DOMAIN s : s[i] \in Dashboards OBVIOUS
<1>5. Shell!ToSet(t) = Shell!ToSet(s) \ {d}
  <2>1. ASSUME NEW x \in Shell!ToSet(t) PROVE x \in Shell!ToSet(s) \ {d}
    <3>1. PICK k \in DOMAIN t : x = t[k] BY <2>1 DEF Shell!ToSet
    <3>2. t[k] \in D /\ \E i \in DOMAIN s : t[k] = s[i] BY ONLY <1>1, <1>3, <3>1
    <3> QED BY <1>0, <3>1, <3>2 DEF Shell!ToSet
  <2>2. ASSUME NEW x \in Shell!ToSet(s) \ {d} PROVE x \in Shell!ToSet(t)
    <3>1. PICK i \in DOMAIN s : x = s[i] BY <2>2 DEF Shell!ToSet
    <3>2. s[i] \in D BY <1>0, <1>4, <2>2, <3>1
    <3>3. \E k \in DOMAIN t : t[k] = s[i] BY ONLY <1>1, <1>3, <3>1, <3>2
    <3> QED BY <3>1, <3>3 DEF Shell!ToSet
  <2> QED BY <2>1, <2>2
<1> QED BY <1>0, <1>1, <1>2, <1>5

LEMMA ListCut ==
  ASSUME NEW S, NEW s \in Seq(S), NEW i \in DOMAIN s
  PROVE  /\ Shell!RemoveAt(s, i) \in Seq(S)
         /\ \A k \in DOMAIN Shell!RemoveAt(s, i) : \E j \in DOMAIN s : Shell!RemoveAt(s, i)[k] = s[j]
<1>1. PICK t : t = Shell!RemoveAt(s, i) OBVIOUS
<1>2. t = SubSeq(s, 1, i - 1) \o SubSeq(s, i + 1, Len(s)) BY <1>1 DEF Shell!RemoveAt
<1>3. t \in Seq(S) /\ IsCut(t, s, i) BY ONLY <1>2, Cut
<1>4. \A k \in DOMAIN t : \E j \in DOMAIN s : t[k] = s[j] BY <1>3, CutFrom
<1> QED BY <1>1, <1>3, <1>4

LEMMA AskedAgain ==
  ASSUME NEW S, NEW s \in Seq(S), NEW x \in S
  PROVE  Append(s, x) \in Seq(S) /\ \A k \in DOMAIN Append(s, x) : Append(s, x)[k] = x \/ \E j \in DOMAIN s : Append(s, x)[k] = s[j]
<1>1. PICK n \in Nat : n = Len(s) /\ DOMAIN s = 1..n BY LenProperties
<1>2. PICK t : t = Append(s, x) OBVIOUS
<1>3. t \in Seq(S) /\ Len(t) = n + 1 /\ t[n + 1] = x /\ \A k \in 1..n : t[k] = s[k] BY <1>1, <1>2, AppendProperties
<1>4. DOMAIN t = 1..(n + 1) /\ 1..(n + 1) = (1..n) \cup {n + 1} BY <1>1, <1>3
<1>5. \A k \in DOMAIN t : t[k] = x \/ \E j \in DOMAIN s : t[k] = s[j] BY ONLY <1>1, <1>3, <1>4
<1> QED BY <1>2, <1>3, <1>5

-----------------------------------------------------------------------------
(* A load: either nothing changes but the panels in state, or another load *)
(* starts, or none may run.                                                *)
Stays == Shell!Mounted /\ UNCHANGED <<path, dashboardsLoading, activeDashboardId, isLoadingLayout, layoutCall>>
Starts == Clean' => calls' = {} /\ layoutCall' # Shell!NoCall /\ layoutCall'.ans = <<>>
Loading(ps) == PageTyped' /\ LoadInv' /\ panels' \in {{}, ps} /\ ((Stays /\ panels' = ps) \/ Starts)

LEMMA ReloadStep ==
  ASSUME Shell!ShellFit, PageTyped, LoadInv, NEW a \in Dashboards \cup {NoDash}, NEW loadingNow \in BOOLEAN,
         NEW pth \in {"dashboard", "other"}, NEW ps \in SUBSET Panels, path \in {"dashboard", "other"},
         dashboardsLoading \in BOOLEAN, Shell!Reload(a, loadingNow, pth, ps),
         activeDashboardId' = a, dashboardsLoading' = loadingNow, path' = pth
  PROVE  Loading(ps)
<1>1. CASE pth # "dashboard"
  <2>1. panels' = {} /\ isLoadingLayout' = TRUE /\ layoutCall' = Shell!NoCall BY <1>1 DEF Shell!Reload
  <2>2. ~Shell!Mounted' BY <1>1 DEF Shell!Mounted
  <2>3. PageTyped' BY <2>1 DEF PageTyped
  <2>4. LoadInv' BY <2>1, <2>2 DEF LoadInv
  <2>5. Starts BY <2>2 DEF Starts, Clean
  <2> QED BY <2>1, <2>3, <2>4, <2>5 DEF Loading
<1>2. CASE pth = "dashboard" /\ Shell!Same(a, loadingNow, pth)
  <2>1. panels' = ps /\ UNCHANGED <<isLoadingLayout, layoutCall>> BY <1>2 DEF Shell!Reload
  <2>2. a = activeDashboardId /\ loadingNow = dashboardsLoading /\ pth = path BY <1>2 DEF Shell!Same
  <2>3. Shell!Mounted /\ Shell!Mounted' BY <1>2, <2>2 DEF Shell!Mounted
  <2>4. Stays BY <2>1, <2>2, <2>3 DEF Stays
  <2>5. PageTyped' BY <2>1 DEF PageTyped
  <2>6. LoadInv' BY <2>1, <2>2, <2>3 DEF LoadInv
  <2> QED BY <2>1, <2>4, <2>5, <2>6 DEF Loading
<1>3. CASE pth = "dashboard" /\ ~Shell!Same(a, loadingNow, pth)
  <2>1. /\ panels' = ps
        /\ isLoadingLayout' = (~Shell!Mounted \/ isLoadingLayout \/ (~loadingNow /\ a # NoDash))
        /\ layoutCall' = IF loadingNow \/ a = NoDash THEN Shell!NoCall ELSE [dash |-> a, ans |-> <<>>, mixed |-> calls' # {}]
    BY <1>3 DEF Shell!Reload
  <2>2. Shell!Mounted' BY <1>3 DEF Shell!Mounted
  <2>3. CASE loadingNow \/ a = NoDash
    <3>1. layoutCall' = Shell!NoCall BY <2>1, <2>3
    <3>2. ~Clean' BY <2>3 DEF Clean
    <3>3. isLoadingLayout' \in BOOLEAN BY ONLY <2>1
    <3>4. PageTyped' BY <2>1, <3>1, <3>3 DEF PageTyped
    <3>5. LoadInv' BY <2>2, <2>3, <3>1 DEF LoadInv
    <3> QED BY <2>1, <3>2, <3>4, <3>5 DEF Loading, Starts
  <2>4. CASE ~loadingNow /\ a # NoDash
    <3>1. PICK m \in BOOLEAN : m = (calls' # {}) OBVIOUS
    <3>2. layoutCall' = [dash |-> a, ans |-> <<>>, mixed |-> m] BY <2>1, <2>4, <3>1
    <3>3. layoutCall' \in Loads /\ layoutCall'.ans = <<>> /\ layoutCall'.dash = a /\ layoutCall'.mixed = m
      BY <2>4, <3>2, LoadForms
    <3>4. layoutCall' # Shell!NoCall BY <3>3, LoadForms
    <3>5. isLoadingLayout' = TRUE BY <2>1, <2>4
    <3>6. PageTyped' BY <2>1, <3>3, <3>5 DEF PageTyped
    <3>7. LoadInv' BY <2>2, <2>4, <3>3, <3>4, <3>5 DEF LoadInv
    <3>8. Starts
      <4>1. Clean' => ~m BY <3>3, <3>4 DEF Clean
      <4> QED BY <3>1, <3>3, <3>4, <4>1 DEF Starts
    <3> QED BY <2>1, <3>6, <3>7, <3>8 DEF Loading
  <2> QED BY <2>3, <2>4
<1> QED BY <1>1, <1>2, <1>3

(* Another selection from the list. *)
LEMMA SwitchStep ==
  ASSUME Shell!ShellFit, LayoutTyped, PageTyped, LoadInv, NEW ds \in Seq(Dashboards), NEW id \in Dashboards \cup {NoDash},
         NEW ps \in SUBSET Panels, Shell!SwitchTo(ds, id, ps), UNCHANGED <<path, dashboardsLoading>>
  PROVE  /\ dashboards' = ds /\ query' = NoDash /\ stored' = activeDashboardId'
         /\ activeDashboardId' = id \/ activeDashboardId' \in Shell!ToSet(ds)
         /\ activeDashboardId' \in Dashboards \cup {NoDash}
         /\ Loading(ps)
<1>1. PICK a \in {id, Shell!Named(ds, query, id)} :
        /\ activeDashboardId' = a /\ stored' = a /\ query' = NoDash /\ dashboards' = ds
        /\ Shell!Reload(a, dashboardsLoading, path, ps)
  BY DEF Shell!SwitchTo
<1>2. a = id \/ a \in Shell!ToSet(ds) BY <1>1, NamedIs
<1>3. a \in Dashboards \cup {NoDash} BY <1>2, SetOf
<1>4. Loading(ps) BY <1>1, <1>3, ReloadStep DEF LayoutTyped
<1> QED BY <1>1, <1>2, <1>3, <1>4

(* What the server has done when it has carried a request out: e is the    *)
(* request with its answer.                                                *)
Carried(e) ==
    \/ /\ Added(e) /\ e.made \in Shell!FreeDash /\ rows' = Append(rows, e.made)
       /\ \E ps \in SUBSET Shell!FreePanels : home' = [p \in Panels |-> IF p \in ps THEN e.made ELSE home[p]]
    \/ /\ Deleted(e) /\ e.made = e.dash /\ e.dash \in Shell!ToSet(rows) /\ rows' = Shell!Kept(rows, Dashboards \ {e.dash})
       /\ home' = [p \in Panels |-> IF home[p] = e.dash THEN NoDash ELSE home[p]]
    \/ /\ e.op \in {"add", "panel copy", "copy"} /\ Landed(e) /\ e.made \in Shell!FreePanels
       /\ home' = [home EXCEPT ![e.made] = e.dash] /\ UNCHANGED rows
    \/ e.op = "move" /\ Landed(e) /\ home' = [home EXCEPT ![e.panel] = e.dash] /\ UNCHANGED rows
    \/ e.op = "rename" /\ Landed(e) /\ UNCHANGED Shell!server
    \/ e.op = "remove" /\ Landed(e) /\ home' = [home EXCEPT ![e.panel] = NoDash] /\ UNCHANGED rows
ShellServed(c, e) ==
    /\ e \in ShellCalls /\ OwnForm(e) /\ calls' = (calls \ {c}) \cup {e}
    /\ e.op = c.op /\ e.dash = c.dash /\ e.panel = c.panel /\ e.here = c.here /\ c.made = Shell!None
    /\ UNCHANGED <<Shell!layout, Shell!modes, Shell!page, astray, Shell!races, acts>>
    /\ (e.made = "failed" /\ UNCHANGED Shell!server) \/ Carried(e)

LEMMA ServeForm ==
  ASSUME Shell!ShellFit, ServerTyped, CallsTyped, NEW c \in calls, Shell!Serve(c)
  PROVE  \E e : ShellServed(c, e)
<1>1. c \in ShellCalls /\ OwnForm(c) BY DEF CallsTyped
<1>2. c.made = Shell!None /\ UNCHANGED <<Shell!layout, Shell!modes, Shell!page, astray, Shell!races, acts>> BY <1>1, ShellServeWays
<1>3. CASE Shell!Refuse(c)
  <2>1. PICK e : e = [c EXCEPT !.made = "failed"] OBVIOUS
  <2>2. e \in ShellCalls /\ e.op = c.op /\ e.dash = c.dash /\ e.panel = c.panel /\ e.here = c.here /\ e.made = "failed"
    BY <1>1, <2>1, ShellCallFields, ShellCallForms
  <2>3. ~Landed(e) BY <2>2 DEF Landed
  <2>4. OwnForm(e) BY <1>1, <2>2, <2>3 DEF OwnForm, Added, Deleted
  <2>5. calls' = (calls \ {c}) \cup {e} /\ UNCHANGED Shell!server BY <1>3, <2>1 DEF Shell!Refuse
  <2>6. ShellServed(c, e) BY <1>2, <2>2, <2>4, <2>5 DEF ShellServed
  <2> QED BY <2>6
<1>4. CASE ~Shell!Refuse(c)
  <2>1. PICK made \in Dashboards \cup Panels :
          /\ calls' = (calls \ {c}) \cup {[c EXCEPT !.made = made]}
          /\ \/ /\ c.op \in Shell!Creating /\ made \in Shell!FreeDash /\ rows' = Append(rows, made)
                /\ \E ps \in SUBSET Shell!FreePanels : home' = [p \in Panels |-> IF p \in ps THEN made ELSE home[p]]
             \/ /\ c.op = "delete" /\ made = c.dash /\ made \in Shell!ToSet(rows) /\ rows' = Shell!Kept(rows, Dashboards \ {made})
                /\ home' = [p \in Panels |-> IF home[p] = made THEN NoDash ELSE home[p]]
             \/ /\ c.op \in {"add", "panel copy", "copy"} /\ made \in Shell!FreePanels
                /\ home' = [home EXCEPT ![made] = c.dash] /\ UNCHANGED rows
             \/ /\ c.op = "move" /\ made = c.panel /\ home' = [home EXCEPT ![made] = c.dash] /\ UNCHANGED rows
             \/ /\ c.op = "rename" /\ made = c.dash /\ UNCHANGED Shell!server
             \/ /\ c.op = "remove" /\ made = c.panel /\ home' = [home EXCEPT ![made] = NoDash] /\ UNCHANGED rows
    BY <1>1, <1>4, ShellServeWays
  <2>2. PICK e : e = [c EXCEPT !.made = made] OBVIOUS
  <2>3. e \in ShellCalls /\ e.op = c.op /\ e.dash = c.dash /\ e.panel = c.panel /\ e.here = c.here /\ e.made = made
    BY <1>1, <2>2, ShellCallFields, ShellCallForms
  <2>4. Landed(e) BY <2>1, <2>3 DEF Landed, Shell!ShellFit
  <2>5. calls' = (calls \ {c}) \cup {e} BY <2>1, <2>2
  <2>6. Shell!FreeDash \subseteq Dashboards /\ Shell!FreePanels \subseteq Panels BY DEF Shell!FreeDash, Shell!FreePanels
  <2>7. Shell!ToSet(rows) \subseteq Dashboards BY SetOf DEF ServerTyped
  <2>8. Carried(e) BY <2>1, <2>3, <2>4 DEF Carried, Added, Deleted
  <2>9. OwnForm(e) BY <1>1, <2>1, <2>3, <2>6, <2>7 DEF OwnForm, Added, Deleted, Selecting, Shell!Changes, Shell!Creating
  <2>10. ShellServed(c, e) BY ONLY <1>2, <2>3, <2>5, <2>8, <2>9 DEF ShellServed
  <2> QED BY <2>10
<1> QED BY <1>3, <1>4

-----------------------------------------------------------------------------
(* The state's form, the page's loads and the list's first answer.         *)
FormInv == ShellTyped /\ LoadInv /\ Opening
LEMMA ServeTyped ==
  ASSUME Shell!ShellFit, FormInv, NEW c \in calls, NEW e, ShellServed(c, e)
  PROVE  FormInv'
<1>0. ServerTyped /\ CallsTyped BY DEF FormInv, ShellTyped
<1>1. /\ e \in ShellCalls /\ OwnForm(e) /\ calls' = (calls \ {c}) \cup {e}
      /\ UNCHANGED <<path, query, dashboards, activeDashboardId, stored, dashboardsLoading, listCalls>>
      /\ UNCHANGED <<editMode, panelLibraryOpen, dialogs, busy>> /\ UNCHANGED <<panels, isLoadingLayout, layoutCall>>
      /\ UNCHANGED <<astray, overlapped, raced, nowhere>>
  BY DEF ShellServed, Shell!layout, Shell!modes, Shell!page, Shell!races
<1>2. CallsTyped' BY <1>0, <1>1 DEF CallsTyped, OwnForm, Added, Deleted, Landed
<1>3. UNCHANGED Shell!server \/ Carried(e) BY DEF ShellServed
<1>4. ServerTyped'
  <2>1. CASE UNCHANGED Shell!server BY <1>0, <2>1 DEF ServerTyped, Shell!server
  <2>2. CASE Carried(e)
    <3>1. (Added(e) => e.made \in Dashboards) /\ (e.op \in PanelOps => e.dash \in Dashboards) BY <1>1 DEF OwnForm
    <3>2. CASE Added(e) /\ rows' = Append(rows, e.made)
               /\ \E ps \in SUBSET Shell!FreePanels : home' = [p \in Panels |-> IF p \in ps THEN e.made ELSE home[p]]
      <4>1. rows' \in Seq(Dashboards) BY <1>0, <3>1, <3>2, SetOf DEF ServerTyped
      <4>2. home' \in [Panels -> Dashboards \cup {NoDash}] BY <1>0, <3>1, <3>2 DEF ServerTyped
      <4> QED BY <4>1, <4>2 DEF ServerTyped
    <3>3. CASE /\ rows' = Shell!Kept(rows, Dashboards \ {e.dash})
               /\ home' = [p \in Panels |-> IF home[p] = e.dash THEN NoDash ELSE home[p]]
      <4>1. rows' \in Seq(Dashboards) BY <1>0, <3>3, KeptOf DEF ServerTyped
      <4>2. home' \in [Panels -> Dashboards \cup {NoDash}] BY <1>0, <3>3 DEF ServerTyped
      <4> QED BY <4>1, <4>2 DEF ServerTyped
    <3>4. CASE \E p, d : p \in Panels \cup {Shell!None} /\ d \in Dashboards \cup {NoDash} /\ home' = [home EXCEPT ![p] = d] /\ UNCHANGED rows
      BY <1>0, <3>4 DEF ServerTyped
    <3>5. e.made \in Shell!FreePanels => e.made \in Panels \cup {Shell!None} BY DEF Shell!FreePanels
    <3>6. e.panel \in Panels \cup {Shell!None} /\ e.dash \in Dashboards \cup {NoDash} BY <1>1, ShellCallForms
    <3> QED BY <2>2, <2>1, <3>2, <3>3, <3>4, <3>5, <3>6 DEF Carried
  <2> QED BY <1>3, <2>1, <2>2
<1>5. ~dashboardsLoading BY DEF FormInv, Opening
<1>6. ShellTyped'
  BY <1>1, <1>2, <1>4 DEF FormInv, ShellTyped, LayoutTyped, ModesTyped, PageTyped, GhostsTyped, Shell!Mounted
<1>7. LoadInv' BY <1>1 DEF FormInv, LoadInv, Shell!Mounted
<1>8. Opening' BY <1>1, <1>5 DEF Opening
<1> QED BY <1>6, <1>7, <1>8 DEF FormInv

LEMMA AnswerTyped ==
  ASSUME Shell!ShellFit, FormInv, NEW c \in calls, Shell!Answered(c)
  PROVE  FormInv'
<1>0. c \in ShellCalls /\ OwnForm(c) BY DEF FormInv, ShellTyped, CallsTyped
<1>1. /\ calls' = calls \ {c} /\ UNCHANGED Shell!server /\ UNCHANGED <<path, dashboardsLoading, editMode, panelLibraryOpen, raced>>
      /\ nowhere' \in BOOLEAN /\ overlapped' \in BOOLEAN /\ astray' \in BOOLEAN /\ busy' \in BOOLEAN
  BY DEF Shell!Answered
<1>2. dialogs' \subseteq {"create", "rename", "delete"} BY DEF Shell!Answered, FormInv, ShellTyped, ModesTyped, Shell!Dialogs, Shell!OwnDialog, Shell!Creating
<1>3. listCalls' \in Seq({Shell!Unserved} \cup Seq(Dashboards))
  <2>1. listCalls' = listCalls \/ listCalls' = Append(listCalls, Shell!Unserved) BY DEF Shell!Answered
  <2>2. listCalls \in Seq({Shell!Unserved} \cup Seq(Dashboards)) BY DEF FormInv, ShellTyped, LayoutTyped
  <2> QED BY <2>1, <2>2, AskedAgain
<1>4. ~dashboardsLoading BY DEF FormInv, Opening
<1>5. /\ LayoutTyped /\ PageTyped /\ LoadInv /\ dashboards \in Seq(Dashboards) /\ panels \subseteq Panels
  BY DEF FormInv, ShellTyped, LayoutTyped, PageTyped
<1>6. CallsTyped' BY <1>1 DEF FormInv, ShellTyped, CallsTyped, OwnForm, Added, Deleted, Landed
<1>7. /\ query' \in Dashboards \cup {NoDash} /\ dashboards' \in Seq(Dashboards)
      /\ activeDashboardId' \in Dashboards \cup {NoDash} /\ stored' = activeDashboardId'
      /\ PageTyped' /\ LoadInv'
  <2>0. UNCHANGED <<path, dashboardsLoading>> BY <1>1
  <2>1. CASE UNCHANGED <<query, dashboards, activeDashboardId, stored, Shell!page>>
    BY <1>1, <1>5, <2>1 DEF LayoutTyped, PageTyped, LoadInv, Shell!Mounted, Shell!page
  <2>2. CASE \E ds, id, ps : /\ ds \in Seq(Dashboards) /\ id \in Dashboards \cup {NoDash} /\ ps \in SUBSET Panels
                             /\ Shell!SwitchTo(ds, id, ps)
    <3>1. PICK ds \in Seq(Dashboards), id \in Dashboards \cup {NoDash}, ps \in SUBSET Panels : Shell!SwitchTo(ds, id, ps) BY <2>2
    <3>2. /\ dashboards' = ds /\ query' = NoDash /\ stored' = activeDashboardId'
          /\ activeDashboardId' \in Dashboards \cup {NoDash} /\ Loading(ps)
      BY <1>5, <2>0, <3>1, SwitchStep
    <3> QED BY <3>1, <3>2 DEF Loading
  <2>3. CASE /\ c.op \in {"add", "panel copy", "remove"} /\ Landed(c)
             /\ panels' = (IF c.here THEN Shell!PanelsAfter(c) ELSE panels)
             /\ UNCHANGED <<query, dashboards, activeDashboardId, stored, isLoadingLayout, layoutCall>>
    <3>1. Shell!PanelsAfter(c) \subseteq Panels BY <1>0, <1>5, <2>3 DEF Shell!PanelsAfter, OwnForm
    <3> QED BY <1>1, <1>5, <2>3, <3>1 DEF LayoutTyped, PageTyped, LoadInv, Shell!Mounted
  <2>4. c.dash \in Dashboards \cup {NoDash} BY <1>0, ShellCallForms
  <2>5. Added(c) => Append(dashboards, c.made) \in Seq(Dashboards) /\ c.made \in Dashboards BY <1>0, <1>5, SetOf DEF OwnForm
  <2>6. Shell!Remaining(c.dash) \in Seq(Dashboards) /\ Shell!Following(Shell!Remaining(c.dash)) \in Dashboards \cup {NoDash}
    <3>1. PICK r : r = Shell!Remaining(c.dash) OBVIOUS
    <3>2. r \in Seq(Dashboards) BY <1>5, <3>1, KeptOf DEF Shell!Remaining
    <3>3. r # <<>> => r[1] \in Dashboards BY <3>2, SetOf
    <3> QED BY <3>1, <3>2, <3>3 DEF Shell!Following
  <2>7. (IF c.here THEN panels \ {c.panel} ELSE panels) \in SUBSET Panels BY <1>5
  <2> QED BY <1>0, <1>5, AnswerWays, <2>1, <2>2, <2>3, <2>4, <2>5, <2>6, <2>7
<1>8. ServerTyped' /\ ModesTyped' /\ GhostsTyped'
  BY <1>1, <1>2 DEF FormInv, ShellTyped, ServerTyped, ModesTyped, GhostsTyped, Shell!server, Shell!Mounted
<1>9. LayoutTyped' BY <1>1, <1>3, <1>5, <1>7 DEF LayoutTyped
<1>10. Opening' BY <1>1, <1>4 DEF Opening
<1> QED BY <1>6, <1>7, <1>8, <1>9, <1>10 DEF FormInv, ShellTyped

LEMMA ListTyped ==
  ASSUME Shell!ShellFit, FormInv, NEW i \in DOMAIN listCalls, Shell!ServeList(i) \/ Shell!ListAnswered(i) \/ Shell!ListFailed(i)
  PROVE  /\ FormInv'
         /\ Shell!ServeList(i) \/ Loading(panels)
         /\ Shell!ListAnswered(i) => IF dashboards' = <<>> THEN activeDashboardId' = NoDash ELSE activeDashboardId' \in Shell!ToSet(dashboards')
<1>0. /\ ServerTyped /\ LayoutTyped /\ ModesTyped /\ PageTyped /\ CallsTyped /\ GhostsTyped /\ LoadInv /\ Opening
      /\ listCalls \in Seq({Shell!Unserved} \cup Seq(Dashboards))
  BY DEF FormInv, ShellTyped, LayoutTyped
<1>1. Shell!RemoveAt(listCalls, i) \in Seq({Shell!Unserved} \cup Seq(Dashboards)) BY <1>0, ListCut
<1>2. CASE Shell!ServeList(i)
  <2>1. /\ listCalls' = [listCalls EXCEPT ![i] = rows]
        /\ UNCHANGED <<Shell!server, path, query, dashboards, activeDashboardId, stored, dashboardsLoading>>
        /\ UNCHANGED <<Shell!modes, Shell!page, calls, astray, Shell!races>>
    BY <1>2 DEF Shell!ServeList
  <2>2. listCalls' \in Seq({Shell!Unserved} \cup Seq(Dashboards)) BY <1>0, <2>1 DEF ServerTyped
  <2>3. ServerTyped' /\ PageTyped' /\ ModesTyped' /\ CallsTyped' /\ GhostsTyped' /\ LoadInv' /\ Opening'
    BY <1>0, <2>1 DEF ServerTyped, PageTyped, ModesTyped, CallsTyped, GhostsTyped, LoadInv, Opening, Shell!server, Shell!modes, Shell!page, Shell!races,
                      Shell!Mounted, OwnForm, Added, Deleted, Landed
  <2>4. LayoutTyped' BY <1>0, <2>1, <2>2 DEF LayoutTyped
  <2> QED BY <1>2, <2>3, <2>4 DEF FormInv, ShellTyped, Shell!ServeList, Shell!ListAnswered
<1>3. CASE Shell!ListAnswered(i)
  <2>0. PICK list : list = listCalls[i] OBVIOUS
  <2>1. PICK target : target = Shell!Named(list, query, stored) OBVIOUS
  <2>2. PICK id : id = (IF target \in Shell!ToSet(list) THEN target ELSE IF list = <<>> THEN NoDash ELSE list[1]) OBVIOUS
  <2>3. /\ list # Shell!Unserved
        /\ listCalls' \in {Shell!RemoveAt(listCalls, i), Append(Shell!RemoveAt(listCalls, i), Shell!Unserved)}
        /\ dashboards' = list /\ activeDashboardId' = id /\ stored' = id /\ dashboardsLoading' = FALSE
        /\ UNCHANGED <<Shell!server, path, query, Shell!modes, calls, astray, raced, nowhere>>
        /\ Shell!Reload(id, FALSE, path, panels)
        /\ overlapped' = (overlapped \/ dashboards # <<>> \/ calls # {})
    BY <1>3, <2>0, <2>1, <2>2 DEF Shell!ListAnswered
  <2>4. list \in Seq(Dashboards) BY <1>0, <2>0, <2>3
  <2>5. IF list = <<>> THEN id = NoDash ELSE id \in Shell!ToSet(list)
    <3>1. list = <<>> => target \notin Shell!ToSet(list) BY <2>4, SetOf
    <3>2. list # <<>> => list[1] \in Shell!ToSet(list) BY <2>4, SetOf
    <3> QED BY <2>2, <3>1, <3>2
  <2>6. id \in Dashboards \cup {NoDash} BY <2>4, <2>5, SetOf
  <2>7. Loading(panels) BY <1>0, <2>3, <2>6, ReloadStep DEF LayoutTyped, PageTyped
  <2>13. listCalls' \in Seq({Shell!Unserved} \cup Seq(Dashboards)) BY <1>1, <2>3, AskedAgain
  <2>8. LayoutTyped' BY <1>0, <2>3, <2>4, <2>6, <2>13 DEF LayoutTyped
  <2>9. overlapped' \in BOOLEAN BY ONLY <2>3
  <2>10. ServerTyped' /\ ModesTyped' /\ CallsTyped' /\ GhostsTyped'
    BY <1>0, <2>3, <2>9 DEF ServerTyped, ModesTyped, CallsTyped, GhostsTyped, Shell!server, Shell!modes, Shell!Mounted, OwnForm, Added, Deleted, Landed
  <2>11. Opening' BY <2>3 DEF Opening
  <2>12. FormInv' BY <2>7, <2>8, <2>10, <2>11 DEF FormInv, ShellTyped, Loading
  <2> QED BY <2>3, <2>5, <2>7, <2>12
<1>4. CASE Shell!ListFailed(i)
  <2>1. /\ listCalls' = Shell!RemoveAt(listCalls, i) /\ dashboardsLoading' = FALSE /\ overlapped' = TRUE
        /\ UNCHANGED <<Shell!server, path, query, dashboards, activeDashboardId, stored, Shell!modes, calls, astray, raced, nowhere>>
        /\ Shell!Reload(activeDashboardId, FALSE, path, panels)
    BY <1>4 DEF Shell!ListFailed
  <2>2. Loading(panels) BY <1>0, <2>1, ReloadStep DEF LayoutTyped, PageTyped
  <2>3. LayoutTyped' BY <1>0, <1>1, <2>1 DEF LayoutTyped
  <2>4. ServerTyped' /\ ModesTyped' /\ CallsTyped' /\ GhostsTyped'
    BY <1>0, <2>1 DEF ServerTyped, ModesTyped, CallsTyped, GhostsTyped, Shell!server, Shell!modes, Shell!Mounted, OwnForm, Added, Deleted, Landed
  <2>5. Opening' BY <2>1 DEF Opening
  <2>6. FormInv' BY <2>2, <2>3, <2>4, <2>5 DEF FormInv, ShellTyped, Loading
  <2>7. CASE Shell!ListAnswered(i) BY <1>3, <2>7
  <2> QED BY <2>2, <2>6, <2>7
<1> QED BY <1>2, <1>3, <1>4

LEMMA NavigateTyped ==
  ASSUME Shell!ShellFit, FormInv, NEW pth \in {"dashboard", "other"}, NEW q \in Dashboards \cup {NoDash}, Shell!Navigate(pth, q)
  PROVE  FormInv' /\ Loading(panels)
<1>0. /\ ServerTyped /\ LayoutTyped /\ ModesTyped /\ PageTyped /\ CallsTyped /\ GhostsTyped /\ LoadInv /\ Opening
      /\ listCalls \in Seq({Shell!Unserved} \cup Seq(Dashboards)) /\ dashboards \in Seq(Dashboards)
  BY DEF FormInv, ShellTyped, LayoutTyped
<1>1. PICK a : a = Shell!Named(dashboards, q, activeDashboardId) OBVIOUS
<1>2. /\ path' = pth /\ query' = q /\ activeDashboardId' = a
      /\ stored' = (IF q \in Shell!ToSet(dashboards) THEN q ELSE stored)
      /\ calls' = (IF pth = path THEN calls ELSE {[c EXCEPT !.here = FALSE] : c \in calls})
      /\ Shell!Reload(a, dashboardsLoading, pth, panels)
      /\ astray' = (astray /\ pth = path)
      /\ UNCHANGED <<Shell!server, dashboards, dashboardsLoading, Shell!races>>
  BY <1>1 DEF Shell!Navigate
<1>3. IF pth = path THEN UNCHANGED Shell!modes ELSE editMode' = FALSE /\ panelLibraryOpen' = FALSE /\ dialogs' = {} /\ busy' = FALSE
  BY DEF Shell!Navigate
<1>4. listCalls' = listCalls \/ listCalls' = Append(listCalls, Shell!Unserved) BY DEF Shell!Navigate
<1>5. listCalls' \in Seq({Shell!Unserved} \cup Seq(Dashboards)) BY <1>0, <1>4, AskedAgain
<1>6. stored' = activeDashboardId' BY <1>0, <1>1, <1>2 DEF LayoutTyped, Shell!Named
<1>7. a \in Dashboards \cup {NoDash} BY <1>0, <1>1, NamedIs DEF LayoutTyped
<1>8. Loading(panels) BY <1>0, <1>2, <1>7, ReloadStep DEF LayoutTyped, PageTyped
<1>9. LayoutTyped' BY <1>0, <1>2, <1>5, <1>6, <1>7 DEF LayoutTyped
<1>10. CallsTyped'
  <2>1. CASE pth = path BY <1>0, <1>2, <2>1 DEF CallsTyped, OwnForm, Added, Deleted, Landed
  <2>2. CASE pth # path
    <3>1. ASSUME NEW e \in calls' PROVE e \in ShellCalls /\ OwnForm(e)
      <4>1. PICK c \in calls : e = [c EXCEPT !.here = FALSE] BY <1>2, <2>2, <3>1
      <4>2. c \in ShellCalls /\ OwnForm(c) BY <1>0 DEF CallsTyped
      <4>3. e \in ShellCalls /\ e.op = c.op /\ e.dash = c.dash /\ e.panel = c.panel /\ e.made = c.made
        BY <4>1, <4>2, ShellCallFields, ShellCallForms
      <4> QED BY <4>2, <4>3 DEF OwnForm, Added, Deleted, Landed
    <3> QED BY <3>1 DEF CallsTyped
  <2> QED BY <2>1, <2>2
<1>11. astray' \in BOOLEAN BY ONLY <1>2
<1>12. ServerTyped' /\ GhostsTyped' BY <1>0, <1>2, <1>11 DEF ServerTyped, GhostsTyped, Shell!server, Shell!races
<1>13. ModesTyped' BY <1>0, <1>2, <1>3 DEF ModesTyped, Shell!modes, Shell!Mounted
<1>14. Opening'
  <2>1. ASSUME dashboardsLoading' PROVE isLoadingLayout'
    <3>1. dashboardsLoading /\ isLoadingLayout BY <1>0, <1>2, <2>1 DEF Opening
    <3>2. CASE Stays BY <3>1, <3>2 DEF Stays
    <3>3. pth # "dashboard" => isLoadingLayout' BY <1>2 DEF Shell!Reload
    <3>4. pth = "dashboard" => isLoadingLayout' BY <1>2, <3>1 DEF Shell!Reload
    <3> QED BY <3>3, <3>4
  <2>2. calls = {} => calls' = {} BY <1>2
  <2> QED BY <1>0, <1>2, <2>1, <2>2 DEF Opening, Shell!races
<1> QED BY <1>8, <1>9, <1>10, <1>12, <1>13, <1>14 DEF FormInv, ShellTyped, Loading

(* The user's other steps.                                                 *)
LEMMA PickTyped ==
  ASSUME Shell!ShellFit, FormInv, NEW d \in Dashboards, Shell!Pick(d)
  PROVE  /\ FormInv' /\ Loading(panels) /\ UNCHANGED <<Shell!server, path, dashboardsLoading, listCalls, Shell!modes, calls, astray, Shell!races>>
         /\ dashboards' = dashboards /\ dashboards # <<>> /\ activeDashboardId' \in Shell!ToSet(dashboards)
<1>0. /\ ServerTyped /\ LayoutTyped /\ ModesTyped /\ PageTyped /\ CallsTyped /\ GhostsTyped /\ LoadInv /\ Opening
      /\ dashboards \in Seq(Dashboards) /\ panels \in SUBSET Panels
  BY DEF FormInv, ShellTyped, LayoutTyped, PageTyped
<1>1. /\ UNCHANGED <<Shell!server, path, dashboardsLoading, listCalls, Shell!modes, calls, astray, Shell!races>>
      /\ Shell!SwitchTo(dashboards, d, panels) /\ d \in Shell!ToSet(dashboards) /\ ~dashboardsLoading
  BY DEF Shell!Pick, Shell!Selector
<1>2. /\ dashboards' = dashboards /\ query' = NoDash /\ stored' = activeDashboardId'
      /\ activeDashboardId' = d \/ activeDashboardId' \in Shell!ToSet(dashboards)
      /\ activeDashboardId' \in Dashboards \cup {NoDash} /\ Loading(panels)
  BY <1>0, <1>1, SwitchStep
<1>3. dashboards # <<>> BY <1>0, <1>1, SetOf
<1>4. LayoutTyped' BY <1>0, <1>1, <1>2 DEF LayoutTyped
<1>5. ServerTyped' /\ ModesTyped' /\ CallsTyped' /\ GhostsTyped'
  BY <1>0, <1>1 DEF ServerTyped, ModesTyped, CallsTyped, GhostsTyped, Shell!server, Shell!modes, Shell!races, Shell!Mounted, OwnForm, Added, Deleted, Landed
<1>6. Opening' BY <1>1 DEF Opening
<1> QED BY <1>1, <1>2, <1>3, <1>4, <1>5, <1>6 DEF FormInv, ShellTyped, Loading

(* A request that is sent.                                                 *)
ShellSent(c) ==
         /\ c \in ShellCalls /\ OwnForm(c) /\ c.made = Shell!None /\ c.here /\ calls' = calls \cup {c}
         /\ UNCHANGED <<Shell!server, Shell!layout, Shell!page, astray>>
LEMMA SentTyped ==
  ASSUME Shell!ShellFit, FormInv, NEW c, ShellSent(c), ~dashboardsLoading, ModesTyped', GhostsTyped'
  PROVE  FormInv'
<1>0. /\ ServerTyped /\ LayoutTyped /\ PageTyped /\ CallsTyped /\ LoadInv /\ Opening
  BY DEF FormInv, ShellTyped
<1>1. CallsTyped' BY <1>0 DEF ShellSent, CallsTyped, OwnForm, Added, Deleted, Landed
<1>2. ServerTyped' /\ LayoutTyped' /\ PageTyped' /\ LoadInv'
  BY <1>0 DEF ShellSent, Shell!server, Shell!layout, Shell!page, ServerTyped, LayoutTyped, PageTyped, LoadInv, Shell!Mounted
<1>3. Opening' BY DEF ShellSent, Shell!layout, Opening
<1> QED BY <1>1, <1>2, <1>3 DEF FormInv, ShellTyped

LEMMA SubmitForm ==
  ASSUME Shell!ShellFit, FormInv, NEW op \in Selecting, Shell!Submit(op)
  PROVE  /\ FormInv' /\ ~dashboardsLoading
         /\ \E c : /\ ShellSent(c) /\ c.op = op /\ c.dash = activeDashboardId /\ c.panel = Shell!None
                   /\ op \in {"rename", "delete"} => activeDashboardId \in Shell!ToSet(dashboards)
                   /\ UNCHANGED <<overlapped, nowhere>>
                   /\ raced' = (raced \/ (op \in Shell!Changes /\ \E d \in calls : d.op \in Shell!Changes))
<1>0. ModesTyped /\ GhostsTyped /\ LayoutTyped BY DEF FormInv, ShellTyped
<1>1. /\ ~dashboardsLoading /\ busy' = TRUE /\ Shell!Ask(op, activeDashboardId, Shell!None)
      /\ raced' = (raced \/ (op \in Shell!Changes /\ \E c \in calls : c.op \in Shell!Changes))
      /\ UNCHANGED <<Shell!server, Shell!layout, editMode, panelLibraryOpen, dialogs, Shell!page, astray, overlapped, nowhere>>
  BY DEF Shell!Submit, Shell!Selector
<1>2. op \in {"rename", "delete"} => activeDashboardId \in Shell!ToSet(dashboards)
  BY DEF Shell!Submit, Shell!activeDashboard
<1>3. PICK c : c = [op |-> op, dash |-> activeDashboardId, panel |-> Shell!None, made |-> Shell!None, here |-> TRUE] OBVIOUS
<1>4. calls' = calls \cup {c} BY <1>1, <1>3 DEF Shell!Ask
<1>5. c \in ShellCalls BY <1>0, <1>3 DEF ShellCalls, LayoutTyped
<1>6. c.op = op /\ c.dash = activeDashboardId /\ c.panel = Shell!None /\ c.made = Shell!None /\ c.here BY <1>3
<1>7. OwnForm(c) BY <1>6 DEF OwnForm, Added, Deleted, Landed, Selecting, PanelOps, Moving, Shell!Changes, Shell!Creating
<1>8. ShellSent(c) BY <1>1, <1>4, <1>5, <1>6, <1>7 DEF ShellSent
<1>9. raced' \in BOOLEAN BY ONLY <1>1
<1>10. ModesTyped' BY <1>0, <1>1 DEF ModesTyped, Shell!layout, Shell!Mounted
<1>11. GhostsTyped' BY <1>0, <1>1, <1>9 DEF GhostsTyped
<1>12. FormInv' BY <1>1, <1>8, <1>10, <1>11, SentTyped
<1> QED BY <1>1, <1>2, <1>6, <1>8, <1>12

LEMMA PanelForm ==
  ASSUME Shell!ShellFit, FormInv, NEW op \in PanelOps, NEW p \in Panels \cup {Shell!None}, NEW d \in Dashboards, Shell!Panel(op, p, d)
  PROVE  /\ FormInv' /\ ~dashboardsLoading /\ layoutCall = Shell!NoCall
         /\ \E c : /\ ShellSent(c) /\ c.op = op /\ c.dash = d /\ c.panel = p
                   /\ op \in Moving <=> d # activeDashboardId
                   /\ p = Shell!None \/ p \in panels
                   /\ UNCHANGED Shell!races
<1>0. ModesTyped /\ GhostsTyped /\ LoadInv /\ Opening /\ LayoutTyped /\ PageTyped BY DEF FormInv, ShellTyped
<1>1. /\ Shell!Mounted /\ ~isLoadingLayout /\ Shell!Ask(op, d, p) /\ panelLibraryOpen' = (panelLibraryOpen /\ op # "add")
      /\ UNCHANGED <<Shell!server, Shell!layout, editMode, dialogs, busy, Shell!page, astray, Shell!races>>
  BY DEF Shell!Panel
<1>2. /\ op # "add" => p \in panels
      /\ op = "add" => p = Shell!None
      /\ op \in Moving => d # activeDashboardId
      /\ op \notin Moving => d = activeDashboardId
  BY DEF Shell!Panel, Moving
<1>3. layoutCall = Shell!NoCall /\ ~dashboardsLoading BY <1>0, <1>1 DEF LoadInv, Opening
<1>4. PICK c : c = [op |-> op, dash |-> d, panel |-> p, made |-> Shell!None, here |-> TRUE] OBVIOUS
<1>5. calls' = calls \cup {c} BY <1>1, <1>4 DEF Shell!Ask
<1>6. c \in ShellCalls BY <1>4 DEF ShellCalls
<1>7. c.op = op /\ c.dash = d /\ c.panel = p /\ c.made = Shell!None /\ c.here BY <1>4
<1>8. op # "add" => p \in Panels BY <1>0, <1>2 DEF PageTyped
<1>9. OwnForm(c) BY <1>7, <1>8 DEF OwnForm, Added, Deleted, Landed
<1>10. ShellSent(c) BY <1>1, <1>5, <1>6, <1>7, <1>9 DEF ShellSent
<1>11. panelLibraryOpen' \in BOOLEAN /\ (panelLibraryOpen' => panelLibraryOpen) BY ONLY <1>1
<1>12. ModesTyped' BY <1>0, <1>1, <1>11 DEF ModesTyped, Shell!layout, Shell!Mounted
<1>13. GhostsTyped' BY <1>0, <1>1 DEF GhostsTyped, Shell!races
<1>14. FormInv' BY <1>3, <1>10, <1>12, <1>13, SentTyped
<1> QED BY <1>1, <1>2, <1>3, <1>7, <1>10, <1>14

(* The menus, and the load of the panels.                                  *)
Menus == \/ \E on \in BOOLEAN : Shell!Edit(on)
         \/ Shell!Library \/ Shell!Close
         \/ \E item \in {"create", "rename", "delete"} : Shell!Open(item)
Panelled == <<rows, home, dashboards, activeDashboardId, dashboardsLoading, listCalls, path, calls, overlapped, raced, nowhere>>
LEMMA MenusTyped ==
  ASSUME Shell!ShellFit, FormInv, Menus
  PROVE  FormInv' /\ UNCHANGED Panelled /\ UNCHANGED <<Shell!page, astray>>
<1>0. ServerTyped /\ LayoutTyped /\ ModesTyped /\ PageTyped /\ CallsTyped /\ GhostsTyped /\ LoadInv /\ Opening
  BY DEF FormInv, ShellTyped
<1>1. UNCHANGED <<Shell!server, Shell!layout, busy, Shell!page, calls, astray, Shell!races>> BY DEF Menus, Shell!Edit, Shell!Library, Shell!Close, Shell!Open
<1>2. ServerTyped' /\ LayoutTyped' /\ PageTyped' /\ CallsTyped' /\ GhostsTyped' /\ LoadInv' /\ Opening'
  BY <1>0, <1>1 DEF ServerTyped, LayoutTyped, PageTyped, CallsTyped, GhostsTyped, LoadInv, Opening, Shell!server, Shell!layout, Shell!page, Shell!races,
                    Shell!Mounted, OwnForm, Added, Deleted, Landed
<1>3. ModesTyped'
  <2>1. ASSUME NEW on \in BOOLEAN, Shell!Edit(on) PROVE ModesTyped'
    <3>1. editMode' = on /\ panelLibraryOpen' = (panelLibraryOpen /\ on) /\ UNCHANGED <<dialogs, busy>> /\ UNCHANGED path
      BY <2>1 DEF Shell!Edit, Shell!LibraryOpen, Shell!layout
    <3>2. panelLibraryOpen' \in BOOLEAN /\ (panelLibraryOpen' => panelLibraryOpen /\ editMode') BY ONLY <3>1
    <3> QED BY <1>0, <2>1, <3>1, <3>2 DEF ModesTyped, Shell!Mounted
  <2>2. CASE Shell!Library
    <3>1. Shell!Mounted /\ editMode /\ panelLibraryOpen' = ~panelLibraryOpen /\ UNCHANGED <<editMode, dialogs, busy, path>>
      BY <2>2 DEF Shell!Library, Shell!layout
    <3>2. panelLibraryOpen' \in BOOLEAN BY ONLY <3>1
    <3> QED BY <1>0, <3>1, <3>2 DEF ModesTyped, Shell!Mounted
  <2>3. CASE Shell!Close BY <1>0, <2>3 DEF Shell!Close, ModesTyped, Shell!layout, Shell!Mounted
  <2>4. ASSUME NEW item \in {"create", "rename", "delete"}, Shell!Open(item) PROVE ModesTyped'
    BY <1>0, <2>4 DEF Shell!Open, ModesTyped, Shell!layout, Shell!Mounted
  <2> QED BY <2>1, <2>2, <2>3, <2>4 DEF Menus
<1> QED BY <1>1, <1>2, <1>3 DEF FormInv, ShellTyped, Panelled, Shell!server, Shell!layout, Shell!races

LEMMA LayoutCallTyped ==
  ASSUME Shell!ShellFit, FormInv, Shell!ServeLayout \/ Shell!LayoutAnswered
  PROVE  FormInv' /\ UNCHANGED Panelled
<1>0. /\ ServerTyped /\ LayoutTyped /\ ModesTyped /\ PageTyped /\ CallsTyped /\ GhostsTyped /\ LoadInv /\ Opening
      /\ layoutCall \in Loads
  BY DEF FormInv, ShellTyped, PageTyped, Shell!ServeLayout, Shell!LayoutAnswered
<1>1. UNCHANGED <<Shell!server, Shell!layout, Shell!modes, calls, Shell!races>> BY DEF Shell!ServeLayout, Shell!LayoutAnswered
<1>2. ServerTyped' /\ LayoutTyped' /\ ModesTyped' /\ CallsTyped'
  BY <1>0, <1>1 DEF ServerTyped, LayoutTyped, ModesTyped, CallsTyped, Shell!server, Shell!layout, Shell!modes,
                    Shell!Mounted, OwnForm, Added, Deleted, Landed
<1>3. ~dashboardsLoading /\ Shell!Mounted /\ layoutCall.dash = activeDashboardId BY <1>0, LoadForms DEF LoadInv
<1>4. Opening' BY <1>1, <1>3 DEF Opening, Shell!layout
<1>5. CASE Shell!ServeLayout
  <2>1. layoutCall' = [layoutCall EXCEPT !.ans = <<Shell!Housed(layoutCall.dash)>>] /\ UNCHANGED <<panels, isLoadingLayout, astray>>
    BY <1>5 DEF Shell!ServeLayout
  <2>2. Shell!Housed(layoutCall.dash) \in SUBSET Panels BY DEF Shell!Housed
  <2>3. layoutCall' \in Loads /\ layoutCall'.dash = layoutCall.dash
    <3>1. PICK s \in SUBSET Panels : layoutCall' = [layoutCall EXCEPT !.ans = <<s>>] BY <2>1, <2>2
    <3> QED BY <1>0, <3>1 DEF Loads
  <2>4. PageTyped' BY <1>0, <2>1, <2>3 DEF PageTyped
  <2>5. GhostsTyped' BY <1>0, <1>1, <2>1 DEF GhostsTyped, Shell!races
  <2>6. LoadInv' BY <1>0, <1>1, <1>3, <2>1, <2>3, LoadForms DEF LoadInv, Shell!layout, Shell!Mounted
  <2> QED BY <1>1, <1>2, <1>4, <2>4, <2>5, <2>6 DEF FormInv, ShellTyped, Panelled, Shell!server, Shell!layout, Shell!races
<1>6. CASE Shell!LayoutAnswered
  <2>1. /\ layoutCall' = Shell!NoCall /\ isLoadingLayout' = FALSE
        /\ \/ layoutCall.ans # <<>> /\ panels' = layoutCall.ans[1] /\ astray' = layoutCall.mixed
           \/ layoutCall.ans = <<>> /\ UNCHANGED panels /\ astray' = TRUE
    BY <1>6 DEF Shell!LayoutAnswered
  <2>2. panels' \subseteq Panels
    <3>1. layoutCall.ans # <<>> => layoutCall.ans[1] \in SUBSET Panels
      <4>1. layoutCall.ans # <<>> => \E s \in SUBSET Panels : layoutCall.ans = <<s>> BY <1>0, LoadForms
      <4> QED BY <4>1
    <3> QED BY <1>0, <2>1, <3>1 DEF PageTyped
  <2>3. astray' \in BOOLEAN BY <1>0, <2>1, LoadForms
  <2>4. PageTyped' BY <2>1, <2>2 DEF PageTyped
  <2>5. GhostsTyped' BY <1>0, <1>1, <2>3 DEF GhostsTyped, Shell!races
  <2>6. LoadInv' BY <1>1, <1>3, <2>1 DEF LoadInv, Shell!layout, Shell!Mounted
  <2> QED BY <1>1, <1>2, <1>4, <2>4, <2>5, <2>6 DEF FormInv, ShellTyped, Panelled, Shell!server, Shell!layout, Shell!races
<1> QED BY <1>5, <1>6

-----------------------------------------------------------------------------
(* The list, step by step.                                                 *)
Changing == SameSet /\ OneByOne /\ SameOrder
LEMMA SameList ==
  ASSUME Changing, UNCHANGED <<rows, dashboards, dashboardsLoading, overlapped, raced, calls>>
  PROVE  Changing' /\ (ChangesLanded' <=> ChangesLanded)
<1>1. ChangesLanded' <=> ChangesLanded BY DEF ChangesLanded, Added, Deleted, Landed
<1>2. SameSet' BY DEF Changing, SameSet, Added, Deleted, Landed
<1>3. OneByOne' BY DEF Changing, OneByOne
<1>4. SameOrder'
  <2>1. SUFFICES ASSUME (~dashboardsLoading /\ ~overlapped /\ ~raced)'
                 PROVE  /\ ~ChangesLanded' => dashboards' = rows'
                        /\ \A c \in calls' : Added(c) => rows' = Append(dashboards', c.made)
                        /\ \A c \in calls' : Deleted(c) => rows' = Shell!Kept(dashboards', Dashboards \ {c.dash})
    BY DEF SameOrder, Added, Deleted, Landed
  <2>2. /\ ~ChangesLanded => dashboards = rows
        /\ \A c \in calls : Added(c) => rows = Append(dashboards, c.made)
        /\ \A c \in calls : Deleted(c) => rows = Shell!Kept(dashboards, Dashboards \ {c.dash})
    BY <2>1 DEF Changing, SameOrder
  <2> QED BY <1>1, <2>2
<1> QED BY <1>1, <1>2, <1>3, <1>4 DEF Changing

(* The requests of a page that is left count no more for it.               *)
LEMMA SameChanges ==
  ASSUME CallsTyped, Changing, UNCHANGED <<rows, dashboards, dashboardsLoading, overlapped, raced>>,
         calls' = {[c EXCEPT !.here = FALSE] : c \in calls}
  PROVE  Changing' /\ (ChangesLanded' <=> ChangesLanded)
<1>0. \A c \in calls : /\ c \in ShellCalls /\ [c EXCEPT !.here = FALSE] \in calls'
                       /\ [c EXCEPT !.here = FALSE].op = c.op /\ [c EXCEPT !.here = FALSE].dash = c.dash
                       /\ [c EXCEPT !.here = FALSE].panel = c.panel /\ [c EXCEPT !.here = FALSE].made = c.made
  BY ShellCallFields DEF CallsTyped
<1>1. PICK h : h = [c \in calls |-> [c EXCEPT !.here = FALSE]] OBVIOUS
<1>2. /\ \A c \in calls : /\ h[c] \in calls' /\ h[c].op = c.op /\ h[c].dash = c.dash /\ h[c].panel = c.panel /\ h[c].made = c.made
      /\ \A e \in calls' : \E c \in calls : e = h[c]
  BY <1>0, <1>1
<1>3. \A d : (\E e \in calls' : Deleted(e) /\ e.dash = d) <=> (\E c \in calls : Deleted(c) /\ c.dash = d)
  BY ONLY <1>2 DEF Deleted, Landed
<1>4. \A d : (\E e \in calls' : Added(e) /\ e.made = d) <=> (\E c \in calls : Added(c) /\ c.made = d)
  BY ONLY <1>2 DEF Added, Landed
<1>5. ChangesLanded' <=> ChangesLanded
  <2>1. ChangesLanded <=> \E d : (\E c \in calls : Deleted(c) /\ c.dash = d) \/ (\E c \in calls : Added(c) /\ c.made = d)
    BY DEF ChangesLanded
  <2>2. ChangesLanded' <=> \E d : (\E c \in calls' : Deleted(c) /\ c.dash = d) \/ (\E c \in calls' : Added(c) /\ c.made = d)
    BY DEF ChangesLanded, Added, Deleted, Landed
  <2> QED BY <1>3, <1>4, <2>1, <2>2
<1>6. SameSet'
  <2>1. SUFFICES ASSUME ~dashboardsLoading /\ ~overlapped
                 PROVE  /\ \A d \in Dashboards : (d \in Shell!ToSet(dashboards) /\ d \notin Shell!ToSet(rows)) <=> \E c \in calls' : Deleted(c) /\ c.dash = d
                        /\ \A d \in Dashboards : (d \in Shell!ToSet(rows) /\ d \notin Shell!ToSet(dashboards)) <=> \E c \in calls' : Added(c) /\ c.made = d
                        /\ \A c \in calls' : c.op = "delete" /\ c.dash \in Shell!ToSet(rows) => c.dash \in Shell!ToSet(dashboards)
                        /\ \A c, d \in calls' : Added(c) /\ Added(d) /\ c.made = d.made => c = d
                        /\ \A c, d \in calls' : Deleted(c) /\ Deleted(d) /\ c.dash = d.dash => c = d
    BY DEF SameSet, Added, Deleted, Landed
  <2>2. /\ \A d \in Dashboards : (d \in Shell!ToSet(dashboards) /\ d \notin Shell!ToSet(rows)) <=> \E c \in calls : Deleted(c) /\ c.dash = d
        /\ \A d \in Dashboards : (d \in Shell!ToSet(rows) /\ d \notin Shell!ToSet(dashboards)) <=> \E c \in calls : Added(c) /\ c.made = d
        /\ \A c \in calls : c.op = "delete" /\ c.dash \in Shell!ToSet(rows) => c.dash \in Shell!ToSet(dashboards)
        /\ \A c, d \in calls : Added(c) /\ Added(d) /\ c.made = d.made => c = d
        /\ \A c, d \in calls : Deleted(c) /\ Deleted(d) /\ c.dash = d.dash => c = d
    BY <2>1 DEF Changing, SameSet
  <2>3. \A c, d \in calls' : Added(c) /\ Added(d) /\ c.made = d.made => c = d BY ONLY <1>2, <2>2 DEF Added, Landed
  <2>4. \A c, d \in calls' : Deleted(c) /\ Deleted(d) /\ c.dash = d.dash => c = d BY ONLY <1>2, <2>2 DEF Deleted, Landed
  <2>5. \A c \in calls' : c.op = "delete" /\ c.dash \in Shell!ToSet(rows) => c.dash \in Shell!ToSet(dashboards) BY ONLY <1>2, <2>2
  <2> QED BY <1>3, <1>4, <2>2, <2>3, <2>4, <2>5
<1>7. OneByOne'
  <2>1. ~raced' => \A c, d \in calls : c.op \in Shell!Changes /\ d.op \in Shell!Changes => c = d BY DEF Changing, OneByOne
  <2> SUFFICES ASSUME ~raced', NEW x \in calls', NEW y \in calls', x.op \in Shell!Changes, y.op \in Shell!Changes PROVE x = y
    BY DEF OneByOne
  <2> QED BY ONLY <1>2, <2>1, ~raced', x \in calls', y \in calls', x.op \in Shell!Changes, y.op \in Shell!Changes
<1>8. SameOrder'
  <2>1. SUFFICES ASSUME ~dashboardsLoading /\ ~overlapped /\ ~raced
                 PROVE  /\ ~ChangesLanded' => dashboards = rows
                        /\ \A c \in calls' : Added(c) => rows = Append(dashboards, c.made)
                        /\ \A c \in calls' : Deleted(c) => rows = Shell!Kept(dashboards, Dashboards \ {c.dash})
    BY DEF SameOrder, Added, Deleted, Landed
  <2>2. /\ ~ChangesLanded => dashboards = rows
        /\ \A c \in calls : Added(c) => rows = Append(dashboards, c.made)
        /\ \A c \in calls : Deleted(c) => rows = Shell!Kept(dashboards, Dashboards \ {c.dash})
    BY <2>1 DEF Changing, SameOrder
  <2>3. \A c \in calls' : Added(c) => rows = Append(dashboards, c.made) BY ONLY <1>2, <2>2 DEF Added, Landed
  <2>4. \A c \in calls' : Deleted(c) => rows = Shell!Kept(dashboards, Dashboards \ {c.dash}) BY ONLY <1>2, <2>2 DEF Deleted, Landed
  <2> QED BY <1>5, <2>2, <2>3, <2>4
<1> QED BY <1>5, <1>6, <1>7, <1>8 DEF Changing

LEMMA ListListed ==
  ASSUME Shell!ShellFit, FormInv, ListInv, NEW i \in DOMAIN listCalls, Shell!ServeList(i) \/ Shell!ListAnswered(i) \/ Shell!ListFailed(i)
  PROVE  ListInv'
<1>0. /\ Changing /\ FreshLists /\ ActiveListed /\ rows \in Seq(Dashboards)
      /\ listCalls \in Seq({Shell!Unserved} \cup Seq(Dashboards))
  BY DEF ListInv, Changing, FormInv, ShellTyped, LayoutTyped, ServerTyped
<1>1. \A k \in DOMAIN Shell!RemoveAt(listCalls, i) : \E j \in DOMAIN listCalls : Shell!RemoveAt(listCalls, i)[k] = listCalls[j]
  BY <1>0, ListCut
<1>2. CASE Shell!ServeList(i)
  <2>1. /\ listCalls' = [listCalls EXCEPT ![i] = rows]
        /\ UNCHANGED <<rows, dashboards, activeDashboardId, dashboardsLoading, overlapped, raced, nowhere, calls>>
    BY <1>2 DEF Shell!ServeList, Shell!server, Shell!races
  <2>2. Changing' /\ (ChangesLanded' <=> ChangesLanded) BY <1>0, <2>1, SameList
  <2>3. FreshLists' BY <1>0, <2>1, <2>2 DEF FreshLists
  <2>4. ActiveListed' BY <1>0, <2>1 DEF ActiveListed
  <2> QED BY <2>2, <2>3, <2>4 DEF ListInv, Changing
<1>3. CASE Shell!ListAnswered(i)
  <2>1. PICK list : list = listCalls[i] OBVIOUS
  <2>2. /\ list # Shell!Unserved /\ dashboards' = list /\ dashboardsLoading' = FALSE
        /\ listCalls' \in {Shell!RemoveAt(listCalls, i), Append(Shell!RemoveAt(listCalls, i), Shell!Unserved)}
        /\ UNCHANGED <<rows, calls, raced, nowhere>>
        /\ overlapped' = (overlapped \/ dashboards # <<>> \/ calls # {})
    BY <1>3, <2>1 DEF Shell!ListAnswered, Shell!server
  <2>3. IF dashboards' = <<>> THEN activeDashboardId' = NoDash ELSE activeDashboardId' \in Shell!ToSet(dashboards')
    BY <1>3, ListTyped
  <2>4. ActiveListed' BY <2>3 DEF ActiveListed
  <2>5. OneByOne' BY <1>0, <2>2 DEF OneByOne, Changing
  <2>6. CASE ~overlapped'
    <3>1. ~overlapped /\ dashboards = <<>> /\ calls = {} BY <2>2, <2>6
    <3>2. ~ChangesLanded /\ ~ChangesLanded' BY <2>2, <3>1 DEF ChangesLanded
    <3>3. \A j \in DOMAIN listCalls : listCalls[j] \in {Shell!Unserved, rows} BY <1>0, <3>1, <3>2 DEF FreshLists
    <3>4. list = rows BY <2>1, <2>2, <3>3
    <3>5. SameSet' BY <2>2, <3>1, <3>4 DEF SameSet
    <3>6. SameOrder' BY <2>2, <3>1, <3>4 DEF SameOrder
    <3>9. PICK cut : cut = Shell!RemoveAt(listCalls, i) OBVIOUS
    <3>10. cut \in Seq({Shell!Unserved} \cup Seq(Dashboards)) /\ \A k \in DOMAIN cut : \E j \in DOMAIN listCalls : cut[k] = listCalls[j]
      BY <1>0, <3>9, ListCut
    <3>11. \A k \in DOMAIN listCalls' : listCalls'[k] = Shell!Unserved \/ \E j \in DOMAIN cut : listCalls'[k] = cut[j]
      BY <2>2, <3>9, <3>10, AskedAgain
    <3>7. \A k \in DOMAIN listCalls' : listCalls'[k] \in {Shell!Unserved, rows'} BY <2>2, <3>3, <3>10, <3>11
    <3>8. FreshLists' BY <3>7 DEF FreshLists
    <3> QED BY <2>4, <2>5, <3>5, <3>6, <3>8 DEF ListInv
  <2>7. CASE overlapped' BY <2>4, <2>5, <2>7 DEF ListInv, SameSet, SameOrder, FreshLists
  <2> QED BY <2>6, <2>7
<1>4. CASE Shell!ListFailed(i)
  <2>1. overlapped' = TRUE /\ UNCHANGED <<calls, raced>> BY <1>4 DEF Shell!ListFailed
  <2>2. OneByOne' BY <1>0, <2>1 DEF OneByOne, Changing
  <2> QED BY <2>1, <2>2 DEF ListInv, SameSet, SameOrder, FreshLists, ActiveListed
<1> QED BY <1>2, <1>3, <1>4

LEMMA NavigateListed ==
  ASSUME Shell!ShellFit, FormInv, ListInv, NEW pth \in {"dashboard", "other"}, NEW q \in Dashboards \cup {NoDash}, Shell!Navigate(pth, q)
  PROVE  ListInv'
<1>0. /\ Changing /\ FreshLists /\ ActiveListed /\ CallsTyped /\ dashboards \in Seq(Dashboards)
      /\ listCalls \in Seq({Shell!Unserved} \cup Seq(Dashboards))
  BY DEF ListInv, Changing, FormInv, ShellTyped, LayoutTyped
<1>1. /\ activeDashboardId' = Shell!Named(dashboards, q, activeDashboardId)
      /\ calls' = (IF pth = path THEN calls ELSE {[c EXCEPT !.here = FALSE] : c \in calls})
      /\ UNCHANGED <<rows, dashboards, dashboardsLoading, overlapped, raced, nowhere>>
  BY DEF Shell!Navigate, Shell!server, Shell!races
<1>2. listCalls' = listCalls \/ listCalls' = Append(listCalls, Shell!Unserved) BY DEF Shell!Navigate
<1>3. Changing' /\ (ChangesLanded' <=> ChangesLanded) BY <1>0, <1>1, SameList, SameChanges
<1>4. FreshLists'
  <2>1. \A k \in DOMAIN listCalls' : listCalls'[k] = Shell!Unserved \/ \E j \in DOMAIN listCalls : listCalls'[k] = listCalls[j]
    BY SMTT(40), <1>0, <1>2, AskedAgain
  <2> QED BY <1>0, <1>1, <1>3, <2>1 DEF FreshLists
<1>5. ActiveListed'
  <2>1. dashboards = <<>> => Shell!ToSet(dashboards) = {} BY <1>0, SetOf
  <2>2. activeDashboardId' = activeDashboardId \/ activeDashboardId' \in Shell!ToSet(dashboards) BY <1>1, NamedIs
  <2> QED BY <1>0, <1>1, <2>1, <2>2 DEF ActiveListed
<1> QED BY <1>3, <1>4, <1>5 DEF ListInv, Changing

LEMMA SentListed ==
  ASSUME Shell!ShellFit, FormInv, ListInv, NEW c, ShellSent(c), ~dashboardsLoading, UNCHANGED <<overlapped, nowhere>>,
         raced' = (raced \/ (c.op \in Shell!Changes /\ \E d \in calls : d.op \in Shell!Changes)),
         c.op = "delete" => c.dash \in Shell!ToSet(dashboards)
  PROVE  ListInv'
<1>0. /\ Changing /\ FreshLists /\ ActiveListed BY DEF ListInv, Changing
<1>1. /\ calls' = calls \cup {c} /\ ~Added(c) /\ ~Deleted(c)
      /\ UNCHANGED <<rows, dashboards, activeDashboardId, dashboardsLoading, listCalls>>
  BY DEF ShellSent, Shell!server, Shell!layout, Added, Deleted, Landed
<1>2. ChangesLanded' <=> ChangesLanded BY <1>1 DEF ChangesLanded, Added, Deleted, Landed
<1>3. FreshLists' BY <1>0, <1>1, <1>2 DEF FreshLists
<1>4. ActiveListed' BY <1>0, <1>1 DEF ActiveListed
<1>5. OneByOne'
  <2>1. SUFFICES ASSUME ~raced', NEW x \in calls', NEW y \in calls', x.op \in Shell!Changes, y.op \in Shell!Changes PROVE x = y BY DEF OneByOne
  <2>2. ~raced /\ (c.op \in Shell!Changes => ~\E d \in calls : d.op \in Shell!Changes) BY <2>1
  <2> QED BY <1>0, <1>1, <2>1, <2>2 DEF OneByOne, Changing
<1>6. SameSet'
  <2>1. SUFFICES ASSUME ~dashboardsLoading /\ ~overlapped
                 PROVE  /\ \A d \in Dashboards : (d \in Shell!ToSet(dashboards) /\ d \notin Shell!ToSet(rows)) <=> \E x \in calls' : Deleted(x) /\ x.dash = d
                        /\ \A d \in Dashboards : (d \in Shell!ToSet(rows) /\ d \notin Shell!ToSet(dashboards)) <=> \E x \in calls' : Added(x) /\ x.made = d
                        /\ \A x \in calls' : x.op = "delete" /\ x.dash \in Shell!ToSet(rows) => x.dash \in Shell!ToSet(dashboards)
                        /\ \A x, d \in calls' : Added(x) /\ Added(d) /\ x.made = d.made => x = d
                        /\ \A x, d \in calls' : Deleted(x) /\ Deleted(d) /\ x.dash = d.dash => x = d
    BY <1>1 DEF SameSet, Added, Deleted, Landed
  <2> QED BY <1>0, <1>1, <2>1 DEF SameSet, Changing
<1>7. SameOrder'
  <2>1. raced' \/ ~raced BY ONLY raced' = (raced \/ (c.op \in Shell!Changes /\ \E d \in calls : d.op \in Shell!Changes))
  <2>2. SUFFICES ASSUME ~dashboardsLoading /\ ~overlapped /\ ~raced
                 PROVE  /\ ~ChangesLanded' => dashboards = rows
                        /\ \A x \in calls' : Added(x) => rows = Append(dashboards, x.made)
                        /\ \A x \in calls' : Deleted(x) => rows = Shell!Kept(dashboards, Dashboards \ {x.dash})
    BY <1>1, <2>1 DEF SameOrder, Added, Deleted, Landed
  <2>3. /\ ~ChangesLanded => dashboards = rows
        /\ \A x \in calls : Added(x) => rows = Append(dashboards, x.made)
        /\ \A x \in calls : Deleted(x) => rows = Shell!Kept(dashboards, Dashboards \ {x.dash})
    BY <1>0, <2>2 DEF SameOrder, Changing
  <2> QED BY <1>1, <1>2, <2>3
<1> QED BY <1>3, <1>4, <1>5, <1>6, <1>7 DEF ListInv

(* A request that is served.                                               *)
LEMMA ServeListed ==
  ASSUME Shell!ShellFit, FormInv, ListInv, NEW c \in calls, NEW e, ShellServed(c, e)
  PROVE  ListInv'
<1>0. /\ Changing /\ FreshLists /\ ActiveListed /\ rows \in Seq(Dashboards) /\ dashboards \in Seq(Dashboards)
  BY DEF ListInv, Changing, FormInv, ShellTyped, LayoutTyped, ServerTyped
<1>1. /\ calls' = (calls \ {c}) \cup {e} /\ c.made = Shell!None /\ e.op = c.op /\ e.dash = c.dash
      /\ UNCHANGED <<dashboards, activeDashboardId, dashboardsLoading, listCalls, overlapped, raced, nowhere>>
  BY DEF ShellServed, Shell!layout, Shell!races
<1>2. ~Added(c) /\ ~Deleted(c) BY <1>1 DEF Added, Deleted, Landed
<1>3. ActiveListed' BY <1>0, <1>1 DEF ActiveListed
<1>4. OneByOne'
  <2>1. SUFFICES ASSUME ~raced, NEW x \in calls', NEW y \in calls', x.op \in Shell!Changes, y.op \in Shell!Changes PROVE x = y
    BY <1>1 DEF OneByOne
  <2>2. \A a, b \in calls : a.op \in Shell!Changes /\ b.op \in Shell!Changes => a = b BY <1>0, <2>1 DEF OneByOne, Changing
  <2> QED BY ONLY <1>1, <2>1, <2>2, c \in calls
<1>5. Shell!ToSet(rows) \subseteq Dashboards /\ Shell!ToSet(dashboards) \subseteq Dashboards BY <1>0, SetOf
<1>6. ASSUME ~dashboardsLoading /\ ~overlapped
      PROVE  /\ \A d \in Dashboards : (d \in Shell!ToSet(dashboards) /\ d \notin Shell!ToSet(rows)) <=> \E x \in calls : Deleted(x) /\ x.dash = d
             /\ \A d \in Dashboards : (d \in Shell!ToSet(rows) /\ d \notin Shell!ToSet(dashboards)) <=> \E x \in calls : Added(x) /\ x.made = d
             /\ \A x \in calls : x.op = "delete" /\ x.dash \in Shell!ToSet(rows) => x.dash \in Shell!ToSet(dashboards)
             /\ \A x, y \in calls : Added(x) /\ Added(y) /\ x.made = y.made => x = y
             /\ \A x, y \in calls : Deleted(x) /\ Deleted(y) /\ x.dash = y.dash => x = y
  BY <1>0, <1>6 DEF Changing, SameSet
<1>7. ASSUME ~dashboardsLoading /\ ~overlapped /\ ~raced
      PROVE  /\ ~ChangesLanded => dashboards = rows
             /\ \A x \in calls : Added(x) => rows = Append(dashboards, x.made)
             /\ \A x \in calls : Deleted(x) => rows = Shell!Kept(dashboards, Dashboards \ {x.dash})
  BY <1>0, <1>7 DEF Changing, SameOrder
<1>8. ASSUME ~raced, e.op \in Shell!Changes PROVE \A x \in calls \ {c} : x.op \notin Shell!Changes
  BY <1>0, <1>1, <1>8 DEF Changing, OneByOne
<1>9. ASSUME ~raced, e.op \in Shell!Changes PROVE ~ChangesLanded
  BY <1>2, <1>8, <1>9 DEF ChangesLanded, Added, Deleted, Shell!Changes, Shell!Creating
<1>10. CASE rows' = rows /\ ~Added(e) /\ ~Deleted(e)
  <2>1. ChangesLanded' <=> ChangesLanded BY <1>1, <1>2, <1>10 DEF ChangesLanded, Added, Deleted, Landed
  <2>2. FreshLists' BY <1>0, <1>1, <1>10, <2>1 DEF FreshLists
  <2>3. SameSet'
    <3>1. SUFFICES ASSUME ~dashboardsLoading /\ ~overlapped
                   PROVE  /\ \A d \in Dashboards : (d \in Shell!ToSet(dashboards) /\ d \notin Shell!ToSet(rows)) <=> \E x \in calls' : Deleted(x) /\ x.dash = d
                          /\ \A d \in Dashboards : (d \in Shell!ToSet(rows) /\ d \notin Shell!ToSet(dashboards)) <=> \E x \in calls' : Added(x) /\ x.made = d
                          /\ \A x \in calls' : x.op = "delete" /\ x.dash \in Shell!ToSet(rows) => x.dash \in Shell!ToSet(dashboards)
                          /\ \A x, d \in calls' : Added(x) /\ Added(d) /\ x.made = d.made => x = d
                          /\ \A x, d \in calls' : Deleted(x) /\ Deleted(d) /\ x.dash = d.dash => x = d
      BY <1>1, <1>10 DEF SameSet, Added, Deleted, Landed
    <3> QED BY ONLY <1>1, <1>2, <1>6, <1>10, <3>1, c \in calls
  <2>4. SameOrder'
    <3>1. SUFFICES ASSUME ~dashboardsLoading /\ ~overlapped /\ ~raced
                   PROVE  /\ ~ChangesLanded' => dashboards = rows
                          /\ \A x \in calls' : Added(x) => rows = Append(dashboards, x.made)
                          /\ \A x \in calls' : Deleted(x) => rows = Shell!Kept(dashboards, Dashboards \ {x.dash})
      BY <1>1, <1>10 DEF SameOrder, Added, Deleted, Landed
    <3> QED BY ONLY <1>1, <1>7, <1>10, <2>1, <3>1
  <2> QED BY <1>3, <1>4, <2>2, <2>3, <2>4 DEF ListInv
<1>11. CASE Added(e) /\ e.made \in Shell!FreeDash /\ rows' = Append(rows, e.made)
  <2>0. PICK m : m = e.made OBVIOUS
  <2>1. /\ m \in Dashboards /\ m \notin Shell!ToSet(rows) /\ m \notin Shell!ToSet(dashboards) /\ \A x \in calls : x.dash # m
    BY <1>11, <2>0 DEF Shell!FreeDash
  <2>2. Shell!ToSet(rows') = Shell!ToSet(rows) \cup {m} BY <1>0, <1>11, <2>0, <2>1, SetOf
  <2>3. e.op \in Shell!Changes /\ e.op # "delete" /\ ~Deleted(e) BY <1>11 DEF Added, Deleted, Shell!Changes, Shell!Creating
  <2>4. FreshLists'
    <3>1. ChangesLanded' BY <1>1, <1>11 DEF ChangesLanded, Added, Landed, Deleted
    <3> QED BY <3>1 DEF FreshLists
  <2>5. SameSet'
    <3>1. SUFFICES ASSUME ~dashboardsLoading /\ ~overlapped
                   PROVE  /\ \A d \in Dashboards : (d \in Shell!ToSet(dashboards) /\ d \notin Shell!ToSet(rows')) <=> \E x \in calls' : Deleted(x) /\ x.dash = d
                          /\ \A d \in Dashboards : (d \in Shell!ToSet(rows') /\ d \notin Shell!ToSet(dashboards)) <=> \E x \in calls' : Added(x) /\ x.made = d
                          /\ \A x \in calls' : x.op = "delete" /\ x.dash \in Shell!ToSet(rows') => x.dash \in Shell!ToSet(dashboards)
                          /\ \A x, d \in calls' : Added(x) /\ Added(d) /\ x.made = d.made => x = d
                          /\ \A x, d \in calls' : Deleted(x) /\ Deleted(d) /\ x.dash = d.dash => x = d
      BY <1>1 DEF SameSet, Added, Deleted, Landed
    <3>2. \A d \in Dashboards : (d \in Shell!ToSet(dashboards) /\ d \notin Shell!ToSet(rows')) <=> \E x \in calls' : Deleted(x) /\ x.dash = d
      BY ONLY <1>1, <1>2, <1>6, <2>1, <2>2, <2>3, <3>1, c \in calls
    <3>3. \A d \in Dashboards : (d \in Shell!ToSet(rows') /\ d \notin Shell!ToSet(dashboards)) <=> \E x \in calls' : Added(x) /\ x.made = d
      BY ONLY <1>1, <1>2, <1>6, <1>11, <2>0, <2>1, <2>2, <3>1, c \in calls
    <3>4. \A x \in calls' : x.op = "delete" /\ x.dash \in Shell!ToSet(rows') => x.dash \in Shell!ToSet(dashboards)
      BY ONLY <1>1, <1>6, <2>1, <2>2, <2>3, <3>1, c \in calls
    <3>5. \A x \in calls : Added(x) => x.made # m BY ONLY <1>6, <2>1, <3>1
    <3>6. \A x, d \in calls' : Added(x) /\ Added(d) /\ x.made = d.made => x = d
      BY ONLY <1>1, <1>6, <2>0, <3>1, <3>5
    <3>7. \A x, d \in calls' : Deleted(x) /\ Deleted(d) /\ x.dash = d.dash => x = d BY ONLY <1>1, <1>6, <2>3, <3>1
    <3> QED BY <3>2, <3>3, <3>4, <3>6, <3>7
  <2>6. SameOrder'
    <3>1. SUFFICES ASSUME ~dashboardsLoading /\ ~overlapped /\ ~raced
                   PROVE  /\ ~ChangesLanded' => dashboards = rows'
                          /\ \A x \in calls' : Added(x) => rows' = Append(dashboards, x.made)
                          /\ \A x \in calls' : Deleted(x) => rows' = Shell!Kept(dashboards, Dashboards \ {x.dash})
      BY <1>1 DEF SameOrder, Added, Deleted, Landed
    <3>2. rows = dashboards BY <1>7, <1>9, <2>3, <3>1
    <3>3. \A x \in calls \ {c} : ~Added(x) /\ ~Deleted(x) BY <1>8, <2>3, <3>1 DEF Added, Deleted, Shell!Changes, Shell!Creating
    <3>4. ChangesLanded' BY <1>1, <1>11 DEF ChangesLanded, Added, Landed, Deleted
    <3> QED BY <1>1, <1>11, <2>3, <3>2, <3>3, <3>4
  <2> QED BY <1>3, <1>4, <2>4, <2>5, <2>6 DEF ListInv
<1>12. CASE Deleted(e) /\ e.dash \in Shell!ToSet(rows) /\ rows' = Shell!Kept(rows, Dashboards \ {e.dash})
  <2>0. PICK m : m = e.dash OBVIOUS
  <2>1. m \in Dashboards /\ m \in Shell!ToSet(rows) BY <1>5, <1>12, <2>0
  <2>2. Shell!ToSet(rows') = Shell!ToSet(rows) \ {m} BY <1>0, <1>12, <2>0, KeptOf
  <2>3. e.op \in Shell!Changes /\ e.op = "delete" /\ ~Added(e) BY <1>12 DEF Added, Deleted, Shell!Changes, Shell!Creating
  <2>4. FreshLists'
    <3>1. ChangesLanded' BY <1>1, <1>12 DEF ChangesLanded, Added, Landed, Deleted
    <3> QED BY <3>1 DEF FreshLists
  <2>5. SameSet'
    <3>1. SUFFICES ASSUME ~dashboardsLoading /\ ~overlapped
                   PROVE  /\ \A d \in Dashboards : (d \in Shell!ToSet(dashboards) /\ d \notin Shell!ToSet(rows')) <=> \E x \in calls' : Deleted(x) /\ x.dash = d
                          /\ \A d \in Dashboards : (d \in Shell!ToSet(rows') /\ d \notin Shell!ToSet(dashboards)) <=> \E x \in calls' : Added(x) /\ x.made = d
                          /\ \A x \in calls' : x.op = "delete" /\ x.dash \in Shell!ToSet(rows') => x.dash \in Shell!ToSet(dashboards)
                          /\ \A x, d \in calls' : Added(x) /\ Added(d) /\ x.made = d.made => x = d
                          /\ \A x, d \in calls' : Deleted(x) /\ Deleted(d) /\ x.dash = d.dash => x = d
      BY <1>1 DEF SameSet, Added, Deleted, Landed
    <3>0. m \in Shell!ToSet(dashboards) BY ONLY <1>1, <1>6, <2>0, <2>1, <2>3, <3>1, c \in calls
    <3>2. \A d \in Dashboards : (d \in Shell!ToSet(dashboards) /\ d \notin Shell!ToSet(rows')) <=> \E x \in calls' : Deleted(x) /\ x.dash = d
      BY ONLY <1>1, <1>2, <1>6, <1>12, <2>0, <2>1, <2>2, <3>0, <3>1, c \in calls
    <3>3. \A d \in Dashboards : (d \in Shell!ToSet(rows') /\ d \notin Shell!ToSet(dashboards)) <=> \E x \in calls' : Added(x) /\ x.made = d
      BY ONLY <1>1, <1>2, <1>6, <2>1, <2>2, <2>3, <3>0, <3>1, c \in calls
    <3>4. \A x \in calls' : x.op = "delete" /\ x.dash \in Shell!ToSet(rows') => x.dash \in Shell!ToSet(dashboards)
      BY ONLY <1>1, <1>6, <2>0, <2>2, <3>1
    <3>5. \A x \in calls : Deleted(x) => x.dash # m BY ONLY <1>6, <2>1, <3>1
    <3>6. \A x, d \in calls' : Deleted(x) /\ Deleted(d) /\ x.dash = d.dash => x = d
      BY ONLY <1>1, <1>6, <2>0, <3>1, <3>5
    <3>7. \A x, d \in calls' : Added(x) /\ Added(d) /\ x.made = d.made => x = d BY ONLY <1>1, <1>6, <2>3, <3>1
    <3> QED BY <3>2, <3>3, <3>4, <3>6, <3>7
  <2>6. SameOrder'
    <3>1. SUFFICES ASSUME ~dashboardsLoading /\ ~overlapped /\ ~raced
                   PROVE  /\ ~ChangesLanded' => dashboards = rows'
                          /\ \A x \in calls' : Added(x) => rows' = Append(dashboards, x.made)
                          /\ \A x \in calls' : Deleted(x) => rows' = Shell!Kept(dashboards, Dashboards \ {x.dash})
      BY <1>1 DEF SameOrder, Added, Deleted, Landed
    <3>2. rows = dashboards BY <1>7, <1>9, <2>3, <3>1
    <3>3. \A x \in calls \ {c} : ~Added(x) /\ ~Deleted(x) BY <1>8, <2>3, <3>1 DEF Added, Deleted, Shell!Changes, Shell!Creating
    <3>4. ChangesLanded' BY <1>1, <1>12 DEF ChangesLanded, Added, Landed, Deleted
    <3> QED BY <1>1, <1>12, <2>3, <3>2, <3>3, <3>4
  <2> QED BY <1>3, <1>4, <2>4, <2>5, <2>6 DEF ListInv
<1>13. CASE e.made = "failed" /\ UNCHANGED Shell!server
  <2>1. ~Added(e) /\ ~Deleted(e) /\ rows' = rows BY <1>13 DEF Added, Deleted, Landed, Shell!server
  <2> QED BY <1>10, <2>1
<1>14. CASE Carried(e)
  <2>1. CASE e.op \notin Shell!Changes
    <3>1. ~Added(e) /\ ~Deleted(e) BY <2>1 DEF Added, Deleted, Shell!Creating, Shell!Changes
    <3>2. rows' = rows BY <1>14, <3>1 DEF Carried, Shell!server
    <3> QED BY <1>10, <3>1, <3>2
  <2>2. CASE e.op \in Shell!Changes
    <3>1. \/ Added(e) /\ e.made \in Shell!FreeDash /\ rows' = Append(rows, e.made)
          \/ Deleted(e) /\ e.dash \in Shell!ToSet(rows) /\ rows' = Shell!Kept(rows, Dashboards \ {e.dash})
      BY <1>14, <2>2 DEF Carried, Shell!Creating, Shell!Changes
    <3> QED BY <1>11, <1>12, <3>1
  <2> QED BY <2>1, <2>2
<1> QED BY <1>13, <1>14 DEF ShellServed

(* A request that is answered.                                             *)
LEMMA AnswerListed ==
  ASSUME Shell!ShellFit, FormInv, ListInv, NEW c \in calls, Shell!Answered(c)
  PROVE  ListInv'
<1>0. /\ Changing /\ FreshLists /\ ActiveListed /\ rows \in Seq(Dashboards) /\ dashboards \in Seq(Dashboards)
      /\ LayoutTyped /\ PageTyped /\ LoadInv /\ panels \in SUBSET Panels /\ c \in ShellCalls /\ OwnForm(c)
      /\ listCalls \in Seq({Shell!Unserved} \cup Seq(Dashboards)) /\ ~dashboardsLoading
  BY DEF ListInv, Changing, FormInv, ShellTyped, LayoutTyped, ServerTyped, PageTyped, CallsTyped, Opening
<1>1. /\ c.made # Shell!None /\ calls' = calls \ {c} /\ UNCHANGED <<rows, dashboardsLoading, path, raced>>
      /\ overlapped' = (overlapped \/ Shell!InFlight)
      /\ nowhere' = (nowhere \/ (c.made # "failed" /\ c.op \in {"move", "copy"} /\ c.dash \notin Shell!ToSet(dashboards)))
      /\ listCalls' = listCalls \/ listCalls' = Append(listCalls, Shell!Unserved)
  BY DEF Shell!Answered, Shell!server
<1>2. ASSUME ~overlapped' PROVE ~overlapped /\ listCalls = <<>> BY ONLY <1>1, <1>2 DEF Shell!InFlight
<1>3. FreshLists'
  <2>1. SUFFICES ASSUME ~overlapped' PROVE \A k \in DOMAIN listCalls' : listCalls'[k] \in {Shell!Unserved, rows'} BY DEF FreshLists
  <2>2. \A k \in DOMAIN listCalls' : listCalls'[k] = Shell!Unserved \/ \E j \in DOMAIN listCalls : listCalls'[k] = listCalls[j]
    BY <1>0, <1>1, AskedAgain
  <2>3. DOMAIN listCalls = {} BY <1>2, <2>1
  <2> QED BY <2>2, <2>3
<1>4. OneByOne' BY <1>0, <1>1 DEF OneByOne, Changing
<1>5. ASSUME ~overlapped'
      PROVE  /\ \A d \in Dashboards : (d \in Shell!ToSet(dashboards) /\ d \notin Shell!ToSet(rows)) <=> \E x \in calls : Deleted(x) /\ x.dash = d
             /\ \A d \in Dashboards : (d \in Shell!ToSet(rows) /\ d \notin Shell!ToSet(dashboards)) <=> \E x \in calls : Added(x) /\ x.made = d
             /\ \A x \in calls : x.op = "delete" /\ x.dash \in Shell!ToSet(rows) => x.dash \in Shell!ToSet(dashboards)
             /\ \A x, y \in calls : Added(x) /\ Added(y) /\ x.made = y.made => x = y
             /\ \A x, y \in calls : Deleted(x) /\ Deleted(y) /\ x.dash = y.dash => x = y
  BY <1>0, <1>2, <1>5 DEF Changing, SameSet
<1>6. ASSUME ~overlapped', ~raced
      PROVE  /\ ~ChangesLanded => dashboards = rows
             /\ \A x \in calls : Added(x) => rows = Append(dashboards, x.made)
             /\ \A x \in calls : Deleted(x) => rows = Shell!Kept(dashboards, Dashboards \ {x.dash})
  BY <1>0, <1>2, <1>6 DEF Changing, SameOrder
<1>7. ASSUME ~raced, c.op \in Shell!Changes PROVE \A x \in calls \ {c} : x.op \notin Shell!Changes
  BY <1>0, <1>7 DEF Changing, OneByOne
<1>8. Shell!ToSet(rows) \subseteq Dashboards /\ Shell!ToSet(dashboards) \subseteq Dashboards BY <1>0, SetOf
<1>9. ASSUME dashboards' = dashboards /\ ~Added(c) /\ ~Deleted(c)
      PROVE  SameSet' /\ FreshLists' /\ OneByOne' /\ SameOrder'
  <2>1. ChangesLanded' <=> ChangesLanded BY <1>1, <1>9 DEF ChangesLanded, Added, Deleted, Landed
  <2>2. SameSet'
    <3>1. SUFFICES ASSUME ~overlapped'
                   PROVE  /\ \A d \in Dashboards : (d \in Shell!ToSet(dashboards) /\ d \notin Shell!ToSet(rows)) <=> \E x \in calls' : Deleted(x) /\ x.dash = d
                          /\ \A d \in Dashboards : (d \in Shell!ToSet(rows) /\ d \notin Shell!ToSet(dashboards)) <=> \E x \in calls' : Added(x) /\ x.made = d
                          /\ \A x \in calls' : x.op = "delete" /\ x.dash \in Shell!ToSet(rows) => x.dash \in Shell!ToSet(dashboards)
                          /\ \A x, d \in calls' : Added(x) /\ Added(d) /\ x.made = d.made => x = d
                          /\ \A x, d \in calls' : Deleted(x) /\ Deleted(d) /\ x.dash = d.dash => x = d
      BY <1>1, <1>9 DEF SameSet, Added, Deleted, Landed
    <3> QED BY ONLY <1>1, <1>5, <1>9, <3>1, c \in calls
  <2>3. SameOrder'
    <3>1. SUFFICES ASSUME ~overlapped', ~raced
                   PROVE  /\ ~ChangesLanded' => dashboards = rows
                          /\ \A x \in calls' : Added(x) => rows = Append(dashboards, x.made)
                          /\ \A x \in calls' : Deleted(x) => rows = Shell!Kept(dashboards, Dashboards \ {x.dash})
      BY <1>1, <1>9 DEF SameOrder, Added, Deleted, Landed
    <3> QED BY ONLY <1>1, <1>6, <1>9, <2>1, <3>1
  <2> QED BY <1>3, <1>4, <2>2, <2>3
<1>10. ASSUME Added(c) /\ dashboards' = Append(dashboards, c.made)
      PROVE  SameSet' /\ FreshLists' /\ OneByOne' /\ SameOrder'
  <2>0. PICK m : m = c.made OBVIOUS
  <2>1. m \in Dashboards /\ Shell!ToSet(dashboards') = Shell!ToSet(dashboards) \cup {m} BY <1>0, <1>10, <2>0, SetOf DEF OwnForm
  <2>2. c.op \in Shell!Changes /\ ~Deleted(c) BY <1>10 DEF Added, Deleted, Shell!Changes, Shell!Creating
  <2>3. SameSet'
    <3>1. SUFFICES ASSUME ~overlapped'
                   PROVE  /\ \A d \in Dashboards : (d \in Shell!ToSet(dashboards') /\ d \notin Shell!ToSet(rows)) <=> \E x \in calls' : Deleted(x) /\ x.dash = d
                          /\ \A d \in Dashboards : (d \in Shell!ToSet(rows) /\ d \notin Shell!ToSet(dashboards')) <=> \E x \in calls' : Added(x) /\ x.made = d
                          /\ \A x \in calls' : x.op = "delete" /\ x.dash \in Shell!ToSet(rows) => x.dash \in Shell!ToSet(dashboards')
                          /\ \A x, d \in calls' : Added(x) /\ Added(d) /\ x.made = d.made => x = d
                          /\ \A x, d \in calls' : Deleted(x) /\ Deleted(d) /\ x.dash = d.dash => x = d
      BY <1>1 DEF SameSet, Added, Deleted, Landed
    <3>2. m \in Shell!ToSet(rows) /\ m \notin Shell!ToSet(dashboards) BY ONLY <1>5, <1>10, <2>0, <2>1, <3>1, c \in calls
    <3>3. \A d \in Dashboards : (d \in Shell!ToSet(dashboards') /\ d \notin Shell!ToSet(rows)) <=> \E x \in calls' : Deleted(x) /\ x.dash = d
      BY ONLY <1>1, <1>5, <2>1, <2>2, <3>1, <3>2, c \in calls
    <3>4. \A x \in calls' : Added(x) => x.made # m BY ONLY <1>1, <1>5, <1>10, <2>0, <3>1, c \in calls
    <3>5. \A d \in Dashboards : (d \in Shell!ToSet(rows) /\ d \notin Shell!ToSet(dashboards')) <=> \E x \in calls' : Added(x) /\ x.made = d
      BY ONLY <1>1, <1>5, <2>0, <2>1, <3>1, <3>2, <3>4, c \in calls
    <3> QED BY ONLY <1>1, <1>5, <2>1, <3>1, <3>3, <3>5
  <2>4. SameOrder'
    <3>1. SUFFICES ASSUME ~overlapped', ~raced
                   PROVE  /\ ~ChangesLanded' => dashboards' = rows
                          /\ \A x \in calls' : Added(x) => rows = Append(dashboards', x.made)
                          /\ \A x \in calls' : Deleted(x) => rows = Shell!Kept(dashboards', Dashboards \ {x.dash})
      BY <1>1 DEF SameOrder, Added, Deleted, Landed
    <3>2. \A x \in calls' : ~Added(x) /\ ~Deleted(x) BY <1>1, <1>7, <2>2, <3>1 DEF Added, Deleted, Shell!Changes, Shell!Creating
    <3> QED BY <1>6, <1>10, <3>1, <3>2
  <2> QED BY <1>3, <1>4, <2>3, <2>4
<1>11. ASSUME Deleted(c) /\ dashboards' = Shell!Remaining(c.dash)
      PROVE  SameSet' /\ FreshLists' /\ OneByOne' /\ SameOrder'
  <2>0. PICK m : m = c.dash OBVIOUS
  <2>1. m \in Dashboards /\ Shell!ToSet(dashboards') = Shell!ToSet(dashboards) \ {m} BY <1>0, <1>11, <2>0, KeptOf DEF OwnForm, Shell!Remaining
  <2>2. c.op \in Shell!Changes /\ ~Added(c) BY <1>11 DEF Added, Deleted, Shell!Changes, Shell!Creating
  <2>3. SameSet'
    <3>1. SUFFICES ASSUME ~overlapped'
                   PROVE  /\ \A d \in Dashboards : (d \in Shell!ToSet(dashboards') /\ d \notin Shell!ToSet(rows)) <=> \E x \in calls' : Deleted(x) /\ x.dash = d
                          /\ \A d \in Dashboards : (d \in Shell!ToSet(rows) /\ d \notin Shell!ToSet(dashboards')) <=> \E x \in calls' : Added(x) /\ x.made = d
                          /\ \A x \in calls' : x.op = "delete" /\ x.dash \in Shell!ToSet(rows) => x.dash \in Shell!ToSet(dashboards')
                          /\ \A x, d \in calls' : Added(x) /\ Added(d) /\ x.made = d.made => x = d
                          /\ \A x, d \in calls' : Deleted(x) /\ Deleted(d) /\ x.dash = d.dash => x = d
      BY <1>1 DEF SameSet, Added, Deleted, Landed
    <3>2. m \in Shell!ToSet(dashboards) /\ m \notin Shell!ToSet(rows) BY ONLY <1>5, <1>11, <2>0, <2>1, <3>1, c \in calls
    <3>3. \A x \in calls' : Deleted(x) => x.dash # m BY ONLY <1>1, <1>5, <1>11, <2>0, <3>1, c \in calls
    <3>4. \A d \in Dashboards : (d \in Shell!ToSet(dashboards') /\ d \notin Shell!ToSet(rows)) <=> \E x \in calls' : Deleted(x) /\ x.dash = d
      BY ONLY <1>1, <1>5, <2>0, <2>1, <3>1, <3>2, <3>3, c \in calls
    <3>5. \A d \in Dashboards : (d \in Shell!ToSet(rows) /\ d \notin Shell!ToSet(dashboards')) <=> \E x \in calls' : Added(x) /\ x.made = d
      BY ONLY <1>1, <1>5, <2>1, <2>2, <3>1, <3>2, c \in calls
    <3>6. \A x \in calls' : x.op = "delete" /\ x.dash \in Shell!ToSet(rows) => x.dash \in Shell!ToSet(dashboards')
      BY ONLY <1>1, <1>5, <2>1, <3>1, <3>2
    <3> QED BY ONLY <1>1, <1>5, <3>1, <3>4, <3>5, <3>6
  <2>4. SameOrder'
    <3>1. SUFFICES ASSUME ~overlapped', ~raced
                   PROVE  /\ ~ChangesLanded' => dashboards' = rows
                          /\ \A x \in calls' : Added(x) => rows = Append(dashboards', x.made)
                          /\ \A x \in calls' : Deleted(x) => rows = Shell!Kept(dashboards', Dashboards \ {x.dash})
      BY <1>1 DEF SameOrder, Added, Deleted, Landed
    <3>2. \A x \in calls' : ~Added(x) /\ ~Deleted(x) BY <1>1, <1>7, <2>2, <3>1 DEF Added, Deleted, Shell!Changes, Shell!Creating
    <3> QED BY <1>6, <1>11, <3>1, <3>2 DEF Shell!Remaining
  <2> QED BY <1>3, <1>4, <2>3, <2>4
(* Where it leads the selection. *)
<1>12. UNCHANGED <<path, dashboardsLoading>> BY <1>1
<1>13. ASSUME ~nowhere' PROVE ~nowhere /\ (c.made # "failed" /\ c.op \in Moving => c.dash \in Shell!ToSet(dashboards))
  BY ONLY <1>1, <1>13 DEF Moving
<1>14. \A d \in Dashboards : /\ Shell!ToSet(Shell!Remaining(d)) \subseteq Dashboards /\ Shell!Remaining(d) \in Seq(Dashboards)
                             /\ IF Shell!Remaining(d) = <<>> THEN Shell!Following(Shell!Remaining(d)) = NoDash
                                ELSE Shell!Following(Shell!Remaining(d)) \in Shell!ToSet(Shell!Remaining(d))
  <2>1. SUFFICES ASSUME NEW d \in Dashboards
                 PROVE  /\ Shell!ToSet(Shell!Remaining(d)) \subseteq Dashboards /\ Shell!Remaining(d) \in Seq(Dashboards)
                        /\ IF Shell!Remaining(d) = <<>> THEN Shell!Following(Shell!Remaining(d)) = NoDash
                           ELSE Shell!Following(Shell!Remaining(d)) \in Shell!ToSet(Shell!Remaining(d))
    OBVIOUS
  <2>2. PICK r : r = Shell!Remaining(d) OBVIOUS
  <2>3. r \in Seq(Dashboards) BY <1>0, <2>2, KeptOf DEF Shell!Remaining
  <2>4. Shell!ToSet(r) \subseteq Dashboards /\ (r # <<>> => r[1] \in Shell!ToSet(r)) BY <2>3, SetOf
  <2> QED BY <2>2, <2>3, <2>4 DEF Shell!Following
<1>15. ASSUME UNCHANGED <<dashboards, activeDashboardId>> PROVE ActiveListed'
  <2>1. ActiveListed' BY <1>0, <1>1, <1>2, <1>13, <1>15 DEF ActiveListed
  <2> QED BY <2>1
<1>16. ASSUME NEW ds \in Seq(Dashboards), NEW id \in Dashboards \cup {NoDash}, NEW ps \in SUBSET Panels, Shell!SwitchTo(ds, id, ps)
       PROVE  dashboards' = ds /\ (activeDashboardId' = id \/ activeDashboardId' \in Shell!ToSet(ds))
  BY <1>0, <1>12, <1>16, SwitchStep
<1>17. CASE UNCHANGED <<dashboards, activeDashboardId>> /\ ~Added(c) /\ ~Deleted(c) BY <1>3, <1>4, <1>9, <1>15, <1>17 DEF ListInv
<1>18. CASE Added(c) /\ Shell!SwitchTo(Append(dashboards, c.made), c.made, panels)
  <2>1. /\ c.made \in Dashboards /\ Append(dashboards, c.made) \in Seq(Dashboards) /\ Append(dashboards, c.made) # <<>>
        /\ c.made \in Shell!ToSet(Append(dashboards, c.made))
    BY <1>0, <1>18, SetOf DEF OwnForm
  <2>2. dashboards' = Append(dashboards, c.made) /\ activeDashboardId' \in Shell!ToSet(dashboards')
    BY <1>0, <1>16, <1>18, <2>1
  <2>3. ActiveListed' BY <2>1, <2>2 DEF ActiveListed
  <2> QED BY <1>3, <1>4, <1>10, <1>18, <2>2, <2>3 DEF ListInv
<1>19. CASE Deleted(c) /\ Shell!SwitchTo(Shell!Remaining(c.dash), Shell!Following(Shell!Remaining(c.dash)), panels)
  <2>1. c.dash \in Dashboards BY <1>0, <1>19 DEF OwnForm
  <2>2. PICK r : r = Shell!Remaining(c.dash) OBVIOUS
  <2>3. r \in Seq(Dashboards) /\ Shell!ToSet(r) \subseteq Dashboards
        /\ IF r = <<>> THEN Shell!Following(r) = NoDash ELSE Shell!Following(r) \in Shell!ToSet(r)
    BY <1>14, <2>1, <2>2
  <2>4. r = <<>> => Shell!ToSet(r) = {} BY <2>3, SetOf
  <2>5. dashboards' = r /\ (activeDashboardId' = Shell!Following(r) \/ activeDashboardId' \in Shell!ToSet(r))
    BY <1>0, <1>16, <1>19, <2>2, <2>3
  <2>6. ActiveListed' BY <2>3, <2>4, <2>5 DEF ActiveListed
  <2> QED BY <1>3, <1>4, <1>11, <1>19, <2>2, <2>5, <2>6 DEF ListInv
<1>20. ASSUME NEW ps \in SUBSET Panels, c.op \in Moving, Landed(c), Shell!SwitchTo(dashboards, c.dash, ps)
       PROVE  ListInv'
  <2>1. c.dash \in Dashboards BY <1>0, <1>20 DEF OwnForm, PanelOps
  <2>2. dashboards' = dashboards /\ (activeDashboardId' = c.dash \/ activeDashboardId' \in Shell!ToSet(dashboards))
    BY <1>0, <1>16, <1>20, <2>1
  <2>3. ~Added(c) /\ ~Deleted(c) BY <1>20 DEF Added, Deleted, Moving, Shell!Creating
  <2>4. ~nowhere' => dashboards # <<>> /\ activeDashboardId' \in Shell!ToSet(dashboards)
    <3>1. SUFFICES ASSUME ~nowhere' PROVE dashboards # <<>> /\ activeDashboardId' \in Shell!ToSet(dashboards) OBVIOUS
    <3>2. c.dash \in Shell!ToSet(dashboards) BY <1>13, <1>20, <3>1 DEF Landed
    <3> QED BY <1>0, <2>2, <3>2, SetOf
  <2>5. ActiveListed' BY <2>2, <2>4 DEF ActiveListed
  <2> QED BY <1>3, <1>4, <1>9, <2>2, <2>3, <2>5 DEF ListInv
<1>21. (IF c.here THEN panels \ {c.panel} ELSE panels) \in SUBSET Panels BY <1>0
<1>22. CASE c.made = "failed" \/ c.op = "rename"
  <2>1. ~Added(c) /\ ~Deleted(c) BY <1>22 DEF Added, Deleted, Landed, Shell!Creating
  <2>2. UNCHANGED <<dashboards, activeDashboardId>> BY <1>0, <1>22, AnswerWays, <2>1 DEF Landed, Leaves
  <2> QED BY <1>17, <2>1, <2>2
<1>23. CASE ~(c.made = "failed" \/ c.op = "rename")
  <2>1. \/ Added(c) /\ Shell!SwitchTo(Append(dashboards, c.made), c.made, panels)
        \/ Deleted(c) /\ Shell!SwitchTo(Shell!Remaining(c.dash), Shell!Following(Shell!Remaining(c.dash)), panels)
        \/ /\ c.op = "move" /\ Leaves(c) /\ Shell!SwitchTo(dashboards, c.dash, IF c.here THEN panels \ {c.panel} ELSE panels)
        \/ /\ c.op = "copy" /\ Landed(c) /\ Shell!SwitchTo(dashboards, c.dash, panels)
        \/ /\ c.op \in {"add", "panel copy", "remove"} /\ Landed(c)
           /\ UNCHANGED <<query, dashboards, activeDashboardId, stored, isLoadingLayout, layoutCall>>
    BY <1>0, <1>23, AnswerWays
  <2>2. CASE c.op = "move" /\ Leaves(c) /\ Shell!SwitchTo(dashboards, c.dash, IF c.here THEN panels \ {c.panel} ELSE panels)
    <3>1. Landed(c) BY <2>2 DEF Leaves
    <3> QED BY <1>20, <1>21, <2>2, <3>1 DEF Moving
  <2>3. CASE c.op = "copy" /\ Landed(c) /\ Shell!SwitchTo(dashboards, c.dash, panels) BY <1>0, <1>20, <2>3 DEF Moving
  <2>4. CASE /\ c.op \in {"add", "panel copy", "remove"} /\ Landed(c)
             /\ UNCHANGED <<query, dashboards, activeDashboardId, stored, isLoadingLayout, layoutCall>>
    <3>1. ~Added(c) /\ ~Deleted(c) BY <2>4 DEF Added, Deleted, Shell!Creating
    <3> QED BY <1>17, <2>4, <3>1
  <2> QED BY <1>18, <1>19, <2>1, <2>2, <2>3, <2>4
<1> QED BY <1>22, <1>23

-----------------------------------------------------------------------------
(* The page's panels, step by step.                                        *)
LEMMA SamePage ==
  ASSUME PageInv, UNCHANGED <<path, dashboardsLoading, activeDashboardId, panels, layoutCall, astray, calls, home>>
  PROVE  PageInv'
<1>1. Clean' <=> Clean BY DEF Clean, Shell!Mounted
<1>2. DashThere' <=> DashThere BY DEF DashThere, Deleted, Landed
<1>3. OwnCalls' BY <1>1 DEF PageInv, OwnCalls
<1>4. AnswerFits' BY <1>1, <1>2 DEF PageInv, AnswerFits, Shell!Housed
<1>5. PanelsFit'
  <2>1. SUFFICES ASSUME Clean /\ DashThere /\ layoutCall = Shell!NoCall
                 PROVE  (/\ \A p \in Panels : (p \in panels /\ ~\E c \in calls : Leaves(c) /\ c.panel = p)
                                               <=> (home[p] = activeDashboardId /\ ~\E c \in calls : Joins(c) /\ c.made = p)
                         /\ \A c \in calls : Leaves(c) => home[c.panel] # activeDashboardId
                         /\ \A c \in calls : Joins(c) => /\ home[c.made] = activeDashboardId /\ c.made \notin panels
                                                         /\ \A d \in calls : d.panel # c.made /\ (Joins(d) /\ d.made = c.made => d = c))
    BY <1>1, <1>2 DEF PanelsFit, Leaves, Joins, Landed
  <2> QED BY <2>1 DEF PageInv, PanelsFit
<1> QED BY <1>3, <1>4, <1>5 DEF PageInv

LEMMA Restart == Starts => PageInv'
BY DEF Starts, PageInv, OwnCalls, AnswerFits, PanelsFit

LEMMA ListPaged ==
  ASSUME Shell!ShellFit, FormInv, PageInv, NEW i \in DOMAIN listCalls, Shell!ServeList(i) \/ Shell!ListAnswered(i) \/ Shell!ListFailed(i)
  PROVE  PageInv'
<1>1. UNCHANGED <<home, calls, astray>> BY DEF Shell!ServeList, Shell!ListAnswered, Shell!ListFailed, Shell!server
<1>2. CASE Shell!ServeList(i) BY <1>1, <1>2, SamePage DEF Shell!ServeList, Shell!page
<1>3. CASE Loading(panels) BY <1>1, <1>3, SamePage, Restart DEF Loading, Stays
<1> QED BY <1>2, <1>3, ListTyped

LEMMA NavigatePaged ==
  ASSUME Shell!ShellFit, FormInv, PageInv, NEW pth \in {"dashboard", "other"}, NEW q \in Dashboards \cup {NoDash}, Shell!Navigate(pth, q)
  PROVE  PageInv'
<1>1. Loading(panels) BY NavigateTyped
<1>2. CASE Stays /\ panels' = panels
  <2>1. path' = pth /\ path' = path BY <1>2 DEF Stays, Shell!Navigate
  <2>2. astray' = (astray /\ pth = path) BY DEF Shell!Navigate
  <2>3. astray \in BOOLEAN BY DEF FormInv, ShellTyped, GhostsTyped
  <2>4. astray' = astray BY ONLY <2>1, <2>2, <2>3
  <2>5. UNCHANGED <<home, calls>> BY <2>1 DEF Shell!Navigate, Shell!server
  <2> QED BY <1>2, <2>4, <2>5, SamePage DEF Stays
<1>3. CASE Starts BY <1>3, Restart
<1> QED BY <1>1, <1>2, <1>3 DEF Loading

LEMMA PickPaged ==
  ASSUME Shell!ShellFit, FormInv, PageInv, NEW d \in Dashboards, Shell!Pick(d)
  PROVE  PageInv'
<1>1. Loading(panels) /\ UNCHANGED <<home, calls, astray>> BY PickTyped DEF Shell!server
<1> QED BY <1>1, SamePage, Restart DEF Loading, Stays

LEMMA SentPaged ==
  ASSUME Shell!ShellFit, FormInv, PageInv, NEW c, ShellSent(c), c.panel = Shell!None \/ c.panel \in panels,
         c.op \in Moving <=> c.dash # activeDashboardId, layoutCall # Shell!NoCall => c.op \in Selecting
  PROVE  PageInv'
<1>1. /\ calls' = calls \cup {c} /\ c.here /\ ~Landed(c)
      /\ UNCHANGED <<home, path, dashboardsLoading, activeDashboardId, panels, layoutCall, astray>>
  BY DEF ShellSent, Shell!server, Shell!layout, Shell!page, Landed
<1>2. Clean' <=> Clean BY <1>1 DEF Clean, Shell!Mounted
<1>3. DashThere' <=> DashThere BY <1>1 DEF DashThere, Deleted, Landed
<1>4. OwnCalls' BY <1>1, <1>2 DEF PageInv, OwnCalls
<1>5. AnswerFits' BY <1>1, <1>2, <1>3 DEF PageInv, AnswerFits, Shell!Housed
<1>6. PanelsFit'
  <2>1. SUFFICES ASSUME Clean /\ DashThere /\ layoutCall = Shell!NoCall
                 PROVE  (/\ \A p \in Panels : (p \in panels /\ ~\E x \in calls' : Leaves(x) /\ x.panel = p)
                                               <=> (home[p] = activeDashboardId /\ ~\E x \in calls' : Joins(x) /\ x.made = p)
                         /\ \A x \in calls' : Leaves(x) => home[x.panel] # activeDashboardId
                         /\ \A x \in calls' : Joins(x) => /\ home[x.made] = activeDashboardId /\ x.made \notin panels
                                                         /\ \A d \in calls' : d.panel # x.made /\ (Joins(d) /\ d.made = x.made => d = x))
    BY <1>1, <1>2, <1>3 DEF PanelsFit, Leaves, Joins, Landed
  <2>2. /\ \A p \in Panels : (p \in panels /\ ~\E x \in calls : Leaves(x) /\ x.panel = p)
                              <=> (home[p] = activeDashboardId /\ ~\E x \in calls : Joins(x) /\ x.made = p)
        /\ \A x \in calls : Leaves(x) => home[x.panel] # activeDashboardId
        /\ \A x \in calls : Joins(x) => /\ home[x.made] = activeDashboardId /\ x.made \notin panels
                                        /\ \A d \in calls : d.panel # x.made /\ (Joins(d) /\ d.made = x.made => d = x)
    BY <2>1 DEF PageInv, PanelsFit
  <2>3. ~Leaves(c) /\ ~Joins(c) BY <1>1 DEF Leaves, Joins
  <2>4. \A x \in calls : Joins(x) => x.made # Shell!None
    <3>1. \A x \in calls : Joins(x) => x.made \in Panels
      BY DEF FormInv, ShellTyped, CallsTyped, OwnForm, Joins
    <3> QED BY <3>1 DEF Shell!ShellFit
  <2>5. \A x \in calls : Joins(x) => c.panel # x.made BY <2>2, <2>4
  <2> QED BY ONLY <1>1, <2>2, <2>3, <2>5
<1> QED BY <1>4, <1>5, <1>6 DEF PageInv

LEMMA LayoutCallPaged ==
  ASSUME Shell!ShellFit, FormInv, PageInv, Shell!ServeLayout \/ Shell!LayoutAnswered
  PROVE  PageInv'
<1>1. /\ UNCHANGED <<home, path, dashboardsLoading, activeDashboardId, calls>> /\ layoutCall # Shell!NoCall /\ layoutCall \in Loads
      /\ layoutCall.dash = activeDashboardId
  BY LayoutCallTyped DEF Panelled, FormInv, ShellTyped, PageTyped, Shell!ServeLayout, Shell!LayoutAnswered, LoadInv
<1>2. DashThere' <=> DashThere BY <1>1 DEF DashThere, Deleted, Landed
<1>3. CASE Shell!ServeLayout
  <2>1. PICK s : s = Shell!Housed(activeDashboardId) OBVIOUS
  <2>2. layoutCall' = [layoutCall EXCEPT !.ans = <<s>>] /\ UNCHANGED <<panels, astray>> BY <1>1, <1>3, <2>1 DEF Shell!ServeLayout
  <2>3. layoutCall'.mixed = layoutCall.mixed /\ layoutCall'.ans = <<s>> /\ layoutCall'.dash = layoutCall.dash
    BY <1>1, <2>2 DEF Loads
  <2>4. layoutCall'.dash # NoDash
    <3>1. layoutCall.dash \in Dashboards BY <1>1, LoadForms
    <3> QED BY <2>3, <3>1 DEF Shell!ShellFit
  <2>5. layoutCall' # Shell!NoCall BY <2>4, LoadForms
  <2>6. Clean' <=> Clean BY <1>1, <2>2, <2>3, <2>5 DEF Clean, Shell!Mounted
  <2>7. OwnCalls' BY <1>1, <2>5, <2>6 DEF PageInv, OwnCalls
  <2>8. Shell!Housed(activeDashboardId)' = s BY <1>1, <2>1 DEF Shell!Housed
  <2>9. AnswerFits' BY <2>3, <2>8 DEF AnswerFits
  <2>10. PanelsFit' BY <2>5 DEF PanelsFit
  <2> QED BY <2>7, <2>9, <2>10 DEF PageInv
<1>4. CASE Shell!LayoutAnswered
  <2>1. /\ layoutCall' = Shell!NoCall
        /\ \/ layoutCall.ans # <<>> /\ panels' = layoutCall.ans[1] /\ astray' = layoutCall.mixed
           \/ layoutCall.ans = <<>> /\ UNCHANGED panels /\ astray' = TRUE
    BY <1>4 DEF Shell!LayoutAnswered
  <2>2. Clean' => Clean /\ layoutCall.ans # <<>> /\ panels' = layoutCall.ans[1]
    BY <1>1, <2>1 DEF Clean, Shell!Mounted
  <2>3. Clean' => \A c \in calls : c.here /\ (c.op \in Moving <=> c.dash # activeDashboardId) /\ c.op \in Selecting
    BY <1>1, <2>2 DEF PageInv, OwnCalls
  <2>4. OwnCalls' BY <1>1, <2>1, <2>3 DEF OwnCalls
  <2>5. AnswerFits' BY <2>1 DEF AnswerFits
  <2>6. PanelsFit'
    <3>1. SUFFICES ASSUME Clean', DashThere
                   PROVE  (/\ \A p \in Panels : (p \in panels' /\ ~\E x \in calls : Leaves(x) /\ x.panel = p)
                                                 <=> (home[p] = activeDashboardId /\ ~\E x \in calls : Joins(x) /\ x.made = p)
                           /\ \A x \in calls : ~Leaves(x) /\ ~Joins(x))
      BY <1>1, <1>2 DEF PanelsFit, Leaves, Joins, Landed
    <3>2. \A x \in calls : ~Leaves(x) /\ ~Joins(x) BY <2>3, <3>1 DEF Leaves, Joins, Selecting, Shell!Changes, Shell!Creating
    <3>3. panels' = Shell!Housed(activeDashboardId) BY <1>1, <2>2, <3>1 DEF PageInv, AnswerFits
    <3> QED BY <3>2, <3>3 DEF Shell!Housed
  <2> QED BY <2>4, <2>5, <2>6 DEF PageInv
<1> QED BY <1>3, <1>4

(* What the three parts of PanelsFit say in a state that is clean.         *)
Fitted(ps, h, cs) ==
    /\ \A p \in Panels : (p \in ps /\ ~\E x \in cs : Leaves(x) /\ x.panel = p)
                          <=> (h[p] = activeDashboardId /\ ~\E x \in cs : Joins(x) /\ x.made = p)
    /\ \A x \in cs : Leaves(x) => h[x.panel] # activeDashboardId
    /\ \A x \in cs : Joins(x) => /\ h[x.made] = activeDashboardId /\ x.made \notin ps
                                 /\ \A d \in cs : d.panel # x.made /\ (Joins(d) /\ d.made = x.made => d = x)

LEMMA ServePaged ==
  ASSUME Shell!ShellFit, FormInv, PageInv, NEW c \in calls, NEW e, ShellServed(c, e)
  PROVE  PageInv'
<1>0. /\ e \in ShellCalls /\ OwnForm(e) /\ calls' = (calls \ {c}) \cup {e} /\ c.made = Shell!None
      /\ e.op = c.op /\ e.dash = c.dash /\ e.panel = c.panel /\ e.here = c.here
      /\ UNCHANGED <<path, dashboardsLoading, activeDashboardId, panels, layoutCall, astray>>
  BY DEF ShellServed, Shell!layout, Shell!page
<1>1. ~Landed(c) BY <1>0 DEF Landed
<1>2. Clean' <=> Clean BY <1>0 DEF Clean, Shell!Mounted
<1>3. OwnCalls' BY <1>0, <1>2 DEF PageInv, OwnCalls
<1>4. DashThere' => DashThere /\ ~Deleted(e) BY <1>0, <1>1 DEF DashThere, Deleted, Landed
<1>5. /\ home \in [Panels -> Dashboards \cup {NoDash}] /\ activeDashboardId \in Dashboards \cup {NoDash}
      /\ \A x \in calls : x \in ShellCalls /\ OwnForm(x)
  BY DEF FormInv, ShellTyped, ServerTyped, LayoutTyped, CallsTyped
<1>6. ASSUME \A p \in Panels : home'[p] = activeDashboardId <=> home[p] = activeDashboardId,
             ~Joins(e), ~Leaves(e)
      PROVE  AnswerFits' /\ PanelsFit'
  <2>1. Shell!Housed(activeDashboardId)' = Shell!Housed(activeDashboardId) BY <1>0, <1>6 DEF Shell!Housed
  <2>2. AnswerFits' BY <1>0, <1>2, <1>4, <2>1 DEF PageInv, AnswerFits
  <2>3. PanelsFit'
    <3>1. SUFFICES ASSUME Clean, DashThere, layoutCall = Shell!NoCall PROVE Fitted(panels, home', calls')
      BY <1>0, <1>2, <1>4 DEF PanelsFit, Fitted, Leaves, Joins, Landed
    <3>2. Fitted(panels, home, calls) BY <3>1 DEF PageInv, PanelsFit, Fitted
    <3>3. ~Leaves(c) /\ ~Joins(c) BY <1>1 DEF Leaves, Joins
    <3>4. \A x \in calls : (Joins(x) => x.made \in Panels) /\ (Leaves(x) => x.panel \in Panels)
      BY <1>5 DEF OwnForm, Joins, Leaves
    <3> QED BY ONLY <1>0, <1>6, <3>2, <3>3, <3>4, c \in calls DEF Fitted
  <2> QED BY <2>2, <2>3
<1>7. CASE e.made = "failed" /\ UNCHANGED Shell!server
  <2>1. ~Joins(e) /\ ~Leaves(e) /\ home' = home BY <1>7 DEF Joins, Leaves, Landed, Shell!server
  <2> QED BY <1>3, <1>6, <2>1 DEF PageInv
<1>8. CASE Added(e) /\ Carried(e)
  <2>1. e.made \in Shell!FreeDash BY <1>8 DEF Carried, Added, Deleted, Shell!Creating
  <2>2. PICK ps \in SUBSET Shell!FreePanels : home' = [p \in Panels |-> IF p \in ps THEN e.made ELSE home[p]]
    BY <1>8 DEF Carried, Added, Deleted, Shell!Creating
  <2>3. e.made # activeDashboardId BY <2>1 DEF Shell!FreeDash
  <2>4. \A p \in ps : home[p] = NoDash BY <2>2 DEF Shell!FreePanels
  <2>5. ~Joins(e) /\ ~Leaves(e) BY <1>8 DEF Added, Joins, Leaves, Shell!Creating
  <2>6. CASE activeDashboardId # NoDash
    <3>1. \A p \in Panels : home'[p] = activeDashboardId <=> home[p] = activeDashboardId BY <2>2, <2>3, <2>4, <2>6
    <3> QED BY <1>3, <1>6, <2>5, <3>1 DEF PageInv
  <2>7. CASE activeDashboardId = NoDash
    <3>1. ~Clean' BY <1>0, <2>7 DEF Clean
    <3> QED BY <3>1 DEF PageInv, OwnCalls, AnswerFits, PanelsFit
  <2> QED BY <2>6, <2>7
<1>9. CASE Deleted(e)
  <2>1. ~DashThere' BY <1>4, <1>9
  <2> QED BY <1>3, <2>1 DEF PageInv, AnswerFits, PanelsFit
<1>10. CASE Landed(e) /\ e.op = "rename" /\ Carried(e)
  <2>1. ~Joins(e) /\ ~Leaves(e) /\ ~Added(e) /\ ~Deleted(e) BY <1>10 DEF Joins, Leaves, Added, Deleted, Shell!Creating
  <2>2. home' = home BY <1>10, <2>1 DEF Carried, Shell!server
  <2> QED BY <1>3, <1>6, <2>1, <2>2 DEF PageInv
<1>11. ASSUME Clean, layoutCall # Shell!NoCall PROVE c.op \in Selecting
  BY <1>11 DEF PageInv, OwnCalls
<1>12. CASE Landed(e) /\ e.op \in PanelOps /\ Carried(e)
  <2>0. e.op \notin Selecting BY <1>12 DEF Selecting, Shell!Changes, Shell!Creating, PanelOps, Moving
  <2>1. AnswerFits' BY <1>0, <1>2, <1>11, <2>0 DEF AnswerFits
  <2>2. SUFFICES ASSUME Clean, DashThere, layoutCall = Shell!NoCall PROVE Fitted(panels, home', calls')
    BY <1>0, <1>2, <1>3, <1>4, <2>1 DEF PageInv, PanelsFit, Fitted, Leaves, Joins, Landed
  <2>3. Fitted(panels, home, calls) BY <2>2 DEF PageInv, PanelsFit, Fitted
  <2>4. ~Leaves(c) /\ ~Joins(c) BY <1>1 DEF Leaves, Joins
  <2>5. \A x \in calls : (Joins(x) => x.made \in Panels) /\ (Leaves(x) => x.panel \in Panels)
    BY <1>5 DEF OwnForm, Joins, Leaves
  <2>6. activeDashboardId # NoDash /\ (e.op \in Moving <=> e.dash # activeDashboardId)
    BY <1>0, <2>2 DEF Clean, PageInv, OwnCalls
  <2>7. ~Added(e) /\ ~Deleted(e) BY <1>12, <2>0 DEF Added, Deleted, Selecting, Shell!Changes, Shell!Creating
  <2>8. CASE e.op \in {"add", "panel copy", "copy"}
    <3>1. e.made \in Shell!FreePanels /\ home' = [home EXCEPT ![e.made] = e.dash] BY <1>12, <2>7, <2>8 DEF Carried
    <3>2. PICK m : m = e.made OBVIOUS
    <3>3. /\ m \in Panels /\ m \notin panels /\ home[m] = NoDash /\ e.panel # m
          /\ \A x \in calls : x.panel # m /\ x.made # m
      BY <1>0, <3>1, <3>2 DEF Shell!FreePanels, Shell!Known
    <3>4. home'[m] = e.dash /\ \A p \in Panels : p # m => home'[p] = home[p] BY <1>5, <3>1, <3>2, <3>3
    <3>5. ~Leaves(e) BY <2>8 DEF Leaves
    <3>6. CASE e.op = "copy"
      <4>1. ~Joins(e) /\ e.dash # activeDashboardId BY <2>6, <3>6 DEF Joins, Moving
      <4>2. \A p \in Panels : home'[p] = activeDashboardId <=> home[p] = activeDashboardId BY <2>6, <3>3, <3>4, <4>1
      <4> QED BY ONLY <1>0, <2>3, <2>4, <2>5, <3>5, <4>1, <4>2, c \in calls DEF Fitted
    <3>7. CASE e.op # "copy"
      <4>1. Joins(e) /\ e.dash = activeDashboardId BY <1>12, <2>6, <2>8, <3>7 DEF Joins, Moving
      <4>2. ASSUME NEW p \in Panels
            PROVE  (p \in panels /\ ~\E x \in calls' : Leaves(x) /\ x.panel = p)
                     <=> (home'[p] = activeDashboardId /\ ~\E x \in calls' : Joins(x) /\ x.made = p)
        <5>1. CASE p = m BY ONLY <1>0, <3>2, <3>3, <4>1, <5>1
        <5>2. CASE p # m
          <6>1. (\E x \in calls' : Leaves(x) /\ x.panel = p) <=> (\E x \in calls : Leaves(x) /\ x.panel = p)
            BY ONLY <1>0, <2>4, <3>5, c \in calls
          <6>2. (\E x \in calls' : Joins(x) /\ x.made = p) <=> (\E x \in calls : Joins(x) /\ x.made = p)
            BY ONLY <1>0, <2>4, <3>2, <5>2, c \in calls
          <6> QED BY <2>3, <3>4, <4>2, <5>2, <6>1, <6>2 DEF Fitted
        <5> QED BY <5>1, <5>2
      <4>3. \A x \in calls' : Leaves(x) => home'[x.panel] # activeDashboardId
        BY ONLY <1>0, <2>3, <2>5, <3>3, <3>4, <3>5 DEF Fitted
      <4>4. \A x \in calls' : Joins(x) => home'[x.made] = activeDashboardId /\ x.made \notin panels
        BY ONLY <1>0, <2>3, <2>5, <3>2, <3>3, <3>4, <4>1 DEF Fitted
      <4>5. \A x, d \in calls' : Joins(x) => d.panel # x.made
        BY ONLY <1>0, <2>3, <3>2, <3>3, <4>1, c \in calls DEF Fitted
      <4>6. \A x, d \in calls' : Joins(x) /\ Joins(d) /\ d.made = x.made => d = x
        BY ONLY <1>0, <2>3, <3>2, <3>3, <4>1 DEF Fitted
      <4> QED BY ONLY <4>2, <4>3, <4>4, <4>5, <4>6 DEF Fitted
    <3> QED BY <3>6, <3>7
  <2>9. CASE e.op \in {"move", "remove"}
    <3>1. PICK z : z = (IF e.op = "move" THEN e.dash ELSE NoDash) OBVIOUS
    <3>2. home' = [home EXCEPT ![e.panel] = z] /\ z # activeDashboardId /\ Leaves(e) /\ ~Joins(e)
      BY <1>12, <2>6, <2>7, <2>9, <3>1 DEF Carried, Leaves, Joins, Moving
    <3>3. PICK m : m = e.panel OBVIOUS
    <3>4. m \in Panels BY <1>0, <2>9, <3>3 DEF OwnForm
    <3>5. home'[m] # activeDashboardId /\ \A p \in Panels : p # m => home'[p] = home[p] BY <1>5, <3>2, <3>3, <3>4
    <3>6. \A x \in calls : Joins(x) => x.made # m BY <1>0, <2>3, <3>3 DEF Fitted
    <3>7. ASSUME NEW p \in Panels
          PROVE  (p \in panels /\ ~\E x \in calls' : Leaves(x) /\ x.panel = p)
                   <=> (home'[p] = activeDashboardId /\ ~\E x \in calls' : Joins(x) /\ x.made = p)
      <4>1. CASE p = m BY ONLY <1>0, <3>2, <3>3, <3>5, <4>1
      <4>2. CASE p # m
        <5>1. (\E x \in calls' : Leaves(x) /\ x.panel = p) <=> (\E x \in calls : Leaves(x) /\ x.panel = p)
          BY ONLY <1>0, <2>4, <3>3, <4>2, c \in calls
        <5>2. (\E x \in calls' : Joins(x) /\ x.made = p) <=> (\E x \in calls : Joins(x) /\ x.made = p)
          BY ONLY <1>0, <2>4, <3>2, c \in calls
        <5> QED BY <2>3, <3>5, <3>7, <4>2, <5>1, <5>2 DEF Fitted
      <4> QED BY <4>1, <4>2
    <3>8. \A x \in calls' : Leaves(x) => home'[x.panel] # activeDashboardId
      BY ONLY <1>0, <2>3, <2>5, <3>3, <3>5 DEF Fitted
    <3>9. \A x \in calls' : Joins(x) => home'[x.made] = activeDashboardId /\ x.made \notin panels
      BY ONLY <1>0, <2>3, <2>5, <3>2, <3>5, <3>6 DEF Fitted
    <3>10. \A x, d \in calls' : Joins(x) => d.panel # x.made /\ (Joins(d) /\ d.made = x.made => d = x)
      BY ONLY <1>0, <2>3, <3>2, c \in calls DEF Fitted
    <3> QED BY ONLY <3>7, <3>8, <3>9, <3>10 DEF Fitted
  <2> QED BY <1>12, <2>8, <2>9 DEF PanelOps, Moving
<1>13. e.op \in Selecting \cup PanelOps BY <1>0, ShellCallForms
<1>14. CASE Carried(e)
  <2>1. Landed(e) BY <1>14 DEF Carried, Added, Deleted
  <2> QED BY <1>8, <1>9, <1>10, <1>12, <1>13, <1>14, <2>1 DEF Selecting, Shell!Changes, Shell!Creating, Added, Deleted
<1> QED BY <1>7, <1>14 DEF ShellServed

LEMMA AnswerPaged ==
  ASSUME Shell!ShellFit, FormInv, PageInv, NEW c \in calls, Shell!Answered(c)
  PROVE  PageInv'
<1>0. /\ LayoutTyped /\ PageTyped /\ LoadInv /\ c \in ShellCalls /\ OwnForm(c) /\ panels \in SUBSET Panels
      /\ dashboards \in Seq(Dashboards) /\ \A x \in calls : OwnForm(x)
  BY DEF FormInv, ShellTyped, LayoutTyped, PageTyped, CallsTyped
<1>1. calls' = calls \ {c} /\ UNCHANGED <<home, path, dashboardsLoading>> BY DEF Shell!Answered, Shell!server
<1>2. ~astray' => ~astray
  <2>1. \E b : astray' = (astray \/ b) BY DEF Shell!Answered
  <2> QED BY ONLY <2>1
<1>3. CASE ~Clean' BY <1>3 DEF PageInv, OwnCalls, AnswerFits, PanelsFit
<1>4. CASE Clean' /\ UNCHANGED <<activeDashboardId, layoutCall>> /\ isLoadingLayout' = isLoadingLayout
  <2>1. Clean BY <1>1, <1>2, <1>4 DEF Clean, Shell!Mounted
  <2>2. OwnCalls' BY <1>1, <1>4, <2>1 DEF PageInv, OwnCalls
  <2>3. c.here /\ (c.op \in Moving <=> c.dash # activeDashboardId) /\ (layoutCall # Shell!NoCall => c.op \in Selecting)
    BY <2>1 DEF PageInv, OwnCalls
  <2>4. ~Deleted(c)
    <3>1. SUFFICES ASSUME Deleted(c) PROVE FALSE OBVIOUS
    <3>2. c.dash = activeDashboardId /\ c.dash \in Dashboards /\ c.op = "delete" /\ c.made # "failed"
      BY <1>0, <2>3, <3>1 DEF Deleted, Moving, OwnForm, Landed
    <3>3. PICK r : r = Shell!Remaining(c.dash) OBVIOUS
    <3>4. r \in Seq(Dashboards) /\ Shell!ToSet(r) = Shell!ToSet(dashboards) \ {c.dash} BY <1>0, <3>3, KeptOf DEF Shell!Remaining
    <3>5. Shell!SwitchTo(r, Shell!Following(r), panels) BY <3>2, <3>3 DEF Shell!Answered
    <3>6. r # <<>> => Shell!Following(r) \in Shell!ToSet(r) BY <3>4, SetOf DEF Shell!Following
    <3>7. Shell!Following(r) \in Dashboards \cup {NoDash} BY <3>4, <3>6, SetOf DEF Shell!Following
    <3>8. activeDashboardId' = Shell!Following(r) \/ activeDashboardId' \in Shell!ToSet(r)
      BY <1>0, <1>1, <3>4, <3>5, <3>7, SwitchStep
    <3>9. activeDashboardId' # c.dash BY <3>2, <3>4, <3>6, <3>8 DEF Shell!Following, Shell!ShellFit
    <3> QED BY <1>4, <3>2, <3>9
  <2>5. DashThere' => DashThere BY <1>1, <2>4 DEF DashThere, Deleted, Landed
  <2>6. AnswerFits' BY <1>1, <1>4, <2>1, <2>5 DEF PageInv, AnswerFits, Shell!Housed
  <2>7. SUFFICES ASSUME DashThere, layoutCall = Shell!NoCall PROVE Fitted(panels', home, calls \ {c})
    BY <1>1, <1>4, <2>2, <2>5, <2>6 DEF PageInv, PanelsFit, Fitted, Leaves, Joins, Landed
  <2>8. Fitted(panels, home, calls) BY <2>1, <2>7 DEF PageInv, PanelsFit, Fitted
  <2>9. CASE Leaves(c) /\ panels' = panels \ {c.panel}
    <3>1. ~Joins(c) BY <2>9 DEF Leaves, Joins
    <3>2. home[c.panel] # activeDashboardId BY <2>8, <2>9 DEF Fitted
    <3>3. ASSUME NEW p \in Panels
          PROVE  (p \in panels' /\ ~\E x \in calls \ {c} : Leaves(x) /\ x.panel = p)
                   <=> (home[p] = activeDashboardId /\ ~\E x \in calls \ {c} : Joins(x) /\ x.made = p)
      <4>1. CASE p = c.panel BY ONLY <2>9, <3>2, <4>1
      <4>2. CASE p # c.panel BY ONLY <2>8, <2>9, <3>1, <3>3, <4>2 DEF Fitted
      <4> QED BY <4>1, <4>2
    <3> QED BY ONLY <2>8, <2>9, <3>3 DEF Fitted
  <2>10. CASE Joins(c) /\ panels' = panels \cup {c.made}
    <3>1. ~Leaves(c) BY <2>10 DEF Leaves, Joins
    <3>2. PICK m : m = c.made OBVIOUS
    <3>3. /\ home[m] = activeDashboardId /\ m \notin panels
          /\ \A x \in calls : x.panel # m /\ (Joins(x) /\ x.made = m => x = c)
      BY <2>8, <2>10, <3>2 DEF Fitted
    <3>4. ASSUME NEW p \in Panels
          PROVE  (p \in panels' /\ ~\E x \in calls \ {c} : Leaves(x) /\ x.panel = p)
                   <=> (home[p] = activeDashboardId /\ ~\E x \in calls \ {c} : Joins(x) /\ x.made = p)
      <4>1. CASE p = m BY ONLY <2>10, <3>2, <3>3, <4>1
      <4>2. CASE p # m
        <5>1. (\E x \in calls : Leaves(x) /\ x.panel = p) <=> \E x \in calls \ {c} : Leaves(x) /\ x.panel = p BY ONLY <3>1
        <5>2. (\E x \in calls : Joins(x) /\ x.made = p) <=> \E x \in calls \ {c} : Joins(x) /\ x.made = p BY ONLY <3>2, <4>2
        <5>3. p \in panels' <=> p \in panels BY ONLY <2>10, <3>2, <4>2
        <5> QED BY <2>8, <3>4, <5>1, <5>2, <5>3 DEF Fitted
      <4> QED BY <4>1, <4>2
    <3>5. \A x \in calls \ {c} : Joins(x) => x.made \notin panels' BY ONLY <2>8, <2>10, <3>2, <3>3 DEF Fitted
    <3> QED BY ONLY <2>8, <3>4, <3>5 DEF Fitted
  <2>11. CASE ~Leaves(c) /\ ~Joins(c) /\ panels' = panels BY ONLY <2>8, <2>11 DEF Fitted
  <2>12. \/ Leaves(c) /\ panels' = panels \ {c.panel}
         \/ Joins(c) /\ panels' = panels \cup {c.made}
         \/ ~Leaves(c) /\ ~Joins(c) /\ panels' = panels
    <3>1. c.op \in Selecting \cup PanelOps BY <1>0, ShellCallForms
    <3>2. ASSUME NEW ds \in Seq(Dashboards), NEW id \in Dashboards \cup {NoDash}, NEW ps \in SUBSET Panels, Shell!SwitchTo(ds, id, ps)
          PROVE  panels' = ps
      <4>1. panels' \in {{}, ps} /\ ((Stays /\ panels' = ps) \/ Starts) BY <1>0, <1>1, <3>2, SwitchStep DEF Loading
      <4>2. ~Starts BY <1>4, <2>7 DEF Starts
      <4> QED BY <4>1, <4>2
    <3>3. c.dash \in Dashboards \cup {NoDash} /\ (Added(c) => c.made \in Dashboards /\ Append(dashboards, c.made) \in Seq(Dashboards))
      BY <1>0, ShellCallForms, SetOf DEF OwnForm
    <3>4. CASE c.made = "failed" \/ c.op = "rename"
      <4>1. ~Leaves(c) /\ ~Joins(c) BY <3>4 DEF Leaves, Joins, Landed
      <4>2. panels' = panels BY <1>0, <3>4, <4>1, <2>4, AnswerWays DEF Added, Landed, Shell!page, Shell!Creating
      <4> QED BY <4>1, <4>2
    <3>5. CASE Added(c) /\ Shell!SwitchTo(Append(dashboards, c.made), c.made, panels)
      <4>1. ~Leaves(c) /\ ~Joins(c) BY <3>5 DEF Added, Leaves, Joins, Shell!Creating
      <4>2. PICK ds : ds = Append(dashboards, c.made) OBVIOUS
      <4>3. ds \in Seq(Dashboards) /\ c.made \in Dashboards \cup {NoDash} /\ Shell!SwitchTo(ds, c.made, panels)
        BY <3>3, <3>5, <4>2
      <4>4. panels' = panels BY <1>0, <3>2, <4>3
      <4> QED BY <4>1, <4>4
    <3>6. CASE c.op = "move" /\ Leaves(c) /\ Shell!SwitchTo(dashboards, c.dash, IF c.here THEN panels \ {c.panel} ELSE panels)
      <4>1. (IF c.here THEN panels \ {c.panel} ELSE panels) = panels \ {c.panel} BY <2>3
      <4>2. PICK ps \in SUBSET Panels : ps = panels \ {c.panel} BY <1>0
      <4>3. Shell!SwitchTo(dashboards, c.dash, ps) BY <3>6, <4>1, <4>2
      <4>4. panels' = ps BY <1>0, <3>2, <3>3, <4>3
      <4> QED BY <3>6, <4>2, <4>4
    <3>7. CASE c.op = "copy" /\ Landed(c) /\ Shell!SwitchTo(dashboards, c.dash, panels)
      <4>1. ~Leaves(c) /\ ~Joins(c) BY <3>7 DEF Leaves, Joins
      <4> QED BY <1>0, <3>2, <3>3, <3>7, <4>1
    <3>8. CASE c.op \in {"add", "panel copy", "remove"} /\ Landed(c) /\ panels' = (IF c.here THEN Shell!PanelsAfter(c) ELSE panels)
      BY <2>3, <3>8 DEF Shell!PanelsAfter, Leaves, Joins
    <3> QED BY <1>0, <2>4, <3>4, <3>5, <3>6, <3>7, <3>8, AnswerWays
  <2> QED BY <2>9, <2>10, <2>11, <2>12
<1>5. UNCHANGED <<activeDashboardId, layoutCall, isLoadingLayout>> \/ Starts
  <2>1. ASSUME NEW ds \in Seq(Dashboards), NEW id \in Dashboards \cup {NoDash}, NEW ps \in SUBSET Panels, Shell!SwitchTo(ds, id, ps)
        PROVE  UNCHANGED <<activeDashboardId, layoutCall, isLoadingLayout>> \/ Starts
    BY <1>0, <1>1, <2>1, SwitchStep DEF Loading, Stays
  <2>2. c.dash \in Dashboards \cup {NoDash} /\ (Added(c) => c.made \in Dashboards /\ Append(dashboards, c.made) \in Seq(Dashboards))
    BY <1>0, ShellCallForms, SetOf DEF OwnForm
  <2>3. Shell!Remaining(c.dash) \in Seq(Dashboards) /\ Shell!Following(Shell!Remaining(c.dash)) \in Dashboards \cup {NoDash}
    <3>1. PICK r : r = Shell!Remaining(c.dash) OBVIOUS
    <3>2. r \in Seq(Dashboards) BY <1>0, <3>1, KeptOf DEF Shell!Remaining
    <3>3. r # <<>> => r[1] \in Dashboards BY <3>2, SetOf
    <3> QED BY <3>1, <3>2, <3>3 DEF Shell!Following
  <2>4. (IF c.here THEN panels \ {c.panel} ELSE panels) \in SUBSET Panels BY <1>0
  <2> QED BY <1>0, <2>1, <2>2, <2>3, <2>4, AnswerWays DEF Shell!page
<1> QED BY <1>3, <1>4, <1>5, Restart

-----------------------------------------------------------------------------
LEMMA ShellStart == ASSUME Shell!ShellFit, Shell!Init PROVE ShellInv
<1>1. /\ rows \in Seq(Dashboards) /\ home \in [Panels -> Dashboards \cup {NoDash}]
  <2>1. rows \in Seq(Dashboards) BY DEF Shell!Init, Shell!ShellFit
  <2>2. Shell!ToSet(rows) \subseteq Dashboards BY <2>1, SetOf
  <2> QED BY <2>1, <2>2 DEF Shell!Init
<1>2. stored \in Dashboards \cup {NoDash} /\ activeDashboardId = stored /\ query \in Dashboards \cup {NoDash}
  BY DEF Shell!Init, Shell!ShellFit
<1>3. /\ path = "dashboard" /\ dashboards = <<>> /\ dashboardsLoading = TRUE /\ listCalls = <<Shell!Unserved>>
      /\ editMode = FALSE /\ panelLibraryOpen = FALSE /\ dialogs = {} /\ busy = FALSE
      /\ panels = {} /\ isLoadingLayout = TRUE /\ layoutCall = Shell!NoCall /\ calls = {}
      /\ astray = FALSE /\ overlapped = FALSE /\ raced = FALSE /\ nowhere = FALSE
  BY DEF Shell!Init
<1>4. listCalls \in Seq({Shell!Unserved} \cup Seq(Dashboards)) BY <1>3
<1>5. dashboards \in Seq(Dashboards) BY <1>3
<1>6. LayoutTyped BY <1>2, <1>3, <1>4, <1>5 DEF LayoutTyped
<1>7. ServerTyped /\ ModesTyped /\ PageTyped /\ CallsTyped /\ GhostsTyped
  BY <1>1, <1>3 DEF ServerTyped, ModesTyped, PageTyped, CallsTyped, GhostsTyped
<1>8. LoadInv /\ Opening BY <1>3 DEF LoadInv, Opening
<1>9. SameSet /\ SameOrder /\ ActiveListed BY <1>3 DEF SameSet, SameOrder, ActiveListed
<1>10. FreshLists /\ OneByOne BY <1>3 DEF FreshLists, OneByOne
<1>11. ~Clean BY <1>3 DEF Clean
<1> QED BY <1>6, <1>7, <1>8, <1>9, <1>10, <1>11 DEF ShellInv, ShellTyped, ListInv, PageInv, OwnCalls, AnswerFits, PanelsFit

LEMMA ShellStep == ASSUME Shell!ShellFit, ShellInv, [Shell!Next]_(Shell!vars) PROVE ShellInv'
<1>0. FormInv /\ ListInv /\ PageInv BY DEF ShellInv, FormInv
<1>1. ASSUME NEW i \in DOMAIN listCalls, Shell!ServeList(i) \/ Shell!ListAnswered(i) \/ Shell!ListFailed(i) PROVE ShellInv'
  BY <1>0, <1>1, ListTyped, ListListed, ListPaged DEF ShellInv, FormInv
<1>2. ASSUME NEW pth \in {"dashboard", "other"}, NEW q \in Dashboards \cup {NoDash}, Shell!Navigate(pth, q) PROVE ShellInv'
  BY <1>0, <1>2, NavigateTyped, NavigateListed, NavigatePaged DEF ShellInv, FormInv
<1>3. ASSUME UNCHANGED Panelled, UNCHANGED <<panels, layoutCall, astray>>, FormInv' PROVE ShellInv'
  <2>1. Changing /\ FreshLists /\ ActiveListed BY <1>0 DEF ListInv, Changing
  <2>2. Changing' /\ (ChangesLanded' <=> ChangesLanded) BY <1>3, <2>1, SameList DEF Panelled
  <2>3. FreshLists' /\ ActiveListed' BY <1>3, <2>1, <2>2 DEF Panelled, FreshLists, ActiveListed
  <2>4. PageInv' BY <1>0, <1>3, SamePage DEF Panelled
  <2> QED BY <1>3, <2>2, <2>3, <2>4 DEF ShellInv, FormInv, ListInv, Changing
<1>4. CASE Menus BY <1>0, <1>3, <1>4, MenusTyped DEF Shell!page
<1>5. ASSUME NEW d \in Dashboards, Shell!Pick(d) PROVE ShellInv'
  <2>1. /\ FormInv' /\ UNCHANGED <<Shell!server, path, dashboardsLoading, listCalls, Shell!modes, calls, astray, Shell!races>>
        /\ dashboards' = dashboards /\ dashboards # <<>> /\ activeDashboardId' \in Shell!ToSet(dashboards)
    BY <1>0, <1>5, PickTyped
  <2>2. Changing /\ FreshLists BY <1>0 DEF ListInv, Changing
  <2>3. Changing' /\ (ChangesLanded' <=> ChangesLanded) BY <2>1, <2>2, SameList DEF Shell!server, Shell!races
  <2>4. FreshLists' BY <2>1 DEF FreshLists
  <2>5. ActiveListed' BY <2>1 DEF ActiveListed
  <2>6. PageInv' BY <1>0, <1>5, PickPaged
  <2> QED BY <2>1, <2>3, <2>4, <2>5, <2>6 DEF ShellInv, FormInv, ListInv, Changing
<1>6. ASSUME NEW op \in Selecting, Shell!Submit(op) PROVE ShellInv'
  <2>0. op \in Selecting BY DEF Selecting, Shell!Changes, Shell!Creating
  <2>1. /\ FormInv' /\ ~dashboardsLoading
        /\ \E c : /\ ShellSent(c) /\ c.op = op /\ c.dash = activeDashboardId /\ c.panel = Shell!None
                  /\ op \in {"rename", "delete"} => activeDashboardId \in Shell!ToSet(dashboards)
                  /\ UNCHANGED <<overlapped, nowhere>>
                  /\ raced' = (raced \/ (op \in Shell!Changes /\ \E d \in calls : d.op \in Shell!Changes))
    BY <1>0, <1>6, <2>0, SubmitForm
  <2>2. PICK c : /\ ShellSent(c) /\ c.op = op /\ c.dash = activeDashboardId /\ c.panel = Shell!None
                 /\ op \in {"rename", "delete"} => activeDashboardId \in Shell!ToSet(dashboards)
                 /\ UNCHANGED <<overlapped, nowhere>>
                 /\ raced' = (raced \/ (op \in Shell!Changes /\ \E d \in calls : d.op \in Shell!Changes))
    BY <2>1
  <2>3. ListInv' BY <1>0, <2>1, <2>2, SentListed
  <2>4. c.op \in Selecting /\ c.op \notin Moving BY <2>0, <2>2 DEF Moving, Selecting, Shell!Changes, Shell!Creating
  <2>5. PageInv' BY <1>0, <2>2, <2>4, SentPaged
  <2> QED BY <2>1, <2>3, <2>5 DEF ShellInv, FormInv
<1>7. ASSUME NEW op \in {"add", "panel copy", "copy", "move", "remove"}, NEW p \in Panels \cup {Shell!None},
             NEW d \in Dashboards, Shell!Panel(op, p, d)
      PROVE  ShellInv'
  <2>0. op \in PanelOps BY DEF PanelOps, Moving
  <2>1. /\ FormInv' /\ ~dashboardsLoading /\ layoutCall = Shell!NoCall
        /\ \E c : /\ ShellSent(c) /\ c.op = op /\ c.dash = d /\ c.panel = p
                  /\ op \in Moving <=> d # activeDashboardId
                  /\ p = Shell!None \/ p \in panels
                  /\ UNCHANGED Shell!races
    BY <1>0, <1>7, <2>0, PanelForm
  <2>2. PICK c : /\ ShellSent(c) /\ c.op = op /\ c.dash = d /\ c.panel = p
                 /\ op \in Moving <=> d # activeDashboardId
                 /\ p = Shell!None \/ p \in panels
                 /\ UNCHANGED Shell!races
    BY <2>1
  <2>3. c.op \notin Shell!Changes /\ c.op # "delete" BY <2>2 DEF Shell!Changes, Shell!Creating
  <2>4. UNCHANGED <<overlapped, raced, nowhere>> /\ raced \in BOOLEAN BY <1>0, <2>2 DEF Shell!races, FormInv, ShellTyped, GhostsTyped
  <2>5. raced' = (raced \/ (c.op \in Shell!Changes /\ \E x \in calls : x.op \in Shell!Changes)) BY ONLY <2>3, <2>4
  <2>6. ListInv' BY <1>0, <2>1, <2>2, <2>3, <2>4, <2>5, SentListed
  <2>7. PageInv' BY <1>0, <2>1, <2>2, SentPaged
  <2> QED BY <2>1, <2>6, <2>7 DEF ShellInv, FormInv
<1>8. ASSUME NEW c \in calls, Shell!Serve(c) PROVE ShellInv'
  <2>1. ServerTyped /\ CallsTyped BY <1>0 DEF FormInv, ShellTyped
  <2>2. PICK e : ShellServed(c, e) BY <1>8, <2>1, ServeForm
  <2> QED BY <1>0, <2>2, ServeTyped, ServeListed, ServePaged DEF ShellInv, FormInv
<1>9. ASSUME NEW c \in calls, Shell!Answered(c) PROVE ShellInv'
  BY <1>0, <1>9, AnswerTyped, AnswerListed, AnswerPaged DEF ShellInv, FormInv
<1>10. CASE Shell!ServeLayout \/ Shell!LayoutAnswered
  <2>1. FormInv' /\ UNCHANGED Panelled BY <1>0, <1>10, LayoutCallTyped
  <2>2. Changing /\ FreshLists /\ ActiveListed BY <1>0 DEF ListInv, Changing
  <2>3. Changing' /\ (ChangesLanded' <=> ChangesLanded) BY <2>1, <2>2, SameList DEF Panelled
  <2>4. FreshLists' /\ ActiveListed' BY <2>1, <2>2, <2>3 DEF Panelled, FreshLists, ActiveListed
  <2>5. PageInv' BY <1>0, <1>10, LayoutCallPaged
  <2> QED BY <2>1, <2>3, <2>4, <2>5 DEF ShellInv, FormInv, ListInv, Changing
<1>11. CASE UNCHANGED Shell!vars
  <2>1. UNCHANGED <<Shell!server, Shell!layout, Shell!modes, Shell!page, calls, astray, Shell!races>> BY <1>11 DEF Shell!vars
  <2>2. FormInv'
    BY <1>0, <2>1 DEF FormInv, ShellTyped, ServerTyped, LayoutTyped, ModesTyped, PageTyped, CallsTyped, GhostsTyped, LoadInv, Opening,
                      Shell!server, Shell!layout, Shell!modes, Shell!page, Shell!races, Shell!Mounted, OwnForm, Added, Deleted, Landed
  <2>3. UNCHANGED Panelled /\ UNCHANGED <<panels, layoutCall, astray>> BY <2>1 DEF Panelled, Shell!server, Shell!layout, Shell!page, Shell!races
  <2> QED BY <1>3, <2>2, <2>3
<1>12. CASE Shell!Next
  <2>1. \/ \E i \in DOMAIN listCalls : Shell!ServeList(i) \/ Shell!ListAnswered(i) \/ Shell!ListFailed(i)
        \/ \E pth \in {"dashboard", "other"}, q \in Dashboards \cup {NoDash} : Shell!Navigate(pth, q)
        \/ Menus
        \/ \E d \in Dashboards : Shell!Pick(d)
        \/ \E op \in Selecting : Shell!Submit(op)
        \/ \E op \in {"add", "panel copy", "copy", "move", "remove"}, p \in Panels \cup {Shell!None}, d \in Dashboards : Shell!Panel(op, p, d)
        \/ \E c \in calls : Shell!Serve(c) \/ Shell!Answered(c)
        \/ Shell!ServeLayout \/ Shell!LayoutAnswered
    BY <1>12 DEF Shell!Next, Menus, Selecting
  <2> QED BY <1>1, <1>2, <1>4, <1>5, <1>6, <1>7, <1>8, <1>9, <1>10, <2>1
<1> QED BY <1>11, <1>12

(* The invariant behind the dashboards' shell: its list and its panels as  *)
(* the answers under way will make them (Layout.tsx, DashboardPage.tsx).   *)
THEOREM ShellInvariant == ASSUME Shell!ShellFit PROVE ShellRuns => []ShellInv
<1>1. Shell!Init => ShellInv BY ShellStart
<1>2. ShellInv /\ [Shell!Next]_(Shell!vars) => ShellInv' BY ShellStep
<1> QED BY <1>1, <1>2, PTL DEF ShellRuns

(* The shell keeps values of their types, the library is open only where   *)
(* it may be, and a dialog that waits has one call under way (Layout.tsx,  *)
(* DashboardPage.tsx).                                                     *)
THEOREM ShellIsTyped == ASSUME Shell!ShellFit PROVE ShellRuns => []Shell!TypeOK
<1>1. ShellInv => Shell!TypeOK
  <2>1. SUFFICES ASSUME ShellInv PROVE Shell!TypeOK OBVIOUS
  <2>2. ServerTyped /\ LayoutTyped /\ ModesTyped /\ PageTyped /\ GhostsTyped BY <2>1 DEF ShellInv, ShellTyped
  <2>3. Shell!ToSet(rows) \cup Shell!ToSet(dashboards) \subseteq Dashboards BY <2>2, SetOf DEF ServerTyped, LayoutTyped
  <2>4. {query, activeDashboardId, stored} \subseteq Dashboards \cup {NoDash} BY <2>2 DEF LayoutTyped
  <2>5. {dashboardsLoading, isLoadingLayout, editMode, panelLibraryOpen, busy, astray, overlapped, raced, nowhere} \subseteq BOOLEAN
    BY <2>2 DEF LayoutTyped, ModesTyped, PageTyped, GhostsTyped
  <2> QED BY <2>2, <2>3, <2>4, <2>5 DEF Shell!TypeOK, ServerTyped, ModesTyped, PageTyped
<1> QED BY <1>1, ShellInvariant, PTL

(* The selected dashboard is one of the list, and what is remembered is    *)
(* what is selected, whatever is deleted, created and answered late        *)
(* (Layout.tsx, activeDashboardId).                                        *)
THEOREM SelectionIsKnown == ASSUME Shell!ShellFit PROVE ShellRuns => []Shell!ActiveKnown
<1>1. ShellInv => Shell!ActiveKnown BY DEF ShellInv, ShellTyped, LayoutTyped, ListInv, ActiveListed, Shell!ActiveKnown
<1> QED BY <1>1, ShellInvariant, PTL

(* With nothing under way the list of dashboards is the server's, in its   *)
(* order, unless changes raced or one went astray (Layout.tsx, the loading *)
(* of the list and the reorder).                                           *)
THEOREM ListIsServers == ASSUME Shell!ShellFit PROVE ShellRuns => []Shell!ListInStep
<1>1. ShellInv => Shell!ListInStep
  <2>1. SUFFICES ASSUME ShellInv, Shell!Quiet, ~dashboardsLoading, ~overlapped
                 PROVE  Shell!ToSet(dashboards) = Shell!ToSet(rows) /\ (~raced => dashboards = rows)
    BY DEF Shell!ListInStep
  <2>2. calls = {} /\ SameSet /\ SameOrder /\ rows \in Seq(Dashboards) /\ dashboards \in Seq(Dashboards)
    BY <2>1 DEF Shell!Quiet, ShellInv, ListInv, ShellTyped, ServerTyped, LayoutTyped
  <2>3. Shell!ToSet(rows) \subseteq Dashboards /\ Shell!ToSet(dashboards) \subseteq Dashboards BY <2>2, SetOf
  <2>4. \A d \in Dashboards : d \in Shell!ToSet(dashboards) <=> d \in Shell!ToSet(rows) BY <2>1, <2>2 DEF SameSet
  <2>5. ~ChangesLanded BY <2>2 DEF ChangesLanded
  <2> QED BY <2>1, <2>2, <2>3, <2>4, <2>5 DEF SameOrder
<1> QED BY <1>1, ShellInvariant, PTL

(* With nothing under way the page shows the panels the server has on the  *)
(* selected dashboard, unless a change overlapped the loading or an answer *)
(* came after the user had turned elsewhere (DashboardPage.tsx).           *)
THEOREM PanelsAreServers == ASSUME Shell!ShellFit PROVE ShellRuns => []Shell!PageInStep
<1>1. ShellInv => Shell!PageInStep
  <2>1. SUFFICES ASSUME ShellInv, Shell!Quiet, Shell!Mounted, ~Shell!Spins, ~astray, activeDashboardId # NoDash
                 PROVE  panels = Shell!Housed(activeDashboardId)
    BY DEF Shell!PageInStep
  <2>2. calls = {} /\ layoutCall = Shell!NoCall /\ ~dashboardsLoading BY <2>1 DEF Shell!Quiet, Shell!Spins
  <2>3. Clean /\ DashThere BY <2>1, <2>2 DEF Clean, DashThere
  <2>4. panels \subseteq Panels BY <2>1 DEF ShellInv, ShellTyped, PageTyped
  <2>5. \A p \in Panels : p \in panels <=> home[p] = activeDashboardId BY <2>1, <2>2, <2>3 DEF ShellInv, PageInv, PanelsFit
  <2> QED BY <2>4, <2>5 DEF Shell!Housed
<1> QED BY <1>1, ShellInvariant, PTL


-----------------------------------------------------------------------------
(***************************************************************************)
(* The explorer (Explorer).  TreeComplete speaks of a page at rest; before *)
(* that a topic may be in a frame or in the answer that is meant           *)
(* (TreeWillBe), and only the last request is meant (Asked).               *)
(***************************************************************************)
(* The number of elements, as the page counts them. *)
LEMMA TreeCounts == \A S : Tree!Cardinality(S) = Cardinality(S) /\ (Tree!IsFiniteSet(S) <=> IsFiniteSet(S))
BY DEF Tree!Cardinality, Tree!IsFiniteSet, Cardinality, IsFiniteSet

(* Its runs, with no fairness assumed. *)
TreeRuns == Tree!Init /\ [][Tree!Next]_(Tree!vars)

-----------------------------------------------------------------------------
(* The broker shown is one there is, chosen or not. *)
LEMMA AutoKnown == ASSUME Tree!ExplorerFit, NEW st PROVE Tree!AutoSelected(st) \in Tree!Brokers
<1>0. PICK n \in Nat : n = Len(BrokerList) /\ n # 0 /\ DOMAIN BrokerList = 1..n /\ \A i \in 1..n : BrokerList[i] \in Tree!Brokers
  <2>1. BrokerList \in Seq(Tree!Brokers) /\ BrokerList # <<>> BY DEF Tree!ExplorerFit
  <2>2. Len(BrokerList) \in Nat /\ Len(BrokerList) # 0 /\ DOMAIN BrokerList = 1..Len(BrokerList) BY <2>1, EmptySeq, LenProperties
  <2>3. \A i \in 1..Len(BrokerList) : BrokerList[i] \in Tree!Brokers BY <2>1, ElementOfSeq
  <2> QED BY <2>2, <2>3
<1> DEFINE With(ss) == {i \in DOMAIN BrokerList : st[BrokerList[i]] \in ss}
           Pick(S) == CHOOSE i \in S : \A j \in S : i <= j
<1>1. ASSUME NEW ss, With(ss) # {} PROVE Pick(With(ss)) \in 1..n
  <2>1. PICK S : S = With(ss) OBVIOUS
  <2>2. S \subseteq Nat /\ S # {} /\ S \subseteq 1..n BY <1>0, <1>1, <2>1
  <2>3. \E i \in S : \A j \in S : i <= j BY <2>2, LeastNumber
  <2>4. (CHOOSE i \in S : \A j \in S : i <= j) \in S BY <2>3
  <2> QED BY <2>1, <2>2, <2>4
<1>2. 1 \in 1..n BY <1>0
<1>3. PICK k \in 1..n : Tree!AutoSelected(st) = BrokerList[k]
  <2>1. Tree!AutoSelected(st) = BrokerList[IF With({"connected"}) # {} THEN Pick(With({"connected"}))
                                       ELSE IF With({"enabled"}) # {} THEN Pick(With({"enabled"})) ELSE 1]
    BY DEF Tree!AutoSelected
  <2>2. (IF With({"connected"}) # {} THEN Pick(With({"connected"}))
         ELSE IF With({"enabled"}) # {} THEN Pick(With({"enabled"})) ELSE 1) \in 1..n
    <3>1. With({"connected"}) # {} => Pick(With({"connected"})) \in 1..n BY <1>1
    <3>2. With({"enabled"}) # {} => Pick(With({"enabled"})) \in 1..n BY <1>1
    <3> HIDE DEF With, Pick
    <3> QED BY <1>2, <3>1, <3>2
  <2> QED BY <2>1, <2>2
<1> QED BY <1>0, <1>3

Chosen == Tree!Brokers \union {Tree!NoBroker}
LEMMA ShownKnown ==
  ASSUME Tree!ExplorerFit, selectedBrokerId \in Chosen
  PROVE  Tree!effectiveBrokerId \in Tree!Brokers
<1>1. Tree!AutoSelected(status) \in Tree!Brokers BY AutoKnown
<1> QED BY <1>1 DEF Tree!effectiveBrokerId, Chosen
LEMMA ShownNext ==
  ASSUME Tree!ExplorerFit, selectedBrokerId' \in Chosen
  PROVE  Tree!effectiveBrokerId' \in Tree!Brokers
<1>1. Tree!AutoSelected(status') \in Tree!Brokers BY AutoKnown
<1>2. Tree!effectiveBrokerId' = IF selectedBrokerId' # Tree!NoBroker THEN selectedBrokerId' ELSE Tree!AutoSelected(status')
  BY DEF Tree!effectiveBrokerId
<1> QED BY <1>1, <1>2 DEF Chosen

(* A topic or a filter: its levels, and what stands above its "#". *)
LEMMA FitLevels ==
  ASSUME Tree!ExplorerFit
  PROVE  /\ \A t \in Topics \union commonSysTopics : t \in Seq(Tree!Levels) /\ t # <<>>
         /\ "#" \in Tree!Levels
BY DEF Tree!ExplorerFit, Tree!Levels

LEMMA FrontIs ==
  ASSUME NEW T, NEW t \in Seq(T), t # <<>>
  PROVE  /\ Tree!Front(t) \in Seq(T) /\ Len(Tree!Front(t)) = Len(t) - 1
         /\ \A i \in 1..(Len(t) - 1) : Tree!Front(t)[i] = t[i]
<1>1. PICK n \in Nat : n = Len(t) /\ n # 0 /\ \A i \in 1..n : t[i] \in T BY EmptySeq, LenProperties, ElementOfSeq
<1>2. PICK f : f = SubSeq(t, 1, n - 1) OBVIOUS
<1>3. 1 \in Int /\ n - 1 \in Int /\ \A i \in 1..(n - 1) : t[i] \in T BY <1>1
<1>4. /\ f \in Seq(T) /\ Len(f) = (IF 1 <= n - 1 THEN (n - 1) - 1 + 1 ELSE 0)
      /\ \A i \in 1..((n - 1) - 1 + 1) : f[i] = t[1 + i - 1]
  BY ONLY <1>2, <1>3, SubSeqProperties
<1>5. Len(f) = n - 1 BY ONLY <1>1, <1>4
<1>6. ASSUME NEW i \in 1..(n - 1) PROVE f[i] = t[i]
  <2>1. i \in 1..((n - 1) - 1 + 1) /\ 1 + i - 1 = i BY ONLY <1>1, <1>6
  <2> QED BY ONLY <1>4, <2>1
<1>7. Tree!Front(t) = f BY <1>1, <1>2 DEF Tree!Front
<1> QED BY <1>1, <1>4, <1>5, <1>6, <1>7

LEMMA StartIs ==
  ASSUME NEW T, NEW t \in Seq(T), NEW n \in 1..Len(t)
  PROVE  /\ SubSeq(t, 1, n) \in Seq(T) /\ Len(SubSeq(t, 1, n)) = n
         /\ \A i \in 1..n : SubSeq(t, 1, n)[i] = t[i]
<1>1. PICK m \in Nat : m = Len(t) /\ n \in Nat /\ n # 0 /\ n <= m /\ \A i \in 1..m : t[i] \in T BY LenProperties, ElementOfSeq
<1>2. PICK f : f = SubSeq(t, 1, n) OBVIOUS
<1>3. 1 \in Int /\ n \in Int /\ \A i \in 1..n : t[i] \in T BY <1>1
<1>4. /\ f \in Seq(T) /\ Len(f) = (IF 1 <= n THEN n - 1 + 1 ELSE 0)
      /\ \A i \in 1..(n - 1 + 1) : f[i] = t[1 + i - 1]
  BY ONLY <1>2, <1>3, SubSeqProperties
<1>5. Len(f) = n BY ONLY <1>1, <1>4
<1>6. ASSUME NEW i \in 1..n PROVE f[i] = t[i]
  <2>1. i \in 1..(n - 1 + 1) /\ 1 + i - 1 = i BY ONLY <1>1, <1>6
  <2> QED BY ONLY <1>4, <2>1
<1> QED BY <1>2, <1>4, <1>5, <1>6

LEMMA BaseIs ==
  ASSUME NEW T, NEW t \in Seq(T)
  PROVE  Tree!Base(t) \in Seq(T) /\ (Tree!Base(t) = t \/ (Tree!Subtree(t) /\ Tree!Base(t) = Tree!Front(t)))
<1>1. CASE ~Tree!Subtree(t) BY <1>1 DEF Tree!Base
<1>2. CASE Tree!Subtree(t)
  <2>1. t # <<>> BY <1>2, EmptySeq DEF Tree!Subtree
  <2> QED BY <1>2, <2>1, FrontIs DEF Tree!Base
<1> QED BY <1>1, <1>2

(* Selecting a parent with what is below it leaves its name. *)
LEMMA EffectiveIs ==
  ASSUME NEW T, NEW t \in Seq(T), "#" \in T, NEW ts, NEW exact
  PROVE  /\ Tree!Effective(t, ts, exact) \in Seq(T)
         /\ t # <<>> => Tree!Base(Tree!Effective(t, ts, exact)) = Tree!Base(t)
<1>1. CASE Tree!Effective(t, ts, exact) = t BY <1>1
<1>2. CASE Tree!Effective(t, ts, exact) = Append(t, "#") /\ ~Tree!Subtree(t)
  <2>1. PICK e : e = Append(t, "#") OBVIOUS
  <2>2. e \in Seq(T) /\ Len(e) = Len(t) + 1 /\ e[Len(t) + 1] = "#" /\ \A i \in 1..Len(t) : e[i] = t[i]
    BY <2>1, AppendProperties
  <2>3. ASSUME t # <<>> PROVE Tree!Base(e) = t
    <3>1. PICK n \in Nat : n = Len(t) /\ n # 0 BY <2>3, EmptySeq, LenProperties
    <3>2. Len(e) = n + 1 /\ Len(e) > 1 BY <2>2, <3>1
    <3>3. Tree!Subtree(e) BY <2>2, <3>1, <3>2 DEF Tree!Subtree, Tree!Last
    <3>4. e # <<>> BY <3>2, EmptySeq
    <3>5. Tree!Front(e) \in Seq(T) /\ Len(Tree!Front(e)) = Len(e) - 1 /\ \A i \in 1..(Len(e) - 1) : Tree!Front(e)[i] = e[i]
      BY <2>2, <3>4, FrontIs
    <3>6. Len(Tree!Front(e)) = Len(t) /\ \A i \in 1..Len(t) : t[i] = Tree!Front(e)[i] BY <2>2, <3>1, <3>2, <3>5
    <3>7. Tree!Front(e) = t BY <3>5, <3>6, SameSeq
    <3> QED BY <3>3, <3>7 DEF Tree!Base
  <2>4. Tree!Base(t) = t BY <1>2 DEF Tree!Base
  <2> QED BY <1>2, <2>1, <2>2, <2>3, <2>4
<1> QED BY <1>1, <1>2 DEF Tree!Effective, Tree!isParent

-----------------------------------------------------------------------------
(* The row of the selected topic: whatever hides it was folded by hand. *)
LEMMA SelectedDrawn ==
  ASSUME NEW T, NEW row \in Seq(T), NEW sel \in Seq(T), NEW os, NEW drawn, NEW wide_,
         row \in drawn, Tree!isSelected(row, sel), ~Tree!Visible(row, os, drawn, sel, wide_)
  PROVE  \E o \in os : o.topic = sel /\ ~o.open
<1>1. PICK n \in 1..(Len(row) - 1) : ~Tree!Open(SubSeq(row, 1, n), os, sel, wide_) BY DEF Tree!Visible
<1>2. PICK m \in Nat : m = Len(row) BY LenProperties
<1>3. n \in 1..m /\ n \in Nat /\ n < m BY <1>1, <1>2
<1>4. PICK r : r = SubSeq(row, 1, n) OBVIOUS
<1>5. r \in Seq(T) /\ Len(r) = n /\ \A i \in 1..n : r[i] = row[i] BY <1>2, <1>3, <1>4, StartIs
<1>6. ~Tree!Open(r, os, sel, wide_) BY <1>1, <1>4
<1>7. PICK byHand : byHand = {o \in os : o.row = r /\ o.topic = sel} OBVIOUS
<1>8. IF byHand # {} THEN ~(\E o \in byHand : o.open) ELSE ~Tree!shouldAutoExpand(r, sel) BY <1>6, <1>7 DEF Tree!Open
<1>9. Tree!Somewhere(sel) /\ row \in {sel, Tree!Base(sel)} BY DEF Tree!isSelected
<1>10. Tree!shouldAutoExpand(r, sel)
  <2>0. Tree!Base(sel) \in Seq(T) /\ (Tree!Base(sel) = sel \/ (Tree!Subtree(sel) /\ Tree!Base(sel) = Tree!Front(sel))) BY BaseIs
  <2>1. CASE row = Tree!Base(sel)
    <3>1. SubSeq(row, 1, Len(r)) = r BY <1>4, <1>5
    <3>2. r # row BY <1>2, <1>3, <1>5
    <3>3. Len(r) <= Len(row) BY <1>2, <1>3, <1>5
    <3>4. Tree!IsStrictPrefix(r, row) BY <3>1, <3>2, <3>3 DEF Tree!IsStrictPrefix, Tree!IsPrefix
    <3> QED BY <1>9, <2>1, <3>4 DEF Tree!shouldAutoExpand
  <2>2. CASE row = sel /\ Tree!Subtree(sel) /\ Tree!Base(sel) = Tree!Front(sel)
    <3>1. sel # <<>> BY <1>2, <1>3, <2>2, EmptySeq
    <3>2. PICK f \in Seq(T) : f = Tree!Front(sel) /\ Len(f) = m - 1 /\ \A i \in 1..(m - 1) : f[i] = sel[i]
      BY <1>2, <2>2, <3>1, FrontIs
    <3>3. CASE n = m - 1
      <4>1. \A i \in 1..Len(r) : r[i] = f[i] BY <1>5, <2>2, <3>2, <3>3
      <4>2. r = f BY <1>5, <3>2, <3>3, <4>1, SameSeq
      <4> QED BY <1>9, <2>2, <3>2, <4>2 DEF Tree!shouldAutoExpand
    <3>4. CASE n # m - 1
      <4>1. n <= m - 1 /\ n \in 1..Len(f) BY <1>2, <1>3, <3>2, <3>4
      <4>2. PICK g : g = SubSeq(f, 1, n) OBVIOUS
      <4>3. g \in Seq(T) /\ Len(g) = n /\ \A i \in 1..n : g[i] = f[i] BY <4>1, <4>2, StartIs
      <4>4. \A i \in 1..n : i \in 1..(m - 1) BY <1>2, <1>3, <4>1
      <4>5. \A i \in 1..Len(r) : r[i] = g[i] BY <1>5, <2>2, <3>2, <4>3, <4>4
      <4>6. r = g BY <1>5, <4>3, <4>5, SameSeq
      <4>7. r # f BY <1>2, <1>3, <1>5, <3>2, <3>4
      <4>8. Len(r) <= Len(f) BY <1>5, <3>2, <4>1
      <4>9. SubSeq(f, 1, Len(r)) = r BY <1>5, <4>2, <4>6
      <4>10. Tree!IsStrictPrefix(r, f) BY <4>7, <4>8, <4>9 DEF Tree!IsStrictPrefix, Tree!IsPrefix
      <4> QED BY <1>9, <2>2, <3>2, <4>10 DEF Tree!shouldAutoExpand
    <3> QED BY <3>3, <3>4
  <2> QED BY <1>9, <2>0, <2>1, <2>2
<1>11. byHand # {} /\ ~(\E o \in byHand : o.open) BY <1>8, <1>10
<1>12. PICK o \in byHand : TRUE BY <1>11
<1>13. ~o.open /\ o \in os /\ o.topic = sel BY <1>7, <1>11, <1>12
<1> QED BY <1>13

LEMMA RowsAreTopics ==
  ASSUME Tree!ExplorerFit, topics \subseteq Topics
  PROVE  \A row \in Tree!Rows : row \in Seq(Tree!Levels) /\ row # <<>>
<1> SUFFICES ASSUME NEW row \in Tree!Rows PROVE row \in Seq(Tree!Levels) /\ row # <<>> OBVIOUS
<1>1. PICK t \in Tree!filteredTopics : \E n \in DOMAIN t : row = SubSeq(t, 1, n) BY DEF Tree!Rows
<1>2. t \in Topics \union commonSysTopics BY <1>1 DEF Tree!filteredTopics, Tree!displayedTopics, Tree!Displayed
<1>3. t \in Seq(Tree!Levels) BY <1>2, FitLevels
<1>4. PICK n \in 1..Len(t) : row = SubSeq(t, 1, n) BY <1>1, <1>3
<1>5. SubSeq(t, 1, n) \in Seq(Tree!Levels) /\ Len(SubSeq(t, 1, n)) = n BY <1>3, <1>4, StartIs
<1>6. n # 0 BY <1>3, <1>4
<1> QED BY <1>4, <1>5, <1>6, EmptySeq

-----------------------------------------------------------------------------
(* The shapes of the page, and what the requests for the tree may say.     *)
Found == {<<>>} \union {<<S>> : S \in SUBSET Topics}
TreeRequests == [broker : Tree!Brokers, found : Found, cancelled : BOOLEAN]
TreeShaped ==
    /\ store \in [Tree!Brokers -> SUBSET Topics] /\ published \in [Tree!Brokers -> SUBSET Topics]
    /\ queue \subseteq Tree!Brokers \X Topics
    /\ selectedBrokerId \in Chosen
    /\ topics \subseteq Topics
    /\ selectedTopic \in Seq(Tree!Levels)
    /\ pickerSelectedTopic \in Seq(Seq(Tree!Levels))
    /\ url \in Urls \union {Tree!Plain}
    /\ frames \in Seq(Tree!Brokers \X Topics)
    /\ requests \in Seq(TreeRequests)
    /\ served.broker \in Chosen

(* Only the last request may be meant, and then for the broker shown; what *)
(* it was answered with was published on that broker.                      *)
TreeAsked(rs, b) ==
    \A i \in DOMAIN rs : (i < Len(rs) => rs[i].cancelled) /\ (rs[i].cancelled \/ rs[i].broker = b)
Truthful(rs, pub) == \A i \in DOMAIN rs : rs[i].found # <<>> => rs[i].found[1] \subseteq pub[rs[i].broker]
Promised(rs, t) ==
    \E i \in DOMAIN rs : ~rs[i].cancelled /\ (rs[i].found = <<>> \/ t \in rs[i].found[1])
TreeSent(fs, pub) == \A i \in DOMAIN fs : fs[i][2] \in pub[fs[i][1]]
UnderWay(fs, b, t) == \E i \in DOMAIN fs : fs[i] = <<b, t>>

(* A topic captured of the broker shown, stored or still to be stored, is  *)
(* in the tree, or on its way, or no frame was sent of it, or it was still *)
(* to be stored when the tree was read.                                    *)
Captured(st, q, b, t) == t \in st[b] \/ <<b, t>> \in q
Recorded(st, q, pub) == \A b \in Tree!Brokers, t \in Topics : Captured(st, q, b, t) => t \in pub[b]
TreeWillBe ==
    (Tree!Staying /\ ~overtaken) =>
        \A t \in Topics :
            Captured(store, queue, Tree!effectiveBrokerId, t) =>
                Tree!Sys(t) \/ t \in topics \union unheard \union late
                \/ UnderWay(frames, Tree!effectiveBrokerId, t) \/ Promised(requests, t)
WireInv ==
    /\ TreeAsked(requests, Tree!effectiveBrokerId)
    /\ Truthful(requests, published)
    /\ TreeSent(frames, published)
    /\ Recorded(store, queue, published)
TreeInv == TreeShaped /\ WireInv /\ Tree!TreeOfBroker /\ TreeWillBe /\ Tree!PickShown

LEMMA PlainIs == ASSUME Tree!ExplorerFit PROVE Tree!Plain.topic \in Seq(Tree!Levels) /\ Tree!Plain.broker \in Chosen
BY DEF Tree!Plain, Tree!NoTopic, Chosen

LEMMA UrlIs == ASSUME Tree!ExplorerFit, NEW u \in Urls \union {Tree!Plain} PROVE u.topic \in Seq(Tree!Levels) /\ u.broker \in Chosen
<1>1. CASE u = Tree!Plain BY <1>1, PlainIs
<1>2. CASE u \in Urls BY <1>2 DEF Tree!ExplorerFit, Chosen
<1> QED BY <1>1, <1>2

(* A new selection, as it settles: it stays, or becomes what the page was  *)
(* opened for.                                                             *)
LEMMA Settles ==
  ASSUME Tree!ExplorerFit, NEW selected \in Seq(Tree!Levels), pickerSelectedTopic' \in Seq(Seq(Tree!Levels)),
         url' \in Urls \union {Tree!Plain}, Tree!Settle(selected)
  PROVE  /\ selectedTopic' \in Seq(Tree!Levels)
         /\ \/ selectedTopic' = selected
            \/ pickerSelectedTopic' # <<>> => Tree!Base(selectedTopic') = Tree!Base(Head(pickerSelectedTopic'))
<1>1. PICK target : target = IF pickerSelectedTopic' # <<>> THEN Head(pickerSelectedTopic') ELSE url'.topic OBVIOUS
<1>2. target \in Seq(Tree!Levels)
  <2>1. CASE pickerSelectedTopic' # <<>> BY <1>1, <2>1, HeadTailProperties
  <2>2. CASE pickerSelectedTopic' = <<>> BY <1>1, <2>2, UrlIs
  <2> QED BY <2>1, <2>2
<1>3. \/ selectedTopic' = selected
      \/ target # Tree!NoTopic /\ selectedTopic' = Tree!Effective(target, Tree!displayedTopics', showExactTopicOnly')
  BY <1>1 DEF Tree!Settle
<1>4. CASE selectedTopic' = selected BY <1>4
<1>5. CASE target # Tree!NoTopic /\ selectedTopic' = Tree!Effective(target, Tree!displayedTopics', showExactTopicOnly')
  <2>1. "#" \in Tree!Levels BY FitLevels
  <2>2. target # <<>> BY <1>5 DEF Tree!NoTopic
  <2>3. selectedTopic' \in Seq(Tree!Levels) /\ Tree!Base(selectedTopic') = Tree!Base(target)
    BY <1>2, <1>5, <2>1, <2>2, EffectiveIs
  <2> QED BY <1>1, <2>3
<1> QED BY <1>3, <1>4, <1>5

LEMMA RequestIs ==
  ASSUME NEW rs \in Seq(TreeRequests), NEW i \in DOMAIN rs
  PROVE  /\ rs[i] \in TreeRequests /\ rs[i].broker \in Tree!Brokers /\ rs[i].found \in Found
         /\ i \in Nat /\ i <= Len(rs) /\ Len(rs) \in Nat
<1>1. rs[i] \in TreeRequests /\ DOMAIN rs = 1..Len(rs) /\ Len(rs) \in Nat BY ElementOfSeq, LenProperties
<1>2. rs[i].broker \in Tree!Brokers /\ rs[i].found \in Found BY <1>1 DEF TreeRequests
<1> QED BY <1>1, <1>2

(* Asking for another tree cancels every other request.                    *)
LEMMA AsksAgain ==
  ASSUME Tree!ExplorerFit, NEW rs \in Seq(TreeRequests), NEW b \in Tree!Brokers, NEW pub, Truthful(rs, pub),
         NEW new, new = Append(Tree!Cancelled(rs), [broker |-> b, found |-> <<>>, cancelled |-> FALSE])
  PROVE  /\ new \in Seq(TreeRequests) /\ TreeAsked(new, b) /\ Truthful(new, pub)
         /\ \A t : Promised(new, t)
<1>1. PICK r : r = [broker |-> b, found |-> <<>>, cancelled |-> FALSE] OBVIOUS
<1>2. r \in TreeRequests /\ r.broker = b /\ r.found = <<>> BY <1>1 DEF TreeRequests, Found
<1>a. ~r.cancelled BY <1>1
<1>3. PICK cs : cs = Tree!Cancelled(rs) OBVIOUS
<1>4. PICK n \in Nat : n = Len(rs) /\ DOMAIN rs = 1..n /\ \A i \in 1..n : rs[i] \in TreeRequests
  BY LenProperties, ElementOfSeq
<1>5. cs = [i \in 1..n |-> [rs[i] EXCEPT !.cancelled = TRUE]] BY <1>3, <1>4 DEF Tree!Cancelled
<1>6. ASSUME NEW i \in 1..n
      PROVE  cs[i] \in TreeRequests /\ cs[i].found = rs[i].found /\ cs[i].broker = rs[i].broker
  <2>1. cs[i] = [rs[i] EXCEPT !.cancelled = TRUE] /\ rs[i] \in TreeRequests BY <1>4, <1>5
  <2> QED BY <2>1 DEF TreeRequests
<1>7. ASSUME NEW i \in 1..n PROVE cs[i].cancelled
  <2>1. cs[i] = [rs[i] EXCEPT !.cancelled = TRUE] /\ rs[i] \in TreeRequests BY <1>4, <1>5
  <2>2. cs[i].cancelled = TRUE BY <2>1 DEF TreeRequests
  <2> QED BY <2>2
<1>8. cs \in Seq(TreeRequests) /\ Len(cs) = n
  <2>1. cs \in [1..n -> TreeRequests] BY <1>5, <1>6
  <2> QED BY <1>4, <2>1, SeqDef, LenProperties
<1>9. new = Append(cs, r) BY <1>1, <1>3
<1>10. /\ new \in Seq(TreeRequests) /\ Len(new) = n + 1 /\ new[n + 1] = r
       /\ \A i \in 1..n : new[i] = cs[i]
  <2>0. r \in TreeRequests /\ cs \in Seq(TreeRequests) BY <1>2, <1>8
  <2>1. /\ new \in Seq(TreeRequests) /\ Len(new) = Len(cs) + 1 /\ new[Len(cs) + 1] = r
        /\ \A i \in 1..Len(cs) : new[i] = cs[i]
    BY ONLY <2>0, <1>9, AppendProperties
  <2> QED BY ONLY <1>8, <2>1
<1>11. DOMAIN new = 1..(n + 1) BY <1>10
<1>12. ASSUME NEW i \in DOMAIN new PROVE (i \in 1..n /\ new[i] = cs[i]) \/ (i = n + 1 /\ new[i] = r)
  BY <1>4, <1>10, <1>11
<1>13. TreeAsked(new, b)
  <2> SUFFICES ASSUME NEW i \in DOMAIN new
               PROVE (i < Len(new) => new[i].cancelled) /\ (new[i].cancelled \/ new[i].broker = b)
    BY DEF TreeAsked
  <2>1. CASE i \in 1..n /\ new[i] = cs[i] BY <1>7, <2>1
  <2>2. CASE i = n + 1 /\ new[i] = r
    <3>1. ~(i < Len(new)) BY <1>4, <1>10, <2>2
    <3> QED BY <1>2, <2>2, <3>1
  <2> QED BY <1>12, <2>1, <2>2
<1>14. Truthful(new, pub)
  <2> SUFFICES ASSUME NEW i \in DOMAIN new, new[i].found # <<>>
               PROVE  new[i].found[1] \subseteq pub[new[i].broker]
    BY DEF Truthful
  <2>1. i \in 1..n /\ new[i] = cs[i] BY <1>2, <1>12
  <2>2. new[i].found = rs[i].found /\ new[i].broker = rs[i].broker /\ i \in DOMAIN rs BY <1>4, <1>6, <2>1
  <2> QED BY <2>2 DEF Truthful
<1>15. ASSUME NEW t PROVE Promised(new, t)
  <2>1. n + 1 \in DOMAIN new /\ new[n + 1].found = <<>> BY <1>2, <1>4, <1>10, <1>11
  <2>2. ~new[n + 1].cancelled BY <1>10, <1>a
  <2> QED BY <2>1, <2>2 DEF Promised
<1> QED BY <1>10, <1>13, <1>14, <1>15

LEMMA Refetches ==
  ASSUME Tree!ExplorerFit, requests \in Seq(TreeRequests), Tree!effectiveBrokerId' \in Tree!Brokers, published' = published,
         TreeAsked(requests, Tree!effectiveBrokerId), Truthful(requests, published), Tree!Refetch
  PROVE  /\ requests' \in Seq(TreeRequests) /\ TreeAsked(requests', Tree!effectiveBrokerId') /\ Truthful(requests', published')
         /\ Tree!effectiveBrokerId' = Tree!effectiveBrokerId => requests' = requests
         /\ Tree!effectiveBrokerId' # Tree!effectiveBrokerId => \A t : Promised(requests', t)
<1>1. CASE Tree!effectiveBrokerId' = Tree!effectiveBrokerId BY <1>1 DEF Tree!Refetch
<1>2. CASE Tree!effectiveBrokerId' # Tree!effectiveBrokerId
  <2>1. requests' = Append(Tree!Cancelled(requests), [broker |-> Tree!effectiveBrokerId', found |-> <<>>, cancelled |-> FALSE])
    BY <1>2 DEF Tree!Refetch
  <2>2. /\ requests' \in Seq(TreeRequests) /\ TreeAsked(requests', Tree!effectiveBrokerId') /\ Truthful(requests', published)
        /\ \A t : Promised(requests', t)
    BY <2>1, AsksAgain
  <2> QED BY <1>2, <2>2
<1> QED BY <1>1, <1>2

LEMMA Subscribes ==
  ASSUME served.broker \in Chosen, Tree!effectiveBrokerId' \in Tree!Brokers, Tree!Subscribe
  PROVE  served'.broker \in Chosen
<1>1. \/ served' = served \/ served' = Tree!NoServed
      \/ \E fs : served' = [broker |-> Tree!effectiveBrokerId', filters |-> fs]
  <2>1. CASE Tree!effectiveBrokerId' # Tree!effectiveBrokerId \/ showSysTopic' # showSysTopic BY <2>1 DEF Tree!Subscribe
  <2>2. CASE ~(Tree!effectiveBrokerId' # Tree!effectiveBrokerId \/ showSysTopic' # showSysTopic) BY <2>2 DEF Tree!Subscribe
  <2> QED BY <2>1, <2>2
<1> QED BY <1>1 DEF Tree!NoServed, Chosen

-----------------------------------------------------------------------------
(* What a change of the page comes to (Render): a new selection that       *)
(* settles, and the requests that follow it.                               *)
TreeShows(selected) ==
    /\ selected \in Seq(Tree!Levels) /\ Tree!history' = Tree!history /\ returned' = returned
    /\ selectedBrokerId' \in Chosen /\ pickerSelectedTopic' \in Seq(Seq(Tree!Levels)) /\ url' \in Urls \union {Tree!Plain}
    /\ Tree!Settle(selected) /\ Tree!Refetch /\ Tree!Subscribe
    /\ (pickerCtx' # <<>> /\ pickerSelectedTopic' # <<>> /\ selected # Tree!NoTopic) =>
           Tree!Base(Head(pickerSelectedTopic')) = Tree!Base(selected)
OwnTree == UNCHANGED <<frames, topics, unheard, late, overtaken>> /\ Tree!effectiveBrokerId' = Tree!effectiveBrokerId
OtherTree == UNCHANGED <<frames, topics>> /\ overtaken' = TRUE
EmptyTree == UNCHANGED frames /\ topics' = {} /\ Tree!effectiveBrokerId' # Tree!effectiveBrokerId
GrowingTree ==
    /\ UNCHANGED <<unheard, late, overtaken>> /\ Tree!effectiveBrokerId' = Tree!effectiveBrokerId
    /\ frames # <<>> /\ frames' = Tail(frames)
    /\ topics' = IF Head(frames)[1] = Tree!effectiveBrokerId /\ (Tree!Sys(Head(frames)[2]) => showSysTopic)
                 THEN topics \union {Head(frames)[2]} ELSE topics
Rendering == \E selected : TreeShows(selected) /\ (OwnTree \/ OtherTree \/ EmptyTree \/ GrowingTree)
Resting ==
    /\ UNCHANGED <<Tree!history, selectedBrokerId, status, topics, selectedTopic, pickerSelectedTopic, pickerCtx, url, frames,
                   requests, served, unheard, late, overtaken>>
    /\ returned' = returned \/ returned' # <<>>

LEMMA SameShown ==
  ASSUME status' = status, selectedBrokerId' = selectedBrokerId
  PROVE  Tree!effectiveBrokerId' = Tree!effectiveBrokerId
BY DEF Tree!effectiveBrokerId

LEMMA ShowsOwn ==
  ASSUME Tree!ExplorerFit, TreeShaped, Tree!PickShown, Tree!history' = Tree!history, returned' = returned, selectedBrokerId' \in Chosen,
         UNCHANGED <<pickerCtx, url, pickerSelectedTopic>>, NEW os, Tree!Render(selectedTopic, os)
  PROVE  TreeShows(selectedTopic)
<1>1. selectedTopic \in Seq(Tree!Levels) /\ pickerSelectedTopic' \in Seq(Seq(Tree!Levels)) /\ url' \in Urls \union {Tree!Plain}
  BY DEF TreeShaped
<1>2. Tree!Settle(selectedTopic) /\ Tree!Refetch /\ Tree!Subscribe BY DEF Tree!Render
<1>3. (pickerCtx' # <<>> /\ pickerSelectedTopic' # <<>> /\ selectedTopic # Tree!NoTopic) =>
         Tree!Base(Head(pickerSelectedTopic')) = Tree!Base(selectedTopic)
  BY DEF Tree!PickShown
<1> QED BY <1>1, <1>2, <1>3 DEF TreeShows

LEMMA StatusWay ==
  ASSUME Tree!ExplorerFit, TreeShaped, Tree!PickShown, NEW b, NEW s, Tree!StatusChanges(b, s)
  PROVE  Rendering
<1>1. /\ Tree!history' = Tree!history /\ returned' = returned /\ selectedBrokerId' = selectedBrokerId
      /\ UNCHANGED <<pickerCtx, url, pickerSelectedTopic>> /\ UNCHANGED <<frames, topics>>
      /\ Tree!Render(selectedTopic, overrides)
  BY DEF Tree!StatusChanges, Tree!tree
<1>2. selectedBrokerId' \in Chosen BY <1>1 DEF TreeShaped
<1>3. TreeShows(selectedTopic) BY <1>1, <1>2, ShowsOwn
<1>4. OwnTree \/ OtherTree
  <2>1. CASE Tree!effectiveBrokerId' = Tree!effectiveBrokerId
    <3>1. UNCHANGED <<unheard, late, overtaken>> BY <2>1 DEF Tree!StatusChanges, Tree!ghosts
    <3> QED BY <1>1, <2>1, <3>1 DEF OwnTree
  <2>2. CASE Tree!effectiveBrokerId' # Tree!effectiveBrokerId
    <3>1. overtaken' = TRUE BY <2>2 DEF Tree!StatusChanges
    <3> QED BY <1>1, <3>1 DEF OtherTree
  <2> QED BY <2>1, <2>2
<1> QED BY <1>3, <1>4 DEF Rendering

LEMMA FrameWay ==
  ASSUME Tree!ExplorerFit, TreeShaped, Tree!PickShown, Tree!Frame
  PROVE  Rendering
<1>1. /\ Tree!history' = Tree!history /\ returned' = returned /\ selectedBrokerId' = selectedBrokerId /\ status' = status
      /\ UNCHANGED <<pickerCtx, url, pickerSelectedTopic>> /\ UNCHANGED <<unheard, late, overtaken>>
      /\ Tree!Render(selectedTopic, overrides) /\ frames # <<>> /\ frames' = Tail(frames)
  BY DEF Tree!Frame, Tree!server, Tree!ghosts
<1>2. selectedBrokerId' \in Chosen BY <1>1 DEF TreeShaped
<1>3. TreeShows(selectedTopic) BY <1>1, <1>2, ShowsOwn
<1>4. topics' = IF Head(frames)[1] = Tree!effectiveBrokerId /\ (Tree!Sys(Head(frames)[2]) => showSysTopic)
                THEN topics \union {Head(frames)[2]} ELSE topics
  <2>1. IF Head(frames)[1] = Tree!effectiveBrokerId /\ (Tree!Sys(Head(frames)[2]) => showSysTopic)
        THEN topics' = topics \union {Head(frames)[2]} ELSE UNCHANGED Tree!tree
    BY DEF Tree!Frame
  <2> QED BY <2>1 DEF Tree!tree
<1>5. GrowingTree BY <1>1, <1>4, SameShown DEF GrowingTree
<1> QED BY <1>3, <1>5 DEF Rendering

LEMMA PickIs ==
  ASSUME TreeShaped, NEW t \in Seq(Tree!Levels)
  PROVE  Tree!Picks(t) \in Seq(Seq(Tree!Levels)) /\ (pickerCtx # <<>> => Tree!Picks(t) = <<t>>)
<1>1. <<t>> \in Seq(Seq(Tree!Levels)) OBVIOUS
<1> QED BY <1>1 DEF Tree!Picks, TreeShaped

LEMMA SelectWay ==
  ASSUME Tree!ExplorerFit, TreeShaped, Tree!PickShown, NEW t \in Seq(Tree!Levels), NEW pick \in Seq(Seq(Tree!Levels)),
         (pickerCtx # <<>> /\ pick # <<>> /\ t # Tree!NoTopic) => Tree!Base(Head(pick)) = Tree!Base(t), Tree!Select(t, pick)
  PROVE  Rendering
<1>1. /\ Tree!history' = Tree!history /\ returned' = returned /\ selectedBrokerId' = selectedBrokerId /\ status' = status
      /\ UNCHANGED <<pickerCtx, url>> /\ UNCHANGED <<frames, topics, unheard, late, overtaken>>
      /\ pickerSelectedTopic' = pick /\ Tree!Render(t, overrides)
  BY DEF Tree!Select, Tree!server, Tree!tree, Tree!ghosts
<1>2. selectedBrokerId' \in Chosen /\ url' \in Urls \union {Tree!Plain} BY <1>1 DEF TreeShaped
<1>3. Tree!Settle(t) /\ Tree!Refetch /\ Tree!Subscribe BY <1>1 DEF Tree!Render
<1>4. TreeShows(t) BY <1>1, <1>2, <1>3 DEF TreeShows
<1>5. OwnTree BY <1>1, SameShown DEF OwnTree
<1> QED BY <1>4, <1>5 DEF Rendering

LEMMA TopicWay ==
  ASSUME Tree!ExplorerFit, TreeShaped, Tree!PickShown, NEW t \in Seq(Tree!Levels), Tree!handleTopicSelect(t)
  PROVE  Rendering
<1>1. PICK c : c = Tree!Effective(t, Tree!displayedTopics, showExactTopicOnly) OBVIOUS
<1>2. c \in Seq(Tree!Levels) BY <1>1, FitLevels, EffectiveIs
<1>3. Tree!Select(c, Tree!Picks(c)) BY <1>1 DEF Tree!handleTopicSelect
<1>4. PICK p : p = Tree!Picks(c) OBVIOUS
<1>5. p \in Seq(Seq(Tree!Levels)) /\ (pickerCtx # <<>> => p = <<c>>) BY <1>2, <1>4, PickIs
<1>6. (pickerCtx # <<>> /\ p # <<>> /\ c # Tree!NoTopic) => Tree!Base(Head(p)) = Tree!Base(c)
  <2>1. Head(<<c>>) = c OBVIOUS
  <2> QED BY <1>5, <2>1
<1>7. Tree!Select(c, p) BY <1>3, <1>4
<1> QED BY <1>2, <1>5, <1>6, <1>7, SelectWay

LEMMA ExactWay ==
  ASSUME Tree!ExplorerFit, TreeShaped, Tree!PickShown, Tree!handleToggleExactTopicOnly
  PROVE  Rendering
<1>1. PICK base : base = Tree!Base(selectedTopic) OBVIOUS
<1>2. PICK c : c = IF ~Tree!Somewhere(selectedTopic) THEN selectedTopic
                   ELSE IF ~showExactTopicOnly THEN base
                   ELSE IF Tree!isParent(base, Tree!displayedTopics) THEN Append(base, "#") ELSE selectedTopic
  OBVIOUS
<1>3. PICK p : p = IF c = selectedTopic THEN pickerSelectedTopic ELSE Tree!Picks(c) OBVIOUS
<1>4. Tree!Select(c, p) BY <1>1, <1>2, <1>3 DEF Tree!handleToggleExactTopicOnly
<1>5. c \in Seq(Tree!Levels)
  <2>1. selectedTopic \in Seq(Tree!Levels) /\ "#" \in Tree!Levels BY FitLevels DEF TreeShaped
  <2>2. base \in Seq(Tree!Levels) BY <1>1, <2>1, BaseIs
  <2>3. Append(base, "#") \in Seq(Tree!Levels) BY <2>1, <2>2, AppendProperties
  <2> QED BY <1>2, <2>1, <2>2, <2>3
<1>6. CASE c = selectedTopic
  <2>1. p = pickerSelectedTopic BY <1>3, <1>6
  <2>2. p \in Seq(Seq(Tree!Levels)) BY <2>1 DEF TreeShaped
  <2>3. (pickerCtx # <<>> /\ p # <<>> /\ c # Tree!NoTopic) => Tree!Base(Head(p)) = Tree!Base(c) BY <1>6, <2>1 DEF Tree!PickShown
  <2> QED BY <1>4, <1>5, <2>2, <2>3, SelectWay
<1>7. CASE c # selectedTopic
  <2>1. p = Tree!Picks(c) BY <1>3, <1>7
  <2>2. p \in Seq(Seq(Tree!Levels)) /\ (pickerCtx # <<>> => p = <<c>>) BY <1>5, <2>1, PickIs
  <2>3. Head(<<c>>) = c OBVIOUS
  <2>4. (pickerCtx # <<>> /\ p # <<>> /\ c # Tree!NoTopic) => Tree!Base(Head(p)) = Tree!Base(c) BY <2>2, <2>3
  <2> QED BY <1>4, <1>5, <2>2, <2>4, SelectWay
<1> QED BY <1>6, <1>7

LEMMA SwitchWay ==
  ASSUME Tree!ExplorerFit, TreeShaped, Tree!PickShown, Tree!ToggleSys
  PROVE  Rendering
<1>1. /\ Tree!history' = Tree!history /\ returned' = returned /\ selectedBrokerId' = selectedBrokerId /\ status' = status
      /\ UNCHANGED <<pickerCtx, url, pickerSelectedTopic>> /\ UNCHANGED <<frames, topics, unheard, late, overtaken>>
      /\ Tree!Render(selectedTopic, overrides)
  BY DEF Tree!ToggleSys, Tree!server, Tree!tree, Tree!ghosts
<1>2. selectedBrokerId' \in Chosen BY <1>1 DEF TreeShaped
<1>3. TreeShows(selectedTopic) BY <1>1, <1>2, ShowsOwn
<1>4. OwnTree BY <1>1, SameShown DEF OwnTree
<1> QED BY <1>3, <1>4 DEF Rendering

LEMMA BrokerWay ==
  ASSUME Tree!ExplorerFit, TreeShaped, Tree!PickShown, NEW b \in Tree!Brokers, Tree!ChooseBroker(b)
  PROVE  Rendering
<1>1. PICK sel : sel = IF pickerCtx # <<>> THEN Tree!NoTopic ELSE Tree!AllTopics OBVIOUS
<1>2. /\ Tree!history' = Tree!history /\ returned' = returned /\ selectedBrokerId' = b /\ UNCHANGED frames
      /\ UNCHANGED <<pickerCtx, url, pickerSelectedTopic>> /\ topics' = {} /\ b # Tree!effectiveBrokerId
      /\ Tree!Render(sel, overrides)
  BY <1>1 DEF Tree!ChooseBroker, Tree!server
<1>3. selectedBrokerId' \in Chosen /\ url' \in Urls \union {Tree!Plain} /\ pickerSelectedTopic' \in Seq(Seq(Tree!Levels))
  BY <1>2 DEF TreeShaped, Chosen
<1>4. sel \in Seq(Tree!Levels)
  <2>1. <<"#">> \in Seq(Tree!Levels) BY FitLevels
  <2> QED BY <1>1, <2>1 DEF Tree!NoTopic, Tree!AllTopics
<1>5. (pickerCtx' # <<>> /\ pickerSelectedTopic' # <<>> /\ sel # Tree!NoTopic) => Tree!Base(Head(pickerSelectedTopic')) = Tree!Base(sel)
  BY <1>1, <1>2
<1>6. Tree!Settle(sel) /\ Tree!Refetch /\ Tree!Subscribe BY <1>2 DEF Tree!Render
<1>7. TreeShows(sel) BY <1>2, <1>3, <1>4, <1>5, <1>6 DEF TreeShows
<1>8. Tree!effectiveBrokerId' # Tree!effectiveBrokerId
  <2>1. b # Tree!NoBroker BY DEF Tree!ExplorerFit
  <2>2. Tree!effectiveBrokerId' = b BY <1>2, <2>1 DEF Tree!effectiveBrokerId
  <2> QED BY <1>2, <2>2
<1> QED BY <1>2, <1>7, <1>8 DEF EmptyTree, Rendering

LEMMA LinkWay ==
  ASSUME Tree!ExplorerFit, TreeShaped, Tree!PickShown, Tree!FollowLink
  PROVE  Rendering
<1>1. PICK sel : sel = IF url.topic # Tree!NoTopic THEN Tree!AllTopics ELSE selectedTopic OBVIOUS
<1>2. /\ Tree!history' = Tree!history /\ returned' = returned /\ UNCHANGED <<frames, topics>>
      /\ pickerCtx' = <<>> /\ url' = Tree!Plain /\ selectedBrokerId' \in {Tree!NoBroker, selectedBrokerId}
      /\ pickerSelectedTopic' = (IF url.topic # Tree!NoTopic THEN <<>> ELSE pickerSelectedTopic)
      /\ Tree!Render(sel, overrides)
  BY <1>1 DEF Tree!FollowLink, Tree!server, Tree!tree
<1>3. selectedBrokerId' \in Chosen /\ url' \in Urls \union {Tree!Plain} BY <1>2 DEF TreeShaped, Chosen
<1>4. sel \in Seq(Tree!Levels) /\ pickerSelectedTopic' \in Seq(Seq(Tree!Levels))
  <2>1. <<"#">> \in Seq(Tree!Levels) BY FitLevels
  <2>2. <<>> \in Seq(Seq(Tree!Levels)) OBVIOUS
  <2> QED BY <1>1, <1>2, <2>1, <2>2 DEF Tree!AllTopics, TreeShaped
<1>5. Tree!Settle(sel) /\ Tree!Refetch /\ Tree!Subscribe BY <1>2 DEF Tree!Render
<1>6. TreeShows(sel) BY <1>2, <1>3, <1>4, <1>5 DEF TreeShows
<1>7. OwnTree \/ OtherTree
  <2>1. CASE Tree!effectiveBrokerId' = Tree!effectiveBrokerId
    <3>1. UNCHANGED <<unheard, late, overtaken>> BY <2>1 DEF Tree!FollowLink, Tree!ghosts
    <3> QED BY <1>2, <2>1, <3>1 DEF OwnTree
  <2>2. CASE Tree!effectiveBrokerId' # Tree!effectiveBrokerId
    <3>1. overtaken' = TRUE BY <2>2 DEF Tree!FollowLink
    <3> QED BY <1>2, <3>1 DEF OtherTree
  <2> QED BY <2>1, <2>2
<1> QED BY <1>6, <1>7 DEF Rendering

LEMMA CancelWay ==
  ASSUME Tree!ExplorerFit, TreeShaped, Tree!PickShown, Tree!handlePickerCancel
  PROVE  Rendering
<1>1. /\ Tree!history' = Tree!history /\ returned' = returned /\ selectedBrokerId' = selectedBrokerId /\ status' = status
      /\ UNCHANGED <<url, pickerSelectedTopic>> /\ pickerCtx' = <<>> /\ UNCHANGED <<frames, topics, unheard, late, overtaken>>
      /\ Tree!Render(selectedTopic, overrides)
  BY DEF Tree!handlePickerCancel, Tree!server, Tree!tree, Tree!ghosts
<1>2. selectedBrokerId' \in Chosen /\ url' \in Urls \union {Tree!Plain} /\ pickerSelectedTopic' \in Seq(Seq(Tree!Levels))
      /\ selectedTopic \in Seq(Tree!Levels)
  BY <1>1 DEF TreeShaped
<1>3. Tree!Settle(selectedTopic) /\ Tree!Refetch /\ Tree!Subscribe BY <1>1 DEF Tree!Render
<1>4. TreeShows(selectedTopic) BY <1>1, <1>2, <1>3 DEF TreeShows
<1>5. OwnTree BY <1>1, SameShown DEF OwnTree
<1> QED BY <1>4, <1>5 DEF Rendering

(* What does not touch the tree. *)
LEMMA RestWays ==
  /\ Tree!DismissNotice => Resting
  /\ Tree!FlashTimer => Resting
  /\ \A row : Tree!ClickArrow(row) => Resting
  /\ \A q, e : Tree!View(q, e) => Resting
  /\ Tree!ClearFilter => Resting
  /\ \A ts : Tree!Return(ts) => Resting
<1>1. Tree!DismissNotice => Resting BY DEF Tree!DismissNotice, Resting, Tree!server, Tree!wire, Tree!picking, Tree!tree, Tree!ghosts
<1>2. Tree!FlashTimer => Resting BY DEF Tree!FlashTimer, Resting, Tree!server, Tree!wire, Tree!picking, Tree!ghosts
<1>3. ASSUME NEW row, Tree!ClickArrow(row) PROVE Resting
  BY <1>3 DEF Tree!ClickArrow, Resting, Tree!server, Tree!wire, Tree!picking, Tree!tree, Tree!ghosts
<1>4. ASSUME NEW q, NEW e, Tree!View(q, e) PROVE Resting BY <1>4 DEF Tree!View, Resting, Tree!server, Tree!wire, Tree!picking, Tree!tree, Tree!ghosts
<1>5. Tree!ClearFilter => Resting BY <1>4 DEF Tree!ClearFilter
<1>6. ASSUME NEW ts, Tree!Return(ts) PROVE Resting
  <2>1. /\ UNCHANGED <<Tree!history, selectedBrokerId, status, topics, selectedTopic, pickerSelectedTopic, pickerCtx, url, frames,
                       requests, served, unheard, late, overtaken>>
        /\ returned' = <<[broker |-> Tree!effectiveBrokerId, topics |-> ts]>>
    BY <1>6 DEF Tree!Return, Tree!server, Tree!wire, Tree!tree, Tree!ghosts
  <2>2. returned' # <<>> BY <2>1
  <2> QED BY <2>1, <2>2 DEF Resting
<1> QED BY <1>1, <1>2, <1>3, <1>4, <1>5, <1>6

LEMMA TreeWays ==
  ASSUME Tree!ExplorerFit, TreeShaped, Tree!PickShown, Tree!Next
  PROVE  \/ Resting \/ Rendering
         \/ \E b \in Tree!Brokers, t \in Topics : Tree!Publish(b, t)
         \/ \E m \in queue : Tree!Write(m)
         \/ \E i \in DOMAIN requests : Tree!ServeTree(i)
         \/ \E i \in DOMAIN requests, failing \in BOOLEAN : Tree!TreeAnswered(i, failing)
<1>1. CASE \E b \in Tree!Brokers, t \in Topics : Tree!Publish(b, t) BY <1>1
<1>18. CASE \E m \in queue : Tree!Write(m) BY <1>18
<1>2. CASE Tree!Send
  <2>1. Tree!effectiveBrokerId \in Tree!Brokers BY ShownKnown DEF TreeShaped
  <2> QED BY <1>2, <2>1 DEF Tree!Send
<1>3. CASE Tree!DismissNotice \/ Tree!FlashTimer \/ Tree!ClearFilter BY <1>3, RestWays
<1>4. CASE \E b \in Tree!Brokers, s \in {"connected", "enabled", "disabled"} : Tree!StatusChanges(b, s) BY <1>4, StatusWay
<1>5. CASE Tree!Frame BY <1>5, FrameWay
<1>6. CASE \E i \in DOMAIN requests : Tree!ServeTree(i) \/ Tree!TreeAnswered(i, FALSE) \/ Tree!TreeAnswered(i, TRUE) BY <1>6
<1>7. CASE \E row \in Tree!Rows : Tree!ClickRow(row) \/ Tree!ClickArrow(row) \/ Tree!handlePickerDoubleClick(row)
  <2>1. PICK row \in Tree!Rows : Tree!ClickRow(row) \/ Tree!ClickArrow(row) \/ Tree!handlePickerDoubleClick(row) BY <1>7
  <2>2. row \in Seq(Tree!Levels) BY RowsAreTopics DEF TreeShaped
  <2>3. CASE Tree!ClickRow(row)
    <3>1. Tree!handleTopicSelect(row) BY <2>3 DEF Tree!ClickRow
    <3> QED BY <2>2, <3>1, TopicWay
  <2>4. CASE Tree!ClickArrow(row) BY <2>4, RestWays
  <2>5. CASE Tree!handlePickerDoubleClick(row) BY <2>5, RestWays DEF Tree!handlePickerDoubleClick
  <2> QED BY <2>1, <2>3, <2>4, <2>5
<1>8. CASE Tree!ClickAll
  <2>1. Tree!handleTopicSelect(Tree!AllTopics) BY <1>8 DEF Tree!ClickAll
  <2>2. <<"#">> \in Seq(Tree!Levels) BY FitLevels
  <2>3. Tree!AllTopics \in Seq(Tree!Levels) BY <2>2 DEF Tree!AllTopics
  <2> QED BY <2>1, <2>3, TopicWay
<1>9. CASE \E n \in 1..3 : Tree!Crumb(n)
  <2>1. PICK n \in 1..3 : Tree!Crumb(n) BY <1>9
  <2>2. n \in DOMAIN selectedTopic /\ Tree!handleTopicSelect(SubSeq(selectedTopic, 1, n)) BY <2>1 DEF Tree!Crumb
  <2>3. selectedTopic \in Seq(Tree!Levels) /\ n \in 1..Len(selectedTopic) BY <2>2 DEF TreeShaped
  <2>4. SubSeq(selectedTopic, 1, n) \in Seq(Tree!Levels) BY <2>3, StartIs
  <2>5. PICK t : t = SubSeq(selectedTopic, 1, n) OBVIOUS
  <2>6. t \in Seq(Tree!Levels) /\ Tree!handleTopicSelect(t) BY <2>2, <2>4, <2>5
  <2> QED BY <2>6, TopicWay
<1>10. CASE Tree!handleToggleExactTopicOnly BY <1>10, ExactWay
<1>11. CASE Tree!ToggleSys BY <1>11, SwitchWay
<1>12. CASE \E q \in Queries : Tree!View(q, defaultExpanded) BY <1>12, RestWays
<1>13. CASE \E e \in BOOLEAN : Tree!View(filterText, e) BY <1>13, RestWays
<1>14. CASE \E b \in Tree!Brokers : Tree!ChooseBroker(b) BY <1>14, BrokerWay
<1>15. CASE Tree!FollowLink BY <1>15, LinkWay
<1>16. CASE Tree!handlePickerCancel BY <1>16, CancelWay
<1>17. CASE Tree!handlePickerConfirm BY <1>17, RestWays DEF Tree!handlePickerConfirm
<1> QED BY <1>1, <1>2, <1>3, <1>4, <1>5, <1>6, <1>7, <1>8, <1>9, <1>10, <1>11, <1>12, <1>13, <1>14, <1>15, <1>16,
           <1>17, <1>18 DEF Tree!Next

-----------------------------------------------------------------------------
(* Each of them keeps the invariant.                                       *)
LEMMA Inside ==
  ASSUME TreeInv
  PROVE  TreeShaped /\ WireInv /\ Tree!TreeOfBroker /\ TreeWillBe /\ Tree!PickShown
BY DEF TreeInv

LEMMA RestKeeps == ASSUME Tree!ExplorerFit, TreeInv, Resting PROVE TreeInv'
<1>1. /\ UNCHANGED <<store, queue, published, selectedBrokerId, status, topics, selectedTopic, pickerSelectedTopic, pickerCtx, url, frames,
                     requests, served, unheard, late, overtaken>>
      /\ returned' = returned \/ returned' # <<>>
  BY DEF Resting, Tree!history
<1>2. Tree!effectiveBrokerId' = Tree!effectiveBrokerId BY <1>1, SameShown
<1>3. TreeShaped' BY <1>1, Inside DEF TreeShaped
<1>4. WireInv' BY <1>1, <1>2, Inside DEF WireInv
<1>5. Tree!TreeOfBroker' BY <1>1, <1>2, Inside DEF Tree!TreeOfBroker
<1>6. TreeWillBe'
  <2>1. Tree!Staying' => Tree!Staying BY <1>1 DEF Tree!Staying
  <2> QED BY <1>1, <1>2, <2>1, Inside DEF TreeWillBe
<1>7. Tree!PickShown' BY <1>1, Inside DEF Tree!PickShown
<1> QED BY <1>3, <1>4, <1>5, <1>6, <1>7 DEF TreeInv

LEMMA FirstFrame ==
  ASSUME TreeShaped, frames # <<>>
  PROVE  /\ Head(frames) \in Tree!Brokers \X Topics /\ Head(frames) = frames[1] /\ 1 \in DOMAIN frames
         /\ Tail(frames) \in Seq(Tree!Brokers \X Topics) /\ Len(Tail(frames)) = Len(frames) - 1
         /\ \A i \in 1..(Len(frames) - 1) : Tail(frames)[i] = frames[i + 1]
<1>1. frames \in Seq(Tree!Brokers \X Topics) BY DEF TreeShaped
<1>2. PICK n \in Nat : n = Len(frames) /\ n # 0 /\ DOMAIN frames = 1..n BY <1>1, EmptySeq, LenProperties
<1>3. Head(frames) \in Tree!Brokers \X Topics /\ Head(frames) = frames[1] BY <1>1, HeadTailProperties
<1>4. Tail(frames) \in Seq(Tree!Brokers \X Topics) /\ Len(Tail(frames)) = Len(frames) - 1
      /\ \A i \in 1..(Len(frames) - 1) : Tail(frames)[i] = frames[i + 1]
  BY <1>1, HeadTailProperties
<1> QED BY <1>2, <1>3, <1>4

LEMMA TreeAfterShow ==
  ASSUME TreeShaped, OwnTree \/ OtherTree \/ EmptyTree \/ GrowingTree
  PROVE  topics' \subseteq Topics /\ frames' \in Seq(Tree!Brokers \X Topics)
<1>1. topics \subseteq Topics /\ frames \in Seq(Tree!Brokers \X Topics) BY DEF TreeShaped
<1>2. CASE OwnTree BY <1>1, <1>2 DEF OwnTree
<1>3. CASE OtherTree BY <1>1, <1>3 DEF OtherTree
<1>4. CASE EmptyTree BY <1>1, <1>4 DEF EmptyTree
<1>5. CASE GrowingTree
  <2>1. Head(frames) \in Tree!Brokers \X Topics /\ Tail(frames) \in Seq(Tree!Brokers \X Topics) BY <1>5, FirstFrame DEF GrowingTree
  <2>2. Head(frames)[2] \in Topics BY <2>1
  <2> QED BY <1>1, <1>5, <2>1, <2>2 DEF GrowingTree
<1> QED BY <1>2, <1>3, <1>4, <1>5

LEMMA SentAfterShow ==
  ASSUME TreeShaped, TreeSent(frames, published), OwnTree \/ OtherTree \/ EmptyTree \/ GrowingTree
  PROVE  TreeSent(frames', published)
<1>1. CASE frames' = frames BY <1>1
<1>2. CASE GrowingTree
  <2>1. frames # <<>> /\ frames' = Tail(frames) BY <1>2 DEF GrowingTree
  <2>2. PICK n \in Nat : n = Len(frames) /\ DOMAIN frames = 1..n BY LenProperties DEF TreeShaped
  <2>3. frames' \in Seq(Tree!Brokers \X Topics) /\ Len(frames') = n - 1 /\ \A i \in 1..(n - 1) : frames'[i] = frames[i + 1]
    BY <2>1, <2>2, FirstFrame
  <2>4. DOMAIN frames' = 1..(n - 1) BY <2>3, LenProperties
  <2> SUFFICES ASSUME NEW i \in DOMAIN frames' PROVE frames'[i][2] \in published[frames'[i][1]] BY DEF TreeSent
  <2>5. frames'[i] = frames[i + 1] /\ i + 1 \in DOMAIN frames BY <2>2, <2>3, <2>4
  <2> QED BY <2>5 DEF TreeSent
<1> QED BY <1>1, <1>2 DEF OwnTree, OtherTree, EmptyTree

LEMMA ShowKeepsTree ==
  ASSUME Tree!ExplorerFit, TreeInv, published' = published, OwnTree \/ OtherTree \/ EmptyTree \/ GrowingTree
  PROVE  Tree!TreeOfBroker'
<1>0. TreeShaped /\ TreeSent(frames, published) /\ Tree!TreeOfBroker BY Inside DEF WireInv
<1>1. CASE OwnTree BY <1>0, <1>1 DEF OwnTree, Tree!TreeOfBroker
<1>2. CASE OtherTree
  <2>1. overtaken' = TRUE BY <1>2 DEF OtherTree
  <2> QED BY <2>1 DEF Tree!TreeOfBroker
<1>3. CASE EmptyTree
  <2>1. topics' = {} BY <1>3 DEF EmptyTree
  <2> QED BY <2>1 DEF Tree!TreeOfBroker
<1>4. CASE GrowingTree
  <2>1. PICK f : f = Head(frames) OBVIOUS
  <2>2. /\ overtaken' = overtaken /\ Tree!effectiveBrokerId' = Tree!effectiveBrokerId /\ frames # <<>>
        /\ topics' = (IF f[1] = Tree!effectiveBrokerId /\ (Tree!Sys(f[2]) => showSysTopic) THEN topics \union {f[2]} ELSE topics)
    BY <1>4, <2>1 DEF GrowingTree
  <2>3. f = frames[1] /\ 1 \in DOMAIN frames BY <1>0, <2>1, <2>2, FirstFrame
  <2>4. f[2] \in published[f[1]] BY <1>0, <2>3 DEF TreeSent
  <2>5. \A t \in topics' : t \in topics \/ t \in published[Tree!effectiveBrokerId] BY <2>2, <2>4
  <2> QED BY <1>0, <2>2, <2>5 DEF Tree!TreeOfBroker
<1> QED BY <1>1, <1>2, <1>3, <1>4

LEMMA ShowKeepsComing ==
  ASSUME Tree!ExplorerFit, TreeInv, NEW selected, TreeShows(selected), OwnTree \/ OtherTree \/ EmptyTree \/ GrowingTree,
         Tree!effectiveBrokerId' = Tree!effectiveBrokerId => requests' = requests,
         Tree!effectiveBrokerId' # Tree!effectiveBrokerId => \A t : Promised(requests', t)
  PROVE  TreeWillBe'
<1>0. TreeShaped /\ TreeWillBe /\ store' = store /\ queue' = queue /\ returned' = returned BY Inside DEF TreeShows, Tree!history
<1>1. CASE OwnTree BY <1>0, <1>1 DEF OwnTree, TreeWillBe, Tree!Staying
<1>2. CASE OtherTree
  <2>1. overtaken' = TRUE BY <1>2 DEF OtherTree
  <2> QED BY <2>1 DEF TreeWillBe
<1>3. CASE EmptyTree
  <2>1. \A t : Promised(requests', t) BY <1>3 DEF EmptyTree
  <2> QED BY <2>1 DEF TreeWillBe
<1>4. CASE GrowingTree
  <2>1. PICK f : f = Head(frames) OBVIOUS
  <2>2. /\ overtaken' = overtaken /\ unheard' = unheard /\ late' = late /\ Tree!effectiveBrokerId' = Tree!effectiveBrokerId
        /\ frames # <<>> /\ frames' = Tail(frames) /\ requests' = requests
        /\ topics' = (IF f[1] = Tree!effectiveBrokerId /\ (Tree!Sys(f[2]) => showSysTopic) THEN topics \union {f[2]} ELSE topics)
    BY <1>4, <2>1 DEF GrowingTree
  <2>3. PICK n \in Nat : n = Len(frames) /\ DOMAIN frames = 1..n BY <1>0, LenProperties DEF TreeShaped
  <2>4. /\ f = frames[1] /\ frames' \in Seq(Tree!Brokers \X Topics) /\ Len(frames') = n - 1
        /\ \A i \in 1..(n - 1) : frames'[i] = frames[i + 1]
    BY <1>0, <2>1, <2>2, <2>3, FirstFrame
  <2>5. DOMAIN frames' = 1..(n - 1) BY <2>4, LenProperties
  <2> SUFFICES ASSUME Tree!Staying', ~overtaken', NEW t \in Topics,
                      Captured(store, queue, Tree!effectiveBrokerId, t), ~Tree!Sys(t)
               PROVE  t \in topics' \union unheard' \union late' \/ UnderWay(frames', Tree!effectiveBrokerId, t) \/ Promised(requests', t)
    BY <1>0, <2>2 DEF TreeWillBe
  <2>6. t \in topics \union unheard \union late \/ UnderWay(frames, Tree!effectiveBrokerId, t) \/ Promised(requests, t)
    BY <1>0, <2>2 DEF TreeWillBe, Tree!Staying
  <2>7. CASE t \in topics \union unheard \union late BY <2>2, <2>7
  <2>8. CASE UnderWay(frames, Tree!effectiveBrokerId, t)
    <3>1. PICK i \in 1..n : frames[i] = <<Tree!effectiveBrokerId, t>> BY <2>3, <2>8 DEF UnderWay
    <3>2. CASE i = 1
      <4>1. f = <<Tree!effectiveBrokerId, t>> BY <2>4, <3>1, <3>2
      <4>2. f[1] = Tree!effectiveBrokerId /\ f[2] = t BY <4>1
      <4>3. t \in topics' BY <2>2, <4>2
      <4> QED BY <4>3
    <3>3. CASE i # 1
      <4>1. i - 1 \in 1..(n - 1) /\ (i - 1) + 1 = i BY <2>3, <3>3
      <4>2. frames'[i - 1] = <<Tree!effectiveBrokerId, t>> BY <2>4, <3>1, <4>1
      <4>3. UnderWay(frames', Tree!effectiveBrokerId, t) BY <2>5, <4>1, <4>2 DEF UnderWay
      <4> QED BY <4>3
    <3> QED BY <3>2, <3>3
  <2>9. CASE Promised(requests, t) BY <2>2, <2>9
  <2> QED BY <2>6, <2>7, <2>8, <2>9
<1> QED BY <1>1, <1>2, <1>3, <1>4

LEMMA SettledPick ==
  ASSUME Tree!ExplorerFit, NEW selected, TreeShows(selected)
  PROVE  selectedTopic' \in Seq(Tree!Levels) /\ Tree!PickShown'
<1>1. /\ selected \in Seq(Tree!Levels) /\ pickerSelectedTopic' \in Seq(Seq(Tree!Levels)) /\ url' \in Urls \union {Tree!Plain}
      /\ Tree!Settle(selected)
  BY DEF TreeShows
<1>2. /\ selectedTopic' \in Seq(Tree!Levels)
      /\ \/ selectedTopic' = selected
         \/ pickerSelectedTopic' # <<>> => Tree!Base(selectedTopic') = Tree!Base(Head(pickerSelectedTopic'))
  BY <1>1, Settles
<1>3. CASE selectedTopic' = selected BY <1>2, <1>3 DEF Tree!PickShown, TreeShows
<1>4. CASE pickerSelectedTopic' # <<>> => Tree!Base(selectedTopic') = Tree!Base(Head(pickerSelectedTopic'))
  BY <1>2, <1>4 DEF Tree!PickShown
<1> QED BY <1>2, <1>3, <1>4

LEMMA RenderKeeps == ASSUME Tree!ExplorerFit, TreeInv, Rendering PROVE TreeInv'
<1>0. TreeShaped /\ WireInv BY Inside
<1>1. PICK selected : TreeShows(selected) /\ (OwnTree \/ OtherTree \/ EmptyTree \/ GrowingTree) BY DEF Rendering
<1>2. /\ UNCHANGED <<store, queue, published>> /\ selectedBrokerId' \in Chosen /\ pickerSelectedTopic' \in Seq(Seq(Tree!Levels))
      /\ url' \in Urls \union {Tree!Plain} /\ Tree!Refetch /\ Tree!Subscribe
  BY <1>1 DEF TreeShows, Tree!history
<1>3. Tree!effectiveBrokerId' \in Tree!Brokers BY <1>2, ShownNext
<1>4. requests \in Seq(TreeRequests) /\ TreeAsked(requests, Tree!effectiveBrokerId) /\ Truthful(requests, published)
  BY <1>0 DEF TreeShaped, WireInv
<1>5. /\ requests' \in Seq(TreeRequests) /\ TreeAsked(requests', Tree!effectiveBrokerId') /\ Truthful(requests', published')
      /\ Tree!effectiveBrokerId' = Tree!effectiveBrokerId => requests' = requests
      /\ Tree!effectiveBrokerId' # Tree!effectiveBrokerId => \A t : Promised(requests', t)
  BY <1>2, <1>3, <1>4, Refetches
<1>6. served'.broker \in Chosen BY <1>0, <1>2, <1>3, Subscribes DEF TreeShaped
<1>7. selectedTopic' \in Seq(Tree!Levels) /\ Tree!PickShown' BY <1>1, SettledPick
<1>8. topics' \subseteq Topics /\ frames' \in Seq(Tree!Brokers \X Topics) BY <1>0, <1>1, TreeAfterShow
<1>9. TreeShaped'
  <2>1. /\ store' \in [Tree!Brokers -> SUBSET Topics] /\ published' \in [Tree!Brokers -> SUBSET Topics]
        /\ queue' \subseteq Tree!Brokers \X Topics
    BY <1>0, <1>2 DEF TreeShaped
  <2> QED BY <2>1, <1>2, <1>5, <1>6, <1>7, <1>8 DEF TreeShaped
<1>10. WireInv'
  <2>1. TreeSent(frames', published) BY <1>0, <1>1, SentAfterShow DEF WireInv
  <2>2. TreeSent(frames', published') BY <1>2, <2>1
  <2>3. Recorded(store', queue', published') BY <1>0, <1>2 DEF WireInv
  <2> QED BY <1>5, <2>2, <2>3 DEF WireInv
<1>11. Tree!TreeOfBroker' BY <1>1, <1>2, ShowKeepsTree
<1>12. TreeWillBe' BY <1>1, <1>5, ShowKeepsComing
<1> QED BY <1>7, <1>9, <1>10, <1>11, <1>12 DEF TreeInv

LEMMA PublishKeeps ==
  ASSUME Tree!ExplorerFit, TreeInv, NEW b \in Tree!Brokers, NEW t \in Topics, Tree!Publish(b, t)
  PROVE  TreeInv'
<1>0. TreeShaped /\ WireInv /\ Tree!TreeOfBroker /\ TreeWillBe /\ Tree!PickShown BY Inside
<1>1. /\ published' = [published EXCEPT ![b] = @ \union {t}] /\ queue' \in {queue, queue \union {<<b, t>>}}
      /\ UNCHANGED <<status, store, late, served, requests, selectedBrokerId, topics, selectedTopic, pickerCtx, pickerSelectedTopic,
                     url, returned, overtaken>>
  BY DEF Tree!Publish, Tree!picking, Tree!tree
<1>2. PICK heard \in BOOLEAN :
        /\ frames' = (IF heard THEN Append(frames, <<b, t>>) ELSE frames)
        /\ unheard' = (IF ~heard /\ b = Tree!effectiveBrokerId /\ ~Tree!Sys(t) THEN unheard \union {t} ELSE unheard)
  <2>1. PICK heard : /\ heard = (served.broker = b /\ \E f \in served.filters : Tree!Hears(f, t))
                     /\ frames' = (IF heard THEN Append(frames, <<b, t>>) ELSE frames)
                     /\ unheard' = (IF ~heard /\ b = Tree!effectiveBrokerId /\ ~Tree!Sys(t) THEN unheard \union {t} ELSE unheard)
    BY DEF Tree!Publish
  <2> QED BY <2>1
<1>3. Tree!effectiveBrokerId' = Tree!effectiveBrokerId BY <1>1, SameShown
<1>4. published \in [Tree!Brokers -> SUBSET Topics] /\ frames \in Seq(Tree!Brokers \X Topics) /\ requests \in Seq(TreeRequests)
  BY <1>0 DEF TreeShaped
<1>5. published' \in [Tree!Brokers -> SUBSET Topics] /\ \A c \in Tree!Brokers : published[c] \subseteq published'[c]
  BY <1>1, <1>4
<1>6. t \in published'[b] BY <1>1, <1>4
<1>a. ASSUME NEW c \in Tree!Brokers, NEW u \in Topics, Captured(store', queue', c, u)
      PROVE  Captured(store, queue, c, u) \/ (u = t /\ c = b)
  <2>1. CASE u \in store[c] BY <2>1 DEF Captured
  <2>2. CASE u \notin store[c]
    <3>1. <<c, u>> \in queue' BY <1>1, <1>a, <2>2 DEF Captured
    <3>2. <<c, u>> \in queue \/ <<c, u>> = <<b, t>> BY <1>1, <3>1
    <3> QED BY <3>2 DEF Captured
  <2> QED BY <2>1, <2>2
<1>7. PICK n \in Nat : n = Len(frames) /\ DOMAIN frames = 1..n /\ \A i \in 1..n : frames[i] \in Tree!Brokers \X Topics
  BY <1>4, LenProperties, ElementOfSeq
<1>8. <<b, t>> \in Tree!Brokers \X Topics OBVIOUS
<1>9. heard => /\ frames' \in Seq(Tree!Brokers \X Topics) /\ Len(frames') = n + 1 /\ frames'[n + 1] = <<b, t>>
               /\ \A i \in 1..n : frames'[i] = frames[i]
  <2>1. PICK fs : fs = Append(frames, <<b, t>>) OBVIOUS
  <2>2. fs \in Seq(Tree!Brokers \X Topics) /\ Len(fs) = Len(frames) + 1 /\ fs[Len(frames) + 1] = <<b, t>>
        /\ \A i \in 1..Len(frames) : fs[i] = frames[i]
    BY ONLY <2>1, <1>4, <1>8, AppendProperties
  <2>3. heard => frames' = fs BY <1>2, <2>1
  <2> QED BY <1>7, <2>2, <2>3
<1>10. /\ frames' \in Seq(Tree!Brokers \X Topics)
       /\ \A i \in DOMAIN frames : i \in DOMAIN frames' /\ frames'[i] = frames[i]
       /\ \A i \in DOMAIN frames' : i \in DOMAIN frames \/ frames'[i] = <<b, t>>
       /\ heard => n + 1 \in DOMAIN frames' /\ frames'[n + 1] = <<b, t>>
  <2>1. CASE heard
    <3>1. DOMAIN frames' = 1..(n + 1) BY <1>9, <2>1, LenProperties
    <3>2. \A i \in 1..(n + 1) : i \in 1..n \/ i = n + 1 OBVIOUS
    <3> QED BY <1>7, <1>9, <2>1, <3>1, <3>2
  <2>2. CASE ~heard BY <1>2, <1>4, <2>2
  <2> QED BY <2>1, <2>2
<1>11. TreeShaped'
  <2>1. /\ selectedBrokerId' \in Chosen /\ topics' \subseteq Topics /\ selectedTopic' \in Seq(Tree!Levels)
        /\ pickerSelectedTopic' \in Seq(Seq(Tree!Levels)) /\ url' \in Urls \union {Tree!Plain}
        /\ requests' \in Seq(TreeRequests) /\ served'.broker \in Chosen
    BY <1>0, <1>1 DEF TreeShaped
  <2>2. store' \in [Tree!Brokers -> SUBSET Topics] BY <1>0, <1>1 DEF TreeShaped
  <2>3. queue' \subseteq Tree!Brokers \X Topics BY <1>0, <1>1, <1>8 DEF TreeShaped
  <2> QED BY <1>5, <1>10, <2>1, <2>2, <2>3 DEF TreeShaped
<1>12. Truthful(requests, published')
  <2> SUFFICES ASSUME NEW i \in DOMAIN requests, requests[i].found # <<>>
               PROVE  requests[i].found[1] \subseteq published'[requests[i].broker]
    BY DEF Truthful
  <2>1. requests[i].broker \in Tree!Brokers BY <1>4, RequestIs
  <2>2. requests[i].found[1] \subseteq published[requests[i].broker] BY <1>0 DEF WireInv, Truthful
  <2> QED BY <1>5, <2>1, <2>2
<1>13. TreeSent(frames', published')
  <2> SUFFICES ASSUME NEW i \in DOMAIN frames' PROVE frames'[i][2] \in published'[frames'[i][1]] BY DEF TreeSent
  <2>1. CASE i \in DOMAIN frames
    <3>1. frames'[i] = frames[i] /\ frames[i] \in Tree!Brokers \X Topics BY <1>7, <1>10, <2>1
    <3>2. frames[i][1] \in Tree!Brokers BY <3>1
    <3>3. frames[i][2] \in published[frames[i][1]] BY <1>0, <2>1 DEF WireInv, TreeSent
    <3> QED BY <1>5, <3>1, <3>2, <3>3
  <2>2. CASE frames'[i] = <<b, t>>
    <3>1. frames'[i][1] = b /\ frames'[i][2] = t BY <2>2
    <3> QED BY <1>6, <3>1
  <2> QED BY <1>10, <2>1, <2>2
<1>14. WireInv'
  <2>1. TreeAsked(requests, Tree!effectiveBrokerId) BY <1>0 DEF WireInv
  <2>2. Recorded(store', queue', published')
    <3> SUFFICES ASSUME NEW c \in Tree!Brokers, NEW u \in Topics, Captured(store', queue', c, u) PROVE u \in published'[c]
      BY DEF Recorded
    <3>1. CASE Captured(store, queue, c, u)
      <4>1. u \in published[c] BY <1>0, <3>1 DEF WireInv, Recorded
      <4> QED BY <1>5, <4>1
    <3>2. CASE u = t /\ c = b BY <1>6, <3>2
    <3> QED BY <1>a, <3>1, <3>2
  <2> QED BY <1>1, <1>3, <1>12, <1>13, <2>1, <2>2 DEF WireInv
<1>15. Tree!effectiveBrokerId \in Tree!Brokers BY <1>0, ShownKnown DEF TreeShaped
<1>16. Tree!TreeOfBroker'
  <2>1. published[Tree!effectiveBrokerId] \subseteq published'[Tree!effectiveBrokerId] BY <1>5, <1>15
  <2> QED BY <1>0, <1>1, <1>3, <2>1 DEF Tree!TreeOfBroker
<1>17. TreeWillBe'
  <2> SUFFICES ASSUME Tree!Staying', ~overtaken', NEW u \in Topics,
                      Captured(store', queue', Tree!effectiveBrokerId, u), ~Tree!Sys(u)
               PROVE  u \in topics' \union unheard' \union late' \/ UnderWay(frames', Tree!effectiveBrokerId, u) \/ Promised(requests', u)
    BY <1>3 DEF TreeWillBe
  <2>1. CASE Captured(store, queue, Tree!effectiveBrokerId, u)
    <3>1. u \in topics \union unheard \union late \/ UnderWay(frames, Tree!effectiveBrokerId, u) \/ Promised(requests, u)
      BY <1>0, <1>1, <2>1 DEF TreeWillBe, Tree!Staying
    <3>2. unheard \subseteq unheard' BY <1>2
    <3>3. UnderWay(frames, Tree!effectiveBrokerId, u) => UnderWay(frames', Tree!effectiveBrokerId, u) BY <1>10 DEF UnderWay
    <3> QED BY <1>1, <3>1, <3>2, <3>3
  <2>2. CASE u = t /\ Tree!effectiveBrokerId = b
    <3>1. CASE heard BY <1>10, <2>2, <3>1 DEF UnderWay
    <3>2. CASE ~heard BY <1>2, <2>2, <3>2
    <3> QED BY <3>1, <3>2
  <2> QED BY <1>a, <1>15, <2>1, <2>2
<1>18. Tree!PickShown' BY <1>0, <1>1 DEF Tree!PickShown
<1> QED BY <1>11, <1>14, <1>16, <1>17, <1>18 DEF TreeInv

LEMMA ServeKeeps ==
  ASSUME Tree!ExplorerFit, TreeInv, NEW i \in DOMAIN requests, Tree!ServeTree(i)
  PROVE  TreeInv'
<1>0. TreeShaped /\ WireInv /\ Tree!TreeOfBroker /\ TreeWillBe /\ Tree!PickShown BY Inside
<1>1. /\ UNCHANGED <<status, store, queue, published, served, frames, selectedBrokerId, topics, selectedTopic, pickerCtx,
                     pickerSelectedTopic, url, returned, unheard, overtaken>>
      /\ requests[i].found = <<>>
      /\ requests' = [requests EXCEPT ![i].found = <<store[requests[i].broker]>>]
      /\ late' = (IF requests[i].cancelled THEN late
                  ELSE late \union (Tree!Queued(requests[i].broker) \ store[requests[i].broker]))
  BY DEF Tree!ServeTree, Tree!server, Tree!history, Tree!picking, Tree!tree
<1>2. Tree!effectiveBrokerId' = Tree!effectiveBrokerId BY <1>1, SameShown
<1>3. requests \in Seq(TreeRequests) /\ store \in [Tree!Brokers -> SUBSET Topics] BY <1>0 DEF TreeShaped
<1>4. PICK n \in Nat : n = Len(requests) /\ DOMAIN requests = 1..n /\ \A k \in 1..n : requests[k] \in TreeRequests
  BY <1>3, LenProperties, ElementOfSeq
<1>5. PICK r : r = [requests[i] EXCEPT !.found = <<store[requests[i].broker]>>] OBVIOUS
<1>6. PICK S \in SUBSET Topics : S = store[requests[i].broker] BY <1>3, RequestIs
<1>7. r.found = <<S>> /\ r.broker = requests[i].broker /\ r.cancelled = requests[i].cancelled /\ r \in TreeRequests
  <2>1. <<S>> \in Found BY DEF Found
  <2>2. requests[i] \in TreeRequests BY <1>4
  <2>3. r = [requests[i] EXCEPT !.found = <<S>>] BY <1>5, <1>6
  <2> QED BY <2>1, <2>2, <2>3 DEF TreeRequests
<1>8. requests' = [requests EXCEPT ![i] = r] BY <1>1, <1>5
<1>9. requests' \in Seq(TreeRequests) /\ DOMAIN requests' = 1..n /\ Len(requests') = n
  <2>1. requests \in [1..n -> TreeRequests] BY <1>4, <1>3, LenProperties
  <2>2. requests' \in [1..n -> TreeRequests] BY <1>7, <1>8, <2>1
  <2> QED BY <2>2, SeqDef, LenProperties
<1>10. requests'[i] = r /\ \A k \in 1..n : k # i => requests'[k] = requests[k] BY <1>3, <1>4, <1>8
<1>11. TreeAsked(requests', Tree!effectiveBrokerId)
  <2> SUFFICES ASSUME NEW k \in 1..n
               PROVE (k < n => requests'[k].cancelled) /\ (requests'[k].cancelled \/ requests'[k].broker = Tree!effectiveBrokerId)
    BY <1>9 DEF TreeAsked
  <2>1. (k < n => requests[k].cancelled) /\ (requests[k].cancelled \/ requests[k].broker = Tree!effectiveBrokerId)
    BY <1>0, <1>4 DEF WireInv, TreeAsked
  <2>2. requests'[k].cancelled = requests[k].cancelled /\ requests'[k].broker = requests[k].broker BY <1>7, <1>10
  <2> QED BY <2>1, <2>2
<1>12. Truthful(requests', published)
  <2> SUFFICES ASSUME NEW k \in 1..n, requests'[k].found # <<>>
               PROVE  requests'[k].found[1] \subseteq published[requests'[k].broker]
    BY <1>9 DEF Truthful
  <2>1. CASE k = i
    <3>1. requests'[k].found[1] = S BY <1>7, <1>10, <2>1
    <3>2. requests'[k].broker = requests[i].broker BY <1>7, <1>10, <2>1
    <3>3. requests[i].broker \in Tree!Brokers BY <1>3, RequestIs
    <3>4. S \subseteq published[requests[i].broker] BY <1>0, <1>6, <3>3 DEF WireInv, Recorded, Captured
    <3> QED BY <3>1, <3>2, <3>4
  <2>2. CASE k # i BY <1>0, <1>4, <1>10, <2>2 DEF WireInv, Truthful
  <2> QED BY <2>1, <2>2
<1>13. WireInv'
  <2>1. TreeSent(frames, published) /\ Recorded(store, queue, published) BY <1>0 DEF WireInv
  <2> QED BY <1>1, <1>2, <1>11, <1>12, <2>1 DEF WireInv
<1>14. TreeShaped' BY <1>0, <1>1, <1>9 DEF TreeShaped
<1>15. Tree!TreeOfBroker' BY <1>0, <1>1, <1>2 DEF Tree!TreeOfBroker
<1>16. TreeWillBe'
  <2> SUFFICES ASSUME Tree!Staying', ~overtaken', NEW u \in Topics,
                      Captured(store, queue, Tree!effectiveBrokerId, u), ~Tree!Sys(u)
               PROVE  u \in topics' \union unheard' \union late' \/ UnderWay(frames', Tree!effectiveBrokerId, u) \/ Promised(requests', u)
    BY <1>1, <1>2 DEF TreeWillBe
  <2>1. u \in topics \union unheard \union late \/ UnderWay(frames, Tree!effectiveBrokerId, u) \/ Promised(requests, u)
    BY <1>0, <1>1 DEF TreeWillBe, Tree!Staying
  <2>2. ASSUME Promised(requests, u) PROVE u \in late' \/ Promised(requests', u)
    <3>1. PICK k \in 1..n : ~requests[k].cancelled /\ (requests[k].found = <<>> \/ u \in requests[k].found[1])
      BY <1>4, <2>2 DEF Promised
    <3>2. CASE k # i BY <1>9, <1>10, <3>1, <3>2 DEF Promised
    <3>3. CASE k = i
      <4>1. requests[i].broker = Tree!effectiveBrokerId BY <1>0, <1>4, <3>1, <3>3 DEF WireInv, TreeAsked
      <4>2. CASE u \notin S
        <5>1. <<requests[i].broker, u>> \in queue BY <1>6, <4>1, <4>2 DEF Captured
        <5>2. u \in Tree!Queued(requests[i].broker) \ store[requests[i].broker] BY <1>6, <4>2, <5>1 DEF Tree!Queued
        <5> QED BY <1>1, <3>1, <3>3, <5>2
      <4>3. u \in S => u \in requests'[i].found[1] BY <1>7, <1>10
      <4>4. requests'[i].cancelled = requests[i].cancelled BY <1>7, <1>10
      <4>5. ~requests'[i].cancelled BY <3>1, <3>3, <4>4
      <4> QED BY <1>4, <1>9, <4>2, <4>3, <4>5 DEF Promised
    <3> QED BY <3>2, <3>3
  <2>3. late \subseteq late' BY <1>1
  <2> QED BY <1>1, <2>1, <2>2, <2>3
<1>17. Tree!PickShown' BY <1>0, <1>1 DEF Tree!PickShown
<1> QED BY <1>13, <1>14, <1>15, <1>16, <1>17 DEF TreeInv

LEMMA AnswerKeeps ==
  ASSUME Tree!ExplorerFit, TreeInv, NEW i \in DOMAIN requests, NEW failing \in BOOLEAN, Tree!TreeAnswered(i, failing)
  PROVE  TreeInv'
<1>0. TreeShaped /\ WireInv /\ Tree!TreeOfBroker /\ TreeWillBe /\ Tree!PickShown BY Inside
<1>1. /\ UNCHANGED <<status, store, queue, published, frames, selectedBrokerId, pickerCtx, pickerSelectedTopic, url>>
      /\ UNCHANGED <<returned, unheard, late>>
      /\ requests[i].found # <<>> /\ requests' = Tree!RemoveAt(requests, i)
      /\ Tree!Settle(selectedTopic) /\ Tree!Subscribe
  BY DEF Tree!TreeAnswered, Tree!server, Tree!history
<1>2. topics' = IF Tree!Ignored(requests[i]) \/ failing THEN topics ELSE Tree!Merged(requests[i].found[1]) BY DEF Tree!TreeAnswered
<1>3. PICK lost : lost = (~requests[i].cancelled /\ (failing \/ ~(topics \subseteq topics'))) OBVIOUS
<1>4. overtaken' = (overtaken \/ lost) BY <1>3 DEF Tree!TreeAnswered
<1>5. ~overtaken' => ~overtaken /\ ~lost BY ONLY <1>4
<1>6. Tree!effectiveBrokerId' = Tree!effectiveBrokerId BY <1>1, SameShown
<1>7. Tree!effectiveBrokerId \in Tree!Brokers BY <1>0, ShownKnown DEF TreeShaped
<1>8. requests \in Seq(TreeRequests) /\ store \in [Tree!Brokers -> SUBSET Topics] /\ topics \subseteq Topics
  BY <1>0 DEF TreeShaped
<1>9. requests[i].found[1] \subseteq Topics /\ requests[i].broker \in Tree!Brokers
  <2>1. requests[i].found \in Found /\ requests[i].broker \in Tree!Brokers BY <1>8, RequestIs
  <2>2. PICK S \in SUBSET Topics : requests[i].found = <<S>> BY <1>1, <2>1 DEF Found
  <2> QED BY <2>1, <2>2
<1>10. topics' \subseteq Topics BY <1>2, <1>8, <1>9 DEF Tree!Merged
<1>11. requests' \in Seq(TreeRequests) /\ IsCut(requests', requests, i)
  <2>1. requests' = SubSeq(requests, 1, i - 1) \o SubSeq(requests, i + 1, Len(requests)) BY <1>1 DEF Tree!RemoveAt
  <2> QED BY ONLY <1>8, <2>1, i \in DOMAIN requests, Cut
<1>12. /\ Len(requests') = Len(requests) - 1
       /\ \A k \in DOMAIN requests' : \E j \in DOMAIN requests \ {i} : requests'[k] = requests[j] /\ j = (IF k < i THEN k ELSE k + 1)
       /\ \A j \in DOMAIN requests \ {i} : \E k \in DOMAIN requests' : requests'[k] = requests[j]
  BY ONLY <1>8, <1>11, i \in DOMAIN requests, CutFrom
<1>13. served'.broker \in Chosen
  <2>1. served.broker \in Chosen BY <1>0 DEF TreeShaped
  <2> QED BY <1>1, <1>6, <1>7, <2>1, Subscribes
<1>14. selectedTopic' \in Seq(Tree!Levels) /\ Tree!PickShown'
  <2>1. selectedTopic \in Seq(Tree!Levels) /\ pickerSelectedTopic' \in Seq(Seq(Tree!Levels)) /\ url' \in Urls \union {Tree!Plain}
    BY <1>0, <1>1 DEF TreeShaped
  <2>2. /\ selectedTopic' \in Seq(Tree!Levels)
        /\ \/ selectedTopic' = selectedTopic
           \/ pickerSelectedTopic' # <<>> => Tree!Base(selectedTopic') = Tree!Base(Head(pickerSelectedTopic'))
    BY <1>1, <2>1, Settles
  <2>3. CASE selectedTopic' = selectedTopic BY <1>0, <1>1, <2>2, <2>3 DEF Tree!PickShown
  <2>4. CASE pickerSelectedTopic' # <<>> => Tree!Base(selectedTopic') = Tree!Base(Head(pickerSelectedTopic'))
    BY <2>2, <2>4 DEF Tree!PickShown
  <2> QED BY <2>2, <2>3, <2>4
<1>15. TreeShaped' BY <1>0, <1>1, <1>10, <1>11, <1>13, <1>14 DEF TreeShaped
<1>16. WireInv'
  <2>1. TreeSent(frames, published) /\ Recorded(store, queue, published) BY <1>0 DEF WireInv
  <2>2. PICK n \in Nat : n = Len(requests) /\ DOMAIN requests = 1..n /\ i \in 1..n BY <1>8, LenProperties
  <2>3. Len(requests') = n - 1 /\ DOMAIN requests' = 1..(n - 1) BY <1>11, <1>12, <2>2, LenProperties
  <2>4. TreeAsked(requests', Tree!effectiveBrokerId)
    <3> SUFFICES ASSUME NEW k \in DOMAIN requests'
                 PROVE (k < Len(requests') => requests'[k].cancelled)
                       /\ (requests'[k].cancelled \/ requests'[k].broker = Tree!effectiveBrokerId)
      BY DEF TreeAsked
    <3>1. PICK j \in DOMAIN requests \ {i} : requests'[k] = requests[j] /\ j = (IF k < i THEN k ELSE k + 1) BY <1>12
    <3>2. k < Len(requests') => j < Len(requests) BY <2>2, <2>3, <3>1
    <3>3. (j < Len(requests) => requests[j].cancelled) /\ (requests[j].cancelled \/ requests[j].broker = Tree!effectiveBrokerId)
      BY <1>0 DEF WireInv, TreeAsked
    <3> QED BY <3>1, <3>2, <3>3
  <2>5. Truthful(requests', published)
    <3> SUFFICES ASSUME NEW k \in DOMAIN requests', requests'[k].found # <<>>
                 PROVE requests'[k].found[1] \subseteq published[requests'[k].broker]
      BY DEF Truthful
    <3>1. PICK j \in DOMAIN requests \ {i} : requests'[k] = requests[j] BY <1>12
    <3> QED BY <1>0, <3>1 DEF WireInv, Truthful
  <2> QED BY <1>1, <1>6, <2>1, <2>4, <2>5 DEF WireInv
<1>17. Tree!TreeOfBroker'
  <2> SUFFICES ASSUME ~overtaken', NEW t \in topics', ~Tree!Sys(t) PROVE t \in published[Tree!effectiveBrokerId]
    BY <1>1, <1>6 DEF Tree!TreeOfBroker
  <2>1. t \in topics => t \in published[Tree!effectiveBrokerId] BY <1>0, <1>5 DEF Tree!TreeOfBroker
  <2>2. CASE Tree!Ignored(requests[i]) \/ failing BY <1>2, <2>1, <2>2
  <2>3. CASE ~(Tree!Ignored(requests[i]) \/ failing)
    <3>1. topics' = Tree!Merged(requests[i].found[1]) BY <1>2, <2>3
    <3>2. t \in requests[i].found[1] BY <3>1 DEF Tree!Merged
    <3>3. ~requests[i].cancelled BY <2>3 DEF Tree!Ignored
    <3>4. requests[i].broker = Tree!effectiveBrokerId BY <1>0, <3>3 DEF WireInv, TreeAsked
    <3>5. requests[i].found[1] \subseteq published[requests[i].broker] BY <1>0, <1>1 DEF WireInv, Truthful
    <3> QED BY <3>2, <3>4, <3>5
  <2> QED BY <2>2, <2>3
<1>18. TreeWillBe'
  <2> SUFFICES ASSUME Tree!Staying', ~overtaken', NEW t \in Topics,
                      Captured(store, queue, Tree!effectiveBrokerId, t), ~Tree!Sys(t)
               PROVE  t \in topics' \union unheard' \union late' \/ UnderWay(frames', Tree!effectiveBrokerId, t) \/ Promised(requests', t)
    BY <1>1, <1>6 DEF TreeWillBe
  <2>1. ~overtaken /\ ~lost BY <1>5
  <2>2. t \in topics \union unheard \union late \/ UnderWay(frames, Tree!effectiveBrokerId, t) \/ Promised(requests, t)
    BY <1>0, <1>1, <2>1 DEF TreeWillBe, Tree!Staying
  <2>3. CASE requests[i].cancelled
    <3>1. topics' = topics BY <1>2, <2>3 DEF Tree!Ignored
    <3>2. ASSUME Promised(requests, t) PROVE Promised(requests', t)
      <4>1. PICK j \in DOMAIN requests : ~requests[j].cancelled /\ (requests[j].found = <<>> \/ t \in requests[j].found[1])
        BY <3>2 DEF Promised
      <4>2. j # i BY <2>3, <4>1
      <4>3. PICK k \in DOMAIN requests' : requests'[k] = requests[j] BY <1>12, <4>2
      <4> QED BY <4>1, <4>3 DEF Promised
    <3> QED BY <1>1, <2>2, <3>1, <3>2
  <2>4. CASE ~requests[i].cancelled
    <3>1. ~failing /\ topics \subseteq topics' BY ONLY <1>3, <2>1, <2>4
    <3>2. topics' = Tree!Merged(requests[i].found[1]) BY <1>2, <2>4, <3>1 DEF Tree!Ignored
    <3>3. ASSUME Promised(requests, t) PROVE t \in topics' \/ Promised(requests', t)
      <4>1. PICK j \in DOMAIN requests : ~requests[j].cancelled /\ (requests[j].found = <<>> \/ t \in requests[j].found[1])
        BY <3>3 DEF Promised
      <4>2. CASE j = i BY <1>1, <3>2, <4>1, <4>2 DEF Tree!Merged
      <4>3. CASE j # i
        <5>1. PICK k \in DOMAIN requests' : requests'[k] = requests[j] BY <1>12, <4>3
        <5> QED BY <4>1, <5>1 DEF Promised
      <4> QED BY <4>2, <4>3
    <3> QED BY <1>1, <2>2, <3>1, <3>3
  <2> QED BY <2>3, <2>4
<1> QED BY <1>14, <1>15, <1>16, <1>17, <1>18 DEF TreeInv

LEMMA WriteKeeps ==
  ASSUME Tree!ExplorerFit, TreeInv, NEW m \in queue, Tree!Write(m)
  PROVE  TreeInv'
<1>0. TreeShaped /\ WireInv /\ Tree!TreeOfBroker /\ TreeWillBe /\ Tree!PickShown BY Inside
<1>1. /\ UNCHANGED <<status, published, served, frames, requests, selectedBrokerId, topics, selectedTopic, pickerCtx,
                     pickerSelectedTopic, url, returned, unheard, late, overtaken>>
      /\ queue' = queue \ {m} /\ store' \in {store, [store EXCEPT ![m[1]] = @ \union {m[2]}]}
  BY DEF Tree!Write, Tree!wire, Tree!picking, Tree!tree, Tree!ghosts
<1>2. Tree!effectiveBrokerId' = Tree!effectiveBrokerId BY <1>1, SameShown
<1>3. store \in [Tree!Brokers -> SUBSET Topics] /\ queue \subseteq Tree!Brokers \X Topics BY <1>0 DEF TreeShaped
<1>4. PICK b \in Tree!Brokers, t \in Topics : m = <<b, t>> BY <1>3
<1>5. store' \in {store, [store EXCEPT ![b] = @ \union {t}]} BY <1>1, <1>4
<1>6. store' \in [Tree!Brokers -> SUBSET Topics] /\ queue' \subseteq Tree!Brokers \X Topics BY <1>1, <1>3, <1>5
<1>7. ASSUME NEW c \in Tree!Brokers, NEW u \in Topics, Captured(store', queue', c, u) PROVE Captured(store, queue, c, u)
  <2>1. CASE <<c, u>> \in queue BY <2>1 DEF Captured
  <2>2. CASE u \in store[c] BY <2>2 DEF Captured
  <2>3. <<c, u>> \in queue \/ u \in store'[c] BY <1>1, <1>7 DEF Captured
  <2>4. u \in store'[c] => u \in store[c] \/ (c = b /\ u = t) BY <1>3, <1>5
  <2>5. (c = b /\ u = t) => <<c, u>> \in queue BY <1>4
  <2> QED BY <2>1, <2>2, <2>3, <2>4, <2>5
<1>8. TreeShaped' BY <1>0, <1>1, <1>6 DEF TreeShaped
<1>9. WireInv'
  <2>1. Recorded(store', queue', published) BY <1>0, <1>7 DEF WireInv, Recorded
  <2> QED BY <1>0, <1>1, <1>2, <2>1 DEF WireInv
<1>10. Tree!TreeOfBroker' BY <1>0, <1>1, <1>2 DEF Tree!TreeOfBroker
<1>11. TreeWillBe'
  <2>1. Tree!effectiveBrokerId \in Tree!Brokers BY <1>0, ShownKnown DEF TreeShaped
  <2>2. \A u \in Topics : Captured(store', queue', Tree!effectiveBrokerId, u) => Captured(store, queue, Tree!effectiveBrokerId, u)
    BY <1>7, <2>1
  <2> QED BY <1>0, <1>1, <1>2, <2>2 DEF TreeWillBe, Tree!Staying
<1>12. Tree!PickShown' BY <1>0, <1>1 DEF Tree!PickShown
<1> QED BY <1>8, <1>9, <1>10, <1>11, <1>12 DEF TreeInv

LEMMA TreeStarts == ASSUME Tree!ExplorerFit, Tree!Init PROVE TreeInv
<1>1. PICK ctx, at : Tree!Mount(ctx, at) /\ (ctx = <<>> \/ \E o \in Outbounds : ctx = <<o>>) /\ at \in Urls \union {Tree!Plain}
  BY DEF Tree!Init
<1>2. /\ pickerCtx = ctx /\ url = at
      /\ selectedBrokerId = (IF ctx # <<>> THEN ctx[1].broker ELSE at.broker)
      /\ pickerSelectedTopic = (IF ctx # <<>> THEN ctx[1].topics ELSE IF at.topic = Tree!NoTopic THEN <<>> ELSE <<at.topic>>)
      /\ selectedTopic = (IF ctx # <<>> THEN IF ctx[1].topics = <<>> THEN Tree!NoTopic ELSE Head(ctx[1].topics)
                          ELSE IF at.topic # Tree!NoTopic THEN at.topic ELSE Tree!AllTopics)
      /\ requests = <<[broker |-> Tree!effectiveBrokerId, found |-> <<>>, cancelled |-> FALSE]>>
      /\ served = [broker |-> Tree!effectiveBrokerId, filters |-> {Tree!AllTopics}]
  BY <1>1 DEF Tree!Mount
<1>3. at.topic \in Seq(Tree!Levels) /\ at.broker \in Chosen BY <1>1, UrlIs
<1>4. ctx # <<>> => ctx[1].broker \in Chosen /\ ctx[1].topics \in Seq(Seq(Tree!Levels))
  <2> SUFFICES ASSUME ctx # <<>> PROVE ctx[1].broker \in Chosen /\ ctx[1].topics \in Seq(Seq(Tree!Levels)) OBVIOUS
  <2>1. PICK o \in Outbounds : ctx = <<o>> BY <1>1
  <2>2. ctx[1] = o BY <2>1
  <2> QED BY <2>2 DEF Tree!ExplorerFit, Chosen
<1>5. selectedBrokerId \in Chosen BY <1>2, <1>3, <1>4
<1>6. Tree!effectiveBrokerId \in Tree!Brokers BY <1>5, ShownKnown
<1>7. pickerSelectedTopic \in Seq(Seq(Tree!Levels))
  <2>1. <<>> \in Seq(Seq(Tree!Levels)) /\ <<at.topic>> \in Seq(Seq(Tree!Levels)) BY <1>3
  <2> QED BY <1>2, <1>4, <2>1
<1>8. selectedTopic \in Seq(Tree!Levels)
  <2>1. <<>> \in Seq(Tree!Levels) /\ <<"#">> \in Seq(Tree!Levels) BY FitLevels
  <2>2. ctx # <<>> /\ ctx[1].topics # <<>> => Head(ctx[1].topics) \in Seq(Tree!Levels) BY <1>4, HeadTailProperties
  <2> QED BY <1>2, <1>3, <2>1, <2>2 DEF Tree!NoTopic, Tree!AllTopics
<1>9. PICK r : r = [broker |-> Tree!effectiveBrokerId, found |-> <<>>, cancelled |-> FALSE] OBVIOUS
<1>10. r \in TreeRequests /\ r.broker = Tree!effectiveBrokerId /\ r.found = <<>> BY <1>6, <1>9 DEF TreeRequests, Found
<1>11. ~r.cancelled BY <1>9
<1>12. requests = <<r>> /\ requests \in Seq(TreeRequests) /\ DOMAIN requests = {1} /\ Len(requests) = 1 /\ requests[1] = r
  BY <1>2, <1>9, <1>10
<1>13. frames = <<>> /\ topics = {} /\ store \in InitialStores /\ queue \in InitialQueues
       /\ published = [b \in Tree!Brokers |-> store[b] \union Tree!Queued(b)]
  BY DEF Tree!Init
<1>14. store \in [Tree!Brokers -> SUBSET Topics] /\ queue \subseteq Tree!Brokers \X Topics BY <1>13 DEF Tree!ExplorerFit
<1>a. published \in [Tree!Brokers -> SUBSET Topics]
  <2>1. \A b : Tree!Queued(b) \subseteq Topics BY DEF Tree!Queued
  <2> QED BY <1>13, <1>14, <2>1
<1>b. Recorded(store, queue, published)
  <2> SUFFICES ASSUME NEW b \in Tree!Brokers, NEW t \in Topics, Captured(store, queue, b, t) PROVE t \in published[b]
    BY DEF Recorded
  <2>1. t \in store[b] \/ t \in Tree!Queued(b) BY DEF Captured, Tree!Queued
  <2> QED BY <1>13, <2>1
<1>15. served.broker \in Chosen BY <1>2, <1>6 DEF Chosen
<1>16. frames \in Seq(Tree!Brokers \X Topics) BY <1>13
<1>17. url \in Urls \union {Tree!Plain} /\ topics \subseteq Topics BY <1>1, <1>2, <1>13
<1>18. TreeShaped BY <1>a, <1>5, <1>7, <1>8, <1>12, <1>14, <1>15, <1>16, <1>17 DEF TreeShaped
<1>19. TreeAsked(requests, Tree!effectiveBrokerId)
  <2>1. \A i \in DOMAIN requests : i = 1 /\ requests[i].broker = Tree!effectiveBrokerId BY <1>10, <1>12
  <2>2. ~(1 < Len(requests)) BY <1>12
  <2> QED BY <2>1, <2>2 DEF TreeAsked
<1>20. Truthful(requests, published)
  <2>1. \A i \in DOMAIN requests : requests[i].found = <<>> BY <1>10, <1>12
  <2> QED BY <2>1 DEF Truthful
<1>21. TreeSent(frames, published) BY <1>13 DEF TreeSent
<1>22. Tree!TreeOfBroker BY <1>13 DEF Tree!TreeOfBroker
<1>23. TreeWillBe
  <2>1. \A t : Promised(requests, t)
    <3>1. ~requests[1].cancelled /\ requests[1].found = <<>> /\ 1 \in DOMAIN requests BY <1>10, <1>11, <1>12
    <3> QED BY <3>1 DEF Promised
  <2> QED BY <2>1 DEF TreeWillBe
<1>24. Tree!PickShown
  <2> SUFFICES ASSUME pickerCtx # <<>>, pickerSelectedTopic # <<>>
               PROVE  Tree!Base(Head(pickerSelectedTopic)) = Tree!Base(selectedTopic)
    BY DEF Tree!PickShown
  <2>1. pickerSelectedTopic = ctx[1].topics /\ selectedTopic = Head(ctx[1].topics) BY <1>2
  <2> QED BY <2>1
<1> QED BY <1>b, <1>18, <1>19, <1>20, <1>21, <1>22, <1>23, <1>24 DEF TreeInv, WireInv

(* The invariant behind the explorer: each topic captured of the broker    *)
(* shown is in the tree, on its way, of no frame, or was still to be       *)
(* stored when the tree was read (ExplorerPage.tsx, TopicTree.tsx).        *)
THEOREM TreeInvariant == ASSUME Tree!ExplorerFit PROVE TreeRuns => []TreeInv
<1>1. Tree!Init => TreeInv BY TreeStarts
<1>2. TreeInv /\ [Tree!Next]_(Tree!vars) => TreeInv'
  <2> SUFFICES ASSUME TreeInv, [Tree!Next]_(Tree!vars) PROVE TreeInv' OBVIOUS
  <2>1. CASE Tree!Next
    <3>1. TreeShaped /\ Tree!PickShown BY Inside
    <3>2. \/ Resting \/ Rendering
          \/ \E b \in Tree!Brokers, t \in Topics : Tree!Publish(b, t)
          \/ \E m \in queue : Tree!Write(m)
          \/ \E i \in DOMAIN requests : Tree!ServeTree(i)
          \/ \E i \in DOMAIN requests, failing \in BOOLEAN : Tree!TreeAnswered(i, failing)
      BY <2>1, <3>1, TreeWays
    <3> QED BY <3>2, RestKeeps, RenderKeeps, PublishKeeps, WriteKeeps, ServeKeeps, AnswerKeeps
  <2>2. CASE UNCHANGED Tree!vars
    <3>1. Resting BY <2>2 DEF Tree!vars, Tree!server, Tree!wire, Tree!picking, Tree!tree, Tree!ghosts, Resting
    <3> QED BY <3>1, RestKeeps
  <2> QED BY <2>1, <2>2
<1> QED BY <1>1, <1>2, PTL DEF TreeRuns

(* The explorer keeps values of their types and shows a broker there is,   *)
(* and of its requests for the tree one at most is not cancelled           *)
(* (ExplorerPage.tsx, the effect that loads the tree).                     *)
THEOREM TreeTyped == ASSUME Tree!ExplorerFit PROVE TreeRuns => []Tree!TypeOK
<1>1. TreeInv => Tree!TypeOK
  <2> SUFFICES ASSUME TreeInv PROVE Tree!TypeOK OBVIOUS
  <2>1. TreeShaped /\ TreeAsked(requests, Tree!effectiveBrokerId) BY DEF TreeInv, WireInv
  <2>2. Tree!effectiveBrokerId \in Tree!Brokers BY <2>1, ShownKnown DEF TreeShaped
  <2>3. requests \in Seq(TreeRequests) BY <2>1 DEF TreeShaped
  <2>4. ASSUME NEW i \in DOMAIN requests PROVE requests[i].broker \in Tree!Brokers /\ Len(requests[i].found) <= 1
    <3>1. requests[i].broker \in Tree!Brokers /\ requests[i].found \in Found BY <2>3, RequestIs
    <3>2. CASE requests[i].found = <<>>
      <4>1. Len(requests[i].found) = 0 BY <3>2
      <4> QED BY <3>1, <4>1
    <3>3. CASE \E S \in SUBSET Topics : requests[i].found = <<S>>
      <4>1. Len(requests[i].found) = 1 BY <3>3
      <4> QED BY <3>1, <4>1
    <3> QED BY <3>1, <3>2, <3>3 DEF Found
  <2>5. Cardinality({i \in DOMAIN requests : ~requests[i].cancelled}) <= 1
    <3>1. PICK C : C = {i \in DOMAIN requests : ~requests[i].cancelled} OBVIOUS
    <3>2. C \subseteq {Len(requests)}
      <4> SUFFICES ASSUME NEW i \in C PROVE i = Len(requests) OBVIOUS
      <4>1. i \in DOMAIN requests /\ ~requests[i].cancelled BY <3>1
      <4>2. ~(i < Len(requests)) BY <2>1, <4>1 DEF TreeAsked
      <4>3. i \in Nat /\ i <= Len(requests) /\ Len(requests) \in Nat BY <2>3, <4>1, RequestIs
      <4> QED BY <4>2, <4>3
    <3>3. IsFiniteSet({Len(requests)}) /\ Cardinality({Len(requests)}) = 1 BY FS_Singleton
    <3>4. IsFiniteSet(C) /\ Cardinality(C) <= Cardinality({Len(requests)}) BY <3>2, <3>3, FS_Subset
    <3> QED BY <3>1, <3>3, <3>4
  <2>6. store \in [Tree!Brokers -> SUBSET Topics] /\ queue \subseteq Tree!Brokers \X Topics /\ topics \subseteq Topics
        /\ served.broker \in Tree!Brokers \union {Tree!NoBroker}
    BY <2>1 DEF TreeShaped, Chosen
  <2> QED BY <2>2, <2>4, <2>5, <2>6, TreeCounts DEF Tree!TypeOK
<1>2. TreeRuns => []TreeInv BY TreeInvariant
<1> QED BY <1>1, <1>2, PTL

(* After the tree was loaded for a broker the user chose, every row is of  *)
(* a topic of that broker: no late answer and no late frame brings         *)
(* another's (ExplorerPage.tsx, the cancelled flag and the hook's check of *)
(* the broker).                                                            *)
THEOREM TreeIsOfBroker == ASSUME Tree!ExplorerFit PROVE TreeRuns => []Tree!TreeOfBroker
<1>1. TreeInv => Tree!TreeOfBroker BY DEF TreeInv
<1>2. TreeRuns => []TreeInv BY TreeInvariant
<1> QED BY <1>1, <1>2, PTL

(* While a topic is picked for a dialog, the topic shown is the one the    *)
(* bar offers to confirm, with or without those below it                   *)
(* (ExplorerPage.tsx, picker mode).                                        *)
THEOREM PickIsShown == ASSUME Tree!ExplorerFit PROVE TreeRuns => []Tree!PickShown
<1>1. TreeInv => Tree!PickShown BY DEF TreeInv
<1>2. TreeRuns => []TreeInv BY TreeInvariant
<1> QED BY <1>1, <1>2, PTL

(* When the tree is loaded and all frames have come, it has every topic    *)
(* stored of the broker shown, but for those no frame was sent of or that  *)
(* waited to be stored when it was read, unless its answer was older than  *)
(* what had been heard (ExplorerPage.tsx, the merge of the answer with the *)
(* live topics; registry.go, the history's queue).                         *)
THEOREM TreeIsComplete == ASSUME Tree!ExplorerFit PROVE TreeRuns => []Tree!TreeComplete
<1>1. TreeInv => Tree!TreeComplete
  <2> SUFFICES ASSUME TreeInv, requests = <<>>, frames = <<>>, ~overtaken, Tree!Staying,
                      NEW t \in store[Tree!effectiveBrokerId], ~Tree!Sys(t)
               PROVE  t \in topics \union unheard \union late
    BY DEF Tree!TreeComplete
  <2>0. Tree!effectiveBrokerId \in Tree!Brokers /\ t \in Topics BY ShownKnown DEF TreeInv, TreeShaped
  <2>1. t \in topics \union unheard \union late \/ UnderWay(frames, Tree!effectiveBrokerId, t) \/ Promised(requests, t)
    BY <2>0 DEF TreeInv, TreeWillBe, Captured
  <2>2. ~UnderWay(frames, Tree!effectiveBrokerId, t) /\ ~Promised(requests, t) BY DEF UnderWay, Promised
  <2> QED BY <2>1, <2>2
<1>2. TreeRuns => []TreeInv BY TreeInvariant
<1> QED BY <1>1, <1>2, PTL

(* The row of the selected topic can be seen, unless a row above it was    *)
(* folded under that selection (TopicTree.tsx, shouldAutoExpand).          *)
THEOREM SelectedIsVisible == ASSUME Tree!ExplorerFit PROVE TreeRuns => []Tree!SelectedVisible
<1>1. TreeInv => Tree!SelectedVisible
  <2> SUFFICES ASSUME TreeInv, NEW row \in Tree!Rows, Tree!isSelected(row, selectedTopic), ~Tree!Drawn(row)
               PROVE  \E o \in overrides : o.topic = selectedTopic /\ ~o.open
    BY DEF Tree!SelectedVisible
  <2>1. TreeShaped BY DEF TreeInv
  <2>2. row \in Seq(Tree!Levels) /\ selectedTopic \in Seq(Tree!Levels) BY <2>1, RowsAreTopics DEF TreeShaped
  <2>3. ~Tree!Visible(row, overrides, Tree!Rows, selectedTopic, Tree!wide) BY DEF Tree!Drawn
  <2> QED BY <2>2, <2>3, SelectedDrawn
<1>2. TreeRuns => []TreeInv BY TreeInvariant
<1> QED BY <1>1, <1>2, PTL
=============================================================================
