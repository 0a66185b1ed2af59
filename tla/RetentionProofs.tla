--------------------------- MODULE RetentionProofs ---------------------------
(***************************************************************************)
(* The safety of the two stores that keep only the newest: the working     *)
(* tree snapshots of a VI and the preview render cache, for any snapshots, *)
(* runs, limits, files and renders.                                        *)
(***************************************************************************)
EXTENDS SnapshotArchive, PreviewRenderState, FiniteSetTheorems, SequenceTheorems, WellFoundedInduction, TLAPS

-----------------------------------------------------------------------------
(* Lists and their filter. *)

(* A non-empty set of natural numbers has a least element. *)
LEMMA LeastNumber ==
  ASSUME NEW I, I \subseteq Nat, I # {}
  PROVE  \E i \in I : \A j \in I : i <= j
<1> DEFINE R == OpToRel(<, Nat)
<1>1. IsWellFoundedOn(R, Nat)
  BY NatLessThanWellFounded
<1>2. PICK x \in I : \A y \in I : ~(<<y, x>> \in R)
  BY <1>1, WFMin
<1>3. \A y \in I : ~(y < x)
  BY <1>2 DEF OpToRel
<1> QED BY <1>3

(* One round of the filter over the first n elements. *)
Keep(list, gone, k, n) ==
    [i \in 0..n |->
       IF i = 0 THEN << >>
       ELSE IF list[i] \in gone THEN k[i - 1] ELSE Append(k[i - 1], list[i])]

(* The recursion of the filter is well defined: were it not, there would be *)
(* a least length for which it is not.                                      *)
LEMMA KeepExists ==
  ASSUME NEW list, NEW gone, NEW n \in Nat
  PROVE  \E k : k = Keep(list, gone, k, n)
<1> DEFINE Bad == {m \in Nat : ~ \E k : k = Keep(list, gone, k, m)}
<1>1. SUFFICES ASSUME Bad # {} PROVE FALSE
  OBVIOUS
<1>2. PICK m \in Bad : \A j \in Bad : m <= j
  <2> Bad \subseteq Nat
    OBVIOUS
  <2> HIDE DEF Bad
  <2> QED BY <1>1, LeastNumber
<1>3. m \in Nat
  OBVIOUS
<1>4. CASE m = 0
  <2> DEFINE k == [i \in 0..0 |-> << >>]
  <2>1. k = Keep(list, gone, k, 0)
    BY DEF Keep
  <2> QED BY <2>1, <1>4
<1>5. CASE m # 0
  <2>1. m - 1 \in Nat /\ m - 1 \notin Bad
    BY <1>2, <1>3, <1>5
  <2>2. PICK k : k = Keep(list, gone, k, m - 1)
    BY <2>1
  <2> DEFINE h == [i \in 0..m |-> IF i = m
                     THEN IF list[m] \in gone THEN k[m - 1] ELSE Append(k[m - 1], list[m])
                     ELSE k[i]]
  <2>3. \A i \in 0..(m - 1) : k[i] = IF i = 0 THEN << >>
                 ELSE IF list[i] \in gone THEN k[i - 1] ELSE Append(k[i - 1], list[i])
    BY <2>2 DEF Keep
  <2>4. \A i \in 0..m : h[i] = IF i = 0 THEN << >>
                 ELSE IF list[i] \in gone THEN h[i - 1] ELSE Append(h[i - 1], list[i])
    BY <2>3, <1>3, <1>5
  <2>5. h = Keep(list, gone, h, m)
    <3>1. h = [i \in 0..m |-> h[i]]
      OBVIOUS
    <3> HIDE DEF h
    <3> QED BY <3>1, <2>4 DEF Keep
  <2> QED BY <2>5
<1> QED BY <1>4, <1>5

(* What is kept of the first n elements: w holds, in their order, exactly  *)
(* the elements at the positions pos, and those are all that are not gone. *)
Selects(list, gone, n, w, pos) ==
    /\ pos \in [1..Len(w) -> 1..n]
    /\ \A i \in 1..Len(w) : w[i] = list[pos[i]]
    /\ \A i, j \in 1..Len(w) : i < j => pos[i] < pos[j]
    /\ \A j \in 1..n : list[j] \notin gone <=> \E i \in 1..Len(w) : pos[i] = j

(* The filter keeps exactly what it should, in its order. *)
LEMMA FilterSelects ==
  ASSUME NEW S, NEW list \in Seq(S), NEW gone
  PROVE  /\ Without(list, gone) \in Seq(S)
         /\ \E pos : Selects(list, gone, Len(list), Without(list, gone), pos)
<1> DEFINE kept == CHOOSE k : k = Keep(list, gone, k, Len(list))
           Right(n) == kept[n] \in Seq(S) /\ \E pos : Selects(list, gone, n, kept[n], pos)
           Wrong == {n \in 0..Len(list) : ~Right(n)}
<1>0. Len(list) \in Nat /\ \A i \in 1..Len(list) : list[i] \in S
  BY LenProperties, ElementOfSeq
<1>1. Without(list, gone) = kept[Len(list)]
  BY Zenon DEF Without, Keep
<1>2. kept = Keep(list, gone, kept, Len(list))
  BY <1>0, KeepExists
<1>3. \A i \in 0..Len(list) : kept[i] = IF i = 0 THEN << >>
                 ELSE IF list[i] \in gone THEN kept[i - 1] ELSE Append(kept[i - 1], list[i])
  <2> HIDE DEF kept
  <2> QED BY <1>2 DEF Keep
<1> HIDE DEF kept
<1>4. Right(0)
  <2>1. kept[0] = << >>
    BY <1>3, <1>0
  <2>2. Selects(list, gone, 0, << >>, << >>)
    BY DEF Selects
  <2> QED BY <2>1, <2>2
<1>5. ASSUME NEW n \in 1..Len(list), Right(n - 1) PROVE Right(n)
  <2>0. n \in Nat /\ n - 1 \in Nat /\ n \in 0..Len(list) /\ n # 0
    BY <1>0
  <2> DEFINE v == kept[n - 1]
  <2>1. PICK pos : Selects(list, gone, n - 1, v, pos)
    BY <1>5
  <2>2. v \in Seq(S) /\ Len(v) \in Nat
    BY <1>5, LenProperties
  <2>3. CASE list[n] \in gone
    <3>1. kept[n] = v
      BY <1>3, <2>0, <2>3
    <3>2. Selects(list, gone, n, v, pos)
      <4> HIDE DEF v
      <4>1. pos \in [1..Len(v) -> 1..n]
        BY <2>1, <2>0 DEF Selects
      <4>2. \A j \in 1..n : list[j] \notin gone <=> \E i \in 1..Len(v) : pos[i] = j
        <5> SUFFICES ASSUME NEW j \in 1..n
                     PROVE  list[j] \notin gone <=> \E i \in 1..Len(v) : pos[i] = j
          OBVIOUS
        <5>1. CASE j = n
          BY <5>1, <2>1, <2>3, <2>0 DEF Selects
        <5>2. CASE j # n
          <6>1. j \in 1..(n - 1)
            BY <5>2, <2>0
          <6> QED BY <6>1, <2>1 DEF Selects
        <5> QED BY <5>1, <5>2
      <4> QED BY <4>1, <4>2, <2>1 DEF Selects
    <3> QED BY <3>1, <3>2, <2>2
  <2>4. CASE list[n] \notin gone
    <3> DEFINE w == Append(v, list[n])
               m == Len(v) + 1
               at == [i \in 1..m |-> IF i = m THEN n ELSE pos[i]]
    <3>1. kept[n] = w
      BY <1>3, <2>0, <2>4
    <3>2. /\ w \in Seq(S) /\ Len(w) = m
          /\ w[m] = list[n] /\ \A i \in 1..Len(v) : w[i] = v[i]
      BY <2>2, <1>0, AppendProperties
    <3>3. Selects(list, gone, n, w, at)
      <4> HIDE DEF v, w
      <4>0. m \in Nat /\ m \in 1..m
        BY <2>2
      <4>1. at \in [1..m -> 1..n]
        BY <2>1, <2>0, <2>2 DEF Selects
      <4>2. \A i \in 1..m : w[i] = list[at[i]]
        BY <2>1, <2>2, <3>2 DEF Selects
      <4>3. ASSUME NEW i \in 1..m, NEW j \in 1..m, i < j PROVE at[i] < at[j]
        <5>1. i \in 1..Len(v) /\ at[i] = pos[i] /\ pos[i] \in 1..(n - 1)
          BY <4>3, <2>1, <2>2 DEF Selects
        <5>2. CASE j = m
          BY <5>1, <5>2, <2>0
        <5>3. CASE j # m
          <6>1. j \in 1..Len(v) /\ at[j] = pos[j]
            BY <5>3, <2>2
          <6>2. pos[i] < pos[j]
            BY <5>1, <6>1, <4>3, <2>1 DEF Selects
          <6> QED BY <5>1, <6>1, <6>2
        <5> QED BY <5>2, <5>3
      <4>4. \A j \in 1..n : list[j] \notin gone <=> \E i \in 1..m : at[i] = j
        <5> SUFFICES ASSUME NEW j \in 1..n
                     PROVE  list[j] \notin gone <=> \E i \in 1..m : at[i] = j
          OBVIOUS
        <5>1. CASE j = n
          BY <5>1, <2>4, <4>0
        <5>2. CASE j # n
          <6>1. j \in 1..(n - 1)
            BY <5>2, <2>0
          <6>2. list[j] \notin gone <=> \E i \in 1..Len(v) : pos[i] = j
            BY <6>1, <2>1 DEF Selects
          <6>3. (\E i \in 1..Len(v) : pos[i] = j) <=> \E i \in 1..m : at[i] = j
            BY <5>2, <2>2, <4>0
          <6> QED BY <6>2, <6>3
        <5> QED BY <5>1, <5>2
      <4> QED BY <4>1, <4>2, <4>3, <4>4, <3>2 DEF Selects
    <3> QED BY <3>1, <3>2, <3>3
  <2> QED BY <2>3, <2>4
<1>6. Wrong = {}
  <2> SUFFICES ASSUME Wrong # {} PROVE FALSE
    OBVIOUS
  <2>1. PICK n \in Wrong : \A j \in Wrong : n <= j
    <3> Wrong \subseteq Nat
      OBVIOUS
    <3> HIDE DEF Wrong
    <3> QED BY LeastNumber
  <2>2. n \in 1..Len(list)
    BY <1>4, <1>0
  <2>3. n - 1 \notin Wrong /\ n - 1 \in 0..Len(list)
    <3> HIDE DEF Wrong
    <3> QED BY <2>1, <2>2, <1>0
  <2>4. Right(n - 1)
    BY <2>3
  <2> HIDE DEF Right
  <2> QED BY <2>2, <2>4, <1>5
<1> QED BY <1>0, <1>1, <1>6

(* The elements and the injectivity of a sequence, by position. *)
LEMMA SeqElements ==
  ASSUME NEW S, NEW s \in Seq(S)
  PROVE  /\ Len(s) \in Nat /\ DOMAIN s = 1..Len(s)
         /\ \A i \in 1..Len(s) : s[i] \in S /\ s[i] \in ToSet(s)
         /\ \A x \in ToSet(s) : \E i \in 1..Len(s) : s[i] = x
         /\ ToSet(s) \subseteq S
         /\ IsInjective(s) <=> \A i, j \in 1..Len(s) : s[i] = s[j] => i = j
<1>1. Len(s) \in Nat /\ DOMAIN s = 1..Len(s) /\ \A i \in 1..Len(s) : s[i] \in S
  BY LenProperties, ElementOfSeq
<1> QED BY <1>1 DEF ToSet, IsInjective

(* A filter keeps the elements that are not gone and repeats none. *)
LEMMA FilterElements ==
  ASSUME NEW S, NEW list \in Seq(S), NEW gone
  PROVE  /\ ToSet(Without(list, gone)) = ToSet(list) \ gone
         /\ IsInjective(list) => IsInjective(Without(list, gone))
<1> DEFINE w == Without(list, gone)
<1>1. w \in Seq(S)
  BY FilterSelects
<1>2. PICK pos : Selects(list, gone, Len(list), w, pos)
  BY FilterSelects
<1> HIDE DEF w
<1>3. Len(w) \in Nat /\ Len(list) \in Nat
  BY <1>1, LenProperties
<1>4. ToSet(w) \subseteq ToSet(list) \ gone
  <2> SUFFICES ASSUME NEW x \in ToSet(w) PROVE x \in ToSet(list) /\ x \notin gone
    OBVIOUS
  <2>1. PICK i \in 1..Len(w) : w[i] = x
    BY <1>1, SeqElements
  <2>2. pos[i] \in 1..Len(list) /\ x = list[pos[i]]
    BY <1>2, <2>1 DEF Selects
  <2>3. list[pos[i]] \notin gone
    BY <1>2, <2>2 DEF Selects
  <2> QED BY <2>2, <2>3, SeqElements
<1>5. ToSet(list) \ gone \subseteq ToSet(w)
  <2> SUFFICES ASSUME NEW x \in ToSet(list), x \notin gone PROVE x \in ToSet(w)
    OBVIOUS
  <2>1. PICK j \in 1..Len(list) : list[j] = x
    BY SeqElements
  <2>2. PICK i \in 1..Len(w) : pos[i] = j
    BY <1>2, <2>1 DEF Selects
  <2>3. w[i] = x
    BY <1>2, <2>1, <2>2 DEF Selects
  <2> QED BY <2>3, <1>1, SeqElements
<1>6. ASSUME IsInjective(list) PROVE IsInjective(w)
  <2> SUFFICES ASSUME NEW i \in 1..Len(w), NEW j \in 1..Len(w), w[i] = w[j] PROVE i = j
    BY <1>1, SeqElements
  <2>1. /\ pos[i] \in 1..Len(list) /\ pos[j] \in 1..Len(list)
        /\ list[pos[i]] = list[pos[j]]
    BY <1>2 DEF Selects
  <2>2. pos[i] = pos[j]
    BY <2>1, <1>6, SeqElements
  <2>3. ~(i < j) /\ ~(j < i)
    BY <2>1, <2>2, <1>2 DEF Selects
  <2> QED BY <2>3, <1>3
<1> QED BY <1>4, <1>5, <1>6 DEF w

-----------------------------------------------------------------------------
(* The retention's lists. *)

(* The snapshot just archived comes first, the others follow as they were. *)
LEMMA OrderedList ==
  ASSUME NEW S, NEW list \in Seq(S), NEW p \in S
  PROVE  /\ Ordered(list, p) \in Seq(S)
         /\ Len(Ordered(list, p)) = 1 + Len(Without(list, {p}))
         /\ Ordered(list, p)[1] = p
         /\ \A i \in 1..Len(Without(list, {p})) : Ordered(list, p)[i + 1] = Without(list, {p})[i]
<1> DEFINE w == Without(list, {p})
           o == Ordered(list, p)
<1>1. w \in Seq(S)
  BY FilterSelects
<1>2. o = <<p>> \o w
  BY DEF Ordered
<1> HIDE DEF w, o
<1>3. Len(w) \in Nat /\ <<p>> \in Seq(S) /\ Len(<<p>>) = 1 /\ <<p>>[1] = p
  BY <1>1, LenProperties
<1>4. /\ o \in Seq(S) /\ Len(o) = 1 + Len(w)
      /\ \A i \in 1..(1 + Len(w)) : o[i] = IF i <= 1 THEN <<p>>[i] ELSE w[i - 1]
  BY <1>1, <1>2, <1>3, ConcatProperties
<1>5. o[1] = p /\ \A i \in 1..Len(w) : o[i + 1] = w[i]
  BY <1>3, <1>4
<1> QED BY <1>4, <1>5 DEF w, o

(* No snapshot is listed twice and none is forgotten by the ordering. *)
LEMMA OrderedElements ==
  ASSUME NEW S, NEW list \in Seq(S), IsInjective(list), NEW p \in S
  PROVE  /\ IsInjective(Ordered(list, p))
         /\ ToSet(Ordered(list, p)) = ToSet(list) \cup {p}
<1> DEFINE w == Without(list, {p})
           o == Ordered(list, p)
<1>1. w \in Seq(S) /\ ToSet(w) = ToSet(list) \ {p} /\ IsInjective(w)
  BY FilterSelects, FilterElements
<1>2. /\ o \in Seq(S) /\ Len(o) = 1 + Len(w)
      /\ o[1] = p /\ \A i \in 1..Len(w) : o[i + 1] = w[i]
  BY OrderedList
<1> HIDE DEF w, o
<1>3. Len(w) \in Nat
  BY <1>1, LenProperties
<1>4. \A k \in 2..Len(o) : k - 1 \in 1..Len(w) /\ o[k] = w[k - 1]
  <2> SUFFICES ASSUME NEW k \in 2..Len(o) PROVE k - 1 \in 1..Len(w) /\ o[k] = w[k - 1]
    OBVIOUS
  <2>1. k - 1 \in 1..Len(w) /\ (k - 1) + 1 = k
    BY <1>2, <1>3
  <2> QED BY <2>1, <1>2
<1>5. \A k \in 2..Len(o) : o[k] # p
  BY <1>1, <1>4, SeqElements
<1>6. ASSUME NEW i \in 1..Len(o), NEW j \in 1..Len(o), o[i] = o[j] PROVE i = j
  <2>2. CASE i = 1 \/ j = 1
    BY <1>2, <1>3, <1>5, <1>6, <2>2
  <2>3. CASE i # 1 /\ j # 1
    <3>1. i \in 2..Len(o) /\ j \in 2..Len(o)
      BY <2>3, <1>2, <1>3
    <3>2. i - 1 \in 1..Len(w) /\ j - 1 \in 1..Len(w) /\ w[i - 1] = w[j - 1]
      BY <3>1, <1>4, <1>6
    <3>3. i - 1 = j - 1
      BY <3>2, <1>1, SeqElements
    <3> QED BY <3>1, <3>3
  <2> QED BY <2>2, <2>3
<1>7. IsInjective(o)
  BY <1>2, <1>6, SeqElements
<1>8. ToSet(o) = ToSet(list) \cup {p}
  <2>1. ASSUME NEW x \in ToSet(o) PROVE x \in ToSet(w) \cup {p}
    <3>1. PICK i \in 1..Len(o) : o[i] = x
      BY <1>2, SeqElements
    <3>2. CASE i = 1
      BY <3>1, <3>2, <1>2
    <3>3. CASE i # 1
      <4>1. i \in 2..Len(o)
        BY <3>3, <1>2, <1>3
      <4>2. i - 1 \in 1..Len(w) /\ o[i] = w[i - 1]
        BY <4>1, <1>4
      <4>3. \A j \in 1..Len(w) : w[j] \in ToSet(w)
        BY <1>1, SeqElements
      <4> QED BY <4>2, <4>3, <3>1
    <3> QED BY <3>2, <3>3
  <2>2. ASSUME NEW x \in ToSet(w) PROVE x \in ToSet(o)
    <3>1. PICK i \in 1..Len(w) : w[i] = x
      BY <1>1, SeqElements
    <3>2. i + 1 \in 1..Len(o) /\ o[i + 1] = x
      BY <3>1, <1>2, <1>3
    <3> QED BY <3>2, <1>2, SeqElements
  <2>3. p \in ToSet(o)
    <3>1. 1 \in 1..Len(o)
      BY <1>2, <1>3
    <3> QED BY <3>1, <1>2, SeqElements
  <2> QED BY <2>1, <2>2, <2>3, <1>1
<1> QED BY <1>7, <1>8 DEF o

(* The list is cut: what is kept and what is evicted share nothing and are *)
(* together what was there, the newest being kept if anything is.          *)
LEMMA CutList ==
  ASSUME NEW S, NEW list \in Seq(S), IsInjective(list), NEW p \in S, NEW n \in Nat
  PROVE  /\ Kept(list, p, n) \in Seq(S) /\ Evicted(list, p, n) \in Seq(S)
         /\ IsInjective(Kept(list, p, n)) /\ IsInjective(Evicted(list, p, n))
         /\ Len(Kept(list, p, n)) = IF n < Len(Ordered(list, p)) THEN n ELSE Len(Ordered(list, p))
         /\ \A i \in 1..Len(Kept(list, p, n)) : Kept(list, p, n)[i] = Ordered(list, p)[i]
         /\ ToSet(Kept(list, p, n)) \cup ToSet(Evicted(list, p, n)) = ToSet(list) \cup {p}
         /\ ToSet(Kept(list, p, n)) \cap ToSet(Evicted(list, p, n)) = {}
         /\ n > 0 => /\ Kept(list, p, n) # << >> /\ Head(Kept(list, p, n)) = p
                     /\ p \notin ToSet(Evicted(list, p, n))
<1> DEFINE o == Ordered(list, p)
           k == Kept(list, p, n)
           e == Evicted(list, p, n)
           m == IF n < Len(o) THEN n ELSE Len(o)
<1>1. o \in Seq(S) /\ IsInjective(o) /\ ToSet(o) = ToSet(list) \cup {p} /\ o[1] = p
  <2>1. o \in Seq(S) /\ o[1] = p
    BY OrderedList
  <2>2. IsInjective(o) /\ ToSet(o) = ToSet(list) \cup {p}
    BY OrderedElements
  <2> QED BY <2>1, <2>2
<1>2. Len(o) \in Nat /\ Len(o) >= 1
  <2>1. Without(list, {p}) \in Seq(S)
    BY FilterSelects
  <2> QED BY <2>1, OrderedList, LenProperties
<1>3. k = SubSeq(o, 1, m) /\ e = SubSeq(o, n + 1, Len(o))
  BY DEF Kept, First, Evicted
<1> HIDE DEF o, k, e
<1>4. m \in Nat /\ m <= Len(o) /\ m <= n /\ (m < Len(o) => m = n)
  BY <1>2
<1> HIDE DEF m
<1>5. \A i \in 1..Len(o) : o[i] \in S
  BY <1>1, ElementOfSeq
<1>6. k \in Seq(S) /\ Len(k) = m /\ \A i \in 1..m : k[i] = o[i]
  <2>1. \A i \in 1..m : o[i] \in S
    BY <1>2, <1>4, <1>5
  <2>2. /\ SubSeq(o, 1, m) \in Seq(S)
        /\ Len(SubSeq(o, 1, m)) = IF 1 <= m THEN m - 1 + 1 ELSE 0
        /\ \A i \in 1..(m - 1 + 1) : SubSeq(o, 1, m)[i] = o[1 + i - 1]
    BY <2>1, <1>4, SubSeqProperties
  <2> QED BY <2>2, <1>3, <1>4
<1>7. /\ e \in Seq(S)
      /\ Len(e) = IF n < Len(o) THEN Len(o) - n ELSE 0
      /\ \A i \in 1..Len(e) : e[i] = o[n + i]
  <2>1. \A i \in (n + 1)..Len(o) : o[i] \in S
    BY <1>2, <1>5
  <2>2. /\ SubSeq(o, n + 1, Len(o)) \in Seq(S)
        /\ Len(SubSeq(o, n + 1, Len(o))) = IF n + 1 <= Len(o) THEN Len(o) - (n + 1) + 1 ELSE 0
        /\ \A i \in 1..(Len(o) - (n + 1) + 1) : SubSeq(o, n + 1, Len(o))[i] = o[n + 1 + i - 1]
    <3>1. n + 1 \in Int /\ Len(o) \in Int
      BY <1>2
    <3> QED BY <2>1, <3>1, SubSeqProperties
  <2>3. Len(e) = IF n < Len(o) THEN Len(o) - n ELSE 0
    BY <2>2, <1>2, <1>3
  <2>4. \A i \in 1..Len(e) : i \in 1..(Len(o) - (n + 1) + 1) /\ n + 1 + i - 1 = n + i
    BY <2>3, <1>2
  <2> QED BY <2>2, <2>3, <2>4, <1>3
<1>8. \A i, j \in 1..Len(o) : o[i] = o[j] => i = j
  BY <1>1, SeqElements
<1>9. IsInjective(k)
  <2>1. \A i \in 1..Len(k) : i \in 1..Len(o) /\ k[i] = o[i]
    BY <1>2, <1>4, <1>6
  <2> QED BY <2>1, <1>6, <1>8, SeqElements
<1>10. \A i \in 1..Len(e) : n + i \in 1..Len(o)
  BY <1>2, <1>7
<1>11. IsInjective(e)
  <2>1. ASSUME NEW i \in 1..Len(e), NEW j \in 1..Len(e), e[i] = e[j] PROVE i = j
    <3>1. n + i = n + j
      BY <2>1, <1>7, <1>8, <1>10
    <3>2. i \in Nat /\ j \in Nat
      BY <1>7, LenProperties
    <3> QED BY <3>1, <3>2
  <2> QED BY <2>1, <1>7, SeqElements
<1>12. \A x : x \in ToSet(k) <=> \E i \in 1..m : o[i] = x
  <2>1. \A x : x \in ToSet(k) <=> \E i \in 1..Len(k) : k[i] = x
    BY <1>6, SeqElements
  <2> QED BY <2>1, <1>6
<1>13. \A x : x \in ToSet(e) <=> \E i \in 1..Len(e) : o[n + i] = x
  <2>1. \A x : x \in ToSet(e) <=> \E i \in 1..Len(e) : e[i] = x
    BY <1>7, SeqElements
  <2> QED BY <2>1, <1>7
<1>14. ASSUME NEW x \in ToSet(o) PROVE x \in ToSet(k) \cup ToSet(e)
  <2>1. PICK i \in 1..Len(o) : o[i] = x
    BY <1>1, SeqElements
  <2>2. CASE i <= m
    <3>1. i \in 1..m
      BY <2>2, <1>2, <1>4
    <3> QED BY <2>1, <3>1, <1>12
  <2>3. CASE ~(i <= m)
    <3>1. i - n \in 1..Len(e) /\ n + (i - n) = i
      BY <2>3, <1>2, <1>4, <1>7
    <3> QED BY <2>1, <3>1, <1>13
  <2> QED BY <2>2, <2>3
<1>15. ToSet(k) \subseteq ToSet(o) /\ ToSet(e) \subseteq ToSet(o)
  <2>1. \A i \in 1..m : i \in 1..Len(o)
    BY <1>2, <1>4
  <2>2. \A i \in 1..Len(o) : o[i] \in ToSet(o)
    BY <1>1, SeqElements
  <2> QED BY <2>1, <2>2, <1>10, <1>12, <1>13
<1>16. ToSet(k) \cap ToSet(e) = {}
  <2> SUFFICES ASSUME NEW i \in 1..m, NEW j \in 1..Len(e), o[i] = o[n + j] PROVE FALSE
    BY <1>12, <1>13
  <2>1. i \in 1..Len(o) /\ n + j \in 1..Len(o)
    BY <1>2, <1>4, <1>10
  <2>2. i = n + j
    BY <2>1, <1>8
  <2> QED BY <2>2, <1>4, <1>7
<1>17. ASSUME n > 0 PROVE k # << >> /\ Head(k) = p /\ p \notin ToSet(e)
  <2>1. m >= 1
    BY <1>2, <1>17 DEF m
  <2>2. 1 \in 1..m /\ k[1] = p
    BY <2>1, <1>1, <1>4, <1>6
  <2>3. k # << >>
    BY <2>1, <1>6
  <2>4. Head(k) = k[1]
    BY <2>3, <1>6
  <2>5. p \in ToSet(k)
    BY <2>2, <1>1, <1>12
  <2> QED BY <2>2, <2>3, <2>4, <2>5, <1>16
<1> QED BY <1>1, <1>6, <1>7, <1>9, <1>11, <1>14, <1>15, <1>16, <1>17 DEF o, k, e, m

-----------------------------------------------------------------------------
(* The snapshots' index and what its runs know of it. *)

(* An idle call is fresh, a busy one has its snapshot and its limit, the   *)
(* dashboard parses the report of a snapshot, and nothing was ever listed  *)
(* twice, here or in what a call has read.                                 *)
ListInv ==
    /\ IsInjective(index.list)
    /\ reader.pc = "parsing" => reader.list # << >>
    /\ \A r \in Run : /\ IsInjective(run[r].seen)
                      /\ At(r, "idle") => run[r] = NotStarted
                      /\ run[r].pc \in Busy => run[r].pair \in Pair /\ run[r].limit \in Limits

BaseInv == TypeOK /\ ListInv

(* The parts of the type invariant. *)
Files == [state : {"absent", "torn", "whole"}, list : Seq(Pair)]
Shelved == [dir : BOOLEAN, report : BOOLEAN, record : {"none", "torn", "report", "bare"}]
Calls == [pc : Busy \cup {"idle", "done", "failed", "gone"}, pair : Pair \cup {None},
          limit : Nat, made : BOOLEAN, seen : Seq(Pair), todo : Seq(Pair), clash : BOOLEAN]
Builds == [pc : {"idle", "walking", "parsing", "built", "threw", "gone"},
           list : Seq(Pair), raced : BOOLEAN]
Types ==
    /\ index \in Files /\ shelf \in [Pair -> Shelved] /\ run \in [Run -> Calls]
    /\ reader \in Builds /\ orderly \in BOOLEAN /\ lone \in Run \cup {None}

LEMMA TypeParts == (TypeOK <=> Types) /\ (TypeOK' <=> Types')
BY DEF TypeOK, Types, Files, Shelved, Calls, Builds

(* A call that has ended, or been given up. *)
LEMMA EndedCall ==
  ASSUME NEW l \in Busy \cup {"idle", "done", "failed", "gone"}
  PROVE  [NotStarted EXCEPT !.pc = l] \in Calls
<1>1. << >> \in Seq(Pair)
  BY EmptySeq
<1>2. \A s \in Seq(Pair) :
         [[pc |-> "idle", pair |-> None, limit |-> 0, made |-> FALSE,
           seen |-> s, todo |-> s, clash |-> FALSE] EXCEPT !.pc = l] \in Calls
  BY DEF Calls
<1> QED BY <1>1, <1>2 DEF NotStarted

LEMMA EmptyInjective == IsInjective(<< >>)
BY DEF IsInjective

LEMMA BaseInit == Init => BaseInv
<1> SUFFICES ASSUME Init PROVE BaseInv
  OBVIOUS
<1>1. TypeOK
  BY DEF Init, TypeOK, NotStarted, Empty
<1>2. ListInv
  BY EmptyInjective DEF Init, ListInv, NotStarted, At, Busy
<1> QED BY <1>1, <1>2 DEF BaseInv

(* Every step keeps the types. *)
LEMMA TypeStep == BaseInv /\ [Next]_vars => Types'
<1> SUFFICES ASSUME BaseInv, [Next]_vars PROVE Types'
  OBVIOUS
<1>0. Types /\ ListInv
  BY TypeParts DEF BaseInv
<1> USE LimitsAssumption
<1>1. ASSUME NEW r \in Run, Start(r) PROVE Types'
  <2>1. PICK p \in Pair, n \in Limits, m \in BOOLEAN :
           run' = [run EXCEPT ![r] = [@ EXCEPT !.pc = "copying", !.pair = p, !.limit = n, !.made = m]]
    BY <1>1 DEF Start
  <2>2. [run[r] EXCEPT !.pc = "copying", !.pair = p, !.limit = n, !.made = m] \in Calls
    BY <1>0 DEF Types, Calls, Busy
  <2>3. run' \in [Run -> Calls]
    BY <2>1, <2>2, <1>0 DEF Types
  <2> QED BY <2>3, <1>1, <1>0 DEF Start, Types
<1>2. ASSUME NEW r \in Run, Copy(r) PROVE Types'
  <2>1. [run[r] EXCEPT !.pc = "recording"] \in Calls
    BY <1>0 DEF Types, Calls, Busy
  <2>2. run' \in [Run -> Calls]
    BY <2>1, <1>2, <1>0 DEF Copy, Types
  <2>3. run[r].pair \in Pair /\ run[r].made \in BOOLEAN
    BY <1>2, <1>0 DEF Copy, At, ListInv, Types, Calls, Busy
  <2>4. [shelf[run[r].pair] EXCEPT !.dir = TRUE, !.report = shelf[run[r].pair].report \/ run[r].made] \in Shelved
    BY <2>3, <1>0 DEF Types, Shelved
  <2>5. shelf' \in [Pair -> Shelved]
    <3> DEFINE x == [shelf[run[r].pair] EXCEPT !.dir = TRUE, !.report = shelf[run[r].pair].report \/ run[r].made]
    <3>1. shelf' = [shelf EXCEPT ![run[r].pair] = x]
      BY <1>2 DEF Copy
    <3>2. x \in Shelved
      BY <2>4
    <3> HIDE DEF x
    <3> QED BY <3>1, <3>2, <2>3, <1>0 DEF Types
  <2> QED BY <2>2, <2>5, <1>2, <1>0 DEF Copy, Types
<1>3. ASSUME NEW r \in Run, WriteRecord(r) PROVE Types'
  <2>1. [run[r] EXCEPT !.pc = "listing", !.made = FALSE] \in Calls
    BY <1>0 DEF Types, Calls, Busy
  <2>2. run' \in [Run -> Calls]
    BY <2>1, <1>3, <1>0 DEF WriteRecord, Types
  <2>3. \A p \in Pair : [shelf[p] EXCEPT !.record = IF run[r].made THEN "report" ELSE "bare"] \in Shelved
    BY <1>0 DEF Types, Shelved
  <2>4. shelf' \in [Pair -> Shelved]
    BY <2>3, <1>3, <1>0 DEF WriteRecord, Types
  <2> QED BY <2>2, <2>4, <1>3, <1>0 DEF WriteRecord, Types
<1>4. ASSUME NEW r \in Run, ReadIndex(r) PROVE Types'
  <2>1. Parsed \in Seq(Pair)
    BY <1>0 DEF Parsed, Types, Files
  <2>2. [run[r] EXCEPT !.pc = "opening", !.seen = Parsed] \in Calls
    BY <2>1, <1>0 DEF Types, Calls, Busy
  <2>3. run' \in [Run -> Calls]
    BY <2>2, <1>4, <1>0 DEF ReadIndex, Types
  <2> QED BY <2>3, <1>4, <1>0 DEF ReadIndex, Types
<1>5. ASSUME NEW r \in Run, OpenIndex(r) PROVE Types'
  <2>1. \A q \in Run, l \in Busy, b \in BOOLEAN : [run[q] EXCEPT !.pc = l, !.clash = b] \in Calls
    BY <1>0 DEF Types, Calls
  <2>2. run' \in [Run -> Calls]
    <3> SUFFICES ASSUME NEW q \in Run PROVE run'[q] \in Calls
      BY <1>5 DEF OpenIndex
    <3>1. run[q] \in Calls
      BY <1>0 DEF Types
    <3>2. run'[q] = [run[q] EXCEPT !.pc = IF q = r THEN "writing" ELSE @,
                                   !.clash = @ \/ (q # r /\ At(q, "writing"))
                                               \/ (q = r /\ \E s \in Run \ {r} : At(s, "writing"))]
      BY <1>5 DEF OpenIndex
    <3> QED BY <3>1, <3>2 DEF Calls, Busy
  <2>3. index' \in Files
    BY <1>5, <1>0 DEF OpenIndex, Types, Files
  <2> QED BY <2>2, <2>3, <1>5, <1>0 DEF OpenIndex, Types
<1>6. ASSUME NEW r \in Run, CloseIndex(r) PROVE Types'
  <2> DEFINE k == Kept(run[r].seen, run[r].pair, run[r].limit)
             e == Evicted(run[r].seen, run[r].pair, run[r].limit)
  <2>1. /\ run[r].seen \in Seq(Pair) /\ IsInjective(run[r].seen)
        /\ run[r].pair \in Pair /\ run[r].limit \in Nat
    BY <1>6, <1>0 DEF CloseIndex, Types, Calls, ListInv, At, Busy
  <2>2. k \in Seq(Pair) /\ e \in Seq(Pair)
    BY <2>1, CutList
  <2>3. /\ \E state \in {"whole", "torn"} : index' = [state |-> state, list |-> k]
        /\ run' = [run EXCEPT ![r] = [@ EXCEPT !.pc = "collecting", !.seen = << >>,
                                               !.clash = FALSE, !.todo = e]]
    BY <1>6 DEF CloseIndex
  <2> HIDE DEF k, e
  <2>4. [run[r] EXCEPT !.pc = "collecting", !.seen = << >>, !.clash = FALSE, !.todo = e] \in Calls
    <3>1. \A s, t \in Seq(Pair) :
             [run[r] EXCEPT !.pc = "collecting", !.seen = s, !.clash = FALSE, !.todo = t] \in Calls
      BY <1>0 DEF Types, Calls, Busy
    <3> QED BY <3>1, <2>2, EmptySeq
  <2>5. run' \in [Run -> Calls]
    BY <2>3, <2>4, <1>0 DEF Types
  <2>6. index' \in Files
    BY <2>2, <2>3 DEF Files
  <2> QED BY <2>5, <2>6, <1>6, <1>0 DEF CloseIndex, Types
<1>7. ASSUME NEW r \in Run, Collect(r) PROVE Types'
  <2>1. run[r].todo \in Seq(Pair) /\ run[r].todo # << >>
    BY <1>7, <1>0 DEF Collect, Types, Calls
  <2>2. Tail(run[r].todo) \in Seq(Pair)
    BY <2>1
  <2>3. [run[r] EXCEPT !.todo = Tail(@)] \in Calls
    BY <2>2, <1>0 DEF Types, Calls
  <2>4. run' \in [Run -> Calls]
    BY <2>3, <1>7, <1>0 DEF Collect, Types
  <2>5. shelf' \in [Pair -> Shelved]
    BY <1>7, <1>0 DEF Collect, Types, Shelved, Empty
  <2>6. reader' \in Builds
    BY <1>7, <1>0 DEF Collect, Types, Builds
  <2> QED BY <2>4, <2>5, <2>6, <1>7, <1>0 DEF Collect, Types
<1>8. ASSUME NEW r \in Run, Finish(r) PROVE Types'
  <2>1. [run[r] EXCEPT !.pc = "done"] \in Calls
    BY <1>0 DEF Types, Calls
  <2>2. run' \in [Run -> Calls]
    BY <2>1, <1>8, <1>0 DEF Finish, Types
  <2> QED BY <2>2, <1>8, <1>0 DEF Finish, Types
<1>9. ASSUME NEW r \in Run, Fails(r) PROVE Types'
  <2>1. [NotStarted EXCEPT !.pc = "failed"] \in Calls
    BY EndedCall
  <2>2. run' \in [Run -> Calls]
    BY <2>1, <1>9, <1>0 DEF Fails, Types
  <2> QED BY <2>2, <1>9, <1>0 DEF Fails, Types
<1>10. ASSUME Crash PROVE Types'
  <2>1. [NotStarted EXCEPT !.pc = "gone"] \in Calls
    BY EndedCall
  <2>2. run' \in [Run -> Calls]
    BY <2>1, <1>10, <1>0 DEF Crash, Types
  <2>3. \A p \in Pair : [shelf[p] EXCEPT !.record = "torn"] \in Shelved
    BY <1>0 DEF Types, Shelved
  <2>4. shelf' \in [Pair -> Shelved]
    BY <2>3, <1>10, <1>0 DEF Crash, Types
  <2>5. [reader EXCEPT !.pc = "gone", !.list = << >>] \in Builds
    <3>1. \A s \in Seq(Pair) : [reader EXCEPT !.pc = "gone", !.list = s] \in Builds
      BY <1>0 DEF Types, Builds
    <3> QED BY <3>1, EmptySeq
  <2>6. reader' \in Builds
    BY <2>5, <1>10, <1>0 DEF Crash, Types
  <2> QED BY <2>2, <2>4, <2>6, <1>10, <1>0 DEF Crash, Types
<1>11. ASSUME BeginBuild \/ Visit \/ Parse \/ Built PROVE Types'
  <2>1. Parsed \in Seq(Pair)
    BY <1>0, EmptySeq DEF Parsed, Types, Files
  <2>2. reader.list # << >> => Tail(reader.list) \in Seq(Pair)
    BY <1>0 DEF Types, Builds
  <2>3. \A l \in {"walking", "parsing", "built", "threw"} :
           /\ [reader EXCEPT !.pc = l] \in Builds
           /\ \A s \in Seq(Pair) : [reader EXCEPT !.pc = l, !.list = s] \in Builds
    BY <1>0 DEF Types, Builds
  <2>4. \A s \in Seq(Pair) : [reader EXCEPT !.list = s] \in Builds
    BY <1>0 DEF Types, Builds
  <2>5. reader' \in Builds
    <3>1. CASE BeginBuild
      BY <3>1, <2>1, <2>3 DEF BeginBuild
    <3>2. CASE Visit
      BY <3>2, <2>2, <2>3, <2>4 DEF Visit
    <3>3. CASE Parse
      BY <3>3, <2>2, <2>3, <1>0 DEF Parse, ListInv
    <3>4. CASE Built
      BY <3>4, <2>3 DEF Built
    <3> QED BY <3>1, <3>2, <3>3, <3>4, <1>11
  <2> QED BY <2>5, <1>11, <1>0 DEF BeginBuild, Visit, Parse, Built, Types
<1>12. ASSUME UNCHANGED vars PROVE Types'
  BY <1>12, <1>0 DEF vars, Types
<1> QED BY <1>1, <1>2, <1>3, <1>4, <1>5, <1>6, <1>7, <1>8, <1>9, <1>10, <1>11, <1>12 DEF Next, Idle

(* Every step keeps the rest. *)
LEMMA ListStep == BaseInv /\ [Next]_vars => ListInv'
<1> SUFFICES ASSUME BaseInv, [Next]_vars PROVE ListInv'
  OBVIOUS
<1>0. Types /\ ListInv
  BY TypeParts DEF BaseInv
<1> USE LimitsAssumption DEF At
(* One call moves, and the rest of the store stays as it is. *)
<1>a. ASSUME NEW r \in Run, NEW c, run' = [run EXCEPT ![r] = c], IsInjective(c.seen),
             c.pc # "idle", c.pc \in Busy => c.pair \in Pair /\ c.limit \in Limits
      PROVE  \A q \in Run : /\ IsInjective(run'[q].seen)
                            /\ run'[q].pc = "idle" => run'[q] = NotStarted
                            /\ run'[q].pc \in Busy => run'[q].pair \in Pair /\ run'[q].limit \in Limits
  <2> SUFFICES ASSUME NEW q \in Run
               PROVE  /\ IsInjective(run'[q].seen)
                      /\ run'[q].pc = "idle" => run'[q] = NotStarted
                      /\ run'[q].pc \in Busy => run'[q].pair \in Pair /\ run'[q].limit \in Limits
    OBVIOUS
  <2>1. run'[q] = IF q = r THEN c ELSE run[q]
    BY <1>a, <1>0 DEF Types
  <2> QED BY <2>1, <1>a, <1>0 DEF ListInv
<1>1. ASSUME NEW r \in Run, Start(r) PROVE ListInv'
  <2>1. PICK p \in Pair, n \in Limits, m \in BOOLEAN :
           run' = [run EXCEPT ![r] = [@ EXCEPT !.pc = "copying", !.pair = p, !.limit = n, !.made = m]]
    BY <1>1 DEF Start
  <2> DEFINE c == [run[r] EXCEPT !.pc = "copying", !.pair = p, !.limit = n, !.made = m]
  <2>2. c.seen = run[r].seen /\ c.pc = "copying" /\ c.pair = p /\ c.limit = n
    BY <1>0 DEF Types, Calls
  <2>3. run' = [run EXCEPT ![r] = c]
    BY <2>1
  <2> HIDE DEF c
  <2> QED BY <2>2, <2>3, <1>a, <1>1, <1>0 DEF Start, ListInv
<1>2. ASSUME NEW r \in Run, NEW l, run[r].pc \in Busy, l # "idle", run' = [run EXCEPT ![r].pc = l],
             UNCHANGED <<index, reader>>
      PROVE  ListInv'
  <2> DEFINE c == [run[r] EXCEPT !.pc = l]
  <2>1. c.seen = run[r].seen /\ c.pc = l /\ c.pair = run[r].pair /\ c.limit = run[r].limit
    BY <1>0 DEF Types, Calls
  <2>2. run' = [run EXCEPT ![r] = c]
    BY <1>2
  <2> HIDE DEF c
  <2> QED BY <2>1, <2>2, <1>a, <1>2, <1>0 DEF ListInv
<1>3. ASSUME NEW r \in Run, Copy(r) PROVE ListInv'
  BY <1>2, <1>3 DEF Copy, Busy
<1>4. ASSUME NEW r \in Run, WriteRecord(r) PROVE ListInv'
  <2> DEFINE c == [run[r] EXCEPT !.pc = "listing", !.made = FALSE]
  <2>1. c.seen = run[r].seen /\ c.pc = "listing" /\ c.pair = run[r].pair /\ c.limit = run[r].limit
    BY <1>0 DEF Types, Calls
  <2>2. run' = [run EXCEPT ![r] = c]
    BY <1>4 DEF WriteRecord
  <2> HIDE DEF c
  <2> QED BY <2>1, <2>2, <1>a, <1>4, <1>0 DEF WriteRecord, ListInv, Busy
<1>5. ASSUME NEW r \in Run, ReadIndex(r) PROVE ListInv'
  <2> DEFINE c == [run[r] EXCEPT !.pc = "opening", !.seen = Parsed]
  <2>1. c.seen = Parsed /\ c.pc = "opening" /\ c.pair = run[r].pair /\ c.limit = run[r].limit
    BY <1>0 DEF Types, Calls
  <2>2. run' = [run EXCEPT ![r] = c]
    BY <1>5 DEF ReadIndex
  <2>3. IsInjective(Parsed)
    BY <1>0, EmptyInjective DEF Parsed, ListInv
  <2> HIDE DEF c
  <2> QED BY <2>1, <2>2, <2>3, <1>a, <1>5, <1>0 DEF ReadIndex, ListInv, Busy
<1>6. ASSUME NEW r \in Run, OpenIndex(r) PROVE ListInv'
  <2>1. index'.list = index.list /\ reader' = reader
    BY <1>6, <1>0 DEF OpenIndex, Types, Files
  <2>2. ASSUME NEW q \in Run
        PROVE  /\ run'[q].seen = run[q].seen /\ run'[q].pair = run[q].pair /\ run'[q].limit = run[q].limit
               /\ run'[q].pc = IF q = r THEN "writing" ELSE run[q].pc
               /\ At(q, "idle") => run'[q] = run[q]
    <3>1. run[q] \in Calls
      BY <1>0 DEF Types
    <3>2. run'[q] = [run[q] EXCEPT !.pc = IF q = r THEN "writing" ELSE @,
                                   !.clash = @ \/ (q # r /\ At(q, "writing"))
                                               \/ (q = r /\ \E s \in Run \ {r} : At(s, "writing"))]
      BY <1>6 DEF OpenIndex
    <3>3. /\ run'[q].seen = run[q].seen /\ run'[q].pair = run[q].pair /\ run'[q].limit = run[q].limit
          /\ run'[q].pc = IF q = r THEN "writing" ELSE run[q].pc
      BY <3>1, <3>2 DEF Calls
    <3>4. ASSUME At(q, "idle") PROVE run'[q] = run[q]
      <4>1. q # r /\ ~At(q, "writing")
        BY <3>4, <1>6 DEF OpenIndex
      <4>2. run'[q] = [run[q] EXCEPT !.pc = run[q].pc, !.clash = run[q].clash]
        <5>1. (run[q].clash \/ (q # r /\ At(q, "writing"))
                 \/ (q = r /\ \E s \in Run \ {r} : At(s, "writing"))) = run[q].clash
          BY <4>1, <3>1 DEF Calls
        <5> QED BY <5>1, <4>1, <3>2
      <4> QED BY <4>2, <3>1 DEF Calls
    <3> QED BY <3>3, <3>4
  <2>3. At(r, "opening")
    BY <1>6 DEF OpenIndex
  <2> QED BY <2>1, <2>2, <2>3, <1>0 DEF ListInv, Busy
<1>7. ASSUME NEW r \in Run, CloseIndex(r) PROVE ListInv'
  <2> DEFINE k == Kept(run[r].seen, run[r].pair, run[r].limit)
             e == Evicted(run[r].seen, run[r].pair, run[r].limit)
             c == [run[r] EXCEPT !.pc = "collecting", !.seen = << >>, !.clash = FALSE, !.todo = e]
  <2>1. /\ run[r].seen \in Seq(Pair) /\ IsInjective(run[r].seen)
        /\ run[r].pair \in Pair /\ run[r].limit \in Limits /\ run[r].limit \in Nat
    BY <1>7, <1>0 DEF CloseIndex, Types, Calls, ListInv, Busy
  <2>2. IsInjective(k)
    BY <2>1, CutList
  <2>3. /\ index'.list = k /\ reader' = reader /\ run' = [run EXCEPT ![r] = c]
    BY <1>7 DEF CloseIndex
  <2>4. c.seen = << >> /\ c.pc = "collecting" /\ c.pair = run[r].pair /\ c.limit = run[r].limit
    BY <1>0 DEF Types, Calls
  <2> HIDE DEF k, e, c
  <2> QED BY <2>1, <2>2, <2>3, <2>4, <1>a, <1>0, EmptyInjective DEF ListInv
<1>8. ASSUME NEW r \in Run, Collect(r) PROVE ListInv'
  <2> DEFINE c == [run[r] EXCEPT !.todo = Tail(@)]
  <2>1. c.seen = run[r].seen /\ c.pc = "collecting" /\ c.pair = run[r].pair /\ c.limit = run[r].limit
    BY <1>0, <1>8 DEF Types, Calls, Collect
  <2>2. run' = [run EXCEPT ![r] = c]
    BY <1>8 DEF Collect
  <2>3. reader'.pc = reader.pc /\ reader'.list = reader.list
    BY <1>8, <1>0 DEF Collect, Types, Builds
  <2> HIDE DEF c
  <2> QED BY <2>1, <2>2, <2>3, <1>a, <1>8, <1>0 DEF Collect, ListInv, Busy
<1>9. ASSUME NEW r \in Run, Finish(r) PROVE ListInv'
  <2>1. /\ run[r].pc \in Busy /\ run' = [run EXCEPT ![r].pc = "done"]
        /\ UNCHANGED <<index, reader>>
    BY <1>9 DEF Finish, Busy
  <2> QED BY <2>1, <1>2
<1>10. ASSUME NEW r \in Run, Fails(r) PROVE ListInv'
  <2> DEFINE c == [NotStarted EXCEPT !.pc = "failed"]
  <2>1. c.seen = << >> /\ c.pc = "failed"
    BY DEF NotStarted
  <2>2. run' = [run EXCEPT ![r] = c]
    BY <1>10 DEF Fails
  <2> HIDE DEF c
  <2> QED BY <2>1, <2>2, <1>a, <1>10, <1>0, EmptyInjective DEF Fails, ListInv, Busy
<1>11. ASSUME Crash PROVE ListInv'
  <2> DEFINE c == [NotStarted EXCEPT !.pc = "gone"]
  <2>1. c.seen = << >> /\ c.pc = "gone"
    BY DEF NotStarted
  <2>2. run' = [r \in Run |-> IF r \in InFlight THEN c ELSE run[r]]
    BY <1>11 DEF Crash
  <2>3. reader'.pc = "parsing" => reader' = reader
    BY <1>11, <1>0 DEF Crash, Types, Builds
  <2> HIDE DEF c
  <2> QED BY <2>1, <2>2, <2>3, <1>11, <1>0, EmptyInjective DEF Crash, ListInv, InFlight, Busy
<1>12. ASSUME BeginBuild \/ Visit \/ Parse \/ Built PROVE ListInv'
  <2>1. index' = index /\ run' = run
    BY <1>12 DEF BeginBuild, Visit, Parse, Built
  <2>2. reader'.pc = "parsing" => reader'.list # << >>
    BY <1>12, <1>0 DEF BeginBuild, Visit, Parse, Built, Types, Builds
  <2> QED BY <2>1, <2>2, <1>0 DEF ListInv
<1>13. ASSUME UNCHANGED vars PROVE ListInv'
  BY <1>13, <1>0 DEF vars, ListInv
<1> QED BY <1>1, <1>3, <1>4, <1>5, <1>6, <1>7, <1>8, <1>9, <1>10, <1>11, <1>12, <1>13 DEF Next, Idle

LEMMA BaseInvariant == Spec => []BaseInv
<1>1. BaseInv /\ [Next]_vars => BaseInv'
  BY TypeStep, ListStep, TypeParts DEF BaseInv
<1> QED BY <1>1, BaseInit, PTL DEF Spec

(* Index, shelf, calls and the dashboard have their types after any crash  *)
(* and overlap.                                                            *)
THEOREM SnapshotTypes == Spec => []TypeOK
<1>1. BaseInv => TypeOK
  BY DEF BaseInv
<1> QED BY <1>1, BaseInvariant, PTL

(* A snapshot is listed once, however the archiving runs overlap, fail and *)
(* die: what a run writes is what some run had read, its own snapshot put  *)
(* first.                                                                  *)
THEOREM SnapshotListedOnce == Spec => []ListedOnce
<1>1. BaseInv => ListedOnce
  BY DEF BaseInv, ListInv, ListedOnce
<1> QED BY <1>1, BaseInvariant, PTL

-----------------------------------------------------------------------------
(* The dashboard. *)

(* It parses a report that is there, unless a run has removed a directory  *)
(* during its build.                                                       *)
DashboardInv ==
    /\ DashboardIsFailSoft
    /\ reader.pc = "parsing" /\ ~reader.raced => shelf[Head(reader.list)].report

LEMMA DashboardStep == BaseInv /\ DashboardInv /\ [Next]_vars => DashboardInv'
<1> SUFFICES ASSUME BaseInv, DashboardInv, [Next]_vars PROVE DashboardInv'
  OBVIOUS
<1>0. Types /\ ListInv
  BY TypeParts DEF BaseInv
<1>0a. reader.pc = "parsing" => Head(reader.list) \in Pair
  BY <1>0 DEF Types, Builds, ListInv
<1> USE DEF DashboardInv, DashboardIsFailSoft
<1>1. ASSUME NEW r \in Run, Copy(r) PROVE DashboardInv'
  <2>1. \A p \in Pair : shelf'[p].report = shelf[p].report \/ shelf'[p].report
    BY <1>1, <1>0 DEF Copy, Types, Shelved
  <2>2. \A p \in Pair : shelf[p].report => shelf'[p].report
    BY <1>1, <1>0 DEF Copy, Types, Shelved
  <2> QED BY <2>2, <1>1, <1>0a DEF Copy
<1>2. ASSUME NEW r \in Run, WriteRecord(r) PROVE DashboardInv'
  <2>1. \A p \in Pair : shelf[p].report => shelf'[p].report
    BY <1>2, <1>0 DEF WriteRecord, Types, Shelved
  <2> QED BY <2>1, <1>2, <1>0a DEF WriteRecord
<1>3. ASSUME NEW r \in Run, Collect(r) PROVE DashboardInv'
  <2>1. /\ reader'.pc = reader.pc
        /\ reader'.raced = (reader.raced \/ reader.pc \in {"walking", "parsing"})
    BY <1>3, <1>0 DEF Collect, Types, Builds
  <2> QED BY <2>1
<1>4. ASSUME NEW r \in Run,
             Start(r) \/ ReadIndex(r) \/ OpenIndex(r) \/ CloseIndex(r) \/ Finish(r) \/ Fails(r)
      PROVE  DashboardInv'
  BY <1>4 DEF Start, ReadIndex, OpenIndex, CloseIndex, Finish, Fails
<1>5. ASSUME Crash PROVE DashboardInv'
  <2>1. reader'.pc # "parsing" /\ (reader'.pc = "threw" => reader' = reader)
    BY <1>5, <1>0 DEF Crash, Types, Builds
  <2> QED BY <2>1
<1>6. ASSUME Visit PROVE DashboardInv'
  <2> DEFINE s == shelf[Head(reader.list)]
  <2>1. CASE s.record \in Unreadable
    <3>1. reader'.pc = "walking"
      BY <1>6, <2>1, <1>0 DEF Visit, Types, Builds
    <3> QED BY <3>1
  <2>2. CASE s.record \notin Unreadable /\ s.record = "report" /\ s.report
    <3>1. reader'.list = reader.list /\ shelf' = shelf /\ reader'.pc = "parsing"
      BY <1>6, <2>2, <1>0 DEF Visit, Types, Builds
    <3> QED BY <3>1, <2>2
  <2>3. CASE s.record \notin Unreadable /\ ~(s.record = "report" /\ s.report)
    <3>1. reader'.pc = "walking"
      BY <1>6, <2>3, <1>0 DEF Visit, Types, Builds, Unreadable
    <3> QED BY <3>1
  <2> QED BY <2>1, <2>2, <2>3
<1>7. ASSUME Parse PROVE DashboardInv'
  <2>1. reader'.pc \in {"walking", "threw"} /\ reader'.raced = reader.raced
    BY <1>7, <1>0 DEF Parse, Types, Builds
  <2>2. reader'.pc = "threw" => ~shelf[Head(reader.list)].report
    BY <1>7, <1>0 DEF Parse, Types, Builds
  <2>3. reader.raced \in BOOLEAN /\ reader.pc = "parsing"
    BY <1>7, <1>0 DEF Parse, Types, Builds
  <2> QED BY <2>1, <2>2, <2>3
<1>8. ASSUME BeginBuild \/ Built PROVE DashboardInv'
  <2>1. reader'.pc \in {"walking", "built"}
    BY <1>8, <1>0 DEF BeginBuild, Built, Types, Builds
  <2> QED BY <2>1
<1>9. ASSUME UNCHANGED vars PROVE DashboardInv'
  BY <1>9 DEF vars
<1> QED BY <1>1, <1>2, <1>3, <1>4, <1>5, <1>6, <1>7, <1>8, <1>9 DEF Next, Idle

(* Only a directory that a run removes during the build makes the          *)
(* dashboard throw; what crashes leave behind never does.                  *)
THEOREM DashboardFailSoft == Spec => []DashboardIsFailSoft
<1>1. Init => DashboardInv
  BY DEF Init, DashboardInv, DashboardIsFailSoft
<1>2. DashboardInv => DashboardIsFailSoft
  BY DEF DashboardInv
<1> QED BY <1>1, <1>2, BaseInvariant, DashboardStep, PTL DEF Spec

-----------------------------------------------------------------------------
(* The run that nothing overlaps. *)

LEMMA HeadTailElements ==
  ASSUME NEW S, NEW s \in Seq(S), s # << >>
  PROVE  /\ Head(s) \in S /\ Tail(s) \in Seq(S)
         /\ ToSet(s) = {Head(s)} \cup ToSet(Tail(s))
         /\ IsInjective(s) => IsInjective(Tail(s)) /\ Head(s) \notin ToSet(Tail(s))
<1> DEFINE t == Tail(s)
<1>1. /\ Head(s) \in S /\ t \in Seq(S)
      /\ Len(t) = Len(s) - 1 /\ \A i \in 1..Len(t) : t[i] = s[i + 1]
  BY HeadTailProperties
<1>2. Len(s) \in Nat /\ Len(s) >= 1 /\ Head(s) = s[1]
  BY LenProperties, EmptySeq
<1> HIDE DEF t
<1>3. \A i \in 1..Len(s) : i = 1 \/ (i - 1 \in 1..Len(t) /\ s[i] = t[i - 1])
  <2> SUFFICES ASSUME NEW i \in 1..Len(s), i # 1 PROVE i - 1 \in 1..Len(t) /\ s[i] = t[i - 1]
    OBVIOUS
  <2>1. i - 1 \in 1..Len(t) /\ (i - 1) + 1 = i
    BY <1>1, <1>2
  <2> QED BY <2>1, <1>1
<1>4. \A i \in 1..Len(t) : i + 1 \in 1..Len(s) /\ i + 1 # 1
  BY <1>1, <1>2
<1>5. 1 \in 1..Len(s)
  BY <1>2
<1>6. ToSet(s) = {Head(s)} \cup ToSet(t)
  <2>1. ASSUME NEW x \in ToSet(s) PROVE x \in {Head(s)} \cup ToSet(t)
    <3>1. PICK i \in 1..Len(s) : s[i] = x
      BY SeqElements
    <3> QED BY <3>1, <1>1, <1>2, <1>3, SeqElements
  <2>2. Head(s) \in ToSet(s)
    BY <1>2, <1>5, SeqElements
  <2>3. ASSUME NEW x \in ToSet(t) PROVE x \in ToSet(s)
    <3>1. PICK i \in 1..Len(t) : t[i] = x
      BY <1>1, SeqElements
    <3>2. s[i + 1] = x /\ i + 1 \in 1..Len(s)
      BY <3>1, <1>1, <1>4
    <3> QED BY <3>2, SeqElements
  <2> QED BY <2>1, <2>2, <2>3
<1>7. ASSUME IsInjective(s) PROVE IsInjective(t) /\ Head(s) \notin ToSet(t)
  <2>0. \A i, j \in 1..Len(s) : s[i] = s[j] => i = j
    BY <1>7, SeqElements
  <2>1. ASSUME NEW i \in 1..Len(t), NEW j \in 1..Len(t), t[i] = t[j] PROVE i = j
    <3>1. i + 1 = j + 1
      BY <2>0, <2>1, <1>1, <1>4
    <3> QED BY <3>1, <1>1, <1>2
  <2>2. ASSUME NEW i \in 1..Len(t), t[i] = Head(s) PROVE FALSE
    <3>1. i + 1 = 1
      BY <2>0, <2>2, <1>1, <1>2, <1>4, <1>5
    <3> QED BY <3>1, <1>4
  <2>3. IsInjective(t)
    BY <2>1, <1>1, SeqElements
  <2> QED BY <2>2, <2>3, <1>1, SeqElements
<1> QED BY <1>1, <1>6, <1>7 DEF t

Readable(p) == shelf[p].record \in {"report", "bare"}

(* The run that nothing has overlapped is alone at work: its write of the  *)
(* index cannot be mixed with another's, and a record it has written and   *)
(* keeps in the index stays.                                               *)
LoneInv ==
    lone # None =>
        /\ InFlight \subseteq {lone} /\ ~run[lone].clash
        /\ run[lone].pc \in {"listing", "opening", "writing"} => Readable(run[lone].pair)
        /\ run[lone].pc \in {"collecting", "done"} /\ run[lone].limit > 0 =>
              /\ Readable(run[lone].pair) /\ run[lone].pair \notin ToSet(run[lone].todo)
              /\ index.state = "whole" /\ index.list # << >> /\ Head(index.list) = run[lone].pair

(* A step of one call leaves the others as they are. *)
LEMMA OneCallMoves ==
  ASSUME Types, NEW r \in Run, NEW c, run' = [run EXCEPT ![r] = c]
  PROVE  /\ run'[r] = c /\ \A q \in Run \ {r} : run'[q] = run[q]
         /\ InFlight' = IF c.pc \in Busy THEN InFlight \cup {r} ELSE InFlight \ {r}
<1>1. run'[r] = c /\ \A q \in Run \ {r} : run'[q] = run[q]
  BY DEF Types
<1> QED BY <1>1 DEF InFlight

LEMMA LoneStep == BaseInv /\ LoneInv /\ [Next]_vars => LoneInv'
<1> SUFFICES ASSUME BaseInv, LoneInv, [Next]_vars, lone' # None PROVE LoneInv'
  BY DEF LoneInv
<1>0. Types /\ ListInv
  BY TypeParts DEF BaseInv
<1> USE LimitsAssumption DEF At
<1>1. ASSUME NEW r \in Run, Start(r) PROVE LoneInv'
  <2>1. PICK p \in Pair, n \in Limits, m \in BOOLEAN :
           run' = [run EXCEPT ![r] = [@ EXCEPT !.pc = "copying", !.pair = p, !.limit = n, !.made = m]]
    BY <1>1 DEF Start
  <2> DEFINE c == [run[r] EXCEPT !.pc = "copying", !.pair = p, !.limit = n, !.made = m]
  <2>2. c.pc = "copying" /\ c.clash = FALSE
    BY <1>0, <1>1 DEF Start, ListInv, NotStarted
  <2>3. run' = [run EXCEPT ![r] = c]
    BY <2>1
  <2> HIDE DEF c
  <2>4. run'[r] = c /\ InFlight' = InFlight \cup {r}
    BY <2>2, <2>3, <1>0, OneCallMoves DEF Busy
  <2>5. InFlight = {} /\ lone' = r
    BY <1>1 DEF Start
  <2> QED BY <2>2, <2>4, <2>5 DEF LoneInv
(* Whoever takes another step of a call is the lone run. *)
<1>2. ASSUME NEW r \in InFlight, lone' = lone PROVE r = lone /\ r \in Run /\ InFlight = {r}
  BY <1>2 DEF LoneInv, InFlight
<1>3. ASSUME NEW r \in InFlight, NEW c, run' = [run EXCEPT ![r] = c], lone' = lone,
             ~c.clash,
             c.pc \in {"listing", "opening", "writing"} => Readable(c.pair)',
             c.pc \in {"collecting", "done"} /\ c.limit > 0 =>
                /\ Readable(c.pair)' /\ c.pair \notin ToSet(c.todo)
                /\ index'.state = "whole" /\ index'.list # << >> /\ Head(index'.list) = c.pair
      PROVE  LoneInv'
  <2>1. r = lone /\ r \in Run /\ InFlight = {r}
    BY <1>2, <1>3
  <2>2. run' = [run EXCEPT ![r] = c]
    BY <1>3
  <2>3. run'[r] = c /\ InFlight' \subseteq {r}
    BY <2>1, <2>2, <1>0, OneCallMoves
  <2> QED BY <2>1, <2>3, <1>3 DEF LoneInv, Readable
<1>4. ASSUME NEW r \in Run, Copy(r) PROVE LoneInv'
  <2> DEFINE c == [run[r] EXCEPT !.pc = "recording"]
  <2>1. r \in InFlight /\ lone' = lone /\ run' = [run EXCEPT ![r] = c]
    BY <1>4 DEF Copy, InFlight, Busy
  <2>2. c.pc = "recording" /\ c.clash = run[r].clash
    BY <1>0 DEF Types, Calls
  <2>3. ~run[r].clash
    BY <2>1, <1>2 DEF LoneInv
  <2> HIDE DEF c
  <2> QED BY <2>1, <2>2, <2>3, <1>3
<1>5. ASSUME NEW r \in Run, WriteRecord(r) PROVE LoneInv'
  <2> DEFINE c == [run[r] EXCEPT !.pc = "listing", !.made = FALSE]
  <2>1. r \in InFlight /\ lone' = lone /\ run' = [run EXCEPT ![r] = c]
    BY <1>5 DEF WriteRecord, InFlight, Busy
  <2>2. c.pc = "listing" /\ c.clash = run[r].clash /\ c.pair = run[r].pair
    BY <1>0 DEF Types, Calls
  <2>3. ~run[r].clash
    BY <2>1, <1>2 DEF LoneInv
  <2>4. run[r].pair \in Pair
    BY <2>1, <1>0 DEF ListInv, InFlight
  <2>5. shelf'[run[r].pair].record \in {"report", "bare"}
    BY <2>4, <1>5, <1>0 DEF WriteRecord, Types, Shelved
  <2> HIDE DEF c
  <2> QED BY <2>1, <2>2, <2>3, <2>5, <1>3 DEF Readable
<1>6. ASSUME NEW r \in Run, ReadIndex(r) PROVE LoneInv'
  <2> DEFINE c == [run[r] EXCEPT !.pc = "opening", !.seen = Parsed]
  <2>1. r \in InFlight /\ lone' = lone /\ run' = [run EXCEPT ![r] = c] /\ shelf' = shelf
    BY <1>6 DEF ReadIndex, InFlight, Busy
  <2>2. c.pc = "opening" /\ c.clash = run[r].clash /\ c.pair = run[r].pair
    BY <1>0 DEF Types, Calls
  <2>3. ~run[r].clash /\ Readable(run[r].pair)
    BY <2>1, <1>2, <1>6 DEF LoneInv, ReadIndex
  <2> HIDE DEF c
  <2> QED BY <2>1, <2>2, <2>3, <1>3 DEF Readable
<1>7. ASSUME NEW r \in Run, OpenIndex(r) PROVE LoneInv'
  <2>1. r \in InFlight /\ lone' = lone /\ shelf' = shelf
    BY <1>7 DEF OpenIndex, InFlight, Busy
  <2>2. r = lone /\ InFlight = {r}
    BY <2>1, <1>2
  <2>3. ~run[r].clash /\ Readable(run[r].pair)
    BY <2>2, <1>7 DEF LoneInv, OpenIndex
  <2>4. \A q \in Run \ {r} : run[q].pc # "writing"
    BY <2>2 DEF InFlight, Busy
  <2>5. run'[r] = [run[r] EXCEPT !.pc = "writing", !.clash = FALSE]
    <3>1. run'[r] = [run[r] EXCEPT !.pc = IF r = r THEN "writing" ELSE @,
                                   !.clash = @ \/ (r # r /\ At(r, "writing"))
                                               \/ (r = r /\ \E s \in Run \ {r} : At(s, "writing"))]
      BY <1>7 DEF OpenIndex
    <3>2. (run[r].clash \/ (r # r /\ At(r, "writing"))
             \/ (r = r /\ \E s \in Run \ {r} : At(s, "writing"))) = FALSE
      BY <2>3, <2>4
    <3> QED BY <3>1, <3>2
  <2>6. \A q \in Run \ {r} : run'[q].pc = run[q].pc
    <3> SUFFICES ASSUME NEW q \in Run \ {r} PROVE run'[q].pc = run[q].pc
      OBVIOUS
    <3>1. run[q] \in Calls
      BY <1>0 DEF Types
    <3>2. run'[q] = [run[q] EXCEPT !.pc = IF q = r THEN "writing" ELSE @,
                                   !.clash = @ \/ (q # r /\ At(q, "writing"))
                                               \/ (q = r /\ \E s \in Run \ {r} : At(s, "writing"))]
      BY <1>7 DEF OpenIndex
    <3> QED BY <3>1, <3>2 DEF Calls
  <2>7. run'[r].pc = "writing" /\ run'[r].clash = FALSE /\ run'[r].pair = run[r].pair
    BY <2>5, <1>0 DEF Types, Calls
  <2>8. InFlight' \subseteq {r}
    BY <2>2, <2>6 DEF InFlight
  <2> QED BY <2>1, <2>2, <2>3, <2>7, <2>8 DEF LoneInv, Readable
<1>8. ASSUME NEW r \in Run, CloseIndex(r) PROVE LoneInv'
  <2> DEFINE k == Kept(run[r].seen, run[r].pair, run[r].limit)
             e == Evicted(run[r].seen, run[r].pair, run[r].limit)
             c == [run[r] EXCEPT !.pc = "collecting", !.seen = << >>, !.clash = FALSE, !.todo = e]
  <2>1. /\ run[r].seen \in Seq(Pair) /\ IsInjective(run[r].seen)
        /\ run[r].pair \in Pair /\ run[r].limit \in Nat
    BY <1>8, <1>0 DEF CloseIndex, Types, Calls, ListInv, Busy
  <2>2. run[r].limit > 0 => k # << >> /\ Head(k) = run[r].pair /\ run[r].pair \notin ToSet(e)
    BY <2>1, CutList
  <2>3. r \in InFlight /\ lone' = lone /\ run' = [run EXCEPT ![r] = c] /\ shelf' = shelf
    BY <1>8 DEF CloseIndex, InFlight, Busy
  <2>4. ~run[r].clash /\ Readable(run[r].pair)
    BY <2>3, <1>2, <1>8 DEF LoneInv, CloseIndex
  <2>5. index'.state = "whole" /\ index'.list = k
    BY <2>4, <1>8 DEF CloseIndex
  <2>6. /\ c.pc = "collecting" /\ c.clash = FALSE /\ c.pair = run[r].pair
        /\ c.limit = run[r].limit /\ c.todo = e
    BY <1>0 DEF Types, Calls
  <2> HIDE DEF k, e, c
  <2> QED BY <2>2, <2>3, <2>4, <2>5, <2>6, <1>3 DEF Readable
<1>9. ASSUME NEW r \in Run, Collect(r) PROVE LoneInv'
  <2> DEFINE c == [run[r] EXCEPT !.todo = Tail(@)]
  <2>1. r \in InFlight /\ lone' = lone /\ run' = [run EXCEPT ![r] = c] /\ index' = index
    BY <1>9 DEF Collect, InFlight, Busy
  <2>2. run[r].todo \in Seq(Pair) /\ run[r].todo # << >> /\ run[r].pair \in Pair
    BY <2>1, <1>9, <1>0 DEF Collect, Types, Calls, ListInv, InFlight
  <2>3. Head(run[r].todo) \in Pair /\ ToSet(run[r].todo) = {Head(run[r].todo)} \cup ToSet(Tail(run[r].todo))
    BY <2>2, HeadTailElements
  <2>4. ~run[r].clash
    BY <2>1, <1>2 DEF LoneInv
  <2>5. run[r].limit > 0 =>
           /\ Readable(run[r].pair) /\ run[r].pair \notin ToSet(run[r].todo)
           /\ index.state = "whole" /\ index.list # << >> /\ Head(index.list) = run[r].pair
    BY <2>1, <1>2, <1>9 DEF LoneInv, Collect
  <2>6. run[r].limit > 0 => shelf'[run[r].pair] = shelf[run[r].pair]
    BY <2>2, <2>3, <2>5, <1>9, <1>0 DEF Collect, Types
  <2>7. /\ c.pc = "collecting" /\ c.clash = run[r].clash /\ c.pair = run[r].pair
        /\ c.limit = run[r].limit /\ c.todo = Tail(run[r].todo)
    BY <1>9, <1>0 DEF Types, Calls, Collect
  <2> HIDE DEF c
  <2> QED BY <2>1, <2>3, <2>4, <2>5, <2>6, <2>7, <1>3 DEF Readable
<1>10. ASSUME NEW r \in Run, Finish(r) PROVE LoneInv'
  <2> DEFINE c == [run[r] EXCEPT !.pc = "done"]
  <2>1. /\ r \in InFlight /\ lone' = lone /\ run' = [run EXCEPT ![r] = c]
        /\ index' = index /\ shelf' = shelf
    BY <1>10 DEF Finish, InFlight, Busy
  <2>2. /\ c.pc = "done" /\ c.clash = run[r].clash /\ c.pair = run[r].pair
        /\ c.limit = run[r].limit /\ c.todo = run[r].todo
    BY <1>0 DEF Types, Calls
  <2>3. /\ ~run[r].clash
        /\ run[r].limit > 0 =>
           /\ Readable(run[r].pair) /\ run[r].pair \notin ToSet(run[r].todo)
           /\ index.state = "whole" /\ index.list # << >> /\ Head(index.list) = run[r].pair
    BY <2>1, <1>2, <1>10 DEF LoneInv, Finish
  <2> HIDE DEF c
  <2> QED BY <2>1, <2>2, <2>3, <1>3 DEF Readable
<1>11. ASSUME NEW r \in Run, Fails(r) PROVE LoneInv'
  <2> DEFINE c == [NotStarted EXCEPT !.pc = "failed"]
  <2>1. r \in InFlight /\ lone' = lone /\ run' = [run EXCEPT ![r] = c]
    BY <1>11 DEF Fails
  <2>2. c.pc = "failed" /\ c.clash = FALSE
    BY DEF NotStarted
  <2> HIDE DEF c
  <2> QED BY <2>1, <2>2, <1>3
<1>12. ASSUME Crash PROVE LoneInv'
  <2> DEFINE c == [NotStarted EXCEPT !.pc = "gone"]
  <2>1. c.pc = "gone" /\ c.clash = FALSE
    BY DEF NotStarted
  <2>2. run' = [r \in Run |-> IF r \in InFlight THEN c ELSE run[r]] /\ lone' = lone /\ index' = index
    BY <1>12 DEF Crash
  <2>3. lone \in Run /\ InFlight' = {}
    BY <2>1, <2>2, <1>0 DEF InFlight, Types, Busy
  <2>4. CASE lone \in InFlight
    <3>1. run'[lone] = c
      BY <2>2, <2>3, <2>4
    <3> HIDE DEF c
    <3> QED BY <3>1, <2>1, <2>2, <2>3 DEF LoneInv
  <2>5. CASE lone \notin InFlight
    <3>1. InFlight = {} /\ run'[lone] = run[lone]
      BY <2>2, <2>3, <2>5 DEF LoneInv
    <3>2. \A p \in Pair : shelf'[p] = shelf[p]
      BY <3>1, <1>12 DEF Crash
    <3>3. shelf' = shelf
      BY <3>1, <3>2, <1>12, <1>0 DEF Crash, Types
    <3> QED BY <3>1, <3>3, <2>2, <2>3 DEF LoneInv, Readable
  <2> QED BY <2>4, <2>5
<1>13. ASSUME BeginBuild \/ Visit \/ Parse \/ Built \/ UNCHANGED vars PROVE LoneInv'
  <2>1. run' = run /\ index' = index /\ shelf' = shelf /\ lone' = lone
    BY <1>13 DEF BeginBuild, Visit, Parse, Built, vars
  <2> QED BY <2>1 DEF LoneInv, InFlight, Readable
<1> QED BY <1>1, <1>4, <1>5, <1>6, <1>7, <1>8, <1>9, <1>10, <1>11, <1>12, <1>13 DEF Next, Idle

(* Whatever earlier runs, failures and crashes left, a run that nothing    *)
(* overlaps leaves its own snapshot first in a readable index, with a      *)
(* readable record, unless retention is off.                               *)
THEOREM LoneRunIsRetained == Spec => []LoneRunRetains
<1>1. Init => LoneInv
  BY DEF Init, LoneInv
<1>2. LoneInv => LoneRunRetains
  BY DEF LoneInv, LoneRunRetains, Readable, At
<1> QED BY <1>1, <1>2, BaseInvariant, LoneStep, PTL DEF Spec
-----------------------------------------------------------------------------
(* Runs that take turns. *)

(* The index is not torn: what is read of it is the list it means. *)
Whole == index.state # "torn" /\ (index.state = "absent" => index.list = << >>)

(* How far the disk is ahead of the index while an orderly call is at work. *)
Turn(c) ==
    /\ ~c.clash
    /\ c.pc # "writing" => Whole
    /\ c.pc = "copying" => Archived = Listed
    /\ c.pc \in {"recording", "listing", "opening", "writing"} => Archived = Listed \cup {c.pair}
    /\ c.pc \in {"opening", "writing"} => c.seen = index.list
    /\ c.pc = "collecting" =>
          /\ Archived = Listed \cup ToSet(c.todo) /\ IsInjective(c.todo)
          /\ Listed \cap ToSet(c.todo) = {}

OrderlyInv ==
    orderly =>
        /\ \A q, r \in InFlight : q = r
        /\ \A p \in Archived : Readable(p) \/ \E r \in Run : At(r, "recording") /\ run[r].pair = p
        /\ \A r \in InFlight : Turn(run[r])
        /\ InFlight = {} => Archived = Listed /\ Whole

LEMMA OrderlyInit == Init => OrderlyInv
<1>1. ToSet(<< >>) = {}
  BY DEF ToSet
<1> QED BY <1>1 DEF Init, OrderlyInv, Archived, Listed, InFlight, Busy, NotStarted, Empty, Whole

(* An orderly call opens the index for itself. *)
LEMMA OpensAlone ==
  ASSUME Types, NEW r \in Run, OpenIndex(r), InFlight = {r}, ~run[r].clash
  PROVE  run' = [run EXCEPT ![r] = [run[r] EXCEPT !.pc = "writing"]]
<1>1. \A s \in Run \ {r} : ~At(s, "writing")
  BY DEF InFlight, Busy, At
<1>2. \A q \in Run : run[q] \in Calls
  BY DEF Types
<1>3. \A q \in Run : run'[q] = [run[q] EXCEPT !.pc = IF q = r THEN "writing" ELSE @,
                                   !.clash = @ \/ (q # r /\ At(q, "writing"))
                                               \/ (q = r /\ \E s \in Run \ {r} : At(s, "writing"))]
  BY DEF OpenIndex
<1>4. ASSUME NEW q \in Run PROVE (run[q].clash \/ (q # r /\ At(q, "writing"))
               \/ (q = r /\ \E s \in Run \ {r} : At(s, "writing"))) = run[q].clash
  <2>1. run[q].clash \in BOOLEAN
    BY <1>2 DEF Calls
  <2>2. ~(q # r /\ At(q, "writing")) /\ ~(q = r /\ \E s \in Run \ {r} : At(s, "writing"))
    BY <1>1
  <2> QED BY <2>1, <2>2
<1>5. run'[r] = [run[r] EXCEPT !.pc = "writing"]
  <2>1. run'[r] = [run[r] EXCEPT !.pc = "writing", !.clash = run[r].clash]
    BY <1>3, <1>4
  <2> QED BY <2>1, <1>2 DEF Calls
<1>6. ASSUME NEW q \in Run \ {r} PROVE run'[q] = run[q]
  <2>1. run'[q] = [run[q] EXCEPT !.pc = run[q].pc, !.clash = run[q].clash]
    BY <1>3, <1>4
  <2> QED BY <2>1, <1>2 DEF Calls
<1>7. run' = [q \in Run |-> run'[q]]
  BY DEF OpenIndex
<1> QED BY <1>5, <1>6, <1>7 DEF Types

LEMMA OrderlyStep == BaseInv /\ OrderlyInv /\ [Next]_vars => OrderlyInv'
<1> SUFFICES ASSUME BaseInv, OrderlyInv, [Next]_vars, orderly' PROVE OrderlyInv'
  BY DEF OrderlyInv
<1>0. Types /\ ListInv
  BY TypeParts DEF BaseInv
<1> USE LimitsAssumption DEF At
<1>1. ASSUME NEW r \in Run, Start(r) PROVE OrderlyInv'
  <2>1. PICK p \in Pair, n \in Limits, m \in BOOLEAN :
           run' = [run EXCEPT ![r] = [@ EXCEPT !.pc = "copying", !.pair = p, !.limit = n, !.made = m]]
    BY <1>1 DEF Start
  <2> DEFINE c == [run[r] EXCEPT !.pc = "copying", !.pair = p, !.limit = n, !.made = m]
  <2>2. c.pc = "copying" /\ c.clash = FALSE
    BY <1>0, <1>1 DEF Start, ListInv, NotStarted
  <2>3. run' = [run EXCEPT ![r] = c]
    BY <2>1
  <2> HIDE DEF c
  <2>4. orderly /\ InFlight = {} /\ index' = index /\ shelf' = shelf
    BY <1>1, <1>0 DEF Start, Types
  <2>5. run'[r] = c /\ InFlight' = {r}
    BY <2>2, <2>3, <2>4, <1>0, OneCallMoves DEF Busy
  <2>6. Archived = Listed /\ Whole /\ \A q \in Archived : Readable(q)
    BY <2>4 DEF OrderlyInv, InFlight, Busy
  <2> QED BY <2>2, <2>4, <2>5, <2>6 DEF OrderlyInv, Turn, Whole, Archived, Listed, Readable
(* The call that takes another step is the only one at work. *)
<1>2. ASSUME NEW r \in InFlight, orderly' = orderly
      PROVE  /\ r \in Run /\ InFlight = {r} /\ Turn(run[r])
             /\ \A p \in Archived : Readable(p) \/ (At(r, "recording") /\ run[r].pair = p)
  BY <1>2 DEF OrderlyInv, InFlight, Busy
<1>3. ASSUME NEW r \in InFlight, NEW c, run' = [run EXCEPT ![r] = c], orderly' = orderly,
             c.pc \in Busy => Turn(c)',
             c.pc \notin Busy => Archived' = Listed' /\ Whole',
             \A p \in Archived' : Readable(p)' \/ (c.pc = "recording" /\ c.pair = p)
      PROVE  OrderlyInv'
  <2>1. r \in Run /\ InFlight = {r}
    BY <1>2, <1>3
  <2>2. run' = [run EXCEPT ![r] = c]
    BY <1>3
  <2>3. run'[r] = c /\ InFlight' = IF c.pc \in Busy THEN {r} ELSE {}
    BY <2>1, <2>2, <1>0, OneCallMoves
  <2> QED BY <2>1, <2>3, <1>3 DEF OrderlyInv, Turn, Readable, Whole, Listed, Archived
<1>4. ASSUME NEW r \in Run, Copy(r) PROVE OrderlyInv'
  <2> DEFINE c == [run[r] EXCEPT !.pc = "recording"]
  <2>1. r \in InFlight /\ orderly' = orderly /\ run' = [run EXCEPT ![r] = c] /\ index' = index
    BY <1>4 DEF Copy, InFlight, Busy
  <2>2. c.pc = "recording" /\ c.clash = run[r].clash /\ c.pair = run[r].pair
    BY <1>0 DEF Types, Calls
  <2> HIDE DEF c
  <2>3. ~run[r].clash /\ Whole /\ Archived = Listed /\ \A p \in Archived : Readable(p)
    BY <2>1, <1>2, <1>4 DEF Turn, Copy
  <2>4. run[r].pair \in Pair
    BY <2>1, <1>0 DEF ListInv, InFlight
  <2>5. shelf'[run[r].pair].dir /\ \A p \in Pair \ {run[r].pair} : shelf'[p] = shelf[p]
    BY <2>4, <1>4, <1>0 DEF Copy, Types, Shelved
  <2>6. Archived' = Listed \cup {run[r].pair}
    BY <2>3, <2>4, <2>5 DEF Archived
  <2>7. \A p \in Archived' : Readable(p)' \/ p = run[r].pair
    BY <2>3, <2>5, <2>6 DEF Archived, Readable
  <2> QED BY <2>1, <2>2, <2>3, <2>6, <2>7, <1>3 DEF Turn, Busy, Whole, Listed
<1>5. ASSUME NEW r \in Run, WriteRecord(r) PROVE OrderlyInv'
  <2> DEFINE c == [run[r] EXCEPT !.pc = "listing", !.made = FALSE]
  <2>1. r \in InFlight /\ orderly' = orderly /\ run' = [run EXCEPT ![r] = c] /\ index' = index
    BY <1>5 DEF WriteRecord, InFlight, Busy
  <2>2. c.pc = "listing" /\ c.clash = run[r].clash /\ c.pair = run[r].pair
    BY <1>0 DEF Types, Calls
  <2> HIDE DEF c
  <2>3. /\ ~run[r].clash /\ Whole /\ Archived = Listed \cup {run[r].pair}
        /\ \A p \in Archived : Readable(p) \/ p = run[r].pair
    BY <2>1, <1>2, <1>5 DEF Turn, WriteRecord
  <2>4. run[r].pair \in Pair
    BY <2>1, <1>0 DEF ListInv, InFlight
  <2>5. /\ shelf'[run[r].pair].record \in {"report", "bare"}
        /\ \A p \in Pair \ {run[r].pair} : shelf'[p] = shelf[p]
        /\ \A p \in Pair : shelf'[p].dir = shelf[p].dir
    BY <2>4, <1>5, <1>0 DEF WriteRecord, Types, Shelved
  <2>6. Archived' = Archived
    BY <2>5 DEF Archived
  <2>7. \A p \in Archived' : Readable(p)'
    BY <2>3, <2>5, <2>6 DEF Archived, Readable
  <2> QED BY <2>1, <2>2, <2>3, <2>6, <2>7, <1>3 DEF Turn, Busy, Whole, Listed
<1>6. ASSUME NEW r \in Run, ReadIndex(r) PROVE OrderlyInv'
  <2> DEFINE c == [run[r] EXCEPT !.pc = "opening", !.seen = Parsed]
  <2>1. /\ r \in InFlight /\ orderly' = orderly /\ run' = [run EXCEPT ![r] = c]
        /\ index' = index /\ shelf' = shelf
    BY <1>6 DEF ReadIndex, InFlight, Busy
  <2>2. c.pc = "opening" /\ c.clash = run[r].clash /\ c.pair = run[r].pair /\ c.seen = Parsed
    BY <1>0 DEF Types, Calls
  <2> HIDE DEF c
  <2>3. /\ ~run[r].clash /\ Whole /\ Archived = Listed \cup {run[r].pair}
        /\ \A p \in Archived : Readable(p)
    BY <2>1, <1>2, <1>6 DEF Turn, ReadIndex
  <2>4. Parsed = index.list
    BY <2>3, <1>0 DEF Parsed, Whole, Types, Files
  <2> QED BY <2>1, <2>2, <2>3, <2>4, <1>3 DEF Turn, Busy, Whole, Listed, Archived, Readable
<1>7. ASSUME NEW r \in Run, OpenIndex(r) PROVE OrderlyInv'
  <2> DEFINE c == [run[r] EXCEPT !.pc = "writing"]
  <2>1. r \in InFlight /\ orderly' = orderly /\ shelf' = shelf /\ index'.list = index.list
    BY <1>7, <1>0 DEF OpenIndex, InFlight, Busy, Types, Files
  <2>2. /\ c.pc = "writing" /\ c.clash = run[r].clash /\ c.pair = run[r].pair
        /\ c.seen = run[r].seen
    BY <1>0 DEF Types, Calls
  <2>3. /\ ~run[r].clash /\ Archived = Listed \cup {run[r].pair} /\ run[r].seen = index.list
        /\ InFlight = {r} /\ \A p \in Archived : Readable(p)
    BY <2>1, <1>2, <1>7 DEF Turn, OpenIndex
  <2>4. run' = [run EXCEPT ![r] = c]
    BY <2>3, <1>7, <1>0, OpensAlone
  <2> HIDE DEF c
  <2> QED BY <2>1, <2>2, <2>3, <2>4, <1>3 DEF Turn, Busy, Whole, Listed, Archived, Readable
<1>8. ASSUME NEW r \in Run, CloseIndex(r) PROVE OrderlyInv'
  <2> DEFINE k == Kept(run[r].seen, run[r].pair, run[r].limit)
             e == Evicted(run[r].seen, run[r].pair, run[r].limit)
             c == [run[r] EXCEPT !.pc = "collecting", !.seen = << >>, !.clash = FALSE, !.todo = e]
  <2>1. /\ run[r].seen \in Seq(Pair) /\ IsInjective(run[r].seen)
        /\ run[r].pair \in Pair /\ run[r].limit \in Nat
    BY <1>8, <1>0 DEF CloseIndex, Types, Calls, ListInv, Busy
  <2>2. /\ IsInjective(e) /\ ToSet(k) \cap ToSet(e) = {}
        /\ ToSet(k) \cup ToSet(e) = ToSet(run[r].seen) \cup {run[r].pair}
    BY <2>1, CutList
  <2>3. r \in InFlight /\ orderly' = orderly /\ run' = [run EXCEPT ![r] = c] /\ shelf' = shelf
    BY <1>8 DEF CloseIndex, InFlight, Busy
  <2>4. /\ ~run[r].clash /\ Archived = Listed \cup {run[r].pair} /\ run[r].seen = index.list
        /\ \A p \in Archived : Readable(p)
    BY <2>3, <1>2, <1>8 DEF Turn, CloseIndex
  <2>5. index'.state = "whole" /\ index'.list = k
    BY <2>4, <1>8 DEF CloseIndex
  <2>6. c.pc = "collecting" /\ c.clash = FALSE /\ c.todo = e
    BY <1>0 DEF Types, Calls
  <2> HIDE DEF k, e, c
  <2>7. Archived' = ToSet(k) \cup ToSet(e) /\ Listed' = ToSet(k) /\ Whole'
    BY <2>2, <2>3, <2>4, <2>5 DEF Archived, Listed, Whole
  <2>8. \A p \in Archived' : Readable(p)'
    BY <2>3, <2>4 DEF Archived, Readable
  <2> QED BY <2>2, <2>3, <2>6, <2>7, <2>8, <1>3 DEF Turn, Busy
<1>9. ASSUME NEW r \in Run, Collect(r) PROVE OrderlyInv'
  <2> DEFINE c == [run[r] EXCEPT !.todo = Tail(@)]
             h == Head(run[r].todo)
  <2>1. r \in InFlight /\ orderly' = orderly /\ run' = [run EXCEPT ![r] = c] /\ index' = index
    BY <1>9 DEF Collect, InFlight, Busy
  <2>2. run[r].todo \in Seq(Pair) /\ run[r].todo # << >>
    BY <1>9, <1>0 DEF Collect, Types, Calls
  <2>3. /\ ~run[r].clash /\ Whole /\ Archived = Listed \cup ToSet(run[r].todo)
        /\ IsInjective(run[r].todo) /\ Listed \cap ToSet(run[r].todo) = {}
        /\ \A p \in Archived : Readable(p)
    BY <2>1, <1>2, <1>9 DEF Turn, Collect
  <2>4. /\ h \in Pair /\ ToSet(run[r].todo) = {h} \cup ToSet(Tail(run[r].todo))
        /\ IsInjective(Tail(run[r].todo)) /\ h \notin ToSet(Tail(run[r].todo))
    BY <2>2, <2>3, HeadTailElements
  <2>5. c.pc = "collecting" /\ c.clash = run[r].clash /\ c.todo = Tail(run[r].todo)
    BY <1>9, <1>0 DEF Types, Calls, Collect
  <2>6. ~shelf'[h].dir /\ \A p \in Pair \ {h} : shelf'[p] = shelf[p]
    BY <2>4, <1>9, <1>0 DEF Collect, Types, Empty
  <2> HIDE DEF c, h
  <2>7. Archived' = Archived \ {h}
    BY <2>6 DEF Archived
  <2>8. Archived' = Listed \cup ToSet(Tail(run[r].todo)) /\ Listed' = Listed /\ Whole'
    BY <2>1, <2>3, <2>4, <2>7 DEF Listed, Whole
  <2>9. \A p \in Archived' : Readable(p)'
    BY <2>3, <2>6, <2>7 DEF Archived, Readable
  <2> QED BY <2>1, <2>3, <2>4, <2>5, <2>8, <2>9, <1>3 DEF Turn, Busy
<1>10. ASSUME NEW r \in Run, Finish(r) PROVE OrderlyInv'
  <2> DEFINE c == [run[r] EXCEPT !.pc = "done"]
  <2>1. /\ r \in InFlight /\ orderly' = orderly /\ run' = [run EXCEPT ![r] = c]
        /\ index' = index /\ shelf' = shelf
    BY <1>10 DEF Finish, InFlight, Busy
  <2>2. c.pc = "done"
    BY <1>0 DEF Types, Calls
  <2> HIDE DEF c
  <2>3. /\ Whole /\ Archived = Listed \cup ToSet(<< >>)
        /\ \A p \in Archived : Readable(p)
    BY <2>1, <1>2, <1>10 DEF Turn, Finish
  <2>4. ToSet(<< >>) = {}
    BY DEF ToSet
  <2> QED BY <2>1, <2>2, <2>3, <2>4, <1>3 DEF Busy, Whole, Listed, Archived, Readable
<1>11. ASSUME (\E r \in Run : Fails(r)) \/ Crash PROVE OrderlyInv'
  BY <1>11 DEF Fails, Crash
<1>12. ASSUME BeginBuild \/ Visit \/ Parse \/ Built \/ UNCHANGED vars PROVE OrderlyInv'
  <2>1. run' = run /\ index' = index /\ shelf' = shelf /\ orderly' = orderly
    BY <1>12 DEF BeginBuild, Visit, Parse, Built, vars
  <2> QED BY <2>1 DEF OrderlyInv, InFlight, Readable, Turn, Whole, Archived, Listed
<1> QED BY <1>1, <1>4, <1>5, <1>6, <1>7, <1>8, <1>9, <1>10, <1>11, <1>12 DEF Next, Idle

(* As long as runs take turns and nothing fails, the index and the disk    *)
(* agree whenever nobody is at work.                                       *)
THEOREM OrderlyDisk == Spec => []DiskMatchesIndex
<1>1. BaseInv /\ OrderlyInv => DiskMatchesIndex
  <2> SUFFICES ASSUME BaseInv, OrderlyInv, orderly, InFlight = {}
               PROVE  Archived = Listed /\ \A p \in Listed : Readable(p)
    BY DEF DiskMatchesIndex, Readable
  <2> QED BY DEF OrderlyInv, InFlight, Busy, At
<1> QED BY <1>1, OrderlyInit, BaseInvariant, OrderlyStep, PTL DEF Spec
-----------------------------------------------------------------------------
(* The history the retention promises. *)

(* A list that repeats nothing is as long as it has elements. *)
LEMMA InjectiveLength ==
  ASSUME NEW S, NEW s \in Seq(S), IsInjective(s)
  PROVE  Cardinality(ToSet(s)) = Len(s)
<1>1. /\ Len(s) \in Nat /\ DOMAIN s = 1..Len(s)
      /\ \A i \in 1..Len(s) : s[i] \in ToSet(s)
      /\ \A x \in ToSet(s) : \E i \in 1..Len(s) : s[i] = x
      /\ \A i, j \in 1..Len(s) : s[i] = s[j] => i = j
  BY SeqElements
<1>2. s = [i \in 1..Len(s) |-> s[i]]
  BY <1>1
<1>3. s \in [1..Len(s) -> ToSet(s)]
  BY <1>1, <1>2
<1>4. s \in Bijection(1..Len(s), ToSet(s))
  BY <1>1, <1>3 DEF Bijection, Injection, Surjection, IsInjective
<1> QED BY <1>1, <1>4, FS_CountingElements DEF ExistsBijection

(* What the code keeps is what SnapshotRetention says is retained. *)
LEMMA CutRetains ==
  ASSUME index.list \in Seq(Pair), IsInjective(index.list), NEW p \in Pair, NEW n \in Nat,
         index'.list = Kept(index.list, p, n)
  PROVE  Store!Retain(p, n)
<1> DEFINE list == index.list
           k == Kept(list, p, n)
           o == Ordered(list, p)
           w == Without(list, {p})
           others == ToSet(list) \ {p}
<1>0. list \in Seq(Pair) /\ IsInjective(list)
  OBVIOUS
<1>1. w \in Seq(Pair) /\ ToSet(w) = others /\ IsInjective(w)
  BY <1>0, FilterSelects, FilterElements
<1>2. PICK pos : Selects(list, {p}, Len(list), w, pos)
  BY <1>0, FilterSelects
<1>3. /\ o \in Seq(Pair) /\ Len(o) = 1 + Len(w)
      /\ o[1] = p /\ \A i \in 1..Len(w) : o[i + 1] = w[i]
  BY <1>0, OrderedList
<1>4. IsInjective(o) /\ ToSet(o) = ToSet(list) \cup {p}
  BY <1>0, OrderedElements
<1>5. /\ k \in Seq(Pair) /\ IsInjective(k)
      /\ Len(k) = IF n < Len(o) THEN n ELSE Len(o)
      /\ \A i \in 1..Len(k) : k[i] = o[i]
      /\ ToSet(k) \subseteq ToSet(list) \cup {p}
  BY <1>0, CutList
<1>6. index'.list = k
  OBVIOUS
<1> HIDE DEF k, o, w, list
<1>7. Cardinality(others) = Len(w)
  BY <1>1, InjectiveLength
<1>8. Len(k) \in Nat /\ Len(w) \in Nat /\ Len(list) \in Nat /\ Len(k) <= 1 + Len(w)
  BY <1>0, <1>1, <1>3, <1>5, LenProperties
<1>9. DOMAIN k = 1..Len(k) /\ DOMAIN list = 1..Len(list)
  BY <1>0, <1>5, LenProperties
<1>10. ASSUME k # << >> PROVE k[1] = p
  <2>1. Len(k) # 0
    BY <1>10, <1>5, EmptySeq
  <2>2. 1 \in 1..Len(k)
    BY <2>1, <1>8
  <2> QED BY <2>2, <1>3, <1>5
(* A position of k beyond the first is one of w, and so one of the list. *)
<1>11. ASSUME NEW i \in 1..Len(k), k[i] # p
       PROVE  /\ i - 1 \in 1..Len(w) /\ i - 1 < i
              /\ pos[i - 1] \in 1..Len(list) /\ list[pos[i - 1]] = k[i]
  <2>1. i # 1
    BY <1>11, <1>3, <1>5
  <2>2. i - 1 \in 1..Len(w) /\ (i - 1) + 1 = i /\ i - 1 < i
    BY <2>1, <1>8
  <2>3. k[i] = w[i - 1]
    BY <2>2, <1>3, <1>5
  <2> QED BY <2>2, <2>3, <1>2 DEF Selects
<1>12. ASSUME NEW s \in ToSet(k) \ {p}, NEW q \in others, Store!Newer(list, q, s)
       PROVE  Store!Newer(k, q, s)
  <2>1. PICK a \in 1..Len(list), b \in 1..Len(list) : a < b /\ list[a] = q /\ list[b] = s
    BY <1>9, <1>12 DEF Store!Newer
  <2>2. PICK i \in 1..Len(w) : pos[i] = a
    BY <2>1, <1>2 DEF Selects
  <2>3. PICK j \in 1..Len(w) : pos[j] = b
    BY <2>1, <1>2 DEF Selects
  <2>4. i < j
    <3>1. ~(j < i) /\ i # j
      BY <2>1, <2>2, <2>3, <1>2 DEF Selects
    <3> QED BY <3>1, <1>8
  <2>5. w[i] = q /\ w[j] = s
    BY <2>1, <2>2, <2>3, <1>2 DEF Selects
  <2>6. o[i + 1] = q /\ o[j + 1] = s
    BY <2>5, <1>3
  <2>7. PICK m \in 1..Len(k) : k[m] = s
    BY <1>5, SeqElements
  <2>8. m \in 1..Len(o) /\ j + 1 \in 1..Len(o) /\ o[m] = o[j + 1]
    BY <2>6, <2>7, <1>3, <1>5, <1>8
  <2>9. m = j + 1
    <3>1. \A x, y \in 1..Len(o) : o[x] = o[y] => x = y
      BY <1>3, <1>4, SeqElements
    <3> QED BY <3>1, <2>8
  <2>10. i + 1 \in 1..Len(k) /\ i + 1 < m
    BY <2>4, <2>9, <1>8
  <2>11. k[i + 1] = q
    BY <2>6, <2>10, <1>5
  <2> QED BY <2>7, <2>10, <2>11, <1>9 DEF Store!Newer
<1>13. ASSUME NEW s \in ToSet(k) \ {p}, NEW q \in others, Store!Newer(k, q, s)
       PROVE  Store!Newer(list, q, s)
  <2>1. PICK i \in 1..Len(k), j \in 1..Len(k) : i < j /\ k[i] = q /\ k[j] = s
    BY <1>9, <1>13 DEF Store!Newer
  <2>2. /\ i - 1 \in 1..Len(w) /\ j - 1 \in 1..Len(w) /\ i - 1 < j - 1
        /\ pos[i - 1] \in DOMAIN list /\ list[pos[i - 1]] = q
        /\ pos[j - 1] \in DOMAIN list /\ list[pos[j - 1]] = s
    BY <2>1, <1>8, <1>9, <1>11
  <2>3. pos[i - 1] < pos[j - 1]
    BY <2>2, <1>2 DEF Selects
  <2> QED BY <2>2, <2>3 DEF Store!Newer
<1>14. Len(k) = IF n < 1 + Cardinality(others) THEN n ELSE 1 + Cardinality(others)
  BY <1>3, <1>5, <1>7
<1>15. ToSet(k) \subseteq others \cup {p}
  BY <1>5
<1>16. \A s \in ToSet(k) \ {p} : \A q \in others : Store!Newer(k, q, s) <=> Store!Newer(list, q, s)
  BY <1>12, <1>13
<1>17. /\ IsInjective(k) /\ (k # << >> => k[1] = p)
  BY <1>5, <1>10
<1> HIDE DEF others
<1>18. others = ToSet(index.list) \ {p} /\ list = index.list
  BY DEF others, list
<1>19. \A x : Store!IsInjective(x) <=> IsInjective(x)
  BY DEF Store!IsInjective, IsInjective
<1>20. \A x : Store!ToSet(x) = ToSet(x)
  BY DEF Store!ToSet, ToSet
<1>21. \A x : Store!Cardinality(x) = Cardinality(x)
  BY DEF Store!Cardinality, Cardinality
<1> QED BY <1>6, <1>14, <1>15, <1>16, <1>17, <1>18, <1>19, <1>20, <1>21 DEF Store!Retain

(* The index is written by a call that ends its write, or not at all. *)
LEMMA RetentionStep ==
  BaseInv /\ OrderlyInv /\ [Next]_vars => [orderly => Store!Next /\ Retains]_(index.list)
<1> SUFFICES ASSUME BaseInv, OrderlyInv, [Next]_vars, orderly, index'.list # index.list
             PROVE  Store!Next /\ Retains
  OBVIOUS
<1>0. Types /\ ListInv
  BY TypeParts DEF BaseInv
<1>1. PICK r \in Run : CloseIndex(r)
  BY <1>0 DEF Types, Files, Next, Idle, vars, Start, Copy, WriteRecord, ReadIndex, OpenIndex,
     Collect, Finish, Fails, Crash, BeginBuild, Visit, Parse, Built
<1>2. /\ At(r, "writing") /\ r \in InFlight
      /\ index'.list = Kept(run[r].seen, run[r].pair, run[r].limit)
  BY <1>1 DEF CloseIndex, At, InFlight, Busy
<1>3. run[r].seen = index.list
  BY <1>2 DEF OrderlyInv, Turn, At
<1>4. /\ run[r].pair \in Pair /\ run[r].limit \in Limits /\ run[r].limit \in Nat
      /\ index.list \in Seq(Pair) /\ IsInjective(index.list)
  BY <1>0, <1>2, LimitsAssumption DEF ListInv, InFlight, Types, Files
<1>5. Store!Retain(run[r].pair, run[r].limit)
  BY <1>2, <1>3, <1>4, CutRetains
<1> QED BY <1>2, <1>4, <1>5 DEF Retains, Store!Next

(* As long as runs take turns and nothing fails, the index is the history  *)
(* that SnapshotRetention promises: the last distinct snapshots, newest    *)
(* first, as many as the limit of the run that writes.                     *)
THEOREM RetentionImplemented == Spec => ImplementsRetention
<1>1. Init => Store!Init
  BY DEF Init, Store!Init
<1> QED BY <1>1, OrderlyInit, BaseInvariant, OrderlyStep, RetentionStep, PTL DEF Spec, ImplementsRetention
-----------------------------------------------------------------------------
(* The preview render cache. *)

Cache == INSTANCE PreviewRender

(* Digests and copies of files, cache keys (and renderings, which have     *)
(* their shape), and what the cache directory holds.                       *)
Contents == UNION {[fs -> Content] : fs \in SUBSET Cache!File}
Keyed == [vi : Vi, content : Contents]
Stored == [key : Keyed, html : Keyed \cup {Torn}, by : Render]

Distinct(list) == \A i, j \in 1..Len(list) : list[i].key = list[j].key => i = j

(* The directory without some documents. *)
LEMMA OthersStay ==
  ASSUME entries \in Seq(Stored), NEW keys
  PROVE  /\ Cache!Others(keys) \in Seq(Stored)
         /\ \A i \in 1..Len(Cache!Others(keys)) : \E j \in 1..Len(entries) :
               Cache!Others(keys)[i] = entries[j] /\ entries[j].key \notin keys
         /\ Distinct(entries) => Distinct(Cache!Others(keys))
<1> DEFINE gone == {e \in Cache!Entry : e.key \in keys}
           w == Without(entries, gone)
<1>1. Cache!Others(keys) = w
  BY Zenon DEF Cache!Others, Cache!Without, Without
<1>2. w \in Seq(Stored)
  BY FilterSelects
<1>3. PICK pos : Selects(entries, gone, Len(entries), w, pos)
  BY FilterSelects
<1>4. Len(w) \in Nat /\ Len(entries) \in Nat /\ DOMAIN entries = 1..Len(entries)
  BY <1>2, LenProperties
<1> HIDE DEF w
<1>5. \A j \in 1..Len(entries) : entries[j] \in gone <=> entries[j].key \in keys
  BY <1>4 DEF Cache!Entry
<1>6. ASSUME NEW i \in 1..Len(w)
      PROVE  pos[i] \in 1..Len(entries) /\ w[i] = entries[pos[i]] /\ entries[pos[i]].key \notin keys
  <2>1. pos[i] \in 1..Len(entries) /\ w[i] = entries[pos[i]] /\ entries[pos[i]] \notin gone
    BY <1>3 DEF Selects
  <2> HIDE DEF gone
  <2> QED BY <2>1, <1>5
<1>7. ASSUME Distinct(entries), NEW i \in 1..Len(w), NEW j \in 1..Len(w), w[i].key = w[j].key
      PROVE  i = j
  <2>1. pos[i] = pos[j]
    BY <1>6, <1>7 DEF Distinct
  <2>2. ~(i < j) /\ ~(j < i)
    <3>1. pos[i] \in Nat /\ pos[j] \in Nat
      BY <1>4, <1>6
    <3> QED BY <2>1, <3>1, <1>3 DEF Selects
  <2> QED BY <2>2, <1>4
<1> QED BY <1>1, <1>2, <1>6, <1>7 DEF Distinct

(* The directory after a document was written. *)
LEMMA NewestStored ==
  ASSUME entries \in Seq(Stored), Distinct(entries), NEW e \in Stored
  PROVE  /\ Cache!Newest(e) \in Seq(Stored) /\ Distinct(Cache!Newest(e))
         /\ \A i \in 1..Len(Cache!Newest(e)) :
               Cache!Newest(e)[i] = e \/ \E j \in 1..Len(entries) : Cache!Newest(e)[i] = entries[j]
<1> DEFINE w == Cache!Others({e.key})
           l == Append(w, e)
<1>1. /\ w \in Seq(Stored) /\ Distinct(w)
      /\ \A i \in 1..Len(w) : \E j \in 1..Len(entries) : w[i] = entries[j] /\ entries[j].key # e.key
  <2>1. /\ w \in Seq(Stored)
        /\ \A i \in 1..Len(w) : \E j \in 1..Len(entries) : w[i] = entries[j] /\ entries[j].key \notin {e.key}
        /\ Distinct(entries) => Distinct(w)
    BY Zenon, OthersStay
  <2> HIDE DEF w
  <2> QED BY <2>1
<1>2. Cache!Newest(e) = l
  BY DEF Cache!Newest
<1> HIDE DEF w
<1>3. /\ l \in Seq(Stored) /\ Len(l) = Len(w) + 1
      /\ l[Len(w) + 1] = e /\ \A i \in 1..Len(w) : l[i] = w[i]
  BY <1>1, AppendProperties
<1>4. Len(w) \in Nat
  BY <1>1, LenProperties
<1> HIDE DEF l
<1>5. \A i \in 1..Len(l) : i = Len(w) + 1 \/ i \in 1..Len(w)
  BY <1>3, <1>4
<1>6. Distinct(l)
  <2> SUFFICES ASSUME NEW i \in 1..Len(l), NEW j \in 1..Len(l), l[i].key = l[j].key PROVE i = j
    BY DEF Distinct
  <2>1. CASE i = Len(w) + 1 /\ j = Len(w) + 1
    BY <2>1
  <2>2. CASE i \in 1..Len(w) /\ j \in 1..Len(w)
    BY <2>2, <1>1, <1>3 DEF Distinct
  <2>3. \A k \in 1..Len(w) : l[k].key # e.key
    BY <1>1, <1>3
  <2> QED BY <2>1, <2>2, <2>3, <1>3, <1>5
<1>7. \A i \in 1..Len(l) : l[i] = e \/ \E j \in 1..Len(entries) : l[i] = entries[j]
  BY <1>1, <1>3, <1>5
<1> QED BY <1>2, <1>3, <1>6, <1>7

(* An eviction leaves at most as many documents as it has listed and is to *)
(* keep, whichever ones it could not stat.                                 *)
LEMMA ExcessLeavesEnough ==
  ASSUME entries \in Seq(Stored)
  PROVE  /\ IsFiniteSet(Cache!Keys)
         /\ \A unread : \A old \in Cache!Excess(unread) :
               Cardinality(Cache!Keys \ old) <= MaxEntries
<1> DEFINE n == Len(entries)
           g == [i \in 1..n |-> entries[i].key]
<1>1. n \in Nat /\ DOMAIN entries = 1..n
  BY LenProperties
<1>2. IsFiniteSet(Cache!Keys)
  <2>1. g \in Surjection(1..n, Cache!Keys)
    BY <1>1 DEF Surjection, Cache!Keys
  <2>2. IsFiniteSet(1..n)
    BY <1>1, FS_Interval
  <2> HIDE DEF n, g
  <2> QED BY <2>1, <2>2, FS_Surjection
<1>3. ASSUME NEW unread, NEW old \in Cache!Excess(unread)
      PROVE  Cardinality(Cache!Keys \ old) <= MaxEntries
  <2> DEFINE c == Cardinality(Cache!Keys)
  <2>1. old \subseteq Cache!Keys /\ Cardinality(old) = Cache!EvictCount(c)
    <3>1. \A x : Cache!Cardinality(x) = Cardinality(x)
      BY DEF Cache!Cardinality, Cardinality
    <3> QED BY <1>3, <3>1 DEF Cache!Excess
  <2>2. c \in Nat
    BY <1>2, FS_CardinalityType
  <2>3. Cardinality(Cache!Keys \ old) = c - Cardinality(Cache!Keys \cap old)
    BY <1>2, FS_Difference
  <2>4. Cache!Keys \cap old = old
    BY <2>1
  <2> HIDE DEF c
  <2>5. Cardinality(Cache!Keys \ old) = c - Cache!EvictCount(c)
    BY Zenon, <2>1, <2>3, <2>4
  <2> DEFINE rest == Cardinality(Cache!Keys \ old)
  <2> HIDE DEF rest
  <2>6. rest <= MaxEntries
    <3>1. rest = c - Cache!EvictCount(c)
      BY <2>5 DEF rest
    <3> QED BY ONLY <3>1, <2>2, CacheAssumption DEF Cache!EvictCount
  <2> QED BY <2>6 DEF rest
<1> QED BY <1>2, <1>3

(* What a render knows of its own at each stage: it has a document and     *)
(* copies of its files only once it made them, a digest of each before it  *)
(* stores anything, and selects documents to evict only to evict them.     *)
RenderTypes ==
    /\ tree \in [Cache!File -> Content \cup {Nothing}]
    /\ pc \in [Render -> {"idle", "planning", "hashing", "lookup", "missed", "copying",
                          "executing", "signing", "cleanup"} \cup Setting \cup Cache!Ended]
    /\ target \in [Render -> Vi \cup {Nothing}] /\ files \in [Render -> SUBSET Cache!File]
    /\ digest \in [Render -> Contents \cup {Nothing}] /\ staged \in [Render -> Contents]
    /\ html \in [Render -> Keyed \cup {Nothing, Torn}]
    /\ signature \in [Render -> Content \cup {Nothing}]
    /\ victims = [r \in Render |-> victims[r]] /\ edited \in [Render -> BOOLEAN]
    /\ entries \in Seq(Stored) /\ Distinct(entries)

(* In which order a render comes by what it has. *)
Stages(r) ==
    /\ pc[r] = "idle" => html[r] = Nothing
    /\ pc[r] # "idle" => target[r] \in Vi
    /\ pc[r] \notin {"idle", "planning"} => target[r] \in files[r]
    /\ pc[r] \in {"idle", "planning"} => digest[r] = Cache!Empty
    /\ pc[r] \in {"idle", "planning", "hashing", "lookup", "missed"} => staged[r] = Cache!Empty
    /\ pc[r] = "hashing" => digest[r] \in Contents
    /\ pc[r] \in {"missed", "copying", "executing"} => digest[r] \in [files[r] -> Content] \cup {Nothing}
    /\ pc[r] \in {"lookup"} \cup Setting => digest[r] \in [files[r] -> Content]
    /\ pc[r] \in {"executing", "signing"} \cup Setting => staged[r] \in [files[r] -> Content]
    /\ pc[r] \in {"signing"} \cup Setting => html[r] = Cache!RenderingOf(target[r], staged[r])
    /\ signature[r] # Nothing => pc[r] \in {"cleanup", "done"}
    /\ pc[r] # "evicting" => victims[r] = {}

(* What an unedited render has digested and copied is what the tree holds. *)
Unedited(r) ==
    ~edited[r] =>
        /\ pc[r] \in {"hashing", "lookup", "missed", "copying"} =>
              /\ pc[r] = "hashing" \/ digest[r] # Nothing =>
                    \A f \in DOMAIN digest[r] : digest[r][f] = tree[f]
              /\ \A f \in DOMAIN staged[r] : staged[r][f] = tree[f]
        /\ pc[r] = "executing" /\ digest[r] # Nothing => staged[r] = digest[r]
        /\ pc[r] \in Setting => staged[r] = digest[r]

RenderInv == RenderTypes /\ \A r \in Render : Stages(r) /\ Unedited(r)

LEMMA RenderInit == Cache!Init => RenderInv
<1> SUFFICES ASSUME Cache!Init PROVE RenderInv
  OBVIOUS
<1>1. Cache!Empty \in Contents
  <2>1. Cache!Empty \in [{} -> Content]
    BY DEF Cache!Empty
  <2> QED BY <2>1 DEF Contents
<1>2. RenderTypes
  BY <1>1 DEF Cache!Init, RenderTypes, Distinct
<1>3. ASSUME NEW r \in Render PROVE Stages(r) /\ Unedited(r)
  BY DEF Cache!Init, Stages, Unedited, Setting
<1> QED BY <1>2, <1>3 DEF RenderInv
(* A step of one render leaves the others as they are. *)
Untouched(q) ==
    /\ pc'[q] = pc[q] /\ target'[q] = target[q] /\ files'[q] = files[q]
    /\ digest'[q] = digest[q] /\ staged'[q] = staged[q] /\ html'[q] = html[q]
    /\ signature'[q] = signature[q] /\ victims'[q] = victims[q]

LEMMA OneRender ==
  ASSUME RenderInv, NEW r \in Render, tree' = tree, edited' = edited,
         \A q \in Render \ {r} : Untouched(q),
         RenderTypes', Stages(r)', Unedited(r)'
  PROVE  RenderInv'
<1> SUFFICES ASSUME NEW q \in Render \ {r} PROVE Stages(q)' /\ Unedited(q)'
  BY DEF RenderInv
<1>1. Untouched(q) /\ Stages(q) /\ Unedited(q)
  BY DEF RenderInv
<1>2. Stages(q)'
  BY <1>1 DEF Stages, Untouched
<1>3. Unedited(q)'
  BY <1>1 DEF Unedited, Untouched
<1> QED BY <1>2, <1>3

(* The digests or copies of files, and one more of them. *)
LEMMA OneMoreFile ==
  ASSUME NEW d \in Contents, NEW f \in Cache!File, NEW c \in Content
  PROVE  LET more == [g \in DOMAIN d \cup {f} |-> IF g = f THEN c ELSE d[g]]
         IN  more \in [DOMAIN d \cup {f} -> Content] /\ more \in Contents
<1>1. PICK fs \in SUBSET Cache!File : d \in [fs -> Content]
  BY DEF Contents
<1> DEFINE more == [g \in DOMAIN d \cup {f} |-> IF g = f THEN c ELSE d[g]]
<1>2. DOMAIN d = fs /\ \A g \in fs : d[g] \in Content
  BY <1>1
<1>3. more \in [DOMAIN d \cup {f} -> Content]
  BY <1>2
<1>4. DOMAIN d \cup {f} \in SUBSET Cache!File
  BY <1>2
<1> QED BY <1>3, <1>4 DEF Contents

LEMMA FilledContents ==
  ASSUME NEW fs \in SUBSET Cache!File PROVE [fs -> Content] \subseteq Contents
BY DEF Contents

(* A document is written: its html and its key are those of the render. *)
LEMMA SetStores ==
  ASSUME RenderInv, NEW r \in Render, pc[r] \in {"store", "writing"}
  PROVE  \A h \in {html[r], Torn} : [key |-> Cache!Key(r), html |-> h, by |-> r] \in Stored
<1>0. RenderTypes /\ Stages(r)
  BY DEF RenderInv
<1>1. /\ target[r] \in Vi /\ digest[r] \in [files[r] -> Content] /\ files[r] \in SUBSET Cache!File
      /\ html[r] = Cache!RenderingOf(target[r], staged[r]) /\ staged[r] \in Contents
  BY <1>0 DEF Stages, Setting, RenderTypes
<1>2. digest[r] \in Contents
  BY <1>1, FilledContents
<1>3. Cache!Key(r) \in Keyed /\ html[r] \in Keyed
  BY <1>1, <1>2 DEF Cache!Key, Cache!KeyOf, Cache!RenderingOf, Keyed
<1> QED BY <1>3 DEF Stored

LEMMA RenderStep == RenderInv /\ [Cache!Next]_(Cache!vars) => RenderInv'
<1> SUFFICES ASSUME RenderInv, [Cache!Next]_(Cache!vars) PROVE RenderInv'
  OBVIOUS
<1>0. RenderTypes
  BY DEF RenderInv
<1> USE DEF Cache!Goto
<1>1. ASSUME NEW r \in Render, Cache!RenderVi(r) PROVE RenderInv'
  <2>0. Stages(r) /\ Unedited(r)
    BY DEF RenderInv
  <2>1. RenderTypes'
    BY <1>1, <1>0 DEF Cache!RenderVi, RenderTypes
  <2>2. Stages(r)'
    BY <1>1, <1>0, <2>0 DEF Cache!RenderVi, RenderTypes, Stages, Setting
  <2>3. Unedited(r)'
    BY <1>1, <1>0 DEF Cache!RenderVi, RenderTypes, Unedited, Setting
  <2>4. \A q \in Render \ {r} : Untouched(q)
    BY <1>1, <1>0 DEF Cache!RenderVi, RenderTypes, Untouched
  <2>5. tree' = tree /\ edited' = edited
    BY <1>1 DEF Cache!RenderVi
  <2> QED BY <2>1, <2>2, <2>3, <2>4, <2>5, OneRender
<1>2. ASSUME NEW r \in Render, Cache!PlanStaging(r) PROVE RenderInv'
  <2>0. Stages(r) /\ pc[r] = "planning" /\ pc'[r] = "hashing"
    BY <1>2, <1>0 DEF RenderInv, Cache!PlanStaging, RenderTypes
  <2>1. RenderTypes'
    <3>1. target[r] \in Cache!File
      BY <2>0 DEF Stages, Cache!File
    <3>2. files' \in [Render -> SUBSET Cache!File]
      BY <3>1, <1>2, <1>0 DEF Cache!PlanStaging, RenderTypes, Cache!Existing
    <3> QED BY <3>2, <1>2, <1>0 DEF Cache!PlanStaging, RenderTypes
  <2>2. /\ digest[r] = Cache!Empty /\ staged[r] = Cache!Empty
        /\ digest' = digest /\ staged' = staged /\ victims' = victims /\ target' = target
        /\ signature' = signature
    BY <1>2, <2>0 DEF Cache!PlanStaging, Stages
  <2>3. target[r] \in files'[r]
    BY <1>2, <1>0 DEF Cache!PlanStaging, RenderTypes
  <2>4. Stages(r)'
    BY <2>0, <2>2, <2>3, <1>0 DEF RenderTypes, Stages, Setting
  <2>5. Unedited(r)'
    <3>1. DOMAIN Cache!Empty = {}
      BY DEF Cache!Empty
    <3> QED BY <3>1, <2>0, <2>2 DEF Unedited, Setting
  <2>6. \A q \in Render \ {r} : Untouched(q)
    BY <1>2, <1>0 DEF Cache!PlanStaging, RenderTypes, Untouched
  <2>7. tree' = tree /\ edited' = edited
    BY <1>2 DEF Cache!PlanStaging
  <2> QED BY <2>1, <2>4, <2>5, <2>6, <2>7, OneRender
<1>3. ASSUME NEW r \in Render, NEW f \in Cache!File, Cache!HashFile(r, f) PROVE RenderInv'
  <2> DEFINE more == [g \in DOMAIN digest[r] \cup {f} |-> IF g = f THEN tree[f] ELSE digest[r][g]]
  <2>0. Stages(r) /\ Unedited(r) /\ pc[r] = "hashing"
    BY <1>3 DEF RenderInv, Cache!HashFile
  <2>1. /\ tree' = tree /\ edited' = edited /\ target' = target /\ files' = files /\ staged' = staged
        /\ html' = html /\ signature' = signature /\ victims' = victims /\ entries' = entries
        /\ f \in files[r]
    BY <1>3 DEF Cache!HashFile
  <2>2. digest[r] \in Contents /\ staged[r] = Cache!Empty /\ DOMAIN Cache!Empty = {}
    BY <2>0 DEF Stages, Cache!Empty
  <2>3. CASE tree[f] = Nothing
    <3>1. digest' = [digest EXCEPT ![r] = Nothing] /\ pc' = [pc EXCEPT ![r] = "missed"]
      BY <1>3, <2>3 DEF Cache!HashFile
    <3>2. RenderTypes'
      BY <3>1, <2>1, <1>0 DEF RenderTypes
    <3>3. pc'[r] = "missed" /\ digest'[r] = Nothing
      BY <3>1, <1>0 DEF RenderTypes
    <3>4. Stages(r)'
      BY <3>3, <2>0, <2>1 DEF Stages, Setting
    <3>5. Unedited(r)'
      BY <3>3, <2>1, <2>2 DEF Unedited, Setting
    <3>6. \A q \in Render \ {r} : Untouched(q)
      BY <3>1, <2>1, <1>0 DEF RenderTypes, Untouched
    <3> QED BY <3>2, <3>4, <3>5, <3>6, <2>1, OneRender
  <2>4. CASE tree[f] # Nothing
    <3>1. /\ digest' = [digest EXCEPT ![r] = more]
          /\ \/ files[r] = DOMAIN digest[r] \cup {f} /\ pc' = [pc EXCEPT ![r] = "lookup"]
             \/ pc' = pc
      BY <1>3, <2>4 DEF Cache!HashFile
    <3>2. more \in [DOMAIN digest[r] \cup {f} -> Content] /\ more \in Contents
      <4>1. tree[f] \in Content
        BY <2>4, <1>0 DEF RenderTypes
      <4> QED BY <4>1, <2>2, OneMoreFile
    <3>3. ~edited[r] => \A g \in DOMAIN more : more[g] = tree[g]
      <4>1. ~edited[r] => \A g \in DOMAIN digest[r] : digest[r][g] = tree[g]
        BY <2>0 DEF Unedited
      <4> QED BY <4>1
    <3> HIDE DEF more
    <3>4. RenderTypes'
      BY <3>1, <3>2, <2>1, <1>0 DEF RenderTypes
    <3>5. /\ digest'[r] = more
          /\ \/ files[r] = DOMAIN digest[r] \cup {f} /\ pc'[r] = "lookup"
             \/ pc'[r] = "hashing"
      BY <3>1, <2>0, <1>0 DEF RenderTypes
    <3>6. Stages(r)'
      BY <3>2, <3>5, <2>0, <2>1 DEF Stages, Setting
    <3>7. Unedited(r)'
      BY <3>3, <3>5, <2>1, <2>2 DEF Unedited, Setting
    <3>8. \A q \in Render \ {r} : Untouched(q)
      BY <3>1, <2>1, <1>0 DEF RenderTypes, Untouched
    <3> QED BY <3>4, <3>6, <3>7, <3>8, <2>1, OneRender
  <2> QED BY <2>3, <2>4
<1>4. ASSUME NEW r \in Render, Cache!LookUp(r) PROVE RenderInv'
  <2>0. Stages(r) /\ Unedited(r) /\ pc[r] = "lookup"
    BY <1>4 DEF RenderInv, Cache!LookUp
  <2>1. /\ tree' = tree /\ edited' = edited /\ target' = target /\ files' = files /\ staged' = staged
        /\ digest' = digest /\ signature' = signature /\ victims' = victims /\ entries' = entries
    BY <1>4 DEF Cache!LookUp
  <2>2. PICK h \in Keyed \cup {Nothing, Torn} : html' = [html EXCEPT ![r] = h]
    <3>1. CASE \E i \in DOMAIN entries : html' = [html EXCEPT ![r] = entries[i].html]
      <4>1. PICK i \in DOMAIN entries : html' = [html EXCEPT ![r] = entries[i].html]
        BY <3>1
      <4>2. entries[i] \in Stored
        BY <1>0 DEF RenderTypes
      <4>3. entries[i].html \in Keyed \cup {Nothing, Torn}
        BY <4>2 DEF Stored
      <4> QED BY <4>1, <4>3
    <3>2. CASE html' = html
      <4>1. html[r] \in Keyed \cup {Nothing, Torn} /\ html' = [html EXCEPT ![r] = html[r]]
        BY <3>2, <1>0 DEF RenderTypes
      <4> QED BY <4>1
    <3> QED BY <3>1, <3>2, <1>4 DEF Cache!LookUp
  <2>3. PICK l \in {"hit", "missed"} : pc' = [pc EXCEPT ![r] = l]
    BY <1>4 DEF Cache!LookUp
  <2>4. RenderTypes'
    BY <2>1, <2>2, <2>3, <1>0 DEF RenderTypes, Cache!Ended
  <2>5. pc'[r] = l
    BY <2>3, <1>0 DEF RenderTypes
  <2>6. Stages(r)'
    BY <2>0, <2>1, <2>5 DEF Stages, Setting
  <2>7. Unedited(r)'
    BY <2>0, <2>1, <2>5 DEF Unedited, Setting
  <2>8. \A q \in Render \ {r} : Untouched(q)
    BY <2>1, <2>2, <2>3, <1>0 DEF RenderTypes, Untouched
  <2> QED BY <2>1, <2>4, <2>6, <2>7, <2>8, OneRender
<1>5. ASSUME NEW r \in Render, Cache!Miss(r) PROVE RenderInv'
  <2>0. Stages(r) /\ Unedited(r) /\ pc[r] = "missed"
    BY <1>5 DEF RenderInv, Cache!Miss
  <2>1. /\ tree' = tree /\ edited' = edited /\ target' = target /\ files' = files /\ staged' = staged
        /\ digest' = digest /\ signature' = signature /\ victims' = victims /\ entries' = entries
        /\ html' = html
    BY <1>5 DEF Cache!Miss
  <2>2. PICK l \in {"miss", "copying", "done"} : pc' = [pc EXCEPT ![r] = l]
    BY <1>5 DEF Cache!Miss
  <2>3. RenderTypes' /\ pc'[r] = l
    BY <2>1, <2>2, <1>0 DEF RenderTypes, Cache!Ended
  <2>4. Stages(r)'
    BY <2>0, <2>1, <2>3 DEF Stages, Setting
  <2>5. Unedited(r)'
    BY <2>0, <2>1, <2>3 DEF Unedited, Setting
  <2>6. \A q \in Render \ {r} : Untouched(q)
    BY <2>1, <2>2, <1>0 DEF RenderTypes, Untouched
  <2> QED BY <2>1, <2>3, <2>4, <2>5, <2>6, OneRender
<1>6. ASSUME NEW r \in Render, NEW f \in Cache!File, Cache!CopyFile(r, f) PROVE RenderInv'
  <2> DEFINE more == [g \in DOMAIN staged[r] \cup {f} |-> IF g = f THEN tree[f] ELSE staged[r][g]]
  <2>0. Stages(r) /\ Unedited(r) /\ pc[r] = "copying"
    BY <1>6 DEF RenderInv, Cache!CopyFile
  <2>1. /\ tree' = tree /\ edited' = edited /\ target' = target /\ files' = files /\ digest' = digest
        /\ html' = html /\ signature' = signature /\ victims' = victims /\ entries' = entries
        /\ f \in files[r]
    BY <1>6 DEF Cache!CopyFile
  <2>3. CASE tree[f] = Nothing
    <3>1. staged' = staged /\ pc' = [pc EXCEPT ![r] = "cleanup"]
      BY <1>6, <2>3 DEF Cache!CopyFile
    <3>2. RenderTypes' /\ pc'[r] = "cleanup"
      BY <3>1, <2>1, <1>0 DEF RenderTypes
    <3>3. Stages(r)'
      BY <3>1, <3>2, <2>0, <2>1 DEF Stages, Setting
    <3>4. Unedited(r)'
      BY <3>2, <2>1 DEF Unedited, Setting
    <3>5. \A q \in Render \ {r} : Untouched(q)
      BY <3>1, <2>1, <1>0 DEF RenderTypes, Untouched
    <3> QED BY <3>2, <3>3, <3>4, <3>5, <2>1, OneRender
  <2>4. CASE tree[f] # Nothing
    <3>1. /\ staged' = [staged EXCEPT ![r] = more]
          /\ \/ files[r] = DOMAIN staged[r] \cup {f} /\ pc' = [pc EXCEPT ![r] = "executing"]
             \/ pc' = pc
      BY <1>6, <2>4 DEF Cache!CopyFile
    <3>2. more \in [DOMAIN staged[r] \cup {f} -> Content] /\ more \in Contents
      <4>1. tree[f] \in Content /\ staged[r] \in Contents
        BY <2>4, <1>0 DEF RenderTypes
      <4> QED BY <4>1, OneMoreFile
    <3>3. ~edited[r] => \A g \in DOMAIN more : more[g] = tree[g]
      <4>1. ~edited[r] => \A g \in DOMAIN staged[r] : staged[r][g] = tree[g]
        BY <2>0 DEF Unedited
      <4> QED BY <4>1
    <3> HIDE DEF more
    <3>4. RenderTypes'
      BY <3>1, <3>2, <2>1, <1>0 DEF RenderTypes
    <3>5. /\ staged'[r] = more
          /\ \/ files[r] = DOMAIN staged[r] \cup {f} /\ pc'[r] = "executing"
             \/ pc'[r] = "copying"
      BY <3>1, <2>0, <1>0 DEF RenderTypes
    <3>6. Stages(r)'
      BY <3>2, <3>5, <2>0, <2>1 DEF Stages, Setting
    <3>7. Unedited(r)'
      <4>1. ASSUME ~edited[r], digest[r] # Nothing, files[r] = DOMAIN staged[r] \cup {f}
            PROVE  more = digest[r]
        <5>1. digest[r] \in [files[r] -> Content] /\ more \in [files[r] -> Content]
          BY <4>1, <3>2, <2>0 DEF Stages
        <5>2. \A g \in files[r] : digest[r][g] = tree[g] /\ more[g] = tree[g]
          BY <4>1, <5>1, <3>3, <2>0 DEF Unedited
        <5> QED BY <5>1, <5>2
      <4> QED BY <4>1, <3>3, <3>5, <2>0, <2>1 DEF Unedited, Setting
    <3>8. \A q \in Render \ {r} : Untouched(q)
      BY <3>1, <2>1, <1>0 DEF RenderTypes, Untouched
    <3> QED BY <3>4, <3>6, <3>7, <3>8, <2>1, OneRender
  <2> QED BY <2>3, <2>4
<1>7. ASSUME NEW r \in Render, Cache!Execute(r) PROVE RenderInv'
  <2>0. Stages(r) /\ Unedited(r) /\ pc[r] = "executing"
    BY <1>7 DEF RenderInv, Cache!Execute
  <2>1. /\ tree' = tree /\ edited' = edited /\ target' = target /\ files' = files /\ staged' = staged
        /\ digest' = digest /\ signature' = signature /\ victims' = victims /\ entries' = entries
    BY <1>7 DEF Cache!Execute
  <2> DEFINE h == Cache!RenderingOf(target[r], staged[r])
  <2>2. h \in Keyed
    BY <2>0, <1>0 DEF Stages, RenderTypes, Cache!RenderingOf, Keyed
  <2>3. \/ html' = [html EXCEPT ![r] = h] /\ pc' = [pc EXCEPT ![r] = IF digest[r] # Nothing THEN "store" ELSE "signing"]
        \/ html' = html /\ pc' = [pc EXCEPT ![r] = "cleanup"]
    BY <1>7 DEF Cache!Execute
  <2> HIDE DEF h
  <2>4. RenderTypes'
    BY <2>1, <2>2, <2>3, <1>0 DEF RenderTypes, Setting
  <2>5. \/ html'[r] = h /\ pc'[r] = IF digest[r] # Nothing THEN "store" ELSE "signing"
        \/ html'[r] = html[r] /\ pc'[r] = "cleanup"
    BY <2>3, <1>0 DEF RenderTypes
  <2>6. Stages(r)'
    BY <2>0, <2>1, <2>5 DEF Stages, Setting, h
  <2>7. Unedited(r)'
    BY <2>0, <2>1, <2>5 DEF Unedited, Setting
  <2>8. \A q \in Render \ {r} : Untouched(q)
    BY <2>1, <2>3, <1>0 DEF RenderTypes, Untouched
  <2> QED BY <2>1, <2>4, <2>6, <2>7, <2>8, OneRender
(* The stages from storing to the end change what a render made no more. *)
<1>9. ASSUME NEW r \in Render, tree' = tree, edited' = edited, target' = target, files' = files,
             staged' = staged, digest' = digest, html' = html,
             NEW l, pc' = [pc EXCEPT ![r] = l], NEW v, victims' = [victims EXCEPT ![r] = v],
             NEW s, signature' = [signature EXCEPT ![r] = s], s \in Content \cup {Nothing},
             /\ l # "evicting" => v = {}
             /\ s # Nothing => l \in {"cleanup", "done"}
             /\ \/ pc[r] \in Setting /\ l \in Setting \cup {"signing"}
                \/ pc[r] \in {"signing", "cleanup"} /\ l \in {"cleanup", "done"},
             entries' \in Seq(Stored), Distinct(entries)'
      PROVE  RenderInv'
  <2>0. Stages(r) /\ Unedited(r)
    BY DEF RenderInv
  <2>1. RenderTypes'
    <3>1. pc' \in [Render -> {"idle", "planning", "hashing", "lookup", "missed", "copying",
                          "executing", "signing", "cleanup"} \cup Setting \cup Cache!Ended]
      BY <1>9, <1>0 DEF RenderTypes, Cache!Ended
    <3>2. signature' \in [Render -> Content \cup {Nothing}] /\ victims' = [q \in Render |-> victims'[q]]
      BY <1>9, <1>0 DEF RenderTypes
    <3> QED BY <3>1, <3>2, <1>9, <1>0 DEF RenderTypes
  <2>2. pc'[r] = l /\ victims'[r] = v /\ signature'[r] = s
    BY <1>9, <1>0 DEF RenderTypes
  <2>3. Stages(r)'
    BY <2>0, <2>2, <1>9 DEF Stages, Setting
  <2>4. Unedited(r)'
    BY <2>0, <2>2, <1>9 DEF Unedited, Setting
  <2>5. \A q \in Render \ {r} : Untouched(q)
    BY <1>9, <1>0 DEF RenderTypes, Untouched
  <2> QED BY <2>1, <2>3, <2>4, <2>5, <1>9, OneRender
(* What a storing or ending step leaves in victims and signature. *)
<1>10. ASSUME NEW r \in Render
       PROVE  /\ victims = [victims EXCEPT ![r] = victims[r]]
              /\ signature = [signature EXCEPT ![r] = signature[r]]
              /\ signature[r] \in Content \cup {Nothing}
              /\ signature[r] # Nothing => pc[r] \in {"cleanup", "done"}
              /\ pc[r] # "evicting" => victims[r] = {}
  BY <1>0 DEF RenderTypes, RenderInv, Stages
(* The steps that write the directory keep them both. *)
<1>20. ASSUME NEW r \in Render, tree' = tree, edited' = edited, target' = target, files' = files,
             staged' = staged, digest' = digest, html' = html, victims' = victims, signature' = signature,
             pc[r] \in Setting \ {"evicting"}, NEW l \in (Setting \ {"evicting"}) \cup {"signing"},
             pc' = [pc EXCEPT ![r] = l], entries' \in Seq(Stored), Distinct(entries)'
      PROVE  RenderInv'
  <2> DEFINE v == victims[r]
             s == signature[r]
  <2>1. /\ victims' = [victims EXCEPT ![r] = v] /\ signature' = [signature EXCEPT ![r] = s]
        /\ s \in Content \cup {Nothing}
        /\ l # "evicting" => v = {}
        /\ s # Nothing => l \in {"cleanup", "done"}
        /\ pc[r] \in Setting /\ l \in Setting \cup {"signing"}
    BY <1>20, <1>10 DEF Setting
  <2> HIDE DEF v, s
  <2> QED BY ONLY <2>1, <1>20, <1>9
<1>11. ASSUME NEW r \in Render, Cache!SetBegins(r) PROVE RenderInv'
  <2> DEFINE e == [key |-> Cache!Key(r), html |-> Torn, by |-> r]
  <2>1. /\ tree' = tree /\ edited' = edited /\ target' = target /\ files' = files /\ staged' = staged
        /\ digest' = digest /\ signature' = signature /\ victims' = victims /\ html' = html
        /\ pc[r] = "store"
        /\ \/ pc' = [pc EXCEPT ![r] = "writing"] /\ entries' = Cache!Newest(e)
           \/ pc' = [pc EXCEPT ![r] = "signing"] /\ entries' = entries
    BY <1>11 DEF Cache!SetBegins
  <2>2. e \in Stored
    BY <2>1, SetStores
  <2> HIDE DEF e
  <2>3. entries' \in Seq(Stored) /\ Distinct(entries)'
    BY <2>1, <2>2, <1>0, NewestStored DEF RenderTypes
  <2>4. PICK l \in {"writing", "signing"} : pc' = [pc EXCEPT ![r] = l]
    BY <2>1
  <2>5. l \in (Setting \ {"evicting"}) \cup {"signing"} /\ "store" \in Setting \ {"evicting"}
    BY <2>4 DEF Setting
  <2> QED BY <2>1, <2>3, <2>4, <2>5, <1>20
<1>12. ASSUME NEW r \in Render, Cache!SetEnds(r) PROVE RenderInv'
  <2> DEFINE e == [key |-> Cache!Key(r), html |-> html[r], by |-> r]
  <2>1. /\ tree' = tree /\ edited' = edited /\ target' = target /\ files' = files /\ staged' = staged
        /\ digest' = digest /\ signature' = signature /\ victims' = victims /\ html' = html
        /\ pc[r] = "writing"
        /\ entries' = Cache!Newest(e) \/ entries' = entries
    BY <1>12 DEF Cache!SetEnds
  <2>2. e \in Stored
    BY <2>1, SetStores
  <2> HIDE DEF e
  <2>3. entries' \in Seq(Stored) /\ Distinct(entries)'
    BY <2>1, <2>2, <1>0, NewestStored DEF RenderTypes
  <2>4. PICK l \in {"listing", "signing"} : pc' = [pc EXCEPT ![r] = l]
    BY <1>12 DEF Cache!SetEnds
  <2>5. l \in (Setting \ {"evicting"}) \cup {"signing"} /\ "writing" \in Setting \ {"evicting"}
    BY <2>4 DEF Setting
  <2> QED BY <2>1, <2>3, <2>4, <2>5, <1>20
<1>13. ASSUME NEW r \in Render, Cache!EvictList(r) PROVE RenderInv'
  <2>1. /\ tree' = tree /\ edited' = edited /\ target' = target /\ files' = files /\ staged' = staged
        /\ digest' = digest /\ signature' = signature /\ html' = html /\ entries' = entries
        /\ pc[r] = "listing"
    BY <1>13 DEF Cache!EvictList
  <2>2. entries' \in Seq(Stored) /\ Distinct(entries)'
    BY <2>1, <1>0 DEF RenderTypes
  <2>3. "listing" \in Setting \ {"evicting"} /\ "evicting" \in Setting
    BY DEF Setting
  <2>4. CASE victims' = victims /\ pc' = [pc EXCEPT ![r] = "signing"]
    BY <2>1, <2>2, <2>3, <2>4, <1>20
  <2>5. CASE \E v : victims' = [victims EXCEPT ![r] = v] /\ pc' = [pc EXCEPT ![r] = "evicting"]
    <3>1. PICK v : victims' = [victims EXCEPT ![r] = v] /\ pc' = [pc EXCEPT ![r] = "evicting"]
      BY <2>5
    <3> QED BY <2>1, <2>2, <2>3, <3>1, <1>9, <1>10
  <2> QED BY <1>13, <2>4, <2>5 DEF Cache!EvictList
<1>14. ASSUME NEW r \in Render, Cache!EvictRemove(r) PROVE RenderInv'
  <2>1. /\ tree' = tree /\ edited' = edited /\ target' = target /\ files' = files /\ staged' = staged
        /\ digest' = digest /\ signature' = signature /\ html' = html
        /\ pc[r] = "evicting" /\ pc' = [pc EXCEPT ![r] = "signing"]
        /\ victims' = [victims EXCEPT ![r] = {}]
    BY <1>14 DEF Cache!EvictRemove
  <2>2. entries' \in Seq(Stored) /\ Distinct(entries)'
    <3>1. PICK gone : entries' = Cache!Others(gone)
      BY <1>14 DEF Cache!EvictRemove
    <3> QED BY <3>1, <1>0, OthersStay DEF RenderTypes
  <2>3. "evicting" \in Setting
    BY DEF Setting
  <2> QED BY <2>1, <2>2, <2>3, <1>9, <1>10
<1>15. ASSUME NEW r \in Render, Cache!Sign(r) PROVE RenderInv'
  <2>1. /\ tree' = tree /\ edited' = edited /\ target' = target /\ files' = files /\ staged' = staged
        /\ digest' = digest /\ victims' = victims /\ html' = html /\ entries' = entries
        /\ pc[r] = "signing" /\ pc' = [pc EXCEPT ![r] = "cleanup"]
    BY <1>15 DEF Cache!Sign
  <2>2. entries' \in Seq(Stored) /\ Distinct(entries)'
    BY <2>1, <1>0 DEF RenderTypes
  <2>3. PICK s \in {staged[r][target[r]], Nothing} : signature' = [signature EXCEPT ![r] = s]
    BY <1>15 DEF Cache!Sign, Cache!SignedBytes
  <2>4. s \in Content \cup {Nothing}
    <3>1. Stages(r)
      BY DEF RenderInv
    <3>2. staged[r] \in [files[r] -> Content] /\ target[r] \in files[r]
      BY <2>1, <3>1 DEF Stages
    <3> QED BY <2>3, <3>2
  <2> QED BY <2>1, <2>2, <2>3, <2>4, <1>9, <1>10
<1>16. ASSUME NEW r \in Render, Cache!Cleanup(r) PROVE RenderInv'
  <2>1. /\ tree' = tree /\ edited' = edited /\ target' = target /\ files' = files /\ staged' = staged
        /\ digest' = digest /\ victims' = victims /\ html' = html /\ entries' = entries
        /\ signature' = signature
        /\ pc[r] = "cleanup" /\ pc' = [pc EXCEPT ![r] = "done"]
    BY <1>16 DEF Cache!Cleanup
  <2>2. entries' \in Seq(Stored) /\ Distinct(entries)'
    BY <2>1, <1>0 DEF RenderTypes
  <2> QED BY <2>1, <2>2, <1>9, <1>10
<1>17. ASSUME Cache!Edit PROVE RenderInv'
  <2>1. /\ pc' = pc /\ target' = target /\ files' = files /\ staged' = staged /\ digest' = digest
        /\ victims' = victims /\ html' = html /\ entries' = entries /\ signature' = signature
        /\ edited' = [r \in Render |-> edited[r] \/ pc[r] \in {"hashing", "lookup", "missed", "copying"}]
    BY <1>17 DEF Cache!Edit, Cache!renderVars
  <2>2. tree' \in [Cache!File -> Content \cup {Nothing}]
    BY <1>17, <1>0 DEF Cache!Edit, RenderTypes
  <2>3. RenderTypes'
    BY <2>1, <2>2, <1>0 DEF RenderTypes
  <2>4. ASSUME NEW r \in Render PROVE Stages(r)' /\ Unedited(r)'
    <3>1. Stages(r) /\ Unedited(r)
      BY DEF RenderInv
    <3>2. Stages(r)'
      BY <3>1, <2>1 DEF Stages
    <3>3. Unedited(r)'
      BY <3>1, <2>1 DEF Unedited
    <3> QED BY <3>2, <3>3
  <2> QED BY <2>3, <2>4 DEF RenderInv
<1>18. ASSUME UNCHANGED Cache!vars PROVE RenderInv'
  <2>1. /\ pc' = pc /\ target' = target /\ files' = files /\ staged' = staged /\ digest' = digest
        /\ victims' = victims /\ html' = html /\ entries' = entries /\ signature' = signature
        /\ edited' = edited /\ tree' = tree
    BY <1>18 DEF Cache!vars, Cache!renderVars
  <2>2. RenderTypes'
    BY <2>1, <1>0 DEF RenderTypes
  <2>3. \A r \in Render : Stages(r)' /\ Unedited(r)'
    BY <2>1 DEF RenderInv, Stages, Unedited
  <2> QED BY <2>2, <2>3 DEF RenderInv
<1> QED BY <1>1, <1>2, <1>3, <1>4, <1>5, <1>6, <1>7, <1>11, <1>12, <1>13, <1>14, <1>15, <1>16, <1>17, <1>18
        DEF Cache!Next, Cache!Step, Cache!AtRest
LEMMA RenderInvariant == Cache!Spec => []RenderInv
BY RenderInit, RenderStep, PTL DEF Cache!Spec

(* No render digests or copies a file outside its staging plan. *)
WithinPlan(r) ==
    /\ digest[r] # Nothing \/ pc[r] = "hashing" => DOMAIN digest[r] \subseteq files[r]
    /\ DOMAIN staged[r] \subseteq files[r]
Rooms ==
    /\ edits \in 0..MaxEdits
    /\ cacheOnly \in [Render -> BOOLEAN] /\ workspace \in [Render -> BOOLEAN]
    /\ \A r \in Render : WithinPlan(r)

LEMMA RoomsStep == RenderInv /\ Rooms /\ [Cache!Next]_(Cache!vars) => Rooms'
<1> SUFFICES ASSUME RenderInv, Rooms, [Cache!Next]_(Cache!vars) PROVE Rooms'
  OBVIOUS
<1>0. RenderTypes /\ \A r \in Render : Stages(r) /\ WithinPlan(r)
  BY DEF RenderInv, Rooms
<1>1. ASSUME edits' = edits, cacheOnly' \in [Render -> BOOLEAN], workspace' \in [Render -> BOOLEAN],
             UNCHANGED <<files, digest, staged>>,
             \A r \in Render : pc'[r] = "hashing" => pc[r] = "hashing"
      PROVE  Rooms'
  BY <1>1 DEF Rooms, WithinPlan
<1>2. ASSUME NEW q \in Render, Cache!RenderVi(q) PROVE Rooms'
  <2>1. cacheOnly' \in [Render -> BOOLEAN]
    BY <1>2 DEF Cache!RenderVi, Rooms
  <2> QED BY <1>0, <1>1, <1>2, <2>1 DEF Cache!RenderVi, Cache!Goto, RenderTypes, Rooms
<1>3. ASSUME NEW q \in Render, Cache!PlanStaging(q) PROVE Rooms'
  <2>1. digest[q] = Cache!Empty /\ staged[q] = Cache!Empty /\ DOMAIN Cache!Empty = {}
    BY <1>0, <1>3 DEF Cache!PlanStaging, Stages, Cache!Empty
  <2>2. /\ \A r \in Render \ {q} : files'[r] = files[r]
        /\ \A r \in Render \ {q} : pc'[r] = pc[r]
        /\ UNCHANGED <<edits, cacheOnly, workspace, digest, staged>>
    BY <1>0, <1>3 DEF Cache!PlanStaging, Cache!Goto, RenderTypes
  <2> QED BY <1>0, <2>1, <2>2 DEF Rooms, WithinPlan
<1>4. ASSUME NEW q \in Render, NEW f \in Cache!File, Cache!HashFile(q, f) PROVE Rooms'
  <2>1. /\ f \in files[q] /\ pc[q] = "hashing" /\ digest[q] \in Contents
        /\ UNCHANGED <<edits, cacheOnly, workspace, files, staged>>
    BY <1>0, <1>4 DEF Cache!HashFile, Stages
  <2>2. \A r \in Render \ {q} : pc'[r] = pc[r]
    BY <1>0, <1>4 DEF Cache!HashFile, Cache!Goto, RenderTypes
  <2>3. CASE digest' = [digest EXCEPT ![q] = Nothing] /\ Cache!Goto(q, "missed")
    BY <1>0, <2>1, <2>2, <2>3 DEF Cache!Goto, Rooms, WithinPlan, RenderTypes
  <2>4. CASE digest' = [digest EXCEPT ![q] = [g \in DOMAIN digest[q] \cup {f} |->
                                                 IF g = f THEN tree[f] ELSE digest[q][g]]]
    <3>1. DOMAIN digest'[q] = DOMAIN digest[q] \cup {f} /\ \A r \in Render \ {q} : digest'[r] = digest[r]
      BY <1>0, <2>4 DEF RenderTypes
    <3> QED BY <1>0, <2>1, <2>2, <3>1 DEF Rooms, WithinPlan
  <2> QED BY <1>4, <2>3, <2>4 DEF Cache!HashFile
<1>5. ASSUME NEW q \in Render, NEW f \in Cache!File, Cache!CopyFile(q, f) PROVE Rooms'
  <2>1. /\ f \in files[q] /\ UNCHANGED <<edits, cacheOnly, workspace, files, digest>>
        /\ \A r \in Render : pc'[r] = "hashing" => pc[r] = "hashing"
    BY <1>0, <1>5 DEF Cache!CopyFile, Cache!Goto, RenderTypes
  <2>2. CASE staged' = staged
    BY <1>1, <2>1, <2>2 DEF Rooms
  <2>3. CASE staged' = [staged EXCEPT ![q] = [g \in DOMAIN staged[q] \cup {f} |->
                                                 IF g = f THEN tree[f] ELSE staged[q][g]]]
    <3>1. DOMAIN staged'[q] = DOMAIN staged[q] \cup {f} /\ \A r \in Render \ {q} : staged'[r] = staged[r]
      BY <1>0, <2>3 DEF RenderTypes
    <3> QED BY <1>0, <2>1, <3>1 DEF Rooms, WithinPlan
  <2> QED BY <1>5, <2>2, <2>3 DEF Cache!CopyFile
<1>6. ASSUME NEW q \in Render, Cache!Miss(q) PROVE Rooms'
  <2>1. workspace' \in [Render -> BOOLEAN]
    BY <1>6 DEF Cache!Miss, Rooms
  <2> QED BY <1>0, <1>1, <1>6, <2>1 DEF Cache!Miss, Cache!Goto, RenderTypes, Rooms
<1>7. ASSUME NEW q \in Render, Cache!Cleanup(q) PROVE Rooms'
  <2>1. workspace' \in [Render -> BOOLEAN]
    BY <1>7 DEF Cache!Cleanup, Cache!Removed, Rooms
  <2> QED BY <1>0, <1>1, <1>7, <2>1 DEF Cache!Cleanup, Cache!Goto, RenderTypes, Rooms
<1>8. ASSUME NEW q \in Render, Cache!LookUp(q) \/ Cache!Execute(q) \/ Cache!Sign(q) PROVE Rooms'
  <2>1. \A r \in Render : pc'[r] = "hashing" => pc[r] = "hashing"
    BY <1>0, <1>8 DEF Cache!LookUp, Cache!Execute, Cache!Sign, Cache!Goto, RenderTypes
  <2> QED BY <1>1, <1>8, <2>1 DEF Cache!LookUp, Cache!Execute, Cache!Sign, Rooms
<1>9. ASSUME NEW q \in Render, \/ Cache!SetBegins(q) \/ Cache!SetEnds(q)
                               \/ Cache!EvictList(q) \/ Cache!EvictRemove(q)
      PROVE  Rooms'
  <2>1. \A r \in Render : pc'[r] = "hashing" => pc[r] = "hashing"
    BY <1>0, <1>9 DEF Cache!SetBegins, Cache!SetEnds, Cache!EvictList, Cache!EvictRemove, Cache!Goto, RenderTypes
  <2> QED BY <1>1, <1>9, <2>1 DEF Cache!SetBegins, Cache!SetEnds, Cache!EvictList, Cache!EvictRemove, Rooms
<1>10. CASE Cache!Edit
  <2>1. edits' \in 0..MaxEdits
    BY <1>10, CacheAssumption DEF Cache!Edit, Rooms
  <2> QED BY <1>10, <2>1 DEF Cache!Edit, Cache!renderVars, Rooms, WithinPlan
<1>11. CASE UNCHANGED Cache!vars
  BY <1>1, <1>11 DEF Cache!vars, Cache!renderVars, Rooms
<1> QED BY <1>2, <1>3, <1>4, <1>5, <1>6, <1>7, <1>8, <1>9, <1>10, <1>11
        DEF Cache!Next, Cache!Step, Cache!AtRest

(* The renders have their types: none digests or copies a file that its    *)
(* staging plan does not name.                                             *)
THEOREM RenderTyping == Cache!Spec => []Cache!TypeOK
<1>1. Cache!Init => Rooms
  <2> SUFFICES ASSUME Cache!Init PROVE Rooms
    OBVIOUS
  <2>1. DOMAIN Cache!Empty = {}
    BY DEF Cache!Empty
  <2>2. 0 \in 0..MaxEdits
    BY CacheAssumption
  <2> QED BY <2>1, <2>2 DEF Cache!Init, Rooms, WithinPlan
<1>2. RenderInv /\ Rooms => Cache!TypeOK
  BY DEF RenderInv, RenderTypes, Rooms, WithinPlan, Cache!TypeOK, Setting, Cache!Setting
<1> QED BY <1>1, <1>2, RenderInvariant, RoomsStep, PTL DEF Cache!Spec

(* Which step changes what a render has, and what the directory holds. *)
LEMMA RenderMoves ==
  ASSUME RenderTypes, [Cache!Next]_(Cache!vars), NEW r \in Render
  PROVE  /\ html'[r] = html[r] \/ Cache!LookUp(r) \/ Cache!Execute(r)
         /\ target'[r] = target[r] \/ Cache!RenderVi(r)
         /\ signature'[r] = signature[r] \/ Cache!Sign(r)
         /\ edited[r] => edited'[r]
         /\ victims'[r] = victims[r] \/ Cache!EvictList(r) \/ Cache!EvictRemove(r)
         /\ pc[r] \in Setting => digest'[r] = digest[r] /\ target'[r] = target[r]
         /\ pc[r] = "writing" => pc'[r] = "writing" \/ Cache!SetEnds(r)
         /\ pc[r] = "listing" => pc'[r] = "listing" \/ Cache!EvictList(r)
         /\ spared' = spared \/ \E q \in Render : \/ Cache!SetEnds(q) \/ Cache!EvictList(q)
                                                    \/ Cache!EvictRemove(q)
<1> DEFINE Moves == /\ html'[r] = html[r] \/ Cache!LookUp(r) \/ Cache!Execute(r)
                    /\ target'[r] = target[r] \/ Cache!RenderVi(r)
                    /\ signature'[r] = signature[r] \/ Cache!Sign(r)
                    /\ edited[r] => edited'[r]
                    /\ victims'[r] = victims[r] \/ Cache!EvictList(r) \/ Cache!EvictRemove(r)
                    /\ pc[r] \in Setting => digest'[r] = digest[r] /\ target'[r] = target[r]
                    /\ pc[r] = "writing" => pc'[r] = "writing" \/ Cache!SetEnds(r)
                    /\ pc[r] = "listing" => pc'[r] = "listing" \/ Cache!EvictList(r)
                    /\ spared' = spared \/ \E q \in Render : \/ Cache!SetEnds(q) \/ Cache!EvictList(q)
                                                               \/ Cache!EvictRemove(q)
<1> USE DEF Cache!Goto, RenderTypes, Setting
<1>1. ASSUME NEW q \in Render, Cache!RenderVi(q) PROVE Moves
  BY <1>1 DEF Cache!RenderVi
<1>2. ASSUME NEW q \in Render, Cache!PlanStaging(q) PROVE Moves
  BY <1>2 DEF Cache!PlanStaging
<1>3. ASSUME NEW q \in Render, NEW f \in Cache!File, Cache!HashFile(q, f) PROVE Moves
  BY <1>3 DEF Cache!HashFile
<1>4. ASSUME NEW q \in Render, Cache!LookUp(q) PROVE Moves
  BY <1>4 DEF Cache!LookUp
<1>5. ASSUME NEW q \in Render, Cache!Miss(q) PROVE Moves
  BY <1>5 DEF Cache!Miss
<1>6. ASSUME NEW q \in Render, NEW f \in Cache!File, Cache!CopyFile(q, f) PROVE Moves
  BY <1>6 DEF Cache!CopyFile
<1>7. ASSUME NEW q \in Render, Cache!Execute(q) PROVE Moves
  BY <1>7 DEF Cache!Execute
<1>8. ASSUME NEW q \in Render, Cache!SetBegins(q) PROVE Moves
  BY <1>8 DEF Cache!SetBegins
<1>9. ASSUME NEW q \in Render, Cache!SetEnds(q) PROVE Moves
  BY <1>9 DEF Cache!SetEnds
<1>10. ASSUME NEW q \in Render, Cache!EvictList(q) PROVE Moves
  BY <1>10 DEF Cache!EvictList
<1>11. ASSUME NEW q \in Render, Cache!EvictRemove(q) PROVE Moves
  BY <1>11 DEF Cache!EvictRemove
<1>12. ASSUME NEW q \in Render, Cache!Sign(q) PROVE Moves
  BY <1>12 DEF Cache!Sign
<1>13. ASSUME NEW q \in Render, Cache!Cleanup(q) PROVE Moves
  BY <1>13 DEF Cache!Cleanup
<1>14. ASSUME Cache!Edit PROVE Moves
  BY <1>14 DEF Cache!Edit, Cache!renderVars
<1>15. ASSUME UNCHANGED Cache!vars PROVE Moves
  BY <1>15 DEF Cache!vars, Cache!renderVars
<1> QED BY <1>1, <1>2, <1>3, <1>4, <1>5, <1>6, <1>7, <1>8, <1>9, <1>10, <1>11, <1>12, <1>13, <1>14, <1>15
        DEF Cache!Next, Cache!Step, Cache!AtRest

(* Who changes the directory. *)
LEMMA DirectoryMoves ==
  ASSUME [Cache!Next]_(Cache!vars)
  PROVE  \/ entries' = entries
         \/ \E q \in Render : Cache!SetBegins(q) \/ Cache!SetEnds(q) \/ Cache!EvictRemove(q)
BY DEF Cache!Next, Cache!Step, Cache!AtRest, Cache!vars, Cache!Edit, Cache!RenderVi,
   Cache!PlanStaging, Cache!HashFile, Cache!LookUp, Cache!Miss, Cache!CopyFile, Cache!Execute,
   Cache!EvictList, Cache!Sign, Cache!Cleanup

(* What a document in the directory comes from. *)
LEMMA EntryMoves ==
  ASSUME RenderInv, [Cache!Next]_(Cache!vars), NEW i \in DOMAIN entries'
  PROVE  \/ \E j \in DOMAIN entries : entries'[i] = entries[j]
         \/ entries'[i].html = Torn
         \/ \E q \in Render :
              /\ pc[q] = "writing"
              /\ entries'[i] = [key |-> Cache!Key(q), html |-> html[q], by |-> q]
<1>0. RenderInv'
  BY RenderStep
<1>1. /\ entries \in Seq(Stored) /\ Distinct(entries) /\ entries' \in Seq(Stored)
      /\ DOMAIN entries = 1..Len(entries) /\ DOMAIN entries' = 1..Len(entries')
  BY <1>0, LenProperties DEF RenderInv, RenderTypes
<1>2. ASSUME entries' = entries
      PROVE  \E j \in DOMAIN entries : entries'[i] = entries[j]
  BY <1>2
<1>3. ASSUME NEW q \in Render, NEW h \in {html[q], Torn}, pc[q] \in {"store", "writing"},
             entries' = Cache!Newest([key |-> Cache!Key(q), html |-> h, by |-> q])
      PROVE  \/ \E j \in DOMAIN entries : entries'[i] = entries[j]
             \/ entries'[i] = [key |-> Cache!Key(q), html |-> h, by |-> q]
  <2> DEFINE e == [key |-> Cache!Key(q), html |-> h, by |-> q]
  <2>1. e \in Stored
    BY <1>3, SetStores
  <2> HIDE DEF e
  <2>2. entries' = Cache!Newest(e)
    BY <1>3 DEF e
  <2>3. \A k \in 1..Len(Cache!Newest(e)) :
           Cache!Newest(e)[k] = e \/ \E j \in 1..Len(entries) : Cache!Newest(e)[k] = entries[j]
    BY <1>1, <2>1, NewestStored
  <2> QED BY <1>1, <2>2, <2>3 DEF e
<1>4. ASSUME NEW q \in Render, Cache!SetBegins(q)
      PROVE  (\E j \in DOMAIN entries : entries'[i] = entries[j]) \/ entries'[i].html = Torn
  <2>1. CASE entries' = entries
    BY <2>1, <1>2
  <2>2. CASE entries' = Cache!Newest([key |-> Cache!Key(q), html |-> Torn, by |-> q])
    <3>1. pc[q] = "store"
      BY <1>4 DEF Cache!SetBegins
    <3>2. \/ \E j \in DOMAIN entries : entries'[i] = entries[j]
          \/ entries'[i] = [key |-> Cache!Key(q), html |-> Torn, by |-> q]
      BY <2>2, <3>1, <1>3
    <3> QED BY <3>2
  <2> QED BY <2>1, <2>2, <1>4 DEF Cache!SetBegins
<1>5. ASSUME NEW q \in Render, Cache!SetEnds(q)
      PROVE  \/ \E j \in DOMAIN entries : entries'[i] = entries[j]
             \/ entries'[i] = [key |-> Cache!Key(q), html |-> html[q], by |-> q]
  <2>1. CASE entries' = entries
    BY <2>1, <1>2
  <2>2. CASE entries' = Cache!Newest([key |-> Cache!Key(q), html |-> html[q], by |-> q])
    BY <2>2, <1>3, <1>5 DEF Cache!SetEnds
  <2> QED BY <2>1, <2>2, <1>5 DEF Cache!SetEnds
<1>6. ASSUME NEW q \in Render, Cache!EvictRemove(q)
      PROVE  \E j \in DOMAIN entries : entries'[i] = entries[j]
  <2>1. PICK gone : entries' = Cache!Others(gone)
    BY <1>6 DEF Cache!EvictRemove
  <2>2. \A k \in 1..Len(Cache!Others(gone)) : \E j \in 1..Len(entries) :
           Cache!Others(gone)[k] = entries[j]
    BY <1>1, OthersStay
  <2> QED BY <1>1, <2>1, <2>2
<1>7. ASSUME NEW q \in Render, Cache!SetEnds(q) PROVE pc[q] = "writing"
  BY <1>7 DEF Cache!SetEnds
<1> QED BY <1>2, <1>4, <1>5, <1>6, <1>7, DirectoryMoves
(* The cache is content-addressed: a document stored by a render whose     *)
(* files were not edited under it is the rendering of exactly its key.     *)
THEOREM CacheKeepsItsKeys == Cache!Spec => []KeyedContent
<1>1. Cache!Init => KeyedContent
  BY DEF Cache!Init, KeyedContent
<1>2. RenderInv /\ KeyedContent /\ [Cache!Next]_(Cache!vars) => KeyedContent'
  <2> SUFFICES ASSUME RenderInv, KeyedContent, [Cache!Next]_(Cache!vars),
                      NEW i \in DOMAIN entries',
                      Document(entries'[i].html), ~edited'[entries'[i].by]
               PROVE  entries'[i].html = entries'[i].key
    BY DEF KeyedContent, Document
  <2>1. RenderTypes /\ \A r \in Render : edited[r] => edited'[r]
    BY RenderMoves DEF RenderInv
  <2>2. CASE \E j \in DOMAIN entries : entries'[i] = entries[j]
    <3>1. PICK j \in DOMAIN entries : entries'[i] = entries[j]
      BY <2>2
    <3>2. entries[j] \in Stored
      BY <2>1 DEF RenderTypes
    <3>3. entries[j].by \in Render
      BY <3>2 DEF Stored
    <3>4. ~edited[entries[j].by]
      BY <3>1, <3>3, <2>1
    <3> QED BY <3>1, <3>4 DEF KeyedContent
  <2>3. CASE entries'[i].html = Torn
    BY <2>3 DEF Document
  <2>4. ASSUME NEW q \in Render, pc[q] = "writing",
               entries'[i] = [key |-> Cache!Key(q), html |-> html[q], by |-> q]
        PROVE  entries'[i].html = entries'[i].key
    <3>1. ~edited[q]
      BY <2>1, <2>4
    <3>2. Stages(q) /\ Unedited(q)
      BY DEF RenderInv
    <3>3. staged[q] = digest[q] /\ html[q] = Cache!RenderingOf(target[q], staged[q])
      BY <3>1, <3>2, <2>4 DEF Stages, Unedited, Setting
    <3> QED BY <3>3, <2>4 DEF Cache!Key, Cache!KeyOf, Cache!RenderingOf
  <2> QED BY <2>2, <2>3, <2>4, EntryMoves
<1> QED BY <1>1, <1>2, RenderInvariant, PTL DEF Cache!Spec

(* Every document in the directory shows the VI its key names, and every   *)
(* document a render returns shows its target.                             *)
ShowsItsVi ==
    /\ \A i \in DOMAIN entries : Document(entries[i].html) => entries[i].html.vi = entries[i].key.vi
    /\ ServesItsTarget

(* No render returns the document of another VI, also when both stage the  *)
(* same files (#646).                                                      *)
THEOREM RenderServesItsTarget == Cache!Spec => []ServesItsTarget
<1>1. Cache!Init => ShowsItsVi
  BY DEF Cache!Init, ShowsItsVi, ServesItsTarget, Document
<1>2. RenderInv /\ ShowsItsVi /\ [Cache!Next]_(Cache!vars) => ShowsItsVi'
  <2> SUFFICES ASSUME RenderInv, ShowsItsVi, [Cache!Next]_(Cache!vars) PROVE ShowsItsVi'
    OBVIOUS
  <2>1. RenderTypes
    BY DEF RenderInv
  <2>2. ASSUME NEW i \in DOMAIN entries', Document(entries'[i].html)
        PROVE  entries'[i].html.vi = entries'[i].key.vi
    <3>1. CASE \E j \in DOMAIN entries : entries'[i] = entries[j]
      BY <3>1, <2>2 DEF ShowsItsVi
    <3>2. CASE entries'[i].html = Torn
      BY <3>2, <2>2 DEF Document
    <3>3. ASSUME NEW q \in Render, pc[q] = "writing",
                 entries'[i] = [key |-> Cache!Key(q), html |-> html[q], by |-> q]
          PROVE  entries'[i].html.vi = entries'[i].key.vi
      <4>1. html[q] = Cache!RenderingOf(target[q], staged[q])
        BY <3>3 DEF RenderInv, Stages, Setting
      <4> QED BY <4>1, <3>3 DEF Cache!Key, Cache!KeyOf, Cache!RenderingOf
    <3> QED BY <3>1, <3>2, <3>3, EntryMoves
  <2>3. ASSUME NEW r \in Render, Document(html'[r]) PROVE html'[r].vi = target'[r]
    <3>1. CASE Cache!LookUp(r)
      <4>1. target' = target
        BY <3>1 DEF Cache!LookUp
      <4>2. CASE html' = html
        BY <4>1, <4>2, <2>3 DEF ShowsItsVi, ServesItsTarget
      <4>3. ASSUME NEW i \in DOMAIN entries, entries[i].key = Cache!Key(r),
                   html' = [html EXCEPT ![r] = entries[i].html]
            PROVE  html'[r].vi = target'[r]
        <5>1. html'[r] = entries[i].html
          BY <4>3, <2>1 DEF RenderTypes
        <5>2. entries[i].html.vi = entries[i].key.vi
          BY <5>1, <2>3 DEF ShowsItsVi
        <5>3. entries[i].key.vi = target[r]
          BY <4>3 DEF Cache!Key, Cache!KeyOf
        <5> QED BY <5>1, <5>2, <5>3, <4>1
      <4> QED BY <3>1, <4>2, <4>3 DEF Cache!LookUp
    <3>2. CASE Cache!Execute(r)
      <4>1. target' = target
        BY <3>2 DEF Cache!Execute
      <4>2. CASE html' = html
        BY <4>1, <4>2, <2>3 DEF ShowsItsVi, ServesItsTarget
      <4>3. CASE html' = [html EXCEPT ![r] = Cache!RenderingOf(target[r], staged[r])]
        BY <4>1, <4>3, <2>1 DEF RenderTypes, Cache!RenderingOf
      <4> QED BY <3>2, <4>2, <4>3 DEF Cache!Execute
    <3>3. CASE Cache!RenderVi(r)
      <4>1. html' = html /\ pc[r] = "idle"
        BY <3>3 DEF Cache!RenderVi
      <4>2. html[r] = Nothing
        BY <4>1 DEF RenderInv, Stages
      <4> QED BY <4>1, <4>2, <2>3 DEF Document
    <3>4. CASE html'[r] = html[r] /\ target'[r] = target[r]
      BY <3>4, <2>3 DEF ShowsItsVi, ServesItsTarget
    <3> QED BY <3>1, <3>2, <3>3, <3>4, <2>1, RenderMoves
  <2> QED BY <2>2, <2>3 DEF ShowsItsVi, ServesItsTarget, Document
<1>3. ShowsItsVi => ServesItsTarget
  BY DEF ShowsItsVi
<1> QED BY <1>1, <1>2, <1>3, RenderInvariant, PTL DEF Cache!Spec

(* The exact-frame guard (#2363): the signature a live render returns is   *)
(* that of the VI bytes its document shows, edits notwithstanding.         *)
THEOREM RenderSignsItsFrame == Cache!Spec => []SignatureOfTheFrame
<1>1. Cache!Init => SignatureOfTheFrame
  BY DEF Cache!Init, SignatureOfTheFrame
<1>2. RenderInv /\ SignatureOfTheFrame /\ [Cache!Next]_(Cache!vars) => SignatureOfTheFrame'
  <2> SUFFICES ASSUME RenderInv, SignatureOfTheFrame, [Cache!Next]_(Cache!vars),
                      NEW r \in Render, signature'[r] # Nothing
               PROVE  signature'[r] = html'[r].content[target'[r]]
    BY DEF SignatureOfTheFrame
  <2>1. RenderTypes /\ Stages(r)
    BY DEF RenderInv
  <2>2. CASE Cache!Sign(r)
    <3>1. html' = html /\ target' = target /\ pc[r] = "signing"
      BY <2>2 DEF Cache!Sign
    <3>2. signature'[r] = staged[r][target[r]]
      BY <2>1, <2>2 DEF Cache!Sign, Cache!SignedBytes, RenderTypes
    <3>3. html[r] = Cache!RenderingOf(target[r], staged[r])
      BY <2>1, <3>1 DEF Stages
    <3> QED BY <3>1, <3>2, <3>3 DEF Cache!RenderingOf
  <2>3. CASE signature'[r] = signature[r]
    <3>1. pc[r] \in {"cleanup", "done"}
      BY <2>1, <2>3 DEF Stages
    <3>2. ~Cache!LookUp(r) /\ ~Cache!Execute(r) /\ ~Cache!RenderVi(r)
      BY <3>1 DEF Cache!LookUp, Cache!Execute, Cache!RenderVi
    <3>3. html'[r] = html[r] /\ target'[r] = target[r]
      BY <2>1, <3>2, RenderMoves
    <3> QED BY <2>3, <3>3 DEF SignatureOfTheFrame
  <2> QED BY <2>1, <2>2, <2>3, RenderMoves
<1> QED BY <1>1, <1>2, RenderInvariant, PTL DEF Cache!Spec

(* What is selected for eviction, what a render in progress has written or *)
(* is writing, and the rest: never more than the limit.  A render adds no  *)
(* document that it does not list, that an eviction has not selected, or   *)
(* that a failure has not left behind.                                     *)
Selected == UNION {victims[r] : r \in Render}
Pending == {Cache!Key(r) : r \in {q \in Render : pc[q] \in {"writing", "listing"}}}
Excused == Selected \cup Pending \cup spared
ListedEnough == Cardinality(Cache!Keys \ Excused) <= MaxEntries

(* Whatever sets overlap, once none is in progress the cache is within its *)
(* limit, but for the documents of failed or unlimited sets and those that *)
(* could not be removed since the last eviction that listed the directory. *)
THEOREM CacheWithinLimit == Cache!Spec => []CacheBounded
<1> USE CacheAssumption
<1>1. Cache!Init => ListedEnough
  <2> SUFFICES ASSUME Cache!Init PROVE Cardinality(Cache!Keys \ Excused) <= MaxEntries
    BY DEF ListedEnough
  <2>1. Cache!Keys = {}
    BY DEF Cache!Init, Cache!Keys
  <2>2. Cache!Keys \ Excused = {}
    BY <2>1
  <2> QED BY <2>2, FS_EmptySet
<1>2. RenderInv /\ ListedEnough /\ [Cache!Next]_(Cache!vars) => ListedEnough'
  <2> SUFFICES ASSUME RenderInv, ListedEnough, [Cache!Next]_(Cache!vars)
               PROVE  Cardinality(Cache!Keys' \ Excused') <= MaxEntries
    BY DEF ListedEnough
  <2>1. /\ RenderTypes /\ entries \in Seq(Stored) /\ Distinct(entries) /\ IsFiniteSet(Cache!Keys)
        /\ \A unread : \A old \in Cache!Excess(unread) : Cardinality(Cache!Keys \ old) <= MaxEntries
    <3>1. RenderTypes /\ entries \in Seq(Stored) /\ Distinct(entries)
      BY DEF RenderInv, RenderTypes
    <3> QED BY <3>1, ExcessLeavesEnough
  <2>2. ASSUME NEW K, K \subseteq Cache!Keys, Cardinality(K) <= MaxEntries,
               Cache!Keys' \ Excused' \subseteq K
        PROVE  Cardinality(Cache!Keys' \ Excused') <= MaxEntries
    <3>1. IsFiniteSet(K) /\ Cardinality(K) \in Nat
      BY <2>1, <2>2, FS_Subset, FS_CardinalityType
    <3>2. IsFiniteSet(Cache!Keys' \ Excused') /\ Cardinality(Cache!Keys' \ Excused') <= Cardinality(K)
      BY <2>2, <3>1, FS_Subset
    <3>3. Cardinality(Cache!Keys' \ Excused') \in Nat
      BY <3>2, FS_CardinalityType
    <3> QED BY <2>2, <3>1, <3>2, <3>3
  <2>3. ASSUME Cache!Keys' \ Excused' \subseteq Cache!Keys \ Excused
        PROVE  Cardinality(Cache!Keys' \ Excused') <= MaxEntries
    BY <2>2, <2>3 DEF ListedEnough
  (* A render in progress stays so, with its key, until it ends its set. *)
  <2>4. ASSUME NEW q \in Render, pc[q] \in {"writing", "listing"}
        PROVE  \/ pc'[q] \in {"writing", "listing"} /\ Cache!Key(q)' = Cache!Key(q)
               \/ Cache!SetEnds(q) \/ Cache!EvictList(q)
    BY <2>1, <2>4, RenderMoves DEF Setting, Cache!Key
  <2>5. ASSUME spared \subseteq spared', \A q \in Render : victims'[q] = victims[q],
               \A q \in Render : pc[q] \in {"writing", "listing"} =>
                  Cache!Key(q) \in Pending' \cup spared'
        PROVE  Excused \subseteq Excused'
    BY <2>5 DEF Excused, Selected, Pending
  <2>6. ASSUME \A q \in Render : ~Cache!SetEnds(q) /\ ~Cache!EvictList(q) PROVE Pending \subseteq Pending'
    BY <2>4, <2>6 DEF Pending
  <2>7. CASE \E q \in Render : Cache!EvictList(q)
    <3>1. PICK q \in Render : Cache!EvictList(q)
      BY <2>7
    <3>2. /\ entries' = entries /\ Cache!Keys' = Cache!Keys /\ pc[q] = "listing"
          /\ \A p \in Render \ {q} : pc'[p] = pc[p]
          /\ target' = target /\ digest' = digest
      BY <3>1, <2>1 DEF Cache!EvictList, Cache!Keys, Cache!Goto, RenderTypes
    <3>3. CASE \E unread \in SUBSET Cache!Keys : \E old \in Cache!Excess(unread) :
                  victims' = [victims EXCEPT ![q] = old]
      <4>1. PICK unread \in SUBSET Cache!Keys : \E old \in Cache!Excess(unread) :
                  victims' = [victims EXCEPT ![q] = old]
        BY <3>3
      <4>2. PICK old \in Cache!Excess(unread) : victims' = [victims EXCEPT ![q] = old]
        BY <4>1
      <4>3. victims'[q] = old
        BY <4>2, <2>1 DEF RenderTypes
      <4>4. old \subseteq Excused'
        BY <4>3 DEF Excused, Selected
      <4>5. Cache!Keys' \ Excused' \subseteq Cache!Keys \ old
        BY <3>2, <4>4
      <4>6. Cardinality(Cache!Keys \ old) <= MaxEntries
        BY <2>1, <4>2
      <4> QED BY <4>5, <4>6, <2>2
    <3>4. CASE spared' = spared \cup {Cache!Key(q)} /\ victims' = victims
      <4>1. \A p \in Render \ {q} : pc[p] \in {"writing", "listing"} => Cache!Key(p) \in Pending'
        BY <3>2 DEF Pending, Cache!Key
      <4>2. Excused \subseteq Excused'
        BY <4>1, <3>4, <2>5
      <4> QED BY <4>2, <3>2, <2>3
    <3> QED BY <3>1, <3>3, <3>4 DEF Cache!EvictList
  <2>8. CASE \E q \in Render : Cache!SetBegins(q) \/ Cache!SetEnds(q)
    <3>1. PICK q \in Render : Cache!SetBegins(q) \/ Cache!SetEnds(q)
      BY <2>8
    <3>2. /\ \A p \in Render \ {q} : pc'[p] = pc[p]
          /\ target' = target /\ digest' = digest /\ victims' = victims /\ spared \subseteq spared'
          /\ pc[q] \in {"store", "writing"}
      BY <3>1, <2>1 DEF Cache!SetBegins, Cache!SetEnds, Cache!Goto, RenderTypes
    <3>3. \A p \in Render \ {q} : pc[p] \in {"writing", "listing"} => Cache!Key(p) \in Pending'
      BY <3>2 DEF Pending, Cache!Key
    <3>4. Cache!SetEnds(q) => Cache!Key(q) \in Pending' \cup spared'
      <4>1. Cache!SetEnds(q) => pc'[q] = "listing" \/ spared' = spared \cup {Cache!Key(q)}
        BY <2>1 DEF Cache!SetEnds, Cache!Goto, RenderTypes
      <4> QED BY <3>2, <4>1 DEF Pending, Cache!Key
    <3>5. Excused \subseteq Excused'
      <4>1. pc[q] \in {"writing", "listing"} => Cache!SetEnds(q)
        BY <3>1 DEF Cache!SetBegins
      <4> QED BY <3>2, <3>3, <3>4, <4>1, <2>5
    <3>6. Cache!Keys' \ Excused' \subseteq Cache!Keys
      <4>1. CASE entries' = entries
        BY <4>1 DEF Cache!Keys
      <4>2. ASSUME NEW h \in {html[q], Torn},
                   entries' = Cache!Newest([key |-> Cache!Key(q), html |-> h, by |-> q]),
                   Cache!Key(q) \in Excused'
            PROVE  Cache!Keys' \ Excused' \subseteq Cache!Keys
        <5> DEFINE e == [key |-> Cache!Key(q), html |-> h, by |-> q]
        <5>1. e \in Stored
          BY <3>2, <2>1, SetStores
        <5>2. e.key = Cache!Key(q) /\ entries' = Cache!Newest(e)
          BY <4>2
        <5> HIDE DEF e
        <5>3. /\ Cache!Newest(e) \in Seq(Stored)
              /\ \A i \in 1..Len(Cache!Newest(e)) :
                   Cache!Newest(e)[i] = e \/ \E j \in 1..Len(entries) : Cache!Newest(e)[i] = entries[j]
          BY <5>1, <2>1, NewestStored
        <5>4. DOMAIN entries = 1..Len(entries) /\ DOMAIN entries' = 1..Len(entries')
          BY <2>1, <5>2, <5>3, LenProperties
        <5> QED BY <5>2, <5>3, <5>4, <4>2 DEF Cache!Keys
      <4>3. Cache!SetBegins(q) /\ entries' # entries => Cache!Key(q) \in Excused'
        <5>1. Cache!SetBegins(q) /\ entries' # entries => pc'[q] = "writing"
          BY <2>1 DEF Cache!SetBegins, Cache!Goto, RenderTypes
        <5>2. Cache!Key(q)' = Cache!Key(q)
          BY <3>2 DEF Cache!Key
        <5> QED BY <5>1, <5>2 DEF Excused, Pending
      <4>4. \/ entries' = entries
            \/ \E h \in {html[q], Torn} : entries' = Cache!Newest([key |-> Cache!Key(q), html |-> h, by |-> q])
        BY <3>1 DEF Cache!SetBegins, Cache!SetEnds
      <4>5. Cache!SetEnds(q) => Cache!Key(q) \in Excused'
        BY <3>4 DEF Excused
      <4> QED BY <3>1, <4>1, <4>2, <4>3, <4>4, <4>5
    <3> QED BY <3>5, <3>6, <2>3
  <2>9. CASE \E q \in Render : Cache!EvictRemove(q)
    <3>1. PICK q \in Render : Cache!EvictRemove(q)
      BY <2>9
    <3>2. PICK kept \in SUBSET victims[q] :
             entries' = Cache!Others(victims[q] \ kept) /\ spared' = spared \cup kept
      BY <3>1 DEF Cache!EvictRemove
    <3>3. victims' = [victims EXCEPT ![q] = {}]
      BY <3>1 DEF Cache!EvictRemove
    <3>4. \A r \in Render \ {q} : victims'[r] = victims[r]
      BY <3>3, <2>1 DEF RenderTypes
    <3>5. Selected \ victims[q] \subseteq Selected'
      BY <3>4 DEF Selected
    <3>6. Cache!Keys' \subseteq Cache!Keys \ (victims[q] \ kept)
      <4> DEFINE gone == victims[q] \ kept
      <4> HIDE DEF gone
      <4>1. /\ Cache!Others(gone) \in Seq(Stored)
            /\ \A i \in 1..Len(Cache!Others(gone)) : \E j \in 1..Len(entries) :
                 Cache!Others(gone)[i] = entries[j] /\ entries[j].key \notin gone
        BY <2>1, OthersStay
      <4>2. entries' = Cache!Others(gone)
        BY <3>2 DEF gone
      <4>3. DOMAIN entries = 1..Len(entries) /\ DOMAIN entries' = 1..Len(entries')
        BY <2>1, <4>1, <4>2, LenProperties
      <4>4. Cache!Keys' \subseteq Cache!Keys \ gone
        BY <4>1, <4>2, <4>3 DEF Cache!Keys
      <4> QED BY <4>4 DEF gone
    <3>7. \A p \in Render : pc[p] \in {"writing", "listing"} => pc'[p] \in {"writing", "listing"}
      BY <3>1, <2>1 DEF Cache!EvictRemove, Cache!Goto, RenderTypes
    <3>8. Pending \subseteq Pending'
      <4>1. target' = target /\ digest' = digest
        BY <3>1 DEF Cache!EvictRemove
      <4> QED BY <3>7, <4>1 DEF Pending, Cache!Key
    <3>9. Cache!Keys' \ Excused' \subseteq Cache!Keys \ Excused
      BY <3>2, <3>5, <3>6, <3>8 DEF Excused
    <3> QED BY <3>9, <2>3
  <2>10. CASE \A q \in Render : /\ ~Cache!EvictList(q) /\ ~Cache!EvictRemove(q)
                                /\ ~Cache!SetBegins(q) /\ ~Cache!SetEnds(q)
    <3>1. entries' = entries /\ Cache!Keys' = Cache!Keys
      BY <2>10, DirectoryMoves DEF Cache!Keys
    <3>2. \A q \in Render : victims'[q] = victims[q] /\ spared' = spared
      BY <2>10, <2>1, RenderMoves
    <3>3. Selected = Selected'
      BY <3>2 DEF Selected
    <3>4. \A q \in Render : Cache!Keys \ Excused' \subseteq Cache!Keys \ Excused
      BY <3>2, <3>3, <2>6, <2>10 DEF Excused
    <3>5. CASE Render = {}
      <4>1. spared' = spared
        BY <3>5 DEF Cache!Next, Cache!Edit, Cache!AtRest, Cache!vars
      <4> QED BY <4>1, <3>1, <3>3, <2>6, <2>10, <2>3 DEF Excused
    <3> QED BY <3>1, <3>4, <3>5, <2>3
  <2> QED BY <2>7, <2>8, <2>9, <2>10
<1>3. RenderInv /\ ListedEnough => CacheBounded
  <2> SUFFICES ASSUME RenderInv, ListedEnough, \A r \in Render : pc[r] \notin Setting \ {"store"}
               PROVE  Cardinality({entries[i].key : i \in DOMAIN entries} \ spared) <= MaxEntries
    BY DEF CacheBounded
  <2>1. \A r \in Render : pc[r] \notin {"writing", "listing", "evicting"}
    BY DEF Setting
  <2>2. Selected = {} /\ Pending = {}
    BY <2>1 DEF Selected, Pending, RenderInv, Stages
  <2>3. Cache!Keys \ Excused = {entries[i].key : i \in DOMAIN entries} \ spared
    BY <2>2 DEF Excused, Cache!Keys
  <2> QED BY <2>3 DEF ListedEnough
<1> QED BY <1>1, <1>2, <1>3, RenderInvariant, PTL DEF Cache!Spec
=============================================================================
