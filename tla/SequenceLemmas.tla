----------------------------- MODULE SequenceLemmas -----------------------------
(***************************************************************************)
(* What the sequence operators of the models return: for the insertion     *)
(* order of a dictionary that loses and gains keys, for searches that take *)
(* the first match, and for loops that keep some elements of a list.       *)
(***************************************************************************)
EXTENDS Selection, SequencesExt, SequenceTheorems, WellFoundedInduction, TLAPS

(* A sequence without its n-th element, as the concatenation of what comes *)
(* before it and what comes after it.                                      *)
LEMMA RemoveAtProperties ==
    ASSUME NEW S, NEW s \in Seq(S), NEW n \in 1 .. Len(s)
    PROVE  /\ RemoveAt(s, n) \in Seq(S)
           /\ Len(RemoveAt(s, n)) = Len(s) - 1
           /\ \A i \in 1 .. Len(s) - 1 :
                 RemoveAt(s, n)[i] = IF i < n THEN s[i] ELSE s[i + 1]
<1>1. Len(s) \in Nat /\ \A i \in 1 .. Len(s) : s[i] \in S
  BY LenProperties, ElementOfSeq
<1>2. PICK before : before = SubSeq(s, 1, n - 1)
  OBVIOUS
<1>3. PICK after : after = SubSeq(s, n + 1, Len(s))
  OBVIOUS
<1>4. /\ before \in Seq(S)
      /\ Len(before) = n - 1
      /\ \A i \in 1 .. n - 1 : before[i] = s[i]
  <2>1. \A i \in 1 .. n - 1 : s[i] \in S
    BY <1>1
  <2>2. /\ SubSeq(s, 1, n - 1) \in Seq(S)
        /\ Len(SubSeq(s, 1, n - 1)) = IF 1 <= n - 1 THEN (n - 1) - 1 + 1 ELSE 0
        /\ \A i \in 1 .. (n - 1) - 1 + 1 : SubSeq(s, 1, n - 1)[i] = s[1 + i - 1]
    BY <1>1, <2>1, SubSeqProperties
  <2> QED BY <1>1, <1>2, <2>2
<1>5. /\ after \in Seq(S)
      /\ Len(after) = Len(s) - n
      /\ \A i \in 1 .. Len(s) - n : after[i] = s[n + i]
  <2>1. /\ n + 1 \in Int
        /\ \A i \in n + 1 .. Len(s) : s[i] \in S
    BY <1>1
  <2>2. /\ SubSeq(s, n + 1, Len(s)) \in Seq(S)
        /\ Len(SubSeq(s, n + 1, Len(s)))
              = IF n + 1 <= Len(s) THEN Len(s) - (n + 1) + 1 ELSE 0
        /\ \A i \in 1 .. Len(s) - (n + 1) + 1 :
              SubSeq(s, n + 1, Len(s))[i] = s[(n + 1) + i - 1]
    BY <1>1, <2>1, SubSeqProperties
  <2>3. ASSUME NEW i \in 1 .. Len(s) - n PROVE after[i] = s[n + i]
    <3>1. i \in 1 .. Len(s) - (n + 1) + 1 /\ (n + 1) + i - 1 = n + i
      BY <1>1
    <3> QED BY <1>3, <2>2, <3>1
  <2> QED BY <1>1, <1>3, <2>2, <2>3
<1>6. PICK r : r = before \o after
  OBVIOUS
<1>7. /\ r \in Seq(S)
      /\ Len(r) = Len(s) - 1
      /\ \A i \in 1 .. Len(s) - 1 : r[i] = IF i <= n - 1 THEN before[i] ELSE after[i - (n - 1)]
  <2>1. /\ r \in Seq(S)
        /\ Len(r) = Len(before) + Len(after)
        /\ \A i \in 1 .. Len(before) + Len(after) :
              r[i] = IF i <= Len(before) THEN before[i] ELSE after[i - Len(before)]
    BY <1>4, <1>5, <1>6, ConcatProperties
  <2>2. Len(before) + Len(after) = Len(s) - 1
    BY <1>1, <1>4, <1>5
  <2> QED BY <1>4, <2>1, <2>2
<1>8. ASSUME NEW i \in 1 .. Len(s) - 1
      PROVE  r[i] = IF i < n THEN s[i] ELSE s[i + 1]
  <2>1. CASE i < n
    <3>1. i \in 1 .. n - 1 /\ i <= n - 1
      BY <1>1, <2>1
    <3> QED BY <1>4, <1>7, <2>1, <3>1
  <2>2. CASE ~(i < n)
    <3>1. /\ i - (n - 1) \in 1 .. Len(s) - n
          /\ n + (i - (n - 1)) = i + 1
          /\ ~(i <= n - 1)
      BY <1>1, <2>2
    <3>2. after[i - (n - 1)] = s[i + 1]
      BY <1>5, <3>1
    <3> QED BY <1>7, <2>2, <3>1, <3>2
  <2> QED BY <2>1, <2>2
<1> QED BY <1>2, <1>3, <1>6, <1>7, <1>8 DEF RemoveAt

(* In a sequence without repetitions, the first occurrence is the only one.*)
LEMMA RemoveFirstIsRemoveAt ==
    ASSUME NEW S, NEW s \in Seq(S), IsInjective(s), NEW e \in Range(s)
    PROVE  \E n \in 1 .. Len(s) : s[n] = e /\ RemoveFirst(s, e) = RemoveAt(s, n)
<1>1. DOMAIN s = 1 .. Len(s) /\ Len(s) \in Nat
  BY LenProperties
<1>2. PICK n \in 1 .. Len(s) : s[n] = e
  BY <1>1 DEF Range
<1>3. {i \in 1 .. Len(s) : s[i] = e} = {n}
  BY <1>1, <1>2 DEF IsInjective
<1>4. Min({n}) = n
  BY <1>2 DEF Min
<1>5. SelectInSeq(s, LAMBDA v : v = e) = n
  BY <1>3, <1>4 DEF SelectInSeq
<1>6. RemoveFirst(s, e) = RemoveAt(s, n)
  BY <1>2, <1>5 DEF RemoveFirst
<1> QED BY <1>2, <1>6

(* Removing an element from a sequence without repetitions takes exactly   *)
(* this element away: what deregister() does to the dictionary's order.    *)
LEMMA RemoveFirstProperties ==
    ASSUME NEW S, NEW s \in Seq(S), IsInjective(s), NEW e \in Range(s)
    PROVE  /\ RemoveFirst(s, e) \in Seq(S)
           /\ IsInjective(RemoveFirst(s, e))
           /\ Range(RemoveFirst(s, e)) = Range(s) \ {e}
<1>1. /\ Len(s) \in Nat
      /\ DOMAIN s = 1 .. Len(s)
      /\ \A i \in 1 .. Len(s) : s[i] \in S
  BY LenProperties, ElementOfSeq
<1>2. PICK n \in 1 .. Len(s) : s[n] = e /\ RemoveFirst(s, e) = RemoveAt(s, n)
  BY RemoveFirstIsRemoveAt
<1>6. PICK r : r = RemoveFirst(s, e)
  OBVIOUS
<1>7. r = RemoveAt(s, n)
  BY <1>2, <1>6
<1>9. /\ r \in Seq(S)
      /\ Len(r) = Len(s) - 1
      /\ \A i \in 1 .. Len(s) - 1 : r[i] = IF i < n THEN s[i] ELSE s[i + 1]
  BY <1>7, RemoveAtProperties
<1>10. DOMAIN r = 1 .. Len(s) - 1
  BY <1>9, LenProperties
<1>11. IsInjective(r)
  BY <1>1, <1>2, <1>9, <1>10 DEF IsInjective
<1>12. ASSUME NEW x \in Range(s) \ {e} PROVE x \in Range(r)
  <2>1. PICK i \in 1 .. Len(s) : s[i] = x
    BY <1>1 DEF Range
  <2>2. CASE i < n
    BY <1>1, <1>2, <1>9, <1>10, <2>1, <2>2 DEF Range
  <2>3. CASE i > n
    <3>1. i - 1 \in 1 .. Len(s) - 1 /\ r[i - 1] = s[i]
      BY <1>1, <1>2, <1>9, <2>1, <2>3
    <3> QED BY <1>10, <2>1, <3>1 DEF Range
  <2> QED BY <1>1, <1>2, <2>1, <2>2, <2>3
<1>13. ASSUME NEW x \in Range(r) PROVE x \in Range(s) \ {e}
  <2>1. PICK i \in 1 .. Len(s) - 1 : r[i] = x
    BY <1>10 DEF Range
  <2>2. PICK j \in 1 .. Len(s) : j # n /\ s[j] = x
    BY <1>1, <1>2, <1>9, <2>1
  <2> QED BY <1>1, <1>2, <2>2 DEF Range, IsInjective
<1> QED BY <1>6, <1>9, <1>11, <1>12, <1>13

(* Appending an element that is not in the sequence: what the insertion of *)
(* a new key does to the dictionary's order.                               *)
LEMMA AppendNewElement ==
    ASSUME NEW S, NEW s \in Seq(S), IsInjective(s), NEW e \in S, e \notin Range(s)
    PROVE  /\ Append(s, e) \in Seq(S)
           /\ IsInjective(Append(s, e))
           /\ Range(Append(s, e)) = Range(s) \cup {e}
<1>1. PICK r : r = Append(s, e)
  OBVIOUS
<1>2. /\ r \in Seq(S)
      /\ Len(r) = Len(s) + 1
      /\ \A i \in 1 .. Len(s) : r[i] = s[i]
      /\ r[Len(s) + 1] = e
  BY <1>1, AppendProperties
<1>3. /\ Len(s) \in Nat
      /\ DOMAIN s = 1 .. Len(s)
      /\ DOMAIN r = 1 .. Len(s) + 1
  BY <1>2, LenProperties
<1>4. \A i \in 1 .. Len(s) : s[i] # e
  BY <1>3 DEF Range
<1>5. IsInjective(r)
  BY <1>2, <1>3, <1>4 DEF IsInjective
<1>6. Range(r) = Range(s) \cup {e}
  <2>1. ASSUME NEW x \in Range(r) PROVE x \in Range(s) \cup {e}
    BY <1>2, <1>3 DEF Range
  <2>2. ASSUME NEW x \in Range(s) \cup {e} PROVE x \in Range(r)
    BY <1>2, <1>3 DEF Range
  <2> QED BY <2>1, <2>2
<1> QED BY <1>1, <1>2, <1>5, <1>6

---------------------------------------------------------------------------
(* A set of natural numbers has a least element, and a set of positions    *)
(* has a last one.                                                         *)
LEMMA LeastNatural ==
    ASSUME NEW T \in SUBSET Nat, T # {}
    PROVE  \E m \in T : \A n \in T : m <= n
<1> DEFINE R == OpToRel(<, Nat)
<1>1. IsWellFoundedOn(R, Nat)
  BY NatLessThanWellFounded
<1>2. \A x, y \in Nat : <<x, y>> \in R <=> x < y
  BY DEF OpToRel
<1> HIDE DEF R
<1>3. PICK m \in T : \A n \in T : ~ (<<n, m>> \in R)
  BY <1>1, WFMin
<1>4. ASSUME NEW n \in T PROVE m <= n
  <2>1. m \in Nat /\ n \in Nat
    OBVIOUS
  <2>2. ~ (n < m)
    BY <1>2, <1>3, <2>1
  <2> QED BY <2>1, <2>2
<1> QED BY <1>3, <1>4

(* So Min and Max find it: resolve() takes the first match, a loop that    *)
(* overwrites leaves the last.                                             *)
LEMMA MinProperty ==
    ASSUME NEW T \in SUBSET Nat, T # {}
    PROVE  Min(T) \in T /\ \A n \in T : Min(T) <= n
BY LeastNatural DEF Min

(* The same for the last position.                                         *)
LEMMA MaxProperty ==
    ASSUME NEW N \in Nat, NEW T \in SUBSET (1 .. N), T # {}
    PROVE  Max(T) \in T /\ \A n \in T : n <= Max(T)
<1> DEFINE U == {N - n : n \in T}
<1>1. U \in SUBSET Nat
  <2> SUFFICES ASSUME NEW n \in T PROVE N - n \in Nat
    OBVIOUS
  <2>1. n \in 1 .. N
    OBVIOUS
  <2> QED BY <2>1
<1>2. PICK n \in T : TRUE
  OBVIOUS
<1>3. N - n \in U
  OBVIOUS
<1>4. PICK m \in U : \A u \in U : m <= u
  BY <1>1, <1>3, LeastNatural
<1>5. PICK k \in T : m = N - k
  OBVIOUS
<1>6. ASSUME NEW t \in T PROVE t <= k
  <2>1. N - k <= N - t
    BY <1>4, <1>5
  <2>2. k \in 1 .. N /\ t \in 1 .. N
    OBVIOUS
  <2> QED BY <2>1, <2>2
<1>7. \E x \in T : \A y \in T : x >= y
  <2>1. \A y \in T : k >= y
    <3> SUFFICES ASSUME NEW y \in T PROVE k >= y
      OBVIOUS
    <3>1. k \in 1 .. N /\ y \in 1 .. N
      OBVIOUS
    <3> QED BY <1>6, <3>1
  <2> QED BY <2>1
<1>8. Max(T) \in T /\ \A y \in T : Max(T) >= y
  BY <1>7 DEF Max
<1>9. ASSUME NEW t \in T PROVE t <= Max(T)
  <2>1. t \in 1 .. N /\ Max(T) \in 1 .. N /\ Max(T) >= t
    BY <1>8
  <2> QED BY <2>1
<1> QED BY <1>8, <1>9

---------------------------------------------------------------------------
(* The recursive function of Among exists: the least length of a prefix    *)
(* that lacks it could be reached from the one before.                     *)
LEMMA AmongIsDefined ==
    ASSUME NEW T, NEW seq \in Seq(T), NEW S
    PROVE  \E kept : /\ Among(seq, S) = kept[Len(seq)]
                     /\ kept[0] = <<>>
                     /\ \A n \in 1 .. Len(seq) :
                           kept[n] = IF seq[n] \in S THEN Append(kept[n - 1], seq[n])
                                     ELSE kept[n - 1]
<1>1. Len(seq) \in Nat
  BY LenProperties
<1> DEFINE Upto(n, g) == g = [i \in 0 .. n |-> IF i = 0 THEN <<>>
                                              ELSE IF seq[i] \in S THEN Append(g[i - 1], seq[i])
                                              ELSE g[i - 1]]
           Lacking == {n \in 0 .. Len(seq) : ~ \E g : Upto(n, g)}
<1>2. Lacking = {}
  <2>1. SUFFICES ASSUME Lacking # {} PROVE FALSE
    OBVIOUS
  <2>2. Lacking \in SUBSET Nat
    BY <1>1
  <2> HIDE DEF Lacking
  <2>3. PICK m \in Lacking : \A n \in Lacking : m <= n
    BY <2>1, <2>2, LeastNatural
  <2> USE DEF Lacking
  <2>4. m # 0
    <3>1. Upto(0, [i \in 0 .. 0 |-> <<>>])
      OBVIOUS
    <3> QED BY <2>3, <3>1
  <2>5. m - 1 \in 0 .. Len(seq) /\ m \in 0 .. Len(seq) /\ m - 1 \notin Lacking
    <3>1. m \in 0 .. Len(seq)
      OBVIOUS
    <3>2. m - 1 \in 0 .. Len(seq) /\ ~ (m <= m - 1)
      BY <1>1, <2>4, <3>1
    <3> HIDE DEF Lacking
    <3> QED BY <2>3, <3>1, <3>2
  <2>6. PICK g : Upto(m - 1, g)
    BY <2>5
  <2> DEFINE h == [i \in 0 .. m |-> IF i # m THEN g[i]
                                    ELSE IF seq[m] \in S THEN Append(g[m - 1], seq[m])
                                    ELSE g[m - 1]]
  <2>7. ASSUME NEW i \in 0 .. m
        PROVE  h[i] = IF i = 0 THEN <<>>
                      ELSE IF seq[i] \in S THEN Append(h[i - 1], seq[i]) ELSE h[i - 1]
    <3>1. CASE i = m
      <4>1. m - 1 \in 0 .. m /\ m - 1 # m
        BY <2>4, <2>5, <1>1
      <4> QED BY <2>4, <3>1, <4>1
    <3>2. CASE i # m
      <4>1. i \in 0 .. m - 1 /\ (i # 0 => i - 1 \in 0 .. m /\ i - 1 # m)
        BY <2>5, <1>1, <3>2
      <4>2. g[i] = IF i = 0 THEN <<>>
                   ELSE IF seq[i] \in S THEN Append(g[i - 1], seq[i]) ELSE g[i - 1]
        BY <2>6, <4>1
      <4> QED BY <3>2, <4>1, <4>2
    <3> QED BY <3>1, <3>2
  <2>8. Upto(m, h)
    BY <2>7
  <2> QED BY <2>3, <2>8
<1>3. PICK g : Upto(Len(seq), g)
  <2>1. Len(seq) \in 0 .. Len(seq)
    BY <1>1
  <2> QED BY <1>2, <2>1
<1> DEFINE kept[n \in 0 .. Len(seq)] ==
               IF n = 0 THEN <<>>
               ELSE IF seq[n] \in S THEN Append(kept[n - 1], seq[n]) ELSE kept[n - 1]
<1>4. Among(seq, S) = kept[Len(seq)]
  BY DEF Among
<1>5. Upto(Len(seq), kept)
  BY <1>3
<1> HIDE DEF kept
<1>6. kept[0] = <<>>
  BY <1>1, <1>5
<1>7. ASSUME NEW n \in 1 .. Len(seq)
      PROVE  kept[n] = IF seq[n] \in S THEN Append(kept[n - 1], seq[n]) ELSE kept[n - 1]
  <2>1. n \in 0 .. Len(seq) /\ n # 0
    BY <1>1
  <2> QED BY <1>5, <2>1
<1> QED BY <1>4, <1>6, <1>7

(* s holds the elements of the first n of seq that are in S, in their      *)
(* order: its i-th element is the at[i]-th of seq.                         *)
Selects(s, seq, n, S, at) ==
    /\ at \in [1 .. Len(s) -> 1 .. n]
    /\ \A i, j \in 1 .. Len(s) : i < j => at[i] < at[j]
    /\ \A i \in 1 .. Len(s) : seq[at[i]] \in S /\ s[i] = seq[at[i]]
    /\ \A k \in 1 .. n : seq[k] \in S => \E i \in 1 .. Len(s) : at[i] = k

(* One more element of seq is appended when it is in S, and else passed.   *)
LEMMA SelectsNext ==
    ASSUME NEW T, NEW seq \in Seq(T), NEW S, NEW n \in 1 .. Len(seq),
           NEW s \in Seq(T), NEW at, Selects(s, seq, n - 1, S, at)
    PROVE  /\ seq[n] \notin S => Selects(s, seq, n, S, at)
           /\ seq[n] \in S =>
                 \E to : Selects(Append(s, seq[n]), seq, n, S, to)
<1>1. Len(seq) \in Nat /\ Len(s) \in Nat /\ n \in Nat /\ n - 1 \in Nat /\ seq[n] \in T
  BY LenProperties, ElementOfSeq
<1>2. /\ at \in [1 .. Len(s) -> 1 .. n - 1]
      /\ \A i, j \in 1 .. Len(s) : i < j => at[i] < at[j]
      /\ \A i \in 1 .. Len(s) : seq[at[i]] \in S /\ s[i] = seq[at[i]]
      /\ \A k \in 1 .. n - 1 : seq[k] \in S => \E i \in 1 .. Len(s) : at[i] = k
  BY DEF Selects
<1>3. \A k \in 1 .. n : k \in 1 .. n - 1 \/ k = n
  BY <1>1
<1>4. ASSUME seq[n] \notin S PROVE Selects(s, seq, n, S, at)
  <2>1. at \in [1 .. Len(s) -> 1 .. n]
    <3>1. 1 .. n - 1 \subseteq 1 .. n
      BY <1>1
    <3> QED BY <1>2, <3>1
  <2>2. \A k \in 1 .. n : seq[k] \in S => \E i \in 1 .. Len(s) : at[i] = k
    BY <1>2, <1>3, <1>4
  <2> QED BY <1>2, <2>1, <2>2 DEF Selects
<1>5. ASSUME seq[n] \in S
      PROVE  \E to : Selects(Append(s, seq[n]), seq, n, S, to)
  <2>1. PICK r : r = Append(s, seq[n])
    OBVIOUS
  <2>2. /\ Len(r) = Len(s) + 1
        /\ \A i \in 1 .. Len(s) : r[i] = s[i]
        /\ r[Len(s) + 1] = seq[n]
    BY <1>1, <2>1, AppendProperties
  <2>3. \A i \in 1 .. Len(r) : i \in 1 .. Len(s) \/ i = Len(s) + 1
    BY <1>1, <2>2
  <2> DEFINE to == [i \in 1 .. Len(r) |-> IF i \in 1 .. Len(s) THEN at[i] ELSE n]
  <2>4. \A i \in 1 .. Len(s) : i \in 1 .. Len(r) /\ to[i] = at[i] /\ at[i] \in 1 .. n - 1
    <3>1. 1 .. Len(s) \subseteq 1 .. Len(r)
      BY <1>1, <2>2
    <3>2. \A i \in 1 .. Len(s) : to[i] = at[i]
      BY <3>1
    <3> HIDE DEF to
    <3> QED BY <1>2, <3>1, <3>2
  <2>5. Len(s) + 1 \in 1 .. Len(r) /\ to[Len(s) + 1] = n
    BY <1>1, <2>2
  <2>6. to \in [1 .. Len(r) -> 1 .. n]
    <3> HIDE DEF to
    <3>1. 1 .. n - 1 \subseteq 1 .. n /\ n \in 1 .. n
      BY <1>1
    <3>2. \A i \in 1 .. Len(r) : to[i] \in 1 .. n
      BY <2>3, <2>4, <2>5, <3>1
    <3> QED BY <3>2 DEF to
  <2> HIDE DEF to
  <2>7. ASSUME NEW i \in 1 .. Len(r), NEW j \in 1 .. Len(r), i < j
        PROVE  to[i] < to[j]
    <3>1. i \in 1 .. Len(s)
      BY <1>1, <2>2, <2>7
    <3>2. CASE j \in 1 .. Len(s)
      BY <1>2, <2>4, <2>7, <3>1, <3>2
    <3>3. CASE j = Len(s) + 1
      <4>1. to[i] \in 1 .. n - 1 /\ to[j] = n
        BY <2>4, <2>5, <3>1, <3>3
      <4> QED BY <1>1, <4>1
    <3> QED BY <2>3, <3>2, <3>3
  <2>8. \A i \in 1 .. Len(r) : seq[to[i]] \in S /\ r[i] = seq[to[i]]
    BY <1>2, <1>5, <2>2, <2>3, <2>4, <2>5
  <2>9. \A k \in 1 .. n : seq[k] \in S => \E i \in 1 .. Len(r) : to[i] = k
    BY <1>2, <1>3, <2>4, <2>5
  <2>10. Selects(r, seq, n, S, to)
    BY <2>6, <2>7, <2>8, <2>9 DEF Selects
  <2> QED BY <2>1, <2>10
<1> QED BY <1>4, <1>5

(* So Among keeps exactly the elements in the set, in their order.         *)
LEMMA AmongSelects ==
    ASSUME NEW T, NEW seq \in Seq(T), NEW S
    PROVE  /\ Among(seq, S) \in Seq(T)
           /\ \E at : Selects(Among(seq, S), seq, Len(seq), S, at)
<1>1. Len(seq) \in Nat /\ \A n \in 1 .. Len(seq) : seq[n] \in T
  BY LenProperties, ElementOfSeq
<1>2. PICK kept : /\ Among(seq, S) = kept[Len(seq)]
                  /\ kept[0] = <<>>
                  /\ \A n \in 1 .. Len(seq) :
                        kept[n] = IF seq[n] \in S THEN Append(kept[n - 1], seq[n])
                                  ELSE kept[n - 1]
  BY AmongIsDefined
<1> DEFINE Good(n) == kept[n] \in Seq(T) /\ \E at : Selects(kept[n], seq, n, S, at)
           Bad == {n \in 0 .. Len(seq) : ~ Good(n)}
<1>3. Good(0)
  <2>1. kept[0] \in Seq(T) /\ Len(kept[0]) = 0
    BY <1>2, EmptySeq
  <2>2. Selects(kept[0], seq, 0, S, [i \in 1 .. 0 |-> 0])
    BY <2>1 DEF Selects
  <2> QED BY <2>1, <2>2
<1>4. ASSUME NEW n \in 1 .. Len(seq), Good(n - 1)
      PROVE  Good(n)
  <2>1. PICK s \in Seq(T) : s = kept[n - 1]
    BY <1>4
  <2>2. PICK at : Selects(s, seq, n - 1, S, at)
    BY <1>4, <2>1
  <2>3. /\ seq[n] \notin S => Selects(s, seq, n, S, at)
        /\ seq[n] \in S => \E to : Selects(Append(s, seq[n]), seq, n, S, to)
    BY <2>2, SelectsNext
  <2>4. Append(s, seq[n]) \in Seq(T)
    BY <1>1, AppendProperties
  <2>5. CASE seq[n] \in S
    <3>1. kept[n] = Append(s, seq[n])
      BY <1>2, <2>1, <2>5
    <3> QED BY <2>3, <2>4, <2>5, <3>1
  <2>6. CASE seq[n] \notin S
    <3>1. kept[n] = s
      BY <1>2, <2>1, <2>6
    <3> QED BY <2>3, <2>6, <3>1
  <2> QED BY <2>5, <2>6
<1> HIDE DEF Good
<1>5. Bad = {}
  <2>1. SUFFICES ASSUME Bad # {} PROVE FALSE
    OBVIOUS
  <2>2. Bad \in SUBSET Nat
    BY <1>1
  <2> HIDE DEF Bad
  <2>3. PICK m \in Bad : \A n \in Bad : m <= n
    BY <2>1, <2>2, LeastNatural
  <2> USE DEF Bad
  <2>4. m \in 0 .. Len(seq) /\ ~ Good(m)
    BY <2>3
  <2>5. m # 0
    BY <1>3, <2>4
  <2>6. m \in 1 .. Len(seq) /\ m - 1 \in 0 .. Len(seq) /\ ~ (m <= m - 1)
    BY <1>1, <2>4, <2>5
  <2>7. Good(m - 1)
    BY <2>3, <2>6
  <2> QED BY <1>4, <2>4, <2>6, <2>7
<1>6. Good(Len(seq))
  <2>1. Len(seq) \in 0 .. Len(seq)
    BY <1>1
  <2> QED BY <1>5, <2>1
<1> QED BY <1>2, <1>6 DEF Good

(* It loses no other element, gains none, and repeats none that was there  *)
(* once.                                                                   *)
LEMMA AmongProperties ==
    ASSUME NEW T, NEW seq \in Seq(T), NEW S
    PROVE  /\ Among(seq, S) \in Seq(T)
           /\ Range(Among(seq, S)) = Range(seq) \cap S
           /\ IsInjective(seq) => IsInjective(Among(seq, S))
<1>1. PICK s \in Seq(T) : s = Among(seq, S)
  BY AmongSelects
<1>2. PICK at : Selects(s, seq, Len(seq), S, at)
  BY <1>1, AmongSelects
<1>3. /\ Len(s) \in Nat /\ DOMAIN s = 1 .. Len(s)
      /\ Len(seq) \in Nat /\ DOMAIN seq = 1 .. Len(seq)
  BY LenProperties
<1>4. /\ at \in [1 .. Len(s) -> 1 .. Len(seq)]
      /\ \A i, j \in 1 .. Len(s) : i < j => at[i] < at[j]
      /\ \A i \in 1 .. Len(s) : seq[at[i]] \in S /\ s[i] = seq[at[i]]
      /\ \A k \in 1 .. Len(seq) : seq[k] \in S => \E i \in 1 .. Len(s) : at[i] = k
  BY <1>2 DEF Selects
<1>5. Range(s) = Range(seq) \cap S
  <2>1. ASSUME NEW x \in Range(s) PROVE x \in Range(seq) \cap S
    BY <1>3, <1>4 DEF Range
  <2>2. ASSUME NEW x \in Range(seq) \cap S PROVE x \in Range(s)
    BY <1>3, <1>4 DEF Range
  <2> QED BY <2>1, <2>2
<1>6. ASSUME IsInjective(seq), NEW i \in 1 .. Len(s), NEW j \in 1 .. Len(s), s[i] = s[j]
      PROVE  i = j
  <2>1. at[i] = at[j]
    BY <1>3, <1>4, <1>6 DEF IsInjective
  <2>2. at[i] \in 1 .. Len(seq) /\ at[j] \in 1 .. Len(seq)
    BY <1>4
  <2>3. ~ (i < j) /\ ~ (j < i)
    BY <1>3, <1>4, <2>1, <2>2
  <2> QED BY <1>3, <2>3
<1>7. IsInjective(seq) => IsInjective(s)
  BY <1>3, <1>6 DEF IsInjective
<1> QED BY <1>1, <1>5, <1>7
================================================================================
