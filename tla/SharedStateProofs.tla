-------------------------- MODULE SharedStateProofs --------------------------
(***************************************************************************)
(* State that concurrent steps share, for every value of the constants.    *)
(*                                                                         *)
(* Attempts: however many attempts run in parallel, the failed look-ups of *)
(* an address or a session are within its budget.                          *)
(*                                                                         *)
(* Redaction: a cached replacer masks all that was declared.               *)
(*                                                                         *)
(* StateCopy: a copy beside writers leaves the source of one instant.      *)
(*                                                                         *)
(* KeyWrapping: rotations keep to the table's KEK, and reloads lose no     *)
(* key.                                                                    *)
(*                                                                         *)
(* VerifierKeys: the memo neither keeps a key that has left nor misses one *)
(* that has not.                                                           *)
(***************************************************************************)
EXTENDS Attempts, FiniteSetTheorems, WellFoundedInduction, TLAPS

\* Most leaves are first-order and Zenon's; the others do arithmetic.
USE ZenonT(30), SMTT(30)

-----------------------------------------------------------------------------
(* Attempts.                                                               *)

\* A list of keys is a function on its places.
LEMMA PlacesOf ==
    ASSUME NEW s \in Seq(AllKeys)
    PROVE  Len(s) \in Nat /\ DOMAIN s = 1..Len(s) /\ \A i \in 1..Len(s) : s[i] \in AllKeys
BY SMTT(30)

LEMMA ListOf ==
    ASSUME NEW n \in Nat, NEW s \in [1..n -> AllKeys]
    PROVE  s \in Seq(AllKeys) /\ Len(s) = n
BY SMTT(30)

\* MoveToFront reorders the list.
LEMMA Moved ==
    ASSUME NEW s \in Seq(AllKeys), IsInjective(s), NEW k \in Range(s)
    PROVE  /\ MoveToFront(s, k) \in Seq(AllKeys) /\ IsInjective(MoveToFront(s, k))
           /\ Range(MoveToFront(s, k)) = Range(s)
<1>1. PICK n \in Nat : n = Len(s)
  BY SMTT(30)
<1>2. DOMAIN s = 1..n /\ \A i \in 1..n : s[i] \in AllKeys
  BY <1>1, PlacesOf, ZenonT(30)
<1>3. PICK at : at = CHOOSE i \in DOMAIN s : s[i] = k
  OBVIOUS
<1>4. at \in 1..n /\ s[at] = k
  <2>1. \E i \in DOMAIN s : s[i] = k
    BY DEF Range
  <2> QED
    BY <1>2, <1>3, <2>1
<1>5. PICK m : m = MoveToFront(s, k)
  OBVIOUS
<1>6. m = [i \in 1..n |-> IF i = 1 THEN k ELSE IF i <= at THEN s[i - 1] ELSE s[i]]
  BY <1>2, <1>3, <1>5, ZenonT(30) DEF MoveToFront
<1> DEFINE from(i) == IF i = 1 THEN at ELSE IF i <= at THEN i - 1 ELSE i
<1>7. ASSUME NEW i \in 1..n PROVE from(i) \in 1..n /\ m[i] = s[from(i)]
  <2>1. from(i) \in 1..n
    BY <1>4, SMTT(30)
  <2>2. m[i] = IF i = 1 THEN k ELSE IF i <= at THEN s[i - 1] ELSE s[i]
    BY <1>6, ZenonT(30)
  <2> QED
    BY <1>4, <2>1, <2>2, ZenonT(30)
<1>8. \A i, j \in 1..n : from(i) = from(j) => i = j
  BY <1>4, SMTT(30)
<1>9. \A j \in 1..n : \E i \in 1..n : from(i) = j
  <2> SUFFICES ASSUME NEW j \in 1..n PROVE \E i \in 1..n : from(i) = j
    OBVIOUS
  <2>1. CASE j = at
    <3>1. 1 \in 1..n /\ from(1) = j
      BY <1>4, <2>1, SMTT(30)
    <3> QED
      BY <3>1, ZenonT(30)
  <2>2. CASE j < at
    <3>1. j + 1 \in 1..n /\ from(j + 1) = j
      BY <1>4, <2>2, SMTT(30)
    <3> QED
      BY <3>1, ZenonT(30)
  <2>3. CASE j > at
    <3>1. from(j) = j
      BY <1>4, <2>3, SMTT(30)
    <3> QED
      BY <3>1, ZenonT(30)
  <2> QED
    BY <1>4, <2>1, <2>2, <2>3, SMTT(30)
<1> HIDE DEF from
<1>10. DOMAIN m = 1..n /\ m \in [1..n -> AllKeys]
  <2>1. \A i \in 1..n : m[i] \in AllKeys
    BY <1>2, <1>7, ZenonT(30)
  <2> QED
    BY <1>6, <2>1, ZenonT(30)
<1>11. IsInjective(m)
  <2> SUFFICES ASSUME NEW i \in 1..n, NEW j \in 1..n, m[i] = m[j] PROVE i = j
    BY <1>10, ZenonT(30) DEF IsInjective
  <2>1. from(i) = from(j)
    BY <1>2, <1>7, ZenonT(30) DEF IsInjective
  <2> QED
    BY <1>8, <2>1, ZenonT(30)
<1>12. Range(m) = Range(s)
  <2>1. ASSUME NEW x \in Range(m) PROVE x \in Range(s)
    BY <1>2, <1>7, <1>10, ZenonT(30) DEF Range
  <2>2. ASSUME NEW x \in Range(s) PROVE x \in Range(m)
    <3>1. PICK j \in 1..n : x = s[j]
      BY <1>2, ZenonT(30) DEF Range
    <3>2. PICK i \in 1..n : from(i) = j
      BY <1>9, ZenonT(30)
    <3>3. x = m[i]
      BY <1>7, <3>1, <3>2, ZenonT(30)
    <3> QED
      BY <1>10, <3>3, ZenonT(30) DEF Range
  <2> QED
    BY <2>1, <2>2
<1>13. m \in Seq(AllKeys)
  BY <1>10, ListOf, ZenonT(30)
<1> QED
  BY <1>5, <1>11, <1>12, <1>13, ZenonT(30)

\* PushFront adds its key.
LEMMA Pushed ==
    ASSUME NEW s \in Seq(AllKeys), IsInjective(s), NEW k \in AllKeys, k \notin Range(s)
    PROVE  /\ <<k>> \o s \in Seq(AllKeys) /\ IsInjective(<<k>> \o s)
           /\ Range(<<k>> \o s) = Range(s) \cup {k}
<1>1. PICK n \in Nat : n = Len(s)
  BY SMTT(30)
<1>2. DOMAIN s = 1..n
  BY <1>1, PlacesOf, ZenonT(30)
<1>3. PICK m : m = <<k>> \o s
  OBVIOUS
<1>4. m \in Seq(AllKeys) /\ DOMAIN m = 1..(n + 1) /\ m[1] = k /\ \A i \in 1..n : m[i + 1] = s[i]
  BY <1>1, <1>3, SMTT(30)
<1>5. ASSUME NEW i \in 1..(n + 1), i # 1 PROVE i - 1 \in 1..n /\ m[i] = s[i - 1]
  <2>1. i - 1 \in 1..n /\ (i - 1) + 1 = i
    BY <1>5, SMTT(30)
  <2> QED
    BY <1>4, <2>1, ZenonT(30)
<1>6. \A i \in 1..n : s[i] # k
  BY <1>2, ZenonT(30) DEF Range
<1>7. IsInjective(m)
  <2> SUFFICES ASSUME NEW i \in 1..(n + 1), NEW j \in 1..(n + 1), m[i] = m[j] PROVE i = j
    BY <1>4, ZenonT(30) DEF IsInjective
  <2>1. CASE i = 1 \/ j = 1
    BY <1>4, <1>5, <1>6, <2>1, ZenonT(30)
  <2>2. CASE i # 1 /\ j # 1
    <3>1. i - 1 = j - 1
      BY <1>2, <1>5, <2>2, ZenonT(30) DEF IsInjective
    <3> QED
      BY <3>1, SMTT(30)
  <2> QED
    BY <2>1, <2>2
<1>8. Range(m) = Range(s) \cup {k}
  <2>1. ASSUME NEW x \in Range(m) PROVE x \in Range(s) \cup {k}
    <3>1. PICK i \in 1..(n + 1) : x = m[i]
      BY <1>4, ZenonT(30) DEF Range
    <3> QED
      BY <1>2, <1>4, <1>5, <3>1, ZenonT(30) DEF Range
  <2>2. ASSUME NEW x \in Range(s) PROVE x \in Range(m)
    <3>1. PICK i \in 1..n : x = s[i]
      BY <1>2, ZenonT(30) DEF Range
    <3>2. i + 1 \in 1..(n + 1)
      BY SMTT(30)
    <3> QED
      BY <1>4, <3>1, <3>2, ZenonT(30) DEF Range
  <2>3. k \in Range(m)
    <3>1. 1 \in 1..(n + 1)
      BY SMTT(30)
    <3> QED
      BY <1>4, <3>1, ZenonT(30) DEF Range
  <2> QED
    BY <2>1, <2>2, <2>3
<1> QED
  BY <1>3, <1>4, <1>7, <1>8, ZenonT(30)

\* Back is on the list, and its removal removes it alone.
LEMMA BackRemoved ==
    ASSUME NEW s \in Seq(AllKeys), IsInjective(s), Range(s) # {}
    PROVE  /\ Back(s) \in Range(s) /\ RemoveBack(s) \in Seq(AllKeys) /\ IsInjective(RemoveBack(s))
           /\ Range(RemoveBack(s)) = Range(s) \ {Back(s)}
<1>1. PICK n \in Nat : n = Len(s)
  BY SMTT(30)
<1>2. DOMAIN s = 1..n
  BY <1>1, PlacesOf, ZenonT(30)
<1>3. n # 0
  <2>1. PICK i \in 1..n : TRUE
    BY <1>2 DEF Range
  <2> QED
    BY <2>1, SMTT(30)
<1>4. PICK m, b : m = RemoveBack(s) /\ b = Back(s)
  OBVIOUS
<1>5. m \in Seq(AllKeys) /\ DOMAIN m = 1..(n - 1) /\ (\A i \in 1..(n - 1) : m[i] = s[i]) /\ b = s[n]
  BY <1>1, <1>3, <1>4, SMTT(30) DEF RemoveBack, Back
<1>6. n \in 1..n /\ \A i \in 1..n : i = n \/ i \in 1..(n - 1)
  BY <1>3, SMTT(30)
<1>7. \A i \in 1..(n - 1) : i \in 1..n /\ i # n
  BY SMTT(30)
<1>8. IsInjective(m)
  BY <1>2, <1>5, <1>7, ZenonT(30) DEF IsInjective
<1>9. b \in Range(s)
  BY <1>2, <1>5, <1>6, ZenonT(30) DEF Range
<1>10. \A i \in 1..(n - 1) : m[i] # b
  BY <1>2, <1>5, <1>6, <1>7, ZenonT(30) DEF IsInjective
<1>11. Range(m) = Range(s) \ {b}
  <2>1. ASSUME NEW x \in Range(m) PROVE x \in Range(s) \ {b}
    BY <1>2, <1>5, <1>7, <1>10, ZenonT(30) DEF Range
  <2>2. ASSUME NEW x \in Range(s), x # b PROVE x \in Range(m)
    BY <1>2, <1>5, <1>6, <2>2, ZenonT(30) DEF Range
  <2> QED
    BY <2>1, <2>2
<1> QED
  BY <1>4, <1>5, <1>8, <1>9, <1>11, ZenonT(30)

-----------------------------------------------------------------------------
\* From buckets b a limiter comes to buckets c and order o, with keys E evicted:
\* what was paid for is still.
Touched(l, b, c, o, E) ==
    /\ Limiter(l, c, o) /\ E \subseteq Keys[l]
    /\ \A j \in Keys[l], h, f, e \in Nat :
         Paid(l, j, b, h, f, e) => Paid(l, j, c, h, f, e + IF j \in E THEN 1 ELSE 0)

LEMMA KeysOf == ASSUME NEW l \in Limiters PROVE Keys[l] \subseteq AllKeys
BY SMTT(30) DEF Limiters, Keys, AllKeys

\* bucket, of a key that is tracked.
LEMMA TouchTracked ==
    ASSUME WellFormed, TypeOK, NEW l \in Limiters, NEW k \in DOMAIN buckets[l]
    PROVE  /\ Touched(l, buckets[l], Touch(l, k).b, Touch(l, k).o, Touch(l, k).e)
           /\ k \in DOMAIN Touch(l, k).b
<1>1. PICK b, o : b = buckets[l] /\ o = order[l]
  OBVIOUS
<1>2. Limiter(l, b, o) /\ now \in Nat /\ Burst[l] \in Nat
  BY <1>1 DEF TypeOK, WellFormed
<1>3. PICK t \in Nat, a \in Nat : b[k].tokens = t /\ b[k].last = a
  BY <1>1, <1>2 DEF Limiter, Bucket
<1>4. PICK x : x = Least(t + (now - a), Burst[l])
  OBVIOUS
<1>5. a <= now
  BY <1>1, <1>2, <1>3 DEF Limiter
<1>6. x \in Nat /\ x <= Burst[l]
  <2>1. t + 0 <= t + a
    BY SMTT(30)
  <2> QED
    BY <1>2, <1>4, <1>5, SMTT(30) DEF Least
<1>7. /\ Touch(l, k).b = [b EXCEPT ![k] = [tokens |-> x, last |-> now]]
      /\ Touch(l, k).o = MoveToFront(o, k) /\ Touch(l, k).e = {}
  BY <1>1, <1>3, <1>4 DEF Touch, Refilled
<1>8. PICK c : c = [b EXCEPT ![k] = [tokens |-> x, last |-> now]]
  OBVIOUS
<1>9. /\ DOMAIN c = DOMAIN b /\ c[k].tokens = x /\ c[k].last = now
      /\ \A j \in DOMAIN b : j # k => c[j] = b[j]
      /\ c \in [DOMAIN c -> Bucket]
  BY <1>1, <1>2, <1>6, <1>8 DEF Limiter, Bucket
<1>10. Limiter(l, c, MoveToFront(o, k))
  <2>1. k \in Range(o) /\ o \in Seq(AllKeys) /\ IsInjective(o)
    BY <1>1, <1>2 DEF Limiter
  <2>2. /\ MoveToFront(o, k) \in Seq(AllKeys) /\ IsInjective(MoveToFront(o, k))
        /\ Range(MoveToFront(o, k)) = Range(o)
    BY <2>1, Moved, ZenonT(30)
  <2>3. \A j \in DOMAIN c : c[j].tokens <= Burst[l] /\ c[j].last <= now
    <3>1. now <= now
      BY <1>2, SMTT(30)
    <3> QED
      BY <1>2, <1>6, <1>9, <3>1, ZenonT(30) DEF Limiter
  <2> QED
    BY <1>2, <1>9, <2>2, <2>3, ZenonT(30) DEF Limiter
<1>11. ASSUME NEW j \in Keys[l], NEW h \in Nat, NEW f \in Nat, NEW e \in Nat, Paid(l, j, b, h, f, e)
       PROVE  Paid(l, j, c, h, f, e + IF j \in {} THEN 1 ELSE 0)
  <2>1. (e + IF j \in {} THEN 1 ELSE 0) = e
    BY SMTT(30)
  <2>2. CASE j = k
    <3>1. PICK y \in Nat : y = Burst[l] * (1 + e)
      BY <1>2, SMTT(30)
    <3>2. t + f + h <= y + a
      BY <1>1, <1>3, <1>11, <2>2, <3>1 DEF Paid
    <3>3. x + f + h <= y + now
      BY <1>2, <1>4, <1>5, <3>2, SMTT(30) DEF Least
    <3> QED
      BY <1>1, <1>9, <2>1, <2>2, <3>1, <3>3, ZenonT(30) DEF Paid
  <2>3. CASE j # k
    BY <1>9, <1>11, <2>1, <2>3, ZenonT(30) DEF Paid
  <2> QED
    BY <2>2, <2>3
<1>12. Touched(l, b, c, MoveToFront(o, k), {})
  BY <1>10, <1>11, ZenonT(30) DEF Touched
<1> QED
  BY <1>1, <1>7, <1>8, <1>9, <1>12, ZenonT(30)

\* bucket, of a key that is not: it may evict another.
LEMMA TouchNew ==
    ASSUME WellFormed, TypeOK, NEW l \in Limiters, NEW k \in Keys[l], k \notin DOMAIN buckets[l]
    PROVE  /\ Touched(l, buckets[l], Touch(l, k).b, Touch(l, k).o, Touch(l, k).e)
           /\ k \in DOMAIN Touch(l, k).b
<1>1. PICK b, o : b = buckets[l] /\ o = order[l]
  OBVIOUS
<1>2. Limiter(l, b, o) /\ now \in Nat /\ Burst[l] \in Nat /\ k \in AllKeys
  BY <1>1, KeysOf DEF TypeOK, WellFormed
<1>3. PICK E, p : /\ E = (IF Evicts(l) THEN {Back(o)} ELSE {})
                  /\ p = (IF Evicts(l) THEN RemoveBack(o) ELSE o)
  OBVIOUS
<1>4. PICK c : c = [j \in (DOMAIN b \ E) \cup {k} |->
                     IF j = k THEN [tokens |-> Burst[l], last |-> now] ELSE b[j]]
  OBVIOUS
<1>5. Touch(l, k).b = c /\ Touch(l, k).o = <<k>> \o p /\ Touch(l, k).e = E
  BY <1>1, <1>3, <1>4 DEF Touch
<1>6. /\ o \in Seq(AllKeys) /\ IsInjective(o) /\ DOMAIN b = Range(o) /\ DOMAIN b \subseteq Keys[l]
      /\ IsFiniteSet(DOMAIN b) /\ Cardinality(DOMAIN b) \in Nat /\ Cardinality(DOMAIN b) <= MaxKeys
      /\ b \in [DOMAIN b -> Bucket]
      /\ \A j \in DOMAIN b : b[j].tokens <= Burst[l] /\ b[j].last <= now
  BY <1>2, FS_CardinalityType, ZenonT(30) DEF Limiter
<1>7. MaxKeys \in Nat /\ MaxKeys # 0
  BY DEF WellFormed
<1>8. Evicts(l) => DOMAIN b # {}
  <2>1. Evicts(l) => Cardinality(DOMAIN b) # 0
    BY <1>1, <1>6, <1>7, SMTT(30) DEF Evicts
  <2> QED
    BY <2>1, FS_EmptySet, ZenonT(30)
<1>9. p \in Seq(AllKeys) /\ IsInjective(p) /\ Range(p) = DOMAIN b \ E /\ E \subseteq DOMAIN b
  <2>1. CASE Evicts(l)
    <3>1. Range(o) # {}
      BY <1>6, <1>8, <2>1
    <3>2. /\ Back(o) \in Range(o) /\ RemoveBack(o) \in Seq(AllKeys) /\ IsInjective(RemoveBack(o))
          /\ Range(RemoveBack(o)) = Range(o) \ {Back(o)}
      BY <1>6, <3>1, BackRemoved, ZenonT(30)
    <3>3. E = {Back(o)} /\ p = RemoveBack(o)
      BY <1>3, <2>1
    <3> QED
      BY <1>6, <3>2, <3>3
  <2>2. CASE ~Evicts(l)
    <3>1. E = {} /\ p = o
      BY <1>3, <2>2
    <3> QED
      BY <1>6, <3>1
  <2> QED
    BY <2>1, <2>2
<1>10. k \notin DOMAIN b /\ k \notin Range(p) /\ k \notin E
  BY <1>1, <1>9
<1>11. /\ <<k>> \o p \in Seq(AllKeys) /\ IsInjective(<<k>> \o p)
       /\ Range(<<k>> \o p) = (DOMAIN b \ E) \cup {k}
  BY <1>2, <1>9, <1>10, Pushed, ZenonT(30)
<1>12. /\ DOMAIN c = (DOMAIN b \ E) \cup {k}
       /\ c[k] = [tokens |-> Burst[l], last |-> now] /\ \A j \in DOMAIN b \ E : c[j] = b[j]
  BY <1>4, <1>10
<1>13. IsFiniteSet(DOMAIN c) /\ Cardinality(DOMAIN c) <= MaxKeys
  <2>1. PICK S : S = DOMAIN b \ E
    OBVIOUS
  <2>2. IsFiniteSet(S) /\ Cardinality(S) \in Nat /\ Cardinality(S) + 1 <= MaxKeys
    <3>1. CASE Evicts(l)
      <4>1. S = DOMAIN b \ {Back(o)} /\ Back(o) \in DOMAIN b
        BY <1>3, <1>9, <2>1, <3>1
      <4>2. IsFiniteSet(S) /\ Cardinality(S) = Cardinality(DOMAIN b) - 1
        BY <1>6, <4>1, FS_RemoveElement, ZenonT(30)
      <4>3. Cardinality(S) \in Nat
        BY <4>2, FS_CardinalityType, ZenonT(30)
      <4> QED
        BY <1>6, <1>7, <4>2, <4>3, SMTT(30)
    <3>2. CASE ~Evicts(l)
      <4>1. S = DOMAIN b
        BY <1>3, <2>1, <3>2
      <4>2. Cardinality(DOMAIN b) + 1 <= MaxKeys
        BY <1>1, <1>6, <1>7, <3>2, SMTT(30) DEF Evicts
      <4> QED
        BY <1>6, <4>1, <4>2, ZenonT(30)
    <3> QED
      BY <3>1, <3>2
  <2>3. k \notin S
    BY <1>10, <2>1
  <2>4. IsFiniteSet(S \cup {k}) /\ Cardinality(S \cup {k}) = Cardinality(S) + 1
    BY <2>2, <2>3, FS_AddElement, ZenonT(30)
  <2> QED
    BY <1>12, <2>1, <2>2, <2>4, ZenonT(30)
<1>14. \A j \in DOMAIN c : c[j] \in Bucket /\ c[j].tokens <= Burst[l] /\ c[j].last <= now
  <2>1. c[k] \in Bucket /\ c[k].tokens <= Burst[l] /\ c[k].last <= now
    BY <1>2, <1>12, SMTT(30) DEF Bucket
  <2>2. \A j \in DOMAIN b : b[j] \in Bucket
    BY <1>6
  <2> QED
    BY <1>6, <1>12, <2>1, <2>2, ZenonT(30)
<1>15. c \in [DOMAIN c -> Bucket]
  <2>1. c = [j \in DOMAIN c |-> c[j]]
    BY <1>4
  <2> QED
    BY <1>14, <2>1, ZenonT(30)
<1>16. Limiter(l, c, <<k>> \o p)
  <2>1. DOMAIN c \subseteq Keys[l]
    BY <1>6, <1>12
  <2> QED
    BY <1>11, <1>12, <1>13, <1>14, <1>15, <2>1, ZenonT(30) DEF Limiter
<1>17. ASSUME NEW j \in Keys[l], NEW h \in Nat, NEW f \in Nat, NEW e \in Nat, Paid(l, j, b, h, f, e)
       PROVE  Paid(l, j, c, h, f, e + IF j \in E THEN 1 ELSE 0)
  <2>1. CASE j = k
    <3>1. f + h <= Burst[l] * e + now
      BY <1>10, <1>17, <2>1, ZenonT(30) DEF Paid
    <3>2. Burst[l] + f + h <= Burst[l] * (1 + e) + now
      BY <1>2, <3>1, SMTT(30)
    <3>3. (e + IF j \in E THEN 1 ELSE 0) = e
      BY <1>10, <2>1, SMTT(30)
    <3>4. c[k].tokens = Burst[l] /\ c[k].last = now /\ k \in DOMAIN c
      BY <1>12, SMTT(30)
    <3> QED
      BY <2>1, <3>2, <3>3, <3>4, ZenonT(30) DEF Paid
  <2>2. CASE j # k /\ j \in E
    <3>1. PICK t \in Nat, a \in Nat : b[j].tokens = t /\ b[j].last = a /\ a <= now
      BY <1>6, <1>9, <2>2 DEF Bucket
    <3>2. t + f + h <= Burst[l] * (1 + e) + a
      BY <1>9, <1>17, <2>2, <3>1, ZenonT(30) DEF Paid
    <3>3. f + h <= Burst[l] * (e + 1) + now
      BY <1>2, <3>1, <3>2, SMTT(30)
    <3>4. j \notin DOMAIN c
      BY <1>12, <2>2
    <3> QED
      BY <2>2, <3>3, <3>4, ZenonT(30) DEF Paid
  <2>3. CASE j # k /\ j \notin E
    <3>1. (e + IF j \in E THEN 1 ELSE 0) = e
      BY <2>3, SMTT(30)
    <3>2. j \in DOMAIN c <=> j \in DOMAIN b
      BY <1>12, <2>3
    <3>3. j \in DOMAIN b => c[j] = b[j]
      BY <1>12, <2>3
    <3> QED
      BY <1>17, <3>1, <3>2, <3>3, ZenonT(30) DEF Paid
  <2> QED
    BY <2>1, <2>2, <2>3
<1>18. Touched(l, b, c, <<k>> \o p, E) /\ k \in DOMAIN c
  <2>1. E \subseteq Keys[l]
    BY <1>6, <1>9
  <2> QED
    BY <1>12, <1>16, <1>17, <2>1, ZenonT(30) DEF Touched
<1> QED
  BY <1>1, <1>5, <1>18, ZenonT(30)

LEMMA TouchKeeps ==
    ASSUME WellFormed, TypeOK, NEW l \in Limiters, NEW k \in Keys[l]
    PROVE  /\ Touched(l, buckets[l], Touch(l, k).b, Touch(l, k).o, Touch(l, k).e)
           /\ k \in DOMAIN Touch(l, k).b
BY TouchTracked, TouchNew, ZenonT(30)

\* Allow: as bucket, and the token spent (ok) is one more held by k.
Spent(l, b, c, o, E, k, ok) ==
    /\ Limiter(l, c, o) /\ E \subseteq Keys[l]
    /\ \A j \in Keys[l], h, f, e \in Nat :
         Paid(l, j, b, h, f, e) =>
           Paid(l, j, c, h + (IF ok /\ j = k THEN 1 ELSE 0), f, e + IF j \in E THEN 1 ELSE 0)

LEMMA AllowKeeps ==
    ASSUME WellFormed, TypeOK, NEW l \in Limiters, NEW k \in Keys[l]
    PROVE  Spent(l, buckets[l], Allow(l, k).b, Allow(l, k).o, Allow(l, k).e, k, Allow(l, k).ok)
<1>1. PICK b, t, o, E : b = buckets[l] /\ t = Touch(l, k).b /\ o = Touch(l, k).o /\ E = Touch(l, k).e
  OBVIOUS
<1>2. Touched(l, b, t, o, E) /\ k \in DOMAIN t
  BY <1>1, TouchKeeps, ZenonT(30)
<1>3. PICK ok : ok = (t[k].tokens >= 1)
  OBVIOUS
<1>4. PICK c : c = IF ok THEN [t EXCEPT ![k].tokens = @ - 1] ELSE t
  OBVIOUS
<1>5. Allow(l, k).b = c /\ Allow(l, k).o = o /\ Allow(l, k).e = E /\ Allow(l, k).ok = ok
  BY <1>1, <1>3, <1>4 DEF Allow
<1>6. Limiter(l, t, o) /\ E \subseteq Keys[l] /\ t \in [DOMAIN t -> Bucket]
  BY <1>2, ZenonT(30) DEF Touched, Limiter
<1>7. CASE ~ok
  <2>1. ASSUME NEW j \in Keys[l], NEW h \in Nat, NEW f \in Nat, NEW e \in Nat, Paid(l, j, b, h, f, e)
        PROVE  Paid(l, j, c, h + (IF ok /\ j = k THEN 1 ELSE 0), f, e + IF j \in E THEN 1 ELSE 0)
    <3>1. Paid(l, j, t, h, f, e + IF j \in E THEN 1 ELSE 0)
      BY <1>2, <2>1, ZenonT(30) DEF Touched
    <3>2. (h + IF ok /\ j = k THEN 1 ELSE 0) = h /\ c = t
      BY <1>4, <1>7, SMTT(30)
    <3> QED
      BY <3>1, <3>2, ZenonT(30)
  <2>2. Spent(l, b, c, o, E, k, ok)
    BY <1>4, <1>6, <1>7, <2>1, ZenonT(30) DEF Spent
  <2> QED
    BY <1>1, <1>5, <2>2, ZenonT(30)
<1>8. CASE ok
  <2>1. PICK x \in Nat, a \in Nat : t[k] = [tokens |-> x, last |-> a]
    BY <1>2, <1>6 DEF Bucket
  <2>2. x >= 1 /\ x - 1 \in Nat /\ x - 1 <= x
    <3>1. t[k].tokens >= 1
      BY <1>3, <1>8, ZenonT(30)
    <3>2. t[k].tokens = x
      BY SMTT(30), <2>1
    <3> QED
      BY <3>1, <3>2, SMTT(30)
  <2>3. /\ DOMAIN c = DOMAIN t /\ c[k] = [tokens |-> x - 1, last |-> a]
        /\ \A j \in DOMAIN t : j # k => c[j] = t[j]
        /\ c \in [DOMAIN c -> Bucket]
    <3>1. c = [t EXCEPT ![k] = [tokens |-> x - 1, last |-> a]]
      <4>1. c = [t EXCEPT ![k].tokens = @ - 1]
        BY <1>4, <1>8, ZenonT(30)
      <4>2. [t[k] EXCEPT !.tokens = @ - 1] = [tokens |-> x - 1, last |-> a]
        BY SMTT(30), <2>1
      <4>3. c = [t EXCEPT ![k] = [t[k] EXCEPT !.tokens = @ - 1]]
        BY <4>1
      <4> QED
        BY <4>2, <4>3, ZenonT(30)
    <3>2. [tokens |-> x - 1, last |-> a] \in Bucket
      BY <2>2 DEF Bucket
    <3> QED
      BY <1>2, <1>6, <3>1, <3>2
  <2>4. c[k].tokens = x - 1 /\ c[k].last = a /\ t[k].tokens = x /\ t[k].last = a
    BY SMTT(30), <2>1, <2>3
  <2>5. Limiter(l, c, o)
    <3>1. x <= Burst[l] /\ a <= now /\ Burst[l] \in Nat
      BY <1>2, <1>6, <2>4 DEF Limiter, WellFormed
    <3>2. x - 1 <= Burst[l]
      BY <2>2, <3>1, SMTT(30)
    <3> QED
      BY <1>6, <2>3, <2>4, <3>1, <3>2, ZenonT(30) DEF Limiter
  <2>6. ASSUME NEW j \in Keys[l], NEW h \in Nat, NEW f \in Nat, NEW e \in Nat, Paid(l, j, b, h, f, e)
        PROVE  Paid(l, j, c, h + (IF ok /\ j = k THEN 1 ELSE 0), f, e + IF j \in E THEN 1 ELSE 0)
    <3>1. PICK g \in Nat : g = e + IF j \in E THEN 1 ELSE 0
      BY SMTT(30)
    <3>2. Paid(l, j, t, h, f, g)
      BY <1>2, <2>6, <3>1, ZenonT(30) DEF Touched
    <3>3. CASE j = k
      <4>1. PICK y \in Nat : y = Burst[l] * (1 + g)
        BY SMTT(30) DEF WellFormed
      <4>2. x + f + h <= y + a
        BY <1>2, <2>4, <3>2, <3>3, <4>1, ZenonT(30) DEF Paid
      <4>3. (x - 1) + f + (h + 1) <= y + a
        BY <2>2, <4>2, SMTT(30)
      <4>4. (h + IF ok /\ j = k THEN 1 ELSE 0) = h + 1
        BY <1>8, <3>3
      <4> QED
        BY <1>2, <2>3, <2>4, <3>1, <3>3, <4>1, <4>3, <4>4, ZenonT(30) DEF Paid
    <3>4. CASE j # k
      <4>1. (h + IF ok /\ j = k THEN 1 ELSE 0) = h
        BY <3>4, SMTT(30)
      <4> QED
        BY <2>3, <3>1, <3>2, <3>4, <4>1, ZenonT(30) DEF Paid
    <3> QED
      BY <3>3, <3>4
  <2>7. Spent(l, b, c, o, E, k, ok)
    BY <1>6, <2>5, <2>6, ZenonT(30) DEF Spent
  <2> QED
    BY <1>1, <1>5, <2>7, ZenonT(30)
<1> QED
  BY <1>7, <1>8

\* Refund: a token held by k is given back, or lost with its bucket.
Repaid(l, b, c, o, k) ==
    /\ Limiter(l, c, o)
    /\ \A j \in Keys[l], h, f, e \in Nat :
         Paid(l, j, b, h + (IF j = k THEN 1 ELSE 0), f, e) => Paid(l, j, c, h, f, e)

LEMMA RefundKeeps ==
    ASSUME WellFormed, TypeOK, NEW l \in Limiters, NEW k \in Keys[l]
    PROVE  Repaid(l, buckets[l], Refund(l, k), order[l], k)
<1>1. PICK b, o, c : b = buckets[l] /\ o = order[l] /\ c = Refund(l, k)
  OBVIOUS
<1>2. Limiter(l, b, o) /\ b \in [DOMAIN b -> Bucket] /\ Burst[l] \in Nat /\ now \in Nat
  BY <1>1 DEF TypeOK, Limiter, WellFormed
<1>3. CASE k \notin DOMAIN b
  <2>1. c = b
    BY <1>1, <1>3 DEF Refund
  <2>2. ASSUME NEW j \in Keys[l], NEW h \in Nat, NEW f \in Nat, NEW e \in Nat,
               Paid(l, j, b, h + (IF j = k THEN 1 ELSE 0), f, e)
        PROVE  Paid(l, j, b, h, f, e)
    <3>1. CASE j = k
      <4>1. f + (h + 1) <= Burst[l] * e + now
        BY <1>3, <2>2, <3>1 DEF Paid
      <4>2. f + h <= Burst[l] * e + now
        BY <1>2, <4>1, SMTT(30)
      <4> QED
        BY <1>3, <3>1, <4>2, ZenonT(30) DEF Paid
    <3>2. CASE j # k
      <4>1. (h + IF j = k THEN 1 ELSE 0) = h
        BY <3>2, SMTT(30)
      <4> QED
        BY <2>2, <4>1, ZenonT(30)
    <3> QED
      BY <3>1, <3>2
  <2> QED
    BY <1>1, <1>2, <2>1, <2>2, ZenonT(30) DEF Repaid
<1>4. CASE k \in DOMAIN b
  <2>1. PICK t \in Nat, a \in Nat : b[k] = [tokens |-> t, last |-> a]
    BY <1>2, <1>4 DEF Bucket
  <2>2. PICK x : x = Least(t + 1, Burst[l])
    OBVIOUS
  <2>3. x \in Nat /\ x <= Burst[l] /\ x <= t + 1
    BY <1>2, <2>2, SMTT(30) DEF Least
  <2>4. /\ DOMAIN c = DOMAIN b /\ c[k] = [tokens |-> x, last |-> a]
        /\ \A j \in DOMAIN b : j # k => c[j] = b[j]
        /\ c \in [DOMAIN c -> Bucket]
    <3>1. c = [b EXCEPT ![k] = [tokens |-> x, last |-> a]]
      BY <1>1, <1>2, <1>4, <2>1, <2>2, SMTT(30) DEF Refund, Bucket
    <3>2. [tokens |-> x, last |-> a] \in Bucket
      BY <2>3 DEF Bucket
    <3> QED
      BY <1>2, <1>4, <3>1, <3>2
  <2>5. c[k].tokens = x /\ c[k].last = a /\ b[k].tokens = t /\ b[k].last = a
    BY SMTT(30), <2>1, <2>4
  <2>6. Limiter(l, c, o)
    <3>1. a <= now
      BY <1>2, <1>4, <2>5 DEF Limiter
    <3> QED
      BY <1>2, <2>3, <2>4, <2>5, <3>1, ZenonT(30) DEF Limiter
  <2>7. ASSUME NEW j \in Keys[l], NEW h \in Nat, NEW f \in Nat, NEW e \in Nat,
               Paid(l, j, b, h + (IF j = k THEN 1 ELSE 0), f, e)
        PROVE  Paid(l, j, c, h, f, e)
    <3>1. CASE j = k
      <4>1. PICK y \in Nat : y = Burst[l] * (1 + e)
        BY <1>2, SMTT(30)
      <4>2. t + f + (h + 1) <= y + a
        BY <1>4, <2>5, <2>7, <3>1, <4>1 DEF Paid
      <4>3. x + f + h <= y + a
        BY <2>3, <4>2, SMTT(30)
      <4> QED
        BY <1>4, <2>4, <2>5, <3>1, <4>1, <4>3, ZenonT(30) DEF Paid
    <3>2. CASE j # k
      <4>1. (h + IF j = k THEN 1 ELSE 0) = h
        BY <3>2, SMTT(30)
      <4> QED
        BY <2>4, <2>7, <3>2, <4>1, ZenonT(30) DEF Paid
    <3> QED
      BY <3>1, <3>2
  <2> QED
    BY <1>1, <2>6, <2>7, ZenonT(30) DEF Repaid
<1> QED
  BY <1>3, <1>4

\* Holders counted before (h) and after (g) one request's step.
Handed(h, g, held, holds) ==
    /\ h \in Nat /\ g \in Nat
    /\ (holds <=> held) => g = h
    /\ holds /\ ~held => g = h + 1
    /\ ~holds /\ held => h = g + 1

\* One request's step changes who holds tokens by that request alone.
LEMMA HoldersStep ==
    ASSUME WellFormed, TypeOK, NEW r \in Requests, NEW x, attempt' = [attempt EXCEPT ![r] = x], NEW l, NEW k
    PROVE  Handed(Cardinality(Holders(l, k)), Cardinality(Holders(l, k)'),
                  Holds(attempt[r], l, k), Holds(x, l, k))
<1>1. PICK H, G : H = Holders(l, k) /\ G = Holders(l, k)'
  OBVIOUS
<1>2. DOMAIN attempt = Requests
  BY DEF TypeOK
<1>3. \A q \in Requests : attempt'[q] = IF q = r THEN x ELSE attempt[q]
  BY <1>2
<1>4. /\ H = {q \in Requests : Holds(attempt[q], l, k)}
      /\ G = {q \in Requests : Holds(attempt'[q], l, k)}
  BY <1>1, ZenonT(30) DEF Holders, Holds
<1>5. (r \in H <=> Holds(attempt[r], l, k)) /\ (r \in G <=> Holds(x, l, k)) /\ H \ {r} = G \ {r}
  BY <1>3, <1>4
<1>6. IsFiniteSet(H) /\ IsFiniteSet(G)
  BY <1>4, FS_Subset DEF WellFormed
<1>7. Cardinality(H) \in Nat /\ Cardinality(G) \in Nat
  BY <1>6, FS_CardinalityType
<1>8. /\ Cardinality(H \ {r}) = IF r \in H THEN Cardinality(H) - 1 ELSE Cardinality(H)
      /\ Cardinality(G \ {r}) = IF r \in G THEN Cardinality(G) - 1 ELSE Cardinality(G)
  BY <1>6, FS_RemoveElement
<1>9. /\ (r \in G <=> r \in H) => Cardinality(G) = Cardinality(H)
      /\ r \in G /\ r \notin H => Cardinality(G) = Cardinality(H) + 1
      /\ r \notin G /\ r \in H => Cardinality(H) = Cardinality(G) + 1
  <2>1. (IF r \in H THEN Cardinality(H) - 1 ELSE Cardinality(H)) =
          IF r \in G THEN Cardinality(G) - 1 ELSE Cardinality(G)
    BY <1>5, <1>8, ZenonT(30)
  <2> QED
    BY <1>7, <2>1, SMTT(30)
<1> QED
  <2>1. Handed(Cardinality(H), Cardinality(G), Holds(attempt[r], l, k), Holds(x, l, k))
    BY <1>5, <1>7, <1>9, ZenonT(30) DEF Handed
  <2> QED
    BY <1>1, <2>1, ZenonT(30)

\* A step that leaves the clock alone keeps the invariant when both limiters
\* stay limiters and every key's account stays balanced.
LEMMA Balanced ==
    ASSUME now \in Nat, now' = now, attempt' \in [Requests -> Attempt],
           failed' \in [AllKeys -> Nat], evicted' \in [AllKeys -> Nat],
           DOMAIN buckets' = Limiters, DOMAIN order' = Limiters,
           \A l \in Limiters : Limiter(l, buckets'[l], order'[l]),
           \A l \in Limiters : \A k \in Keys[l] :
             Paid(l, k, buckets'[l], Cardinality(Holders(l, k)'), failed'[k], evicted'[k])
    PROVE  IInv'
<1>1. \A l \in Limiters : Limiter(l, buckets[l], order[l])'
  BY ZenonT(30) DEF Limiter
<1>2. \A l \in Limiters : \A k \in Keys[l] :
         Paid(l, k, buckets[l], Cardinality(Holders(l, k)), failed[k], evicted[k])'
  BY ZenonT(30) DEF Paid
<1>3. TypeOK'
  BY <1>1, ZenonT(30) DEF TypeOK
<1> QED
  BY <1>2, <1>3, ZenonT(30) DEF IInv

\* A limiter nothing was spent from and nothing was given back to.
LEMMA Untouched ==
    ASSUME WellFormed, IInv, NEW l \in Limiters, NEW k \in Keys[l], NEW r \in Requests, NEW x,
           attempt' = [attempt EXCEPT ![r] = x], buckets'[l] = buckets[l],
           failed'[k] = failed[k], evicted'[k] = evicted[k],
           Holds(x, l, k) <=> Holds(attempt[r], l, k)
    PROVE  Paid(l, k, buckets'[l], Cardinality(Holders(l, k)'), failed'[k], evicted'[k])
<1>1. PICK h, g : h = Cardinality(Holders(l, k)) /\ g = Cardinality(Holders(l, k)')
  OBVIOUS
<1>2. Handed(h, g, Holds(attempt[r], l, k), Holds(x, l, k)) /\ h \in Nat /\ g \in Nat
  <2>1. Handed(h, g, Holds(attempt[r], l, k), Holds(x, l, k))
    BY <1>1, HoldersStep, ZenonT(30) DEF IInv
  <2> QED
    BY <2>1, ZenonT(30) DEF Handed
<1>3. g = h
  BY <1>2, ZenonT(30) DEF Handed
<1>4. Paid(l, k, buckets[l], h, failed[k], evicted[k])
  BY <1>1, ZenonT(30) DEF IInv
<1> QED
  BY <1>1, <1>3, <1>4, ZenonT(30)

LEMMA KeysOfEach ==
    /\ Limiters = {"ip", "session"} /\ Keys["ip"] = Addresses /\ Keys["session"] = Sessions
    /\ AllKeys = Addresses \cup Sessions
BY DEF Limiters, Keys, AllKeys

\* A limiter a token is spent from.
LEMMA SpentFrom ==
    ASSUME WellFormed, IInv, NEW l \in Limiters, NEW i \in Keys[l], NEW r \in Requests, NEW x,
           attempt' = [attempt EXCEPT ![r] = x], Applies(l, Allow(l, i)),
           UNCHANGED failed, NEW k \in Keys[l],
           ~Holds(attempt[r], l, k), Holds(x, l, k) <=> Allow(l, i).ok /\ k = i
    PROVE  Paid(l, k, buckets'[l], Cardinality(Holders(l, k)'), failed'[k], evicted'[k])
<1>1. PICK h, g : h = Cardinality(Holders(l, k)) /\ g = Cardinality(Holders(l, k)')
  OBVIOUS
<1>2. Handed(h, g, Holds(attempt[r], l, k), Holds(x, l, k)) /\ h \in Nat /\ g \in Nat
  <2>1. Handed(h, g, Holds(attempt[r], l, k), Holds(x, l, k))
    BY <1>1, HoldersStep, ZenonT(30) DEF IInv
  <2> QED
    BY <2>1, ZenonT(30) DEF Handed
<1>3. PICK b, c, E, ok : b = buckets[l] /\ c = Allow(l, i).b /\ E = Allow(l, i).e /\ ok = Allow(l, i).ok
  OBVIOUS
<1>4. g = h + IF ok /\ k = i THEN 1 ELSE 0
  <2>1. CASE ok /\ k = i
    BY <1>2, <1>3, <2>1, ZenonT(30) DEF Handed
  <2>2. CASE ~(ok /\ k = i)
    <3>1. g = h
      BY <1>2, <1>3, <2>2, ZenonT(30) DEF Handed
    <3> QED
      BY <2>2, <3>1, <1>2, SMTT(30)
  <2> QED
    BY <2>1, <2>2
<1>5. k \in AllKeys
  BY KeysOfEach
<1>6. PICK f \in Nat, e \in Nat : f = failed[k] /\ e = evicted[k]
  BY <1>5 DEF IInv, TypeOK
<1>7. buckets'[l] = c /\ evicted'[k] = e + (IF k \in E THEN 1 ELSE 0) /\ failed'[k] = f
  BY <1>3, <1>5, <1>6 DEF Applies, IInv, TypeOK
<1>8. Paid(l, k, b, h, f, e)
  BY <1>1, <1>3, <1>6, ZenonT(30) DEF IInv
<1>9. Spent(l, b, c, Allow(l, i).o, E, i, ok)
  BY <1>3, AllowKeeps, ZenonT(30) DEF IInv
<1>10. Paid(l, k, c, h + (IF ok /\ k = i THEN 1 ELSE 0), f, e + IF k \in E THEN 1 ELSE 0)
  BY <1>2, <1>8, <1>9, ZenonT(30) DEF Spent
<1> QED
  BY <1>1, <1>4, <1>7, <1>10, ZenonT(30)

\* A limiter a token is given back to.
LEMMA RepaidTo ==
    ASSUME WellFormed, IInv, NEW l \in Limiters, NEW i \in Keys[l], NEW r \in Requests, NEW x,
           attempt' = [attempt EXCEPT ![r] = x], buckets'[l] = Refund(l, i),
           UNCHANGED <<failed, evicted>>, NEW k \in Keys[l],
           ~Holds(x, l, k), Holds(attempt[r], l, k) <=> k = i
    PROVE  Paid(l, k, buckets'[l], Cardinality(Holders(l, k)'), failed'[k], evicted'[k])
<1>1. PICK h, g : h = Cardinality(Holders(l, k)) /\ g = Cardinality(Holders(l, k)')
  OBVIOUS
<1>2. Handed(h, g, Holds(attempt[r], l, k), Holds(x, l, k)) /\ h \in Nat /\ g \in Nat
  <2>1. Handed(h, g, Holds(attempt[r], l, k), Holds(x, l, k))
    BY <1>1, HoldersStep, ZenonT(30) DEF IInv
  <2> QED
    BY <2>1, ZenonT(30) DEF Handed
<1>3. h = g + IF k = i THEN 1 ELSE 0
  <2>1. CASE k = i
    BY <1>2, <2>1, ZenonT(30) DEF Handed
  <2>2. CASE k # i
    <3>1. g = h
      BY <1>2, <2>2, ZenonT(30) DEF Handed
    <3> QED
      BY <2>2, <3>1, <1>2, SMTT(30)
  <2> QED
    BY <2>1, <2>2
<1>4. k \in AllKeys
  BY KeysOfEach
<1>5. PICK f \in Nat, e \in Nat : f = failed[k] /\ e = evicted[k]
  BY <1>4 DEF IInv, TypeOK
<1>6. Paid(l, k, buckets[l], g + (IF k = i THEN 1 ELSE 0), f, e)
  BY <1>1, <1>3, <1>5, ZenonT(30) DEF IInv
<1>7. Repaid(l, buckets[l], Refund(l, i), order[l], i)
  BY RefundKeeps, ZenonT(30) DEF IInv
<1>8. Paid(l, k, Refund(l, i), g, f, e)
  BY <1>2, <1>6, <1>7, ZenonT(30) DEF Repaid
<1> QED
  BY <1>1, <1>5, <1>8, ZenonT(30)

LEMMA AttemptsInit == WellFormed /\ Init => IInv
<1> SUFFICES ASSUME WellFormed, Init PROVE IInv
  OBVIOUS
<1>1. now = 0 /\ now \in Nat
  BY DEF Init
<1>2. attempt \in [Requests -> Attempt] /\ \A r \in Requests : attempt[r] = Idle
  BY DEF Init, Attempt, Idle
<1>3. /\ failed \in [AllKeys -> Nat] /\ evicted \in [AllKeys -> Nat]
      /\ \A k \in AllKeys : failed[k] = 0 /\ evicted[k] = 0
  BY DEF Init
<1>4. /\ DOMAIN buckets = Limiters /\ DOMAIN order = Limiters
      /\ \A l \in Limiters : buckets[l] = <<>> /\ order[l] = <<>>
  BY DEF Init
<1>5. ASSUME NEW l \in Limiters PROVE Limiter(l, <<>>, <<>>)
  <2>1. <<>> \in Seq(AllKeys) /\ IsInjective(<<>>) /\ Range(<<>>) = {} /\ DOMAIN <<>> = {}
    BY SMTT(30) DEF IsInjective, Range
  <2>2. IsFiniteSet({}) /\ Cardinality({}) <= MaxKeys
    BY FS_EmptySet, SMTT(30) DEF WellFormed
  <2>3. <<>> \in [{} -> Bucket]
    BY SMTT(30)
  <2> QED
    BY <2>1, <2>2, <2>3 DEF Limiter
<1>6. ASSUME NEW l \in Limiters, NEW k \in Keys[l]
      PROVE  Paid(l, k, buckets[l], Cardinality(Holders(l, k)), failed[k], evicted[k])
  <2>1. k \in AllKeys
    BY KeysOfEach
  <2>2. Holders(l, k) = {}
    <3>1. \A r \in Requests : ~Holds(attempt[r], l, k)
      BY SMTT(30), <1>2 DEF Holds, Idle
    <3> QED
      BY <3>1 DEF Holders
  <2>3. Cardinality(Holders(l, k)) = 0
    BY <2>2, FS_EmptySet
  <2>4. k \notin DOMAIN buckets[l]
    BY SMTT(30), <1>4
  <2>5. Burst[l] \in Nat
    BY DEF WellFormed
  <2>6. 0 + 0 <= Burst[l] * 0 + 0
    BY <2>5, SMTT(30)
  <2> QED
    BY <1>1, <1>3, <2>1, <2>3, <2>4, <2>6 DEF Paid
<1>7. TypeOK
  BY <1>1, <1>2, <1>3, <1>4, <1>5, ZenonT(30) DEF TypeOK
<1> QED
  BY <1>6, <1>7, ZenonT(30) DEF IInv

\* The limiter of a step of Allow, and the other one.
LEMMA AppliesKeeps ==
    ASSUME WellFormed, IInv, NEW l \in Limiters, NEW i \in Keys[l], Applies(l, Allow(l, i)), UNCHANGED now
    PROVE  /\ DOMAIN buckets' = Limiters /\ DOMAIN order' = Limiters /\ evicted' \in [AllKeys -> Nat]
           /\ \A m \in Limiters : Limiter(m, buckets'[m], order'[m])
           /\ \A m \in Limiters : m # l => buckets'[m] = buckets[m]
           /\ \A m \in Limiters : m # l => \A k \in Keys[m] : evicted'[k] = evicted[k]
<1>1. PICK a : a = Allow(l, i)
  OBVIOUS
<1>2. Spent(l, buckets[l], a.b, a.o, a.e, i, a.ok)
  BY <1>1, AllowKeeps, ZenonT(30) DEF IInv
<1>3. Limiter(l, a.b, a.o) /\ a.e \subseteq Keys[l]
  BY <1>2, ZenonT(30) DEF Spent
<1>4. /\ DOMAIN buckets = Limiters /\ DOMAIN order = Limiters /\ evicted \in [AllKeys -> Nat]
      /\ \A m \in Limiters : Limiter(m, buckets[m], order[m])
  BY DEF IInv, TypeOK
<1>5. /\ buckets' = [buckets EXCEPT ![l] = a.b] /\ order' = [order EXCEPT ![l] = a.o]
      /\ evicted' = [k \in AllKeys |-> evicted[k] + IF k \in a.e THEN 1 ELSE 0]
  BY <1>1 DEF Applies
<1>6. /\ DOMAIN buckets' = Limiters /\ DOMAIN order' = Limiters
      /\ buckets'[l] = a.b /\ order'[l] = a.o
      /\ \A m \in Limiters : m # l => buckets'[m] = buckets[m] /\ order'[m] = order[m]
  BY <1>4, <1>5
<1>7. \A m \in Limiters : Limiter(m, buckets'[m], order'[m])
  BY <1>3, <1>4, <1>6, ZenonT(30)
<1>8. evicted' \in [AllKeys -> Nat]
  BY <1>4, <1>5, SMTT(30)
<1>9. ASSUME NEW m \in Limiters, m # l, NEW k \in Keys[m] PROVE evicted'[k] = evicted[k]
  <2>1. k \in AllKeys /\ k \notin Keys[l]
    BY <1>9, KeysOfEach, SMTT(30) DEF WellFormed
  <2>2. k \notin a.e
    BY <1>3, <2>1
  <2>3. evicted[k] \in Nat
    BY <1>4, <2>1
  <2> QED
    BY SMTT(30), <1>5, <2>1, <2>2, <2>3
<1> QED
  BY <1>6, <1>7, <1>8, <1>9, ZenonT(30)

LEMMA SpendAddressKeeps ==
    ASSUME WellFormed, IInv, NEW r \in Requests, SpendAddress(r)
    PROVE  IInv'
<1>1. PICK ip \in Addresses, sid \in Sessions \cup {NoSession} :
        /\ Applies("ip", Allow("ip", ip))
        /\ attempt' = [attempt EXCEPT ![r] =
             IF ~Allow("ip", ip).ok THEN Idle
             ELSE [pc |-> IF sid = NoSession THEN "lookup" ELSE "session", ip |-> ip, sid |-> sid]]
  BY DEF SpendAddress
<1>2. PICK ok : ok = Allow("ip", ip).ok
  OBVIOUS
<1>3. PICK x : x = IF ~ok THEN Idle
                   ELSE [pc |-> IF sid = NoSession THEN "lookup" ELSE "session", ip |-> ip, sid |-> sid]
  OBVIOUS
<1>4. attempt' = [attempt EXCEPT ![r] = x]
  BY <1>1, <1>2, <1>3, ZenonT(30)
<1>5. now' = now /\ failed' = failed /\ attempt[r].pc = "idle"
  BY DEF SpendAddress
<1>6. /\ now \in Nat /\ attempt \in [Requests -> Attempt] /\ failed \in [AllKeys -> Nat]
      /\ attempt[r] \in Attempt
  BY DEF IInv, TypeOK
<1>7. x \in Attempt
  <2>1. CASE ~ok
    BY <1>3, <2>1 DEF Attempt, Idle
  <2>2. CASE ok /\ sid = NoSession
    BY <1>3, <2>2 DEF Attempt
  <2>3. CASE ok /\ sid # NoSession
    BY <1>3, <2>3 DEF Attempt
  <2> QED
    BY <2>1, <2>2, <2>3, ZenonT(30)
<1>8. attempt' \in [Requests -> Attempt]
  BY <1>4, <1>6, <1>7
<1>9. /\ "ip" \in Limiters /\ "session" \in Limiters /\ ip \in Keys["ip"]
  BY KeysOfEach
<1>10. /\ DOMAIN buckets' = Limiters /\ DOMAIN order' = Limiters /\ evicted' \in [AllKeys -> Nat]
       /\ \A m \in Limiters : Limiter(m, buckets'[m], order'[m])
       /\ buckets'["session"] = buckets["session"]
       /\ \A k \in Keys["session"] : evicted'[k] = evicted[k]
  BY <1>1, <1>5, <1>9, AppliesKeeps
<1>11. ASSUME NEW k \in Keys["ip"]
       PROVE  ~Holds(attempt[r], "ip", k) /\ (Holds(x, "ip", k) <=> ok /\ k = ip)
  <2>1. CASE ~ok
    BY <1>3, <1>5, <2>1 DEF Holds, Idle
  <2>2. CASE ok
    BY <1>3, <1>5, <2>2 DEF Holds
  <2> QED
    BY <2>1, <2>2
<1>12. ASSUME NEW k \in Keys["session"]
       PROVE  ~Holds(attempt[r], "session", k) /\ ~Holds(x, "session", k)
  <2>1. k # NoSession
    BY KeysOfEach DEF WellFormed
  <2>2. CASE ~ok
    BY <1>3, <1>5, <2>2 DEF Holds, Idle
  <2>3. CASE ok /\ sid = NoSession
    BY <1>3, <1>5, <2>1, <2>3 DEF Holds
  <2>4. CASE ok /\ sid # NoSession
    BY <1>3, <1>5, <2>4 DEF Holds
  <2> QED
    BY <2>2, <2>3, <2>4, ZenonT(30)
<1>13. \A k \in Keys["ip"] :
         Paid("ip", k, buckets'["ip"], Cardinality(Holders("ip", k)'), failed'[k], evicted'[k])
  BY <1>1, <1>2, <1>4, <1>5, <1>9, <1>11, SpentFrom, ZenonT(30)
<1>14. \A k \in Keys["session"] :
         Paid("session", k, buckets'["session"], Cardinality(Holders("session", k)'), failed'[k], evicted'[k])
  BY <1>4, <1>5, <1>9, <1>10, <1>12, Untouched, ZenonT(30)
<1>15. \A l \in Limiters : l = "ip" \/ l = "session"
  BY KeysOfEach
<1>16. failed' \in [AllKeys -> Nat]
  BY <1>5, <1>6
<1> QED
  BY <1>5, <1>6, <1>8, <1>10, <1>13, <1>14, <1>15, <1>16, Balanced, ZenonT(60)

LEMMA EitherLimiter ==
    /\ "ip" \in Limiters /\ "session" \in Limiters
    /\ \A l \in Limiters : l = "ip" \/ l = "session"
BY DEF Limiters

LEMMA SpendSessionKeeps ==
    ASSUME WellFormed, IInv, NEW r \in Requests, SpendSession(r)
    PROVE  IInv'
<1>1. /\ now \in Nat /\ attempt \in [Requests -> Attempt] /\ failed \in [AllKeys -> Nat]
      /\ attempt[r] \in Attempt /\ attempt[r].pc = "session" /\ now' = now /\ failed' = failed
  BY DEF IInv, TypeOK, SpendSession
<1>2. PICK ip \in Addresses, sid \in Sessions : attempt[r] = [pc |-> "session", ip |-> ip, sid |-> sid]
  BY <1>1 DEF Attempt
<1>3. PICK ok : ok = Allow("session", sid).ok
  OBVIOUS
<1>4. PICK x : x = [pc |-> IF ok THEN "lookup" ELSE "refund", ip |-> ip, sid |-> sid]
  OBVIOUS
<1>5. attempt[r].sid = sid /\ attempt[r].ip = ip
  BY SMTT(30), <1>2
<1>6. Applies("session", Allow("session", sid))
  BY <1>5 DEF SpendSession
<1>7. attempt' = [attempt EXCEPT ![r] = x]
  <2>1. attempt' = [attempt EXCEPT ![r].pc = IF ok THEN "lookup" ELSE "refund"]
    BY <1>3, <1>5, ZenonT(30) DEF SpendSession
  <2>2. [attempt[r] EXCEPT !.pc = IF ok THEN "lookup" ELSE "refund"] = x
    BY SMTT(30), <1>2, <1>4
  <2>3. attempt' = [attempt EXCEPT ![r] = [attempt[r] EXCEPT !.pc = IF ok THEN "lookup" ELSE "refund"]]
    BY <2>1
  <2> QED
    BY <2>2, <2>3, ZenonT(30)
<1>8. x \in Attempt
  <2>1. CASE ok
    BY <1>4, <2>1 DEF Attempt
  <2>2. CASE ~ok
    BY <1>4, <2>2 DEF Attempt
  <2> QED
    BY <2>1, <2>2
<1>9. attempt' \in [Requests -> Attempt] /\ failed' \in [AllKeys -> Nat]
  BY <1>1, <1>7, <1>8
<1>10. /\ DOMAIN buckets' = Limiters /\ DOMAIN order' = Limiters /\ evicted' \in [AllKeys -> Nat]
       /\ \A m \in Limiters : Limiter(m, buckets'[m], order'[m])
       /\ buckets'["ip"] = buckets["ip"]
       /\ \A k \in Keys["ip"] : evicted'[k] = evicted[k]
  BY <1>1, <1>6, AppliesKeeps, KeysOfEach
<1>11. \A k : Holds(x, "ip", k) <=> Holds(attempt[r], "ip", k)
  <2>1. x.pc # "idle" /\ x.ip = ip
    BY <1>4
  <2> QED
    BY <1>1, <1>5, <2>1 DEF Holds
<1>12. \A k : ~Holds(attempt[r], "session", k) /\ (Holds(x, "session", k) <=> ok /\ k = sid)
  <2>1. CASE ok
    BY <1>1, <1>4, <2>1 DEF Holds
  <2>2. CASE ~ok
    BY <1>1, <1>4, <2>2 DEF Holds
  <2> QED
    BY <2>1, <2>2
<1>13. \A k \in Keys["ip"] : Paid("ip", k, buckets'["ip"], Cardinality(Holders("ip", k)'), failed'[k], evicted'[k])
  BY <1>1, <1>7, <1>10, <1>11, Untouched, EitherLimiter, ZenonT(30)
<1>14. \A k \in Keys["session"] : Paid("session", k, buckets'["session"], Cardinality(Holders("session", k)'), failed'[k], evicted'[k])
  <2>1. sid \in Keys["session"] /\ UNCHANGED failed
    BY <1>1, KeysOfEach
  <2> QED
    BY <1>3, <1>6, <1>7, <1>12, <2>1, SpentFrom, EitherLimiter, ZenonT(30)
<1> QED
  BY <1>1, <1>9, <1>10, <1>13, <1>14, Balanced, EitherLimiter, ZenonT(30)

LEMMA RefundAddressKeeps ==
    ASSUME WellFormed, IInv, NEW r \in Requests, RefundAddress(r)
    PROVE  IInv'
<1>1. /\ now \in Nat /\ attempt \in [Requests -> Attempt] /\ failed \in [AllKeys -> Nat]
      /\ evicted \in [AllKeys -> Nat] /\ attempt[r] \in Attempt /\ attempt[r].pc = "refund"
      /\ DOMAIN buckets = Limiters /\ DOMAIN order = Limiters
      /\ \A l \in Limiters : Limiter(l, buckets[l], order[l])
  BY DEF IInv, TypeOK, RefundAddress
<1>2. PICK ip \in Addresses, sid \in Sessions : attempt[r] = [pc |-> "refund", ip |-> ip, sid |-> sid]
  BY <1>1 DEF Attempt
<1>3. /\ now' = now /\ failed' = failed /\ evicted' = evicted /\ order' = order
      /\ attempt' = [attempt EXCEPT ![r] = Idle]
      /\ buckets' = [buckets EXCEPT !["ip"] = Refund("ip", ip)]
  BY SMTT(30), <1>2 DEF RefundAddress
<1>4. attempt' \in [Requests -> Attempt] /\ failed' \in [AllKeys -> Nat] /\ evicted' \in [AllKeys -> Nat]
  <2>1. Idle \in Attempt
    BY DEF Idle, Attempt
  <2> QED
    BY <1>1, <1>3, <2>1
<1>5. /\ DOMAIN buckets' = Limiters /\ DOMAIN order' = Limiters
      /\ buckets'["ip"] = Refund("ip", ip) /\ buckets'["session"] = buckets["session"]
  BY <1>1, <1>3, EitherLimiter
<1>6. Repaid("ip", buckets["ip"], Refund("ip", ip), order["ip"], ip)
  BY RefundKeeps, KeysOfEach, EitherLimiter, ZenonT(30) DEF IInv
<1>7. \A m \in Limiters : Limiter(m, buckets'[m], order'[m])
  <2>1. Limiter("ip", Refund("ip", ip), order["ip"])
    BY <1>6, ZenonT(30) DEF Repaid
  <2> QED
    BY <1>1, <1>3, <1>5, <2>1, EitherLimiter, ZenonT(30)
<1>8. \A k : ~Holds(Idle, "ip", k) /\ (Holds(attempt[r], "ip", k) <=> k = ip)
  BY SMTT(30), <1>2 DEF Holds, Idle
<1>9. \A k : ~Holds(Idle, "session", k) /\ ~Holds(attempt[r], "session", k)
  BY SMTT(30), <1>2 DEF Holds, Idle
<1>10. \A k \in Keys["ip"] : Paid("ip", k, buckets'["ip"], Cardinality(Holders("ip", k)'), failed'[k], evicted'[k])
  BY <1>3, <1>5, <1>8, RepaidTo, KeysOfEach, EitherLimiter, ZenonT(30)
<1>11. \A k \in Keys["session"] : Paid("session", k, buckets'["session"], Cardinality(Holders("session", k)'), failed'[k], evicted'[k])
  BY <1>3, <1>5, <1>9, Untouched, EitherLimiter, ZenonT(30)
<1> QED
  BY <1>1, <1>3, <1>4, <1>5, <1>7, <1>10, <1>11, Balanced, EitherLimiter, ZenonT(30)

\* A failed look-up turns a token held into a failure counted.
LEMMA FailedWith ==
    ASSUME WellFormed, IInv, NEW l \in Limiters, NEW k \in Keys[l], NEW r \in Requests, NEW x,
           attempt' = [attempt EXCEPT ![r] = x], buckets'[l] = buckets[l], evicted'[k] = evicted[k],
           ~Holds(x, l, k), failed'[k] = failed[k] + IF Holds(attempt[r], l, k) THEN 1 ELSE 0
    PROVE  Paid(l, k, buckets'[l], Cardinality(Holders(l, k)'), failed'[k], evicted'[k])
<1>1. PICK h, g : h = Cardinality(Holders(l, k)) /\ g = Cardinality(Holders(l, k)')
  OBVIOUS
<1>2. Handed(h, g, Holds(attempt[r], l, k), Holds(x, l, k)) /\ h \in Nat /\ g \in Nat
  <2>1. Handed(h, g, Holds(attempt[r], l, k), Holds(x, l, k))
    BY <1>1, HoldersStep, ZenonT(30) DEF IInv
  <2> QED
    BY <2>1, ZenonT(30) DEF Handed
<1>3. k \in AllKeys
  BY KeysOfEach
<1>4. PICK f, e, b : f = failed[k] /\ e = evicted[k] /\ b = buckets[l] /\ f \in Nat /\ e \in Nat
  BY <1>3 DEF IInv, TypeOK
<1>5. Paid(l, k, b, h, f, e)
  BY <1>1, <1>4, ZenonT(30) DEF IInv
<1>6. CASE Holds(attempt[r], l, k)
  <2>1. h = g + 1
    BY <1>2, <1>6, ZenonT(30) DEF Handed
  <2>2. failed'[k] = f + 1
    BY <1>4, <1>6
  <2>3. Burst[l] \in Nat /\ now \in Nat
    BY DEF WellFormed, IInv, TypeOK
  <2>4. CASE k \in DOMAIN b
    <3>1. PICK t \in Nat, a \in Nat : b[k] = [tokens |-> t, last |-> a]
      <4>1. Limiter(l, b, order[l])
        BY <1>4, ZenonT(30) DEF IInv, TypeOK
      <4> QED
        BY <2>4, <4>1 DEF Limiter, Bucket
    <3>2. b[k].tokens = t /\ b[k].last = a
      BY SMTT(30), <3>1
    <3>3. PICK y \in Nat : y = Burst[l] * (1 + e)
      BY <1>4, <2>3, SMTT(30)
    <3>4. t + f + h <= y + a
      BY <1>5, <2>4, <3>2, <3>3, ZenonT(30) DEF Paid
    <3>5. t + (f + 1) + g <= y + a
      BY <1>2, <1>4, <2>1, <3>4, SMTT(30)
    <3>6. Paid(l, k, b, g, f + 1, e)
      BY <2>4, <3>2, <3>3, <3>5, ZenonT(30) DEF Paid
    <3> QED
      BY <1>1, <1>4, <2>2, <3>6, ZenonT(30)
  <2>5. CASE k \notin DOMAIN b
    <3>1. PICK y \in Nat : y = Burst[l] * e
      BY <1>4, <2>3, SMTT(30)
    <3>2. f + h <= y + now
      BY <1>5, <2>5, <3>1, ZenonT(30) DEF Paid
    <3>3. (f + 1) + g <= y + now
      BY <1>2, <1>4, <2>1, <2>3, <3>2, SMTT(30)
    <3>4. Paid(l, k, b, g, f + 1, e)
      BY <2>5, <3>1, <3>3, ZenonT(30) DEF Paid
    <3> QED
      BY <1>1, <1>4, <2>2, <3>4, ZenonT(30)
  <2> QED
    BY <2>4, <2>5
<1>7. CASE ~Holds(attempt[r], l, k)
  <2>1. g = h
    BY <1>2, <1>7, ZenonT(30) DEF Handed
  <2>2. failed'[k] = f
    BY <1>4, <1>7, SMTT(30)
  <2> QED
    BY <1>1, <1>4, <1>5, <2>1, <2>2, ZenonT(30)
<1> QED
  BY <1>6, <1>7

LEMMA FailKeeps ==
    ASSUME WellFormed, IInv, NEW r \in Requests, Fail(r)
    PROVE  IInv'
<1>1. /\ now \in Nat /\ attempt \in [Requests -> Attempt] /\ failed \in [AllKeys -> Nat]
      /\ evicted \in [AllKeys -> Nat] /\ attempt[r] \in Attempt /\ attempt[r].pc = "lookup"
      /\ DOMAIN buckets = Limiters /\ DOMAIN order = Limiters
      /\ \A l \in Limiters : Limiter(l, buckets[l], order[l])
  BY DEF IInv, TypeOK, Fail
<1>2. PICK ip \in Addresses, sid \in Sessions \cup {NoSession} :
        attempt[r] = [pc |-> "lookup", ip |-> ip, sid |-> sid]
  BY <1>1 DEF Attempt
<1>3. /\ now' = now /\ buckets' = buckets /\ evicted' = evicted /\ order' = order
      /\ attempt' = [attempt EXCEPT ![r] = Idle]
      /\ failed' = [k \in AllKeys |-> failed[k] + IF k \in {ip, sid} THEN 1 ELSE 0]
  BY SMTT(30), <1>2 DEF Fail
<1>4. attempt' \in [Requests -> Attempt] /\ failed' \in [AllKeys -> Nat] /\ evicted' \in [AllKeys -> Nat]
  <2>1. Idle \in Attempt
    BY DEF Idle, Attempt
  <2> QED
    BY <1>1, <1>3, <2>1, SMTT(30)
<1>5. \A l \in Limiters : \A k : ~Holds(Idle, l, k)
  BY DEF Holds, Idle
<1>6. \A k : (Holds(attempt[r], "ip", k) <=> k = ip) /\ (Holds(attempt[r], "session", k) <=> k = sid)
  BY SMTT(30), <1>2 DEF Holds
<1>7. ASSUME NEW k \in Keys["ip"]
      PROVE  failed'[k] = failed[k] + IF Holds(attempt[r], "ip", k) THEN 1 ELSE 0
  <2>1. k \in AllKeys /\ (k \in {ip, sid} <=> k = ip)
    BY <1>2, KeysOfEach DEF WellFormed
  <2> QED
    BY <1>3, <1>6, <2>1
<1>8. ASSUME NEW k \in Keys["session"]
      PROVE  failed'[k] = failed[k] + IF Holds(attempt[r], "session", k) THEN 1 ELSE 0
  <2>1. k \in AllKeys /\ (k \in {ip, sid} <=> k = sid)
    BY <1>2, KeysOfEach DEF WellFormed
  <2> QED
    BY <1>3, <1>6, <2>1
<1>9. \A k \in Keys["ip"] : Paid("ip", k, buckets'["ip"], Cardinality(Holders("ip", k)'), failed'[k], evicted'[k])
  BY <1>3, <1>5, <1>7, FailedWith, EitherLimiter, ZenonT(30)
<1>10. \A k \in Keys["session"] : Paid("session", k, buckets'["session"], Cardinality(Holders("session", k)'), failed'[k], evicted'[k])
  BY <1>3, <1>5, <1>8, FailedWith, EitherLimiter, ZenonT(30)
<1> QED
  BY <1>1, <1>3, <1>4, <1>9, <1>10, Balanced, EitherLimiter, ZenonT(30)

LEMMA SucceedKeeps ==
    ASSUME WellFormed, IInv, NEW r \in Requests, Succeed(r)
    PROVE  IInv'
<1>1. /\ now \in Nat /\ attempt \in [Requests -> Attempt] /\ failed \in [AllKeys -> Nat]
      /\ evicted \in [AllKeys -> Nat] /\ attempt[r] \in Attempt /\ attempt[r].pc = "lookup"
      /\ DOMAIN buckets = Limiters /\ DOMAIN order = Limiters
      /\ \A l \in Limiters : Limiter(l, buckets[l], order[l])
  BY DEF IInv, TypeOK, Succeed
<1>2. PICK ip \in Addresses, sid \in Sessions \cup {NoSession} :
        attempt[r] = [pc |-> "lookup", ip |-> ip, sid |-> sid]
  BY <1>1 DEF Attempt
<1>3. PICK x : x = [pc |-> "usable", ip |-> ip, sid |-> sid]
  OBVIOUS
<1>4. /\ now' = now /\ buckets' = buckets /\ evicted' = evicted /\ order' = order /\ failed' = failed
      /\ attempt' = [attempt EXCEPT ![r] = x]
  <2>1. [attempt[r] EXCEPT !.pc = "usable"] = x
    BY SMTT(30), <1>2, <1>3
  <2>2. attempt' = [attempt EXCEPT ![r] = [attempt[r] EXCEPT !.pc = "usable"]]
    BY DEF Succeed
  <2> QED
    BY <2>1, <2>2, ZenonT(30) DEF Succeed
<1>5. attempt' \in [Requests -> Attempt] /\ failed' \in [AllKeys -> Nat] /\ evicted' \in [AllKeys -> Nat]
  <2>1. x \in Attempt
    BY <1>3 DEF Attempt
  <2> QED
    BY <1>1, <1>4, <2>1
<1>6. \A l \in Limiters : \A k : Holds(x, l, k) <=> Holds(attempt[r], l, k)
  BY SMTT(30), <1>2, <1>3 DEF Holds
<1>7. \A k \in Keys["ip"] : Paid("ip", k, buckets'["ip"], Cardinality(Holders("ip", k)'), failed'[k], evicted'[k])
  BY <1>4, <1>6, Untouched, EitherLimiter, ZenonT(30)
<1>8. \A k \in Keys["session"] : Paid("session", k, buckets'["session"], Cardinality(Holders("session", k)'), failed'[k], evicted'[k])
  BY <1>4, <1>6, Untouched, EitherLimiter, ZenonT(30)
<1> QED
  BY <1>1, <1>4, <1>5, <1>7, <1>8, Balanced, EitherLimiter, ZenonT(30)

LEMMA RefundBothKeeps ==
    ASSUME WellFormed, IInv, NEW r \in Requests, RefundBoth(r)
    PROVE  IInv'
<1>1. /\ now \in Nat /\ attempt \in [Requests -> Attempt] /\ failed \in [AllKeys -> Nat]
      /\ evicted \in [AllKeys -> Nat] /\ attempt[r] \in Attempt /\ attempt[r].pc = "usable"
      /\ DOMAIN buckets = Limiters /\ DOMAIN order = Limiters
      /\ \A l \in Limiters : Limiter(l, buckets[l], order[l])
  BY DEF IInv, TypeOK, RefundBoth
<1>2. PICK ip \in Addresses, sid \in Sessions \cup {NoSession} :
        attempt[r] = [pc |-> "usable", ip |-> ip, sid |-> sid]
  BY <1>1 DEF Attempt
<1>3. /\ now' = now /\ failed' = failed /\ evicted' = evicted /\ order' = order
      /\ attempt' = [attempt EXCEPT ![r] = Idle]
      /\ buckets' = [l \in Limiters |->
           LET k == IF l = "ip" THEN ip ELSE sid
           IN  IF k = NoSession THEN buckets[l] ELSE Refund(l, k)]
  BY SMTT(30), <1>2 DEF RefundBoth
<1>4. attempt' \in [Requests -> Attempt] /\ failed' \in [AllKeys -> Nat] /\ evicted' \in [AllKeys -> Nat]
  <2>1. Idle \in Attempt
    BY DEF Idle, Attempt
  <2> QED
    BY <1>1, <1>3, <2>1
<1>5. ip # NoSession /\ ip \in Keys["ip"] /\ (sid # NoSession => sid \in Keys["session"])
  BY KeysOfEach DEF WellFormed
<1>6. /\ DOMAIN buckets' = Limiters /\ DOMAIN order' = Limiters
      /\ buckets'["ip"] = Refund("ip", ip)
      /\ buckets'["session"] = IF sid = NoSession THEN buckets["session"] ELSE Refund("session", sid)
  BY <1>1, <1>3, <1>5, EitherLimiter
<1>7. Limiter("ip", buckets'["ip"], order'["ip"])
  <2>1. Repaid("ip", buckets["ip"], Refund("ip", ip), order["ip"], ip)
    BY <1>5, RefundKeeps, EitherLimiter, ZenonT(30) DEF IInv
  <2> QED
    BY <1>3, <1>6, <2>1, ZenonT(30) DEF Repaid
<1>8. Limiter("session", buckets'["session"], order'["session"])
  <2>1. CASE sid = NoSession
    BY <1>1, <1>3, <1>6, <2>1, EitherLimiter, ZenonT(30)
  <2>2. CASE sid # NoSession
    <3>1. Repaid("session", buckets["session"], Refund("session", sid), order["session"], sid)
      BY <1>5, <2>2, RefundKeeps, EitherLimiter, ZenonT(30) DEF IInv
    <3> QED
      BY <1>3, <1>6, <2>2, <3>1, ZenonT(30) DEF Repaid
  <2> QED
    BY <2>1, <2>2
<1>9. \A l \in Limiters : \A k : ~Holds(Idle, l, k)
  BY DEF Holds, Idle
<1>10. \A k : (Holds(attempt[r], "ip", k) <=> k = ip) /\ (Holds(attempt[r], "session", k) <=> k = sid)
  BY SMTT(30), <1>2 DEF Holds
<1>11. UNCHANGED <<failed, evicted>>
  BY <1>3
<1>12. \A k \in Keys["ip"] : Paid("ip", k, buckets'["ip"], Cardinality(Holders("ip", k)'), failed'[k], evicted'[k])
  BY <1>3, <1>5, <1>6, <1>9, <1>10, <1>11, RepaidTo, EitherLimiter, ZenonT(30)
<1>13. \A k \in Keys["session"] : Paid("session", k, buckets'["session"], Cardinality(Holders("session", k)'), failed'[k], evicted'[k])
  <2>1. CASE sid = NoSession
    <3>1. \A k \in Keys["session"] : k # sid
      BY <2>1, KeysOfEach DEF WellFormed
    <3>2. buckets'["session"] = buckets["session"]
      BY <1>6, <2>1
    <3> QED
      BY <1>3, <1>9, <1>10, <3>1, <3>2, Untouched, EitherLimiter, ZenonT(30)
  <2>2. CASE sid # NoSession
    <3>1. buckets'["session"] = Refund("session", sid) /\ sid \in Keys["session"]
      BY <1>5, <1>6, <2>2
    <3> QED
      BY <1>3, <1>9, <1>10, <1>11, <3>1, RepaidTo, EitherLimiter, ZenonT(30)
  <2> QED
    BY <2>1, <2>2
<1>14. \A m \in Limiters : Limiter(m, buckets'[m], order'[m])
  BY <1>7, <1>8, EitherLimiter, ZenonT(30)
<1> QED
  BY <1>1, <1>3, <1>4, <1>6, <1>12, <1>13, <1>14, Balanced, EitherLimiter, ZenonT(30)

\* Time only helps: the accounts of keys no limiter tracks grow with it.
LEMMA TickKeeps ==
    ASSUME WellFormed, IInv, Tick
    PROVE  IInv'
<1>1. PICK t \in Nat : t = now /\ now' = t + 1
  BY DEF Tick, IInv, TypeOK
<1>2. UNCHANGED <<buckets, order, attempt, failed, evicted>>
  BY DEF Tick
<1>3. ASSUME NEW l \in Limiters PROVE Limiter(l, buckets[l], order[l])'
  <2>1. PICK b, o : b = buckets[l] /\ o = order[l]
    OBVIOUS
  <2>2. Limiter(l, b, o)
    BY <2>1, ZenonT(30) DEF IInv, TypeOK
  <2>3. \A k \in DOMAIN b : b[k].tokens <= Burst[l] /\ b[k].last <= now'
    <3>1. ASSUME NEW k \in DOMAIN b PROVE b[k].last <= now'
      <4>1. PICK a \in Nat : a = b[k].last /\ a <= t
        BY <1>1, <2>2, <3>1 DEF Limiter, Bucket
      <4> QED
        BY <1>1, <4>1, SMTT(30)
    <3> QED
      BY <2>2, <3>1, ZenonT(30) DEF Limiter
  <2>4. b = buckets'[l] /\ o = order'[l]
    BY <1>2, <2>1
  <2> QED
    BY <2>2, <2>3, <2>4, ZenonT(30) DEF Limiter
<1>4. ASSUME NEW l \in Limiters, NEW k \in Keys[l]
      PROVE  Paid(l, k, buckets[l], Cardinality(Holders(l, k)), failed[k], evicted[k])'
  <2>1. PICK h, H, b, f, e :
          /\ h = Cardinality(H) /\ H = Holders(l, k) /\ b = buckets[l] /\ f = failed[k] /\ e = evicted[k]
    OBVIOUS
  <2>2. H = Holders(l, k)'
    BY <1>2, <2>1, ZenonT(30) DEF Holders, Holds
  <2>3. Paid(l, k, b, h, f, e)
    BY <2>1, ZenonT(30) DEF IInv
  <2>4. k \in AllKeys /\ f \in Nat /\ e \in Nat /\ Burst[l] \in Nat
    BY <2>1, KeysOfEach DEF IInv, TypeOK, WellFormed
  <2>5. h \in Nat
    <3>1. IsFiniteSet(H)
      BY <2>1, FS_Subset DEF Holders, WellFormed
    <3> QED
      BY <2>1, <3>1, FS_CardinalityType
  <2>6. b = buckets'[l] /\ f = failed'[k] /\ e = evicted'[k]
    BY <1>2, <2>1
  <2>7. k \notin DOMAIN b => f + h <= Burst[l] * e + now'
    <3>1. PICK y \in Nat : y = Burst[l] * e
      BY <2>4, SMTT(30)
    <3>2. k \notin DOMAIN b => f + h <= y + t
      BY <1>1, <2>3, <3>1, ZenonT(30) DEF Paid
    <3>3. k \notin DOMAIN b => f + h <= y + (t + 1)
      BY <2>4, <2>5, <3>2, SMTT(30)
    <3> QED
      BY <1>1, <3>1, <3>3, ZenonT(30)
  <2>8. h = Cardinality(Holders(l, k))'
    BY <2>1, <2>2, ZenonT(30)
  <2>9. IF k \in DOMAIN b THEN b[k].tokens + f + h <= Burst[l] * (1 + e) + b[k].last
        ELSE f + h <= Burst[l] * e + now'
    BY <2>3, <2>7, ZenonT(30) DEF Paid
  <2> QED
    BY <2>6, <2>8, <2>9, ZenonT(30) DEF Paid
<1>5. TypeOK'
  <2>1. /\ (now \in Nat)' /\ (attempt \in [Requests -> Attempt])'
        /\ (failed \in [AllKeys -> Nat])' /\ (evicted \in [AllKeys -> Nat])'
        /\ (DOMAIN buckets = Limiters)' /\ (DOMAIN order = Limiters)'
    BY SMTT(30), <1>1, <1>2 DEF IInv, TypeOK
  <2> QED
    BY <1>3, <2>1, ZenonT(30) DEF TypeOK
<1> QED
  BY <1>4, <1>5, ZenonT(30) DEF IInv

\* The invariant implies the budget: what a key failed with is within its account.
LEMMA WithinAccount == WellFormed /\ IInv => FailuresWithinBudget
<1> SUFFICES ASSUME WellFormed, IInv, NEW l \in Limiters
             PROVE  /\ Cardinality(DOMAIN buckets[l]) <= MaxKeys
                    /\ \A k \in Keys[l] : failed[k] <= Burst[l] * (1 + evicted[k]) + now
  BY DEF FailuresWithinBudget
<1>1. Limiter(l, buckets[l], order[l])
  BY DEF IInv, TypeOK
<1>2. ASSUME NEW k \in Keys[l] PROVE failed[k] <= Burst[l] * (1 + evicted[k]) + now
  <2>1. PICK h, H, b, f, e :
          /\ h = Cardinality(H) /\ H = Holders(l, k) /\ b = buckets[l] /\ f = failed[k] /\ e = evicted[k]
    OBVIOUS
  <2>2. Paid(l, k, b, h, f, e)
    BY <2>1, ZenonT(30) DEF IInv
  <2>3. k \in AllKeys /\ f \in Nat /\ e \in Nat /\ Burst[l] \in Nat /\ now \in Nat
    BY <2>1, KeysOfEach DEF IInv, TypeOK, WellFormed
  <2>4. h \in Nat
    <3>1. IsFiniteSet(H)
      BY <2>1, FS_Subset DEF Holders, WellFormed
    <3> QED
      BY <2>1, <3>1, FS_CardinalityType
  <2>5. PICK y \in Nat, z \in Nat : y = Burst[l] * e /\ z = Burst[l] * (1 + e) /\ z = y + Burst[l]
    BY <2>3, SMTT(30)
  <2>6. CASE k \in DOMAIN b
    <3>1. PICK t \in Nat, a \in Nat : t = b[k].tokens /\ a = b[k].last /\ a <= now
      BY <1>1, <2>1, <2>6 DEF Limiter, Bucket
    <3>2. t + f + h <= z + a
      BY <2>2, <2>5, <2>6, <3>1, ZenonT(30) DEF Paid
    <3>3. f <= z + now
      BY <2>3, <2>4, <3>1, <3>2, SMTT(30)
    <3> QED
      BY <2>1, <2>5, <3>3, ZenonT(30)
  <2>7. CASE k \notin DOMAIN b
    <3>1. f + h <= y + now
      BY <2>2, <2>5, <2>7, ZenonT(30) DEF Paid
    <3>2. f <= z + now
      BY <2>3, <2>4, <2>5, <3>1, SMTT(30)
    <3> QED
      BY <2>1, <2>5, <3>2, ZenonT(30)
  <2> QED
    BY <2>6, <2>7
<1> QED
  BY <1>1, <1>2, ZenonT(30) DEF Limiter

\* For any number of attempts, addresses and sessions, and budgets and memory of
\* any size: every bucket is within its burst, the order lists what is tracked,
\* and every key's account is balanced.
THEOREM AttemptsInvariant ==
    ASSUME WellFormed
    PROVE  Spec => []IInv
<1>1. IInv /\ [Next]_vars => IInv'
  <2> SUFFICES ASSUME IInv, [Next]_vars PROVE IInv'
    OBVIOUS
  <2>1. ASSUME NEW r \in Requests,
               SpendAddress(r) \/ SpendSession(r) \/ RefundAddress(r) \/ Fail(r) \/ Succeed(r) \/ RefundBoth(r)
        PROVE  IInv'
    BY <2>1, SpendAddressKeeps, SpendSessionKeeps, RefundAddressKeeps, FailKeeps, SucceedKeeps, RefundBothKeeps, ZenonT(30)
  <2>2. CASE Tick
    BY <2>2, TickKeeps
  <2>3. CASE UNCHANGED vars
    <3>1. /\ now' = now /\ buckets' = buckets /\ order' = order /\ attempt' = attempt
          /\ failed' = failed /\ evicted' = evicted
      BY <2>3 DEF vars
    <3> QED
      BY <3>1, ZenonT(30) DEF IInv, TypeOK, Limiter, Holders, Holds, Paid
  <2> QED
    BY <2>1, <2>2, <2>3, ZenonT(30) DEF Next
<1>2. Init => IInv
  BY AttemptsInit
<1> QED
  BY <1>1, <1>2, PTL DEF Spec

\* FailuresWithinBudget for every instance.
THEOREM FailuresBounded ==
    ASSUME WellFormed
    PROVE  Spec => []FailuresWithinBudget
<1>1. IInv => FailuresWithinBudget
  BY WithinAccount
<1> QED
  BY <1>1, AttemptsInvariant, PTL

-----------------------------------------------------------------------------
(* Redaction.                                                              *)

CONSTANTS Process, Values, Length

VARIABLES values, version, cache, scrub

Redaction == INSTANCE Redaction

LEMMA GreaterOfTwo ==
    ASSUME NEW a \in Nat, NEW b \in Nat
    PROVE  (Redaction!Max({a, b}) = a \/ Redaction!Max({a, b}) = b) /\ Redaction!Max({a, b}) >= a /\ Redaction!Max({a, b}) >= b
<1>1. \E x \in {a, b} : \A y \in {a, b} : x >= y
  BY SMTT(30)
<1>2. Redaction!Max({a, b}) \in {a, b} /\ \A y \in {a, b} : Redaction!Max({a, b}) >= y
  BY <1>1 DEF Redaction!Max
<1> QED
  BY <1>2

\* merge of two Sets' rules: the stronger one of each value.
LEMMA StrongerIs ==
    ASSUME NEW a \in Redaction!Strengths, NEW b \in Redaction!Strengths
    PROVE  /\ Redaction!Stronger(a, b) \in Redaction!Strengths
           /\ \A v \in Values : /\ Redaction!Stronger(a, b)[v] >= a[v] /\ Redaction!Stronger(a, b)[v] >= b[v]
                                /\ Redaction!Stronger(a, b)[v] = a[v] \/ Redaction!Stronger(a, b)[v] = b[v]
<1>1. ASSUME NEW v \in Values
      PROVE  /\ Redaction!Stronger(a, b)[v] = Redaction!Max({a[v], b[v]}) /\ a[v] \in 0..3 /\ b[v] \in 0..3
             /\ a[v] \in Nat /\ b[v] \in Nat
  BY SMTT(30) DEF Redaction!Stronger, Redaction!Strengths
<1>2. ASSUME NEW v \in Values
      PROVE  /\ Redaction!Stronger(a, b)[v] >= a[v] /\ Redaction!Stronger(a, b)[v] >= b[v]
             /\ Redaction!Stronger(a, b)[v] = a[v] \/ Redaction!Stronger(a, b)[v] = b[v]
  BY <1>1, GreaterOfTwo, ZenonT(60)
<1>3. ASSUME NEW v \in Values PROVE Redaction!Max({a[v], b[v]}) \in 0..3
  BY <1>1, <1>2, ZenonT(30)
<1>4. Redaction!Stronger(a, b) \in Redaction!Strengths
  BY <1>3 DEF Redaction!Stronger, Redaction!Strengths
<1> QED
  BY <1>2, <1>4

\* A merge covers the Sets it merges.
LEMMA MergeCovers ==
    ASSUME Redaction!TypeOK, NEW r \in Requests
    PROVE  /\ Redaction!Stronger(values[r], values[Process]) \in Redaction!Strengths
           /\ Redaction!Covering(Redaction!Stronger(values[r], values[Process]), r)
           /\ \A v \in Values :
                \/ Redaction!Stronger(values[r], values[Process])[v] = values[r][v]
                \/ Redaction!Stronger(values[r], values[Process])[v] = values[Process][v]
           /\ values[r] \in Redaction!Strengths /\ values[Process] \in Redaction!Strengths
<1>1. values[r] \in Redaction!Strengths /\ values[Process] \in Redaction!Strengths
  BY DEF Redaction!TypeOK, Redaction!Sets
<1> QED
  BY <1>1, StrongerIs, ZenonT(30) DEF Redaction!Covering

\* What covers the Sets masks whatever their merge does.
LEMMA CoverMasks ==
    ASSUME Redaction!TypeOK, NEW r \in Requests, NEW shown \in Redaction!Strengths, Redaction!Covering(shown, r)
    PROVE  \A v \in Values : shown[v] >= Redaction!Stronger(values[r], values[Process])[v]
BY MergeCovers, ZenonT(30) DEF Redaction!Covering

LEMMA RedactionInit == ASSUME Redaction!WellFormed, Redaction!Init PROVE Redaction!IInv
<1>1. Redaction!Nothing \in Redaction!Strengths /\ \A v \in Values : Redaction!Nothing[v] = 0
  BY SMTT(30) DEF Redaction!Nothing, Redaction!Strengths
<1>2. Redaction!TypeOK
  BY <1>1 DEF Redaction!Init, Redaction!TypeOK, Redaction!Sets, Redaction!Idle
<1>3. Process \in Redaction!Sets /\ Requests \subseteq Redaction!Sets
  BY DEF Redaction!Sets
<1>4. ASSUME NEW s \in Redaction!Sets
      PROVE  values[s] = Redaction!Nothing /\ version[s] = 0 /\ cache[s] = [version |-> 0, shown |-> Redaction!Nothing]
  BY DEF Redaction!Init
<1>5. Redaction!ProcessCurrent
  <2>1. cache[Process].version = 0 /\ version[Process] = 0 /\ cache[Process].shown = values[Process]
    BY SMTT(30), <1>3, <1>4
  <2> QED
    BY <2>1, SMTT(30) DEF Redaction!ProcessCurrent
<1>6. ASSUME NEW r \in Requests PROVE Redaction!Current(cache[r].version, cache[r].shown, r)
  <2>1. cache[r].version = 0 /\ version[r] = 0 /\ version[Process] = 0
    BY SMTT(30), <1>3, <1>4
  <2>2. cache[r].shown = Redaction!Nothing /\ values[r] = Redaction!Nothing /\ values[Process] = Redaction!Nothing
    BY SMTT(30), <1>3, <1>4
  <2>3. Redaction!Covering(cache[r].shown, r)
    <3>1. 0 >= 0
      BY SMTT(30)
    <3> QED
      BY <1>1, <2>2, <3>1, ZenonT(30) DEF Redaction!Covering
  <2>4. 0 <= 0 + 0
    BY SMTT(30)
  <2> QED
    BY <2>1, <2>3, <2>4, ZenonT(30) DEF Redaction!Current, Redaction!versionLocked
<1>7. ASSUME NEW r \in Requests PROVE Redaction!ScrubSound(r)
  <2>1. scrub[r].pc = "idle"
    BY DEF Redaction!Init, Redaction!Idle
  <2> QED
    BY <2>1 DEF Redaction!ScrubSound
<1> QED
  BY <1>2, <1>5, <1>6, <1>7 DEF Redaction!IInv

\* A Declare moves the version of its Set, and of nothing that it leaves.
LEMMA DeclareKeeps ==
    ASSUME Redaction!WellFormed, Redaction!IInv, NEW s \in Redaction!Sets, NEW v \in Values, NEW rule \in Redaction!Rules, Redaction!Declare(s, v, rule)
    PROVE  Redaction!IInv'
<1>1. /\ values' = [values EXCEPT ![s][v] = rule.strength]
      /\ version' = [version EXCEPT ![s] = @ + 1]
      /\ cache' = cache /\ scrub' = scrub
      /\ Redaction!TypeOK /\ values[s][v] < rule.strength /\ rule.strength \in 1..3
  BY SMTT(30) DEF Redaction!Declare, Redaction!Declarable, Redaction!IInv, Redaction!Rules
<1>2. Redaction!TypeOK'
  <2>1. values' \in [Redaction!Sets -> Redaction!Strengths]
    BY SMTT(30), <1>1 DEF Redaction!TypeOK, Redaction!Strengths
  <2>2. version' \in [Redaction!Sets -> Nat]
    BY SMTT(30), <1>1 DEF Redaction!TypeOK
  <2> QED
    BY <1>1, <2>1, <2>2, ZenonT(30) DEF Redaction!TypeOK, Redaction!Sets, Redaction!Strengths
<1>3. ASSUME NEW t \in Redaction!Sets
      PROVE  /\ version[t] \in Nat /\ version'[t] \in Nat /\ version[t] <= version'[t]
             /\ version[t] = version'[t] => values'[t] = values[t]
             /\ \A u \in Values : values'[t][u] >= values[t][u]
             /\ \A u \in Values : values'[t][u] \in Nat /\ values[t][u] \in Nat
  <2>1. version[t] \in Nat /\ version'[t] = IF t = s THEN version[t] + 1 ELSE version[t]
    BY <1>1 DEF Redaction!TypeOK
  <2>2. t # s => values'[t] = values[t]
    BY <1>1 DEF Redaction!TypeOK
  <2>3. \A u \in Values : values'[t][u] = IF t = s /\ u = v THEN rule.strength ELSE values[t][u]
    BY <1>1 DEF Redaction!TypeOK, Redaction!Strengths
  <2>4. \A u \in Values : values[t][u] \in 0..3
    BY SMTT(30), <1>1 DEF Redaction!TypeOK, Redaction!Strengths
  <2> QED
    BY <1>1, <2>1, <2>2, <2>3, <2>4, SMTT(30)
<1>4. Process \in Redaction!Sets /\ Requests \subseteq Redaction!Sets
  BY DEF Redaction!Sets
<1>4a. ASSUME NEW r \in Requests
      PROVE  \E a, p, b, q \in Nat : /\ version[r] = a /\ version[Process] = p
                                     /\ version'[r] = b /\ version'[Process] = q /\ a <= b /\ p <= q
  BY <1>3, <1>4, ZenonT(30)
<1>5. ASSUME NEW r \in Requests, NEW ver \in Nat, NEW shown, Redaction!Current(ver, shown, r)
      PROVE  /\ ver <= Redaction!versionLocked(r)'
             /\ ver = Redaction!versionLocked(r)' =>
                  \A u \in Values : shown[u] >= values'[r][u] /\ shown[u] >= values'[Process][u]
  <2>1. ver <= version[r] + version[Process]
    BY <1>5, ZenonT(30) DEF Redaction!Current, Redaction!versionLocked
  <2>2. /\ ver <= version'[r] + version'[Process]
        /\ ver = version'[r] + version'[Process] =>
             version[r] = version'[r] /\ version[Process] = version'[Process]
               /\ ver = version[r] + version[Process]
    <3>1. PICK a, p, b, q \in Nat : /\ version[r] = a /\ version[Process] = p
                                    /\ version'[r] = b /\ version'[Process] = q /\ a <= b /\ p <= q
      BY <1>4a, ZenonT(30)
    <3> QED
      BY <2>1, <3>1, SMTT(30)
  <2>3. Redaction!versionLocked(r)' = version'[r] + version'[Process]
    BY DEF Redaction!versionLocked
  <2>4. ASSUME ver = Redaction!versionLocked(r)'
        PROVE  values'[r] = values[r] /\ values'[Process] = values[Process] /\ Redaction!Covering(shown, r)
    BY <1>3, <1>4, <1>5, <2>2, <2>3, <2>4, ZenonT(30) DEF Redaction!Current, Redaction!versionLocked
  <2> QED
    BY <2>2, <2>3, <2>4, ZenonT(30) DEF Redaction!Covering
<1>6. Redaction!ProcessCurrent'
  <2>1. /\ cache[Process].version \in Nat /\ cache[Process].version <= version[Process]
        /\ cache[Process].version = version[Process] => cache[Process].shown = values[Process]
    BY <1>1, <1>4 DEF Redaction!IInv, Redaction!ProcessCurrent, Redaction!TypeOK
  <2>2. /\ cache[Process].version <= version'[Process]
        /\ cache[Process].version = version'[Process] =>
              version[Process] = version'[Process] /\ cache[Process].version = version[Process]
    BY <1>3, <1>4, <2>1, SMTT(30)
  <2> QED
    BY <1>1, <1>3, <1>4, <2>1, <2>2, ZenonT(30) DEF Redaction!ProcessCurrent
<1>7. ASSUME NEW r \in Requests PROVE Redaction!Current(cache[r].version, cache[r].shown, r)'
  <2>1. Redaction!Current(cache[r].version, cache[r].shown, r) /\ cache[r].version \in Nat
    BY <1>1, <1>4 DEF Redaction!IInv, Redaction!TypeOK
  <2> QED
    BY <1>1, <1>5, <2>1, ZenonT(30) DEF Redaction!Current, Redaction!Covering
<1>8. ASSUME NEW r \in Requests PROVE Redaction!ScrubSound(r)'
  <2>1. Redaction!ScrubSound(r) /\ scrub[r].version \in Nat /\ \A u \in Values : scrub[r].declared[u] \in Nat
    <3>1. scrub[r].declared \in Redaction!Strengths /\ scrub[r].version \in Nat
      BY <1>1 DEF Redaction!TypeOK
    <3>2. \A u \in Values : scrub[r].declared[u] \in Nat
      BY <3>1, SMTT(30) DEF Redaction!Strengths
    <3> QED
      BY <3>1, <3>2 DEF Redaction!IInv
  <2>2. ASSUME scrub[r].pc = "collect"
        PROVE  /\ scrub[r].version <= Redaction!versionLocked(r)'
               /\ \A u \in Values : \/ values'[r][u] >= scrub[r].declared[u]
                                    \/ values'[Process][u] >= scrub[r].declared[u]
    <3>1. scrub[r].version <= version[r] + version[Process]
      BY <2>1, <2>2, ZenonT(30) DEF Redaction!ScrubSound, Redaction!versionLocked
    <3>2. scrub[r].version <= version'[r] + version'[Process]
      <4>1. PICK a, p, b, q \in Nat : /\ version[r] = a /\ version[Process] = p
                                      /\ version'[r] = b /\ version'[Process] = q /\ a <= b /\ p <= q
        BY <1>4a, ZenonT(30)
      <4> QED
        BY <2>1, <3>1, <4>1, SMTT(30)
    <3>3. ASSUME NEW u \in Values
          PROVE  \/ values'[r][u] >= scrub[r].declared[u]
                 \/ values'[Process][u] >= scrub[r].declared[u]
      <4>1. values[r][u] >= scrub[r].declared[u] \/ values[Process][u] >= scrub[r].declared[u]
        BY <2>1, <2>2, ZenonT(30) DEF Redaction!ScrubSound
      <4>2. \A x \in Redaction!Sets : /\ values'[x][u] \in Nat /\ values[x][u] \in Nat /\ scrub[r].declared[u] \in Nat
                            /\ values'[x][u] >= values[x][u]
        BY <1>3, <2>1, ZenonT(30)
      <4> QED
        BY <1>4, <4>1, <4>2, SMTT(30)
    <3> QED
      BY <3>2, <3>3, ZenonT(30) DEF Redaction!versionLocked
  <2>3. ASSUME scrub[r].pc = "store"
        PROVE  Redaction!Current(scrub[r].version, scrub[r].shown, r)
    BY <2>1, <2>3, ZenonT(30) DEF Redaction!ScrubSound
  <2> QED
    BY <1>1, <1>5, <2>1, <2>2, <2>3, ZenonT(30) DEF Redaction!ScrubSound, Redaction!Current, Redaction!Covering
<1> QED
  BY <1>2, <1>6, <1>7, <1>8 DEF Redaction!IInv

\* A step of one request's Scrub leaves the Sets and the other requests alone.
LEMMA ScrubStepKeeps ==
    ASSUME Redaction!IInv, NEW r \in Requests, values' = values, version' = version,
           Redaction!TypeOK', Redaction!ProcessCurrent', Redaction!ScrubSound(r)', Redaction!Current(cache'[r].version, cache'[r].shown, r),
           \A q \in Requests : q # r => cache'[q] = cache[q] /\ scrub'[q] = scrub[q]
    PROVE  Redaction!IInv'
<1>1. ASSUME NEW q \in Requests PROVE Redaction!Current(cache'[q].version, cache'[q].shown, q)
  BY <1>1 DEF Redaction!IInv
<1>2. ASSUME NEW q \in Requests PROVE Redaction!Current(cache[q].version, cache[q].shown, q)'
  BY <1>1, ZenonT(30) DEF Redaction!Current, Redaction!Covering, Redaction!versionLocked
<1>3. ASSUME NEW q \in Requests, q # r PROVE Redaction!ScrubSound(q)'
  <2>1. Redaction!ScrubSound(q)
    BY DEF Redaction!IInv
  <2> QED
    BY <1>3, <2>1, ZenonT(30) DEF Redaction!ScrubSound, Redaction!Current, Redaction!Covering, Redaction!versionLocked
<1> QED
  BY <1>2, <1>3, ZenonT(30) DEF Redaction!IInv

LEMMA ScrubAsProcessKeeps ==
    ASSUME Redaction!WellFormed, Redaction!IInv, NEW r \in Requests, Redaction!ScrubAsProcess(r)
    PROVE  Redaction!IInv'
<1>1. Redaction!TypeOK /\ values' = values /\ version' = version /\ Process \in Redaction!Sets /\ Process # r /\ r \in Redaction!Sets
  BY DEF Redaction!IInv, Redaction!ScrubAsProcess, Redaction!Sets, Redaction!WellFormed
<1>2. PICK d : d = Redaction!Stronger(values[r], values[Process])
  OBVIOUS
<1>3. d \in Redaction!Strengths /\ values[Process] \in Redaction!Strengths
  BY <1>1, <1>2, MergeCovers, ZenonT(30)
<1>4. cache'[Process] = [version |-> version[Process], shown |-> values[Process]]
  <2>1. CASE cache[Process].version = version[Process]
    <3>1. cache[Process] \in [version : Nat, shown : Redaction!Strengths] /\ cache' = cache
      BY <1>1, <2>1 DEF Redaction!TypeOK, Redaction!ScrubAsProcess
    <3>2. cache[Process].shown = values[Process]
      BY <2>1 DEF Redaction!IInv, Redaction!ProcessCurrent
    <3> QED
      BY <2>1, <3>1, <3>2
  <2>2. CASE cache[Process].version # version[Process]
    BY <1>1, <2>2 DEF Redaction!TypeOK, Redaction!ScrubAsProcess
  <2> QED
    BY <2>1, <2>2
<1>5. /\ cache' \in [Redaction!Sets -> [version : Nat, shown : Redaction!Strengths]]
      /\ \A q \in Requests : cache'[q] = cache[q]
  <2>1. version[Process] \in Nat
    BY <1>1 DEF Redaction!TypeOK
  <2>2. \A q \in Requests : q \in Redaction!Sets /\ q # Process
    BY DEF Redaction!Sets, Redaction!WellFormed
  <2> QED
    BY <1>1, <1>3, <2>1, <2>2 DEF Redaction!TypeOK, Redaction!ScrubAsProcess
<1>6. scrub' = [scrub EXCEPT ![r] = [scrub[r] EXCEPT !.pc = "done", !.shown = values[Process], !.declared = d]]
  <2>1. cache'[Process].shown = values[Process]
    BY SMTT(30), <1>4
  <2>2. scrub' = [scrub EXCEPT ![r] = Redaction!Done(r, cache'[Process].shown)]
    BY DEF Redaction!ScrubAsProcess
  <2> QED
    BY <1>2, <2>1, <2>2, ZenonT(30) DEF Redaction!Done
<1>7. /\ scrub'[r].pc = "done" /\ scrub'[r].shown = values[Process] /\ scrub'[r].declared = d
      /\ \A q \in Requests : q # r => scrub'[q] = scrub[q]
      /\ scrub' \in [Requests -> [pc : {"idle", "collect", "store", "done"}, version : Nat,
                                  shown : Redaction!Strengths, declared : Redaction!Strengths]]
  BY <1>1, <1>3, <1>6 DEF Redaction!TypeOK
<1>8. Redaction!TypeOK'
  BY <1>1, <1>5, <1>7, ZenonT(30) DEF Redaction!TypeOK, Redaction!Sets, Redaction!Strengths
<1>9. Redaction!ProcessCurrent'
  <2>1. version[Process] <= version[Process]
    BY SMTT(30), <1>1 DEF Redaction!TypeOK
  <2> QED
    BY SMTT(30), <1>1, <1>4, <2>1 DEF Redaction!ProcessCurrent
<1>10. ASSUME NEW v \in Values PROVE values[Process][v] >= d[v]
  <2>1. d[v] = values[r][v] \/ d[v] = values[Process][v]
    BY <1>1, <1>2, MergeCovers, ZenonT(30)
  <2>2. values[r][v] = 0 /\ values[Process][v] \in 0..3
    BY <1>3 DEF Redaction!ScrubAsProcess, Redaction!Nothing, Redaction!Strengths
  <2> QED
    BY <2>1, <2>2, SMTT(30)
<1>11. Redaction!ScrubSound(r)'
  BY <1>7, <1>10 DEF Redaction!ScrubSound
<1>12. Redaction!Current(cache'[r].version, cache'[r].shown, r)
  BY <1>5 DEF Redaction!IInv
<1> QED
  BY <1>1, <1>5, <1>7, <1>8, <1>9, <1>11, <1>12, ScrubStepKeeps, ZenonT(30)

LEMMA ScrubVersionKeeps ==
    ASSUME Redaction!WellFormed, Redaction!IInv, NEW r \in Requests, Redaction!ScrubVersion(r)
    PROVE  Redaction!IInv'
<1>1. /\ Redaction!TypeOK /\ values' = values /\ version' = version /\ cache' = cache
      /\ Process \in Redaction!Sets /\ r \in Redaction!Sets
  BY DEF Redaction!IInv, Redaction!ScrubVersion, Redaction!Sets
<1>2. PICK d : d = Redaction!Stronger(values[r], values[Process])
  OBVIOUS
<1>3. PICK v : v = Redaction!versionLocked(r)
  OBVIOUS
<1>4. v \in Nat /\ cache[r].shown \in Redaction!Strengths /\ Redaction!Nothing \in Redaction!Strengths
  BY SMTT(30), <1>1, <1>3 DEF Redaction!TypeOK, Redaction!versionLocked, Redaction!Nothing, Redaction!Strengths
<1>5. d \in Redaction!Strengths /\ \A u \in Values : d[u] = values[r][u] \/ d[u] = values[Process][u]
  BY <1>1, <1>2, MergeCovers, ZenonT(30)
<1>6. scrub' = [scrub EXCEPT ![r] =
        IF v = cache[r].version
        THEN [scrub[r] EXCEPT !.pc = "done", !.shown = cache[r].shown, !.declared = d]
        ELSE [pc |-> "collect", version |-> v, shown |-> Redaction!Nothing, declared |-> d]]
  BY <1>2, <1>3 DEF Redaction!ScrubVersion, Redaction!Done
<1>7. /\ \A q \in Requests : q # r => scrub'[q] = scrub[q]
      /\ scrub' \in [Requests -> [pc : {"idle", "collect", "store", "done"}, version : Nat,
                                  shown : Redaction!Strengths, declared : Redaction!Strengths]]
      /\ v = cache[r].version =>
           scrub'[r].pc = "done" /\ scrub'[r].shown = cache[r].shown /\ scrub'[r].declared = d
      /\ v # cache[r].version =>
           scrub'[r].pc = "collect" /\ scrub'[r].version = v /\ scrub'[r].declared = d
  BY ZenonT(60), <1>1, <1>4, <1>5, <1>6 DEF Redaction!TypeOK
<1>8. Redaction!TypeOK' /\ Redaction!ProcessCurrent'
  BY <1>1, <1>7, ZenonT(30) DEF Redaction!IInv, Redaction!TypeOK, Redaction!ProcessCurrent, Redaction!Sets, Redaction!Strengths
<1>9. Redaction!Current(cache[r].version, cache[r].shown, r)
  BY DEF Redaction!IInv
<1>10. Redaction!ScrubSound(r)'
  <2>1. CASE v = cache[r].version
    <3>1. Redaction!Covering(cache[r].shown, r)
      BY <1>3, <1>9, <2>1 DEF Redaction!Current
    <3>2. \A u \in Values : cache[r].shown[u] >= d[u]
      BY <1>1, <1>2, <1>4, <3>1, CoverMasks, ZenonT(30)
    <3> QED
      BY <1>7, <2>1, <3>2 DEF Redaction!ScrubSound
  <2>2. CASE v # cache[r].version
    <3>1. \A u \in Values : values[r][u] >= d[u] \/ values[Process][u] >= d[u]
      <4>1. \A u \in Values : values[r][u] \in Nat /\ values[Process][u] \in Nat
        <5>1. values[r] \in Redaction!Strengths /\ values[Process] \in Redaction!Strengths
          BY <1>1, ZenonT(30) DEF Redaction!TypeOK, Redaction!Sets
        <5> QED
          BY <5>1, SMTT(30) DEF Redaction!Strengths
      <4> QED
        BY <1>5, <4>1, SMTT(30)
    <3>2. Redaction!versionLocked(r)' = v /\ v <= v
      BY <1>1, <1>3, <1>4, SMTT(30) DEF Redaction!versionLocked
    <3> QED
      BY <1>1, <1>7, <2>2, <3>1, <3>2 DEF Redaction!ScrubSound
  <2> QED
    BY <2>1, <2>2
<1> QED
  BY <1>1, <1>7, <1>8, <1>9, <1>10, ScrubStepKeeps, ZenonT(30)

LEMMA ScrubCollectKeeps ==
    ASSUME Redaction!WellFormed, Redaction!IInv, NEW r \in Requests, Redaction!ScrubCollect(r)
    PROVE  Redaction!IInv'
<1>1. /\ Redaction!TypeOK /\ values' = values /\ version' = version /\ cache' = cache /\ scrub[r].pc = "collect"
  BY DEF Redaction!IInv, Redaction!ScrubCollect
<1>2. PICK d : d = Redaction!Stronger(values[r], values[Process])
  OBVIOUS
<1>3. d \in Redaction!Strengths /\ Redaction!Covering(d, r)
  BY <1>1, <1>2, MergeCovers, ZenonT(30)
<1>4. scrub' = [scrub EXCEPT ![r].pc = "store", ![r].shown = d]
  BY <1>2 DEF Redaction!ScrubCollect
<1>5. /\ \A q \in Requests : q # r => scrub'[q] = scrub[q]
      /\ scrub' \in [Requests -> [pc : {"idle", "collect", "store", "done"}, version : Nat,
                                  shown : Redaction!Strengths, declared : Redaction!Strengths]]
      /\ scrub'[r].pc = "store" /\ scrub'[r].shown = d
      /\ scrub'[r].version = scrub[r].version /\ scrub'[r].declared = scrub[r].declared
  BY <1>1, <1>3, <1>4 DEF Redaction!TypeOK
<1>6. Redaction!TypeOK' /\ Redaction!ProcessCurrent'
  BY <1>1, <1>5, ZenonT(30) DEF Redaction!IInv, Redaction!TypeOK, Redaction!ProcessCurrent, Redaction!Sets, Redaction!Strengths
<1>7. Redaction!Current(cache[r].version, cache[r].shown, r) /\ Redaction!ScrubSound(r)
  BY DEF Redaction!IInv
<1>8. Redaction!Current(scrub[r].version, d, r)
  BY <1>1, <1>3, <1>7 DEF Redaction!ScrubSound, Redaction!Current
<1>9. ASSUME NEW v \in Values PROVE d[v] >= scrub[r].declared[v]
  <2>1. values[r][v] >= scrub[r].declared[v] \/ values[Process][v] >= scrub[r].declared[v]
    BY <1>1, <1>7 DEF Redaction!ScrubSound
  <2>2. d[v] >= values[r][v] /\ d[v] >= values[Process][v]
    BY <1>3 DEF Redaction!Covering
  <2>3. d[v] \in Nat /\ values[r][v] \in Nat /\ values[Process][v] \in Nat
    <3>1. values[r] \in Redaction!Strengths /\ values[Process] \in Redaction!Strengths
      BY <1>1, ZenonT(30) DEF Redaction!TypeOK, Redaction!Sets
    <3> QED
      BY <1>3, <3>1, SMTT(30) DEF Redaction!Strengths
  <2>4. scrub[r].declared[v] \in Nat
    <3>1. scrub[r].declared \in Redaction!Strengths
      BY <1>1 DEF Redaction!TypeOK
    <3> QED
      BY <3>1, SMTT(30) DEF Redaction!Strengths
  <2> QED
    BY <2>1, <2>2, <2>3, <2>4, SMTT(30)
<1>10. Redaction!ScrubSound(r)'
  BY <1>1, <1>5, <1>8, <1>9 DEF Redaction!ScrubSound, Redaction!Current, Redaction!Covering, Redaction!versionLocked
<1> QED
  BY <1>1, <1>5, <1>6, <1>7, <1>10, ScrubStepKeeps, ZenonT(30)

LEMMA ScrubStoreKeeps ==
    ASSUME Redaction!WellFormed, Redaction!IInv, NEW r \in Requests, Redaction!ScrubStore(r)
    PROVE  Redaction!IInv'
<1>1. /\ Redaction!TypeOK /\ values' = values /\ version' = version /\ scrub[r].pc = "store"
      /\ r \in Redaction!Sets /\ Process \in Redaction!Sets /\ r # Process
  BY DEF Redaction!IInv, Redaction!ScrubStore, Redaction!Sets, Redaction!WellFormed
<1>2. PICK n \in Nat, d \in Redaction!Strengths : n = scrub[r].version /\ d = scrub[r].shown
  BY <1>1 DEF Redaction!TypeOK
<1>3. cache' = [cache EXCEPT ![r] = [version |-> n, shown |-> d]] /\ scrub' = [scrub EXCEPT ![r].pc = "done"]
  BY <1>2 DEF Redaction!ScrubStore, Redaction!CachedVersion
<1>4. /\ cache' \in [Redaction!Sets -> [version : Nat, shown : Redaction!Strengths]] /\ cache'[Process] = cache[Process]
      /\ cache'[r].version = n /\ cache'[r].shown = d
      /\ \A q \in Requests : q # r => cache'[q] = cache[q]
  BY <1>1, <1>2, <1>3 DEF Redaction!TypeOK, Redaction!Sets
<1>5. /\ \A q \in Requests : q # r => scrub'[q] = scrub[q]
      /\ scrub' \in [Requests -> [pc : {"idle", "collect", "store", "done"}, version : Nat,
                                  shown : Redaction!Strengths, declared : Redaction!Strengths]]
      /\ scrub'[r].pc = "done" /\ scrub'[r].shown = d /\ scrub'[r].declared = scrub[r].declared
  BY <1>1, <1>2, <1>3 DEF Redaction!TypeOK
<1>6. Redaction!TypeOK' /\ Redaction!ProcessCurrent'
  BY <1>1, <1>4, <1>5, ZenonT(30) DEF Redaction!IInv, Redaction!TypeOK, Redaction!ProcessCurrent, Redaction!Sets, Redaction!Strengths
<1>7. Redaction!ScrubSound(r)
  BY DEF Redaction!IInv
<1>8. Redaction!ScrubSound(r)'
  BY <1>1, <1>2, <1>5, <1>7 DEF Redaction!ScrubSound
<1>9. Redaction!Current(cache'[r].version, cache'[r].shown, r)
  BY <1>1, <1>2, <1>4, <1>7 DEF Redaction!ScrubSound
<1> QED
  BY <1>1, <1>4, <1>5, <1>6, <1>8, <1>9, ScrubStepKeeps, ZenonT(30)

LEMMA ExportedKeeps ==
    ASSUME Redaction!WellFormed, Redaction!IInv, NEW r \in Requests, Redaction!Exported(r)
    PROVE  Redaction!IInv'
<1>1. Redaction!TypeOK /\ values' = values /\ version' = version /\ cache' = cache
  BY DEF Redaction!IInv, Redaction!Exported
<1>2. Redaction!Nothing \in Redaction!Strengths
  BY SMTT(30) DEF Redaction!Nothing, Redaction!Strengths
<1>3. /\ \A q \in Requests : q # r => scrub'[q] = scrub[q]
      /\ scrub' \in [Requests -> [pc : {"idle", "collect", "store", "done"}, version : Nat,
                                  shown : Redaction!Strengths, declared : Redaction!Strengths]]
      /\ scrub'[r].pc = "idle"
  BY <1>1, <1>2 DEF Redaction!TypeOK, Redaction!Exported, Redaction!Idle
<1>4. Redaction!TypeOK' /\ Redaction!ProcessCurrent'
  BY <1>1, <1>3, ZenonT(30) DEF Redaction!IInv, Redaction!TypeOK, Redaction!ProcessCurrent, Redaction!Sets, Redaction!Strengths
<1>5. Redaction!ScrubSound(r)'
  BY <1>3 DEF Redaction!ScrubSound
<1>6. Redaction!Current(cache[r].version, cache[r].shown, r)
  BY DEF Redaction!IInv
<1> QED
  BY <1>1, <1>3, <1>4, <1>5, <1>6, ScrubStepKeeps, ZenonT(30)

\* A cached replacer, and a Scrub on its way, miss only what the version shows.
THEOREM RedactionInvariant ==
    ASSUME Redaction!WellFormed
    PROVE  Redaction!Spec => []Redaction!IInv
<1>1. Redaction!Init => Redaction!IInv
  BY RedactionInit
<1>2. Redaction!IInv /\ [Redaction!Next]_(Redaction!vars) => Redaction!IInv'
  <2>1. ASSUME Redaction!IInv, UNCHANGED Redaction!vars PROVE Redaction!IInv'
    BY <2>1 DEF Redaction!vars, Redaction!IInv, Redaction!TypeOK, Redaction!ProcessCurrent, Redaction!Current, Redaction!Covering, Redaction!ScrubSound, Redaction!versionLocked, Redaction!Sets, Redaction!Strengths
  <2> QED
    BY <2>1, DeclareKeeps, ScrubAsProcessKeeps, ScrubVersionKeeps, ScrubCollectKeeps, ScrubStoreKeeps,
       ExportedKeeps DEF Redaction!Next
<1> QED
  BY <1>1, <1>2, PTL DEF Redaction!Spec

\* For any values, requests and rules, what was declared before a Scrub looked is
\* masked in what it exports, by the strongest rule, cached replacer or not.
THEOREM DeclaredMasked ==
    ASSUME Redaction!WellFormed
    PROVE  Redaction!Spec => []Redaction!ScrubMasksDeclared
<1>1. ASSUME Redaction!IInv PROVE Redaction!ScrubMasksDeclared
  BY <1>1 DEF Redaction!IInv, Redaction!ScrubSound, Redaction!ScrubMasksDeclared
<1> QED
  BY <1>1, RedactionInvariant, PTL

-----------------------------------------------------------------------------
(* StateCopy.                                                              *)

CONSTANTS Kids, Tokens, Columns, MaxWrites

VARIABLES source, target, srcCols, dstCols, pc, force, known, snapshot, staged, locked, writes, sourcePast

Copy == INSTANCE StateCopy

LEMMA LeastExists ==
    ASSUME NEW T, T \subseteq Nat, T # {}
    PROVE  \E m \in T : \A n \in T : m <= n
<1>1. PICK m \in T : \A n \in T : ~(<<n, m>> \in OpToRel(<, Nat))
  BY WFMin, NatLessThanWellFounded
<1>2. \A n \in T : ~(n < m)
  <2> SUFFICES ASSUME NEW n \in T PROVE ~(n < m)
    OBVIOUS
  <2>1. <<n, m>> \in Nat \X Nat /\ <<n, m>>[1] = n /\ <<n, m>>[2] = m
    BY SMTT(30)
  <2> QED
    BY <1>1, <2>1 DEF OpToRel
<1> QED
  BY <1>2, SMTT(30)

-----------------------------------------------------------------------------
\* A database with its tables.
IsDb(db) ==
    /\ DOMAIN db = Copy!Tables \cup {Copy!Derived}
    /\ db["keypairs"] \subseteq Kids /\ db["refresh_tokens"] \subseteq Copy!Rows
    /\ db[Copy!Derived] \subseteq 0..MaxTime

IsPc(p) == p \in {"check", "lock", "clear", "begin", "derive", "commit", "done", "failed"} \cup Copy!Tables

LEMMA TypeIs ==
    Copy!TypeOK <=> /\ IsDb(source) /\ IsDb(target) /\ IsDb(snapshot) /\ IsDb(staged)
               /\ IsPc(pc) /\ writes \in 0..MaxWrites /\ locked \in BOOLEAN
BY ZenonT(30) DEF Copy!TypeOK, IsDb, IsPc

LEMMA EmptyIsDb == ASSUME Copy!WellFormed PROVE IsDb(Copy!Empty)
BY DEF IsDb, Copy!Empty, Copy!Tables, Copy!Derived, Copy!WellFormed

\* A saved row leaves every other.
LEMMA WrittenGrows ==
    ASSUME Copy!WellFormed, NEW old, IsDb(old), NEW db \in Copy!Written(old)
    PROVE  IsDb(db) /\ \A t \in Copy!Tables \cup {Copy!Derived} : old[t] \subseteq db[t]
<1>1. CASE \E k \in Kids : db = [old EXCEPT !["keypairs"] = @ \cup {k}]
  <2>1. PICK k \in Kids : db = [old EXCEPT !["keypairs"] = old["keypairs"] \cup {k}]
    BY <1>1
  <2> QED
    BY <2>1 DEF IsDb, Copy!Tables, Copy!Derived
<1>2. CASE \E t \in Tokens : db = [old EXCEPT !["refresh_tokens"] = @ \cup {[token |-> t, revoked |-> 0]}]
  <2>1. PICK t \in Tokens :
          db = [old EXCEPT !["refresh_tokens"] = old["refresh_tokens"] \cup {[token |-> t, revoked |-> 0]}]
    BY <1>2
  <2>2. [token |-> t, revoked |-> 0] \in Copy!Rows
    BY SMTT(30) DEF Copy!Rows, Copy!WellFormed
  <2> QED
    BY <2>1, <2>2 DEF IsDb, Copy!Tables, Copy!Derived
<1> QED
  BY <1>1, <1>2 DEF Copy!Written

LEMMA RevokedIsDb ==
    ASSUME Copy!WellFormed, NEW old, IsDb(old), NEW at \in 1..MaxTime
    PROVE  IsDb(Copy!RevokedAt(old, at))
<1>1. PICK rows : rows = {[r EXCEPT !.revoked = IF @ = 0 THEN at ELSE @] : r \in old["refresh_tokens"]}
  OBVIOUS
<1>2. Copy!RevokedAt(old, at) = [old EXCEPT !["refresh_tokens"] = rows]
  BY <1>1, ZenonT(30) DEF Copy!RevokedAt
<1>3. rows \subseteq Copy!Rows
  <2> SUFFICES ASSUME NEW r \in old["refresh_tokens"]
               PROVE  [r EXCEPT !.revoked = IF @ = 0 THEN at ELSE @] \in Copy!Rows
    BY <1>1
  <2>1. r \in [token : Tokens, revoked : 0..MaxTime] /\ at \in 0..MaxTime
    BY SMTT(30) DEF IsDb, Copy!Rows, Copy!WellFormed
  <2> QED
    BY <2>1 DEF Copy!Rows
<1> QED
  BY <1>2, <1>3 DEF IsDb, Copy!Tables, Copy!Derived

\* min(revoked_at): a family is revoked in Postgres exactly when one of its
\* tokens is in SQLite.
LEMMA DerivedRevocation ==
    ASSUME Copy!WellFormed, NEW db, IsDb(db)
    PROVE  /\ Copy!DeriveFamilies(db) \subseteq 0..MaxTime
           /\ (\E at \in Copy!DeriveFamilies(db) : at > 0) <=> Copy!RevokedInSqlite(db)
<1>1. Copy!Revocations(db) \subseteq 1..MaxTime
  <2> SUFFICES ASSUME NEW r \in db["refresh_tokens"], r.revoked # 0 PROVE r.revoked \in 1..MaxTime
    BY DEF Copy!Revocations
  <2>1. r.revoked \in 0..MaxTime
    BY DEF IsDb, Copy!Rows
  <2> QED
    BY <2>1, SMTT(30) DEF Copy!WellFormed
<1>2. CASE db["refresh_tokens"] = {}
  BY <1>2 DEF Copy!DeriveFamilies, Copy!RevokedInSqlite, Copy!Revocations
<1>3. CASE db["refresh_tokens"] # {} /\ Copy!Revocations(db) = {}
  <2>1. Copy!DeriveFamilies(db) = {0}
    BY <1>3 DEF Copy!DeriveFamilies
  <2> QED
    BY <1>3, <2>1, SMTT(30) DEF Copy!RevokedInSqlite, Copy!WellFormed
<1>4. CASE db["refresh_tokens"] # {} /\ Copy!Revocations(db) # {}
  <2>1. PICK m : m = Copy!Earliest(Copy!Revocations(db))
    OBVIOUS
  <2>2. m \in Copy!Revocations(db)
    <3>1. Copy!Revocations(db) \subseteq Nat
      BY <1>1, SMTT(30) DEF Copy!WellFormed
    <3>2. \E x \in Copy!Revocations(db) : \A y \in Copy!Revocations(db) : x <= y
      BY <1>4, <3>1, LeastExists
    <3> QED
      BY <2>1, <3>2, ZenonT(30) DEF Copy!Earliest
  <2>3. Copy!DeriveFamilies(db) = {m}
    BY <1>4, <2>1, ZenonT(30) DEF Copy!DeriveFamilies
  <2>4. m \in 0..MaxTime /\ m > 0
    BY <1>1, <2>2, SMTT(30) DEF Copy!WellFormed
  <2> QED
    BY <1>4, <2>3, <2>4 DEF Copy!RevokedInSqlite
<1> QED
  BY <1>2, <1>3, <1>4

LEMMA CopyInit == ASSUME Copy!WellFormed, Copy!Init PROVE Copy!IInv
<1>1. IsDb(Copy!Empty)
  BY EmptyIsDb
<1>2. IsDb(source)
  <2>1. PICK k \in SUBSET Kids, r \in {{}} \cup {{x} : x \in Copy!Rows} :
          source = [Copy!Empty EXCEPT !["keypairs"] = k, !["refresh_tokens"] = r]
    BY DEF Copy!Init
  <2>2. r \subseteq Copy!Rows
    OBVIOUS
  <2> QED
    BY <1>1, <2>1, <2>2 DEF IsDb, Copy!Tables, Copy!Derived
<1>3. IsDb(target)
  <2>1. PICK k \in SUBSET Kids : target = [Copy!Empty EXCEPT !["keypairs"] = k]
    BY DEF Copy!Init
  <2> QED
    BY <1>1, <2>1 DEF IsDb, Copy!Tables, Copy!Derived
<1>4. Copy!TypeOK
  <2>1. 0 \in 0..MaxWrites
    BY SMTT(30) DEF Copy!WellFormed
  <2> QED
    BY <1>1, <1>2, <1>3, <2>1, TypeIs DEF Copy!Init, IsPc
<1> QED
  BY <1>4 DEF Copy!Init, Copy!IInv, Copy!HoldsTarget, Copy!StagesSnapshot, Copy!Tables

LEMMA SourceWritesKeeps == ASSUME Copy!WellFormed, Copy!IInv, Copy!SourceWrites PROVE Copy!IInv'
<1>1. PICK db \in Copy!Written(source) \cup {Copy!RevokedAt(source, at) : at \in 1..MaxTime} :
        source' = db /\ sourcePast' = sourcePast \cup {db}
  BY DEF Copy!SourceWrites
<1>2. IsDb(source) /\ Copy!TypeOK
  BY TypeIs DEF Copy!IInv
<1>3. IsDb(db)
  BY <1>2, WrittenGrows, RevokedIsDb
<1>4. writes' \in 0..MaxWrites
  BY <1>2, SMTT(30) DEF Copy!SourceWrites, Copy!TypeOK, Copy!WellFormed
<1>5. UNCHANGED <<target, srcCols, dstCols, pc, force, known, snapshot, staged, locked>>
  BY DEF Copy!SourceWrites
<1>6. Copy!TypeOK'
  BY <1>1, <1>2, <1>3, <1>4, <1>5 DEF Copy!TypeOK, IsDb
<1>7. Copy!HoldsTarget'
  BY <1>5 DEF Copy!IInv, Copy!HoldsTarget, Copy!Held
<1>8. Copy!StagesSnapshot'
  BY <1>1, <1>5 DEF Copy!IInv, Copy!StagesSnapshot
<1> QED
  BY <1>6, <1>7, <1>8 DEF Copy!IInv

\* A write to the target needs it unlocked, and leaves its rows.
LEMMA TargetWritesKeeps ==
    ASSUME Copy!WellFormed, Copy!IInv, Copy!TargetWrites
    PROVE  Copy!IInv' /\ \A t \in DOMAIN target : target[t] \subseteq target'[t]
<1>1. PICK db \in Copy!Written(target) :
        target' = [db EXCEPT ![Copy!Derived] = IF db["refresh_tokens"] # {} /\ @ = {} THEN {0} ELSE @]
  BY DEF Copy!TargetWrites
<1>2. IsDb(target) /\ Copy!TypeOK
  BY TypeIs DEF Copy!IInv
<1>3. IsDb(db) /\ \A t \in Copy!Tables \cup {Copy!Derived} : target[t] \subseteq db[t]
  BY <1>2, WrittenGrows
<1>4. IsDb(target') /\ \A t \in Copy!Tables \cup {Copy!Derived} : db[t] \subseteq target'[t]
  <2>1. 0 \in 0..MaxTime
    BY SMTT(30) DEF Copy!WellFormed
  <2> QED
    BY <1>1, <1>3, <2>1 DEF IsDb, Copy!Tables, Copy!Derived
<1>5. writes' \in 0..MaxWrites
  BY <1>2, SMTT(30) DEF Copy!TargetWrites, Copy!TypeOK, Copy!WellFormed
<1>6. UNCHANGED <<source, srcCols, dstCols, pc, force, known, snapshot, staged, locked, sourcePast>> /\ ~locked
  BY DEF Copy!TargetWrites
<1>7. Copy!TypeOK'
  BY <1>2, <1>4, <1>5, <1>6 DEF Copy!TypeOK, IsDb
<1>8. Copy!HoldsTarget'
  BY <1>6 DEF Copy!IInv, Copy!HoldsTarget, Copy!Tables
<1>9. Copy!StagesSnapshot'
  BY <1>6 DEF Copy!IInv, Copy!StagesSnapshot
<1> QED
  BY <1>2, <1>3, <1>4, <1>7, <1>8, <1>9 DEF Copy!IInv, IsDb

\* A step of the copy itself, which leaves both databases alone, keeps the types
\* when it keeps those of what it stages.
LEMMA CopyTypes ==
    ASSUME Copy!TypeOK, UNCHANGED <<source, target, writes>>, IsDb(snapshot'), IsDb(staged'),
           IsPc(pc'), locked' \in BOOLEAN
    PROVE  Copy!TypeOK'
BY DEF Copy!TypeOK, IsDb, IsPc

LEMMA CopyStepsKeep ==
    ASSUME Copy!WellFormed, Copy!IInv,
           Copy!ReadSchema \/ Copy!Lock \/ Copy!Clear \/ Copy!BeginDump \/ (\E t \in Copy!Tables : Copy!CopyTable(t)) \/ Copy!Derive \/ Copy!Abort
    PROVE  Copy!IInv' /\ target' = target
<1>1. Copy!TypeOK /\ IsDb(source) /\ IsDb(snapshot) /\ IsDb(staged) /\ locked \in BOOLEAN
  BY TypeIs DEF Copy!IInv
<1>2. Copy!HoldsTarget /\ Copy!StagesSnapshot
  BY DEF Copy!IInv
<1>3. CASE Copy!ReadSchema
  <2>1. Copy!TypeOK'
    BY <1>1, <1>3, CopyTypes DEF Copy!ReadSchema, IsPc
  <2> QED
    BY <1>2, <1>3, <2>1 DEF Copy!ReadSchema, Copy!IInv, Copy!HoldsTarget, Copy!StagesSnapshot, Copy!Tables
<1>4. CASE Copy!Lock
  <2>1. Copy!TypeOK'
    BY <1>1, <1>4, CopyTypes DEF Copy!Lock, Copy!LockForImport, IsPc
  <2> QED
    BY <1>2, <1>4, <2>1 DEF Copy!Lock, Copy!LockForImport, Copy!IInv, Copy!HoldsTarget, Copy!StagesSnapshot, Copy!Tables
<1>5. CASE Copy!Clear
  <2>1. Copy!TypeOK'
    BY <1>1, <1>5, CopyTypes, EmptyIsDb DEF Copy!Clear, IsPc
  <2> QED
    BY <1>2, <1>5, <2>1 DEF Copy!Clear, Copy!IInv, Copy!HoldsTarget, Copy!StagesSnapshot, Copy!Tables, Copy!Held
<1>6. CASE Copy!BeginDump
  <2>1. Copy!TypeOK'
    BY <1>1, <1>6, CopyTypes DEF Copy!BeginDump, IsPc, Copy!Tables
  <2> QED
    BY <1>2, <1>6, <2>1 DEF Copy!BeginDump, Copy!IInv, Copy!HoldsTarget, Copy!StagesSnapshot, Copy!Tables, Copy!Held
<1>7. CASE \E t \in Copy!Tables : Copy!CopyTable(t)
  <2>1. PICK t \in Copy!Tables : Copy!CopyTable(t)
    BY <1>7
  <2>2. staged' = [staged EXCEPT ![t] = snapshot[t]]
    BY <2>1 DEF Copy!CopyTable, Copy!Visible
  <2>3. /\ staged'[t] = snapshot[t] /\ \A u \in Copy!Tables : u # t => staged'[u] = staged[u]
        /\ IsDb(staged')
    BY <1>1, <2>2 DEF IsDb, Copy!Tables, Copy!Derived
  <2>4. Copy!TypeOK'
    BY <1>1, <2>1, <2>3, CopyTypes DEF Copy!CopyTable, IsPc, Copy!Tables
  <2>5. Copy!HoldsTarget'
    BY <1>2, <2>1 DEF Copy!CopyTable, Copy!HoldsTarget, Copy!Tables, Copy!Held
  <2>6. Copy!StagesSnapshot'
    BY <1>2, <2>1, <2>3 DEF Copy!CopyTable, Copy!StagesSnapshot, Copy!Tables
  <2> QED
    BY <2>1, <2>4, <2>5, <2>6 DEF Copy!IInv, Copy!CopyTable
<1>8. CASE Copy!Derive
  <2>1. PICK f : f = Copy!DeriveFamilies(staged)
    OBVIOUS
  <2>2. staged' = [staged EXCEPT ![Copy!Derived] = f]
    BY <1>8, <2>1 DEF Copy!Derive
  <2>3. f \subseteq 0..MaxTime
    BY <1>1, <2>1, DerivedRevocation
  <2>4. /\ staged'[Copy!Derived] = f /\ \A u \in Copy!Tables : staged'[u] = staged[u]
        /\ IsDb(staged')
    BY <1>1, <2>2, <2>3 DEF IsDb, Copy!Tables, Copy!Derived
  <2>5. f = Copy!DeriveFamilies(snapshot)
    BY <1>2, <1>8, <2>1 DEF Copy!Derive, Copy!StagesSnapshot, Copy!DeriveFamilies, Copy!Revocations
  <2>6. Copy!TypeOK'
    BY <1>1, <1>8, <2>4, CopyTypes DEF Copy!Derive, IsPc
  <2>7. Copy!HoldsTarget'
    BY <1>2, <1>8 DEF Copy!Derive, Copy!HoldsTarget, Copy!Tables, Copy!Held
  <2>8. Copy!StagesSnapshot'
    BY <1>2, <1>8, <2>4, <2>5 DEF Copy!Derive, Copy!StagesSnapshot, Copy!Tables, Copy!DeriveFamilies, Copy!Revocations
  <2> QED
    BY <1>8, <2>6, <2>7, <2>8 DEF Copy!IInv, Copy!Derive
<1>9. CASE Copy!Abort
  <2>1. Copy!TypeOK'
    BY <1>1, <1>9, CopyTypes DEF Copy!Abort, IsPc
  <2> QED
    BY <1>2, <1>9, <2>1 DEF Copy!Abort, Copy!IInv, Copy!HoldsTarget, Copy!StagesSnapshot, Copy!Tables
<1> QED
  BY <1>3, <1>4, <1>5, <1>6, <1>7, <1>8, <1>9

LEMMA CommitKeeps ==
    ASSUME Copy!WellFormed, Copy!IInv, Copy!Commit
    PROVE  /\ Copy!IInv' /\ Copy!CopyStep
<1>1. Copy!TypeOK /\ IsDb(target) /\ IsDb(snapshot) /\ IsDb(staged)
  BY TypeIs DEF Copy!IInv
<1>2. /\ target' = staged /\ pc = "commit" /\ locked' = FALSE /\ pc' = "done"
      /\ UNCHANGED <<source, srcCols, dstCols, force, known, snapshot, staged, writes, sourcePast>>
  BY DEF Copy!Commit
<1>3. Copy!TypeOK'
  BY <1>1, <1>2 DEF Copy!TypeOK, IsDb
<1>4. Copy!IInv'
  BY <1>2, <1>3 DEF Copy!IInv, Copy!HoldsTarget, Copy!StagesSnapshot, Copy!Tables
<1>5. /\ snapshot \in sourcePast /\ srcCols = known /\ known \subseteq dstCols
      /\ \A t \in Copy!Tables : staged[t] = snapshot[t]
      /\ staged[Copy!Derived] = Copy!DeriveFamilies(snapshot)
  BY <1>2 DEF Copy!IInv, Copy!StagesSnapshot, Copy!Tables
<1>6. Copy!RevokedInPostgres(target') <=> Copy!RevokedInSqlite(snapshot)
  BY <1>1, <1>2, <1>5, DerivedRevocation DEF Copy!RevokedInPostgres
<1>7. Copy!CommitStep
  BY <1>2, <1>5, <1>6 DEF Copy!CommitStep
<1>8. Copy!TargetStep
  BY <1>2 DEF Copy!TargetStep, Copy!IInv, Copy!HoldsTarget, Copy!Held
<1> QED
  BY <1>4, <1>7, <1>8 DEF Copy!CopyStep

\* Every step keeps the invariant, and is a step a copy may take.
LEMMA CopyNext ==
    ASSUME Copy!WellFormed, Copy!IInv, [Copy!Next]_(Copy!vars)
    PROVE  Copy!IInv' /\ [Copy!CopyStep]_(Copy!vars)
<1>1. ASSUME pc' = pc \/ pc # "commit" \/ pc' # "done", target' = target PROVE Copy!CopyStep
  BY <1>1 DEF Copy!CopyStep, Copy!CommitStep, Copy!TargetStep
<1>2. CASE Copy!SourceWrites
  BY <1>1, <1>2, SourceWritesKeeps DEF Copy!SourceWrites
<1>3. CASE Copy!TargetWrites
  BY <1>3, TargetWritesKeeps DEF Copy!TargetWrites, Copy!CopyStep, Copy!CommitStep, Copy!TargetStep
<1>4. CASE Copy!TargetMigrates
  <2>1. Copy!IInv'
    BY <1>4 DEF Copy!TargetMigrates, Copy!IInv, Copy!TypeOK, Copy!HoldsTarget, Copy!StagesSnapshot, Copy!Held
  <2> QED
    BY <1>1, <1>4, <2>1 DEF Copy!TargetMigrates
<1>5. CASE Copy!ReadSchema \/ Copy!Lock \/ Copy!Clear \/ Copy!BeginDump \/ (\E t \in Copy!Tables : Copy!CopyTable(t)) \/ Copy!Derive \/ Copy!Abort
  <2>1. pc' # "done"
    BY <1>5 DEF Copy!ReadSchema, Copy!Lock, Copy!Clear, Copy!BeginDump, Copy!CopyTable, Copy!Derive, Copy!Abort
  <2> QED
    BY <1>1, <1>5, <2>1, CopyStepsKeep
<1>6. CASE Copy!Commit
  BY <1>6, CommitKeeps
<1>7. CASE UNCHANGED Copy!vars
  BY <1>7 DEF Copy!vars, Copy!IInv, Copy!TypeOK, Copy!HoldsTarget, Copy!StagesSnapshot, Copy!Held
<1> QED
  BY <1>2, <1>3, <1>4, <1>5, <1>6, <1>7 DEF Copy!Next

\* What is staged is one state of the source, and the target waits for it.
THEOREM CopyInvariant ==
    ASSUME Copy!WellFormed
    PROVE  Copy!Spec => []Copy!IInv
<1>1. Copy!Init => Copy!IInv
  BY CopyInit
<1>2. Copy!IInv /\ [Copy!Next]_(Copy!vars) => Copy!IInv'
  BY CopyNext
<1> QED
  BY <1>1, <1>2, PTL DEF Copy!Spec

\* For any tables and any writers left running on either side, a copy leaves the
\* source of one instant in the target, without --force replaces no row of it,
\* and leaves it alone when it fails.
THEOREM OneSnapshotCopied ==
    ASSUME Copy!WellFormed
    PROVE  Copy!Spec => Copy!CopiesOneSnapshot
<1>1. Copy!IInv /\ [Copy!Next]_(Copy!vars) => [Copy!CopyStep]_(Copy!vars)
  BY CopyNext
<1> QED
  BY <1>1, CopyInvariant, PTL DEF Copy!Spec, Copy!CopiesOneSnapshot

-----------------------------------------------------------------------------
(* KeyWrapping.                                                            *)

CONSTANTS Keks, NoKek, Replicas, MaxStarts

VARIABLES rows, cmd, kek, loaded, starts

Wrapping == INSTANCE KeyWrapping

LEMMA WrapInit == Wrapping!WellFormed /\ Wrapping!Init => Wrapping!IInv
BY SMTT(30) DEF Wrapping!WellFormed, Wrapping!Init, Wrapping!IInv, Wrapping!TypeOK, Wrapping!Idle, Wrapping!Stored, Wrapping!openStored, Wrapping!None, Wrapping!Clear

\* No step forgets a row.
LEMMA RowsStay ==
    ASSUME Wrapping!WellFormed, Wrapping!IInv, NEW k \in Kids, NEW w \in {Wrapping!Clear} \cup Keks, rows' = [rows EXCEPT ![k] = w]
    PROVE  Wrapping!Stored \subseteq Wrapping!Stored' /\ rows' \in [Kids -> {Wrapping!None, Wrapping!Clear} \cup Keks]
BY DEF Wrapping!WellFormed, Wrapping!IInv, Wrapping!TypeOK, Wrapping!Stored, Wrapping!None, Wrapping!Clear

LEMMA WrapNext ==
    ASSUME Wrapping!WellFormed, Wrapping!IInv, [Wrapping!Next]_(Wrapping!vars)
    PROVE  Wrapping!IInv'
<1>0. Wrapping!TypeOK /\ cmd.todo \subseteq Wrapping!Stored /\ \A r \in Replicas : loaded[r] \subseteq Wrapping!Stored
  BY DEF Wrapping!IInv
<1>1. ASSUME NEW r \in Replicas, Wrapping!Reload(r) PROVE Wrapping!IInv'
  <2>1. Wrapping!Reloaded(r) \subseteq Wrapping!Stored /\ Wrapping!Stored \subseteq Kids
    BY <1>0 DEF Wrapping!Reloaded, Wrapping!Stored
  <2>2. loaded' = [loaded EXCEPT ![r] = Wrapping!Reloaded(r)] /\ UNCHANGED <<rows, cmd, kek>>
    BY <1>1 DEF Wrapping!Reload
  <2> QED
    BY <1>0, <2>1, <2>2 DEF Wrapping!IInv, Wrapping!TypeOK, Wrapping!Stored, Wrapping!openStored
<1>2. ASSUME NEW r \in Replicas, NEW k \in Keks \cup {NoKek}, Wrapping!Start(r, k) PROVE Wrapping!IInv'
  <2>1. PICK L \in SUBSET Wrapping!Stored : loaded' = [loaded EXCEPT ![r] = L]
    BY <1>2 DEF Wrapping!Start
  <2>2. kek' = [kek EXCEPT ![r] = k] /\ UNCHANGED <<rows, cmd>> /\ Wrapping!Stored \subseteq Kids
    BY <1>2 DEF Wrapping!Start, Wrapping!Stored
  <2> QED
    BY <1>0, <2>1, <2>2 DEF Wrapping!IInv, Wrapping!TypeOK, Wrapping!Stored, Wrapping!openStored
<1>3. ASSUME NEW k \in Keks \cup {NoKek}, Wrapping!GenerateLoad(k) PROVE Wrapping!IInv'
  BY <1>0, <1>3 DEF Wrapping!GenerateLoad, Wrapping!GenerateOpens, Wrapping!IInv, Wrapping!TypeOK, Wrapping!Stored, Wrapping!openStored
<1>4. ASSUME NEW k \in Keks \cup {NoKek}, Wrapping!EncryptLoad(k) PROVE Wrapping!IInv'
  BY <1>0, <1>4 DEF Wrapping!EncryptLoad, Wrapping!IInv, Wrapping!TypeOK, Wrapping!Stored
<1>5. CASE Wrapping!GenerateSave
  <2>1. PICK k \in Kids \ Wrapping!Stored : rows' = [rows EXCEPT ![k] = Wrapping!sealForStore(cmd.kek)]
    BY <1>5 DEF Wrapping!GenerateSave, Wrapping!Oldest
  <2>2. Wrapping!sealForStore(cmd.kek) \in {Wrapping!Clear} \cup Keks
    BY <1>0 DEF Wrapping!sealForStore, Wrapping!TypeOK
  <2>3. cmd' = Wrapping!Idle /\ UNCHANGED <<kek, loaded>>
    BY <1>5 DEF Wrapping!GenerateSave
  <2> QED
    BY <1>0, <2>1, <2>2, <2>3, RowsStay DEF Wrapping!IInv, Wrapping!TypeOK, Wrapping!Idle
<1>6. CASE Wrapping!EncryptRow
  <2>1. CASE cmd' = Wrapping!Idle /\ UNCHANGED <<rows, kek, loaded>>
    BY <1>0, <2>1 DEF Wrapping!IInv, Wrapping!TypeOK, Wrapping!Idle, Wrapping!Stored
  <2>2. CASE ~(cmd' = Wrapping!Idle /\ UNCHANGED <<rows, kek, loaded>>)
    <3>1. PICK k \in cmd.todo : cmd' = [cmd EXCEPT !.todo = @ \ {k}] /\ rows' = [rows EXCEPT ![k] = cmd.kek]
      BY <1>6, <2>2 DEF Wrapping!EncryptRow, Wrapping!Oldest
    <3>2. cmd.pc = "encrypt" /\ k \in Kids /\ cmd.kek \in Keks
      BY <1>0, <1>6 DEF Wrapping!EncryptRow, Wrapping!IInv, Wrapping!TypeOK
    <3>3. /\ cmd'.pc = "encrypt" /\ cmd'.kek = cmd.kek /\ cmd'.todo \subseteq cmd.todo
          /\ cmd' \in [pc : {"idle", "save", "encrypt"}, kek : Keks \cup {NoKek}, todo : SUBSET Kids]
      BY <1>0, <3>1, <3>2 DEF Wrapping!TypeOK
    <3> QED
      BY <1>0, <1>6, <3>1, <3>2, <3>3, RowsStay DEF Wrapping!EncryptRow, Wrapping!IInv, Wrapping!TypeOK, Wrapping!WellFormed
  <2> QED
    BY <2>1, <2>2
<1>7. CASE Wrapping!Interrupt
  BY <1>0, <1>7 DEF Wrapping!Interrupt, Wrapping!Idle, Wrapping!IInv, Wrapping!TypeOK, Wrapping!Stored
<1>8. CASE UNCHANGED Wrapping!vars
  BY <1>8 DEF Wrapping!vars, Wrapping!IInv, Wrapping!TypeOK, Wrapping!Stored, Wrapping!openStored
<1> QED
  BY <1>1, <1>2, <1>3, <1>4, <1>5, <1>6, <1>7, <1>8 DEF Wrapping!Next

\* Whatever keys a table holds and however commands under whatever KEKs stop part
\* way, a command about to save a key has opened every row the table holds.
THEOREM WrappingInvariant ==
    ASSUME Wrapping!WellFormed
    PROVE  Wrapping!Spec => []Wrapping!IInv
BY WrapInit, WrapNext, PTL DEF Wrapping!Spec

\* A step that adds a row is the save of a rotation, under a KEK that opens all.
LEMMA WrapServes ==
    ASSUME Wrapping!WellFormed, Wrapping!IInv, [Wrapping!Next]_(Wrapping!vars)
    PROVE  Wrapping!ServiceStep \/ UNCHANGED Wrapping!vars
<1>0. /\ Wrapping!TypeOK /\ cmd.todo \subseteq Wrapping!Stored /\ \A r \in Replicas : loaded[r] \subseteq Wrapping!Stored
      /\ cmd.pc = "save" => Wrapping!openStored(cmd.kek)
  BY DEF Wrapping!IInv
<1>1. ASSUME UNCHANGED rows PROVE Wrapping!RotationStep
  BY <1>1 DEF Wrapping!RotationStep
<1>2. ASSUME UNCHANGED loaded PROVE Wrapping!ReloadStep
  BY <1>2 DEF Wrapping!ReloadStep
<1>3. ASSUME NEW r \in Replicas, Wrapping!Reload(r) PROVE Wrapping!ServiceStep
  <2>1. loaded[r] \subseteq Wrapping!Reloaded(r)
    BY <1>0 DEF Wrapping!Reloaded
  <2>2. loaded' = [loaded EXCEPT ![r] = Wrapping!Reloaded(r)] /\ UNCHANGED rows
    BY <1>3 DEF Wrapping!Reload
  <2> QED
    BY <1>0, <1>1, <2>1, <2>2 DEF Wrapping!ServiceStep, Wrapping!ReloadStep, Wrapping!TypeOK
<1>4. ASSUME NEW r \in Replicas, NEW k \in Keks \cup {NoKek}, Wrapping!Start(r, k) PROVE Wrapping!ServiceStep
  <2>1. starts' # starts
    BY SMTT(30), <1>4 DEF Wrapping!Start
  <2> QED
    BY <1>1, <1>4, <2>1 DEF Wrapping!Start, Wrapping!ServiceStep, Wrapping!ReloadStep
<1>5. CASE Wrapping!GenerateSave
  <2>1. PICK k \in Kids \ Wrapping!Stored : rows' = [rows EXCEPT ![k] = Wrapping!sealForStore(cmd.kek)]
    BY <1>5 DEF Wrapping!GenerateSave, Wrapping!Oldest
  <2>2. \A j \in Wrapping!Sealed : rows[j] = cmd.kek
    BY <1>0, <1>5 DEF Wrapping!GenerateSave, Wrapping!openStored, Wrapping!Opens, Wrapping!Sealed, Wrapping!Stored, Wrapping!WellFormed
  <2>3. ASSUME NEW j \in Wrapping!Sealed PROVE Wrapping!sealForStore(cmd.kek) = rows[j]
    BY <1>0, <2>2 DEF Wrapping!sealForStore, Wrapping!Sealed, Wrapping!WellFormed
  <2>4. \A i \in Kids : rows[i] = Wrapping!None /\ rows'[i] # Wrapping!None => i = k
    BY <1>0, <2>1 DEF Wrapping!TypeOK
  <2>5. rows'[k] = Wrapping!sealForStore(cmd.kek)
    BY <1>0, <2>1 DEF Wrapping!TypeOK
  <2> QED
    BY <1>2, <1>5, <2>3, <2>4, <2>5 DEF Wrapping!GenerateSave, Wrapping!ServiceStep, Wrapping!RotationStep
<1>6. CASE Wrapping!EncryptRow
  <2>1. \A i \in Kids : rows[i] = Wrapping!None => rows'[i] = Wrapping!None
    BY <1>0, <1>6 DEF Wrapping!EncryptRow, Wrapping!Oldest, Wrapping!TypeOK, Wrapping!Stored
  <2> QED
    BY <1>2, <1>6, <2>1 DEF Wrapping!EncryptRow, Wrapping!ServiceStep, Wrapping!RotationStep
<1> QED
  BY <1>1, <1>2, <1>3, <1>4, <1>5, <1>6 DEF Wrapping!Next, Wrapping!GenerateLoad, Wrapping!EncryptLoad, Wrapping!Interrupt, Wrapping!ServiceStep

\* Generate, EncryptStored and Reload: in a table of any size, a rotation beside
\* sealed keys seals under the KEK that opens them all, and no reload takes a key
\* out of service, whatever commands under whatever KEKs have done meanwhile.
THEOREM RotationsAndReloadsKeep ==
    ASSUME Wrapping!WellFormed
    PROVE  Wrapping!Spec => Wrapping!KeysStayInService
<1>1. Wrapping!IInv /\ [Wrapping!Next]_(Wrapping!vars) => [Wrapping!ServiceStep]_(Wrapping!vars)
  BY WrapServes
<1> QED
  BY <1>1, WrappingInvariant, PTL DEF Wrapping!Spec, Wrapping!KeysStayInService

-----------------------------------------------------------------------------
(* VerifierKeys.                                                           *)

CONSTANT Calls

VARIABLES published, left, parsed, call

Verifier == INSTANCE VerifierKeys

\* The empty memo and no calls satisfy the invariant.
LEMMA MemoInit == Verifier!Init => Verifier!IInv
  BY SMTT(30) DEF Verifier!Init, Verifier!IInv, Verifier!TypeOK, Verifier!Call, Verifier!Memo, Verifier!Nothing, Verifier!Idle, Verifier!CallSound

\* A call that goes on soundly, over tables that stay sound, keeps the invariant.
LEMMA CallStep ==
    ASSUME Verifier!IInv, NEW c \in Calls, NEW r, call' = [call EXCEPT ![c] = r],
           r \in Verifier!Call, Verifier!CallSound(r), parsed' \in Verifier!Memo, parsed'.built => parsed'.set = parsed'.kids,
           UNCHANGED <<published, left>>
    PROVE  Verifier!IInv'
<1>1. Verifier!TypeOK'
  BY DEF Verifier!IInv, Verifier!TypeOK
<1>2. \A d \in Calls : Verifier!CallSound(call'[d])
  BY DEF Verifier!IInv, Verifier!TypeOK
<1>3. (\A d \in Calls : Verifier!CallSound(call[d]))'
  BY <1>2
<1>4. QED
  BY <1>1, <1>3 DEF Verifier!IInv

\* Every step keeps the invariant.
LEMMA MemoKept == Verifier!IInv /\ [Verifier!Next]_(Verifier!vars) => Verifier!IInv'
<1> SUFFICES ASSUME Verifier!IInv, [Verifier!Next]_(Verifier!vars) PROVE Verifier!IInv'
  OBVIOUS
<1>0. Verifier!TypeOK /\ parsed \in Verifier!Memo /\ (parsed.built => parsed.set = parsed.kids)
  BY DEF Verifier!IInv, Verifier!TypeOK
<1>1. CASE Verifier!Join
  BY <1>1 DEF Verifier!IInv, Verifier!TypeOK, Verifier!Join, Verifier!CallSound
<1>2. CASE Verifier!Leave
  BY <1>2 DEF Verifier!IInv, Verifier!TypeOK, Verifier!Leave, Verifier!CallSound
<1>3. ASSUME NEW c \in Calls, Verifier!Verify(c) PROVE Verifier!IInv'
  <2>1. PICK k \in Kids :
          call' = [call EXCEPT ![c] = [Verifier!Idle EXCEPT !.pc = "load", !.kid = k, !.kps = published,
                                                   !.stale = left]]
    BY <1>3 DEF Verifier!Verify, Verifier!Goes
  <2>2. Verifier!CallSound([Verifier!Idle EXCEPT !.pc = "load", !.kid = k, !.kps = published, !.stale = left])
    BY DEF Verifier!IInv, Verifier!CallSound, Verifier!Idle
  <2>3. QED
    BY <1>0, <1>3, <2>1, <2>2, CallStep DEF Verifier!Verify, Verifier!Idle, Verifier!Nothing, Verifier!Memo, Verifier!TypeOK, Verifier!Call
<1>4. ASSUME NEW c \in Calls, Verifier!LoadParsed(c) PROVE Verifier!IInv'
  <2>0. call[c] \in Verifier!Call /\ Verifier!CallSound(call[c])
    BY DEF Verifier!IInv, Verifier!TypeOK
  <2>1. CASE parsed.built /\ Verifier!sameKids(parsed.kids, call[c].kps)
    <3> DEFINE r == [call[c] EXCEPT !.pc = "parse", !.set = parsed.set]
    <3>1. call' = [call EXCEPT ![c] = r]
      BY <1>4, <2>1 DEF Verifier!LoadParsed, Verifier!Goes
    <3>2. Verifier!CallSound(r)
      BY SMTT(30), <1>0, <2>0, <2>1 DEF Verifier!CallSound, Verifier!sameKids
    <3>3. QED
      BY <1>0, <1>4, <2>0, <3>1, <3>2, CallStep DEF Verifier!LoadParsed, Verifier!Memo, Verifier!Call
  <2>2. CASE ~(parsed.built /\ Verifier!sameKids(parsed.kids, call[c].kps))
    <3> DEFINE r == [call[c] EXCEPT !.pc = "store", !.prev = parsed]
    <3>1. call' = [call EXCEPT ![c] = r]
      BY <1>4, <2>2 DEF Verifier!LoadParsed, Verifier!Goes
    <3>2. Verifier!CallSound(r)
      BY SMTT(30), <2>0 DEF Verifier!CallSound
    <3>3. QED
      BY <1>0, <1>4, <2>0, <3>1, <3>2, CallStep DEF Verifier!LoadParsed, Verifier!Memo, Verifier!Call
  <2>3. QED
    BY <2>1, <2>2
<1>5. ASSUME NEW c \in Calls, Verifier!StoreParsed(c) PROVE Verifier!IInv'
  <2>0. call[c] \in Verifier!Call /\ Verifier!CallSound(call[c])
    BY DEF Verifier!IInv, Verifier!TypeOK
  <2> DEFINE r == [call[c] EXCEPT !.pc = "parse", !.set = call[c].kps, !.prev = Verifier!Nothing]
  <2>1. call' = [call EXCEPT ![c] = r] /\ UNCHANGED <<published, left>>
        /\ parsed' = [kids |-> call[c].kps, set |-> call[c].kps, built |-> TRUE]
    BY <1>5 DEF Verifier!StoreParsed, Verifier!Goes, Verifier!Build
  <2>2. Verifier!CallSound(r)
    BY SMTT(30), <2>0 DEF Verifier!CallSound
  <2>3. QED
    BY <2>0, <2>1, <2>2, CallStep DEF Verifier!Memo, Verifier!Nothing, Verifier!Call
<1>6. ASSUME NEW c \in Calls, Verifier!Answer(c) PROVE Verifier!IInv'
  <2>0. call[c] \in Verifier!Call /\ Verifier!CallSound(call[c])
    BY DEF Verifier!IInv, Verifier!TypeOK
  <2>1. UNCHANGED <<published, left>> /\ parsed' \in Verifier!Memo
        /\ (parsed'.built => parsed'.set = parsed'.kids)
    BY <1>0, <1>6 DEF Verifier!Answer
  <2>2. CASE call[c].kid \in call[c].set /\ Verifier!Goes(c, [call[c] EXCEPT !.pc = "accepted"])
    <3>1. Verifier!CallSound([call[c] EXCEPT !.pc = "accepted"])
      BY <1>6, <2>0, <2>2 DEF Verifier!CallSound, Verifier!Answer, Verifier!Call
    <3>2. QED
      BY <2>0, <2>1, <2>2, <3>1, CallStep DEF Verifier!Goes, Verifier!Call
  <2>3. CASE Verifier!Goes(c, Verifier!Idle)
    <3>1. Verifier!CallSound(Verifier!Idle)
      BY DEF Verifier!CallSound, Verifier!Idle
    <3>2. QED
      BY <2>1, <2>3, <3>1, CallStep DEF Verifier!Goes, Verifier!Idle, Verifier!Nothing, Verifier!Memo, Verifier!Call
  <2>4. CASE call[c].kid \notin call[c].set /\ Verifier!Goes(c, [call[c] EXCEPT !.pc = "unknown"])
    <3>1. Verifier!CallSound([call[c] EXCEPT !.pc = "unknown"])
      BY <1>6, <2>0, <2>4 DEF Verifier!CallSound, Verifier!Answer, Verifier!Call
    <3>2. QED
      BY <2>0, <2>1, <2>4, <3>1, CallStep DEF Verifier!Goes, Verifier!Call
  <2>5. QED
    BY <1>6, <2>2, <2>3, <2>4 DEF Verifier!Answer
<1>7. ASSUME NEW c \in Calls, Verifier!Return(c) PROVE Verifier!IInv'
  <2>1. Verifier!CallSound(Verifier!Idle)
    BY DEF Verifier!CallSound, Verifier!Idle
  <2>2. QED
    BY <1>0, <1>7, <2>1, CallStep DEF Verifier!Return, Verifier!Goes, Verifier!Idle, Verifier!Nothing, Verifier!Memo, Verifier!Call
<1>8. CASE UNCHANGED Verifier!vars
  BY <1>8 DEF Verifier!vars, Verifier!IInv, Verifier!TypeOK, Verifier!CallSound
<1>9. QED
  BY <1>1, <1>2, <1>3, <1>4, <1>5, <1>6, <1>7, <1>8 DEF Verifier!Next

\* The memo is sound in every reachable state (keySet).
THEOREM MemoSound == Verifier!Spec => []Verifier!IInv
  BY MemoInit, MemoKept, PTL DEF Verifier!Spec

\* A key whose grace had elapsed when Verify was called verifies nothing, and one
\* that was published then is found (AnswersByPublished for every instance).
THEOREM KeysAnswerByPublished == Verifier!Spec => []Verifier!AnswersByPublished
<1>1. Verifier!IInv => Verifier!AnswersByPublished
  BY DEF Verifier!IInv, Verifier!CallSound, Verifier!AnswersByPublished, Verifier!LeftKidRefused,
         Verifier!PublishedKidFound
<1> QED
  BY <1>1, MemoSound, PTL
=============================================================================
