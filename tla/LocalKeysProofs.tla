-------------------------- MODULE LocalKeysProofs --------------------------
(***************************************************************************)
(* Keys and cursors: a key determines its family and its name, a scan      *)
(* finds exactly the keys with the prefix, and keyToFamilyName panics only *)
(* when a family with a separator is in use; for any families, names,      *)
(* counters and periods.                                                   *)
(***************************************************************************)
EXTENDS LocalKeys, FiniteSetTheorems, SequenceTheorems, WellFoundedInduction, TLAPS

USE MaxNamesAssumption, AutoReleaseAssumption, NoneAssumption

-----------------------------------------------------------------------------
(* Least elements. *)

LEMMA LeastNatural ==
  ASSUME NEW T \in SUBSET Nat, T # {}
  PROVE  \E x \in T : \A y \in T : x <= y
<1> DEFINE R == {ss \in Nat \X Nat : ss[1] < ss[2]}
<1>1. IsWellFoundedOn(R, Nat)
  BY NatLessThanWellFounded DEF OpToRel
<1>2. PICK x \in T : \A y \in T : ~ (<<y, x>> \in R)
  <2> HIDE DEF R
  <2> QED BY <1>1, WFMin
<1>3. ASSUME NEW y \in T PROVE x <= y
  <2>1. x \in Nat /\ y \in Nat /\ ~(<<y, x>> \in R)
    BY <1>2
  <2>2. ~(y < x)
    BY <2>1
  <2> QED BY <2>1, <2>2
<1> QED BY <1>3

-----------------------------------------------------------------------------
(* Strings. *)

IsPrefix(p, f) ==
  /\ p \in String
  /\ Len(f) \in Nat
  /\ Len(p) = Len(f) + 1
  /\ \A i \in 1 .. Len(f) : p[i] = f[i]
  /\ p[Len(f) + 1] = Sep

LEMMA PrefixAt ==
  ASSUME NEW f \in String
  PROVE  IsPrefix(Prefix(f), f)
<1>1. <<Sep>> \in Seq(Byte) /\ Len(<<Sep>>) = 1 /\ <<Sep>>[1] = Sep
  BY DEF Byte, Sep
<1>2. f \in Seq(Byte) /\ Len(f) \in Nat
  BY LenProperties DEF String
<1> QED BY <1>1, <1>2, ConcatProperties DEF Prefix, String, IsPrefix

IsKey(k, f, n) ==
  /\ k \in String
  /\ Len(f) \in Nat
  /\ Len(n) \in Nat
  /\ Len(k) = Len(f) + 1 + Len(n)
  /\ \A i \in 1 .. Len(f) : k[i] = f[i]
  /\ k[Len(f) + 1] = Sep
  /\ \A i \in 1 .. Len(n) : k[Len(f) + 1 + i] = n[i]

LEMMA KeyAt ==
  ASSUME NEW f \in String, NEW n \in String
  PROVE  IsKey(familyNameToKey(f, n), f, n)
<1> DEFINE p == Prefix(f)
<1>1. n \in Seq(Byte) /\ Len(n) \in Nat /\ p \in Seq(Byte)
  BY LenProperties, PrefixAt DEF String, IsPrefix
<1>2. familyNameToKey(f, n) = p \o n
  BY DEF familyNameToKey, Prefix
<1>3. Len(f) \in Nat /\ Len(p) = Len(f) + 1
  BY PrefixAt DEF IsPrefix
<1>4. (\A i \in 1 .. Len(f) : p[i] = f[i]) /\ p[Len(f) + 1] = Sep
  BY PrefixAt DEF IsPrefix
<1> HIDE DEF p
<1>5. /\ p \o n \in Seq(Byte)
      /\ Len(p \o n) = Len(p) + Len(n)
      /\ \A i \in 1 .. Len(p) + Len(n) :
           (p \o n)[i] = IF i <= Len(p) THEN p[i] ELSE n[i - Len(p)]
  BY <1>1, ConcatProperties
<1>6. ASSUME NEW i \in 1 .. Len(n) PROVE (p \o n)[Len(f) + 1 + i] = n[i]
  <2>1. /\ Len(f) + 1 + i \in 1 .. Len(p) + Len(n)
        /\ ~(Len(f) + 1 + i <= Len(p))
        /\ Len(f) + 1 + i - Len(p) = i
    BY <1>1, <1>3
  <2> QED BY <2>1, <1>5
<1>7. ASSUME NEW i \in 1 .. Len(f) + 1 PROVE (p \o n)[i] = p[i]
  <2>1. i \in 1 .. Len(p) + Len(n) /\ i <= Len(p)
    BY <1>1, <1>3
  <2> QED BY <2>1, <1>5
<1>8. \A i \in 1 .. Len(f) : (p \o n)[i] = f[i]
  BY <1>3, <1>4, <1>7
<1>9. (p \o n)[Len(f) + 1] = Sep
  BY <1>3, <1>4, <1>7
<1> QED BY <1>1, <1>2, <1>3, <1>5, <1>6, <1>8, <1>9 DEF IsKey, String

\* Strings without a separator.
Plain == {s \in String : Seps(s) = {}}

LEMMA PlainAt ==
  ASSUME NEW s \in Plain, NEW i \in 1 .. Len(s)
  PROVE  s[i] # Sep
BY LenProperties DEF Plain, Seps, String

LEMMA HasPrefixOfKey ==
  ASSUME NEW f \in String, NEW n \in String
  PROVE  HasPrefix(familyNameToKey(f, n), Prefix(f))
<1> DEFINE k == familyNameToKey(f, n)
           p == Prefix(f)
<1>1. IsKey(k, f, n) /\ IsPrefix(p, f)
  BY KeyAt, PrefixAt
<1> HIDE DEF k, p
<1>2. ASSUME NEW i \in 1 .. Len(p) PROVE k[i] = p[i]
  BY <1>1 DEF IsKey, IsPrefix
<1>3. Len(p) <= Len(k)
  BY <1>1 DEF IsKey, IsPrefix
<1>4. HasPrefix(k, p)
  BY <1>2, <1>3 DEF HasPrefix
<1> QED BY <1>4 DEF k, p

\* A prefix scan of family f meets no key of another family, unless that has a
\* separator.
LEMMA PrefixFamily ==
  ASSUME NEW f \in String, NEW g \in Plain, NEW n \in Plain,
         HasPrefix(familyNameToKey(g, n), Prefix(f))
  PROVE  f = g
<1> DEFINE k == familyNameToKey(g, n)
           p == Prefix(f)
<1>0. g \in String /\ n \in String
  BY DEF Plain
<1>1. IsKey(k, g, n) /\ IsPrefix(p, f) /\ HasPrefix(k, p)
  BY <1>0, KeyAt, PrefixAt
<1> HIDE DEF k, p
<1>2. /\ Len(f) \in Nat /\ Len(g) \in Nat /\ Len(n) \in Nat
      /\ Len(k) = Len(g) + 1 + Len(n)
      /\ Len(f) + 1 <= Len(k)
      /\ \A i \in 1 .. Len(f) : k[i] = f[i]
      /\ k[Len(f) + 1] = Sep
  <2>1. /\ Len(f) \in Nat /\ Len(g) \in Nat /\ Len(n) \in Nat
        /\ Len(k) = Len(g) + 1 + Len(n)
        /\ Len(p) = Len(f) + 1 /\ Len(p) <= Len(k)
    BY <1>1 DEF HasPrefix, IsKey, IsPrefix
  <2>2. \A i \in 1 .. Len(f) + 1 : k[i] = p[i]
    BY <1>1, <2>1 DEF HasPrefix
  <2>3. k[Len(f) + 1] = Sep
    BY <1>1, <2>1, <2>2 DEF IsPrefix
  <2>4. ASSUME NEW i \in 1 .. Len(f) PROVE k[i] = f[i]
    <3>1. i \in 1 .. Len(f) + 1
      BY <2>1
    <3> QED BY <1>1, <2>2, <3>1 DEF IsPrefix
  <2> QED BY <2>1, <2>3, <2>4
<1>3. ~(Len(f) < Len(g))
  <2> SUFFICES ASSUME Len(f) < Len(g) PROVE FALSE
    OBVIOUS
  <2>1. Len(f) + 1 \in 1 .. Len(g)
    BY <1>2
  <2>2. k[Len(f) + 1] = g[Len(f) + 1]
    BY <1>1, <2>1 DEF IsKey
  <2> QED BY <1>2, <2>1, <2>2, PlainAt
<1>4. ~(Len(f) > Len(g))
  <2> SUFFICES ASSUME Len(f) > Len(g) PROVE FALSE
    OBVIOUS
  <2>1. PICK i \in 1 .. Len(n) : Len(g) + 1 + i = Len(f) + 1
    <3>1. Len(f) - Len(g) \in 1 .. Len(n) /\ Len(g) + 1 + (Len(f) - Len(g)) = Len(f) + 1
      BY <1>2
    <3> QED BY <3>1
  <2>2. k[Len(g) + 1 + i] = n[i]
    BY <1>1, <2>1 DEF IsKey
  <2> QED BY <1>2, <2>1, <2>2, PlainAt
<1>5. Len(f) = Len(g)
  BY <1>2, <1>3, <1>4
<1>6. \A i \in 1 .. Len(f) : f[i] = g[i]
  BY <1>1, <1>2, <1>5 DEF IsKey
<1> QED BY <1>0, <1>5, <1>6, SeqEqual DEF String

LEMMA SameKeyLength ==
  ASSUME NEW k, NEW f, NEW g, NEW m \in Plain, NEW n \in Plain,
         IsKey(k, f, m), IsKey(k, g, n)
  PROVE  ~(Len(f) < Len(g))
<1> SUFFICES ASSUME Len(f) < Len(g) PROVE FALSE
  OBVIOUS
<1>1. PICK i \in 1 .. Len(m) : Len(f) + 1 + i = Len(g) + 1
  <2>1. Len(g) - Len(f) \in 1 .. Len(m) /\ Len(f) + 1 + (Len(g) - Len(f)) = Len(g) + 1
    BY DEF IsKey
  <2> QED BY <2>1
<1>2. k[Len(f) + 1 + i] = m[i] /\ k[Len(g) + 1] = Sep
  BY <1>1 DEF IsKey
<1> QED BY <1>1, <1>2, PlainAt

\* Two names have the same key only when they are the same name of the same family:
\* it is enough that names have no separator, families may.
THEOREM KeyInjective ==
  ASSUME NEW f \in String, NEW g \in String, NEW m \in Plain, NEW n \in Plain,
         familyNameToKey(f, m) = familyNameToKey(g, n)
  PROVE  f = g /\ m = n
<1> DEFINE k == familyNameToKey(f, m)
<1>0. m \in String /\ n \in String
  BY DEF Plain
<1>1. IsKey(k, f, m) /\ IsKey(k, g, n)
  BY <1>0, KeyAt
<1> HIDE DEF k
<1>2. Len(f) = Len(g) /\ Len(m) = Len(n)
  <2>1. ~(Len(f) < Len(g)) /\ ~(Len(g) < Len(f))
    BY <1>1, SameKeyLength
  <2> QED BY <1>1, <2>1 DEF IsKey
<1>3. \A i \in 1 .. Len(f) : f[i] = g[i]
  BY <1>1, <1>2 DEF IsKey
<1>4. ASSUME NEW i \in 1 .. Len(m) PROVE m[i] = n[i]
  <2>1. k[Len(f) + 1 + i] = m[i] /\ k[Len(g) + 1 + i] = n[i]
    BY <1>1, <1>2 DEF IsKey
  <2> QED BY <1>2, <2>1
<1> QED BY <1>0, <1>2, <1>3, <1>4, SeqEqual DEF String

\* What follows the prefix is the name.
LEMMA KeyRest ==
  ASSUME NEW f \in String, NEW n \in String
  PROVE  SubSeq(familyNameToKey(f, n), Len(f) + 1 + 1, Len(familyNameToKey(f, n))) = n
<1> DEFINE k == familyNameToKey(f, n)
<1>1. IsKey(k, f, n)
  BY KeyAt
<1> HIDE DEF k
<1>2. /\ SubSeq(k, Len(f) + 1 + 1, Len(k)) \in Seq(Byte)
      /\ Len(SubSeq(k, Len(f) + 1 + 1, Len(k))) = Len(n)
      /\ \A i \in 1 .. Len(n) :
           SubSeq(k, Len(f) + 1 + 1, Len(k))[i] = k[Len(f) + 1 + 1 + i - 1]
  <2>1. \A i \in Len(f) + 1 + 1 .. Len(k) : k[i] \in Byte
    BY <1>1, ElementOfSeq DEF String, IsKey
  <2>2. Len(f) + 1 + 1 \in Int /\ Len(k) \in Int
    BY <1>1 DEF IsKey
  <2>3. /\ Len(k) - (Len(f) + 1 + 1) + 1 = Len(n)
        /\ (IF Len(f) + 1 + 1 <= Len(k) THEN Len(n) ELSE 0) = Len(n)
    BY <1>1 DEF IsKey
  <2> QED BY <2>1, <2>2, <2>3, SubSeqProperties
<1>3. ASSUME NEW i \in 1 .. Len(n) PROVE k[Len(f) + 1 + 1 + i - 1] = n[i]
  <2>1. Len(f) + 1 + 1 + i - 1 = Len(f) + 1 + i
    BY <1>1 DEF IsKey
  <2> QED BY <1>1, <2>1 DEF IsKey
<1>4. SubSeq(k, Len(f) + 1 + 1, Len(k)) = n
  BY <1>2, <1>3, SeqEqual DEF String
<1> QED BY <1>4 DEF k

\* keyToFamilyName takes the keys of such families apart as they were put together.
LEMMA ParseKey ==
  ASSUME NEW f \in Plain, NEW n \in Plain
  PROVE  /\ Parses(familyNameToKey(f, n))
         /\ nameOf(familyNameToKey(f, n)) = n
<1> DEFINE k == familyNameToKey(f, n)
<1>0. f \in String /\ n \in String
  BY DEF Plain
<1>1. IsKey(k, f, n)
  BY <1>0, KeyAt
<1> HIDE DEF k
<1>2. DOMAIN k = 1 .. Len(k)
  BY <1>1, LenProperties DEF IsKey, String
<1>3. Seps(k) = {Len(f) + 1}
  <2>1. k[Len(f) + 1] = Sep /\ Len(f) + 1 \in DOMAIN k
    BY <1>1, <1>2 DEF IsKey
  <2>2. ASSUME NEW i \in 1 .. Len(k), k[i] = Sep PROVE i = Len(f) + 1
    <3>1. CASE i <= Len(f)
      <4>1. i \in 1 .. Len(f) /\ f[i] = Sep
        BY <1>1, <2>2, <3>1 DEF IsKey
      <4> QED BY <4>1, PlainAt
    <3>2. CASE i > Len(f) + 1
      <4>1. PICK j \in 1 .. Len(n) : Len(f) + 1 + j = i
        <5>1. i - (Len(f) + 1) \in 1 .. Len(n) /\ Len(f) + 1 + (i - (Len(f) + 1)) = i
          BY <1>1, <3>2 DEF IsKey
        <5> QED BY <5>1
      <4>2. k[Len(f) + 1 + j] = n[j]
        BY <1>1, <4>1 DEF IsKey
      <4> QED BY <2>2, <4>1, <4>2, PlainAt
    <3> QED BY <1>1, <3>1, <3>2, SMTT(20) DEF IsKey
  <2> QED BY <1>2, <2>1, <2>2 DEF Seps
<1>4. Parses(k)
  BY <1>3 DEF Parses
<1>5. nameOf(k) = SubSeq(k, Len(f) + 1 + 1, Len(k))
  BY <1>3 DEF nameOf
<1>6. SubSeq(k, Len(f) + 1 + 1, Len(k)) = n
  BY <1>0, KeyRest DEF k
<1>7. Parses(k) /\ nameOf(k) = n
  BY <1>4, <1>5, <1>6
<1> QED BY <1>7 DEF k

LEMMA KeyCancel ==
  ASSUME NEW f \in String, NEW m \in String, NEW n \in String,
         familyNameToKey(f, m) = familyNameToKey(f, n)
  PROVE  m = n
<1> DEFINE k == familyNameToKey(f, m)
<1>1. IsKey(k, f, m) /\ IsKey(k, f, n)
  BY KeyAt
<1> HIDE DEF k
<1>2. Len(m) = Len(n) /\ \A i \in 1 .. Len(m) : m[i] = n[i]
  BY <1>1 DEF IsKey
<1> QED BY <1>2, SeqEqual DEF String

-----------------------------------------------------------------------------
(* The order of the keys. *)

LEMMA StringAt ==
  ASSUME NEW a \in String
  PROVE  /\ Len(a) \in Nat
         /\ DOMAIN a = 1 .. Len(a)
         /\ \A i \in 1 .. Len(a) : a[i] \in Byte /\ a[i] \in Int
<1>1. Len(a) \in Nat /\ DOMAIN a = 1 .. Len(a)
  BY LenProperties DEF String
<1>2. \A i \in 1 .. Len(a) : a[i] \in Byte
  BY ElementOfSeq DEF String
<1>3. Byte \subseteq Int
  BY DEF Byte
<1> QED BY <1>1, <1>2, <1>3

LEMMA FirstDifference ==
  ASSUME NEW a \in String, NEW b \in String, ~HasPrefix(a, b)
  PROVE  \/ HasPrefix(b, a) /\ Len(a) < Len(b)
         \/ \E i \in DOMAIN a \cap DOMAIN b :
              a[i] # b[i] /\ \A j \in 1 .. i - 1 : a[j] = b[j]
<1> DEFINE T == {i \in DOMAIN a \cap DOMAIN b : a[i] # b[i]}
<1>1. T \in SUBSET Nat
  BY StringAt
<1>2. CASE T = {}
  <2>1. \A i \in DOMAIN a \cap DOMAIN b : a[i] = b[i]
    BY <1>2
  <2>2. Len(a) < Len(b)
    BY <2>1, StringAt DEF HasPrefix
  <2> QED BY <2>1, <2>2, StringAt DEF HasPrefix
<1>3. CASE T # {}
  <2>1. PICK i \in T : \A j \in T : i <= j
    <3> HIDE DEF T
    <3> QED BY <1>1, <1>3, LeastNatural
  <2>2. ASSUME NEW j \in 1 .. i - 1 PROVE a[j] = b[j]
    <3>1. j \in DOMAIN a \cap DOMAIN b
      BY StringAt
    <3>2. j \notin T
      BY <2>1, <1>1
    <3> QED BY <3>1, <3>2
  <2> QED BY <2>1, <2>2
<1> QED BY <1>2, <1>3

LEMMA BeforeIrreflexive == ASSUME NEW a \in String PROVE ~Before(a, a)
BY StringAt DEF Before

LEMMA BeforeTransitive ==
  ASSUME NEW a \in String, NEW b \in String, NEW c \in String, Before(a, b), Before(b, c)
  PROVE  Before(a, c)
<1> DEFINE Differ(x, y, i) == /\ i \in DOMAIN x \cap DOMAIN y
                              /\ x[i] < y[i]
                              /\ \A j \in 1 .. i - 1 : x[j] = y[j]
           Shorter(x, y) == HasPrefix(y, x) /\ Len(x) < Len(y)
<1>0. /\ Shorter(a, b) \/ \E i : Differ(a, b, i)
      /\ Shorter(b, c) \/ \E i : Differ(b, c, i)
  BY DEF Before
<1>s. /\ Len(a) \in Nat /\ Len(b) \in Nat /\ Len(c) \in Nat
      /\ DOMAIN a = 1 .. Len(a) /\ DOMAIN b = 1 .. Len(b) /\ DOMAIN c = 1 .. Len(c)
  BY StringAt
<1>1. CASE Shorter(a, b) /\ Shorter(b, c)
  <2>1. Shorter(a, c)
    BY <1>s, <1>1 DEF HasPrefix
  <2> QED BY <2>1 DEF Before
<1>2. ASSUME Shorter(a, b), NEW i, Differ(b, c, i) PROVE Before(a, c)
  <2>1. CASE i <= Len(a)
    <3>1. Differ(a, c, i)
      BY <1>s, <1>2, <2>1 DEF HasPrefix
    <3> QED BY <3>1 DEF Before
  <2>2. CASE i > Len(a)
    <3>1. Shorter(a, c)
      BY <1>s, <1>2, <2>2 DEF HasPrefix
    <3> QED BY <3>1 DEF Before
  <2> QED BY <1>s, <1>2, <2>1, <2>2
<1>3. ASSUME NEW i, Differ(a, b, i), Shorter(b, c) PROVE Before(a, c)
  <2>1. Differ(a, c, i)
    BY <1>s, <1>3 DEF HasPrefix
  <2> QED BY <2>1 DEF Before
<1>4. ASSUME NEW i, Differ(a, b, i), NEW j, Differ(b, c, j) PROVE Before(a, c)
  <2>0. i \in Nat /\ j \in Nat
    BY <1>s, <1>4
  <2>1. CASE i < j
    <3>1. Differ(a, c, i)
      BY <1>s, <1>4, <2>0, <2>1
    <3> QED BY <3>1 DEF Before
  <2>2. CASE j < i
    <3>1. Differ(a, c, j)
      BY <1>s, <1>4, <2>0, <2>2
    <3> QED BY <3>1 DEF Before
  <2>3. CASE i = j
    <3>1. a[i] \in Int /\ b[i] \in Int /\ c[i] \in Int
      BY <1>s, <1>4, <2>3, StringAt
    <3>2. Differ(a, c, i)
      BY <1>s, <1>4, <2>0, <2>3, <3>1
    <3> QED BY <3>2 DEF Before
  <2> QED BY <2>0, <2>1, <2>2, <2>3
<1> QED BY <1>0, <1>1, <1>2, <1>3, <1>4

\* What has the prefix p is not before p, and what has not is before p or after
\* everything that has.
LEMMA PrefixedTogether ==
  ASSUME NEW k \in String, NEW p \in String, HasPrefix(k, p)
  PROVE  /\ ~Before(k, p)
         /\ \A l \in String : HasPrefix(l, p) \/ Before(l, p) \/ Before(k, l)
<1>1. ~Before(k, p)
  BY StringAt DEF Before, HasPrefix
<1>2. ASSUME NEW l \in String, ~HasPrefix(l, p) PROVE Before(l, p) \/ Before(k, l)
  <2>1. CASE HasPrefix(p, l) /\ Len(l) < Len(p)
    BY <2>1 DEF Before
  <2>2. CASE \E i \in DOMAIN l \cap DOMAIN p :
               l[i] # p[i] /\ \A j \in 1 .. i - 1 : l[j] = p[j]
    <3>1. PICK i \in DOMAIN l \cap DOMAIN p :
            l[i] # p[i] /\ \A j \in 1 .. i - 1 : l[j] = p[j]
      BY <2>2
    <3>2. l[i] \in Int /\ p[i] \in Int
      BY StringAt
    <3>3. CASE l[i] < p[i]
      BY <3>1, <3>3 DEF Before
    <3>4. CASE p[i] < l[i]
      <4>1. i \in 1 .. Len(p) /\ Len(p) \in Nat /\ Len(k) \in Nat /\ Len(p) <= Len(k)
        BY StringAt DEF HasPrefix
      <4>2. i \in DOMAIN k \cap DOMAIN l /\ k[i] = p[i]
        BY <4>1, StringAt DEF HasPrefix
      <4>3. \A j \in 1 .. i - 1 : k[j] = l[j]
        BY <3>1, <4>1 DEF HasPrefix
      <4> QED BY <3>4, <4>2, <4>3 DEF Before
    <3> QED BY <3>1, <3>2, <3>3, <3>4
  <2> QED BY <1>2, <2>1, <2>2, FirstDifference
<1> QED BY <1>1, <1>2

\* The loop of releaseZombies, from Seek to the first key without the prefix, visits
\* all the keys with the prefix and no other, in whatever bucket.
THEOREM ScanExact ==
  ASSUME NEW bucket \in SUBSET String, NEW p \in String
  PROVE  Scan(bucket, p) = {k \in bucket : HasPrefix(k, p)}
<1>1. ASSUME NEW k \in bucket, HasPrefix(k, p) PROVE k \in Scan(bucket, p)
  BY <1>1, PrefixedTogether DEF Scan
<1>2. ASSUME NEW k \in Scan(bucket, p) PROVE k \in bucket /\ HasPrefix(k, p)
  BY BeforeIrreflexive DEF Scan
<1> QED BY <1>1, <1>2 DEF Scan

LEMMA LeastKey ==
  ASSUME NEW T \in SUBSET String, IsFiniteSet(T), T # {}
  PROVE  \E k \in T : \A l \in T : ~Before(l, k)
<1> DEFINE Below(k) == {l \in T : Before(l, k)}
           B == {Below(k) : k \in T}
           R == StrictSubsetOrdering(T)
<1>1. IsWellFoundedOn(R, SUBSET T)
  BY FS_StrictSubsetOrderingWellFounded, FS_FiniteSubsetsOfFinite
<1>2. B \subseteq SUBSET T /\ B # {}
  BY ZenonT(40)
<1>3. PICK b \in B : \A x \in B : <<x, b>> \notin R
  <2> HIDE DEF B, R
  <2> QED BY <1>1, <1>2, WFMin
<1>4. PICK k \in T : b = Below(k)
  OBVIOUS
<1>5. ASSUME NEW l \in T, Before(l, k) PROVE FALSE
  <2>1. Below(l) \subseteq Below(k)
    BY <1>5, BeforeTransitive
  <2>2. l \in Below(k) /\ l \notin Below(l)
    BY <1>5, BeforeIrreflexive
  <2>3. <<Below(l), Below(k)>> \in R
    <3> HIDE DEF Below
    <3> QED BY <2>1, <2>2, <1>2, <1>4 DEF StrictSubsetOrdering
  <2> QED BY <1>3, <1>4, <2>3
<1> QED BY <1>5

\* getAnyFreeName finds a key with the prefix if the bucket has one.
THEOREM SeekExact ==
  ASSUME NEW bucket \in SUBSET String, IsFiniteSet(bucket), NEW p \in String,
         NEW k \in bucket, HasPrefix(k, p)
  PROVE  Seek(bucket, p) # {}
<1> DEFINE T == {l \in bucket : HasPrefix(l, p)}
<1>1. T \in SUBSET String /\ IsFiniteSet(T) /\ T # {}
  BY FS_Subset
<1>2. PICK m \in T : \A l \in T : ~Before(l, m)
  <2> HIDE DEF T
  <2> QED BY <1>1, LeastKey
<1>3. ASSUME NEW l \in bucket, Before(l, m) PROVE Before(l, p)
  <2>1. ~HasPrefix(l, p)
    BY <1>2, <1>3
  <2>2. ~Before(m, l)
    BY <1>3, BeforeTransitive, BeforeIrreflexive
  <2> QED BY <2>1, <2>2, PrefixedTogether
<1> QED BY <1>2, <1>3 DEF Seek

-----------------------------------------------------------------------------
(* The buckets. *)

LEMMA Numerals ==
  /\ \A n \in Counter : Itoa[n] \in Plain /\ Itoa[n] \in String
  /\ \A m, n \in Counter : Itoa[m] = Itoa[n] => m = n
  /\ \A s \in Given : s \in String
<1>1. ASSUME NEW n \in Counter PROVE Itoa[n] \in Plain /\ Itoa[n] \in String
  <2>1. Itoa[n] \in Seq(Byte \ {Sep})
    BY ItoaAssumption
  <2>2. Itoa[n] \in Seq(Byte)
    BY <2>1, SeqMonotonic
  <2>3. DOMAIN Itoa[n] = 1 .. Len(Itoa[n])
    BY <2>2, LenProperties
  <2>4. \A i \in 1 .. Len(Itoa[n]) : Itoa[n][i] # Sep
    BY <2>1, ElementOfSeq
  <2> QED BY <2>2, <2>3, <2>4 DEF Plain, Seps, String
<1> QED BY <1>1, ItoaAssumption, StringsAssumption DEF Given

\* The key of the n-th name of f.
K(f, n) == familyNameToKey(f, Itoa[n])

LEMMA KeysAreStrings == Keys \subseteq String
<1>1. ASSUME NEW f \in Family, NEW n \in Counter PROVE familyNameToKey(f, Itoa[n]) \in String
  BY KeyAt, Numerals, StringsAssumption DEF IsKey
<1> QED BY <1>1 DEF Keys

LEMMA KInjective ==
  ASSUME NEW f \in Family, NEW g \in Family, NEW m \in Counter, NEW n \in Counter,
         K(f, m) = K(g, n)
  PROVE  f = g /\ m = n
BY KeyInjective, Numerals, StringsAssumption DEF K

\* Every key in the buckets is one the code made for a name it handed out.
Known ==
  /\ IsFiniteSet(DOMAIN data)
  /\ free \subseteq DOMAIN data
  /\ \A k \in DOMAIN data :
       \E g \in Family, n \in Counter : k = K(g, n) /\ n < counter[g]

KeysInv == TypeOK /\ Known /\ PanicsExplained

LEMMA ReleasedKnown ==
  ASSUME NEW f, NEW s
  PROVE  released(f, s) \subseteq DOMAIN data /\ released(f, s) \subseteq {familyNameToKey(f, s)}
BY DEF released, hasData

LEMMA SweptKnown ==
  ASSUME Known, NEW f
  PROVE  swept(f) \subseteq DOMAIN data /\ IsFiniteSet(swept(f))
<1>1. swept(f) \subseteq DOMAIN data
  BY ReleasedKnown DEF swept, Known
<1> QED BY <1>1, FS_Subset DEF Known

LEMMA ZombiesKnown ==
  ASSUME TypeOK, Known, NEW f \in Family
  PROVE  zombies(f) = {k \in DOMAIN data : HasPrefix(k, Prefix(f)) /\
                         AutoReleaseAfter > 0 /\ data[k] > AutoReleaseAfter}
<1>1. DOMAIN data \in SUBSET String /\ Prefix(f) \in String
  BY KeysAreStrings, StringsAssumption, PrefixAt DEF TypeOK, IsPrefix
<1>2. Scan(DOMAIN data, Prefix(f)) = {k \in DOMAIN data : HasPrefix(k, Prefix(f))}
  BY <1>1, ScanExact
<1> QED BY <1>2 DEF zombies

LEMMA SeparatedKnown ==
  ASSUME TypeOK, Known, Separated, NEW k \in DOMAIN data
  PROVE  \E g \in Family \cap Plain, n \in Counter : k = K(g, n)
BY StringsAssumption DEF TypeOK, Known, Separated, Plain, Counter

LEMMA SeparatedParses ==
  ASSUME TypeOK, Known, Separated, NEW k \in DOMAIN data
  PROVE  Parses(k)
BY SeparatedKnown, ParseKey, Numerals DEF K

\* setData on a key that is known, or that the counter has just given.
LEMMA SetDataStep ==
  ASSUME KeysInv, NEW f \in Family, NEW s, NEW m \in Counter,
         familyNameToKey(f, s) \in DOMAIN data \/ (s = Itoa[m] /\ m < counter'[f]),
         setData(f, s), free' \subseteq DOMAIN data, panicked' = panicked, freeBucket' \in BOOLEAN,
         counter' \in [Family -> 0 .. MaxNames],
         \A g \in Family : counter[g] <= counter'[g]
  PROVE  KeysInv'
<1> DEFINE k == familyNameToKey(f, s)
<1>1. /\ DOMAIN data' = DOMAIN data \cup {k}
      /\ \A l \in DOMAIN data' : data'[l] = IF l = k THEN 0 ELSE data[l]
      /\ data' = [l \in DOMAIN data' |-> data'[l]]
  BY DEF setData
<1>2. k \in Keys
  BY DEF KeysInv, TypeOK, Keys
<1>3. /\ DOMAIN data \subseteq Keys
      /\ \A l \in DOMAIN data : data[l] \in Age
      /\ 0 \in Age
  BY DEF KeysInv, TypeOK, Age
<1>4. ASSUME NEW l \in DOMAIN data'
      PROVE  \E g \in Family, n \in Counter : l = K(g, n) /\ n < counter'[g]
  <2>1. CASE l \in DOMAIN data
    <3>1. PICK g \in Family, n \in Counter : l = K(g, n) /\ n < counter[g]
      BY <2>1 DEF KeysInv, Known
    <3>2. n < counter'[g]
      BY <3>1 DEF KeysInv, TypeOK, Counter
    <3> QED BY <3>1, <3>2
  <2>2. CASE l \notin DOMAIN data
    BY <1>1, <2>2 DEF K
  <2> QED BY <2>1, <2>2
<1> HIDE DEF k
<1>5. TypeOK'
  <2>1. data' \in [DOMAIN data' -> Age]
    BY <1>1, <1>3
  <2>2. free' \subseteq Keys /\ DOMAIN data' \subseteq Keys
    BY <1>1, <1>2, <1>3
  <2>3. panicked' \in BOOLEAN
    BY DEF KeysInv, TypeOK
  <2> QED BY <2>1, <2>2, <2>3 DEF TypeOK, Keys
<1>6. Known'
  <2>1. IsFiniteSet(DOMAIN data')
    BY <1>1, FS_AddElement DEF KeysInv, Known
  <2> QED BY <1>1, <1>4, <2>1 DEF Known, K
<1>7. PanicsExplained'
  <2>1. panicked' => panicked
    OBVIOUS
  <2>2. panicked => ~Separated
    BY DEF KeysInv, PanicsExplained
  <2>3. ~Separated => ~Separated'
    BY DEF Separated, KeysInv, TypeOK
  <2> QED BY <2>1, <2>2, <2>3 DEF PanicsExplained
<1> QED BY <1>5, <1>6, <1>7 DEF KeysInv

LEMMA PanicStep ==
  ASSUME KeysInv, NEW k \in DOMAIN data, ~Parses(k), Panic
  PROVE  KeysInv'
<1>1. ~Separated
  BY SeparatedParses DEF KeysInv
<1>2. ~Separated'
  BY <1>1 DEF Panic, Separated
<1> QED BY <1>2 DEF KeysInv, TypeOK, Known, K, Keys, PanicsExplained, Panic

LEMMA KeysInvInit == Init => KeysInv
<1> SUFFICES ASSUME Init PROVE KeysInv
  OBVIOUS
<1>1. DOMAIN data = {} /\ data \in [DOMAIN data -> Age] /\ free = {} /\ panicked = FALSE
  BY DEF Init
<1>2. freeBucket \in BOOLEAN /\ panicked \in BOOLEAN
  BY Zenon DEF Init
<1>3. counter \in [Family -> 0 .. MaxNames]
  BY DEF Init
<1>4. IsFiniteSet(DOMAIN data)
  BY <1>1, FS_EmptySet
<1> QED BY <1>1, <1>2, <1>3, <1>4 DEF KeysInv, TypeOK, Known, PanicsExplained

LEMMA KeysInvStep == KeysInv /\ [Next]_vars => KeysInv'
<1> SUFFICES ASSUME KeysInv, [Next]_vars PROVE KeysInv'
  OBVIOUS
<1>t. TypeOK /\ Known /\ 0 \in Counter
  BY DEF KeysInv, Counter
<1>1. ASSUME NEW f \in Family, AcquirePanics(f) PROVE KeysInv'
  <2>1. PICK k \in zombies(f) : ~Parses(k)
    BY <1>1 DEF AcquirePanics
  <2>2. k \in DOMAIN data
    BY <1>t, ZombiesKnown
  <2> QED BY <1>1, <2>1, <2>2, PanicStep DEF AcquirePanics
<1>2. ASSUME NEW f \in Family, Reuse(f) PROVE KeysInv'
  <2>1. PICK s : /\ hasData(f, s)
                 /\ setData(f, s)
                 /\ free' = swept(f) \ {familyNameToKey(f, s)}
    BY <1>2 DEF Reuse
  <2>2. free' \subseteq DOMAIN data
    BY <1>t, <2>1, SweptKnown
  <2>3. counter' = counter /\ panicked' = panicked /\ freeBucket' = TRUE
    BY <1>2 DEF Reuse
  <2>4. counter' \in [Family -> 0 .. MaxNames] /\ \A g \in Family : counter[g] <= counter'[g]
    BY <1>t, <2>3 DEF TypeOK
  <2> QED BY <1>t, <2>1, <2>2, <2>3, <2>4, SetDataStep DEF hasData
<1>3. ASSUME NEW f \in Family, New(f) PROVE KeysInv'
  <2>1. /\ counter[f] < MaxNames /\ counter' = [counter EXCEPT ![f] = @ + 1]
        /\ setData(f, Itoa[counter[f]]) /\ free' = swept(f)
        /\ panicked' = panicked /\ freeBucket' = TRUE
    BY <1>3 DEF New
  <2>2. free' \subseteq DOMAIN data
    BY <1>t, <2>1, SweptKnown
  <2>3. /\ counter[f] \in Counter /\ counter[f] < counter'[f]
        /\ counter' \in [Family -> 0 .. MaxNames]
        /\ \A g \in Family : counter[g] <= counter'[g]
    BY <1>t, <2>1 DEF TypeOK, Counter
  <2> QED BY <2>1, <2>2, <2>3, SetDataStep
<1>4. ASSUME NEW f \in Family, NEW s, TryAcquire(f, s) \/ KeepAlive(f, s) PROVE KeysInv'
  <2>1. /\ hasData(f, s) /\ setData(f, s) /\ free' \subseteq free
        /\ counter' = counter /\ panicked' = panicked /\ freeBucket' = freeBucket
    BY <1>4 DEF TryAcquire, KeepAlive
  <2>2. free' \subseteq DOMAIN data
    BY <1>t, <2>1 DEF Known
  <2>3. counter' \in [Family -> 0 .. MaxNames] /\ \A g \in Family : counter[g] <= counter'[g]
    BY <1>t, <2>1 DEF TypeOK
  <2>4. freeBucket' \in BOOLEAN
    BY <1>t, <2>1 DEF TypeOK
  <2> QED BY <1>t, <2>1, <2>2, <2>3, <2>4, SetDataStep DEF hasData
<1>5. ASSUME NEW f \in Family, NEW s, Release(f, s) PROVE KeysInv'
  <2>1. /\ free' = free \cup released(f, s) /\ data' = data /\ counter' = counter
        /\ panicked' = panicked /\ freeBucket' = freeBucket
    BY <1>5 DEF Release
  <2>2. free' \subseteq DOMAIN data
    BY <1>t, <2>1, ReleasedKnown DEF Known
  <2> QED BY <2>1, <2>2 DEF KeysInv, TypeOK, Known, K, Keys, PanicsExplained, Separated
<1>6. CASE ListPanics
  BY <1>6, PanicStep DEF ListPanics
<1>7. CASE Elapse
  <2>1. /\ DOMAIN data' = DOMAIN data
        /\ free' = free /\ counter' = counter /\ panicked' = panicked /\ freeBucket' = freeBucket
    BY <1>7 DEF Elapse
  <2>2. data' \in [DOMAIN data' -> Age]
    <3>1. ASSUME NEW k \in DOMAIN data
          PROVE  (IF data[k] > AutoReleaseAfter THEN data[k] ELSE data[k] + 1) \in Age
      BY <1>t DEF TypeOK, Age
    <3> QED BY <1>7, <3>1 DEF Elapse
  <2> QED BY <2>1, <2>2 DEF KeysInv, TypeOK, Known, K, Keys, PanicsExplained, Separated
<1>8. CASE UNCHANGED vars
  BY <1>8 DEF vars, KeysInv, TypeOK, Known, K, Keys, PanicsExplained, Separated
<1> QED BY <1>1, <1>2, <1>3, <1>4, <1>5, <1>6, <1>7, <1>8 DEF Next

LEMMA KeysInvariant == Spec => []KeysInv
<1> QED BY KeysInvInit, KeysInvStep, PTL DEF Spec

\* The buckets hold only keys of names the counter of a family gave, whatever
\* strings clients pass as names.
THEOREM KeysTypeCorrect == Spec => []TypeOK
<1>1. KeysInv => TypeOK
  BY DEF KeysInv
<1> QED BY <1>1, KeysInvariant, PTL

\* keyToFamilyName does not panic as long as no family with a separator is in use.
THEOREM PanicsExplainedCorrect == Spec => []PanicsExplained
<1>1. KeysInv => PanicsExplained
  BY DEF KeysInv
<1> QED BY <1>1, KeysInvariant, PTL

-----------------------------------------------------------------------------
(* What the code does to the buckets is what LocalStore says.                *)

FreeOf(S) == [f \in Family |-> {n \in Counter : K(f, n) \in S}]

DataOf ==
  [f \in Family |-> [n \in Counter |-> IF K(f, n) \in DOMAIN data THEN data[K(f, n)] ELSE None]]

LEMMA DecodedIs ==
  /\ Decoded = [freeBucket |-> freeBucket, free |-> FreeOf(free), data |-> DataOf,
                counter |-> counter]
  /\ Decoded' = [freeBucket |-> freeBucket', free |-> FreeOf(free'), data |-> DataOf',
                 counter |-> counter']
BY DEF Decoded, FreeOf, DataOf, K, hasData

LEMMA FreeOfRemoved ==
  ASSUME NEW S, NEW f \in Family, NEW n \in Counter
  PROVE  FreeOf(S \ {K(f, n)}) = [FreeOf(S) EXCEPT ![f] = @ \ {n}]
<1>1. ASSUME NEW g \in Family
      PROVE  FreeOf(S \ {K(f, n)})[g] = [FreeOf(S) EXCEPT ![f] = @ \ {n}][g]
  <2>1. \A m \in Counter : K(g, m) = K(f, n) <=> g = f /\ m = n
    BY KInjective
  <2> QED BY <2>1 DEF FreeOf
<1>2. /\ FreeOf(S \ {K(f, n)}) = [g \in Family |-> FreeOf(S \ {K(f, n)})[g]]
      /\ [FreeOf(S) EXCEPT ![f] = @ \ {n}]
           = [g \in Family |-> [FreeOf(S) EXCEPT ![f] = @ \ {n}][g]]
  BY DEF FreeOf
<1> QED BY <1>1, <1>2, Zenon

LEMMA FreeOfAdded ==
  ASSUME NEW S, NEW f \in Family, NEW n \in Counter
  PROVE  FreeOf(S \cup {K(f, n)}) = [FreeOf(S) EXCEPT ![f] = @ \cup {n}]
<1>1. ASSUME NEW g \in Family
      PROVE  FreeOf(S \cup {K(f, n)})[g] = [FreeOf(S) EXCEPT ![f] = @ \cup {n}][g]
  <2>1. \A m \in Counter : K(g, m) = K(f, n) <=> g = f /\ m = n
    BY KInjective
  <2> QED BY <2>1 DEF FreeOf
<1>2. /\ FreeOf(S \cup {K(f, n)}) = [g \in Family |-> FreeOf(S \cup {K(f, n)})[g]]
      /\ [FreeOf(S) EXCEPT ![f] = @ \cup {n}]
           = [g \in Family |-> [FreeOf(S) EXCEPT ![f] = @ \cup {n}][g]]
  BY DEF FreeOf
<1> QED BY <1>1, <1>2, Zenon

LEMMA DataOfSet ==
  ASSUME NEW f \in Family, NEW n \in Counter, setData(f, Itoa[n])
  PROVE  DataOf' = [DataOf EXCEPT ![f][n] = 0]
<1>1. /\ DOMAIN data' = DOMAIN data \cup {K(f, n)}
      /\ \A k \in DOMAIN data' : data'[k] = IF k = K(f, n) THEN 0 ELSE data[k]
  BY DEF setData, K
<1>2. ASSUME NEW g \in Family, NEW m \in Counter
      PROVE  DataOf'[g][m] = [DataOf EXCEPT ![f][n] = 0][g][m]
  <2>1. K(g, m) = K(f, n) <=> g = f /\ m = n
    BY KInjective
  <2>2. DataOf'[g][m] = IF K(g, m) \in DOMAIN data' THEN data'[K(g, m)] ELSE None
    BY DEF DataOf, K
  <2>3. DataOf[g][m] = IF K(g, m) \in DOMAIN data THEN data[K(g, m)] ELSE None
    BY DEF DataOf
  <2>4. [DataOf EXCEPT ![f][n] = 0][g][m] = IF g = f /\ m = n THEN 0 ELSE DataOf[g][m]
    BY DEF DataOf
  <2> QED BY <1>1, <2>1, <2>2, <2>3, <2>4
<1>3. /\ DataOf' = [g \in Family |-> [m \in Counter |-> DataOf'[g][m]]]
      /\ [DataOf EXCEPT ![f][n] = 0]
           = [g \in Family |-> [m \in Counter |-> [DataOf EXCEPT ![f][n] = 0][g][m]]]
  BY DEF DataOf, K
<1> QED BY <1>2, <1>3, ZenonT(30)

\* A key that is there belongs to a name the counter gave, also when it was made
\* from a string a client passed.
LEMMA NameOfData ==
  ASSUME TypeOK, Known, Separated, NEW f \in Family, NEW s \in String,
         familyNameToKey(f, s) \in DOMAIN data
  PROVE  f \in Plain /\ \E n \in Counter : s = Itoa[n]
<1>1. PICK g \in Family \cap Plain, n \in Counter : familyNameToKey(f, s) = K(g, n)
  BY SeparatedKnown
<1>2. /\ f \in String /\ Itoa[n] \in Plain /\ Itoa[n] \in String
      /\ HasPrefix(familyNameToKey(g, Itoa[n]), Prefix(f))
  BY <1>1, Numerals, StringsAssumption, HasPrefixOfKey DEF K
<1>3. f = g
  BY <1>2, PrefixFamily
<1>4. s = Itoa[n]
  BY <1>1, <1>2, <1>3, KeyCancel DEF K
<1> QED BY <1>3, <1>4

LEMMA KnownPrefix ==
  ASSUME TypeOK, Known, Separated, NEW f \in Family, NEW k \in DOMAIN data,
         HasPrefix(k, Prefix(f))
  PROVE  f \in Plain /\ \E n \in Counter : k = K(f, n)
<1>1. PICK g \in Family \cap Plain, n \in Counter : k = K(g, n)
  BY SeparatedKnown
<1>2. f = g
  BY <1>1, Numerals, StringsAssumption, PrefixFamily DEF K
<1> QED BY <1>1, <1>2

LEMMA DecodedAt ==
  ASSUME TypeOK, NEW f \in Family, NEW n \in Counter
  PROVE  /\ Store!isNameFree(Decoded, f, n) <=> isNameFree(f, Itoa[n])
         /\ Store!hasData(Decoded, f, n) <=> hasData(f, Itoa[n])
         /\ hasData(f, Itoa[n]) => Decoded.data[f][n] = data[K(f, n)]
<1>1. /\ Decoded.free[f] = {m \in Counter : K(f, m) \in free}
      /\ Decoded.freeBucket = freeBucket
      /\ Decoded.data[f][n] = IF K(f, n) \in DOMAIN data THEN data[K(f, n)] ELSE None
  BY DecodedIs DEF FreeOf, DataOf
<1>2. K(f, n) \in DOMAIN data => data[K(f, n)] # None
  BY DEF TypeOK, Age
<1> QED BY <1>1, <1>2 DEF Store!isNameFree, Store!hasData, isNameFree, hasData, K

LEMMA ZombiesDecoded ==
  ASSUME TypeOK, Known, Separated, NEW f \in Family, AutoReleaseAfter > 0
  PROVE  zombies(f) = {K(f, n) : n \in Store!zombies(Decoded, f)}
<1>1. ASSUME NEW n \in Counter
      PROVE  n \in Store!zombies(Decoded, f)
               <=> K(f, n) \in DOMAIN data /\ data[K(f, n)] > AutoReleaseAfter
  BY DecodedAt DEF Store!zombies, Store!Name, Counter, hasData, K
<1>2. Store!zombies(Decoded, f) \subseteq Counter
  BY DEF Store!zombies, Store!Name, Counter
<1>3. ASSUME NEW k \in zombies(f) PROVE k \in {K(f, n) : n \in Store!zombies(Decoded, f)}
  <2>1. k \in DOMAIN data /\ HasPrefix(k, Prefix(f)) /\ data[k] > AutoReleaseAfter
    BY ZombiesKnown
  <2>2. PICK n \in Counter : k = K(f, n)
    BY <2>1, KnownPrefix
  <2> QED BY <1>1, <2>1, <2>2
<1>4. ASSUME NEW n \in Store!zombies(Decoded, f) PROVE K(f, n) \in zombies(f)
  <2>1. n \in Counter /\ Itoa[n] \in String /\ f \in String
    BY <1>2, Numerals, StringsAssumption
  <2>2. HasPrefix(K(f, n), Prefix(f))
    BY <2>1, HasPrefixOfKey DEF K
  <2> QED BY <1>1, <2>1, <2>2, ZombiesKnown
<1> QED BY <1>3, <1>4

LEMMA SweptIs ==
  ASSUME TypeOK, Known, Separated, NEW f \in Family
  PROVE  swept(f) = IF AutoReleaseAfter > 0 /\ freeBucket
                    THEN free \cup {K(f, n) : n \in Store!zombies(Decoded, f)}
                    ELSE free
<1>1. CASE ~(AutoReleaseAfter > 0)
  <2>1. zombies(f) = {}
    BY <1>1 DEF zombies
  <2> QED BY <1>1, <2>1 DEF swept
<1>2. CASE ~freeBucket
  <2>1. \A s : released(f, s) = {}
    BY <1>2 DEF released, isNameFree
  <2> QED BY <1>2, <2>1 DEF swept
<1>3. CASE AutoReleaseAfter > 0 /\ freeBucket
  <2> DEFINE Z == Store!zombies(Decoded, f)
  <2>1. zombies(f) = {K(f, n) : n \in Z} /\ Z \subseteq Counter
    BY <1>3, ZombiesDecoded DEF Store!zombies, Store!Name, Counter
  <2>2. ASSUME NEW n \in Z
        PROVE  released(f, nameOf(K(f, n))) = {K(f, n)} \ free
    <3>1. K(f, n) \in DOMAIN data /\ HasPrefix(K(f, n), Prefix(f))
      BY <2>1, ZombiesKnown
    <3>2. nameOf(K(f, n)) = Itoa[n]
      BY <2>1, <3>1, KnownPrefix, ParseKey, Numerals DEF K
    <3> QED BY <1>3, <3>1, <3>2 DEF released, isNameFree, hasData, K
  <2> HIDE DEF Z
  <2>3. UNION {released(f, nameOf(k)) : k \in zombies(f)} = {K(f, n) : n \in Z} \ free
    BY <2>1, <2>2
  <2>4. swept(f) = free \cup {K(f, n) : n \in Z}
    BY <2>3 DEF swept
  <2> QED BY <1>3, <2>4 DEF Z
<1> QED BY <1>1, <1>2, <1>3

\* The sweep and getAnyFreeName's creation of the bucket.
LEMMA BeforeAcquireIs ==
  ASSUME TypeOK, Known, Separated, NEW f \in Family
  PROVE  Store!beforeAcquire(Decoded, f)
           = [freeBucket |-> TRUE, free |-> FreeOf(swept(f)), data |-> DataOf,
              counter |-> counter]
<1> DEFINE Z == Store!zombies(Decoded, f)
<1>1. Z \subseteq Counter
  BY DEF Store!zombies, Store!Name, Counter
<1>2. FreeOf(free \cup {K(f, n) : n \in Z}) = [FreeOf(free) EXCEPT ![f] = @ \cup Z]
  <2> HIDE DEF Z
  <2>1. ASSUME NEW g \in Family
        PROVE  FreeOf(free \cup {K(f, n) : n \in Z})[g]
                 = [FreeOf(free) EXCEPT ![f] = @ \cup Z][g]
    <3>1. ASSUME NEW m \in Counter
          PROVE  K(g, m) \in {K(f, n) : n \in Z} <=> g = f /\ m \in Z
      BY <1>1, KInjective
    <3> QED BY <1>1, <3>1 DEF FreeOf
  <2>2. /\ FreeOf(free \cup {K(f, n) : n \in Z})
             = [g \in Family |-> FreeOf(free \cup {K(f, n) : n \in Z})[g]]
        /\ [FreeOf(free) EXCEPT ![f] = @ \cup Z]
             = [g \in Family |-> [FreeOf(free) EXCEPT ![f] = @ \cup Z][g]]
    BY DEF FreeOf
  <2> QED BY <2>1, <2>2, Zenon
<1>3. FreeOf(swept(f)) = IF AutoReleaseAfter > 0 /\ freeBucket
                         THEN [FreeOf(free) EXCEPT ![f] = @ \cup Z]
                         ELSE FreeOf(free)
  BY <1>2, SweptIs
<1> HIDE DEF Z
<1>4. Store!beforeAcquire(Decoded, f)
        = [(IF AutoReleaseAfter > 0 /\ freeBucket
            THEN [Decoded EXCEPT !.free[f] = @ \cup Z]
            ELSE Decoded) EXCEPT !.freeBucket = TRUE]
  <2>1. Decoded.freeBucket = freeBucket
    BY DecodedIs
  <2> QED BY <2>1 DEF Store!beforeAcquire, Store!releaseZombies, Z
<1> QED BY <1>3, <1>4, DecodedIs

LEMMA ReuseDecoded ==
  ASSUME TypeOK, Known, Separated, NEW f \in Family, Reuse(f)
  PROVE  StoreAcquire(f)
<1>1. PICK k \in anyFreeName(f) :
        LET n == SubSeq(k, Len(Prefix(f)) + 1, Len(k))
        IN  /\ hasData(f, n)
            /\ setData(f, n)
            /\ free' = swept(f) \ {familyNameToKey(f, n)}
  BY DEF Reuse
<1>2. freeBucket' = TRUE /\ counter' = counter
  BY DEF Reuse
<1>3. k \in swept(f) /\ k \in DOMAIN data /\ HasPrefix(k, Prefix(f))
  BY SweptKnown DEF anyFreeName, Seek
<1>4. PICK n \in Counter : k = K(f, n)
  BY <1>3, KnownPrefix
<1>5. SubSeq(k, Len(Prefix(f)) + 1, Len(k)) = Itoa[n]
  <2>1. Len(Prefix(f)) = Len(f) + 1
    BY PrefixAt, StringsAssumption DEF IsPrefix
  <2> QED BY <1>4, <2>1, KeyRest, Numerals, StringsAssumption DEF K
<1>6. setData(f, Itoa[n]) /\ free' = swept(f) \ {K(f, n)} /\ hasData(f, Itoa[n])
  BY <1>1, <1>5 DEF K
<1> DEFINE db == Store!beforeAcquire(Decoded, f)
<1>7. db = [freeBucket |-> TRUE, free |-> FreeOf(swept(f)), data |-> DataOf,
            counter |-> counter]
  BY BeforeAcquireIs
<1>8. n \in db.free[f]
  BY <1>3, <1>4, <1>7 DEF FreeOf
<1>9. Store!hasData(db, f, n)
  <2>1. db.data = Decoded.data
    BY <1>7, DecodedIs
  <2>2. Store!hasData(Decoded, f, n)
    BY <1>6, DecodedAt
  <2> QED BY <2>1, <2>2 DEF Store!hasData
<1>10. Decoded' = Store!touch(Store!removeFreeName(db, f, n), f, n)
  <2> DEFINE b == TRUE
             F == FreeOf(swept(f))
             G == [F EXCEPT ![f] = @ \ {n}]
             r == [freeBucket |-> b, free |-> G, data |-> DataOf, counter |-> counter]
  <2>1. FreeOf(free') = G
    BY <1>6, FreeOfRemoved
  <2>2. DataOf' = [DataOf EXCEPT ![f][n] = 0]
    BY <1>6, DataOfSet
  <2>3. Decoded' = [freeBucket |-> b, free |-> G, data |-> [DataOf EXCEPT ![f][n] = 0],
                    counter |-> counter]
    BY <1>2, <2>1, <2>2, DecodedIs
  <2>4. db = [freeBucket |-> b, free |-> F, data |-> DataOf, counter |-> counter]
    BY <1>7
  <2> HIDE DEF db, F, b
  <2>5. Store!removeFreeName(db, f, n) = r
    <3> DEFINE q == [freeBucket |-> b, free |-> F, data |-> DataOf, counter |-> counter]
    <3>1. [q EXCEPT !.free[f] = @ \ {n}] = r
      OBVIOUS
    <3>2. Store!removeFreeName(q, f, n) = [q EXCEPT !.free[f] = @ \ {n}]
      BY DEF Store!removeFreeName
    <3>3. db = q
      BY <2>4
    <3> HIDE DEF q, r
    <3> QED BY <3>1, <3>2, <3>3
  <2>6. Store!touch(r, f, n) = [freeBucket |-> b, free |-> G,
                                data |-> [DataOf EXCEPT ![f][n] = 0], counter |-> counter]
    <3> HIDE DEF G
    <3> QED BY DEF Store!touch
  <2> QED BY <2>3, <2>5, <2>6
<1>11. Store!reuseName(Decoded, f, n)
         = [db |-> Store!touch(Store!removeFreeName(db, f, n), f, n), name |-> n, status |-> "ok"]
  BY <1>9 DEF Store!reuseName
<1>12. Store!reuseName(Decoded, f, n) \in Store!acquire(Decoded, f)
  <2> HIDE DEF db
  <2>1. db.free[f] # {}
    BY <1>8
  <2> QED BY <1>8, <2>1 DEF Store!acquire, db
<1>13. Decoded' = Store!reuseName(Decoded, f, n).db
  <2> HIDE DEF db
  <2> QED BY <1>10, <1>11
<1> QED BY <1>12, <1>13 DEF StoreAcquire

LEMMA NewDecoded ==
  ASSUME TypeOK, Known, Separated, NEW f \in Family, New(f)
  PROVE  StoreAcquire(f)
<1> DEFINE db == Store!beforeAcquire(Decoded, f)
           n == counter[f]
<1>1. /\ anyFreeName(f) = {} /\ n < MaxNames /\ counter' = [counter EXCEPT ![f] = @ + 1]
      /\ setData(f, Itoa[n]) /\ free' = swept(f) /\ freeBucket' = TRUE
  BY DEF New
<1>2. n \in Counter
  BY <1>1 DEF TypeOK, Counter
<1>3. db = [freeBucket |-> TRUE, free |-> FreeOf(swept(f)), data |-> DataOf,
            counter |-> counter]
  BY BeforeAcquireIs
<1>4. db.free[f] = {}
  <2>1. ASSUME NEW m \in Counter, K(f, m) \in swept(f) PROVE FALSE
    <3>1. swept(f) \in SUBSET String /\ IsFiniteSet(swept(f)) /\ Prefix(f) \in String
      BY SweptKnown, KeysAreStrings, PrefixAt, StringsAssumption DEF TypeOK, IsPrefix
    <3>2. HasPrefix(K(f, m), Prefix(f))
      BY HasPrefixOfKey, Numerals, StringsAssumption DEF K
    <3> QED BY <1>1, <2>1, <3>1, <3>2, SeekExact DEF anyFreeName
  <2> QED BY <1>3, <2>1 DEF FreeOf
<1>5. Decoded' = [freeBucket |-> TRUE, free |-> FreeOf(swept(f)),
                  data |-> [DataOf EXCEPT ![f][n] = 0],
                  counter |-> [counter EXCEPT ![f] = n + 1]]
  BY <1>1, <1>2, DecodedIs, DataOfSet
<1>6. Decoded' = Store!newName(Decoded, f).db
  <2>1. db.counter[f] = n
    BY <1>3
  <2> HIDE DEF n, db
  <2>2. Store!newName(Decoded, f).db = Store!touch([db EXCEPT !.counter[f] = n + 1], f, n)
    BY <2>1 DEF Store!newName, db
  <2> QED BY <1>3, <1>5, <2>2 DEF Store!touch
<1>7. Store!newName(Decoded, f) \in Store!acquire(Decoded, f)
  <2>1. db.counter[f] = n /\ n \in Store!Name
    BY <1>2, <1>3 DEF Store!Name, Counter
  <2> HIDE DEF db, n
  <2> QED BY <1>4, <2>1 DEF Store!acquire, db
<1> QED BY <1>6, <1>7 DEF StoreAcquire

LEMMA TryAcquireDecoded ==
  ASSUME TypeOK, NEW f \in Family, NEW n \in Counter, TryAcquire(f, Itoa[n])
  PROVE  Decoded' = Store!tryAcquire(Decoded, f, n).db
<1>1. /\ isNameFree(f, Itoa[n]) /\ hasData(f, Itoa[n]) /\ free' = free \ {K(f, n)}
      /\ setData(f, Itoa[n]) /\ freeBucket' = freeBucket /\ counter' = counter
  BY DEF TryAcquire, K
<1>2. Decoded' = [freeBucket |-> freeBucket, free |-> [FreeOf(free) EXCEPT ![f] = @ \ {n}],
                  data |-> [DataOf EXCEPT ![f][n] = 0], counter |-> counter]
  BY <1>1, DecodedIs, FreeOfRemoved, DataOfSet
<1>3. Decoded' = Store!touch(Store!removeFreeName(Decoded, f, n), f, n)
  <2>1. Store!removeFreeName(Decoded, f, n)
          = [freeBucket |-> freeBucket, free |-> [FreeOf(free) EXCEPT ![f] = @ \ {n}],
             data |-> DataOf, counter |-> counter]
    BY DecodedIs DEF Store!removeFreeName
  <2> QED BY <1>2, <2>1 DEF Store!touch
<1>4. Store!tryAcquireStatus(Decoded, f, n) = "ok"
  BY <1>1, DecodedAt DEF Store!tryAcquireStatus
<1> QED BY <1>3, <1>4 DEF Store!tryAcquire

LEMMA KeepAliveDecoded ==
  ASSUME TypeOK, NEW f \in Family, NEW n \in Counter, KeepAlive(f, Itoa[n])
  PROVE  Decoded' = Store!keepAlive(Decoded, f, n)
<1>1. /\ ~isNameFree(f, Itoa[n]) /\ hasData(f, Itoa[n]) /\ free' = free
      /\ setData(f, Itoa[n]) /\ freeBucket' = freeBucket /\ counter' = counter
  BY DEF KeepAlive
<1>2. Decoded' = [freeBucket |-> freeBucket, free |-> FreeOf(free),
                  data |-> [DataOf EXCEPT ![f][n] = 0], counter |-> counter]
  BY <1>1, DecodedIs, DataOfSet
<1>3. Decoded' = Store!touch(Decoded, f, n)
  BY <1>2, DecodedIs DEF Store!touch
<1> QED BY <1>1, <1>3, DecodedAt DEF Store!keepAlive

LEMMA ReleaseDecoded ==
  ASSUME TypeOK, NEW f \in Family, NEW n \in Counter, Release(f, Itoa[n])
  PROVE  Decoded' = Store!release(Decoded, f, n)
<1>1. /\ ~isNameFree(f, Itoa[n]) /\ hasData(f, Itoa[n]) /\ free' = free \cup {K(f, n)}
      /\ data' = data /\ freeBucket' = freeBucket /\ counter' = counter
  BY DEF Release, released, K
<1>2. freeBucket = TRUE
  BY <1>1 DEF isNameFree, TypeOK
<1>3. DataOf' = DataOf
  BY <1>1 DEF DataOf, K
<1>4. Decoded' = [freeBucket |-> TRUE, free |-> [FreeOf(free) EXCEPT ![f] = @ \cup {n}],
                  data |-> DataOf, counter |-> counter]
  BY <1>1, <1>2, <1>3, DecodedIs, FreeOfAdded, ZenonT(40)
<1>5. Decoded' = Store!addFreeName(Decoded, f, n)
  <2> DEFINE b == TRUE
             r == [freeBucket |-> b, free |-> FreeOf(free), data |-> DataOf, counter |-> counter]
  <2>1. Decoded' = [r EXCEPT !.free[f] = @ \cup {n}]
    <3>1. Decoded' = [freeBucket |-> b, free |-> [FreeOf(free) EXCEPT ![f] = @ \cup {n}],
                      data |-> DataOf, counter |-> counter]
      BY <1>4
    <3> HIDE DEF b
    <3> QED BY <3>1
  <2>2. [Decoded EXCEPT !.freeBucket = b] = r /\ Decoded.free = FreeOf(free)
    <3> HIDE DEF b
    <3> QED BY DecodedIs
  <2>3. Store!addFreeName(Decoded, f, n)
          = [[Decoded EXCEPT !.freeBucket = b] EXCEPT !.free[f] = @ \cup {n}]
    BY DecodedIs DEF Store!addFreeName
  <2> HIDE DEF r
  <2> QED BY <2>1, <2>2, <2>3
<1> QED BY <1>1, <1>5, DecodedAt DEF Store!release

LEMMA ElapseDecoded ==
  ASSUME TypeOK, Elapse
  PROVE  Decoded' = Store!elapse(Decoded)
<1>1. /\ DOMAIN data' = DOMAIN data
      /\ \A k \in DOMAIN data :
           data'[k] = IF data[k] > AutoReleaseAfter THEN data[k] ELSE data[k] + 1
      /\ free' = free /\ freeBucket' = freeBucket /\ counter' = counter
  BY DEF Elapse
<1>2. ASSUME NEW f \in Family, NEW n \in Counter
      PROVE  DataOf'[f][n] = IF Store!hasData(Decoded, f, n)
                             THEN Store!Older(Decoded.data[f][n]) ELSE None
  <2>1. DataOf'[f][n] = IF K(f, n) \in DOMAIN data' THEN data'[K(f, n)] ELSE None
    BY DEF DataOf, K
  <2> QED BY <1>1, <2>1, DecodedAt DEF Store!Older, hasData, K
<1>3. DataOf' = [f \in Family |-> [n \in Counter |->
                   IF Store!hasData(Decoded, f, n)
                   THEN Store!Older(Decoded.data[f][n]) ELSE None]]
  <2>1. DataOf' = [f \in Family |-> [n \in Counter |-> DataOf'[f][n]]]
    BY DEF DataOf, K
  <2> QED BY <1>2, <2>1, Zenon
<1>4. Decoded' = [Decoded EXCEPT !.data = DataOf']
  BY <1>1, DecodedIs
<1> QED BY <1>3, <1>4 DEF Store!elapse, Store!Name, Counter

\* On the ordered buckets every operation does what LocalStore says it does to a
\* table per family: for any families, numerals, strings clients pass and periods.
THEOREM ImplementsStoreCorrect == Spec => ImplementsStore
<1> DEFINE Good ==
       Separated =>
         /\ Elapse => Decoded' = Store!elapse(Decoded)
         /\ \A f \in Family : Reuse(f) \/ New(f) => StoreAcquire(f)
         /\ \A f \in Family, s \in Given :
              TryAcquire(f, s) \/ KeepAlive(f, s) \/ Release(f, s) =>
                \E n \in Counter :
                  /\ s = Itoa[n]
                  /\ TryAcquire(f, s) => Decoded' = Store!tryAcquire(Decoded, f, n).db
                  /\ KeepAlive(f, s) => Decoded' = Store!keepAlive(Decoded, f, n)
                  /\ Release(f, s) => Decoded' = Store!release(Decoded, f, n)
<1>1. ASSUME KeysInv PROVE Good
  <2> SUFFICES ASSUME Separated PROVE Good
    OBVIOUS
  <2>t. TypeOK /\ Known
    BY <1>1 DEF KeysInv
  <2>1. Elapse => Decoded' = Store!elapse(Decoded)
    BY <2>t, ElapseDecoded
  <2>2. ASSUME NEW f \in Family, Reuse(f) \/ New(f) PROVE StoreAcquire(f)
    BY <2>t, <2>2, ReuseDecoded, NewDecoded
  <2>3. ASSUME NEW f \in Family, NEW s \in Given,
               TryAcquire(f, s) \/ KeepAlive(f, s) \/ Release(f, s)
        PROVE  \E n \in Counter :
                 /\ s = Itoa[n]
                 /\ TryAcquire(f, s) => Decoded' = Store!tryAcquire(Decoded, f, n).db
                 /\ KeepAlive(f, s) => Decoded' = Store!keepAlive(Decoded, f, n)
                 /\ Release(f, s) => Decoded' = Store!release(Decoded, f, n)
    <3>1. familyNameToKey(f, s) \in DOMAIN data
      BY <2>3 DEF TryAcquire, KeepAlive, Release, released, hasData
    <3>2. PICK n \in Counter : s = Itoa[n]
      BY <2>t, <3>1, NameOfData, Numerals
    <3> QED BY <2>t, <3>2, TryAcquireDecoded, KeepAliveDecoded, ReleaseDecoded
  <2> QED BY <2>1, <2>2, <2>3
<1>2. KeysInv /\ [Next]_vars => [Good]_vars
  BY <1>1
<1> QED BY <1>2, KeysInvariant, PTL DEF Spec, ImplementsStore
=============================================================================
