--------------------------- MODULE SessionProofs ---------------------------
(***************************************************************************)
(* What the server answers and what an export is, for every number of      *)
(* lines, changes, units and slots.                                        *)
(***************************************************************************)
EXTENDS Session, SequenceTheorems, FiniteSetTheorems, WellFoundedInduction, TLAPS

-----------------------------------------------------------------------------
(* Sequences of sequences, one after another.                              *)

LEMMA LeastOf ==
    ASSUME NEW N \in SUBSET Nat, N # {} PROVE \E n \in N : \A m \in N : n <= m
  <1>1. \E n \in N : \A m \in N : ~(<<m, n>> \in OpToRel(<, Nat))
    BY WFMin, NatLessThanWellFounded
  <1>2. \A n, m \in N : m < n => <<m, n>> \in OpToRel(<, Nat)
    BY DEF OpToRel
  <1>3. \A n, m \in N : ~ (m < n) => n <= m
    OBVIOUS
  <1> QED BY <1>1, <1>2, <1>3

(* What joins the first of them.                                           *)
Joins(s, n, f) == f = [i \in 1 .. n |-> IF i = 1 THEN s[i] ELSE f[i - 1] \o s[i]]

LEMMA JoinThere ==
    ASSUME NEW s, NEW n \in Nat PROVE \E f : Joins(s, n, f)
  <1> DEFINE without == {m \in Nat : \A f : ~ Joins(s, m, f)}
  <1> SUFFICES ASSUME without # {} PROVE FALSE
    OBVIOUS
  <1>1. PICK m \in without : \A k \in without : m <= k
    <2>1. without \in SUBSET Nat
      OBVIOUS
    <2> HIDE DEF without
    <2> QED BY <2>1, LeastOf
  <1>2. m \in Nat /\ \A f : ~ Joins(s, m, f)
    OBVIOUS
  <1>3. m # 0
    <2> SUFFICES ASSUME m = 0 PROVE FALSE
      OBVIOUS
    <2>1. PICK f : f = [i \in 1 .. 0 |-> s[i]]
      OBVIOUS
    <2>2. f = [i \in 1 .. 0 |-> IF i = 1 THEN s[i] ELSE f[i - 1] \o s[i]]
      BY <2>1
    <2> QED BY <1>2, <2>2 DEF Joins
  <1>4. PICK l : l \in Nat /\ l = m - 1
    BY <1>2, <1>3
  <1>5. l \notin without
    <2> HIDE DEF without
    <2> QED BY <1>1, <1>2, <1>4
  <1>6. PICK f : Joins(s, l, f)
    BY <1>4, <1>5
  <1>7. PICK g : g = [i \in 1 .. m |-> IF i <= l THEN f[i]
                                       ELSE IF i = 1 THEN s[i] ELSE f[i - 1] \o s[i]]
    OBVIOUS
  <1>8. g = [i \in 1 .. m |-> IF i = 1 THEN s[i] ELSE g[i - 1] \o s[i]]
    <2> SUFFICES ASSUME NEW i \in 1 .. m
                 PROVE  g[i] = IF i = 1 THEN s[i] ELSE g[i - 1] \o s[i]
      BY <1>7
    <2>1. i \in Nat /\ i >= 1 /\ (i <= l \/ i = l + 1)
      BY <1>2, <1>4
    <2>2. i # 1 => i - 1 \in 1 .. m /\ i - 1 <= l
      BY <1>2, <1>4, <2>1
    <2>3. i # 1 => g[i - 1] = f[i - 1]
      BY <1>7, <2>2
    <2>4. CASE i <= l
      <3>1. f[i] = IF i = 1 THEN s[i] ELSE f[i - 1] \o s[i]
        <4>1. f = [j \in 1 .. l |-> IF j = 1 THEN s[j] ELSE f[j - 1] \o s[j]]
          BY <1>6 DEF Joins
        <4>2. i \in 1 .. l
          BY <1>4, <2>1, <2>4
        <4> QED BY <4>1, <4>2
      <3>2. g[i] = f[i]
        BY <1>7, <2>4
      <3> QED BY <2>3, <3>1, <3>2
    <2>5. CASE ~ (i <= l)
      <3>1. g[i] = IF i = 1 THEN s[i] ELSE f[i - 1] \o s[i]
        BY <1>7, <2>5
      <3> QED BY <2>3, <3>1
    <2> QED BY <2>4, <2>5
  <1> QED BY <1>2, <1>8 DEF Joins

LEMMA FlattenJoins ==
    ASSUME NEW s, Len(s) \in Nat
    PROVE  /\ Len(s) = 0 => FlattenSeq(s) = s
           /\ Len(s) # 0 => \E f : Joins(s, Len(s), f) /\ FlattenSeq(s) = f[Len(s)]
  <1>1. CASE Len(s) = 0
    BY <1>1 DEF FlattenSeq
  <1>2. CASE Len(s) # 0
    <2>1. \E f : Joins(s, Len(s), f)
      BY JoinThere
    <2>2. PICK f : f = CHOOSE g : Joins(s, Len(s), g)
      OBVIOUS
    <2>3. Joins(s, Len(s), f)
      BY <2>1, <2>2
    <2>4. FlattenSeq(s) = f[Len(s)]
      BY <1>2, <2>2 DEF FlattenSeq, Joins
    <2> QED BY <1>2, <2>3, <2>4
  <1> QED BY <1>1, <1>2

(* One sequence more at the end.                                           *)
LEMMA FlattenAppend ==
    ASSUME NEW T, NEW s \in Seq(Seq(T)), NEW x \in Seq(T)
    PROVE  /\ FlattenSeq(s) \in Seq(T)
           /\ FlattenSeq(Append(s, x)) = FlattenSeq(s) \o x
  <1>1. PICK n : n = Len(s)
    OBVIOUS
  <1>2. PICK t : t = Append(s, x)
    OBVIOUS
  <1>3. n \in Nat /\ Len(t) = n + 1 /\ t[n + 1] = x /\ \A i \in 1 .. n : t[i] = s[i]
    BY <1>1, <1>2, AppendProperties
  <1>4. \A i \in 1 .. n : s[i] \in Seq(T)
    BY <1>1
  <1>5. PICK g : Joins(t, n + 1, g) /\ FlattenSeq(t) = g[n + 1]
    BY <1>3, FlattenJoins
  <1>6. \A i \in 1 .. n + 1 : g[i] = IF i = 1 THEN t[i] ELSE g[i - 1] \o t[i]
    BY <1>5 DEF Joins
  <1>7. CASE n = 0
    <2>1. s = << >>
      BY <1>1, <1>7, EmptySeq
    <2>2. FlattenSeq(s) = << >>
      BY <1>1, <1>7, <2>1, FlattenJoins
    <2>3. g[1] = x
      BY <1>3, <1>6, <1>7
    <2>4. << >> \o x = x
      BY ConcatEmptySeq
    <2> QED BY <1>2, <1>5, <1>7, <2>2, <2>3, <2>4
  <1>8. CASE n # 0
    <2>1. PICK f : Joins(s, n, f) /\ FlattenSeq(s) = f[n]
      BY <1>1, <1>3, <1>8, FlattenJoins
    <2>2. \A i \in 1 .. n : f[i] = IF i = 1 THEN s[i] ELSE f[i - 1] \o s[i]
      BY <2>1 DEF Joins
    <2> DEFINE bad == {i \in Nat : i >= 1 /\ i <= n /\ ~ (g[i] = f[i] /\ f[i] \in Seq(T))}
    <2>3. bad = {}
      <3> SUFFICES ASSUME bad # {} PROVE FALSE
        OBVIOUS
      <3>1. PICK i \in bad : \A k \in bad : i <= k
        <4>1. bad \in SUBSET Nat
          OBVIOUS
        <4> HIDE DEF bad
        <4> QED BY <4>1, LeastOf
      <3>2. i \in 1 .. n /\ i \in 1 .. n + 1 /\ i \in Nat
        BY <1>3
      <3>3. /\ g[i] = IF i = 1 THEN t[i] ELSE g[i - 1] \o t[i]
            /\ f[i] = IF i = 1 THEN s[i] ELSE f[i - 1] \o s[i]
            /\ t[i] = s[i] /\ s[i] \in Seq(T)
        BY <1>3, <1>4, <1>6, <2>2, <3>2
      <3>4. i # 1
        BY <3>3
      <3>5. i - 1 \in Nat /\ i - 1 >= 1 /\ i - 1 <= n /\ ~ (i <= i - 1)
        BY <1>3, <3>2, <3>4
      <3>6. i - 1 \notin bad
        <4> HIDE DEF bad
        <4> QED BY <3>1, <3>5
      <3>7. g[i - 1] = f[i - 1] /\ f[i - 1] \in Seq(T)
        BY <3>5, <3>6
      <3>8. f[i - 1] \o s[i] \in Seq(T)
        BY <3>3, <3>7, ConcatProperties
      <3> QED BY <3>3, <3>4, <3>7, <3>8
    <2>4. g[n] = f[n] /\ f[n] \in Seq(T)
      <3>1. n \notin bad
        BY <2>3
      <3>2. n \in Nat /\ n >= 1 /\ n <= n
        BY <1>3, <1>8
      <3> QED BY <3>1, <3>2
    <2>5. g[n + 1] = g[n] \o x
      <3>1. n + 1 \in 1 .. n + 1 /\ n + 1 # 1 /\ (n + 1) - 1 = n
        BY <1>3, <1>8
      <3> QED BY <1>3, <1>6, <3>1
    <2> QED BY <1>2, <1>5, <2>1, <2>4, <2>5
  <1> QED BY <1>7, <1>8

LEMMA NextJoin ==
    ASSUME NEW T, NEW a \in Seq(T), NEW b \in Seq(T), NEW c \in Seq(T),
           NEW x, x = a \o b, NEW y, y = b \o c
    PROVE  x \o c = a \o y
  BY ConcatAssociative

(* The first of them comes first.                                          *)
LEMMA FlattenTail ==
    ASSUME NEW T, NEW s \in Seq(Seq(T)), s # << >>
    PROVE  FlattenSeq(s) = s[1] \o FlattenSeq(Tail(s))
  <1>1. PICK n : n = Len(s)
    OBVIOUS
  <1>2. PICK t : t = Tail(s)
    OBVIOUS
  <1>3. n \in Nat /\ n # 0 /\ Len(t) = n - 1 /\ \A i \in 1 .. n - 1 : t[i] = s[i + 1]
    BY <1>1, <1>2, HeadTailProperties, EmptySeq
  <1>4. \A i \in 1 .. n : s[i] \in Seq(T)
    BY <1>1
  <1>5. PICK f : Joins(s, n, f) /\ FlattenSeq(s) = f[n]
    BY <1>1, <1>3, FlattenJoins
  <1>6. \A i \in 1 .. n : f[i] = IF i = 1 THEN s[i] ELSE f[i - 1] \o s[i]
    BY <1>5 DEF Joins
  <1>7. f[1] = s[1] /\ s[1] \in Seq(T)
    BY <1>3, <1>4, <1>6
  <1>8. CASE n = 1
    <2>1. FlattenSeq(t) = t /\ t = << >>
      <3>1. t \in Seq(Seq(T)) /\ Len(t) = 0
        BY <1>2, <1>3, <1>8, HeadTailProperties
      <3>2. t = << >>
        BY <3>1, EmptySeq
      <3> QED BY <3>1, <3>2, FlattenJoins
    <2>2. s[1] \o << >> = s[1]
      BY <1>7, ConcatEmptySeq
    <2> QED BY <1>2, <1>5, <1>7, <1>8, <2>1, <2>2
  <1>9. CASE n # 1
    <2>1. PICK m : m \in Nat /\ m = n - 1 /\ m >= 1
      BY <1>3, <1>9
    <2>2. PICK g : Joins(t, m, g) /\ FlattenSeq(t) = g[m]
      <3>1. Len(t) = m /\ m \in Nat /\ m # 0
        BY <1>3, <2>1
      <3> QED BY <3>1, FlattenJoins
    <2>3. \A i \in 1 .. m : g[i] = IF i = 1 THEN t[i] ELSE g[i - 1] \o t[i]
      BY <2>2 DEF Joins
    <2> DEFINE bad == {i \in Nat : i >= 1 /\ i <= m /\ ~ (f[i + 1] = s[1] \o g[i] /\ g[i] \in Seq(T))}
    <2>4. bad = {}
      <3> SUFFICES ASSUME bad # {} PROVE FALSE
        OBVIOUS
      <3>1. PICK i \in bad : \A k \in bad : i <= k
        <4>1. bad \in SUBSET Nat
          OBVIOUS
        <4> HIDE DEF bad
        <4> QED BY <4>1, LeastOf
      <3>2. i \in 1 .. m /\ i + 1 \in 1 .. n /\ i + 1 # 1 /\ (i + 1) - 1 = i
        BY <1>3, <2>1
      <3>3. /\ g[i] = IF i = 1 THEN t[i] ELSE g[i - 1] \o t[i]
            /\ f[i + 1] = f[i] \o s[i + 1]
            /\ t[i] = s[i + 1] /\ s[i + 1] \in Seq(T)
        BY <1>3, <1>4, <1>6, <2>1, <2>3, <3>2
      <3>4. i # 1
        BY <1>7, <3>3
      <3>5. i - 1 \in Nat /\ i - 1 >= 1 /\ i - 1 <= m /\ ~ (i <= i - 1) /\ (i - 1) + 1 = i
        BY <2>1, <3>2, <3>4
      <3>6. i - 1 \notin bad
        <4> HIDE DEF bad
        <4> QED BY <3>1, <3>5
      <3>7. f[i] = s[1] \o g[i - 1] /\ g[i - 1] \in Seq(T)
        BY <3>5, <3>6
      <3>8. g[i] \in Seq(T)
        BY <3>3, <3>4, <3>7, ConcatProperties
      <3>9. f[i] \o s[i + 1] = s[1] \o g[i]
        <4>1. PICK a : a = s[1]
          OBVIOUS
        <4>2. PICK b : b = g[i - 1]
          OBVIOUS
        <4>3. PICK c : c = s[i + 1]
          OBVIOUS
        <4>4. PICK x : x = f[i]
          OBVIOUS
        <4>5. PICK y : y = g[i]
          OBVIOUS
        <4>6. a \in Seq(T) /\ b \in Seq(T) /\ c \in Seq(T) /\ x = a \o b /\ y = b \o c
          BY <1>7, <3>3, <3>4, <3>7, <4>1, <4>2, <4>3, <4>4, <4>5
        <4>7. x \o c = a \o y
          BY ONLY <4>6, NextJoin
        <4> QED BY ONLY <4>1, <4>3, <4>4, <4>5, <4>7
      <3> QED BY <3>3, <3>8, <3>9
    <2>5. f[m + 1] = s[1] \o g[m]
      <3>1. m \notin bad
        BY <2>4
      <3>2. m \in Nat /\ m >= 1 /\ m <= m
        BY <2>1
      <3> QED BY <3>1, <3>2
    <2>6. m + 1 = n
      BY <1>3, <2>1
    <2> QED BY <1>2, <1>5, <2>2, <2>5, <2>6
  <1> QED BY <1>8, <1>9

-----------------------------------------------------------------------------
(* The pipe.                                                               *)

Id == Nat \cup {None}

Written(s) == \E S : s \in Seq(S) /\ \A x \in S : x.id \in Id

Ids(s) == [k \in DOMAIN s |-> s[k].id]

Owes(s) == [k \in DOMAIN s |-> Owed(s[k])]

LEMMA OwedType == ASSUME NEW x, x.id \in Id PROVE Owed(x) \in Seq(Id)
  <1>1. Null \in Id
    BY DEF Null, Id
  <1>2. << Null >> \in Seq(Id) /\ << x.id >> \in Seq(Id) /\ << >> \in Seq(Id)
    BY <1>1
  <1> QED BY <1>2 DEF Owed

LEMMA Mapped ==
    ASSUME NEW s, Written(s)
    PROVE  /\ Ids(s) \in Seq(Id) /\ Owes(s) \in Seq(Seq(Id))
           /\ Len(Ids(s)) = Len(s) /\ Len(Owes(s)) = Len(s) /\ Len(s) \in Nat
           /\ DOMAIN s = 1 .. Len(s)
           /\ \A k \in 1 .. Len(s) : /\ Ids(s)[k] = s[k].id /\ Owes(s)[k] = Owed(s[k])
                                     /\ s[k].id \in Id
  <1>1. PICK S : s \in Seq(S) /\ \A x \in S : x.id \in Id
    BY DEF Written
  <1>2. PICK n \in Nat : n = Len(s) /\ DOMAIN s = 1 .. n /\ \A k \in 1 .. n : s[k] \in S
    BY <1>1
  <1>3. \A k \in 1 .. n : s[k].id \in Id /\ Owed(s[k]) \in Seq(Id)
    BY <1>1, <1>2, OwedType
  <1>4. Ids(s) \in [1 .. n -> Id] /\ Owes(s) \in [1 .. n -> Seq(Id)]
    BY <1>2, <1>3 DEF Ids, Owes
  <1>5. Ids(s) \in Seq(Id) /\ Len(Ids(s)) = n
    BY <1>4
  <1>6. Owes(s) \in Seq(Seq(Id)) /\ Len(Owes(s)) = n
    BY <1>4
  <1>7. \A k \in 1 .. n : Ids(s)[k] = s[k].id /\ Owes(s)[k] = Owed(s[k])
    BY <1>2 DEF Ids, Owes
  <1> QED BY <1>2, <1>3, <1>5, <1>6, <1>7

LEMMA MappedAppend ==
    ASSUME NEW s, Written(s), NEW x, x.id \in Id, NEW t, t = Append(s, x)
    PROVE  /\ Written(t) /\ Ids(t) = Append(Ids(s), x.id) /\ Owes(t) = Append(Owes(s), Owed(x))
  <1>1. PICK S : s \in Seq(S) /\ \A y \in S : y.id \in Id
    BY DEF Written
  <1>2. PICK R : R = S \cup {x}
    OBVIOUS
  <1>3. s \in Seq(R) /\ x \in R /\ \A y \in R : y.id \in Id
    BY <1>1, <1>2, SeqMonotonic
  <1>4. t \in Seq(R) /\ Len(t) = Len(s) + 1 /\ t[Len(s) + 1] = x
        /\ \A i \in 1 .. Len(s) : t[i] = s[i]
    BY <1>3, AppendProperties
  <1>5. Written(t)
    BY <1>3, <1>4 DEF Written
  <1>6. PICK n \in Nat : n = Len(s)
    BY <1>3
  <1>7. /\ Ids(t) \in Seq(Id) /\ Len(Ids(t)) = n + 1 /\ Owes(t) \in Seq(Seq(Id)) /\ Len(Owes(t)) = n + 1
        /\ \A k \in 1 .. n + 1 : Ids(t)[k] = t[k].id /\ Owes(t)[k] = Owed(t[k])
    BY <1>4, <1>5, <1>6, Mapped
  <1>8. /\ Ids(s) \in Seq(Id) /\ Len(Ids(s)) = n /\ Owes(s) \in Seq(Seq(Id)) /\ Len(Owes(s)) = n
        /\ \A k \in 1 .. n : Ids(s)[k] = s[k].id /\ Owes(s)[k] = Owed(s[k])
    BY <1>6, Mapped
  <1>9. Ids(t) = Append(Ids(s), x.id)
    <2>1. PICK a : a = Append(Ids(s), x.id)
      OBVIOUS
    <2>2. a \in Seq(Id) /\ Len(a) = n + 1 /\ a[n + 1] = x.id /\ \A i \in 1 .. n : a[i] = Ids(s)[i]
      BY <1>8, <2>1, AppendProperties
    <2>3. \A i \in 1 .. n + 1 : a[i] = Ids(t)[i]
      <3> SUFFICES ASSUME NEW i \in 1 .. n + 1 PROVE a[i] = Ids(t)[i]
        OBVIOUS
      <3>1. i = n + 1 \/ i \in 1 .. n
        OBVIOUS
      <3> QED BY <1>4, <1>6, <1>7, <1>8, <2>2, <3>1
    <2> QED BY <1>7, <2>1, <2>2, <2>3, SeqEqual
  <1>10. Owes(t) = Append(Owes(s), Owed(x))
    <2>1. PICK a : a = Append(Owes(s), Owed(x))
      OBVIOUS
    <2>2. a \in Seq(Seq(Id)) /\ Len(a) = n + 1 /\ a[n + 1] = Owed(x)
          /\ \A i \in 1 .. n : a[i] = Owes(s)[i]
      BY <1>8, <2>1, OwedType, AppendProperties
    <2>3. \A i \in 1 .. n + 1 : a[i] = Owes(t)[i]
      <3> SUFFICES ASSUME NEW i \in 1 .. n + 1 PROVE a[i] = Owes(t)[i]
        OBVIOUS
      <3>1. i = n + 1 \/ i \in 1 .. n
        OBVIOUS
      <3> QED BY <1>4, <1>6, <1>7, <1>8, <2>2, <3>1
    <2> QED BY <1>7, <2>1, <2>2, <2>3, SeqEqual
  <1> QED BY <1>5, <1>9, <1>10

LEMMA MappedTail ==
    ASSUME NEW s, Written(s), s # << >>, NEW t, t = Tail(s)
    PROVE  /\ Written(t) /\ Ids(t) = Tail(Ids(s)) /\ Owes(t) = Tail(Owes(s))
           /\ Ids(s) # << >> /\ Owes(s) # << >> /\ Head(s).id \in Id
           /\ Ids(s)[1] = Head(s).id /\ Owes(s)[1] = Owed(Head(s))
  <1>1. PICK S : s \in Seq(S) /\ \A y \in S : y.id \in Id
    BY DEF Written
  <1>2. PICK n \in Nat : n = Len(s) /\ n # 0 /\ Head(s) = s[1]
    BY <1>1, EmptySeq
  <1>3. t \in Seq(S) /\ Len(t) = n - 1 /\ \A i \in 1 .. n - 1 : t[i] = s[i + 1]
    BY <1>1, <1>2, HeadTailProperties
  <1>4. Written(t)
    BY <1>1, <1>3 DEF Written
  <1>5. /\ Ids(t) \in Seq(Id) /\ Len(Ids(t)) = n - 1 /\ Owes(t) \in Seq(Seq(Id)) /\ Len(Owes(t)) = n - 1
        /\ \A k \in 1 .. n - 1 : Ids(t)[k] = t[k].id /\ Owes(t)[k] = Owed(t[k])
    BY <1>3, <1>4, Mapped
  <1>6. /\ Ids(s) \in Seq(Id) /\ Len(Ids(s)) = n /\ Owes(s) \in Seq(Seq(Id)) /\ Len(Owes(s)) = n
        /\ \A k \in 1 .. n : Ids(s)[k] = s[k].id /\ Owes(s)[k] = Owed(s[k]) /\ s[k].id \in Id
    BY <1>2, Mapped
  <1>7. Ids(s) # << >> /\ Owes(s) # << >>
    BY <1>2, <1>6, EmptySeq
  <1>8. \A k \in 1 .. n - 1 : k + 1 \in 1 .. n
    BY <1>2
  <1>9. Ids(t) = Tail(Ids(s))
    <2>1. PICK a : a = Tail(Ids(s))
      OBVIOUS
    <2>2. a \in Seq(Id) /\ Len(a) = n - 1 /\ \A i \in 1 .. n - 1 : a[i] = Ids(s)[i + 1]
      BY <1>6, <1>7, <2>1, HeadTailProperties
    <2>3. \A i \in 1 .. n - 1 : a[i] = Ids(t)[i]
      BY <1>3, <1>5, <1>6, <1>8, <2>2
    <2> QED BY <1>5, <2>1, <2>2, <2>3, SeqEqual
  <1>10. Owes(t) = Tail(Owes(s))
    <2>1. PICK a : a = Tail(Owes(s))
      OBVIOUS
    <2>2. a \in Seq(Seq(Id)) /\ Len(a) = n - 1 /\ \A i \in 1 .. n - 1 : a[i] = Owes(s)[i + 1]
      BY <1>6, <1>7, <2>1, HeadTailProperties
    <2>3. \A i \in 1 .. n - 1 : a[i] = Owes(t)[i]
      BY <1>3, <1>5, <1>6, <1>8, <2>2
    <2> QED BY <1>5, <2>1, <2>2, <2>3, SeqEqual
  <1>11. 1 \in 1 .. n
    BY <1>2
  <1> QED BY <1>2, <1>4, <1>6, <1>7, <1>9, <1>10, <1>11

-----------------------------------------------------------------------------
(* The answers.                                                            *)

Asked(j) == /\ j.pc # "idle" /\ {"pc", "line"} \subseteq DOMAIN j
            /\ j.line.id \in Id /\ Judged(j.line) = "page"

Outstanding == IF job = Idle THEN << >> ELSE Owed(Line)

AnswersInv ==
    /\ sent \in Nat /\ Written(in) /\ Written(out)
    /\ job = Idle \/ Asked(job)
    /\ AnswersInOrder

LEMMA InOrder == AnswersInOrder <=> owed = (Ids(out) \o Outstanding) \o FlattenSeq(Owes(in))
  BY DEF AnswersInOrder, Outstanding, Ids, Owes

LEMMA Joined ==
    ASSUME AnswersInv
    PROVE  /\ Ids(out) \in Seq(Id) /\ Outstanding \in Seq(Id) /\ FlattenSeq(Owes(in)) \in Seq(Id)
           /\ Owes(in) \in Seq(Seq(Id))
  <1>1. Ids(out) \in Seq(Id) /\ Owes(in) \in Seq(Seq(Id))
    BY Mapped DEF AnswersInv
  <1>2. FlattenSeq(Owes(in)) \in Seq(Id)
    <2>1. << >> \in Seq(Id)
      OBVIOUS
    <2> QED BY <1>1, <2>1, FlattenAppend
  <1>3. Outstanding \in Seq(Id)
    <2>1. CASE job = Idle
      BY <2>1 DEF Outstanding
    <2>2. CASE job # Idle
      <3>1. Owed(Line) \in Seq(Id)
        BY <2>2, OwedType DEF AnswersInv, Asked, Line
      <3> QED BY <2>2, <3>1 DEF Outstanding
    <2> QED BY <2>1, <2>2
  <1> QED BY <1>1, <1>2, <1>3

LEMMA PageOwed ==
    ASSUME NEW line, Judged(line) = "page"
    PROVE  Owed(line) = IF line.id = None THEN << >> ELSE << line.id >>
  <1>1. line.form \notin {"garbled", "scalar"}
    BY DEF Judged
  <1>2. line.form # "envelope"
    BY <1>1 DEF Judged
  <1> QED BY <1>1, <1>2 DEF Owed

(* An answer, or none to a notification.                                   *)
LEMMA AnswerOwed ==
    ASSUME AnswersInv, job # Idle, NEW kind, NEW page, Reply(kind, page),
           UNCHANGED <<in, sent, owed>>
    PROVE  AnswersInv'
  <1>1. job' = Idle /\ Asked(job)
    BY DEF Reply, AnswersInv
  <1>2. Owed(Line) = IF Line.id = None THEN << >> ELSE << Line.id >>
    BY <1>1, PageOwed DEF Asked, Line
  <1>3. owed = (Ids(out) \o Owed(Line)) \o FlattenSeq(Owes(in))
    BY InOrder DEF AnswersInv, Outstanding
  <1>4. Written(out) /\ Ids(out) \in Seq(Id) /\ FlattenSeq(Owes(in)) \in Seq(Id)
    BY Joined DEF AnswersInv
  <1>5. Written(out') /\ Ids(out') = Ids(out) \o Owed(Line)
    <2>1. CASE Line.id = None
      <3>1. out' = out
        BY <2>1 DEF Reply
      <3>2. Ids(out) \o << >> = Ids(out)
        BY <1>4, ConcatEmptySeq
      <3> QED BY <1>2, <1>4, <2>1, <3>1, <3>2
    <2>2. CASE Line.id # None
      <3>1. PICK x : x = [id |-> Line.id, kind |-> kind, page |-> page]
        OBVIOUS
      <3>2. out' = Append(out, x) /\ x.id = Line.id /\ x.id \in Id
        BY <1>1, <2>2, <3>1 DEF Reply, Answer, Asked, Line
      <3>3. Written(out') /\ Ids(out') = Append(Ids(out), x.id)
        <4>1. PICK t : t = out'
          OBVIOUS
        <4>2. Written(t) /\ Ids(t) = Append(Ids(out), x.id)
          BY <1>4, <3>2, <4>1, MappedAppend
        <4> QED BY <4>1, <4>2
      <3>4. Append(Ids(out), x.id) = Ids(out) \o << x.id >>
        BY <1>4, <3>2, AppendIsConcat
      <3> QED BY <1>2, <2>2, <3>2, <3>3, <3>4
    <2> QED BY <2>1, <2>2
  <1>6. Ids(out') \o << >> = Ids(out')
    <2>1. Ids(out') \in Seq(Id)
      BY <1>5, Mapped
    <2> QED BY <2>1, ConcatEmptySeq
  <1>7. AnswersInOrder'
    <2>1. owed' = (Ids(out') \o Outstanding') \o FlattenSeq(Owes(in'))
      BY <1>1, <1>3, <1>5, <1>6 DEF Outstanding
    <2> QED BY <2>1 DEF AnswersInOrder, Outstanding, Ids, Owes
  <1> QED BY <1>1, <1>5, <1>7 DEF AnswersInv

(* A step on the way to an answer.                                         *)
LEMMA StillOwed ==
    ASSUME AnswersInv, job # Idle, job' # Idle, Asked(job'), job'.line = job.line,
           UNCHANGED <<in, sent, owed, out>>
    PROVE  AnswersInv'
  <1>1. AnswersInOrder'
    BY DEF AnswersInv, AnswersInOrder, Line
  <1> QED BY <1>1 DEF AnswersInv

LEMMA ReadOwed == AnswersInv /\ Read => AnswersInv'
  <1> SUFFICES ASSUME AnswersInv, Read PROVE AnswersInv'
    OBVIOUS
  <1>1. PICK line : line = Head(in)
    OBVIOUS
  <1>2. /\ job = Idle /\ in # << >> /\ in' = Tail(in) /\ owed' = owed /\ sent' = sent
        /\ job' = IF Judged(line) = "page" THEN [pc |-> "begin", line |-> line] ELSE Idle
        /\ IF Judged(line) \in {"silent", "page"} THEN out' = out
           ELSE out' = Append(out, [id |-> IF Judged(line) = "null" THEN Null ELSE line.id,
                                    kind |-> Judged(line), page |-> None])
    BY <1>1 DEF Read, Answer
  <1>3. /\ Written(in) /\ Written(out) /\ Ids(out) \in Seq(Id)
        /\ FlattenSeq(Owes(in)) \in Seq(Id) /\ Owes(in) \in Seq(Seq(Id))
    BY Joined DEF AnswersInv
  <1>4. PICK t : t = in'
    OBVIOUS
  <1>5. /\ Written(t) /\ Owes(t) = Tail(Owes(in)) /\ Owes(in) # << >>
        /\ Owes(in)[1] = Owed(line) /\ line.id \in Id
    BY <1>1, <1>2, <1>3, <1>4, MappedTail
  <1>6. PICK rest \in Seq(Id) : rest = FlattenSeq(Owes(t))
    <2>1. Owes(t) \in Seq(Seq(Id))
      BY <1>5, Mapped
    <2>2. << >> \in Seq(Id)
      OBVIOUS
    <2> QED BY <2>1, <2>2, FlattenAppend
  <1>7. PICK due \in Seq(Id) : due = Owed(line)
    BY <1>5, OwedType
  <1>8. FlattenSeq(Owes(in)) = due \o rest
    BY <1>3, <1>5, <1>6, <1>7, FlattenTail
  <1>9. PICK ids \in Seq(Id) : ids = Ids(out)
    BY <1>3
  <1>10. owed = (ids \o due) \o rest
    <2>1. owed = (ids \o << >>) \o (due \o rest)
      BY <1>2, <1>8, <1>9, InOrder DEF AnswersInv, Outstanding
    <2>2. ids \o << >> = ids /\ (ids \o due) \o rest = ids \o (due \o rest)
      BY ConcatEmptySeq, ConcatAssociative
    <2> QED BY <2>1, <2>2
  <1>11. CASE Judged(line) = "page"
    <2>1. job' = [pc |-> "begin", line |-> line] /\ out' = out
      BY <1>2, <1>11
    <2>2. job' # Idle /\ Asked(job') /\ job'.line = line
      <3>1. job'.pc = "begin" /\ job'.line = line /\ {"pc", "line"} \subseteq DOMAIN job'
        BY <2>1
      <3>2. Idle.pc = "idle"
        BY DEF Idle
      <3> QED BY <1>5, <1>11, <3>1, <3>2 DEF Asked
    <2>3. AnswersInOrder'
      <3>1. Outstanding' = due
        BY <1>7, <2>2 DEF Outstanding, Line
      <3>2. owed' = (Ids(out') \o Outstanding') \o FlattenSeq(Owes(in'))
        BY <1>2, <1>4, <1>6, <1>9, <1>10, <2>1, <3>1
      <3> QED BY <3>2 DEF AnswersInOrder, Outstanding, Ids, Owes
    <2> QED BY <1>2, <1>3, <1>4, <1>5, <2>1, <2>2, <2>3 DEF AnswersInv
  <1>12. CASE Judged(line) # "page"
    <2>1. job' = Idle
      BY <1>2, <1>12
    <2>2. Written(out') /\ Ids(out') = ids \o due
      <3>1. CASE Judged(line) = "silent"
        <4>1. due = << >>
          BY <1>7, <3>1 DEF Judged, Owed
        <4>2. ids \o << >> = ids
          BY ConcatEmptySeq
        <4> QED BY <1>2, <1>3, <1>9, <3>1, <4>1, <4>2
      <3>2. CASE Judged(line) # "silent"
        <4>1. PICK x : x = [id |-> IF Judged(line) = "null" THEN Null ELSE line.id,
                            kind |-> Judged(line), page |-> None]
          OBVIOUS
        <4>2. out' = Append(out, x)
          BY <1>2, <1>12, <3>2, <4>1
        <4>3. x.id = IF Judged(line) = "null" THEN Null ELSE line.id
          BY <4>1
        <4>4. due = << x.id >>
          <5>1. CASE Judged(line) = "null"
            <6>1. \/ line.form \in {"garbled", "scalar"} 
                  \/ line.form = "envelope" /\ line.id = None
              BY <5>1 DEF Judged
            <6> QED BY <1>7, <4>3, <5>1, <6>1 DEF Owed
          <5>2. CASE Judged(line) # "null"
            <6>1. /\ line.form \notin {"garbled", "scalar"} /\ line.id # None
              BY <1>12, <3>2, <5>2 DEF Judged
            <6> QED BY <1>7, <4>3, <5>2, <6>1 DEF Owed
          <5> QED BY <5>1, <5>2
        <4>5. x.id \in Id
          <5>1. Null \in Id
            BY DEF Null, Id
          <5> QED BY <1>5, <4>3, <5>1
        <4>6. PICK o : o = out'
          OBVIOUS
        <4>7. Written(o) /\ Ids(o) = Append(Ids(out), x.id)
          BY <1>3, <4>2, <4>5, <4>6, MappedAppend
        <4>8. Append(ids, x.id) = ids \o << x.id >>
          BY <4>5, AppendIsConcat
        <4> QED BY <1>9, <4>4, <4>6, <4>7, <4>8
      <3> QED BY <3>1, <3>2
    <2>3. AnswersInOrder'
      <3>1. Ids(out') \o << >> = Ids(out')
        <4>1. ids \o due \in Seq(Id)
          BY ConcatProperties
        <4> QED BY <2>2, <4>1, ConcatEmptySeq
      <3>2. owed' = (Ids(out') \o Outstanding') \o FlattenSeq(Owes(in'))
        BY <1>2, <1>4, <1>6, <1>10, <2>1, <2>2, <3>1 DEF Outstanding
      <3> QED BY <3>2 DEF AnswersInOrder, Outstanding, Ids, Owes
    <2> QED BY <1>2, <1>4, <1>5, <2>1, <2>2, <2>3 DEF AnswersInv
  <1> QED BY <1>11, <1>12

(* A line written.                                                         *)
LEMMA SendOwed ==
    ASSUME AnswersInv, NEW line, line.id \in Id, Send(line), UNCHANGED <<job, out>>
    PROVE  AnswersInv'
  <1>1. in' = Append(in, line) /\ owed' = owed \o Owed(line) /\ sent' \in Nat
    BY DEF Send, AnswersInv
  <1>2. PICK t : t = in'
    OBVIOUS
  <1>3. Written(in) /\ Owes(in) \in Seq(Seq(Id)) /\ FlattenSeq(Owes(in)) \in Seq(Id)
        /\ Ids(out) \in Seq(Id) /\ Outstanding \in Seq(Id)
    BY Joined DEF AnswersInv
  <1>4. Written(t) /\ Owes(t) = Append(Owes(in), Owed(line)) /\ Owed(line) \in Seq(Id)
    BY <1>1, <1>2, <1>3, MappedAppend, OwedType
  <1>5. FlattenSeq(Owes(t)) = FlattenSeq(Owes(in)) \o Owed(line)
    BY <1>3, <1>4, FlattenAppend
  <1>6. PICK a \in Seq(Id) : a = Ids(out) \o Outstanding
    BY <1>3, ConcatProperties
  <1>7. PICK b \in Seq(Id) : b = FlattenSeq(Owes(in))
    BY <1>3
  <1>8. PICK c \in Seq(Id) : c = Owed(line)
    BY <1>4
  <1>9. (a \o b) \o c = a \o (b \o c)
    BY ConcatAssociative
  <1>10. owed = a \o b
    BY <1>6, <1>7, InOrder DEF AnswersInv
  <1>11. owed' = a \o FlattenSeq(Owes(in'))
    BY <1>1, <1>2, <1>5, <1>7, <1>8, <1>9, <1>10
  <1>12. AnswersInOrder'
    <2>1. Ids(out') = Ids(out) /\ Outstanding' = Outstanding
      BY DEF Outstanding, Line
    <2>2. owed' = (Ids(out') \o Outstanding') \o FlattenSeq(Owes(in'))
      BY <1>6, <1>11, <2>1
    <2> QED BY <2>2 DEF AnswersInOrder, Outstanding, Ids, Owes
  <1> QED BY <1>1, <1>2, <1>4, <1>12 DEF AnswersInv

(* An answer read.                                                         *)
LEMMA ReceiveOwed == AnswersInv /\ Receive => AnswersInv'
  <1> SUFFICES ASSUME AnswersInv, Receive PROVE AnswersInv'
    OBVIOUS
  <1>1. out # << >> /\ out' = Tail(out) /\ owed' = Tail(owed) /\ UNCHANGED <<in, sent, job>>
    BY DEF Receive
  <1>2. /\ Written(out) /\ Ids(out) \in Seq(Id) /\ Outstanding \in Seq(Id)
        /\ FlattenSeq(Owes(in)) \in Seq(Id)
    BY Joined DEF AnswersInv
  <1>3. PICK t : t = out'
    OBVIOUS
  <1>4. Written(t) /\ Ids(t) = Tail(Ids(out)) /\ Ids(out) # << >>
    BY <1>1, <1>2, <1>3, MappedTail
  <1>5. PICK a \in Seq(Id) : a = Ids(out) /\ a # << >>
    BY <1>2, <1>4
  <1>6. PICK b \in Seq(Id) : b = Outstanding
    BY <1>2
  <1>7. PICK c \in Seq(Id) : c = FlattenSeq(Owes(in))
    BY <1>2
  <1>8. Tail((a \o b) \o c) = (Tail(a) \o b) \o c
    <2>1. \A x, y \in Seq(Id) : x # << >> => Tail(x \o y) = Tail(x) \o y /\ x \o y # << >>
      <3> SUFFICES ASSUME NEW x \in Seq(Id), NEW y \in Seq(Id), x # << >>
                   PROVE  Tail(x \o y) = Tail(x) \o y /\ x \o y # << >>
        OBVIOUS
      <3>1. PICK xy \in Seq(Id) : xy = x \o y
        BY ConcatProperties
      <3>2. /\ Len(xy) = Len(x) + Len(y)
            /\ \A i \in 1 .. Len(x) + Len(y) : xy[i] = IF i <= Len(x) THEN x[i] ELSE y[i - Len(x)]
        BY <3>1, ConcatProperties
      <3>3. Len(x) \in Nat /\ Len(y) \in Nat /\ Len(x) # 0 /\ xy # << >>
        BY <3>2, EmptySeq
      <3>4. PICK z \in Seq(Id) : z = Tail(x) /\ Len(z) = Len(x) - 1
                                 /\ \A i \in 1 .. Len(z) : z[i] = x[i + 1]
        BY HeadTailProperties
      <3>5. PICK u \in Seq(Id) : u = Tail(xy) /\ Len(u) = Len(xy) - 1
                                 /\ \A i \in 1 .. Len(u) : u[i] = xy[i + 1]
        BY <3>3, HeadTailProperties
      <3>6. PICK v \in Seq(Id) : v = z \o y /\ Len(v) = Len(z) + Len(y)
              /\ \A i \in 1 .. Len(z) + Len(y) : v[i] = IF i <= Len(z) THEN z[i] ELSE y[i - Len(z)]
        <4>1. PICK v : v = z \o y
          OBVIOUS
        <4>2. v \in Seq(Id) /\ Len(v) = Len(z) + Len(y)
              /\ \A i \in 1 .. Len(z) + Len(y) : v[i] = IF i <= Len(z) THEN z[i] ELSE y[i - Len(z)]
          BY <4>1, ConcatProperties
        <4> QED BY <4>1, <4>2
      <3>7. \A i \in 1 .. Len(u) : u[i] = v[i]
        <4> SUFFICES ASSUME NEW i \in 1 .. Len(u) PROVE u[i] = v[i]
          OBVIOUS
        <4>1. i \in 1 .. Len(z) + Len(y) /\ i + 1 \in 1 .. Len(x) + Len(y) /\ i \in Nat
          BY <3>2, <3>3, <3>4, <3>5
        <4>2. CASE i <= Len(z)
          <5>1. i + 1 <= Len(x) /\ i \in 1 .. Len(z)
            BY <3>3, <3>4, <4>1, <4>2
          <5> QED BY <3>2, <3>4, <3>5, <3>6, <4>1, <4>2, <5>1
        <4>3. CASE ~ (i <= Len(z))
          <5>1. ~ (i + 1 <= Len(x)) /\ (i + 1) - Len(x) = i - Len(z)
            BY <3>3, <3>4, <4>1, <4>3
          <5> QED BY <3>2, <3>5, <3>6, <4>1, <4>3, <5>1
        <4> QED BY <4>2, <4>3
      <3>8. Len(u) = Len(v)
        BY <3>2, <3>3, <3>4, <3>5, <3>6
      <3> QED BY <3>1, <3>3, <3>4, <3>5, <3>6, <3>7, <3>8, SeqEqual
    <2>2. a \o b \in Seq(Id) /\ a \o b # << >> /\ Tail(a \o b) = Tail(a) \o b
      BY <1>5, <2>1, ConcatProperties
    <2> QED BY <2>1, <2>2
  <1>9. owed = (a \o b) \o c
    BY <1>5, <1>6, <1>7, InOrder DEF AnswersInv
  <1>10. AnswersInOrder'
    <2>1. Outstanding' = Outstanding
      BY <1>1 DEF Outstanding, Line
    <2>2. owed' = (Ids(out') \o Outstanding') \o FlattenSeq(Owes(in'))
      BY <1>1, <1>3, <1>4, <1>5, <1>6, <1>7, <1>8, <1>9, <2>1
    <2> QED BY <2>2 DEF AnswersInOrder, Outstanding, Ids, Owes
  <1> QED BY <1>1, <1>3, <1>4, <1>10 DEF AnswersInv

Replied == \E kind, page : Reply(kind, page)

LEMMA RepliedOwed ==
    ASSUME AnswersInv, job # Idle, Replied, UNCHANGED <<in, sent, owed>> PROVE AnswersInv'
  BY AnswerOwed DEF Replied

LEMMA RefusedReplies == ASSUME NEW some, Refuse(some) PROVE Replied
  BY DEF Refuse, Replied

LEMMA ServerOwed ==
    ASSUME AnswersInv,
           BeginContinued \/ BeginExport \/ BeginHistory \/ RereadHistory \/ ReadPage
           \/ OpenAgain \/ FinishPage
    PROVE  AnswersInv'
  <1>1. UNCHANGED <<in, sent, owed>>
    BY DEF BeginContinued, BeginExport, BeginHistory, RereadHistory, ReadPage, OpenAgain,
           FinishPage, Unasked, client
  <1>2. job # Idle
    BY DEF BeginContinued, BeginExport, BeginHistory, RereadHistory, ReadPage, OpenAgain,
           FinishPage, Idle
  <1>3. Asked(job)
    BY <1>2 DEF AnswersInv
  <1> DEFINE OnTheWay ==
        /\ job' # Idle /\ Asked(job') /\ job'.line = job.line /\ out' = out
  <1>4. ASSUME OnTheWay PROVE AnswersInv'
    BY <1>1, <1>2, <1>4, StillOwed
  <1>5. ASSUME Replied PROVE AnswersInv'
    BY <1>1, <1>2, <1>5, RepliedOwed
  <1>6. ASSUME NEW pc \in {"again", "final"}, job' = [job EXCEPT !.pc = pc], out' = out
        PROVE  OnTheWay
    <2>1. job'.pc = pc /\ job'.line = job.line /\ DOMAIN job' = DOMAIN job
      BY <1>3, <1>6 DEF Asked
    <2>2. job' # Idle
      BY <2>1 DEF Idle
    <2> QED BY <1>3, <1>6, <2>1, <2>2 DEF Asked
  <1>7. CASE BeginContinued
    <2>1. CASE \E kind, page : Reply(kind, page)
      BY <1>5, <2>1 DEF Replied
    <2>2. CASE ~ \E kind, page : Reply(kind, page)
      <3>1. PICK export, e, at, rewritten :
              job' = [pc |-> "identity", line |-> Line, export |-> export, e |-> e, at |-> at,
                      rewritten |-> rewritten] /\ out' = out
        BY <1>7, <2>2 DEF BeginContinued, Refuse, Replay
      <3>2. job'.pc = "identity" /\ job'.line = job.line /\ {"pc", "line"} \subseteq DOMAIN job'
        BY <3>1 DEF Line
      <3>3. OnTheWay
        BY <1>3, <3>1, <3>2 DEF Asked, Idle
      <3> QED BY <1>4, <3>3
    <2> QED BY <2>1, <2>2
  <1>8. CASE BeginExport
    <2>1. CASE \E kind, page : Reply(kind, page)
      BY <1>5, <2>1 DEF Replied
    <2>2. CASE ~ \E kind, page : Reply(kind, page)
      <3>1. PICK export, e, at, rewritten :
              job' = [pc |-> "identity", line |-> Line, export |-> export, e |-> e, at |-> at,
                      rewritten |-> rewritten] /\ out' = out
        BY <1>8, <2>2 DEF BeginExport, Refuse
      <3>2. job'.pc = "identity" /\ job'.line = job.line /\ {"pc", "line"} \subseteq DOMAIN job'
        BY <3>1 DEF Line
      <3>3. OnTheWay
        BY <1>3, <3>1, <3>2 DEF Asked, Idle
      <3> QED BY <1>4, <3>3
    <2> QED BY <2>1, <2>2
  <1>9. CASE BeginHistory
    <2>1. CASE \E kind, page : Reply(kind, page)
      BY <1>5, <2>1 DEF Replied
    <2>2. CASE ~ \E kind, page : Reply(kind, page)
      <3>1. PICK export, e, at, text :
              job' = [pc |-> "reread", line |-> Line, export |-> export, e |-> e, at |-> at,
                      text |-> text] /\ out' = out
        BY <1>9, <2>2 DEF BeginHistory, Refuse
      <3>2. job'.pc = "reread" /\ job'.line = job.line /\ {"pc", "line"} \subseteq DOMAIN job'
        BY <3>1 DEF Line
      <3>3. OnTheWay
        BY <1>3, <3>1, <3>2 DEF Asked, Idle
      <3> QED BY <1>4, <3>3
    <2> QED BY <2>1, <2>2
  <1>10. CASE RereadHistory
    <2>1. Replied
      BY <1>10 DEF RereadHistory, Refuse, Replied
    <2> QED BY <1>5, <2>1
  <1>11. CASE ReadPage
    <2>1. Replied \/ (job' = [job EXCEPT !.pc = "again"] /\ out' = out)
      BY <1>11 DEF ReadPage, Refuse, Replied
    <2> QED BY <1>4, <1>5, <1>6, <2>1
  <1>12. CASE OpenAgain
    <2>1. Replied \/ (job' = [job EXCEPT !.pc = "final"] /\ out' = out)
      BY <1>12 DEF OpenAgain, Refuse, Replied
    <2> QED BY <1>4, <1>5, <1>6, <2>1
  <1>13. CASE FinishPage
    <2>1. Replied
      BY <1>13 DEF FinishPage, Refuse, TooLong, Replied
    <2> QED BY <1>5, <2>1
  <1> QED BY <1>7, <1>8, <1>9, <1>10, <1>11, <1>12, <1>13

LEMMA BlankWith ==
    ASSUME NEW id, NEW f, NEW m, NEW c, NEW l
    PROVE  /\ [Blank EXCEPT !.form = f, !.method = m, !.id = id].id = id
           /\ [Blank EXCEPT !.method = m, !.id = id, !.cursor = c, !.limit = l].id = id
  BY DEF Blank

LEMMA ClientOwed ==
    ASSUME AnswersInv, SendAny \/ AskPage PROVE AnswersInv'
  <1>1. ASSUME NEW id \in {None, sent + 1} PROVE id \in Id
    BY DEF AnswersInv, Id
  <1>2. CASE SendAny
    <2>1. PICK form \in Forms, method \in {"ping", "unknown"}, id \in {None, sent + 1} :
            Send([Blank EXCEPT !.form = form, !.method = method, !.id = id])
      BY <1>2 DEF SendAny
    <2>2. PICK line : line = [Blank EXCEPT !.form = form, !.method = method, !.id = id]
      OBVIOUS
    <2>3. Send(line) /\ line.id \in Id
      BY <1>1, <2>1, <2>2, BlankWith
    <2>4. UNCHANGED <<job, out>>
      BY <1>2 DEF SendAny
    <2> QED BY <2>3, <2>4, SendOwed
  <1>3. CASE AskPage
    <2>1. PICK limit \in Limits, id \in {None, sent + 1}, raw \in BOOLEAN :
            Send([Blank EXCEPT !.method = IF raw THEN "list" ELSE "history",
                               !.id = id, !.cursor = got.cursor, !.limit = limit])
      BY <1>3 DEF AskPage
    <2>2. PICK line : line = [Blank EXCEPT !.method = IF raw THEN "list" ELSE "history",
                               !.id = id, !.cursor = got.cursor, !.limit = limit]
      OBVIOUS
    <2>3. Send(line) /\ line.id \in Id
      BY <1>1, <2>1, <2>2, BlankWith
    <2>4. UNCHANGED <<job, out>>
      BY <1>3 DEF AskPage
    <2> QED BY <2>3, <2>4, SendOwed
  <1> QED BY <1>2, <1>3

LEMMA AnswersBegin == Init => AnswersInv
  <1> SUFFICES ASSUME Init PROVE AnswersInv
    OBVIOUS
  <1>1. sent \in Nat /\ in = << >> /\ out = << >> /\ job = Idle /\ owed = << >>
    BY DEF Init
  <1>2. Written(<< >>)
    <2>1. PICK none : none = {}
      OBVIOUS
    <2>2. << >> \in Seq(none) /\ \A x \in none : x.id \in Id
      BY <2>1
    <2> QED BY <2>2 DEF Written
  <1>3. Ids(out) = << >> /\ Owes(in) = << >>
    <2>1. /\ Ids(out) \in Seq(Id) /\ Len(Ids(out)) = Len(out)
          /\ Owes(in) \in Seq(Seq(Id)) /\ Len(Owes(in)) = Len(in)
      BY <1>1, <1>2, Mapped
    <2>2. Len(out) = 0 /\ Len(in) = 0
      BY <1>1
    <2> QED BY <2>1, <2>2, EmptySeq
  <1>4. FlattenSeq(<< >>) = << >>
    <2>1. Len(<< >>) \in Nat /\ Len(<< >>) = 0
      OBVIOUS
    <2> QED BY <2>1, FlattenJoins
  <1>5. (<< >> \o << >>) \o << >> = << >>
    OBVIOUS
  <1>6. AnswersInOrder
    BY <1>1, <1>3, <1>4, <1>5, InOrder DEF Outstanding
  <1> QED BY <1>1, <1>2, <1>6 DEF AnswersInv

LEMMA AnswersGoOn == AnswersInv /\ [Next]_vars => AnswersInv'
  <1> SUFFICES ASSUME AnswersInv, [Next]_vars PROVE AnswersInv'
    OBVIOUS
  <1>1. ASSUME UNCHANGED <<job, client, out>> PROVE AnswersInv'
    BY <1>1 DEF AnswersInv, AnswersInOrder, Line, client
  <1>2. CASE Read
    BY <1>2, ReadOwed
  <1>3. CASE BeginContinued \/ BeginExport \/ BeginHistory \/ RereadHistory \/ ReadPage
             \/ OpenAgain \/ FinishPage
    BY <1>3, ServerOwed
  <1>4. CASE SendAny \/ AskPage
    BY <1>4, ClientOwed
  <1>5. CASE Receive
    BY <1>5, ReceiveOwed
  <1>6. CASE Age \/ AppendUnit \/ Rename \/ Rewrite \/ Reconfigure \/ UNCHANGED vars
    <2>1. UNCHANGED <<job, client, out>>
      BY <1>6 DEF Age, AppendUnit, Rename, Rewrite, Reconfigure, Change, vars
    <2> QED BY <1>1, <2>1
  <1> QED BY <1>2, <1>3, <1>4, <1>5, <1>6 DEF Next, Server

(* The answers written are the ones the client is owed, in its order: one  *)
(* under its id to every request, none to a notification, one under null   *)
(* to what is no request (Serve, handle, reply).                           *)
THEOREM AnswersStand == Spec => []AnswersInOrder
  <1>1. Init => AnswersInv
    BY AnswersBegin
  <1>2. AnswersInv /\ [Next]_vars => AnswersInv'
    BY AnswersGoOn
  <1>3. AnswersInv => AnswersInOrder
    BY DEF AnswersInv
  <1> QED BY <1>1, <1>2, <1>3, PTL DEF Spec

-----------------------------------------------------------------------------
(* The files.                                                              *)

Unit == [of : Nat, end : BOOLEAN]

FilesKept ==
    /\ changes \in Nat
    /\ store \in [Inode -> Seq(Unit)]
    /\ named \in [Index -> Inode \cup {None}]

LEMMA FilesBegin == Init => FilesKept
  BY FilesAssumption DEF Init, FilesKept, Unit

LEMMA TextIs == ASSUME FilesKept, NEW i \in Index PROVE Text(named[i]) \in Seq(Unit)
  <1>1. << >> \in Seq(Unit)
    OBVIOUS
  <1>2. CASE named[i] = None
    BY <1>1, <1>2 DEF Text
  <1>3. CASE named[i] # None
    BY <1>3 DEF Text, FilesKept
  <1> QED BY <1>2, <1>3

LEMMA UnitsAre == ASSUME NEW u \in Units PROVE u \in Unit
  <1>1. << u >> \in Seq(Unit)
    BY FilesAssumption DEF Unit
  <1>2. PICK s : s = << u >>
    OBVIOUS
  <1>3. s \in Seq(Unit) /\ Len(s) = 1 /\ s[1] = u
    BY <1>1, <1>2
  <1> QED BY <1>3

LEMMA FilesChange ==
    ASSUME FilesKept, AppendUnit \/ Rename \/ Rewrite \/ Reconfigure
    PROVE  FilesKept' /\ changes' = changes + 1
  <1>1. changes' = changes + 1 /\ changes' \in Nat
    BY DEF AppendUnit, Rename, Rewrite, Reconfigure, Change, FilesKept
  <1>2. CASE AppendUnit
    <2>1. PICK i \in Index, u \in Units :
            /\ named[i] # None /\ store' = [store EXCEPT ![named[i]] = Append(@, u)]
            /\ named' = named
      BY <1>2 DEF AppendUnit
    <2>2. named[i] \in Inode /\ store[named[i]] \in Seq(Unit) /\ u \in Unit
      BY <2>1, UnitsAre DEF FilesKept
    <2>3. Append(store[named[i]], u) \in Seq(Unit)
      BY <2>2, AppendProperties
    <2> QED BY <1>1, <2>1, <2>2, <2>3 DEF FilesKept
  <1>3. CASE Rename
    <2>1. PICK i \in Index, n \in Inode \cup {None} :
            named' = [named EXCEPT ![i] = n] /\ store' = store
      BY <1>3 DEF Rename
    <2> QED BY <1>1, <2>1 DEF FilesKept
  <1>4. CASE Rewrite
    <2>1. PICK i \in Index :
            /\ named[i] # None /\ named' = named
            /\ \/ \E k \in 0 .. Len(Text(named[i])) - 1 :
                    store' = [store EXCEPT ![named[i]] = SubSeq(@, 1, k)]
               \/ \E k \in DOMAIN Text(named[i]), u \in Units :
                    store' = [store EXCEPT ![named[i]][k] = u]
      BY <1>4 DEF Rewrite
    <2>2. named[i] \in Inode /\ store[named[i]] \in Seq(Unit) /\ Text(named[i]) = store[named[i]]
      BY <2>1 DEF FilesKept, Text
    <2>3. ASSUME NEW k \in 0 .. Len(Text(named[i])) - 1,
                 store' = [store EXCEPT ![named[i]] = SubSeq(@, 1, k)]
          PROVE  store' \in [Inode -> Seq(Unit)]
      <3>1. PICK s : s = store[named[i]]
        OBVIOUS
      <3>2. s \in Seq(Unit) /\ Len(s) \in Nat /\ k \in Nat /\ k <= Len(s)
        BY <2>2, <3>1
      <3>3. \A j \in 1 .. k : s[j] \in Unit
        BY <3>2
      <3>4. SubSeq(s, 1, k) \in Seq(Unit)
        BY <3>2, <3>3
      <3> QED BY <2>2, <2>3, <3>1, <3>4 DEF FilesKept
    <2>4. ASSUME NEW k \in DOMAIN Text(named[i]), NEW u \in Units,
                 store' = [store EXCEPT ![named[i]][k] = u]
          PROVE  store' \in [Inode -> Seq(Unit)]
      <3>1. PICK s : s = store[named[i]]
        OBVIOUS
      <3>2. s \in Seq(Unit) /\ k \in DOMAIN s /\ u \in Unit
        BY <2>2, <3>1, UnitsAre
      <3>3. [s EXCEPT ![k] = u] \in Seq(Unit)
        BY <3>2
      <3>4. store' = [store EXCEPT ![named[i]] = [s EXCEPT ![k] = u]]
        BY <2>4, <3>1
      <3> QED BY <2>2, <3>3, <3>4 DEF FilesKept
    <2> QED BY <1>1, <2>1, <2>3, <2>4 DEF FilesKept
  <1>5. CASE Reconfigure
    BY <1>1, <1>5 DEF Reconfigure, FilesKept
  <1> QED BY <1>2, <1>3, <1>4, <1>5

(* What is checked before the last page: every block of every file.        *)
LEMMA BlocksHeld ==
    ASSUME FilesKept, NEW e, \A i \in Index : e.text[i] \in Seq(Unit),
           SameFiles(e, named), AllBlocksStand(e, named)
    PROVE  Held(e)
  <1> SUFFICES ASSUME NEW i \in Index
               PROVE  e.ids[i] = named[i] /\ IsPrefix(e.text[i], Text(named[i]))
    BY DEF Held
  <1>1. PICK s \in Seq(Unit) : s = e.text[i]
    OBVIOUS
  <1>2. PICK t \in Seq(Unit) : t = Text(named[i])
    BY TextIs
  <1>3. e.ids[i] = named[i] /\ Len(t) >= Len(s)
    BY <1>1, <1>2 DEF SameFiles
  <1>4. ASSUME NEW p \in DOMAIN s PROVE t[p] = s[p]
    <2>1. BlockOf(p) \in {BlockOf(q) : q \in DOMAIN e.text[i]} /\ p \in DOMAIN e.text[i]
      BY <1>1, <1>4
    <2>2. BlockStands(e, i, named, BlockOf(p))
      BY <2>1 DEF AllBlocksStand
    <2> QED BY <1>1, <1>2, <2>1, <2>2 DEF BlockStands
  <1>5. SubSeq(s, 1, Len(s)) = SubSeq(t, 1, Len(s))
    <2>1. PICK n \in Nat : n = Len(s) /\ DOMAIN s = 1 .. n /\ n <= Len(t) /\ Len(t) \in Nat
      BY <1>3
    <2>2. PICK a : a = SubSeq(s, 1, n)
      OBVIOUS
    <2>3. PICK b : b = SubSeq(t, 1, n)
      OBVIOUS
    <2>4. a \in Seq(Unit) /\ Len(a) = n /\ \A j \in 1 .. n : a[j] = s[j]
      BY <2>1, <2>2
    <2>5. b \in Seq(Unit) /\ Len(b) = n /\ \A j \in 1 .. n : b[j] = t[j]
      BY <2>1, <2>3
    <2>6. \A j \in 1 .. n : a[j] = b[j]
      BY <1>4, <2>1, <2>4, <2>5
    <2> QED BY <2>1, <2>2, <2>3, <2>4, <2>5, <2>6, SeqEqual
  <1> QED BY <1>1, <1>2, <1>3, <1>5 DEF IsPrefix

-----------------------------------------------------------------------------
(* The exports.                                                            *)

Captured(e) == {"raw", "text"} \subseteq DOMAIN e /\ \A i \in Index : e.text[i] \in Seq(Unit)

Exported(e) == "raw" \in DOMAIN e /\ (e.raw = TRUE => Captured(e))

AllExported(some) == \A id \in DOMAIN some : Exported(some[id])

LEMMA GivenSame ==
    ASSUME NEW e, NEW page
    PROVE  /\ DOMAIN Given(e, page) = DOMAIN e
           /\ \A f \in {"raw", "text"} \cap DOMAIN e : Given(e, page)[f] = e[f]
  BY DEF Given

LEMMA PageCaptured ==
    ASSUME NEW e, NEW id, NEW limit, Captured(e) PROVE Captured(PageOf(e, id, limit).export)
  <1>1. PICK f : f = PageOf(e, id, limit).export
    OBVIOUS
  <1>2. PICK page : page = PageOf(e, id, limit).page
    OBVIOUS
  <1>3. PICK on : on = Given(e, page)
    OBVIOUS
  <1>4. DOMAIN on = DOMAIN e /\ on.raw = e.raw /\ on.text = e.text
    BY <1>3, GivenSame DEF Captured
  <1>5. PICK end : end = PageEnd(e, limit)
    OBVIOUS
  <1>6. PICK lines : lines = PageLines(e, end)
    OBVIOUS
  <1>7. f = IF end = Len(e.text[e.file]) /\ ~ page.complete
            THEN [on EXCEPT !.file = @ + 1, !.offset = 0, !.cached = None,
                            !.line = << >>, !.lineOffset = 0]
            ELSE [on EXCEPT !.offset = end, !.line = lines.line,
                            !.lineOffset = lines.lineOffset,
                            !.cached = IF end = e.offset THEN @ ELSE BlockOf(end)]
    <2>1. page.complete = (end = Len(e.text[e.file]) /\ e.file = FileCount)
      BY <1>2, <1>5 DEF PageOf
    <2> QED BY <1>1, <1>2, <1>3, <1>5, <1>6, <2>1 DEF PageOf
  <1>8. DOMAIN f = DOMAIN e /\ f.raw = e.raw /\ f.text = e.text
    BY <1>4, <1>7 DEF Captured
  <1> QED BY <1>1, <1>8 DEF Captured

LEMMA HistoryPageExported ==
    ASSUME NEW e, NEW id, NEW limit, Exported(e)
    PROVE  Exported(HistoryPageOf(e, id, limit).export)
  <1>1. DOMAIN HistoryPageOf(e, id, limit).export = DOMAIN e
    BY GivenSame DEF HistoryPageOf
  <1>2. \A f \in {"raw", "text"} \cap DOMAIN e : HistoryPageOf(e, id, limit).export[f] = e[f]
    BY GivenSame DEF HistoryPageOf
  <1> QED BY <1>1, <1>2 DEF Exported, Captured

LEMMA WithExported ==
    ASSUME NEW some, NEW id, NEW e, AllExported(some), Exported(e)
    PROVE  AllExported(With(some, id, e))
  BY DEF AllExported, With

LEMMA WithoutExported ==
    ASSUME NEW some, NEW id, AllExported(some) PROVE AllExported(Without(some, id))
  BY DEF AllExported, Without

LEMMA LiveExported == ASSUME AllExported(exports) PROVE AllExported(Live)
  BY DEF AllExported, Live

LEMMA EvictedExported == ASSUME NEW some, AllExported(some) PROVE AllExported(Evicted(some))
  BY WithoutExported DEF Evicted

-----------------------------------------------------------------------------
(* The page being read.                                                    *)

Paging == {"identity", "again", "final"}

PageKept ==
    /\ FilesKept /\ AllExported(exports)
    /\ job.pc = "reread" => Exported(job.e)
    /\ job.pc \in Paging =>
         /\ {"pc", "line", "export", "e", "rewritten"} \subseteq DOMAIN job /\ Captured(job.e)
         /\ job.rewritten \in Int /\ job.rewritten <= changes
    /\ job.pc \in {"identity", "again"} /\ job.rewritten = changes => ~ Held(job.e)
    /\ RewrittenRefused

(* A step after which no page is being read.                               *)
LEMMA NotPaging ==
    ASSUME PageKept, UNCHANGED files, UNCHANGED changes, AllExported(exports'),
           job'.pc \notin Paging, job'.pc = "reread" => Exported(job'.e)
    PROVE  PageKept'
  <1>1. FilesKept'
    BY DEF PageKept, FilesKept, files
  <1> QED BY <1>1 DEF PageKept, Paging, RewrittenRefused, AllExported

LEMMA ReplyKept ==
    ASSUME PageKept, UNCHANGED files, UNCHANGED changes, AllExported(exports'),
           job' = Idle
    PROVE  PageKept'
  <1>1. job'.pc = "idle"
    BY DEF Idle
  <1> QED BY <1>1, NotPaging DEF Paging

LEMMA RefusedKept ==
    ASSUME PageKept, UNCHANGED files, UNCHANGED changes, NEW some, AllExported(some), Refuse(some)
    PROVE  PageKept'
  BY ReplyKept DEF Refuse, Reply

LEMMA ExportedAt ==
    ASSUME PageKept, NEW id \in DOMAIN Live
    PROVE  Exported(Live[id])
  BY LiveExported DEF PageKept, AllExported

LEMMA ContinuedKept == PageKept /\ BeginContinued => PageKept'
  <1> SUFFICES ASSUME PageKept, BeginContinued PROVE PageKept'
    OBVIOUS
  <1>1. UNCHANGED files /\ changes' = changes
    BY DEF BeginContinued, Unasked
  <1>2. AllExported(Live)
    BY LiveExported DEF PageKept
  <1>3. PICK cursor : cursor = Line.cursor
    OBVIOUS
  <1>4. PICK raw : raw = (Line.method = "list")
    OBVIOUS
  <1>5. CASE ~ CursorKnown(Live, cursor, raw)
    <2>1. Refuse(Live)
      BY <1>3, <1>4, <1>5 DEF BeginContinued
    <2> QED BY <1>1, <1>2, <2>1, RefusedKept
  <1>6. CASE CursorKnown(Live, cursor, raw)
    <2>1. PICK id : id = cursor.export
      OBVIOUS
    <2>2. id \in DOMAIN Live /\ Exported(Live[id]) /\ (raw => Captured(Live[id]))
      BY <1>4, <1>6, <2>1, ExportedAt DEF CursorKnown, Exported
    <2>3. AllExported(Without(Live, id))
      BY <1>2, WithoutExported
    <2>4. CASE Refuse(Live) \/ Refuse(Without(Live, id))
      BY <1>1, <1>2, <2>3, <2>4, RefusedKept
    <2>5. CASE Replay(cursor)
      BY <1>1, <1>2, <2>5, ReplyKept DEF Replay, Reply
    <2>6. CASE raw /\ exports' = Live
               /\ job' = [pc |-> "identity", line |-> Line, export |-> id,
                          e |-> Live[id], at |-> named,
                          rewritten |-> IF Held(Live[id]) THEN -1 ELSE changes]
      <3>1. /\ job'.pc = "identity" /\ job'.e = Live[id]
            /\ {"pc", "line", "export", "e", "rewritten"} \subseteq DOMAIN job'
            /\ job'.rewritten = IF Held(Live[id]) THEN -1 ELSE changes
        BY <2>6
      <3>2. FilesKept' /\ changes \in Nat
        BY <1>1 DEF PageKept, FilesKept, files
      <3>3. job'.rewritten \in Int /\ job'.rewritten <= changes'
        BY <1>1, <3>1, <3>2
      <3>4. job'.rewritten = changes' => ~ Held(Live[id])
        BY <1>1, <3>1, <3>2
      <3>5. Held(job.e)' <=> Held(Live[id])
        BY <1>1, <3>1 DEF Held, Text, files
      <3>6. AllExported(exports)'
        BY <1>2, <2>6 DEF AllExported
      <3>7. Captured(job.e)'
        BY <2>2, <2>6, <3>1 DEF Captured
      <3> QED BY <3>1, <3>2, <3>3, <3>4, <3>5, <3>6, <3>7 DEF PageKept, Paging, RewrittenRefused
    <2>7. CASE \E limit : exports' = With(Live, id, HistoryPageOf(Live[id], id, limit).export)
                          /\ job' = Idle
      <3>1. PICK limit : exports' = With(Live, id, HistoryPageOf(Live[id], id, limit).export)
        BY <2>7
      <3>2. AllExported(exports')
        BY <1>2, <2>2, <3>1, HistoryPageExported, WithExported
      <3> QED BY <1>1, <2>7, <3>2, ReplyKept
    <2> QED BY <1>3, <1>4, <1>6, <2>1, <2>4, <2>5, <2>6, <2>7 DEF BeginContinued, Reply
  <1> QED BY <1>5, <1>6

LEMMA CaptureCaptured == ASSUME FilesKept PROVE Captured(Capture)
  <1>1. \A i \in Index : Text(named[i]) \in Seq(Unit)
    BY TextIs
  <1>2. /\ {"raw", "text"} \subseteq DOMAIN Capture
        /\ Capture.text = [i \in Index |-> Text(named[i])]
    BY DEF Capture
  <1> QED BY <1>1, <1>2 DEF Captured

LEMMA ExportKept == PageKept /\ BeginExport => PageKept'
  <1> SUFFICES ASSUME PageKept, BeginExport PROVE PageKept'
    OBVIOUS
  <1>1. UNCHANGED files /\ changes' = changes
    BY DEF BeginExport, Unasked
  <1>2. AllExported(Live) /\ AllExported(Evicted(Live))
    BY LiveExported, EvictedExported DEF PageKept
  <1>3. CASE Refuse(Live)
    BY <1>1, <1>2, <1>3, RefusedKept
  <1>4. CASE /\ exports' = Evicted(Live)
             /\ job' = [pc |-> "identity", line |-> Line, export |-> Token,
                        e |-> Capture, at |-> named, rewritten |-> -1]
    <2>1. /\ job'.pc = "identity" /\ job'.e = Capture /\ job'.rewritten = -1
          /\ {"pc", "line", "export", "e", "rewritten"} \subseteq DOMAIN job'
      BY <1>4
    <2>2. FilesKept' /\ changes \in Nat /\ FilesKept
      BY <1>1 DEF PageKept, FilesKept, files
    <2>3. job'.rewritten \in Int /\ job'.rewritten <= changes' /\ job'.rewritten # changes'
      BY <1>1, <2>1, <2>2
    <2>4. Captured(job.e)'
      <3>1. Captured(Capture)
        BY <2>2, CaptureCaptured
      <3> QED BY <2>1, <3>1 DEF Captured
    <2>5. AllExported(exports)'
      BY <1>2, <1>4 DEF AllExported
    <2> QED BY <2>1, <2>2, <2>3, <2>4, <2>5 DEF PageKept, Paging, RewrittenRefused
  <1> QED BY <1>3, <1>4 DEF BeginExport

LEMMA HistoryKept == PageKept /\ (BeginHistory \/ RereadHistory) => PageKept'
  <1> SUFFICES ASSUME PageKept, BeginHistory \/ RereadHistory PROVE PageKept'
    OBVIOUS
  <1>1. UNCHANGED files /\ changes' = changes
    BY DEF BeginHistory, RereadHistory, Unasked
  <1>2. /\ AllExported(Live) /\ AllExported(Evicted(Live)) /\ AllExported(exports)
    BY LiveExported, EvictedExported DEF PageKept
  <1>3. CASE BeginHistory
    <2>1. CASE Refuse(Live)
      BY <1>1, <1>2, <2>1, RefusedKept
    <2>2. CASE exports' = Evicted(Live) /\ job' = Idle
      BY <1>1, <1>2, <2>2, ReplyKept
    <2>3. CASE \E answer, text :
                 /\ exports' = Evicted(Live)
                 /\ job' = [pc |-> "reread", line |-> Line, export |-> Token,
                            e |-> Projected(answer), at |-> named, text |-> text]
      <3>1. PICK answer : job'.pc = "reread" /\ job'.e = Projected(answer)
        BY <2>3
      <3>2. Exported(job'.e)
        BY <3>1 DEF Projected, Exported
      <3>3. job'.pc \notin Paging
        BY <3>1 DEF Paging
      <3> QED BY <1>1, <1>2, <2>3, <3>2, <3>3, NotPaging
    <2> QED BY <1>3, <2>1, <2>2, <2>3 DEF BeginHistory, Reply
  <1>4. CASE RereadHistory
    <2>1. CASE Refuse(exports)
      BY <1>1, <1>2, <2>1, RefusedKept
    <2>2. CASE /\ exports' = With(exports, job.export,
                                  HistoryPageOf(job.e, job.export, Line.limit).export)
               /\ job' = Idle
      <3>1. Exported(job.e)
        BY <1>4 DEF PageKept, RereadHistory
      <3>2. PICK e : e = HistoryPageOf(job.e, job.export, Line.limit).export
        OBVIOUS
      <3>3. Exported(e)
        BY <3>1, <3>2, HistoryPageExported
      <3>4. AllExported(exports')
        BY <1>2, <2>2, <3>2, <3>3, WithExported
      <3> QED BY <1>1, <2>2, <3>4, ReplyKept
    <2> QED BY <1>4, <2>1, <2>2 DEF RereadHistory, Reply
  <1> QED BY <1>3, <1>4

LEMMA ReadingKept == PageKept /\ ReadPage => PageKept'
  <1> SUFFICES ASSUME PageKept, ReadPage PROVE PageKept'
    OBVIOUS
  <1>1. UNCHANGED files /\ changes' = changes /\ job.pc = "identity"
    BY DEF ReadPage, Unasked
  <1>2. AllExported(exports) /\ AllExported(Without(exports, job.export))
    BY WithoutExported DEF PageKept
  <1>3. CASE Refuse(Without(exports, job.export))
    BY <1>1, <1>2, <1>3, RefusedKept
  <1>4. CASE job' = [job EXCEPT !.pc = "again"] /\ exports' = exports
    <2>1. /\ {"pc", "line", "export", "e", "rewritten"} \subseteq DOMAIN job /\ Captured(job.e)
          /\ job.rewritten \in Int /\ job.rewritten <= changes
          /\ job.rewritten = changes => ~ Held(job.e)
      BY <1>1 DEF PageKept, Paging
    <2>2. /\ job'.pc = "again" /\ job'.e = job.e /\ job'.rewritten = job.rewritten
          /\ DOMAIN job' = DOMAIN job
      BY <1>4, <2>1
    <2>3. Held(job.e)' <=> Held(job.e)
      BY <1>1, <2>2 DEF Held, Text, files
    <2>4. FilesKept'
      BY <1>1 DEF PageKept, FilesKept, files
    <2>5. Captured(job.e)'
      BY <2>1, <2>2 DEF Captured
    <2>6. AllExported(exports)'
      BY <1>2, <1>4 DEF AllExported
    <2> QED BY <1>1, <2>1, <2>2, <2>3, <2>4, <2>5, <2>6 DEF PageKept, Paging, RewrittenRefused
  <1> QED BY <1>3, <1>4 DEF ReadPage

LEMMA OpeningKept == PageKept /\ OpenAgain => PageKept'
  <1> SUFFICES ASSUME PageKept, OpenAgain PROVE PageKept'
    OBVIOUS
  <1>1. UNCHANGED files /\ changes' = changes /\ job.pc = "again"
    BY DEF OpenAgain, Unasked
  <1>2. AllExported(exports) /\ AllExported(Without(exports, job.export))
    BY WithoutExported DEF PageKept
  <1> DEFINE last == PageOf(job.e, job.export, Line.limit).page.complete
  <1>3. CASE Refuse(Without(exports, job.export))
    BY <1>1, <1>2, <1>3, RefusedKept
  <1>4. CASE /\ job' = [job EXCEPT !.pc = "final"] /\ exports' = exports
             /\ SameFiles(job.e, named) /\ (last => AllBlocksStand(job.e, named))
    <2>1. /\ {"pc", "line", "export", "e", "rewritten"} \subseteq DOMAIN job /\ Captured(job.e)
          /\ job.rewritten \in Int /\ job.rewritten <= changes
          /\ job.rewritten = changes => ~ Held(job.e)
      BY <1>1 DEF PageKept, Paging
    <2>2. /\ job'.pc = "final" /\ job'.e = job.e /\ job'.rewritten = job.rewritten
          /\ DOMAIN job' = DOMAIN job
      BY <1>4, <2>1
    <2>3. last => changes # job.rewritten
      <3> HIDE DEF last
      <3> SUFFICES ASSUME last PROVE Held(job.e)
        BY <2>1
      <3>1. PICK e : e = job.e
        OBVIOUS
      <3>2. FilesKept /\ (\A i \in Index : e.text[i] \in Seq(Unit))
            /\ SameFiles(e, named) /\ AllBlocksStand(e, named)
        BY <1>4, <2>1, <3>1 DEF PageKept, Captured
      <3>3. Held(e)
        BY <3>2, BlocksHeld
      <3> QED BY <3>1, <3>3
    <2>4. FilesKept'
      BY <1>1 DEF PageKept, FilesKept, files
    <2>5. Captured(job.e)'
      BY <2>1, <2>2 DEF Captured
    <2>6. AllExported(exports)'
      BY <1>2, <1>4 DEF AllExported
    <2>7. job'.export = job.export /\ Line' = Line
      BY <1>4 DEF Line
    <2>8. RewrittenRefused'
      BY <1>1, <2>2, <2>3, <2>7 DEF RewrittenRefused
    <2> QED BY <1>1, <2>1, <2>2, <2>4, <2>5, <2>6, <2>8 DEF PageKept, Paging
  <1> QED BY <1>3, <1>4 DEF OpenAgain

LEMMA FinishKept == PageKept /\ FinishPage => PageKept'
  <1> SUFFICES ASSUME PageKept, FinishPage PROVE PageKept'
    OBVIOUS
  <1>1. UNCHANGED files /\ changes' = changes /\ job.pc = "final"
    BY DEF FinishPage, Unasked
  <1>2. AllExported(exports) /\ AllExported(Without(exports, job.export))
    BY WithoutExported DEF PageKept
  <1>3. PICK next : next = PageOf(job.e, job.export, Line.limit)
    OBVIOUS
  <1>4. Exported(next.export)
    <2>1. Captured(job.e)
      BY <1>1 DEF PageKept, Paging
    <2> QED BY <1>3, <2>1, PageCaptured DEF Exported, Captured
  <1>5. AllExported(With(exports, job.export, next.export))
    BY <1>2, <1>4, WithExported
  <1>6. CASE Refuse(Without(exports, job.export))
    BY <1>1, <1>2, <1>6, RefusedKept
  <1>7. CASE /\ job' = Idle
             /\ exports' \in {With(exports, job.export, next.export),
                              Without(exports, job.export)}
    BY <1>1, <1>2, <1>5, <1>7, ReplyKept
  <1> QED BY <1>3, <1>6, <1>7 DEF FinishPage, TooLong, Reply

LEMMA ReadKept == PageKept /\ Read => PageKept'
  <1> SUFFICES ASSUME PageKept, Read PROVE PageKept'
    OBVIOUS
  <1>1. UNCHANGED files /\ changes' = changes /\ exports' = exports
        /\ (job' = Idle \/ \E line : job' = [pc |-> "begin", line |-> line])
    BY DEF Read
  <1>2. job'.pc \notin Paging /\ job'.pc # "reread"
    BY <1>1 DEF Paging, Idle
  <1>3. AllExported(exports')
    BY <1>1 DEF PageKept
  <1> QED BY <1>1, <1>2, <1>3, NotPaging

(* The steps of the others.                                                *)
LEMMA OthersKept ==
    ASSUME PageKept, UNCHANGED job, AllExported(exports'),
           \/ UNCHANGED files /\ changes' = changes
           \/ FilesKept' /\ changes' = changes + 1
    PROVE  PageKept'
  <1>1. AllExported(exports)'
    BY DEF AllExported
  <1>2. CASE UNCHANGED files /\ changes' = changes
    <2>1. FilesKept'
      BY <1>2 DEF PageKept, FilesKept, files
    <2>2. Held(job.e)' <=> Held(job.e)
      BY <1>2 DEF Held, Text, files
    <2>3. RewrittenRefused'
      BY <1>2 DEF PageKept, RewrittenRefused, Line
    <2> QED BY <1>1, <1>2, <2>1, <2>2, <2>3 DEF PageKept, Exported, Captured
  <1>3. CASE FilesKept' /\ changes' = changes + 1
    <2>1. changes \in Nat
      BY DEF PageKept, FilesKept
    <2>2. job.pc \in Paging => job.rewritten \in Int /\ job.rewritten <= changes' /\ job.rewritten # changes'
      BY <1>3, <2>1 DEF PageKept
    <2>3. RewrittenRefused'
      BY <2>2 DEF RewrittenRefused, Paging
    <2>4. ~ (job'.pc \in {"identity", "again"} /\ job'.rewritten = changes')
      BY <2>2 DEF Paging
    <2> QED BY <1>1, <1>3, <2>2, <2>3, <2>4 DEF PageKept, Exported, Captured
  <1> QED BY <1>2, <1>3

LEMMA AgeExported == ASSUME AllExported(exports), Age PROVE AllExported(exports')
  <1>1. PICK id \in DOMAIN exports :
          exports' = [k \in DOMAIN exports |-> [exports[k] EXCEPT !.old = @ \/ k <= id]]
    BY DEF Age
  <1> QED BY <1>1 DEF AllExported, Exported, Captured

LEMMA PageBegins == Init => PageKept
  <1> SUFFICES ASSUME Init PROVE PageKept
    OBVIOUS
  <1>1. job.pc = "idle" /\ exports = Nothing
    BY DEF Init, Idle
  <1>2. AllExported(exports)
    BY <1>1 DEF AllExported, Nothing
  <1> QED BY <1>1, <1>2, FilesBegin DEF PageKept, Paging, RewrittenRefused

LEMMA PageGoesOn == PageKept /\ [Next]_vars => PageKept'
  <1> SUFFICES ASSUME PageKept, [Next]_vars PROVE PageKept'
    OBVIOUS
  <1>1. CASE Server
    BY <1>1, ReadKept, ContinuedKept, ExportKept, HistoryKept, ReadingKept, OpeningKept,
       FinishKept DEF Server
  <1>2. CASE Age
    <2>1. UNCHANGED job /\ UNCHANGED files /\ changes' = changes
      BY <1>2 DEF Age
    <2>2. AllExported(exports')
      BY <1>2, AgeExported DEF PageKept
    <2> QED BY <2>1, <2>2, OthersKept
  <1>3. CASE SendAny \/ AskPage \/ Receive \/ UNCHANGED vars
    <2>1. UNCHANGED job /\ UNCHANGED files /\ changes' = changes /\ exports' = exports
      BY <1>3 DEF SendAny, AskPage, Receive, vars, files
    <2>2. AllExported(exports')
      BY <2>1 DEF PageKept
    <2> QED BY <2>1, <2>2, OthersKept
  <1>4. CASE AppendUnit \/ Rename \/ Rewrite \/ Reconfigure
    <2>1. UNCHANGED job /\ exports' = exports
      BY <1>4 DEF AppendUnit, Rename, Rewrite, Reconfigure, Change
    <2>2. FilesKept' /\ changes' = changes + 1
      BY <1>4, FilesChange DEF PageKept
    <2>3. AllExported(exports')
      BY <2>1 DEF PageKept
    <2> QED BY <2>1, <2>2, <2>3, OthersKept
  <1> QED BY <1>1, <1>2, <1>3, <1>4 DEF Next

(* An export's last page is not given when the files do not begin with what *)
(* was captured, neither as the page is begun nor until its answer          *)
(* (checkIdentity, checkAllBlocks, and the names opened again).             *)
THEOREM RewrittenStands == Spec => []RewrittenRefused
  <1>1. Init => PageKept
    BY PageBegins
  <1>2. PageKept /\ [Next]_vars => PageKept'
    BY PageGoesOn
  <1>3. PageKept => RewrittenRefused
    BY DEF PageKept
  <1> QED BY <1>1, <1>2, <1>3, PTL DEF Spec

-----------------------------------------------------------------------------
(* The lines of a text.                                                    *)

LEMMA MaxOf ==
    ASSUME NEW S \in SUBSET Nat, S # {}, NEW N \in Nat, \A x \in S : x <= N
    PROVE  Max(S) \in S /\ \A y \in S : y <= Max(S)
  <1>1. PICK back : back = {m \in Nat : \E x \in S : m = N - x}
    OBVIOUS
  <1>2. back \in SUBSET Nat /\ back # {}
    <2>1. PICK x : x \in S
      OBVIOUS
    <2>2. N - x \in back
      BY <1>1, <2>1
    <2> QED BY <1>1, <2>2
  <1>3. PICK m \in back : \A k \in back : m <= k
    BY <1>2, LeastOf
  <1>4. PICK x \in S : m = N - x
    BY <1>1, <1>3
  <1>5. \A y \in S : x >= y
    <2> SUFFICES ASSUME NEW y \in S PROVE x >= y
      OBVIOUS
    <2>1. N - y \in back
      BY <1>1
    <2> QED BY <1>3, <1>4, <2>1
  <1>6. PICK c : c = CHOOSE z \in S : \A y \in S : z >= y
    OBVIOUS
  <1>7. c \in S /\ \A y \in S : c >= y
    BY <1>5, <1>6
  <1> QED BY <1>6, <1>7 DEF Max

LEMMA EndsAre ==
    ASSUME NEW text \in Seq(Unit)
    PROVE  /\ Ends(text) \in SUBSET Nat /\ Len(text) \in Nat
           /\ \A q \in Ends(text) : q >= 1 /\ q <= Len(text)
  BY DEF Ends

LEMMA Before ==
    ASSUME NEW text \in Seq(Unit), NEW p \in Nat
    PROVE  /\ EndBefore(text, p) \in Nat
           /\ EndBefore(text, p) = 0
              \/ (EndBefore(text, p) \in Ends(text) /\ EndBefore(text, p) < p)
           /\ \A q \in Ends(text) : q < p => q <= EndBefore(text, p)
  <1>1. PICK S : S = {0} \cup {q \in Ends(text) : q < p}
    OBVIOUS
  <1>2. S \in SUBSET Nat /\ S # {} /\ \A x \in S : x <= p
    BY <1>1, EndsAre
  <1>3. Max(S) \in S /\ \A y \in S : y <= Max(S)
    BY <1>2, MaxOf
  <1>4. EndBefore(text, p) = Max(S)
    BY <1>1 DEF EndBefore
  <1> QED BY <1>1, <1>2, <1>3, <1>4

LEMMA BeforeIs ==
    ASSUME NEW text \in Seq(Unit), NEW p \in Nat, NEW m,
           m = 0 \/ (m \in Ends(text) /\ m < p),
           \A q \in Ends(text) : q < p => q <= m
    PROVE  EndBefore(text, p) = m
  <1>1. PICK b : b = EndBefore(text, p)
    OBVIOUS
  <1>2. b \in Nat /\ (b = 0 \/ (b \in Ends(text) /\ b < p)) /\ \A q \in Ends(text) : q < p => q <= b
    BY <1>1, Before
  <1>3. m \in Nat
    BY EndsAre
  <1> QED BY <1>1, <1>2, <1>3

(* How many lines end up to a position.                                    *)
Rank(text, p) == Cardinality({q \in Ends(text) : q <= p})

LEMMA UpToFinite ==
    ASSUME NEW text \in Seq(Unit), NEW p
    PROVE  IsFiniteSet({q \in Ends(text) : q <= p}) /\ Rank(text, p) \in Nat
  <1>1. PICK S : S = {q \in Ends(text) : q <= p}
    OBVIOUS
  <1>2. S \in SUBSET Nat /\ \A s \in S : s <= Len(text)
    BY <1>1, EndsAre
  <1>3. IsFiniteSet(S)
    BY <1>2, EndsAre, FS_BoundedSetOfNaturals
  <1> QED BY <1>1, <1>3, FS_CardinalityType DEF Rank

LEMMA RankAll ==
    ASSUME NEW text \in Seq(Unit)
    PROVE  /\ IsFiniteSet(Ends(text)) /\ Cardinality(Ends(text)) \in Nat
           /\ Rank(text, Len(text)) = Cardinality(Ends(text))
  <1>1. {q \in Ends(text) : q <= Len(text)} = Ends(text)
    BY EndsAre
  <1> QED BY <1>1, UpToFinite DEF Rank

LEMMA RankNone ==
    ASSUME NEW text \in Seq(Unit) PROVE Rank(text, 0) = 0
  <1>1. {q \in Ends(text) : q <= 0} = {}
    BY EndsAre
  <1> QED BY <1>1, FS_EmptySet DEF Rank

LEMMA RankSame ==
    ASSUME NEW text \in Seq(Unit), NEW p \in Nat, p + 1 \notin Ends(text)
    PROVE  Rank(text, p + 1) = Rank(text, p)
  <1>1. {q \in Ends(text) : q <= p + 1} = {q \in Ends(text) : q <= p}
    BY EndsAre
  <1> QED BY <1>1 DEF Rank

LEMMA RankOne ==
    ASSUME NEW text \in Seq(Unit), NEW p \in Nat, p + 1 \in Ends(text)
    PROVE  Rank(text, p + 1) = Rank(text, p) + 1
  <1>1. PICK S : S = {q \in Ends(text) : q <= p}
    OBVIOUS
  <1>2. PICK x \in Nat : x = p + 1
    OBVIOUS
  <1>3. {q \in Ends(text) : q <= p + 1} = S \cup {x} /\ x \notin S
    BY <1>1, <1>2, EndsAre
  <1>4. IsFiniteSet(S)
    BY <1>1, UpToFinite
  <1>5. Cardinality(S \cup {x}) = Cardinality(S) + 1
    BY <1>3, <1>4, FS_AddElement
  <1> QED BY <1>1, <1>3, <1>5 DEF Rank

LEMMA RankUp ==
    ASSUME NEW text \in Seq(Unit), NEW p \in Nat, NEW q \in Ends(text), p < q
    PROVE  Rank(text, p) < Rank(text, q)
  <1>1. PICK S : S = {r \in Ends(text) : r <= p}
    OBVIOUS
  <1>2. PICK U : U = {r \in Ends(text) : r <= q}
    OBVIOUS
  <1>3. q \in Nat /\ S \cup {q} \in SUBSET U /\ q \notin S
    BY <1>1, <1>2, EndsAre
  <1>4. IsFiniteSet(S) /\ IsFiniteSet(U) /\ Cardinality(S) \in Nat /\ Cardinality(U) \in Nat
        /\ Rank(text, p) = Cardinality(S) /\ Rank(text, q) = Cardinality(U)
    BY <1>1, <1>2, UpToFinite DEF Rank
  <1>5. Cardinality(S \cup {q}) = Cardinality(S) + 1
    BY <1>3, <1>4, FS_AddElement
  <1>6. Cardinality(S \cup {q}) <= Cardinality(U)
    BY <1>3, <1>4, FS_Subset
  <1> QED BY <1>4, <1>5, <1>6

LEMMA RankInjective ==
    ASSUME NEW text \in Seq(Unit), NEW p \in Ends(text), NEW q \in Ends(text),
           Rank(text, p) = Rank(text, q)
    PROVE  p = q
  <1>1. p \in Nat /\ q \in Nat /\ Rank(text, p) \in Nat
    BY EndsAre, UpToFinite
  <1>2. ~ (p < q) /\ ~ (q < p)
    BY <1>1, RankUp
  <1> QED BY <1>1, <1>2

(* Every count up to a position's is the one of an end up to there.        *)
LEMMA RankEach ==
    ASSUME NEW text \in Seq(Unit), NEW o \in Nat, NEW k \in 1 .. Rank(text, o)
    PROVE  \E p \in Ends(text) : p <= o /\ Rank(text, p) = k
  <1> DEFINE bad == {m \in Nat : k <= Rank(text, m)
                                   /\ ~ \E p \in Ends(text) : p <= m /\ Rank(text, p) = k}
  <1> SUFFICES ASSUME o \in bad PROVE FALSE
    BY UpToFinite
  <1>1. PICK m \in bad : \A n \in bad : m <= n
    <2>1. bad \in SUBSET Nat /\ bad # {}
      OBVIOUS
    <2> HIDE DEF bad
    <2> QED BY <2>1, LeastOf
  <1>2. m \in Nat /\ k <= Rank(text, m) /\ ~ \E p \in Ends(text) : p <= m /\ Rank(text, p) = k
    OBVIOUS
  <1>3. k \in Nat /\ k >= 1
    BY UpToFinite
  <1>4. m # 0
    BY <1>2, <1>3, RankNone
  <1>5. PICK l \in Nat : m = l + 1
    <2>1. m - 1 \in Nat /\ m = (m - 1) + 1
      BY <1>2, <1>4
    <2> QED BY <2>1
  <1>6. l \notin bad
    <2>1. ~ (m <= l)
      BY <1>5
    <2> HIDE DEF bad
    <2> QED BY <1>1, <2>1
  <1>7. ~ \E p \in Ends(text) : p <= l /\ Rank(text, p) = k
    <2>1. \A p \in Ends(text) : p <= l => p <= m
      BY <1>5, EndsAre
    <2> QED BY <1>2, <2>1
  <1>8. ~ (k <= Rank(text, l)) /\ Rank(text, l) \in Nat
    BY <1>6, <1>7, UpToFinite
  <1>9. CASE m \in Ends(text)
    <2>1. Rank(text, m) = Rank(text, l) + 1
      BY <1>5, <1>9, RankOne
    <2>2. Rank(text, m) = k
      BY <1>2, <1>3, <1>8, <2>1
    <2> QED BY <1>2, <1>9, <2>2
  <1>10. CASE m \notin Ends(text)
    <2>1. Rank(text, m) = Rank(text, l)
      BY <1>5, <1>10, RankSame
    <2> QED BY <1>2, <1>8, <2>1
  <1> QED BY <1>9, <1>10

LEMMA EndAtIs ==
    ASSUME NEW text \in Seq(Unit), NEW p \in Ends(text)
    PROVE  EndAt(text, Rank(text, p)) = p
  <1>1. PICK c : c = EndAt(text, Rank(text, p))
    OBVIOUS
  <1>2. c \in Ends(text) /\ Rank(text, c) = Rank(text, p)
    BY <1>1 DEF EndAt, Rank
  <1> QED BY <1>1, <1>2, RankInjective

(* The ends up to one are those up to the end before it, and itself.       *)
LEMMA RankWithin ==
    ASSUME NEW text \in Seq(Unit), NEW p \in Ends(text)
    PROVE  Rank(text, p) \in 1 .. Cardinality(Ends(text))
  <1>1. p \in Nat /\ p >= 1 /\ p <= Len(text) /\ Len(text) \in Nat
    BY EndsAre
  <1>2. Rank(text, 0) < Rank(text, p)
    BY <1>1, RankUp
  <1>3. Rank(text, p) <= Cardinality(Ends(text))
    <2>1. PICK S : S = {q \in Ends(text) : q <= p}
      OBVIOUS
    <2>2. S \in SUBSET Ends(text)
      BY <2>1
    <2> QED BY <2>1, <2>2, RankAll, FS_Subset DEF Rank
  <1>4. PICK r \in Nat : r = Rank(text, p)
    BY UpToFinite
  <1>5. PICK n \in Nat : n = Cardinality(Ends(text))
    BY RankAll
  <1>6. 0 < r /\ r <= n
    BY <1>2, <1>3, <1>4, <1>5, RankNone
  <1> QED BY <1>4, <1>5, <1>6

-----------------------------------------------------------------------------
(* The lines finished.                                                     *)

Shown == [offset : Nat, digest : Seq(Unit), status : {"incomplete", "oversized", "line"}]

LEMMA ShownLine ==
    ASSUME NEW o \in Nat, NEW line \in Seq(Unit), NEW torn \in BOOLEAN
    PROVE  FinishLine(o, line, torn) \in Shown
  BY DEF FinishLine, Shown

(* The line that ends at p.                                                *)
LineAt(text, base, p) ==
    FinishLine(base + EndBefore(text, p), SubSeq(text, EndBefore(text, p) + 1, p), FALSE)

(* What stands after m and up to p.                                        *)
Part(text, m, p, s) ==
    /\ s \in Seq(Unit) /\ (Len(s) = IF m <= p THEN p - m ELSE 0)
    /\ \A j \in 1 .. p - m : s[j] = text[m + j]

LEMMA PartOf ==
    ASSUME NEW text \in Seq(Unit), NEW m \in Nat, NEW p \in Nat, p <= Len(text),
           NEW s, s = SubSeq(text, m + 1, p)
    PROVE  Part(text, m, p, s)
  <1>1. PICK a \in Nat : a = m + 1
    OBVIOUS
  <1>2. \A i \in a .. p : text[i] \in Unit
    <2>1. \A i \in a .. p : i \in 1 .. Len(text)
      BY <1>1
    <2> QED BY <2>1, ElementOfSeq
  <1>3. /\ SubSeq(text, a, p) \in Seq(Unit)
        /\ Len(SubSeq(text, a, p)) = IF a <= p THEN p - a + 1 ELSE 0
        /\ \A j \in 1 .. p - a + 1 : SubSeq(text, a, p)[j] = text[a + j - 1]
    BY <1>2, SubSeqProperties
  <1>4. s = SubSeq(text, a, p)
    BY <1>1
  <1>5. s \in Seq(Unit) /\ (Len(s) = IF m <= p THEN p - m ELSE 0)
    BY <1>1, <1>3, <1>4
  <1>6. \A j \in 1 .. p - m : s[j] = text[m + j]
    <2> SUFFICES ASSUME NEW j \in 1 .. p - m PROVE s[j] = text[m + j]
      OBVIOUS
    <2>1. j \in 1 .. p - a + 1 /\ a + j - 1 = m + j
      BY <1>1
    <2> QED BY <1>3, <1>4, <2>1
  <1> QED BY <1>5, <1>6 DEF Part

LEMMA LineAtShown ==
    ASSUME NEW text \in Seq(Unit), NEW base \in Nat, NEW p \in Ends(text)
    PROVE  LineAt(text, base, p) \in Shown
  <1>1. p \in Nat /\ p <= Len(text)
    BY EndsAre
  <1>2. PICK m \in Nat : m = EndBefore(text, p)
    BY <1>1, Before
  <1>3. PICK line \in Seq(Unit) : line = SubSeq(text, m + 1, p)
    <2>1. PICK line : line = SubSeq(text, m + 1, p)
      OBVIOUS
    <2> QED BY <1>1, <2>1, PartOf DEF Part
  <1>4. PICK o \in Nat : o = base + m
    OBVIOUS
  <1>5. LineAt(text, base, p) = FinishLine(o, line, FALSE)
    BY <1>2, <1>3, <1>4 DEF LineAt
  <1>6. FinishLine(o, line, FALSE) \in Shown
    BY ShownLine
  <1> QED BY <1>5, <1>6

LEMMA FinishedLines ==
    ASSUME NEW text \in Seq(Unit), NEW base \in Nat
    PROVE  /\ Finished(text, base) \in Seq(Shown)
           /\ Len(Finished(text, base)) = Cardinality(Ends(text))
           /\ \A p \in Ends(text) : Finished(text, base)[Rank(text, p)] = LineAt(text, base, p)
  <1>1. PICK n \in Nat : n = Cardinality(Ends(text))
    BY RankAll
  <1>2. PICK f : f = Finished(text, base)
    OBVIOUS
  <1>3. f = [k \in 1 .. n |-> LineAt(text, base, EndAt(text, k))]
    BY <1>1, <1>2 DEF Finished, LineAt
  <1>4. \A k \in 1 .. n : EndAt(text, k) \in Ends(text)
    <2> SUFFICES ASSUME NEW k \in 1 .. n PROVE EndAt(text, k) \in Ends(text)
      OBVIOUS
    <2>1. k \in 1 .. Rank(text, Len(text))
      BY <1>1, RankAll
    <2>2. PICK p \in Ends(text) : Rank(text, p) = k
      BY <2>1, EndsAre, RankEach
    <2> QED BY <2>2, EndAtIs
  <1>5. \A k \in 1 .. n : LineAt(text, base, EndAt(text, k)) \in Shown
    BY <1>4, LineAtShown
  <1>6. f \in [1 .. n -> Shown]
    BY <1>3, <1>5
  <1>7. f \in Seq(Shown) /\ Len(f) = n
    BY <1>6
  <1>8. \A p \in Ends(text) : f[Rank(text, p)] = LineAt(text, base, p)
    BY <1>1, <1>3, EndAtIs, RankWithin
  <1> QED BY <1>1, <1>2, <1>7, <1>8

(* The lines that end up to o.                                             *)
Recorded(r, text, o) ==
    /\ r \in Seq(Shown) /\ Len(r) = Rank(text, o)
    /\ \A p \in Ends(text) : p <= o => r[Rank(text, p)] = LineAt(text, 0, p)

LEMMA RecordedNone ==
    ASSUME NEW text \in Seq(Unit) PROVE Recorded(<< >>, text, 0)
  <1>1. \A p \in Ends(text) : ~ (p <= 0)
    BY EndsAre
  <1>2. << >> \in Seq(Shown) /\ Len(<< >>) = 0
    BY EmptySeq
  <1> QED BY <1>1, <1>2, RankNone DEF Recorded

LEMMA RecordedAll ==
    ASSUME NEW text \in Seq(Unit), NEW r, Recorded(r, text, Len(text))
    PROVE  r = Finished(text, 0)
  <1>1. PICK f : f = Finished(text, 0)
    OBVIOUS
  <1>2. PICK n \in Nat : n = Cardinality(Ends(text)) /\ n = Rank(text, Len(text))
    BY RankAll
  <1>3. /\ f \in Seq(Shown) /\ Len(f) = n
        /\ \A p \in Ends(text) : f[Rank(text, p)] = LineAt(text, 0, p)
    BY <1>1, <1>2, FinishedLines
  <1>4. r \in Seq(Shown) /\ Len(r) = n
    BY <1>2 DEF Recorded
  <1>5. \A k \in 1 .. n : r[k] = f[k]
    <2> SUFFICES ASSUME NEW k \in 1 .. n PROVE r[k] = f[k]
      OBVIOUS
    <2>1. PICK p \in Ends(text) : p <= Len(text) /\ Rank(text, p) = k
      BY <1>2, EndsAre, RankEach
    <2>2. r[Rank(text, p)] = LineAt(text, 0, p)
      BY <2>1 DEF Recorded
    <2> QED BY <1>3, <2>1, <2>2
  <1> QED BY <1>1, <1>3, <1>4, <1>5, SeqEqual

-----------------------------------------------------------------------------
(* A page's lines: what was left of a line, and the page.                  *)

(* From o to end, and what was left of a line from l to o.                 *)
Shift(text, o, end, l, all) ==
    /\ text \in Seq(Unit) /\ o \in Nat /\ end \in Nat /\ l \in Nat
    /\ o <= end /\ end <= Len(text) /\ l = EndBefore(text, o + 1) /\ all = SubSeq(text, l + 1, end)
    /\ all \in Seq(Unit) /\ Len(all) = end - l /\ l <= o
    /\ \A j \in Ends(all) : j + l \in Ends(text) /\ o < j + l /\ j + l <= end
    /\ \A q \in Ends(text) : o < q /\ q <= end => q - l \in Ends(all)
    /\ \A q \in Ends(text) : q <= o => q <= l

LEMMA Shifted ==
    ASSUME NEW text \in Seq(Unit), NEW o \in Nat, NEW end \in Nat, o <= end, end <= Len(text),
           NEW l \in Nat, l = EndBefore(text, o + 1), NEW all, all = SubSeq(text, l + 1, end)
    PROVE  Shift(text, o, end, l, all)
  <1>1. l <= o /\ \A q \in Ends(text) : q <= o => q <= l
    <2>1. l = 0 \/ l < o + 1
      BY Before
    <2>2. \A q \in Ends(text) : q < o + 1 => q <= l
      BY Before
    <2> QED BY <2>1, <2>2, EndsAre
  <1>2. all \in Seq(Unit) /\ Len(all) = end - l /\ \A j \in 1 .. end - l : all[j] = text[l + j]
    <2>1. Part(text, l, end, all)
      BY PartOf
    <2> QED BY <1>1, <2>1 DEF Part
  <1>3. ASSUME NEW j \in Ends(all)
        PROVE  j + l \in Ends(text) /\ o < j + l /\ j + l <= end
    <2>1. j \in 1 .. end - l /\ all[j].end
      BY <1>2 DEF Ends
    <2>2. PICK q \in Nat : q = l + j
      BY <2>1
    <2>3. q \in 1 .. Len(text) /\ q <= end /\ q > l /\ j + l = q
      BY <2>1, <2>2
    <2>4. text[q].end
      BY <1>2, <2>1, <2>2
    <2>5. q \in Ends(text)
      BY <2>3, <2>4 DEF Ends
    <2>6. ~ (q <= o)
      BY <1>1, <2>3, <2>5
    <2> QED BY <2>3, <2>5, <2>6
  <1>4. ASSUME NEW q \in Ends(text), o < q, q <= end
        PROVE  q - l \in Ends(all)
    <2>1. q \in Nat
      BY EndsAre
    <2>2. PICK j \in Int : j = q - l /\ l + j = q
      <3>1. q - l \in Int /\ l + (q - l) = q
        BY <2>1
      <3> QED BY <3>1
    <2>6. j \in 1 .. end - l
      <3>1. l <= o /\ o < q /\ q <= end
        BY <1>1, <1>4
      <3>2. j >= 1 /\ j <= end - l /\ end - l \in Int
        BY ONLY <2>1, <2>2, <3>1, o \in Nat, l \in Nat, end \in Nat, j \in Int
      <3> QED BY ONLY <3>2, j \in Int
    <2>3. all[j] = text[q]
      BY <1>2, <2>2, <2>6
    <2>4. text[q].end
      BY DEF Ends
    <2>5. j \in Ends(all)
      <3>1. DOMAIN all = 1 .. end - l
        BY <1>2, LenProperties
      <3>2. all[j].end
        BY <2>3, <2>4
      <3> QED BY <2>6, <3>1, <3>2 DEF Ends
    <2> QED BY <2>2, <2>5
  <1> QED BY <1>1, <1>2, <1>3, <1>4 DEF Shift

LEMMA ShiftedBefore ==
    ASSUME NEW text, NEW o, NEW end, NEW l, NEW all, Shift(text, o, end, l, all),
           NEW j \in Nat, NEW p, p = j + l, o < p, p <= end + 1
    PROVE  EndBefore(text, p) = EndBefore(all, j) + l
  <1> text \in Seq(Unit) /\ o \in Nat /\ end \in Nat /\ l \in Nat /\ l = EndBefore(text, o + 1)
    BY DEF Shift
  <1>1. /\ all \in Seq(Unit) /\ Len(all) = end - l /\ l <= o
        /\ \A i \in Ends(all) : i + l \in Ends(text) /\ o < i + l /\ i + l <= end
        /\ \A q \in Ends(text) : o < q /\ q <= end => q - l \in Ends(all)
        /\ \A q \in Ends(text) : q <= o => q <= l
    BY DEF Shift
  <1>2. PICK b \in Nat : b = EndBefore(all, j)
    BY <1>1, Before
  <1>3. /\ b = 0 \/ (b \in Ends(all) /\ b < j)
        /\ \A i \in Ends(all) : i < j => i <= b
    BY <1>1, <1>2, Before
  <1>4. l = 0 \/ (l \in Ends(text) /\ l < o + 1)
    BY Before
  <1>5. PICK m \in Nat : m = b + l
    OBVIOUS
  <1>6. p \in Nat /\ p = j + l /\ o < p /\ p <= end + 1
    OBVIOUS
  <1>7. m = 0 \/ (m \in Ends(text) /\ m < p)
    <2>1. CASE b = 0
      BY <1>4, <1>5, <1>6, <2>1
    <2>2. CASE b # 0
      BY <1>1, <1>3, <1>5, <1>6, <2>2
    <2> QED BY <2>1, <2>2
  <1>8. ASSUME NEW q \in Ends(text), q < p
        PROVE  q <= m
    <2>1. q \in Nat
      BY EndsAre
    <2>2. CASE q <= o
      BY <1>1, <1>5, <2>1, <2>2
    <2>3. CASE ~ (q <= o)
      <3>1. PICK i \in Ends(all) : i = q - l
        BY <1>1, <1>6, <1>8, <2>1, <2>3
      <3>2. i \in Nat /\ i < j
        <4>1. i \in Nat
          BY <1>1, EndsAre
        <4>2. q < j + l
          BY <1>6, <1>8
        <4> QED BY <2>1, <3>1, <4>1, <4>2
      <3>3. i <= b
        BY <1>3, <3>2
      <3> QED BY <1>5, <2>1, <3>1, <3>3
    <2> QED BY <2>2, <2>3
  <1>9. EndBefore(text, p) = m
    BY <1>7, <1>8, BeforeIs
  <1> QED BY <1>2, <1>5, <1>6, <1>9

LEMMA ShiftedRank ==
    ASSUME NEW text, NEW o, NEW end, NEW l, NEW all, Shift(text, o, end, l, all),
           NEW j \in Nat, NEW p, p = j + l, o <= p, p <= end
    PROVE  Rank(text, p) = Rank(text, o) + Rank(all, j)
  <1> text \in Seq(Unit) /\ o \in Nat /\ end \in Nat /\ l \in Nat /\ l = EndBefore(text, o + 1)
    BY DEF Shift
  <1>1. /\ all \in Seq(Unit) /\ Len(all) = end - l /\ l <= o
        /\ \A i \in Ends(all) : i + l \in Ends(text) /\ o < i + l /\ i + l <= end
        /\ \A q \in Ends(text) : o < q /\ q <= end => q - l \in Ends(all)
    BY DEF Shift
  <1>2. p \in Nat /\ p = j + l /\ o <= p /\ p <= end
    OBVIOUS
  <1>3. PICK A : A = {q \in Ends(text) : q <= p}
    OBVIOUS
  <1>4. PICK B : B = {q \in Ends(text) : q <= o}
    OBVIOUS
  <1>5. PICK D : D = {i \in Ends(all) : i <= j}
    OBVIOUS
  <1>6. PICK C : C = {i + l : i \in D}
    OBVIOUS
  <1>7. /\ IsFiniteSet(B) /\ Cardinality(B) \in Nat /\ Cardinality(B) = Rank(text, o)
        /\ IsFiniteSet(D) /\ Cardinality(D) \in Nat /\ Cardinality(D) = Rank(all, j)
        /\ Cardinality(A) = Rank(text, p)
    BY <1>1, <1>3, <1>4, <1>5, UpToFinite DEF Rank
  <1>8. D \in SUBSET Nat
    BY <1>1, <1>5, EndsAre
  <1>9. IsFiniteSet(C) /\ Cardinality(C) = Cardinality(D)
    <2>1. PICK f : f = [i \in D |-> i + l]
      OBVIOUS
    <2>2. f \in [D -> C] /\ (\A c \in C : \E i \in D : f[i] = c)
      BY <1>6, <2>1
    <2>3. \A i, k \in D : f[i] = f[k] => i = k
      BY <1>8, <2>1
    <2>4. f \in Bijection(D, C)
      BY <2>2, <2>3 DEF Bijection, Injection, Surjection, IsInjective
    <2>5. ExistsBijection(D, C)
      BY <2>4 DEF ExistsBijection
    <2> QED BY <1>7, <2>5, FS_Bijection
  <1>10. A = B \cup C
    <2>1. ASSUME NEW q \in A PROVE q \in B \cup C
      <3>1. q \in Ends(text) /\ q <= p /\ q \in Nat
        BY <1>3, <2>1, EndsAre
      <3>2. CASE q <= o
        BY <1>4, <3>1, <3>2
      <3>3. CASE ~ (q <= o)
        <4>1. PICK i \in Ends(all) : i = q - l
          BY <1>1, <1>2, <3>1, <3>3
        <4>2. i \in D /\ q = i + l
          BY <1>2, <1>5, <3>1, <4>1
        <4> QED BY <1>6, <4>2
      <3> QED BY <3>2, <3>3
    <2>2. ASSUME NEW q \in B PROVE q \in A
      BY <1>2, <1>3, <1>4, <2>2, EndsAre
    <2>3. ASSUME NEW q \in C PROVE q \in A
      <3>1. PICK i \in D : q = i + l
        BY <1>6, <2>3
      <3>2. i \in Ends(all) /\ i <= j /\ i \in Nat
        BY <1>5, <1>8
      <3> QED BY <1>1, <1>2, <1>3, <3>1, <3>2
    <2> QED BY <2>1, <2>2, <2>3
  <1>11. B \cap C = {}
    <2>1. \A q \in C : ~ (q <= o)
      <3> SUFFICES ASSUME NEW q \in C PROVE ~ (q <= o)
        OBVIOUS
      <3>1. PICK i \in D : q = i + l
        BY <1>6
      <3>2. i \in Ends(all) /\ i \in Nat
        BY <1>5, <1>8
      <3> QED BY <1>1, <3>1, <3>2
    <2> QED BY <1>4, <2>1
  <1>12. Cardinality(B \cup C) = Cardinality(B) + Cardinality(C)
    <2>1. Cardinality(B \cap C) = 0
      BY <1>11, FS_EmptySet
    <2>2. Cardinality(B \cup C) = Cardinality(B) + Cardinality(C) - Cardinality(B \cap C)
      BY <1>7, <1>9, FS_Union
    <2> QED BY <1>7, <1>9, <2>1, <2>2
  <1> QED BY <1>2, <1>7, <1>9, <1>10, <1>12

(* Two parts of texts are the same.                                        *)
Alike(all, b, j, text, m, p) == SubSeq(all, b + 1, j) = SubSeq(text, m + 1, p)

LEMMA PartOfPart ==
    ASSUME NEW text, NEW o, NEW end, NEW l, NEW all, Shift(text, o, end, l, all),
           NEW b \in Nat, NEW j \in Nat, j <= Len(all), NEW m, m = b + l, NEW p, p = j + l
    PROVE  Alike(all, b, j, text, m, p)
  <1>1. /\ text \in Seq(Unit) /\ l \in Nat /\ end \in Nat /\ end <= Len(text) /\ o \in Nat
        /\ all \in Seq(Unit) /\ Len(all) = end - l /\ l <= o /\ o <= end
        /\ all = SubSeq(text, l + 1, end)
    BY DEF Shift
  <1>2. l <= end
    BY ONLY <1>1
  <1>3. /\ text \in Seq(Unit) /\ l \in Nat /\ end \in Nat /\ end <= Len(text)
        /\ all \in Seq(Unit) /\ Len(all) = end - l /\ l <= end /\ all = SubSeq(text, l + 1, end)
    BY <1>1, <1>2
  <1>4. m \in Nat /\ p \in Nat
    BY <1>3
  <1>5. p <= end /\ p <= Len(text)
    <2>1. Len(text) \in Nat
      BY <1>3, LenProperties
    <2> QED BY <1>3, <1>4, <2>1
  <1>6. PICK x : x = SubSeq(all, b + 1, j)
    OBVIOUS
  <1>7. PICK y : y = SubSeq(text, m + 1, p)
    OBVIOUS
  <1>8. Part(all, b, j, x)
    BY <1>3, <1>6, PartOf
  <1>9. Part(text, m, p, y)
    BY <1>3, <1>4, <1>5, <1>7, PartOf
  <1>10. Part(text, l, end, all)
    BY <1>3, PartOf
  <1>11. Len(x) = Len(y) /\ x \in Seq(Unit) /\ y \in Seq(Unit) /\ (Len(x) = IF b <= j THEN j - b ELSE 0)
    BY <1>3, <1>8, <1>9 DEF Part
  <1>12. \A i \in 1 .. Len(x) : x[i] = y[i]
    <2> SUFFICES ASSUME NEW i \in 1 .. Len(x) PROVE x[i] = y[i]
      OBVIOUS
    <2>1. i \in 1 .. j - b /\ i \in 1 .. p - m /\ b <= j /\ i \in Nat /\ i >= 1
      BY <1>3, <1>11
    <2>2. PICK k \in Nat : k = b + i
      BY <2>1
    <2>3. k \in 1 .. end - l /\ l + k = m + i
      BY <1>3, <2>1, <2>2
    <2>4. x[i] = all[k]
      BY <1>8, <2>1, <2>2 DEF Part
    <2>5. y[i] = text[m + i]
      BY <1>9, <2>1 DEF Part
    <2>6. all[k] = text[l + k]
      BY <1>10, <2>3 DEF Part
    <2> QED BY <2>3, <2>4, <2>5, <2>6
  <1> QED BY <1>6, <1>7, <1>11, <1>12, SeqEqual DEF Alike

(* What the lines of a page are to the lines before it.                    *)
GoOn(r, text, end, l, all) ==
    /\ Recorded(r \o Finished(all, l), text, end)
    /\ EndBefore(text, end + 1) = EndBefore(all, Len(all) + 1) + l
    /\ SubSeq(all, EndBefore(all, Len(all) + 1) + 1, Len(all))
          = SubSeq(text, EndBefore(text, end + 1) + 1, end)

LEMMA FinishedNext ==
    ASSUME NEW text, NEW o, NEW end, NEW l, NEW all, Shift(text, o, end, l, all),
           NEW r, Recorded(r, text, o)
    PROVE  GoOn(r, text, end, l, all)
  <1>1. /\ text \in Seq(Unit) /\ o \in Nat /\ end \in Nat /\ l \in Nat /\ o <= end
        /\ end <= Len(text)
        /\ all \in Seq(Unit) /\ Len(all) = end - l /\ l <= o
        /\ \A i \in Ends(all) : i + l \in Ends(text) /\ o < i + l /\ i + l <= end
        /\ \A q \in Ends(text) : o < q /\ q <= end => q - l \in Ends(all)
    BY DEF Shift
  <1>2. PICK n \in Nat : n = Len(all)
    BY <1>1, LenProperties
  <1>3. end = n + l /\ end + 1 = (n + 1) + l
    BY <1>1, <1>2
  <1>4. PICK b \in Nat : b = EndBefore(all, n + 1)
    <2>1. n + 1 \in Nat
      OBVIOUS
    <2> QED BY <1>1, <2>1, Before
  <1>5. EndBefore(text, end + 1) = b + l
    <2>1. PICK j \in Nat : j = n + 1
      OBVIOUS
    <2>2. PICK p : p = end + 1
      OBVIOUS
    <2>3. p = j + l /\ o < p /\ p <= end + 1
      BY <1>1, <1>3, <2>1, <2>2
    <2>4. EndBefore(text, p) = EndBefore(all, j) + l
      BY <2>3, ShiftedBefore
    <2> QED BY <1>4, <2>1, <2>2, <2>4
  <1>6. SubSeq(all, b + 1, n) = SubSeq(text, (b + l) + 1, end)
    <2>1. PICK m : m = b + l
      OBVIOUS
    <2>2. n <= Len(all)
      BY <1>2
    <2>3. Alike(all, b, n, text, m, end)
      BY ONLY <1>2, <1>3, <1>4, <2>1, <2>2, PartOfPart, Shift(text, o, end, l, all)
    <2> QED BY <2>1, <2>3 DEF Alike
  <1>7. ASSUME NEW j \in Ends(all)
        PROVE  /\ Rank(text, j + l) = Rank(text, o) + Rank(all, j)
               /\ LineAt(text, 0, j + l) = LineAt(all, l, j)
    <2>1. PICK p \in Nat : p = j + l
      BY <1>1, EndsAre
    <2>2. j \in Nat /\ j <= Len(all)
      BY <1>1, EndsAre
    <2>3. o < p /\ p <= end
      BY <1>1, <2>1
    <2>4. o <= p /\ p <= end + 1
      BY <1>1, <2>1, <2>3
    <2>5. Rank(text, p) = Rank(text, o) + Rank(all, j)
      BY <2>1, <2>2, <2>3, <2>4, ShiftedRank
    <2>6. PICK c \in Nat : c = EndBefore(all, j)
      BY <1>1, <2>2, Before
    <2>7. EndBefore(text, p) = c + l
      BY <2>1, <2>2, <2>3, <2>4, <2>6, ShiftedBefore
    <2>8. PICK m : m = c + l
      OBVIOUS
    <2>9. Alike(all, c, j, text, m, p)
      BY ONLY <2>1, <2>2, <2>6, <2>8, PartOfPart, Shift(text, o, end, l, all)
    <2>10. 0 + m = l + c
      BY <1>1, <2>8
    <2>11. LineAt(text, 0, p) = LineAt(all, l, j)
      BY <2>6, <2>7, <2>8, <2>9, <2>10 DEF LineAt, Alike
    <2> QED BY <2>1, <2>5, <2>11
  <1>8. PICK f : f = Finished(all, l)
    OBVIOUS
  <1>9. PICK k \in Nat : k = Rank(text, o)
    BY <1>1, UpToFinite
  <1>10. PICK c \in Nat : c = Rank(all, n) /\ c = Cardinality(Ends(all))
    BY <1>1, <1>2, RankAll
  <1>11. /\ f \in Seq(Shown) /\ Len(f) = c
         /\ \A p \in Ends(all) : f[Rank(all, p)] = LineAt(all, l, p)
    BY <1>1, <1>8, <1>10, FinishedLines
  <1>12. Rank(text, end) = k + c
    <2>1. o <= end /\ end <= end
      BY <1>1
    <2>2. Rank(text, end) = Rank(text, o) + Rank(all, n)
      BY <1>3, <2>1, ShiftedRank
    <2> QED BY <1>9, <1>10, <2>2
  <1>13. PICK t : t = r \o f
    OBVIOUS
  <1>14. /\ t \in Seq(Shown) /\ Len(t) = k + c
         /\ \A i \in 1 .. k + c : t[i] = IF i <= k THEN r[i] ELSE f[i - k]
    <2>1. r \in Seq(Shown) /\ Len(r) = k
      BY <1>9 DEF Recorded
    <2> QED BY <1>11, <1>13, <2>1, ConcatProperties
  <1>15. ASSUME NEW q \in Ends(text), q <= end
         PROVE  t[Rank(text, q)] = LineAt(text, 0, q)
    <2>1. q \in Nat
      BY <1>1, EndsAre
    <2>2. CASE q <= o
      <3>1. Rank(text, q) \in 1 .. k
        <4>1. Rank(text, 0) < Rank(text, q) /\ Rank(text, q) \in Nat /\ Rank(text, 0) = 0
          <5>1. 0 < q
            BY <1>1, EndsAre
          <5> QED BY <1>1, <5>1, RankUp, RankNone, UpToFinite
        <4>2. Rank(text, q) <= k
          <5>1. PICK S : S = {i \in Ends(text) : i <= q}
            OBVIOUS
          <5>2. PICK U : U = {i \in Ends(text) : i <= o}
            OBVIOUS
          <5>3. S \in SUBSET U
            BY <1>1, <2>1, <2>2, <5>1, <5>2, EndsAre
          <5>4. IsFiniteSet(U)
            BY <1>1, <5>2, UpToFinite
          <5> QED BY <1>9, <5>1, <5>2, <5>3, <5>4, FS_Subset DEF Rank
        <4> QED BY <4>1, <4>2
      <3>2. r[Rank(text, q)] = LineAt(text, 0, q)
        BY <2>2 DEF Recorded
      <3> QED BY <1>14, <3>1, <3>2
    <2>3. CASE ~ (q <= o)
      <3>1. PICK j \in Ends(all) : j = q - l
        BY <1>1, <1>15, <2>1, <2>3
      <3>2. q = j + l
        BY <1>1, <2>1, <3>1, EndsAre
      <3>3. PICK i \in 1 .. c : i = Rank(all, j)
        BY <1>1, <1>10, RankWithin
      <3>4. Rank(text, q) = k + i /\ LineAt(text, 0, q) = LineAt(all, l, j)
        BY <1>7, <1>9, <3>2, <3>3
      <3>5. PICK x \in Nat : x = k + i
        OBVIOUS
      <3>6. x \in 1 .. k + c /\ ~ (x <= k) /\ x - k = i
        BY <3>5
      <3>7. t[x] = f[i]
        BY <1>14, <3>6
      <3> QED BY <1>11, <3>3, <3>4, <3>5, <3>7
    <2> QED BY <2>2, <2>3
  <1>16. Recorded(t, text, end)
    BY <1>12, <1>14, <1>15 DEF Recorded
  <1> QED BY <1>2, <1>3, <1>4, <1>5, <1>6, <1>8, <1>13, <1>16 DEF GoOn

-----------------------------------------------------------------------------
(* One page.                                                               *)

LEMMA LeastOfTwo ==
    ASSUME NEW a \in Nat, NEW b \in Nat
    PROVE  Min({a, b}) \in Nat /\ Min({a, b}) <= a /\ Min({a, b}) <= b /\ Min({a, b}) \in {a, b}
  <1>1. \E m \in {a, b} : \A y \in {a, b} : m <= y
    OBVIOUS
  <1> QED BY <1>1 DEF Min

LEMMA PageEnds ==
    ASSUME NEW e, NEW limit \in Nat, NEW text \in Seq(Unit), text = e.text[e.file],
           e.offset \in Nat, e.offset <= Len(text)
    PROVE  PageEnd(e, limit) \in Nat /\ e.offset <= PageEnd(e, limit) /\ PageEnd(e, limit) <= Len(text)
  <1>1. PICK o \in Nat : o = e.offset
    OBVIOUS
  <1>2. PICK n \in Nat : n = Len(text) /\ o <= n
    BY <1>1, LenProperties
  <1>3. PICK top \in Nat : top = Min({n, o + limit}) /\ o <= top /\ top <= n
    <2>1. PICK b \in Nat : b = o + limit
      OBVIOUS
    <2>2. Min({n, b}) \in Nat /\ Min({n, b}) <= n /\ Min({n, b}) \in {n, b}
      BY LeastOfTwo
    <2> QED BY <1>2, <2>1, <2>2
  <1>4. PICK S : S = {p \in o .. top :
                        Cardinality({q \in Ends(text) : q > o /\ q < p}) < PageRecords}
    OBVIOUS
  <1>5. S \in SUBSET Nat /\ (\A p \in S : o <= p /\ p <= top)
    BY <1>4
  <1>6. o \in S
    <2>1. {q \in Ends(text) : q > o /\ q < o} = {}
      BY EndsAre
    <2>2. Cardinality({}) = 0
      BY FS_EmptySet
    <2>3. PageRecords \in Nat /\ 0 < PageRecords
      BY SizesAssumption
    <2>4. o \in o .. top
      BY <1>3
    <2>5. Cardinality({q \in Ends(text) : q > o /\ q < o}) < PageRecords
      BY <2>1, <2>2, <2>3
    <2> QED BY <1>4, <2>4, <2>5
  <1>7. Max(S) \in S
    BY <1>5, <1>6, MaxOf
  <1>8. PageEnd(e, limit) = Max(S)
    BY <1>1, <1>2, <1>3, <1>4 DEF PageEnd
  <1>9. PICK end \in Nat : end = Max(S) /\ o <= end /\ end <= top
    BY <1>5, <1>7
  <1>10. end <= n
    BY ONLY <1>2, <1>3, <1>9
  <1> QED BY <1>1, <1>2, <1>8, <1>9, <1>10

(* A part of a text and the part after it.                                 *)
Adjoin(text, l, o, end) ==
    SubSeq(text, l + 1, o) \o SubSeq(text, o + 1, end) = SubSeq(text, l + 1, end)

LEMMA Adjacent ==
    ASSUME NEW S, NEW text \in Seq(S), NEW l \in Nat, NEW o \in Nat, NEW end \in Nat,
           l <= o, o <= end, end <= Len(text)
    PROVE  Adjoin(text, l, o, end)
  <1>1. PICK m \in 1 .. Len(text) + 1 : m = l + 1
    OBVIOUS
  <1>2. o \in m - 1 .. Len(text) /\ end \in o .. Len(text)
    BY <1>1
  <1>3. SubSeq(text, m, o) \o SubSeq(text, o + 1, end) = SubSeq(text, m, end)
    BY <1>2, ConcatAdjacentSubSeq
  <1> QED BY <1>1, <1>3 DEF Adjoin

(* What a page leaves of the lines: r are those given before it.           *)
Continued(r, text, end, lines) ==
    /\ Recorded(r \o lines.records, text, end)
    /\ lines.lineOffset = EndBefore(text, end + 1)
    /\ lines.line = SubSeq(text, lines.lineOffset + 1, end)

(* What the lines of a page up to end are to those up to o.                *)
LinesGive(e, text, o, end) ==
    \A r : Recorded(r, text, o) =>
            /\ end # Len(text) => Continued(r, text, end, PageLines(e, end))
            /\ end = Len(text) => r \o PageLines(e, end).records = Lines(text)

LEMMA PageLinesGoOn ==
    ASSUME NEW e, NEW text \in Seq(Unit), text = e.text[e.file],
           NEW o \in Nat, o = e.offset, NEW end \in Nat, o <= end, end <= Len(text),
           e.lineOffset = EndBefore(text, o + 1), e.line = SubSeq(text, e.lineOffset + 1, o)
    PROVE  LinesGive(e, text, o, end)
  <1> SUFFICES ASSUME NEW r, Recorded(r, text, o)
               PROVE  /\ end # Len(text) => Continued(r, text, end, PageLines(e, end))
                      /\ end = Len(text) => r \o PageLines(e, end).records = Lines(text)
    BY DEF LinesGive
  <1>1. PICK l \in Nat : l = EndBefore(text, o + 1) /\ l <= o
    <2>1. PICK p \in Nat : p = o + 1
      OBVIOUS
    <2>2. EndBefore(text, p) \in Nat /\ (EndBefore(text, p) = 0 \/ EndBefore(text, p) < p)
      BY Before
    <2> QED BY <2>1, <2>2
  <1>2. PICK all : all = SubSeq(text, l + 1, end)
    OBVIOUS
  <1>3. e.line \o SubSeq(text, o + 1, end) = all
    <2>1. l \in Nat /\ l <= o /\ Adjoin(text, l, o, end)
      BY <1>1, Adjacent
    <2> QED BY <1>1, <1>2, <2>1 DEF Adjoin
  <1>4. Shift(text, o, end, l, all)
    BY <1>1, <1>2, Shifted
  <1>5. PICK n \in Nat : n = Len(all) /\ n = end - l /\ all \in Seq(Unit)
    BY <1>4, LenProperties DEF Shift
  <1>6. PICK last \in Nat : last = EndBefore(all, n + 1)
    <2>1. PICK p \in Nat : p = n + 1
      OBVIOUS
    <2> QED BY <1>5, <2>1, Before
  <1>7. PICK m \in Nat : m = EndBefore(text, end + 1) /\ m <= end
    <2>1. PICK p \in Nat : p = end + 1
      OBVIOUS
    <2>2. EndBefore(text, p) \in Nat /\ (EndBefore(text, p) = 0 \/ EndBefore(text, p) < p)
      BY Before
    <2> QED BY <2>1, <2>2
  <1>8. PICK tail : tail = SubSeq(text, m + 1, end)
    OBVIOUS
  <1>9. PICK f : f = Finished(all, l)
    OBVIOUS
  <1>10. /\ Recorded(r \o f, text, end) /\ m = last + l
         /\ SubSeq(all, last + 1, n) = tail
    <2>1. GoOn(r, text, end, l, all)
      BY <1>4, FinishedNext
    <2> QED BY <1>5, <1>6, <1>7, <1>8, <1>9, <2>1 DEF GoOn
  <1>11. f \in Seq(Shown) /\ r \in Seq(Shown)
    BY <1>5, <1>9, FinishedLines DEF Recorded
  <1>12. PICK lines : lines = PageLines(e, end)
    OBVIOUS
  <1>13. /\ lines.records = f \o (IF end = Len(text) /\ tail # << >>
                                  THEN << FinishLine(m, tail, TRUE) >> ELSE << >>)
         /\ lines.line = IF end = Len(text) /\ tail # << >> THEN << >> ELSE tail
         /\ lines.lineOffset = m
    <2>1. l + last = m
      BY <1>10
    <2>2. e.lineOffset = l
      BY <1>1
    <2> QED BY <1>3, <1>5, <1>6, <1>9, <1>10, <1>12, <2>1, <2>2 DEF PageLines
  <1>14. CASE end # Len(text)
    <2>1. lines.records = f
      BY <1>11, <1>13, <1>14, ConcatEmptySeq
    <2> QED BY <1>7, <1>8, <1>10, <1>12, <1>13, <1>14, <2>1 DEF Continued
  <1>15. CASE end = Len(text)
    <2>1. r \o f = Finished(text, 0)
      BY <1>10, <1>15, RecordedAll
    <2>2. tail = << >> <=> m = end
      <3>1. Len(tail) = IF m <= end THEN end - m ELSE 0
        BY <1>8, PartOf DEF Part
      <3>2. tail \in Seq(Unit)
        BY <1>8, PartOf DEF Part
      <3>3. tail = << >> <=> Len(tail) = 0
        BY <3>2, EmptySeq
      <3> QED BY <1>7, <3>1, <3>3
    <2>3. PICK x : x = IF m = end THEN << >> ELSE << FinishLine(m, tail, TRUE) >>
      OBVIOUS
    <2>4. lines.records = f \o x
      BY <1>13, <1>15, <2>2, <2>3
    <2>5. x \in Seq(Shown)
      <3>1. tail \in Seq(Unit)
        BY <1>8, PartOf DEF Part
      <3>2. PICK torn \in Shown : torn = FinishLine(m, tail, TRUE)
        BY <3>1, ShownLine
      <3>3. << torn >> \in Seq(Shown) /\ << >> \in Seq(Shown)
        OBVIOUS
      <3> QED BY <2>3, <3>2, <3>3
    <2>6. r \o (f \o x) = (r \o f) \o x
      BY ONLY <1>11, <2>5, ConcatAssociative
    <2>7. Lines(text) = Finished(text, 0) \o x
      BY <1>7, <1>8, <1>15, <2>3 DEF Lines
    <2> QED BY <1>12, <1>15, <2>1, <2>4, <2>6, <2>7
  <1> QED BY <1>14, <1>15

-----------------------------------------------------------------------------
(* What the client put together, and where the export it is of continues.  *)

Sequence(p) == p \in Seq({p[i] : i \in DOMAIN p})

Cursor == [export : Nat, seq : Nat]

(* The last export there can be.                                           *)
Known == IF job = Idle THEN Token ELSE Token - 1

Pending == {in[k] : k \in DOMAIN in} \cup (IF job = Idle THEN {} ELSE {job.line})

Answers == {out[k] : k \in DOMAIN out}

(* What Receive makes of a page.                                           *)
After(g, page) ==
    [g EXCEPT !.cursor = page.next, !.raw = page.file # 0,
              !.complete = page.complete, !.whole = page.whole,
              !.data[page.file] = @ \o page.data,
              !.records[page.file] = @ \o page.records]

Shape(g) == /\ {"raw", "cursor", "data", "records", "complete", "whole"} \subseteq DOMAIN g
            /\ g.complete \in BOOLEAN
            /\ DOMAIN g.data = 0 .. FileCount /\ DOMAIN g.records = 0 .. FileCount

Exact(g) ==
    IF g.raw
    THEN \A i \in Index : g.data[i] = g.whole[i] /\ g.records[i] = Lines(g.whole[i])
    ELSE g.data[0] = g.whole

(* An export as its pages leave it.                                        *)
At(e) ==
    IF e.raw
    THEN LET text == e.text[e.file]
         IN  /\ \A i \in Index : e.text[i] \in Seq(Unit)
             /\ e.file \in Index /\ e.offset \in Nat /\ e.offset <= Len(text)
             /\ e.lineOffset = EndBefore(text, e.offset + 1)
             /\ e.line = SubSeq(text, e.lineOffset + 1, e.offset)
    ELSE LET parts == Parts(e.history)
         IN  Sequence(parts) /\ e.offset \in Nat /\ e.offset <= Len(parts)

Common == {"raw", "seq", "previous", "last", "complete", "offset"}
Fields(e) == IF e.raw THEN Common \cup {"text", "file", "cached", "line", "lineOffset"}
             ELSE Common \cup {"history"}

Good(e) ==
    /\ Common \subseteq DOMAIN e /\ e.raw \in BOOLEAN /\ Fields(e) \subseteq DOMAIN e
    /\ e.seq \in Nat /\ e.complete \in BOOLEAN
    /\ e.previous = IF e.seq <= 1 THEN None ELSE e.seq - 1
    /\ ~ e.complete => At(e)

(* The client has what was given of it.                                    *)
Partial(g, e) ==
    IF e.raw
    THEN \A i \in Index :
            LET text == e.text[i]
            IN  IF i < e.file THEN g.data[i] = text /\ g.records[i] = Lines(text)
                ELSE IF i = e.file
                THEN g.data[i] = SubSeq(text, 1, e.offset) /\ Recorded(g.records[i], text, e.offset)
                ELSE g.data[i] = << >> /\ g.records[i] = << >>
    ELSE g.data[0] = SubSeq(Parts(e.history), 1, e.offset)

Reached(g, e, id) ==
    /\ Shape(g)
    /\ IF e.complete THEN g.complete /\ g.cursor = None /\ Exact(g)
       ELSE ~ g.complete /\ g.cursor = [export |-> id, seq |-> e.seq] /\ Partial(g, e)

Behind(line, g) ==
    line.cursor # None /\ line.cursor.export = g.cursor.export => line.cursor.seq <= g.cursor.seq

Fits(g) ==
    /\ Shape(g)
    /\ g.complete => g.cursor = None /\ Exact(g)
    /\ g.cursor = None /\ ~ g.complete => g = Started
    /\ g.cursor # None =>
         /\ g.cursor \in Cursor /\ g.cursor.export <= Known
         /\ \A line \in Pending : Behind(line, g)
         /\ \A id \in DOMAIN exports : id = g.cursor.export =>
              \/ Reached(g, exports[id], id)
              \/ exports[id].previous = g.cursor.seq
                 /\ Reached(After(g, exports[id].last), exports[id], id)

Same(a, b) == DOMAIN a = DOMAIN b /\ \A f \in DOMAIN b : f # "old" => a[f] = b[f]

LineFits(line) ==
    /\ line.limit \in Nat /\ line.id \in Id /\ (line.id # None => line.id <= sent)
    /\ line.cursor = None \/ (line.cursor \in Cursor /\ line.cursor.export <= Known)
    /\ asking # None /\ line.id = asking => line.cursor = got.cursor

(* A later page is of another export, or further on.                       *)
Onward(g, h) ==
    g.cursor # None /\ h.cursor # None /\ g.cursor.export = h.cursor.export
        => g.cursor.seq <= h.cursor.seq

AnswerFits(a) ==
    /\ a.id \in Nat /\ a.id <= sent
    /\ asking # None /\ a.id = asking /\ a.kind = "page"
         => Fits(After(got, a.page)) /\ Onward(got, After(got, a.page))

(* The export e, known as id, is the one the line asks a page of.           *)
Works(id, e) ==
    /\ Good(e) /\ ~ e.complete
    /\ IF Line.cursor = None THEN id = Token /\ e.seq = 0 /\ Partial(Started, e)
       ELSE /\ id = Line.cursor.export /\ id \in DOMAIN exports
            /\ Same(exports[id], e) /\ Line.cursor.seq = e.seq

JobFits ==
    job.pc \in Paging \cup {"reread"} =>
        Works(job.export, job.e) /\ (job.e.raw <=> job.pc \in Paging)

ExportInv ==
    /\ Len(in) <= sent
    /\ \A id \in DOMAIN exports :
         id \in Nat /\ id <= Known /\ Good(exports[id]) /\ exports[id].seq >= 1
    /\ asking # None => asking \in Nat /\ asking <= sent /\ ~ got.complete
    /\ Fits(got)
    /\ \A line \in Pending : LineFits(line)
    /\ \A a \in Answers : AnswerFits(a)
    /\ JobFits

LEMMA RecordedThere ==
    ASSUME NEW text \in Seq(Unit), NEW o \in Nat PROVE \E r : Recorded(r, text, o)
  <1>1. PICK n \in Nat : n = Rank(text, o)
    BY UpToFinite
  <1>2. PICK r : r = [k \in 1 .. n |-> LineAt(text, 0, EndAt(text, k))]
    OBVIOUS
  <1>3. \A k \in 1 .. n : EndAt(text, k) \in Ends(text)
    <2> SUFFICES ASSUME NEW k \in 1 .. n PROVE EndAt(text, k) \in Ends(text)
      OBVIOUS
    <2>1. PICK p \in Ends(text) : Rank(text, p) = k
      BY <1>1, RankEach
    <2> QED BY <2>1, EndAtIs
  <1>4. \A k \in 1 .. n : LineAt(text, 0, EndAt(text, k)) \in Shown
    BY <1>3, LineAtShown
  <1>5. r \in [1 .. n -> Shown]
    BY <1>2, <1>4
  <1>6. r \in Seq(Shown) /\ Len(r) = n
    BY <1>5
  <1>7. ASSUME NEW p \in Ends(text), p <= o PROVE r[Rank(text, p)] = LineAt(text, 0, p)
    <2>1. PICK k \in Nat : k = Rank(text, p)
      BY UpToFinite
    <2>2. k \in 1 .. n
      <3>1. 1 <= k
        BY <2>1, RankWithin
      <3>2. PICK S : S = {i \in Ends(text) : i <= p}
        OBVIOUS
      <3>3. PICK U : U = {i \in Ends(text) : i <= o}
        OBVIOUS
      <3>4. S \in SUBSET U
        BY <1>7, <3>2, <3>3, EndsAre
      <3>5. IsFiniteSet(U)
        BY <3>3, UpToFinite
      <3>6. k <= n
        BY <1>1, <2>1, <3>2, <3>3, <3>4, <3>5, FS_Subset DEF Rank
      <3> QED BY <3>1, <3>6
    <2>3. EndAt(text, k) = p
      BY <2>1, EndAtIs
    <2> QED BY <1>2, <2>1, <2>2, <2>3
  <1> QED BY <1>1, <1>6, <1>7 DEF Recorded

LEMMA AfterIs ==
    ASSUME NEW g, NEW page, Shape(g), page.file \in 0 .. FileCount, page.complete \in BOOLEAN,
           NEW h, h = After(g, page)
    PROVE  /\ Shape(h) /\ h.cursor = page.next /\ h.raw = (page.file # 0)
           /\ h.complete = page.complete /\ h.whole = page.whole
           /\ \A i \in 0 .. FileCount :
                /\ h.data[i] = IF i = page.file THEN g.data[i] \o page.data ELSE g.data[i]
                /\ h.records[i] = IF i = page.file THEN g.records[i] \o page.records
                                  ELSE g.records[i]
  <1>1. PICK f \in 0 .. FileCount : f = page.file
    OBVIOUS
  <1>2. PICK data : data = [g.data EXCEPT ![f] = g.data[f] \o page.data]
    OBVIOUS
  <1>3. PICK records : records = [g.records EXCEPT ![f] = g.records[f] \o page.records]
    OBVIOUS
  <1>4. /\ DOMAIN h = DOMAIN g /\ h.cursor = page.next /\ h.raw = (page.file # 0)
        /\ h.complete = page.complete /\ h.whole = page.whole
        /\ h.data = data /\ h.records = records
    BY <1>1, <1>2, <1>3 DEF Shape, After
  <1>5. DOMAIN data = 0 .. FileCount /\ DOMAIN records = 0 .. FileCount
    BY <1>2, <1>3 DEF Shape
  <1>6. \A i \in 0 .. FileCount :
                /\ data[i] = IF i = f THEN g.data[i] \o page.data ELSE g.data[i]
                /\ records[i] = IF i = f THEN g.records[i] \o page.records ELSE g.records[i]
    BY <1>2, <1>3 DEF Shape
  <1> QED BY <1>1, <1>4, <1>5, <1>6 DEF Shape

(* An export f that a page takes on from e.                                *)
Turned(e, f, id) ==
    /\ Good(f) /\ f.raw = e.raw /\ f.seq = e.seq + 1
    /\ f.last.next = IF f.complete THEN None ELSE [export |-> id, seq |-> f.seq]
    /\ \A g : Shape(g) /\ Partial(g, e) => Reached(After(g, f.last), f, id)

(* The page of a raw export, and what it makes of the export.              *)
PageIs(e, id, limit, page, f) ==
    LET end == PageEnd(e, limit)
        lines == PageLines(e, end)
        text == e.text[e.file]
    IN  /\ page.file = e.file /\ page.data = SubSeq(text, e.offset + 1, end)
        /\ page.records = lines.records
        /\ page.complete = (end = Len(text) /\ e.file = FileCount) /\ page.whole = e.text
        /\ page.next = IF page.complete THEN None ELSE [export |-> id, seq |-> e.seq + 1]
        /\ DOMAIN f = DOMAIN e /\ f.raw = e.raw /\ f.text = e.text
        /\ f.seq = e.seq + 1 /\ f.previous = (IF e.seq = 0 THEN None ELSE e.seq)
        /\ f.last = page /\ f.complete = page.complete
        /\ IF end = Len(text) /\ ~ page.complete
           THEN f.file = e.file + 1 /\ f.offset = 0 /\ f.line = << >> /\ f.lineOffset = 0
           ELSE /\ f.file = e.file /\ f.offset = end
                /\ f.line = lines.line /\ f.lineOffset = lines.lineOffset

LEMMA PageFields ==
    ASSUME NEW e, Good(e), e.raw, NEW id, NEW limit, NEW n, n = PageOf(e, id, limit)
    PROVE  PageIs(e, id, limit, n.page, n.export)
  <1> PICK end : end = PageEnd(e, limit)
    OBVIOUS
  <1> PICK lines : lines = PageLines(e, end)
    OBVIOUS
  <1> PICK text : text = e.text[e.file]
    OBVIOUS
  <1> PICK page : page = n.page
    OBVIOUS
  <1> PICK f : f = n.export
    OBVIOUS
  <1>1. {"raw", "seq", "previous", "last", "complete", "offset", "text", "file", "cached",
         "line", "lineOffset"} \subseteq DOMAIN e
    BY DEF Good, Fields, Common
  <1>2. /\ page.file = e.file /\ page.data = SubSeq(text, e.offset + 1, end)
        /\ page.records = lines.records
        /\ page.complete = (end = Len(text) /\ e.file = FileCount) /\ page.whole = e.text
        /\ page.next = IF page.complete THEN None ELSE [export |-> id, seq |-> e.seq + 1]
    BY DEF PageOf
  <1>3. PICK on : on = Given(e, page)
    OBVIOUS
  <1>4. /\ DOMAIN on = DOMAIN e /\ on.seq = e.seq + 1 /\ on.last = page
        /\ on.previous = (IF e.seq = 0 THEN None ELSE e.seq) /\ on.complete = page.complete
        /\ on.raw = e.raw /\ on.text = e.text /\ on.file = e.file
        /\ on.cached = e.cached
    BY <1>1, <1>3 DEF Given
  <1>5. f = IF end = Len(text) /\ ~ page.complete
            THEN [on EXCEPT !.file = @ + 1, !.offset = 0, !.cached = None,
                            !.line = << >>, !.lineOffset = 0]
            ELSE [on EXCEPT !.offset = end, !.line = lines.line,
                            !.lineOffset = lines.lineOffset,
                            !.cached = IF end = e.offset THEN @ ELSE BlockOf(end)]
    BY <1>2, <1>3 DEF PageOf
  <1>6. CASE end = Len(text) /\ ~ page.complete
    <2>1. f = [on EXCEPT !.file = @ + 1, !.offset = 0, !.cached = None,
                            !.line = << >>, !.lineOffset = 0]
      BY <1>5, <1>6
    <2>2. /\ DOMAIN f = DOMAIN e /\ f.raw = on.raw /\ f.text = on.text /\ f.seq = on.seq
          /\ f.previous = on.previous /\ f.last = on.last /\ f.complete = on.complete
          /\ f.file = on.file + 1 /\ f.offset = 0 /\ f.line = << >> /\ f.lineOffset = 0
      BY <1>1, <1>4, <2>1
    <2> QED BY <1>2, <1>4, <1>6, <2>2 DEF PageIs
  <1>7. CASE ~ (end = Len(text) /\ ~ page.complete)
    <2>1. f = [on EXCEPT !.offset = end, !.line = lines.line,
                            !.lineOffset = lines.lineOffset,
                            !.cached = IF end = e.offset THEN @ ELSE BlockOf(end)]
      BY <1>5, <1>7
    <2>2. PICK c : c = IF end = e.offset THEN on.cached ELSE BlockOf(end)
      OBVIOUS
    <2>3. PICK a : a = lines.line
      OBVIOUS
    <2>4. PICK b : b = lines.lineOffset
      OBVIOUS
    <2>5. f = [on EXCEPT !.offset = end, !.line = a, !.lineOffset = b, !.cached = c]
      BY <2>1, <2>2, <2>3, <2>4
    <2>6. {"raw", "seq", "previous", "last", "complete", "offset", "text", "file", "cached",
         "line", "lineOffset"} \subseteq DOMAIN on
      BY <1>1, <1>4
    <2>7. /\ DOMAIN f = DOMAIN e /\ f.raw = on.raw /\ f.text = on.text /\ f.seq = on.seq
          /\ f.previous = on.previous /\ f.last = on.last /\ f.complete = on.complete
          /\ f.file = on.file /\ f.offset = end
          /\ f.line = lines.line /\ f.lineOffset = lines.lineOffset
      BY ONLY <1>4, <2>5, <2>6, <2>3, <2>4
    <2> QED BY <1>2, <1>4, <1>7, <2>7 DEF PageIs
  <1> QED BY <1>6, <1>7

LEMMA NoneBefore ==
    ASSUME NEW text \in Seq(Unit)
    PROVE  EndBefore(text, 1) = 0 /\ SubSeq(text, 1, 0) = << >>
  <1>1. EndBefore(text, 1) = 0
    <2>1. PICK m : m = 0
      OBVIOUS
    <2>2. PICK p \in Nat : p = 1
      OBVIOUS
    <2>3. \A q \in Ends(text) : q < p => q <= m
      BY <2>2, EndsAre
    <2>4. EndBefore(text, p) = m
      BY <2>1, <2>3, BeforeIs
    <2> QED BY <2>1, <2>2, <2>4
  <1>2. SubSeq(text, 1, 0) = << >>
    BY SubSeqEmpty
  <1> QED BY <1>1, <1>2

LEMMA RawTurned ==
    ASSUME NEW e, Good(e), e.raw, ~ e.complete, NEW id \in Nat, NEW limit \in Nat,
           NEW f, f = PageOf(e, id, limit).export
    PROVE  Turned(e, f, id)
  <1>1. PICK text : text = e.text[e.file]
    OBVIOUS
  <1>2. /\ \A i \in Index : e.text[i] \in Seq(Unit)
        /\ e.file \in Index /\ e.offset \in Nat /\ e.offset <= Len(text) /\ text \in Seq(Unit)
        /\ e.lineOffset = EndBefore(text, e.offset + 1)
        /\ e.line = SubSeq(text, e.lineOffset + 1, e.offset)
    BY <1>1 DEF Good, At
  <1>3. PICK o \in Nat : o = e.offset
    BY <1>2
  <1>4. PICK end \in Nat : end = PageEnd(e, limit) /\ o <= end /\ end <= Len(text)
    BY <1>1, <1>2, <1>3, PageEnds
  <1>5. PICK lines : lines = PageLines(e, end)
    OBVIOUS
  <1>6. PICK n : n = PageOf(e, id, limit)
    OBVIOUS
  <1>7. PICK page : page = n.page
    OBVIOUS
  <1>8. /\ page.file = e.file /\ page.data = SubSeq(text, e.offset + 1, end)
        /\ page.records = lines.records
        /\ page.complete = (end = Len(text) /\ e.file = FileCount) /\ page.whole = e.text
        /\ page.next = IF page.complete THEN None ELSE [export |-> id, seq |-> e.seq + 1]
        /\ DOMAIN f = DOMAIN e /\ f.raw = e.raw /\ f.text = e.text
        /\ f.seq = e.seq + 1 /\ f.previous = (IF e.seq = 0 THEN None ELSE e.seq)
        /\ f.last = page /\ f.complete = page.complete
        /\ IF end = Len(text) /\ ~ page.complete
           THEN f.file = e.file + 1 /\ f.offset = 0 /\ f.line = << >> /\ f.lineOffset = 0
           ELSE /\ f.file = e.file /\ f.offset = end
                /\ f.line = lines.line /\ f.lineOffset = lines.lineOffset
    <2>1. PageIs(e, id, limit, n.page, n.export)
      BY <1>6, PageFields
    <2>2. PageIs(e, id, limit, page, f)
      BY <1>6, <1>7, <2>1
    <2> QED BY <1>1, <1>4, <1>5, <2>2 DEF PageIs
  <1>9. FileCount \in Nat /\ FileCount >= 1 /\ Index \subseteq 0 .. FileCount
    BY SizesAssumption DEF Index
  <1>10. ASSUME NEW r, Recorded(r, text, o)
         PROVE  /\ end # Len(text) => Continued(r, text, end, lines)
                /\ end = Len(text) => r \o lines.records = Lines(text)
    <2>1. LinesGive(e, text, o, end)
      BY <1>1, <1>2, <1>3, <1>4, PageLinesGoOn
    <2> QED BY <1>5, <1>10, <2>1 DEF LinesGive
  <1>11. PICK F \in Index : F = e.file
    BY <1>2
  <1>12. Len(text) \in Nat
    BY <1>2, LenProperties
  <1>13. end = Len(text) /\ ~ page.complete => F + 1 \in Index /\ F < FileCount
    <2> SUFFICES ASSUME end = Len(text), ~ page.complete PROVE F + 1 \in Index /\ F < FileCount
      OBVIOUS
    <2>1. F # FileCount
      BY <1>8, <1>11
    <2> QED BY <1>9, <1>11, <2>1 DEF Index
  <1>14. ~ f.complete => At(f)
    <2> SUFFICES ASSUME ~ f.complete PROVE At(f)
      OBVIOUS
    <2>1. CASE end = Len(text)
      <3>1. f.file = F + 1 /\ f.offset = 0 /\ f.line = << >> /\ f.lineOffset = 0 /\ F + 1 \in Index
        BY <1>8, <1>11, <1>13, <2>1
      <3>2. PICK t \in Seq(Unit) : t = f.text[f.file]
        BY <1>2, <1>8, <3>1
      <3>3. EndBefore(t, 1) = 0 /\ SubSeq(t, 1, 0) = << >> /\ 0 <= Len(t)
        BY NoneBefore, LenProperties
      <3>4. f.raw /\ f.lineOffset = EndBefore(t, f.offset + 1)
            /\ f.line = SubSeq(t, f.lineOffset + 1, f.offset)
        BY <1>8, <3>1, <3>3
      <3> QED BY <1>2, <1>8, <3>1, <3>2, <3>3, <3>4 DEF At
    <2>2. CASE end # Len(text)
      <3>1. PICK r : Recorded(r, text, o)
        BY <1>2, RecordedThere
      <3>2. Continued(r, text, end, lines)
        BY <1>10, <2>2, <3>1
      <3>3. f.file = F /\ f.offset = end /\ f.line = lines.line /\ f.lineOffset = lines.lineOffset
        BY <1>8, <1>11, <2>2
      <3> QED BY <1>1, <1>2, <1>4, <1>8, <1>11, <3>2, <3>3 DEF At, Continued
    <2> QED BY <2>1, <2>2
  <1>15. Good(f)
    <2>1. Common \subseteq DOMAIN f /\ f.raw \in BOOLEAN /\ Fields(f) \subseteq DOMAIN f /\ e.seq \in Nat
      BY <1>8 DEF Good, Fields
    <2>2. f.seq \in Nat /\ f.previous = IF f.seq <= 1 THEN None ELSE f.seq - 1
      <3>1. PICK s \in Nat : s = e.seq
        BY <2>1
      <3> QED BY <1>8, <3>1
    <2>3. f.complete \in BOOLEAN
      BY <1>8
    <2> QED BY <1>14, <2>1, <2>2, <2>3 DEF Good
  <1>16. ASSUME NEW g, Shape(g), Partial(g, e) PROVE Reached(After(g, f.last), f, id)
    <2>1. PICK h : h = After(g, page)
      OBVIOUS
    <2>2. /\ Shape(h) /\ h.cursor = page.next /\ h.raw = (page.file # 0)
          /\ h.complete = page.complete /\ h.whole = page.whole
          /\ \A i \in 0 .. FileCount :
                /\ h.data[i] = IF i = page.file THEN g.data[i] \o page.data ELSE g.data[i]
                /\ h.records[i] = IF i = page.file THEN g.records[i] \o page.records
                                  ELSE g.records[i]
      <3>1. page.file \in 0 .. FileCount /\ page.complete \in BOOLEAN
        BY <1>2, <1>8, <1>9
      <3> QED BY <1>16, <2>1, <3>1, AfterIs
    <2>3. /\ \A i \in Index : i < F => g.data[i] = e.text[i] /\ g.records[i] = Lines(e.text[i])
          /\ g.data[F] = SubSeq(text, 1, o) /\ Recorded(g.records[F], text, o)
          /\ \A i \in Index : ~ (i < F) /\ i # F => g.data[i] = << >> /\ g.records[i] = << >>
      <3>1. \A i \in Index :
              IF i < F THEN g.data[i] = e.text[i] /\ g.records[i] = Lines(e.text[i])
              ELSE IF i = F
              THEN g.data[i] = SubSeq(e.text[i], 1, o) /\ Recorded(g.records[i], e.text[i], o)
              ELSE g.data[i] = << >> /\ g.records[i] = << >>
        BY <1>3, <1>11, <1>16 DEF Partial
      <3>2. F \in Index /\ ~ (F < F) /\ e.text[F] = text
        BY <1>1, <1>11 DEF Index
      <3> QED BY <3>1, <3>2
    <2>4. h.data[F] = SubSeq(text, 1, end)
      <3>1. PICK l \in Nat : l = 0
        OBVIOUS
      <3>2. Adjoin(text, l, o, end)
        BY <1>2, <1>4, <3>1, Adjacent
      <3>3. SubSeq(text, 1, o) \o SubSeq(text, o + 1, end) = SubSeq(text, 1, end)
        BY <3>1, <3>2 DEF Adjoin
      <3>4. h.data[F] = g.data[F] \o page.data
        BY <1>8, <1>9, <1>11, <2>2
      <3>5. page.data = SubSeq(text, o + 1, end) /\ g.data[F] = SubSeq(text, 1, o)
        BY <1>3, <1>8, <2>3
      <3> QED BY <3>3, <3>4, <3>5
    <2>5. h.records[F] = g.records[F] \o lines.records
      BY <1>8, <1>9, <1>11, <2>2
    <2>6. \A i \in Index : i # F => h.data[i] = g.data[i] /\ h.records[i] = g.records[i]
      BY <1>8, <1>9, <1>11, <2>2
    <2>7. end = Len(text) => h.data[F] = text /\ h.records[F] = Lines(text)
      BY <1>2, <1>10, <2>3, <2>4, <2>5, SubSeqFull
    <2>8. CASE end # Len(text)
      <3>1. f.file = F /\ f.offset = end /\ ~ f.complete
        BY <1>8, <1>11, <2>8
      <3>2. Recorded(h.records[F], text, end)
        BY <1>10, <2>3, <2>5, <2>8 DEF Continued
      <3>3. Partial(h, f)
        <4>1. f.text[F] = text /\ f.text = e.text /\ f.raw
          BY <1>1, <1>8, <1>11
        <4>2. \A i \in Index :
                IF i < F THEN h.data[i] = f.text[i] /\ h.records[i] = Lines(f.text[i])
                ELSE IF i = F
                THEN h.data[i] = SubSeq(f.text[i], 1, end) /\ Recorded(h.records[i], f.text[i], end)
                ELSE h.data[i] = << >> /\ h.records[i] = << >>
          <5> SUFFICES ASSUME NEW i \in Index
                PROVE  IF i < F THEN h.data[i] = f.text[i] /\ h.records[i] = Lines(f.text[i])
                       ELSE IF i = F
                       THEN /\ h.data[i] = SubSeq(f.text[i], 1, end)
                            /\ Recorded(h.records[i], f.text[i], end)
                       ELSE h.data[i] = << >> /\ h.records[i] = << >>
            OBVIOUS
          <5>1. CASE i = F
            <6>1. ~ (i < F)
              BY <1>11, <5>1 DEF Index
            <6> QED BY <2>4, <3>2, <4>1, <5>1, <6>1
          <5>2. CASE i # F
            BY <2>3, <2>6, <4>1, <5>2
          <5> QED BY <5>1, <5>2
        <4> QED BY <3>1, <4>1, <4>2 DEF Partial
      <3>4. ~ h.complete /\ h.cursor = [export |-> id, seq |-> f.seq]
        BY <1>8, <2>2, <3>1
      <3> QED BY <1>8, <2>1, <3>1, <3>3, <3>4, <2>2 DEF Reached
    <2>9. CASE end = Len(text) /\ ~ f.complete
      <3>1. f.file = F + 1 /\ f.offset = 0 /\ F + 1 \in Index
        BY <1>8, <1>11, <1>13, <2>9
      <3>2. PICK N \in Index : N = F + 1 /\ N # F /\ ~ (N < F) /\ \A i \in Index : i < N <=> i < F \/ i = F
        BY <3>1 DEF Index
      <3>3. ASSUME NEW i \in Index, i < N
            PROVE  h.data[i] = f.text[i] /\ h.records[i] = Lines(f.text[i])
        BY <1>1, <1>8, <1>11, <2>3, <2>6, <2>7, <2>9, <3>2, <3>3
      <3>4. h.data[N] = SubSeq(f.text[N], 1, 0) /\ Recorded(h.records[N], f.text[N], 0)
        <4>1. PICK t \in Seq(Unit) : t = f.text[N]
          BY <1>2, <1>8
        <4>2. h.data[N] = << >> /\ h.records[N] = << >>
          BY <2>3, <2>6, <3>2
        <4> QED BY <4>1, <4>2, NoneBefore, RecordedNone
      <3>5. \A i \in Index : ~ (i < N) /\ i # N => h.data[i] = << >> /\ h.records[i] = << >>
        BY <2>3, <2>6, <3>2
      <3>6. Partial(h, f)
        BY <1>8, <3>1, <3>2, <3>3, <3>4, <3>5 DEF Partial
      <3>7. ~ h.complete /\ h.cursor = [export |-> id, seq |-> f.seq]
        BY <1>8, <2>2, <2>9
      <3> QED BY <1>8, <2>1, <2>9, <3>6, <3>7, <2>2 DEF Reached
    <2>10. CASE f.complete
      <3>1. end = Len(text) /\ F = FileCount /\ h.complete /\ h.cursor = None /\ h.whole = e.text
        BY <1>8, <1>11, <2>2, <2>10
      <3>2. \A i \in Index : i # F => i < F
        BY <1>9, <3>1 DEF Index
      <3>3. \A i \in Index : h.data[i] = e.text[i] /\ h.records[i] = Lines(e.text[i])
        BY <1>1, <1>11, <2>3, <2>6, <2>7, <3>1, <3>2
      <3>4. h.raw
        <4>1. page.file # 0
          BY <1>8, <1>11 DEF Index
        <4> QED BY <2>2, <4>1
      <3>5. Exact(h)
        BY <3>1, <3>3, <3>4 DEF Exact
      <3> QED BY <1>8, <2>1, <2>10, <3>1, <3>5, <2>2 DEF Reached
    <2> QED BY <2>8, <2>9, <2>10
  <1> QED BY <1>8, <1>15, <1>16 DEF Turned

LEMMA Sequenced ==
    ASSUME NEW S, NEW p \in Seq(S) PROVE Sequence(p)
  <1>1. PICK n \in Nat : n = Len(p) /\ p \in [1 .. n -> S]
    OBVIOUS
  <1>2. PICK R : R = {p[i] : i \in DOMAIN p}
    OBVIOUS
  <1>3. p \in [1 .. n -> R]
    BY <1>1, <1>2
  <1>4. p \in Seq(R)
    BY <1>3
  <1> QED BY <1>2, <1>4 DEF Sequence

LEMMA HistoryTurned ==
    ASSUME NEW e, Good(e), ~ e.raw, ~ e.complete, NEW id \in Nat, NEW limit \in Nat,
           NEW f, f = HistoryPageOf(e, id, limit).export
    PROVE  Turned(e, f, id)
  <1>1. PICK parts : parts = Parts(e.history)
    OBVIOUS
  <1>2. PICK o \in Nat : o = e.offset
    BY DEF Good, At
  <1>3. PICK S : S = {parts[i] : i \in DOMAIN parts}
    OBVIOUS
  <1>4. parts \in Seq(S) /\ o <= Len(parts)
    BY <1>1, <1>2, <1>3 DEF Good, At, Sequence
  <1>5. PICK m \in Nat : m = Len(parts)
    BY <1>4, LenProperties
  <1>6. PICK end \in Nat : end = Min({Len(parts), e.offset + limit}) /\ o <= end /\ end <= m
    <2>1. PICK b \in Nat : b = o + limit
      OBVIOUS
    <2>2. Min({m, b}) \in Nat /\ Min({m, b}) <= m /\ Min({m, b}) \in {m, b}
      BY LeastOfTwo
    <2> QED BY <1>2, <1>4, <1>5, <2>1, <2>2
  <1>7. PICK page : page = HistoryPageOf(e, id, limit).page
    OBVIOUS
  <1>8. /\ page.file = 0 /\ page.data = SubSeq(parts, o + 1, end) /\ page.records = << >>
        /\ page.complete = (end = Len(parts)) /\ page.whole = parts
        /\ page.next = IF page.complete THEN None ELSE [export |-> id, seq |-> e.seq + 1]
    BY <1>1, <1>2, <1>6, <1>7 DEF HistoryPageOf
  <1>9. PICK on : on = Given(e, page)
    OBVIOUS
  <1>10. f = [on EXCEPT !.offset = end]
    BY <1>1, <1>2, <1>6, <1>7, <1>9 DEF HistoryPageOf
  <1>11. {"raw", "seq", "previous", "last", "complete", "offset", "history"} \subseteq DOMAIN e
    BY DEF Good, Fields, Common
  <1>12. /\ DOMAIN on = DOMAIN e /\ on.seq = e.seq + 1 /\ on.last = page
         /\ on.previous = (IF e.seq = 0 THEN None ELSE e.seq) /\ on.complete = page.complete
         /\ on.raw = e.raw /\ on.history = e.history
    BY <1>9, <1>11 DEF Given
  <1>13. /\ DOMAIN f = DOMAIN e /\ f.seq = e.seq + 1 /\ f.last = page
         /\ f.previous = (IF e.seq = 0 THEN None ELSE e.seq) /\ f.complete = page.complete
         /\ f.raw = e.raw /\ f.history = e.history /\ f.offset = end
    BY <1>10, <1>11, <1>12
  <1>14. Good(f)
    <2>1. Common \subseteq DOMAIN f /\ f.raw \in BOOLEAN /\ Fields(f) \subseteq DOMAIN f /\ e.seq \in Nat
      BY <1>13 DEF Good, Fields
    <2>2. f.seq \in Nat /\ f.previous = IF f.seq <= 1 THEN None ELSE f.seq - 1
      <3>1. PICK s \in Nat : s = e.seq
        BY <2>1
      <3> QED BY <1>13, <3>1
    <2>3. f.complete \in BOOLEAN
      BY <1>8, <1>13
    <2>4. At(f)
      BY <1>1, <1>3, <1>4, <1>5, <1>6, <1>13 DEF At, Sequence
    <2> QED BY <2>1, <2>2, <2>3, <2>4 DEF Good
  <1>15. ASSUME NEW g, Shape(g), Partial(g, e) PROVE Reached(After(g, f.last), f, id)
    <2>1. PICK h : h = After(g, page)
      OBVIOUS
    <2>2. 0 \in 0 .. FileCount
      BY SizesAssumption
    <2>3. /\ Shape(h) /\ h.cursor = page.next /\ h.raw = (page.file # 0)
          /\ h.complete = page.complete /\ h.whole = page.whole
          /\ \A i \in 0 .. FileCount :
                /\ h.data[i] = IF i = page.file THEN g.data[i] \o page.data ELSE g.data[i]
                /\ h.records[i] = IF i = page.file THEN g.records[i] \o page.records
                                  ELSE g.records[i]
      <3>1. page.file \in 0 .. FileCount /\ page.complete \in BOOLEAN
        BY <1>8, <2>2
      <3> QED BY <1>15, <2>1, <3>1, AfterIs
    <2>4. h.data[0] = SubSeq(parts, 1, end)
      <3>1. PICK l \in Nat : l = 0
        OBVIOUS
      <3>2. Adjoin(parts, l, o, end)
        BY <1>4, <1>5, <1>6, <3>1, Adjacent
      <3>3. SubSeq(parts, 1, o) \o SubSeq(parts, o + 1, end) = SubSeq(parts, 1, end)
        BY <3>1, <3>2 DEF Adjoin
      <3>4. h.data[0] = g.data[0] \o page.data
        BY <1>8, <2>2, <2>3
      <3>5. g.data[0] = SubSeq(parts, 1, o)
        BY <1>1, <1>2, <1>15 DEF Partial
      <3> QED BY <1>8, <3>3, <3>4, <3>5
    <2>5. CASE ~ f.complete
      <3>1. Partial(h, f)
        BY <1>1, <1>13, <2>4 DEF Partial
      <3>2. ~ h.complete /\ h.cursor = [export |-> id, seq |-> f.seq]
        BY <1>8, <1>13, <2>3, <2>5
      <3> QED BY <1>13, <2>1, <2>5, <3>1, <3>2, <2>3 DEF Reached
    <2>6. CASE f.complete
      <3>1. end = Len(parts) /\ h.complete /\ h.cursor = None /\ h.whole = parts
        BY <1>8, <1>13, <2>3, <2>6
      <3>2. h.raw = FALSE
        BY <1>8, <2>3
      <3>3. h.data[0] = parts
        BY <1>4, <2>4, <3>1, SubSeqFull
      <3>4. Exact(h)
        BY <3>1, <3>2, <3>3 DEF Exact
      <3> QED BY <1>13, <2>1, <2>6, <3>1, <3>4, <2>3 DEF Reached
    <2> QED BY <2>5, <2>6
  <1> QED BY <1>8, <1>13, <1>14, <1>15 DEF Turned

LEMMA WindowSequenced ==
    ASSUME NEW text \in Seq(Unit), NEW id, NEW answer, answer = HistoryWindow(text, None, id)
    PROVE  Sequence(Parts(answer))
  <1>1. PICK end : end = WindowEnd(text, None)
    OBVIOUS
  <1>2. PICK from : from = Max({0, end - Window})
    OBVIOUS
  <1>3. PICK ends : ends = {p \in Ends(text) : p > from /\ p <= end}
    OBVIOUS
  <1>4. PICK start : start = IF from = 0 THEN 0 ELSE Min(ends)
    OBVIOUS
  <1>5. PICK lines : lines = LinesIn(text, start, end)
    OBVIOUS
  <1>6. PICK some : some = {l \in lines : About[text[l[2]].of] = id}
    OBVIOUS
  <1>7. PICK c \in Nat : c = Cardinality(some)
    <2>1. PICK Q : Q = {q \in Ends(text) : q > start /\ q <= end}
      OBVIOUS
    <2>2. IsFiniteSet(Q)
      <3>1. Q \in SUBSET Ends(text)
        BY <2>1
      <3> QED BY <3>1, RankAll, FS_Subset
    <2>3. PICK f : f = [p \in Q |-> <<1 + Max({start} \cup {q \in Ends(text) : q > start /\ q < p}), p>>]
      OBVIOUS
    <2>4. lines = {f[p] : p \in Q}
      BY <1>5, <2>1, <2>3 DEF LinesIn
    <2>5. f \in Surjection(Q, lines)
      <3>1. f \in [Q -> lines]
        BY <2>3, <2>4
      <3>2. \A l \in lines : \E p \in Q : f[p] = l
        BY <2>4
      <3> QED BY <3>1, <3>2 DEF Surjection
    <2>6. IsFiniteSet(lines)
      BY <2>2, <2>5, FS_Surjection
    <2>7. some \in SUBSET lines
      BY <1>6
    <2> QED BY <2>6, <2>7, FS_Subset, FS_CardinalityType
  <1>8. PICK matching : matching = Newest(some)
    OBVIOUS
  <1>9. Len(matching) = c
    <2>1. matching = [k \in 1 .. c |-> CHOOSE l \in some : Cardinality({m \in some : m[1] >= l[1]}) = k]
      BY <1>7, <1>8 DEF Newest
    <2>2. DOMAIN matching = 1 .. c
      BY <2>1
    <2>3. PICK S : S = {matching[k] : k \in 1 .. c}
      OBVIOUS
    <2>4. matching \in [1 .. c -> S]
      BY <2>1, <2>3
    <2> QED BY <2>4
  <1>10. PICK n \in Nat : n = Min({Len(matching), HistoryRecords})
    BY <1>9, SizesAssumption, LeastOfTwo
  <1>11. PICK page : page = SubSeq(matching, 1, n)
    OBVIOUS
  <1>12. PICK k \in Nat : DOMAIN page = 1 .. k
    <2>1. PICK S : S = {matching[i] : i \in 1 .. n}
      OBVIOUS
    <2>2. \A i \in 1 .. n : matching[i] \in S
      BY <2>1
    <2>3. page \in Seq(S)
      BY <1>11, <2>2, SubSeqProperties
    <2> QED BY <2>3
  <1>13. answer.records = IF from > 0 /\ ends = {} THEN << >>
                          ELSE [i \in DOMAIN page |-> SubSeq(text, page[i][1], page[i][2])]
    BY <1>1, <1>2, <1>3, <1>4, <1>5, <1>6, <1>8, <1>10, <1>11 DEF HistoryWindow
  <1>14. PICK last : last = [next |-> answer.next, unread |-> answer.unread]
    OBVIOUS
  <1>15. PICK r : r = answer.records
    OBVIOUS
  <1>16. PICK S : S = {r[i] : i \in 1 .. k} \cup {last}
    OBVIOUS
  <1>17. r \in Seq(S) /\ << last >> \in Seq(S)
    <2>1. r = << >> \/ r \in [1 .. k -> S]
      BY <1>12, <1>13, <1>15, <1>16
    <2>2. last \in S
      BY <1>16
    <2>3. << last >> \in Seq(S)
      BY <2>2
    <2>4. << >> \in Seq(S)
      OBVIOUS
    <2>5. r \in [1 .. k -> S] => r \in Seq(S)
      OBVIOUS
    <2> QED BY <2>1, <2>3, <2>4, <2>5
  <1>18. r \o << last >> \in Seq(S)
    BY <1>17, ConcatProperties
  <1> QED BY <1>14, <1>15, <1>18, Sequenced DEF Parts

-----------------------------------------------------------------------------
(* What the client has and the exports go on together.                     *)

LEMMA SameGood ==
    ASSUME NEW e, Good(e), NEW f, Same(f, e)
    PROVE  /\ Good(f) /\ f.raw = e.raw /\ f.seq = e.seq /\ f.previous = e.previous
           /\ f.last = e.last /\ f.complete = e.complete
           /\ \A g, id : Reached(g, e, id) <=> Reached(g, f, id)
           /\ \A g : Partial(g, e) <=> Partial(g, f)
  <1>1. /\ f.raw = e.raw /\ f.seq = e.seq /\ f.previous = e.previous
        /\ f.last = e.last /\ f.complete = e.complete /\ f.offset = e.offset
        /\ DOMAIN f = DOMAIN e
    BY DEF Good, Common, Same
  <1>2. e.raw => /\ f.text = e.text /\ f.file = e.file /\ f.line = e.line
                 /\ f.lineOffset = e.lineOffset
    BY DEF Good, Fields, Same
  <1>3. ~ e.raw => f.history = e.history
    BY DEF Good, Fields, Same
  <1>4. At(e) => At(f)
    BY <1>1, <1>2, <1>3 DEF At
  <1>5. Fields(f) = Fields(e)
    BY <1>1 DEF Fields
  <1>6. Good(f)
    BY <1>1, <1>4, <1>5 DEF Good
  <1>7. \A g : Partial(g, e) <=> Partial(g, f)
    BY <1>1, <1>2, <1>3 DEF Partial
  <1>8. \A g, id : Reached(g, e, id) <=> Reached(g, f, id)
    BY <1>1, <1>7 DEF Reached
  <1> QED BY <1>1, <1>6, <1>7, <1>8

LEMMA CursorThere ==
    ASSUME NEW id \in Nat, NEW s \in Nat, NEW c, c = [export |-> id, seq |-> s]
    PROVE  c # None /\ c \in Cursor /\ c.export = id /\ c.seq = s
  BY FilesAssumption DEF Cursor

(* An export goes on from e to f for a line that asked for it.             *)
Advances(id, e, f) ==
    /\ Good(e) /\ ~ e.complete /\ e.seq >= 1 /\ Turned(e, f, id)
    /\ \E line \in Pending : line.cursor = [export |-> id, seq |-> e.seq]

LEMMA FitsAdvanced ==
    ASSUME NEW g, Fits(g), g.cursor # None, NEW id \in DOMAIN exports, id = g.cursor.export,
           NEW f, Advances(id, exports[id], f)
    PROVE  f.previous = g.cursor.seq /\ Reached(After(g, f.last), f, id)
  <1>1. PICK e : e = exports[id]
    OBVIOUS
  <1>2. PICK s \in Nat : s = e.seq /\ s >= 1
    BY <1>1 DEF Advances, Good
  <1>3. PICK line \in Pending : line.cursor = [export |-> id, seq |-> s]
    BY <1>1, <1>2 DEF Advances
  <1>4. g.cursor \in Cursor /\ id \in Nat
    BY DEF Fits, Cursor
  <1>5. line.cursor # None /\ line.cursor.export = id /\ line.cursor.seq = s
    BY <1>3, <1>4, CursorThere
  <1>6. PICK t \in Nat : t = g.cursor.seq /\ s <= t
    <2>1. Behind(line, g) /\ g.cursor.seq \in Nat
      BY <1>4 DEF Fits, Cursor
    <2> QED BY <1>5, <2>1 DEF Behind
  <1>7. e.previous # t
    <2>1. e.previous = IF s <= 1 THEN None ELSE s - 1
      BY <1>1, <1>2 DEF Advances, Good
    <2>2. None # t
      BY FilesAssumption
    <2>3. s - 1 # t
      BY <1>2, <1>6
    <2> QED BY <2>1, <2>2, <2>3
  <1>8. Reached(g, e, id)
    BY <1>1, <1>6, <1>7 DEF Fits
  <1>9. ~ e.complete
    BY <1>1 DEF Advances
  <1>10. Partial(g, e) /\ Shape(g) /\ g.cursor = [export |-> id, seq |-> s]
    BY <1>2, <1>8, <1>9 DEF Reached, Fits
  <1>11. t = s
    BY <1>4, <1>6, <1>10, CursorThere
  <1>12. Reached(After(g, f.last), f, id)
    BY <1>1, <1>10 DEF Advances, Turned
  <1>13. f.previous = s
    <2>1. Good(f) /\ f.seq = s + 1
      BY <1>1, <1>2 DEF Advances, Turned
    <2>2. ~ (s + 1 <= 1) /\ (s + 1) - 1 = s
      BY <1>2
    <2> QED BY <2>1, <2>2 DEF Good
  <1> QED BY <1>6, <1>11, <1>12, <1>13

AllGood(some) == \A id \in DOMAIN some : Good(some[id])

(* The exports after a step are those before it, or gone, or advanced, or  *)
(* new.                                                                    *)
Moves(some, known) ==
    \A id \in DOMAIN some : id <= known =>
        /\ id \in DOMAIN exports
        /\ Same(some[id], exports[id]) \/ Advances(id, exports[id], some[id])

LEMMA FitsKept ==
    ASSUME NEW g, Fits(g), Pending' \subseteq Pending, NEW known \in Int, known = Known,
           NEW later \in Int, later = Known', known <= later, AllGood(exports),
           Moves(exports', known)
    PROVE  Fits(g)'
  <1>1. PICK some : some = exports'
    OBVIOUS
  <1>2. ASSUME g.cursor # None
        PROVE  /\ g.cursor \in Cursor /\ g.cursor.export <= later
               /\ \A line \in Pending' : Behind(line, g)
               /\ \A id \in DOMAIN some : id = g.cursor.export =>
                    \/ Reached(g, some[id], id)
                    \/ some[id].previous = g.cursor.seq
                       /\ Reached(After(g, some[id].last), some[id], id)
    <2>1. g.cursor \in Cursor /\ g.cursor.export <= known
      BY <1>2 DEF Fits
    <2>2. g.cursor.export \in Nat
      BY <2>1 DEF Cursor
    <2>3. g.cursor.export <= later
      BY <2>1, <2>2
    <2>4. \A line \in Pending' : Behind(line, g)
      BY <1>2 DEF Fits
    <2>5. ASSUME NEW id \in DOMAIN some, id = g.cursor.export
          PROVE  \/ Reached(g, some[id], id)
                 \/ some[id].previous = g.cursor.seq
                    /\ Reached(After(g, some[id].last), some[id], id)
      <3>1. id \in DOMAIN exports
            /\ (Same(some[id], exports[id]) \/ Advances(id, exports[id], some[id]))
        BY <1>1, <2>1, <2>5 DEF Moves
      <3>2. PICK e : e = exports[id]
        OBVIOUS
      <3>3. PICK f : f = some[id]
        OBVIOUS
      <3>4. CASE Same(f, e)
        <4>1. \/ Reached(g, e, id)
              \/ e.previous = g.cursor.seq /\ Reached(After(g, e.last), e, id)
          BY <1>2, <2>5, <3>1, <3>2 DEF Fits
        <4>2. Good(e)
          BY <3>1, <3>2 DEF AllGood
        <4>3. /\ f.previous = e.previous /\ f.last = e.last
              /\ \A h, i : Reached(h, e, i) <=> Reached(h, f, i)
          BY <3>4, <4>2, SameGood
        <4> QED BY <3>3, <4>1, <4>3
      <3>5. CASE Advances(id, e, f)
        <4>1. f.previous = g.cursor.seq /\ Reached(After(g, f.last), f, id)
          BY <1>2, <2>5, <3>1, <3>2, <3>5, FitsAdvanced
        <4> QED BY <3>3, <4>1
      <3> QED BY <3>1, <3>2, <3>3, <3>4, <3>5
    <2> QED BY <2>1, <2>3, <2>4, <2>5
  <1> QED BY <1>1, <1>2 DEF Fits

LEMMA FitsStill == ASSUME NEW g, Fits(g)', got' = g PROVE Fits(got)'
  BY DEF Fits

LEMMA LineKept ==
    ASSUME NEW line, LineFits(line), UNCHANGED <<sent, asking, got>>,
           NEW known \in Int, known = Known, NEW later \in Int, later = Known', known <= later
    PROVE  LineFits(line)'
  <1>1. line.cursor \in Cursor /\ line.cursor.export <= known => line.cursor.export <= later
    <2> SUFFICES ASSUME line.cursor \in Cursor, line.cursor.export <= known
                 PROVE  line.cursor.export <= later
      OBVIOUS
    <2>1. line.cursor.export \in Nat
      BY DEF Cursor
    <2> QED BY <2>1
  <1> QED BY <1>1 DEF LineFits

LEMMA AnswerKept ==
    ASSUME NEW a, AnswerFits(a), UNCHANGED <<sent, asking, got>>,
           Pending' \subseteq Pending, NEW known \in Int, known = Known,
           NEW later \in Int, later = Known', known <= later, AllGood(exports),
           Moves(exports', known)
    PROVE  AnswerFits(a)'
  <1>1. PICK h : h = After(got, a.page)
    OBVIOUS
  <1>2. ASSUME asking # None /\ a.id = asking /\ a.kind = "page"
        PROVE  Fits(After(got, a.page))' /\ Onward(got, After(got, a.page))'
    <2>1. Fits(h) /\ Onward(got, h)
      BY <1>1, <1>2 DEF AnswerFits
    <2>2. Fits(h)'
      BY <2>1, FitsKept
    <2>3. Fits(After(got, a.page))'
      <3>1. h = After(got, a.page)'
        BY <1>1
      <3> QED BY <2>2, <3>1 DEF Fits
    <2>4. Onward(got, After(got, a.page))'
      BY <1>1, <2>1
    <2> QED BY <2>3, <2>4
  <1> QED BY <1>2 DEF AnswerFits

(* A step that leaves what the client has, and what it asks, as it is.     *)
LEMMA StepKept ==
    ASSUME ExportInv, UNCHANGED <<sent, asking, got>>, Len(in') <= sent,
           Pending' \subseteq Pending, NEW known \in Int, known = Known,
           NEW later \in Int, later = Known', known <= later, Moves(exports', known),
           \A id \in DOMAIN exports' :
             id \in Nat /\ id <= later /\ Good(exports'[id]) /\ exports'[id].seq >= 1,
           \A a \in Answers' : a \in Answers \/ AnswerFits(a)', JobFits'
    PROVE  ExportInv'
  <1>1. AllGood(exports)
    BY DEF ExportInv, AllGood
  <1>2. Fits(got)'
    <2>1. PICK g : g = got
      OBVIOUS
    <2>2. Fits(g)
      BY <2>1 DEF ExportInv
    <2>3. Fits(g)'
      BY <1>1, <2>2, FitsKept
    <2> QED BY <2>1, <2>3, FitsStill
  <1>3. \A line \in Pending' : LineFits(line)'
    <2> SUFFICES ASSUME NEW line \in Pending' PROVE LineFits(line)'
      OBVIOUS
    <2>1. LineFits(line)
      BY DEF ExportInv
    <2> QED BY <2>1, LineKept
  <1>4. \A a \in Answers' : AnswerFits(a)'
    <2> SUFFICES ASSUME NEW a \in Answers', a \in Answers PROVE AnswerFits(a)'
      OBVIOUS
    <2>1. AnswerFits(a)
      BY DEF ExportInv
    <2> QED BY <1>1, <2>1, AnswerKept
  <1>5. asking' # None => asking' \in Nat /\ asking' <= sent' /\ ~ got'.complete
    BY DEF ExportInv
  <1>6. \A id \in DOMAIN exports' :
             id \in Nat /\ id <= Known' /\ Good(exports'[id]) /\ exports'[id].seq >= 1
    OBVIOUS
  <1>7. Len(in') <= sent'
    OBVIOUS
  <1> QED BY <1>2, <1>3, <1>4, <1>5, <1>6, <1>7 DEF ExportInv

-----------------------------------------------------------------------------
(* The steps of the server.                                                *)

(* Some of the exports, as they are.                                       *)
Fewer(some) ==
    \A id \in DOMAIN some : id \in DOMAIN exports /\ some[id] = exports[id]

LEMMA FewerLive == Fewer(Live)
  BY DEF Fewer, Live

LEMMA FewerWithout == ASSUME NEW some, Fewer(some), NEW id PROVE Fewer(Without(some, id))
  BY DEF Fewer, Without

LEMMA FewerEvicted == ASSUME NEW some, Fewer(some) PROVE Fewer(Evicted(some))
  <1>1. \A id : Fewer(Without(some, id))
    BY FewerWithout
  <1> QED BY <1>1 DEF Evicted

LEMMA Numbers ==
    ASSUME AnswersInv, ExportInv
    PROVE  /\ sent \in Nat /\ Len(in) \in Nat /\ Token \in Nat /\ Known \in Int
           /\ (Known = IF job = Idle THEN Token ELSE Token - 1)
  <1>1. Len(in) \in Nat /\ sent \in Nat
    BY Mapped DEF AnswersInv
  <1>2. Len(in) <= sent
    BY DEF ExportInv
  <1>3. Token \in Nat
    BY <1>1, <1>2 DEF Token
  <1> QED BY <1>1, <1>3 DEF Known

LEMMA AskedPending ==
    ASSUME AnswersInv, ExportInv, job # Idle
    PROVE  Line \in Pending /\ LineFits(Line) /\ Asked(job) /\ Known = Token - 1
  <1>1. Line \in Pending
    BY DEF Pending, Line
  <1> QED BY <1>1, Numbers DEF ExportInv, AnswersInv

LEMMA OutAdded ==
    ASSUME Written(out), NEW a, out' = Append(out, a)
    PROVE  \A b \in Answers' : b \in Answers \/ b = a
  <1>1. PICK S : out \in Seq(S)
    BY DEF Written
  <1>2. PICK R : R = S \cup {a}
    OBVIOUS
  <1>3. out \in Seq(R) /\ a \in R
    BY <1>1, <1>2, SeqMonotonic
  <1>4. PICK n \in Nat : n = Len(out) /\ DOMAIN out = 1 .. n
    BY <1>3, LenProperties
  <1>5. PICK t : t = out'
    OBVIOUS
  <1>6. t \in Seq(R) /\ Len(t) = n + 1 /\ t[n + 1] = a /\ \A i \in 1 .. n : t[i] = out[i]
    BY <1>3, <1>4, <1>5, AppendProperties
  <1>7. DOMAIN t = 1 .. n + 1
    BY <1>6, LenProperties
  <1>8. \A k \in 1 .. n + 1 : k = n + 1 \/ k \in 1 .. n
    OBVIOUS
  <1>9. \A k \in DOMAIN t : t[k] = a \/ t[k] \in {out[i] : i \in DOMAIN out}
    BY <1>4, <1>6, <1>7, <1>8
  <1> QED BY <1>5, <1>9 DEF Answers

LEMMA RepliedAnswers ==
    ASSUME AnswersInv, NEW kind, NEW page, Reply(kind, page),
           NEW a, a = [id |-> Line.id, kind |-> kind, page |-> page]
    PROVE  job' = Idle /\ \A b \in Answers' : b \in Answers \/ (b = a /\ Line.id # None)
  <1>1. CASE Line.id = None
    BY <1>1 DEF Reply, Answers
  <1>2. CASE Line.id # None
    <2>1. out' = Append(out, a) /\ Written(out)
      BY <1>2 DEF Reply, Answer, AnswersInv
    <2> QED BY <1>2, <2>1, OutAdded DEF Reply
  <1> QED BY <1>1, <1>2

Unmoved == UNCHANGED <<in, sent, owed, asking, got>>

(* A step of the server on the line it read.                               *)
LEMMA WorkKept ==
    ASSUME AnswersInv, ExportInv, job # Idle, Unmoved,
           job' = Idle \/ (job' # Idle /\ job'.line = job.line),
           NEW later \in Int, later = Known', Moves(exports', Token - 1),
           \A id \in DOMAIN exports' :
             id \in Nat /\ id <= later /\ Good(exports'[id]) /\ exports'[id].seq >= 1,
           \A a \in Answers' : a \in Answers \/ AnswerFits(a)', JobFits'
    PROVE  ExportInv'
  <1>1. PICK known \in Int : known = Known /\ known = Token - 1
    BY Numbers
  <1>2. known <= later
    <2>1. Token' = Token
      BY DEF Token, Unmoved
    <2>2. later = Token \/ later = Token - 1
      BY <2>1 DEF Known
    <2> QED BY <1>1, <2>2, Numbers
  <1>3. Pending' \subseteq Pending
    BY DEF Pending, Unmoved
  <1>4. UNCHANGED <<sent, asking, got>> /\ Len(in') <= sent
    BY DEF Unmoved, ExportInv
  <1>5. Moves(exports', known)
    BY <1>1
  <1> QED BY <1>1, <1>2, <1>3, <1>4, <1>5, StepKept

LEMMA FewerMoves ==
    ASSUME ExportInv, NEW some, Fewer(some), NEW known
    PROVE  /\ Moves(some, known)
           /\ \A id \in DOMAIN some :
                id \in Nat /\ id <= Known /\ Good(some[id]) /\ some[id].seq >= 1
  <1>1. \A id \in DOMAIN some : Same(some[id], exports[id])
    BY DEF Fewer, Same
  <1> QED BY <1>1 DEF Moves, Fewer, ExportInv

(* An error is answered, or nothing.                                       *)
LEMMA ErrorFits ==
    ASSUME AnswersInv, ExportInv, job # Idle, Unmoved, Line.id # None,
           NEW page, NEW a, a = [id |-> Line.id, kind |-> "error", page |-> page]
    PROVE  AnswerFits(a)'
  <1>1. a.id = Line.id /\ a.kind = "error"
    OBVIOUS
  <1>2. a.id \in Nat /\ a.id <= sent
    BY <1>1, AskedPending DEF LineFits, Id
  <1> QED BY <1>1, <1>2 DEF AnswerFits, Unmoved

LEMMA ErrorKept ==
    ASSUME AnswersInv, ExportInv, job # Idle, Unmoved, Reply("error", None),
           Moves(exports', Token - 1),
           \A id \in DOMAIN exports' :
             id \in Nat /\ id <= Token /\ Good(exports'[id]) /\ exports'[id].seq >= 1
    PROVE  ExportInv'
  <1>1. job' = Idle
    BY DEF Reply
  <1>2. PICK later \in Int : later = Known' /\ later = Token
    <2>1. Known' = Token
      BY <1>1 DEF Known, Token, Unmoved
    <2> QED BY <2>1, Numbers
  <1>3. \A id \in DOMAIN exports' :
             id \in Nat /\ id <= later /\ Good(exports'[id]) /\ exports'[id].seq >= 1
    BY <1>2
  <1>4. \A b \in Answers' : b \in Answers \/ AnswerFits(b)'
    <2>1. PICK a : a = [id |-> Line.id, kind |-> "error", page |-> None]
      OBVIOUS
    <2>2. \A b \in Answers' : b \in Answers \/ (b = a /\ Line.id # None)
      BY <2>1, RepliedAnswers
    <2>3. Line.id # None => AnswerFits(a)'
      BY <2>1, ErrorFits
    <2>4. \A b : b = a /\ AnswerFits(a)' => AnswerFits(b)'
      OBVIOUS
    <2> QED BY <2>2, <2>3, <2>4
  <1>5. JobFits'
    BY <1>1 DEF JobFits, Idle, Paging
  <1> QED BY <1>1, <1>2, <1>3, <1>4, <1>5, WorkKept

LEMMA RefuseKept ==
    ASSUME AnswersInv, ExportInv, job # Idle, Unmoved, NEW some, Fewer(some), Refuse(some)
    PROVE  ExportInv'
  <1>1. exports' = some /\ Reply("error", None)
    BY DEF Refuse
  <1>2. Moves(exports', Token - 1)
    BY <1>1, FewerMoves
  <1>3. ASSUME NEW id \in DOMAIN exports'
        PROVE  id \in Nat /\ id <= Token /\ Good(exports'[id]) /\ exports'[id].seq >= 1
    <2>1. id \in Nat /\ id <= Known /\ Good(exports'[id]) /\ exports'[id].seq >= 1
      BY <1>1, FewerMoves
    <2>2. id <= Token
      BY <2>1, AskedPending, Numbers
    <2> QED BY <2>1, <2>2
  <1> QED BY <1>1, <1>2, <1>3, ErrorKept

LEMMA PageFits ==
    ASSUME NEW h, NEW id \in Nat, id \in DOMAIN exports', NEW f, f = exports'[id], Good(f),
           Reached(h, f, id), NEW later \in Int, later = Known', id <= later,
           ~ f.complete => \A line \in Pending' :
              line.cursor # None /\ line.cursor.export = id => line.cursor.seq <= f.seq
    PROVE  Fits(h)'
  <1>1. CASE f.complete
    <2>1. Shape(h) /\ h.complete /\ h.cursor = None /\ Exact(h)
      BY <1>1 DEF Reached
    <2> QED BY <2>1 DEF Fits
  <1>2. CASE ~ f.complete
    <2>1. Shape(h) /\ ~ h.complete /\ h.cursor = [export |-> id, seq |-> f.seq] /\ f.seq \in Nat
      BY <1>2 DEF Reached, Good
    <2>2. h.cursor # None /\ h.cursor \in Cursor /\ h.cursor.export = id /\ h.cursor.seq = f.seq
      BY <2>1, CursorThere
    <2>3. \A line \in Pending' : Behind(line, h)
      BY <1>2, <2>2 DEF Behind
    <2> QED BY <2>1, <2>2, <2>3 DEF Fits
  <1> QED BY <1>1, <1>2

(* A page answered to the line is the one asked for, if it is.             *)
LEMMA PageAnswerFits ==
    ASSUME AnswersInv, ExportInv, job # Idle, Unmoved, Line.id # None,
           NEW page, NEW a, a = [id |-> Line.id, kind |-> "page", page |-> page],
           NEW h, h = After(got, page), asking # None /\ Line.id = asking => Fits(h)' /\ Onward(got, h)
    PROVE  AnswerFits(a)'
  <1>1. a.id = Line.id /\ a.kind = "page" /\ a.page = page
    OBVIOUS
  <1>2. a.id \in Nat /\ a.id <= sent
    BY <1>1, AskedPending DEF LineFits, Id
  <1>3. ASSUME asking # None /\ Line.id = asking
        PROVE  Fits(After(got, a.page))' /\ Onward(got, After(got, a.page))'
    <2>1. got' = got /\ After(got, a.page)' = h
      BY <1>1 DEF Unmoved
    <2>2. Fits(h)' /\ Onward(got, h)
      BY <1>3
    <2>3. Fits(After(got, a.page))'
      BY <2>1, <2>2 DEF Fits
    <2> QED BY <2>1, <2>2, <2>3
  <1> QED BY <1>1, <1>2, <1>3 DEF AnswerFits, Unmoved

LEMMA AnsweredKept ==
    ASSUME AnswersInv, ExportInv, job # Idle, Unmoved, NEW page, Reply("page", page),
           Moves(exports', Token - 1),
           \A id \in DOMAIN exports' :
             id \in Nat /\ id <= Token /\ Good(exports'[id]) /\ exports'[id].seq >= 1,
           NEW h, h = After(got, page), asking # None /\ Line.id = asking => Fits(h)' /\ Onward(got, h)
    PROVE  ExportInv'
  <1>1. job' = Idle
    BY DEF Reply
  <1>2. PICK later \in Int : later = Known' /\ later = Token
    <2>1. Known' = Token
      BY <1>1 DEF Known, Token, Unmoved
    <2> QED BY <2>1, Numbers
  <1>3. \A id \in DOMAIN exports' :
             id \in Nat /\ id <= later /\ Good(exports'[id]) /\ exports'[id].seq >= 1
    BY <1>2
  <1>4. \A b \in Answers' : b \in Answers \/ AnswerFits(b)'
    <2>1. PICK a : a = [id |-> Line.id, kind |-> "page", page |-> page]
      OBVIOUS
    <2>2. \A b \in Answers' : b \in Answers \/ (b = a /\ Line.id # None)
      BY <2>1, RepliedAnswers
    <2>3. Line.id # None => AnswerFits(a)'
      BY <2>1, PageAnswerFits
    <2>4. \A b : b = a /\ AnswerFits(a)' => AnswerFits(b)'
      OBVIOUS
    <2> QED BY <2>2, <2>3, <2>4
  <1>5. JobFits'
    BY <1>1 DEF JobFits, Idle, Paging
  <1> QED BY <1>1, <1>2, <1>3, <1>4, <1>5, WorkKept

LEMMA ReplayKept ==
    ASSUME AnswersInv, ExportInv, job # Idle, Unmoved, NEW cursor, cursor = Line.cursor,
           cursor # None, cursor.export \in DOMAIN Live,
           Replays(Live[cursor.export], cursor), Replay(cursor)
    PROVE  ExportInv'
  <1>1. PICK id : id = cursor.export
    OBVIOUS
  <1>2. PICK f : f = Live[id]
    OBVIOUS
  <1>3. exports' = Live /\ id \in DOMAIN exports /\ f = exports[id] /\ f = exports'[id]
        /\ id \in DOMAIN exports'
    BY <1>1, <1>2 DEF Replay, Live
  <1>4. id \in Nat /\ id <= Known /\ Good(f) /\ f.seq >= 1
    BY <1>3 DEF ExportInv
  <1>5. Known = Token - 1 /\ Token \in Nat /\ LineFits(Line) /\ Line \in Pending
    BY AskedPending, Numbers
  <1>6. Reply("page", f.last)
    BY <1>1, <1>2 DEF Replay
  <1>7. Moves(exports', Token - 1)
    BY <1>3, FewerLive, FewerMoves
  <1>8. \A k \in DOMAIN exports' :
             k \in Nat /\ k <= Token /\ Good(exports'[k]) /\ exports'[k].seq >= 1
    <2>1. \A k \in DOMAIN exports' :
             k \in Nat /\ k <= Known /\ Good(exports'[k]) /\ exports'[k].seq >= 1
      BY <1>3, FewerLive, FewerMoves
    <2>2. \A k \in Nat : k <= Known => k <= Token
      BY <1>5
    <2> QED BY <2>1, <2>2
  <1>9. PICK h : h = After(got, f.last)
    OBVIOUS
  <1>10. ASSUME asking # None /\ Line.id = asking PROVE Fits(h)' /\ Onward(got, h)
    <2>1. got.cursor = cursor /\ Fits(got)
      BY <1>5, <1>10 DEF LineFits, ExportInv
    <2>2. PICK s \in Nat : s = f.seq /\ s >= 1
      BY <1>4 DEF Good
    <2>3. PICK t \in Nat : t = cursor.seq
      BY <2>1 DEF Fits, Cursor
    <2>4. f.previous = t
      BY <1>1, <1>2, <2>3 DEF Replays
    <2>5. t = s - 1
      <3>1. f.previous = IF s <= 1 THEN None ELSE s - 1
        BY <1>4, <2>2 DEF Good
      <3>2. None # t
        BY FilesAssumption
      <3> QED BY <2>4, <3>1, <3>2
    <2>6. ~ Reached(got, f, id)
      <3> SUFFICES ASSUME Reached(got, f, id) PROVE FALSE
        OBVIOUS
      <3>1. got.cursor = None \/ got.cursor = [export |-> id, seq |-> s]
        BY <2>2 DEF Reached
      <3>2. cursor = [export |-> id, seq |-> s]
        BY <2>1, <3>1
      <3>3. cursor.seq = s
        BY <1>4, <3>2, CursorThere
      <3>4. s # s - 1
        BY <2>2
      <3> QED BY <2>3, <2>5, <3>3, <3>4
    <2>7. Reached(h, f, id)
      BY <1>1, <1>3, <1>9, <2>1, <2>6 DEF Fits
    <2>8. ASSUME NEW line \in Pending', line.cursor # None, line.cursor.export = id
          PROVE  line.cursor.seq <= s
      <3>1. job' = Idle
        BY <1>6 DEF Reply
      <3>2. line \in Pending
        BY <3>1, <2>8 DEF Pending, Unmoved
      <3>3. line.cursor.seq <= t
        BY <1>1, <2>1, <2>3, <2>8, <3>2 DEF Fits, Behind
      <3>4. line.cursor.seq \in Nat
        BY <2>8, <3>2 DEF ExportInv, LineFits, Cursor
      <3> QED BY <2>2, <2>3, <2>5, <3>3, <3>4
    <2>9. Fits(h)'
      <3>1. PICK later \in Int : later = Known' /\ id <= later
        <4>1. job' = Idle
          BY <1>6 DEF Reply
        <4>2. Known' = Token
          BY <4>1 DEF Known, Token, Unmoved
        <4> QED BY <1>4, <1>5, <4>2
      <3> QED BY <1>3, <1>4, <2>2, <2>7, <2>8, <3>1, PageFits
    <2>10. Onward(got, h)
      <3>1. h.cursor # None => h.cursor = [export |-> id, seq |-> s]
        BY <2>2, <2>7 DEF Reached
      <3>2. h.cursor # None => h.cursor.seq = s
        BY <1>4, <3>1, CursorThere
      <3>3. t <= s
        BY <2>2, <2>3, <2>5
      <3> QED BY <2>1, <2>3, <3>2, <3>3 DEF Onward
    <2> QED BY <2>9, <2>10
  <1> QED BY <1>6, <1>7, <1>8, <1>9, <1>10, AnsweredKept

LEMMA WorksAdvances ==
    ASSUME AnswersInv, ExportInv, job # Idle, Line.cursor # None,
           NEW id, NEW e, Works(id, e), NEW f, Turned(e, f, id)
    PROVE  /\ id \in DOMAIN exports /\ id \in Nat /\ id <= Token - 1
           /\ Line.cursor = [export |-> id, seq |-> e.seq] /\ Advances(id, exports[id], f)
  <1>1. PICK x : x = exports[id]
    OBVIOUS
  <1>2. /\ Good(e) /\ ~ e.complete /\ id = Line.cursor.export /\ id \in DOMAIN exports
        /\ Same(x, e) /\ Line.cursor.seq = e.seq
    BY <1>1 DEF Works
  <1>3. /\ x.raw = e.raw /\ x.seq = e.seq /\ x.complete = e.complete
        /\ \A g : Partial(g, e) <=> Partial(g, x)
    BY <1>2, SameGood
  <1>4. id \in Nat /\ id <= Known /\ Good(x) /\ x.seq >= 1
    BY <1>1, <1>2 DEF ExportInv
  <1>5. Turned(x, f, id)
    BY <1>3 DEF Turned
  <1>6. Line.cursor = [export |-> id, seq |-> e.seq] /\ Line \in Pending
    BY <1>2, AskedPending DEF LineFits, Cursor
  <1>7. Advances(id, x, f)
    BY <1>2, <1>3, <1>4, <1>5, <1>6 DEF Advances
  <1> QED BY <1>1, <1>2, <1>4, <1>6, <1>7, AskedPending

LEMMA WorkedExports ==
    ASSUME AnswersInv, ExportInv, job # Idle, NEW id, NEW e, Works(id, e),
           NEW f, Turned(e, f, id), NEW some, Fewer(some), NEW w, w = With(some, id, f)
    PROVE  /\ id \in Nat /\ id \in DOMAIN w /\ w[id] = f /\ Moves(w, Token - 1)
           /\ \A k \in DOMAIN w : k \in Nat /\ k <= Token /\ Good(w[k]) /\ w[k].seq >= 1
  <1>1. Token \in Nat /\ Known = Token - 1
    BY Numbers, AskedPending
  <1>2. /\ DOMAIN w = DOMAIN some \cup {id} /\ w[id] = f
        /\ \A k \in DOMAIN w : k # id => k \in DOMAIN some /\ w[k] = some[k]
    BY DEF With
  <1>3. /\ id \in Nat /\ id <= Token
        /\ id <= Token - 1 => id \in DOMAIN exports /\ Advances(id, exports[id], f)
    <2>1. CASE Line.cursor = None
      <3>1. PICK t \in Nat : t = Token
        BY <1>1
      <3>2. id = t
        BY <2>1, <3>1 DEF Works
      <3>3. id \in Nat /\ id <= t /\ ~ (id <= t - 1)
        BY <3>2
      <3> QED BY <3>1, <3>3
    <2>2. CASE Line.cursor # None
      <3>1. id \in DOMAIN exports /\ id \in Nat /\ id <= Token - 1 /\ Advances(id, exports[id], f)
        BY <2>2, WorksAdvances
      <3> QED BY <1>1, <3>1
    <2> QED BY <2>1, <2>2
  <1>4. Good(f) /\ f.seq >= 1
    <2>1. PICK s \in Nat : s = e.seq
      BY DEF Works, Good
    <2> QED BY <2>1 DEF Turned
  <1>5. \A k \in DOMAIN some : /\ k \in Nat /\ k <= Known /\ Good(some[k]) /\ some[k].seq >= 1
                               /\ k \in DOMAIN exports /\ Same(some[k], exports[k])
    <2>1. Moves(some, Token - 1)
          /\ \A k \in DOMAIN some : k \in Nat /\ k <= Known /\ Good(some[k]) /\ some[k].seq >= 1
      BY FewerMoves
    <2> QED BY <2>1 DEF Fewer, Same
  <1>6. \A k \in DOMAIN w : k \in Nat /\ k <= Token /\ Good(w[k]) /\ w[k].seq >= 1
    <2> SUFFICES ASSUME NEW k \in DOMAIN w
                 PROVE  k \in Nat /\ k <= Token /\ Good(w[k]) /\ w[k].seq >= 1
      OBVIOUS
    <2>1. CASE k = id
      BY <1>2, <1>3, <1>4, <2>1
    <2>2. CASE k # id
      BY <1>1, <1>2, <1>5, <2>2
    <2> QED BY <2>1, <2>2
  <1>7. Moves(w, Token - 1)
    <2> SUFFICES ASSUME NEW k \in DOMAIN w, k <= Token - 1
                 PROVE  /\ k \in DOMAIN exports
                        /\ Same(w[k], exports[k]) \/ Advances(k, exports[k], w[k])
      BY DEF Moves
    <2>1. CASE k = id
      BY <1>2, <1>3, <2>1
    <2>2. CASE k # id
      BY <1>2, <1>5, <2>2
    <2> QED BY <2>1, <2>2
  <1> QED BY <1>2, <1>3, <1>6, <1>7

LEMMA WorkedKept ==
    ASSUME AnswersInv, ExportInv, job # Idle, Unmoved, NEW id, NEW e, Works(id, e),
           NEW f, Turned(e, f, id), NEW some, Fewer(some), exports' = With(some, id, f),
           Reply("page", f.last) \/ Reply("error", None)
    PROVE  ExportInv'
  <1>1. PICK w : w = exports'
    OBVIOUS
  <1>2. /\ id \in Nat /\ id \in DOMAIN w /\ w[id] = f /\ Moves(w, Token - 1)
        /\ \A k \in DOMAIN w : k \in Nat /\ k <= Token /\ Good(w[k]) /\ w[k].seq >= 1
    BY <1>1, WorkedExports
  <1>3. CASE Reply("error", None)
    BY <1>1, <1>2, <1>3, ErrorKept
  <1>4. CASE Reply("page", f.last)
    <2>1. PICK h : h = After(got, f.last)
      OBVIOUS
    <2>2. PICK s \in Nat : s = e.seq /\ f.seq = s + 1 /\ Good(f) /\ Good(e) /\ ~ e.complete
      BY DEF Works, Good, Turned
    <2>3. ASSUME asking # None /\ Line.id = asking PROVE Fits(h)' /\ Onward(got, h)
      <3>1. got.cursor = Line.cursor /\ Fits(got) /\ ~ got.complete /\ Shape(got)
        BY <2>3, AskedPending DEF LineFits, ExportInv, Fits
      <3>2. job' = Idle
        BY <1>4 DEF Reply
      <3>3. \A line \in Pending' : line \in Pending /\ LineFits(line)
        BY <3>2 DEF Pending, Unmoved, ExportInv
      <3>4. Token \in Nat /\ Known = Token - 1
        BY Numbers, AskedPending
      <3>5. /\ Reached(h, f, id)
            /\ \A line \in Pending' :
                 line.cursor # None /\ line.cursor.export = id => line.cursor.seq <= f.seq
            /\ got.cursor # None => got.cursor.seq <= f.seq
        <4>1. CASE Line.cursor = None
          <5>1. id = Token /\ Partial(Started, e) /\ got = Started
            BY <3>1, <4>1 DEF Works, Fits
          <5>2. Reached(h, f, id)
            BY <2>1, <3>1, <5>1 DEF Turned
          <5>3. ASSUME NEW line \in Pending', line.cursor # None PROVE line.cursor.export # id
            <6>1. line.cursor.export <= Known /\ line.cursor.export \in Nat
              BY <3>3, <5>3 DEF LineFits, Cursor
            <6> QED BY <3>4, <5>1, <6>1
          <5> QED BY <3>1, <4>1, <5>2, <5>3
        <4>2. CASE Line.cursor # None
          <5>1. /\ id \in DOMAIN exports /\ Line.cursor = [export |-> id, seq |-> s]
                /\ Advances(id, exports[id], f)
            BY <2>2, <4>2, WorksAdvances
          <5>2. got.cursor # None /\ got.cursor.export = id /\ got.cursor.seq = s
            BY <1>2, <3>1, <4>2, <5>1, CursorThere
          <5>3. Reached(h, f, id)
            BY <2>1, <3>1, <5>1, <5>2, FitsAdvanced
          <5>4. ASSUME NEW line \in Pending', line.cursor # None, line.cursor.export = id
                PROVE  line.cursor.seq <= f.seq
            <6>1. line.cursor.seq <= s
              BY <3>1, <3>3, <5>2, <5>4 DEF Fits, Behind
            <6>2. line.cursor.seq \in Nat
              BY <3>3, <5>4 DEF LineFits, Cursor
            <6> QED BY <2>2, <6>1, <6>2
          <5>5. s <= f.seq
            BY <2>2
          <5> QED BY <5>2, <5>3, <5>4, <5>5
        <4> QED BY <4>1, <4>2
      <3>6. Fits(h)'
        <4>1. PICK later \in Int : later = Known' /\ id <= later
          <5>1. Known' = Token
            BY <3>2 DEF Known, Token, Unmoved
          <5> QED BY <1>2, <3>4, <5>1
        <4> QED BY <1>1, <1>2, <2>2, <3>5, <4>1, PageFits
      <3>7. Onward(got, h)
        <4>1. h.cursor # None => h.cursor = [export |-> id, seq |-> f.seq]
          BY <3>5 DEF Reached
        <4>2. h.cursor # None => h.cursor.seq = f.seq
          BY <1>2, <2>2, <4>1, CursorThere
        <4> QED BY <3>5, <4>2 DEF Onward
      <3> QED BY <3>6, <3>7
    <2> QED BY <1>1, <1>2, <1>4, <2>1, <2>3, AnsweredKept
  <1> QED BY <1>3, <1>4

LEMMA OnWayKept ==
    ASSUME AnswersInv, ExportInv, job # Idle, Unmoved, job' # Idle, job'.line = job.line,
           out' = out, Fewer(exports'), JobFits'
    PROVE  ExportInv'
  <1>1. PICK later \in Int : later = Known' /\ later = Known
    <2>1. Known' = Token - 1 /\ Known = Token - 1 /\ Token \in Nat
      BY Numbers, AskedPending DEF Known, Token, Unmoved
    <2> QED BY <2>1
  <1>2. PICK some : some = exports'
    OBVIOUS
  <1>3. /\ Moves(some, Token - 1)
        /\ \A id \in DOMAIN some :
             id \in Nat /\ id <= later /\ Good(some[id]) /\ some[id].seq >= 1
    BY <1>1, <1>2, FewerMoves
  <1>4. \A a \in Answers' : a \in Answers
    BY DEF Answers
  <1> QED BY <1>1, <1>2, <1>3, <1>4, WorkKept

LEMMA WorksStill ==
    ASSUME NEW id, NEW e, Works(id, e), UNCHANGED <<exports, in, sent>>, job'.line = job.line
    PROVE  Works(id, e)'
  BY DEF Works, Line, Token

LEMMA WorksNumber ==
    ASSUME AnswersInv, ExportInv, job # Idle, NEW id, NEW e, Works(id, e) PROVE id \in Nat
  <1>1. CASE Line.cursor = None
    <2>1. id = Token
      BY <1>1 DEF Works
    <2> QED BY <2>1, Numbers
  <1>2. CASE Line.cursor # None
    <2>1. id \in DOMAIN exports
      BY <1>2 DEF Works
    <2> QED BY <2>1 DEF ExportInv
  <1> QED BY <1>1, <1>2

(* The export that is opened.                                              *)
Opened(e) == Good(e) /\ ~ e.complete /\ e.seq = 0 /\ Partial(Started, e)

LEMMA OpenedWorks ==
    ASSUME NEW e, Opened(e), Line'.cursor = None PROVE Works(Token, e)'
  BY DEF Opened, Works

LEMMA CaptureOpened == ASSUME FilesKept PROVE Opened(Capture) /\ Capture.raw
  <1>1. PICK e : e = Capture
    OBVIOUS
  <1>2. /\ e.raw = TRUE /\ e.seq = 0 /\ e.previous = None /\ e.complete = FALSE /\ e.file = 1
        /\ e.offset = 0 /\ e.line = << >> /\ e.lineOffset = 0
        /\ e.text = [i \in Index |-> Text(named[i])]
        /\ Common \subseteq DOMAIN e /\ Fields(e) \subseteq DOMAIN e
    BY <1>1 DEF Capture, Common, Fields
  <1>3. \A i \in Index : e.text[i] \in Seq(Unit)
    BY <1>2, TextIs
  <1>4. 1 \in Index /\ Index \subseteq 0 .. FileCount /\ \A i \in Index : ~ (i < 1)
    BY SizesAssumption DEF Index
  <1>5. PICK text \in Seq(Unit) : text = e.text[e.file]
    BY <1>2, <1>3, <1>4
  <1>6. EndBefore(text, 1) = 0 /\ SubSeq(text, 1, 0) = << >> /\ 0 <= Len(text)
    BY NoneBefore, LenProperties
  <1>7. At(e)
    <2>1. e.lineOffset = EndBefore(text, e.offset + 1)
          /\ e.line = SubSeq(text, e.lineOffset + 1, e.offset) /\ e.offset <= Len(text)
      BY <1>2, <1>6
    <2> QED BY <1>2, <1>3, <1>4, <1>5, <2>1 DEF At
  <1>8. Good(e)
    <2>1. e.seq \in Nat /\ e.previous = IF e.seq <= 1 THEN None ELSE e.seq - 1
      BY <1>2
    <2>2. e.raw \in BOOLEAN /\ e.complete \in BOOLEAN
      BY ONLY <1>1 DEF Capture
    <2> QED BY <1>2, <1>7, <2>1, <2>2 DEF Good
  <1>9. Partial(Started, e)
    <2>1. \A i \in Index : Started.data[i] = << >> /\ Started.records[i] = << >>
      BY <1>4 DEF Started
    <2>2. \A i \in Index : SubSeq(e.text[i], 1, 0) = << >> /\ Recorded(<< >>, e.text[i], 0)
      BY <1>3, NoneBefore, RecordedNone
    <2> QED BY <1>2, <1>4, <2>1, <2>2 DEF Partial
  <1> QED BY <1>1, <1>2, <1>8, <1>9 DEF Opened

LEMMA ProjectedOpened ==
    ASSUME NEW answer, Sequence(Parts(answer)) PROVE Opened(Projected(answer)) /\ ~ Projected(answer).raw
  <1>1. PICK e : e = Projected(answer)
    OBVIOUS
  <1>2. /\ e.raw = FALSE /\ e.seq = 0 /\ e.previous = None /\ e.complete = FALSE
        /\ e.offset = 0 /\ e.history = answer
        /\ Common \subseteq DOMAIN e /\ Fields(e) \subseteq DOMAIN e
    BY <1>1 DEF Projected, Common, Fields
  <1>3. PICK parts : parts = Parts(answer)
    OBVIOUS
  <1>4. PICK S : S = {parts[i] : i \in DOMAIN parts}
    OBVIOUS
  <1>5. parts \in Seq(S)
    BY <1>3, <1>4 DEF Sequence
  <1>6. At(e)
    <2>1. 0 <= Len(parts)
      BY <1>5, LenProperties
    <2> QED BY <1>2, <1>3, <2>1 DEF At
  <1>7. Partial(Started, e)
    <2>1. SubSeq(parts, 1, 0) = << >>
      BY SubSeqEmpty
    <2>2. Started.data[0] = << >>
      <3>1. 0 \in 0 .. FileCount
        BY SizesAssumption
      <3> QED BY <3>1 DEF Started
    <2> QED BY <1>2, <1>3, <2>1, <2>2 DEF Partial
  <1>8. Good(e)
    <2>1. e.seq \in Nat /\ e.previous = IF e.seq <= 1 THEN None ELSE e.seq - 1
      BY <1>2
    <2>2. e.raw \in BOOLEAN /\ e.complete \in BOOLEAN
      BY ONLY <1>1 DEF Projected
    <2> QED BY <1>2, <1>6, <2>1, <2>2 DEF Good
  <1> QED BY <1>1, <1>2, <1>7, <1>8 DEF Opened

LEMMA UnaskedMoves == ASSUME Unasked PROVE UNCHANGED files /\ Unmoved /\ changes' = changes
  BY DEF Unasked, Unmoved, client

LEMMA WorksHere ==
    ASSUME AnswersInv, ExportInv, NEW id \in DOMAIN Live, id = Line.cursor.export,
           Line.cursor # None, ~ Live[id].complete, Line.cursor.seq = Live[id].seq
    PROVE  Works(id, Live[id])
  <1>1. id \in DOMAIN exports /\ Live[id] = exports[id]
    BY DEF Live
  <1>2. Good(exports[id]) /\ Same(exports[id], exports[id])
    BY <1>1 DEF ExportInv, Same
  <1> QED BY <1>1, <1>2 DEF Works

(* The page an export was given last is the one just worked out.           *)
LEMMA HistoryLast ==
    ASSUME NEW e, Good(e), NEW id, NEW limit, NEW n, n = HistoryPageOf(e, id, limit)
    PROVE  n.export.last = n.page
  <1>1. {"raw", "seq", "previous", "last", "complete", "offset"} \subseteq DOMAIN e
    BY DEF Good, Common
  <1>2. PICK page : page = n.page
    OBVIOUS
  <1>3. PICK on : on = Given(e, page)
    OBVIOUS
  <1>4. on.last = page /\ DOMAIN on = DOMAIN e
    BY <1>1, <1>3 DEF Given
  <1>5. \E end : n.export = [on EXCEPT !.offset = end]
    BY <1>2, <1>3 DEF HistoryPageOf
  <1> QED BY <1>1, <1>2, <1>4, <1>5

LEMMA ContinuedExports == ASSUME AnswersInv, ExportInv, BeginContinued PROVE ExportInv'
  <1>1. Unmoved /\ job # Idle /\ Line.cursor # None
    BY UnaskedMoves DEF BeginContinued, Idle
  <1>2. PICK cursor : cursor = Line.cursor
    OBVIOUS
  <1>3. PICK raw : raw = (Line.method = "list")
    OBVIOUS
  <1>4. PICK id : id = cursor.export
    OBVIOUS
  <1>5. Fewer(Live) /\ Fewer(Without(Live, id))
    BY FewerLive, FewerWithout
  <1>6. CASE Refuse(Live) \/ Refuse(Without(Live, id))
    BY <1>1, <1>5, <1>6, RefuseKept
  <1>7. CASE CursorKnown(Live, cursor, raw) /\ Replays(Live[id], cursor) /\ Replay(cursor)
    <2>1. cursor.export \in DOMAIN Live
      BY <1>7 DEF CursorKnown
    <2> QED BY <1>1, <1>2, <1>4, <1>7, <2>1, ReplayKept
  <1>8. CASE /\ CursorKnown(Live, cursor, raw) /\ ~ Live[id].complete /\ cursor.seq = Live[id].seq
             /\ raw /\ exports' = Live /\ out' = out
             /\ job' = [pc |-> "identity", line |-> Line, export |-> id,
                        e |-> Live[id], at |-> named,
                        rewritten |-> IF Held(Live[id]) THEN -1 ELSE changes]
    <2>1. id \in DOMAIN Live /\ Live[id].raw = raw
      BY <1>4, <1>8 DEF CursorKnown
    <2>2. Works(id, Live[id])
      BY <1>1, <1>2, <1>4, <1>8, <2>1, WorksHere
    <2>3. PICK e : e = Live[id]
      OBVIOUS
    <2>4. /\ job'.pc = "identity" /\ job'.line = job.line /\ job'.export = id /\ job'.e = e
      BY <1>8, <2>3 DEF Line
    <2>5. Works(id, e)'
      <3>1. Line' = Line
        BY <2>4 DEF Line
      <3>2. Good(e) /\ ~ e.complete /\ Line.cursor.seq = e.seq /\ id = Line.cursor.export
        BY <1>1, <2>2, <2>3 DEF Works
      <3>3. id \in DOMAIN exports' /\ Same(exports'[id], e)
        BY <1>8, <2>1, <2>3 DEF Same
      <3> QED BY <1>1, <3>1, <3>2, <3>3 DEF Works
    <2>6. JobFits'
      BY <1>3, <1>8, <2>1, <2>3, <2>4, <2>5 DEF JobFits, Paging
    <2>7. job' # Idle
      BY <2>4 DEF Idle
    <2> QED BY <1>1, <1>5, <1>8, <2>4, <2>6, <2>7, OnWayKept
  <1>9. CASE /\ CursorKnown(Live, cursor, raw) /\ ~ Live[id].complete /\ cursor.seq = Live[id].seq
             /\ ~ raw
             /\ exports' = With(Live, id, HistoryPageOf(Live[id], id, Line.limit).export)
             /\ Reply("page", HistoryPageOf(Live[id], id, Line.limit).page)
    <2>1. id \in DOMAIN Live /\ Live[id].raw = raw
      BY <1>4, <1>9 DEF CursorKnown
    <2>2. PICK e : e = Live[id]
      OBVIOUS
    <2>3. Works(id, e)
      BY <1>1, <1>2, <1>4, <1>9, <2>1, <2>2, WorksHere
    <2>4. PICK limit \in Nat : limit = Line.limit
      BY <1>1, AskedPending DEF LineFits
    <2>5. PICK f : f = HistoryPageOf(e, id, limit).export
      OBVIOUS
    <2>6. Turned(e, f, id)
      <3>1. Good(e) /\ ~ e.raw /\ ~ e.complete
        BY <1>3, <1>9, <2>1, <2>2, <2>3 DEF Works
      <3>2. id \in Nat
        BY <2>1 DEF Live, ExportInv
      <3> QED BY <2>5, <3>1, <3>2, HistoryTurned
    <2>7. Reply("page", f.last)
      <3>1. PICK n : n = HistoryPageOf(e, id, limit)
        OBVIOUS
      <3>2. f.last = n.page
        BY <2>3, <2>5, <3>1, HistoryLast DEF Works
      <3> QED BY <1>9, <2>2, <2>4, <3>1, <3>2
    <2> QED BY <1>1, <1>5, <1>9, <2>2, <2>3, <2>4, <2>5, <2>6, <2>7, WorkedKept
  <1> QED BY <1>1, <1>2, <1>3, <1>4, <1>6, <1>7, <1>8, <1>9 DEF BeginContinued

LEMMA BegunExports == ASSUME AnswersInv, PageKept, ExportInv, BeginExport PROVE ExportInv'
  <1>1. Unmoved /\ job # Idle /\ Line.cursor = None
    BY UnaskedMoves DEF BeginExport, Idle
  <1>2. Fewer(Live) /\ Fewer(Evicted(Live))
    BY FewerLive, FewerEvicted
  <1>3. CASE Refuse(Live)
    BY <1>1, <1>2, <1>3, RefuseKept
  <1>4. CASE /\ exports' = Evicted(Live) /\ out' = out
             /\ job' = [pc |-> "identity", line |-> Line, export |-> Token,
                        e |-> Capture, at |-> named, rewritten |-> -1]
    <2>1. PICK e : e = Capture
      OBVIOUS
    <2>2. Opened(e) /\ e.raw
      BY <2>1, CaptureOpened DEF PageKept
    <2>3. PICK id \in Nat : id = Token
      BY Numbers
    <2>4. job'.pc = "identity" /\ job'.line = job.line /\ job'.export = id /\ job'.e = e
      BY <1>4, <2>1, <2>3 DEF Line
    <2>5. Works(id, e)'
      <3>1. Line'.cursor = None
        BY <1>1, <2>4 DEF Line
      <3>2. Token' = id
        BY <1>1, <2>3 DEF Token, Unmoved
      <3> QED BY <2>2, <3>1, <3>2 DEF Opened, Works
    <2>6. JobFits'
      BY <2>2, <2>4, <2>5 DEF JobFits, Paging
    <2>7. job' # Idle
      BY <2>4 DEF Idle
    <2> QED BY <1>1, <1>2, <1>4, <2>4, <2>6, <2>7, OnWayKept
  <1> QED BY <1>3, <1>4 DEF BeginExport

LEMMA AnsweredExports == ASSUME AnswersInv, PageKept, ExportInv, BeginHistory PROVE ExportInv'
  <1>1. Unmoved /\ job # Idle /\ Line.cursor = None
    BY UnaskedMoves DEF BeginHistory, Idle
  <1>2. Fewer(Live) /\ Fewer(Evicted(Live))
    BY FewerLive, FewerEvicted
  <1>3. CASE Refuse(Live) \/ Refuse(Evicted(Live))
    BY <1>1, <1>2, <1>3, RefuseKept
  <1>4. PICK text \in Seq(Unit) : text = Text(named[1])
    <2>1. 1 \in Index
      BY SizesAssumption DEF Index
    <2> QED BY <2>1, TextIs DEF PageKept
  <1>5. PICK answer : answer = HistoryWindow(text, None, Definition)
    OBVIOUS
  <1>6. CASE /\ exports' = Evicted(Live) /\ out' = out
             /\ job' = [pc |-> "reread", line |-> Line, export |-> Token,
                        e |-> Projected(answer), at |-> named, text |-> text]
    <2>1. PICK e : e = Projected(answer)
      OBVIOUS
    <2>2. Opened(e) /\ ~ e.raw
      BY <1>5, <2>1, WindowSequenced, ProjectedOpened
    <2>3. PICK id \in Nat : id = Token
      BY Numbers
    <2>4. job'.pc = "reread" /\ job'.line = job.line /\ job'.export = id /\ job'.e = e
      BY <1>6, <2>1, <2>3 DEF Line
    <2>5. Works(id, e)'
      <3>1. Line'.cursor = None
        BY <1>1, <2>4 DEF Line
      <3>2. Token' = id
        BY <1>1, <2>3 DEF Token, Unmoved
      <3> QED BY <2>2, <3>1, <3>2 DEF Opened, Works
    <2>6. JobFits'
      BY <2>2, <2>4, <2>5 DEF JobFits, Paging
    <2>7. job' # Idle
      BY <2>4 DEF Idle
    <2> QED BY <1>1, <1>2, <1>6, <2>4, <2>6, <2>7, OnWayKept
  <1> QED BY <1>3, <1>4, <1>5, <1>6 DEF BeginHistory, Refuse

LEMMA RereadExports == ASSUME AnswersInv, ExportInv, RereadHistory PROVE ExportInv'
  <1>1. Unmoved /\ job # Idle /\ job.pc = "reread"
    BY UnaskedMoves DEF RereadHistory, Idle
  <1>2. Fewer(exports)
    BY DEF Fewer
  <1>3. CASE Refuse(exports)
    BY <1>1, <1>2, <1>3, RefuseKept
  <1>4. PICK e : e = job.e
    OBVIOUS
  <1>5. PICK id : id = job.export
    OBVIOUS
  <1>6. CASE /\ exports' = With(exports, id, HistoryPageOf(e, id, Line.limit).export)
             /\ Reply("page", HistoryPageOf(e, id, Line.limit).page)
    <2>1. Works(id, e) /\ ~ e.raw
      BY <1>1, <1>4, <1>5 DEF ExportInv, JobFits, Paging
    <2>2. PICK limit \in Nat : limit = Line.limit
      BY <1>1, AskedPending DEF LineFits
    <2>3. PICK n : n = HistoryPageOf(e, id, limit)
      OBVIOUS
    <2>4. id \in Nat
      BY <1>1, <2>1, WorksNumber
    <2>5. PICK f : f = n.export
      OBVIOUS
    <2>6. Turned(e, f, id)
      BY <2>1, <2>3, <2>4, <2>5, HistoryTurned DEF Works
    <2>7. f.last = n.page
      BY <2>1, <2>3, <2>5, HistoryLast DEF Works
    <2>8. exports' = With(exports, id, f) /\ Reply("page", f.last)
      BY <1>6, <2>2, <2>3, <2>5, <2>7
    <2> QED BY <1>1, <1>2, <2>1, <2>6, <2>8, WorkedKept
  <1> QED BY <1>3, <1>4, <1>5, <1>6 DEF RereadHistory

(* The page's job goes on.                                                 *)
LEMMA StillPaging ==
    ASSUME AnswersInv, PageKept, ExportInv, Unmoved, job.pc \in Paging, NEW pc \in Paging,
           job' = [job EXCEPT !.pc = pc], UNCHANGED <<exports, out>>
    PROVE  ExportInv'
  <1>1. {"pc", "line", "export", "e"} \subseteq DOMAIN job
    BY DEF PageKept
  <1>2. job'.pc = pc /\ job'.line = job.line /\ job'.export = job.export /\ job'.e = job.e
    BY <1>1
  <1>3. job # Idle /\ job' # Idle
    BY <1>2 DEF Idle, Paging
  <1>4. PICK id : id = job.export
    OBVIOUS
  <1>5. PICK e : e = job.e
    OBVIOUS
  <1>6. Works(id, e) /\ e.raw
    BY <1>4, <1>5 DEF ExportInv, JobFits
  <1>7. Works(id, e)'
    BY <1>2, <1>6, WorksStill DEF Unmoved
  <1>8. JobFits'
    BY <1>2, <1>4, <1>5, <1>6, <1>7 DEF JobFits
  <1>9. Fewer(exports')
    BY DEF Fewer
  <1> QED BY <1>2, <1>3, <1>8, <1>9, OnWayKept

LEMMA ReadExports ==
    ASSUME AnswersInv, PageKept, ExportInv, ReadPage \/ OpenAgain PROVE ExportInv'
  <1>1. Unmoved /\ job # Idle /\ job.pc \in Paging
    BY UnaskedMoves DEF ReadPage, OpenAgain, Idle, Paging
  <1>2. Fewer(Without(exports, job.export))
    BY FewerWithout DEF Fewer
  <1>3. CASE Refuse(Without(exports, job.export))
    BY <1>1, <1>2, <1>3, RefuseKept
  <1>4. CASE job' = [job EXCEPT !.pc = "again"] /\ UNCHANGED <<exports, out>>
    <2>1. "again" \in Paging
      BY DEF Paging
    <2> QED BY <1>1, <1>4, <2>1, StillPaging
  <1>5. CASE job' = [job EXCEPT !.pc = "final"] /\ UNCHANGED <<exports, out>>
    <2>1. "final" \in Paging
      BY DEF Paging
    <2> QED BY <1>1, <1>5, <2>1, StillPaging
  <1> QED BY <1>3, <1>4, <1>5 DEF ReadPage, OpenAgain

LEMMA FinishedExports == ASSUME AnswersInv, ExportInv, FinishPage PROVE ExportInv'
  <1>1. Unmoved /\ job # Idle /\ job.pc \in Paging
    BY UnaskedMoves DEF FinishPage, Idle, Paging
  <1>2. Fewer(exports)
    BY DEF Fewer
  <1>3. PICK e : e = job.e
    OBVIOUS
  <1>4. PICK id : id = job.export
    OBVIOUS
  <1>5. PICK limit \in Nat : limit = Line.limit
    BY <1>1, AskedPending DEF LineFits
  <1>6. PICK n : n = PageOf(e, id, limit)
    OBVIOUS
  <1>7. PICK f : f = n.export
    OBVIOUS
  <1>8. Works(id, e) /\ e.raw
    BY <1>1, <1>3, <1>4 DEF ExportInv, JobFits
  <1>9. Turned(e, f, id)
    <2>1. id \in Nat
      BY <1>1, <1>8, WorksNumber
    <2> QED BY <1>6, <1>7, <1>8, <2>1, RawTurned DEF Works
  <1>10. f.last = n.page
    <2>1. PageIs(e, id, limit, n.page, n.export)
      BY <1>6, <1>8, PageFields DEF Works
    <2> QED BY <1>7, <2>1 DEF PageIs
  <1>11. CASE Refuse(Without(exports, id))
    BY <1>1, <1>2, <1>11, FewerWithout, RefuseKept
  <1>12. CASE exports' = With(exports, id, f) /\ (Reply("page", n.page) \/ Reply("error", None))
    BY <1>1, <1>2, <1>8, <1>9, <1>10, <1>12, WorkedKept
  <1> QED BY <1>3, <1>4, <1>5, <1>6, <1>7, <1>11, <1>12 DEF FinishPage, TooLong, Refuse

-----------------------------------------------------------------------------
(* A line read; the files, and time.                                       *)

LEMMA ReadFirst ==
    ASSUME Written(in), in # << >>, in' = Tail(in), NEW line, line = Head(in)
    PROVE  /\ Len(in) \in Nat /\ Len(in) >= 1 /\ Len(in') = Len(in) - 1
           /\ line \in {in[k] : k \in DOMAIN in} /\ line.id \in Id
           /\ {in'[k] : k \in DOMAIN in'} \subseteq {in[k] : k \in DOMAIN in}
  <1>1. PICK S : in \in Seq(S) /\ \A x \in S : x.id \in Id
    BY DEF Written
  <1>2. PICK n \in Nat : n = Len(in) /\ DOMAIN in = 1 .. n
    BY <1>1, LenProperties
  <1>3. n # 0
    BY <1>1, <1>2, EmptySeq
  <1>4. PICK t : t = in'
    OBVIOUS
  <1>5. /\ t \in Seq(S) /\ Len(t) = n - 1 /\ line = in[1] /\ line \in S
        /\ \A i \in 1 .. n - 1 : t[i] = in[i + 1]
    BY <1>1, <1>2, <1>4, HeadTailProperties
  <1>6. DOMAIN t = 1 .. n - 1
    BY <1>5, LenProperties
  <1>7. \A i \in 1 .. n - 1 : i + 1 \in 1 .. n
    BY <1>2
  <1>8. 1 \in 1 .. n
    BY <1>2, <1>3
  <1>9. \A k \in DOMAIN t : t[k] \in {in[i] : i \in DOMAIN in}
    BY <1>2, <1>5, <1>6, <1>7
  <1>10. line \in {in[k] : k \in DOMAIN in}
    BY <1>2, <1>5, <1>8
  <1> QED BY <1>1, <1>2, <1>3, <1>4, <1>5, <1>9, <1>10

(* What is answered at once is no page, and under an id.                   *)
LEMMA JudgedAnswer ==
    ASSUME NEW line, line.id \in Id, Judged(line) \notin {"silent", "page"}
    PROVE  Judged(line) = "null" \/ (Judged(line) # "page" /\ line.id # None /\ line.id \in Nat)
  BY DEF Judged, Id

LEMMA ReadLineExports == ASSUME AnswersInv, ExportInv, Read PROVE ExportInv'
  <1>1. PICK line : line = Head(in)
    OBVIOUS
  <1>2. /\ job = Idle /\ in # << >> /\ in' = Tail(in)
        /\ UNCHANGED <<exports, sent, asking, got>>
        /\ job' = IF Judged(line) = "page" THEN [pc |-> "begin", line |-> line] ELSE Idle
    BY <1>1 DEF Read
  <1>3. /\ Len(in) \in Nat /\ Len(in) >= 1 /\ Len(in') = Len(in) - 1
        /\ line \in {in[k] : k \in DOMAIN in} /\ line.id \in Id
        /\ {in'[k] : k \in DOMAIN in'} \subseteq {in[k] : k \in DOMAIN in}
    BY <1>1, <1>2, ReadFirst DEF AnswersInv
  <1>4. PICK known \in Int : known = Known /\ known = Token
    BY <1>2, Numbers
  <1>5. PICK later \in Int : later = Known' /\ known <= later
    <2>1. Token' = Token + 1
      BY <1>2, <1>3, Numbers DEF Token
    <2>2. Known' = Token + 1 \/ Known' = (Token + 1) - 1
      BY <2>1 DEF Known
    <2> QED BY <1>4, <2>2
  <1>6. Pending' \subseteq Pending
    <2>1. job' # Idle => job'.line = line
      BY <1>2
    <2> QED BY <1>2, <1>3, <2>1 DEF Pending
  <1>7. Moves(exports', known)
        /\ \A id \in DOMAIN exports' :
             id \in Nat /\ id <= known /\ Good(exports'[id]) /\ exports'[id].seq >= 1
    BY <1>2, <1>4, FewerMoves DEF Fewer
  <1>8. \A id \in DOMAIN exports' :
             id \in Nat /\ id <= later /\ Good(exports'[id]) /\ exports'[id].seq >= 1
    <2>1. \A id \in Nat : id <= known => id <= later
      BY <1>5
    <2> QED BY <1>7, <2>1
  <1>9. \A a \in Answers' : a \in Answers \/ AnswerFits(a)'
    <2>1. CASE Judged(line) \in {"silent", "page"}
      <3>1. out' = out
        BY <1>1, <2>1 DEF Read
      <3> QED BY <3>1 DEF Answers
    <2>2. CASE Judged(line) \notin {"silent", "page"}
      <3>1. PICK a : a = [id |-> IF Judged(line) = "null" THEN Null ELSE line.id,
                          kind |-> Judged(line), page |-> None]
        OBVIOUS
      <3>2. out' = Append(out, a)
        BY <1>1, <2>2, <3>1 DEF Read, Answer
      <3>3. a.kind # "page" /\ a.id \in Nat /\ a.id <= sent
        <4>1. a.kind # "page" /\ (a.id = Null \/ (a.id = line.id /\ line.id # None /\ line.id \in Nat))
          BY <1>3, <2>2, <3>1, JudgedAnswer
        <4>2. Null \in Nat /\ Null <= sent
          BY Numbers DEF Null
        <4>3. line.id # None => line.id <= sent
          BY <1>3 DEF ExportInv, Pending, LineFits
        <4> QED BY <4>1, <4>2, <4>3
      <3>4. AnswerFits(a)'
        BY <1>2, <3>3 DEF AnswerFits
      <3>5. \A b : b = a /\ AnswerFits(a)' => AnswerFits(b)'
        OBVIOUS
      <3> QED BY <3>2, <3>4, <3>5, OutAdded DEF AnswersInv
    <2> QED BY <2>1, <2>2
  <1>10. JobFits'
    <2>1. job'.pc \in {"begin", "idle"}
      BY <1>2 DEF Idle
    <2> QED BY <2>1 DEF JobFits, Paging
  <1>11. Len(in') <= sent
    BY <1>3, Numbers DEF ExportInv
  <1> QED BY <1>2, <1>4, <1>5, <1>6, <1>7, <1>8, <1>9, <1>10, <1>11, StepKept

(* A step that leaves the pipe as it is, and of the exports only says that *)
(* they are old.                                                           *)
LEMMA AsideExports ==
    ASSUME AnswersInv, ExportInv, UNCHANGED <<in, out, sent, asking, got>>, job' = job,
           DOMAIN exports' = DOMAIN exports,
           \A id \in DOMAIN exports : Same(exports'[id], exports[id])
    PROVE  ExportInv'
  <1>1. PICK known \in Int : known = Known
    BY Numbers
  <1>2. Known' = known
    BY <1>1 DEF Known, Token
  <1>3. known <= known
    BY <1>1
  <1>4. Pending' \subseteq Pending
    BY DEF Pending
  <1>5. Moves(exports', known)
    BY DEF Moves
  <1>6. \A id \in DOMAIN exports' :
             id \in Nat /\ id <= known /\ Good(exports'[id]) /\ exports'[id].seq >= 1
    <2> SUFFICES ASSUME NEW id \in DOMAIN exports'
                 PROVE id \in Nat /\ id <= known /\ Good(exports'[id]) /\ exports'[id].seq >= 1
      OBVIOUS
    <2>1. PICK e : e = exports[id]
      OBVIOUS
    <2>2. PICK f : f = exports'[id]
      OBVIOUS
    <2>3. id \in Nat /\ id <= known /\ Good(e) /\ e.seq >= 1
      BY <1>1, <2>1 DEF ExportInv
    <2>4. Same(f, e)
      BY <2>1, <2>2
    <2>5. Good(f) /\ f.seq = e.seq
      BY <2>3, <2>4, SameGood
    <2> QED BY <2>2, <2>3, <2>5
  <1>7. \A a \in Answers' : a \in Answers \/ AnswerFits(a)'
    BY DEF Answers
  <1>8. JobFits'
    <2>1. PICK id : id = job.export
      OBVIOUS
    <2>2. PICK e : e = job.e
      OBVIOUS
    <2>3. ASSUME Works(id, e) PROVE Works(id, e)'
      <3>1. Line' = Line /\ Token' = Token
        BY DEF Line, Token
      <3>2. id \in DOMAIN exports /\ Same(exports[id], e) => Same(exports'[id], e)
        BY DEF Same
      <3> QED BY <2>3, <3>1, <3>2 DEF Works
    <2> QED BY <2>1, <2>2, <2>3 DEF ExportInv, JobFits
  <1>9. Len(in') <= sent
    BY DEF ExportInv
  <1> QED BY <1>1, <1>2, <1>3, <1>4, <1>5, <1>6, <1>7, <1>8, <1>9, StepKept

LEMMA AgedExports == ASSUME AnswersInv, ExportInv, Age PROVE ExportInv'
  <1>1. PICK old \in DOMAIN exports :
          exports' = [k \in DOMAIN exports |-> [exports[k] EXCEPT !.old = @ \/ k <= old]]
    BY DEF Age
  <1>2. UNCHANGED <<in, out, sent, asking, got>> /\ job' = job
    BY DEF Age, client
  <1>3. DOMAIN exports' = DOMAIN exports
    BY <1>1
  <1>4. \A id \in DOMAIN exports : Same(exports'[id], exports[id])
    BY <1>1 DEF Same
  <1> QED BY <1>2, <1>3, <1>4, AsideExports

LEMMA ChangedExports ==
    ASSUME AnswersInv, ExportInv,
           AppendUnit \/ Rename \/ Rewrite \/ Reconfigure \/ UNCHANGED vars
    PROVE  ExportInv'
  <1>1. UNCHANGED <<in, out, sent, asking, got>> /\ job' = job /\ exports' = exports
    BY DEF AppendUnit, Rename, Rewrite, Reconfigure, Change, vars, client
  <1>2. \A id \in DOMAIN exports : Same(exports'[id], exports[id])
    BY <1>1 DEF Same
  <1> QED BY <1>1, <1>2, AsideExports

-----------------------------------------------------------------------------
(* The client.                                                             *)

LEMMA InAdded ==
    ASSUME Written(in), NEW line, in' = Append(in, line)
    PROVE  /\ Len(in) \in Nat /\ Len(in') = Len(in) + 1
           /\ {in'[k] : k \in DOMAIN in'} \subseteq {in[k] : k \in DOMAIN in} \cup {line}
  <1>1. PICK S : in \in Seq(S)
    BY DEF Written
  <1>2. PICK R : R = S \cup {line}
    OBVIOUS
  <1>3. in \in Seq(R) /\ line \in R
    BY <1>1, <1>2, SeqMonotonic
  <1>4. PICK n \in Nat : n = Len(in) /\ DOMAIN in = 1 .. n
    BY <1>3, LenProperties
  <1>5. PICK t : t = in'
    OBVIOUS
  <1>6. t \in Seq(R) /\ Len(t) = n + 1 /\ t[n + 1] = line /\ \A i \in 1 .. n : t[i] = in[i]
    BY <1>3, <1>4, <1>5, AppendProperties
  <1>7. DOMAIN t = 1 .. n + 1
    BY <1>6, LenProperties
  <1>8. \A k \in 1 .. n + 1 : k = n + 1 \/ k \in 1 .. n
    OBVIOUS
  <1>9. \A k \in DOMAIN t : t[k] = line \/ t[k] \in {in[i] : i \in DOMAIN in}
    BY <1>4, <1>6, <1>7, <1>8
  <1> QED BY <1>4, <1>5, <1>6, <1>9

(* A line more, which asks for nothing before what the client has.         *)
LEMMA FitsSent ==
    ASSUME NEW g, Fits(g), NEW line, Pending' \subseteq Pending \cup {line}, Known' = Known,
           exports' = exports, g.cursor # None => Behind(line, g)
    PROVE  Fits(g)'
  BY DEF Fits, Behind

LEMMA WorksSame ==
    ASSUME JobFits, UNCHANGED exports, job' = job, Token' = Token PROVE JobFits'
  <1>1. PICK id : id = job.export
    OBVIOUS
  <1>2. PICK e : e = job.e
    OBVIOUS
  <1>3. ASSUME Works(id, e) PROVE Works(id, e)'
    <2>1. Line' = Line
      BY DEF Line
    <2> QED BY <1>3, <2>1 DEF Works
  <1> QED BY <1>1, <1>2, <1>3 DEF JobFits

LEMMA SentExports ==
    ASSUME AnswersInv, ExportInv, NEW line, in' = Append(in, line), sent' = sent + 1,
           job' = job, UNCHANGED <<exports, out, got>>,
           line.limit \in Nat, line.id \in {None, sent + 1}, line.cursor \in {None, got.cursor},
           \/ asking' = asking
           \/ asking' = sent + 1 /\ line.cursor = got.cursor /\ ~ got.complete
    PROVE  ExportInv'
  <1>1. /\ Len(in) \in Nat /\ Len(in') = Len(in) + 1
        /\ {in'[k] : k \in DOMAIN in'} \subseteq {in[k] : k \in DOMAIN in} \cup {line}
    BY InAdded DEF AnswersInv
  <1>2. sent \in Nat /\ Len(in) <= sent /\ Len(in') <= sent'
    BY <1>1, Numbers DEF ExportInv
  <1>3. Token' = Token /\ Known' = Known
    <2>1. Token' = Token
      BY <1>1, <1>2 DEF Token
    <2> QED BY <2>1 DEF Known
  <1>4. Pending' \subseteq Pending \cup {line}
    BY <1>1 DEF Pending
  <1>5. JobFits'
    BY <1>3, WorksSame DEF ExportInv
  <1>6. asking # None => asking \in Nat /\ asking <= sent /\ asking # sent + 1
    <2>1. \A a \in Nat : a <= sent => a # sent + 1
      BY <1>2
    <2> QED BY <2>1 DEF ExportInv
  <1>7. asking' # None => asking' \in Nat /\ asking' <= sent' /\ ~ got'.complete
    <2>1. CASE asking' = asking
      <3>1. \A a \in Nat : a <= sent => a <= sent + 1
        BY <1>2
      <3> QED BY <2>1, <3>1 DEF ExportInv
    <2>2. CASE asking' = sent + 1 /\ ~ got.complete
      BY <1>2, <2>2
    <2> QED BY <2>1, <2>2
  <1>8. got.cursor # None => got.cursor \in Cursor /\ got.cursor.export <= Known
    BY DEF ExportInv, Fits
  <1>9. line.cursor # None => line.cursor = got.cursor /\ got.cursor.seq \in Nat
    BY <1>8 DEF Cursor
  <1>10. Fits(got)'
    <2>1. PICK g : g = got
      OBVIOUS
    <2>2. g.cursor # None => Behind(line, g)
      BY <1>9, <2>1 DEF Behind
    <2>3. Fits(g)'
      BY <1>3, <1>4, <2>1, <2>2, FitsSent DEF ExportInv
    <2> QED BY <2>1, <2>3, FitsStill
  <1>11. \A l \in Pending' : LineFits(l)'
    <2> SUFFICES ASSUME NEW l \in Pending' PROVE LineFits(l)'
      OBVIOUS
    <2>1. CASE l \in Pending
      <3>1. LineFits(l)
        BY <2>1 DEF ExportInv
      <3>2. l.id # None => l.id \in Nat /\ l.id <= sent
        BY <3>1 DEF LineFits, Id
      <3>3. l.id # None => l.id <= sent' /\ l.id # sent + 1
        BY <1>2, <3>2
      <3>4. asking' # None /\ l.id = asking' => asking' = asking
        BY <3>3
      <3> QED BY <1>3, <3>1, <3>3, <3>4 DEF LineFits
    <2>2. CASE l = line
      <3>1. line.id \in Id /\ (line.id # None => line.id <= sent')
        BY <1>2 DEF Id
      <3>2. line.cursor = None \/ (line.cursor \in Cursor /\ line.cursor.export <= Known')
        BY <1>3, <1>8
      <3>3. asking' # None /\ line.id = asking' => line.cursor = got.cursor
        BY <1>6
      <3> QED BY <2>2, <3>1, <3>2, <3>3 DEF LineFits
    <2> QED BY <1>4, <2>1, <2>2
  <1>12. \A a \in Answers' : AnswerFits(a)'
    <2> SUFFICES ASSUME NEW a \in Answers' PROVE AnswerFits(a)'
      OBVIOUS
    <2>1. AnswerFits(a)
      BY DEF Answers, ExportInv
    <2>2. a.id \in Nat /\ a.id <= sent' /\ a.id # sent + 1
      <3>1. a.id \in Nat /\ a.id <= sent
        BY <2>1 DEF AnswerFits
      <3> QED BY <1>2, <3>1
    <2>3. ASSUME asking' # None, a.id = asking', a.kind = "page"
          PROVE  Fits(After(got, a.page))' /\ Onward(got, After(got, a.page))'
      <3>1. asking' = asking
        BY <2>2, <2>3
      <3>2. PICK h : h = After(got, a.page)
        OBVIOUS
      <3>3. Fits(h) /\ Onward(got, h)
        BY <2>1, <2>3, <3>1, <3>2 DEF AnswerFits
      <3>4. h.cursor # None => Behind(line, h)
        BY <1>9, <3>3 DEF Onward, Behind
      <3>5. Fits(h)'
        BY <1>3, <1>4, <3>3, <3>4, FitsSent
      <3>6. h = After(got, a.page)'
        BY <3>2
      <3>7. Fits(After(got, a.page))'
        BY <3>5, <3>6 DEF Fits
      <3>8. Onward(got, After(got, a.page))'
        BY <3>2, <3>3
      <3> QED BY <3>7, <3>8
    <2> QED BY <2>2, <2>3 DEF AnswerFits
  <1>13. \A id \in DOMAIN exports' :
             id \in Nat /\ id <= Known' /\ Good(exports'[id]) /\ exports'[id].seq >= 1
    BY <1>3 DEF ExportInv
  <1> QED BY <1>2, <1>5, <1>7, <1>10, <1>11, <1>12, <1>13 DEF ExportInv

LEMMA AskedExports == ASSUME AnswersInv, ExportInv, SendAny \/ AskPage PROVE ExportInv'
  <1>1. CASE SendAny
    <2>1. PICK form \in Forms, method \in {"ping", "unknown"}, id \in {None, sent + 1} :
            Send([Blank EXCEPT !.form = form, !.method = method, !.id = id])
      BY <1>1 DEF SendAny
    <2>2. PICK line : line = [Blank EXCEPT !.form = form, !.method = method, !.id = id]
      OBVIOUS
    <2>3. line.id = id /\ line.limit = 1 /\ line.cursor = None
      BY <2>2 DEF Blank
    <2>4. in' = Append(in, line) /\ sent' = sent + 1
      BY <2>1, <2>2 DEF Send
    <2>5. job' = job /\ UNCHANGED <<exports, out, got, asking>>
      BY <1>1 DEF SendAny
    <2> QED BY <2>3, <2>4, <2>5, SentExports
  <1>2. CASE AskPage
    <2>1. PICK limit \in Limits, id \in {None, sent + 1}, raw \in BOOLEAN :
            /\ Send([Blank EXCEPT !.method = IF raw THEN "list" ELSE "history",
                                  !.id = id, !.cursor = got.cursor, !.limit = limit])
            /\ asking' = IF id = None THEN asking ELSE id
      BY <1>2 DEF AskPage
    <2>2. PICK method : method = IF raw THEN "list" ELSE "history"
      OBVIOUS
    <2>3. PICK line : line = [Blank EXCEPT !.method = method, !.id = id, !.cursor = got.cursor,
                                           !.limit = limit]
      OBVIOUS
    <2>4. line.id = id /\ line.limit = limit /\ line.cursor = got.cursor
      BY <2>3 DEF Blank
    <2>5. in' = Append(in, line) /\ sent' = sent + 1
      BY <2>1, <2>2, <2>3 DEF Send
    <2>6. job' = job /\ UNCHANGED <<exports, out, got>> /\ ~ got.complete
      BY <1>2 DEF AskPage
    <2>7. line.limit \in Nat
      BY <2>4, LimitsAssumption
    <2>8. asking' = asking \/ asking' = sent + 1
      BY <2>1
    <2> QED BY <2>4, <2>5, <2>6, <2>7, <2>8, SentExports
  <1> QED BY <1>1, <1>2

LEMMA OutRead ==
    ASSUME Written(out), out # << >>, out' = Tail(out)
    PROVE  Head(out) \in Answers /\ Answers' \subseteq Answers
  <1>1. PICK S : out \in Seq(S)
    BY DEF Written
  <1>2. PICK n \in Nat : n = Len(out) /\ DOMAIN out = 1 .. n
    BY <1>1, LenProperties
  <1>3. n # 0
    BY <1>1, <1>2, EmptySeq
  <1>4. PICK t : t = out'
    OBVIOUS
  <1>5. /\ t \in Seq(S) /\ Len(t) = n - 1 /\ Head(out) = out[1]
        /\ \A i \in 1 .. n - 1 : t[i] = out[i + 1]
    BY <1>1, <1>2, <1>4, HeadTailProperties
  <1>6. DOMAIN t = 1 .. n - 1
    BY <1>5, LenProperties
  <1>7. \A i \in 1 .. n - 1 : i + 1 \in 1 .. n
    BY <1>2
  <1>8. 1 \in 1 .. n
    BY <1>2, <1>3
  <1>9. \A k \in DOMAIN t : t[k] \in {out[i] : i \in DOMAIN out}
    BY <1>2, <1>5, <1>6, <1>7
  <1>10. Head(out) \in {out[i] : i \in DOMAIN out}
    BY <1>2, <1>5, <1>8
  <1> QED BY <1>4, <1>9, <1>10 DEF Answers

(* The asking is answered.                                                 *)
LEMMA GotExports ==
    ASSUME AnswersInv, ExportInv, UNCHANGED <<in, sent, exports>>, job' = job,
           Answers' \subseteq Answers, asking' = None, NEW g, got' = g, Fits(g)
    PROVE  ExportInv'
  <1>1. Token' = Token /\ Known' = Known
    BY DEF Token, Known
  <1>2. Pending' = Pending
    BY DEF Pending
  <1>3. Fits(got)'
    <2>1. Fits(g)'
      BY <1>1, <1>2 DEF Fits
    <2> QED BY <2>1, FitsStill
  <1>4. \A l \in Pending' : LineFits(l)'
    BY <1>1, <1>2 DEF ExportInv, LineFits
  <1>5. \A a \in Answers' : AnswerFits(a)'
    BY DEF ExportInv, AnswerFits
  <1>6. JobFits'
    BY <1>1, WorksSame DEF ExportInv
  <1>7. \A id \in DOMAIN exports' :
             id \in Nat /\ id <= Known' /\ Good(exports'[id]) /\ exports'[id].seq >= 1
    BY <1>1 DEF ExportInv
  <1>8. Len(in') <= sent'
    BY DEF ExportInv
  <1> QED BY <1>3, <1>4, <1>5, <1>6, <1>7, <1>8 DEF ExportInv

LEMMA StartedFits == Fits(Started)
  <1>1. Shape(Started) /\ Started.cursor = None /\ ~ Started.complete
    BY DEF Started, Shape
  <1> QED BY <1>1 DEF Fits

LEMMA ReceivedExports == ASSUME AnswersInv, ExportInv, Receive PROVE ExportInv'
  <1>1. /\ out # << >> /\ out' = Tail(out) /\ UNCHANGED <<in, sent, exports>> /\ job' = job
    BY DEF Receive
  <1>2. PICK a : a = Head(out)
    OBVIOUS
  <1>3. a \in Answers /\ Answers' \subseteq Answers
    BY <1>1, <1>2, OutRead DEF AnswersInv
  <1>4. AnswerFits(a)
    BY <1>3 DEF ExportInv
  <1>5. CASE UNCHANGED <<asking, got>>
    <2>1. PICK known \in Int : known = Known
      BY Numbers
    <2>2. Known' = known /\ known <= known
      BY <1>1, <2>1 DEF Known, Token
    <2>3. Pending' \subseteq Pending
      BY <1>1 DEF Pending
    <2>4. Moves(exports', known)
          /\ \A id \in DOMAIN exports' :
             id \in Nat /\ id <= known /\ Good(exports'[id]) /\ exports'[id].seq >= 1
      BY <1>1, <2>1, FewerMoves DEF Fewer
    <2>5. JobFits'
      <3>1. Token' = Token
        BY <1>1 DEF Token
      <3> QED BY <1>1, <3>1, WorksSame DEF ExportInv
    <2>6. Len(in') <= sent
      BY <1>1 DEF ExportInv
    <2> QED BY <1>1, <1>3, <1>5, <2>1, <2>2, <2>3, <2>4, <2>5, <2>6, StepKept
  <1>6. CASE a.id = asking /\ a.id # Null /\ asking' = None
             /\ IF a.kind # "page" THEN got' = Started ELSE got' = After(got, a.page)
    <2>1. asking # None
      BY <1>4, <1>6, FilesAssumption DEF AnswerFits
    <2>2. CASE a.kind # "page"
      <3>1. PICK g : g = Started
        OBVIOUS
      <3> QED BY <1>1, <1>3, <1>6, <2>2, <3>1, StartedFits, GotExports
    <2>3. CASE a.kind = "page"
      <3>1. PICK g : g = After(got, a.page)
        OBVIOUS
      <3>2. Fits(g) /\ got' = g
        BY <1>4, <1>6, <2>1, <2>3, <3>1 DEF AnswerFits
      <3> QED BY <1>1, <1>3, <1>6, <3>2, GotExports
    <2> QED BY <2>2, <2>3
  <1> QED BY <1>2, <1>5, <1>6 DEF Receive, After

-----------------------------------------------------------------------------
(* The exports.                                                            *)

LEMMA ExportsBegin == Init => ExportInv
  <1> SUFFICES ASSUME Init PROVE ExportInv
    OBVIOUS
  <1>1. /\ exports = Nothing /\ job = Idle /\ in = << >> /\ out = << >> /\ sent = 0
        /\ asking = None /\ got = Started
    BY DEF Init
  <1>2. DOMAIN in = {} /\ DOMAIN out = {} /\ Len(in) = 0
    BY <1>1
  <1>3. Pending = {} /\ Answers = {}
    BY <1>1, <1>2 DEF Pending, Answers
  <1>4. DOMAIN exports = {}
    BY <1>1 DEF Nothing
  <1>5. Fits(got)
    BY <1>1, StartedFits
  <1>6. JobFits
    BY <1>1 DEF JobFits, Idle, Paging
  <1> QED BY <1>1, <1>2, <1>3, <1>4, <1>5, <1>6 DEF ExportInv

LEMMA ExportsGoOn ==
    ASSUME AnswersInv, PageKept, ExportInv, [Next]_vars PROVE ExportInv'
  <1>1. CASE Read
    BY <1>1, ReadLineExports
  <1>2. CASE BeginContinued
    BY <1>2, ContinuedExports
  <1>3. CASE BeginExport
    BY <1>3, BegunExports
  <1>4. CASE BeginHistory
    BY <1>4, AnsweredExports
  <1>5. CASE RereadHistory
    BY <1>5, RereadExports
  <1>6. CASE ReadPage \/ OpenAgain
    BY <1>6, ReadExports
  <1>7. CASE FinishPage
    BY <1>7, FinishedExports
  <1>8. CASE Age
    BY <1>8, AgedExports
  <1>9. CASE SendAny \/ AskPage
    BY <1>9, AskedExports
  <1>10. CASE Receive
    BY <1>10, ReceivedExports
  <1>11. CASE AppendUnit \/ Rename \/ Rewrite \/ Reconfigure \/ UNCHANGED vars
    BY <1>11, ChangedExports
  <1> QED BY <1>1, <1>2, <1>3, <1>4, <1>5, <1>6, <1>7, <1>8, <1>9, <1>10, <1>11
          DEF Next, Server

(* An export that a client put together from its pages, whichever it asked  *)
(* for again and whatever happened to the files and the slots meanwhile, is *)
(* what was captured when it began, and its decoded lines the captured      *)
(* lines (Pager.Page, HistoryPage).                                         *)
THEOREM ExportStands == Spec => []ExportExact
  <1> DEFINE Inv == AnswersInv /\ PageKept /\ ExportInv
  <1>1. Init => Inv
    BY AnswersBegin, PageBegins, ExportsBegin
  <1>2. Inv /\ [Next]_vars => Inv'
    BY AnswersGoOn, PageGoesOn, ExportsGoOn
  <1>3. Inv => ExportExact
    BY DEF ExportInv, Fits, Exact, ExportExact
  <1> QED BY <1>1, <1>2, <1>3, PTL DEF Spec
=============================================================================
