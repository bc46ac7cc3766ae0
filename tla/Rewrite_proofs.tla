---------------------------- MODULE Rewrite_proofs ----------------------------
(***************************************************************************)
(* What Pietro passes on and what it never does, for any lines a caller    *)
(* may send and any answer of an upstream.                                 *)
(***************************************************************************)
EXTENDS Rewrite, SequenceTheorems, WellFoundedInduction, TLAPS

-----------------------------------------------------------------------------
(* Induction, over numbers and over sequences.                             *)

LEMMA NatSetInduction ==
    ASSUME NEW S \in SUBSET Nat, 0 \in S, \A n \in S : n + 1 \in S
    PROVE  S = Nat
<1> DEFINE R == {ss \in Nat \X Nat : ss[1] < ss[2]}
<1>1. IsWellFoundedOn(R, Nat)
  BY NatLessThanWellFounded DEF OpToRel
<1>2. SUFFICES ASSUME Nat \ S # {} PROVE FALSE
  OBVIOUS
<1> HIDE DEF R
<1>3. PICK n \in Nat \ S : \A m \in Nat \ S : <<m, n>> \notin R
  BY <1>1, <1>2, WFMin
<1>4. n # 0 /\ n - 1 \in Nat
  BY <1>3
<1>5. n - 1 \in S
  <2>1. <<n - 1, n>> \in R
    BY <1>3, <1>4 DEF R
  <2> QED
    BY <1>3, <1>4, <2>1
<1> QED
  BY <1>3, <1>4, <1>5

LEMMA SeqSetInduction ==
    ASSUME NEW T, NEW S \in SUBSET Seq(T), <<>> \in S,
           \A s \in S, x \in T : Append(s, x) \in S
    PROVE  S = Seq(T)
<1> DEFINE N == {n \in Nat : \A s \in Seq(T) : Len(s) = n => s \in S}
<1>1. 0 \in N
  OBVIOUS
<1>2. ASSUME NEW n \in N PROVE n + 1 \in N
  <2>1. ASSUME NEW s \in Seq(T), Len(s) = n + 1 PROVE s \in S
    <3>1. s # <<>>
      BY <1>2, <2>1
    <3>2. PICK f \in Seq(T), x \in T : s = Append(f, x)
      BY <3>1, SequenceEmptyOrAppend
    <3>3. Len(f) = n
      BY <1>2, <2>1, <3>2, AppendProperties, LenProperties
    <3> QED
      BY <1>2, <3>2, <3>3
  <2> QED
    BY <1>2, <2>1
<1> HIDE DEF N
<1>3. N = Nat
  BY <1>1, <1>2, NatSetInduction DEF N
<1> SUFFICES ASSUME NEW s \in Seq(T) PROVE s \in S
  OBVIOUS
<1>4. Len(s) \in N
  BY <1>3, LenProperties
<1> QED
  BY <1>4 DEF N

IsKept(k, seq, S, n) == k = [i \in 0..n |-> IF i = 0 THEN <<>>
          ELSE IF seq[i] \in S THEN k[i - 1]
          ELSE Append(k[i - 1], seq[i])]

LEMMA KeptExists ==
    ASSUME NEW seq, NEW S, NEW n \in Nat
    PROVE  \E k : IsKept(k, seq, S, n)
<1> DEFINE N == {m \in Nat : \E k : IsKept(k, seq, S, m)}
<1>1. 0 \in N
  <2>1. IsKept([i \in 0..0 |-> <<>>], seq, S, 0)
    BY DEF IsKept
  <2> QED
    BY <2>1
<1>2. ASSUME NEW m \in N PROVE m + 1 \in N
  <2>1. PICK k : IsKept(k, seq, S, m)
    BY <1>2
  <2> DEFINE last == IF seq[m+1] \in S THEN k[m] ELSE Append(k[m], seq[m+1])
             l == [i \in 0..(m+1) |-> IF i = m+1 THEN last ELSE k[i]]
  <2>2. m \in Nat /\ \A i \in 0..(m+1) : i # m + 1 => i \in 0..m
    BY <1>2
  <2>3. \A i \in 0..m : l[i] = k[i]
    BY <2>2
  <2> HIDE DEF last
  <2>3a. l[m+1] = last
    BY <2>2
  <2>4. ASSUME NEW i \in 0..(m+1)
        PROVE  l[i] = IF i = 0 THEN <<>>
          ELSE IF seq[i] \in S THEN l[i - 1]
          ELSE Append(l[i - 1], seq[i])
    <3>1. CASE i = m + 1
      BY <2>2, <2>3, <2>3a, <3>1 DEF last
    <3>2. CASE i # m + 1
      <4>1. i \in 0..m /\ (i # 0 => i - 1 \in 0..m)
        BY <2>2, <3>2
      <4>2. k[i] = IF i = 0 THEN <<>>
          ELSE IF seq[i] \in S THEN k[i - 1]
          ELSE Append(k[i - 1], seq[i])
        BY <2>1, <4>1 DEF IsKept
      <4> QED
        BY <2>3, <4>1, <4>2
    <3> QED
      BY <3>1, <3>2
  <2>5. IsKept(l, seq, S, m + 1)
    BY <2>4 DEF IsKept
  <2> QED
    BY <2>2, <2>5
<1> HIDE DEF N
<1>3. N = Nat
  BY <1>1, <1>2, NatSetInduction DEF N
<1> QED
  BY <1>3 DEF N

LEMMA WithoutKept ==
    ASSUME NEW seq, NEW S, Len(seq) \in Nat
    PROVE  \E k : IsKept(k, seq, S, Len(seq)) /\ Without(seq, S) = k[Len(seq)]
<1> DEFINE k == CHOOSE k : IsKept(k, seq, S, Len(seq))
<1>1. IsKept(k, seq, S, Len(seq))
  BY KeptExists
<1>2. Without(seq, S) = k[Len(seq)]
  BY DEF Without, IsKept
<1> QED
  BY <1>1, <1>2

\* What two computations have in common they agree on.
LEMMA KeptAgree ==
    ASSUME NEW seq, NEW t, NEW S, NEW n \in Nat, NEW m \in Nat, n <= m,
           \A i \in 1..n : seq[i] = t[i],
           NEW k, IsKept(k, seq, S, n), NEW l, IsKept(l, t, S, m)
    PROVE  \A i \in 0..n : k[i] = l[i]
<1> DEFINE N == {i \in Nat : i <= n => k[i] = l[i]}
<1>0. k[0] = <<>> /\ l[0] = <<>>
  BY DEF IsKept
<1>1. 0 \in N
  BY <1>0
<1>2. ASSUME NEW i \in N PROVE i + 1 \in N
  <2> SUFFICES ASSUME i + 1 <= n PROVE k[i + 1] = l[i + 1]
    BY <1>2
  <2> DEFINE j == i + 1
  <2>1. i \in Nat /\ k[i] = l[i] /\ j \in 1..n /\ j \in 0..n /\ j \in 0..m /\ j # 0 /\ j - 1 = i
    BY <1>2
  <2>2. k[j] = IF seq[j] \in S THEN k[i] ELSE Append(k[i], seq[j])
    BY <2>1 DEF IsKept
  <2>3. l[j] = IF t[j] \in S THEN l[i] ELSE Append(l[i], t[j])
    BY <2>1 DEF IsKept
  <2> QED
    BY <2>1, <2>2, <2>3
<1> HIDE DEF N
<1>3. N = Nat
  BY <1>1, <1>2, NatSetInduction DEF N
<1> QED
  BY <1>3 DEF N

LEMMA WithoutEmpty == ASSUME NEW S PROVE Without(<<>>, S) = <<>>
<1>1. PICK k : IsKept(k, <<>>, S, 0) /\ Without(<<>>, S) = k[0]
  BY WithoutKept
<1> QED
  BY <1>1 DEF IsKept

LEMMA WithoutAppend ==
    ASSUME NEW T, NEW S, NEW seq \in Seq(T), NEW x \in T
    PROVE  Without(Append(seq, x), S)
             = IF x \in S THEN Without(seq, S) ELSE Append(Without(seq, S), x)
<1> DEFINE n == Len(seq)
           t == Append(seq, x)
<1>1. /\ n \in Nat /\ Len(t) = n + 1 /\ t[n + 1] = x
      /\ \A i \in 1..n : seq[i] = t[i]
  BY AppendProperties, LenProperties
<1> HIDE DEF n, t
<1>2. PICK k : IsKept(k, seq, S, n) /\ Without(seq, S) = k[n]
  BY <1>1, WithoutKept DEF n
<1>3. PICK l : IsKept(l, t, S, n + 1) /\ Without(t, S) = l[n + 1]
  BY <1>1, WithoutKept
<1>4. k[n] = l[n]
  <2> DEFINE m == n + 1
  <2>1. m \in Nat /\ n <= m /\ n \in 0..n
    BY <1>1
  <2>2. IsKept(l, t, S, m)
    BY <1>3
  <2> HIDE DEF m
  <2>3. \A i \in 0..n : k[i] = l[i]
    BY <1>1, <1>2, <2>1, <2>2, KeptAgree
  <2> QED
    BY <2>1, <2>3
<1>5. l[n + 1] = IF t[n + 1] \in S THEN l[n] ELSE Append(l[n], t[n + 1])
  <2>1. n + 1 \in 0..(n + 1) /\ n + 1 # 0 /\ (n + 1) - 1 = n
    BY <1>1
  <2> QED
    BY <1>3, <2>1 DEF IsKept
<1> QED
  BY <1>1, <1>2, <1>3, <1>4, <1>5 DEF t

\* What is taken out is out, and nothing else is new.
LEMMA WithoutType ==
    ASSUME NEW T, NEW S, NEW seq \in Seq(T)
    PROVE  Without(seq, S) \in Seq(T \ S)
<1> DEFINE N == {s \in Seq(T) : Without(s, S) \in Seq(T \ S)}
<1>1. <<>> \in N
  BY WithoutEmpty, EmptySeq
<1>2. ASSUME NEW s \in N, NEW x \in T PROVE Append(s, x) \in N
  <2>1. /\ s \in Seq(T) /\ Append(s, x) \in Seq(T) /\ Without(s, S) \in Seq(T \ S)
        /\ Without(Append(s, x), S)
             = IF x \in S THEN Without(s, S) ELSE Append(Without(s, S), x)
    BY <1>2, WithoutAppend, AppendProperties
  <2>2. x \notin S => Append(Without(s, S), x) \in Seq(T \ S)
    BY <2>1, AppendProperties
  <2> QED
    BY <2>1, <2>2
<1> HIDE DEF N
<1>3. N = Seq(T)
  BY <1>1, <1>2, SeqSetInduction DEF N
<1> QED
  BY <1>3 DEF N

LEMMA WithoutNothing ==
    ASSUME NEW T, NEW S, NEW seq \in Seq(T), T \cap S = {}
    PROVE  Without(seq, S) = seq
<1> DEFINE N == {s \in Seq(T) : Without(s, S) = s}
<1>1. <<>> \in N
  BY WithoutEmpty, EmptySeq
<1>2. ASSUME NEW s \in N, NEW x \in T PROVE Append(s, x) \in N
  BY <1>2, WithoutAppend, AppendProperties
<1> HIDE DEF N
<1>3. N = Seq(T)
  BY <1>1, <1>2, SeqSetInduction DEF N
<1> QED
  BY <1>3 DEF N

LEMMA WithoutAll ==
    ASSUME NEW S, NEW seq \in Seq(S)
    PROVE  Without(seq, S) = <<>>
<1> DEFINE N == {s \in Seq(S) : Without(s, S) = <<>>}
<1>1. <<>> \in N
  BY WithoutEmpty, EmptySeq
<1>2. ASSUME NEW s \in N, NEW x \in S PROVE Append(s, x) \in N
  BY <1>2, WithoutAppend, AppendProperties
<1> HIDE DEF N
<1>3. N = Seq(S)
  BY <1>1, <1>2, SeqSetInduction DEF N
<1> QED
  BY <1>3 DEF N

LEMMA WithoutConcat ==
    ASSUME NEW T, NEW S, NEW s \in Seq(T), NEW t \in Seq(T)
    PROVE  Without(s \o t, S) = Without(s, S) \o Without(t, S)
<1> DEFINE N == {u \in Seq(T) : Without(s \o u, S) = Without(s, S) \o Without(u, S)}
<1>0. Without(s, S) \in Seq(T \ S) /\ \A u \in Seq(T) : Without(u, S) \in Seq(T \ S)
  BY WithoutType
<1>1. <<>> \in N
  BY <1>0, WithoutEmpty, ConcatEmptySeq, EmptySeq
<1>2. ASSUME NEW u \in N, NEW x \in T PROVE Append(u, x) \in N
  <2>1. /\ u \in Seq(T) /\ s \o u \in Seq(T) /\ Append(u, x) \in Seq(T)
        /\ s \o Append(u, x) = Append(s \o u, x)
        /\ Without(s \o u, S) = Without(s, S) \o Without(u, S)
    BY <1>2
  <2>2a. Without(Append(u, x), S) = IF x \in S THEN Without(u, S) ELSE Append(Without(u, S), x)
    BY <2>1, WithoutAppend
  <2>2b. ASSUME NEW v \in Seq(T), v = s \o u
         PROVE  Without(Append(v, x), S) = IF x \in S THEN Without(v, S) ELSE Append(Without(v, S), x)
    BY WithoutAppend
  <2>2c. Without(Append(s \o u, x), S) = IF x \in S THEN Without(s \o u, S) ELSE Append(Without(s \o u, S), x)
    BY <2>1, <2>2b
  <2>2. CASE x \in S
    BY <2>1, <2>2a, <2>2c, <2>2
  <2>3. CASE x \notin S
    <3>1. Without(s, S) \o Append(Without(u, S), x) = Append(Without(s, S) \o Without(u, S), x)
      BY <1>0, <2>1, <2>3
    <3> QED
      BY <2>1, <2>2a, <2>2c, <2>3, <3>1
  <2> QED
    BY <2>2, <2>3
<1> HIDE DEF N
<1>3. N = Seq(T)
  BY <1>1, <1>2, SeqSetInduction DEF N
<1> QED
  BY <1>3 DEF N

-----------------------------------------------------------------------------
(* FlattenSeq                                                              *)

IsFlat(k, ss, n) == k = [i \in 1..n |-> IF i = 1 THEN ss[i] ELSE k[i - 1] \o ss[i]]

LEMMA FlatExists ==
    ASSUME NEW ss, NEW n \in Nat
    PROVE  \E k : IsFlat(k, ss, n)
<1> DEFINE N == {m \in Nat : \E k : IsFlat(k, ss, m)}
<1>1. 0 \in N
  <2>1. IsFlat([i \in 1..0 |-> <<>>], ss, 0)
    BY DEF IsFlat
  <2> QED
    BY <2>1
<1>2. ASSUME NEW m \in N PROVE m + 1 \in N
  <2>1. PICK k : IsFlat(k, ss, m)
    BY <1>2
  <2> DEFINE last == IF m = 0 THEN ss[m + 1] ELSE k[m] \o ss[m + 1]
             l == [i \in 1..(m + 1) |-> IF i = m + 1 THEN last ELSE k[i]]
  <2> HIDE DEF last
  <2>2. m \in Nat /\ (\A i \in 1..m : l[i] = k[i]) /\ l[m + 1] = last
    BY <1>2
  <2>3. ASSUME NEW i \in 1..(m + 1)
        PROVE  l[i] = IF i = 1 THEN ss[i] ELSE l[i - 1] \o ss[i]
    <3>1. CASE i = m + 1
      <4>1. m # 0 => m \in 1..m /\ i # 1 /\ i - 1 = m
        BY <2>2, <3>1
      <4>2. m = 0 => i = 1
        BY <3>1
      <4> QED
        BY <2>2, <3>1, <4>1, <4>2 DEF last
    <3>2. CASE i # m + 1
      <4>1. i \in 1..m /\ (i # 1 => i - 1 \in 1..m)
        BY <2>2, <3>2
      <4>2. k[i] = IF i = 1 THEN ss[i] ELSE k[i - 1] \o ss[i]
        BY <2>1, <4>1 DEF IsFlat
      <4> QED
        BY <2>2, <4>1, <4>2
    <3> QED
      BY <3>1, <3>2
  <2>4. IsFlat(l, ss, m + 1)
    BY <2>3 DEF IsFlat
  <2> QED
    BY <2>2, <2>4
<1> HIDE DEF N
<1>3. N = Nat
  BY <1>1, <1>2, NatSetInduction DEF N
<1> QED
  BY <1>3 DEF N

LEMMA FlatAgree ==
    ASSUME NEW ss, NEW tt, NEW n \in Nat, NEW m \in Nat, n <= m,
           \A i \in 1..n : ss[i] = tt[i],
           NEW k, IsFlat(k, ss, n), NEW l, IsFlat(l, tt, m)
    PROVE  \A i \in 1..n : k[i] = l[i]
<1> DEFINE N == {i \in Nat : i \in 1..n => k[i] = l[i]}
<1>1. 0 \in N
  OBVIOUS
<1>2. ASSUME NEW i \in N PROVE i + 1 \in N
  <2> SUFFICES ASSUME i + 1 <= n PROVE k[i + 1] = l[i + 1]
    BY <1>2
  <2> DEFINE j == i + 1
  <2>1. i \in Nat /\ j \in 1..n /\ j \in 1..m /\ j - 1 = i /\ (j # 1 => k[i] = l[i])
    BY <1>2
  <2>2. k[j] = IF j = 1 THEN ss[j] ELSE k[i] \o ss[j]
    BY <2>1 DEF IsFlat
  <2>3. l[j] = IF j = 1 THEN tt[j] ELSE l[i] \o tt[j]
    BY <2>1 DEF IsFlat
  <2> QED
    BY <2>1, <2>2, <2>3
<1> HIDE DEF N
<1>3. N = Nat
  BY <1>1, <1>2, NatSetInduction DEF N
<1> QED
  BY <1>3 DEF N

LEMMA FlattenFlat ==
    ASSUME NEW ss, Len(ss) \in Nat, Len(ss) # 0
    PROVE  \E k : IsFlat(k, ss, Len(ss)) /\ FlattenSeq(ss) = k[Len(ss)]
<1> DEFINE k == CHOOSE k : IsFlat(k, ss, Len(ss))
<1>1. IsFlat(k, ss, Len(ss))
  BY FlatExists
<1>2. FlattenSeq(ss) = k[Len(ss)]
  BY DEF FlattenSeq, IsFlat
<1> QED
  BY <1>1, <1>2

LEMMA FlattenEmpty == FlattenSeq(<<>>) = <<>>
  BY DEF FlattenSeq

LEMMA FlattenAppend ==
    ASSUME NEW T, NEW ss \in Seq(Seq(T)), NEW s \in Seq(T)
    PROVE  FlattenSeq(Append(ss, s)) = FlattenSeq(ss) \o s
<1> DEFINE n == Len(ss)
           tt == Append(ss, s)
           m == n + 1
<1>1. /\ n \in Nat /\ m \in Nat /\ n <= m /\ m # 0 /\ Len(tt) = m /\ tt[m] = s
      /\ \A i \in 1..n : ss[i] = tt[i]
      /\ m - 1 = n /\ m \in 1..m /\ (n # 0 => n \in 1..n /\ m # 1) /\ (n = 0 => m = 1)
  BY AppendProperties, LenProperties
<1> HIDE DEF n, m, tt
<1>2. PICK l : IsFlat(l, tt, m) /\ FlattenSeq(tt) = l[m]
  BY <1>1, FlattenFlat
<1>3. l[m] = IF m = 1 THEN tt[m] ELSE l[n] \o tt[m]
  BY <1>1, <1>2 DEF IsFlat
<1>4. CASE n = 0
  <2>1. ss = <<>>
    BY <1>4, EmptySeq DEF n
  <2> QED
    BY <1>1, <1>2, <1>3, <1>4, <2>1, FlattenEmpty, ConcatEmptySeq DEF tt
<1>5. CASE n # 0
  <2>1. PICK k : IsFlat(k, ss, n) /\ FlattenSeq(ss) = k[n]
    <3>1. Len(ss) = n
      BY DEF n
    <3> QED
      BY <1>1, <1>5, <3>1, FlattenFlat
  <2>2. \A i \in 1..n : k[i] = l[i]
    <3>1. n \in Nat /\ m \in Nat /\ n <= m /\ \A i \in 1..n : ss[i] = tt[i]
      BY <1>1
    <3>2. IsFlat(k, ss, n) /\ IsFlat(l, tt, m)
      BY <1>2, <2>1
    <3> QED
      BY <3>1, <3>2, FlatAgree
  <2> QED
    BY <1>1, <1>2, <1>3, <1>5, <2>1, <2>2 DEF tt
<1> QED
  BY <1>4, <1>5

-----------------------------------------------------------------------------
\* What the filter drops stays dropped, but for the names Pietro writes.
LEMMA FilterDrops ==
    ASSUME NEW headers, NEW n \in Names, n \in Dropped(headers)
    PROVE  filter_request_headers(headers)[n] = <<>>
  BY DEF filter_request_headers

LEMMA OthersAreKept ==
    ASSUME NEW f, NEW n \in Names, n \notin CredentialName, n # Xff
    PROVE  LET headers == [m \in Names |-> f[m]]
           IN  add_xff_entry(InjectHeader(service.auth, headers))[n] = headers[n]
<1> DEFINE headers == [m \in Names |-> f[m]]
           injected == InjectHeader(service.auth, headers)
<1>1. injected[n] = headers[n] /\ injected = [m \in Names |-> injected[m]]
  BY DEF InjectHeader, Insert, CredentialName
<1>2. add_xff_entry(injected)[n] = injected[n]
  BY <1>1 DEF add_xff_entry, Insert
<1> QED
  BY <1>1, <1>2

\* What the caller's first Connection line lists is dropped.
LEMMA NamedAreDropped ==
    ASSUME NEW n \in NamedInLine(1), FirstText(request.headers, "connection") # None
    PROVE  n \in Dropped(request.headers)
  BY DEF NamedInLine, FirstText, connection_named, Dropped

-----------------------------------------------------------------------------
(* What the lines of a request may hold.                                   *)

CleanPart == Part \ {CallerKey, "pietro_session"}

\* The values of a name: a key is only in credentials, a session in cookies too.
Clean == [parts : Seq(CleanPart) \ {<<>>}, ascii : BOOLEAN]
Keyless == [parts : Seq(Part \ {CallerKey}) \ {<<>>}, ascii : BOOLEAN]
ValueOf(n) ==
    IF n = "authorization" THEN Value ELSE IF n = "cookie" THEN Keyless ELSE Clean

Placed(headers) ==
    /\ headers = [n \in Names |-> headers[n]]
    /\ \A n \in Names : headers[n] \in Seq(ValueOf(n))

LEMMA SeqAvoids ==
    ASSUME NEW T, NEW s \in Seq(T), NEW x, x \notin ToSet(s)
    PROVE  s \in Seq(T \ {x})
<1>1. Len(s) \in Nat /\ s \in [1..Len(s) -> T] /\ DOMAIN s = 1..Len(s)
  BY LenProperties
<1>2. \A i \in 1..Len(s) : s[i] \in T \ {x}
  BY <1>1 DEF ToSet
<1>3. s \in [1..Len(s) -> T \ {x}]
  BY <1>1, <1>2
<1> QED
  BY <1>1, <1>3, SeqDef

LEMMA SeqIsFree ==
    ASSUME NEW T, NEW s \in Seq(T), NEW x, x \notin T
    PROVE  x \notin ToSet(s)
  BY LenProperties, ElementOfSeq DEF ToSet

\* A sequence made element by element.
LEMMA MappedSeq ==
    ASSUME NEW T, NEW U, NEW s \in Seq(T), NEW f,
           f = [i \in DOMAIN s |-> f[i]], \A i \in 1..Len(s) : f[i] \in U
    PROVE  f \in Seq(U) /\ Len(f) = Len(s) /\ DOMAIN f = 1..Len(s)
<1>1. Len(s) \in Nat /\ DOMAIN s = 1..Len(s)
  BY LenProperties
<1>2. f \in [1..Len(s) -> U]
  BY <1>1
<1>3. f \in Seq(U)
  BY <1>1, <1>2, SeqDef
<1>4. DOMAIN f = 1..Len(s)
  BY <1>2
<1> QED
  BY <1>1, <1>3, <1>4, LenProperties

LEMMA ValuesGrow ==
    ASSUME NEW n
    PROVE  /\ Clean \subseteq Keyless /\ Keyless \subseteq Value
           /\ ValueOf(n) \subseteq Value /\ Clean \subseteq ValueOf(n)
<1>1. Seq(CleanPart) \subseteq Seq(Part \ {CallerKey}) /\ Seq(Part \ {CallerKey}) \subseteq Seq(Part)
  BY SeqMonotonic DEF CleanPart
<1>2. Clean \subseteq Keyless /\ Keyless \subseteq Value
  BY <1>1 DEF Clean, Keyless, Value
<1> QED
  BY <1>2 DEF ValueOf

PlacedLine == {l \in [name : Names, value : Value] : l.value \in ValueOf(l.name)}

LEMMA LinesArePlaced == Lines \cup {BearerLine} \subseteq PlacedLine
<1>1. BearerLine \in PlacedLine
  <2>1. <<CallerKey>> \in Seq(Part) /\ <<CallerKey>> # <<>>
    BY DEF Part
  <2> QED
    BY <2>1, NamesAssumption DEF BearerLine, PlacedLine, ValueOf, Value, Text
<1>2. ASSUME NEW l \in Lines PROVE l \in PlacedLine
  <2>1. l \in [name : Names, value : Value] /\ l.value \in Value
    BY LinesAssumption
  <2>2. /\ l.value.parts \in Seq(Part) /\ l.value.parts # <<>> /\ l.value.ascii \in BOOLEAN
        /\ l.value = [parts |-> l.value.parts, ascii |-> l.value.ascii]
    BY <2>1 DEF Value
  <2>3. l.name # "authorization" => l.value.parts \in Seq(Part \ {CallerKey})
    BY <2>2, LinesAssumption, SeqAvoids
  <2>4. l.name \notin {"authorization", "cookie"} => l.value.parts \in Seq(CleanPart)
    <3>1. ASSUME l.name \notin {"authorization", "cookie"}
          PROVE  l.value.parts \in Seq((Part \ {CallerKey}) \ {"pietro_session"})
      BY <2>3, <3>1, LinesAssumption, SeqAvoids
    <3>2. (Part \ {CallerKey}) \ {"pietro_session"} = CleanPart
      BY DEF CleanPart
    <3> QED
      BY <3>1, <3>2
  <2>5. l.name # "authorization" => l.value \in Keyless
    BY <2>2, <2>3 DEF Keyless
  <2>6. l.name \notin {"authorization", "cookie"} => l.value \in Clean
    BY <2>2, <2>4 DEF Clean
  <2> QED
    BY <2>1, <2>5, <2>6 DEF PlacedLine, ValueOf
<1> QED
  BY <1>1, <1>2

\* A request's header map has the values of each name in their places.
LEMMA CollectedArePlaced ==
    ASSUME NEW lines \in Seq(Lines)
    PROVE  Placed(Collect(<<BearerLine>> \o lines))
<1> DEFINE all == <<BearerLine>> \o lines
           of(n) == Without(all, [name : Names \ {n}, value : Value])
           values(n) == [i \in DOMAIN of(n) |-> of(n)[i].value]
<1>1. all \in Seq(PlacedLine)
  <2>1. <<BearerLine>> \in Seq(PlacedLine)
    BY LinesArePlaced
  <2>2. lines \in Seq(PlacedLine)
    BY LinesArePlaced, SeqMonotonic
  <2> QED
    BY <2>1, <2>2, ConcatProperties
<1> HIDE DEF all
<1>2. ASSUME NEW n \in Names PROVE values(n) \in Seq(ValueOf(n))
  <2>1. of(n) \in Seq(PlacedLine \ [name : Names \ {n}, value : Value])
    BY <1>1, WithoutType
  <2>2. \A l \in PlacedLine \ [name : Names \ {n}, value : Value] : l.value \in ValueOf(n)
    BY DEF PlacedLine
  <2>3. \A i \in 1..Len(of(n)) : of(n)[i].value \in ValueOf(n)
    BY <2>1, <2>2, ElementOfSeq
  <2> DEFINE seq == of(n)
  <2> HIDE DEF seq
  <2>4. ASSUME NEW f, f = [i \in DOMAIN seq |-> seq[i].value] PROVE f \in Seq(ValueOf(n))
    <3>1. seq \in Seq(PlacedLine \ [name : Names \ {n}, value : Value])
          /\ \A i \in 1..Len(seq) : seq[i].value \in ValueOf(n)
      BY <2>1, <2>3 DEF seq
    <3>2. DOMAIN seq = 1..Len(seq)
      BY <3>1, LenProperties
    <3>3. f = [i \in DOMAIN seq |-> f[i]] /\ \A i \in 1..Len(seq) : f[i] \in ValueOf(n)
      BY <2>4, <3>1, <3>2
    <3> QED
      BY <3>1, <3>3, MappedSeq
  <2> QED
    BY <2>4 DEF seq
<1>3. Collect(all) = [n \in Names |-> values(n)]
  BY DEF Collect
<1> QED
  BY <1>2, <1>3 DEF Placed, all

-----------------------------------------------------------------------------
(* What the filter and the insertions leave.                               *)

CleanHeaders == [Names -> Seq(Clean)]
Filtered == [parts : Seq(CleanPart), ascii : {TRUE}]

LEMMA CookieIsFiltered ==
    ASSUME NEW v \in Keyless
    PROVE  filter_session_cookie(v) \in Filtered
<1>1. v.parts \in Seq(Part \ {CallerKey})
  BY DEF Keyless
<1>2. Without(v.parts, {"pietro_session"}) \in Seq((Part \ {CallerKey}) \ {"pietro_session"})
  BY <1>1, WithoutType
<1>3. (Part \ {CallerKey}) \ {"pietro_session"} = CleanPart
  BY DEF CleanPart
<1>4. <<>> \in Seq(CleanPart)
  BY EmptySeq
<1> QED
  BY <1>2, <1>3, <1>4 DEF filter_session_cookie, Filtered, Text

LEMMA CookieLinesAreClean ==
    ASSUME NEW values \in Seq(Keyless)
    PROVE  CookieLines(values) \in Seq(Clean)
<1> DEFINE filtered == [i \in DOMAIN values |-> filter_session_cookie(values[i])]
<1>1. filtered \in Seq(Filtered)
  <2>1. DOMAIN values = 1..Len(values)
    BY LenProperties
  <2>2. \A i \in 1..Len(values) : filtered[i] \in Filtered
    BY <2>1, ElementOfSeq, CookieIsFiltered
  <2>3. filtered = [i \in DOMAIN values |-> filtered[i]]
    OBVIOUS
  <2> HIDE DEF filtered
  <2> QED
    BY <2>2, <2>3, MappedSeq
<1> HIDE DEF filtered
<1>2. Without(filtered, {Text(<<>>)}) \in Seq(Filtered \ {Text(<<>>)})
  BY <1>1, WithoutType
<1>3. Filtered \ {Text(<<>>)} \subseteq Clean
  <2> SUFFICES ASSUME NEW v \in Filtered, v # Text(<<>>) PROVE v \in Clean
    OBVIOUS
  <2>1. v = [parts |-> v.parts, ascii |-> TRUE] /\ v.parts \in Seq(CleanPart)
    BY DEF Filtered
  <2>2. v.parts # <<>>
    BY <2>1 DEF Text
  <2>3. [parts |-> v.parts, ascii |-> TRUE] \in Clean
    BY <2>1, <2>2 DEF Clean
  <2> QED
    BY <2>1, <2>3
<1>4. Without(filtered, {Text(<<>>)}) \in Seq(Clean)
  BY <1>2, <1>3, SeqMonotonic
<1> QED
  BY <1>4 DEF CookieLines, filtered

LEMMA FilterCleans ==
    ASSUME NEW headers, Placed(headers)
    PROVE  filter_request_headers(headers) \in CleanHeaders
<1> DEFINE line(n) == IF n \in Dropped(headers) THEN <<>>
                      ELSE IF n = "cookie" THEN CookieLines(headers[n])
                      ELSE headers[n]
<1>1. ASSUME NEW n \in Names PROVE line(n) \in Seq(Clean)
  <2>1. CASE n \in Dropped(headers)
    BY <2>1, EmptySeq
  <2>2. CASE n \notin Dropped(headers) /\ n = "cookie"
    <3>1. headers[n] \in Seq(Keyless)
      BY <2>2 DEF Placed, ValueOf
    <3> QED
      BY <2>2, <3>1, CookieLinesAreClean
  <2>3. CASE n \notin Dropped(headers) /\ n # "cookie"
    <3>1. n # "authorization"
      BY <2>3 DEF Dropped
    <3> QED
      BY <2>3, <3>1 DEF Placed, ValueOf
  <2> QED
    BY <2>1, <2>2, <2>3
<1>2. filter_request_headers(headers) = [n \in Names |-> line(n)]
  BY DEF filter_request_headers
<1> HIDE DEF line
<1> QED
  BY <1>1, <1>2 DEF CleanHeaders

LEMMA InsertCleans ==
    ASSUME NEW headers \in CleanHeaders, NEW n \in Names,
           NEW parts \in Seq(CleanPart), parts # <<>>
    PROVE  Insert(headers, n, parts) \in CleanHeaders
<1>1. Text(parts) \in Clean
  BY DEF Text, Clean
<1>2. <<Text(parts)>> \in Seq(Clean)
  BY <1>1
<1> QED
  BY <1>2 DEF Insert, CleanHeaders

LEMMA OperatorAndPeerAreClean == {Operator, Peer} \subseteq CleanPart
  BY SecretsAssumption DEF CleanPart, Part

LEMMA InjectCleans ==
    ASSUME NEW headers \in CleanHeaders, NEW auth \in Auths
    PROVE  InjectHeader(auth, headers) \in CleanHeaders
<1>1. <<Operator>> \in Seq(CleanPart) /\ <<Operator>> # <<>>
  BY OperatorAndPeerAreClean
<1>2. CASE auth.kind \in {"bearer", "header"} /\ auth.valid
  <2>1. auth.name \in Names
    BY <1>2, AuthsAssumption
  <2> QED
    BY <1>1, <1>2, <2>1, InsertCleans DEF InjectHeader
<1>3. CASE ~(auth.kind \in {"bearer", "header"} /\ auth.valid)
  BY <1>3 DEF InjectHeader
<1> QED
  BY <1>2, <1>3

\* The chain the peer is added to.
Chain(headers) ==
    IF FirstText(headers, Xff) = None THEN <<>> ELSE FirstText(headers, Xff)

LEMMA ChainIsClean ==
    ASSUME NEW headers \in CleanHeaders
    PROVE  Chain(headers) \in Seq(CleanPart)
<1>1. headers[Xff] \in Seq(Clean)
  BY NamesAssumption DEF CleanHeaders, Xff
<1>2. ASSUME headers[Xff] # <<>> PROVE headers[Xff][1].parts \in Seq(CleanPart)
  <2>1. headers[Xff][1] \in Clean
    BY <1>1, <1>2
  <2> QED
    BY <2>1 DEF Clean
<1> QED
  BY <1>2, EmptySeq DEF Chain, FirstText

LEMMA PeerCleans ==
    ASSUME NEW headers \in CleanHeaders
    PROVE  /\ add_xff_entry(headers) = Insert(headers, Xff, Chain(headers) \o <<Peer>>)
           /\ add_xff_entry(headers) \in CleanHeaders
<1> DEFINE chain == Chain(headers)
<1>1. chain \in Seq(CleanPart) /\ <<Peer>> \in Seq(CleanPart)
  BY ChainIsClean, OperatorAndPeerAreClean
<1> HIDE DEF chain
<1>2. chain \o <<Peer>> \in Seq(CleanPart) /\ chain \o <<Peer>> # <<>>
  BY <1>1
<1>3. add_xff_entry(headers) = Insert(headers, Xff, chain \o <<Peer>>)
  BY DEF add_xff_entry, chain, Chain
<1>4. Xff \in Names
  BY NamesAssumption
<1> QED
  BY <1>2, <1>3, <1>4, InsertCleans DEF chain

-----------------------------------------------------------------------------
(* The invariant: every map is as typed as its place asks, and what was sent *)
(* is what the rewrite makes of the request, which nothing changes.         *)

Returned == [n \in Names |-> IF n \in is_hop_by_hop THEN <<>> ELSE reply[n]]

IInv ==
    /\ stage \in {"received", "sent", "answered"}
    /\ Placed(request.headers)
    /\ request.query \in Queries
    /\ service \in [auth : Auths, query : Queries]
    /\ outgoing = IF Sent THEN RewriteRequest ELSE [headers |-> Nothing, query |-> None]
    /\ reply \in Headers
    /\ answer = IF stage = "answered" THEN Returned ELSE Nothing

LEMMA NothingIsTyped == Nothing \in CleanHeaders /\ Nothing \in Headers
  BY EmptySeq DEF Nothing, CleanHeaders, Headers

LEMMA InitIsPlaced == Init => IInv
<1> SUFFICES ASSUME Init PROVE IInv
  OBVIOUS
<1>1. PICK n \in 0..MaxLines, q \in Queries :
         \E lines \in [1..n -> Lines] :
            request = [headers |-> Collect(<<BearerLine>> \o lines), query |-> q]
  BY DEF Init
<1>2. PICK lines \in [1..n -> Lines] :
            request = [headers |-> Collect(<<BearerLine>> \o lines), query |-> q]
  BY <1>1
<1>3. n \in Nat
  BY MaxLinesAssumption
<1>4. lines \in Seq(Lines)
  BY <1>3, SeqDef
<1>5. Placed(request.headers) /\ request.query \in Queries
  BY <1>2, <1>4, CollectedArePlaced
<1> QED
  BY <1>5, NothingIsTyped DEF Init, IInv, Sent

LEMMA StepsKeepPlaces == IInv /\ [Next]_vars => IInv'
<1> SUFFICES ASSUME IInv, [Next]_vars PROVE IInv'
  OBVIOUS
<1>0. Placed(request.headers) /\ request' = request /\ service' = service
        => Placed(request'.headers) /\ RewriteRequest' = RewriteRequest
  BY DEF Placed, RewriteRequest, UpstreamQuery
<1>1. CASE Send
  <2>1. /\ request' = request /\ service' = service /\ reply' = reply /\ answer' = answer
        /\ stage = "received" /\ stage' = "sent" /\ outgoing' = RewriteRequest
    BY <1>1 DEF Send
  <2> QED
    BY <1>0, <2>1 DEF IInv, Sent, Placed
<1>2. CASE Answer
  <2>1. /\ request' = request /\ service' = service /\ outgoing' = outgoing
        /\ stage = "sent" /\ stage' = "answered" /\ reply' \in Headers
        /\ answer' = Returned'
    BY <1>2, RepliesAssumption DEF Answer, Returned
  <2> QED
    BY <1>0, <2>1 DEF IInv, Sent, Placed
<1>3. CASE UNCHANGED vars
  BY <1>0, <1>3 DEF vars, IInv, Sent, Placed, Returned
<1> QED
  BY <1>1, <1>2, <1>3 DEF Next

\* What an upstream gets is in its place.
LEMMA OutgoingIsClean == IInv => outgoing.headers \in CleanHeaders
<1> SUFFICES ASSUME IInv PROVE outgoing.headers \in CleanHeaders
  OBVIOUS
<1>1. CASE Sent
  <2>1. filter_request_headers(request.headers) \in CleanHeaders
    BY FilterCleans DEF IInv
  <2>2. InjectHeader(service.auth, filter_request_headers(request.headers)) \in CleanHeaders
    BY <2>1, InjectCleans DEF IInv
  <2>3. outgoing.headers
          = add_xff_entry(InjectHeader(service.auth, filter_request_headers(request.headers)))
    BY <1>1 DEF IInv, RewriteRequest
  <2> QED
    BY <2>2, <2>3, PeerCleans
<1>2. CASE ~Sent
  BY <1>2, NothingIsTyped DEF IInv
<1> QED
  BY <1>1, <1>2

LEMMA ValuesAreTyped ==
    /\ CleanHeaders \subseteq Headers
    /\ \A headers : Placed(headers) => headers \in Headers
<1>1. \A n : Seq(ValueOf(n)) \subseteq Seq(Value) /\ Seq(Clean) \subseteq Seq(Value)
  BY ValuesGrow, SeqMonotonic
<1>2. CleanHeaders \subseteq Headers
  BY <1>1 DEF CleanHeaders, Headers
<1>3. ASSUME NEW headers, Placed(headers) PROVE headers \in Headers
  BY <1>1, <1>3 DEF Placed, Headers
<1> QED
  BY <1>2, <1>3

THEOREM TypeCorrect == Spec => []TypeOK
<1>1. IInv => TypeOK
  <2> SUFFICES ASSUME IInv PROVE TypeOK
    OBVIOUS
  <2>1. answer \in Headers
    BY NothingIsTyped, EmptySeq DEF IInv, Returned, Headers
  <2>2. outgoing.headers \in Headers /\ request.headers \in Headers
    BY OutgoingIsClean, ValuesAreTyped DEF IInv
  <2> QED
    BY <2>1, <2>2 DEF IInv, TypeOK
<1> QED
  BY <1>1, InitIsPlaced, StepsKeepPlaces, PTL DEF Spec

\* SecretsStay: whatever lines a caller sends its key or its session in, no
\* value an upstream gets has either among its parts.
THEOREM NoSecretLeaves == Spec => []SecretsStay
<1>1. IInv => SecretsStay
  <2> SUFFICES ASSUME IInv, NEW n \in Names, NEW i \in DOMAIN outgoing.headers[n]
        PROVE ToSet(outgoing.headers[n][i].parts) \cap {CallerKey, "pietro_session"} = {}
    BY DEF SecretsStay
  <2> DEFINE seq == outgoing.headers[n]
  <2>1. seq \in Seq(Clean)
    BY OutgoingIsClean DEF CleanHeaders
  <2>2. seq[i] \in Clean
    BY <2>1, LenProperties, ElementOfSeq
  <2>3. seq[i].parts \in Seq(CleanPart)
    BY <2>2 DEF Clean
  <2>4. CallerKey \notin CleanPart /\ "pietro_session" \notin CleanPart
    BY DEF CleanPart
  <2>5. CallerKey \notin ToSet(seq[i].parts) /\ "pietro_session" \notin ToSet(seq[i].parts)
    BY <2>3, <2>4, SeqIsFree
  <2> QED
    BY <2>5
<1> QED
  BY <1>1, InitIsPlaced, StepsKeepPlaces, PTL DEF Spec

\* HopsStay: for any names, lines, replies and credentials, hop-by-hop lines,
\* the caller's Host and what its first Connection line lists go nowhere.
THEOREM HopsNeverPass == Spec => []HopsStay
<1>1. IInv => HopsStay
  <2> SUFFICES ASSUME IInv PROVE HopsStay
    OBVIOUS
  <2>1. ASSUME NEW n \in is_hop_by_hop PROVE answer[n] = <<>>
    BY NamesAssumption DEF IInv, Nothing, Returned
  <2>2. ASSUME Sent, NEW n \in Names, n \in Dropped(request.headers),
                 n \notin CredentialName, n # Xff
          PROVE  outgoing.headers[n] = <<>>
    <3> DEFINE filtered == filter_request_headers(request.headers)
    <3>1. filtered = [m \in Names |-> filtered[m]]
      BY DEF filter_request_headers
    <3>2. add_xff_entry(InjectHeader(service.auth, filtered))[n] = filtered[n]
      BY <2>2, <3>1, OthersAreKept
    <3>3. outgoing.headers = add_xff_entry(InjectHeader(service.auth, filtered))
      BY <2>2 DEF IInv, RewriteRequest
    <3> QED
      BY <2>2, <3>2, <3>3, FilterDrops
  <2>3. is_hop_by_hop \cup {"host"} \subseteq Dropped(request.headers) \cap Names
    BY NamesAssumption DEF Dropped
  <2>4. NamedInLine(1) \subseteq Names
    BY DEF NamedInLine
  <2>5. ASSUME Sent,
               NEW n \in (is_hop_by_hop \cup {"host"} \cup
                              (IF FirstText(request.headers, "connection") = None
                               THEN {} ELSE NamedInLine(1)))
                           \ (CredentialName \cup {Xff})
        PROVE  outgoing.headers[n] = <<>>
    BY <2>2, <2>3, <2>4, <2>5, NamedAreDropped
  <2> QED
    BY <2>1, <2>5 DEF HopsStay
<1> QED
  BY <1>1, InitIsPlaced, StepsKeepPlaces, PTL DEF Spec
-----------------------------------------------------------------------------
(* The credential of the operator.                                         *)

LEMMA QueriesAreSequences ==
    ASSUME NEW query \in Queries
    PROVE  PairsOf(query) \in Seq(Pairs(STRING))
  BY QueriesAssumption, EmptySeq DEF PairsOf

LEMMA CredentialIsInserted ==
    ASSUME NEW headers \in CleanHeaders, NEW n \in CredentialName, service.auth \in Auths
    PROVE  /\ Len(add_xff_entry(InjectHeader(service.auth, headers))[n]) = 1
           /\ add_xff_entry(InjectHeader(service.auth, headers))[n][1].parts[1] = Operator
<1> DEFINE injected == InjectHeader(service.auth, headers)
           own == <<Operator>>
<1>1. /\ service.auth.kind \in {"bearer", "header"} /\ service.auth.valid
      /\ n = service.auth.name /\ n \in Names
  BY AuthsAssumption DEF CredentialName
<1>2. injected \in CleanHeaders
  BY InjectCleans
<1>3. injected[n] = <<Text(own)>>
  BY <1>1 DEF InjectHeader, Insert, CleanHeaders
<1>4. add_xff_entry(injected) = Insert(injected, Xff, Chain(injected) \o <<Peer>>)
  BY <1>2, PeerCleans
<1> HIDE DEF injected
<1>5. CASE n # Xff
  <2>1. add_xff_entry(injected)[n] = injected[n]
    BY <1>4, <1>5 DEF Insert
  <2> QED
    BY <1>3, <2>1 DEF Text, injected
<1>6. CASE n = Xff
  <2>1. own # None
    <3>1. own \in Seq(Part)
      BY DEF Part
    <3> QED
      BY <3>1, NoneAssumption
  <2>2. Chain(injected) = own
    BY <1>3, <1>6, <2>1 DEF Chain, FirstText, Text
  <2>3. add_xff_entry(injected)[n] = <<Text(own \o <<Peer>>)>>
    BY <1>1, <1>2, <1>4, <1>6, <2>2 DEF Insert, CleanHeaders
  <2> DEFINE chain == own \o <<Peer>>
  <2>4. chain[1] = Operator
    OBVIOUS
  <2>5. add_xff_entry(injected)[n] = <<Text(chain)>>
    BY <2>3
  <2> HIDE DEF chain
  <2>6. Text(chain).parts = chain
    BY DEF Text
  <2> QED
    BY <2>4, <2>5, <2>6 DEF injected
<1> QED
  BY <1>5, <1>6

LEMMA ParameterIsReplaced ==
    ASSUME NEW query \in Queries, NEW auth \in Auths, auth.kind = "query"
    PROVE  LET own == {auth.name}
               sent == InjectQuery(auth, query)
           IN  /\ Without(sent, Pairs(own)) = Without(PairsOf(query), Pairs(own))
               /\ Without(sent, Pairs(STRING \ own))
                     = <<[param |-> auth.name, value |-> Operator]>>
<1> DEFINE own == Pairs({auth.name})
           rest == Pairs(STRING \ {auth.name})
           all == Pairs(STRING)
           kept == Without(PairsOf(query), own)
           last == [param |-> auth.name, value |-> Operator]
<1>1. auth.name \in STRING
  BY AuthsAssumption
<1>2. last \in own /\ last \in all /\ last \notin rest
  BY <1>1 DEF Pairs
<1>3. all \ own \subseteq rest /\ all \ own \subseteq all
  BY DEF Pairs
<1>4. kept \in Seq(all \ own)
  BY QueriesAreSequences, WithoutType
<1>5. InjectQuery(auth, query) = kept \o <<last>>
  BY DEF InjectQuery
<1> HIDE DEF own, rest, all, kept, last
<1>6. kept \in Seq(all) /\ kept \in Seq(rest) /\ <<last>> \in Seq(all)
      /\ <<last>> \in Seq(own) /\ <<last>> \in Seq({last})
  BY <1>2, <1>3, <1>4, SeqMonotonic
<1>7. Without(kept \o <<last>>, own) = kept
  <2>1. Without(kept, own) = kept
    BY <1>4, WithoutNothing
  <2>2. Without(<<last>>, own) = <<>>
    BY <1>6, WithoutAll
  <2>3. Without(kept \o <<last>>, own) = Without(kept, own) \o Without(<<last>>, own)
    BY <1>6, WithoutConcat
  <2> QED
    BY <1>6, <2>1, <2>2, <2>3, ConcatEmptySeq
<1>8. Without(kept \o <<last>>, rest) = <<last>>
  <2>1. Without(kept, rest) = <<>>
    BY <1>6, WithoutAll
  <2>2. Without(<<last>>, rest) = <<last>>
    <3>1. {last} \cap rest = {}
      BY <1>2
    <3> QED
      BY <1>6, <3>1, WithoutNothing
  <2>3. Without(kept \o <<last>>, rest) = Without(kept, rest) \o Without(<<last>>, rest)
    BY <1>6, WithoutConcat
  <2> QED
    BY <1>6, <2>1, <2>2, <2>3, ConcatEmptySeq
<1> QED
  BY <1>5, <1>7, <1>8 DEF own, rest, kept, last

\* CredentialArrives: whatever the caller sends, a usable credential reaches the
\* upstream once, in its place, and the other query parameters as they were.
THEOREM CredentialIsSent == Spec => []CredentialArrives
<1>1. IInv => CredentialArrives
  <2> SUFFICES ASSUME IInv, Sent PROVE CredentialArrives
    BY DEF CredentialArrives
  <2>1. outgoing = RewriteRequest /\ service.auth \in Auths /\ service.query \in Queries
        /\ request.query \in Queries
    BY DEF IInv
  <2>2. filter_request_headers(request.headers) \in CleanHeaders
    BY FilterCleans DEF IInv
  <2>3. ASSUME NEW n \in CredentialName
        PROVE  /\ Len(outgoing.headers[n]) = 1
               /\ outgoing.headers[n][1].parts[1] = Operator
    BY <2>1, <2>2, CredentialIsInserted DEF RewriteRequest
  <2>4. UpstreamQuery \in Queries /\ outgoing.query = InjectQuery(service.auth, UpstreamQuery)
    BY <2>1 DEF UpstreamQuery, RewriteRequest
  <2>5. service.auth.kind = "query" =>
          LET own == {service.auth.name}
          IN  /\ Without(outgoing.query, Pairs(own)) = Without(PairsOf(UpstreamQuery), Pairs(own))
              /\ Without(outgoing.query, Pairs(STRING \ own))
                    = <<[param |-> service.auth.name, value |-> Operator]>>
    BY <2>1, <2>4, ParameterIsReplaced
  <2> QED
    BY <2>3, <2>5 DEF CredentialArrives, UpstreamQuery
<1> QED
  BY <1>1, InitIsPlaced, StepsKeepPlaces, PTL DEF Spec

-----------------------------------------------------------------------------
(* The lines that go on as they came.                                      *)

LEMMA OthersPass == IInv /\ Sent => OtherLinesPass
<1> SUFFICES ASSUME IInv, Sent,
                    NEW n \in Names \ (is_hop_by_hop \cup CredentialName
                                \cup {"authorization", "host", "cookie", Xff})
             PROVE  \/ outgoing.headers[n] = request.headers[n]
                    \/ n \in NamedInSomeLine /\ outgoing.headers[n] = <<>>
  BY DEF OtherLinesPass
<1> DEFINE filtered == filter_request_headers(request.headers)
<1>1. filtered = [m \in Names |-> filtered[m]]
  BY DEF filter_request_headers
<1>2. outgoing.headers[n] = filtered[n]
  <2>1. add_xff_entry(InjectHeader(service.auth, filtered))[n] = filtered[n]
    BY <1>1, OthersAreKept
  <2> QED
    BY <2>1 DEF IInv, RewriteRequest
<1>3. CASE n \in Dropped(request.headers)
  <2>1. n \in connection_named(request.headers)
    BY <1>3 DEF Dropped
  <2>2. n \in NamedInLine(1) /\ 1 \in DOMAIN request.headers["connection"]
    <3>1. "connection" \in Names
      BY NamesAssumption DEF is_hop_by_hop
    <3>2. request.headers["connection"] \in Seq(ValueOf("connection"))
      BY <3>1 DEF IInv, Placed
    <3>3. request.headers["connection"] # <<>>
          /\ n \in ToSet(request.headers["connection"][1].parts)
      BY <2>1 DEF connection_named, FirstText
    <3>4. 1 \in DOMAIN request.headers["connection"]
      BY <3>2, <3>3, LenProperties, EmptySeq
    <3> QED
      BY <3>3, <3>4 DEF NamedInLine
  <2>3. n \in NamedInSomeLine
    BY <2>2 DEF NamedInSomeLine
  <2> QED
    BY <1>2, <1>3, <2>3, FilterDrops
<1>4. CASE n \notin Dropped(request.headers)
  BY <1>2, <1>4 DEF filter_request_headers
<1> QED
  BY <1>3, <1>4

\* Mapping the elements of a longer sequence.
LEMMA MappedAppend ==
    ASSUME NEW T, NEW U, NEW s \in Seq(T), NEW x \in T,
           NEW f \in [DOMAIN s -> U], NEW g \in [DOMAIN Append(s, x) -> U],
           \A i \in DOMAIN s : f[i] = g[i]
    PROVE  f \in Seq(U) /\ g = Append(f, g[Len(s) + 1])
<1> DEFINE n == Len(s)
           y == g[n + 1]
<1>1. /\ n \in Nat /\ n + 1 \in Nat /\ n + 1 \in 1..(n + 1)
      /\ DOMAIN s = 1..n /\ DOMAIN Append(s, x) = 1..(n + 1)
  BY AppendProperties, LenProperties
<1>2. f \in Seq(U) /\ Len(f) = n /\ g \in Seq(U) /\ Len(g) = n + 1
  <2>1. f \in [1..n -> U] /\ g \in [1..(n + 1) -> U]
    BY <1>1
  <2>2. f \in Seq(U) /\ g \in Seq(U)
    BY <1>1, <2>1, SeqDef
  <2>3. DOMAIN f = 1..n /\ DOMAIN g = 1..(n + 1)
    BY <2>1
  <2> QED
    BY <1>1, <2>2, <2>3, LenProperties
<1>3. y \in U
  BY <1>1
<1>4. /\ Append(f, y) \in Seq(U) /\ Len(Append(f, y)) = n + 1
      /\ \A i \in 1..n : Append(f, y)[i] = f[i]
      /\ Append(f, y)[n + 1] = y
  BY <1>2, <1>3, AppendProperties
<1>5. \A i \in 1..(n + 1) : g[i] = Append(f, y)[i]
  <2> SUFFICES ASSUME NEW i \in 1..(n + 1) PROVE g[i] = Append(f, y)[i]
    OBVIOUS
  <2>1. i = n + 1 \/ i \in 1..n
    BY <1>1
  <2> QED
    BY <1>1, <1>4, <2>1
<1> QED
  BY <1>2, <1>4, <1>5, SeqEqual

LEMMA PartsAppend ==
    ASSUME NEW s \in Seq(Value), NEW v \in Value
    PROVE  Parts(Append(s, v)) = Parts(s) \o v.parts
<1> DEFINE t == Append(s, v)
           f == [i \in DOMAIN s |-> s[i].parts]
           g == [i \in DOMAIN t |-> t[i].parts]
           n == Len(s)
<1>1. /\ n \in Nat /\ t \in Seq(Value) /\ DOMAIN t = 1..(n + 1) /\ DOMAIN s = 1..n
      /\ t[n + 1] = v /\ \A i \in 1..n : t[i] = s[i] /\ s[i] \in Value
  BY AppendProperties, LenProperties, ElementOfSeq
<1>2. \A w \in Value : w.parts \in Seq(Part)
  BY DEF Value
<1>3. /\ \A i \in 1..n : f[i] = g[i] /\ f[i] \in Seq(Part)
      /\ g[n + 1] = v.parts /\ v.parts \in Seq(Part)
      /\ f = [i \in DOMAIN s |-> f[i]] /\ g = [i \in DOMAIN t |-> g[i]]
  BY <1>1, <1>2
<1>a. Parts(s) = FlattenSeq(f) /\ Parts(t) = FlattenSeq(g)
  BY DEF Parts
<1> HIDE DEF f, g
<1>4. f \in [DOMAIN s -> Seq(Part)] /\ g \in [DOMAIN t -> Seq(Part)]
  <2>1. ASSUME NEW i \in 1..(n + 1) PROVE i = n + 1 \/ i \in 1..n
    BY <1>1
  <2> QED
    BY <1>1, <1>3, <2>1
<1>5. f \in Seq(Seq(Part)) /\ g = Append(f, g[n + 1])
  <2> DEFINE U == Seq(Part)
  <2>1. f \in [DOMAIN s -> U] /\ g \in [DOMAIN Append(s, v) -> U]
    BY <1>4
  <2>2. \A i \in DOMAIN s : f[i] = g[i]
    BY <1>1, <1>3
  <2> HIDE DEF U
  <2>3. f \in Seq(U) /\ g = Append(f, g[n + 1])
    BY <2>1, <2>2, MappedAppend
  <2> QED
    BY <2>3 DEF U
<1>6. ASSUME NEW ss \in Seq(Seq(Part)), NEW w \in Seq(Part)
      PROVE  FlattenSeq(Append(ss, w)) = FlattenSeq(ss) \o w
  BY FlattenAppend
<1>7. FlattenSeq(Append(f, v.parts)) = FlattenSeq(f) \o v.parts
  BY <1>3, <1>5, <1>6
<1> QED
  BY <1>3, <1>5, <1>7, <1>a

LEMMA PartsEmpty == Parts(<<>>) = <<>>
<1>1. [i \in DOMAIN <<>> |-> <<>>[i].parts] = <<>>
  OBVIOUS
<1> QED
  BY <1>1, FlattenEmpty DEF Parts

LEMMA PartsType ==
    ASSUME NEW s \in Seq(Value)
    PROVE  Parts(s) \in Seq(Part)
<1> DEFINE N == {u \in Seq(Value) : Parts(u) \in Seq(Part)}
<1>1. <<>> \in N
  BY PartsEmpty, EmptySeq
<1>2. ASSUME NEW u \in N, NEW v \in Value PROVE Append(u, v) \in N
  <2>1. Parts(Append(u, v)) = Parts(u) \o v.parts /\ v.parts \in Seq(Part)
        /\ Append(u, v) \in Seq(Value) /\ Parts(u) \in Seq(Part)
    BY <1>2, PartsAppend, AppendProperties DEF Value
  <2> QED
    BY <2>1, ConcatProperties
<1> HIDE DEF N
<1>3. N = Seq(Value)
  BY <1>1, <1>2, SeqSetInduction DEF N
<1> QED
  BY <1>3 DEF N

LEMMA CookieLinesAppend ==
    ASSUME NEW s \in Seq(Keyless), NEW v \in Keyless
    PROVE  CookieLines(Append(s, v))
             = IF filter_session_cookie(v) = Text(<<>>) THEN CookieLines(s)
               ELSE Append(CookieLines(s), filter_session_cookie(v))
<1> DEFINE t == Append(s, v)
           f == [i \in DOMAIN s |-> filter_session_cookie(s[i])]
           g == [i \in DOMAIN t |-> filter_session_cookie(t[i])]
           n == Len(s)
           last == filter_session_cookie(v)
<1>1. /\ n \in Nat /\ t \in Seq(Keyless) /\ DOMAIN t = 1..(n + 1) /\ DOMAIN s = 1..n
      /\ t[n + 1] = v /\ \A i \in 1..n : t[i] = s[i] /\ s[i] \in Keyless
  BY AppendProperties, LenProperties, ElementOfSeq
<1>2. last \in Filtered
  BY CookieIsFiltered
<1>3. /\ \A i \in 1..n : f[i] = g[i] /\ f[i] \in Filtered
      /\ g[n + 1] = last
      /\ f = [i \in DOMAIN s |-> f[i]] /\ g = [i \in DOMAIN t |-> g[i]]
  BY <1>1, CookieIsFiltered
<1>a. CookieLines(s) = Without(f, {Text(<<>>)}) /\ CookieLines(t) = Without(g, {Text(<<>>)})
  BY DEF CookieLines
<1> HIDE DEF f, g, last
<1>4. f \in [DOMAIN s -> Filtered] /\ g \in [DOMAIN t -> Filtered]
  <2>1. ASSUME NEW i \in 1..(n + 1) PROVE i = n + 1 \/ i \in 1..n
    BY <1>1
  <2> QED
    BY <1>1, <1>2, <1>3, <2>1
<1>5. f \in Seq(Filtered) /\ g = Append(f, g[n + 1])
  BY <1>1, <1>3, <1>4, MappedAppend
<1>6. Without(Append(f, last), {Text(<<>>)})
        = IF last \in {Text(<<>>)} THEN Without(f, {Text(<<>>)})
          ELSE Append(Without(f, {Text(<<>>)}), last)
  BY <1>2, <1>5, WithoutAppend
<1> QED
  BY <1>3, <1>5, <1>6, <1>a DEF last

LEMMA CookieLinesEmpty == CookieLines(<<>>) = <<>>
<1>1. [i \in DOMAIN <<>> |-> filter_session_cookie(<<>>[i])] = <<>>
  OBVIOUS
<1> QED
  BY <1>1, WithoutEmpty DEF CookieLines

\* Over all lines together the filter takes out the session and nothing else
\* that came as text.
LEMMA OtherCookiesAreKept ==
    ASSUME NEW values \in Seq(Keyless)
    PROVE  Parts(CookieLines(values))
             = Without(Parts(Without(values, Opaque)), {"pietro_session"})
<1> DEFINE session == {"pietro_session"}
           N == {s \in Seq(Keyless) :
                    Parts(CookieLines(s)) = Without(Parts(Without(s, Opaque)), session)}
<1>1. <<>> \in N
  BY WithoutEmpty, PartsEmpty, CookieLinesEmpty, EmptySeq
<1>2. ASSUME NEW s \in N, NEW v \in Keyless PROVE Append(s, v) \in N
  <2> DEFINE text == Without(s, Opaque)
             f == filter_session_cookie(v)
             kept == Without(v.parts, session)
  <2>1. s \in Seq(Keyless) /\ Append(s, v) \in Seq(Keyless)
        /\ Parts(CookieLines(s)) = Without(Parts(text), session)
    BY <1>2, AppendProperties
  <2>2. v.parts \in Seq(Part) /\ v \in Value /\ v.ascii \in BOOLEAN
    BY ValuesGrow DEF Value
  <2>3. text \in Seq(Value) /\ s \in Seq(Value)
    <3>1. text \in Seq(Keyless \ Opaque)
      BY <2>1, WithoutType
    <3>2. Keyless \ Opaque \subseteq Value /\ Keyless \subseteq Value
      BY ValuesGrow
    <3> QED
      BY <2>1, <3>1, <3>2, SeqMonotonic
  <2>4. Without(Append(s, v), Opaque) = IF v \in Opaque THEN text ELSE Append(text, v)
    BY <2>1, WithoutAppend
  <2>5. CookieLines(Append(s, v))
          = IF f = Text(<<>>) THEN CookieLines(s) ELSE Append(CookieLines(s), f)
    BY <2>1, CookieLinesAppend
  <2>6. CASE v.ascii
    <3>1. f = Text(kept) /\ f.parts = kept /\ v \notin Opaque
      BY <2>6 DEF filter_session_cookie, Text, Opaque
    <3>2. Without(Parts(Append(text, v)), session) = Without(Parts(text), session) \o kept
      <4>1. Parts(Append(text, v)) = Parts(text) \o v.parts /\ Parts(text) \in Seq(Part)
        BY <2>2, <2>3, PartsAppend, PartsType
      <4>2. Without(Parts(text) \o v.parts, session) = Without(Parts(text), session) \o kept
        <5>1. ASSUME NEW u \in Seq(Part), NEW w \in Seq(Part)
              PROVE  Without(u \o w, session) = Without(u, session) \o Without(w, session)
          BY WithoutConcat
        <5> QED
          BY <2>2, <4>1, <5>1
      <4> QED
        BY <4>1, <4>2
    <3>3. Without(Parts(text), session) \in Seq(Part)
      <4>1. Without(Parts(text), session) \in Seq(Part \ session)
        BY <2>3, PartsType, WithoutType
      <4> QED
        BY <4>1, SeqMonotonic
    <3>4. CASE f = Text(<<>>)
      <4>1. kept = <<>>
        BY <3>1, <3>4 DEF Text
      <4>2. Without(Parts(text), session) \o kept = Without(Parts(text), session)
        BY <3>3, <4>1, ConcatEmptySeq
      <4> QED
        BY <2>1, <2>4, <2>5, <3>1, <3>2, <3>4, <4>2
    <3>5. CASE f # Text(<<>>)
      <4>1. CookieLines(s) \in Seq(Value)
        <5>1. CookieLines(s) \in Seq(Clean)
          BY <2>1, CookieLinesAreClean
        <5> QED
          BY <5>1, ValuesGrow, SeqMonotonic
      <4>2. f \in Value
        <5>1. f \in Filtered
          BY CookieIsFiltered
        <5>2. f.parts # <<>> /\ f.parts \in Seq(Part)
          <6>1. f.parts # <<>>
            BY <3>1, <3>5
          <6>2. f.parts \in Seq(CleanPart) /\ CleanPart \subseteq Part
            BY <5>1 DEF Filtered, CleanPart
          <6> QED
            BY <6>1, <6>2, SeqMonotonic
        <5> QED
          BY <3>1, <5>2 DEF Text, Value
      <4>3. Parts(Append(CookieLines(s), f)) = Parts(CookieLines(s)) \o kept
        BY <3>1, <4>1, <4>2, PartsAppend
      <4> QED
        BY <2>1, <2>4, <2>5, <3>1, <3>2, <3>5, <4>3
    <3> QED
      BY <3>4, <3>5
  <2>7. CASE ~v.ascii
    <3>1. f = Text(<<>>)
      BY <2>7 DEF filter_session_cookie
    <3>2. v \in Opaque
      BY <2>2, <2>7 DEF Opaque, Value
    <3> QED
      BY <2>1, <2>4, <2>5, <3>1, <3>2
  <2> QED
    BY <2>6, <2>7
<1> HIDE DEF N
<1>3. N = Seq(Keyless)
  BY <1>1, <1>2, SeqSetInduction DEF N
<1> QED
  BY <1>3 DEF N

LEMMA FrontOfAppend ==
    ASSUME NEW T, NEW s \in Seq(T), NEW x \in T
    PROVE  /\ Last(s \o <<x>>) = x
           /\ Front(s \o <<x>>) = s
<1> DEFINE t == s \o <<x>>
           n == Len(s)
<1>1. /\ n \in Nat /\ t \in Seq(T) /\ Len(t) = n + 1 /\ t[n + 1] = x
      /\ \A i \in 1..n : t[i] = s[i]
  BY LenProperties
<1> HIDE DEF t
<1>2. SubSeq(t, 1, n) \in Seq(T) /\ Len(SubSeq(t, 1, n)) = n
      /\ \A i \in 1..n : SubSeq(t, 1, n)[i] = t[i]
  BY <1>1
<1>3. SubSeq(t, 1, n) = s
  BY <1>1, <1>2, SeqEqual
<1>4. Len(t) - 1 = n
  BY <1>1
<1> QED
  BY <1>1, <1>3, <1>4 DEF Last, Front, t

\* A name no Connection line lists is dropped only for what it is itself.
LEMMA UnnamedPass ==
    ASSUME IInv, Sent, NEW n \in {"cookie", Xff}, n \notin NamedInSomeLine
    PROVE  n \in Names /\ n \notin Dropped(request.headers)
<1>1. n \in Names /\ n \notin is_hop_by_hop \cup {"authorization", "host"}
  BY NamesAssumption DEF is_hop_by_hop, Xff
<1>2. ASSUME n \in connection_named(request.headers) PROVE FALSE
  <2>1. "connection" \in Names
    BY NamesAssumption DEF is_hop_by_hop
  <2>2. request.headers["connection"] \in Seq(ValueOf("connection"))
    BY <2>1 DEF IInv, Placed
  <2>3. request.headers["connection"] # <<>>
        /\ n \in ToSet(request.headers["connection"][1].parts)
    BY <1>2 DEF connection_named, FirstText
  <2>4. 1 \in DOMAIN request.headers["connection"]
    BY <2>2, <2>3, LenProperties, EmptySeq
  <2>5. n \in NamedInLine(1)
    BY <1>1, <2>3, <2>4 DEF NamedInLine
  <2> QED
    BY <2>4, <2>5 DEF NamedInSomeLine
<1> QED
  BY <1>1, <1>2 DEF Dropped

LEMMA CookiesPass == IInv /\ Sent => CookiesSurvive
<1> SUFFICES ASSUME IInv, Sent, "cookie" \notin NamedInSomeLine \cup CredentialName
             PROVE  Parts(outgoing.headers["cookie"])
                      = Without(Parts(Without(request.headers["cookie"], Opaque)),
                                {"pietro_session"})
  BY DEF CookiesSurvive
<1> DEFINE filtered == filter_request_headers(request.headers)
           values == request.headers["cookie"]
<1>1. "cookie" \in Names /\ "cookie" \notin Dropped(request.headers)
  BY UnnamedPass
<1>2. filtered = [m \in Names |-> filtered[m]] /\ filtered["cookie"] = CookieLines(values)
  BY <1>1 DEF filter_request_headers
<1>3. outgoing.headers["cookie"] = CookieLines(values)
  <2>1. "cookie" # Xff
    BY DEF Xff
  <2>2. add_xff_entry(InjectHeader(service.auth, filtered))["cookie"] = filtered["cookie"]
    BY <1>1, <1>2, <2>1, OthersAreKept
  <2> QED
    BY <1>2, <2>2 DEF IInv, RewriteRequest
<1>4. values \in Seq(Keyless)
  BY <1>1 DEF IInv, Placed, ValueOf
<1> QED
  BY <1>3, <1>4, OtherCookiesAreKept

LEMMA PeerComesLast == IInv /\ Sent => PeerIsLast
<1> SUFFICES ASSUME IInv, Sent PROVE PeerIsLast
  OBVIOUS
<1> DEFINE filtered == filter_request_headers(request.headers)
           injected == InjectHeader(service.auth, filtered)
           chain == Chain(injected)
           came == FirstText(request.headers, Xff)
           parts == chain \o <<Peer>>
<1>1. filtered \in CleanHeaders /\ injected \in CleanHeaders
  <2>1. filtered \in CleanHeaders
    BY FilterCleans DEF IInv
  <2> HIDE DEF filtered
  <2> QED
    BY <2>1, InjectCleans DEF IInv
<1>2. chain \in Seq(CleanPart) /\ Peer \in CleanPart
  BY <1>1, ChainIsClean, OperatorAndPeerAreClean
<1>3. Last(parts) = Peer /\ Front(parts) = chain
  <2> HIDE DEF chain
  <2> QED
    BY <1>2, FrontOfAppend
<1>4. outgoing.headers[Xff] = <<Text(parts)>>
  <2>1. outgoing.headers = add_xff_entry(injected)
    BY DEF IInv, RewriteRequest
  <2>2. add_xff_entry(injected) = Insert(injected, Xff, parts)
    BY <1>1, PeerCleans
  <2>3. Xff \in Names
    BY NamesAssumption
  <2> HIDE DEF injected, parts
  <2> QED
    BY <1>1, <2>1, <2>2, <2>3 DEF Insert, CleanHeaders
<1>5. ASSUME Xff \notin NamedInSomeLine, came # None, Xff \notin CredentialName
      PROVE  chain = came
  <2>1. Xff \in Names /\ Xff \notin Dropped(request.headers) /\ Xff # "cookie"
    BY <1>5, UnnamedPass DEF Xff
  <2>2. filtered[Xff] = request.headers[Xff]
    BY <2>1 DEF filter_request_headers
  <2>3. injected[Xff] = filtered[Xff]
    <3> HIDE DEF filtered
    <3> QED
      BY <1>1, <1>5, <2>1 DEF InjectHeader, Insert, CredentialName, CleanHeaders
  <2> HIDE DEF injected, filtered
  <2> QED
    BY <1>5, <2>2, <2>3 DEF Chain, FirstText
<1>6. <<Text(parts)>>[1].parts = parts /\ Len(<<Text(parts)>>) = 1
  <2> HIDE DEF parts
  <2> QED
    BY DEF Text
<1> HIDE DEF parts, chain, came
<1> QED
  BY <1>3, <1>4, <1>5, <1>6 DEF PeerIsLast, came

\* RestIsUntouched: for any request, every line Pietro has no business with goes
\* on as it came, no other cookie is lost, and the peer ends the chain.
THEOREM RestPasses == Spec => []RestIsUntouched
<1>1. IInv => RestIsUntouched
  BY OthersPass, CookiesPass, PeerComesLast DEF RestIsUntouched
<1> QED
  BY <1>1, InitIsPlaced, StepsKeepPlaces, PTL DEF Spec
=============================================================================
