------------------------- MODULE AnswerPolicyProofs -------------------------
(***************************************************************************)
(* Proofs about AnswerPolicy, for any addresses, TTLs, intensities and     *)
(* settings: how long a name is served, that it is answered for every      *)
(* stored type while it is, and how long the answers may be cached.        *)
(***************************************************************************)
EXTENDS AnswerPolicy, FiniteSetTheorems, TLAPS

(* A finite set of numbers has a greatest and a least element.  A smallest *)
(* nonempty part without one would lose it by removing one element.        *)
LEMMA FiniteHasMax ==
  ASSUME NEW S \in SUBSET Int, IsFiniteSet(S), S # {}
  PROVE  \E x \in S : \A y \in S : x >= y
<1> DEFINE Bad == {T \in FiniteSubsetsOf(S) : T # {} /\ ~\E x \in T : \A y \in T : x >= y}
<1>1. SUFFICES ASSUME ~\E x \in S : \A y \in S : x >= y
               PROVE  FALSE
  OBVIOUS
<1>2. S \in Bad
  BY <1>1 DEF FiniteSubsetsOf
<1>3. Bad \subseteq FiniteSubsetsOf(S)
  OBVIOUS
<1> HIDE DEF Bad
<1>4. PICK T \in Bad : \A U \in Bad : ~(<<U, T>> \in StrictSubsetOrdering(S))
  <2>1. IsWellFoundedOn(StrictSubsetOrdering(S), FiniteSubsetsOf(S))
    BY FS_StrictSubsetOrderingWellFounded
  <2> QED BY <1>2, <1>3, <2>1, WFMin
<1>5. /\ T \subseteq S /\ IsFiniteSet(T) /\ T # {}
      /\ ~\E x \in T : \A y \in T : x >= y
  BY <1>4 DEF Bad, FiniteSubsetsOf
<1>6. PICK x \in T : TRUE
  BY <1>5
<1> DEFINE U == T \ {x}
<1>7. U \subseteq S /\ U # T /\ U \subseteq T /\ IsFiniteSet(U)
  BY <1>5, <1>6, FS_RemoveElement
<1>8. <<U, T>> \in StrictSubsetOrdering(S)
  BY <1>5, <1>7 DEF StrictSubsetOrdering
<1>9. U \notin Bad
  BY <1>4, <1>8
<1>10. U = {} \/ \E m \in U : \A y \in U : m >= y
  BY <1>7, <1>9 DEF Bad, FiniteSubsetsOf
<1>11. CASE U = {}
  <2>1. x \in Int /\ \A y \in T : y = x
    BY <1>5, <1>6, <1>11
  <2> QED BY <1>5, <1>6, <2>1
<1>12. CASE \E m \in U : \A y \in U : m >= y
  <2>1. PICK m \in U : \A y \in U : m >= y
    BY <1>12
  <2>2. m \in Int /\ x \in Int /\ m \in T /\ \A y \in T : y \in Int /\ (y = x \/ m >= y)
    BY <1>5, <1>6, <2>1
  <2>3. m >= x \/ x >= m
    BY <2>2
  <2>4. CASE m >= x
    BY <1>5, <2>2, <2>4
  <2>5. CASE x >= m
    <3>1. \A y \in T : x >= y
      BY <2>2, <2>5
    <3> QED BY <1>5, <1>6, <3>1
  <2> QED BY <2>3, <2>4, <2>5
<1> QED BY <1>10, <1>11, <1>12

(* What Max returns. *)
LEMMA MaxOfFinite ==
  ASSUME NEW S \in SUBSET Int, IsFiniteSet(S), S # {}
  PROVE  Max(S) \in S /\ \A y \in S : Max(S) >= y
BY FiniteHasMax DEF Max

(* The values of a function on a finite set are finitely many. *)
LEMMA ImageFinite ==
  ASSUME NEW S, IsFiniteSet(S), NEW V, NEW f \in [S -> V]
  PROVE  IsFiniteSet({f[x] : x \in S})
<1> DEFINE T == {f[x] : x \in S}
<1>1. f \in Surjection(S, T)
  BY DEF Surjection
<1> QED BY <1>1, FS_Surjection

(* What Min returns: the least element is the greatest of the negatives. *)
LEMMA MinOfFinite ==
  ASSUME NEW S \in SUBSET Int, IsFiniteSet(S), S # {}
  PROVE  Min(S) \in S /\ \A y \in S : Min(S) <= y
<1> DEFINE neg == [x \in S |-> -x]
           T == {neg[x] : x \in S}
<1>1. neg \in [S -> Int] /\ \A x \in S : neg[x] = -x
  OBVIOUS
<1> HIDE DEF neg
<1>2. IsFiniteSet(T)
  BY <1>1, ImageFinite
<1>3. T \in SUBSET Int /\ T # {}
  BY <1>1
<1>4. PICK m \in T : \A y \in T : m >= y
  BY <1>2, <1>3, FiniteHasMax
<1>5. PICK x \in S : m = neg[x]
  OBVIOUS
<1>6. ASSUME NEW y \in S
      PROVE  x <= y
  <2>1. neg[x] >= neg[y]
    BY <1>4, <1>5
  <2>2. x \in Int /\ y \in Int /\ neg[x] = -x /\ neg[y] = -y
    BY <1>1
  <2> QED BY <2>1, <2>2
<1> QED BY <1>6 DEF Min

(* The greatest and the least value of a function on a finite set. *)
LEMMA MaxOfImage ==
  ASSUME NEW S, IsFiniteSet(S), S # {}, NEW f \in [S -> Int]
  PROVE  /\ \E x \in S : Max({f[y] : y \in S}) = f[x]
         /\ \A x \in S : Max({f[y] : y \in S}) >= f[x]
         /\ Max({f[y] : y \in S}) \in Int
<1> DEFINE T == {f[y] : y \in S}
<1>1. IsFiniteSet(T) /\ T \in SUBSET Int /\ T # {}
  BY ImageFinite
<1>2. Max(T) \in T /\ \A y \in T : Max(T) >= y
  BY <1>1, MaxOfFinite
<1> QED BY <1>2

(* The same for the least. *)
LEMMA MinOfImage ==
  ASSUME NEW S, IsFiniteSet(S), S # {}, NEW f \in [S -> Int]
  PROVE  /\ \E x \in S : Min({f[y] : y \in S}) = f[x]
         /\ \A x \in S : Min({f[y] : y \in S}) <= f[x]
         /\ Min({f[y] : y \in S}) \in Int
<1> DEFINE T == {f[y] : y \in S}
<1>1. IsFiniteSet(T) /\ T \in SUBSET Int /\ T # {}
  BY ImageFinite
<1>2. Min(T) \in T /\ \A y \in T : Min(T) <= y
  BY <1>1, MinOfFinite
<1> QED BY <1>2

-----------------------------------------------------------------------------
(* Type correctness: every stored record has the type of its address. *)
THEOREM TypeCorrect == Spec => []TypeOK
<1>1. Init => TypeOK
  <2> SUFFICES ASSUME Init PROVE TypeOK
    OBVIOUS
  <2>1. IsFiniteSet({})
    BY FS_EmptySet
  <2> QED BY <2>1, AnswerAssumption DEF Init, TypeOK
<1>2. TypeOK /\ [Next]_vars => TypeOK'
  <2> SUFFICES ASSUME TypeOK, [Next]_vars PROVE TypeOK'
    OBVIOUS
  <2>1. CASE Tick
    BY <2>1, AnswerAssumption DEF TypeOK, Tick, Family
  <2>2. ASSUME NEW answers \in Measured, StoreResolved(answers)
        PROVE  TypeOK'
    <3> DEFINE rec == [x \in answers |-> [rtype |-> Family(x[1]), address |-> x[1], expires_at |-> Expiry(x[2])]]
    <3>1. records' = {rec[x] : x \in answers} /\ now' = now /\ moer' = moer
      BY <2>2 DEF StoreResolved
    <3>2. IsFiniteSet(answers) /\ answers \subseteq Addresses \X Ttls
      BY DEF Measured
    <3>3. ASSUME NEW x \in answers
          PROVE  rec[x] \in Record /\ rec[x].rtype = Family(rec[x].address)
      <4>1. x[1] \in Addresses /\ x[2] \in Nat
        BY <3>2, AnswerAssumption
      <4>2. Expiry(x[2]) \in Nat
        BY <4>1, AnswerAssumption DEF Expiry, TypeOK
      <4>3. Family(x[1]) \in {"A", "AAAA"}
        BY DEF Family
      <4> QED BY <4>1, <4>2, <4>3 DEF Record
    <3>4. rec \in [answers -> Record]
      BY <3>3
    <3> HIDE DEF rec
    <3>5. IsFiniteSet(records')
      BY <3>1, <3>2, <3>4, ImageFinite
    <3>6. records' \subseteq Record /\ \A r \in records' : r.rtype = Family(r.address)
      BY <3>1, <3>3
    <3> QED BY <3>1, <3>5, <3>6 DEF TypeOK, Family
  <2>3. CASE StoreNegative
    BY <2>3, FS_EmptySet DEF TypeOK, StoreNegative
  <2>4. ASSUME NEW a \in Addresses, NEW m \in Moers \union {Unknown}, SignalChange(a, m)
        PROVE  TypeOK'
    BY <2>4 DEF TypeOK, SignalChange, Family
  <2>5. CASE UNCHANGED vars
    BY <2>5 DEF TypeOK, vars, Family
  <2> QED BY <2>1, <2>2, <2>3, <2>4, <2>5 DEF Next
<1> QED BY <1>1, <1>2, PTL DEF Spec

-----------------------------------------------------------------------------
(* The latest expiry of any nonempty set of records is that of one of them. *)
LEMMA LatestExpiry ==
  ASSUME TypeOK, NEW X \in SUBSET records, X # {}
  PROVE  /\ Max({r.expires_at : r \in X}) \in Int
         /\ \E r \in X : r.expires_at = Max({x.expires_at : x \in X})
         /\ \A r \in X : r.expires_at <= Max({x.expires_at : x \in X})
<1> DEFINE f == [r \in X |-> r.expires_at]
<1>1. IsFiniteSet(X) /\ \A r \in X : r.expires_at \in Nat
  BY FS_Subset DEF TypeOK, Record
<1>2. f \in [X -> Int] /\ \A r \in X : f[r] = r.expires_at
  BY <1>1
<1>3. {f[r] : r \in X} = {r.expires_at : r \in X}
  BY <1>2
<1> HIDE DEF f
<1>4. /\ \E x \in X : Max({f[y] : y \in X}) = f[x]
      /\ \A x \in X : Max({f[y] : y \in X}) >= f[x]
      /\ Max({f[y] : y \in X}) \in Int
  BY <1>1, <1>2, MaxOfImage
<1> DEFINE m == Max({r.expires_at : r \in X})
<1>5. m = Max({f[y] : y \in X})
  BY <1>3
<1> HIDE DEF m
<1>6. m \in Int /\ \E r \in X : r.expires_at = m
  BY <1>2, <1>4, <1>5
<1>7. ASSUME NEW r \in X
      PROVE  r.expires_at <= m
  <2>1. m >= f[r] /\ f[r] = r.expires_at /\ r.expires_at \in Int
    BY <1>1, <1>2, <1>4, <1>5
  <2> QED BY <1>6, <2>1
<1> QED BY <1>6, <1>7 DEF m

(* A stored type is one of two, and has a record that expires last. *)
LEMMA TypeExpiry ==
  ASSUME TypeOK, NEW type \in StoredTypes
  PROVE  /\ LastExpiry(type) \in Int
         /\ \E r \in records : r.rtype = type /\ r.expires_at = LastExpiry(type)
         /\ \A r \in records : r.rtype = type => r.expires_at <= LastExpiry(type)
<1> DEFINE X == {x \in records : x.rtype = type}
<1>1. X \in SUBSET records /\ X # {}
  BY DEF StoredTypes
<1>2. /\ Max({r.expires_at : r \in X}) \in Int
      /\ \E r \in X : r.expires_at = Max({x.expires_at : x \in X})
      /\ \A r \in X : r.expires_at <= Max({x.expires_at : x \in X})
  BY <1>1, LatestExpiry
<1> QED BY <1>2 DEF LastExpiry

(* So has a stored address. *)
LEMMA AddressExpiry ==
  ASSUME TypeOK, NEW a, \E r \in records : r.address = a
  PROVE  /\ ExpiresAt(a) \in Int
         /\ \E r \in records : r.address = a /\ r.expires_at = ExpiresAt(a)
         /\ \A r \in records : r.address = a => r.expires_at <= ExpiresAt(a)
<1> DEFINE X == {x \in records : x.address = a}
<1>1. X \in SUBSET records /\ X # {}
  OBVIOUS
<1>2. /\ Max({r.expires_at : r \in X}) \in Int
      /\ \E r \in X : r.expires_at = Max({x.expires_at : x \in X})
      /\ \A r \in X : r.expires_at <= Max({x.expires_at : x \in X})
  BY <1>1, LatestExpiry
<1> QED BY <1>2 DEF ExpiresAt

(* There are finitely many stored types, and one if there is a record. *)
LEMMA FiniteTypes ==
  ASSUME TypeOK
  PROVE  IsFiniteSet(StoredTypes) /\ (records # {} => StoredTypes # {})
<1>1. StoredTypes \subseteq {"A"} \union {"AAAA"}
  BY DEF StoredTypes, TypeOK, Record
<1>2. IsFiniteSet({"A"} \union {"AAAA"})
  BY FS_Singleton, FS_AddElement
<1>3. IsFiniteSet(StoredTypes)
  BY <1>1, <1>2, FS_Subset
<1> QED BY <1>3 DEF StoredTypes

(* served_until is when the first of the stored types has expired. *)
LEMMA FirstTypeToExpire ==
  ASSUME TypeOK, records # {}
  PROVE  /\ served_until \in Int
         /\ \E type \in StoredTypes : served_until = LastExpiry(type)
         /\ \A type \in StoredTypes : served_until <= LastExpiry(type)
<1> DEFINE f == [type \in StoredTypes |-> LastExpiry(type)]
<1>1. \A type \in StoredTypes : LastExpiry(type) \in Int
  BY TypeExpiry
<1>2. f \in [StoredTypes -> Int] /\ \A type \in StoredTypes : f[type] = LastExpiry(type)
  BY <1>1
<1>3. served_until = Min({f[type] : type \in StoredTypes})
  BY <1>2 DEF served_until
<1> HIDE DEF f
<1>4. IsFiniteSet(StoredTypes) /\ StoredTypes # {}
  BY FiniteTypes
<1>5. /\ \E x \in StoredTypes : Min({f[y] : y \in StoredTypes}) = f[x]
      /\ \A x \in StoredTypes : Min({f[y] : y \in StoredTypes}) <= f[x]
      /\ Min({f[y] : y \in StoredTypes}) \in Int
  BY <1>2, <1>4, MinOfImage
<1> QED BY <1>2, <1>3, <1>5

(* The monitor's served_until is the end of service, at every moment. *)
THEOREM ServiceEndsTogether == Spec => []ServedUntilAgrees
<1>1. TypeOK => ServedUntilAgrees
  <2> SUFFICES ASSUME TypeOK PROVE ServedUntilAgrees
    OBVIOUS
  <2>1. CASE records = {}
    BY <2>1 DEF ServedUntilAgrees, dlz_findzone
  <2>2. CASE records # {}
    <3>1. now \in Int
      BY AnswerAssumption DEF TypeOK
    <3>2. \A type \in StoredTypes : LastExpiry(type) \in Int
      BY TypeExpiry
    <3>3. /\ served_until \in Int
          /\ \E type \in StoredTypes : served_until = LastExpiry(type)
          /\ \A type \in StoredTypes : served_until <= LastExpiry(type)
      BY <2>2, FirstTypeToExpire
    <3>4. (\A type \in StoredTypes : LastExpiry(type) > now) <=> now < served_until
      BY <3>1, <3>2, <3>3
    <3> QED BY <2>2, <3>4 DEF ServedUntilAgrees, dlz_findzone
  <2> QED BY <2>1, <2>2
<1> QED BY <1>1, TypeCorrect, PTL

-----------------------------------------------------------------------------
(* The fresh addresses of a type: finitely many, stored, of that family. *)
LEMMA FreshFacts ==
  ASSUME TypeOK, NEW type
  PROVE  /\ Fresh(type) \subseteq Addresses /\ IsFiniteSet(Fresh(type))
         /\ \A a \in Fresh(type) :
               /\ type \in StoredTypes /\ Family(a) = type
               /\ ExpiresAt(a) \in Int /\ ExpiresAt(a) > now
               /\ ExpiresAt(a) <= LastExpiry(type)
<1> DEFINE X == {x \in records : x.rtype = type /\ x.expires_at > now}
           f == [r \in X |-> r.address]
<1>1. IsFiniteSet(X) /\ \A r \in X : r \in records /\ r \in Record /\ r.rtype = Family(r.address)
  BY FS_Subset DEF TypeOK
<1>2. f \in [X -> Addresses] /\ Fresh(type) = {f[r] : r \in X}
  BY <1>1 DEF Fresh, Record
<1>3. IsFiniteSet({f[r] : r \in X}) /\ {f[r] : r \in X} \subseteq Addresses
  <2>1. {f[r] : r \in X} \subseteq Addresses
    BY <1>2
  <2>2. IsFiniteSet({f[r] : r \in X})
    <3>1. IsFiniteSet(X) /\ f \in [X -> Addresses]
      BY <1>1, <1>2
    <3> HIDE DEF X, f
    <3> QED BY <3>1, ImageFinite
  <2> QED BY <2>1, <2>2
<1>4. ASSUME NEW a \in Fresh(type)
      PROVE  /\ type \in StoredTypes /\ Family(a) = type
             /\ ExpiresAt(a) \in Int /\ ExpiresAt(a) > now
             /\ ExpiresAt(a) <= LastExpiry(type)
  <2>1. PICK r \in records : r.rtype = type /\ r.expires_at > now /\ r.address = a
    BY DEF Fresh
  <2>2. r.expires_at \in Nat /\ now \in Nat /\ Family(a) = type /\ type \in StoredTypes
    BY <2>1, AnswerAssumption DEF TypeOK, Record, StoredTypes
  <2>3. /\ ExpiresAt(a) \in Int
        /\ \E x \in records : x.address = a /\ x.expires_at = ExpiresAt(a)
        /\ \A x \in records : x.address = a => x.expires_at <= ExpiresAt(a)
    BY <2>1, AddressExpiry
  <2>4. ExpiresAt(a) > now
    BY <2>1, <2>2, <2>3
  <2>5. PICK x \in records : x.address = a /\ x.expires_at = ExpiresAt(a)
    BY <2>3
  <2>6. x.rtype = type
    BY <2>2, <2>5 DEF TypeOK
  <2>7. ExpiresAt(a) <= LastExpiry(type)
    BY <2>2, <2>5, <2>6, TypeExpiry
  <2> QED BY <2>2, <2>3, <2>4, <2>7
<1> QED BY <1>2, <1>3, <1>4

(* In any set of addresses one ranks as well as every other. *)
LEMMA BestRanked ==
  ASSUME TypeOK, NEW S \in SUBSET Addresses, IsFiniteSet(S), S # {}
  PROVE  \E a \in S : \A b \in S : ~RanksBefore(b, a)
<1> DEFINE K == {a \in S : moer[a] # Unknown}
<1>1. \A a \in S : moer[a] \in Moers \union {Unknown}
  BY DEF TypeOK
<1>2. CASE K = {}
  BY <1>2 DEF RanksBefore
<1>3. CASE K # {}
  <2> DEFINE f == [a \in K |-> moer[a]]
  <2>1. IsFiniteSet(K)
    BY FS_Subset
  <2>2. f \in [K -> Int] /\ \A a \in K : f[a] = moer[a] /\ moer[a] \in Int /\ moer[a] # Unknown
    <3>1. \A a \in K : moer[a] \in Moers /\ moer[a] # Unknown
      BY <1>1
    <3>2. Moers \subseteq Nat
      BY AnswerAssumption
    <3>3. ASSUME NEW a \in K
          PROVE  moer[a] \in Int
      <4>1. moer[a] \in Nat
        BY <3>1, <3>2
      <4> QED BY <4>1
    <3> QED BY <3>1, <3>3
  <2> HIDE DEF f
  <2>3. /\ \E x \in K : Min({f[y] : y \in K}) = f[x]
        /\ \A x \in K : Min({f[y] : y \in K}) <= f[x]
    BY <1>3, <2>1, <2>2, MinOfImage
  <2>4. PICK a \in K : \A b \in K : f[a] <= f[b]
    BY <2>3
  <2>5. \A b \in K : ~(moer[b] < moer[a])
    BY <2>2, <2>4
  <2>6. \A b \in S : ~RanksBefore(b, a)
    BY <2>2, <2>5 DEF RanksBefore
  <2> QED BY <2>6
<1> QED BY <1>2, <1>3

(* The first n of a ranking exist: BestRanked extends the longest such     *)
(* choice, which would have to be shorter than n.                          *)
LEMMA RankingPrefix ==
  ASSUME TypeOK, NEW S \in SUBSET Addresses, IsFiniteSet(S),
         NEW n \in Nat, n <= Cardinality(S)
  PROVE  \E s \in SUBSET S : /\ Cardinality(s) = n
                             /\ \A a \in s, b \in S \ s : ~RanksBefore(b, a)
<1> DEFINE Prefix(k, s) == /\ Cardinality(s) = k
                           /\ \A a \in s, b \in S \ s : ~RanksBefore(b, a)
           Good == {k \in 0..n : \E s \in SUBSET S : Prefix(k, s)}
<1>1. 0 \in Good
  <2>1. Prefix(0, {})
    BY FS_EmptySet
  <2> QED BY <2>1
<1>2. Good \in SUBSET Int /\ IsFiniteSet(Good)
  <2>1. IsFiniteSet(0..n) /\ Good \in SUBSET (0..n)
    BY FS_Interval
  <2> QED BY <2>1, FS_Subset
<1>3. PICK k \in Good : \A j \in Good : k >= j
  <2> HIDE DEF Good
  <2> QED BY <1>1, <1>2, FiniteHasMax
<1>4. k \in Nat /\ k <= n /\ Cardinality(S) \in Nat
  BY <1>3, FS_CardinalityType
<1>5. PICK s \in SUBSET S : Prefix(k, s)
  BY <1>3
<1>6. IsFiniteSet(s) /\ Cardinality(s) = k /\ \A a \in s, b \in S \ s : ~RanksBefore(b, a)
  BY <1>5, FS_Subset
<1>7. CASE k = n
  BY <1>6, <1>7
<1>8. CASE k < n
  <2>1. S \ s # {}
    <3>1. s # S
      BY <1>4, <1>6, <1>8
    <3> QED BY <3>1
  <2>2. IsFiniteSet(S \ s) /\ S \ s \in SUBSET Addresses
    BY FS_Subset
  <2>3. PICK a \in S \ s : \A b \in S \ s : ~RanksBefore(b, a)
    BY <2>1, <2>2, BestRanked
  <2>4. Cardinality(s \union {a}) = k + 1
    BY <1>6, <2>3, FS_AddElement
  <2>5. Prefix(k + 1, s \union {a}) /\ s \union {a} \in SUBSET S
    BY <1>6, <2>3, <2>4
  <2>6. k + 1 \in 0..n
    BY <1>4, <1>8
  <2>7. k + 1 \in Good
    BY <2>5, <2>6
  <2>8. k >= k + 1
    BY <1>3, <2>7
  <2> QED BY <1>4, <2>8
<1> QED BY <1>4, <1>7, <1>8

(* A stored type with a fresh record can be answered, and every answer for *)
(* it consists of fresh addresses, at least one of them.                   *)
LEMMA ChosenFacts ==
  ASSUME TypeOK, NEW type \in StoredTypes, LastExpiry(type) > now
  PROVE  /\ Chosen(type) # {}
         /\ \A s \in Chosen(type) : s \subseteq Fresh(type) /\ s # {} /\ IsFiniteSet(s)
<1> DEFINE fresh == Fresh(type)
           count == IF Cardinality(fresh) < AnswerK THEN Cardinality(fresh) ELSE AnswerK
           Ranked(s) == \A a \in s, b \in fresh \ s : ~RanksBefore(b, a)
<1>1. fresh \in SUBSET Addresses /\ IsFiniteSet(fresh)
  BY FreshFacts
<1>2. fresh # {}
  <2>1. PICK r \in records : r.rtype = type /\ r.expires_at = LastExpiry(type)
    BY TypeExpiry
  <2>2. r.address \in fresh
    BY <2>1 DEF Fresh
  <2> QED BY <2>2
<1>3. Chosen(type) = {s \in SUBSET fresh : Cardinality(s) = count /\ Ranked(s)}
  BY DEF Chosen
<1> HIDE DEF fresh
<1>4. Cardinality(fresh) \in Nat /\ Cardinality(fresh) # 0
  BY <1>1, <1>2, FS_CardinalityType, FS_EmptySet
<1>5. count \in Nat /\ count # 0 /\ count <= Cardinality(fresh)
  BY <1>4, AnswerAssumption
<1> HIDE DEF count
<1>6. \E s \in SUBSET fresh : Cardinality(s) = count /\ Ranked(s)
  BY <1>1, <1>5, RankingPrefix
<1>7. Chosen(type) # {}
  BY <1>3, <1>6
<1>8. ASSUME NEW s \in Chosen(type)
      PROVE  s \subseteq fresh /\ s # {} /\ IsFiniteSet(s)
  <2>1. s \in SUBSET fresh /\ Cardinality(s) = count
    BY <1>3
  <2>2. IsFiniteSet(s)
    BY <1>1, <2>1, FS_Subset
  <2>3. s # {}
    BY <1>5, <2>1, FS_EmptySet
  <2> QED BY <2>1, <2>2, <2>3
<1> QED BY <1>7, <1>8 DEF fresh

(* Every answer of dlz_lookup is one chosen set for each stored type. *)
LEMMA AnswerFacts ==
  ASSUME TypeOK, dlz_findzone
  PROVE  /\ dlz_lookup # {}
         /\ \A rrsets \in dlz_lookup :
               /\ DOMAIN rrsets = StoredTypes
               /\ \A type \in StoredTypes :
                     /\ rrsets[type] \subseteq Fresh(type) /\ rrsets[type] # {}
                     /\ IsFiniteSet(rrsets[type])
<1>1. \A type \in StoredTypes : LastExpiry(type) > now
  BY DEF dlz_findzone
<1>2. \A type \in StoredTypes : Chosen(type) # {}
  BY <1>1, ChosenFacts
<1>3. \A type \in StoredTypes : \A s \in Chosen(type) :
         s \subseteq Fresh(type) /\ s # {} /\ IsFiniteSet(s)
  BY <1>1, ChosenFacts
<1>4. dlz_lookup = {rrsets \in [StoredTypes -> SUBSET Addresses] :
                      \A type \in StoredTypes : rrsets[type] \in Chosen(type)}
  BY DEF dlz_lookup
<1>5. dlz_lookup # {}
  <2> DEFINE choice == [type \in StoredTypes |-> CHOOSE s \in Chosen(type) : TRUE]
  <2>1. \A type \in StoredTypes : choice[type] \in Chosen(type)
    BY <1>2
  <2>2. \A type \in StoredTypes : Fresh(type) \subseteq Addresses
    BY FreshFacts
  <2>3. choice \in [StoredTypes -> SUBSET Addresses]
    <3>1. \A type \in StoredTypes : choice[type] \in SUBSET Addresses
      BY <1>3, <2>1, <2>2
    <3> QED BY <3>1
  <2> HIDE DEF choice
  <2> QED BY <1>4, <2>1, <2>3
<1>6. ASSUME NEW rrsets \in dlz_lookup
      PROVE  /\ DOMAIN rrsets = StoredTypes
             /\ \A type \in StoredTypes :
                   /\ rrsets[type] \subseteq Fresh(type) /\ rrsets[type] # {}
                   /\ IsFiniteSet(rrsets[type])
  <2>1. /\ rrsets \in [StoredTypes -> SUBSET Addresses]
        /\ \A type \in StoredTypes : rrsets[type] \in Chosen(type)
    BY <1>4
  <2> QED BY <1>3, <2>1
<1> QED BY <1>5, <1>6

(* A name that is served is answered for every stored type, and only with  *)
(* addresses that have not expired.                                        *)
THEOREM ServedMeansAnswered == Spec => []NoFalseNodata
<1>1. TypeOK => NoFalseNodata
  <2> SUFFICES ASSUME TypeOK, dlz_findzone
               PROVE  /\ dlz_lookup # {}
                      /\ \A rrsets \in dlz_lookup, type \in StoredTypes :
                            /\ rrsets[type] # {}
                            /\ \A a \in rrsets[type] : Family(a) = type /\ ExpiresAt(a) > now
    BY DEF NoFalseNodata
  <2>1. ASSUME NEW type, NEW a \in Fresh(type)
        PROVE  Family(a) = type /\ ExpiresAt(a) > now
    BY FreshFacts
  <2>2. dlz_lookup # {}
    BY AnswerFacts
  <2>3. ASSUME NEW rrsets \in dlz_lookup, NEW type \in StoredTypes
        PROVE  rrsets[type] \subseteq Fresh(type) /\ rrsets[type] # {}
    BY AnswerFacts
  <2> QED BY <2>1, <2>2, <2>3
<1> QED BY <1>1, TypeCorrect, PTL

(* The answer is the greenest.  The addresses within a limit rank before   *)
(* all others, so the chosen set contains them all or nothing else.        *)
THEOREM AnswersGreenest == Spec => []GreenestAnswer
<1>1. TypeOK => GreenestAnswer
  <2> SUFFICES ASSUME TypeOK, NEW rrsets \in dlz_lookup, NEW type \in DOMAIN rrsets,
                      NEW s \in SUBSET Fresh(type), NEW limit \in Moers,
                      Cardinality(s) = Cardinality(rrsets[type])
               PROVE  Cardinality(Within(limit, s)) <= Cardinality(Within(limit, rrsets[type]))
    BY DEF GreenestAnswer
  <2> DEFINE rr == rrsets[type]
             fresh == Fresh(type)
  <2>1. dlz_findzone /\ type \in StoredTypes /\ rr \in Chosen(type)
    BY DEF dlz_lookup
  <2>2. rr \in SUBSET fresh /\ \A a \in rr, b \in fresh \ rr : ~RanksBefore(b, a)
    BY <2>1 DEF Chosen
  <2>3. IsFiniteSet(fresh) /\ fresh \subseteq Addresses
    BY FreshFacts
  <2> HIDE DEF rr, fresh
  <2>4. IsFiniteSet(rr) /\ IsFiniteSet(s)
    BY <2>2, <2>3, FS_Subset DEF fresh
  <2>5. \A a \in fresh : moer[a] = Unknown \/ moer[a] \in Nat
    BY <2>3, AnswerAssumption DEF TypeOK
  <2>6. limit \in Nat
    BY AnswerAssumption
  <2>7. ASSUME NEW a \in Within(limit, fresh), NEW b \in fresh, b \notin Within(limit, fresh)
        PROVE  RanksBefore(a, b)
    BY <2>5, <2>6, <2>7 DEF Within, RanksBefore
  <2>8. Within(limit, fresh) \subseteq rr \/ rr \subseteq Within(limit, fresh)
    BY <2>2, <2>7 DEF Within
  <2>9. /\ Within(limit, s) \subseteq s /\ Within(limit, s) \subseteq Within(limit, fresh)
        /\ Within(limit, rr) = rr \intersect Within(limit, fresh)
    BY <2>2 DEF Within, fresh
  <2>10. CASE Within(limit, fresh) \subseteq rr
    <3>1. Within(limit, s) \subseteq Within(limit, rr) /\ Within(limit, rr) \subseteq rr
      BY <2>9, <2>10
    <3>2. IsFiniteSet(Within(limit, rr))
      BY <2>4, <3>1, FS_Subset
    <3>3. Cardinality(Within(limit, s)) <= Cardinality(Within(limit, rr))
      BY <3>1, <3>2, FS_Subset
    <3> QED BY <3>3 DEF rr
  <2>11. CASE rr \subseteq Within(limit, fresh)
    <3>1. Within(limit, rr) = rr
      BY <2>9, <2>11
    <3>2. Cardinality(Within(limit, s)) <= Cardinality(s)
      BY <2>4, <2>9, FS_Subset
    <3> QED BY <3>1, <3>2 DEF rr
  <2> QED BY <2>8, <2>10, <2>11
<1> QED BY <1>1, TypeCorrect, PTL

-----------------------------------------------------------------------------
(* Rounding down to whole seconds. *)
LEMMA WholeSeconds ==
  ASSUME NEW x \in Int, NEW T \in Nat \ {0}
  PROVE  x \div T \in Int /\ T * (x \div T) <= x
OBVIOUS

(* An RRset of fresh addresses outlives none of them by a whole second. *)
LEMMA RRsetTtlFacts ==
  ASSUME TypeOK, NEW type, NEW s, s \subseteq Fresh(type), s # {}, IsFiniteSet(s)
  PROVE  /\ RRsetTtl(s) \in Int
         /\ \A a \in s : now + TicksPerSecond * RRsetTtl(s) < ExpiresAt(a) + TicksPerSecond
<1> DEFINE f == [a \in s |-> ExpiresAt(a)]
           m == Min({ExpiresAt(a) : a \in s})
           left == (m - now) \div TicksPerSecond
           capped == IF left < MaxAnswerTtl THEN left ELSE MaxAnswerTtl
<1>1. \A a \in s : ExpiresAt(a) \in Int /\ ExpiresAt(a) > now
  BY FreshFacts
<1>2. f \in [s -> Int] /\ \A a \in s : f[a] = ExpiresAt(a)
  BY <1>1
<1>3. m = Min({f[a] : a \in s})
  BY <1>2
<1>4. RRsetTtl(s) = IF capped > 1 THEN capped ELSE 1
  BY DEF RRsetTtl
<1> HIDE DEF f, m
<1>5. m \in Int /\ (\E a \in s : m = f[a]) /\ \A a \in s : m <= f[a]
  BY <1>2, <1>3, MinOfImage
<1>6. now \in Nat /\ TicksPerSecond \in Nat \ {0} /\ MaxAnswerTtl \in Nat
  BY AnswerAssumption DEF TypeOK
<1>7. m > now
  BY <1>1, <1>2, <1>5
<1>8. m - now \in Int
  BY <1>5, <1>6
<1>9. left \in Int /\ TicksPerSecond * left <= m - now
  BY <1>6, <1>8, WholeSeconds
<1> HIDE DEF left
<1>10. ASSUME NEW T \in Nat \ {0}, NEW l \in Int, NEW c \in Int, NEW d \in Int,
              d > 0, T * l <= d, c <= l
       PROVE  T * (IF c > 1 THEN c ELSE 1) < d + T
  <2>1. T * c <= T * l
    BY <1>10
  <2> QED BY <1>10, <2>1
<1>11. capped \in Int /\ capped <= left
  BY <1>6, <1>9
<1>12. m - now > 0
  BY <1>5, <1>6, <1>7
<1> HIDE DEF capped
<1>13. TicksPerSecond * RRsetTtl(s) < (m - now) + TicksPerSecond
  BY <1>4, <1>6, <1>8, <1>9, <1>10, <1>11, <1>12
<1>14. RRsetTtl(s) \in Int
  BY <1>4, <1>11
<1>15. ASSUME NEW a \in s
       PROVE  now + TicksPerSecond * RRsetTtl(s) < ExpiresAt(a) + TicksPerSecond
  <2>1. m <= ExpiresAt(a) /\ ExpiresAt(a) \in Int
    BY <1>1, <1>2, <1>5
  <2>2. TicksPerSecond * RRsetTtl(s) \in Int
    BY <1>6, <1>14
  <2> DEFINE p == TicksPerSecond * RRsetTtl(s)
  <2> HIDE DEF p
  <2> QED BY <1>5, <1>6, <1>13, <2>1, <2>2 DEF p
<1> QED BY <1>14, <1>15

(* Neither an RRset nor the apex is cached beyond the records behind it,   *)
(* but for the second to which a TTL is rounded up.                        *)
THEOREM CachedNoLonger == Spec => []AnswersDoNotOutliveData
<1>1. TypeOK => AnswersDoNotOutliveData
  <2> SUFFICES ASSUME TypeOK, NEW rrsets \in dlz_lookup
               PROVE  /\ \A type \in DOMAIN rrsets, a \in Addresses :
                            a \in rrsets[type] =>
                                now + TicksPerSecond * RRsetTtl(rrsets[type])
                                    < ExpiresAt(a) + TicksPerSecond
                      /\ now + TicksPerSecond * ApexTtl(rrsets) < served_until + TicksPerSecond
    BY DEF AnswersDoNotOutliveData
  <2>1. dlz_findzone /\ records # {}
    BY DEF dlz_lookup, dlz_findzone
  <2>2. /\ DOMAIN rrsets = StoredTypes
        /\ \A type \in StoredTypes :
              /\ rrsets[type] \subseteq Fresh(type) /\ rrsets[type] # {}
              /\ IsFiniteSet(rrsets[type])
    BY <2>1, AnswerFacts
  <2>3. \A type \in StoredTypes :
           /\ RRsetTtl(rrsets[type]) \in Int
           /\ \A a \in rrsets[type] : now + TicksPerSecond * RRsetTtl(rrsets[type])
                                          < ExpiresAt(a) + TicksPerSecond
    BY <2>2, RRsetTtlFacts
  <2> DEFINE f == [type \in StoredTypes |-> RRsetTtl(rrsets[type])]
  <2>4. f \in [StoredTypes -> Int] /\ \A type \in StoredTypes : f[type] = RRsetTtl(rrsets[type])
    BY <2>3
  <2>5. ApexTtl(rrsets) = Min({f[type] : type \in StoredTypes})
    BY <2>2, <2>4 DEF ApexTtl
  <2> HIDE DEF f
  <2>6. IsFiniteSet(StoredTypes) /\ StoredTypes # {}
    BY <2>1, FiniteTypes
  <2>7. /\ \A x \in StoredTypes : Min({f[y] : y \in StoredTypes}) <= f[x]
        /\ Min({f[y] : y \in StoredTypes}) \in Int
    BY <2>4, <2>6, MinOfImage
  <2>8. PICK first \in StoredTypes : served_until = LastExpiry(first)
    BY <2>1, FirstTypeToExpire
  <2>9. PICK a \in rrsets[first] : TRUE
    BY <2>2
  <2>10. ExpiresAt(a) <= LastExpiry(first) /\ ExpiresAt(a) \in Int /\ LastExpiry(first) \in Int
    <3>1. a \in Fresh(first)
      BY <2>2, <2>9
    <3> QED BY <3>1, FreshFacts, TypeExpiry
  <2>11. /\ ApexTtl(rrsets) \in Int /\ RRsetTtl(rrsets[first]) \in Int
         /\ ApexTtl(rrsets) <= RRsetTtl(rrsets[first])
    BY <2>3, <2>4, <2>5, <2>7
  <2>12. now + TicksPerSecond * RRsetTtl(rrsets[first]) < ExpiresAt(a) + TicksPerSecond
    BY <2>3, <2>9
  <2>13. now \in Nat /\ TicksPerSecond \in Nat \ {0}
    BY AnswerAssumption DEF TypeOK
  <2>14. ASSUME NEW n \in Nat, NEW T \in Nat \ {0}, NEW apex \in Int, NEW ttl \in Int,
                NEW e \in Int, NEW l \in Int, apex <= ttl, n + T * ttl < e + T, e <= l
         PROVE  n + T * apex < l + T
    <3>1. T * apex <= T * ttl
      BY <2>14
    <3> QED BY <2>14, <3>1
  <2>15. now + TicksPerSecond * ApexTtl(rrsets) < served_until + TicksPerSecond
    BY <2>8, <2>10, <2>11, <2>12, <2>13, <2>14
  <2> QED BY <2>2, <2>3, <2>15
<1> QED BY <1>1, TypeCorrect, PTL
=============================================================================
