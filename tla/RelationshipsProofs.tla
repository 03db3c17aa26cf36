------------------------ MODULE RelationshipsProofs ------------------------
(***************************************************************************)
(* Proofs about Relationships and Tenancy, for every number of clients,    *)
(* every plan, every sequence of schemas and both engines: what is stored  *)
(* is valid, pages are whole, a snap token shows the same rows for ever,   *)
(* and the answers about tenants add up.                                   *)
(***************************************************************************)
EXTENDS Relationships, SequenceTheorems, FunctionTheorems, FiniteSetTheorems,
        WellFoundedInduction, TLAPS

(***************************************************************************)
(* The inductive invariant.                                                *)
(***************************************************************************)

CallFields == {"at", "err", "token", "got", "stay", "version", "since", "snap", "snapshot"}
RowFields == {"id", "tenant", "tuple", "created", "expired", "by"}

Shapes == /\ plan \in Plans
          /\ call = [c \in Callers |-> call[c]]
          /\ \A c \in Callers : call[c] = [x \in CallFields |-> call[c][x]]
          /\ versions \in [Tenants -> Nat]
          /\ nextId \in Nat \ {0} /\ nextXid \in Nat \ {0}
          /\ IsFiniteSet(rows)
          /\ IsFiniteSet(tenants) /\ tenants \subseteq Nat \ {0}

\* The version of a write is the one it named or one no older than the head
\* when it asked, and no user of its tuples has a relation.
Named(c) == /\ call[c].version \in Nat \ {0}
            /\ call[c].version = plan[c].version \/ call[c].version >= call[c].since
            /\ \A i \in DOMAIN plan[c].tuples :
                  IsSubjectUser(plan[c].tuples[i]) => plan[c].tuples[i].srel = ""

\* Its tuples passed that version.
Passed(c) == /\ Named(c)
             /\ call[c].version <= versions[plan[c].tenant]
             /\ WriteError(Schemas[plan[c].tenant][call[c].version], Tuples(c)) = ""

Writing(c) == /\ call[c].at = "pinned" => Named(c)
              /\ call[c].at \in {"insert", "commit"} => Passed(c)

Writers == \A c \in Callers : plan[c].kind = "write" => Writing(c)

\* Where a row comes from.
Origin(r) == /\ r.by \in Callers /\ plan[r.by].kind = "write"
             /\ call[r.by].at \in {"commit", "done"} /\ Passed(r.by)
             /\ r.tenant = plan[r.by].tenant
             /\ \E i \in DOMAIN plan[r.by].tuples : r.tuple = Tuples(r.by)[i]

RowOK(r) == /\ r = [x \in RowFields |-> r[x]]
            /\ r.id \in Nat \ {0} /\ r.id < nextId
            /\ r.created \in Nat /\ r.created < nextXid

Rows == /\ \A r \in rows : RowOK(r) /\ Origin(r)
        /\ \A r, s \in rows : r.id = s.id => r = s

\* The transactions: what has not committed is in no snapshot.
Open(c) == /\ call[c].snap \in 1..(nextXid - 1)
           /\ call[c].snap \notin DOMAIN txs
           /\ call[c].snapshot \subseteq DOMAIN txs

Log == /\ DOMAIN txs \subseteq 1..(nextXid - 1)
       /\ \A x \in DOMAIN txs : txs[x].snapshot \subseteq DOMAIN txs
       /\ \A c \in Callers : Is(c, "write", "commit") => Open(c)
       /\ \A c, d \in Callers :
             Is(c, "write", "commit") /\ Is(d, "write", "commit") /\ c # d
                => call[c].snap # call[d].snap
       /\ \A c \in Callers : Is(c, "write", "done") /\ call[c].err = "" /\ engine = "postgres"
                                => call[c].snap \in DOMAIN txs

\* A listing between two pages has all the keys before its token.
Ordered(s) == /\ s \in Seq(Nat)
              /\ \A i, j \in DOMAIN s : i < j => s[i] < s[j]

Turn(c) ==
    /\ Ordered(call[c].got)
    /\ call[c].at \in {"new", "paging", "done"}
    /\ call[c].at = "new" => call[c].got = <<>> /\ call[c].token = 0 /\ call[c].err = ""
    /\ call[c].at = "paging" =>
          /\ call[c].token \in Nat /\ call[c].err = ""
          /\ \A k \in ToSet(call[c].got) : k < call[c].token
          /\ \A k \in call[c].stay : k \in Nat /\ (k < call[c].token => k \in ToSet(call[c].got))
    /\ call[c].at = "done" /\ call[c].err = "" => call[c].stay \subseteq ToSet(call[c].got)

Turns == \A c \in Callers : plan[c].kind \in {"list", "read"} => Turn(c)

\* The rows a reader has are rows of its filter; ids are not used again.
Mine(c, r) == /\ FilterQuery(plan[c].filter, r.tuple)
              /\ \/ r.tenant = plan[c].tenant
                 \/ engine = "memory" /\ (r.tenant > plan[c].tenant \/ plan[c].filter.type = "")

Reading(c) == /\ \A k \in ToSet(call[c].got) : k < nextId
              /\ \A r \in rows : r.id \in ToSet(call[c].got) => Mine(c, r)

Reads == \A c \in Callers : plan[c].kind = "read" => Reading(c)

\* A reader at one snap token selects the same rows for every page.
Shown(c) == Ids(View(plan[c].tenant, plan[c].filter, call[plan[c].after].snap))

AtToken(c) == /\ call[plan[c].after].at = "done" /\ call[plan[c].after].err = ""
              /\ call[c].stay = Shown(c)
              /\ ToSet(call[c].got) \subseteq Shown(c)

Token(c) == (/\ engine = "postgres" /\ Pinned(c)
             /\ call[c].at \in {"paging", "done"} /\ call[c].err = "") => AtToken(c)

Tokens == \A c \in Callers : plan[c].kind = "read" => Token(c)

IInv == /\ Shapes /\ Writers /\ Rows /\ Log
        /\ Turns /\ Reads /\ Tokens /\ TenantsBalanced

-----------------------------------------------------------------------------
(* Pages. *)

Rank(S, k) == Cardinality({j \in S : j <= k})

\* The ranks of a finite set of numbers are 1 to its size, in its order.
LEMMA Ranks ==
    ASSUME NEW S, IsFiniteSet(S), S \subseteq Nat
    PROVE  /\ Cardinality(S) \in Nat
           /\ \A k \in S : Rank(S, k) \in 1..Cardinality(S)
           /\ \A k, m \in S : k < m => Rank(S, k) < Rank(S, m)
           /\ \A n \in 1..Cardinality(S) : \E k \in S : Rank(S, k) = n
<1> DEFINE n == Cardinality(S)
           Upto(k) == {j \in S : j <= k}
<1>1. n \in Nat
  BY FS_CardinalityType
<1>2. ASSUME NEW k \in S
      PROVE  IsFiniteSet(Upto(k)) /\ Rank(S, k) \in Nat /\ Rank(S, k) \in 1..n
  <2>1. Upto(k) \in SUBSET S /\ k \in Upto(k)
    OBVIOUS
  <2>2. IsFiniteSet(Upto(k)) /\ Cardinality(Upto(k)) <= n
    BY <2>1, FS_Subset
  <2>3. Cardinality(Upto(k)) \in Nat /\ Cardinality(Upto(k)) # 0
    BY <2>1, <2>2, FS_CardinalityType, FS_EmptySet
  <2>4. Rank(S, k) = Cardinality(Upto(k))
    BY DEF Rank
  <2> HIDE DEF Upto, n
  <2> QED
    BY <1>1, <2>2, <2>3, <2>4
<1>3. ASSUME NEW k \in S, NEW m \in S, k < m
      PROVE  Rank(S, k) < Rank(S, m)
  <2>1. /\ \A j \in S : j <= k => j <= m
        /\ m <= m /\ ~(m <= k)
    BY <1>3
  <2>2. Upto(k) \subseteq Upto(m) /\ m \in Upto(m) /\ m \notin Upto(k)
    BY <2>1
  <2>3. Cardinality(Upto(k)) <= Cardinality(Upto(m)) /\ Cardinality(Upto(k)) # Cardinality(Upto(m))
    BY <1>2, <2>2, FS_Subset
  <2>4. Rank(S, k) = Cardinality(Upto(k)) /\ Rank(S, m) = Cardinality(Upto(m))
    BY DEF Rank
  <2>5. Rank(S, k) \in Nat /\ Rank(S, m) \in Nat
    BY <1>2
  <2> HIDE DEF Upto
  <2> QED
    BY <2>3, <2>4, <2>5
<1>4. \A i \in 1..n : \E k \in S : Rank(S, k) = i
  <2> DEFINE f == [k \in S |-> Rank(S, k)]
  <2>1. f \in [S -> 1..n]
    BY <1>2
  <2>2. ASSUME NEW k \in S, NEW m \in S, f[k] = f[m]
        PROVE  k = m
    <3>1. Rank(S, k) = Rank(S, m) /\ Rank(S, k) \in 1..n
      BY <1>2, <2>2
    <3>2. ~(k < m) /\ ~(m < k)
      BY <1>1, <1>3, <3>1
    <3> QED
      BY <3>2
  <2>3. f \in Injection(S, 1..n)
    BY <2>1, <2>2, Fun_IsInj
  <2>4. IsFiniteSet(1..n) /\ Cardinality(1..n) = n
    BY <1>1, FS_Interval
  <2>5. f \in Surjection(S, 1..n)
    BY <2>3, <2>4, FS_Injection
  <2> HIDE DEF f
  <2>6. \A i \in 1..n : \E k \in S : f[k] = i
    BY <2>5, Fun_SurjectionProperties
  <2> QED
    BY <2>6 DEF f
<1> QED
  BY <1>1, <1>2, <1>3, <1>4

\* Ascending lists a finite set of numbers in its order.
LEMMA AscendingLists ==
    ASSUME NEW S, IsFiniteSet(S), S \subseteq Nat
    PROVE  /\ Cardinality(S) \in Nat
           /\ Ascending(S) = [i \in 1..Cardinality(S) |-> Ascending(S)[i]]
           /\ \A i \in 1..Cardinality(S) : Ascending(S)[i] \in S
           /\ \A i, j \in 1..Cardinality(S) : i < j => Ascending(S)[i] < Ascending(S)[j]
           /\ \A k \in S : \E i \in 1..Cardinality(S) : Ascending(S)[i] = k
<1> DEFINE n == Cardinality(S)
           s == Ascending(S)
<1>1. n \in Nat
  BY Ranks
<1>2. s = [i \in 1..n |-> s[i]]
  BY DEF Ascending
<1>3. ASSUME NEW i \in 1..n
      PROVE  s[i] \in S /\ Rank(S, s[i]) = i
  <2>1. s[i] = CHOOSE k \in S : Rank(S, k) = i
    BY DEF Ascending, Rank
  <2>2. \E k \in S : Rank(S, k) = i
    BY Ranks
  <2> HIDE DEF s
  <2> QED
    BY <2>1, <2>2
<1>4. ASSUME NEW i \in 1..n, NEW j \in 1..n, i < j
      PROVE  s[i] < s[j]
  <2>1. /\ s[i] \in S /\ Rank(S, s[i]) = i /\ s[i] \in Nat
        /\ s[j] \in S /\ Rank(S, s[j]) = j /\ s[j] \in Nat
    BY <1>3
  <2>2. s[j] < s[i] => Rank(S, s[j]) < Rank(S, s[i])
    BY <2>1, Ranks
  <2> DEFINE a == s[i]
             b == s[j]
  <2> HIDE DEF a, b
  <2>3. a \in Nat /\ b \in Nat /\ a # b /\ ~(b < a)
    BY <1>1, <1>4, <2>1, <2>2 DEF a, b
  <2>4. a < b
    BY <2>3
  <2> QED
    BY <2>4 DEF a, b
<1>5. ASSUME NEW k \in S
      PROVE  \E i \in 1..n : s[i] = k
  <2> DEFINE i == Rank(S, k)
  <2>1. i \in 1..n
    BY Ranks
  <2>2. s[i] \in S /\ Rank(S, s[i]) = i
    BY <1>3, <2>1
  <2>3. (s[i] < k => Rank(S, s[i]) < Rank(S, k)) /\ (k < s[i] => Rank(S, k) < Rank(S, s[i]))
    BY <2>2, Ranks
  <2>4. s[i] \in Nat /\ k \in Nat
    BY <2>2
  <2> HIDE DEF s, i
  <2> QED
    BY <1>1, <2>1, <2>2, <2>3, <2>4 DEF i
<1> QED
  BY <1>1, <1>2, <1>3, <1>4, <1>5

\* A page: the keys from the token on up to the next token, or to the end.
LEMMA PageHolds ==
    ASSUME NEW S, IsFiniteSet(S), S \subseteq Nat \ {0}, NEW token \in Nat,
           NEW size \in Nat \ {0}, NEW page, page = Page(S, token, size)
    PROVE  /\ Ordered(page.keys)
           /\ \A k \in ToSet(page.keys) : k \in S /\ k >= token
           /\ page.token \in Nat
           /\ page.token = 0 => \A k \in S : k >= token => k \in ToSet(page.keys)
           /\ page.token # 0 =>
                 /\ page.token >= token
                 /\ \A k \in ToSet(page.keys) : k < page.token
                 /\ \A k \in S : k >= token /\ k < page.token => k \in ToSet(page.keys)
<1> DEFINE R == {k \in S : k >= token}
           n == Cardinality(R)
           s == Ascending(R)
           m == IF size < n THEN size ELSE n
<1>1. IsFiniteSet(R) /\ R \subseteq Nat /\ \A k \in R : k \in S /\ k # 0 /\ k >= token
  BY FS_Subset
<1>2. /\ n \in Nat
      /\ s = [i \in 1..n |-> s[i]]
      /\ \A i \in 1..n : s[i] \in R
      /\ \A i, j \in 1..n : i < j => s[i] < s[j]
      /\ \A k \in R : \E i \in 1..n : s[i] = k
  BY <1>1, AscendingLists
<1> HIDE DEF n, s
<1>3. s \in Seq(Nat) /\ Len(s) = n
  BY <1>1, <1>2
<1>4. /\ page.keys = SubSeq(s, 1, m)
      /\ page.token = IF n > size THEN s[size + 1] ELSE 0
  BY <1>3 DEF Page, Absent, s
<1>5. m \in Nat /\ m <= n /\ (n > size => m = size /\ size + 1 \in 1..n) /\ (~(n > size) => m = n)
  BY <1>2
<1> HIDE DEF m, R
<1>6. /\ page.keys \in Seq(Nat) /\ Len(page.keys) = m
      /\ \A i \in 1..m : page.keys[i] = s[i]
  <2>1. \A i \in 1..m : s[i] \in Nat
    BY <1>1, <1>2, <1>5
  <2> QED
    BY <1>4, <1>5, <2>1, SubSeqProperties
<1>7. /\ DOMAIN page.keys = 1..m
      /\ ToSet(page.keys) = {s[i] : i \in 1..m}
  BY <1>6 DEF ToSet
<1>8. Ordered(page.keys)
  <2>1. ASSUME NEW i \in 1..m, NEW j \in 1..m, i < j
        PROVE  page.keys[i] < page.keys[j]
    <3>1. i \in 1..n /\ j \in 1..n
      BY <1>2, <1>5
    <3> QED
      BY <1>2, <1>6, <2>1, <3>1
  <2> QED
    BY <1>6, <1>7, <2>1 DEF Ordered
<1>9. \A k \in ToSet(page.keys) : k \in S /\ k >= token
  <2>1. 1..m \subseteq 1..n
    BY <1>2, <1>5
  <2> QED
    BY <1>1, <1>2, <1>7, <2>1
<1>10. CASE ~(n > size)
  <2>1. page.token = 0 /\ m = n
    BY <1>4, <1>5, <1>10
  <2>2. ASSUME NEW k \in S, k >= token
        PROVE  k \in ToSet(page.keys)
    BY <1>2, <1>7, <2>1, <2>2 DEF R
  <2> QED
    BY <1>8, <1>9, <2>1, <2>2
<1>11. CASE n > size
  <2>1. page.token = s[size + 1] /\ m = size /\ size + 1 \in 1..n
    BY <1>4, <1>5, <1>11
  <2>2. page.token \in R
    BY <1>2, <2>1
  <2>3. page.token \in Nat /\ page.token # 0 /\ page.token >= token
    BY <1>1, <2>2
  <2>4. ASSUME NEW i \in 1..m
        PROVE  s[i] < page.token
    BY <1>2, <1>5, <2>1
  <2>5. ASSUME NEW k \in S, k >= token, k < page.token
        PROVE  k \in ToSet(page.keys)
    <3>1. PICK i \in 1..n : s[i] = k
      BY <1>2, <2>5 DEF R
    <3>2. ~(i > size)
      <4> SUFFICES ASSUME i > size PROVE FALSE
        OBVIOUS
      <4>1. i = size + 1 \/ size + 1 < i
        BY <1>2
      <4>2. k = page.token \/ page.token < k
        BY <1>2, <2>1, <3>1, <4>1
      <4>3. k \in Nat
        OBVIOUS
      <4> QED
        BY <2>3, <2>5, <4>2, <4>3
    <3>3. i \in 1..m
      BY <1>2, <2>1, <3>1, <3>2
    <3> QED
      BY <1>7, <3>1, <3>3
  <2> QED
    BY <1>7, <1>8, <1>9, <2>3, <2>4, <2>5
<1> QED
  BY <1>10, <1>11

\* Pages put together.
LEMMA PagesJoin ==
    ASSUME NEW s, NEW t, Ordered(s), Ordered(t),
           \A k \in ToSet(s), l \in ToSet(t) : k < l
    PROVE  Ordered(s \o t) /\ ToSet(s \o t) = ToSet(s) \cup ToSet(t)
<1> DEFINE m == Len(s)
           n == Len(t)
           u == s \o t
<1>1. /\ s \in Seq(Nat) /\ m \in Nat /\ DOMAIN s = 1..m
      /\ t \in Seq(Nat) /\ n \in Nat /\ DOMAIN t = 1..n
  BY LenProperties DEF Ordered
<1>2. /\ u \in Seq(Nat) /\ Len(u) = m + n
      /\ \A i \in 1..(m + n) : u[i] = IF i <= m THEN s[i] ELSE t[i - m]
  BY <1>1, ConcatProperties
<1>3. DOMAIN u = 1..(m + n)
  BY <1>2, LenProperties
<1> HIDE DEF u, m, n
<1>4. /\ \A i \in 1..m : u[i] = s[i]
      /\ \A i \in 1..n : u[m + i] = t[i]
      /\ \A i \in 1..(m + n) : i \in 1..m \/ \E j \in 1..n : i = m + j
  <2>1. ASSUME NEW i \in 1..m
        PROVE  u[i] = s[i]
    <3>1. i \in 1..(m + n) /\ i <= m
      BY <1>1
    <3> QED
      BY <1>2, <3>1
  <2>2. ASSUME NEW i \in 1..n
        PROVE  u[m + i] = t[i]
    <3>1. m + i \in 1..(m + n) /\ ~(m + i <= m) /\ (m + i) - m = i
      BY <1>1
    <3> QED
      BY <1>2, <3>1
  <2>3. ASSUME NEW i \in 1..(m + n), ~(i \in 1..m)
        PROVE  \E j \in 1..n : i = m + j
    <3>1. i - m \in 1..n /\ i = m + (i - m)
      BY <1>1, <2>3
    <3> QED
      BY <3>1
  <2> QED
    BY <2>1, <2>2, <2>3
<1>5. ToSet(u) = ToSet(s) \cup ToSet(t)
  <2>1. ToSet(s) = {s[i] : i \in 1..m} /\ ToSet(t) = {t[i] : i \in 1..n}
    BY <1>1 DEF ToSet
  <2>2. ToSet(u) = {u[i] : i \in 1..(m + n)}
    BY <1>3 DEF ToSet
  <2>3. ToSet(u) \subseteq ToSet(s) \cup ToSet(t)
    BY <1>4, <2>1, <2>2
  <2>4. 1..m \subseteq 1..(m + n) /\ \A i \in 1..n : m + i \in 1..(m + n)
    BY <1>1
  <2>5. ToSet(s) \subseteq ToSet(u)
    BY <1>4, <2>1, <2>2, <2>4
  <2>6. ToSet(t) \subseteq ToSet(u)
    BY <1>4, <2>1, <2>2, <2>4
  <2> QED
    BY <2>3, <2>5, <2>6
<1>6. ASSUME NEW i \in DOMAIN u, NEW j \in DOMAIN u, i < j
      PROVE  u[i] < u[j]
  <2>1. CASE i \in 1..m /\ j \in 1..m
    BY <1>1, <1>4, <1>6, <2>1 DEF Ordered
  <2>2. CASE \E a \in 1..n : i = m + a
    <3>1. PICK a \in 1..n : i = m + a
      BY <2>2
    <3>2. ~(j \in 1..m)
      BY <1>1, <1>6, <3>1
    <3>3. PICK b \in 1..n : j = m + b
      BY <1>3, <1>4, <3>2
    <3>4. a < b
      BY <1>1, <1>6, <3>1, <3>3
    <3> QED
      BY <1>1, <1>4, <3>1, <3>3, <3>4 DEF Ordered
  <2>3. CASE i \in 1..m /\ \E b \in 1..n : j = m + b
    <3>1. PICK b \in 1..n : j = m + b
      BY <2>3
    <3>2. s[i] \in ToSet(s) /\ t[b] \in ToSet(t)
      BY <1>1, <2>3 DEF ToSet
    <3> QED
      BY <1>4, <2>3, <3>1, <3>2
  <2> QED
    BY <1>3, <1>4, <2>1, <2>2, <2>3
<1> QED
  BY <1>2, <1>5, <1>6 DEF Ordered, u

-----------------------------------------------------------------------------
(* Validation. *)

\* Every set of numbers has a least one.
LEMMA Least ==
    ASSUME NEW S, S \subseteq Nat, S # {}
    PROVE  \E k \in S : \A j \in S : k <= j
<1>1. PICK k \in S : \A j \in S : ~(<<j, k>> \in OpToRel(<, Nat))
  BY WFMin, NatLessThanWellFounded, Zenon
<1>2. ASSUME NEW j \in S
      PROVE  k <= j
  <2>1. ~(j < k)
    BY <1>1 DEF OpToRel
  <2> QED
    BY <2>1
<1> QED
  BY <1>2

\* A write that is not refused has no tuple with an error.
LEMMA NoneRefused ==
    ASSUME NEW schema, NEW tuples, DOMAIN tuples \subseteq Nat, WriteError(schema, tuples) = ""
    PROVE  \A i \in DOMAIN tuples : TupleError(schema, tuples[i]) = ""
<1> DEFINE bad == {i \in DOMAIN tuples : TupleError(schema, tuples[i]) # ""}
           first == CHOOSE i \in bad : \A j \in bad : i <= j
<1>1. ASSUME bad # {}
      PROVE  FALSE
  <2>1. \E i \in bad : \A j \in bad : i <= j
    <3>1. bad \subseteq Nat
      OBVIOUS
    <3> HIDE DEF bad
    <3> QED
      BY <1>1, <3>1, Least
  <2>2. first \in bad
    <3> HIDE DEF bad
    <3> QED
      BY <2>1
  <2>3. WriteError(schema, tuples) = TupleError(schema, tuples[first])
    BY <1>1 DEF WriteError
  <2> QED
    BY <2>2, <2>3
<1> QED
  BY <1>1

\* A normalized tuple without an error is one that the schema allows.
LEMMA ValidIsAllowed ==
    ASSUME NEW schema, NEW u, DOMAIN u = TupleFields, IsSubjectUser(u) => u.srel = "",
           NEW t, t = Normalized(u), TupleError(schema, t) = ""
    PROVE  Allows(schema, t)
<1>1. /\ t.type = u.type /\ t.id = u.id /\ t.relation = u.relation
      /\ t.stype = u.stype /\ t.sid = u.sid
      /\ t.srel = IF u.stype # USER /\ u.srel = "" THEN ELLIPSIS ELSE u.srel
  BY DEF Normalized, IsSubjectUser, TupleFields
<1>2. t.type \in DOMAIN schema
  BY DEF TupleError
<1>3. ~IsEntityAndSubjectEquals(t)
  BY <1>2 DEF TupleError
<1>4. t.relation \in DOMAIN schema[t.type]
  BY <1>2, <1>3 DEF TupleError
<1>5. SubjectKey(t) \in schema[t.type][t.relation]
  BY <1>2, <1>3, <1>4 DEF TupleError, ValidateSubjectType
<1> DEFINE ref == SubjectKey(t)
<1>6. /\ ref.type = t.stype
      /\ ref.relation = IF t.stype = USER \/ t.srel = ELLIPSIS THEN "" ELSE t.srel
  BY DEF SubjectKey, IsSubjectUser
<1>7. t.srel = IF ref.relation # "" THEN ref.relation
               ELSE IF ref.type = USER THEN "" ELSE ELLIPSIS
  <2>1. CASE t.stype = USER
    BY <1>1, <1>6, <2>1 DEF IsSubjectUser
  <2>2. CASE t.stype # USER
    BY <1>1, <1>6, <2>2 DEF ELLIPSIS
  <2> QED
    BY <2>1, <2>2
<1>8. <<t.type, t.id, t.relation>> # <<t.stype, t.sid, t.srel>>
  BY <1>3 DEF IsEntityAndSubjectEquals
<1> QED
  BY <1>2, <1>4, <1>5, <1>6, <1>7, <1>8 DEF Allows

\* What the plans are like.
LEMMA PlanHolds ==
    ASSUME plan \in Plans, NEW c \in Callers
    PROVE  /\ plan[c].size \in Nat \ {0}
           /\ plan[c].kind = "create" => plan[c].id \in Nat \ {0}
           /\ plan[c].tenant \in Tenants /\ plan[c].tenant \in Nat /\ plan[c].version \in Nat
           /\ Len(plan[c].tuples) \in Nat /\ DOMAIN plan[c].tuples = 1..Len(plan[c].tuples)
           /\ \A i \in DOMAIN plan[c].tuples : DOMAIN plan[c].tuples[i] = TupleFields
           /\ plan[c].kind = "read" /\ Pinned(c) => plan[plan[c].after].kind = "write"
  BY PlanAssumption, RelationAssumption DEF Pinned, Absent

\* A write that passed stores tuples that its version allows.
LEMMA PassedIsAllowed ==
    ASSUME plan \in Plans, NEW c \in Callers, Passed(c), NEW i \in DOMAIN plan[c].tuples
    PROVE  Allows(Schemas[plan[c].tenant][call[c].version], Tuples(c)[i])
<1> DEFINE schema == Schemas[plan[c].tenant][call[c].version]
           u == plan[c].tuples[i]
<1>1. DOMAIN plan[c].tuples \subseteq Nat /\ DOMAIN u = TupleFields
  BY PlanHolds
<1>2. IsSubjectUser(u) => u.srel = ""
  BY DEF Passed, Named
<1>3. DOMAIN Tuples(c) = DOMAIN plan[c].tuples /\ Tuples(c)[i] = Normalized(u)
  BY DEF Tuples
<1>4. WriteError(schema, Tuples(c)) = ""
  BY DEF Passed
<1>5. TupleError(schema, Tuples(c)[i]) = ""
  BY <1>1, <1>3, <1>4, NoneRefused
<1> QED
  BY <1>1, <1>2, <1>3, <1>5, ValidIsAllowed

-----------------------------------------------------------------------------
(* Steps of one caller. *)

Only(c) == /\ call' = [d \in Callers |-> call'[d]]
           /\ \A d \in Callers : d # c => call'[d] = call[d]
           /\ call'[c] = [x \in CallFields |-> call'[c][x]]

\* A step that leaves the pages alone, or the version, or the transaction.
SamePages(c) == /\ call'[c].got = call[c].got /\ call'[c].token = call[c].token
                /\ call'[c].stay = call[c].stay
SameVersion(c) == call'[c].version = call[c].version /\ call'[c].since = call[c].since
SameSnap(c) == call'[c].snap = call[c].snap /\ call'[c].snapshot = call[c].snapshot

\* The new state of one call.
LEMMA OneCall ==
    ASSUME Shapes, NEW c \in Callers, NEW new, new = [x \in CallFields |-> new[x]],
           call' = [call EXCEPT ![c] = new]
    PROVE  Only(c) /\ call'[c] = new
  BY DEF Shapes, Only

LEMMA EndFacts ==
    ASSUME Shapes, NEW c \in Callers, NEW err, End(c, err)
    PROVE  /\ Only(c) /\ SamePages(c) /\ SameVersion(c) /\ SameSnap(c)
           /\ call'[c].at = "done" /\ call'[c].err = err
<1> DEFINE new == [call[c] EXCEPT !.at = "done", !.err = err]
<1>1. /\ call = [d \in Callers |-> call[d]]
      /\ call[c] = [x \in CallFields |-> call[c][x]]
  BY DEF Shapes
<1>2. /\ new = [x \in CallFields |-> new[x]]
      /\ new.at = "done" /\ new.err = err
      /\ new.got = call[c].got /\ new.token = call[c].token /\ new.stay = call[c].stay
      /\ new.version = call[c].version /\ new.since = call[c].since
      /\ new.snap = call[c].snap /\ new.snapshot = call[c].snapshot
  BY <1>1 DEF CallFields
<1>3. call' = [call EXCEPT ![c] = new]
  BY <1>1 DEF End
<1> HIDE DEF new
<1>4. Only(c) /\ call'[c] = new
  BY <1>2, <1>3, OneCall
<1> QED
  BY <1>2, <1>4 DEF SamePages, SameVersion, SameSnap

LEMMA TakePageFacts ==
    ASSUME Shapes, NEW c \in Callers, NEW selected, NEW page, TakePage(c, selected, page)
    PROVE  /\ Only(c) /\ SameVersion(c) /\ SameSnap(c)
           /\ call'[c].at = IF page.token = 0 THEN "done" ELSE "paging"
           /\ call'[c].err = call[c].err
           /\ call'[c].got = call[c].got \o page.keys
           /\ call'[c].token = page.token
           /\ call'[c].stay = IF call[c].at = "paging" THEN call[c].stay \cap selected
                              ELSE selected
<1> DEFINE new == [call[c] EXCEPT !.at = IF page.token = 0 THEN "done" ELSE "paging",
                                  !.got = @ \o page.keys,
                                  !.token = page.token,
                                  !.stay = IF call[c].at = "paging" THEN @ \cap selected
                                           ELSE selected]
<1>1. /\ call = [d \in Callers |-> call[d]]
      /\ call[c] = [x \in CallFields |-> call[c][x]]
  BY DEF Shapes
<1>2. /\ new = [x \in CallFields |-> new[x]]
      /\ new.at = IF page.token = 0 THEN "done" ELSE "paging"
      /\ new.err = call[c].err /\ new.got = call[c].got \o page.keys /\ new.token = page.token
      /\ new.stay = IF call[c].at = "paging" THEN call[c].stay \cap selected ELSE selected
      /\ new.version = call[c].version /\ new.since = call[c].since
      /\ new.snap = call[c].snap /\ new.snapshot = call[c].snapshot
  BY <1>1 DEF CallFields
<1>3. call' = [call EXCEPT ![c] = new]
  BY <1>1 DEF TakePage, Absent
<1> HIDE DEF new
<1>4. Only(c) /\ call'[c] = new
  BY <1>2, <1>3, OneCall
<1> QED
  BY <1>2, <1>4 DEF SameVersion, SameSnap

LEMMA PinFacts ==
    ASSUME Shapes, NEW c \in Callers, NEW head, NEW version,
           call' = [call EXCEPT ![c].at = "pinned", ![c].since = head, ![c].version = version]
    PROVE  /\ Only(c) /\ SamePages(c) /\ SameSnap(c)
           /\ call'[c].at = "pinned" /\ call'[c].err = call[c].err
           /\ call'[c].since = head /\ call'[c].version = version
<1> DEFINE new == [call[c] EXCEPT !.at = "pinned", !.since = head, !.version = version]
<1>1. /\ call = [d \in Callers |-> call[d]]
      /\ call[c] = [x \in CallFields |-> call[c][x]]
  BY DEF Shapes
<1>2. /\ new = [x \in CallFields |-> new[x]]
      /\ new.at = "pinned" /\ new.since = head /\ new.version = version
      /\ new.got = call[c].got /\ new.token = call[c].token /\ new.stay = call[c].stay
      /\ new.err = call[c].err
      /\ new.snap = call[c].snap /\ new.snapshot = call[c].snapshot
  BY <1>1 DEF CallFields
<1>3. call' = [call EXCEPT ![c] = new]
  BY <1>1
<1> HIDE DEF new
<1>4. Only(c) /\ call'[c] = new
  BY <1>2, <1>3, OneCall
<1> QED
  BY <1>2, <1>4 DEF SamePages, SameSnap

LEMMA ValidateFacts ==
    ASSUME Shapes, NEW c \in Callers, call' = [call EXCEPT ![c].at = "insert"]
    PROVE  /\ Only(c) /\ SamePages(c) /\ SameVersion(c) /\ SameSnap(c)
           /\ call'[c].at = "insert" /\ call'[c].err = call[c].err
<1> DEFINE new == [call[c] EXCEPT !.at = "insert"]
<1>1. /\ call = [d \in Callers |-> call[d]]
      /\ call[c] = [x \in CallFields |-> call[c][x]]
  BY DEF Shapes
<1>2. /\ new = [x \in CallFields |-> new[x]]
      /\ new.at = "insert" /\ new.err = call[c].err
      /\ new.got = call[c].got /\ new.token = call[c].token /\ new.stay = call[c].stay
      /\ new.version = call[c].version /\ new.since = call[c].since
      /\ new.snap = call[c].snap /\ new.snapshot = call[c].snapshot
  BY <1>1 DEF CallFields
<1>3. call' = [call EXCEPT ![c] = new]
  BY <1>1
<1> HIDE DEF new
<1>4. Only(c) /\ call'[c] = new
  BY <1>2, <1>3, OneCall
<1> QED
  BY <1>2, <1>4 DEF SamePages, SameVersion, SameSnap

LEMMA InsertFacts ==
    ASSUME Shapes, NEW c \in Callers, NEW x, NEW snapshot,
           call' = [call EXCEPT ![c].at = "commit", ![c].snap = x, ![c].snapshot = snapshot]
    PROVE  /\ Only(c) /\ SamePages(c) /\ SameVersion(c)
           /\ call'[c].at = "commit" /\ call'[c].err = call[c].err
           /\ call'[c].snap = x /\ call'[c].snapshot = snapshot
<1> DEFINE new == [call[c] EXCEPT !.at = "commit", !.snap = x, !.snapshot = snapshot]
<1>1. /\ call = [d \in Callers |-> call[d]]
      /\ call[c] = [y \in CallFields |-> call[c][y]]
  BY DEF Shapes
<1>2. /\ new = [y \in CallFields |-> new[y]]
      /\ new.at = "commit" /\ new.err = call[c].err
      /\ new.got = call[c].got /\ new.token = call[c].token /\ new.stay = call[c].stay
      /\ new.version = call[c].version /\ new.since = call[c].since
      /\ new.snap = x /\ new.snapshot = snapshot
  BY <1>1 DEF CallFields
<1>3. call' = [call EXCEPT ![c] = new]
  BY <1>1
<1> HIDE DEF new
<1>4. Only(c) /\ call'[c] = new
  BY <1>2, <1>3, OneCall
<1> QED
  BY <1>2, <1>4 DEF SamePages, SameVersion

-----------------------------------------------------------------------------
(* What a step of another caller leaves alone. *)

LEMMA WritersStay ==
    ASSUME Writers, NEW c \in Callers, Only(c), UNCHANGED <<plan, versions>>,
           plan[c].kind = "write" => Writing(c)'
    PROVE  Writers'
<1> SUFFICES ASSUME NEW d \in Callers, plan[d].kind = "write", d # c
             PROVE  Writing(d)'
  BY DEF Writers
<1>1. Writing(d) /\ call'[d] = call[d]
  BY DEF Writers, Only
<1> QED
  BY <1>1 DEF Writing, Passed, Named, Tuples

\* A row stays the work of a write that passed.
LEMMA OriginStays ==
    ASSUME NEW c \in Callers, Only(c), UNCHANGED <<plan, versions>>, NEW r, Origin(r),
           r.by = c => SameVersion(c) /\ call'[c].at \in {"commit", "done"}
    PROVE  Origin(r)'
<1>1. r.by # c => call'[r.by] = call[r.by]
  BY DEF Only, Origin
<1>2. /\ call'[r.by].version = call[r.by].version /\ call'[r.by].since = call[r.by].since
      /\ call'[r.by].at \in {"commit", "done"}
  BY <1>1 DEF SameVersion, Origin
<1>3. Passed(r.by)'
  BY <1>2 DEF Origin, Passed, Named, Tuples
<1> QED
  BY <1>2, <1>3 DEF Origin, Tuples

\* A row and what becomes of it when it is expired.
Like(s, r) == /\ r = [x \in RowFields |-> r[x]]
              /\ r.id = s.id /\ r.tenant = s.tenant /\ r.tuple = s.tuple
              /\ r.created = s.created /\ r.by = s.by

LEMMA TurnsStay ==
    ASSUME Turns, NEW c \in Callers, Only(c), UNCHANGED plan,
           plan[c].kind \in {"list", "read"} => Turn(c)'
    PROVE  Turns'
<1> SUFFICES ASSUME NEW d \in Callers, plan[d].kind \in {"list", "read"}, d # c
             PROVE  Turn(d)'
  BY DEF Turns
<1>1. Turn(d) /\ call'[d] = call[d]
  BY DEF Turns, Only
<1> QED
  BY <1>1 DEF Turn

LEMMA ReadingStays ==
    ASSUME NEW d \in Callers, Reading(d), Ordered(call[d].got), call'[d].got = call[d].got,
           UNCHANGED <<engine, plan>>, nextId \in Nat, nextId' \in Nat, nextId' >= nextId,
           \A r \in rows' : (\E s \in rows : Like(s, r)) \/ (r.id \in Nat /\ r.id >= nextId)
    PROVE  Reading(d)'
<1> DEFINE keys == ToSet(call[d].got)
<1>1. /\ ToSet(call'[d].got) = keys
      /\ \A k \in keys : k \in Nat /\ k < nextId
  BY DEF Reading, Ordered, ToSet
<1> HIDE DEF keys
<1>2. \A k \in keys : k < nextId'
  BY <1>1
<1>3. ASSUME NEW r \in rows', r.id \in keys
      PROVE  Mine(d, r)'
  <2>1. PICK s \in rows : Like(s, r)
    BY <1>1, <1>3
  <2>2. r.id = s.id /\ r.tenant = s.tenant /\ r.tuple = s.tuple
    BY <2>1 DEF Like
  <2>3. Mine(d, s)
    BY <1>3, <2>2 DEF Reading, keys
  <2> QED
    BY <2>2, <2>3 DEF Mine
<1> QED
  BY <1>1, <1>2, <1>3 DEF Reading

LEMMA ReadsStay ==
    ASSUME Reads, Turns, NEW c \in Callers, Only(c), UNCHANGED <<engine, plan>>,
           nextId \in Nat, nextId' \in Nat, nextId' >= nextId,
           \A r \in rows' : (\E s \in rows : Like(s, r)) \/ (r.id \in Nat /\ r.id >= nextId),
           plan[c].kind = "read" => Reading(c)'
    PROVE  Reads'
<1> SUFFICES ASSUME NEW d \in Callers, plan[d].kind = "read", d # c
             PROVE  Reading(d)'
  BY DEF Reads
<1>1. Reading(d) /\ Ordered(call[d].got) /\ call'[d].got = call[d].got
  BY DEF Reads, Turns, Turn, Only
<1> QED
  BY <1>1, ReadingStays

\* What a snap token shows never changes.
SameViews == \A x \in DOMAIN txs : \A tenant, f :
                Ids(View(tenant, f, x)') = Ids(View(tenant, f, x))

\* Committed rows stay, or expire in a transaction that is new.
Later(s, r) == /\ Like(s, r)
               /\ r.expired = s.expired \/ (s.expired = 0 /\ r.expired = nextXid)

LEMMA ViewsStay ==
    ASSUME Log, nextXid \in Nat \ {0},
           \A x \in DOMAIN txs : x \in DOMAIN txs' /\ txs'[x] = txs[x],
           \A s \in rows : s.created \in DOMAIN txs => \E r \in rows' : Later(s, r),
           \A r \in rows' : r.created \in DOMAIN txs => \E s \in rows : Later(s, r)
    PROVE  SameViews
<1> SUFFICES ASSUME NEW x \in DOMAIN txs, NEW tenant, NEW f
             PROVE  Ids(View(tenant, f, x)') = Ids(View(tenant, f, x))
  BY DEF SameViews
<1> DEFINE seen == txs[x].snapshot \cup {x}
           Sees(r) == /\ FilterQuery(f, r.tuple) /\ r.tenant = tenant
                      /\ r.created \in seen /\ r.expired \notin seen
<1>1. seen \subseteq DOMAIN txs /\ 0 \notin seen /\ nextXid \notin seen
  <2>1. seen \subseteq DOMAIN txs /\ DOMAIN txs \subseteq 1..(nextXid - 1)
    BY DEF Log
  <2>2. 0 \notin 1..(nextXid - 1) /\ nextXid \notin 1..(nextXid - 1)
    OBVIOUS
  <2> QED
    BY <2>1, <2>2
<1>2. /\ View(tenant, f, x) = {r \in rows : Sees(r)}
      /\ View(tenant, f, x)' = {r \in rows' : Sees(r)}
  BY DEF View, Matching, SnapshotQuery
<1>3. ASSUME NEW s, NEW r, Later(s, r)
      PROVE  r.id = s.id /\ (Sees(r) <=> Sees(s))
  BY <1>1, <1>3 DEF Later, Like
<1> HIDE DEF seen
<1>4. ASSUME NEW s \in rows, Sees(s)
      PROVE  \E r \in rows' : r.id = s.id /\ Sees(r)
  <2>1. s.created \in DOMAIN txs
    BY <1>1, <1>4
  <2>2. PICK r \in rows' : Later(s, r)
    BY <2>1
  <2> QED
    BY <1>3, <1>4, <2>2
<1>5. ASSUME NEW r \in rows', Sees(r)
      PROVE  \E s \in rows : r.id = s.id /\ Sees(s)
  <2>1. r.created \in DOMAIN txs
    BY <1>1, <1>5
  <2>2. PICK s \in rows : Later(s, r)
    BY <2>1
  <2> QED
    BY <1>3, <1>5, <2>2
<1> HIDE DEF Sees
<1> QED
  BY <1>2, <1>4, <1>5 DEF Ids

LEMMA TokensStay ==
    ASSUME Shapes, Log, Tokens, NEW c \in Callers, Only(c), call[c].at # "done",
           UNCHANGED <<engine, plan>>, engine = "postgres" => SameViews,
           plan[c].kind = "read" => Token(c)'
    PROVE  Tokens'
<1> SUFFICES ASSUME NEW d \in Callers, plan[d].kind = "read", d # c,
                    engine = "postgres", Pinned(d),
                    call[d].at \in {"paging", "done"}, call[d].err = ""
             PROVE  AtToken(d)'
  BY DEF Tokens, Token, Pinned, Only
<1> DEFINE a == plan[d].after
           x == call[a].snap
<1>1. AtToken(d) /\ call'[d] = call[d]
  BY DEF Tokens, Token, Only
<1>2. a \in Callers /\ plan[a].kind = "write"
  BY PlanHolds DEF Pinned, Shapes
<1>3. a # c /\ call'[a] = call[a]
  BY <1>1, <1>2 DEF AtToken, Only
<1>4. x \in DOMAIN txs
  BY <1>1, <1>2 DEF AtToken, Log, Is
<1>5. PICK tenant, f, y : tenant = plan[d].tenant /\ f = plan[d].filter /\ y = x
  OBVIOUS
<1>6. Ids(View(tenant, f, y)') = Ids(View(tenant, f, y))
  BY <1>4, <1>5 DEF SameViews
<1>7. Shown(d) = Ids(View(tenant, f, y))
  BY <1>5 DEF Shown
<1>8. Shown(d)' = Ids(View(tenant, f, y)')
  BY <1>3, <1>5 DEF Shown, Ids, View, Matching, SnapshotQuery
<1> QED
  BY <1>1, <1>3, <1>6, <1>7, <1>8 DEF AtToken

-----------------------------------------------------------------------------
(* Tenants. *)

Told(kind, id, errs) == {c \in Callers : /\ plan[c].kind = kind /\ plan[c].id = id
                                         /\ call[c].at = "done" /\ call[c].err \in errs}

Won == {""}

Lost == {"", "ERROR_CODE_EXECUTION"}

Present(id) == IF id \in tenants THEN 1 ELSE 0

InMigration(id) == IF id \in Migrated THEN 1 ELSE 0

Balanced(id) ==
    /\ Cardinality(Told("deleteTenant", id, Won)) + Present(id)
          <= Cardinality(Told("create", id, Lost)) + InMigration(id)
    /\ engine = "postgres" =>
          Cardinality(Told("create", id, Won)) + InMigration(id)
             <= Cardinality(Told("deleteTenant", id, Lost)) + Present(id)

LEMMA BalancedEach ==
    /\ TenantsBalanced <=> \A id \in {plan[c].id : c \in Callers} : Balanced(id)
    /\ TenantsBalanced' <=> \A id \in {plan'[c].id : c \in Callers} : Balanced(id)'
  BY DEF TenantsBalanced, Balanced, Told, Won, Lost, Present, InMigration

Hit(c, kind, id, errs) == IF /\ plan[c].kind = kind /\ plan[c].id = id
                             /\ call'[c].at = "done" /\ call'[c].err \in errs THEN 1 ELSE 0

\* A call that ends is one more that was told its answer.
LEMMA ToldCounts ==
    ASSUME NEW c \in Callers, Only(c), UNCHANGED plan, call[c].at # "done",
           NEW kind, NEW id, NEW errs
    PROVE  /\ Cardinality(Told(kind, id, errs)) \in Nat
           /\ Cardinality(Told(kind, id, errs)')
                 = Cardinality(Told(kind, id, errs)) + Hit(c, kind, id, errs)
<1> DEFINE n == Hit(c, kind, id, errs)
           old == Told(kind, id, errs)
           new == Told(kind, id, errs)'
<1>1. old \subseteq Callers /\ c \notin old
  BY DEF Told
<1>2. IsFiniteSet(old) /\ Cardinality(old) \in Nat
  BY <1>1, PlanAssumption, FS_Subset, FS_CardinalityType
<1>3. CASE n = 1
  <2>1. new = old \cup {c}
    BY <1>3 DEF Told, Only, Hit
  <2> QED
    BY <1>1, <1>2, <1>3, <2>1, FS_AddElement
<1>4. CASE n = 0
  <2>1. new = old
    BY <1>4 DEF Told, Only, Hit
  <2> QED
    BY <1>2, <1>4, <2>1
<1> QED
  BY <1>3, <1>4 DEF Hit

\* What a call about tenants may do to them.
TenantEffect(c) ==
    \/ plan[c].kind \notin {"create", "deleteTenant"} /\ tenants' = tenants
    \/ /\ plan[c].kind = "create" /\ call'[c].at = "done"
       /\ \/ /\ call'[c].err = "" /\ tenants' = tenants \cup {plan[c].id}
             /\ engine = "postgres" => plan[c].id \notin tenants
          \/ call'[c].err = "ERROR_CODE_UNIQUE_CONSTRAINT" /\ tenants' = tenants
          \/ /\ call'[c].err = "ERROR_CODE_EXECUTION"
             /\ tenants' \in {tenants, tenants \cup {plan[c].id}}
    \/ /\ plan[c].kind = "deleteTenant" /\ call'[c].at = "done"
       /\ \/ /\ call'[c].err = "" /\ tenants' = tenants \ {plan[c].id}
             /\ plan[c].id \in tenants
          \/ call'[c].err = "panic" /\ tenants' = tenants /\ engine # "postgres"
          \/ /\ call'[c].err = "ERROR_CODE_EXECUTION"
             /\ tenants' \in {tenants, tenants \ {plan[c].id}}

LEMMA Shift ==
    ASSUME NEW a \in Nat, NEW b \in Nat, NEW p \in Nat, NEW x \in Nat, NEW y \in Nat, NEW q \in Nat,
           NEW m \in Nat
    PROVE  /\ a + p <= b + m /\ x + q <= y + p => (a + x) + q <= (b + y) + m
           /\ a + m <= b + p /\ x + p <= y + q => (a + x) + m <= (b + y) + q
  OBVIOUS

\* An answer is worth what the call did to the tenant.
LEMMA EffectPays ==
    ASSUME NEW c \in Callers, TenantEffect(c), NEW id
    PROVE  /\ Hit(c, "deleteTenant", id, Won) + Present(id)'
                 <= Hit(c, "create", id, Lost) + Present(id)
           /\ engine = "postgres" =>
                 Hit(c, "create", id, Won) + Present(id)
                    <= Hit(c, "deleteTenant", id, Lost) + Present(id)'
<1>1. /\ Present(id) = IF id \in tenants THEN 1 ELSE 0
      /\ Present(id)' = IF id \in tenants' THEN 1 ELSE 0
  BY DEF Present
<1>2. CASE plan[c].kind \notin {"create", "deleteTenant"} \/ plan[c].id # id
  <2>1. /\ Hit(c, "deleteTenant", id, Won) = 0 /\ Hit(c, "deleteTenant", id, Lost) = 0
        /\ Hit(c, "create", id, Won) = 0 /\ Hit(c, "create", id, Lost) = 0
    BY <1>2 DEF Hit
  <2>2. \/ tenants' = tenants
        \/ plan[c].id # id /\ tenants' \in {tenants \cup {plan[c].id}, tenants \ {plan[c].id}}
    BY <1>2 DEF TenantEffect
  <2>3. id \in tenants' <=> id \in tenants
    BY <2>2
  <2> QED
    BY <1>1, <2>1, <2>3
<1>3. CASE plan[c].kind = "create" /\ plan[c].id = id
  <2>1. /\ Hit(c, "deleteTenant", id, Won) = 0 /\ Hit(c, "deleteTenant", id, Lost) = 0
        /\ call'[c].at = "done"
    BY <1>3 DEF Hit, TenantEffect
  <2>2. CASE call'[c].err = ""
    <3>1. Hit(c, "create", id, Won) = 1 /\ Hit(c, "create", id, Lost) = 1
      BY <1>3, <2>1, <2>2 DEF Hit, Won, Lost
    <3>2. id \in tenants' /\ (engine = "postgres" => id \notin tenants)
      BY <1>3, <2>2 DEF TenantEffect
    <3> QED
      BY <1>1, <2>1, <3>1, <3>2
  <2>3. CASE call'[c].err = "ERROR_CODE_UNIQUE_CONSTRAINT"
    <3>1. Hit(c, "create", id, Won) = 0 /\ Hit(c, "create", id, Lost) = 0
      BY <1>3, <2>1, <2>3 DEF Hit, Won, Lost
    <3>2. id \in tenants' <=> id \in tenants
      BY <1>3, <2>3 DEF TenantEffect
    <3> QED
      BY <1>1, <2>1, <3>1, <3>2
  <2>4. CASE call'[c].err = "ERROR_CODE_EXECUTION"
    <3>1. Hit(c, "create", id, Won) = 0 /\ Hit(c, "create", id, Lost) = 1
      BY <1>3, <2>1, <2>4 DEF Hit, Won, Lost
    <3>2. id \in tenants => id \in tenants'
      BY <1>3, <2>4 DEF TenantEffect
    <3> QED
      BY <1>1, <2>1, <3>1, <3>2
  <2> QED
    BY <1>3, <2>2, <2>3, <2>4 DEF TenantEffect
<1>4. CASE plan[c].kind = "deleteTenant" /\ plan[c].id = id
  <2>1. /\ Hit(c, "create", id, Won) = 0 /\ Hit(c, "create", id, Lost) = 0
        /\ call'[c].at = "done"
    BY <1>4 DEF Hit, TenantEffect
  <2>2. CASE call'[c].err = ""
    <3>1. Hit(c, "deleteTenant", id, Won) = 1 /\ Hit(c, "deleteTenant", id, Lost) = 1
      BY <1>4, <2>1, <2>2 DEF Hit, Won, Lost
    <3>2. id \in tenants /\ id \notin tenants'
      BY <1>4, <2>2 DEF TenantEffect
    <3> QED
      BY <1>1, <2>1, <3>1, <3>2
  <2>3. CASE call'[c].err = "panic"
    <3>1. Hit(c, "deleteTenant", id, Won) = 0 /\ Hit(c, "deleteTenant", id, Lost) = 0
      BY <1>4, <2>1, <2>3 DEF Hit, Won, Lost
    <3>2. id \in tenants' <=> id \in tenants
      BY <1>4, <2>3 DEF TenantEffect
    <3> QED
      BY <1>1, <2>1, <3>1, <3>2
  <2>4. CASE call'[c].err = "ERROR_CODE_EXECUTION"
    <3>1. Hit(c, "deleteTenant", id, Won) = 0 /\ Hit(c, "deleteTenant", id, Lost) = 1
      BY <1>4, <2>1, <2>4 DEF Hit, Won, Lost
    <3>2. id \in tenants' => id \in tenants
      BY <1>4, <2>4 DEF TenantEffect
    <3> QED
      BY <1>1, <2>1, <3>1, <3>2
  <2> QED
    BY <1>4, <2>2, <2>3, <2>4 DEF TenantEffect
<1> QED
  BY <1>2, <1>3, <1>4

LEMMA BalancedKeeps ==
    ASSUME NEW c \in Callers, Only(c), UNCHANGED <<engine, plan>>, call[c].at # "done",
           TenantEffect(c), TenantsBalanced
    PROVE  TenantsBalanced'
<1> SUFFICES ASSUME NEW id \in {plan[d].id : d \in Callers}
             PROVE  Balanced(id)'
  BY BalancedEach
<1>1. Balanced(id)
  BY BalancedEach
<1>2. /\ Present(id) \in Nat /\ Present(id)' \in Nat
      /\ InMigration(id) \in Nat /\ InMigration(id)' = InMigration(id)
      /\ Hit(c, "deleteTenant", id, Won) \in Nat /\ Hit(c, "create", id, Lost) \in Nat
      /\ Hit(c, "deleteTenant", id, Lost) \in Nat /\ Hit(c, "create", id, Won) \in Nat
  BY DEF Present, Hit, InMigration, Migrated
<1>3. Cardinality(Told("deleteTenant", id, Won)') + Present(id)'
         <= Cardinality(Told("create", id, Lost)') + InMigration(id)
  <2>1. /\ Cardinality(Told("deleteTenant", id, Won)) \in Nat
        /\ Cardinality(Told("deleteTenant", id, Won)')
              = Cardinality(Told("deleteTenant", id, Won)) + Hit(c, "deleteTenant", id, Won)
        /\ Cardinality(Told("create", id, Lost)) \in Nat
        /\ Cardinality(Told("create", id, Lost)')
              = Cardinality(Told("create", id, Lost)) + Hit(c, "create", id, Lost)
    BY ToldCounts
  <2>2. Cardinality(Told("deleteTenant", id, Won)) + Present(id)
           <= Cardinality(Told("create", id, Lost)) + InMigration(id)
    BY <1>1 DEF Balanced
  <2>3. Hit(c, "deleteTenant", id, Won) + Present(id)' <= Hit(c, "create", id, Lost) + Present(id)
    BY EffectPays
  <2> QED
    BY <1>2, <2>1, <2>2, <2>3, Shift
<1>4. ASSUME engine = "postgres"
      PROVE  Cardinality(Told("create", id, Won)') + InMigration(id)
                <= Cardinality(Told("deleteTenant", id, Lost)') + Present(id)'
  <2>1. /\ Cardinality(Told("deleteTenant", id, Lost)) \in Nat
        /\ Cardinality(Told("deleteTenant", id, Lost)')
              = Cardinality(Told("deleteTenant", id, Lost)) + Hit(c, "deleteTenant", id, Lost)
        /\ Cardinality(Told("create", id, Won)) \in Nat
        /\ Cardinality(Told("create", id, Won)')
              = Cardinality(Told("create", id, Won)) + Hit(c, "create", id, Won)
    BY ToldCounts
  <2>2. Cardinality(Told("create", id, Won)) + InMigration(id)
           <= Cardinality(Told("deleteTenant", id, Lost)) + Present(id)
    BY <1>1, <1>4 DEF Balanced
  <2>3. Hit(c, "create", id, Won) + Present(id) <= Hit(c, "deleteTenant", id, Lost) + Present(id)'
    BY <1>4, EffectPays
  <2> QED
    BY <1>2, <2>1, <2>2, <2>3, Shift
<1> QED
  BY <1>2, <1>3, <1>4 DEF Balanced

-----------------------------------------------------------------------------
(* The parts of the invariant, after a step of one caller. *)

LEMMA TenantsShape ==
    ASSUME Shapes, NEW c \in Callers, TenantEffect(c)
    PROVE  IsFiniteSet(tenants') /\ tenants' \subseteq Nat \ {0}
<1>1. IsFiniteSet(tenants) /\ tenants \subseteq Nat \ {0}
  BY DEF Shapes
<1>2. plan[c].kind = "create" => plan[c].id \in Nat \ {0}
  BY PlanHolds DEF Shapes
<1>3. \/ tenants' = tenants
      \/ plan[c].kind = "create" /\ tenants' = tenants \cup {plan[c].id}
      \/ tenants' = tenants \ {plan[c].id}
  BY DEF TenantEffect
<1>4. CASE tenants' = tenants
  BY <1>1, <1>4
<1>5. CASE plan[c].kind = "create" /\ tenants' = tenants \cup {plan[c].id}
  <2>1. IsFiniteSet(tenants')
    BY <1>1, <1>5, FS_AddElement
  <2> QED
    BY <1>1, <1>2, <1>5, <2>1
<1>6. CASE tenants' = tenants \ {plan[c].id}
  <2>1. IsFiniteSet(tenants')
    BY <1>1, <1>6, FS_RemoveElement
  <2> QED
    BY <1>1, <1>6, <2>1
<1> QED
  BY <1>3, <1>4, <1>5, <1>6

LEMMA ShapesStay ==
    ASSUME Shapes, NEW c \in Callers, Only(c), UNCHANGED <<plan, versions>>,
           nextId' \in Nat \ {0}, nextXid' \in Nat \ {0}, IsFiniteSet(rows'), TenantEffect(c)
    PROVE  Shapes'
  BY TenantsShape DEF Shapes, Only

LEMMA RowsStay ==
    ASSUME Rows, NEW c \in Callers, Only(c), UNCHANGED <<plan, versions>>,
           nextId \in Nat, nextId' \in Nat, nextId' >= nextId,
           nextXid \in Nat, nextXid' \in Nat, nextXid' >= nextXid, rows' \subseteq rows,
           call[c].at \in {"commit", "done"} => SameVersion(c) /\ call'[c].at \in {"commit", "done"}
    PROVE  Rows'
<1>1. ASSUME NEW r \in rows'
      PROVE  RowOK(r)' /\ Origin(r)'
  <2>1. RowOK(r) /\ Origin(r)
    BY DEF Rows
  <2>2. r.by = c => call[c].at \in {"commit", "done"}
    BY <2>1 DEF Origin
  <2>3. Origin(r)'
    BY <2>1, <2>2, OriginStays
  <2>4. RowOK(r)'
    BY <2>1 DEF RowOK
  <2> QED
    BY <2>3, <2>4
<1> QED
  BY <1>1 DEF Rows

LEMMA Wider ==
    ASSUME NEW m \in Nat, NEW n \in Nat, n >= m
    PROVE  1..(m - 1) \subseteq 1..(n - 1)
  OBVIOUS

\* Who has committed is in the log, who has not is in no snapshot of it.
LEMMA LogStays ==
    ASSUME Log, NEW c \in Callers, Only(c), UNCHANGED <<engine, plan>>,
           nextXid \in Nat \ {0}, nextXid' \in Nat \ {0}, nextXid' >= nextXid,
           DOMAIN txs \subseteq DOMAIN txs', DOMAIN txs' \subseteq 1..(nextXid' - 1),
           \A x \in DOMAIN txs' : txs'[x].snapshot \subseteq DOMAIN txs',
           \A d \in Callers : d # c /\ Is(d, "write", "commit") => call[d].snap \notin DOMAIN txs',
           Is(c, "write", "commit")' =>
              /\ Open(c)'
              /\ \A d \in Callers : d # c /\ Is(d, "write", "commit") => call[d].snap # call'[c].snap,
           Is(c, "write", "done")' /\ call'[c].err = "" /\ engine = "postgres"
              => call'[c].snap \in DOMAIN txs'
    PROVE  Log'
<1>1. \A d \in Callers : d # c => call'[d] = call[d]
  BY DEF Only
<1>2. 1..(nextXid - 1) \subseteq 1..(nextXid' - 1)
  BY Wider
<1>3. ASSUME NEW d \in Callers, Is(d, "write", "commit")'
      PROVE  Open(d)'
  <2>1. CASE d = c
    BY <1>3, <2>1
  <2>2. CASE d # c
    <3>1. call'[d] = call[d] /\ Is(d, "write", "commit")
      BY <1>1, <1>3, <2>2 DEF Is
    <3>2. Open(d)
      BY <3>1 DEF Log
    <3> QED
      BY <1>2, <2>2, <3>1, <3>2 DEF Open
  <2> QED
    BY <2>1, <2>2
<1>4. ASSUME NEW d \in Callers, NEW e \in Callers, d # e,
             Is(d, "write", "commit")', Is(e, "write", "commit")'
      PROVE  call'[d].snap # call'[e].snap
  <2>1. /\ d # c => call'[d] = call[d] /\ Is(d, "write", "commit")
        /\ e # c => call'[e] = call[e] /\ Is(e, "write", "commit")
    BY <1>1, <1>4 DEF Is
  <2>2. CASE d = c
    <3>1. e # c /\ call'[e] = call[e] /\ Is(e, "write", "commit")
      BY <1>4, <2>1, <2>2
    <3>2. call[e].snap # call'[c].snap
      BY <1>4, <2>2, <3>1
    <3> QED
      BY <2>2, <3>1, <3>2
  <2>3. CASE e = c
    <3>1. d # c /\ call'[d] = call[d] /\ Is(d, "write", "commit")
      BY <1>4, <2>1, <2>3
    <3>2. call[d].snap # call'[c].snap
      BY <1>4, <2>3, <3>1
    <3> QED
      BY <2>3, <3>1, <3>2
  <2>4. CASE d # c /\ e # c
    BY <1>4, <2>1, <2>4 DEF Log
  <2> QED
    BY <2>2, <2>3, <2>4
<1>5. ASSUME NEW d \in Callers, Is(d, "write", "done")', call'[d].err = "", engine = "postgres"
      PROVE  call'[d].snap \in DOMAIN txs'
  <2>1. CASE d = c
    BY <1>5, <2>1
  <2>2. CASE d # c
    <3>1. call'[d] = call[d] /\ Is(d, "write", "done")
      BY <1>1, <1>5, <2>2 DEF Is
    <3>2. call[d].snap \in DOMAIN txs
      BY <1>5, <3>1 DEF Log
    <3> QED
      BY <3>1, <3>2
  <2> QED
    BY <2>1, <2>2
<1> QED
  BY <1>3, <1>4, <1>5 DEF Log

LEMMA ImageFinite ==
    ASSUME NEW X, IsFiniteSet(X), NEW f, f = [x \in X |-> f[x]]
    PROVE  IsFiniteSet({f[x] : x \in X})
<1> DEFINE Y == {f[x] : x \in X}
<1>1. f \in [X -> Y] /\ \A y \in Y : \E x \in X : f[x] = y
  OBVIOUS
<1> HIDE DEF Y
<1>2. f \in Surjection(X, Y)
  BY <1>1 DEF Surjection
<1> QED
  BY <1>2, FS_Surjection DEF Y

-----------------------------------------------------------------------------
(* Steps that store nothing. *)

LEMMA Equals ==
    ASSUME NEW m \in Nat, NEW n, n = m
    PROVE  n \in Nat /\ n >= m
  OBVIOUS

\* What a committed transaction of PostgreSQL shows stays as it is.
Frozen == engine = "postgres" => SameViews

LEMMA QuietKeeps ==
    ASSUME IInv, NEW c \in Callers, Only(c), UNCHANGED <<engine, plan, relationVars>>,
           call[c].at \notin {"commit", "done"}, TenantEffect(c),
           plan[c].kind = "write" => /\ Writing(c)' /\ call'[c].at # "commit"
                                     /\ ~(call'[c].at = "done" /\ call'[c].err = ""),
           plan[c].kind \in {"list", "read"} => Turn(c)',
           plan[c].kind = "read" => Reading(c)' /\ Token(c)'
    PROVE  IInv' /\ Frozen
<1>1. /\ Shapes /\ Writers /\ Rows /\ Log
      /\ Turns /\ Reads /\ Tokens /\ TenantsBalanced
  BY DEF IInv
<1>2. /\ versions' = versions /\ rows' = rows /\ nextId' = nextId /\ nextXid' = nextXid
      /\ txs' = txs /\ engine' = engine /\ plan' = plan
  BY DEF relationVars
<1>3. nextId \in Nat \ {0} /\ nextXid \in Nat \ {0} /\ IsFiniteSet(rows)
  BY <1>1 DEF Shapes
<1>4. nextId' >= nextId /\ nextXid' >= nextXid /\ nextId' \in Nat /\ nextXid' \in Nat
  BY <1>2, <1>3, Equals
<1>5. Shapes'
  BY <1>1, <1>2, <1>3, ShapesStay
<1>6. Writers'
  BY <1>1, <1>2, WritersStay
<1>7. Rows'
  BY <1>1, <1>2, <1>3, <1>4, RowsStay
<1>8. Log'
  <2>1. /\ DOMAIN txs \subseteq 1..(nextXid - 1)
        /\ \A x \in DOMAIN txs : txs[x].snapshot \subseteq DOMAIN txs
        /\ \A d \in Callers : Is(d, "write", "commit") => call[d].snap \notin DOMAIN txs
    BY <1>1 DEF Log, Open
  <2>2. ~Is(c, "write", "commit")' /\ ~(Is(c, "write", "done")' /\ call'[c].err = "")
    BY <1>2 DEF Is
  <2> QED
    BY <1>1, <1>2, <1>3, <1>4, <2>1, <2>2, LogStays
<1>9. Turns'
  BY <1>1, <1>2, TurnsStay
<1>10. Reads'
  <2>1. \A r \in rows' : \E s \in rows : Like(s, r)
    BY <1>1, <1>2 DEF Rows, RowOK, Like
  <2> QED
    BY <1>1, <1>2, <1>3, <1>4, <2>1, ReadsStay
<1>11. SameViews
  BY <1>2 DEF SameViews, Ids, View, Matching, SnapshotQuery
<1>12. Tokens'
  BY <1>1, <1>2, <1>11, TokensStay
<1>13. TenantsBalanced'
  BY <1>1, <1>2, BalancedKeeps
<1> QED
  BY <1>5, <1>6, <1>7, <1>8, <1>9, <1>10, <1>11, <1>12, <1>13 DEF IInv, Frozen

LEMMA KeysAreNumbers ==
    ASSUME NEW s, Ordered(s)
    PROVE  \A k \in ToSet(s) : k \in Nat
<1>1. s \in Seq(Nat) /\ ToSet(s) = {s[i] : i \in DOMAIN s}
  BY DEF Ordered, ToSet
<1>2. \A i \in DOMAIN s : s[i] \in Nat
  BY <1>1
<1> QED
  BY <1>1, <1>2

LEMMA NoKeys ==
    ASSUME NEW s, s = <<>>
    PROVE  ToSet(s) = {}
  BY DEF ToSet

LEMMA AtOrAfter ==
    ASSUME NEW m \in Nat, NEW n \in Nat, m >= n
    PROVE  m = n \/ m > n
  OBVIOUS

LEMMA BeforeOrNot ==
    ASSUME NEW m \in Nat, NEW n \in Nat
    PROVE  m < n \/ m >= n
  OBVIOUS

GoodPage(page, S, token) ==
    /\ Ordered(page.keys)
    /\ \A k \in ToSet(page.keys) : k \in S /\ k >= token
    /\ page.token \in Nat
    /\ page.token = 0 => \A k \in S : k >= token => k \in ToSet(page.keys)
    /\ page.token # 0 =>
          /\ page.token >= token
          /\ \A k \in ToSet(page.keys) : k < page.token
          /\ \A k \in S : k >= token /\ k < page.token => k \in ToSet(page.keys)

Took(c, S, page) ==
    /\ call'[c].at = IF page.token = 0 THEN "done" ELSE "paging"
    /\ call'[c].err = call[c].err
    /\ call'[c].got = call[c].got \o page.keys
    /\ call'[c].token = page.token
    /\ call'[c].stay = IF call[c].at = "paging" THEN call[c].stay \cap S ELSE S

\* A page goes on where the last one ended.
LEMMA TurnKeeps ==
    ASSUME NEW c \in Callers, Turn(c), call[c].at \in {"new", "paging"},
           NEW S, S \subseteq Nat \ {0}, NEW page, GoodPage(page, S, call[c].token),
           Took(c, S, page)
    PROVE  /\ Turn(c)'
           /\ ToSet(call'[c].got) = ToSet(call[c].got) \cup ToSet(page.keys)
           /\ ToSet(page.keys) \subseteq S
<1>1. /\ call'[c].at = IF page.token = 0 THEN "done" ELSE "paging"
      /\ call'[c].err = call[c].err
      /\ call'[c].got = call[c].got \o page.keys
      /\ call'[c].token = page.token
      /\ call'[c].stay = IF call[c].at = "paging" THEN call[c].stay \cap S ELSE S
  BY DEF Took
<1> DEFINE old == call[c].got
           keys == page.keys
           token == call[c].token
<1>2. token \in Nat /\ Ordered(old) /\ call[c].err = ""
  <2>1. CASE call[c].at = "new"
    <3>1. call[c].token = 0 /\ Ordered(call[c].got) /\ call[c].err = ""
      BY <2>1 DEF Turn
    <3>2. 0 \in Nat
      OBVIOUS
    <3> QED
      BY <3>1, <3>2, Zenon
  <2>2. CASE call[c].at = "paging"
    BY <2>2 DEF Turn
  <2> QED
    BY <2>1, <2>2
<1>3. /\ call[c].at = "new" => old = <<>> /\ token = 0
      /\ call[c].at = "paging" => \A k \in ToSet(old) : k < token
  BY DEF Turn
<1>4. /\ Ordered(keys)
      /\ \A k \in ToSet(keys) : k \in S /\ k >= token
      /\ page.token \in Nat
      /\ page.token = 0 => \A k \in S : k >= token => k \in ToSet(keys)
      /\ page.token # 0 =>
            /\ page.token >= token
            /\ \A k \in ToSet(keys) : k < page.token
            /\ \A k \in S : k >= token /\ k < page.token => k \in ToSet(keys)
  BY DEF GoodPage
<1> HIDE DEF keys, old, token
<1>5. \A k \in ToSet(old) : k \in Nat /\ k < token
  <2>1. CASE call[c].at = "new"
    <3>1. old = <<>>
      BY <1>3, <2>1
    <3>2. ToSet(old) = {}
      BY <3>1 DEF ToSet
    <3> QED
      BY <3>2
  <2>2. CASE call[c].at = "paging"
    <3>1. \A k \in ToSet(old) : k \in Nat
      BY <1>2, KeysAreNumbers
    <3> QED
      BY <1>3, <2>2, <3>1
  <2> QED
    BY <2>1, <2>2
<1>6. \A k \in ToSet(keys) : k \in Nat
  BY <1>4
<1>7. ASSUME NEW k \in ToSet(old), NEW l \in ToSet(keys)
      PROVE  k < l
  <2>1. k \in Nat /\ k < token
    BY <1>5
  <2>2. l \in Nat /\ l >= token
    BY <1>4, <1>6
  <2>3. token \in Nat
    BY <1>2
  <2> QED
    BY <2>1, <2>2, <2>3
<1>8. Ordered(old \o keys) /\ ToSet(old \o keys) = ToSet(old) \cup ToSet(keys)
  BY <1>2, <1>4, <1>7, PagesJoin
<1>9. call'[c].got = old \o keys
  BY <1>1 DEF old, keys
<1>10. ASSUME NEW k \in call'[c].stay
       PROVE  k \in S /\ k \in Nat /\ (k < token => k \in ToSet(old))
  <2>1. k \in S /\ k \in Nat
    BY <1>1
  <2>2. CASE call[c].at = "new"
    <3>1. token = 0
      BY <2>2 DEF Turn, token
    <3> QED
      BY <2>1, <3>1
  <2>3. CASE call[c].at = "paging"
    <3>1. k \in call[c].stay
      BY <1>1, <2>3
    <3> QED
      BY <2>1, <2>3, <3>1 DEF Turn, old, token
  <2> QED
    BY <2>1, <2>2, <2>3
<1>11. CASE page.token = 0
  <2>1. call'[c].at = "done" /\ call'[c].err = ""
    BY <1>1, <1>2, <1>11
  <2>2. ASSUME NEW k \in call'[c].stay
        PROVE  k \in ToSet(call'[c].got)
    <3>1. k \in S /\ k \in Nat /\ (k < token => k \in ToSet(old))
      BY <1>10
    <3>2. k >= token => k \in ToSet(keys)
      BY <1>4, <1>11, <3>1
    <3>3. k < token \/ k >= token
      BY <1>2, <3>1, BeforeOrNot
    <3> QED
      BY <1>8, <1>9, <3>1, <3>2, <3>3
  <2> QED
    BY <1>4, <1>8, <1>9, <2>1, <2>2 DEF Turn, old, keys
<1>12. CASE page.token # 0
  <2>1. call'[c].at = "paging" /\ call'[c].err = "" /\ call'[c].token = page.token
    BY <1>1, <1>2, <1>12
  <2>2. ASSUME NEW k \in call'[c].stay, k < page.token
        PROVE  k \in ToSet(call'[c].got)
    <3>1. k \in S /\ k \in Nat /\ (k < token => k \in ToSet(old))
      BY <1>10
    <3>2. k >= token => k \in ToSet(keys)
      BY <1>4, <1>12, <2>2, <3>1
    <3>3. k < token \/ k >= token
      BY <1>2, <3>1, BeforeOrNot
    <3> QED
      BY <1>8, <1>9, <3>1, <3>2, <3>3
  <2>3. ASSUME NEW k \in ToSet(call'[c].got)
        PROVE  k < page.token
    <3>1. CASE k \in ToSet(keys)
      BY <1>4, <1>12, <3>1
    <3>2. CASE k \in ToSet(old)
      <4>1. k \in Nat /\ k < token /\ token \in Nat /\ page.token \in Nat /\ page.token >= token
        BY <1>2, <1>4, <1>5, <1>12, <3>2
      <4> QED
        BY <4>1
    <3> QED
      BY <1>8, <1>9, <2>3, <3>1, <3>2
  <2> QED
    BY <1>4, <1>8, <1>9, <1>10, <2>1, <2>2, <2>3 DEF Turn, old, keys
<1> QED
  BY <1>11, <1>12

\* What a reader selects from: ids of rows.
LEMMA SelectedHolds ==
    ASSUME Shapes, Rows, NEW tenant, NEW f, NEW x, NEW S, S = Ids(Selected(tenant, f, x))
    PROVE  /\ IsFiniteSet(S) /\ S \subseteq Nat \ {0}
           /\ Selected(tenant, f, x) \subseteq rows
<1> DEFINE X == Selected(tenant, f, x)
           g == [r \in X |-> r.id]
<1>1. X \subseteq rows
  BY DEF Selected, LowerBoundRows, View, Matching
<1>2. IsFiniteSet(rows)
  BY DEF Shapes
<1>3. \A r \in rows : r.id \in Nat \ {0}
  BY DEF Rows, RowOK
<1> HIDE DEF X
<1>4. IsFiniteSet(X)
  BY <1>1, <1>2, FS_Subset
<1>5. g = [r \in X |-> g[r]] /\ {g[r] : r \in X} = {r.id : r \in X}
  OBVIOUS
<1> HIDE DEF g
<1>6. IsFiniteSet({g[r] : r \in X})
  BY <1>4, <1>5, ImageFinite
<1>7. S = {r.id : r \in X}
  BY DEF Ids, X
<1>8. IsFiniteSet(S)
  BY <1>5, <1>6, <1>7
<1>9. S \subseteq Nat \ {0}
  BY <1>1, <1>3, <1>7
<1> QED
  BY <1>1, <1>8, <1>9 DEF X

LEMMA EveryPageGood ==
    ASSUME NEW S, IsFiniteSet(S), S \subseteq Nat \ {0}, NEW token \in Nat,
           NEW size \in Nat \ {0}, NEW page, page = Page(S, token, size)
    PROVE  GoodPage(page, S, token)
<1> HIDE DEF Page
<1>1. /\ Ordered(page.keys)
      /\ \A k \in ToSet(page.keys) : k \in S /\ k >= token
      /\ page.token \in Nat
      /\ page.token = 0 => \A k \in S : k >= token => k \in ToSet(page.keys)
      /\ page.token # 0 =>
            /\ page.token >= token
            /\ \A k \in ToSet(page.keys) : k < page.token
            /\ \A k \in S : k >= token /\ k < page.token => k \in ToSet(page.keys)
  BY PageHolds, Zenon
<1> QED
  BY <1>1, Zenon DEF GoodPage

LEMMA PageIsGood ==
    ASSUME Shapes, NEW c \in Callers, Turn(c), call[c].at \in {"new", "paging"},
           NEW S, IsFiniteSet(S), S \subseteq Nat \ {0}
    PROVE  GoodPage(Page(S, call[c].token, plan[c].size), S, call[c].token)
<1>1. PICK token, size, page : /\ token = call[c].token /\ size = plan[c].size
                               /\ page = Page(S, token, size)
  OBVIOUS
<1>2. token \in Nat
  <2>1. CASE call[c].at = "new"
    <3>1. call[c].token = 0
      BY <2>1 DEF Turn
    <3>2. 0 \in Nat
      OBVIOUS
    <3> QED
      BY <1>1, <3>1, <3>2, Zenon
  <2>2. CASE call[c].at = "paging"
    BY <1>1, <2>2 DEF Turn
  <2> QED
    BY <2>1, <2>2
<1>3. size \in Nat \ {0}
  BY <1>1, PlanHolds DEF Shapes
<1>4. GoodPage(page, S, token)
  BY <1>1, <1>2, <1>3, EveryPageGood
<1> QED
  BY <1>1, <1>4

LEMMA TakePageTakes ==
    ASSUME Shapes, NEW c \in Callers, NEW S, NEW page, TakePage(c, S, page)
    PROVE  Only(c) /\ SameSnap(c) /\ Took(c, S, page)
  BY TakePageFacts DEF Took

\* What a reader gets are rows of its filter.
LEMMA SelectedMine ==
    ASSUME Shapes, Rows, NEW c \in Callers, NEW x,
           NEW r \in Selected(plan[c].tenant, plan[c].filter, x)
    PROVE  Mine(c, r)
<1> DEFINE tenant == plan[c].tenant
           f == plan[c].filter
<1>1. tenant \in Nat
  BY PlanHolds DEF Shapes
<1>2. CASE engine = "memory"
  <2>1. r \in rows /\ FilterQuery(f, r.tuple) /\ (f.type = "" \/ r.tenant >= tenant)
    BY <1>2 DEF Selected, LowerBoundRows, Matching
  <2>2. r.by \in Callers /\ r.tenant = plan[r.by].tenant
    BY <2>1 DEF Rows, Origin
  <2>3. r.tenant \in Nat
    BY <2>2, PlanHolds DEF Shapes
  <2>4. f.type = "" \/ r.tenant = tenant \/ r.tenant > tenant
    BY <1>1, <2>1, <2>3, AtOrAfter
  <2> QED
    BY <1>2, <2>1, <2>4 DEF Mine
<1>3. CASE engine # "memory"
  BY <1>3 DEF Selected, View, Matching, Mine
<1> QED
  BY <1>2, <1>3

LEMMA ReadKeeps ==
    ASSUME IInv, NEW c \in Callers, ReadRelationships(c)
    PROVE  IInv' /\ Frozen
<1>1. /\ Shapes /\ Writers /\ Rows /\ Log
      /\ Turns /\ Reads /\ Tokens /\ TenantsBalanced
  BY DEF IInv
<1>2. /\ plan[c].kind = "read" /\ call[c].at \in {"new", "paging"}
      /\ Pinned(c) => call[plan[c].after].at = "done" /\ call[plan[c].after].err = ""
      /\ UNCHANGED <<engine, plan, tenants, relationVars>>
  BY DEF ReadRelationships
<1>3. PICK tenant, f, x, S, page :
         /\ tenant = plan[c].tenant /\ f = plan[c].filter /\ x = SnapToken(c)
         /\ S = Ids(Selected(tenant, f, x))
         /\ page = Page(S, call[c].token, plan[c].size)
  OBVIOUS
<1>4. TakePage(c, S, page)
  BY <1>3 DEF ReadRelationships, SelectedIds
<1>5. Turn(c) /\ Reading(c) /\ Token(c)
  BY <1>1, <1>2 DEF Turns, Reads, Tokens
<1>6. IsFiniteSet(S) /\ S \subseteq Nat \ {0} /\ Selected(tenant, f, x) \subseteq rows
  BY <1>1, <1>3, SelectedHolds
<1>7. GoodPage(page, S, call[c].token)
  BY <1>1, <1>2, <1>3, <1>5, <1>6, PageIsGood
<1>8. Only(c) /\ SameSnap(c) /\ Took(c, S, page)
  BY <1>1, <1>4, TakePageTakes
<1>9. /\ Turn(c)'
      /\ ToSet(call'[c].got) = ToSet(call[c].got) \cup ToSet(page.keys)
      /\ ToSet(page.keys) \subseteq S
  BY <1>2, <1>5, <1>6, <1>7, <1>8, TurnKeeps
<1>10. Reading(c)'
  <2>1. rows' = rows /\ nextId' = nextId /\ engine' = engine /\ plan' = plan
    BY <1>2 DEF relationVars
  <2>2. ASSUME NEW k \in ToSet(call'[c].got)
        PROVE  k < nextId
    <3>1. CASE k \in ToSet(call[c].got)
      BY <1>5, <3>1 DEF Reading
    <3>2. CASE k \in S
      <4>1. PICK r \in rows : k = r.id
        BY <1>3, <1>6, <3>2 DEF Ids
      <4> QED
        BY <1>1, <4>1 DEF Rows, RowOK
    <3> QED
      BY <1>9, <3>1, <3>2
  <2>3. ASSUME NEW r \in rows, r.id \in ToSet(call'[c].got)
        PROVE  Mine(c, r)
    <3>1. CASE r.id \in ToSet(call[c].got)
      BY <1>5, <3>1 DEF Reading
    <3>2. CASE r.id \in S
      <4>1. PICK s \in Selected(tenant, f, x) : s.id = r.id
        BY <1>3, <3>2 DEF Ids
      <4>2. s = r
        BY <1>1, <1>6, <4>1 DEF Rows
      <4> QED
        BY <1>1, <1>3, <4>1, <4>2, SelectedMine
    <3> QED
      BY <1>9, <2>3, <3>1, <3>2
  <2>4. \A r : Mine(c, r) => Mine(c, r)'
    BY <2>1 DEF Mine
  <2> QED
    BY <2>1, <2>2, <2>3, <2>4 DEF Reading
<1>11. Token(c)'
  <2> SUFFICES ASSUME engine = "postgres", Pinned(c), call'[c].err = ""
               PROVE  AtToken(c)'
    BY <1>2 DEF Token, Pinned
  <2> DEFINE a == plan[c].after
  <2>1. a \in Callers /\ plan[a].kind = "write" /\ a # c
    BY <1>1, <1>2, PlanHolds DEF Pinned, Shapes
  <2>2. call'[a] = call[a] /\ call[a].at = "done" /\ call[a].err = ""
    BY <1>2, <1>8, <2>1 DEF Only
  <2>3. S = Shown(c)
    BY <1>3 DEF Shown, SnapToken, Selected
  <2>4. Shown(c)' = Shown(c)
    BY <1>2, <2>2 DEF Shown, Ids, View, Matching, SnapshotQuery, relationVars
  <2>5. call'[c].stay = S
    <3>1. call[c].at = "paging" => call[c].stay = S
      BY <1>5, <2>3 DEF Token, AtToken, Turn
    <3> QED
      BY <1>8, <3>1 DEF Took
  <2>6. ToSet(call[c].got) \subseteq S
    <3>1. CASE call[c].at = "new"
      <4>1. call[c].got = <<>>
        BY <1>5, <3>1 DEF Turn
      <4>2. ToSet(call[c].got) = {}
        BY <4>1, NoKeys
      <4> QED
        BY <4>2
    <3>2. CASE call[c].at = "paging"
      BY <1>5, <2>3, <3>2 DEF Token, AtToken, Turn
    <3> QED
      BY <1>2, <3>1, <3>2
  <2> QED
    BY <1>2, <1>9, <2>2, <2>3, <2>4, <2>5, <2>6 DEF AtToken
<1>12. TenantEffect(c)
  BY <1>2 DEF TenantEffect
<1> QED
  BY <1>2, <1>8, <1>9, <1>10, <1>11, <1>12, QuietKeeps

LEMMA ReadFailsKeeps ==
    ASSUME IInv, NEW c \in Callers, ReadFails(c)
    PROVE  IInv' /\ Frozen
<1>1. /\ Shapes /\ Rows /\ Turns /\ Reads
  BY DEF IInv
<1>2. /\ plan[c].kind = "read" /\ call[c].at \in {"new", "paging"}
      /\ End(c, "ERROR_CODE_EXECUTION")
      /\ UNCHANGED <<engine, plan, tenants, relationVars>>
  BY DEF ReadFails
<1>3. /\ Only(c) /\ SamePages(c)
      /\ call'[c].at = "done" /\ call'[c].err = "ERROR_CODE_EXECUTION"
  BY <1>1, <1>2, EndFacts
<1>4. Turn(c) /\ Reading(c)
  BY <1>1, <1>2 DEF Turns, Reads
<1>5. Turn(c)'
  BY <1>3, <1>4 DEF Turn, SamePages
<1>6. Reading(c)'
  BY <1>2, <1>3, <1>4 DEF Reading, Mine, SamePages, relationVars
<1>7. Token(c)'
  BY <1>3 DEF Token
<1>8. TenantEffect(c)
  BY <1>2 DEF TenantEffect
<1> QED
  BY <1>2, <1>3, <1>5, <1>6, <1>7, <1>8, QuietKeeps

LEMMA ListKeeps ==
    ASSUME IInv, NEW c \in Callers, ListTenants(c), UNCHANGED <<engine, plan, relationVars>>
    PROVE  IInv' /\ Frozen
<1>1. Shapes /\ Turns
  BY DEF IInv
<1>2. /\ plan[c].kind = "list" /\ call[c].at \in {"new", "paging"} /\ tenants' = tenants
  BY DEF ListTenants
<1>3. PICK page : page = Page(tenants, call[c].token, plan[c].size)
  OBVIOUS
<1>4. TakePage(c, tenants, page)
  BY <1>3 DEF ListTenants
<1>5. Turn(c)
  BY <1>1, <1>2 DEF Turns
<1>6. IsFiniteSet(tenants) /\ tenants \subseteq Nat \ {0}
  BY <1>1 DEF Shapes
<1>7. GoodPage(page, tenants, call[c].token)
  BY <1>1, <1>2, <1>3, <1>5, <1>6, PageIsGood
<1>8. Only(c) /\ Took(c, tenants, page)
  BY <1>1, <1>4, TakePageTakes
<1>9. Turn(c)'
  BY <1>2, <1>5, <1>6, <1>7, <1>8, TurnKeeps
<1>10. TenantEffect(c)
  BY <1>2 DEF TenantEffect
<1> QED
  BY <1>2, <1>8, <1>9, <1>10, QuietKeeps

\* A call that creates or deletes a tenant.
LEMMA TenantKeeps ==
    ASSUME IInv, NEW c \in Callers, UNCHANGED <<engine, plan, relationVars>>,
           CreateTenant(c) \/ DeleteTenant(c) \/ TenantFails(c)
    PROVE  IInv' /\ Frozen
<1>1. Shapes
  BY DEF IInv
<1>2. /\ plan[c].kind \in {"create", "deleteTenant"} /\ call[c].at = "new"
      /\ \E err : End(c, err)
  BY DEF CreateTenant, DeleteTenant, TenantFails, Is
<1>3. Only(c) /\ call'[c].at = "done"
  BY <1>1, <1>2, EndFacts
<1>4. TenantEffect(c)
  <2>1. CASE CreateTenant(c)
    <3>1. plan[c].kind = "create"
      BY <2>1 DEF CreateTenant, Is
    <3>2. CASE engine = "postgres" /\ plan[c].id \in tenants
      <4>1. End(c, "ERROR_CODE_UNIQUE_CONSTRAINT") /\ tenants' = tenants
        BY <2>1, <3>2 DEF CreateTenant
      <4>2. call'[c].err = "ERROR_CODE_UNIQUE_CONSTRAINT"
        BY <1>1, <4>1, EndFacts
      <4> QED
        BY <1>3, <3>1, <4>1, <4>2 DEF TenantEffect
    <3>3. CASE ~(engine = "postgres" /\ plan[c].id \in tenants)
      <4>1. End(c, "") /\ tenants' = tenants \cup {plan[c].id}
        BY <2>1, <3>3 DEF CreateTenant
      <4>2. call'[c].err = ""
        BY <1>1, <4>1, EndFacts
      <4> QED
        BY <1>3, <3>1, <3>3, <4>1, <4>2 DEF TenantEffect
    <3> QED
      BY <3>2, <3>3
  <2>2. CASE DeleteTenant(c)
    <3>1. plan[c].kind = "deleteTenant" /\ tenants' = tenants \ {plan[c].id}
      BY <2>2 DEF DeleteTenant, Is
    <3>2. CASE plan[c].id \in tenants
      <4>1. End(c, "")
        BY <2>2, <3>2 DEF DeleteTenant
      <4>2. call'[c].err = ""
        BY <1>1, <4>1, EndFacts
      <4> QED
        BY <1>3, <3>1, <3>2, <4>2 DEF TenantEffect
    <3>3. CASE plan[c].id \notin tenants
      <4>1. tenants' = tenants
        BY <3>1, <3>3
      <4>2. CASE engine = "postgres"
        <5>1. End(c, "ERROR_CODE_EXECUTION")
          BY <2>2, <3>3, <4>2 DEF DeleteTenant
        <5>2. call'[c].err = "ERROR_CODE_EXECUTION"
          BY <1>1, <5>1, EndFacts
        <5> QED
          BY <1>3, <3>1, <4>1, <5>2 DEF TenantEffect
      <4>3. CASE engine # "postgres"
        <5>1. End(c, "panic")
          BY <2>2, <3>3, <4>3 DEF DeleteTenant
        <5>2. call'[c].err = "panic"
          BY <1>1, <5>1, EndFacts
        <5> QED
          BY <1>3, <3>1, <4>1, <4>3, <5>2 DEF TenantEffect
      <4> QED
        BY <4>2, <4>3
    <3> QED
      BY <3>2, <3>3
  <2>3. CASE TenantFails(c)
    <3>1. End(c, "ERROR_CODE_EXECUTION")
      BY <2>3 DEF TenantFails
    <3>2. call'[c].err = "ERROR_CODE_EXECUTION"
      BY <1>1, <3>1, EndFacts
    <3>3. \/ plan[c].kind = "create" /\ tenants' \in {tenants, tenants \cup {plan[c].id}}
          \/ plan[c].kind = "deleteTenant" /\ tenants' \in {tenants, tenants \ {plan[c].id}}
      BY <2>3 DEF TenantFails, Is
    <3> QED
      BY <1>3, <3>2, <3>3 DEF TenantEffect
  <2> QED
    BY <2>1, <2>2, <2>3
<1> QED
  BY <1>2, <1>3, <1>4, QuietKeeps

LEMMA PinKeeps ==
    ASSUME IInv, NEW c \in Callers, PinVersion(c)
    PROVE  IInv' /\ Frozen
<1> DEFINE head == versions[plan[c].tenant]
           v == IF plan[c].version = 0 THEN head ELSE plan[c].version
           bad == \E i \in DOMAIN plan[c].tuples :
                     IsSubjectUser(plan[c].tuples[i]) /\ plan[c].tuples[i].srel # ""
<1>1. Shapes
  BY DEF IInv
<1>2. /\ plan[c].kind = "write" /\ call[c].at = "new"
      /\ UNCHANGED <<engine, plan, tenants, relationVars>>
  BY DEF PinVersion, Is
<1>3. TenantEffect(c)
  BY <1>2 DEF TenantEffect
<1>4. CASE bad
  <2>1. End(c, "ERROR_CODE_SUBJECT_RELATION_MUST_BE_EMPTY")
    BY <1>4 DEF PinVersion
  <2>2. /\ Only(c) /\ call'[c].at = "done"
        /\ call'[c].err = "ERROR_CODE_SUBJECT_RELATION_MUST_BE_EMPTY"
    BY <1>1, <2>1, EndFacts
  <2>3. Writing(c)'
    BY <2>2 DEF Writing
  <2> QED
    BY <1>2, <1>3, <2>2, <2>3, QuietKeeps
<1>5. CASE ~bad /\ plan[c].version = 0 /\ head = 0
  <2>1. End(c, "ERROR_CODE_SCHEMA_NOT_FOUND")
    BY <1>5 DEF PinVersion
  <2>2. Only(c) /\ call'[c].at = "done" /\ call'[c].err = "ERROR_CODE_SCHEMA_NOT_FOUND"
    BY <1>1, <2>1, EndFacts
  <2>3. Writing(c)'
    BY <2>2 DEF Writing
  <2> QED
    BY <1>2, <1>3, <2>2, <2>3, QuietKeeps
<1>6. CASE ~bad /\ ~(plan[c].version = 0 /\ head = 0)
  <2>1. call' = [call EXCEPT ![c].at = "pinned", ![c].since = head, ![c].version = v]
    BY <1>6 DEF PinVersion
  <2>2. head \in Nat /\ plan[c].version \in Nat
    BY <1>1, PlanHolds DEF Shapes
  <2>3. v \in Nat \ {0} /\ (v = plan[c].version \/ v >= head)
    <3>1. CASE plan[c].version = 0
      <4>1. v = head /\ head # 0
        BY <1>6, <3>1
      <4> HIDE DEF v, head
      <4>2. head >= head
        BY <2>2
      <4> QED
        BY <2>2, <4>1, <4>2
    <3>2. CASE plan[c].version # 0
      BY <2>2, <3>2
    <3> QED
      BY <3>1, <3>2
  <2>4. \A i \in DOMAIN plan[c].tuples :
           IsSubjectUser(plan[c].tuples[i]) => plan[c].tuples[i].srel = ""
    BY <1>6
  <2> HIDE DEF head, v
  <2>5. /\ Only(c) /\ call'[c].at = "pinned" /\ call'[c].since = head /\ call'[c].version = v
    BY <1>1, <2>1, PinFacts
  <2>6. plan' = plan
    BY <1>2
  <2>7. Writing(c)'
    BY <2>3, <2>4, <2>5, <2>6 DEF Writing, Named
  <2> QED
    BY <1>2, <1>3, <2>5, <2>7, QuietKeeps
<1> QED
  BY <1>4, <1>5, <1>6

LEMMA ValidateKeeps ==
    ASSUME IInv, NEW c \in Callers, Validate(c)
    PROVE  IInv' /\ Frozen
<1> DEFINE known == call[c].version <= versions[plan[c].tenant]
           error == WriteError(Schemas[plan[c].tenant][call[c].version], Tuples(c))
           err == IF known THEN error ELSE "ERROR_CODE_SCHEMA_NOT_FOUND"
<1>1. Shapes /\ Writers
  BY DEF IInv
<1>2. /\ plan[c].kind = "write" /\ call[c].at = "pinned"
      /\ UNCHANGED <<engine, plan, tenants, relationVars>>
  BY DEF Validate, Is
<1>3. TenantEffect(c)
  BY <1>2 DEF TenantEffect
<1>4. CASE err # ""
  <2>1. End(c, err)
    BY <1>4 DEF Validate
  <2> HIDE DEF err
  <2>2. Only(c) /\ call'[c].at = "done" /\ call'[c].err = err
    BY <1>1, <2>1, EndFacts
  <2>3. Writing(c)'
    BY <2>2 DEF Writing
  <2> QED
    BY <1>2, <1>3, <1>4, <2>2, <2>3, QuietKeeps
<1>5. CASE err = ""
  <2>1. call' = [call EXCEPT ![c].at = "insert"]
    BY <1>5 DEF Validate
  <2>2. Only(c) /\ SameVersion(c) /\ call'[c].at = "insert"
    BY <1>1, <2>1, ValidateFacts
  <2>3. Named(c)
    BY <1>1, <1>2 DEF Writers, Writing
  <2>4. known /\ error = ""
    BY <1>5
  <2>5. Passed(c)
    BY <2>3, <2>4 DEF Passed
  <2>6. plan' = plan /\ versions' = versions
    BY <1>2 DEF relationVars
  <2>7. Passed(c)'
    BY <2>2, <2>5, <2>6 DEF Passed, Named, Tuples, SameVersion
  <2>8. Writing(c)'
    BY <2>2, <2>7 DEF Writing
  <2> QED
    BY <1>2, <1>3, <2>2, <2>8, QuietKeeps
<1> QED
  BY <1>4, <1>5

-----------------------------------------------------------------------------
(* Steps that store. *)

LEMMA OneMore ==
    ASSUME NEW m \in Nat \ {0}, NEW n, n = m + 1
    PROVE  /\ n \in Nat \ {0} /\ n \in Nat /\ n >= m /\ m < n
           /\ 1..(m - 1) \subseteq 1..(n - 1) /\ m \in 1..(n - 1)
  OBVIOUS

LEMMA NotBefore ==
    ASSUME NEW m \in Nat
    PROVE  m \notin 1..(m - 1)
  OBVIOUS

LEMMA SomeMore ==
    ASSUME NEW m \in Nat \ {0}, NEW k \in Nat, NEW n, n = m + k
    PROVE  n \in Nat \ {0} /\ n \in Nat /\ n >= m
  OBVIOUS

LEMMA StoreKeeps ==
    ASSUME IInv, NEW c \in Callers, Only(c), UNCHANGED <<engine, plan, tenants, versions>>,
           plan[c].kind \in {"write", "delete"}, call[c].at # "done",
           nextId' \in Nat \ {0}, nextId' >= nextId, nextXid' \in Nat \ {0}, IsFiniteSet(rows'),
           plan[c].kind = "write" => Writing(c)', Rows', Log',
           \A r \in rows' : (\E s \in rows : Like(s, r)) \/ (r.id \in Nat /\ r.id >= nextId),
           engine = "postgres" => SameViews
    PROVE  IInv' /\ Frozen
<1>1. /\ Shapes /\ Writers /\ Log /\ Turns /\ Reads /\ Tokens /\ TenantsBalanced
  BY DEF IInv
<1>2. TenantEffect(c)
  BY DEF TenantEffect
<1>3. nextId \in Nat /\ nextId' \in Nat
  BY <1>1 DEF Shapes
<1>4. Shapes'
  BY <1>1, <1>2, ShapesStay
<1>5. Writers'
  BY <1>1, WritersStay
<1>6. Turns'
  BY <1>1, TurnsStay
<1>7. Reads'
  BY <1>1, <1>3, ReadsStay
<1>8. Tokens'
  BY <1>1, TokensStay
<1>9. TenantsBalanced'
  BY <1>1, <1>2, BalancedKeeps
<1> QED
  BY <1>4, <1>5, <1>6, <1>7, <1>8, <1>9 DEF IInv, Frozen

LEMMA LaterSelf ==
    ASSUME Rows, NEW r \in rows
    PROVE  Like(r, r) /\ Later(r, r)
  BY DEF Rows, RowOK, Like, Later

\* The rows a write makes.
NewRow(c, x, r) ==
    /\ r = [y \in RowFields |-> r[y]]
    /\ r.id \in Nat /\ r.id >= nextId /\ r.id < nextId + Len(Tuples(c))
    /\ r.tenant = plan[c].tenant /\ r.created = x /\ r.expired = 0 /\ r.by = c
    /\ \E i \in DOMAIN plan[c].tuples : r.tuple = Tuples(c)[i]

LEMMA TuplesLength ==
    ASSUME Shapes, NEW c \in Callers
    PROVE  /\ Len(Tuples(c)) \in Nat
           /\ DOMAIN Tuples(c) = 1..Len(Tuples(c))
           /\ DOMAIN plan[c].tuples = 1..Len(Tuples(c))
<1> DEFINE n == Len(plan[c].tuples)
           s == Tuples(c)
<1>1. n \in Nat /\ DOMAIN plan[c].tuples = 1..n
  BY PlanHolds DEF Shapes
<1>2. s = [i \in 1..n |-> s[i]]
  BY <1>1 DEF Tuples
<1> HIDE DEF n, s
<1>3. s \in Seq({s[i] : i \in 1..n}) /\ Len(s) = n
  BY <1>1, <1>2
<1> QED
  BY <1>1, <1>2, <1>3 DEF s

LEMMA RowIsNew ==
    ASSUME Shapes, NEW c \in Callers, NEW x, NEW i \in DOMAIN Tuples(c),
           NEW r, r = Row(c, i, x)
    PROVE  NewRow(c, x, r) /\ r.id = nextId + i - 1
<1>1. /\ r = [y \in RowFields |-> r[y]] /\ r.id = nextId + i - 1
      /\ r.tenant = plan[c].tenant /\ r.tuple = Tuples(c)[i]
      /\ r.created = x /\ r.expired = 0 /\ r.by = c
  BY DEF Row, RowFields
<1>2. PICK n \in Nat : n = Len(Tuples(c)) /\ i \in 1..n
  BY TuplesLength
<1>3. i \in DOMAIN plan[c].tuples
  BY TuplesLength
<1>4. nextId \in Nat
  BY DEF Shapes
<1>5. nextId + i - 1 \in Nat /\ nextId + i - 1 >= nextId /\ nextId + i - 1 < nextId + n
  <2>1. i \in 1..n /\ n \in Nat
    BY <1>2
  <2> QED
    BY <1>4, <2>1
<1> QED
  BY <1>1, <1>2, <1>3, <1>5 DEF NewRow

Made(c, I, x) == {Row(c, i, x) : i \in I}

LEMMA NewRows ==
    ASSUME Shapes, NEW c \in Callers, NEW x, NEW I, I \subseteq DOMAIN Tuples(c),
           NEW new, new = Made(c, I, x)
    PROVE  /\ IsFiniteSet(new)
           /\ \A r \in new : NewRow(c, x, r)
           /\ \A r, s \in new : r.id = s.id => r = s
<1> DEFINE g == [i \in I |-> Row(c, i, x)]
<1>1. IsFiniteSet(I)
  BY TuplesLength, FS_Interval, FS_Subset
<1>2. g = [i \in I |-> g[i]] /\ {g[i] : i \in I} = new
  BY DEF Made
<1> HIDE DEF g
<1>3. IsFiniteSet(new)
  BY <1>1, <1>2, ImageFinite
<1>4. ASSUME NEW r \in new, NEW s \in new, r.id = s.id
      PROVE  r = s
  <2>1. PICK i \in I : r = Row(c, i, x)
    BY DEF Made
  <2>2. PICK j \in I : s = Row(c, j, x)
    BY DEF Made
  <2>3. r.id = nextId + i - 1 /\ s.id = nextId + j - 1
    BY <2>1, <2>2, RowIsNew
  <2>4. nextId \in Nat /\ i \in Nat /\ j \in Nat
    BY TuplesLength DEF Shapes
  <2>5. i = j
    <3>1. nextId + i - 1 = nextId + j - 1
      BY <1>4, <2>3
    <3> QED
      BY <2>4, <3>1
  <2> QED
    BY <2>1, <2>2, <2>5
<1>5. \A r \in new : NewRow(c, x, r)
  BY RowIsNew DEF Made
<1> QED
  BY <1>3, <1>4, <1>5

LEMMA RowsGrow ==
    ASSUME Shapes, Rows, NEW c \in Callers, Only(c), UNCHANGED <<plan, versions>>,
           call[c].at \notin {"commit", "done"}, plan[c].kind = "write",
           call'[c].at \in {"commit", "done"}, Passed(c)',
           NEW x \in Nat, NEW new, \A r \in new : NewRow(c, x, r),
           \A r, s \in new : r.id = s.id => r = s,
           NEW kept, kept \subseteq rows, rows' = kept \cup new,
           nextId' \in Nat, nextId' = nextId + Len(Tuples(c)),
           nextXid' \in Nat, nextXid' >= nextXid, x < nextXid'
    PROVE  Rows'
<1>1. nextId \in Nat \ {0} /\ nextXid \in Nat
  BY DEF Shapes
<1>2. nextId' >= nextId
  BY <1>1, TuplesLength
<1>3. ASSUME NEW r \in kept
      PROVE  RowOK(r)' /\ Origin(r)' /\ r.id < nextId /\ r.id \in Nat
  <2>1. RowOK(r) /\ Origin(r)
    BY DEF Rows
  <2>2. r.by # c
    BY <2>1 DEF Origin
  <2>3. Origin(r)'
    BY <2>1, <2>2, OriginStays
  <2>4. RowOK(r)' /\ r.id < nextId /\ r.id \in Nat
    BY <1>1, <1>2, <2>1 DEF RowOK
  <2> QED
    BY <2>3, <2>4
<1>4. ASSUME NEW r \in new
      PROVE  RowOK(r)' /\ Origin(r)' /\ r.id >= nextId /\ r.id \in Nat
  <2>1. NewRow(c, x, r)
    OBVIOUS
  <2>2. r.id \in Nat /\ r.id >= nextId
    BY <2>1 DEF NewRow
  <2>3. r.id # 0
    BY <1>1, <2>2
  <2>4. RowOK(r)'
    BY <2>1, <2>2, <2>3 DEF RowOK, NewRow
  <2>5. Origin(r)'
    BY <2>1 DEF Origin, NewRow, Tuples
  <2> QED
    BY <2>2, <2>4, <2>5
<1>5. ASSUME NEW r \in rows', NEW s \in rows', r.id = s.id
      PROVE  r = s
  <2>1. CASE r \in kept /\ s \in kept
    BY <1>5, <2>1 DEF Rows
  <2>2. CASE r \in new /\ s \in new
    BY <1>5, <2>2
  <2>3. CASE r \in kept /\ s \in new
    <3>1. r.id < nextId /\ r.id >= nextId /\ r.id \in Nat
      BY <1>3, <1>4, <1>5, <2>3
    <3> QED
      BY <1>1, <3>1
  <2>4. CASE r \in new /\ s \in kept
    <3>1. r.id < nextId /\ r.id >= nextId /\ r.id \in Nat
      BY <1>3, <1>4, <1>5, <2>4
    <3> QED
      BY <1>1, <3>1
  <2> QED
    BY <2>1, <2>2, <2>3, <2>4
<1> QED
  BY <1>3, <1>4, <1>5 DEF Rows

\* The log with one more transaction.
LEMMA LoggedHolds ==
    ASSUME Log, NEW c, NEW x, NEW snapshot, snapshot \subseteq DOMAIN txs, x \notin DOMAIN txs,
           txs' = Logged(c, x, snapshot)
    PROVE  /\ DOMAIN txs' = DOMAIN txs \cup {x}
           /\ \A y \in DOMAIN txs : txs'[y] = txs[y]
           /\ \A y \in DOMAIN txs' : txs'[y].snapshot \subseteq DOMAIN txs'
<1>1. /\ DOMAIN txs' = DOMAIN txs \cup {x}
      /\ \A y \in DOMAIN txs : txs'[y] = txs[y]
      /\ txs'[x].snapshot = snapshot
  BY DEF Logged
<1>2. \A y \in DOMAIN txs : txs[y].snapshot \subseteq DOMAIN txs
  BY DEF Log
<1> QED
  BY <1>1, <1>2

LEMMA OpenHolds ==
    ASSUME Log, NEW d \in Callers, Is(d, "write", "commit")
    PROVE  Open(d)
  BY DEF Log

LEMMA LogOpened ==
    ASSUME IInv, NEW c \in Callers, Only(c), UNCHANGED <<engine, plan, txs>>,
           nextXid' = nextXid + 1,
           Is(c, "write", "commit")' => call'[c].snap = nextXid /\ call'[c].snapshot = DOMAIN txs,
           ~(Is(c, "write", "done")' /\ call'[c].err = "" /\ engine = "postgres")
    PROVE  Log'
<1>1. Log /\ nextXid \in Nat \ {0}
  BY DEF IInv, Shapes
<1>2. nextXid' \in Nat \ {0} /\ nextXid' >= nextXid
  BY <1>1, OneMore
<1>3. 1..(nextXid - 1) \subseteq 1..(nextXid' - 1) /\ nextXid \in 1..(nextXid' - 1)
  BY <1>1, OneMore
<1>4. nextXid \notin 1..(nextXid - 1)
  BY <1>1, NotBefore
<1>5. /\ DOMAIN txs \subseteq 1..(nextXid - 1)
      /\ \A x \in DOMAIN txs : txs[x].snapshot \subseteq DOMAIN txs
      /\ \A d \in Callers : Is(d, "write", "commit")
            => call[d].snap \notin DOMAIN txs /\ call[d].snap # nextXid
  <2>1. \A d \in Callers : Is(d, "write", "commit")
            => call[d].snap \notin DOMAIN txs /\ call[d].snap \in 1..(nextXid - 1)
    BY <1>1, OpenHolds DEF Open
  <2>2. /\ DOMAIN txs \subseteq 1..(nextXid - 1)
        /\ \A x \in DOMAIN txs : txs[x].snapshot \subseteq DOMAIN txs
    BY <1>1 DEF Log
  <2> QED
    BY <1>4, <2>1, <2>2
<1>6. ASSUME Is(c, "write", "commit")'
      PROVE  /\ Open(c)'
             /\ \A d \in Callers : d # c /\ Is(d, "write", "commit") => call[d].snap # call'[c].snap
  <2>1. call'[c].snap = nextXid /\ call'[c].snapshot = DOMAIN txs /\ nextXid \notin DOMAIN txs
    BY <1>4, <1>5, <1>6
  <2> QED
    BY <1>3, <1>5, <2>1 DEF Open
<1>7. DOMAIN txs \subseteq DOMAIN txs' /\ DOMAIN txs' \subseteq 1..(nextXid' - 1)
  BY <1>3, <1>5
<1> QED
  BY <1>1, <1>2, <1>5, <1>6, <1>7, LogStays

LEMMA InsertKeeps ==
    ASSUME IInv, NEW c \in Callers, Insert(c)
    PROVE  IInv' /\ Frozen
<1>1. Shapes /\ Writers /\ Rows /\ Log
  BY DEF IInv
<1>2. /\ plan[c].kind = "write" /\ call[c].at = "insert" /\ engine = "postgres"
      /\ nextId' = nextId + Len(Tuples(c)) /\ nextXid' = nextXid + 1
      /\ UNCHANGED <<engine, plan, tenants, versions, txs>>
  BY DEF Insert, Is
<1>3. nextId \in Nat \ {0} /\ nextXid \in Nat \ {0} /\ Len(Tuples(c)) \in Nat /\ IsFiniteSet(rows)
  BY <1>1, TuplesLength DEF Shapes
<1>4. /\ nextId' \in Nat \ {0} /\ nextId' \in Nat /\ nextId' >= nextId
      /\ nextXid' \in Nat \ {0} /\ nextXid' \in Nat /\ nextXid' >= nextXid /\ nextXid < nextXid'
  BY <1>2, <1>3
<1>5. Passed(c)
  BY <1>1, <1>2 DEF Writers, Writing
<1>6. nextXid \notin DOMAIN txs
  <2>1. DOMAIN txs \subseteq 1..(nextXid - 1) /\ nextXid \notin 1..(nextXid - 1)
    BY <1>1, <1>3, NotBefore DEF Log
  <2> QED
    BY <2>1
<1>7. CASE End(c, "ERROR_CODE_UNIQUE_CONSTRAINT") /\ rows' = rows
  <2>1. Only(c) /\ call'[c].at = "done" /\ call'[c].err = "ERROR_CODE_UNIQUE_CONSTRAINT"
    BY <1>1, <1>7, EndFacts
  <2>2. Rows'
    BY <1>1, <1>2, <1>3, <1>4, <1>7, <2>1, RowsStay
  <2>3. Log'
    BY <1>2, <2>1, LogOpened DEF Is
  <2>4. \A r \in rows : Like(r, r) /\ Later(r, r)
    BY <1>1, LaterSelf
  <2>5. SameViews
    BY <1>1, <1>2, <1>3, <1>7, <2>4, ViewsStay
  <2>6. Writing(c)'
    BY <2>1 DEF Writing
  <2> QED
    BY <1>2, <1>3, <1>4, <1>7, <2>1, <2>2, <2>3, <2>4, <2>5, <2>6, StoreKeeps
<1>8. CASE /\ rows' = rows \cup {Row(c, i, nextXid) : i \in DOMAIN Tuples(c)}
           /\ call' = [call EXCEPT ![c].at = "commit", ![c].snap = nextXid,
                                   ![c].snapshot = DOMAIN txs]
  <2>1. PICK new, x : x = nextXid /\ new = Made(c, DOMAIN Tuples(c), x)
    OBVIOUS
  <2>2. /\ IsFiniteSet(new)
        /\ \A r \in new : NewRow(c, x, r)
        /\ \A r, s \in new : r.id = s.id => r = s
    BY <1>1, <2>1, NewRows
  <2>3. rows' = rows \cup new /\ x \in Nat /\ x < nextXid'
    BY <1>3, <1>4, <1>8, <2>1 DEF Made
  <2>4. /\ Only(c) /\ SameVersion(c) /\ call'[c].at = "commit"
        /\ call'[c].snap = nextXid /\ call'[c].snapshot = DOMAIN txs
    BY <1>1, <1>8, InsertFacts
  <2>5. Passed(c)'
    BY <1>2, <1>5, <2>4 DEF Passed, Named, Tuples, SameVersion
  <2>6. Rows'
    BY <1>1, <1>2, <1>4, <2>2, <2>3, <2>4, <2>5, RowsGrow
  <2>7. Log'
    BY <1>2, <2>4, LogOpened DEF Is
  <2>8. \A r \in rows : Like(r, r) /\ Later(r, r)
    BY <1>1, LaterSelf
  <2>9. \A r \in new : r.id \in Nat /\ r.id >= nextId /\ r.created \notin DOMAIN txs
    BY <1>6, <2>1, <2>2 DEF NewRow
  <2>10. SameViews
    BY <1>1, <1>2, <1>3, <2>3, <2>8, <2>9, ViewsStay
  <2>11. Writing(c)'
    BY <2>4, <2>5 DEF Writing
  <2>12. IsFiniteSet(rows')
    BY <1>3, <2>2, <2>3, FS_Union
  <2>13. \A r \in rows' : (\E s \in rows : Like(s, r)) \/ (r.id \in Nat /\ r.id >= nextId)
    BY <2>3, <2>8, <2>9
  <2> QED
    BY <1>2, <1>3, <1>4, <2>4, <2>6, <2>7, <2>10, <2>11, <2>12, <2>13, StoreKeeps
<1> QED
  BY <1>7, <1>8 DEF Insert

LEMMA CommitKeeps ==
    ASSUME IInv, NEW c \in Callers, Commit(c)
    PROVE  IInv' /\ Frozen
<1>1. Shapes /\ Writers /\ Rows /\ Log
  BY DEF IInv
<1>2. /\ plan[c].kind = "write" /\ call[c].at = "commit" /\ Is(c, "write", "commit")
      /\ txs' = Logged(c, call[c].snap, call[c].snapshot) /\ End(c, "")
      /\ UNCHANGED <<engine, plan, tenants, versions, rows, nextId, nextXid>>
  BY DEF Commit, Is
<1>3. PICK x, snapshot : x = call[c].snap /\ snapshot = call[c].snapshot
  OBVIOUS
<1>4. nextId \in Nat \ {0} /\ nextXid \in Nat \ {0} /\ IsFiniteSet(rows)
  BY <1>1 DEF Shapes
<1>5. nextId' \in Nat /\ nextXid' \in Nat /\ nextId' >= nextId /\ nextXid' >= nextXid
  BY <1>2, <1>4, Equals
<1>6. /\ Only(c) /\ SameVersion(c) /\ SameSnap(c)
      /\ call'[c].at = "done" /\ call'[c].err = ""
  BY <1>1, <1>2, EndFacts
<1>7. x \in 1..(nextXid - 1) /\ x \notin DOMAIN txs /\ snapshot \subseteq DOMAIN txs
  BY <1>1, <1>2, <1>3, OpenHolds DEF Open
<1>8. /\ DOMAIN txs' = DOMAIN txs \cup {x}
      /\ \A y \in DOMAIN txs : txs'[y] = txs[y]
      /\ \A y \in DOMAIN txs' : txs'[y].snapshot \subseteq DOMAIN txs'
  BY <1>1, <1>2, <1>3, <1>7, LoggedHolds
<1>9. Rows'
  BY <1>1, <1>2, <1>4, <1>5, <1>6, RowsStay
<1>10. Log'
  <2>1. DOMAIN txs \subseteq DOMAIN txs' /\ DOMAIN txs' \subseteq 1..(nextXid' - 1)
    BY <1>1, <1>2, <1>7, <1>8 DEF Log
  <2>2. \A d \in Callers : d # c /\ Is(d, "write", "commit") => call[d].snap \notin DOMAIN txs'
    <3>1. \A d \in Callers : d # c /\ Is(d, "write", "commit")
             => call[d].snap \notin DOMAIN txs /\ call[d].snap # call[c].snap
      BY <1>1, <1>2 DEF Log, Open
    <3> QED
      BY <1>3, <1>8, <3>1
  <2>3. ~Is(c, "write", "commit")' /\ call'[c].snap \in DOMAIN txs'
    BY <1>3, <1>6, <1>8 DEF Is, SameSnap
  <2> QED
    BY <1>1, <1>2, <1>4, <1>5, <1>6, <1>8, <2>1, <2>2, <2>3, LogStays
<1>11. \A r \in rows : Like(r, r) /\ Later(r, r)
  BY <1>1, LaterSelf
<1>12. SameViews
  BY <1>1, <1>2, <1>4, <1>8, <1>11, ViewsStay
<1>13. Writing(c)'
  BY <1>6 DEF Writing
<1> QED
  BY <1>2, <1>4, <1>5, <1>6, <1>9, <1>10, <1>11, <1>12, <1>13, StoreKeeps

LEMMA RollbackKeeps ==
    ASSUME IInv, NEW c \in Callers, Rollback(c)
    PROVE  IInv' /\ Frozen
<1>1. Shapes /\ Writers /\ Rows /\ Log
  BY DEF IInv
<1>2. /\ plan[c].kind = "write" /\ call[c].at = "commit" /\ Is(c, "write", "commit")
      /\ rows' = {r \in rows : r.created # call[c].snap}
      /\ End(c, "ERROR_CODE_EXECUTION")
      /\ UNCHANGED <<engine, plan, tenants, versions, nextId, nextXid, txs>>
  BY DEF Rollback, Is
<1>3. nextId \in Nat \ {0} /\ nextXid \in Nat \ {0} /\ IsFiniteSet(rows)
  BY <1>1 DEF Shapes
<1>4. nextId' \in Nat /\ nextXid' \in Nat /\ nextId' >= nextId /\ nextXid' >= nextXid
  BY <1>2, <1>3, Equals
<1>5. rows' \subseteq rows /\ \A r \in rows : r.created # call[c].snap => r \in rows'
  BY <1>2
<1>6. IsFiniteSet(rows')
  BY <1>3, <1>5, FS_Subset
<1>7. /\ Only(c) /\ SameVersion(c) /\ call'[c].at = "done" /\ call'[c].err = "ERROR_CODE_EXECUTION"
  BY <1>1, <1>2, EndFacts
<1>8. call[c].snap \notin DOMAIN txs
  BY <1>1, <1>2, OpenHolds DEF Open
<1>9. Rows'
  BY <1>1, <1>2, <1>3, <1>4, <1>5, <1>7, RowsStay
<1>10. Log'
  <2>1. /\ DOMAIN txs \subseteq 1..(nextXid - 1)
        /\ \A x \in DOMAIN txs : txs[x].snapshot \subseteq DOMAIN txs
        /\ \A d \in Callers : Is(d, "write", "commit") => call[d].snap \notin DOMAIN txs
    BY <1>1 DEF Log, Open
  <2>2. ~Is(c, "write", "commit")' /\ call'[c].err # ""
    BY <1>7 DEF Is
  <2> QED
    BY <1>1, <1>2, <1>3, <1>4, <1>7, <2>1, <2>2, LogStays
<1>11. \A r \in rows : Like(r, r) /\ Later(r, r)
  BY <1>1, LaterSelf
<1>12. \A s \in rows : s.created \in DOMAIN txs => s \in rows'
  BY <1>5, <1>8
<1>13. SameViews
  BY <1>1, <1>2, <1>3, <1>5, <1>11, <1>12, ViewsStay
<1>14. Writing(c)'
  BY <1>7 DEF Writing
<1> QED
  BY <1>2, <1>3, <1>4, <1>5, <1>6, <1>7, <1>9, <1>10, <1>11, <1>13, <1>14, StoreKeeps

LEMMA MemoryWriteKeeps ==
    ASSUME IInv, NEW c \in Callers, MemoryWrite(c)
    PROVE  IInv' /\ Frozen
<1>1. Shapes /\ Writers /\ Rows /\ Log
  BY DEF IInv
<1>2. /\ plan[c].kind = "write" /\ call[c].at = "insert" /\ engine = "memory"
      /\ nextId' = nextId + Len(Tuples(c)) /\ End(c, "")
      /\ UNCHANGED <<engine, plan, tenants, versions, nextXid, txs>>
  BY DEF MemoryWrite, Is
<1>3. PICK kept, new, I, x :
         /\ rows' = kept \cup new /\ kept \subseteq rows /\ x = 0
         /\ I \subseteq DOMAIN Tuples(c) /\ new = Made(c, I, x)
  <2> DEFINE K == {r \in rows : ~SameTuple(r, c)}
             last(i) == \A j \in DOMAIN Tuples(c) : Tuples(c)[j] = Tuples(c)[i] => j <= i
             J == {j \in DOMAIN Tuples(c) : last(j)}
             N == {Row(c, i, 0) : i \in J}
  <2>1. rows' = K \cup N
    BY DEF MemoryWrite
  <2>2. K \subseteq rows /\ J \subseteq DOMAIN Tuples(c)
    OBVIOUS
  <2>3. PICK y : y = 0
    OBVIOUS
  <2>4. N = Made(c, J, y)
    BY <2>3 DEF Made
  <2> HIDE DEF K, J, N
  <2> QED
    BY <2>1, <2>2, <2>3, <2>4, Zenon
<1>4. nextId \in Nat \ {0} /\ nextXid \in Nat \ {0} /\ Len(Tuples(c)) \in Nat /\ IsFiniteSet(rows)
  BY <1>1, TuplesLength DEF Shapes
<1>5. nextId' \in Nat \ {0} /\ nextId' \in Nat /\ nextId' >= nextId
  BY <1>2, <1>4, SomeMore
<1>6. nextXid' \in Nat /\ nextXid' >= nextXid /\ x < nextXid' /\ x \in Nat /\ nextXid' \in Nat \ {0}
  <2>1. nextXid' \in Nat /\ nextXid' >= nextXid /\ nextXid' \in Nat \ {0}
    BY <1>2, <1>4, Equals
  <2>2. x \in Nat /\ x < nextXid'
    BY <1>3, <2>1
  <2> QED
    BY <2>1, <2>2
<1>7. /\ IsFiniteSet(new)
      /\ \A r \in new : NewRow(c, x, r)
      /\ \A r, s \in new : r.id = s.id => r = s
  BY <1>1, <1>3, NewRows
<1>8. /\ Only(c) /\ SameVersion(c) /\ call'[c].at = "done"
  BY <1>1, <1>2, EndFacts
<1>9. Passed(c)
  BY <1>1, <1>2 DEF Writers, Writing
<1>10. Passed(c)'
  BY <1>2, <1>8, <1>9 DEF Passed, Named, Tuples, SameVersion
<1>11. Rows'
  BY <1>1, <1>2, <1>3, <1>5, <1>6, <1>7, <1>8, <1>10, RowsGrow
<1>12. Log'
  <2>1. /\ DOMAIN txs \subseteq 1..(nextXid - 1)
        /\ \A y \in DOMAIN txs : txs[y].snapshot \subseteq DOMAIN txs
        /\ \A d \in Callers : Is(d, "write", "commit") => call[d].snap \notin DOMAIN txs
    BY <1>1 DEF Log, Open
  <2>2. ~Is(c, "write", "commit")' /\ engine # "postgres"
    BY <1>2, <1>8 DEF Is
  <2> QED
    BY <1>1, <1>2, <1>4, <1>6, <1>8, <2>1, <2>2, LogStays
<1>13. \A r \in rows' : (\E s \in rows : Like(s, r)) \/ (r.id \in Nat /\ r.id >= nextId)
  <2>1. \A r \in rows : Like(r, r)
    BY <1>1, LaterSelf
  <2>2. \A r \in new : r.id \in Nat /\ r.id >= nextId
    BY <1>7 DEF NewRow
  <2> QED
    BY <1>3, <2>1, <2>2
<1>14. IsFiniteSet(rows')
  <2>1. IsFiniteSet(kept)
    BY <1>3, <1>4, FS_Subset
  <2> QED
    BY <1>3, <1>7, <2>1, FS_Union
<1>15. Writing(c)' /\ engine # "postgres"
  BY <1>2, <1>8 DEF Writing
<1> QED
  BY <1>2, <1>5, <1>6, <1>8, <1>11, <1>12, <1>13, <1>14, <1>15, StoreKeeps

\* A delete in PostgreSQL expires rows: what each row becomes.
Expire(gone, x, s) == IF s \in gone THEN [s EXCEPT !.expired = x] ELSE s

AllExpired(gone, x) == {[r EXCEPT !.expired = x] : r \in gone}

LEMMA ExpireHolds ==
    ASSUME Rows, NEW gone, \A r \in gone : r.expired = 0, NEW x, x = nextXid, NEW s \in rows,
           NEW r, r = Expire(gone, x, s)
    PROVE  Like(s, r) /\ Later(s, r)
<1>1. s = [y \in RowFields |-> s[y]]
  BY DEF Rows, RowOK
<1>2. CASE s \in gone
  <2>1. r = [s EXCEPT !.expired = x]
    BY <1>2 DEF Expire
  <2>2. /\ r = [y \in RowFields |-> r[y]] /\ r.expired = x
        /\ r.id = s.id /\ r.tenant = s.tenant /\ r.tuple = s.tuple
        /\ r.created = s.created /\ r.by = s.by
    BY <1>1, <2>1 DEF RowFields
  <2> QED
    BY <1>2, <2>2 DEF Like, Later
<1>3. CASE s \notin gone
  BY <1>1, <1>3 DEF Like, Later, Expire
<1> QED
  BY <1>2, <1>3

LEMMA DeleteKeeps ==
    ASSUME IInv, NEW c \in Callers, DeleteRelationships(c)
    PROVE  IInv' /\ Frozen
<1>1. Shapes /\ Rows /\ Log
  BY DEF IInv
<1>2. /\ plan[c].kind = "delete" /\ call[c].at = "new" /\ End(c, "")
      /\ UNCHANGED <<engine, plan, tenants, versions, nextId>>
  BY DEF DeleteRelationships, Is
<1>3. nextId \in Nat \ {0} /\ nextXid \in Nat \ {0} /\ IsFiniteSet(rows)
  BY <1>1 DEF Shapes
<1>4. nextId' \in Nat /\ nextId' >= nextId
  BY <1>2, <1>3, Equals
<1>5. Only(c) /\ call'[c].at = "done"
  BY <1>1, <1>2, EndFacts
<1>6. ~Is(c, "write", "commit")' /\ ~Is(c, "write", "done")'
  BY <1>2 DEF Is
<1>7. /\ DOMAIN txs \subseteq 1..(nextXid - 1)
      /\ \A x \in DOMAIN txs : txs[x].snapshot \subseteq DOMAIN txs
      /\ \A d \in Callers : Is(d, "write", "commit")
            => call[d].snap \notin DOMAIN txs /\ call[d].snap \in 1..(nextXid - 1)
  BY <1>1 DEF Log, Open
<1>8. CASE engine = "memory"
  <2>1. rows' \subseteq rows /\ nextXid' = nextXid /\ txs' = txs
    BY <1>8 DEF DeleteRelationships
  <2>2. nextXid' \in Nat /\ nextXid' >= nextXid
    BY <1>3, <2>1, Equals
  <2>3. Rows'
    BY <1>1, <1>2, <1>3, <1>4, <1>5, <2>1, <2>2, RowsStay
  <2>4. Log'
    BY <1>1, <1>2, <1>3, <1>5, <1>6, <1>7, <2>1, <2>2, LogStays
  <2>5. IsFiniteSet(rows')
    BY <1>3, <2>1, FS_Subset
  <2>6. \A r \in rows' : \E s \in rows : Like(s, r)
    BY <1>1, <2>1, LaterSelf
  <2>7. engine # "postgres"
    BY <1>8
  <2> QED
    BY <1>2, <1>3, <1>4, <1>5, <2>1, <2>3, <2>4, <2>5, <2>6, <2>7, StoreKeeps
<1>9. CASE engine # "memory"
  <2>1. PICK gone, x :
           /\ x = nextXid /\ gone \subseteq rows /\ \A r \in gone : r.expired = 0
           /\ rows' = (rows \ gone) \cup AllExpired(gone, x)
    <3> DEFINE G == {r \in Matching(plan[c].filter) : r.expired = 0 /\ ~Pending(r)}
    <3>1. PICK y : y = nextXid
      OBVIOUS
    <3>2. rows' = (rows \ G) \cup AllExpired(G, y)
      BY <1>9, <3>1 DEF DeleteRelationships, AllExpired
    <3>3. G \subseteq rows /\ \A r \in G : r.expired = 0
      BY DEF Matching
    <3> HIDE DEF G
    <3> QED
      BY <3>1, <3>2, <3>3, Zenon
  <2>2. txs' = Logged(c, nextXid, DOMAIN txs) /\ nextXid' = nextXid + 1
    BY <1>9 DEF DeleteRelationships
  <2>3. nextXid' \in Nat \ {0} /\ nextXid' \in Nat /\ nextXid' >= nextXid /\ nextXid < nextXid'
    BY <1>3, <2>2, OneMore
  <2>4. 1..(nextXid - 1) \subseteq 1..(nextXid' - 1) /\ nextXid \in 1..(nextXid' - 1)
    BY <1>3, <2>2, OneMore
  <2>5. nextXid \notin 1..(nextXid - 1)
    BY <1>3, NotBefore
  <2>6. nextXid \notin DOMAIN txs
    BY <1>7, <2>5
  <2>7. /\ DOMAIN txs' = DOMAIN txs \cup {nextXid}
        /\ \A y \in DOMAIN txs : txs'[y] = txs[y]
        /\ \A y \in DOMAIN txs' : txs'[y].snapshot \subseteq DOMAIN txs'
    BY <1>1, <2>2, <2>6, LoggedHolds
  <2>8. Log'
    <3>1. DOMAIN txs \subseteq DOMAIN txs' /\ DOMAIN txs' \subseteq 1..(nextXid' - 1)
      BY <1>7, <2>4, <2>7
    <3>2. \A d \in Callers : Is(d, "write", "commit") => call[d].snap \notin DOMAIN txs'
      BY <1>7, <2>5, <2>7
    <3> QED
      BY <1>1, <1>2, <1>3, <1>5, <1>6, <2>3, <2>7, <3>1, <3>2, LogStays
  <2> DEFINE g == [s \in rows |-> Expire(gone, x, s)]
  <2>9. g = [s \in rows |-> g[s]] /\ rows' = {g[s] : s \in rows}
    BY <2>1 DEF Expire, AllExpired
  <2>10. ASSUME NEW s \in rows
         PROVE  Like(s, g[s]) /\ Later(s, g[s])
    <3>1. PICK r : r = Expire(gone, x, s)
      OBVIOUS
    <3>2. Like(s, r) /\ Later(s, r)
      BY <1>1, <2>1, <3>1, ExpireHolds
    <3> QED
      BY <3>1, <3>2
  <2> HIDE DEF g
  <2>11. IsFiniteSet(rows')
    BY <1>3, <2>9, ImageFinite
  <2>12. \A r \in rows' : \E s \in rows : r = g[s] /\ Like(s, r) /\ Later(s, r)
    BY <2>9, <2>10
  <2>13. \A s \in rows : \E r \in rows' : Later(s, r)
    BY <2>9, <2>10
  <2>14. SameViews
    BY <1>1, <1>3, <2>7, <2>12, <2>13, ViewsStay
  <2>15. Rows'
    <3>1. ASSUME NEW r \in rows'
          PROVE  RowOK(r)' /\ Origin(r)'
      <4>1. PICK s \in rows : Like(s, r)
        BY <2>12
      <4>2. RowOK(s) /\ Origin(s)
        BY <1>1 DEF Rows
      <4>3. s.by # c
        BY <1>2, <4>2 DEF Origin
      <4>4. Origin(s)'
        BY <1>2, <1>5, <4>2, <4>3, OriginStays
      <4>5. /\ r = [y \in RowFields |-> r[y]]
            /\ r.id = s.id /\ r.tenant = s.tenant /\ r.tuple = s.tuple
            /\ r.created = s.created /\ r.by = s.by
        BY <4>1 DEF Like
      <4>6. Origin(r)'
        BY <4>4, <4>5 DEF Origin
      <4>7. /\ s.id \in Nat \ {0} /\ s.id < nextId /\ s.created \in Nat /\ s.created < nextXid
        BY <4>2 DEF RowOK
      <4>8. s.id < nextId'
        BY <1>2, <4>7
      <4>9. s.created < nextXid'
        BY <1>3, <2>3, <4>7
      <4>10. RowOK(r)'
        BY <4>5, <4>7, <4>8, <4>9 DEF RowOK
      <4> QED
        BY <4>6, <4>10
    <3>2. ASSUME NEW r \in rows', NEW q \in rows', r.id = q.id
          PROVE  r = q
      <4>1. PICK s \in rows : r = g[s] /\ Like(s, r)
        BY <2>12
      <4>2. PICK u \in rows : q = g[u] /\ Like(u, q)
        BY <2>12
      <4>3. s.id = u.id
        BY <3>2, <4>1, <4>2 DEF Like
      <4>4. s = u
        BY <1>1, <4>3 DEF Rows
      <4> QED
        BY <4>1, <4>2, <4>4
    <3> QED
      BY <3>1, <3>2 DEF Rows
  <2>16. \A r \in rows' : \E s \in rows : Like(s, r)
    BY <2>12
  <2> QED
    BY <1>2, <1>3, <1>4, <1>5, <2>3, <2>8, <2>11, <2>14, <2>15, <2>16, StoreKeeps
<1> QED
  BY <1>8, <1>9

-----------------------------------------------------------------------------
\* More schemas, or nothing: no call moves.
LEMMA SchemasKeep ==
    ASSUME IInv, UNCHANGED <<engine, plan, call, tenants, rows, nextId, nextXid, txs>>,
           versions' \in [Tenants -> Nat], \A t \in Tenants : versions'[t] >= versions[t]
    PROVE  IInv' /\ Frozen
<1>1. /\ Shapes /\ Writers /\ Rows /\ Log
      /\ Turns /\ Reads /\ Tokens /\ TenantsBalanced
  BY DEF IInv
<1>2. Shapes'
  BY <1>1 DEF Shapes
<1>3. ASSUME NEW c \in Callers, Named(c)
      PROVE  Named(c)'
  BY <1>3 DEF Named
<1>4. ASSUME NEW c \in Callers, Passed(c)
      PROVE  Passed(c)'
  <2>1. plan[c].tenant \in Tenants
    BY <1>1, PlanHolds DEF Shapes
  <2>2. /\ versions[plan[c].tenant] \in Nat /\ versions'[plan[c].tenant] \in Nat
        /\ versions'[plan[c].tenant] >= versions[plan[c].tenant]
    BY <1>1, <2>1 DEF Shapes
  <2>3. call[c].version \in Nat /\ call[c].version <= versions[plan[c].tenant]
    BY <1>4 DEF Passed, Named
  <2>4. call[c].version <= versions'[plan[c].tenant]
    BY <2>2, <2>3
  <2>5. /\ Named(c)
        /\ WriteError(Schemas[plan[c].tenant][call[c].version], Tuples(c)) = ""
    BY <1>4 DEF Passed
  <2>6. Named(c)'
    BY <1>3, <2>5
  <2>7. Tuples(c)' = Tuples(c)
    BY DEF Tuples
  <2> QED
    BY <2>4, <2>5, <2>6, <2>7 DEF Passed
<1>5. Writers'
  BY <1>1, <1>3, <1>4 DEF Writers, Writing
<1>6. Rows'
  <2>1. ASSUME NEW r \in rows
        PROVE  RowOK(r)' /\ Origin(r)'
    <3>1. RowOK(r) /\ Origin(r)
      BY <1>1 DEF Rows
    <3>2. Passed(r.by)'
      BY <1>4, <3>1 DEF Origin
    <3> QED
      BY <3>1, <3>2 DEF RowOK, Origin, Tuples
  <2> QED
    BY <1>1, <2>1 DEF Rows
<1>7. Log'
  BY <1>1 DEF Log, Open, Is
<1>8. Turns'
  BY <1>1 DEF Turns, Turn
<1>9. Reads'
  BY <1>1 DEF Reads, Reading, Mine
<1>10. Tokens'
  <2>1. ASSUME NEW c \in Callers
        PROVE  Shown(c)' = Shown(c)
    BY DEF Shown, Ids, View, Matching, SnapshotQuery
  <2> QED
    BY <1>1, <2>1 DEF Tokens, Token, AtToken, Pinned
<1>11. TenantsBalanced'
  <2>1. \A id : Balanced(id)' <=> Balanced(id)
    BY DEF Balanced, Told, Present, InMigration, Migrated
  <2> QED
    BY <1>1, <2>1, BalancedEach
<1>12. SameViews
  BY DEF SameViews, Ids, View, Matching, SnapshotQuery
<1> QED
  BY <1>2, <1>5, <1>6, <1>7, <1>8, <1>9, <1>10, <1>11, <1>12 DEF IInv, Frozen

LEMMA WriteSchemaKeeps ==
    ASSUME IInv, NEW t \in Tenants, WriteSchema(t)
    PROVE  IInv' /\ Frozen
<1>1. versions \in [Tenants -> Nat]
  BY DEF IInv, Shapes
<1>2. /\ versions' = [versions EXCEPT ![t] = versions[t] + 1]
      /\ UNCHANGED <<engine, plan, call, tenants, rows, nextId, nextXid, txs>>
  BY DEF WriteSchema
<1>3. versions' \in [Tenants -> Nat] /\ \A u \in Tenants : versions'[u] >= versions[u]
  BY <1>1, <1>2
<1> QED
  BY <1>2, <1>3, SchemasKeep

LEMMA NothingKeeps ==
    ASSUME IInv, UNCHANGED vars
    PROVE  IInv' /\ Frozen
<1>1. versions \in [Tenants -> Nat]
  BY DEF IInv, Shapes
<1>2. /\ versions' = versions
      /\ UNCHANGED <<engine, plan, call, tenants, rows, nextId, nextXid, txs>>
  BY DEF vars, relationVars
<1>3. versions' \in [Tenants -> Nat] /\ \A u \in Tenants : versions'[u] >= versions[u]
  BY <1>1, <1>2
<1> QED
  BY <1>2, <1>3, SchemasKeep

-----------------------------------------------------------------------------
LEMMA InitHolds == Init => IInv
<1> SUFFICES ASSUME Init
             PROVE  IInv
  OBVIOUS
<1>1. /\ plan \in Plans /\ call = [c \in Callers |-> NewCall]
      /\ tenants = Migrated
      /\ versions = [t \in Tenants |-> 0] /\ rows = {} /\ nextId = 1 /\ nextXid = 1
      /\ txs = [x \in {} |-> 0]
  BY DEF Init, TenancyInit
<1>2. NewCall = [x \in CallFields |-> NewCall[x]]
  BY DEF NewCall, CallFields
<1>3. /\ NewCall.at = "new" /\ NewCall.err = "" /\ NewCall.token = 0 /\ NewCall.got = <<>>
  BY DEF NewCall, Absent
<1>4. \A c \in Callers : call[c] = NewCall
  BY <1>1
<1>5. Shapes
  <2>1. IsFiniteSet({})
    BY FS_EmptySet
  <2>5. IsFiniteSet(tenants) /\ tenants \subseteq Nat \ {0}
    BY <1>1, <2>1, PlanAssumption, FS_Singleton DEF Migrated, Absent
  <2>2. versions \in [Tenants -> Nat]
    BY <1>1
  <2>3. nextId \in Nat \ {0} /\ nextXid \in Nat \ {0}
    BY <1>1
  <2>4. call = [c \in Callers |-> call[c]] /\ \A c \in Callers : call[c] = [x \in CallFields |-> call[c][x]]
    <3> HIDE DEF NewCall
    <3> QED
      BY <1>1, <1>2
  <2> QED
    BY <1>1, <2>1, <2>2, <2>3, <2>4, <2>5 DEF Shapes
<1>6. Writers
  BY <1>3, <1>4 DEF Writers, Writing
<1>7. Rows
  BY <1>1 DEF Rows
<1>8. Log
  BY <1>1, <1>3, <1>4 DEF Log, Is
<1>9. Turns
  <2>1. Ordered(<<>>)
    BY DEF Ordered
  <2> QED
    BY <1>3, <1>4, <2>1 DEF Turns, Turn
<1>10. Reads
  <2>1. ASSUME NEW c \in Callers
        PROVE  ToSet(call[c].got) = {}
    BY <1>3, <1>4, NoKeys
  <2> QED
    BY <1>1, <2>1 DEF Reads, Reading
<1>11. Tokens
  BY <1>3, <1>4 DEF Tokens, Token
<1>12. TenantsBalanced
  <2> SUFFICES ASSUME NEW id
               PROVE  Balanced(id)
    BY BalancedEach
  <2>1. \A kind, errs : Told(kind, id, errs) = {}
    BY <1>3, <1>4 DEF Told
  <2>2. Cardinality({}) = 0
    BY FS_EmptySet
  <2>3. \A kind, errs : Cardinality(Told(kind, id, errs)) = 0
    BY <2>1, <2>2
  <2>4. Present(id) = InMigration(id) /\ Present(id) \in Nat
    BY <1>1 DEF Present, InMigration
  <2> QED
    BY <2>3, <2>4 DEF Balanced
<1> QED
  BY <1>5, <1>6, <1>7, <1>8, <1>9, <1>10, <1>11, <1>12 DEF IInv

LEMMA NextKeeps == IInv /\ [Next]_vars => IInv' /\ Frozen
<1> SUFFICES ASSUME IInv, [Next]_vars
             PROVE  IInv' /\ Frozen
  OBVIOUS
<1>1. ASSUME NEW t \in Tenants, WriteSchema(t)
      PROVE  IInv' /\ Frozen
  BY <1>1, WriteSchemaKeeps
<1>2. ASSUME NEW c \in Callers, Step(c)
      PROVE  IInv' /\ Frozen
  <2>1. CASE PinVersion(c)
    BY <2>1, PinKeeps
  <2>2. CASE Validate(c)
    BY <2>2, ValidateKeeps
  <2>3. CASE Insert(c)
    BY <2>3, InsertKeeps
  <2>4. CASE Commit(c)
    BY <2>4, CommitKeeps
  <2>5. CASE Rollback(c)
    BY <2>5, RollbackKeeps
  <2>6. CASE MemoryWrite(c)
    BY <2>6, MemoryWriteKeeps
  <2>7. CASE DeleteRelationships(c)
    BY <2>7, DeleteKeeps
  <2>8. CASE ReadRelationships(c)
    BY <2>8, ReadKeeps
  <2>9. CASE ReadFails(c)
    BY <2>9, ReadFailsKeeps
  <2>10. CASE TenancyStep(c) /\ UNCHANGED relationVars
    <3>1. UNCHANGED <<engine, plan, relationVars>>
      BY <2>10 DEF TenancyStep
    <3>2. CASE ListTenants(c)
      BY <3>1, <3>2, ListKeeps
    <3>3. CASE CreateTenant(c) \/ DeleteTenant(c) \/ TenantFails(c)
      BY <3>1, <3>3, TenantKeeps
    <3> QED
      BY <2>10, <3>2, <3>3 DEF TenancyStep
  <2> QED
    BY <1>2, <2>1, <2>2, <2>3, <2>4, <2>5, <2>6, <2>7, <2>8, <2>9, <2>10 DEF Step
<1>3. CASE UNCHANGED vars
  BY <1>3, NothingKeeps
<1> QED
  BY <1>1, <1>2, <1>3 DEF Next

\* Writes, deletes, reads and tenant calls, in any interleaving, keep the
\* inductive invariant.
THEOREM InvariantHolds == Spec => []IInv
  BY InitHolds, NextKeeps, PTL DEF Spec

\* Every stored relationship is one that a schema of its tenant allows: the one
\* its writer named, or one no older than the head when it asked; validation and
\* insertion may be any number of schema writes apart.
THEOREM StoredValidHolds == Spec => []StoredValid
<1>1. IInv => StoredValid
  <2> SUFFICES ASSUME IInv, NEW r \in rows
               PROVE  LET v == call[r.by].version
                      IN /\ v \in 1..versions[r.tenant] /\ Allows(Schemas[r.tenant][v], r.tuple)
                         /\ v = plan[r.by].version \/ v >= call[r.by].since
    BY DEF StoredValid
  <2>1. Shapes /\ Origin(r)
    BY DEF IInv, Rows
  <2>2. PICK c \in Callers : c = r.by
    BY <2>1 DEF Origin
  <2>3. PICK i \in DOMAIN plan[c].tuples : r.tuple = Tuples(c)[i]
    BY <2>1, <2>2 DEF Origin
  <2>4. Passed(c) /\ r.tenant = plan[c].tenant
    BY <2>1, <2>2 DEF Origin
  <2>5. Allows(Schemas[r.tenant][call[c].version], r.tuple)
    BY <2>1, <2>3, <2>4, PassedIsAllowed DEF Shapes
  <2>6. /\ call[c].version \in Nat \ {0} /\ call[c].version <= versions[r.tenant]
        /\ call[c].version = plan[c].version \/ call[c].version >= call[c].since
    BY <2>4 DEF Passed, Named
  <2>7. versions[r.tenant] \in Nat
    BY <2>1, <2>4, PlanHolds DEF Shapes
  <2>8. call[c].version \in 1..versions[r.tenant]
    BY <2>6, <2>7
  <2> QED
    BY <2>2, <2>5, <2>6, <2>8
<1> QED
  BY <1>1, InvariantHolds, PTL

-----------------------------------------------------------------------------
(* PostgreSQL: the rows of one relationship follow each other.             *)

\* A set of transactions that has, with each, all that it had seen.
ClosedIn(S, log) == \A y \in S : log[y].snapshot \subseteq S

\* What the transaction that made a row had seen.
SnapshotOf(r) == IF Pending(r) THEN call[r.by].snapshot ELSE txs[r.created].snapshot

Alike(r, s) == r.tenant = s.tenant /\ r.tuple = s.tuple

Follows(s, r) == r.expired \in SnapshotOf(s)

Opened(r) == Pending(r) => Is(r.by, "write", "commit") /\ call[r.by].snap = r.created

\* Snapshots are closed, and of two rows of one relationship the maker of one
\* had seen the end of the other.
Succession ==
    /\ \A x \in DOMAIN txs : ClosedIn(txs[x].snapshot, txs)
    /\ \A c \in Callers : Is(c, "write", "commit") => ClosedIn(call[c].snapshot, txs)
    /\ \A r \in rows : r.expired \in DOMAIN txs \cup {0} /\ Opened(r)
    /\ \A r, s \in rows : Alike(r, s) /\ r # s => Follows(s, r) \/ Follows(r, s)

Successive == engine = "postgres" => Succession

\* Steps that touch neither rows nor transactions.
LEMMA SuccessionStays ==
    ASSUME IInv, Succession, UNCHANGED <<plan, rows, txs>>,
           \A d \in Callers : Is(d, "write", "commit") \/ Is(d, "write", "commit")' => call'[d] = call[d]
    PROVE  Succession'
<1>1. ASSUME NEW d \in Callers
      PROVE  /\ Is(d, "write", "commit")' <=> Is(d, "write", "commit")
             /\ Is(d, "write", "commit") => call'[d] = call[d]
  BY DEF Is
<1>2. ASSUME NEW r \in rows
      PROVE  SnapshotOf(r)' = SnapshotOf(r) /\ Opened(r)' /\ r.by \in Callers
  <2>1. r.by \in Callers
    BY DEF IInv, Rows, Origin
  <2>2. Opened(r)
    BY DEF Succession
  <2>3. Pending(r)' <=> Pending(r)
    BY DEF Pending
  <2> QED
    BY <1>1, <2>1, <2>2, <2>3 DEF SnapshotOf, Opened
<1>3. \A S : ClosedIn(S, txs') <=> ClosedIn(S, txs)
  BY DEF ClosedIn
<1>4. \A c \in Callers : Is(c, "write", "commit")' => ClosedIn(call'[c].snapshot, txs')
  BY <1>1, <1>3 DEF Succession
<1>5. \A r, s \in rows : Alike(r, s) /\ r # s => (Follows(s, r) \/ Follows(r, s))'
  BY <1>2 DEF Succession, Follows
<1> QED
  BY <1>2, <1>3, <1>4, <1>5 DEF Succession, Alike

LEMMA QuietSuccession ==
    ASSUME IInv, Successive, NEW c \in Callers, Only(c), UNCHANGED <<engine, plan, rows, txs>>,
           ~Is(c, "write", "commit"), ~Is(c, "write", "commit")'
    PROVE  Successive'
<1>1. \A d \in Callers : Is(d, "write", "commit") \/ Is(d, "write", "commit")' => call'[d] = call[d]
  BY DEF Only
<1> QED
  BY <1>1, SuccessionStays DEF Successive

\* A write in PostgreSQL whose tuples are not all different is refused.
LEMMA DifferentTuples ==
    ASSUME Shapes, NEW c \in Callers, ~(Cardinality(ToSet(Tuples(c))) < Len(Tuples(c))),
           NEW i \in DOMAIN Tuples(c), NEW j \in DOMAIN Tuples(c), Tuples(c)[i] = Tuples(c)[j]
    PROVE  i = j
<1> DEFINE s == Tuples(c)
           n == Len(Tuples(c))
           T == ToSet(Tuples(c))
<1>1. n \in Nat /\ DOMAIN s = 1..n
  BY TuplesLength
<1>2. s = [k \in 1..n |-> s[k]]
  BY <1>1 DEF Tuples
<1>3. T = {s[k] : k \in 1..n}
  BY <1>1 DEF ToSet
<1> HIDE DEF s, n, T
<1>4. s \in Surjection(1..n, T)
  BY <1>2, <1>3 DEF Surjection
<1>5. IsFiniteSet(1..n) /\ Cardinality(1..n) = n
  BY <1>1, FS_Interval
<1>6. IsFiniteSet(T) /\ Cardinality(T) <= n
  BY <1>4, <1>5, FS_Surjection
<1>7. Cardinality(T) = n
  <2>1. Cardinality(T) \in Nat /\ ~(Cardinality(T) < n)
    BY <1>6, FS_CardinalityType DEF T, n
  <2> QED
    BY <1>1, <1>6, <2>1
<1>8. s \in Injection(1..n, T)
  BY <1>4, <1>5, <1>7, FS_SurjSameCardinalityImpliesInj
<1> QED
  BY <1>1, <1>8 DEF Injection, IsInjective, s

LEMMA InsertSuccession ==
    ASSUME IInv, Successive, NEW c \in Callers, Insert(c)
    PROVE  Successive'
<1>1. Shapes /\ Rows /\ Log
  BY DEF IInv
<1>2. /\ Is(c, "write", "insert") /\ engine = "postgres" /\ Succession
      /\ UNCHANGED <<engine, plan, txs>>
      /\ ~Is(c, "write", "commit")
  BY DEF Insert, Is, Successive
<1>3. CASE End(c, "ERROR_CODE_UNIQUE_CONSTRAINT") /\ rows' = rows
  <2>1. Only(c) /\ call'[c].at = "done"
    BY <1>1, <1>3, EndFacts
  <2> QED
    BY <1>2, <1>3, <2>1, QuietSuccession DEF Is
<1>4. CASE /\ ~\E r \in rows : SameTuple(r, c) /\ r.expired = 0
           /\ ~(Cardinality(ToSet(Tuples(c))) < Len(Tuples(c)))
           /\ rows' = rows \cup {Row(c, i, nextXid) : i \in DOMAIN Tuples(c)}
           /\ call' = [call EXCEPT ![c].at = "commit", ![c].snap = nextXid,
                                   ![c].snapshot = DOMAIN txs]
  <2>1. PICK new, x : x = nextXid /\ new = {Row(c, i, x) : i \in DOMAIN Tuples(c)}
    OBVIOUS
  <2>2. /\ Only(c) /\ call'[c].at = "commit"
        /\ call'[c].snap = x /\ call'[c].snapshot = DOMAIN txs /\ rows' = rows \cup new
    <3>1. PICK snapshot : snapshot = DOMAIN txs
      OBVIOUS
    <3>2. call' = [call EXCEPT ![c].at = "commit", ![c].snap = x, ![c].snapshot = snapshot]
      BY <1>4, <2>1, <3>1
    <3>3. Only(c) /\ call'[c].at = "commit" /\ call'[c].snap = x /\ call'[c].snapshot = snapshot
      BY <1>1, <3>2, InsertFacts
    <3> QED
      BY <1>4, <2>1, <3>1, <3>3
  <2>3. x \notin DOMAIN txs
    <3>1. DOMAIN txs \subseteq 1..(nextXid - 1) /\ nextXid \notin 1..(nextXid - 1)
      BY <1>1, NotBefore DEF Log, Shapes
    <3> QED
      BY <2>1, <3>1
  <2>4. ASSUME NEW s \in new
        PROVE  \E i \in DOMAIN Tuples(c) : /\ s = Row(c, i, x) /\ s.tuple = Tuples(c)[i]
                                           /\ s.tenant = plan[c].tenant /\ s.by = c
                                           /\ s.created = x /\ s.expired = 0
    BY <2>1 DEF Row
  <2>5. ASSUME NEW d \in Callers, Is(d, "write", "commit")'
        PROVE  d = c \/ (Is(d, "write", "commit") /\ call'[d] = call[d])
    BY <1>2, <2>2, <2>5 DEF Only, Is
  <2>6. \A S : ClosedIn(S, txs') <=> ClosedIn(S, txs)
    BY <1>2 DEF ClosedIn
  <2>7. ClosedIn(DOMAIN txs, txs)
    BY <1>1 DEF ClosedIn, Log
  <2>8. ASSUME NEW r \in rows
        PROVE  /\ SnapshotOf(r)' = SnapshotOf(r) /\ Opened(r)'
               /\ r.expired \in DOMAIN txs \cup {0}
    <3>1. r.by \in Callers /\ Opened(r) /\ r.expired \in DOMAIN txs \cup {0}
      BY <1>1, <1>2 DEF Rows, Origin, Succession
    <3>2. Pending(r)' <=> Pending(r)
      BY <1>2 DEF Pending
    <3>3. CASE Pending(r)
      <4>1. Is(r.by, "write", "commit") /\ call[r.by].snap = r.created
        BY <3>1, <3>3 DEF Opened
      <4>2. call'[r.by] = call[r.by]
        BY <1>2, <2>2, <3>1, <4>1 DEF Only
      <4> QED
        BY <1>2, <3>1, <3>2, <3>3, <4>1, <4>2 DEF SnapshotOf, Opened, Is
    <3>4. CASE ~Pending(r)
      BY <1>2, <3>1, <3>2, <3>4 DEF SnapshotOf, Opened
    <3> QED
      BY <3>3, <3>4
  <2>9. ASSUME NEW s \in new
        PROVE  /\ SnapshotOf(s)' = DOMAIN txs /\ Opened(s)' /\ s.expired = 0
    <3>1. s.by = c /\ s.created = x /\ s.expired = 0
      BY <2>4
    <3>2. Pending(s)'
      BY <1>2, <2>3, <3>1 DEF Pending
    <3> QED
      BY <1>2, <2>2, <3>1, <3>2 DEF SnapshotOf, Opened, Is
  <2>10. ASSUME NEW r \in rows, NEW s \in new, Alike(r, s)
         PROVE  r.expired \in DOMAIN txs
    <3>1. PICK i \in DOMAIN Tuples(c) : s.tuple = Tuples(c)[i] /\ s.tenant = plan[c].tenant
      BY <2>4
    <3>2. SameTuple(r, c)
      BY <2>10, <3>1 DEF SameTuple, Alike, ToSet
    <3>3. r.expired # 0
      BY <1>4, <3>2
    <3> QED
      BY <2>8, <3>3
  <2>11. ASSUME NEW r \in new, NEW s \in new, Alike(r, s)
         PROVE  r = s
    <3>1. PICK i \in DOMAIN Tuples(c) : r = Row(c, i, x) /\ r.tuple = Tuples(c)[i]
      BY <2>4
    <3>2. PICK j \in DOMAIN Tuples(c) : s = Row(c, j, x) /\ s.tuple = Tuples(c)[j]
      BY <2>4
    <3>3. i = j
      BY <1>1, <1>4, <2>11, <3>1, <3>2, DifferentTuples DEF Alike
    <3> QED
      BY <3>1, <3>2, <3>3
  <2>12. ASSUME NEW r \in rows', NEW s \in rows', Alike(r, s), r # s
         PROVE  (Follows(s, r) \/ Follows(r, s))'
    <3>1. CASE r \in rows /\ s \in rows
      <4>1. Follows(s, r) \/ Follows(r, s)
        BY <1>2, <2>12, <3>1 DEF Succession
      <4> QED
        BY <2>8, <3>1, <4>1 DEF Follows
    <3>2. CASE r \in rows /\ s \in new
      BY <2>9, <2>10, <2>12, <3>2 DEF Follows
    <3>3. CASE r \in new /\ s \in rows
      BY <2>9, <2>10, <2>12, <3>3 DEF Follows, Alike
    <3>4. CASE r \in new /\ s \in new
      BY <2>11, <2>12, <3>4
    <3> QED
      BY <2>2, <3>1, <3>2, <3>3, <3>4
  <2>13. \A y \in DOMAIN txs' : ClosedIn(txs'[y].snapshot, txs')
    BY <1>2, <2>6 DEF Succession
  <2>14. \A d \in Callers : Is(d, "write", "commit")' => ClosedIn(call'[d].snapshot, txs')
    BY <1>2, <2>2, <2>5, <2>6, <2>7 DEF Succession
  <2>15. \A r \in rows' : r.expired \in DOMAIN txs' \cup {0} /\ Opened(r)'
    BY <1>2, <2>2, <2>8, <2>9
  <2>16. Succession'
    BY <2>12, <2>13, <2>14, <2>15 DEF Succession, Alike
  <2> QED
    BY <2>16 DEF Successive
<1> QED
  BY <1>3, <1>4 DEF Insert

\* A transaction is logged: what the makers of rows had seen stays.
LEMMA CommitSuccession ==
    ASSUME IInv, Successive, NEW c \in Callers, Commit(c)
    PROVE  Successive'
<1>1. Shapes /\ Rows /\ Log
  BY DEF IInv
<1>2. /\ Is(c, "write", "commit") /\ txs' = Logged(c, call[c].snap, call[c].snapshot) /\ End(c, "")
      /\ UNCHANGED <<engine, plan, rows>>
  BY DEF Commit
<1>3. SUFFICES ASSUME engine = "postgres", Succession
               PROVE  Succession'
  BY <1>2 DEF Successive
<1>4. PICK x, snapshot : x = call[c].snap /\ snapshot = call[c].snapshot
  OBVIOUS
<1>5. x \notin DOMAIN txs /\ snapshot \subseteq DOMAIN txs
  BY <1>1, <1>2, <1>4, OpenHolds DEF Open
<1>6. /\ DOMAIN txs' = DOMAIN txs \cup {x} /\ txs'[x].snapshot = snapshot
      /\ \A y \in DOMAIN txs : txs'[y] = txs[y]
  BY <1>2, <1>4, <1>5 DEF Logged
<1>7. Only(c) /\ call'[c].at = "done"
  BY <1>1, <1>2, EndFacts
<1>8. ASSUME NEW S, S \subseteq DOMAIN txs, ClosedIn(S, txs)
      PROVE  ClosedIn(S, txs')
  BY <1>6, <1>8 DEF ClosedIn
<1>9. \A y \in DOMAIN txs' : ClosedIn(txs'[y].snapshot, txs')
  <2>1. ClosedIn(snapshot, txs')
    BY <1>2, <1>3, <1>4, <1>5, <1>8 DEF Succession
  <2>2. \A y \in DOMAIN txs : ClosedIn(txs[y].snapshot, txs')
    BY <1>1, <1>3, <1>8 DEF Succession, Log
  <2> QED
    BY <1>6, <2>1, <2>2
<1>10. ASSUME NEW d \in Callers, Is(d, "write", "commit")'
       PROVE  ClosedIn(call'[d].snapshot, txs')
  <2>1. d # c /\ Is(d, "write", "commit") /\ call'[d] = call[d]
    BY <1>2, <1>7, <1>10 DEF Only, Is
  <2> QED
    BY <1>1, <1>3, <1>8, <2>1, OpenHolds DEF Succession, Open
<1>11. ASSUME NEW r \in rows
       PROVE  SnapshotOf(r)' = SnapshotOf(r) /\ Opened(r)' /\ r.expired \in DOMAIN txs' \cup {0}
  <2>1. r.by \in Callers /\ Opened(r) /\ r.expired \in DOMAIN txs \cup {0}
    BY <1>1, <1>3 DEF Rows, Origin, Succession
  <2>2. CASE ~Pending(r)
    <3>1. r.created \in DOMAIN txs /\ ~Pending(r)'
      BY <1>6, <2>2 DEF Pending
    <3> QED
      BY <1>6, <2>1, <2>2, <3>1 DEF SnapshotOf, Opened
  <2>3. CASE Pending(r) /\ r.by = c
    <3>1. r.created = x /\ ~Pending(r)'
      BY <1>4, <1>6, <2>1, <2>3 DEF Opened, Pending
    <3> QED
      BY <1>4, <1>6, <2>1, <2>3, <3>1 DEF SnapshotOf, Opened
  <2>4. CASE Pending(r) /\ r.by # c
    <3>1. Is(r.by, "write", "commit") /\ call[r.by].snap = r.created /\ call'[r.by] = call[r.by]
      BY <1>7, <2>1, <2>4 DEF Opened, Only
    <3>2. r.created # x
      BY <1>1, <1>2, <1>4, <2>1, <2>4, <3>1 DEF Log
    <3>3. Pending(r)'
      BY <1>6, <2>4, <3>2 DEF Pending
    <3> QED
      BY <1>2, <1>6, <2>1, <2>4, <3>1, <3>3 DEF SnapshotOf, Opened, Is
  <2> QED
    BY <2>2, <2>3, <2>4
<1>12. \A r, s \in rows : Alike(r, s) /\ r # s => (Follows(s, r) \/ Follows(r, s))'
  BY <1>3, <1>11 DEF Succession, Follows
<1> QED
  BY <1>2, <1>9, <1>10, <1>11, <1>12 DEF Succession, Alike

LEMMA RollbackSuccession ==
    ASSUME IInv, Successive, NEW c \in Callers, Rollback(c)
    PROVE  Successive'
<1>1. Shapes /\ Rows /\ Log
  BY DEF IInv
<1>2. /\ Is(c, "write", "commit") /\ rows' = {r \in rows : r.created # call[c].snap}
      /\ End(c, "ERROR_CODE_EXECUTION") /\ UNCHANGED <<engine, plan, txs>>
  BY DEF Rollback
<1>3. SUFFICES ASSUME engine = "postgres", Succession
               PROVE  Succession'
  BY <1>2 DEF Successive
<1>4. Only(c) /\ call'[c].at = "done"
  BY <1>1, <1>2, EndFacts
<1>5. \A S : ClosedIn(S, txs') <=> ClosedIn(S, txs)
  BY <1>2 DEF ClosedIn
<1>6. \A y \in DOMAIN txs' : ClosedIn(txs'[y].snapshot, txs')
  BY <1>2, <1>3, <1>5 DEF Succession
<1>7. ASSUME NEW d \in Callers, Is(d, "write", "commit")'
      PROVE  ClosedIn(call'[d].snapshot, txs')
  <2>1. d # c /\ Is(d, "write", "commit") /\ call'[d] = call[d]
    BY <1>2, <1>4, <1>7 DEF Only, Is
  <2> QED
    BY <1>3, <1>5, <2>1 DEF Succession
<1>8. ASSUME NEW r \in rows'
      PROVE  SnapshotOf(r)' = SnapshotOf(r) /\ Opened(r)' /\ r.expired \in DOMAIN txs' \cup {0}
  <2>1. r \in rows /\ r.by \in Callers /\ Opened(r) /\ r.expired \in DOMAIN txs \cup {0}
        /\ r.created # call[c].snap
    BY <1>1, <1>2, <1>3 DEF Rows, Origin, Succession
  <2>2. Pending(r)' <=> Pending(r)
    BY <1>2 DEF Pending
  <2>3. CASE ~Pending(r)
    BY <1>2, <2>1, <2>2, <2>3 DEF SnapshotOf, Opened
  <2>4. CASE Pending(r)
    <3>1. Is(r.by, "write", "commit") /\ call[r.by].snap = r.created /\ r.by # c
      BY <2>1, <2>4 DEF Opened
    <3>2. call'[r.by] = call[r.by]
      BY <1>4, <2>1, <3>1 DEF Only
    <3> QED
      BY <1>2, <2>1, <2>2, <2>4, <3>1, <3>2 DEF SnapshotOf, Opened, Is
  <2> QED
    BY <2>3, <2>4
<1>9. \A r, s \in rows' : Alike(r, s) /\ r # s => (Follows(s, r) \/ Follows(r, s))'
  <2>1. rows' \subseteq rows
    BY <1>2
  <2> QED
    BY <1>3, <1>8, <2>1 DEF Succession, Follows
<1> QED
  BY <1>6, <1>7, <1>8, <1>9 DEF Succession, Alike

LEMMA DeleteSuccession ==
    ASSUME IInv, Successive, NEW c \in Callers, DeleteRelationships(c)
    PROVE  Successive'
<1>1. Shapes /\ Rows /\ Log
  BY DEF IInv
<1>2. plan[c].kind = "delete" /\ End(c, "") /\ UNCHANGED <<engine, plan>>
  BY DEF DeleteRelationships, Is
<1>3. SUFFICES ASSUME engine = "postgres", Succession
               PROVE  Succession'
  BY <1>2 DEF Successive
<1>4. PICK gone, x :
         /\ x = nextXid /\ gone \subseteq rows /\ \A r \in gone : r.expired = 0
         /\ rows' = (rows \ gone) \cup AllExpired(gone, x)
         /\ txs' = Logged(c, x, DOMAIN txs)
  <2> DEFINE G == {r \in Matching(plan[c].filter) : r.expired = 0 /\ ~Pending(r)}
  <2>1. PICK y : y = nextXid
    OBVIOUS
  <2>2. rows' = (rows \ G) \cup AllExpired(G, y) /\ txs' = Logged(c, y, DOMAIN txs)
    BY <1>3, <2>1 DEF DeleteRelationships, AllExpired
  <2>3. G \subseteq rows /\ \A r \in G : r.expired = 0
    BY DEF Matching
  <2> HIDE DEF G
  <2> QED
    BY <2>1, <2>2, <2>3, Zenon
<1>5. 0 \notin DOMAIN txs /\ x \notin DOMAIN txs
  <2>1. DOMAIN txs \subseteq 1..(nextXid - 1) /\ nextXid \notin 1..(nextXid - 1)
    BY <1>1, NotBefore DEF Log, Shapes
  <2>2. 0 \notin 1..(nextXid - 1)
    BY <1>1 DEF Shapes
  <2> QED
    BY <1>4, <2>1, <2>2
<1>6. /\ DOMAIN txs' = DOMAIN txs \cup {x} /\ txs'[x].snapshot = DOMAIN txs
      /\ \A y \in DOMAIN txs : txs'[y] = txs[y]
  BY <1>4, <1>5 DEF Logged
<1>7. Only(c) /\ ~Is(c, "write", "commit") /\ ~Is(c, "write", "commit")'
  BY <1>1, <1>2, EndFacts DEF Is
<1>8. ASSUME NEW S, S \subseteq DOMAIN txs, ClosedIn(S, txs)
      PROVE  ClosedIn(S, txs')
  BY <1>6, <1>8 DEF ClosedIn
<1>9. \A y \in DOMAIN txs' : ClosedIn(txs'[y].snapshot, txs')
  <2>1. ClosedIn(DOMAIN txs, txs)
    BY <1>1 DEF ClosedIn, Log
  <2>2. PICK S : S = DOMAIN txs
    OBVIOUS
  <2>3. ClosedIn(S, txs')
    BY <1>8, <2>1, <2>2
  <2>4. \A y \in DOMAIN txs : ClosedIn(txs[y].snapshot, txs')
    BY <1>1, <1>3, <1>8 DEF Succession, Log
  <2> QED
    BY <1>6, <2>2, <2>3, <2>4
<1>10. ASSUME NEW d \in Callers, Is(d, "write", "commit")'
       PROVE  ClosedIn(call'[d].snapshot, txs')
  <2>1. Is(d, "write", "commit") /\ call'[d] = call[d]
    BY <1>2, <1>7, <1>10 DEF Only, Is
  <2> QED
    BY <1>1, <1>3, <1>8, <2>1, OpenHolds DEF Succession, Open
<1>11. ASSUME NEW r \in rows'
       PROVE  \E s \in rows : /\ r = Expire(gone, x, s) /\ r.tenant = s.tenant /\ r.tuple = s.tuple
                              /\ r.created = s.created /\ r.by = s.by
                              /\ r.expired = IF s \in gone THEN x ELSE s.expired
  <2>1. PICK s \in rows : r = Expire(gone, x, s)
    BY <1>4, <1>11 DEF AllExpired, Expire
  <2>2. s = [y \in RowFields |-> s[y]]
    BY <1>1 DEF Rows, RowOK
  <2>3. CASE s \in gone
    BY <2>1, <2>2, <2>3 DEF Expire, RowFields
  <2>4. CASE s \notin gone
    BY <2>1, <2>4 DEF Expire
  <2> QED
    BY <2>1, <2>3, <2>4
<1>12. ASSUME NEW s \in rows, NEW r, r.created = s.created, r.by = s.by
       PROVE  SnapshotOf(r)' = SnapshotOf(s) /\ Opened(r)'
  <2>1. s.by \in Callers /\ Opened(s) /\ s.created # x
    <3>1. s.created \in Nat /\ s.created < nextXid /\ nextXid \in Nat
      BY <1>1 DEF Rows, RowOK, Shapes
    <3>2. s.created # nextXid
      BY <3>1
    <3> QED
      BY <1>1, <1>3, <1>4, <3>2 DEF Rows, Origin, Succession
  <2>2. Pending(r)' <=> Pending(s)
    BY <1>6, <1>12, <2>1 DEF Pending
  <2>3. CASE ~Pending(s)
    BY <1>6, <1>12, <2>1, <2>2, <2>3 DEF SnapshotOf, Opened, Pending
  <2>4. CASE Pending(s)
    <3>1. Is(s.by, "write", "commit") /\ call[s.by].snap = s.created /\ s.by # c
      BY <1>7, <2>1, <2>4 DEF Opened
    <3>2. call'[s.by] = call[s.by]
      BY <1>7, <2>1, <3>1 DEF Only
    <3> QED
      BY <1>2, <1>12, <2>1, <2>2, <2>4, <3>1, <3>2 DEF SnapshotOf, Opened, Is
  <2> QED
    BY <2>3, <2>4
<1>13. ASSUME NEW r \in rows'
       PROVE  r.expired \in DOMAIN txs' \cup {0} /\ Opened(r)'
  <2>1. PICK s \in rows : /\ r.created = s.created /\ r.by = s.by
                          /\ r.expired = IF s \in gone THEN x ELSE s.expired
    BY <1>11
  <2>2. s.expired \in DOMAIN txs \cup {0}
    BY <1>3 DEF Succession
  <2> QED
    BY <1>6, <1>12, <2>1, <2>2
<1>14. ASSUME NEW s \in rows, NEW t \in rows, NEW q, NEW r, Follows(t, s),
              q.expired = (IF s \in gone THEN x ELSE s.expired),
              r.created = t.created, r.by = t.by
       PROVE  Follows(r, q)'
  <2>1. SnapshotOf(t) \subseteq DOMAIN txs
    <3>1. Opened(t) /\ t.by \in Callers
      BY <1>1, <1>3 DEF Rows, Origin, Succession
    <3>2. CASE Pending(t)
      BY <1>1, <3>1, <3>2, OpenHolds DEF Opened, Open, SnapshotOf
    <3>3. CASE ~Pending(t)
      BY <1>1, <3>3 DEF Log, SnapshotOf, Pending
    <3> QED
      BY <3>2, <3>3
  <2>2. s.expired # 0
    BY <1>5, <1>14, <2>1 DEF Follows
  <2>3. s \notin gone
    BY <1>4, <2>2
  <2>4. SnapshotOf(r)' = SnapshotOf(t)
    BY <1>12, <1>14
  <2> QED
    BY <1>14, <2>3, <2>4 DEF Follows
<1>15. ASSUME NEW q \in rows', NEW r \in rows', Alike(q, r), q # r
       PROVE  (Follows(r, q) \/ Follows(q, r))'
  <2>1. PICK s \in rows : /\ q = Expire(gone, x, s) /\ q.tenant = s.tenant /\ q.tuple = s.tuple
                          /\ q.created = s.created /\ q.by = s.by
                          /\ q.expired = IF s \in gone THEN x ELSE s.expired
    BY <1>11
  <2>2. PICK t \in rows : /\ r = Expire(gone, x, t) /\ r.tenant = t.tenant /\ r.tuple = t.tuple
                          /\ r.created = t.created /\ r.by = t.by
                          /\ r.expired = IF t \in gone THEN x ELSE t.expired
    BY <1>11
  <2>3. s # t /\ Alike(s, t)
    BY <1>15, <2>1, <2>2 DEF Alike
  <2>4. Follows(t, s) \/ Follows(s, t)
    BY <1>3, <2>3 DEF Succession
  <2>5. Follows(t, s) => Follows(r, q)'
    BY <1>14, <2>1, <2>2
  <2>6. Follows(s, t) => Follows(q, r)'
    BY <1>14, <2>1, <2>2
  <2> QED
    BY <2>4, <2>5, <2>6
<1> QED
  BY <1>9, <1>10, <1>13, <1>15 DEF Succession, Alike

LEMMA SuccessionKeeps == IInv /\ Successive /\ [Next]_vars => Successive'
<1> SUFFICES ASSUME IInv, Successive, [Next]_vars
             PROVE  Successive'
  OBVIOUS
<1>0. Shapes
  BY DEF IInv
<1>1. ASSUME UNCHANGED <<engine, plan, call, rows, txs>>
      PROVE  Successive'
  BY <1>1, SuccessionStays DEF Successive
<1>2. ASSUME NEW t \in Tenants, WriteSchema(t)
      PROVE  Successive'
  BY <1>1, <1>2 DEF WriteSchema
<1>3. ASSUME NEW c \in Callers, Step(c)
      PROVE  Successive'
  <2>1. CASE PinVersion(c)
    <3>1. /\ UNCHANGED <<engine, plan, rows, txs>> /\ call[c].at = "new"
      BY <2>1 DEF PinVersion, Is, relationVars
    <3>2. ASSUME NEW err, End(c, err)
          PROVE  Only(c) /\ call'[c].at # "commit"
      BY <1>0, <3>2, EndFacts
    <3>3. ASSUME NEW head, NEW version,
                 call' = [call EXCEPT ![c].at = "pinned", ![c].since = head, ![c].version = version]
          PROVE  Only(c) /\ call'[c].at # "commit"
      <4>1. Only(c) /\ call'[c].at = "pinned"
        BY <1>0, <3>3, PinFacts
      <4> QED
        BY <4>1
    <3>4. \/ \E err : End(c, err)
          \/ \E head, version : call' = [call EXCEPT ![c].at = "pinned", ![c].since = head,
                                                     ![c].version = version]
      BY <2>1 DEF PinVersion
    <3>5. Only(c) /\ call'[c].at # "commit"
      BY <3>2, <3>3, <3>4
    <3> QED
      BY <3>1, <3>5, QuietSuccession DEF Is
  <2>2. CASE Validate(c)
    <3>1. /\ UNCHANGED <<engine, plan, rows, txs>> /\ call[c].at = "pinned"
      BY <2>2 DEF Validate, Is, relationVars
    <3>2. ASSUME NEW err, End(c, err)
          PROVE  Only(c) /\ call'[c].at # "commit"
      BY <1>0, <3>2, EndFacts
    <3>3. ASSUME call' = [call EXCEPT ![c].at = "insert"]
          PROVE  Only(c) /\ call'[c].at # "commit"
      <4>1. Only(c) /\ call'[c].at = "insert"
        BY <1>0, <3>3, ValidateFacts
      <4> QED
        BY <4>1
    <3>4. Only(c) /\ call'[c].at # "commit"
      BY <2>2, <3>2, <3>3 DEF Validate
    <3> QED
      BY <3>1, <3>4, QuietSuccession DEF Is
  <2>3. CASE Insert(c)
    BY <2>3, InsertSuccession
  <2>4. CASE Commit(c)
    BY <2>4, CommitSuccession
  <2>5. CASE Rollback(c)
    BY <2>5, RollbackSuccession
  <2>6. CASE MemoryWrite(c)
    BY <2>6 DEF MemoryWrite, Successive
  <2>7. CASE DeleteRelationships(c)
    BY <2>7, DeleteSuccession
  <2>8. CASE ReadRelationships(c) \/ ReadFails(c)
    <3>1. UNCHANGED <<engine, plan, rows, txs>> /\ plan[c].kind = "read"
      BY <2>8 DEF ReadRelationships, ReadFails, relationVars
    <3>2. Only(c)
      BY <1>0, <2>8, EndFacts, TakePageFacts DEF ReadRelationships, ReadFails
    <3> QED
      BY <3>1, <3>2, QuietSuccession DEF Is
  <2>9. CASE TenancyStep(c) /\ UNCHANGED relationVars
    <3>1. UNCHANGED <<engine, plan, rows, txs>>
      BY <2>9 DEF TenancyStep, relationVars
    <3>2. plan[c].kind \in {"create", "deleteTenant", "list"}
      BY <2>9 DEF TenancyStep, CreateTenant, DeleteTenant, TenantFails, ListTenants, Is
    <3>3. \/ \E err : End(c, err)
          \/ \E selected, page : TakePage(c, selected, page)
      BY <2>9 DEF TenancyStep, CreateTenant, DeleteTenant, TenantFails, ListTenants
    <3>4. Only(c)
      BY <1>0, <3>3, EndFacts, TakePageFacts
    <3> QED
      BY <3>1, <3>2, <3>4, QuietSuccession DEF Is
  <2> QED
    BY <1>3, <2>1, <2>2, <2>3, <2>4, <2>5, <2>6, <2>7, <2>8, <2>9 DEF Step
<1>4. CASE UNCHANGED vars
  BY <1>1, <1>4 DEF vars, relationVars
<1> QED
  BY <1>2, <1>3, <1>4 DEF Next

LEMMA SuccessionHolds == Spec => []Successive
<1>1. Init => Successive
  <2> SUFFICES ASSUME Init
               PROVE  Succession
    BY DEF Successive
  <2>1. rows = {} /\ txs = [x \in {} |-> 0] /\ \A c \in Callers : call[c].at = "new"
    BY DEF Init, TenancyInit, NewCall
  <2> QED
    BY <2>1 DEF Succession, Is
<1> QED
  BY <1>1, SuccessionKeeps, InvariantHolds, PTL DEF Spec

\* A snap token shows no relationship twice.
LEMMA ShownOnce ==
    ASSUME IInv, Succession, NEW x \in DOMAIN txs, NEW tenant, NEW f,
           NEW r \in View(tenant, f, x), NEW s \in View(tenant, f, x), r.tuple = s.tuple
    PROVE  r = s
<1> SUFFICES ASSUME r # s
             PROVE  FALSE
  OBVIOUS
<1>1. ASSUME NEW q \in View(tenant, f, x)
      PROVE  /\ q \in rows /\ q.tenant = tenant
             /\ q.created \in txs[x].snapshot \cup {x} /\ q.expired \notin txs[x].snapshot
  BY DEF View, Matching, SnapshotQuery
<1>2. ASSUME NEW q \in View(tenant, f, x)
      PROVE  SnapshotOf(q) \subseteq txs[x].snapshot
  <2>1. txs[x].snapshot \subseteq DOMAIN txs
    BY DEF IInv, Log
  <2>2. q.created \in DOMAIN txs
    BY <1>1, <1>2, <2>1
  <2>3. SnapshotOf(q) = txs[q.created].snapshot
    BY <2>2 DEF SnapshotOf, Pending
  <2>4. ClosedIn(txs[x].snapshot, txs)
    BY DEF Succession
  <2> QED
    BY <1>1, <1>2, <2>3, <2>4 DEF ClosedIn
<1>3. Follows(s, r) \/ Follows(r, s)
  BY <1>1 DEF Succession, Alike
<1> QED
  BY <1>1, <1>2, <1>3 DEF Follows

\* The pages of a listing of tenants or of a read of stored relationships repeat
\* no row, keep to the filter (and in PostgreSQL to the tenant) and leave out no
\* row that was there for every page; at a snap token of PostgreSQL they are
\* exactly the relationships the token shows, each once, whatever is written,
\* written again and deleted in between.
THEOREM PagesWholeHolds == Spec => []PagesWhole
<1>1. IInv /\ Successive => PagesWhole
  <2> SUFFICES ASSUME IInv, Successive, NEW c \in Callers
               PROVE  /\ plan[c].kind \in {"list", "read"} => Whole(c)
                      /\ plan[c].kind = "read" =>
                            LET got == ToSet(call[c].got)
                            IN /\ \A r \in RowsOf(got) :
                                     /\ FilterQuery(plan[c].filter, r.tuple)
                                     /\ engine = "postgres" => r.tenant = plan[c].tenant
                               /\ Pinned(c) /\ engine = "postgres" /\ call[c].at = "done" /\ call[c].err = ""
                                  => /\ got = Ids(View(plan[c].tenant, plan[c].filter,
                                                       call[plan[c].after].snap))
                                     /\ \A r, s \in RowsOf(got) : r.tuple = s.tuple => r = s
    BY DEF PagesWhole
  <2>1. Shapes /\ Rows /\ Log /\ Turns /\ Reads /\ Tokens
    BY DEF IInv
  <2>2. ASSUME plan[c].kind \in {"list", "read"}
        PROVE  Whole(c)
    BY <2>1, <2>2 DEF Turns, Turn, Ordered, Whole
  <2>3. ASSUME plan[c].kind = "read"
        PROVE  \A r \in RowsOf(ToSet(call[c].got)) : Mine(c, r)
    BY <2>1, <2>3 DEF Reads, Reading, RowsOf
  <2>4. ASSUME plan[c].kind = "read", Pinned(c), engine = "postgres",
               call[c].at = "done", call[c].err = ""
        PROVE  /\ ToSet(call[c].got) = Shown(c)
               /\ \A r, s \in RowsOf(ToSet(call[c].got)) : r.tuple = s.tuple => r = s
    <3>1. AtToken(c)
      BY <2>1, <2>4 DEF Tokens, Token
    <3>2. call[c].stay \subseteq ToSet(call[c].got)
      BY <2>1, <2>4 DEF Turns, Turn
    <3>3. ToSet(call[c].got) = Shown(c)
      BY <3>1, <3>2 DEF AtToken
    <3> DEFINE x == call[plan[c].after].snap
               V == View(plan[c].tenant, plan[c].filter, x)
    <3>4. plan[c].after \in Callers /\ plan[plan[c].after].kind = "write"
      BY <2>1, <2>4, RelationAssumption DEF Pinned, Shapes
    <3>5. x \in DOMAIN txs
      BY <2>1, <2>4, <3>1, <3>4 DEF Log, Is, AtToken
    <3>6. ASSUME NEW r \in RowsOf(ToSet(call[c].got))
          PROVE  r \in V
      <4>1. r \in rows /\ r.id \in Ids(V)
        BY <3>3, <3>6 DEF RowsOf, Shown
      <4>2. PICK q \in V : q.id = r.id
        BY <4>1 DEF Ids
      <4>3. q \in rows
        BY <4>2 DEF View, Matching
      <4> QED
        BY <2>1, <4>1, <4>2, <4>3 DEF Rows
    <3> HIDE DEF x, V
    <3>7. \A r, s \in V : r.tuple = s.tuple => r = s
      BY <2>4, <3>5, ShownOnce DEF V, Successive
    <3> QED
      BY <3>3, <3>6, <3>7
  <2> QED
    BY <2>2, <2>3, <2>4 DEF Mine, Shown
<1> QED
  BY <1>1, InvariantHolds, SuccessionHolds, PTL

\* The answers to concurrent creations and deletions of a tenant add up: no
\* deletion is confirmed without a creation for it (the migration's tenant counts
\* as one), and in PostgreSQL no creation twice without a deletion; errors after
\* which the statement may have run count.
THEOREM TenantsBalancedHolds == Spec => []TenantsBalanced
<1>1. IInv => TenantsBalanced
  BY DEF IInv
<1> QED
  BY <1>1, InvariantHolds, PTL

\* A snap token of PostgreSQL shows the same relationships for ever: no write,
\* rollback or delete after the transaction committed changes what a read at it
\* finds, for any tenant and any filter.
THEOREM SnapTokensStable == Spec => [][Frozen]_vars
  BY InvariantHolds, NextKeeps, PTL DEF Spec
=============================================================================
