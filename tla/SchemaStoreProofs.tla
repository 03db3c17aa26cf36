-------------------------- MODULE SchemaStoreProofs --------------------------
(***************************************************************************)
(* Proofs about SchemaStore, for any number of concurrent calls, both      *)
(* engines and every language that keeps LanguageAssumption: the head of   *)
(* PostgreSQL is fresh; and, if a text survives being serialized           *)
(* (RoundTrip), a version is read back whole as it was written and the     *)
(* cache never answers for another version.                                *)
(***************************************************************************)
EXTENDS SchemaStore, FunctionTheorems, FiniteSetTheorems, WellFoundedInduction, TLAPS

(***************************************************************************)
(* The inductive invariant.                                                *)
(***************************************************************************)

CallFields == {"at", "version", "schema", "since", "reply"}
ReplyFields == {"err", "schema", "actions"}

Shapes == /\ plan \in Plans /\ engine \in Engines
          /\ clock \in Nat
          /\ call = [c \in Callers |-> call[c]]
          /\ \A c \in Callers : /\ call[c] = [x \in CallFields |-> call[c][x]]
                                /\ call[c].reply = [x \in ReplyFields |-> call[c].reply[x]]
                                /\ call[c].version \in Nat /\ call[c].version <= clock
                                /\ call[c].since \in Nat

\* A write that has been given a version.
Writer(c) == plan[c].kind = "write" /\ call[c].version # 0

Succeeded(c) == call[c].at = "done" /\ call[c].reply.err = ""

\* Only an accepted text has a version, and no two writes have the same one.
WriterOK(c) ==
    /\ call[c].since = 0
    /\ call[c].version = 0 => call[c].at \in {"new", "done"} /\ ~Succeeded(c)
    /\ call[c].version # 0 => /\ call[c].at \in {"insert", "done"}
                              /\ Accepts(plan[c].text)
                              /\ call[c].schema = ParseText(plan[c].text).exp

Writers ==
    /\ \A c \in Callers : plan[c].kind = "write" => WriterOK(c)
    /\ \A c, d \in Callers : Writer(c) /\ Writer(d) /\ call[c].version = call[d].version => c = d

Visible(c) == Serialized(c) \subseteq rows

\* Every row is of a write that has ended; the rows of a write are all there
\* or all missing, and there if it was acknowledged.
Stored ==
    /\ \A r \in rows : \E c \in Callers : Writer(c) /\ call[c].at = "done" /\ r \in Serialized(c)
    /\ \A c \in Callers : Writer(c) => Visible(c) \/ Serialized(c) \cap rows = {}
    /\ \A c \in Callers : Writer(c) /\ Succeeded(c) => Visible(c)

\* The write whose version it is.
IsVersion(d, tenant, version) ==
    Writer(d) /\ plan[d].tenant = tenant /\ call[d].version = version

\* A reader is pinned to a visible version, since an acknowledged one.
Seen(tenant, version) == \E d \in Callers : IsVersion(d, tenant, version) /\ Visible(d)

ReaderOK(c) ==
    /\ call[c].at = "pinned" \/ Succeeded(c) => Seen(plan[c].tenant, call[c].version)
    /\ call[c].since # 0 => Seen(plan[c].tenant, call[c].since)

Readers == \A c \in Callers : plan[c].kind # "write" => ReaderOK(c)

\* An entry of the cache is a definition of the write whose version its key has.
EntryOf(e, d) ==
    \E type \in DOMAIN Written(d) :
        /\ Writer(d)
        /\ e.key = CacheKey(plan[d].tenant, type, call[d].version)
        /\ e.definition = Written(d)[type]

Entry(e) == \E d \in Callers : EntryOf(e, d)

Kept == \A e \in cache : Entry(e)

\* The head a call was pinned to is as new as all that was acknowledged; in
\* memory an older one if it has a type after all types of the newer one.
HeadOrdered ==
    \A c \in Callers : call[c].at = "pinned" \/ (call[c].at = "done" /\ call[c].reply.err = "") =>
        \/ call[c].version >= call[c].since
        \/ /\ engine = "memory"
           /\ \E r \in RowsOf(plan[c].tenant, call[c].version) :
                 \A s \in RowsOf(plan[c].tenant, call[c].since) : Rank[r.type] > Rank[s.type]

StoreInv == Shapes /\ Writers /\ Stored /\ Readers /\ HeadOrdered
IInv == StoreInv /\ Kept /\ LookupSound

-----------------------------------------------------------------------------
(* Numbers and orders *)

\* A nonempty set of numbers has a least one.
LEMMA Least ==
    ASSUME NEW S, S \subseteq Nat, S # {}
    PROVE  \E k \in S : \A j \in S : k <= j
<1>1. PICK k \in S : \A j \in S : ~(<<j, k>> \in OpToRel(<, Nat))
  BY WFMin, NatLessThanWellFounded, Zenon
<1>2. ASSUME NEW j \in S
      PROVE  k <= j
  <2>1. ~(j < k)
    BY <1>1 DEF OpToRel
  <2> QED
    BY <2>1
<1> QED
  BY <1>2

LEMMA BelowSomething ==
    ASSUME NEW a \in Nat, NEW b \in Nat, ~(a >= b)
    PROVE  b # 0
  OBVIOUS

LEMMA NextIsNew ==
    ASSUME NEW a \in Nat, NEW b \in Nat, a <= b
    PROVE  a # b + 1 /\ b + 1 # 0 /\ b + 1 \in Nat /\ a <= b + 1
  OBVIOUS

\* A nonempty bounded set of numbers has a greatest one, and Greatest is it.
LEMMA GreatestExists ==
    ASSUME NEW S, S \subseteq Nat, S # {}, NEW n \in Nat, \A x \in S : x <= n
    PROVE  Greatest(S) \in S /\ \A y \in S : y <= Greatest(S)
<1> DEFINE B == {k \in Nat : \A y \in S : y <= k}
<1>1. B \subseteq Nat /\ B # {}
  BY n \in B
<1>2. PICK k \in B : \A j \in B : k <= j
  <2> HIDE DEF B
  <2> QED
    BY <1>1, Least
<1>3. k \in S
  <2>1. SUFFICES ASSUME k \notin S
                 PROVE  FALSE
    OBVIOUS
  <2>2. PICK x \in S : TRUE
    OBVIOUS
  <2>3. \A y \in S : y \in Nat /\ y <= k /\ y # k
    BY <2>1
  <2>4. k - 1 \in Nat
    BY <2>2, <2>3
  <2>5. \A y \in S : y <= k - 1
    BY <2>3
  <2>6. k - 1 \in B
    BY <2>4, <2>5
  <2> QED
    BY <2>6, <1>2
<1>4. \E x \in S : \A y \in S : y <= x
  BY <1>3
<1> QED
  BY <1>4 DEF Greatest

Ranked(T) == \A r \in T : r.type \in DOMAIN Rank

Distinct(T) == \A r, s \in T : r.type = s.type => r = s

Ascending(o) == \A i, j \in DOMAIN o : i < j => Rank[o[i].type] < Rank[o[j].type]

\* A finite nonempty set of rows has a last one in the order of the types.
LEMMA LastRow ==
    ASSUME NEW T, T # {}, Ranked(T)
    PROVE  \E m \in T : \A r \in T : Rank[r.type] <= Rank[m.type]
<1> DEFINE S == {Rank[r.type] : r \in T}
           n == Cardinality(DOMAIN Rank)
<1>1. n \in Nat
  BY SchemaStoreAssumption, FS_CardinalityType DEF RankAssumption
<1>2. \A r \in T : Rank[r.type] \in Nat /\ Rank[r.type] <= n
  BY <1>1, SchemaStoreAssumption DEF Ranked, RankAssumption
<1>3. S \subseteq Nat /\ S # {} /\ \A x \in S : x <= n
  BY <1>2
<1>4. Greatest(S) \in S /\ \A y \in S : y <= Greatest(S)
  <2> HIDE DEF S, n
  <2> QED
    BY <1>1, <1>3, GreatestExists
<1> QED
  BY <1>4

\* A finite set of rows of different types can be put in that order.
LEMMA OrderExists ==
    ASSUME NEW S, IsFiniteSet(S), Ranked(S), Distinct(S)
    PROVE  \E o \in SetToSeqs(S) : Ascending(o)
<1> DEFINE Ordered(T) == \E o \in SetToSeqs(T) : Ascending(o)
           bad == {n \in Nat : \E T \in SUBSET S : Cardinality(T) = n /\ ~Ordered(T)}
<1>1. SUFFICES ASSUME ~Ordered(S)
               PROVE  FALSE
  OBVIOUS
<1>2. bad \subseteq Nat /\ bad # {}
  <2>1. Cardinality(S) \in bad
    BY <1>1, FS_CardinalityType
  <2> QED
    BY <2>1
<1>3. PICK n \in bad : \A k \in bad : n <= k
  <2> HIDE DEF bad
  <2> QED
    BY <1>2, Least
<1>4. PICK T \in SUBSET S : Cardinality(T) = n /\ ~Ordered(T)
  BY <1>3
<1>5. IsFiniteSet(T)
  BY FS_Subset
<1>6. CASE T = {}
  <2>1. Cardinality(T) = 0
    BY <1>6, FS_EmptySet
  <2>2. <<>> \in SetToSeqs(T)
    BY <2>1, <1>6 DEF SetToSeqs
  <2>3. Ascending(<<>>)
    BY DEF Ascending
  <2> QED
    BY <2>2, <2>3, <1>4
<1>7. CASE T # {}
  <2>1. PICK m \in T : \A r \in T : Rank[r.type] <= Rank[m.type]
    BY <1>7, LastRow DEF Ranked
  <2> DEFINE U == T \ {m}
  <2>2. n \in Nat /\ IsFiniteSet(U) /\ Cardinality(U) = n - 1 /\ n - 1 \in Nat
    <3>1. n \in Nat
      BY <1>3
    <3>2. IsFiniteSet(U) /\ Cardinality(U) = n - 1
      BY <1>4, <1>5, FS_RemoveElement
    <3>3. Cardinality(U) \in Nat
      BY <3>2, FS_CardinalityType
    <3> QED
      BY <3>1, <3>2, <3>3
  <2>3. Ordered(U)
    <3>1. n - 1 \notin bad
      BY <1>3, <2>2
    <3>2. U \in SUBSET S
      OBVIOUS
    <3> HIDE DEF U, Ordered
    <3> QED
      BY <3>1, <3>2, <2>2
  <2>4. PICK o \in SetToSeqs(U) : Ascending(o)
    BY <2>3
  <2>5. o \in [1..(n - 1) -> U] /\ \A i, j \in 1..(n - 1) : i # j => o[i] # o[j]
    BY <2>2 DEF SetToSeqs
  <2> DEFINE p == [i \in 1..n |-> IF i = n THEN m ELSE o[i]]
  <2>6. \A i \in 1..n : i # n => i \in 1..(n - 1)
    BY <2>2
  <2>7. \A i \in 1..n : p[i] \in T /\ (i # n => p[i] = o[i] /\ p[i] \in U)
    BY <2>5, <2>6
  <2>8. p[n] = m
    BY <2>2
  <2>9. p \in SetToSeqs(T)
    <3>1. \A i, j \in 1..n : i # j => p[i] # p[j]
      BY <2>5, <2>6, <2>7, <2>8
    <3>2. p \in [1..n -> T]
      BY <2>7
    <3> HIDE DEF p
    <3> QED
      BY <3>1, <3>2, <1>4 DEF SetToSeqs
  <2>10. Ascending(p)
    <3>1. SUFFICES ASSUME NEW i \in 1..n, NEW j \in 1..n, i < j
                   PROVE  Rank[p[i].type] < Rank[p[j].type]
      BY DEF Ascending
    <3>2. i # n
      BY <2>2, <3>1
    <3>3. CASE j = n
      <4>1. p[i] \in U /\ p[j] = m
        BY <3>2, <3>3, <2>7, <2>8
      <4>2. p[i].type # m.type
        BY <4>1 DEF Distinct
      <4>3. Rank[p[i].type] # Rank[m.type]
        BY <4>1, <4>2, SchemaStoreAssumption DEF RankAssumption, Ranked
      <4>4. Rank[p[i].type] \in Nat /\ Rank[m.type] \in Nat
        BY <4>1, SchemaStoreAssumption, FS_CardinalityType DEF RankAssumption, Ranked
      <4> QED
        BY <4>1, <4>3, <4>4, <2>1
    <3>4. CASE j # n
      <4>1. i \in 1..(n - 1) /\ j \in 1..(n - 1) /\ DOMAIN o = 1..(n - 1)
        BY <3>2, <3>4, <2>5, <2>6
      <4> QED
        BY <4>1, <3>1, <2>4, <2>7, <3>2, <3>4 DEF Ascending
    <3> QED
      BY <3>3, <3>4
  <2> QED
    BY <2>9, <2>10, <1>4
<1> QED
  BY <1>6, <1>7

-----------------------------------------------------------------------------
(* What the parts of the invariant say together *)

\* The definitions of a write, and its rows.
LEMMA WriterText ==
    ASSUME Shapes, Writers, NEW c \in Callers, Writer(c)
    PROVE  /\ call[c].schema = ParseText(plan[c].text).exp
           /\ Accepts(plan[c].text)
           /\ ParseText(plan[c].text).exp \in Seq(Entities(plan[c].text))
           /\ ParseText(plan[c].text).exp # <<>>
           /\ \A e \in Entities(plan[c].text) : e.name \in DOMAIN Rank
           /\ \A e, f \in Entities(plan[c].text) : e.name = f.name => e = f
           /\ DOMAIN Written(c) = {e.name : e \in Entities(plan[c].text)}
<1>1. call[c].schema = ParseText(plan[c].text).exp /\ Accepts(plan[c].text) /\ plan \in Plans
      /\ plan[c].kind = "write"
  BY DEF Shapes, Writers, WriterOK, Writer
<1> QED
  BY <1>1, SchemaStoreAssumption DEF LanguageAssumption, Written

LEMMA SerializedRows ==
    ASSUME Shapes, Writers, NEW c \in Callers, Writer(c)
    PROVE  /\ Serialized(c) = {Row(plan[c].tenant, e.name, call[c].version, DefinitionOf(e)) :
                                  e \in Entities(plan[c].text)}
           /\ Serialized(c) # {}
           /\ \A r \in Serialized(c) : /\ r.tenant = plan[c].tenant /\ r.version = call[c].version
                                       /\ r.type \in DOMAIN Rank
<1>1. Serialized(c) = {Row(plan[c].tenant, e.name, call[c].version, DefinitionOf(e)) :
                          e \in Entities(plan[c].text)}
  BY WriterText DEF Serialized, Entities
<1>2. Entities(plan[c].text) # {}
  <2> DEFINE s == ParseText(plan[c].text).exp
  <2>1. s \in Seq(Entities(plan[c].text)) /\ s # <<>>
    BY WriterText
  <2> HIDE DEF s
  <2>2. 1 \in DOMAIN s /\ s[1] \in Entities(plan[c].text)
    BY <2>1
  <2> QED
    BY <2>2
<1>3. \A e \in Entities(plan[c].text) : e.name \in DOMAIN Rank
  BY WriterText
<1>4. Serialized(c) # {}
  <2>1. PICK e \in Entities(plan[c].text) : TRUE
    BY <1>2
  <2> QED
    BY <1>1, <2>1
<1>5. ASSUME NEW r \in Serialized(c)
      PROVE  r.tenant = plan[c].tenant /\ r.version = call[c].version /\ r.type \in DOMAIN Rank
  <2>1. PICK e \in Entities(plan[c].text) :
               r = Row(plan[c].tenant, e.name, call[c].version, DefinitionOf(e))
    BY <1>1
  <2> QED
    BY <2>1, <1>3 DEF Row
<1> QED
  BY <1>1, <1>4, <1>5

\* A row is of the one write that has its version.
LEMMA RowWriter ==
    ASSUME Shapes, Writers, Stored, NEW r \in rows
    PROVE  \E d \in Callers : /\ IsVersion(d, r.tenant, r.version) /\ Visible(d)
                              /\ r \in Serialized(d)
                              /\ r.version \in Nat /\ r.version # 0 /\ r.version <= clock
                              /\ r.type \in DOMAIN Rank
<1>1. PICK d \in Callers : Writer(d) /\ r \in Serialized(d)
  BY DEF Stored
<1>2. r.tenant = plan[d].tenant /\ r.version = call[d].version /\ r.type \in DOMAIN Rank
  BY <1>1, SerializedRows
<1>3. Visible(d)
  BY <1>1 DEF Stored
<1>4. call[d].version \in Nat /\ call[d].version # 0 /\ call[d].version <= clock
  BY <1>1 DEF Shapes, Writer
<1> QED
  BY <1>1, <1>2, <1>3, <1>4 DEF IsVersion

LEMMA VisibleRows ==
    ASSUME Shapes, Writers, Stored, NEW c \in Callers, Writer(c)
    PROVE  /\ RowsOf(plan[c].tenant, call[c].version) # {} => Visible(c)
           /\ Visible(c) => RowsOf(plan[c].tenant, call[c].version) = Serialized(c)
<1>1. ASSUME NEW r \in RowsOf(plan[c].tenant, call[c].version)
      PROVE  r \in Serialized(c) /\ Visible(c)
  <2>1. r \in rows /\ r.version = call[c].version
    BY DEF RowsOf
  <2>2. PICK d \in Callers : IsVersion(d, r.tenant, r.version) /\ Visible(d) /\ r \in Serialized(d)
    BY <2>1, RowWriter
  <2>3. d = c
    BY <2>1, <2>2 DEF Writers, IsVersion
  <2> QED
    BY <2>2, <2>3
<1>2. ASSUME Visible(c), NEW r \in Serialized(c)
      PROVE  r \in RowsOf(plan[c].tenant, call[c].version)
  BY <1>2, SerializedRows DEF RowsOf, Visible
<1> QED
  BY <1>1, <1>2

-----------------------------------------------------------------------------
(* The head *)

\* The head of a tenant is a version that has rows; a greater one only has
\* types before one of its own, and only in memory.
LEMMA HeadRows ==
    ASSUME Shapes, Writers, Stored, NEW tenant, HeadVersion(tenant) # 0
    PROVE  /\ \E r \in rows : r.tenant = tenant /\ r.version = HeadVersion(tenant)
           /\ \A v \in Nat :
                 \/ RowsOf(tenant, v) = {}
                 \/ HeadVersion(tenant) >= v
                 \/ /\ engine = "memory"
                    /\ \E r \in RowsOf(tenant, HeadVersion(tenant)) :
                          \A s \in RowsOf(tenant, v) : Rank[r.type] > Rank[s.type]
<1> DEFINE mine == {r \in rows : r.tenant = tenant}
           head == HeadVersion(tenant)
           ranks == {Rank[r.type] : r \in mine}
           last == Greatest(ranks)
           ends == {r \in mine : Rank[r.type] = last}
           N == Cardinality(DOMAIN Rank)
<1>0. N \in Nat /\ clock \in Nat
  BY SchemaStoreAssumption, FS_CardinalityType DEF RankAssumption, Shapes
<1>1. \A r \in mine : /\ r.version \in Nat /\ r.version <= clock
                      /\ Rank[r.type] \in Nat /\ Rank[r.type] <= N
  <2>1. \A r \in mine : r.version \in Nat /\ r.version <= clock /\ r.type \in DOMAIN Rank
    BY RowWriter
  <2> QED
    BY <2>1, <1>0, SchemaStoreAssumption DEF RankAssumption
<1>2. mine # {}
  BY DEF HeadVersion
<1>3. CASE engine = "postgres"
  <2> DEFINE V == Versions(tenant)
  <2>1. head = Greatest(V)
    BY <1>2, <1>3 DEF HeadVersion
  <2>2. V = {r.version : r \in mine}
    BY DEF Versions
  <2>3. V \subseteq Nat /\ V # {} /\ \A v \in V : v <= clock
    BY <1>1, <1>2, <2>2
  <2>4. Greatest(V) \in V /\ \A v \in V : v <= Greatest(V)
    <3> HIDE DEF V
    <3> QED
      BY <2>3, <1>0, GreatestExists
  <2>5. \E r \in mine : r.version = head
    BY <2>1, <2>2, <2>4
  <2>6. ASSUME NEW v \in Nat, RowsOf(tenant, v) # {}
        PROVE  head >= v
    <3>1. v \in V
      BY <2>2, <2>6 DEF RowsOf
    <3>2. v <= head /\ head \in Nat
      BY <3>1, <2>1, <2>3, <2>4
    <3> QED
      BY <3>2
  <2> QED
    BY <2>5, <2>6
<1>4. CASE engine # "postgres"
  <2>0. engine = "memory"
    BY <1>4, SchemaStoreAssumption DEF EngineAssumption, Shapes
  <2> DEFINE V == {r.version : r \in ends}
  <2>1. head = Greatest(V)
    BY <1>2, <1>4 DEF HeadVersion
  <2>2. ranks \subseteq Nat /\ ranks # {} /\ \A x \in ranks : x <= N
    BY <1>1, <1>2
  <2>3. last \in ranks /\ \A x \in ranks : x <= last
    <3> HIDE DEF ranks, N
    <3> QED
      BY <2>2, <1>0, GreatestExists
  <2> HIDE DEF last
  <2>4. V \subseteq Nat /\ V # {} /\ \A v \in V : v <= clock
    BY <1>1, <2>3
  <2>5. Greatest(V) \in V /\ \A v \in V : v <= Greatest(V)
    <3> HIDE DEF V
    <3> QED
      BY <2>4, <1>0, GreatestExists
  <2>6. PICK r \in ends : r.version = head
    BY <2>1, <2>5
  <2>7. ASSUME NEW v \in Nat, ~(head >= v), NEW s \in RowsOf(tenant, v)
        PROVE  Rank[r.type] > Rank[s.type]
    <3>1. s \in mine /\ s.version = v /\ r \in mine /\ Rank[r.type] = last
      BY DEF RowsOf
    <3>2. Rank[s.type] <= last /\ Rank[s.type] \in Nat /\ last \in Nat
      BY <3>1, <1>1, <2>2, <2>3
    <3>3. s \notin ends
      <4>1. SUFFICES ASSUME s \in ends
                     PROVE  FALSE
        OBVIOUS
      <4>2. v <= head /\ head \in Nat
        BY <4>1, <3>1, <2>1, <2>4, <2>5
      <4> QED
        BY <4>2, <2>7
    <3>4. Rank[s.type] # last
      BY <3>1, <3>3
    <3> QED
      BY <3>1, <3>2, <3>4
  <2>8. r \in RowsOf(tenant, head) /\ r \in rows /\ r.tenant = tenant
    BY <2>6 DEF RowsOf
  <2> HIDE DEF head, ends
  <2>9. \A v \in Nat : ~(head >= v) =>
           \E q \in RowsOf(tenant, head) : \A s \in RowsOf(tenant, v) : Rank[q.type] > Rank[s.type]
    BY <2>7, <2>8
  <2> QED
    BY <2>0, <2>6, <2>8, <2>9 DEF head
<1> QED
  BY <1>3, <1>4

\* The newest version acknowledged is none or that of a visible write.
LEMMA SinceVisible ==
    ASSUME Shapes, Writers, Stored, NEW tenant
    PROVE  LET since == Greatest(Acknowledged(tenant) \cup {0})
           IN /\ since \in Nat
              /\ since # 0 => Seen(tenant, since)
<1> DEFINE S == Acknowledged(tenant) \cup {0}
<1>1. \A v \in Acknowledged(tenant) : /\ v \in Nat /\ v <= clock
                                      /\ Seen(tenant, v)
  <2>1. SUFFICES ASSUME NEW d \in Callers, plan[d].kind = "write", plan[d].tenant = tenant,
                        Succeeded(d)
                 PROVE  /\ call[d].version \in Nat /\ call[d].version <= clock
                        /\ IsVersion(d, tenant, call[d].version) /\ Visible(d)
    BY DEF Acknowledged, Succeeded, Seen
  <2>2. Writer(d)
    BY <2>1 DEF Writers, WriterOK, Writer
  <2>3. Visible(d)
    BY <2>1, <2>2 DEF Stored
  <2> QED
    BY <2>1, <2>2, <2>3 DEF IsVersion, Shapes
<1>2. S \subseteq Nat /\ S # {} /\ (\A v \in S : v <= clock) /\ clock \in Nat
  BY <1>1 DEF Shapes
<1>3. Greatest(S) \in S
  <2> HIDE DEF S
  <2> QED
    BY <1>2, GreatestExists
<1> QED
  BY <1>1, <1>2, <1>3

-----------------------------------------------------------------------------
(* Steps.  All but two of them answer one call and change no version.      *)

\* What a step of c leaves alone.
Frame(c) ==
    /\ plan' = plan /\ engine' = engine
    /\ call' = [d \in Callers |-> call'[d]]
    /\ \A d \in Callers : d # c => call'[d] = call[d]
    /\ call'[c] = [x \in CallFields |-> call'[c][x]]

\* c is answered and keeps its version.
Answered(c) ==
    /\ Frame(c)
    /\ call'[c].at = "done" /\ call'[c].version = call[c].version
    /\ call'[c].schema = call[c].schema /\ call'[c].since = call[c].since
    /\ call'[c].reply = [x \in ReplyFields |-> call'[c].reply[x]]

LEMMA ReplyAnswers ==
    ASSUME Shapes, NEW c \in Callers, NEW r, r = [x \in ReplyFields |-> r[x]], Reply(c, r),
           plan' = plan, engine' = engine
    PROVE  Answered(c) /\ call'[c].reply = r
<1>1. call = [d \in Callers |-> call[d]] /\ call[c] = [x \in CallFields |-> call[c][x]]
  BY DEF Shapes
<1>2. call' = [call EXCEPT ![c] = [call[c] EXCEPT !.at = "done", !.reply = r]]
  BY <1>1 DEF Reply
<1>3. call' = [d \in Callers |-> IF d = c THEN [call[c] EXCEPT !.at = "done", !.reply = r] ELSE call[d]]
  BY <1>1, <1>2
<1> DEFINE new == [call[c] EXCEPT !.at = "done", !.reply = r]
<1>4. call'[c] = new /\ \A d \in Callers : d # c => call'[d] = call[d]
  BY <1>3
<1>5. call' = [d \in Callers |-> call'[d]]
  BY <1>3, <1>4
<1>6. /\ new.at = "done" /\ new.reply = r
      /\ new.version = call[c].version /\ new.schema = call[c].schema /\ new.since = call[c].since
      /\ new = [x \in CallFields |-> new[x]]
  BY <1>1 DEF CallFields
<1> HIDE DEF new
<1> QED
  BY <1>4, <1>5, <1>6 DEF Answered, Frame

LEMMA ReplyShapes ==
    /\ NoReply = [x \in ReplyFields |-> NoReply[x]] /\ NoReply.err = ""
    /\ \A err : /\ Refusal(err) = [x \in ReplyFields |-> Refusal(err)[x]]
                /\ Refusal(err).err = err
  BY DEF NoReply, Refusal, ReplyFields

\* Versions, schemas and plans of writes that have them stay.
Steady ==
    /\ plan' = plan /\ engine' = engine /\ clock \in Nat /\ clock' \in Nat /\ clock <= clock'
    /\ \A d \in Callers : Writer(d) => /\ call'[d].version = call[d].version
                                       /\ call'[d].schema = call[d].schema
    /\ \A d \in Callers : plan[d].kind = "write" /\ call'[d].version # call[d].version
                             => call'[d].version = clock + 1

LEMMA SteadyWriters ==
    ASSUME Steady, NEW d \in Callers, Writer(d)
    PROVE  Writer(d)' /\ Serialized(d)' = Serialized(d) /\ Written(d)' = Written(d)
  BY DEF Steady, Writer, Serialized, Written, Row

LEMMA AnsweredSteady ==
    ASSUME Shapes, NEW c \in Callers, Answered(c), clock' = clock
    PROVE  /\ Shapes' /\ Steady
           /\ \A d \in Callers : /\ call'[d].version = call[d].version
                                 /\ call'[d].schema = call[d].schema
                                 /\ call'[d].since = call[d].since
                                 /\ Writer(d)' = Writer(d) /\ Serialized(d)' = Serialized(d)
<1>1. \A d \in Callers : /\ call'[d].version = call[d].version
                         /\ call'[d].schema = call[d].schema
                         /\ call'[d].since = call[d].since
  BY DEF Answered, Frame
<1>2. plan' = plan /\ engine' = engine
  BY DEF Answered, Frame
<1>3. \A d \in Callers : Writer(d)' = Writer(d) /\ Serialized(d)' = Serialized(d)
  BY <1>1, <1>2 DEF Writer, Serialized, Row
<1>4. \A d \in Callers : /\ call'[d] = [x \in CallFields |-> call'[d][x]]
                         /\ call'[d].reply = [x \in ReplyFields |-> call'[d].reply[x]]
  BY DEF Answered, Frame, Shapes
<1>5. Shapes'
  BY <1>1, <1>2, <1>4 DEF Shapes, Answered, Frame
<1>6. Steady
  BY <1>1, <1>2 DEF Steady, Shapes
<1> QED
  BY <1>1, <1>3, <1>5, <1>6

\* A step of a reader that answers it: it succeeds only if it was pinned.
LEMMA ReaderAnswered ==
    ASSUME StoreInv, NEW c \in Callers, Answered(c), clock' = clock, rows' = rows,
           plan[c].kind # "write",
           call'[c].reply.err = "" => call[c].at = "pinned"
    PROVE  StoreInv'
<1> USE DEF StoreInv
<1>1. /\ Shapes'
      /\ \A d \in Callers : /\ call'[d].version = call[d].version
                            /\ call'[d].schema = call[d].schema
                            /\ call'[d].since = call[d].since
                            /\ Writer(d)' = Writer(d) /\ Serialized(d)' = Serialized(d)
  BY AnsweredSteady
<1>2. plan' = plan /\ engine' = engine /\ \A d \in Callers : d # c => call'[d] = call[d]
  BY DEF Answered, Frame
<1>3. \A d \in Callers : /\ Succeeded(d)' => Succeeded(d) \/ (d = c /\ call[d].at = "pinned")
                         /\ call'[d].at = "pinned" => call[d].at = "pinned"
                         /\ Visible(d)' = Visible(d)
  BY <1>1, <1>2 DEF Succeeded, Answered, Visible
<1>4. \A d \in Callers : plan[d].kind = "write" => call'[d] = call[d]
  BY <1>2
<1>5. Writers'
  <2>1. \A d \in Callers : plan[d].kind = "write" => WriterOK(d)' = WriterOK(d)
    BY <1>2, <1>4 DEF WriterOK, Succeeded, Accepts
  <2> QED
    BY <1>1, <1>2, <2>1 DEF Writers
<1>6. Stored'
  <2>1. \A d \in Callers : Writer(d) => call'[d] = call[d]
    BY <1>4 DEF Writer
  <2> QED
    BY <1>1, <1>3, <2>1 DEF Stored, Succeeded
<1>7. Readers'
  <2>1. \A t, v : Seen(t, v)' = Seen(t, v)
    BY <1>1, <1>2, <1>3 DEF IsVersion, Seen
  <2>2. ASSUME NEW d \in Callers, plan[d].kind # "write"
        PROVE  ReaderOK(d)'
    <3>1. ReaderOK(d)
      BY <2>2 DEF Readers
    <3> QED
      BY <3>1, <1>1, <1>2, <1>3, <2>1 DEF ReaderOK
  <2> QED
    BY <2>2, <1>2 DEF Readers
<1>8. HeadOrdered'
  <2>1. \A t, v : RowsOf(t, v)' = RowsOf(t, v)
    BY DEF RowsOf
  <2> QED
    BY <1>1, <1>2, <1>3, <2>1 DEF HeadOrdered, Succeeded
<1> QED
  BY <1>1, <1>5, <1>6, <1>7, <1>8

\* A text that is refused.
LEMMA WriteRefused ==
    ASSUME StoreInv, NEW c \in Callers, Is(c, "write", "new"), Answered(c), clock' = clock,
           rows' = rows, call'[c].reply.err # ""
    PROVE  StoreInv'
<1> USE DEF StoreInv
<1>1. /\ Shapes'
      /\ \A d \in Callers : /\ call'[d].version = call[d].version
                            /\ call'[d].schema = call[d].schema
                            /\ call'[d].since = call[d].since
                            /\ Writer(d)' = Writer(d) /\ Serialized(d)' = Serialized(d)
  BY AnsweredSteady
<1>2. plan' = plan /\ engine' = engine /\ \A d \in Callers : d # c => call'[d] = call[d]
  BY DEF Answered, Frame
<1>3. plan[c].kind = "write" /\ call[c].version = 0 /\ WriterOK(c)
  BY DEF Is, Writers, WriterOK
<1>4. \A d \in Callers : Visible(d)' = Visible(d) /\ (Succeeded(d)' => Succeeded(d))
  BY <1>1, <1>2 DEF Visible, Succeeded
<1>5. \A d \in Callers : Writer(d) => call'[d] = call[d]
  BY <1>2, <1>3 DEF Writer
<1>6. Writers'
  <2>1. \A d \in Callers : d # c => WriterOK(d)' = WriterOK(d)
    BY <1>2 DEF WriterOK, Succeeded, Accepts
  <2>2. WriterOK(c)'
    BY <1>1, <1>3 DEF WriterOK, Answered, Succeeded
  <2> QED
    BY <1>1, <1>2, <2>1, <2>2 DEF Writers
<1>7. Stored'
  BY <1>1, <1>4, <1>5 DEF Stored
<1>8. Readers'
  <2>1. \A t, v : Seen(t, v)' = Seen(t, v)
    BY <1>1, <1>2, <1>4 DEF IsVersion, Seen
  <2>2. \A d \in Callers : plan[d].kind # "write" => ReaderOK(d)' = ReaderOK(d)
    BY <1>2, <1>3, <2>1 DEF ReaderOK, Succeeded
  <2> QED
    BY <2>2, <1>2 DEF Readers
<1>9. HeadOrdered'
  <2>1. \A t, v : RowsOf(t, v)' = RowsOf(t, v)
    BY DEF RowsOf
  <2> QED
    BY <1>1, <1>2, <2>1 DEF HeadOrdered, Answered
<1> QED
  BY <1>1, <1>6, <1>7, <1>8, <1>9

\* The rows of a write about to insert are not there yet, and no other write
\* has one of them.
LEMMA InsertApart ==
    ASSUME StoreInv, NEW c \in Callers, Is(c, "write", "insert")
    PROVE  /\ Writer(c) /\ Serialized(c) \cap rows = {} /\ ~Visible(c)
           /\ \A d \in Callers : Writer(d) /\ d # c => Serialized(d) \cap Serialized(c) = {}
<1> USE DEF StoreInv
<1>1. Writer(c)
  BY DEF Is, Writers, WriterOK, Writer
<1>2. \A d \in Callers : Writer(d) /\ d # c => Serialized(d) \cap Serialized(c) = {}
  <2>1. SUFFICES ASSUME NEW d \in Callers, Writer(d), NEW r \in Serialized(d), r \in Serialized(c)
                 PROVE  d = c
    OBVIOUS
  <2>2. r.version = call[d].version /\ r.version = call[c].version
    BY <1>1, <2>1, SerializedRows
  <2> QED
    BY <1>1, <2>1, <2>2 DEF Writers
<1>3. Serialized(c) \cap rows = {}
  <2>1. SUFFICES ASSUME NEW r \in rows, r \in Serialized(c)
                 PROVE  FALSE
    OBVIOUS
  <2>2. PICK d \in Callers : Writer(d) /\ call[d].at = "done" /\ r \in Serialized(d)
    BY DEF Stored
  <2>3. d = c
    BY <1>2, <2>1, <2>2
  <2> QED
    BY <2>2, <2>3 DEF Is
<1>4. Serialized(c) # {}
  BY <1>1, SerializedRows
<1> QED
  BY <1>1, <1>2, <1>3, <1>4 DEF Visible

\* The statement inserts all rows or, if it fails, perhaps none.
LEMMA Inserted ==
    ASSUME StoreInv, NEW c \in Callers, Is(c, "write", "insert"), Answered(c), clock' = clock,
           rows' = rows \cup Serialized(c) \/ (rows' = rows /\ call'[c].reply.err # "")
    PROVE  StoreInv'
<1> USE DEF StoreInv
<1>1. /\ Shapes'
      /\ \A d \in Callers : /\ call'[d].version = call[d].version
                            /\ call'[d].schema = call[d].schema
                            /\ call'[d].since = call[d].since
                            /\ Writer(d)' = Writer(d) /\ Serialized(d)' = Serialized(d)
  BY AnsweredSteady
<1>2. plan' = plan /\ engine' = engine /\ \A d \in Callers : d # c => call'[d] = call[d]
  BY DEF Answered, Frame
<1>3. /\ plan[c].kind = "write" /\ WriterOK(c) /\ call[c].version # 0 /\ call'[c].at = "done"
      /\ call[c].at = "insert"
  BY DEF Is, Writers, WriterOK, Answered
<1>4. /\ Writer(c) /\ Serialized(c) \cap rows = {} /\ ~Visible(c)
      /\ \A d \in Callers : Writer(d) /\ d # c => Serialized(d) \cap Serialized(c) = {}
  BY InsertApart
<1>5. rows \subseteq rows' /\ \A d \in Callers : Visible(d) => Visible(d)'
  BY <1>1 DEF Visible
<1>6. Writers'
  <2>1. \A d \in Callers : d # c => WriterOK(d)' = WriterOK(d)
    BY <1>2 DEF WriterOK, Succeeded, Accepts
  <2>2. WriterOK(c)'
    BY <1>1, <1>2, <1>3 DEF WriterOK, Accepts
  <2> QED
    BY <1>1, <1>2, <2>1, <2>2 DEF Writers
<1>7. Stored'
  <2>1. ASSUME NEW r \in rows'
        PROVE  \E d \in Callers : Writer(d)' /\ call'[d].at = "done" /\ r \in Serialized(d)'
    <3>1. CASE r \in rows
      <4>1. PICK d \in Callers : Writer(d) /\ call[d].at = "done" /\ r \in Serialized(d)
        BY <3>1 DEF Stored
      <4>2. call'[d].at = "done"
        BY <4>1, <1>2, <1>3
      <4> QED
        BY <4>1, <4>2, <1>1
    <3>2. CASE r \in Serialized(c)
      BY <3>2, <1>1, <1>3, <1>4
    <3> QED
      BY <3>1, <3>2
  <2>2. ASSUME NEW d \in Callers, Writer(d)
        PROVE  (Visible(d) \/ Serialized(d) \cap rows = {})'
    <3>1. CASE d = c
      BY <3>1, <1>1, <1>4 DEF Visible
    <3>2. CASE d # c
      <4>1. CASE Visible(d)
        BY <4>1, <1>5
      <4>2. CASE Serialized(d) \cap rows = {}
        BY <4>2, <3>2, <2>2, <1>1, <1>4
      <4> QED
        BY <4>1, <4>2, <2>2 DEF Stored
    <3> QED
      BY <3>1, <3>2
  <2>3. ASSUME NEW d \in Callers, Writer(d), Succeeded(d)'
        PROVE  Visible(d)'
    <3>1. CASE d = c
      BY <3>1, <2>3, <1>1 DEF Succeeded, Visible
    <3>2. CASE d # c
      BY <3>2, <2>3, <1>2, <1>5 DEF Succeeded, Stored
    <3> QED
      BY <3>1, <3>2
  <2> QED
    BY <2>1, <2>2, <2>3, <1>1 DEF Stored
<1>8. \A t, v : Seen(t, v) => Seen(t, v)'
  BY <1>1, <1>2, <1>5 DEF IsVersion, Seen
<1>9. Readers'
  <2>1. ASSUME NEW d \in Callers, plan[d].kind # "write"
        PROVE  ReaderOK(d)'
    <3>1. ReaderOK(d) /\ call'[d] = call[d]
      BY <2>1, <1>2, <1>3 DEF Readers
    <3> QED
      BY <3>1, <1>2, <1>8 DEF ReaderOK, Succeeded
  <2> QED
    BY <2>1, <1>2 DEF Readers
<1>10. HeadOrdered'
  <2>1. SUFFICES ASSUME NEW d \in Callers, call'[d].at = "pinned" \/ Succeeded(d)',
                        ~(call[d].version >= call[d].since)
                 PROVE  /\ engine = "memory"
                        /\ \E r \in RowsOf(plan[d].tenant, call[d].version)' :
                              \A s \in RowsOf(plan[d].tenant, call[d].since)' :
                                 Rank[r.type] > Rank[s.type]
    BY <1>1, <1>2 DEF HeadOrdered, Succeeded
  <2>2. plan[d].kind # "write" /\ call[d].since # 0
    <3>1. call[d].version \in Nat /\ call[d].since \in Nat
      BY DEF Shapes
    <3>2. call[d].since # 0
      BY <2>1, <3>1, BelowSomething
    <3> QED
      BY <3>2 DEF Writers, WriterOK
  <2>3. call'[d] = call[d]
    BY <2>2, <1>2, <1>3
  <2>4. PICK r \in RowsOf(plan[d].tenant, call[d].version) :
               /\ engine = "memory"
               /\ \A s \in RowsOf(plan[d].tenant, call[d].since) : Rank[r.type] > Rank[s.type]
    BY <2>1, <2>3 DEF HeadOrdered, Succeeded
  <2>5. r \in RowsOf(plan[d].tenant, call[d].version)'
    BY <1>2, <1>5, <2>3 DEF RowsOf
  <2>6. call[d].since # call[c].version
    <3>1. PICK e \in Callers : IsVersion(e, plan[d].tenant, call[d].since) /\ Visible(e)
      BY <2>2 DEF Readers, ReaderOK, Seen
    <3> QED
      BY <3>1, <1>4 DEF Writers, IsVersion
  <2>7. RowsOf(plan[d].tenant, call[d].since)' \subseteq RowsOf(plan[d].tenant, call[d].since)
    <3>1. SUFFICES ASSUME NEW s \in rows', s.version = call[d].since
                   PROVE  s \in rows
      BY <1>2, <2>3 DEF RowsOf
    <3>2. s \notin Serialized(c)
      BY <3>1, <2>6, <1>4, SerializedRows
    <3> QED
      BY <3>2
  <2> QED
    BY <2>4, <2>5, <2>7
<1> QED
  BY <1>1, <1>6, <1>7, <1>9, <1>10

\* An accepted text gets a version that nobody has.
LEMMA Accepted ==
    ASSUME StoreInv, NEW c \in Callers, Is(c, "write", "new"), Accepts(plan[c].text),
           clock' = clock + 1, rows' = rows, plan' = plan, engine' = engine,
           call' = [call EXCEPT ![c].at = "insert", ![c].version = clock + 1,
                                ![c].schema = ParseText(plan[c].text).exp]
    PROVE  StoreInv' /\ Steady
<1> USE DEF StoreInv
<1>0. /\ plan[c].kind = "write" /\ call[c].version = 0 /\ call[c].since = 0 /\ clock \in Nat
      /\ call = [d \in Callers |-> call[d]] /\ call[c] = [x \in CallFields |-> call[c][x]]
  BY DEF Is, Writers, WriterOK, Shapes
<1> DEFINE new == [call[c] EXCEPT !.at = "insert", !.version = clock + 1,
                                  !.schema = ParseText(plan[c].text).exp]
<1>1. call' = [d \in Callers |-> IF d = c THEN new ELSE call[d]]
  <2>1. call' = [call EXCEPT ![c] = new]
    BY <1>0
  <2> HIDE DEF new
  <2> QED
    BY <1>0, <2>1
<1>2. /\ new.at = "insert" /\ new.version = clock + 1 /\ new.since = 0
      /\ new.schema = ParseText(plan[c].text).exp /\ new.reply = call[c].reply
      /\ new = [x \in CallFields |-> new[x]]
  BY <1>0 DEF CallFields
<1> HIDE DEF new
<1>3. /\ call'[c] = new /\ call' = [d \in Callers |-> call'[d]]
      /\ \A d \in Callers : d # c => call'[d] = call[d]
  BY <1>1
<1>4. \A d \in Callers : call[d].version \in Nat /\ call[d].version <= clock
  BY DEF Shapes
<1>5. \A d \in Callers : call[d].version # clock + 1 /\ call[d].version <= clock + 1
  BY <1>0, <1>4, NextIsNew
<1>6. clock + 1 \in Nat /\ clock + 1 # 0 /\ clock <= clock + 1
  BY <1>0
<1>7. Shapes'
  <2>1. ASSUME NEW d \in Callers
        PROVE  /\ call'[d] = [x \in CallFields |-> call'[d][x]]
               /\ call'[d].reply = [x \in ReplyFields |-> call'[d].reply[x]]
               /\ call'[d].version \in Nat /\ call'[d].version <= clock + 1
               /\ call'[d].since \in Nat
    <3>1. CASE d = c
      BY <3>1, <1>2, <1>3, <1>6 DEF Shapes
    <3>2. CASE d # c
      BY <3>2, <1>3, <1>5 DEF Shapes
    <3> QED
      BY <3>1, <3>2
  <2> QED
    BY <2>1, <1>3, <1>6 DEF Shapes
<1>8. Steady
  BY <1>0, <1>2, <1>3, <1>6 DEF Steady, Writer
<1>9. \A d \in Callers : /\ Writer(d) => d # c /\ call'[d] = call[d]
                         /\ Writer(d)' <=> Writer(d) \/ d = c
                         /\ Writer(d) => Serialized(d)' = Serialized(d) /\ Visible(d)' = Visible(d)
  <2>1. \A d \in Callers : Writer(d) => d # c /\ call'[d] = call[d]
    BY <1>0, <1>3 DEF Writer
  <2>2. \A d \in Callers : Writer(d)' <=> Writer(d) \/ d = c
    BY <1>0, <1>2, <1>3, <1>6 DEF Writer
  <2> QED
    BY <2>1, <2>2, <1>8, SteadyWriters DEF Visible
<1>10. Writers'
  <2>1. \A d \in Callers : d # c => WriterOK(d)' = WriterOK(d)
    BY <1>3 DEF WriterOK, Succeeded, Accepts
  <2>2. WriterOK(c)'
    BY <1>2, <1>3, <1>6 DEF WriterOK, Accepts
  <2>3. ASSUME NEW d \in Callers, NEW e \in Callers, Writer(d)', Writer(e)',
               call'[d].version = call'[e].version
        PROVE  d = e
    <3>1. \A x \in Callers : Writer(x) => call'[x].version = call[x].version
                                           /\ call'[x].version # clock + 1
      BY <1>5, <1>9
    <3>2. call'[c].version = clock + 1
      BY <1>2, <1>3
    <3>3. (Writer(d) \/ d = c) /\ (Writer(e) \/ e = c)
      BY <2>3, <1>9
    <3>4. CASE Writer(d) /\ Writer(e)
      BY <3>4, <3>1, <2>3 DEF Writers
    <3>5. CASE ~(Writer(d) /\ Writer(e))
      BY <3>5, <3>1, <3>2, <3>3, <2>3
    <3> QED
      BY <3>4, <3>5
  <2> QED
    BY <2>1, <2>2, <2>3 DEF Writers
<1>11. Serialized(c)' \cap rows' = {}
  <2>1. SUFFICES ASSUME NEW r \in rows, r \in Serialized(c)'
                 PROVE  FALSE
    OBVIOUS
  <2>2. r.version = clock + 1
    BY <2>1, <1>2, <1>3 DEF Serialized, Row
  <2>3. r.version \in Nat /\ r.version <= clock
    BY <2>1, RowWriter
  <2> QED
    BY <2>2, <2>3, <1>0, NextIsNew
<1>12. Stored'
  <2>1. ASSUME NEW r \in rows'
        PROVE  \E d \in Callers : Writer(d)' /\ call'[d].at = "done" /\ r \in Serialized(d)'
    BY <1>9 DEF Stored
  <2>2. ASSUME NEW d \in Callers, Writer(d)'
        PROVE  (Visible(d) \/ Serialized(d) \cap rows = {})'
    BY <2>2, <1>9, <1>11 DEF Stored
  <2>3. ASSUME NEW d \in Callers, Writer(d)', Succeeded(d)'
        PROVE  Visible(d)'
    <3>1. call'[c].at # "done"
      BY <1>2, <1>3
    <3>2. d # c /\ Writer(d) /\ call'[d] = call[d]
      BY <2>3, <3>1, <1>9 DEF Succeeded
    <3>3. Visible(d)
      BY <2>3, <3>2 DEF Stored, Succeeded
    <3> QED
      BY <3>2, <3>3, <1>9
  <2> QED
    BY <2>1, <2>2, <2>3 DEF Stored
<1>13. \A t, v : Seen(t, v) => Seen(t, v)'
  BY <1>9 DEF IsVersion, Seen
<1>14. Readers'
  <2>1. ASSUME NEW d \in Callers, plan[d].kind # "write"
        PROVE  ReaderOK(d)'
    <3>1. ReaderOK(d) /\ call'[d] = call[d]
      BY <2>1, <1>0, <1>3 DEF Readers
    <3> QED
      BY <3>1, <1>13 DEF ReaderOK, Succeeded
  <2> QED
    BY <2>1 DEF Readers
<1>15. HeadOrdered'
  <2>1. \A t, v : RowsOf(t, v)' = RowsOf(t, v)
    BY DEF RowsOf
  <2>2. call'[c].at = "insert"
    BY <1>2, <1>3
  <2> QED
    BY <1>3, <2>1, <2>2 DEF HeadOrdered
<1> QED
  BY <1>7, <1>8, <1>10, <1>12, <1>14, <1>15

\* A reader takes the head of now.
LEMMA Pinned ==
    ASSUME StoreInv, NEW c \in Callers, plan[c].kind # "write",
           HeadVersion(plan[c].tenant) # 0,
           clock' = clock, rows' = rows, plan' = plan, engine' = engine,
           call' = [call EXCEPT ![c].at = "pinned", ![c].version = HeadVersion(plan[c].tenant),
                        ![c].since = Greatest(Acknowledged(plan[c].tenant) \cup {0})]
    PROVE  StoreInv' /\ Steady
<1> USE DEF StoreInv
<1> DEFINE t == plan[c].tenant
           head == HeadVersion(t)
           since == Greatest(Acknowledged(t) \cup {0})
           new == [call[c] EXCEPT !.at = "pinned", !.version = head, !.since = since]
<1>0. /\ call = [d \in Callers |-> call[d]] /\ call[c] = [x \in CallFields |-> call[c][x]]
      /\ clock \in Nat
  BY DEF Shapes
<1>1. PICK q \in rows : q.tenant = t /\ q.version = head
  BY HeadRows
<1>2. PICK w \in Callers : IsVersion(w, t, head) /\ Visible(w) /\ head \in Nat /\ head <= clock
  BY <1>1, RowWriter
<1>3. since \in Nat /\ (since # 0 => Seen(t, since))
  BY SinceVisible
<1>4. since = 0 \/ RowsOf(t, since) # {}
  <2>1. SUFFICES ASSUME since # 0
                 PROVE  RowsOf(t, since) # {}
    OBVIOUS
  <2>2. PICK d \in Callers : IsVersion(d, t, since) /\ Visible(d)
    BY <1>3, <2>1 DEF Seen
  <2>3. RowsOf(plan[d].tenant, call[d].version) = Serialized(d) /\ Serialized(d) # {}
    BY <2>2, VisibleRows, SerializedRows DEF IsVersion
  <2> QED
    BY <2>2, <2>3 DEF IsVersion
<1>5. \/ head >= since
      \/ /\ engine = "memory"
         /\ \E r \in RowsOf(t, head) : \A s \in RowsOf(t, since) : Rank[r.type] > Rank[s.type]
  <2>1. CASE since = 0
    BY <2>1, <1>2
  <2>2. CASE since # 0
    <3> HIDE DEF since
    <3> QED
      BY <2>2, <1>3, <1>4, HeadRows
  <2> QED
    BY <2>1, <2>2
<1>6. call' = [d \in Callers |-> IF d = c THEN new ELSE call[d]]
  <2>1. call' = [call EXCEPT ![c] = new]
    BY <1>0
  <2> HIDE DEF new
  <2> QED
    BY <1>0, <2>1
<1> HIDE DEF head, since
<1>7. /\ new.at = "pinned" /\ new.version = head /\ new.since = since
      /\ new.schema = call[c].schema /\ new.reply = call[c].reply
      /\ new = [x \in CallFields |-> new[x]]
  BY <1>0 DEF CallFields
<1> HIDE DEF new
<1>8. /\ call'[c] = new /\ call' = [d \in Callers |-> call'[d]]
      /\ \A d \in Callers : d # c => call'[d] = call[d]
  BY <1>6
<1>9. Shapes'
  <2>1. ASSUME NEW d \in Callers
        PROVE  /\ call'[d] = [x \in CallFields |-> call'[d][x]]
               /\ call'[d].reply = [x \in ReplyFields |-> call'[d].reply[x]]
               /\ call'[d].version \in Nat /\ call'[d].version <= clock
               /\ call'[d].since \in Nat
    <3>1. CASE d = c
      BY <3>1, <1>2, <1>3, <1>7, <1>8 DEF Shapes
    <3>2. CASE d # c
      BY <3>2, <1>8 DEF Shapes
    <3> QED
      BY <3>1, <3>2
  <2> QED
    BY <2>1, <1>8 DEF Shapes
<1>10. \A d \in Callers : plan[d].kind = "write" => call'[d] = call[d]
  BY <1>8
<1>11. Steady
  BY <1>0, <1>10 DEF Steady, Writer
<1>12. \A d \in Callers : /\ Writer(d)' = Writer(d)
                          /\ Writer(d) => Serialized(d)' = Serialized(d) /\ Visible(d)' = Visible(d)
  <2>1. \A d \in Callers : Writer(d)' = Writer(d)
    BY <1>10 DEF Writer
  <2> QED
    BY <2>1, <1>11, SteadyWriters DEF Visible
<1>13. Writers'
  <2>1. \A d \in Callers : plan[d].kind = "write" => WriterOK(d)' = WriterOK(d)
    BY <1>10 DEF WriterOK, Succeeded, Accepts
  <2>2. \A d \in Callers : Writer(d) => call'[d] = call[d]
    BY <1>10 DEF Writer
  <2> QED
    BY <2>1, <2>2, <1>12 DEF Writers
<1>14. Stored'
  <2>1. \A d \in Callers : Writer(d) => call'[d] = call[d]
    BY <1>10 DEF Writer
  <2> QED
    BY <2>1, <1>12 DEF Stored, Succeeded
<1>15. \A x, v : Seen(x, v) => Seen(x, v)'
  <2>1. \A d \in Callers : Writer(d) => call'[d] = call[d]
    BY <1>10 DEF Writer
  <2> QED
    BY <2>1, <1>12 DEF IsVersion, Seen
<1>16. Readers'
  <2>1. ASSUME NEW d \in Callers, plan[d].kind # "write"
        PROVE  ReaderOK(d)'
    <3>1. CASE d = c
      <4>1. Seen(t, head)
        BY <1>2 DEF Seen
      <4> QED
        BY <3>1, <4>1, <1>3, <1>7, <1>8, <1>15 DEF ReaderOK
    <3>2. CASE d # c
      <4>1. ReaderOK(d) /\ call'[d] = call[d]
        BY <3>2, <2>1, <1>8 DEF Readers
      <4> QED
        BY <4>1, <1>15 DEF ReaderOK, Succeeded
    <3> QED
      BY <3>1, <3>2
  <2> QED
    BY <2>1 DEF Readers
<1>17. HeadOrdered'
  <2>1. \A x, v : RowsOf(x, v)' = RowsOf(x, v)
    BY DEF RowsOf
  <2> QED
    BY <2>1, <1>5, <1>7, <1>8 DEF HeadOrdered
<1> QED
  BY <1>9, <1>11, <1>13, <1>14, <1>16, <1>17

-----------------------------------------------------------------------------
(* Every step *)

\* What a step does to the store and to the versions, whatever it answers.
LEMMA StepStore ==
    ASSUME StoreInv, NEW c \in Callers, Step(c)
    PROVE  StoreInv' /\ Steady
<1> USE DEF StoreInv
<1>1. ASSUME NEW r, r = [x \in ReplyFields |-> r[x]], Reply(c, r), plan[c].kind # "write",
             r.err = "" => call[c].at = "pinned",
             plan' = plan, engine' = engine, clock' = clock, rows' = rows
      PROVE  StoreInv' /\ Steady
  <2>1. Answered(c) /\ call'[c].reply = r
    BY <1>1, ReplyAnswers
  <2> QED
    BY <2>1, <1>1, ReaderAnswered, AnsweredSteady
<1>2. CASE WriteSchema(c)
  <2> DEFINE r == Refusal("ERROR_CODE_SCHEMA_COMPILE")
  <2>1. CASE ~Accepts(plan[c].text)
    <3>1. Reply(c, r) /\ clock' = clock /\ rows' = rows /\ plan' = plan /\ engine' = engine
          /\ Is(c, "write", "new")
      BY <1>2, <2>1 DEF WriteSchema
    <3>2. r = [x \in ReplyFields |-> r[x]] /\ r.err # ""
      BY DEF Refusal, NoReply, ReplyFields
    <3> HIDE DEF r
    <3>3. Answered(c) /\ call'[c].reply = r
      BY <3>1, <3>2, ReplyAnswers
    <3> QED
      BY <3>1, <3>2, <3>3, WriteRefused, AnsweredSteady
  <2>2. CASE Accepts(plan[c].text)
    BY <1>2, <2>2, Accepted DEF WriteSchema
  <2> QED
    BY <2>1, <2>2
<1>3. CASE Insert(c)
  <2>1. /\ Reply(c, NoReply) /\ clock' = clock /\ plan' = plan /\ engine' = engine
        /\ Is(c, "write", "insert") /\ rows' = rows \cup Serialized(c)
    BY <1>3 DEF Insert
  <2>2. Answered(c)
    BY <2>1, ReplyShapes, ReplyAnswers
  <2> QED
    BY <2>1, <2>2, Inserted, AnsweredSteady
<1>4. CASE InsertFails(c)
  <2> DEFINE r == Refusal("ERROR_CODE_EXECUTION")
  <2>1. /\ Reply(c, r) /\ clock' = clock /\ plan' = plan /\ engine' = engine
        /\ Is(c, "write", "insert") /\ (rows' = rows \/ rows' = rows \cup Serialized(c))
    BY <1>4 DEF InsertFails
  <2>2. r = [x \in ReplyFields |-> r[x]] /\ r.err # ""
    BY DEF Refusal, NoReply, ReplyFields
  <2> HIDE DEF r
  <2>3. Answered(c) /\ call'[c].reply = r
    BY <2>1, <2>2, ReplyAnswers
  <2> QED
    BY <2>1, <2>2, <2>3, Inserted, AnsweredSteady
<1>5. CASE PinVersion(c)
  <2> DEFINE r == Refusal("ERROR_CODE_SCHEMA_NOT_FOUND")
  <2>1. plan[c].kind # "write" /\ clock' = clock /\ plan' = plan /\ engine' = engine /\ rows' = rows
    BY <1>5 DEF PinVersion
  <2>2. CASE HeadVersion(plan[c].tenant) = 0
    <3>1. Reply(c, r)
      BY <1>5, <2>2 DEF PinVersion
    <3>2. r = [x \in ReplyFields |-> r[x]] /\ r.err # ""
      BY DEF Refusal, NoReply, ReplyFields
    <3> HIDE DEF r
    <3> QED
      BY <1>1, <2>1, <3>1, <3>2
  <2>3. CASE HeadVersion(plan[c].tenant) # 0
    <3>1. call' = [call EXCEPT ![c].at = "pinned", ![c].version = HeadVersion(plan[c].tenant),
                       ![c].since = Greatest(Acknowledged(plan[c].tenant) \cup {0})]
      BY <1>5, <2>3 DEF PinVersion
    <3> QED
      BY <2>1, <2>3, <3>1, Pinned
  <2> QED
    BY <2>2, <2>3
<1>6. CASE Read(c)
  <2>1. PICK v \in ReadRows(plan[c].tenant, call[c].version) :
               Reply(c, [NoReply EXCEPT !.err = v.err, !.schema = v.schema])
    BY <1>6 DEF Read
  <2> DEFINE r == [NoReply EXCEPT !.err = v.err, !.schema = v.schema]
  <2>2. r = [x \in ReplyFields |-> r[x]]
    BY DEF NoReply, ReplyFields
  <2>3. /\ plan[c].kind # "write" /\ call[c].at = "pinned"
        /\ clock' = clock /\ plan' = plan /\ engine' = engine /\ rows' = rows
    BY <1>6 DEF Read, Is
  <2> HIDE DEF r
  <2> QED
    BY <1>1, <2>1, <2>2, <2>3 DEF r
<1>7. ASSUME NEW definition, Answer(c, definition), Is(c, "lookup", "pinned"),
             clock' = clock, plan' = plan, engine' = engine, rows' = rows
      PROVE  StoreInv' /\ Steady
  <2> DEFINE r == [NoReply EXCEPT !.actions = ActionsFor(definition, plan[c].names)]
  <2>1. r = [x \in ReplyFields |-> r[x]] /\ Reply(c, r)
    BY <1>7 DEF NoReply, ReplyFields, Answer
  <2>2. plan[c].kind # "write" /\ call[c].at = "pinned"
    BY <1>7 DEF Is
  <2> HIDE DEF r
  <2> QED
    BY <1>1, <1>7, <2>1, <2>2
<1>8. CASE LookupHit(c)
  BY <1>7, <1>8 DEF LookupHit
<1>9. CASE LookupMiss(c)
  <2> DEFINE v == ReadSchemaDefinition(plan[c].tenant, plan[c].type, call[c].version)
             r == Refusal(v.err)
  <2>1. /\ Is(c, "lookup", "pinned")
        /\ clock' = clock /\ plan' = plan /\ engine' = engine /\ rows' = rows
    BY <1>9 DEF LookupMiss
  <2>2. CASE v.err # ""
    <3>1. Reply(c, r)
      BY <1>9, <2>2 DEF LookupMiss
    <3>2. r = [x \in ReplyFields |-> r[x]]
      BY ReplyShapes
    <3>3. plan[c].kind # "write" /\ call[c].at = "pinned"
      BY <2>1 DEF Is
    <3> HIDE DEF r
    <3> QED
      BY <1>1, <2>1, <3>1, <3>2, <3>3
  <2>3. CASE v.err = ""
    <3>1. Answer(c, v.schema[plan[c].type])
      BY <1>9, <2>3 DEF LookupMiss
    <3> QED
      BY <1>7, <2>1, <3>1
  <2> QED
    BY <2>2, <2>3
<1>10. CASE ReadFails(c)
  <2>1. /\ plan[c].kind # "write"
        /\ clock' = clock /\ plan' = plan /\ engine' = engine /\ rows' = rows
    BY <1>10 DEF ReadFails
  <2>2. \/ Reply(c, Refusal("ERROR_CODE_EXECUTION")) \/ Reply(c, Refusal("ERROR_CODE_CANCELLED"))
    BY <1>10 DEF ReadFails
  <2>3. PICK err \in {"ERROR_CODE_EXECUTION", "ERROR_CODE_CANCELLED"} : Reply(c, Refusal(err))
    BY <2>2
  <2> DEFINE r == Refusal(err)
  <2>4. r = [x \in ReplyFields |-> r[x]] /\ r.err # ""
    BY DEF Refusal, NoReply, ReplyFields
  <2> HIDE DEF r
  <2> QED
    BY <1>1, <2>1, <2>3, <2>4 DEF r
<1> QED
  BY <1>2, <1>3, <1>4, <1>5, <1>6, <1>8, <1>9, <1>10 DEF Step

LEMMA QuietStore ==
    ASSUME StoreInv, UNCHANGED <<engine, plan, clock, rows, call>>
    PROVE  StoreInv' /\ Steady
<1>1. Shapes' /\ Steady
  BY DEF StoreInv, Shapes, Steady
<1>2. \A c \in Callers : /\ Writer(c)' = Writer(c) /\ Serialized(c)' = Serialized(c)
                         /\ Visible(c)' = Visible(c) /\ Succeeded(c)' = Succeeded(c)
                         /\ WriterOK(c)' = WriterOK(c)
  BY DEF Writer, Serialized, Row, Visible, Succeeded, WriterOK, Accepts
<1>3. \A t, v : Seen(t, v)' = Seen(t, v) /\ RowsOf(t, v)' = RowsOf(t, v)
  BY <1>2 DEF Seen, IsVersion, RowsOf
<1>4. Writers' /\ Stored'
  BY <1>2 DEF StoreInv, Writers, Stored
<1>5. Readers' /\ HeadOrdered'
  BY <1>2, <1>3 DEF StoreInv, Readers, ReaderOK, HeadOrdered
<1> QED
  BY <1>1, <1>4, <1>5 DEF StoreInv

LEMMA NextStore ==
    ASSUME StoreInv, [Next]_vars
    PROVE  StoreInv' /\ Steady
<1>1. CASE Evict
  BY <1>1, QuietStore DEF Evict
<1>2. CASE UNCHANGED vars
  BY <1>2, QuietStore DEF vars
<1>3. CASE \E c \in Callers : Step(c)
  BY <1>3, StepStore
<1> QED
  BY <1>1, <1>2, <1>3 DEF Next

LEMMA InitStore == Init => StoreInv
<1>1. SUFFICES ASSUME Init
               PROVE  StoreInv
  OBVIOUS
<1>2. \A c \in Callers : call[c] = NewCall
  BY <1>1 DEF Init
<1>3. /\ NewCall = [x \in CallFields |-> NewCall[x]]
      /\ NewCall.reply = [x \in ReplyFields |-> NewCall.reply[x]]
      /\ NewCall.at = "new" /\ NewCall.version = 0 /\ NewCall.since = 0
  BY DEF NewCall, NoReply, CallFields, ReplyFields
<1>4. Shapes
  BY <1>1, <1>2, <1>3 DEF Init, Shapes
<1>5. \A c \in Callers : ~Writer(c) /\ ~Succeeded(c)
  BY <1>2, <1>3 DEF Writer, Succeeded
<1>6. Writers /\ Stored /\ Readers
  BY <1>1, <1>2, <1>3, <1>5 DEF Writers, WriterOK, Stored, Readers, ReaderOK, Init
<1>7. HeadOrdered
  BY <1>2, <1>3 DEF HeadOrdered
<1> QED
  BY <1>4, <1>6, <1>7 DEF StoreInv

\* The accounts of versions, rows and readers always balance.
THEOREM StoreInvariance == Spec => []StoreInv
<1>1. Init => StoreInv
  BY InitStore
<1>2. StoreInv /\ [Next]_vars => StoreInv'
  BY NextStore
<1> QED
  BY <1>1, <1>2, PTL DEF Spec

\* On PostgreSQL a call without a version sees a schema at least as new as
\* every one acknowledged before it began, for any number of concurrent calls:
\* versions are handed out in order and HeadVersion takes the greatest one.
\* (HeadFresh itself is false of the memory repository.)
THEOREM PostgresHeadFreshHolds == Spec => []PostgresHeadFresh
<1>1. ASSUME StoreInv, engine = "postgres"
      PROVE  HeadFresh
  BY <1>1 DEF StoreInv, HeadOrdered, HeadFresh
<1>2. StoreInv => PostgresHeadFresh
  BY <1>1 DEF PostgresHeadFresh
<1> QED
  BY <1>2, StoreInvariance, PTL

-----------------------------------------------------------------------------
(* Reading back *)

\* The rows of a visible write: one for each entity.
LEMMA RowOfEntity ==
    ASSUME StoreInv, NEW d \in Callers, Writer(d)
    PROVE  \A r \in Serialized(d) : \E e \in Entities(plan[d].text) :
              /\ r = Row(plan[d].tenant, e.name, call[d].version, DefinitionOf(e))
              /\ r.type = e.name /\ r.definition = DefinitionOf(e)
<1>1. Serialized(d) = {Row(plan[d].tenant, e.name, call[d].version, DefinitionOf(e)) :
                          e \in Entities(plan[d].text)}
  BY SerializedRows DEF StoreInv
<1> QED
  BY <1>1 DEF Row

LEMMA PromisedRead ==
    ASSUME StoreInv, RoundTrip, NEW d \in Callers, Writer(d)
    PROVE  /\ \A o \in SetToSeqs(Entities(plan[d].text)) :
                 FromDefinitions(TRUE, [i \in DOMAIN o |-> DefinitionOf(o[i])])
                     = [err |-> "", schema |-> Written(d)]
           /\ \A e \in Entities(plan[d].text) :
                 /\ FromDefinitions(FALSE, <<DefinitionOf(e)>>).err = ""
                 /\ FromDefinitions(FALSE, <<DefinitionOf(e)>>).schema[e.name] = Written(d)[e.name]
<1>1. Accepts(plan[d].text) /\ Written(d) = SchemaOf(ParseText(plan[d].text).exp)
  BY WriterText DEF StoreInv, Written
<1>2. plan \in Plans /\ plan[d].kind = "write"
  BY DEF StoreInv, Shapes, Writer
<1> QED
  BY <1>1, <1>2 DEF RoundTrip

LEMMA ReadDefinition ==
    ASSUME StoreInv, RoundTrip, NEW d \in Callers, Writer(d), Visible(d), NEW type
    PROVE  LET v == ReadSchemaDefinition(plan[d].tenant, type, call[d].version)
           IN /\ type \in DOMAIN Written(d) => v.err = "" /\ v.schema[type] = Written(d)[type]
              /\ type \notin DOMAIN Written(d) => v.err # ""
<1> DEFINE found == {r \in RowsOf(plan[d].tenant, call[d].version) : r.type = type}
           first == CHOOSE r \in found : TRUE
<1>1. found = {r \in Serialized(d) : r.type = type}
  BY VisibleRows DEF StoreInv
<1>2. DOMAIN Written(d) = {e.name : e \in Entities(plan[d].text)}
  BY WriterText DEF StoreInv
<1>3. CASE type \in DOMAIN Written(d)
  <2>1. PICK e \in Entities(plan[d].text) : e.name = type
    BY <1>2, <1>3
  <2>2. Row(plan[d].tenant, e.name, call[d].version, DefinitionOf(e)) \in found
    <3>1. Row(plan[d].tenant, e.name, call[d].version, DefinitionOf(e)) \in Serialized(d)
      BY SerializedRows DEF StoreInv
    <3> QED
      BY <1>1, <2>1, <3>1 DEF Row
  <2>3. first \in found
    BY <2>2
  <2>4. PICK f \in Entities(plan[d].text) : first.type = f.name /\ first.definition = DefinitionOf(f)
    BY <1>1, <2>3, RowOfEntity
  <2>5. f.name = type
    BY <2>3, <2>4
  <2>6. ReadSchemaDefinition(plan[d].tenant, type, call[d].version)
           = FromDefinitions(FALSE, <<DefinitionOf(f)>>)
    BY <2>3, <2>4 DEF ReadSchemaDefinition
  <2> QED
    BY <1>3, <2>5, <2>6, PromisedRead
<1>4. CASE type \notin DOMAIN Written(d)
  <2>1. found = {}
    BY <1>1, <1>2, <1>4, RowOfEntity
  <2>2. ReadSchemaDefinition(plan[d].tenant, type, call[d].version) = NotFound
    BY <2>1 DEF ReadSchemaDefinition
  <2>3. NotFound.err # ""
    BY DEF NotFound
  <2> QED
    BY <1>4, <2>2, <2>3
<1> QED
  BY <1>3, <1>4

\* The rows are as many as the entities, finitely many, of different types.
LEMMA RowsAndEntities ==
    ASSUME StoreInv, NEW d \in Callers, Writer(d)
    PROVE  /\ IsFiniteSet(Serialized(d)) /\ Ranked(Serialized(d)) /\ Distinct(Serialized(d))
           /\ Cardinality(Serialized(d)) = Cardinality(Entities(plan[d].text))
<1> DEFINE E == Entities(plan[d].text)
           exp == ParseText(plan[d].text).exp
           f == [e \in E |-> Row(plan[d].tenant, e.name, call[d].version, DefinitionOf(e))]
<1>1. /\ exp \in Seq(E) /\ \A e, g \in E : e.name = g.name => e = g
      /\ \A e \in E : e.name \in DOMAIN Rank
  BY WriterText DEF StoreInv
<1>2. E = {exp[i] : i \in DOMAIN exp}
  BY DEF Entities, Range
<1>3. IsFiniteSet(E)
  <2> HIDE DEF E, exp
  <2>1. DOMAIN exp = 1..Len(exp) /\ Len(exp) \in Nat /\ exp \in [1..Len(exp) -> E]
    BY <1>1
  <2>2. exp \in Surjection(1..Len(exp), E)
    BY <1>2, <2>1 DEF Surjection
  <2>3. IsFiniteSet(1..Len(exp))
    BY <2>1, FS_Interval
  <2> QED
    BY <2>2, <2>3, FS_Surjection
<1>4. Serialized(d) = {Row(plan[d].tenant, e.name, call[d].version, DefinitionOf(e)) : e \in E}
  BY SerializedRows DEF StoreInv
<1>5. f \in Bijection(E, Serialized(d))
  <2>1. f \in [E -> Serialized(d)]
    BY <1>4
  <2>2. \A e, g \in E : f[e] = f[g] => e = g
    BY <1>1 DEF Row
  <2>3. \A r \in Serialized(d) : \E e \in E : f[e] = r
    BY <1>4
  <2> HIDE DEF f, E
  <2> QED
    BY <2>1, <2>2, <2>3 DEF Bijection, Injection, Surjection, IsInjective
<1>6. IsFiniteSet(Serialized(d)) /\ Cardinality(Serialized(d)) = Cardinality(E)
  BY <1>3, <1>5, FS_Bijection DEF ExistsBijection
<1>7. Ranked(Serialized(d))
  BY SerializedRows DEF StoreInv, Ranked
<1>8. Distinct(Serialized(d))
  <2>1. SUFFICES ASSUME NEW r \in Serialized(d), NEW s \in Serialized(d), r.type = s.type
                 PROVE  r = s
    BY DEF Distinct
  <2>2. PICK e \in E : /\ r = Row(plan[d].tenant, e.name, call[d].version, DefinitionOf(e))
                       /\ r.type = e.name
    BY RowOfEntity
  <2>3. PICK g \in E : /\ s = Row(plan[d].tenant, g.name, call[d].version, DefinitionOf(g))
                       /\ s.type = g.name
    BY RowOfEntity
  <2>4. e = g
    BY <1>1, <2>1, <2>2, <2>3
  <2> QED
    BY <2>2, <2>3, <2>4
<1> QED
  BY <1>6, <1>7, <1>8

\* In whatever order the rows of a visible write come, they are its schema.
LEMMA ReadWhole ==
    ASSUME StoreInv, RoundTrip, NEW d \in Callers, Writer(d), Visible(d)
    PROVE  ReadRows(plan[d].tenant, call[d].version) = {[err |-> "", schema |-> Written(d)]}
<1> DEFINE E == Entities(plan[d].text)
           S == Serialized(d)
           n == Cardinality(S)
           orders == Orders(S)
           Texts(o) == [i \in DOMAIN o |-> o[i].definition]
<1>1. ReadRows(plan[d].tenant, call[d].version) = {FromDefinitions(TRUE, Texts(o)) : o \in orders}
  BY VisibleRows DEF StoreInv, ReadRows, ReadSchema
<1>2. n = Cardinality(E)
  BY RowsAndEntities
<1>3. ASSUME NEW o \in orders
      PROVE  FromDefinitions(TRUE, Texts(o)) = [err |-> "", schema |-> Written(d)]
  <2>1. o \in [1..n -> S] /\ \A i, j \in 1..n : i # j => o[i] # o[j]
    BY DEF Orders, SetToSeqs
  <2>2. \A i \in 1..n : \E e \in E :
           /\ o[i] = Row(plan[d].tenant, e.name, call[d].version, DefinitionOf(e))
           /\ o[i].definition = DefinitionOf(e)
    BY <2>1, RowOfEntity
  <2> DEFINE p == [i \in 1..n |-> CHOOSE e \in E :
                      /\ o[i] = Row(plan[d].tenant, e.name, call[d].version, DefinitionOf(e))
                      /\ o[i].definition = DefinitionOf(e)]
  <2> HIDE DEF E, S, n
  <2>3. \A i \in 1..n : /\ p[i] \in E
                        /\ o[i] = Row(plan[d].tenant, p[i].name, call[d].version, DefinitionOf(p[i]))
                        /\ o[i].definition = DefinitionOf(p[i])
    BY <2>2
  <2>4. DOMAIN p = 1..n /\ p = [i \in 1..n |-> p[i]]
    OBVIOUS
  <2> HIDE DEF p
  <2>5. \A i, j \in 1..n : i # j => p[i] # p[j]
    BY <2>1, <2>3
  <2>6. p \in [1..n -> E]
    BY <2>3, <2>4
  <2>7. p \in SetToSeqs(E)
    BY <1>2, <2>5, <2>6 DEF SetToSeqs
  <2>8. Texts(o) = [i \in DOMAIN p |-> DefinitionOf(p[i])]
    BY <2>1, <2>3, <2>4
  <2>9. FromDefinitions(TRUE, [i \in DOMAIN p |-> DefinitionOf(p[i])]) = [err |-> "", schema |-> Written(d)]
    BY <2>7, PromisedRead DEF E
  <2> QED
    BY <2>8, <2>9
<1>4. \E o \in orders : TRUE
  <2>1. PICK o \in SetToSeqs(S) : Ascending(o)
    BY RowsAndEntities, OrderExists
  <2>2. o \in orders
    BY <2>1 DEF Orders, Ascending
  <2> QED
    BY <2>2
<1> HIDE DEF orders, Texts
<1> QED
  BY <1>1, <1>3, <1>4

\* If the language keeps its promise, whoever sees a version reads back the
\* schema that was accepted, whole and in any order of rows: ReadSchema and
\* ReadSchemaDefinition of both repositories, while other schemas are written,
\* fail half-way or lose their answer.
THEOREM ReadableHolds ==
    ASSUME RoundTrip
    PROVE  Spec => []Readable
<1>1. ASSUME StoreInv
      PROVE  Readable
  <2>1. SUFFICES ASSUME NEW c \in Callers, plan[c].kind = "write",
                        RowsOf(plan[c].tenant, call[c].version) # {}
                 PROVE  /\ ReadRows(plan[c].tenant, call[c].version)
                              = {[err |-> "", schema |-> Written(c)]}
                        /\ \A type \in DOMAIN Written(c) :
                              ReadSchemaDefinition(plan[c].tenant, type, call[c].version).schema[type]
                                  = Written(c)[type]
    BY DEF Readable
  <2>2. PICK r \in rows : r.version = call[c].version
    BY <2>1 DEF RowsOf
  <2>3. Writer(c)
    <3>1. r.version # 0
      BY <2>2, <1>1, RowWriter DEF StoreInv
    <3> QED
      BY <3>1, <2>1, <2>2 DEF Writer
  <2>4. Visible(c)
    BY <1>1, <2>1, <2>3, VisibleRows DEF StoreInv
  <2> QED
    BY <1>1, <2>3, <2>4, ReadWhole, ReadDefinition
<1> QED
  BY <1>1, StoreInvariance, PTL

-----------------------------------------------------------------------------
(* Lookups through the cache *)

\* The one write that has a version.
LEMMA OneWriter ==
    ASSUME StoreInv, NEW c \in Callers, NEW d \in Callers, Writer(c), plan[d].kind = "write",
           call[d].version = call[c].version
    PROVE  d = c
  BY DEF StoreInv, Writers, Writer

LEMMA PinnedVersion ==
    ASSUME StoreInv, NEW c \in Callers, Is(c, "lookup", "pinned")
    PROVE  \E d \in Callers : Writer(d) /\ Visible(d) /\ plan[d].tenant = plan[c].tenant
                              /\ call[d].version = call[c].version
  BY DEF StoreInv, Readers, ReaderOK, Seen, IsVersion, Is

\* Entries that are there stay right.
LEMMA EntryStays ==
    ASSUME Steady, NEW e, Entry(e)
    PROVE  Entry(e)'
<1>0. PICK d \in Callers : EntryOf(e, d)
  BY DEF Entry
<1>1. PICK type \in DOMAIN Written(d) :
             /\ Writer(d)
             /\ e.key = CacheKey(plan[d].tenant, type, call[d].version)
             /\ e.definition = Written(d)[type]
  BY <1>0 DEF EntryOf
<1>2. /\ Writer(d)' /\ Written(d)' = Written(d)
      /\ plan' = plan /\ call'[d].version = call[d].version
  BY <1>1, SteadyWriters DEF Steady
<1> QED
  BY <1>1, <1>2 DEF Entry, EntryOf, CacheKey

\* A definition with which a lookup may be answered is that of its version.
Right(c, definition) ==
    \A d \in Callers : Writer(d) /\ call[d].version = call[c].version
                          => definition = Written(d)[plan[c].type]

LEMMA HitRight ==
    ASSUME StoreInv, Kept, NEW c \in Callers, NEW e \in Cached(c)
    PROVE  Right(c, e.definition)
<1>1. e \in cache /\ e.key = CacheKey(plan[c].tenant, plan[c].type, call[c].version)
  BY DEF Cached, KeyOf
<1>0. PICK w \in Callers : EntryOf(e, w)
  BY <1>1 DEF Kept, Entry
<1>2. PICK type \in DOMAIN Written(w) :
             /\ Writer(w)
             /\ e.key = CacheKey(plan[w].tenant, type, call[w].version)
             /\ e.definition = Written(w)[type]
  BY <1>0 DEF EntryOf
<1>3. type = plan[c].type /\ call[w].version = call[c].version
  BY <1>1, <1>2 DEF CacheKey
<1>4. ASSUME NEW d \in Callers, Writer(d), call[d].version = call[c].version
      PROVE  d = w
  BY <1>2, <1>3, <1>4, OneWriter DEF Writer
<1> QED
  BY <1>2, <1>3, <1>4 DEF Right

LEMMA MissRight ==
    ASSUME StoreInv, RoundTrip, NEW c \in Callers, Is(c, "lookup", "pinned"),
           ReadSchemaDefinition(plan[c].tenant, plan[c].type, call[c].version).err = ""
    PROVE  LET definition == ReadSchemaDefinition(plan[c].tenant, plan[c].type,
                                                  call[c].version).schema[plan[c].type]
           IN /\ Right(c, definition)
              /\ \A e : e.key = KeyOf(c) /\ e.definition = definition => Entry(e)
<1> DEFINE definition == ReadSchemaDefinition(plan[c].tenant, plan[c].type,
                                              call[c].version).schema[plan[c].type]
<1>1. PICK w \in Callers : Writer(w) /\ Visible(w) /\ plan[w].tenant = plan[c].tenant
                           /\ call[w].version = call[c].version
  BY PinnedVersion
<1>2. plan[c].type \in DOMAIN Written(w) /\ definition = Written(w)[plan[c].type]
  <2> DEFINE v == ReadSchemaDefinition(plan[w].tenant, plan[c].type, call[w].version)
             type == plan[c].type
  <2>1. /\ type \in DOMAIN Written(w) => v.err = "" /\ v.schema[type] = Written(w)[type]
        /\ type \notin DOMAIN Written(w) => v.err # ""
    <3>1. ASSUME NEW x
          PROVE  LET u == ReadSchemaDefinition(plan[w].tenant, x, call[w].version)
                 IN /\ x \in DOMAIN Written(w) => u.err = "" /\ u.schema[x] = Written(w)[x]
                    /\ x \notin DOMAIN Written(w) => u.err # ""
      BY <1>1, ReadDefinition
    <3> QED
      BY <3>1
  <2>2. v.err = "" /\ definition = v.schema[type]
    BY <1>1
  <2> HIDE DEF v, definition, type
  <2>3. type \in DOMAIN Written(w) /\ definition = Written(w)[type]
    BY <2>1, <2>2
  <2> QED
    BY <2>3 DEF type
<1> HIDE DEF definition
<1>3. \A d \in Callers : Writer(d) /\ call[d].version = call[c].version => d = w
  BY <1>1, OneWriter DEF Writer
<1>4. Right(c, definition)
  BY <1>2, <1>3 DEF Right
<1>5. \A e : e.key = KeyOf(c) /\ e.definition = definition => Entry(e)
  BY <1>1, <1>2 DEF Entry, EntryOf, KeyOf
<1> QED
  BY <1>4, <1>5 DEF definition

\* A lookup that succeeds in a step is answered with such a definition, and
\* what a step adds to the cache is an entry of a version.
LEMMA StepLookups ==
    ASSUME StoreInv, Kept, RoundTrip, NEW c \in Callers, Step(c)
    PROVE  /\ \A e \in cache' : Entry(e)
           /\ \A d \in Callers : d # c => call'[d] = call[d]
           /\ plan[c].kind = "lookup" /\ Succeeded(c)' =>
                 /\ call'[c].version = call[c].version
                 /\ \E definition : /\ Right(c, definition) /\ call[c].version # 0
                                    /\ call'[c].reply.actions = ActionsFor(definition, plan[c].names)
<1> DEFINE Goal == plan[c].kind = "lookup" /\ Succeeded(c)' =>
                      /\ call'[c].version = call[c].version
                      /\ \E definition :
                            /\ Right(c, definition) /\ call[c].version # 0
                            /\ call'[c].reply.actions = ActionsFor(definition, plan[c].names)
<1>0. Shapes /\ \A e \in cache : Entry(e)
  BY DEF StoreInv, Kept
<1>1. ASSUME NEW r, r = [x \in ReplyFields |-> r[x]], r.err # "", Reply(c, r), plan' = plan,
             engine' = engine
      PROVE  Goal /\ \A d \in Callers : d # c => call'[d] = call[d]
  <2>1. Answered(c) /\ call'[c].reply = r
    BY <1>0, <1>1, ReplyAnswers
  <2> QED
    BY <1>1, <2>1 DEF Answered, Frame, Succeeded
<1>2. ASSUME NEW definition, Is(c, "lookup", "pinned"), Right(c, definition),
             Answer(c, definition), plan' = plan, engine' = engine
      PROVE  Goal /\ \A d \in Callers : d # c => call'[d] = call[d]
  <2> DEFINE r == [NoReply EXCEPT !.actions = ActionsFor(definition, plan[c].names)]
  <2>1. /\ r = [x \in ReplyFields |-> r[x]] /\ Reply(c, r)
        /\ r.actions = ActionsFor(definition, plan[c].names)
    BY <1>2 DEF NoReply, ReplyFields, Answer
  <2> HIDE DEF r
  <2>2. Answered(c) /\ call'[c].reply = r
    BY <1>0, <1>2, <2>1, ReplyAnswers
  <2>3. call[c].version # 0
    BY <1>2, PinnedVersion DEF Writer
  <2> QED
    BY <1>2, <2>1, <2>2, <2>3 DEF Answered, Frame
<1>3. CASE WriteSchema(c) \/ Insert(c) \/ InsertFails(c)
  <2>1. plan[c].kind # "lookup" /\ cache' = cache /\ \A d \in Callers : d # c => call'[d] = call[d]
    BY <1>0, <1>3 DEF WriteSchema, Insert, InsertFails, Is, Reply, Shapes
  <2> QED
    BY <1>0, <2>1
<1>4. CASE PinVersion(c)
  <2> DEFINE r == Refusal("ERROR_CODE_SCHEMA_NOT_FOUND")
  <2>0. cache' = cache /\ plan' = plan /\ engine' = engine /\ call[c].at = "new"
    BY <1>4 DEF PinVersion
  <2>1. CASE HeadVersion(plan[c].tenant) = 0
    <3>1. Reply(c, r)
      BY <1>4, <2>1 DEF PinVersion
    <3>2. r = [x \in ReplyFields |-> r[x]] /\ r.err # ""
      BY DEF Refusal, NoReply, ReplyFields
    <3> HIDE DEF r, Goal
    <3> QED
      BY <1>0, <1>1, <2>0, <3>1, <3>2 DEF Goal
  <2>2. CASE HeadVersion(plan[c].tenant) # 0
    <3>1. call' = [call EXCEPT ![c].at = "pinned", ![c].version = HeadVersion(plan[c].tenant),
                       ![c].since = Greatest(Acknowledged(plan[c].tenant) \cup {0})]
      BY <1>4, <2>2 DEF PinVersion
    <3>2. call'[c].at = "pinned" /\ \A d \in Callers : d # c => call'[d] = call[d]
      BY <1>0, <3>1 DEF Shapes, CallFields
    <3> QED
      BY <1>0, <2>0, <3>2 DEF Succeeded
  <2> QED
    BY <2>1, <2>2
<1>5. CASE Read(c)
  <2>1. plan[c].kind # "lookup" /\ cache' = cache /\ \A d \in Callers : d # c => call'[d] = call[d]
    BY <1>0, <1>5 DEF Read, Is, Reply, Shapes
  <2> QED
    BY <1>0, <2>1
<1>6. CASE LookupHit(c)
  <2>1. PICK e \in Cached(c) : Answer(c, e.definition)
    BY <1>6 DEF LookupHit
  <2>2. Is(c, "lookup", "pinned") /\ cache' = cache /\ plan' = plan /\ engine' = engine
    BY <1>6 DEF LookupHit
  <2>3. Right(c, e.definition)
    BY HitRight
  <2> HIDE DEF Goal
  <2> QED
    BY <1>0, <1>2, <2>1, <2>2, <2>3 DEF Goal
<1>7. CASE LookupMiss(c)
  <2> DEFINE v == ReadSchemaDefinition(plan[c].tenant, plan[c].type, call[c].version)
             r == Refusal(v.err)
             definition == v.schema[plan[c].type]
  <2>0. Is(c, "lookup", "pinned") /\ plan' = plan /\ engine' = engine
    BY <1>7 DEF LookupMiss
  <2>1. CASE v.err # ""
    <3>1. Reply(c, r) /\ cache' = cache
      BY <1>7, <2>1 DEF LookupMiss
    <3>2. r = [x \in ReplyFields |-> r[x]] /\ r.err # ""
      BY <2>1, ReplyShapes
    <3> HIDE DEF r, Goal
    <3> QED
      BY <1>0, <1>1, <2>0, <3>1, <3>2 DEF Goal
  <2>2. CASE v.err = ""
    <3>1. /\ Answer(c, definition)
          /\ cache' = cache \cup {[key |-> KeyOf(c), definition |-> definition]}
      BY <1>7, <2>2 DEF LookupMiss
    <3>2. /\ Right(c, definition)
          /\ \A e : e.key = KeyOf(c) /\ e.definition = definition => Entry(e)
      BY <2>0, <2>2, MissRight
    <3> HIDE DEF definition, Goal
    <3>3. \A e \in cache' : Entry(e)
      BY <1>0, <3>1, <3>2
    <3> QED
      BY <1>2, <2>0, <3>1, <3>2, <3>3 DEF Goal
  <2> QED
    BY <2>1, <2>2
<1>8. CASE ReadFails(c)
  <2>1. cache' = cache /\ plan' = plan /\ engine' = engine
    BY <1>8 DEF ReadFails
  <2>2. \/ Reply(c, Refusal("ERROR_CODE_EXECUTION")) \/ Reply(c, Refusal("ERROR_CODE_CANCELLED"))
    BY <1>8 DEF ReadFails
  <2>3. PICK err \in {"ERROR_CODE_EXECUTION", "ERROR_CODE_CANCELLED"} : Reply(c, Refusal(err))
    BY <2>2
  <2> DEFINE r == Refusal(err)
  <2>4. r = [x \in ReplyFields |-> r[x]] /\ r.err # ""
    BY DEF Refusal, NoReply, ReplyFields
  <2> HIDE DEF r, Goal
  <2> QED
    BY <1>0, <1>1, <2>1, <2>3, <2>4 DEF r, Goal
<1> QED
  BY <1>3, <1>4, <1>5, <1>6, <1>7, <1>8 DEF Step

LEMMA NextLookups ==
    ASSUME StoreInv, Kept, LookupSound, RoundTrip, [Next]_vars
    PROVE  Kept' /\ LookupSound'
<1>0. Steady /\ plan' = plan
  BY NextStore DEF Steady
<1>1. ASSUME \A e \in cache' : Entry(e)
      PROVE  Kept'
  BY <1>0, <1>1, EntryStays DEF Kept
<1>2. ASSUME NEW c \in Callers, NEW d \in Callers, call'[c] = call[c],
             plan[c].kind = "lookup", Succeeded(c), plan[d].kind = "write",
             call'[d].version = call[c].version
      PROVE  call[c].reply.actions = ActionsFor(Written(d)'[plan[c].type], plan[c].names)
  <2>1. /\ call[c].version # 0 /\ call[c].version \in Nat /\ call[c].version <= clock
        /\ clock \in Nat
    BY <1>2 DEF StoreInv, Readers, ReaderOK, Seen, IsVersion, Writer, Shapes
  <2>2. call'[d].version # clock + 1
    BY <1>2, <2>1, NextIsNew
  <2>3. call'[d].version = call[d].version
    BY <1>2, <1>0, <2>2 DEF Steady
  <2>4. Writer(d) /\ call[d].version = call[c].version
    BY <1>2, <2>1, <2>3 DEF Writer
  <2>5. Written(d)' = Written(d)
    BY <1>0, <2>4, SteadyWriters
  <2> QED
    BY <1>2, <2>4, <2>5 DEF LookupSound, Succeeded, Writer
<1>3. CASE cache' \subseteq cache /\ call' = call
  <2>1. Kept'
    BY <1>1, <1>3 DEF Kept
  <2>2. LookupSound'
    BY <1>0, <1>2, <1>3 DEF LookupSound, Succeeded
  <2> QED
    BY <2>1, <2>2
<1>4. CASE \E c \in Callers : Step(c)
  <2>1. PICK c \in Callers : Step(c)
    BY <1>4
  <2>2. Kept'
    BY <1>1, <2>1, StepLookups
  <2>3. SUFFICES ASSUME NEW b \in Callers, NEW d \in Callers,
                        plan[b].kind = "lookup", Succeeded(b)', plan[d].kind = "write",
                        call'[d].version = call'[b].version
                 PROVE  call'[b].reply.actions = ActionsFor(Written(d)'[plan[b].type], plan[b].names)
    BY <1>0, <2>2 DEF LookupSound, Succeeded
  <2>4. CASE b # c
    <3>1. call'[b] = call[b]
      BY <2>1, <2>4, StepLookups
    <3> QED
      BY <3>1, <2>3, <1>2 DEF Succeeded
  <2>5. CASE b = c
    <3>1. PICK definition : /\ Right(c, definition) /\ call[c].version # 0
                            /\ call'[c].version = call[c].version
                            /\ call'[c].reply.actions = ActionsFor(definition, plan[c].names)
      BY <2>1, <2>3, <2>5, StepLookups
    <3>2. d # c
      BY <2>3, <2>5
    <3>3. call'[d] = call[d]
      BY <2>1, <3>2, StepLookups
    <3>4. Writer(d) /\ call[d].version = call[c].version
      BY <2>3, <2>5, <3>1, <3>3 DEF Writer
    <3>5. Written(d)' = Written(d) /\ definition = Written(d)[plan[c].type]
      BY <1>0, <3>1, <3>4, SteadyWriters DEF Right
    <3> QED
      BY <2>5, <3>1, <3>5
  <2> QED
    BY <2>4, <2>5
<1>5. Evict \/ UNCHANGED vars => cache' \subseteq cache /\ call' = call
  BY DEF Evict, vars
<1> QED
  BY <1>3, <1>4, <1>5 DEF Next

\* If the language keeps its promise, a lookup answers for the schema of its
\* version, whatever the cache decorator held: no entry is ever that of
\* another version, tenant or type, although nothing invalidates entries.
THEOREM LookupSoundHolds ==
    ASSUME RoundTrip
    PROVE  Spec => []LookupSound
<1>1. Init => IInv
  <2>1. ASSUME Init
        PROVE  Kept /\ LookupSound
    <3>1. \A c \in Callers : call[c].at = "new"
      BY <2>1 DEF Init, NewCall
    <3> QED
      BY <2>1, <3>1 DEF Init, Kept, LookupSound
  <2> QED
    BY <2>1, InitStore DEF IInv
<1>2. IInv /\ [Next]_vars => IInv'
  BY NextStore, NextLookups DEF IInv
<1>3. IInv => LookupSound
  BY DEF IInv
<1> QED
  BY <1>1, <1>2, <1>3, PTL DEF Spec
=============================================================================
