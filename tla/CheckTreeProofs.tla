-------------------------- MODULE CheckTreeProofs --------------------------
(***************************************************************************)
(* Proofs about the goroutines of Check, for every schema, every set of    *)
(* tuples, every number of requests and every concurrency limit: they form *)
(* trees that lose only leaves, an error that reaches a client has a       *)
(* cause, no group waits for ever, and nesting and channels are bounded.   *)
(***************************************************************************)
EXTENDS Check, SequenceTheorems, FiniteSetTheorems, NaturalsInduction, TLAPS

\* What clients ask are closures over Execute, of some depth.
LEMMA AsksFunctions ==
    ASSUME NEW asks \in Asks, NEW r \in Request
    PROVE  asks[r] \in Function /\ asks[r].fn = "execute" /\ asks[r].depth \in Nat
<1>1. asks \in [Request -> {t \in Function : t.fn = "execute"}]
  BY ConstantsAssumption
<1>2. asks[r] \in Function /\ asks[r].fn = "execute"
  BY <1>1
<1> QED
  BY <1>2 DEF Function

(***************************************************************************)
(* Paths.                                                                  *)
(***************************************************************************)

\* The goroutine a spawner starts is named by the path of its group and its function.
LEMMA ChildPath ==
    ASSUME NEW S, NEW p \in Seq(S), Len(p) > 1, NEW t \in S
    PROVE  /\ Append(p, t) \in Seq(S)
           /\ Len(Append(p, t)) = Len(p) + 1
           /\ Term(Append(p, t)) = t
           /\ Parent(Append(p, t)) = p
           /\ Append(p, t)[1] = p[1]
           /\ Append(p, t) # p
           /\ \A n \in 1 .. Len(p) : SubSeq(Append(p, t), 1, n) = SubSeq(p, 1, n)
<1>1. /\ Append(p, t) \in Seq(S)
      /\ Len(Append(p, t)) = Len(p) + 1
      /\ Append(p, t)[Len(p) + 1] = t
      /\ \A i \in 1 .. Len(p) : Append(p, t)[i] = p[i]
  BY AppendProperties
<1>2. ASSUME NEW n \in 1 .. Len(p)
      PROVE  SubSeq(Append(p, t), 1, n) = SubSeq(p, 1, n)
  BY <1>1, SubSeqProperties
<1>3. SubSeq(p, 1, Len(p)) = p
  BY SubSeqProperties
<1>4. Parent(Append(p, t)) = SubSeq(Append(p, t), 1, Len(p))
  BY <1>1 DEF Parent
<1>5. Parent(Append(p, t)) = p
  BY <1>2, <1>3, <1>4
<1>6. Term(Append(p, t)) = t /\ Append(p, t)[1] = p[1] /\ Append(p, t) # p
  BY <1>1 DEF Term
<1> QED
  BY <1>1, <1>2, <1>5, <1>6

\* Prefixes of prefixes.
LEMMA PrefixPath ==
    ASSUME NEW S, NEW p \in Seq(S), NEW n \in 1 .. Len(p), NEW m \in 1 .. n
    PROVE  /\ SubSeq(p, 1, n) \in Seq(S)
           /\ Len(SubSeq(p, 1, n)) = n
           /\ SubSeq(p, 1, n)[m] = p[m]
           /\ SubSeq(SubSeq(p, 1, n), 1, m) = SubSeq(p, 1, m)
           /\ SubSeq(p, 1, Len(p)) = p
  BY SubSeqProperties

(***************************************************************************)
(* The requests that a check may make, level by level.                     *)
(***************************************************************************)

\* Nested requests are requests.
LEMMA NestedKey ==
    ASSUME NEW k \in Key, NEW e \in Entity, NEW n \in Name
    PROVE  Nested(k, e, n) \in Key
  BY DEF Nested, Key

\* The keys checkDirect and checkTupleToUserSet go on with are keys.
LEMMA KeysOfTuples ==
    ASSUME NEW k \in Key
    PROVE  /\ UserSets(k) \subseteq Key
           /\ \A n \in Node : Computed(n, k) \subseteq Key
<1>1. ASSUME NEW r \in Name, NEW s \in QueryRelationships(k.world, k.entity, r)
      PROVE  s \in Subject
  BY ConstantsAssumption DEF QueryRelationships, Tuple, Key
<1>2. UserSets(k) \subseteq Key
  <2> SUFFICES ASSUME NEW s \in Subjects(k), s.entity \notin User, s.relation # ELLIPSIS
               PROVE  Nested(k, s.entity, s.relation) \in Key
    BY DEF UserSets
  <2>1. s \in Subject
    BY <1>1 DEF Subjects, Key
  <2>2. s.entity \in Entity /\ s.relation \in Name
    BY <2>1 DEF Subject, AnySubject
  <2> QED
    BY <2>2, NestedKey
<1>3. ASSUME NEW n \in Node
      PROVE  Computed(n, k) \subseteq Key
  <2>1. NodeDef[n].tupleSet \in Name /\ NodeDef[n].relation \in Name
    BY ConstantsAssumption
  <2> SUFFICES ASSUME NEW s \in QueryRelationships(k.world, k.entity, NodeDef[n].tupleSet)
               PROVE  Nested(k, s.entity, NodeDef[n].relation) \in Key
    BY DEF Computed
  <2>2. s.entity \in Entity
    BY <1>1, <2>1 DEF Subject, AnySubject
  <2> QED
    BY <2>1, <2>2, NestedKey
<1> QED
  BY <1>2, <1>3

\* Below holds the node itself and goes down.
LEMMA BelowClosed ==
    ASSUME NEW n \in Node
    PROVE  /\ Below[n] \subseteq Node
           /\ n \in Below[n]
           /\ \A m \in Below[n] : NodeDef[m].children \subseteq Below[n]
<1>1. Below[n] = {m \in Node : \A S \in SUBSET Node : n \in S /\ Closed(S) => m \in S}
  BY DEF Below
<1>2. ASSUME NEW m \in Below[n], NEW c \in NodeDef[m].children
      PROVE  c \in Below[n]
  <2>1. m \in Node /\ c \in Node
    BY <1>1, ConstantsAssumption
  <2> SUFFICES ASSUME NEW S \in SUBSET Node, n \in S, Closed(S)
               PROVE  c \in S
    BY <1>1, <2>1
  <2>2. m \in S
    BY <1>1
  <2> QED
    BY <2>2 DEF Closed
<1> QED
  BY <1>1, <1>2

\* The nested requests of a check are requests.
LEMMA NestedKeysAreKeys ==
    ASSUME NEW k \in Key
    PROVE  NestedKeys(k) \subseteq Key
<1>1. UserSets(k) \subseteq Key
  BY KeysOfTuples
<1>2. ASSUME NEW n \in Node
      PROVE  LeafKeys(n, k) \subseteq Key
  <2>1. NodeDef[n].relation \in Name
    BY ConstantsAssumption
  <2>2. Computed(n, k) \subseteq Key /\ Nested(k, k.entity, NodeDef[n].relation) \in Key
    BY <2>1, KeysOfTuples, NestedKey DEF Key
  <2> QED
    BY <2>2 DEF LeafKeys
<1>3. Root[k.entity][k.permission] \in Node
  BY ConstantsAssumption DEF Key
<1>4. \A n \in Below[Root[k.entity][k.permission]] : LeafKeys(n, k) \subseteq Key
  BY <1>2, <1>3, BelowClosed
<1> QED
  BY <1>1, <1>4 DEF NestedKeys

(***************************************************************************)
(* Level is defined by recursion.  The keys at the ends of the chains of   *)
(* nested requests solve its equation, so Level does.                      *)
(***************************************************************************)
Chains(k, d) ==
    {c \in [0 .. d -> Key] : c[0] = k /\ \A i \in 0 .. d - 1 : c[i + 1] \in NestedKeys(c[i])}

Ends(k, d) == {c[d] : c \in Chains(k, d)}

\* A chain of no nested requests ends where it begins.
LEMMA EndsZero == ASSUME NEW k \in Key PROVE Ends(k, 0) = {k}
<1> DEFINE c == [i \in 0 .. 0 |-> k]
<1>1. c \in Chains(k, 0) /\ c[0] = k
  BY DEF Chains
<1>2. \A x \in Chains(k, 0) : x[0] = k
  BY DEF Chains
<1> QED
  BY <1>1, <1>2 DEF Ends

\* A chain goes one request further than the chain before it.
LEMMA EndsNext ==
    ASSUME NEW k \in Key, NEW d \in Nat \ {0}
    PROVE  Ends(k, d) = UNION {NestedKeys(q) : q \in Ends(k, d - 1)}
<1>1. ASSUME NEW c \in Chains(k, d)
      PROVE  \E q \in Ends(k, d - 1) : c[d] \in NestedKeys(q)
  <2> DEFINE b == [i \in 0 .. d - 1 |-> c[i]]
  <2>1. /\ c \in [0 .. d -> Key] /\ c[0] = k
        /\ \A i \in 0 .. d - 1 : c[i + 1] \in NestedKeys(c[i])
    BY DEF Chains
  <2>2. \A i \in 0 .. d - 1 : i \in 0 .. d /\ b[i] = c[i]
    OBVIOUS
  <2>3. b \in [0 .. d - 1 -> Key]
    BY <2>1, <2>2
  <2>4. b[0] = k /\ b[d - 1] = c[d - 1]
    BY <2>1, <2>2
  <2>5. \A i \in 0 .. (d - 1) - 1 : b[i + 1] \in NestedKeys(b[i])
    <3> SUFFICES ASSUME NEW i \in 0 .. (d - 1) - 1 PROVE b[i + 1] \in NestedKeys(b[i])
      OBVIOUS
    <3>1. i \in 0 .. d - 1 /\ i + 1 \in 0 .. d - 1
      OBVIOUS
    <3> QED
      BY <2>1, <2>2, <3>1
  <2>6. b \in Chains(k, d - 1)
    <3> HIDE DEF b
    <3> QED
      BY <2>3, <2>4, <2>5 DEF Chains
  <2>7. b[d - 1] \in Ends(k, d - 1)
    BY <2>6 DEF Ends
  <2>8. d - 1 \in 0 .. d - 1 /\ (d - 1) + 1 = d
    OBVIOUS
  <2>9. c[d] \in NestedKeys(c[d - 1])
    BY <2>1, <2>8
  <2> QED
    BY <2>4, <2>7, <2>9
<1>2. ASSUME NEW b \in Chains(k, d - 1), NEW u \in NestedKeys(b[d - 1])
      PROVE  u \in Ends(k, d)
  <2> DEFINE c == [i \in 0 .. d |-> IF i = d THEN u ELSE b[i]]
  <2>1. /\ b \in [0 .. d - 1 -> Key] /\ b[0] = k
        /\ \A i \in 0 .. (d - 1) - 1 : b[i + 1] \in NestedKeys(b[i])
    BY DEF Chains
  <2>2. u \in Key
    <3>1. b[d - 1] \in Key
      BY <2>1
    <3> QED
      BY <3>1, NestedKeysAreKeys
  <2>3. /\ c[d] = u
        /\ \A i \in 0 .. d - 1 : c[i] = b[i] /\ b[i] \in Key
    BY <2>1
  <2>4. c \in [0 .. d -> Key]
    BY <2>1, <2>2
  <2>5. \A i \in 0 .. d - 1 : c[i + 1] \in NestedKeys(c[i])
    <3> SUFFICES ASSUME NEW i \in 0 .. d - 1 PROVE c[i + 1] \in NestedKeys(c[i])
      OBVIOUS
    <3>1. CASE i = d - 1
      <4>1. i + 1 = d
        BY <3>1
      <4> HIDE DEF c
      <4> QED
        BY <3>1, <4>1, <2>3
    <3>2. CASE i # d - 1
      <4>1. i \in 0 .. (d - 1) - 1 /\ i + 1 \in 0 .. d - 1
        BY <3>2
      <4> HIDE DEF c
      <4> QED
        BY <4>1, <2>1, <2>3
    <3> QED
      BY <3>1, <3>2
  <2>6. c[0] = k
    BY <2>1, <2>3
  <2> HIDE DEF c
  <2>7. c \in Chains(k, d)
    BY <2>4, <2>5, <2>6 DEF Chains
  <2> QED
    BY <2>3, <2>7 DEF Ends
<1>3. Ends(k, d) \subseteq UNION {NestedKeys(q) : q \in Ends(k, d - 1)}
  BY <1>1 DEF Ends
<1>4. ASSUME NEW q \in Ends(k, d - 1), NEW u \in NestedKeys(q) PROVE u \in Ends(k, d)
  BY <1>2 DEF Ends
<1> QED
  BY <1>3, <1>4

\* What the recursion says: a check begins at its own key and goes on to the
\* nested requests of every key it has reached.
LEMMA LevelEquation ==
    ASSUME NEW k \in Key
    PROVE  /\ Level(k)[0] = {k}
           /\ \A d \in Nat : Level(k)[d + 1] = UNION {NestedKeys(q) : q \in Level(k)[d]}
<1> DEFINE Solves(level) ==
        level = [d \in Nat |-> IF d = 0 THEN {k} ELSE UNION {NestedKeys(q) : q \in level[d - 1]}]
           ends == [d \in Nat |-> Ends(k, d)]
<1>1. \A d \in Nat : ends[d] = IF d = 0 THEN {k} ELSE UNION {NestedKeys(q) : q \in ends[d - 1]}
  <2> SUFFICES ASSUME NEW d \in Nat
               PROVE  ends[d] = IF d = 0 THEN {k} ELSE UNION {NestedKeys(q) : q \in ends[d - 1]}
    OBVIOUS
  <2>1. CASE d = 0
    BY <2>1, EndsZero
  <2>2. CASE d # 0
    <3>1. d \in Nat \ {0} /\ d - 1 \in Nat
      BY <2>2
    <3>2. ends[d] = Ends(k, d) /\ ends[d - 1] = Ends(k, d - 1)
      BY <3>1
    <3> HIDE DEF ends
    <3> QED
      BY <2>2, <3>1, <3>2, EndsNext
  <2> QED
    BY <2>1, <2>2
<1>2. Solves(ends)
  <2>1. ends = [d \in Nat |-> ends[d]]
    OBVIOUS
  <2> HIDE DEF ends
  <2> QED
    BY <1>1, <2>1
<1>3. Level(k) = CHOOSE level : Solves(level)
  BY DEF Level
<1>4. Solves(Level(k))
  <2> HIDE DEF Solves, ends
  <2> QED
    BY <1>2, <1>3
<1>5. Level(k)[0] = {k}
  BY <1>4
<1>6. ASSUME NEW d \in Nat
      PROVE  Level(k)[d + 1] = UNION {NestedKeys(q) : q \in Level(k)[d]}
  <2>1. d + 1 \in Nat /\ d + 1 # 0 /\ (d + 1) - 1 = d
    OBVIOUS
  <2> QED
    BY <1>4, <2>1
<1> QED
  BY <1>5, <1>6

(***************************************************************************)
(* The functions that a function makes.                                    *)
(***************************************************************************)

\* A function that Execute makes for its own request is no deeper than Execute.
LEMMA MadeHere ==
    ASSUME NEW r, NEW t, Made(r, t), NEW c \in Function,
           c.key = t.key, c.depth = t.depth, c.depth # 0,
           c.fn = "direct" => KindOf(t.key) = "relation",
           c.fn = "node" => /\ KindOf(t.key) = "action"
                            /\ c.node \in Below[Root[t.key.entity][t.key.permission]]
    PROVE  Made(r, c)
  BY DEF Made

\* A nested Execute is one level further down.
LEMMA MadeBelow ==
    ASSUME TypeOK, NEW r \in Request, NEW t, Made(r, t), t.depth # 0,
           NEW u \in NestedKeys(t.key), NEW sign \in Sign, NEW n \in Node
    PROVE  Made(r, Execute(u, sign, t.depth - 1, n))
<1> DEFINE ask == asked[r]
           c == Execute(u, sign, t.depth - 1, n)
<1>1. ask.key \in Key /\ ask.depth \in Nat
  BY AsksFunctions DEF TypeOK, Function
<1>2. /\ t.key \in Key /\ t.depth \in Nat /\ t.depth <= ask.depth
      /\ t.key \in Level(ask.key)[ask.depth - t.depth]
  BY DEF Made, Function
<1>3. u \in Key
  BY <1>2, NestedKeysAreKeys
<1>4. c \in Function /\ c.fn = "execute" /\ c.key = u /\ c.depth = t.depth - 1
  BY <1>2, <1>3 DEF Execute, Function
<1>5. /\ ask.depth - t.depth \in Nat /\ c.depth <= ask.depth
      /\ ask.depth - c.depth = (ask.depth - t.depth) + 1
  BY <1>1, <1>2, <1>4
<1> HIDE DEF c, ask
<1>6. u \in Level(ask.key)[ask.depth - c.depth]
  <2> DEFINE d == ask.depth - t.depth
  <2>1. d \in Nat /\ ask.depth - c.depth = d + 1 /\ t.key \in Level(ask.key)[d]
    BY <1>2, <1>5
  <2> HIDE DEF d
  <2>2. Level(ask.key)[d + 1] = UNION {NestedKeys(q) : q \in Level(ask.key)[d]}
    BY <1>1, <2>1, LevelEquation
  <2> QED
    BY <2>1, <2>2
<1> QED
  BY <1>4, <1>5, <1>6 DEF Made, ask, c

\* checkRewrite and checkLeaf, for a node of the action's rewrite tree.
LEMMA NodeFunctionMade ==
    ASSUME TypeOK, NEW r \in Request, NEW t, Made(r, t), t.depth # 0, KindOf(t.key) = "action",
           NEW n \in Below[Root[t.key.entity][t.key.permission]]
    PROVE  Made(r, NodeFunction(n, t.key, t.depth))
<1>1. t \in Function /\ t.key \in Key /\ t.depth \in Nat
  BY DEF Made, Function
<1>2. Root[t.key.entity][t.key.permission] \in Node
  BY <1>1, ConstantsAssumption DEF Key
<1>3. n \in Node
  BY <1>2, BelowClosed
<1>4. CASE NodeDef[n].kind = "computedUserSet"
  <2> DEFINE u == Nested(t.key, t.key.entity, NodeDef[n].relation)
  <2>1. NodeDef[n].sign \in Sign
    BY <1>3, ConstantsAssumption
  <2>2. u \in LeafKeys(n, t.key)
    BY <1>4 DEF LeafKeys
  <2>3. u \in NestedKeys(t.key)
    <3> HIDE DEF u
    <3> QED
      BY <2>2 DEF NestedKeys
  <2>4. NodeFunction(n, t.key, t.depth) = Execute(u, NodeDef[n].sign, t.depth - 1, n)
    BY <1>4 DEF NodeFunction
  <2> HIDE DEF u
  <2> QED
    BY <1>3, <2>1, <2>3, <2>4, MadeBelow
<1>5. CASE NodeDef[n].kind # "computedUserSet"
  <2> DEFINE c == [fn |-> "node", key |-> t.key, sign |-> "pos", depth |-> t.depth, node |-> n]
  <2>1. NodeFunction(n, t.key, t.depth) = c
    BY <1>5 DEF NodeFunction
  <2>2. /\ c \in Function /\ c.fn = "node" /\ c.key = t.key /\ c.depth = t.depth /\ c.node = n
    BY <1>1, <1>3 DEF Function, Sign
  <2> HIDE DEF c
  <2> QED
    BY <2>1, <2>2, MadeHere
<1> QED
  BY <1>4, <1>5

\* check, for an action or a relation.
LEMMA CheckFunctionMade ==
    ASSUME TypeOK, NEW r \in Request, NEW t, Made(r, t), t.fn = "execute", t.depth # 0,
           KindOf(t.key) \in {"relation", "action"}
    PROVE  Made(r, CheckFunctionOf(t))
<1>1. t \in Function /\ t.key \in Key
  BY DEF Made, Function
<1>2. CASE KindOf(t.key) = "action"
  <2>1. Root[t.key.entity][t.key.permission] \in Node
    BY <1>1, ConstantsAssumption DEF Key
  <2> QED
    BY <1>2, <2>1, BelowClosed, NodeFunctionMade DEF CheckFunctionOf
<1>3. CASE KindOf(t.key) = "relation"
  <2> DEFINE c == [t EXCEPT !.fn = "direct"]
  <2>1. c \in Function /\ c.fn = "direct" /\ c.key = t.key /\ c.depth = t.depth
    BY <1>1 DEF Function
  <2>2. CheckFunctionOf(t) = c
    BY <1>3 DEF CheckFunctionOf
  <2> HIDE DEF c
  <2> QED
    BY <1>3, <2>1, <2>2, MadeHere
<1> QED
  BY <1>2, <1>3

\* checkDirect, for the user sets of a relation.
LEMMA UserSetFunctionsMade ==
    ASSUME TypeOK, NEW r \in Request, NEW t, Made(r, t), t.fn = "direct",
           NEW c \in UserSetFunctions(t)
    PROVE  Made(r, c)
<1>1. t.depth # 0 /\ KindOf(t.key) = "relation" /\ t.sign \in Sign /\ t.node \in Node
  BY DEF Made, Function
<1>2. PICK u \in UserSets(t.key) : c = Execute(u, t.sign, t.depth - 1, t.node)
  BY DEF UserSetFunctions
<1>3. u \in NestedKeys(t.key)
  BY <1>1 DEF NestedKeys
<1> QED
  BY <1>1, <1>2, <1>3, MadeBelow

\* setChild and checkTupleToUserSet, for a node of the action's rewrite tree.
LEMMA NodeFunctionsMade ==
    ASSUME TypeOK, NEW r \in Request, NEW t, Made(r, t), t.fn = "node",
           NEW c \in NodeFunctions(t)
    PROVE  Made(r, c)
<1> DEFINE root == Root[t.key.entity][t.key.permission]
<1>1. /\ t.depth # 0 /\ KindOf(t.key) = "action" /\ t.key \in Key
      /\ t.node \in Node /\ t.node \in Below[root]
  BY DEF Made, Function
<1>2. root \in Node
  BY <1>1, ConstantsAssumption DEF Key
<1>3. CASE NodeDef[t.node].kind = "tupleToUserSet"
  <2>1. PICK u \in Computed(t.node, t.key) :
            c = Execute(u, NodeDef[t.node].sign, t.depth - 1, t.node)
    BY <1>3 DEF NodeFunctions
  <2>2. u \in LeafKeys(t.node, t.key)
    BY <1>3 DEF LeafKeys
  <2>3. u \in NestedKeys(t.key)
    BY <1>1, <2>2 DEF NestedKeys
  <2>4. NodeDef[t.node].sign \in Sign
    BY <1>1, ConstantsAssumption
  <2> QED
    BY <1>1, <2>1, <2>3, <2>4, MadeBelow
<1>4. CASE NodeDef[t.node].kind # "tupleToUserSet"
  <2>1. PICK n \in NodeDef[t.node].children : c = NodeFunction(n, t.key, t.depth)
    BY <1>4 DEF NodeFunctions
  <2>2. n \in Below[root]
    BY <1>1, <1>2, BelowClosed
  <2> QED
    BY <1>1, <2>1, <2>2, NodeFunctionMade
<1> QED
  BY <1>3, <1>4

(***************************************************************************)
(* The tree of goroutines.                                                 *)
(***************************************************************************)

\* A goroutine that waits for nobody is on no other goroutine's path.
LEMMA LeafOfTree ==
    ASSUME TypeOK, Linked, NEW p \in Live, Children(p) = {},
           NEW q \in Live, q # p, NEW n \in 2 .. Len(q)
    PROVE  SubSeq(q, 1, n) # p
<1> SUFFICES ASSUME SubSeq(q, 1, n) = p PROVE FALSE
  OBVIOUS
<1>1. q \in Seq(Request \cup Function) /\ Len(q) \in Nat /\ Len(q) > 1
  BY DEF TypeOK, Path
<1>2. n # Len(q) /\ Len(p) = n
  BY <1>1, PrefixPath
<1> DEFINE c == SubSeq(q, 1, n + 1)
<1>3. n + 1 \in 2 .. Len(q)
  BY <1>1, <1>2
<1>4. c \in Live
  BY <1>3 DEF Linked
<1>5. Len(c) = n + 1 /\ Parent(c) = p
  BY <1>1, <1>3, PrefixPath DEF Parent
<1> QED
  BY <1>2, <1>4, <1>5 DEF Children

\* A goroutine that has not yet opened a group has started nobody.
LEMMA NoChildrenYet ==
    ASSUME TypeOK, Linked, NEW p \in Live, frames[p].pc = "eval"
    PROVE  Children(p) = {}
<1> SUFFICES ASSUME NEW q \in Children(p) PROVE FALSE
  OBVIOUS
<1>1. q \in Live /\ Parent(q) = p /\ Len(q) = Len(p) + 1
  BY DEF Children
<1>2. Len(p) \in Nat /\ Len(p) > 1
  BY DEF TypeOK, Path
<1> QED
  BY <1>1, <1>2 DEF Linked

\* What an assignment to fields of a goroutine's state leaves alone.
LEMMA FrameChan ==
    ASSUME NEW f \in Frame, NEW c \in Seq(Decision)
    PROVE  LET g == [f EXCEPT !.chan = c] IN
           /\ g \in Frame /\ g.chan = c /\ g.resp = f.resp
           /\ g.pc = f.pc /\ g.kids = f.kids /\ g.op = f.op /\ g.got = f.got /\ g.todo = f.todo
  BY DEF Frame

\* A context that is done stays done: cancel() is never taken back, and a group
\* that has called it stays until everything below it has ended.
LEMMA DoneStays ==
    ASSUME TypeOK, Linked, NEW p \in Live, Done(p), cancelled \subseteq cancelled',
           \A q \in Live : frames[q].pc = "clean" /\ Children(q) # {} =>
                                q \in Live' /\ frames'[q].pc = "clean"
    PROVE  Done(p)'
<1>1. CASE p[1] \in cancelled
  BY <1>1 DEF Done
<1>2. CASE p[1] \notin cancelled
  <2>1. PICK n \in 2 .. Len(p) - 1 :
            SubSeq(p, 1, n) \in Live /\ frames[SubSeq(p, 1, n)].pc = "clean"
    BY <1>2 DEF Done
  <2> DEFINE q == SubSeq(p, 1, n)
  <2>2. p \in Seq(Request \cup Function) /\ Len(p) \in Nat /\ Len(p) > 1
    BY DEF TypeOK, Path
  <2>3. n \in 1 .. Len(p) /\ n \in 2 .. Len(p) /\ n # Len(p)
    BY <2>1, <2>2
  <2>4. q # p
    <3>1. Len(q) = n
      BY <2>2, <2>3, PrefixPath
    <3> QED
      BY <2>3, <3>1
  <2>5. Children(q) # {}
    BY <2>1, <2>3, <2>4, LeafOfTree
  <2>6. q \in Live' /\ frames'[q].pc = "clean"
    BY <2>1, <2>5
  <2> QED
    BY <2>1, <2>6 DEF Done
<1> QED
  BY <1>1, <1>2

\* The causes of the errors on the way stay.
LEMMA CausesStay ==
    ASSUME TypeOK, Linked, asked' = asked, cancelled \subseteq cancelled',
           \A q \in Live : frames[q].pc = "clean" /\ Children(q) # {} =>
                                q \in Live' /\ frames'[q].pc = "clean",
           \A p \in Live' : \/ p \in Live /\ Explained(p, frames'[p])
                            \/ frames'[p] = NewFrame
    PROVE  ErrorsExplained'
<1>1. ASSUME NEW p \in Live, NEW resp, Caused(p, resp)
      PROVE  /\ resp.err = "cancelled" => Done(p)'
             /\ resp.err = "depth" => NeedsMore(p[1])'
  <2>1. Done(p) => Done(p)'
    BY DoneStays
  <2>2. NeedsMore(p[1]) => NeedsMore(p[1])'
    BY DEF NeedsMore
  <2> QED
    BY <1>1, <2>1, <2>2 DEF Caused
<1>2. NewFrame.pc = "eval" /\ NewFrame.chan = <<>>
  BY DEF NewFrame, Idle
<1> SUFFICES ASSUME NEW p \in Live'
             PROVE  /\ frames'[p].pc = "clean" => Caused(p, frames[p].resp)'
                    /\ \A i \in 1 .. Len(frames'[p].chan) : Caused(p, frames[p].chan[i].resp)'
  BY DEF ErrorsExplained, Explained
<1>3. CASE frames'[p] = NewFrame
  BY <1>2, <1>3
<1>4. CASE p \in Live /\ Explained(p, frames'[p])
  <2>1. frames'[p].pc = "clean" => Caused(p, frames[p].resp)'
    <3> SUFFICES ASSUME frames'[p].pc = "clean" PROVE Caused(p, frames[p].resp)'
      OBVIOUS
    <3>1. Caused(p, frames'[p].resp)
      BY <1>4 DEF Explained
    <3> QED
      BY <1>1, <1>4, <3>1 DEF Caused
  <2>2. ASSUME NEW i \in 1 .. Len(frames'[p].chan) PROVE Caused(p, frames[p].chan[i].resp)'
    <3>1. Caused(p, frames'[p].chan[i].resp)
      BY <1>4 DEF Explained
    <3> QED
      BY <1>1, <1>4, <3>1 DEF Caused
  <2> QED
    BY <2>1, <2>2
<1> QED
  BY <1>3, <1>4

\* A response that a goroutine sends to its group explains itself there as well.
LEMMA CausedAbove ==
    ASSUME TypeOK, Linked, NEW p \in Live, Len(p) > 2, frames[Parent(p)].pc # "clean",
           NEW resp, Caused(p, resp)
    PROVE  Caused(Parent(p), resp)
<1> DEFINE q == Parent(p)
<1>1. p \in Seq(Request \cup Function) /\ Len(p) \in Nat
  BY DEF TypeOK, Path
<1>2. Len(p) - 1 \in 1 .. Len(p) /\ 1 \in 1 .. Len(p) - 1
  BY <1>1
<1>3. Len(q) = Len(p) - 1 /\ q[1] = p[1]
  BY <1>1, <1>2, PrefixPath DEF Parent
<1>4. Done(p) => Done(q)
  <2> SUFFICES ASSUME Done(p), p[1] \notin cancelled PROVE Done(q)
    BY <1>3 DEF Done
  <2>1. PICK n \in 2 .. Len(p) - 1 :
            SubSeq(p, 1, n) \in Live /\ frames[SubSeq(p, 1, n)].pc = "clean"
    BY DEF Done
  <2>2. n # Len(p) - 1
    BY <2>1 DEF Parent
  <2>3. n \in 2 .. Len(q) - 1
    BY <1>1, <1>3, <2>1, <2>2
  <2>4. n \in 1 .. Len(p) - 1
    BY <1>1, <2>1
  <2>5. SubSeq(q, 1, n) = SubSeq(p, 1, n)
    BY <1>1, <1>2, <2>4, PrefixPath DEF Parent
  <2> QED
    BY <2>1, <2>3, <2>5 DEF Done
<1> QED
  BY <1>3, <1>4 DEF Caused

\* What the functions and the members of a group are does not change with the state.
LEMMA SameMade ==
    ASSUME asked' = asked
    PROVE  \A r, t : Made(r, t) <=> Made(r, t)'
  BY DEF Made

\* The functions of the goroutines of the next state, from what is known of them in this one.
LEMMA GrownStep ==
    ASSUME asked' = asked,
           \A p \in Live' : Made(p[1], Term(p)) /\ Shaped(p[1], frames'[p])
    PROVE  Grown'
<1>1. \A r, t : Made(r, t) <=> Made(r, t)'
  BY SameMade
<1> SUFFICES ASSUME NEW p \in Live'
             PROVE  /\ Made(p[1], Term(p))'
                    /\ \A c \in frames'[p].kids : Made(p[1], c)'
                    /\ frames'[p].todo \subseteq frames'[p].kids
                    /\ frames'[p].pc = "eval" => frames'[p].todo = {}
  BY DEF Grown, Shaped
<1>2. Made(p[1], Term(p))'
  BY <1>1 DEF Term
<1>3. Shaped(p[1], frames'[p])
  OBVIOUS
<1> QED
  BY <1>1, <1>2, <1>3 DEF Shaped

\* A goroutine that a client did not start has a group above it.
LEMMA MoreThanTwo == ASSUME NEW n \in Nat, n > 1, n # 2 PROVE n > 2
  OBVIOUS

LEMMA MoreThanOne == ASSUME NEW n \in Nat, n > 1 PROVE n # 1
  OBVIOUS

\* A goroutine ends, with an error only for a cause.
LEMMA ReplyTree ==
    ASSUME Tree, NEW p \in Live, Children(p) = {}, NEW resp \in Response, Caused(p, resp),
           Reply(p, resp), UNCHANGED <<asked, cancelled>>,
           DOMAIN cache' \subseteq CacheKeys, \A k \in DOMAIN cache' : cache'[k] \in Can
    PROVE  Tree'
<1> USE DEF Tree
<1>1. p \in Seq(Request \cup Function) /\ Len(p) \in Nat /\ Len(p) > 1
      /\ p[1] \in Request /\ Term(p) \in Function
  BY DEF TypeOK, Path
<1>2. Live' = Live \ {p}
  BY DEF Reply, Live
<1>3. ASSUME NEW q \in Live'
      PROVE  /\ q \in Live /\ q # p
             /\ \/ frames'[q] = frames[q]
                \/ /\ q = Parent(p) /\ Len(p) # 2 /\ frames[q].pc = "collect"
                   /\ frames'[q] = [frames[q] EXCEPT
                         !.chan = Append(@, [from |-> Term(p), resp |-> resp])]
  <2>1. q \in Live \ {p}
    BY <1>2
  <2>2. CASE Len(p) = 2
    BY <2>1, <2>2 DEF Reply
  <2>3. CASE Len(p) # 2
    BY <2>1, <2>3 DEF Reply
  <2> QED
    BY <2>1, <2>2, <2>3
<1>4. ASSUME NEW q \in Live'
      PROVE  /\ frames'[q] \in Frame
             /\ frames'[q].pc = frames[q].pc /\ frames'[q].kids = frames[q].kids
             /\ frames'[q].todo = frames[q].todo
             /\ Explained(q, frames'[q])
  <2>1. q \in Live /\ frames[q] \in Frame /\ Explained(q, frames[q])
    BY <1>3 DEF TypeOK, ErrorsExplained
  <2>2. CASE frames'[q] = frames[q]
    BY <2>1, <2>2
  <2>3. CASE frames'[q] # frames[q]
    <3> DEFINE d == [from |-> Term(p), resp |-> resp]
               f == frames[q]
               g == frames'[q]
               c == Append(f.chan, d)
    <3>1. q = Parent(p) /\ Len(p) # 2 /\ f.pc = "collect"
      BY <1>3, <2>3
    <3>2. d \in Decision /\ f.chan \in Seq(Decision) /\ c \in Seq(Decision)
      <4>1. d \in Decision
        BY <1>1 DEF Decision
      <4>2. f.chan \in Seq(Decision)
        BY <2>1 DEF Frame
      <4> QED
        BY <4>1, <4>2, AppendProperties
    <3>3. /\ g \in Frame /\ g.chan = c /\ g.resp = f.resp
          /\ g.pc = f.pc /\ g.kids = f.kids /\ g.op = f.op /\ g.got = f.got /\ g.todo = f.todo
      <4>1. g = [f EXCEPT !.chan = c]
        BY <1>3, <2>3
      <4> HIDE DEF c, d
      <4> QED
        BY <4>1, <2>1, <3>2, FrameChan
    <3>4. Caused(q, resp)
      <4>1. Len(p) > 2
        <5>1. Len(p) \in Nat /\ Len(p) > 1 /\ Len(p) # 2
          BY <1>1, <3>1
        <5> QED
          BY <5>1, MoreThanTwo
      <4> QED
        BY <4>1, <3>1, CausedAbove
    <3>5. ASSUME NEW i \in 1 .. Len(g.chan)
          PROVE  Caused(q, g.chan[i].resp)
      <4>1. CASE i = Len(f.chan) + 1
        <5>1. g.chan[i] = d
          BY <3>2, <3>3, <4>1
        <5> QED
          BY <5>1, <3>4
      <4>2. CASE i # Len(f.chan) + 1
        <5>1. i \in 1 .. Len(f.chan) /\ g.chan[i] = f.chan[i]
          BY <3>2, <3>3, <4>2
        <5> QED
          BY <5>1, <2>1 DEF Explained
      <4> QED
        BY <4>1, <4>2
    <3>6. Explained(q, g)
      BY <3>1, <3>3, <3>5 DEF Explained
    <3> QED
      BY <3>3, <3>6
  <2> QED
    BY <2>2, <2>3
<1>5. ASSUME NEW q \in Live', NEW n \in 2 .. Len(q)
      PROVE  SubSeq(q, 1, n) \in Live'
  <2>1. SubSeq(q, 1, n) \in Live
    BY <1>3 DEF Linked
  <2>2. SubSeq(q, 1, n) # p
    BY <1>3, LeafOfTree
  <2> QED
    BY <2>1, <2>2, <1>2
<1>6. ASSUME NEW q \in Live', Len(q) > 2
      PROVE  /\ frames'[Parent(q)].pc # "eval"
             /\ Term(q) \in frames'[Parent(q)].kids \ frames'[Parent(q)].todo
  <2>1. q \in Live /\ Len(q) \in Nat
    BY <1>2 DEF TypeOK, Path
  <2>2. Parent(q) \in Live'
    BY <1>5, <1>6, <2>1 DEF Parent
  <2> QED
    BY <1>4, <1>6, <2>1, <2>2 DEF Linked
<1>7. Linked'
  BY <1>5, <1>6 DEF Linked, Parent, Term
<1>8. ASSUME NEW q \in Live', Len(p) = 2
      PROVE  q[1] # p[1]
  <2> SUFFICES ASSUME q[1] = p[1] PROVE FALSE
    OBVIOUS
  <2>1. q \in Live /\ q \in Seq(Request \cup Function) /\ Len(q) \in Nat /\ Len(q) > 1
    BY <1>2 DEF TypeOK, Path
  <2> DEFINE r == SubSeq(q, 1, 2)
  <2>2. r \in Live' /\ r \in Live
    <3>1. 2 \in 2 .. Len(q)
      BY <2>1
    <3>2. SubSeq(q, 1, 2) \in Live'
      BY <3>1, <1>5
    <3> QED
      BY <3>2, <1>2
  <2>3. r \in Seq(Request \cup Function) /\ Len(r) = 2 /\ r[1] = p[1]
    BY <2>1, PrefixPath
  <2>4. r[2] = asked[p[1]] /\ p[2] = asked[p[1]]
    BY <2>2, <2>3, <1>8 DEF Rooted, Term
  <2>5. r = p
    BY <1>1, <1>8, <2>3, <2>4, SeqEqual
  <2> QED
    BY <2>2, <2>5, <1>2
<1>9. Rooted'
  <2> SUFFICES ASSUME NEW q \in Live'
               PROVE  status'[q[1]] = "running" /\ (Len(q) = 2 => Term(q) = asked'[q[1]])
    BY DEF Rooted, Term
  <2>1. status[q[1]] = "running" /\ (Len(q) = 2 => Term(q) = asked[q[1]]) /\ q[1] \in Request
    BY <1>3 DEF Rooted, TypeOK
  <2>2. CASE Len(p) = 2
    BY <2>1, <2>2, <1>8 DEF Reply, TypeOK
  <2>3. CASE Len(p) # 2
    BY <2>1, <2>3 DEF Reply
  <2> QED
    BY <2>1, <2>2, <2>3
<1>10. Grown'
  <2>1. ASSUME NEW q \in Live'
        PROVE  Made(q[1], Term(q)) /\ Shaped(q[1], frames'[q])
    BY <1>3, <1>4 DEF Grown, Shaped
  <2> QED
    BY <2>1, GrownStep
<1>11. ErrorsExplained'
  <2>1. \A q \in Live : frames[q].pc = "clean" /\ Children(q) # {} =>
                            q \in Live' /\ frames'[q].pc = "clean"
    BY <1>2, <1>4
  <2>2. \A q \in Live' : q \in Live /\ Explained(q, frames'[q])
    BY <1>3, <1>4
  <2> QED
    BY <2>1, <2>2, CausesStay
<1>12. TypeOK'
  <2>1. status' \in [Request -> {"idle", "running", "answered"}] /\ answer' \in [Request -> Response]
    <3>1. CASE Len(p) = 2
      BY <3>1, <1>1 DEF Reply, TypeOK
    <3>2. CASE Len(p) # 2
      BY <3>2 DEF Reply, TypeOK
    <3> QED
      BY <3>1, <3>2
  <2>2. \A q \in Live' : q \in Path /\ frames'[q] \in Frame /\ q[1] \in Request /\ Term(q) \in Function
    BY <1>3, <1>4 DEF TypeOK
  <2>3. asked' \in Asks /\ cancelled' \subseteq Request
    BY DEF TypeOK
  <2> QED
    BY <2>1, <2>2, <2>3 DEF TypeOK, Term
<1>13. ASSUME NEW r \in Request, status'[r] = "answered"
       PROVE  \/ r = p[1] /\ Len(p) = 2 /\ answer'[r] = resp
              \/ status[r] = "answered" /\ answer'[r] = answer[r]
  <2>1. CASE Len(p) = 2
    BY <1>13, <2>1 DEF Reply, TypeOK
  <2>2. CASE Len(p) # 2
    BY <1>13, <2>2 DEF Reply
  <2> QED
    BY <2>1, <2>2
<1>14. Len(p) = 2 => (Done(p) => p[1] \in cancelled)
  <2>1. Len(p) = 2 => 2 .. Len(p) - 1 = {}
    BY <1>1
  <2> QED
    BY <2>1 DEF Done
<1>15. CancelHonest'
  <2> SUFFICES ASSUME NEW r \in Request, status'[r] = "answered", answer'[r].err = "cancelled"
               PROVE  r \in cancelled
    BY DEF CancelHonest
  <2> QED
    BY <1>13, <1>14 DEF CancelHonest, Caused
<1>16. DepthHonest'
  <2> SUFFICES ASSUME NEW r \in Request, status'[r] = "answered", answer'[r].err = "depth"
               PROVE  NeedsMore(r)
    BY DEF DepthHonest, NeedsMore
  <2> QED
    BY <1>13 DEF DepthHonest, Caused
<1> QED
  BY <1>7, <1>9, <1>10, <1>11, <1>12, <1>15, <1>16

\* A goroutine opens a group or goes on with the one it has.
LEMMA GroupTree ==
    ASSUME Tree, NEW p \in Live, NEW f \in Frame,
           frames' = [frames EXCEPT ![p] = f],
           f.pc # "eval", frames[p].pc = "clean" => f.pc = "clean",
           Shaped(p[1], f), Explained(p, f),
           \/ frames[p].pc = "eval"
           \/ f.kids = frames[p].kids /\ f.todo \subseteq frames[p].todo,
           UNCHANGED <<asked, status, answer, cancelled, cache>>
    PROVE  Tree'
<1> USE DEF Tree
<1>1. Live' = Live
  BY DEF Live
<1>2. ASSUME NEW q \in Live
      PROVE  frames'[q] = IF q = p THEN f ELSE frames[q]
  BY DEF Live
<1>3. ASSUME NEW q \in Live, Len(q) > 2
      PROVE  /\ frames'[Parent(q)].pc # "eval"
             /\ Term(q) \in frames'[Parent(q)].kids \ frames'[Parent(q)].todo
  <2>1. Len(q) \in Nat /\ Len(q) - 1 \in 2 .. Len(q)
    BY <1>3 DEF TypeOK, Path
  <2>2. Parent(q) \in Live
    BY <2>1 DEF Linked, Parent
  <2>3. /\ frames[Parent(q)].pc # "eval"
        /\ Term(q) \in frames[Parent(q)].kids \ frames[Parent(q)].todo
    BY <1>3 DEF Linked
  <2>4. CASE Parent(q) = p
    <3>1. frames'[Parent(q)] = f /\ f.kids = frames[p].kids /\ f.todo \subseteq frames[p].todo
      BY <2>2, <2>3, <2>4, <1>2
    <3> QED
      BY <2>3, <2>4, <3>1
  <2>5. CASE Parent(q) # p
    <3>1. frames'[Parent(q)] = frames[Parent(q)]
      BY <2>2, <2>5, <1>2
    <3> QED
      BY <2>3, <3>1
  <2> QED
    BY <2>4, <2>5
<1>4. Linked'
  BY <1>1, <1>3 DEF Linked, Parent, Term
<1>5. Rooted' /\ CancelHonest' /\ DepthHonest'
  BY <1>1 DEF Rooted, CancelHonest, DepthHonest, NeedsMore, Term
<1>6. Grown'
  <2>1. ASSUME NEW q \in Live'
        PROVE  Made(q[1], Term(q)) /\ Shaped(q[1], frames'[q])
    BY <1>1, <1>2 DEF Grown
  <2> QED
    BY <2>1, GrownStep
<1>7. ErrorsExplained'
  <2>1. \A q \in Live : frames[q].pc = "clean" => q \in Live' /\ frames'[q].pc = "clean"
    BY <1>1, <1>2
  <2>2. \A q \in Live' : q \in Live /\ Explained(q, frames'[q])
    BY <1>1, <1>2 DEF ErrorsExplained
  <2> QED
    BY <2>1, <2>2, CausesStay
<1>8. TypeOK'
  <2>1. ASSUME NEW q \in Live PROVE frames'[q] \in Frame
    BY <1>2 DEF TypeOK
  <2> QED
    BY <2>1, <1>1 DEF TypeOK, Term
<1> QED
  BY <1>4, <1>5, <1>6, <1>7, <1>8

\* The state of a goroutine that has just been started.
LEMMA NewFrameShape ==
    /\ NewFrame \in Frame /\ NewFrame.pc = "eval"
    /\ \A r : Shaped(r, NewFrame)
<1>1. <<>> \in Seq(Decision)
  OBVIOUS
<1> QED
  BY <1>1 DEF NewFrame, Idle, Frame, Response, Can, Err, Shaped

\* A goroutine is started: q is its path, base what it does to the others.
LEMMA BirthTree ==
    ASSUME Tree, NEW q \in Path, q[1] \in Request, q \notin Live, Made(q[1], Term(q)),
           NEW base, DOMAIN base = Live,
           \A p \in Live : /\ base[p] \in Frame
                           /\ Shaped(p[1], base[p]) /\ Explained(p, base[p])
                           /\ base[p].pc = frames[p].pc /\ base[p].kids = frames[p].kids
                           /\ base[p].todo \subseteq frames[p].todo,
           frames' = [p \in Live \cup {q} |-> IF p = q THEN NewFrame ELSE base[p]],
           \A n \in 2 .. Len(q) - 1 : SubSeq(q, 1, n) \in Live,
           Len(q) > 2 => /\ frames[Parent(q)].pc # "eval"
                         /\ Term(q) \in frames[Parent(q)].kids \ base[Parent(q)].todo,
           status' \in [Request -> {"idle", "running", "answered"}],
           status'[q[1]] = "running",
           \A r \in Request : status'[r] # status[r] => r = q[1],
           Len(q) = 2 => Term(q) = asked[q[1]],
           UNCHANGED <<asked, answer, cancelled, cache>>
    PROVE  Tree'
<1> USE DEF Tree
<1>1. Live' = Live \cup {q}
  BY DEF Live
<1>2. frames'[q] = NewFrame
  OBVIOUS
<1>3. ASSUME NEW p \in Live
      PROVE  /\ frames'[p] = base[p] /\ p # q /\ frames'[p] \in Frame
             /\ Shaped(p[1], frames'[p]) /\ Explained(p, frames'[p])
             /\ frames'[p].pc = frames[p].pc /\ frames'[p].kids = frames[p].kids
             /\ frames'[p].todo \subseteq frames[p].todo
  <2>1. frames'[p] = base[p] /\ p # q
    BY <1>1
  <2> QED
    BY <2>1
<1>4. /\ q \in Seq(Request \cup Function) /\ Len(q) \in Nat /\ Len(q) > 1
      /\ SubSeq(q, 1, Len(q)) = q
  <2>1. q \in Seq(Request \cup Function) /\ Len(q) \in Nat /\ Len(q) > 1
    BY DEF Path
  <2> QED
    BY <2>1, SubSeqFull
<1>5. ASSUME NEW p \in Live', NEW n \in 2 .. Len(p)
      PROVE  SubSeq(p, 1, n) \in Live'
  <2>1. CASE p = q
    <3>1. n \in 2 .. Len(q) - 1 \/ n = Len(q)
      <4>1. n \in 2 .. Len(q) /\ Len(q) \in Nat
        BY <2>1, <1>4
      <4> QED
        BY <4>1
    <3> QED
      BY <2>1, <3>1, <1>1, <1>4
  <2>2. CASE p \in Live
    BY <2>2, <1>1 DEF Linked
  <2> QED
    BY <2>1, <2>2, <1>1
<1>6. ASSUME NEW p \in Live', Len(p) > 2
      PROVE  /\ frames'[Parent(p)].pc # "eval"
             /\ Term(p) \in frames'[Parent(p)].kids \ frames'[Parent(p)].todo
  <2>1. p \in Path
    BY <1>1 DEF TypeOK
  <2>2. Len(p) \in Nat /\ Len(p) - 1 \in 2 .. Len(p) /\ Len(p) - 1 \in 2 .. Len(p) - 1
    BY <1>6, <2>1 DEF Path
  <2>3. /\ Parent(p) \in Live /\ frames[Parent(p)].pc # "eval"
        /\ Term(p) \in frames[Parent(p)].kids \ frames'[Parent(p)].todo
    <3>1. CASE p = q
      <4>1. Parent(p) \in Live
        BY <3>1, <2>2 DEF Parent
      <4> QED
        BY <3>1, <4>1, <1>3, <1>6
    <3>2. CASE p \in Live
      <4>1. Parent(p) \in Live
        BY <3>2, <2>2 DEF Parent, Linked
      <4> QED
        BY <3>2, <4>1, <1>3, <1>6 DEF Linked
    <3> QED
      BY <3>1, <3>2, <1>1
  <2> QED
    BY <2>3, <1>3
<1>7. Linked'
  BY <1>5, <1>6 DEF Linked, Parent, Term
<1>8. Rooted'
  <2> SUFFICES ASSUME NEW p \in Live'
               PROVE  status'[p[1]] = "running" /\ (Len(p) = 2 => Term(p) = asked[p[1]])
    BY DEF Rooted, Term
  <2>1. CASE p = q
    BY <2>1
  <2>2. CASE p \in Live
    <3>1. p[1] \in Request /\ status[p[1]] = "running" /\ (Len(p) = 2 => Term(p) = asked[p[1]])
      BY <2>2 DEF TypeOK, Rooted
    <3> QED
      BY <3>1
  <2> QED
    BY <2>1, <2>2, <1>1
<1>9. Grown'
  <2>1. ASSUME NEW p \in Live'
        PROVE  Made(p[1], Term(p)) /\ Shaped(p[1], frames'[p])
    <3>1. CASE p = q
      BY <3>1, <1>2, NewFrameShape
    <3>2. CASE p \in Live
      BY <3>2, <1>3 DEF Grown
    <3> QED
      BY <3>1, <3>2, <1>1
  <2> QED
    BY <2>1, GrownStep
<1>10. ErrorsExplained'
  <2>1. \A p \in Live : frames[p].pc = "clean" => p \in Live' /\ frames'[p].pc = "clean"
    BY <1>1, <1>3
  <2>2. \A p \in Live' : (p \in Live /\ Explained(p, frames'[p])) \/ frames'[p] = NewFrame
    BY <1>1, <1>2, <1>3
  <2> QED
    BY <2>1, <2>2, CausesStay
<1>11. TypeOK'
  <2>1. Term(q) \in Function
    BY DEF Made
  <2>2. ASSUME NEW p \in Live'
        PROVE  p \in Path /\ frames'[p] \in Frame /\ p[1] \in Request /\ Term(p) \in Function
    <3>1. CASE p = q
      BY <3>1, <2>1, <1>2, NewFrameShape
    <3>2. CASE p \in Live
      BY <3>2, <1>3 DEF TypeOK
    <3> QED
      BY <3>1, <3>2, <1>1
  <2> QED
    BY <2>2 DEF TypeOK, Term
<1>12. \A r \in Request : status'[r] = "answered" => status[r] = "answered"
  OBVIOUS
<1>13. CancelHonest' /\ DepthHonest'
  BY <1>12 DEF CancelHonest, DepthHonest, NeedsMore
<1> QED
  BY <1>7, <1>8, <1>9, <1>10, <1>11, <1>13

(***************************************************************************)
(* The invariant is inductive.                                             *)
(***************************************************************************)

\* It holds before any client calls.
LEMMA InitTree == Init => Tree
<1> SUFFICES ASSUME Init PROVE Tree
  OBVIOUS
<1>1. Live = {} /\ DOMAIN cache = {}
  BY DEF Init, Live
<1>2. Failure("none") \in Response
  BY DEF Failure, Response, Can, Err
<1>3. TypeOK
  BY <1>1, <1>2 DEF Init, TypeOK
<1>4. Linked /\ Rooted /\ Grown /\ ErrorsExplained
  BY <1>1 DEF Linked, Rooted, Grown, ErrorsExplained
<1>5. CancelHonest /\ DepthHonest
  BY DEF Init, CancelHonest, DepthHonest
<1> QED
  BY <1>3, <1>4, <1>5 DEF Tree

\* What the invariant says of a goroutine that is about to take a step.
LEMMA AtNode ==
    ASSUME Tree, NEW p \in Live
    PROVE  /\ p \in Seq(Request \cup Function) /\ Len(p) \in Nat /\ Len(p) > 1
           /\ p[1] \in Request /\ p \in Path
           /\ Term(p) \in Function /\ Term(p).key \in Key /\ Term(p).sign \in Sign
           /\ Made(p[1], Term(p))
           /\ frames[p] \in Frame /\ Shaped(p[1], frames[p]) /\ Explained(p, frames[p])
           /\ frames[p].pc = "eval" => Children(p) = {}
<1>1. p \in Path /\ p[1] \in Request /\ Term(p) \in Function /\ frames[p] \in Frame
  BY DEF Tree, TypeOK
<1>2. p \in Seq(Request \cup Function) /\ Len(p) \in Nat /\ Len(p) > 1
  BY <1>1 DEF Path
<1>3. Made(p[1], Term(p)) /\ Shaped(p[1], frames[p]) /\ Explained(p, frames[p])
  BY DEF Tree, Grown, ErrorsExplained
<1>4. Term(p).key \in Key /\ Term(p).sign \in Sign
  BY <1>1 DEF Function
<1>5. frames[p].pc = "eval" => Children(p) = {}
  BY NoChildrenYet DEF Tree
<1> QED
  BY <1>1, <1>2, <1>3, <1>4, <1>5

\* SetCheckKey keeps the type of the cache.
LEMMA SetCheckKeyType ==
    ASSUME TypeOK, NEW k \in Key, NEW can \in Can, cache' = SetCheckKey(k, can)
    PROVE  DOMAIN cache' \subseteq CacheKeys /\ \A q \in DOMAIN cache' : cache'[q] \in Can
<1>1. CacheKey(k) \in CacheKeys
  BY DEF CacheKeys
<1>2. /\ DOMAIN cache' = DOMAIN cache \cup {CacheKey(k)}
      /\ \A q \in DOMAIN cache' : cache'[q] = IF q = CacheKey(k) THEN can ELSE cache[q]
  BY DEF SetCheckKey
<1> QED
  BY <1>1, <1>2 DEF TypeOK

\* Failures and verdicts are responses; verdicts are not errors.
LEMMA Responses ==
    /\ \A err \in Err : Failure(err) \in Response /\ Failure(err).err = err
    /\ \A can \in Can : /\ Verdict(can) \in Response
                        /\ Verdict(can).can = can /\ Verdict(can).err = "none"
  BY DEF Failure, Verdict, Response, Can, Err

\* An answer that is inverted is an answer.
LEMMA FlipType == ASSUME NEW can \in Can PROVE Flip(can) \in Can
  BY DEF Flip, Can

\* A client starts a check, cancels one, or the cache drops an entry.
LEMMA EnvironmentTree ==
    ASSUME Tree,
           \/ \E r \in Request : Start(r) \/ Cancel(r)
           \/ \E k \in DOMAIN cache : Evict(k)
    PROVE  Tree'
<1>1. ASSUME NEW r \in Request, Start(r)
      PROVE  Tree'
  <2> DEFINE q == <<r, asked[r]>>
  <2>1. asked[r] \in Function /\ asked[r].fn = "execute"
    BY AsksFunctions DEF Tree, TypeOK
  <2>2. /\ q \in Seq(Request \cup Function) /\ Len(q) = 2 /\ q[1] = r /\ Term(q) = asked[r]
        /\ q \in Path
    BY <2>1 DEF Path, Term
  <2>3. q \notin Live
    BY <1>1, <2>2 DEF Start, Tree, Rooted
  <2>4. Made(q[1], Term(q))
    <3>1. asked[r].key \in Key /\ asked[r].depth \in Nat
      BY <2>1 DEF Function
    <3>2. asked[r].depth - asked[r].depth = 0 /\ asked[r].depth <= asked[r].depth
      BY <3>1
    <3>3. asked[r].key \in Level(asked[r].key)[0]
      BY <3>1, LevelEquation
    <3>4. Made(r, asked[r])
      BY <2>1, <3>2, <3>3 DEF Made
    <3> QED
      BY <2>2, <3>4
  <2>5. \A p \in Live : /\ frames[p] \in Frame
                        /\ Shaped(p[1], frames[p]) /\ Explained(p, frames[p])
    BY AtNode
  <2>6. frames' = [p \in Live \cup {q} |-> IF p = q THEN NewFrame ELSE frames[p]]
    BY <1>1 DEF Start
  <2>7. /\ status' \in [Request -> {"idle", "running", "answered"}]
        /\ status'[q[1]] = "running"
        /\ \A s \in Request : status'[s] # status[s] => s = q[1]
        /\ UNCHANGED <<asked, answer, cancelled, cache>>
    BY <1>1, <2>2 DEF Start, Tree, TypeOK
  <2>8. (2 .. Len(q) - 1) = {} /\ ~(Len(q) > 2)
    BY <2>2
  <2>9. DOMAIN frames = Live
    BY DEF Live
  <2>10. q[1] \in Request /\ Term(q) = asked[q[1]]
    BY <2>2
  <2> HIDE DEF q
  <2> QED
    BY <2>2, <2>3, <2>4, <2>5, <2>6, <2>7, <2>8, <2>9, <2>10, BirthTree
<1>2. ASSUME NEW r \in Request, Cancel(r)
      PROVE  Tree'
  <2>1. cancelled' = cancelled \cup {r} /\ UNCHANGED <<asked, status, answer, frames, cache>>
    BY <1>2 DEF Cancel
  <2>2. Live' = Live
    BY <2>1 DEF Live
  <2>3. TypeOK' /\ Linked' /\ Rooted' /\ CancelHonest' /\ DepthHonest'
    BY <2>1, <2>2 DEF Tree, TypeOK, Linked, Rooted, CancelHonest, DepthHonest, NeedsMore,
                      Term, Parent
  <2>4. Grown'
    BY <2>1, <2>2, AtNode, GrownStep
  <2>5. ErrorsExplained'
    <3>1. \A p \in Live' : p \in Live /\ Explained(p, frames'[p])
      BY <2>1, <2>2, AtNode
    <3>2. cancelled \subseteq cancelled' /\ asked' = asked /\ TypeOK /\ Linked
      BY <2>1 DEF Tree
    <3> QED
      BY <2>1, <2>2, <3>1, <3>2, CausesStay
  <2> QED
    BY <2>3, <2>4, <2>5 DEF Tree
<1>3. ASSUME NEW k \in DOMAIN cache, Evict(k)
      PROVE  Tree'
  <2>1. /\ DOMAIN cache' = DOMAIN cache \ {k}
        /\ \A q \in DOMAIN cache' : cache'[q] = cache[q]
        /\ UNCHANGED <<asked, status, answer, cancelled, frames>>
    BY <1>3 DEF Evict
  <2>2. TypeOK'
    BY <2>1 DEF Tree, TypeOK, Live, Term
  <2>3. Linked' /\ Rooted' /\ CancelHonest' /\ DepthHonest'
    BY <2>1 DEF Tree, Linked, Rooted, CancelHonest, DepthHonest, NeedsMore, Live, Term, Parent
  <2>4. Live' = Live
    BY <2>1 DEF Live
  <2>5. Grown'
    BY <2>1, <2>4, AtNode, GrownStep
  <2>6. ErrorsExplained'
    <3>1. \A p \in Live' : p \in Live /\ Explained(p, frames'[p])
      BY <2>1, <2>4, AtNode
    <3>2. cancelled \subseteq cancelled' /\ asked' = asked /\ TypeOK /\ Linked
      BY <2>1 DEF Tree
    <3> QED
      BY <2>1, <2>4, <3>1, <3>2, CausesStay
  <2> QED
    BY <2>2, <2>3, <2>5, <2>6 DEF Tree
<1> QED
  BY <1>1, <1>2, <1>3

\* The steps that end a goroutine at once.
LEMMA AnswerTree ==
    ASSUME Tree, NEW p \in Live,
           \/ DepthExceeded(p) \/ UndefinedPermission(p) \/ RepositoryFails(p)
           \/ CacheHit(p) \/ DirectAnswer(p)
    PROVE  Tree'
<1> DEFINE t == Term(p)
           k == t.key
<1>1. ASSUME NEW resp \in Response, frames[p].pc = "eval", Caused(p, resp),
             Reply(p, resp), UNCHANGED <<asked, cancelled>>,
             DOMAIN cache' \subseteq CacheKeys, \A q \in DOMAIN cache' : cache'[q] \in Can
      PROVE  Tree'
  BY <1>1, AtNode, ReplyTree
<1>2. DOMAIN cache \subseteq CacheKeys /\ \A q \in DOMAIN cache : cache[q] \in Can
  BY DEF Tree, TypeOK
<1>3. CASE DepthExceeded(p)
  <2>1. /\ frames[p].pc = "eval" /\ t.depth = 0
        /\ Reply(p, Failure("depth")) /\ UNCHANGED <<asked, cancelled, cache>>
    BY <1>3 DEF DepthExceeded, Evaluating, Frozen
  <2>2. NeedsMore(p[1])
    <3>1. Made(p[1], t) /\ p[1] \in Request
      BY AtNode
    <3>2. asked[p[1]].depth \in Nat
      BY <3>1, AsksFunctions DEF Tree, TypeOK
    <3>3. asked[p[1]].depth - t.depth = asked[p[1]].depth
      BY <2>1, <3>2
    <3> QED
      BY <3>1, <3>3 DEF Made, NeedsMore
  <2>3. Failure("depth") \in Response /\ Caused(p, Failure("depth"))
    BY <2>2, Responses DEF Err, Caused
  <2> QED
    BY <1>1, <1>2, <2>1, <2>3
<1>4. CASE UndefinedPermission(p) \/ RepositoryFails(p)
  <2>1. PICK err \in {"schema", "repository"} :
            /\ frames[p].pc = "eval"
            /\ Reply(p, Failure(err)) /\ UNCHANGED <<asked, cancelled, cache>>
    BY <1>4 DEF UndefinedPermission, RepositoryFails, Evaluating, Frozen
  <2>2. Failure(err) \in Response /\ Caused(p, Failure(err))
    BY Responses DEF Err, Caused
  <2> QED
    BY <1>1, <1>2, <2>1, <2>2
<1>5. CASE CacheHit(p)
  <2> DEFINE can == cache[CacheKey(k)]
             c == IF t.sign = "neg" THEN Flip(can) ELSE can
  <2>1. /\ frames[p].pc = "eval" /\ CacheKey(k) \in DOMAIN cache
        /\ Reply(p, Verdict(c)) /\ UNCHANGED <<asked, cancelled, cache>>
    BY <1>5 DEF CacheHit, Evaluating, Frozen
  <2>2. c \in Can
    BY <1>2, <2>1, FlipType
  <2>3. Verdict(c) \in Response /\ Caused(p, Verdict(c))
    BY <2>2, Responses DEF Caused
  <2> HIDE DEF c
  <2> QED
    BY <1>1, <1>2, <2>1, <2>3
<1>6. CASE DirectAnswer(p)
  <2> DEFINE can == IF k.subject \in Subjects(k) THEN "allowed" ELSE "denied"
  <2>1. /\ frames[p].pc = "eval" /\ cache' = SetCheckKey(k, can)
        /\ Reply(p, Verdict(can)) /\ UNCHANGED <<asked, cancelled>>
    BY <1>6 DEF DirectAnswer, Evaluating, Frozen
  <2>2. can \in Can /\ k \in Key /\ TypeOK
    BY AtNode DEF Can, Tree
  <2> HIDE DEF can
  <2>3. Verdict(can) \in Response /\ Caused(p, Verdict(can))
    BY <2>2, Responses DEF Caused
  <2>4. DOMAIN cache' \subseteq CacheKeys /\ \A q \in DOMAIN cache' : cache'[q] \in Can
    BY <2>1, <2>2, SetCheckKeyType
  <2> QED
    BY <1>1, <2>1, <2>3, <2>4
<1> QED
  BY <1>3, <1>4, <1>5, <1>6

\* The steps that open a group.
LEMMA OpenTree ==
    ASSUME Tree, NEW p \in Live, CacheMiss(p) \/ DirectUserSets(p) \/ NodeGroup(p)
    PROVE  Tree'
<1> DEFINE t == Term(p)
<1>1. ASSUME NEW op \in {"union", "intersection"}, NEW kids,
             frames[p].pc = "eval", Open(p, op, kids), \A c \in kids : Made(p[1], c),
             UNCHANGED <<asked, cancelled, status, answer, cache>>
      PROVE  Tree'
  <2> DEFINE f == Idle(op, kids, "collect")
  <2>1. kids \subseteq Function
    BY <1>1 DEF Made
  <2>2. f.pc = "collect" /\ f.kids = kids /\ f.todo = kids /\ f.chan = <<>> /\ Len(f.chan) = 0
    BY DEF Idle
  <2>3. f \in Frame
    BY <1>1, <2>1 DEF Idle, Frame, Response, Can, Err
  <2>4. Shaped(p[1], f) /\ Explained(p, f)
    BY <1>1, <2>2 DEF Shaped, Explained
  <2>5. frames' = [frames EXCEPT ![p] = f]
    BY <1>1 DEF Open
  <2>6. frames[p].pc = "eval" /\ UNCHANGED <<asked, status, answer, cancelled, cache>>
    BY <1>1
  <2>7. f.pc # "eval" /\ (frames[p].pc = "clean" => f.pc = "clean")
    BY <2>2, <2>6
  <2> HIDE DEF f
  <2> QED
    BY <2>3, <2>4, <2>5, <2>6, <2>7, GroupTree
<1>2. TypeOK /\ p[1] \in Request /\ Made(p[1], t)
  BY AtNode DEF Tree
<1>3. CASE CacheMiss(p)
  <2> DEFINE kids == {CheckFunctionOf(t)}
  <2>1. /\ frames[p].pc = "eval" /\ t.fn = "execute" /\ t.depth # 0
        /\ KindOf(t.key) \in {"relation", "action"}
        /\ Open(p, "union", kids) /\ UNCHANGED <<asked, cancelled, status, answer, cache>>
    BY <1>3 DEF CacheMiss, Evaluating, Frozen
  <2>2. \A c \in kids : Made(p[1], c)
    BY <1>2, <2>1, CheckFunctionMade
  <2> HIDE DEF kids
  <2> QED
    BY <1>1, <2>1, <2>2
<1>4. CASE DirectUserSets(p)
  <2> DEFINE kids == UserSetFunctions(t)
  <2>1. /\ frames[p].pc = "eval" /\ t.fn = "direct"
        /\ Open(p, "union", kids) /\ UNCHANGED <<asked, cancelled, status, answer, cache>>
    BY <1>4 DEF DirectUserSets, Evaluating, Frozen
  <2>2. \A c \in kids : Made(p[1], c)
    BY <1>2, <2>1, UserSetFunctionsMade
  <2> HIDE DEF kids
  <2> QED
    BY <1>1, <2>1, <2>2
<1>5. CASE NodeGroup(p)
  <2> DEFINE kids == NodeFunctions(t)
  <2>1. /\ frames[p].pc = "eval" /\ t.fn = "node"
        /\ UNCHANGED <<asked, cancelled, cache>>
    BY <1>5 DEF NodeGroup, Evaluating, Frozen
  <2>2. CASE kids = {}
    <3>1. Reply(p, Verdict("denied"))
      BY <1>5, <2>2 DEF NodeGroup
    <3>2. Verdict("denied") \in Response /\ Caused(p, Verdict("denied"))
      BY Responses DEF Can, Caused
    <3>3. Children(p) = {}
      BY <2>1, AtNode
    <3>4. DOMAIN cache' \subseteq CacheKeys /\ \A q \in DOMAIN cache' : cache'[q] \in Can
      BY <2>1 DEF Tree, TypeOK
    <3> QED
      BY <2>1, <3>1, <3>2, <3>3, <3>4, ReplyTree
  <2>3. CASE kids # {}
    <3>1. Open(p, NodeOp(t), kids) /\ UNCHANGED <<status, answer>>
      BY <1>5, <2>3 DEF NodeGroup
    <3>2. NodeOp(t) \in {"union", "intersection"}
      BY DEF NodeOp
    <3>3. \A c \in kids : Made(p[1], c)
      BY <1>2, <2>1, NodeFunctionsMade
    <3> HIDE DEF kids
    <3> QED
      BY <1>1, <2>1, <3>1, <3>2, <3>3
  <2> QED
    BY <2>2, <2>3
<1> QED
  BY <1>3, <1>4, <1>5

\* What taking a group from collecting to cleaning leaves alone.
LEMMA CleanFrame ==
    ASSUME NEW p \in Live, frames[p] \in Frame, NEW resp \in Response
    PROVE  LET g == Clean(p, resp) IN
           /\ g \in Frame /\ g.pc = "clean" /\ g.resp = resp /\ g.chan = <<>>
           /\ g.kids = frames[p].kids /\ g.todo = frames[p].todo
<1>1. <<>> \in Seq(Decision)
  OBVIOUS
<1> QED
  BY <1>1 DEF Clean, Frame

\* A group has its answer, an error only for a cause.
LEMMA CleanTree ==
    ASSUME Tree, NEW p \in Live, frames[p].pc = "collect",
           NEW resp \in Response, Caused(p, resp),
           frames' = [frames EXCEPT ![p] = Clean(p, resp)],
           UNCHANGED <<asked, status, answer, cancelled, cache>>
    PROVE  Tree'
<1> DEFINE g == Clean(p, resp)
<1>1. frames[p] \in Frame /\ Shaped(p[1], frames[p])
  BY AtNode
<1>2. /\ g \in Frame /\ g.pc = "clean" /\ g.resp = resp /\ g.chan = <<>>
      /\ g.kids = frames[p].kids /\ g.todo = frames[p].todo
  BY <1>1, CleanFrame
<1>3. frames' = [frames EXCEPT ![p] = g]
  OBVIOUS
<1> HIDE DEF g
<1>4. Shaped(p[1], g) /\ Explained(p, g)
  BY <1>1, <1>2 DEF Shaped, Explained
<1> QED
  BY <1>2, <1>3, <1>4, GroupTree

\* A group receives a decision, or sees that its context is done.
LEMMA CollectTree ==
    ASSUME Tree, NEW p \in Live, Receive(p) \/ SeeDone(p)
    PROVE  Tree'
<1> DEFINE f == frames[p]
           d == Head(f.chan)
           got == f.got \cup {d.from}
           g == [f EXCEPT !.got = got, !.chan = Tail(@)]
<1>1. f \in Frame /\ f.chan \in Seq(Decision) /\ Shaped(p[1], f) /\ Explained(p, f)
  BY AtNode DEF Frame
<1>2. CASE SeeDone(p)
  <2>1. /\ f.pc = "collect" /\ Done(p)
        /\ frames' = [frames EXCEPT ![p] = Clean(p, Failure("cancelled"))]
        /\ UNCHANGED <<asked, status, answer, cancelled, cache>>
    BY <1>2 DEF SeeDone, Frozen
  <2>2. Failure("cancelled") \in Response /\ Caused(p, Failure("cancelled"))
    BY <2>1, Responses DEF Err, Caused
  <2> QED
    BY <2>1, <2>2, CleanTree
<1>3. CASE Receive(p)
  <2>1. /\ f.pc = "collect" /\ f.chan # <<>>
        /\ UNCHANGED <<asked, status, answer, cancelled, cache>>
    BY <1>3 DEF Receive, Frozen
  <2>2. /\ d \in Decision /\ 1 \in 1 .. Len(f.chan) /\ d = f.chan[1]
        /\ Tail(f.chan) \in Seq(Decision)
        /\ \A i \in 1 .. Len(Tail(f.chan)) : i + 1 \in 1 .. Len(f.chan) /\ Tail(f.chan)[i] = f.chan[i + 1]
    BY <1>1, <2>1, HeadTailProperties
  <2>3. d.resp.can \in Can /\ d.resp.err \in Err /\ d.from \in Function /\ Caused(p, d.resp)
    BY <1>1, <2>2 DEF Decision, Response, Explained
  <2>4. CASE d.resp.err # "none"
    <3>1. frames' = [frames EXCEPT ![p] = Clean(p, Failure(d.resp.err))]
      BY <1>3, <2>4 DEF Receive
    <3>2. Failure(d.resp.err) \in Response /\ Caused(p, Failure(d.resp.err))
      BY <2>3, Responses DEF Caused
    <3> QED
      BY <2>1, <3>1, <3>2, CleanTree
  <2>5. CASE d.resp.err = "none" /\ (d.resp.can = Decisive(f.op) \/ got = f.kids)
    <3>1. frames' = [frames EXCEPT ![p] = Clean(p, Verdict(d.resp.can))]
      BY <1>3, <2>5 DEF Receive
    <3>2. Verdict(d.resp.can) \in Response /\ Caused(p, Verdict(d.resp.can))
      BY <2>3, Responses DEF Caused
    <3> QED
      BY <2>1, <3>1, <3>2, CleanTree
  <2>6. CASE d.resp.err = "none" /\ ~(d.resp.can = Decisive(f.op) \/ got = f.kids)
    <3>1. frames' = [frames EXCEPT ![p] = g]
      BY <1>3, <2>6 DEF Receive
    <3>2. got \subseteq Function
      BY <1>1, <2>3 DEF Frame
    <3>3. /\ g \in Frame /\ g.chan = Tail(f.chan) /\ g.pc = f.pc
          /\ g.kids = f.kids /\ g.todo = f.todo
      BY <1>1, <2>2, <3>2 DEF Frame
    <3> HIDE DEF g
    <3>4. \A i \in 1 .. Len(g.chan) : Caused(p, g.chan[i].resp)
      BY <1>1, <2>2, <3>3 DEF Explained
    <3>5. Shaped(p[1], g) /\ Explained(p, g) /\ g.pc # "eval" /\ frames[p].pc # "clean"
      BY <1>1, <2>1, <3>3, <3>4 DEF Shaped, Explained
    <3> QED
      BY <2>1, <3>1, <3>3, <3>5, GroupTree
  <2> QED
    BY <2>4, <2>5, <2>6
<1> QED
  BY <1>2, <1>3

\* What the spawner changes in the state of its group.
LEMMA FrameTodo ==
    ASSUME NEW f \in Frame, NEW todo \in SUBSET f.todo
    PROVE  LET g == [f EXCEPT !.todo = todo] IN
           /\ g \in Frame /\ g.pc = f.pc /\ g.kids = f.kids /\ g.todo = todo /\ g.op = f.op
           /\ g.got = f.got /\ g.chan = f.chan /\ g.resp = f.resp
  BY DEF Frame

\* The spawner starts a member of its group.
LEMMA SpawnTree ==
    ASSUME Tree, NEW p \in Live, NEW t \in frames[p].todo, Spawn(p, t)
    PROVE  Tree'
<1> DEFINE q == Append(p, t)
           g == [frames[p] EXCEPT !.todo = frames[p].todo \ {t}]
           base == [x \in Live |-> IF x = p THEN g ELSE frames[x]]
<1>1. /\ frames[p] \in Frame /\ Shaped(p[1], frames[p]) /\ Explained(p, frames[p])
      /\ p \in Seq(Request \cup Function) /\ Len(p) \in Nat /\ Len(p) > 1 /\ p[1] \in Request
  BY AtNode
<1>2. frames[p].pc # "eval" /\ t \in frames[p].kids /\ Made(p[1], t) /\ t \in Function
  BY <1>1 DEF Shaped, Made
<1>3. /\ q \in Seq(Request \cup Function) /\ Len(q) = Len(p) + 1 /\ Term(q) = t /\ Parent(q) = p
      /\ q[1] = p[1] /\ q # p
      /\ \A n \in 1 .. Len(p) : SubSeq(q, 1, n) = SubSeq(p, 1, n)
  BY <1>1, <1>2, ChildPath
<1>4. q \in Path /\ Len(q) > 2 /\ Len(q) # 2
  BY <1>1, <1>3 DEF Path
<1>5. q \notin Live
  BY <1>3, <1>4 DEF Tree, Linked
<1>6. /\ g \in Frame /\ g.pc = frames[p].pc /\ g.kids = frames[p].kids
      /\ g.todo = frames[p].todo \ {t} /\ g.chan = frames[p].chan /\ g.resp = frames[p].resp
  BY <1>1, FrameTodo
<1>7. Shaped(p[1], g) /\ Explained(p, g)
  <2> HIDE DEF g
  <2> QED
    BY <1>1, <1>2, <1>6 DEF Shaped, Explained
<1>8. frames' = [x \in Live \cup {q} |-> IF x = q THEN NewFrame ELSE base[x]]
  BY <1>5 DEF Spawn
<1>9. \A n \in 2 .. Len(q) - 1 : SubSeq(q, 1, n) \in Live
  <2> SUFFICES ASSUME NEW n \in 2 .. Len(q) - 1 PROVE SubSeq(q, 1, n) \in Live
    OBVIOUS
  <2>1. n \in 1 .. Len(p) /\ n \in 2 .. Len(p)
    BY <1>1, <1>3
  <2>2. SubSeq(p, 1, n) \in Live
    BY <2>1 DEF Tree, Linked
  <2> QED
    BY <1>3, <2>1, <2>2
<1>10. \A x \in Live : /\ base[x] \in Frame /\ Shaped(x[1], base[x]) /\ Explained(x, base[x])
                       /\ base[x].pc = frames[x].pc /\ base[x].kids = frames[x].kids
                       /\ base[x].todo \subseteq frames[x].todo
  <2> SUFFICES ASSUME NEW x \in Live
               PROVE  /\ base[x] \in Frame /\ Shaped(x[1], base[x]) /\ Explained(x, base[x])
                      /\ base[x].pc = frames[x].pc /\ base[x].kids = frames[x].kids
                      /\ base[x].todo \subseteq frames[x].todo
    OBVIOUS
  <2>1. CASE x = p
    <3>1. base[x] = g
      BY <2>1
    <3> HIDE DEF g, base
    <3> QED
      BY <2>1, <3>1, <1>6, <1>7
  <2>2. CASE x # p
    <3>1. base[x] = frames[x]
      BY <2>2
    <3> HIDE DEF base
    <3> QED
      BY <3>1, AtNode
  <2> QED
    BY <2>1, <2>2
<1>11. frames[Parent(q)].pc # "eval" /\ Term(q) \in frames[Parent(q)].kids \ base[Parent(q)].todo
  <2>1. base[p] = g
    OBVIOUS
  <2> HIDE DEF g, base
  <2> QED
    BY <2>1, <1>2, <1>3, <1>6
<1>12. /\ status' \in [Request -> {"idle", "running", "answered"}]
       /\ status'[q[1]] = "running"
       /\ \A r \in Request : status'[r] # status[r] => r = q[1]
       /\ UNCHANGED <<asked, answer, cancelled, cache>>
  BY <1>3 DEF Spawn, Frozen, Tree, TypeOK, Rooted
<1>13. DOMAIN base = Live
  OBVIOUS
<1>14. q[1] \in Request /\ Made(q[1], Term(q))
  BY <1>1, <1>2, <1>3
<1> HIDE DEF q, g, base
<1> QED
  BY <1>4, <1>5, <1>8, <1>9, <1>10, <1>11, <1>12, <1>13, <1>14, BirthTree

\* The spawner gives up.
LEMMA StopTree ==
    ASSUME Tree, NEW p \in Live, SpawnerStops(p)
    PROVE  Tree'
<1> DEFINE g == [frames[p] EXCEPT !.todo = {}]
<1>1. /\ frames[p].todo # {} /\ frames' = [frames EXCEPT ![p] = g]
      /\ UNCHANGED <<asked, status, answer, cancelled, cache>>
  BY DEF SpawnerStops, Frozen
<1>2. frames[p] \in Frame /\ Shaped(p[1], frames[p]) /\ Explained(p, frames[p])
  BY AtNode
<1>3. /\ g \in Frame /\ g.pc = frames[p].pc /\ g.kids = frames[p].kids /\ g.todo = {}
      /\ g.chan = frames[p].chan /\ g.resp = frames[p].resp
  <2>1. {} \in SUBSET frames[p].todo
    OBVIOUS
  <2> QED
    BY <1>2, <2>1, FrameTodo
<1> HIDE DEF g
<1>4. Shaped(p[1], g) /\ Explained(p, g) /\ g.pc # "eval"
  BY <1>1, <1>2, <1>3 DEF Shaped, Explained
<1> QED
  BY <1>1, <1>3, <1>4, GroupTree

\* A group is finished and its function returns.
LEMMA ReturnTree ==
    ASSUME Tree, NEW p \in Live, Return(p)
    PROVE  Tree'
<1> DEFINE t == Term(p)
           resp == frames[p].resp
           relation == t.fn = "execute" /\ KindOf(t.key) = "relation" /\ resp.err = "none"
           out == IF relation /\ t.sign = "neg" THEN Verdict(Flip(resp.can)) ELSE resp
<1>1. /\ frames[p].pc = "clean" /\ Children(p) = {}
      /\ cache' = IF relation THEN SetCheckKey(t.key, resp.can) ELSE cache
      /\ Reply(p, out) /\ UNCHANGED <<asked, cancelled>>
  BY DEF Return, Waited, Frozen
<1>2. frames[p] \in Frame /\ Explained(p, frames[p]) /\ t.key \in Key
  BY AtNode
<1>3. resp \in Response /\ resp.can \in Can /\ Caused(p, resp)
  BY <1>1, <1>2 DEF Frame, Response, Explained
<1>4. out \in Response /\ Caused(p, out)
  <2>1. CASE relation /\ t.sign = "neg"
    BY <1>3, <2>1, FlipType, Responses DEF Caused
  <2>2. CASE ~(relation /\ t.sign = "neg")
    BY <1>3, <2>2
  <2> QED
    BY <2>1, <2>2
<1>5. DOMAIN cache' \subseteq CacheKeys /\ \A q \in DOMAIN cache' : cache'[q] \in Can
  <2>1. CASE relation
    <3>1. cache' = SetCheckKey(t.key, resp.can) /\ TypeOK
      BY <1>1, <2>1 DEF Tree
    <3> QED
      BY <1>2, <1>3, <3>1, SetCheckKeyType
  <2>2. CASE ~relation
    BY <1>1, <2>2 DEF Tree, TypeOK
  <2> QED
    BY <2>1, <2>2
<1> HIDE DEF out
<1> QED
  BY <1>1, <1>4, <1>5, ReplyTree

\* Every step keeps the invariant.
LEMMA NextTree == Tree /\ [Next]_vars => Tree'
<1> SUFFICES ASSUME Tree, [Next]_vars PROVE Tree'
  OBVIOUS
<1>1. CASE \/ \E r \in Request : Start(r) \/ Cancel(r)
           \/ \E k \in DOMAIN cache : Evict(k)
  BY <1>1, EnvironmentTree
<1>2. CASE Run
  <2>1. PICK p \in Live : Step(p)
    BY <1>2 DEF Run
  <2>2. CASE \/ DepthExceeded(p) \/ UndefinedPermission(p) \/ RepositoryFails(p)
             \/ CacheHit(p) \/ DirectAnswer(p)
    BY <2>2, AnswerTree
  <2>3. CASE CacheMiss(p) \/ DirectUserSets(p) \/ NodeGroup(p)
    BY <2>3, OpenTree
  <2>4. CASE \E t \in frames[p].todo : Spawn(p, t)
    BY <2>4, SpawnTree
  <2>5. CASE SpawnerStops(p)
    BY <2>5, StopTree
  <2>6. CASE Receive(p) \/ SeeDone(p)
    BY <2>6, CollectTree
  <2>7. CASE Return(p)
    BY <2>7, ReturnTree
  <2> QED
    BY <2>1, <2>2, <2>3, <2>4, <2>5, <2>6, <2>7 DEF Step
<1>3. CASE UNCHANGED vars
  <2>1. /\ UNCHANGED <<asked, status, answer, cancelled, frames, cache>> /\ Live' = Live
        /\ TypeOK /\ Linked
    BY <1>3 DEF vars, Live, Tree
  <2>2. TypeOK' /\ Linked' /\ Rooted' /\ CancelHonest' /\ DepthHonest'
    BY <2>1 DEF Tree, TypeOK, Linked, Rooted, CancelHonest, DepthHonest, NeedsMore, Term, Parent
  <2>3. Grown'
    BY <2>1, AtNode, GrownStep
  <2>4. ErrorsExplained'
    <3>1. \A p \in Live' : p \in Live /\ Explained(p, frames'[p])
      BY <2>1, AtNode
    <3>2. cancelled \subseteq cancelled'
      BY <2>1
    <3> QED
      BY <2>1, <3>1, <3>2, CausesStay
  <2> QED
    BY <2>2, <2>3, <2>4 DEF Tree
<1> QED
  BY <1>1, <1>2, <1>3 DEF Next

(***************************************************************************)
(* The theorems.                                                           *)
(***************************************************************************)

\* The goroutines of concurrent checks form trees whose errors have a cause.
THEOREM TreeInvariance == Spec => []Tree
  BY InitTree, NextTree, PTL DEF Spec

\* The state of CheckCommand keeps its types, whatever the schema: the depth of
\* a nested request stays a natural number because Execute checks it first.
THEOREM TypeCorrect == Spec => []TypeOK
<1>1. Tree => TypeOK
  BY DEF Tree
<1> QED
  BY <1>1, TreeInvariance, PTL

\* checkUnion and checkIntersection leave no goroutine behind.
THEOREM GoroutinesEnd == Spec => []NoOrphans
<1>1. Tree => NoOrphans
  <2> SUFFICES ASSUME Tree, NEW p \in Live
               PROVE  /\ status[p[1]] = "running"
                      /\ Len(p) > 2 => Parent(p) \in Live /\ frames[Parent(p)].pc # "eval"
    BY DEF NoOrphans
  <2>1. status[p[1]] = "running"
    BY DEF Tree, Rooted
  <2>2. ASSUME Len(p) > 2 PROVE Parent(p) \in Live /\ frames[Parent(p)].pc # "eval"
    <3>1. Len(p) \in Nat
      BY AtNode
    <3>2. Len(p) - 1 \in 2 .. Len(p)
      BY <2>2, <3>1
    <3> QED
      BY <2>2, <3>2 DEF Tree, Linked, Parent
  <2> QED
    BY <2>1, <2>2
<1> QED
  BY <1>1, TreeInvariance, PTL

\* A client that did not cancel never receives ERROR_CODE_CANCELLED: the cancel()
\* of a group that has its answer is only seen below that group.
THEOREM CancelHonestHolds == Spec => []CancelHonest
<1>1. Tree => CancelHonest
  BY DEF Tree
<1> QED
  BY <1>1, TreeInvariance, PTL

\* A check is refused for its depth only if the schema and the tuples lead that
\* many nested requests down from it.
THEOREM DepthHonestHolds == Spec => []DepthHonest
<1>1. Tree => DepthHonest
  BY DEF Tree
<1> QED
  BY <1>1, TreeInvariance, PTL

-----------------------------------------------------------------------------
(***************************************************************************)
(* Progress.  Whether a goroutine can go on: the guards of Step, in its    *)
(* order.  RepositoryFails is an alternative to other steps of the same    *)
(* goroutine, so that nobody depends on it.                                *)
(***************************************************************************)
CanStep(p) ==
    LET t == Term(p)
        k == Term(p).key
        f == frames[p] IN
    \/ Evaluating(p, "execute") /\ t.depth = 0
    \/ Evaluating(p, "execute") /\ t.depth # 0 /\ KindOf(k) = "undefined"
    \/ /\ Evaluating(p, "execute") /\ t.depth # 0
       /\ KindOf(k) = "relation" /\ CacheKey(k) \in DOMAIN cache
    \/ /\ Evaluating(p, "execute") /\ t.depth # 0
       /\ \/ KindOf(k) = "action"
          \/ KindOf(k) = "relation" /\ CacheKey(k) \notin DOMAIN cache
    \/ Evaluating(p, "direct") /\ (k.subject \in Subjects(k) \/ UserSets(k) = {})
    \/ Evaluating(p, "direct") /\ k.subject \notin Subjects(k) /\ UserSets(k) # {}
    \/ Evaluating(p, "node")
    \/ f.todo # {} /\ Cardinality(Children(p)) < Limit
    \/ f.todo # {} /\ (f.pc = "clean" \/ Done(p))
    \/ f.pc = "collect" /\ f.chan # <<>>
    \/ f.pc = "collect" /\ Done(p)
    \/ f.pc = "clean" /\ Waited(p)

\* A check that has not answered has a goroutine of its own that can go on,
\* whatever the concurrency limit and whatever the other requests do: the
\* semaphores, the channels, cancel() and clean() of a tree of groups never all
\* wait for one another.
NobodyStuck ==
    \A r \in Request :
        status[r] = "running" => \E p \in Live : p[1] = r /\ CanStep(p)

\* The functions whose decision is in the channel, and those that are running.
Sent(f) == {f.chan[i].from : i \in 1 .. Len(f.chan)}
Started(p) == {Term(q) : q \in Children(p)}

\* A group that collects lacks a decision, and every member it lacks is waiting
\* for the spawner, running, or in the channel, unless the context is done.
Accounted(f, done, started) ==
    f.pc = "collect" =>
        /\ f.got \subseteq f.kids /\ f.got # f.kids /\ Sent(f) \subseteq f.kids
        /\ done \/ f.kids \subseteq f.todo \cup started \cup Sent(f) \cup f.got

Members == \A p \in Live : Accounted(frames[p], Done(p), Started(p))

\* A check that runs has its first goroutine, and no goroutine is infinitely deep.
Began == \A r \in Request : status[r] = "running" => <<r, asked[r]>> \in Live
Bounded == \E n \in Nat : \A p \in Live : Len(p) <= n

Groups == Members /\ Began /\ Bounded

-----------------------------------------------------------------------------
\* Every set of numbers has a least one.
LEMMA Least ==
    ASSUME NEW S, S \subseteq Nat, S # {}
    PROVE  \E k \in S : \A j \in S : k <= j
<1>1. PICK k \in S : \A j \in S : ~(<<j, k>> \in OpToRel(<, Nat))
  BY WFMin, NatLessThanWellFounded, Zenon
<1>2. ASSUME NEW j \in S PROVE k <= j
  <2>1. ~(j < k)
    BY <1>1 DEF OpToRel
  <2> QED
    BY <2>1
<1> QED
  BY <1>2

\* More members that run, or a context that is done, explain no less.
LEMMA AccountedMore ==
    ASSUME NEW f, NEW done \in BOOLEAN, NEW later \in BOOLEAN, NEW S, NEW T,
           Accounted(f, done, S), done => later, S \subseteq T
    PROVE  Accounted(f, later, T)
  BY DEF Accounted

\* Whether a step keeps the accounts of all groups, from what it does to each.
LEMMA MembersStep ==
    ASSUME Tree, cancelled \subseteq cancelled',
           \A q \in Live : frames[q].pc = "clean" /\ Children(q) # {} =>
                                q \in Live' /\ frames'[q].pc = "clean",
           \A q \in Live' : \/ frames'[q].pc # "collect"
                            \/ q \in Live /\ Accounted(frames'[q], Done(q), Started(q)')
    PROVE  Members'
<1> SUFFICES ASSUME NEW q \in Live' PROVE Accounted(frames'[q], Done(q)', Started(q)')
  BY DEF Members
<1>1. CASE frames'[q].pc # "collect"
  BY <1>1 DEF Accounted
<1>2. CASE q \in Live /\ Accounted(frames'[q], Done(q), Started(q)')
  <2>1. Done(q) => Done(q)'
    <3>1. TypeOK /\ Linked
      BY DEF Tree
    <3> QED
      BY <1>2, <3>1, DoneStays
  <2>2. Done(q) \in BOOLEAN /\ Done(q)' \in BOOLEAN
    BY DEF Done
  <2> QED
    BY <1>2, <2>1, <2>2, AccountedMore
<1> QED
  BY <1>1, <1>2

\* Goroutines that neither come nor go have the same children.
LEMMA SameChildren == ASSUME Live' = Live PROVE \A p : Children(p)' = Children(p) /\ Started(p)' = Started(p)
  BY DEF Children, Started, Parent, Term

\* A step that only changes the state of one goroutine.
LEMMA GroupMembers ==
    ASSUME Tree, Groups, NEW p \in Live, NEW f,
           frames' = [frames EXCEPT ![p] = f],
           frames[p].pc = "clean" => f.pc = "clean",
           Accounted(f, Done(p), Started(p)),
           UNCHANGED <<asked, status, cancelled>>
    PROVE  Groups'
<1>1. Live' = Live /\ frames'[p] = f /\ \A q \in Live : q # p => frames'[q] = frames[q]
  BY DEF Live
<1>2. \A q : Started(q)' = Started(q)
  BY <1>1, SameChildren
<1>3. ASSUME NEW q \in Live' PROVE q \in Live /\ Accounted(frames'[q], Done(q), Started(q)')
  <2>1. CASE q = p
    BY <1>1, <1>2, <2>1
  <2>2. CASE q # p
    BY <1>1, <1>2, <2>2 DEF Groups, Members
  <2> QED
    BY <1>1, <2>1, <2>2
<1>4. \A q \in Live : frames[q].pc = "clean" /\ Children(q) # {} =>
                          q \in Live' /\ frames'[q].pc = "clean"
  BY <1>1
<1>5. Members'
  BY <1>3, <1>4, MembersStep
<1>6. Began' /\ Bounded'
  BY <1>1 DEF Groups, Began, Bounded
<1> QED
  BY <1>5, <1>6 DEF Groups

\* A goroutine ends: its decision takes its place in the accounts of its group.
LEMMA ReplyMembers ==
    ASSUME Tree, Groups, NEW p \in Live, Children(p) = {}, NEW resp, Reply(p, resp),
           UNCHANGED <<asked, cancelled>>
    PROVE  Groups'
<1>1. p \in Seq(Request \cup Function) /\ Len(p) \in Nat /\ Len(p) > 1
      /\ p[1] \in Request /\ Term(p) \in Function
  BY AtNode
<1>2. Live' = Live \ {p}
  BY DEF Reply, Live
<1>3. ASSUME NEW q \in Live'
      PROVE  /\ q \in Live /\ q # p
             /\ \/ frames'[q] = frames[q] /\ (q = Parent(p) => frames[q].pc # "collect")
                \/ /\ q = Parent(p) /\ Len(p) # 2 /\ frames[q].pc = "collect"
                   /\ frames'[q] = [frames[q] EXCEPT
                         !.chan = Append(@, [from |-> Term(p), resp |-> resp])]
  <2>1. q \in Live \ {p}
    BY <1>2
  <2>2. CASE Len(p) = 2
    <3>1. q # Parent(p)
      <4>1. Len(q) # 1
        <5>1. Len(q) \in Nat /\ Len(q) > 1
          BY <2>1, AtNode
        <5> QED
          BY <5>1, MoreThanOne
      <4>2. Len(Parent(p)) = 1
        BY <1>1, <2>2 DEF Parent
      <4> QED
        BY <4>1, <4>2, Zenon
    <3> QED
      BY <2>1, <2>2, <3>1 DEF Reply
  <2>3. CASE Len(p) # 2
    BY <2>1, <2>3 DEF Reply
  <2> QED
    BY <2>1, <2>2, <2>3
<1>4. ASSUME NEW q \in Live', frames'[q].pc = "collect"
      PROVE  Accounted(frames'[q], Done(q), Started(q)')
  <2>1. q \in Live /\ frames[q] \in Frame /\ Accounted(frames[q], Done(q), Started(q))
    BY <1>3, AtNode DEF Groups, Members
  <2>2. CASE q # Parent(p)
    <3>1. frames'[q] = frames[q]
      BY <1>3, <2>2
    <3>2. Children(q)' = Children(q)
      BY <1>2, <2>2 DEF Children, Parent
    <3>3. Started(q)' = Started(q)
      BY <3>2 DEF Started, Term
    <3> QED
      BY <2>1, <3>1, <3>3
  <2>3. CASE q = Parent(p)
    <3> DEFINE d == [from |-> Term(p), resp |-> resp]
               f == frames[q]
               g == frames'[q]
               c == Append(f.chan, d)
    <3>1. f.pc = "collect" /\ Len(p) # 2 /\ g = [f EXCEPT !.chan = c]
      BY <1>3, <1>4, <2>3
    <3>2. f.chan \in Seq(Decision) /\ d.from = Term(p)
      BY <2>1 DEF Frame
    <3>3. /\ g.chan = c /\ g.pc = f.pc /\ g.kids = f.kids /\ g.got = f.got /\ g.todo = f.todo
      <4> HIDE DEF c
      <4> QED
        BY <2>1, <3>1 DEF Frame
    <3>4. Sent(g) = Sent(f) \cup {Term(p)}
      <4>1. /\ Len(c) = Len(f.chan) + 1 /\ Len(f.chan) \in Nat
            /\ c[Len(f.chan) + 1] = d /\ \A i \in 1 .. Len(f.chan) : c[i] = f.chan[i]
        <5> HIDE DEF d
        <5> QED
          BY <3>2
      <4>2. 1 .. Len(c) = (1 .. Len(f.chan)) \cup {Len(f.chan) + 1}
        BY <4>1
      <4> HIDE DEF c, d
      <4>3. ASSUME NEW x \in Sent(g) PROVE x \in Sent(f) \cup {Term(p)}
        BY <3>2, <3>3, <4>1, <4>2 DEF Sent
      <4>4. ASSUME NEW x \in Sent(f) \cup {Term(p)} PROVE x \in Sent(g)
        BY <3>2, <3>3, <4>1, <4>2 DEF Sent
      <4> QED
        BY <4>3, <4>4
    <3>5. Started(q) \subseteq Started(q)' \cup {Term(p)}
      <4>1. Children(q) \subseteq Children(q)' \cup {p}
        BY <1>2 DEF Children, Parent
      <4> QED
        BY <4>1 DEF Started, Term
    <3>6. Term(p) \in f.kids
      <4>1. Len(p) > 2
        BY <1>1, <3>1, MoreThanTwo
      <4> QED
        BY <2>3, <4>1 DEF Tree, Linked
    <3> HIDE DEF f, g
    <3>7. Accounted(f, Done(q), Started(q))
      BY <2>1 DEF f
    <3>8. Accounted(g, Done(q), Started(q)')
      BY <3>1, <3>3, <3>4, <3>5, <3>6, <3>7 DEF Accounted
    <3> QED
      BY <3>8 DEF g
  <2> QED
    BY <2>2, <2>3
<1>5. \A q \in Live : frames[q].pc = "clean" /\ Children(q) # {} =>
                          q \in Live' /\ frames'[q].pc = "clean"
  <2> SUFFICES ASSUME NEW q \in Live, frames[q].pc = "clean", Children(q) # {}
               PROVE  q \in Live' /\ frames'[q].pc = "clean"
    OBVIOUS
  <2>1. q \in Live'
    BY <1>2
  <2> QED
    BY <1>3, <2>1
<1>6. Members'
  BY <1>3, <1>4, <1>5, MembersStep
<1>7. Bounded'
  BY <1>2 DEF Groups, Bounded
<1>8. Began'
  <2> SUFFICES ASSUME NEW r \in Request, status'[r] = "running"
               PROVE  <<r, asked[r]>> \in Live'
    BY DEF Began
  <2>1. status[r] = "running" /\ (Len(p) = 2 => r # p[1])
    BY DEF Reply, Tree, TypeOK
  <2>2. <<r, asked[r]>> \in Live
    BY <2>1 DEF Groups, Began
  <2>3. <<r, asked[r]>> # p
    <3>1. Len(<<r, asked[r]>>) = 2 /\ <<r, asked[r]>>[1] = r
      OBVIOUS
    <3> QED
      BY <2>1, <3>1
  <2> QED
    BY <1>2, <2>2, <2>3
<1> QED
  BY <1>6, <1>7, <1>8 DEF Groups

\* A goroutine is started: q is its path, base what it does to the others.
LEMMA BirthMembers ==
    ASSUME Tree, Groups, NEW q \in Path, q \notin Live, NEW base,
           frames' = [x \in Live \cup {q} |-> IF x = q THEN NewFrame ELSE base[x]],
           \A x \in Live : base[x].pc = frames[x].pc,
           \A x \in Live : Accounted(base[x], Done(x), Started(x)'),
           UNCHANGED <<asked, cancelled>>,
           \A r \in Request : status'[r] = "running" => status[r] = "running" \/ q = <<r, asked[r]>>
    PROVE  Groups'
<1>1. Live' = Live \cup {q} /\ frames'[q] = NewFrame /\ \A x \in Live : frames'[x] = base[x]
  BY DEF Live
<1>2. NewFrame.pc = "eval"
  BY DEF NewFrame, Idle
<1>3. ASSUME NEW x \in Live'
      PROVE  \/ frames'[x].pc # "collect"
             \/ x \in Live /\ Accounted(frames'[x], Done(x), Started(x)')
  BY <1>1, <1>2
<1>4. \A x \in Live : frames[x].pc = "clean" /\ Children(x) # {} =>
                          x \in Live' /\ frames'[x].pc = "clean"
  BY <1>1
<1>5. Members'
  BY <1>3, <1>4, MembersStep
<1>6. Bounded'
  <2>1. PICK n \in Nat : \A x \in Live : Len(x) <= n
    BY DEF Groups, Bounded
  <2>2. Len(q) \in Nat
    BY DEF Path
  <2>3. \A x \in Live : Len(x) \in Nat
    BY AtNode
  <2>4. n + Len(q) \in Nat /\ \A x \in Live' : Len(x) <= n + Len(q)
    BY <1>1, <2>1, <2>2, <2>3
  <2> QED
    BY <2>4 DEF Bounded
<1>7. Began'
  BY <1>1 DEF Groups, Began
<1> QED
  BY <1>5, <1>6, <1>7 DEF Groups

\* A client calls.
LEMMA StartMembers ==
    ASSUME Tree, Groups, NEW r \in Request, Start(r)
    PROVE  Groups'
<1> DEFINE q == <<r, asked[r]>>
<1>1. asked[r] \in Function
  BY AsksFunctions DEF Tree, TypeOK
<1>2. q \in Seq(Request \cup Function) /\ Len(q) = 2 /\ q[1] = r /\ q \in Path
  BY <1>1 DEF Path
<1>3. q \notin Live
  BY <1>2 DEF Start, Tree, Rooted
<1>4. frames' = [x \in Live \cup {q} |-> IF x = q THEN NewFrame ELSE frames[x]]
  BY DEF Start
<1>5. UNCHANGED <<asked, cancelled>>
      /\ \A s \in Request : status'[s] = "running" => status[s] = "running" \/ q = <<s, asked[s]>>
  BY DEF Start, Tree, TypeOK
<1>6. ASSUME NEW x \in Live PROVE Accounted(frames[x], Done(x), Started(x)')
  <2>1. Live \subseteq Live'
    BY <1>4 DEF Live
  <2>2. Started(x) \subseteq Started(x)'
    BY <2>1 DEF Started, Children, Parent, Term
  <2>3. Done(x) \in BOOLEAN /\ Accounted(frames[x], Done(x), Started(x))
    BY DEF Groups, Members, Done
  <2> QED
    BY <2>2, <2>3, AccountedMore
<1> HIDE DEF q
<1> QED
  BY <1>2, <1>3, <1>4, <1>5, <1>6, BirthMembers

\* The spawner starts a member.
LEMMA SpawnMembers ==
    ASSUME Tree, Groups, NEW p \in Live, NEW t \in frames[p].todo, Spawn(p, t)
    PROVE  Groups'
<1> DEFINE q == Append(p, t)
           g == [frames[p] EXCEPT !.todo = frames[p].todo \ {t}]
           base == [x \in Live |-> IF x = p THEN g ELSE frames[x]]
<1>1. /\ frames[p] \in Frame /\ Shaped(p[1], frames[p])
      /\ p \in Seq(Request \cup Function) /\ Len(p) \in Nat /\ Len(p) > 1
  BY AtNode
<1>2. t \in frames[p].kids /\ t \in Function
  BY <1>1 DEF Shaped, Made
<1>3. /\ q \in Seq(Request \cup Function) /\ Len(q) = Len(p) + 1 /\ Term(q) = t /\ Parent(q) = p
  BY <1>1, <1>2, ChildPath
<1>4. q \in Path /\ Len(q) > 2
  BY <1>1, <1>3 DEF Path
<1>5. q \notin Live
  BY <1>3, <1>4 DEF Tree, Linked
<1>6. /\ g.pc = frames[p].pc /\ g.kids = frames[p].kids /\ g.got = frames[p].got
      /\ g.todo = frames[p].todo \ {t} /\ g.chan = frames[p].chan
  BY <1>1, FrameTodo
<1>7. frames' = [x \in Live \cup {q} |-> IF x = q THEN NewFrame ELSE base[x]]
  BY <1>5 DEF Spawn
<1>8. Live' = Live \cup {q}
  BY <1>7 DEF Live
<1>9. \A x : Started(x) \subseteq Started(x)'
  BY <1>8 DEF Started, Children, Parent, Term
<1>10. t \in Started(p)'
  <2>1. q \in Children(p)'
    BY <1>3, <1>8 DEF Children, Parent
  <2> QED
    BY <1>3, <2>1 DEF Started, Term
<1>11. ASSUME NEW x \in Live
       PROVE  base[x].pc = frames[x].pc /\ Accounted(base[x], Done(x), Started(x)')
  <2>1. Done(x) \in BOOLEAN /\ Accounted(frames[x], Done(x), Started(x))
    BY DEF Groups, Members, Done
  <2>2. CASE x = p
    <3>1. base[x] = g
      BY <2>2
    <3> HIDE DEF base, g
    <3>2. Sent(g) = Sent(frames[p])
      BY <1>6 DEF Sent
    <3> QED
      BY <1>6, <1>9, <1>10, <2>1, <2>2, <3>1, <3>2 DEF Accounted
  <2>3. CASE x # p
    <3>1. base[x] = frames[x]
      BY <2>3
    <3> HIDE DEF base
    <3> QED
      BY <1>9, <2>1, <3>1, AccountedMore
  <2> QED
    BY <2>2, <2>3
<1>12. UNCHANGED <<asked, cancelled, status>>
  BY DEF Spawn, Frozen
<1> HIDE DEF q, g, base
<1> QED
  BY <1>4, <1>5, <1>7, <1>11, <1>12, BirthMembers

\* A group is opened with all its members waiting, and never without any.
LEMMA OpenMembers ==
    ASSUME Tree, Groups, NEW p \in Live, NEW op, NEW kids, kids # {},
           frames[p].pc = "eval", Open(p, op, kids), UNCHANGED <<asked, status, cancelled>>
    PROVE  Groups'
<1> DEFINE f == Idle(op, kids, "collect")
<1>1. f.pc = "collect" /\ f.kids = kids /\ f.todo = kids /\ f.got = {} /\ f.chan = <<>>
  BY DEF Idle
<1>2. frames' = [frames EXCEPT ![p] = f]
  BY DEF Open
<1> HIDE DEF f
<1>3. Sent(f) = {}
  BY <1>1 DEF Sent
<1>4. Accounted(f, Done(p), Started(p))
  BY <1>1, <1>3 DEF Accounted
<1> QED
  BY <1>1, <1>2, <1>4, GroupMembers

\* A group that cleans up is not in want of a decision any more.
LEMMA CleanMembers ==
    ASSUME Tree, Groups, NEW p \in Live, frames[p].pc = "collect", NEW resp,
           frames' = [frames EXCEPT ![p] = Clean(p, resp)],
           UNCHANGED <<asked, status, cancelled>>
    PROVE  Groups'
<1> DEFINE g == Clean(p, resp)
<1>1. g.pc = "clean"
  BY AtNode DEF Clean, Frame
<1>2. frames' = [frames EXCEPT ![p] = g]
  OBVIOUS
<1> HIDE DEF g
<1>3. Accounted(g, Done(p), Started(p))
  BY <1>1 DEF Accounted
<1> QED
  BY <1>1, <1>2, <1>3, GroupMembers

\* A decision that settles nothing: it was not the last one.
LEMMA ReceiveMembers ==
    ASSUME Tree, Groups, NEW p \in Live, Receive(p)
    PROVE  Groups'
<1> DEFINE f == frames[p]
           d == Head(f.chan)
           got == f.got \cup {d.from}
           g == [f EXCEPT !.got = got, !.chan = Tail(@)]
<1>1. f \in Frame /\ f.chan \in Seq(Decision)
  BY AtNode DEF Frame
<1>2. f.pc = "collect" /\ f.chan # <<>> /\ UNCHANGED <<asked, status, cancelled>>
  BY DEF Receive, Frozen
<1>3. CASE d.resp.err # "none"
  BY <1>2, <1>3, CleanMembers DEF Receive
<1>4. CASE d.resp.err = "none" /\ (d.resp.can = Decisive(f.op) \/ got = f.kids)
  BY <1>2, <1>4, CleanMembers DEF Receive
<1>5. CASE d.resp.err = "none" /\ ~(d.resp.can = Decisive(f.op) \/ got = f.kids)
  <2>1. frames' = [frames EXCEPT ![p] = g] /\ got # f.kids
    BY <1>5 DEF Receive
  <2>2. /\ Len(f.chan) \in Nat /\ 1 \in 1 .. Len(f.chan) /\ d = f.chan[1]
        /\ Len(Tail(f.chan)) = Len(f.chan) - 1
        /\ \A i \in 1 .. Len(Tail(f.chan)) : Tail(f.chan)[i] = f.chan[i + 1]
    BY <1>1, <1>2, HeadTailProperties
  <2>3. g.got = got /\ g.chan = Tail(f.chan) /\ g.pc = f.pc /\ g.kids = f.kids /\ g.todo = f.todo
    BY <1>1 DEF Frame
  <2> HIDE DEF g
  <2>4. ASSUME NEW x \in Sent(f) PROVE x \in Sent(g) \cup {d.from}
    <3>1. PICK i \in 1 .. Len(f.chan) : x = f.chan[i].from
      BY DEF Sent
    <3>2. CASE i = 1
      BY <2>2, <3>1, <3>2
    <3>3. CASE i # 1
      <4>1. i - 1 \in 1 .. Len(Tail(f.chan)) /\ Tail(f.chan)[i - 1] = f.chan[i]
        <5>1. i - 1 \in 1 .. Len(Tail(f.chan)) /\ (i - 1) + 1 = i
          BY <2>2, <3>1, <3>3
        <5> QED
          BY <2>2, <5>1
      <4> QED
        BY <2>3, <3>1, <4>1 DEF Sent
    <3> QED
      BY <3>2, <3>3
  <2>5. ASSUME NEW x \in Sent(g) PROVE x \in Sent(f)
    <3>1. PICK i \in 1 .. Len(Tail(f.chan)) : x = Tail(f.chan)[i].from
      BY <2>3 DEF Sent
    <3>2. i + 1 \in 1 .. Len(f.chan) /\ Tail(f.chan)[i] = f.chan[i + 1]
      BY <2>2, <3>1
    <3> QED
      BY <3>1, <3>2 DEF Sent
  <2>6. d.from \in Sent(f)
    BY <2>2 DEF Sent
  <2>7. Accounted(f, Done(p), Started(p))
    BY DEF Groups, Members
  <2> HIDE DEF f, d
  <2>8. Accounted(g, Done(p), Started(p))
    BY <1>2, <2>1, <2>3, <2>4, <2>5, <2>6, <2>7 DEF Accounted
  <2>9. frames[p].pc = "clean" => g.pc = "clean"
    BY <1>2 DEF f
  <2> QED
    BY <1>2, <2>1, <2>8, <2>9, GroupMembers
<1> QED
  BY <1>3, <1>4, <1>5

\* Every step keeps the accounts.
LEMMA NextGroups == Tree /\ Groups /\ [Next]_vars => Groups'
<1> SUFFICES ASSUME Tree, Groups, [Next]_vars PROVE Groups'
  OBVIOUS
<1>1. ASSUME NEW r \in Request, Start(r) PROVE Groups'
  BY <1>1, StartMembers
<1>2. ASSUME UNCHANGED <<asked, status, frames>>, cancelled \subseteq cancelled' PROVE Groups'
  <2>1. Live' = Live
    BY <1>2 DEF Live
  <2>2. \A q : Started(q)' = Started(q)
    BY <2>1, SameChildren
  <2>3. ASSUME NEW q \in Live'
        PROVE  q \in Live /\ Accounted(frames'[q], Done(q), Started(q)')
    BY <1>2, <2>1, <2>2 DEF Groups, Members
  <2>4. \A q \in Live : frames[q].pc = "clean" /\ Children(q) # {} =>
                            q \in Live' /\ frames'[q].pc = "clean"
    BY <1>2, <2>1
  <2>5. Members'
    BY <1>2, <2>3, <2>4, MembersStep
  <2> QED
    BY <1>2, <2>1, <2>5 DEF Groups, Began, Bounded
<1>3. CASE (\E r \in Request : Cancel(r)) \/ (\E k \in DOMAIN cache : Evict(k)) \/ UNCHANGED vars
  BY <1>2, <1>3 DEF Cancel, Evict, vars
<1>4. ASSUME NEW p \in Live, Step(p) PROVE Groups'
  <2>1. ASSUME NEW resp, frames[p].pc = "eval", Reply(p, resp), UNCHANGED <<asked, cancelled>>
        PROVE  Groups'
    BY <2>1, AtNode, ReplyMembers
  <2>2. CASE DepthExceeded(p) \/ UndefinedPermission(p) \/ RepositoryFails(p)
    BY <2>1, <2>2 DEF DepthExceeded, UndefinedPermission, RepositoryFails, Evaluating, Frozen
  <2>3. CASE CacheHit(p)
    <3>1. \E resp : Reply(p, resp)
      BY <2>3 DEF CacheHit
    <3>2. frames[p].pc = "eval" /\ UNCHANGED <<asked, cancelled>>
      BY <2>3 DEF CacheHit, Evaluating, Frozen
    <3> QED
      BY <2>1, <3>1, <3>2
  <2>4. CASE DirectAnswer(p)
    <3>1. \E resp : Reply(p, resp)
      BY <2>4 DEF DirectAnswer
    <3>2. frames[p].pc = "eval" /\ UNCHANGED <<asked, cancelled>>
      BY <2>4 DEF DirectAnswer, Evaluating, Frozen
    <3> QED
      BY <2>1, <3>1, <3>2
  <2>5. CASE CacheMiss(p)
    <3>1. /\ {CheckFunctionOf(Term(p))} # {} /\ frames[p].pc = "eval"
          /\ Open(p, "union", {CheckFunctionOf(Term(p))}) /\ UNCHANGED <<asked, status, cancelled>>
      BY <2>5 DEF CacheMiss, Evaluating, Frozen
    <3> QED
      BY <3>1, OpenMembers
  <2>6. CASE DirectUserSets(p)
    <3>1. /\ UserSets(Term(p).key) # {} /\ frames[p].pc = "eval"
          /\ Open(p, "union", UserSetFunctions(Term(p))) /\ UNCHANGED <<asked, status, cancelled>>
      BY <2>6 DEF DirectUserSets, Evaluating, Frozen
    <3>2. UserSetFunctions(Term(p)) # {}
      BY <3>1 DEF UserSetFunctions
    <3> QED
      BY <3>1, <3>2, OpenMembers
  <2>7. CASE NodeGroup(p)
    <3>1. frames[p].pc = "eval" /\ UNCHANGED <<asked, cancelled>>
      BY <2>7 DEF NodeGroup, Evaluating, Frozen
    <3>2. CASE NodeFunctions(Term(p)) = {}
      BY <2>1, <2>7, <3>1, <3>2 DEF NodeGroup
    <3>3. CASE NodeFunctions(Term(p)) # {}
      <4>1. Open(p, NodeOp(Term(p)), NodeFunctions(Term(p))) /\ UNCHANGED status
        BY <2>7, <3>3 DEF NodeGroup
      <4> QED
        BY <3>1, <3>3, <4>1, OpenMembers
    <3> QED
      BY <3>2, <3>3
  <2>8. CASE \E t \in frames[p].todo : Spawn(p, t)
    BY <2>8, SpawnMembers
  <2>9. CASE SpawnerStops(p)
    <3> DEFINE g == [frames[p] EXCEPT !.todo = {}]
    <3>1. /\ frames' = [frames EXCEPT ![p] = g] /\ (frames[p].pc = "clean" \/ Done(p))
          /\ UNCHANGED <<asked, status, cancelled>>
      BY <2>9 DEF SpawnerStops, Frozen
    <3>2. g.pc = frames[p].pc /\ g.kids = frames[p].kids /\ g.got = frames[p].got
          /\ g.chan = frames[p].chan
      BY AtNode DEF Frame
    <3>3. Accounted(frames[p], Done(p), Started(p))
      BY DEF Groups, Members
    <3> HIDE DEF g
    <3>4. Sent(g) = Sent(frames[p])
      BY <3>2 DEF Sent
    <3>5. Accounted(g, Done(p), Started(p))
      BY <3>1, <3>2, <3>3, <3>4 DEF Accounted
    <3> QED
      BY <3>1, <3>2, <3>5, GroupMembers
  <2>10. CASE Receive(p)
    BY <2>10, ReceiveMembers
  <2>11. CASE SeeDone(p)
    BY <2>11, CleanMembers DEF SeeDone, Frozen
  <2>12. CASE Return(p)
    <3>1. \E resp : Reply(p, resp)
      BY <2>12 DEF Return
    <3>2. Children(p) = {} /\ UNCHANGED <<asked, cancelled>>
      BY <2>12 DEF Return, Waited, Frozen
    <3> QED
      BY <3>1, <3>2, ReplyMembers
  <2> QED
    BY <1>4, <2>2, <2>3, <2>4, <2>5, <2>6, <2>7, <2>8, <2>9, <2>10, <2>11, <2>12 DEF Step
<1> QED
  BY <1>1, <1>3, <1>4 DEF Next, Run

\* A goroutine that waits for nobody can go on.
LEMMA LeafCanStep ==
    ASSUME Tree, Groups, NEW p \in Live, Children(p) = {}
    PROVE  CanStep(p)
<1> DEFINE t == Term(p)
           f == frames[p]
<1>1. /\ t \in Function /\ t.key \in Key /\ f \in Frame /\ Shaped(p[1], f)
      /\ f.pc \in {"eval", "collect", "clean"} /\ t.fn \in {"execute", "direct", "node"}
  BY AtNode DEF Frame, Function
<1>2. Cardinality(Children(p)) < Limit /\ Started(p) = {}
  BY FS_EmptySet, ConstantsAssumption DEF Started
<1>3. CASE f.pc = "eval"
  <2>1. KindOf(t.key) \in {"relation", "action", "undefined"}
    BY <1>1, ConstantsAssumption DEF KindOf, Key
  <2> QED
    BY <1>1, <1>3, <2>1 DEF CanStep, Evaluating
<1>4. CASE f.pc = "clean"
  BY <1>4 DEF CanStep, Waited
<1>5. CASE f.pc = "collect"
  <2>1. CASE f.todo # {}
    BY <1>2, <2>1 DEF CanStep
  <2>2. CASE Done(p)
    BY <1>5, <2>2 DEF CanStep
  <2>3. CASE f.todo = {} /\ ~Done(p)
    <3>1. Accounted(f, Done(p), Started(p))
      BY DEF Groups, Members
    <3>2. Sent(f) # {}
      BY <1>2, <1>5, <2>3, <3>1 DEF Accounted
    <3>3. f.chan # <<>>
      BY <3>2 DEF Sent
    <3> QED
      BY <1>5, <3>3 DEF CanStep
  <2> QED
    BY <2>1, <2>2, <2>3
<1> QED
  BY <1>1, <1>3, <1>4, <1>5

\* A check that runs has a goroutine at the end of one of its paths.
LEMMA LeafExists ==
    ASSUME Tree, Groups, NEW r \in Request, status[r] = "running"
    PROVE  \E p \in Live : p[1] = r /\ Children(p) = {}
<1> DEFINE Mine == {p \in Live : p[1] = r}
           Bounds == {n \in Nat : \A p \in Mine : Len(p) <= n}
<1>1. <<r, asked[r]>> \in Mine
  BY DEF Groups, Began
<1>2. Bounds # {} /\ Bounds \subseteq Nat
  BY DEF Groups, Bounded
<1>3. PICK n \in Bounds : \A m \in Bounds : n <= m
  BY <1>2, Least
<1>4. \A p \in Mine : Len(p) \in Nat /\ Len(p) > 1 /\ Len(p) <= n
  BY <1>3, AtNode
<1>5. n \in Nat
  BY <1>2, <1>3
<1>6. \E p \in Mine : Len(p) = n
  <2> SUFFICES ASSUME \A p \in Mine : Len(p) # n PROVE FALSE
    OBVIOUS
  <2>1. n > 1
    BY <1>1, <1>4, <1>5
  <2>2. \A p \in Mine : Len(p) <= n - 1
    BY <1>4, <1>5
  <2>3. n - 1 \in Bounds
    BY <1>5, <2>1, <2>2
  <2> HIDE DEF Bounds
  <2>4. n <= n - 1
    BY <1>3, <2>3
  <2> QED
    BY <1>5, <2>4
<1>7. PICK p \in Mine : Len(p) = n
  BY <1>6
<1>8. ASSUME NEW q \in Children(p) PROVE FALSE
  <2>1. q \in Live /\ Len(q) = Len(p) + 1 /\ Parent(q) = p
    BY DEF Children
  <2>2. q \in Seq(Request \cup Function) /\ Len(q) \in Nat /\ Len(q) > 1
    BY <2>1, AtNode
  <2>3. p[1] = q[1]
    <3>1. Len(q) - 1 \in 1 .. Len(q) /\ 1 \in 1 .. Len(q) - 1
      BY <2>2
    <3>2. SubSeq(q, 1, Len(q) - 1)[1] = q[1]
      BY <2>2, <3>1, PrefixPath
    <3> QED
      BY <2>1, <3>2 DEF Parent
  <2>4. q \in Mine
    BY <2>1, <2>3
  <2> HIDE DEF Mine
  <2>5. Len(q) <= n
    BY <1>4, <2>4
  <2> QED
    BY <1>5, <1>7, <2>1, <2>2, <2>5
<1> QED
  BY <1>7, <1>8

\* A check never gets stuck, for every schema, every concurrency limit and every
\* interleaving with other checks, cancellations, failures and evictions: some
\* goroutine of its own can always take its next step.
THEOREM CheckNeverStuck == Spec => []NobodyStuck
<1>1. Init => Groups
  <2> SUFFICES ASSUME Init PROVE Groups
    OBVIOUS
  <2>1. Live = {}
    BY DEF Init, Live
  <2>2. Members /\ Began
    BY <2>1 DEF Init, Members, Began
  <2>3. 0 \in Nat /\ \A p \in Live : Len(p) <= 0
    BY <2>1
  <2> QED
    BY <2>2, <2>3 DEF Groups, Bounded
<1>2. Tree /\ Groups => NobodyStuck
  BY LeafExists, LeafCanStep DEF NobodyStuck
<1> QED
  BY <1>1, <1>2, NextGroups, TreeInvariance, PTL DEF Spec

-----------------------------------------------------------------------------
(***************************************************************************)
(* How deep the goroutines of a check are nested, cyclic user sets or not. *)
(* The rewrite rule of an action is a tree: its nodes have a height, H at  *)
(* most.  The weight of a function bounds what may be nested below it.     *)
(***************************************************************************)
Stratified(height, H) ==
    /\ height \in [Node -> 0 .. H]
    /\ \A n \in Node : \A c \in NodeDef[n].children : height[c] < height[n]

Weight(height, H, t) ==
    CASE t.fn = "execute" -> (H + 2) * t.depth
      [] t.fn = "direct" -> (H + 2) * (t.depth - 1) + 1
      [] t.fn = "node" -> (H + 2) * (t.depth - 1) + 1 + height[t.node]

\* Every nested request uses up one unit of depth, and the rewrite rule in
\* between is no higher than H.
NestingBounded(H) ==
    \A p \in Live : Len(p) <= 2 + (H + 2) * asked[p[1]].depth

\* What a function may still start is lighter than itself.
Light(height, H, p, f) ==
    /\ Len(p) + Weight(height, H, Term(p)) <= 2 + (H + 2) * asked[p[1]].depth
    /\ \A c \in f.kids : Weight(height, H, c) < Weight(height, H, Term(p))

AllLight(height, H) == \A p \in Live : Light(height, H, p, frames[p])

\* One unit of depth weighs more than a rewrite rule.
LEMMA Unit ==
    ASSUME NEW H \in Nat, NEW d \in Nat \ {0}, NEW h \in 0 .. H
    PROVE  /\ (H + 2) * (d - 1) \in Nat
           /\ (H + 2) * d \in Nat
           /\ (H + 2) * (d - 1) + 1 + h < (H + 2) * d
           /\ (H + 2) * (d - 1) < (H + 2) * d
<1>1. (H + 2) * (d - 1) \in Nat /\ (H + 2) * d = (H + 2) * (d - 1) + (H + 2)
  OBVIOUS
<1> DEFINE x == (H + 2) * (d - 1)
<1>2. x \in Nat /\ (H + 2) * d = x + (H + 2)
  BY <1>1
<1> HIDE DEF x
<1>3. x + (H + 2) \in Nat /\ x + 1 + h < x + (H + 2) /\ x < x + (H + 2)
  BY <1>2
<1> QED
  BY <1>2, <1>3 DEF x

\* The weight of the functions a check makes.
LEMMA WeightOf ==
    ASSUME NEW H \in Nat, NEW height, Stratified(height, H), NEW r, NEW t, Made(r, t)
    PROVE  /\ Weight(height, H, t) \in Nat
           /\ t.fn = "execute" => Weight(height, H, t) = (H + 2) * t.depth
           /\ t.fn = "direct" => Weight(height, H, t) = (H + 2) * (t.depth - 1) + 1
           /\ t.fn = "node" => Weight(height, H, t) = (H + 2) * (t.depth - 1) + 1 + height[t.node]
<1>1. t.fn \in {"execute", "direct", "node"} /\ t.depth \in Nat /\ t.node \in Node
      /\ (t.fn # "execute" => t.depth # 0)
  BY DEF Made, Function
<1>2. height[t.node] \in 0 .. H /\ 0 \in 0 .. H
  BY <1>1 DEF Stratified
<1>3. CASE t.fn = "execute"
  <2>1. Weight(height, H, t) = (H + 2) * t.depth
    BY <1>3 DEF Weight
  <2>2. (H + 2) * t.depth \in Nat
    BY <1>1
  <2> QED
    BY <1>3, <2>1, <2>2
<1>4. CASE t.fn = "direct"
  <2>1. Weight(height, H, t) = (H + 2) * (t.depth - 1) + 1
    BY <1>4 DEF Weight
  <2>2. (H + 2) * (t.depth - 1) \in Nat
    BY <1>1, <1>2, <1>4, Unit
  <2> QED
    BY <1>4, <2>1, <2>2
<1>5. CASE t.fn = "node"
  <2>1. Weight(height, H, t) = (H + 2) * (t.depth - 1) + 1 + height[t.node]
    BY <1>5 DEF Weight
  <2>2. (H + 2) * (t.depth - 1) \in Nat
    BY <1>1, <1>2, <1>5, Unit
  <2> QED
    BY <1>2, <1>5, <2>1, <2>2
<1> QED
  BY <1>1, <1>3, <1>4, <1>5

\* An Execute for a nested request is lighter than whatever makes it.
LEMMA NestedLighter ==
    ASSUME NEW H \in Nat, NEW height, Stratified(height, H), NEW r, NEW t, Made(r, t), t.depth # 0,
           NEW k, NEW sign, NEW n
    PROVE  Weight(height, H, Execute(k, sign, t.depth - 1, n)) < Weight(height, H, t)
<1> DEFINE c == Execute(k, sign, t.depth - 1, n)
           x == (H + 2) * (t.depth - 1)
<1>1. t.fn \in {"execute", "direct", "node"} /\ t.depth \in Nat \ {0} /\ t.node \in Node
  BY DEF Made, Function
<1>2. Weight(height, H, c) = x
  BY DEF Execute, Weight
<1>3. height[t.node] \in 0 .. H
  BY <1>1 DEF Stratified
<1>4. x \in Nat /\ x < (H + 2) * t.depth
  BY <1>1, <1>3, Unit
<1>5. t.fn # "execute" =>
        Weight(height, H, t) = x + 1 \/ Weight(height, H, t) = x + 1 + height[t.node]
  BY <1>1, WeightOf
<1>6. t.fn = "execute" => Weight(height, H, t) = (H + 2) * t.depth
  BY WeightOf
<1> HIDE DEF x, c
<1>7. x < x + 1 /\ x < x + 1 + height[t.node]
  BY <1>3, <1>4
<1>8. x < Weight(height, H, t)
  BY <1>4, <1>5, <1>6, <1>7
<1> QED
  BY <1>2, <1>8 DEF c

\* check: the function of a relation, or of the root of an action.
LEMMA CheckFunctionLighter ==
    ASSUME NEW H \in Nat, NEW height, Stratified(height, H), NEW r, NEW t, Made(r, t),
           t.fn = "execute", t.depth # 0
    PROVE  Weight(height, H, CheckFunctionOf(t)) < Weight(height, H, t)
<1> DEFINE n == Root[t.key.entity][t.key.permission]
           x == (H + 2) * (t.depth - 1)
<1>1. t.depth \in Nat \ {0} /\ t.key \in Key /\ t \in Function
  BY DEF Made, Function
<1>2. n \in Node /\ height[n] \in 0 .. H /\ 0 \in 0 .. H
  BY <1>1, ConstantsAssumption DEF Key, Stratified
<1>3. /\ x \in Nat /\ x + 1 + height[n] < Weight(height, H, t) /\ x + 1 + 0 < Weight(height, H, t)
  BY <1>1, <1>2, Unit, WeightOf
<1>4. CASE KindOf(t.key) = "action" /\ NodeDef[n].kind = "computedUserSet"
  BY <1>4, NestedLighter DEF CheckFunctionOf, NodeFunction
<1>5. CASE KindOf(t.key) = "action" /\ NodeDef[n].kind # "computedUserSet"
  <2>1. CheckFunctionOf(t) = [fn |-> "node", key |-> t.key, sign |-> "pos", depth |-> t.depth,
                              node |-> n]
    BY <1>5 DEF CheckFunctionOf, NodeFunction
  <2>2. Weight(height, H, CheckFunctionOf(t)) = x + 1 + height[n]
    BY <2>1 DEF Weight
  <2> QED
    BY <1>3, <2>2
<1>6. CASE KindOf(t.key) # "action"
  <2>1. CheckFunctionOf(t).fn = "direct" /\ CheckFunctionOf(t).depth = t.depth
    BY <1>1, <1>6 DEF CheckFunctionOf, Function
  <2>2. Weight(height, H, CheckFunctionOf(t)) = x + 1
    BY <2>1 DEF Weight
  <2> HIDE DEF x
  <2>3. x + 1 = x + 1 + 0
    BY <1>3
  <2> QED
    BY <1>3, <2>2, <2>3
<1> QED
  BY <1>4, <1>5, <1>6

\* setChild and checkTupleToUserSet.
LEMMA NodeFunctionsLighter ==
    ASSUME NEW H \in Nat, NEW height, Stratified(height, H), NEW r, NEW t, Made(r, t),
           t.fn = "node", NEW c \in NodeFunctions(t)
    PROVE  Weight(height, H, c) < Weight(height, H, t)
<1> DEFINE x == (H + 2) * (t.depth - 1)
<1>1. t.depth \in Nat \ {0} /\ t.node \in Node
  BY DEF Made, Function
<1>2. CASE NodeDef[t.node].kind = "tupleToUserSet"
  <2>1. PICK k \in Computed(t.node, t.key) :
            c = Execute(k, NodeDef[t.node].sign, t.depth - 1, t.node)
    BY <1>2 DEF NodeFunctions
  <2> QED
    BY <1>1, <2>1, NestedLighter
<1>3. CASE NodeDef[t.node].kind # "tupleToUserSet"
  <2>1. PICK m \in NodeDef[t.node].children : c = NodeFunction(m, t.key, t.depth)
    BY <1>3 DEF NodeFunctions
  <2>2. CASE NodeDef[m].kind = "computedUserSet"
    BY <1>1, <2>1, <2>2, NestedLighter DEF NodeFunction
  <2>3. CASE NodeDef[m].kind # "computedUserSet"
    <3>1. c = [fn |-> "node", key |-> t.key, sign |-> "pos", depth |-> t.depth, node |-> m]
      BY <2>1, <2>3 DEF NodeFunction
    <3>2. Weight(height, H, c) = x + 1 + height[m]
      BY <3>1 DEF Weight
    <3>3. Weight(height, H, t) = x + 1 + height[t.node]
      BY DEF Weight
    <3>4. m \in Node
      BY <1>1, <2>1, ConstantsAssumption
    <3>5. height[m] \in 0 .. H /\ height[t.node] \in 0 .. H /\ height[m] < height[t.node]
      BY <1>1, <2>1, <3>4 DEF Stratified
    <3>6. x \in Nat
      BY <1>1, <3>5, Unit
    <3> HIDE DEF x
    <3>7. x + 1 + height[m] < x + 1 + height[t.node]
      BY <3>5, <3>6
    <3> QED
      BY <3>2, <3>3, <3>7
  <2> QED
    BY <2>2, <2>3
<1> QED
  BY <1>2, <1>3

\* The members of the groups that are open, after a step.
LEMMA LightStep ==
    ASSUME NEW H \in Nat, NEW height, AllLight(height, H), asked' = asked,
           \A p \in Live' : \/ p \in Live /\ frames'[p].kids = frames[p].kids
                            \/ Light(height, H, p, frames'[p])
    PROVE  AllLight(height, H)'
  BY DEF AllLight, Light, Term

\* What a step of a goroutine does to the members of the groups.
LEMMA ReplyKids ==
    ASSUME Tree, NEW p \in Live, NEW resp, Reply(p, resp)
    PROVE  \A q \in Live' : q \in Live /\ frames'[q].kids = frames[q].kids
<1> SUFFICES ASSUME NEW q \in Live'
             PROVE  q \in Live /\ frames'[q].kids = frames[q].kids
  OBVIOUS
<1>1. q \in Live \ {p}
  BY DEF Reply, Live
<1>2. frames[q] \in Frame
  BY <1>1, AtNode
<1>3. CASE Len(p) = 2
  BY <1>1, <1>3 DEF Reply
<1>4. CASE Len(p) # 2
  <2> DEFINE c == Append(frames[q].chan, [from |-> Term(p), resp |-> resp])
  <2>1. frames'[q] = frames[q] \/ frames'[q] = [frames[q] EXCEPT !.chan = c]
    BY <1>1, <1>4 DEF Reply
  <2> HIDE DEF c
  <2> QED
    BY <1>1, <1>2, <2>1 DEF Frame
<1> QED
  BY <1>3, <1>4

LEMMA NextLight ==
    ASSUME NEW H \in Nat, NEW height, Stratified(height, H)
    PROVE  Tree /\ AllLight(height, H) /\ [Next]_vars => AllLight(height, H)'
<1> SUFFICES ASSUME Tree, AllLight(height, H), [Next]_vars PROVE AllLight(height, H)'
  OBVIOUS
<1>1. ASSUME NEW r \in Request, Start(r) PROVE AllLight(height, H)'
  <2> DEFINE q == <<r, asked[r]>>
  <2>1. asked[r] \in Function /\ asked[r].fn = "execute"
    BY AsksFunctions DEF Tree, TypeOK
  <2>2. Len(q) = 2 /\ q[1] = r /\ Term(q) = asked[r]
    BY DEF Term
  <2>3. Live' = Live \cup {q} /\ frames'[q] = NewFrame /\ asked' = asked
        /\ \A p \in Live : p # q => frames'[p] = frames[p]
    BY <1>1 DEF Start, Live
  <2>4. Light(height, H, q, NewFrame)
    <3>1. Weight(height, H, asked[r]) = (H + 2) * asked[r].depth
      BY <2>1 DEF Weight
    <3>2. NewFrame.kids = {}
      BY DEF NewFrame, Idle
    <3>3. asked[r].depth \in Nat
      BY <2>1 DEF Function
    <3>4. (H + 2) * asked[r].depth \in Nat
      BY <3>3
    <3> QED
      BY <2>2, <3>1, <3>2, <3>4 DEF Light
  <2> HIDE DEF q
  <2> QED
    BY <2>3, <2>4, LightStep
<1>2. CASE (\E r \in Request : Cancel(r)) \/ (\E k \in DOMAIN cache : Evict(k)) \/ UNCHANGED vars
  <2>1. frames' = frames /\ asked' = asked
    BY <1>2 DEF Cancel, Evict, vars
  <2> QED
    BY <2>1, LightStep DEF Live
<1>3. ASSUME NEW p \in Live, Step(p) PROVE AllLight(height, H)'
  <2>1. asked' = asked
    BY <1>3 DEF Step, DepthExceeded, UndefinedPermission, RepositoryFails, CacheHit, CacheMiss,
                DirectAnswer, DirectUserSets, NodeGroup, Spawn, SpawnerStops, Receive, SeeDone,
                Return, Frozen
  <2>2. /\ Made(p[1], Term(p)) /\ frames[p] \in Frame /\ Light(height, H, p, frames[p])
        /\ p \in Seq(Request \cup Function) /\ Len(p) \in Nat /\ Len(p) > 1 /\ p[1] \in Request
        /\ Shaped(p[1], frames[p])
    BY AtNode DEF AllLight
  <2>3. ASSUME NEW resp, Reply(p, resp) PROVE AllLight(height, H)'
    BY <2>1, <2>3, ReplyKids, LightStep
  <2>4. ASSUME NEW op, NEW kids, Open(p, op, kids),
               \A c \in kids : Weight(height, H, c) < Weight(height, H, Term(p))
        PROVE  AllLight(height, H)'
    <3> DEFINE f == Idle(op, kids, "collect")
    <3>1. f.kids = kids
      BY DEF Idle
    <3>2. Live' = Live /\ frames'[p] = f /\ \A q \in Live : q # p => frames'[q] = frames[q]
      BY <2>4 DEF Open, Live
    <3> HIDE DEF f
    <3>3. Light(height, H, p, f)
      BY <2>2, <2>4, <3>1 DEF Light
    <3> QED
      BY <2>1, <3>2, <3>3, LightStep
  <2>5. ASSUME NEW f, f.kids = frames[p].kids, frames' = [frames EXCEPT ![p] = f]
        PROVE  AllLight(height, H)'
    <3>1. Live' = Live /\ frames'[p] = f /\ \A q \in Live : q # p => frames'[q] = frames[q]
      BY <2>5 DEF Live
    <3> QED
      BY <2>1, <2>5, <3>1, LightStep
  <2>6. CASE DepthExceeded(p) \/ UndefinedPermission(p) \/ RepositoryFails(p)
    BY <2>3, <2>6 DEF DepthExceeded, UndefinedPermission, RepositoryFails
  <2>7. CASE CacheHit(p) \/ DirectAnswer(p) \/ Return(p)
    <3>1. \E resp : Reply(p, resp)
      BY <2>7 DEF CacheHit, DirectAnswer, Return
    <3> QED
      BY <2>3, <3>1
  <2>8. CASE CacheMiss(p)
    <3>1. Open(p, "union", {CheckFunctionOf(Term(p))}) /\ Term(p).fn = "execute" /\ Term(p).depth # 0
      BY <2>8 DEF CacheMiss, Evaluating
    <3>2. \A c \in {CheckFunctionOf(Term(p))} : Weight(height, H, c) < Weight(height, H, Term(p))
      BY <2>2, <3>1, CheckFunctionLighter
    <3> QED
      BY <2>4, <3>1, <3>2
  <2>9. CASE DirectUserSets(p)
    <3>1. Open(p, "union", UserSetFunctions(Term(p))) /\ Term(p).fn = "direct"
      BY <2>9 DEF DirectUserSets, Evaluating
    <3>2. Term(p).depth # 0
      BY <2>2, <3>1 DEF Made
    <3>3. \A c \in UserSetFunctions(Term(p)) : Weight(height, H, c) < Weight(height, H, Term(p))
      BY <2>2, <3>2, NestedLighter DEF UserSetFunctions
    <3> QED
      BY <2>4, <3>1, <3>3
  <2>10. CASE NodeGroup(p)
    <3>1. Term(p).fn = "node"
      BY <2>10 DEF NodeGroup, Evaluating
    <3>2. CASE NodeFunctions(Term(p)) = {}
      BY <2>3, <2>10, <3>2 DEF NodeGroup
    <3>3. CASE NodeFunctions(Term(p)) # {}
      <4>1. Open(p, NodeOp(Term(p)), NodeFunctions(Term(p)))
        BY <2>10, <3>3 DEF NodeGroup
      <4>2. \A c \in NodeFunctions(Term(p)) : Weight(height, H, c) < Weight(height, H, Term(p))
        BY <2>2, <3>1, NodeFunctionsLighter
      <4> QED
        BY <2>4, <4>1, <4>2
    <3> QED
      BY <3>2, <3>3
  <2>11. ASSUME NEW t \in frames[p].todo, Spawn(p, t) PROVE AllLight(height, H)'
    <3> DEFINE q == Append(p, t)
               g == [frames[p] EXCEPT !.todo = frames[p].todo \ {t}]
    <3>1. t \in frames[p].kids /\ Made(p[1], t) /\ t \in Function
      BY <2>2 DEF Shaped, Made
    <3>2. Len(q) = Len(p) + 1 /\ Term(q) = t /\ q[1] = p[1] /\ q # p
      BY <2>2, <3>1, ChildPath
    <3>3. /\ Live' = Live \cup {q} /\ frames'[q] = NewFrame /\ frames'[p] = g
          /\ \A x \in Live : x # p /\ x # q => frames'[x] = frames[x]
      BY <2>11, <3>2 DEF Spawn, Live
    <3>4. g.kids = frames[p].kids
      BY <2>2, FrameTodo
    <3>5. NewFrame.kids = {}
      BY DEF NewFrame, Idle
    <3>6. Weight(height, H, t) \in Nat /\ Weight(height, H, Term(p)) \in Nat
      BY <2>2, <3>1, WeightOf
    <3>7. Weight(height, H, t) < Weight(height, H, Term(p))
      BY <2>2, <3>1 DEF Light
    <3>8. (H + 2) * asked[p[1]].depth \in Nat
      <4>1. asked[p[1]].depth \in Nat
        BY <2>2, AsksFunctions DEF Tree, TypeOK
      <4> QED
        BY <4>1
    <3> DEFINE z == (H + 2) * asked[p[1]].depth
    <3>9. Len(p) + Weight(height, H, Term(p)) <= 2 + z
      BY <2>2 DEF Light
    <3> HIDE DEF q, g, z
    <3>10. Len(q) + Weight(height, H, t) <= 2 + z
      <4>1. z \in Nat
        BY <3>8 DEF z
      <4> QED
        BY <4>1, <2>2, <3>2, <3>6, <3>7, <3>9
    <3>11. Light(height, H, q, NewFrame)
      BY <3>2, <3>5, <3>10 DEF Light, z
    <3> QED
      BY <2>1, <3>3, <3>4, <3>11, LightStep
  <2>12. CASE SpawnerStops(p)
    <3> DEFINE g == [frames[p] EXCEPT !.todo = {}]
    <3>1. frames' = [frames EXCEPT ![p] = g]
      BY <2>12 DEF SpawnerStops
    <3>2. g.kids = frames[p].kids
      BY <2>2 DEF Frame
    <3> HIDE DEF g
    <3> QED
      BY <2>5, <3>1, <3>2
  <2>13. ASSUME NEW resp, frames' = [frames EXCEPT ![p] = Clean(p, resp)] PROVE AllLight(height, H)'
    <3> DEFINE g == Clean(p, resp)
    <3>1. frames' = [frames EXCEPT ![p] = g]
      BY <2>13
    <3>2. g.kids = frames[p].kids
      BY <2>2 DEF Frame, Clean
    <3> HIDE DEF g
    <3> QED
      BY <2>5, <3>1, <3>2
  <2>14. CASE SeeDone(p)
    BY <2>13, <2>14 DEF SeeDone
  <2>15. CASE Receive(p)
    <3> DEFINE f == frames[p]
               d == Head(f.chan)
               got == f.got \cup {d.from}
               g == [f EXCEPT !.got = got, !.chan = Tail(@)]
    <3>1. \/ frames' = [frames EXCEPT ![p] = Clean(p, Failure(d.resp.err))]
          \/ frames' = [frames EXCEPT ![p] = Clean(p, Verdict(d.resp.can))]
          \/ frames' = [frames EXCEPT ![p] = g]
      BY <2>15 DEF Receive
    <3>2. g.kids = frames[p].kids
      BY <2>2 DEF Frame
    <3> HIDE DEF g, d
    <3> QED
      BY <2>5, <2>13, <3>1, <3>2
  <2> QED
    BY <1>3, <2>6, <2>7, <2>8, <2>9, <2>10, <2>11, <2>12, <2>14, <2>15 DEF Step
<1> QED
  BY <1>1, <1>2, <1>3 DEF Next, Run

\* The recursion of a check is bounded by its depth, whatever the tuples are: in
\* a schema whose rewrite rules are at most H high, no goroutine of a check is
\* nested deeper than H + 2 goroutines for each unit of the depth it was asked
\* with, user sets that contain each other included.
THEOREM RecursionBounded ==
    ASSUME NEW H \in Nat, NEW height, Stratified(height, H)
    PROVE  Spec => []NestingBounded(H)
<1>1. Init => AllLight(height, H)
  BY DEF Init, AllLight, Live
<1>2. Tree /\ AllLight(height, H) => NestingBounded(H)
  <2> SUFFICES ASSUME Tree, AllLight(height, H), NEW p \in Live
               PROVE  Len(p) <= 2 + (H + 2) * asked[p[1]].depth
    BY DEF NestingBounded
  <2>1. Made(p[1], Term(p)) /\ Len(p) \in Nat /\ p[1] \in Request
    BY AtNode
  <2>2. Weight(height, H, Term(p)) \in Nat
    BY <2>1, WeightOf
  <2> DEFINE z == (H + 2) * asked[p[1]].depth
  <2>3. z \in Nat
    <3>1. asked[p[1]].depth \in Nat
      BY <2>1, AsksFunctions DEF Tree, TypeOK
    <3> QED
      BY <3>1
  <2>4. Len(p) + Weight(height, H, Term(p)) <= 2 + z
    BY DEF AllLight, Light
  <2> HIDE DEF z
  <2>5. Len(p) <= 2 + z
    BY <2>1, <2>2, <2>3, <2>4
  <2> QED
    BY <2>5 DEF z
<1>3. Tree /\ AllLight(height, H) /\ [Next]_vars => AllLight(height, H)'
  BY NextLight
<1> QED
  BY <1>1, <1>2, <1>3, TreeInvariance, PTL DEF Spec

-----------------------------------------------------------------------------
(***************************************************************************)
(* Every member of a group decides once: decisionChan, made for as many    *)
(* decisions as there are functions, always has room for those that still  *)
(* run, and every step of a goroutine takes it nearer to its end.          *)
(***************************************************************************)

\* A member is waiting for the spawner, running, in the channel or counted, and
\* in the channel once.
Once(f, started) ==
    f.pc = "collect" =>
        /\ \A i, j \in 1 .. Len(f.chan) : f.chan[i].from = f.chan[j].from => i = j
        /\ Sent(f) \cap f.got = {}
        /\ (Sent(f) \cup f.got) \cap (f.todo \cup started) = {}

AllOnce == \A p \in Live : Once(frames[p], Started(p))

\* The goroutines that a group has running and the decisions in its channel are
\* together no more than its functions: nobody who sends has to wait.
ChannelFits ==
    \A p \in Live : frames[p].pc = "collect" /\ IsFiniteSet(frames[p].kids) =>
        Len(frames[p].chan) + Cardinality(Children(p)) <= Cardinality(frames[p].kids)

\* What is left to do in one goroutine, from one state f of it to the next, g:
\* the stages of its function, then members to start, then decisions to count.
Stage == [eval |-> 2, collect |-> 1, clean |-> 0]

Below1(f, g) ==
    \/ Stage[g.pc] < Stage[f.pc]
    \/ /\ g.pc = f.pc /\ g.kids = f.kids
       /\ \/ g.todo \subseteq f.todo /\ g.todo # f.todo /\ g.got = f.got
          \/ g.todo = f.todo /\ f.got \subseteq g.got /\ g.got # f.got /\ g.got \subseteq g.kids

Nearer(p) == p \in Live' => Below1(frames[p], frames'[p])

Steady(p) == /\ p \in Live'
             /\ frames'[p].pc = frames[p].pc /\ frames'[p].kids = frames[p].kids
             /\ frames'[p].todo = frames[p].todo /\ frames'[p].got = frames[p].got

\* A goroutine is new because its request begins or because its group's spawner
\* has taken its function from those waiting.
Fresh(p) == \/ /\ p = <<p[1], asked[p[1]]>>
               /\ status[p[1]] = "idle" /\ status'[p[1]] = "running"
            \/ /\ Parent(p) \in Live \cap Live'
               /\ Term(p) \in frames[Parent(p)].todo \ frames'[Parent(p)].todo

\* A step of a check takes one goroutine nearer to its end and leaves the others
\* where they are; those that do not belong to a check, of clients and of the
\* cache, leave all of them.  No function is started twice.
Descends ==
    /\ \/ ~Run /\ \A q \in Live : Steady(q)
       \/ \E p \in Live : Nearer(p) /\ \A q \in Live \ {p} : Steady(q)
    /\ \A q \in Live' \ Live : Fresh(q)
    /\ \A r \in Request : status[r] # "idle" => status'[r] # "idle"

\* What a goroutine does to its own state only.
Advances(f, g) ==
    \/ f.pc = "eval" /\ g.pc = "collect" /\ g.got = {} /\ g.chan = <<>>
    \/ f.pc = "collect" /\ g.pc = "clean"
    \/ /\ g.pc = f.pc /\ g.kids = f.kids /\ g.got = f.got /\ g.chan = f.chan
       /\ f.todo # {} /\ g.todo = {}
    \/ /\ f.pc = "collect" /\ g.pc = "collect" /\ g.kids = f.kids /\ g.todo = f.todo
       /\ f.chan # <<>> /\ g.got = f.got \cup {Head(f.chan).from} /\ g.chan = Tail(f.chan)

\* The shapes of a goroutine's step: it ends, it starts a member, or it advances.
LEMMA StepShape ==
    ASSUME Tree, NEW p \in Live, Step(p)
    PROVE  \/ Children(p) = {} /\ \E resp : Reply(p, resp)
           \/ \E t \in frames[p].todo : Spawn(p, t)
           \/ \E g : frames' = [frames EXCEPT ![p] = g] /\ Advances(frames[p], g) /\ UNCHANGED status
<1> DEFINE f == frames[p]
<1>1. f \in Frame /\ (f.pc = "eval" => Children(p) = {})
  BY AtNode
<1>2. ASSUME frames[p].pc = "eval", NEW op, NEW kids, Open(p, op, kids)
      PROVE  \E g : frames' = [frames EXCEPT ![p] = g] /\ Advances(frames[p], g)
  <2> DEFINE g == Idle(op, kids, "collect")
  <2>1. g.pc = "collect" /\ g.got = {} /\ g.chan = <<>>
    BY DEF Idle
  <2>2. frames' = [frames EXCEPT ![p] = g]
    BY <1>2 DEF Open
  <2> HIDE DEF g
  <2> QED
    BY <1>2, <2>1, <2>2 DEF Advances
<1>3. ASSUME NEW resp, frames[p].pc = "collect", frames' = [frames EXCEPT ![p] = Clean(p, resp)]
      PROVE  \E g : frames' = [frames EXCEPT ![p] = g] /\ Advances(frames[p], g)
  <2>1. Clean(p, resp).pc = "clean"
    BY <1>1 DEF Clean, Frame
  <2> QED
    BY <1>3, <2>1 DEF Advances
<1>4. CASE DepthExceeded(p) \/ UndefinedPermission(p) \/ RepositoryFails(p)
  BY <1>1, <1>4 DEF DepthExceeded, UndefinedPermission, RepositoryFails, Evaluating
<1>5. CASE CacheHit(p)
  <2>1. \E resp : Reply(p, resp)
    BY <1>5 DEF CacheHit
  <2>2. Children(p) = {}
    BY <1>1, <1>5 DEF CacheHit, Evaluating
  <2> QED
    BY <2>1, <2>2
<1>6. CASE DirectAnswer(p)
  <2>1. \E resp : Reply(p, resp)
    BY <1>6 DEF DirectAnswer
  <2>2. Children(p) = {}
    BY <1>1, <1>6 DEF DirectAnswer, Evaluating
  <2> QED
    BY <2>1, <2>2
<1>7. CASE CacheMiss(p)
  BY <1>2, <1>7 DEF CacheMiss, Evaluating
<1>8. CASE DirectUserSets(p)
  BY <1>2, <1>8 DEF DirectUserSets, Evaluating
<1>9. CASE NodeGroup(p)
  <2>1. f.pc = "eval" /\ Children(p) = {}
    BY <1>1, <1>9 DEF NodeGroup, Evaluating
  <2>2. CASE NodeFunctions(Term(p)) = {}
    BY <1>9, <2>1, <2>2 DEF NodeGroup
  <2>3. CASE NodeFunctions(Term(p)) # {}
    BY <1>2, <1>9, <2>1, <2>3 DEF NodeGroup
  <2> QED
    BY <2>2, <2>3
<1>10. CASE SpawnerStops(p)
  <2> DEFINE g == [f EXCEPT !.todo = {}]
  <2>1. frames' = [frames EXCEPT ![p] = g] /\ f.todo # {} /\ UNCHANGED status
    BY <1>10 DEF SpawnerStops
  <2>2. g.pc = f.pc /\ g.kids = f.kids /\ g.got = f.got /\ g.chan = f.chan /\ g.todo = {}
    BY <1>1 DEF Frame
  <2> HIDE DEF g
  <2> QED
    BY <2>1, <2>2 DEF Advances
<1>11. CASE Receive(p)
  <2> DEFINE d == Head(f.chan)
             got == f.got \cup {d.from}
             g == [f EXCEPT !.got = got, !.chan = Tail(@)]
  <2>1. f.pc = "collect" /\ f.chan # <<>> /\ UNCHANGED status
    BY <1>11 DEF Receive
  <2>2. \/ \E resp : frames' = [frames EXCEPT ![p] = Clean(p, resp)]
        \/ frames' = [frames EXCEPT ![p] = g]
    BY <1>11 DEF Receive
  <2>3. g.got = got /\ g.chan = Tail(f.chan) /\ g.pc = f.pc /\ g.kids = f.kids /\ g.todo = f.todo
    BY <1>1 DEF Frame
  <2> HIDE DEF g
  <2>4. Advances(f, g)
    BY <2>1, <2>3 DEF Advances
  <2> QED
    BY <1>3, <2>1, <2>2, <2>4
<1>12. CASE SeeDone(p)
  BY <1>3, <1>12 DEF SeeDone
<1>13. CASE Return(p)
  <2>1. \E resp : Reply(p, resp)
    BY <1>13 DEF Return
  <2> QED
    BY <1>13, <2>1 DEF Return, Waited
<1> QED
  BY <1>4, <1>5, <1>6, <1>7, <1>8, <1>9, <1>10, <1>11, <1>12, <1>13 DEF Step

\* Two goroutines of one group run different functions.
LEMMA OneOfEach ==
    ASSUME Tree, NEW p \in Live, NEW q \in Live, Len(p) = Len(q), Parent(p) = Parent(q),
           Term(p) = Term(q)
    PROVE  p = q
<1>1. /\ p \in Seq(Request \cup Function) /\ Len(p) \in Nat /\ Len(p) > 1
      /\ q \in Seq(Request \cup Function)
  BY AtNode
<1>2. ASSUME NEW i \in 1 .. Len(p) PROVE p[i] = q[i]
  <2>1. CASE i = Len(p)
    BY <2>1 DEF Term
  <2>2. CASE i # Len(p)
    <3>1. i \in 1 .. Len(p) - 1 /\ Len(p) - 1 \in 1 .. Len(p)
      BY <1>1, <2>2
    <3>2. Parent(p)[i] = p[i] /\ Parent(q)[i] = q[i]
      BY <1>1, <3>1, PrefixPath DEF Parent
    <3> QED
      BY <3>2
  <2> QED
    BY <2>1, <2>2
<1> QED
  BY <1>1, <1>2, SeqEqual

\* What is in the channel after a decision was taken from it.
LEMMA TakenFrom ==
    ASSUME NEW f \in Frame, f.chan # <<>>, NEW g, g.chan = Tail(f.chan),
           \A i, j \in 1 .. Len(f.chan) : f.chan[i].from = f.chan[j].from => i = j
    PROVE  /\ Head(f.chan).from \in Sent(f)
           /\ Sent(g) = Sent(f) \ {Head(f.chan).from}
           /\ \A i, j \in 1 .. Len(g.chan) : g.chan[i].from = g.chan[j].from => i = j
<1>1. f.chan \in Seq(Decision)
  BY DEF Frame
<1>2. /\ Len(f.chan) \in Nat /\ 1 \in 1 .. Len(f.chan) /\ Head(f.chan) = f.chan[1]
      /\ Len(g.chan) = Len(f.chan) - 1
      /\ \A i \in 1 .. Len(g.chan) : g.chan[i] = f.chan[i + 1]
  BY <1>1, HeadTailProperties
<1>3. \A i \in 1 .. Len(g.chan) : i + 1 \in 1 .. Len(f.chan) /\ i + 1 # 1
  BY <1>2
<1>4. \A i, j \in 1 .. Len(g.chan) : g.chan[i].from = g.chan[j].from => i = j
  <2> SUFFICES ASSUME NEW i \in 1 .. Len(g.chan), NEW j \in 1 .. Len(g.chan),
                      g.chan[i].from = g.chan[j].from
               PROVE  i = j
    OBVIOUS
  <2>1. i + 1 = j + 1
    BY <1>2, <1>3
  <2> QED
    BY <2>1
<1>5. ASSUME NEW x \in Sent(f), x # Head(f.chan).from PROVE x \in Sent(g)
  <2>1. PICK i \in 1 .. Len(f.chan) : x = f.chan[i].from
    BY DEF Sent
  <2>2. i # 1
    BY <1>2, <1>5, <2>1
  <2>3. i - 1 \in 1 .. Len(g.chan) /\ (i - 1) + 1 = i
    BY <1>2, <2>2
  <2>4. g.chan[i - 1] = f.chan[i]
    BY <1>2, <2>3
  <2> QED
    BY <2>1, <2>3, <2>4 DEF Sent
<1>6. ASSUME NEW x \in Sent(g) PROVE x \in Sent(f) /\ x # Head(f.chan).from
  <2>1. PICK i \in 1 .. Len(g.chan) : x = g.chan[i].from
    BY DEF Sent
  <2>2. x = f.chan[i + 1].from /\ i + 1 \in 1 .. Len(f.chan) /\ i + 1 # 1
    BY <1>2, <1>3, <2>1
  <2> QED
    BY <1>2, <2>2 DEF Sent
<1>7. Head(f.chan).from \in Sent(f)
  BY <1>2 DEF Sent
<1> QED
  BY <1>4, <1>5, <1>6, <1>7

\* What is in the channel after a decision was sent.
LEMMA SentTo ==
    ASSUME NEW f \in Frame, NEW d, NEW g, g.chan = Append(f.chan, d), d.from \notin Sent(f),
           \A i, j \in 1 .. Len(f.chan) : f.chan[i].from = f.chan[j].from => i = j
    PROVE  /\ Sent(g) = Sent(f) \cup {d.from}
           /\ \A i, j \in 1 .. Len(g.chan) : g.chan[i].from = g.chan[j].from => i = j
<1>1. f.chan \in Seq(Decision)
  BY DEF Frame
<1>2. /\ Len(g.chan) = Len(f.chan) + 1 /\ Len(f.chan) \in Nat
      /\ g.chan[Len(f.chan) + 1] = d /\ \A i \in 1 .. Len(f.chan) : g.chan[i] = f.chan[i]
  BY <1>1
<1>3. 1 .. Len(g.chan) = (1 .. Len(f.chan)) \cup {Len(f.chan) + 1}
  BY <1>2
<1>4. \A i \in 1 .. Len(f.chan) : f.chan[i].from # d.from
  BY DEF Sent
<1>5. \A i, j \in 1 .. Len(g.chan) : g.chan[i].from = g.chan[j].from => i = j
  BY <1>2, <1>3, <1>4
<1>6. ASSUME NEW x \in Sent(g) PROVE x \in Sent(f) \cup {d.from}
  BY <1>2, <1>3 DEF Sent
<1>7. ASSUME NEW x \in Sent(f) \cup {d.from} PROVE x \in Sent(g)
  BY <1>2, <1>3 DEF Sent
<1> QED
  BY <1>5, <1>6, <1>7

\* A goroutine that advances: its group counts a decision once.
LEMMA AdvanceOnce ==
    ASSUME Tree, AllOnce, Members, NEW p \in Live, NEW g, Advances(frames[p], g),
           frames' = [frames EXCEPT ![p] = g], UNCHANGED status
    PROVE  /\ AllOnce' /\ Live' = Live /\ Nearer(p)
           /\ \A q \in Live \ {p} : Steady(q)
<1> DEFINE f == frames[p]
<1>1. Live' = Live /\ frames'[p] = g /\ \A q \in Live : q # p => frames'[q] = frames[q]
  BY DEF Live
<1>2. \A q : Started(q)' = Started(q)
  BY <1>1, SameChildren
<1>3. f \in Frame /\ Once(f, Started(p)) /\ Accounted(f, Done(p), Started(p))
  BY AtNode DEF AllOnce, Members
<1>4. Once(g, Started(p)) /\ Below1(f, g)
  <2> HIDE DEF f
  <2>1. CASE f.pc = "eval" /\ g.pc = "collect" /\ g.got = {} /\ g.chan = <<>>
    <3>1. Sent(g) = {} /\ Len(g.chan) = 0
      BY <2>1 DEF Sent
    <3> QED
      BY <2>1, <3>1 DEF Once, Below1, Stage
  <2>2. CASE f.pc = "collect" /\ g.pc = "clean"
    BY <2>2 DEF Once, Below1, Stage
  <2>3. CASE /\ g.pc = f.pc /\ g.kids = f.kids /\ g.got = f.got /\ g.chan = f.chan
             /\ f.todo # {} /\ g.todo = {}
    <3>1. Sent(g) = Sent(f)
      BY <2>3 DEF Sent
    <3> QED
      BY <1>3, <2>3, <3>1 DEF Once, Below1
  <2>4. CASE /\ f.pc = "collect" /\ g.pc = "collect" /\ g.kids = f.kids /\ g.todo = f.todo
             /\ f.chan # <<>> /\ g.got = f.got \cup {Head(f.chan).from} /\ g.chan = Tail(f.chan)
    <3> DEFINE x == Head(f.chan).from
    <3>1. /\ x \in Sent(f) /\ Sent(g) = Sent(f) \ {x}
          /\ \A i, j \in 1 .. Len(g.chan) : g.chan[i].from = g.chan[j].from => i = j
      BY <1>3, <2>4, TakenFrom DEF Once
    <3>2. x \notin f.got /\ x \in f.kids /\ f.got \subseteq f.kids
      BY <1>3, <2>4, <3>1 DEF Once, Accounted
    <3> HIDE DEF x
    <3>3. g.got = f.got \cup {x}
      BY <2>4 DEF x
    <3> QED
      BY <1>3, <2>4, <3>1, <3>2, <3>3 DEF Once, Below1
  <2> QED
    BY <2>1, <2>2, <2>3, <2>4 DEF Advances, f
<1>5. ASSUME NEW q \in Live' PROVE Once(frames'[q], Started(q)')
  <2>1. CASE q = p
    BY <1>1, <1>2, <1>4, <2>1
  <2>2. CASE q # p
    BY <1>1, <1>2, <2>2 DEF AllOnce
  <2> QED
    BY <2>1, <2>2
<1> QED
  BY <1>1, <1>4, <1>5 DEF AllOnce, Nearer, Steady

\* A goroutine that ends moves from those running to the channel.
LEMMA ReplyOnce ==
    ASSUME Tree, AllOnce, NEW p \in Live, Children(p) = {}, NEW resp, Reply(p, resp)
    PROVE  /\ AllOnce' /\ Live' = Live \ {p}
           /\ \A q \in Live \ {p} : Steady(q)
<1>1. p \in Seq(Request \cup Function) /\ Len(p) \in Nat /\ Len(p) > 1
      /\ p[1] \in Request /\ Term(p) \in Function
  BY AtNode
<1>2. Live' = Live \ {p}
  BY DEF Reply, Live
<1>3. ASSUME NEW q \in Live \ {p}
      PROVE  \/ frames'[q] = frames[q] /\ (q = Parent(p) => frames[q].pc # "collect")
             \/ /\ q = Parent(p) /\ Len(p) # 2 /\ frames[q].pc = "collect"
                /\ frames'[q] = [frames[q] EXCEPT
                      !.chan = Append(@, [from |-> Term(p), resp |-> resp])]
  <2>1. CASE Len(p) = 2
    <3>1. q # Parent(p)
      <4>1. Len(q) # 1
        <5>1. Len(q) \in Nat /\ Len(q) > 1
          BY AtNode
        <5> QED
          BY <5>1, MoreThanOne
      <4>2. Len(Parent(p)) = 1
        BY <1>1, <2>1 DEF Parent
      <4> QED
        BY <4>1, <4>2, Zenon
    <3> QED
      BY <2>1, <3>1 DEF Reply
  <2>2. CASE Len(p) # 2
    BY <2>2 DEF Reply
  <2> QED
    BY <2>1, <2>2
<1>4. ASSUME NEW q \in Live \ {p}
      PROVE  Once(frames'[q], Started(q)') /\ Steady(q)
  <2>1. frames[q] \in Frame /\ Once(frames[q], Started(q)) /\ q \in Live'
    BY <1>2, AtNode DEF AllOnce
  <2>2. Children(q)' \subseteq Children(q) /\ p \notin Children(q)'
    BY <1>2 DEF Children, Parent
  <2>3. Started(q)' \subseteq Started(q)
    BY <2>2 DEF Started, Term
  <2>4. CASE frames'[q] = frames[q]
    <3>1. Once(frames[q], Started(q)')
      BY <2>1, <2>3 DEF Once
    <3> QED
      BY <2>1, <2>4, <3>1 DEF Steady
  <2>5. CASE /\ q = Parent(p) /\ Len(p) # 2 /\ frames[q].pc = "collect"
             /\ frames'[q] = [frames[q] EXCEPT
                   !.chan = Append(@, [from |-> Term(p), resp |-> resp])]
    <3> DEFINE d == [from |-> Term(p), resp |-> resp]
               f == frames[q]
               g == frames'[q]
               c == Append(f.chan, d)
    <3>1. /\ g.chan = c /\ g.pc = f.pc /\ g.kids = f.kids /\ g.got = f.got /\ g.todo = f.todo
      <4>1. g = [f EXCEPT !.chan = c]
        BY <2>5
      <4> HIDE DEF c
      <4> QED
        BY <2>1, <4>1 DEF Frame
    <3>2. Term(p) \in Started(q) /\ Term(p) \notin f.todo
      <4>1. Len(p) > 2
        BY <1>1, <2>5, MoreThanTwo
      <4>2. Len(p) = Len(q) + 1
        BY <1>1, <2>5 DEF Parent
      <4>3. p \in Children(q)
        BY <2>5, <4>2 DEF Children
      <4> QED
        BY <2>5, <4>1, <4>3 DEF Started, Tree, Linked
    <3>3. Term(p) \notin Started(q)'
      <4> SUFFICES ASSUME NEW x \in Children(q)', Term(x) = Term(p) PROVE FALSE
        BY DEF Started, Term
      <4>1. x \in Live /\ x # p /\ Len(x) = Len(q) + 1 /\ Parent(x) = q
        BY <2>2 DEF Children
      <4>2. Len(p) = Len(q) + 1
        BY <1>1, <2>5 DEF Parent
      <4> QED
        BY <2>5, <4>1, <4>2, OneOfEach
    <3>4. d.from = Term(p)
      OBVIOUS
    <3> HIDE DEF d, f, g
    <3>5. f \in Frame /\ Once(f, Started(q)) /\ f.pc = "collect"
      BY <2>1, <2>5 DEF f
    <3>6. d.from \notin Sent(f) /\ d.from \notin f.got
      BY <3>2, <3>4, <3>5 DEF Once
    <3>7. /\ Sent(g) = Sent(f) \cup {d.from}
          /\ \A i, j \in 1 .. Len(g.chan) : g.chan[i].from = g.chan[j].from => i = j
      BY <3>1, <3>5, <3>6, SentTo DEF Once
    <3>8. Once(g, Started(q)')
      BY <2>3, <3>1, <3>2, <3>3, <3>4, <3>5, <3>6, <3>7 DEF Once
    <3> QED
      BY <2>1, <3>1, <3>8 DEF Steady, f, g
  <2> QED
    BY <1>3, <2>4, <2>5
<1> QED
  BY <1>2, <1>4 DEF AllOnce

\* The spawner moves a member from those waiting to those running.
LEMMA SpawnOnce ==
    ASSUME Tree, AllOnce, NEW p \in Live, NEW t \in frames[p].todo, Spawn(p, t)
    PROVE  /\ AllOnce' /\ Nearer(p) /\ UNCHANGED status
           /\ \A q \in Live \ {p} : Steady(q)
           /\ \A q \in Live' \ Live : Fresh(q)
<1> DEFINE q == Append(p, t)
           f == frames[p]
           g == [frames[p] EXCEPT !.todo = frames[p].todo \ {t}]
<1>1. /\ f \in Frame /\ Shaped(p[1], f) /\ Once(f, Started(p))
      /\ p \in Seq(Request \cup Function) /\ Len(p) \in Nat /\ Len(p) > 1
  BY AtNode DEF AllOnce
<1>2. t \in f.kids /\ t \in Function
  BY <1>1 DEF Shaped, Made
<1>3. /\ Len(q) = Len(p) + 1 /\ Term(q) = t /\ Parent(q) = p
  BY <1>1, <1>2, ChildPath
<1>4. q \notin Live
  <2>1. Len(q) > 2
    BY <1>1, <1>3
  <2> QED
    BY <1>3, <2>1 DEF Tree, Linked
<1>5. /\ g.pc = f.pc /\ g.kids = f.kids /\ g.got = f.got
      /\ g.todo = f.todo \ {t} /\ g.chan = f.chan
  BY <1>1, FrameTodo
<1>6. /\ Live' = Live \cup {q} /\ frames'[q] = NewFrame
      /\ frames'[p] = g /\ \A x \in Live \ {p} : frames'[x] = frames[x]
  <2>1. frames' = [x \in Live \cup {q} |->
                     IF x = q THEN NewFrame ELSE IF x = p THEN g ELSE frames[x]]
    BY DEF Spawn
  <2> HIDE DEF q, g
  <2> QED
    BY <1>4, <2>1 DEF Live
<1> HIDE DEF q, g
<1>7. Started(p)' \subseteq Started(p) \cup {t}
  <2>1. Children(p)' \subseteq Children(p) \cup {q}
    BY <1>6 DEF Children, Parent
  <2> QED
    BY <1>3, <2>1 DEF Started, Term
<1>8. ASSUME NEW x \in Live \ {p} PROVE Started(x)' = Started(x)
  <2>1. Children(x)' = Children(x)
    BY <1>3, <1>6 DEF Children, Parent
  <2> QED
    BY <2>1 DEF Started, Term
<1>9. NewFrame.pc = "eval"
  BY DEF NewFrame, Idle
<1>10. Sent(g) = Sent(f)
  BY <1>5 DEF Sent
<1>11. Once(g, Started(p)')
  BY <1>1, <1>5, <1>7, <1>10 DEF Once
<1>12. ASSUME NEW x \in Live' PROVE Once(frames'[x], Started(x)')
  <2>1. CASE x = q
    BY <1>6, <1>9, <2>1 DEF Once
  <2>2. CASE x = p
    BY <1>6, <1>11, <2>2
  <2>3. CASE x \in Live \ {p}
    BY <1>6, <1>8, <2>3 DEF AllOnce
  <2> QED
    BY <1>6, <2>1, <2>2, <2>3
<1>13. Nearer(p)
  <2>1. Below1(f, g)
    BY <1>5 DEF Below1
  <2> QED
    BY <1>6, <2>1 DEF Nearer
<1>14. Fresh(q)
  BY <1>3, <1>5, <1>6 DEF Fresh
<1>15. UNCHANGED status
  BY DEF Spawn
<1> QED
  BY <1>6, <1>12, <1>13, <1>14, <1>15 DEF AllOnce, Steady

\* A client calls: its goroutine is nobody's member.
LEMMA StartOnce ==
    ASSUME Tree, AllOnce, NEW r \in Request, Start(r)
    PROVE  /\ AllOnce' /\ \A q \in Live : Steady(q)
           /\ \A q \in Live' \ Live : Fresh(q)
           /\ \A x \in Request : status[x] # "idle" => status'[x] # "idle"
<1> DEFINE q == <<r, asked[r]>>
<1>1. Len(q) = 2 /\ q[1] = r
  OBVIOUS
<1>2. q \notin Live
  BY <1>1 DEF Start, Tree, Rooted
<1>3. /\ Live' = Live \cup {q} /\ frames'[q] = NewFrame
      /\ \A x \in Live : frames'[x] = frames[x]
  <2>1. frames' = [x \in Live \cup {q} |-> IF x = q THEN NewFrame ELSE frames[x]]
    BY DEF Start
  <2> HIDE DEF q
  <2> QED
    BY <1>2, <2>1 DEF Live
<1>4. status[r] = "idle" /\ status'[r] = "running" /\ \A x \in Request : x # r => status'[x] = status[x]
  BY DEF Start, Tree, TypeOK
<1>5. Fresh(q)
  BY <1>1, <1>4 DEF Fresh
<1> HIDE DEF q
<1>6. ASSUME NEW x \in Live PROVE Started(x)' = Started(x)
  <2>1. Len(x) \in Nat /\ Len(x) > 1
    BY AtNode
  <2>2. Len(q) # Len(x) + 1
    BY <1>1, <2>1
  <2>3. Children(x)' = Children(x)
    BY <1>3, <2>2 DEF Children, Parent
  <2> QED
    BY <2>3 DEF Started, Term
<1>7. NewFrame.pc = "eval"
  BY DEF NewFrame, Idle
<1>8. ASSUME NEW x \in Live' PROVE Once(frames'[x], Started(x)')
  <2>1. CASE x = q
    BY <1>3, <1>7, <2>1 DEF Once
  <2>2. CASE x \in Live
    BY <1>3, <1>6, <2>2 DEF AllOnce
  <2> QED
    BY <1>3, <2>1, <2>2
<1> QED
  BY <1>3, <1>4, <1>5, <1>8 DEF AllOnce, Steady

\* The steps of a check are steps of a goroutine of it.
LEMMA StepOnce ==
    ASSUME Tree, AllOnce, Members, NEW p \in Live, Step(p)
    PROVE  /\ AllOnce' /\ Nearer(p) /\ \A q \in Live \ {p} : Steady(q)
           /\ \A q \in Live' \ Live : Fresh(q)
           /\ \A r \in Request : status[r] # "idle" => status'[r] # "idle"
<1>1. CASE Children(p) = {} /\ \E resp : Reply(p, resp)
  <2>1. PICK resp : Reply(p, resp)
    BY <1>1
  <2>2. /\ AllOnce' /\ Live' = Live \ {p} /\ \A q \in Live \ {p} : Steady(q)
    BY <1>1, <2>1, ReplyOnce
  <2>3. \A r \in Request : status[r] # "idle" => status'[r] # "idle"
    BY <2>1 DEF Reply, Tree, TypeOK
  <2> QED
    BY <2>2, <2>3 DEF Nearer
<1>2. CASE \E t \in frames[p].todo : Spawn(p, t)
  <2>1. PICK t \in frames[p].todo : Spawn(p, t)
    BY <1>2
  <2> QED
    BY <2>1, SpawnOnce
<1>3. CASE \E g : frames' = [frames EXCEPT ![p] = g] /\ Advances(frames[p], g) /\ UNCHANGED status
  <2>1. PICK g : frames' = [frames EXCEPT ![p] = g] /\ Advances(frames[p], g) /\ UNCHANGED status
    BY <1>3
  <2>2. AllOnce' /\ Live' = Live /\ Nearer(p) /\ \A q \in Live \ {p} : Steady(q)
    BY <2>1, AdvanceOnce
  <2> QED
    BY <2>1, <2>2
<1> QED
  BY <1>1, <1>2, <1>3, StepShape

LEMMA NextOnce ==
    ASSUME Tree, AllOnce, Members, Next
    PROVE  AllOnce' /\ Descends
<1>1. ASSUME Run PROVE AllOnce' /\ Descends
  <2>1. PICK p \in Live : Step(p)
    BY <1>1 DEF Run
  <2> QED
    BY <2>1, StepOnce DEF Descends
<1>2. ASSUME ~Run, NEW r \in Request, Start(r) PROVE AllOnce' /\ Descends
  BY <1>2, StartOnce DEF Descends
<1>3. ASSUME ~Run, UNCHANGED <<frames, status>> PROVE AllOnce' /\ Descends
  <2>1. Live' = Live
    BY <1>3 DEF Live
  <2>2. \A q : Started(q)' = Started(q)
    BY <2>1, SameChildren
  <2> QED
    BY <1>3, <2>1, <2>2 DEF AllOnce, Descends, Steady
<1> QED
  BY <1>1, <1>2, <1>3 DEF Next, Cancel, Evict

\* The members of a group decide once.
THEOREM MembersOnce == Spec => [](Tree /\ Groups /\ AllOnce)
<1>1. Init => Groups /\ AllOnce
  <2> SUFFICES ASSUME Init PROVE Groups /\ AllOnce
    OBVIOUS
  <2>1. Live = {}
    BY DEF Init, Live
  <2>2. Members /\ Began /\ AllOnce
    BY <2>1 DEF Init, Members, Began, AllOnce
  <2>3. 0 \in Nat /\ \A p \in Live : Len(p) <= 0
    BY <2>1
  <2> QED
    BY <2>2, <2>3 DEF Groups, Bounded
<1>2. Tree /\ Groups /\ AllOnce /\ [Next]_vars => AllOnce'
  <2> SUFFICES ASSUME Tree, Groups, AllOnce, [Next]_vars PROVE AllOnce'
    OBVIOUS
  <2>1. CASE Next
    BY <2>1, NextOnce DEF Groups
  <2>2. CASE UNCHANGED vars
    <3>1. Live' = Live /\ frames' = frames
      BY <2>2 DEF vars, Live
    <3>2. \A q : Started(q)' = Started(q)
      BY <3>1, SameChildren
    <3> QED
      BY <3>1, <3>2 DEF AllOnce
  <2> QED
    BY <2>1, <2>2
<1> QED
  BY <1>1, <1>2, NextGroups, TreeInvariance, PTL DEF Spec

\* decisionChan never blocks a sender: there is room for every member that runs.
THEOREM ChannelFitsHolds == Spec => []ChannelFits
<1>1. Tree /\ Groups /\ AllOnce => ChannelFits
  <2> SUFFICES ASSUME Tree, Groups, AllOnce, NEW p \in Live, frames[p].pc = "collect",
                      IsFiniteSet(frames[p].kids)
               PROVE  Len(frames[p].chan) + Cardinality(Children(p)) <= Cardinality(frames[p].kids)
    BY DEF ChannelFits
  <2> DEFINE f == frames[p]
             n == Len(f.chan)
             Rest == f.kids \ Sent(f)
             send == [i \in 1 .. n |-> f.chan[i].from]
             run == [q \in Children(p) |-> Term(q)]
  <2>1. /\ f \in Frame /\ Once(f, Started(p)) /\ Accounted(f, Done(p), Started(p))
        /\ Len(p) \in Nat /\ Len(p) > 1
    BY AtNode DEF AllOnce, Groups, Members
  <2>2. n \in Nat
    BY <2>1 DEF Frame
  <2>3. Sent(f) \subseteq f.kids /\ IsFiniteSet(Sent(f))
    BY <2>1, FS_Subset DEF Accounted
  <2>4. Cardinality(Sent(f)) = n
    <3>1. send \in Injection(1 .. n, Sent(f)) /\ send \in Surjection(1 .. n, Sent(f))
      BY <2>1 DEF Injection, Surjection, Sent, Once, IsInjective
    <3>2. IsFiniteSet(1 .. n) /\ Cardinality(1 .. n) = n
      <4>1. 1 \in Int /\ n \in Int /\ (IF 1 > n THEN 0 ELSE n - 1 + 1) = n
        BY <2>2
      <4> HIDE DEF n
      <4> QED
        BY <4>1, FS_Interval, Zenon
    <3> HIDE DEF send, n, f
    <3> QED
      BY <2>3, <3>1, <3>2, FS_Injection
  <2>5. IsFiniteSet(Children(p)) /\ Cardinality(Children(p)) <= Cardinality(Rest)
    <3>1. ASSUME NEW q \in Children(p) PROVE Term(q) \in Rest
      <4>1. q \in Live /\ Len(q) > 2 /\ Parent(q) = p
        BY <2>1 DEF Children
      <4>2. Term(q) \in f.kids
        BY <4>1 DEF Tree, Linked
      <4>3. Term(q) \in Started(p)
        BY DEF Started
      <4> QED
        BY <2>1, <4>2, <4>3 DEF Once
    <3>2. ASSUME NEW q \in Children(p), NEW x \in Children(p), Term(q) = Term(x) PROVE q = x
      BY <3>2, OneOfEach DEF Children
    <3>3. run \in Injection(Children(p), Rest)
      BY <3>1, <3>2 DEF Injection, IsInjective
    <3>4. IsFiniteSet(Rest)
      BY FS_Subset
    <3> HIDE DEF run, Rest
    <3> QED
      BY <3>3, <3>4, FS_Injection
  <2>6. Cardinality(Rest) = Cardinality(f.kids) - Cardinality(Sent(f))
    <3>1. f.kids \cap Sent(f) = Sent(f)
      BY <2>3
    <3> HIDE DEF f
    <3> QED
      BY <2>3, <3>1, FS_Difference DEF f
  <2>7. Cardinality(f.kids) \in Nat /\ Cardinality(Rest) \in Nat /\ Cardinality(Children(p)) \in Nat
    <3>1. IsFiniteSet(Rest)
      BY FS_Subset
    <3> QED
      BY <2>5, <3>1, FS_CardinalityType
  <2> HIDE DEF Rest
  <2> QED
    BY <2>2, <2>4, <2>5, <2>6, <2>7
<1> QED
  BY <1>1, MembersOnce, PTL

\* Every step of a check takes one of its goroutines nearer to its end, and no
\* function of a group is started twice: with CheckNeverStuck and, for schemas
\* whose rewrite rules are finite trees, RecursionBounded, a check waits for
\* ever only on the scheduler.
THEOREM CheckDescends == Spec => [][Descends]_vars
<1>1. Tree /\ Groups /\ AllOnce /\ [Next]_vars => [Descends]_vars
  BY NextOnce DEF Groups
<1> QED
  BY <1>1, MembersOnce, PTL DEF Spec
=============================================================================
