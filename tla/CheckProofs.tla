---------------------------- MODULE CheckProofs ----------------------------
(***************************************************************************)
(* Proofs about Check, for every schema, every set of tuples, every number *)
(* of requests and every concurrency limit: the cache and the answers      *)
(* agree with the meaning of the schema.                                   *)
(***************************************************************************)
EXTENDS CheckTreeProofs

(***************************************************************************)
(* What the functions that a function makes should answer.                 *)
(***************************************************************************)

\* A rewrite or a leaf closed over a request answers whether the request satisfies it.
LEMMA NodeFunctionTruth ==
    ASSUME ExclusionIsDirect, NEW n \in Node, NEW k \in Key, NEW d \in Nat, d # 0
    PROVE  /\ GoodFunction(NodeFunction(n, k, d))
           /\ Truth(NodeFunction(n, k, d)) <=> k \in Satisfied[n]
<1> DEFINE def == NodeDef[n]
           t == NodeFunction(n, k, d)
<1>1. def.relation \in Name /\ def.sign \in Sign
  BY ConstantsAssumption
<1>2. CASE def.kind = "computedUserSet"
  <2> DEFINE u == Nested(k, k.entity, def.relation)
  <2>1. u \in Key
    BY <1>1, NestedKey DEF Key
  <2>2. t = Execute(u, def.sign, d - 1, n)
    BY <1>2 DEF NodeFunction
  <2>3. t \in Function /\ t.fn = "execute" /\ t.key = u /\ t.sign = def.sign
    BY <2>1, <2>2, <1>1 DEF Execute, Function
  <2>4. t.sign = "neg" => Shallow(t.key)
    BY <1>2, <2>3 DEF ExclusionIsDirect, LeafKeys
  <2>5. k \in Satisfied[n] <=> Signed(u, def.sign)
    BY <1>2, MeaningAssumption DEF NodeEquation, NodeHolds
  <2> QED
    BY <2>3, <2>4, <2>5 DEF GoodFunction, Truth
<1>3. CASE def.kind # "computedUserSet"
  <2>1. t = [fn |-> "node", key |-> k, sign |-> "pos", depth |-> d, node |-> n]
    BY <1>3 DEF NodeFunction
  <2>2. t \in Function /\ t.fn = "node" /\ t.key = k /\ t.sign = "pos" /\ t.node = n /\ t.depth = d
    BY <2>1 DEF Function, Sign
  <2> QED
    BY <2>2, <1>3 DEF GoodFunction, Truth, RawTruth
<1> QED
  BY <1>2, <1>3

\* The one function check wraps in a union answers for Execute.
LEMMA CheckFunctionTruth ==
    ASSUME ExclusionIsDirect, NEW t, GoodFunction(t), t.fn = "execute", t.depth # 0,
           KindOf(t.key) \in {"relation", "action"}
    PROVE  /\ GoodFunction(CheckFunctionOf(t))
           /\ Truth(CheckFunctionOf(t)) <=> RawTruth(t)
<1>1. t \in Function /\ t.key \in Key /\ t.depth \in Nat
  BY DEF GoodFunction, Function
<1>2. CASE KindOf(t.key) = "action"
  <2> DEFINE root == Root[t.key.entity][t.key.permission]
  <2>1. root \in Node
    BY <1>1, ConstantsAssumption DEF Key
  <2>2. t.key \in Granted <=> t.key \in Satisfied[root]
    BY <1>1, <1>2, MeaningAssumption DEF ActionEquation
  <2>3. CheckFunctionOf(t) = NodeFunction(root, t.key, t.depth)
    BY <1>2 DEF CheckFunctionOf
  <2> QED
    BY <1>1, <2>1, <2>2, <2>3, NodeFunctionTruth DEF RawTruth
<1>3. CASE KindOf(t.key) = "relation"
  <2> DEFINE c == [t EXCEPT !.fn = "direct"]
  <2>1. CheckFunctionOf(t) = c
    BY <1>3 DEF CheckFunctionOf
  <2>2. c \in Function /\ c.fn = "direct" /\ c.key = t.key /\ c.sign = t.sign /\ c.depth = t.depth
    BY <1>1 DEF Function
  <2> QED
    BY <1>3, <2>1, <2>2 DEF GoodFunction, Truth, RawTruth
<1> QED
  BY <1>2, <1>3

\* The user sets of a relation, together with its tuples, answer for checkDirect.
LEMMA UserSetFunctionsTruth ==
    ASSUME NEW t, GoodFunction(t), t.fn = "direct", UserSets(t.key) # {},
           t.key.subject \notin Subjects(t.key)
    PROVE  /\ \A c \in UserSetFunctions(t) : GoodFunction(c)
           /\ (\E c \in UserSetFunctions(t) : Truth(c)) <=> RawTruth(t)
<1>1. /\ t \in Function /\ t.key \in Key /\ t.depth \in Nat /\ t.depth # 0 /\ t.node \in Node
      /\ t.sign = "pos" /\ KindOf(t.key) = "relation"
  BY DEF GoodFunction, Function, Sign, Shallow
<1>2. ASSUME NEW u \in UserSets(t.key)
      PROVE  LET c == Execute(u, t.sign, t.depth - 1, t.node) IN
             GoodFunction(c) /\ (Truth(c) <=> u \in Granted)
  <2>1. u \in Key
    BY <1>1, KeysOfTuples
  <2> QED
    BY <1>1, <2>1 DEF Execute, GoodFunction, Function, Sign, Truth, Signed
<1>3. t.key \in Granted <=> \E u \in UserSets(t.key) : u \in Granted
  BY <1>1, MeaningAssumption DEF RelationEquation
<1> QED
  BY <1>2, <1>3 DEF UserSetFunctions, RawTruth

\* The members of the group that a node opens answer for the node.
LEMMA NodeFunctionsTruth ==
    ASSUME ExclusionIsDirect, NEW t, GoodFunction(t), t.fn = "node"
    PROVE  /\ \A c \in NodeFunctions(t) : GoodFunction(c)
           /\ NodeFunctions(t) = {} => ~RawTruth(t)
           /\ NodeFunctions(t) # {} => (GroupTruth(NodeOp(t), NodeFunctions(t)) <=> RawTruth(t))
<1> DEFINE n == t.node
           k == t.key
           def == NodeDef[n]
<1>1. /\ n \in Node /\ k \in Key /\ t.depth \in Nat /\ t.depth # 0
      /\ def.kind \in {"union", "intersection", "tupleToUserSet"}
  BY ConstantsAssumption DEF GoodFunction, Function, NodeKind
<1>2. def.children \subseteq Node /\ def.sign \in Sign
  BY <1>1, ConstantsAssumption
<1>3. k \in Satisfied[n] <=> NodeHolds(n, k)
  BY <1>1, MeaningAssumption DEF NodeEquation
<1>4. CASE def.kind = "tupleToUserSet"
  <2>1. ASSUME NEW u \in Computed(n, k)
        PROVE  LET c == Execute(u, def.sign, t.depth - 1, n) IN
               GoodFunction(c) /\ (Truth(c) <=> Signed(u, def.sign))
    <3>1. u \in Key
      BY <1>1, KeysOfTuples
    <3>2. def.sign = "neg" => Shallow(u)
      BY <1>1, <1>4 DEF ExclusionIsDirect, LeafKeys
    <3> QED
      BY <1>1, <1>2, <3>1, <3>2 DEF Execute, GoodFunction, Function, Truth
  <2>2. NodeFunctions(t) = {Execute(u, def.sign, t.depth - 1, n) : u \in Computed(n, k)}
    BY <1>4 DEF NodeFunctions
  <2>3. NodeHolds(n, k) <=> \E u \in Computed(n, k) : Signed(u, def.sign)
    BY <1>4 DEF NodeHolds
  <2>4. NodeOp(t) = "union"
    BY <1>4 DEF NodeOp
  <2> QED
    BY <1>3, <2>1, <2>2, <2>3, <2>4 DEF GroupTruth, RawTruth
<1>5. CASE def.kind \in {"union", "intersection"}
  <2>1. ASSUME NEW c \in def.children
        PROVE  /\ GoodFunction(NodeFunction(c, k, t.depth))
               /\ Truth(NodeFunction(c, k, t.depth)) <=> k \in Satisfied[c]
    BY <1>1, <1>2, NodeFunctionTruth
  <2>2. NodeFunctions(t) = {NodeFunction(c, k, t.depth) : c \in def.children}
    BY <1>5 DEF NodeFunctions
  <2>3. CASE def.kind = "union"
    <3>1. NodeHolds(n, k) <=> \E c \in def.children : k \in Satisfied[c]
      BY <2>3 DEF NodeHolds
    <3>2. NodeOp(t) = "union"
      BY <2>3 DEF NodeOp
    <3> QED
      BY <1>3, <2>1, <2>2, <3>1, <3>2 DEF GroupTruth, RawTruth
  <2>4. CASE def.kind = "intersection"
    <3>1. NodeHolds(n, k) <=> def.children # {} /\ \A c \in def.children : k \in Satisfied[c]
      BY <2>4 DEF NodeHolds
    <3>2. NodeOp(t) = "intersection"
      BY <2>4 DEF NodeOp
    <3> QED
      BY <1>3, <2>1, <2>2, <3>1, <3>2 DEF GroupTruth, RawTruth
  <2> QED
    BY <1>5, <2>3, <2>4
<1> QED
  BY <1>1, <1>4, <1>5

(***************************************************************************)
(* The ways in which a step changes the goroutines.  That they still form  *)
(* trees (Tree') is known; what is left are their answers.                 *)
(***************************************************************************)

\* A goroutine ends with an honest response.
LEMMA ReplyStep ==
    ASSUME IndInv, Tree', NEW p \in Live, NEW resp \in Response, Honest(resp, Truth(Term(p))),
           Reply(p, resp), UNCHANGED <<asked, cancelled>>, CacheSound'
    PROVE  IndInv'
<1> USE DEF IndInv
<1>1. p \in Seq(Request \cup Function) /\ Len(p) \in Nat /\ Len(p) > 1
      /\ p[1] \in Request /\ Term(p) \in Function
  BY AtNode
<1>2. ASSUME NEW q \in Live'
      PROVE  /\ q \in Live
             /\ \/ frames'[q] = frames[q]
                \/ /\ q = Parent(p) /\ Len(p) # 2 /\ frames[q].pc = "collect"
                   /\ frames'[q] = [frames[q] EXCEPT
                         !.chan = Append(@, [from |-> Term(p), resp |-> resp])]
  <2>1. q \in Live \ {p}
    BY DEF Reply, Live
  <2>2. CASE Len(p) = 2
    BY <2>1, <2>2 DEF Reply
  <2>3. CASE Len(p) # 2
    BY <2>1, <2>3 DEF Reply
  <2> QED
    BY <2>1, <2>2, <2>3
<1>3. ASSUME NEW q \in Live'
      PROVE  FrameOK(Term(q), frames'[q])
  <2>1. q \in Live /\ frames[q] \in Frame /\ FrameOK(Term(q), frames[q])
    BY <1>2, AtNode DEF FramesOK
  <2>2. CASE frames'[q] = frames[q]
    BY <2>1, <2>2
  <2>3. CASE frames'[q] # frames[q]
    <3> DEFINE d == [from |-> Term(p), resp |-> resp]
               f == frames[q]
               g == frames'[q]
               c == Append(f.chan, d)
    <3>1. q = Parent(p) /\ Len(p) # 2 /\ f.pc = "collect"
      BY <1>2, <2>3
    <3>2. d \in Decision /\ f.chan \in Seq(Decision) /\ c \in Seq(Decision)
      <4>1. d \in Decision
        BY <1>1 DEF Decision
      <4>2. f.chan \in Seq(Decision)
        BY <2>1 DEF Frame
      <4> QED
        BY <4>1, <4>2, AppendProperties
    <3>3. /\ g \in Frame /\ g.chan = c /\ g.resp = f.resp
          /\ g.pc = f.pc /\ g.kids = f.kids /\ g.op = f.op /\ g.got = f.got /\ g.todo = f.todo
      <4>1. g = [f EXCEPT !.chan = c]
        BY <1>2, <2>3
      <4> HIDE DEF c, d
      <4> QED
        BY <4>1, <2>1, <3>2, FrameChan
    <3>4. Term(p) \in f.kids
      <4>1. Len(p) > 2
        <5>1. Len(p) \in Nat /\ Len(p) > 1 /\ Len(p) # 2
          BY <1>1, <3>1
        <5> QED
          BY <5>1, MoreThanTwo
      <4> QED
        BY <4>1, <3>1 DEF Tree, Linked
    <3>5. ASSUME NEW i \in 1 .. Len(g.chan)
          PROVE  g.chan[i].from \in f.kids /\ Honest(g.chan[i].resp, Truth(g.chan[i].from))
      <4>1. CASE i = Len(f.chan) + 1
        <5>1. g.chan[i] = d
          BY <3>2, <3>3, <4>1
        <5> QED
          BY <5>1, <3>4
      <4>2. CASE i # Len(f.chan) + 1
        <5>1. i \in 1 .. Len(f.chan) /\ g.chan[i] = f.chan[i]
          BY <3>2, <3>3, <4>2
        <5> QED
          BY <5>1, <2>1, <3>1 DEF FrameOK, GroupOK
      <4> QED
        BY <4>1, <4>2
    <3> QED
      BY <2>1, <3>1, <3>3, <3>5 DEF FrameOK, GroupOK
  <2> QED
    BY <2>2, <2>3
<1>4. FramesOK'
  BY <1>3 DEF FramesOK, Term
<1>5. AnswersSound'
  <2> SUFFICES ASSUME NEW r \in Request, status'[r] = "answered", answer'[r].err = "none"
               PROVE  answer'[r].can = "allowed" <=> Signed(asked[r].key, asked[r].sign)
    BY DEF AnswersSound, Signed
  <2>1. CASE Len(p) = 2 /\ r = p[1]
    <3>1. answer'[r] = resp
      BY <2>1 DEF Reply, Tree, TypeOK
    <3>2. Term(p) = asked[r]
      BY <2>1 DEF Tree, Rooted
    <3>3. asked[r].fn = "execute"
      BY AsksFunctions DEF Tree, TypeOK
    <3> QED
      BY <3>1, <3>2, <3>3 DEF Honest, Truth
  <2>2. CASE ~(Len(p) = 2 /\ r = p[1])
    <3>1. answer'[r] = answer[r] /\ status'[r] = status[r]
      BY <2>2 DEF Reply, Tree, TypeOK
    <3> QED
      BY <3>1 DEF AnswersSound
  <2> QED
    BY <2>1, <2>2
<1> QED
  BY <1>4, <1>5

\* A goroutine opens a group or goes on with the one it has.
LEMMA GroupStep ==
    ASSUME IndInv, Tree', NEW p \in Live, NEW f,
           frames' = [frames EXCEPT ![p] = f], FrameOK(Term(p), f),
           UNCHANGED <<asked, status, answer, cancelled, cache>>
    PROVE  IndInv'
<1> USE DEF IndInv
<1>1. Live' = Live
  BY DEF Live
<1>2. ASSUME NEW q \in Live
      PROVE  frames'[q] = IF q = p THEN f ELSE frames[q]
  BY DEF Live
<1>3. CacheSound' /\ AnswersSound'
  BY DEF CacheSound, AnswersSound, Signed
<1>4. FramesOK'
  <2>1. ASSUME NEW q \in Live PROVE FrameOK(Term(q), frames'[q])
    BY <1>2 DEF FramesOK
  <2> QED
    BY <2>1, <1>1 DEF FramesOK, Term
<1> QED
  BY <1>3, <1>4

\* A goroutine is started: q is its path, base what it does to the others.
LEMMA BirthStep ==
    ASSUME IndInv, Tree', NEW q, q \notin Live, GoodFunction(Term(q)),
           NEW base, \A p \in Live : FrameOK(Term(p), base[p]),
           frames' = [p \in Live \cup {q} |-> IF p = q THEN NewFrame ELSE base[p]],
           \A r \in Request : status'[r] = "answered" => status[r] = "answered",
           UNCHANGED <<asked, answer, cancelled, cache>>
    PROVE  IndInv'
<1> USE DEF IndInv
<1>1. Live' = Live \cup {q}
  BY DEF Live
<1>2. FramesOK'
  <2>1. ASSUME NEW p \in Live' PROVE FrameOK(Term(p), frames'[p])
    <3>1. CASE p = q
      BY <3>1, NewFrameShape DEF FrameOK
    <3>2. CASE p \in Live
      <4>1. frames'[p] = base[p]
        BY <3>2
      <4> QED
        BY <3>2, <4>1
    <3> QED
      BY <3>1, <3>2, <1>1
  <2> QED
    BY <2>1 DEF FramesOK, Term
<1>3. CacheSound'
  BY DEF CacheSound
<1>4. AnswersSound'
  BY DEF AnswersSound, Signed
<1> QED
  BY <1>2, <1>3, <1>4

(***************************************************************************)
(* The invariant is inductive.                                             *)
(***************************************************************************)

\* It holds before any client calls.
LEMMA InitIndInv == Init => IndInv
<1> SUFFICES ASSUME Init PROVE IndInv
  OBVIOUS
<1>1. Live = {} /\ DOMAIN cache = {}
  BY DEF Init, Live
<1>2. FramesOK /\ CacheSound
  BY <1>1 DEF FramesOK, CacheSound
<1>3. AnswersSound
  BY DEF Init, AnswersSound
<1> QED
  BY <1>2, <1>3, InitTree DEF IndInv

\* Two requests share a cache key only if they ask about a user with a relation.
LEMMA CacheKeyInjective == ASSUME PlainUsers, NEW k \in Key PROVE CacheKey(k) = k
<1>1. k.subject \in AnySubject /\ k.subject \in Requester
  BY ConstantsAssumption DEF Key
<1>2. CASE k.subject.entity \in User
  <2>1. k.subject.relation = ""
    BY <1>1, <1>2 DEF PlainUsers
  <2>2. [entity |-> k.subject.entity, relation |-> ""] = k.subject
    BY <1>1, <2>1 DEF AnySubject
  <2> QED
    BY <1>2, <2>2 DEF CacheKey, Key
<1>3. CASE k.subject.entity \notin User
  BY <1>3 DEF CacheKey
<1> QED
  BY <1>2, <1>3

\* SetCheckKey with the meaning of the key keeps the cache sound.
LEMMA SetCheckKeySound ==
    ASSUME PlainUsers, IndInv, NEW k \in Key, NEW can \in Can,
           can = "allowed" <=> k \in Granted, cache' = SetCheckKey(k, can)
    PROVE  CacheSound'
<1>1. \A q \in Key : CacheKey(q) = q
  BY CacheKeyInjective
<1>2. /\ DOMAIN cache' = DOMAIN cache \cup {k}
      /\ \A q \in DOMAIN cache' : cache'[q] = IF q = k THEN can ELSE cache[q]
  BY <1>1 DEF SetCheckKey
<1> QED
  BY <1>1, <1>2 DEF IndInv, CacheSound

\* An unchanged cache stays sound.
LEMMA SameCacheSound == ASSUME IndInv, cache' = cache PROVE CacheSound'
  BY DEF IndInv, CacheSound

\* A client starts a check, cancels one, or the cache drops an entry.
LEMMA EnvironmentStep ==
    ASSUME ExclusionIsDirect, IndInv, Tree',
           \/ \E r \in Request : Start(r) \/ Cancel(r)
           \/ \E k \in DOMAIN cache : Evict(k)
    PROVE  IndInv'
<1>1. ASSUME NEW r \in Request, Start(r)
      PROVE  IndInv'
  <2> DEFINE q == <<r, asked[r]>>
  <2>1. asked \in Asks /\ asked[r] \in Function /\ asked[r].fn = "execute"
    BY AsksFunctions DEF IndInv, Tree, TypeOK
  <2>2. Term(q) = asked[r] /\ q[1] = r
    BY DEF Term
  <2>3. q \notin Live
    BY <1>1, <2>2 DEF Start, IndInv, Tree, Rooted
  <2>4. GoodFunction(Term(q))
    BY <2>1, <2>2 DEF GoodFunction, ExclusionIsDirect
  <2>5. \A p \in Live : FrameOK(Term(p), frames[p])
    BY DEF IndInv, FramesOK
  <2>6. frames' = [p \in Live \cup {q} |-> IF p = q THEN NewFrame ELSE frames[p]]
    BY <1>1 DEF Start
  <2>7. /\ \A s \in Request : status'[s] = "answered" => status[s] = "answered"
        /\ UNCHANGED <<asked, answer, cancelled, cache>>
    BY <1>1 DEF Start, IndInv, Tree, TypeOK
  <2> HIDE DEF q
  <2> QED
    BY <2>3, <2>4, <2>5, <2>6, <2>7, BirthStep
<1>2. ASSUME NEW r \in Request, Cancel(r)
      PROVE  IndInv'
  BY <1>2 DEF Cancel, IndInv, FramesOK, CacheSound, AnswersSound, Live, Term
<1>3. ASSUME NEW k \in DOMAIN cache, Evict(k)
      PROVE  IndInv'
  <2>1. /\ DOMAIN cache' = DOMAIN cache \ {k}
        /\ \A q \in DOMAIN cache' : cache'[q] = cache[q]
        /\ UNCHANGED <<asked, status, answer, cancelled, frames>>
    BY <1>3 DEF Evict
  <2>2. CacheSound'
    BY <2>1 DEF IndInv, CacheSound
  <2>3. FramesOK' /\ AnswersSound'
    BY <2>1 DEF IndInv, FramesOK, AnswersSound, Live, Term
  <2> QED
    BY <2>2, <2>3 DEF IndInv
<1> QED
  BY <1>1, <1>2, <1>3

\* What the invariant says of a goroutine that is about to take a step.
LEMMA AtFrame ==
    ASSUME IndInv, NEW p \in Live
    PROVE  /\ Term(p) \in Function /\ Term(p).key \in Key /\ Term(p).sign \in Sign
           /\ frames[p] \in Frame /\ frames[p].todo \subseteq frames[p].kids
           /\ frames[p].pc = "eval" => frames[p].todo = {}
           /\ GoodFunction(Term(p)) /\ FrameOK(Term(p), frames[p])
<1>1. /\ Term(p) \in Function /\ Term(p).key \in Key /\ Term(p).sign \in Sign
      /\ frames[p] \in Frame /\ Shaped(p[1], frames[p])
  BY AtNode DEF IndInv
<1>2. FrameOK(Term(p), frames[p]) /\ GoodFunction(Term(p))
  BY DEF IndInv, FramesOK, FrameOK
<1> QED
  BY <1>1, <1>2 DEF Shaped

\* Failures are responses and claim nothing.
LEMMA FailureHonest ==
    ASSUME NEW err \in Err \ {"none"}, NEW truth
    PROVE  Failure(err) \in Response /\ Honest(Failure(err), truth)
  BY DEF Failure, Response, Can, Honest

\* Verdicts are responses.
LEMMA VerdictResponse ==
    ASSUME NEW can \in Can
    PROVE  Verdict(can) \in Response /\ Verdict(can).can = can /\ Verdict(can).err = "none"
  BY DEF Verdict, Response, Err

\* Inverting the meaning of a relation is the meaning of its exclusion.
LEMMA SignedVerdict ==
    ASSUME NEW k, NEW sign \in Sign, NEW can \in Can, can = "allowed" <=> k \in Granted
    PROVE  LET c == IF sign = "neg" THEN Flip(can) ELSE can IN
           c \in Can /\ (c = "allowed" <=> Signed(k, sign))
  BY DEF Sign, Can, Flip, Signed

\* The steps that end a goroutine at once.
LEMMA AnswerStep ==
    ASSUME ExclusionIsDirect, PlainUsers, IndInv, Tree', NEW p \in Live,
           \/ DepthExceeded(p) \/ UndefinedPermission(p) \/ RepositoryFails(p)
           \/ CacheHit(p) \/ DirectAnswer(p)
    PROVE  IndInv'
<1> DEFINE t == Term(p)
           k == t.key
<1>1. ASSUME NEW err \in Err \ {"none"}, frames[p].pc = "eval",
             Reply(p, Failure(err)), UNCHANGED <<asked, cancelled, cache>>
      PROVE  IndInv'
  <2>1. Failure(err) \in Response /\ Honest(Failure(err), Truth(Term(p)))
    BY FailureHonest
  <2> QED
    BY <1>1, <2>1, SameCacheSound, ReplyStep
<1>2. CASE DepthExceeded(p) \/ UndefinedPermission(p) \/ RepositoryFails(p)
  BY <1>1, <1>2 DEF DepthExceeded, UndefinedPermission, RepositoryFails, Evaluating, Frozen, Err
<1>3. CASE CacheHit(p)
  <2> DEFINE can == cache[CacheKey(k)]
             c == IF t.sign = "neg" THEN Flip(can) ELSE can
  <2>1. /\ frames[p].pc = "eval" /\ t.fn = "execute" /\ CacheKey(k) \in DOMAIN cache
        /\ Reply(p, Verdict(c)) /\ UNCHANGED <<asked, cancelled, cache>>
    BY <1>3 DEF CacheHit, Evaluating, Frozen
  <2>2. can \in Can /\ (can = "allowed" <=> k \in Granted)
    BY <2>1, AtFrame DEF IndInv, Tree, TypeOK, CacheSound
  <2> HIDE DEF can
  <2>3. c \in Can /\ (c = "allowed" <=> Signed(k, t.sign))
    BY <2>2, AtFrame, SignedVerdict
  <2>4. Truth(t) <=> Signed(k, t.sign)
    BY <2>1 DEF Truth
  <2>5. Verdict(c) \in Response /\ Honest(Verdict(c), Truth(t))
    BY <2>3, <2>4, VerdictResponse DEF Honest
  <2> QED
    BY <2>1, <2>5, SameCacheSound, ReplyStep
<1>4. CASE DirectAnswer(p)
  <2> DEFINE can == IF k.subject \in Subjects(k) THEN "allowed" ELSE "denied"
  <2>1. /\ frames[p].pc = "eval" /\ t.fn = "direct"
        /\ can = "allowed" \/ UserSets(k) = {}
        /\ cache' = SetCheckKey(k, can)
        /\ Reply(p, Verdict(can)) /\ UNCHANGED <<asked, cancelled>>
    BY <1>4 DEF DirectAnswer, Evaluating, Frozen
  <2>2. k \in Key /\ KindOf(k) = "relation" /\ can \in Can
    BY <2>1, AtFrame DEF GoodFunction, Can
  <2>3. can = "allowed" <=> k \in Granted
    BY <2>1, <2>2, MeaningAssumption DEF RelationEquation
  <2>4. Truth(t) <=> k \in Granted
    BY <2>1 DEF Truth, RawTruth
  <2>5. Verdict(can) \in Response /\ Honest(Verdict(can), Truth(t))
    BY <2>2, <2>3, <2>4, VerdictResponse DEF Honest
  <2> HIDE DEF can
  <2>6. CacheSound'
    BY <2>1, <2>2, <2>3, SetCheckKeySound
  <2> QED
    BY <2>1, <2>5, <2>6, ReplyStep
<1> QED
  BY <1>2, <1>3, <1>4

\* The steps that open a group.
LEMMA OpenStep ==
    ASSUME ExclusionIsDirect, IndInv, Tree', NEW p \in Live,
           CacheMiss(p) \/ DirectUserSets(p) \/ NodeGroup(p)
    PROVE  IndInv'
<1> DEFINE t == Term(p)
<1>1. ASSUME NEW op \in {"union", "intersection"}, NEW kids,
             frames[p].pc = "eval", Open(p, op, kids),
             t.fn = "execute" => KindOf(t.key) \in {"relation", "action"},
             \A c \in kids : GoodFunction(c),
             GroupTruth(op, kids) <=> RawTruth(t),
             UNCHANGED <<asked, cancelled, status, answer, cache>>
      PROVE  IndInv'
  <2> DEFINE f == Idle(op, kids, "collect")
  <2>1. /\ f.pc = "collect" /\ f.op = op /\ f.kids = kids /\ f.got = {}
        /\ f.chan = <<>> /\ Len(f.chan) = 0
    BY DEF Idle
  <2>2. GroupOK(t, f)
    BY <1>1, <2>1 DEF GroupOK
  <2>3. FrameOK(Term(p), f)
    BY <2>1, <2>2, AtFrame DEF FrameOK
  <2>4. frames' = [frames EXCEPT ![p] = f] /\ UNCHANGED <<asked, status, answer, cancelled, cache>>
    BY <1>1 DEF Open
  <2> HIDE DEF f
  <2> QED
    BY <2>3, <2>4, GroupStep
<1>2. CASE CacheMiss(p)
  <2> DEFINE kids == {CheckFunctionOf(t)}
  <2>1. /\ frames[p].pc = "eval" /\ t.fn = "execute" /\ t.depth # 0
        /\ KindOf(t.key) \in {"relation", "action"}
        /\ Open(p, "union", kids) /\ UNCHANGED <<asked, cancelled, status, answer, cache>>
    BY <1>2 DEF CacheMiss, Evaluating, Frozen
  <2>2. GoodFunction(CheckFunctionOf(t)) /\ (Truth(CheckFunctionOf(t)) <=> RawTruth(t))
    BY <2>1, AtFrame, CheckFunctionTruth
  <2>3. (\A c \in kids : GoodFunction(c)) /\ (GroupTruth("union", kids) <=> RawTruth(t))
    BY <2>2 DEF GroupTruth
  <2> HIDE DEF kids
  <2> QED
    BY <1>1, <2>1, <2>3
<1>3. CASE DirectUserSets(p)
  <2> DEFINE kids == UserSetFunctions(t)
  <2>1. /\ frames[p].pc = "eval" /\ t.fn = "direct"
        /\ t.key.subject \notin Subjects(t.key) /\ UserSets(t.key) # {}
        /\ Open(p, "union", kids) /\ UNCHANGED <<asked, cancelled, status, answer, cache>>
    BY <1>3 DEF DirectUserSets, Evaluating, Frozen
  <2>2. (\A c \in kids : GoodFunction(c)) /\ ((\E c \in kids : Truth(c)) <=> RawTruth(t))
    BY <2>1, AtFrame, UserSetFunctionsTruth
  <2>3. GroupTruth("union", kids) <=> RawTruth(t)
    BY <2>2 DEF GroupTruth
  <2> QED
    BY <1>1, <2>1, <2>2, <2>3
<1>4. CASE NodeGroup(p)
  <2> DEFINE kids == NodeFunctions(t)
  <2>1. /\ frames[p].pc = "eval" /\ t.fn = "node"
        /\ UNCHANGED <<asked, cancelled, cache>>
    BY <1>4 DEF NodeGroup, Evaluating, Frozen
  <2>2. /\ \A c \in kids : GoodFunction(c)
        /\ kids = {} => ~RawTruth(t)
        /\ kids # {} => (GroupTruth(NodeOp(t), kids) <=> RawTruth(t))
    BY <2>1, AtFrame, NodeFunctionsTruth
  <2>3. CASE kids = {}
    <3>1. Reply(p, Verdict("denied"))
      BY <1>4, <2>3 DEF NodeGroup
    <3>2. ~Truth(t)
      BY <2>1, <2>2, <2>3 DEF Truth
    <3>3. Verdict("denied") \in Response /\ Honest(Verdict("denied"), Truth(t))
      BY <3>2, VerdictResponse DEF Honest, Can
    <3> QED
      BY <2>1, <3>1, <3>3, SameCacheSound, ReplyStep
  <2>4. CASE kids # {}
    <3>1. Open(p, NodeOp(t), kids) /\ UNCHANGED <<status, answer>>
      BY <1>4, <2>4 DEF NodeGroup
    <3>2. NodeOp(t) \in {"union", "intersection"}
      BY DEF NodeOp
    <3> QED
      BY <1>1, <2>1, <2>2, <2>4, <3>1, <3>2
  <2> QED
    BY <2>3, <2>4
<1> QED
  BY <1>2, <1>3, <1>4

\* A group that has its answer: the answer has to be honest.
LEMMA CleanStep ==
    ASSUME IndInv, Tree', NEW p \in Live, frames[p].pc = "collect",
           NEW resp \in Response, Honest(resp, RawTruth(Term(p))),
           frames' = [frames EXCEPT ![p] = Clean(p, resp)],
           UNCHANGED <<asked, status, answer, cancelled, cache>>
    PROVE  IndInv'
<1> DEFINE g == Clean(p, resp)
<1>1. frames[p] \in Frame /\ FrameOK(Term(p), frames[p])
  BY AtFrame
<1>2. g.pc = "clean" /\ g.resp = resp /\ g.kids = frames[p].kids
  BY <1>1, CleanFrame
<1>3. FrameOK(Term(p), g)
  BY <1>1, <1>2 DEF FrameOK, GroupOK
<1> HIDE DEF g
<1>4. frames' = [frames EXCEPT ![p] = g]
  BY DEF g
<1> QED
  BY <1>3, <1>4, GroupStep

\* What a decision tells a group that has only seen indecisive ones before.
LEMMA DecisionSettles ==
    ASSUME NEW op \in {"union", "intersection"}, NEW kids, NEW got, NEW t,
           NEW from \in kids, NEW can \in Can,
           can = "allowed" <=> Truth(from),
           \A c \in got : Truth(c) <=> op = "intersection",
           GroupTruth(op, kids) <=> RawTruth(t)
    PROVE  /\ can = Decisive(op) => (can = "allowed" <=> RawTruth(t))
           /\ can # Decisive(op) => \A c \in got \cup {from} : Truth(c) <=> op = "intersection"
           /\ got \cup {from} = kids => (can = "allowed" <=> RawTruth(t))
<1>1. CASE op = "union"
  BY <1>1 DEF GroupTruth, Decisive, Can
<1>2. CASE op = "intersection"
  BY <1>2 DEF GroupTruth, Decisive, Can
<1> QED
  BY <1>1, <1>2

\* A group receives a decision.
LEMMA ReceiveStep ==
    ASSUME IndInv, Tree', NEW p \in Live, Receive(p)
    PROVE  IndInv'
<1> DEFINE t == Term(p)
           f == frames[p]
           d == Head(f.chan)
           got == f.got \cup {d.from}
           g == [f EXCEPT !.got = got, !.chan = Tail(@)]
<1>1. /\ f.pc = "collect" /\ f.chan # <<>>
      /\ UNCHANGED <<asked, status, answer, cancelled, cache>>
  BY DEF Receive, Frozen
<1>2. f \in Frame /\ FrameOK(t, f) /\ GroupOK(t, f)
  BY <1>1, AtFrame DEF FrameOK
<1>3. f.chan \in Seq(Decision) /\ f.op \in {"union", "intersection"}
  BY <1>2 DEF Frame
<1>4. /\ d \in Decision /\ 1 \in 1 .. Len(f.chan) /\ d = f.chan[1]
      /\ Tail(f.chan) \in Seq(Decision)
      /\ \A i \in 1 .. Len(Tail(f.chan)) : i + 1 \in 1 .. Len(f.chan) /\ Tail(f.chan)[i] = f.chan[i + 1]
  BY <1>1, <1>3, HeadTailProperties
<1>5. /\ d.from \in f.kids /\ Honest(d.resp, Truth(d.from))
      /\ d.resp \in Response /\ d.resp.can \in Can /\ d.resp.err \in Err /\ d.from \in Function
  BY <1>1, <1>2, <1>4 DEF GroupOK, Decision, Response
<1>6. CASE d.resp.err # "none"
  <2>1. frames' = [frames EXCEPT ![p] = Clean(p, Failure(d.resp.err))]
    BY <1>6 DEF Receive
  <2>2. Failure(d.resp.err) \in Response /\ Honest(Failure(d.resp.err), RawTruth(t))
    BY <1>5, <1>6, FailureHonest
  <2> QED
    BY <1>1, <2>1, <2>2, CleanStep
<1>7. CASE d.resp.err = "none"
  <2>1. d.resp.can = "allowed" <=> Truth(d.from)
    BY <1>5, <1>7 DEF Honest
  <2>2. /\ \A c \in f.got : Truth(c) <=> f.op = "intersection"
        /\ GroupTruth(f.op, f.kids) <=> RawTruth(t)
    BY <1>1, <1>2 DEF GroupOK
  <2>4. /\ d.resp.can = Decisive(f.op) => (d.resp.can = "allowed" <=> RawTruth(t))
        /\ d.resp.can # Decisive(f.op) => \A c \in got : Truth(c) <=> f.op = "intersection"
        /\ got = f.kids => (d.resp.can = "allowed" <=> RawTruth(t))
    <3> DEFINE kids == f.kids
               seen == f.got
               from == d.from
               can == d.resp.can
               op == f.op
    <3>1. /\ op \in {"union", "intersection"} /\ from \in kids /\ can \in Can
          /\ can = "allowed" <=> Truth(from)
          /\ \A c \in seen : Truth(c) <=> op = "intersection"
          /\ GroupTruth(op, kids) <=> RawTruth(t)
      BY <1>3, <1>5, <2>1, <2>2
    <3> HIDE DEF kids, seen, from, can, op, t
    <3>2. /\ can = Decisive(op) => (can = "allowed" <=> RawTruth(t))
          /\ can # Decisive(op) => \A c \in seen \cup {from} : Truth(c) <=> op = "intersection"
          /\ seen \cup {from} = kids => (can = "allowed" <=> RawTruth(t))
      BY <3>1, DecisionSettles
    <3> QED
      BY <3>2 DEF kids, seen, from, can, op, t
  <2>5. CASE d.resp.can = Decisive(f.op) \/ got = f.kids
    <3>1. frames' = [frames EXCEPT ![p] = Clean(p, Verdict(d.resp.can))]
      BY <1>7, <2>5 DEF Receive
    <3>2. Verdict(d.resp.can) \in Response /\ Honest(Verdict(d.resp.can), RawTruth(t))
      BY <1>5, <2>4, <2>5, VerdictResponse DEF Honest
    <3> QED
      BY <1>1, <3>1, <3>2, CleanStep
  <2>6. CASE ~(d.resp.can = Decisive(f.op) \/ got = f.kids)
    <3>1. frames' = [frames EXCEPT ![p] = g]
      BY <1>7, <2>6 DEF Receive
    <3>2. got \subseteq Function
      BY <1>2, <1>5 DEF Frame
    <3>3. /\ g \in Frame /\ g.got = got /\ g.chan = Tail(f.chan) /\ g.pc = f.pc /\ g.op = f.op
          /\ g.kids = f.kids /\ g.todo = f.todo /\ g.resp = f.resp
      BY <1>2, <1>4, <3>2 DEF Frame
    <3>4. ASSUME NEW i \in 1 .. Len(g.chan)
          PROVE  g.chan[i].from \in f.kids /\ Honest(g.chan[i].resp, Truth(g.chan[i].from))
      BY <1>1, <1>2, <1>4, <3>3 DEF GroupOK
    <3>5. GroupOK(t, g)
      BY <1>1, <1>2, <2>4, <2>6, <3>3, <3>4 DEF GroupOK
    <3>6. FrameOK(t, g)
      BY <1>1, <1>2, <3>3, <3>5 DEF FrameOK
    <3> HIDE DEF g
    <3> QED
      BY <1>1, <3>1, <3>3, <3>6, GroupStep
  <2> QED
    BY <2>5, <2>6
<1> QED
  BY <1>6, <1>7

\* What the spawner does to its group changes no answer.
LEMMA FrameTodoOK ==
    ASSUME NEW f \in Frame, NEW todo \in SUBSET f.todo, NEW t, FrameOK(t, f)
    PROVE  FrameOK(t, [f EXCEPT !.todo = todo])
<1> DEFINE g == [f EXCEPT !.todo = todo]
<1>1. /\ g.pc = f.pc /\ g.kids = f.kids /\ g.op = f.op
      /\ g.got = f.got /\ g.chan = f.chan /\ g.resp = f.resp
  BY FrameTodo
<1> HIDE DEF g
<1>2. FrameOK(t, g)
  BY <1>1 DEF FrameOK, GroupOK
<1> QED
  BY <1>2 DEF g

\* The spawner starts a member of its group.
LEMMA SpawnStep ==
    ASSUME IndInv, Tree', NEW p \in Live, NEW t \in frames[p].todo, Spawn(p, t)
    PROVE  IndInv'
<1> DEFINE q == Append(p, t)
           g == [frames[p] EXCEPT !.todo = frames[p].todo \ {t}]
           base == [x \in Live |-> IF x = p THEN g ELSE frames[x]]
<1>1. /\ frames[p] \in Frame /\ FrameOK(Term(p), frames[p])
      /\ frames[p].pc # "eval" /\ t \in frames[p].kids
  BY AtFrame
<1>2. GoodFunction(t) /\ t \in Function
  BY <1>1 DEF FrameOK, GroupOK, GoodFunction
<1>3. p \in Seq(Request \cup Function) /\ Len(p) \in Nat /\ Len(p) > 1
  BY AtNode DEF IndInv
<1>4. Len(q) = Len(p) + 1 /\ Term(q) = t /\ Parent(q) = p
  BY <1>2, <1>3, ChildPath
<1>5. q \notin Live
  <2>1. Len(q) > 2
    BY <1>3, <1>4
  <2> QED
    BY <1>4, <2>1 DEF IndInv, Tree, Linked
<1>6. FrameOK(Term(p), g)
  BY <1>1, FrameTodoOK
<1>7. frames' = [x \in Live \cup {q} |-> IF x = q THEN NewFrame ELSE base[x]]
  BY <1>5 DEF Spawn
<1>8. \A x \in Live : FrameOK(Term(x), base[x])
  <2> SUFFICES ASSUME NEW x \in Live PROVE FrameOK(Term(x), base[x])
    OBVIOUS
  <2>1. CASE x = p
    <3>1. base[x] = g
      BY <2>1
    <3> HIDE DEF g, base
    <3> QED
      BY <2>1, <3>1, <1>6
  <2>2. CASE x # p
    <3>1. base[x] = frames[x]
      BY <2>2
    <3> HIDE DEF base
    <3> QED
      BY <3>1, AtFrame
  <2> QED
    BY <2>1, <2>2
<1>9. /\ \A r \in Request : status'[r] = "answered" => status[r] = "answered"
      /\ UNCHANGED <<asked, answer, cancelled, cache>>
  BY DEF Spawn, Frozen
<1>10. GoodFunction(Term(q))
  BY <1>2, <1>4
<1> HIDE DEF q, g, base
<1> QED
  BY <1>5, <1>7, <1>8, <1>9, <1>10, BirthStep

\* The spawner gives up, or ctx.Done() ends the collection.
LEMMA StopStep ==
    ASSUME IndInv, Tree', NEW p \in Live, SpawnerStops(p) \/ SeeDone(p)
    PROVE  IndInv'
<1>1. CASE SpawnerStops(p)
  <2> DEFINE g == [frames[p] EXCEPT !.todo = {}]
  <2>1. /\ frames' = [frames EXCEPT ![p] = g]
        /\ UNCHANGED <<asked, status, answer, cancelled, cache>>
    BY <1>1 DEF SpawnerStops, Frozen
  <2>2. {} \in SUBSET frames[p].todo
    OBVIOUS
  <2>3. FrameOK(Term(p), g)
    BY <2>2, AtFrame, FrameTodoOK
  <2> HIDE DEF g
  <2> QED
    BY <2>1, <2>3, GroupStep
<1>2. CASE SeeDone(p)
  <2>1. Failure("cancelled") \in Response /\ Honest(Failure("cancelled"), RawTruth(Term(p)))
    BY FailureHonest DEF Err
  <2> QED
    BY <1>2, <2>1, CleanStep DEF SeeDone, Frozen
<1> QED
  BY <1>1, <1>2

\* A group is finished and its function returns.
LEMMA ReturnStep ==
    ASSUME PlainUsers, IndInv, Tree', NEW p \in Live, Return(p)
    PROVE  IndInv'
<1> DEFINE t == Term(p)
           resp == frames[p].resp
           relation == t.fn = "execute" /\ KindOf(t.key) = "relation" /\ resp.err = "none"
           out == IF relation /\ t.sign = "neg" THEN Verdict(Flip(resp.can)) ELSE resp
<1>1. /\ frames[p].pc = "clean"
      /\ cache' = IF relation THEN SetCheckKey(t.key, resp.can) ELSE cache
      /\ Reply(p, out) /\ UNCHANGED <<asked, cancelled>>
  BY DEF Return, Frozen
<1>2. /\ frames[p] \in Frame /\ FrameOK(t, frames[p]) /\ GoodFunction(t)
      /\ t.key \in Key /\ t.sign \in Sign
  BY AtFrame
<1>3. resp \in Response /\ resp.can \in Can
  BY <1>2 DEF Frame, Response
<1>4. /\ t.fn = "execute" => KindOf(t.key) \in {"relation", "action"}
      /\ Honest(resp, RawTruth(t))
  BY <1>1, <1>2 DEF FrameOK, GroupOK
<1>5. CASE relation
  <2>1. resp.can = "allowed" <=> t.key \in Granted
    BY <1>4, <1>5 DEF Honest, RawTruth
  <2> DEFINE c == IF t.sign = "neg" THEN Flip(resp.can) ELSE resp.can
  <2>2. c \in Can /\ (c = "allowed" <=> Signed(t.key, t.sign))
    BY <1>2, <1>3, <2>1, SignedVerdict
  <2>3. out \in Response /\ out.can = c /\ out.err = "none"
    <3>1. CASE t.sign = "neg"
      BY <1>5, <2>2, <3>1, VerdictResponse
    <3>2. CASE t.sign # "neg"
      BY <1>3, <1>5, <3>2
    <3> QED
      BY <3>1, <3>2
  <2>4. Truth(t) <=> Signed(t.key, t.sign)
    BY <1>5 DEF Truth
  <2>5. Honest(out, Truth(t))
    BY <2>2, <2>3, <2>4 DEF Honest
  <2>6. cache' = SetCheckKey(t.key, resp.can)
    BY <1>1, <1>5
  <2>7. CacheSound'
    BY <1>2, <1>3, <2>1, <2>6, SetCheckKeySound
  <2> HIDE DEF out
  <2> QED
    BY <1>1, <2>3, <2>5, <2>7, ReplyStep
<1>6. CASE ~relation
  <2>1. out = resp /\ cache' = cache
    BY <1>1, <1>6
  <2>2. resp.err = "none" => (Truth(t) <=> RawTruth(t))
    <3>1. CASE t.fn = "execute"
      <4>1. resp.err = "none" => KindOf(t.key) = "action"
        BY <1>4, <1>6, <3>1
      <4>2. resp.err = "none" => t.sign = "pos"
        BY <1>2, <4>1 DEF GoodFunction, Shallow, Sign
      <4> QED
        BY <3>1, <4>2 DEF Truth, RawTruth, Signed
    <3>2. CASE t.fn # "execute"
      BY <3>2 DEF Truth
    <3> QED
      BY <3>1, <3>2
  <2>3. Honest(resp, Truth(t))
    BY <1>4, <2>2 DEF Honest
  <2>4. Reply(p, resp)
    BY <1>1, <2>1
  <2> QED
    BY <1>1, <1>3, <2>1, <2>3, <2>4, SameCacheSound, ReplyStep
<1> QED
  BY <1>5, <1>6

\* Every step keeps the invariant.
LEMMA NextIndInv == ExclusionIsDirect /\ PlainUsers /\ IndInv /\ [Next]_vars => IndInv'
<1> SUFFICES ASSUME ExclusionIsDirect, PlainUsers, IndInv, [Next]_vars PROVE IndInv'
  OBVIOUS
<1> Tree'
  BY NextTree DEF IndInv
<1>1. CASE \/ \E r \in Request : Start(r) \/ Cancel(r)
           \/ \E k \in DOMAIN cache : Evict(k)
  BY <1>1, EnvironmentStep
<1>2. CASE Run
  <2>1. PICK p \in Live : Step(p)
    BY <1>2 DEF Run
  <2>2. CASE \/ DepthExceeded(p) \/ UndefinedPermission(p) \/ RepositoryFails(p)
             \/ CacheHit(p) \/ DirectAnswer(p)
    BY <2>2, AnswerStep
  <2>3. CASE CacheMiss(p) \/ DirectUserSets(p) \/ NodeGroup(p)
    BY <2>3, OpenStep
  <2>4. CASE \E t \in frames[p].todo : Spawn(p, t)
    BY <2>4, SpawnStep
  <2>5. CASE SpawnerStops(p) \/ SeeDone(p)
    BY <2>5, StopStep
  <2>6. CASE Receive(p)
    BY <2>6, ReceiveStep
  <2>7. CASE Return(p)
    BY <2>7, ReturnStep
  <2> QED
    BY <2>1, <2>2, <2>3, <2>4, <2>5, <2>6, <2>7 DEF Step
<1>3. CASE UNCHANGED vars
  BY <1>3 DEF vars, IndInv, FramesOK, CacheSound, AnswersSound, Live, Term
<1> QED
  BY <1>1, <1>2, <1>3 DEF Next

(***************************************************************************)
(* The theorems.                                                           *)
(***************************************************************************)

\* The invariant holds throughout every behaviour of concurrent checks.
THEOREM Invariance == ASSUME ExclusionIsDirect, PlainUsers PROVE Spec => []IndInv
<1>1. Init => IndInv
  BY InitIndInv
<1>2. IndInv /\ [Next]_vars => IndInv'
  BY NextIndInv
<1> QED
  BY <1>1, <1>2, PTL DEF Spec

\* Nothing that Execute or checkDirect caches ever contradicts the schema and the tuples.
THEOREM CacheCorrect == ASSUME ExclusionIsDirect, PlainUsers PROVE Spec => []CacheSound
<1>1. IndInv => CacheSound
  BY DEF IndInv
<1> QED
  BY <1>1, Invariance, PTL

\* Every check that returns without an error returns the meaning of the schema.
THEOREM AnswersCorrect == ASSUME ExclusionIsDirect, PlainUsers PROVE Spec => []AnswersSound
<1>1. IndInv => AnswersSound
  BY DEF IndInv
<1> QED
  BY <1>1, Invariance, PTL
=============================================================================
