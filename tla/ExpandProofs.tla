---------------------------- MODULE ExpandProofs ----------------------------
(***************************************************************************)
(* Proofs about Expand, for every schema, every set of tuples, every       *)
(* request, both engines and every bound: which replies say CANCELLED,     *)
(* that a reply without an error is the tree of the request where no user  *)
(* sets are met, and that no goroutine waits in vain or runs in circles.   *)
(***************************************************************************)
EXTENDS Expand, SequenceTheorems, FiniteSetTheorems, NaturalsInduction, TLAPS

(***************************************************************************)
(* The inductive invariant.                                                *)
(***************************************************************************)

Fields == {"f", "at", "functions", "got"}

Shapes == /\ world \in Worlds
          /\ cancelled \in BOOLEAN /\ crashed \in BOOLEAN
          /\ act = [p \in DOMAIN act |-> act[p]]
          /\ chan = [p \in DOMAIN chan |-> chan[p]]
          /\ \A p \in DOMAIN act : /\ act[p] = [x \in Fields |-> act[p][x]]
                                   /\ act[p].at \in {"new", "root", "collect", "sent"}

\* Goroutines are started from the root on, and none by one that has not begun.
Paths == /\ DOMAIN act \subseteq Seq(Nat)
         /\ <<>> \in DOMAIN act
         /\ act[<<>>].f = Asked
         /\ \A p \in DOMAIN act : \A i \in 0..Len(p) : SubSeq(p, 1, i) \in DOMAIN act
         /\ \A p \in DOMAIN act : p # <<>> => act[Prefix(p)].at # "new"

\* A goroutine that has sent is one with a result.
Sent == /\ DOMAIN chan \subseteq DOMAIN act
        /\ \A p \in DOMAIN act : act[p].at = "sent" <=> p \in DOMAIN chan

\* A function that an operation may be in.
FunctionOK(f) == f.fn = "group" => f.children \in Seq(Children) /\ f.children # <<>>

Calls(w, f) == CASE f.fn = "group" -> GroupFunctions(f)
                 [] f.fn = "ttu" -> ComputedFunctions(w, f)
                 [] OTHER -> UserSetFunctions(w, f)

\* The functions of an operation are those its goroutines run, in their order.
Family(p) ==
    /\ FunctionOK(act[p].f)
    /\ act[p].at = "new" => act[p].got = <<>> /\ act[p].functions = <<>>
    /\ act[p].at = "root" => /\ act[p].f.fn = "expand"
                             /\ Append(p, 1) \in DOMAIN act
                             /\ act[Append(p, 1)].f = RootFunction(act[p].f)
    /\ act[p].at = "collect" =>
          /\ act[p].f.fn \in {"group", "ttu", "direct"}
          /\ act[p].functions = Calls(world, act[p].f)
          /\ Len(act[p].functions) \in Nat
          /\ DOMAIN act[p].functions = 1..Len(act[p].functions)
          /\ Len(act[p].got) \in Nat /\ Len(act[p].got) < Len(act[p].functions)
          /\ act[p].got = [i \in 1..Len(act[p].got) |-> act[p].got[i]]
          /\ \A i \in DOMAIN act[p].functions :
                Append(p, i) \in DOMAIN act /\ act[Append(p, i)].f = act[p].functions[i]

Families == \A p \in DOMAIN act : Family(p)

\* Who says CANCELLED has a context that is done.
Honest == \A p \in DOMAIN chan : chan[p].err = "ERROR_CODE_CANCELLED" => ContextDone(p)

\* Every result so far is the tree of its function.
TreeSent(p) == (chan[p].err = "" /\ act[p].f \in DOMAIN Tree[world])
                  => chan[p].tree = Tree[world][act[p].f]

TreesGot(p) == (/\ act[p].at = "collect" /\ act[p].f \in DOMAIN Tree[world]
                /\ act[p].f.fn # "direct")
                  => \A i \in 1..Len(act[p].got) :
                        act[p].got[i] = Tree[world][act[p].functions[i]]

Trees == /\ \A p \in DOMAIN chan : TreeSent(p)
         /\ \A p \in DOMAIN act : TreesGot(p)

IInv == Shapes /\ Paths /\ Sent /\ Families /\ Honest /\ Trees

-----------------------------------------------------------------------------
(* Paths and sequences. *)

\* The path of a child.
LEMMA ChildPath ==
    ASSUME NEW p \in Seq(Nat), NEW i \in Nat
    PROVE  /\ Append(p, i) \in Seq(Nat)
           /\ Append(p, i) # <<>> /\ Append(p, i) # p
           /\ Len(Append(p, i)) = Len(p) + 1
           /\ Append(p, i)[Len(Append(p, i))] = i
           /\ Prefix(Append(p, i)) = p
           /\ \A n \in 0..Len(p) : SubSeq(Append(p, i), 1, n) = SubSeq(p, 1, n)
           /\ SubSeq(Append(p, i), 1, Len(p) + 1) = Append(p, i)
<1>1. /\ Append(p, i) \in Seq(Nat)
      /\ Len(Append(p, i)) = Len(p) + 1
      /\ Append(p, i)[Len(p) + 1] = i
      /\ \A n \in 1..Len(p) : Append(p, i)[n] = p[n]
  BY AppendProperties
<1>2. ASSUME NEW n \in 0..Len(p)
      PROVE  SubSeq(Append(p, i), 1, n) = SubSeq(p, 1, n)
  BY <1>1, SubSeqProperties
<1>3. SubSeq(p, 1, Len(p)) = p /\ SubSeq(Append(p, i), 1, Len(p) + 1) = Append(p, i)
  BY <1>1, SubSeqProperties
<1>4. Prefix(Append(p, i)) = SubSeq(Append(p, i), 1, Len(p))
  BY <1>1 DEF Prefix
<1>5. Prefix(Append(p, i)) = p
  BY <1>2, <1>3, <1>4
<1>6. Append(p, i) # p /\ Append(p, i) # <<>>
  BY <1>1
<1> QED
  BY <1>1, <1>2, <1>3, <1>5, <1>6

\* Appending to a sequence of whatever values.
LEMMA AppendAny ==
    ASSUME NEW s, NEW e, NEW n \in Nat, Len(s) = n, s = [i \in 1..n |-> s[i]]
    PROVE  /\ Len(Append(s, e)) = n + 1
           /\ Append(s, e) = [i \in 1..(n + 1) |-> Append(s, e)[i]]
           /\ Append(s, e)[n + 1] = e
           /\ \A i \in 1..n : Append(s, e)[i] = s[i]
<1>1. /\ Len(Append(s, e)) = n + 1 /\ Append(s, e)[n + 1] = e
      /\ \A i \in 1..n : Append(s, e)[i] = s[i]
  OBVIOUS
<1>2. Append(s, e) = [i \in 1..(n + 1) |-> Append(s, e)[i]]
  OBVIOUS
<1> QED
  BY <1>1, <1>2
-----------------------------------------------------------------------------
(* Functions. *)

IsList(s) == Len(s) \in Nat /\ s = [i \in 1..Len(s) |-> s[i]]

LEMMA EmptyList ==
    ASSUME NEW s, IsList(s), s # <<>>
    PROVE  Len(s) > 0
<1> DEFINE n == Len(s)
<1>1. n \in Nat /\ s = [i \in 1..n |-> s[i]]
  BY DEF IsList
<1> HIDE DEF n
<1>2. ASSUME n = 0
      PROVE  s = <<>>
  BY <1>1, <1>2
<1>3. n > 0
  BY <1>1, <1>2
<1> QED
  BY <1>3 DEF n

\* A child runs a function of a schema that the compiler made.
LEMMA ChildFunctionOK ==
    ASSUME NEW entity, NEW child \in Children
    PROVE  FunctionOK(ChildFunction(entity, child))
<1>1. CASE child.type = "rewrite"
  <2>1. /\ ChildFunction(entity, child).children = child.children
    BY <1>1 DEF ChildFunction, ExpandOf
  <2> QED
    BY <1>1, <2>1, SchemaAssumption DEF FunctionOK
<1>2. CASE child.type = "computedUserSet"
  <2>1. ChildFunction(entity, child).fn = "expand"
    BY <1>2 DEF ChildFunction, ExpandOf
  <2> QED
    BY <2>1 DEF FunctionOK
<1>3. CASE child.type = "tupleToUserSet"
  <2>1. ChildFunction(entity, child).fn = "ttu"
    BY <1>3 DEF ChildFunction, ExpandOf
  <2> QED
    BY <2>1 DEF FunctionOK
<1> QED
  BY <1>1, <1>2, <1>3, SchemaAssumption

LEMMA RootFunctionOK ==
    ASSUME NEW f, Defined(f.entity, f.permission)
    PROVE  FunctionOK(RootFunction(f))
<1> DEFINE def == Schema[TypeOf[f.entity]][f.permission]
<1>1. CASE def.kind = "action"
  <2>1. def.child \in Children
    BY <1>1, SchemaAssumption DEF Defined
  <2> QED
    BY <1>1, <2>1, ChildFunctionOK DEF RootFunction
<1>2. CASE def.kind # "action"
  <2>1. RootFunction(f).fn = "direct"
    BY <1>2 DEF RootFunction, Direct, ExpandOf
  <2> QED
    BY <2>1 DEF FunctionOK
<1> QED
  BY <1>1, <1>2

\* The subjects of tuples are as many as the tuples.
LEMMA SubjectsList ==
    ASSUME NEW w \in Worlds, NEW I \in SUBSET DOMAIN w
    PROVE  /\ Len(Subjects(w, I)) \in Nat
           /\ DOMAIN Subjects(w, I) = 1..Len(Subjects(w, I))
<1>1. Len(w) \in Nat /\ DOMAIN w = 1..Len(w)
  BY ExpandAssumption
<1>2. IsFiniteSet(1..Len(w))
  BY <1>1, FS_Interval
<1>3. IsFiniteSet(I)
  BY <1>1, <1>2, FS_Subset
<1>4. Cardinality(I) \in Nat
  BY <1>3, FS_CardinalityType
<1> QED
  BY <1>4 DEF Subjects

\* The functions of an operation are a list, and no group among them is empty.
LEMMA CallsList ==
    ASSUME NEW w \in Worlds, NEW f, FunctionOK(f), f.fn \in {"group", "ttu", "direct"}
    PROVE  /\ IsList(Calls(w, f))
           /\ f.fn = "group" => Calls(w, f) # <<>>
           /\ \A i \in 1..Len(Calls(w, f)) : FunctionOK(Calls(w, f)[i])
<1>0. \A entity, permission, exclusion : ExpandOf(entity, permission, exclusion).fn = "expand"
  BY DEF ExpandOf
<1>1. CASE f.fn = "group"
  <2>1. /\ f.children \in Seq(Children) /\ f.children # <<>>
    BY <1>1 DEF FunctionOK
  <2>2. Len(f.children) \in Nat /\ DOMAIN f.children = 1..Len(f.children) /\ Len(f.children) > 0
    BY <2>1
  <2>3. \A i \in 1..Len(f.children) : f.children[i] \in Children
    BY <2>1
  <2> DEFINE n == Len(f.children)
  <2>4. Calls(w, f) = [i \in 1..n |-> ChildFunction(f.entity, f.children[i])]
    BY <1>1, <2>2 DEF Calls, GroupFunctions
  <2>5. n \in Nat /\ n > 0
    BY <2>2
  <2> HIDE DEF n
  <2>6. Len(Calls(w, f)) = n /\ IsList(Calls(w, f))
    BY <2>4, <2>5 DEF IsList
  <2>7. Calls(w, f) # <<>>
    BY <2>5, <2>6
  <2>8. \A i \in 1..n : Calls(w, f)[i] = ChildFunction(f.entity, f.children[i])
    BY <2>4
  <2> QED
    BY <2>3, <2>6, <2>7, <2>8, ChildFunctionOK DEF n
<1>2. ASSUME NEW I \in SUBSET DOMAIN w,
             Calls(w, f) = [i \in DOMAIN Subjects(w, I) |-> Calls(w, f)[i]],
             \A i \in DOMAIN Subjects(w, I) : Calls(w, f)[i].fn = "expand"
      PROVE  IsList(Calls(w, f)) /\ \A i \in 1..Len(Calls(w, f)) : FunctionOK(Calls(w, f)[i])
  <2> DEFINE n == Len(Subjects(w, I))
  <2>1. n \in Nat /\ DOMAIN Subjects(w, I) = 1..n
    BY <1>2, SubjectsList
  <2> HIDE DEF n
  <2>2. Calls(w, f) = [i \in 1..n |-> Calls(w, f)[i]]
    BY <1>2, <2>1
  <2>3. Len(Calls(w, f)) = n
    BY <2>1, <2>2
  <2> QED
    BY <1>2, <2>1, <2>2, <2>3 DEF FunctionOK, IsList
<1>3. CASE f.fn = "ttu"
  <2> DEFINE I == {i \in Found(w, f) : w[i].subject.relation = ELLIPSIS}
             objects == Subjects(w, I)
  <2>1. I \in SUBSET DOMAIN w
    BY DEF Found
  <2>a. Calls(w, f) = ComputedFunctions(w, f)
    BY <1>3 DEF Calls
  <2>2. Calls(w, f) = [i \in DOMAIN objects |-> ExpandOf(objects[i].entity, f.computed, f.exclusion)]
    BY <2>a, Zenon DEF ComputedFunctions
  <2> HIDE DEF I, objects
  <2>3. \A i \in DOMAIN objects : Calls(w, f)[i].fn = "expand"
    BY <1>0, <2>2
  <2>4. Calls(w, f) = [i \in DOMAIN objects |-> Calls(w, f)[i]]
    BY <2>2
  <2> QED
    BY <1>2, <1>3, <2>1, <2>3, <2>4 DEF objects
<1>4. CASE f.fn = "direct"
  <2> DEFINE I == {i \in Found(w, f) : IsUserSet(w[i].subject)}
             sets == Subjects(w, I)
  <2>1. I \in SUBSET DOMAIN w
    BY DEF Found
  <2>a. Calls(w, f) = UserSetFunctions(w, f)
    BY <1>4 DEF Calls
  <2>2. Calls(w, f) = [i \in DOMAIN sets |-> ExpandOf(sets[i].entity, sets[i].relation, f.exclusion)]
    BY <2>a, Zenon DEF UserSetFunctions
  <2> HIDE DEF I, sets
  <2>3. \A i \in DOMAIN sets : Calls(w, f)[i].fn = "expand"
    BY <1>0, <2>2
  <2>4. Calls(w, f) = [i \in DOMAIN sets |-> Calls(w, f)[i]]
    BY <2>2
  <2> QED
    BY <1>2, <1>4, <2>1, <2>3, <2>4 DEF sets
<1> QED
  BY <1>1, <1>3, <1>4
-----------------------------------------------------------------------------
(* What every step keeps. *)

\* A goroutine keeps its function, a result stays, and what is cancelled stays
\* cancelled.
Grows == /\ world' = world /\ request' = request
         /\ cancelled => cancelled'
         /\ DOMAIN act \subseteq DOMAIN act'
         /\ DOMAIN chan \subseteq DOMAIN chan'
         /\ \A q \in DOMAIN act : /\ act'[q].f = act[q].f
                                  /\ Cancels(q) => Cancels(q)'
         /\ \A q \in DOMAIN chan : chan'[q] = chan[q]

LEMMA ContextStays ==
    ASSUME IInv, Grows, NEW q \in DOMAIN act, ContextDone(q)
    PROVE  ContextDone(q)'
<1>1. CASE cancelled
  BY <1>1 DEF Grows, ContextDone
<1>2. CASE ~cancelled
  <2>1. PICK i \in 0..(Len(q) - 1) : Cancels(SubSeq(q, 1, i))
    BY <1>2 DEF ContextDone
  <2>2. Len(q) \in Nat
    BY DEF IInv, Paths
  <2>3. SubSeq(q, 1, i) \in DOMAIN act
    BY <2>2 DEF IInv, Paths
  <2>4. Cancels(SubSeq(q, 1, i))'
    BY <2>1, <2>3 DEF Grows
  <2> QED
    BY <2>4 DEF ContextDone
<1> QED
  BY <1>1, <1>2

\* The context of a goroutine is that of its parent, unless the parent has
\* returned from its operation.
LEMMA ContextOfChild ==
    ASSUME IInv, NEW p \in DOMAIN act, act[p].at # "sent", NEW i \in Nat, ContextDone(Append(p, i))
    PROVE  ContextDone(p)
<1>1. p \in Seq(Nat)
  BY DEF IInv, Paths
<1>2. /\ Len(Append(p, i)) = Len(p) + 1 /\ Len(p) \in Nat
      /\ \A n \in 0..Len(p) : SubSeq(Append(p, i), 1, n) = SubSeq(p, 1, n)
      /\ SubSeq(p, 1, Len(p)) = p
  BY <1>1, ChildPath, SubSeqProperties
<1>3. CASE ~cancelled
  <2>1. PICK n \in 0..Len(p) : Cancels(SubSeq(Append(p, i), 1, n))
    BY <1>2, <1>3 DEF ContextDone
  <2>2. Cancels(SubSeq(p, 1, n))
    BY <1>2, <2>1
  <2>3. n # Len(p)
    BY <1>2, <2>2 DEF Cancels
  <2>4. n \in 0..(Len(p) - 1)
    <3>1. Len(p) \in Nat
      BY <1>2
    <3> QED
      BY <2>3, <3>1
  <2> QED
    BY <2>2, <2>4 DEF ContextDone
<1> QED
  BY <1>3 DEF ContextDone

LEMMA PrefixIn ==
    ASSUME IInv, NEW q \in DOMAIN act, q # <<>>
    PROVE  Prefix(q) \in DOMAIN act
<1>1. q \in Seq(Nat) /\ \A i \in 0..Len(q) : SubSeq(q, 1, i) \in DOMAIN act
  BY DEF IInv, Paths
<1>2. Len(q) \in Nat /\ Len(q) # 0
  BY <1>1
<1>3. Len(q) - 1 \in 0..Len(q)
  BY <1>2
<1> QED
  BY <1>1, <1>3 DEF Prefix

\* What a send does to the goroutines and to the channels.
LEMMA SendFacts ==
    ASSUME IInv, NEW p \in DOMAIN act, NEW response, Send(p, response)
    PROVE  /\ DOMAIN act' = DOMAIN act
           /\ act' = [q \in DOMAIN act |-> act'[q]]
           /\ \A q \in DOMAIN act : q # p => act'[q] = act[q]
           /\ act'[p] = [x \in Fields |-> act'[p][x]]
           /\ act'[p].at = "sent" /\ act'[p].f = act[p].f
           /\ act'[p].functions = act[p].functions /\ act'[p].got = act[p].got
           /\ DOMAIN chan' = DOMAIN chan \cup {p}
           /\ chan' = [q \in DOMAIN chan' |-> chan'[q]]
           /\ \A q \in DOMAIN chan : q # p => chan'[q] = chan[q]
           /\ chan'[p] = response
<1>1. /\ act = [q \in DOMAIN act |-> act[q]]
      /\ act[p] = [x \in Fields |-> act[p][x]]
  BY DEF IInv, Shapes
<1>2. act' = [act EXCEPT ![p] = [act[p] EXCEPT !.at = "sent"]]
  BY DEF Send
<1>3. /\ DOMAIN act' = DOMAIN act
      /\ act' = [q \in DOMAIN act |-> act'[q]]
      /\ \A q \in DOMAIN act : q # p => act'[q] = act[q]
      /\ act'[p] = [act[p] EXCEPT !.at = "sent"]
  BY <1>1, <1>2
<1>4. /\ act'[p] = [x \in Fields |-> act'[p][x]]
      /\ act'[p].at = "sent" /\ act'[p].f = act[p].f
      /\ act'[p].functions = act[p].functions /\ act'[p].got = act[p].got
  BY <1>1, <1>3 DEF Fields
<1>5. /\ DOMAIN chan' = DOMAIN chan \cup {p}
      /\ chan' = [q \in DOMAIN chan' |-> chan'[q]]
      /\ \A q \in DOMAIN chan : q # p => chan'[q] = chan[q]
      /\ chan'[p] = response
  BY DEF Send, Extend
<1> QED
  BY <1>3, <1>4, <1>5

\* A goroutine that sends a result its context and its function justify.
LEMMA SendKeeps ==
    ASSUME IInv, NEW p \in DOMAIN act, act[p].at # "sent", NEW response, Send(p, response),
           UNCHANGED <<Env, crashed>>,
           response.err = "ERROR_CODE_CANCELLED" => ContextDone(p),
           (response.err = "" /\ act[p].f \in DOMAIN Tree[world])
              => response.tree = Tree[world][act[p].f]
    PROVE  IInv'
<1>1. /\ DOMAIN act' = DOMAIN act
      /\ act' = [q \in DOMAIN act |-> act'[q]]
      /\ \A q \in DOMAIN act : q # p => act'[q] = act[q]
      /\ act'[p] = [x \in Fields |-> act'[p][x]]
      /\ act'[p].at = "sent" /\ act'[p].f = act[p].f
      /\ act'[p].functions = act[p].functions /\ act'[p].got = act[p].got
      /\ DOMAIN chan' = DOMAIN chan \cup {p}
      /\ chan' = [q \in DOMAIN chan' |-> chan'[q]]
      /\ \A q \in DOMAIN chan : q # p => chan'[q] = chan[q]
      /\ chan'[p] = response
  BY SendFacts
<1>2. world' = world /\ request' = request /\ cancelled' = cancelled
  BY DEF Env
<1>3. p \notin DOMAIN chan
  BY DEF IInv, Sent
<1>4. \A q \in DOMAIN act : act'[q].f = act[q].f
  BY <1>1
<1>5. Grows
  BY <1>1, <1>2, <1>3, <1>4 DEF Grows, Cancels
<1>6. Shapes'
  <2>1. Shapes
    BY DEF IInv
  <2>2. ASSUME NEW q \in DOMAIN act
        PROVE  /\ act'[q] = [x \in Fields |-> act'[q][x]]
               /\ act'[q].at \in {"new", "root", "collect", "sent"}
    <3>1. CASE q = p
      BY <1>1, <3>1
    <3>2. CASE q # p
      BY <1>1, <2>1, <3>2 DEF Shapes
    <3> QED
      BY <3>1, <3>2
  <2> QED
    BY <1>1, <1>2, <2>1, <2>2 DEF Shapes
<1>7. Paths'
  <2>1. Paths
    BY DEF IInv
  <2>2. Asked' = Asked
    BY <1>2 DEF Asked
  <2>3. \A q \in DOMAIN act : act[q].at # "new" => act'[q].at # "new"
    BY <1>1
  <2>4. \A q \in DOMAIN act : q # <<>> => Prefix(q) \in DOMAIN act
    BY PrefixIn
  <2> QED
    BY <1>1, <1>4, <2>1, <2>2, <2>3, <2>4 DEF Paths
<1>8. Sent'
  BY <1>1 DEF IInv, Sent
<1>9. Families'
  <2> SUFFICES ASSUME NEW q \in DOMAIN act
               PROVE  Family(q)'
    BY <1>1 DEF Families
  <2>1. Family(q)
    BY DEF IInv, Families
  <2>2. CASE q = p
    BY <1>1, <2>1, <2>2 DEF Family
  <2>3. CASE q # p
    BY <1>1, <1>2, <1>4, <2>1, <2>3 DEF Family
  <2> QED
    BY <2>2, <2>3
<1>10. Honest'
  <2> SUFFICES ASSUME NEW q \in DOMAIN chan \cup {p}, chan'[q].err = "ERROR_CODE_CANCELLED"
               PROVE  ContextDone(q)'
    BY <1>1 DEF Honest
  <2>1. q \in DOMAIN act /\ ContextDone(q)
    BY <1>1 DEF IInv, Honest, Sent
  <2> QED
    BY <1>5, <2>1, ContextStays
<1>11. Trees'
  <2>1. ASSUME NEW q \in DOMAIN chan \cup {p}
        PROVE  TreeSent(q)'
    <3>1. q # p => TreeSent(q)
      BY DEF IInv, Trees
    <3>2. q \in DOMAIN act
      BY DEF IInv, Sent
    <3> QED
      BY <1>1, <1>2, <1>4, <3>1, <3>2 DEF TreeSent
  <2>2. ASSUME NEW q \in DOMAIN act
        PROVE  TreesGot(q)'
    <3>1. TreesGot(q)
      BY DEF IInv, Trees
    <3> QED
      BY <1>1, <1>2, <3>1 DEF TreesGot
  <2> QED
    BY <1>1, <2>1, <2>2 DEF Trees
<1> QED
  BY <1>6, <1>7, <1>8, <1>9, <1>10, <1>11 DEF IInv

\* A goroutine that has begun and starts others: the new ones are at the paths N.
LEMMA StartKeeps ==
    ASSUME IInv, NEW p \in DOMAIN act, act[p].at = "new",
           UNCHANGED <<world, request, cancelled, chan, crashed>>,
           NEW N, \A q \in N : \E i \in Nat \ {0} : q = Append(p, i),
           act' = [q \in DOMAIN act \cup N |-> act'[q]],
           \A q \in DOMAIN act : q # p => act'[q] = act[q],
           act'[p] = [x \in Fields |-> act'[p][x]],
           act'[p].f = act[p].f, act'[p].got = <<>>,
           act'[p].at \in {"root", "collect"},
           Family(p)',
           \A q \in N : /\ act'[q] = Goroutine(act'[q].f)
                        /\ FunctionOK(act'[q].f)
    PROVE  IInv'
<1>1. DOMAIN act' = DOMAIN act \cup N
  OBVIOUS
<1>2. p \in Seq(Nat)
  BY DEF IInv, Paths
<1>3. ASSUME NEW q \in N
      PROVE  /\ q \in Seq(Nat) /\ q # <<>> /\ q # p /\ Prefix(q) = p
             /\ Len(q) = Len(p) + 1 /\ SubSeq(q, 1, Len(p) + 1) = q
             /\ \A n \in 0..Len(p) : SubSeq(q, 1, n) = SubSeq(p, 1, n)
             /\ q \notin DOMAIN act
  <2>1. PICK i \in Nat : q = Append(p, i)
    OBVIOUS
  <2>2. /\ q \in Seq(Nat) /\ q # <<>> /\ q # p /\ Prefix(q) = p
        /\ Len(q) = Len(p) + 1 /\ SubSeq(q, 1, Len(p) + 1) = q
        /\ \A n \in 0..Len(p) : SubSeq(q, 1, n) = SubSeq(p, 1, n)
    BY <1>2, <2>1, ChildPath
  <2>3. q \notin DOMAIN act
    BY <2>2 DEF IInv, Paths
  <2> QED
    BY <2>2, <2>3
<1>4. \A q \in DOMAIN act : act'[q].f = act[q].f
  OBVIOUS
<1>5. ASSUME NEW q \in N
      PROVE  /\ act'[q] = [x \in Fields |-> act'[q][x]]
             /\ act'[q].at = "new" /\ act'[q].got = <<>> /\ act'[q].functions = <<>>
  BY DEF Goroutine, Fields
<1>6. Grows
  BY <1>1, <1>4 DEF Grows, Cancels
<1>7. Shapes'
  <2>1. Shapes
    BY DEF IInv
  <2>2. ASSUME NEW q \in DOMAIN act \cup N
        PROVE  /\ act'[q] = [x \in Fields |-> act'[q][x]]
               /\ act'[q].at \in {"new", "root", "collect", "sent"}
    <3>1. CASE q = p
      BY <3>1
    <3>2. CASE q \in N
      BY <1>5, <3>2
    <3>3. CASE q \in DOMAIN act /\ q # p
      BY <2>1, <3>3 DEF Shapes
    <3> QED
      BY <3>1, <3>2, <3>3
  <2> QED
    BY <1>1, <2>1, <2>2 DEF Shapes
<1>8. Paths'
  <2>1. Paths
    BY DEF IInv
  <2>2. Asked' = Asked
    BY DEF Asked
  <2>3. ASSUME NEW q \in DOMAIN act \cup N, NEW i \in 0..Len(q)
        PROVE  SubSeq(q, 1, i) \in DOMAIN act \cup N
    <3>1. CASE q \in DOMAIN act
      BY <2>1, <3>1 DEF Paths
    <3>2. CASE q \in N
      <4>1. Len(p) \in Nat /\ Len(q) = Len(p) + 1
        BY <1>2, <1>3, <3>2
      <4>2. i \in 0..Len(p) \/ i = Len(p) + 1
        BY <4>1
      <4> QED
        BY <1>3, <2>1, <3>2, <4>2 DEF Paths
    <3> QED
      BY <3>1, <3>2
  <2>4. ASSUME NEW q \in DOMAIN act \cup N, q # <<>>
        PROVE  act'[Prefix(q)].at # "new"
    <3>1. CASE q \in N
      BY <1>3, <3>1
    <3>2. CASE q \in DOMAIN act
      <4>1. Prefix(q) \in DOMAIN act /\ act[Prefix(q)].at # "new"
        BY <2>1, <2>4, <3>2, PrefixIn DEF Paths
      <4> QED
        BY <4>1
    <3> QED
      BY <3>1, <3>2
  <2>5. DOMAIN act \cup N \subseteq Seq(Nat)
    BY <1>3, <2>1 DEF Paths
  <2> QED
    BY <1>1, <1>4, <2>1, <2>2, <2>3, <2>4, <2>5 DEF Paths
<1>9. Sent'
  <2>1. ASSUME NEW q \in DOMAIN act \cup N
        PROVE  act'[q].at = "sent" <=> q \in DOMAIN chan
    <3>1. CASE q \in N
      BY <1>3, <1>5, <3>1 DEF IInv, Sent
    <3>2. CASE q \in DOMAIN act
      BY <3>2 DEF IInv, Sent
    <3> QED
      BY <3>1, <3>2
  <2> QED
    BY <1>1, <2>1 DEF IInv, Sent
<1>10. Families'
  <2> SUFFICES ASSUME NEW q \in DOMAIN act \cup N
               PROVE  Family(q)'
    BY <1>1 DEF Families
  <2>1. CASE q \in N
    BY <1>5, <2>1 DEF Family
  <2>2. CASE q \in DOMAIN act /\ q # p
    <3>1. Family(q)
      BY <2>2 DEF IInv, Families
    <3>2. act'[q] = act[q] /\ world' = world
      BY <2>2
    <3> QED
      BY <1>1, <1>4, <3>1, <3>2 DEF Family
  <2> QED
    BY <2>1, <2>2
<1>11. Honest'
  <2> SUFFICES ASSUME NEW q \in DOMAIN chan, chan[q].err = "ERROR_CODE_CANCELLED"
               PROVE  ContextDone(q)'
    BY DEF Honest
  <2>1. q \in DOMAIN act /\ ContextDone(q)
    BY DEF IInv, Honest, Sent
  <2> QED
    BY <1>6, <2>1, ContextStays
<1>12. Trees'
  <2>1. ASSUME NEW q \in DOMAIN chan
        PROVE  TreeSent(q)'
    BY <1>4 DEF IInv, Trees, TreeSent, Sent
  <2>2. ASSUME NEW q \in DOMAIN act \cup N
        PROVE  TreesGot(q)'
    <3>1. CASE q \in N
      BY <1>5, <3>1 DEF TreesGot
    <3>2. CASE q = p
      BY <3>2 DEF TreesGot
    <3>3. CASE q \in DOMAIN act /\ q # p
      BY <3>3 DEF IInv, Trees, TreesGot
    <3> QED
      BY <3>1, <3>2, <3>3
  <2> QED
    BY <1>1, <2>1, <2>2 DEF Trees
<1> QED
  BY <1>7, <1>8, <1>9, <1>10, <1>11, <1>12 DEF IInv

\* expandOperation starts the functions f calls.
LEMMA SpawnKeeps ==
    ASSUME IInv, NEW p \in DOMAIN act, act[p].at = "new",
           act[p].f.fn \in {"group", "ttu", "direct"},
           Calls(world, act[p].f) # <<>>,
           Spawn(p, Calls(world, act[p].f), "collect"),
           UNCHANGED <<Env, crashed>>
    PROVE  IInv'
<1> DEFINE functions == Calls(world, act[p].f)
           N == {Append(p, i) : i \in DOMAIN functions}
<1>1. /\ world \in Worlds /\ FunctionOK(act[p].f) /\ p \in Seq(Nat)
      /\ act[p] = [x \in Fields |-> act[p][x]]
      /\ act[p].got = <<>>
  BY DEF IInv, Shapes, Families, Family, Paths
<1>2. /\ IsList(functions) /\ \A i \in 1..Len(functions) : FunctionOK(functions[i])
      /\ Len(functions) > 0
  BY <1>1, CallsList, EmptyList
<1> HIDE DEF functions
<1>3. /\ Len(functions) \in Nat /\ DOMAIN functions = 1..Len(functions)
  BY <1>2 DEF IsList
<1>4. act' = [q \in DOMAIN act \cup N |->
                 IF q = p THEN [act[p] EXCEPT !.at = "collect", !.functions = functions]
                 ELSE IF q \in DOMAIN act THEN act[q]
                 ELSE Goroutine(functions[q[Len(q)]])]
  BY DEF Spawn, functions
<1>5. /\ act'[p] = [x \in Fields |-> act'[p][x]]
      /\ act'[p].f = act[p].f /\ act'[p].got = <<>>
      /\ act'[p].at = "collect" /\ act'[p].functions = functions
  <2>1. act'[p] = [act[p] EXCEPT !.at = "collect", !.functions = functions]
    BY <1>4
  <2> QED
    BY <1>1, <2>1 DEF Fields
<1>6. ASSUME NEW i \in DOMAIN functions
      PROVE  /\ Append(p, i) \in N /\ Append(p, i) \notin DOMAIN act
             /\ act'[Append(p, i)] = Goroutine(functions[i])
             /\ act'[Append(p, i)].f = functions[i]
  <2>1. i \in Nat
    BY <1>3
  <2>2. /\ Append(p, i) # <<>> /\ Append(p, i) # p /\ Prefix(Append(p, i)) = p
        /\ Append(p, i)[Len(Append(p, i))] = i
    BY <1>1, <2>1, ChildPath
  <2>3. Append(p, i) \notin DOMAIN act
    BY <2>2 DEF IInv, Paths
  <2>4. Append(p, i) \in N
    OBVIOUS
  <2>5. act'[Append(p, i)] = Goroutine(functions[i])
    BY <1>4, <2>2, <2>3, <2>4
  <2> QED
    BY <2>3, <2>4, <2>5 DEF Goroutine
<1>7. \A q \in N : /\ act'[q] = Goroutine(act'[q].f)
                   /\ FunctionOK(act'[q].f)
                   /\ \E i \in Nat \ {0} : q = Append(p, i)
  <2> TAKE q \in N
  <2>1. PICK i \in DOMAIN functions : q = Append(p, i)
    OBVIOUS
  <2>2. i \in Nat \ {0} /\ FunctionOK(functions[i])
    BY <1>2, <1>3
  <2> QED
    BY <1>6, <2>1, <2>2
<1>8. \A q \in DOMAIN act : q # p => act'[q] = act[q]
  BY <1>4
<1>9. UNCHANGED <<world, request, cancelled, chan, crashed>>
  BY DEF Env, Spawn
<1>10. Family(p)'
  <2>1. functions = Calls(world, act[p].f)'
    BY <1>5, <1>9 DEF functions
  <2>2. Len(act'[p].got) = 0 /\ act'[p].got = [i \in 1..Len(act'[p].got) |-> act'[p].got[i]]
    BY <1>5
  <2>3. DOMAIN act' = DOMAIN act \cup N
    BY <1>4
  <2>4. \A i \in DOMAIN functions :
           Append(p, i) \in DOMAIN act' /\ act'[Append(p, i)].f = functions[i]
    BY <1>6, <2>3
  <2> QED
    BY <1>1, <1>2, <1>3, <1>5, <2>1, <2>2, <2>4 DEF Family
<1>11. act' = [q \in DOMAIN act \cup N |-> act'[q]]
  BY <1>4
<1> HIDE DEF N
<1> QED
  BY <1>5, <1>7, <1>8, <1>9, <1>10, <1>11, StartKeeps
-----------------------------------------------------------------------------
(* The actions. *)

LEMMA CancelKeeps ==
    ASSUME IInv, Cancel
    PROVE  IInv'
<1>1. UNCHANGED <<world, request, act, chan, crashed>> /\ cancelled' = TRUE
  BY DEF Cancel
<1>3. Honest'
  BY <1>1 DEF Honest, ContextDone
<1>4. Shapes' /\ Sent'
  BY <1>1 DEF IInv, Shapes, Sent
<1>5. Paths'
  BY <1>1 DEF IInv, Paths, Asked
<1>6. Trees'
  BY <1>1 DEF IInv, Trees, TreeSent, TreesGot
<1>7. Families'
  BY <1>1 DEF IInv, Families, Family
<1> QED
  BY <1>3, <1>4, <1>5, <1>6, <1>7 DEF IInv

\* A failure other than a cancellation needs no more justification.
LEMMA FailKeeps ==
    ASSUME IInv, NEW p \in DOMAIN act, act[p].at # "sent", NEW err,
           Send(p, expandFailResponse(err)), err # "",
           err = "ERROR_CODE_CANCELLED" => ContextDone(p),
           UNCHANGED <<Env, crashed>>
    PROVE  IInv'
<1>1. expandFailResponse(err).err = err
  BY DEF expandFailResponse
<1> QED
  BY <1>1, SendKeeps

LEMMA ExpandRefusedKeeps ==
    ASSUME IInv, NEW p \in DOMAIN act, ExpandRefused(p)
    PROVE  IInv'
<1>1. act[p].at # "sent" /\ UNCHANGED <<Env, crashed>>
  BY DEF ExpandRefused, Running
<1>2. \E err \in {"ERROR_CODE_EXECUTION", "ERROR_CODE_RELATION_DEFINITION_NOT_FOUND",
                  "ERROR_CODE_SCHEMA_NOT_FOUND"} : Send(p, expandFailResponse(err))
  BY DEF ExpandRefused
<1>3. PICK err \in {"ERROR_CODE_EXECUTION", "ERROR_CODE_RELATION_DEFINITION_NOT_FOUND",
                   "ERROR_CODE_SCHEMA_NOT_FOUND"} : Send(p, expandFailResponse(err))
  BY <1>2
<1>4. err # "" /\ err # "ERROR_CODE_CANCELLED"
  OBVIOUS
<1> QED
  BY <1>1, <1>3, <1>4, FailKeeps

LEMMA ExpandRootKeeps ==
    ASSUME IInv, NEW p \in DOMAIN act, ExpandRoot(p)
    PROVE  IInv'
<1> DEFINE f == act[p].f
           c == Append(p, 1)
           N == {c}
           a == [act EXCEPT ![p].at = "root"]
<1>1. /\ act[p].at = "new" /\ f.fn = "expand" /\ Defined(f.entity, f.permission)
      /\ UNCHANGED <<world, request, cancelled, chan, crashed>>
      /\ act' = Extend(a, c, Goroutine(RootFunction(f)))
  BY DEF ExpandRoot, Running, Env
<1>2. /\ act = [q \in DOMAIN act |-> act[q]]
      /\ act[p] = [x \in Fields |-> act[p][x]]
      /\ act[p].got = <<>> /\ FunctionOK(f) /\ p \in Seq(Nat)
  BY <1>1 DEF IInv, Shapes, Families, Family, Paths
<1>3. c # p /\ c # <<>> /\ Prefix(c) = p
  BY <1>2, ChildPath
<1>4. c \notin DOMAIN act
  BY <1>1, <1>3 DEF IInv, Paths
<1>5. FunctionOK(RootFunction(f))
  BY <1>1, RootFunctionOK
<1>6. /\ DOMAIN a = DOMAIN act
      /\ a[p] = [act[p] EXCEPT !.at = "root"]
      /\ \A q \in DOMAIN act : q # p => a[q] = act[q]
  BY <1>2
<1> HIDE DEF a, c
<1>7. /\ act' = [q \in DOMAIN act \cup N |-> act'[q]]
      /\ act'[p] = [act[p] EXCEPT !.at = "root"]
      /\ \A q \in DOMAIN act : q # p => act'[q] = act[q]
      /\ act'[c] = Goroutine(RootFunction(f))
  BY <1>1, <1>3, <1>4, <1>6 DEF Extend
<1>8. /\ act'[p] = [x \in Fields |-> act'[p][x]]
      /\ act'[p].f = f /\ act'[p].got = <<>> /\ act'[p].at = "root"
  BY <1>2, <1>7 DEF Fields
<1>9. act'[c].f = RootFunction(f) /\ c \in DOMAIN act'
  BY <1>7 DEF Goroutine
<1>10. Family(p)'
  BY <1>1, <1>2, <1>8, <1>9 DEF Family, c
<1>11. \A q \in N : /\ act'[q] = Goroutine(act'[q].f) /\ FunctionOK(act'[q].f)
                    /\ \E i \in Nat \ {0} : q = Append(p, i)
  <2>1. act'[c] = Goroutine(act'[c].f) /\ FunctionOK(act'[c].f)
    BY <1>5, <1>7, <1>9
  <2>2. \E i \in Nat \ {0} : c = Append(p, i)
    BY DEF c
  <2> QED
    BY <2>1, <2>2
<1> HIDE DEF N, f
<1> QED
  BY <1>1, <1>7, <1>8, <1>10, <1>11, StartKeeps DEF f

LEMMA GroupKeeps ==
    ASSUME IInv, NEW p \in DOMAIN act, Group(p)
    PROVE  IInv'
<1>1. /\ act[p].at = "new" /\ act[p].f.fn = "group" /\ UNCHANGED <<Env, crashed>>
      /\ Spawn(p, GroupFunctions(act[p].f), "collect")
  BY DEF Group, Running
<1>2. Calls(world, act[p].f) = GroupFunctions(act[p].f)
  BY <1>1 DEF Calls
<1>3. world \in Worlds /\ FunctionOK(act[p].f)
  BY DEF IInv, Shapes, Families, Family
<1>4. Calls(world, act[p].f) # <<>>
  BY <1>1, <1>3, CallsList
<1> QED
  BY <1>1, <1>2, <1>4, SpawnKeeps

LEMMA DirectFailsKeeps ==
    ASSUME IInv, NEW p \in DOMAIN act, DirectFails(p)
    PROVE  IInv'
<1>1. /\ act[p].at # "sent" /\ UNCHANGED <<Env, crashed>>
      /\ Send(p, expandFailResponse("ERROR_CODE_EXECUTION"))
  BY DEF DirectFails, Running
<1> QED
  BY <1>1, FailKeeps

LEMMA TupleToUserSetFailsKeeps ==
    ASSUME IInv, NEW p \in DOMAIN act, TupleToUserSetFails(p)
    PROVE  IInv'
<1>1. /\ act[p].at # "sent" /\ UNCHANGED <<Env, crashed>>
      /\ Send(p, expandFailResponse("ERROR_CODE_EXECUTION"))
  BY DEF TupleToUserSetFails, Running
<1> QED
  BY <1>1, FailKeeps

\* A panic leaves the goroutines and their results as they are.
LEMMA PanicKeeps ==
    ASSUME IInv, NEW p, Panic(p)
    PROVE  IInv'
<1>1. UNCHANGED <<world, request, cancelled, act, chan>> /\ crashed' = TRUE
  BY DEF Panic, Env
<1>2. Shapes' /\ Sent'
  BY <1>1 DEF IInv, Shapes, Sent
<1>3. Paths'
  BY <1>1 DEF IInv, Paths, Asked
<1>4. Families'
  BY <1>1 DEF IInv, Families, Family
<1>5. Honest'
  BY <1>1 DEF IInv, Honest, ContextDone, Cancels
<1>6. Trees'
  BY <1>1 DEF IInv, Trees, TreeSent, TreesGot
<1> QED
  BY <1>2, <1>3, <1>4, <1>5, <1>6 DEF IInv

LEMMA ExpandDirectKeeps ==
    ASSUME IInv, NEW p \in DOMAIN act, ExpandDirect(p)
    PROVE  IInv'
<1> DEFINE f == act[p].f
<1>1. /\ act[p].at = "new" /\ f.fn = "direct" /\ UNCHANGED <<Env, crashed>>
      /\ IF UserSetFunctions(world, f) = <<>> THEN Send(p, OwnLeaf(world, f))
         ELSE Spawn(p, UserSetFunctions(world, f), "collect")
  BY DEF ExpandDirect, Running
<1>2. Calls(world, f) = UserSetFunctions(world, f)
  BY <1>1 DEF Calls
<1>3. CASE UserSetFunctions(world, f) = <<>>
  <2>1. world \in Worlds /\ crashed \in BOOLEAN
    BY DEF IInv, Shapes
  <2>2. f \in DOMAIN Tree[world] => OwnLeaf(world, f).tree = Tree[world][f]
    BY <1>1, <1>3, <2>1, TreeAssumption
  <2>3. OwnLeaf(world, f).err = ""
    BY DEF OwnLeaf, Leaf
  <2> QED
    BY <1>1, <1>3, <2>1, <2>2, <2>3, SendKeeps
<1>4. CASE UserSetFunctions(world, f) # <<>>
  BY <1>1, <1>2, <1>4, SpawnKeeps
<1> QED
  BY <1>3, <1>4

LEMMA ExpandTupleToUserSetKeeps ==
    ASSUME IInv, NEW p \in DOMAIN act, ExpandTupleToUserSet(p)
    PROVE  IInv'
<1> DEFINE f == act[p].f
           functions == ComputedFunctions(world, f)
<1>1. /\ act[p].at = "new" /\ f.fn = "ttu" /\ UNCHANGED <<Env, crashed>>
      /\ IF functions = <<>> THEN Send(p, Node("union", <<>>))
         ELSE Spawn(p, functions, "collect")
  BY DEF ExpandTupleToUserSet, Running
<1>2. Calls(world, f) = functions
  BY <1>1 DEF Calls
<1>3. CASE functions = <<>>
  <2>1. world \in Worlds /\ crashed \in BOOLEAN
    BY DEF IInv, Shapes
  <2>2. [i \in DOMAIN functions |-> Tree[world][functions[i]]] = <<>>
    <3> HIDE DEF functions
    <3> QED
      BY <1>3
  <2>3. f \in DOMAIN Tree[world] => Node("union", <<>>).tree = Tree[world][f]
    BY <1>1, <2>1, <2>2, TreeAssumption
  <2>4. Node("union", <<>>).err = ""
    BY DEF Node
  <2> QED
    BY <1>1, <1>3, <2>1, <2>3, <2>4, SendKeeps
<1>4. CASE functions # <<>>
  BY <1>1, <1>2, <1>4, SpawnKeeps
<1> QED
  BY <1>3, <1>4

LEMMA RootResultKeeps ==
    ASSUME IInv, NEW p \in DOMAIN act, RootResult(p)
    PROVE  IInv'
<1> DEFINE c == Append(p, 1)
           f == act[p].f
<1>1. /\ act[p].at = "root" /\ UNCHANGED <<Env, crashed>>
      /\ c \in DOMAIN chan /\ Send(p, chan[c])
  BY DEF RootResult, Waiting
<1>2. f.fn = "expand" /\ act[c].f = RootFunction(f) /\ world \in Worlds /\ crashed \in BOOLEAN
  BY <1>1 DEF IInv, Families, Family, Shapes
<1>3. chan[c].err = "ERROR_CODE_CANCELLED" => ContextDone(p)
  BY <1>1, ContextOfChild DEF IInv, Honest
<1>4. chan[c].err = "" /\ f \in DOMAIN Tree[world] => chan[c].tree = Tree[world][f]
  <2>1. TreeSent(c)
    BY <1>1 DEF IInv, Trees
  <2>2. f \in DOMAIN Tree[world] => /\ RootFunction(f) \in DOMAIN Tree[world]
                                    /\ Tree[world][f] = Tree[world][RootFunction(f)]
    BY <1>2, TreeAssumption
  <2> QED
    BY <1>2, <2>1, <2>2 DEF TreeSent
<1> HIDE DEF c
<1> QED
  BY <1>1, <1>2, <1>3, <1>4, SendKeeps

LEMMA SeeDoneKeeps ==
    ASSUME IInv, NEW p \in DOMAIN act, SeeDone(p)
    PROVE  IInv'
<1>1. /\ act[p].at # "sent" /\ UNCHANGED <<Env, crashed>> /\ ContextDone(p)
      /\ Send(p, expandFailResponse("ERROR_CODE_CANCELLED"))
  BY DEF SeeDone, Waiting
<1> QED
  BY <1>1, FailKeeps

\* expandOperation takes a result and waits for the next.
Take(p, tree) == act' = [act EXCEPT ![p].got = Append(act[p].got, tree)]

LEMMA TakeFacts ==
    ASSUME Shapes, NEW p \in DOMAIN act, NEW tree, Take(p, tree), NEW n \in Nat,
           Len(act[p].got) = n, act[p].got = [i \in 1..n |-> act[p].got[i]]
    PROVE  /\ act' = [q \in DOMAIN act |-> act'[q]]
           /\ \A q \in DOMAIN act : q # p => act'[q] = act[q]
           /\ act'[p] = [x \in Fields |-> act'[p][x]]
           /\ act'[p].f = act[p].f /\ act'[p].at = act[p].at
           /\ act'[p].functions = act[p].functions
           /\ Len(act'[p].got) = n + 1
           /\ act'[p].got = [i \in 1..(n + 1) |-> act'[p].got[i]]
           /\ act'[p].got[n + 1] = tree
           /\ \A i \in 1..n : act'[p].got[i] = act[p].got[i]
<1> DEFINE got == Append(act[p].got, tree)
<1>1. /\ act = [q \in DOMAIN act |-> act[q]]
      /\ act[p] = [x \in Fields |-> act[p][x]]
  BY DEF Shapes
<1>2. /\ Len(got) = n + 1 /\ got = [i \in 1..(n + 1) |-> got[i]]
      /\ got[n + 1] = tree /\ \A i \in 1..n : got[i] = act[p].got[i]
  BY AppendAny
<1>3. act' = [act EXCEPT ![p].got = got]
  BY DEF Take
<1> HIDE DEF got
<1>4. /\ act' = [q \in DOMAIN act |-> act'[q]]
      /\ \A q \in DOMAIN act : q # p => act'[q] = act[q]
      /\ act'[p] = [act[p] EXCEPT !.got = got]
  BY <1>1, <1>3
<1>5. /\ act'[p] = [x \in Fields |-> act'[p][x]]
      /\ act'[p].f = act[p].f /\ act'[p].at = act[p].at
      /\ act'[p].functions = act[p].functions /\ act'[p].got = got
  BY <1>1, <1>4 DEF Fields
<1> QED
  BY <1>2, <1>4, <1>5

LEMMA GotKeeps ==
    ASSUME IInv, NEW p \in DOMAIN act, act[p].at = "collect", NEW tree,
           NEW n \in Nat, Len(act[p].got) = n, n + 1 < Len(act[p].functions),
           (act[p].f \in DOMAIN Tree[world] /\ act[p].f.fn # "direct")
              => tree = Tree[world][act[p].functions[n + 1]],
           Take(p, tree), UNCHANGED <<world, request, cancelled, chan, crashed>>
    PROVE  IInv'
<1>1. Family(p) /\ Shapes
  BY DEF IInv, Families
<1>2. act[p].got = [i \in 1..n |-> act[p].got[i]]
  BY <1>1 DEF Family
<1>3. /\ act' = [q \in DOMAIN act |-> act'[q]]
      /\ \A q \in DOMAIN act : q # p => act'[q] = act[q]
      /\ act'[p] = [x \in Fields |-> act'[p][x]]
      /\ act'[p].f = act[p].f /\ act'[p].at = act[p].at
      /\ act'[p].functions = act[p].functions
      /\ Len(act'[p].got) = n + 1
      /\ act'[p].got = [i \in 1..(n + 1) |-> act'[p].got[i]]
      /\ act'[p].got[n + 1] = tree
      /\ \A i \in 1..n : act'[p].got[i] = act[p].got[i]
  BY <1>1, <1>2, TakeFacts
<1>4. DOMAIN act' = DOMAIN act
  BY <1>3
<1>5. \A q \in DOMAIN act : /\ act'[q].f = act[q].f /\ act'[q].at = act[q].at
                            /\ act'[q].functions = act[q].functions
  BY <1>3
<1>6. Grows
  BY <1>4, <1>5 DEF Grows, Cancels
<1>7. Shapes'
  <2>1. ASSUME NEW q \in DOMAIN act
        PROVE  /\ act'[q] = [x \in Fields |-> act'[q][x]]
               /\ act'[q].at \in {"new", "root", "collect", "sent"}
    <3>1. CASE q = p
      BY <1>3, <3>1
    <3>2. CASE q # p
      BY <1>1, <1>3, <3>2 DEF Shapes
    <3> QED
      BY <3>1, <3>2
  <2> QED
    BY <1>1, <1>3, <1>4, <2>1 DEF Shapes
<1>8. Sent'
  BY <1>4, <1>5 DEF IInv, Sent
<1>9. Paths'
  BY <1>4, <1>5, PrefixIn DEF IInv, Paths, Asked
<1>10. Families'
  <2> SUFFICES ASSUME NEW q \in DOMAIN act
               PROVE  Family(q)'
    BY <1>4 DEF Families
  <2>1. Family(q)
    BY DEF IInv, Families
  <2>2. CASE q # p
    <3>1. act'[q] = act[q]
      BY <1>3, <2>2
    <3> QED
      BY <1>4, <1>5, <2>1, <3>1 DEF Family
  <2>3. CASE q = p
    <3>1. FunctionOK(act'[p].f) /\ act'[p].at = "collect" /\ act'[p].f = act[p].f
      BY <1>1, <1>3 DEF Family
    <3>2. /\ act'[p].f.fn \in {"group", "ttu", "direct"}
          /\ act'[p].functions = Calls(world', act'[p].f)
          /\ Len(act'[p].functions) \in Nat
          /\ DOMAIN act'[p].functions = 1..Len(act'[p].functions)
          /\ \A i \in DOMAIN act'[p].functions :
                Append(p, i) \in DOMAIN act' /\ act'[Append(p, i)].f = act'[p].functions[i]
      BY <1>1, <1>3, <1>4, <1>5 DEF Family
    <3>3. /\ Len(act'[p].got) \in Nat /\ Len(act'[p].got) < Len(act'[p].functions)
      BY <1>3
    <3>4. act'[p].got = [i \in 1..Len(act'[p].got) |-> act'[p].got[i]]
      BY <1>3
    <3> QED
      BY <2>3, <3>1, <3>2, <3>3, <3>4 DEF Family
  <2> QED
    BY <2>2, <2>3
<1>11. Honest'
  <2> SUFFICES ASSUME NEW q \in DOMAIN chan, chan[q].err = "ERROR_CODE_CANCELLED"
               PROVE  ContextDone(q)'
    BY DEF Honest
  <2>1. q \in DOMAIN act /\ ContextDone(q)
    BY DEF IInv, Honest, Sent
  <2> QED
    BY <1>6, <2>1, ContextStays
<1>12. Trees'
  <2>1. ASSUME NEW q \in DOMAIN chan
        PROVE  TreeSent(q)'
    BY <1>5 DEF IInv, Trees, TreeSent, Sent
  <2>2. ASSUME NEW q \in DOMAIN act, q # p
        PROVE  TreesGot(q)'
    BY <1>3, <2>2 DEF IInv, Trees, TreesGot
  <2>3. TreesGot(p)'
    <3> SUFFICES ASSUME act[p].f \in DOMAIN Tree[world], act[p].f.fn # "direct",
                        NEW i \in 1..(n + 1)
                 PROVE  act'[p].got[i] = Tree[world][act[p].functions[i]]
      BY <1>3 DEF TreesGot
    <3>1. CASE i = n + 1
      BY <1>3, <3>1
    <3>2. CASE i \in 1..n
      <4>1. TreesGot(p)
        BY DEF IInv, Trees
      <4> QED
        BY <1>3, <3>2, <4>1 DEF TreesGot
    <3> QED
      BY <3>1, <3>2
  <2> QED
    BY <1>4, <2>1, <2>2, <2>3 DEF Trees
<1> QED
  BY <1>7, <1>8, <1>9, <1>10, <1>11, <1>12 DEF IInv

\* What TreeAssumption says of an operation.
LEMMA TreeOfCalls ==
    ASSUME NEW w \in Worlds, NEW f \in DOMAIN Tree[w]
    PROVE  /\ f.fn = "group" =>
                /\ \A i \in DOMAIN GroupFunctions(f) : GroupFunctions(f)[i] \in DOMAIN Tree[w]
                /\ Tree[w][f] = Node(f.op, [i \in DOMAIN GroupFunctions(f) |->
                                              Tree[w][GroupFunctions(f)[i]]]).tree
           /\ f.fn = "ttu" =>
                /\ \A i \in DOMAIN ComputedFunctions(w, f) :
                      ComputedFunctions(w, f)[i] \in DOMAIN Tree[w]
                /\ Tree[w][f] = Node("union", [i \in DOMAIN ComputedFunctions(w, f) |->
                                                 Tree[w][ComputedFunctions(w, f)[i]]]).tree
           /\ f.fn = "direct" => UserSetFunctions(w, f) = <<>>
  BY TreeAssumption

\* The trees of all its functions make the tree of an operation.
LEMMA TreeOfOperation ==
    ASSUME NEW f \in DOMAIN Tree[world], world \in Worlds, NEW functions, NEW trees,
           functions = Calls(world, f), functions # <<>>,
           f.fn \in {"group", "ttu", "direct"},
           f.fn # "direct" => trees = [i \in DOMAIN functions |-> Tree[world][functions[i]]]
    PROVE  /\ Combined(f, trees).tree = Tree[world][f]
           /\ f.fn # "direct" => \A i \in DOMAIN functions : functions[i] \in DOMAIN Tree[world]
<1>1. CASE f.fn = "direct"
  <2>1. functions = UserSetFunctions(world, f)
    BY <1>1 DEF Calls
  <2> QED
    BY <1>1, <2>1, TreeOfCalls
<1>2. CASE f.fn = "group"
  <2>1. functions = GroupFunctions(f) /\ Combined(f, trees) = Node(f.op, trees)
    BY <1>2 DEF Combined, Calls, Op
  <2>2. trees = [i \in DOMAIN GroupFunctions(f) |-> Tree[world][GroupFunctions(f)[i]]]
    BY <1>2, <2>1
  <2>3. /\ Tree[world][f] = Node(f.op, trees).tree
        /\ \A i \in DOMAIN GroupFunctions(f) : GroupFunctions(f)[i] \in DOMAIN Tree[world]
    BY <1>2, <2>2, TreeOfCalls
  <2> QED
    BY <2>1, <2>3
<1>3. CASE f.fn = "ttu"
  <2>1. functions = ComputedFunctions(world, f) /\ Combined(f, trees) = Node("union", trees)
    BY <1>3 DEF Combined, Calls, Op
  <2>2. trees = [i \in DOMAIN ComputedFunctions(world, f) |-> Tree[world][ComputedFunctions(world, f)[i]]]
    BY <1>3, <2>1
  <2>3. /\ Tree[world][f] = Node("union", trees).tree
        /\ \A i \in DOMAIN ComputedFunctions(world, f) : ComputedFunctions(world, f)[i] \in DOMAIN Tree[world]
    BY <1>3, <2>2, TreeOfCalls
  <2> QED
    BY <2>1, <2>3
<1> QED
  BY <1>1, <1>2, <1>3

LEMMA CollectKeeps ==
    ASSUME IInv, NEW p \in DOMAIN act, Collect(p)
    PROVE  IInv'
<1> DEFINE n == Len(act[p].got)
           c == Append(p, n + 1)
           f == act[p].f
           functions == act[p].functions
           response == chan[c]
           got == Append(act[p].got, response.tree)
           all == [i \in DOMAIN functions |-> Tree[world][functions[i]]]
<1>1. /\ act[p].at = "collect" /\ c \in DOMAIN chan /\ UNCHANGED <<Env, crashed>>
      /\ response.err # "" => Send(p, expandFailResponse(response.err))
      /\ response.err = "" /\ Len(got) = Len(functions) => Send(p, Combined(f, got))
      /\ response.err = "" /\ Len(got) # Len(functions)
            => Take(p, response.tree) /\ UNCHANGED chan
  BY DEF Collect, Waiting, NextResult, Take
<1>2. /\ world \in Worlds /\ crashed \in BOOLEAN
      /\ n \in Nat /\ n < Len(functions) /\ Len(functions) \in Nat
      /\ DOMAIN functions = 1..Len(functions)
      /\ functions = Calls(world, f)
      /\ f.fn \in {"group", "ttu", "direct"}
      /\ act[p].got = [i \in 1..n |-> act[p].got[i]]
      /\ \A i \in DOMAIN functions : act[Append(p, i)].f = functions[i]
  BY <1>1 DEF IInv, Families, Family, Shapes
<1>3. n + 1 \in DOMAIN functions /\ act[c].f = functions[n + 1] /\ functions # <<>>
  BY <1>2
<1>4. /\ Len(got) = n + 1 /\ got = [i \in 1..(n + 1) |-> got[i]]
      /\ got[n + 1] = response.tree /\ \A i \in 1..n : got[i] = act[p].got[i]
  BY <1>2, AppendAny
<1>5. response.err = "ERROR_CODE_CANCELLED" => ContextDone(p)
  BY <1>1, <1>2, ContextOfChild DEF IInv, Honest
<1>6. (f \in DOMAIN Tree[world] /\ f.fn # "direct" /\ response.err = "")
         => response.tree = Tree[world][functions[n + 1]]
  <2>1. TreeSent(c)
    BY <1>1 DEF IInv, Trees
  <2>2. f \in DOMAIN Tree[world] /\ f.fn # "direct"
           => functions[n + 1] \in DOMAIN Tree[world]
    <3> HIDE DEF f, functions, n
    <3> QED
      BY <1>2, <1>3, TreeOfOperation
  <2> QED
    BY <1>3, <2>1, <2>2 DEF TreeSent
<1>7. TreesGot(p)
  BY DEF IInv, Trees
<1> HIDE DEF c, got, response
<1>8. CASE response.err # ""
  BY <1>1, <1>5, <1>8, FailKeeps
<1>9. CASE response.err = "" /\ Len(got) = Len(functions)
  <2>1. ASSUME f \in DOMAIN Tree[world], f.fn # "direct"
        PROVE  got = all
    <3>1. ASSUME NEW i \in 1..(n + 1)
          PROVE  got[i] = Tree[world][functions[i]]
      <4>1. CASE i = n + 1
        BY <1>4, <1>6, <1>9, <2>1, <4>1
      <4>2. CASE i \in 1..n
        BY <1>1, <1>4, <1>7, <2>1, <4>2 DEF TreesGot
      <4> QED
        BY <1>2, <4>1, <4>2
    <3>2. DOMAIN functions = 1..(n + 1)
      BY <1>2, <1>4, <1>9
    <3> HIDE DEF f, functions, n
    <3> QED
      BY <1>4, <3>1, <3>2
  <2>2. f \in DOMAIN Tree[world] => Combined(f, got).tree = Tree[world][f]
    <3> HIDE DEF f, functions, n, all
    <3>1. f.fn # "direct" => all = [i \in DOMAIN functions |-> Tree[world][functions[i]]]
      BY DEF all
    <3> QED
      BY <1>2, <1>3, <2>1, <3>1, TreeOfOperation
  <2>3. Combined(f, got).err = ""
    BY DEF Combined, OwnUnion, Node
  <2> DEFINE made == Combined(f, got)
  <2>4. Send(p, made)
    BY <1>1, <1>9
  <2> HIDE DEF made
  <2>5. /\ made.err = "" /\ act[p].at # "sent"
        /\ f \in DOMAIN Tree[world] => made.tree = Tree[world][f]
        /\ UNCHANGED <<Env, crashed>>
    BY <1>1, <1>2, <2>2, <2>3 DEF made
  <2> QED
    BY <2>4, <2>5, SendKeeps
<1>10. CASE response.err = "" /\ Len(got) # Len(functions)
  <2>1. n + 1 < Len(functions)
    <3>1. n \in Nat /\ Len(functions) \in Nat /\ n < Len(functions)
      BY <1>2
    <3>2. n + 1 # Len(functions)
      BY <1>4, <1>10
    <3> DEFINE m == Len(functions)
    <3> HIDE DEF m, n
    <3> QED
      BY <3>1, <3>2 DEF m
  <2>2. Take(p, response.tree) /\ UNCHANGED <<world, request, cancelled, chan, crashed>>
    BY <1>1, <1>10 DEF Env
  <2> QED
    BY <1>1, <1>2, <1>6, <1>10, <2>1, <2>2, GotKeeps
<1> QED
  BY <1>8, <1>9, <1>10

-----------------------------------------------------------------------------
(* The theorems. *)

LEMMA InitHolds == Init => IInv
<1> SUFFICES ASSUME Init PROVE IInv
  OBVIOUS
<1> DEFINE g == Goroutine(Asked)
<1>1. /\ world \in Worlds /\ cancelled = FALSE /\ crashed = FALSE
      /\ act = [p \in {<<>>} |-> g] /\ chan = [p \in {} |-> {}]
  BY DEF Init, Asked
<1>2. DOMAIN act = {<<>>} /\ act[<<>>] = g /\ DOMAIN chan = {}
  BY <1>1
<1>3. /\ g = [x \in Fields |-> g[x]] /\ g.at = "new" /\ g.f = Asked
      /\ g.functions = <<>> /\ g.got = <<>>
  BY DEF Goroutine, Fields
<1> HIDE DEF g
<1>4. FunctionOK(Asked)
  BY DEF FunctionOK, Asked, ExpandOf
<1>5. Shapes
  BY <1>1, <1>2, <1>3 DEF Shapes
<1>6. Paths
  <2>1. \A i \in 0..Len(<<>>) : SubSeq(<<>>, 1, i) = <<>>
    OBVIOUS
  <2> QED
    BY <1>2, <1>3, <2>1 DEF Paths
<1>7. Sent /\ Honest
  BY <1>2, <1>3 DEF Sent, Honest
<1>8. Families
  BY <1>2, <1>3, <1>4 DEF Families, Family
<1>9. Trees
  BY <1>2, <1>3 DEF Trees, TreesGot
<1> QED
  BY <1>5, <1>6, <1>7, <1>8, <1>9 DEF IInv

LEMMA NextKeeps ==
    ASSUME IInv, [Next]_vars
    PROVE  IInv'
<1>1. ASSUME NEW p \in DOMAIN act, GoroutineStep(p)
      PROVE  IInv'
  BY <1>1, ExpandRefusedKeeps, ExpandRootKeeps, GroupKeeps, DirectFailsKeeps, ExpandDirectKeeps,
     TupleToUserSetFailsKeeps, ExpandTupleToUserSetKeeps, CollectKeeps, RootResultKeeps,
     SeeDoneKeeps, PanicKeeps DEF GoroutineStep
<1>2. CASE UNCHANGED vars
  <2>1. UNCHANGED <<world, request, cancelled, act, chan, crashed>>
    BY <1>2 DEF vars
  <2>2. Shapes' /\ Sent'
    BY <2>1 DEF IInv, Shapes, Sent
  <2>3. Paths'
    BY <2>1 DEF IInv, Paths, Asked
  <2>4. Families'
    BY <2>1 DEF IInv, Families, Family
  <2>5. Honest'
    BY <2>1 DEF IInv, Honest, ContextDone, Cancels
  <2>6. Trees'
    BY <2>1 DEF IInv, Trees, TreeSent, TreesGot
  <2> QED
    BY <2>2, <2>3, <2>4, <2>5, <2>6 DEF IInv
<1> QED
  BY <1>1, <1>2, CancelKeeps DEF Next

\* The inductive invariant holds in every behaviour.
THEOREM InvariantHolds == Spec => []IInv
<1>1. IInv /\ [Next]_vars => IInv'
  BY NextKeeps
<1> QED
  BY <1>1, InitHolds, PTL DEF Spec

\* A goroutine's parent exists, and it has a result exactly when it has sent it.
THEOREM TypeCorrect == Spec => []TypeOK
<1>1. IInv => TypeOK
  BY PrefixIn DEF IInv, Shapes, Sent, TypeOK
<1> QED
  BY <1>1, InvariantHolds, PTL

\* No reply says CANCELLED unless the client's own context ended, whatever was
\* cancelled inside.
THEOREM CancelHonestHolds == Spec => []CancelHonest
<1>1. IInv => CancelHonest
  <2> SUFFICES ASSUME IInv, Replied, Reply.err = "ERROR_CODE_CANCELLED"
               PROVE  cancelled
    BY DEF CancelHonest
  <2>1. ContextDone(<<>>)
    BY DEF IInv, Honest, Replied, Reply
  <2>2. 0..(Len(<<>>) - 1) = {}
    OBVIOUS
  <2> QED
    BY <2>1, <2>2 DEF ContextDone
<1> QED
  BY <1>1, InvariantHolds, PTL

\* A reply without an error, to a request that meets no user sets, is the tree
\* of the request, in the order of the schema and of the tuples, however the
\* goroutines interleave, fail or are cancelled.
THEOREM InOrderHolds == Spec => []InOrder
<1>1. IInv => InOrder
  BY DEF IInv, Trees, TreeSent, Paths, Replied, Reply, InOrder
<1> QED
  BY <1>1, InvariantHolds, PTL

-----------------------------------------------------------------------------
(***************************************************************************)
(* Waiting.                                                                *)
(***************************************************************************)
\* The guards of GoroutineStep(p).  A goroutine that has not begun can always
\* begin: its read succeeds or fails.  MaxPath is the model's own bound.
CanStep(p) ==
    /\ ~crashed
    /\ \/ act[p].at = "new" /\ Len(p) < MaxPath
       \/ act[p].at = "collect" /\ NextResult(p) \in DOMAIN chan
       \/ act[p].at = "root" /\ Append(p, 1) \in DOMAIN chan
       \/ act[p].at \in {"root", "collect"} /\ ContextDone(p)

AtBound(p) == act[p].at = "new" /\ Len(p) = MaxPath

\* q is p, or has been started below it.
Under(q, p) == Len(p) <= Len(q) /\ SubSeq(q, 1, Len(p)) = p

\* A goroutine that has not sent its result is never waited for in vain: it can
\* go on, or one below it can (or is where the model stops to look).
NobodyStuck ==
    ~crashed => \A p \in DOMAIN act : act[p].at # "sent" =>
        \E q \in DOMAIN act : Under(q, p) /\ (CanStep(q) \/ AtBound(q))

(***************************************************************************)
(* How far a goroutine is, and what a step does to all of them.            *)
(***************************************************************************)
Stage(p) == CASE act[p].at = "new" -> 2 [] act[p].at = "sent" -> 0 [] OTHER -> 1
Missing(p) == IF act[p].at = "collect" THEN Len(act[p].functions) - Len(act[p].got) ELSE 0

Nearer(p) == \/ Stage(p)' < Stage(p)
             \/ Stage(p)' = Stage(p) /\ Missing(p)' < Missing(p)

\* A step takes one goroutine nearer to its result and leaves the others as they
\* are; goroutines are started only by one that begins, below it; and no channel
\* is sent to a second time, so that no sender ever waits for its buffer.
Descends ==
    \/ UNCHANGED <<act, chan>>
    \/ \E p \in DOMAIN act :
          /\ Nearer(p)
          /\ \A q \in DOMAIN act \ {p} : act'[q] = act[q]
          /\ \A q \in DOMAIN act' \ DOMAIN act :
                act[p].at = "new" /\ Prefix(q) = p /\ Len(q) <= MaxPath
          /\ \A q \in DOMAIN chan : q \in DOMAIN chan' /\ chan'[q] = chan[q]

Kinds == {"expand", "group", "direct", "ttu"}

\* Every goroutine runs one of the four functions, within the bound.
Bounded == \A p \in DOMAIN act : act[p].f.fn \in Kinds /\ Len(p) <= MaxPath

-----------------------------------------------------------------------------
\* A set of natural numbers has a least element.
LEMMA Least ==
    ASSUME NEW S, S \subseteq Nat, S # {}
    PROVE  \E k \in S : \A j \in S : k <= j
<1>1. PICK k \in S : \A j \in S : ~(<<j, k>> \in OpToRel(<, Nat))
  BY WFMin, NatLessThanWellFounded, Zenon
<1>2. ASSUME NEW j \in S PROVE k <= j
  <2>1. ~(j < k)
    BY <1>1 DEF OpToRel
  <2> QED
    BY <2>1
<1> QED
  BY <1>2

\* What a child, a definition and an operation hand to a goroutine.
LEMMA ChildKind ==
    ASSUME NEW entity, NEW child \in Children
    PROVE  ChildFunction(entity, child).fn \in Kinds
<1>1. child.type \in {"rewrite", "computedUserSet", "tupleToUserSet"}
  BY SchemaAssumption
<1> QED
  BY <1>1 DEF ChildFunction, ExpandOf, Kinds

LEMMA RootKind ==
    ASSUME NEW f, Defined(f.entity, f.permission)
    PROVE  RootFunction(f).fn \in Kinds
<1> DEFINE def == Schema[TypeOf[f.entity]][f.permission]
<1>1. CASE def.kind = "action"
  <2>1. def.child \in Children
    BY <1>1, SchemaAssumption DEF Defined
  <2>2. RootFunction(f) = ChildFunction(f.entity, def.child)
    BY <1>1 DEF RootFunction
  <2> QED
    BY <2>1, <2>2, ChildKind
<1>2. CASE def.kind # "action"
  BY <1>2 DEF RootFunction, Direct, ExpandOf, Kinds
<1> QED
  BY <1>1, <1>2

LEMMA CallsKind ==
    ASSUME NEW w, NEW f, FunctionOK(f), f.fn \in {"group", "ttu", "direct"}
    PROVE  \A i \in DOMAIN Calls(w, f) : Calls(w, f)[i].fn \in Kinds
<1>0. \A entity, permission, exclusion : ExpandOf(entity, permission, exclusion).fn \in Kinds
  BY DEF ExpandOf, Kinds
<1>1. CASE f.fn = "group"
  <2>1. f.children \in Seq(Children)
    BY <1>1 DEF FunctionOK
  <2>2. \A i \in DOMAIN f.children : f.children[i] \in Children
    BY <2>1
  <2>3. Calls(w, f) = [i \in DOMAIN f.children |-> ChildFunction(f.entity, f.children[i])]
    BY <1>1 DEF Calls, GroupFunctions
  <2> QED
    BY <2>2, <2>3, ChildKind
<1>2. CASE f.fn = "ttu"
  <2> DEFINE objects == Subjects(w, {i \in Found(w, f) : w[i].subject.relation = ELLIPSIS})
  <2>1. Calls(w, f) = ComputedFunctions(w, f)
    BY <1>2 DEF Calls
  <2>2. Calls(w, f) = [i \in DOMAIN objects |-> ExpandOf(objects[i].entity, f.computed, f.exclusion)]
    BY <2>1, Zenon DEF ComputedFunctions
  <2> HIDE DEF objects
  <2> QED
    BY <1>0, <2>2
<1>3. CASE f.fn = "direct"
  <2> DEFINE sets == Subjects(w, {i \in Found(w, f) : IsUserSet(w[i].subject)})
  <2>1. Calls(w, f) = UserSetFunctions(w, f)
    BY <1>3 DEF Calls
  <2>2. Calls(w, f) = [i \in DOMAIN sets |-> ExpandOf(sets[i].entity, sets[i].relation, f.exclusion)]
    BY <2>1, Zenon DEF UserSetFunctions
  <2> HIDE DEF sets
  <2> QED
    BY <1>0, <2>2
<1> QED
  BY <1>1, <1>2, <1>3

(***************************************************************************)
(* The three things a goroutine does: it starts others and waits for them, *)
(* takes one of their results, or sends its own.                           *)
(***************************************************************************)
Starts(p) ==
    /\ act[p].at = "new" /\ act'[p].at \in {"root", "collect"} /\ Len(p) < MaxPath
    /\ chan' = chan /\ act'[p].f = act[p].f
    /\ DOMAIN act \subseteq DOMAIN act'
    /\ \A q \in DOMAIN act \ {p} : act'[q] = act[q]
    /\ \A q \in DOMAIN act' \ DOMAIN act :
          act'[q].f.fn \in Kinds /\ \E i \in Nat : q = Append(p, i)

Takes(p) ==
    /\ act[p].at = "collect" /\ chan' = chan
    /\ Len(act[p].got) + 1 # Len(act[p].functions)
    /\ \E tree : Take(p, tree)

Sends(p) == act[p].at # "sent" /\ \E response : Send(p, response)

\* An operation starts a goroutine for each of its functions.
LEMMA SpawnStarts ==
    ASSUME IInv, NEW p \in DOMAIN act, act[p].at = "new",
           act[p].f.fn \in {"group", "ttu", "direct"},
           Spawn(p, Calls(world, act[p].f), "collect")
    PROVE  Starts(p)
<1> DEFINE functions == Calls(world, act[p].f)
           N == {Append(p, i) : i \in DOMAIN functions}
<1>1. /\ world \in Worlds /\ FunctionOK(act[p].f) /\ p \in Seq(Nat)
      /\ act[p] = [x \in Fields |-> act[p][x]]
  BY DEF IInv, Shapes, Families, Family, Paths
<1>2. IsList(functions) /\ \A i \in DOMAIN functions : functions[i].fn \in Kinds
  BY <1>1, CallsList, CallsKind
<1> HIDE DEF functions
<1>3. Len(functions) \in Nat /\ DOMAIN functions = 1..Len(functions)
  BY <1>2 DEF IsList
<1>4. /\ act' = [q \in DOMAIN act \cup N |->
                 IF q = p THEN [act[p] EXCEPT !.at = "collect", !.functions = functions]
                 ELSE IF q \in DOMAIN act THEN act[q]
                 ELSE Goroutine(functions[q[Len(q)]])]
      /\ Len(p) < MaxPath /\ chan' = chan
  BY DEF Spawn, functions
<1>5. act'[p].at = "collect" /\ act'[p].f = act[p].f
  <2>1. act'[p] = [act[p] EXCEPT !.at = "collect", !.functions = functions]
    BY <1>4
  <2> QED
    BY <1>1, <2>1 DEF Fields
<1>6. DOMAIN act' = DOMAIN act \cup N /\ \A q \in DOMAIN act \ {p} : act'[q] = act[q]
  BY <1>4
<1>7. ASSUME NEW q \in DOMAIN act' \ DOMAIN act
      PROVE  act'[q].f.fn \in Kinds /\ \E i \in Nat : q = Append(p, i)
  <2>1. PICK i \in DOMAIN functions : q = Append(p, i)
    BY <1>6, <1>7
  <2>2. i \in Nat
    BY <1>3
  <2>3. q[Len(q)] = i
    BY <1>1, <2>1, <2>2, ChildPath
  <2>4. act'[q] = Goroutine(functions[i])
    BY <1>4, <1>6, <1>7, <2>3
  <2> QED
    BY <1>2, <2>1, <2>2, <2>4 DEF Goroutine
<1> QED
  BY <1>4, <1>5, <1>6, <1>7 DEF Starts

\* expandRoot starts one.
LEMMA RootStarts ==
    ASSUME IInv, NEW p \in DOMAIN act, ExpandRoot(p)
    PROVE  Starts(p)
<1> DEFINE f == act[p].f
           c == Append(p, 1)
           a == [act EXCEPT ![p].at = "root"]
           g == Goroutine(RootFunction(f))
<1>1. /\ act[p].at = "new" /\ Defined(f.entity, f.permission) /\ Len(p) < MaxPath
      /\ chan' = chan /\ act' = Extend(a, c, g)
  BY DEF ExpandRoot, Running
<1>2. /\ act = [q \in DOMAIN act |-> act[q]]
      /\ act[p] = [x \in Fields |-> act[p][x]] /\ p \in Seq(Nat)
  BY DEF IInv, Shapes, Paths
<1>3. c # p /\ c # <<>> /\ Prefix(c) = p
  BY <1>2, ChildPath
<1>4. c \notin DOMAIN act
  BY <1>1, <1>3 DEF IInv, Paths
<1>5. g.f.fn \in Kinds
  BY <1>1, RootKind DEF Goroutine
<1>6. /\ DOMAIN a = DOMAIN act
      /\ a[p] = [act[p] EXCEPT !.at = "root"]
      /\ \A q \in DOMAIN act : q # p => a[q] = act[q]
  BY <1>2
<1> HIDE DEF a, c, g
<1>7. /\ DOMAIN act' = DOMAIN act \cup {c}
      /\ act'[p] = [act[p] EXCEPT !.at = "root"]
      /\ \A q \in DOMAIN act : q # p => act'[q] = act[q]
      /\ act'[c] = g
  BY <1>1, <1>3, <1>4, <1>6 DEF Extend
<1>8. act'[p].at = "root" /\ act'[p].f = act[p].f
  BY <1>2, <1>7 DEF Fields
<1>9. \E i \in Nat : c = Append(p, i)
  BY DEF c
<1> QED
  BY <1>1, <1>5, <1>7, <1>8, <1>9 DEF Starts

\* expandOperation takes a result, or answers.
LEMMA CollectShape ==
    ASSUME IInv, NEW p \in DOMAIN act, Collect(p)
    PROVE  Takes(p) \/ Sends(p)
<1> DEFINE n == Len(act[p].got)
           c == Append(p, n + 1)
           functions == act[p].functions
           response == chan[c]
           got == Append(act[p].got, response.tree)
<1>1. /\ act[p].at = "collect"
      /\ response.err # "" => Send(p, expandFailResponse(response.err))
      /\ response.err = "" /\ Len(got) = Len(functions) => Send(p, Combined(act[p].f, got))
      /\ response.err = "" /\ Len(got) # Len(functions)
            => Take(p, response.tree) /\ UNCHANGED chan
  BY DEF Collect, Waiting, NextResult, Take
<1>2. n \in Nat /\ act[p].got = [i \in 1..n |-> act[p].got[i]]
  BY <1>1 DEF IInv, Families, Family
<1>3. Len(got) = n + 1
  BY <1>2, AppendAny
<1> HIDE DEF response, got
<1> QED
  BY <1>1, <1>3 DEF Sends, Takes

\* Every step of a goroutine is one of the three, or ends the process.
LEMMA GoroutineShape ==
    ASSUME IInv, NEW p \in DOMAIN act, GoroutineStep(p)
    PROVE  Starts(p) \/ Takes(p) \/ Sends(p) \/ UNCHANGED <<act, chan>>
<1>1. CASE ExpandRefused(p) \/ DirectFails(p) \/ TupleToUserSetFails(p)
  BY <1>1 DEF ExpandRefused, DirectFails, TupleToUserSetFails, Running, Sends
<1>2. CASE RootResult(p) \/ SeeDone(p)
  BY <1>2 DEF RootResult, SeeDone, Waiting, Sends
<1>3. CASE ExpandRoot(p)
  BY <1>3, RootStarts
<1>4. CASE Group(p)
  <2>1. act[p].at = "new" /\ act[p].f.fn = "group"
    BY <1>4 DEF Group, Running
  <2>2. Calls(world, act[p].f) = GroupFunctions(act[p].f)
    BY <2>1 DEF Calls
  <2> QED
    BY <1>4, <2>1, <2>2, SpawnStarts DEF Group
<1>5. CASE ExpandDirect(p)
  <2>1. act[p].at = "new" /\ act[p].f.fn = "direct"
    BY <1>5 DEF ExpandDirect, Running
  <2>2. Calls(world, act[p].f) = UserSetFunctions(world, act[p].f)
    BY <2>1 DEF Calls
  <2>3. \/ Send(p, OwnLeaf(world, act[p].f))
        \/ Spawn(p, UserSetFunctions(world, act[p].f), "collect")
    BY <1>5 DEF ExpandDirect
  <2> QED
    BY <2>1, <2>2, <2>3, SpawnStarts DEF Sends
<1>6. CASE ExpandTupleToUserSet(p)
  <2>1. act[p].at = "new" /\ act[p].f.fn = "ttu"
    BY <1>6 DEF ExpandTupleToUserSet, Running
  <2>2. Calls(world, act[p].f) = ComputedFunctions(world, act[p].f)
    BY <2>1 DEF Calls
  <2>3. \/ Send(p, Node("union", <<>>))
        \/ Spawn(p, ComputedFunctions(world, act[p].f), "collect")
    BY <1>6 DEF ExpandTupleToUserSet
  <2> QED
    BY <2>1, <2>2, <2>3, SpawnStarts DEF Sends
<1>7. CASE Collect(p)
  BY <1>7, CollectShape
<1>8. CASE Panic(p)
  BY <1>8 DEF Panic
<1> QED
  BY <1>1, <1>2, <1>3, <1>4, <1>5, <1>6, <1>7, <1>8 DEF GoroutineStep

\* Goroutines stay within the bound and run the four functions.
LEMMA BoundedStep == IInv /\ Bounded /\ [Next]_vars => Bounded'
<1> SUFFICES ASSUME IInv, Bounded, [Next]_vars PROVE Bounded'
  OBVIOUS
<1>1. CASE UNCHANGED act
  BY <1>1 DEF Bounded
<1>2. ASSUME NEW p \in DOMAIN act, Starts(p) PROVE Bounded'
  <2> SUFFICES ASSUME NEW q \in DOMAIN act' PROVE act'[q].f.fn \in Kinds /\ Len(q) <= MaxPath
    BY DEF Bounded
  <2>1. CASE q \in DOMAIN act
    BY <1>2, <2>1 DEF Starts, Bounded
  <2>2. CASE q \notin DOMAIN act
    <3>1. PICK i \in Nat : q = Append(p, i)
      BY <1>2, <2>2 DEF Starts
    <3>2. p \in Seq(Nat) /\ Len(p) \in Nat /\ Len(p) < MaxPath
      BY <1>2 DEF Starts, IInv, Paths
    <3>3. Len(q) = Len(p) + 1
      BY <3>1, <3>2, ChildPath
    <3>4. act'[q].f.fn \in Kinds
      BY <1>2, <2>2 DEF Starts
    <3> QED
      BY <3>2, <3>3, <3>4, ExpandAssumption
  <2> QED
    BY <2>1, <2>2
<1>3. ASSUME NEW p \in DOMAIN act, Takes(p) \/ Sends(p) PROVE Bounded'
  <2>1. DOMAIN act' = DOMAIN act /\ \A q \in DOMAIN act : act'[q].f = act[q].f
    <3>1. CASE Sends(p)
      BY <3>1, SendFacts DEF Sends
    <3>2. CASE Takes(p)
      <4>1. PICK tree : Take(p, tree)
        BY <3>2 DEF Takes
      <4>2. /\ Len(act[p].got) \in Nat
            /\ act[p].got = [i \in 1..Len(act[p].got) |-> act[p].got[i]]
        BY <3>2 DEF Takes, IInv, Families, Family
      <4>3. /\ act' = [q \in DOMAIN act |-> act'[q]]
            /\ \A q \in DOMAIN act : q # p => act'[q] = act[q]
            /\ act'[p].f = act[p].f
        BY <4>1, <4>2, TakeFacts DEF IInv
      <4> QED
        BY <4>3
    <3> QED
      BY <1>3, <3>1, <3>2
  <2> QED
    BY <2>1 DEF Bounded
<1> QED
  BY <1>1, <1>2, <1>3, GoroutineShape DEF Next, Cancel, vars

\* A goroutine below which all have sent can go on.
LEMMA LastGoesOn ==
    ASSUME IInv, Bounded, ~crashed, NEW p \in DOMAIN act, act[p].at # "sent",
           \A i \in Nat : Append(p, i) \in DOMAIN act => act[Append(p, i)].at = "sent"
    PROVE  CanStep(p) \/ AtBound(p)
<1>1. p \in Seq(Nat) /\ Len(p) \in Nat /\ Len(p) <= MaxPath /\ MaxPath \in Nat
  BY ExpandAssumption DEF IInv, Paths, Bounded
<1>2. act[p].at \in {"new", "root", "collect"}
  BY DEF IInv, Shapes
<1>3. CASE act[p].at = "new"
  <2>1. Len(p) < MaxPath \/ Len(p) = MaxPath
    BY <1>1
  <2> QED
    BY <1>3, <2>1 DEF CanStep, AtBound
<1>4. CASE act[p].at = "root"
  <2>1. Append(p, 1) \in DOMAIN act
    BY <1>4 DEF IInv, Families, Family
  <2>2. Append(p, 1) \in DOMAIN chan
    BY <2>1 DEF IInv, Sent
  <2> QED
    BY <1>4, <2>2 DEF CanStep
<1>5. CASE act[p].at = "collect"
  <2>1. /\ Len(act[p].got) \in Nat /\ Len(act[p].functions) \in Nat
        /\ Len(act[p].got) < Len(act[p].functions)
        /\ DOMAIN act[p].functions = 1..Len(act[p].functions)
        /\ \A i \in DOMAIN act[p].functions : Append(p, i) \in DOMAIN act
    BY <1>5 DEF IInv, Families, Family
  <2>2. Len(act[p].got) + 1 \in DOMAIN act[p].functions /\ Len(act[p].got) + 1 \in Nat
    BY <2>1
  <2>3. NextResult(p) \in DOMAIN act /\ act[NextResult(p)].at = "sent"
    BY <2>1, <2>2 DEF NextResult
  <2>4. NextResult(p) \in DOMAIN chan
    BY <2>3 DEF IInv, Sent
  <2> QED
    BY <1>5, <2>4 DEF CanStep
<1> QED
  BY <1>2, <1>3, <1>4, <1>5

\* Below every goroutine that has not sent there is one that can go on: the one
\* that was started last.
LEMMA SomebodyGoesOn == IInv /\ Bounded => NobodyStuck
<1> SUFFICES ASSUME IInv, Bounded, ~crashed, NEW p \in DOMAIN act, act[p].at # "sent"
             PROVE  \E q \in DOMAIN act : Under(q, p) /\ (CanStep(q) \/ AtBound(q))
  BY DEF NobodyStuck
<1> DEFINE W == {q \in DOMAIN act : act[q].at # "sent" /\ Under(q, p)}
           D == {MaxPath - Len(q) : q \in W}
<1>1. \A q \in DOMAIN act : q \in Seq(Nat) /\ Len(q) \in Nat /\ Len(q) <= MaxPath /\ MaxPath \in Nat
  BY ExpandAssumption DEF IInv, Paths, Bounded
<1>2. p \in W
  BY <1>1, SubSeqProperties DEF Under
<1>3. PICK q \in W : \A x \in W : Len(x) <= Len(q)
  <2>1. D \subseteq Nat /\ D # {}
    BY <1>1, <1>2
  <2>2. PICK k \in D : \A j \in D : k <= j
    <3> HIDE DEF D
    <3> QED
      BY <2>1, Least
  <2>3. PICK q \in W : k = MaxPath - Len(q)
    BY <2>2
  <2>4. ASSUME NEW x \in W PROVE Len(x) <= Len(q)
    <3>1. MaxPath - Len(q) <= MaxPath - Len(x)
      BY <2>2, <2>3
    <3> QED
      BY <1>1, <3>1
  <2> QED
    BY <2>4
<1>4. ASSUME NEW i \in Nat, Append(q, i) \in DOMAIN act, act[Append(q, i)].at # "sent"
      PROVE  FALSE
  <2>1. /\ Len(Append(q, i)) = Len(q) + 1
        /\ \A n \in 0..Len(q) : SubSeq(Append(q, i), 1, n) = SubSeq(q, 1, n)
    BY <1>1, ChildPath
  <2>2. Len(p) \in 0..Len(q) /\ SubSeq(q, 1, Len(p)) = p /\ Len(q) \in Nat /\ Len(p) \in Nat
    BY <1>1, <1>3 DEF Under
  <2>3. Under(Append(q, i), p)
    BY <2>1, <2>2 DEF Under
  <2>4. Len(Append(q, i)) <= Len(q)
    BY <1>3, <1>4, <2>3
  <2> QED
    BY <2>1, <2>2, <2>4
<1>5. CanStep(q) \/ AtBound(q)
  BY <1>3, <1>4, LastGoesOn
<1> QED
  BY <1>3, <1>5

LEMMA BoundedInit == Init => Bounded
<1> SUFFICES ASSUME Init PROVE Bounded
  OBVIOUS
<1> DEFINE g == Goroutine(Asked)
<1>0. act = [p \in {<<>>} |-> g] /\ g.f = Asked /\ Asked.fn = "expand"
  BY DEF Init, Asked, Goroutine, ExpandOf
<1> HIDE DEF g
<1>1. DOMAIN act = {<<>>} /\ act[<<>>].f.fn = "expand"
  BY <1>0
<1>2. Len(<<>>) <= MaxPath
  BY ExpandAssumption
<1> QED
  BY <1>1, <1>2 DEF Bounded, Kinds

THEOREM ExpandBounded == Spec => []Bounded
BY BoundedInit, BoundedStep, InvariantHolds, PTL DEF Spec

\* No goroutine of an expansion waits in vain, for any schema, any relationships
\* and whatever fails or is cancelled: a result that expandRoot or
\* expandOperation waits for is sent, or one of the goroutines that make it can
\* go on.  Those an operation left behind on an error are no exception.
THEOREM ExpandNeverStuck == Spec => []NobodyStuck
BY ExpandBounded, InvariantHolds, SomebodyGoesOn, PTL

-----------------------------------------------------------------------------
LEMMA OneLess == \A a, b \in Nat : a - (b + 1) < a - b
  OBVIOUS

\* A goroutine that starts others, takes a result or sends is nearer to its end.
LEMMA StepDescends ==
    ASSUME IInv, NEW p \in DOMAIN act, GoroutineStep(p)
    PROVE  Descends
<1>1. p \in Seq(Nat) /\ Len(p) \in Nat /\ MaxPath \in Nat
      /\ act[p].at \in {"new", "root", "collect", "sent"}
  BY ExpandAssumption DEF IInv, Paths, Shapes
<1>2. CASE Starts(p)
  <2>1. Nearer(p)
    BY <1>2 DEF Starts, Nearer, Stage
  <2>2. ASSUME NEW q \in DOMAIN act' \ DOMAIN act
        PROVE  act[p].at = "new" /\ Prefix(q) = p /\ Len(q) <= MaxPath
    <3>1. PICK i \in Nat : q = Append(p, i)
      BY <1>2 DEF Starts
    <3>2. Len(p) < MaxPath /\ act[p].at = "new"
      BY <1>2 DEF Starts
    <3>3. Prefix(q) = p /\ Len(q) = Len(p) + 1
      BY <1>1, <3>1, ChildPath
    <3> QED
      BY <1>1, <3>2, <3>3
  <2> QED
    BY <1>2, <2>1, <2>2 DEF Starts, Descends
<1>3. CASE Takes(p)
  <2>1. PICK tree : Take(p, tree)
    BY <1>3 DEF Takes
  <2>2. /\ act[p].at = "collect" /\ chan' = chan
        /\ Len(act[p].got) \in Nat /\ Len(act[p].functions) \in Nat
        /\ act[p].got = [i \in 1..Len(act[p].got) |-> act[p].got[i]]
    BY <1>3 DEF Takes, IInv, Families, Family
  <2>3. /\ act' = [q \in DOMAIN act |-> act'[q]]
        /\ \A q \in DOMAIN act : q # p => act'[q] = act[q]
        /\ act'[p].at = act[p].at /\ act'[p].functions = act[p].functions
        /\ Len(act'[p].got) = Len(act[p].got) + 1
    BY <2>1, <2>2, TakeFacts DEF IInv
  <2>a. /\ Missing(p) = Len(act[p].functions) - Len(act[p].got)
        /\ Missing(p)' = Len(act[p].functions) - (Len(act[p].got) + 1)
    BY <2>2, <2>3 DEF Missing
  <2>b. Len(act[p].got) \in Nat /\ Len(act[p].functions) \in Nat
    BY <2>2
  <2>4. Missing(p)' < Missing(p)
    BY <2>a, <2>b, OneLess, Zenon
  <2>5. Nearer(p)
    BY <2>3, <2>4 DEF Nearer, Stage
  <2>6. DOMAIN act' = DOMAIN act
    BY <2>3
  <2> QED
    BY <2>2, <2>3, <2>5, <2>6 DEF Descends
<1>4. CASE Sends(p)
  <2>1. PICK response : Send(p, response)
    BY <1>4 DEF Sends
  <2>2. /\ DOMAIN act' = DOMAIN act
        /\ \A q \in DOMAIN act : q # p => act'[q] = act[q]
        /\ act'[p].at = "sent"
        /\ DOMAIN chan' = DOMAIN chan \cup {p}
        /\ \A q \in DOMAIN chan : q # p => chan'[q] = chan[q]
    BY <2>1, SendFacts
  <2>3. p \notin DOMAIN chan
    BY <1>4 DEF Sends, IInv, Sent
  <2>4. Nearer(p)
    BY <1>1, <1>4, <2>2 DEF Sends, Nearer, Stage
  <2> QED
    BY <2>2, <2>3, <2>4 DEF Descends
<1>5. CASE UNCHANGED <<act, chan>>
  BY <1>5 DEF Descends
<1> QED
  BY <1>2, <1>3, <1>4, <1>5, GoroutineShape

\* No goroutine of an expansion runs in circles, and none sends twice: the
\* channels of capacity one never block a sender, also one that nobody listens
\* to any more.  What makes an expansion endless is only that new goroutines
\* begin, deeper and deeper, where user sets contain each other.
THEOREM ExpandDescends == Spec => [][Descends]_vars
<1>1. IInv /\ [Next]_vars => [Descends]_vars
  <2> SUFFICES ASSUME IInv, Next PROVE Descends
    OBVIOUS
  <2>1. CASE Cancel
    BY <2>1 DEF Cancel, Descends
  <2>2. CASE \E p \in DOMAIN act : GoroutineStep(p)
    BY <2>2, StepDescends
  <2> QED
    BY <2>1, <2>2 DEF Next
<1> QED
  BY <1>1, InvariantHolds, PTL DEF Spec
=============================================================================
