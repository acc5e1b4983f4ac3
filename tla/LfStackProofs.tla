---------------------------- MODULE LfStackProofs ---------------------------
(***************************************************************************)
(* LfStack keeps its chains whole and implements Lifo, for any stacks,     *)
(* threads and nodes, under either discipline.                             *)
(***************************************************************************)
EXTENDS LfStack, TLAPS

-----------------------------------------------------------------------------
(* The inductive invariant. *)

(* Nodes are not NULL, a stack is no thread, and there is a stack. *)
StackAssumption ==
  /\ NULL \notin Nodes
  /\ Stacks \cap Threads = {} /\ Stacks # {}
  /\ Disciplines \subseteq {"rcu", "mutex"}

PopPc == {"pop", "pop_next", "pop_cas"}
Pcs == {"idle", "push", "visit"} \cup PopPc
Local == [op : {"none", "push", "pop", "pop_all"}, s : Stacks,
          node : Nodes \cup {NULL}, old : Nodes \cup {NULL}]

TypeOK ==
  /\ discipline \in {"rcu", "mutex"}
  /\ head \in [Stacks -> Nodes \cup {NULL}]
  /\ next \in [Nodes -> Nodes \cup {NULL}]
  /\ pc \in [Threads -> Pcs]
  /\ loc \in [Threads -> Local]
  /\ pre \in [Nodes -> SUBSET Threads]
  /\ abs \in [L!Holders -> Seq(Nodes)]

-----------------------------------------------------------------------------
(* Sequences of nodes, and the chains that link them. *)

In(q, n) == \E i \in 1..Len(q) : q[i] = n
Once(q) == \A i, j \in 1..Len(q) : q[i] = q[j] => i = j
First(q) == IF q = <<>> THEN NULL ELSE q[1]
Chain(f, q) == \A i \in 1..Len(q) : f[q[i]] = IF i = Len(q) THEN NULL ELSE q[i + 1]

-----------------------------------------------------------------------------
(* The operation in progress, and what its caller has in hand. *)
Doing(t) ==
  /\ pc[t] = "idle" => loc[t].op = "none" /\ abs[t] = <<>>
  /\ pc[t] = "push" => /\ loc[t].op = "push" /\ loc[t].node \in Nodes
                       /\ abs[t] = <<loc[t].node>>
                       /\ next[loc[t].node] = loc[t].old
                       /\ pre[loc[t].node] = {}
  /\ pc[t] \in PopPc => loc[t].op = "pop" /\ abs[t] = <<>>
  /\ pc[t] = "visit" => /\ loc[t].op = "pop_all"
                        /\ abs[t] # <<>> /\ loc[t].node = First(abs[t])
                        /\ Chain(next, abs[t])

DoingInv == \A t \in Threads : Doing(t)

(* A node is in one place. *)
PlaceInv ==
  /\ \A h \in L!Holders : Once(abs[h])
  /\ \A g, h \in L!Holders, n \in Nodes : In(abs[g], n) /\ In(abs[h], n) => g = h

(* The chain from a head is the stack; no grace period is running for a    *)
(* node on it.                                                             *)
StackInv ==
  \A s \in Stacks : /\ head[s] = First(abs[s])
                    /\ Chain(next, abs[s])
                    /\ \A n \in Nodes : In(abs[s], n) => pre[n] = {}

(* The head a pop has read is still on the stack, with the successor it    *)
(* has read; or a grace period that waits for the pop keeps it off.        *)
Safe(t) ==
  \/ /\ In(abs[loc[t].s], loc[t].node)
     /\ pc[t] = "pop_cas" => loc[t].old = next[loc[t].node]
  \/ discipline = "rcu" /\ t \in pre[loc[t].node]

PopInv ==
  \A t \in Threads :
    pc[t] \in {"pop_next", "pop_cas"} => loc[t].node \in Nodes /\ Safe(t)

(* The mutex: a pop is alone on its stack. *)
MutexInv ==
  discipline = "mutex" =>
    \A t, u \in Threads :
      loc[t].op = "pop" /\ loc[u].op \in {"pop", "pop_all"} /\ loc[t].s = loc[u].s
        => t = u

IInv == TypeOK /\ DoingInv /\ PlaceInv /\ StackInv /\ PopInv /\ MutexInv

-----------------------------------------------------------------------------
(* Sequences of nodes. *)

(* Lengths are natural numbers. *)
LEMMA LenNat ==
  ASSUME NEW q \in Seq(Nodes)
  PROVE  Len(q) \in Nat /\ (Len(q) = 0 <=> q = <<>>)
OBVIOUS

(* A length that is one less. *)
LEMMA LenLess ==
  ASSUME NEW a \in Nat, NEW b \in Nat, a > 0, b = a - 1
  PROVE  a = b + 1
OBVIOUS

(* The first node of a sequence: what ___cds_lfs_pop() reads as the head.  *)
LEMMA FirstOf ==
  ASSUME NEW q \in Seq(Nodes), NULL \notin Nodes
  PROVE  /\ First(q) \in Nodes \cup {NULL}
         /\ First(q) = NULL <=> q = <<>>
         /\ q # <<>> => In(q, First(q)) /\ Head(q) = First(q)
<1>1. q # <<>> => Len(q) \in Nat /\ 1 \in 1..Len(q) /\ q[1] \in Nodes /\ Head(q) = q[1]
  OBVIOUS
<1>2. q # <<>> => First(q) = q[1] /\ First(q) \in Nodes
  BY <1>1 DEF First
<1> QED
  BY Zenon, <1>1, <1>2 DEF First, In

(* What Range says of the nodes pop_all takes. *)
LEMMA RangeIn ==
  ASSUME NEW q \in Seq(Nodes), NEW n
  PROVE  n \in Range(q) <=> In(q, n)
<1>1. DOMAIN q = 1..Len(q)
  OBVIOUS
<1> QED
  BY Zenon, <1>1 DEF Range, In

(* No node is in the empty sequence. *)
LEMMA NoNode ==
  ASSUME NEW q, q = <<>>
  PROVE  /\ q \in Seq(Nodes) /\ Once(q) /\ First(q) = NULL
         /\ \A n : ~ In(q, n)
         /\ \A f : Chain(f, q)
<1>1. q \in Seq(Nodes) /\ Len(q) = 0
  OBVIOUS
<1>2. \A i \in 1..Len(q) : FALSE
  BY <1>1
<1>3. Once(q) /\ First(q) = NULL
  BY Zenon, <1>2 DEF Once, First
<1>4. \A n : ~ In(q, n)
  BY Zenon, <1>2 DEF In
<1>5. \A f : Chain(f, q)
  BY Zenon, <1>2 DEF Chain
<1> QED
  BY Zenon, <1>1, <1>3, <1>4, <1>5

(* The node a caller offers. *)
LEMMA OneSeq ==
  ASSUME NEW n \in Nodes
  PROVE  /\ <<n>> \in Seq(Nodes) /\ Once(<<n>>) /\ <<n>> # <<>> /\ Len(<<n>>) = 1
         /\ \A m : In(<<n>>, m) <=> m = n
<1>1. <<n>> \in Seq(Nodes) /\ Len(<<n>>) = 1 /\ <<n>>[1] = n /\ <<n>> # <<>>
  OBVIOUS
<1>2. \A i \in 1..1 : i = 1
  OBVIOUS
<1>3. 1 \in 1..1
  OBVIOUS
<1> DEFINE q == <<n>>
<1>4. Len(q) = 1 /\ q[1] = n
  BY Zenon, <1>1
<1> HIDE DEF q
<1>5. Once(q) /\ \A m : In(q, m) <=> m = n
  BY Zenon, <1>2, <1>3, <1>4 DEF Once, In
<1> QED
  BY Zenon, <1>1, <1>5 DEF q

(* Taking the first node: a pop, or a visit of the caller. *)
LEMMA TailSeq ==
  ASSUME NEW q \in Seq(Nodes), q # <<>>, Once(q)
  PROVE  /\ Tail(q) \in Seq(Nodes) /\ Once(Tail(q)) /\ L!Take(q, First(q)) = Tail(q)
         /\ \A n : In(Tail(q), n) <=> In(q, n) /\ n # First(q)
<1>1. /\ Tail(q) \in Seq(Nodes) /\ Len(q) \in Nat /\ Len(q) > 0
      /\ Len(Tail(q)) = Len(q) - 1 /\ Head(q) = q[1]
      /\ \A i \in 1..Len(q) - 1 : Tail(q)[i] = q[i + 1]
  OBVIOUS
<1>2. L!Take(q, First(q)) = Tail(q)
  BY Zenon, <1>1 DEF L!Take, First
<1>3. Once(Tail(q))
  BY <1>1 DEF Once
<1>4. ASSUME NEW n
      PROVE  In(Tail(q), n) <=> In(q, n) /\ n # q[1]
  <2>1. ASSUME NEW i \in 1..Len(q) - 1, Tail(q)[i] = n
        PROVE  i + 1 \in 1..Len(q) /\ q[i + 1] = n /\ n # q[1]
    BY <1>1, <2>1 DEF Once
  <2>2. ASSUME NEW i \in 1..Len(q), q[i] = n, n # q[1]
        PROVE  i - 1 \in 1..Len(q) - 1 /\ Tail(q)[i - 1] = n
    BY <1>1, <2>2
  <2> QED
    BY Zenon, <1>1, <2>1, <2>2 DEF In
<1> QED
  BY Zenon, <1>1, <1>2, <1>3, <1>4 DEF First

(* What is left is linked as it was, from the successor of the first.      *)
LEMMA TailChain ==
  ASSUME NEW q \in Seq(Nodes), q # <<>>, NEW f, Chain(f, q)
  PROVE  Chain(f, Tail(q)) /\ First(Tail(q)) = f[First(q)]
<1>1. /\ Tail(q) \in Seq(Nodes) /\ Len(q) \in Nat /\ Len(q) > 0
      /\ Len(Tail(q)) = Len(q) - 1
      /\ \A i \in 1..Len(q) - 1 : Tail(q)[i] = q[i + 1]
  OBVIOUS
<1>2. Len(Tail(q)) = 0 <=> Tail(q) = <<>>
  BY Zenon, <1>1, LenNat
<1> DEFINE p == Tail(q)
<1>3. PICK k \in Nat : k = Len(p)
  BY Zenon, <1>1, LenNat DEF p
<1>4. /\ Len(q) = k + 1 /\ \A i \in 1..k : p[i] = q[i + 1]
      /\ k = 0 <=> p = <<>>
  <2>1. Len(q) = k + 1 /\ Len(q) - 1 = k
    BY Zenon, <1>1, <1>3, LenLess DEF p
  <2> QED
    BY Zenon, <1>1, <1>2, <1>3, <2>1 DEF p
<1> HIDE DEF p
<1>5. \A i \in 1..k + 1 : f[q[i]] = IF i = k + 1 THEN NULL ELSE q[i + 1]
  BY Zenon, <1>4 DEF Chain
<1>6. ASSUME NEW i \in 1..k
      PROVE  f[p[i]] = IF i = k THEN NULL ELSE p[i + 1]
  <2>1. i + 1 \in 1..k + 1 /\ (i = k <=> i + 1 = k + 1) /\ (i # k => i + 1 \in 1..k)
    OBVIOUS
  <2>2. f[q[i + 1]] = IF i + 1 = k + 1 THEN NULL ELSE q[(i + 1) + 1]
    BY Zenon, <1>5, <2>1
  <2> QED
    BY Zenon, <1>4, <2>1, <2>2
<1>7. First(p) = f[q[1]]
  <2>1. 1 \in 1..k + 1 /\ (k = 0 <=> 1 = k + 1) /\ (k # 0 => 1 \in 1..k)
    OBVIOUS
  <2>2. f[q[1]] = IF 1 = k + 1 THEN NULL ELSE q[1 + 1]
    BY Zenon, <1>5, <2>1
  <2> QED
    BY Zenon, <1>4, <2>1, <2>2 DEF First
<1>8. Chain(f, p)
  BY Zenon, <1>3, <1>6 DEF Chain
<1> QED
  BY Zenon, <1>7, <1>8 DEF First, p

(* Pushing a node that is on no stack. *)
LEMMA PushSeq ==
  ASSUME NEW q \in Seq(Nodes), NEW n \in Nodes, Once(q), ~ In(q, n)
  PROVE  /\ <<n>> \o q \in Seq(Nodes) /\ Once(<<n>> \o q) /\ First(<<n>> \o q) = n
         /\ \A m : In(<<n>> \o q, m) <=> In(q, m) \/ m = n
<1>1. /\ <<n>> \o q \in Seq(Nodes) /\ Len(q) \in Nat
      /\ Len(<<n>> \o q) = Len(q) + 1 /\ (<<n>> \o q)[1] = n /\ <<n>> \o q # <<>>
      /\ \A i \in 1..Len(q) : (<<n>> \o q)[i + 1] = q[i]
  OBVIOUS
<1> DEFINE p == <<n>> \o q
<1>0. PICK k \in Nat : k = Len(q)
  BY Zenon, <1>1
<1>2. /\ Len(p) = k + 1 /\ p[1] = n
      /\ \A i \in 1..k : p[i + 1] = q[i]
  BY Zenon, <1>0, <1>1
<1> HIDE DEF p
<1>k. /\ 1 \in 1..k + 1
      /\ \A i \in 1..k : i + 1 \in 1..k + 1
      /\ \A i \in 1..k + 1 : i = 1 \/ \E j \in 1..k : i = j + 1
  <2>1. \A i \in 1..k + 1 : i = 1 \/ (i - 1 \in 1..k /\ i = (i - 1) + 1)
    OBVIOUS
  <2>2. \A i \in 1..k : i + 1 \in 1..k + 1
    OBVIOUS
  <2>3. 1 \in 1..k + 1
    OBVIOUS
  <2> QED
    BY Zenon, <2>1, <2>2, <2>3
<1>4. \A i \in 1..k : q[i] # n
  BY Zenon, <1>0 DEF In
<1>5. Once(p)
  <2> SUFFICES ASSUME NEW i \in 1..k + 1, NEW j \in 1..k + 1, p[i] = p[j]
               PROVE  i = j
    BY Zenon, <1>2 DEF Once
  <2>m. \A m \in 1..k + 1 : m = 1 \/ p[m] # n
    <3> SUFFICES ASSUME NEW m \in 1..k + 1, m # 1 PROVE p[m] # n
      BY Zenon
    <3>1. PICK l \in 1..k : m = l + 1
      BY Zenon, <1>k
    <3>2. p[m] = q[l] /\ q[l] # n
      BY Zenon, <1>2, <1>4, <3>1
    <3> QED
      BY Zenon, <3>2
  <2>1. CASE i = 1
    BY Zenon, <1>2, <2>m, <2>1
  <2>2. CASE j = 1
    BY Zenon, <1>2, <2>m, <2>2
  <2>3. CASE i # 1 /\ j # 1
    <3>1. PICK a \in 1..k : i = a + 1
      BY Zenon, <1>k, <2>3
    <3>2. PICK b \in 1..k : j = b + 1
      BY Zenon, <1>k, <2>3
    <3>3. q[a] = q[b]
      BY Zenon, <1>2, <3>1, <3>2
    <3> QED
      BY Zenon, <1>0, <3>1, <3>2, <3>3 DEF Once
  <2> QED
    BY Zenon, <2>1, <2>2, <2>3
<1>6. ASSUME NEW m
      PROVE  In(p, m) <=> In(q, m) \/ m = n
  <2>1. ASSUME NEW i \in 1..k + 1, p[i] = m
        PROVE  In(q, m) \/ m = n
    <3>1. CASE i = 1
      BY Zenon, <1>2, <2>1, <3>1
    <3>2. CASE i # 1
      <4>1. PICK j \in 1..k : i = j + 1
        BY Zenon, <1>k, <3>2
      <4>2. q[j] = m
        BY Zenon, <1>2, <2>1, <4>1
      <4> QED
        BY Zenon, <1>0, <4>2 DEF In
    <3> QED
      BY Zenon, <3>1, <3>2
  <2>2. ASSUME NEW i \in 1..k, q[i] = m
        PROVE  In(p, m)
    BY Zenon, <1>2, <1>k, <2>2 DEF In
  <2>3. In(p, n)
    BY Zenon, <1>2, <1>k DEF In
  <2> QED
    BY Zenon, <1>0, <1>2, <2>1, <2>2, <2>3 DEF In
<1> QED
  BY Zenon, <1>1, <1>5, <1>6 DEF First, p

(* A node linked to the first of a chain makes a longer chain. *)
LEMMA PushChain ==
  ASSUME NEW q \in Seq(Nodes), NEW n \in Nodes, NEW f, Chain(f, q), f[n] = First(q)
  PROVE  Chain(f, <<n>> \o q)
<1>1. /\ <<n>> \o q \in Seq(Nodes) /\ Len(q) \in Nat
      /\ Len(<<n>> \o q) = Len(q) + 1 /\ (<<n>> \o q)[1] = n
      /\ \A i \in 1..Len(q) : (<<n>> \o q)[i + 1] = q[i]
      /\ q = <<>> <=> Len(q) = 0
  OBVIOUS
<1> DEFINE p == <<n>> \o q
<1>0. PICK k \in Nat : k = Len(q)
  BY Zenon, <1>1
<1>2. /\ Len(p) = k + 1 /\ p[1] = n
      /\ \A i \in 1..k : p[i + 1] = q[i]
  BY Zenon, <1>0, <1>1
<1> HIDE DEF p
<1>k. /\ 1 \in 1..k + 1
      /\ \A i \in 1..k : i + 1 \in 1..k + 1
      /\ \A i \in 1..k + 1 : i = 1 \/ \E j \in 1..k : i = j + 1
  <2>1. \A i \in 1..k + 1 : i = 1 \/ (i - 1 \in 1..k /\ i = (i - 1) + 1)
    OBVIOUS
  <2>2. \A i \in 1..k : i + 1 \in 1..k + 1
    OBVIOUS
  <2>3. 1 \in 1..k + 1
    OBVIOUS
  <2> QED
    BY Zenon, <2>1, <2>2, <2>3
<1>n. k = 0 <=> q = <<>>
  BY Zenon, <1>0, <1>1
<1>3. ASSUME NEW i \in 1..k + 1
      PROVE  f[p[i]] = IF i = k + 1 THEN NULL ELSE p[i + 1]
  <2>1. CASE i = 1
    <3>1. (k = 0 <=> 1 = k + 1) /\ (k # 0 => 1 \in 1..k)
      OBVIOUS
    <3>2. f[n] = IF k = 0 THEN NULL ELSE q[1]
      BY Zenon, <1>n DEF First
    <3> QED
      BY Zenon, <1>2, <2>1, <3>1, <3>2
  <2>2. CASE i # 1
    <3>1. PICK j \in 1..k : i = j + 1
      BY Zenon, <1>k, <2>2
    <3>2. f[q[j]] = IF j = k THEN NULL ELSE q[j + 1]
      BY Zenon, <1>0 DEF Chain
    <3>3. (j = k <=> j + 1 = k + 1) /\ (j # k => j + 1 \in 1..k)
      OBVIOUS
    <3> QED
      BY Zenon, <1>2, <3>1, <3>2, <3>3
  <2> QED
    BY Zenon, <2>1, <2>2
<1>4. Chain(f, p)
  BY Zenon, <1>2, <1>3 DEF Chain
<1> QED
  BY Zenon, <1>4 DEF p

(* The nodes of a sequence are nodes. *)
LEMMA NodeIn ==
  ASSUME NEW q \in Seq(Nodes), NEW n, In(q, n)
  PROVE  n \in Nodes
<1>1. \A i \in 1..Len(q) : q[i] \in Nodes
  OBVIOUS
<1> QED
  BY Zenon, <1>1 DEF In

(* A chain is the same as long as no successor in it is stored. *)
LEMMA ChainKept ==
  ASSUME NEW q \in Seq(Nodes), NEW f, NEW g, Chain(f, q),
         \A n \in Nodes : In(q, n) => g[n] = f[n]
  PROVE  Chain(g, q)
<1>1. \A i \in 1..Len(q) : q[i] \in Nodes
  OBVIOUS
<1> QED
  BY Zenon, <1>1 DEF Chain, In

-----------------------------------------------------------------------------
(* What a step of one thread leaves the others. *)

(* The idle thread's local variables. *)
LEMMA IdleType ==
  ASSUME StackAssumption
  PROVE  Idle \in Local /\ Idle.op = "none"
<1>1. (CHOOSE s \in Stacks : TRUE) \in Stacks
  BY Zenon DEF StackAssumption
<1> QED
  BY Zenon, <1>1 DEF Idle, Local

(* The threads of T step: the others keep control, local variables and the *)
(* nodes in hand; a node on a stack stays on it, or its grace period waits *)
(* for the pops of that stack, or there is none.                           *)
Others(T) ==
  /\ discipline' = discipline
  /\ \A u \in Threads \ T : pc'[u] = pc[u] /\ loc'[u] = loc[u] /\ abs'[u] = abs[u]
  /\ \A u \in Threads \ T, n \in Nodes :
       In(abs[u], n) => next'[n] = next[n] /\ (pre[n] = {} => pre'[n] = {})
  /\ \A u \in Threads \ T, n \in Nodes : u \in pre[n] => u \in pre'[n]
  /\ \A u \in Threads \ T, n \in Nodes :
       loc[u].op = "pop" /\ In(abs[loc[u].s], n) =>
         \/ In(abs'[loc[u].s], n) /\ next'[n] = next[n]
         \/ discipline = "rcu" /\ u \in pre'[n]

(* Then what the invariant says of the others still holds. *)
LEMMA OthersKept ==
  ASSUME IInv, NEW T, Others(T), NEW u \in Threads \ T
  PROVE  /\ Doing(u)'
         /\ pc'[u] \in {"pop_next", "pop_cas"} => loc'[u].node \in Nodes /\ Safe(u)'
<1>t. /\ TypeOK /\ Doing(u) /\ u \in L!Holders /\ abs[u] \in Seq(Nodes)
      /\ pc[u] \in {"pop_next", "pop_cas"} => loc[u].node \in Nodes /\ Safe(u)
  BY Zenon DEF IInv, DoingInv, PopInv, L!Holders, TypeOK
<1>f. pc'[u] = pc[u] /\ loc'[u] = loc[u] /\ abs'[u] = abs[u] /\ discipline' = discipline
  BY Zenon DEF Others
<1>n. \A n \in Nodes : In(abs[u], n) => next'[n] = next[n] /\ (pre[n] = {} => pre'[n] = {})
  BY Zenon DEF Others
<1>1. pc[u] = "idle" => loc'[u].op = "none" /\ abs'[u] = <<>>
  BY Zenon, <1>t, <1>f DEF Doing
<1>2. ASSUME pc[u] = "push"
      PROVE  /\ loc'[u].op = "push" /\ loc'[u].node \in Nodes
             /\ abs'[u] = <<loc'[u].node>>
             /\ next'[loc'[u].node] = loc'[u].old
             /\ pre'[loc'[u].node] = {}
  <2>1. /\ loc[u].op = "push" /\ loc[u].node \in Nodes /\ abs[u] = <<loc[u].node>>
        /\ next[loc[u].node] = loc[u].old /\ pre[loc[u].node] = {}
    BY Zenon, <1>t, <1>2 DEF Doing
  <2>2. In(abs[u], loc[u].node)
    <3>1. In(<<loc[u].node>>, loc[u].node)
      BY Zenon, <2>1, OneSeq
    <3> QED
      BY Zenon, <2>1, <3>1
  <2> QED
    BY Zenon, <1>f, <1>n, <2>1, <2>2
<1>3. pc[u] \in PopPc => loc'[u].op = "pop" /\ abs'[u] = <<>>
  BY Zenon, <1>t, <1>f DEF Doing
<1>4. ASSUME pc[u] = "visit"
      PROVE  /\ loc'[u].op = "pop_all"
             /\ abs'[u] # <<>> /\ loc'[u].node = First(abs'[u])
             /\ Chain(next', abs'[u])
  <2>1. /\ loc[u].op = "pop_all" /\ abs[u] # <<>> /\ loc[u].node = First(abs[u])
        /\ Chain(next, abs[u])
    BY Zenon, <1>t, <1>4 DEF Doing
  <2>2. Chain(next', abs[u])
    BY Zenon, <1>t, <1>n, <2>1, ChainKept
  <2> QED
    BY Zenon, <1>f, <2>1, <2>2
<1>5. Doing(u)'
  BY Zenon, <1>f, <1>1, <1>2, <1>3, <1>4 DEF Doing, First
<1>6. ASSUME pc[u] \in {"pop_next", "pop_cas"}
      PROVE  loc'[u].node \in Nodes /\ Safe(u)'
  <2>1. loc[u].op = "pop" /\ loc[u].node \in Nodes /\ Safe(u)
    BY Zenon, <1>t, <1>6 DEF Doing, PopPc
  <2>2. CASE discipline = "rcu" /\ u \in pre[loc[u].node]
    BY Zenon, <1>f, <2>1, <2>2 DEF Safe, Others
  <2>3. CASE /\ In(abs[loc[u].s], loc[u].node)
             /\ pc[u] = "pop_cas" => loc[u].old = next[loc[u].node]
    <3>1. \/ In(abs'[loc[u].s], loc[u].node) /\ next'[loc[u].node] = next[loc[u].node]
          \/ discipline = "rcu" /\ u \in pre'[loc[u].node]
      BY Zenon, <2>1, <2>3 DEF Others
    <3> QED
      BY Zenon, <1>f, <2>1, <2>3, <3>1 DEF Safe, In
  <2> QED
    BY Zenon, <2>1, <2>2, <2>3 DEF Safe
<1> QED
  BY Zenon, <1>f, <1>5, <1>6

(* A stack none of whose words is stored. *)
LEMMA StackKept ==
  ASSUME IInv, NEW s \in Stacks, head'[s] = head[s], abs'[s] = abs[s],
         \A n \in Nodes : In(abs[s], n) =>
            next'[n] = next[n] /\ (pre[n] = {} => pre'[n] = {})
  PROVE  /\ head'[s] = First(abs'[s])
         /\ Chain(next', abs'[s])
         /\ \A n \in Nodes : In(abs'[s], n) => pre'[n] = {}
<1>1. /\ abs[s] \in Seq(Nodes) /\ head[s] = First(abs[s]) /\ Chain(next, abs[s])
      /\ \A n \in Nodes : In(abs[s], n) => pre[n] = {}
  BY Zenon DEF IInv, TypeOK, StackInv, L!Holders
<1>2. Chain(next', abs[s])
  BY Zenon, <1>1, ChainKept
<1> QED
  BY Zenon, <1>1, <1>2

(* The mutex is not taken. *)
LEMMA MutexKept ==
  ASSUME IInv, discipline' = discipline,
         \A u \in Threads :
            \/ loc'[u].op \in {"none", "push"}
            \/ loc'[u].op = loc[u].op /\ loc'[u].s = loc[u].s
  PROVE  MutexInv'
BY Zenon DEF IInv, MutexInv

(* The parts of the invariant, put together for a step of thread t. *)
LEMMA Together ==
  ASSUME IInv, NEW t \in Threads, Others({t}), TypeOK', PlaceInv', StackInv', MutexInv',
         Doing(t)',
         pc'[t] \in {"pop_next", "pop_cas"} => loc'[t].node \in Nodes /\ Safe(t)'
  PROVE  IInv'
<1>1. \A u \in Threads : Doing(u)'
  BY Zenon, OthersKept
<1>2. \A u \in Threads : pc'[u] \in {"pop_next", "pop_cas"} =>
                           loc'[u].node \in Nodes /\ Safe(u)'
  BY Zenon, OthersKept
<1>3. DoingInv'
  BY Zenon, <1>1 DEF DoingInv
<1>4. PopInv'
  BY Zenon, <1>2 DEF PopInv
<1> QED
  BY Zenon, <1>3, <1>4 DEF IInv

-----------------------------------------------------------------------------
(* Each step keeps the invariant. *)

(* Facts about the state that every step starts from. *)
LEMMA Known ==
  ASSUME IInv, StackAssumption
  PROVE  /\ \A s \in Stacks : s \in L!Holders /\ abs[s] \in Seq(Nodes) /\ Once(abs[s])
         /\ \A t \in Threads : t \in L!Holders /\ abs[t] \in Seq(Nodes) /\ Once(abs[t])
         /\ \A t \in Threads : loc[t] \in Local /\ loc[t].s \in Stacks
         /\ \A t \in Threads, s \in Stacks : t # s
         /\ \A h \in L!Holders : h \in Stacks \/ h \in Threads
         /\ \A s \in Stacks : head[s] \in Nodes \cup {NULL}
<1>1. \A l \in Local : l.s \in Stacks
  BY Zenon DEF Local
<1> QED
  BY Zenon, <1>1 DEF IInv, TypeOK, PlaceInv, StackAssumption, L!Holders

(* Nodes leave their holder, or stay where they are. *)
LEMMA PlaceLeft ==
  ASSUME PlaceInv, \A h \in L!Holders : Once(abs'[h]),
         \A h \in L!Holders, m \in Nodes : In(abs'[h], m) => In(abs[h], m)
  PROVE  PlaceInv'
<1>1. \A g, h \in L!Holders, m \in Nodes : In(abs'[g], m) /\ In(abs'[h], m) => g = h
  BY Zenon DEF PlaceInv
<1> QED
  BY Zenon, <1>1 DEF PlaceInv

(* The nodes of a go to b. *)
LEMMA PlaceMoved ==
  ASSUME PlaceInv, \A h \in L!Holders : Once(abs'[h]),
         NEW a \in L!Holders, NEW b \in L!Holders,
         \A h \in L!Holders, m \in Nodes :
            In(abs'[h], m) => (h # a /\ In(abs[h], m)) \/ (h = b /\ In(abs[a], m))
  PROVE  PlaceInv'
<1>1. ASSUME NEW g \in L!Holders, NEW h \in L!Holders, NEW m \in Nodes,
             In(abs'[g], m), In(abs'[h], m)
      PROVE  g = h
  <2>1. \A x, y \in L!Holders : In(abs[x], m) /\ In(abs[y], m) => x = y
    BY Zenon DEF PlaceInv
  <2>2. (g # a /\ In(abs[g], m)) \/ (g = b /\ In(abs[a], m))
    BY Zenon, <1>1
  <2>3. (h # a /\ In(abs[h], m)) \/ (h = b /\ In(abs[a], m))
    BY Zenon, <1>1
  <2> QED
    BY Zenon, <2>1, <2>2, <2>3
<1> QED
  BY Zenon, <1>1 DEF PlaceInv

(* _cds_lfs_push() is called. *)
LEMMA PushInv ==
  ASSUME IInv, StackAssumption, NEW t \in Threads, Push(t) PROVE IInv'
<1>k. TypeOK /\ PlaceInv /\ StackInv
  BY Zenon DEF IInv
<1>1. PICK s \in Stacks, n \in Nodes \ L!Held :
        /\ pre[n] = {}
        /\ loc' = [loc EXCEPT ![t] = [op |-> "push", s |-> s, node |-> n, old |-> NULL]]
        /\ abs' = [abs EXCEPT ![t] = <<n>>]
        /\ next' = [next EXCEPT ![n] = NULL]
  BY Zenon DEF Push, Begin
<1>2. /\ pc' = [pc EXCEPT ![t] = "push"]
      /\ discipline' = discipline /\ head' = head /\ pre' = pre
  BY Zenon DEF Push, Goto
<1>3. /\ t \in L!Holders /\ <<n>> \in Seq(Nodes)
      /\ [op |-> "push", s |-> s, node |-> n, old |-> NULL] \in Local
  BY Zenon, Known, OneSeq DEF Local
<1>4. /\ loc'[t].op = "push" /\ loc'[t].node = n /\ loc'[t].old = NULL
      /\ abs'[t] = <<n>> /\ next'[n] = NULL /\ pc'[t] = "push"
      /\ \A u \in Threads \ {t} : pc'[u] = pc[u] /\ loc'[u] = loc[u]
      /\ \A h \in L!Holders : h # t => abs'[h] = abs[h]
      /\ \A m \in Nodes : m # n => next'[m] = next[m]
  BY Zenon, <1>k, <1>1, <1>2, <1>3 DEF TypeOK
<1>s. /\ \A x \in Stacks : x \in L!Holders /\ abs'[x] = abs[x]
      /\ \A u \in Threads \ {t} : u \in L!Holders /\ abs'[u] = abs[u]
  BY Zenon, <1>4, Known
<1>5. TypeOK'
  BY Zenon, <1>k, <1>1, <1>2, <1>3 DEF TypeOK, Pcs
<1>6. \A h \in L!Holders : ~ In(abs[h], n)
  BY Zenon DEF L!Held, In
<1>n. \A h \in L!Holders, m \in Nodes : In(abs[h], m) => next'[m] = next[m]
  BY Zenon, <1>4, <1>6
<1>7. \A m : In(abs'[t], m) <=> m = n
  <2>1. \A m : In(<<n>>, m) <=> m = n
    BY Zenon, OneSeq
  <2> QED
    BY Zenon, <1>4, <2>1
<1>8. PlaceInv'
  <2>1. Once(abs'[t])
    <3>1. Once(<<n>>)
      BY Zenon, OneSeq
    <3> QED
      BY Zenon, <1>4, <3>1
  <2>2. \A h \in L!Holders : Once(abs'[h])
    BY Zenon, <1>k, <1>4, <2>1 DEF PlaceInv
  <2>3. ASSUME NEW g \in L!Holders, NEW h \in L!Holders, NEW m \in Nodes,
               In(abs'[g], m), In(abs'[h], m)
        PROVE  g = h
    <3>1. (g = t /\ m = n) \/ (In(abs[g], m) /\ m # n)
      BY Zenon, <1>4, <1>6, <1>7, <2>3
    <3>2. (h = t /\ m = n) \/ (In(abs[h], m) /\ m # n)
      BY Zenon, <1>4, <1>6, <1>7, <2>3
    <3> QED
      BY Zenon, <1>k, <3>1, <3>2 DEF PlaceInv
  <2> QED
    BY Zenon, <2>2, <2>3 DEF PlaceInv
<1>9. StackInv'
  <2>1. ASSUME NEW x \in Stacks
        PROVE  /\ head'[x] = First(abs'[x]) /\ Chain(next', abs'[x])
               /\ \A m \in Nodes : In(abs'[x], m) => pre'[m] = {}
    <3>1. abs'[x] = abs[x] /\ \A m \in Nodes : In(abs[x], m) => next'[m] = next[m]
      BY Zenon, <1>s, <1>n
    <3> QED
      BY Zenon, <1>2, <3>1, StackKept
  <2> QED
    BY Zenon, <2>1 DEF StackInv
<1>10. MutexInv'
  BY Zenon, <1>2, <1>4, MutexKept
<1>11. Others({t})
  <2>1. \A u \in Threads, m \in Nodes :
          In(abs[loc[u].s], m) => In(abs'[loc[u].s], m) /\ next'[m] = next[m]
    <3>1. \A u \in Threads : loc[u].s \in Stacks
      BY Zenon, Known
    <3> QED
      BY Zenon, <1>s, <1>n, <3>1
  <2> QED
    BY Zenon, <1>2, <1>4, <1>s, <1>n, <2>1 DEF Others
<1>12. Doing(t)'
  BY Zenon, <1>1, <1>2, <1>4 DEF Doing, PopPc
<1> QED
  BY Zenon, <1>4, <1>5, <1>8, <1>9, <1>10, <1>11, <1>12, Together

(* The compare-exchange of _cds_lfs_push() succeeds: the node goes from    *)
(* the caller's hand to the stack.                                         *)
LEMMA PushCasInv ==
  ASSUME IInv, StackAssumption, NEW t \in Threads, PushCas(t), head[loc[t].s] = loc[t].old
  PROVE  IInv'
<1> DEFINE s == loc[t].s
           n == loc[t].node
<1>k. TypeOK /\ PlaceInv /\ StackInv /\ Doing(t)
  BY Zenon DEF IInv, DoingInv
<1>1. /\ head' = [head EXCEPT ![s] = n]
      /\ abs' = [abs EXCEPT ![s] = <<n>> \o abs[s], ![t] = <<>>]
      /\ pc' = [pc EXCEPT ![t] = "idle"] /\ loc' = [loc EXCEPT ![t] = Idle]
      /\ next' = next /\ discipline' = discipline /\ pre' = pre /\ pc[t] = "push"
  BY Zenon DEF PushCas, Return, Goto
<1>2. /\ n \in Nodes /\ s \in Stacks /\ abs[t] = <<n>> /\ pre[n] = {}
      /\ next[n] = First(abs[s]) /\ head[s] = First(abs[s]) /\ Chain(next, abs[s])
      /\ t # s /\ t \in L!Holders /\ s \in L!Holders /\ abs[s] \in Seq(Nodes)
      /\ Once(abs[s]) /\ Idle \in Local /\ Idle.op = "none"
  BY Zenon, <1>k, <1>1, Known, IdleType DEF Doing, StackInv
<1> HIDE DEF s, n
<1>3. \A m : In(abs[t], m) <=> m = n
  <2>1. \A m : In(<<n>>, m) <=> m = n
    BY Zenon, <1>2, OneSeq
  <2> QED
    BY Zenon, <1>2, <2>1
<1>4. \A h \in L!Holders : In(abs[h], n) => h = t
  BY Zenon, <1>k, <1>2, <1>3 DEF PlaceInv
<1>5. /\ <<n>> \o abs[s] \in Seq(Nodes) /\ Once(<<n>> \o abs[s])
      /\ First(<<n>> \o abs[s]) = n /\ Chain(next, <<n>> \o abs[s])
      /\ \A m : In(<<n>> \o abs[s], m) <=> In(abs[s], m) \/ m = n
  BY Zenon, <1>2, <1>4, PushSeq, PushChain
<1>6. <<>> \in Seq(Nodes) /\ Once(<<>>) /\ \A m : ~ In(<<>>, m)
  BY Zenon, NoNode
<1>7. /\ abs'[s] = <<n>> \o abs[s] /\ abs'[t] = <<>>
      /\ \A h \in L!Holders : h # s /\ h # t => abs'[h] = abs[h]
      /\ abs' \in [L!Holders -> Seq(Nodes)]
  BY Zenon, <1>k, <1>1, <1>2, <1>5, <1>6 DEF TypeOK
<1>8. /\ loc'[t].op = "none" /\ pc'[t] = "idle" /\ head'[s] = n
      /\ \A u \in Threads \ {t} : pc'[u] = pc[u] /\ loc'[u] = loc[u]
      /\ \A x \in Stacks : x # s => head'[x] = head[x]
  BY Zenon, <1>k, <1>1, <1>2 DEF TypeOK
<1>s. /\ \A x \in Stacks : x # s => abs'[x] = abs[x]
      /\ \A u \in Threads \ {t} : abs'[u] = abs[u]
  BY Zenon, <1>2, <1>7, Known
<1>9. TypeOK'
  BY Zenon, <1>k, <1>1, <1>2, <1>7 DEF TypeOK, Pcs
<1>10. PlaceInv'
  <2>1. \A h \in L!Holders : Once(abs'[h])
    BY Zenon, <1>k, <1>5, <1>6, <1>7 DEF PlaceInv
  <2>2. \A m \in Nodes : In(abs'[s], m) <=> In(abs[s], m) \/ In(abs[t], m)
    BY Zenon, <1>3, <1>5, <1>7
  <2>3. \A m \in Nodes : ~ In(abs'[t], m)
    BY Zenon, <1>6, <1>7
  <2>4. \A h \in L!Holders, m \in Nodes :
          In(abs'[h], m) => (h # t /\ In(abs[h], m)) \/ (h = s /\ In(abs[t], m))
    BY Zenon, <1>2, <1>7, <2>2, <2>3
  <2> QED
    BY Zenon, <1>k, <1>2, <2>1, <2>4, PlaceMoved
<1>11. StackInv'
  <2>1. ASSUME NEW x \in Stacks, x # s
        PROVE  /\ head'[x] = First(abs'[x]) /\ Chain(next', abs'[x])
               /\ \A m \in Nodes : In(abs'[x], m) => pre'[m] = {}
    BY Zenon, <1>1, <1>8, <1>s, <2>1, StackKept
  <2>2. \A m \in Nodes : In(abs'[s], m) => pre'[m] = {}
    BY Zenon, <1>1, <1>k, <1>2, <1>5, <1>7 DEF StackInv
  <2>3. head'[s] = First(abs'[s]) /\ Chain(next', abs'[s])
    BY Zenon, <1>1, <1>5, <1>7, <1>8
  <2> QED
    BY Zenon, <2>1, <2>2, <2>3 DEF StackInv
<1>12. MutexInv'
  BY Zenon, <1>1, <1>8, MutexKept
<1>13. Others({t})
  <2>1. \A x \in Stacks, m \in Nodes : In(abs[x], m) => In(abs'[x], m)
    BY Zenon, <1>5, <1>7, <1>s
  <2> QED
    BY Zenon, <1>1, <1>8, <1>s, <2>1, Known DEF Others
<1>14. Doing(t)'
  BY Zenon, <1>7, <1>8 DEF Doing, PopPc
<1> QED
  BY Zenon, <1>8, <1>9, <1>10, <1>11, <1>12, <1>13, <1>14, Together

(* It fails: the node is linked to the head that it returned. *)
LEMMA PushRetryInv ==
  ASSUME IInv, StackAssumption, NEW t \in Threads, PushCas(t), head[loc[t].s] # loc[t].old
  PROVE  IInv'
<1> DEFINE s == loc[t].s
           n == loc[t].node
<1>k. TypeOK /\ PlaceInv /\ StackInv /\ Doing(t)
  BY Zenon DEF IInv, DoingInv
<1>1. /\ loc' = [loc EXCEPT ![t].old = head[s]] /\ next' = [next EXCEPT ![n] = head[s]]
      /\ head' = head /\ abs' = abs /\ pc' = pc /\ discipline' = discipline /\ pre' = pre
      /\ pc[t] = "push"
  BY Zenon DEF PushCas
<1>2. /\ n \in Nodes /\ s \in Stacks /\ abs[t] = <<n>> /\ pre[n] = {} /\ t \in L!Holders
      /\ loc[t].op = "push" /\ head[s] \in Nodes \cup {NULL} /\ loc[t] \in Local
  BY Zenon, <1>k, <1>1, Known DEF Doing
<1> HIDE DEF s, n
<1>3. \A m : In(abs[t], m) <=> m = n
  <2>1. \A m : In(<<n>>, m) <=> m = n
    BY Zenon, <1>2, OneSeq
  <2> QED
    BY Zenon, <1>2, <2>1
<1>4. \A h \in L!Holders, m \in Nodes : In(abs[h], m) /\ h # t => m # n
  BY Zenon, <1>k, <1>2, <1>3 DEF PlaceInv
<1>5. /\ [loc[t] EXCEPT !.old = head[s]] \in Local
      /\ loc'[t] = [loc[t] EXCEPT !.old = head[s]]
      /\ \A u \in Threads \ {t} : loc'[u] = loc[u]
  BY Zenon, <1>1, <1>2, <1>k DEF Local, TypeOK
<1>6. /\ loc'[t].op = "push" /\ loc'[t].node = n /\ loc'[t].old = head[s]
      /\ loc'[t].s = loc[t].s
  BY Zenon, <1>2, <1>5 DEF Local, n
<1>7. /\ next'[n] = head[s] /\ next' \in [Nodes -> Nodes \cup {NULL}]
      /\ \A h \in L!Holders, m \in Nodes : In(abs[h], m) /\ h # t => next'[m] = next[m]
  BY Zenon, <1>1, <1>2, <1>4, <1>k DEF TypeOK
<1>8. TypeOK'
  <2>1. loc' \in [Threads -> Local]
    BY Zenon, <1>1, <1>5, <1>k DEF TypeOK
  <2> QED
    BY Zenon, <1>1, <1>7, <1>k, <2>1 DEF TypeOK
<1>9. PlaceInv'
  BY Zenon, <1>1, <1>k DEF PlaceInv
<1>10. StackInv'
  <2>1. ASSUME NEW x \in Stacks
        PROVE  /\ head'[x] = First(abs'[x]) /\ Chain(next', abs'[x])
               /\ \A m \in Nodes : In(abs'[x], m) => pre'[m] = {}
    <3>1. \A m \in Nodes : In(abs[x], m) => next'[m] = next[m]
      BY Zenon, <1>7, Known
    <3> QED
      BY Zenon, <1>1, <3>1, StackKept
  <2> QED
    BY Zenon, <2>1 DEF StackInv
<1>11. MutexInv'
  BY Zenon, <1>1, <1>5, <1>6, MutexKept
<1>12. Others({t})
  <2>1. /\ \A u \in Threads \ {t}, m \in Nodes : In(abs[u], m) => next'[m] = next[m]
        /\ \A x \in Stacks, m \in Nodes : In(abs[x], m) => next'[m] = next[m]
    BY Zenon, <1>7, Known
  <2> QED
    <3>1. \A u \in Threads : loc[u].s \in Stacks
      BY Zenon, Known
    <3>2. \A u \in Threads, m \in Nodes :
            In(abs[loc[u].s], m) => In(abs'[loc[u].s], m) /\ next'[m] = next[m]
      BY Zenon, <1>1, <2>1, <3>1
    <3> QED
      BY Zenon, <1>1, <1>5, <2>1, <3>2 DEF Others
<1>13. Doing(t)'
  BY Zenon, <1>1, <1>2, <1>6, <1>7 DEF Doing, PopPc
<1>14. pc'[t] = "push"
  BY Zenon, <1>1
<1> QED
  BY Zenon, <1>8, <1>9, <1>10, <1>11, <1>12, <1>13, <1>14, Together

(* A step that only moves its own thread: no word of a stack is stored.    *)
(* Its read-side section may end.                                          *)
LEMMA QuietStep ==
  ASSUME IInv, StackAssumption, NEW t \in Threads,
         discipline' = discipline /\ head' = head /\ next' = next /\ abs' = abs,
         NEW p \in Pcs, pc' = [pc EXCEPT ![t] = p],
         NEW l \in Local, loc' = [loc EXCEPT ![t] = l],
         pre' = pre \/ Retire(t, {})
  PROVE  /\ TypeOK' /\ PlaceInv' /\ StackInv' /\ Others({t})
         /\ pc'[t] = p /\ loc'[t] = l
         /\ \A u \in Threads \ {t} : loc'[u] = loc[u]
<1>k. TypeOK /\ PlaceInv /\ StackInv
  BY Zenon DEF IInv
<1>1. /\ pre' \in [Nodes -> SUBSET Threads]
      /\ \A n \in Nodes : pre'[n] = pre[n] \/ pre'[n] = pre[n] \ {t}
  <2>1. CASE pre' = pre
    BY Zenon, <1>k, <2>1 DEF TypeOK
  <2>2. CASE Retire(t, {})
    <3>1. pre' = [n \in Nodes |-> pre[n] \ {t}]
      BY Zenon, <2>2 DEF Retire
    <3> QED
      BY Zenon, <1>k, <3>1 DEF TypeOK
  <2> QED
    BY Zenon, <2>1, <2>2
<1>2. /\ \A n \in Nodes : pre[n] = {} => pre'[n] = {}
      /\ \A u \in Threads \ {t}, n \in Nodes : u \in pre[n] => u \in pre'[n]
  BY Zenon, <1>1
<1>3. /\ pc'[t] = p /\ loc'[t] = l
      /\ \A u \in Threads \ {t} : pc'[u] = pc[u] /\ loc'[u] = loc[u]
  BY Zenon, <1>k DEF TypeOK
<1>4. TypeOK'
  BY Zenon, <1>k, <1>1 DEF TypeOK
<1>5. PlaceInv'
  BY Zenon, <1>k DEF PlaceInv
<1>6. StackInv'
  BY Zenon, <1>k, <1>2 DEF StackInv
<1>7. Others({t})
  BY Zenon, <1>2, <1>3 DEF Others
<1> QED
  BY Zenon, <1>3, <1>4, <1>5, <1>6, <1>7

(* A pop starts: in a read-side section, or with the mutex. *)
LEMMA PopCallInv ==
  ASSUME IInv, StackAssumption, NEW t \in Threads, Pop(t) PROVE IInv'
<1>1. PICK s \in Stacks :
        /\ Exclusive("pop", s)
        /\ loc' = [loc EXCEPT ![t] = [op |-> "pop", s |-> s, node |-> NULL, old |-> NULL]]
  BY Zenon DEF Pop, Begin
<1> DEFINE l == [op |-> "pop", s |-> s, node |-> NULL, old |-> NULL]
<1>2. l \in Local /\ l.op = "pop" /\ l.s = s
  BY Zenon DEF Local
<1> HIDE DEF l
<1>3. /\ discipline' = discipline /\ head' = head /\ next' = next /\ abs' = abs
      /\ pc' = [pc EXCEPT ![t] = "pop"] /\ pre' = pre /\ pc[t] = "idle" /\ "pop" \in Pcs
      /\ loc' = [loc EXCEPT ![t] = l]
  BY Zenon, <1>1 DEF Pop, Goto, Pcs, PopPc, l
<1>4. /\ TypeOK' /\ PlaceInv' /\ StackInv' /\ Others({t})
      /\ pc'[t] = "pop" /\ loc'[t] = l
      /\ \A u \in Threads \ {t} : loc'[u] = loc[u]
  BY Zenon, <1>2, <1>3, QuietStep
<1>5. MutexInv'
  <2>1. ASSUME discipline = "mutex", NEW u \in Threads \ {t},
               loc[u].op \in {"pop", "pop_all"}
        PROVE  loc[u].s # s
    BY Zenon, <1>1, <2>1 DEF Exclusive
  <2>2. ASSUME discipline = "mutex", NEW u \in Threads, NEW v \in Threads,
               loc'[u].op = "pop", loc'[v].op \in {"pop", "pop_all"},
               loc'[u].s = loc'[v].s
        PROVE  u = v
    <3>1. u = t /\ v # t => FALSE
      BY Zenon, <1>2, <1>4, <2>1, <2>2
    <3>2. v = t /\ u # t => FALSE
      BY Zenon, <1>2, <1>4, <2>1, <2>2
    <3>3. u # t /\ v # t => u = v
      BY Zenon, <1>4, <2>2 DEF IInv, MutexInv
    <3> QED
      BY Zenon, <3>1, <3>2, <3>3
  <2> QED
    BY Zenon, <1>3, <2>2 DEF MutexInv
<1>6. Doing(t)'
  <2>1. abs'[t] = <<>>
    BY Zenon, <1>3 DEF IInv, DoingInv, Doing
  <2> QED
    BY Zenon, <1>2, <1>4, <2>1 DEF Doing, PopPc
<1> QED
  BY Zenon, <1>4, <1>5, <1>6, Together

(* The pop reads the head. *)
LEMMA PopHeadInv ==
  ASSUME IInv, StackAssumption, NEW t \in Threads, PopHead(t) PROVE IInv'
<1> DEFINE s == loc[t].s
           h == head[s]
<1>k. TypeOK /\ PlaceInv /\ StackInv /\ Doing(t)
  BY Zenon DEF IInv, DoingInv
<1>0. /\ discipline' = discipline /\ head' = head /\ next' = next /\ abs' = abs
      /\ pc[t] = "pop" /\ {"idle", "pop_next"} \subseteq Pcs
  BY Zenon DEF PopHead, Pcs, PopPc
<1>1. /\ s \in Stacks /\ loc[t] \in Local /\ loc[t].op = "pop" /\ abs[t] = <<>>
      /\ h \in Nodes \cup {NULL} /\ h = First(abs[s]) /\ abs[s] \in Seq(Nodes)
      /\ s \in L!Holders
  BY Zenon, <1>k, <1>0, Known DEF Doing, PopPc, StackInv
<1>2. CASE h = NULL
  <2>1. pc' = [pc EXCEPT ![t] = "idle"] /\ loc' = [loc EXCEPT ![t] = Idle] /\ Retire(t, {})
    BY Zenon, <1>2 DEF PopHead, Return, Goto
  <2>2. Idle \in Local /\ Idle.op = "none"
    BY Zenon, IdleType
  <2>3. /\ TypeOK' /\ PlaceInv' /\ StackInv' /\ Others({t})
        /\ pc'[t] = "idle" /\ loc'[t] = Idle
        /\ \A u \in Threads \ {t} : loc'[u] = loc[u]
    BY Zenon, <1>0, <2>1, <2>2, QuietStep
  <2>4. MutexInv'
    BY Zenon, <1>0, <2>2, <2>3, MutexKept
  <2>5. Doing(t)'
    BY Zenon, <1>0, <1>1, <2>2, <2>3 DEF Doing, PopPc
  <2> QED
    BY Zenon, <2>3, <2>4, <2>5, Together
<1>3. CASE h # NULL
  <2>1. /\ pc' = [pc EXCEPT ![t] = "pop_next"] /\ pre' = pre
        /\ loc' = [loc EXCEPT ![t].node = h]
    BY Zenon, <1>3 DEF PopHead, Goto
  <2>2. h \in Nodes /\ In(abs[s], h)
    BY Zenon, <1>1, <1>3, FirstOf DEF StackAssumption
  <2> HIDE DEF h, s
  <2> DEFINE l == [loc[t] EXCEPT !.node = h]
  <2>3. l \in Local /\ l.op = "pop" /\ l.s = loc[t].s /\ l.node = h
    BY Zenon, <1>1, <2>2 DEF Local
  <2>4. loc' = [loc EXCEPT ![t] = l]
    BY Zenon, <2>1
  <2> HIDE DEF l
  <2>5. /\ TypeOK' /\ PlaceInv' /\ StackInv' /\ Others({t})
        /\ pc'[t] = "pop_next" /\ loc'[t] = l
        /\ \A u \in Threads \ {t} : loc'[u] = loc[u]
    BY Zenon, <1>0, <2>1, <2>3, <2>4, QuietStep
  <2>6. MutexInv'
    BY Zenon, <1>0, <1>1, <2>3, <2>5, MutexKept
  <2>7. Doing(t)'
    BY Zenon, <1>0, <1>1, <2>3, <2>5 DEF Doing, PopPc
  <2>8. loc'[t].node \in Nodes /\ Safe(t)'
    BY Zenon, <1>0, <2>2, <2>3, <2>5 DEF Safe, s
  <2> QED
    BY Zenon, <2>5, <2>6, <2>7, <2>8, Together
<1> QED
  BY Zenon, <1>2, <1>3

(* The pop reads the successor of the head it has read. *)
LEMMA PopNextInv ==
  ASSUME IInv, StackAssumption, NEW t \in Threads, PopNext(t) PROVE IInv'
<1>k. TypeOK /\ Doing(t) /\ PopInv
  BY Zenon DEF IInv, DoingInv
<1>0. /\ discipline' = discipline /\ head' = head /\ next' = next /\ abs' = abs
      /\ pc[t] = "pop_next" /\ "pop_cas" \in Pcs
      /\ pc' = [pc EXCEPT ![t] = "pop_cas"] /\ pre' = pre
      /\ loc' = [loc EXCEPT ![t].old = next[loc[t].node]]
  BY Zenon DEF PopNext, Goto, Pcs, PopPc
<1>1. /\ loc[t] \in Local /\ loc[t].op = "pop" /\ abs[t] = <<>>
      /\ loc[t].node \in Nodes /\ Safe(t)
  BY Zenon, <1>k, <1>0, Known DEF Doing, PopPc, PopInv
<1> DEFINE a == next[loc[t].node]
           l == [loc[t] EXCEPT !.old = a]
<1>2. a \in Nodes \cup {NULL} /\ loc' = [loc EXCEPT ![t] = l]
  BY Zenon, <1>k, <1>0, <1>1 DEF TypeOK
<1> HIDE DEF a
<1>3. /\ l \in Local /\ l.op = "pop" /\ l.s = loc[t].s /\ l.node = loc[t].node
      /\ l.old = a
  BY Zenon, <1>1, <1>2 DEF Local
<1> HIDE DEF l
<1>4. /\ TypeOK' /\ PlaceInv' /\ StackInv' /\ Others({t})
      /\ pc'[t] = "pop_cas" /\ loc'[t] = l
      /\ \A u \in Threads \ {t} : loc'[u] = loc[u]
  BY Zenon, <1>0, <1>2, <1>3, QuietStep
<1>5. MutexInv'
  BY Zenon, <1>0, <1>1, <1>3, <1>4, MutexKept
<1>6. Doing(t)'
  BY Zenon, <1>0, <1>1, <1>3, <1>4 DEF Doing, PopPc
<1>7. loc'[t].node \in Nodes /\ Safe(t)'
  BY Zenon, <1>0, <1>1, <1>3, <1>4 DEF Safe, a
<1> QED
  BY Zenon, <1>4, <1>5, <1>6, <1>7, Together

(* The head has changed: the pop starts again. *)
LEMMA PopRetryInv ==
  ASSUME IInv, StackAssumption, NEW t \in Threads, PopCas(t), head[loc[t].s] # loc[t].node
  PROVE  IInv'
<1>k. TypeOK /\ Doing(t)
  BY Zenon DEF IInv, DoingInv
<1>0. /\ discipline' = discipline /\ head' = head /\ next' = next /\ abs' = abs
      /\ pc[t] = "pop_cas" /\ "pop" \in Pcs
      /\ pc' = [pc EXCEPT ![t] = "pop"] /\ pre' = pre
  BY Zenon DEF PopCas, Goto, Pcs, PopPc
<1>c. loc' = loc
  BY Zenon DEF PopCas
<1>1. /\ loc[t] \in Local /\ loc[t].op = "pop" /\ abs[t] = <<>>
      /\ loc' = [loc EXCEPT ![t] = loc[t]]
  BY Zenon, <1>k, <1>0, <1>c DEF Doing, PopPc, TypeOK
<1>2. /\ TypeOK' /\ PlaceInv' /\ StackInv' /\ Others({t})
      /\ pc'[t] = "pop" /\ loc'[t] = loc[t]
  BY Zenon, <1>0, <1>1, QuietStep
<1>3. MutexInv'
  BY Zenon, <1>0, <1>c, MutexKept
<1>4. Doing(t)'
  BY Zenon, <1>0, <1>1, <1>2 DEF Doing, PopPc
<1> QED
  BY Zenon, <1>2, <1>3, <1>4, Together

(* The compare-exchange of the pop succeeds.  The head it compared with is *)
(* on the stack, so no grace period is running for it, so the successor    *)
(* that was read is still its successor.                                   *)
LEMMA PopTakes ==
  ASSUME IInv, StackAssumption, NEW t \in Threads, PopCas(t), head[loc[t].s] = loc[t].node
  PROVE  /\ loc[t].s \in Stacks /\ loc[t].node \in Nodes /\ loc[t].op = "pop"
         /\ abs[loc[t].s] # <<>> /\ loc[t].node = First(abs[loc[t].s])
         /\ loc[t].old = next[loc[t].node]
         /\ abs' = [abs EXCEPT ![loc[t].s] = Tail(abs[loc[t].s])]
<1> DEFINE s == loc[t].s
           n == loc[t].node
<1>k. TypeOK /\ PlaceInv /\ StackInv /\ Doing(t) /\ PopInv
  BY Zenon DEF IInv, DoingInv
<1>0. pc[t] = "pop_cas" /\ abs' = [abs EXCEPT ![s] = L!Take(abs[s], n)]
  BY Zenon DEF PopCas
<1>1. /\ s \in Stacks /\ loc[t].op = "pop" /\ n \in Nodes /\ Safe(t)
      /\ n = First(abs[s]) /\ abs[s] \in Seq(Nodes) /\ Once(abs[s])
  BY Zenon, <1>k, <1>0, Known DEF Doing, PopPc, PopInv, StackInv
<1>2. abs[s] # <<>> /\ In(abs[s], n)
  BY Zenon, <1>1, FirstOf DEF StackAssumption
<1>3. pre[n] = {}
  BY Zenon, <1>k, <1>1, <1>2 DEF StackInv
<1>4. loc[t].old = next[n]
  BY Zenon, <1>0, <1>1, <1>3 DEF Safe
<1>5. L!Take(abs[s], n) = Tail(abs[s])
  BY Zenon, <1>1, <1>2, TailSeq
<1> QED
  BY Zenon, <1>0, <1>1, <1>2, <1>4, <1>5

(* Thread t gets the nodes ns: grace periods that wait for the other pops  *)
(* start for them.                                                         *)
Retired(t, ns) ==
  /\ pre' \in [Nodes -> SUBSET Threads]
  /\ \A n \in Nodes : n \notin ns /\ pre[n] = {} => pre'[n] = {}
  /\ \A u \in Threads \ {t}, n \in Nodes : u \in pre[n] => u \in pre'[n]
  /\ \A u \in Threads \ {t}, n \in Nodes :
       discipline = "rcu" /\ loc[u].op = "pop" /\ n \in ns => u \in pre'[n]

(* That is what Retire does with nodes of a stack. *)
LEMMA RetireStep ==
  ASSUME IInv, StackAssumption, NEW t \in Threads, NEW s \in Stacks, NEW ns,
         Retire(t, ns), \A n \in ns : n \in Nodes /\ In(abs[s], n)
  PROVE  Retired(t, ns)
<1>k. TypeOK /\ StackInv
  BY Zenon DEF IInv
<1>1. pre' = [n \in Nodes |-> IF n \in ns THEN Sections \ {t} ELSE pre[n] \ {t}]
  BY Zenon DEF Retire
<1>2. Sections \subseteq Threads /\ \A n \in Nodes : pre[n] \subseteq Threads
  BY Zenon, <1>k DEF Sections, TypeOK
<1>3. /\ \A n \in Nodes : n \in ns => pre'[n] = Sections \ {t}
      /\ \A n \in Nodes : n \notin ns => pre'[n] = pre[n] \ {t}
  BY Zenon, <1>1
<1>4. \A n \in Nodes : (IF n \in ns THEN Sections \ {t} ELSE pre[n] \ {t}) \in SUBSET Threads
  BY Zenon, <1>2
<1>5. pre' \in [Nodes -> SUBSET Threads]
  BY Zenon, <1>1, <1>4
<1>6. \A n \in Nodes : n \in ns => pre[n] = {}
  BY Zenon, <1>k DEF StackInv
<1> QED
  BY Zenon, <1>3, <1>5, <1>6 DEF Sections, Retired

(* The pop takes the head off. *)
LEMMA PopCasInv ==
  ASSUME IInv, StackAssumption, NEW t \in Threads, PopCas(t), head[loc[t].s] = loc[t].node
  PROVE  IInv'
<1> DEFINE s == loc[t].s
           n == loc[t].node
<1>k. TypeOK /\ PlaceInv /\ StackInv /\ Doing(t) /\ MutexInv
  BY Zenon DEF IInv, DoingInv
<1>0. /\ head' = [head EXCEPT ![s] = loc[t].old]
      /\ pc' = [pc EXCEPT ![t] = "idle"] /\ loc' = [loc EXCEPT ![t] = Idle]
      /\ Retire(t, {n}) /\ discipline' = discipline /\ next' = next /\ pc[t] = "pop_cas"
  BY Zenon DEF PopCas, Return, Goto
<1>1. /\ s \in Stacks /\ n \in Nodes /\ loc[t].op = "pop" /\ abs[s] # <<>>
      /\ n = First(abs[s]) /\ loc[t].old = next[n]
      /\ abs' = [abs EXCEPT ![s] = Tail(abs[s])]
  BY Zenon, PopTakes
<1>2. /\ t # s /\ s \in L!Holders /\ t \in L!Holders /\ abs[s] \in Seq(Nodes)
      /\ Once(abs[s]) /\ Chain(next, abs[s]) /\ abs[t] = <<>>
      /\ Idle \in Local /\ Idle.op = "none"
  BY Zenon, <1>k, <1>0, <1>1, Known, IdleType DEF StackInv, Doing, PopPc
<1> HIDE DEF s, n
<1>3. /\ Tail(abs[s]) \in Seq(Nodes) /\ Once(Tail(abs[s])) /\ Chain(next, Tail(abs[s]))
      /\ First(Tail(abs[s])) = next[n]
      /\ \A m : In(Tail(abs[s]), m) <=> In(abs[s], m) /\ m # n
  BY Zenon, <1>1, <1>2, TailSeq, TailChain
<1>4. In(abs[s], n)
  BY Zenon, <1>1, <1>2, FirstOf DEF StackAssumption
<1>5. /\ abs'[s] = Tail(abs[s]) /\ abs' \in [L!Holders -> Seq(Nodes)]
      /\ \A h \in L!Holders : h # s => abs'[h] = abs[h]
  BY Zenon, <1>k, <1>1, <1>2, <1>3 DEF TypeOK
<1>6. /\ loc'[t].op = "none" /\ pc'[t] = "idle" /\ head'[s] = next[n]
      /\ \A u \in Threads \ {t} : pc'[u] = pc[u] /\ loc'[u] = loc[u]
      /\ \A x \in Stacks : x # s => head'[x] = head[x]
      /\ next[n] \in Nodes \cup {NULL}
  BY Zenon, <1>k, <1>0, <1>1, <1>2 DEF TypeOK
<1>s. /\ \A x \in Stacks : x \in L!Holders /\ (x # s => abs'[x] = abs[x])
      /\ \A u \in Threads : u \in L!Holders /\ u # s /\ abs'[u] = abs[u]
  BY Zenon, <1>1, <1>5, Known
<1>7. /\ pre' \in [Nodes -> SUBSET Threads]
      /\ \A m \in Nodes : m # n /\ pre[m] = {} => pre'[m] = {}
      /\ \A u \in Threads \ {t}, m \in Nodes : u \in pre[m] => u \in pre'[m]
      /\ \A u \in Threads \ {t} : discipline = "rcu" /\ loc[u].op = "pop" => u \in pre'[n]
  <2>1. \A m \in {n} : m \in Nodes /\ In(abs[s], m)
    BY Zenon, <1>1, <1>4
  <2>2. \A m : m \in {n} <=> m = n
    BY Zenon
  <2>3. Retired(t, {n})
    BY Zenon, <1>0, <1>1, <2>1, RetireStep
  <2> QED
    BY Zenon, <1>1, <2>2, <2>3 DEF Retired
<1>8. TypeOK'
  BY Zenon, <1>k, <1>0, <1>1, <1>2, <1>5, <1>6, <1>7 DEF TypeOK, Pcs
<1>9. PlaceInv'
  <2>1. \A h \in L!Holders : Once(abs'[h])
    BY Zenon, <1>k, <1>3, <1>5 DEF PlaceInv
  <2>2. \A h \in L!Holders, m \in Nodes : In(abs'[h], m) => In(abs[h], m)
    BY Zenon, <1>3, <1>5
  <2> QED
    BY Zenon, <1>k, <2>1, <2>2, PlaceLeft
<1>10. \A h \in L!Holders, m \in Nodes : In(abs[h], m) /\ h # s => m # n
  BY Zenon, <1>k, <1>1, <1>2, <1>4 DEF PlaceInv
<1>11. StackInv'
  <2>1. ASSUME NEW x \in Stacks, x # s
        PROVE  /\ head'[x] = First(abs'[x]) /\ Chain(next', abs'[x])
               /\ \A m \in Nodes : In(abs'[x], m) => pre'[m] = {}
    <3>1. \A m \in Nodes : In(abs[x], m) => (pre[m] = {} => pre'[m] = {})
      BY Zenon, <1>s, <1>7, <1>10, <2>1
    <3>2. head'[x] = head[x] /\ abs'[x] = abs[x] /\ next' = next
      BY Zenon, <1>0, <1>6, <1>s, <2>1
    <3> QED
      BY Zenon, <3>1, <3>2, StackKept
  <2>2. \A m \in Nodes : In(abs'[s], m) => pre'[m] = {}
    <3>1. \A m \in Nodes : In(abs'[s], m) => In(abs[s], m) /\ m # n
      BY Zenon, <1>3, <1>5
    <3>2. \A m \in Nodes : In(abs[s], m) => pre[m] = {}
      BY Zenon, <1>k, <1>1 DEF StackInv
    <3> QED
      BY Zenon, <1>7, <3>1, <3>2
  <2>3. head'[s] = First(abs'[s]) /\ Chain(next', abs'[s])
    BY Zenon, <1>0, <1>3, <1>5, <1>6
  <2> QED
    BY Zenon, <2>1, <2>2, <2>3 DEF StackInv
<1>12. MutexInv'
  BY Zenon, <1>0, <1>6, MutexKept
<1>13. Others({t})
  <2>1. \A u \in Threads \ {t}, m \in Nodes : In(abs[u], m) => (pre[m] = {} => pre'[m] = {})
    BY Zenon, <1>s, <1>7, <1>10
  <2>2. ASSUME NEW u \in Threads \ {t}, NEW m \in Nodes, loc[u].op = "pop",
               In(abs[loc[u].s], m)
        PROVE  \/ In(abs'[loc[u].s], m)
               \/ discipline = "rcu" /\ u \in pre'[m]
    <3>1. loc[u].s \in Stacks
      BY Zenon, Known
    <3>2. CASE loc[u].s = s /\ m = n
      <4>1. discipline # "mutex"
        BY Zenon, <1>k, <1>1, <2>2, <3>2 DEF MutexInv, s
      <4>2. discipline = "rcu"
        BY Zenon, <1>k, <4>1 DEF TypeOK
      <4> QED
        BY Zenon, <1>7, <2>2, <3>2, <4>2
    <3>3. CASE loc[u].s = s /\ m # n
      BY Zenon, <1>3, <1>5, <2>2, <3>3
    <3>4. CASE loc[u].s # s
      BY Zenon, <1>s, <2>2, <3>1, <3>4
    <3> QED
      BY Zenon, <3>2, <3>3, <3>4
  <2> QED
    BY Zenon, <1>0, <1>6, <1>7, <1>s, <2>1, <2>2 DEF Others
<1>14. Doing(t)'
  BY Zenon, <1>2, <1>6, <1>s DEF Doing, PopPc
<1> QED
  BY Zenon, <1>6, <1>8, <1>9, <1>11, <1>12, <1>13, <1>14, Together

(* ___cds_lfs_pop_all() takes the whole stack. *)
LEMMA PopAllInv ==
  ASSUME IInv, StackAssumption, NEW t \in Threads, PopAll(t) PROVE IInv'
<1>k. TypeOK /\ PlaceInv /\ StackInv /\ Doing(t) /\ MutexInv
  BY Zenon DEF IInv, DoingInv
<1>0. PICK s \in Stacks :
        /\ Exclusive("pop_all", s) /\ head[s] # NULL
        /\ loc' = [loc EXCEPT ![t] = [op |-> "pop_all", s |-> s,
                                      node |-> head[s], old |-> NULL]]
        /\ head' = [head EXCEPT ![s] = NULL]
        /\ abs' = [abs EXCEPT ![s] = <<>>, ![t] = abs[s]]
        /\ Retire(t, Range(abs[s]))
  BY Zenon DEF PopAll, Begin
<1>1. /\ pc' = [pc EXCEPT ![t] = "visit"] /\ discipline' = discipline /\ next' = next
      /\ pc[t] = "idle"
  BY Zenon DEF PopAll, Goto
<1>2. /\ t # s /\ s \in L!Holders /\ t \in L!Holders /\ abs[s] \in Seq(Nodes)
      /\ Once(abs[s]) /\ Chain(next, abs[s]) /\ abs[t] = <<>>
      /\ head[s] = First(abs[s]) /\ head[s] \in Nodes \cup {NULL}
      /\ \A m \in Nodes : In(abs[s], m) => pre[m] = {}
  BY Zenon, <1>k, <1>1, Known DEF StackInv, Doing
<1>3. abs[s] # <<>>
  BY Zenon, <1>0, <1>2, FirstOf DEF StackAssumption
<1> DEFINE l == [op |-> "pop_all", s |-> s, node |-> head[s], old |-> NULL]
<1>4. l \in Local /\ l.op = "pop_all" /\ l.s = s /\ l.node = head[s]
  BY Zenon, <1>2 DEF Local
<1>5. loc' = [loc EXCEPT ![t] = l]
  BY Zenon, <1>0
<1> HIDE DEF l
<1>6. <<>> \in Seq(Nodes) /\ Once(<<>>) /\ First(<<>>) = NULL /\ (\A m : ~ In(<<>>, m))
      /\ \A f : Chain(f, <<>>)
  BY Zenon, NoNode
<1>7. /\ abs'[s] = <<>> /\ abs'[t] = abs[s] /\ abs' \in [L!Holders -> Seq(Nodes)]
      /\ \A h \in L!Holders : h # s /\ h # t => abs'[h] = abs[h]
  BY Zenon, <1>k, <1>0, <1>2, <1>6 DEF TypeOK
<1>8. /\ loc'[t] = l /\ pc'[t] = "visit" /\ head'[s] = NULL
      /\ \A u \in Threads \ {t} : pc'[u] = pc[u] /\ loc'[u] = loc[u]
      /\ \A x \in Stacks : x # s => head'[x] = head[x]
  BY Zenon, <1>k, <1>0, <1>1, <1>5 DEF TypeOK
<1>s. /\ \A x \in Stacks : x \in L!Holders /\ (x # s => abs'[x] = abs[x])
      /\ \A u \in Threads : u \in L!Holders /\ u # s
      /\ \A u \in Threads \ {t} : abs'[u] = abs[u]
  BY Zenon, <1>7, Known
<1>9. /\ pre' \in [Nodes -> SUBSET Threads]
      /\ \A m \in Nodes : ~ In(abs[s], m) /\ pre[m] = {} => pre'[m] = {}
      /\ \A u \in Threads \ {t}, m \in Nodes : u \in pre[m] => u \in pre'[m]
      /\ \A u \in Threads \ {t}, m \in Nodes :
           discipline = "rcu" /\ loc[u].op = "pop" /\ In(abs[s], m) => u \in pre'[m]
  <2>1. \A m : m \in Range(abs[s]) <=> In(abs[s], m)
    BY Zenon, <1>2, RangeIn
  <2>2. \A m \in Range(abs[s]) : m \in Nodes /\ In(abs[s], m)
    BY Zenon, <1>2, <2>1, NodeIn
  <2>3. Retired(t, Range(abs[s]))
    BY Zenon, <1>0, <2>2, RetireStep
  <2> QED
    BY Zenon, <2>1, <2>3 DEF Retired
<1>10. TypeOK'
  <2>1. head' \in [Stacks -> Nodes \cup {NULL}]
    BY Zenon, <1>k, <1>0 DEF TypeOK
  <2>3. loc' \in [Threads -> Local]
    BY Zenon, <1>k, <1>4, <1>5 DEF TypeOK
  <2>2. pc' \in [Threads -> Pcs]
    BY Zenon, <1>k, <1>1 DEF TypeOK, Pcs
  <2> QED
    BY Zenon, <1>k, <1>1, <1>7, <1>9, <2>1, <2>2, <2>3 DEF TypeOK
<1>11. PlaceInv'
  <2>1. \A h \in L!Holders : Once(abs'[h])
    BY Zenon, <1>k, <1>2, <1>6, <1>7 DEF PlaceInv
  <2>2. /\ \A m \in Nodes : ~ In(abs'[s], m)
        /\ \A m \in Nodes : In(abs'[t], m) => In(abs[s], m)
    BY Zenon, <1>6, <1>7
  <2>3. \A h \in L!Holders, m \in Nodes :
          In(abs'[h], m) => (h # s /\ In(abs[h], m)) \/ (h = t /\ In(abs[s], m))
    BY Zenon, <1>7, <2>2
  <2> QED
    BY Zenon, <1>k, <1>2, <2>1, <2>3, PlaceMoved
<1>12. \A h \in L!Holders, m \in Nodes : In(abs[h], m) /\ h # s => ~ In(abs[s], m)
  BY Zenon, <1>k, <1>2 DEF PlaceInv
<1>13. StackInv'
  <2>1. ASSUME NEW x \in Stacks, x # s
        PROVE  /\ head'[x] = First(abs'[x]) /\ Chain(next', abs'[x])
               /\ \A m \in Nodes : In(abs'[x], m) => pre'[m] = {}
    <3>1. \A m \in Nodes : In(abs[x], m) => (pre[m] = {} => pre'[m] = {})
      BY Zenon, <1>s, <1>9, <1>12, <2>1
    <3>2. head'[x] = head[x] /\ abs'[x] = abs[x] /\ next' = next
      BY Zenon, <1>1, <1>8, <1>s, <2>1
    <3> QED
      BY Zenon, <3>1, <3>2, StackKept
  <2>2. /\ head'[s] = First(abs'[s]) /\ Chain(next', abs'[s])
        /\ \A m \in Nodes : In(abs'[s], m) => pre'[m] = {}
    BY Zenon, <1>6, <1>7, <1>8
  <2> QED
    BY Zenon, <2>1, <2>2 DEF StackInv
<1>14. ASSUME discipline = "mutex", NEW u \in Threads, loc[u].op = "pop" PROVE loc[u].s # s
  BY Zenon, <1>0, <1>14 DEF Exclusive
<1>15. MutexInv'
  <2>1. ASSUME discipline = "mutex", NEW u \in Threads, NEW v \in Threads,
               loc'[u].op = "pop", loc'[v].op \in {"pop", "pop_all"},
               loc'[u].s = loc'[v].s
        PROVE  u = v
    <3>1. u # t
      BY Zenon, <1>4, <1>8, <2>1
    <3>2. loc[u].s # s /\ loc'[u] = loc[u]
      BY Zenon, <1>8, <1>14, <2>1, <3>1
    <3>3. v # t
      BY Zenon, <1>4, <1>8, <2>1, <3>2
    <3> QED
      BY Zenon, <1>k, <1>8, <2>1, <3>1, <3>3 DEF MutexInv
  <2> QED
    BY Zenon, <1>1, <2>1 DEF MutexInv
<1>16. Others({t})
  <2>1. \A u \in Threads \ {t}, m \in Nodes : In(abs[u], m) => (pre[m] = {} => pre'[m] = {})
    BY Zenon, <1>s, <1>9, <1>12
  <2>2. ASSUME NEW u \in Threads \ {t}, NEW m \in Nodes, loc[u].op = "pop",
               In(abs[loc[u].s], m)
        PROVE  \/ In(abs'[loc[u].s], m)
               \/ discipline = "rcu" /\ u \in pre'[m]
    <3>1. loc[u].s \in Stacks
      BY Zenon, Known
    <3>2. CASE loc[u].s = s
      <4>1. discipline = "rcu"
        BY Zenon, <1>k, <1>14, <2>2, <3>2 DEF TypeOK
      <4> QED
        BY Zenon, <1>9, <2>2, <3>2, <4>1
    <3>3. CASE loc[u].s # s
      BY Zenon, <1>s, <2>2, <3>1, <3>3
    <3> QED
      BY Zenon, <3>2, <3>3
  <2> QED
    BY Zenon, <1>1, <1>8, <1>9, <1>s, <2>1, <2>2 DEF Others
<1>17. Doing(t)'
  BY Zenon, <1>1, <1>2, <1>3, <1>4, <1>7, <1>8 DEF Doing, PopPc
<1> QED
  BY Zenon, <1>8, <1>10, <1>11, <1>13, <1>15, <1>16, <1>17, Together

(* The caller visits the newest of the nodes pop_all returned. *)
LEMMA VisitTakes ==
  ASSUME IInv, StackAssumption, NEW t \in Threads, Visit(t)
  PROVE  /\ abs[t] \in Seq(Nodes) /\ Once(abs[t]) /\ abs[t] # <<>> /\ pc[t] = "visit"
         /\ loc[t].op = "pop_all" /\ loc[t].node = First(abs[t]) /\ Chain(next, abs[t])
         /\ loc[t].node \in Nodes
         /\ abs' = [abs EXCEPT ![t] = Tail(abs[t])]
<1>1. pc[t] = "visit" /\ abs' = [abs EXCEPT ![t] = L!Take(abs[t], loc[t].node)]
  BY Zenon DEF Visit
<1>2. /\ abs[t] \in Seq(Nodes) /\ Once(abs[t]) /\ abs[t] # <<>>
      /\ loc[t].op = "pop_all" /\ loc[t].node = First(abs[t]) /\ Chain(next, abs[t])
  BY Zenon, <1>1, Known DEF IInv, DoingInv, Doing
<1>3. L!Take(abs[t], First(abs[t])) = Tail(abs[t])
  BY Zenon, <1>2, TailSeq
<1>4. First(abs[t]) \in Nodes
  BY Zenon, <1>2, FirstOf DEF StackAssumption
<1> QED
  BY Zenon, <1>1, <1>2, <1>3, <1>4

(* The visit goes on with its successor, or is over. *)
LEMMA VisitInv ==
  ASSUME IInv, StackAssumption, NEW t \in Threads, Visit(t) PROVE IInv'
<1> DEFINE q == Tail(abs[t])
           a == next[loc[t].node]
<1>k. TypeOK /\ PlaceInv /\ StackInv
  BY Zenon DEF IInv
<1>0. /\ abs[t] \in Seq(Nodes) /\ Once(abs[t]) /\ abs[t] # <<>> /\ pc[t] = "visit"
      /\ loc[t].op = "pop_all" /\ loc[t].node = First(abs[t]) /\ Chain(next, abs[t])
      /\ loc[t].node \in Nodes /\ abs' = [abs EXCEPT ![t] = q]
  BY Zenon, VisitTakes
<1>1. discipline' = discipline /\ head' = head /\ next' = next /\ pre' = pre
  BY Zenon DEF Visit
<1>2. /\ q \in Seq(Nodes) /\ Once(q) /\ Chain(next, q) /\ First(q) = a
      /\ \A m : In(q, m) => In(abs[t], m)
  BY Zenon, <1>0, TailSeq, TailChain
<1>3. a \in Nodes \cup {NULL} /\ (a = NULL <=> q = <<>>)
  BY Zenon, <1>2, FirstOf DEF StackAssumption
<1>4. /\ loc[t] \in Local /\ t \in L!Holders /\ Idle \in Local /\ Idle.op = "none"
      /\ {"idle", "visit"} \subseteq Pcs
  BY Zenon, Known, IdleType DEF Pcs
<1>5. PICK p \in {"idle", "visit"}, l \in Local :
        /\ pc' = [pc EXCEPT ![t] = p] /\ loc' = [loc EXCEPT ![t] = l]
        /\ p = "idle" => a = NULL /\ l.op = "none"
        /\ p = "visit" => a # NULL /\ l.op = "pop_all" /\ l.node = a /\ l.s = loc[t].s
  <2>1. CASE a = NULL
    <3>1. pc' = [pc EXCEPT ![t] = "idle"] /\ loc' = [loc EXCEPT ![t] = Idle]
      BY Zenon, <2>1 DEF Visit, Return, Goto
    <3> QED
      BY Zenon, <1>4, <2>1, <3>1
  <2>2. CASE a # NULL
    <3>1. /\ pc' = [pc EXCEPT ![t] = "visit"]
          /\ loc' = [loc EXCEPT ![t].node = a]
      BY Zenon, <2>2 DEF Visit, Goto
    <3> HIDE DEF a
    <3> DEFINE l == [loc[t] EXCEPT !.node = a]
    <3>2. l \in Local /\ l.op = "pop_all" /\ l.node = a /\ l.s = loc[t].s
      BY Zenon, <1>0, <1>3, <1>4 DEF Local
    <3>3. loc' = [loc EXCEPT ![t] = l]
      BY Zenon, <3>1
    <3> HIDE DEF l
    <3> QED
      BY Zenon, <2>2, <3>1, <3>2, <3>3
  <2> QED
    BY Zenon, <2>1, <2>2
<1> HIDE DEF q, a
<1>6. /\ abs'[t] = q /\ abs' \in [L!Holders -> Seq(Nodes)]
      /\ \A h \in L!Holders : h # t => abs'[h] = abs[h]
  BY Zenon, <1>k, <1>0, <1>2, <1>4 DEF TypeOK
<1>7. /\ pc'[t] = p /\ loc'[t] = l
      /\ \A u \in Threads \ {t} : pc'[u] = pc[u] /\ loc'[u] = loc[u]
  BY Zenon, <1>k, <1>5 DEF TypeOK
<1>s. /\ \A x \in Stacks : abs'[x] = abs[x]
      /\ \A u \in Threads \ {t} : abs'[u] = abs[u]
  BY Zenon, <1>6, Known
<1>8. TypeOK'
  <2>1. loc' \in [Threads -> Local] /\ pc' \in [Threads -> Pcs]
    BY Zenon, <1>k, <1>4, <1>5 DEF TypeOK
  <2> QED
    BY Zenon, <1>k, <1>1, <1>6, <2>1 DEF TypeOK
<1>9. PlaceInv'
  <2>1. \A h \in L!Holders : Once(abs'[h])
    BY Zenon, <1>k, <1>2, <1>6 DEF PlaceInv
  <2>2. \A h \in L!Holders, m \in Nodes : In(abs'[h], m) => In(abs[h], m)
    BY Zenon, <1>2, <1>6
  <2> QED
    BY Zenon, <1>k, <2>1, <2>2, PlaceLeft
<1>10. StackInv'
  BY Zenon, <1>k, <1>1, <1>s DEF StackInv
<1>11. MutexInv'
  BY Zenon, <1>0, <1>1, <1>5, <1>7, MutexKept
<1>12. Others({t})
  <2>1. \A u \in Threads : loc[u].s \in Stacks
    BY Zenon, Known
  <2> QED
    BY Zenon, <1>1, <1>7, <1>s, <2>1 DEF Others
<1>13. Doing(t)'
  BY Zenon, <1>1, <1>2, <1>3, <1>5, <1>6, <1>7 DEF Doing, PopPc
<1> QED
  BY Zenon, <1>5, <1>7, <1>8, <1>9, <1>10, <1>11, <1>12, <1>13, Together

(* A caller overwrites a node it has got. *)
LEMMA OverwriteInv ==
  ASSUME IInv, StackAssumption, Overwrite PROVE IInv'
<1>k. TypeOK /\ PlaceInv /\ StackInv
  BY Zenon DEF IInv
<1>1. PICK n \in Nodes \ L!Held, a \in Nodes \cup {NULL} : next' = [next EXCEPT ![n] = a]
  BY Zenon DEF Overwrite
<1>2. /\ discipline' = discipline /\ head' = head /\ pc' = pc /\ loc' = loc /\ pre' = pre
      /\ abs' = abs
  BY Zenon DEF Overwrite
<1>3. \A h \in L!Holders : ~ In(abs[h], n)
  BY Zenon DEF L!Held, In
<1>4. \A h \in L!Holders, m \in Nodes : In(abs[h], m) => next'[m] = next[m]
  BY Zenon, <1>k, <1>1, <1>3 DEF TypeOK
<1>5. TypeOK'
  BY Zenon, <1>k, <1>1, <1>2 DEF TypeOK
<1>6. PlaceInv'
  BY Zenon, <1>k, <1>2 DEF PlaceInv
<1>7. StackInv'
  <2>1. ASSUME NEW x \in Stacks
        PROVE  /\ head'[x] = First(abs'[x]) /\ Chain(next', abs'[x])
               /\ \A m \in Nodes : In(abs'[x], m) => pre'[m] = {}
    <3>1. \A m \in Nodes : In(abs[x], m) => next'[m] = next[m]
      BY Zenon, <1>4, Known
    <3> QED
      BY Zenon, <1>2, <3>1, StackKept
  <2> QED
    BY Zenon, <2>1 DEF StackInv
<1>8. MutexInv'
  BY Zenon, <1>2, MutexKept
<1>9. Others({})
  <2>1. \A u \in Threads : u \in L!Holders /\ loc[u].s \in L!Holders
    BY Zenon, Known
  <2> QED
    BY Zenon, <1>2, <1>4, <2>1 DEF Others
<1>10. \A u \in Threads : u \in Threads \ {}
  BY Zenon
<1>11. DoingInv' /\ PopInv'
  BY Zenon, <1>9, <1>10, OthersKept DEF DoingInv, PopInv
<1> QED
  BY Zenon, <1>5, <1>6, <1>7, <1>8, <1>11 DEF IInv

-----------------------------------------------------------------------------
(* The theorems. *)

(* Empty stacks, idle threads. *)
LEMMA InitInv == ASSUME Init, StackAssumption PROVE IInv
<1>1. Idle \in Local /\ Idle.op = "none"
  BY Zenon, IdleType
<1>2. <<>> \in Seq(Nodes) /\ Once(<<>>) /\ First(<<>>) = NULL /\ (\A m : ~ In(<<>>, m))
      /\ \A f : Chain(f, <<>>)
  BY Zenon, NoNode
<1>3. \A h \in L!Holders : abs[h] = <<>>
  BY Zenon DEF Init
<1>4. \A t \in Threads : pc[t] = "idle" /\ loc[t] = Idle /\ abs[t] = <<>>
  BY Zenon, <1>3 DEF Init, L!Holders
<1>5. \A s \in Stacks : abs[s] = <<>> /\ head[s] = NULL
  BY Zenon, <1>3 DEF Init, L!Holders
<1>6. TypeOK
  BY Zenon, <1>1, <1>2 DEF Init, TypeOK, Pcs, StackAssumption
<1>7. DoingInv /\ PopInv
  BY Zenon, <1>1, <1>4 DEF DoingInv, Doing, PopInv, PopPc
<1>8. PlaceInv
  BY Zenon, <1>2, <1>3 DEF PlaceInv
<1>9. StackInv
  BY Zenon, <1>2, <1>5 DEF StackInv
<1>10. MutexInv
  BY Zenon, <1>1, <1>4 DEF MutexInv
<1> QED
  BY Zenon, <1>6, <1>7, <1>8, <1>9, <1>10 DEF IInv

(* Every step keeps the invariant. *)
LEMMA NextInv == ASSUME IInv, StackAssumption, [Next]_vars PROVE IInv'
<1>1. CASE UNCHANGED vars
  <2>1. /\ discipline' = discipline /\ head' = head /\ next' = next /\ pc' = pc
        /\ loc' = loc /\ pre' = pre /\ abs' = abs
    BY Zenon, <1>1 DEF vars
  <2>2. TypeOK' /\ PlaceInv' /\ StackInv' /\ MutexInv'
    BY Zenon, <2>1 DEF IInv, TypeOK, PlaceInv, StackInv, MutexInv
  <2>3. DoingInv' /\ PopInv'
    BY Zenon, <2>1 DEF IInv, DoingInv, Doing, PopInv, Safe
  <2> QED
    BY Zenon, <2>2, <2>3 DEF IInv
<1>2. ASSUME NEW t \in Threads, Push(t) \/ Pop(t) \/ PopAll(t) \/ Continue(t) PROVE IInv'
  BY Zenon, <1>2, PushInv, PushCasInv, PushRetryInv, PopCallInv, PopHeadInv, PopNextInv,
     PopCasInv, PopRetryInv, PopAllInv, VisitInv
  DEF Continue
<1> QED
  BY Zenon, <1>1, <1>2, OverwriteInv DEF Next

(* The invariant holds in every reachable state of the stacks. *)
THEOREM Invariance == ASSUME StackAssumption PROVE Spec => []IInv
<1>1. Init => IInv
  BY Zenon, InitInv
<1>2. IInv /\ [Next]_vars => IInv'
  BY Zenon, NextInv
<1> QED
  BY <1>1, <1>2, PTL DEF Spec

(* The chain from the head through next is the stack, whatever callers do  *)
(* with the nodes they got.                                                *)
THEOREM ChainIsStackHolds == ASSUME StackAssumption PROVE Spec => []ChainIsStack
<1>1. ASSUME IInv PROVE ChainIsStack
  <2>1. \A s \in Stacks : abs[s] # <<>> => First(abs[s]) = Head(abs[s])
    BY Zenon, <1>1, Known, FirstOf DEF StackAssumption
  <2>2. \A s \in Stacks : head[s] = First(abs[s]) /\ Chain(next, abs[s])
    BY Zenon, <1>1 DEF IInv, StackInv
  <2>3. \A s \in Stacks : head[s] = IF abs[s] = <<>> THEN NULL ELSE Head(abs[s])
    BY Zenon, <2>1, <2>2 DEF First
  <2> QED
    BY Zenon, <2>2, <2>3 DEF ChainIsStack, Chain
<1>2. IInv => ChainIsStack
  BY Zenon, <1>1
<1> QED
  BY <1>2, Invariance, PTL

(* Every step of the lock-free stack is a step of Lifo, or none: push      *)
(* takes effect when its compare-exchange succeeds, and so does pop, which *)
(* then takes the newest node.                                             *)
LEMMA StepRefines ==
  ASSUME IInv, StackAssumption, [Next]_vars PROVE [L!Next]_abs
<1>1. ASSUME NEW t \in Threads, Push(t) PROVE L!Offer(t)
  BY Zenon, <1>1 DEF Push, L!Offer, IInv, DoingInv, Doing
<1>2. ASSUME NEW t \in Threads, PushCas(t)
      PROVE  abs' = abs \/ \E s \in Stacks : L!Push(t, s)
  <2>1. CASE head[loc[t].s] = loc[t].old
    <3>1. /\ abs' = [abs EXCEPT ![loc[t].s] = <<loc[t].node>> \o abs[loc[t].s],
                                ![t] = <<>>]
          /\ pc[t] = "push"
      BY Zenon, <1>2, <2>1 DEF PushCas
    <3>2. /\ loc[t].s \in Stacks /\ abs[t] = <<loc[t].node>> /\ loc[t].node \in Nodes
      BY Zenon, <3>1, Known DEF IInv, DoingInv, Doing
    <3>3. Len(<<loc[t].node>>) = 1
      BY Zenon, <3>2, OneSeq
    <3>4. L!Push(t, loc[t].s)
      BY Zenon, <3>1, <3>2, <3>3 DEF L!Push
    <3> QED
      BY Zenon, <3>2, <3>4
  <2>2. CASE head[loc[t].s] # loc[t].old
    BY Zenon, <1>2, <2>2 DEF PushCas
  <2> QED
    BY Zenon, <2>1, <2>2
<1>3. ASSUME NEW t \in Threads, Pop(t) \/ PopHead(t) \/ PopNext(t) PROVE abs' = abs
  BY Zenon, <1>3 DEF Pop, PopHead, PopNext
<1>4. ASSUME NEW t \in Threads, PopCas(t)
      PROVE  abs' = abs \/ \E s \in Stacks : L!Pop(s)
  <2>1. CASE head[loc[t].s] = loc[t].node
    <3>1. /\ loc[t].s \in Stacks /\ abs[loc[t].s] # <<>>
          /\ abs' = [abs EXCEPT ![loc[t].s] = Tail(abs[loc[t].s])]
      BY Zenon, <1>4, <2>1, PopTakes
    <3>2. L!Pop(loc[t].s)
      BY Zenon, <3>1 DEF L!Pop
    <3> QED
      BY Zenon, <3>1, <3>2
  <2>2. CASE head[loc[t].s] # loc[t].node
    BY Zenon, <1>4, <2>2 DEF PopCas
  <2> QED
    BY Zenon, <2>1, <2>2
<1>5. ASSUME NEW t \in Threads, PopAll(t) PROVE \E s \in Stacks : L!PopAll(t, s)
  <2>1. PICK s \in Stacks : /\ head[s] # NULL
                            /\ abs' = [abs EXCEPT ![s] = <<>>, ![t] = abs[s]]
    BY Zenon, <1>5 DEF PopAll
  <2>2. abs[t] = <<>> /\ head[s] = First(abs[s])
    BY Zenon, <1>5 DEF PopAll, IInv, DoingInv, Doing, StackInv
  <2>3. abs[s] # <<>>
    BY Zenon, <2>1, <2>2 DEF First
  <2> QED
    BY Zenon, <2>1, <2>2, <2>3 DEF L!PopAll
<1>6. ASSUME NEW t \in Threads, Visit(t) PROVE L!Visit(t)
  BY Zenon, <1>6, VisitTakes DEF L!Visit
<1>7. Overwrite \/ UNCHANGED vars => abs' = abs
  BY Zenon DEF Overwrite, vars
<1>8. ASSUME NEW t \in Threads, Push(t) \/ Pop(t) \/ PopAll(t) \/ Continue(t)
      PROVE  [L!Next]_abs
  BY Zenon, <1>1, <1>2, <1>3, <1>4, <1>5, <1>6, <1>8 DEF Continue, L!Next
<1> QED
  BY Zenon, <1>7, <1>8 DEF Next

(* The lock-free stacks implement Lifo: nodes leave newest first, each     *)
(* exactly once, with read-side sections or with the mutex around pop.     *)
THEOREM Refinement == ASSUME StackAssumption PROVE Spec => ImplementsLifo
<1>1. Init => L!Init
  BY Zenon DEF Init, L!Init
<1>2. IInv /\ [Next]_vars => [L!Next]_abs
  BY Zenon, StepRefines
<1> QED
  BY <1>1, <1>2, Invariance, PTL DEF Spec, ImplementsLifo, L!Spec
=============================================================================
