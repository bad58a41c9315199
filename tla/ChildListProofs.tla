-------------------------- MODULE ChildListProofs --------------------------
(***************************************************************************)
(* Theorems about the child lists of ProcTable and the loop of             *)
(* terminateReal that follows them while children take themselves out: the *)
(* lists agree with the kernel, and a process zaps its own children, and   *)
(* all of them, before it quits.                                           *)
(***************************************************************************)
EXTENDS UserProcProofs

\* The list that p ought to have.
List(p) == {c \in Kids(p) : Listed(c)}

(* x is where a pointer past the processes up to pid n has to point: at    *)
(* the first one of the list of p after n.                                 *)
PointsPast(p, n, x) ==
    /\ x = NULL => \A d \in List(p) : kpid[d] <= n
    /\ x # NULL => /\ x \in List(p) /\ kpid[x] > n
                   /\ \A d \in List(p) : kpid[d] <= n \/ kpid[d] >= kpid[x]

(* The lists are sorted by pid: addChild appends, and the child it appends *)
(* is the youngest.  A process has no children before its program runs.    *)
ListInv ==
    /\ \A p \in Procs :
        /\ PointsPast(p, -1, child[p])
        /\ \A c \in List(p) : PointsPast(p, kpid[c], nextSibling[c])
        /\ pc[p] = "s_link" => nextSibling[Slot(newPid[p])] = NULL
        /\ pc[p] \in AfterFork => \A d \in Kids(p) : kpid[d] <= newPid[p]
        /\ pc[p] \in LaunchSteps => Kids(p) = {}

\* terminateReal with a child read from the list, and after its loop.
ZapSteps == LoopSteps \cup {"t_unlock", "n_unlock"}
LeaveSteps == {"r_lock", "r_remove", "r_unlock", "t_quit"}

(* The siblings that the loop may come to.  One that has taken itself out  *)
(* keeps its nextSibling, and points no further than a listed one would.   *)
Reach(p, S) ==
    /\ childToZap[p] \in S
    /\ List(p) \subseteq S
    /\ \A d \in S :
        /\ nextSibling[d] \in S \cup {NULL}
        /\ \A l \in List(p) :
            kpid[l] > kpid[d] =>
                nextSibling[d] # NULL /\ kpid[nextSibling[d]] <= kpid[l]

\* It comes to all that are left in the list, and has passed over none.
Ahead(p) ==
    /\ \E S \in SUBSET Kids(p) : Reach(p, S)
    /\ \A l \in List(p) : kpid[childToZap[p]] <= kpid[l]

LoopInv(p) ==
    /\ pc[p] \in ZapSteps =>
        IF childToZap[p] = NULL THEN List(p) = {} ELSE Ahead(p)
    /\ pc[p] \in {"z_unlock", "z_zap", "z_wait"} => pidToZap[p] = kpid[childToZap[p]]
    /\ pc[p] \in {"n_lock", "n_next"} => childToZap[p] \notin List(p)
    /\ pc[p] \in LeaveSteps => List(p) = {}

TerminateInv == \A p \in Procs : LoopInv(p)

----------------------------------------------------------------------------
(* Walk.  A nonempty set of natural numbers has a least element: the       *)
(* interval up to it is a minimal one.                                     *)
LEMMA LeastNat ==
    ASSUME NEW T, T \subseteq Nat, T # {}
    PROVE  \E x \in T : \A y \in T : x <= y
<1> DEFINE below == {0 .. n : n \in T}
<1>1. \A n \in T : 0 .. n \in FiniteSubsetsOf(Nat)
  <2> SUFFICES ASSUME NEW n \in T PROVE 0 .. n \in FiniteSubsetsOf(Nat)
    OBVIOUS
  <2>1. 0 \in Int /\ n \in Int
    OBVIOUS
  <2>2. IsFiniteSet(0 .. n)
    BY ONLY <2>1, FS_Interval
  <2> QED BY <2>2 DEF FiniteSubsetsOf
<1>2. below \subseteq FiniteSubsetsOf(Nat) /\ below # {}
  BY <1>1
<1>3. PICK m \in below : \A k \in below : ~(<<k, m>> \in StrictSubsetOrdering(Nat))
  <2> HIDE DEF below
  <2> QED BY <1>2, FS_StrictSubsetOrderingWellFounded, WFMin
<1>4. PICK x \in T : m = 0 .. x
  OBVIOUS
<1>5. ASSUME NEW y \in T PROVE x <= y
  <2>1. ~(0 .. y \subseteq 0 .. x /\ 0 .. y # 0 .. x)
    <3>1. PICK k \in below : k = 0 .. y
      OBVIOUS
    <3>2. k \in SUBSET Nat /\ m \in SUBSET Nat
      BY <1>4, <3>1
    <3>3. <<k, m>> \notin StrictSubsetOrdering(Nat)
      BY <1>3
    <3>4. ~(k \subseteq m /\ k # m)
      BY ONLY <3>2, <3>3 DEF StrictSubsetOrdering
    <3> QED BY <1>4, <3>1, <3>4
  <2> SUFFICES ASSUME y < x PROVE FALSE
    OBVIOUS
  <2>2. x \in 0 .. x /\ x \notin 0 .. y /\ 0 .. y \subseteq 0 .. x
    OBVIOUS
  <2> QED BY <2>1, <2>2
<1> QED BY <1>5

(* What Walk's definition as a recursive function means.                   *)
LEMMA WalkEquation ==
    ASSUME NEW p \in Procs
    PROVE  /\ Walk(p)[0] = child[p]
           /\ \A n \in 1 .. MAXPROC :
                Walk(p)[n] = IF Walk(p)[n - 1] = NULL THEN NULL
                             ELSE nextSibling[Walk(p)[n - 1]]
<1> DEFINE Step(w, n) == IF n = 0 THEN child[p]
                         ELSE IF w[n - 1] = NULL THEN NULL
                         ELSE nextSibling[w[n - 1]]
           Bad == {m \in Nat : ~ \E w : w = [n \in 0 .. m |-> Step(w, n)]}
<1>1. Bad = {}
  <2> SUFFICES ASSUME Bad # {} PROVE FALSE
    OBVIOUS
  <2>1. PICK m \in Bad : \A k \in Bad : m <= k
    <3> HIDE DEF Bad
    <3>1. Bad \subseteq Nat
      BY DEF Bad
    <3> QED BY <3>1, LeastNat
  <2>2. m # 0
    <3>1. [n \in 0 .. 0 |-> child[p]] =
              [n \in 0 .. 0 |-> Step([k \in 0 .. 0 |-> child[p]], n)]
      OBVIOUS
    <3> QED BY <3>1
  <2>3. m - 1 \in Nat /\ m - 1 \notin Bad
    <3>1. m \in Nat
      OBVIOUS
    <3> HIDE DEF Bad
    <3> QED BY <2>1, <2>2, <3>1
  <2>4. PICK w : w = [n \in 0 .. m - 1 |-> Step(w, n)]
    BY <2>3
  <2> DEFINE v == [n \in 0 .. m |-> IF n = m THEN Step(w, m) ELSE w[n]]
  <2>5. ASSUME NEW n \in 0 .. m PROVE v[n] = Step(v, n)
    <3>1. n # m => v[n] = w[n] /\ w[n] = Step(w, n)
      BY <2>4
    <3>2. n # 0 => n - 1 \in 0 .. m /\ n - 1 # m /\ v[n - 1] = w[n - 1]
      BY <2>3
    <3>3. n = m => v[n] = Step(w, n)
      OBVIOUS
    <3>4. Step(v, n) = Step(w, n)
      <4> HIDE DEF v
      <4> QED BY <3>2
    <3> QED BY <3>1, <3>3, <3>4
  <2>6. v = [n \in 0 .. m |-> Step(v, n)]
    <3>1. v = [n \in 0 .. m |-> v[n]]
      OBVIOUS
    <3> HIDE DEF v, Step
    <3> QED BY <2>5, <3>1
  <2> HIDE DEF v
  <2> QED BY <2>6
<1>2. \E w : w = [n \in 0 .. MAXPROC |-> Step(w, n)]
  BY <1>1, UserProcsAssumption
<1>3. Walk(p) = [n \in 0 .. MAXPROC |-> Step(Walk(p), n)]
  BY <1>2 DEF Walk
<1> HIDE DEF Bad
<1>4. \A n \in 0 .. MAXPROC : Walk(p)[n] = Step(Walk(p), n)
  <2> DEFINE W == Walk(p)
  <2>1. W = [n \in 0 .. MAXPROC |-> Step(W, n)]
    BY <1>3
  <2> HIDE DEF W, Step
  <2>2. \A n \in 0 .. MAXPROC : W[n] = Step(W, n)
    BY <2>1
  <2> QED BY <2>2 DEF W
<1> QED BY <1>4, UserProcsAssumption

(* What is in List(p): active children of p, which their pids tell apart.  *)
LEMMA ListFacts ==
    ASSUME IInv, HandInv, NEW p \in Procs
    PROVE  /\ \A c \in List(p) : /\ c \in Procs /\ kpid[c] \in Nat
                                 /\ kstate[c] = "active" /\ kparent[c] = p
           /\ \A c, d \in List(p) : kpid[c] = kpid[d] => c = d
           /\ NULL \notin List(p)
BY UserProcsAssumption DEF List, Kids, Listed, HandInv, KernelInv, NULL

\* The walk does not leave the list.
LEMMA WalkStaysInList ==
    ASSUME IInv, HandInv, ListInv, NEW p \in Procs, NEW n \in 0 .. MAXPROC
    PROVE  Walk(p)[n] \in List(p) \cup {NULL}
<1> DEFINE W == Walk(p)
           Bad == {m \in 0 .. MAXPROC : W[m] \notin List(p) \cup {NULL}}
<1> SUFFICES ASSUME Bad # {} PROVE FALSE
  OBVIOUS
<1>1. PICK m \in Bad : \A k \in Bad : m <= k
  <2>1. Bad \subseteq Nat
    BY UserProcsAssumption
  <2> HIDE DEF Bad
  <2> QED BY <2>1, LeastNat
<1>2. m # 0
  BY WalkEquation DEF ListInv, PointsPast
<1>3. m - 1 \in 0 .. MAXPROC /\ m \in 1 .. MAXPROC
  BY <1>2, UserProcsAssumption
<1>4. W[m - 1] \in List(p) \cup {NULL}
  <2>1. m - 1 \notin Bad
    BY <1>1, <1>3
  <2> QED BY <1>3, <2>1
<1>5. W[m] = IF W[m - 1] = NULL THEN NULL ELSE nextSibling[W[m - 1]]
  BY <1>3, WalkEquation
<1>6. W[m] \in List(p) \cup {NULL}
  <2> HIDE DEF W
  <2> QED BY <1>4, <1>5 DEF ListInv, PointsPast
<1> QED BY <1>6

(* A process of the list that the walk does not come to is past everything *)
(* that it comes to.                                                       *)
LEMMA WalkStaysBefore ==
    ASSUME IInv, HandInv, ListInv, NEW p \in Procs, NEW l \in List(p),
           l \notin ChildList(p), NEW n \in 0 .. MAXPROC
    PROVE  Walk(p)[n] \in List(p) /\ kpid[Walk(p)[n]] < kpid[l]
<1> DEFINE W == Walk(p)
           Before(m) == W[m] \in List(p) /\ kpid[W[m]] < kpid[l]
           Bad == {m \in 0 .. MAXPROC : ~Before(m)}
<1> SUFFICES ASSUME Bad # {} PROVE FALSE
  OBVIOUS
<1>1. PICK m \in Bad : \A k \in Bad : m <= k
  <2>1. Bad \subseteq Nat
    BY UserProcsAssumption
  <2> HIDE DEF Bad
  <2> QED BY <2>1, LeastNat
<1>2. \A k \in 0 .. MAXPROC : W[k] # l
  BY ListFacts DEF ChildList
<1>3. ASSUME NEW d \in List(p) PROVE kpid[d] \in Nat /\ (kpid[d] = kpid[l] => d = l)
  BY ListFacts
<1>4. m # 0
  <2>1. W[0] = child[p] /\ 0 \in 0 .. MAXPROC
    BY WalkEquation, UserProcsAssumption
  <2>2. Before(0)
    <3> HIDE DEF W
    <3> QED BY <1>2, <1>3, <2>1 DEF ListInv, PointsPast
  <2> QED BY <2>2
<1>5. m - 1 \in 0 .. MAXPROC /\ m \in 1 .. MAXPROC
  BY <1>4, UserProcsAssumption
<1>6. Before(m - 1)
  <2>1. m - 1 \notin Bad
    BY <1>1, <1>5
  <2> QED BY <1>5, <2>1
<1>7. W[m] = nextSibling[W[m - 1]]
  BY <1>5, <1>6, WalkEquation, ListFacts
<1>8. Before(m)
  <2> HIDE DEF W
  <2> QED BY <1>2, <1>3, <1>5, <1>6, <1>7 DEF ListInv, PointsPast
<1> QED BY <1>8

(* The list of a process, followed from child[p], is the one that it ought *)
(* to have: it is sorted by pid, so the walk neither leaves one out nor    *)
(* goes on for longer than there are processes.                            *)
LEMMA ChildListLemma ==
    ASSUME IInv, HandInv, ListInv, NEW p \in Procs
    PROVE  ChildList(p) = List(p)
<1> DEFINE W == Walk(p)
<1>1. ChildList(p) \subseteq List(p)
  BY WalkStaysInList DEF ChildList
<1>2. ASSUME NEW l \in List(p), l \notin ChildList(p)
      PROVE  FALSE
  <2>1. \A n \in 0 .. MAXPROC : W[n] \in List(p) /\ kpid[W[n]] < kpid[l]
    BY <1>2, WalkStaysBefore
  <2>2. \A n \in 1 .. MAXPROC : W[n] = nextSibling[W[n - 1]] /\ n - 1 \in 0 .. MAXPROC
    BY <2>1, WalkEquation, ListFacts, UserProcsAssumption
  <2>3. \A n \in 1 .. MAXPROC : kpid[W[n]] > kpid[W[n - 1]]
    <3> HIDE DEF W
    <3> SUFFICES ASSUME NEW n \in 1 .. MAXPROC PROVE kpid[W[n]] > kpid[W[n - 1]]
      OBVIOUS
    <3>1. n \in 0 .. MAXPROC /\ n - 1 \in 0 .. MAXPROC
      BY UserProcsAssumption
    <3>2. /\ W[n] = nextSibling[W[n - 1]] /\ W[n - 1] \in List(p) /\ W[n] \in List(p)
          /\ W[n] # NULL
      BY <2>1, <2>2, <3>1, ListFacts
    <3>3. PointsPast(p, kpid[W[n - 1]], nextSibling[W[n - 1]])
      BY <3>2 DEF ListInv
    <3> QED BY <3>2, <3>3 DEF PointsPast
  <2>4. \A i, j \in 0 .. MAXPROC : i < j => kpid[W[i]] < kpid[W[j]]
    <3> SUFFICES ASSUME NEW i \in 0 .. MAXPROC
                 PROVE  \A j \in 0 .. MAXPROC : i < j => kpid[W[i]] < kpid[W[j]]
      OBVIOUS
    <3> HIDE DEF W
    <3> DEFINE Bad == {j \in 0 .. MAXPROC : i < j /\ ~(kpid[W[i]] < kpid[W[j]])}
    <3> SUFFICES ASSUME Bad # {} PROVE FALSE
      OBVIOUS
    <3>1. PICK j \in Bad : \A k \in Bad : j <= k
      <4>1. Bad \subseteq Nat
        BY UserProcsAssumption
      <4> HIDE DEF Bad
      <4> QED BY <4>1, LeastNat
    <3>2. j \in 1 .. MAXPROC /\ j - 1 \in 0 .. MAXPROC /\ i <= j - 1
      BY UserProcsAssumption
    <3>3. j - 1 = i \/ kpid[W[i]] < kpid[W[j - 1]]
      BY <3>1, <3>2
    <3>4. kpid[W[i]] \in Nat /\ kpid[W[j]] \in Nat /\ kpid[W[j - 1]] \in Nat
      BY <2>1, <3>2, ListFacts
    <3> QED BY <2>3, <3>2, <3>3, <3>4
  <2>5. \A i, j \in 0 .. MAXPROC : W[i] = W[j] => i = j
    <3> HIDE DEF W
    <3> QED BY <2>1, <2>4, ListFacts
  <2> DEFINE w == [n \in 0 .. MAXPROC |-> W[n]]
  <2>6. w \in [0 .. MAXPROC -> Procs]
    <3> HIDE DEF W
    <3> QED BY <2>1, ListFacts
  <2>7. IsFiniteSet(Procs) /\ Cardinality(Procs) = MAXPROC
    BY FS_Interval, UserProcsAssumption
  <2>8. IsFiniteSet(0 .. MAXPROC) /\ Cardinality(0 .. MAXPROC) = MAXPROC + 1
    BY FS_Interval, UserProcsAssumption
  <2>9. PICK i \in 0 .. MAXPROC, j \in 0 .. MAXPROC : i # j /\ w[i] = w[j]
    <3> HIDE DEF w
    <3>1. Cardinality(Procs) < Cardinality(0 .. MAXPROC)
      BY <2>7, <2>8, UserProcsAssumption
    <3> QED BY <2>6, <2>7, <2>8, <3>1, FS_PigeonHole
  <2> QED BY <2>5, <2>9
<1> QED BY <1>1, <1>2

----------------------------------------------------------------------------
(* Steps that leave the lists alone.                                       *)

\* spawnReal, until the child is in the list.
Linking == {"s_lock", "s_init", "s_link"}

\* The process is not out of its parent's list yet.
Live(c) == kstate[c] = "active" /\ pc[c] \notin {"r_unlock", "t_quit"}

SteadyStep(p) ==
    /\ UNCHANGED <<kpid, kparent, child, nextSibling>>
    /\ \A q \in Procs \ {p} :
        /\ pc'[q] = pc[q] /\ newPid'[q] = newPid[q]
        /\ childToZap'[q] = childToZap[q] /\ pidToZap'[q] = pidToZap[q]
        /\ kstate'[q] = "active" <=> kstate[q] = "active"
        /\ kstate[q] = "free" => kstate'[q] = "free"
        /\ kstate'[q] = "free" => kstate[q] = "free" \/ kparent[q] = p
    /\ kstate[p] # "free" /\ kstate'[p] # "free"
    /\ kparent[p] # NULL => (Live(p)' <=> Live(p))
    /\ pc'[p] \in Linking <=> pc[p] \in Linking
    /\ pc'[p] = "s_link" => pc[p] = "s_link"
    /\ pc'[p] \in AfterFork => pc[p] \in AfterFork /\ newPid'[p] = newPid[p]
    /\ pc'[p] \in LaunchSteps => pc[p] \in LaunchSteps

LEMMA ListMembers ==
    ASSUME IInv, HandInv
    PROVE  \A p \in Procs : \A c :
                c \in List(p) <=> /\ c \in Procs /\ kparent[c] = p /\ Live(c)
                                  /\ ~(pc[p] \in Linking /\ newPid[p] = kpid[c])
BY DEF List, Kids, Listed, Live, Linking

LEMMA SteadyLists ==
    ASSUME IInv, HandInv, ListInv, NEW p \in Procs, SteadyStep(p)
    PROVE  /\ \A q \in Procs : List(q)' = List(q) /\ Kids(q)' \subseteq Kids(q)
           /\ \A q \in Procs \ {p} : Kids(q)' = Kids(q)
           /\ ListInv'
<1>1. \A c \in Procs : kparent[c] # NULL => (Live(c)' <=> Live(c))
  BY DEF SteadyStep, Live
<1>2. \A q \in Procs : /\ pc'[q] \in Linking <=> pc[q] \in Linking
                       /\ pc[q] \in Linking => newPid'[q] = newPid[q]
  BY DEF SteadyStep, Linking, AfterFork
<1>3. \A q \in Procs : List(q)' = List(q)
  <2> SUFFICES ASSUME NEW q \in Procs PROVE List(q)' = List(q)
    OBVIOUS
  <2>1. q # NULL /\ kparent' = kparent /\ kpid' = kpid
    BY UserProcsAssumption DEF NULL, SteadyStep
  <2>2. \A c \in Procs :
            kparent[c] = q =>
                /\ Listed(c)' <=> Listed(c)
                /\ Listed(c) => kstate'[c] # "free" /\ kstate[c] # "free"
    BY <1>1, <1>2, <2>1 DEF Listed, Live, Linking
  <2> QED BY <2>1, <2>2 DEF List, Kids
<1>4. /\ \A q \in Procs : Kids(q)' \subseteq Kids(q)
      /\ \A q \in Procs \ {p} : Kids(q)' = Kids(q)
  BY DEF SteadyStep, Kids
<1>5. ListInv'
  <2>1. /\ kpid' = kpid /\ child' = child /\ nextSibling' = nextSibling
        /\ \A q \in Procs : pc'[q] = "s_link" => pc[q] = "s_link" /\ newPid'[q] = newPid[q]
        /\ \A q \in Procs :
            pc'[q] \in AfterFork => pc[q] \in AfterFork /\ newPid'[q] = newPid[q]
        /\ \A q \in Procs : pc'[q] \in LaunchSteps => pc[q] \in LaunchSteps
    BY DEF SteadyStep, AfterFork
  <2> QED BY <1>3, <1>4, <2>1 DEF ListInv, PointsPast
<1> QED BY <1>3, <1>4, <1>5

(* What the loop of terminateReal has to come to remains ahead of it.      *)
LEMMA StillAhead ==
    ASSUME NEW q \in Procs, Ahead(q), childToZap'[q] = childToZap[q],
           List(q)' \subseteq List(q), Kids(q) \subseteq Kids(q)',
           \A d \in Kids(q) :
                kpid'[d] = kpid[d] /\ nextSibling'[d] = nextSibling[d]
    PROVE  Ahead(q)'
<1>1. PICK S \in SUBSET Kids(q) : Reach(q, S)
  BY DEF Ahead
<1>2. List(q)' \subseteq S /\ childToZap[q] \in S
  BY <1>1 DEF Reach
<1>3. \A d \in S : nextSibling[d] \in S \cup {NULL}
  BY <1>1 DEF Reach
<1>4. \A d \in S : kpid'[d] = kpid[d] /\ nextSibling'[d] = nextSibling[d]
  OBVIOUS
<1>5. \A d \in S, l \in List(q)' :
        kpid[l] > kpid[d] => nextSibling[d] # NULL /\ kpid[nextSibling[d]] <= kpid[l]
  BY <1>1 DEF Reach
<1>6. Reach(q, S)'
  <2>1. \A d \in S, l \in List(q)' :
            kpid'[l] > kpid'[d] =>
                nextSibling'[d] # NULL /\ kpid'[nextSibling'[d]] <= kpid'[l]
    BY <1>2, <1>3, <1>4, <1>5
  <2> QED BY <1>2, <1>3, <1>4, <2>1 DEF Reach
<1>7. \A l \in List(q)' : kpid'[childToZap[q]] <= kpid'[l]
  BY <1>2, <1>4 DEF Ahead
<1> QED BY <1>6, <1>7 DEF Ahead

LEMMA StillInLoop ==
    ASSUME IInv, NEW q \in Procs, LoopInv(q),
           pc'[q] = pc[q], childToZap'[q] = childToZap[q], pidToZap'[q] = pidToZap[q],
           List(q)' \subseteq List(q), Kids(q) \subseteq Kids(q)',
           \A d \in Kids(q) :
                kpid'[d] = kpid[d] /\ nextSibling'[d] = nextSibling[d]
    PROVE  LoopInv(q)'
<1>1. pc[q] \in ZapSteps /\ childToZap[q] # NULL => Ahead(q) /\ Ahead(q)'
  BY StillAhead DEF LoopInv
<1>2. Ahead(q) => childToZap[q] \in Kids(q)
  BY DEF Ahead, Reach
<1>3. pc[q] \in LoopSteps => childToZap[q] # NULL /\ pc[q] \in ZapSteps
  BY DEF IInv, TypeInv, ZapInv, ZapSteps
<1>4. {"z_unlock", "z_zap", "z_wait", "n_lock", "n_next"} \subseteq LoopSteps
  BY DEF LoopSteps
<1> QED BY <1>1, <1>2, <1>3, <1>4 DEF LoopInv

LEMMA SteadyPeers ==
    ASSUME IInv, HandInv, ListInv, TerminateInv, NEW p \in Procs, SteadyStep(p)
    PROVE  \A q \in Procs \ {p} : LoopInv(q)'
<1> SUFFICES ASSUME NEW q \in Procs \ {p} PROVE LoopInv(q)'
  OBVIOUS
<1>1. List(q)' = List(q) /\ Kids(q)' = Kids(q)
  BY SteadyLists
<1> QED BY <1>1, StillInLoop DEF SteadyStep, TerminateInv

(* A steady step that leads elsewhere than to the steps of terminateReal.  *)
LEMMA SteadyAway ==
    ASSUME IInv, HandInv, ListInv, TerminateInv, NEW p \in Procs, SteadyStep(p),
           pc'[p] \notin ZapSteps \cup LeaveSteps
    PROVE  ListInv' /\ TerminateInv'
<1>1. LoopInv(p)'
  BY DEF LoopInv, ZapSteps, LoopSteps
<1> QED BY <1>1, SteadyLists, SteadyPeers DEF TerminateInv

(* A steady step within terminateReal that reads nothing.                  *)
LEMMA SteadyInside ==
    ASSUME IInv, HandInv, ListInv, TerminateInv, NEW p \in Procs, SteadyStep(p),
           childToZap'[p] = childToZap[p], pidToZap'[p] = pidToZap[p], kstate' = kstate,
           pc'[p] \in ZapSteps => pc[p] \in ZapSteps,
           pc'[p] \in {"z_unlock", "z_zap", "z_wait"} => pc[p] \in {"z_unlock", "z_zap"},
           pc'[p] \in {"n_lock", "n_next"} => pc[p] = "n_lock",
           pc'[p] \in LeaveSteps =>
                \/ pc[p] \in LeaveSteps
                \/ pc[p] \in ZapSteps /\ childToZap[p] = NULL
    PROVE  ListInv' /\ TerminateInv'
<1>1. List(p)' = List(p) /\ Kids(p)' = Kids(p)
  BY SteadyLists DEF SteadyStep, Kids
<1>2. LoopInv(p)
  BY DEF TerminateInv
<1>3. pc[p] \in ZapSteps /\ childToZap[p] # NULL => Ahead(p) /\ Ahead(p)'
  BY <1>1, <1>2, StillAhead DEF LoopInv, SteadyStep
<1>4. LoopInv(p)'
  BY <1>1, <1>2, <1>3 DEF LoopInv, SteadyStep
<1> QED BY <1>4, SteadyLists, SteadyPeers DEF TerminateInv

LEMMA LockLists ==
    ASSUME IInv, HandInv, ListInv, TerminateInv, NEW p \in Procs, Lock(p) \/ Unlock(p)
    PROVE  ListInv' /\ TerminateInv'
<1>1. PICK l \in LockSteps \cup UnlockSteps :
        /\ pc[p] = l
        /\ IF l \in LockSteps THEN pc'[p] = AfterLock[l]
                              ELSE pc'[p] = AfterUnlock(p)[l]
        /\ \A q \in Procs \ {p} : pc'[q] = pc[q]
        /\ UNCHANGED <<kernelVars, tableVars, localVars>>
  BY DEF Lock, Unlock, At, Goto, LockSteps, UnlockSteps, IInv, TypeInv, TypeOK
<1>2. /\ UNCHANGED <<kstate, kpid, kparent, child, nextSibling, newPid>>
      /\ childToZap' = childToZap /\ pidToZap' = pidToZap
  BY <1>1 DEF kernelVars, tableVars, localVars
<1>3. kstate[p] # "free"
  BY <1>1 DEF HandInv, KernelInv, LockSteps, UnlockSteps
<1>4. \/ l = "s_lock" /\ pc'[p] = "s_init"
      \/ l = "l_lock" /\ pc'[p] = "l_read"
      \/ l = "t_lock" /\ pc'[p] = "t_child"
      \/ l = "z_lock" /\ pc'[p] = "z_pid"
      \/ l = "n_lock" /\ pc'[p] = "n_next"
      \/ l = "r_lock" /\ pc'[p] = "r_remove"
      \/ l = "s_unlock" /\ pc'[p] = "s_send"
      \/ l = "l_unlock" /\ pc'[p] = "return"
      \/ l \in {"t_unlock", "n_unlock"} /\ childToZap[p] = NULL /\ pc'[p] = "r_lock"
      \/ l \in {"t_unlock", "n_unlock"} /\ childToZap[p] # NULL /\ pc'[p] = "z_lock"
      \/ l = "z_unlock" /\ pc'[p] = "z_zap"
      \/ l = "r_unlock" /\ pc'[p] = "t_quit"
  BY <1>1 DEF LockSteps, UnlockSteps, AfterLock, AfterUnlock
<1>5. SteadyStep(p)
  BY <1>1, <1>2, <1>3, <1>4
     DEF SteadyStep, Live, Linking, AfterFork, LaunchSteps
<1>6. CASE l \in {"s_lock", "l_lock", "t_lock", "s_unlock", "l_unlock"}
  BY <1>4, <1>5, <1>6, SteadyAway DEF ZapSteps, LoopSteps, LeaveSteps
<1>7. CASE l \notin {"s_lock", "l_lock", "t_lock", "s_unlock", "l_unlock"}
  BY <1>1, <1>2, <1>4, <1>5, <1>7, SteadyInside DEF ZapSteps, LoopSteps, LeaveSteps
<1> QED BY <1>6, <1>7

(* Steps of Spawn, spawnLaunch and Wait that leave the lists alone.        *)
LEMMA HandlerLists ==
    ASSUME IInv, HandInv, ListInv, TerminateInv, NEW p \in Procs,
           \/ SpawnCreate(p) \/ ForkFails(p)
           \/ SpawnRelease(p) \/ SpawnParent(p) \/ SpawnSend(p)
           \/ LaunchReceive(p) \/ LaunchRelease(p) \/ LaunchRead(p)
           \/ spawn(p) \/ waitHandler(p) \/ terminate(p) \/ otherCall(p)
    PROVE  ListInv' /\ TerminateInv'
<1> USE DEF At, Goto
<1>1. /\ UNCHANGED <<kstate, kpid, kparent, child, nextSibling>>
      /\ childToZap' = childToZap /\ pidToZap' = pidToZap
  BY DEF SpawnCreate, ForkFails, SpawnRelease, SpawnParent, SpawnSend, LaunchReceive,
         LaunchRelease, LaunchRead, spawn, waitHandler, terminate, otherCall, Call,
         kernelVars, tableVars, localVars
<1>2. /\ \A q \in Procs \ {p} : pc'[q] = pc[q] /\ newPid'[q] = newPid[q]
      /\ pc[p] # "s_send" => newPid'[p] = newPid[p]
      /\ \/ pc[p] = "s_create" /\ pc'[p] = "s_fork"
         \/ pc[p] = "s_fork" /\ pc'[p] \in {"s_fork", "s_release"}
         \/ pc[p] = "s_release" /\ pc'[p] = "return"
         \/ pc[p] = "s_parent" /\ pc'[p] = "s_unlock"
         \/ pc[p] = "s_send" /\ pc'[p] = "return"
         \/ pc[p] = "l_receive" /\ pc'[p] = "l_release"
         \/ pc[p] = "l_release" /\ pc'[p] = "l_lock"
         \/ pc[p] = "l_read" /\ pc'[p] = "l_unlock"
         \/ pc[p] = "user" /\ pc'[p] \in {"s_create", "w_join", "t_lock", "return"}
  BY DEF SpawnCreate, ForkFails, SpawnRelease, SpawnParent, SpawnSend, LaunchReceive,
         LaunchRelease, LaunchRead, spawn, waitHandler, terminate, otherCall, Call,
         kernelVars, tableVars, localVars, IInv, TypeInv, TypeOK
<1>3. kstate[p] # "free"
  BY <1>2 DEF HandInv, KernelInv
<1>4. SteadyStep(p)
  BY <1>1, <1>2, <1>3 DEF SteadyStep, Live, Linking, AfterFork, LaunchSteps
<1>5. pc'[p] \notin ZapSteps \cup LeaveSteps
  BY <1>2 DEF ZapSteps, LoopSteps, LeaveSteps
<1> QED BY <1>4, <1>5, SteadyAway

LEMMA WaitLists ==
    ASSUME IInv, HandInv, ListInv, TerminateInv, NEW p \in Procs, waitReal(p)
    PROVE  ListInv' /\ TerminateInv'
<1>1. /\ pc[p] = "w_join" /\ pc'[p] = "return"
      /\ \A q \in Procs \ {p} : pc'[q] = pc[q]
      /\ UNCHANGED <<kpid, kparent, child, nextSibling, newPid, childToZap, pidToZap>>
  BY DEF waitReal, At, Goto, tableVars, localVars, IInv, TypeInv, TypeOK
<1>2. kstate[p] = "active"
  BY <1>1 DEF HandInv, KernelInv
<1>3. \/ kstate' = kstate
      \/ \E c \in Procs : /\ kparent[c] = p /\ kstate[c] \notin {"free", "active"}
                          /\ kstate' = [kstate EXCEPT ![c] = "free"]
  BY DEF waitReal, Kids, ActiveKids
<1>4. SteadyStep(p)
  BY <1>1, <1>2, <1>3
     DEF SteadyStep, Live, Linking, AfterFork, LaunchSteps, IInv, TypeInv, TypeOK
<1> QED BY <1>1, <1>4, SteadyAway DEF ZapSteps, LoopSteps, LeaveSteps

LEMMA ReturnLists ==
    ASSUME IInv, HandInv, ListInv, TerminateInv, NEW p \in Procs, Return(p)
    PROVE  ListInv' /\ TerminateInv'
<1>1. /\ pc[p] = "return" /\ pc'[p] \in {"t_quit", "w_join", "t_lock", "user"}
      /\ pc'[p] = "t_quit" => p = Start2 /\ Kids(p) = {}
      /\ \A q \in Procs \ {p} : pc'[q] = pc[q]
      /\ UNCHANGED <<kstate, kpid, kparent, child, nextSibling, newPid, childToZap,
                     pidToZap>>
  BY DEF Return, At, Goto, kernelVars, tableVars, localVars, IInv, TypeInv, TypeOK
<1>2. kstate[p] # "free" /\ (p = Start2 => kparent[p] = NULL)
  BY <1>1 DEF HandInv, KernelInv
<1>3. SteadyStep(p)
  BY <1>1, <1>2 DEF SteadyStep, Live, Linking, AfterFork, LaunchSteps
<1>4. CASE pc'[p] = "t_quit"
  <2>1. List(p)' = {}
    BY <1>1, <1>3, <1>4, SteadyLists DEF List
  <2>2. LoopInv(p)'
    BY <1>4, <2>1 DEF LoopInv, ZapSteps, LoopSteps
  <2> QED BY <1>3, <2>2, SteadyLists, SteadyPeers DEF TerminateInv
<1>5. CASE pc'[p] # "t_quit"
  BY <1>1, <1>3, <1>5, SteadyAway DEF ZapSteps, LoopSteps, LeaveSteps
<1> QED BY <1>4, <1>5

LEMMA QuitLists ==
    ASSUME IInv, HandInv, ListInv, TerminateInv, NEW p \in Procs, quit(p)
    PROVE  ListInv' /\ TerminateInv'
<1>1. /\ pc[p] = "t_quit" /\ UNCHANGED <<kpid, kparent, child, nextSibling, newPid>>
  BY DEF quit, At, tableVars, localVars
<1>2. kstate[p] = "active"
  BY <1>1 DEF HandInv, KernelInv
<1>3. CASE ActiveKids(p) # {}
  <2>1. UNCHANGED <<kstate, pc, childToZap, pidToZap>>
    BY <1>3 DEF quit, localVars
  <2>2. SteadyStep(p)
    BY <1>1, <1>2, <2>1 DEF SteadyStep, Live, Linking, AfterFork, LaunchSteps
  <2> QED BY <1>1, <2>1, <2>2, SteadyInside DEF ZapSteps, LoopSteps, LeaveSteps
<1>4. CASE ActiveKids(p) = {}
  <2>1. /\ pc'[p] = "none"
        /\ \A q \in Procs \ {p} : /\ pc'[q] = pc[q] /\ childToZap'[q] = childToZap[q]
                                  /\ pidToZap'[q] = pidToZap[q]
    BY <1>4 DEF quit, Goto, IInv, TypeInv, TypeOK
  <2>2. /\ kstate'[p] = "quit"
        /\ \A q \in Procs \ {p} :
                IF q \in Kids(p) THEN kstate'[q] = "free" ELSE kstate'[q] = kstate[q]
    BY <1>4 DEF quit
  <2>3. \A q \in Kids(p) : kstate[q] # "active" /\ kparent[q] = p
    BY <1>4 DEF ActiveKids, Kids
  <2>4. SteadyStep(p)
    BY <1>1, <1>2, <2>1, <2>2, <2>3
       DEF SteadyStep, Live, Linking, AfterFork, LaunchSteps
  <2> QED BY <2>1, <2>4, SteadyAway DEF ZapSteps, LoopSteps, LeaveSteps
<1> QED BY <1>3, <1>4

----------------------------------------------------------------------------
(* The loop of terminateReal.                                              *)

\* A step within the loop.
LoopStep(p, from, to) ==
    /\ pc[p] = from /\ pc'[p] = to
    /\ \A q \in Procs \ {p} :
        /\ pc'[q] = pc[q]
        /\ childToZap'[q] = childToZap[q] /\ pidToZap'[q] = pidToZap[q]
    /\ UNCHANGED <<kstate, kpid, kparent, child, nextSibling, newPid>>

LEMMA LoopStepSteady ==
    ASSUME IInv, HandInv, ListInv, TerminateInv, NEW p \in Procs, NEW from, NEW to,
           from \in ZapSteps \cup {"t_child"}, to \in ZapSteps, LoopStep(p, from, to)
    PROVE  /\ SteadyStep(p)
           /\ List(p)' = List(p) /\ Kids(p)' = Kids(p)
           /\ LoopInv(p)' => ListInv' /\ TerminateInv'
<1>1. kstate[p] # "free"
  BY DEF LoopStep, ZapSteps, LoopSteps, HandInv, KernelInv
<1>2. SteadyStep(p)
  BY <1>1 DEF LoopStep, SteadyStep, ZapSteps, LoopSteps, Live, Linking, AfterFork,
              LaunchSteps
<1>3. Kids(p)' = Kids(p)
  BY DEF LoopStep, Kids
<1> QED BY <1>2, <1>3, SteadyLists, SteadyPeers DEF TerminateInv

(* The loop starts with the first child.                                   *)
LEMMA FirstChild ==
    ASSUME IInv, HandInv, ListInv, TerminateInv, NEW p \in Procs, ReadChild(p)
    PROVE  ListInv' /\ TerminateInv'
<1>1. LoopStep(p, "t_child", "t_unlock") /\ childToZap'[p] = child[p]
  BY DEF ReadChild, LoopStep, At, Goto, kernelVars, tableVars, IInv, TypeInv, TypeOK
<1>2. /\ List(p)' = List(p) /\ Kids(p)' = Kids(p)
      /\ LoopInv(p)' => ListInv' /\ TerminateInv'
  BY <1>1, LoopStepSteady DEF ZapSteps
<1>3. kpid' = kpid /\ nextSibling' = nextSibling
  BY <1>1 DEF LoopStep
<1>4. \A c \in List(p) : kpid[c] \in Nat /\ c \in Kids(p)
  BY ListFacts DEF List
<1>5. CASE child[p] = NULL
  <2>1. List(p) = {}
    BY <1>4, <1>5 DEF ListInv, PointsPast
  <2> QED BY <1>1, <1>2, <1>5, <2>1
          DEF LoopInv, LoopStep, ZapSteps, LoopSteps, LeaveSteps
<1>6. CASE child[p] # NULL
  <2>1. /\ child[p] \in List(p)
        /\ \A l \in List(p) : kpid[child[p]] <= kpid[l]
    BY <1>4, <1>6 DEF ListInv, PointsPast
  <2>2. \A d \in List(p) : nextSibling[d] \in List(p) \cup {NULL}
    BY DEF ListInv, PointsPast
  <2>3. \A d, l \in List(p) :
            kpid[l] > kpid[d] =>
                nextSibling[d] # NULL /\ kpid[nextSibling[d]] <= kpid[l]
    BY <1>4 DEF ListInv, PointsPast
  <2>4. Reach(p, List(p))'
    BY <1>1, <1>2, <1>3, <2>1, <2>2, <2>3 DEF Reach
  <2>5. Ahead(p)'
    <3>1. List(p)' \in SUBSET Kids(p)'
      BY <1>2, <1>4
    <3>2. \A l \in List(p)' : kpid'[childToZap'[p]] <= kpid'[l]
      BY <1>1, <1>2, <1>3, <2>1
    <3> QED BY <2>4, <3>1, <3>2 DEF Ahead
  <2> QED BY <1>1, <1>2, <1>6, <2>5
          DEF LoopInv, LoopStep, ZapSteps, LoopSteps, LeaveSteps
<1> QED BY <1>5, <1>6

(* The pid in the entry of the child is the child's.                       *)
LEMMA ChildsPid ==
    ASSUME IInv, HandInv, ListInv, TerminateInv, NEW p \in Procs, ReadPid(p)
    PROVE  ListInv' /\ TerminateInv'
<1>1. /\ LoopStep(p, "z_pid", "z_unlock") /\ childToZap'[p] = childToZap[p]
      /\ pidToZap'[p] = pid[childToZap[p]]
  BY DEF ReadPid, LoopStep, At, Goto, kernelVars, tableVars, IInv, TypeInv, TypeOK
<1>2. /\ List(p)' = List(p) /\ Kids(p)' = Kids(p)
      /\ LoopInv(p)' => ListInv' /\ TerminateInv'
  BY <1>1, LoopStepSteady DEF ZapSteps, LoopSteps
<1>3. Ahead(p) /\ childToZap[p] # NULL
  BY <1>1 DEF LoopStep, TerminateInv, LoopInv, ZapSteps, LoopSteps, IInv, TypeInv, ZapInv
<1>4. Ahead(p)'
  BY <1>1, <1>2, <1>3, StillAhead DEF LoopStep
<1>5. pid[childToZap[p]] = kpid[childToZap[p]]
  <2>1. PICK c \in Procs : /\ c = childToZap[p] /\ kparent[c] = p
                           /\ kstate[c] # "free"
    BY <1>3 DEF Ahead, Reach, Kids
  <2>2. ~Spawning(c) /\ p # NULL
    BY <1>1, <2>1, UserProcsAssumption DEF LoopStep, Spawning, AfterFork, NULL
  <2> QED BY <2>1, <2>2 DEF HandInv, EntryInv
<1> QED BY <1>1, <1>2, <1>3, <1>4, <1>5
        DEF LoopInv, LoopStep, ZapSteps, LoopSteps, LeaveSteps

(* In the loop, the process to zap is a child that exists.                 *)
LEMMA ZapsKid ==
    ASSUME IInv, HandInv, TerminateInv, NEW p \in Procs,
           pc[p] \in {"z_zap", "z_wait"}
    PROVE  /\ childToZap[p] \in Kids(p) /\ Ahead(p)
           /\ pidToZap[p] \in Nat /\ Slot(pidToZap[p]) = childToZap[p]
           /\ pidToZap[p] = kpid[childToZap[p]]
           /\ IsLive(pidToZap[p]) \/ HasQuit(pidToZap[p])
           /\ ~IsLive(pidToZap[p]) => childToZap[p] \notin List(p)
<1>1. Ahead(p) /\ pidToZap[p] = kpid[childToZap[p]]
  BY DEF TerminateInv, LoopInv, ZapSteps, LoopSteps, IInv, TypeInv, ZapInv
<1>2. PICK c \in Procs : /\ c = childToZap[p] /\ c \in Kids(p) /\ kstate[c] # "free"
  BY <1>1 DEF Ahead, Reach, Kids
<1>3. kpid[c] \in Nat /\ Slot(kpid[c]) = c /\ kstate[c] \in {"active", "quit"}
  BY <1>2 DEF HandInv, KernelInv, IInv, TypeInv, TypeOK
<1>4. IsLive(kpid[c]) <=> kstate[c] = "active"
  BY <1>3 DEF IsLive
<1>5. IsLive(kpid[c]) \/ HasQuit(kpid[c])
  BY <1>3 DEF IsLive, HasQuit
<1>6. c \in List(p) => kstate[c] = "active"
  BY ListFacts
<1> QED BY <1>1, <1>2, <1>3, <1>4, <1>5, <1>6

LEMMA ZapLists ==
    ASSUME IInv, HandInv, ListInv, TerminateInv, NEW p \in Procs,
           zap(p) \/ zapReturn(p)
    PROVE  ListInv' /\ TerminateInv'
<1>1. /\ pc[p] \in {"z_zap", "z_wait"}
      /\ LoopStep(p, pc[p], IF IsLive(pidToZap[p]) THEN "z_wait" ELSE "n_lock")
      /\ childToZap'[p] = childToZap[p] /\ pidToZap'[p] = pidToZap[p]
  BY DEF zap, zapReturn, LoopStep, At, Goto, kernelVars, tableVars, localVars,
         IInv, TypeInv, TypeOK
<1>2. PICK to \in {"z_wait", "n_lock"} :
        /\ LoopStep(p, pc[p], to)
        /\ to = "n_lock" => ~IsLive(pidToZap[p])
  BY <1>1
<1>3. /\ List(p)' = List(p) /\ Kids(p)' = Kids(p)
      /\ LoopInv(p)' => ListInv' /\ TerminateInv'
  BY <1>1, <1>2, LoopStepSteady DEF ZapSteps, LoopSteps
<1>4. /\ childToZap[p] \in Kids(p) /\ Ahead(p)
      /\ pidToZap[p] = kpid[childToZap[p]]
      /\ ~IsLive(pidToZap[p]) => childToZap[p] \notin List(p)
  BY <1>1, ZapsKid
<1>5. Ahead(p)'
  BY <1>1, <1>2, <1>3, <1>4, StillAhead DEF LoopStep
<1>6. childToZap[p] # NULL
  BY <1>4, UserProcsAssumption DEF Kids, NULL
<1> QED BY <1>1, <1>2, <1>3, <1>4, <1>5, <1>6
        DEF LoopInv, LoopStep, ZapSteps, LoopSteps, LeaveSteps

(* The next sibling of a child that has left the list: no process that is  *)
(* in the list is before it.                                               *)
LEMMA NextSibling ==
    ASSUME IInv, HandInv, ListInv, TerminateInv, NEW p \in Procs, ReadSibling(p)
    PROVE  ListInv' /\ TerminateInv'
<1>1. /\ LoopStep(p, "n_next", "n_unlock")
      /\ childToZap'[p] = nextSibling[childToZap[p]]
  BY DEF ReadSibling, LoopStep, At, Goto, kernelVars, tableVars, IInv, TypeInv, TypeOK
<1>2. /\ List(p)' = List(p) /\ Kids(p)' = Kids(p)
      /\ LoopInv(p)' => ListInv' /\ TerminateInv'
  BY <1>1, LoopStepSteady DEF ZapSteps, LoopSteps
<1>3. kpid' = kpid /\ nextSibling' = nextSibling
  BY <1>1 DEF LoopStep
<1>4. Ahead(p) /\ childToZap[p] \notin List(p)
  BY <1>1 DEF LoopStep, TerminateInv, LoopInv, ZapSteps, LoopSteps, IInv, TypeInv, ZapInv
<1>5. PICK S \in SUBSET Kids(p) : Reach(p, S)
  BY <1>4 DEF Ahead
<1>6. PICK c \in S : c = childToZap[p] /\ c \in Kids(p) /\ c \notin List(p)
  BY <1>4, <1>5 DEF Reach
<1>7. \A l \in List(p) : kpid[l] > kpid[c]
  <2>1. \A d \in Kids(p) : kpid[d] \in Nat /\ Slot(kpid[d]) = d
    BY DEF Kids, HandInv, KernelInv
  <2>2. \A l \in List(p) : l \in Kids(p) /\ kpid[c] <= kpid[l] /\ l # c
    BY <1>4, <1>6 DEF Ahead, List
  <2> QED BY <1>6, <2>1, <2>2
<1>8. /\ nextSibling[c] \in S \cup {NULL}
      /\ \A l \in List(p) : nextSibling[c] # NULL /\ kpid[nextSibling[c]] <= kpid[l]
  BY <1>5, <1>7 DEF Reach
<1>9. CASE nextSibling[c] = NULL
  <2>1. List(p) = {}
    BY <1>8, <1>9
  <2> QED BY <1>1, <1>2, <1>6, <1>9, <2>1
          DEF LoopInv, LoopStep, ZapSteps, LoopSteps, LeaveSteps
<1>10. CASE nextSibling[c] # NULL
  <2>1. Reach(p, S)'
    BY <1>1, <1>2, <1>3, <1>5, <1>6, <1>8, <1>10 DEF Reach
  <2>2. Ahead(p)'
    BY <1>1, <1>2, <1>3, <1>6, <1>8, <2>1 DEF Ahead
  <2> QED BY <1>1, <1>2, <1>6, <1>10, <2>2
          DEF LoopInv, LoopStep, ZapSteps, LoopSteps, LeaveSteps
<1> QED BY <1>9, <1>10

----------------------------------------------------------------------------
(* A process is created, enters the list of its parent, and leaves it.     *)

LEMMA ForkLists ==
    ASSUME IInv, HandInv, ListInv, TerminateInv, NEW p \in Procs, NEW c \in Procs,
           NEW id \in Nat, ForkedStep(p, c, id)
    PROVE  ListInv' /\ TerminateInv'
<1>1. /\ pc[p] = "s_fork" /\ kstate[p] # "free" /\ pc[c] = "none" /\ c # p
      /\ kstate[c] = "free"
  <2>1. pc[p] = "s_fork" /\ kstate[c] = "free"
    BY DEF ForkedStep, At
  <2> QED BY <2>1 DEF HandInv, KernelInv
<1>2. /\ pc'[p] = "s_lock" /\ pc'[c] = "l_receive"
      /\ kstate'[c] = "active" /\ kpid'[c] = id /\ kparent'[c] = p /\ newPid'[p] = id
      /\ id \in Nat /\ id >= nextPid
      /\ \A q \in Procs \ {p, c} : pc'[q] = pc[q]
      /\ \A q \in Procs \ {p} : newPid'[q] = newPid[q]
      /\ \A q \in Procs \ {c} :
            kstate'[q] = kstate[q] /\ kpid'[q] = kpid[q] /\ kparent'[q] = kparent[q]
      /\ UNCHANGED <<child, nextSibling>>
      /\ childToZap' = childToZap /\ pidToZap' = pidToZap
  BY <1>1 DEF ForkedStep, tableVars, IInv, TypeInv, TypeOK
<1>3. \A q \in Procs : kstate[q] # "free" => kpid[q] \in Nat /\ kpid[q] < id
  BY <1>2 DEF HandInv, KernelInv, IInv, TypeInv, TypeOK
<1>4. /\ \A q \in Procs \ {p} : Kids(q)' = Kids(q)
      /\ Kids(p)' = Kids(p) \cup {c} /\ Kids(c) = {}
      /\ \A q \in Procs : c \notin Kids(q)
  <2>1. \A q \in Procs : c \notin Kids(q)
    BY <1>1 DEF Kids
  <2>2. Kids(c) = {}
    BY <1>1, UserProcsAssumption DEF Kids, NULL, HandInv, KernelInv
  <2> QED BY <1>1, <1>2, <2>1, <2>2 DEF Kids
<1>5. \A q \in Procs : List(q)' = List(q)
  <2> SUFFICES ASSUME NEW q \in Procs PROVE List(q)' = List(q)
    OBVIOUS
  <2>1. ASSUME NEW d \in Kids(q) PROVE Listed(d)' <=> Listed(d)
    <3>1. d \in Procs \ {c} /\ kparent[d] = q /\ kparent'[d] = q /\ kstate'[d] = kstate[d]
          /\ kpid'[d] = kpid[d] /\ kpid[d] < id
      BY <1>2, <1>3, <1>4 DEF Kids
    <3>2. pc'[d] \in {"r_unlock", "t_quit"} <=> pc[d] \in {"r_unlock", "t_quit"}
      BY <1>1, <1>2, <3>1
    <3>3. CASE q = p
      BY <1>1, <1>2, <3>1, <3>2, <3>3 DEF Listed
    <3>4. CASE q # p
      <4>1. q # c
        BY <1>4
      <4> QED BY <1>2, <3>1, <3>2, <3>4, <4>1 DEF Listed
    <3> QED BY <3>3, <3>4
  <2>2. q = p => ~Listed(c)'
    BY <1>1, <1>2 DEF Listed
  <2> QED BY <1>4, <2>1, <2>2 DEF List
<1>6. \A q \in Procs : \A d \in List(q) : d \in Procs \ {c} /\ kpid'[d] = kpid[d]
  BY <1>2, <1>4 DEF List, Kids
<1>7. {"s_fork", "none", "l_receive"} \cap AfterFork = {}
  BY DEF AfterFork
<1>8. ListInv'
  <2>1. ASSUME NEW q \in Procs
        PROVE  /\ PointsPast(q, -1, child[q])'
               /\ \A d \in List(q)' : PointsPast(q, kpid[d], nextSibling[d])'
    BY <1>2, <1>5, <1>6 DEF ListInv, PointsPast
  <2>2. ASSUME NEW q \in Procs, pc'[q] = "s_link"
        PROVE  nextSibling'[Slot(newPid[q])'] = NULL
    <3>1. q \in Procs \ {p, c}
      BY <1>2, <2>2
    <3> QED BY <1>2, <2>2, <3>1 DEF ListInv
  <2>3. ASSUME NEW q \in Procs, pc'[q] \in AfterFork, NEW d \in Kids(q)'
        PROVE  kpid'[d] <= newPid'[q]
    <3>1. CASE q = p
      BY <1>2, <1>3, <1>4, <3>1 DEF Kids
    <3>2. CASE q # p
      <4>1. q # c /\ pc[q] \in AfterFork /\ newPid'[q] = newPid[q]
        BY <1>2, <1>7, <2>3, <3>2
      <4>2. d \in Kids(q) /\ d \in Procs \ {c}
        BY <1>4, <2>3, <3>2 DEF Kids
      <4> QED BY <1>2, <4>1, <4>2 DEF ListInv
    <3> QED BY <3>1, <3>2
  <2>4. ASSUME NEW q \in Procs, pc'[q] \in LaunchSteps PROVE Kids(q)' = {}
    <3>1. q # p
      BY <1>2, <2>4 DEF LaunchSteps
    <3> QED BY <1>2, <1>4, <2>4, <3>1 DEF ListInv
  <2> QED BY <2>1, <2>2, <2>3, <2>4 DEF ListInv
<1>9. TerminateInv'
  <2> SUFFICES ASSUME NEW q \in Procs PROVE LoopInv(q)'
    BY DEF TerminateInv
  <2>1. CASE q \in {p, c}
    BY <1>2, <2>1 DEF LoopInv, ZapSteps, LoopSteps, LeaveSteps
  <2>2. CASE q \notin {p, c}
    <3>1. \A d \in Kids(q) : kpid'[d] = kpid[d]
      BY <1>2, <1>4 DEF Kids
    <3> QED BY <1>2, <1>4, <1>5, <2>2, <3>1, StillInLoop DEF TerminateInv
  <2> QED BY <2>1, <2>2
<1> QED BY <1>8, <1>9

(* The entry of the newborn child: neither in a list, nor with one.        *)
LEMMA InitLists ==
    ASSUME IInv, HandInv, ListInv, TerminateInv, NEW p \in Procs, SpawnInit(p)
    PROVE  ListInv' /\ TerminateInv'
<1>1. /\ pc[p] = "s_init" /\ pc'[p] = "s_link"
      /\ \A q \in Procs \ {p} : pc'[q] = pc[q]
      /\ UNCHANGED <<kstate, kpid, kparent, newPid, childToZap, pidToZap>>
  BY DEF SpawnInit, At, Goto, kernelVars, localVars, IInv, TypeInv, TypeOK
<1>2. PICK c \in Procs : c = Slot(newPid[p]) /\ newPid[p] \in Nat /\ ChildOf(p, c)
  BY <1>1, SlotLemma DEF AfterFork, HandInv, ForkInv
<1>3. /\ child' = [child EXCEPT ![c] = NULL]
      /\ nextSibling' = [nextSibling EXCEPT ![c] = NULL]
      /\ child'[c] = NULL /\ nextSibling'[c] = NULL
      /\ \A d \in Procs \ {c} : child'[d] = child[d] /\ nextSibling'[d] = nextSibling[d]
  BY <1>2 DEF SpawnInit, IInv, TypeInv, TypeOK
<1>4. \A q \in Procs : Kids(q)' = Kids(q) /\ List(q)' = List(q)
  BY <1>1 DEF List, Kids, Listed, IInv, TypeInv, TypeOK
<1>5. /\ Kids(c) = {} /\ List(c) = {} /\ \A q \in Procs : c \notin List(q)
      /\ kparent[c] = p
  BY <1>1, <1>2 DEF ChildOf, ListInv, LaunchSteps, List, Kids, Listed
<1>6. ListInv'
  <2>1. ASSUME NEW q \in Procs
        PROVE  /\ PointsPast(q, -1, child[q])'
               /\ \A d \in List(q)' : PointsPast(q, kpid[d], nextSibling[d])'
    <3>1. PointsPast(q, -1, child[q])'
      BY <1>1, <1>3, <1>4, <1>5 DEF ListInv, PointsPast
    <3>2. \A d \in List(q) : d \in Procs \ {c}
      BY <1>5 DEF List, Kids
    <3>3. \A d \in List(q)' : PointsPast(q, kpid[d], nextSibling[d])'
      BY <1>1, <1>3, <1>4, <3>2 DEF ListInv, PointsPast
    <3> QED BY <3>1, <3>3
  <2>2. ASSUME NEW q \in Procs, pc'[q] = "s_link"
        PROVE  nextSibling'[Slot(newPid[q])'] = NULL
    <3>1. CASE q = p
      BY <1>1, <1>2, <1>3, <3>1
    <3>2. CASE q # p
      <4>1. pc[q] = "s_link" /\ nextSibling[Slot(newPid[q])] = NULL
        BY <1>1, <2>2, <3>2 DEF ListInv
      <4>2. Slot(newPid[q]) \in Procs
        BY <4>1, SlotLemma DEF AfterFork, HandInv, ForkInv
      <4> QED BY <1>1, <1>3, <4>1, <4>2
    <3> QED BY <3>1, <3>2
  <2>3. \A q \in Procs : /\ pc'[q] \in AfterFork => pc[q] \in AfterFork
                         /\ pc'[q] \in LaunchSteps => pc[q] \in LaunchSteps
    BY <1>1 DEF AfterFork, LaunchSteps
  <2> QED BY <1>1, <1>4, <2>1, <2>2, <2>3 DEF ListInv
<1>7. TerminateInv'
  <2> SUFFICES ASSUME NEW q \in Procs PROVE LoopInv(q)'
    BY DEF TerminateInv
  <2>1. CASE q = p
    BY <1>1, <2>1 DEF LoopInv, ZapSteps, LoopSteps, LeaveSteps
  <2>2. CASE q # p
    <3>1. \A d \in Kids(q) : kpid'[d] = kpid[d] /\ nextSibling'[d] = nextSibling[d]
      BY <1>1, <1>3, <1>5, <2>2 DEF Kids
    <3> QED BY <1>1, <1>4, <2>2, <3>1, StillInLoop DEF TerminateInv
  <2> QED BY <2>1, <2>2
<1> QED BY <1>6, <1>7

(* The child is younger than all in the list: its place is at the end.     *)
LEMMA AddLists ==
    ASSUME IInv, HandInv, ListInv, TerminateInv, NEW p \in Procs, addChild(p)
    PROVE  ListInv' /\ TerminateInv'
<1>1. /\ pc[p] = "s_link" /\ pc'[p] = "s_parent"
      /\ \A q \in Procs \ {p} : pc'[q] = pc[q]
      /\ UNCHANGED <<kstate, kpid, kparent, newPid, childToZap, pidToZap>>
  BY DEF addChild, At, Goto, kernelVars, localVars, IInv, TypeInv, TypeOK
<1>2. PICK c \in Procs : c = Slot(newPid[p]) /\ newPid[p] \in Nat /\ ChildOf(p, c)
  BY <1>1, SlotLemma DEF AfterFork, HandInv, ForkInv
<1>3. /\ nextSibling[c] = NULL /\ kpid[c] = newPid[p] /\ kparent[c] = p
      /\ c \notin List(p) /\ c # NULL
      /\ \A d \in Kids(p) : kpid[d] <= kpid[c] /\ kpid[d] \in Nat /\ Slot(kpid[d]) = d
  BY <1>1, <1>2, UserProcsAssumption
     DEF ListInv, ChildOf, AfterFork, List, Kids, Listed, HandInv, KernelInv, NULL
<1>4. \A q \in Procs : Kids(q)' = Kids(q)
  BY <1>1 DEF Kids
<1>5. /\ List(p)' = List(p) \cup {c}
      /\ \A q \in Procs \ {p} : List(q)' = List(q)
  <2>1. ASSUME NEW q \in Procs \ {p} PROVE List(q)' = List(q)
    <3>1. \A d \in Kids(q) : Listed(d)' <=> Listed(d)
      BY <1>1 DEF Kids, Listed
    <3> QED BY <1>4, <3>1 DEF List
  <2>2. c \in Kids(p) /\ Listed(c)'
    BY <1>1, <1>2 DEF ChildOf, Kids, Listed
  <2>3. ASSUME NEW d \in Kids(p) \ {c} PROVE Listed(d)' <=> Listed(d)
    <3>1. kpid[d] # newPid[p] /\ d \in Procs /\ kparent[d] = p /\ kstate[d] # "free"
      BY <1>2, <1>3 DEF Kids
    <3>2. pc'[d] \in {"r_unlock", "t_quit"} <=> pc[d] \in {"r_unlock", "t_quit"}
      BY <1>1, <3>1
    <3> QED BY <1>1, <3>1, <3>2 DEF Listed
  <2> QED BY <1>4, <2>1, <2>2, <2>3 DEF List
<1>6. \A d \in List(p) : /\ d \in Procs \ {c} /\ kpid[d] \in Nat /\ kpid[d] < kpid[c]
                         /\ \A e \in List(p) : kpid[d] = kpid[e] => d = e
  <2>1. \A d \in List(p) : d \in Kids(p) /\ d # c /\ d \in Procs
    BY <1>3 DEF List, Kids
  <2>2. c \in Kids(p)
    BY <1>2 DEF ChildOf, Kids
  <2> QED BY <1>3, <2>1, <2>2
<1>7. \/ /\ child[p] = NULL /\ child' = [child EXCEPT ![p] = c]
         /\ nextSibling' = nextSibling
      \/ \E o \in List(p) : /\ nextSibling[o] = NULL /\ child' = child
                            /\ nextSibling' = [nextSibling EXCEPT ![o] = c]
  BY <1>2, ChildListLemma DEF addChild
<1>8. /\ PointsPast(p, -1, child[p])'
      /\ \A d \in List(p)' : PointsPast(p, kpid[d], nextSibling[d])'
  <2>1. CASE /\ child[p] = NULL /\ child' = [child EXCEPT ![p] = c]
             /\ nextSibling' = nextSibling
    <3>1. List(p) = {}
      BY <1>6, <2>1 DEF ListInv, PointsPast
    <3>2. List(p)' = {c} /\ child'[p] = c /\ nextSibling'[c] = NULL /\ kpid'[c] \in Nat
      BY <1>1, <1>2, <1>3, <1>5, <2>1, <3>1 DEF IInv, TypeInv, TypeOK
    <3> QED BY <1>3, <3>2 DEF PointsPast
  <2>2. ASSUME NEW o \in List(p), nextSibling[o] = NULL, child' = child,
               nextSibling' = [nextSibling EXCEPT ![o] = c]
        PROVE  /\ PointsPast(p, -1, child[p])'
               /\ \A d \in List(p)' : PointsPast(p, kpid[d], nextSibling[d])'
    <3>1. \A d \in List(p) : kpid[d] <= kpid[o]
      BY <2>2 DEF ListInv, PointsPast
    <3>2. /\ nextSibling'[o] = c /\ nextSibling'[c] = NULL
          /\ \A d \in List(p) \ {o} : nextSibling'[d] = nextSibling[d]
      BY <1>3, <1>6, <2>2 DEF IInv, TypeInv, TypeOK
    <3>3. PointsPast(p, -1, child[p])'
      <4>1. child[p] # NULL
        BY <1>6 DEF ListInv, PointsPast
      <4>2. /\ child[p] \in List(p) /\ kpid[child[p]] > -1
            /\ \A d \in List(p) : kpid[d] <= -1 \/ kpid[d] >= kpid[child[p]]
        BY <4>1 DEF ListInv, PointsPast
      <4>3. kpid[c] >= kpid[child[p]]
        BY <1>2, <1>3, <1>6, <4>2
      <4> QED BY <1>1, <1>5, <2>2, <4>1, <4>2, <4>3 DEF PointsPast
    <3>4. ASSUME NEW d \in List(p) \ {o} PROVE PointsPast(p, kpid[d], nextSibling[d])'
      <4>1. kpid[d] < kpid[o]
        BY <1>6, <3>1
      <4>2. nextSibling[d] # NULL
        BY <1>6, <4>1 DEF ListInv, PointsPast
      <4>3. /\ nextSibling[d] \in List(p) /\ kpid[nextSibling[d]] > kpid[d]
            /\ \A e \in List(p) : kpid[e] <= kpid[d] \/ kpid[e] >= kpid[nextSibling[d]]
        BY <4>2 DEF ListInv, PointsPast
      <4>4. kpid[c] >= kpid[nextSibling[d]]
        BY <1>2, <1>3, <1>6, <4>3
      <4> QED BY <1>1, <1>5, <3>2, <4>2, <4>3, <4>4 DEF PointsPast
    <3>5. PointsPast(p, kpid[o], nextSibling[o])'
      BY <1>1, <1>2, <1>3, <1>5, <1>6, <3>1, <3>2 DEF PointsPast
    <3>6. PointsPast(p, kpid[c], nextSibling[c])'
      <4>1. \A d \in List(p)' : kpid'[d] <= kpid'[c]
        BY <1>1, <1>2, <1>3, <1>5, <1>6
      <4> QED BY <3>2, <4>1 DEF PointsPast
    <3> QED BY <1>5, <3>3, <3>4, <3>5, <3>6
  <2> QED BY <1>7, <2>1, <2>2
<1>9. \A q \in Procs \ {p} :
        child'[q] = child[q] /\ \A d \in Kids(q) : nextSibling'[d] = nextSibling[d]
  <2>1. \A q \in Procs \ {p}, o \in List(p) : o \notin Kids(q)
    BY DEF List, Kids
  <2> QED BY <1>7, <2>1 DEF Kids, IInv, TypeInv, TypeOK
<1>10. ListInv'
  <2>1. ASSUME NEW q \in Procs \ {p}
        PROVE  /\ PointsPast(q, -1, child[q])'
               /\ \A d \in List(q)' : PointsPast(q, kpid[d], nextSibling[d])'
    <3>1. List(q) \subseteq Kids(q) /\ List(q)' = List(q)
      BY <1>5 DEF List
    <3> QED BY <1>1, <1>9, <3>1 DEF ListInv, PointsPast
  <2>2. ASSUME NEW q \in Procs, pc'[q] = "s_link"
        PROVE  nextSibling'[Slot(newPid[q])'] = NULL
    <3>1. q # p /\ pc[q] = "s_link" /\ newPid'[q] = newPid[q]
      BY <1>1, <2>2
    <3>2. nextSibling[Slot(newPid[q])] = NULL /\ Slot(newPid[q]) \in Kids(q)
      BY <3>1, SlotLemma DEF ListInv, HandInv, ForkInv, ChildOf, AfterFork, Kids
    <3> QED BY <1>1, <1>9, <3>1, <3>2
  <2>3. \A q \in Procs : /\ pc'[q] \in AfterFork => pc[q] \in AfterFork
                         /\ pc'[q] \in LaunchSteps => pc[q] \in LaunchSteps
    BY <1>1 DEF AfterFork, LaunchSteps
  <2> QED BY <1>1, <1>4, <1>8, <2>1, <2>2, <2>3 DEF ListInv
<1>11. TerminateInv'
  <2> SUFFICES ASSUME NEW q \in Procs PROVE LoopInv(q)'
    BY DEF TerminateInv
  <2>1. CASE q = p
    BY <1>1, <2>1 DEF LoopInv, ZapSteps, LoopSteps, LeaveSteps
  <2>2. CASE q # p
    BY <1>1, <1>4, <1>5, <1>9, <2>2, StillInLoop DEF TerminateInv
  <2> QED BY <2>1, <2>2
<1> QED BY <1>10, <1>11

(* removeChild finds the child, so it does not halt, and takes it out of   *)
(* the list.                                                               *)
LEMMA RemoveEffect ==
    ASSUME IInv, HandInv, ListInv, NEW p \in Procs, removeChild(p)
    PROVE  \E q \in Procs :
            /\ q = kparent[p] /\ p \in List(q) /\ halted' = halted
            /\ List(q)' = List(q) \ {p}
            /\ \A r \in Procs \ {q} : List(r)' = List(r)
            /\ \/ /\ child[q] = p /\ child' = [child EXCEPT ![q] = nextSibling[p]]
                  /\ nextSibling' = nextSibling
               \/ /\ child[q] # p /\ child' = child
                  /\ nextSibling' = [s \in Procs |->
                                        IF s \in List(q) /\ nextSibling[s] = p
                                        THEN nextSibling[p] ELSE nextSibling[s]]
<1>1. /\ pc[p] = "r_remove" /\ pc'[p] = "r_unlock" /\ ~halted
      /\ \A s \in Procs \ {p} : pc'[s] = pc[s]
      /\ UNCHANGED <<kstate, kpid, kparent, newPid>>
  BY DEF removeChild, At, Goto, localVars, IInv, TypeInv, TypeOK
<1>2. kparent[p] # NULL /\ kstate[p] = "active"
  BY <1>1, OrphanLemma DEF OrphanSteps, SpawnSteps, HandInv, KernelInv
<1>3. ~Spawning(p)
  BY <1>1, <1>2, SpawningChild DEF ChildOf
<1>4. PICK q \in Procs : q = kparent[p] /\ q = parent[p]
  BY <1>2, <1>3 DEF HandInv, EntryInv, IInv, TypeInv, TypeOK
<1>5. p \in List(q) /\ q # NULL
  <2>1. p \in Kids(q) /\ q # NULL
    BY <1>2, <1>4 DEF Kids
  <2>2. Listed(p)
    BY <1>1, <1>2, <1>3, <1>4 DEF Listed, Spawning, AfterFork
  <2> QED BY <2>1, <2>2 DEF List
<1>6. /\ List(q)' = List(q) \ {p}
      /\ \A r \in Procs \ {q} : List(r)' = List(r)
  <2>1. \A r \in Procs : Kids(r)' = Kids(r)
    BY <1>1 DEF Kids
  <2>2. ~Listed(p)'
    BY <1>1 DEF Listed
  <2>3. \A r \in Procs \ {q} : p \notin Kids(r)
    BY <1>4 DEF Kids
  <2>4. \A r \in Procs : pc'[r] \in {"s_lock", "s_init", "s_link"} <=>
                            pc[r] \in {"s_lock", "s_init", "s_link"}
    BY <1>1
  <2>5. \A r \in Procs : \A d \in Kids(r) \ {p} : Listed(d)' <=> Listed(d)
    BY <1>1, <2>4 DEF Listed, Kids
  <2> QED BY <2>1, <2>2, <2>3, <2>5 DEF List
<1>7. ChildList(q) = List(q)
  BY ChildListLemma
<1>8. \/ /\ child[q] = p /\ child' = [child EXCEPT ![q] = nextSibling[p]]
         /\ nextSibling' = nextSibling /\ halted' = halted
      \/ /\ child[q] # p /\ child' = child /\ halted' = FALSE
         /\ nextSibling' = [s \in Procs |->
                                IF s \in List(q) /\ nextSibling[s] = p
                                THEN nextSibling[p] ELSE nextSibling[s]]
  BY <1>4, <1>5, <1>7 DEF removeChild
<1> QED BY <1>1, <1>4, <1>5, <1>6, <1>8 DEF IInv, TypeInv, TypeOK

LEMMA RemoveLists ==
    ASSUME IInv, HandInv, ListInv, TerminateInv, NEW p \in Procs, removeChild(p)
    PROVE  ListInv' /\ TerminateInv'
<1>1. /\ pc[p] = "r_remove" /\ pc'[p] = "r_unlock"
      /\ \A s \in Procs \ {p} : pc'[s] = pc[s]
      /\ UNCHANGED <<kstate, kpid, kparent, newPid, childToZap, pidToZap>>
  BY DEF removeChild, At, Goto, localVars, IInv, TypeInv, TypeOK
<1>2. PICK q \in Procs :
        /\ q = kparent[p] /\ p \in List(q)
        /\ List(q)' = List(q) \ {p}
        /\ \A r \in Procs \ {q} : List(r)' = List(r)
        /\ \/ /\ child[q] = p /\ child' = [child EXCEPT ![q] = nextSibling[p]]
              /\ nextSibling' = nextSibling
           \/ /\ child[q] # p /\ child' = child
              /\ nextSibling' = [s \in Procs |->
                                    IF s \in List(q) /\ nextSibling[s] = p
                                    THEN nextSibling[p] ELSE nextSibling[s]]
  BY RemoveEffect
<1>3. /\ \A r \in Procs : Kids(r)' = Kids(r)
      /\ \A r \in Procs \ {q} : List(q) \cap Kids(r) = {}
      /\ List(p) = {} /\ q # p
  <2>1. List(p) = {}
    BY <1>1 DEF TerminateInv, LoopInv, LeaveSteps
  <2> QED BY <1>1, <1>2, <2>1 DEF Kids, List
<1>4. \A d \in List(q) : /\ d \in Procs /\ kpid[d] \in Nat
                         /\ kpid[d] = kpid[p] => d = p
  BY <1>2, ListFacts
<1>5. p # NULL /\ NULL \notin List(q) /\ kpid' = kpid
  BY <1>1, UserProcsAssumption, ListFacts DEF NULL
<1>6. /\ PointsPast(q, -1, child[q])
      /\ \A d \in List(q) : PointsPast(q, kpid[d], nextSibling[d])
  BY DEF ListInv
<1>7. /\ PointsPast(q, -1, child[q])'
      /\ \A d \in List(q)' : PointsPast(q, kpid[d], nextSibling[d])'
  <2>1. CASE child[q] = p
    <3>1. child'[q] = nextSibling[p] /\ nextSibling' = nextSibling
      BY <1>2, <2>1 DEF IInv, TypeInv, TypeOK
    <3>2. \A d \in List(q) \ {p} : kpid[d] > kpid[p]
      BY <1>2, <1>4, <1>5, <1>6, <2>1 DEF PointsPast
    <3>3. PointsPast(q, -1, child[q])'
      BY <1>2, <1>4, <1>5, <1>6, <3>1, <3>2 DEF PointsPast
    <3>4. ASSUME NEW d \in List(q) \ {p} PROVE PointsPast(q, kpid[d], nextSibling[d])'
      <4>1. nextSibling[d] # p
        BY <1>2, <1>4, <1>5, <1>6, <3>2 DEF PointsPast
      <4> QED BY <1>2, <1>4, <1>5, <1>6, <3>1, <4>1 DEF PointsPast
    <3> QED BY <1>2, <3>3, <3>4
  <2>2. CASE child[q] # p
    <3>1. /\ child'[q] = child[q]
          /\ \A d \in List(q) : nextSibling'[d] = IF nextSibling[d] = p
                                                  THEN nextSibling[p]
                                                  ELSE nextSibling[d]
      BY <1>2, <1>4, <2>2
    <3>2. PointsPast(q, -1, child[q])'
      BY <1>2, <1>5, <1>6, <2>2, <3>1 DEF PointsPast
    <3>3. ASSUME NEW d \in List(q) \ {p}, nextSibling[d] # p
          PROVE  PointsPast(q, kpid[d], nextSibling[d])'
      BY <1>2, <1>5, <1>6, <3>1, <3>3 DEF PointsPast
    <3>4. ASSUME NEW d \in List(q) \ {p}, nextSibling[d] = p
          PROVE  PointsPast(q, kpid[d], nextSibling[d])'
      <4>1. /\ kpid[p] > kpid[d]
            /\ \A e \in List(q) : kpid[e] <= kpid[d] \/ kpid[e] >= kpid[p]
        BY <1>5, <1>6, <3>4 DEF PointsPast
      <4>2. \A e \in List(q) \ {p} : kpid[e] <= kpid[d] \/ kpid[e] > kpid[p]
        BY <1>2, <1>4, <4>1
      <4>3. PointsPast(q, kpid[p], nextSibling[p])
        BY <1>2, <1>6
      <4>4. nextSibling[p] # p
        BY <1>2, <1>4, <1>5, <4>3 DEF PointsPast
      <4> QED BY <1>2, <1>4, <1>5, <3>1, <3>4, <4>1, <4>2, <4>3, <4>4 DEF PointsPast
    <3> QED BY <1>2, <3>2, <3>3, <3>4
  <2> QED BY <2>1, <2>2
<1>8. \A r \in Procs \ {q} :
        child'[r] = child[r] /\ \A d \in Kids(r) : nextSibling'[d] = nextSibling[d]
  BY <1>2, <1>3 DEF Kids, IInv, TypeInv, TypeOK
<1>9. ListInv'
  <2>1. ASSUME NEW r \in Procs \ {q}
        PROVE  /\ PointsPast(r, -1, child[r])'
               /\ \A d \in List(r)' : PointsPast(r, kpid[d], nextSibling[d])'
    <3>1. List(r) \subseteq Kids(r) /\ List(r)' = List(r)
      BY <1>2 DEF List
    <3> QED BY <1>5, <1>8, <3>1 DEF ListInv, PointsPast
  <2>2. ASSUME NEW r \in Procs, pc'[r] = "s_link"
        PROVE  nextSibling'[Slot(newPid[r])'] = NULL
    <3>1. r # p /\ pc[r] = "s_link" /\ newPid'[r] = newPid[r]
      BY <1>1, <2>2
    <3>2. PICK c \in Procs : c = Slot(newPid[r]) /\ ChildOf(r, c)
      BY <3>1, SlotLemma DEF HandInv, ForkInv, AfterFork
    <3>3. nextSibling[c] = NULL /\ c \notin List(q)
      BY <3>1, <3>2 DEF ListInv, ChildOf, List, Kids, Listed
    <3> QED BY <1>1, <1>2, <3>1, <3>2, <3>3
  <2>3. \A r \in Procs : /\ pc'[r] \in AfterFork => pc[r] \in AfterFork
                         /\ pc'[r] \in LaunchSteps => pc[r] \in LaunchSteps
    BY <1>1 DEF AfterFork, LaunchSteps
  <2> QED BY <1>1, <1>3, <1>7, <2>1, <2>2, <2>3 DEF ListInv
<1>10. LoopInv(p)'
  BY <1>1, <1>2, <1>3 DEF LoopInv, ZapSteps, LoopSteps
<1>11. \A r \in Procs \ {p, q} : LoopInv(r)'
  BY <1>1, <1>2, <1>3, <1>5, <1>8, StillInLoop DEF TerminateInv
<1>12. Ahead(q) => Ahead(q)'
  <2> SUFFICES ASSUME Ahead(q) PROVE Ahead(q)'
    OBVIOUS
  <2>1. PICK S \in SUBSET Kids(q) : Reach(q, S)
    BY DEF Ahead
  <2>2. /\ \A d \in S : d \in Procs /\ kpid[d] \in Nat /\ (kpid[d] = kpid[p] => d = p)
        /\ p \in S /\ List(q) \subseteq S
        /\ nextSibling[p] \in S \cup {NULL}
    <3>1. p \in Kids(q)
      BY <1>2 DEF List
    <3> QED BY <1>2, <2>1, <3>1 DEF Reach, Kids, HandInv, KernelInv
  <2>3. ASSUME NEW d \in S
        PROVE  /\ nextSibling'[d] \in S \cup {NULL}
               /\ \A l \in List(q) \ {p} :
                    kpid[l] > kpid[d] =>
                        nextSibling'[d] # NULL /\ kpid[nextSibling'[d]] <= kpid[l]
    <3>1. \/ nextSibling'[d] = nextSibling[d]
          \/ nextSibling[d] = p /\ nextSibling'[d] = nextSibling[p]
      BY <1>2, <2>2
    <3>2. /\ nextSibling[d] \in S \cup {NULL}
          /\ \A l \in List(q) :
                kpid[l] > kpid[d] =>
                    nextSibling[d] # NULL /\ kpid[nextSibling[d]] <= kpid[l]
      BY <2>1 DEF Reach
    <3>3. \A l \in List(q) \ {p} :
            kpid[l] > kpid[p] =>
                nextSibling[p] # NULL /\ kpid[nextSibling[p]] <= kpid[l]
      BY <2>1, <2>2 DEF Reach
    <3>4. \A l \in List(q) \ {p} : kpid[l] >= kpid[p] => kpid[l] > kpid[p]
      BY <2>2
    <3>5. CASE nextSibling[d] = p /\ nextSibling'[d] = nextSibling[p]
      BY <2>2, <3>2, <3>3, <3>4, <3>5
    <3> QED BY <3>1, <3>2, <3>5
  <2>4. Reach(q, S)'
    BY <1>1, <1>2, <1>5, <2>1, <2>2, <2>3 DEF Reach
  <2> QED BY <1>1, <1>2, <1>3, <1>5, <2>4 DEF Ahead
<1>13. LoopInv(q)'
  <2>1. pc'[q] = pc[q] /\ LoopInv(q)
    BY <1>1, <1>3 DEF TerminateInv
  <2> QED BY <1>1, <1>2, <1>5, <1>12, <2>1 DEF LoopInv
<1> QED BY <1>9, <1>10, <1>11, <1>13 DEF TerminateInv

----------------------------------------------------------------------------
LEMMA StartLists == Init => ListInv /\ TerminateInv
<1> SUFFICES ASSUME Init PROVE ListInv /\ TerminateInv
  OBVIOUS
<1>1. \A p \in Procs : Kids(p) = {}
  BY UserProcsAssumption DEF Init, ProcInit, Kids, NULL
<1>2. /\ \A p \in Procs : child[p] = NULL /\ List(p) = {}
      /\ \A p \in Procs : pc[p] \in {"s_create", "none"}
  BY <1>1 DEF Init, ProcInit, List
<1>3. ListInv
  BY <1>1, <1>2 DEF ListInv, PointsPast, AfterFork
<1>4. TerminateInv
  BY <1>2 DEF TerminateInv, LoopInv, ZapSteps, LoopSteps, LeaveSteps
<1> QED BY <1>3, <1>4

(* A process is younger than its parent, and only the processes that were  *)
(* there from the start have none.                                         *)
PidInv ==
    \A p \in Procs :
        kstate[p] # "free" =>
            IF kparent[p] = NULL THEN p \in 1 .. Start2
            ELSE kpid[kparent[p]] < kpid[p]

LEMMA StartPids == Init => PidInv
BY UserProcsAssumption DEF Init, ProcInit, PidInv

LEMMA ForkPids ==
    ASSUME IInv, HandInv, PidInv, NEW p \in Procs, NEW c \in Procs, NEW id \in Nat,
           ForkedStep(p, c, id)
    PROVE  PidInv'
<1>1. /\ kstate[p] # "free" /\ kstate[c] = "free" /\ pc[c] = "none" /\ c # p
  BY DEF ForkedStep, At, HandInv, KernelInv
<1>2. /\ kstate'[c] = "active" /\ kpid'[c] = id /\ kparent'[c] = p /\ id >= nextPid
      /\ \A q \in Procs \ {c} :
            kstate'[q] = kstate[q] /\ kpid'[q] = kpid[q] /\ kparent'[q] = kparent[q]
  BY <1>1 DEF ForkedStep, IInv, TypeInv, TypeOK
<1>3. kpid[p] < id /\ p # NULL
  BY <1>1, <1>2, UserProcsAssumption DEF HandInv, KernelInv, IInv, TypeInv, TypeOK, NULL
<1>4. ASSUME NEW q \in Procs, kstate'[q] # "free"
      PROVE  IF kparent'[q] = NULL THEN q \in 1 .. Start2
             ELSE kpid'[kparent'[q]] < kpid'[q]
  <2>1. CASE q = c
    BY <1>1, <1>2, <1>3, <2>1
  <2>2. CASE q # c
    <3>1. kstate[q] # "free" /\ kparent'[q] = kparent[q] /\ kpid'[q] = kpid[q]
      BY <1>2, <1>4, <2>2
    <3>2. kparent[q] # NULL => kparent[q] \in Procs \ {c}
      BY <1>1, <3>1 DEF HandInv, KernelInv, IInv, TypeInv, TypeOK
    <3> QED BY <1>2, <3>1, <3>2 DEF PidInv
  <2> QED BY <2>1, <2>2
<1> QED BY <1>4 DEF PidInv

LEMMA NextPids == IInv /\ HandInv /\ PidInv /\ [Next]_vars => PidInv'
<1> SUFFICES ASSUME IInv, HandInv, PidInv, [Next]_vars PROVE PidInv'
  OBVIOUS
<1>1. ASSUME UNCHANGED <<kpid, kparent>>,
             \A q \in Procs : kstate'[q] # "free" => kstate[q] # "free"
      PROVE  PidInv'
  BY <1>1 DEF PidInv
<1>2. CASE UNCHANGED vars
  BY <1>1, <1>2 DEF vars, kernelVars
<1>3. CASE Next
  <2>1. PICK p \in Procs :
            HandlerStep(p) \/ spawn(p) \/ waitHandler(p) \/ terminate(p) \/ otherCall(p)
    BY <1>3 DEF Next
  <2>2. CASE \/ Lock(p) \/ Unlock(p) \/ Return(p)
             \/ SpawnCreate(p) \/ SpawnRelease(p) \/ SpawnInit(p) \/ addChild(p)
             \/ SpawnParent(p) \/ SpawnSend(p)
             \/ LaunchReceive(p) \/ LaunchRelease(p) \/ LaunchRead(p)
    BY <1>1, <2>2
       DEF Lock, Unlock, Return, SpawnCreate, SpawnRelease, SpawnInit, addChild,
           SpawnParent, SpawnSend, LaunchReceive, LaunchRelease, LaunchRead, kernelVars
  <2>3. CASE \/ ReadChild(p) \/ ReadPid(p) \/ zap(p) \/ zapReturn(p) \/ ReadSibling(p)
             \/ removeChild(p)
             \/ spawn(p) \/ waitHandler(p) \/ terminate(p) \/ otherCall(p)
    BY <1>1, <2>3
       DEF ReadChild, ReadPid, zap, zapReturn, ReadSibling, removeChild, spawn,
           waitHandler, terminate, otherCall, Call, kernelVars
  <2>4. CASE SpawnFork(p)
    <3>1. ForkFails(p) => PidInv'
      BY <1>1 DEF ForkFails
    <3> QED BY <2>4, <3>1, ForkLemma, ForkPids
  <2>5. CASE waitReal(p)
    BY <1>1, <2>5 DEF waitReal, IInv, TypeInv, TypeOK
  <2>6. CASE quit(p)
    <3>1. kstate[p] # "free"
      BY <2>6 DEF quit, At, HandInv, KernelInv
    <3> QED BY <1>1, <2>6, <3>1 DEF quit
  <2> QED BY <2>1, <2>2, <2>3, <2>4, <2>5, <2>6 DEF HandlerStep
<1> QED BY <1>2, <1>3

----------------------------------------------------------------------------
\* All of the inductive invariant.
UserInv == IInv /\ HandInv /\ ListInv /\ TerminateInv /\ PidInv

LEMMA NextLists == UserInv /\ [Next]_vars => ListInv' /\ TerminateInv'
<1> SUFFICES ASSUME UserInv, [Next]_vars PROVE ListInv' /\ TerminateInv'
  OBVIOUS
<1> USE DEF UserInv
<1>1. CASE UNCHANGED vars
  <2> USE <1>1 DEF vars, kernelVars, tableVars, localVars
  <2>1. \A q \in Procs : List(q)' = List(q) /\ Kids(q)' = Kids(q)
    BY DEF List, Kids, Listed
  <2>2. ListInv'
    BY <2>1 DEF ListInv, PointsPast
  <2>3. TerminateInv'
    BY <2>1, StillInLoop DEF TerminateInv
  <2> QED BY <2>2, <2>3
<1>2. CASE Next
  <2>1. PICK p \in Procs :
            HandlerStep(p) \/ spawn(p) \/ waitHandler(p) \/ terminate(p) \/ otherCall(p)
    BY <1>2 DEF Next
  <2>2. CASE Lock(p) \/ Unlock(p) \/ Return(p) \/ waitReal(p) \/ quit(p)
    BY <2>2, LockLists, ReturnLists, WaitLists, QuitLists
  <2>3. CASE \/ SpawnCreate(p) \/ SpawnRelease(p) \/ SpawnParent(p) \/ SpawnSend(p)
             \/ LaunchReceive(p) \/ LaunchRelease(p) \/ LaunchRead(p)
             \/ spawn(p) \/ waitHandler(p) \/ terminate(p) \/ otherCall(p)
    BY <2>3, HandlerLists
  <2>4. CASE SpawnFork(p)
    <3>1. ForkFails(p) => ListInv' /\ TerminateInv'
      BY HandlerLists
    <3> QED BY <2>4, <3>1, ForkLemma, ForkLists
  <2>5. CASE SpawnInit(p) \/ addChild(p) \/ removeChild(p)
    BY <2>5, InitLists, AddLists, RemoveLists
  <2>6. CASE ReadChild(p) \/ ReadPid(p) \/ zap(p) \/ zapReturn(p) \/ ReadSibling(p)
    BY <2>6, FirstChild, ChildsPid, ZapLists, NextSibling
  <2> QED BY <2>1, <2>2, <2>3, <2>4, <2>5, <2>6 DEF HandlerStep
<1> QED BY <1>1, <1>2

LEMMA UserInvAlways ==
    ASSUME EnoughMailboxes
    PROVE  Spec => []UserInv
<1>1. Init => UserInv
  BY InitTypes, InitLock, InitHand, StartLists, StartPids DEF IInv, UserInv
<1>2. UserInv /\ [Next]_vars => UserInv'
  BY NextInv, NextHand, NextLists, NextPids DEF UserInv
<1> QED BY <1>1, <1>2, PTL DEF Spec

(* The list that starts at child[p] in ProcTable holds the children of p   *)
(* that have not come to quit(), all of them and nobody else, whichever    *)
(* processes have had their slots before (addChild and removeChild,        *)
(* src/phase3utility.c).                                                   *)
THEOREM ListsMatch ==
    ASSUME EnoughMailboxes
    PROVE  Spec => []ChildListsMatch
<1>1. UserInv => ChildListsMatch
  BY ChildListLemma DEF UserInv, ChildListsMatch, List
<1> QED BY <1>1, UserInvAlways, PTL

(* terminateReal calls zap with the pid of a child of its own that is      *)
(* active or has quit, though it has released ProcTableMutex since it read *)
(* the pid: no child's slot is free before its parent quits.               *)
THEOREM ZapsChildren ==
    ASSUME EnoughMailboxes
    PROVE  Spec => []ZapsOwnChildren
<1>1. UserInv => ZapsOwnChildren
  <2> SUFFICES ASSUME UserInv, NEW p \in Procs, pc[p] = "z_zap"
               PROVE  /\ IsLive(pidToZap[p]) \/ HasQuit(pidToZap[p])
                      /\ kparent[Slot(pidToZap[p])] = p
    BY DEF ZapsOwnChildren
  <2> QED BY ZapsKid DEF UserInv, Kids
<1> QED BY <1>1, UserInvAlways, PTL

(* A process that comes to quit() has no child that is still in the list:  *)
(* terminateReal, which walks the list while the children that it zaps     *)
(* take themselves out, passes over none.                                  *)
THEOREM ChildrenQuitFirst ==
    ASSUME EnoughMailboxes
    PROVE  Spec => []ChildrenFirst
<1>1. UserInv => ChildrenFirst
  <2> SUFFICES ASSUME UserInv, NEW p \in Procs, pc[p] = "t_quit", NEW c \in ActiveKids(p)
               PROVE  pc[c] \in {"r_unlock", "t_quit"}
    BY DEF ChildrenFirst
  <2>1. List(p) = {}
    BY DEF UserInv, TerminateInv, LoopInv, LeaveSteps
  <2>2. c \in Kids(p) /\ kstate[c] = "active" /\ kparent[c] = p
    BY DEF ActiveKids, Kids
  <2> QED BY <2>1, <2>2 DEF List, Listed
<1> QED BY <1>1, UserInvAlways, PTL

(* Neither removeChild, which would look for a process in an empty list,   *)
(* nor zap, which would not find its process, ever halts the system: only  *)
(* fork1 and quit do.                                                      *)
THEOREM OnlyForkOrQuitHalts ==
    ASSUME EnoughMailboxes
    PROVE  Spec => HaltsOnlyInForkOrQuit
<1>1. UserInv /\ [Next]_vars =>
        [halted' # halted => \E p \in Procs : SpawnFork(p) \/ quit(p)]_vars
  <2> SUFFICES ASSUME UserInv, Next, halted' # halted
               PROVE  \E p \in Procs : SpawnFork(p) \/ quit(p)
    BY DEF vars, kernelVars
  <2>1. PICK p \in Procs :
            HandlerStep(p) \/ spawn(p) \/ waitHandler(p) \/ terminate(p) \/ otherCall(p)
    BY DEF Next
  <2>2. ~removeChild(p)
    BY RemoveEffect DEF UserInv
  <2>3. ~zap(p)
    <3> SUFFICES ASSUME zap(p) PROVE FALSE
      OBVIOUS
    <3>1. pc[p] = "z_zap" /\ ~halted
      BY DEF zap, At
    <3>2. IsLive(pidToZap[p]) \/ HasQuit(pidToZap[p])
      BY <3>1, ZapsKid DEF UserInv
    <3>3. halted' = FALSE
      BY <3>2, Zenon DEF zap
    <3>4. halted = FALSE
      BY <3>1 DEF UserInv, IInv, TypeInv, TypeOK
    <3> QED BY <3>3, <3>4
  <2>4. CASE \/ Lock(p) \/ Unlock(p) \/ Return(p) \/ waitReal(p)
             \/ LaunchReceive(p) \/ LaunchRelease(p) \/ LaunchRead(p)
             \/ ReadChild(p) \/ ReadPid(p) \/ zapReturn(p) \/ ReadSibling(p)
    BY <2>4 DEF Lock, Unlock, Return, waitReal, LaunchReceive, LaunchRelease, LaunchRead,
                ReadChild, ReadPid, zapReturn, ReadSibling, kernelVars
  <2>5. CASE \/ SpawnCreate(p) \/ SpawnRelease(p) \/ SpawnInit(p) \/ addChild(p)
             \/ SpawnParent(p) \/ SpawnSend(p)
             \/ spawn(p) \/ waitHandler(p) \/ terminate(p) \/ otherCall(p)
    BY <2>5 DEF SpawnCreate, SpawnRelease, SpawnInit, addChild, SpawnParent, SpawnSend,
                spawn, waitHandler, terminate, otherCall, Call, kernelVars
  <2> QED BY <2>1, <2>2, <2>3, <2>4, <2>5 DEF HandlerStep
<1> QED BY <1>1, UserInvAlways, PTL DEF Spec, HaltsOnlyInForkOrQuit

(* start2 quits last: the oldest of the processes that have not quit would  *)
(* have a parent that is older still.                                      *)
LEMMA AllQuit ==
    ASSUME UserInv, kstate[Start2] = "quit"
    PROVE  \A p \in Procs : pc[p] = "none"
<1> DEFINE alive == {p \in Procs : pc[p] # "none"}
<1>1. \A p \in alive : /\ kstate[p] = "active" /\ kpid[p] \in Nat
                       /\ kparent[p] \in alive /\ kpid[kparent[p]] < kpid[p]
  <2> SUFFICES ASSUME NEW p \in alive
               PROVE  /\ kstate[p] = "active" /\ kpid[p] \in Nat
                      /\ kparent[p] \in alive /\ kpid[kparent[p]] < kpid[p]
    OBVIOUS
  <2>1. kstate[p] = "active" /\ kpid[p] \in Nat
    BY DEF UserInv, HandInv, KernelInv
  <2>2. p # Start2
    BY <2>1
  <2>3. kparent[p] # NULL
    BY <2>2 DEF UserInv, HandInv, KernelInv
  <2>4. kparent[p] \in Procs /\ pc[kparent[p]] # "none"
    BY <2>1, <2>3 DEF UserInv, HandInv, KernelInv, IInv, TypeInv, TypeOK
  <2> QED BY <2>1, <2>3, <2>4 DEF UserInv, PidInv
<1>2. SUFFICES ASSUME alive # {} PROVE FALSE
  OBVIOUS
<1>3. {kpid[p] : p \in alive} \subseteq Nat /\ {kpid[p] : p \in alive} # {}
  BY <1>1, <1>2
<1>4. PICK n \in {kpid[p] : p \in alive} : \A m \in {kpid[p] : p \in alive} : n <= m
  <2> HIDE DEF alive
  <2> QED BY <1>3, LeastNat
<1>5. PICK p \in alive : n = kpid[p]
  BY <1>4
<1>6. n <= kpid[kparent[p]] /\ kpid[kparent[p]] < n
  BY <1>1, <1>4, <1>5
<1>7. kpid[kparent[p]] \in Nat /\ n \in Nat
  BY <1>1, <1>5
<1> QED BY <1>6, <1>7

LEMMA NothingLeftHolds == UserInv => NothingLeft
<1> SUFFICES ASSUME UserInv, kstate[Start2] = "quit"
             PROVE  /\ \A p \in Procs : kstate[p] = "active" => p \in 1 .. Start2 - 1
                    /\ {b \in Boxes : mbox[b].open} = {ProcTableMutex}
                    /\ child[Start2] = NULL
  BY DEF NothingLeft
<1>1. \A p \in Procs : pc[p] = "none"
  BY AllQuit
<1>2. ASSUME NEW p \in Procs, kstate[p] = "active" PROVE p \in 1 .. Start2 - 1
  <2>1. kparent[p] = NULL
    BY <1>1, <1>2 DEF UserInv, HandInv, KernelInv
  <2>2. p \in 1 .. Start2 /\ p # Start2
    BY <1>2, <2>1 DEF UserInv, PidInv
  <2> QED BY <2>2, UserProcsAssumption
<1>3. {b \in Boxes : mbox[b].open} = {ProcTableMutex}
  <2>1. \A p \in Procs : mboxID[p] = EMPTY
    BY <1>1 DEF UserInv, HandInv, BoxInv, OwnerSteps, AfterFork
  <2>2. EMPTY \notin Boxes
    BY MailboxAssumption DEF Boxes, EMPTY
  <2>3. \A b \in Boxes \ {ProcTableMutex} : ~mbox[b].open
    BY <2>1, <2>2 DEF UserInv, HandInv, OwnerInv, NoMailboxLeft
  <2>4. ProcTableMutex \in Boxes /\ mbox[ProcTableMutex].open
    BY UserProcsAssumption DEF UserInv, IInv, LockInv
  <2> QED BY <2>3, <2>4
<1>4. child[Start2] = NULL
  <2>1. Start2 \in Procs
    BY UserProcsAssumption
  <2>2. List(Start2) = {}
    <3>1. \A c \in Kids(Start2) : kstate[c] # "active"
      <4> SUFFICES ASSUME NEW c \in Kids(Start2), kstate[c] = "active" PROVE FALSE
        OBVIOUS
      <4>1. c \in Procs /\ kparent[c] = Start2
        BY DEF Kids
      <4>2. kparent[c] # NULL
        BY <4>1, UserProcsAssumption DEF NULL
      <4> QED BY <1>1, <4>1, <4>2 DEF UserInv, HandInv, KernelInv
    <3> QED BY <3>1 DEF List, Listed
  <2> QED BY <2>1, <2>2 DEF UserInv, ListInv, PointsPast
<1> QED BY <1>2, <1>3, <1>4

(* When start2 has quit, every process that was spawned has quit as well,   *)
(* the mailboxes of all handshakes have been released, and the list of     *)
(* start2 is empty.                                                        *)
THEOREM NothingIsLeft ==
    ASSUME EnoughMailboxes
    PROVE  Spec => []NothingLeft
<1> QED BY NothingLeftHolds, UserInvAlways, PTL

=============================================================================
