----------------------------- MODULE Cleaner_proofs -----------------------------
(***************************************************************************)
(* Proofs about Cleaner, for any tree of any depth, any lists of paths,    *)
(* nested ones included, any exclusions, and any number of steps of other  *)
(* programs, which write files and remove files and directories.  A clean  *)
(* removes nothing but what it was given and is not recent, and nothing    *)
(* excluded, unless it came back under a path that was gone; and it leaves *)
(* nothing without a reason.                                               *)
(***************************************************************************)
EXTENDS Cleaner, FiniteSetTheorems, FunctionTheorems, NaturalsInduction,
        WellFoundedInduction, TLAPS

--------------------------------------------------------------------------------
(* The tree.  Induction goes by the least node of which something is false. *)

LEMMA Least ==
  ASSUME NEW T \in SUBSET Nat, T # {}
  PROVE  \E x \in T : \A y \in T : x <= y
<1>1. PICK x \in T : \A y \in T : ~(<<y, x>> \in OpToRel(<, Nat))
  BY NatLessThanWellFounded, WFMin, Zenon
<1>2. \A y \in T : ~(y < x)
  <2> TAKE y \in T
  <2>1. y \in Nat /\ x \in Nat
    OBVIOUS
  <2>2. ~(<<y, x>> \in {z \in Nat \X Nat : z[1] < z[2]})
    BY <1>1 DEF OpToRel
  <2> QED
    BY <2>1, <2>2
<1> QED
  BY <1>2

LEMMA TreeFacts ==
  /\ Nodes \subseteq Nat /\ Nowhere \notin Nodes
  /\ Dirs \subseteq Nodes /\ Files \subseteq Nodes /\ Nodes = Dirs \union Files
  /\ \A n \in Nodes : n \notin Dirs <=> n \in Files
  /\ \A n \in Nodes : Parent[n] = Nowhere \/ Parent[n] \in Dirs
  /\ \A n \in Nodes : Parent[n] \in Nat /\ Parent[n] < n
<1>1. /\ Nodes \subseteq Nat \ {Nowhere} /\ Parent \in [Nodes -> Dirs \union {Nowhere}]
      /\ Nodes = Dirs \union Files /\ Dirs \intersect Files = {}
      /\ \A n \in Nodes : Parent[n] < n
  BY TreeAssumption
<1>2. \A n \in Nodes : Parent[n] \in Dirs \union {Nowhere}
  BY <1>1
<1>3. Dirs \union {Nowhere} \subseteq Nat
  BY <1>1 DEF Nowhere
<1> QED
  BY <1>1, <1>2, <1>3

\* The recursive definition has a solution: the least sets that hold a node and,
\* with each of theirs, the directory it is in.
LEMMA AboveDef ==
  \A n \in Nodes :
     Above[n] = {n} \union (IF Parent[n] = Nowhere THEN {} ELSE Above[Parent[n]])
<1> DEFINE Closed(S) == \A m \in S : Parent[m] # Nowhere => Parent[m] \in S
           least == [n \in Nodes |->
                       {a \in Nodes : \A S \in SUBSET Nodes :
                                         n \in S /\ Closed(S) => a \in S}]
           Solves(f) ==
             f = [n \in Nodes |->
                    {n} \union (IF Parent[n] = Nowhere THEN {} ELSE f[Parent[n]])]
<1>1. \A n \in Nodes :
         least[n] = {n} \union (IF Parent[n] = Nowhere THEN {} ELSE least[Parent[n]])
  <2> TAKE n \in Nodes
  <2> DEFINE p == Parent[n]
  <2>1. ASSUME p = Nowhere PROVE least[n] = {n}
    <3>1. Closed({n})
      BY <2>1
    <3> QED
      BY <3>1
  <2>2. ASSUME p # Nowhere PROVE least[n] = {n} \union least[p]
    <3>1. p \in Nodes
      BY <2>2, TreeFacts
    <3>2. ASSUME NEW a \in least[n] PROVE a = n \/ a \in least[p]
      <4>1. SUFFICES ASSUME a # n, NEW S \in SUBSET Nodes, p \in S, Closed(S)
                     PROVE  a \in S
        BY <3>1, <3>2
      <4>2. Closed(S \union {n}) /\ n \in S \union {n} /\ S \union {n} \in SUBSET Nodes
        BY <4>1
      <4> QED
        BY <3>2, <4>1, <4>2
    <3>3. n \in least[n]
      OBVIOUS
    <3>4. ASSUME NEW a \in least[p] PROVE a \in least[n]
      BY <2>2, <3>1, <3>4
    <3> QED
      BY <3>2, <3>3, <3>4
  <2> QED
    BY <2>1, <2>2
<1>2. Solves(least)
  BY <1>1
<1> HIDE DEF least
<1>3. Solves(Above)
  BY <1>2 DEF Above
<1> QED
  BY <1>3

\* What is above a node: itself and directories, and what is above those.
AboveIsSane(n) ==
    /\ n \in Above[n] /\ Above[n] \subseteq Nodes
    /\ \A a \in Above[n] : /\ a <= n
                           /\ a = n \/ a \in Dirs
                           /\ Above[a] \subseteq Above[n]

LEMMA AboveFacts == \A n \in Nodes : AboveIsSane(n)
<1> DEFINE T == {n \in Nodes : ~AboveIsSane(n)}
<1>1. SUFFICES ASSUME T # {} PROVE FALSE
  OBVIOUS
<1>2. PICK n \in T : \A y \in T : n <= y
  BY <1>1, Least, TreeFacts
<1>3. CASE Parent[n] = Nowhere
  <2>1. Above[n] = {n} /\ n \in Nat
    BY <1>3, AboveDef, TreeFacts
  <2> QED
    BY <2>1 DEF AboveIsSane
<1>4. CASE Parent[n] # Nowhere
  <2> DEFINE p == Parent[n]
  <2>1. p \in Dirs /\ p \in Nodes /\ p < n /\ n \in Nat /\ p \in Nat
        /\ Above[n] = {n} \union Above[p]
    BY <1>4, AboveDef, TreeFacts
  <2>2. AboveIsSane(p)
    BY <1>2, <2>1
  <2>3. ASSUME NEW a \in Above[p]
        PROVE  a <= n /\ a \in Dirs /\ Above[a] \subseteq Above[n]
    <3>1. a <= p /\ a \in Nodes /\ (a = p \/ a \in Dirs) /\ Above[a] \subseteq Above[p]
      BY <2>2 DEF AboveIsSane
    <3>2. a \in Nat
      BY <3>1, TreeFacts
    <3> QED
      BY <2>1, <3>1, <3>2
  <2>4. AboveIsSane(n)
    BY <2>1, <2>2, <2>3 DEF AboveIsSane
  <2> QED
    BY <2>4
<1> QED
  BY <1>3, <1>4

\* The same of Within.
LEMMA WithinFacts ==
  ASSUME NEW n \in Nodes, NEW d
  PROVE  /\ Within(n, n)
         /\ Within(n, d) => d \in Nodes /\ d <= n /\ (d = n \/ d \in Dirs)
         /\ Within(n, d) <=> n = d \/ (Parent[n] # Nowhere /\ Within(Parent[n], d))
         /\ \A a \in Nodes : Within(n, a) /\ Within(a, d) => Within(n, d)
BY AboveDef, AboveFacts, TreeFacts DEF AboveIsSane, Within

\* Nothing is in a file, nor above a top-level directory.
LEMMA FileWithin ==
  ASSUME NEW n \in Nodes, NEW f \in Files, Within(n, f)
  PROVE  n = f
BY WithinFacts, TreeFacts

--------------------------------------------------------------------------------
(* Ascending sequences. *)

Ascending(s, n) == \A i, j \in 1..n : i < j => s[i] < s[j]

LEMMA AscendingExists ==
  ASSUME NEW S \in SUBSET Nat, IsFiniteSet(S)
  PROVE  \E s \in [1..Cardinality(S) -> S] : Ascending(s, Cardinality(S))
<1> DEFINE Bad(U, k) == /\ IsFiniteSet(U) /\ Cardinality(U) = k
                        /\ ~\E s \in [1..k -> U] : Ascending(s, k)
           T == {k \in Nat : \E U \in SUBSET Nat : Bad(U, k)}
<1>1. SUFFICES ASSUME T # {} PROVE FALSE
  <2>1. Cardinality(S) \in Nat
    BY FS_CardinalityType
  <2> QED
    BY <2>1
<1>2. PICK k \in T : \A y \in T : k <= y
  BY <1>1, Least
<1>3. PICK U \in SUBSET Nat : Bad(U, k)
  OBVIOUS
<1>4. U # {}
  <2>1. SUFFICES ASSUME U = {} PROVE FALSE
    OBVIOUS
  <2>2. k = 0
    BY <1>3, <2>1, FS_EmptySet
  <2>3. [i \in 1..0 |-> 0] \in [1..k -> U] /\ Ascending([i \in 1..0 |-> 0], k)
    BY <2>2 DEF Ascending
  <2> QED
    BY <1>3, <2>3
<1>5. PICK x \in U : \A y \in U : x <= y
  BY <1>4, Least
<1> DEFINE V == U \ {x}
<1>6. IsFiniteSet(V) /\ Cardinality(V) = k - 1 /\ k \in Nat /\ k - 1 \in Nat
  <2>1. IsFiniteSet(V) /\ Cardinality(V) = Cardinality(U) - 1
    BY <1>3, <1>5, FS_RemoveElement
  <2>2. Cardinality(V) \in Nat
    BY <2>1, FS_CardinalityType
  <2> QED
    BY <1>3, <2>1, <2>2
<1>7. PICK e \in [1..(k - 1) -> V] : Ascending(e, k - 1)
  <2>1. k - 1 \notin T
    BY <1>2, <1>6
  <2> QED
    BY <1>6, <2>1
<1> DEFINE s == [i \in 1..k |-> IF i = 1 THEN x ELSE e[i - 1]]
<1>8. s \in [1..k -> U]
  BY <1>5, <1>6, <1>7
<1>9. Ascending(s, k)
  <2> SUFFICES ASSUME NEW i \in 1..k, NEW j \in 1..k, i < j PROVE s[i] < s[j]
    BY DEF Ascending
  <2>1. j - 1 \in 1..(k - 1) /\ s[j] = e[j - 1] /\ e[j - 1] \in V
    BY <1>6, <1>7
  <2>2. CASE i = 1
    <3>1. s[i] = x /\ x \in Nat /\ e[j - 1] \in Nat /\ e[j - 1] # x /\ x <= e[j - 1]
      BY <1>5, <2>1, <2>2
    <3> QED
      BY <2>1, <3>1
  <2>3. CASE i # 1
    <3>1. i - 1 \in 1..(k - 1) /\ s[i] = e[i - 1] /\ i - 1 < j - 1
      BY <1>6, <2>3
    <3> QED
      BY <1>7, <2>1, <3>1 DEF Ascending
  <2> QED
    BY <2>2, <2>3
<1> QED
  BY <1>3, <1>8, <1>9

LEMMA InOrderFacts ==
  ASSUME NEW S \in SUBSET Nat, IsFiniteSet(S)
  PROVE  InOrder(S) \in Seq(S) /\ ToSet(InOrder(S)) = S
<1> DEFINE n == Cardinality(S)
           s == InOrder(S)
<1>1. n \in Nat
  BY FS_CardinalityType
<1>2. s \in [1..n -> S] /\ Ascending(s, n)
  BY AscendingExists DEF InOrder, Ascending
<1>3. s \in Injection(1..n, S)
  <2>1. ASSUME NEW i \in 1..n, NEW j \in 1..n, i # j PROVE s[i] # s[j]
    <3>1. s[i] \in Nat /\ s[j] \in Nat /\ (i < j \/ j < i)
      <4>1. s[i] \in S /\ s[j] \in S
        BY <1>2
      <4>2. i \in Int /\ j \in Int
        BY <1>1
      <4>3. i < j \/ j < i
        BY <2>1, <4>2
      <4> QED
        BY <4>1, <4>3
    <3> QED
      BY <1>2, <3>1 DEF Ascending
  <2> QED
    BY <1>2, <2>1 DEF Injection, IsInjective
<1>4. s \in Surjection(1..n, S)
  BY <1>1, <1>3, FS_Interval, FS_Injection
<1> HIDE DEF s, n
<1>5. ToSet(s) = S
  BY <1>1, <1>2, <1>4 DEF Surjection, ToSet
<1> QED
  BY <1>1, <1>2, <1>5 DEF s

--------------------------------------------------------------------------------
(* Sequences. *)

LEMMA ToSetIs ==
  ASSUME NEW X, NEW s \in Seq(X)
  PROVE  ToSet(s) = {s[k] : k \in 1..Len(s)}
BY DEF ToSet

LEMMA SeqFacts ==
  ASSUME NEW X, NEW s \in Seq(X)
  PROVE  /\ ToSet(s) \subseteq X
         /\ s = <<>> => ToSet(s) = {}
         /\ s # <<>> => /\ Head(s) \in X /\ Tail(s) \in Seq(X)
                        /\ ToSet(s) = {Head(s)} \union ToSet(Tail(s))
<1>1. ToSet(s) \subseteq X /\ (s = <<>> => ToSet(s) = {})
  BY DEF ToSet
<1>2. ASSUME s # <<>>
      PROVE  /\ Head(s) \in X /\ Tail(s) \in Seq(X)
             /\ ToSet(s) = {Head(s)} \union ToSet(Tail(s))
  <2>1. /\ Head(s) = s[1] /\ Head(s) \in X /\ Tail(s) \in Seq(X) /\ Len(s) \in Nat
        /\ Len(s) >= 1 /\ Len(Tail(s)) = Len(s) - 1
        /\ \A k \in 1..(Len(s) - 1) : Tail(s)[k] = s[k + 1]
    BY <1>2
  <2>2. ASSUME NEW k \in 1..Len(s)
        PROVE  s[k] \in {Head(s)} \union ToSet(Tail(s))
    <3>1. CASE k = 1
      BY <2>1, <3>1
    <3>2. CASE k # 1
      <4>1. k - 1 \in 1..Len(Tail(s)) /\ Tail(s)[k - 1] = s[k]
        BY <2>1, <3>2
      <4> QED
        BY <2>1, <4>1, ToSetIs
    <3> QED
      BY <3>1, <3>2
  <2>3. ASSUME NEW k \in 1..Len(Tail(s))
        PROVE  Tail(s)[k] \in ToSet(s)
    BY <2>1, ToSetIs
  <2>4. Head(s) \in ToSet(s)
    BY <2>1, ToSetIs
  <2>5. ToSet(s) = {s[k] : k \in 1..Len(s)}
        /\ ToSet(Tail(s)) = {Tail(s)[k] : k \in 1..Len(Tail(s))}
    BY <2>1, ToSetIs
  <2> QED
    BY <2>1, <2>2, <2>3, <2>4, <2>5
<1> QED
  BY <1>1, <1>2

LEMMA AppendFacts ==
  ASSUME NEW X, NEW s \in Seq(X), NEW x \in X
  PROVE  Append(s, x) \in Seq(X) /\ ToSet(Append(s, x)) = ToSet(s) \union {x}
<1>1. /\ Append(s, x) \in Seq(X) /\ Len(s) \in Nat /\ Len(Append(s, x)) = Len(s) + 1
      /\ Append(s, x)[Len(s) + 1] = x
      /\ \A k \in 1..Len(s) : Append(s, x)[k] = s[k]
  OBVIOUS
<1>2. ToSet(s) = {s[k] : k \in 1..Len(s)}
      /\ ToSet(Append(s, x)) = {Append(s, x)[k] : k \in 1..(Len(s) + 1)}
  BY <1>1, ToSetIs
<1> QED
  BY <1>1, <1>2

\* The entries of a directory.
LEMMA EntryFacts ==
  ASSUME present \subseteq Nodes, NEW d
  PROVE  /\ entryInfoList(d) \in Seq(Nodes)
         /\ ToSet(entryInfoList(d)) =
               {n \in present : Parent[n] = canonical(d) /\ listed(n)}
<1> DEFINE S == {n \in present : Parent[n] = canonical(d) /\ listed(n)}
<1>1. S \in SUBSET Nodes /\ S \in SUBSET Nat
  BY TreeFacts
<1>2. IsFiniteSet(S)
  BY <1>1, FS_Subset, TreeAssumption
<1>3. InOrder(S) \in Seq(S) /\ ToSet(InOrder(S)) = S
  BY <1>1, <1>2, InOrderFacts
<1> HIDE DEF S
<1>4. InOrder(S) \in Seq(Nodes)
  <2>1. PICK t : t = InOrder(S)
    OBVIOUS
  <2>2. t \in Seq(S) /\ \A x \in S : x \in Nodes
    BY <1>1, <1>3, <2>1
  <2>3. t \in Seq(Nodes)
    BY <2>2
  <2> QED
    BY <2>1, <2>3
<1> QED
  BY <1>3, <1>4 DEF S, entryInfoList, Entries

\* The user's own part of the queue.
LEMMA UserPathsFacts ==
  ASSUME queued \in Seq(Nodes)
  PROVE  /\ userPaths \in Seq(Nodes) /\ ToSet(userPaths) \subseteq ToSet(queued)
         /\ \A p \in ToSet(queued) : currentUserOwns(p) => p \in ToSet(userPaths)
<1> DEFINE I == {k \in DOMAIN queued : currentUserOwns(queued[k])}
           mine == InOrder(I)
<1>1. DOMAIN queued = 1..Len(queued) /\ Len(queued) \in Nat
  OBVIOUS
<1>2. I \in SUBSET Nat /\ IsFiniteSet(I)
  <2>1. I \subseteq 1..Len(queued)
    BY <1>1
  <2>2. IsFiniteSet(1..Len(queued))
    BY <1>1, FS_Interval
  <2> QED
    BY <1>1, <2>1, <2>2, FS_Subset
<1>3. mine \in Seq(I) /\ ToSet(mine) = I
  BY <1>2, InOrderFacts
<1> HIDE DEF I, mine
<1>4. userPaths = [k \in DOMAIN mine |-> queued[mine[k]]]
  BY DEF userPaths, mine, I
<1>5. ASSUME NEW k \in DOMAIN mine PROVE queued[mine[k]] \in Nodes
                                         /\ queued[mine[k]] \in ToSet(queued)
  <2>1. mine[k] \in I
    BY <1>3
  <2>2. mine[k] \in DOMAIN queued
    BY <2>1 DEF I
  <2> QED
    BY <2>2 DEF ToSet
<1>6. userPaths \in Seq(Nodes)
  BY <1>3, <1>4, <1>5
<1>7. DOMAIN userPaths = DOMAIN mine
  BY <1>4
<1>8. ASSUME NEW p \in ToSet(queued), currentUserOwns(p)
      PROVE  p \in ToSet(userPaths)
  <2>1. PICK k \in DOMAIN queued : queued[k] = p
    BY DEF ToSet
  <2>2. k \in ToSet(mine)
    BY <1>3, <1>8, <2>1 DEF I
  <2>3. PICK i \in DOMAIN mine : mine[i] = k
    BY <2>2 DEF ToSet
  <2> QED
    BY <1>4, <1>7, <2>1, <2>3 DEF ToSet
<1> QED
  BY <1>4, <1>5, <1>6, <1>7, <1>8 DEF ToSet

--------------------------------------------------------------------------------
(* The invariant. *)

\* What a clean is called with, which it does not change.
ArgInv ==
    /\ target \in [Links -> Nodes \union {Nowhere}] /\ Links \subseteq Linkable
    /\ \A n \in Links : target[n] \notin Links
    /\ exclusions \subseteq Exclusion /\ \A e \in exclusions : Excludable(e)
    /\ given \subseteq Nodes
    /\ toTrash = TRUE => given \subseteq Files \ Links
    /\ recentAtStart \subseteq Nodes \ Links
    /\ limited = FALSE => recentAtStart = {}

\* Protected, or about to be: what a link that is excluded leads to may be gone, and
\* come back; a link that is gone does not.
Shielded(n) ==
    \E e \in exclusions :
       \/ n = e.path
       \/ e.type = "Folder" /\ Within(n, e.path)
       \/ e.type = "Folder" /\ e.path \in Links \intersect present /\ Within(n, target[e.path])

\* The recent files that nobody else has touched.
Untouched == recentAtStart \ stirred

\* The directories of the recursion are in a given one, and were not protected when
\* they were entered.
FrameInv(f) ==
    /\ f.dir \in Dirs
    /\ \E g \in given : Within(f.dir, g)
    /\ ~Shielded(f.dir)
    /\ \A m \in ToSet(f.todo) : Parent[m] = f.dir

FramesInv(fs) == \A k \in 1..Len(fs) : FrameInv(fs[k])

WalkInv ==
    /\ ToSet(todo) \subseteq given
    /\ frames # <<>> => phase = "paths"
    /\ FramesInv(frames)

\* What waits for its removal was tested when it was put there, if it was there.
Judged(p) ==
    /\ p \in Files /\ ~Shielded(p)
    /\ p \in Links => p \notin present
    /\ p \notin Untouched

QueuedInv(p) == p \in given /\ (p \in gone \/ Judged(p))

QueueInv == \A p \in ToSet(queued) \union rootPaths : QueuedInv(p)

\* What is there under a path that once was not there came back.
GoneInv == \A p \in gone, n \in present : Within(n, p) => n \in stirred \ Links

\* A file that was recent and nobody touched is there, and still recent; a
\* directory, if it is there.
RecentInv ==
    /\ Untouched \ Dirs \subseteq recent
    /\ Untouched \intersect present \subseteq recent
    /\ limited = FALSE => recent = {}

IInv ==
    /\ TypeOK /\ ArgInv
    /\ WalkInv /\ QueueInv /\ GoneInv /\ RecentInv

--------------------------------------------------------------------------------
(* Queries. *)

LEMMA CanonicalFacts ==
  ASSUME IInv, NEW n \in Nodes
  PROVE  /\ canonical(n) \in present \union {Nowhere}
         /\ n \in Links => n \in Files
         /\ n \in present /\ n \notin Links => canonical(n) = n
         /\ n \notin present => canonical(n) = Nowhere
         /\ n \in Dirs /\ n \in present => canonical(n) = n /\ walked(n)
         /\ n \notin present => ~isDir(n) /\ ~isSymLink(n)
         /\ walked(n) => n \in Dirs /\ n \in present
<1>1. /\ n \in Links => n \in Files
      /\ Nowhere \notin Dirs
  BY TreeAssumption, TreeFacts DEF IInv, ArgInv
<1>2. /\ canonical(n) \in present \union {Nowhere}
      /\ n \in present /\ n \notin Links => canonical(n) = n
      /\ n \notin present => canonical(n) = Nowhere
  BY DEF canonical
<1>3. n \in Dirs => n \notin Links
  BY <1>1, TreeFacts
<1> QED
  BY <1>1, <1>2, <1>3, TreeFacts DEF isDir, isSymLink, walked

\* What is there is in directories that are there.
LEMMA AbovePresent ==
  ASSUME TypeOK, NEW n \in present
  PROVE  Above[n] \subseteq present
<1> DEFINE T == {m \in present : ~(Above[m] \subseteq present)}
<1>0. present \subseteq Nodes /\ \A m \in present : Parent[m] \in present \union {Nowhere}
  BY DEF TypeOK
<1>1. SUFFICES ASSUME T # {} PROVE FALSE
  OBVIOUS
<1>2. PICK m \in T : \A y \in T : m <= y
  BY <1>0, <1>1, Least, TreeFacts
<1>3. m \in Nodes /\ Above[m] = {m} \union (IF Parent[m] = Nowhere THEN {} ELSE Above[Parent[m]])
  BY <1>0, AboveDef
<1>4. Parent[m] # Nowhere
  BY <1>3
<1>5. Parent[m] \in present /\ Parent[m] \notin T
  <2>1. Parent[m] \in present /\ Parent[m] < m /\ Parent[m] \in Nat /\ m \in Nat
    BY <1>0, <1>3, <1>4, TreeFacts
  <2> QED
    BY <1>2, <2>1
<1> QED
  BY <1>3, <1>4, <1>5

\* What is there is protected now, if it may ever be; and what is protected is what
\* the test excludes.
LEMMA ProtectedFacts ==
  ASSUME IInv, NEW n \in Nodes
  PROVE  /\ Protected(n) => isExcluded(n)
         /\ n \in present => (Protected(n) <=> Shielded(n))
<1>1. ASSUME NEW e \in exclusions, e.type = "Folder"
      PROVE  Within(n, canonical(e.path)) =>
                \/ Within(n, e.path)
                \/ e.path \in Links \intersect present /\ Within(n, target[e.path])
  <2>1. e.path \in Nodes
    BY DEF IInv, ArgInv, Exclusion
  <2>2. ~Within(n, Nowhere)
    BY WithinFacts, TreeFacts
  <2> QED
    BY <2>1, <2>2, CanonicalFacts DEF canonical
<1>2. ASSUME NEW e \in exclusions, e.type = "Folder", e.path \in Links \intersect present,
             n \in present, Within(n, target[e.path])
      PROVE  canonical(e.path) = target[e.path]
  <2>1. target[e.path] \in present
    BY <1>2, AbovePresent DEF Within, IInv
  <2> QED
    BY <1>2, <2>1 DEF canonical
<1>3. Protected(n) => Shielded(n)
  BY <1>1 DEF Protected, Shielded
<1>4. n \in present /\ Shielded(n) => Protected(n)
  BY <1>2 DEF Protected, Shielded
<1>5. Protected(n) => isExcluded(n)
  BY DEF Protected, isExcluded, Excludes
<1> QED
  BY <1>3, <1>4, <1>5

--------------------------------------------------------------------------------
(* What a step does to the disk. *)

\* The clean may remove a node: it was given, and is not protected, unless it came
\* back under a path that was gone, and the walk is over; and it is not recent, but for a link to a
\* directory that was given as a path.
MayRemove(n) ==
    /\ \E g \in given : Within(n, g)
    /\ Shielded(n) => phase # "paths" /\ \E p \in gone : Within(n, p)
    /\ n \notin Dirs /\ ~(n \in given /\ isDir(n)) => canonical(n) \notin Untouched

DiskStep ==
    /\ UNCHANGED argVars
    /\ stirred \subseteq stirred' /\ stirred' \subseteq Nodes
    /\ present' \subseteq Nodes
    /\ \A n \in present' : Parent[n] \in present' \union {Nowhere}
    /\ recent' \subseteq present' /\ recent \intersect present' \subseteq recent'
    /\ limited = FALSE => recent' = recent
    /\ present' \ present \subseteq stirred' \ Links
    /\ \/ others' = others /\ \A n \in present \ present' : MayRemove(n)
       \/ others' # others /\ present \ present' \subseteq stirred'

\* The removal of some nodes, with all that is in them.
LEMMA RemovalStep ==
  ASSUME IInv, UNCHANGED <<argVars, others>>,
         stirred \subseteq stirred', stirred' \subseteq Nodes,
         NEW S \in SUBSET present, Without(S),
         \A n \in S : MayRemove(n),
         \A m \in present : Parent[m] \in S => m \in S
  PROVE  DiskStep
<1>1. present' = present \ S /\ limited \in BOOLEAN /\ recent \subseteq present
      /\ present \subseteq Nodes
      /\ \A n \in present : Parent[n] \in present \union {Nowhere}
  BY DEF Without, IInv, TypeOK
<1>2. recent' \subseteq present' /\ recent \intersect present' \subseteq recent'
      /\ (limited = FALSE => recent' = recent)
  <2>1. CASE limited = TRUE
    BY <1>1, <2>1 DEF Without
  <2>2. CASE limited = FALSE
    BY <1>1, <2>2 DEF Without, IInv, RecentInv
  <2> QED
    BY <1>1, <2>1, <2>2
<1>3. \A n \in present' : Parent[n] \in present' \union {Nowhere}
  BY <1>1
<1> QED
  BY <1>1, <1>2, <1>3 DEF DiskStep

\* A step that leaves the disk alone.
LEMMA QuietStep ==
  ASSUME IInv, UNCHANGED <<argVars, others, diskVars>>,
         stirred \subseteq stirred', stirred' \subseteq Nodes
  PROVE  DiskStep
BY DEF DiskStep, diskVars, IInv, TypeOK

LEMMA RemoveFileStep ==
  ASSUME IInv, UNCHANGED <<argVars, others>>,
         stirred \subseteq stirred', stirred' \subseteq Nodes,
         NEW n \in Nodes, removeFile(n), n \in present \ Dirs => MayRemove(n)
  PROVE  DiskStep
<1>1. CASE n \in present \ Dirs /\ Without({n})
  <2>1. \A m \in present : Parent[m] # n
    BY <1>1, TreeFacts, TreeAssumption DEF IInv, TypeOK
  <2> QED
    BY <1>1, <2>1, RemovalStep
<1>2. CASE UNCHANGED diskVars
  BY <1>2, QuietStep
<1> QED
  BY <1>1, <1>2 DEF removeFile

\* What the tests of an entry, or of a path, say of it.
LEMMA TakenEntry ==
  ASSUME IInv, NEW n \in Nodes, ~isExcluded(n), ~isRecent(n), \E g \in given : Within(n, g)
  PROVE  n \in present => MayRemove(n)
<1>1. n \in present => ~Shielded(n)
  BY ProtectedFacts
<1>2. canonical(n) \notin Untouched
  <2>1. SUFFICES ASSUME canonical(n) \in Untouched PROVE FALSE
    OBVIOUS
  <2>2. limited = TRUE /\ canonical(n) \in Nodes
    BY <2>1, TreeFacts DEF IInv, ArgInv, Untouched, TypeOK
  <2>3. canonical(n) \in present
    BY <2>2, CanonicalFacts, TreeFacts
  <2>4. canonical(n) \in recent
    BY <2>1, <2>3 DEF IInv, RecentInv
  <2> QED
    BY <2>2, <2>4 DEF isRecent
<1> QED
  BY <1>1, <1>2 DEF MayRemove

LEMMA TakenPath ==
  ASSUME IInv, NEW p \in given, taken(p)
  PROVE  /\ p \in present => ~Shielded(p)
         /\ isDir(p) \/ canonical(p) \notin Untouched
         /\ p \in present \ Dirs => MayRemove(p)
<1>1. p \in Nodes /\ \E g \in given : Within(p, g)
  BY WithinFacts DEF IInv, ArgInv
<1>2. p \in present => ~Shielded(p)
  BY <1>1, ProtectedFacts DEF taken
<1>3. isDir(p) \/ canonical(p) \notin Untouched
  <2>1. SUFFICES ASSUME ~isDir(p), canonical(p) \in Untouched PROVE FALSE
    OBVIOUS
  <2>2. ~isRecent(p)
    BY <2>1 DEF taken, tooRecentPath
  <2>3. limited = TRUE /\ canonical(p) \in Nodes
    BY <2>1, TreeFacts DEF IInv, ArgInv, Untouched, TypeOK
  <2>4. canonical(p) \in recent
    BY <1>1, <2>1, <2>3, CanonicalFacts, TreeFacts DEF IInv, RecentInv
  <2> QED
    BY <2>2, <2>3, <2>4 DEF isRecent
<1> QED
  BY <1>1, <1>2, <1>3 DEF MayRemove

\* The path, and the entry, whose turn it is.
LEMMA PathFacts ==
  ASSUME IInv, NEW p, nextPath(p)
  PROVE  /\ p \in given /\ p \in Nodes /\ frames = <<>>
         /\ todo' \in Seq(Nodes) /\ ToSet(todo') \subseteq given
         /\ phase = "paths" /\ UNCHANGED <<argVars, phase, rootPaths, others>>
<1>1. todo \in Seq(Nodes) /\ ToSet(todo) \subseteq given /\ given \subseteq Nodes
  BY DEF IInv, TypeOK, WalkInv, ArgInv
<1>2. todo # <<>> /\ p = Head(todo) /\ todo' = Tail(todo)
  BY DEF nextPath
<1>3. p \in ToSet(todo) /\ todo' \in Seq(Nodes) /\ ToSet(todo') \subseteq ToSet(todo)
  BY <1>1, <1>2, SeqFacts
<1> QED
  BY <1>1, <1>3 DEF nextPath

LEMMA EntryTurn ==
  ASSUME IInv, NEW n, nextEntry(n)
  PROVE  /\ n \in Nodes /\ Parent[n] = frames[1].dir /\ Parent[n] # Nowhere
         /\ \E g \in given : Within(n, g)
         /\ frames \in Seq([dir : Nodes, todo : Seq(Nodes)]) /\ frames # <<>>
         /\ Len(frames) >= 1 /\ FrameInv(frames[1])
         /\ frames[1] \in [dir : Nodes, todo : Seq(Nodes)] /\ frames[1].todo # <<>>
         /\ Tail(frames[1].todo) \in Seq(Nodes)
         /\ ToSet(Tail(frames[1].todo)) \subseteq ToSet(frames[1].todo)
         /\ UNCHANGED <<argVars, phase, todo, queued, rootPaths, others, stirred>>
<1> DEFINE F == [dir : Nodes, todo : Seq(Nodes)]
<1>1. frames \in Seq(F) /\ frames # <<>> /\ frames[1].todo # <<>>
      /\ n = Head(frames[1].todo)
  BY DEF IInv, TypeOK, nextEntry
<1> HIDE DEF F
<1>2. Len(frames) \in Nat /\ Len(frames) >= 1 /\ frames[1] \in F
  BY <1>1
<1> USE DEF F
<1>3. frames[1].todo \in Seq(Nodes) /\ FrameInv(frames[1])
  BY <1>2 DEF IInv, WalkInv, FramesInv
<1>4. n \in Nodes /\ n \in ToSet(frames[1].todo) /\ Tail(frames[1].todo) \in Seq(Nodes)
      /\ ToSet(Tail(frames[1].todo)) \subseteq ToSet(frames[1].todo)
  BY <1>1, <1>3, SeqFacts
<1>5. Parent[n] = frames[1].dir /\ frames[1].dir \in Dirs
      /\ \E g \in given : Within(frames[1].dir, g)
  BY <1>3, <1>4 DEF FrameInv
<1>6. Parent[n] # Nowhere /\ \E g \in given : Within(n, g)
  BY <1>4, <1>5, TreeFacts, WithinFacts
<1> QED
  BY <1>1, <1>2, <1>3, <1>4, <1>5, <1>6 DEF nextEntry

\* A directory that the clean leaves.
LEMMA LeaveStep ==
  ASSUME IInv, leaveDir
  PROVE  DiskStep
<1> DEFINE d == frames[1].dir
<1>1. /\ UNCHANGED <<argVars, phase, todo, queued, rootPaths, others, stirred, kept>>
      /\ stirred \subseteq Nodes /\ present \subseteq Nodes
  BY DEF leaveDir, IInv, TypeOK
<1>2. CASE UNCHANGED diskVars
  BY <1>1, <1>2, QuietStep
<1>3. CASE Len(frames) > 1 /\ d \in present /\ Entries(d) = {} /\ Without({d})
  <2>1. Len(frames) \in Nat /\ FrameInv(frames[1])
    BY <1>3 DEF IInv, TypeOK, WalkInv, FramesInv
  <2>2. d \in Dirs /\ ~Shielded(d) /\ \E g \in given : Within(d, g)
    BY <2>1 DEF FrameInv
  <2>3. MayRemove(d)
    BY <2>2 DEF MayRemove
  <2>4. canonical(d) = d
    BY <1>3, <2>2, CanonicalFacts, TreeFacts
  <2>5. \A m \in present : Parent[m] # d
    BY <1>3, <2>4 DEF Entries
  <2> QED
    BY <1>1, <1>3, <2>3, <2>5, RemovalStep
<1> QED
  BY <1>2, <1>3 DEF leaveDir

LEMMA ElevatedStep ==
  ASSUME IInv, removeElevated
  PROVE  DiskStep
<1>1. PICK S \in SUBSET Inside(rootPaths) : Inside(S) = S /\ Without(S)
  BY DEF removeElevated
<1>2. UNCHANGED <<argVars, others, stirred>> /\ stirred \subseteq Nodes
      /\ present \subseteq Nodes /\ S \subseteq present /\ phase = "elevated"
  BY <1>1 DEF removeElevated, IInv, TypeOK, Inside
<1>3. ASSUME NEW n \in S PROVE MayRemove(n)
  <2>1. PICK p \in rootPaths : Within(n, p) /\ QueuedInv(p)
    BY DEF IInv, QueueInv, Inside
  <2>2. n \in present /\ n \in Nodes /\ p \in given
    BY <1>2, <2>1 DEF QueuedInv
  <2>3. CASE p \in gone
    <3>1. n \in stirred \ Links
      BY <2>1, <2>2, <2>3 DEF IInv, GoneInv
    <3>2. canonical(n) = n /\ n \notin Untouched
      BY <2>2, <3>1, CanonicalFacts DEF Untouched
    <3> QED
      BY <1>2, <2>1, <2>2, <2>3, <3>2 DEF MayRemove
  <2>4. CASE Judged(p)
    <3>1. n = p
      BY <2>1, <2>2, <2>4, FileWithin DEF Judged
    <3>2. canonical(n) = n
      BY <2>2, <2>4, <3>1, CanonicalFacts DEF Judged
    <3> QED
      BY <1>2, <2>1, <2>2, <2>4, <3>1, <3>2 DEF MayRemove, Judged
  <2> QED
    BY <2>1, <2>3, <2>4 DEF QueuedInv
<1>4. ASSUME NEW m \in present, Parent[m] \in S PROVE m \in S
  <2>1. m \in Nodes /\ Parent[m] \in Nodes /\ Parent[m] # Nowhere
    BY <1>2, <1>4, TreeFacts
  <2>2. Within(m, Parent[m])
    BY <2>1, WithinFacts
  <2> QED
    BY <1>1, <1>4, <2>2 DEF Inside
<1> QED
  BY <1>1, <1>2, <1>3, <1>4, RemovalStep

LEMMA WrittenStep ==
  ASSUME IInv, NEW n \in Files \ Links, fileWritten(n)
  PROVE  DiskStep
<1> DEFINE made == Above[n] \ present
           newer == {n} \union made \union ({Parent[m] : m \in made} \ {Nowhere})
<1>1. /\ others' # others /\ UNCHANGED argVars
      /\ present' = present \union made
      /\ recent' = IF limited THEN recent \union newer ELSE recent
      /\ stirred' = stirred \union newer
  BY DEF fileWritten, othersUnchanged, IInv, TypeOK
<1>2. /\ present \subseteq Nodes /\ recent \subseteq present /\ stirred \subseteq Nodes
      /\ \A m \in present : Parent[m] \in present \union {Nowhere}
      /\ Above[n] \subseteq Nodes /\ n \in Above[n] /\ n \in Nodes
      /\ \A m \in Above[n] : m = n \/ m \in Dirs
  BY AboveFacts, TreeFacts DEF IInv, TypeOK, AboveIsSane
<1>3. \A m \in Above[n] : Parent[m] \in Above[n] \union {Nowhere}
  <2> TAKE m \in Above[n]
  <2>1. m \in Nodes /\ Above[m] \subseteq Above[n]
    BY <1>2, AboveFacts DEF AboveIsSane
  <2>2. Parent[m] # Nowhere => Parent[m] \in Nodes /\ Above[Parent[m]] \subseteq Above[m]
    BY <2>1, AboveDef, TreeFacts
  <2> QED
    BY <2>1, <2>2, AboveFacts DEF AboveIsSane
<1>4. newer \subseteq present' /\ newer \subseteq Nodes
  BY <1>1, <1>2, <1>3
<1>5. made \intersect Links = {}
  BY <1>2, TreeFacts, TreeAssumption DEF IInv, ArgInv
<1> QED
  BY <1>1, <1>2, <1>3, <1>4, <1>5 DEF DiskStep

LEMMA VanishesStep ==
  ASSUME IInv, NEW n \in Nodes \ Links, vanishes(n)
  PROVE  DiskStep
<1> DEFINE S == Inside({n})
<1>1. /\ others' # others /\ UNCHANGED argVars
      /\ present' = present \ S
      /\ recent' = IF limited THEN (recent \union {Parent[m] : m \in S}) \intersect present'
                   ELSE recent
      /\ stirred' = stirred \union S \union ({Parent[n]} \ {Nowhere})
  BY DEF vanishes, othersUnchanged, Without, IInv, TypeOK
<1>2. /\ present \subseteq Nodes /\ recent \subseteq present /\ stirred \subseteq Nodes
      /\ \A m \in present : Parent[m] \in present \union {Nowhere}
      /\ limited \in BOOLEAN /\ (limited = FALSE => recent = {})
      /\ Parent[n] \in Nodes \union {Nowhere} /\ S \subseteq present
  BY TreeFacts DEF IInv, TypeOK, RecentInv, Inside
<1>3. ASSUME NEW m \in present' PROVE Parent[m] \in present' \union {Nowhere}
  <2>1. m \in present /\ m \in Nodes /\ ~Within(m, n)
    BY <1>1, <1>2 DEF Inside
  <2>2. Parent[m] # Nowhere => ~Within(Parent[m], n)
    BY <2>1, WithinFacts
  <2> QED
    BY <1>1, <1>2, <2>1, <2>2 DEF Inside
<1>4. recent' \subseteq present' /\ recent \intersect present' \subseteq recent'
      /\ (limited = FALSE => recent' = recent)
  BY <1>1, <1>2
<1> HIDE DEF S
<1> QED
  BY <1>1, <1>2, <1>3, <1>4 DEF DiskStep

LEMMA DiskSteps ==
  ASSUME IInv, [Next]_vars
  PROVE  DiskStep
<1>0. stirred \subseteq Nodes
  BY DEF IInv, TypeOK
<1>1. ASSUME NEW n \in Nodes, trashOrUnlinkPath(n) PROVE DiskStep
  <2>1. /\ n \in given /\ taken(n) /\ removeFile(n)
        /\ UNCHANGED <<argVars, others>>
        /\ stirred \subseteq stirred' /\ stirred' \subseteq Nodes
    BY <1>0, <1>1, PathFacts, TreeFacts DEF trashOrUnlinkPath
  <2> QED
    BY <2>1, TakenPath, RemoveFileStep
<1>2. ASSUME NEW n \in Nodes, removeEntry(n) PROVE DiskStep
  <2>1. /\ ~isExcluded(n) /\ ~isRecent(n) /\ removeFile(n)
        /\ UNCHANGED <<argVars, others, stirred>> /\ \E g \in given : Within(n, g)
    BY <1>2, EntryTurn DEF removeEntry, tooRecentEntry
  <2> QED
    BY <1>0, <2>1, TakenEntry, RemoveFileStep
<1>3. ASSUME removeQueued PROVE DiskStep
  <2>1. /\ phase = "remove" /\ queued # <<>> /\ removeFile(Head(queued))
        /\ UNCHANGED <<argVars, others, stirred>>
        /\ queued \in Seq(Nodes)
    BY <1>3 DEF removeQueued, IInv, TypeOK
  <2>2. Head(queued) \in Nodes /\ Head(queued) \in ToSet(queued)
    BY <2>1, SeqFacts
  <2>3. PICK p \in Nodes : p = Head(queued)
    BY <2>2
  <2>4. QueuedInv(p) /\ removeFile(p)
    BY <2>1, <2>2, <2>3 DEF IInv, QueueInv
  <2>5. ASSUME p \in present PROVE MayRemove(p)
    <3>1. Within(p, p)
      BY WithinFacts
    <3>2. CASE p \in gone
      <4>1. p \in stirred \ Links
        BY <2>5, <3>1, <3>2 DEF IInv, GoneInv
      <4>2. canonical(p) = p /\ p \notin Untouched
        BY <2>5, <4>1, CanonicalFacts DEF Untouched
      <4> QED
        BY <2>1, <2>4, <3>1, <3>2, <4>2 DEF QueuedInv, MayRemove
    <3>3. CASE Judged(p)
      <4>1. canonical(p) = p
        BY <2>5, <3>3, CanonicalFacts DEF Judged
      <4> QED
        BY <2>1, <2>4, <3>1, <3>3, <4>1 DEF QueuedInv, Judged, MayRemove
    <3> QED
      BY <2>4, <3>2, <3>3 DEF QueuedInv
  <2> QED
    BY <1>0, <2>1, <2>4, <2>5, RemoveFileStep
<1>4. ASSUME NEW n \in Nodes,
             passPath(n) \/ enterPath(n) \/ queuePath(n) \/ passEntry(n) \/ enterEntry(n)
      PROVE  DiskStep
  <2>1. UNCHANGED <<argVars, others, diskVars, stirred>>
    BY <1>4 DEF passPath, enterPath, queuePath, passEntry, enterEntry, nextPath, nextEntry
  <2> QED
    BY <1>0, <2>1, QuietStep
<1>5. CASE pathsDone \/ queuedDone \/ UNCHANGED vars
  <2>1. UNCHANGED <<argVars, others, diskVars, stirred>>
    BY <1>5 DEF pathsDone, queuedDone, vars
  <2> QED
    BY <1>0, <2>1, QuietStep
<1> QED
  BY <1>1, <1>2, <1>3, <1>4, <1>5, LeaveStep, ElevatedStep, WrittenStep, VanishesStep
     DEF Next, cleanFiles, Others

\* What a clean is called with stays; what is protected was.
LEMMA ArgsKept ==
  ASSUME DiskStep
  PROVE  /\ given' = given /\ exclusions' = exclusions /\ target' = target
         /\ Links' = Links /\ limited' = limited /\ toTrash' = toTrash
         /\ recentAtStart' = recentAtStart
         /\ \A n : Shielded(n)' => Shielded(n)
         /\ Untouched' \subseteq Untouched
<1>1. /\ given' = given /\ exclusions' = exclusions /\ target' = target
      /\ limited' = limited /\ toTrash' = toTrash /\ recentAtStart' = recentAtStart
      /\ stirred \subseteq stirred' /\ present' \ present \subseteq stirred' \ Links
  BY DEF DiskStep, argVars
<1>2. Links' = Links
  BY <1>1 DEF Links
<1>3. Links' \intersect present' \subseteq Links \intersect present
  BY <1>1, <1>2
<1> QED
  BY <1>1, <1>2, <1>3 DEF Shielded, Untouched

\* A path is remembered as gone when it is not there.
LEMMA GoneSteps ==
  ASSUME IInv, [Next]_vars
  PROVE  /\ gone \subseteq gone' /\ gone' \subseteq given
         /\ \A p \in gone' \ gone : p \notin present
<1>0. gone \subseteq given
  BY DEF IInv, TypeOK
<1>1. ASSUME NEW p \in Nodes, queuePath(p)
      PROVE  gone' = gone \union ({p} \ present) /\ p \in given
  BY <1>1, PathFacts DEF queuePath
<1>2. ASSUME NEW n \in Nodes,
             \/ passPath(n) \/ trashOrUnlinkPath(n) \/ enterPath(n)
             \/ passEntry(n) \/ removeEntry(n) \/ enterEntry(n)
      PROVE  gone' = gone
  BY <1>2 DEF passPath, trashOrUnlinkPath, enterPath, passEntry, removeEntry, enterEntry,
              nextEntry
<1>3. ASSUME \/ leaveDir \/ pathsDone \/ removeQueued \/ queuedDone \/ removeElevated
             \/ Others \/ UNCHANGED vars
      PROVE  gone' = gone
  BY <1>3 DEF leaveDir, pathsDone, removeQueued, queuedDone, removeElevated, Others,
              fileWritten, vanishes, othersUnchanged, vars
<1> QED
  BY <1>0, <1>1, <1>2, <1>3 DEF Next, cleanFiles

--------------------------------------------------------------------------------
(* What a step does to the walk. *)

FrameSet == [dir : Nodes, todo : Seq(Nodes)]

\* The innermost frame goes on; a frame is entered; the innermost is left.
LEMMA AdvanceFacts ==
  ASSUME NEW fs \in Seq(FrameSet), fs # <<>>, NEW t \in Seq(Nodes)
  PROVE  LET new == [fs EXCEPT ![1].todo = t]
         IN  /\ new \in Seq(FrameSet) /\ Len(new) = Len(fs)
             /\ new[1].dir = fs[1].dir /\ new[1].todo = t
             /\ \A k \in 1..Len(fs) : k # 1 => new[k] = fs[k]
<1> DEFINE new == [fs EXCEPT ![1].todo = t]
           first == [fs[1] EXCEPT !.todo = t]
<1>1. Len(fs) \in Nat /\ 1 \in 1..Len(fs) /\ fs[1] \in FrameSet
      /\ DOMAIN fs = 1..Len(fs) /\ fs = [k \in 1..Len(fs) |-> fs[k]]
  <2>1. Len(fs) \in Nat /\ DOMAIN fs = 1..Len(fs) /\ fs \in [1..Len(fs) -> FrameSet]
    OBVIOUS
  <2>2. Len(fs) # 0
    OBVIOUS
  <2>3. 1 \in 1..Len(fs)
    BY <2>1, <2>2
  <2>4. fs = [k \in 1..Len(fs) |-> fs[k]]
    BY <2>1, Zenon
  <2> QED
    BY <2>1, <2>3, <2>4
<1>2. first \in FrameSet /\ first.dir = fs[1].dir /\ first.todo = t
  BY <1>1 DEF FrameSet
<1>3. new = [k \in 1..Len(fs) |-> IF k = 1 THEN first ELSE fs[k]]
  BY <1>1
<1> HIDE DEF first, new
<1>4. \A k \in 1..Len(fs) : new[k] = (IF k = 1 THEN first ELSE fs[k])
  BY <1>3
<1>5. \A k \in 1..Len(fs) : fs[k] \in FrameSet
  BY <1>1
<1>6. new \in Seq(FrameSet) /\ Len(new) = Len(fs)
  BY <1>1, <1>2, <1>3, <1>4, <1>5
<1> QED
  BY <1>1, <1>2, <1>4, <1>6 DEF new

LEMMA PushFacts ==
  ASSUME NEW fs \in Seq(FrameSet), NEW f \in FrameSet
  PROVE  LET new == <<f>> \o fs
         IN  /\ new \in Seq(FrameSet) /\ Len(new) = Len(fs) + 1
             /\ new[1] = f
             /\ \A k \in 2..Len(new) : new[k] = fs[k - 1] /\ k - 1 \in 1..Len(fs)
<1> DEFINE new == <<f>> \o fs
<1>1. Len(fs) \in Nat /\ <<f>> \in Seq(FrameSet) /\ Len(<<f>>) = 1 /\ <<f>>[1] = f
  OBVIOUS
<1> HIDE DEF FrameSet
<1>2. new \in Seq(FrameSet) /\ Len(new) = Len(fs) + 1
  BY <1>1
<1>3. new[1] = f
  BY <1>1
<1>4. \A k \in 2..Len(new) : new[k] = fs[k - 1] /\ k - 1 \in 1..Len(fs)
  BY <1>1, <1>2
<1> QED
  BY <1>2, <1>3, <1>4

LEMMA PopFacts ==
  ASSUME NEW fs \in Seq(FrameSet), fs # <<>>
  PROVE  LET new == Tail(fs)
         IN  /\ new \in Seq(FrameSet) /\ Len(new) = Len(fs) - 1
             /\ \A k \in 1..Len(new) : new[k] = fs[k + 1] /\ k + 1 \in 1..Len(fs)
OBVIOUS

\* The arguments do not change, and no protection is added, so what held of the
\* frames before the step is what the invariant says after it.
LEMMA FramesThen ==
  ASSUME DiskStep, FramesInv(frames'), frames' # <<>> => phase' = "paths",
         ToSet(todo') \subseteq given
  PROVE  WalkInv'
<1>1. given' = given /\ \A n : Shielded(n)' => Shielded(n)
  BY ArgsKept
<1>2. ASSUME NEW k \in 1..Len(frames') PROVE FrameInv(frames[k])'
  <2>1. FrameInv(frames'[k])
    BY DEF FramesInv
  <2> QED
    BY <1>1, <2>1 DEF FrameInv
<1> QED
  BY <1>1, <1>2 DEF WalkInv, FramesInv

\* A directory that is entered.
LEMMA EnteredFrame ==
  ASSUME IInv, NEW d \in Nodes, walked(d), ~Shielded(d),
         \E g \in given : Within(d, g)
  PROVE  FrameInv(Frame(d)) /\ Frame(d) \in FrameSet /\ Frame(d).dir = d
<1>1. d \in Dirs /\ d \in present /\ canonical(d) = d
  BY CanonicalFacts
<1>2. /\ entryInfoList(d) \in Seq(Nodes)
      /\ \A n \in ToSet(entryInfoList(d)) : Parent[n] = d
  BY <1>1, EntryFacts DEF IInv, TypeOK
<1>3. Frame(d).dir = d /\ Frame(d).todo = entryInfoList(d) /\ Frame(d) \in FrameSet
  BY <1>2 DEF Frame, FrameSet
<1> QED
  BY <1>1, <1>2, <1>3 DEF FrameInv

\* The innermost frame goes on with the rest of its entries.
LEMMA AdvancedFrames ==
  ASSUME IInv, NEW n, nextEntry(n)
  PROVE  LET fs == [frames EXCEPT ![1].todo = Tail(frames[1].todo)]
         IN  /\ fs \in Seq(FrameSet) /\ Len(fs) = Len(frames) /\ FramesInv(fs)
             /\ fs[1].dir = frames[1].dir
<1> DEFINE fs == [frames EXCEPT ![1].todo = Tail(frames[1].todo)]
<1>1. /\ frames \in Seq(FrameSet) /\ frames # <<>> /\ Tail(frames[1].todo) \in Seq(Nodes)
      /\ FrameInv(frames[1]) /\ Len(frames) \in Nat /\ 1 \in 1..Len(frames)
      /\ ToSet(Tail(frames[1].todo)) \subseteq ToSet(frames[1].todo)
  <2>1. frames \in Seq(FrameSet)
    BY DEF IInv, TypeOK, FrameSet
  <2>2. /\ frames # <<>> /\ Tail(frames[1].todo) \in Seq(Nodes)
        /\ FrameInv(frames[1]) /\ Len(frames) >= 1
        /\ ToSet(Tail(frames[1].todo)) \subseteq ToSet(frames[1].todo)
    BY EntryTurn
  <2>3. Len(frames) \in Nat
    BY <2>1
  <2> QED
    BY <2>1, <2>2, <2>3
<1>2. /\ fs \in Seq(FrameSet) /\ Len(fs) = Len(frames)
      /\ fs[1].dir = frames[1].dir /\ fs[1].todo = Tail(frames[1].todo)
      /\ \A k \in 1..Len(frames) : k # 1 => fs[k] = frames[k]
  BY <1>1, AdvanceFacts
<1> HIDE DEF fs
<1>3. FrameInv(fs[1])
  BY <1>1, <1>2 DEF FrameInv
<1>4. FramesInv(frames)
  BY DEF IInv, WalkInv
<1>6. FramesInv(fs)
  BY <1>2, <1>3, <1>4 DEF FramesInv
<1> QED
  BY <1>2, <1>6 DEF fs

LEMMA WalkSteps ==
  ASSUME IInv, [Next]_vars
  PROVE  WalkInv' /\ frames' \in Seq(FrameSet) /\ todo' \in Seq(Nodes)
<1>0. /\ frames \in Seq(FrameSet) /\ todo \in Seq(Nodes) /\ ToSet(todo) \subseteq given
      /\ FramesInv(frames) /\ (frames # <<>> => phase = "paths")
      /\ DiskStep
  BY DiskSteps DEF IInv, TypeOK, FrameSet, WalkInv
<1>1. ASSUME NEW p \in Nodes, passPath(p) \/ trashOrUnlinkPath(p) \/ queuePath(p)
      PROVE  WalkInv' /\ frames' \in Seq(FrameSet) /\ todo' \in Seq(Nodes)
  <2>1. nextPath(p) /\ frames' = frames
    BY <1>1 DEF passPath, trashOrUnlinkPath, queuePath
  <2> QED
    BY <1>0, <2>1, PathFacts, FramesThen
<1>2. ASSUME NEW p \in Nodes, enterPath(p)
      PROVE  WalkInv' /\ frames' \in Seq(FrameSet) /\ todo' \in Seq(Nodes)
  <2>1. nextPath(p) /\ taken(p) /\ walked(p) /\ frames' = <<Frame(p)>>
    BY <1>2 DEF enterPath
  <2>2. p \in given /\ Within(p, p) /\ ~Shielded(p)
    BY <2>1, PathFacts, CanonicalFacts, TakenPath, WithinFacts
  <2>3. FrameInv(Frame(p)) /\ Frame(p) \in FrameSet
    BY <2>1, <2>2, EnteredFrame
  <2>4. PICK f \in FrameSet : f = Frame(p)
    BY <2>3
  <2>5. frames' \in Seq(FrameSet) /\ Len(frames') = 1 /\ frames'[1] = f
    BY <2>1, <2>4
  <2>6. FramesInv(frames')
    BY <2>3, <2>4, <2>5 DEF FramesInv
  <2> QED
    BY <1>0, <2>1, <2>5, <2>6, PathFacts, FramesThen
<1>3. ASSUME NEW n \in Nodes, passEntry(n) \/ removeEntry(n)
      PROVE  WalkInv' /\ frames' \in Seq(FrameSet) /\ todo' \in Seq(Nodes)
  <2>1. nextEntry(n) /\ frames' = [frames EXCEPT ![1].todo = Tail(frames[1].todo)]
    BY <1>3 DEF passEntry, removeEntry, afterPassed
  <2>2. frames' \in Seq(FrameSet) /\ FramesInv(frames')
    BY <2>1, AdvancedFrames
  <2>3. phase' = phase /\ todo' = todo /\ phase = "paths"
    BY <1>0, <2>1, EntryTurn
  <2> QED
    BY <1>0, <2>2, <2>3, FramesThen
<1>4. ASSUME NEW n \in Nodes, enterEntry(n)
      PROVE  WalkInv' /\ frames' \in Seq(FrameSet) /\ todo' \in Seq(Nodes)
  <2> DEFINE fs == [frames EXCEPT ![1].todo = Tail(frames[1].todo)]
  <2>1. /\ nextEntry(n) /\ ~isExcluded(n) /\ walked(n)
        /\ frames' = <<Frame(n)>> \o fs
    BY <1>4 DEF enterEntry
  <2>2. fs \in Seq(FrameSet) /\ FramesInv(fs)
    BY <2>1, AdvancedFrames
  <2> HIDE DEF fs
  <2>3. FrameInv(Frame(n)) /\ Frame(n) \in FrameSet
    BY <2>1, EntryTurn, CanonicalFacts, ProtectedFacts, EnteredFrame
  <2>4. /\ frames' \in Seq(FrameSet) /\ Len(frames') = Len(fs) + 1 /\ frames'[1] = Frame(n)
        /\ \A k \in 2..Len(frames') : frames'[k] = fs[k - 1] /\ k - 1 \in 1..Len(fs)
    BY <2>1, <2>2, <2>3, PushFacts
  <2>5. FramesInv(frames')
    <3>1. ASSUME NEW k \in 1..Len(frames')
          PROVE  FrameInv(frames'[k])
      <4>1. CASE k = 1
        BY <2>3, <2>4, <4>1
      <4>2. CASE k # 1
        <5>1. Len(fs) \in Nat /\ k \in 2..Len(frames')
          BY <2>2, <2>4, <4>2
        <5>2. frames'[k] = fs[k - 1] /\ k - 1 \in 1..Len(fs)
          BY <2>4, <5>1
        <5> QED
          BY <2>2, <5>2 DEF FramesInv
      <4> QED
        BY <4>1, <4>2
    <3> QED
      BY <3>1 DEF FramesInv
  <2>6. phase' = phase /\ todo' = todo /\ phase = "paths"
    BY <1>0, <2>1, EntryTurn
  <2> QED
    BY <1>0, <2>4, <2>5, <2>6, FramesThen
<1>5. CASE leaveDir
  <2>1. frames # <<>> /\ frames' = Tail(frames) /\ phase' = phase /\ todo' = todo
    BY <1>5 DEF leaveDir
  <2>2. /\ frames' \in Seq(FrameSet) /\ Len(frames') = Len(frames) - 1
        /\ \A k \in 1..Len(frames') : frames'[k] = frames[k + 1] /\ k + 1 \in 1..Len(frames)
    BY <1>0, <2>1, PopFacts
  <2>3. FramesInv(frames')
    <3>2. ASSUME NEW k \in 1..Len(frames')
          PROVE  FrameInv(frames'[k])
      <4>1. frames'[k] = frames[k + 1] /\ k + 1 \in 1..Len(frames)
        BY <2>2
      <4> QED
        BY <1>0, <4>1 DEF FramesInv
    <3> QED
      BY <3>2 DEF FramesInv
  <2> QED
    BY <1>0, <2>1, <2>2, <2>3, FramesThen
<1>6. CASE pathsDone \/ removeQueued \/ queuedDone \/ removeElevated
  <2>1. frames' = frames /\ todo' = todo /\ (frames # <<>> => phase' = phase)
    BY <1>0, <1>6 DEF pathsDone, removeQueued, queuedDone, removeElevated
  <2> QED
    BY <1>0, <2>1, FramesThen
<1>7. CASE Others \/ UNCHANGED vars
  <2>1. frames' = frames /\ todo' = todo /\ phase' = phase
    BY <1>7 DEF Others, fileWritten, vanishes, othersUnchanged, walkVars, vars
  <2> QED
    BY <1>0, <2>1, FramesThen
<1> QED
  BY <1>1, <1>2, <1>3, <1>4, <1>5, <1>6, <1>7 DEF Next, cleanFiles


--------------------------------------------------------------------------------
(* The invariant holds at the start, and every step keeps it. *)

LEMMA InitInv == Init => IInv
<1> SUFFICES ASSUME Init PROVE IInv
  OBVIOUS
<1>1. PICK L \in SUBSET Linkable : target \in [L -> (Nodes \ L) \union {Nowhere}]
  BY DEF Init
<1>2. Links = L /\ L \subseteq Files /\ L \subseteq Nodes
  BY <1>1, TreeAssumption, TreeFacts DEF Links
<1>3. /\ given = ToSet(todo) /\ todo \in Givens /\ todo \in Seq(Nodes) /\ given \subseteq Nodes
  <2>1. given = ToSet(todo) /\ todo \in Givens
    BY DEF Init
  <2>2. todo \in Seq(Nodes)
    BY <2>1, TreeAssumption
  <2> QED
    BY <2>1, <2>2, SeqFacts
<1>4. /\ limited \in BOOLEAN /\ toTrash \in BOOLEAN /\ present = Nodes
      /\ recent \subseteq Nodes \ Links /\ (limited = FALSE => recent = {})
      /\ toTrash = TRUE => given \subseteq Files \ Links
      /\ phase = "paths" /\ frames = <<>> /\ queued = <<>> /\ rootPaths = {}
      /\ others = 0 /\ recentAtStart = recent /\ stirred = {} /\ kept = {} /\ gone = {}
  BY DEF Init
<1>5. exclusions \subseteq Exclusion /\ \A e \in exclusions : Excludable(e)
  BY DEF Init
<1>6. TypeOK
  <2>1. \A n \in present : Parent[n] \in present \union {Nowhere}
    BY <1>4, TreeFacts
  <2>2. 0 \in 0..MaxOthers
    BY TreeAssumption
  <2> QED
    BY <1>3, <1>4, <1>5, <2>1, <2>2 DEF TypeOK
<1>7. ArgInv
  <2>1. target \in [Links -> Nodes \union {Nowhere}]
        /\ \A n \in Links : target[n] \notin Links
    <3>1. Nowhere \notin L
      BY <1>2, TreeFacts
    <3> QED
      BY <1>1, <1>2, <3>1
  <2> QED
    BY <1>1, <1>2, <1>3, <1>4, <1>5, <2>1 DEF ArgInv
<1>8. GoneInv
  BY <1>4 DEF GoneInv
<1>10. WalkInv
  <2>1. Len(frames) = 0
    BY <1>4
  <2> QED
    BY <1>3, <1>4, <2>1 DEF WalkInv, FramesInv
<1>11. QueueInv
  BY <1>4 DEF QueueInv, ToSet
<1>12. RecentInv
  BY <1>4 DEF RecentInv, Untouched
<1> QED
  BY <1>6, <1>7, <1>8, <1>10, <1>11, <1>12 DEF IInv

LEMMA DiskKeepsInv ==
  ASSUME IInv, [Next]_vars
  PROVE  /\ ArgInv' /\ GoneInv' /\ RecentInv'
         /\ \A p \in Nodes : QueuedInv(p) => QueuedInv(p)'
<1>0. DiskStep
  BY DiskSteps
<1> USE <1>0, ArgsKept
<1>1. ArgInv'
  <2>1. ArgInv
    BY DEF IInv
  <2> QED
    BY <2>1 DEF ArgInv, Excludable
\* What leaves the disk: what the clean may remove, or a file.
<1>2. ASSUME NEW n \in present, n \notin present'
      PROVE  MayRemove(n) \/ n \in stirred'
  BY <1>2 DEF DiskStep
<1>3. GoneInv'
  <2>1. ASSUME NEW p \in gone', NEW n \in present', Within(n, p)
        PROVE  n \in stirred' \ Links
    <3>1. CASE n \in present /\ p \in gone
      BY <2>1, <3>1 DEF DiskStep, IInv, GoneInv
    <3>2. CASE n \in present /\ p \notin gone
      <4>1. p \in present
        BY <2>1, <3>2, AbovePresent DEF Within, IInv
      <4> QED
        BY <3>2, <4>1, GoneSteps
    <3>3. CASE n \notin present
      BY <3>3 DEF DiskStep
    <3> QED
      BY <3>1, <3>2, <3>3
  <2> QED
    BY <2>1 DEF GoneInv
<1>5. RecentInv'
  <2>1. ASSUME NEW n \in Untouched', n \notin Dirs PROVE n \in recent'
    <3>1. n \in Untouched /\ n \in recent /\ n \in present /\ n \notin stirred'
          /\ n \notin Links /\ n \in Nodes
      BY <2>1 DEF IInv, RecentInv, TypeOK, ArgInv, Untouched
    <3>2. n \in present'
      <4>1. SUFFICES ASSUME n \notin present' PROVE FALSE
        OBVIOUS
      <4>2. MayRemove(n) /\ canonical(n) = n
        BY <1>2, <3>1, <4>1, CanonicalFacts
      <4> QED
        BY <2>1, <3>1, <4>2 DEF MayRemove, isDir
    <3> QED
      BY <3>1, <3>2 DEF DiskStep
  <2>2. ASSUME NEW n \in Untouched', n \in present' PROVE n \in recent'
    <3>1. n \in Untouched /\ n \notin stirred'
      BY <2>2 DEF Untouched
    <3>2. n \in present
      BY <2>2, <3>1 DEF DiskStep
    <3> QED
      BY <2>2, <3>1, <3>2 DEF DiskStep, IInv, RecentInv
  <2>3. limited' = FALSE => recent' = {}
    BY DEF DiskStep, IInv, RecentInv
  <2> QED
    BY <2>1, <2>2, <2>3 DEF RecentInv
<1>6. ASSUME NEW p \in Nodes, QueuedInv(p) PROVE QueuedInv(p)'
  <2>1. p \in Links /\ p \in present' => p \in present
    BY DEF DiskStep
  <2> QED
    BY <1>6, <2>1, GoneSteps DEF QueuedInv, Judged
<1> QED
  BY <1>1, <1>3, <1>5, <1>6

\* A path is put in the queue when it is no directory and no link, or is gone.
LEMMA QueuedPath ==
  ASSUME IInv, NEW p, queuePath(p)
  PROVE  p \in given /\ p \in Nodes /\ (p \in present => Judged(p))
<1>1. /\ p \in given /\ p \in Nodes /\ taken(p) /\ ~isSymLink(p) /\ ~isDir(p)
  BY PathFacts DEF queuePath
<1>2. ASSUME p \in present PROVE Judged(p)
  <2>1. ~Shielded(p) /\ canonical(p) \notin Untouched
    BY <1>1, <1>2, TakenPath
  <2>2. p \notin Links /\ canonical(p) = p
    BY <1>1, <1>2, CanonicalFacts DEF isSymLink
  <2>3. p \in Files
    BY <1>1, <2>2, TreeFacts DEF isDir
  <2> QED
    BY <2>1, <2>2, <2>3 DEF Judged
<1> QED
  BY <1>1, <1>2

\* What waits after a step waited before, or is put there by the step.
LEMMA QueueSteps ==
  ASSUME IInv, [Next]_vars
  PROVE  /\ queued' \in Seq(Nodes) /\ rootPaths' \subseteq Nodes
         /\ QueueInv'
<1>0. /\ queued \in Seq(Nodes) /\ rootPaths \subseteq Nodes
      /\ ToSet(queued) \subseteq Nodes
      /\ \A p \in ToSet(queued) \union rootPaths : QueuedInv(p)'
  <2>1. /\ queued \in Seq(Nodes) /\ rootPaths \subseteq Nodes
        /\ ToSet(queued) \subseteq Nodes
        /\ \A p \in ToSet(queued) \union rootPaths : QueuedInv(p)
    BY SeqFacts DEF IInv, TypeOK, QueueInv
  <2> QED
    BY <2>1, DiskKeepsInv
<1>1. ASSUME NEW p \in Nodes, queuePath(p)
      PROVE  /\ queued' \in Seq(Nodes) /\ ToSet(queued') = ToSet(queued) \union {p}
             /\ rootPaths' = rootPaths /\ QueuedInv(p)'
  <2>1. /\ queued' = Append(queued, p) /\ gone' = gone \union ({p} \ present)
        /\ rootPaths' = rootPaths
    BY <1>1 DEF queuePath, nextPath
  <2>2. p \in given /\ given' = given /\ (p \in present => QueuedInv(p))
    BY <1>1, QueuedPath, DiskSteps, ArgsKept DEF QueuedInv
  <2>3. QueuedInv(p)'
    <3>1. CASE p \in present
      BY <2>2, <3>1, DiskKeepsInv
    <3>2. CASE p \notin present
      BY <2>1, <2>2, <3>2 DEF QueuedInv
    <3> QED
      BY <3>1, <3>2
  <2> QED
    BY <1>0, <2>1, <2>3, AppendFacts
<1>2. ASSUME pathsDone
      PROVE  /\ queued' \in Seq(Nodes) /\ ToSet(queued') \subseteq ToSet(queued)
             /\ rootPaths' \subseteq ToSet(queued)
  BY <1>0, <1>2, UserPathsFacts DEF pathsDone
<1>3. ASSUME removeQueued
      PROVE  /\ queued' \in Seq(Nodes) /\ ToSet(queued') \subseteq ToSet(queued)
             /\ rootPaths' = rootPaths
  BY <1>0, <1>3, SeqFacts DEF removeQueued
<1>4. ASSUME NEW n \in Nodes,
             \/ passPath(n) \/ trashOrUnlinkPath(n) \/ enterPath(n)
             \/ passEntry(n) \/ removeEntry(n) \/ enterEntry(n)
      PROVE  queued' = queued /\ rootPaths' = rootPaths
  BY <1>4 DEF passPath, trashOrUnlinkPath, enterPath, nextPath,
              passEntry, removeEntry, enterEntry, nextEntry
<1>5. ASSUME leaveDir \/ queuedDone \/ removeElevated \/ Others \/ UNCHANGED vars
      PROVE  queued' = queued /\ rootPaths' = rootPaths
  BY <1>5 DEF leaveDir, queuedDone, removeElevated, Others, fileWritten, vanishes,
              othersUnchanged, walkVars, vars
<1>6. /\ queued' \in Seq(Nodes) /\ rootPaths' \subseteq Nodes
      /\ \A p \in ToSet(queued') \union rootPaths' : QueuedInv(p)'
  BY <1>0, <1>1, <1>2, <1>3, <1>4, <1>5 DEF Next, cleanFiles
<1> QED
  BY <1>6 DEF QueueInv

\* The counters and the names of the phases.
LEMMA OtherTypes ==
  ASSUME IInv, [Next]_vars
  PROVE  /\ phase' \in {"paths", "remove", "elevated", "done"}
         /\ others' \in 0..MaxOthers /\ kept' \subseteq Nodes
<1>0. /\ phase \in {"paths", "remove", "elevated", "done"} /\ others \in 0..MaxOthers
      /\ kept \subseteq Nodes /\ present \subseteq Nodes /\ MaxOthers \in Nat
  BY TreeAssumption DEF IInv, TypeOK
<1>1. ASSUME NEW n \in Nodes,
             \/ passPath(n) \/ trashOrUnlinkPath(n) \/ enterPath(n) \/ queuePath(n)
             \/ passEntry(n) \/ removeEntry(n) \/ enterEntry(n)
      PROVE  phase' = phase /\ others' = others /\ kept' \subseteq Nodes
  BY <1>0, <1>1 DEF passPath, trashOrUnlinkPath, enterPath, queuePath, nextPath,
              passEntry, removeEntry, enterEntry, nextEntry, removeFile
<1>2. ASSUME removeQueued
      PROVE  phase' = phase /\ others' = others /\ kept' \subseteq Nodes
  <2>1. Head(queued) \in Nodes
    BY <1>2, SeqFacts DEF removeQueued, IInv, TypeOK
  <2> QED
    BY <1>0, <1>2, <2>1 DEF removeQueued, removeFile
<1>3. CASE leaveDir \/ pathsDone \/ queuedDone \/ removeElevated
  BY <1>0, <1>3 DEF leaveDir, pathsDone, queuedDone, removeElevated, Inside
<1>4. CASE Others \/ UNCHANGED vars
  <2>1. /\ phase' = phase /\ kept' = kept
        /\ \/ others' = others
           \/ (others < MaxOthers /\ others' = others + 1)
    BY <1>4 DEF Others, fileWritten, vanishes, othersUnchanged, walkVars, vars
  <2> QED
    BY <1>0, <2>1
<1> QED
  BY <1>0, <1>1, <1>2, <1>3, <1>4 DEF Next, cleanFiles

LEMMA StepKeepsInv == IInv /\ [Next]_vars => IInv'
<1> SUFFICES ASSUME IInv, [Next]_vars PROVE IInv'
  OBVIOUS
<1>1. DiskStep
  BY DiskSteps
<1>2. ArgInv' /\ GoneInv' /\ RecentInv'
  BY DiskKeepsInv
<1>3. WalkInv' /\ frames' \in Seq(FrameSet) /\ todo' \in Seq(Nodes)
  BY WalkSteps
<1>4. queued' \in Seq(Nodes) /\ rootPaths' \subseteq Nodes /\ QueueInv'
  BY QueueSteps
<1>5. gone' \subseteq given'
  BY <1>1, GoneSteps, ArgsKept
<1>6. TypeOK'
  <2>1. exclusions' \subseteq Exclusion /\ limited' \in BOOLEAN /\ toTrash' \in BOOLEAN
    BY <1>1, ArgsKept DEF IInv, TypeOK
  <2> QED
    BY <1>1, <1>3, <1>4, <1>5, <2>1, OtherTypes DEF TypeOK, DiskStep, FrameSet
<1> QED
  BY <1>2, <1>3, <1>4, <1>6 DEF IInv

--------------------------------------------------------------------------------
(* Why something is left: a second invariant, on top of the first.          *)

\* A reason, once there, stays.
Left(n, g) == \E a \in Above[n] : Within(a, g) /\ Reason(a, g)

\* What nobody else has changed, nor what it leads to.
Candidate(n) ==
    /\ n \in present \ (Dirs \union stirred)
    /\ n \in Links => target[n] \in (present \ stirred) \union {Nowhere}

PhaseInv ==
    /\ phase # "paths" => todo = <<>>
    /\ phase = "paths" => rootPaths = {}
    /\ phase \in {"elevated", "done"} => queued = <<>>

\* The recursion goes from a directory to one in it.
Nested ==
    /\ \A j, k \in 1..Len(frames) : j <= k => frames[k].dir <= frames[j].dir
    /\ \A k \in 1..Len(frames) :
          k < Len(frames) => Parent[frames[k].dir] = frames[k + 1].dir

\* What is in a directory of the recursion is left for a reason, or in what it
\* has still to look at, or a directory inside it.
Between(n, m, g) == Within(n, m) /\ Within(m, g) /\ m # g
Covered(fs, n, g, k) == \E j \in 1..k : \E m \in ToSet(fs[j].todo) : Between(n, m, g)

StackCovers ==
    \A k \in 1..Len(frames), n \in Nodes, g \in given :
       Candidate(n) /\ Within(n, frames[k].dir) /\ Within(frames[k].dir, g)
          => Left(n, g) \/ Covered(frames, n, g, k)

\* A file is recent because it was, or because others wrote it; a directory also
\* because the clean removed something in it: it then is in the recursion, or what is
\* in it is left for a reason.
RecentFiles == recent \ Dirs \subseteq recentAtStart \union stirred

Finished(d) ==
    \A n \in Nodes, g \in given :
       Candidate(n) /\ Within(n, d) /\ Within(d, g) => Left(n, g)

RecentDirs ==
    phase = "paths" =>
       \A d \in recent \intersect Dirs :
          \/ d \in recentAtStart \union stirred
          \/ \E k \in 1..Len(frames) : frames[k].dir = d
          \/ Finished(d)

\* What is in a path is left for a reason, or the path is still to be done.
AllCovered ==
    \A n \in Nodes, g \in given :
       Candidate(n) /\ Within(n, g) =>
          \/ Left(n, g) \/ g \in ToSet(todo) \union ToSet(queued)
          \/ frames # <<>> /\ frames[Len(frames)].dir = g
          \/ g \in rootPaths /\ phase # "done"

LeftInv ==
    /\ PhaseInv /\ Nested
    /\ RecentFiles /\ RecentDirs /\ StackCovers /\ AllCovered

--------------------------------------------------------------------------------
(* The tree once more. *)

\* A directory has an entry on the way to what is in it.
LEMMA EntryOnTheWay ==
  ASSUME NEW n \in Nodes, NEW d, Within(n, d), n # d
  PROVE  \E m \in Above[n] : m \in Nodes /\ Parent[m] = d /\ Within(n, m)
<1> DEFINE Way(x) == \E m \in Above[x] : m \in Nodes /\ Parent[m] = d /\ Within(x, m)
           T == {x \in Nodes : Within(x, d) /\ x # d /\ ~Way(x)}
<1>1. SUFFICES ASSUME T # {} PROVE FALSE
  OBVIOUS
<1>2. PICK x \in T : \A y \in T : x <= y
  BY <1>1, Least, TreeFacts
<1>3. /\ x \in Nodes /\ Parent[x] # Nowhere /\ Within(Parent[x], d)
      /\ Parent[x] \in Nodes /\ Parent[x] < x /\ Parent[x] \in Nat /\ x \in Nat
  BY <1>2, WithinFacts, TreeFacts
<1>4. CASE Parent[x] = d
  <2>1. x \in Above[x] /\ Within(x, x)
    BY <1>3, WithinFacts DEF Within
  <2> QED
    BY <1>3, <1>4, <2>1
<1>5. CASE Parent[x] # d
  <2>1. Way(Parent[x])
    BY <1>2, <1>3, <1>5
  <2>2. PICK m \in Above[Parent[x]] : m \in Nodes /\ Parent[m] = d /\ Within(Parent[x], m)
    BY <2>1
  <2>3. m \in Above[x] /\ Within(x, m)
    BY <1>3, <2>2, WithinFacts, AboveDef
  <2> QED
    BY <2>2, <2>3
<1> QED
  BY <1>4, <1>5

--------------------------------------------------------------------------------
(* Reasons. *)

\* What the queries say of a candidate and the directories around it is what they
\* said at the start.
LEMMA Resolved ==
  ASSUME IInv, NEW n \in Nodes, Candidate(n), NEW a \in Above[n]
  PROVE  /\ a \in present /\ a \in Nodes /\ Within(n, a)
         /\ canonical(a) = LeadsTo(a)
         /\ a \in Links => target[a] \in present \union {Nowhere}
         /\ isDir(a) <=> LeadsTo(a) \in Dirs
<1>1. a \in present /\ a \in Nodes /\ (a = n \/ a \in Dirs)
  BY AbovePresent, AboveFacts DEF AboveIsSane, Candidate, IInv, TypeOK
<1>2. a \in Links => a = n
  BY <1>1, CanonicalFacts, TreeFacts
<1>3. a \in Links => target[a] \in present \union {Nowhere}
  BY <1>2 DEF Candidate
<1>4. Nowhere \notin present
  BY TreeFacts DEF IInv, TypeOK
<1>5. canonical(a) = LeadsTo(a)
  BY <1>1, <1>3, <1>4 DEF canonical, LeadsTo
<1> QED
  BY <1>1, <1>3, <1>5 DEF isDir, Within

\* What the test of the exclusions excludes was excluded at the start.
LEMMA ExcludedIs ==
  ASSUME IInv, NEW a \in Nodes, isExcluded(a)
  PROVE  ExcludedAtStart(a)
<1> DEFINE input == IF isSymLink(a) THEN canonical(a) ELSE Nowhere
           first == IF a \in Links THEN target[a] ELSE Nowhere
<1>1. input = Nowhere \/ input = first
  BY DEF isSymLink, canonical
<1>2. PICK e \in exclusions : Excludes(e, a, input, canonical(e.path))
  BY DEF isExcluded
<1>3. canonical(e.path) = Nowhere \/ canonical(e.path) = LeadsTo(e.path)
  BY DEF canonical, LeadsTo
<1>4. /\ \A d : ~Within(Nowhere, d)
      /\ ~Within(a, Nowhere) /\ ~Within(input, Nowhere)
  <2>1. \A d : ~Within(Nowhere, d)
    BY TreeFacts DEF Within
  <2>2. \A x \in Nodes : ~Within(x, Nowhere)
    BY WithinFacts, TreeFacts
  <2>3. input \in Nodes \union {Nowhere}
    BY CanonicalFacts DEF IInv, TypeOK
  <2> QED
    BY <2>1, <2>2, <2>3
<1> HIDE DEF input
<1>5. Excludes(e, a, first, LeadsTo(e.path))
  BY <1>1, <1>2, <1>3, <1>4 DEF Excludes
<1> QED
  BY <1>5 DEF ExcludedAtStart

\* The clean passes a path over for a reason that lasts.
LEMMA PassedPath ==
  ASSUME IInv, LeftInv, NEW p \in Nodes, passPath(p),
         NEW n \in Nodes, Candidate(n), Within(n, p)
  PROVE  Left(n, p)
<1>1. p \in Above[n] /\ Within(p, p) /\ p \in given
  BY PathFacts, WithinFacts DEF passPath, Within
<1>2. /\ p \in present /\ canonical(p) = LeadsTo(p)
      /\ p \in Links => target[p] \in present \union {Nowhere}
      /\ isDir(p) <=> LeadsTo(p) \in Dirs
  BY <1>1, Resolved
<1>3. CASE isExcluded(p)
  BY <1>1, <1>2, <1>3, ExcludedIs DEF Left, Reason
<1>4. CASE tooRecentPath(p)
  <2>1. isRecent(p) /\ (isDir(p) => toTrash)
    BY <1>4 DEF tooRecentPath
  <2>2. toTrash = TRUE => ~isDir(p)
    <3>1. toTrash = TRUE => p \in Files \ Links
      BY <1>1 DEF IInv, ArgInv
    <3> QED
      BY <1>2, <3>1, TreeFacts DEF LeadsTo
  <2>3. ~isDir(p)
    BY <2>1, <2>2 DEF IInv, TypeOK
  <2>4. limited /\ LeadsTo(p) \in recent /\ LeadsTo(p) \notin Dirs
    BY <1>2, <2>1, <2>3 DEF isRecent
  <2>5. LeadsTo(p) \in recentAtStart \union stirred
    BY <2>4 DEF LeftInv, RecentFiles
  <2> QED
    BY <1>1, <2>4, <2>5 DEF Left, Reason
<1> QED
  BY <1>3, <1>4 DEF passPath

\* So it does with an entry.
LEMMA PassedEntry ==
  ASSUME IInv, LeftInv, NEW m \in Nodes, passEntry(m),
         NEW n \in Nodes, Candidate(n), NEW g \in given, Between(n, m, g)
  PROVE  Left(n, g)
<1>1. m \in Above[n] /\ Within(m, g) /\ m # g /\ Within(n, m)
  BY DEF Between, Within
<1>2. /\ m \in present /\ canonical(m) = LeadsTo(m)
      /\ m \in Links => target[m] \in present \union {Nowhere}
  BY <1>1, Resolved
<1>3. CASE isExcluded(m)
  BY <1>1, <1>2, <1>3, ExcludedIs DEF Left, Reason
<1>4. CASE isRecent(m)
  <2>1. limited /\ LeadsTo(m) \in recent
    BY <1>2, <1>4 DEF isRecent
  <2>2. CASE LeadsTo(m) \notin Dirs
    <3>1. LeadsTo(m) \in recentAtStart \union stirred
      BY <2>1, <2>2 DEF LeftInv, RecentFiles
    <3> QED
      BY <1>1, <2>1, <3>1 DEF Left, Reason
  <2>3. CASE m \in Links /\ LeadsTo(m) \in Dirs
    BY <1>1, <2>1, <2>3 DEF Left, Reason
  <2>4. CASE m \notin Links /\ LeadsTo(m) \in Dirs
    <3>1. m \in recent /\ m \in Dirs
      BY <2>1, <2>4 DEF LeadsTo
    <3>2. frames # <<>> /\ phase = "paths" /\ Parent[m] = frames[1].dir
          /\ Len(frames) \in Nat /\ Len(frames) >= 1
      BY EntryTurn DEF passEntry, IInv, WalkInv, TypeOK
    <3>3. CASE m \in recentAtStart \union stirred
      BY <1>1, <2>1, <3>3 DEF Left, Reason
    <3>4. ASSUME NEW k \in 1..Len(frames), frames[k].dir = m
          PROVE  FALSE
      <4>1. frames[k].dir <= frames[1].dir
        BY <3>2 DEF LeftInv, Nested
      <4>2. frames[1].dir < m /\ frames[1].dir \in Nat /\ m \in Nat
        BY <3>2, TreeFacts
      <4> QED
        BY <3>4, <4>1, <4>2
    <3>5. CASE Finished(m)
      BY <1>1, <3>5 DEF Finished
    <3> QED
      BY <3>1, <3>2, <3>3, <3>4, <3>5 DEF LeftInv, RecentDirs
  <2> QED
    BY <2>2, <2>3, <2>4
<1> QED
  BY <1>3, <1>4 DEF passEntry, tooRecentEntry

--------------------------------------------------------------------------------
(* What a step leaves of this. *)

LEMMA KeptGrows ==
  ASSUME IInv, [Next]_vars
  PROVE  kept \subseteq kept'
<1>1. ASSUME NEW n \in Nodes,
             \/ passPath(n) \/ trashOrUnlinkPath(n) \/ enterPath(n) \/ queuePath(n)
             \/ passEntry(n) \/ removeEntry(n) \/ enterEntry(n)
      PROVE  kept \subseteq kept'
  BY <1>1 DEF passPath, trashOrUnlinkPath, enterPath, queuePath,
              passEntry, removeEntry, enterEntry, removeFile
<1>2. CASE leaveDir \/ pathsDone \/ removeQueued \/ queuedDone \/ removeElevated
  BY <1>2 DEF leaveDir, pathsDone, removeQueued, queuedDone, removeElevated, removeFile
<1>3. CASE Others \/ UNCHANGED vars
  BY <1>3 DEF Others, fileWritten, vanishes, othersUnchanged, vars
<1> QED
  BY <1>1, <1>2, <1>3 DEF Next, cleanFiles

LEMMA ReasonsLast ==
  ASSUME IInv, [Next]_vars
  PROVE  /\ \A n, g : Left(n, g) => Left(n, g)'
         /\ \A n : Candidate(n)' => Candidate(n)
         /\ \A d : Finished(d) => Finished(d)'
<1>1. /\ kept \subseteq kept' /\ stirred \subseteq stirred'
      /\ present' \ present \subseteq stirred'
  BY KeptGrows, DiskSteps DEF DiskStep
<1>2. /\ given' = given /\ exclusions' = exclusions /\ target' = target
      /\ Links' = Links /\ limited' = limited /\ recentAtStart' = recentAtStart
  BY DiskSteps, ArgsKept
<1>3. ASSUME NEW a, NEW g PROVE Reason(a, g) => Reason(a, g)'
  <2>1. ExcludedAtStart(a)' <=> ExcludedAtStart(a)
    BY <1>2 DEF ExcludedAtStart, Excludes, LeadsTo
  <2>2. LeadsTo(a)' = LeadsTo(a)
    BY <1>2 DEF LeadsTo
  <2> QED
    BY <1>1, <1>2, <2>1, <2>2 DEF Reason
<1>4. \A n, g : Left(n, g) => Left(n, g)'
  BY <1>3 DEF Left
<1>5. \A n : Candidate(n)' => Candidate(n)
  BY <1>1, <1>2 DEF Candidate
<1> QED
  BY <1>2, <1>4, <1>5 DEF Finished

\* What becomes recent: what others change, and the directory of what the clean
\* removes.
LEMMA RecentSteps ==
  ASSUME IInv, [Next]_vars
  PROVE  recent' \subseteq recent \union stirred' \union {Parent[n] : n \in RemovedNow}
<1>0. present \subseteq Nodes /\ recent \subseteq present /\ recent' \subseteq present'
      /\ present' \subseteq Nodes /\ Nowhere \notin Nodes
  BY DiskSteps, TreeFacts DEF IInv, TypeOK, DiskStep
<1>1. ASSUME NEW S \in SUBSET present, Without(S), others' = others
      PROVE  recent' \subseteq recent \union {Parent[n] : n \in RemovedNow}
  <2>1. RemovedNow = S
    BY <1>1 DEF Without, RemovedNow
  <2> QED
    BY <1>1, <2>1 DEF Without
<1>2. ASSUME NEW n \in Nodes, removeFile(n), others' = others
      PROVE  recent' \subseteq recent \union {Parent[m] : m \in RemovedNow}
  BY <1>1, <1>2 DEF removeFile, diskVars
<1>3. ASSUME NEW n \in Nodes,
             \/ passPath(n) \/ trashOrUnlinkPath(n) \/ enterPath(n) \/ queuePath(n)
             \/ passEntry(n) \/ removeEntry(n) \/ enterEntry(n)
      PROVE  recent' \subseteq recent \union {Parent[m] : m \in RemovedNow}
  <2>1. CASE trashOrUnlinkPath(n) \/ removeEntry(n)
    BY <1>2, <2>1 DEF trashOrUnlinkPath, removeEntry, nextPath, nextEntry
  <2>2. CASE passPath(n) \/ enterPath(n) \/ queuePath(n) \/ passEntry(n) \/ enterEntry(n)
    BY <2>2 DEF passPath, enterPath, queuePath, passEntry, enterEntry, diskVars
  <2> QED
    BY <1>3, <2>1, <2>2
<1>4. ASSUME leaveDir
      PROVE  recent' \subseteq recent \union {Parent[m] : m \in RemovedNow}
  BY <1>1, <1>4 DEF leaveDir, diskVars
<1>5. ASSUME removeQueued
      PROVE  recent' \subseteq recent \union {Parent[m] : m \in RemovedNow}
  <2>1. Head(queued) \in Nodes
    BY <1>5, SeqFacts DEF removeQueued, IInv, TypeOK
  <2> QED
    BY <1>2, <1>5, <2>1 DEF removeQueued
<1>6. ASSUME removeElevated
      PROVE  recent' \subseteq recent \union {Parent[m] : m \in RemovedNow}
  <2>1. PICK S \in SUBSET Inside(rootPaths) : Without(S)
    BY <1>6 DEF removeElevated
  <2>2. S \subseteq present /\ others' = others
    BY <1>6 DEF Inside, removeElevated
  <2> QED
    BY <1>1, <2>1, <2>2
<1>7. ASSUME Others
      PROVE  recent' \subseteq recent \union stirred'
  <2>1. ASSUME NEW n \in Files \ Links, fileWritten(n)
        PROVE  recent' \subseteq recent \union stirred'
    BY <2>1 DEF fileWritten
  <2>2. ASSUME NEW n \in Nodes \ Links, vanishes(n)
        PROVE  recent' \subseteq recent \union stirred'
    <3> DEFINE S == Inside({n})
    <3>1. /\ stirred' = stirred \union S \union ({Parent[n]} \ {Nowhere})
          /\ present' = present \ S
          /\ recent' \subseteq recent \union ({Parent[m] : m \in S} \intersect present')
      BY <1>0, <2>2 DEF vanishes, Without
    <3>2. ASSUME NEW m \in S, Parent[m] \in present' PROVE m = n
      <4>1. m \in Nodes /\ Within(m, n) /\ Parent[m] # Nowhere /\ Parent[m] \in present
            /\ ~Within(Parent[m], n)
        BY <1>0, <3>1, <3>2 DEF Inside
      <4> QED
        BY <4>1, WithinFacts
    <3> HIDE DEF S
    <3> QED
      BY <1>0, <3>1, <3>2
  <2> QED
    BY <1>7, <2>1, <2>2 DEF Others
<1>8. CASE pathsDone \/ queuedDone \/ UNCHANGED vars
  BY <1>8 DEF pathsDone, queuedDone, vars, diskVars
<1> QED
  BY <1>3, <1>4, <1>5, <1>6, <1>7, <1>8 DEF Next, cleanFiles

\* What the clean tried to remove is gone, or was kept; so is what was in it.
LEMMA GoneOrKept ==
  ASSUME IInv, [Next]_vars, NEW m \in Nodes, removeFile(m), m \in present => m \in Files,
         NEW n \in Nodes, Candidate(n)', Within(n, m), NEW g, Within(m, g)
  PROVE  Left(n, g)'
<1>1. n \in present' /\ n \in present
  BY ReasonsLast DEF Candidate
<1>2. m \in Above[n] /\ m \in present
  BY <1>1, AbovePresent DEF Within, IInv
<1>3. n = m
  BY <1>2, FileWithin
<1>4. m \in kept'
  BY <1>1, <1>3 DEF removeFile, Without
<1> QED
  BY <1>2, <1>4 DEF Left, Reason

--------------------------------------------------------------------------------
(* The recursion covers what is in its directories. *)

\* A directory that is entered has what is in it before it.
LEMMA EntriesCover ==
  ASSUME IInv, NEW d \in Nodes, walked(d),
         NEW n \in Nodes, Candidate(n), Within(n, d), NEW g, Within(d, g)
  PROVE  Left(n, g) \/ \E m \in ToSet(Frame(d).todo) : Between(n, m, g)
<1>1. d \in Dirs /\ canonical(d) = d /\ d # Nowhere /\ d \in Nat /\ n # d
  BY CanonicalFacts, TreeFacts DEF Candidate
<1>2. PICK m \in Above[n] : m \in Nodes /\ Parent[m] = d /\ Within(n, m)
  BY <1>1, EntryOnTheWay
<1>3. m \in present
  BY <1>2, Resolved
<1>4. Frame(d).todo = entryInfoList(d)
      /\ ToSet(entryInfoList(d)) = {x \in present : Parent[x] = d /\ listed(x)}
  BY <1>1, EntryFacts DEF Frame, IInv, TypeOK
<1>5. Within(m, g) /\ m # g
  <2>1. Within(m, g)
    BY <1>1, <1>2, WithinFacts
  <2>2. g <= d /\ g \in Nodes /\ d < m
    BY <1>2, WithinFacts, TreeFacts
  <2>3. g \in Nat /\ m \in Nat
    BY <1>2, <2>2, TreeFacts
  <2> QED
    BY <1>1, <2>1, <2>2, <2>3
<1>6. CASE listed(m)
  BY <1>2, <1>3, <1>4, <1>5, <1>6 DEF Between
<1>7. CASE ~listed(m)
  <2>1. canonical(m) = Nowhere /\ canonical(m) = LeadsTo(m)
    BY <1>2, <1>7, Resolved DEF listed
  <2> QED
    BY <1>2, <1>5, <2>1 DEF Left, Reason
<1> QED
  BY <1>6, <1>7

\* The list of the innermost directory, one entry further.
Onward == [frames EXCEPT ![1].todo = Tail(frames[1].todo)]

LEMMA OnwardFacts ==
  ASSUME IInv, NEW m, nextEntry(m)
  PROVE  /\ Onward \in Seq(FrameSet) /\ Len(Onward) = Len(frames)
         /\ Len(frames) \in Nat /\ Len(frames) >= 1
         /\ \A k \in 1..Len(frames) : /\ Onward[k].dir = frames[k].dir
                                      /\ k # 1 => Onward[k].todo = frames[k].todo
         /\ ToSet(frames[1].todo) = {m} \union ToSet(Onward[1].todo)
<1>1. frames \in Seq(FrameSet)
  BY DEF IInv, TypeOK, FrameSet
<1>2. /\ frames # <<>> /\ Tail(frames[1].todo) \in Seq(Nodes) /\ Len(frames) >= 1
      /\ frames[1] \in [dir : Nodes, todo : Seq(Nodes)] /\ frames[1].todo # <<>>
      /\ m = Head(frames[1].todo)
  BY EntryTurn DEF nextEntry
<1>3. /\ Onward \in Seq(FrameSet) /\ Len(Onward) = Len(frames)
      /\ Onward[1].dir = frames[1].dir /\ Onward[1].todo = Tail(frames[1].todo)
      /\ \A k \in 1..Len(frames) : k # 1 => Onward[k] = frames[k]
  BY <1>1, <1>2, AdvanceFacts DEF Onward
<1>4. Len(frames) \in Nat
  BY <1>1
<1>5. ToSet(frames[1].todo) = {m} \union ToSet(Tail(frames[1].todo))
  <2>1. frames[1].todo \in Seq(Nodes)
    BY <1>2
  <2> QED
    BY <1>2, <2>1, SeqFacts
<1> QED
  BY <1>2, <1>3, <1>4, <1>5

\* What the recursion covered it still covers, or it is in that entry.
LEMMA OnwardCovers ==
  ASSUME IInv, NEW m, nextEntry(m), NEW n, NEW g, NEW k \in 1..Len(frames),
         Covered(frames, n, g, k)
  PROVE  Between(n, m, g) \/ Covered(Onward, n, g, k)
<1>1. PICK j \in 1..k : \E x \in ToSet(frames[j].todo) : Between(n, x, g)
  BY DEF Covered
<1>2. PICK x \in ToSet(frames[j].todo) : Between(n, x, g)
  BY <1>1
<1>3. j \in 1..Len(frames) /\ k \in 1..Len(frames)
  BY OnwardFacts
<1>4. x = m \/ x \in ToSet(Onward[j].todo)
  BY <1>3, OnwardFacts
<1> QED
  BY <1>2, <1>4 DEF Covered

LEMMA CoverSteps ==
  ASSUME IInv, LeftInv, [Next]_vars
  PROVE  StackCovers'
<1>0. /\ given' = given
      /\ \A n : Candidate(n)' => Candidate(n)
      /\ \A n, g : Left(n, g) => Left(n, g)'
  BY ReasonsLast, DiskSteps, ArgsKept
<1>1. ASSUME NEW k \in 1..Len(frames), NEW n \in Nodes, NEW g \in given, Candidate(n)',
             Within(n, frames[k].dir), Within(frames[k].dir, g)
      PROVE  Left(n, g)' \/ Covered(frames, n, g, k)
  BY <1>0, <1>1 DEF LeftInv, StackCovers
<1>2. ASSUME frames' = frames PROVE StackCovers'
  BY <1>0, <1>1, <1>2 DEF StackCovers, Covered
\* An entry that is passed over or removed.
<1>3. ASSUME NEW m \in Nodes, nextEntry(m), frames' = Onward,
             \A n \in Nodes, g \in given :
                Candidate(n)' /\ Between(n, m, g) => Left(n, g)'
      PROVE  StackCovers'
  <2>1. ASSUME NEW k \in 1..Len(frames'), NEW n \in Nodes, NEW g \in given, Candidate(n)',
               Within(n, frames'[k].dir), Within(frames'[k].dir, g)
        PROVE  Left(n, g)' \/ Covered(frames', n, g, k)
    <3>1. k \in 1..Len(frames) /\ frames'[k].dir = frames[k].dir
      BY <1>3, OnwardFacts
    <3>2. Left(n, g)' \/ Covered(frames, n, g, k)
      BY <1>1, <2>1, <3>1
    <3> QED
      BY <1>3, <2>1, <3>1, <3>2, OnwardCovers
  <2> QED
    BY <1>0, <2>1 DEF StackCovers
<1>4. ASSUME NEW p \in Nodes, enterPath(p) PROVE StackCovers'
  <2>1. walked(p) /\ frames' = <<Frame(p)>> /\ Frame(p).dir = p
    BY <1>4 DEF enterPath, Frame
  <2>2. Len(frames') = 1 /\ frames'[1] = Frame(p)
    BY <2>1
  <2>3. ASSUME NEW n \in Nodes, NEW g \in given, Candidate(n)', Within(n, p), Within(p, g)
        PROVE  Left(n, g)' \/ Covered(frames', n, g, 1)
    BY <1>0, <2>1, <2>2, <2>3, EntriesCover DEF Covered
  <2> QED
    BY <1>0, <2>1, <2>2, <2>3 DEF StackCovers
<1>5. ASSUME NEW m \in Nodes, enterEntry(m) PROVE StackCovers'
  <2>1. /\ nextEntry(m) /\ walked(m) /\ frames' = <<Frame(m)>> \o Onward
        /\ Frame(m).dir = m
    BY <1>5 DEF enterEntry, Frame, Onward
  <2>2. PICK f \in FrameSet : f = Frame(m)
    <3>1. entryInfoList(m) \in Seq(Nodes)
      BY EntryFacts DEF IInv, TypeOK
    <3> QED
      BY <3>1 DEF Frame, FrameSet
  <2>3. /\ Len(frames') = Len(Onward) + 1 /\ frames'[1] = Frame(m)
        /\ \A k \in 2..Len(frames') : frames'[k] = Onward[k - 1] /\ k - 1 \in 1..Len(Onward)
    BY <2>1, <2>2, OnwardFacts, PushFacts
  <2>4. Len(Onward) = Len(frames) /\ Len(frames) \in Nat
    BY <2>1, OnwardFacts
  <2>5. ASSUME NEW n \in Nodes, NEW g \in given, Candidate(n)', Within(n, m), Within(m, g),
               NEW k \in 1..Len(frames')
        PROVE  Left(n, g)' \/ Covered(frames', n, g, k)
    <3>1. Left(n, g)' \/ \E x \in ToSet(frames'[1].todo) : Between(n, x, g)
      BY <1>0, <2>1, <2>3, <2>5, EntriesCover
    <3>2. 1 \in 1..k
      BY <2>3, <2>4
    <3> QED
      BY <3>1, <3>2 DEF Covered
  <2>6. ASSUME NEW k \in 1..Len(frames'), NEW n \in Nodes, NEW g \in given, Candidate(n)',
               Within(n, frames'[k].dir), Within(frames'[k].dir, g)
        PROVE  Left(n, g)' \/ Covered(frames', n, g, k)
    <3>1. CASE k = 1
      BY <2>1, <2>3, <2>5, <2>6, <3>1
    <3>2. CASE k # 1
      <4>1. /\ k \in 2..Len(frames') /\ k - 1 \in 1..Len(frames)
            /\ frames'[k] = Onward[k - 1]
        BY <2>3, <2>4, <3>2
      <4>2. frames'[k].dir = frames[k - 1].dir
        BY <2>1, <4>1, OnwardFacts
      <4>3. Left(n, g)' \/ Covered(frames, n, g, k - 1)
        BY <1>1, <2>6, <4>1, <4>2
      <4>4. CASE Between(n, m, g)
        BY <2>5, <2>6, <4>4 DEF Between
      <4>5. CASE Covered(Onward, n, g, k - 1)
        <5>1. PICK j \in 1..(k - 1) : \E x \in ToSet(Onward[j].todo) : Between(n, x, g)
          BY <4>5 DEF Covered
        <5>2. j + 1 \in 2..Len(frames') /\ j + 1 \in 1..k /\ (j + 1) - 1 = j
          BY <2>3, <2>4
        <5>3. frames'[j + 1] = Onward[j]
          BY <2>3, <5>2
        <5> QED
          BY <5>1, <5>2, <5>3 DEF Covered
      <4> QED
        BY <2>1, <4>1, <4>3, <4>4, <4>5, OnwardCovers
    <3> QED
      BY <3>1, <3>2
  <2> QED
    BY <1>0, <2>6 DEF StackCovers
<1>6. ASSUME leaveDir PROVE StackCovers'
  <2>1. frames # <<>> /\ frames[1].todo = <<>> /\ frames' = Tail(frames)
        /\ frames \in Seq(FrameSet)
    BY <1>6 DEF leaveDir, IInv, TypeOK, FrameSet
  <2>2. /\ Len(frames') = Len(frames) - 1 /\ Len(frames) \in Nat
        /\ \A k \in 1..Len(frames') : frames'[k] = frames[k + 1] /\ k + 1 \in 1..Len(frames)
    BY <2>1, PopFacts
  <2>3. ASSUME NEW k \in 1..Len(frames'), NEW n \in Nodes, NEW g \in given, Candidate(n)',
               Within(n, frames'[k].dir), Within(frames'[k].dir, g)
        PROVE  Left(n, g)' \/ Covered(frames', n, g, k)
    <3>1. Left(n, g)' \/ Covered(frames, n, g, k + 1)
      BY <1>1, <2>2, <2>3
    <3>2. ASSUME Covered(frames, n, g, k + 1) PROVE Covered(frames', n, g, k)
      <4>1. PICK j \in 1..(k + 1) : \E x \in ToSet(frames[j].todo) : Between(n, x, g)
        BY <3>2 DEF Covered
      <4>2. j # 1
        BY <2>1, <4>1 DEF ToSet
      <4>3. j - 1 \in 1..k /\ j - 1 \in 1..Len(frames') /\ (j - 1) + 1 = j
        BY <2>2, <4>2
      <4>4. frames'[j - 1] = frames[j]
        BY <2>2, <4>3
      <4> QED
        BY <4>1, <4>3, <4>4 DEF Covered
    <3> QED
      BY <3>1, <3>2
  <2> QED
    BY <1>0, <2>3 DEF StackCovers
<1>7. ASSUME NEW m \in Nodes, passEntry(m) PROVE StackCovers'
  <2>1. nextEntry(m) /\ frames' = Onward
    BY <1>7 DEF passEntry, afterPassed, Onward
  <2> QED
    BY <1>0, <1>3, <1>7, <2>1, PassedEntry
<1>8. ASSUME NEW m \in Nodes, removeEntry(m) PROVE StackCovers'
  <2>1. nextEntry(m) /\ frames' = Onward /\ removeFile(m) /\ ~walked(m)
    BY <1>8 DEF removeEntry, Onward
  <2>2. m \in present => m \in Files
    BY <2>1, CanonicalFacts, TreeFacts
  <2> QED
    BY <1>3, <2>1, <2>2, GoneOrKept DEF Between
<1>9. ASSUME NEW p \in Nodes, passPath(p) \/ trashOrUnlinkPath(p) \/ queuePath(p)
      PROVE  frames' = frames
  BY <1>9 DEF passPath, trashOrUnlinkPath, queuePath
<1>10. ASSUME \/ pathsDone \/ removeQueued \/ queuedDone \/ removeElevated
              \/ Others \/ UNCHANGED vars
       PROVE  frames' = frames
  BY <1>10 DEF pathsDone, removeQueued, queuedDone, removeElevated, Others,
               fileWritten, vanishes, othersUnchanged, walkVars, vars
<1> QED
  BY <1>2, <1>4, <1>5, <1>6, <1>7, <1>8, <1>9, <1>10 DEF Next, cleanFiles

--------------------------------------------------------------------------------
(* The other parts. *)

LEMMA PhaseSteps ==
  ASSUME IInv, LeftInv, [Next]_vars
  PROVE  PhaseInv'
<1>2. phase \in {"paths", "remove", "elevated", "done"} /\ PhaseInv
      /\ (frames # <<>> => phase = "paths")
  BY DEF LeftInv, IInv, TypeOK, WalkInv
<1>3. ASSUME NEW n \in Nodes,
             \/ passPath(n) \/ trashOrUnlinkPath(n) \/ enterPath(n) \/ queuePath(n)
             \/ passEntry(n) \/ removeEntry(n) \/ enterEntry(n)
      PROVE  phase = "paths" /\ phase' = phase /\ rootPaths' = rootPaths
  BY <1>2, <1>3 DEF passPath, trashOrUnlinkPath, enterPath, queuePath, nextPath,
              passEntry, removeEntry, enterEntry, nextEntry
<1>4. ASSUME leaveDir
      PROVE  phase = "paths" /\ phase' = phase /\ rootPaths' = rootPaths
  BY <1>2, <1>4 DEF leaveDir
<1>5. ASSUME NEW n \in Nodes,
             \/ passPath(n) \/ trashOrUnlinkPath(n) \/ enterPath(n) \/ queuePath(n)
             \/ passEntry(n) \/ removeEntry(n) \/ enterEntry(n)
      PROVE  PhaseInv'
  BY <1>2, <1>3, <1>5 DEF PhaseInv
<1>6. ASSUME leaveDir PROVE PhaseInv'
  BY <1>2, <1>4, <1>6 DEF PhaseInv
<1>7. ASSUME pathsDone PROVE PhaseInv'
  BY <1>7 DEF pathsDone, PhaseInv
<1>8. ASSUME removeQueued PROVE PhaseInv'
  BY <1>2, <1>8 DEF removeQueued, PhaseInv
<1>9. ASSUME queuedDone \/ removeElevated PROVE PhaseInv'
  BY <1>2, <1>9 DEF queuedDone, removeElevated, PhaseInv
<1>10. ASSUME Others \/ UNCHANGED vars PROVE PhaseInv'
  <2>1. UNCHANGED walkVars
    BY <1>10 DEF Others, fileWritten, vanishes, othersUnchanged, vars, walkVars
  <2> QED
    BY <1>2, <2>1 DEF PhaseInv, walkVars
<1>11. PhaseInv'
  BY <1>5, <1>6, <1>7, <1>8, <1>9, <1>10 DEF Next, cleanFiles
<1> QED
  BY <1>11

\* The stack of directories: as it was, one more, or one less.
LEMMA StackSteps ==
  ASSUME IInv, LeftInv, [Next]_vars
  PROVE  /\ Nested'
         /\ \A k \in 1..Len(frames) :
               \/ leaveDir /\ k = 1
               \/ \E j \in 1..Len(frames') : frames'[j].dir = frames[k].dir
<1>0. /\ frames \in Seq(FrameSet) /\ Len(frames) \in Nat /\ Nested
      /\ \A k \in 1..Len(frames) : frames[k].dir \in Nodes /\ frames[k].dir \in Nat
  <2>1. frames \in Seq(FrameSet) /\ Len(frames) \in Nat
    BY DEF IInv, TypeOK, FrameSet
  <2>2. \A k \in 1..Len(frames) : frames[k].dir \in Dirs
    BY DEF IInv, WalkInv, FramesInv, FrameInv
  <2> QED
    BY <2>1, <2>2, TreeFacts DEF LeftInv
<1> DEFINE Goal == /\ Nested'
                   /\ \A k \in 1..Len(frames) :
                         \/ leaveDir /\ k = 1
                         \/ \E j \in 1..Len(frames') : frames'[j].dir = frames[k].dir
<1>1. ASSUME Len(frames') = Len(frames),
             \A k \in 1..Len(frames) : frames'[k].dir = frames[k].dir
      PROVE  Goal
  <2>1. Nested'
    <3>1. ASSUME NEW k \in 1..Len(frames), k < Len(frames) PROVE k + 1 \in 1..Len(frames)
      BY <1>0, <3>1
    <3> QED
      BY <1>0, <1>1, <3>1 DEF Nested
  <2> QED
    BY <1>1, <2>1
<1>2. ASSUME NEW p \in Nodes, enterPath(p) PROVE Goal
  <2>1. frames = <<>> /\ frames' = <<Frame(p)>> /\ Frame(p).dir = p /\ p \in Nat
    BY <1>2, TreeFacts DEF enterPath, nextPath, Frame
  <2>2. Len(frames') = 1 /\ Len(frames) = 0 /\ frames'[1].dir = p
    BY <2>1
  <2> QED
    BY <2>1, <2>2 DEF Nested
<1>3. ASSUME NEW m \in Nodes, enterEntry(m) PROVE Goal
  <2>1. /\ nextEntry(m) /\ frames' = <<Frame(m)>> \o Onward /\ Frame(m).dir = m
    BY <1>3 DEF enterEntry, Frame, Onward
  <2>2. PICK f \in FrameSet : f = Frame(m)
    <3>1. entryInfoList(m) \in Seq(Nodes)
      BY EntryFacts DEF IInv, TypeOK
    <3> QED
      BY <3>1 DEF Frame, FrameSet
  <2>3. /\ Len(frames') = Len(Onward) + 1 /\ frames'[1].dir = m
        /\ \A k \in 2..Len(frames') : frames'[k] = Onward[k - 1] /\ k - 1 \in 1..Len(Onward)
    BY <2>1, <2>2, OnwardFacts, PushFacts
  <2>4. /\ Len(frames') = Len(frames) + 1 /\ Len(frames) >= 1
        /\ \A k \in 2..Len(frames') : /\ frames'[k].dir = frames[k - 1].dir
                                      /\ k - 1 \in 1..Len(frames)
    BY <2>1, <2>3, OnwardFacts
  <2>5. Parent[m] = frames[1].dir /\ frames[1].dir < m /\ m \in Nat /\ 1 \in 1..Len(frames)
    BY <1>0, <2>1, <2>4, EntryTurn, TreeFacts
  <2>6. ASSUME NEW j \in 1..Len(frames'), NEW k \in 1..Len(frames'), j <= k
        PROVE  frames'[k].dir <= frames'[j].dir
    <3>1. CASE k = 1
      BY <2>3, <2>5, <2>6, <3>1
    <3>2. CASE k # 1 /\ j = 1
      <4>1. /\ frames'[k].dir = frames[k - 1].dir /\ k - 1 \in 1..Len(frames)
            /\ 1 <= k - 1
        BY <1>0, <2>4, <3>2
      <4>2. frames[k - 1].dir <= frames[1].dir
        BY <1>0, <2>5, <4>1 DEF Nested
      <4>3. frames[k - 1].dir \in Nat /\ frames[1].dir \in Nat
        BY <1>0, <2>5, <4>1
      <4> QED
        BY <2>3, <2>5, <3>2, <4>1, <4>2, <4>3
    <3>3. CASE k # 1 /\ j # 1
      <4>1. /\ frames'[k].dir = frames[k - 1].dir /\ k - 1 \in 1..Len(frames)
            /\ frames'[j].dir = frames[j - 1].dir /\ j - 1 \in 1..Len(frames)
            /\ j - 1 <= k - 1
        BY <1>0, <2>4, <2>6, <3>3
      <4> QED
        BY <1>0, <4>1 DEF Nested
    <3> QED
      BY <3>1, <3>2, <3>3
  <2>7. ASSUME NEW k \in 1..Len(frames'), k < Len(frames')
        PROVE  Parent[frames'[k].dir] = frames'[k + 1].dir
    <3>1. k + 1 \in 2..Len(frames') /\ (k + 1) - 1 = k
      BY <1>0, <2>4, <2>7
    <3>2. frames'[k + 1].dir = frames[k].dir
      BY <2>4, <3>1
    <3>3. CASE k = 1
      BY <2>3, <2>5, <3>2, <3>3
    <3>4. CASE k # 1
      <4>1. /\ frames'[k].dir = frames[k - 1].dir /\ k - 1 \in 1..Len(frames)
            /\ k - 1 < Len(frames) /\ (k - 1) + 1 = k
        BY <1>0, <2>4, <2>7, <3>4
      <4> QED
        BY <1>0, <3>2, <4>1 DEF Nested
    <3> QED
      BY <3>3, <3>4
  <2>8. ASSUME NEW k \in 1..Len(frames)
        PROVE  k + 1 \in 1..Len(frames') /\ frames'[k + 1].dir = frames[k].dir
    <3>1. k + 1 \in 2..Len(frames') /\ (k + 1) - 1 = k
      BY <1>0, <2>4
    <3> QED
      BY <2>4, <3>1
  <2> QED
    BY <2>6, <2>7, <2>8 DEF Nested
<1>4. ASSUME leaveDir PROVE Goal
  <2>1. frames # <<>> /\ frames' = Tail(frames)
    BY <1>4 DEF leaveDir
  <2>2. /\ Len(frames') = Len(frames) - 1
        /\ \A k \in 1..Len(frames') : frames'[k] = frames[k + 1] /\ k + 1 \in 1..Len(frames)
    BY <1>0, <2>1, PopFacts
  <2>3. ASSUME NEW j \in 1..Len(frames'), NEW k \in 1..Len(frames'), j <= k
        PROVE  frames'[k].dir <= frames'[j].dir
    <3>1. /\ j + 1 <= k + 1 /\ frames'[k] = frames[k + 1] /\ k + 1 \in 1..Len(frames)
          /\ frames'[j] = frames[j + 1] /\ j + 1 \in 1..Len(frames)
      BY <1>0, <2>2, <2>3
    <3> QED
      BY <1>0, <3>1 DEF Nested
  <2>4. ASSUME NEW k \in 1..Len(frames'), k < Len(frames')
        PROVE  Parent[frames'[k].dir] = frames'[k + 1].dir
    <3>1. k + 1 \in 1..Len(frames') /\ k + 1 < Len(frames)
      BY <1>0, <2>2, <2>4
    <3>2. /\ frames'[k] = frames[k + 1] /\ k + 1 \in 1..Len(frames)
          /\ frames'[k + 1] = frames[(k + 1) + 1]
      BY <2>2, <3>1
    <3> QED
      BY <1>0, <3>1, <3>2 DEF Nested
  <2>5. ASSUME NEW k \in 1..Len(frames), k # 1
        PROVE  k - 1 \in 1..Len(frames') /\ frames'[k - 1].dir = frames[k].dir
    <3>1. k - 1 \in 1..Len(frames') /\ (k - 1) + 1 = k
      BY <1>0, <2>2, <2>5
    <3> QED
      BY <2>2, <3>1
  <2> QED
    BY <1>4, <2>3, <2>4, <2>5 DEF Nested
<1>5. ASSUME NEW m \in Nodes, passEntry(m) \/ removeEntry(m) PROVE Goal
  <2>1. nextEntry(m) /\ frames' = Onward
    BY <1>5 DEF passEntry, removeEntry, afterPassed, Onward
  <2> QED
    BY <1>1, <2>1, OnwardFacts
<1>6. ASSUME NEW p \in Nodes, passPath(p) \/ trashOrUnlinkPath(p) \/ queuePath(p)
      PROVE  frames' = frames
  BY <1>6 DEF passPath, trashOrUnlinkPath, queuePath
<1>7. ASSUME \/ pathsDone \/ removeQueued \/ queuedDone \/ removeElevated
             \/ Others \/ UNCHANGED vars
       PROVE  frames' = frames
  BY <1>7 DEF pathsDone, removeQueued, queuedDone, removeElevated, Others,
               fileWritten, vanishes, othersUnchanged, walkVars, vars
<1> HIDE DEF Goal
<1>8. Goal
  BY <1>1, <1>2, <1>3, <1>4, <1>5, <1>6, <1>7 DEF Next, cleanFiles
<1> QED
  BY <1>8 DEF Goal

\* The loop over the paths is run once.
LEMMA OnlyOnce ==
  ASSUME IInv, [Next]_vars, phase' = "paths"
  PROVE  phase = "paths"
<1>1. ASSUME NEW n \in Nodes,
             \/ passPath(n) \/ trashOrUnlinkPath(n) \/ enterPath(n) \/ queuePath(n)
             \/ passEntry(n) \/ removeEntry(n) \/ enterEntry(n)
      PROVE  phase' = phase
  BY <1>1 DEF passPath, trashOrUnlinkPath, enterPath, queuePath, nextPath,
              passEntry, removeEntry, enterEntry, nextEntry
<1>2. CASE leaveDir \/ pathsDone \/ removeQueued \/ queuedDone \/ removeElevated
  BY <1>2 DEF leaveDir, pathsDone, removeQueued, queuedDone, removeElevated
<1>3. CASE Others \/ UNCHANGED vars
  BY <1>3 DEF Others, fileWritten, vanishes, othersUnchanged, walkVars, vars
<1> QED
  BY <1>1, <1>2, <1>3 DEF Next, cleanFiles

\* The directory of what the clean removes is in the recursion, or is counted among
\* what others changed.
LEMMA RemovedFrom ==
  ASSUME IInv, LeftInv, [Next]_vars, phase' = "paths",
         NEW n \in RemovedNow, Parent[n] \in Dirs
  PROVE  \/ Parent[n] \in stirred'
         \/ \E k \in 1..Len(frames') : frames'[k].dir = Parent[n]
<1>0. n \in present /\ n \notin present' /\ others' = others /\ Parent[n] # Nowhere
  BY TreeFacts DEF RemovedNow
<1>1. ASSUME NEW p \in Nodes, trashOrUnlinkPath(p)
      PROVE  Parent[n] \in stirred'
  <2>1. n = p
    BY <1>0, <1>1 DEF trashOrUnlinkPath, removeFile, Without, diskVars
  <2> QED
    BY <1>0, <1>1, <2>1 DEF trashOrUnlinkPath
<1>2. ASSUME NEW m \in Nodes, removeEntry(m)
      PROVE  \E k \in 1..Len(frames') : frames'[k].dir = Parent[n]
  <2>1. nextEntry(m) /\ frames' = Onward /\ n = m
    BY <1>0, <1>2 DEF removeEntry, removeFile, Without, diskVars, Onward
  <2>2. /\ Parent[n] = frames[1].dir /\ Len(frames') = Len(frames)
        /\ Len(frames) \in Nat /\ Len(frames) >= 1
        /\ \A k \in 1..Len(frames) : frames'[k].dir = frames[k].dir
    BY <2>1, EntryTurn, OnwardFacts
  <2> QED
    BY <2>2
<1>3. ASSUME leaveDir
      PROVE  \E k \in 1..Len(frames') : frames'[k].dir = Parent[n]
  <2>1. /\ Len(frames) > 1 /\ n = frames[1].dir /\ frames' = Tail(frames)
        /\ frames \in Seq(FrameSet) /\ frames # <<>>
    BY <1>0, <1>3 DEF leaveDir, Without, diskVars, IInv, TypeOK, FrameSet
  <2>2. /\ Len(frames') = Len(frames) - 1 /\ Len(frames) \in Nat
        /\ \A k \in 1..Len(frames') : frames'[k] = frames[k + 1] /\ k + 1 \in 1..Len(frames)
    BY <2>1, PopFacts
  <2>3. 1 \in 1..Len(frames') /\ 1 \in 1..Len(frames) /\ 1 + 1 = 2
    BY <2>1, <2>2
  <2>4. frames'[1] = frames[2] /\ Parent[n] = frames[2].dir
    BY <2>1, <2>2, <2>3 DEF LeftInv, Nested
  <2> QED
    BY <2>3, <2>4
<1>4. ASSUME NEW p \in Nodes,
             passPath(p) \/ enterPath(p) \/ queuePath(p) \/ passEntry(p) \/ enterEntry(p)
      PROVE  FALSE
  BY <1>0, <1>4 DEF passPath, enterPath, queuePath, passEntry, enterEntry, diskVars
<1>5. ASSUME pathsDone \/ removeQueued \/ queuedDone \/ removeElevated
      PROVE  FALSE
  BY <1>5 DEF pathsDone, removeQueued, queuedDone, removeElevated
<1>6. ASSUME Others PROVE FALSE
  <2>1. others \in Int
    BY TreeAssumption DEF IInv, TypeOK
  <2>2. others' = others + 1
    BY <1>6 DEF Others, fileWritten, vanishes, othersUnchanged
  <2> QED
    BY <1>0, <2>1, <2>2
<1>7. ASSUME UNCHANGED vars PROVE FALSE
  BY <1>0, <1>7 DEF vars, diskVars
<1> QED
  BY <1>1, <1>2, <1>3, <1>4, <1>5, <1>6, <1>7 DEF Next, cleanFiles

\* A directory that is left has been looked through.
LEMMA LeftIsFinished ==
  ASSUME IInv, LeftInv, leaveDir
  PROVE  Len(frames) \in Nat /\ Len(frames) >= 1 /\ Finished(frames[1].dir)
<1>1. Len(frames) \in Nat /\ Len(frames) >= 1 /\ frames[1].todo = <<>>
  BY DEF leaveDir, IInv, TypeOK
<1>2. ASSUME NEW n, NEW g PROVE ~Covered(frames, n, g, 1)
  BY <1>1 DEF Covered, ToSet
<1>3. 1 \in 1..Len(frames)
  BY <1>1
<1> QED
  BY <1>1, <1>2, <1>3 DEF Finished, LeftInv, StackCovers

LEMMA RecentStepsInv ==
  ASSUME IInv, LeftInv, [Next]_vars
  PROVE  RecentFiles' /\ RecentDirs'
<1>0. /\ recent' \subseteq recent \union stirred' \union {Parent[n] : n \in RemovedNow}
      /\ stirred \subseteq stirred' /\ recentAtStart' = recentAtStart
      /\ recent' \subseteq Nodes /\ RemovedNow \subseteq Nodes
      /\ \A d : Finished(d) => Finished(d)'
  BY RecentSteps, DiskSteps, ArgsKept, ReasonsLast DEF DiskStep, RemovedNow, IInv, TypeOK
<1>1. RecentFiles'
  <2>1. \A n \in Nodes : Parent[n] \in Nodes => Parent[n] \in Dirs
    BY TreeFacts
  <2> QED
    BY <1>0, <2>1 DEF LeftInv, RecentFiles
<1>2. RecentDirs'
  <2>1. SUFFICES ASSUME phase' = "paths", NEW d \in recent', d \in Dirs,
                        d \notin recentAtStart \union stirred'
                 PROVE  \/ \E k \in 1..Len(frames') : frames'[k].dir = d
                        \/ Finished(d)'
    BY <1>0 DEF RecentDirs
  <2>2. phase = "paths"
    BY <2>1, OnlyOnce
  <2>3. CASE d \in recent
    <3>1. \/ \E k \in 1..Len(frames) : frames[k].dir = d
          \/ Finished(d)
      BY <1>0, <2>1, <2>2, <2>3 DEF LeftInv, RecentDirs
    <3>2. ASSUME NEW k \in 1..Len(frames), frames[k].dir = d
          PROVE  \/ \E j \in 1..Len(frames') : frames'[j].dir = d
                 \/ Finished(d)
      BY <3>2, StackSteps, LeftIsFinished
    <3> QED
      BY <1>0, <3>1, <3>2
  <2>4. CASE d \in {Parent[n] : n \in RemovedNow}
    BY <2>1, <2>4, RemovedFrom
  <2> QED
    BY <1>0, <2>1, <2>3, <2>4
<1> QED
  BY <1>1, <1>2

--------------------------------------------------------------------------------
(* Every path is done in the end. *)

\* What is still to be done after a step.
ToDo(g) ==
    \/ g \in ToSet(todo) \union ToSet(queued)
    \/ frames # <<>> /\ frames[Len(frames)].dir = g
    \/ g \in rootPaths /\ phase # "done"

\* The turn of a path.
LEMMA PathDone ==
  ASSUME IInv, LeftInv, [Next]_vars, NEW g \in ToSet(todo),
         NEW n \in Nodes, Candidate(n)', Within(n, g)
  PROVE  Left(n, g)' \/ ToDo(g)'
<1>0. /\ todo \in Seq(Nodes) /\ queued \in Seq(Nodes) /\ Candidate(n)
      /\ Left(n, g) => Left(n, g)'
      /\ g \in given /\ g \in Nodes /\ Within(g, g) /\ todo # <<>>
  <2>1. todo \in Seq(Nodes) /\ queued \in Seq(Nodes) /\ g \in given /\ g \in Nodes
    BY SeqFacts DEF IInv, TypeOK, WalkInv
  <2> QED
    BY <2>1, ReasonsLast, WithinFacts DEF ToSet
<1>1. ASSUME NEW p \in Nodes, nextPath(p), p # g PROVE g \in ToSet(todo')
  BY <1>0, <1>1, SeqFacts DEF nextPath
<1>2. ASSUME passPath(g) PROVE Left(n, g)'
  BY <1>0, <1>2, PassedPath
<1>3. ASSUME trashOrUnlinkPath(g) PROVE Left(n, g)'
  <2>1. removeFile(g) /\ (toTrash \/ isSymLink(g)) /\ nextPath(g)
    BY <1>3 DEF trashOrUnlinkPath
  <2>2. g \in Files
    BY <1>0, <2>1, TreeAssumption DEF isSymLink, IInv, TypeOK, ArgInv
  <2> QED
    BY <1>0, <2>1, <2>2, GoneOrKept
<1>4. ASSUME enterPath(g) PROVE ToDo(g)'
  <2>1. frames' = <<Frame(g)>> /\ Frame(g).dir = g
    BY <1>4 DEF enterPath, Frame
  <2>2. frames' # <<>> /\ Len(frames') = 1 /\ frames'[1].dir = g
    BY <2>1
  <2> QED
    BY <2>2 DEF ToDo
<1>5. ASSUME queuePath(g) PROVE ToDo(g)'
  <2>1. g \in ToSet(queued')
    BY <1>0, <1>5, AppendFacts DEF queuePath
  <2> QED
    BY <2>1 DEF ToDo
<1>6. ASSUME NEW p \in Nodes,
             passPath(p) \/ trashOrUnlinkPath(p) \/ enterPath(p) \/ queuePath(p)
      PROVE  Left(n, g)' \/ ToDo(g)'
  <2>1. CASE p # g
    <3>1. g \in ToSet(todo')
      BY <1>1, <1>6, <2>1 DEF passPath, trashOrUnlinkPath, enterPath, queuePath
    <3> QED
      BY <3>1 DEF ToDo
  <2>2. CASE p = g
    BY <1>2, <1>3, <1>4, <1>5, <1>6, <2>2
  <2> QED
    BY <2>1, <2>2
<1>7. ASSUME \/ \E m \in Nodes : passEntry(m) \/ removeEntry(m) \/ enterEntry(m)
             \/ leaveDir \/ removeQueued \/ queuedDone \/ removeElevated
             \/ Others \/ UNCHANGED vars
      PROVE  ToDo(g)'
  <2>1. todo' = todo
    BY <1>7 DEF passEntry, removeEntry, enterEntry, nextEntry, leaveDir, removeQueued,
                queuedDone, removeElevated, Others, fileWritten, vanishes,
                othersUnchanged, walkVars, vars
  <2> QED
    BY <2>1 DEF ToDo
<1>8. ASSUME pathsDone PROVE FALSE
  BY <1>0, <1>8 DEF pathsDone
<1> QED
  BY <1>6, <1>7, <1>8 DEF Next, cleanFiles

\* What is in a path that was gone came back, by others.
LEMMA QueuedIsFile ==
  ASSUME IInv, NEW g \in ToSet(queued) \union rootPaths,
         NEW n \in Nodes, Candidate(n), Within(n, g)
  PROVE  g \in Nodes /\ g \in Files
<1>1. QueuedInv(g)
  BY DEF IInv, QueueInv
<1>2. g \notin gone
  BY DEF IInv, GoneInv, Candidate
<1> QED
  BY <1>1, <1>2, TreeFacts DEF QueuedInv, Judged

\* The turn of a file of the queue.
LEMMA QueuedDone ==
  ASSUME IInv, LeftInv, [Next]_vars, NEW g \in ToSet(queued),
         NEW n \in Nodes, Candidate(n)', Within(n, g)
  PROVE  Left(n, g)' \/ ToDo(g)'
<1>0. queued \in Seq(Nodes) /\ g \in Nodes /\ g \in Files /\ Within(g, g) /\ queued # <<>>
  <2>1. queued \in Seq(Nodes) /\ g \in Nodes /\ g \in Files
    BY ReasonsLast, QueuedIsFile DEF IInv, TypeOK
  <2> QED
    BY <2>1, WithinFacts DEF ToSet
<1>1. ASSUME removeQueued PROVE Left(n, g)' \/ ToDo(g)'
  <2>1. ToSet(queued) = {Head(queued)} \union ToSet(queued') /\ removeFile(Head(queued))
    BY <1>0, <1>1, SeqFacts DEF removeQueued
  <2>2. CASE g = Head(queued)
    BY <1>0, <2>1, <2>2, GoneOrKept
  <2>3. CASE g # Head(queued)
    BY <2>1, <2>3 DEF ToDo
  <2> QED
    BY <2>2, <2>3
<1>2. ASSUME pathsDone PROVE ToDo(g)'
  <2>1. /\ queued' = userPaths /\ phase' = "remove"
        /\ rootPaths' = {p \in ToSet(queued) : ~currentUserOwns(p)}
    BY <1>2 DEF pathsDone
  <2>2. g \in ToSet(queued') \/ g \in rootPaths'
    BY <1>0, <2>1, UserPathsFacts
  <2> QED
    BY <2>1, <2>2 DEF ToDo
<1>3. ASSUME NEW p \in Nodes, queuePath(p) PROVE ToDo(g)'
  <2>1. ToSet(queued') = ToSet(queued) \union {p}
    BY <1>0, <1>3, AppendFacts DEF queuePath
  <2> QED
    BY <2>1 DEF ToDo
<1>4. ASSUME NEW p \in Nodes,
             \/ passPath(p) \/ trashOrUnlinkPath(p) \/ enterPath(p)
             \/ passEntry(p) \/ removeEntry(p) \/ enterEntry(p)
      PROVE  queued' = queued
  BY <1>4 DEF passPath, trashOrUnlinkPath, enterPath,
              passEntry, removeEntry, enterEntry, nextEntry
<1>5. ASSUME leaveDir \/ Others \/ UNCHANGED vars
      PROVE  queued' = queued
  BY <1>5 DEF leaveDir, Others, fileWritten, vanishes, othersUnchanged, walkVars, vars
<1>6. ASSUME queuedDone \/ removeElevated PROVE FALSE
  BY <1>0, <1>6 DEF queuedDone, removeElevated, LeftInv, PhaseInv
<1>7. ASSUME queued' = queued PROVE ToDo(g)'
  BY <1>7 DEF ToDo
<1> QED
  BY <1>1, <1>2, <1>3, <1>4, <1>5, <1>6, <1>7 DEF Next, cleanFiles

\* The turn of the directory that is walked through.
LEMMA WalkDone ==
  ASSUME IInv, LeftInv, [Next]_vars, NEW g \in given, frames # <<>>, frames[Len(frames)].dir = g,
         NEW n \in Nodes, Candidate(n)', Within(n, g)
  PROVE  Left(n, g)' \/ ToDo(g)'
<1>0. /\ frames \in Seq(FrameSet) /\ Len(frames) \in Nat /\ Len(frames) >= 1
      /\ Candidate(n) /\ (Left(n, g) => Left(n, g)') /\ phase = "paths"
  <2>1. frames \in Seq(FrameSet) /\ phase = "paths"
    BY DEF IInv, TypeOK, WalkInv, FrameSet
  <2>2. Len(frames) \in Nat /\ Len(frames) >= 1
    BY <2>1
  <2> QED
    BY <2>1, <2>2, ReasonsLast
<1>1. ASSUME NEW m \in Nodes, passEntry(m) \/ removeEntry(m) PROVE ToDo(g)'
  <2>1. nextEntry(m) /\ frames' = Onward
    BY <1>1 DEF passEntry, removeEntry, afterPassed, Onward
  <2>2. /\ Len(frames') = Len(frames) /\ frames'[Len(frames)].dir = frames[Len(frames)].dir
        /\ frames' \in Seq(FrameSet)
    BY <1>0, <2>1, OnwardFacts
  <2>3. frames' # <<>>
    BY <1>0, <2>2
  <2> QED
    BY <2>2, <2>3 DEF ToDo
<1>2. ASSUME NEW m \in Nodes, enterEntry(m) PROVE ToDo(g)'
  <2>1. nextEntry(m) /\ frames' = <<Frame(m)>> \o Onward
    BY <1>2 DEF enterEntry, Onward
  <2>2. PICK f \in FrameSet : f = Frame(m)
    <3>1. entryInfoList(m) \in Seq(Nodes)
      BY EntryFacts DEF IInv, TypeOK
    <3> QED
      BY <3>1 DEF Frame, FrameSet
  <2>3. /\ Len(frames') = Len(Onward) + 1 /\ frames' \in Seq(FrameSet)
        /\ \A k \in 2..Len(frames') : frames'[k] = Onward[k - 1] /\ k - 1 \in 1..Len(Onward)
    BY <2>1, <2>2, OnwardFacts, PushFacts
  <2>4. Len(frames') = Len(frames) + 1 /\ frames'[Len(frames) + 1] = Onward[Len(frames)]
    <3>1. Len(Onward) = Len(frames)
      BY <2>1, OnwardFacts
    <3>2. Len(frames) + 1 \in 2..Len(frames') /\ (Len(frames) + 1) - 1 = Len(frames)
      BY <1>0, <2>3, <3>1
    <3> QED
      BY <2>3, <3>1, <3>2
  <2>5. Onward[Len(frames)].dir = frames[Len(frames)].dir
    BY <1>0, <2>1, OnwardFacts
  <2>6. frames' # <<>>
    BY <1>0, <2>3, <2>4
  <2> QED
    BY <2>4, <2>5, <2>6 DEF ToDo
<1>3. ASSUME leaveDir PROVE Left(n, g)' \/ ToDo(g)'
  <2>1. frames' = Tail(frames)
    BY <1>3 DEF leaveDir
  <2>2. /\ Len(frames') = Len(frames) - 1 /\ frames' \in Seq(FrameSet)
        /\ \A k \in 1..Len(frames') : frames'[k] = frames[k + 1] /\ k + 1 \in 1..Len(frames)
    BY <1>0, <2>1, PopFacts
  <2>3. CASE Len(frames) = 1
    <3>1. Finished(g)
      BY <1>3, <2>3, LeftIsFinished
    <3>2. 1 \in 1..Len(frames) /\ frames[1].dir = g
      BY <2>3
    <3>3. Within(g, g)
      BY <3>2, TreeFacts, WithinFacts DEF IInv, WalkInv, FrameInv
    <3> QED
      BY <1>0, <3>1, <3>3 DEF Finished
  <2>4. CASE Len(frames) # 1
    <3>1. Len(frames) - 1 \in 1..Len(frames') /\ (Len(frames) - 1) + 1 = Len(frames)
      BY <1>0, <2>2, <2>4
    <3>2. frames'[Len(frames')] = frames[Len(frames)]
      BY <2>2, <3>1
    <3>3. frames' # <<>>
      BY <2>2, <3>1
    <3> QED
      BY <3>2, <3>3 DEF ToDo
  <2> QED
    BY <2>3, <2>4
<1>4. ASSUME NEW p \in Nodes,
             passPath(p) \/ trashOrUnlinkPath(p) \/ enterPath(p) \/ queuePath(p)
      PROVE  FALSE
  BY <1>4 DEF passPath, trashOrUnlinkPath, enterPath, queuePath, nextPath
<1>5. ASSUME pathsDone \/ removeQueued \/ queuedDone \/ removeElevated PROVE FALSE
  BY <1>0, <1>5 DEF pathsDone, removeQueued, queuedDone, removeElevated
<1>6. ASSUME Others \/ UNCHANGED vars PROVE ToDo(g)'
  <2>1. frames' = frames
    BY <1>6 DEF Others, fileWritten, vanishes, othersUnchanged, walkVars, vars
  <2> QED
    BY <2>1 DEF ToDo
<1> QED
  BY <1>1, <1>2, <1>3, <1>4, <1>5, <1>6 DEF Next, cleanFiles

\* The removal as root.
LEMMA RootDone ==
  ASSUME IInv, LeftInv, [Next]_vars, NEW g \in rootPaths, phase # "done",
         NEW n \in Nodes, Candidate(n)', Within(n, g)
  PROVE  Left(n, g)' \/ ToDo(g)'
<1>0. phase # "paths" /\ g \in Nodes /\ g \in Files /\ Within(g, g)
  <2>1. phase # "paths" /\ g \in Nodes /\ g \in Files
    BY ReasonsLast, QueuedIsFile DEF LeftInv, PhaseInv
  <2> QED
    BY <2>1, WithinFacts
<1>1. ASSUME removeElevated PROVE Left(n, g)'
  <2>1. PICK S \in SUBSET Inside(rootPaths) :
               Without(S) /\ kept' = kept \union (Inside(rootPaths) \ S)
    BY <1>1 DEF removeElevated
  <2>2. n \in present /\ n \in present'
    BY ReasonsLast DEF Candidate
  <2>3. n \in Inside(rootPaths) \ S
    BY <2>1, <2>2 DEF Without, Inside
  <2>4. n \in kept' /\ n \in Above[n]
    BY <2>1, <2>3, WithinFacts DEF Within
  <2> QED
    BY <2>4 DEF Left, Reason
<1>2. ASSUME removeQueued \/ queuedDone \/ Others \/ UNCHANGED vars
      PROVE  ToDo(g)'
  <2>1. rootPaths' = rootPaths /\ phase' # "done"
    BY <1>2 DEF removeQueued, queuedDone, Others, fileWritten, vanishes,
                othersUnchanged, walkVars, vars
  <2> QED
    BY <2>1 DEF ToDo
<1>3. ASSUME pathsDone PROVE FALSE
  BY <1>0, <1>3 DEF pathsDone
<1>4. ASSUME \/ leaveDir
             \/ \E m \in Nodes : \/ passPath(m) \/ trashOrUnlinkPath(m) \/ enterPath(m)
                               \/ queuePath(m) \/ passEntry(m) \/ removeEntry(m)
                               \/ enterEntry(m)
      PROVE  FALSE
  <2>1. frames # <<>> => phase = "paths"
    BY DEF IInv, WalkInv
  <2> QED
    BY <1>0, <1>4, <2>1 DEF passPath, trashOrUnlinkPath, enterPath, queuePath, nextPath,
              passEntry, removeEntry, enterEntry, nextEntry, leaveDir
<1> QED
  BY <1>1, <1>2, <1>3, <1>4 DEF Next, cleanFiles

LEMMA AllCoveredSteps ==
  ASSUME IInv, LeftInv, [Next]_vars
  PROVE  AllCovered'
<1>0. given' = given
  BY DiskSteps, ArgsKept
<1>1. ASSUME NEW n \in Nodes, NEW g \in given, Candidate(n)', Within(n, g)
      PROVE  Left(n, g)' \/ ToDo(g)'
  <2>1. Candidate(n) /\ (Left(n, g) => Left(n, g)')
    BY <1>1, ReasonsLast
  <2>2. Left(n, g) \/ ToDo(g)
    BY <1>1, <2>1 DEF LeftInv, AllCovered, ToDo
  <2>3. CASE g \in ToSet(todo)
    BY <1>1, <2>3, PathDone
  <2>4. CASE g \in ToSet(queued)
    BY <1>1, <2>4, QueuedDone
  <2>5. CASE frames # <<>> /\ frames[Len(frames)].dir = g
    BY <1>1, <2>5, WalkDone
  <2>6. CASE g \in rootPaths /\ phase # "done"
    BY <1>1, <2>6, RootDone
  <2> QED
    BY <2>1, <2>2, <2>3, <2>4, <2>5, <2>6 DEF ToDo
<1> QED
  BY <1>0, <1>1 DEF AllCovered, ToDo

LEMMA InitLeft == Init => LeftInv
<1> SUFFICES ASSUME Init PROVE LeftInv
  OBVIOUS
<1>1. /\ phase = "paths" /\ frames = <<>> /\ queued = <<>> /\ rootPaths = {}
      /\ given = ToSet(todo) /\ recentAtStart = recent /\ present = Nodes
      /\ IInv
  BY InitInv DEF Init
<1>2. Len(frames) = 0
  BY <1>1
<1>4. PhaseInv /\ Nested
  BY <1>1, <1>2 DEF PhaseInv, Nested
<1>5. RecentFiles /\ RecentDirs
  BY <1>1 DEF RecentFiles, RecentDirs
<1>6. StackCovers
  BY <1>2 DEF StackCovers
<1>7. AllCovered
  BY <1>1 DEF AllCovered
<1> QED
  BY <1>4, <1>5, <1>6, <1>7 DEF LeftInv

LEMMA StepKeepsLeft == IInv /\ LeftInv /\ [Next]_vars => LeftInv'
<1> SUFFICES ASSUME IInv, LeftInv, [Next]_vars PROVE LeftInv'
  OBVIOUS
<1> QED
  BY PhaseSteps, StackSteps, RecentStepsInv, CoverSteps, AllCoveredSteps DEF LeftInv

--------------------------------------------------------------------------------
(* Theorems. *)

LEMMA Invariance == Spec => []IInv
<1> QED
  BY InitInv, StepKeepsInv, PTL DEF Spec

\* The arguments, the disk and the walk have their types; what is on the disk is in
\* a directory that is (removeDirContentsRespectingExclusions() removes a directory
\* when nothing is in it).
THEOREM TypeCorrect == Spec => []TypeOK
<1>1. IInv => TypeOK
  BY DEF IInv
<1> QED
  BY <1>1, Invariance, PTL

\* cleanFiles() removes nothing but what is in the paths it was given: not what a
\* link among them or inside them leads to, whatever other programs do meanwhile.
THEOREM OnlyTheGiven == Spec => OnlyGivenIsRemoved
<1>1. ASSUME IInv, [Next]_vars
      PROVE  \A n \in RemovedNow : \E g \in given : Within(n, g)
  BY <1>1, DiskSteps DEF RemovedNow, DiskStep, MayRemove
<1>2. IInv /\ [Next]_vars => [\A n \in RemovedNow : \E g \in given : Within(n, g)]_vars
  BY <1>1
<1> QED
  BY <1>2, Invariance, PTL DEF Spec, OnlyGivenIsRemoved

\* What isExcluded() protects, it protects at every depth, in the queue of the files
\* and in the removal as root, though the test is made long before; all but what
\* comes back under a given path that was gone when cleanFiles() looked at it.
THEOREM ExclusionsHold == Spec => ExcludedSurvive
<1>1. ASSUME IInv, [Next]_vars
      PROVE  \A n \in RemovedNow :
                Protected(n) => phase # "paths" /\ \E p \in gone : Within(n, p)
  <2> SUFFICES ASSUME NEW n \in RemovedNow, Protected(n)
               PROVE  phase # "paths" /\ \E p \in gone : Within(n, p)
    OBVIOUS
  <2>1. n \in present /\ n \in Nodes /\ MayRemove(n)
    BY <1>1, DiskSteps DEF RemovedNow, DiskStep, IInv, TypeOK
  <2> QED
    BY <1>1, <2>1, ProtectedFacts DEF MayRemove
<1>2. IInv /\ [Next]_vars =>
        [\A n \in RemovedNow :
            Protected(n) => phase # "paths" /\ \E p \in gone : Within(n, p)]_vars
  BY <1>1
<1> QED
  BY <1>2, Invariance, PTL DEF Spec, ExcludedSurvive

\* minFileAgeSecs: a file that was recent when the clean began is not removed, and
\* no link to one, whatever the clean does to the directories around it.
THEOREM RecentIsKept == Spec => RecentSurvive
<1> DEFINE Old(n) == n \notin Dirs /\ ~(n \in given /\ isDir(n))
                       => ~limited \/ canonical(n) \notin recentAtStart \ stirred
<1>1. ASSUME IInv, [Next]_vars
      PROVE  \A n \in RemovedNow : Old(n)
  BY <1>1, DiskSteps DEF RemovedNow, DiskStep, MayRemove, Untouched
<1>2. IInv /\ [Next]_vars => [\A n \in RemovedNow : Old(n)]_vars
  BY <1>1
<1> QED
  BY <1>2, Invariance, PTL DEF Spec, RecentSurvive

\* When the clean is over, whatever is still there of what it was given, and was not
\* changed by others, is there for a reason: an exclusion, a removal that failed, its
\* age or that of a directory around it, or that it is a link inside which leads
\* nowhere and so is not listed.  cleanFiles() forgets nothing else.
THEOREM NothingIsForgotten == Spec => []LeftHasReason
<1>1. ASSUME IInv, LeftInv PROVE LeftHasReason
  <2> SUFFICES ASSUME phase = "done",
                      NEW n \in present \ (Dirs \union stirred), NEW g \in given,
                      Within(n, g),
                      n \in Links => target[n] \in (present \ stirred) \union {Nowhere}
               PROVE  \E a \in Above[n] : Within(a, g) /\ Reason(a, g)
    BY DEF LeftHasReason
  <2>1. n \in Nodes /\ Candidate(n)
    BY <1>1 DEF IInv, TypeOK, Candidate
  <2>2. ToSet(todo) = {} /\ ToSet(queued) = {} /\ frames = <<>>
    BY <1>1 DEF LeftInv, PhaseInv, IInv, WalkInv, ToSet
  <2> QED
    BY <1>1, <2>1, <2>2 DEF LeftInv, AllCovered, Left
<1>2. IInv /\ LeftInv => LeftHasReason
  BY <1>1
<1> QED
  BY <1>2, InitLeft, StepKeepsLeft, Invariance, PTL DEF Spec
================================================================================
