----------------------------- MODULE ImportProofs ------------------------------
(***************************************************************************)
(* Theorems about Import for any documents, forms, bounds and failures:    *)
(* what HomeScreen shows after an import is the tree of the document, no   *)
(* endpoint is added twice, and what is reported is on the disk.           *)
(***************************************************************************)
EXTENDS Import, CodecProofs

(* Turn i of a loop takes a value of G[i - 1] to one of G[i], by F[i]; g   *)
(* is the values it passes through.                                        *)
Turns(n, G, F, start) ==
    start \in G[0] /\ \A i \in 1..n : \A r \in G[i - 1] : F[i][r] \in G[i]
Passes(n, G, F, start, g) ==
    /\ g = [i \in 0..n |-> g[i]] /\ g[0] = start
    /\ \A i \in 1..n : g[i - 1] \in G[i - 1] /\ g[i] = F[i][g[i - 1]]

(* A loop whose turns stay within what is allowed at each count runs to    *)
(* its end.                                                                *)
LEMMA LoopRuns ==
  ASSUME NEW n \in Nat, NEW G, NEW F, NEW start, Turns(n, G, F, start)
  PROVE  \E g : Passes(n, G, F, start, g)
<1> USE DEF Turns, Passes
<1> DEFINE Runs(k, g) == /\ g = [i \in 0..k |-> g[i]] /\ g[0] = start /\ g[k] \in G[k]
                         /\ \A i \in 1..k : g[i - 1] \in G[i - 1] /\ g[i] = F[i][g[i - 1]]
           S == {k \in Nat : k <= n => \E g : Runs(k, g)}
<1>1. 0 \in S
  <2>1. Runs(0, [i \in 0..0 |-> start])
    OBVIOUS
  <2>2. QED
    BY <2>1
<1>2. ASSUME NEW k \in Nat, k \in S PROVE k + 1 \in S
  <2> SUFFICES ASSUME k + 1 <= n PROVE \E g : Runs(k + 1, g)
    OBVIOUS
  <2>1. PICK g : Runs(k, g)
    BY <1>2
  <2> DEFINE h == [i \in 0..(k + 1) |-> IF i = k + 1 THEN F[k + 1][g[k]] ELSE g[i]]
  <2>2. h[k + 1] = F[k + 1][g[k]] /\ \A i \in 0..k : h[i] = g[i]
    OBVIOUS
  <2>3. h = [i \in 0..(k + 1) |-> h[i]]
    OBVIOUS
  <2> HIDE DEF h
  <2>4. h[k + 1] \in G[k + 1] /\ k + 1 \in 1..n /\ (k + 1) - 1 = k
    <3>1. k + 1 \in 1..n /\ (k + 1) - 1 = k
      OBVIOUS
    <3>2. \A r \in G[(k + 1) - 1] : F[k + 1][r] \in G[k + 1]
      BY <3>1
    <3>3. g[k] \in G[(k + 1) - 1]
      BY <2>1, <3>1
    <3>4. QED
      BY <2>2, <3>1, <3>2, <3>3
  <2>5. ASSUME NEW i \in 1..(k + 1)
        PROVE  h[i - 1] \in G[i - 1] /\ h[i] = F[i][h[i - 1]]
    <3>1. CASE i = k + 1
      <4>1. h[k] = g[k] /\ g[k] \in G[k]
        BY <2>1, <2>2
      <4>2. QED
        BY <2>2, <2>4, <3>1, <4>1
    <3>2. CASE i \in 1..k
      <4>1. h[i] = g[i] /\ h[i - 1] = g[i - 1]
        BY <2>2, <3>2
      <4>2. g[i - 1] \in G[i - 1] /\ g[i] = F[i][g[i - 1]]
        BY <2>1, <3>2
      <4>3. QED
        BY <4>1, <4>2, Zenon
    <3>3. i = k + 1 \/ i \in 1..k
      OBVIOUS
    <3>4. QED
      BY <3>1, <3>2, <3>3, Zenon
  <2>6. h[0] = start
    BY <2>1, <2>2
  <2>7. Runs(k + 1, h)
    BY <2>3, <2>4, <2>5, <2>6, Zenon
  <2>8. QED
    BY <2>7
<1>3. Nat \subseteq S
  <2> HIDE DEF S
  <2>1. QED
    BY <1>1, <1>2, Induction
<1>4. PICK g : Runs(n, g)
  BY <1>3
<1>5. QED
  BY <1>4

(* and however it goes, it ends in G[n].                                   *)
LEMMA LoopEnds ==
  ASSUME NEW n \in Nat, NEW G, NEW h, h[0] \in G[0],
         \A i \in 1..n : h[i - 1] \in G[i - 1] => h[i] \in G[i]
  PROVE  h[n] \in G[n]
<1> DEFINE S == {k \in Nat : k <= n => h[k] \in G[k]}
<1>1. 0 \in S
  OBVIOUS
<1>2. ASSUME NEW k \in Nat, k \in S PROVE k + 1 \in S
  <2> SUFFICES ASSUME k + 1 <= n PROVE h[k + 1] \in G[k + 1]
    OBVIOUS
  <2>1. k + 1 \in 1..n /\ (k + 1) - 1 = k /\ h[k] \in G[k]
    BY <1>2
  <2>2. h[(k + 1) - 1] \in G[(k + 1) - 1] => h[k + 1] \in G[k + 1]
    BY <2>1
  <2>3. QED
    BY <2>1, <2>2, Zenon
<1>3. Nat \subseteq S
  <2> HIDE DEF S
  <2>1. QED
    BY <1>1, <1>2, Induction
<1>4. QED
  BY <1>3

-----------------------------------------------------------------------------
(* A node is reached when it is at the top or in a container that is.      *)
LEMMA ReachedBy ==
  ASSUME NEW d, IsDocument(d), NEW n \in DOMAIN d.nodes
  PROVE  /\ d.nodes[n].parent \in 0..(n - 1)
         /\ n \in Reached(d) <=> \/ d.nodes[n].parent = 0
                                 \/ d.nodes[n].parent \in Containers(d)
<1> DEFINE p == d.nodes[n].parent
           parent(j) == d.nodes[j].parent
<1>1. /\ Len(d.nodes) \in Nat /\ DOMAIN d.nodes = 1..Len(d.nodes)
      /\ \A i \in 1..Len(d.nodes) :
             /\ parent(i) \in 0..(i - 1)
             /\ \A j \in (parent(i) + 1)..(i - 1) : parent(j) >= parent(i)
  BY DEF IsDocument, InOrder
<1>2. n \in 1..Len(d.nodes) /\ p \in 0..(n - 1) /\ p < n
  BY <1>1
<1>3. \A j \in (p + 1)..(n - 1) : parent(j) >= p
  BY <1>1
<1>4. ASSUME NEW m \in DOMAIN d.nodes
      PROVE  Below(d, m, n) <=> p # 0 /\ (m = p \/ Below(d, m, p))
  <2>1. m \in Nat /\ m >= 1 /\ \A j \in 1..Len(d.nodes) : parent(j) \in Nat
    BY <1>1
  <2>2. ASSUME Below(d, m, n) PROVE p # 0 /\ (m = p \/ Below(d, m, p))
    <3>1. m < n /\ \A j \in (m + 1)..n : parent(j) >= m
      BY <2>2 DEF Below
    <3>2. p >= m
      BY <1>2, <2>1, <3>1
    <3>3. p > m => \A j \in (m + 1)..p : parent(j) >= m
      BY <1>2, <2>1, <3>1
    <3>4. QED
      BY <1>2, <2>1, <3>2, <3>3 DEF Below
  <2>3. ASSUME p # 0, m = p \/ Below(d, m, p) PROVE Below(d, m, n)
    <3>1. m <= p /\ \A j \in (m + 1)..p : parent(j) >= m
      BY <1>2, <2>1, <2>3 DEF Below
    <3>2. ASSUME NEW j \in (m + 1)..n PROVE parent(j) >= m
      <4>1. CASE j <= p
        BY <2>1, <3>1, <4>1
      <4>2. CASE j = n
        BY <1>2, <2>1, <3>1, <4>2
      <4>3. CASE j \in (p + 1)..(n - 1)
        <5>1. parent(j) >= p /\ parent(j) \in Nat
          BY <1>2, <1>3, <2>1, <4>3
        <5>2. QED
          BY <1>2, <2>1, <3>1, <5>1
      <4>4. QED
        BY <1>2, <2>1, <4>1, <4>2, <4>3
    <3>3. QED
      BY <1>2, <2>1, <3>1, <3>2 DEF Below
  <2>4. QED
    BY <2>2, <2>3
<1>5. p # 0 => p \in DOMAIN d.nodes
  BY <1>1, <1>2
<1>6. n \in Reached(d) <=> p = 0 \/ p \in Containers(d)
  <2> HIDE DEF p
  <2>1. n \in Reached(d) <=> \A m \in DOMAIN d.nodes : Below(d, m, n) => IsContainer(d.nodes[m])
    BY DEF Reached
  <2>2. p # 0 =>
          (p \in Containers(d) <=>
             /\ \A m \in DOMAIN d.nodes : Below(d, m, p) => IsContainer(d.nodes[m])
             /\ IsContainer(d.nodes[p]))
    BY <1>5 DEF Containers, Reached
  <2>3. p = 0 => p \notin Containers(d)
    BY <1>1 DEF Containers, Reached
  <2>4. QED
    BY <1>4, <1>5, <2>1, <2>2, <2>3, Zenon
<1>7. QED
  BY <1>2, <1>6

-----------------------------------------------------------------------------
(* What parse_nodes may have found when it has seen k nodes: of each       *)
(* container visited a folder of its own, inside the one for that it is    *)
(* in, of each leaf a connection there, and nothing else.                  *)
FolderOf(d) ==
    {[id |-> id, name |-> Name(d.nodes[n]), parent_id |-> parent] :
         id \in Nat, n \in DOMAIN d.nodes, parent \in Option(Nat)}
ConnectionOf(d) ==
    {ToConnection(d.nodes[n], id, parent) :
         id \in Nat, n \in DOMAIN d.nodes, parent \in Option(Nat)}
Results(d) ==
    [connections: Seq(ConnectionOf(d)), folders: Seq(FolderOf(d)), ids: Nat,
     folder: [0..Len(d.nodes) -> Option(Nat) \cup {None}]]

Opened(d, r, k) ==
    /\ r.folder[0] = Null /\ r.ids >= ids
    /\ \A n \in DOMAIN d.nodes :
           IF n <= k /\ n \in Containers(d)
           THEN r.folder[n] \in (ids + 1)..r.ids
           ELSE r.folder[n] = None
    /\ \A m, n \in Containers(d) :
           m <= k /\ n <= k /\ r.folder[m] = r.folder[n] => m = n
FoldersFound(d, r, k) ==
    /\ \A j \in 1..Len(r.folders) : \E n \in Containers(d) :
           n <= k /\ r.folders[j] = FolderFor(d, r.folder, n)
    /\ \A n \in Containers(d) : n <= k =>
           \E j \in 1..Len(r.folders) : r.folders[j] = FolderFor(d, r.folder, n)
    /\ UniqueIds(r.folders)
ConnectionsFound(d, r, k) ==
    /\ \A j \in 1..Len(r.connections) :
           /\ r.connections[j].id \in (ids + 1)..r.ids
           /\ \E n \in Leaves(d) : n <= k /\ IsFor(r.connections[j], d, r.folder, n)
    /\ \A n \in Leaves(d) : n <= k =>
           \E j \in 1..Len(r.connections) : IsFor(r.connections[j], d, r.folder, n)
Found(d, r, k) == Opened(d, r, k) /\ FoldersFound(d, r, k) /\ ConnectionsFound(d, r, k)

(* The node that is visited, as the visit sees it.                         *)
LEMMA Placed ==
  ASSUME ids \in Nat, NEW d, IsDocument(d), NEW i \in 1..Len(d.nodes),
         NEW r, r \in Results(d), Opened(d, r, i - 1)
  PROVE  LET parent == r.folder[d.nodes[i].parent]
         IN  /\ parent \in Option(Nat) \cup {None}
             /\ i \in Reached(d) <=> parent # None
             /\ parent = Home(d, r.folder, i)
<1> DEFINE p == d.nodes[i].parent
<1>1. Len(d.nodes) \in Nat /\ DOMAIN d.nodes = 1..Len(d.nodes)
  BY DEF IsDocument
<1>2. p \in 0..(i - 1) /\ (i \in Reached(d) <=> p = 0 \/ p \in Containers(d))
  <2>1. i \in DOMAIN d.nodes
    BY <1>1
  <2>2. QED
    BY <2>1, ReachedBy
<1>3. None \notin Nat /\ None # Null
  BY ImportAssumption DEF Option
<1>4. r.folder[p] = Home(d, r.folder, i)
  BY DEF Home, Opened
<1> HIDE DEF p
<1>5. p \in 0..Len(d.nodes) /\ (p # 0 => p \in DOMAIN d.nodes /\ p <= i - 1)
  <2>1. p \in 0..(i - 1)
    BY <1>2
  <2>2. p \in 0..Len(d.nodes) /\ (p # 0 => p \in 1..Len(d.nodes) /\ p <= i - 1)
    BY <1>1, <2>1
  <2>3. QED
    BY <1>1, <2>2, Zenon
<1>6. r.folder[p] \in Option(Nat) \cup {None}
  <2>1. r.folder \in [0..Len(d.nodes) -> Option(Nat) \cup {None}]
    BY DEF Results
  <2>2. QED
    BY <1>5, <2>1
<1>7. p # 0 => IF p \in Containers(d) THEN r.folder[p] \in Nat ELSE r.folder[p] = None
  <2>1. p # 0 => IF p <= i - 1 /\ p \in Containers(d)
                 THEN r.folder[p] \in (ids + 1)..r.ids
                 ELSE r.folder[p] = None
    BY <1>5 DEF Opened
  <2>2. ids \in Nat /\ r.ids \in Nat
    BY DEF Results
  <2>3. \A x \in (ids + 1)..r.ids : x \in Nat
    BY <2>2
  <2>4. QED
    BY <1>5, <2>1, <2>3, Zenon
<1>8. i \in Reached(d) <=> r.folder[p] # None
  <2>1. r.folder[0] = Null
    BY DEF Opened
  <2>2. 0 \notin Containers(d)
    BY <1>1 DEF Containers, Reached
  <2>3. CASE p = 0
    BY <1>2, <1>3, <2>1, <2>3, Zenon
  <2>4. CASE p # 0 /\ p \in Containers(d)
    BY <1>2, <1>3, <1>7, <2>4, Zenon
  <2>5. CASE p # 0 /\ p \notin Containers(d)
    BY <1>2, <1>7, <2>5, Zenon
  <2>6. QED
    BY <2>3, <2>4, <2>5, Zenon
<1>9. QED
  BY <1>4, <1>6, <1>8 DEF p

(* Nothing that was found depends on the folders of later nodes.           *)
LEMMA Stays ==
  ASSUME NEW d, IsDocument(d), NEW i \in 1..Len(d.nodes), NEW u, NEW v,
         \A n \in 1..(i - 1) : v[n] = u[n], NEW n \in 1..(i - 1)
  PROVE  /\ FolderFor(d, v, n) = FolderFor(d, u, n)
         /\ \A c : IsFor(c, d, v, n) <=> IsFor(c, d, u, n)
<1> DEFINE p == d.nodes[n].parent
<1>1. n \in DOMAIN d.nodes
  <2>1. n \in 1..Len(d.nodes) /\ DOMAIN d.nodes = 1..Len(d.nodes)
    BY DEF IsDocument
  <2>2. QED
    BY <2>1
<1>2. p \in 0..(n - 1)
  BY <1>1, ReachedBy
<1>3. Home(d, v, n) = Home(d, u, n)
  <2> HIDE DEF p
  <2>1. p # 0 => p \in 1..(i - 1)
    BY <1>2
  <2>2. p # 0 => v[p] = u[p]
    BY <2>1
  <2>3. QED
    BY <2>2 DEF Home, p
<1>4. v[n] = u[n]
  OBVIOUS
<1>5. QED
  BY <1>3, <1>4, Zenon DEF FolderFor, IsFor

(* The nodes up to i are those before it, and it.                          *)
LEMMA UpTo ==
  ASSUME NEW d, IsDocument(d), NEW i \in 1..Len(d.nodes)
  PROVE  /\ Containers(d) \subseteq Nat \ {0} /\ Leaves(d) \subseteq Nat \ {0}
         /\ \A n \in Nat \ {0} : /\ n <= i <=> n <= i - 1 \/ n = i
                                 /\ n <= i - 1 <=> n \in 1..(i - 1)
         /\ ~(i <= i - 1) /\ i \in Nat \ {0}
         /\ i \in Reached(d) => (i \in Leaves(d) <=> i \notin Containers(d))
         /\ i \in Containers(d) \/ i \in Leaves(d) => i \in Reached(d)
         /\ i \in Reached(d) => (i \in Containers(d) <=> IsContainer(d.nodes[i]))
<1>1. DOMAIN d.nodes = 1..Len(d.nodes)
  BY DEF IsDocument
<1>2. Reached(d) \subseteq 1..Len(d.nodes)
  BY <1>1 DEF Reached
<1>3. Containers(d) \subseteq Reached(d) /\ Leaves(d) \subseteq Reached(d)
  BY DEF Containers, Leaves
<1>4. /\ i \in Reached(d) => (i \in Leaves(d) <=> i \notin Containers(d))
      /\ i \in Reached(d) => (i \in Containers(d) <=> IsContainer(d.nodes[i]))
  BY DEF Containers, Leaves
<1>5. Reached(d) \subseteq Nat \ {0}
  BY <1>2
<1>6. /\ \A n \in Nat \ {0} : /\ n <= i <=> n <= i - 1 \/ n = i
                              /\ n <= i - 1 <=> n \in 1..(i - 1)
      /\ ~(i <= i - 1) /\ i \in Nat \ {0}
  OBVIOUS
<1>7. QED
  BY <1>3, <1>4, <1>5, <1>6, Zenon

(* A node that is not reached leaves what was found as it is,              *)
LEMMA Skipped ==
  ASSUME ids \in Nat, NEW d, IsDocument(d), NEW i \in 1..Len(d.nodes),
         NEW r, r \in Results(d), Found(d, r, i - 1), i \notin Reached(d)
  PROVE  Found(d, r, i)
<1>1. DOMAIN d.nodes = 1..Len(d.nodes)
  BY DEF IsDocument
<1>2. /\ \A n \in Containers(d) \cup Leaves(d) : n <= i <=> n <= i - 1
      /\ \A n \in DOMAIN d.nodes : n <= i /\ n \in Containers(d)
                                     <=> n <= i - 1 /\ n \in Containers(d)
  <2>1. /\ Containers(d) \subseteq Nat \ {0} /\ Leaves(d) \subseteq Nat \ {0}
        /\ \A n \in Nat \ {0} : n <= i <=> n <= i - 1 \/ n = i
        /\ i \notin Containers(d) /\ i \notin Leaves(d)
    BY UpTo, Zenon
  <2>2. \A n \in Containers(d) \cup Leaves(d) : n <= i <=> n <= i - 1
    BY <2>1, Zenon
  <2>3. QED
    BY <2>2, Zenon
<1>3. Opened(d, r, i)
  BY <1>2, Zenon DEF Found, Opened
<1>4. FoldersFound(d, r, i)
  BY <1>2, Zenon DEF Found, FoldersFound
<1>5. ConnectionsFound(d, r, i)
  BY <1>2, Zenon DEF Found, ConnectionsFound
<1>6. QED
  BY <1>3, <1>4, <1>5, Zenon DEF Found

(* a container gets a folder with a new UUID,                              *)
LEMMA FolderFound ==
  ASSUME ids \in Nat, NEW d, IsDocument(d), NEW i \in 1..Len(d.nodes), i \in Containers(d),
         NEW r, r \in Results(d), Found(d, r, i - 1), Home(d, r.folder, i) \in Option(Nat),
         NEW q, q = [r EXCEPT !.ids = r.ids + 1, !.folder[i] = r.ids + 1, !.folders =
                        Append(@, [id |-> r.ids + 1, name |-> Name(d.nodes[i]),
                                   parent_id |-> Home(d, r.folder, i)])]
  PROVE  q \in Results(d) /\ Found(d, q, i)
<1> DEFINE id == r.ids + 1
           f == [id |-> id, name |-> Name(d.nodes[i]), parent_id |-> Home(d, r.folder, i)]
           m == Len(r.folders)
<1>1. /\ DOMAIN d.nodes = 1..Len(d.nodes) /\ Len(d.nodes) \in Nat
  BY DEF IsDocument
<1>2. /\ r.connections \in Seq(ConnectionOf(d)) /\ r.folders \in Seq(FolderOf(d))
      /\ r.ids \in Nat /\ r.folder \in [0..Len(d.nodes) -> Option(Nat) \cup {None}]
      /\ r = [connections |-> r.connections, folders |-> r.folders, ids |-> r.ids,
              folder |-> r.folder]
  BY DEF Results
<1>3. q = [connections |-> r.connections, folders |-> Append(r.folders, f), ids |-> id,
           folder |-> [r.folder EXCEPT ![i] = id]]
  BY <1>2
<1>4. /\ q.connections = r.connections /\ q.folders = Append(r.folders, f) /\ q.ids = id
      /\ q.folder = [r.folder EXCEPT ![i] = id]
  BY <1>3
<1>5. id \in Nat /\ id = r.ids + 1 /\ f \in FolderOf(d)
  <2>1. id \in Nat
    BY <1>2
  <2>2. i \in DOMAIN d.nodes
    BY <1>1
  <2>3. QED
    BY <2>1, <2>2 DEF FolderOf
<1>6. /\ q.folder[i] = id /\ \A n \in 0..Len(d.nodes) : n # i => q.folder[n] = r.folder[n]
      /\ q.folder \in [0..Len(d.nodes) -> Option(Nat) \cup {None}]
  <2>1. i \in 0..Len(d.nodes) /\ id \in Option(Nat) \cup {None}
    BY <1>1, <1>5 DEF Option
  <2> HIDE DEF id
  <2>2. QED
    BY <1>2, <1>4, <2>1
<1>7. /\ q.folders \in Seq(FolderOf(d)) /\ Len(q.folders) = m + 1 /\ m \in Nat
      /\ q.folders[m + 1] = f /\ \A j \in 1..m : q.folders[j] = r.folders[j]
  <2> HIDE DEF f
  <2>1. QED
    BY <1>2, <1>4, <1>5, AppendProperties
<1>8. q \in Results(d)
  <2> HIDE DEF id, f
  <2>1. QED
    BY <1>2, <1>3, <1>4, <1>5, <1>6, <1>7 DEF Results
<1>9. /\ \A n \in 1..(i - 1) : q.folder[n] = r.folder[n]
      /\ \A n \in 1..(i - 1) : /\ FolderFor(d, q.folder, n) = FolderFor(d, r.folder, n)
                               /\ \A c : IsFor(c, d, q.folder, n) <=> IsFor(c, d, r.folder, n)
  <2>1. \A n \in 1..(i - 1) : n \in 0..Len(d.nodes) /\ n # i
    BY <1>1
  <2>2. \A n \in 1..(i - 1) : q.folder[n] = r.folder[n]
    BY <1>6, <2>1
  <2>3. QED
    BY <2>2, Stays
<1>10. FolderFor(d, q.folder, i) = f
  <2>1. Home(d, q.folder, i) = Home(d, r.folder, i)
    <3> DEFINE p == d.nodes[i].parent
    <3>1. p \in 0..(i - 1)
      BY <1>1, ReachedBy
    <3> HIDE DEF p
    <3>2. p \in 0..Len(d.nodes) /\ p # i
      BY <1>1, <3>1
    <3>3. q.folder[p] = r.folder[p]
      BY <1>6, <3>2
    <3>4. QED
      BY <3>3 DEF Home, p
  <2>2. QED
    BY <1>6, <2>1 DEF FolderFor
<1>11. /\ Containers(d) \subseteq Nat \ {0} /\ Leaves(d) \subseteq Nat \ {0}
       /\ \A n \in Nat \ {0} : /\ n <= i <=> n <= i - 1 \/ n = i
                               /\ n <= i - 1 <=> n \in 1..(i - 1)
       /\ i \notin Leaves(d)
  BY UpTo, Zenon
<1>12. \A n \in Containers(d) : n \in DOMAIN d.nodes
  BY DEF Containers, Reached
<1>13. /\ \A n \in Containers(d) : n <= i - 1 => r.folder[n] \in (ids + 1)..r.ids
       /\ \A n \in Containers(d) : n <= i - 1 => q.folder[n] = r.folder[n]
  <2>1. \A n \in Containers(d) : n <= i - 1 => r.folder[n] \in (ids + 1)..r.ids
    BY <1>12, Zenon DEF Found, Opened
  <2>2. QED
    BY <1>9, <1>11, <2>1, Zenon
<1> HIDE DEF id, f, m
<1>14. Opened(d, q, i)
  <2>1. q.folder[0] = Null /\ q.ids >= ids /\ r.ids >= ids
    <3>1. 0 \in 0..Len(d.nodes) /\ 0 # i
      BY <1>1
    <3>2. q.folder[0] = r.folder[0] /\ r.folder[0] = Null /\ r.ids >= ids
      BY <1>6, <3>1 DEF Found, Opened
    <3>3. QED
      BY <1>2, <1>4, <1>5, <3>2
  <2>2. ASSUME NEW n \in DOMAIN d.nodes
        PROVE  IF n <= i /\ n \in Containers(d)
               THEN q.folder[n] \in (ids + 1)..q.ids
               ELSE q.folder[n] = None
    <3>1. n \in Nat \ {0} /\ n \in 0..Len(d.nodes)
      BY <1>1
    <3>2. CASE n = i
      <4>1. id \in (ids + 1)..q.ids
        BY <1>2, <1>4, <1>5, <2>1
      <4>2. i <= i
        OBVIOUS
      <4>3. QED
        BY <1>6, <3>2, <4>1, <4>2, Zenon
    <3>3. CASE n # i /\ n <= i /\ n \in Containers(d)
      <4>1. n <= i - 1
        BY <1>11, <3>1, <3>3, Zenon
      <4>2. q.folder[n] \in (ids + 1)..r.ids
        BY <1>13, <3>3, <4>1
      <4>3. \A x \in (ids + 1)..r.ids : x \in (ids + 1)..q.ids
        BY <1>2, <1>4, <1>5
      <4>4. QED
        BY <3>3, <4>2, <4>3, Zenon
    <3>4. CASE n # i /\ ~(n <= i /\ n \in Containers(d))
      <4>1. ~(n <= i - 1 /\ n \in Containers(d))
        BY <1>11, <3>1, <3>4, Zenon
      <4>2. r.folder[n] = None
        BY <4>1, Zenon DEF Found, Opened
      <4>3. q.folder[n] = r.folder[n]
        BY <1>6, <3>1, <3>4, Zenon
      <4>4. QED
        BY <3>4, <4>2, <4>3, Zenon
    <3>5. QED
      BY <3>2, <3>3, <3>4, Zenon
  <2>3. ASSUME NEW n \in Containers(d), n <= i - 1 PROVE q.folder[n] # id
    <3>1. q.folder[n] \in (ids + 1)..r.ids
      BY <1>13, <2>3
    <3>2. \A x \in (ids + 1)..r.ids : x # id
      BY <1>2, <1>5
    <3>3. QED
      BY <3>1, <3>2, Zenon
  <2>4. ASSUME NEW k \in Containers(d), NEW n \in Containers(d), k <= i, n <= i,
               q.folder[k] = q.folder[n]
        PROVE  k = n
    <3>1. (k <= i - 1 \/ k = i) /\ (n <= i - 1 \/ n = i)
      BY <1>11, <2>4, Zenon
    <3>2. CASE k <= i - 1 /\ n <= i - 1
      <4>1. r.folder[k] = r.folder[n]
        BY <1>13, <2>4, <3>2, Zenon
      <4>2. QED
        BY <3>2, <4>1, Zenon DEF Found, Opened
    <3>3. CASE k = i \/ n = i
      BY <1>6, <2>3, <2>4, <3>1, <3>3, Zenon
    <3>4. QED
      BY <3>1, <3>2, <3>3, Zenon
  <2>5. QED
    BY <2>1, <2>2, <2>4, Zenon DEF Opened
<1>15. FoldersFound(d, q, i)
  <2>1. ASSUME NEW j \in 1..(m + 1)
        PROVE  \E n \in Containers(d) : n <= i /\ q.folders[j] = FolderFor(d, q.folder, n)
    <3>1. CASE j = m + 1
      BY <1>7, <1>10, <1>11, <3>1
    <3>2. CASE j \in 1..m
      <4>1. PICK n \in Containers(d) : n <= i - 1 /\ r.folders[j] = FolderFor(d, r.folder, n)
        BY <3>2, Zenon DEF Found, FoldersFound, m
      <4>2. n <= i /\ FolderFor(d, q.folder, n) = FolderFor(d, r.folder, n)
        BY <1>9, <1>11, <4>1, Zenon
      <4>3. q.folders[j] = r.folders[j]
        BY <1>7, <3>2
      <4>4. QED
        BY <4>1, <4>2, <4>3, Zenon
    <3>3. j = m + 1 \/ j \in 1..m
      BY <1>7
    <3>4. QED
      BY <3>1, <3>2, <3>3, Zenon
  <2>2. ASSUME NEW n \in Containers(d), n <= i
        PROVE  \E j \in 1..(m + 1) : q.folders[j] = FolderFor(d, q.folder, n)
    <3>1. CASE n = i
      <4>1. m + 1 \in 1..(m + 1)
        BY <1>7
      <4>2. QED
        BY <1>7, <1>10, <3>1, <4>1, Zenon
    <3>2. CASE n <= i - 1
      <4>1. PICK j \in 1..m : r.folders[j] = FolderFor(d, r.folder, n)
        BY <3>2, Zenon DEF Found, FoldersFound, m
      <4>2. j \in 1..(m + 1) /\ q.folders[j] = r.folders[j]
        BY <1>7
      <4>3. FolderFor(d, q.folder, n) = FolderFor(d, r.folder, n)
        BY <1>9, <1>11, <3>2, Zenon
      <4>4. QED
        BY <4>1, <4>2, <4>3, Zenon
    <3>3. QED
      BY <1>11, <2>2, <3>1, <3>2, Zenon
  <2>3. UniqueIds(q.folders)
    <3>1. ASSUME NEW j \in 1..m
          PROVE  r.folders[j].id # id
      <4>1. PICK n \in Containers(d) : n <= i - 1 /\ r.folders[j] = FolderFor(d, r.folder, n)
        BY <3>1, Zenon DEF Found, FoldersFound, m
      <4>2. r.folders[j].id = r.folder[n]
        BY <4>1 DEF FolderFor
      <4>3. r.folder[n] \in (ids + 1)..r.ids
        BY <1>13, <4>1
      <4>4. \A x \in (ids + 1)..r.ids : x # id
        BY <1>2, <1>5
      <4>5. QED
        BY <4>2, <4>3, <4>4, Zenon
    <3>2. f.id = id
      BY DEF f
    <3>3. ASSUME NEW j \in 1..(m + 1), NEW k \in 1..(m + 1), q.folders[j].id = q.folders[k].id
          PROVE  j = k
      <4>1. (j = m + 1 \/ j \in 1..m) /\ (k = m + 1 \/ k \in 1..m)
        BY <1>7
      <4>2. CASE j \in 1..m /\ k \in 1..m
        <5>1. r.folders[j].id = r.folders[k].id
          BY <1>7, <3>3, <4>2
        <5>2. DOMAIN r.folders = 1..m
          BY <1>2 DEF m
        <5>3. QED
          BY <4>2, <5>1, <5>2, Zenon DEF Found, FoldersFound, UniqueIds
      <4>3. CASE j = m + 1 \/ k = m + 1
        BY <1>7, <3>1, <3>2, <3>3, <4>1, <4>3, Zenon
      <4>4. QED
        BY <4>1, <4>2, <4>3, Zenon
    <3>4. DOMAIN q.folders = 1..(m + 1)
      BY <1>7
    <3>5. QED
      BY <3>3, <3>4, Zenon DEF UniqueIds
  <2>4. QED
    BY <1>7, <2>1, <2>2, <2>3, Zenon DEF FoldersFound
<1>16. ConnectionsFound(d, q, i)
  <2>1. \A x \in (ids + 1)..r.ids : x \in (ids + 1)..q.ids
    BY <1>2, <1>4, <1>5
  <2>2. \A n \in Leaves(d) : /\ n <= i <=> n <= i - 1
                             /\ n <= i - 1 =>
                                \A c : IsFor(c, d, q.folder, n) <=> IsFor(c, d, r.folder, n)
    BY <1>9, <1>11, Zenon
  <2>3. \A j \in 1..Len(q.connections) :
           /\ q.connections[j].id \in (ids + 1)..q.ids
           /\ \E n \in Leaves(d) : n <= i /\ IsFor(q.connections[j], d, q.folder, n)
    BY <1>4, <2>1, <2>2, Zenon DEF Found, ConnectionsFound
  <2>4. \A n \in Leaves(d) : n <= i =>
           \E j \in 1..Len(q.connections) : IsFor(q.connections[j], d, q.folder, n)
    BY <1>4, <2>2, Zenon DEF Found, ConnectionsFound
  <2>5. QED
    BY <2>3, <2>4, Zenon DEF ConnectionsFound
<1>17. QED
  BY <1>8, <1>14, <1>15, <1>16, Zenon DEF Found

(* and any other node a connection with a new UUID.                        *)
LEMMA LeafFound ==
  ASSUME ids \in Nat, NEW d, IsDocument(d), NEW i \in 1..Len(d.nodes), i \in Leaves(d),
         NEW r, r \in Results(d), Found(d, r, i - 1), Home(d, r.folder, i) \in Option(Nat),
         NEW q, q = [r EXCEPT !.ids = r.ids + 1, !.connections =
                        Append(@, ToConnection(d.nodes[i], r.ids + 1, Home(d, r.folder, i)))]
  PROVE  q \in Results(d) /\ Found(d, q, i)
<1> DEFINE id == r.ids + 1
           c == ToConnection(d.nodes[i], id, Home(d, r.folder, i))
           m == Len(r.connections)
<1>1. /\ DOMAIN d.nodes = 1..Len(d.nodes) /\ Len(d.nodes) \in Nat
  BY DEF IsDocument
<1>2. /\ r.connections \in Seq(ConnectionOf(d)) /\ r.folders \in Seq(FolderOf(d))
      /\ r.ids \in Nat /\ r.folder \in [0..Len(d.nodes) -> Option(Nat) \cup {None}]
      /\ r = [connections |-> r.connections, folders |-> r.folders, ids |-> r.ids,
              folder |-> r.folder]
  BY DEF Results
<1>3. c \in ConnectionOf(d) /\ id \in Nat
  <2>1. id \in Nat
    BY <1>2
  <2>2. i \in DOMAIN d.nodes
    BY <1>1
  <2>3. QED
    BY <2>1, <2>2 DEF ConnectionOf
<1>4. c.id = id /\ c = ToConnection(d.nodes[i], c.id, Home(d, r.folder, i))
  BY DEF ToConnection
<1>5. id = r.ids + 1
  OBVIOUS
<1>6. q = [connections |-> Append(r.connections, c), folders |-> r.folders, ids |-> id,
           folder |-> r.folder]
  BY <1>2, Zenon
<1>7. /\ q.connections = Append(r.connections, c) /\ q.folders = r.folders /\ q.ids = id
      /\ q.folder = r.folder
  BY <1>6
<1> HIDE DEF c, id
<1>8. /\ q.connections \in Seq(ConnectionOf(d)) /\ Len(q.connections) = m + 1 /\ m \in Nat
      /\ q.connections[m + 1] = c /\ \A j \in 1..m : q.connections[j] = r.connections[j]
  BY <1>2, <1>3, <1>7, AppendProperties
<1>9. q \in Results(d)
  BY <1>2, <1>3, <1>6, <1>7, <1>8 DEF Results
<1>10. /\ Containers(d) \subseteq Nat \ {0} /\ Leaves(d) \subseteq Nat \ {0}
       /\ \A n \in Nat \ {0} : n <= i <=> n <= i - 1 \/ n = i
       /\ i \notin Containers(d) /\ i \in Nat \ {0} /\ i <= i
  <2>1. i <= i
    OBVIOUS
  <2>2. QED
    BY <2>1, UpTo, Zenon
<1>11. /\ \A n \in Containers(d) : n <= i <=> n <= i - 1
       /\ \A x \in (ids + 1)..r.ids : x \in (ids + 1)..q.ids
       /\ r.ids >= ids => q.ids >= ids /\ id \in (ids + 1)..q.ids
  <2>1. \A n \in Containers(d) : n <= i <=> n <= i - 1
    BY <1>10, Zenon
  <2>2. /\ \A x \in (ids + 1)..r.ids : x \in (ids + 1)..q.ids
        /\ r.ids >= ids => q.ids >= ids /\ id \in (ids + 1)..q.ids
    BY <1>2, <1>3, <1>5, <1>7
  <2>3. QED
    BY <2>1, <2>2
<1> HIDE DEF m
<1>12. Opened(d, q, i)
  <2>1. ASSUME NEW n \in DOMAIN d.nodes
        PROVE  IF n <= i /\ n \in Containers(d)
               THEN q.folder[n] \in (ids + 1)..q.ids
               ELSE q.folder[n] = None
    <3>1. IF n <= i - 1 /\ n \in Containers(d)
          THEN r.folder[n] \in (ids + 1)..r.ids
          ELSE r.folder[n] = None
      BY Zenon DEF Found, Opened
    <3>2. QED
      BY <1>7, <1>11, <3>1, Zenon
  <2>2. /\ q.folder[0] = Null /\ q.ids >= ids
        /\ \A k, n \in Containers(d) :
               k <= i /\ n <= i /\ q.folder[k] = q.folder[n] => k = n
    BY <1>7, <1>11, Zenon DEF Found, Opened
  <2>3. QED
    BY <2>1, <2>2, Zenon DEF Opened
<1>13. FoldersFound(d, q, i)
  BY <1>7, <1>11, Zenon DEF Found, FoldersFound
<1>14. IsFor(c, d, q.folder, i)
  BY <1>4, <1>7, Zenon DEF IsFor
<1>15. ConnectionsFound(d, q, i)
  <2>1. ASSUME NEW j \in 1..(m + 1)
        PROVE  /\ q.connections[j].id \in (ids + 1)..q.ids
               /\ \E n \in Leaves(d) : n <= i /\ IsFor(q.connections[j], d, q.folder, n)
    <3>1. CASE j = m + 1
      <4>1. id \in (ids + 1)..q.ids
        BY <1>11 DEF Found, Opened
      <4>2. QED
        BY <1>4, <1>8, <1>10, <1>14, <3>1, <4>1, Zenon
    <3>2. CASE j \in 1..m
      <4>1. /\ r.connections[j].id \in (ids + 1)..r.ids
            /\ \E n \in Leaves(d) : n <= i - 1 /\ IsFor(r.connections[j], d, r.folder, n)
        BY <3>2, Zenon DEF Found, ConnectionsFound, m
      <4>2. q.connections[j] = r.connections[j]
        BY <1>8, <3>2
      <4>3. QED
        BY <1>7, <1>10, <1>11, <4>1, <4>2, Zenon
    <3>3. j = m + 1 \/ j \in 1..m
      BY <1>8
    <3>4. QED
      BY <3>1, <3>2, <3>3, Zenon
  <2>2. ASSUME NEW n \in Leaves(d), n <= i
        PROVE  \E j \in 1..(m + 1) : IsFor(q.connections[j], d, q.folder, n)
    <3>1. CASE n = i
      <4>1. m + 1 \in 1..(m + 1)
        BY <1>8
      <4>2. QED
        BY <1>8, <1>14, <3>1, <4>1, Zenon
    <3>2. CASE n <= i - 1
      <4>1. PICK j \in 1..m : IsFor(r.connections[j], d, r.folder, n)
        BY <3>2, Zenon DEF Found, ConnectionsFound, m
      <4>2. j \in 1..(m + 1) /\ q.connections[j] = r.connections[j]
        BY <1>8
      <4>3. QED
        BY <1>7, <4>1, <4>2, Zenon
    <3>3. QED
      BY <1>10, <2>2, <3>1, <3>2, Zenon
  <2>3. QED
    BY <1>8, <2>1, <2>2, Zenon DEF ConnectionsFound
<1>16. QED
  BY <1>9, <1>12, <1>13, <1>15, Zenon DEF Found

(* One node of the document is visited: what was found of the nodes before *)
(* it and of itself.                                                       *)
LEMMA VisitFinds ==
  ASSUME ids \in Nat, NEW d, IsDocument(d), NEW i \in 1..Len(d.nodes),
         NEW r, r \in Results(d), Found(d, r, i - 1)
  PROVE  Visit(d, r, i) \in Results(d) /\ Found(d, Visit(d, r, i), i)
<1> DEFINE parent == r.folder[d.nodes[i].parent]
<1>1. Opened(d, r, i - 1)
  BY DEF Found
<1>2. /\ parent \in Option(Nat) \cup {None} /\ parent = Home(d, r.folder, i)
      /\ i \in Reached(d) <=> parent # None
  BY <1>1, Placed
<1>3. CASE i \notin Reached(d)
  <2>1. Visit(d, r, i) = r
    BY <1>2, <1>3 DEF Visit
  <2>2. QED
    BY <1>3, <2>1, Skipped
<1>4. ASSUME i \in Reached(d)
      PROVE  Home(d, r.folder, i) \in Option(Nat) /\ Home(d, r.folder, i) # None
             /\ (i \in Leaves(d) <=> ~IsContainer(d.nodes[i]))
             /\ (i \in Containers(d) <=> IsContainer(d.nodes[i]))
  <2>1. (i \in Leaves(d) <=> ~IsContainer(d.nodes[i]))
        /\ (i \in Containers(d) <=> IsContainer(d.nodes[i]))
    BY <1>4, UpTo, Zenon
  <2> HIDE DEF parent
  <2>2. QED
    BY <1>2, <1>4, <2>1
<1>5. CASE i \in Reached(d) /\ IsContainer(d.nodes[i])
  <2>1. Visit(d, r, i) =
          [r EXCEPT !.ids = r.ids + 1, !.folder[i] = r.ids + 1, !.folders =
              Append(@, [id |-> r.ids + 1, name |-> Name(d.nodes[i]),
                         parent_id |-> Home(d, r.folder, i)])]
    BY <1>2, <1>4, <1>5, Zenon DEF Visit
  <2>2. QED
    BY <1>4, <1>5, <2>1, FolderFound
<1>6. CASE i \in Reached(d) /\ ~IsContainer(d.nodes[i])
  <2>1. Visit(d, r, i) =
          [r EXCEPT !.ids = r.ids + 1, !.connections =
              Append(@, ToConnection(d.nodes[i], r.ids + 1, Home(d, r.folder, i)))]
    BY <1>2, <1>4, <1>6, Zenon DEF Visit
  <2>2. QED
    BY <1>4, <1>6, <2>1, LeafFound
<1>7. QED
  BY <1>3, <1>5, <1>6

(* The parser finds what the document says, all of it and no more.         *)
LEMMA ParseFinds ==
  ASSUME ids \in Nat, NEW d, IsDocument(d)
  PROVE  ParseDocument(d) \in Results(d) /\ Found(d, ParseDocument(d), Len(d.nodes))
<1> DEFINE n == Len(d.nodes)
           G == [k \in 0..n |-> {r \in Results(d) : Found(d, r, k)}]
           F == [i \in 1..n |-> [r \in G[i - 1] |-> Visit(d, r, i)]]
           start == NothingFound(d)
           Is(g) == g = [i \in 0..n |-> IF i = 0 THEN start ELSE Visit(d, g[i - 1], i)]
           h == CHOOSE g : Is(g)
<1>1. n \in Nat /\ DOMAIN d.nodes = 1..n
  BY DEF IsDocument
<1>2. /\ Containers(d) \subseteq 1..n /\ Leaves(d) \subseteq 1..n
      /\ \A k \in 1..n : ~(k <= 0)
  BY <1>1 DEF Containers, Leaves, Reached
<1>3. start \in Results(d) /\ Found(d, start, 0)
  <2>1. start = [connections |-> <<>>, folders |-> <<>>, ids |-> ids,
                 folder |-> [i \in 0..n |-> IF i = 0 THEN Null ELSE None]]
    BY DEF NothingFound
  <2>2. /\ start.connections = <<>> /\ start.folders = <<>> /\ start.ids = ids
        /\ start.folder = [i \in 0..n |-> IF i = 0 THEN Null ELSE None]
    BY <2>1
  <2> HIDE DEF start
  <2>3. /\ start.folder \in [0..n -> Option(Nat) \cup {None}] /\ start.folder[0] = Null
        /\ \A k \in 1..n : start.folder[k] = None
    BY <1>1, <2>2 DEF Option
  <2>4. start \in Results(d)
    BY <2>1, <2>2, <2>3 DEF Results
  <2>5. Opened(d, start, 0)
    <3>1. start.ids >= ids
      BY <2>2
    <3>2. \A k, m \in Containers(d) :
             k <= 0 /\ m <= 0 /\ start.folder[k] = start.folder[m] => k = m
      BY <1>2, Zenon
    <3>3. \A k \in DOMAIN d.nodes : IF k <= 0 /\ k \in Containers(d)
              THEN start.folder[k] \in (ids + 1)..start.ids
              ELSE start.folder[k] = None
      BY <1>1, <1>2, <2>3, Zenon
    <3>4. QED
      BY <2>3, <3>1, <3>2, <3>3, Zenon DEF Opened
  <2>6. Len(start.folders) = 0 /\ Len(start.connections) = 0 /\ 1..0 = {}
    BY <2>2
  <2>7. UniqueIds(start.folders)
    BY <2>2 DEF UniqueIds
  <2>8. FoldersFound(d, start, 0) /\ ConnectionsFound(d, start, 0)
    BY <1>2, <2>6, <2>7, Zenon DEF FoldersFound, ConnectionsFound
  <2>9. QED
    BY <2>4, <2>5, <2>8 DEF Found
<1> HIDE DEF n, start
<1>4. ASSUME NEW i \in 1..n, NEW r \in G[i - 1]
      PROVE  Visit(d, r, i) \in G[i] /\ F[i][r] = Visit(d, r, i)
  <2>1. i - 1 \in 0..n /\ i \in 0..n
    BY <1>1
  <2>2. r \in Results(d) /\ Found(d, r, i - 1)
    BY <1>4, <2>1
  <2>3. Visit(d, r, i) \in Results(d) /\ Found(d, Visit(d, r, i), i)
    BY <2>2, VisitFinds DEF n
  <2>4. Visit(d, r, i) \in G[i]
    BY <2>1, <2>3
  <2>5. F[i][r] = Visit(d, r, i)
    <3> HIDE DEF G
    <3>1. QED
      BY <1>4
  <2>6. QED
    BY <2>4, <2>5
<1>5. start \in G[0]
  BY <1>1, <1>3
<1>6. G[n] \subseteq {r \in Results(d) : Found(d, r, n)}
  BY <1>1
<1> HIDE DEF G, F
<1>7. PICK g : /\ g = [i \in 0..n |-> g[i]] /\ g[0] = start
               /\ \A i \in 1..n : g[i - 1] \in G[i - 1] /\ g[i] = F[i][g[i - 1]]
  <2>1. \A i \in 1..n : \A r \in G[i - 1] : F[i][r] \in G[i]
    BY <1>4
  <2>2. Turns(n, G, F, start)
    BY <1>5, <2>1 DEF Turns
  <2>3. \E g : Passes(n, G, F, start, g)
    BY <1>1, <2>2, LoopRuns
  <2>4. QED
    BY <2>3, Zenon DEF Passes
<1>8. Is(g)
  <2>1. \A i \in 0..n : i = 0 \/ i \in 1..n
    BY <1>1
  <2>2. \A i \in 1..n : g[i] = Visit(d, g[i - 1], i)
    BY <1>4, <1>7
  <2>3. \A i \in 0..n : g[i] = IF i = 0 THEN start ELSE Visit(d, g[i - 1], i)
    <3>1. \A i \in 1..n : i # 0
      OBVIOUS
    <3>2. QED
      BY <1>7, <2>1, <2>2, <3>1, Zenon
  <2>4. QED
    BY <1>7, <2>3
<1>9. ParseDocument(d) = h[n]
  BY DEF ParseDocument, Loop, n, start
<1>10. Is(h)
  <2> HIDE DEF Is
  <2>1. QED
    BY <1>8
<1> HIDE DEF h
<1>11. h[0] = start /\ \A i \in 1..n : h[i] = Visit(d, h[i - 1], i)
  BY <1>1, <1>10
<1>12. h[n] \in G[n]
  <2>1. \A i \in 1..n : h[i - 1] \in G[i - 1] => h[i] \in G[i]
    BY <1>4, <1>11, Zenon
  <2>2. QED
    BY <1>1, <1>5, <1>11, <2>1, LoopEnds
<1>13. QED
  BY <1>6, <1>9, <1>12 DEF n

-----------------------------------------------------------------------------
(* What import_connections may have kept of a batch after k of it: the     *)
(* vault as it was, then connections of the batch, each with a new UUID    *)
(* and no other like it, and one for every endpoint that came by.          *)
Kepts == [connections: Seq(Connection), ids: Nat]

Likes(cs, from) == \A i \in from..Len(cs), j \in 1..Len(cs) :
    SameEndpoint(cs[i], cs[j]) => i = j
Kept(base, batch, r, k) ==
    /\ r.ids \in ids..(ids + k) /\ Len(r.connections) = Len(base) + (r.ids - ids)
    /\ \A j \in 1..Len(base) : r.connections[j] = base[j]
    /\ \A j \in (Len(base) + 1)..Len(r.connections) : \E i \in 1..Len(batch) :
           r.connections[j] = [batch[i] EXCEPT !.id = r.connections[j].id]
    /\ Likes(r.connections, Len(base) + 1)
    /\ \A i \in 1..k : \E j \in 1..Len(r.connections) :
           SameEndpoint(batch[i], r.connections[j])

(* A connection under another UUID.                                        *)
LEMMA Renamed ==
  ASSUME NEW c \in Connection, NEW id \in Uuids, NEW e, e = [c EXCEPT !.id = id]
  PROVE  /\ e \in Connection /\ e.id = id /\ e = [c EXCEPT !.id = e.id]
         /\ SameEndpoint(c, e) /\ \A x : SameEndpoint(e, x) <=> SameEndpoint(c, x)
<1> DEFINE protocols == {Protocols[i] : i \in DOMAIN Protocols}
           tags == Seq(Texts)
<1>1. Connection = [id: Uuids, name: Texts, protocol: protocols, host: Texts, port: Ports,
                    username: Option(Texts), password: Option(Texts),
                    private_key_path: Option(Texts), private_key_passphrase: Option(Texts),
                    folder_id: Option(Uuids), tags: tags, notes: Option(Texts),
                    jump_host_id: Option(Uuids), timeout_seconds: Nat, domain: Option(Texts)]
  BY DEF Connection
<1> HIDE DEF protocols, tags
<1>2. e \in Connection /\ e.id = id
  BY <1>1
<1>3. e.name = c.name /\ e.host = c.host /\ e.port = c.port
  BY <1>1
<1>4. e = [c EXCEPT !.id = e.id]
  BY <1>2, Zenon
<1>5. SameEndpoint(c, e) /\ \A x : SameEndpoint(e, x) <=> SameEndpoint(c, x)
  BY <1>3, Zenon DEF SameEndpoint
<1>6. QED
  BY <1>2, <1>4, <1>5

(* One connection of the batch is kept or not.                             *)
LEMMA KeepFirstKeeps ==
  ASSUME ids \in Nat, NEW base \in Seq(Connection), NEW batch \in Seq(Connection),
         ids + Len(batch) <= MaxIds, NEW k \in 1..Len(batch),
         NEW r, r \in Kepts, Kept(base, batch, r, k - 1)
  PROVE  KeepFirst(r, batch[k]) \in Kepts /\ Kept(base, batch, KeepFirst(r, batch[k]), k)
<1> DEFINE c == batch[k]
           id == r.ids + 1
           e == [c EXCEPT !.id = id]
           n == Len(r.connections)
           l == Len(base)
<1>1. /\ c \in Connection /\ l \in Nat /\ Len(batch) \in Nat /\ k \in Nat /\ MaxIds \in Nat
      /\ r.ids \in Nat /\ r.connections \in Seq(Connection) /\ n \in Nat
      /\ r = [connections |-> r.connections, ids |-> r.ids]
      /\ 0..MaxIds \subseteq Uuids
  <2>1. MaxIds \in Nat /\ 0..MaxIds \subseteq Uuids
    BY ImportAssumption, Zenon
  <2>2. /\ r.ids \in Nat /\ r.connections \in Seq(Connection)
        /\ r = [connections |-> r.connections, ids |-> r.ids]
    BY DEF Kepts
  <2>3. c \in Connection
    BY ElementOfSeq
  <2>4. l \in Nat /\ Len(batch) \in Nat /\ k \in Nat /\ n \in Nat
    BY <2>2
  <2> HIDE DEF c, l, n
  <2>5. QED
    BY <2>1, <2>2, <2>3, <2>4
<1>2. /\ r.ids \in ids..(ids + (k - 1)) /\ n = l + (r.ids - ids)
      /\ \A j \in 1..l : r.connections[j] = base[j]
      /\ \A j \in (l + 1)..n : \E i \in 1..Len(batch) :
             r.connections[j] = [batch[i] EXCEPT !.id = r.connections[j].id]
      /\ \A i \in (l + 1)..n, j \in 1..n :
             SameEndpoint(r.connections[i], r.connections[j]) => i = j
      /\ \A i \in 1..(k - 1) : \E j \in 1..n : SameEndpoint(batch[i], r.connections[j])
  BY DEF Kept, Likes
<1>3. /\ id \in Uuids /\ id \in Nat /\ id \in ids..(ids + k) /\ r.ids \in ids..(ids + k)
      /\ n + 1 = l + (id - ids) /\ l <= n
  <2> HIDE DEF l, n
  <2>1. /\ r.ids \in ids..(ids + (k - 1)) /\ n = l + (r.ids - ids) /\ k <= Len(batch)
    BY <1>2
  <2>2. id \in 0..MaxIds /\ id \in ids..(ids + k) /\ r.ids \in ids..(ids + k)
        /\ n + 1 = l + (id - ids) /\ l <= n
    <3>1. r.ids \in Nat /\ l \in Nat /\ n \in Nat /\ Len(batch) \in Nat /\ MaxIds \in Nat
      BY <1>1
    <3>2. ids + (k - 1) + 1 <= MaxIds
      BY <3>1
    <3>3. r.ids >= ids /\ r.ids <= ids + (k - 1) /\ k <= Len(batch) /\ k \in Nat
      BY <2>1, <3>1
    <3>4. id \in 0..MaxIds
      BY <3>1, <3>2, <3>3
    <3>5. id \in ids..(ids + k) /\ r.ids \in ids..(ids + k)
      BY <3>1, <3>3
    <3>6. n + 1 = l + (id - ids) /\ l <= n
      BY <2>1, <3>1, <3>3
    <3>7. QED
      BY <3>4, <3>5, <3>6
  <2> HIDE DEF id
  <2>3. QED
    BY <1>1, <2>2
<1>4. Range(r.connections) = {r.connections[j] : j \in 1..n}
  BY <1>1, RangeEquality
<1>5. CASE \E x \in Range(r.connections) : SameEndpoint(c, x)
  <2>1. KeepFirst(r, c) = r
    BY <1>5, Zenon DEF KeepFirst
  <2>2. \E j \in 1..n : SameEndpoint(c, r.connections[j])
    BY <1>4, <1>5
  <2>3. \A i \in 1..k : i \in 1..(k - 1) \/ i = k
    BY <1>1
  <2>4. \A i \in 1..k : \E j \in 1..n : SameEndpoint(batch[i], r.connections[j])
    BY <1>2, <2>2, <2>3, Zenon
  <2>5. Kept(base, batch, r, k)
    BY <1>2, <1>3, <2>4, Zenon DEF Kept, Likes
  <2>6. QED
    BY <2>1, <2>5
<1>6. CASE ~ \E x \in Range(r.connections) : SameEndpoint(c, x)
  <2> DEFINE q == [connections |-> Append(r.connections, e), ids |-> id]
  <2>1. KeepFirst(r, c) = q
    BY <1>6, Zenon DEF KeepFirst
  <2>2. /\ e \in Connection /\ e.id = id /\ e = [batch[k] EXCEPT !.id = e.id]
        /\ SameEndpoint(c, e) /\ \A x : SameEndpoint(e, x) <=> SameEndpoint(c, x)
    <3>1. c \in Connection /\ id \in Uuids /\ e = [c EXCEPT !.id = id] /\ c = batch[k]
      BY <1>1, <1>3
    <3> HIDE DEF c, id, e
    <3>2. QED
      BY <3>1, Renamed
  <2> HIDE DEF e, id
  <2>3. q.connections = Append(r.connections, e) /\ q.ids = id
    BY Zenon
  <2>4. /\ q.connections \in Seq(Connection) /\ Len(q.connections) = n + 1
        /\ q.connections[n + 1] = e
        /\ \A j \in 1..n : q.connections[j] = r.connections[j]
    BY <1>1, <2>2, <2>3, AppendProperties
  <2>5. q \in Kepts
    BY <1>3, <2>3, <2>4 DEF Kepts
  <2> HIDE DEF q, n, l
  <2>6. \A j \in 1..l : q.connections[j] = base[j]
    <3>1. \A j \in 1..l : j \in 1..n
      BY <1>1, <1>3
    <3>2. QED
      BY <1>2, <2>4, <3>1, Zenon
  <2>7. \A j \in 1..(n + 1) : j \in 1..n \/ j = n + 1
    BY <1>1
  <2>8. ASSUME NEW j \in (l + 1)..(n + 1)
        PROVE  \E i \in 1..Len(batch) :
                   q.connections[j] = [batch[i] EXCEPT !.id = q.connections[j].id]
    <3>1. CASE j = n + 1
      BY <2>2, <2>4, <3>1
    <3>2. CASE j \in (l + 1)..n
      <4>1. q.connections[j] = r.connections[j]
        <5>1. j \in 1..n
          BY <1>1, <3>2
        <5>2. QED
          BY <2>4, <5>1, Zenon
      <4>2. QED
        BY <1>2, <3>2, <4>1, Zenon
    <3>3. j = n + 1 \/ j \in (l + 1)..n
      BY <1>1
    <3>4. QED
      BY <3>1, <3>2, <3>3, Zenon
  <2>9. \A j \in 1..n : ~SameEndpoint(e, r.connections[j]) /\ ~SameEndpoint(r.connections[j], e)
    <3>1. \A j \in 1..n : ~SameEndpoint(c, r.connections[j])
      BY <1>4, <1>6
    <3>2. \A x, y : SameEndpoint(x, y) <=> SameEndpoint(y, x)
      BY Zenon DEF SameEndpoint
    <3>3. QED
      BY <2>2, <3>1, <3>2, Zenon
  <2>10. ASSUME NEW i \in (l + 1)..(n + 1), NEW j \in 1..(n + 1),
                SameEndpoint(q.connections[i], q.connections[j])
         PROVE  i = j
    <3>1. i \in 1..(n + 1) /\ (i = n + 1 \/ i \in (l + 1)..n)
      <4>1. l \in Nat /\ n \in Nat
        BY <1>1
      <4>2. QED
        BY <4>1
    <3>2. CASE i = n + 1
      BY <2>4, <2>7, <2>9, <2>10, <3>2, Zenon
    <3>3. CASE j = n + 1 /\ i \in (l + 1)..n
      <4>1. i \in 1..n
        BY <1>1, <3>3
      <4>2. QED
        BY <2>4, <2>9, <2>10, <3>3, <4>1, Zenon
    <3>4. CASE j \in 1..n /\ i \in (l + 1)..n
      <4>1. i \in 1..n
        BY <1>1, <3>4
      <4>2. QED
        BY <1>2, <2>4, <2>10, <3>4, <4>1, Zenon
    <3>5. QED
      BY <2>7, <3>1, <3>2, <3>3, <3>4, Zenon
  <2>11. ASSUME NEW i \in 1..k
         PROVE  \E j \in 1..(n + 1) : SameEndpoint(batch[i], q.connections[j])
    <3>1. CASE i = k
      <4>1. n + 1 \in 1..(n + 1)
        BY <1>1
      <4>2. QED
        BY <2>2, <2>4, <3>1, <4>1, Zenon
    <3>2. CASE i \in 1..(k - 1)
      <4>1. PICK j \in 1..n : SameEndpoint(batch[i], r.connections[j])
        BY <1>2, <3>2
      <4>2. j \in 1..(n + 1)
        BY <1>1
      <4>3. QED
        BY <2>4, <4>1, <4>2, Zenon
    <3>3. i = k \/ i \in 1..(k - 1)
      BY <1>1
    <3>4. QED
      BY <3>1, <3>2, <3>3, Zenon
  <2>12. Kept(base, batch, q, k)
    <3>1. Likes(q.connections, l + 1)
      BY <2>4, <2>10, Zenon DEF Likes
    <3>2. QED
      BY <1>3, <2>3, <2>4, <2>6, <2>8, <2>11, <3>1, Zenon DEF Kept, l
  <2>13. QED
    BY <2>1, <2>5, <2>12
<1>7. QED
  BY <1>5, <1>6

(* The whole batch.                                                        *)
LEMMA KeepFirstsKeeps ==
  ASSUME ids \in Nat, vault.connections \in Seq(Connection), NEW batch \in Seq(Connection),
         ids + Len(batch) <= MaxIds
  PROVE  /\ KeepFirsts(batch) \in Kepts
         /\ Kept(vault.connections, batch, KeepFirsts(batch), Len(batch))
<1> DEFINE n == Len(batch)
           base == vault.connections
           G == [k \in 0..n |-> {r \in Kepts : Kept(base, batch, r, k)}]
           F == [i \in 1..n |-> [r \in G[i - 1] |-> KeepFirst(r, batch[i])]]
           start == [connections |-> vault.connections, ids |-> ids]
           Is(g) == g = [i \in 0..n |-> IF i = 0 THEN start ELSE KeepFirst(g[i - 1], batch[i])]
           h == CHOOSE g : Is(g)
<1>1. n \in Nat /\ base \in Seq(Connection) /\ Len(base) \in Nat
  OBVIOUS
<1>2. start \in Kepts /\ Kept(base, batch, start, 0)
  <2>1. start.connections = base /\ start.ids = ids /\ start \in Kepts
    BY DEF Kepts
  <2> HIDE DEF start, base
  <2>2. start.ids \in ids..(ids + 0) /\ Len(base) = Len(base) + (start.ids - ids)
    BY <1>1, <2>1
  <2>3. (Len(base) + 1)..Len(base) = {} /\ 1..0 = {}
    BY <1>1
  <2>4. QED
    BY <2>1, <2>2, <2>3, Zenon DEF Kept, Likes
<1> HIDE DEF n, start, base
<1>3. ASSUME NEW i \in 1..n, NEW r \in G[i - 1]
      PROVE  KeepFirst(r, batch[i]) \in G[i] /\ F[i][r] = KeepFirst(r, batch[i])
  <2>1. i - 1 \in 0..n /\ i \in 0..n
    BY <1>1
  <2>2. r \in Kepts /\ Kept(base, batch, r, i - 1)
    BY <1>3, <2>1
  <2>3. KeepFirst(r, batch[i]) \in Kepts /\ Kept(base, batch, KeepFirst(r, batch[i]), i)
    BY <1>1, <2>2, KeepFirstKeeps DEF n
  <2>4. KeepFirst(r, batch[i]) \in G[i]
    BY <2>1, <2>3
  <2>5. F[i][r] = KeepFirst(r, batch[i])
    <3> HIDE DEF G
    <3>1. QED
      BY <1>3
  <2>6. QED
    BY <2>4, <2>5
<1>4. start \in G[0]
  BY <1>1, <1>2
<1>5. G[n] \subseteq {r \in Kepts : Kept(base, batch, r, n)}
  BY <1>1
<1> HIDE DEF G, F
<1>6. PICK g : /\ g = [i \in 0..n |-> g[i]] /\ g[0] = start
               /\ \A i \in 1..n : g[i - 1] \in G[i - 1] /\ g[i] = F[i][g[i - 1]]
  <2>1. \A i \in 1..n : \A r \in G[i - 1] : F[i][r] \in G[i]
    BY <1>3
  <2>2. Turns(n, G, F, start)
    BY <1>4, <2>1 DEF Turns
  <2>3. \E g : Passes(n, G, F, start, g)
    BY <1>1, <2>2, LoopRuns
  <2>4. QED
    BY <2>3, Zenon DEF Passes
<1>7. Is(g)
  <2>1. \A i \in 0..n : i = 0 \/ i \in 1..n
    BY <1>1
  <2>2. \A i \in 1..n : g[i] = KeepFirst(g[i - 1], batch[i])
    BY <1>3, <1>6
  <2>3. \A i \in 0..n : g[i] = IF i = 0 THEN start ELSE KeepFirst(g[i - 1], batch[i])
    <3>1. \A i \in 1..n : i # 0
      OBVIOUS
    <3>2. QED
      BY <1>6, <2>1, <2>2, <3>1, Zenon
  <2>4. QED
    BY <1>6, <2>3
<1>8. KeepFirsts(batch) = h[n]
  BY DEF KeepFirsts, Loop, n, start
<1>9. Is(h)
  <2> HIDE DEF Is
  <2>1. QED
    BY <1>7
<1> HIDE DEF h
<1>10. h[0] = start /\ \A i \in 1..n : h[i] = KeepFirst(h[i - 1], batch[i])
  BY <1>1, <1>9
<1>11. h[n] \in G[n]
  <2>1. \A i \in 1..n : h[i - 1] \in G[i - 1] => h[i] \in G[i]
    BY <1>3, <1>10, Zenon
  <2>2. QED
    BY <1>1, <1>4, <1>10, <2>1, LoopEnds
<1>12. QED
  BY <1>5, <1>8, <1>11 DEF n, base

-----------------------------------------------------------------------------
(* The invariant.  While an import is under way in a vault that is open,   *)
(* and was all the time, the folders of the document are in the vault or   *)
(* still to be added, and its connections wait to be added, or have been.  *)
(* The folders that are to be added have UUIDs of their own, also when the *)
(* vault was read again, after an edit had saved some of the others.       *)
Tree(d, uuid, folders) ==
    /\ uuid \in [Containers(d) -> Uuids] /\ Injective(uuid)
    /\ \A n \in Containers(d) : FolderFor(d, uuid, n) \in folders
Batch(d, uuid, cs) ==
    /\ \A j \in 1..Len(cs) : \E n \in Leaves(d) : IsFor(cs[j], d, uuid, n)
    /\ \A n \in Leaves(d) : \E j \in 1..Len(cs) :
           SameEndpoint(cs[j], ToConnection(d.nodes[n], 0, Null))
Added(v, d, uuid, k) ==
    /\ k <= Len(v.connections) /\ Endpoints(v, d)
    /\ \A j \in (Len(v.connections) - k + 1)..Len(v.connections) :
           \E n \in Leaves(d) : IsFor(v.connections[j], d, uuid, n)

Numbered(folders) == \A i \in 1..Len(folders) : folders[i].id \in 1..ids
Apart(f, g) == \A i \in 1..Len(f), j \in 1..Len(g) : f[i].id # g[j].id
FolderIds ==
    /\ Numbered(disk.folders) /\ UniqueIds(disk.folders)
    /\ vault # None => Numbered(vault.folders) /\ UniqueIds(vault.folders)
    /\ job # None => /\ Numbered(job.folders) /\ UniqueIds(job.folders)
                     /\ Apart(disk.folders, job.folders)
    /\ job # None /\ vault # None => Apart(vault.folders, job.folders)

Underway == job # None =>
    /\ report = None
    /\ job.connections # None => ids + Len(job.connections) <= MaxIds
    /\ job.connections = None => job.folders = <<>>
    /\ vault # None /\ "reloaded" \notin since =>
           /\ job.found <= Len(vault.folders) + Len(job.folders)
           /\ \E uuid :
                  /\ Tree(job.doc, uuid, Range(vault.folders) \cup Range(job.folders))
                  /\ job.connections # None => Batch(job.doc, uuid, job.connections)
                  /\ job.connections = None /\ "edited" \notin since =>
                         Added(vault, job.doc, uuid, job.added)

(* What a report that stands is about is on the disk, and what is shown of *)
(* it comes from there.                                                    *)
OnDisk == /\ report.folders <= Len(disk.folders)
          /\ \E uuid : /\ Tree(report.doc, uuid, Range(disk.folders))
                       /\ "edited" \notin since =>
                              Added(disk, report.doc, uuid, report.connections)
Stored == report # None /\ report.ok =>
    /\ vault \in {None, disk}
    /\ report.shown => screen \in {EmptyVault, disk} /\ "reloaded" \notin since
    /\ "reloaded" \notin since => OnDisk

(* The vault is closed, and read again, behind the back of a HomeScreen    *)
(* that is gone.                                                           *)
Away == /\ job # None /\ vault = None => "left" \in since
        /\ "reloaded" \in since => "left" \in since

IInv == TypeOK /\ FolderIds /\ Underway /\ Stored /\ Away

(* A connection read from a node has a value of its kind in each field.    *)
LEMMA ToConnectionKind ==
  ASSUME NEW d, IsDocument(d), NEW n \in DOMAIN d.nodes, NEW id \in Uuids,
         NEW folder \in Option(Uuids)
  PROVE  ToConnection(d.nodes[n], id, folder) \in Connection
<1> DEFINE node == d.nodes[n]
           c == ToConnection(node, id, folder)
           protocols == {Protocols[i] : i \in DOMAIN Protocols}
           tags == Seq(Texts)
<1>1. {node.name, node.host, node.username, node.password, node.description}
          \subseteq Option(Texts)
  BY DEF IsDocument
<1>2. {"", "Unnamed"} \subseteq Texts
  BY ImportAssumption, Zenon
<1>3. /\ Name(node) \in Texts /\ UnwrapOr(node.host, "") \in Texts
      /\ NonEmpty(node.username) \in Option(Texts) /\ NonEmpty(node.password) \in Option(Texts)
      /\ NonEmpty(node.description) \in Option(Texts) /\ Null \in Option(Texts)
      /\ Null \in Option(Uuids)
  BY <1>1, <1>2 DEF Name, UnwrapOr, NonEmpty, Option
<1>4. ParseProtocol(node.protocol) \in protocols
  <2>1. {"Rdp", "Vnc", "Http", "Https", "Ssh"} \subseteq protocols
    <3>1. /\ Protocols[1] = "Ssh" /\ Protocols[2] = "Rdp" /\ Protocols[3] = "Vnc"
          /\ Protocols[4] = "Http" /\ Protocols[5] = "Https"
          /\ {1, 2, 3, 4, 5} \subseteq DOMAIN Protocols
      BY DEF Protocols
    <3>2. QED
      BY <3>1
  <2>2. ParseProtocol(node.protocol) \in {"Rdp", "Vnc", "Http", "Https", "Ssh"}
    <3> DEFINE p == node.protocol
    <3>1. ParseProtocol(p) = CASE UnwrapOr(p, "SSH") = "RDP" -> "Rdp"
                               [] p = "VNC" -> "Vnc"
                               [] p = "HTTP" -> "Http"
                               [] p = "HTTPS" -> "Https"
                               [] OTHER -> "Ssh"
      BY DEF ParseProtocol
    <3> HIDE DEF p
    <3>2. QED
      BY <3>1 DEF p
  <2>3. QED
    BY <2>1, <2>2
<1>5. ParsePort(node.port) \in Ports
  <2>1. 22 \in Ports /\ \A p : ParsePort(p) = IF p \in Ports THEN p ELSE 22
    BY SMT DEF ParsePort, Ports
  <2> HIDE DEF node
  <2>2. QED
    BY <2>1
<1>6. <<>> \in tags /\ 30 \in Nat
  BY EmptySeq
<1>7. c = [id |-> id, name |-> Name(node), protocol |-> ParseProtocol(node.protocol),
           host |-> UnwrapOr(node.host, ""), port |-> ParsePort(node.port),
           username |-> NonEmpty(node.username), password |-> NonEmpty(node.password),
           private_key_path |-> Null, private_key_passphrase |-> Null, folder_id |-> folder,
           tags |-> <<>>, notes |-> NonEmpty(node.description), jump_host_id |-> Null,
           timeout_seconds |-> 30, domain |-> Null]
  BY DEF ToConnection
<1>8. Connection = [id: Uuids, name: Texts, protocol: protocols, host: Texts, port: Ports,
                    username: Option(Texts), password: Option(Texts),
                    private_key_path: Option(Texts), private_key_passphrase: Option(Texts),
                    folder_id: Option(Uuids), tags: tags, notes: Option(Texts),
                    jump_host_id: Option(Uuids), timeout_seconds: Nat, domain: Option(Texts)]
  BY DEF Connection
<1> HIDE DEF protocols, tags, c, node
<1>9. c \in Connection
  BY <1>3, <1>4, <1>5, <1>6, <1>7, <1>8
<1>10. QED
  BY <1>9 DEF c, node

(* What the endpoint of a connection is does not depend on its UUID.       *)
LEMMA EndpointOf ==
  ASSUME NEW c, NEW d, NEW uuid, NEW n, IsFor(c, d, uuid, n)
  PROVE  SameEndpoint(c, ToConnection(d.nodes[n], 0, Null))
<1>1. \A node, id, folder : /\ ToConnection(node, id, folder).name = Name(node)
                            /\ ToConnection(node, id, folder).host = UnwrapOr(node.host, "")
                            /\ ToConnection(node, id, folder).port = ParsePort(node.port)
  BY DEF ToConnection
<1>2. PICK id, folder : c = ToConnection(d.nodes[n], id, folder)
  BY Zenon DEF IsFor
<1> DEFINE e == ToConnection(d.nodes[n], 0, Null)
<1>3. /\ c.name = Name(d.nodes[n]) /\ c.host = UnwrapOr(d.nodes[n].host, "")
      /\ c.port = ParsePort(d.nodes[n].port)
  BY <1>1, <1>2
<1>4. /\ e.name = Name(d.nodes[n]) /\ e.host = UnwrapOr(d.nodes[n].host, "")
      /\ e.port = ParsePort(d.nodes[n].port)
  BY <1>1
<1> HIDE DEF e
<1>5. c.name = e.name /\ c.host = e.host /\ c.port = e.port
  BY <1>3, <1>4, Zenon
<1>6. QED
  BY <1>5 DEF SameEndpoint, e

(* What the bridge makes of the vault's lists is those lists.              *)
LEMMA ListsAreKept ==
  ASSUME NEW v \in Contents
  PROVE  Lists(v) = v
<1>1. /\ v.connections \in Seq(Connection) /\ v.folders \in Seq(Folder)
      /\ v = [connections |-> v.connections, folders |-> v.folders]
  BY DEF Contents
<1>2. DecodeConnections(EncodeConnections(v.connections)).val = v.connections
  <2>1. DecodeConnections(EncodeConnections(v.connections)) =
            [val |-> v.connections, rest |-> <<>>]
    BY <1>1, CodecRoundTrips
  <2>2. QED
    BY <2>1
<1>3. DecodeFolders(EncodeFolders(v.folders)).val = v.folders
  <2>1. DecodeFolders(EncodeFolders(v.folders)) = [val |-> v.folders, rest |-> <<>>]
    BY <1>1, CodecRoundTrips
  <2>2. QED
    BY <2>1
<1>4. QED
  BY <1>1, <1>2, <1>3, Zenon DEF Lists

(* What is found in a document fits into the vault.                        *)
LEMMA ParsedFits ==
  ASSUME ids \in Nat, NEW d, IsDocument(d), NEW r, r \in Results(d),
         Found(d, r, Len(d.nodes)), r.ids <= MaxIds
  PROVE  /\ r.ids \in ids..MaxIds
         /\ r.folders \in Seq(Folder) /\ r.connections \in Seq(Connection)
         /\ \A j \in 1..Len(r.folders) : r.folders[j].id \in (ids + 1)..r.ids
         /\ UniqueIds(r.folders)
         /\ \E uuid : Tree(d, uuid, Range(r.folders)) /\ Batch(d, uuid, r.connections)
<1> DEFINE uuid == [n \in Containers(d) |-> r.folder[n]]
<1>1. DOMAIN d.nodes = 1..Len(d.nodes) /\ Len(d.nodes) \in Nat
  BY DEF IsDocument
<1>2. MaxIds \in Nat /\ 0..MaxIds \subseteq Uuids /\ "Unnamed" \in Texts
  BY ImportAssumption, Zenon
<1>3. /\ r.connections \in Seq(ConnectionOf(d)) /\ r.folders \in Seq(FolderOf(d))
      /\ r.ids \in Nat
  BY DEF Results
<1>4. r.ids \in ids..MaxIds /\ \A x \in (ids + 1)..r.ids : x \in Uuids
  <2>1. r.ids >= ids
    BY DEF Found, Opened
  <2>2. r.ids \in ids..MaxIds /\ \A x \in (ids + 1)..r.ids : x \in 0..MaxIds
    BY <1>2, <1>3, <2>1
  <2>3. QED
    BY <1>2, <2>2
<1>5. /\ Containers(d) \subseteq Reached(d) /\ Leaves(d) \subseteq Reached(d)
      /\ \A n \in Reached(d) : n \in DOMAIN d.nodes /\ n <= Len(d.nodes)
  BY <1>1 DEF Containers, Leaves, Reached
<1>6. \A n \in Containers(d) : r.folder[n] \in (ids + 1)..r.ids
  BY <1>5, Zenon DEF Found, Opened
<1>7. ASSUME NEW n \in Reached(d)
      PROVE  Home(d, uuid, n) = Home(d, r.folder, n) /\ Home(d, uuid, n) \in Option(Uuids)
  <2>1. d.nodes[n].parent = 0 \/ d.nodes[n].parent \in Containers(d)
    BY <1>5, ReachedBy
  <2>2. CASE d.nodes[n].parent = 0
    BY <2>2 DEF Home, Option
  <2>3. CASE d.nodes[n].parent # 0 /\ d.nodes[n].parent \in Containers(d)
    <3> DEFINE p == d.nodes[n].parent
    <3>1. uuid[p] = r.folder[p]
      BY <2>3
    <3>2. r.folder[p] \in Uuids
      BY <1>4, <1>6, <2>3, Zenon
    <3> HIDE DEF uuid
    <3>3. QED
      BY <2>3, <3>1, <3>2 DEF Home, Option
  <2>4. QED
    BY <2>1, <2>2, <2>3
<1>8. \A n \in Containers(d) : uuid[n] = r.folder[n] /\ uuid[n] \in Uuids
  BY <1>4, <1>6
<1>9. uuid \in [Containers(d) -> Uuids]
  BY <1>8
<1>10. DOMAIN uuid = Containers(d)
  OBVIOUS
<1> HIDE DEF uuid
<1>11. /\ \A n \in Containers(d) : FolderFor(d, r.folder, n) = FolderFor(d, uuid, n)
       /\ \A n \in Leaves(d) : \A c : IsFor(c, d, r.folder, n) => IsFor(c, d, uuid, n)
  BY <1>5, <1>7, <1>8, Zenon DEF FolderFor, IsFor
<1>12. Injective(uuid)
  BY <1>5, <1>8, <1>10, Zenon DEF Injective, Found, Opened
<1>13. ASSUME NEW j \in 1..Len(r.folders)
       PROVE  r.folders[j] \in Folder /\ r.folders[j].id \in (ids + 1)..r.ids
  <2>1. PICK n \in Containers(d) : r.folders[j] = FolderFor(d, r.folder, n)
    BY Zenon DEF Found, FoldersFound
  <2>2. r.folders[j] = [id |-> uuid[n], name |-> Name(d.nodes[n]),
                        parent_id |-> Home(d, uuid, n)]
    BY <1>11, <2>1, Zenon DEF FolderFor
  <2>3. uuid[n] \in Uuids /\ uuid[n] \in (ids + 1)..r.ids /\ Home(d, uuid, n) \in Option(Uuids)
    BY <1>5, <1>6, <1>7, <1>8, <2>1, Zenon
  <2>4. Name(d.nodes[n]) \in Texts
    <3>1. d.nodes[n].name \in Option(Texts)
      BY <1>5, <2>1 DEF IsDocument
    <3>2. QED
      BY <1>2, <3>1 DEF Name, UnwrapOr, Option
  <2>5. QED
    BY <2>2, <2>3, <2>4 DEF Folder
<1>14. ASSUME NEW j \in 1..Len(r.connections)
       PROVE  r.connections[j] \in Connection
  <2>1. PICK n \in Leaves(d) : IsFor(r.connections[j], d, r.folder, n)
    BY Zenon DEF Found, ConnectionsFound
  <2>2. r.connections[j].id \in (ids + 1)..r.ids
    BY Zenon DEF Found, ConnectionsFound
  <2>3. r.connections[j].id \in Uuids /\ n \in DOMAIN d.nodes
        /\ Home(d, uuid, n) \in Option(Uuids)
    BY <1>4, <1>5, <1>7, <2>1, <2>2, Zenon
  <2>4. ToConnection(d.nodes[n], r.connections[j].id, Home(d, uuid, n)) \in Connection
    BY <2>3, ToConnectionKind
  <2>5. IsFor(r.connections[j], d, uuid, n)
    BY <1>11, <2>1, Zenon
  <2>6. QED
    BY <2>4, <2>5 DEF IsFor
<1>15. r.folders \in Seq(Folder) /\ r.connections \in Seq(Connection)
  <2>1. \A S, T : \A s \in Seq(S) : (\A j \in 1..Len(s) : s[j] \in T) => s \in Seq(T)
    OBVIOUS
  <2>2. QED
    BY <1>3, <1>13, <1>14, <2>1, Zenon
<1>16. Tree(d, uuid, Range(r.folders))
  <2>1. Range(r.folders) = {r.folders[j] : j \in 1..Len(r.folders)}
    BY <1>3, RangeEquality
  <2>2. \A n \in Containers(d) : \E j \in 1..Len(r.folders) :
            r.folders[j] = FolderFor(d, uuid, n)
    BY <1>5, <1>11, Zenon DEF Found, FoldersFound
  <2>3. \A n \in Containers(d) : FolderFor(d, uuid, n) \in Range(r.folders)
    BY <2>1, <2>2
  <2>4. QED
    BY <1>9, <1>12, <2>3 DEF Tree
<1>17. Batch(d, uuid, r.connections)
  <2>1. \A j \in 1..Len(r.connections) : \E n \in Leaves(d) : IsFor(r.connections[j], d, uuid, n)
    BY <1>11, Zenon DEF Found, ConnectionsFound
  <2>2. \A n \in Leaves(d) : \E j \in 1..Len(r.connections) :
            SameEndpoint(r.connections[j], ToConnection(d.nodes[n], 0, Null))
    BY <1>5, EndpointOf, Zenon DEF Found, ConnectionsFound
  <2>3. QED
    BY <2>1, <2>2, Zenon DEF Batch
<1>18. UniqueIds(r.folders)
  BY Zenon DEF Found, FoldersFound
<1>19. QED
  BY <1>4, <1>13, <1>15, <1>16, <1>17, <1>18, Zenon

-----------------------------------------------------------------------------
(* The fields of what the variables hold.                                  *)
LEMMA Fields ==
  /\ \A v \in Contents : v.connections \in Seq(Connection) /\ v.folders \in Seq(Folder)
  /\ \A cs \in Seq(Connection), fs \in Seq(Folder) :
         [connections |-> cs, folders |-> fs] \in Contents
  /\ \A x \in Jobs : /\ x.doc \in Documents /\ x.folders \in Seq(Folder) /\ x.added \in Nat
                     /\ x.connections \in Seq(Connection) \cup {None} /\ x.found \in Nat
  /\ \A x \in Reports : x.ok => /\ x.doc \in Documents /\ x.shown \in BOOLEAN
                                /\ x.connections \in Nat /\ x.folders \in Nat
<1>1. /\ \A v \in Contents : v.connections \in Seq(Connection) /\ v.folders \in Seq(Folder)
      /\ \A cs \in Seq(Connection), fs \in Seq(Folder) :
             [connections |-> cs, folders |-> fs] \in Contents
  <2> DEFINE C == Seq(Connection)
             F == Seq(Folder)
  <2>1. Contents = [connections: C, folders: F]
    BY DEF Contents
  <2> HIDE DEF C, F
  <2>2. /\ \A v \in Contents : v.connections \in C /\ v.folders \in F
        /\ \A cs \in C, fs \in F : [connections |-> cs, folders |-> fs] \in Contents
    BY <2>1
  <2>3. QED
    BY <2>2 DEF C, F
<1>2. \A x \in Jobs : /\ x.doc \in Documents /\ x.folders \in Seq(Folder) /\ x.added \in Nat
                      /\ x.connections \in Seq(Connection) \cup {None} /\ x.found \in Nat
  BY DEF Jobs
<1>3. \A x \in Reports : x.ok => /\ x.doc \in Documents /\ x.shown \in BOOLEAN
                                 /\ x.connections \in Nat /\ x.folders \in Nat
  BY DEF Reports
<1>4. QED
  BY <1>1, <1>2, <1>3

(* None is nothing that a variable may hold otherwise.                     *)
LEMMA NoneIsNothing ==
  /\ None \notin Contents /\ None \notin Jobs /\ None \notin Reports
  /\ None \notin Seq(Connection) /\ EmptyVault \in Contents
<1>1. EmptyVault \in Contents
  BY EmptySeq DEF Contents, EmptyVault
<1>2. QED
  BY <1>1, ImportAssumption, Zenon

(* Nothing is there yet.                                                   *)
LEMMA InitIInv == Init => IInv
<1> SUFFICES ASSUME Init PROVE IInv
  OBVIOUS
<1>1. /\ vault = EmptyVault /\ disk = EmptyVault /\ screen = EmptyVault
      /\ job = None /\ report = None /\ ids = 0 /\ acts = 0 /\ since = {}
      /\ EmptyVault.folders = <<>> /\ EmptyVault \in Contents
  BY NoneIsNothing DEF Init, EmptyVault
<1>2. 0 \in 0..MaxIds /\ 0 \in 0..MaxActs
  <2>1. MaxIds \in Nat /\ MaxActs \in Nat
    BY ImportAssumption, Zenon
  <2>2. QED
    BY <2>1
<1>3. TypeOK
  BY <1>1, <1>2, Zenon DEF TypeOK
<1>4. Numbered(<<>>) /\ UniqueIds(<<>>)
  BY DEF Numbered, UniqueIds
<1>5. FolderIds
  BY <1>1, <1>4, Zenon DEF FolderIds
<1>6. "reloaded" \notin since
  BY <1>1
<1>7. QED
  BY <1>1, <1>3, <1>5, <1>6, Zenon DEF IInv, Underway, Stored, Away

(* UUIDs are drawn in sequence: the later ones are not in use.             *)
LEMMA LaterIds ==
  ASSUME ids \in Nat, ids' \in Nat, ids <= ids', NEW f, Numbered(f)
  PROVE  \A i \in 1..Len(f) : f[i].id \in 1..ids'
<1>1. \A x \in 1..ids : x \in 1..ids'
  OBVIOUS
<1>2. QED
  BY <1>1, Zenon DEF Numbered

(* An error ends the import, and reports nothing that is to be on the      *)
(* disk.                                                                   *)
LEMMA FailStep ==
  ASSUME IInv, NEW d \in Documents, Fail(d), UNCHANGED <<vault, disk, screen, ids, acts>>,
         since' \in {since, {}}
  PROVE  IInv'
<1>1. job' = None /\ report' = [ok |-> FALSE, doc |-> d, shown |-> FALSE]
  BY DEF Fail
<1>2. report' \in Reports /\ ~report'.ok
  BY <1>1 DEF Reports
<1>3. TypeOK'
  BY <1>1, <1>2 DEF IInv, TypeOK
<1>4. FolderIds'
  BY <1>1, Zenon DEF IInv, FolderIds, Numbered
<1>5. Underway' /\ Stored'
  BY <1>1, <1>2 DEF Underway, Stored
<1>6. Away'
  BY <1>1 DEF IInv, Away
<1>7. QED
  BY <1>3, <1>4, <1>5, <1>6 DEF IInv

(* A document is parsed: its folders and connections are the job's, under  *)
(* UUIDs that nothing else has.                                            *)
LEMMA ParseStep ==
  ASSUME IInv, NEW d \in Documents, Parse(d)
  PROVE  IInv'
<1> DEFINE r == ParseDocument(d)
<1>1. IsDocument(d)
  BY ImportAssumption, Zenon
<1>2. ids \in Nat /\ MaxIds \in Nat
  <2>1. MaxIds \in Nat
    BY ImportAssumption, Zenon
  <2>2. QED
    BY <2>1 DEF IInv, TypeOK
<1>3. CASE ~d.wellFormed
  BY <1>3, FailStep DEF Parse
<1>4. CASE d.wellFormed
  <2>1. /\ r.ids + Len(r.connections) <= MaxIds /\ ids' = r.ids
        /\ job' = [doc |-> d, folders |-> r.folders, added |-> 0,
                   connections |-> r.connections, found |-> Len(r.folders)]
        /\ report' = None /\ job = None /\ vault # None /\ since' = {}
        /\ UNCHANGED <<vault, disk, screen, acts>>
    BY <1>4, Zenon DEF Parse
  <2>2. r \in Results(d) /\ Found(d, r, Len(d.nodes))
    BY <1>1, <1>2, ParseFinds
  <2> HIDE DEF r
  <2>3. r.ids <= MaxIds
    <3>1. r.ids \in Nat /\ r.connections \in Seq(ConnectionOf(d))
      BY <2>2 DEF Results
    <3>2. Len(r.connections) \in Nat
      BY <3>1
    <3>3. QED
      BY <1>2, <2>1, <3>1, <3>2
  <2>4. /\ r.ids \in ids..MaxIds
        /\ r.folders \in Seq(Folder) /\ r.connections \in Seq(Connection)
        /\ \A j \in 1..Len(r.folders) : r.folders[j].id \in (ids + 1)..r.ids
        /\ UniqueIds(r.folders)
        /\ \E uuid : Tree(d, uuid, Range(r.folders)) /\ Batch(d, uuid, r.connections)
    BY <1>1, <1>2, <2>2, <2>3, ParsedFits
  <2>5. Len(r.folders) \in Nat /\ ids' \in 0..MaxIds /\ ids <= ids' /\ ids' \in Nat
    BY <1>2, <2>1, <2>4
  <2>6. job' \in Jobs
    BY <2>1, <2>4, <2>5 DEF Jobs
  <2>7. /\ job'.doc = d /\ job'.folders = r.folders /\ job'.connections = r.connections
        /\ job'.found = Len(r.folders)
    BY <2>1
  <2>8. TypeOK'
    BY <2>1, <2>5, <2>6 DEF IInv, TypeOK
  <2>9. /\ \A x \in (ids + 1)..r.ids : x \in 1..ids'
        /\ \A x \in 1..ids, y \in (ids + 1)..r.ids : x # y
    BY <1>2, <2>1, <2>5
  <2>10. FolderIds'
    <3>1. Numbered(disk.folders) /\ UniqueIds(disk.folders)
          /\ Numbered(vault.folders) /\ UniqueIds(vault.folders)
      BY <2>1, Zenon DEF IInv, FolderIds
    <3>2. /\ \A i \in 1..Len(disk.folders) : disk.folders[i].id \in 1..ids'
          /\ \A i \in 1..Len(vault.folders) : vault.folders[i].id \in 1..ids'
      BY <1>2, <2>5, <3>1, LaterIds
    <3>3. Numbered(disk.folders)' /\ Numbered(vault.folders)'
      BY <2>1, <3>2, Zenon DEF Numbered
    <3>4. Numbered(job.folders)' /\ UniqueIds(job'.folders)
      BY <2>4, <2>7, <2>9, Zenon DEF Numbered
    <3>5. Apart(vault.folders, r.folders) /\ Apart(disk.folders, r.folders)
      BY <2>4, <2>9, <3>1, Zenon DEF Apart, Numbered
    <3>6. QED
      BY <2>1, <2>7, <3>1, <3>3, <3>4, <3>5, Zenon DEF FolderIds
  <2>11. Underway'
    <3>1. job'.connections # None
      BY <2>4, <2>7, NoneIsNothing
    <3>2. Len(r.folders) <= Len(vault.folders) + Len(r.folders)
      <4>1. vault.folders \in Seq(Folder)
        BY <2>1, Fields DEF IInv, TypeOK
      <4>2. Len(vault.folders) \in Nat
        BY <4>1
      <4>3. \A x, y \in Nat : y <= x + y
        OBVIOUS
      <4>4. QED
        BY <2>5, <4>2, <4>3, Zenon
    <3>3. PICK uuid : Tree(d, uuid, Range(r.folders)) /\ Batch(d, uuid, r.connections)
      BY <2>4, Zenon
    <3>4. Tree(d, uuid, Range(vault.folders) \cup Range(r.folders))
      BY <3>3 DEF Tree
    <3>5. QED
      BY <2>1, <2>7, <3>1, <3>2, <3>3, <3>4, Zenon DEF Underway
  <2>12. Stored' /\ Away'
    BY <2>1 DEF Stored, Away
  <2>13. QED
    BY <2>8, <2>10, <2>11, <2>12 DEF IInv
<1>5. QED
  BY <1>3, <1>4

(* Of two lists, the first element of the second goes to the end of the    *)
(* first: what is where then.                                              *)
Moved(vf, jf, wf, tf) ==
    /\ wf \in Seq(Folder) /\ tf \in Seq(Folder)
    /\ Len(wf) + Len(tf) = Len(vf) + Len(jf)
    /\ \A i \in 1..Len(wf) : \/ i \in 1..Len(vf) /\ wf[i] = vf[i]
                             \/ i = Len(vf) + 1 /\ wf[i] = jf[1]
    /\ \A i \in 1..Len(tf) : i + 1 \in 1..Len(jf) /\ i + 1 # 1 /\ tf[i] = jf[i + 1]
    /\ 1 \in 1..Len(jf)
    /\ Range(vf) \cup Range(jf) \subseteq Range(wf) \cup Range(tf)
LEMMA HeadMoves ==
  ASSUME NEW vf \in Seq(Folder), NEW jf \in Seq(Folder), jf # <<>>
  PROVE  Moved(vf, jf, Append(vf, Head(jf)), Tail(jf))
<1> DEFINE h == Head(jf)
           wf == Append(vf, h)
           tf == Tail(jf)
<1>1. /\ h \in Folder /\ Len(jf) \in Nat /\ Len(vf) \in Nat /\ Len(jf) >= 1 /\ h = jf[1]
      /\ tf \in Seq(Folder) /\ Len(tf) = Len(jf) - 1
      /\ \A i \in 1..(Len(jf) - 1) : tf[i] = jf[i + 1]
  BY HeadTailProperties
<1> HIDE DEF h
<1>2. /\ wf \in Seq(Folder) /\ Len(wf) = Len(vf) + 1
      /\ \A i \in 1..Len(vf) : wf[i] = vf[i]
      /\ wf[Len(vf) + 1] = jf[1]
  BY <1>1, AppendProperties
<1>3. /\ Range(vf) = {vf[i] : i \in 1..Len(vf)} /\ Range(jf) = {jf[i] : i \in 1..Len(jf)}
  BY RangeEquality
<1> HIDE DEF wf, tf
<1>4. /\ Range(wf) = {wf[i] : i \in 1..Len(wf)} /\ Range(tf) = {tf[i] : i \in 1..Len(tf)}
  <2>1. Range(wf) = {wf[i] : i \in 1..Len(wf)}
    BY <1>2, RangeEquality
  <2>2. Range(tf) = {tf[i] : i \in 1..Len(tf)}
    BY <1>1, RangeEquality
  <2>3. QED
    BY <2>1, <2>2
<1>5. Len(wf) + Len(tf) = Len(vf) + Len(jf)
  BY <1>1, <1>2
<1>6. ASSUME NEW i \in 1..Len(wf)
      PROVE  \/ i \in 1..Len(vf) /\ wf[i] = vf[i]
             \/ i = Len(vf) + 1 /\ wf[i] = jf[1]
  <2>1. \A l \in Nat : \A j \in 1..(l + 1) : j \in 1..l \/ j = l + 1
    OBVIOUS
  <2>2. i \in 1..Len(vf) \/ i = Len(vf) + 1
    BY <1>1, <1>2, <2>1, Zenon
  <2>3. CASE i = Len(vf) + 1
    BY <1>2, <2>3
  <2>4. CASE i \in 1..Len(vf)
    <3>1. wf[i] = vf[i]
      BY <1>2, <2>4, Zenon
    <3>2. QED
      BY <2>4, <3>1, Zenon
  <2>5. QED
    BY <2>2, <2>3, <2>4, Zenon
<1>7. ASSUME NEW i \in 1..Len(tf)
      PROVE  i + 1 \in 1..Len(jf) /\ i + 1 # 1 /\ tf[i] = jf[i + 1]
  BY <1>1
<1>8. 1 \in 1..Len(jf)
  BY <1>1
<1>9. ASSUME NEW i \in 1..Len(vf) PROVE vf[i] \in Range(wf)
  <2>1. i \in 1..Len(wf) /\ wf[i] = vf[i]
    BY <1>1, <1>2
  <2>2. QED
    BY <1>4, <2>1
<1>10. ASSUME NEW i \in 1..Len(jf) PROVE jf[i] \in Range(wf) \cup Range(tf)
  <2>1. CASE i = 1
    <3>1. Len(vf) + 1 \in 1..Len(wf)
      BY <1>1, <1>2
    <3>2. jf[1] \in Range(wf)
      BY <1>2, <1>4, <3>1, Zenon
    <3>3. QED
      BY <2>1, <3>2
  <2>2. CASE i # 1
    <3>1. i - 1 \in 1..Len(tf) /\ (i - 1) + 1 = i
      BY <1>1, <2>2
    <3>2. tf[i - 1] = jf[i]
      BY <1>7, <3>1
    <3>3. QED
      BY <1>4, <3>1, <3>2
  <2>3. QED
    BY <2>1, <2>2
<1>11. Range(vf) \cup Range(jf) \subseteq Range(wf) \cup Range(tf)
  BY <1>3, <1>9, <1>10
<1>12. QED
  BY <1>1, <1>2, <1>5, <1>6, <1>7, <1>8, <1>11, Zenon DEF Moved, wf, tf, h

(* A folder goes from the job to the vault.                                *)
LEMMA AddFolderStep ==
  ASSUME IInv, AddFolder
  PROVE  IInv'
<1> DEFINE vf == vault.folders
           jf == job.folders
           wf == Append(vf, Head(jf))
           tf == Tail(jf)
<1>1. /\ job # None /\ jf # <<>> /\ vault # None
      /\ vault' = [vault EXCEPT !.folders = wf]
      /\ job' = [job EXCEPT !.folders = tf]
      /\ UNCHANGED <<disk, report, screen, ids, acts, since>>
  BY Zenon DEF AddFolder
<1>2. /\ job \in Jobs /\ vault \in Contents /\ vf \in Seq(Folder) /\ jf \in Seq(Folder)
      /\ vault.connections \in Seq(Connection)
  BY <1>1, Fields DEF IInv, TypeOK
<1>3. /\ wf \in Seq(Folder) /\ tf \in Seq(Folder)
      /\ Len(wf) + Len(tf) = Len(vf) + Len(jf)
      /\ \A i \in 1..Len(wf) : \/ i \in 1..Len(vf) /\ wf[i] = vf[i]
                               \/ i = Len(vf) + 1 /\ wf[i] = jf[1]
      /\ \A i \in 1..Len(tf) : i + 1 \in 1..Len(jf) /\ i + 1 # 1 /\ tf[i] = jf[i + 1]
      /\ 1 \in 1..Len(jf)
      /\ Range(vf) \cup Range(jf) \subseteq Range(wf) \cup Range(tf)
  <2>1. Moved(vf, jf, wf, tf)
    BY <1>1, <1>2, HeadMoves, Zenon
  <2> HIDE DEF vf, jf, wf, tf
  <2>2. QED
    BY <2>1, Zenon DEF Moved
<1>4. DOMAIN vf = 1..Len(vf) /\ DOMAIN jf = 1..Len(jf) /\ DOMAIN wf = 1..Len(wf)
      /\ DOMAIN tf = 1..Len(tf)
  BY <1>2, <1>3
<1> HIDE DEF wf, tf
<1>5. /\ vault' = [connections |-> vault.connections, folders |-> wf]
      /\ vault'.folders = wf
  <2>1. vault = [connections |-> vault.connections, folders |-> vf]
    BY <1>2 DEF Contents
  <2>2. QED
    BY <1>1, <2>1
<1>6. /\ job' \in Jobs /\ job'.doc = job.doc /\ job'.folders = tf /\ job'.added = job.added
      /\ job'.connections = job.connections /\ job'.found = job.found
  <2>1. job = [doc |-> job.doc, folders |-> job.folders, added |-> job.added,
               connections |-> job.connections, found |-> job.found]
    BY <1>2 DEF Jobs
  <2>2. QED
    BY <1>1, <1>2, <1>3, <2>1 DEF Jobs
<1>7. vault' \in Contents /\ vault' # None /\ job' # None
  <2>1. vault' \in Contents
    BY <1>2, <1>3, <1>5, Fields, Zenon
  <2>2. QED
    BY <1>6, <2>1, NoneIsNothing
<1>8. TypeOK'
  BY <1>1, <1>6, <1>7 DEF IInv, TypeOK
<1>9. /\ Numbered(vf) /\ Numbered(jf) /\ UniqueIds(vf) /\ UniqueIds(jf) /\ Apart(vf, jf)
      /\ Numbered(disk.folders) /\ UniqueIds(disk.folders) /\ Apart(disk.folders, jf)
  BY <1>1, Zenon DEF IInv, FolderIds
<1>10. UniqueIds(wf)
  <2>1. ASSUME NEW i \in 1..Len(wf), NEW j \in 1..Len(wf), wf[i].id = wf[j].id PROVE i = j
    <3>1. CASE i \in 1..Len(vf) /\ j \in 1..Len(vf) /\ wf[i] = vf[i] /\ wf[j] = vf[j]
      BY <1>4, <1>9, <2>1, <3>1, Zenon DEF UniqueIds
    <3>2. CASE i \in 1..Len(vf) /\ wf[i] = vf[i] /\ wf[j] = jf[1]
      BY <1>3, <1>9, <2>1, <3>2, Zenon DEF Apart
    <3>3. CASE j \in 1..Len(vf) /\ wf[j] = vf[j] /\ wf[i] = jf[1]
      BY <1>3, <1>9, <2>1, <3>3, Zenon DEF Apart
    <3>4. QED
      BY <1>3, <3>1, <3>2, <3>3, Zenon
  <2>2. QED
    BY <1>4, <2>1, Zenon DEF UniqueIds
<1>11. UniqueIds(tf)
  <2>1. ASSUME NEW i \in 1..Len(tf), NEW j \in 1..Len(tf), tf[i].id = tf[j].id PROVE i = j
    <3>1. i + 1 = j + 1
      <4>1. /\ i + 1 \in 1..Len(jf) /\ j + 1 \in 1..Len(jf)
            /\ tf[i] = jf[i + 1] /\ tf[j] = jf[j + 1]
        BY <1>3, <2>1, Zenon
      <4>2. QED
        BY <1>4, <1>9, <2>1, <4>1, Zenon DEF UniqueIds
    <3>2. QED
      BY <3>1
  <2>2. QED
    BY <1>4, <2>1, Zenon DEF UniqueIds
<1>12. Apart(wf, tf)
  <2>1. ASSUME NEW i \in 1..Len(wf), NEW j \in 1..Len(tf) PROVE wf[i].id # tf[j].id
    <3>1. j + 1 \in 1..Len(jf) /\ j + 1 # 1 /\ tf[j] = jf[j + 1]
      BY <1>3, <2>1, Zenon
    <3>2. CASE i \in 1..Len(vf) /\ wf[i] = vf[i]
      BY <1>9, <3>1, <3>2, Zenon DEF Apart
    <3>3. CASE wf[i] = jf[1]
      <4>1. jf[1].id # jf[j + 1].id
        BY <1>3, <1>4, <1>9, <3>1, Zenon DEF UniqueIds
      <4>2. QED
        BY <3>1, <3>3, <4>1, Zenon
    <3>4. QED
      BY <1>3, <2>1, <3>2, <3>3, Zenon
  <2>2. QED
    BY <2>1, Zenon DEF Apart
<1>13. FolderIds'
  <2>1. \A i \in 1..Len(wf) : wf[i].id \in 1..ids
    BY <1>3, <1>9, Zenon DEF Numbered
  <2>2. \A i \in 1..Len(tf) : tf[i].id \in 1..ids
    BY <1>3, <1>9, Zenon DEF Numbered
  <2>3. \A i \in 1..Len(disk.folders) : disk.folders[i].id \in 1..ids
    BY <1>9, Zenon DEF Numbered
  <2>4. Numbered(vault.folders)'
    BY <1>1, <1>5, <2>1, Zenon DEF Numbered
  <2>5. Numbered(job.folders)'
    BY <1>1, <1>6, <2>2, Zenon DEF Numbered
  <2>6. Numbered(disk.folders)'
    BY <1>1, <2>3, Zenon DEF Numbered
  <2>7. Apart(disk.folders, tf)
    BY <1>3, <1>9, Zenon DEF Apart
  <2>8. QED
    BY <1>1, <1>5, <1>6, <1>9, <1>10, <1>11, <1>12, <2>4, <2>5, <2>6, <2>7, Zenon
       DEF FolderIds
<1>14. Underway'
  <2>1. job.connections # None /\ report = None /\ ids + Len(job.connections) <= MaxIds
    BY <1>1, Zenon DEF IInv, Underway
  <2>2. CASE "reloaded" \in since
    BY <1>1, <1>6, <2>1, <2>2, Zenon DEF Underway
  <2>3. CASE "reloaded" \notin since
    <3>1. PICK uuid : /\ Tree(job.doc, uuid, Range(vf) \cup Range(jf))
                      /\ Batch(job.doc, uuid, job.connections)
      BY <1>1, <2>1, <2>3, Zenon DEF IInv, Underway
    <3>2. job.found <= Len(vf) + Len(jf)
      BY <1>1, <2>3, Zenon DEF IInv, Underway
    <3>3. job.found <= Len(wf) + Len(tf)
      BY <1>3, <3>2, Zenon
    <3>4. Tree(job.doc, uuid, Range(wf) \cup Range(tf))
      BY <1>3, <3>1 DEF Tree
    <3>5. QED
      BY <1>1, <1>5, <1>6, <2>1, <3>1, <3>3, <3>4, Zenon DEF Underway
  <2>4. QED
    BY <2>2, <2>3
<1>15. Stored' /\ Away'
  <2>1. report = None
    BY <1>1, Zenon DEF IInv, Underway
  <2>2. QED
    BY <1>1, <1>7, <2>1 DEF IInv, Stored, Away
<1>16. QED
  BY <1>8, <1>13, <1>14, <1>15 DEF IInv
(* A connection read from a node, under another UUID.                      *)
LEMMA RenamedFor ==
  ASSUME NEW node, NEW id, NEW folder, NEW x
  PROVE  [ToConnection(node, id, folder) EXCEPT !.id = x] = ToConnection(node, x, folder)
<1>1. \A a, b, c, e, f, g, h, i, j :
          [[id |-> id, name |-> a, protocol |-> b, host |-> c, port |-> e, username |-> f,
            password |-> g, private_key_path |-> h, private_key_passphrase |-> h,
            folder_id |-> folder, tags |-> i, notes |-> j, jump_host_id |-> h,
            timeout_seconds |-> 30, domain |-> h] EXCEPT !.id = x] =
          [id |-> x, name |-> a, protocol |-> b, host |-> c, port |-> e, username |-> f,
           password |-> g, private_key_path |-> h, private_key_passphrase |-> h,
           folder_id |-> folder, tags |-> i, notes |-> j, jump_host_id |-> h,
           timeout_seconds |-> 30, domain |-> h]
  OBVIOUS
<1> DEFINE a == Name(node)
           b == ParseProtocol(node.protocol)
           c == UnwrapOr(node.host, "")
           e == ParsePort(node.port)
           f == NonEmpty(node.username)
           g == NonEmpty(node.password)
           j == NonEmpty(node.description)
<1>2. \A k : ToConnection(node, k, folder) =
          [id |-> k, name |-> a, protocol |-> b, host |-> c, port |-> e, username |-> f,
           password |-> g, private_key_path |-> Null, private_key_passphrase |-> Null,
           folder_id |-> folder, tags |-> <<>>, notes |-> j, jump_host_id |-> Null,
           timeout_seconds |-> 30, domain |-> Null]
  BY DEF ToConnection
<1> HIDE DEF a, b, c, e, f, g, j
<1>3. QED
  BY <1>1, <1>2

(* What is kept of the connections of a document is what it has.           *)
LEMMA KeptIsAdded ==
  ASSUME ids \in Nat, NEW base \in Seq(Connection), NEW batch \in Seq(Connection),
         NEW kept, kept \in Kepts, Kept(base, batch, kept, Len(batch)),
         ids + Len(batch) <= MaxIds,
         NEW d, NEW uuid, Batch(d, uuid, batch), NEW v, v.connections = kept.connections
  PROVE  /\ kept.ids \in ids..MaxIds /\ kept.ids - ids \in Nat
         /\ Added(v, d, uuid, kept.ids - ids)
<1> DEFINE cs == kept.connections
           k == kept.ids - ids
<1>1. /\ cs \in Seq(Connection) /\ Len(cs) \in Nat /\ Len(base) \in Nat /\ Len(batch) \in Nat
      /\ kept.ids \in Nat /\ DOMAIN cs = 1..Len(cs) /\ MaxIds \in Nat
  <2>1. MaxIds \in Nat
    BY ImportAssumption, Zenon
  <2>2. cs \in Seq(Connection) /\ kept.ids \in Nat
    BY DEF Kepts
  <2>3. QED
    BY <2>1, <2>2
<1>2. kept.ids \in ids..(ids + Len(batch)) /\ Len(cs) = Len(base) + k
  BY Zenon DEF Kept
<1>3. /\ kept.ids \in ids..MaxIds /\ k \in Nat /\ k <= Len(cs)
      /\ (Len(cs) - k) + 1 = Len(base) + 1
  BY <1>1, <1>2
<1> HIDE DEF cs, k
<1>4. ASSUME NEW j \in (Len(base) + 1)..Len(cs)
      PROVE  \E n \in Leaves(d) : IsFor(cs[j], d, uuid, n)
  <2>1. PICK i \in 1..Len(batch) : cs[j] = [batch[i] EXCEPT !.id = cs[j].id]
    BY Zenon DEF Kept, cs
  <2>2. PICK n \in Leaves(d) : IsFor(batch[i], d, uuid, n)
    BY Zenon DEF Batch
  <2>3. PICK id : batch[i] = ToConnection(d.nodes[n], id, Home(d, uuid, n))
    BY <2>2, Zenon DEF IsFor
  <2>4. cs[j] = ToConnection(d.nodes[n], cs[j].id, Home(d, uuid, n))
    <3>1. [batch[i] EXCEPT !.id = cs[j].id] =
              ToConnection(d.nodes[n], cs[j].id, Home(d, uuid, n))
      <4>1. [ToConnection(d.nodes[n], id, Home(d, uuid, n)) EXCEPT !.id = cs[j].id] =
                ToConnection(d.nodes[n], cs[j].id, Home(d, uuid, n))
        BY RenamedFor
      <4>2. QED
        BY <2>3, <4>1, Zenon
    <3>2. QED
      BY <2>1, <3>1, Zenon
  <2>5. QED
    BY <2>4, Zenon DEF IsFor
<1>5. ASSUME NEW n \in Leaves(d)
      PROVE  \E j \in DOMAIN cs : SameEndpoint(cs[j], ToConnection(d.nodes[n], 0, Null))
  <2>1. PICK i \in 1..Len(batch) : SameEndpoint(batch[i], ToConnection(d.nodes[n], 0, Null))
    BY Zenon DEF Batch
  <2>2. PICK j \in 1..Len(cs) : SameEndpoint(batch[i], cs[j])
    BY Zenon DEF Kept, cs
  <2>3. SameEndpoint(cs[j], ToConnection(d.nodes[n], 0, Null))
    BY <2>1, <2>2, Zenon DEF SameEndpoint
  <2>4. QED
    BY <1>1, <2>3, Zenon
<1>6. v.connections = cs
  BY DEF cs
<1>7. Added(v, d, uuid, k)
  BY <1>3, <1>4, <1>5, <1>6, Zenon DEF Added, Endpoints
<1>8. QED
  BY <1>3, <1>7 DEF k

(* What import_connections keeps, in a state of the invariant.             *)
LEMMA ImportKeeps ==
  ASSUME IInv, ImportConnections
  PROVE  LET batch == job.connections
             kept == KeepFirsts(batch)
         IN  /\ batch \in Seq(Connection) /\ ids \in Nat /\ ids + Len(batch) <= MaxIds
             /\ kept \in Kepts /\ Kept(vault.connections, batch, kept, Len(batch))
             /\ vault' = [vault EXCEPT !.connections = kept.connections]
             /\ ids' = kept.ids
             /\ job' = [job EXCEPT !.connections = None, !.added = kept.ids - ids]
<1>1. /\ job # None /\ vault # None /\ job.connections # None
      /\ vault' = [vault EXCEPT !.connections = KeepFirsts(job.connections).connections]
      /\ ids' = KeepFirsts(job.connections).ids
      /\ job' = [job EXCEPT !.connections = None,
                            !.added = KeepFirsts(job.connections).ids - ids]
  BY Zenon DEF ImportConnections
<1>2. /\ job.connections \in Seq(Connection) /\ vault.connections \in Seq(Connection)
      /\ ids \in Nat
  <2>1. job \in Jobs /\ vault \in Contents /\ ids \in Nat
    BY <1>1 DEF IInv, TypeOK
  <2>2. QED
    BY <1>1, <2>1, Fields, Zenon
<1>3. ids + Len(job.connections) <= MaxIds
  BY <1>1, Zenon DEF IInv, Underway
<1>4. /\ KeepFirsts(job.connections) \in Kepts
      /\ Kept(vault.connections, job.connections, KeepFirsts(job.connections),
              Len(job.connections))
  BY <1>2, <1>3, KeepFirstsKeeps
<1>5. QED
  BY <1>1, <1>2, <1>3, <1>4, Zenon
(* A step that adds no folder: a list of folders that was not there before *)
(* is another one that was.                                                *)
LEMMA FoldersStay ==
  ASSUME FolderIds, ids \in Nat, ids' \in Nat, ids <= ids',
         \/ disk'.folders = disk.folders
         \/ vault # None /\ disk'.folders = vault.folders,
         vault' # None => \/ vault # None /\ vault'.folders = vault.folders
                          \/ vault'.folders = disk.folders,
         job' # None => job # None /\ job'.folders = job.folders
  PROVE  FolderIds'
<1>1. ASSUME NEW f, Numbered(f) PROVE \A i \in 1..Len(f) : f[i].id \in 1..ids'
  BY <1>1, LaterIds
<1>2. Numbered(disk.folders)' /\ UniqueIds(disk'.folders)
  BY <1>1, Zenon DEF FolderIds, Numbered
<1>3. ASSUME vault' # None PROVE Numbered(vault.folders)' /\ UniqueIds(vault'.folders)
  BY <1>1, <1>3, Zenon DEF FolderIds, Numbered
<1>4. ASSUME job' # None PROVE Numbered(job.folders)' /\ UniqueIds(job'.folders)
  BY <1>1, <1>4, Zenon DEF FolderIds, Numbered
<1>5. ASSUME job' # None, vault' # None PROVE Apart(vault'.folders, job'.folders)
  BY <1>5, Zenon DEF FolderIds
<1>6. ASSUME job' # None PROVE Apart(disk'.folders, job'.folders)
  BY <1>6, Zenon DEF FolderIds
<1>7. QED
  BY <1>2, <1>3, <1>4, <1>5, <1>6, Zenon DEF FolderIds

(* The connections go from the job to the vault, all at once.              *)
LEMMA ImportConnectionsStep ==
  ASSUME IInv, ImportConnections
  PROVE  IInv'
<1> DEFINE batch == job.connections
           kept == KeepFirsts(batch)
<1>1. /\ batch \in Seq(Connection) /\ ids \in Nat /\ ids + Len(batch) <= MaxIds
      /\ kept \in Kepts /\ Kept(vault.connections, batch, kept, Len(batch))
      /\ vault' = [vault EXCEPT !.connections = kept.connections]
      /\ ids' = kept.ids
      /\ job' = [job EXCEPT !.connections = None, !.added = kept.ids - ids]
  BY ImportKeeps
<1>2. /\ job # None /\ vault # None /\ batch # None /\ job.folders = <<>>
      /\ UNCHANGED <<disk, report, screen, acts, since>>
  BY Zenon DEF ImportConnections
<1> HIDE DEF kept
<1>3. /\ job \in Jobs /\ vault \in Contents /\ vault.folders \in Seq(Folder)
      /\ vault.connections \in Seq(Connection) /\ MaxIds \in Nat
  <2>1. MaxIds \in Nat
    BY ImportAssumption, Zenon
  <2>2. job \in Jobs /\ vault \in Contents
    BY <1>2 DEF IInv, TypeOK
  <2>3. QED
    BY <2>1, <2>2, Fields, Zenon
<1>4. report = None
  BY <1>2, Zenon DEF IInv, Underway
<1>5. kept.ids \in ids..MaxIds /\ kept.ids - ids \in Nat
  <2>1. kept.ids \in ids..(ids + Len(batch))
    BY <1>1, Zenon DEF Kept
  <2>2. QED
    BY <1>1, <1>3, <2>1
<1>6. /\ vault' = [connections |-> kept.connections, folders |-> vault.folders]
      /\ vault'.folders = vault.folders /\ vault'.connections = kept.connections
  <2>1. vault = [connections |-> vault.connections, folders |-> vault.folders]
    BY <1>3 DEF Contents
  <2>2. QED
    BY <1>1, <2>1
<1>7. ASSUME NEW uuid, Batch(job.doc, uuid, batch)
      PROVE  Added(vault', job.doc, uuid, kept.ids - ids)
  BY <1>1, <1>3, <1>6, <1>7, KeptIsAdded
<1>8. /\ job' \in Jobs /\ job'.doc = job.doc /\ job'.folders = job.folders
      /\ job'.added = kept.ids - ids /\ job'.connections = None /\ job'.found = job.found
  <2>1. job = [doc |-> job.doc, folders |-> job.folders, added |-> job.added,
               connections |-> job.connections, found |-> job.found]
    BY <1>3 DEF Jobs
  <2>2. QED
    BY <1>1, <1>3, <1>5, <2>1 DEF Jobs
<1>9. vault' \in Contents /\ vault' # None /\ job' # None
  <2>1. kept.connections \in Seq(Connection)
    BY <1>1 DEF Kepts
  <2>2. vault' \in Contents
    BY <1>3, <1>6, <2>1, Fields, Zenon
  <2>3. QED
    BY <1>8, <2>2, NoneIsNothing
<1>10. ids' \in 0..MaxIds /\ ids' \in Nat /\ ids <= ids'
  BY <1>1, <1>3, <1>5
<1>11. TypeOK'
  BY <1>2, <1>8, <1>9, <1>10 DEF IInv, TypeOK
<1>12. FolderIds'
  BY <1>1, <1>2, <1>6, <1>8, <1>9, <1>10, FoldersStay DEF IInv
<1>13. Underway'
  <2>1. CASE "reloaded" \in since
    BY <1>2, <1>4, <1>8, <2>1, Zenon DEF Underway
  <2>2. CASE "reloaded" \notin since
    <3>1. job.found <= Len(vault.folders) + Len(job.folders)
      BY <1>2, <2>2, Zenon DEF IInv, Underway
    <3>2. PICK uuid : /\ Tree(job.doc, uuid, Range(vault.folders) \cup Range(job.folders))
                      /\ Batch(job.doc, uuid, batch)
      BY <1>2, <2>2, Zenon DEF IInv, Underway
    <3>3. Added(vault', job.doc, uuid, kept.ids - ids)
      BY <1>7, <3>2
    <3>4. QED
      BY <1>2, <1>4, <1>6, <1>8, <1>9, <3>1, <3>2, <3>3, Zenon DEF Underway
  <2>3. QED
    BY <2>1, <2>2
<1>14. Stored' /\ Away'
  BY <1>2, <1>4, <1>9 DEF IInv, Stored, Away
<1>15. QED
  BY <1>11, <1>12, <1>13, <1>14 DEF IInv

(* A save ends the import: what it reports is on the disk, and the vault   *)
(* is what is on the disk.                                                 *)
LEMMA SaveStep ==
  ASSUME IInv, Save
  PROVE  IInv'
<1>1. /\ job # None /\ vault # None /\ job.folders = <<>> /\ job.connections = None
      /\ UNCHANGED <<vault, screen, ids, acts, since>>
  BY Zenon DEF Save
<1>2. /\ job.doc \in Documents /\ job.added \in Nat /\ job.found \in Nat
      /\ vault \in Contents /\ vault.folders \in Seq(Folder) /\ ids \in Nat
  <2>1. job \in Jobs /\ vault \in Contents /\ ids \in Nat
    BY <1>1 DEF IInv, TypeOK
  <2>2. QED
    BY <2>1, Fields, Zenon
<1>3. CASE UNCHANGED disk /\ Fail(job.doc)
  BY <1>1, <1>2, <1>3, FailStep
<1>4. CASE /\ disk' = vault
           /\ job' = None
           /\ report' = [ok |-> TRUE, doc |-> job.doc, shown |-> FALSE,
                         connections |-> job.added, folders |-> job.found]
  <2>1. /\ report' \in Reports /\ ~report'.shown /\ report'.doc = job.doc
        /\ report'.connections = job.added /\ report'.folders = job.found
    BY <1>2, <1>4 DEF Reports
  <2>2. TypeOK'
    BY <1>1, <1>2, <1>4, <2>1 DEF IInv, TypeOK
  <2>3. FolderIds'
    BY <1>1, <1>2, <1>4, FoldersStay DEF IInv
  <2>4. Underway'
    BY <1>4 DEF Underway
  <2>5. ASSUME "reloaded" \notin since
        PROVE  /\ job.found <= Len(vault.folders) + Len(job.folders)
               /\ \E uuid :
                      /\ Tree(job.doc, uuid, Range(vault.folders) \cup Range(job.folders))
                      /\ "edited" \notin since => Added(vault, job.doc, uuid, job.added)
    BY <1>1, <2>5, Zenon DEF IInv, Underway
  <2>6. Len(vault.folders) + Len(job.folders) = Len(vault.folders)
        /\ Range(vault.folders) \cup Range(job.folders) = Range(vault.folders)
    <3>1. Len(job.folders) = 0 /\ Range(job.folders) = {} /\ Len(vault.folders) \in Nat
      BY <1>1, <1>2 DEF Range
    <3>2. QED
      BY <3>1
  <2>7. "reloaded" \notin since => OnDisk'
    BY <1>1, <1>4, <2>1, <2>5, <2>6, Zenon DEF OnDisk
  <2>8. Stored'
    BY <1>1, <1>4, <2>1, <2>7, Zenon DEF Stored
  <2>9. Away'
    BY <1>1, <1>4 DEF IInv, Away
  <2>10. QED
    BY <2>2, <2>3, <2>4, <2>8, <2>9 DEF IInv
<1>5. QED
  BY <1>3, <1>4, Zenon DEF Save

(* The vault was locked in the meantime.                                   *)
LEMMA FindLockedStep ==
  ASSUME IInv, FindLocked
  PROVE  IInv'
<1>1. job # None /\ Fail(job.doc) /\ UNCHANGED <<vault, disk, screen, ids, acts, since>>
  BY Zenon DEF FindLocked
<1>2. job.doc \in Documents
  BY <1>1, Fields DEF IInv, TypeOK
<1>3. QED
  BY <1>1, <1>2, FailStep
(* HomeScreen gets what is on the disk, for the vault is that still.       *)
LEMMA OnImportedStep ==
  ASSUME IInv, OnImported
  PROVE  IInv'
<1>1. /\ report # None /\ report.ok /\ vault # None /\ screen' = Lists(vault)
      /\ report' = [report EXCEPT !.shown = TRUE] /\ "left" \notin since
      /\ UNCHANGED <<vault, disk, job, ids, acts, since>>
  BY Zenon DEF OnImported
<1>2. report \in Reports /\ disk \in Contents /\ ids \in Nat
  BY <1>1 DEF IInv, TypeOK
<1>3. /\ report' \in Reports /\ report' # None /\ report'.ok /\ report'.doc = report.doc
      /\ report'.connections = report.connections /\ report'.folders = report.folders
  <2>1. /\ report' \in Reports /\ report'.ok /\ report'.doc = report.doc
        /\ report'.connections = report.connections /\ report'.folders = report.folders
    BY <1>1, <1>2 DEF Reports
  <2>2. QED
    BY <2>1, NoneIsNothing
<1>4. vault = disk /\ job = None
  BY <1>1, Zenon DEF IInv, Underway, Stored
<1>5. screen' = disk
  BY <1>1, <1>2, <1>4, ListsAreKept
<1>6. TypeOK'
  BY <1>1, <1>2, <1>3, <1>5 DEF IInv, TypeOK
<1>7. FolderIds'
  BY <1>1, <1>2, FoldersStay DEF IInv
<1>8. Underway'
  BY <1>1, <1>4 DEF Underway
<1>9. Stored'
  <2>1. "reloaded" \notin since
    BY <1>1, Zenon DEF IInv, Away
  <2>2. OnDisk
    BY <1>1, <2>1, Zenon DEF IInv, Stored
  <2>3. OnDisk'
    BY <1>1, <1>3, <2>2, Zenon DEF OnDisk
  <2>4. QED
    BY <1>1, <1>3, <1>4, <1>5, <2>1, <2>3, Zenon DEF Stored
<1>10. Away'
  BY <1>1, <1>4, Zenon DEF IInv, Away
<1>11. QED
  BY <1>6, <1>7, <1>8, <1>9, <1>10 DEF IInv

(* An edit by hand leaves the folders as they are, and to an import that   *)
(* is under way the UUIDs it may still draw.                               *)
LEMMA EditStep ==
  ASSUME IInv, vault # None, NEW v \in Contents, v.folders = vault.folders, Edit(v),
         ids' \in ids..MaxIds,
         job # None /\ job.connections # None => ids' + Len(job.connections) <= MaxIds
  PROVE  IInv'
<1>1. /\ acts < MaxActs /\ acts' = acts + 1 /\ job' = job
      /\ vault' = v /\ disk' = v /\ screen' = Lists(v) /\ report' = None
      /\ since' = IF job # None /\ job.connections = None
                  THEN since \cup {"edited"} ELSE since
  BY Zenon DEF Edit, Act
<1>2. ids \in Nat /\ MaxIds \in Nat /\ MaxActs \in Nat /\ acts \in Nat
  <2>1. MaxIds \in Nat /\ MaxActs \in Nat
    BY ImportAssumption, Zenon
  <2>2. QED
    BY <2>1 DEF IInv, TypeOK
<1>3. ids' \in 0..MaxIds /\ ids' \in Nat /\ ids <= ids' /\ acts' \in 0..MaxActs
  BY <1>1, <1>2
<1>4. screen' = v
  BY <1>1, ListsAreKept
<1>5. /\ since' \subseteq {"left", "reloaded", "edited"}
      /\ "reloaded" \in since' <=> "reloaded" \in since
      /\ "left" \in since' <=> "left" \in since
      /\ job # None /\ job.connections = None => "edited" \in since'
  BY <1>1 DEF IInv, TypeOK
<1>6. TypeOK'
  BY <1>1, <1>3, <1>4, <1>5 DEF IInv, TypeOK
<1>7. FolderIds'
  BY <1>1, <1>2, <1>3, FoldersStay DEF IInv
<1>8. v # None
  BY NoneIsNothing
<1>9. Underway'
  <2>1. SUFFICES ASSUME job # None PROVE Underway'
    BY <1>1 DEF Underway
  <2>2. /\ job.connections # None => ids' + Len(job.connections) <= MaxIds
        /\ job.connections = None => job.folders = <<>>
    BY <2>1, Zenon DEF IInv, Underway
  <2>3. ASSUME "reloaded" \notin since
        PROVE  /\ job.found <= Len(v.folders) + Len(job.folders)
               /\ \E uuid : /\ Tree(job.doc, uuid, Range(v.folders) \cup Range(job.folders))
                            /\ job.connections # None => Batch(job.doc, uuid, job.connections)
    BY <2>1, <2>3, Zenon DEF IInv, Underway
  <2>4. QED
    BY <1>1, <1>5, <2>1, <2>2, <2>3, Zenon DEF Underway
<1>10. Stored' /\ Away'
  BY <1>1, <1>5, <1>8, Zenon DEF IInv, Stored, Away
<1>11. QED
  BY <1>6, <1>7, <1>9, <1>10 DEF IInv

(* What the vault is when other connections are in it.                     *)
LEMMA OtherConnections ==
  ASSUME NEW v \in Contents, NEW cs \in Seq(Connection)
  PROVE  /\ [v EXCEPT !.connections = cs] \in Contents
         /\ [v EXCEPT !.connections = cs].connections = cs
         /\ [v EXCEPT !.connections = cs].folders = v.folders
<1>1. v.folders \in Seq(Folder) /\ v = [connections |-> v.connections, folders |-> v.folders]
  BY DEF Contents
<1>2. [v EXCEPT !.connections = cs] = [connections |-> cs, folders |-> v.folders]
  BY <1>1
<1>3. [connections |-> cs, folders |-> v.folders] \in Contents
  BY <1>1, Fields, Zenon
<1>4. QED
  BY <1>2, <1>3

(* An edit by hand is one connection more, or less.                        *)
LEMMA AddConnectionStep ==
  ASSUME IInv, AddConnection
  PROVE  IInv'
<1>1. /\ vault \in Contents /\ vault.connections \in Seq(Connection) /\ vault # None
      /\ ids + Reserved < MaxIds /\ ids' = ids + 1
  <2>1. vault \in Contents /\ vault # None /\ ids + Reserved < MaxIds /\ ids' = ids + 1
    BY DEF AddConnection, IInv, TypeOK
  <2>2. QED
    BY <2>1, Fields, Zenon
<1>2. /\ ids \in Nat /\ MaxIds \in Nat /\ 0..MaxIds \subseteq Uuids /\ Forms \subseteq Connection
  <2>1. MaxIds \in Nat /\ 0..MaxIds \subseteq Uuids /\ Forms \subseteq Connection
    BY ImportAssumption, Zenon
  <2>2. QED
    BY <2>1 DEF IInv, TypeOK
<1>3. /\ ids' \in ids..MaxIds /\ ids' \in Uuids
      /\ job # None /\ job.connections # None => ids' + Len(job.connections) <= MaxIds
  <2>1. Reserved \in Nat
    <3>1. job # None /\ job.connections # None => job.connections \in Seq(Connection)
      BY Fields, Zenon DEF IInv, TypeOK
    <3>2. QED
      BY <3>1 DEF Reserved
  <2>2. ids' \in ids..MaxIds /\ ids' \in 0..MaxIds /\ ids' + Reserved <= MaxIds
    BY <1>1, <1>2, <2>1
  <2>3. QED
    BY <1>2, <2>2 DEF Reserved
<1>4. PICK f \in Forms : Edit([vault EXCEPT !.connections =
                                   Append(vault.connections, [f EXCEPT !.id = ids'])])
  BY Zenon DEF AddConnection
<1> DEFINE e == [f EXCEPT !.id = ids']
           cs == Append(vault.connections, e)
           v == [vault EXCEPT !.connections = cs]
<1>5. e \in Connection
  BY <1>2, <1>3, Renamed
<1>6. Edit(v)
  BY <1>4
<1> HIDE DEF e
<1>7. cs \in Seq(Connection)
  BY <1>1, <1>5
<1> HIDE DEF cs
<1>8. v \in Contents /\ v.folders = vault.folders
  BY <1>1, <1>7, OtherConnections
<1> HIDE DEF v
<1>9. QED
  BY <1>1, <1>3, <1>6, <1>8, EditStep

LEMMA DeleteConnectionStep ==
  ASSUME IInv, DeleteConnection
  PROVE  IInv'
<1>1. vault \in Contents /\ vault.connections \in Seq(Connection) /\ vault # None
  <2>1. vault \in Contents /\ vault # None
    BY DEF DeleteConnection, IInv, TypeOK
  <2>2. QED
    BY <2>1, Fields, Zenon
<1>2. PICK i \in DOMAIN vault.connections :
          /\ Edit([vault EXCEPT !.connections = RemoveAt(vault.connections, i)])
          /\ ids' = ids
  BY Zenon DEF DeleteConnection
<1> DEFINE s == vault.connections
           cs == RemoveAt(s, i)
           v == [vault EXCEPT !.connections = cs]
<1>3. cs \in Seq(Connection)
  <2>1. i \in 1..Len(s) /\ Len(s) \in Nat
    BY <1>1
  <2>2. i + 1 \in Nat \ {0} /\ i - 1 \in Nat
    BY <2>1
  <2>3. SubSeq(s, 1, i - 1) \in Seq(Connection) /\ SubSeq(s, i + 1, Len(s)) \in Seq(Connection)
    BY <1>1, <2>1, <2>2, SubSeqProperties
  <2>4. QED
    BY <2>3, ConcatProperties DEF RemoveAt
<1>4. Edit(v) /\ ids' = ids
  BY <1>2
<1> HIDE DEF cs
<1>5. v \in Contents /\ v.folders = vault.folders
  BY <1>1, <1>3, OtherConnections
<1> HIDE DEF v
<1>6. ids' \in ids..MaxIds
  <2>1. MaxIds \in Nat
    BY ImportAssumption, Zenon
  <2>2. QED
    BY <1>4, <2>1 DEF IInv, TypeOK
<1>7. job # None /\ job.connections # None => ids' + Len(job.connections) <= MaxIds
  BY <1>4, Zenon DEF IInv, Underway
<1>8. QED
  BY <1>1, <1>4, <1>5, <1>6, <1>7, EditStep

(* A lock takes the vault from memory, the file stays.                     *)
LEMMA LockStep ==
  ASSUME IInv, Lock
  PROVE  IInv'
<1>1. /\ acts < MaxActs /\ acts' = acts + 1 /\ vault' = None /\ screen' = EmptyVault
      /\ since' = since \cup {"left"} /\ UNCHANGED <<disk, job, report, ids>>
  BY Zenon DEF Lock, Act
<1>2. ids \in Nat /\ MaxActs \in Nat /\ acts \in Nat
  <2>1. MaxActs \in Nat
    BY ImportAssumption, Zenon
  <2>2. QED
    BY <2>1 DEF IInv, TypeOK
<1>3. acts' \in 0..MaxActs
  BY <1>1, <1>2
<1>4. TypeOK'
  BY <1>1, <1>3, NoneIsNothing DEF IInv, TypeOK
<1>5. FolderIds'
  BY <1>1, <1>2, FoldersStay DEF IInv
<1>6. Underway'
  BY <1>1, Zenon DEF IInv, Underway
<1>7. /\ "reloaded" \in since' <=> "reloaded" \in since
      /\ "edited" \in since' <=> "edited" \in since
      /\ "left" \in since'
  BY <1>1
<1>8. OnDisk => OnDisk'
  BY <1>1, <1>7, Zenon DEF OnDisk
<1>9. Stored'
  BY <1>1, <1>7, <1>8, Zenon DEF IInv, Stored
<1>10. QED
  BY <1>4, <1>5, <1>6, <1>7, <1>9 DEF IInv, Away

(* The vault is what is on the disk again, and so is the screen.           *)
LEMMA UnlockStep ==
  ASSUME IInv, Unlock
  PROVE  IInv'
<1>1. /\ vault = None /\ vault' = disk /\ screen' = Lists(disk)
      /\ since' = IF job # None THEN since \cup {"reloaded"} ELSE since
      /\ UNCHANGED <<disk, job, report, ids, acts>>
  BY Zenon DEF Unlock
<1>2. disk \in Contents /\ ids \in Nat
  BY DEF IInv, TypeOK
<1>3. screen' = disk
  BY <1>1, <1>2, ListsAreKept
<1>4. TypeOK'
  BY <1>1, <1>2, <1>3 DEF IInv, TypeOK
<1>5. FolderIds'
  BY <1>1, <1>2, FoldersStay DEF IInv
<1>6. job # None => "reloaded" \in since'
  BY <1>1
<1>7. Underway'
  BY <1>1, <1>6, Zenon DEF IInv, Underway
<1>8. Stored'
  <2>1. SUFFICES ASSUME report # None, report.ok PROVE Stored'
    BY <1>1 DEF Stored
  <2>2. job = None
    BY <2>1, Zenon DEF IInv, Underway
  <2>3. since' = since
    BY <1>1, <2>2
  <2>4. OnDisk => OnDisk'
    BY <1>1, <2>3, Zenon DEF OnDisk
  <2>5. QED
    BY <1>1, <1>3, <2>1, <2>3, <2>4, Zenon DEF IInv, Stored
<1>9. Away'
  BY <1>1, <1>2, NoneIsNothing DEF IInv, Away
<1>10. QED
  BY <1>4, <1>5, <1>7, <1>8, <1>9 DEF IInv

(* Only the file outlives the process.                                     *)
LEMMA RestartStep ==
  ASSUME IInv, Restart
  PROVE  IInv'
<1>1. /\ acts < MaxActs /\ acts' = acts + 1 /\ vault' = None /\ screen' = EmptyVault
      /\ job' = None /\ report' = None /\ since' = {} /\ UNCHANGED <<disk, ids>>
  BY Zenon DEF Restart, Act
<1>2. ids \in Nat /\ MaxActs \in Nat /\ acts \in Nat
  <2>1. MaxActs \in Nat
    BY ImportAssumption, Zenon
  <2>2. QED
    BY <2>1 DEF IInv, TypeOK
<1>3. acts' \in 0..MaxActs
  BY <1>1, <1>2
<1>4. TypeOK'
  BY <1>1, <1>3, NoneIsNothing DEF IInv, TypeOK
<1>5. FolderIds'
  BY <1>1, <1>2, FoldersStay DEF IInv
<1>6. QED
  BY <1>1, <1>4, <1>5 DEF IInv, Underway, Stored, Away

(* Every step keeps the invariant.                                         *)
LEMMA IInvNext == IInv /\ [Next]_vars => IInv'
<1> SUFFICES ASSUME IInv, [Next]_vars PROVE IInv'
  OBVIOUS
<1>1. CASE \E d \in Documents : Parse(d)
  BY <1>1, ParseStep
<1>2. CASE AddFolder
  BY <1>2, AddFolderStep
<1>3. CASE ImportConnections
  BY <1>3, ImportConnectionsStep
<1>4. CASE Save
  BY <1>4, SaveStep
<1>5. CASE FindLocked
  BY <1>5, FindLockedStep
<1>6. CASE OnImported
  BY <1>6, OnImportedStep
<1>7. CASE AddConnection
  BY <1>7, AddConnectionStep
<1>8. CASE DeleteConnection
  BY <1>8, DeleteConnectionStep
<1>9. CASE Lock
  BY <1>9, LockStep
<1>10. CASE Unlock
  BY <1>10, UnlockStep
<1>11. CASE Restart
  BY <1>11, RestartStep
<1>12. CASE UNCHANGED vars
  BY <1>12, Zenon DEF IInv, TypeOK, FolderIds, Numbered, Underway, Stored, OnDisk, Away, vars
<1>13. QED
  BY <1>1, <1>2, <1>3, <1>4, <1>5, <1>6, <1>7, <1>8, <1>9, <1>10, <1>11, <1>12, Zenon DEF Next

LEMMA IInvAlways == Spec => []IInv
BY InitIInv, IInvNext, PTL DEF Spec

-----------------------------------------------------------------------------
(* Every variable of the import holds a value of its kind, for any         *)
(* documents: parse_nodes (import.rs) leaves nothing in a connection or a  *)
(* folder that models.rs has no room for, and nothing that the bridge      *)
(* brings to HomeScreen is anything else.                                  *)
THEOREM ImportTypeCorrect == Spec => []TypeOK
<1>1. IInv => TypeOK
  BY DEF IInv
<1>2. QED
  BY <1>1, IInvAlways, PTL

(* What import_mremoteng_xml (app.rs) reports is on the disk: as many      *)
(* folders as it says, and, unless connections were deleted by hand just   *)
(* before its save, as many connections and one for every endpoint of the  *)
(* document, whatever imports failed before it, whatever was edited before *)
(* or beside it, and wherever a lock came in between; all but when an      *)
(* unlock put the old file back into memory while it went on.              *)
THEOREM ReportIsStored == Spec => []ReportedIsStored
<1>1. IInv => ReportedIsStored
  BY Zenon DEF IInv, Stored, OnDisk, Added, ReportedIsStored
<1>2. QED
  BY <1>1, IInvAlways, PTL

(* After the reload that follows an import (_import, home_screen.dart),    *)
(* HomeScreen has the tree of the document, however deep and whatever its  *)
(* folders are called: parse_nodes (import.rs), add_folder and             *)
(* import_connections (vault.rs) and the codec of the bridge leave every   *)
(* connection in the folder for its own and every attribute as it was,     *)
(* beside edits by hand too, but for what these make of it in the end.     *)
THEOREM ImportKeepsTree == Spec => []TreeKept
<1>1. ASSUME IInv, report # None, report.ok, report.shown, screen # EmptyVault
      PROVE  /\ \E uuid \in [Containers(report.doc) -> {f.id : f \in Range(screen.folders)}] :
                /\ Injective(uuid)
                /\ \A n \in Containers(report.doc) :
                       FolderFor(report.doc, uuid, n) \in Range(screen.folders)
                /\ "edited" \notin since =>
                       \A c \in Imported(screen) : \E n \in Leaves(report.doc) :
                           IsFor(c, report.doc, uuid, n)
             /\ "edited" \notin since => Endpoints(screen, report.doc)
             /\ UniqueIds(screen.folders)
  <2> DEFINE d == report.doc
             folders == Range(screen.folders)
             used == {f.id : f \in folders}
  <2>1. screen = disk
    BY <1>1, Zenon DEF IInv, Stored
  <2>2. PICK uuid : /\ Tree(d, uuid, folders)
                    /\ "edited" \notin since => Added(screen, d, uuid, report.connections)
    BY <1>1, <2>1, Zenon DEF IInv, Stored, OnDisk
  <2>3. /\ uuid \in [Containers(d) -> Uuids] /\ Injective(uuid)
        /\ \A n \in Containers(d) : FolderFor(d, uuid, n) \in folders
    BY <2>2, Zenon DEF Tree
  <2>4. \A n \in Containers(d) : FolderFor(d, uuid, n).id = uuid[n]
    BY DEF FolderFor
  <2> HIDE DEF folders, d
  <2>5. uuid \in [Containers(d) -> used]
    BY <2>3, <2>4
  <2>6. ASSUME "edited" \notin since
        PROVE  \A c \in Imported(screen) : \E n \in Leaves(d) : IsFor(c, d, uuid, n)
    BY <2>2, <2>6, Zenon DEF Added, Imported
  <2>7. UniqueIds(screen.folders)
    BY <1>1, <2>1, Zenon DEF IInv, FolderIds
  <2>8. "edited" \notin since => Endpoints(screen, d)
    BY <2>2, Zenon DEF Added
  <2>9. QED
    BY <2>3, <2>5, <2>6, <2>7, <2>8, Zenon DEF d, folders
<1>2. IInv => TreeKept
  BY <1>1, Zenon DEF TreeKept
<1>3. QED
  BY <1>2, IInvAlways, PTL

(* "Duplicates (same name+host+port) are skipped" (app.rs): for any        *)
(* document and vault, no step of an import adds a connection whose like   *)
(* is there: not one of the document that comes twice in it, nor one that  *)
(* an import left behind which failed at its save, nor one of the user's.  *)
THEOREM ImportAddsOnce == Spec => NoneTwice
<1> DEFINE Once == job # None /\ acts' = acts /\ vault # None /\ vault' # None =>
               \A i \in (Len(vault.connections) + 1)..Len(vault'.connections),
                  j \in DOMAIN vault'.connections :
                      SameEndpoint(vault'.connections[i], vault'.connections[j]) => i = j
<1>1. IInv /\ [Next]_vars => [Once]_vars
  <2> SUFFICES ASSUME IInv, Next, job # None, acts' = acts, vault # None, vault' # None
               PROVE  \A i \in (Len(vault.connections) + 1)..Len(vault'.connections),
                         j \in DOMAIN vault'.connections :
                             SameEndpoint(vault'.connections[i], vault'.connections[j]) => i = j
    OBVIOUS
  <2>1. vault \in Contents /\ vault.connections \in Seq(Connection)
    <3>1. vault \in Contents
      BY DEF IInv, TypeOK
    <3>2. QED
      BY <3>1, Fields, Zenon
  <2>2. CASE ImportConnections
    <3> DEFINE kept == KeepFirsts(job.connections)
               cs == kept.connections
    <3>1. /\ kept \in Kepts
          /\ Kept(vault.connections, job.connections, kept, Len(job.connections))
          /\ vault' = [vault EXCEPT !.connections = cs]
      BY <2>2, ImportKeeps
    <3> HIDE DEF kept
    <3>2. cs \in Seq(Connection)
      BY <3>1 DEF Kepts
    <3>3. vault'.connections = cs /\ DOMAIN cs = 1..Len(cs)
      BY <2>1, <3>1, <3>2, OtherConnections
    <3>4. Likes(cs, Len(vault.connections) + 1)
      BY <3>1, Zenon DEF Kept
    <3>5. QED
      BY <3>3, <3>4, Zenon DEF Likes
  <2>3. CASE vault'.connections = vault.connections
    <3>1. (Len(vault.connections) + 1)..Len(vault.connections) = {}
      BY <2>1
    <3>2. QED
      BY <2>3, <3>1, Zenon
  <2>4. CASE AddFolder
    <3>1. vault'.connections = vault.connections
      BY <2>1, <2>4 DEF AddFolder, Contents
    <3>2. QED
      BY <2>3, <3>1, Zenon
  <2>5. CASE Save \/ OnImported
    BY <2>3, <2>5, Zenon DEF Save, OnImported
  <2>6. ~FindLocked /\ ~Unlock /\ ~Lock /\ ~Restart
    BY Zenon DEF FindLocked, Unlock, Lock, Restart
  <2>7. (\A d \in Documents : ~Parse(d)) /\ ~AddConnection /\ ~DeleteConnection
    <3>1. acts' # acts + 1
      BY DEF IInv, TypeOK
    <3>2. QED
      BY <3>1, Zenon DEF Parse, AddConnection, DeleteConnection, Edit, Act
  <2>8. QED
    BY <2>2, <2>4, <2>5, <2>6, <2>7, Zenon DEF Next
<1>2. QED
  BY <1>1, IInvAlways, PTL DEF Spec, NoneTwice
=============================================================================
