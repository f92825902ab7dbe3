------------------------- MODULE TerminalTabsProofs -------------------------
(***************************************************************************)
(* Theorems about TerminalTabs for any number of tabs and attempts.        *)
(***************************************************************************)
EXTENDS TerminalTabs, SequenceTheorems, TLAPS

(* A view has a session from the moment it is opened.                      *)
Handed(v) == \/ session[v] = None /\ v > opened
             \/ session[v] \in Sessions /\ v <= opened /\ session[v] <= opened

(* Tabs and views are matched by position, in the order in which they were *)
(* opened, and a view is never handed a session older than its own.        *)
Matched ==
    /\ \A j \in 1..Len(tabs) : /\ session[views[j]] = tabs[j]
                               /\ views[j] <= tabs[j] /\ tabs[j] <= opened
    /\ \A j, k \in 1..Len(tabs) : j < k => tabs[j] < tabs[k] /\ views[j] < views[k]
    /\ \A v \in Views : Handed(v)

(* An attempt runs in a view that was opened, for a session; a connection  *)
(* is stored in one session at most, from its success on.                  *)
Attached ==
    /\ \A c \in Conns : phase[c] # "unused" => view[c] # None /\ view[c] <= opened
    /\ \A s \in Sessions : /\ typist[s] # None => typist[s] <= opened
                           /\ conn[s] # None => /\ s <= opened
                                                /\ phase[conn[s]] \in {"open", "ended", "closed"}
    /\ \A s, t \in Sessions : conn[s] # None /\ conn[s] = conn[t] => s = t

(* While no view was handed another session, everything is a tab's own.    *)
Attributed ==
    /\ \A c \in Conns : phase[c] # "unused" => owner[c] = view[c]
    /\ \A s \in Sessions : /\ typist[s] \in {s, None}
                           /\ conn[s] # None => owner[conn[s]] = s
Own == InPlace => Attributed

TabsInv == TypeOK /\ Matched /\ Attached /\ Own /\ OthersStayConnected

USE TabsAssumption DEF Sessions, Views, Conns

-----------------------------------------------------------------------------
(* What removing an element does to a sequence. *)
LEMMA RemoveAtElements ==
  ASSUME NEW S, NEW s \in Seq(S), NEW i \in 1..Len(s)
  PROVE  /\ RemoveAt(s, i) \in Seq(S) /\ Len(RemoveAt(s, i)) = Len(s) - 1
         /\ \A j \in 1..(i - 1) : RemoveAt(s, i)[j] = s[j]
         /\ \A j \in i..(Len(s) - 1) : RemoveAt(s, i)[j] = s[j + 1]
<1> DEFINE a == SubSeq(s, 1, i - 1)  b == SubSeq(s, i + 1, Len(s))  n == Len(s)
<1>0. n \in Nat /\ i \in 1..n /\ \A j \in 1..n : s[j] \in S
  BY LenProperties, ElementOfSeq
<1>1. a \in Seq(S) /\ Len(a) = i - 1 /\ \A j \in 1..(i - 1) : a[j] = s[j]
  BY <1>0, SubSeqProperties
<1>2. b \in Seq(S) /\ Len(b) = n - i /\ \A j \in 1..(n - i) : b[j] = s[i + j]
  BY <1>0, SubSeqProperties
<1> HIDE DEF a, b, n
<1>3. /\ a \o b \in Seq(S) /\ Len(a \o b) = n - 1
      /\ \A j \in 1..(n - 1) : (a \o b)[j] = IF j <= i - 1 THEN a[j] ELSE b[j - (i - 1)]
  <2>1. Len(a) + Len(b) = n - 1
    BY <1>0, <1>1, <1>2
  <2>2. QED
    BY <1>1, <1>2, <2>1, ConcatProperties
<1>4. \A j \in 1..(i - 1) : (a \o b)[j] = s[j]
  BY <1>0, <1>1, <1>3
<1>5. ASSUME NEW j \in i..(n - 1)
      PROVE  (a \o b)[j] = s[j + 1]
  <2>1. j - (i - 1) \in 1..(n - i) /\ i + (j - (i - 1)) = j + 1 /\ j \in 1..(n - 1) /\ ~(j <= i - 1)
    BY <1>0
  <2>2. QED
    BY <1>2, <1>3, <2>1
<1>6. QED
  BY <1>3, <1>4, <1>5 DEF RemoveAt, a, b, n

LEMMA FrontElements ==
  ASSUME NEW S, NEW s \in Seq(S), Len(s) > 0
  PROVE  /\ Front(s) \in Seq(S) /\ Len(Front(s)) = Len(s) - 1
         /\ \A j \in 1..(Len(s) - 1) : Front(s)[j] = s[j]
<1> DEFINE n == Len(s) - 1
<1>1. n \in Nat /\ \A j \in 1..n : s[j] \in S
  BY LenProperties, ElementOfSeq
<1> HIDE DEF n
<1>2. SubSeq(s, 1, n) \in Seq(S) /\ Len(SubSeq(s, 1, n)) = n
  BY <1>1, SubSeqProperties
<1>3. \A j \in 1..n : SubSeq(s, 1, n)[j] = s[j]
  <2>1. \A j \in 1..(n - 1 + 1) : SubSeq(s, 1, n)[j] = s[1 + j - 1]
    BY <1>1, SubSeqProperties
  <2>2. QED
    BY <1>1, <2>1
<1>4. QED
  BY <1>2, <1>3 DEF Front, n

(* The initial state satisfies TabsInv. *)
LEMMA InitTabs == Init => TabsInv
<1> SUFFICES ASSUME Init PROVE TabsInv
  OBVIOUS
<1>1. TypeOK
  BY DEF Init, TypeOK, Phases, Attempting
<1>2. Matched /\ Attached /\ Own /\ OthersStayConnected
  BY DEF Init, Matched, Handed, Attached, Own, Attributed, OthersStayConnected
<1>3. QED
  BY <1>1, <1>2 DEF TabsInv

-----------------------------------------------------------------------------
(* Closing a tab. *)
LEMMA CloseMatched ==
  ASSUME TabsInv, NEW i \in Sessions, CloseSession(i)
  PROVE  /\ tabs' \in Seq(Sessions) /\ views' \in Seq(Views) /\ Len(views') = Len(tabs')
         /\ session' \in [Views -> Sessions \cup {None}]
         /\ Matched' /\ (InPlace' => InPlace)
         /\ \A s \in Sessions : IsOpen(s)' => IsOpen(s) /\ s # tabs[i]
<1> DEFINE n == Len(tabs)
<1>1. /\ n \in Nat /\ i \in 1..n /\ Len(views) = n
      /\ tabs \in Seq(Sessions) /\ views \in Seq(Views)
      /\ (\A j \in 1..n : tabs[j] \in Sessions /\ views[j] \in Views)
      /\ session \in [Views -> Sessions \cup {None}] /\ opened \in Nat
  <2>1. /\ tabs \in Seq(Sessions) /\ views \in Seq(Views) /\ Len(views) = Len(tabs)
        /\ session \in [Views -> Sessions \cup {None}] /\ opened \in 0..MaxTabs
    BY DEF TabsInv, TypeOK
  <2>2. n \in Nat /\ DOMAIN tabs = 1..n
    BY <2>1, LenProperties
  <2>3. i \in 1..n
    BY <2>2, Zenon DEF CloseSession, MayCloseTab
  <2>4. \A j \in 1..n : tabs[j] \in Sessions /\ views[j] \in Views
    BY <2>1, ElementOfSeq
  <2>5. opened \in Nat
    BY <2>1, TabsAssumption
  <2>6. QED
    BY <2>1, <2>2, <2>3, <2>4, <2>5, Zenon
<1>2. tabs' = RemoveAt(tabs, i) /\ views' = Front(views) /\ session' = Rematch /\ opened' = opened
  BY DEF CloseSession
<1>3. /\ \A j \in 1..n : session[views[j]] = tabs[j] /\ views[j] <= tabs[j] /\ tabs[j] <= opened
      /\ \A j, k \in 1..n : j < k => tabs[j] < tabs[k] /\ views[j] < views[k]
      /\ \A v \in Views : Handed(v)
  BY DEF TabsInv, Matched
<1>4. /\ tabs' \in Seq(Sessions) /\ Len(tabs') = n - 1
      /\ \A j \in 1..(i - 1) : tabs'[j] = tabs[j]
      /\ \A j \in i..(n - 1) : tabs'[j] = tabs[j + 1]
  BY <1>1, <1>2, RemoveAtElements
<1>5. /\ views' \in Seq(Views) /\ Len(views') = n - 1
      /\ \A j \in 1..(n - 1) : views'[j] = views[j]
  <2>1. Len(views) > 0
    BY <1>1
  <2>2. /\ Front(views) \in Seq(Views) /\ Len(Front(views)) = Len(views) - 1
        /\ \A j \in 1..(Len(views) - 1) : Front(views)[j] = views[j]
    BY <1>1, <2>1, FrontElements
  <2>3. QED
    BY <1>1, <1>2, <2>2
<1> HIDE DEF n
<1>6. ASSUME NEW j \in 1..(n - 1)
      PROVE  /\ j \in 1..n /\ tabs'[j] \in Sessions /\ tabs[j] <= tabs'[j] /\ tabs'[j] <= opened
             /\ j < i => tabs'[j] = tabs[j]
             /\ j >= i => tabs[j] < tabs'[j] /\ tabs'[j] = tabs[j + 1]
  <2>1. j \in 1..n /\ j + 1 \in 1..n /\ j < j + 1
    BY <1>1
  <2>2. CASE j < i
    <3>1. j \in 1..(i - 1)
      BY <1>1, <2>2
    <3>2. QED
      BY <1>1, <1>3, <1>4, <2>1, <2>2, <3>1, SMTT(30)
  <2>3. CASE ~(j < i)
    <3>1. j \in i..(n - 1)
      BY <1>1, <2>3
    <3>2. tabs'[j] = tabs[j + 1] /\ tabs[j] < tabs[j + 1] /\ tabs[j + 1] <= opened
      BY <1>3, <1>4, <2>1, <3>1
    <3>3. tabs[j] \in Nat /\ tabs[j + 1] \in Sessions /\ tabs[j + 1] \in Nat
      BY <1>1, <2>1
    <3>4. QED
      BY <2>1, <2>3, <3>2, <3>3
  <2>4. QED
    BY <2>2, <2>3
<1>7. ASSUME NEW j \in 1..(n - 1)
      PROVE  session'[views[j]] = tabs'[j]
  <2>1. j \in 1..n /\ views[j] \in Views /\ Contains(views', views[j]) /\ DOMAIN views' = 1..(n - 1)
    BY <1>1, <1>5 DEF Contains
  <2>2. \A k \in 1..(n - 1) : views'[k] = views[j] => k = j
    <3>1. ASSUME NEW k \in 1..n, views[k] = views[j]
          PROVE  k = j
      <4>1. ~(k < j) /\ ~(j < k)
        BY <1>1, <1>3, <2>1, <3>1
      <4>2. QED
        BY <1>1, <2>1, <4>1
    <3>2. QED
      BY <1>1, <1>5, <3>1
  <2>3. (CHOOSE k \in DOMAIN views' : views'[k] = views[j]) = j
    BY <1>5, <2>1, <2>2
  <2>4. QED
    BY <1>2, <2>1, <2>3 DEF Rematch
<1>8. \A v \in Views : session'[v] = session[v] \/ \E j \in 1..(n - 1) : v = views[j]
  BY <1>2, <1>5 DEF Rematch, Contains
<1>9. session' \in [Views -> Sessions \cup {None}]
  <2>1. session' = [v \in Views |-> session'[v]]
    BY <1>2 DEF Rematch
  <2>2. \A v \in Views : session'[v] \in Sessions \cup {None}
    <3>1. SUFFICES ASSUME NEW v \in Views
                   PROVE  session'[v] \in Sessions \cup {None}
      OBVIOUS
    <3>2. CASE session'[v] = session[v]
      BY <1>1, <3>2
    <3>3. ASSUME NEW j \in 1..(n - 1), v = views[j]
          PROVE  session'[v] \in Sessions
      BY <1>6, <1>7, <3>3
    <3>4. QED
      BY <1>8, <3>2, <3>3
  <2>3. QED
    BY <2>1, <2>2
<1>10. Matched'
  <2>1. \A j \in 1..(n - 1) : /\ session'[views'[j]] = tabs'[j]
                              /\ views'[j] <= tabs'[j] /\ tabs'[j] <= opened'
    <3>1. SUFFICES ASSUME NEW j \in 1..(n - 1)
                   PROVE  /\ session'[views'[j]] = tabs'[j]
                          /\ views'[j] <= tabs'[j] /\ tabs'[j] <= opened'
      OBVIOUS
    <3>2. j \in 1..n /\ views'[j] = views[j] /\ session'[views[j]] = tabs'[j]
          /\ tabs[j] <= tabs'[j] /\ tabs'[j] <= opened /\ tabs'[j] \in Sessions
      BY <1>5, <1>6, <1>7
    <3>3. QED
      BY <1>1, <1>2, <1>3, <3>2
  <2>2. ASSUME NEW j \in 1..(n - 1), NEW k \in 1..(n - 1), j < k
        PROVE  tabs'[j] < tabs'[k] /\ views'[j] < views'[k]
    <3>1. j \in 1..n /\ k \in 1..n /\ k + 1 \in 1..n /\ j + 1 \in 1..n
      BY <1>1
    <3>2. views'[j] < views'[k]
      BY <1>3, <1>5, <2>2, <3>1
    <3>3. tabs'[j] < tabs'[k]
      <4>1. CASE k < i
        BY <1>1, <1>3, <1>6, <2>2, <3>1, <4>1
      <4>2. CASE j < i /\ ~(k < i)
        BY <1>1, <1>3, <1>6, <2>2, <3>1, <4>2
      <4>3. CASE ~(j < i)
        <5>1. ~(k < i) /\ tabs'[j] = tabs[j + 1] /\ tabs'[k] = tabs[k + 1] /\ j + 1 < k + 1
          BY <1>1, <1>6, <2>2, <4>3
        <5>2. QED
          BY <1>3, <3>1, <5>1
      <4>4. QED
        BY <1>1, <2>2, <4>1, <4>2, <4>3
    <3>4. QED
      BY <3>2, <3>3
  <2>3. ASSUME NEW v \in Views
        PROVE  Handed(v)'
    <3>1. CASE session'[v] = session[v]
      BY <1>2, <1>3, <3>1 DEF Handed
    <3>2. ASSUME NEW j \in 1..(n - 1), v = views[j]
          PROVE  Handed(v)'
      <4>1. session'[v] = tabs'[j] /\ tabs'[j] \in Sessions /\ tabs'[j] <= opened /\ j \in 1..n
            /\ tabs[j] <= tabs'[j] /\ v <= tabs[j] /\ tabs[j] \in Sessions
        BY <1>1, <1>3, <1>6, <1>7, <3>2
      <4>2. QED
        BY <1>1, <1>2, <4>1 DEF Handed
    <3>3. QED
      BY <1>8, <3>1, <3>2
  <2>4. QED
    BY <1>4, <2>1, <2>2, <2>3 DEF Matched
<1>11. InPlace' => InPlace
  <2>1. SUFFICES ASSUME InPlace', NEW v \in Views, NEW j \in 1..(n - 1), v = views[j]
                 PROVE  session[v] = v
    BY <1>8 DEF InPlace
  <2>2. /\ tabs'[j] \in {v, None} /\ tabs'[j] \in Sessions /\ session[v] = tabs[j]
        /\ v <= tabs[j] /\ tabs[j] <= tabs'[j] /\ tabs[j] \in Sessions
    BY <1>1, <1>3, <1>6, <1>7, <2>1 DEF InPlace
  <2>3. QED
    BY <1>1, <2>2, SMTT(30)
<1>12. \A s \in Sessions : IsOpen(s)' => IsOpen(s) /\ s # tabs[i]
  <2>1. SUFFICES ASSUME NEW j \in 1..(n - 1)
                 PROVE  (\E k \in 1..n : tabs[k] = tabs'[j]) /\ tabs'[j] # tabs[i]
    BY <1>4 DEF IsOpen, Contains, n
  <2>2. CASE j < i
    BY <1>1, <1>3, <1>6, <2>2
  <2>3. CASE ~(j < i)
    <3>1. j + 1 \in 1..n /\ i < j + 1
      BY <1>1, <2>3
    <3>2. tabs'[j] = tabs[j + 1] /\ tabs[i] < tabs[j + 1]
      BY <1>1, <1>3, <1>6, <2>3, <3>1
    <3>3. QED
      BY <1>1, <3>1, <3>2
  <2>4. QED
    BY <2>2, <2>3
<1>13. QED
  BY <1>4, <1>5, <1>9, <1>10, <1>11, <1>12

-----------------------------------------------------------------------------
(* What the tabs, their views and sessions do in any step: the types and   *)
(* the matching are kept, views do not come back in place, and a tab is    *)
(* new or was open before.                                                 *)
TabTypes ==
    /\ tabs \in Seq(Sessions) /\ views \in Seq(Views) /\ Len(views) = Len(tabs)
    /\ opened \in 0..MaxTabs
    /\ session \in [Views -> Sessions \cup {None}]

TabsMove ==
    /\ TabTypes' /\ Matched' /\ (InPlace' => InPlace) /\ opened <= opened'
    /\ \A s \in Sessions : IsOpen(s)' => IsOpen(s) \/ conn[s] = None

LEMMA TabsStay ==
  ASSUME TabsInv, UNCHANGED tabVars
  PROVE  TabsMove
<1>1. TabTypes' /\ Matched'
  BY DEF TabsInv, TypeOK, TabTypes, Matched, Handed, tabVars
<1>2. InPlace' => InPlace
  BY DEF InPlace, tabVars
<1>3. opened <= opened'
  BY DEF TabsInv, TypeOK, tabVars
<1>4. \A s \in Sessions : IsOpen(s)' => IsOpen(s)
  BY DEF IsOpen, tabVars
<1>5. QED
  BY <1>1, <1>2, <1>3, <1>4 DEF TabsMove

LEMMA AddMoves ==
  ASSUME TabsInv, AddSession
  PROVE  TabsMove /\ opened' \in Sessions /\ (InPlace' => InPlace)
<1> DEFINE n == Len(tabs)  m == opened + 1
<1>1. /\ n \in Nat /\ Len(views) = n /\ opened \in 0..MaxTabs /\ m \in 1..MaxTabs
      /\ tabs \in Seq(Sessions) /\ views \in Seq(Views)
      /\ (\A j \in 1..n : tabs[j] \in Sessions /\ views[j] \in Views)
      /\ session \in [Views -> Sessions \cup {None}]
  BY LenProperties, ElementOfSeq, SMTT(30) DEF AddSession, TabsInv, TypeOK
<1>2. opened' = m /\ tabs' = Append(tabs, m) /\ views' = Append(views, m)
      /\ session' = [session EXCEPT ![m] = m]
  BY DEF AddSession
<1>3. /\ \A j \in 1..n : session[views[j]] = tabs[j] /\ views[j] <= tabs[j] /\ tabs[j] <= opened
      /\ \A j, k \in 1..n : j < k => tabs[j] < tabs[k] /\ views[j] < views[k]
      /\ \A v \in Views : Handed(v)
  BY DEF TabsInv, Matched
<1>4. /\ tabs' \in Seq(Sessions) /\ Len(tabs') = n + 1 /\ tabs'[n + 1] = m
      /\ \A j \in 1..n : tabs'[j] = tabs[j]
  BY <1>1, <1>2, AppendProperties
<1>5. /\ views' \in Seq(Views) /\ Len(views') = n + 1 /\ views'[n + 1] = m
      /\ \A j \in 1..n : views'[j] = views[j]
  BY <1>1, <1>2, AppendProperties
<1> HIDE DEF n
<1>6. TabTypes'
  BY <1>1, <1>2, <1>4, <1>5 DEF TabTypes
<1>7. Matched'
  <2>1. ASSUME NEW j \in 1..(n + 1)
        PROVE  session'[views'[j]] = tabs'[j] /\ views'[j] <= tabs'[j] /\ tabs'[j] <= opened'
    <3>1. CASE j = n + 1
      BY <1>1, <1>2, <1>4, <1>5, <3>1
    <3>2. CASE j \in 1..n
      <4>1. views'[j] = views[j] /\ tabs'[j] = tabs[j] /\ views[j] # m
        BY <1>1, <1>3, <1>4, <1>5, <3>2, SMTT(30)
      <4>2. QED
        <5>1. session'[views[j]] = session[views[j]] /\ tabs[j] <= opened'
          BY <1>1, <1>2, <1>3, <3>2, <4>1, SMTT(30)
        <5>2. QED
          BY <1>3, <3>2, <4>1, <5>1
    <3>3. QED
      BY <1>1, <3>1, <3>2
  <2>2. ASSUME NEW j \in 1..(n + 1), NEW k \in 1..(n + 1), j < k
        PROVE  tabs'[j] < tabs'[k] /\ views'[j] < views'[k]
    <3>1. CASE k = n + 1
      <4>1. j \in 1..n /\ tabs'[j] = tabs[j] /\ views'[j] = views[j] /\ tabs'[k] = m /\ views'[k] = m
        BY <1>1, <1>4, <1>5, <2>2, <3>1
      <4>2. QED
        BY <1>1, <1>3, <4>1
    <3>2. CASE k \in 1..n
      <4>1. j \in 1..n /\ tabs'[j] = tabs[j] /\ views'[j] = views[j]
            /\ tabs'[k] = tabs[k] /\ views'[k] = views[k]
        <5>1. j \in 1..n
          BY <1>1, <2>2, <3>2
        <5>2. QED
          BY <1>4, <1>5, <3>2, <5>1
      <4>2. QED
        BY <1>3, <2>2, <3>2, <4>1
    <3>3. QED
      BY <1>1, <3>1, <3>2
  <2>3. ASSUME NEW v \in Views
        PROVE  Handed(v)'
    <3>1. CASE v = m
      BY <1>1, <1>2, <3>1 DEF Handed
    <3>2. CASE v # m
      <4>1. session'[v] = session[v]
        BY <1>1, <1>2, <3>2
      <4>2. QED
        BY <1>1, <1>2, <1>3, <3>2, <4>1 DEF Handed
    <3>3. QED
      BY <3>1, <3>2
  <2>4. QED
    BY <1>4, <2>1, <2>2, <2>3 DEF Matched
<1>8. InPlace' => InPlace
  <2>1. session[m] = None /\ \A v \in Views : v # m => session'[v] = session[v]
    BY <1>1, <1>2, <1>3 DEF Handed
  <2>2. QED
    BY <2>1 DEF InPlace
<1>9. \A s \in Sessions : IsOpen(s)' => IsOpen(s) \/ conn[s] = None
  <2>1. conn[m] = None
    BY <1>1 DEF TabsInv, Attached
  <2>2. ASSUME NEW s \in Sessions, NEW j \in 1..(n + 1), tabs'[j] = s
        PROVE  s = m \/ \E k \in 1..n : tabs[k] = s
    <3>1. CASE j = n + 1
      BY <1>4, <2>2, <3>1
    <3>2. CASE j \in 1..n
      BY <1>4, <2>2, <3>2
    <3>3. QED
      BY <1>1, <3>1, <3>2
  <2>3. QED
    BY <1>4, <2>1, <2>2 DEF IsOpen, Contains, n
<1>10. QED
  BY <1>1, <1>2, <1>6, <1>7, <1>8, <1>9 DEF TabsMove

-----------------------------------------------------------------------------
(* What an attempt does, in a view that has its session. *)
LEMMA AttemptKeeps ==
  ASSUME TabsInv, TabsMove, NEW v \in Views, NEW s \in Sessions, Attempt(v, s),
         v <= opened', InPlace' => v = s
  PROVE  TabsInv'
<1>1. PICK c \in Conns :
         /\ phase[c] = "unused"
         /\ phase' = [phase EXCEPT ![c] = IF s \in Keyed THEN "probe" ELSE "connect"]
         /\ owner' = [owner EXCEPT ![c] = s] /\ view' = [view EXCEPT ![c] = v]
         /\ connecting' = [connecting EXCEPT ![s] = TRUE] /\ error' = [error EXCEPT ![s] = FALSE]
         /\ UNCHANGED <<conn, typist>>
  BY DEF Attempt
<1>2. TypeOK /\ Attached /\ Own /\ OthersStayConnected /\ opened <= opened'
      /\ opened \in Nat /\ opened' \in Nat
  BY DEF TabsInv, TabsMove, TabTypes, TypeOK
<1>3. phase' \in [Conns -> Phases]
      /\ phase'[c] \in {"probe", "connect"} /\ \A d \in Conns : d # c => phase'[d] = phase[d]
  BY <1>1, <1>2 DEF TypeOK, Phases, Attempting
<1>4. TypeOK'
  <2>1. TabTypes' /\ {connecting', error'} \subseteq [Sessions -> BOOLEAN]
        /\ owner' \in [Conns -> Sessions \cup {None}] /\ view' \in [Conns -> Views \cup {None}]
    BY <1>1, <1>2 DEF TypeOK, TabsMove
  <2>2. QED
    <3>1. conn' \in [Sessions -> Conns \cup {None}] /\ typist' \in [Sessions -> Views \cup {None}]
      BY <1>1, <1>2 DEF TypeOK
    <3>2. QED
      BY <1>3, <2>1, <3>1 DEF TypeOK, TabTypes
<1>5. \A t \in Sessions : conn[t] # None => conn[t] \in Conns /\ conn[t] # c
  BY <1>1, <1>2 DEF TypeOK, Attached
<1>6. Attached'
  <2>1. ASSUME NEW d \in Conns, phase'[d] # "unused"
        PROVE  view'[d] # None /\ view'[d] <= opened'
    <3>1. CASE d = c
      BY <1>1, <1>2, <3>1 DEF TypeOK
    <3>2. CASE d # c
      <4>1. view'[d] = view[d] /\ view[d] # None /\ view[d] <= opened /\ view[d] \in Views
        BY <1>1, <1>2, <1>3, <2>1, <3>2 DEF TypeOK, Attached
      <4>2. QED
        BY <1>2, <4>1
    <3>3. QED
      BY <3>1, <3>2
  <2>2. ASSUME NEW t \in Sessions
        PROVE  /\ typist'[t] # None => typist'[t] <= opened'
               /\ conn'[t] # None => t <= opened' /\ phase'[conn'[t]] \in {"open", "ended", "closed"}
    <3>1. typist[t] # None => typist[t] <= opened'
      BY <1>2 DEF TypeOK, Attached
    <3>2. conn[t] # None => t <= opened' /\ phase'[conn[t]] \in {"open", "ended", "closed"}
      BY <1>2, <1>3, <1>5 DEF Attached
    <3>3. QED
      BY <1>1, <3>1, <3>2
  <2>3. QED
    BY <1>1, <1>2, <2>1, <2>2 DEF Attached
<1>7. Own'
  <2>1. SUFFICES ASSUME InPlace'
                 PROVE  Attributed'
    BY DEF Own
  <2>2. InPlace /\ Attributed /\ v = s
    BY <1>2, <2>1 DEF TabsMove, Own
  <2>3. \A d \in Conns : phase'[d] # "unused" => owner'[d] = view'[d]
    BY <1>1, <1>2, <1>3, <2>2 DEF TypeOK, Attributed
  <2>4. \A t \in Sessions : conn[t] # None => owner'[conn[t]] = t
    BY <1>1, <1>2, <1>5, <2>2 DEF TypeOK, Attributed
  <2>5. QED
    BY <1>1, <1>2, <2>2, <2>3, <2>4 DEF Attributed
<1>8. OthersStayConnected'
  BY <1>1, <1>2, <1>3, <1>5 DEF OthersStayConnected, TabsMove
<1>9. QED
  BY <1>4, <1>6, <1>7, <1>8 DEF TabsInv, TabsMove

(* What a step of an attempt does that stores nothing. *)
LEMMA BecomeKeeps ==
  ASSUME TabsInv, UNCHANGED <<tabVars, conn, typist, owner, view>>,
         {connecting', error'} \subseteq [Sessions -> BOOLEAN],
         NEW c \in Conns, NEW p, Become(c, p), phase[c] # "unused",
         p \in Phases \ {"unused", "closed"},
         phase[c] \in {"open", "ended", "closed"} => p \in {"open", "ended"}
  PROVE  TabsInv'
<1>1. TypeOK /\ Attached /\ Own /\ OthersStayConnected /\ TabsMove
  BY TabsStay DEF TabsInv
<1>2. phase' \in [Conns -> Phases] /\ phase'[c] = p /\ \A d \in Conns : d # c => phase'[d] = phase[d]
  BY <1>1 DEF TypeOK, Become
<1>3. TypeOK'
  BY <1>1, <1>2 DEF TypeOK, tabVars
<1>4. \A t \in Sessions : conn[t] # None => conn[t] \in Conns
  BY <1>1 DEF TypeOK
<1>5. Attached'
  BY <1>1, <1>2, <1>4 DEF Attached, tabVars
<1>6. Own'
  BY <1>1, <1>2, <1>4 DEF Own, Attributed, TabsMove
<1>7. OthersStayConnected'
  BY <1>1, <1>2, <1>4 DEF OthersStayConnected, IsOpen, tabVars
<1>8. QED
  BY <1>1, <1>3, <1>5, <1>6, <1>7 DEF TabsInv, TabsMove

(* Disposing of sessions that are no longer open closes what was stored in *)
(* them, and nothing that is stored in one still open.                     *)
LEMMA DisposeKeeps ==
  ASSUME TabsInv, TabsMove, NEW S \in SUBSET Sessions, Dispose(S), UNCHANGED <<fieldVars, owner, view>>,
         \A s \in Sessions : IsOpen(s)' => IsOpen(s) /\ s \notin S
  PROVE  TabsInv'
<1>1. TypeOK /\ Attached /\ Own /\ OthersStayConnected /\ opened <= opened'
      /\ opened \in Nat /\ opened' \in Nat
  BY DEF TabsInv, TabsMove, TabTypes, TypeOK
<1>2. phase' = [c \in Conns |-> IF c \in {conn[s] : s \in S} /\ phase[c] \in {"open", "ended"}
                              THEN "closed" ELSE phase[c]]
  BY DEF Dispose
<1>3. ASSUME NEW c \in Conns
      PROVE  /\ \/ phase'[c] = phase[c]
                \/ phase[c] \in {"open", "ended"} /\ phase'[c] = "closed" /\ \E s \in S : c = conn[s]
             /\ phase[c] \in Phases /\ phase'[c] \in Phases
  <2>1. phase[c] \in Phases /\ "closed" \in Phases
    BY <1>1 DEF TypeOK, Phases
  <2>2. CASE c \in {conn[s] : s \in S} /\ phase[c] \in {"open", "ended"}
    BY <1>2, <2>1, <2>2
  <2>3. CASE ~(c \in {conn[s] : s \in S} /\ phase[c] \in {"open", "ended"})
    BY <1>2, <2>1, <2>3
  <2>4. QED
    BY <2>2, <2>3
<1>4. phase' \in [Conns -> Phases]
  BY <1>2, <1>3
<1>5. TypeOK'
  BY <1>1, <1>4 DEF TypeOK, TabsMove, TabTypes, fieldVars
<1>6. \A t \in Sessions : conn[t] # None => conn[t] \in Conns
  BY <1>1 DEF TypeOK
<1>7. Attached'
  <2>1. \A c \in Conns : phase'[c] # "unused" => view[c] # None /\ view[c] <= opened'
    <3>1. SUFFICES ASSUME NEW c \in Conns, phase'[c] # "unused"
                   PROVE  view[c] # None /\ view[c] <= opened'
      OBVIOUS
    <3>2. phase[c] # "unused" /\ view[c] \in Views \cup {None}
      BY <1>1, <1>3, <3>1 DEF TypeOK
    <3>3. QED
      BY <1>1, <3>2 DEF Attached
  <2>2. ASSUME NEW t \in Sessions
        PROVE  /\ typist[t] # None => typist[t] <= opened'
               /\ conn[t] # None => t <= opened' /\ phase'[conn[t]] \in {"open", "ended", "closed"}
    <3>1. typist[t] # None => typist[t] <= opened'
      BY <1>1 DEF TypeOK, Attached
    <3>2. conn[t] # None => t <= opened' /\ phase'[conn[t]] \in {"open", "ended", "closed"}
      BY <1>1, <1>3, <1>6 DEF Attached
    <3>3. QED
      BY <3>1, <3>2
  <2>3. QED
    BY <1>1, <2>1, <2>2 DEF Attached, fieldVars
<1>8. Own'
  <2>1. SUFFICES ASSUME InPlace'
                 PROVE  Attributed'
    BY DEF Own
  <2>2. InPlace /\ Attributed
    BY <1>1, <2>1 DEF TabsMove, Own
  <2>3. \A c \in Conns : phase'[c] # "unused" => phase[c] # "unused"
    BY <1>3
  <2>4. QED
    BY <2>2, <2>3 DEF Attributed, fieldVars
<1>9. OthersStayConnected'
  <2>1. SUFFICES ASSUME NEW s \in Sessions, IsOpen(s)', conn[s] # None
                 PROVE  phase'[conn[s]] # "closed"
    BY DEF OthersStayConnected, fieldVars
  <2>2. IsOpen(s) /\ s \notin S /\ conn[s] \in Conns /\ phase[conn[s]] # "closed"
    BY <1>1, <1>6, <2>1 DEF OthersStayConnected
  <2>3. \A t \in S : conn[s] # conn[t]
    BY <1>1, <2>1, <2>2 DEF Attached
  <2>4. QED
    BY <1>3, <2>2, <2>3
<1>10. QED
  BY <1>5, <1>7, <1>8, <1>9 DEF TabsInv, TabsMove

(* A connection that succeeds is stored in the session its view has now.   *)
LEMMA ConnectedKeeps ==
  ASSUME TabsInv, NEW c \in Conns, Connected(c)
  PROVE  TabsInv'
<1>1. TypeOK /\ Matched /\ Attached /\ Own /\ OthersStayConnected /\ TabsMove
      /\ UNCHANGED <<tabVars, owner, view>>
  BY TabsStay DEF TabsInv, Connected
<1>2. PICK v \in Views : v = view[c] /\ session[v] \in Sessions /\ session[v] <= opened /\ v <= opened
  BY <1>1 DEF TypeOK, Attached, Connected, Matched, Handed
<1>3. PICK s \in Sessions : s = session[v] /\ s <= opened
  BY <1>2
<1>4. /\ phase[c] = "connected" /\ phase' = [phase EXCEPT ![c] = "open"]
      /\ conn' = [conn EXCEPT ![s] = c] /\ typist' = [typist EXCEPT ![s] = v]
      /\ connecting' = [connecting EXCEPT ![s] = FALSE]
      /\ error' = error \/ error' = [error EXCEPT ![s] = TRUE]
  BY <1>2, <1>3 DEF Connected, Become
<1>5. /\ phase' \in [Conns -> Phases] /\ phase'[c] = "open"
      /\ \A d \in Conns : d # c => phase'[d] = phase[d]
  BY <1>1, <1>4 DEF TypeOK, Phases
<1>6. /\ conn' \in [Sessions -> Conns \cup {None}] /\ conn'[s] = c
      /\ \A t \in Sessions : t # s => conn'[t] = conn[t]
  BY <1>1, <1>4 DEF TypeOK
<1>7. /\ typist' \in [Sessions -> Views \cup {None}] /\ typist'[s] = v
      /\ \A t \in Sessions : t # s => typist'[t] = typist[t]
  BY <1>1, <1>4 DEF TypeOK
<1>8. connecting' \in [Sessions -> BOOLEAN] /\ error' \in [Sessions -> BOOLEAN]
  BY <1>1, <1>4 DEF TypeOK
<1>9. TypeOK'
  BY <1>1, <1>5, <1>6, <1>7, <1>8 DEF TypeOK, tabVars
<1>10. \A t \in Sessions : conn[t] # None => conn[t] \in Conns /\ conn[t] # c
  BY <1>1, <1>4 DEF TypeOK, Attached
<1>11. Attached'
  <2>1. \A d \in Conns : phase'[d] # "unused" => view[d] # None /\ view[d] <= opened
    BY <1>1, <1>4, <1>5 DEF Attached
  <2>2. ASSUME NEW t \in Sessions
        PROVE  /\ typist'[t] # None => typist'[t] <= opened
               /\ conn'[t] # None => t <= opened /\ phase'[conn'[t]] \in {"open", "ended", "closed"}
    <3>1. CASE t = s
      BY <1>2, <1>3, <1>5, <1>6, <1>7, <3>1
    <3>2. CASE t # s
      BY <1>1, <1>5, <1>6, <1>7, <1>10, <3>2, ZenonT(60) DEF Attached
    <3>3. QED
      BY <3>1, <3>2
  <2>3. \A t, u \in Sessions : conn'[t] # None /\ conn'[t] = conn'[u] => t = u
    BY <1>1, <1>6, <1>10 DEF Attached
  <2>4. QED
    BY <1>1, <2>1, <2>2, <2>3 DEF Attached, tabVars
<1>12. Own'
  <2>1. SUFFICES ASSUME InPlace'
                 PROVE  Attributed'
    BY DEF Own
  <2>2. Attributed /\ v = s /\ owner[c] = s
    <3>1. InPlace /\ Attributed
      BY <1>1, <2>1 DEF TabsMove, Own
    <3>2. v = s
      BY <1>3, <3>1 DEF InPlace
    <3>3. QED
      BY <1>2, <1>4, <3>1, <3>2 DEF Attributed
  <2>3. \A d \in Conns : phase'[d] # "unused" => owner[d] = view[d]
    BY <1>4, <1>5, <2>2 DEF Attributed
  <2>4. \A t \in Sessions : typist'[t] \in {t, None} /\ (conn'[t] # None => owner[conn'[t]] = t)
    BY <1>6, <1>7, <2>2 DEF Attributed
  <2>5. QED
    BY <1>1, <2>3, <2>4 DEF Attributed
<1>13. OthersStayConnected'
  <2>1. SUFFICES ASSUME NEW t \in Sessions, IsOpen(t), conn'[t] # None
                 PROVE  phase'[conn'[t]] # "closed"
    BY <1>1 DEF OthersStayConnected, IsOpen, tabVars
  <2>2. CASE t = s
    BY <1>5, <1>6, <2>2
  <2>3. CASE t # s
    BY <1>1, <1>5, <1>6, <1>10, <2>1, <2>3 DEF OthersStayConnected
  <2>4. QED
    BY <2>2, <2>3
<1>14. QED
  BY <1>1, <1>9, <1>11, <1>12, <1>13 DEF TabsInv, TabsMove

-----------------------------------------------------------------------------
(* The session of a mounted view is open. *)
LEMMA MountedHasSession ==
  ASSUME TabsInv, NEW v \in Views, Mounted(v)
  PROVE  session[v] \in Sessions /\ v <= opened /\ (InPlace => session[v] = v)
<1>1. PICK j \in 1..Len(tabs) : views[j] = v
  BY LenProperties DEF Mounted, Contains, TabsInv, TypeOK
<1>2. tabs[j] \in Sessions
  BY <1>1, ElementOfSeq DEF TabsInv, TypeOK
<1>3. session[v] = tabs[j] /\ Handed(v)
  BY <1>1 DEF TabsInv, Matched
<1>4. QED
  BY <1>2, <1>3 DEF Handed, InPlace

LEMMA AddSessionKeeps == ASSUME TabsInv, AddSession PROVE TabsInv'
<1>1. TabsMove /\ opened' \in Sessions
  BY AddMoves
<1>2. Attempt(opened', opened') /\ opened' <= opened'
  BY <1>1 DEF AddSession
<1>3. QED
  BY <1>1, <1>2, AttemptKeeps

LEMMA ReconnectKeeps == ASSUME TabsInv, NEW v \in Views, Reconnect(v) PROVE TabsInv'
<1>1. TabsMove
  BY TabsStay DEF Reconnect
<1>2. session[v] \in Sessions /\ v <= opened' /\ (InPlace' => v = session[v])
  BY <1>1, MountedHasSession DEF Reconnect, tabVars, TabsMove
<1>3. Attempt(v, session[v])
  BY DEF Reconnect
<1>4. QED
  BY <1>1, <1>2, <1>3, AttemptKeeps

LEMMA CloseSessionKeeps == ASSUME TabsInv, NEW i \in Sessions, CloseSession(i) PROVE TabsInv'
<1>1. i \in 1..Len(tabs) /\ tabs \in Seq(Sessions) /\ opened' = opened /\ opened \in 0..MaxTabs
  BY LenProperties DEF CloseSession, MayCloseTab, TabsInv, TypeOK
<1>2. tabs[i] \in Sessions
  BY <1>1, ElementOfSeq
<1>3. TabsMove
  BY <1>1, CloseMatched DEF TabsMove, TabTypes
<1>4. \A s \in Sessions : IsOpen(s)' => IsOpen(s) /\ s \notin {tabs[i]}
  BY CloseMatched
<1>5. Dispose({tabs[i]}) /\ UNCHANGED <<fieldVars, owner, view>>
  BY DEF CloseSession
<1>6. {tabs[i]} \in SUBSET Sessions
  BY <1>2
<1>7. QED
  BY <1>3, <1>4, <1>5, <1>6, DisposeKeeps

LEMMA LeaveScreenKeeps == ASSUME TabsInv, LeaveScreen PROVE TabsInv'
<1>1. tabs' = <<>> /\ views' = <<>> /\ opened' = opened /\ session' = session
  BY DEF LeaveScreen
<1>2. Len(tabs') = 0 /\ \A s \in Sessions : ~IsOpen(s)'
  BY <1>1, EmptySeq DEF IsOpen, Contains
<1>3. TabTypes' /\ Matched'
  BY <1>1, <1>2, EmptySeq DEF TabsInv, TypeOK, TabTypes, Matched, Handed
<1>4. TabsMove
  BY <1>1, <1>2, <1>3 DEF TabsMove, InPlace, TabsInv, TypeOK
<1>5. ToSet(tabs) \in SUBSET Sessions
  BY ElementOfSeq, LenProperties DEF ToSet, TabsInv, TypeOK
<1>6. Dispose(ToSet(tabs)) /\ UNCHANGED <<fieldVars, owner, view>>
  BY DEF LeaveScreen
<1>7. QED
  BY <1>2, <1>4, <1>5, <1>6, DisposeKeeps

(* The steps of an attempt. *)
LEMMA AttemptStepKeeps ==
  ASSUME TabsInv, NEW c \in Conns,
         \/ Probe(c) \/ Connect(c) \/ Refused(c)
         \/ EnterPassphrase(c) \/ CancelPassphrase(c) \/ StreamDone(c)
  PROVE  TabsInv'
<1>1. /\ {connecting, error} \subseteq [Sessions -> BOOLEAN]
      /\ \A s : Fail(s) => {connecting', error'} \subseteq [Sessions -> BOOLEAN]
  <2>1. connecting \in [Sessions -> BOOLEAN] /\ error \in [Sessions -> BOOLEAN]
    BY DEF TabsInv, TypeOK
  <2>2. ASSUME NEW f \in [Sessions -> BOOLEAN], NEW s, NEW b \in BOOLEAN
        PROVE  [f EXCEPT ![s] = b] \in [Sessions -> BOOLEAN]
    OBVIOUS
  <2>3. ASSUME NEW s, Fail(s)
        PROVE  connecting' \in [Sessions -> BOOLEAN] /\ error' \in [Sessions -> BOOLEAN]
    <3>1. connecting' = [connecting EXCEPT ![s] = FALSE] /\ error' = [error EXCEPT ![s] = TRUE]
      BY <2>3 DEF Fail
    <3>2. QED
      BY <2>1, <2>2, <3>1
  <2>4. QED
    BY <2>1, <2>3
<1>2. PICK p : /\ Become(c, p) /\ phase[c] # "unused" /\ p \in Phases \ {"unused", "closed"}
               /\ phase[c] \in {"open", "ended", "closed"} => p \in {"open", "ended"}
  BY DEF Probe, Connect, Refused, EnterPassphrase, CancelPassphrase, StreamDone, Phases, Attempting
<1>3. {connecting', error'} \subseteq [Sessions -> BOOLEAN]
      /\ UNCHANGED <<tabVars, conn, typist, owner, view>>
  BY <1>1 DEF Probe, Connect, Refused, EnterPassphrase, CancelPassphrase, StreamDone, fieldVars
<1>4. QED
  BY <1>2, <1>3, BecomeKeeps

LEMMA TabsStep == TabsInv /\ [Next]_vars => TabsInv'
<1> SUFFICES ASSUME TabsInv, [Next]_vars PROVE TabsInv'
  OBVIOUS
<1>1. CASE AddSession \/ LeaveScreen
  BY <1>1, AddSessionKeeps, LeaveScreenKeeps
<1>2. ASSUME NEW v \in Views, Reconnect(v) PROVE TabsInv'
  BY <1>2, ReconnectKeeps
<1>3. ASSUME NEW i \in Sessions, CloseSession(i) PROVE TabsInv'
  BY <1>3, CloseSessionKeeps
<1>4. ASSUME NEW c \in Conns,
             Continue(c) \/ EnterPassphrase(c) \/ CancelPassphrase(c) \/ StreamDone(c)
      PROVE  TabsInv'
  BY <1>4, AttemptStepKeeps, ConnectedKeeps DEF Continue
<1>5. CASE UNCHANGED vars
  BY <1>5 DEF vars, tabVars, fieldVars, connVars, TabsInv, TypeOK, Matched, Handed, Attached, Own,
              InPlace, Attributed, OthersStayConnected, IsOpen
<1>6. QED
  BY <1>1, <1>2, <1>3, <1>4, <1>5 DEF Next

LEMMA TabsInvariant == Spec => []TabsInv
<1>1. QED
  BY InitTabs, TabsStep, PTL DEF Spec

-----------------------------------------------------------------------------
(* A session has one attempt or connection at a time, and stores it once   *)
(* it has a shell: the banner, which offers another, shows only when there *)
(* is none.  This too while no view was handed another session.            *)
Serves(c, s) == owner[c] = s /\ phase[c] \notin {"unused", "abandoned", "closed"}
Alone(s) ==
    /\ \A c, d \in Conns : Serves(c, s) /\ Serves(d, s) => c = d
    /\ error[s] => \A c \in Conns : ~Serves(c, s)
    /\ \A c \in Conns : Serves(c, s) /\ phase[c] = "open" => conn[s] = c
OneAtATime == InPlace => \A s \in Sessions : IsOpen(s) => Alone(s)

(* What ends attempts and closes tabs keeps it so. *)
LEMMA FewerServe ==
  ASSUME OneAtATime, InPlace' => InPlace, UNCHANGED conn,
         \A s \in Sessions : IsOpen(s)' =>
            /\ IsOpen(s)
            /\ \A c \in Conns : Serves(c, s)' => Serves(c, s) /\ (phase'[c] = "open" => phase[c] = "open")
            /\ error'[s] => error[s] \/ \A c \in Conns : ~Serves(c, s)'
  PROVE  OneAtATime'
<1>1. SUFFICES ASSUME InPlace', NEW s \in Sessions, IsOpen(s)'
               PROVE  Alone(s)'
  BY DEF OneAtATime
<1>2. Alone(s)
  BY <1>1 DEF OneAtATime
<1>3. QED
  BY <1>1, <1>2 DEF Alone

(* A new attempt begins in a session that has none. *)
LEMMA AttemptAlone ==
  ASSUME TabsInv, OneAtATime, InPlace' => InPlace, NEW v \in Views, NEW s \in Sessions, Attempt(v, s),
         InPlace => \A c \in Conns : ~Serves(c, s),
         \A t \in Sessions : IsOpen(t)' => IsOpen(t) \/ t = s
  PROVE  OneAtATime'
<1>1. PICK c \in Conns :
         /\ phase[c] = "unused"
         /\ phase' = [phase EXCEPT ![c] = IF s \in Keyed THEN "probe" ELSE "connect"]
         /\ owner' = [owner EXCEPT ![c] = s] /\ error' = [error EXCEPT ![s] = FALSE]
         /\ UNCHANGED conn
  BY DEF Attempt
<1>2. TypeOK
  BY DEF TabsInv
<1>3. /\ phase'[c] \in {"probe", "connect"} /\ owner'[c] = s /\ error'[s] = FALSE
      /\ \A d \in Conns \ {c} : phase'[d] = phase[d] /\ owner'[d] = owner[d]
      /\ \A t \in Sessions \ {s} : error'[t] = error[t]
  BY <1>1, <1>2 DEF TypeOK
<1>4. SUFFICES ASSUME InPlace', NEW t \in Sessions, IsOpen(t)'
               PROVE  Alone(t)'
  BY DEF OneAtATime
<1>5. CASE t = s
  <2>1. \A d \in Conns : Serves(d, s)' => d = c
    BY <1>3, <1>4 DEF Serves
  <2>2. QED
    BY <1>3, <1>5, <2>1 DEF Alone
<1>6. CASE t # s
  <2>1. Alone(t)
    BY <1>4, <1>6 DEF OneAtATime
  <2>2. \A d \in Conns : Serves(d, t)' => Serves(d, t) /\ d # c
    BY <1>3, <1>6 DEF Serves
  <2>3. QED
    BY <1>1, <1>3, <1>6, <2>1, <2>2 DEF Alone
<1>7. QED
  BY <1>5, <1>6

(* The view of an open session is mounted. *)
LEMMA OpenIsMounted ==
  ASSUME TabsInv, InPlace, NEW s \in Sessions, IsOpen(s)
  PROVE  Mounted(s)
<1>1. PICK j \in 1..Len(tabs) : tabs[j] = s
  BY LenProperties DEF IsOpen, Contains, TabsInv, TypeOK
<1>2. session[views[j]] = s /\ views[j] \in Views /\ j \in DOMAIN views
  BY <1>1, ElementOfSeq, LenProperties DEF TabsInv, TypeOK, Matched
<1>3. views[j] = s
  BY <1>2 DEF InPlace
<1>4. QED
  BY <1>2, <1>3 DEF Mounted, Contains

(* The connection that gets a shell is the only one of its session. *)
LEMMA ConnectedAlone ==
  ASSUME TabsInv, OneAtATime, NEW c \in Conns, Connected(c)
  PROVE  OneAtATime'
<1>1. TypeOK /\ UNCHANGED <<tabs, session, owner>>
  BY DEF TabsInv, Connected, tabVars
<1>2. SUFFICES ASSUME InPlace, NEW t \in Sessions, IsOpen(t)
               PROVE  Alone(t)'
  BY <1>1 DEF OneAtATime, InPlace, IsOpen
<1>3. PICK s \in Sessions : s = view[c] /\ session[s] = s /\ owner[c] = s
  <2>1. view[c] \in Views /\ view[c] <= opened /\ owner[c] = view[c]
    BY <1>1, <1>2 DEF TypeOK, TabsInv, Attached, Own, Attributed, Connected
  <2>2. session[view[c]] = view[c]
    BY <1>1, <1>2, <2>1 DEF TabsInv, Matched, Handed, InPlace, TypeOK
  <2>3. QED
    BY <2>1, <2>2
<1>4. /\ phase[c] = "connected" /\ phase' = [phase EXCEPT ![c] = "open"]
      /\ conn' = [conn EXCEPT ![s] = c]
      /\ error' = IF Mounted(s) THEN error ELSE [error EXCEPT ![s] = TRUE]
  BY <1>3 DEF Connected, Become
<1>5. /\ phase'[c] = "open" /\ conn'[s] = c
      /\ \A d \in Conns \ {c} : phase'[d] = phase[d]
      /\ \A u \in Sessions \ {s} : conn'[u] = conn[u] /\ error'[u] = error[u]
  BY <1>1, <1>4 DEF TypeOK
<1>6. Alone(t) /\ \A d \in Conns : Serves(d, t)' <=> Serves(d, t)
  BY <1>1, <1>2, <1>4, <1>5 DEF OneAtATime, Serves
<1>7. CASE t = s
  <2>1. error'[s] = error[s]
    BY <1>2, <1>4, <1>7, OpenIsMounted
  <2>2. Serves(c, s)
    BY <1>3, <1>4 DEF Serves
  <2>3. QED
    BY <1>5, <1>6, <1>7, <2>1, <2>2 DEF Alone
<1>8. CASE t # s
  <2>1. \A d \in Conns : Serves(d, t) => d # c
    BY <1>3, <1>8 DEF Serves
  <2>2. QED
    BY <1>5, <1>6, <1>8, <2>1 DEF Alone
<1>9. QED
  BY <1>7, <1>8

(* The other steps of an attempt: when they show the banner, it is over. *)
LEMMA AttemptStepAlone ==
  ASSUME TabsInv, OneAtATime, NEW c \in Conns,
         \/ Probe(c) \/ Connect(c) \/ Refused(c)
         \/ EnterPassphrase(c) \/ CancelPassphrase(c) \/ StreamDone(c)
  PROVE  OneAtATime'
<1>1. /\ TypeOK /\ UNCHANGED <<tabVars, conn, owner, view>>
      /\ phase[c] \notin {"unused", "abandoned", "closed"}
  BY DEF TabsInv, Probe, Connect, Refused, EnterPassphrase, CancelPassphrase, StreamDone, fieldVars
<1>2. PICK p : /\ phase' = [phase EXCEPT ![c] = p] /\ p # "open"
               /\ \/ UNCHANGED error
                  \/ p = "abandoned" /\ error' = [error EXCEPT ![session[view[c]]] = TRUE]
  BY DEF Probe, Connect, Refused, EnterPassphrase, CancelPassphrase, StreamDone, Fail, Become, fieldVars
<1>3. phase'[c] = p /\ \A d \in Conns \ {c} : phase'[d] = phase[d]
  BY <1>1, <1>2 DEF TypeOK
<1>4. SUFFICES ASSUME InPlace, NEW t \in Sessions, IsOpen(t)
               PROVE  Alone(t)'
  BY <1>1 DEF OneAtATime, InPlace, IsOpen, tabVars
<1>5. Alone(t)
  BY <1>4 DEF OneAtATime
<1>6. \A d \in Conns : Serves(d, t)' => Serves(d, t) /\ (phase'[d] = "open" => phase[d] = "open")
  BY <1>1, <1>2, <1>3 DEF Serves
<1>7. error'[t] => error[t] \/ \A d \in Conns : ~Serves(d, t)'
  <2>1. CASE UNCHANGED error
    BY <2>1
  <2>2. CASE p = "abandoned" /\ error' = [error EXCEPT ![session[view[c]]] = TRUE]
    <3>1. view[c] \in Views /\ view[c] <= opened /\ owner[c] = view[c]
      BY <1>1, <1>4 DEF TypeOK, TabsInv, Attached, Own, Attributed
    <3>2. session[view[c]] = owner[c] /\ owner[c] \in Sessions
      BY <1>1, <1>4, <3>1 DEF TabsInv, Matched, Handed, InPlace, TypeOK
    <3>3. CASE t = owner[c]
      <4>1. Serves(c, t) /\ ~Serves(c, t)'
        BY <1>1, <1>3, <2>2, <3>3 DEF Serves
      <4>2. QED
        BY <1>5, <1>6, <4>1 DEF Alone
    <3>4. CASE t # owner[c]
      BY <1>1, <2>2, <3>2, <3>4 DEF TypeOK
    <3>5. QED
      BY <3>3, <3>4
  <2>3. QED
    BY <1>2, <2>1, <2>2
<1>8. QED
  BY <1>1, <1>5, <1>6, <1>7 DEF Alone

(* Disposing of sessions ends their shells and nobody else's. *)
LEMMA DisposeAlone ==
  ASSUME TabsInv, OneAtATime, InPlace' => InPlace, NEW S \in SUBSET Sessions, Dispose(S),
         UNCHANGED <<fieldVars, owner>>, \A s \in Sessions : IsOpen(s)' => IsOpen(s)
  PROVE  OneAtATime'
<1>1. \A c \in Conns : phase'[c] \in {phase[c], "closed"}
  BY DEF Dispose
<1>2. \A s \in Sessions, c \in Conns :
        Serves(c, s)' => Serves(c, s) /\ (phase'[c] = "open" => phase[c] = "open")
  BY <1>1 DEF Serves
<1>3. QED
  BY <1>2, FewerServe DEF fieldVars

LEMMA AloneStep ==
  ASSUME TabsInv, OneAtATime, [Next]_vars
  PROVE  OneAtATime'
<1>1. CASE AddSession
  <2>1. /\ TabsMove /\ opened' = opened + 1 /\ opened' \in Sessions /\ Attempt(opened', opened')
        /\ opened \in 0..MaxTabs
    BY <1>1, AddMoves DEF AddSession, TabsInv, TypeOK
  <2>2. InPlace => \A c \in Conns : ~Serves(c, opened')
    BY <2>1 DEF TabsInv, TypeOK, Attached, Own, Attributed, Serves
  <2>3. \A s \in Sessions : IsOpen(s)' => IsOpen(s) \/ s = opened'
    <3>1. tabs' = Append(tabs, opened') /\ tabs \in Seq(Sessions)
      BY <1>1 DEF AddSession, TabsInv, TypeOK
    <3>2. QED
      BY <2>1, <3>1, AppendProperties, LenProperties DEF IsOpen, Contains
  <2>4. QED
    BY <2>1, <2>2, <2>3, AttemptAlone DEF TabsMove
<1>2. ASSUME NEW v \in Views, Reconnect(v)
      PROVE  OneAtATime'
  <2>1. /\ UNCHANGED tabVars /\ Mounted(v) /\ error[session[v]] /\ Attempt(v, session[v])
        /\ session[v] \in Sessions
    BY <1>2, MountedHasSession DEF Reconnect
  <2>2. IsOpen(session[v])
    <3>1. PICK j \in 1..Len(tabs) : views[j] = v
      BY <2>1, LenProperties DEF Mounted, Contains, TabsInv, TypeOK
    <3>2. tabs[j] = session[v] /\ j \in DOMAIN tabs
      BY <3>1, LenProperties DEF TabsInv, TypeOK, Matched
    <3>3. QED
      BY <3>2 DEF IsOpen, Contains
  <2>3. InPlace => \A c \in Conns : ~Serves(c, session[v])
    BY <2>1, <2>2 DEF OneAtATime, Alone
  <2>4. (InPlace' => InPlace) /\ \A s \in Sessions : IsOpen(s)' => IsOpen(s)
    BY <2>1 DEF tabVars, InPlace, IsOpen
  <2>5. QED
    BY <2>1, <2>3, <2>4, AttemptAlone
<1>3. ASSUME NEW i \in Sessions, CloseSession(i)
      PROVE  OneAtATime'
  <2>1. i \in 1..Len(tabs) /\ tabs \in Seq(Sessions)
    BY <1>3, LenProperties DEF CloseSession, MayCloseTab, TabsInv, TypeOK
  <2>2. {tabs[i]} \in SUBSET Sessions
    BY <2>1, ElementOfSeq
  <2>3. Dispose({tabs[i]}) /\ UNCHANGED <<fieldVars, owner>>
    BY <1>3 DEF CloseSession
  <2>4. (InPlace' => InPlace) /\ \A s \in Sessions : IsOpen(s)' => IsOpen(s)
    BY <1>3, CloseMatched
  <2>5. QED
    BY <2>2, <2>3, <2>4, DisposeAlone
<1>4. CASE LeaveScreen
  <2>1. ToSet(tabs) \in SUBSET Sessions
    BY ElementOfSeq, LenProperties DEF ToSet, TabsInv, TypeOK
  <2>2. Dispose(ToSet(tabs)) /\ UNCHANGED <<fieldVars, owner>> /\ tabs' = <<>> /\ session' = session
    BY <1>4 DEF LeaveScreen
  <2>3. (InPlace' => InPlace) /\ \A s \in Sessions : IsOpen(s)' => IsOpen(s)
    BY <2>2, EmptySeq DEF InPlace, IsOpen, Contains
  <2>4. QED
    BY <2>1, <2>2, <2>3, DisposeAlone
<1>5. ASSUME NEW c \in Conns,
             Continue(c) \/ EnterPassphrase(c) \/ CancelPassphrase(c) \/ StreamDone(c)
      PROVE  OneAtATime'
  BY <1>5, AttemptStepAlone, ConnectedAlone DEF Continue
<1>6. CASE UNCHANGED vars
  BY <1>6 DEF vars, tabVars, fieldVars, connVars, OneAtATime, Alone, Serves, InPlace, IsOpen
<1>7. QED
  BY <1>1, <1>2, <1>3, <1>4, <1>5, <1>6 DEF Next

LEMMA AloneInvariant == Spec => [](TabsInv /\ OneAtATime)
<1>1. Init => OneAtATime
  BY EmptySeq DEF Init, OneAtATime, IsOpen, Contains
<1>2. OneAtATime /\ TabsInv /\ [Next]_vars => OneAtATime'
  BY AloneStep
<1>3. QED
  BY TabsInvariant, <1>1, <1>2, PTL DEF Spec

-----------------------------------------------------------------------------
(* A tab is closed by closing it or by leaving the screen, which disposes  *)
(* of its session.                                                         *)
LEMMA ClosingDisposes ==
  ASSUME TabsInv, [Next]_vars, NEW s \in Sessions, IsOpen(s), ~IsOpen(s)'
  PROVE  \E S \in SUBSET Sessions : s \in S /\ Dispose(S) /\ UNCHANGED <<owner, conn>>
<1>0. PICK j \in 1..Len(tabs) : tabs[j] = s
  BY LenProperties DEF IsOpen, Contains, TabsInv, TypeOK
<1>1. tabs \in Seq(Sessions) /\ Len(tabs) \in Nat /\ j \in DOMAIN tabs
  BY LenProperties DEF TabsInv, TypeOK
<1>2. CASE AddSession
  <2>1. tabs' = Append(tabs, opened') /\ opened' \in Sessions
    BY <1>2, AddMoves DEF AddSession
  <2>2. j \in DOMAIN tabs' /\ tabs'[j] = s
    <3>1. Len(tabs') = Len(tabs) + 1 /\ tabs'[j] = tabs[j] /\ tabs' \in Seq(Sessions)
      BY <1>1, <2>1, AppendProperties
    <3>2. QED
      BY <1>0, <1>1, <3>1, LenProperties
  <2>3. QED
    BY <2>2 DEF IsOpen, Contains
<1>3. ASSUME NEW i \in Sessions, CloseSession(i)
      PROVE  \E S \in SUBSET Sessions : s \in S /\ Dispose(S) /\ UNCHANGED <<owner, conn>>
  <2>1. i \in 1..Len(tabs) /\ tabs' = RemoveAt(tabs, i) /\ Dispose({tabs[i]}) /\ UNCHANGED <<owner, conn>>
    BY <1>1, <1>3, LenProperties DEF CloseSession, MayCloseTab, fieldVars
  <2>2. /\ tabs' \in Seq(Sessions) /\ Len(tabs') = Len(tabs) - 1
        /\ \A k \in 1..(i - 1) : tabs'[k] = tabs[k]
        /\ \A k \in i..(Len(tabs) - 1) : tabs'[k] = tabs[k + 1]
    BY <1>1, <2>1, RemoveAtElements
  <2>3. j = i
    <3>1. CASE j < i
      <4>1. j \in 1..(i - 1) /\ j \in 1..Len(tabs')
        BY <1>1, <2>1, <2>2, <3>1
      <4>2. tabs'[j] = s /\ j \in DOMAIN tabs'
        BY <1>0, <2>2, <4>1, LenProperties
      <4>3. QED
        BY <4>2 DEF IsOpen, Contains
    <3>2. CASE j > i
      <4>1. j - 1 \in i..(Len(tabs) - 1) /\ j - 1 \in 1..Len(tabs') /\ (j - 1) + 1 = j
        <5> DEFINE n == Len(tabs)
        <5>1. n \in Nat /\ i \in 1..n /\ j \in 1..n /\ Len(tabs') = n - 1
          BY <1>0, <1>1, <2>1, <2>2, LenProperties
        <5> HIDE DEF n
        <5>2. j - 1 \in i..(n - 1) /\ j - 1 \in 1..(n - 1) /\ (j - 1) + 1 = j
          BY ONLY <5>1, <3>2
        <5>3. QED
          BY <5>1, <5>2 DEF n
      <4>2. tabs'[j - 1] = s /\ j - 1 \in DOMAIN tabs'
        BY <1>0, <2>2, <4>1, LenProperties
      <4>3. QED
        BY <4>2 DEF IsOpen, Contains
    <3>3. QED
      BY <1>1, <2>1, <3>1, <3>2
  <2>4. {s} \in SUBSET Sessions /\ s \in {s} /\ Dispose({s})
    BY <1>0, <2>1, <2>3
  <2>5. QED
    BY <2>1, <2>4
<1>4. CASE LeaveScreen
  <2>1. ToSet(tabs) \in SUBSET Sessions /\ s \in ToSet(tabs)
    BY <1>0, <1>1, ElementOfSeq, LenProperties DEF ToSet
  <2>2. Dispose(ToSet(tabs)) /\ UNCHANGED <<owner, conn>>
    BY <1>4 DEF LeaveScreen, fieldVars
  <2>3. QED
    BY <2>1, <2>2
<1>5. CASE UNCHANGED vars \/ (\E v \in Views : Reconnect(v)) \/ \E c \in Conns :
             Continue(c) \/ EnterPassphrase(c) \/ CancelPassphrase(c) \/ StreamDone(c)
  <2>1. UNCHANGED tabs
    BY <1>5 DEF vars, tabVars, Reconnect, Continue, Probe, Connect, Connected, Refused,
                EnterPassphrase, CancelPassphrase, StreamDone
  <2>2. QED
    BY <2>1 DEF IsOpen
<1>6. QED
  BY <1>2, <1>3, <1>4, <1>5 DEF Next

-----------------------------------------------------------------------------
(* Every variable of the screen holds a value of its kind, and there are   *)
(* as many views as tabs, however many tabs are opened and closed.         *)
THEOREM TabsTypeCorrect == Spec => []TypeOK
<1>1. TabsInv => TypeOK
  BY DEF TabsInv
<1>2. QED
  BY <1>1, TabsInvariant, PTL

(* As long as no view was handed another session, what is typed into a tab *)
(* goes to the host that tab was opened for, or nowhere.                   *)
THEOREM KeysReachTheirHost == Spec => []KeysReachOwnHost
<1>1. TabsInv => KeysReachOwnHost
  <2>1. SUFFICES ASSUME TabsInv, InPlace, NEW s \in Sessions, IsOpen(s), KeysTo(s) # None
                 PROVE  owner[KeysTo(s)] = s
    BY DEF KeysReachOwnHost, SessionsIndependent
  <2>2. typist[s] # None /\ KeysTo(s) = conn[session[typist[s]]]
    BY <2>1 DEF KeysTo
  <2>3. Attributed /\ typist[s] = s /\ s <= opened /\ opened \in 0..MaxTabs
    BY <2>1, <2>2 DEF TabsInv, Own, Attributed, Attached, TypeOK
  <2>4. session[s] = s
    BY <2>1, <2>3 DEF TabsInv, Matched, Handed, InPlace
  <2>5. QED
    BY <2>1, <2>2, <2>3, <2>4 DEF Attributed
<1>2. QED
  BY <1>1, TabsInvariant, PTL

(* No step, and closing another tab least of all, closes the shell of a    *)
(* tab that is open, whichever sessions the views were handed.             *)
THEOREM OpenTabsKeepTheirShell == Spec => []OthersStayConnected
<1>1. TabsInv => OthersStayConnected
  BY DEF TabsInv
<1>2. QED
  BY <1>1, TabsInvariant, PTL

(* A shell is closed in the step that closes its tab, one opened by a      *)
(* reconnect as well: the tab has no other by then.                        *)
THEOREM ClosedTabsCloseTheirShell == Spec => ShellsCloseWithTab
<1> DEFINE Closes == InPlace => \A c \in Conns :
             phase[c] = "open" /\ IsOpen(owner[c]) /\ ~IsOpen(owner[c])' => phase'[c] = "closed"
<1>1. TabsInv /\ OneAtATime /\ [Next]_vars => [Closes]_vars
  <2> SUFFICES ASSUME TabsInv, OneAtATime, [Next]_vars, InPlace, NEW c \in Conns,
                      phase[c] = "open", IsOpen(owner[c]), ~IsOpen(owner[c])'
               PROVE  phase'[c] = "closed"
    OBVIOUS
  <2>1. PICK s \in Sessions : s = owner[c] /\ s = owner'[c]
    <3>1. owner[c] \in Sessions
      <4>1. view[c] # None /\ owner[c] = view[c]
        BY DEF TabsInv, Attached, Own, Attributed
      <4>2. view[c] \in Views \cup {None}
        BY DEF TabsInv, TypeOK
      <4>3. QED
        BY <4>1, <4>2
    <3>2. owner'[c] = owner[c]
      BY DEF TabsInv, TypeOK, Next, AddSession, Reconnect, Attempt, LeaveScreen, CloseSession, Continue,
             Probe, Connect, Connected, Refused, EnterPassphrase, CancelPassphrase, StreamDone,
             vars, connVars
    <3>3. QED
      BY <3>1, <3>2
  <2>2. IsOpen(s) /\ ~IsOpen(s)'
    BY <2>1 DEF IsOpen
  <2>3. conn[s] = c
    BY <2>1, <2>2 DEF OneAtATime, Alone, Serves
  <2>4. PICK S \in SUBSET Sessions : s \in S /\ Dispose(S)
    BY <2>2, ClosingDisposes
  <2>5. QED
    BY <2>3, <2>4 DEF Dispose
<1>2. Spec => [][Closes]_vars
  BY AloneInvariant, <1>1, PTL DEF Spec
<1>3. QED
  BY <1>2 DEF ShellsCloseWithTab
=============================================================================
