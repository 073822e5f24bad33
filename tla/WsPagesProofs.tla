---------------------------- MODULE WsPagesProofs ---------------------------
(***************************************************************************)
(* Theorems about the WebSocket hub and the pages on top of it, with their *)
(* proofs, for any users, connections, pages and bounds.                   *)
(*                                                                         *)
(* The first part is about Sweep, the loop in ws_user.go that moves dead   *)
(* sockets to the end of a list: a recursive function, so what it answers  *)
(* is found by induction over the slots.  A sweep that meets no doomed     *)
(* socket, or one, loses nothing else; WsHub notes as mishap the users of  *)
(* the sweeps that meet more.                                              *)
(*                                                                         *)
(* The second part is the hub, whose invariant is HubInv /\ ReachInv, the  *)
(* third the pages, with PagesInv, and the last what is true in addition   *)
(* when no ping closes a socket.                                           *)
(***************************************************************************)
EXTENDS WsPages, SequenceTheorems, FiniteSetTheorems, WellFoundedInduction, TLAPS

-----------------------------------------------------------------------------
(* Induction over the naturals, and the loop of Sweep.                     *)

\* Every non-empty set of naturals has a least element.
LEMMA LeastNat ==
    ASSUME NEW S \in SUBSET Nat, S # {}
    PROVE  \E n \in S : \A m \in S : n <= m
<1> DEFINE below == OpToRel(<, Nat)
<1>1. IsWellFoundedOn(below, Nat)
  BY NatLessThanWellFounded, Zenon
<1>2. \A m, n \in Nat : m < n => <<m, n>> \in below
  BY DEF OpToRel
<1> HIDE DEF below
<1>3. PICK n \in S : \A m \in S : <<m, n>> \notin below
  BY <1>1, WFMin
<1>4. \A m \in S : ~(m < n)
  BY <1>2, <1>3
<1> QED BY <1>4

\* Induction over the naturals, stated for a set.
LEMMA Induction ==
    ASSUME NEW S, 0 \in S, \A n \in Nat : n \in S => n + 1 \in S
    PROVE  Nat \subseteq S
<1> SUFFICES ASSUME Nat \ S # {} PROVE FALSE
  OBVIOUS
<1>1. PICK n \in Nat \ S : \A m \in Nat \ S : n <= m
  BY LeastNat
<1>2. n - 1 \in Nat /\ n - 1 \in S
  BY <1>1
<1> QED BY <1>1, <1>2

\* One turn of the loop of Sweep.
Turn(s, n, doomed, i) ==
    IF s.list[i] \in doomed
    THEN [s EXCEPT !.list[i] = s.list[n - s.del], !.del = s.del + 1]
    ELSE [s EXCEPT !.live = @ \cup {s.list[i]}]

Turns(g, list, doomed, m) ==
    g = [i \in 0 .. m |-> IF i = 0 THEN [list |-> list, del |-> 0, live |-> {}]
                          ELSE Turn(g[i - 1], Len(list), doomed, i)]

\* The loop can be run to any length.
LEMMA TurnsExist ==
    ASSUME NEW list, NEW doomed, NEW n \in Nat
    PROVE  \E g : Turns(g, list, doomed, n)
<1> DEFINE S == {m \in Nat : \E g : Turns(g, list, doomed, m)}
<1>1. 0 \in S
  <2> DEFINE g == [i \in 0 .. 0 |-> [list |-> list, del |-> 0, live |-> {}]]
  <2>1. Turns(g, list, doomed, 0)
    BY DEF Turns
  <2> QED BY <2>1
<1>2. ASSUME NEW m \in Nat, m \in S PROVE m + 1 \in S
  <2>1. PICK g : Turns(g, list, doomed, m)
    BY <1>2
  <2> DEFINE h == [i \in 0 .. m + 1 |-> IF i <= m THEN g[i] ELSE Turn(g[m], Len(list), doomed, i)]
             start == [list |-> list, del |-> 0, live |-> {}]
  <2>2. ASSUME NEW i \in 0 .. m + 1
        PROVE  h[i] = IF i = 0 THEN start ELSE Turn(h[i - 1], Len(list), doomed, i)
    <3> HIDE DEF start
    <3>1. \A j \in 0 .. m : g[j] = IF j = 0 THEN start ELSE Turn(g[j - 1], Len(list), doomed, j)
      BY <2>1 DEF Turns, start
    <3>2. CASE i = 0
      BY <3>1, <3>2
    <3>3. CASE i \in 1 .. m
      <4>1. h[i] = g[i] /\ h[i - 1] = g[i - 1] /\ i \in 0 .. m /\ i # 0
        BY <3>3
      <4> QED BY <3>1, <4>1
    <3>4. CASE i = m + 1
      <4>1. h[i] = Turn(g[m], Len(list), doomed, i) /\ h[i - 1] = g[m]
        BY <3>4
      <4> QED BY <3>4, <4>1
    <3> QED BY <3>2, <3>3, <3>4
  <2> HIDE DEF start
  <2>3. h = [i \in 0 .. m + 1 |-> IF i = 0 THEN start ELSE Turn(h[i - 1], Len(list), doomed, i)]
    BY <2>2
  <2>4. Turns(h, list, doomed, m + 1)
    <3> HIDE DEF h
    <3> QED BY <2>3 DEF Turns, start
  <2> QED BY <2>4
<1> HIDE DEF S
<1>3. Nat \subseteq S
  BY <1>1, <1>2, Induction
<1> QED BY <1>3 DEF S

\* A turn, by the parts of the state.
IsState(s) == s = [list |-> s.list, del |-> s.del, live |-> s.live]

\* A turn spelled out: either a doomed slot is overwritten and counted, or a live socket noted.
LEMMA TurnParts ==
    ASSUME NEW s, IsState(s), NEW n, NEW doomed, NEW i
    PROVE  Turn(s, n, doomed, i) =
             IF s.list[i] \in doomed
             THEN [list |-> [s.list EXCEPT ![i] = s.list[n - s.del]], del |-> s.del + 1,
                   live |-> s.live]
             ELSE [list |-> s.list, del |-> s.del, live |-> s.live \cup {s.list[i]}]
<1> DEFINE l == s.list
           d == s.del
           v == s.live
<1>1. s = [list |-> l, del |-> d, live |-> v]
  BY DEF IsState
<1>5. s.list = l /\ s.del = d /\ s.live = v
  OBVIOUS
<1> HIDE DEF l, d, v
<1>2. CASE l[i] \in doomed
  <2>1. Turn(s, n, doomed, i) = [s EXCEPT !.list[i] = l[n - d], !.del = d + 1]
    BY <1>5, <1>2 DEF Turn
  <2> DEFINE t == [s EXCEPT !.list[i] = l[n - d]]
  <2>2. t = [list |-> [l EXCEPT ![i] = l[n - d]], del |-> d, live |-> v]
    BY <1>1
  <2>3. [s EXCEPT !.list[i] = l[n - d], !.del = d + 1] = [t EXCEPT !.del = d + 1]
    OBVIOUS
  <2> HIDE DEF t
  <2>4. [t EXCEPT !.del = d + 1]
          = [list |-> [l EXCEPT ![i] = l[n - d]], del |-> d + 1, live |-> v]
    BY <2>2
  <2> QED BY <1>2, <1>5, <2>1, <2>3, <2>4
<1>3. CASE l[i] \notin doomed
  <2>1. Turn(s, n, doomed, i) = [s EXCEPT !.live = v \cup {l[i]}]
    BY <1>5, <1>3 DEF Turn
  <2>2. [s EXCEPT !.live = v \cup {l[i]}] = [list |-> l, del |-> d, live |-> v \cup {l[i]}]
    BY <1>1
  <2> QED BY <1>3, <1>5, <2>1, <2>2
<1> QED BY <1>2, <1>3, <1>5

\* What Sweep answers is the last of the states the loop goes through: by their parts,
\* L is the list, D counts the doomed met and V holds the live ones met.
Sweeping(L, D, V, list, doomed) ==
    LET n == Len(list)
    IN  /\ L[0] = list /\ D[0] = 0 /\ V[0] = {}
        /\ \A i \in 1 .. n :
              IF L[i - 1][i] \in doomed
              THEN /\ L[i] = [L[i - 1] EXCEPT ![i] = L[i - 1][n - D[i - 1]]]
                   /\ D[i] = D[i - 1] + 1 /\ V[i] = V[i - 1]
              ELSE L[i] = L[i - 1] /\ D[i] = D[i - 1] /\ V[i] = V[i - 1] \cup {L[i - 1][i]}
        /\ Sweep(list, doomed) = [list |-> L[n], del |-> D[n], live |-> V[n]]

\* The parts of the states of the loop, and what it answers with them.
LEMMA SweepTurns ==
    ASSUME NEW list, NEW doomed, Len(list) \in Nat
    PROVE  \E L, D, V : Sweeping(L, D, V, list, doomed)
<1> DEFINE n == Len(list)
           start == [list |-> list, del |-> 0, live |-> {}]
           g == CHOOSE h : Turns(h, list, doomed, Len(list))
           L == [i \in 0 .. n |-> g[i].list]
           D == [i \in 0 .. n |-> g[i].del]
           V == [i \in 0 .. n |-> g[i].live]
           State(i) == [list |-> L[i], del |-> D[i], live |-> V[i]]
           S == {i \in Nat : i <= n => g[i] = State(i)}
<1>1. Turns(g, list, doomed, n)
  BY TurnsExist
<1>2. Sweep(list, doomed) = g[n]
  BY DEF Sweep, Turns, Turn
<1> HIDE DEF g, start
<1>3. \A i \in 0 .. n : g[i] = IF i = 0 THEN start ELSE Turn(g[i - 1], n, doomed, i)
  BY <1>1 DEF Turns, start
<1> HIDE DEF n
<1>4. n \in Nat
  BY DEF n
<1>5. g[0] = start
  BY <1>3, <1>4
<1>6. \A i \in 1 .. n : g[i] = Turn(g[i - 1], n, doomed, i) /\ i - 1 \in 0 .. n /\ i \in 0 .. n
  BY <1>3, <1>4
<1>7. g[0] = State(0) /\ L[0] = list /\ D[0] = 0 /\ V[0] = {}
  BY <1>4, <1>5 DEF start
<1>8. ASSUME NEW i \in Nat, i \in S PROVE i + 1 \in S
  <2> SUFFICES ASSUME i + 1 <= n PROVE g[i + 1] = State(i + 1)
    OBVIOUS
  <2>1. g[i] = State(i) /\ i + 1 \in 1 .. n /\ (i + 1) - 1 = i
    BY <1>4, <1>8
  <2>2. g[i + 1] = Turn(State(i), n, doomed, i + 1)
    BY <1>6, <2>1
  <2>3. \E l, d, v : g[i + 1] = [list |-> l, del |-> d, live |-> v]
    <3> DEFINE s == State(i)
    <3>1. s.list = L[i] /\ s.del = D[i] /\ s.live = V[i]
      OBVIOUS
    <3>3. IsState(s)
      BY DEF IsState
    <3> HIDE DEF s, L, D, V
    <3>2. g[i + 1] = Turn(s, n, doomed, i + 1)
      BY <2>2 DEF s
    <3>4. CASE s.list[i + 1] \in doomed
      <4>1. g[i + 1] = [list |-> [s.list EXCEPT ![i + 1] = s.list[n - s.del]],
                        del |-> s.del + 1, live |-> s.live]
        BY <3>2, <3>3, <3>4, TurnParts
      <4> QED BY <4>1
    <3>5. CASE s.list[i + 1] \notin doomed
      <4>1. g[i + 1] = [list |-> s.list, del |-> s.del, live |-> s.live \cup {s.list[i + 1]}]
        <5>1. Turn(s, n, doomed, i + 1) =
                 IF s.list[i + 1] \in doomed
                 THEN [list |-> [s.list EXCEPT ![i + 1] = s.list[n - s.del]],
                       del |-> s.del + 1, live |-> s.live]
                 ELSE [list |-> s.list, del |-> s.del, live |-> s.live \cup {s.list[i + 1]}]
          BY <3>3, TurnParts
        <5> QED BY <3>2, <3>5, <5>1, Zenon
      <4> QED BY <4>1
    <3> QED BY <3>4, <3>5
  <2>4. L[i + 1] = g[i + 1].list /\ D[i + 1] = g[i + 1].del /\ V[i + 1] = g[i + 1].live
    BY <1>6, <2>1
  <2> QED BY <2>3, <2>4
<1>9. \A i \in 0 .. n : g[i] = State(i)
  <2>1. 0 \in S
    BY <1>7
  <2> HIDE DEF S
  <2>2. Nat \subseteq S
    BY <1>8, <2>1, Induction
  <2> HIDE DEF State
  <2>3. \A i \in 0 .. n : i \in Nat /\ i <= n
    BY <1>4
  <2> QED BY <2>2, <2>3 DEF S
<1>10. ASSUME NEW i \in 1 .. n
       PROVE  State(i) = IF L[i - 1][i] \in doomed
                         THEN [list |-> [L[i - 1] EXCEPT ![i] = L[i - 1][n - D[i - 1]]],
                               del |-> D[i - 1] + 1, live |-> V[i - 1]]
                         ELSE [list |-> L[i - 1], del |-> D[i - 1],
                               live |-> V[i - 1] \cup {L[i - 1][i]}]
  <2> DEFINE s == State(i - 1)
  <2>1. s.list = L[i - 1] /\ s.del = D[i - 1] /\ s.live = V[i - 1]
    OBVIOUS
  <2>3. IsState(s)
    BY DEF IsState
  <2> HIDE DEF s, L, D, V
  <2>2. State(i) = Turn(s, n, doomed, i)
    BY <1>6, <1>9 DEF s
  <2> HIDE DEF State
  <2> QED BY <2>1, <2>2, <2>3, TurnParts
<1>11. Sweep(list, doomed) = State(n)
  BY <1>2, <1>4, <1>9
<1> HIDE DEF L, D, V
<1>12. Sweeping(L, D, V, list, doomed)
  BY <1>7, <1>10, <1>11 DEF Sweeping, n
<1> QED BY <1>12

\* The sweep keeps the length of the list and what is in it, counts at most as many
\* doomed as there are slots, and finds the sockets it calls live in the list.
LEMMA SweepShape ==
    ASSUME NEW list \in Seq(Conns), NEW doomed
    PROVE  /\ Sweep(list, doomed).list \in Seq(Conns)
           /\ Len(Sweep(list, doomed).list) = Len(list)
           /\ Sweep(list, doomed).del \in 0 .. Len(list)
           /\ Sweep(list, doomed).live \in SUBSET Conns
           /\ \A i \in 1 .. Len(list) : \E j \in 1 .. Len(list) :
                  Sweep(list, doomed).list[i] = list[j]
<1> DEFINE n == Len(list)
<1>0. n \in Nat /\ list \in [1 .. n -> Conns]
  OBVIOUS
<1>1. PICK L, D, V : Sweeping(L, D, V, list, doomed)
  BY <1>0, SweepTurns
<1> DEFINE From(l) == \A k \in 1 .. n : \E j \in 1 .. n : l[k] = list[j]
           Fit(i) == /\ L[i] \in [1 .. n -> Conns] /\ D[i] \in 0 .. i /\ V[i] \in SUBSET Conns
                     /\ From(L[i])
           S == {i \in Nat : i <= n => Fit(i)}
<1>2. Sweep(list, doomed) = [list |-> L[n], del |-> D[n], live |-> V[n]]
  BY <1>1 DEF Sweeping
<1>3. Fit(0)
  BY <1>0, <1>1 DEF Sweeping
<1> HIDE DEF n
<1>4. ASSUME NEW i \in Nat, i \in S PROVE i + 1 \in S
  <2> SUFFICES ASSUME i + 1 <= n PROVE Fit(i + 1)
    OBVIOUS
  <2>1. Fit(i) /\ i + 1 \in 1 .. n /\ (i + 1) - 1 = i
    BY <1>0, <1>4
  <2>2. n - D[i] \in 1 .. n /\ D[i] + 1 \in 0 .. i + 1 /\ D[i] \in 0 .. i + 1
        /\ L[i][i + 1] \in Conns
    <3>1. D[i] \in 0 .. i /\ L[i] \in [1 .. n -> Conns] /\ i + 1 \in 1 .. n
      BY <2>1
    <3> HIDE DEF Fit
    <3>2. L[i][i + 1] \in Conns
      BY <3>1
    <3>3. D[i] \in Int /\ 0 <= D[i] /\ D[i] <= i /\ i + 1 <= n
      BY <1>0, <3>1
    <3> QED BY <1>0, <3>2, <3>3
  <2>3. IF L[i][i + 1] \in doomed
        THEN /\ L[i + 1] = [L[i] EXCEPT ![i + 1] = L[i][n - D[i]]]
             /\ D[i + 1] = D[i] + 1 /\ V[i + 1] = V[i]
        ELSE L[i + 1] = L[i] /\ D[i + 1] = D[i] /\ V[i + 1] = V[i] \cup {L[i][i + 1]}
    BY <1>1, <2>1 DEF Sweeping, n
  <2>4. CASE L[i][i + 1] \in doomed
    <3>1. From([L[i] EXCEPT ![i + 1] = L[i][n - D[i]]])
      BY <2>1, <2>2
    <3>2. [L[i] EXCEPT ![i + 1] = L[i][n - D[i]]] \in [1 .. n -> Conns]
      BY <2>1, <2>2
    <3> HIDE DEF From
    <3> QED BY <2>1, <2>2, <2>3, <2>4, <3>1, <3>2
  <2>5. CASE L[i][i + 1] \notin doomed
    BY <2>1, <2>2, <2>3, <2>5
  <2> QED BY <2>4, <2>5
<1>5. 0 \in S
  BY <1>3
<1> HIDE DEF S
<1>6. Nat \subseteq S
  BY <1>4, <1>5, Induction
<1> HIDE DEF Fit
<1>7. Fit(n)
  BY <1>0, <1>6 DEF S
<1>8. L[n] \in Seq(Conns) /\ Len(L[n]) = n
  BY <1>0, <1>7 DEF Fit
<1> QED BY <1>0, <1>2, <1>7, <1>8 DEF Fit, n

\* Without a doomed socket nothing is moved.
LEMMA SweepNone ==
    ASSUME NEW list \in Seq(Conns), NEW doomed, Doomed(list, doomed) = {}
    PROVE  Sweep(list, doomed).list = list /\ Sweep(list, doomed).del = 0
<1> DEFINE n == Len(list)
<1>0. n \in Nat
  OBVIOUS
<1>1. PICK L, D, V : Sweeping(L, D, V, list, doomed)
  BY <1>0, SweepTurns
<1>2. Sweep(list, doomed) = [list |-> L[n], del |-> D[n], live |-> V[n]]
  BY <1>1 DEF Sweeping
<1>3. \A i \in 1 .. n : list[i] \notin doomed
  BY DEF Doomed
<1> DEFINE S == {i \in Nat : i <= n => L[i] = list /\ D[i] = 0}
<1>4. 0 \in S
  BY <1>1 DEF Sweeping
<1> HIDE DEF n
<1>5. ASSUME NEW i \in Nat, i \in S PROVE i + 1 \in S
  <2> SUFFICES ASSUME i + 1 <= n PROVE L[i + 1] = list /\ D[i + 1] = 0
    OBVIOUS
  <2>1. L[i] = list /\ D[i] = 0 /\ i + 1 \in 1 .. n /\ (i + 1) - 1 = i
    BY <1>0, <1>5
  <2>2. L[i][i + 1] \notin doomed => L[i + 1] = L[i] /\ D[i + 1] = D[i]
    BY <1>1, <2>1 DEF Sweeping, n
  <2> QED BY <1>3, <2>1, <2>2
<1> HIDE DEF S
<1>6. Nat \subseteq S
  BY <1>4, <1>5, Induction
<1>7. L[n] = list /\ D[n] = 0
  BY <1>0, <1>6 DEF S
<1> QED BY <1>2, <1>7

\* With one the last socket is copied over it and is to be cut off.
LEMMA SweepOne ==
    ASSUME NEW list \in Seq(Conns), NEW doomed, NEW k, Doomed(list, doomed) = {k}
    PROVE  /\ k \in 1 .. Len(list)
           /\ Sweep(list, doomed).list = [list EXCEPT ![k] = list[Len(list)]]
           /\ Sweep(list, doomed).del = 1
<1> DEFINE n == Len(list)
           moved == [list EXCEPT ![k] = list[n]]
<1>0. n \in Nat /\ list \in [1 .. n -> Conns] /\ k \in 1 .. n
  BY DEF Doomed
<1>1. PICK L, D, V : Sweeping(L, D, V, list, doomed)
  BY <1>0, SweepTurns
<1>2. Sweep(list, doomed) = [list |-> L[n], del |-> D[n], live |-> V[n]]
  BY <1>1 DEF Sweeping
<1>3. list[k] \in doomed /\ \A i \in 1 .. n : i # k => list[i] \notin doomed
  BY DEF Doomed
<1> DEFINE Fit(i) == /\ i < k => L[i] = list /\ D[i] = 0
                     /\ i >= k => L[i] = moved /\ D[i] = 1
           S == {i \in Nat : i <= n => Fit(i)}
<1>4. 0 \in S
  BY <1>0, <1>1 DEF Sweeping
<1>4a. moved \in [1 .. n -> Conns] /\ \A i \in 1 .. n : i # k => moved[i] = list[i]
  BY <1>0
<1> HIDE DEF n, moved
<1>5. ASSUME NEW i \in Nat, i \in S PROVE i + 1 \in S
  <2> SUFFICES ASSUME i + 1 <= n PROVE Fit(i + 1)
    OBVIOUS
  <2>1. Fit(i) /\ i + 1 \in 1 .. n /\ (i + 1) - 1 = i
    BY <1>0, <1>5
  <2>2. IF L[i][i + 1] \in doomed
        THEN /\ L[i + 1] = [L[i] EXCEPT ![i + 1] = L[i][n - D[i]]]
             /\ D[i + 1] = D[i] + 1
        ELSE L[i + 1] = L[i] /\ D[i + 1] = D[i]
    BY <1>1, <2>1 DEF Sweeping, n
  <2>3. CASE i + 1 < k
    <3>1. L[i] = list /\ D[i] = 0 /\ list[i + 1] \notin doomed
      BY <1>0, <1>3, <2>1, <2>3
    <3> QED BY <1>0, <2>2, <2>3, <3>1
  <2>4. CASE i + 1 = k
    <3>1. L[i] = list /\ D[i] = 0 /\ list[i + 1] \in doomed /\ n - 0 = n
      BY <1>0, <1>3, <2>1, <2>4
    <3>2. L[i + 1] = [list EXCEPT ![i + 1] = list[n - 0]] /\ D[i + 1] = 0 + 1
      BY <2>2, <3>1
    <3>3. L[i + 1] = [list EXCEPT ![k] = list[n]]
      BY <2>4, <3>1, <3>2, Zenon
    <3>4. L[i + 1] = moved /\ D[i + 1] = 1
      BY <3>2, <3>3 DEF moved
    <3> QED BY <1>0, <2>4, <3>4
  <2>5. CASE i + 1 > k
    <3>1. L[i] = moved /\ D[i] = 1 /\ moved[i + 1] \notin doomed
      BY <1>0, <1>3, <1>4a, <2>1, <2>5
    <3> QED BY <1>0, <2>2, <2>5, <3>1
  <2> QED BY <1>0, <2>3, <2>4, <2>5
<1> HIDE DEF S
<1>6. Nat \subseteq S
  BY <1>4, <1>5, Induction
<1> HIDE DEF Fit
<1>7. Fit(n)
  BY <1>0, <1>6 DEF S
<1>8. L[n] = moved /\ D[n] = 1
  BY <1>0, <1>7 DEF Fit
<1> QED BY <1>0, <1>2, <1>8 DEF moved, n

Holds(list, c) == \E i \in 1 .. Len(list) : list[i] = c

\* A list cut at its end.
LEMMA CutShape ==
    ASSUME NEW list \in Seq(Conns), NEW del \in 0 .. Len(list)
    PROVE  /\ Truncated(list, del) \in Seq(Conns)
           /\ Len(Truncated(list, del)) = Len(list) - del
           /\ \A i \in 1 .. Len(list) - del : Truncated(list, del)[i] = list[i]
<1>1. Len(list) \in Nat /\ Len(list) - del \in Nat /\ Len(list) - del <= Len(list)
  OBVIOUS
<1> QED BY <1>1, SubSeqProperties DEF Truncated

\* A sweep that meets at most one doomed socket loses no other, and what is left after
\* the cut holds no doomed one.
LEMMA SafeSweep ==
    ASSUME NEW list \in Seq(Conns), NEW doomed, ~SweepIsRisky(list, doomed)
    PROVE  /\ \A c \in Conns \ doomed : Holds(list, c) =>
                  /\ Holds(Sweep(list, doomed).list, c)
                  /\ Holds(Truncated(Sweep(list, doomed).list, Sweep(list, doomed).del), c)
           /\ \A c \in doomed :
                  ~Holds(Truncated(Sweep(list, doomed).list, Sweep(list, doomed).del), c)
           /\ Sweep(list, doomed).del > 0 =>
                  /\ Sweep(list, doomed).del = 1
                  /\ \/ Sweep(list, doomed).list[Len(list)] \in doomed
                     \/ \E k \in 1 .. Len(list) - 1 :
                            Sweep(list, doomed).list[Len(list)] = Sweep(list, doomed).list[k]
                  /\ Len(list) > 0
<1> DEFINE n == Len(list)
           bad == Doomed(list, doomed)
           s == Sweep(list, doomed)
           left == Truncated(s.list, s.del)
           Goal == /\ \A c \in Conns \ doomed : Holds(list, c) => Holds(s.list, c) /\ Holds(left, c)
                   /\ \A c \in doomed : ~Holds(left, c)
                   /\ s.del > 0 =>
                        /\ s.del = 1 /\ n > 0
                        /\ \/ s.list[n] \in doomed
                           \/ \E k \in 1 .. n - 1 : s.list[n] = s.list[k]
<1> SUFFICES Goal
  OBVIOUS
<1>0. n \in Nat
  OBVIOUS
<1>1. bad = {} \/ \E k : bad = {k}
  <2>1. IsFiniteSet(bad) /\ Cardinality(bad) \in Nat
    <3>1. IsFiniteSet(1 .. n)
      BY <1>0, FS_Interval
    <3> QED BY <3>1, FS_Subset, FS_CardinalityType DEF Doomed
  <2>2. Cardinality(bad) = 0 \/ Cardinality(bad) = 1
    BY <2>1 DEF SweepIsRisky
  <2> QED BY <2>1, <2>2, FS_EmptySet, FS_Singleton
<1>2. s.list \in Seq(Conns) /\ Len(s.list) = n /\ s.del \in 0 .. n
  BY SweepShape
<1>3. /\ Len(left) = n - s.del
      /\ \A i \in 1 .. n - s.del : left[i] = s.list[i]
  <2>1. s.list \in Seq(Conns) /\ s.del \in 0 .. Len(s.list)
    BY <1>2
  <2> HIDE DEF s
  <2>2. /\ Len(left) = Len(s.list) - s.del
        /\ \A i \in 1 .. Len(s.list) - s.del : left[i] = s.list[i]
    BY <2>1, CutShape
  <2> QED BY <1>2, <2>2
<1>4. CASE bad = {}
  <2>1. s.list = list /\ s.del = 0
    BY <1>4, SweepNone
  <2>2. \A i \in 1 .. n : list[i] \notin doomed
    BY <1>4 DEF Doomed
  <2>3. Len(left) = n /\ \A i \in 1 .. n : left[i] = list[i]
    BY <1>0, <1>3, <2>1
  <2> HIDE DEF left, s
  <2> QED BY <1>0, <2>1, <2>2, <2>3 DEF Holds, left, s
<1>5. ASSUME NEW k, bad = {k}
      PROVE  Goal
  <2>1. k \in 1 .. n /\ s.list = [list EXCEPT ![k] = list[n]] /\ s.del = 1
    BY <1>5, SweepOne
  <2>2. list[k] \in doomed /\ \A i \in 1 .. n : i # k => list[i] \notin doomed
    BY <1>5 DEF Doomed
  <2>3. s.list[k] = list[n] /\ \A i \in 1 .. n : i # k => s.list[i] = list[i]
    BY <2>1
  <2>4. Len(left) = n - 1 /\ \A i \in 1 .. n - 1 : left[i] = s.list[i]
    BY <1>3, <2>1
  <2> HIDE DEF left, s, n
  <2>5. ASSUME NEW c \in Conns \ doomed, NEW i \in 1 .. n, list[i] = c
        PROVE  Holds(s.list, c) /\ Holds(left, c)
    <3>1. i # k
      BY <2>2, <2>5
    <3>2. CASE i = n
      <4>1. k \in 1 .. n - 1 /\ left[k] = c /\ s.list[k] = c
        BY <1>0, <2>1, <2>3, <2>4, <2>5, <3>1, <3>2
      <4> QED BY <1>0, <1>2, <2>4, <4>1 DEF Holds
    <3>3. CASE i # n
      <4>1. i \in 1 .. n - 1 /\ left[i] = c /\ s.list[i] = c
        BY <1>0, <2>3, <2>4, <2>5, <3>1, <3>3
      <4> QED BY <1>0, <1>2, <2>4, <4>1 DEF Holds
    <3> QED BY <3>2, <3>3
  <2>6. ASSUME NEW i \in 1 .. n - 1 PROVE left[i] \notin doomed
    <3>1. CASE i = k
      <4>1. left[i] = list[n] /\ n # k /\ n \in 1 .. n
        BY <1>0, <2>3, <2>4, <3>1
      <4> QED BY <2>2, <4>1
    <3>2. CASE i # k
      <4>1. left[i] = list[i] /\ i \in 1 .. n
        BY <1>0, <2>3, <2>4, <3>2
      <4> QED BY <2>2, <3>2, <4>1
    <3> QED BY <3>1, <3>2
  <2>7. s.list[n] \in doomed \/ \E j \in 1 .. n - 1 : s.list[n] = s.list[j]
    <3>1. CASE k = n
      BY <2>1, <2>2, <2>3, <3>1
    <3>2. CASE k # n
      <4>1. k \in 1 .. n - 1 /\ s.list[n] = s.list[k]
        BY <1>0, <2>1, <2>3, <3>2
      <4> QED BY <4>1
    <3> QED BY <3>1, <3>2
  <2>8. \A c \in Conns \ doomed : Holds(list, c) => Holds(s.list, c) /\ Holds(left, c)
    BY <2>5 DEF Holds, n
  <2>9. \A c \in doomed : ~Holds(left, c)
    BY <2>4, <2>6 DEF Holds
  <2>10. n > 0
    BY <1>0, <2>1
  <2> QED BY <2>1, <2>7, <2>8, <2>9, <2>10 DEF left, s, n
<1> QED BY <1>1, <1>4, <1>5

\* What a sweep and its cut leave was in the list.
LEMMA CutSweep ==
    ASSUME NEW list \in Seq(Conns), NEW doomed
    PROVE  LET left == Truncated(Sweep(list, doomed).list, Sweep(list, doomed).del)
           IN  /\ left \in Seq(Conns)
               /\ \A i \in 1 .. Len(left) : \E j \in 1 .. Len(list) : left[i] = list[j]
<1> DEFINE l == Sweep(list, doomed).list
           d == Sweep(list, doomed).del
<1>1. /\ l \in Seq(Conns) /\ Len(l) = Len(list) /\ d \in 0 .. Len(l)
      /\ \A i \in 1 .. Len(list) : \E j \in 1 .. Len(list) : l[i] = list[j]
  <2>1. /\ l \in Seq(Conns) /\ Len(l) = Len(list) /\ d \in 0 .. Len(list)
    BY SweepShape
  <2>2. \A i \in 1 .. Len(list) : \E j \in 1 .. Len(list) : l[i] = list[j]
    BY SweepShape
  <2> HIDE DEF l, d
  <2> QED BY <2>1, <2>2
<1> HIDE DEF l, d
<1>2. /\ Truncated(l, d) \in Seq(Conns) /\ Len(Truncated(l, d)) = Len(l) - d
      /\ \A i \in 1 .. Len(l) - d : Truncated(l, d)[i] = l[i]
  BY <1>1, CutShape
<1>3. \A i \in 1 .. Len(l) - d : i \in 1 .. Len(list)
  BY <1>1
<1> QED BY <1>1, <1>2, <1>3 DEF l, d

-----------------------------------------------------------------------------
(* The hub.                                                                *)

\* What each variable ranges over, the records of the two other goroutines too.
HubTypes ==
    /\ TypeOK
    /\ ping \in [at : {"wait", "next", "truncate", "write", "nil", "dead"},
                 todo : SUBSET Conns, user : Conns \cup {None}, live : SUBSET Conns,
                 del : Nat, seen : Seq(Conns), cur : Conns \cup {None}]
    /\ send \in [at : {"idle", "write", "panic"}, list : Seq(Conns)]

\* The ping goroutine has in hand what its label says.
PingInHand ==
    /\ ping.at = "truncate" => ping.user \in Conns
    /\ ping.at = "nil" => ping.cur \in broken

\* A WSUser is of one user, and so is what refers to it.
Belongs ==
    /\ \A c \in Conns : pc[c] # "new" =>
          owner[c] \in Conns /\ pc[owner[c]] # "new" /\ UserOf[owner[c]] = UserOf[c]
    /\ \A u \in Users : hub[u] # None => pc[hub[u]] # "new" /\ UserOf[hub[u]] = u
    /\ \A w \in Conns : \A i \in 1 .. Len(sockets[w]) :
          /\ pc[sockets[w][i]] \notin {"new", "adding"}
          /\ owner[sockets[w][i]] = w

\* Who holds a user's lock is about to take him off the hub, and his list is empty.
Locked ==
    /\ \A w \in Conns : userLock[w] # None =>
          pc[userLock[w]] = "leave" /\ owner[userLock[w]] = w
    /\ \A c \in Conns : pc[c] = "leave" =>
          userLock[owner[c]] = c /\ sockets[owner[c]] = <<>>

HubInv == HubTypes /\ PingInHand /\ Belongs /\ Locked

\* Without a mishap a user's list holds sockets that have not been removed.
ListsLive ==
    \A w \in Conns : UserOf[w] \notin mishap =>
        \A i \in 1 .. Len(sockets[w]) : pc[sockets[w][i]] \in {"open", "remove"}

\* The last entry of a list that is about to be cut is dead or there twice.
Spare(list) ==
    LET n == Len(list)
    IN  n > 0 /\ (list[n] \in nilled \/ \E k \in 1 .. n - 1 : list[k] = list[n])

CutIsSpare ==
    (ping.at = "truncate" /\ UserOf[ping.user] \notin mishap) => ping.del = 1 /\ Spare(ping.seen)

ReachInv == ListsLive /\ CutIsSpare /\ OpenIsReachable /\ NoGhostUsers


\* At the start nobody is connected.
LEMMA InitHub == Init => HubInv /\ ReachInv
<1> SUFFICES ASSUME Init PROVE HubInv /\ ReachInv
  OBVIOUS
<1>1. HubTypes
  <2>1. ping \in [at : {"wait", "next", "truncate", "write", "nil", "dead"},
                  todo : SUBSET Conns, user : Conns \cup {None}, live : SUBSET Conns,
                  del : Nat, seen : Seq(Conns), cur : Conns \cup {None}] /\ ping.at = "wait"
    BY DEF Init, PingIdle
  <2>2. send \in [at : {"idle", "write", "panic"}, list : Seq(Conns)] /\ send.at = "idle"
    BY DEF Init, SendIdle
  <2>3. sockets \in [Conns -> Seq(Conns)]
    BY DEF Init
  <2>4. pc \in [Conns -> {"new", "adding", "open", "remove", "check", "leave", "gone"}]
    BY DEF Init
  <2> QED BY <2>1, <2>2, <2>3, <2>4 DEF Init, HubTypes, TypeOK
<1>2. /\ \A c \in Conns : pc[c] = "new" /\ sockets[c] = <<>> /\ userLock[c] = None
      /\ \A u \in Users : hub[u] = None
      /\ ping.at = "wait"
  BY DEF Init, PingIdle
<1>3. \A w \in Conns : Len(sockets[w]) = 0
  BY <1>2
<1> QED BY <1>1, <1>2, <1>3, UserOfAssumption
        DEF HubInv, PingInHand, Belongs, Locked, ReachInv, ListsLive, CutIsSpare, OpenIsReachable,
            NoGhostUsers

\* Each step of a connection keeps HubInv, first AddConn of a user who is not connected.
LEMMA AddConnNewHub ==
    ASSUME HubInv, NEW c \in Conns, AddConnNew(c)
    PROVE  HubInv'
<1> USE UserOfAssumption, NoneAssumption DEF HubInv
<1> DEFINE u == UserOf[c]
<1>1. /\ pc[c] = "new" /\ hub[u] = None /\ u \in Users
      /\ hub' = [hub EXCEPT ![u] = c] /\ sockets' = [sockets EXCEPT ![c] = <<c>>]
      /\ owner' = [owner EXCEPT ![c] = c] /\ pc' = [pc EXCEPT ![c] = "open"]
      /\ UNCHANGED <<userLock, nilled, broken, ping, send, mishap>>
  BY DEF AddConnNew
<1>2. /\ pc \in [Conns -> {"new", "adding", "open", "remove", "check", "leave", "gone"}]
      /\ owner \in [Conns -> Conns \cup {None}] /\ sockets \in [Conns -> Seq(Conns)]
      /\ hub \in [Users -> Conns \cup {None}]
  BY DEF HubTypes, TypeOK
<1>3. HubTypes'
  BY <1>1, <1>2 DEF HubTypes, TypeOK
<1>4. PingInHand'
  BY <1>1 DEF PingInHand
<1>5. /\ pc'[c] = "open" /\ owner'[c] = c /\ sockets'[c] = <<c>> /\ hub'[u] = c
      /\ \A d \in Conns \ {c} : pc'[d] = pc[d] /\ owner'[d] = owner[d] /\ sockets'[d] = sockets[d]
      /\ \A v \in Users \ {u} : hub'[v] = hub[v]
      /\ Len(sockets'[c]) = 1 /\ sockets'[c][1] = c
  BY <1>1, <1>2
<1>6. Belongs'
  <2>1. \A d \in Conns : pc'[d] # "new" =>
          owner'[d] \in Conns /\ pc'[owner'[d]] # "new" /\ UserOf[owner'[d]] = UserOf[d]
    BY <1>5 DEF Belongs
  <2>2. \A v \in Users : hub'[v] # None => pc'[hub'[v]] # "new" /\ UserOf[hub'[v]] = v
    BY <1>2, <1>5 DEF Belongs
  <2>3. ASSUME NEW w \in Conns, NEW i \in 1 .. Len(sockets'[w])
        PROVE  pc'[sockets'[w][i]] \notin {"new", "adding"} /\ owner'[sockets'[w][i]] = w
    <3>1. CASE w = c
      BY <1>5, <3>1
    <3>2. CASE w # c
      <4>1. i \in 1 .. Len(sockets[w]) /\ sockets'[w][i] = sockets[w][i]
        BY <1>5, <3>2
      <4>2. sockets[w][i] \in Conns /\ pc[sockets[w][i]] \notin {"new", "adding"}
            /\ owner[sockets[w][i]] = w
        BY <1>2, <4>1 DEF Belongs
      <4> QED BY <1>1, <1>5, <4>1, <4>2
    <3> QED BY <3>1, <3>2
  <2> QED BY <2>1, <2>2, <2>3 DEF Belongs
<1>7. Locked'
  <2>1. \A d \in Conns : pc[d] = "leave" => d # c /\ owner[d] # c /\ owner[d] \in Conns
    BY <1>1 DEF Belongs
  <2>2. \A w \in Conns : userLock[w] # None => userLock[w] \in Conns \ {c}
    BY <1>1 DEF Locked, HubTypes, TypeOK
  <2> QED BY <1>1, <1>5, <2>1, <2>2 DEF Locked
<1> QED BY <1>3, <1>4, <1>6, <1>7

\* AddConn of a connected user hands out the WSUser that the hub has.
LEMMA AddConnFoundHub ==
    ASSUME HubInv, NEW c \in Conns, AddConnFound(c)
    PROVE  HubInv'
<1> USE UserOfAssumption, NoneAssumption DEF HubInv
<1>1. /\ pc[c] = "new" /\ hub[UserOf[c]] # None /\ UserOf[c] \in Users
      /\ owner' = [owner EXCEPT ![c] = hub[UserOf[c]]] /\ pc' = [pc EXCEPT ![c] = "adding"]
      /\ UNCHANGED <<hub, userLock, sockets, nilled, broken, ping, send, mishap>>
  BY DEF AddConnFound
<1>2. /\ pc \in [Conns -> {"new", "adding", "open", "remove", "check", "leave", "gone"}]
      /\ owner \in [Conns -> Conns \cup {None}] /\ sockets \in [Conns -> Seq(Conns)]
      /\ hub \in [Users -> Conns \cup {None}]
  BY DEF HubTypes, TypeOK
<1>3. HubTypes'
  BY <1>1, <1>2 DEF HubTypes, TypeOK
<1>4. PingInHand'
  BY <1>1 DEF PingInHand
<1>5. /\ pc'[c] = "adding" /\ owner'[c] = hub[UserOf[c]] /\ owner'[c] \in Conns
      /\ \A d \in Conns \ {c} : pc'[d] = pc[d] /\ owner'[d] = owner[d]
  BY <1>1, <1>2
<1>6. Belongs'
  <2>1. \A d \in Conns : pc'[d] # "new" =>
          owner'[d] \in Conns /\ pc'[owner'[d]] # "new" /\ UserOf[owner'[d]] = UserOf[d]
    BY <1>1, <1>5 DEF Belongs
  <2>2. \A v \in Users : hub'[v] # None => pc'[hub'[v]] # "new" /\ UserOf[hub'[v]] = v
    BY <1>1, <1>2, <1>5 DEF Belongs
  <2>3. \A w \in Conns : \A i \in 1 .. Len(sockets[w]) : sockets[w][i] \in Conns \ {c}
    BY <1>1, <1>2 DEF Belongs
  <2> QED BY <1>1, <1>5, <2>1, <2>2, <2>3 DEF Belongs
<1>7. Locked'
  <2>2. \A w \in Conns : userLock[w] # None => userLock[w] \in Conns \ {c}
    BY <1>1 DEF Locked, HubTypes, TypeOK
  <2> QED BY <1>1, <1>5, <2>2 DEF Locked
<1> QED BY <1>3, <1>4, <1>6, <1>7

\* AddSocket puts an open connection's socket on its owner's list, which is unlocked.
LEMMA AddSocketHub ==
    ASSUME HubInv, NEW c \in Conns, AddSocket(c)
    PROVE  HubInv'
<1> USE UserOfAssumption, NoneAssumption DEF HubInv
<1> DEFINE w == owner[c]
<1>1. /\ pc[c] = "adding" /\ userLock[w] = None
      /\ sockets' = [sockets EXCEPT ![w] = Append(@, c)] /\ pc' = [pc EXCEPT ![c] = "open"]
      /\ mishap' \in {mishap, mishap \cup {UserOf[c]}}
      /\ UNCHANGED <<hub, userLock, nilled, broken, owner, ping, send>>
  BY DEF AddSocket, Unlocked
<1>2. /\ pc \in [Conns -> {"new", "adding", "open", "remove", "check", "leave", "gone"}]
      /\ owner \in [Conns -> Conns \cup {None}] /\ sockets \in [Conns -> Seq(Conns)]
      /\ hub \in [Users -> Conns \cup {None}]
  BY DEF HubTypes, TypeOK
<1>3. w \in Conns
  BY <1>1 DEF Belongs
<1>4. HubTypes'
  BY <1>1, <1>2, <1>3 DEF HubTypes, TypeOK
<1>5. PingInHand'
  BY <1>1 DEF PingInHand
<1>6. /\ pc'[c] = "open" /\ \A d \in Conns \ {c} : pc'[d] = pc[d]
      /\ \A v \in Conns \ {w} : sockets'[v] = sockets[v]
      /\ Len(sockets'[w]) = Len(sockets[w]) + 1 /\ sockets'[w][Len(sockets[w]) + 1] = c
      /\ \A i \in 1 .. Len(sockets[w]) : sockets'[w][i] = sockets[w][i]
      /\ Len(sockets[w]) \in Nat
  <2> HIDE DEF w
  <2> QED BY <1>1, <1>2, <1>3
<1>7. Belongs'
  <2>1. ASSUME NEW v \in Conns, NEW i \in 1 .. Len(sockets'[v])
        PROVE  pc'[sockets'[v][i]] \notin {"new", "adding"} /\ owner'[sockets'[v][i]] = v
    <3>1. CASE v = w /\ i = Len(sockets[w]) + 1
      BY <1>1, <1>6, <3>1
    <3>2. CASE ~(v = w /\ i = Len(sockets[w]) + 1)
      <4>1. i \in 1 .. Len(sockets[v]) /\ sockets'[v][i] = sockets[v][i]
        BY <1>6, <3>2
      <4>2. sockets[v][i] \in Conns /\ pc[sockets[v][i]] \notin {"new", "adding"}
            /\ owner[sockets[v][i]] = v
        BY <1>2, <4>1 DEF Belongs
      <4> QED BY <1>1, <1>6, <4>1, <4>2
    <3> QED BY <3>1, <3>2
  <2>2. /\ \A d \in Conns : pc'[d] # "new" =>
              owner'[d] \in Conns /\ pc'[owner'[d]] # "new" /\ UserOf[owner'[d]] = UserOf[d]
        /\ \A v \in Users : hub'[v] # None => pc'[hub'[v]] # "new" /\ UserOf[hub'[v]] = v
    BY <1>1, <1>2, <1>6 DEF Belongs
  <2> QED BY <2>1, <2>2 DEF Belongs
<1>8. Locked'
  <2>1. \A d \in Conns : pc[d] = "leave" => d # c /\ owner[d] # w
    BY <1>1, <1>3 DEF Locked
  <2>2. \A v \in Conns : userLock[v] # None => userLock[v] \in Conns \ {c}
    BY <1>1 DEF Locked, HubTypes, TypeOK
  <2>3. \A d \in Conns : pc[d] = "leave" => owner[d] \in Conns
    BY DEF Belongs
  <2> QED BY <1>1, <1>6, <2>1, <2>2, <2>3 DEF Locked
<1> QED BY <1>4, <1>5, <1>7, <1>8

\* A peer that vanishes touches nothing but broken.
LEMMA BreakHub ==
    ASSUME HubInv, NEW c \in Conns, Break(c)
    PROVE  HubInv'
<1>1. /\ c \in Fragile /\ broken' = broken \cup {c}
      /\ UNCHANGED <<hub, userLock, sockets, nilled, pc, owner, ping, send, mishap>>
  BY DEF Break, connVars
<1> QED BY <1>1 DEF HubInv, HubTypes, TypeOK, PingInHand, Belongs, Locked

\* A read error touches no list.
LEMMA ReadErrorHub ==
    ASSUME HubInv, NEW c \in Conns, ReadError(c)
    PROVE  HubInv'
<1> USE UserOfAssumption, NoneAssumption DEF HubInv
<1>1. /\ pc[c] = "open" /\ pc' = [pc EXCEPT ![c] = "remove"]
      /\ UNCHANGED <<hub, userLock, sockets, nilled, broken, owner, ping, send, mishap>>
  BY DEF ReadError
<1>2. /\ pc \in [Conns -> {"new", "adding", "open", "remove", "check", "leave", "gone"}]
      /\ owner \in [Conns -> Conns \cup {None}] /\ sockets \in [Conns -> Seq(Conns)]
      /\ hub \in [Users -> Conns \cup {None}]
  BY DEF HubTypes, TypeOK
<1>3. HubTypes'
  BY <1>1, <1>2 DEF HubTypes, TypeOK
<1>4. PingInHand'
  BY <1>1 DEF PingInHand
<1>5. pc'[c] = "remove" /\ \A d \in Conns \ {c} : pc'[d] = pc[d]
  BY <1>1, <1>2
<1>6. Belongs'
  <2>1. \A w \in Conns : \A i \in 1 .. Len(sockets[w]) : sockets[w][i] \in Conns
    BY <1>2
  <2> QED BY <1>1, <1>2, <1>5, <2>1 DEF Belongs
<1>7. Locked'
  <2>1. \A w \in Conns : userLock[w] # None => userLock[w] \in Conns \ {c}
    BY <1>1 DEF Locked, HubTypes, TypeOK
  <2> QED BY <1>1, <1>5, <2>1 DEF Locked
<1> QED BY <1>3, <1>4, <1>6, <1>7

\* RemoveSocket leaves a part of an unlocked list.
LEMMA RemoveSocketHub ==
    ASSUME HubInv, NEW c \in Conns, RemoveSocket(c)
    PROVE  HubInv'
<1> USE UserOfAssumption, NoneAssumption DEF HubInv
<1> DEFINE w == owner[c]
           swept == Sweep(sockets[w], nilled \cup {c})
           left == Truncated(swept.list, swept.del)
<1>1. /\ pc[c] = "remove" /\ userLock[w] = None
      /\ sockets' = [sockets EXCEPT ![w] = left] /\ pc' = [pc EXCEPT ![c] = "check"]
      /\ mishap' \in {mishap, mishap \cup {UserOf[c]}}
      /\ UNCHANGED <<hub, userLock, nilled, broken, owner, ping, send>>
  BY DEF RemoveSocket, Unlocked
<1>2. /\ pc \in [Conns -> {"new", "adding", "open", "remove", "check", "leave", "gone"}]
      /\ owner \in [Conns -> Conns \cup {None}] /\ sockets \in [Conns -> Seq(Conns)]
      /\ hub \in [Users -> Conns \cup {None}]
  BY DEF HubTypes, TypeOK
<1>3. w \in Conns
  BY <1>1 DEF Belongs
<1>4. /\ left \in Seq(Conns)
      /\ \A i \in 1 .. Len(left) : \E j \in 1 .. Len(sockets[w]) : left[i] = sockets[w][j]
  <2>1. sockets[w] \in Seq(Conns)
    BY <1>2, <1>3
  <2>2. left \in Seq(Conns)
    BY <2>1, CutSweep
  <2>3. \A i \in 1 .. Len(left) : \E j \in 1 .. Len(sockets[w]) : left[i] = sockets[w][j]
    BY <2>1, CutSweep
  <2> QED BY <2>2, <2>3, Zenon
<1> HIDE DEF left
<1>5. HubTypes'
  BY <1>1, <1>2, <1>3, <1>4 DEF HubTypes, TypeOK
<1>6. PingInHand'
  BY <1>1 DEF PingInHand
<1>7. /\ pc'[c] = "check" /\ \A d \in Conns \ {c} : pc'[d] = pc[d]
      /\ \A v \in Conns \ {w} : sockets'[v] = sockets[v]
      /\ sockets'[w] = left
  BY <1>1, <1>2, <1>3
<1>8. Belongs'
  <2>1. ASSUME NEW v \in Conns, NEW i \in 1 .. Len(sockets'[v])
        PROVE  pc'[sockets'[v][i]] \notin {"new", "adding"} /\ owner'[sockets'[v][i]] = v
    <3>1. \E j \in 1 .. Len(sockets[v]) : sockets'[v][i] = sockets[v][j]
      BY <1>4, <1>7
    <3>2. sockets'[v][i] \in Conns /\ pc[sockets'[v][i]] \notin {"new", "adding"}
          /\ owner[sockets'[v][i]] = v
      BY <1>2, <3>1 DEF Belongs
    <3> QED BY <1>1, <1>7, <3>2
  <2> QED BY <1>1, <1>2, <1>7, <2>1 DEF Belongs
<1>9. Locked'
  <2>1. \A d \in Conns : pc[d] = "leave" => d # c /\ owner[d] # w /\ owner[d] \in Conns
    BY <1>1, <1>3 DEF Locked, Belongs
  <2>2. \A v \in Conns : userLock[v] # None => userLock[v] \in Conns \ {c}
    BY <1>1 DEF Locked, HubTypes, TypeOK
  <2> QED BY <1>1, <1>7, <2>1, <2>2 DEF Locked
<1> QED BY <1>5, <1>6, <1>8, <1>9

\* The user's lock is kept for an empty list only.
LEMMA CheckEmptyHub ==
    ASSUME HubInv, NEW c \in Conns, CheckEmpty(c)
    PROVE  HubInv'
<1> USE UserOfAssumption, NoneAssumption DEF HubInv
<1> DEFINE w == owner[c]
<1>1. /\ pc[c] = "check" /\ userLock[w] = None
      /\ \/ /\ sockets[w] = <<>> /\ userLock' = [userLock EXCEPT ![w] = c]
            /\ pc' = [pc EXCEPT ![c] = "leave"]
         \/ userLock' = userLock /\ pc' = [pc EXCEPT ![c] = "gone"]
      /\ UNCHANGED <<hub, sockets, nilled, broken, owner, ping, send, mishap>>
  BY DEF CheckEmpty, Unlocked
<1>2. /\ pc \in [Conns -> {"new", "adding", "open", "remove", "check", "leave", "gone"}]
      /\ owner \in [Conns -> Conns \cup {None}] /\ sockets \in [Conns -> Seq(Conns)]
      /\ hub \in [Users -> Conns \cup {None}] /\ userLock \in [Conns -> Conns \cup {None}]
  BY DEF HubTypes, TypeOK
<1>3. w \in Conns
  BY <1>1 DEF Belongs
<1>4. HubTypes'
  <2>1. /\ userLock' \in [Conns -> Conns \cup {None}]
        /\ pc' \in [Conns -> {"new", "adding", "open", "remove", "check", "leave", "gone"}]
    <3>1. userLock' = userLock \/ userLock' = [userLock EXCEPT ![w] = c]
      BY <1>1
    <3>2. pc' = [pc EXCEPT ![c] = "leave"] \/ pc' = [pc EXCEPT ![c] = "gone"]
      BY <1>1
    <3> HIDE DEF w
    <3>3. userLock' \in [Conns -> Conns \cup {None}]
      BY <1>2, <1>3, <3>1
    <3>4. pc' \in [Conns -> {"new", "adding", "open", "remove", "check", "leave", "gone"}]
      BY <1>2, <3>2
    <3> QED BY <3>3, <3>4
  <2> QED BY <1>1, <2>1 DEF HubTypes, TypeOK
<1>5. PingInHand'
  BY <1>1 DEF PingInHand
<1>6. pc'[c] \in {"leave", "gone"} /\ \A d \in Conns \ {c} : pc'[d] = pc[d]
  BY <1>1, <1>2
<1>7. Belongs'
  <2>1. \A v \in Conns : \A i \in 1 .. Len(sockets[v]) : sockets[v][i] \in Conns
    BY <1>2
  <2> QED BY <1>1, <1>2, <1>6, <2>1 DEF Belongs
<1>8. Locked'
  <2>1. \A d \in Conns : pc[d] = "leave" => d # c /\ owner[d] # w
    BY <1>1, <1>3 DEF Locked
  <2>2. \A v \in Conns : userLock[v] # None => userLock[v] \in Conns \ {c}
    BY <1>1, <1>2 DEF Locked
  <2>3. CASE userLock' = userLock /\ pc' = [pc EXCEPT ![c] = "gone"]
    <3>1. pc'[c] = "gone"
      BY <1>2, <2>3
    <3> QED BY <1>1, <1>6, <2>1, <2>2, <2>3, <3>1 DEF Locked
  <2>4. CASE /\ sockets[w] = <<>> /\ userLock' = [userLock EXCEPT ![w] = c]
             /\ pc' = [pc EXCEPT ![c] = "leave"]
    <3>1. pc'[c] = "leave" /\ userLock'[w] = c
          /\ \A v \in Conns \ {w} : userLock'[v] = userLock[v]
      BY <1>2, <1>3, <2>4
    <3>2. ASSUME NEW v \in Conns, userLock'[v] # None
          PROVE  pc'[userLock'[v]] = "leave" /\ owner'[userLock'[v]] = v
      BY <1>1, <1>6, <2>2, <3>1, <3>2 DEF Locked
    <3>3. ASSUME NEW d \in Conns, pc'[d] = "leave"
          PROVE  userLock'[owner'[d]] = d /\ sockets'[owner'[d]] = <<>>
      <4>1. CASE d = c
        BY <1>1, <2>4, <3>1, <4>1
      <4>2. CASE d # c
        <5>1. pc[d] = "leave" /\ owner[d] # w /\ owner[d] \in Conns
          BY <1>6, <2>1, <3>3, <4>2 DEF Belongs
        <5> QED BY <1>1, <3>1, <5>1 DEF Locked
      <4> QED BY <4>1, <4>2
    <3> QED BY <3>2, <3>3 DEF Locked
  <2> QED BY <1>1, <2>3, <2>4
<1> QED BY <1>4, <1>5, <1>7, <1>8

\* removeUser lets go of the one lock its goroutine holds.
LEMMA RemoveUserHub ==
    ASSUME HubInv, NEW c \in Conns, RemoveUser(c)
    PROVE  HubInv'
<1> USE UserOfAssumption, NoneAssumption DEF HubInv
<1> DEFINE w == owner[c]
<1>1. /\ pc[c] = "leave"
      /\ hub' = [hub EXCEPT ![UserOf[c]] = None] /\ userLock' = [userLock EXCEPT ![w] = None]
      /\ pc' = [pc EXCEPT ![c] = "gone"]
      /\ mishap' \in {mishap, mishap \cup {UserOf[c]}}
      /\ UNCHANGED <<sockets, nilled, broken, owner, ping, send>>
  BY DEF RemoveUser
<1>2. /\ pc \in [Conns -> {"new", "adding", "open", "remove", "check", "leave", "gone"}]
      /\ owner \in [Conns -> Conns \cup {None}] /\ sockets \in [Conns -> Seq(Conns)]
      /\ hub \in [Users -> Conns \cup {None}] /\ userLock \in [Conns -> Conns \cup {None}]
  BY DEF HubTypes, TypeOK
<1>3. w \in Conns /\ userLock[w] = c
  BY <1>1 DEF Belongs, Locked
<1>4. HubTypes'
  BY <1>1, <1>2, <1>3 DEF HubTypes, TypeOK
<1>5. PingInHand'
  BY <1>1 DEF PingInHand
<1>6. /\ pc'[c] = "gone" /\ \A d \in Conns \ {c} : pc'[d] = pc[d]
      /\ \A v \in Users : hub'[v] # None => hub'[v] = hub[v]
      /\ userLock'[w] = None /\ \A v \in Conns \ {w} : userLock'[v] = userLock[v]
  BY <1>1, <1>2, <1>3
<1>7. Belongs'
  <2>1. \A v \in Conns : \A i \in 1 .. Len(sockets[v]) : sockets[v][i] \in Conns
    BY <1>2
  <2> QED BY <1>1, <1>2, <1>6, <2>1 DEF Belongs
<1>8. Locked'
  <2>1. ASSUME NEW v \in Conns, userLock'[v] # None
        PROVE  pc'[userLock'[v]] = "leave" /\ owner'[userLock'[v]] = v
    <3>1. v # w /\ userLock[v] # None /\ userLock'[v] = userLock[v]
      BY <1>6, <2>1
    <3>2. userLock[v] \in Conns \ {c} /\ pc[userLock[v]] = "leave" /\ owner[userLock[v]] = v
      BY <1>2, <3>1 DEF Locked
    <3> QED BY <1>1, <1>6, <3>1, <3>2
  <2>2. ASSUME NEW d \in Conns, pc'[d] = "leave"
        PROVE  userLock'[owner'[d]] = d /\ sockets'[owner'[d]] = <<>>
    <3>1. d # c /\ pc[d] = "leave" /\ owner[d] \in Conns /\ userLock[owner[d]] = d
      BY <1>6, <2>2 DEF Belongs, Locked
    <3> QED BY <1>1, <1>3, <1>6, <3>1 DEF Locked
  <2> QED BY <2>1, <2>2 DEF Locked
<1> QED BY <1>4, <1>5, <1>7, <1>8

\* The record of the ping goroutine.
PingStates ==
    [at : {"wait", "next", "truncate", "write", "nil", "dead"}, todo : SUBSET Conns,
     user : Conns \cup {None}, live : SUBSET Conns, del : Nat, seen : Seq(Conns),
     cur : Conns \cup {None}]

\* A step of the ping goroutine that leaves the lists, or moves within one.
LEMMA PingHub ==
    ASSUME HubInv, ping' \in PingStates, sockets' \in [Conns -> Seq(Conns)], PingInHand',
           \A w \in Conns : \A i \in 1 .. Len(sockets'[w]) : \E j \in 1 .. Len(sockets[w]) :
               sockets'[w][i] = sockets[w][j],
           nilled' \subseteq broken, mishap' \subseteq Users,
           UNCHANGED <<hub, userLock, broken, pc, owner, send>>
    PROVE  HubInv'
<1> USE UserOfAssumption, NoneAssumption DEF HubInv
<1>1. HubTypes'
  <2>1. ping'.at \in {"wait", "next", "truncate", "write", "nil", "dead"}
    BY DEF PingStates
  <2>2. ping' \in [at : {"wait", "next", "truncate", "write", "nil", "dead"},
                 todo : SUBSET Conns, user : Conns \cup {None}, live : SUBSET Conns,
                 del : Nat, seen : Seq(Conns), cur : Conns \cup {None}]
    BY DEF PingStates
  <2> QED BY <2>1, <2>2 DEF HubTypes, TypeOK
<1>2. sockets \in [Conns -> Seq(Conns)]
  BY DEF HubTypes, TypeOK
<1>3. Belongs'
  <2>1. ASSUME NEW w \in Conns, NEW i \in 1 .. Len(sockets'[w])
        PROVE  pc'[sockets'[w][i]] \notin {"new", "adding"} /\ owner'[sockets'[w][i]] = w
    <3>1. PICK j \in 1 .. Len(sockets[w]) : sockets'[w][i] = sockets[w][j]
      OBVIOUS
    <3> QED BY <3>1 DEF Belongs
  <2>2. /\ \A d \in Conns : pc'[d] # "new" =>
              owner'[d] \in Conns /\ pc'[owner'[d]] # "new" /\ UserOf[owner'[d]] = UserOf[d]
        /\ \A v \in Users : hub'[v] # None => pc'[hub'[v]] # "new" /\ UserOf[hub'[v]] = v
    BY DEF Belongs
  <2> QED BY <2>1, <2>2 DEF Belongs
<1>4. Locked'
  <2>1. ASSUME NEW w \in Conns, sockets[w] = <<>> PROVE sockets'[w] = <<>>
    <3>1. Len(sockets[w]) = 0
      BY <2>1
    <3>2. Len(sockets'[w]) \in Nat /\ ~(1 \in 1 .. Len(sockets'[w]))
      BY <3>1
    <3> QED BY <3>2
  <2>2. \A d \in Conns : pc[d] = "leave" => owner[d] \in Conns
    BY DEF Belongs
  <2> QED BY <2>1, <2>2 DEF Locked
<1> QED BY <1>1, <1>3, <1>4

\* Each step of the ping goroutine keeps HubInv, first the start of a round.
LEMMA PingRoundHub ==
    ASSUME HubInv, PingRound
    PROVE  HubInv'
<1>1. /\ ping' = [PingIdle EXCEPT !.at = "next", !.todo = {hub[u] : u \in Users} \ {None}]
      /\ UNCHANGED <<hub, userLock, sockets, nilled, broken, pc, owner, send, mishap>>
  BY DEF PingRound, connVars
<1>2. HubTypes
  BY DEF HubInv
<1>3. ping' = [at |-> "next", todo |-> {hub[u] : u \in Users} \ {None}, user |-> None,
               live |-> {}, del |-> 0, seen |-> <<>>, cur |-> None]
  BY <1>1 DEF PingIdle
<1>4. {hub[u] : u \in Users} \ {None} \in SUBSET Conns
  BY <1>2 DEF HubTypes, TypeOK
<1>5. ping' \in PingStates /\ ping'.at = "next"
  BY <1>3, <1>4 DEF PingStates
<1> QED BY <1>1, <1>2, <1>5, PingHub DEF HubTypes, TypeOK, PingInHand

\* The sweep moves sockets within the list of one user.
LEMMA PingSweepHub ==
    ASSUME HubInv, NEW w \in Conns, PingSweep(w)
    PROVE  HubInv'
<1> USE UserOfAssumption
<1> DEFINE swept == Sweep(sockets[w], nilled)
<1>1. /\ ping.at = "next" /\ userLock[w] = None /\ w \in ping.todo
      /\ sockets' = [sockets EXCEPT ![w] = swept.list]
      /\ ping' = [ping EXCEPT !.at = IF swept.del > 0 THEN "truncate" ELSE "write",
                              !.todo = @ \ {w}, !.user = w, !.live = swept.live,
                              !.del = swept.del, !.seen = swept.list]
      /\ mishap' \in {mishap, mishap \cup {UserOf[w]}}
      /\ UNCHANGED <<hub, userLock, nilled, broken, pc, owner, send>>
  BY DEF PingSweep, Unlocked, connVars
<1>2. HubTypes
  BY DEF HubInv
<1>3. /\ swept.list \in Seq(Conns) /\ Len(swept.list) = Len(sockets[w])
      /\ swept.del \in 0 .. Len(sockets[w]) /\ swept.live \in SUBSET Conns
      /\ \A i \in 1 .. Len(sockets[w]) : \E j \in 1 .. Len(sockets[w]) :
            swept.list[i] = sockets[w][j]
      /\ Len(sockets[w]) \in Nat
  <2>1. sockets[w] \in Seq(Conns)
    BY <1>2 DEF HubTypes, TypeOK
  <2>2. /\ swept.list \in Seq(Conns) /\ Len(swept.list) = Len(sockets[w])
        /\ swept.del \in 0 .. Len(sockets[w]) /\ swept.live \in SUBSET Conns
    BY <2>1, SweepShape
  <2>3. \A i \in 1 .. Len(sockets[w]) : \E j \in 1 .. Len(sockets[w]) :
              swept.list[i] = sockets[w][j]
    <3> DEFINE list == sockets[w]
    <3>1. list \in Seq(Conns)
      BY <2>1
    <3> HIDE DEF list
    <3>2. \A i \in 1 .. Len(list) : \E j \in 1 .. Len(list) :
              Sweep(list, nilled).list[i] = list[j]
      BY <3>1, SweepShape
    <3> QED BY <3>2 DEF list
  <2>4. Len(sockets[w]) \in Nat
    BY <2>1
  <2> HIDE DEF swept
  <2> QED BY <2>2, <2>3, <2>4
<1> HIDE DEF swept
<1>4. /\ ping'.at = (IF swept.del > 0 THEN "truncate" ELSE "write") /\ ping'.user = w
      /\ ping'.todo = ping.todo \ {w} /\ ping'.live = swept.live /\ ping'.del = swept.del
      /\ ping'.seen = swept.list /\ ping'.cur = ping.cur
      /\ ping' = [at |-> ping'.at, todo |-> ping'.todo, user |-> ping'.user,
                  live |-> ping'.live, del |-> ping'.del, seen |-> ping'.seen,
                  cur |-> ping'.cur]
  BY <1>1, <1>2 DEF HubTypes
<1>5. ping.todo \in SUBSET Conns /\ ping.cur \in Conns \cup {None}
  BY <1>2 DEF HubTypes
<1>6. ping' \in PingStates
  BY <1>3, <1>4, <1>5 DEF PingStates
<1>7. PingInHand'
  BY <1>4 DEF PingInHand
<1>8. /\ sockets \in [Conns -> Seq(Conns)] /\ sockets' \in [Conns -> Seq(Conns)]
      /\ nilled' \subseteq broken /\ mishap' \subseteq Users
  BY <1>1, <1>2, <1>3 DEF HubTypes, TypeOK
<1>9. \A v \in Conns : \A i \in 1 .. Len(sockets'[v]) : \E j \in 1 .. Len(sockets[v]) :
         sockets'[v][i] = sockets[v][j]
  BY <1>1, <1>3, <1>8
<1> QED BY <1>1, <1>6, <1>7, <1>8, <1>9, PingHub

\* The cut leaves a prefix of the list, or ends the process.
LEMMA PingTruncateHub ==
    ASSUME HubInv, PingTruncate
    PROVE  HubInv'
<1> USE UserOfAssumption
<1> DEFINE w == ping.user
<1>1. /\ ping.at = "truncate"
      /\ mishap' \in {mishap, mishap \cup {UserOf[w]}}
      /\ UNCHANGED <<hub, userLock, nilled, broken, pc, owner, send>>
  BY DEF PingTruncate, connVars
<1>2. HubTypes /\ w \in Conns /\ sockets \in [Conns -> Seq(Conns)] /\ ping.del \in Nat
  BY <1>1 DEF HubInv, PingInHand, HubTypes, TypeOK
<1>3. nilled' \subseteq broken /\ mishap' \subseteq Users
  BY <1>1, <1>2 DEF HubTypes, TypeOK
<1>4. CASE ping.del <= Len(sockets[w])
  <2>1. /\ sockets' = [sockets EXCEPT ![w] = Truncated(@, ping.del)]
        /\ ping' = [ping EXCEPT !.at = "write", !.del = 0, !.seen = <<>>]
    BY <1>4 DEF PingTruncate
  <2>2. ping' \in PingStates /\ ping'.at = "write"
    <3>1. ping \in PingStates /\ 0 \in Nat /\ <<>> \in Seq(Conns)
      BY <1>2 DEF HubTypes, PingStates
    <3> QED BY <2>1, <3>1 DEF PingStates
  <2>3. /\ Truncated(sockets[w], ping.del) \in Seq(Conns)
        /\ Len(Truncated(sockets[w], ping.del)) = Len(sockets[w]) - ping.del
        /\ \A i \in 1 .. Len(sockets[w]) - ping.del :
              Truncated(sockets[w], ping.del)[i] = sockets[w][i]
    <3>1. sockets[w] \in Seq(Conns) /\ ping.del \in 0 .. Len(sockets[w])
      BY <1>2, <1>4
    <3> QED BY <3>1, CutShape
  <2>4. sockets' \in [Conns -> Seq(Conns)]
    BY <1>2, <2>1, <2>3
  <2>5. \A v \in Conns : \A i \in 1 .. Len(sockets'[v]) : \E j \in 1 .. Len(sockets[v]) :
           sockets'[v][i] = sockets[v][j]
    <3>1. \A i \in 1 .. Len(sockets'[w]) : i \in 1 .. Len(sockets[w])
            /\ sockets'[w][i] = sockets[w][i]
      <4>1. sockets'[w] = Truncated(sockets[w], ping.del) /\ Len(sockets[w]) \in Nat
        BY <1>2, <2>1
      <4> HIDE DEF w
      <4> QED BY <1>2, <2>3, <4>1
    <3> QED BY <1>2, <2>1, <3>1
  <2> QED BY <1>1, <1>3, <2>2, <2>4, <2>5, PingHub DEF PingInHand
<1>5. CASE ~(ping.del <= Len(sockets[w]))
  <2>1. sockets' = sockets /\ ping' = [PingIdle EXCEPT !.at = "dead"]
    BY <1>5 DEF PingTruncate
  <2>2. ping' \in PingStates /\ ping'.at = "dead"
    <3>1. ping' = [at |-> "dead", todo |-> {}, user |-> None, live |-> {}, del |-> 0,
                   seen |-> <<>>, cur |-> None]
      BY <2>1 DEF PingIdle
    <3> QED BY <3>1 DEF PingStates
  <2> QED BY <1>1, <1>2, <1>3, <2>1, <2>2, PingHub DEF PingInHand
<1> QED BY <1>4, <1>5

\* A ping that fails has a broken connection in hand.
LEMMA PingWriteHub ==
    ASSUME HubInv, NEW s \in Conns, PingWrite(s)
    PROVE  HubInv'
<1>1. /\ ping.at = "write"
      /\ UNCHANGED <<hub, userLock, sockets, nilled, broken, pc, owner, send, mishap>>
      /\ ping' = IF s \in broken
                 THEN [ping EXCEPT !.at = "nil", !.live = @ \ {s}, !.cur = s]
                 ELSE [ping EXCEPT !.live = @ \ {s}]
  BY DEF PingWrite, connVars
<1>2. HubTypes
  BY DEF HubInv
<1>3. ping' \in PingStates /\ (ping'.at = "nil" => ping'.cur \in broken)
      /\ ping'.at # "truncate"
  BY <1>1, <1>2 DEF HubTypes, PingStates
<1> QED BY <1>1, <1>2, <1>3, PingHub DEF HubTypes, TypeOK, PingInHand

\* What is set to nil is broken.
LEMMA PingNilHub ==
    ASSUME HubInv, PingNil
    PROVE  HubInv'
<1>1. /\ ping.at = "nil" /\ nilled' = nilled \cup {ping.cur}
      /\ ping' = [ping EXCEPT !.at = "write", !.cur = None]
      /\ UNCHANGED <<hub, userLock, sockets, broken, pc, owner, send, mishap>>
  BY DEF PingNil, connVars
<1>2. HubTypes /\ ping.cur \in broken
  BY <1>1 DEF HubInv, PingInHand
<1>3. ping' \in PingStates /\ ping'.at = "write"
  BY <1>1, <1>2 DEF HubTypes, PingStates
<1> QED BY <1>1, <1>2, <1>3, PingHub DEF HubTypes, TypeOK, PingInHand

\* The round goes on to the next user.
LEMMA PingUserDoneHub ==
    ASSUME HubInv, PingUserDone
    PROVE  HubInv'
<1>1. /\ ping' = [ping EXCEPT !.at = "next", !.user = None]
      /\ UNCHANGED <<hub, userLock, sockets, nilled, broken, pc, owner, send, mishap>>
  BY DEF PingUserDone, connVars
<1>2. HubTypes
  BY DEF HubInv
<1>3. ping' \in PingStates /\ ping'.at = "next"
  BY <1>1, <1>2 DEF HubTypes, PingStates
<1> QED BY <1>1, <1>2, <1>3, PingHub DEF HubTypes, TypeOK, PingInHand

\* The round ends.
LEMMA PingDoneHub ==
    ASSUME HubInv, PingDone
    PROVE  HubInv'
<1>1. /\ ping' = PingIdle
      /\ UNCHANGED <<hub, userLock, sockets, nilled, broken, pc, owner, send, mishap>>
  BY DEF PingDone, connVars
<1>2. HubTypes
  BY DEF HubInv
<1>3. ping' \in PingStates /\ ping'.at = "wait"
  BY <1>1 DEF PingIdle, PingStates
<1> QED BY <1>1, <1>2, <1>3, PingHub DEF HubTypes, TypeOK, PingInHand

\* The sender touches its own record only.
LEMMA SendHub ==
    ASSUME HubInv, (\E u \in Users : PushAlert(u)) \/ SendWrite \/ SendDone
    PROVE  HubInv'
<1>1. HubTypes
  BY DEF HubInv
<1>2. UNCHANGED <<hub, userLock, sockets, nilled, broken, pc, owner, ping, mishap>>
  BY DEF PushAlert, SendWrite, SendDone, connVars
<1>3. send' \in [at : {"idle", "write", "panic"}, list : Seq(Conns)]
  <2>1. ASSUME NEW u \in Users, PushAlert(u)
        PROVE  send' \in [at : {"idle", "write", "panic"}, list : Seq(Conns)]
    <3>1. hub[u] \in Conns /\ send' = [at |-> "write", list |-> sockets[hub[u]]]
      BY <1>1, <2>1 DEF PushAlert, HubTypes, TypeOK
    <3> QED BY <1>1, <3>1 DEF HubTypes, TypeOK
  <2>2. CASE SendWrite
    <3>1. send \in [at : {"idle", "write", "panic"}, list : Seq(Conns)]
      BY <1>1 DEF HubTypes
    <3>2. send.list \in Seq(Conns) /\ send.list # <<>>
      BY <2>2, <3>1 DEF SendWrite
    <3>3. Tail(send.list) \in Seq(Conns)
      BY <3>2
    <3>4. send' = [send EXCEPT !.at = "panic"] \/ send' = [send EXCEPT !.list = Tail(send.list)]
      BY <2>2 DEF SendWrite
    <3> QED BY <3>1, <3>3, <3>4
  <2>3. CASE SendDone
    BY <2>3 DEF SendDone, SendIdle
  <2> QED BY <2>1, <2>2, <2>3
<1>4. HubTypes'
  BY <1>1, <1>2, <1>3 DEF HubTypes, TypeOK
<1> QED BY <1>2, <1>4 DEF HubInv, PingInHand, Belongs, Locked

\* A step that leaves lists, hub and connections alone, and cuts nothing it has not seen.
LEMMA QuietReach ==
    ASSUME HubInv, ReachInv, nilled \subseteq nilled', broken \subseteq broken',
           ping'.at = "truncate" => ping' = ping,
           UNCHANGED <<hub, sockets, pc, owner, mishap>>
    PROVE  ReachInv'
<1>1. ListsLive' /\ NoGhostUsers'
  BY DEF ReachInv, ListsLive, NoGhostUsers
<1>2. CutIsSpare'
  BY DEF ReachInv, CutIsSpare, Spare
<1>3. OpenIsReachable'
  BY DEF ReachInv, OpenIsReachable, InList
<1> QED BY <1>1, <1>2, <1>3 DEF ReachInv

\* Each step keeps ReachInv, first AddConn: an entry made is that of the connection itself.
LEMMA AddConnNewReach ==
    ASSUME HubInv, ReachInv, NEW c \in Conns, AddConnNew(c)
    PROVE  ReachInv'
<1> USE UserOfAssumption, NoneAssumption
<1> DEFINE u == UserOf[c]
<1>1. /\ pc[c] = "new" /\ hub[u] = None /\ u \in Users
      /\ hub' = [hub EXCEPT ![u] = c] /\ sockets' = [sockets EXCEPT ![c] = <<c>>]
      /\ owner' = [owner EXCEPT ![c] = c] /\ pc' = [pc EXCEPT ![c] = "open"]
      /\ UNCHANGED <<userLock, nilled, broken, ping, send, mishap>>
  BY DEF AddConnNew
<1>2. /\ pc \in [Conns -> {"new", "adding", "open", "remove", "check", "leave", "gone"}]
      /\ owner \in [Conns -> Conns \cup {None}] /\ sockets \in [Conns -> Seq(Conns)]
      /\ hub \in [Users -> Conns \cup {None}]
  BY DEF HubInv, HubTypes, TypeOK
<1>3. /\ pc'[c] = "open" /\ owner'[c] = c /\ sockets'[c] = <<c>> /\ hub'[u] = c
      /\ \A d \in Conns \ {c} : pc'[d] = pc[d] /\ owner'[d] = owner[d] /\ sockets'[d] = sockets[d]
      /\ \A v \in Users \ {u} : hub'[v] = hub[v]
      /\ Len(sockets'[c]) = 1 /\ sockets'[c][1] = c
  BY <1>1, <1>2
<1>4. ListsLive'
  <2>1. ASSUME NEW w \in Conns, UserOf[w] \notin mishap, NEW i \in 1 .. Len(sockets'[w])
        PROVE  pc'[sockets'[w][i]] \in {"open", "remove"}
    <3>1. CASE w = c
      BY <1>3, <3>1
    <3>2. CASE w # c
      <4>1. i \in 1 .. Len(sockets[w]) /\ sockets'[w][i] = sockets[w][i]
            /\ sockets[w][i] \in Conns
        BY <1>2, <1>3, <3>2
      <4>2. pc[sockets[w][i]] \in {"open", "remove"}
        BY <2>1, <4>1 DEF ReachInv, ListsLive
      <4> QED BY <1>3, <4>1, <4>2
    <3> QED BY <3>1, <3>2
  <2> QED BY <1>1, <2>1 DEF ListsLive
<1>5. CutIsSpare'
  BY <1>1 DEF ReachInv, CutIsSpare, Spare
<1>6. OpenIsReachable'
  <2>1. ASSUME NEW d \in Conns, pc'[d] = "open", d \notin broken, UserOf[d] \notin mishap
        PROVE  hub'[UserOf[d]] = owner'[d] /\ Holds(sockets'[owner'[d]], d)
    <3>1. CASE d = c
      BY <1>3, <3>1 DEF Holds
    <3>2. CASE d # c
      <4>1. pc[d] = "open" /\ owner'[d] = owner[d]
        BY <1>3, <2>1, <3>2
      <4>2. owner[d] \in Conns \ {c}
        BY <1>1, <4>1 DEF HubInv, Belongs
      <4>3. hub[UserOf[d]] = owner[d] /\ Holds(sockets[owner[d]], d)
        BY <2>1, <4>1 DEF ReachInv, OpenIsReachable, InList, Holds
      <4>4. UserOf[d] \in Users \ {u}
        BY <1>1, <4>2, <4>3
      <4> QED BY <1>3, <4>1, <4>2, <4>3, <4>4
    <3> QED BY <3>1, <3>2
  <2> QED BY <1>1, <2>1 DEF OpenIsReachable, InList, Holds
<1>7. NoGhostUsers'
  BY <1>1, <1>3 DEF ReachInv, NoGhostUsers
<1> QED BY <1>4, <1>5, <1>6, <1>7 DEF ReachInv

\* A connection that is being added is not open yet.
LEMMA AddConnFoundReach ==
    ASSUME HubInv, ReachInv, NEW c \in Conns, AddConnFound(c)
    PROVE  ReachInv'
<1> USE UserOfAssumption, NoneAssumption
<1>1. /\ pc[c] = "new" /\ hub[UserOf[c]] # None /\ UserOf[c] \in Users
      /\ owner' = [owner EXCEPT ![c] = hub[UserOf[c]]] /\ pc' = [pc EXCEPT ![c] = "adding"]
      /\ UNCHANGED <<hub, userLock, sockets, nilled, broken, ping, send, mishap>>
  BY DEF AddConnFound
<1>2. /\ pc \in [Conns -> {"new", "adding", "open", "remove", "check", "leave", "gone"}]
      /\ owner \in [Conns -> Conns \cup {None}] /\ sockets \in [Conns -> Seq(Conns)]
      /\ hub \in [Users -> Conns \cup {None}]
  BY DEF HubInv, HubTypes, TypeOK
<1>3. /\ pc'[c] = "adding"
      /\ \A d \in Conns \ {c} : pc'[d] = pc[d] /\ owner'[d] = owner[d]
  BY <1>1, <1>2
<1>4. ListsLive'
  <2>1. \A w \in Conns : \A i \in 1 .. Len(sockets[w]) : sockets[w][i] \in Conns \ {c}
    BY <1>1, <1>2 DEF HubInv, Belongs
  <2> QED BY <1>1, <1>3, <2>1 DEF ReachInv, ListsLive
<1>5. CutIsSpare'
  BY <1>1 DEF ReachInv, CutIsSpare, Spare
<1>6. OpenIsReachable'
  BY <1>1, <1>3 DEF ReachInv, OpenIsReachable, InList
<1>7. NoGhostUsers'
  <2>1. ASSUME NEW v \in Users \ mishap, hub[v] # None
        PROVE  \E d \in Conns : UserOf[d] = v /\ pc'[d] \notin {"new", "gone"}
    <3>1. PICK d \in Conns : UserOf[d] = v /\ pc[d] \notin {"new", "gone"}
      BY <2>1 DEF ReachInv, NoGhostUsers
    <3> QED BY <1>1, <1>3, <3>1
  <2> QED BY <1>1, <2>1 DEF NoGhostUsers
<1> QED BY <1>4, <1>5, <1>6, <1>7 DEF ReachInv

\* A socket added to a WSUser that the hub still has is reachable.
LEMMA AddSocketReach ==
    ASSUME HubInv, ReachInv, NEW c \in Conns, AddSocket(c)
    PROVE  ReachInv'
<1> USE UserOfAssumption, NoneAssumption
<1> DEFINE w == owner[c]
<1>1. /\ pc[c] = "adding"
      /\ sockets' = [sockets EXCEPT ![w] = Append(@, c)] /\ pc' = [pc EXCEPT ![c] = "open"]
      /\ mishap' = IF hub[UserOf[c]] = w THEN mishap ELSE mishap \cup {UserOf[c]}
      /\ UNCHANGED <<hub, userLock, nilled, broken, owner, ping, send>>
  BY DEF AddSocket
<1>2. /\ pc \in [Conns -> {"new", "adding", "open", "remove", "check", "leave", "gone"}]
      /\ owner \in [Conns -> Conns \cup {None}] /\ sockets \in [Conns -> Seq(Conns)]
      /\ hub \in [Users -> Conns \cup {None}]
  BY DEF HubInv, HubTypes, TypeOK
<1>3. w \in Conns
  BY <1>1 DEF HubInv, Belongs
<1>4. /\ pc'[c] = "open" /\ \A d \in Conns \ {c} : pc'[d] = pc[d]
      /\ \A v \in Conns \ {w} : sockets'[v] = sockets[v]
      /\ Len(sockets'[w]) = Len(sockets[w]) + 1 /\ sockets'[w][Len(sockets[w]) + 1] = c
      /\ \A i \in 1 .. Len(sockets[w]) : sockets'[w][i] = sockets[w][i]
      /\ Len(sockets[w]) \in Nat
  <2> HIDE DEF w
  <2> QED BY <1>1, <1>2, <1>3
<1>5. mishap \subseteq mishap' /\ (UserOf[c] \notin mishap' => hub[UserOf[c]] = w)
  BY <1>1
<1>6. ListsLive'
  <2>1. ASSUME NEW v \in Conns, UserOf[v] \notin mishap', NEW i \in 1 .. Len(sockets'[v])
        PROVE  pc'[sockets'[v][i]] \in {"open", "remove"}
    <3>1. CASE v = w /\ i = Len(sockets[w]) + 1
      BY <1>4, <3>1
    <3>2. CASE ~(v = w /\ i = Len(sockets[w]) + 1)
      <4>1. i \in 1 .. Len(sockets[v]) /\ sockets'[v][i] = sockets[v][i]
        BY <1>4, <3>2
      <4>2. sockets[v][i] \in Conns
        BY <1>2, <4>1
      <4>3. pc[sockets[v][i]] \in {"open", "remove"}
        BY <1>5, <2>1, <4>1 DEF ReachInv, ListsLive
      <4> QED BY <1>4, <4>1, <4>2, <4>3
    <3> QED BY <3>1, <3>2
  <2> QED BY <2>1 DEF ListsLive
<1>7. CutIsSpare'
  BY <1>1, <1>5 DEF ReachInv, CutIsSpare, Spare
<1>8. OpenIsReachable'
  <2>1. ASSUME NEW d \in Conns, pc'[d] = "open", d \notin broken, UserOf[d] \notin mishap'
        PROVE  hub[UserOf[d]] = owner[d] /\ Holds(sockets'[owner[d]], d)
    <3>1. CASE d = c
      <4>1. Len(sockets[w]) + 1 \in 1 .. Len(sockets'[w])
        BY <1>4
      <4> QED BY <1>4, <1>5, <2>1, <3>1, <4>1 DEF Holds
    <3>2. CASE d # c
      <4>1. hub[UserOf[d]] = owner[d] /\ Holds(sockets[owner[d]], d) /\ owner[d] \in Conns
        BY <1>4, <1>5, <2>1, <3>2 DEF ReachInv, OpenIsReachable, InList, Holds, HubInv, Belongs
      <4>2. PICK i \in 1 .. Len(sockets[owner[d]]) : sockets[owner[d]][i] = d
        BY <4>1 DEF Holds
      <4>3. CASE owner[d] = w
        <5>1. i \in 1 .. Len(sockets'[w]) /\ sockets'[w][i] = d
          BY <1>4, <4>2, <4>3
        <5> QED BY <4>1, <4>3, <5>1 DEF Holds
      <4>4. CASE owner[d] # w
        <5>1. sockets'[owner[d]] = sockets[owner[d]]
          BY <1>4, <4>1, <4>4
        <5> QED BY <4>1, <5>1 DEF Holds
      <4> QED BY <4>3, <4>4
    <3> QED BY <3>1, <3>2
  <2> QED BY <1>1, <2>1 DEF OpenIsReachable, InList, Holds
<1>9. NoGhostUsers'
  <2>1. ASSUME NEW v \in Users \ mishap, hub[v] # None
        PROVE  \E d \in Conns : UserOf[d] = v /\ pc'[d] \notin {"new", "gone"}
    <3>1. PICK d \in Conns : UserOf[d] = v /\ pc[d] \notin {"new", "gone"}
      BY <2>1 DEF ReachInv, NoGhostUsers
    <3> QED BY <1>1, <1>4, <3>1
  <2> QED BY <1>1, <1>5, <2>1 DEF NoGhostUsers
<1> QED BY <1>6, <1>7, <1>8, <1>9 DEF ReachInv

\* A connection that ends need not be reachable any more, and still is active.
LEMMA ReadErrorReach ==
    ASSUME HubInv, ReachInv, NEW c \in Conns, ReadError(c)
    PROVE  ReachInv'
<1>1. /\ pc[c] = "open" /\ pc' = [pc EXCEPT ![c] = "remove"]
      /\ UNCHANGED <<hub, userLock, sockets, nilled, broken, owner, ping, send, mishap>>
  BY DEF ReadError
<1>2. /\ pc \in [Conns -> {"new", "adding", "open", "remove", "check", "leave", "gone"}]
      /\ sockets \in [Conns -> Seq(Conns)]
  BY DEF HubInv, HubTypes, TypeOK
<1>3. pc'[c] = "remove" /\ \A d \in Conns \ {c} : pc'[d] = pc[d]
  BY <1>1, <1>2
<1>4. ListsLive'
  <2>1. \A w \in Conns : \A i \in 1 .. Len(sockets[w]) : sockets[w][i] \in Conns
    BY <1>2
  <2> QED BY <1>1, <1>3, <2>1 DEF ReachInv, ListsLive
<1>5. CutIsSpare'
  BY <1>1 DEF ReachInv, CutIsSpare, Spare
<1>6. OpenIsReachable'
  BY <1>1, <1>3 DEF ReachInv, OpenIsReachable, InList
<1>7. NoGhostUsers'
  <2>1. ASSUME NEW v \in Users \ mishap, hub[v] # None
        PROVE  \E d \in Conns : UserOf[d] = v /\ pc'[d] \notin {"new", "gone"}
    <3>1. PICK d \in Conns : UserOf[d] = v /\ pc[d] \notin {"new", "gone"}
      BY <2>1 DEF ReachInv, NoGhostUsers
    <3> QED BY <1>1, <1>3, <3>1
  <2> QED BY <1>1, <2>1 DEF NoGhostUsers
<1> QED BY <1>4, <1>5, <1>6, <1>7 DEF ReachInv

\* The sweep of the leaving connection takes its socket off, and no live one.
LEMMA RemoveSocketReach ==
    ASSUME HubInv, ReachInv, NEW c \in Conns, RemoveSocket(c)
    PROVE  ReachInv'
<1> USE UserOfAssumption, NoneAssumption
<1> DEFINE w == owner[c]
           doomed == nilled \cup {c}
           swept == Sweep(sockets[w], doomed)
           left == Truncated(swept.list, swept.del)
<1>1. /\ pc[c] = "remove"
      /\ sockets' = [sockets EXCEPT ![w] = left] /\ pc' = [pc EXCEPT ![c] = "check"]
      /\ mishap' = IF SweepIsRisky(sockets[w], doomed)
                   THEN mishap \cup {UserOf[c]} ELSE mishap
      /\ UNCHANGED <<hub, userLock, nilled, broken, owner, ping, send>>
  BY DEF RemoveSocket
<1>2. /\ pc \in [Conns -> {"new", "adding", "open", "remove", "check", "leave", "gone"}]
      /\ owner \in [Conns -> Conns \cup {None}] /\ sockets \in [Conns -> Seq(Conns)]
      /\ hub \in [Users -> Conns \cup {None}] /\ nilled \subseteq broken
  BY DEF HubInv, HubTypes, TypeOK
<1>3. w \in Conns /\ UserOf[w] = UserOf[c]
  BY <1>1 DEF HubInv, Belongs
<1>4. left \in Seq(Conns)
      /\ \A i \in 1 .. Len(left) : \E j \in 1 .. Len(sockets[w]) : left[i] = sockets[w][j]
  <2>1. sockets[w] \in Seq(Conns)
    BY <1>2, <1>3
  <2>2. left \in Seq(Conns)
    BY <2>1, CutSweep
  <2>3. \A i \in 1 .. Len(left) : \E j \in 1 .. Len(sockets[w]) : left[i] = sockets[w][j]
    BY <2>1, CutSweep
  <2> QED BY <2>2, <2>3, Zenon
<1>5. ~SweepIsRisky(sockets[w], doomed) =>
        /\ \A d \in Conns \ doomed : Holds(sockets[w], d) => Holds(left, d)
        /\ ~Holds(left, c)
  <2>1. sockets[w] \in Seq(Conns) /\ c \in doomed
    BY <1>2, <1>3
  <2> HIDE DEF doomed
  <2> QED BY <2>1, SafeSweep
<1> HIDE DEF left, swept
<1>6. /\ pc'[c] = "check" /\ \A d \in Conns \ {c} : pc'[d] = pc[d]
      /\ \A v \in Conns \ {w} : sockets'[v] = sockets[v]
      /\ sockets'[w] = left
  BY <1>1, <1>2, <1>3
<1>7. mishap \subseteq mishap'
      /\ (UserOf[c] \notin mishap' => ~SweepIsRisky(sockets[w], doomed))
  BY <1>1
<1> HIDE DEF doomed
<1>8. ListsLive'
  <2>1. ASSUME NEW v \in Conns, UserOf[v] \notin mishap', NEW i \in 1 .. Len(sockets'[v])
        PROVE  pc'[sockets'[v][i]] \in {"open", "remove"}
    <3>1. PICK j \in 1 .. Len(sockets[v]) : sockets'[v][i] = sockets[v][j]
      <4>1. CASE v = w
        <5>1. i \in 1 .. Len(left) /\ sockets'[v][i] = left[i]
          BY <1>6, <4>1
        <5> QED BY <1>4, <4>1, <5>1, Zenon
      <4>2. CASE v # w
        <5>1. sockets'[v] = sockets[v]
          BY <1>6, <4>2
        <5> QED BY <5>1
      <4> QED BY <4>1, <4>2
    <3>2. sockets[v][j] \in Conns /\ pc[sockets[v][j]] \in {"open", "remove"}
          /\ owner[sockets[v][j]] = v
      BY <1>2, <1>7, <2>1, <3>1 DEF ReachInv, ListsLive, HubInv, Belongs
    <3>3. sockets'[v][i] # c
      <4>1. CASE v = w
        BY <1>3, <1>5, <1>6, <1>7, <2>1, <4>1 DEF Holds
      <4>2. CASE v # w
        BY <3>1, <3>2, <4>2
      <4> QED BY <4>1, <4>2
    <3> QED BY <1>6, <3>1, <3>2, <3>3
  <2> QED BY <2>1 DEF ListsLive
<1>9. CutIsSpare'
  BY <1>1, <1>7 DEF ReachInv, CutIsSpare, Spare
<1>10. OpenIsReachable'
  <2>1. ASSUME NEW d \in Conns, pc'[d] = "open", d \notin broken, UserOf[d] \notin mishap'
        PROVE  hub[UserOf[d]] = owner[d] /\ Holds(sockets'[owner[d]], d)
    <3>1. pc[d] = "open" /\ d \in Conns \ doomed
      BY <1>2, <1>6, <2>1 DEF doomed
    <3>2. hub[UserOf[d]] = owner[d] /\ Holds(sockets[owner[d]], d) /\ owner[d] \in Conns
          /\ UserOf[owner[d]] = UserOf[d]
      BY <1>7, <2>1, <3>1 DEF ReachInv, OpenIsReachable, InList, Holds, HubInv, Belongs
    <3>3. CASE owner[d] = w
      BY <1>3, <1>5, <1>6, <1>7, <2>1, <3>1, <3>2, <3>3
    <3>4. CASE owner[d] # w
      BY <1>6, <3>2, <3>4
    <3> QED BY <3>2, <3>3, <3>4
  <2> QED BY <1>1, <2>1 DEF OpenIsReachable, InList, Holds
<1>11. NoGhostUsers'
  <2>1. ASSUME NEW v \in Users \ mishap, hub[v] # None
        PROVE  \E d \in Conns : UserOf[d] = v /\ pc'[d] \notin {"new", "gone"}
    <3>1. PICK d \in Conns : UserOf[d] = v /\ pc[d] \notin {"new", "gone"}
      BY <2>1 DEF ReachInv, NoGhostUsers
    <3> QED BY <1>1, <1>6, <3>1
  <2> QED BY <1>1, <1>7, <2>1 DEF NoGhostUsers
<1> QED BY <1>8, <1>9, <1>10, <1>11 DEF ReachInv

\* Who leaves a list with others on it leaves an active connection behind.
LEMMA CheckEmptyReach ==
    ASSUME HubInv, ReachInv, NEW c \in Conns, CheckEmpty(c)
    PROVE  ReachInv'
<1> USE UserOfAssumption, NoneAssumption
<1> DEFINE w == owner[c]
<1>1. /\ pc[c] = "check"
      /\ pc' = [pc EXCEPT ![c] = IF sockets[w] = <<>> THEN "leave" ELSE "gone"]
      /\ UNCHANGED <<hub, sockets, nilled, broken, owner, ping, send, mishap>>
  BY DEF CheckEmpty
<1>2. /\ pc \in [Conns -> {"new", "adding", "open", "remove", "check", "leave", "gone"}]
      /\ owner \in [Conns -> Conns \cup {None}] /\ sockets \in [Conns -> Seq(Conns)]
      /\ hub \in [Users -> Conns \cup {None}]
  BY DEF HubInv, HubTypes, TypeOK
<1>3. w \in Conns /\ UserOf[w] = UserOf[c]
  BY <1>1 DEF HubInv, Belongs
<1>4. pc'[c] \in {"leave", "gone"} /\ (pc'[c] = "gone" => sockets[w] # <<>>)
      /\ \A d \in Conns \ {c} : pc'[d] = pc[d]
  BY <1>1, <1>2
<1>5. ListsLive'
  <2>1. \A v \in Conns : UserOf[v] \notin mishap => \A i \in 1 .. Len(sockets[v]) :
            sockets[v][i] \in Conns \ {c}
    <3>1. ASSUME NEW v \in Conns, UserOf[v] \notin mishap, NEW i \in 1 .. Len(sockets[v])
          PROVE  sockets[v][i] \in Conns \ {c}
      <4>1. sockets[v][i] \in Conns
        BY <1>2
      <4>2. pc[sockets[v][i]] \in {"open", "remove"}
        BY <3>1 DEF ReachInv, ListsLive
      <4> QED BY <1>1, <4>1, <4>2
    <3> QED BY <3>1
  <2> QED BY <1>1, <1>4, <2>1 DEF ReachInv, ListsLive
<1>6. CutIsSpare'
  BY <1>1 DEF ReachInv, CutIsSpare, Spare
<1>7. OpenIsReachable'
  BY <1>1, <1>4 DEF ReachInv, OpenIsReachable, InList
<1>8. NoGhostUsers'
  <2>1. ASSUME NEW v \in Users \ mishap, hub[v] # None
        PROVE  \E d \in Conns : UserOf[d] = v /\ pc'[d] \notin {"new", "gone"}
    <3>1. PICK d \in Conns : UserOf[d] = v /\ pc[d] \notin {"new", "gone"}
      BY <2>1 DEF ReachInv, NoGhostUsers
    <3>2. CASE d # c \/ pc'[d] = "leave"
      BY <1>4, <3>1, <3>2
    <3>3. CASE d = c /\ pc'[d] # "leave"
      <4>1. sockets[w] \in Seq(Conns) /\ sockets[w] # <<>>
        BY <1>2, <1>3, <1>4, <3>3
      <4> DEFINE e == sockets[w][1]
      <4>2. e \in Conns /\ 1 \in 1 .. Len(sockets[w])
        <5> DEFINE list == sockets[w]
        <5> HIDE DEF list
        <5>1. list \in Seq(Conns) /\ list # <<>>
          BY <4>1 DEF list
        <5>2. list[1] \in Conns /\ 1 \in 1 .. Len(list)
          BY <5>1
        <5> QED BY <5>2 DEF list
      <4>3. pc[e] \in {"open", "remove"} /\ owner[e] = w
        BY <1>3, <2>1, <3>1, <3>3, <4>2 DEF ReachInv, ListsLive, HubInv, Belongs
      <4>4. UserOf[w] = UserOf[e]
        BY <4>2, <4>3 DEF HubInv, Belongs
      <4>5. UserOf[e] = v /\ e # c
        BY <1>1, <1>3, <3>1, <3>3, <4>3, <4>4
      <4> QED BY <1>4, <4>2, <4>3, <4>5
    <3> QED BY <3>2, <3>3
  <2> QED BY <1>1, <2>1 DEF NoGhostUsers
<1> QED BY <1>5, <1>6, <1>7, <1>8 DEF ReachInv

\* The leaving user's list is empty, so nobody was reached through the entry that goes.
LEMMA RemoveUserReach ==
    ASSUME HubInv, ReachInv, NEW c \in Conns, RemoveUser(c)
    PROVE  ReachInv'
<1> USE UserOfAssumption, NoneAssumption
<1> DEFINE w == owner[c]
           u == UserOf[c]
<1>1. /\ pc[c] = "leave"
      /\ hub' = [hub EXCEPT ![u] = None] /\ pc' = [pc EXCEPT ![c] = "gone"]
      /\ mishap' = IF hub[u] \in {w, None} THEN mishap ELSE mishap \cup {u}
      /\ UNCHANGED <<sockets, nilled, broken, owner, ping, send>>
  BY DEF RemoveUser
<1>2. /\ pc \in [Conns -> {"new", "adding", "open", "remove", "check", "leave", "gone"}]
      /\ owner \in [Conns -> Conns \cup {None}] /\ sockets \in [Conns -> Seq(Conns)]
      /\ hub \in [Users -> Conns \cup {None}]
  BY DEF HubInv, HubTypes, TypeOK
<1>3. w \in Conns /\ sockets[w] = <<>> /\ u \in Users
  BY <1>1 DEF HubInv, Belongs, Locked
<1>4. /\ pc'[c] = "gone" /\ \A d \in Conns \ {c} : pc'[d] = pc[d]
      /\ hub'[u] = None /\ \A v \in Users \ {u} : hub'[v] = hub[v]
  BY <1>1, <1>2, <1>3
<1>5. mishap \subseteq mishap' /\ (u \notin mishap' => hub[u] \in {w, None})
  BY <1>1
<1>6. ListsLive'
  <2>1. ASSUME NEW v \in Conns, UserOf[v] \notin mishap', NEW i \in 1 .. Len(sockets[v])
        PROVE  pc'[sockets[v][i]] \in {"open", "remove"}
    <3>1. sockets[v][i] \in Conns /\ pc[sockets[v][i]] \in {"open", "remove"}
      BY <1>2, <1>5, <2>1 DEF ReachInv, ListsLive
    <3> QED BY <1>1, <1>4, <3>1
  <2> QED BY <1>1, <2>1 DEF ListsLive
<1>7. CutIsSpare'
  BY <1>1, <1>5 DEF ReachInv, CutIsSpare, Spare
<1>8. OpenIsReachable'
  <2>1. ASSUME NEW d \in Conns, pc'[d] = "open", d \notin broken, UserOf[d] \notin mishap'
        PROVE  hub'[UserOf[d]] = owner[d] /\ Holds(sockets[owner[d]], d)
    <3>1. pc[d] = "open"
      BY <1>4, <2>1
    <3>2. hub[UserOf[d]] = owner[d] /\ Holds(sockets[owner[d]], d) /\ owner[d] \in Conns
      BY <1>5, <2>1, <3>1 DEF ReachInv, OpenIsReachable, InList, Holds, HubInv, Belongs
    <3>3. UserOf[d] # u
      <4>1. SUFFICES ASSUME UserOf[d] = u PROVE FALSE
        OBVIOUS
      <4>2. owner[d] = w
        BY <1>5, <2>1, <3>2, <4>1
      <4>3. Len(sockets[w]) = 0
        BY <1>3
      <4> QED BY <3>2, <4>2, <4>3 DEF Holds
    <3> QED BY <1>4, <3>2, <3>3
  <2> QED BY <1>1, <2>1 DEF OpenIsReachable, InList, Holds
<1>9. NoGhostUsers'
  <2>1. ASSUME NEW v \in Users \ mishap', hub'[v] # None
        PROVE  \E d \in Conns : UserOf[d] = v /\ pc'[d] \notin {"new", "gone"}
    <3>1. v # u /\ hub[v] # None /\ v \notin mishap
      BY <1>4, <1>5, <2>1
    <3>2. PICK d \in Conns : UserOf[d] = v /\ pc[d] \notin {"new", "gone"}
      BY <3>1 DEF ReachInv, NoGhostUsers
    <3> QED BY <1>4, <3>1, <3>2
  <2> QED BY <2>1 DEF NoGhostUsers
<1> QED BY <1>6, <1>7, <1>8, <1>9 DEF ReachInv

\* The sweep of the ping goroutine keeps every live socket, and puts at the end of the
\* list what it is about to cut.
LEMMA PingSweepReach ==
    ASSUME HubInv, ReachInv, NEW w \in Conns, PingSweep(w)
    PROVE  ReachInv'
<1> USE UserOfAssumption, NoneAssumption
<1> DEFINE swept == Sweep(sockets[w], nilled)
           n == Len(sockets[w])
<1>1. /\ sockets' = [sockets EXCEPT ![w] = swept.list]
      /\ ping' = [ping EXCEPT !.at = IF swept.del > 0 THEN "truncate" ELSE "write",
                              !.todo = @ \ {w}, !.user = w, !.live = swept.live,
                              !.del = swept.del, !.seen = swept.list]
      /\ mishap' = IF SweepIsRisky(sockets[w], nilled)
                   THEN mishap \cup {UserOf[w]} ELSE mishap
      /\ UNCHANGED <<hub, userLock, nilled, broken, pc, owner, send>>
  BY DEF PingSweep, connVars
<1>2. /\ HubTypes
      /\ pc \in [Conns -> {"new", "adding", "open", "remove", "check", "leave", "gone"}]
      /\ owner \in [Conns -> Conns \cup {None}] /\ sockets \in [Conns -> Seq(Conns)]
      /\ hub \in [Users -> Conns \cup {None}] /\ nilled \subseteq broken
      /\ sockets[w] \in Seq(Conns) /\ n \in Nat
  BY DEF HubInv, HubTypes, TypeOK
<1>3. swept.list \in Seq(Conns) /\ Len(swept.list) = n
  BY <1>2, SweepShape
<1>4. \A i \in 1 .. n : \E j \in 1 .. n : swept.list[i] = sockets[w][j]
  <2> DEFINE list == sockets[w]
  <2>1. list \in Seq(Conns)
    BY <1>2
  <2> HIDE DEF list
  <2>2. \A i \in 1 .. Len(list) : \E j \in 1 .. Len(list) :
            Sweep(list, nilled).list[i] = list[j]
    BY <2>1, SweepShape
  <2> QED BY <2>2 DEF list
<1>5. ~SweepIsRisky(sockets[w], nilled) =>
        /\ \A c \in Conns \ nilled : Holds(sockets[w], c) => Holds(swept.list, c)
        /\ swept.del > 0 =>
              /\ swept.del = 1 /\ n > 0
              /\ \/ swept.list[n] \in nilled
                 \/ \E k \in 1 .. n - 1 : swept.list[n] = swept.list[k]
  <2> DEFINE list == sockets[w]
  <2>1. list \in Seq(Conns)
    BY <1>2
  <2> HIDE DEF list
  <2>2. ~SweepIsRisky(list, nilled) =>
        /\ \A c \in Conns \ nilled : Holds(list, c) => Holds(Sweep(list, nilled).list, c)
        /\ Sweep(list, nilled).del > 0 =>
              /\ Sweep(list, nilled).del = 1 /\ Len(list) > 0
              /\ \/ Sweep(list, nilled).list[Len(list)] \in nilled
                 \/ \E k \in 1 .. Len(list) - 1 :
                        Sweep(list, nilled).list[Len(list)] = Sweep(list, nilled).list[k]
    BY <2>1, SafeSweep
  <2> QED BY <2>2 DEF list
<1> HIDE DEF swept
<1>6. /\ ping'.at = (IF swept.del > 0 THEN "truncate" ELSE "write") /\ ping'.user = w
      /\ ping'.del = swept.del /\ ping'.seen = swept.list
  BY <1>1, <1>2 DEF HubTypes
<1>7. sockets'[w] = swept.list /\ \A v \in Conns \ {w} : sockets'[v] = sockets[v]
  BY <1>1, <1>2
<1>8. mishap \subseteq mishap' /\ (UserOf[w] \notin mishap' => ~SweepIsRisky(sockets[w], nilled))
  BY <1>1
<1>9. ListsLive'
  <2>1. ASSUME NEW v \in Conns, UserOf[v] \notin mishap', NEW i \in 1 .. Len(sockets'[v])
        PROVE  pc[sockets'[v][i]] \in {"open", "remove"}
    <3>1. PICK j \in 1 .. Len(sockets[v]) : sockets'[v][i] = sockets[v][j]
      <4>1. CASE v = w
        BY <1>3, <1>4, <1>7, <4>1
      <4>2. CASE v # w
        BY <1>7, <4>2
      <4> QED BY <4>1, <4>2
    <3> QED BY <1>8, <2>1, <3>1 DEF ReachInv, ListsLive
  <2> QED BY <1>1, <2>1 DEF ListsLive
<1>10. CutIsSpare'
  <2>1. ASSUME swept.del > 0, UserOf[w] \notin mishap'
        PROVE  swept.del = 1 /\ n > 0
               /\ \/ swept.list[n] \in nilled
                  \/ \E k \in 1 .. n - 1 : swept.list[k] = swept.list[n]
    BY <1>5, <1>8, <2>1
  <2>2. ASSUME ping'.at = "truncate", UserOf[ping'.user] \notin mishap'
        PROVE  ping'.del = 1 /\ Spare(ping.seen)'
    <3>1. swept.del > 0 /\ UserOf[w] \notin mishap'
      BY <1>6, <2>2
    <3>2. ping'.seen = swept.list /\ Len(ping'.seen) = n /\ nilled' = nilled
      BY <1>1, <1>3, <1>6
    <3>3. Spare(ping.seen)'
      <4> HIDE DEF n
      <4> QED BY <2>1, <3>1, <3>2 DEF Spare
    <3> QED BY <1>6, <2>1, <3>1, <3>3
  <2> QED BY <2>2 DEF CutIsSpare
<1>11. OpenIsReachable'
  <2>1. ASSUME NEW d \in Conns, pc[d] = "open", d \notin broken, UserOf[d] \notin mishap'
        PROVE  hub[UserOf[d]] = owner[d] /\ Holds(sockets'[owner[d]], d)
    <3>1. hub[UserOf[d]] = owner[d] /\ Holds(sockets[owner[d]], d) /\ owner[d] \in Conns
          /\ UserOf[owner[d]] = UserOf[d]
      BY <1>8, <2>1 DEF ReachInv, OpenIsReachable, InList, Holds, HubInv, Belongs
    <3>2. CASE owner[d] = w
      BY <1>2, <1>5, <1>7, <1>8, <2>1, <3>1, <3>2
    <3>3. CASE owner[d] # w
      BY <1>7, <3>1, <3>3
    <3> QED BY <3>1, <3>2, <3>3
  <2> QED BY <1>1, <2>1 DEF OpenIsReachable, InList, Holds
<1>12. NoGhostUsers'
  BY <1>1, <1>8 DEF ReachInv, NoGhostUsers
<1> QED BY <1>9, <1>10, <1>11, <1>12 DEF ReachInv

\* What the ping goroutine cuts off is dead or there twice, if the list is the one seen.
LEMMA PingTruncateReach ==
    ASSUME HubInv, ReachInv, PingTruncate
    PROVE  ReachInv'
<1> USE UserOfAssumption, NoneAssumption
<1> DEFINE w == ping.user
           n == Len(sockets[w])
<1>1. /\ ping.at = "truncate"
      /\ mishap' = IF sockets[w] = ping.seen THEN mishap ELSE mishap \cup {UserOf[w]}
      /\ UNCHANGED <<hub, userLock, nilled, broken, pc, owner, send>>
  BY DEF PingTruncate, connVars
<1>2. /\ HubTypes /\ w \in Conns /\ sockets \in [Conns -> Seq(Conns)] /\ ping.del \in Nat
      /\ nilled \subseteq broken /\ sockets[w] \in Seq(Conns) /\ n \in Nat
  BY <1>1 DEF HubInv, PingInHand, HubTypes, TypeOK
<1>3. mishap \subseteq mishap'
  BY <1>1
<1>4. UserOf[w] \notin mishap' =>
        /\ ping.del = 1 /\ n > 0
        /\ sockets[w][n] \in nilled \/ \E k \in 1 .. n - 1 : sockets[w][k] = sockets[w][n]
  BY <1>1 DEF ReachInv, CutIsSpare, Spare
<1>5. CASE ping.del <= n
  <2> DEFINE left == Truncated(sockets[w], ping.del)
  <2>1. /\ sockets' = [sockets EXCEPT ![w] = left]
        /\ ping' = [ping EXCEPT !.at = "write", !.del = 0, !.seen = <<>>]
    BY <1>5 DEF PingTruncate
  <2>2. /\ Len(left) = n - ping.del
        /\ \A i \in 1 .. n - ping.del : left[i] = sockets[w][i]
    <3>1. ping.del \in 0 .. Len(sockets[w])
      BY <1>2, <1>5
    <3> QED BY <1>2, <3>1, CutShape
  <2> HIDE DEF left
  <2>3. ping'.at = "write"
    BY <1>2, <2>1 DEF HubTypes
  <2>4. sockets'[w] = left /\ \A v \in Conns \ {w} : sockets'[v] = sockets[v]
    BY <1>2, <2>1
  <2>5. ListsLive'
    <3>1. ASSUME NEW v \in Conns, UserOf[v] \notin mishap', NEW i \in 1 .. Len(sockets'[v])
          PROVE  pc[sockets'[v][i]] \in {"open", "remove"}
      <4>1. i \in 1 .. Len(sockets[v]) /\ sockets'[v][i] = sockets[v][i]
        <5>1. CASE v = w
          <6> HIDE DEF w
          <6> QED BY <1>2, <2>2, <2>4, <5>1
        <5>2. CASE v # w
          BY <2>4, <5>2
        <5> QED BY <5>1, <5>2
      <4> QED BY <1>3, <3>1, <4>1 DEF ReachInv, ListsLive
    <3> QED BY <1>1, <3>1 DEF ListsLive
  <2>6. CutIsSpare'
    BY <2>3 DEF CutIsSpare
  <2>7. OpenIsReachable'
    <3>1. ASSUME NEW d \in Conns, pc[d] = "open", d \notin broken, UserOf[d] \notin mishap'
          PROVE  hub[UserOf[d]] = owner[d] /\ Holds(sockets'[owner[d]], d)
      <4>1. hub[UserOf[d]] = owner[d] /\ Holds(sockets[owner[d]], d) /\ owner[d] \in Conns
            /\ UserOf[owner[d]] = UserOf[d]
        BY <1>3, <3>1 DEF ReachInv, OpenIsReachable, InList, Holds, HubInv, Belongs
      <4>2. CASE owner[d] = w
        <5>1. PICK i \in 1 .. n : sockets[w][i] = d
          BY <4>1, <4>2 DEF Holds
        <5>2. /\ ping.del = 1
              /\ sockets[w][n] \in nilled \/ \E k \in 1 .. n - 1 : sockets[w][k] = sockets[w][n]
          BY <1>4, <3>1, <4>1, <4>2
        <5>3. \E k \in 1 .. n - 1 : sockets[w][k] = d
          <6>1. CASE i = n
            BY <1>2, <3>1, <5>1, <5>2, <6>1
          <6>2. CASE i # n
            <7>1. i \in 1 .. n - 1
              BY <1>2, <6>2
            <7> QED BY <5>1, <7>1
          <6> QED BY <6>1, <6>2
        <5>4. Len(left) = n - 1 /\ \E k \in 1 .. n - 1 : left[k] = d
          BY <2>2, <5>2, <5>3
        <5>5. Holds(left, d)
          BY <5>4 DEF Holds
        <5> QED BY <2>4, <4>1, <4>2, <5>5
      <4>3. CASE owner[d] # w
        BY <2>4, <4>1, <4>3
      <4> QED BY <4>1, <4>2, <4>3
    <3> QED BY <1>1, <3>1 DEF OpenIsReachable, InList, Holds
  <2>8. NoGhostUsers'
    BY <1>1, <1>3 DEF ReachInv, NoGhostUsers
  <2> QED BY <2>5, <2>6, <2>7, <2>8 DEF ReachInv
<1>6. CASE ~(ping.del <= n)
  <2>1. sockets' = sockets /\ ping' = [PingIdle EXCEPT !.at = "dead"]
    BY <1>6 DEF PingTruncate
  <2>2. ping'.at = "dead"
    BY <2>1 DEF PingIdle
  <2>3. ListsLive' /\ NoGhostUsers'
    BY <1>1, <1>3, <2>1 DEF ReachInv, ListsLive, NoGhostUsers
  <2>4. CutIsSpare'
    BY <2>2 DEF CutIsSpare
  <2>5. OpenIsReachable'
    BY <1>1, <1>3, <2>1 DEF ReachInv, OpenIsReachable, InList
  <2> QED BY <2>3, <2>4, <2>5 DEF ReachInv
<1> QED BY <1>5, <1>6

\* Every step keeps both invariants.
LEMMA ConnSteps ==
    ASSUME HubInv, ReachInv, NEW c \in Conns, Conn(c) \/ Break(c)
    PROVE  HubInv' /\ ReachInv'
<1>1. CASE AddConnNew(c)
  BY <1>1, AddConnNewHub, AddConnNewReach
<1>2. CASE AddConnFound(c)
  BY <1>2, AddConnFoundHub, AddConnFoundReach
<1>3. CASE AddSocket(c)
  BY <1>3, AddSocketHub, AddSocketReach
<1>4. CASE ReadError(c)
  BY <1>4, ReadErrorHub, ReadErrorReach
<1>5. CASE RemoveSocket(c)
  BY <1>5, RemoveSocketHub, RemoveSocketReach
<1>6. CASE CheckEmpty(c)
  BY <1>6, CheckEmptyHub, CheckEmptyReach
<1>7. CASE RemoveUser(c)
  BY <1>7, RemoveUserHub, RemoveUserReach
<1>8. CASE Break(c)
  <2>1. /\ broken \subseteq broken'
        /\ UNCHANGED <<hub, sockets, nilled, pc, owner, ping, mishap>>
    BY <1>8 DEF Break, connVars
  <2> QED BY <1>8, <2>1, BreakHub, QuietReach
<1> QED BY <1>1, <1>2, <1>3, <1>4, <1>5, <1>6, <1>7, <1>8 DEF Conn

\* The steps of the ping goroutine, one by one.
LEMMA PingSteps ==
    ASSUME HubInv, ReachInv, Ping
    PROVE  HubInv' /\ ReachInv'
<1>0. ping \in PingStates
  BY DEF HubInv, HubTypes, PingStates
<1>1. CASE PingRound
  <2>1. /\ ping' = [PingIdle EXCEPT !.at = "next", !.todo = {hub[u] : u \in Users} \ {None}]
        /\ UNCHANGED <<hub, sockets, nilled, broken, pc, owner, mishap>>
    BY <1>1 DEF PingRound, connVars
  <2>2. ping'.at = "next"
    BY <2>1 DEF PingIdle
  <2> QED BY <1>1, <2>1, <2>2, PingRoundHub, QuietReach
<1>2. CASE PingTruncate
  BY <1>2, PingTruncateHub, PingTruncateReach
<1>3. CASE PingNil
  <2>1. /\ nilled \subseteq nilled' /\ ping' = [ping EXCEPT !.at = "write", !.cur = None]
        /\ UNCHANGED <<hub, sockets, broken, pc, owner, mishap>>
    BY <1>3 DEF PingNil, connVars
  <2>2. ping'.at = "write"
    BY <1>0, <2>1 DEF PingStates
  <2> QED BY <1>3, <2>1, <2>2, PingNilHub, QuietReach
<1>4. CASE PingUserDone
  <2>1. /\ ping' = [ping EXCEPT !.at = "next", !.user = None]
        /\ UNCHANGED <<hub, sockets, nilled, broken, pc, owner, mishap>>
    BY <1>4 DEF PingUserDone, connVars
  <2>2. ping'.at = "next"
    BY <1>0, <2>1 DEF PingStates
  <2> QED BY <1>4, <2>1, <2>2, PingUserDoneHub, QuietReach
<1>5. CASE PingDone
  <2>1. ping' = PingIdle /\ UNCHANGED <<hub, sockets, nilled, broken, pc, owner, mishap>>
    BY <1>5 DEF PingDone, connVars
  <2>2. ping'.at = "wait"
    BY <2>1 DEF PingIdle
  <2> QED BY <1>5, <2>1, <2>2, PingDoneHub, QuietReach
<1>6. ASSUME NEW w \in Conns, PingSweep(w) PROVE HubInv' /\ ReachInv'
  BY <1>6, PingSweepHub, PingSweepReach
<1>7. ASSUME NEW s \in Conns, PingWrite(s) PROVE HubInv' /\ ReachInv'
  <2>1. /\ ping.at = "write" /\ UNCHANGED <<hub, sockets, nilled, broken, pc, owner, mishap>>
        /\ \/ ping' = [ping EXCEPT !.at = "nil", !.live = @ \ {s}, !.cur = s]
           \/ ping' = [ping EXCEPT !.live = @ \ {s}]
    BY <1>7 DEF PingWrite, connVars
  <2>2. ping'.at # "truncate"
    BY <1>0, <2>1 DEF PingStates
  <2> QED BY <1>7, <2>1, <2>2, PingWriteHub, QuietReach
<1> QED BY <1>1, <1>2, <1>3, <1>4, <1>5, <1>6, <1>7 DEF Ping

\* The two invariants of the hub are inductive together.
LEMMA NextHub ==
    ASSUME HubInv, ReachInv, [Next]_vars
    PROVE  HubInv' /\ ReachInv'
<1>1. ASSUME NEW c \in Conns, Conn(c) \/ Break(c) PROVE HubInv' /\ ReachInv'
  BY <1>1, ConnSteps
<1>2. CASE Ping
  BY <1>2, PingSteps
<1>3. CASE (\E u \in Users : PushAlert(u)) \/ SendWrite \/ SendDone
  <2>1. UNCHANGED <<hub, sockets, nilled, broken, pc, owner, ping, mishap>>
    BY <1>3 DEF PushAlert, SendWrite, SendDone, connVars
  <2> QED BY <1>3, <2>1, SendHub, QuietReach
<1>4. CASE UNCHANGED vars
  <2>1. UNCHANGED <<hub, userLock, sockets, nilled, broken, pc, owner, ping, send, mishap>>
    BY <1>4 DEF vars, connVars
  <2>2. HubTypes'
    BY <2>1 DEF HubInv, HubTypes, TypeOK
  <2>3. HubInv'
    BY <2>1, <2>2 DEF HubInv, PingInHand, Belongs, Locked
  <2> QED BY <2>1, <2>3, QuietReach
<1> QED BY <1>1, <1>2, <1>3, <1>4 DEF Next

\* The records of the hub stay well-typed.
THEOREM HubTypesHold == Spec => []TypeOK
<1>1. HubInv => TypeOK
  BY DEF HubInv, HubTypes
<1> QED BY <1>1, InitHub, NextHub, PTL DEF Spec

\* An open connection with a live peer is found through the hub, whatever the number of
\* users, connections and pings, unless its user met one of the four steps that lose some.
THEOREM OpenStaysReachable == Spec => []OpenIsReachable
<1>1. ReachInv => OpenIsReachable
  BY DEF ReachInv
<1> QED BY <1>1, InitHub, NextHub, PTL DEF Spec

\* Nobody stays online once all his connections have ended, under the same condition.
THEOREM NobodyHaunts == Spec => []NoGhostUsers
<1>1. ReachInv => NoGhostUsers
  BY DEF ReachInv
<1> QED BY <1>1, InitHub, NextHub, PTL DEF Spec

\* A step of the pages is a step of the hub, or leaves it alone.
LEMMA PagesStepsTheHub ==
    ASSUME [PagesNext]_allVars
    PROVE  [Next]_vars
<1>1. CASE HubStep
  BY <1>1 DEF HubStep, Next, Conn
<1>2. ASSUME NEW c \in Conns, EndLoop(c) PROVE [Next]_vars
  BY <1>2 DEF EndLoop, Next, Conn
<1>3. ASSUME NEW c \in Conns, Loop(c) \/ \E p \in Visits[c] : Ask(c, p) PROVE UNCHANGED vars
  BY <1>3 DEF Loop, Ask, Leave, Reset, Refuse, Watch, WatchPanel, SetPage
<1>4. CASE \/ TickerWrite \/ TickerEnds \/ TickCopy \/ (\E w \in Conns : TickWrite(w))
           \/ TickForget \/ TickDone
  BY <1>4 DEF TickerWrite, TickerEnds, TickCopy, TickWrite, TickForget, TickDone
<1>5. CASE TickerSkip \/ UNCHANGED allVars
  BY <1>5 DEF TickerSkip, allVars
<1> QED BY <1>1, <1>2, <1>3, <1>4, <1>5 DEF PagesNext

\* The pages are added to the hub without changing what it does, so that all that is
\* proved of the hub holds with them.
THEOREM PagesImplementHub == PagesSpec => Spec
<1>1. [PagesNext]_allVars => [Next]_vars
  BY PagesStepsTheHub
<1> QED BY <1>1, PTL DEF PagesSpec, Spec

-----------------------------------------------------------------------------
(* The pages.                                                              *)

PageTypes ==
    /\ PagesTypeOK
    /\ tick \in [at : {"wait", "next", "missed"}, todo : SUBSET Conns, user : Conns \cup {None}]
    /\ tick.at = "missed" => tick.user \in Conns

\* A read loop that is between two pages is that of an open connection, and one that
\* has not begun is on no page.
LoopsAreOpen ==
    \A c \in Conns :
        /\ at[c] # "read" => pc[c] = "open"
        /\ pc[c] \in {"new", "adding"} => page[c] = NoPage

\* A user one of whose sockets is about to get its Page is watched already.
EnteringIsWatched ==
    \A c \in Conns : (at[c] = "set" /\ current[c] \in Watchable)
        => \/ owner[c] \in watchers[WatchKey(current[c])]
           \/ <<owner[c], WatchKey(current[c])>> \in cut

\* A socket in its user's list, where a push would find it, has its user among the
\* watchers of its page.
ListedPageIsWatched ==
    \A c \in Conns : (pc[c] = "open" /\ page[c] \in Watchable /\ InList(c, owner[c]))
        => owner[c] \in watchers[WatchKey(page[c])] \/ <<owner[c], WatchKey(page[c])>> \in cut

PagesInv == PageTypes /\ LoopsAreOpen /\ EnteringIsWatched /\ ListedPageIsWatched

\* The watchers of a page are kept under the list or under a topic ID.
LEMMA WatchKeyType == \A p \in Watchable : WatchKey(p) \in WatchKeys
  BY PagesAssumption DEF Watchable, WatchKeys, WatchKey

\* At the start every connection is on no page.
LEMMA InitPages == Init /\ PagesInit => PagesInv
<1> SUFFICES ASSUME Init, PagesInit PROVE PagesInv
  OBVIOUS
<1> USE PagesAssumption
<1>1. /\ tick = [at |-> "wait", todo |-> {}, user |-> None]
      /\ tickers = 0 /\ cut = {} /\ failed = {}
  BY DEF PagesInit, TickIdle
<1>2. NoPage \in Pages /\ NoPage \notin Watchable
  BY DEF Pages, Watchable
<1>3. PageTypes
  BY <1>1, <1>2 DEF PagesInit, PageTypes, PagesTypeOK
<1>4. \A c \in Conns : page[c] = NoPage /\ at[c] = "read"
  BY DEF PagesInit
<1> QED BY <1>2, <1>3, <1>4 DEF PagesInv, LoopsAreOpen, EnteringIsWatched, ListedPageIsWatched

\* A list gains nothing in a step of the hub but the socket of the connection that
\* steps, which is on no page.
LEMMA ListsGainNothing ==
    ASSUME HubInv, HubStep, NEW c \in Conns, NEW w \in Conns, Holds(sockets'[w], c)
    PROVE  Holds(sockets[w], c) \/ pc[c] \in {"new", "adding"}
<1>1. sockets \in [Conns -> Seq(Conns)] /\ owner \in [Conns -> Conns \cup {None}]
  BY DEF HubInv, HubTypes, TypeOK
<1>2. CASE sockets' = sockets
  BY <1>2
<1>3. ASSUME NEW d \in Conns, AddConnNew(d)
      PROVE  Holds(sockets[w], c) \/ pc[c] \in {"new", "adding"}
  <2>1. pc[d] = "new" /\ sockets' = [sockets EXCEPT ![d] = <<d>>]
    BY <1>3 DEF AddConnNew
  <2>2. CASE w = d
    <3>1. sockets'[w] = <<d>>
      BY <1>1, <2>1, <2>2
    <3>2. c = d
      BY <3>1 DEF Holds
    <3> QED BY <2>1, <3>2
  <2>3. CASE w # d
    BY <1>1, <2>1, <2>3
  <2> QED BY <2>2, <2>3
<1>4. ASSUME NEW d \in Conns, AddSocket(d)
      PROVE  Holds(sockets[w], c) \/ pc[c] \in {"new", "adding"}
  <2>1. pc[d] = "adding" /\ sockets' = [sockets EXCEPT ![owner[d]] = Append(@, d)]
    BY <1>4 DEF AddSocket
  <2>2. CASE w = owner[d]
    <3>1. sockets'[w] = Append(sockets[w], d)
      BY <1>1, <2>1, <2>2
    <3>2. PICK i \in 1 .. Len(sockets'[w]) : sockets'[w][i] = c
      BY DEF Holds
    <3> DEFINE list == sockets[w]
    <3>3. list \in Seq(Conns) /\ Append(list, d)[i] = c /\ i \in 1 .. Len(Append(list, d))
      BY <1>1, <3>1, <3>2
    <3> HIDE DEF list
    <3>4. Len(Append(list, d)) = Len(list) + 1
          /\ \A j \in 1 .. Len(list) + 1 :
                Append(list, d)[j] = IF j = Len(list) + 1 THEN d ELSE list[j]
      BY <3>3
    <3>5. CASE i = Len(list) + 1
      BY <2>1, <3>3, <3>4, <3>5
    <3>6. CASE i # Len(list) + 1
      <4>1. i \in 1 .. Len(list) /\ list[i] = c
        BY <3>3, <3>4, <3>6
      <4> QED BY <4>1 DEF Holds, list
    <3> QED BY <3>5, <3>6
  <2>3. CASE w # owner[d]
    BY <1>1, <2>1, <2>3
  <2> QED BY <2>2, <2>3
<1>5. ASSUME NEW d \in Conns, RemoveSocket(d)
      PROVE  Holds(sockets[w], c)
  <2> DEFINE list == sockets[owner[d]]
             doomed == nilled \cup {d}
             left == Truncated(Sweep(list, doomed).list, Sweep(list, doomed).del)
  <2>1. sockets' = [sockets EXCEPT ![owner[d]] = left] /\ pc[d] = "remove"
    BY <1>5 DEF RemoveSocket
  <2>2. owner[d] \in Conns /\ list \in Seq(Conns)
    BY <1>1, <2>1 DEF HubInv, Belongs
  <2> HIDE DEF list, doomed
  <2>3. \A i \in 1 .. Len(left) : \E j \in 1 .. Len(list) : left[i] = list[j]
    BY <2>2, CutSweep
  <2> HIDE DEF left
  <2>4. CASE w = owner[d]
    <3>1. sockets'[w] = left
      BY <1>1, <2>1, <2>4
    <3> QED BY <2>3, <2>4, <3>1 DEF Holds, list
  <2>5. CASE w # owner[d]
    BY <1>1, <2>1, <2>5
  <2> QED BY <2>4, <2>5
<1>6. ASSUME NEW v \in Conns, PingSweep(v)
      PROVE  Holds(sockets[w], c)
  <2> DEFINE list == sockets[v]
             swept == Sweep(list, nilled).list
  <2>1. sockets' = [sockets EXCEPT ![v] = swept]
    BY <1>6 DEF PingSweep
  <2>2. list \in Seq(Conns)
    BY <1>1
  <2> HIDE DEF list
  <2>3. Len(swept) = Len(list)
    BY <2>2, SweepShape
  <2>4. \A i \in 1 .. Len(list) : \E j \in 1 .. Len(list) : swept[i] = list[j]
    BY <2>2, SweepShape
  <2> HIDE DEF swept
  <2>5. CASE w = v
    <3>1. sockets'[w] = swept
      BY <1>1, <2>1, <2>5
    <3> QED BY <2>3, <2>4, <2>5, <3>1 DEF Holds, list
  <2>6. CASE w # v
    BY <1>1, <2>1, <2>6
  <2> QED BY <2>5, <2>6
<1>7. ASSUME PingTruncate
      PROVE  Holds(sockets[w], c)
  <2> DEFINE v == ping.user
             list == sockets[v]
  <2>1. v \in Conns /\ list \in Seq(Conns) /\ ping.del \in Nat
    BY <1>1, <1>7 DEF PingTruncate, HubInv, PingInHand, HubTypes
  <2>2. CASE ping.del <= Len(list)
    <3> DEFINE left == Truncated(list, ping.del)
    <3>1. sockets' = [sockets EXCEPT ![v] = left]
      BY <1>7, <2>2 DEF PingTruncate
    <3> HIDE DEF list
    <3>2. ping.del \in 0 .. Len(list)
      BY <2>1, <2>2
    <3>3. /\ Len(left) = Len(list) - ping.del
          /\ \A i \in 1 .. Len(list) - ping.del : left[i] = list[i]
      BY <2>1, <3>2, CutShape
    <3> HIDE DEF left
    <3>4. CASE w = v
      <4>1. sockets'[w] = left
        BY <1>1, <2>1, <3>1, <3>4
      <4>2. PICK i \in 1 .. Len(left) : left[i] = c
        BY <4>1 DEF Holds
      <4>3. i \in 1 .. Len(list) /\ list[i] = c
        BY <2>1, <3>2, <3>3, <4>2
      <4> QED BY <3>4, <4>3 DEF Holds, list
    <3>5. CASE w # v
      BY <1>1, <3>1, <3>5
    <3> QED BY <3>4, <3>5
  <2>3. CASE ~(ping.del <= Len(list))
    BY <1>7, <2>3 DEF PingTruncate
  <2> QED BY <2>2, <2>3
<1>8. ASSUME NEW d \in Conns,
             AddConnFound(d) \/ CheckEmpty(d) \/ RemoveUser(d) \/ Break(d) \/ PingWrite(d)
      PROVE  sockets' = sockets
  BY <1>8 DEF AddConnFound, CheckEmpty, RemoveUser, Break, PingWrite
<1>9. CASE PingRound \/ PingNil \/ PingUserDone \/ PingDone
  BY <1>9 DEF PingRound, PingNil, PingUserDone, PingDone
<1> QED BY <1>2, <1>3, <1>4, <1>5, <1>6, <1>7, <1>8, <1>9 DEF HubStep, Ping

\* A step of the hub opens no connection but one that is on no page, closes none, and
\* leaves the owner of a socket that has one.
LEMMA HubStepOpens ==
    ASSUME HubInv, HubStep, NEW c \in Conns
    PROVE  /\ pc'[c] = "open" => pc[c] \in {"open", "new", "adding"}
           /\ pc[c] = "open" => pc'[c] = "open"
           /\ pc'[c] \in {"new", "adding"} => pc[c] \in {"new", "adding"}
           /\ pc[c] # "new" => owner'[c] = owner[c]
<1> DEFINE Goal == /\ pc'[c] = "open" => pc[c] \in {"open", "new", "adding"}
                   /\ pc[c] = "open" => pc'[c] = "open"
                   /\ pc'[c] \in {"new", "adding"} => pc[c] \in {"new", "adding"}
                   /\ pc[c] # "new" => owner'[c] = owner[c]
<1> SUFFICES Goal
  OBVIOUS
<1>1. /\ pc \in [Conns -> {"new", "adding", "open", "remove", "check", "leave", "gone"}]
      /\ owner \in [Conns -> Conns \cup {None}]
  BY DEF HubInv, HubTypes, TypeOK
<1>2. CASE UNCHANGED <<pc, owner>>
  BY <1>2
<1>3. ASSUME NEW d \in Conns, NEW l \in {"open", "adding"}, NEW w, pc[d] = "new",
             pc' = [pc EXCEPT ![d] = l], owner' = [owner EXCEPT ![d] = w]
      PROVE  Goal
  BY <1>1, <1>3
<1>4. ASSUME NEW d \in Conns, pc[d] = "adding", pc' = [pc EXCEPT ![d] = "open"],
             UNCHANGED owner
      PROVE  Goal
  BY <1>1, <1>4
<1>5. ASSUME NEW d \in Conns, NEW l \in {"check", "leave", "gone"},
             pc[d] \in {"remove", "check", "leave"}, pc' = [pc EXCEPT ![d] = l],
             UNCHANGED owner
      PROVE  Goal
  BY <1>1, <1>5
<1> HIDE DEF Goal
<1>6. ASSUME NEW d \in Conns, AddConnNew(d) PROVE Goal
  <2>1. pc[d] = "new" /\ pc' = [pc EXCEPT ![d] = "open"] /\ owner' = [owner EXCEPT ![d] = d]
    BY <1>6 DEF AddConnNew
  <2> QED BY <1>3, <2>1
<1>7. ASSUME NEW d \in Conns, AddConnFound(d) PROVE Goal
  <2>1. pc[d] = "new" /\ pc' = [pc EXCEPT ![d] = "adding"]
        /\ owner' = [owner EXCEPT ![d] = hub[UserOf[d]]]
    BY <1>7 DEF AddConnFound
  <2> QED BY <1>3, <2>1
<1>8. ASSUME NEW d \in Conns, AddSocket(d) PROVE Goal
  BY <1>4, <1>8 DEF AddSocket
<1>9. ASSUME NEW d \in Conns, RemoveSocket(d) PROVE Goal
  <2>1. pc[d] = "remove" /\ pc' = [pc EXCEPT ![d] = "check"] /\ UNCHANGED owner
    BY <1>9 DEF RemoveSocket
  <2> QED BY <1>5, <2>1
<1>10. ASSUME NEW d \in Conns, CheckEmpty(d) PROVE Goal
  <2>1. pc[d] = "check" /\ UNCHANGED owner
        /\ (pc' = [pc EXCEPT ![d] = "leave"] \/ pc' = [pc EXCEPT ![d] = "gone"])
    BY <1>10 DEF CheckEmpty
  <2> QED BY <1>5, <2>1
<1>11. ASSUME NEW d \in Conns, RemoveUser(d) PROVE Goal
  <2>1. pc[d] = "leave" /\ pc' = [pc EXCEPT ![d] = "gone"] /\ UNCHANGED owner
    BY <1>11 DEF RemoveUser
  <2> QED BY <1>5, <2>1
<1>12. ASSUME NEW d \in Conns, Break(d) PROVE Goal
  BY <1>2, <1>12 DEF Break, connVars
<1>13. CASE Ping
  <2>1. UNCHANGED <<pc, owner>>
    BY <1>13 DEF Ping, PingRound, PingTruncate, PingNil, PingUserDone, PingDone, PingSweep,
                 PingWrite, connVars
  <2> QED BY <1>2, <2>1
<1> QED BY <1>6, <1>7, <1>8, <1>9, <1>10, <1>11, <1>12, <1>13 DEF HubStep

\* A step of the hub, or a read error between two messages, keeps the pages in order.
LEMMA HubStepPages ==
    ASSUME HubInv, PagesInv, HubStep
    PROVE  PagesInv'
<1>1. UNCHANGED <<page, at, current, want, watchers, panel, failed, tickers, tick, cut>>
  BY DEF HubStep, pageVars
<1>2. \A c \in Conns : /\ pc'[c] = "open" => pc[c] \in {"open", "new", "adding"}
                       /\ pc[c] = "open" => pc'[c] = "open"
                       /\ pc'[c] \in {"new", "adding"} => pc[c] \in {"new", "adding"}
                       /\ pc[c] # "new" => owner'[c] = owner[c]
  BY HubStepOpens
<1>3. PageTypes'
  BY <1>1 DEF PagesInv, PageTypes, PagesTypeOK
<1>4. LoopsAreOpen'
  BY <1>1, <1>2 DEF PagesInv, LoopsAreOpen
<1>5. EnteringIsWatched'
  <2>1. \A c \in Conns : at[c] = "set" => pc[c] = "open"
    BY DEF PagesInv, LoopsAreOpen
  <2> QED BY <1>1, <1>2, <2>1 DEF PagesInv, EnteringIsWatched
<1>6. ListedPageIsWatched'
  <2> SUFFICES ASSUME NEW c \in Conns, pc'[c] = "open", page[c] \in Watchable,
                      Holds(sockets'[owner'[c]], c)
               PROVE  \/ owner'[c] \in watchers[WatchKey(page[c])]
                      \/ <<owner'[c], WatchKey(page[c])>> \in cut
    BY <1>1 DEF ListedPageIsWatched, InList, Holds
  <2>1. page[c] # NoPage
    BY PagesAssumption DEF Watchable
  <2>2. pc[c] = "open" /\ owner'[c] = owner[c]
    BY <1>2, <2>1 DEF PagesInv, LoopsAreOpen
  <2>3. owner[c] \in Conns
    BY <2>2 DEF HubInv, Belongs
  <2>4. Holds(sockets[owner[c]], c)
    BY <2>2, <2>3, ListsGainNothing
  <2> QED BY <2>2, <2>4 DEF PagesInv, ListedPageIsWatched, InList, Holds
<1> QED BY <1>3, <1>4, <1>5, <1>6 DEF PagesInv

\* A read loop that ends forgets its page and leaves the watchers.
LEMMA EndLoopPages ==
    ASSUME HubInv, PagesInv, NEW c \in Conns, EndLoop(c)
    PROVE  PagesInv'
<1>1. /\ at[c] = "read" /\ pc[c] = "open" /\ pc' = [pc EXCEPT ![c] = "remove"]
      /\ current' = [current EXCEPT ![c] = NoPage]
      /\ UNCHANGED <<owner, sockets, page, at, want, watchers, panel, failed, tickers, tick, cut>>
  BY DEF EndLoop, ReadError
<1>2. pc \in [Conns -> {"new", "adding", "open", "remove", "check", "leave", "gone"}]
      /\ current \in [Conns -> Pages] /\ NoPage \in Pages
  BY DEF HubInv, HubTypes, TypeOK, PagesInv, PageTypes, PagesTypeOK, Pages
<1>3. /\ pc'[c] = "remove" /\ \A d \in Conns \ {c} : pc'[d] = pc[d] /\ current'[d] = current[d]
      /\ current' \in [Conns -> Pages]
  BY <1>1, <1>2
<1>4. PageTypes'
  BY <1>1, <1>3 DEF PagesInv, PageTypes, PagesTypeOK
<1>5. LoopsAreOpen'
  BY <1>1, <1>3 DEF PagesInv, LoopsAreOpen
<1>6. EnteringIsWatched'
  BY <1>1, <1>3 DEF PagesInv, EnteringIsWatched
<1>7. ListedPageIsWatched'
  BY <1>1, <1>3 DEF PagesInv, ListedPageIsWatched, InList
<1> QED BY <1>4, <1>5, <1>6, <1>7 DEF PagesInv

\* Taking a user off a page none of his sockets is on leaves nobody unwatched who is not
\* noted as cut.
LEMMA FinalizeKeepsWatch ==
    ASSUME PageTypes, EnteringIsWatched, ListedPageIsWatched,
           NEW w \in Conns, NEW p \in Watchable, FinalizePage(w, p)
    PROVE  /\ watchers' \in [WatchKeys -> SUBSET Conns]
           /\ cut' \subseteq Conns \X WatchKeys
           /\ \A c \in Conns : (at[c] = "set" /\ current[c] \in Watchable)
                 => \/ owner[c] \in watchers'[WatchKey(current[c])]
                    \/ <<owner[c], WatchKey(current[c])>> \in cut'
           /\ \A c \in Conns :
                 (pc[c] = "open" /\ page[c] \in Watchable /\ InList(c, owner[c]))
                     => \/ owner[c] \in watchers'[WatchKey(page[c])]
                        \/ <<owner[c], WatchKey(page[c])>> \in cut'
<1>1. watchers \in [WatchKeys -> SUBSET Conns] /\ cut \subseteq Conns \X WatchKeys
  BY DEF PageTypes, PagesTypeOK
<1> DEFINE k == WatchKey(p)
<1>0. \A q \in Watchable : WatchKey(q) \in WatchKeys
  BY WatchKeyType
<1>2. CASE OnPage(w, p)
  <2>1. UNCHANGED <<watchers, cut>>
    BY <1>2 DEF FinalizePage
  <2> QED BY <1>1, <2>1 DEF EnteringIsWatched, ListedPageIsWatched
<1>3. CASE ~OnPage(w, p)
  <2>1. /\ watchers' = [watchers EXCEPT ![k] = @ \ {w}]
        /\ cut' = IF w \in watchers[k] /\ CountsOn(w, k) THEN cut \cup {<<w, k>>} ELSE cut
    BY <1>3 DEF FinalizePage
  <2>2. watchers' \in [WatchKeys -> SUBSET Conns] /\ cut \subseteq cut'
        /\ cut' \subseteq Conns \X WatchKeys
    BY <1>0, <1>1, <2>1
  <2>3. \A v \in Conns, q \in WatchKeys : v \in watchers[q] =>
           v \in watchers'[q] \/ (v = w /\ q = k)
    BY <1>0, <1>1, <2>1
  <2>4. ASSUME NEW v, NEW q \in Watchable, OnPage(v, q) \/ Entering(v, q),
               v \in watchers[WatchKey(q)] \/ <<v, WatchKey(q)>> \in cut
        PROVE  v \in watchers'[WatchKey(q)] \/ <<v, WatchKey(q)>> \in cut'
    <3>1. CASE <<v, WatchKey(q)>> \in cut
      BY <2>2, <3>1
    <3>2. CASE v \in watchers[WatchKey(q)] /\ ~(v = w /\ WatchKey(q) = k)
      <4>1. v \in Conns /\ WatchKey(q) \in WatchKeys
        BY <1>0, <1>1, <3>2
      <4> QED BY <2>3, <3>2, <4>1
    <3>3. CASE v \in watchers[WatchKey(q)] /\ v = w /\ WatchKey(q) = k
      <4>1. w \in watchers[k] /\ CountsOn(w, k)
        BY <2>4, <3>3 DEF CountsOn
      <4> QED BY <2>1, <3>3, <4>1
    <3> QED BY <2>4, <3>1, <3>2, <3>3
  <2>5. ASSUME NEW c \in Conns, at[c] = "set", current[c] \in Watchable
        PROVE  \/ owner[c] \in watchers'[WatchKey(current[c])]
               \/ <<owner[c], WatchKey(current[c])>> \in cut'
    <3>1. Entering(owner[c], current[c])
      BY <2>5 DEF Entering
    <3> QED BY <2>4, <2>5, <3>1 DEF EnteringIsWatched
  <2>6. ASSUME NEW c \in Conns, pc[c] = "open", page[c] \in Watchable, InList(c, owner[c])
        PROVE  \/ owner[c] \in watchers'[WatchKey(page[c])]
               \/ <<owner[c], WatchKey(page[c])>> \in cut'
    <3>1. OnPage(owner[c], page[c])
      BY <2>6 DEF InList, OnPage
    <3> QED BY <2>4, <2>6, <3>1 DEF ListedPageIsWatched
  <2> QED BY <2>2, <2>5, <2>6
<1> QED BY <1>2, <1>3

\* Asking for a page moves the read loop only.
LEMMA AskPages ==
    ASSUME HubInv, PagesInv, NEW c \in Conns, NEW p \in Visits[c], Ask(c, p)
    PROVE  PagesInv'
<1>1. /\ pc[c] = "open" /\ at' = [at EXCEPT ![c] = "leave"] /\ want' = [want EXCEPT ![c] = p]
      /\ UNCHANGED <<pc, owner, sockets, page, current, watchers, panel, failed, tickers,
                     tick, cut>>
  BY DEF Ask, vars, connVars
<1>2. p \in Pages /\ at \in [Conns -> {"read", "leave", "reset", "enter", "set"}]
      /\ want \in [Conns -> Pages]
  BY PagesAssumption DEF PagesInv, PageTypes, PagesTypeOK
<1>3. /\ at' \in [Conns -> {"read", "leave", "reset", "enter", "set"}]
      /\ want' \in [Conns -> Pages]
      /\ at'[c] = "leave" /\ \A d \in Conns \ {c} : at'[d] = at[d]
  BY <1>1, <1>2
<1>4. PageTypes'
  BY <1>1, <1>3 DEF PagesInv, PageTypes, PagesTypeOK
<1>5. LoopsAreOpen' /\ EnteringIsWatched'
  BY <1>1, <1>3 DEF PagesInv, LoopsAreOpen, EnteringIsWatched
<1>6. ListedPageIsWatched'
  BY <1>1 DEF PagesInv, ListedPageIsWatched, InList
<1> QED BY <1>4, <1>5, <1>6 DEF PagesInv

\* Leaving a page may take the user off its watchers, as FinalizePage does.
LEMMA LeavePages ==
    ASSUME HubInv, PagesInv, NEW c \in Conns, Leave(c)
    PROVE  PagesInv'
<1> DEFINE p == current[c]
           w == owner[c]
<1>1. /\ at[c] = "leave" /\ at' = [at EXCEPT ![c] = "reset"]
      /\ IF p \in Watchable THEN FinalizePage(w, p) ELSE UNCHANGED <<watchers, cut>>
      /\ panel' = IF p = PanelPage THEN panel \ {c} ELSE panel
      /\ UNCHANGED <<pc, owner, sockets, page, current, want, failed, tickers, tick>>
  BY DEF Leave, vars, connVars
<1>2. at \in [Conns -> {"read", "leave", "reset", "enter", "set"}]
      /\ panel \subseteq Conns /\ pc[c] = "open" /\ w \in Conns
  BY <1>1 DEF PagesInv, PageTypes, PagesTypeOK, LoopsAreOpen, HubInv, Belongs
<1>3. /\ at' \in [Conns -> {"read", "leave", "reset", "enter", "set"}] /\ panel' \subseteq Conns
      /\ at'[c] = "reset" /\ \A d \in Conns \ {c} : at'[d] = at[d]
  BY <1>1, <1>2
<1>4. /\ watchers' \in [WatchKeys -> SUBSET Conns]
      /\ cut' \subseteq Conns \X WatchKeys
      /\ \A d \in Conns : (at[d] = "set" /\ current[d] \in Watchable)
            => \/ owner[d] \in watchers'[WatchKey(current[d])]
               \/ <<owner[d], WatchKey(current[d])>> \in cut'
      /\ \A d \in Conns :
            (pc[d] = "open" /\ page[d] \in Watchable /\ InList(d, owner[d]))
                => \/ owner[d] \in watchers'[WatchKey(page[d])]
                   \/ <<owner[d], WatchKey(page[d])>> \in cut'
  <2>1. CASE p \in Watchable
    <3>1. FinalizePage(w, p)
      BY <1>1, <2>1
    <3> QED BY <1>2, <2>1, <3>1, FinalizeKeepsWatch DEF PagesInv
  <2>2. CASE p \notin Watchable
    BY <1>1, <2>2 DEF PagesInv, PageTypes, PagesTypeOK, EnteringIsWatched, ListedPageIsWatched
  <2> QED BY <2>1, <2>2
<1>5. PageTypes'
  BY <1>1, <1>3, <1>4 DEF PagesInv, PageTypes, PagesTypeOK
<1>6. LoopsAreOpen'
  BY <1>1, <1>2, <1>3 DEF PagesInv, LoopsAreOpen
<1>7. EnteringIsWatched'
  BY <1>1, <1>3, <1>4 DEF EnteringIsWatched
<1>8. ListedPageIsWatched'
  BY <1>1, <1>4 DEF ListedPageIsWatched, InList
<1> QED BY <1>5, <1>6, <1>7, <1>8 DEF PagesInv

\* A socket that has left is on no page.
LEMMA ResetPages ==
    ASSUME HubInv, PagesInv, NEW c \in Conns, Reset(c)
    PROVE  PagesInv'
<1>1. /\ at[c] = "reset" /\ page' \in {page, [page EXCEPT ![c] = NoPage]}
      /\ current' = [current EXCEPT ![c] = want[c]] /\ want' = [want EXCEPT ![c] = NoPage]
      /\ at' = [at EXCEPT ![c] = IF want[c] = NoPage THEN "read" ELSE "enter"]
      /\ UNCHANGED <<pc, owner, sockets, watchers, panel, failed, tickers, tick, cut>>
  BY DEF Reset, vars, connVars
<1>2. /\ at \in [Conns -> {"read", "leave", "reset", "enter", "set"}]
      /\ page \in [Conns -> Pages] /\ current \in [Conns -> Pages] /\ want \in [Conns -> Pages]
      /\ NoPage \in Pages /\ NoPage \notin Watchable /\ pc[c] = "open"
  BY <1>1, PagesAssumption
     DEF PagesInv, PageTypes, PagesTypeOK, LoopsAreOpen, Pages, Watchable
<1>3. /\ at' \in [Conns -> {"read", "leave", "reset", "enter", "set"}]
      /\ page' \in [Conns -> Pages] /\ current' \in [Conns -> Pages] /\ want' \in [Conns -> Pages]
      /\ at'[c] \in {"read", "enter"} /\ page'[c] \in {NoPage, page[c]}
      /\ \A d \in Conns \ {c} : at'[d] = at[d] /\ page'[d] = page[d] /\ current'[d] = current[d]
  BY <1>1, <1>2
<1>4. PageTypes'
  BY <1>1, <1>3 DEF PagesInv, PageTypes, PagesTypeOK
<1>5. LoopsAreOpen'
  BY <1>1, <1>2, <1>3 DEF PagesInv, LoopsAreOpen
<1>6. EnteringIsWatched'
  BY <1>1, <1>3 DEF PagesInv, EnteringIsWatched
<1>7. ListedPageIsWatched'
  BY <1>1, <1>2, <1>3 DEF PagesInv, ListedPageIsWatched, InList
<1> QED BY <1>4, <1>5, <1>6, <1>7 DEF PagesInv

\* Refuse, Watch and WatchPanel.
LEMMA EnterPages ==
    ASSUME HubInv, PagesInv, NEW c \in Conns, Refuse(c) \/ Watch(c) \/ WatchPanel(c)
    PROVE  PagesInv'
<1>1. /\ at[c] = "enter"
      /\ UNCHANGED <<pc, owner, sockets, page, current, want, tick>>
  BY DEF Refuse, Watch, WatchPanel, vars, connVars
<1>2. /\ at \in [Conns -> {"read", "leave", "reset", "enter", "set"}]
      /\ watchers \in [WatchKeys -> SUBSET Conns] /\ panel \subseteq Conns
      /\ tickers \in 0 .. MaxTickers /\ cut \subseteq Conns \X WatchKeys
      /\ pc[c] = "open" /\ owner[c] \in Conns
  BY <1>1 DEF PagesInv, PageTypes, PagesTypeOK, LoopsAreOpen, HubInv, Belongs
<1>3. CASE Refuse(c)
  <2>1. at' = [at EXCEPT ![c] = "read"] /\ UNCHANGED <<watchers, panel, failed, tickers, cut>>
    BY <1>3 DEF Refuse
  <2>2. /\ at' \in [Conns -> {"read", "leave", "reset", "enter", "set"}]
        /\ at'[c] = "read" /\ \A d \in Conns \ {c} : at'[d] = at[d]
    BY <1>2, <2>1
  <2>3. PageTypes'
    BY <1>1, <2>1, <2>2 DEF PagesInv, PageTypes, PagesTypeOK
  <2>4. LoopsAreOpen' /\ EnteringIsWatched'
    BY <1>1, <2>1, <2>2 DEF PagesInv, LoopsAreOpen, EnteringIsWatched
  <2>5. ListedPageIsWatched'
    BY <1>1, <2>1 DEF PagesInv, ListedPageIsWatched, InList
  <2> QED BY <2>3, <2>4, <2>5 DEF PagesInv
<1>4. CASE Watch(c)
  <2> DEFINE p == current[c]
             k == WatchKey(p)
             w == owner[c]
  <2>0. \A q \in Watchable : WatchKey(q) \in WatchKeys
    BY WatchKeyType
  <2>1. /\ p \in Watchable /\ watchers' = [watchers EXCEPT ![k] = @ \cup {w}]
        /\ cut' = cut \ {<<w, k>>} /\ at' = [at EXCEPT ![c] = "set"]
        /\ UNCHANGED <<panel, failed, tickers>>
    BY <1>4 DEF Watch
  <2>2. /\ at' \in [Conns -> {"read", "leave", "reset", "enter", "set"}]
        /\ at'[c] = "set" /\ \A d \in Conns \ {c} : at'[d] = at[d]
        /\ watchers' \in [WatchKeys -> SUBSET Conns] /\ cut' \subseteq Conns \X WatchKeys
    BY <1>2, <2>0, <2>1
  <2>3. \A v, q : q \in WatchKeys /\ (v \in watchers[q] \/ <<v, q>> \in cut)
                    => v \in watchers'[q] \/ <<v, q>> \in cut'
    BY <1>2, <2>0, <2>1
  <2>4. PageTypes'
    BY <1>1, <2>1, <2>2 DEF PagesInv, PageTypes, PagesTypeOK
  <2>5. LoopsAreOpen'
    BY <1>1, <1>2, <2>2 DEF PagesInv, LoopsAreOpen
  <2>6. EnteringIsWatched'
    <3>1. w \in watchers'[k]
      BY <1>2, <2>0, <2>1
    <3> QED BY <1>1, <2>0, <2>2, <2>3, <3>1 DEF PagesInv, EnteringIsWatched
  <2>7. ListedPageIsWatched'
    BY <1>1, <2>0, <2>3 DEF PagesInv, ListedPageIsWatched, InList
  <2> QED BY <2>4, <2>5, <2>6, <2>7 DEF PagesInv
<1>5. CASE WatchPanel(c)
  <2>1. /\ current[c] = PanelPage /\ panel = {} => tickers < MaxTickers
        /\ panel' = panel \cup {c}
        /\ tickers' = IF panel = {} THEN tickers + 1 ELSE tickers
        /\ at' = [at EXCEPT ![c] = "set"] /\ UNCHANGED <<watchers, failed, cut>>
    BY <1>5 DEF WatchPanel
  <2>2. /\ at' \in [Conns -> {"read", "leave", "reset", "enter", "set"}]
        /\ at'[c] = "set" /\ \A d \in Conns \ {c} : at'[d] = at[d]
        /\ panel' \subseteq Conns
    BY <1>2, <2>1
  <2>3. tickers' \in 0 .. MaxTickers
    <3>1. MaxTickers \in Nat
      BY PagesAssumption
    <3>2. panel = {} => tickers < MaxTickers
      BY <1>5 DEF WatchPanel
    <3> QED BY <1>2, <2>1, <3>1, <3>2
  <2>4. PageTypes'
    BY <1>1, <2>1, <2>2, <2>3 DEF PagesInv, PageTypes, PagesTypeOK
  <2>5. LoopsAreOpen'
    BY <1>1, <1>2, <2>2 DEF PagesInv, LoopsAreOpen
  <2>6. EnteringIsWatched'
    <3>1. PanelPage \notin Watchable /\ current[c] = PanelPage
      BY <1>5, PagesAssumption DEF Watchable, WatchPanel
    <3> QED BY <1>1, <2>1, <2>2, <3>1 DEF PagesInv, EnteringIsWatched
  <2>7. ListedPageIsWatched'
    BY <1>1, <2>1 DEF PagesInv, ListedPageIsWatched, InList
  <2> QED BY <2>4, <2>5, <2>6, <2>7 DEF PagesInv
<1> QED BY <1>3, <1>4, <1>5

\* The socket gets the page its user has been put among the watchers of.
LEMMA SetPagePages ==
    ASSUME HubInv, PagesInv, NEW c \in Conns, SetPage(c)
    PROVE  PagesInv'
<1>1. /\ at[c] = "set" /\ at' = [at EXCEPT ![c] = "read"]
      /\ page' = page \/ page' = [page EXCEPT ![c] = current[c]]
      /\ UNCHANGED <<pc, owner, sockets, current, want, watchers, panel, failed, tickers,
                     tick, cut>>
  BY DEF SetPage, vars, connVars
<1>2. /\ at \in [Conns -> {"read", "leave", "reset", "enter", "set"}] /\ pc[c] = "open"
      /\ page \in [Conns -> Pages] /\ current \in [Conns -> Pages]
  BY <1>1 DEF PagesInv, PageTypes, PagesTypeOK, LoopsAreOpen
<1>3. /\ at' \in [Conns -> {"read", "leave", "reset", "enter", "set"}]
      /\ page' \in [Conns -> Pages]
      /\ at'[c] = "read" /\ page'[c] \in {page[c], current[c]}
      /\ \A d \in Conns \ {c} : at'[d] = at[d] /\ page'[d] = page[d]
  BY <1>1, <1>2
<1>4. PageTypes'
  BY <1>1, <1>3 DEF PagesInv, PageTypes, PagesTypeOK
<1>5. LoopsAreOpen'
  BY <1>1, <1>2, <1>3 DEF PagesInv, LoopsAreOpen
<1>6. EnteringIsWatched'
  BY <1>1, <1>3 DEF PagesInv, EnteringIsWatched
<1>7. ListedPageIsWatched'
  BY <1>1, <1>3 DEF PagesInv, EnteringIsWatched, ListedPageIsWatched, InList
<1> QED BY <1>4, <1>5, <1>6, <1>7 DEF PagesInv

\* The tickers of the panel and the tick of the topic list.
LEMMA TickPages ==
    ASSUME PagesInv, \/ TickerWrite \/ TickerEnds \/ TickCopy
                     \/ (\E w \in Conns : TickWrite(w)) \/ TickForget \/ TickDone
    PROVE  PagesInv'
<1>1. UNCHANGED <<pc, owner, sockets, page, at, current, want>>
  BY DEF TickerWrite, TickerEnds, TickCopy, TickWrite, TickForget, TickDone, vars, connVars
<1>2. /\ watchers \in [WatchKeys -> SUBSET Conns] /\ panel \subseteq Conns /\ failed \subseteq Conns
      /\ tickers \in 0 .. MaxTickers /\ cut \subseteq Conns \X WatchKeys
      /\ tick \in [at : {"wait", "next", "missed"}, todo : SUBSET Conns,
                   user : Conns \cup {None}]
      /\ tick.at = "missed" => tick.user \in Conns
      /\ ListPage \in Watchable /\ ListPage \in WatchKeys /\ MaxTickers \in Nat
  BY PagesAssumption DEF PagesInv, PageTypes, PagesTypeOK, Watchable, WatchKeys
<1>3. CASE UNCHANGED <<watchers, cut>>
  <2>1. ASSUME tick' \in [at : {"wait", "next", "missed"}, todo : SUBSET Conns,
                          user : Conns \cup {None}],
               tick'.at = "missed" => tick'.user \in Conns,
               panel' \subseteq Conns, failed' \subseteq Conns, tickers' \in 0 .. MaxTickers
        PROVE  PagesInv'
    <3>1. PageTypes'
      BY <1>1, <1>3, <2>1 DEF PagesInv, PageTypes, PagesTypeOK
    <3>2. LoopsAreOpen' /\ EnteringIsWatched' /\ ListedPageIsWatched'
      BY <1>1, <1>3 DEF PagesInv, LoopsAreOpen, EnteringIsWatched, ListedPageIsWatched, InList
    <3> QED BY <3>1, <3>2 DEF PagesInv
  <2>2. CASE TickerWrite
    BY <1>2, <2>1, <2>2 DEF TickerWrite
  <2>3. CASE TickerEnds
    BY <1>2, <2>1, <2>3 DEF TickerEnds
  <2>4. CASE TickCopy
    <3>1. tick' = [TickIdle EXCEPT !.at = "next", !.todo = watchers[ListPage]]
          /\ UNCHANGED <<panel, failed, tickers>>
      BY <2>4 DEF TickCopy
    <3>2. tick' = [at |-> "next", todo |-> watchers[ListPage], user |-> None]
      BY <3>1 DEF TickIdle
    <3> QED BY <1>2, <2>1, <3>1, <3>2
  <2>5. ASSUME NEW w \in Conns, TickWrite(w) PROVE PagesInv'
    <3>1. PICK hit \in BOOLEAN :
            tick' = [tick EXCEPT !.at = IF hit THEN "next" ELSE "missed", !.todo = @ \ {w},
                                 !.user = IF hit THEN None ELSE w]
      BY <2>5 DEF TickWrite
    <3>2. /\ tick' \in [at : {"wait", "next", "missed"}, todo : SUBSET Conns,
                        user : Conns \cup {None}]
          /\ tick'.at = "missed" => tick'.user \in Conns
      BY <1>2, <3>1
    <3>3. UNCHANGED <<panel, failed, tickers>>
      BY <2>5 DEF TickWrite
    <3> QED BY <1>2, <2>1, <3>2, <3>3
  <2>6. CASE TickForget
    <3>1. /\ tick' = [tick EXCEPT !.at = "next", !.user = None]
          /\ UNCHANGED <<panel, failed, tickers>>
      BY <2>6 DEF TickForget
    <3> QED BY <1>2, <2>1, <3>1
  <2>7. CASE TickDone
    BY <1>2, <2>1, <2>7 DEF TickDone, TickIdle
  <2> QED BY <2>2, <2>3, <2>4, <2>5, <2>6, <2>7
<1>4. CASE TickForget
  <2>1. /\ FinalizePage(tick.user, ListPage) /\ tick.user \in Conns
        /\ tick' = [tick EXCEPT !.at = "next", !.user = None]
        /\ UNCHANGED <<panel, failed, tickers>>
    BY <1>2, <1>4 DEF TickForget
  <2>2. /\ watchers' \in [WatchKeys -> SUBSET Conns]
        /\ cut' \subseteq Conns \X WatchKeys
        /\ \A d \in Conns : (at[d] = "set" /\ current[d] \in Watchable)
              => \/ owner[d] \in watchers'[WatchKey(current[d])]
                 \/ <<owner[d], WatchKey(current[d])>> \in cut'
        /\ \A d \in Conns :
              (pc[d] = "open" /\ page[d] \in Watchable /\ InList(d, owner[d]))
                  => \/ owner[d] \in watchers'[WatchKey(page[d])]
                     \/ <<owner[d], WatchKey(page[d])>> \in cut'
    BY <1>2, <2>1, FinalizeKeepsWatch DEF PagesInv
  <2>3. /\ tick' \in [at : {"wait", "next", "missed"}, todo : SUBSET Conns,
                      user : Conns \cup {None}]
        /\ tick'.at = "next"
    BY <1>2, <2>1
  <2>4. PageTypes'
    BY <1>1, <2>1, <2>2, <2>3 DEF PagesInv, PageTypes, PagesTypeOK
  <2>5. LoopsAreOpen'
    BY <1>1 DEF PagesInv, LoopsAreOpen
  <2>6. EnteringIsWatched'
    BY <1>1, <2>2 DEF EnteringIsWatched
  <2>7. ListedPageIsWatched'
    BY <1>1, <2>2 DEF ListedPageIsWatched, InList
  <2> QED BY <2>4, <2>5, <2>6, <2>7 DEF PagesInv
<1> QED BY <1>3, <1>4 DEF TickerWrite, TickerEnds, TickCopy, TickWrite, TickDone

\* Every step of the pages keeps their invariant, given that of the hub.
LEMMA PagesStep ==
    ASSUME HubInv, PagesInv, [PagesNext]_allVars
    PROVE  PagesInv'
<1>1. CASE HubStep
  BY <1>1, HubStepPages
<1>2. ASSUME NEW c \in Conns, EndLoop(c) PROVE PagesInv'
  BY <1>2, EndLoopPages
<1>3. ASSUME NEW c \in Conns, NEW p \in Visits[c], Ask(c, p) PROVE PagesInv'
  BY <1>3, AskPages
<1>4. ASSUME NEW c \in Conns, Loop(c) PROVE PagesInv'
  BY <1>4, LeavePages, ResetPages, EnterPages, SetPagePages DEF Loop
<1>5. CASE \/ TickerWrite \/ TickerEnds \/ TickCopy \/ (\E w \in Conns : TickWrite(w))
           \/ TickForget \/ TickDone
  BY <1>5, TickPages
<1>6. CASE TickerSkip \/ UNCHANGED allVars
  <2>1. UNCHANGED <<pc, owner, sockets, page, at, current, want, watchers, panel, failed,
                    tickers, tick, cut>>
    BY <1>6 DEF TickerSkip, allVars, vars, connVars, pageVars
  <2>2. PageTypes'
    BY <2>1 DEF PagesInv, PageTypes, PagesTypeOK
  <2>3. LoopsAreOpen' /\ EnteringIsWatched' /\ ListedPageIsWatched'
    BY <2>1 DEF PagesInv, LoopsAreOpen, EnteringIsWatched, ListedPageIsWatched, InList
  <2> QED BY <2>2, <2>3 DEF PagesInv
<1> QED BY <1>1, <1>2, <1>3, <1>4, <1>5, <1>6 DEF PagesNext

\* So it holds together with that of the hub.
LEMMA PagesInvHolds == PagesSpec => [](HubInv /\ PagesInv)
<1>1. Init /\ PagesInit => HubInv /\ ReachInv /\ PagesInv
  BY InitHub, InitPages
<1>2. HubInv /\ ReachInv /\ PagesInv /\ [PagesNext]_allVars => (HubInv /\ ReachInv /\ PagesInv)'
  BY NextHub, PagesStepsTheHub, PagesStep
<1> QED BY <1>1, <1>2, PTL DEF PagesSpec

\* The records of the pages stay well-typed.
THEOREM PagesTypesHold == PagesSpec => []PagesTypeOK
<1>1. PagesInv => PagesTypeOK
  BY DEF PagesInv, PageTypes
<1> QED BY <1>1, PagesInvHolds, PTL

\* The panel gains its first watcher together with a ticker, which ends on an empty panel only.
LEMMA PanelStep ==
    ASSUME PagesInv, PanelIsServed, [PagesNext]_allVars
    PROVE  PanelIsServed'
<1>0. tickers \in Nat
  BY PagesAssumption DEF PagesInv, PageTypes, PagesTypeOK
<1>1. ASSUME NEW c \in Conns, WatchPanel(c) PROVE PanelIsServed'
  BY <1>0, <1>1 DEF WatchPanel, PanelIsServed
<1>2. CASE TickerEnds
  BY <1>2 DEF TickerEnds, PanelIsServed
<1>3. CASE TickerWrite
  BY <1>3 DEF TickerWrite, PanelIsServed
<1>4. ASSUME NEW c \in Conns, Leave(c) PROVE PanelIsServed'
  BY <1>4 DEF Leave, PanelIsServed
<1>5. CASE UNCHANGED <<panel, tickers>>
  BY <1>5 DEF PanelIsServed
<1>6. ASSUME NEW c \in Conns, \/ Reset(c) \/ Refuse(c) \/ Watch(c) \/ SetPage(c) \/ EndLoop(c)
                              \/ \E p \in Visits[c] : Ask(c, p)
      PROVE  UNCHANGED <<panel, tickers>>
  BY <1>6 DEF Reset, Refuse, Watch, SetPage, EndLoop, Ask
<1>7. CASE HubStep \/ TickerSkip \/ UNCHANGED allVars
  BY <1>5, <1>7 DEF HubStep, TickerSkip, allVars, pageVars
<1>8. CASE TickCopy \/ (\E w \in Conns : TickWrite(w)) \/ TickForget \/ TickDone
  BY <1>5, <1>8 DEF TickCopy, TickWrite, TickForget, TickDone
<1> QED BY <1>1, <1>2, <1>3, <1>4, <1>5, <1>6, <1>7, <1>8 DEF PagesNext, Loop

\* As long as a connection is on the panel a ticker runs, however many are asleep.
THEOREM PanelStaysServed == PagesSpec => []PanelIsServed
<1>1. Init /\ PagesInit => PanelIsServed
  BY DEF PagesInit, PanelIsServed
<1>2. PagesInv /\ PanelIsServed /\ [PagesNext]_allVars => PanelIsServed'
  BY PanelStep
<1> QED BY <1>1, <1>2, PagesInvHolds, PTL DEF PagesSpec

-----------------------------------------------------------------------------
(* Without the ping goroutine.                                             *)

\* A socket is in its user's list once, and that of every open connection is there.
Once ==
    \A w \in Conns : \A i, j \in 1 .. Len(sockets[w]) : sockets[w][i] = sockets[w][j] => i = j
OpenIsListed == \A c \in Conns : pc[c] = "open" => InList(c, owner[c])

UnpingedInv == nilled = {} /\ ping.at = "wait" /\ Once /\ OpenIsListed

\* What RemoveSocket leaves, then.
LEMMA SweepMine ==
    ASSUME NEW list \in Seq(Conns), NEW c \in Conns,
           \A i, j \in 1 .. Len(list) : list[i] = list[j] => i = j
    PROVE  LET left == Truncated(Sweep(list, {c}).list, Sweep(list, {c}).del)
           IN  /\ left \in Seq(Conns)
               /\ \A i, j \in 1 .. Len(left) : left[i] = left[j] => i = j
               /\ \A d \in Conns \ {c} : Holds(list, d) => Holds(left, d)
<1> DEFINE n == Len(list)
           bad == Doomed(list, {c})
           l == Sweep(list, {c}).list
           del == Sweep(list, {c}).del
           left == Truncated(l, del)
           Goal == /\ left \in Seq(Conns)
                   /\ \A i, j \in 1 .. Len(left) : left[i] = left[j] => i = j
                   /\ \A d \in Conns \ {c} : Holds(list, d) => Holds(left, d)
<1> SUFFICES Goal
  OBVIOUS
<1>0. n \in Nat /\ list \in [1 .. n -> Conns]
  OBVIOUS
<1>1. left \in Seq(Conns)
  BY CutSweep
<1>2. l \in Seq(Conns) /\ Len(l) = n /\ del \in 0 .. n
  BY SweepShape
<1> HIDE DEF l, del
<1>3. Len(left) = n - del /\ \A i \in 1 .. n - del : left[i] = l[i]
  <2>1. del \in 0 .. Len(l)
    BY <1>2
  <2> QED BY <1>2, <2>1, CutShape
<1>4. CASE bad = {}
  <2>1. l = list /\ del = 0
    BY <1>4, SweepNone DEF l, del
  <2> HIDE DEF left
  <2>2. Len(left) = n /\ \A i \in 1 .. n : left[i] = list[i]
    BY <1>0, <1>3, <2>1
  <2>3. \A i, j \in 1 .. Len(left) : left[i] = left[j] => i = j
    BY <2>2
  <2>4. ASSUME NEW d \in Conns \ {c}, Holds(list, d) PROVE Holds(left, d)
    BY <2>2, <2>4 DEF Holds
  <2>5. left \in Seq(Conns)
    BY <1>1
  <2> QED BY <2>3, <2>4, <2>5
<1>5. ASSUME NEW k, bad = {k}
      PROVE  /\ \A i, j \in 1 .. Len(left) : left[i] = left[j] => i = j
             /\ \A d \in Conns \ {c} : Holds(list, d) => Holds(left, d)
  <2>1. k \in 1 .. n /\ l = [list EXCEPT ![k] = list[n]] /\ del = 1
    <3>1. Doomed(list, {c}) = {k}
      BY <1>5
    <3> HIDE DEF n, bad
    <3>2. k \in 1 .. Len(list) /\ Sweep(list, {c}).del = 1
          /\ Sweep(list, {c}).list = [list EXCEPT ![k] = list[Len(list)]]
      BY <3>1, SweepOne, ZenonT(40)
    <3> QED BY <3>2 DEF n, l, del
  <2>2. list[k] = c
    BY <1>5 DEF Doomed
  <2>3. Len(left) = n - 1
        /\ \A i \in 1 .. n - 1 : left[i] = IF i = k THEN list[n] ELSE list[i]
    <3>1. \A i \in 1 .. n - 1 : i \in 1 .. n
      BY <1>0
    <3> QED BY <1>0, <1>3, <2>1, <3>1
  <2>3a. \A i, j \in 1 .. n : list[i] = list[j] => i = j
    OBVIOUS
  <2>3b. \A d : Holds(list, d) => \E i \in 1 .. n : list[i] = d
    BY DEF Holds
  <2> HIDE DEF left, n
  <2>4. ASSUME NEW i \in 1 .. n - 1, NEW j \in 1 .. n - 1, left[i] = left[j]
        PROVE  i = j
    <3>1. n \in 1 .. n /\ i \in 1 .. n /\ j \in 1 .. n /\ i # n /\ j # n
      BY <1>0
    <3> QED BY <2>1, <2>3, <2>4, <2>3a, <3>1
  <2>5. ASSUME NEW d \in Conns \ {c}, NEW i \in 1 .. n, list[i] = d
        PROVE  Holds(left, d)
    <3>1. i # k
      BY <2>2, <2>5
    <3>2. CASE i = n
      <4>1. k \in 1 .. n - 1 /\ left[k] = d
        BY <1>0, <2>1, <2>3, <2>5, <3>1, <3>2
      <4> QED BY <2>3, <4>1 DEF Holds
    <3>3. CASE i # n
      <4>1. i \in 1 .. n - 1 /\ left[i] = d
        BY <1>0, <2>3, <2>5, <3>1, <3>3
      <4> QED BY <2>3, <4>1 DEF Holds
    <3> QED BY <3>2, <3>3
  <2> QED BY <2>3, <2>4, <2>5, <2>3b
<1>6. bad = {} \/ \E k : bad = {k}
  <2> SUFFICES ASSUME NEW k \in bad PROVE bad = {k}
    OBVIOUS
  <2>1. \A i \in bad : i \in 1 .. Len(list) /\ list[i] = c
    BY DEF Doomed
  <2> HIDE DEF bad
  <2> QED BY <2>1
<1> HIDE DEF left, bad
<1> QED BY <1>1, <1>4, <1>5, <1>6

\* Without pings no socket is doomed but that of the connection that leaves.
LEMMA UnpingedStep ==
    ASSUME ~Pinging, HubInv, UnpingedInv, [Next]_vars
    PROVE  UnpingedInv'
<1>0. /\ pc \in [Conns -> {"new", "adding", "open", "remove", "check", "leave", "gone"}]
      /\ owner \in [Conns -> Conns \cup {None}] /\ sockets \in [Conns -> Seq(Conns)]
  BY DEF HubInv, HubTypes, TypeOK
<1>1. ASSUME UNCHANGED <<nilled, ping, sockets, owner>>,
             \A c \in Conns : pc'[c] = "open" => pc[c] = "open"
      PROVE  UnpingedInv'
  BY <1>1 DEF UnpingedInv, Once, OpenIsListed, InList
<1>2. ASSUME NEW c \in Conns, AddConnNew(c) PROVE UnpingedInv'
  <2>1. /\ sockets' = [sockets EXCEPT ![c] = <<c>>] /\ owner' = [owner EXCEPT ![c] = c]
        /\ pc' = [pc EXCEPT ![c] = "open"] /\ UNCHANGED <<nilled, ping>> /\ pc[c] = "new"
    BY <1>2 DEF AddConnNew
  <2>2. /\ sockets'[c] = <<c>> /\ Len(sockets'[c]) = 1 /\ sockets'[c][1] = c /\ owner'[c] = c
        /\ \A d \in Conns \ {c} : /\ sockets'[d] = sockets[d] /\ owner'[d] = owner[d]
                                  /\ pc'[d] = pc[d]
    BY <1>0, <2>1
  <2>3. Once'
    BY <2>2 DEF UnpingedInv, Once
  <2>4. ASSUME NEW d \in Conns, pc'[d] = "open" PROVE Holds(sockets'[owner'[d]], d)
    <3>1. CASE d = c
      <4> DEFINE list == sockets'[owner'[d]]
      <4>1. Len(list) = 1 /\ list[1] = d
        BY <2>2, <3>1
      <4> HIDE DEF list
      <4>2. Holds(list, d)
        BY <4>1 DEF Holds
      <4> QED BY <4>2 DEF list
    <3>2. CASE d # c
      <4>1. pc[d] = "open" /\ Holds(sockets[owner[d]], d)
        BY <2>2, <2>4, <3>2 DEF UnpingedInv, OpenIsListed, InList, Holds
      <4>2. owner[d] \in Conns \ {c}
        BY <2>1, <4>1 DEF HubInv, Belongs
      <4> QED BY <2>2, <3>2, <4>1, <4>2
    <3> QED BY <3>1, <3>2
  <2> QED BY <2>1, <2>3, <2>4 DEF UnpingedInv, OpenIsListed, InList, Holds
<1>3. ASSUME NEW c \in Conns, AddConnFound(c) PROVE UnpingedInv'
  <2>1. /\ owner' = [owner EXCEPT ![c] = hub[UserOf[c]]] /\ pc' = [pc EXCEPT ![c] = "adding"]
        /\ UNCHANGED <<nilled, ping, sockets>>
    BY <1>3 DEF AddConnFound
  <2>2. pc'[c] = "adding" /\ \A d \in Conns \ {c} : owner'[d] = owner[d] /\ pc'[d] = pc[d]
    BY <1>0, <2>1
  <2> QED BY <2>1, <2>2 DEF UnpingedInv, Once, OpenIsListed, InList
<1>4. ASSUME NEW c \in Conns, AddSocket(c) PROVE UnpingedInv'
  <2> DEFINE w == owner[c]
             n == Len(sockets[w])
  <2>1. /\ pc[c] = "adding" /\ sockets' = [sockets EXCEPT ![w] = Append(@, c)]
        /\ pc' = [pc EXCEPT ![c] = "open"] /\ UNCHANGED <<nilled, ping, owner>>
    BY <1>4 DEF AddSocket
  <2>2. w \in Conns /\ n \in Nat
        /\ \A i \in 1 .. n : sockets[w][i] \in Conns /\ sockets[w][i] # c
    BY <1>0, <2>1 DEF HubInv, Belongs
  <2>3. /\ \A d \in Conns \ {c} : pc'[d] = pc[d]
        /\ \A v \in Conns \ {w} : sockets'[v] = sockets[v]
        /\ Len(sockets'[w]) = n + 1 /\ sockets'[w][n + 1] = c
        /\ \A i \in 1 .. n : sockets'[w][i] = sockets[w][i]
    <3> HIDE DEF w
    <3> QED BY <1>0, <2>1, <2>2
  <2>4. Once'
    <3>1. ASSUME NEW v \in Conns, NEW i \in 1 .. Len(sockets'[v]),
                 NEW j \in 1 .. Len(sockets'[v]), sockets'[v][i] = sockets'[v][j]
          PROVE  i = j
      <4>1. CASE v # w
        BY <2>3, <3>1, <4>1 DEF UnpingedInv, Once
      <4>2. CASE v = w
        <5>1. i \in 1 .. n \/ i = n + 1
          BY <2>2, <2>3, <4>2
        <5>2. j \in 1 .. n \/ j = n + 1
          BY <2>2, <2>3, <4>2
        <5>3. \A a, b \in 1 .. n : sockets[w][a] = sockets[w][b] => a = b
          BY <2>2 DEF UnpingedInv, Once
        <5> HIDE DEF w, n
        <5> QED BY <2>2, <2>3, <3>1, <4>2, <5>1, <5>2, <5>3
      <4> QED BY <4>1, <4>2
    <3> QED BY <3>1 DEF Once
  <2>5. ASSUME NEW d \in Conns, pc'[d] = "open" PROVE Holds(sockets'[owner[d]], d)
    <3>1. CASE d = c
      <4>1. n + 1 \in 1 .. Len(sockets'[w])
        BY <2>2, <2>3
      <4> QED BY <2>3, <3>1, <4>1 DEF Holds
    <3>2. CASE d # c
      <4>1. Holds(sockets[owner[d]], d) /\ owner[d] \in Conns
        BY <2>3, <2>5, <3>2 DEF UnpingedInv, OpenIsListed, InList, Holds, HubInv, Belongs
      <4>2. CASE owner[d] # w
        BY <2>3, <4>1, <4>2
      <4>3. CASE owner[d] = w
        <5>1. PICK i \in 1 .. n : sockets[w][i] = d
          BY <4>1, <4>3 DEF Holds
        <5>2. i \in 1 .. Len(sockets'[w]) /\ sockets'[w][i] = d
          BY <2>2, <2>3, <5>1
        <5> QED BY <4>3, <5>2 DEF Holds
      <4> QED BY <4>2, <4>3
    <3> QED BY <3>1, <3>2
  <2> QED BY <2>1, <2>4, <2>5 DEF UnpingedInv, OpenIsListed, InList, Holds
<1>5. ASSUME NEW c \in Conns, RemoveSocket(c) PROVE UnpingedInv'
  <2> DEFINE w == owner[c]
             left == Truncated(Sweep(sockets[w], {c}).list, Sweep(sockets[w], {c}).del)
  <2>0. nilled \cup {c} = {c}
    BY DEF UnpingedInv
  <2>1. /\ pc[c] = "remove" /\ sockets' = [sockets EXCEPT ![w] = left]
        /\ pc' = [pc EXCEPT ![c] = "check"] /\ UNCHANGED <<nilled, ping, owner>>
    BY <1>5, <2>0 DEF RemoveSocket
  <2>2. w \in Conns
    BY <2>1 DEF HubInv, Belongs
  <2>3. /\ \A i, j \in 1 .. Len(left) : left[i] = left[j] => i = j
        /\ \A d \in Conns \ {c} : Holds(sockets[w], d) => Holds(left, d)
    <3> DEFINE list == sockets[w]
    <3>1. list \in Seq(Conns) /\ \A i, j \in 1 .. Len(list) : list[i] = list[j] => i = j
      BY <1>0, <2>2 DEF UnpingedInv, Once
    <3> HIDE DEF list
    <3>2. LET rest == Truncated(Sweep(list, {c}).list, Sweep(list, {c}).del)
          IN  /\ \A i, j \in 1 .. Len(rest) : rest[i] = rest[j] => i = j
              /\ \A d \in Conns \ {c} : Holds(list, d) => Holds(rest, d)
      BY <3>1, SweepMine
    <3> QED BY <3>2 DEF list
  <2> HIDE DEF left
  <2>4. /\ pc'[c] = "check" /\ \A d \in Conns \ {c} : pc'[d] = pc[d]
        /\ sockets'[w] = left /\ \A v \in Conns \ {w} : sockets'[v] = sockets[v]
    BY <1>0, <2>1, <2>2
  <2>5. Once'
    BY <2>3, <2>4 DEF UnpingedInv, Once
  <2>6. ASSUME NEW d \in Conns, pc'[d] = "open" PROVE Holds(sockets'[owner[d]], d)
    <3>1. d # c /\ Holds(sockets[owner[d]], d) /\ owner[d] \in Conns
      BY <2>4, <2>6 DEF UnpingedInv, OpenIsListed, InList, Holds, HubInv, Belongs
    <3> QED BY <2>3, <2>4, <3>1
  <2> QED BY <2>1, <2>5, <2>6 DEF UnpingedInv, OpenIsListed, InList, Holds
<1>6. ASSUME NEW c \in Conns, ReadError(c) \/ CheckEmpty(c) \/ RemoveUser(c) \/ Break(c)
      PROVE  UnpingedInv'
  <2>1. UNCHANGED <<nilled, ping, sockets, owner>>
    BY <1>6 DEF ReadError, CheckEmpty, RemoveUser, Break, connVars
  <2>2. \/ pc' = pc
        \/ \E l \in {"remove", "leave", "gone"} : pc' = [pc EXCEPT ![c] = l]
    BY <1>6 DEF ReadError, CheckEmpty, RemoveUser, Break, connVars
  <2>3. \A d \in Conns : pc'[d] = "open" => pc[d] = "open"
    BY <1>0, <2>2
  <2> QED BY <1>1, <2>1, <2>3
<1>7. ~Ping
  BY DEF UnpingedInv, Ping, PingRound, PingTruncate, PingNil, PingUserDone, PingDone,
         PingSweep, PingWrite
<1>8. CASE (\E u \in Users : PushAlert(u)) \/ SendWrite \/ SendDone
  BY <1>1, <1>8 DEF PushAlert, SendWrite, SendDone, connVars
<1>9. CASE UNCHANGED vars
  BY <1>1, <1>9 DEF vars, connVars
<1> QED BY <1>2, <1>3, <1>4, <1>5, <1>6, <1>7, <1>8, <1>9 DEF Next, Conn

\* So every open connection stays in its user's list.
LEMMA UnpingedHolds == ~Pinging => (Spec => []UnpingedInv)
<1> SUFFICES ASSUME ~Pinging PROVE Spec => []UnpingedInv
  OBVIOUS
<1>1. Init => UnpingedInv
  <2> SUFFICES ASSUME Init PROVE UnpingedInv
    OBVIOUS
  <2>1. nilled = {} /\ ping.at = "wait" /\ \A c \in Conns : pc[c] = "new" /\ sockets[c] = <<>>
    BY DEF Init, PingIdle
  <2>2. \A w \in Conns : Len(sockets[w]) = 0
    BY <2>1
  <2> QED BY <2>1, <2>2 DEF UnpingedInv, Once, OpenIsListed
<1>2. HubInv /\ UnpingedInv /\ [Next]_vars => UnpingedInv'
  BY UnpingedStep
<1> QED BY <1>1, <1>2, InitHub, NextHub, PTL DEF Spec

\* A socket that is open on the topic list or on a topic has its user among the watchers
\* of that page, or he was cut off.  With pings that is ListedPageIsWatched;
\* where no ping takes a socket off a list, every open connection is in its user's.
THEOREM PagesAreWatched == PagesSpec => []OpenPageIsWatched
<1>1. PagesSpec => []ListedPageIsWatched
  <2>1. PagesInv => ListedPageIsWatched
    BY DEF PagesInv
  <2> QED BY <2>1, PagesInvHolds, PTL
<1>2. CASE Pinging
  <2>1. ListedPageIsWatched => OpenPageIsWatched
    BY <1>2 DEF ListedPageIsWatched, OpenPageIsWatched
  <2> QED BY <1>1, <2>1, PTL
<1>3. CASE ~Pinging
  <2>1. PagesSpec => []UnpingedInv
    BY <1>3, PagesImplementHub, UnpingedHolds
  <2>2. UnpingedInv /\ ListedPageIsWatched => OpenPageIsWatched
    BY DEF UnpingedInv, OpenIsListed, ListedPageIsWatched, OpenPageIsWatched
  <2> QED BY <1>1, <2>1, <2>2, PTL
<1> QED BY <1>2, <1>3
=============================================================================
