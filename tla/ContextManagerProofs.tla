------------------------- MODULE ContextManagerProofs -------------------------
(***************************************************************************)
(* Proofs about ContextManager and the detectors of History, for every set *)
(* of sessions, pids and paths, every classification of the paths, every   *)
(* list of events and every value of the limits, thresholds and windows.   *)
(*                                                                         *)
(* A detector is one pass over the events.  What a pass remembers after    *)
(* each event is written as a function of the number of events seen, and a *)
(* fact about it is carried from 0 up to all of them; the facts compared   *)
(* with RecentEvents quantify over places in the whole list.               *)
(*                                                                         *)
(* Between Observe and ApplyEvent the flags of ContextManager may lag      *)
(* behind the one process that has just executed something; the inductive  *)
(* invariant says that they lag behind no other.  A second layer relates   *)
(* the recent events of a session with all it ever accepted: they are what *)
(* is left of the accepted events from some place on.                      *)
(***************************************************************************)
EXTENDS ContextManager, RecentEvents, FiniteSetTheorems, FunctionTheorems,
        SequenceTheorems, WellFoundedInduction, TLAPS
(***************************************************************************)
(* Induction and folds over lists of any length.                           *)
(***************************************************************************)
LEMMA Least ==
    ASSUME NEW Set, Set \subseteq Nat, Set # {}
    PROVE  \E n \in Set : \A m \in Set : n <= m
<1>1. PICK n \in Set : \A m \in Set : ~ (<<m, n>> \in OpToRel(<, Nat))
  BY NatLessThanWellFounded, WFMin
<1>2. \A m \in Set : ~ (m < n)
  BY <1>1 DEF OpToRel
<1> QED BY <1>2

(* Induction up to N, on the set of numbers for which a claim holds. *)
LEMMA CountUp ==
    ASSUME NEW N \in Nat, NEW Good, 0 \in Good,
           \A k \in 0 .. (N - 1) : k \in Good => k + 1 \in Good
    PROVE  \A k \in 0 .. N : k \in Good
<1> DEFINE Bad == {k \in 0 .. N : k \notin Good}
<1> SUFFICES ASSUME Bad # {} PROVE FALSE
  OBVIOUS
<1>1. PICK n \in Bad : \A m \in Bad : n <= m
  <2>1. Bad \subseteq Nat
    OBVIOUS
  <2> HIDE DEF Bad
  <2> QED BY <2>1, Least
<1>2. n \in 0 .. N /\ n \notin Good /\ n # 0
  OBVIOUS
<1>3. n - 1 \in 0 .. (N - 1)
  BY <1>2
<1>4. n - 1 \in Good
  <2>1. n - 1 \notin Bad
    BY <1>1, <1>2
  <2> QED BY <1>3, <2>1
<1> QED BY <1>2, <1>3, <1>4

LEMMA Greatest ==
    ASSUME NEW N \in Nat, NEW Set, Set \subseteq 1 .. N, Set # {}
    PROVE  /\ Max(Set) \in Set /\ \A m \in Set : m <= Max(Set)
<1> DEFINE Mirror == {N - x : x \in Set}
<1>1. PICK n \in Mirror : \A m \in Mirror : n <= m
  <2>1. Mirror \subseteq Nat
    <3>1. \A x \in Set : N - x \in Nat
      OBVIOUS
    <3> QED BY <3>1
  <2>2. Mirror # {}
    OBVIOUS
  <2> HIDE DEF Mirror
  <2> QED BY <2>1, <2>2, Least
<1>2. PICK x \in Set : n = N - x
  BY <1>1
<1>3. \A y \in Set : x >= y
  <2> TAKE y \in Set
  <2>1. n <= N - y
    BY <1>1
  <2> QED BY <1>2, <2>1
<1>4. \E z \in Set : \A y \in Set : z >= y
  BY <1>3
<1> QED BY <1>4 DEF Max

(* What a fold over 1 .. N remembers for each set of places, when it takes
   the places in ascending order.                                           *)
IsFold(base, step, S, g) ==
    g = [s \in SUBSET S |-> IF s = {} THEN base ELSE step[Max(s)][g[s \ {Max(s)}]]]

LEMMA FoldStep ==
    ASSUME NEW base, NEW step, NEW S, NEW g, IsFold(base, step, S, g)
    PROVE  /\ g[{}] = base
           /\ \A s \in SUBSET S : s # {} => g[s] = step[Max(s)][g[s \ {Max(s)}]]
<1> DEFINE v(s) == IF s = {} THEN base ELSE step[Max(s)][g[s \ {Max(s)}]]
<1>1. g = [s \in SUBSET S |-> v(s)]
  BY DEF IsFold
<1>2. \A s \in SUBSET S : g[s] = v(s)
  <2> HIDE DEF v
  <2> QED BY <1>1
<1> QED BY <1>2

LEMMA SmallestSubset ==
    ASSUME NEW S, IsFiniteSet(S), NEW Bad, Bad \subseteq SUBSET S, Bad # {}
    PROVE  \E T \in Bad : \A U \in SUBSET T : U # T => U \notin Bad
<1>1. IsWellFoundedOn(StrictSubsetOrdering(S), SUBSET S)
  BY FS_StrictSubsetOrderingWellFounded, FS_FiniteSubsetsOfFinite
<1>2. PICK T \in Bad : \A U \in Bad : ~ (<<U, T>> \in StrictSubsetOrdering(S))
  BY <1>1, WFMin
<1>3. ASSUME NEW U \in SUBSET T, U # T PROVE U \notin Bad
  BY <1>2, <1>3 DEF StrictSubsetOrdering
<1> QED BY <1>3

(* A set of places that can be taken in ascending order. *)
Listed(S) == IsFiniteSet(S) /\ \A s \in SUBSET S : s # {} => Max(s) \in s

LEMMA PlacesListed == ASSUME NEW N \in Nat PROVE Listed(1 .. N)
<1>1. IsFiniteSet(1 .. N)
  BY FS_Interval
<1>2. \A s \in SUBSET (1 .. N) : s # {} => Max(s) \in s
  BY Greatest
<1> QED BY <1>1, <1>2 DEF Listed

LEMMA ListedSubset == ASSUME NEW S, Listed(S), NEW T \in SUBSET S PROVE Listed(T)
BY FS_Subset DEF Listed

(* Two folds agree on the places they share. *)
LEMMA FoldAgrees ==
    ASSUME NEW base, NEW step, NEW S, Listed(S), NEW T,
           NEW g, NEW h, IsFold(base, step, S, g), IsFold(base, step, T, h),
           NEW s \in SUBSET S, s \subseteq T
    PROVE  g[s] = h[s]
<1> SUFFICES ASSUME g[s] # h[s] PROVE FALSE
  OBVIOUS
<1> DEFINE Bad == {t \in SUBSET s : g[t] # h[t]}
<1>1. PICK t \in Bad : \A u \in SUBSET t : u # t => u \notin Bad
  <2>1. s \in Bad /\ Bad \subseteq SUBSET S
    OBVIOUS
  <2>2. IsFiniteSet(S)
    BY DEF Listed
  <2> HIDE DEF Bad
  <2> QED BY <2>1, <2>2, SmallestSubset
<1>2. g[{}] = base /\ h[{}] = base
  BY FoldStep
<1>3. t # {} /\ Max(t) \in t
  BY <1>2 DEF Listed
<1>4. g[t \ {Max(t)}] = h[t \ {Max(t)}]
  <2>1. t \ {Max(t)} \in SUBSET t /\ t \ {Max(t)} # t
    BY <1>3
  <2> QED BY <1>1, <2>1
<1>5. /\ g[t] = step[Max(t)][g[t \ {Max(t)}]]
      /\ h[t] = step[Max(t)][h[t \ {Max(t)}]]
  BY <1>3, FoldStep
<1> QED BY <1>1, <1>4, <1>5

LEMMA FoldExists ==
    ASSUME NEW base, NEW step, NEW S, Listed(S)
    PROVE  \E g : IsFold(base, step, S, g)
<1> SUFFICES ASSUME \A g : ~ IsFold(base, step, S, g) PROVE FALSE
  OBVIOUS
<1> DEFINE Bad == {T \in SUBSET S : \A g : ~ IsFold(base, step, T, g)}
<1>1. PICK T \in Bad : \A U \in SUBSET T : U # T => U \notin Bad
  <2>1. S \in Bad /\ Bad \subseteq SUBSET S
    OBVIOUS
  <2>2. IsFiniteSet(S)
    BY DEF Listed
  <2> HIDE DEF Bad
  <2> QED BY <2>1, <2>2, SmallestSubset
<1> DEFINE Fold(U) == CHOOSE g : IsFold(base, step, U, g)
           V(U) == Fold(U)[U]
           F(s) == IF s = {} THEN base ELSE step[Max(s)][V(s \ {Max(s)})]
           f == [s \in SUBSET T |-> F(s)]
<1>2. ASSUME NEW U \in SUBSET T, U # T PROVE IsFold(base, step, U, Fold(U))
  <2>1. \E g : IsFold(base, step, U, g)
    BY <1>1, <1>2
  <2> QED BY <2>1
<1>0. ASSUME NEW s \in SUBSET T, s # {} PROVE Max(s) \in s
  BY <1>0 DEF Listed
<1>3. ASSUME NEW U \in SUBSET T, U # T PROVE f[U] = V(U)
  <2>1. IsFold(base, step, U, Fold(U)) /\ Listed(U)
    BY <1>2, <1>3, ListedSubset
  <2>2. CASE U = {}
    BY <2>1, <2>2, FoldStep
  <2>3. CASE U # {}
    <3> DEFINE u == U \ {Max(U)}
    <3>1. Max(U) \in U
      BY <1>0, <2>3
    <3>2. u \in SUBSET T /\ u # T /\ u \in SUBSET U
      BY <3>1
    <3>3. IsFold(base, step, u, Fold(u))
      BY <1>2, <3>2
    <3>7. Listed(u)
      BY <2>1, <3>2, ListedSubset
    <3>4. Fold(U)[u] = Fold(u)[u]
      <4> HIDE DEF u, Fold, F, f, Bad
      <4> QED BY <2>1, <3>2, <3>3, <3>7, FoldAgrees
    <3>5. V(U) = step[Max(U)][Fold(U)[u]]
      <4> HIDE DEF Fold, F, f
      <4> QED BY <2>1, <2>3, FoldStep
    <3>6. f[U] = step[Max(U)][V(u)]
      <4> HIDE DEF V
      <4> QED BY <2>3
    <3> QED BY <3>4, <3>5, <3>6
  <2> QED BY <2>2, <2>3
<1>4. ASSUME NEW s \in SUBSET T, s # {}
      PROVE  F(s) = step[Max(s)][f[s \ {Max(s)}]]
  <2>1. s \ {Max(s)} \in SUBSET T /\ s \ {Max(s)} # T
    BY <1>0, <1>4
  <2>2. f[s \ {Max(s)}] = V(s \ {Max(s)})
    BY <1>3, <2>1
  <2> HIDE DEF V, f
  <2> QED BY <1>4, <2>2
<1>5. IsFold(base, step, T, f)
  <2> DEFINE G(s) == IF s = {} THEN base ELSE step[Max(s)][f[s \ {Max(s)}]]
  <2>1. \A s \in SUBSET T : F(s) = G(s)
    <3> HIDE DEF f, V
    <3> QED BY <1>4
  <2>2. f = [s \in SUBSET T |-> G(s)]
    <3> HIDE DEF G, F
    <3> QED BY <2>1
  <2> HIDE DEF f
  <2> QED BY <2>2 DEF IsFold
<1> QED BY <1>1, <1>5

(* What the fold remembers after k places: it starts from the base and takes
   one step per place.                                                      *)
LEMMA FoldRuns ==
    ASSUME NEW A, NEW base \in A, NEW S, Listed(S), NEW step \in [S -> [A -> A]]
    PROVE  \E g : IsFold(base, step, S, g) /\ \A s \in SUBSET S : g[s] \in A
<1>1. PICK g : IsFold(base, step, S, g)
  BY FoldExists
<1> DEFINE Bad == {s \in SUBSET S : g[s] \notin A}
<1>2. ASSUME Bad # {} PROVE FALSE
  <2>1. PICK t \in Bad : \A u \in SUBSET t : u # t => u \notin Bad
    <3>1. Bad \subseteq SUBSET S /\ IsFiniteSet(S)
      BY DEF Listed
    <3> HIDE DEF Bad
    <3> QED BY <1>2, <3>1, SmallestSubset
  <2>2. g[{}] = base
    BY <1>1, FoldStep
  <2>3. t # {} /\ Max(t) \in t
    BY <2>2 DEF Listed
  <2>4. g[t] = step[Max(t)][g[t \ {Max(t)}]]
    BY <1>1, <2>3, FoldStep
  <2>5. PICK m : m = Max(t)
    OBVIOUS
  <2>6. t \ {m} \in SUBSET t /\ t \ {m} # t /\ m \in S
    BY <2>3, <2>5
  <2>7. g[t \ {m}] \in A
    BY <2>1, <2>6
  <2> QED BY <2>1, <2>4, <2>5, <2>6, <2>7
<1> QED BY <1>1, <1>2

LEMMA UpTo ==
    ASSUME NEW k \in Nat, k # 0
    PROVE  Max(1 .. k) = k /\ (1 .. k) \ {k} = 1 .. (k - 1) /\ 1 .. k # {}
<1>1. k \in 1 .. k
  OBVIOUS
<1>2. Max(1 .. k) \in 1 .. k /\ \A m \in 1 .. k : m <= Max(1 .. k)
  BY <1>1, Greatest
<1>3. k <= Max(1 .. k)
  BY <1>1, <1>2
<1> QED BY <1>1, <1>2, <1>3

-----------------------------------------------------------------------------
(* What each pass of History remembers, from event to event. *)
LEMMA WritePass ==
    ASSUME NEW s, NEW N \in Nat, DOMAIN s = 1 .. N
    PROVE  \E h : /\ h[0] = [written |-> {}, found |-> FALSE]
                  /\ \A k \in 1 .. N : h[k] = noteWriteThenExec(h[k - 1], s[k])
                  /\ detectWriteThenExecSamePath(s) = h[N].found
<1> DEFINE T == {s[i].target : i \in 1 .. N}
           A == [written : SUBSET T, found : BOOLEAN]
           base == [written |-> {}, found |-> FALSE]
           step == [i \in 1 .. N |-> [a \in A |-> noteWriteThenExec(a, s[i])]]
           Solves(c) == c = [t \in SUBSET (1 .. N) |-> IF t = {} THEN base
                               ELSE noteWriteThenExec(c[t \ {Max(t)}], s[Max(t)])]
<1>1. base \in A /\ step \in [1 .. N -> [A -> A]]
  <2>1. \A i \in 1 .. N, a \in A : noteWriteThenExec(a, s[i]) \in A
    BY DEF noteWriteThenExec
  <2> HIDE DEF A
  <2>2. step \in [1 .. N -> [A -> A]]
    BY <2>1
  <2> QED BY <2>2 DEF A
<1>2. PICK g : IsFold(base, step, 1 .. N, g) /\ \A t \in SUBSET (1 .. N) : g[t] \in A
  <2> HIDE DEF A, step, base
  <2> QED BY <1>1, PlacesListed, FoldRuns
<1>3. Solves(g)
  <2>1. ASSUME NEW t \in SUBSET (1 .. N), t # {}
        PROVE  step[Max(t)][g[t \ {Max(t)}]] = noteWriteThenExec(g[t \ {Max(t)}], s[Max(t)])
    <3>1. Max(t) \in 1 .. N
      BY <2>1, PlacesListed DEF Listed
    <3>2. g[t \ {Max(t)}] \in A
      BY <1>2
    <3> HIDE DEF A
    <3> QED BY <3>1, <3>2
  <2> HIDE DEF step, base
  <2> QED BY <1>2, <2>1 DEF IsFold
<1> DEFINE c == CHOOSE c : Solves(c)
<1>4. Solves(c)
  <2> HIDE DEF Solves
  <2> QED BY <1>3
<1>5. detectWriteThenExecSamePath(s) = c[1 .. N].found
  BY DEF detectWriteThenExecSamePath, FoldLeft, MapThenFoldSet
<1> DEFINE h == [k \in 0 .. N |-> c[1 .. k]]
<1>6. /\ c[{}] = base
      /\ \A t \in SUBSET (1 .. N) : t # {} =>
            c[t] = noteWriteThenExec(c[t \ {Max(t)}], s[Max(t)])
  <2> DEFINE v(t) == IF t = {} THEN base
                     ELSE noteWriteThenExec(c[t \ {Max(t)}], s[Max(t)])
  <2>1. c = [t \in SUBSET (1 .. N) |-> v(t)]
    <3> HIDE DEF c
    <3> QED BY <1>4
  <2>2. \A t \in SUBSET (1 .. N) : c[t] = v(t)
    <3> HIDE DEF v, c
    <3> QED BY <2>1
  <2> HIDE DEF c
  <2> QED BY <2>2
<1>7. h[0] = base /\ h[N] = c[1 .. N]
  <2>1. 1 .. 0 = {}
    OBVIOUS
  <2> HIDE DEF c
  <2> QED BY <1>6, <2>1
<1>8. \A k \in 1 .. N : h[k] = noteWriteThenExec(h[k - 1], s[k])
  <2> TAKE k \in 1 .. N
  <2>1. /\ 1 .. k \in SUBSET (1 .. N) /\ k - 1 \in 0 .. N
        /\ Max(1 .. k) = k /\ (1 .. k) \ {k} = 1 .. (k - 1) /\ 1 .. k # {}
    <3>1. k \in Nat /\ k # 0 /\ 1 .. k \in SUBSET (1 .. N) /\ k - 1 \in 0 .. N
      OBVIOUS
    <3> QED BY <3>1, UpTo
  <2>2. c[1 .. k] = noteWriteThenExec(c[1 .. (k - 1)], s[k])
    <3> HIDE DEF c
    <3> QED BY <1>6, <2>1
  <2> HIDE DEF c
  <2> QED BY <2>1, <2>2
<1> HIDE DEF h
<1> QED BY <1>5, <1>7, <1>8

LEMMA ConnectPass ==
    ASSUME NEW s, NEW N \in Nat, DOMAIN s = 1 .. N
    PROVE  \E h : /\ h[0] = [connect |-> FALSE, found |-> FALSE]
                  /\ \A k \in 1 .. N : h[k] = noteConnectThenExec(h[k - 1], s[k])
                  /\ detectConnectThenExec(s) = h[N].found
<1> DEFINE A == [connect : BOOLEAN, found : BOOLEAN]
           base == [connect |-> FALSE, found |-> FALSE]
           step == [i \in 1 .. N |-> [a \in A |-> noteConnectThenExec(a, s[i])]]
           Solves(c) == c = [t \in SUBSET (1 .. N) |-> IF t = {} THEN base
                               ELSE noteConnectThenExec(c[t \ {Max(t)}], s[Max(t)])]
<1>1. base \in A /\ step \in [1 .. N -> [A -> A]]
  <2>1. \A i \in 1 .. N, a \in A : noteConnectThenExec(a, s[i]) \in A
    BY DEF noteConnectThenExec
  <2> HIDE DEF A
  <2>2. step \in [1 .. N -> [A -> A]]
    BY <2>1
  <2> QED BY <2>2 DEF A
<1>2. PICK g : IsFold(base, step, 1 .. N, g) /\ \A t \in SUBSET (1 .. N) : g[t] \in A
  <2> HIDE DEF A, step, base
  <2> QED BY <1>1, PlacesListed, FoldRuns
<1>3. Solves(g)
  <2>1. ASSUME NEW t \in SUBSET (1 .. N), t # {}
        PROVE  step[Max(t)][g[t \ {Max(t)}]] = noteConnectThenExec(g[t \ {Max(t)}], s[Max(t)])
    <3>1. Max(t) \in 1 .. N
      BY <2>1, PlacesListed DEF Listed
    <3>2. g[t \ {Max(t)}] \in A
      BY <1>2
    <3> HIDE DEF A
    <3> QED BY <3>1, <3>2
  <2> HIDE DEF step, base
  <2> QED BY <1>2, <2>1 DEF IsFold
<1> DEFINE c == CHOOSE c : Solves(c)
<1>4. Solves(c)
  <2> HIDE DEF Solves
  <2> QED BY <1>3
<1>5. detectConnectThenExec(s) = c[1 .. N].found
  BY DEF detectConnectThenExec, FoldLeft, MapThenFoldSet
<1> DEFINE h == [k \in 0 .. N |-> c[1 .. k]]
<1>6. /\ c[{}] = base
      /\ \A t \in SUBSET (1 .. N) : t # {} =>
            c[t] = noteConnectThenExec(c[t \ {Max(t)}], s[Max(t)])
  <2> DEFINE v(t) == IF t = {} THEN base
                     ELSE noteConnectThenExec(c[t \ {Max(t)}], s[Max(t)])
  <2>1. c = [t \in SUBSET (1 .. N) |-> v(t)]
    <3> HIDE DEF c
    <3> QED BY <1>4
  <2>2. \A t \in SUBSET (1 .. N) : c[t] = v(t)
    <3> HIDE DEF v, c
    <3> QED BY <2>1
  <2> HIDE DEF c
  <2> QED BY <2>2
<1>7. h[0] = base /\ h[N] = c[1 .. N]
  <2>1. 1 .. 0 = {}
    OBVIOUS
  <2> HIDE DEF c
  <2> QED BY <1>6, <2>1
<1>8. \A k \in 1 .. N : h[k] = noteConnectThenExec(h[k - 1], s[k])
  <2> TAKE k \in 1 .. N
  <2>1. /\ 1 .. k \in SUBSET (1 .. N) /\ k - 1 \in 0 .. N
        /\ Max(1 .. k) = k /\ (1 .. k) \ {k} = 1 .. (k - 1) /\ 1 .. k # {}
    <3>1. k \in Nat /\ k # 0 /\ 1 .. k \in SUBSET (1 .. N) /\ k - 1 \in 0 .. N
      OBVIOUS
    <3> QED BY <3>1, UpTo
  <2>2. c[1 .. k] = noteConnectThenExec(c[1 .. (k - 1)], s[k])
    <3> HIDE DEF c
    <3> QED BY <1>6, <2>1
  <2> HIDE DEF c
  <2> QED BY <2>1, <2>2
<1> HIDE DEF h
<1> QED BY <1>5, <1>7, <1>8

IsSensitivePass(s, type, N, h) ==
    /\ h[0] = [sensitive |-> ZeroTime, other |-> ZeroTime, found |-> FALSE]
    /\ \A k \in 1 .. N : h[k] = noteSensitive(h[k - 1], s[k], type)
    /\ sensitiveNear(s, type) = h[N].found

LEMMA SensitivePass ==
    ASSUME NEW s, NEW type, NEW N \in Nat, DOMAIN s = 1 .. N
    PROVE  \E h : IsSensitivePass(s, type, N, h)
<1> DEFINE T == {s[i].time : i \in 1 .. N} \cup {ZeroTime}
           A == [sensitive : T, other : T, found : BOOLEAN]
           base == [sensitive |-> ZeroTime, other |-> ZeroTime, found |-> FALSE]
           step == [i \in 1 .. N |-> [a \in A |-> noteSensitive(a, s[i], type)]]
           Solves(c) == c = [t \in SUBSET (1 .. N) |-> IF t = {} THEN base
                               ELSE noteSensitive(c[t \ {Max(t)}], s[Max(t)], type)]
<1>1. base \in A /\ step \in [1 .. N -> [A -> A]]
  <2>1. \A i \in 1 .. N, a \in A : noteSensitive(a, s[i], type) \in A
    BY DEF noteSensitive
  <2> HIDE DEF A
  <2>2. step \in [1 .. N -> [A -> A]]
    BY <2>1
  <2> QED BY <2>2 DEF A
<1>2. PICK g : IsFold(base, step, 1 .. N, g) /\ \A t \in SUBSET (1 .. N) : g[t] \in A
  <2> HIDE DEF A, step, base
  <2> QED BY <1>1, PlacesListed, FoldRuns
<1>3. Solves(g)
  <2>1. ASSUME NEW t \in SUBSET (1 .. N), t # {}
        PROVE  step[Max(t)][g[t \ {Max(t)}]] = noteSensitive(g[t \ {Max(t)}], s[Max(t)], type)
    <3>1. Max(t) \in 1 .. N
      BY <2>1, PlacesListed DEF Listed
    <3>2. g[t \ {Max(t)}] \in A
      BY <1>2
    <3> HIDE DEF A
    <3> QED BY <3>1, <3>2
  <2> HIDE DEF step, base
  <2> QED BY <1>2, <2>1 DEF IsFold
<1> DEFINE c == CHOOSE c : Solves(c)
<1>4. Solves(c)
  <2> HIDE DEF Solves
  <2> QED BY <1>3
<1>5. sensitiveNear(s, type) = c[1 .. N].found
  BY DEF sensitiveNear, FoldLeft, MapThenFoldSet
<1> DEFINE h == [k \in 0 .. N |-> c[1 .. k]]
<1>6. /\ c[{}] = base
      /\ \A t \in SUBSET (1 .. N) : t # {} =>
            c[t] = noteSensitive(c[t \ {Max(t)}], s[Max(t)], type)
  <2> DEFINE v(t) == IF t = {} THEN base
                     ELSE noteSensitive(c[t \ {Max(t)}], s[Max(t)], type)
  <2>1. c = [t \in SUBSET (1 .. N) |-> v(t)]
    <3> HIDE DEF c
    <3> QED BY <1>4
  <2>2. \A t \in SUBSET (1 .. N) : c[t] = v(t)
    <3> HIDE DEF v, c
    <3> QED BY <2>1
  <2> HIDE DEF c
  <2> QED BY <2>2
<1>7. h[0] = base /\ h[N] = c[1 .. N]
  <2>1. 1 .. 0 = {}
    OBVIOUS
  <2> HIDE DEF c
  <2> QED BY <1>6, <2>1
<1>8. \A k \in 1 .. N : h[k] = noteSensitive(h[k - 1], s[k], type)
  <2> TAKE k \in 1 .. N
  <2>1. /\ 1 .. k \in SUBSET (1 .. N) /\ k - 1 \in 0 .. N
        /\ Max(1 .. k) = k /\ (1 .. k) \ {k} = 1 .. (k - 1) /\ 1 .. k # {}
    <3>1. k \in Nat /\ k # 0 /\ 1 .. k \in SUBSET (1 .. N) /\ k - 1 \in 0 .. N
      OBVIOUS
    <3> QED BY <3>1, UpTo
  <2>2. c[1 .. k] = noteSensitive(c[1 .. (k - 1)], s[k], type)
    <3> HIDE DEF c
    <3> QED BY <1>6, <2>1
  <2> HIDE DEF c
  <2> QED BY <2>1, <2>2
<1> HIDE DEF h
<1> QED BY <1>5, <1>7, <1>8 DEF IsSensitivePass

LEMMA OnlyPass ==
    ASSUME NEW s, NEW set, NEW N \in Nat, DOMAIN s = 1 .. N
    PROVE  \E h : /\ h[0] = << >>
                  /\ \A k \in 1 .. N : h[k] = keepIn(h[k - 1], s[k], set)
                  /\ only(s, set) = h[N]
<1> DEFINE T == {s[i] : i \in 1 .. N}
           A == Seq(T)
           base == << >>
           step == [i \in 1 .. N |-> [a \in A |-> keepIn(a, s[i], set)]]
           Solves(c) == c = [t \in SUBSET (1 .. N) |-> IF t = {} THEN base
                               ELSE keepIn(c[t \ {Max(t)}], s[Max(t)], set)]
<1>1. base \in A /\ step \in [1 .. N -> [A -> A]]
  <2>1. \A i \in 1 .. N, a \in A : keepIn(a, s[i], set) \in A
    BY AppendProperties DEF keepIn
  <2> HIDE DEF A
  <2>2. step \in [1 .. N -> [A -> A]]
    BY <2>1
  <2> QED BY <2>2 DEF A
<1>2. PICK g : IsFold(base, step, 1 .. N, g) /\ \A t \in SUBSET (1 .. N) : g[t] \in A
  <2> HIDE DEF A, step, base
  <2> QED BY <1>1, PlacesListed, FoldRuns
<1>3. Solves(g)
  <2>1. ASSUME NEW t \in SUBSET (1 .. N), t # {}
        PROVE  step[Max(t)][g[t \ {Max(t)}]] = keepIn(g[t \ {Max(t)}], s[Max(t)], set)
    <3>1. Max(t) \in 1 .. N
      BY <2>1, PlacesListed DEF Listed
    <3>2. g[t \ {Max(t)}] \in A
      BY <1>2
    <3> HIDE DEF A
    <3> QED BY <3>1, <3>2
  <2> HIDE DEF step, base
  <2> QED BY <1>2, <2>1 DEF IsFold
<1> DEFINE c == CHOOSE c : Solves(c)
<1>4. Solves(c)
  <2> HIDE DEF Solves
  <2> QED BY <1>3
<1>5. only(s, set) = c[1 .. N]
  BY DEF only, FoldLeft, MapThenFoldSet
<1> DEFINE h == [k \in 0 .. N |-> c[1 .. k]]
<1>6. /\ c[{}] = base
      /\ \A t \in SUBSET (1 .. N) : t # {} =>
            c[t] = keepIn(c[t \ {Max(t)}], s[Max(t)], set)
  <2> DEFINE v(t) == IF t = {} THEN base
                     ELSE keepIn(c[t \ {Max(t)}], s[Max(t)], set)
  <2>1. c = [t \in SUBSET (1 .. N) |-> v(t)]
    <3> HIDE DEF c
    <3> QED BY <1>4
  <2>2. \A t \in SUBSET (1 .. N) : c[t] = v(t)
    <3> HIDE DEF v, c
    <3> QED BY <2>1
  <2> HIDE DEF c
  <2> QED BY <2>2
<1>7. h[0] = base /\ h[N] = c[1 .. N]
  <2>1. 1 .. 0 = {}
    OBVIOUS
  <2> HIDE DEF c
  <2> QED BY <1>6, <2>1
<1>8. \A k \in 1 .. N : h[k] = keepIn(h[k - 1], s[k], set)
  <2> TAKE k \in 1 .. N
  <2>1. /\ 1 .. k \in SUBSET (1 .. N) /\ k - 1 \in 0 .. N
        /\ Max(1 .. k) = k /\ (1 .. k) \ {k} = 1 .. (k - 1) /\ 1 .. k # {}
    <3>1. k \in Nat /\ k # 0 /\ 1 .. k \in SUBSET (1 .. N) /\ k - 1 \in 0 .. N
      OBVIOUS
    <3> QED BY <3>1, UpTo
  <2>2. c[1 .. k] = keepIn(c[1 .. (k - 1)], s[k], set)
    <3> HIDE DEF c
    <3> QED BY <1>6, <2>1
  <2> HIDE DEF c
  <2> QED BY <2>1, <2>2
<1> HIDE DEF h
<1> QED BY <1>5, <1>7, <1>8

-----------------------------------------------------------------------------
(* What the passes find, in terms of all events at once. *)
LEMMA WriteExecIsPair ==
    ASSUME NEW s, NEW N \in Nat, DOMAIN s = 1 .. N
    PROVE  detectWriteThenExecSamePath(s) <=> WriteExecPair(s)
<1>1. PICK h : /\ h[0] = [written |-> {}, found |-> FALSE]
               /\ \A k \in 1 .. N : h[k] = noteWriteThenExec(h[k - 1], s[k])
               /\ detectWriteThenExecSamePath(s) = h[N].found
  BY WritePass
<1> DEFINE Written(k, p) == \E i \in 1 .. k : isWrite(s[i]) /\ s[i].target = p
           Exec(k, j) == s[j].type = "execve" /\ Written(k, s[j].target)
           Good == {k \in 0 .. N :
                      /\ \A p : p \in h[k].written <=> Written(k, p)
                      /\ h[k].found <=> \E j \in 1 .. k : Exec(j - 1, j)}
<1>2. 0 \in Good
  BY <1>1
<1>3. ASSUME NEW k \in 0 .. (N - 1), k \in Good PROVE k + 1 \in Good
  <2>1. k + 1 \in 1 .. N /\ (k + 1) - 1 = k
    OBVIOUS
  <2>2. h[k + 1] = noteWriteThenExec(h[k], s[k + 1])
    BY <1>1, <2>1
  <2>3. /\ h[k + 1].written = IF isWrite(s[k + 1]) THEN h[k].written \cup {s[k + 1].target}
                                                   ELSE h[k].written
        /\ h[k + 1].found <=> h[k].found \/ (s[k + 1].type = "execve"
                                             /\ s[k + 1].target \in h[k].written)
    <3>1. PICK a, e : a = h[k] /\ e = s[k + 1]
      OBVIOUS
    <3>2. h[k + 1] = [written |-> IF isWrite(e) THEN a.written \cup {e.target} ELSE a.written,
                      found |-> a.found \/ (e.type = "execve" /\ e.target \in a.written)]
      BY <2>2, <3>1 DEF noteWriteThenExec
    <3>3. /\ h[k + 1].written = IF isWrite(e) THEN a.written \cup {e.target} ELSE a.written
          /\ h[k + 1].found = (a.found \/ (e.type = "execve" /\ e.target \in a.written))
      BY <3>2
    <3> QED BY <3>1, <3>3
  <2>4. \A i : i \in 1 .. (k + 1) <=> i \in 1 .. k \/ i = k + 1
    OBVIOUS
  <2>5. /\ \A p : p \in h[k].written <=> Written(k, p)
        /\ h[k].found <=> \E j \in 1 .. k : Exec(j - 1, j)
    BY <1>3
  <2>6. \A p : p \in h[k + 1].written <=> Written(k + 1, p)
    BY <2>3, <2>4, <2>5
  <2>7. h[k + 1].found <=> \E j \in 1 .. (k + 1) : Exec(j - 1, j)
    <3>1. h[k + 1].found <=> h[k].found \/ Exec(k, k + 1)
      BY <2>3, <2>5
    <3>2. (\E j \in 1 .. (k + 1) : Exec(j - 1, j)) <=>
              (\E j \in 1 .. k : Exec(j - 1, j)) \/ Exec(k, k + 1)
      <4> HIDE DEF Exec
      <4> QED BY <2>1, <2>4
    <3> HIDE DEF Exec
    <3> QED BY <2>5, <3>1, <3>2
  <2> HIDE DEF Exec, Written
  <2> QED BY <2>1, <2>6, <2>7
<1>4. N \in Good
  <2>1. \A k \in 0 .. (N - 1) : k \in Good => k + 1 \in Good
    BY <1>3
  <2> HIDE DEF Good
  <2>2. \A k \in 0 .. N : k \in Good
    BY <1>2, <2>1, CountUp
  <2> QED BY <2>2
<1>5. h[N].found <=> \E j \in 1 .. N : Exec(j - 1, j)
  BY <1>4
<1>6. (\E j \in 1 .. N : Exec(j - 1, j)) <=> WriteExecPair(s)
  BY DEF WriteExecPair
<1> QED BY <1>1, <1>5, <1>6

LEMMA ConnectExecIsPair ==
    ASSUME NEW s, NEW N \in Nat, DOMAIN s = 1 .. N
    PROVE  detectConnectThenExec(s) <=> ConnectExecPair(s)
<1>1. PICK h : /\ h[0] = [connect |-> FALSE, found |-> FALSE]
               /\ \A k \in 1 .. N : h[k] = noteConnectThenExec(h[k - 1], s[k])
               /\ detectConnectThenExec(s) = h[N].found
  BY ConnectPass
<1> DEFINE Connected(k) == \E i \in 1 .. k : s[i].type = "connect"
           Exec(k, j) == s[j].type = "execve" /\ Connected(k)
           Good == {k \in 0 .. N : /\ h[k].connect <=> Connected(k)
                                   /\ h[k].found <=> \E j \in 1 .. k : Exec(j - 1, j)}
<1>2. 0 \in Good
  BY <1>1
<1>3. ASSUME NEW k \in 0 .. (N - 1), k \in Good PROVE k + 1 \in Good
  <2>1. k + 1 \in 1 .. N /\ (k + 1) - 1 = k
    OBVIOUS
  <2>2. h[k + 1] = noteConnectThenExec(h[k], s[k + 1])
    BY <1>1, <2>1
  <2>3. /\ h[k + 1].connect <=> h[k].connect \/ s[k + 1].type = "connect"
        /\ h[k + 1].found <=> h[k].found \/ (h[k].connect /\ s[k + 1].type = "execve")
    <3>1. PICK a, e : a = h[k] /\ e = s[k + 1]
      OBVIOUS
    <3>2. h[k + 1] = [connect |-> a.connect \/ e.type = "connect",
                      found |-> a.found \/ (a.connect /\ e.type = "execve")]
      BY <2>2, <3>1 DEF noteConnectThenExec
    <3>3. /\ h[k + 1].connect = (a.connect \/ e.type = "connect")
          /\ h[k + 1].found = (a.found \/ (a.connect /\ e.type = "execve"))
      BY <3>2
    <3> QED BY <3>1, <3>3
  <2>4. \A i : i \in 1 .. (k + 1) <=> i \in 1 .. k \/ i = k + 1
    OBVIOUS
  <2>5. /\ h[k].connect <=> Connected(k)
        /\ h[k].found <=> \E j \in 1 .. k : Exec(j - 1, j)
    BY <1>3
  <2>6. h[k + 1].connect <=> Connected(k + 1)
    BY <2>3, <2>4, <2>5
  <2>7. h[k + 1].found <=> \E j \in 1 .. (k + 1) : Exec(j - 1, j)
    <3>1. h[k + 1].found <=> h[k].found \/ Exec(k, k + 1)
      BY <2>3, <2>5
    <3>2. (\E j \in 1 .. (k + 1) : Exec(j - 1, j)) <=>
              (\E j \in 1 .. k : Exec(j - 1, j)) \/ Exec(k, k + 1)
      <4> HIDE DEF Exec
      <4> QED BY <2>1, <2>4
    <3> HIDE DEF Exec
    <3> QED BY <2>5, <3>1, <3>2
  <2> HIDE DEF Exec, Connected
  <2> QED BY <2>1, <2>6, <2>7
<1>4. N \in Good
  <2>1. \A k \in 0 .. (N - 1) : k \in Good => k + 1 \in Good
    BY <1>3
  <2> HIDE DEF Good
  <2>2. \A k \in 0 .. N : k \in Good
    BY <1>2, <2>1, CountUp
  <2> QED BY <2>2
<1>5. h[N].found <=> \E j \in 1 .. N : Exec(j - 1, j)
  BY <1>4
<1>6. (\E j \in 1 .. N : Exec(j - 1, j)) <=> ConnectExecPair(s)
  BY DEF ConnectExecPair
<1> QED BY <1>1, <1>5, <1>6

(* Times are known, and no event is older than an earlier one by more than
   `back`.                                                                  *)
Timed(s, N, back) ==
    /\ \A i \in 1 .. N : s[i].time \in Nat \ {0}
    /\ \A i, j \in 1 .. N : i < j => s[i].time - s[j].time <= back

(* t is the time of the last of the places among the first k, if any. *)
LastOf(s, places, k, t) ==
    \/ t = ZeroTime /\ \A i \in places : ~ (i <= k)
    \/ \E i \in places : i <= k /\ t = s[i].time /\ \A m \in places : m <= k => m <= i

LEMMA LastOfNext ==
    ASSUME NEW s, NEW N \in Nat, NEW places \in SUBSET (1 .. N), NEW k \in 0 .. (N - 1),
           NEW t, LastOf(s, places, k, t)
    PROVE  LastOf(s, places, k + 1, IF k + 1 \in places THEN s[k + 1].time ELSE t)
<1>1. \A m \in places : m <= k + 1 <=> m <= k \/ m = k + 1
  OBVIOUS
<1>2. CASE k + 1 \in places
  BY <1>2 DEF LastOf
<1>3. CASE k + 1 \notin places
  <2>1. \A m \in places : m <= k + 1 <=> m <= k
    BY <1>1, <1>3
  <2> QED BY <1>3, <2>1 DEF LastOf
<1> QED BY <1>2, <1>3

SensitiveOpens(s, N) == {i \in 1 .. N : isSensitiveOpen(s[i])}
OfType(s, N, type) == {i \in 1 .. N : s[i].type = type}

(* What the pass remembers after each event, and whether that is ever near. *)
Tracks(s, N, type, a, b) ==
    /\ \A k \in 1 .. N : LastOf(s, SensitiveOpens(s, N), k, a[k])
    /\ \A k \in 1 .. N : LastOf(s, OfType(s, N, type), k, b[k])
    /\ sensitiveNear(s, type) <=> \E k \in 1 .. N : withinHistoryWindow(a[k], b[k])

LEMMA SensitiveTracks ==
    ASSUME NEW s, NEW type, NEW N \in Nat, DOMAIN s = 1 .. N
    PROVE  \E a, b : Tracks(s, N, type, a, b)
<1> DEFINE Opens == SensitiveOpens(s, N)
           Others == OfType(s, N, type)
<1>1. PICK h : /\ h[0] = [sensitive |-> ZeroTime, other |-> ZeroTime, found |-> FALSE]
               /\ \A k \in 1 .. N : h[k] = noteSensitive(h[k - 1], s[k], type)
               /\ sensitiveNear(s, type) = h[N].found
  <2>1. PICK h : IsSensitivePass(s, type, N, h)
    BY SensitivePass
  <2> QED BY <2>1 DEF IsSensitivePass
<1> DEFINE a == [k \in 1 .. N |-> h[k].sensitive]
           b == [k \in 1 .. N |-> h[k].other]
           Good == {k \in 0 .. N :
                      /\ LastOf(s, Opens, k, h[k].sensitive)
                      /\ LastOf(s, Others, k, h[k].other)
                      /\ h[k].found <=>
                            \E m \in 1 .. k : withinHistoryWindow(h[m].sensitive, h[m].other)}
<1>2. 0 \in Good
  BY <1>1 DEF LastOf, SensitiveOpens, OfType
<1>3. ASSUME NEW k \in 0 .. (N - 1), k \in Good PROVE k + 1 \in Good
  <2>1. k + 1 \in 1 .. N /\ (k + 1) - 1 = k
    OBVIOUS
  <2>2. PICK l, e : l = h[k] /\ e = s[k + 1]
    OBVIOUS
  <2>3. PICK x, y : /\ x = IF isSensitiveOpen(e) THEN e.time ELSE l.sensitive
                    /\ y = IF e.type = type THEN e.time ELSE l.other
    OBVIOUS
  <2>4. h[k + 1] = [sensitive |-> x, other |-> y,
                    found |-> l.found \/ withinHistoryWindow(x, y)]
    <3>1. h[k + 1] = noteSensitive(h[k], s[k + 1], type)
      BY <1>1, <2>1
    <3> QED BY <2>2, <2>3, <3>1 DEF noteSensitive
  <2>5. /\ h[k + 1].sensitive = x /\ h[k + 1].other = y
        /\ h[k + 1].found = (l.found \/ withinHistoryWindow(x, y))
    BY <2>4
  <2>6. LastOf(s, Opens, k + 1, x)
    <3>1. x = IF k + 1 \in Opens THEN s[k + 1].time ELSE h[k].sensitive
      BY <2>1, <2>2, <2>3 DEF SensitiveOpens
    <3>2. Opens \in SUBSET (1 .. N) /\ LastOf(s, Opens, k, h[k].sensitive)
      BY <1>3 DEF SensitiveOpens
    <3> HIDE DEF Opens
    <3> QED BY <3>1, <3>2, LastOfNext
  <2>7. LastOf(s, Others, k + 1, y)
    <3>1. y = IF k + 1 \in Others THEN s[k + 1].time ELSE h[k].other
      BY <2>1, <2>2, <2>3 DEF OfType
    <3>2. Others \in SUBSET (1 .. N) /\ LastOf(s, Others, k, h[k].other)
      BY <1>3 DEF OfType
    <3> HIDE DEF Others
    <3> QED BY <3>1, <3>2, LastOfNext
  <2>8. h[k + 1].found <=>
            \E m \in 1 .. (k + 1) : withinHistoryWindow(h[m].sensitive, h[m].other)
    <3>1. \A m : m \in 1 .. (k + 1) <=> m \in 1 .. k \/ m = k + 1
      OBVIOUS
    <3>2. h[k].found <=> \E m \in 1 .. k : withinHistoryWindow(h[m].sensitive, h[m].other)
      BY <1>3
    <3>3. h[k + 1].found <=> h[k].found \/ withinHistoryWindow(h[k + 1].sensitive, h[k + 1].other)
      BY <2>2, <2>5
    <3> QED BY <3>1, <3>2, <3>3
  <2> HIDE DEF Opens, Others
  <2>9. k + 1 \in 0 .. N
    OBVIOUS
  <2> QED BY <2>5, <2>6, <2>7, <2>8, <2>9
<1>4. \A k \in 0 .. N : k \in Good
  <2>1. \A k \in 0 .. (N - 1) : k \in Good => k + 1 \in Good
    BY <1>3
  <2> HIDE DEF Good
  <2> QED BY <1>2, <2>1, CountUp
<1> HIDE DEF Opens, Others
<1>5. /\ \A k \in 1 .. N : LastOf(s, Opens, k, a[k])
      /\ \A k \in 1 .. N : LastOf(s, Others, k, b[k])
  BY <1>4
<1>6. sensitiveNear(s, type) <=> \E k \in 1 .. N : withinHistoryWindow(a[k], b[k])
  <2>1. h[N].found <=> \E m \in 1 .. N : withinHistoryWindow(h[m].sensitive, h[m].other)
    BY <1>4
  <2>2. \A m \in 1 .. N : a[m] = h[m].sensitive /\ b[m] = h[m].other
    OBVIOUS
  <2> HIDE DEF a, b
  <2> QED BY <1>1, <2>1, <2>2
<1> HIDE DEF a, b
<1>7. Tracks(s, N, type, a, b)
  BY <1>5, <1>6 DEF Tracks, Opens, Others
<1> QED BY <1>7

LEMMA SensitiveIsPair ==
    ASSUME NEW s, NEW type, NEW N \in Nat, DOMAIN s = 1 .. N, sensitiveNear(s, type)
    PROVE  SensitivePair(s, type, SensitiveHistoryWindow)
<1> DEFINE Opens == SensitiveOpens(s, N)
           Others == OfType(s, N, type)
<1>0. PICK a, b : Tracks(s, N, type, a, b)
  BY SensitiveTracks
<1>1. /\ \A k \in 1 .. N : LastOf(s, Opens, k, a[k])
      /\ \A k \in 1 .. N : LastOf(s, Others, k, b[k])
      /\ sensitiveNear(s, type) <=> \E k \in 1 .. N : withinHistoryWindow(a[k], b[k])
  BY <1>0 DEF Tracks
<1>2. PICK k \in 1 .. N : withinHistoryWindow(a[k], b[k])
  BY <1>1
<1>3. /\ a[k] # ZeroTime /\ b[k] # ZeroTime
      /\ Abs(a[k] - b[k]) <= SensitiveHistoryWindow
  BY <1>2 DEF withinHistoryWindow
<1>4. PICK i \in Opens : a[k] = s[i].time
  BY <1>1, <1>3 DEF LastOf
<1>5. PICK j \in Others : b[k] = s[j].time
  BY <1>1, <1>3 DEF LastOf
<1> QED BY <1>3, <1>4, <1>5 DEF SensitivePair, SensitiveOpens, OfType

LEMMA PairIsSensitive ==
    ASSUME NEW s, NEW type \in {"connect", "execve"}, NEW N \in Nat, DOMAIN s = 1 .. N,
           NEW back \in Nat, Timed(s, N, back),
           SensitivePair(s, type, SensitiveHistoryWindow - back)
    PROVE  sensitiveNear(s, type)
<1> DEFINE Opens == SensitiveOpens(s, N)
           Others == OfType(s, N, type)
<1>0. PICK a, b : Tracks(s, N, type, a, b)
  BY SensitiveTracks
<1>1. /\ \A k \in 1 .. N : LastOf(s, Opens, k, a[k])
      /\ \A k \in 1 .. N : LastOf(s, Others, k, b[k])
      /\ sensitiveNear(s, type) <=> \E k \in 1 .. N : withinHistoryWindow(a[k], b[k])
  BY <1>0 DEF Tracks
<1>2. PICK i \in Opens, j \in Others :
          Abs(s[i].time - s[j].time) <= SensitiveHistoryWindow - back
  BY DEF SensitivePair, SensitiveOpens, OfType
<1>3. \A x \in Opens, y \in Others : x # y
  BY DEF isSensitiveOpen, SensitiveOpens, OfType
<1>4. \A x \in 1 .. N : s[x].time \in Nat \ {0}
  BY DEF Timed
<1>5. SensitiveHistoryWindow \in Nat
  BY HeuristicsAssumption
<1>6. \A x, y \in 1 .. N : x < y => s[x].time - s[y].time <= back
  BY DEF Timed
(* The last of some places up to one of them is that one. *)
<1>7. ASSUME NEW places \in SUBSET (1 .. N), NEW k \in places, NEW t, LastOf(s, places, k, t)
      PROVE  t = s[k].time
  <2>0. k \in 1 .. N
    BY <1>7
  <2>1. k <= k /\ k \in 1 .. N
    BY <2>0
  <2>2. PICK x \in places : x <= k /\ t = s[x].time /\ \A m \in places : m <= k => m <= x
    BY <1>7, <2>1 DEF LastOf
  <2>3. x \in 1 .. N /\ k <= x
    BY <2>1, <2>2
  <2>4. x = k
    BY <2>1, <2>2, <2>3
  <2> QED BY <2>2, <2>4
(* Up to a later place it is that one or one in between. *)
<1>8. ASSUME NEW places \in SUBSET (1 .. N), NEW k \in 1 .. N, NEW m \in places, m < k,
             NEW t, LastOf(s, places, k, t)
      PROVE  \E x \in places : m <= x /\ x <= k /\ t = s[x].time
  <2>1. m <= k /\ m \in 1 .. N
    BY <1>8
  <2>2. PICK x \in places : x <= k /\ t = s[x].time /\ \A y \in places : y <= k => y <= x
    BY <1>8, <2>1 DEF LastOf
  <2> QED BY <2>1, <2>2
<1>9. CASE i < j
  <2>1. b[j] = s[j].time
    <3>1. Others \in SUBSET (1 .. N) /\ LastOf(s, Others, j, b[j])
      BY <1>1 DEF SensitiveOpens, OfType
    <3> HIDE DEF Others
    <3> QED BY <1>7, <3>1
  <2>2. PICK x \in Opens : i <= x /\ x <= j /\ a[j] = s[x].time
    <3>1. Opens \in SUBSET (1 .. N) /\ LastOf(s, Opens, j, a[j]) /\ j \in 1 .. N
      BY <1>1 DEF SensitiveOpens, OfType
    <3> HIDE DEF Opens, Others
    <3> QED BY <1>8, <1>9, <3>1
  <2>3. x < j /\ x \in 1 .. N /\ i \in 1 .. N /\ j \in 1 .. N
    BY <1>3, <2>2 DEF SensitiveOpens, OfType
  <2>4. s[x].time - s[j].time <= back
    BY <1>6, <2>3
  <2>5. s[i].time - s[x].time <= back
    BY <1>4, <1>6, <2>2, <2>3
  <2>6. withinHistoryWindow(a[j], b[j])
    <3>1. PICK ti, tx, tj : ti = s[i].time /\ tx = s[x].time /\ tj = s[j].time
      OBVIOUS
    <3>2. ti \in Nat \ {0} /\ tx \in Nat \ {0} /\ tj \in Nat \ {0}
      BY <1>4, <2>3, <3>1
    <3>3. tj - ti <= SensitiveHistoryWindow - back /\ back <= SensitiveHistoryWindow
      BY <1>2, <1>5, <3>1, <3>2 DEF Abs
    <3>5. tx - tj <= back /\ ti - tx <= back
      BY <2>4, <2>5, <3>1
    <3>4. Abs(tx - tj) <= SensitiveHistoryWindow
      BY <1>5, <3>2, <3>3, <3>5 DEF Abs
    <3> QED BY <2>1, <2>2, <3>1, <3>2, <3>4 DEF withinHistoryWindow, ZeroTime
  <2> QED BY <1>1, <2>3, <2>6
<1>10. CASE j < i
  <2>1. a[i] = s[i].time
    <3>1. Opens \in SUBSET (1 .. N) /\ LastOf(s, Opens, i, a[i])
      BY <1>1 DEF SensitiveOpens, OfType
    <3> HIDE DEF Opens
    <3> QED BY <1>7, <3>1
  <2>2. PICK x \in Others : j <= x /\ x <= i /\ b[i] = s[x].time
    <3>1. Others \in SUBSET (1 .. N) /\ LastOf(s, Others, i, b[i]) /\ i \in 1 .. N
      BY <1>1 DEF SensitiveOpens, OfType
    <3> HIDE DEF Opens, Others
    <3> QED BY <1>8, <1>10, <3>1
  <2>3. x < i /\ x \in 1 .. N /\ i \in 1 .. N /\ j \in 1 .. N
    BY <1>3, <2>2 DEF SensitiveOpens, OfType
  <2>4. s[x].time - s[i].time <= back
    BY <1>6, <2>3
  <2>5. s[j].time - s[x].time <= back
    BY <1>4, <1>6, <2>2, <2>3
  <2>6. withinHistoryWindow(a[i], b[i])
    <3>1. PICK ti, tx, tj : ti = s[i].time /\ tx = s[x].time /\ tj = s[j].time
      OBVIOUS
    <3>2. ti \in Nat \ {0} /\ tx \in Nat \ {0} /\ tj \in Nat \ {0}
      BY <1>4, <2>3, <3>1
    <3>3. ti - tj <= SensitiveHistoryWindow - back /\ back <= SensitiveHistoryWindow
      BY <1>2, <1>5, <3>1, <3>2 DEF Abs
    <3>5. tx - ti <= back /\ tj - tx <= back
      BY <2>4, <2>5, <3>1
    <3>4. Abs(ti - tx) <= SensitiveHistoryWindow
      BY <1>5, <3>2, <3>3, <3>5 DEF Abs
    <3> QED BY <2>1, <2>2, <3>1, <3>2, <3>4 DEF withinHistoryWindow, ZeroTime
  <2> QED BY <1>1, <2>3, <2>6
<1> QED BY <1>2, <1>3, <1>9, <1>10 DEF SensitiveOpens, OfType

-----------------------------------------------------------------------------
(* t lists what s has at the places, in ascending order: f[a] is the place of
   item a.                                                                  *)
IsPick(f, t, s, places) ==
    /\ Len(t) \in Nat /\ DOMAIN t = 1 .. Len(t)
    /\ f \in [1 .. Len(t) -> places]
    /\ \A a, b \in 1 .. Len(t) : a < b => f[a] < f[b]
    /\ \A i \in places : \E a \in 1 .. Len(t) : f[a] = i
    /\ \A a \in 1 .. Len(t) : t[a] = s[f[a]]

Picks(t, s, places) == \E f : IsPick(f, t, s, places)

LEMMA PicksNone == ASSUME NEW s PROVE Picks(<< >>, s, {})
<1> DEFINE f == [a \in 1 .. 0 |-> 0]
<1>1. Len(<< >>) = 0 /\ DOMAIN << >> = 1 .. 0
  OBVIOUS
<1>2. IsPick(f, << >>, s, {})
  BY <1>1 DEF IsPick
<1> QED BY <1>2 DEF Picks

LEMMA PicksAppend ==
    ASSUME NEW T, NEW t \in Seq(T), NEW s, NEW places \in SUBSET Int, Picks(t, s, places),
           NEW m \in Int, \A i \in places : i < m, NEW x \in T, x = s[m]
    PROVE  Picks(Append(t, x), s, places \cup {m})
<1>1. PICK f : IsPick(f, t, s, places)
  BY DEF Picks
<1>2. PICK n, u : n = Len(t) /\ u = Append(t, x)
  OBVIOUS
<1>3. /\ n \in Nat /\ Len(u) = n + 1 /\ DOMAIN u = 1 .. (n + 1)
      /\ u[n + 1] = x /\ \A a \in 1 .. n : u[a] = t[a]
  BY <1>2, AppendProperties, LenProperties
<1> DEFINE g == [a \in 1 .. (n + 1) |-> IF a = n + 1 THEN m ELSE f[a]]
<1>4. /\ f \in [1 .. n -> places]
      /\ \A a, b \in 1 .. n : a < b => f[a] < f[b]
      /\ \A i \in places : \E a \in 1 .. n : f[a] = i
      /\ \A a \in 1 .. n : t[a] = s[f[a]]
  BY <1>1, <1>2 DEF IsPick
<1>5. /\ \A a \in 1 .. n : g[a] = f[a] /\ a # n + 1 /\ a \in 1 .. (n + 1)
      /\ g[n + 1] = m /\ n + 1 \in 1 .. (n + 1)
      /\ \A a \in 1 .. (n + 1) : a = n + 1 \/ a \in 1 .. n
  BY <1>3
<1>6. g \in [1 .. (n + 1) -> places \cup {m}]
  <2>1. \A a \in 1 .. (n + 1) : (IF a = n + 1 THEN m ELSE f[a]) \in places \cup {m}
    BY <1>4, <1>5
  <2> QED BY <2>1
<1> HIDE DEF g
<1>7. \A a, b \in 1 .. (n + 1) : a < b => g[a] < g[b]
  <2> TAKE a, b \in 1 .. (n + 1)
  <2> HAVE a < b
  <2>1. a \in 1 .. n
    BY <1>3
  <2>2. CASE b = n + 1
    BY <1>4, <1>5, <2>1, <2>2
  <2>3. CASE b \in 1 .. n
    BY <1>4, <1>5, <2>1, <2>3
  <2> QED BY <1>5, <2>2, <2>3
<1>8. \A i \in places \cup {m} : \E a \in 1 .. (n + 1) : g[a] = i
  BY <1>4, <1>5
<1>9. \A a \in 1 .. (n + 1) : u[a] = s[g[a]]
  BY <1>3, <1>4, <1>5
<1>10. IsPick(g, u, s, places \cup {m})
  BY <1>3, <1>6, <1>7, <1>8, <1>9 DEF IsPick
<1> QED BY <1>2, <1>10 DEF Picks

LEMMA OnlyPicks ==
    ASSUME NEW s, NEW N \in Nat, DOMAIN s = 1 .. N, NEW set
    PROVE  /\ Picks(only(s, set), s, {i \in 1 .. N : s[i] \in set})
           /\ only(s, set) \in Seq({s[i] : i \in 1 .. N})
<1>1. PICK h : /\ h[0] = << >>
               /\ \A k \in 1 .. N : h[k] = keepIn(h[k - 1], s[k], set)
               /\ only(s, set) = h[N]
  BY OnlyPass
<1> DEFINE T == {s[i] : i \in 1 .. N}
           Places(k) == {i \in 1 .. k : s[i] \in set}
           Good == {k \in 0 .. N : h[k] \in Seq(T) /\ Picks(h[k], s, Places(k))}
<1>2. 0 \in Good
  <2>1. Places(0) = {}
    OBVIOUS
  <2>2. << >> \in Seq(T)
    BY EmptySeq
  <2>3. Picks(<< >>, s, {}) /\ 0 \in 0 .. N
    BY PicksNone
  <2> HIDE DEF Places, T
  <2> QED BY <1>1, <2>1, <2>2, <2>3
<1>3. ASSUME NEW k \in 0 .. (N - 1), k \in Good PROVE k + 1 \in Good
  <2>1. k + 1 \in 1 .. N /\ (k + 1) - 1 = k /\ k + 1 \in 0 .. N
    OBVIOUS
  <2>2. h[k + 1] = keepIn(h[k], s[k + 1], set)
    BY <1>1, <2>1
  <2>3. PICK x : x = s[k + 1]
    OBVIOUS
  <2>4. x \in T /\ h[k] \in Seq(T) /\ Picks(h[k], s, Places(k))
    BY <1>3, <2>1, <2>3
  <2>5. CASE x \in set
    <3>1. h[k + 1] = Append(h[k], x)
      BY <2>2, <2>3, <2>5 DEF keepIn
    <3>2. Places(k + 1) = Places(k) \cup {k + 1}
      BY <2>3, <2>5
    <3>3. /\ Places(k) \in SUBSET Int /\ k + 1 \in Int
          /\ \A i \in Places(k) : i < k + 1
      OBVIOUS
    <3> HIDE DEF Places, T
    <3>4. Picks(Append(h[k], x), s, Places(k) \cup {k + 1})
      BY <2>3, <2>4, <3>3, PicksAppend
    <3>5. Append(h[k], x) \in Seq(T)
      BY <2>4, AppendProperties
    <3> QED BY <2>1, <3>1, <3>2, <3>4, <3>5
  <2>6. CASE x \notin set
    <3>1. h[k + 1] = h[k]
      BY <2>2, <2>3, <2>6 DEF keepIn
    <3>2. Places(k + 1) = Places(k)
      BY <2>3, <2>6
    <3> HIDE DEF Places, T
    <3> QED BY <2>1, <2>4, <3>1, <3>2
  <2> QED BY <2>5, <2>6
<1>4. N \in Good
  <2>1. \A k \in 0 .. (N - 1) : k \in Good => k + 1 \in Good
    BY <1>3
  <2> HIDE DEF Good
  <2>2. \A k \in 0 .. N : k \in Good
    BY <1>2, <2>1, CountUp
  <2> QED BY <2>2
<1> QED BY <1>1, <1>4

LEMMA Rising ==
    ASSUME NEW n \in Int, NEW f, \A a \in 1 .. n : f[a] \in Int,
           \A a, b \in 1 .. n : a < b => f[a] < f[b]
    PROVE  \A a, b \in 1 .. n : /\ f[a] = f[b] => a = b
                                /\ f[a] < f[b] <=> a < b
                                /\ f[a] <= f[b] <=> a <= b
<1> TAKE a, b \in 1 .. n
<1>1. a < b \/ a = b \/ b < a
  OBVIOUS
<1>2. f[a] \in Int /\ f[b] \in Int /\ (a < b => f[a] < f[b]) /\ (b < a => f[b] < f[a])
  OBVIOUS
<1> QED BY <1>1, <1>2

Rises(f, n) == /\ \A a \in 1 .. n : f[a] \in Int
               /\ \A a, b \in 1 .. n : a < b => f[a] < f[b]

(* As many places as there are items. *)
LEMMA RisingCount ==
    ASSUME NEW n \in Int, NEW f, Rises(f, n),
           NEW R, \A a \in R : a \in 1 .. n, NEW Image, Image = {f[a] : a \in R}
    PROVE  /\ IsFiniteSet(R) /\ IsFiniteSet(Image)
           /\ Cardinality(Image) = Cardinality(R)
<1> DEFINE g == [a \in R |-> f[a]]
<1>1. IsFiniteSet(1 .. n)
  BY FS_Interval
<1>2. IsFiniteSet(R)
  BY <1>1, FS_Subset
<1>3. \A a, b \in R : f[a] = f[b] => a = b
  BY Rising DEF Rises
<1>4. g \in Bijection(R, Image)
  <2>1. g \in [R -> Image]
    OBVIOUS
  <2>2. \A a, b \in R : g[a] = g[b] => a = b
    BY <1>3
  <2>3. \A y \in Image : \E a \in R : g[a] = y
    OBVIOUS
  <2> QED BY <2>1, <2>2, <2>3 DEF Bijection, Injection, Surjection, IsInjective
<1>5. ExistsBijection(R, Image)
  BY <1>4 DEF ExistsBijection
<1> QED BY <1>2, <1>5, FS_Bijection

Counted(s, N, type) == {i \in 1 .. N : countsForBurst(s[i], type)}

LEMMA BurstEventsPick ==
    ASSUME NEW s, NEW N \in Nat, DOMAIN s = 1 .. N, NEW type
    PROVE  Picks(burstEvents(s, type), s, Counted(s, N, type))
<1>1. PICK set : set = {e \in Range(s) : countsForBurst(e, type)}
  OBVIOUS
<1>2. burstEvents(s, type) = only(s, set)
  BY <1>1 DEF burstEvents
<1>3. Picks(only(s, set), s, {i \in 1 .. N : s[i] \in set})
  BY OnlyPicks
<1>4. {i \in 1 .. N : s[i] \in set} = Counted(s, N, type)
  BY <1>1 DEF Counted, Range
<1> QED BY <1>2, <1>3, <1>4

LEMMA BurstHasGroup ==
    ASSUME NEW s, NEW N \in Nat, DOMAIN s = 1 .. N, NEW back \in Nat, Timed(s, N, back),
           NEW type \in DOMAIN BurstThreshold, BurstThreshold[type] # 1,
           detectBurstEvent(s, type)
    PROVE  Burst(s, type, BurstWindow + 2 * back)
<1>1. PICK window, n : window = burstEvents(s, type) /\ n = BurstThreshold[type]
  OBVIOUS
<1>2. n \in Nat /\ n > 1 /\ BurstWindow \in Nat
  BY <1>1, HeuristicsAssumption
<1>3. PICK k \in DOMAIN window :
          k >= n /\ window[k].time - window[k - n + 1].time <= BurstWindow
  BY <1>1, <1>2 DEF detectBurstEvent
<1>4. PICK f : IsPick(f, window, s, Counted(s, N, type))
  BY <1>1, BurstEventsPick DEF Picks
<1>5. PICK m : m = Len(window)
  OBVIOUS
<1>6. /\ m \in Nat /\ DOMAIN window = 1 .. m /\ f \in [1 .. m -> Counted(s, N, type)]
      /\ \A a, b \in 1 .. m : a < b => f[a] < f[b]
      /\ \A a \in 1 .. m : window[a] = s[f[a]]
  BY <1>4, <1>5 DEF IsPick
<1>7. \A a \in 1 .. m : f[a] \in 1 .. N /\ f[a] \in Int
  BY <1>6 DEF Counted
<1> DEFINE first == k - n + 1
           Run == first .. k
           group == {f[a] : a \in Run}
<1>8. k \in 1 .. m /\ first \in 1 .. m /\ first <= k /\ Run \in SUBSET (1 .. m)
  BY <1>2, <1>3, <1>6
<1>9. Cardinality(group) = n
  <2>1. Cardinality(Run) = n
    BY <1>2, <1>8, FS_Interval
  <2>2. m \in Int /\ Rises(f, m)
    BY <1>6, <1>7 DEF Rises
  <2>3. \A a \in Run : a \in 1 .. m
    BY <1>8
  <2>4. group = {f[a] : a \in Run}
    OBVIOUS
  <2> HIDE DEF Run, group
  <2>5. Cardinality(group) = Cardinality(Run)
    BY <2>2, <2>3, <2>4, RisingCount
  <2> QED BY <2>1, <2>5
<1>10. group \in SUBSET {i \in DOMAIN s : countsForBurst(s[i], type)}
  BY <1>6, <1>8 DEF Counted
<1>11. \A a \in Run : f[first] <= f[a] /\ f[a] <= f[k]
  BY <1>6, <1>7, <1>8, Rising
<1>12. \A i, j \in 1 .. N : i <= j => s[i].time - s[j].time <= back
  <2>1. \A i, j \in 1 .. N : i = j \/ i < j => s[i].time - s[j].time <= back
    BY DEF Timed
  <2> QED BY <2>1
<1>13. \A a, b \in Run : s[f[a]].time - s[f[b]].time <= BurstWindow + 2 * back
  <2> TAKE a, b \in Run
  <2>1. /\ a \in 1 .. m /\ b \in 1 .. m
        /\ f[a] \in 1 .. N /\ f[b] \in 1 .. N /\ f[first] \in 1 .. N /\ f[k] \in 1 .. N
    BY <1>7, <1>8
  <2>2. /\ s[f[a]].time - s[f[k]].time <= back
        /\ s[f[first]].time - s[f[b]].time <= back
    BY <1>11, <1>12, <2>1
  <2>3. s[f[k]].time - s[f[first]].time <= BurstWindow
    BY <1>3, <1>6, <1>8
  <2>4. PICK ta, tb, tk, t1 : /\ ta = s[f[a]].time /\ tb = s[f[b]].time
                              /\ tk = s[f[k]].time /\ t1 = s[f[first]].time
    OBVIOUS
  <2>5. ta \in Int /\ tb \in Int /\ tk \in Int /\ t1 \in Int
    BY <2>1, <2>4 DEF Timed
  <2>6. ta - tk <= back /\ t1 - tb <= back /\ tk - t1 <= BurstWindow
    BY <2>2, <2>3, <2>4
  <2>7. ta - tb <= BurstWindow + 2 * back
    BY <1>2, <2>5, <2>6
  <2> QED BY <2>4, <2>7
<1>14. \A i, j \in group : s[i].time - s[j].time <= BurstWindow + 2 * back
  BY <1>13
<1> HIDE DEF group
<1> QED BY <1>1, <1>9, <1>10, <1>14 DEF Burst

LEMMA GroupIsBurst ==
    ASSUME NEW s, NEW N \in Nat, DOMAIN s = 1 .. N, NEW back \in Nat, Timed(s, N, back),
           NEW type \in DOMAIN BurstThreshold, Burst(s, type, BurstWindow - back)
    PROVE  detectBurstEvent(s, type)
<1>1. PICK window, n : window = burstEvents(s, type) /\ n = BurstThreshold[type]
  OBVIOUS
<1>2. n \in Nat /\ n >= 1 /\ BurstWindow \in Nat
  BY <1>1, HeuristicsAssumption
<1>4. PICK f : IsPick(f, window, s, Counted(s, N, type))
  BY <1>1, BurstEventsPick DEF Picks
<1>5. PICK m : m = Len(window)
  OBVIOUS
<1>6. /\ m \in Nat /\ DOMAIN window = 1 .. m /\ f \in [1 .. m -> Counted(s, N, type)]
      /\ \A a, b \in 1 .. m : a < b => f[a] < f[b]
      /\ \A a \in 1 .. m : window[a] = s[f[a]]
      /\ \A i \in Counted(s, N, type) : \E a \in 1 .. m : f[a] = i
  BY <1>4, <1>5 DEF IsPick
<1>7. \A a \in 1 .. m : f[a] \in 1 .. N /\ f[a] \in Int
  BY <1>6 DEF Counted
<1>8. PICK group \in SUBSET Counted(s, N, type) :
          /\ Cardinality(group) = n
          /\ \A i, j \in group : s[i].time - s[j].time <= BurstWindow - back
  BY <1>1 DEF Burst, Counted
<1> DEFINE R == {a \in 1 .. m : f[a] \in group}
<1>9. {f[a] : a \in R} = group
  BY <1>6
<1>10. IsFiniteSet(R) /\ Cardinality(R) = n
  <2>1. m \in Int /\ Rises(f, m)
    BY <1>6, <1>7 DEF Rises
  <2>2. \A a \in R : a \in 1 .. m
    OBVIOUS
  <2> HIDE DEF R
  <2>3. group = {f[a] : a \in R}
    BY <1>9
  <2>4. IsFiniteSet(R) /\ Cardinality(group) = Cardinality(R)
    BY <2>1, <2>2, <2>3, RisingCount
  <2> QED BY <1>8, <2>4
<1>11. R # {}
  <2> HIDE DEF R
  <2> QED BY <1>2, <1>10, FS_EmptySet
<1>12. PICK k : k \in R /\ \A a \in R : a <= k
  <2>1. R \subseteq 1 .. m
    OBVIOUS
  <2> HIDE DEF R
  <2>2. Max(R) \in R /\ \A a \in R : a <= Max(R)
    BY <1>6, <1>11, <2>1, Greatest
  <2> QED BY <2>2
<1>13. PICK l \in R : \A a \in R : l <= a
  <2>1. R \subseteq Nat
    OBVIOUS
  <2> HIDE DEF R
  <2> QED BY <1>11, <2>1, Least
<1>14. k \in 1 .. m /\ l \in 1 .. m /\ f[k] \in group /\ f[l] \in group /\ l <= k
  BY <1>12, <1>13
<1>15. n <= k - l + 1
  <2>1. R \in SUBSET (l .. k)
    BY <1>12, <1>13
  <2>2. IsFiniteSet(l .. k) /\ Cardinality(l .. k) = k - l + 1
    BY <1>14, FS_Interval
  <2> HIDE DEF R
  <2>3. Cardinality(R) <= Cardinality(l .. k)
    BY <2>1, <2>2, FS_Subset
  <2> QED BY <1>10, <2>2, <2>3
<1> DEFINE first == k - n + 1
<1>16. first \in 1 .. m /\ l <= first /\ k >= n
  <2>1. m \in Nat /\ k \in Int /\ l \in Int /\ 1 <= l /\ k <= m
    BY <1>6, <1>14
  <2> QED BY <1>2, <1>15, <2>1
<1>17. f[l] <= f[first]
  <2> HIDE DEF first
  <2> QED BY <1>6, <1>7, <1>14, <1>16, Rising
<1>18. /\ f[k] \in 1 .. N /\ f[l] \in 1 .. N /\ f[first] \in 1 .. N
  BY <1>7, <1>14, <1>16
<1> HIDE DEF R
<1>19. window[k].time - window[first].time <= BurstWindow
  <2>1. s[f[k]].time - s[f[l]].time <= BurstWindow - back
    BY <1>8, <1>14
  <2>2. PICK tk, tl, t1 : tk = s[f[k]].time /\ tl = s[f[l]].time /\ t1 = s[f[first]].time
    OBVIOUS
  <2>3. tk \in Int /\ tl \in Int /\ t1 \in Int
    BY <1>18, <2>2 DEF Timed
  <2>4. tl - t1 <= back
    <3>1. CASE f[l] = f[first]
      BY <2>2, <2>3, <3>1
    <3>2. CASE f[l] < f[first]
      <4> HIDE DEF first
      <4> QED BY <1>18, <2>2, <3>2 DEF Timed
    <3> HIDE DEF first
    <3> QED BY <1>17, <1>18, <3>1, <3>2
  <2>5. window[k] = s[f[k]] /\ window[first] = s[f[first]]
    BY <1>6, <1>14, <1>16
  <2>6. tk - tl <= BurstWindow - back
    BY <2>1, <2>2
  <2>7. tk - t1 <= BurstWindow
    BY <1>2, <2>3, <2>4, <2>6
  <2> QED BY <2>2, <2>5, <2>7
<1> QED BY <1>1, <1>6, <1>14, <1>16, <1>19 DEF detectBurstEvent

-----------------------------------------------------------------------------
(* The events that may be recorded: an event is at least one, and none is
   older than an earlier one by more than MaxBack.                          *)
RecordInv ==
    /\ Len(recent) \in Nat /\ DOMAIN recent = 1 .. Len(recent)
    /\ recent \in Seq(Range(recent))
    /\ Timed(recent, Len(recent), MaxBack)

LEMMA RecordInvariance == RecordSpec => []RecordInv
<1>1. RecordInit => RecordInv
  <2> SUFFICES ASSUME recent = << >> PROVE RecordInv
    BY DEF RecordInit
  <2>1. Len(<< >>) = 0 /\ DOMAIN << >> = 1 .. 0 /\ << >> \in Seq(Range(<< >>))
    BY EmptySeq
  <2>2. Timed(<< >>, 0, MaxBack)
    BY DEF Timed
  <2> QED BY <2>1, <2>2 DEF RecordInv
<1>2. RecordInv /\ [RecordNext]_recent => RecordInv'
  <2> SUFFICES ASSUME RecordInv, RecordNext PROVE RecordInv'
    BY DEF RecordInv, Range
  <2>1. PICK shape \in Shapes, t \in 1 .. MaxTime :
          /\ \A i \in DOMAIN recent : recent[i].time - t <= MaxBack
          /\ recent' = Append(recent, [type |-> shape.type, target |-> shape.target,
                                       writes |-> shape.writes, time |-> t])
    BY DEF RecordNext
  <2>2. PICK e : e = [type |-> shape.type, target |-> shape.target,
                      writes |-> shape.writes, time |-> t]
    OBVIOUS
  <2>3. PICK n, new : n = Len(recent) /\ new = Append(recent, e)
    OBVIOUS
  <2>4. /\ n \in Nat /\ DOMAIN recent = 1 .. n /\ recent \in Seq(Range(recent))
        /\ Timed(recent, n, MaxBack)
    BY <2>3 DEF RecordInv
  <2>5. /\ e.time = t /\ t \in Nat \ {0} /\ MaxBack \in Nat
    BY <2>2, RecordAssumption
  <2>6. PICK T : T = Range(recent) \cup {e}
    OBVIOUS
  <2>7. recent \in Seq(T) /\ e \in T
    <3>1. \A i \in 1 .. n : recent[i] \in T
      BY <2>4, <2>6 DEF Range
    <3> QED BY <2>3, <2>4, <2>6, <3>1, ElementOfSeq, SeqDef
  <2>8. /\ new \in Seq(T) /\ Len(new) = n + 1 /\ DOMAIN new = 1 .. (n + 1)
        /\ new[n + 1] = e /\ \A i \in 1 .. n : new[i] = recent[i]
    BY <2>3, <2>4, <2>7, AppendProperties, LenProperties
  <2>9. new \in Seq(Range(new))
    <3>1. \A i \in 1 .. (n + 1) : new[i] \in Range(new)
      BY <2>8 DEF Range
    <3> QED BY <2>4, <2>8, <3>1, SeqDef
  <2>10. Timed(new, n + 1, MaxBack)
    <3>1. \A i \in 1 .. (n + 1) : i = n + 1 \/ i \in 1 .. n
      BY <2>4
    <3>2. \A i \in 1 .. (n + 1) : new[i].time \in Nat \ {0}
      BY <2>4, <2>5, <2>8, <3>1 DEF Timed
    <3>3. ASSUME NEW i \in 1 .. (n + 1), NEW j \in 1 .. (n + 1), i < j
          PROVE  new[i].time - new[j].time <= MaxBack
      <4>1. i \in 1 .. n
        BY <2>4, <3>3
      <4>2. CASE j = n + 1
        BY <2>1, <2>4, <2>5, <2>8, <4>1, <4>2
      <4>3. CASE j \in 1 .. n
        BY <2>4, <2>8, <3>3, <4>1, <4>3 DEF Timed
      <4> QED BY <3>1, <4>2, <4>3
    <3> QED BY <3>2, <3>3 DEF Timed
  <2>11. recent' = new
    BY <2>1, <2>2, <2>3
  <2>12. n + 1 \in Nat
    BY <2>4
  <2> QED BY <2>8, <2>9, <2>10, <2>11, <2>12 DEF RecordInv
<1> QED BY <1>1, <1>2, PTL DEF RecordSpec

(* A write and a later exec of one path, and a connect and a later exec, are
   found in any list of events, and nothing else is (history.go:26-59).     *)
THEOREM ThenExecFound == RecordSpec => []ThenExecIsPair
<1>1. RecordInv => ThenExecIsPair
  BY WriteExecIsPair, ConnectExecIsPair DEF RecordInv, ThenExecIsPair
<1> QED BY <1>1, RecordInvariance, PTL

(* Remembering the last sensitive open and the last connect or exec only loses
   no pair within the window but for the disorder of the times, however many
   of each there are (history.go:61-124).  The times are known: they are at
   least 1, and the zero time, which compares with no other, is excluded.   *)
THEOREM SensitiveFound == RecordSpec => []SensitivePairIsFound
<1>1. RecordInv => SensitivePairIsFound
  BY SensitiveIsPair, PairIsSensitive, RecordAssumption DEF RecordInv, SensitivePairIsFound
<1> QED BY <1>1, RecordInvariance, PTL

(* The pass over the counted events finds a burst exactly if there is one, but
   for the disorder of the times, which counts twice where a burst is found:
   for every threshold and window (history.go:126-155).                     *)
THEOREM BurstsFound == RecordSpec => []BurstIsGroup
<1>1. RecordInv => BurstIsGroup
  <2> SUFFICES ASSUME RecordInv, NEW type \in DOMAIN BurstThreshold
               PROVE  /\ detectBurstEvent(recent, type)
                             => \/ BurstThreshold[type] = 1
                                \/ Burst(recent, type, BurstWindow + 2 * MaxBack)
                      /\ Burst(recent, type, BurstWindow - MaxBack)
                             => detectBurstEvent(recent, type)
    BY DEF BurstIsGroup
  <2>1. PICK n : n = Len(recent)
    OBVIOUS
  <2>2. n \in Nat /\ DOMAIN recent = 1 .. n /\ Timed(recent, n, MaxBack) /\ MaxBack \in Nat
    BY <2>1, RecordAssumption DEF RecordInv
  <2>3. ASSUME BurstThreshold[type] # 1, detectBurstEvent(recent, type)
        PROVE  Burst(recent, type, BurstWindow + 2 * MaxBack)
    BY <2>2, <2>3, BurstHasGroup
  <2>4. ASSUME Burst(recent, type, BurstWindow - MaxBack)
        PROVE  detectBurstEvent(recent, type)
    BY <2>2, <2>4, GroupIsBurst
  <2> QED BY <2>3, <2>4
<1> QED BY <1>1, RecordInvariance, PTL

-----------------------------------------------------------------------------
(* One list of places inside another: item a of the one is item h[a] of the
   other.                                                                   *)
Climbs(h, U, T) ==
    /\ h \in [1 .. U -> 1 .. T]
    /\ \A a, b \in 1 .. U : a < b => h[a] < h[b]

LEMMA ClimbsAhead ==
    ASSUME NEW U \in Nat, NEW T \in Nat, NEW h, Climbs(h, U, T)
    PROVE  (\A a \in 1 .. U : a <= h[a]) /\ U <= T
<1> DEFINE Good == {k \in 0 .. U : k = 0 \/ k <= h[k]}
<1>1. 0 \in Good
  OBVIOUS
<1>2. \A k \in 0 .. (U - 1) : k \in Good => k + 1 \in Good
  <2> TAKE k \in 0 .. (U - 1)
  <2> HAVE k \in Good
  <2>1. k + 1 \in 1 .. U /\ h[k + 1] \in Int /\ h[k + 1] >= 1
    BY DEF Climbs
  <2>2. CASE k = 0
    BY <2>1, <2>2
  <2>3. CASE k # 0
    <3>1. k \in 1 .. U /\ k <= h[k] /\ h[k] < h[k + 1] /\ h[k] \in Int
      BY <2>1, <2>3 DEF Climbs
    <3> QED BY <2>1, <3>1
  <2> QED BY <2>2, <2>3
<1>3. \A k \in 0 .. U : k \in Good
  <2> HIDE DEF Good
  <2> QED BY <1>1, <1>2, CountUp
<1>4. \A a \in 1 .. U : a <= h[a]
  BY <1>3
<1>5. U <= T
  <2>1. CASE U # 0
    <3>1. U \in 1 .. U /\ h[U] \in 1 .. T
      BY <2>1 DEF Climbs
    <3> QED BY <1>4, <3>1
  <2> QED BY <2>1
<1> QED BY <1>4, <1>5

LEMMA PickInto ==
    ASSUME NEW t, NEW s, NEW I \in SUBSET Int, NEW g, IsPick(g, t, s, I),
           NEW u, NEW r, NEW J \in SUBSET Int, NEW f, IsPick(f, u, r, J),
           NEW c \in Int, \A j \in J : j + c \in I
    PROVE  \E h : /\ Climbs(h, Len(u), Len(t))
                  /\ \A a \in 1 .. Len(u) : g[h[a]] = f[a] + c
<1>1. PICK U, T : U = Len(u) /\ T = Len(t)
  OBVIOUS
<1>2. /\ T \in Nat /\ g \in [1 .. T -> I]
      /\ \A a, b \in 1 .. T : a < b => g[a] < g[b]
      /\ \A i \in I : \E a \in 1 .. T : g[a] = i
  BY <1>1 DEF IsPick
<1>3. /\ U \in Nat /\ f \in [1 .. U -> J]
      /\ \A a, b \in 1 .. U : a < b => f[a] < f[b]
  BY <1>1 DEF IsPick
<1> DEFINE h == [a \in 1 .. U |-> CHOOSE b \in 1 .. T : g[b] = f[a] + c]
<1>4. \A a \in 1 .. U : h[a] \in 1 .. T /\ g[h[a]] = f[a] + c
  <2>1. \A a \in 1 .. U : \E b \in 1 .. T : g[b] = f[a] + c
    BY <1>2, <1>3
  <2> QED BY <2>1
<1>5. h \in [1 .. U -> 1 .. T]
  BY <1>4
<1> HIDE DEF h
<1>6. \A a, b \in 1 .. U : a < b => h[a] < h[b]
  <2> SUFFICES ASSUME NEW a \in 1 .. U, NEW b \in 1 .. U, a < b, ~(h[a] < h[b])
               PROVE  FALSE
    OBVIOUS
  <2>1. PICK x, y : x = h[a] /\ y = h[b]
    OBVIOUS
  <2>2. x \in 1 .. T /\ y \in 1 .. T /\ (y < x \/ y = x)
    BY <1>4, <2>1
  <2>3. g[x] = f[a] + c /\ g[y] = f[b] + c /\ f[a] < f[b]
    BY <1>3, <1>4, <2>1
  <2>4. f[a] \in Int /\ f[b] \in Int
    BY <1>3
  <2>5. g[y] <= g[x]
    BY <1>2, <2>2, <2>3, <2>4
  <2> QED BY <2>3, <2>4, <2>5
<1>7. Climbs(h, U, T)
  BY <1>5, <1>6 DEF Climbs
<1> QED BY <1>1, <1>4, <1>7

(* What is listed from later places on is the end of the list. *)
LEMMA PicksSuffix ==
    ASSUME NEW s, NEW I \in SUBSET Int, NEW n \in Int, NEW t, NEW u,
           Picks(t, s, I), Picks(u, s, {i \in I : i > n})
    PROVE  IsSuffix(u, t)
<1>1. PICK J : J = {i \in I : i > n}
  OBVIOUS
<1>2. PICK f, g : IsPick(f, u, s, J) /\ IsPick(g, t, s, I)
  BY <1>1 DEF Picks
<1>3. PICK U, T : U = Len(u) /\ T = Len(t)
  OBVIOUS
<1>4. PICK h : Climbs(h, U, T) /\ \A a \in 1 .. U : g[h[a]] = f[a] + 0
  <2>1. J \in SUBSET Int
    BY <1>1
  <2>2. \A j \in J : j \in Int /\ j \in I
    BY <1>1
  <2>3. \A j \in J : j + 0 \in I
    BY <2>2
  <2> QED BY <1>2, <1>3, <2>1, <2>3, PickInto
<1>5. /\ T \in Nat /\ g \in [1 .. T -> I]
      /\ \A a, b \in 1 .. T : a < b => g[a] < g[b]
      /\ \A a \in 1 .. T : t[a] = s[g[a]]
  BY <1>2, <1>3 DEF IsPick
<1>6. /\ U \in Nat /\ f \in [1 .. U -> J]
      /\ \A j \in J : \E a \in 1 .. U : f[a] = j
      /\ \A a \in 1 .. U : u[a] = s[f[a]]
  BY <1>2, <1>3 DEF IsPick
<1>7. /\ h \in [1 .. U -> 1 .. T]
      /\ \A a, b \in 1 .. U : a < b => h[a] < h[b]
      /\ \A a \in 1 .. U : g[h[a]] = f[a]
  <2>1. \A a \in 1 .. U : f[a] \in Int
    BY <1>1, <1>6
  <2> QED BY <1>4, <2>1 DEF Climbs
<1>8. \A a \in 1 .. U, b \in 1 .. T : h[a] <= b => \E c \in 1 .. U : h[c] = b
  <2> SUFFICES ASSUME NEW a \in 1 .. U, NEW b \in 1 .. T, h[a] <= b
               PROVE  \E c \in 1 .. U : h[c] = b
    OBVIOUS
  <2>1. h[a] \in 1 .. T /\ (h[a] = b \/ h[a] < b)
    BY <1>7
  <2>2. g[b] \in I /\ g[h[a]] \in Int /\ g[h[a]] > n /\ g[b] \in Int
    BY <1>1, <1>5, <1>6, <1>7, <2>1
  <2>3. g[b] > n
    BY <1>5, <2>1, <2>2
  <2>4. PICK c \in 1 .. U : f[c] = g[b]
    BY <1>1, <1>6, <2>2, <2>3
  <2>5. h[c] \in 1 .. T /\ g[h[c]] = g[b]
    BY <1>7, <2>4
  <2>6. \A i \in 1 .. T : g[i] \in Int
    BY <1>5
  <2>7. h[c] = b
    BY <1>5, <2>5, <2>6
  <2> QED BY <2>7
<1>9. \A a \in 1 .. U : h[U - a + 1] = T - a + 1
  <2> DEFINE Good == {k \in 0 .. U : k = 0 \/ h[U - k + 1] = T - k + 1}
  <2>1. 0 \in Good
    BY <1>6
  <2>2. \A k \in 0 .. (U - 1) : k \in Good => k + 1 \in Good
    <3> TAKE k \in 0 .. (U - 1)
    <3> HAVE k \in Good
    <3>1. PICK p : p = U - k
      OBVIOUS
    <3>2. p \in 1 .. U /\ h[p] \in 1 .. T /\ U - (k + 1) + 1 = p /\ T - (k + 1) + 1 = T - k
      BY <1>5, <1>6, <1>7, <3>1
    <3>3. h[p] <= T - k
      <4>1. CASE k = 0
        BY <1>5, <3>2, <4>1
      <4>2. CASE k # 0
        <5>1. p + 1 \in 1 .. U /\ U - k + 1 = p + 1
          BY <1>6, <3>1, <3>2, <4>2
        <5>2. h[p + 1] = T - k + 1 /\ h[p] < h[p + 1]
          BY <1>7, <3>2, <4>2, <5>1
        <5> QED BY <1>5, <3>2, <5>2
      <4> QED BY <4>1, <4>2
    <3>4. T - k \in 1 .. T
      BY <1>5, <3>2, <3>3
    <3>5. PICK c \in 1 .. U : h[c] = T - k
      BY <1>8, <3>2, <3>3, <3>4
    <3>6. c <= p
      <4>1. CASE k = 0
        BY <1>6, <3>1, <4>1
      <4>2. CASE k # 0
        <5>1. p + 1 \in 1 .. U /\ h[p + 1] = T - k + 1
          BY <1>6, <3>1, <3>2, <4>2
        <5>2. ~(p + 1 < c) /\ p + 1 # c
          BY <1>5, <1>7, <3>5, <5>1
        <5> QED BY <3>2, <5>2
      <4> QED BY <4>1, <4>2
    <3>7. h[c] <= h[p]
      BY <1>7, <3>2, <3>6
    <3>8. h[p] = T - k
      BY <1>5, <3>2, <3>3, <3>5, <3>7
    <3>9. k + 1 \in 0 .. U /\ T - (k + 1) + 1 = T - k
      <4>1. U \in Nat /\ T \in Nat
        BY <1>5, <1>6
      <4> QED BY <4>1
    <3>10. h[U - (k + 1) + 1] = T - (k + 1) + 1
      BY <3>2, <3>8, <3>9
    <3> QED BY <3>9, <3>10
  <2> HIDE DEF Good
  <2>3. \A k \in 0 .. U : k \in Good
    BY <1>6, <2>1, <2>2, CountUp
  <2> QED BY <2>3 DEF Good
<1>10. U <= T
  BY <1>4, <1>5, <1>6, ClimbsAhead
<1>11. \A a \in 1 .. U : u[U - a + 1] = t[T - a + 1]
  <2> TAKE a \in 1 .. U
  <2>1. U - a + 1 \in 1 .. U
    BY <1>6
  <2>2. PICK b, c : b = U - a + 1 /\ c = T - a + 1
    OBVIOUS
  <2>3. b \in 1 .. U /\ h[b] = c /\ h[b] \in 1 .. T
    BY <1>7, <1>9, <2>1, <2>2
  <2>4. u[b] = t[c]
    BY <1>5, <1>6, <1>7, <2>3
  <2> QED BY <2>2, <2>4
<1>12. PICK ru, rt : ru = Reverse(u) /\ rt = Reverse(t)
  OBVIOUS
<1>13. /\ ru = [i \in 1 .. U |-> u[(U - i) + 1]] /\ rt = [i \in 1 .. T |-> t[(T - i) + 1]]
  BY <1>3, <1>12 DEF Reverse
<1>14. PICK S : S = {rt[i] : i \in 1 .. T}
  OBVIOUS
<1>15. /\ \A i \in 1 .. U : ru[i] = rt[i] /\ rt[i] \in S
  BY <1>5, <1>6, <1>10, <1>11, <1>13, <1>14
<1>16. ru \in Seq(S) /\ rt \in Seq(S)
  <2>1. ru \in [1 .. U -> S] /\ rt \in [1 .. T -> S]
    BY <1>13, <1>14, <1>15
  <2> QED BY <1>5, <1>6, <2>1, SeqDef
<1>17. Len(ru) = U /\ Len(rt) = T
  BY <1>5, <1>6, <1>13, <1>16
<1>18. SubSeq(ru, 1, U) = SubSeq(rt, 1, U)
  <2>1. /\ SubSeq(ru, 1, U) \in Seq(S)
        /\ Len(SubSeq(ru, 1, U)) = IF 1 <= U THEN U - 1 + 1 ELSE 0
        /\ \A i \in 1 .. U - 1 + 1 : SubSeq(ru, 1, U)[i] = ru[1 + i - 1]
    BY <1>6, <1>15, SubSeqProperties
  <2>2. /\ SubSeq(rt, 1, U) \in Seq(S)
        /\ Len(SubSeq(rt, 1, U)) = IF 1 <= U THEN U - 1 + 1 ELSE 0
        /\ \A i \in 1 .. U - 1 + 1 : SubSeq(rt, 1, U)[i] = rt[1 + i - 1]
    BY <1>6, <1>15, SubSeqProperties
  <2>3. PICK x, y : x = SubSeq(ru, 1, U) /\ y = SubSeq(rt, 1, U)
    OBVIOUS
  <2>4. x \in Seq(S) /\ y \in Seq(S) /\ Len(x) = U /\ Len(y) = U
    BY <1>6, <2>1, <2>2, <2>3
  <2>5. \A i \in 1 .. U : x[i] = ru[i] /\ y[i] = rt[i]
    <3> TAKE i \in 1 .. U
    <3>1. i \in 1 .. U - 1 + 1 /\ 1 + i - 1 = i
      BY <1>6
    <3> QED BY <2>1, <2>2, <2>3, <3>1
  <2>6. x \in [1 .. U -> S] /\ y \in [1 .. U -> S]
    BY <2>4, LenProperties
  <2>7. \A i \in 1 .. U : x[i] = y[i]
    BY <1>15, <2>5
  <2>8. x = y
    <3>1. PICK D : D = 1 .. U
      OBVIOUS
    <3>2. x \in [D -> S] /\ y \in [D -> S] /\ \A i \in D : x[i] = y[i]
      BY <2>6, <2>7, <3>1
    <3> QED BY <3>2
  <2> QED BY <2>3, <2>8
<1>19. IsPrefix(ru, rt)
  BY <1>10, <1>17, <1>18 DEF IsPrefix
<1> QED BY <1>12, <1>19 DEF IsSuffix

LEMMA PicksSame ==
    ASSUME NEW t, NEW s, NEW I, Picks(t, s, I), NEW r, \A i \in I : r[i] = s[i]
    PROVE  Picks(t, r, I)
<1>1. PICK f : IsPick(f, t, s, I)
  BY DEF Picks
<1>2. \A a \in 1 .. Len(t) : t[a] = r[f[a]]
  BY <1>1 DEF IsPick
<1>3. IsPick(f, t, r, I)
  BY <1>1, <1>2 DEF IsPick
<1> QED BY <1>3 DEF Picks

(* The places K are those that f takes J to. *)
IsImage(K, f, J) == /\ \A a \in J : f[a] \in K
                    /\ \A i \in K : \E a \in J : f[a] = i

(* A list of some items of a list of some items. *)
LEMMA PicksOfPicks ==
    ASSUME NEW t, NEW s, NEW I \in SUBSET Int, NEW f, IsPick(f, t, s, I),
           NEW u, NEW J \in SUBSET (1 .. Len(t)), Picks(u, t, J), NEW K, IsImage(K, f, J)
    PROVE  Picks(u, s, K)
<1>1. PICK g : IsPick(g, u, t, J)
  BY DEF Picks
<1>2. PICK U, T : U = Len(u) /\ T = Len(t)
  OBVIOUS
<1>3. /\ T \in Nat /\ f \in [1 .. T -> I]
      /\ \A a, b \in 1 .. T : a < b => f[a] < f[b]
      /\ \A a \in 1 .. T : t[a] = s[f[a]]
  BY <1>2 DEF IsPick
<1>4. /\ U \in Nat /\ DOMAIN u = 1 .. U /\ g \in [1 .. U -> J]
      /\ \A a, b \in 1 .. U : a < b => g[a] < g[b]
      /\ \A j \in J : \E a \in 1 .. U : g[a] = j
      /\ \A a \in 1 .. U : u[a] = t[g[a]]
  BY <1>1, <1>2 DEF IsPick
<1>5. J \in SUBSET (1 .. T)
  BY <1>2
<1>6. /\ \A a \in J : f[a] \in K
      /\ \A i \in K : \E a \in J : f[a] = i
  BY DEF IsImage
<1> DEFINE p == [a \in 1 .. U |-> f[g[a]]]
<1>7. p \in [1 .. U -> K]
  BY <1>4, <1>6
<1>8. \A a \in 1 .. U : p[a] = f[g[a]] /\ g[a] \in 1 .. T
  BY <1>4, <1>5
<1> HIDE DEF p
<1>9. \A a, b \in 1 .. U : a < b => p[a] < p[b]
  BY <1>3, <1>4, <1>8
<1>10. \A i \in K : \E a \in 1 .. U : p[a] = i
  BY <1>4, <1>6, <1>8
<1>11. \A a \in 1 .. U : u[a] = s[p[a]]
  BY <1>3, <1>4, <1>8
<1>12. IsPick(p, u, s, K)
  BY <1>2, <1>4, <1>7, <1>9, <1>10, <1>11 DEF IsPick
<1> QED BY <1>6, <1>12 DEF Picks

(* Without the first item. *)
LEMMA PicksTail ==
    ASSUME NEW T, NEW t \in Seq(T), NEW s, NEW I \in SUBSET Int,
           NEW f, IsPick(f, t, s, I), Len(t) >= 1
    PROVE  Picks(SubSeq(t, 2, Len(t)), s, {i \in I : i > f[1]})
<1>1. PICK n, u : n = Len(t) /\ u = SubSeq(t, 2, n)
  OBVIOUS
<1>2. /\ n \in Nat /\ n >= 1 /\ f \in [1 .. n -> I]
      /\ \A a, b \in 1 .. n : a < b => f[a] < f[b]
      /\ \A i \in I : \E a \in 1 .. n : f[a] = i
      /\ \A a \in 1 .. n : t[a] = s[f[a]]
  BY <1>1 DEF IsPick
<1>3. \A a \in 1 .. n : f[a] \in Int
  BY <1>2
<1>4. /\ Len(u) = n - 1 /\ DOMAIN u = 1 .. (n - 1)
      /\ \A a \in 1 .. (n - 1) : u[a] = t[a + 1]
  <2>1. \A i \in 2 .. n : t[i] \in T
    <3>1. t \in [1 .. n -> T]
      BY <1>1, LenProperties
    <3> QED BY <3>1
  <2>2. /\ SubSeq(t, 2, n) \in Seq(T)
        /\ Len(SubSeq(t, 2, n)) = IF 2 <= n THEN n - 2 + 1 ELSE 0
        /\ \A i \in 1 .. n - 2 + 1 : SubSeq(t, 2, n)[i] = t[2 + i - 1]
    BY <1>2, <2>1, SubSeqProperties
  <2>3. Len(u) = n - 1 /\ u \in Seq(T)
    BY <1>1, <1>2, <2>2
  <2>4. \A a \in 1 .. (n - 1) : u[a] = t[a + 1]
    <3> TAKE a \in 1 .. (n - 1)
    <3>1. a \in 1 .. n - 2 + 1 /\ 2 + a - 1 = a + 1
      BY <1>2
    <3> QED BY <1>1, <2>2, <3>1
  <2> QED BY <2>3, <2>4, LenProperties
<1>5. PICK J : J = {i \in I : i > f[1]}
  OBVIOUS
<1> DEFINE g == [a \in 1 .. (n - 1) |-> f[a + 1]]
<1>6. \A a \in 1 .. (n - 1) : a + 1 \in 1 .. n /\ g[a] = f[a + 1]
  BY <1>2
<1>7. g \in [1 .. (n - 1) -> J]
  <2>1. \A a \in 1 .. (n - 1) : f[a + 1] \in J
    <3> TAKE a \in 1 .. (n - 1)
    <3>1. 1 \in 1 .. n /\ a + 1 \in 1 .. n /\ 1 < a + 1
      BY <1>2
    <3> QED BY <1>2, <1>3, <1>5, <3>1
  <2> QED BY <2>1
<1> HIDE DEF g
<1>8. \A a, b \in 1 .. (n - 1) : a < b => g[a] < g[b]
  <2> TAKE a, b \in 1 .. (n - 1)
  <2> HAVE a < b
  <2>1. a + 1 < b + 1
    OBVIOUS
  <2> QED BY <1>2, <1>6, <2>1
<1>9. \A i \in J : \E a \in 1 .. (n - 1) : g[a] = i
  <2> TAKE i \in J
  <2>1. PICK b \in 1 .. n : f[b] = i
    BY <1>2, <1>5
  <2>2. b # 1
    BY <1>2, <1>3, <1>5, <2>1
  <2>3. b - 1 \in 1 .. (n - 1) /\ (b - 1) + 1 = b
    BY <1>2, <2>2
  <2>4. g[b - 1] = i
    BY <1>6, <2>1, <2>3
  <2> QED BY <2>3, <2>4
<1>10. \A a \in 1 .. (n - 1) : u[a] = s[g[a]]
  BY <1>2, <1>4, <1>6
<1>11. n - 1 \in Nat
  BY <1>2
<1>12. IsPick(g, u, s, J)
  BY <1>4, <1>7, <1>8, <1>9, <1>10, <1>11 DEF IsPick
<1> QED BY <1>1, <1>5, <1>12 DEF Picks

(* What a detector finds in some of the events it finds in all of them. *)
LEMMA PickedTimed ==
    ASSUME NEW s, NEW N \in Nat, NEW back, Timed(s, N, back),
           NEW t, NEW I \in SUBSET (1 .. N), Picks(t, s, I)
    PROVE  Timed(t, Len(t), back)
<1>1. PICK f : IsPick(f, t, s, I)
  BY DEF Picks
<1>2. PICK n : n = Len(t)
  OBVIOUS
<1>3. /\ \A a \in 1 .. n : f[a] \in 1 .. N /\ t[a] = s[f[a]]
      /\ \A a, b \in 1 .. n : a < b => f[a] < f[b]
  BY <1>1, <1>2 DEF IsPick
<1>4. \A a \in 1 .. n : t[a].time \in Nat \ {0}
  BY <1>3 DEF Timed
<1>5. \A a, b \in 1 .. n : a < b => t[a].time - t[b].time <= back
  <2> TAKE a, b \in 1 .. n
  <2> HAVE a < b
  <2>1. PICK i, j : i = f[a] /\ j = f[b]
    OBVIOUS
  <2>2. i \in 1 .. N /\ j \in 1 .. N /\ i < j /\ t[a] = s[i] /\ t[b] = s[j]
    BY <1>3, <2>1
  <2> QED BY <2>2 DEF Timed
<1> QED BY <1>2, <1>4, <1>5 DEF Timed

LEMMA BurstOfPicked ==
    ASSUME NEW s, NEW N \in Nat, DOMAIN s = 1 .. N, Timed(s, N, 0),
           NEW t, NEW I \in SUBSET (1 .. N), Picks(t, s, I),
           NEW type \in DOMAIN BurstThreshold, detectBurstEvent(t, type)
    PROVE  detectBurstEvent(s, type)
<1>0. BurstWindow \in Nat /\ BurstThreshold[type] \in Nat
  BY HeuristicsAssumption
<1>1. CASE BurstThreshold[type] = 1
  BY <1>1 DEF detectBurstEvent
<1>2. CASE BurstThreshold[type] # 1
  <2>1. PICK f, n : IsPick(f, t, s, I) /\ n = Len(t)
    BY DEF Picks
  <2>2. /\ n \in Nat /\ DOMAIN t = 1 .. n
        /\ \A a \in 1 .. n : f[a] \in 1 .. N /\ t[a] = s[f[a]]
        /\ \A a, b \in 1 .. n : a < b => f[a] < f[b]
    BY <2>1 DEF IsPick
  <2>3. Timed(t, n, 0) /\ 0 \in Nat
    BY <2>1, PickedTimed
  <2>4. Burst(t, type, BurstWindow + 2 * 0)
    BY <1>2, <2>2, <2>3, BurstHasGroup
  <2>5. PICK group \in SUBSET {i \in DOMAIN t : countsForBurst(t[i], type)} :
            /\ Cardinality(group) = BurstThreshold[type]
            /\ \A i, j \in group : t[i].time - t[j].time <= BurstWindow
    BY <1>0, <2>4 DEF Burst
  <2>6. PICK image : image = {f[a] : a \in group}
    OBVIOUS
  <2>7. Cardinality(image) = Cardinality(group)
    <3>1. n \in Int /\ Rises(f, n)
      BY <2>2 DEF Rises
    <3>2. \A a \in group : a \in 1 .. n
      BY <2>2, <2>5
    <3> QED BY <2>6, <3>1, <3>2, RisingCount
  <2>8. image \in SUBSET {i \in DOMAIN s : countsForBurst(s[i], type)}
    BY <2>2, <2>5, <2>6
  <2>9. \A i, j \in image : s[i].time - s[j].time <= BurstWindow
    BY <2>2, <2>5, <2>6
  <2>10. BurstWindow - 0 = BurstWindow
    BY <1>0
  <2>11. Burst(s, type, BurstWindow - 0)
    BY <2>5, <2>7, <2>8, <2>9, <2>10 DEF Burst
  <2> QED BY <2>3, <2>11, GroupIsBurst
<1> QED BY <1>1, <1>2

LEMMA HistoryOfPicked ==
    ASSUME NEW s, NEW N \in Nat, DOMAIN s = 1 .. N, Timed(s, N, 0),
           NEW t, NEW I \in SUBSET (1 .. N), Picks(t, s, I)
    PROVE  HistoryOf(t) \subseteq HistoryOf(s)
<1>1. PICK f, n : IsPick(f, t, s, I) /\ n = Len(t)
  BY DEF Picks
<1>2. /\ n \in Nat /\ DOMAIN t = 1 .. n
      /\ \A a \in 1 .. n : f[a] \in 1 .. N /\ t[a] = s[f[a]]
      /\ \A a, b \in 1 .. n : a < b => f[a] < f[b]
  BY <1>1 DEF IsPick
<1>3. detectConnectThenExec(t) => detectConnectThenExec(s)
  <2>1. ConnectExecPair(t) => ConnectExecPair(s)
    BY <1>2 DEF ConnectExecPair
  <2> QED BY <1>2, <2>1, ConnectExecIsPair
<1>4. detectWriteThenExecSamePath(t) => detectWriteThenExecSamePath(s)
  <2>1. WriteExecPair(t) => WriteExecPair(s)
    BY <1>2 DEF WriteExecPair
  <2> QED BY <1>2, <2>1, WriteExecIsPair
<1>5. ASSUME NEW type \in {"connect", "execve"}, sensitiveNear(t, type)
      PROVE  sensitiveNear(s, type)
  <2>1. SensitivePair(t, type, SensitiveHistoryWindow)
    BY <1>2, <1>5, SensitiveIsPair
  <2>2. SensitivePair(s, type, SensitiveHistoryWindow)
    BY <1>2, <2>1 DEF SensitivePair
  <2>3. SensitivePair(s, type, SensitiveHistoryWindow - 0) /\ 0 \in Nat
    BY <2>2, HeuristicsAssumption
  <2> QED BY <2>3, PairIsSensitive
<1>6. \A type \in {"openat", "connect", "execve"} :
          detectBurstEvent(t, type) => detectBurstEvent(s, type)
  BY BurstOfPicked, HeuristicsAssumption
<1> QED BY <1>3, <1>4, <1>5, <1>6 DEF HistoryOf

-----------------------------------------------------------------------------
(* The inductive invariant of ContextManager. *)
Types == {"execve", "openat", "connect", "exit"}
EventRec == [type : Types, target : Files \cup Executables \cup {"remote", "leader", "thread"},
             writes : BOOLEAN, pid : Pids, time : Nat]
Entry == [e : EventRec, pruned : BOOLEAN]

IsProcess(p) ==
    p = [comm |-> p.comm, execPath |-> p.execPath, lineage |-> p.lineage,
         opens |-> p.opens, connected |-> p.connected, security |-> p.security,
         exited |-> p.exited]
IsSession(s) ==
    s = [processes |-> s.processes, recentEvents |-> s.recentEvents, closed |-> s.closed]
IsContext(c) ==
    c = [execution |-> c.execution, capability |-> c.capability, history |-> c.history]

ProcessesOf(id) == sessions[id].processes

Shape ==
    /\ DOMAIN contexts = DOMAIN sessions /\ DOMAIN accepted = DOMAIN sessions
    /\ dirtyContexts \subseteq DOMAIN sessions
    /\ \A id \in DOMAIN sessions :
          /\ IsSession(sessions[id]) /\ IsContext(contexts[id])
          /\ accepted[id] \in Seq(Entry)
          /\ \A pid \in DOMAIN ProcessesOf(id) : IsProcess(ProcessesOf(id)[pid])

ApplyingInv ==
    applying # << >> =>
        /\ applying = <<[id |-> applying[1].id, pid |-> applying[1].pid,
                         type |-> applying[1].type]>>
        /\ applying[1].id \in DOMAIN sessions
        /\ applying[1].pid \in DOMAIN ProcessesOf(applying[1].id)

PidsOf(log) == {a.e.pid : a \in {a \in Range(log) : ~a.pruned}}
ViewInv == \A id \in DOMAIN sessions : DOMAIN ProcessesOf(id) = PidsOf(accepted[id])

Covered(proc, flags) ==
    proc.execPath # Unnamed =>
        /\ BuildExecutionChainContext(proc) \subseteq flags.execution
        /\ BuildCapabilityContext(proc) \subseteq flags.capability

(* The process whose flags are still to be applied. *)
Fresh(id, pid) ==
    /\ applying # << >>
    /\ applying[1].id = id /\ applying[1].pid = pid /\ applying[1].type = "execve"

CoverInv ==
    \A id \in DOMAIN sessions \ dirtyContexts : \A pid \in DOMAIN ProcessesOf(id) :
        ~Fresh(id, pid) => Covered(ProcessesOf(id)[pid], contexts[id])

IInv == Shape /\ ApplyingInv /\ ViewInv /\ CoverInv

-----------------------------------------------------------------------------
(* The flags of a process depend on its name and lineage only, and on its
   security posture: what else it does leaves them as they are.             *)
LEMMA SameFlags ==
    ASSUME NEW p, NEW q, NEW flags,
           q.execPath = p.execPath, q.comm = p.comm, q.lineage = p.lineage,
           q.security = p.security, Covered(p, flags)
    PROVE  Covered(q, flags)
<1>1. NameOf(q) = NameOf(p)
  BY DEF NameOf
<1>2. Chain(q) = Chain(p)
  BY <1>1 DEF Chain
<1>3. BuildExecutionChainContext(q) = BuildExecutionChainContext(p)
  BY <1>2 DEF BuildExecutionChainContext
<1>4. BuildCapabilityContext(q) = BuildCapabilityContext(p)
  BY DEF BuildCapabilityContext
<1> QED BY <1>3, <1>4 DEF Covered

LEMMA EventIsTyped ==
    ASSUME NEW id, NEW pid \in Pids, NEW e \in EventsOf(id, pid),
           AcceptedOf(id) \in Seq(Entry)
    PROVE  /\ [e |-> e, pruned |-> FALSE] \in Entry /\ e.pid = pid /\ e.type \in Types
           /\ e \in EventRec /\ e.time = Len(AcceptedOf(id)) + 1
<1>1. PICK shape \in ({"openat"} \X Files \X {FALSE})
             \cup ({"openat"} \X (Files \cap Executables) \X {TRUE})
             \cup ({"execve"} \X Executables \X {FALSE})
             \cup ({"connect"} \X {"remote"} \X {FALSE})
             \cup ({"exit"} \X {"leader", "thread"} \X {FALSE}) :
          e = [type |-> shape[1], target |-> shape[2], writes |-> shape[3],
               pid |-> pid, time |-> Len(AcceptedOf(id)) + 1]
  BY DEF EventsOf
<1>2. /\ shape[1] \in Types
      /\ shape[2] \in Files \cup Executables \cup {"remote", "leader", "thread"}
      /\ shape[3] \in BOOLEAN
  BY <1>1 DEF Types
<1>3. Len(AcceptedOf(id)) + 1 \in Nat
  BY LenProperties
<1> QED BY <1>1, <1>2, <1>3 DEF Entry, EventRec

LEMMA PidsOfAppend ==
    ASSUME NEW log \in Seq(Entry), NEW e, [e |-> e, pruned |-> FALSE] \in Entry
    PROVE  PidsOf(Append(log, [e |-> e, pruned |-> FALSE])) = PidsOf(log) \cup {e.pid}
<1> DEFINE entry == [e |-> e, pruned |-> FALSE]
<1>1. entry.e.pid = e.pid /\ ~entry.pruned
  OBVIOUS
<1>2. Range(Append(log, entry)) = Range(log) \cup {entry}
  <2>1. /\ DOMAIN Append(log, entry) = 1 .. Len(log) + 1
        /\ Append(log, entry)[Len(log) + 1] = entry
        /\ \A i \in 1 .. Len(log) : Append(log, entry)[i] = log[i]
    BY AppendProperties, LenProperties
  <2>2. DOMAIN log = 1 .. Len(log) /\ Len(log) \in Nat
    BY LenProperties
  <2> HIDE DEF entry
  <2> QED BY <2>1, <2>2 DEF Range
<1>3. PICK x : x = entry
  OBVIOUS
<1>4. PidsOf(Append(log, x)) = PidsOf(log) \cup {x.e.pid}
  BY <1>1, <1>2, <1>3 DEF PidsOf
<1> QED BY <1>1, <1>3, <1>4

LEMMA PidsOfPruned ==
    ASSUME NEW log \in Seq(Entry), NEW pid
    PROVE  /\ markPruned(log, pid) \in Seq(Entry)
           /\ PidsOf(markPruned(log, pid)) = PidsOf(log) \ {pid}
<1> DEFINE new(i) == [log[i] EXCEPT !.pruned = @ \/ log[i].e.pid = pid]
           pruned == [i \in DOMAIN log |-> new(i)]
<1>1. DOMAIN log = 1 .. Len(log) /\ Len(log) \in Nat
  BY LenProperties
<1>2. \A i \in DOMAIN log : log[i] \in Entry
  BY <1>1, ElementOfSeq
<1>3. \A i \in DOMAIN log :
          /\ new(i) \in Entry /\ new(i).e = log[i].e
          /\ ~new(i).pruned <=> (~log[i].pruned /\ log[i].e.pid # pid)
  BY <1>2 DEF Entry
<1>4. pruned \in Seq(Entry)
  BY <1>1, <1>3, IsASeq
<1>5. PidsOf(pruned) = PidsOf(log) \ {pid}
  <2>1. \A p : p \in PidsOf(pruned) <=>
            \E i \in DOMAIN log : ~new(i).pruned /\ p = new(i).e.pid
    BY DEF PidsOf, Range
  <2>2. \A p : p \in PidsOf(log) <=>
            \E i \in DOMAIN log : ~log[i].pruned /\ p = log[i].e.pid
    BY DEF PidsOf, Range
  <2> HIDE DEF new, pruned
  <2>3. \A p : p \in PidsOf(pruned) <=> (p \in PidsOf(log) /\ p # pid)
    BY <1>3, <2>1, <2>2
  <2> QED BY <2>3
<1> QED BY <1>4, <1>5 DEF markPruned

-----------------------------------------------------------------------------
LEMMA InitIInv == Init => IInv
BY DEF Init, IInv, Shape, ApplyingInv, ViewInv, CoverInv

(* What an event does to the record of its process. *)
LEMMA ProcessAfter ==
    ASSUME NEW processes, NEW e, e.type \in Types, NEW comm, NEW lineage, NEW security,
           \A pid \in DOMAIN processes : IsProcess(processes[pid])
    PROVE  LET old == IF e.pid \in DOMAIN processes THEN processes[e.pid]
                                                    ELSE NewProcess(comm)
               new == processAfter(processes, e, comm, lineage, security)
           IN  /\ IsProcess(new)
               /\ e.type # "execve" =>
                     /\ new.execPath = old.execPath /\ new.comm = old.comm
                     /\ new.lineage = old.lineage /\ new.security = old.security
<1> DEFINE old == IF e.pid \in DOMAIN processes THEN processes[e.pid]
                                                ELSE NewProcess(comm)
           new == processAfter(processes, e, comm, lineage, security)
<1>1. PICK p : p = old
  OBVIOUS
<1>2. IsProcess(p)
  BY <1>1 DEF IsProcess, NewProcess
<1>3. CASE e.type = "execve"
  <2>1. PICK names : names = rebuildLineage(
            Put(processes, e.pid, [p EXCEPT !.execPath = e.target, !.comm = e.target]),
            e.pid, lineage)
    OBVIOUS
  <2>2. new = [[p EXCEPT !.execPath = e.target, !.comm = e.target] EXCEPT
                   !.lineage = names, !.security = security, !.exited = FALSE]
    BY <1>1, <1>3, <2>1 DEF processAfter
  <2> QED BY <1>2, <1>3, <2>2 DEF IsProcess
<1>4. CASE e.type = "openat"
  <2>1. PICK opens : opens = trim(Append(p.opens, e.target), MaxPerProcessArtifacts)
    OBVIOUS
  <2>2. new = [p EXCEPT !.opens = opens]
    BY <1>1, <1>4, <2>1 DEF processAfter
  <2> QED BY <1>1, <1>2, <2>2 DEF IsProcess
<1>5. CASE e.type = "connect"
  <2>1. new = [p EXCEPT !.connected = TRUE]
    BY <1>1, <1>5 DEF processAfter
  <2> QED BY <1>1, <1>2, <2>1 DEF IsProcess
<1>6. CASE e.type = "exit"
  <2>1. PICK exited : exited = (p.exited \/ e.target = "leader")
    OBVIOUS
  <2>2. new = [p EXCEPT !.exited = exited]
    BY <1>1, <1>6, <2>1 DEF processAfter
  <2> QED BY <1>1, <1>2, <2>2 DEF IsProcess
<1> QED BY <1>3, <1>4, <1>5, <1>6 DEF Types

LEMMA ObserveKeeps ==
    ASSUME IInv, NEW id \in SessionIDs, NEW pid \in Pids, NEW e \in EventsOf(id, pid),
           NEW comm, NEW lineage, NEW security, Observe(id, e, comm, lineage, security)
    PROVE  IInv'
<1> DEFINE sess == SessionOf(id)
           old == IF e.pid \in DOMAIN sess.processes THEN sess.processes[e.pid]
                                                     ELSE NewProcess(comm)
<1>1. PICK proc : proc = processAfter(sess.processes, e, comm, lineage, security)
  OBVIOUS
<1>2. PICK latest : latest = trim(Append(sess.recentEvents, e), RecentEventLimit)
  OBVIOUS
<1>3. /\ AcceptedOf(id) \in Seq(Entry) /\ IsSession(sess) /\ IsContext(ContextOf(id))
      /\ DOMAIN sess.processes = PidsOf(AcceptedOf(id))
      /\ \A p \in DOMAIN sess.processes : IsProcess(sess.processes[p])
  <2>1. CASE id \in DOMAIN sessions
    BY <2>1 DEF IInv, Shape, ViewInv, AcceptedOf, SessionOf, ContextOf, ProcessesOf
  <2>2. CASE id \notin DOMAIN sessions
    <3>1. sess = NewSession /\ ContextOf(id) = NoContext /\ AcceptedOf(id) = << >>
      BY <2>2 DEF IInv, Shape, AcceptedOf, SessionOf, ContextOf
    <3>2. PidsOf(<< >>) = {} /\ << >> \in Seq(Entry)
      BY EmptySeq DEF PidsOf, Range
    <3> QED BY <3>1, <3>2 DEF NewSession, NoContext, IsSession, IsContext
  <2> QED BY <2>1, <2>2
<1>4. /\ [e |-> e, pruned |-> FALSE] \in Entry /\ e.pid = pid /\ e.type \in Types
  BY <1>3, EventIsTyped
<1>5. /\ IsProcess(proc)
      /\ e.type # "execve" =>
            /\ proc.execPath = old.execPath /\ proc.comm = old.comm
            /\ proc.lineage = old.lineage /\ proc.security = old.security
  <2>1. \A p \in DOMAIN sess.processes : IsProcess(sess.processes[p])
    BY <1>3
  <2>2. e.type \in Types
    BY <1>4
  <2> HIDE DEF sess
  <2>3. LET o == IF e.pid \in DOMAIN sess.processes THEN sess.processes[e.pid]
                                                    ELSE NewProcess(comm)
            new == processAfter(sess.processes, e, comm, lineage, security)
        IN  /\ IsProcess(new)
            /\ e.type # "execve" =>
                  /\ new.execPath = o.execPath /\ new.comm = o.comm
                  /\ new.lineage = o.lineage /\ new.security = o.security
    BY <2>1, <2>2, ProcessAfter
  <2> QED BY <1>1, <2>3
<1>6. /\ applying = << >>
      /\ sessions' = Put(sessions, id,
             [sess EXCEPT !.processes = Put(sess.processes, e.pid, proc),
                          !.recentEvents = latest])
      /\ contexts' = Put(contexts, id, ContextOf(id))
      /\ applying' = <<[id |-> id, pid |-> e.pid, type |-> e.type]>>
      /\ accepted' = Put(accepted, id,
                         Append(AcceptedOf(id), [e |-> e, pruned |-> FALSE]))
      /\ dirtyContexts' = dirtyContexts
  BY <1>1, <1>2 DEF Observe
<1>7. /\ DOMAIN sessions' = DOMAIN sessions \cup {id}
      /\ ProcessesOf(id)' = Put(sess.processes, e.pid, proc) /\ IsSession(sessions'[id])
      /\ \A i \in DOMAIN sessions \ {id} : sessions'[i] = sessions[i]
  BY <1>3, <1>6 DEF Put, IsSession, ProcessesOf
<1>8. /\ DOMAIN contexts' = DOMAIN contexts \cup {id}
      /\ contexts'[id] = ContextOf(id)
      /\ \A i \in DOMAIN contexts \ {id} : contexts'[i] = contexts[i]
  BY <1>6 DEF Put
<1>9. /\ DOMAIN accepted' = DOMAIN accepted \cup {id}
      /\ accepted'[id] = Append(AcceptedOf(id), [e |-> e, pruned |-> FALSE])
      /\ \A i \in DOMAIN accepted \ {id} : accepted'[i] = accepted[i]
  BY <1>6 DEF Put
<1>10. /\ DOMAIN ProcessesOf(id)' = DOMAIN sess.processes \cup {e.pid}
       /\ ProcessesOf(id)'[e.pid] = proc
       /\ \A p \in DOMAIN sess.processes \ {e.pid} :
             ProcessesOf(id)'[p] = sess.processes[p]
  BY <1>7 DEF Put
<1> HIDE DEF sess
<1>11. Shape'
  <2>1. accepted'[id] \in Seq(Entry)
    BY <1>3, <1>4, <1>9, AppendProperties
  <2>2. \A p \in DOMAIN ProcessesOf(id)' : IsProcess(ProcessesOf(id)'[p])
    BY <1>3, <1>5, <1>10
  <2>3. /\ DOMAIN contexts' = DOMAIN sessions' /\ DOMAIN accepted' = DOMAIN sessions'
        /\ dirtyContexts' \subseteq DOMAIN sessions'
    BY <1>6, <1>7, <1>8, <1>9 DEF IInv, Shape
  <2>4. IsSession(sessions'[id]) /\ IsContext(contexts'[id])
    BY <1>3, <1>7, <1>8
  <2>5. \A i \in DOMAIN sessions \ {id} :
          /\ IsSession(sessions'[i]) /\ IsContext(contexts'[i])
          /\ accepted'[i] \in Seq(Entry)
          /\ \A p \in DOMAIN ProcessesOf(i)' : IsProcess(ProcessesOf(i)'[p])
    <3> SUFFICES ASSUME NEW i \in DOMAIN sessions \ {id}
                 PROVE  /\ IsSession(sessions'[i]) /\ IsContext(contexts'[i])
                        /\ accepted'[i] \in Seq(Entry)
                        /\ \A p \in DOMAIN ProcessesOf(i)' : IsProcess(ProcessesOf(i)'[p])
      OBVIOUS
    <3>1. /\ sessions'[i] = sessions[i] /\ contexts'[i] = contexts[i]
          /\ accepted'[i] = accepted[i] /\ ProcessesOf(i)' = ProcessesOf(i)
      BY <1>7, <1>8, <1>9 DEF IInv, Shape, ProcessesOf
    <3> QED BY <3>1 DEF IInv, Shape
  <2> QED BY <1>7, <2>1, <2>2, <2>3, <2>4, <2>5 DEF Shape
<1>12. ApplyingInv'
  BY <1>6, <1>7, <1>10 DEF ApplyingInv
<1>13. ViewInv'
  <2>1. DOMAIN ProcessesOf(id)' = PidsOf(accepted'[id])
    BY <1>3, <1>4, <1>9, <1>10, PidsOfAppend
  <2> QED BY <1>7, <1>9, <2>1 DEF IInv, Shape, ViewInv, ProcessesOf
<1>14. CoverInv'
  <2> SUFFICES ASSUME NEW i \in DOMAIN sessions' \ dirtyContexts',
                      NEW p \in DOMAIN ProcessesOf(i)', ~Fresh(i, p)'
               PROVE  Covered(ProcessesOf(i)'[p], contexts'[i])
    BY DEF CoverInv
  <2>1. \A j \in DOMAIN sessions \ dirtyContexts : \A q \in DOMAIN ProcessesOf(j) :
            Covered(ProcessesOf(j)[q], contexts[j])
    BY <1>6 DEF IInv, CoverInv, Fresh
  <2>2. CASE i # id
    BY <1>6, <1>7, <1>8, <2>1, <2>2 DEF IInv, Shape, ProcessesOf
  <2>3. CASE i = id
    <3>1. \A q \in DOMAIN sess.processes : Covered(sess.processes[q], contexts'[id])
      BY <1>6, <1>8, <2>1, <2>3
         DEF IInv, Shape, sess, SessionOf, ContextOf, ProcessesOf, NewSession
    <3>2. CASE p # e.pid
      BY <1>10, <2>3, <3>1, <3>2
    <3>3. CASE p = e.pid
      <4>1. e.type # "execve"
        BY <1>6, <2>3, <3>3 DEF Fresh
      <4>2. CASE e.pid \in DOMAIN sess.processes
        BY <1>5, <1>10, <2>3, <3>1, <3>3, <4>1, <4>2, SameFlags
      <4>3. CASE e.pid \notin DOMAIN sess.processes
        BY <1>5, <1>10, <2>3, <3>3, <4>1, <4>3 DEF Covered, NewProcess
      <4> QED BY <4>2, <4>3
    <3> QED BY <3>2, <3>3
  <2> QED BY <2>2, <2>3
<1> QED BY <1>11, <1>12, <1>13, <1>14 DEF IInv

LEMMA ApplyKeeps == IInv /\ ApplyEvent => IInv'
<1> SUFFICES ASSUME IInv, ApplyEvent PROVE IInv'
  OBVIOUS
<1> DEFINE id == applying[1].id
           sess == sessions[id]
           proc == sess.processes[applying[1].pid]
<1>1. PICK known :
          known = IF id \in dirtyContexts
                  THEN [execution |-> rebuildExecutionAggregate(sess),
                        capability |-> rebuildCapabilityAggregate(sess)]
                  ELSE contexts[id]
  OBVIOUS
<1>2. PICK flags :
          flags = [execution |-> known.execution \cup
                       (IF applying[1].type \in {"execve", "exit"}
                        THEN BuildExecutionChainContext(proc) ELSE {}),
                   capability |-> known.capability \cup
                       (IF applying[1].type = "execve"
                        THEN BuildCapabilityContext(proc) ELSE {}),
                   history |-> BuildHistoricalContext(sess)]
  OBVIOUS
<1>3. /\ contexts' = [contexts EXCEPT ![id] = flags]
      /\ dirtyContexts' = dirtyContexts \ {id}
      /\ applying # << >> /\ applying' = << >>
      /\ UNCHANGED <<sessions, accepted>>
  BY <1>1, <1>2 DEF ApplyEvent
<1>4. id \in DOMAIN sessions /\ DOMAIN contexts = DOMAIN sessions /\ IsContext(flags)
  BY <1>2, <1>3 DEF IInv, Shape, ApplyingInv, IsContext
<1>5. Shape'
  BY <1>3, <1>4 DEF IInv, Shape, ProcessesOf
<1>6. ApplyingInv' /\ ViewInv'
  BY <1>3 DEF IInv, ApplyingInv, ViewInv, ProcessesOf
<1>7. CoverInv'
  <2> SUFFICES ASSUME NEW i \in DOMAIN sessions \ dirtyContexts',
                      NEW p \in DOMAIN ProcessesOf(i)
               PROVE  Covered(ProcessesOf(i)[p], contexts'[i])
    BY <1>3 DEF CoverInv, ProcessesOf
  <2>1. CASE i # id
    BY <1>3, <1>4, <2>1 DEF IInv, CoverInv, Fresh
  <2>2. CASE i = id
    <3>1. CASE id \in dirtyContexts
      <4>1. ProcessesOf(i)[p] \in Range(sess.processes)
        BY <2>2 DEF ProcessesOf, Range
      <4>2. /\ BuildExecutionChainContext(ProcessesOf(i)[p])
                  \subseteq rebuildExecutionAggregate(sess)
            /\ BuildCapabilityContext(ProcessesOf(i)[p])
                  \subseteq rebuildCapabilityAggregate(sess)
        BY <4>1 DEF rebuildExecutionAggregate, rebuildCapabilityAggregate
      <4>3. /\ rebuildExecutionAggregate(sess) \subseteq flags.execution
            /\ rebuildCapabilityAggregate(sess) \subseteq flags.capability
        BY <1>1, <1>2, <3>1
      <4> HIDE DEF sess
      <4> QED BY <1>3, <1>4, <2>2, <4>2, <4>3 DEF Covered
    <3>2. CASE id \notin dirtyContexts /\ ~Fresh(i, p)
      <4>1. Covered(ProcessesOf(i)[p], contexts[i])
        BY <2>2, <3>2 DEF IInv, CoverInv
      <4>2. /\ contexts[i].execution \subseteq flags.execution
            /\ contexts[i].capability \subseteq flags.capability
        BY <1>1, <1>2, <2>2, <3>2
      <4> QED BY <1>3, <1>4, <2>2, <4>1, <4>2 DEF Covered
    <3>3. CASE Fresh(i, p)
      <4>1. ProcessesOf(i)[p] = proc /\ applying[1].type = "execve"
        BY <2>2, <3>3 DEF Fresh, ProcessesOf
      <4>2. /\ BuildExecutionChainContext(proc) \subseteq flags.execution
            /\ BuildCapabilityContext(proc) \subseteq flags.capability
        BY <1>2, <4>1
      <4> HIDE DEF proc
      <4> QED BY <1>3, <1>4, <2>2, <4>1, <4>2 DEF Covered
    <3> QED BY <2>2, <3>1, <3>2, <3>3
  <2> QED BY <2>1, <2>2
<1> QED BY <1>5, <1>6, <1>7 DEF IInv

(* A prune removes one pid from both views and leaves the flags dirty. *)
LEMMA IgnoreRoutineKeeps ==
    ASSUME IInv, NEW id, NEW pid, NEW ppid, IgnoreRoutineExec(id, pid, ppid)
    PROVE  IInv'
<1>1. CASE UNCHANGED <<sessions, dirtyContexts, accepted>>
  <2>1. UNCHANGED <<sessions, contexts, dirtyContexts, applying, accepted>>
    BY <1>1 DEF IgnoreRoutineExec
  <2> QED BY <2>1 DEF IInv, Shape, ApplyingInv, ViewInv, CoverInv, Fresh, ProcessesOf
<1>2. CASE ~UNCHANGED <<sessions, dirtyContexts, accepted>>
  <2>1. ppid \in DOMAIN SessionOf(id).processes
    BY <1>2 DEF IgnoreRoutineExec
  <2>2. id \in DOMAIN sessions /\ SessionOf(id) = sessions[id]
    BY <2>1 DEF SessionOf, NewSession
  <2>3. PICK latest : latest = withoutPid(sessions[id].recentEvents, ppid)
    OBVIOUS
  <2>4. PICK log : log = markPruned(accepted[id], ppid)
    OBVIOUS
  <2>5. /\ sessions' = [sessions EXCEPT ![id] = prune(sessions[id], ppid)]
        /\ dirtyContexts' = dirtyContexts \cup {id}
        /\ accepted' = [accepted EXCEPT ![id] = log]
        /\ applying = << >> /\ UNCHANGED <<contexts, applying>>
    BY <1>2, <2>4 DEF IgnoreRoutineExec
  <2>6. prune(sessions[id], ppid) =
            [sessions[id] EXCEPT
               !.processes = Restrict(ProcessesOf(id), DOMAIN ProcessesOf(id) \ {ppid}),
               !.recentEvents = latest]
    BY <2>3 DEF prune, ProcessesOf
  <2>7. /\ ProcessesOf(id)' = Restrict(ProcessesOf(id), DOMAIN ProcessesOf(id) \ {ppid})
        /\ IsSession(sessions'[id]) /\ DOMAIN sessions' = DOMAIN sessions
        /\ \A i \in DOMAIN sessions \ {id} : sessions'[i] = sessions[i]
    BY <2>2, <2>5, <2>6 DEF IInv, Shape, IsSession, ProcessesOf
  <2>8. log \in Seq(Entry) /\ PidsOf(log) = PidsOf(accepted[id]) \ {ppid}
    BY <2>2, <2>4, PidsOfPruned DEF IInv, Shape
  <2>9. Shape'
    BY <2>2, <2>5, <2>7, <2>8 DEF IInv, Shape, ProcessesOf, Restrict
  <2>10. ViewInv'
    BY <2>2, <2>5, <2>7, <2>8 DEF IInv, Shape, ViewInv, ProcessesOf, Restrict
  <2>11. ApplyingInv' /\ CoverInv'
    BY <2>2, <2>5, <2>7 DEF IInv, ApplyingInv, CoverInv, Fresh, ProcessesOf
  <2> QED BY <2>9, <2>10, <2>11 DEF IInv
<1> QED BY <1>1, <1>2

LEMMA IgnoreExitKeeps ==
    ASSUME IInv, NEW id, NEW pid, IgnoreExit(id, pid)
    PROVE  IInv'
<1>1. /\ id \in DOMAIN sessions /\ dirtyContexts' = dirtyContexts \cup {id}
      /\ UNCHANGED <<sessions, contexts, applying, accepted>>
  BY DEF IgnoreExit
<1> QED BY <1>1 DEF IInv, Shape, ApplyingInv, ViewInv, CoverInv, Fresh, ProcessesOf

LEMMA CloseKeeps ==
    ASSUME IInv, NEW id, CloseSession(id)
    PROVE  IInv'
<1>1. /\ id \in DOMAIN sessions
      /\ sessions' = [sessions EXCEPT ![id].closed = TRUE]
      /\ UNCHANGED <<contexts, dirtyContexts, applying, accepted>>
  BY DEF CloseSession
<1>2. /\ DOMAIN sessions' = DOMAIN sessions
      /\ \A i \in DOMAIN sessions : ProcessesOf(i)' = ProcessesOf(i)
                                    /\ IsSession(sessions'[i])
  <2>1. sessions'[id] = [sessions[id] EXCEPT !.closed = TRUE]
    BY <1>1
  <2> IsSession(sessions[id])
    BY <1>1 DEF IInv, Shape
  <2>2. IsSession(sessions'[id]) /\ sessions'[id].processes = sessions[id].processes
    BY <2>1 DEF IsSession
  <2>3. \A i \in DOMAIN sessions \ {id} : sessions'[i] = sessions[i]
    BY <1>1
  <2> QED BY <1>1, <2>2, <2>3 DEF IInv, Shape, ProcessesOf
<1>3. Shape'
  BY <1>1, <1>2 DEF IInv, Shape
<1>4. ApplyingInv'
  BY <1>1, <1>2 DEF IInv, ApplyingInv
<1>5. ViewInv' /\ CoverInv'
  BY <1>1, <1>2 DEF IInv, ViewInv, CoverInv, Fresh
<1> QED BY <1>3, <1>4, <1>5 DEF IInv

LEMMA NextIInv == IInv /\ [Next]_contextVars => IInv'
<1> SUFFICES ASSUME IInv, [Next]_contextVars PROVE IInv'
  OBVIOUS
<1>1. CASE Accept
  <2>1. PICK id \in SessionIDs, pid \in Pids :
            \E e \in EventsOf(id, pid), comm \in Executables :
               IF e.type = "execve"
               THEN \E lineage \in Lineages(pid), security \in Postures :
                       Observe(id, e, comm, lineage, security)
               ELSE Observe(id, e, comm, << >>, "unread")
    BY <1>1 DEF Accept
  <2> QED BY <2>1, ObserveKeeps
<1>2. CASE ApplyEvent
  BY <1>2, ApplyKeeps
<1>3. CASE Ignore
  BY <1>3, IgnoreRoutineKeeps, IgnoreExitKeeps DEF Ignore
<1>4. CASE JanitorCloses
  BY <1>4, CloseKeeps DEF JanitorCloses
<1>5. CASE UNCHANGED contextVars
  BY <1>5 DEF contextVars, IInv, Shape, ApplyingInv, ViewInv, CoverInv, Fresh, ProcessesOf
<1> QED BY <1>1, <1>2, <1>3, <1>4, <1>5 DEF Next

LEMMA Invariance == Spec => []IInv
BY InitIInv, NextIInv, PTL DEF Spec

-----------------------------------------------------------------------------
(* What the recent events of a session are to all it ever accepted: those
   from some place on that no prune took away, and every one of the last
   RecentEventLimit events that is left.                                    *)
KeptPlaces(log, n) == {i \in 1 .. Len(log) : i > n /\ ~log[i].pruned}

RecentFrom(events, log, n) ==
    /\ n \in Nat /\ (n = 0 \/ n + RecentEventLimit <= Len(log))
    /\ Picks(events, EventsIn(log), KeptPlaces(log, n))

RecentOf(events, log) ==
    /\ events \in Seq(EventRec) /\ Len(events) <= RecentEventLimit
    /\ \E n : RecentFrom(events, log, n)

Numbered(log) == \A i \in 1 .. Len(log) : log[i].e.time = i

RecentInv == \A id \in DOMAIN sessions : RecentOf(sessions[id].recentEvents, accepted[id])
TimesInv == \A id \in DOMAIN sessions : Numbered(accepted[id])
HistoryInv ==
    \A id \in DOMAIN sessions :
        contexts[id].history \ {"OpenedDeletedPath"} \subseteq HistoryOf(EventsIn(accepted[id]))

LogInv == RecentInv /\ TimesInv /\ HistoryInv

LEMMA EventsInLog ==
    ASSUME NEW log \in Seq(Entry)
    PROVE  /\ EventsIn(log) \in Seq(EventRec) /\ Len(EventsIn(log)) = Len(log)
           /\ Len(log) \in Nat /\ DOMAIN log = 1 .. Len(log)
           /\ DOMAIN EventsIn(log) = 1 .. Len(log)
           /\ \A i \in 1 .. Len(log) : EventsIn(log)[i] = log[i].e /\ log[i] \in Entry
<1>1. PICK n, s : n = Len(log) /\ s = EventsIn(log)
  OBVIOUS
<1>2. n \in Nat /\ DOMAIN log = 1 .. n /\ \A i \in 1 .. n : log[i] \in Entry
  BY <1>1, LenProperties, ElementOfSeq
<1>3. s = [i \in 1 .. n |-> log[i].e]
  BY <1>1, <1>2 DEF EventsIn
<1>4. \A i \in 1 .. n : log[i].e \in EventRec
  BY <1>2 DEF Entry
<1>5. s \in [1 .. n -> EventRec]
  BY <1>3, <1>4
<1>6. s \in Seq(EventRec)
  BY <1>2, <1>5, SeqDef
<1>7. Len(s) = n
  BY <1>2, <1>3, <1>6
<1> QED BY <1>1, <1>2, <1>3, <1>6, <1>7

LEMMA RecentEmpty ==
    RecentOf(<< >>, << >>) /\ Numbered(<< >>) /\ << >> \in Seq(Entry)
<1>1. << >> \in Seq(Entry) /\ << >> \in Seq(EventRec) /\ Len(<< >>) = 0
  BY EmptySeq
<1>2. KeptPlaces(<< >>, 0) = {}
  BY <1>1 DEF KeptPlaces
<1>3. RecentFrom(<< >>, << >>, 0)
  BY <1>2, PicksNone DEF RecentFrom
<1>4. 0 <= RecentEventLimit
  BY LimitsAssumption
<1> QED BY <1>1, <1>3, <1>4 DEF RecentOf, Numbered

LEMMA Appended ==
    ASSUME NEW log \in Seq(Entry), NEW x \in Entry
    PROVE  /\ Append(log, x) \in Seq(Entry) /\ Len(Append(log, x)) = Len(log) + 1
           /\ Len(log) \in Nat
           /\ Append(log, x)[Len(log) + 1] = x
           /\ \A i \in 1 .. Len(log) : Append(log, x)[i] = log[i]
BY AppendProperties, LenProperties

LEMMA NumberedAppend ==
    ASSUME NEW log \in Seq(Entry), NEW x \in Entry, Numbered(log), x.e.time = Len(log) + 1
    PROVE  Numbered(Append(log, x))
<1>1. PICK n, new : n = Len(log) /\ new = Append(log, x)
  OBVIOUS
<1>2. /\ n \in Nat /\ Len(new) = n + 1 /\ new[n + 1] = x
      /\ \A i \in 1 .. n : new[i] = log[i]
  BY <1>1, Appended
<1>3. \A i \in 1 .. (n + 1) : i = n + 1 \/ i \in 1 .. n
  BY <1>2
<1>4. \A i \in 1 .. (n + 1) : new[i].e.time = i
  BY <1>1, <1>2, <1>3 DEF Numbered
<1> QED BY <1>1, <1>2, <1>4 DEF Numbered

LEMMA NumberedTimed ==
    ASSUME NEW log \in Seq(Entry), Numbered(log)
    PROVE  Timed(EventsIn(log), Len(log), 0)
<1>1. PICK n, s : n = Len(log) /\ s = EventsIn(log)
  OBVIOUS
<1>2. n \in Nat /\ \A i \in 1 .. n : s[i].time = i
  BY <1>1, EventsInLog DEF Numbered
<1> QED BY <1>1, <1>2 DEF Timed

(* What happened in a session still happened when there are more events. *)
LEMMA HistoryGrows ==
    ASSUME NEW log \in Seq(Entry), NEW x \in Entry, Numbered(log), x.e.time = Len(log) + 1
    PROVE  HistoryOf(EventsIn(log)) \subseteq HistoryOf(EventsIn(Append(log, x)))
<1>1. PICK n, new, s, t : /\ n = Len(log) /\ new = Append(log, x)
                          /\ s = EventsIn(new) /\ t = EventsIn(log)
  OBVIOUS
<1>2. /\ n \in Nat /\ new \in Seq(Entry) /\ Len(new) = n + 1
      /\ \A i \in 1 .. n : new[i] = log[i]
  BY <1>1, Appended
<1>3. Timed(s, n + 1, 0)
  BY <1>1, <1>2, NumberedAppend, NumberedTimed
<1>4. DOMAIN s = 1 .. (n + 1) /\ \A i \in 1 .. (n + 1) : s[i] = new[i].e
  BY <1>1, <1>2, EventsInLog
<1>5. Len(t) = n /\ DOMAIN t = 1 .. n /\ \A i \in 1 .. n : t[i] = log[i].e
  BY <1>1, EventsInLog
<1> DEFINE f == [a \in 1 .. n |-> a]
<1>6. \A a \in 1 .. n : t[a] = s[f[a]]
  BY <1>2, <1>4, <1>5
<1>7. IsPick(f, t, s, 1 .. n)
  BY <1>2, <1>5, <1>6 DEF IsPick
<1>8. Picks(t, s, 1 .. n)
  BY <1>7 DEF Picks
<1>9. PICK N, I : N = n + 1 /\ I = 1 .. n
  OBVIOUS
<1>10. N \in Nat /\ I \in SUBSET (1 .. N)
  BY <1>2, <1>9
<1>11. DOMAIN s = 1 .. N /\ Timed(s, N, 0) /\ Picks(t, s, I)
  BY <1>3, <1>4, <1>8, <1>9
<1>12. HistoryOf(t) \subseteq HistoryOf(s)
  BY <1>10, <1>11, HistoryOfPicked
<1> QED BY <1>1, <1>12

(* The recent events show nothing that did not happen in the session. *)
LEMMA RecentHistory ==
    ASSUME NEW log \in Seq(Entry), Numbered(log), NEW events, RecentOf(events, log)
    PROVE  HistoryOf(events) \subseteq HistoryOf(EventsIn(log))
<1>1. PICK N, s : N = Len(log) /\ s = EventsIn(log)
  OBVIOUS
<1>2. N \in Nat /\ DOMAIN s = 1 .. N /\ Timed(s, N, 0)
  BY <1>1, EventsInLog, NumberedTimed
<1>3. PICK n : RecentFrom(events, log, n)
  BY DEF RecentOf
<1>4. PICK I : I = KeptPlaces(log, n)
  OBVIOUS
<1>5. I \in SUBSET (1 .. N) /\ Picks(events, s, I)
  BY <1>1, <1>3, <1>4 DEF RecentFrom, KeptPlaces
<1>6. HistoryOf(events) \subseteq HistoryOf(s)
  BY <1>2, <1>5, HistoryOfPicked
<1> QED BY <1>1, <1>6

(* PicksAppend for events, at the place after the last. *)
LEMMA PicksNext ==
    ASSUME NEW t \in Seq(EventRec), NEW s, NEW N \in Nat, NEW I \in SUBSET (1 .. N),
           Picks(t, s, I), NEW m, m = N + 1, NEW e \in EventRec, e = s[m],
           NEW u, u = Append(t, e), NEW K, K = I \cup {m}
    PROVE  Picks(u, s, K)
<1>1. m \in Int /\ I \in SUBSET Int /\ \A i \in I : i < m
  OBVIOUS
<1>2. Picks(Append(t, e), s, I \cup {m})
  BY <1>1, PicksAppend
<1> QED BY <1>2

(* An accepted event is added at the end, and the oldest goes if there are
   too many.                                                                *)
LEMMA RecentAppend ==
    ASSUME NEW log \in Seq(Entry), NEW x \in Entry, ~x.pruned,
           NEW events, RecentOf(events, log)
    PROVE  RecentOf(trim(Append(events, x.e), RecentEventLimit), Append(log, x))
<1>1. PICK N, new, s, s2, u, L : /\ N = Len(log) /\ new = Append(log, x)
                                 /\ s = EventsIn(log) /\ s2 = EventsIn(new)
                                 /\ u = Append(events, x.e) /\ L = RecentEventLimit
  OBVIOUS
<1>2. /\ N \in Nat /\ new \in Seq(Entry) /\ Len(new) = N + 1 /\ new[N + 1] = x
      /\ \A i \in 1 .. N : new[i] = log[i]
  BY <1>1, Appended
<1>3. L \in Nat /\ L >= 1
  BY <1>1, LimitsAssumption
<1>4. PICK n : RecentFrom(events, log, n)
  BY DEF RecentOf
<1>5. PICK I, K : I = KeptPlaces(log, n) /\ K = KeptPlaces(new, n)
  OBVIOUS
<1>6. n \in Nat /\ (n = 0 \/ n + L <= N) /\ Picks(events, s, I)
  BY <1>1, <1>4, <1>5 DEF RecentFrom
<1>7. I \in SUBSET (1 .. N)
  BY <1>1, <1>5 DEF KeptPlaces
<1>8. K = I \cup {N + 1}
  <2>1. K = {i \in 1 .. (N + 1) : i > n /\ ~new[i].pruned}
    BY <1>2, <1>5 DEF KeptPlaces
  <2>2. I = {i \in 1 .. N : i > n /\ ~log[i].pruned}
    BY <1>1, <1>5 DEF KeptPlaces
  <2>3. \A i \in 1 .. (N + 1) : i = N + 1 \/ i \in 1 .. N
    BY <1>2
  <2>4. N + 1 > n /\ N + 1 \in 1 .. (N + 1) /\ \A i \in 1 .. N : i \in 1 .. (N + 1)
    BY <1>2, <1>3, <1>6
  <2> QED BY <1>2, <2>1, <2>2, <2>3, <2>4
<1>9. /\ \A i \in 1 .. N : s2[i] = s[i]
      /\ s2[N + 1] = x.e
  <2>1. \A i \in 1 .. (N + 1) : s2[i] = new[i].e
    BY <1>1, <1>2, EventsInLog
  <2>2. \A i \in 1 .. N : s[i] = log[i].e
    BY <1>1, EventsInLog
  <2>3. N + 1 \in 1 .. (N + 1) /\ \A i \in 1 .. N : i \in 1 .. (N + 1)
    BY <1>2
  <2> QED BY <1>2, <2>1, <2>2, <2>3
<1>10. events \in Seq(EventRec) /\ Len(events) <= L /\ x.e \in EventRec
  BY <1>1 DEF RecentOf, Entry
<1>11. u \in Seq(EventRec) /\ Len(u) = Len(events) + 1 /\ Len(events) \in Nat
  BY <1>1, <1>10, AppendProperties, LenProperties
<1>12. Picks(u, s2, K)
  <2>1. Picks(events, s2, I)
    BY <1>6, <1>7, <1>9, PicksSame
  <2>2. PICK m, e : m = N + 1 /\ e = x.e
    OBVIOUS
  <2>3. e \in EventRec /\ e = s2[m]
    BY <1>2, <1>9, <1>10, <2>2
  <2>4. N \in Nat /\ I \in SUBSET (1 .. N)
    BY <1>2, <1>7
  <2>5. events \in Seq(EventRec)
    BY <1>10
  <2>6. u = Append(events, e) /\ K = I \cup {m}
    BY <1>1, <1>8, <2>2
  <2> QED BY <2>1, <2>2, <2>3, <2>4, <2>5, <2>6, PicksNext
<1>13. CASE Len(u) <= L
  <2>1. trim(u, L) = u
    BY <1>13 DEF trim
  <2>2. RecentFrom(u, new, n)
    BY <1>1, <1>2, <1>3, <1>5, <1>6, <1>12 DEF RecentFrom
  <2> QED BY <1>1, <1>11, <1>13, <2>1, <2>2 DEF RecentOf
<1>14. CASE ~(Len(u) <= L)
  <2>1. Len(u) = L + 1
    BY <1>3, <1>10, <1>11, <1>14
  <2>2. trim(u, L) = SubSeq(u, 2, Len(u))
    <3>1. Len(u) - L + 1 = 2
      BY <1>3, <2>1
    <3> QED BY <1>14, <3>1 DEF trim
  <2>3. PICK f : IsPick(f, u, s2, K)
    BY <1>12 DEF Picks
  <2>4. K \in SUBSET Int
    BY <1>2, <1>7, <1>8
  <2>5. /\ f \in [1 .. (L + 1) -> K]
        /\ \A a, b \in 1 .. (L + 1) : a < b => f[a] < f[b]
    BY <2>1, <2>3 DEF IsPick
  <2>6. PICK k : k = f[1]
    OBVIOUS
  <2>7. k \in K /\ 1 \in 1 .. (L + 1)
    BY <1>3, <2>5, <2>6
  <2>8. K = {i \in 1 .. (N + 1) : i > n /\ ~new[i].pruned}
    BY <1>2, <1>5 DEF KeptPlaces
  <2>9. k \in 1 .. (N + 1) /\ k > n
    BY <2>7, <2>8
  <2>10. k + L <= N + 1
    <3> DEFINE h == [a \in 1 .. (L + 1) |-> f[a] - k + 1]
    <3>1. PICK U, T : U = L + 1 /\ T = N + 1 - k + 1
      OBVIOUS
    <3>2. U \in Nat /\ T \in Nat
      BY <1>2, <1>3, <2>9, <3>1
    <3>3. \A a \in 1 .. (L + 1) : f[a] \in 1 .. (N + 1) /\ k <= f[a]
      <4> TAKE a \in 1 .. (L + 1)
      <4>1. f[a] \in 1 .. (N + 1)
        BY <2>5, <2>8
      <4>2. a = 1 \/ 1 < a
        BY <1>3
      <4>3. k <= f[a]
        BY <2>5, <2>6, <2>7, <2>9, <4>1, <4>2
      <4> QED BY <4>1, <4>3
    <3>4. \A a \in 1 .. (L + 1) : h[a] \in 1 .. (N + 1 - k + 1)
      BY <1>2, <2>9, <3>3
    <3>5. \A a, b \in 1 .. (L + 1) : a < b => h[a] < h[b]
      <4> TAKE a, b \in 1 .. (L + 1)
      <4> HAVE a < b
      <4>1. f[a] < f[b] /\ f[a] \in Int /\ f[b] \in Int /\ k \in Int
        BY <2>5, <2>9, <3>3
      <4>2. h[a] = f[a] - k + 1 /\ h[b] = f[b] - k + 1
        OBVIOUS
      <4> HIDE DEF h
      <4> QED BY <4>1, <4>2
    <3>6. h \in [1 .. (L + 1) -> 1 .. (N + 1 - k + 1)]
      BY <3>4
    <3> HIDE DEF h
    <3>7. Climbs(h, U, T)
      BY <3>1, <3>5, <3>6 DEF Climbs
    <3>8. U <= T
      BY <3>2, <3>7, ClimbsAhead
    <3> QED BY <1>2, <1>3, <2>9, <3>1, <3>8
  <2>11. PICK v : v = SubSeq(u, 2, Len(u))
    OBVIOUS
  <2>12. v \in Seq(EventRec) /\ Len(v) = L
    <3>1. \A i \in 2 .. Len(u) : u[i] \in EventRec
      <4>1. \A i \in 2 .. Len(u) : i \in 1 .. Len(u)
        OBVIOUS
      <4> QED BY <1>11, <4>1, ElementOfSeq
    <3>2. /\ SubSeq(u, 2, Len(u)) \in Seq(EventRec)
          /\ Len(SubSeq(u, 2, Len(u))) = IF 2 <= Len(u) THEN Len(u) - 2 + 1 ELSE 0
      BY <1>11, <3>1, SubSeqProperties
    <3> QED BY <1>3, <2>1, <2>11, <3>2
  <2>13. PICK Q : Q = {i \in K : i > f[1]}
    OBVIOUS
  <2>14. Q = KeptPlaces(new, k)
    <3>1. KeptPlaces(new, k) = {i \in 1 .. (N + 1) : i > k /\ ~new[i].pruned}
      BY <1>2 DEF KeptPlaces
    <3> QED BY <1>2, <1>6, <2>6, <2>8, <2>9, <2>13, <3>1
  <2>15. Picks(v, s2, Q)
    <3>1. Len(u) >= 1
      BY <1>3, <2>1
    <3>2. Picks(SubSeq(u, 2, Len(u)), s2, {i \in K : i > f[1]})
      BY <1>11, <2>3, <2>4, <3>1, PicksTail
    <3> QED BY <2>11, <2>13, <3>2
  <2>16. k \in Nat /\ k + L <= Len(new)
    BY <1>2, <2>9, <2>10
  <2>17. RecentFrom(v, new, k)
    BY <1>1, <2>14, <2>15, <2>16 DEF RecentFrom
  <2> QED BY <1>1, <1>3, <2>2, <2>11, <2>12, <2>17 DEF RecentOf
<1> QED BY <1>13, <1>14

(* A prune takes the same events out of both. *)
LEMMA Marked ==
    ASSUME NEW log \in Seq(Entry), NEW pid
    PROVE  LET new == markPruned(log, pid)
           IN  /\ new \in Seq(Entry) /\ Len(new) = Len(log) /\ Len(log) \in Nat
               /\ EventsIn(new) = EventsIn(log)
               /\ \A i \in 1 .. Len(log) :
                     /\ new[i].e = log[i].e
                     /\ new[i].pruned <=> (log[i].pruned \/ log[i].e.pid = pid)
<1>1. PICK N, new : N = Len(log) /\ new = markPruned(log, pid)
  OBVIOUS
<1>2. N \in Nat /\ DOMAIN log = 1 .. N /\ \A i \in 1 .. N : log[i] \in Entry
  BY <1>1, LenProperties, ElementOfSeq
<1>3. new \in Seq(Entry)
  BY <1>1, PidsOfPruned
<1>4. DOMAIN new = 1 .. N
  BY <1>1, <1>2 DEF markPruned
<1>5. \A i \in 1 .. N : new[i] = [log[i] EXCEPT !.pruned = log[i].pruned \/ log[i].e.pid = pid]
  BY <1>1, <1>2 DEF markPruned
<1>6. \A i \in 1 .. N : /\ new[i].e = log[i].e
                        /\ new[i].pruned <=> (log[i].pruned \/ log[i].e.pid = pid)
  BY <1>2, <1>5 DEF Entry
<1>7. Len(new) = N
  BY <1>2, <1>3, <1>4, LenProperties
<1>8. EventsIn(new) = EventsIn(log)
  BY <1>2, <1>4, <1>6 DEF EventsIn
<1> QED BY <1>1, <1>2, <1>3, <1>6, <1>7, <1>8

LEMMA RecentPruned ==
    ASSUME NEW log \in Seq(Entry), NEW pid, NEW events, RecentOf(events, log)
    PROVE  RecentOf(withoutPid(events, pid), markPruned(log, pid))
<1>1. PICK N, new, s, M : /\ N = Len(log) /\ new = markPruned(log, pid)
                          /\ s = EventsIn(log) /\ M = Len(events)
  OBVIOUS
<1>2. /\ N \in Nat /\ Len(new) = N /\ EventsIn(new) = s
      /\ \A i \in 1 .. N : new[i].pruned <=> (log[i].pruned \/ log[i].e.pid = pid)
  BY <1>1, Marked
<1>3. PICK n : RecentFrom(events, log, n)
  BY DEF RecentOf
<1>4. PICK I, K : I = KeptPlaces(log, n) /\ K = KeptPlaces(new, n)
  OBVIOUS
<1>5. /\ I = {i \in 1 .. N : i > n /\ ~log[i].pruned}
      /\ K = {i \in 1 .. N : i > n /\ ~new[i].pruned}
  BY <1>1, <1>2, <1>4 DEF KeptPlaces
<1>6. events \in Seq(EventRec) /\ M <= RecentEventLimit /\ M \in Nat /\ DOMAIN events = 1 .. M
  BY <1>1, LenProperties DEF RecentOf
<1>7. PICK f : IsPick(f, events, s, I)
  BY <1>1, <1>3, <1>4 DEF RecentFrom, Picks
<1>8. /\ f \in [1 .. M -> I] /\ \A i \in I : \E a \in 1 .. M : f[a] = i
      /\ \A a \in 1 .. M : events[a] = s[f[a]]
  BY <1>1, <1>7 DEF IsPick
<1>9. \A i \in 1 .. N : s[i] = log[i].e
  BY <1>1, EventsInLog
<1>10. PICK set, u, J : /\ set = {e \in Range(events) : e.pid # pid}
                        /\ u = only(events, set)
                        /\ J = {a \in 1 .. M : events[a] \in set}
  OBVIOUS
<1>11. Picks(u, events, J) /\ u \in Seq({events[i] : i \in 1 .. M})
  <2>1. /\ Picks(only(events, set), events, {i \in 1 .. M : events[i] \in set})
        /\ only(events, set) \in Seq({events[i] : i \in 1 .. M})
    BY <1>6, OnlyPicks
  <2> QED BY <1>10, <2>1
<1>12. u \in Seq(EventRec)
  <2>1. {events[i] : i \in 1 .. M} \subseteq EventRec
    BY <1>1, <1>6, ElementOfSeq
  <2> QED BY <1>11, <2>1, SeqMonotonic
<1>13. Len(u) <= M
  <2>1. PICK g : IsPick(g, u, events, J)
    BY <1>11 DEF Picks
  <2>2. PICK U : U = Len(u)
    OBVIOUS
  <2>3. U \in Nat /\ Climbs(g, U, M)
    BY <1>10, <2>1, <2>2 DEF IsPick, Climbs
  <2> QED BY <1>6, <2>2, <2>3, ClimbsAhead
<1>14. IsImage(K, f, J)
  <2>1. \A a \in 1 .. M : a \in J <=> events[a].pid # pid
    BY <1>6, <1>10 DEF Range
  <2>2. \A a \in 1 .. M : f[a] \in 1 .. N /\ events[a] = log[f[a]].e /\ f[a] \in I
    BY <1>5, <1>8, <1>9
  <2>3. \A i \in K : i \in I /\ log[i].e.pid # pid
    BY <1>2, <1>5
  <2>4. \A i \in I : log[i].e.pid # pid => i \in K
    BY <1>2, <1>5
  <2>5. J \subseteq 1 .. M
    BY <1>10
  <2>6. \A i \in K : \E a \in J : f[a] = i
    BY <1>8, <2>1, <2>2, <2>3
  <2>7. \A a \in J : f[a] \in K
    BY <2>1, <2>2, <2>4, <2>5
  <2> QED BY <2>6, <2>7 DEF IsImage
<1>15. Picks(u, s, K)
  <2>1. I \in SUBSET Int /\ J \in SUBSET (1 .. Len(events))
    BY <1>1, <1>5, <1>10
  <2>2. IsPick(f, events, s, I) /\ Picks(u, events, J)
    BY <1>7, <1>11
  <2> QED BY <1>14, <2>1, <2>2, PicksOfPicks
<1>16. RecentFrom(u, new, n)
  BY <1>1, <1>2, <1>3, <1>4, <1>15 DEF RecentFrom
<1>17. withoutPid(events, pid) = u
  BY <1>10 DEF withoutPid
<1> QED BY <1>1, <1>6, <1>12, <1>13, <1>16, <1>17, LimitsAssumption, LenProperties DEF RecentOf

LEMMA UnprunedPicks ==
    ASSUME NEW log \in Seq(Entry)
    PROVE  /\ Picks(unpruned(log), log, KeptPlaces(log, 0))
           /\ unpruned(log) \in Seq(Entry)
<1>1. PICK N, set : N = Len(log) /\ set = {a \in Range(log) : ~a.pruned}
  OBVIOUS
<1>2. N \in Nat /\ DOMAIN log = 1 .. N /\ \A i \in 1 .. N : log[i] \in Entry
  BY <1>1, LenProperties, ElementOfSeq
<1>3. /\ Picks(only(log, set), log, {i \in 1 .. N : log[i] \in set})
      /\ only(log, set) \in Seq({log[i] : i \in 1 .. N})
  BY <1>2, OnlyPicks
<1>4. {i \in 1 .. N : log[i] \in set} = KeptPlaces(log, 0)
  BY <1>1, <1>2 DEF KeptPlaces, Range
<1>5. only(log, set) \in Seq(Entry)
  <2>1. {log[i] : i \in 1 .. N} \subseteq Entry
    BY <1>2
  <2> QED BY <1>3, <2>1, SeqMonotonic
<1> QED BY <1>1, <1>3, <1>4, <1>5 DEF unpruned

LEMMA RecentIsEnd ==
    ASSUME NEW log \in Seq(Entry), NEW events, RecentOf(events, log)
    PROVE  IsSuffix(events, EventsIn(unpruned(log)))
<1>1. PICK N, s, v, t : /\ N = Len(log) /\ s = EventsIn(log)
                        /\ v = unpruned(log) /\ t = EventsIn(v)
  OBVIOUS
<1>2. N \in Nat /\ \A i \in 1 .. N : s[i] = log[i].e
  BY <1>1, EventsInLog
<1>3. PICK n : RecentFrom(events, log, n)
  BY DEF RecentOf
<1>4. PICK I, K : I = KeptPlaces(log, 0) /\ K = KeptPlaces(log, n)
  OBVIOUS
<1>5. n \in Nat /\ Picks(events, s, K)
  BY <1>1, <1>3, <1>4 DEF RecentFrom
<1>6. I \in SUBSET (1 .. N) /\ I \in SUBSET Int
  BY <1>1, <1>4 DEF KeptPlaces
<1>7. K = {i \in I : i > n}
  BY <1>2, <1>4, <1>5 DEF KeptPlaces
<1>8. Picks(t, s, I)
  <2>1. v \in Seq(Entry) /\ Picks(v, log, I)
    BY <1>1, <1>4, UnprunedPicks
  <2>2. PICK f : IsPick(f, v, log, I)
    BY <2>1 DEF Picks
  <2>3. PICK m : m = Len(v)
    OBVIOUS
  <2>4. Len(t) = m /\ DOMAIN t = 1 .. m /\ \A a \in 1 .. m : t[a] = v[a].e
    BY <1>1, <2>1, <2>3, EventsInLog
  <2>5. \A a \in 1 .. m : t[a] = s[f[a]]
    <3>1. \A a \in 1 .. m : f[a] \in 1 .. N /\ v[a] = log[f[a]]
      BY <1>6, <2>2, <2>3 DEF IsPick
    <3> QED BY <1>2, <2>4, <3>1
  <2>6. IsPick(f, t, s, I)
    BY <2>2, <2>3, <2>4, <2>5 DEF IsPick
  <2> QED BY <2>6 DEF Picks
<1>9. IsSuffix(events, t)
  <2>1. PICK Q : Q = {i \in I : i > n}
    OBVIOUS
  <2>2. Picks(events, s, {i \in I : i > n}) /\ n \in Int
    BY <1>5, <1>7
  <2> QED BY <1>6, <1>8, <2>2, PicksSuffix
<1> QED BY <1>1, <1>9

(* None of the last events is missing but the pruned ones. *)
LEMMA RecentIsLong ==
    ASSUME NEW log \in Seq(Entry), NEW events, RecentOf(events, log)
    PROVE  Len(events) >= Len(unpruned(trim(log, RecentEventLimit)))
<1>1. PICK N, s, L, last : /\ N = Len(log) /\ s = EventsIn(log) /\ L = RecentEventLimit
                           /\ last = trim(log, L)
  OBVIOUS
<1>2. N \in Nat /\ L \in Nat /\ L >= 1 /\ \A i \in 1 .. N : log[i] \in Entry
  BY <1>1, EventsInLog, LimitsAssumption
<1>3. PICK n : RecentFrom(events, log, n)
  BY DEF RecentOf
<1>4. PICK K : K = KeptPlaces(log, n)
  OBVIOUS
<1>5. n \in Nat /\ (n = 0 \/ n + L <= N) /\ Picks(events, s, K)
  BY <1>1, <1>3, <1>4 DEF RecentFrom
<1>6. K = {i \in 1 .. N : i > n /\ ~log[i].pruned}
  BY <1>1, <1>4 DEF KeptPlaces
(* The last events are those after the first c. *)
<1>7. PICK c : /\ c \in Nat /\ n <= c /\ last \in Seq(Entry) /\ Len(last) = N - c
               /\ \A i \in 1 .. (N - c) : last[i] = log[i + c] /\ i + c \in 1 .. N
  <2>1. CASE N <= L
    <3>1. last = log /\ n = 0 /\ N - 0 = N
      BY <1>1, <1>2, <1>5, <2>1 DEF trim
    <3>2. \A i \in 1 .. (N - 0) : last[i] = log[i + 0] /\ i + 0 \in 1 .. N
      BY <1>2, <3>1
    <3>3. 0 \in Nat /\ n <= 0 /\ last \in Seq(Entry) /\ Len(last) = N - 0
      BY <1>1, <1>2, <3>1
    <3> QED BY <3>2, <3>3
  <2>2. CASE ~(N <= L)
    <3>1. PICK d : d = N - L
      OBVIOUS
    <3>2. d \in Nat /\ n <= d /\ N - d = L /\ d + 1 \in Int
      BY <1>2, <1>5, <2>2, <3>1
    <3>3. last = SubSeq(log, d + 1, N)
      BY <1>1, <2>2, <3>1 DEF trim
    <3>4. \A i \in (d + 1) .. N : log[i] \in Entry
      BY <1>2, <3>2
    <3>5. /\ SubSeq(log, d + 1, N) \in Seq(Entry)
          /\ Len(SubSeq(log, d + 1, N)) = IF d + 1 <= N THEN N - (d + 1) + 1 ELSE 0
          /\ \A i \in 1 .. N - (d + 1) + 1 : SubSeq(log, d + 1, N)[i] = log[d + 1 + i - 1]
      BY <1>2, <3>2, <3>4, SubSeqProperties
    <3>6. last \in Seq(Entry) /\ Len(last) = N - d
      BY <1>2, <2>2, <3>1, <3>2, <3>3, <3>5
    <3>7. \A i \in 1 .. (N - d) : last[i] = log[i + d] /\ i + d \in 1 .. N
      <4> TAKE i \in 1 .. (N - d)
      <4>1. i \in 1 .. N - (d + 1) + 1 /\ d + 1 + i - 1 = i + d /\ i + d \in 1 .. N
        BY <1>2, <3>2
      <4> QED BY <3>3, <3>5, <4>1
    <3> QED BY <3>2, <3>6, <3>7
  <2> QED BY <2>1, <2>2
<1>8. PICK J, v : J = KeptPlaces(last, 0) /\ v = unpruned(last)
  OBVIOUS
<1>9. J = {i \in 1 .. (N - c) : i > 0 /\ ~last[i].pruned}
  BY <1>7, <1>8 DEF KeptPlaces
<1>10. PICK f, g : IsPick(f, v, last, J) /\ IsPick(g, events, s, K)
  BY <1>5, <1>7, <1>8, UnprunedPicks DEF Picks
<1>11. \A j \in J : j + c \in K
  <2> TAKE j \in J
  <2>1. j \in 1 .. (N - c) /\ ~log[j + c].pruned /\ j + c \in 1 .. N
    BY <1>7, <1>9
  <2>2. j + c > n
    BY <1>2, <1>5, <1>7, <2>1
  <2> QED BY <1>6, <2>1, <2>2
<1>12. J \in SUBSET Int /\ K \in SUBSET Int /\ c \in Int
  BY <1>6, <1>7, <1>9
<1>13. PICK h : Climbs(h, Len(v), Len(events))
  BY <1>10, <1>11, <1>12, PickInto
<1>14. Len(v) \in Nat /\ Len(events) \in Nat
  BY <1>10 DEF IsPick
<1>15. Len(v) <= Len(events)
  BY <1>13, <1>14, ClimbsAhead
<1> QED BY <1>1, <1>8, <1>14, <1>15

-----------------------------------------------------------------------------
LEMMA InitLogInv == Init => LogInv
BY DEF Init, LogInv, RecentInv, TimesInv, HistoryInv

LEMMA ObserveLog ==
    ASSUME IInv, LogInv, NEW id \in SessionIDs, NEW pid \in Pids, NEW e \in EventsOf(id, pid),
           NEW comm, NEW lineage, NEW security, Observe(id, e, comm, lineage, security)
    PROVE  LogInv'
<1>1. PICK sess, log, ctx, x : /\ sess = SessionOf(id) /\ log = AcceptedOf(id)
                               /\ ctx = ContextOf(id) /\ x = [e |-> e, pruned |-> FALSE]
  OBVIOUS
<1>2. /\ log \in Seq(Entry) /\ IsSession(sess) /\ RecentOf(sess.recentEvents, log)
      /\ Numbered(log)
      /\ ctx.history \ {"OpenedDeletedPath"} \subseteq HistoryOf(EventsIn(log))
  <2>1. CASE id \in DOMAIN sessions
    BY <1>1, <2>1 DEF IInv, Shape, AcceptedOf, SessionOf, ContextOf,
                      LogInv, RecentInv, TimesInv, HistoryInv
  <2>2. CASE id \notin DOMAIN sessions
    <3>1. sess = NewSession /\ ctx = NoContext /\ log = << >>
      BY <1>1, <2>2 DEF IInv, Shape, AcceptedOf, SessionOf, ContextOf
    <3> QED BY <3>1, RecentEmpty DEF NewSession, NoContext, IsSession
  <2> QED BY <2>1, <2>2
<1>3. x \in Entry /\ x.e = e /\ ~x.pruned /\ e.time = Len(log) + 1
  BY <1>1, <1>2, EventIsTyped
<1>4. PICK proc, latest, new : /\ proc = processAfter(sess.processes, e, comm, lineage, security)
                               /\ latest = trim(Append(sess.recentEvents, e), RecentEventLimit)
                               /\ new = Append(log, x)
  OBVIOUS
<1>5. /\ sessions' = Put(sessions, id,
             [sess EXCEPT !.processes = Put(sess.processes, e.pid, proc),
                          !.recentEvents = latest])
      /\ contexts' = Put(contexts, id, ctx)
      /\ accepted' = Put(accepted, id, new)
  BY <1>1, <1>4 DEF Observe
<1>6. /\ DOMAIN sessions' = DOMAIN sessions \cup {id}
      /\ sessions'[id].recentEvents = latest
      /\ \A i \in DOMAIN sessions \ {id} : sessions'[i] = sessions[i]
  BY <1>2, <1>5 DEF Put, IsSession
<1>7. /\ contexts'[id] = ctx
      /\ \A i \in DOMAIN sessions \ {id} : contexts'[i] = contexts[i]
  BY <1>5 DEF Put, IInv, Shape
<1>8. /\ accepted'[id] = new
      /\ \A i \in DOMAIN sessions \ {id} : accepted'[i] = accepted[i]
  BY <1>5 DEF Put, IInv, Shape
<1>9. RecentOf(latest, new)
  BY <1>2, <1>3, <1>4, RecentAppend
<1>10. Numbered(new)
  BY <1>2, <1>3, <1>4, NumberedAppend
<1>11. ctx.history \ {"OpenedDeletedPath"} \subseteq HistoryOf(EventsIn(new))
  <2>1. HistoryOf(EventsIn(log)) \subseteq HistoryOf(EventsIn(new))
    BY <1>2, <1>3, <1>4, HistoryGrows
  <2> QED BY <1>2, <2>1
<1>12. RecentInv'
  BY <1>6, <1>8, <1>9 DEF LogInv, RecentInv
<1>13. TimesInv'
  BY <1>6, <1>8, <1>10 DEF LogInv, TimesInv
<1>14. HistoryInv'
  BY <1>6, <1>7, <1>8, <1>11 DEF LogInv, HistoryInv
<1> QED BY <1>12, <1>13, <1>14 DEF LogInv

LEMMA ApplyLog == IInv /\ LogInv /\ ApplyEvent => LogInv'
<1> SUFFICES ASSUME IInv, LogInv, ApplyEvent PROVE LogInv'
  OBVIOUS
<1>1. PICK id, sess : id = applying[1].id /\ sess = sessions[id]
  OBVIOUS
<1>2. PICK flags : /\ contexts' = [contexts EXCEPT ![id] = flags]
                   /\ flags.history = BuildHistoricalContext(sess)
                   /\ UNCHANGED <<sessions, accepted>>
  <2>1. PICK known :
            known = IF id \in dirtyContexts
                    THEN [execution |-> rebuildExecutionAggregate(sess),
                          capability |-> rebuildCapabilityAggregate(sess)]
                    ELSE contexts[id]
    OBVIOUS
  <2>2. PICK proc, execution, capability :
            /\ proc = sess.processes[applying[1].pid]
            /\ execution = known.execution \cup
                   (IF applying[1].type \in {"execve", "exit"}
                    THEN BuildExecutionChainContext(proc) ELSE {})
            /\ capability = known.capability \cup
                   (IF applying[1].type = "execve"
                    THEN BuildCapabilityContext(proc) ELSE {})
    OBVIOUS
  <2>3. PICK flags : flags = [execution |-> execution, capability |-> capability,
                              history |-> BuildHistoricalContext(sess)]
    OBVIOUS
  <2>4. contexts' = [contexts EXCEPT ![id] = flags] /\ UNCHANGED <<sessions, accepted>>
    BY <1>1, <2>1, <2>2, <2>3 DEF ApplyEvent
  <2> QED BY <2>3, <2>4
<1>3. id \in DOMAIN sessions /\ DOMAIN contexts = DOMAIN sessions
  BY <1>1 DEF ApplyEvent, IInv, Shape, ApplyingInv
<1>4. flags.history \ {"OpenedDeletedPath"} \subseteq HistoryOf(EventsIn(accepted[id]))
  <2>1. flags.history \subseteq HistoryOf(sess.recentEvents) \cup {"OpenedDeletedPath"}
    BY <1>2 DEF BuildHistoricalContext
  <2>2. /\ accepted[id] \in Seq(Entry) /\ Numbered(accepted[id])
        /\ RecentOf(sess.recentEvents, accepted[id])
    BY <1>1, <1>3 DEF IInv, Shape, LogInv, RecentInv, TimesInv
  <2>3. HistoryOf(sess.recentEvents) \subseteq HistoryOf(EventsIn(accepted[id]))
    BY <2>2, RecentHistory
  <2> QED BY <2>1, <2>3
<1>5. HistoryInv'
  BY <1>2, <1>3, <1>4 DEF LogInv, HistoryInv
<1> QED BY <1>2, <1>5 DEF LogInv, RecentInv, TimesInv

LEMMA IgnoreRoutineLog ==
    ASSUME IInv, LogInv, NEW id, NEW pid, NEW ppid, IgnoreRoutineExec(id, pid, ppid)
    PROVE  LogInv'
<1>1. CASE UNCHANGED <<sessions, accepted>>
  BY <1>1 DEF IgnoreRoutineExec, LogInv, RecentInv, TimesInv, HistoryInv
<1>2. CASE ~UNCHANGED <<sessions, accepted>>
  <2>1. ppid \in DOMAIN SessionOf(id).processes
    BY <1>2 DEF IgnoreRoutineExec
  <2>2. id \in DOMAIN sessions
    BY <2>1 DEF SessionOf, NewSession
  <2>3. PICK log, new, events, latest, kept :
            /\ log = accepted[id] /\ new = markPruned(log, ppid)
            /\ events = sessions[id].recentEvents /\ latest = withoutPid(events, ppid)
            /\ kept = Restrict(ProcessesOf(id), DOMAIN ProcessesOf(id) \ {ppid})
    OBVIOUS
  <2>4. /\ sessions' = [sessions EXCEPT ![id] = prune(sessions[id], ppid)]
        /\ accepted' = [accepted EXCEPT ![id] = new]
        /\ contexts' = contexts
    BY <1>2, <2>3 DEF IgnoreRoutineExec
  <2>5. prune(sessions[id], ppid) =
            [sessions[id] EXCEPT !.processes = kept, !.recentEvents = latest]
    BY <2>3 DEF prune, ProcessesOf
  <2>6. IsSession(sessions[id]) /\ DOMAIN accepted = DOMAIN sessions /\ log \in Seq(Entry)
    BY <2>2, <2>3 DEF IInv, Shape
  <2>7. /\ DOMAIN sessions' = DOMAIN sessions /\ sessions'[id].recentEvents = latest
        /\ \A i \in DOMAIN sessions \ {id} : sessions'[i] = sessions[i]
    BY <2>2, <2>4, <2>5, <2>6 DEF IsSession
  <2>8. /\ accepted'[id] = new
        /\ \A i \in DOMAIN sessions \ {id} : accepted'[i] = accepted[i]
    BY <2>2, <2>4, <2>6
  <2>9. RecentOf(events, log) /\ Numbered(log)
    BY <2>2, <2>3 DEF LogInv, RecentInv, TimesInv
  <2>10. RecentOf(latest, new)
    BY <2>3, <2>6, <2>9, RecentPruned
  <2>11. Numbered(new) /\ EventsIn(new) = EventsIn(log)
    <3>1. /\ Len(new) = Len(log) /\ EventsIn(new) = EventsIn(log)
          /\ \A i \in 1 .. Len(log) : new[i].e = log[i].e
      BY <2>3, <2>6, Marked
    <3> QED BY <2>9, <3>1 DEF Numbered
  <2>12. RecentInv' /\ TimesInv'
    BY <2>7, <2>8, <2>10, <2>11 DEF LogInv, RecentInv, TimesInv
  <2>13. HistoryInv'
    BY <2>3, <2>4, <2>7, <2>8, <2>11 DEF LogInv, HistoryInv
  <2> QED BY <2>12, <2>13 DEF LogInv
<1> QED BY <1>1, <1>2

LEMMA CloseLog ==
    ASSUME IInv, LogInv, NEW id, CloseSession(id)
    PROVE  LogInv'
<1>1. /\ id \in DOMAIN sessions
      /\ sessions' = [sessions EXCEPT ![id].closed = TRUE]
      /\ UNCHANGED <<contexts, accepted>>
  BY DEF CloseSession
<1>2. IsSession(sessions[id])
  BY <1>1 DEF IInv, Shape
<1>3. /\ DOMAIN sessions' = DOMAIN sessions
      /\ \A i \in DOMAIN sessions : sessions'[i].recentEvents = sessions[i].recentEvents
  BY <1>1, <1>2 DEF IsSession
<1> QED BY <1>1, <1>3 DEF LogInv, RecentInv, TimesInv, HistoryInv

LEMMA NextLogInv == IInv /\ LogInv /\ [Next]_contextVars => LogInv'
<1> SUFFICES ASSUME IInv, LogInv, [Next]_contextVars PROVE LogInv'
  OBVIOUS
<1>1. CASE Accept
  <2>1. PICK id \in SessionIDs, pid \in Pids :
            \E e \in EventsOf(id, pid), comm \in Executables :
               IF e.type = "execve"
               THEN \E lineage \in Lineages(pid), security \in Postures :
                       Observe(id, e, comm, lineage, security)
               ELSE Observe(id, e, comm, << >>, "unread")
    BY <1>1 DEF Accept
  <2> QED BY <2>1, ObserveLog
<1>2. CASE ApplyEvent
  BY <1>2, ApplyLog
<1>3. CASE Ignore
  <2>1. CASE \E id, pid, ppid : IgnoreRoutineExec(id, pid, ppid)
    BY <2>1, IgnoreRoutineLog
  <2>2. CASE \E id, pid : IgnoreExit(id, pid)
    BY <2>2 DEF IgnoreExit, LogInv, RecentInv, TimesInv, HistoryInv
  <2> QED BY <1>3, <2>1, <2>2 DEF Ignore
<1>4. CASE JanitorCloses
  BY <1>4, CloseLog DEF JanitorCloses
<1>5. CASE UNCHANGED contextVars
  BY <1>5 DEF contextVars, LogInv, RecentInv, TimesInv, HistoryInv
<1> QED BY <1>1, <1>2, <1>3, <1>4, <1>5 DEF Next

LEMMA LogInvariance == Spec => []LogInv
<1>1. Init => LogInv
  BY InitLogInv
<1>2. IInv /\ LogInv /\ [Next]_contextVars => LogInv'
  BY NextLogInv
<1> QED BY <1>1, <1>2, Invariance, PTL DEF Spec

-----------------------------------------------------------------------------
(* What is left of the type invariant. *)
Targets == Files \cup Executables \cup {"remote", "leader", "thread"}

OpensOK(p) == p.opens \in Seq(Targets) /\ Len(p.opens) <= MaxPerProcessArtifacts

OpensInv ==
    \A id \in DOMAIN sessions : \A pid \in DOMAIN ProcessesOf(id) :
        OpensOK(ProcessesOf(id)[pid])

SuppressedInv ==
    \A id \in DOMAIN suppressedShells :
        suppressedShells[id] # {} /\ suppressedShells[id] \subseteq Pids

StateInv == DOMAIN sessions \subseteq SessionIDs /\ SuppressedInv /\ OpensInv

LEMMA Trimmed ==
    ASSUME NEW T, NEW t \in Seq(T), NEW limit \in Nat
    PROVE  trim(t, limit) \in Seq(T) /\ Len(trim(t, limit)) <= limit
<1>1. PICK n : n = Len(t)
  OBVIOUS
<1>2. n \in Nat /\ \A i \in 1 .. n : t[i] \in T
  BY <1>1, LenProperties, ElementOfSeq
<1>3. CASE n <= limit
  BY <1>1, <1>3 DEF trim
<1>4. CASE ~(n <= limit)
  <2>1. PICK m : m = n - limit + 1
    OBVIOUS
  <2>2. m \in Int /\ m >= 1 /\ \A i \in m .. n : i \in 1 .. n
    BY <1>2, <1>4, <2>1
  <2>3. SubSeq(t, m, n) \in Seq(T) /\ Len(SubSeq(t, m, n)) = IF m <= n THEN n - m + 1 ELSE 0
    BY <1>2, <2>2, SubSeqProperties
  <2>4. Len(SubSeq(t, m, n)) <= limit
    BY <1>2, <1>4, <2>1, <2>3
  <2>5. trim(t, limit) = SubSeq(t, m, n)
    BY <1>1, <1>4, <2>1 DEF trim
  <2> QED BY <2>3, <2>4, <2>5
<1> QED BY <1>3, <1>4

LEMMA OpensAfter ==
    ASSUME NEW processes, NEW e \in EventRec, NEW comm, NEW lineage, NEW security,
           \A pid \in DOMAIN processes : IsProcess(processes[pid]) /\ OpensOK(processes[pid])
    PROVE  OpensOK(processAfter(processes, e, comm, lineage, security))
<1> DEFINE old == IF e.pid \in DOMAIN processes THEN processes[e.pid]
                                                ELSE NewProcess(comm)
           new == processAfter(processes, e, comm, lineage, security)
<1>1. PICK p : p = old
  OBVIOUS
<1>2. IsProcess(p) /\ OpensOK(p)
  <2>1. CASE e.pid \in DOMAIN processes
    BY <1>1, <2>1
  <2>2. CASE e.pid \notin DOMAIN processes
    <3>1. p = NewProcess(comm)
      BY <1>1, <2>2
    <3>2. IsProcess(p) /\ p.opens = << >>
      BY <3>1 DEF IsProcess, NewProcess
    <3>3. << >> \in Seq(Targets) /\ Len(<< >>) <= MaxPerProcessArtifacts
      BY EmptySeq, LimitsAssumption
    <3> QED BY <3>2, <3>3 DEF OpensOK
  <2> QED BY <2>1, <2>2
<1>3. CASE e.type = "execve"
  <2>1. PICK names : names = rebuildLineage(
            Put(processes, e.pid, [p EXCEPT !.execPath = e.target, !.comm = e.target]),
            e.pid, lineage)
    OBVIOUS
  <2>2. new = [[p EXCEPT !.execPath = e.target, !.comm = e.target] EXCEPT
                   !.lineage = names, !.security = security, !.exited = FALSE]
    BY <1>1, <1>3, <2>1 DEF processAfter
  <2>3. new.opens = p.opens
    BY <1>2, <2>2 DEF IsProcess
  <2> QED BY <1>2, <2>3 DEF OpensOK
<1>4. CASE e.type = "openat"
  <2>1. PICK opens : opens = trim(Append(p.opens, e.target), MaxPerProcessArtifacts)
    OBVIOUS
  <2>2. new = [p EXCEPT !.opens = opens]
    BY <1>1, <1>4, <2>1 DEF processAfter
  <2>3. new.opens = opens
    BY <1>2, <2>2 DEF IsProcess
  <2>4. Append(p.opens, e.target) \in Seq(Targets)
    <3>1. e.target \in Targets /\ p.opens \in Seq(Targets)
      BY <1>2 DEF EventRec, OpensOK, Targets
    <3> QED BY <3>1, AppendProperties
  <2>5. opens \in Seq(Targets) /\ Len(opens) <= MaxPerProcessArtifacts
    BY <2>1, <2>4, Trimmed, LimitsAssumption
  <2> QED BY <2>3, <2>5 DEF OpensOK
<1>5. CASE e.type = "connect"
  <2>1. new = [p EXCEPT !.connected = TRUE]
    BY <1>1, <1>5 DEF processAfter
  <2>2. new.opens = p.opens
    BY <1>2, <2>1 DEF IsProcess
  <2> QED BY <1>2, <2>2 DEF OpensOK
<1>6. CASE e.type = "exit"
  <2>1. PICK exited : exited = (p.exited \/ e.target = "leader")
    OBVIOUS
  <2>2. new = [p EXCEPT !.exited = exited]
    BY <1>1, <1>6, <2>1 DEF processAfter
  <2>3. new.opens = p.opens
    BY <1>2, <2>2 DEF IsProcess
  <2> QED BY <1>2, <2>3 DEF OpensOK
<1> QED BY <1>3, <1>4, <1>5, <1>6 DEF EventRec, Types

LEMMA NextStateInv == IInv /\ StateInv /\ [Next]_contextVars => StateInv'
<1> SUFFICES ASSUME IInv, StateInv, [Next]_contextVars PROVE StateInv'
  OBVIOUS
<1>1. ASSUME NEW id \in SessionIDs, NEW pid \in Pids, NEW e \in EventsOf(id, pid),
             NEW comm, NEW lineage, NEW security, Observe(id, e, comm, lineage, security)
      PROVE  StateInv'
  <2>1. PICK sess, proc, latest :
            /\ sess = SessionOf(id)
            /\ proc = processAfter(sess.processes, e, comm, lineage, security)
            /\ latest = trim(Append(sess.recentEvents, e), RecentEventLimit)
    OBVIOUS
  <2>2. /\ sessions' = Put(sessions, id,
               [sess EXCEPT !.processes = Put(sess.processes, e.pid, proc),
                            !.recentEvents = latest])
        /\ suppressedShells' = suppressedShells
    BY <1>1, <2>1 DEF Observe
  <2>3. /\ AcceptedOf(id) \in Seq(Entry) /\ IsSession(sess)
        /\ \A p \in DOMAIN sess.processes : IsProcess(sess.processes[p]) /\ OpensOK(sess.processes[p])
    <3>1. CASE id \in DOMAIN sessions
      BY <2>1, <3>1 DEF IInv, Shape, AcceptedOf, SessionOf, ProcessesOf, StateInv, OpensInv
    <3>2. CASE id \notin DOMAIN sessions
      <4>1. sess = NewSession /\ AcceptedOf(id) = << >>
        BY <2>1, <3>2 DEF IInv, Shape, AcceptedOf, SessionOf
      <4> QED BY <4>1, RecentEmpty DEF NewSession, IsSession
    <3> QED BY <3>1, <3>2
  <2>4. e \in EventRec
    BY <2>3, EventIsTyped
  <2>5. OpensOK(proc)
    BY <2>1, <2>3, <2>4, OpensAfter
  <2>6. /\ DOMAIN sessions' = DOMAIN sessions \cup {id}
        /\ ProcessesOf(id)' = Put(sess.processes, e.pid, proc)
        /\ \A i \in DOMAIN sessions \ {id} : ProcessesOf(i)' = ProcessesOf(i)
    BY <2>2, <2>3 DEF Put, IsSession, ProcessesOf
  <2>7. \A p \in DOMAIN ProcessesOf(id)' : OpensOK(ProcessesOf(id)'[p])
    BY <2>3, <2>5, <2>6 DEF Put
  <2>8. OpensInv'
    BY <2>6, <2>7 DEF StateInv, OpensInv
  <2>9. SuppressedInv' /\ DOMAIN sessions' \subseteq SessionIDs
    BY <2>2, <2>6 DEF StateInv, SuppressedInv
  <2> QED BY <2>8, <2>9 DEF StateInv
<1>2. CASE Accept
  <2>1. PICK id \in SessionIDs, pid \in Pids :
            \E e \in EventsOf(id, pid), comm \in Executables :
               IF e.type = "execve"
               THEN \E lineage \in Lineages(pid), security \in Postures :
                       Observe(id, e, comm, lineage, security)
               ELSE Observe(id, e, comm, << >>, "unread")
    BY <1>2 DEF Accept
  <2> QED BY <1>1, <2>1
<1>3. CASE ApplyEvent
  BY <1>3 DEF ApplyEvent, StateInv, SuppressedInv, OpensInv, ProcessesOf
<1>4. ASSUME NEW id, NEW pid \in Pids, NEW ppid \in Pids, IgnoreRoutineExec(id, pid, ppid)
      PROVE  StateInv'
  <2>1. CASE UNCHANGED <<sessions, suppressedShells>>
    BY <2>1 DEF StateInv, SuppressedInv, OpensInv, ProcessesOf
  <2>2. CASE ~UNCHANGED <<sessions, suppressedShells>>
    <3>1. ppid \in DOMAIN SessionOf(id).processes
      BY <1>4, <2>2 DEF IgnoreRoutineExec
    <3>2. id \in DOMAIN sessions
      BY <3>1 DEF SessionOf, NewSession
    <3>3. PICK latest, kept :
              /\ latest = withoutPid(sessions[id].recentEvents, ppid)
              /\ kept = Restrict(ProcessesOf(id), DOMAIN ProcessesOf(id) \ {ppid})
      OBVIOUS
    <3>4. /\ sessions' = [sessions EXCEPT ![id] = prune(sessions[id], ppid)]
          /\ suppressedShells' = Put(suppressedShells, id, Suppressed(id) \cup {ppid, pid})
      BY <1>4, <2>2 DEF IgnoreRoutineExec
    <3>5. prune(sessions[id], ppid) =
              [sessions[id] EXCEPT !.processes = kept, !.recentEvents = latest]
      BY <3>3 DEF prune, ProcessesOf
    <3>6. IsSession(sessions[id])
      BY <3>2 DEF IInv, Shape
    <3>7. /\ DOMAIN sessions' = DOMAIN sessions /\ ProcessesOf(id)' = kept
          /\ \A i \in DOMAIN sessions \ {id} : ProcessesOf(i)' = ProcessesOf(i)
      BY <3>2, <3>4, <3>5, <3>6 DEF IsSession, ProcessesOf
    <3>8. \A p \in DOMAIN kept : OpensOK(kept[p])
      BY <3>2, <3>3 DEF Restrict, StateInv, OpensInv
    <3>9. OpensInv'
      BY <3>7, <3>8 DEF StateInv, OpensInv
    <3>10. Suppressed(id) \subseteq Pids
      BY DEF Suppressed, StateInv, SuppressedInv
    <3>11. SuppressedInv'
      BY <1>4, <3>4, <3>10 DEF Put, StateInv, SuppressedInv
    <3> QED BY <3>7, <3>9, <3>11 DEF StateInv
  <2> QED BY <2>1, <2>2
<1>5. ASSUME NEW id, NEW pid, IgnoreExit(id, pid)
      PROVE  StateInv'
  <2>1. /\ pid \in Suppressed(id) /\ unsuppress(id, pid) /\ sessions' = sessions
    BY <1>5 DEF IgnoreExit
  <2>2. id \in DOMAIN suppressedShells /\ Suppressed(id) = suppressedShells[id]
    BY <2>1 DEF Suppressed
  <2>3. CASE Suppressed(id) = {pid}
    <3>1. suppressedShells' = Restrict(suppressedShells, DOMAIN suppressedShells \ {id})
      BY <2>1, <2>3 DEF unsuppress
    <3> QED BY <2>1, <3>1 DEF Restrict, StateInv, SuppressedInv, OpensInv, ProcessesOf
  <2>4. CASE Suppressed(id) # {pid}
    <3>1. suppressedShells' = [suppressedShells EXCEPT ![id] = suppressedShells[id] \ {pid}]
      BY <2>1, <2>4 DEF unsuppress
    <3>2. suppressedShells[id] \ {pid} # {}
      BY <2>1, <2>2, <2>4
    <3>3. SuppressedInv'
      BY <2>2, <3>1, <3>2 DEF StateInv, SuppressedInv
    <3> QED BY <2>1, <3>3 DEF StateInv, OpensInv, ProcessesOf
  <2> QED BY <2>3, <2>4
<1>6. CASE Ignore
  BY <1>4, <1>5, <1>6 DEF Ignore
<1>7. ASSUME NEW id, CloseSession(id)
      PROVE  StateInv'
  <2>1. /\ id \in DOMAIN sessions
        /\ sessions' = [sessions EXCEPT ![id].closed = TRUE]
        /\ suppressedShells' = Restrict(suppressedShells, DOMAIN suppressedShells \ {id})
    BY <1>7 DEF CloseSession
  <2>2. IsSession(sessions[id])
    BY <2>1 DEF IInv, Shape
  <2>3. /\ DOMAIN sessions' = DOMAIN sessions
        /\ \A i \in DOMAIN sessions : ProcessesOf(i)' = ProcessesOf(i)
    BY <2>1, <2>2 DEF IsSession, ProcessesOf
  <2>4. SuppressedInv'
    BY <2>1 DEF Restrict, StateInv, SuppressedInv
  <2> QED BY <2>3, <2>4 DEF StateInv, OpensInv
<1>8. CASE JanitorCloses
  BY <1>7, <1>8 DEF JanitorCloses
<1>9. CASE UNCHANGED contextVars
  BY <1>9 DEF contextVars, StateInv, SuppressedInv, OpensInv, ProcessesOf
<1> QED BY <1>2, <1>3, <1>6, <1>8, <1>9 DEF Next

LEMMA StateInvariance == Spec => []StateInv
<1>1. Init => StateInv
  BY DEF Init, StateInv, SuppressedInv, OpensInv
<1>2. IInv /\ StateInv /\ [Next]_contextVars => StateInv'
  BY NextStateInv
<1> QED BY <1>1, <1>2, Invariance, PTL DEF Spec

-----------------------------------------------------------------------------
(* The state is well formed: the two maps of sessions have the same keys, no
   set of marks is left empty, and no list outgrows its limit
   (manager.go:12-31, normalization.go:26-34, helper.go:60-87).             *)
THEOREM TypeCorrect == Spec => []TypeOK
<1>1. IInv /\ LogInv /\ StateInv => TypeOK
  BY DEF IInv, Shape, LogInv, RecentInv, RecentOf, StateInv, SuppressedInv, OpensInv,
         OpensOK, ProcessesOf, TypeOK
<1> QED BY <1>1, Invariance, LogInvariance, StateInvariance, PTL

(* A session has a process record for exactly the pids of the events that no
   prune took away (manager.go:33-70, normalization.go:50-76), for any number
   of sessions, processes and events.                                       *)
THEOREM ViewsAgree == Spec => []ProcessesAreThoseOfEvents
<1>1. IInv => ProcessesAreThoseOfEvents
  BY DEF IInv, Shape, ViewInv, ProcessesAreThoseOfEvents, PidsOf, AcceptedOf, ProcessesOf
<1> QED BY <1>1, Invariance, PTL

(* The flags that the rules read cover every process that was executed and
   not pruned, added one by one or rebuilt (manager.go:108-147).            *)
THEOREM FlagsCover == Spec => []FlagsCoverProcesses
<1>1. IInv => FlagsCoverProcesses
  BY DEF IInv, CoverInv, Fresh, Covered, FlagsCoverProcesses, ProcessesOf
<1> QED BY <1>1, Invariance, PTL

(* The recent events of a session are the end of what it accepted and no
   prune took away, and all of it as far back as the limit reaches, whatever
   was trimmed and pruned in which order (session_update.go:77,
   helper.go:78, normalization.go:50-76).                                   *)
THEOREM RecentAreLatest == Spec => []RecentIsEndOfHistory
<1>1. IInv /\ LogInv => RecentIsEndOfHistory
  <2> SUFFICES ASSUME IInv, LogInv, NEW id \in DOMAIN sessions
               PROVE  /\ IsSuffix(sessions[id].recentEvents, Kept(id))
                      /\ Len(sessions[id].recentEvents)
                            >= Len(unpruned(trim(AcceptedOf(id), RecentEventLimit)))
    BY DEF RecentIsEndOfHistory
  <2>1. PICK log, events : log = AcceptedOf(id) /\ events = sessions[id].recentEvents
    OBVIOUS
  <2>2. log \in Seq(Entry) /\ RecentOf(events, log)
    BY <2>1 DEF IInv, Shape, LogInv, RecentInv, AcceptedOf
  <2>3. IsSuffix(events, EventsIn(unpruned(log)))
    BY <2>2, RecentIsEnd
  <2>4. Len(events) >= Len(unpruned(trim(log, RecentEventLimit)))
    BY <2>2, RecentIsLong
  <2> QED BY <2>1, <2>3, <2>4 DEF Kept
<1> QED BY <1>1, Invariance, LogInvariance, PTL

(* No historical flag is invented: what the trimmed and pruned events show is
   shown by all the events the session accepted (manager.go:108-147,
   history.go:12-24).  Events are numbered in the order of their times: with
   times out of order this would hold up to the disorder only.              *)
THEOREM HistoryIsReal == Spec => []HistoryHappened
<1>1. IInv /\ LogInv => HistoryHappened
  BY DEF IInv, Shape, LogInv, HistoryInv, HistoryHappened, AcceptedOf
<1> QED BY <1>1, Invariance, LogInvariance, PTL
=============================================================================
