----------------------------- MODULE LoadingProofs -----------------------------
(***************************************************************************)
(* Theorems about what loads the data sources: the preloader at start-up,  *)
(* for any data sources, any number of permits and any number of calls of  *)
(* Start, and the two fetchers that ask for page after page, for any       *)
(* albums, buckets and page sizes and any number of retries and changes.   *)
(*                                                                         *)
(* The preloader and the fetchers share no state.                          *)
(***************************************************************************)
EXTENDS Preloader, Fetchers, Induction

-----------------------------------------------------------------------------
(* The preloader.                                                          *)

Running == {s \in Source : job[s] = "running"}

\* Every token is held by a preload that runs.
TokensAreHeld == semaphore = Cardinality(Running)

\* Preloads run while InitData waits for them, at no other time.
PreloadsAreAwaited ==
    /\ init \in {"service", "pause", "list"} => \A s \in Source : job[s] = "none"
    /\ init \in {"resume", "done", "failed"} =>
           \A s \in Source : job[s] \in {"none", "done"}

\* The flag is set all the while.
PausedMeanwhile == init \in {"list", "preload", "resume"} => paused

IInv == TypeOK /\ TokensAreHeld /\ PreloadsAreAwaited /\ PausedMeanwhile /\ ~intruded

LEMMA RunningIsFinite == IsFiniteSet(Running) /\ Cardinality(Running) \in Nat
  <1>1. IsFiniteSet(Running)
    BY SourceAssumption, FS_Subset DEF Running
  <1> QED BY <1>1, FS_CardinalityType

LEMMA InitInv == Init => IInv
  <1> SUFFICES ASSUME Init PROVE IInv
    OBVIOUS
  <1> USE DEF Init
  <1>1. TypeOK
    <2>1. 0 \in 0..Permits
      BY PermitsAssumption
    <2> QED BY <2>1 DEF TypeOK
  <1>2. TokensAreHeld
    <2>1. Running = {}
      BY DEF Running
    <2> QED BY <2>1, FS_EmptySet DEF TokensAreHeld
  <1> QED BY <1>1, <1>2 DEF IInv, PreloadsAreAwaited, PausedMeanwhile

\* A step that leaves the preloads as they are keeps what is said of them.
LEMMA SameJobs ==
    ASSUME IInv, TypeOK', UNCHANGED <<job, semaphore>>
    PROVE  TokensAreHeld'
  BY DEF IInv, TokensAreHeld, Running

LEMMA NextInv == IInv /\ [Next]_vars => IInv'
  <1> SUFFICES ASSUME IInv, [Next]_vars PROVE IInv'
    OBVIOUS
  <1> USE DEF IInv
  <1>0. CASE UNCHANGED vars
    BY <1>0 DEF vars, TypeOK, TokensAreHeld, Running, PreloadsAreAwaited, PausedMeanwhile
  <1>1. ASSUME NEW l \in Loop, Started(l), UNCHANGED <<job, semaphore, intruded>>,
               init' \in {init, "pause"}
        PROVE  TypeOK'
    BY <1>1 DEF Started, TypeOK
  <1>2. CASE Start
    <2>1. TypeOK'
      <3>1. CASE ~running /\ \E l \in Loop : Started(l)
        BY <1>1, <1>2, <3>1 DEF Start, startUp, TypeOK
      <3>2. CASE running /\ UNCHANGED preloader
        BY <1>2, <3>2 DEF Start, startUp, preloader, TypeOK
      <3> QED BY <1>2, <3>1, <3>2 DEF Start
    <2>2. PausedMeanwhile'
      BY <1>2 DEF Start, startUp, PausedMeanwhile
    <2> QED BY <1>2, <2>1, <2>2, SameJobs DEF Start, startUp, PreloadsAreAwaited
  <1>3. CASE Stop
    <2>1. TypeOK'
      BY <1>3 DEF Stop, startUp, TypeOK
    <2> QED BY <1>3, <2>1, SameJobs DEF Stop, startUp, PreloadsAreAwaited, PausedMeanwhile
  <1>4. ASSUME NEW l \in Loop, BeginCheck(l) PROVE IInv'
    <2> USE <1>4 DEF BeginCheck, startUp
    <2>1. TypeOK'
      BY DEF TypeOK
    <2>2. Preloading => paused
      BY DEF Preloading, TypeOK, PreloadsAreAwaited, PausedMeanwhile
    <2>3. ~intruded'
      BY <2>2
    <2> QED BY <2>1, <2>3, SameJobs DEF PreloadsAreAwaited, PausedMeanwhile
  <1>5. ASSUME NEW l \in Loop, EndCheck(l) \/ EndLoop(l) PROVE IInv'
    <2> USE <1>5 DEF EndCheck, EndLoop, startUp
    <2>1. TypeOK'
      BY DEF TypeOK
    <2> QED BY <2>1, SameJobs DEF PreloadsAreAwaited, PausedMeanwhile
  <1>6. CASE InitService
    <2>1. 1 \in Loop
      BY MaxStartsAssumption DEF Loop
    <2>2. TypeOK'
      BY <1>1, <1>6, <2>1 DEF InitService
    <2> QED BY <1>6, <2>2, SameJobs DEF InitService, PreloadsAreAwaited, PausedMeanwhile
  <1>7. CASE Pause
    <2>1. TypeOK'
      BY <1>7 DEF Pause, TypeOK
    <2> QED BY <1>7, <2>1, SameJobs DEF Pause, PreloadsAreAwaited, PausedMeanwhile
  <1>8. CASE ListEndpoints
    <2> USE <1>8 DEF ListEndpoints, preloader
    <2>1. TypeOK'
      BY DEF TypeOK
    <2>2. Running = {} /\ Running' = {}
      BY DEF Running, PreloadsAreAwaited
    <2>3. TokensAreHeld'
      BY <2>2 DEF TokensAreHeld
    <2>4. PreloadsAreAwaited'
      BY DEF PreloadsAreAwaited
    <2> QED BY <2>1, <2>3, <2>4 DEF PausedMeanwhile
  <1>9. ASSUME NEW s \in Source, Acquire(s) PROVE IInv'
    <2> USE <1>9 DEF Acquire, preloader
    <2>1. Running' = Running \cup {s} /\ s \notin Running
      BY DEF Running, TypeOK
    <2>2. Cardinality(Running \cup {s}) = Cardinality(Running) + 1
      BY <2>1, RunningIsFinite, FS_AddElement
    <2>3. TokensAreHeld'
      BY <2>1, <2>2 DEF TokensAreHeld
    <2>4. TypeOK'
      BY PermitsAssumption DEF TypeOK
    <2> QED BY <2>3, <2>4 DEF PreloadsAreAwaited, PausedMeanwhile, TypeOK
  <1>10. ASSUME NEW s \in Source, Release(s) PROVE IInv'
    <2> USE <1>10 DEF Release, preloader
    <2>1. Running' = Running \ {s} /\ s \in Running
      BY DEF Running, TypeOK
    <2>2. Cardinality(Running \ {s}) = Cardinality(Running) - 1
      BY <2>1, RunningIsFinite, FS_RemoveElement
    <2>3. TokensAreHeld'
      BY <2>1, <2>2 DEF TokensAreHeld
    <2>4. Cardinality(Running \ {s}) \in Nat
      BY RunningIsFinite, FS_RemoveElement, FS_CardinalityType
    <2>5. semaphore' \in 0..Permits
      BY <2>2, <2>4, PermitsAssumption DEF TokensAreHeld, TypeOK
    <2>6. TypeOK'
      BY <2>5 DEF TypeOK
    <2> QED BY <2>3, <2>6 DEF PreloadsAreAwaited, PausedMeanwhile, TypeOK
  <1>11. CASE Wait
    <2>1. TypeOK'
      BY <1>11 DEF Wait, preloader, TypeOK
    <2> QED BY <1>11, <2>1, SameJobs DEF Wait, preloader, PreloadsAreAwaited, PausedMeanwhile
  <1>12. CASE Resume
    <2>1. TypeOK'
      BY <1>12 DEF Resume, TypeOK
    <2> QED BY <1>12, <2>1, SameJobs DEF Resume, PreloadsAreAwaited, PausedMeanwhile
  <1> QED BY <1>0, <1>2, <1>3, <1>4, <1>5, <1>6, <1>7, <1>8, <1>9, <1>10, <1>11, <1>12
          DEF Next, InitStep

LEMMA Invariant == Spec => []IInv
  BY InitInv, NextInv, PTL DEF Spec

\* The variables keep their types; above all, InitData's semaphore never has
\* more tokens than its capacity, nor fewer than none.
THEOREM TypeCorrect == Spec => []TypeOK
  <1>1. IInv => TypeOK
    BY DEF IInv
  <1> QED BY <1>1, Invariant, PTL

\* From the pause to the end of InitData no check of the preloader begins,
\* however often Start and Stop are called later.
THEOREM NoCheckIntrudes == Spec => []NoCheckBeginsDuringInit
  <1>1. IInv => NoCheckBeginsDuringInit
    BY DEF IInv, NoCheckBeginsDuringInit
  <1> QED BY <1>1, Invariant, PTL

-----------------------------------------------------------------------------
(* Lists. up[i] is made of the first i parts of s.                         *)

\* The parts of s are lists over S.
Parts(s, S) == Len(s) \in Nat /\ \A i \in 1..Len(s) : s[i] \in Seq(S)
Flattening(up, s) == up[0] = <<>> /\ \A i \in 1..Len(s) : up[i] = up[i - 1] \o s[i]

LEMMA SomethingFlattens ==
    ASSUME NEW S, NEW s, Parts(s, S)
    PROVE  \E up \in [0..Len(s) -> Seq(S)] : Flattening(up, s)
  <1>1. PICK g : \A i \in 1..Len(s) : \A x \in Seq(S) :
                     g[i][x] = x \o s[i] /\ g[i][x] \in Seq(S)
    <2> DEFINE some == [i \in 1..Len(s) |-> [x \in Seq(S) |-> x \o s[i]]]
    <2>1. \A i \in 1..Len(s) : \A x \in Seq(S) :
              some[i][x] = x \o s[i] /\ some[i][x] \in Seq(S)
      BY DEF Parts
    <2> QED BY <2>1
  <1>2. Maps(g, Len(s), Seq(S)) /\ <<>> \in Seq(S) /\ Len(s) \in Nat
    BY <1>1 DEF Maps, Parts
  <1>3. PICK up \in [0..Len(s) -> Seq(S)] : Iterates(up, Len(s), <<>>, g)
    BY <1>2, Recursion
  <1>4. ASSUME NEW i \in 1..Len(s) PROVE up[i] = up[i - 1] \o s[i]
    <2>1. i - 1 \in 0..Len(s)
      OBVIOUS
    <2> QED BY <1>1, <1>3, <2>1 DEF Iterates
  <1> QED BY <1>3, <1>4 DEF Flattening, Iterates

LEMMA FlattensOnce ==
    ASSUME NEW S, NEW s, Parts(s, S), NEW up \in [0..Len(s) -> Seq(S)],
           Flattening(up, s)
    PROVE  FlattenSeq(s) = up[Len(s)]
  <1> DEFINE Whole(f) == f = [i \in 1..Len(s) |-> IF i = 1 THEN s[i] ELSE f[i - 1] \o s[i]]
             c == CHOOSE f : Whole(f)
  <1>1. FlattenSeq(s) = IF Len(s) = 0 THEN s ELSE c[Len(s)]
    BY DEF FlattenSeq
  <1>2. Whole([i \in 1..Len(s) |-> up[i]])
    <2> DEFINE f == [i \in 1..Len(s) |-> up[i]]
    <2>1. ASSUME NEW i \in 1..Len(s)
          PROVE  f[i] = IF i = 1 THEN s[i] ELSE f[i - 1] \o s[i]
      <3>1. CASE i = 1
        <4>1. up[i] = <<>> \o s[i] /\ s[i] \in Seq(S)
          BY <3>1, SMTT(40) DEF Flattening, Parts
        <4> QED BY <3>1, <4>1
      <3>2. CASE i # 1
        <4>1. i - 1 \in 1..Len(s) /\ f[i - 1] = up[i - 1]
          BY <3>2
        <4> QED BY <3>2, <4>1, ZenonT(60) DEF Flattening
      <3> QED BY <3>1, <3>2
    <2> QED BY <2>1
  <1>3. Whole(c)
    BY <1>2
  <1>4. \A i \in 1..Len(s) : c[i] = IF i = 1 THEN s[i] ELSE c[i - 1] \o s[i]
    BY <1>3
  <1> HIDE DEF c
  <1>5. Nat \subseteq {i \in Nat : i \in 1..Len(s) => c[i] = up[i]}
    <2> DEFINE Same == {i \in Nat : i \in 1..Len(s) => c[i] = up[i]}
    <2>1. 0 \in Same
      OBVIOUS
    <2>2. ASSUME NEW i \in Nat, i \in Same PROVE i + 1 \in Same
      <3> SUFFICES ASSUME i + 1 \in 1..Len(s) PROVE c[i + 1] = up[i + 1]
        OBVIOUS
      <3>0. (i + 1) - 1 = i /\ (i = 0 <=> i + 1 = 1) /\ s[i + 1] \in Seq(S)
        BY DEF Parts
      <3>1. up[i + 1] = up[i] \o s[i + 1]
        <4>1. up[i + 1] = up[(i + 1) - 1] \o s[i + 1]
          BY Zenon DEF Flattening
        <4> QED BY <3>0, <4>1
      <3>2. c[i + 1] = IF i + 1 = 1 THEN s[i + 1] ELSE c[i] \o s[i + 1]
        <4>1. c[i + 1] = IF i + 1 = 1 THEN s[i + 1] ELSE c[(i + 1) - 1] \o s[i + 1]
          BY <1>4, Zenon
        <4> QED BY <3>0, <4>1
      <3>3. CASE i = 0
        <4>1. up[i + 1] = <<>> \o s[i + 1]
          BY <3>1, <3>3 DEF Flattening
        <4>2. <<>> \o s[i + 1] = s[i + 1]
          BY <3>0
        <4> QED BY <3>0, <3>2, <3>3, <4>1, <4>2
      <3>4. CASE i # 0
        <4>1. c[i] = up[i]
          BY <2>2, <3>4
        <4> QED BY <3>0, <3>1, <3>2, <3>4, <4>1
      <3> QED BY <3>3, <3>4
    <2> HIDE DEF Same
    <2>3. Nat \subseteq Same
      BY <2>1, <2>2, NatInduct
    <2> QED BY <2>3 DEF Same
  <1>6. CASE Len(s) = 0
    BY <1>1, <1>6 DEF Flattening
  <1>7. CASE Len(s) # 0
    <2>1. c[Len(s)] = up[Len(s)]
      BY <1>5, <1>7
    <2> QED BY <1>1, <1>7, <2>1
  <1> QED BY <1>6, <1>7

\* A flattened list is that of its parts but the last, and the last.
LEMMA FlattenNone == FlattenSeq(<<>>) = <<>>
  BY DEF FlattenSeq

LEMMA FlattenType ==
    ASSUME NEW S, NEW s, Parts(s, S) PROVE FlattenSeq(s) \in Seq(S)
  <1>1. PICK up \in [0..Len(s) -> Seq(S)] : Flattening(up, s)
    BY SomethingFlattens
  <1>2. FlattenSeq(s) = up[Len(s)]
    BY <1>1, FlattensOnce
  <1> QED BY <1>2 DEF Parts

LEMMA FlattenMore ==
    ASSUME NEW S, NEW s, NEW t, Parts(t, S), Len(s) \in Nat, Len(t) = Len(s) + 1,
           \A i \in 1..Len(s) : t[i] = s[i]
    PROVE  FlattenSeq(t) = FlattenSeq(s) \o t[Len(t)]
  <1>1. Parts(s, S)
    BY DEF Parts
  <1>2. PICK up \in [0..Len(t) -> Seq(S)] : Flattening(up, t)
    BY <1>1, SomethingFlattens
  <1> DEFINE f == [i \in 0..Len(s) |-> up[i]]
  <1>3. f \in [0..Len(s) -> Seq(S)] /\ f[Len(s)] = up[Len(s)]
    BY <1>1
  <1>4. Flattening(f, s)
    <2>1. ASSUME NEW i \in 1..Len(s) PROVE f[i] = f[i - 1] \o s[i]
      <3>1. i \in 1..Len(t) /\ f[i] = up[i] /\ f[i - 1] = up[i - 1]
        OBVIOUS
      <3>2. up[i] = up[i - 1] \o t[i]
        BY <1>2, <3>1 DEF Flattening
      <3> QED BY <3>1, <3>2
    <2>2. f[0] = <<>>
      BY <1>2 DEF Flattening
    <2> HIDE DEF f
    <2> QED BY <2>1, <2>2 DEF Flattening
  <1> HIDE DEF f
  <1>5. FlattenSeq(s) = up[Len(s)]
    BY <1>1, <1>3, <1>4, FlattensOnce
  <1>6. FlattenSeq(t) = up[Len(t)]
    BY <1>1, <1>2, FlattensOnce
  <1>7. up[Len(t)] = up[Len(t) - 1] \o t[Len(t)] /\ Len(t) - 1 = Len(s)
    <2>1. Len(t) \in 1..Len(t)
      OBVIOUS
    <2>2. up[Len(t)] = up[Len(t) - 1] \o t[Len(t)]
      BY <1>2, <2>1, Zenon DEF Flattening
    <2> QED BY <2>2
  <1> QED BY <1>5, <1>6, <1>7

-----------------------------------------------------------------------------
(* What Select picks.                                                      *)

Picking(up, list, T) ==
    /\ up[0] = <<>>
    /\ \A i \in 1..Len(list) :
           up[i] = up[i - 1] \o (IF list[i] \in T THEN <<list[i]>> ELSE <<>>)

LEMMA SelectPicks ==
    ASSUME NEW S, NEW list \in Seq(S), NEW T
    PROVE  \E up \in [0..Len(list) -> Seq(S)] :
               Picking(up, list, T) /\ Select(list, T) = up[Len(list)]
  <1> DEFINE s == [i \in 1..Len(list) |-> IF list[i] \in T THEN <<list[i]>> ELSE <<>>]
  <1>1. /\ Parts(s, S) /\ Len(s) = Len(list)
        /\ \A i \in 1..Len(list) : s[i] = IF list[i] \in T THEN <<list[i]>> ELSE <<>>
    BY DEF Parts
  <1> HIDE DEF s
  <1>2. PICK up \in [0..Len(list) -> Seq(S)] : Flattening(up, s)
    BY <1>1, SomethingFlattens
  <1>3. Picking(up, list, T)
    BY <1>1, <1>2, ZenonT(60) DEF Flattening, Picking
  <1> DEFINE Whole(f) ==
                 f = [n \in 0..Len(list) |->
                         IF n = 0 THEN <<>>
                         ELSE f[n - 1] \o (IF list[n] \in T THEN <<list[n]>> ELSE <<>>)]
             c == CHOOSE f : Whole(f)
  <1>4. Select(list, T) = c[Len(list)]
    BY DEF Select
  <1>5. Whole(up)
    BY <1>3, SMTT(40) DEF Picking
  <1>6. Whole(c)
    BY <1>5
  <1>7. \A n \in 0..Len(list) :
            c[n] = IF n = 0 THEN <<>>
                   ELSE c[n - 1] \o (IF list[n] \in T THEN <<list[n]>> ELSE <<>>)
    BY <1>6
  <1> HIDE DEF c
  <1>8. Nat \subseteq {i \in Nat : i <= Len(list) => c[i] = up[i]}
    <2> DEFINE Same == {i \in Nat : i <= Len(list) => c[i] = up[i]}
    <2>1. 0 \in Same
      <3>1. 0 \in 0..Len(list)
        OBVIOUS
      <3>2. c[0] = <<>>
        BY <1>7, <3>1
      <3> QED BY <1>3, <3>2 DEF Picking
    <2>2. ASSUME NEW i \in Nat, i \in Same PROVE i + 1 \in Same
      <3> SUFFICES ASSUME i + 1 <= Len(list) PROVE c[i + 1] = up[i + 1]
        OBVIOUS
      <3> DEFINE x == IF list[i + 1] \in T THEN <<list[i + 1]>> ELSE <<>>
      <3>1. /\ c[i] = up[i] /\ i + 1 \in 1..Len(list) /\ i + 1 \in 0..Len(list)
            /\ (i + 1) - 1 = i /\ i + 1 # 0
        BY <2>2
      <3>2. c[i + 1] = IF i + 1 = 0 THEN <<>> ELSE c[(i + 1) - 1] \o x
        BY <1>7, <3>1, Zenon
      <3>3. up[i + 1] = up[(i + 1) - 1] \o x
        BY <1>3, <3>1, Zenon DEF Picking
      <3> HIDE DEF x
      <3> QED BY <3>1, <3>2, <3>3
    <2> HIDE DEF Same
    <2>3. Nat \subseteq Same
      BY <2>1, <2>2, NatInduct
    <2> QED BY <2>3 DEF Same
  <1>9. c[Len(list)] = up[Len(list)]
    BY <1>8
  <1> QED BY <1>3, <1>4, <1>9

-----------------------------------------------------------------------------
(* The elements of a list, and lists in ascending order.                   *)

Rising(list) == \A i, j \in DOMAIN list : i < j => list[i] < list[j]

LEMMA ImagesOfFew == Images(<<>>) = {} /\ \A x : Images(<<x>>) = {x}
  BY DEF Images

LEMMA ImagesJoin ==
    ASSUME NEW S, NEW s \in Seq(S), NEW t \in Seq(S)
    PROVE  Images(s \o t) = Images(s) \cup Images(t)
  <1> DEFINE u == s \o t
  <1>1. /\ u \in Seq(S) /\ Len(u) = Len(s) + Len(t)
        /\ \A i \in 1..Len(s) : u[i] = s[i]
        /\ \A i \in 1..Len(t) : u[Len(s) + i] = t[i]
    OBVIOUS
  <1> HIDE DEF u
  <1>2. ASSUME NEW i \in DOMAIN s PROVE s[i] \in Images(u)
    <2>1. i \in DOMAIN u /\ u[i] = s[i]
      BY <1>1
    <2> QED BY <2>1 DEF Images
  <1>3. ASSUME NEW i \in DOMAIN t PROVE t[i] \in Images(u)
    <2>1. Len(s) + i \in DOMAIN u /\ u[Len(s) + i] = t[i]
      BY <1>1, SMTT(40)
    <2> QED BY <2>1 DEF Images
  <1>4. ASSUME NEW i \in DOMAIN u PROVE u[i] \in Images(s) \cup Images(t)
    <2>1. CASE i <= Len(s)
      <3>1. i \in DOMAIN s /\ u[i] = s[i]
        BY <1>1, <2>1
      <3> QED BY <3>1 DEF Images
    <2>2. CASE ~(i <= Len(s))
      <3>1. i - Len(s) \in DOMAIN t /\ Len(s) + (i - Len(s)) = i
        BY <1>1, <2>2
      <3>2. u[i] = t[i - Len(s)]
        BY <1>1, <3>1, SMTT(40)
      <3> QED BY <3>1, <3>2 DEF Images
    <2> QED BY <2>1, <2>2
  <1>5. Images(u) = Images(s) \cup Images(t)
    BY <1>2, <1>3, <1>4 DEF Images
  <1> QED BY <1>5 DEF u

LEMMA RisingJoin ==
    ASSUME NEW s \in Seq(Nat), NEW t \in Seq(Nat), Rising(s), Rising(t),
           \A x \in Images(s), y \in Images(t) : x < y
    PROVE  Rising(s \o t)
  <1> DEFINE u == s \o t
  <1>1. /\ u \in Seq(Nat) /\ Len(u) = Len(s) + Len(t)
        /\ \A i \in 1..Len(s) : u[i] = s[i]
        /\ \A i \in 1..Len(t) : u[Len(s) + i] = t[i]
    OBVIOUS
  <1> HIDE DEF u
  <1>0. \A i \in DOMAIN u : i > Len(s) => i - Len(s) \in DOMAIN t /\ u[i] = t[i - Len(s)]
    <2> SUFFICES ASSUME NEW i \in DOMAIN u, i > Len(s)
                 PROVE  i - Len(s) \in DOMAIN t /\ u[i] = t[i - Len(s)]
      OBVIOUS
    <2>1. i - Len(s) \in 1..Len(t) /\ Len(s) + (i - Len(s)) = i
      BY <1>1
    <2> QED BY <1>1, <2>1
  <1>2. ASSUME NEW i \in DOMAIN u, NEW j \in DOMAIN u, i < j PROVE u[i] < u[j]
    <2>1. CASE j <= Len(s)
      <3>1. i \in 1..Len(s) /\ j \in 1..Len(s)
        <4>1. i \in 1..Len(u) /\ j \in 1..Len(u)
          BY <1>1
        <4> QED BY <1>1, <1>2, <2>1, <4>1
      <3>2. s[i] < s[j]
        BY <1>2, <3>1 DEF Rising
      <3> QED BY <1>1, <3>1, <3>2
    <2>2. CASE i <= Len(s) /\ j > Len(s)
      <3>1. i \in DOMAIN s /\ u[i] = s[i]
        BY <1>1, <1>2, <2>2
      <3>2. j - Len(s) \in DOMAIN t /\ u[j] = t[j - Len(s)]
        BY <1>0, <2>2
      <3>3. s[i] \in Images(s) /\ t[j - Len(s)] \in Images(t)
        BY <3>1, <3>2, Zenon DEF Images
      <3> QED BY <3>1, <3>2, <3>3
    <2>3. CASE i > Len(s)
      <3>1. /\ i - Len(s) \in DOMAIN t /\ u[i] = t[i - Len(s)]
            /\ j - Len(s) \in DOMAIN t /\ u[j] = t[j - Len(s)]
        BY <1>0, <1>1, <1>2, <2>3
      <3>2. i - Len(s) < j - Len(s)
        BY <1>1, <1>2
      <3>3. t[i - Len(s)] < t[j - Len(s)]
        BY <3>1, <3>2, Zenon DEF Rising
      <3> QED BY <3>1, <3>3
    <2> QED BY <1>1, <2>1, <2>2, <2>3
  <1>3. Rising(u)
    BY <1>2 DEF Rising
  <1> QED BY <1>3 DEF u

LEMMA SelectType ==
    ASSUME NEW S, NEW list \in Seq(S), NEW T PROVE Select(list, T) \in Seq(S)
  <1>1. PICK up \in [0..Len(list) -> Seq(S)] : Select(list, T) = up[Len(list)]
    BY SelectPicks
  <1> QED BY <1>1

LEMMA SelectImages ==
    ASSUME NEW S, NEW list \in Seq(S), NEW T
    PROVE  Images(Select(list, T)) = Images(list) \cap T
  <1>1. PICK up \in [0..Len(list) -> Seq(S)] :
                Picking(up, list, T) /\ Select(list, T) = up[Len(list)]
    BY SelectPicks
  <1> DEFINE To(i) == {list[j] : j \in 1..i}
             Good == {i \in Nat : i <= Len(list) => Images(up[i]) = To(i) \cap T}
  <1>2. 0 \in Good
    BY <1>1, ImagesOfFew DEF Picking
  <1>3. ASSUME NEW i \in Nat, i \in Good PROVE i + 1 \in Good
    <2> SUFFICES ASSUME i + 1 <= Len(list) PROVE Images(up[i + 1]) = To(i + 1) \cap T
      OBVIOUS
    <2> DEFINE x == IF list[i + 1] \in T THEN <<list[i + 1]>> ELSE <<>>
    <2>1. Images(up[i]) = To(i) \cap T /\ (i + 1) - 1 = i /\ i + 1 \in 1..Len(list)
      BY <1>3
    <2>2. up[i + 1] = up[(i + 1) - 1] \o x
      BY <1>1, <2>1, Zenon DEF Picking
    <2>3. up[i] \in Seq(S) /\ x \in Seq(S)
      BY <2>1
    <2>4. Images(x) = {list[i + 1]} \cap T
      BY ImagesOfFew
    <2>5. To(i + 1) = To(i) \cup {list[i + 1]}
      <3>1. 1..(i + 1) = (1..i) \cup {i + 1}
        OBVIOUS
      <3> QED BY <3>1
    <2> HIDE DEF x, To
    <2>6. Images(up[i] \o x) = Images(up[i]) \cup Images(x)
      BY <2>3, ImagesJoin
    <2> QED BY <2>1, <2>2, <2>4, <2>5, <2>6
  <1>4. Nat \subseteq Good
    <2> HIDE DEF Good
    <2> QED BY <1>2, <1>3, NatInduct
  <1>5. Len(list) \in Nat /\ Images(list) = To(Len(list))
    BY DEF Images
  <1>6. Images(up[Len(list)]) = To(Len(list)) \cap T
    <2> HIDE DEF To
    <2> QED BY <1>4, <1>5
  <1> QED BY <1>1, <1>5, <1>6

LEMMA SelectRises ==
    ASSUME NEW list \in Seq(Nat), NEW T, Rising(list)
    PROVE  Rising(Select(list, T))
  <1>1. PICK up \in [0..Len(list) -> Seq(Nat)] :
                Picking(up, list, T) /\ Select(list, T) = up[Len(list)]
    BY SelectPicks
  <1> DEFINE To(i) == {list[j] : j \in 1..i}
             Good == {i \in Nat : i <= Len(list) =>
                                      Rising(up[i]) /\ Images(up[i]) \subseteq To(i)}
  <1>2. 0 \in Good
    BY <1>1, ImagesOfFew DEF Picking, Rising
  <1>3. ASSUME NEW i \in Nat, i \in Good PROVE i + 1 \in Good
    <2> SUFFICES ASSUME i + 1 <= Len(list)
                 PROVE  Rising(up[i + 1]) /\ Images(up[i + 1]) \subseteq To(i + 1)
      OBVIOUS
    <2> DEFINE x == IF list[i + 1] \in T THEN <<list[i + 1]>> ELSE <<>>
    <2>1. /\ Rising(up[i]) /\ Images(up[i]) \subseteq To(i) /\ (i + 1) - 1 = i
          /\ i + 1 \in 1..Len(list)
      BY <1>3
    <2>2. up[i + 1] = up[(i + 1) - 1] \o x
      BY <1>1, <2>1, Zenon DEF Picking
    <2>3. up[i] \in Seq(Nat) /\ x \in Seq(Nat)
      BY <2>1
    <2>4. Images(x) \subseteq {list[i + 1]}
      BY ImagesOfFew
    <2>5. Rising(x)
      BY DEF Rising
    <2>6. To(i) \subseteq To(i + 1) /\ list[i + 1] \in To(i + 1)
      OBVIOUS
    <2>7. \A y \in To(i) : y < list[i + 1]
      BY <2>1 DEF Rising
    <2> HIDE DEF x, To
    <2>8. Images(up[i] \o x) = Images(up[i]) \cup Images(x)
      BY <2>3, ImagesJoin
    <2>9. Rising(up[i] \o x)
      BY <2>1, <2>3, <2>4, <2>5, <2>7, RisingJoin
    <2> QED BY <2>1, <2>2, <2>4, <2>6, <2>8, <2>9
  <1>4. Nat \subseteq Good
    <2> HIDE DEF Good
    <2> QED BY <1>2, <1>3, NatInduct
  <1>5. Len(list) \in Nat
    OBVIOUS
  <1> QED BY <1>1, <1>4, <1>5

-----------------------------------------------------------------------------
(* The storage service.                                                    *)

S3Types ==
    /\ shape \in [Key -> Shapes] /\ bucket \in SUBSET Key
    /\ s3 \in [pc : {"idle", "list", "done", "failed"}, version : {"v1", "v2"},
               after : Nat, objects : Seq(Key), urls : Seq(Key),
               steady : SUBSET Key, moves : Nat]

\* What has been listed, in order, is behind the next page, and so is every
\* object that was there all the time up to that point.
ListedBehind ==
    s3.pc = "list" =>
        /\ Rising(s3.objects) /\ \A k \in Images(s3.objects) : k <= s3.after
        /\ s3.steady \subseteq bucket
        /\ \A k \in s3.steady \cap Objects : k <= s3.after => k \in Images(s3.objects)

S3Inv == S3Types /\ ListedBehind /\ ListingsAreComplete

LEMMA KeyFinite ==
    /\ Key \subseteq Nat /\ IsFiniteSet(Key)
    /\ \A S \in SUBSET Key : IsFiniteSet(S) /\ Cardinality(S) \in Nat
  <1>1. Key \subseteq Nat /\ IsFiniteSet(Key)
    BY S3Sizes, FS_Interval DEF Key
  <1> QED BY <1>1, FS_Subset, FS_CardinalityType

LEMMA KeysAreNumbers ==
    ASSUME NEW s \in Seq(Key) PROVE s \in Seq(Nat) /\ Images(s) \subseteq Nat
  <1>1. Len(s) \in Nat /\ \A i \in 1..Len(s) : s[i] \in Nat
    BY S3Sizes DEF Key
  <1> QED BY <1>1 DEF Images

LEMMA Largest ==
    ASSUME NEW S \in SUBSET Key, S # {}
    PROVE  Max(S) \in S /\ \A x \in S : x <= Max(S)
  <1> DEFINE T == {Entries - x : x \in S}
  <1>1. T \in SUBSET Nat /\ T # {}
    <2>1. \A x \in S : Entries - x \in Nat
      BY S3Sizes DEF Key
    <2> QED BY <2>1
  <1>2. PICK n \in T : \A m \in T : n <= m
    <2> HIDE DEF T
    <2> QED BY <1>1, Smallest
  <1>3. PICK x \in S : n = Entries - x
    BY <1>2
  <1>4. ASSUME NEW y \in S PROVE x >= y
    <2>1. n <= Entries - y
      BY <1>2
    <2> QED BY <1>3, <2>1, S3Sizes DEF Key
  <1>5. Max(S) \in S /\ \A y \in S : Max(S) >= y
    BY <1>4 DEF Max
  <1>6. \A y \in S : y \in Int
    BY DEF Key
  <1> QED BY <1>5, <1>6

\* A page is the first part of the rest, and not empty unless that is.
LEMMA Pages ==
    ASSUME S3Types, NEW k \in Nat
    PROVE  /\ PageAfter(k) \subseteq Rest(k) /\ Rest(k) \subseteq Key
           /\ \A i \in Rest(k), m \in PageAfter(k) : i <= m => i \in PageAfter(k)
           /\ Rest(k) # {} => PageAfter(k) # {}
           /\ ~Truncated(k) => PageAfter(k) = Rest(k)
  <1> DEFINE upTo(i) == {j \in Rest(k) : j <= i}
  <1>1. Rest(k) \in SUBSET Key /\ Rest(k) \subseteq Nat
    BY KeyFinite DEF S3Types, Rest
  <1>2. \A i \in Nat : /\ upTo(i) \in SUBSET Rest(k)
                       /\ IsFiniteSet(upTo(i)) /\ Cardinality(upTo(i)) \in Nat
    BY <1>1, KeyFinite
  <1>3. \A i : i \in PageAfter(k) <=> i \in Rest(k) /\ Cardinality(upTo(i)) <= PageSize
    BY DEF PageAfter
  <1>4. ASSUME NEW i \in Rest(k), NEW m \in PageAfter(k), i <= m
        PROVE  i \in PageAfter(k)
    <2>0. m \in Nat /\ i \in Nat
      BY <1>1, <1>3
    <2>1. upTo(i) \subseteq upTo(m)
      BY <1>1, <1>4, <2>0
    <2>2. Cardinality(upTo(i)) <= Cardinality(upTo(m))
      <3> HIDE DEF upTo
      <3> QED BY <1>2, <2>0, <2>1, FS_Subset
    <2>3. Cardinality(upTo(i)) <= PageSize
      <3> HIDE DEF upTo
      <3> QED BY <1>2, <1>3, <2>0, <2>2, S3Sizes
    <2> QED BY <1>3, <2>3
  <1>5. ASSUME Rest(k) # {} PROVE PageAfter(k) # {}
    <2>1. PICK i \in Rest(k) : \A j \in Rest(k) : i <= j
      BY <1>1, <1>5, Smallest
    <2>2. upTo(i) = {i}
      BY <1>1, <2>1
    <2>3. Cardinality(upTo(i)) = 1
      BY <2>2, FS_Singleton
    <2> HIDE DEF upTo
    <2> QED BY <1>3, <2>1, <2>3, S3Sizes
  <1>6. ASSUME ~Truncated(k) PROVE PageAfter(k) = Rest(k)
    <2>1. ASSUME NEW i \in Rest(k) PROVE i \in PageAfter(k)
      <3>1. Cardinality(upTo(i)) <= Cardinality(Rest(k))
        <4>1. IsFiniteSet(Rest(k)) /\ upTo(i) \subseteq Rest(k)
          BY <1>1, KeyFinite
        <4> HIDE DEF upTo
        <4> QED BY <4>1, FS_Subset
      <3>2. i \in Nat /\ Cardinality(Rest(k)) \in Nat
        BY <1>1, KeyFinite
      <3>3. Cardinality(upTo(i)) <= PageSize
        <4> HIDE DEF upTo
        <4> QED BY <1>2, <1>6, <3>1, <3>2, S3Sizes DEF Truncated
      <3> QED BY <1>3, <3>3
    <2> QED BY <1>3, <2>1
  <1> HIDE DEF upTo
  <1> QED BY <1>1, <1>3, <1>4, <1>5, <1>6

\* The numbers of the keys, in their order.
LEMMA KeysRise ==
    ASSUME NEW T
    PROVE  LET list == Select([k \in Key |-> k], T)
           IN  list \in Seq(Key) /\ Rising(list) /\ Images(list) = Key \cap T
  <1> DEFINE keys == [k \in Key |-> k]
  <1>1. keys \in Seq(Key) /\ keys \in Seq(Nat)
    BY S3Sizes DEF Key
  <1>2. DOMAIN keys = Key /\ Images(keys) = Key
    BY DEF Images
  <1>3. Rising(keys)
    BY DEF Rising
  <1> HIDE DEF keys
  <1>4. /\ Select(keys, T) \in Seq(Key) /\ Rising(Select(keys, T))
        /\ Images(Select(keys, T)) = Key \cap T
    BY <1>1, <1>2, <1>3, SelectType, SelectImages, SelectRises
  <1> QED BY <1>4 DEF keys

LEMMA S3InitInv == FetchInit => S3Inv
  <1> SUFFICES ASSUME FetchInit PROVE S3Inv
    OBVIOUS
  <1>1. s3 = NoListing
    BY DEF FetchInit, S3Init
  <1>2. shape \in [Key -> Shapes] /\ bucket \in SUBSET Key
    BY DEF FetchInit, S3Init, Shapes
  <1> QED BY <1>1, <1>2
          DEF S3Inv, S3Types, ListedBehind, ListingsAreComplete, NoListing

LEMMA BucketInv == S3Inv /\ BucketChanges => S3Inv'
  <1> SUFFICES ASSUME S3Inv, BucketChanges PROVE S3Inv'
    OBVIOUS
  <1> USE DEF S3Inv
  <1>1. PICK k \in Key :
            /\ bucket' = IF k \in bucket THEN bucket \ {k} ELSE bucket \cup {k}
            /\ s3' = [s3 EXCEPT !.steady = @ \ {k}, !.moves = @ + 1]
    BY DEF BucketChanges
  <1>2. s3.pc = "list" /\ shape' = shape
    BY DEF BucketChanges
  <1>3. S3Types'
    <2>1. bucket' \subseteq Key
      BY <1>1 DEF S3Types
    <2>0. s3.steady \ {k} \in SUBSET Key /\ s3.moves + 1 \in Nat
      BY DEF S3Types
    <2>2. s3' \in [pc : {"idle", "list", "done", "failed"}, version : {"v1", "v2"},
                   after : Nat, objects : Seq(Key), urls : Seq(Key),
                   steady : SUBSET Key, moves : Nat]
      BY <1>1, <2>0 DEF S3Types
    <2> QED BY <1>2, <2>1, <2>2 DEF S3Types, Key
  <1>4. /\ s3'.pc = "list" /\ s3'.objects = s3.objects /\ s3'.after = s3.after
        /\ s3'.steady = s3.steady \ {k}
    BY <1>1, <1>2 DEF S3Types
  <1>5. ListedBehind'
    <2>1. Objects' = Objects
      BY <1>2 DEF Objects, Key
    <2> QED BY <1>1, <1>2, <1>4, <2>1 DEF ListedBehind
  <1>6. ListingsAreComplete'
    BY <1>4 DEF ListingsAreComplete
  <1> QED BY <1>3, <1>5, <1>6

LEMMA PageInv == S3Inv /\ ListPage => S3Inv'
  <1> SUFFICES ASSUME S3Inv, ListPage PROVE S3Inv'
    OBVIOUS
  <1> USE DEF S3Inv
  <1> DEFINE page == PageAfter(s3.after)
             more == Select([k \in Key |-> k], page \cap Objects)
             all == s3.objects \o more
  <1>1. /\ s3.pc = "list" /\ shape' = shape /\ bucket' = bucket
        /\ s3' = IF Truncated(s3.after)
                   THEN [s3 EXCEPT !.objects = all, !.after = After(page)]
                   ELSE [s3 EXCEPT !.objects = all, !.pc = "done",
                                   !.urls = Select(all, Wanted)]
    BY DEF ListPage
  <1>2. s3.after \in Nat /\ s3.objects \in Seq(Key) /\ Objects \subseteq Key
    BY DEF S3Types, Objects
  <1>3. /\ page \subseteq Rest(s3.after) /\ Rest(s3.after) \subseteq Key
        /\ \A i \in Rest(s3.after), m \in page : i <= m => i \in page
        /\ Rest(s3.after) # {} => page # {}
        /\ ~Truncated(s3.after) => page = Rest(s3.after)
    BY <1>2, Pages
  <1>4. more \in Seq(Key) /\ Rising(more) /\ Images(more) = page \cap Objects
    BY <1>2, KeysRise
  <1> HIDE DEF page, more
  <1>5. all \in Seq(Key) /\ Images(all) = Images(s3.objects) \cup (page \cap Objects)
    BY <1>2, <1>4, ImagesJoin
  <1>6. Rising(all)
    <2>1. s3.objects \in Seq(Nat) /\ more \in Seq(Nat)
      BY <1>2, <1>4, KeysAreNumbers
    <2>2. Rising(s3.objects) /\ \A k \in Images(s3.objects) : k <= s3.after
      BY <1>1 DEF ListedBehind
    <2>3. ASSUME NEW x \in Images(s3.objects), NEW y \in Images(more) PROVE x < y
      <3>1. y \in Rest(s3.after) /\ x <= s3.after
        BY <1>3, <1>4, <2>2
      <3>2. x \in Nat /\ y \in Nat /\ y > s3.after
        BY <1>3, <2>1, <3>1, KeyFinite DEF Rest, Images
      <3> QED BY <1>2, <3>1, <3>2
    <2> QED BY <1>4, <2>1, <2>2, <2>3, RisingJoin
  <1> HIDE DEF all
  <1>7. CASE Truncated(s3.after)
    <2>1. s3' = [s3 EXCEPT !.objects = all, !.after = After(page)]
      BY <1>1, <1>7
    <2>2. page # {} /\ page \in SUBSET Key
      <3>1. Rest(s3.after) # {}
        BY <1>7, FS_EmptySet, S3Sizes DEF Truncated
      <3> QED BY <1>3, <3>1
    <2>3. CASE s3.version = "v1" /\ page \cap Objects = {}
      <3>1. After(page) = s3.after
        BY <2>3 DEF After
      <3>2. s3' = [s3 EXCEPT !.objects = all]
        BY <2>1, <3>1 DEF S3Types
      <3>3. Images(all) = Images(s3.objects)
        BY <1>5, <2>3
      <3>4. S3Types'
        BY <1>1, <1>5, <3>2 DEF S3Types, Key
      <3>5. ListedBehind'
        <4>1. Objects' = Objects
          BY <1>1 DEF Objects, Key
        <4>2. /\ s3'.pc = "list" /\ s3'.objects = all /\ s3'.after = s3.after
              /\ s3'.steady = s3.steady
          BY <1>1, <3>2 DEF S3Types
        <4> QED BY <1>1, <1>6, <3>3, <4>1, <4>2 DEF ListedBehind
      <3>6. ListingsAreComplete'
        BY <1>1, <3>2 DEF ListingsAreComplete, S3Types
      <3> QED BY <3>4, <3>5, <3>6
    <2>4. CASE ~(s3.version = "v1" /\ page \cap Objects = {})
      <3> DEFINE m == After(page)
      <3>1. m \in page /\ \A k \in page \cap Objects : k <= m
        <4>1. s3.version \in {"v1", "v2"}
          BY DEF S3Types
        <4>2. CASE s3.version = "v2"
          <5>1. m = Max(page)
            BY <4>2 DEF After
          <5> QED BY <2>2, <5>1, Largest
        <4>3. CASE s3.version = "v1"
          <5>1. m = Max(page \cap Objects) /\ page \cap Objects # {}
            BY <2>4, <4>3 DEF After
          <5> QED BY <2>2, <5>1, Largest
        <4> QED BY <4>1, <4>2, <4>3
      <3> HIDE DEF m
      <3>2. m \in Nat /\ m > s3.after /\ page \subseteq Nat
        BY <1>3, <3>1, KeyFinite DEF Rest
      <3>3. s3' = [s3 EXCEPT !.objects = all, !.after = m]
        BY <2>1 DEF m
      <3>4. S3Types'
        BY <1>1, <1>5, <3>2, <3>3 DEF S3Types, Key
      <3>5. ListedBehind'
        <4>1. Objects' = Objects
          BY <1>1 DEF Objects, Key
        <4>2. /\ s3'.pc = "list" /\ s3'.objects = all /\ s3'.after = m
              /\ s3'.steady = s3.steady
          BY <1>1, <3>3 DEF S3Types
        <4>3. ASSUME NEW k \in Images(all) PROVE k <= m
          <5>1. CASE k \in page \cap Objects
            BY <3>1, <5>1
          <5>2. CASE k \in Images(s3.objects)
            <6>1. k <= s3.after
              BY <1>1, <5>2 DEF ListedBehind
            <6>2. k \in Nat
              BY <1>2, <5>2, KeysAreNumbers
            <6> QED BY <1>2, <3>2, <6>1, <6>2
          <5> QED BY <1>5, <5>1, <5>2
        <4>4. ASSUME NEW k \in s3.steady \cap Objects, k <= m PROVE k \in Images(all)
          <5>1. k \in Nat /\ k \in bucket
            BY <1>1, <1>2, KeyFinite DEF ListedBehind
          <5>2. CASE k <= s3.after
            BY <1>1, <1>5, <5>2 DEF ListedBehind
          <5>3. CASE ~(k <= s3.after)
            <6>1. k \in Rest(s3.after)
              BY <1>2, <5>1, <5>3 DEF Rest
            <6> QED BY <1>3, <1>5, <3>1, <4>4, <6>1
          <5> QED BY <5>2, <5>3
        <4> QED BY <1>1, <1>6, <4>1, <4>2, <4>3, <4>4 DEF ListedBehind
      <3>6. ListingsAreComplete'
        BY <1>1, <3>3 DEF ListingsAreComplete, S3Types
      <3> QED BY <3>4, <3>5, <3>6
    <2> QED BY <2>3, <2>4
  <1>8. CASE ~Truncated(s3.after)
    <2> DEFINE urls == Select(all, Wanted)
    <2>1. all \in Seq(Nat)
      BY <1>5, KeysAreNumbers
    <2>2. /\ urls \in Seq(Key) /\ Images(urls) = Images(all) \cap Wanted
          /\ Rising(urls)
      BY <1>5, <1>6, <2>1, SelectType, SelectImages, SelectRises
    <2> HIDE DEF urls
    <2>3. s3' = [s3 EXCEPT !.objects = all, !.pc = "done", !.urls = urls]
      BY <1>1, <1>8 DEF urls
    <2>4. S3Types'
      BY <1>1, <1>5, <2>2, <2>3 DEF S3Types, Key
    <2>5. s3'.pc = "done" /\ s3'.steady = s3.steady /\ s3'.urls = urls
      BY <2>3 DEF S3Types
    <2>6. ListedBehind'
      BY <2>5 DEF ListedBehind
    <2>7. ASSUME NEW k \in s3.steady \cap Wanted PROVE k \in Images(urls)
      <3>1. k \in Key /\ k \in Objects /\ k \in bucket /\ k \in Nat
        BY <1>1, KeyFinite DEF S3Types, ListedBehind, Wanted, Objects
      <3>2. CASE k <= s3.after
        BY <1>1, <1>5, <2>2, <3>1, <3>2 DEF ListedBehind
      <3>3. CASE ~(k <= s3.after)
        <4>1. k \in Rest(s3.after)
          BY <1>2, <3>1, <3>3 DEF Rest
        <4> QED BY <1>3, <1>5, <1>8, <2>2, <3>1, <4>1
      <3> QED BY <3>2, <3>3
    <2>8. ListingsAreComplete'
      <3>1. Wanted' = Wanted
        BY <1>1 DEF Wanted, Key
      <3>2. \A k \in s3.steady \cap Wanted : \E i \in DOMAIN urls : urls[i] = k
        BY <2>7 DEF Images
      <3>3. \A i, j \in DOMAIN urls : i < j => urls[i] < urls[j]
        BY <2>2 DEF Rising
      <3> QED BY <2>5, <3>1, <3>2, <3>3 DEF ListingsAreComplete
    <2> QED BY <2>4, <2>6, <2>8
  <1> QED BY <1>7, <1>8

LEMMA S3NextInv == S3Inv /\ [FetchNext]_fetchVars => S3Inv'
  <1> SUFFICES ASSUME S3Inv, [FetchNext]_fetchVars PROVE S3Inv'
    OBVIOUS
  <1>1. CASE UNCHANGED s3Vars
    BY <1>1 DEF S3Inv, S3Types, ListedBehind, ListingsAreComplete, s3Vars, Key,
                Objects, Wanted
  <1>2. CASE BucketChanges
    BY <1>2, BucketInv
  <1>3. CASE ListPage
    BY <1>3, PageInv
  <1>4. CASE StartListing
    <2>1. PICK v \in {"v1", "v2"} :
              s3' = [NoListing EXCEPT !.pc = "list", !.version = v, !.steady = bucket]
      BY <1>4 DEF StartListing
    <2>2. s3' = [pc |-> "list", version |-> v, after |-> 0, objects |-> <<>>,
                 urls |-> <<>>, steady |-> bucket, moves |-> 0]
      BY <2>1 DEF NoListing
    <2>3. shape' = shape /\ bucket' = bucket
      BY <1>4 DEF StartListing
    <2>4. S3Types'
      BY <2>2, <2>3 DEF S3Inv, S3Types, Key
    <2>5. Objects' \subseteq Nat \ {0}
      BY S3Sizes DEF Objects, Key
    <2>6. ListedBehind'
      <3>1. s3'.objects = <<>> /\ s3'.after = 0 /\ s3'.steady = bucket'
        BY <2>2, <2>3
      <3>2. Rising(s3'.objects) /\ Images(s3'.objects) = {}
        BY <3>1, ImagesOfFew DEF Rising
      <3>3. \A k \in Objects' : ~(k <= 0)
        BY <2>5
      <3> QED BY <3>1, <3>2, <3>3 DEF ListedBehind
    <2>7. ListingsAreComplete'
      BY <2>2 DEF ListingsAreComplete
    <2> QED BY <2>4, <2>6, <2>7 DEF S3Inv
  <1>5. CASE ListFails \/ ReturnListing
    <2>1. shape' = shape /\ bucket' = bucket
      BY <1>5 DEF ListFails, ReturnListing
    <2>2. S3Types' /\ s3'.pc \in {"idle", "failed"}
      <3>1. CASE ListFails
        <4>1. s3' = [s3 EXCEPT !.pc = "failed"]
          BY <3>1 DEF ListFails
        <4> QED BY <2>1, <4>1 DEF S3Inv, S3Types, Key
      <3>2. CASE ReturnListing
        BY <2>1, <3>2 DEF S3Inv, S3Types, ReturnListing, NoListing, Key
      <3> QED BY <1>5, <3>1, <3>2
    <2> QED BY <2>2 DEF S3Inv, ListedBehind, ListingsAreComplete
  <1> QED BY <1>1, <1>2, <1>3, <1>4, <1>5
          DEF FetchNext, fetchVars, Lankong, S3, S3Fails, Upstream, ListingStep

\* FetchURLs returns what it listed of the wanted objects, once each and in order,
\* and every object that was in the bucket all the time is among them, whatever
\* comes and goes while it asks for page after page.
THEOREM ListingsComeWhole == FetchSpec => []ListingsAreComplete
  <1>1. FetchSpec => []S3Inv
    BY S3InitInv, S3NextInv, PTL DEF FetchSpec
  <1>2. S3Inv => ListingsAreComplete
    BY DEF S3Inv
  <1> QED BY <1>1, <1>2, PTL

-----------------------------------------------------------------------------
(* The image host.                                                         *)

LEMMA Slice ==
    ASSUME NEW S, NEW s \in Seq(S), NEW m \in Nat \ {0}, NEW n \in Nat, n <= Len(s)
    PROVE  /\ SubSeq(s, m, n) \in Seq(S)
           /\ Images(SubSeq(s, m, n)) = {s[i] : i \in m..n}
  <1> DEFINE t == SubSeq(s, m, n)
  <1>1. t \in Seq(S) /\ DOMAIN t = 1..(1 + n - m)
    OBVIOUS
  <1>2. \A i \in DOMAIN t : t[i] = s[i + m - 1]
    OBVIOUS
  <1> HIDE DEF t
  <1>3. ASSUME NEW i \in DOMAIN t PROVE t[i] \in {s[j] : j \in m..n}
    <2>1. i + m - 1 \in m..n
      BY <1>1
    <2> QED BY <1>2, <2>1
  <1>4. ASSUME NEW i \in m..n PROVE s[i] \in Images(t)
    <2>1. i - m + 1 \in DOMAIN t /\ (i - m + 1) + m - 1 = i
      BY <1>1
    <2>2. t[i - m + 1] = s[i]
      BY <1>2, <2>1
    <2> QED BY <2>1, <2>2 DEF Images
  <1>5. Images(t) = {s[i] : i \in m..n}
    BY <1>3, <1>4 DEF Images
  <1> QED BY <1>1, <1>5 DEF t

\* The positions on a page.
LEMMA PageIs ==
    ASSUME NEW list \in Seq(Image), NEW p \in Nat \ {0}
    PROVE  /\ PageOf(list, p) \in Seq(Image)
           /\ Images(PageOf(list, p))
                  = {list[i] : i \in {n \in DOMAIN list :
                                          PerPage * (p - 1) < n /\ n <= PerPage * p}}
  <1> DEFINE m == PerPage * (p - 1)
             k == PerPage * p
             n == IF k < Len(list) THEN k ELSE Len(list)
  <1>1. m \in Nat /\ k \in Nat
    BY LankongSizes
  <1>2. PageOf(list, p) = SubSeq(list, m + 1, n)
    BY DEF PageOf
  <1> HIDE DEF m, k
  <1>3. m + 1 \in Nat \ {0} /\ n \in Nat /\ n <= Len(list)
    BY <1>1
  <1>4. {i \in DOMAIN list : m < i /\ i <= k} = (m + 1)..n
    BY <1>1
  <1> HIDE DEF n
  <1>5. /\ PageOf(list, p) \in Seq(Image)
        /\ Images(PageOf(list, p)) = {list[i] : i \in (m + 1)..n}
    BY <1>2, <1>3, Slice
  <1> QED BY <1>4, <1>5 DEF m, k

\* No image is after the last page, when the host counts the pages.
LEMMA LastPageIs ==
    ASSUME NEW list \in Seq(Image)
    PROVE  LastPage(list) \in Nat \ {0} /\ Len(list) <= PerPage * LastPage(list)
  <1>1. CASE list = <<>>
    BY <1>1, LankongSizes DEF LastPage
  <1>2. CASE list # <<>>
    <2> DEFINE n == Len(list)
               q == LastPage(list)
    <2>1. n \in Nat \ {0} /\ q = (n + PerPage - 1) \div PerPage
      BY <1>2 DEF LastPage
    <2> HIDE DEF n, q
    <2>2. q \in Nat /\ n + PerPage - 1 < PerPage * q + PerPage
      BY <2>1, LankongSizes
    <2>3. PerPage * q \in Nat
      BY <2>2, LankongSizes
    <2>4. n <= PerPage * q
      <3> DEFINE k == PerPage * q
      <3>1. k \in Nat /\ n + PerPage - 1 < k + PerPage
        BY <2>2, <2>3
      <3> HIDE DEF k
      <3>2. n <= k
        BY <2>1, <3>1, LankongSizes
      <3> QED BY <3>2 DEF k
    <2>5. q # 0
      BY <2>1, <2>4, LankongSizes
    <2>6. q \in Nat \ {0} /\ n <= PerPage * q
      BY <2>2, <2>4, <2>5
    <2> QED BY <2>6 DEF n, q
  <1> QED BY <1>1, <1>2

LEMMA WithLinkIs ==
    ASSUME NEW page \in Seq(Image)
    PROVE  WithLink(page) \in Seq(Image) /\ Images(WithLink(page)) = Images(page) \cap Linked
  BY SelectType, SelectImages DEF WithLink

-----------------------------------------------------------------------------
(* The reference, page by page and album by album.                         *)

Given(f) == f.given \in [1..Albums -> Seq(Image)]
PageBut(f, a, p) ==
    IF <<a, p>> \in f.missed THEN <<>> ELSE WithLink(PageOf(f.given[a], p))
AlbumBut(f, a) ==
    IF <<a, 0>> \in f.missed THEN <<>> ELSE PagesTo(f, a, LastPage(f.given[a]))

LEMMA PagesNext ==
    ASSUME NEW f, Given(f), NEW a \in 1..Albums
    PROVE  /\ PagesTo(f, a, 0) = <<>>
           /\ \A n \in Nat : PagesTo(f, a, n) \in Seq(Image)
           /\ \A n \in Nat \ {0} :
                  PagesTo(f, a, n) = PagesTo(f, a, n - 1) \o PageBut(f, a, n)
  <1> DEFINE s(n) == [p \in 1..n |-> PageBut(f, a, p)]
  <1>1. \A n : PagesTo(f, a, n) = FlattenSeq(s(n))
    BY DEF PagesTo, PageBut
  <1>2. ASSUME NEW p \in Nat \ {0} PROVE PageBut(f, a, p) \in Seq(Image)
    <2>1. f.given[a] \in Seq(Image)
      BY DEF Given
    <2>2. PageOf(f.given[a], p) \in Seq(Image)
      BY <2>1, PageIs
    <2>3. WithLink(PageOf(f.given[a], p)) \in Seq(Image)
      BY <2>2, WithLinkIs
    <2> QED BY <2>3 DEF PageBut
  <1>3. \A n \in Nat : Parts(s(n), Image) /\ Len(s(n)) = n
    BY <1>2 DEF Parts
  <1>4. s(0) = <<>>
    OBVIOUS
  <1>5. ASSUME NEW n \in Nat \ {0}
        PROVE  FlattenSeq(s(n)) = FlattenSeq(s(n - 1)) \o PageBut(f, a, n)
    <2>1. /\ Parts(s(n), Image) /\ Len(s(n)) = n
          /\ Len(s(n - 1)) \in Nat /\ Len(s(n)) = Len(s(n - 1)) + 1
      BY <1>3
    <2>2. \A i \in 1..Len(s(n - 1)) : s(n)[i] = s(n - 1)[i]
      BY <1>3
    <2>3. s(n)[n] = PageBut(f, a, n)
      OBVIOUS
    <2> HIDE DEF s
    <2>4. FlattenSeq(s(n)) = FlattenSeq(s(n - 1)) \o s(n)[Len(s(n))]
      BY <2>1, <2>2, FlattenMore
    <2> QED BY <2>1, <2>3, <2>4
  <1>6. \A n \in Nat : FlattenSeq(s(n)) \in Seq(Image)
    <2> HIDE DEF s
    <2> QED BY <1>3, FlattenType
  <1>7. FlattenSeq(s(0)) = <<>>
    BY <1>4, FlattenNone
  <1> HIDE DEF s
  <1> QED BY <1>1, <1>5, <1>6, <1>7

LEMMA AlbumsNext ==
    ASSUME NEW f, Given(f)
    PROVE  /\ AlbumsTo(f, 0) = <<>>
           /\ \A n \in 0..Albums : AlbumsTo(f, n) \in Seq(Image)
           /\ \A n \in 1..Albums :
                  AlbumsTo(f, n) = AlbumsTo(f, n - 1) \o AlbumBut(f, n)
  <1> DEFINE s(n) == [a \in 1..n |-> AlbumBut(f, a)]
  <1>1. \A n : AlbumsTo(f, n) = FlattenSeq(s(n))
    BY DEF AlbumsTo, AlbumBut
  <1>2. ASSUME NEW a \in 1..Albums PROVE AlbumBut(f, a) \in Seq(Image)
    <2>1. LastPage(f.given[a]) \in Nat
      BY LastPageIs DEF Given
    <2> QED BY <2>1, PagesNext DEF AlbumBut
  <1>3. \A n \in 0..Albums : Parts(s(n), Image) /\ Len(s(n)) = n
    BY <1>2, LankongSizes DEF Parts
  <1>4. s(0) = <<>>
    OBVIOUS
  <1>5. ASSUME NEW n \in 1..Albums
        PROVE  FlattenSeq(s(n)) = FlattenSeq(s(n - 1)) \o AlbumBut(f, n)
    <2>0. n \in 0..Albums /\ n - 1 \in 0..Albums
      BY LankongSizes
    <2>1. /\ Parts(s(n), Image) /\ Len(s(n)) = n
          /\ Len(s(n - 1)) \in Nat /\ Len(s(n)) = Len(s(n - 1)) + 1
      BY <1>3, <2>0
    <2>2. \A i \in 1..Len(s(n - 1)) : s(n)[i] = s(n - 1)[i]
      BY <1>3, <2>0
    <2>3. s(n)[n] = AlbumBut(f, n)
      OBVIOUS
    <2> HIDE DEF s
    <2>4. FlattenSeq(s(n)) = FlattenSeq(s(n - 1)) \o s(n)[Len(s(n))]
      BY <2>1, <2>2, FlattenMore
    <2> QED BY <2>1, <2>3, <2>4
  <1>6. \A n \in 0..Albums : FlattenSeq(s(n)) \in Seq(Image)
    <2> HIDE DEF s
    <2> QED BY <1>3, FlattenType
  <1>7. FlattenSeq(s(0)) = <<>>
    BY <1>4, FlattenNone
  <1> HIDE DEF s
  <1> QED BY <1>1, <1>5, <1>6, <1>7

\* Only what was missed counts, and of that only what is before.
LEMMA PagesSame ==
    ASSUME NEW f, NEW g, NEW a, NEW n, f.given = g.given,
           \A p \in 1..n : <<a, p>> \in f.missed <=> <<a, p>> \in g.missed
    PROVE  PagesTo(f, a, n) = PagesTo(g, a, n)
  <1>1. \A p \in 1..n : PageBut(f, a, p) = PageBut(g, a, p)
    BY DEF PageBut
  <1>2. [p \in 1..n |-> PageBut(f, a, p)] = [p \in 1..n |-> PageBut(g, a, p)]
    BY <1>1
  <1>3. /\ PagesTo(f, a, n) = FlattenSeq([p \in 1..n |-> PageBut(f, a, p)])
        /\ PagesTo(g, a, n) = FlattenSeq([p \in 1..n |-> PageBut(g, a, p)])
    BY DEF PagesTo, PageBut
  <1> QED BY <1>2, <1>3

LEMMA AlbumsSame ==
    ASSUME NEW f, NEW g, NEW n, Given(f), n \in 0..Albums, f.given = g.given,
           \A a \in 1..n : \A p \in Nat : <<a, p>> \in f.missed <=> <<a, p>> \in g.missed
    PROVE  AlbumsTo(f, n) = AlbumsTo(g, n)
  <1>1. ASSUME NEW a \in 1..n PROVE AlbumBut(f, a) = AlbumBut(g, a)
    <2>1. PagesTo(f, a, LastPage(f.given[a])) = PagesTo(g, a, LastPage(f.given[a]))
      <3>1. LastPage(f.given[a]) \in Nat
        BY LastPageIs, LankongSizes, SMTT(40) DEF Given
      <3> QED BY <3>1, PagesSame
    <2> QED BY <2>1 DEF AlbumBut
  <1>2. [a \in 1..n |-> AlbumBut(f, a)] = [a \in 1..n |-> AlbumBut(g, a)]
    BY <1>1
  <1>3. /\ AlbumsTo(f, n) = FlattenSeq([a \in 1..n |-> AlbumBut(f, a)])
        /\ AlbumsTo(g, n) = FlattenSeq([a \in 1..n |-> AlbumBut(g, a)])
    BY DEF AlbumsTo, AlbumBut
  <1> QED BY <1>2, <1>3

-----------------------------------------------------------------------------
(* A fetch of albums that stay as they are.                                *)

Fetches ==
    [pc : {"idle", "first", "page", "done"}, album : 1..Albums, page : Nat,
     attempt : 0..MaxRetries, urls : Seq(Image), last : Nat,
     given : [1..Albums -> Seq(Image)], missed : SUBSET ((1..Albums) \X Nat),
     changes : Nat]

\* The page it is at is one of those counted, and it ends with the last album.
LankongTypes ==
    /\ albums \in [1..Albums -> Seq(Image)] /\ lk \in Fetches
    /\ lk.pc = "page" => lk.page \in 1..lk.last
    /\ lk.pc = "done" => lk.album = Albums

\* What f has collected is what the albums hold up to where it is.
Collected(f) ==
    /\ f.pc = "first" => /\ f.urls = AlbumsTo(f, f.album - 1)
                         /\ \A m \in f.missed : m[1] < f.album
    /\ f.pc = "page" =>
           /\ f.last = LastPage(f.given[f.album])
           /\ f.urls = AlbumsTo(f, f.album - 1) \o PagesTo(f, f.album, f.page - 1)
           /\ \A m \in f.missed : \/ m[1] < f.album
                                  \/ m[1] = f.album /\ m[2] \in 1..(f.page - 1)
    /\ f.pc = "done" => f.urls = AlbumsTo(f, Albums)

\* So it is as long as the albums stay as they were.
QuietlyCollected == lk.pc # "idle" /\ lk.changes = 0 => lk.given = albums /\ Collected(lk)

LEMMA NextAlbumCollects ==
    ASSUME NEW f \in Fetches, f.urls = AlbumsTo(f, f.album),
           \A m \in f.missed : m[1] <= f.album
    PROVE  Collected(NextAlbum(f))
  <1> DEFINE g == NextAlbum(f)
  <1>1. Given(f) /\ f.album \in 1..Albums
    BY DEF Fetches, Given
  <1>2. g.given = f.given /\ g.missed = f.missed /\ g.urls = f.urls
    BY DEF NextAlbum, Fetches
  <1>3. AlbumsTo(g, f.album) = f.urls
    <2>1. f.album \in 0..Albums
      BY <1>1, LankongSizes
    <2> HIDE DEF g
    <2> QED BY <1>1, <1>2, <2>1, AlbumsSame
  <1>4. CASE f.album = Albums
    <2>1. g.pc = "done"
      BY <1>4 DEF NextAlbum, Fetches
    <2> HIDE DEF g
    <2>2. Collected(g)
      BY <1>2, <1>3, <1>4, <2>1 DEF Collected
    <2> QED BY <2>2 DEF g
  <1>5. CASE f.album # Albums
    <2>1. g.pc = "first" /\ g.album = f.album + 1
      BY <1>5 DEF NextAlbum, Fetches
    <2>2. g.album - 1 = f.album
      BY <1>1, <2>1
    <2>3. \A m \in f.missed : m[1] < g.album
      <3>1. \A m \in f.missed : m[1] \in Nat
        BY DEF Fetches
      <3> HIDE DEF g
      <3> QED BY <1>1, <2>1, <3>1
    <2> HIDE DEF g
    <2>4. Collected(g)
      BY <1>2, <1>3, <2>1, <2>2, <2>3 DEF Collected
    <2> QED BY <2>4 DEF g
  <1> QED BY <1>4, <1>5

LEMMA NextPageCollects ==
    ASSUME NEW f \in Fetches, f.pc = "page", f.page \in 1..f.last,
           f.last = LastPage(f.given[f.album]),
           f.urls = AlbumsTo(f, f.album - 1) \o PagesTo(f, f.album, f.page),
           \A m \in f.missed : \/ m[1] < f.album
                               \/ m[1] = f.album /\ m[2] \in 1..f.page
    PROVE  Collected(NextPage(f))
  <1>1. Given(f) /\ f.album \in 1..Albums /\ f.page \in Nat /\ f.last \in Nat
    BY DEF Fetches, Given
  <1>2. CASE f.page = f.last
    <2>1. <<f.album, 0>> \notin f.missed
      <3> SUFFICES ASSUME NEW m \in f.missed, m = <<f.album, 0>> PROVE FALSE
        OBVIOUS
      <3>1. m[1] = f.album /\ m[2] = 0
        OBVIOUS
      <3>2. ~(m[1] < f.album) /\ m[2] \notin 1..f.page
        BY <1>1, <3>1
      <3> QED BY <3>2
    <2>2. AlbumBut(f, f.album) = PagesTo(f, f.album, f.page)
      BY <1>2, <2>1 DEF AlbumBut
    <2>3. f.urls = AlbumsTo(f, f.album)
      BY <1>1, <2>2, AlbumsNext
    <2>4. \A m \in f.missed : m[1] <= f.album
      <3>1. \A m \in f.missed : m[1] \in Nat
        BY DEF Fetches
      <3> QED BY <1>1, <3>1
    <2> QED BY <1>2, <2>3, <2>4, NextAlbumCollects DEF NextPage
  <1>3. CASE f.page # f.last
    <2> DEFINE g == NextPage(f)
    <2>1. /\ g.pc = "page" /\ g.page = f.page + 1 /\ g.last = f.last
          /\ g.album = f.album /\ g.urls = f.urls
          /\ g.given = f.given /\ g.missed = f.missed
      BY <1>3 DEF NextPage, Fetches
    <2> HIDE DEF g
    <2>2. g.page - 1 = f.page
      BY <1>1, <2>1
    <2>3. AlbumsTo(g, f.album - 1) = AlbumsTo(f, f.album - 1)
      <3>1. f.album - 1 \in 0..Albums
        BY <1>1, LankongSizes
      <3> QED BY <1>1, <2>1, <3>1, AlbumsSame
    <2>4. PagesTo(g, f.album, f.page) = PagesTo(f, f.album, f.page)
      BY <2>1, PagesSame
    <2>5. Collected(g)
      BY <2>1, <2>2, <2>3, <2>4 DEF Collected
    <2> QED BY <2>5 DEF g
  <1> QED BY <1>2, <1>3

LEMMA NextTypes ==
    ASSUME NEW f \in Fetches
    PROVE  /\ NextAlbum(f) \in Fetches /\ NextAlbum(f).pc \in {"first", "done"}
           /\ NextAlbum(f).pc = "done" => NextAlbum(f).album = Albums
           /\ f.pc = "page" /\ f.page \in 1..f.last =>
                  /\ NextPage(f) \in Fetches /\ NextPage(f).pc # "idle"
                  /\ NextPage(f).pc = "page" => NextPage(f).page \in 1..NextPage(f).last
                  /\ NextPage(f).pc = "done" => NextPage(f).album = Albums
  <1>1. /\ NextAlbum(f) \in Fetches /\ NextAlbum(f).pc \in {"first", "done"}
        /\ NextAlbum(f).pc = "done" => NextAlbum(f).album = Albums
    <2>1. CASE f.album = Albums
      <3>1. NextAlbum(f) = [f EXCEPT !.pc = "done"]
        BY <2>1 DEF NextAlbum
      <3> QED BY <2>1, <3>1 DEF Fetches
    <2>2. CASE f.album # Albums
      <3>1. NextAlbum(f) = [f EXCEPT !.pc = "first", !.album = f.album + 1, !.attempt = 0]
        BY <2>2 DEF NextAlbum
      <3>2. f.album + 1 \in 1..Albums /\ 0 \in 0..MaxRetries
        BY <2>2, LankongSizes DEF Fetches
      <3> DEFINE g == NextAlbum(f)
      <3>3. g = [pc |-> "first", album |-> f.album + 1, page |-> f.page, attempt |-> 0,
                 urls |-> f.urls, last |-> f.last, given |-> f.given,
                 missed |-> f.missed, changes |-> f.changes]
        BY <3>1 DEF Fetches
      <3> HIDE DEF g
      <3>4. g \in Fetches /\ g.pc = "first"
        BY <3>2, <3>3 DEF Fetches
      <3> QED BY <3>4 DEF g
    <2> QED BY <2>1, <2>2
  <1>2. ASSUME f.pc = "page", f.page \in 1..f.last
        PROVE  /\ NextPage(f) \in Fetches /\ NextPage(f).pc # "idle"
               /\ NextPage(f).pc = "page" => NextPage(f).page \in 1..NextPage(f).last
               /\ NextPage(f).pc = "done" => NextPage(f).album = Albums
    <2>1. CASE f.page = f.last
      BY <1>1, <2>1 DEF NextPage
    <2>2. CASE f.page # f.last
      <3>1. NextPage(f) = [f EXCEPT !.page = f.page + 1, !.attempt = 0]
        BY <2>2 DEF NextPage
      <3>2. f.page + 1 \in Nat /\ f.page + 1 \in 1..f.last /\ 0 \in 0..MaxRetries
        BY <1>2, <2>2, LankongSizes DEF Fetches
      <3> DEFINE g == NextPage(f)
      <3>3. g = [pc |-> f.pc, album |-> f.album, page |-> f.page + 1, attempt |-> 0,
                 urls |-> f.urls, last |-> f.last, given |-> f.given,
                 missed |-> f.missed, changes |-> f.changes]
        BY <3>1 DEF Fetches
      <3> HIDE DEF g
      <3>4. g \in Fetches /\ g.pc = "page" /\ g.page \in 1..g.last
        BY <1>2, <3>2, <3>3 DEF Fetches
      <3> QED BY <3>4 DEF g
    <2> QED BY <2>1, <2>2
  <1> QED BY <1>1, <1>2

LEMMA Removed ==
    ASSUME NEW S, NEW list \in Seq(S), NEW n \in DOMAIN list
    PROVE  /\ RemoveAt(list, n) \in Seq(S) /\ Len(RemoveAt(list, n)) = Len(list) - 1
           /\ \A k \in DOMAIN RemoveAt(list, n) :
                  RemoveAt(list, n)[k] = list[IF k < n THEN k ELSE k + 1]
  <1> DEFINE s == SubSeq(list, 1, n - 1)
             t == SubSeq(list, n + 1, Len(list))
  <1>1. /\ s \in Seq(S) /\ Len(s) = n - 1
        /\ \A i \in 1..(n - 1) : s[i] = list[i]
    OBVIOUS
  <1>2. /\ t \in Seq(S) /\ Len(t) = Len(list) - n
        /\ \A i \in 1..(Len(list) - n) : t[i] = list[n + i]
    OBVIOUS
  <1>3. RemoveAt(list, n) = s \o t
    BY DEF RemoveAt
  <1> HIDE DEF s, t
  <1> DEFINE u == s \o t
  <1>4. /\ u \in Seq(S) /\ Len(u) = Len(list) - 1
        /\ \A i \in 1..Len(s) : u[i] = s[i]
        /\ \A i \in 1..Len(t) : u[Len(s) + i] = t[i]
    BY <1>1, <1>2, SMTT(40)
  <1> HIDE DEF u
  <1>5. ASSUME NEW k \in DOMAIN u PROVE u[k] = list[IF k < n THEN k ELSE k + 1]
    <2>0. k \in 1..(Len(list) - 1) /\ n \in 1..Len(list) /\ Len(list) \in Nat
      BY <1>4
    <2>1. CASE k < n
      <3>1. k \in 1..(n - 1)
        BY <2>0, <2>1
      <3> QED BY <1>1, <1>4, <2>1, <3>1
    <2>2. CASE ~(k < n)
      <3> DEFINE i == k - (n - 1)
      <3>1. i \in 1..(Len(list) - n) /\ (n - 1) + i = k /\ n + i = k + 1
        BY <2>0, <2>2
      <3> HIDE DEF i
      <3>2. u[k] = t[i] /\ t[i] = list[k + 1]
        BY <1>1, <1>2, <1>4, <3>1
      <3> QED BY <2>2, <3>2
    <2> QED BY <2>1, <2>2
  <1> QED BY <1>3, <1>4, <1>5 DEF u

-----------------------------------------------------------------------------
(* The steps of a fetch.                                                   *)

\* What a step makes of the fetch and the albums.
LEMMA Changed ==
    ASSUME LankongTypes, AlbumChanges
    PROVE  /\ lk.pc \in {"first", "page"}
           /\ lk' = [lk EXCEPT !.changes = lk.changes + 1] /\ lk' \in Fetches
           /\ albums' \in [1..Albums -> Seq(Image)]
           /\ \E a \in 1..Albums :
                 \/ \E i \in Image :
                       /\ \A b \in 1..Albums : i \notin Images(lk.given[b])
                       /\ albums' = [albums EXCEPT ![a] = <<i>> \o albums[a]]
                 \/ \E n \in DOMAIN albums[a] :
                       albums' = [albums EXCEPT ![a] = RemoveAt(albums[a], n)]
  <1>1. /\ lk.pc \in {"first", "page"}
        /\ lk' = [lk EXCEPT !.changes = lk.changes + 1]
    BY DEF AlbumChanges
  <1>2. lk' \in Fetches
    <2>1. lk.changes + 1 \in Nat
      BY DEF LankongTypes, Fetches
    <2> QED BY <1>1, <2>1 DEF LankongTypes, Fetches
  <1>3. PICK a \in 1..Albums :
            \/ \E i \in Image :
                  /\ \A b \in 1..Albums : i \notin Images(lk.given[b])
                  /\ albums' = [albums EXCEPT ![a] = <<i>> \o albums[a]]
            \/ \E n \in DOMAIN albums[a] :
                  albums' = [albums EXCEPT ![a] = RemoveAt(albums[a], n)]
    BY DEF AlbumChanges
  <1>4. albums' \in [1..Albums -> Seq(Image)]
    <2>1. albums[a] \in Seq(Image)
      BY DEF LankongTypes
    <2>2. \A list \in Seq(Image) :
              albums' = [albums EXCEPT ![a] = list]
                  => albums' \in [1..Albums -> Seq(Image)]
      BY DEF LankongTypes
    <2>3. \A i \in Image : <<i>> \o albums[a] \in Seq(Image)
      BY <2>1
    <2>4. \A n \in DOMAIN albums[a] : RemoveAt(albums[a], n) \in Seq(Image)
      BY <2>1, Removed
    <2> QED BY <1>3, <2>2, <2>3, <2>4
  <1> QED BY <1>1, <1>2, <1>3, <1>4

LEMMA Began ==
    ASSUME LankongTypes, StartLankong
    PROVE  /\ lk' \in Fetches /\ albums' = albums
           /\ lk' = [pc |-> "first", album |-> 1, page |-> 0, attempt |-> 0,
                     urls |-> <<>>, last |-> 0, given |-> albums, missed |-> {},
                     changes |-> 0]
  <1>1. /\ lk' = [pc |-> "first", album |-> 1, page |-> 0, attempt |-> 0,
                  urls |-> <<>>, last |-> 0, given |-> albums, missed |-> {},
                  changes |-> 0]
        /\ albums' = albums
    BY DEF StartLankong, NoLankong
  <1>2. 1 \in 1..Albums /\ 0 \in 0..MaxRetries
    BY LankongSizes
  <1> QED BY <1>1, <1>2 DEF Fetches, LankongTypes

\* The record with which the next page is taken up.
LEMMA Answered ==
    ASSUME LankongTypes, PageAnswers
    PROVE  LET page == WithLink(PageOf(albums[lk.album], lk.page))
               f == [lk EXCEPT !.urls = lk.urls \o page]
           IN  /\ lk.pc = "page" /\ albums' = albums
               /\ page \in Seq(Image)
               /\ Images(page) = Images(PageOf(albums[lk.album], lk.page)) \cap Linked
               /\ f \in Fetches /\ f.pc = "page" /\ f.page \in 1..f.last
               /\ lk' = NextPage(f)
  <1> DEFINE page == WithLink(PageOf(albums[lk.album], lk.page))
             f == [lk EXCEPT !.urls = lk.urls \o page]
  <1>1. lk.pc = "page" /\ albums' = albums /\ lk' = NextPage(f)
    BY DEF PageAnswers
  <1>2. /\ lk \in Fetches /\ lk.album \in 1..Albums /\ lk.page \in Nat \ {0}
        /\ lk.page \in 1..lk.last /\ albums[lk.album] \in Seq(Image)
    BY <1>1 DEF LankongTypes, Fetches
  <1>3. PageOf(albums[lk.album], lk.page) \in Seq(Image)
    BY <1>2, PageIs
  <1>4. /\ page \in Seq(Image)
        /\ Images(page) = Images(PageOf(albums[lk.album], lk.page)) \cap Linked
    BY <1>3, WithLinkIs
  <1> HIDE DEF page
  <1>5. lk.urls \o page \in Seq(Image)
    BY <1>2, <1>4 DEF Fetches
  <1>6. f \in Fetches /\ f.pc = "page" /\ f.page \in 1..f.last
    BY <1>1, <1>2, <1>5 DEF Fetches
  <1> QED BY <1>1, <1>4, <1>6 DEF page

\* Either the request is repeated or what it was for is missed.
LEMMA Failed ==
    ASSUME LankongTypes, RequestFails
    PROVE  /\ albums' = albums
           /\ \/ /\ lk' = [lk EXCEPT !.attempt = lk.attempt + 1]
                 /\ lk' \in Fetches
              \/ \E p \in Nat :
                    LET f == [lk EXCEPT !.missed = lk.missed \cup {<<lk.album, p>>}]
                    IN  /\ f \in Fetches
                        /\ \/ lk.pc = "first" /\ p = 0 /\ lk' = NextAlbum(f)
                           \/ lk.pc = "page" /\ p = lk.page /\ lk' = NextPage(f)
  <1> DEFINE miss(p) == [lk EXCEPT !.missed = lk.missed \cup {<<lk.album, p>>}]
  <1>1. /\ albums' = albums /\ lk.pc \in {"first", "page"}
        /\ lk' = CASE lk.attempt < MaxRetries -> [lk EXCEPT !.attempt = lk.attempt + 1]
                   [] lk.attempt = MaxRetries /\ lk.pc = "first" -> NextAlbum(miss(0))
                   [] OTHER -> NextPage(miss(lk.page))
    BY DEF RequestFails
  <1>2. lk \in Fetches
    BY DEF LankongTypes
  <1>3. ASSUME NEW p \in Nat PROVE miss(p) \in Fetches
    <2>1. lk.missed \cup {<<lk.album, p>>} \in SUBSET ((1..Albums) \X Nat)
      BY <1>2 DEF Fetches
    <2> QED BY <1>2, <2>1 DEF Fetches
  <1>4. CASE lk.attempt < MaxRetries
    <2>1. lk.attempt + 1 \in 0..MaxRetries /\ lk' = [lk EXCEPT !.attempt = lk.attempt + 1]
      BY <1>1, <1>2, <1>4, LankongSizes DEF Fetches
    <2>2. lk' \in Fetches
      BY <1>2, <2>1 DEF Fetches
    <2> QED BY <1>1, <2>1, <2>2
  <1>5. CASE ~(lk.attempt < MaxRetries) /\ lk.attempt = MaxRetries /\ lk.pc = "first"
    <2>1. lk' = NextAlbum(miss(0)) /\ miss(0) \in Fetches
      BY <1>1, <1>3, <1>5
    <2> HIDE DEF miss
    <2> QED BY <1>1, <1>5, <2>1 DEF miss
  <1>6. CASE ~(lk.attempt < MaxRetries) /\ ~(lk.attempt = MaxRetries /\ lk.pc = "first")
    <2>1. lk.attempt = MaxRetries
      BY <1>2, <1>6, LankongSizes DEF Fetches
    <2>2. lk.pc = "page" /\ lk.page \in Nat
      BY <1>1, <1>2, <1>6, <2>1 DEF Fetches
    <2>3. lk' = NextPage(miss(lk.page)) /\ miss(lk.page) \in Fetches
      BY <1>1, <1>3, <1>6, <2>2
    <2> HIDE DEF miss
    <2> QED BY <1>1, <2>2, <2>3 DEF miss
  <1> QED BY <1>4, <1>5, <1>6

\* The pages that are asked for are there, and the last album ends the fetch.
LEMMA LankongTypesHold == LankongTypes /\ [LankongStep \/ AlbumChanges]_lankongVars => LankongTypes'
  <1> SUFFICES ASSUME LankongTypes, [LankongStep \/ AlbumChanges]_lankongVars PROVE LankongTypes'
    OBVIOUS
  <1> DEFINE Good(f) == /\ f \in Fetches
                        /\ f.pc = "page" => f.page \in 1..f.last
                        /\ f.pc = "done" => f.album = Albums
  <1>1. Good(lk) /\ albums \in [1..Albums -> Seq(Image)]
    BY DEF LankongTypes
  <1>2. SUFFICES Good(lk') /\ albums' \in [1..Albums -> Seq(Image)]
    BY DEF LankongTypes, Fetches
  <1>3. CASE UNCHANGED lankongVars
    BY <1>1, <1>3 DEF lankongVars
  <1>4. CASE AlbumChanges
    BY <1>1, <1>4, Changed DEF Fetches
  <1>5. CASE StartLankong
    BY <1>1, <1>5, Began
  <1>6. CASE FirstAnswers
    <2> DEFINE n == LastPage(albums[lk.album])
    <2>1. /\ lk' = [lk EXCEPT !.pc = "page", !.page = 1, !.attempt = 0, !.last = n]
          /\ albums' = albums
      BY <1>6 DEF FirstAnswers
    <2>2. n \in Nat \ {0}
      <3>1. albums[lk.album] \in Seq(Image)
        BY <1>1 DEF Fetches
      <3> QED BY <3>1, LastPageIs
    <2> HIDE DEF n
    <2>3. 1 \in 1..n /\ 0 \in 0..MaxRetries
      BY <2>2, LankongSizes
    <2>4. lk' = [pc |-> "page", album |-> lk.album, page |-> 1, attempt |-> 0,
                 urls |-> lk.urls, last |-> n, given |-> lk.given,
                 missed |-> lk.missed, changes |-> lk.changes]
      BY <1>1, <2>1 DEF Fetches
    <2> QED BY <1>1, <2>1, <2>2, <2>3, <2>4 DEF Fetches
  <1>7. CASE PageAnswers
    <2>1. PICK f \in Fetches : /\ f.pc = "page" /\ f.page \in 1..f.last
                               /\ lk' = NextPage(f) /\ albums' = albums
      BY <1>7, Answered
    <2> QED BY <1>1, <2>1, NextTypes
  <1>8. CASE RequestFails
    <2>1. CASE lk' = [lk EXCEPT !.attempt = lk.attempt + 1] /\ lk' \in Fetches
      BY <1>1, <1>8, <2>1, Failed DEF Fetches
    <2>2. CASE \E f \in Fetches : \/ lk' = NextAlbum(f)
                                  \/ /\ f.pc = "page" /\ f.page \in 1..f.last
                                     /\ lk' = NextPage(f)
      BY <1>1, <1>8, <2>2, Failed, NextTypes
    <2>3. ASSUME NEW p \in Nat, NEW f \in Fetches,
                 f = [lk EXCEPT !.missed = lk.missed \cup {<<lk.album, p>>}],
                 \/ lk.pc = "first" /\ p = 0 /\ lk' = NextAlbum(f)
                 \/ lk.pc = "page" /\ p = lk.page /\ lk' = NextPage(f)
          PROVE  Good(lk') /\ albums' \in [1..Albums -> Seq(Image)]
      <3>1. f.pc = lk.pc /\ f.page = lk.page /\ f.last = lk.last
        BY <1>1, <2>3 DEF Fetches
      <3> QED BY <1>1, <2>2, <2>3, <3>1
    <2> QED BY <1>8, <2>1, <2>3, Failed
  <1>9. CASE ReturnLankong
    <2>1. /\ albums' = albums
          /\ lk' = [pc |-> "idle", album |-> 1, page |-> 0, attempt |-> 0, urls |-> <<>>,
                    last |-> 0, given |-> albums, missed |-> {}, changes |-> 0]
      BY <1>9 DEF ReturnLankong, NoLankong
    <2>2. 1 \in 1..Albums /\ 0 \in 0..MaxRetries
      BY LankongSizes
    <2> QED BY <1>1, <2>1, <2>2 DEF Fetches
  <1> QED BY <1>3, <1>4, <1>5, <1>6, <1>7, <1>8, <1>9 DEF LankongStep

LEMMA QuietlyHolds ==
    /\ LankongTypes /\ QuietlyCollected /\ [LankongStep \/ AlbumChanges]_lankongVars
    => QuietlyCollected'
  <1> SUFFICES ASSUME LankongTypes, QuietlyCollected,
                      [LankongStep \/ AlbumChanges]_lankongVars,
                      lk'.pc # "idle", lk'.changes = 0
               PROVE  lk'.given = albums' /\ Collected(lk')
    BY DEF QuietlyCollected, Collected
  <1>0. lk \in Fetches /\ Given(lk) /\ lk.album \in 1..Albums /\ lk.album - 1 \in 0..Albums
    BY LankongSizes DEF LankongTypes, Fetches, Given
  <1>1. CASE UNCHANGED lankongVars
    BY <1>1 DEF lankongVars, QuietlyCollected, Collected
  <1>2. CASE AlbumChanges
    BY <1>0, <1>2, Changed DEF Fetches
  <1>3. CASE StartLankong
    <2>1. /\ lk' \in Fetches /\ albums' = albums
          /\ lk'.pc = "first" /\ lk'.album = 1 /\ lk'.urls = <<>> /\ lk'.missed = {}
          /\ lk'.given = albums
      BY <1>3, Began
    <2>2. PICK f : f = lk'
      OBVIOUS
    <2>3. AlbumsTo(f, 0) = <<>>
      BY <2>1, <2>2, AlbumsNext DEF Given, Fetches
    <2>4. Collected(f)
      BY <2>1, <2>2, <2>3 DEF Collected
    <2> QED BY <2>1, <2>2, <2>4
  <1>4. CASE FirstAnswers
    <2>1. /\ lk.pc = "first" /\ albums' = albums
          /\ lk' = [lk EXCEPT !.pc = "page", !.page = 1, !.attempt = 0,
                              !.last = LastPage(albums[lk.album])]
      BY <1>4 DEF FirstAnswers
    <2>2. PICK f : f = lk'
      OBVIOUS
    <2>3. /\ f.pc = "page" /\ f.page = 1 /\ f.last = LastPage(albums[lk.album])
          /\ f.album = lk.album /\ f.urls = lk.urls /\ f.given = lk.given
          /\ f.missed = lk.missed /\ f.changes = lk.changes
      BY <1>0, <2>1, <2>2 DEF Fetches
    <2>4. lk.given = albums /\ Collected(lk)
      BY <2>1, <2>2, <2>3 DEF QuietlyCollected
    <2>5. lk.urls = AlbumsTo(lk, lk.album - 1) /\ \A m \in lk.missed : m[1] < lk.album
      BY <2>1, <2>4 DEF Collected
    <2>6. AlbumsTo(lk, lk.album - 1) \in Seq(Image)
      BY <1>0, AlbumsNext
    <2>7. AlbumsTo(f, lk.album - 1) = AlbumsTo(lk, lk.album - 1)
      BY <1>0, <2>3, AlbumsSame
    <2>8. PagesTo(f, lk.album, 0) = <<>>
      BY <1>0, <2>3, PagesNext DEF Given
    <2>9. f.urls = AlbumsTo(f, f.album - 1) \o PagesTo(f, f.album, f.page - 1)
      BY <2>3, <2>5, <2>6, <2>7, <2>8
    <2>10. Collected(f)
      BY <2>3, <2>4, <2>5, <2>9 DEF Collected
    <2> QED BY <2>1, <2>2, <2>3, <2>4, <2>10
  <1>5. CASE PageAnswers
    <2>1. PICK page \in Seq(Image), f \in Fetches :
              /\ page = WithLink(PageOf(albums[lk.album], lk.page))
              /\ f = [lk EXCEPT !.urls = lk.urls \o page]
              /\ lk.pc = "page" /\ albums' = albums
              /\ f.pc = "page" /\ f.page \in 1..f.last
              /\ lk' = NextPage(f)
      BY <1>5, Answered
    <2>2. /\ f.album = lk.album /\ f.page = lk.page /\ f.last = lk.last
          /\ f.given = lk.given /\ f.missed = lk.missed /\ f.changes = lk.changes
          /\ f.urls = lk.urls \o page
      BY <1>0, <2>1 DEF Fetches
    <2>3. lk'.changes = f.changes /\ lk'.given = f.given
      BY <2>1 DEF NextPage, NextAlbum, Fetches
    <2>4. lk.given = albums /\ Collected(lk)
      BY <2>1, <2>2, <2>3 DEF QuietlyCollected
    <2>5. /\ lk.last = LastPage(lk.given[lk.album])
          /\ lk.urls = AlbumsTo(lk, lk.album - 1) \o PagesTo(lk, lk.album, lk.page - 1)
          /\ \A m \in lk.missed : \/ m[1] < lk.album
                                  \/ m[1] = lk.album /\ m[2] \in 1..(lk.page - 1)
      BY <2>1, <2>4 DEF Collected
    <2>6. lk.page \in Nat \ {0} /\ lk.page - 1 \in Nat
      BY <1>0, <2>1, <2>2, SMTT(40) DEF Fetches
    <2>7. page = PageBut(lk, lk.album, lk.page)
      <3>1. <<lk.album, lk.page>> \notin lk.missed
        <4> SUFFICES ASSUME NEW m \in lk.missed, m = <<lk.album, lk.page>> PROVE FALSE
          OBVIOUS
        <4>1. m[1] = lk.album /\ m[2] = lk.page
          OBVIOUS
        <4>2. ~(m[1] < lk.album) /\ m[2] \notin 1..(lk.page - 1)
          BY <1>0, <2>6, <4>1
        <4> QED BY <2>5, <4>2
      <3> QED BY <2>1, <2>4, <3>1 DEF PageBut
    <2>8. f.urls = AlbumsTo(lk, lk.album - 1) \o PagesTo(lk, lk.album, lk.page)
      <3> DEFINE x == AlbumsTo(lk, lk.album - 1)
                 y == PagesTo(lk, lk.album, lk.page - 1)
      <3>1. x \in Seq(Image) /\ y \in Seq(Image)
        BY <1>0, <2>6, AlbumsNext, PagesNext
      <3>2. PagesTo(lk, lk.album, lk.page) = y \o page
        BY <1>0, <2>6, <2>7, PagesNext
      <3>3. f.urls = (x \o y) \o page
        BY <2>2, <2>5
      <3> HIDE DEF x, y
      <3>4. (x \o y) \o page = x \o (y \o page)
        BY <2>1, <3>1
      <3> QED BY <3>2, <3>3, <3>4 DEF x
    <2>9. AlbumsTo(f, f.album - 1) = AlbumsTo(lk, lk.album - 1)
      BY <1>0, <2>2, AlbumsSame, SMTT(40)
    <2>10. PagesTo(f, f.album, f.page) = PagesTo(lk, lk.album, lk.page)
      BY <2>2, PagesSame
    <2>11. \A m \in f.missed : \/ m[1] < f.album
                               \/ m[1] = f.album /\ m[2] \in 1..f.page
      <3>1. 1..(lk.page - 1) \subseteq 1..lk.page
        BY <2>6
      <3> QED BY <2>2, <2>5, <3>1
    <2>12. Collected(NextPage(f))
      BY <2>1, <2>2, <2>5, <2>8, <2>9, <2>10, <2>11, NextPageCollects
    <2> QED BY <2>1, <2>2, <2>3, <2>4, <2>12
  <1>6. CASE RequestFails
    <2>1. CASE lk' = [lk EXCEPT !.attempt = lk.attempt + 1]
      <3>1. PICK f : f = lk'
        OBVIOUS
      <3>2. /\ f.pc = lk.pc /\ f.album = lk.album /\ f.page = lk.page /\ f.last = lk.last
            /\ f.given = lk.given /\ f.missed = lk.missed /\ f.changes = lk.changes
            /\ f.urls = lk.urls
        BY <1>0, <2>1, <3>1 DEF Fetches
      <3>3. lk.given = albums /\ Collected(lk) /\ albums' = albums
        BY <1>6, <3>1, <3>2, Failed DEF QuietlyCollected
      <3>4. \A n \in 0..Albums : AlbumsTo(f, n) = AlbumsTo(lk, n)
        BY <1>0, <3>2, AlbumsSame
      <3>5. \A a, n : PagesTo(f, a, n) = PagesTo(lk, a, n)
        BY <3>2, PagesSame
      <3>6. Albums \in 0..Albums
        BY LankongSizes
      <3>7. Collected(f)
        BY <1>0, <3>2, <3>3, <3>4, <3>5, <3>6 DEF Collected
      <3> QED BY <3>1, <3>2, <3>3, <3>7
    <2>2. ASSUME NEW p \in Nat, NEW f \in Fetches,
                 f = [lk EXCEPT !.missed = lk.missed \cup {<<lk.album, p>>}],
                 \/ lk.pc = "first" /\ p = 0 /\ lk' = NextAlbum(f)
                 \/ lk.pc = "page" /\ p = lk.page /\ lk' = NextPage(f)
          PROVE  lk'.given = albums' /\ Collected(lk')
      <3>1. /\ f.pc = lk.pc /\ f.album = lk.album /\ f.page = lk.page
            /\ f.last = lk.last /\ f.urls = lk.urls
            /\ f.given = lk.given /\ f.changes = lk.changes
            /\ f.missed = lk.missed \cup {<<lk.album, p>>}
        BY <1>0, <2>2 DEF Fetches
      <3>2. lk'.changes = f.changes /\ lk'.given = f.given
        BY <2>2 DEF NextPage, NextAlbum, Fetches
      <3>3. lk.given = albums /\ Collected(lk) /\ albums' = albums
        BY <1>6, <2>2, <3>1, <3>2, Failed DEF QuietlyCollected
      <3>4. ASSUME \A m \in lk.missed : m[1] < lk.album \/ m[1] = lk.album
            PROVE  \A a \in 1..(lk.album - 1) : \A q \in Nat :
                       <<a, q>> \in lk.missed <=> <<a, q>> \in f.missed
        <4> SUFFICES ASSUME NEW a \in 1..(lk.album - 1), NEW q \in Nat
                     PROVE  <<a, q>> # <<lk.album, p>>
          BY <3>1
        <4> QED BY <1>0
      <3>5. CASE lk.pc = "first" /\ p = 0
        <4>1. lk.urls = AlbumsTo(lk, lk.album - 1) /\ \A m \in lk.missed : m[1] < lk.album
          BY <3>3, <3>5 DEF Collected
        <4>2. AlbumsTo(lk, lk.album - 1) = AlbumsTo(f, lk.album - 1)
          BY <1>0, <3>1, <3>4, <4>1, AlbumsSame
        <4>3. AlbumBut(f, lk.album) = <<>>
          BY <3>1, <3>5 DEF AlbumBut
        <4>4. AlbumsTo(f, lk.album) = AlbumsTo(f, lk.album - 1) \o <<>>
          BY <1>0, <3>1, <4>3, AlbumsNext DEF Given
        <4>5. AlbumsTo(f, lk.album - 1) \in Seq(Image)
          BY <1>0, <3>1, AlbumsNext DEF Given
        <4>6. f.urls = AlbumsTo(f, f.album)
          BY <3>1, <4>1, <4>2, <4>4, <4>5
        <4>7. \A m \in f.missed : m[1] <= f.album
          <5>1. \A m \in lk.missed : m[1] \in Nat
            BY <1>0, SMTT(40) DEF Fetches
          <5> QED BY <1>0, <3>1, <4>1, <5>1
        <4> QED BY <2>2, <3>2, <3>3, <3>1, <3>5, <4>6, <4>7, NextAlbumCollects
      <3>6. CASE lk.pc = "page" /\ p = lk.page
        <4>1. /\ lk.last = LastPage(lk.given[lk.album])
              /\ lk.urls = AlbumsTo(lk, lk.album - 1) \o PagesTo(lk, lk.album, lk.page - 1)
              /\ \A m \in lk.missed : \/ m[1] < lk.album
                                      \/ m[1] = lk.album /\ m[2] \in 1..(lk.page - 1)
          BY <3>3, <3>6 DEF Collected
        <4>2. lk.page \in 1..lk.last /\ lk.page \in Nat \ {0} /\ lk.page - 1 \in Nat
          BY <3>6, SMTT(40) DEF LankongTypes, Fetches
        <4>3. AlbumsTo(lk, lk.album - 1) = AlbumsTo(f, lk.album - 1)
          BY <1>0, <3>1, <3>4, <4>1, AlbumsSame
        <4>4. PagesTo(lk, lk.album, lk.page - 1) = PagesTo(f, lk.album, lk.page - 1)
          <5>1. \A q \in 1..(lk.page - 1) : <<lk.album, q>> # <<lk.album, p>>
            BY <3>6, <4>2
          <5>2. \A q \in 1..(lk.page - 1) :
                    <<lk.album, q>> \in lk.missed <=> <<lk.album, q>> \in f.missed
            BY <3>1, <5>1
          <5> QED BY <3>1, <5>2, PagesSame
        <4>5. PagesTo(f, lk.album, lk.page) = PagesTo(f, lk.album, lk.page - 1) \o <<>>
          <5>1. PageBut(f, lk.album, lk.page) = <<>>
            BY <3>1, <3>6 DEF PageBut
          <5>2. PagesTo(f, lk.album, lk.page)
                    = PagesTo(f, lk.album, lk.page - 1) \o PageBut(f, lk.album, lk.page)
            BY <1>0, <3>1, <4>2, PagesNext, ZenonT(60) DEF Given
          <5> QED BY <5>1, <5>2
        <4>6. PagesTo(f, lk.album, lk.page - 1) \in Seq(Image)
          BY <1>0, <3>1, <4>2, PagesNext DEF Given
        <4>7. f.urls = AlbumsTo(f, f.album - 1) \o PagesTo(f, f.album, f.page)
          BY <3>1, <4>1, <4>3, <4>4, <4>5, <4>6
        <4>8. \A m \in f.missed : \/ m[1] < f.album
                                  \/ m[1] = f.album /\ m[2] \in 1..f.page
          <5>1. 1..(lk.page - 1) \subseteq 1..lk.page /\ lk.page \in 1..lk.page
            BY <4>2
          <5> QED BY <3>1, <3>6, <4>1, <5>1
        <4> QED BY <2>2, <3>1, <3>2, <3>3, <3>6, <4>1, <4>2, <4>7, <4>8, NextPageCollects
      <3> QED BY <2>2, <3>5, <3>6
    <2> QED BY <1>6, <2>1, <2>2, Failed
  <1>7. CASE ReturnLankong
    BY <1>7 DEF ReturnLankong, NoLankong
  <1> QED BY <1>1, <1>2, <1>3, <1>4, <1>5, <1>6, <1>7 DEF LankongStep

-----------------------------------------------------------------------------
(* A fetch that no request fails, of albums A that change meanwhile.       *)

\* How many of the positions of an album are behind the fetch.
Behind(A, f, b) ==
    CASE b < f.album \/ f.pc = "done" -> Len(A[b])
      [] b = f.album /\ f.pc = "page" -> PerPage * (f.page - 1)
      [] OTHER -> 0

\* The images at those positions.
Passed(A, f) ==
    UNION {{A[b][i] : i \in {n \in DOMAIN A[b] : n <= Behind(A, f, b)}} : b \in 1..Albums}

\* Images with a link that the fetch should find: Steady, of any A and f.
Stayed(A, f) ==
    Linked \cap UNION {Images(f.given[b]) \cap Images(A[b]) : b \in 1..Albums}

\* Images that stayed and were not found where the fetch has passed.
Lost(A, f) == (Stayed(A, f) \cap Passed(A, f)) \ Images(f.urls)

\* How many images are after the last page that will be asked for.
Over(A, f) ==
    IF f.pc = "page" /\ Len(A[f.album]) > PerPage * f.last
    THEN Len(A[f.album]) - PerPage * f.last ELSE 0

\* Each change costs at most one image, now or at the end of the album.
FewAreLost ==
    lk.pc # "idle" /\ lk.missed = {} =>
        Cardinality(Lost(albums, lk)) + Over(albums, lk) <= lk.changes

AlbumLists == [1..Albums -> Seq(Image)]

LEMMA LostIsFinite ==
    ASSUME NEW A, NEW f
    PROVE  IsFiniteSet(Lost(A, f)) /\ Cardinality(Lost(A, f)) \in Nat
  <1>1. Lost(A, f) \subseteq Image
    BY ImageAssumption DEF Lost, Stayed
  <1>2. IsFiniteSet(Lost(A, f))
    BY <1>1, ImageAssumption, FS_Subset
  <1> QED BY <1>2, FS_CardinalityType

\* Album b has x at such a position.
IsPassed(A, f, b, x) == \E n \in DOMAIN A[b] : n <= Behind(A, f, b) /\ x = A[b][n]

LEMMA PassedIs ==
    ASSUME NEW A, NEW f, NEW x
    PROVE  x \in Passed(A, f) <=> \E b \in 1..Albums : IsPassed(A, f, b, x)
  BY DEF Passed, IsPassed

LEMMA OverIs ==
    ASSUME NEW A \in AlbumLists, NEW f \in Fetches
    PROVE  Over(A, f) \in Nat /\ PerPage * f.last \in Nat
  <1>1. PerPage * f.last \in Nat /\ Len(A[f.album]) \in Nat
    BY LankongSizes DEF Fetches, AlbumLists
  <1>2. \A n, m \in Nat : n > m => n - m \in Nat
    OBVIOUS
  <1> QED BY <1>1, <1>2 DEF Over

LEMMA BehindIs ==
    ASSUME NEW A \in AlbumLists, NEW f \in Fetches, NEW b \in 1..Albums,
           f.pc = "page" => f.page \in 1..f.last
    PROVE  Behind(A, f, b) \in Nat
  <1>1. f.pc = "page" => f.page - 1 \in Nat
    BY DEF Fetches
  <1>2. f.pc = "page" => PerPage * (f.page - 1) \in Nat
    BY <1>1, LankongSizes
  <1>3. Len(A[b]) \in Nat
    BY DEF AlbumLists
  <1> QED BY <1>2, <1>3 DEF Behind

\* A set that has grown by no more than another.
LEMMA GrowsBy ==
    ASSUME NEW S, NEW T, NEW X, IsFiniteSet(S), IsFiniteSet(X), T \subseteq S \cup X
    PROVE  /\ IsFiniteSet(T) /\ Cardinality(T) \in Nat /\ Cardinality(S) \in Nat
           /\ Cardinality(X) \in Nat /\ Cardinality(T) <= Cardinality(S) + Cardinality(X)
  <1>1. /\ IsFiniteSet(S \cup X)
        /\ Cardinality(S \cup X) = Cardinality(S) + Cardinality(X) - Cardinality(S \cap X)
    BY FS_Union
  <1>2. IsFiniteSet(S \cap X)
    BY FS_Subset
  <1>3. IsFiniteSet(T) /\ Cardinality(T) <= Cardinality(S \cup X)
    BY <1>1, FS_Subset
  <1>4. /\ Cardinality(S) \in Nat /\ Cardinality(X) \in Nat /\ Cardinality(T) \in Nat
        /\ Cardinality(S \cap X) \in Nat
    BY <1>2, <1>3, FS_CardinalityType
  <1> QED BY <1>1, <1>3, <1>4

\* What the positions after m hold.
LEMMA FewAfter ==
    ASSUME NEW list \in Seq(Image), NEW m \in Nat
    PROVE  LET X == {list[i] : i \in {n \in DOMAIN list : n > m}}
           IN  /\ IsFiniteSet(X)
               /\ Len(list) <= m => Cardinality(X) = 0
               /\ Len(list) > m => Cardinality(X) <= Len(list) - m
  <1> DEFINE I == {n \in DOMAIN list : n > m}
             X == {list[i] : i \in I}
             f == [i \in I |-> list[i]]
  <1>1. I = (m + 1)..Len(list)
    OBVIOUS
  <1>2. /\ IsFiniteSet(I)
        /\ Cardinality(I) = IF m + 1 > Len(list) THEN 0 ELSE Len(list) - (m + 1) + 1
    <2>1. m + 1 \in Int /\ Len(list) \in Int
      OBVIOUS
    <2> HIDE DEF I
    <2> QED BY <1>1, <2>1, FS_Interval
  <1>3. f \in Surjection(I, X)
    BY DEF Surjection
  <1> HIDE DEF f, X, I
  <1>4. IsFiniteSet(X) /\ Cardinality(X) <= Cardinality(I) /\ Cardinality(X) \in Nat
    BY <1>2, <1>3, FS_Surjection, FS_CardinalityType
  <1>5. Len(list) <= m => Cardinality(X) = 0
    BY <1>2, <1>4
  <1>6. Len(list) > m => Cardinality(X) <= Len(list) - m
    BY <1>2, <1>4
  <1> QED BY <1>4, <1>5, <1>6 DEF X, I

\* An image that is added was in no album: nothing is lost by it at once.
LEMMA AddingLoses ==
    ASSUME NEW A \in AlbumLists, NEW f \in Fetches, f.pc \in {"first", "page"},
           f.pc = "page" => f.page \in 1..f.last,
           NEW a \in 1..Albums, NEW i \in Image,
           \A b \in 1..Albums : i \notin Images(f.given[b]),
           NEW B, B = [A EXCEPT ![a] = <<i>> \o A[a]]
    PROVE  /\ B \in AlbumLists /\ Over(B, f) <= Over(A, f) + 1
           /\ Lost(B, f) \subseteq Lost(A, f)
  <1>1. /\ A[a] \in Seq(Image) /\ <<i>> \o A[a] \in Seq(Image)
        /\ Len(<<i>> \o A[a]) = Len(A[a]) + 1
        /\ (<<i>> \o A[a])[1] = i
        /\ \A n \in 2..(Len(A[a]) + 1) : (<<i>> \o A[a])[n] = A[a][n - 1]
    <2>1. A[a] \in Seq(Image)
      BY DEF AlbumLists
    <2> QED BY <2>1
  <1>2. /\ B \in AlbumLists /\ B[a] = <<i>> \o A[a]
        /\ \A b \in 1..Albums : b # a => B[b] = A[b]
    BY <1>1 DEF AlbumLists
  <1>3. Over(B, f) <= Over(A, f) + 1
    <2>1. Len(B[f.album]) \in {Len(A[f.album]), Len(A[f.album]) + 1}
      BY <1>1, <1>2 DEF Fetches
    <2>2. Len(A[f.album]) \in Nat
      BY DEF AlbumLists, Fetches
    <2>3. PerPage * f.last \in Nat
      BY OverIs
    <2> QED BY <2>1, <2>2, <2>3 DEF Over
  <1>4. Images(B[a]) = Images(A[a]) \cup {i}
    <2> DEFINE one == <<i>>
    <2>1. one \in Seq(Image) /\ Images(one) = {i}
      BY ImagesOfFew
    <2>2. B[a] = one \o A[a]
      BY <1>2
    <2> HIDE DEF one
    <2>3. Images(one \o A[a]) = Images(one) \cup Images(A[a])
      BY <1>1, <2>1, ImagesJoin
    <2> QED BY <2>1, <2>2, <2>3
  <1>5. Stayed(B, f) \subseteq Stayed(A, f) /\ i \notin Stayed(B, f)
    <2> SUFFICES ASSUME NEW x \in Stayed(B, f) PROVE x \in Stayed(A, f) /\ x # i
      OBVIOUS
    <2>1. PICK b \in 1..Albums : x \in Images(f.given[b]) /\ x \in Images(B[b])
      BY DEF Stayed
    <2>2. x # i /\ x \in Images(A[b])
      BY <1>2, <1>4, <2>1
    <2> QED BY <2>1, <2>2 DEF Stayed
  <1>6. Passed(B, f) \subseteq Passed(A, f) \cup {i}
    <2> SUFFICES ASSUME NEW x \in Passed(B, f), x # i PROVE x \in Passed(A, f)
      OBVIOUS
    <2>0. PICK b \in 1..Albums : IsPassed(B, f, b, x)
      BY PassedIs
    <2>1. PICK n \in DOMAIN B[b] : n <= Behind(B, f, b) /\ x = B[b][n]
      BY <2>0 DEF IsPassed
    <2>2. CASE b # a
      <3>1. B[b] = A[b] /\ Behind(B, f, b) = Behind(A, f, b)
        BY <1>2, <2>2 DEF Behind
      <3> QED BY <2>1, <3>1, PassedIs DEF IsPassed
    <2>3. CASE b = a
      <3>1. n \in 2..(Len(A[a]) + 1)
        <4>1. B[a] \in Seq(Image) /\ n \in 1..(Len(A[a]) + 1)
          BY <1>1, <1>2, <2>1, <2>3
        <4>2. n # 1
          BY <1>1, <1>2, <2>1, <2>3
        <4> QED BY <1>1, <4>1, <4>2
      <3>2. x = A[a][n - 1] /\ n - 1 \in DOMAIN A[a]
        BY <1>1, <1>2, <2>1, <2>3, <3>1
      <3>3. n - 1 <= Behind(A, f, a)
        <4>1. Behind(A, f, a) \in Nat /\ Behind(B, f, a) \in Nat
          BY <1>2, BehindIs
        <4>2. CASE a < f.album
          <5>1. Behind(A, f, a) = Len(A[a])
            BY <4>2 DEF Behind
          <5> QED BY <1>1, <3>1, <5>1
        <4>3. CASE ~(a < f.album)
          <5>1. Behind(A, f, a) = Behind(B, f, a)
            BY <4>3 DEF Behind
          <5> QED BY <1>1, <2>1, <2>3, <3>1, <4>1, <5>1
        <4> QED BY <4>2, <4>3
      <3> QED BY <3>2, <3>3, PassedIs DEF IsPassed
    <2> QED BY <2>2, <2>3
  <1> QED BY <1>2, <1>3, <1>5, <1>6 DEF Lost

\* At most one element is in T and not in S.
Loses(S, T) == \E y : T \subseteq S \cup {y}

\* When an image is taken away, one of those after it may slip to where the
\* fetch has passed.
LEMMA TakingLoses ==
    ASSUME NEW A \in AlbumLists, NEW f \in Fetches, f.pc \in {"first", "page"},
           f.pc = "page" => f.page \in 1..f.last,
           NEW a \in 1..Albums, NEW n \in DOMAIN A[a],
           NEW B, B = [A EXCEPT ![a] = RemoveAt(A[a], n)]
    PROVE  /\ B \in AlbumLists /\ Over(B, f) <= Over(A, f)
           /\ Loses(Lost(A, f), Lost(B, f))
  <1> DEFINE list == RemoveAt(A[a], n)
             q == Behind(A, f, a)
  <1>1. /\ A[a] \in Seq(Image) /\ list \in Seq(Image) /\ Len(list) = Len(A[a]) - 1
        /\ \A k \in DOMAIN list : list[k] = A[a][IF k < n THEN k ELSE k + 1]
    <2>1. A[a] \in Seq(Image)
      BY DEF AlbumLists
    <2> QED BY <2>1, Removed
  <1>2. /\ B \in AlbumLists /\ B[a] = list
        /\ \A b \in 1..Albums : b # a => B[b] = A[b]
    BY <1>1 DEF AlbumLists
  <1> HIDE DEF list
  <1>3. Over(B, f) <= Over(A, f)
    <2>1. Len(B[f.album]) \in {Len(A[f.album]), Len(A[f.album]) - 1}
      BY <1>1, <1>2 DEF Fetches
    <2>2. Len(A[f.album]) \in Nat
      BY DEF AlbumLists, Fetches
    <2>3. PerPage * f.last \in Nat
      BY OverIs
    <2> QED BY <2>1, <2>2, <2>3 DEF Over
  <1>4. ASSUME NEW k \in DOMAIN list
        PROVE  \E j \in DOMAIN A[a] : list[k] = A[a][j] /\ j \in {k, k + 1}
    <2>1. k \in DOMAIN A[a] /\ k + 1 \in DOMAIN A[a]
      BY <1>1
    <2> QED BY <1>1, <2>1
  <1>5. Stayed(B, f) \subseteq Stayed(A, f)
    <2>1. Images(list) \subseteq Images(A[a])
      BY <1>4 DEF Images
    <2> QED BY <1>2, <2>1 DEF Stayed
  <1>6. Passed(B, f) \subseteq Passed(A, f) \cup {A[a][q + 1]}
    <2> SUFFICES ASSUME NEW x \in Passed(B, f) PROVE x \in Passed(A, f) \/ x = A[a][q + 1]
      OBVIOUS
    <2>0. PICK b \in 1..Albums : IsPassed(B, f, b, x)
      BY PassedIs
    <2>1. PICK k \in DOMAIN B[b] : k <= Behind(B, f, b) /\ x = B[b][k]
      BY <2>0 DEF IsPassed
    <2>2. CASE b # a
      <3>1. B[b] = A[b] /\ Behind(B, f, b) = Behind(A, f, b)
        BY <1>2, <2>2 DEF Behind
      <3> QED BY <2>1, <3>1, PassedIs DEF IsPassed
    <2>3. CASE b = a
      <3>1. PICK j \in DOMAIN A[a] : x = A[a][j] /\ j \in {k, k + 1}
        BY <1>2, <1>4, <2>1, <2>3
      <3>2. q \in Nat /\ Behind(B, f, a) \in Nat /\ k \in Nat /\ j \in Nat
        BY <1>1, <1>2, <2>1, <2>3, <3>1, BehindIs
      <3>3. j <= q \/ j = q + 1
        <4>1. CASE a < f.album
          <5>1. q = Len(A[a])
            BY <4>1 DEF Behind
          <5> HIDE DEF q
          <5> QED BY <1>1, <3>1, <3>2, <5>1
        <4>2. CASE ~(a < f.album)
          <5>1. Behind(B, f, a) = q
            BY <4>2 DEF Behind
          <5> HIDE DEF q
          <5> QED BY <2>1, <2>3, <3>1, <3>2, <5>1
        <4> QED BY <4>1, <4>2
      <3> QED BY <3>1, <3>3, PassedIs DEF IsPassed
    <2> QED BY <2>2, <2>3
  <1>7. Lost(B, f) \subseteq Lost(A, f) \cup {A[a][q + 1]}
    BY <1>5, <1>6 DEF Lost
  <1>8. Loses(Lost(A, f), Lost(B, f))
    <2>1. PICK y : y = A[a][q + 1]
      OBVIOUS
    <2> QED BY <1>7, <2>1 DEF Loses
  <1> QED BY <1>2, <1>3, <1>8

\* A page loses no image that it finds, and the last page those after it.
LEMMA PageLoses ==
    ASSUME NEW A \in AlbumLists, NEW f \in Fetches, f.pc = "page", f.page \in 1..f.last,
           NEW page \in Seq(Image),
           Images(page) = Images(PageOf(A[f.album], f.page)) \cap Linked,
           NEW h \in Fetches, h = [f EXCEPT !.urls = f.urls \o page],
           NEW g, g = NextPage(h)
    PROVE  Cardinality(Lost(A, g)) + Over(A, g) <= Cardinality(Lost(A, f)) + Over(A, f)
  <1> DEFINE q == PerPage * (f.page - 1)
             r == PerPage * f.page
             list == A[f.album]
             Here == {list[i] : i \in {n \in DOMAIN list : q < n /\ n <= r}}
  <1>1. /\ list \in Seq(Image) /\ f.album \in 1..Albums /\ f.page \in Nat \ {0}
        /\ f.last \in Nat /\ f.urls \in Seq(Image)
    BY DEF AlbumLists, Fetches
  <1>2. q \in Nat /\ r \in Nat
    <2>1. f.page - 1 \in Nat
      BY <1>1
    <2> QED BY <1>1, <2>1, LankongSizes
  <1>3. Images(page) = Here \cap Linked
    BY <1>1, PageIs
  <1> HIDE DEF Here
  <1>4. /\ h.pc = "page" /\ h.page = f.page /\ h.last = f.last /\ h.album = f.album
        /\ h.given = f.given /\ h.urls = f.urls \o page
    BY DEF Fetches
  <1>5. Images(h.urls) = Images(f.urls) \cup Images(page)
    BY <1>1, <1>4, ImagesJoin
  <1>6. g.urls = h.urls /\ g.given = f.given
    BY <1>4 DEF NextPage, NextAlbum, Fetches
  <1>7. Stayed(A, g) = Stayed(A, f) /\ Stayed(A, f) \subseteq Linked
    BY <1>6 DEF Stayed
  <1>8. \A X : Passed(A, g) \subseteq Passed(A, f) \cup Here \cup X
                  => Lost(A, g) \subseteq Lost(A, f) \cup X
    BY <1>3, <1>5, <1>6, <1>7 DEF Lost
  <1>9. Over(A, f) \in Nat /\ IsFiniteSet(Lost(A, f))
    BY OverIs, LostIsFinite
  <1>10. CASE f.page # f.last
    <2>1. /\ g.pc = "page" /\ g.album = f.album /\ g.page = f.page + 1
          /\ g.last = f.last
      BY <1>4, <1>10 DEF NextPage, Fetches
    <2>2. Over(A, g) = Over(A, f)
      BY <2>1 DEF Over
    <2>3. Passed(A, g) \subseteq Passed(A, f) \cup Here \cup {}
      <3> SUFFICES ASSUME NEW x \in Passed(A, g) PROVE x \in Passed(A, f) \/ x \in Here
        OBVIOUS
      <3>1. PICK b \in 1..Albums : IsPassed(A, g, b, x)
        BY PassedIs
      <3>2. PICK n \in DOMAIN A[b] : n <= Behind(A, g, b) /\ x = A[b][n]
        BY <3>1 DEF IsPassed
      <3>3. CASE b # f.album
        <4>1. Behind(A, g, b) = Behind(A, f, b)
          BY <2>1, <3>3 DEF Behind
        <4> QED BY <3>2, <4>1, PassedIs DEF IsPassed
      <3>4. CASE b = f.album
        <4>1. Behind(A, g, b) = r /\ Behind(A, f, b) = q
          <5>1. (f.page + 1) - 1 = f.page /\ ~(f.album < f.album)
            BY <1>1
          <5> QED BY <2>1, <3>4, <5>1 DEF Behind
        <4>2. n \in Nat
          BY <1>1, <3>2, <3>4
        <4> HIDE DEF q, r
        <4>3. CASE n <= q
          BY <3>2, <4>1, <4>3, PassedIs DEF IsPassed
        <4>4. CASE ~(n <= q)
          BY <1>2, <3>2, <3>4, <4>1, <4>2, <4>4 DEF Here
        <4> QED BY <4>3, <4>4
      <3> QED BY <3>3, <3>4
    <2>4. Lost(A, g) \subseteq Lost(A, f) \cup {}
      BY <1>8, <2>3
    <2>5. Cardinality(Lost(A, g)) <= Cardinality(Lost(A, f))
      BY <1>9, <2>4, FS_Subset
    <2>6. Cardinality(Lost(A, g)) \in Nat /\ Cardinality(Lost(A, f)) \in Nat
      BY LostIsFinite
    <2> QED BY <1>9, <2>2, <2>5, <2>6
  <1>11. CASE f.page = f.last
    <2> DEFINE X == {list[i] : i \in {n \in DOMAIN list : n > r}}
    <2>1. g = NextAlbum(h)
      BY <1>4, <1>11 DEF NextPage
    <2>2. /\ g.pc \in {"first", "done"}
          /\ g.pc = "first" => g.album = f.album + 1
          /\ g.pc = "done" => f.album = Albums
      BY <1>4, <2>1 DEF NextAlbum, Fetches
    <2>3. Over(A, g) = 0
      BY <2>2 DEF Over
    <2>4. IsFiniteSet(X) /\ Cardinality(X) <= Over(A, f)
      <3>1. /\ IsFiniteSet(X)
            /\ Len(list) <= r => Cardinality(X) = 0
            /\ Len(list) > r => Cardinality(X) <= Len(list) - r
        <4> HIDE DEF r, list
        <4> QED BY <1>1, <1>2, FewAfter
      <3>2. Over(A, f) = IF Len(list) > r THEN Len(list) - r ELSE 0
        BY <1>11 DEF Over
      <3>3. Len(list) \in Nat
        BY <1>1
      <3> HIDE DEF r, list, X
      <3> QED BY <1>2, <3>1, <3>2, <3>3
    <2> HIDE DEF X
    <2>5. Passed(A, g) \subseteq Passed(A, f) \cup Here \cup X
      <3> SUFFICES ASSUME NEW x \in Passed(A, g)
                   PROVE  x \in Passed(A, f) \/ x \in Here \/ x \in X
        OBVIOUS
      <3>1. PICK b \in 1..Albums : IsPassed(A, g, b, x)
        BY PassedIs
      <3>2. PICK n \in DOMAIN A[b] : n <= Behind(A, g, b) /\ x = A[b][n]
        BY <3>1 DEF IsPassed
      <3>3. n \in Nat \ {0} /\ n <= Len(A[b]) /\ A[b] \in Seq(Image)
        <4>1. A[b] \in Seq(Image)
          BY DEF AlbumLists
        <4> QED BY <4>1
      <3>4. b <= f.album
        <4> SUFFICES ASSUME ~(b <= f.album) PROVE FALSE
          OBVIOUS
        <4>1. g.pc = "first" /\ ~(b < g.album)
          BY <1>1, <2>2
        <4>2. Behind(A, g, b) = 0
          BY <4>1 DEF Behind
        <4> QED BY <3>2, <3>3, <4>2
      <3>5. CASE b # f.album
        <4>1. Behind(A, f, b) = Len(A[b])
          BY <1>1, <3>4, <3>5 DEF Behind
        <4> QED BY <3>2, <3>3, <4>1, PassedIs DEF IsPassed
      <3>6. CASE b = f.album
        <4>1. Behind(A, f, b) = q
          <5>1. ~(f.album < f.album)
            BY <1>1
          <5> QED BY <3>6, <5>1 DEF Behind
        <4> HIDE DEF q, r
        <4>2. CASE n <= q
          BY <3>2, <4>1, <4>2, PassedIs DEF IsPassed
        <4>3. CASE n > r
          BY <3>2, <3>6, <4>3 DEF X
        <4>4. CASE ~(n <= q) /\ ~(n > r)
          BY <1>2, <3>2, <3>3, <3>6, <4>4 DEF Here
        <4> QED BY <4>2, <4>3, <4>4
      <3> QED BY <3>5, <3>6
    <2>6. Lost(A, g) \subseteq Lost(A, f) \cup X
      BY <1>8, <2>5
    <2>7. /\ Cardinality(Lost(A, g)) \in Nat /\ Cardinality(Lost(A, f)) \in Nat
          /\ Cardinality(X) \in Nat
          /\ Cardinality(Lost(A, g)) <= Cardinality(Lost(A, f)) + Cardinality(X)
      BY <1>9, <2>4, <2>6, GrowsBy
    <2> QED BY <1>9, <2>3, <2>4, <2>7
  <1> QED BY <1>10, <1>11

LEMMA SameLoss ==
    ASSUME NEW A, NEW f, NEW g, f.pc = g.pc, f.album = g.album, f.page = g.page,
           f.last = g.last, f.given = g.given, f.urls = g.urls
    PROVE  Lost(A, f) = Lost(A, g) /\ Over(A, f) = Over(A, g)
  <1>1. \A b : Behind(A, f, b) = Behind(A, g, b)
    BY DEF Behind
  <1>2. Passed(A, f) = Passed(A, g)
    BY <1>1 DEF Passed
  <1> QED BY <1>2 DEF Lost, Stayed, Over

LEMMA FewAreLostHolds ==
    LankongTypes /\ FewAreLost /\ [LankongStep \/ AlbumChanges]_lankongVars => FewAreLost'
  <1> SUFFICES ASSUME LankongTypes, FewAreLost,
                      [LankongStep \/ AlbumChanges]_lankongVars,
                      lk'.pc # "idle", lk'.missed = {}
               PROVE  Cardinality(Lost(albums', lk')) + Over(albums', lk') <= lk'.changes
    BY DEF FewAreLost, Lost, Over, Stayed, Passed, Behind
  <1>0. /\ lk \in Fetches /\ albums \in AlbumLists /\ lk.changes \in Nat
        /\ lk.pc = "page" => lk.page \in 1..lk.last
    BY DEF LankongTypes, Fetches, AlbumLists
  <1>1. CASE UNCHANGED lankongVars
    BY <1>1 DEF lankongVars, FewAreLost
  <1>2. CASE AlbumChanges
    <2>1. PICK B, g : B = albums' /\ g = lk'
      OBVIOUS
    <2>2. lk.pc \in {"first", "page"} /\ g = [lk EXCEPT !.changes = lk.changes + 1]
      BY <1>2, <2>1, Changed
    <2>3. /\ g.pc = lk.pc /\ g.album = lk.album /\ g.page = lk.page /\ g.last = lk.last
          /\ g.given = lk.given /\ g.urls = lk.urls /\ g.missed = lk.missed
          /\ g.changes = lk.changes + 1
      BY <1>0, <2>2 DEF Fetches
    <2>4. Lost(B, g) = Lost(B, lk) /\ Over(B, g) = Over(B, lk)
      BY <2>3, SameLoss
    <2>5. Cardinality(Lost(albums, lk)) + Over(albums, lk) <= lk.changes
      BY <2>1, <2>3 DEF FewAreLost
    <2>6. /\ Cardinality(Lost(albums, lk)) \in Nat /\ Over(albums, lk) \in Nat
          /\ IsFiniteSet(Lost(albums, lk))
      BY <1>0, LostIsFinite, OverIs
    <2>7. ASSUME NEW a \in 1..Albums, NEW i \in Image,
                 \A b \in 1..Albums : i \notin Images(lk.given[b]),
                 B = [albums EXCEPT ![a] = <<i>> \o albums[a]]
          PROVE  Cardinality(Lost(B, lk)) + Over(B, lk) <= lk.changes + 1
      <3>1. /\ B \in AlbumLists /\ Over(B, lk) <= Over(albums, lk) + 1
            /\ Lost(B, lk) \subseteq Lost(albums, lk)
        BY <1>0, <2>2, <2>7, AddingLoses
      <3>2. Over(B, lk) \in Nat /\ Cardinality(Lost(B, lk)) \in Nat
        BY <1>0, <3>1, LostIsFinite, OverIs
      <3>3. Cardinality(Lost(B, lk)) <= Cardinality(Lost(albums, lk))
        BY <2>6, <3>1, FS_Subset
      <3> QED BY <1>0, <2>5, <2>6, <3>1, <3>2, <3>3
    <2>8. ASSUME NEW a \in 1..Albums, NEW n \in DOMAIN albums[a],
                 B = [albums EXCEPT ![a] = RemoveAt(albums[a], n)]
          PROVE  Cardinality(Lost(B, lk)) + Over(B, lk) <= lk.changes + 1
      <3>0. /\ B \in AlbumLists /\ Over(B, lk) <= Over(albums, lk)
            /\ Loses(Lost(albums, lk), Lost(B, lk))
        BY <1>0, <2>2, <2>8, TakingLoses
      <3>1. PICK y : /\ B \in AlbumLists /\ Over(B, lk) <= Over(albums, lk)
                     /\ Lost(B, lk) \subseteq Lost(albums, lk) \cup {y}
        BY <3>0 DEF Loses
      <3>2. Over(B, lk) \in Nat /\ Cardinality(Lost(B, lk)) \in Nat
        BY <1>0, <3>1, LostIsFinite, OverIs
      <3>3. Cardinality(Lost(B, lk)) <= Cardinality(Lost(albums, lk)) + 1
        <4>1. IsFiniteSet({y}) /\ Cardinality({y}) = 1
          BY FS_Singleton
        <4> QED BY <2>6, <3>1, <4>1, GrowsBy
      <3> QED BY <1>0, <2>5, <2>6, <3>1, <3>2, <3>3
    <2>9. Cardinality(Lost(B, lk)) + Over(B, lk) <= lk.changes + 1
      BY <1>2, <2>1, <2>7, <2>8, Changed
    <2> QED BY <2>1, <2>3, <2>4, <2>9
  <1>3. CASE StartLankong
    <2>1. PICK g : g = lk'
      OBVIOUS
    <2>2. /\ g = [pc |-> "first", album |-> 1, page |-> 0, attempt |-> 0,
                  urls |-> <<>>, last |-> 0, given |-> albums, missed |-> {},
                  changes |-> 0]
          /\ albums' = albums
      BY <1>3, <2>1, Began
    <2>3. Passed(albums, g) = {}
      <3> SUFFICES ASSUME NEW x, x \in Passed(albums, g) PROVE FALSE
        OBVIOUS
      <3>1. PICK b \in 1..Albums : IsPassed(albums, g, b, x)
        BY PassedIs
      <3>2. Behind(albums, g, b) = 0
        BY <2>2, LankongSizes DEF Behind
      <3>3. albums[b] \in Seq(Image)
        BY <1>0 DEF AlbumLists
      <3> QED BY <3>1, <3>2, <3>3 DEF IsPassed
    <2>4. Lost(albums, g) = {}
      BY <2>3 DEF Lost
    <2>5. Cardinality(Lost(albums, g)) = 0
      BY <2>4, FS_EmptySet
    <2>6. Over(albums, g) = 0 /\ g.changes = 0
      BY <2>2 DEF Over
    <2> QED BY <2>1, <2>2, <2>5, <2>6
  <1>4. CASE FirstAnswers
    <2>1. PICK g : g = lk'
      OBVIOUS
    <2>2. /\ lk.pc = "first" /\ albums' = albums
          /\ g = [lk EXCEPT !.pc = "page", !.page = 1, !.attempt = 0,
                            !.last = LastPage(albums[lk.album])]
      BY <1>4, <2>1 DEF FirstAnswers
    <2>3. /\ g.pc = "page" /\ g.page = 1 /\ g.last = LastPage(albums[lk.album])
          /\ g.album = lk.album /\ g.urls = lk.urls /\ g.given = lk.given
          /\ g.missed = lk.missed /\ g.changes = lk.changes
      BY <1>0, <2>2 DEF Fetches
    <2>4. Over(albums, g) = 0
      <3>1. albums[lk.album] \in Seq(Image)
        BY <1>0 DEF AlbumLists, Fetches
      <3>2. /\ Len(albums[lk.album]) <= PerPage * LastPage(albums[lk.album])
            /\ Len(albums[lk.album]) \in Nat
            /\ PerPage * LastPage(albums[lk.album]) \in Nat
        BY <3>1, LastPageIs, LankongSizes
      <3>3. ~(Len(albums[lk.album]) > PerPage * LastPage(albums[lk.album]))
        BY <3>2
      <3> QED BY <2>3, <3>3 DEF Over
    <2>5. \A b \in 1..Albums : Behind(albums, g, b) = Behind(albums, lk, b)
      <3>1. PerPage * (1 - 1) = 0
        BY LankongSizes
      <3> QED BY <2>2, <2>3, <3>1 DEF Behind
    <2>6. Lost(albums, g) = Lost(albums, lk)
      <3>1. Passed(albums, g) = Passed(albums, lk)
        BY <2>5 DEF Passed
      <3> QED BY <2>3, <3>1 DEF Lost, Stayed
    <2>7. Cardinality(Lost(albums, lk)) + Over(albums, lk) <= lk.changes
      BY <2>1, <2>2, <2>3 DEF FewAreLost
    <2>8. Cardinality(Lost(albums, lk)) \in Nat /\ Over(albums, lk) \in Nat
      BY <1>0, LostIsFinite, OverIs
    <2> QED BY <1>0, <2>1, <2>2, <2>3, <2>4, <2>6, <2>7, <2>8
  <1>5. CASE PageAnswers
    <2>1. PICK page \in Seq(Image), h \in Fetches :
              /\ Images(page) = Images(PageOf(albums[lk.album], lk.page)) \cap Linked
              /\ h = [lk EXCEPT !.urls = lk.urls \o page]
              /\ lk.pc = "page" /\ albums' = albums
              /\ lk' = NextPage(h)
      BY <1>5, Answered
    <2>2. PICK g : g = lk' /\ g = NextPage(h)
      BY <2>1
    <2>3. g.missed = lk.missed /\ g.changes = lk.changes
      BY <1>0, <2>1, <2>2 DEF NextPage, NextAlbum, Fetches
    <2>4. Cardinality(Lost(albums, g)) + Over(albums, g)
              <= Cardinality(Lost(albums, lk)) + Over(albums, lk)
      BY <1>0, <2>1, <2>2, PageLoses
    <2>5. Cardinality(Lost(albums, lk)) + Over(albums, lk) <= lk.changes
      BY <2>1, <2>2, <2>3 DEF FewAreLost
    <2>6. /\ Cardinality(Lost(albums, lk)) \in Nat /\ Over(albums, lk) \in Nat
          /\ Cardinality(Lost(albums, g)) \in Nat
      BY <1>0, LostIsFinite, OverIs
    <2>7. Over(albums, g) \in Nat
      <3>1. g \in Fetches
        BY <1>0, <2>1, <2>2, NextTypes DEF Fetches
      <3> QED BY <1>0, <3>1, OverIs
    <2> QED BY <1>0, <2>1, <2>2, <2>3, <2>4, <2>5, <2>6, <2>7
  <1>6. CASE RequestFails
    <2>1. PICK g : g = lk'
      OBVIOUS
    <2>2. CASE lk' = [lk EXCEPT !.attempt = lk.attempt + 1]
      <3>1. /\ g.pc = lk.pc /\ g.album = lk.album /\ g.page = lk.page
            /\ g.last = lk.last /\ g.given = lk.given /\ g.urls = lk.urls
            /\ g.missed = lk.missed /\ g.changes = lk.changes
        BY <1>0, <2>1, <2>2 DEF Fetches
      <3>2. Lost(albums, g) = Lost(albums, lk) /\ Over(albums, g) = Over(albums, lk)
        BY <3>1, SameLoss
      <3>3. albums' = albums
        BY <1>6, Failed
      <3> QED BY <2>1, <3>1, <3>2, <3>3 DEF FewAreLost
    <2>3. ASSUME NEW p \in Nat, NEW f \in Fetches,
                 f = [lk EXCEPT !.missed = lk.missed \cup {<<lk.album, p>>}],
                 \/ lk.pc = "first" /\ p = 0 /\ lk' = NextAlbum(f)
                 \/ lk.pc = "page" /\ p = lk.page /\ lk' = NextPage(f)
          PROVE  FALSE
      <3>1. f.missed # {}
        BY <1>0, <2>3 DEF Fetches
      <3>2. lk'.missed = f.missed
        BY <2>3 DEF NextPage, NextAlbum, Fetches
      <3> QED BY <3>1, <3>2
    <2> QED BY <1>6, <2>2, <2>3, Failed
  <1>7. CASE ReturnLankong
    BY <1>7 DEF ReturnLankong, NoLankong
  <1> QED BY <1>1, <1>2, <1>3, <1>4, <1>5, <1>6, <1>7 DEF LankongStep

-----------------------------------------------------------------------------
(* Theorems.                                                               *)

LankongInv == LankongTypes /\ QuietlyCollected /\ FewAreLost

LEMMA LankongInitInv == FetchInit => LankongInv
  <1> SUFFICES ASSUME FetchInit PROVE LankongInv
    OBVIOUS
  <1>1. lk = NoLankong
    BY DEF FetchInit, LankongInit
  <1>2. albums \in [1..Albums -> Seq(Image)]
    <2>1. CASE LankongInit
      <3>1. albums \in [1..Albums -> UNION {[1..n -> Image] : n \in 0..Cardinality(Image)}]
        BY <2>1 DEF LankongInit
      <3>2. 0..Cardinality(Image) \subseteq Nat
        BY ImageAssumption, FS_CardinalityType
      <3>3. UNION {[1..n -> Image] : n \in 0..Cardinality(Image)} \subseteq Seq(Image)
        BY <3>2
      <3> QED BY <3>1, <3>3
    <2>2. CASE albums = [a \in 1..Albums |-> <<>>]
      BY <2>2
    <2> QED BY <2>1, <2>2 DEF FetchInit
  <1>3. 1 \in 1..Albums /\ 0 \in 0..MaxRetries
    BY LankongSizes
  <1> QED BY <1>1, <1>2, <1>3
          DEF LankongInv, LankongTypes, QuietlyCollected, FewAreLost, NoLankong, Fetches

LEMMA LankongNextInv == LankongInv /\ [FetchNext]_fetchVars => LankongInv'
  <1> SUFFICES ASSUME LankongInv, [FetchNext]_fetchVars PROVE LankongInv'
    OBVIOUS
  <1>1. [LankongStep \/ AlbumChanges]_lankongVars
    BY DEF FetchNext, fetchVars, Lankong, S3, S3Fails, Upstream
  <1> QED BY <1>1, LankongTypesHold, QuietlyHolds, FewAreLostHolds DEF LankongInv

LEMMA FoundAtTheEnd == LankongInv => AlbumsAreFound
  <1> SUFFICES ASSUME LankongInv, lk.pc = "done" PROVE
        /\ lk.changes = 0 => lk.urls = AlbumsTo(lk, Albums)
        /\ lk.missed = {} => Cardinality(Steady \ Images(lk.urls)) <= lk.changes
    BY DEF AlbumsAreFound
  <1>1. lk.changes = 0 => lk.urls = AlbumsTo(lk, Albums)
    BY DEF LankongInv, QuietlyCollected, Collected
  <1>2. ASSUME lk.missed = {} PROVE Cardinality(Steady \ Images(lk.urls)) <= lk.changes
    <2>0. lk \in Fetches /\ albums \in AlbumLists /\ lk.changes \in Nat
      BY DEF LankongInv, LankongTypes, Fetches, AlbumLists
    <2>1. Steady = Stayed(albums, lk)
      BY DEF Steady, Stayed
    <2>2. Stayed(albums, lk) \subseteq Passed(albums, lk)
      <3> SUFFICES ASSUME NEW x \in Stayed(albums, lk) PROVE x \in Passed(albums, lk)
        OBVIOUS
      <3>1. PICK b \in 1..Albums : x \in Images(albums[b])
        BY DEF Stayed
      <3>2. PICK n \in DOMAIN albums[b] : x = albums[b][n]
        BY <3>1 DEF Images
      <3>3. Behind(albums, lk, b) = Len(albums[b]) /\ albums[b] \in Seq(Image)
        BY <2>0 DEF Behind, AlbumLists
      <3>4. n <= Behind(albums, lk, b)
        BY <3>2, <3>3
      <3> QED BY <3>2, <3>4, PassedIs DEF IsPassed
    <2>3. Steady \ Images(lk.urls) = Lost(albums, lk)
      BY <2>1, <2>2 DEF Lost
    <2>4. Cardinality(Lost(albums, lk)) + Over(albums, lk) <= lk.changes
      BY <1>2 DEF LankongInv, FewAreLost
    <2>5. Cardinality(Lost(albums, lk)) \in Nat /\ Over(albums, lk) \in Nat
      BY <2>0, LostIsFinite, OverIs
    <2>6. Cardinality(Lost(albums, lk)) <= lk.changes
      BY <2>0, <2>4, <2>5
    <2> QED BY <2>3, <2>6, Zenon
  <1> QED BY <1>1, <1>2

\* A fetch of albums that stay as they are returns their images that have a link,
\* page by page but for the pages it could not get; and when no request failed
\* for good, it has missed no more of the images that stayed than there were
\* changes meanwhile.
THEOREM AlbumsComeWhole == FetchSpec => []AlbumsAreFound
  <1>1. FetchSpec => []LankongInv
    BY LankongInitInv, LankongNextInv, PTL DEF FetchSpec
  <1> QED BY <1>1, FoundAtTheEnd, PTL
=============================================================================
