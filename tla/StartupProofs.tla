--------------------------- MODULE StartupProofs ---------------------------
(***************************************************************************)
(* Run from its first constructor to its last destructor: theorems about    *)
(* Startup for every INI file, every model and every number of threads,     *)
(* slots, frames and sessions.                                              *)
(*                                                                         *)
(* Run declares its objects in an order, their rank.  A resource refers to  *)
(* resources of objects of lower rank, or to a few of its own object, so    *)
(* the construction is Good: nothing asks for what an earlier resource      *)
(* refers to (RunGood).  The destructors go down the ranks, and each gives  *)
(* its resources back in the opposite order; a handler that runs half-way   *)
(* through a constructor does the same for the object under way             *)
(* (UnwindsFrom).  StartupInv says so of every state: what is held has been *)
(* asked for by a step already made, and on the way back the releases left  *)
(* name all of it in an order that leaves nothing dangling, save that       *)
(* Cleanup destroys the CUDA stream before the session it was given to: the *)
(* releases follow Needs, which is Refers without that case.                *)
(***************************************************************************)
EXTENDS Startup, SequenceTheorems, WellFoundedInduction, TLAPS

-----------------------------------------------------------------------------
(* Sequences of sequences, as the loops of the constructors produce them. *)

\* Induction on the natural numbers, about a set that holds 0 and all successors.
LEMMA SetInduction ==
  ASSUME NEW S, 0 \in S, \A n \in Nat : n \in S => n + 1 \in S
  PROVE  Nat \subseteq S
<1> DEFINE T == Nat \ S
<1> SUFFICES ASSUME T # {} PROVE FALSE
  OBVIOUS
<1>1. PICK x \in T : \A y \in T : ~ (<<y, x>> \in OpToRel(<, Nat))
  <2>1. T \subseteq Nat
    OBVIOUS
  <2> HIDE DEF T
  <2> QED BY <2>1, NatLessThanWellFounded, WFMin
<1>2. x # 0 /\ x - 1 \in Nat /\ x - 1 < x
  OBVIOUS
<1>3. <<x - 1, x>> \in OpToRel(<, Nat)
  BY <1>2 DEF OpToRel
<1>4. x - 1 \notin T
  BY <1>1, <1>3
<1> QED BY <1>2, <1>4

\* The function FlattenSeq(ss) is the last value of.
Joined(ss, n, f) == f = [i \in 1 .. n |-> IF i = 1 THEN ss[i] ELSE f[i - 1] \o ss[i]]

\* FlattenSeq joins its sequences one after the other: there is such a function.
LEMMA JoinedExists ==
  ASSUME NEW ss, NEW n \in Nat
  PROVE  \E f : Joined(ss, n, f)
<1> DEFINE S == {m \in Nat : \E f : Joined(ss, m, f)}
<1>1. 0 \in S
  <2> DEFINE f == [i \in 1 .. 0 |-> 0]
  <2>1. f = [i \in 1 .. 0 |-> IF i = 1 THEN ss[i] ELSE f[i - 1] \o ss[i]]
    OBVIOUS
  <2> HIDE DEF f
  <2> QED BY <2>1 DEF Joined
<1>2. ASSUME NEW m \in Nat, m \in S
      PROVE  m + 1 \in S
  <2>1. PICK f : Joined(ss, m, f)
    BY <1>2
  <2>2. \A i \in 1 .. m : f[i] = IF i = 1 THEN ss[i] ELSE f[i - 1] \o ss[i]
    BY <2>1 DEF Joined
  <2> DEFINE g == [i \in 1 .. m + 1 |->
                     IF i =< m THEN f[i] ELSE IF i = 1 THEN ss[i] ELSE f[i - 1] \o ss[i]]
  <2>3. \A i \in 1 .. m + 1 : g[i] = IF i = 1 THEN ss[i] ELSE g[i - 1] \o ss[i]
    BY <2>2
  <2>4. DOMAIN g = 1 .. m + 1 /\ g = [i \in 1 .. m + 1 |-> g[i]]
    OBVIOUS
  <2> HIDE DEF g
  <2>5. Joined(ss, m + 1, g)
    BY <2>3, <2>4 DEF Joined
  <2> QED BY <2>5
<1> HIDE DEF S
<1>3. Nat \subseteq S
  BY <1>1, <1>2, SetInduction
<1> QED BY <1>3 DEF S

\* FlattenSeq is the last value of that function.
LEMMA FlattenIsJoined ==
  ASSUME NEW ss, NEW n \in Nat \ {0}, Len(ss) = n
  PROVE  \E f : Joined(ss, n, f) /\ FlattenSeq(ss) = f[n]
<1> DEFINE f == CHOOSE f : f = [i \in 1 .. n |-> IF i = 1 THEN ss[i] ELSE f[i - 1] \o ss[i]]
<1>1. FlattenSeq(ss) = f[n]
  BY DEF FlattenSeq
<1>2. Joined(ss, n, f)
  BY JoinedExists DEF Joined
<1> QED BY <1>1, <1>2

\* s runs through the blocks ss[1], ..., ss[n]: place a of s is place p[a] of block b[a].
Laid(s, ss, n, b, p) ==
  /\ \A a \in 1 .. Len(s) : /\ b[a] \in 1 .. n /\ p[a] \in 1 .. Len(ss[b[a]])
                            /\ s[a] = ss[b[a]][p[a]]
  /\ \A a1, a2 \in 1 .. Len(s) :
       a1 < a2 => b[a1] < b[a2] \/ (b[a1] = b[a2] /\ p[a1] < p[a2])
  /\ \A i \in 1 .. n : \A j \in 1 .. Len(ss[i]) :
       \E a \in 1 .. Len(s) : b[a] = i /\ p[a] = j

InBlocks(s, ss, n) == \E b, p : Laid(s, ss, n, b, p)

\* One more block at the end leaves the places of the others where they were.
LEMMA NextBlock ==
  ASSUME NEW T, NEW ss, NEW n \in Nat, \A i \in 1 .. n + 1 : ss[i] \in Seq(T),
         NEW s \in Seq(T), InBlocks(s, ss, n)
  PROVE  s \o ss[n + 1] \in Seq(T) /\ InBlocks(s \o ss[n + 1], ss, n + 1)
<1> DEFINE t == ss[n + 1]
           u == s \o t
<1>1. t \in Seq(T) /\ Len(s) \in Nat /\ Len(t) \in Nat /\ t = ss[n + 1]
  <2>1. n + 1 \in 1 .. n + 1
    OBVIOUS
  <2> QED BY <2>1, LenProperties
<1>2. /\ u \in Seq(T) /\ Len(u) = Len(s) + Len(t)
      /\ \A a \in 1 .. Len(s) + Len(t) : u[a] = IF a =< Len(s) THEN s[a] ELSE t[a - Len(s)]
  BY <1>1, ConcatProperties
<1>3. PICK b, p : Laid(s, ss, n, b, p)
  BY DEF InBlocks
<1>a. \A a \in 1 .. Len(s) : /\ b[a] \in 1 .. n /\ p[a] \in 1 .. Len(ss[b[a]])
                             /\ s[a] = ss[b[a]][p[a]]
  BY <1>3 DEF Laid
<1>b. \A a1, a2 \in 1 .. Len(s) :
        a1 < a2 => b[a1] < b[a2] \/ (b[a1] = b[a2] /\ p[a1] < p[a2])
  BY <1>3 DEF Laid
<1>c. \A i \in 1 .. n : \A j \in 1 .. Len(ss[i]) :
        \E a \in 1 .. Len(s) : b[a] = i /\ p[a] = j
  BY <1>3 DEF Laid
<1> DEFINE c == [a \in 1 .. Len(u) |-> IF a =< Len(s) THEN b[a] ELSE n + 1]
           r == [a \in 1 .. Len(u) |-> IF a =< Len(s) THEN p[a] ELSE a - Len(s)]
<1> HIDE DEF u, t
<1>4. \A a \in 1 .. Len(u) : /\ c[a] = IF a =< Len(s) THEN b[a] ELSE n + 1
                             /\ r[a] = IF a =< Len(s) THEN p[a] ELSE a - Len(s)
  OBVIOUS
<1> HIDE DEF c, r
<1>5. ASSUME NEW a \in 1 .. Len(u)
      PROVE  /\ c[a] \in 1 .. n + 1 /\ r[a] \in 1 .. Len(ss[c[a]])
             /\ u[a] = ss[c[a]][r[a]]
  <2>1. CASE a =< Len(s)
    <3>1. a \in 1 .. Len(s) /\ c[a] = b[a] /\ r[a] = p[a] /\ u[a] = s[a]
      BY <2>1, <1>1, <1>2, <1>4
    <3>2. b[a] \in 1 .. n /\ p[a] \in 1 .. Len(ss[b[a]]) /\ s[a] = ss[b[a]][p[a]]
      BY <3>1, <1>a
    <3>3. c[a] \in 1 .. n + 1
      BY <3>1, <3>2
    <3>4. Len(ss[c[a]]) = Len(ss[b[a]]) /\ ss[c[a]][r[a]] = ss[b[a]][p[a]]
      BY <3>1
    <3> QED BY <3>1, <3>2, <3>3, <3>4
  <2>2. CASE ~ (a =< Len(s))
    <3>1. a - Len(s) \in 1 .. Len(t) /\ c[a] = n + 1 /\ r[a] = a - Len(s)
      BY <2>2, <1>1, <1>2, <1>4
    <3>2. u[a] = t[a - Len(s)]
      BY <2>2, <1>2
    <3>3. ss[c[a]] = t /\ n + 1 \in 1 .. n + 1
      BY <3>1, <1>1
    <3> QED BY <3>1, <3>2, <3>3
  <2> QED BY <2>1, <2>2
<1>6. ASSUME NEW a1 \in 1 .. Len(u), NEW a2 \in 1 .. Len(u), a1 < a2
      PROVE  c[a1] < c[a2] \/ (c[a1] = c[a2] /\ r[a1] < r[a2])
  <2>1. CASE a2 =< Len(s)
    <3>1. a1 \in 1 .. Len(s) /\ a2 \in 1 .. Len(s)
      BY <2>1, <1>1, <1>2, <1>6
    <3>2. c[a1] = b[a1] /\ r[a1] = p[a1] /\ c[a2] = b[a2] /\ r[a2] = p[a2]
      BY <3>1, <1>4, <1>1, <1>2
    <3>3. b[a1] < b[a2] \/ (b[a1] = b[a2] /\ p[a1] < p[a2])
      BY <3>1, <1>6, <1>b
    <3> QED BY <3>2, <3>3
  <2>2. CASE ~ (a1 =< Len(s))
    <3>1. ~ (a2 =< Len(s))
      BY <2>2, <1>1, <1>2, <1>6
    <3>2. /\ c[a1] = n + 1 /\ r[a1] = a1 - Len(s)
          /\ c[a2] = n + 1 /\ r[a2] = a2 - Len(s)
      BY <3>1, <2>2, <1>4
    <3>3. a1 - Len(s) < a2 - Len(s)
      BY <1>1, <1>2, <1>6
    <3> QED BY <3>2, <3>3
  <2>3. CASE a1 =< Len(s) /\ ~ (a2 =< Len(s))
    <3>1. a1 \in 1 .. Len(s) /\ c[a1] = b[a1] /\ c[a2] = n + 1
      BY <2>3, <1>1, <1>2, <1>4
    <3>2. b[a1] \in 1 .. n
      BY <3>1, <1>a
    <3> QED BY <3>1, <3>2
  <2> QED BY <2>1, <2>2, <2>3
<1>7. ASSUME NEW i \in 1 .. n + 1, NEW j \in 1 .. Len(ss[i])
      PROVE  \E a \in 1 .. Len(u) : c[a] = i /\ r[a] = j
  <2>1. CASE i =< n
    <3>1. PICK a \in 1 .. Len(s) : b[a] = i /\ p[a] = j
      BY <2>1, <1>c
    <3>2. a \in 1 .. Len(u) /\ a =< Len(s)
      BY <1>1, <1>2
    <3> QED BY <3>1, <3>2, <1>4
  <2>2. CASE i = n + 1
    <3>1. j + Len(s) \in 1 .. Len(u) /\ ~ (j + Len(s) =< Len(s))
      BY <2>2, <1>1, <1>2
    <3> QED BY <3>1, <2>2, <1>1, <1>4
  <2> QED BY <2>1, <2>2
<1>8. Laid(u, ss, n + 1, c, r)
  BY <1>5, <1>6, <1>7 DEF Laid
<1> QED BY <1>2, <1>8 DEF InBlocks, u, t

\* Each of the code's loops over threads, slots, frames and sessions is an Each: what
\* it asks for runs through the blocks of the iterations, in order.
LEMMA FlattenBlocks ==
  ASSUME NEW T, NEW ss, NEW n \in Nat, Len(ss) = n, DOMAIN ss = 1 .. n,
         \A i \in 1 .. n : ss[i] \in Seq(T)
  PROVE  FlattenSeq(ss) \in Seq(T) /\ InBlocks(FlattenSeq(ss), ss, n)
<1>1. CASE n = 0
  <2>1. FlattenSeq(ss) = ss
    BY <1>1 DEF FlattenSeq
  <2>2. ss = <<>>
    <3>1. ss \in [1 .. 0 -> T]
      BY <1>1
    <3>2. ss \in Seq(T)
      BY <3>1
    <3> QED BY <3>2, <1>1, EmptySeq
  <2>3. Laid(ss, ss, 0, <<>>, <<>>)
    BY <1>1, <2>2, EmptySeq DEF Laid
  <2> QED BY <1>1, <2>1, <2>2, <2>3, EmptySeq DEF InBlocks
<1>2. CASE n # 0
  <2>1. PICK f : Joined(ss, n, f) /\ FlattenSeq(ss) = f[n]
    BY <1>2, FlattenIsJoined
  <2>2. \A i \in 1 .. n : f[i] = IF i = 1 THEN ss[i] ELSE f[i - 1] \o ss[i]
    BY <2>1 DEF Joined
  <2> DEFINE S == {m \in Nat : m + 1 =< n =>
                     f[m + 1] \in Seq(T) /\ InBlocks(f[m + 1], ss, m + 1)}
  <2>3. 0 \in S
    <3>1. f[1] = ss[1] /\ ss[1] \in Seq(T) /\ Len(ss[1]) \in Nat
      BY <2>2, <1>2, LenProperties
    <3> DEFINE b == [a \in 1 .. Len(ss[1]) |-> 1]
               p == [a \in 1 .. Len(ss[1]) |-> a]
    <3>2. \A a \in 1 .. Len(ss[1]) : b[a] = 1 /\ p[a] = a
      OBVIOUS
    <3> HIDE DEF b, p
    <3>3. Laid(ss[1], ss, 1, b, p)
      BY <3>1, <3>2 DEF Laid
    <3> QED BY <3>1, <3>3 DEF InBlocks
  <2>4. ASSUME NEW m \in Nat, m \in S
        PROVE  m + 1 \in S
    <3> SUFFICES ASSUME m + 2 =< n
                 PROVE  f[m + 2] \in Seq(T) /\ InBlocks(f[m + 2], ss, m + 2)
      OBVIOUS
    <3>1. f[m + 1] \in Seq(T) /\ InBlocks(f[m + 1], ss, m + 1)
      BY <2>4
    <3>2. f[m + 2] = f[m + 1] \o ss[m + 2]
      <4>1. m + 2 \in 1 .. n /\ m + 2 # 1 /\ (m + 2) - 1 = m + 1
        OBVIOUS
      <4> QED BY <4>1, <2>2
    <3>3. \A i \in 1 .. (m + 1) + 1 : ss[i] \in Seq(T)
      OBVIOUS
    <3>4. (m + 1) + 1 = m + 2 /\ m + 1 \in Nat
      OBVIOUS
    <3>5. f[m + 1] \o ss[(m + 1) + 1] \in Seq(T)
          /\ InBlocks(f[m + 1] \o ss[(m + 1) + 1], ss, (m + 1) + 1)
      BY <3>1, <3>3, <3>4, NextBlock
    <3> QED BY <3>2, <3>4, <3>5
  <2> HIDE DEF S
  <2>5. Nat \subseteq S
    BY <2>3, <2>4, SetInduction
  <2> QED BY <1>2, <2>1, <2>5 DEF S
<1> QED BY <1>1, <1>2

-----------------------------------------------------------------------------
(* The objects of Run in the order of their declaration, their resources, and what
   makes a sequence of construction steps good. *)

Objects == {"logger", "rtScope", "rawStore", "qRaw", "env", "session", "slotStore",
            "qPrep", "qInf", "metrics", "sink", "source", "keys", "workers"}

OfRank(of) ==
  CASE of = "logger" -> 0 [] of = "rtScope" -> 1 [] of = "rawStore" -> 2 [] of = "qRaw" -> 3
    [] of = "env" -> 4 [] of = "session" -> 5 [] of = "slotStore" -> 6 [] of = "qPrep" -> 7
    [] of = "qInf" -> 8 [] of = "metrics" -> 9 [] of = "sink" -> 10 [] of = "source" -> 11
    [] of = "keys" -> 12 [] OTHER -> 13

Whats(of) ==
  CASE of = "session"   -> {"bound", "tensors", "device", "event", "stream", "binding", "session"}
    [] of = "rawStore"  -> {"patches", "strip"}
    [] of = "slotStore" -> {"pinned", "host"}
    [] of = "source"    -> {"event", "view", "mapping"}
    [] of = "workers"   -> {"prep", "infer", "post"}
    [] of = "rtScope"   -> {"class", "timer"}
    [] of = "logger"    -> {"thread"}
    [] of = "keys"      -> {"mode"}
    [] of = "env"       -> {"env"}
    [] OTHER            -> {"object"}

Kinds == {"ask", "request", "check", "fail", "complete"}

AllWhats == UNION {Whats(of) : of \in Objects}

Steps == [kind : Kinds, of : Objects \cup {"run"}, nr : Int,
          what : {""} \cup AllWhats, k : Int]

\* x is a resource of the kind its object has.
Proper(x) == /\ x.of \in Objects /\ x.what \in Whats(x.of)
             /\ x.of # "session" => x.nr = 0

StepOK(x) ==
  /\ x \in Steps
  /\ x.what # "" => Proper(x) /\ x.kind \in {"ask", "request"}
  /\ IF x.of = "run" THEN x.kind \in {"check", "fail"} 
     ELSE x.of \in Objects /\ (x.of # "session" => x.nr = 0)

Own(r, s) ==
  \/ r.of = "rawStore" /\ s.of = "rawStore" /\ r.what = "patches" /\ s.what = "strip" /\ r.k = s.k
  \/ /\ r.of = "session" /\ s.of = "session" /\ r.nr = s.nr
     /\ \/ r.what = "tensors" /\ s.what = "device"
        \/ r.what = "bound" /\ s.what \in {"tensors", "binding"}
        \/ r.what = "binding" /\ s.what = "session"

\* A rank is a number.
LEMMA RankType == ASSUME NEW of PROVE OfRank(of) \in 0 .. 13 /\ OfRank(of) \in Int
<1>1. OfRank(of) \in 0 .. 13
  BY DEF OfRank
<1> QED BY <1>1

\* Run declares one object of each rank, or the sessions.
LEMMA RanksDiffer ==
  ASSUME NEW a \in Objects, NEW b \in Objects, OfRank(a) = OfRank(b) PROVE a = b
BY DEF OfRank, Objects

\* A resource refers to one of an object declared before its own, or to one of its
\* own object, the stream of its session included (textile_inference_gpu.cpp:61-207).
LEMMA RefersDown ==
  ASSUME NEW r, NEW s, Proper(r), Proper(s), Refers(r, s)
  PROVE  OfRank(s.of) < OfRank(r.of) \/ Own(r, s) \/ GivenStream(r, s)
<1>1. CASE s.of = "logger" /\ r.of # "logger"
  BY <1>1 DEF OfRank, Proper, Objects
<1>2. CASE r.what = "patches" /\ s.what = "strip" /\ r.k = s.k
  <2>1. r.of = "rawStore"
    BY <1>2 DEF Proper, Objects, Whats
  <2>2. s.of = "rawStore"
    BY <1>2 DEF Proper, Objects, Whats
  <2> QED BY <1>2, <2>1, <2>2 DEF Own
<1>3. CASE r.of = "session" /\ s.of = "session" /\ r.nr = s.nr
  BY <1>3 DEF Refers, Own, Proper, Whats, GivenStream
<1>4. CASE r.what = "session" /\ s.of = "env"
  <2>1. r.of = "session"
    BY <1>4 DEF Proper, Objects, Whats
  <2> QED BY <1>4, <2>1 DEF OfRank
<1>5. CASE r.of = "source" /\ s.of \in {"rawStore", "qRaw"}
  BY <1>5 DEF OfRank
<1>6. CASE r.of = "workers" /\ s.of \in {"rawStore", "qRaw", "slotStore", "qPrep", "qInf", "metrics"}
  BY <1>6 DEF OfRank
<1>7. CASE r.what \in {"prep", "infer", "post"} /\ s.of \in {"session", "sink"}
  <2>1. r.of = "workers"
    BY <1>7 DEF Proper, Objects, Whats
  <2> QED BY <1>7, <2>1 DEF OfRank
<1> QED BY <1>1, <1>2, <1>3, <1>4, <1>5, <1>6, <1>7 DEF Refers

\* r cannot do without s to the end of its life.
Needs(r, s) == Refers(r, s) /\ ~ GivenStream(r, s)

\* The one that is asked for first does not refer to the other.
Apart(x, y) == x.what # "" /\ y.what # "" => ~ Refers(Granted(x), Granted(y))

Completes(s, of, nr) == \E i \in 1 .. Len(s) : /\ s[i].kind = "complete"
                                               /\ s[i].of = of /\ s[i].nr = nr
Has(s, x) == \E i \in 1 .. Len(s) : s[i] = x

SameObject(x, y) == x.of = y.of /\ x.nr = y.nr

Made(s, i) == \E j \in 1 .. Len(s) : j < i /\ s[j].kind = "complete" /\ SameObject(s[j], s[i])
Soon(s, i) == \E j \in 1 .. Len(s) :
                /\ i =< j /\ s[j].kind = "complete"
                /\ \A l \in 1 .. Len(s) : i =< l /\ l =< j => SameObject(s[l], s[i])

LastOfSource(x) == x.of = "source" /\ x.what = "event"

Good(s) ==
  /\ s \in Seq(Steps)
  /\ \A i \in 1 .. Len(s) : StepOK(s[i])
  /\ \A i \in 1 .. Len(s) : s[i].of # "run" => Made(s, i) \/ Soon(s, i)
  /\ \A i \in 1 .. Len(s) : LastOfSource(s[i]) =>
                              i + 1 \in 1 .. Len(s) /\ s[i + 1].kind = "complete"
  /\ \A i, j \in 1 .. Len(s) : i < j => Apart(s[i], s[j])
  /\ \A i, j \in 1 .. Len(s) :
       i < j /\ s[i].of # "run" /\ s[j].of # "run" =>
         \/ OfRank(s[i].of) =< OfRank(s[j].of)
         \/ Made(s, j) /\ s[j].kind # "complete"

Ranks(s, lo, hi) == \A i \in 1 .. Len(s) : s[i].of # "run" => OfRank(s[i].of) \in lo .. hi

\* What a step is granted is a resource of its object.
LEMMA ProperGranted ==
  ASSUME NEW x, StepOK(x), x.what # ""
  PROVE  /\ Proper(Granted(x)) /\ x.of # "run" /\ x.of \in Objects
         /\ Granted(x).of = x.of /\ Granted(x).nr = x.nr
         /\ Granted(x).what = x.what /\ Granted(x).k = x.k
BY DEF StepOK, Proper, Granted, Objects

\* An order of numbers, for steps that know nothing else of them.
LEMMA LessIsStrict == \A a, b \in Int : a < b => ~ (b < a)
OBVIOUS

\* Nothing of an object refers to something of an object declared later.
LEMMA ApartByRank ==
  ASSUME NEW x, NEW y, StepOK(x), StepOK(y), OfRank(x.of) < OfRank(y.of)
  PROVE  Apart(x, y)
<1> SUFFICES ASSUME x.what # "", y.what # "", Refers(Granted(x), Granted(y)) PROVE FALSE
  BY DEF Apart
<1>1. Proper(Granted(x)) /\ Proper(Granted(y)) /\ Granted(x).of = x.of /\ Granted(y).of = y.of
  BY ProperGranted
<1>2. \/ OfRank(y.of) < OfRank(x.of)
      \/ Own(Granted(x), Granted(y)) \/ GivenStream(Granted(x), Granted(y))
  BY <1>1, RefersDown
<1>3. Own(Granted(x), Granted(y)) \/ GivenStream(Granted(x), Granted(y)) => x.of = y.of
  BY <1>1 DEF Own, GivenStream
<1>4. OfRank(x.of) \in Int /\ OfRank(y.of) \in Int
  BY RankType, Zenon
<1>5. ~ (OfRank(y.of) < OfRank(x.of))
  BY <1>4, LessIsStrict, Zenon
<1> QED BY <1>2, <1>3, <1>5

\* The places of two sequences in their concatenation.
LEMMA Places ==
  ASSUME NEW s \in Seq(Steps), NEW t \in Seq(Steps)
  PROVE  /\ Len(s) \in Nat /\ Len(t) \in Nat
         /\ s \o t \in Seq(Steps) /\ Len(s \o t) = Len(s) + Len(t)
         /\ \A i \in 1 .. Len(s) : i \in 1 .. Len(s \o t) /\ (s \o t)[i] = s[i]
         /\ \A i \in 1 .. Len(t) : /\ i + Len(s) \in 1 .. Len(s \o t)
                                   /\ (s \o t)[i + Len(s)] = t[i]
         /\ \A i \in 1 .. Len(s \o t) :
              i \in 1 .. Len(s) \/ (i > Len(s) /\ i - Len(s) \in 1 .. Len(t)
                                    /\ (i - Len(s)) + Len(s) = i)
<1>1. Len(s) \in Nat /\ Len(t) \in Nat
  BY LenProperties
<1>2. /\ s \o t \in Seq(Steps) /\ Len(s \o t) = Len(s) + Len(t)
      /\ \A i \in 1 .. Len(s) + Len(t) : (s \o t)[i] = IF i =< Len(s) THEN s[i] ELSE t[i - Len(s)]
  BY ConcatProperties
<1>3. ASSUME NEW i \in 1 .. Len(t)
      PROVE  /\ i + Len(s) \in 1 .. Len(s \o t) /\ (s \o t)[i + Len(s)] = t[i]
  <2>1. i + Len(s) \in 1 .. Len(s) + Len(t) /\ ~ (i + Len(s) =< Len(s)) /\ (i + Len(s)) - Len(s) = i
    BY <1>1
  <2> QED BY <2>1, <1>2
<1> QED BY <1>1, <1>2, <1>3

-----------------------------------------------------------------------------
(* Good parts of the construction, one after the other. *)

\* An object completed earlier, or next, is so still when steps are added.
LEMMA MadeJoins ==
  ASSUME NEW s \in Seq(Steps), NEW t \in Seq(Steps)
  PROVE  /\ \A i \in 1 .. Len(s) : Made(s, i) => Made(s \o t, i)
         /\ \A i \in 1 .. Len(t) : Made(t, i) => Made(s \o t, i + Len(s))
         /\ \A i \in 1 .. Len(s) : Soon(s, i) => Soon(s \o t, i)
         /\ \A i \in 1 .. Len(t) : Soon(t, i) => Soon(s \o t, i + Len(s))
<1> DEFINE u == s \o t
<1>1. /\ Len(s) \in Nat /\ Len(t) \in Nat /\ Len(u) = Len(s) + Len(t)
      /\ \A i \in 1 .. Len(s) : i \in 1 .. Len(u) /\ u[i] = s[i]
      /\ \A i \in 1 .. Len(t) : i + Len(s) \in 1 .. Len(u) /\ u[i + Len(s)] = t[i]
      /\ \A i \in 1 .. Len(u) :
           i \in 1 .. Len(s) \/ (i > Len(s) /\ i - Len(s) \in 1 .. Len(t)
                                 /\ (i - Len(s)) + Len(s) = i)
  BY Places
<1> HIDE DEF u
<1>2. ASSUME NEW i \in 1 .. Len(s), Made(s, i)
      PROVE  Made(u, i)
  <2>1. PICK j \in 1 .. Len(s) : j < i /\ s[j].kind = "complete" /\ SameObject(s[j], s[i])
    BY <1>2 DEF Made
  <2>2. j \in 1 .. Len(u) /\ u[j] = s[j] /\ u[i] = s[i]
    BY <1>1
  <2> QED BY <2>1, <2>2 DEF Made
<1>3. ASSUME NEW i \in 1 .. Len(t), Made(t, i)
      PROVE  Made(u, i + Len(s))
  <2>1. PICK j \in 1 .. Len(t) : j < i /\ t[j].kind = "complete" /\ SameObject(t[j], t[i])
    BY <1>3 DEF Made
  <2>2. /\ j + Len(s) \in 1 .. Len(u) /\ u[j + Len(s)] = t[j] /\ u[i + Len(s)] = t[i]
        /\ j + Len(s) < i + Len(s)
    BY <1>1, <2>1
  <2> QED BY <2>1, <2>2 DEF Made
<1>4. ASSUME NEW i \in 1 .. Len(s), Soon(s, i)
      PROVE  Soon(u, i)
  <2>1. PICK j \in 1 .. Len(s) :
          /\ i =< j /\ s[j].kind = "complete"
          /\ \A l \in 1 .. Len(s) : i =< l /\ l =< j => SameObject(s[l], s[i])
    BY <1>4 DEF Soon
  <2>2. j \in 1 .. Len(u) /\ u[j] = s[j] /\ u[i] = s[i]
    BY <1>1
  <2>3. ASSUME NEW l \in 1 .. Len(u), i =< l, l =< j
        PROVE  SameObject(u[l], u[i])
    <3>1. l \in 1 .. Len(s)
      BY <2>3, <1>1
    <3> QED BY <3>1, <2>1, <2>2, <2>3, <1>1
  <2> QED BY <2>1, <2>2, <2>3 DEF Soon
<1>5. ASSUME NEW i \in 1 .. Len(t), Soon(t, i)
      PROVE  Soon(u, i + Len(s))
  <2>1. PICK j \in 1 .. Len(t) :
          /\ i =< j /\ t[j].kind = "complete"
          /\ \A l \in 1 .. Len(t) : i =< l /\ l =< j => SameObject(t[l], t[i])
    BY <1>5 DEF Soon
  <2>2. /\ j + Len(s) \in 1 .. Len(u) /\ u[j + Len(s)] = t[j] /\ u[i + Len(s)] = t[i]
        /\ i + Len(s) =< j + Len(s)
    BY <1>1, <2>1
  <2>3. ASSUME NEW l \in 1 .. Len(u), i + Len(s) =< l, l =< j + Len(s)
        PROVE  SameObject(u[l], u[i + Len(s)])
    <3>1. l - Len(s) \in 1 .. Len(t) /\ i =< l - Len(s) /\ l - Len(s) =< j
      BY <2>3, <1>1
    <3>2. u[(l - Len(s)) + Len(s)] = t[l - Len(s)] /\ (l - Len(s)) + Len(s) = l
      BY <3>1, <1>1
    <3>3. SameObject(t[l - Len(s)], t[i])
      BY <3>1, <2>1
    <3> QED BY <3>2, <3>3, <2>2
  <2> QED BY <2>1, <2>2, <2>3 DEF Soon
<1> QED BY <1>2, <1>3, <1>4, <1>5 DEF u

HasJoins(s, t) ==
  /\ \A x : Has(s, x) \/ Has(t, x) => Has(s \o t, x)
  /\ \A of, nr : Completes(s, of, nr) \/ Completes(t, of, nr) => Completes(s \o t, of, nr)

\* What s or t does, s followed by t does.
LEMMA Joins ==
  ASSUME NEW s \in Seq(Steps), NEW t \in Seq(Steps)
  PROVE  HasJoins(s, t)
<1>1. ASSUME NEW x, Has(s, x) PROVE Has(s \o t, x)
  <2>1. PICK i \in 1 .. Len(s) : s[i] = x
    BY <1>1 DEF Has
  <2>2. i \in 1 .. Len(s \o t) /\ (s \o t)[i] = x
    BY <2>1, Places
  <2> QED BY <2>2 DEF Has
<1>2. ASSUME NEW x, Has(t, x) PROVE Has(s \o t, x)
  <2>1. PICK i \in 1 .. Len(t) : t[i] = x
    BY <1>2 DEF Has
  <2>2. i + Len(s) \in 1 .. Len(s \o t) /\ (s \o t)[i + Len(s)] = x
    BY <2>1, Places
  <2> QED BY <2>2 DEF Has
<1>3. ASSUME NEW of, NEW nr, Completes(s, of, nr) PROVE Completes(s \o t, of, nr)
  <2>1. PICK i \in 1 .. Len(s) : s[i].kind = "complete" /\ s[i].of = of /\ s[i].nr = nr
    BY <1>3 DEF Completes
  <2>2. i \in 1 .. Len(s \o t) /\ (s \o t)[i] = s[i]
    BY <2>1, Places
  <2> QED BY <2>1, <2>2 DEF Completes
<1>4. ASSUME NEW of, NEW nr, Completes(t, of, nr) PROVE Completes(s \o t, of, nr)
  <2>1. PICK i \in 1 .. Len(t) : t[i].kind = "complete" /\ t[i].of = of /\ t[i].nr = nr
    BY <1>4 DEF Completes
  <2>2. i + Len(s) \in 1 .. Len(s \o t) /\ (s \o t)[i + Len(s)] = t[i]
    BY <2>1, Places
  <2> QED BY <2>1, <2>2 DEF Completes
<1> QED BY <1>1, <1>2, <1>3, <1>4 DEF HasJoins

\* Every pair of s and t is apart, and in order, or t's comes late.
Across(s, t) ==
  \A i \in 1 .. Len(s), j \in 1 .. Len(t) :
    /\ Apart(s[i], t[j])
    /\ s[i].of # "run" /\ t[j].of # "run" => OfRank(s[i].of) =< OfRank(t[j].of)

\* Two good parts of the construction about different objects make a good one.
LEMMA GoodThenGood ==
  ASSUME NEW s, NEW t, Good(s), Good(t), Across(s, t)
  PROVE  Good(s \o t)
<1> DEFINE u == s \o t
<1>0. s \in Seq(Steps) /\ t \in Seq(Steps)
  BY DEF Good
<1>1. /\ Len(s) \in Nat /\ Len(t) \in Nat /\ u \in Seq(Steps) /\ Len(u) = Len(s) + Len(t)
      /\ \A i \in 1 .. Len(s) : i \in 1 .. Len(u) /\ u[i] = s[i]
      /\ \A i \in 1 .. Len(t) : i + Len(s) \in 1 .. Len(u) /\ u[i + Len(s)] = t[i]
      /\ \A i \in 1 .. Len(u) :
           i \in 1 .. Len(s) \/ (i > Len(s) /\ i - Len(s) \in 1 .. Len(t)
                                 /\ (i - Len(s)) + Len(s) = i)
  BY <1>0, Places
<1>m. /\ \A i \in 1 .. Len(s) : Made(s, i) => Made(u, i)
      /\ \A i \in 1 .. Len(t) : Made(t, i) => Made(u, i + Len(s))
      /\ \A i \in 1 .. Len(s) : Soon(s, i) => Soon(u, i)
      /\ \A i \in 1 .. Len(t) : Soon(t, i) => Soon(u, i + Len(s))
  BY <1>0, MadeJoins
<1> HIDE DEF u
<1>2. ASSUME NEW i \in 1 .. Len(u)
      PROVE  /\ StepOK(u[i])
             /\ u[i].of # "run" => Made(u, i) \/ Soon(u, i)
             /\ LastOfSource(u[i]) => i + 1 \in 1 .. Len(u) /\ u[i + 1].kind = "complete"
  <2>1. CASE i \in 1 .. Len(s)
    <3>1. u[i] = s[i]
      BY <2>1, <1>1
    <3>2. LastOfSource(s[i]) => i + 1 \in 1 .. Len(s) /\ s[i + 1].kind = "complete"
      BY <2>1 DEF Good
    <3>3. LastOfSource(s[i]) => i + 1 \in 1 .. Len(u) /\ u[i + 1].kind = "complete"
      BY <3>2, <1>1
    <3> QED BY <2>1, <3>1, <3>3, <1>m DEF Good
  <2>2. CASE i > Len(s)
    <3> DEFINE j == i - Len(s)
    <3>1. j \in 1 .. Len(t) /\ j + Len(s) = i /\ (j + 1) + Len(s) = i + 1
      BY <2>2, <1>1
    <3> HIDE DEF j
    <3>2. u[i] = t[j]
      BY <3>1, <1>1
    <3>3. LastOfSource(t[j]) => j + 1 \in 1 .. Len(t) /\ t[j + 1].kind = "complete"
      BY <3>1 DEF Good
    <3>4. LastOfSource(t[j]) => i + 1 \in 1 .. Len(u) /\ u[i + 1].kind = "complete"
      BY <3>1, <3>3, <1>1
    <3>5. (Made(t, j) => Made(u, i)) /\ (Soon(t, j) => Soon(u, i))
      BY <3>1, <1>m
    <3> QED BY <3>1, <3>2, <3>4, <3>5 DEF Good
  <2> QED BY <2>1, <2>2, <1>1
<1>3. ASSUME NEW i \in 1 .. Len(u), NEW j \in 1 .. Len(u), i < j
      PROVE  /\ Apart(u[i], u[j])
             /\ u[i].of # "run" /\ u[j].of # "run" =>
                  \/ OfRank(u[i].of) =< OfRank(u[j].of)
                  \/ Made(u, j) /\ u[j].kind # "complete"
  <2>1. CASE j \in 1 .. Len(s)
    <3>1. i \in 1 .. Len(s) /\ u[i] = s[i] /\ u[j] = s[j]
      BY <2>1, <1>1, <1>3
    <3> QED BY <2>1, <3>1, <1>3, <1>m DEF Good
  <2>2. CASE i \in 1 .. Len(s) /\ j > Len(s)
    <3>1. j - Len(s) \in 1 .. Len(t) /\ u[i] = s[i] /\ u[j] = t[j - Len(s)]
      BY <2>2, <1>1
    <3> QED BY <2>2, <3>1 DEF Across
  <2>3. CASE i > Len(s)
    <3> DEFINE k == i - Len(s)
               l == j - Len(s)
    <3>0. j > Len(s)
      BY <2>3, <1>1, <1>3
    <3>1. k \in 1 .. Len(t) /\ k + Len(s) = i /\ l \in 1 .. Len(t) /\ l + Len(s) = j /\ k < l
      <4>1. k \in 1 .. Len(t) /\ k + Len(s) = i
        BY <2>3, <1>1
      <4>2. l \in 1 .. Len(t) /\ l + Len(s) = j
        BY <3>0, <1>1
      <4>3. k < l
        BY <1>1, <1>3
      <4> QED BY <4>1, <4>2, <4>3
    <3> HIDE DEF k, l
    <3>2. u[i] = t[k] /\ u[j] = t[l] /\ (Made(t, l) => Made(u, j))
      BY <3>1, <1>1, <1>m
    <3> QED BY <3>1, <3>2 DEF Good
  <2> QED BY <2>1, <2>2, <2>3, <1>1
<1>4. Good(u)
  BY <1>1, <1>2, <1>3 DEF Good
<1> QED BY <1>4 DEF u

\* t goes on with objects that s has completed.
Late(s, t) ==
  /\ t \in Seq(Steps)
  /\ \A i \in 1 .. Len(t) :
       /\ StepOK(t[i]) /\ t[i].of \notin {"run", "source"} /\ t[i].kind # "complete"
       /\ Completes(s, t[i].of, t[i].nr)
  /\ \A i, j \in 1 .. Len(t) : Apart(t[i], t[j])
  /\ \A i \in 1 .. Len(s), j \in 1 .. Len(t) : Apart(s[i], t[j])

\* So does a good part followed by work on what it has completed: the threads, and
\* Warmup.
LEMMA GoodThenLate ==
  ASSUME NEW s, NEW t, Good(s), Late(s, t)
  PROVE  Good(s \o t)
<1> DEFINE u == s \o t
<1>0. s \in Seq(Steps) /\ t \in Seq(Steps)
  BY DEF Good, Late
<1>1. /\ Len(s) \in Nat /\ Len(t) \in Nat /\ u \in Seq(Steps) /\ Len(u) = Len(s) + Len(t)
      /\ \A i \in 1 .. Len(s) : i \in 1 .. Len(u) /\ u[i] = s[i]
      /\ \A i \in 1 .. Len(t) : i + Len(s) \in 1 .. Len(u) /\ u[i + Len(s)] = t[i]
      /\ \A i \in 1 .. Len(u) :
           i \in 1 .. Len(s) \/ (i > Len(s) /\ i - Len(s) \in 1 .. Len(t)
                                 /\ (i - Len(s)) + Len(s) = i)
  BY <1>0, Places
<1>m. /\ \A i \in 1 .. Len(s) : Made(s, i) => Made(u, i)
      /\ \A i \in 1 .. Len(s) : Soon(s, i) => Soon(u, i)
  BY <1>0, MadeJoins
<1> HIDE DEF u
<1>n. ASSUME NEW i \in 1 .. Len(u), i > Len(s)
      PROVE  /\ i - Len(s) \in 1 .. Len(t) /\ u[i] = t[i - Len(s)]
             /\ Made(u, i)
  <2>1. i - Len(s) \in 1 .. Len(t) /\ u[i] = t[i - Len(s)]
    BY <1>n, <1>1
  <2>2. Completes(s, u[i].of, u[i].nr)
    BY <2>1 DEF Late
  <2>3. PICK j \in 1 .. Len(s) : s[j].kind = "complete" /\ s[j].of = u[i].of /\ s[j].nr = u[i].nr
    BY <2>2 DEF Completes
  <2>4. j \in 1 .. Len(u) /\ u[j] = s[j] /\ j < i
    BY <1>1, <1>n
  <2> QED BY <2>1, <2>3, <2>4 DEF Made, SameObject
<1>2. ASSUME NEW i \in 1 .. Len(u)
      PROVE  /\ StepOK(u[i])
             /\ u[i].of # "run" => Made(u, i) \/ Soon(u, i)
             /\ LastOfSource(u[i]) => i + 1 \in 1 .. Len(u) /\ u[i + 1].kind = "complete"
  <2>1. CASE i \in 1 .. Len(s)
    <3>1. u[i] = s[i]
      BY <2>1, <1>1
    <3>2. LastOfSource(s[i]) => i + 1 \in 1 .. Len(s) /\ s[i + 1].kind = "complete"
      BY <2>1 DEF Good
    <3>3. LastOfSource(s[i]) => i + 1 \in 1 .. Len(u) /\ u[i + 1].kind = "complete"
      BY <3>2, <1>1
    <3> QED BY <2>1, <3>1, <3>3, <1>m DEF Good
  <2>2. CASE i > Len(s)
    <3>1. i - Len(s) \in 1 .. Len(t) /\ u[i] = t[i - Len(s)] /\ Made(u, i)
      BY <2>2, <1>n
    <3>2. StepOK(u[i]) /\ ~ LastOfSource(u[i])
      BY <3>1 DEF Late, LastOfSource
    <3> QED BY <3>1, <3>2
  <2> QED BY <2>1, <2>2, <1>1
<1>3. ASSUME NEW i \in 1 .. Len(u), NEW j \in 1 .. Len(u), i < j
      PROVE  /\ Apart(u[i], u[j])
             /\ u[i].of # "run" /\ u[j].of # "run" =>
                  \/ OfRank(u[i].of) =< OfRank(u[j].of)
                  \/ Made(u, j) /\ u[j].kind # "complete"
  <2>1. CASE j \in 1 .. Len(s)
    <3>1. i \in 1 .. Len(s) /\ u[i] = s[i] /\ u[j] = s[j]
      BY <2>1, <1>1, <1>3
    <3> QED BY <2>1, <3>1, <1>3, <1>m DEF Good
  <2>2. CASE j > Len(s)
    <3>1. j - Len(s) \in 1 .. Len(t) /\ u[j] = t[j - Len(s)] /\ Made(u, j)
      BY <2>2, <1>n
    <3>2. u[j].kind # "complete"
      BY <3>1 DEF Late
    <3>3. Apart(u[i], u[j])
      <4>1. CASE i \in 1 .. Len(s)
        BY <4>1, <3>1, <1>1 DEF Late
      <4>2. CASE i > Len(s)
        <5>1. i - Len(s) \in 1 .. Len(t) /\ u[i] = t[i - Len(s)]
          BY <4>2, <1>n
        <5> QED BY <5>1, <3>1 DEF Late
      <4> QED BY <4>1, <4>2, <1>1
    <3> QED BY <3>1, <3>2, <3>3
  <2> QED BY <2>1, <2>2, <1>1
<1>4. Good(u)
  BY <1>1, <1>2, <1>3 DEF Good
<1> QED BY <1>4 DEF u

-----------------------------------------------------------------------------
(* The work on one object. *)

\* s works on one object and does not complete it.
Part(s, of, nr) ==
  /\ s \in Seq(Steps)
  /\ \A i \in 1 .. Len(s) : /\ StepOK(s[i]) /\ s[i].kind # "complete"
                            /\ s[i].of = of /\ s[i].nr = nr
  /\ \A i \in 1 .. Len(s) : LastOfSource(s[i]) => i = Len(s)
  /\ \A i, j \in 1 .. Len(s) : i < j => Apart(s[i], s[j])

\* An object there may be.
Known(of, nr) == of \in Objects /\ nr \in Int /\ (of # "session" => nr = 0)

\* A sequence of one step.
LEMMA SingleStep ==
  ASSUME NEW x, x \in Steps
  PROVE  /\ <<x>> \in Seq(Steps) /\ Len(<<x>>) = 1 /\ <<x>>[1] = x
OBVIOUS

\* s consists of the step x.
Single(s, x) == s \in Seq(Steps) /\ Len(s) = 1 /\ \A i \in 1 .. Len(s) : i = 1 /\ s[i] = x

\* The same, for every place in it.
LEMMA SingleIs ==
  ASSUME NEW x, x \in Steps, NEW s, s = <<x>>
  PROVE  Single(s, x)
BY SingleStep DEF Single

\* The one step of s.
OneStep(s, x, of, nr) ==
  /\ s \in Seq(Steps) /\ Len(s) = 1 /\ \A i \in 1 .. Len(s) : i = 1 /\ s[i] = x
  /\ \A i, j \in 1 .. Len(s) : ~ (i < j) /\ i =< j
  /\ 1 \in 1 .. Len(s) /\ s[1] = x
  /\ StepOK(x) /\ x.of = of /\ x.nr = nr

\* A sequence of one step of an object.
LEMMA OneStepIs ==
  ASSUME NEW x, NEW s, NEW of, NEW nr, StepOK(x), s = <<x>>, x.of = of, x.nr = nr
  PROVE  OneStep(s, x, of, nr)
<1>1. x \in Steps
  BY DEF StepOK
<1>2. Single(s, x)
  BY <1>1, SingleIs
<1>3. 1 \in 1 .. 1 /\ \A i, j \in 1 .. 1 : ~ (i < j) /\ i =< j
  OBVIOUS
<1>4. Len(s) = 1
  BY <1>2 DEF Single
<1>5. 1 \in 1 .. Len(s) /\ \A i, j \in 1 .. Len(s) : ~ (i < j) /\ i =< j
  BY <1>3, <1>4
<1> QED BY <1>2, <1>5 DEF Single, OneStep

\* What Complete is.
LEMMA CompleteIs ==
  ASSUME NEW of, NEW nr, Known(of, nr)
  PROVE  \E x : OneStep(Complete(of, nr), x, of, nr) /\ x.kind = "complete" /\ x.what = ""
<1> DEFINE x == [kind |-> "complete", of |-> of, nr |-> nr, what |-> "", k |-> 0]
<1>2. x \in Steps
  BY DEF Known, Steps, Kinds
<1>3. StepOK(x) /\ x.kind = "complete" /\ x.what = "" /\ x.of = of /\ x.nr = nr
  BY <1>2 DEF Known, StepOK, Objects
<1>4. Complete(of, nr) = <<x>>
  BY DEF Complete, Step1
<1> HIDE DEF x
<1> QED BY <1>3, <1>4, OneStepIs

\* What Ask is.
LEMMA AskIs ==
  ASSUME NEW of, NEW nr, Known(of, nr), NEW what \in Whats(of), NEW k \in Int
  PROVE  \E x : /\ OneStep(Ask(of, nr, what, k), x, of, nr)
                /\ x.kind = "ask" /\ x.what = what /\ x.k = k
<1> DEFINE x == [kind |-> "ask", of |-> of, nr |-> nr, what |-> what, k |-> k]
<1>1. what \in AllWhats /\ what # ""
  BY DEF Whats, Known, AllWhats
<1>2. x \in Steps
  BY <1>1 DEF Known, Steps, Kinds
<1>3. StepOK(x) /\ x.kind = "ask" /\ x.what = what /\ x.k = k /\ x.of = of /\ x.nr = nr
  BY <1>2 DEF Known, StepOK, Proper, Objects
<1>4. Ask(of, nr, what, k) = <<x>>
  BY DEF Ask, Step1
<1> HIDE DEF x
<1> QED BY <1>3, <1>4, OneStepIs

\* What Check is, whether or not the check can succeed.
LEMMA CheckIs ==
  ASSUME NEW of, NEW nr, Known(of, nr) \/ (of = "run" /\ nr = 0), NEW ok
  PROVE  \E x : /\ OneStep(Check(of, nr, ok), x, of, nr)
                /\ x.kind \in {"check", "fail"} /\ x.what = ""
<1> DEFINE x == [kind |-> IF ok THEN "check" ELSE "fail", of |-> of, nr |-> nr,
                 what |-> "", k |-> 0]
<1>2. x \in Steps
  BY DEF Known, Steps, Kinds
<1>3. StepOK(x) /\ x.kind \in {"check", "fail"} /\ x.what = "" /\ x.of = of /\ x.nr = nr
  BY <1>2 DEF Known, StepOK, Objects
<1>4. Check(of, nr, ok) = <<x>>
  BY DEF Check, Step1
<1> HIDE DEF x
<1> QED BY <1>3, <1>4, OneStepIs

\* An object that needs nothing is complete at once: the logger and the workers.
LEMMA CompleteGood ==
  ASSUME NEW of, NEW nr, Known(of, nr)
  PROVE  /\ Good(Complete(of, nr)) /\ Ranks(Complete(of, nr), OfRank(of), OfRank(of))
         /\ Completes(Complete(of, nr), of, nr)
<1> DEFINE s == Complete(of, nr)
<1>1. PICK x : OneStep(s, x, of, nr) /\ x.kind = "complete" /\ x.what = ""
  BY CompleteIs
<1> HIDE DEF s
<1>2. Soon(s, 1)
  <2>1. 1 \in 1 .. Len(s) /\ 1 =< 1 /\ s[1].kind = "complete"
    BY <1>1 DEF OneStep
  <2>2. \A l \in 1 .. Len(s) : SameObject(s[l], s[1])
    BY <1>1 DEF OneStep, SameObject
  <2> QED BY <2>1, <2>2 DEF Soon
<1>3. ~ LastOfSource(x)
  BY <1>1 DEF LastOfSource
<1>4. \A i, j \in 1 .. Len(s) : ~ (i < j)
  BY <1>1 DEF OneStep
<1>5. Good(s)
  BY <1>1, <1>2, <1>3, <1>4 DEF Good, OneStep
<1>6. Ranks(s, OfRank(of), OfRank(of))
  <2>1. OfRank(of) \in OfRank(of) .. OfRank(of)
    BY RankType
  <2> QED BY <1>1, <2>1 DEF Ranks, OneStep
<1>7. Completes(s, of, nr)
  BY <1>1 DEF Completes, OneStep
<1> QED BY <1>5, <1>6, <1>7 DEF s

\* The constructor of an object, up to its end, is a good part of the construction.
LEMMA PartThenComplete ==
  ASSUME NEW of, NEW nr, Known(of, nr), NEW s, Part(s, of, nr)
  PROVE  /\ Good(s \o Complete(of, nr))
         /\ Ranks(s \o Complete(of, nr), OfRank(of), OfRank(of))
         /\ Completes(s \o Complete(of, nr), of, nr)
         /\ \A i \in 1 .. Len(s \o Complete(of, nr)) :
              (s \o Complete(of, nr))[i].of = of /\ (s \o Complete(of, nr))[i].nr = nr
<1> DEFINE t == Complete(of, nr)
           u == s \o t
<1>x. PICK x : OneStep(t, x, of, nr) /\ x.kind = "complete" /\ x.what = ""
  BY CompleteIs
<1>t. /\ t \in Seq(Steps) /\ Len(t) = 1 /\ 1 \in 1 .. Len(t) /\ StepOK(t[1])
      /\ t[1].kind = "complete" /\ t[1].of = of /\ t[1].nr = nr /\ t[1].what = ""
  BY <1>x DEF OneStep
<1>s. s \in Seq(Steps)
  BY DEF Part
<1>1. /\ Len(s) \in Nat /\ u \in Seq(Steps) /\ Len(u) = Len(s) + Len(t)
      /\ \A i \in 1 .. Len(s) : i \in 1 .. Len(u) /\ u[i] = s[i]
      /\ \A i \in 1 .. Len(t) : i + Len(s) \in 1 .. Len(u) /\ u[i + Len(s)] = t[i]
  BY <1>s, <1>t, Places
<1> HIDE DEF t, u
<1> DEFINE n == Len(u)
<1>2. /\ n = Len(s) + 1 /\ n \in 1 .. Len(u) /\ u[n] = t[1]
      /\ \A i \in 1 .. Len(u) : i # n => i \in 1 .. Len(s) /\ u[i] = s[i]
  <2>1. 1 + Len(s) = n /\ n = Len(s) + 1
    <3>1. Len(u) = Len(s) + Len(t) /\ Len(t) = 1 /\ Len(s) \in Nat
      BY <1>1, <1>t
    <3> QED BY <3>1
  <2>2. n \in 1 .. Len(u) /\ u[n] = t[1]
    BY <2>1, <1>1, <1>t
  <2>3. ASSUME NEW i \in 1 .. Len(u), i # n
        PROVE  i \in 1 .. Len(s)
    BY <2>1, <2>3, <1>1
  <2> QED BY <2>1, <2>2, <2>3, <1>1
<1>3. \A i \in 1 .. Len(u) : StepOK(u[i]) /\ u[i].of = of /\ u[i].nr = nr
  BY <1>2, <1>t DEF Part
<1>4. ASSUME NEW i \in 1 .. Len(u)
      PROVE  Soon(u, i)
  <2>1. i =< n
    BY <1>1
  <2>2. u[n].kind = "complete" /\ n \in 1 .. Len(u)
    BY <1>2, <1>t
  <2>3. \A l \in 1 .. Len(u) : SameObject(u[l], u[i])
    BY <1>3 DEF SameObject
  <2> HIDE DEF n
  <2> QED BY <2>1, <2>2, <2>3 DEF Soon
<1>5. ASSUME NEW i \in 1 .. Len(u), LastOfSource(u[i])
      PROVE  i + 1 \in 1 .. Len(u) /\ u[i + 1].kind = "complete"
  <2>1. i # n
    BY <1>5, <1>2, <1>t DEF LastOfSource
  <2>2. i \in 1 .. Len(s) /\ u[i] = s[i]
    BY <2>1, <1>2
  <2>3. i = Len(s)
    BY <2>2, <1>5 DEF Part
  <2> QED BY <2>3, <1>2, <1>t
<1>6. ASSUME NEW i \in 1 .. Len(u), NEW j \in 1 .. Len(u), i < j
      PROVE  Apart(u[i], u[j])
  <2>1. CASE j = n
    BY <2>1, <1>2, <1>t DEF Apart
  <2>2. CASE j # n
    <3>1. i # n
      BY <2>2, <1>1, <1>2, <1>6
    <3> QED BY <2>2, <3>1, <1>2, <1>6 DEF Part
  <2> QED BY <2>1, <2>2
<1>7. \A i, j \in 1 .. Len(u) : OfRank(u[i].of) =< OfRank(u[j].of)
  BY <1>3, RankType
<1>8. Good(u)
  BY <1>1, <1>3, <1>4, <1>5, <1>6, <1>7 DEF Good
<1>9. Ranks(u, OfRank(of), OfRank(of))
  BY <1>3, RankType DEF Ranks
<1>10. Completes(u, of, nr)
  BY <1>2, <1>t DEF Completes
<1> QED BY <1>3, <1>8, <1>9, <1>10 DEF u, t

\* Two parts of the work on one object, in an order in which nothing refers to what
\* comes later, make one.
LEMMA PartThenPart ==
  ASSUME NEW of, NEW nr, NEW s, NEW t, Part(s, of, nr), Part(t, of, nr),
         \A i \in 1 .. Len(s), j \in 1 .. Len(t) : Apart(s[i], t[j]),
         \A i \in 1 .. Len(s) : ~ LastOfSource(s[i])
  PROVE  Part(s \o t, of, nr)
<1> DEFINE u == s \o t
<1>0. s \in Seq(Steps) /\ t \in Seq(Steps)
  BY DEF Part
<1>1. /\ Len(s) \in Nat /\ Len(t) \in Nat /\ u \in Seq(Steps) /\ Len(u) = Len(s) + Len(t)
      /\ \A i \in 1 .. Len(s) : i \in 1 .. Len(u) /\ u[i] = s[i]
      /\ \A i \in 1 .. Len(t) : i + Len(s) \in 1 .. Len(u) /\ u[i + Len(s)] = t[i]
      /\ \A i \in 1 .. Len(u) :
           i \in 1 .. Len(s) \/ (i > Len(s) /\ i - Len(s) \in 1 .. Len(t)
                                 /\ (i - Len(s)) + Len(s) = i)
  BY <1>0, Places
<1> HIDE DEF u
<1>n. ASSUME NEW i \in 1 .. Len(u), i > Len(s)
      PROVE  i - Len(s) \in 1 .. Len(t) /\ u[i] = t[i - Len(s)]
  BY <1>n, <1>1
<1>2. ASSUME NEW i \in 1 .. Len(u)
      PROVE  /\ StepOK(u[i]) /\ u[i].kind # "complete" /\ u[i].of = of /\ u[i].nr = nr
             /\ LastOfSource(u[i]) => i = Len(u)
  <2>1. CASE i \in 1 .. Len(s)
    BY <2>1, <1>1 DEF Part
  <2>2. CASE i > Len(s)
    <3>1. i - Len(s) \in 1 .. Len(t) /\ u[i] = t[i - Len(s)]
      BY <2>2, <1>n
    <3>2. LastOfSource(u[i]) => i - Len(s) = Len(t)
      BY <3>1 DEF Part
    <3>3. LastOfSource(u[i]) => i = Len(u)
      BY <3>2, <1>1
    <3> QED BY <3>1, <3>3 DEF Part
  <2> QED BY <2>1, <2>2, <1>1
<1>3. ASSUME NEW i \in 1 .. Len(u), NEW j \in 1 .. Len(u), i < j
      PROVE  Apart(u[i], u[j])
  <2>1. CASE j \in 1 .. Len(s)
    <3>1. i \in 1 .. Len(s) /\ u[i] = s[i] /\ u[j] = s[j]
      BY <2>1, <1>1, <1>3
    <3> QED BY <2>1, <3>1, <1>3 DEF Part
  <2>2. CASE i \in 1 .. Len(s) /\ j > Len(s)
    BY <2>2, <1>n, <1>1
  <2>3. CASE i > Len(s)
    <3>0. j > Len(s)
      BY <2>3, <1>1, <1>3
    <3>1. i - Len(s) < j - Len(s)
      BY <1>1, <1>3
    <3> QED BY <2>3, <3>0, <3>1, <1>n DEF Part
  <2> QED BY <2>1, <2>2, <2>3, <1>1
<1>4. Part(u, of, nr)
  BY <1>1, <1>2, <1>3 DEF Part
<1> QED BY <1>4 DEF u

\* Within most objects nothing refers to anything.
LEMMA ApartWithin ==
  ASSUME NEW x, NEW y, StepOK(x), StepOK(y), x.of = y.of, x.of \notin {"session", "rawStore"}
  PROVE  Apart(x, y)
<1> SUFFICES ASSUME x.what # "", y.what # "", Refers(Granted(x), Granted(y)) PROVE FALSE
  BY DEF Apart
<1>1. Proper(Granted(x)) /\ Proper(Granted(y)) /\ Granted(x).of = x.of /\ Granted(y).of = y.of
  BY ProperGranted
<1>2. \/ OfRank(y.of) < OfRank(x.of)
      \/ Own(Granted(x), Granted(y)) \/ GivenStream(Granted(x), Granted(y))
  BY <1>1, RefersDown
<1>3. ~ Own(Granted(x), Granted(y)) /\ ~ GivenStream(Granted(x), Granted(y))
  BY <1>1 DEF Own, GivenStream
<1>4. ~ (OfRank(x.of) < OfRank(x.of))
  BY RankType, LessIsStrict, Zenon
<1> QED BY <1>2, <1>3, <1>4

\* One step of an object, not its completion, is part of the work on it.
LEMMA OnePart ==
  ASSUME NEW s, NEW x, NEW of, NEW nr, OneStep(s, x, of, nr), x.kind # "complete"
  PROVE  Part(s, of, nr) /\ \A i \in 1 .. Len(s) : s[i] = x
<1>1. \A i, j \in 1 .. Len(s) : ~ (i < j)
  BY DEF OneStep
<1> QED BY <1>1 DEF Part, OneStep

\* So is one request,
LEMMA AskPart ==
  ASSUME NEW of, NEW nr, Known(of, nr), NEW what \in Whats(of), NEW k \in Int
  PROVE  /\ Part(Ask(of, nr, what, k), of, nr)
         /\ \A i \in 1 .. Len(Ask(of, nr, what, k)) :
              Ask(of, nr, what, k)[i].what = what /\ Ask(of, nr, what, k)[i].k = k
<1> DEFINE s == Ask(of, nr, what, k)
<1>1. PICK x : OneStep(s, x, of, nr) /\ x.kind = "ask" /\ x.what = what /\ x.k = k
  BY AskIs
<1> HIDE DEF s
<1>2. Part(s, of, nr) /\ \A i \in 1 .. Len(s) : s[i].what = what /\ s[i].k = k
  BY <1>1, OnePart
<1> QED BY <1>2 DEF s

\* and one check.
LEMMA CheckPart ==
  ASSUME NEW of, NEW nr, Known(of, nr), NEW ok
  PROVE  /\ Part(Check(of, nr, ok), of, nr)
         /\ \A i \in 1 .. Len(Check(of, nr, ok)) : Check(of, nr, ok)[i].what = ""
<1> DEFINE s == Check(of, nr, ok)
<1>1. PICK x : OneStep(s, x, of, nr) /\ x.kind \in {"check", "fail"} /\ x.what = ""
  <2>1. Known(of, nr) \/ (of = "run" /\ nr = 0)
    OBVIOUS
  <2> QED BY <2>1, CheckIs
<1> HIDE DEF s
<1>2. Part(s, of, nr) /\ \A i \in 1 .. Len(s) : s[i].what = ""
  BY <1>1, OnePart
<1> QED BY <1>2 DEF s

\* A check that Run itself makes fits in anywhere.
LEMMA RunCheckGood ==
  ASSUME NEW ok
  PROVE  /\ Good(Check("run", 0, ok)) /\ Has(Check("run", 0, ok), Check("run", 0, ok)[1])
         /\ \A lo, hi : Ranks(Check("run", 0, ok), lo, hi)
<1> DEFINE s == Check("run", 0, ok)
<1>1. PICK x : OneStep(s, x, "run", 0) /\ x.kind \in {"check", "fail"} /\ x.what = ""
  BY CheckIs
<1> HIDE DEF s
<1>2. \A i, j \in 1 .. Len(s) : ~ (i < j)
  BY <1>1 DEF OneStep
<1>3. Good(s)
  BY <1>1, <1>2 DEF Good, OneStep, LastOfSource
<1>4. Has(s, s[1]) /\ \A lo, hi : Ranks(s, lo, hi)
  BY <1>1 DEF Has, OneStep, Ranks
<1> QED BY <1>3, <1>4 DEF s

-----------------------------------------------------------------------------
(* OrtSessionConfig, whose resources refer to each other. *)

\* ss are parts of the work on one object, and nothing refers to a later part.
PartsApart(ss, n, of, nr) ==
  /\ n \in Nat /\ DOMAIN ss = 1 .. n /\ Len(ss) = n /\ of # "source"
  /\ \A i \in 1 .. n : Part(ss[i], of, nr)
  /\ \A i, j \in 1 .. n : i < j =>
       \A a \in 1 .. Len(ss[i]), b \in 1 .. Len(ss[j]) : Apart(ss[i][a], ss[j][b])

\* s is part of the work on one object, and consists of steps of ss.
MadeOf(s, ss, n, of, nr) ==
  /\ Part(s, of, nr)
  /\ \A a \in 1 .. Len(s) : \E i \in 1 .. n : \E j \in 1 .. Len(ss[i]) : s[a] = ss[i][j]

\* A loop within a constructor is part of the work on the object, if no iteration
\* asks for what an earlier one refers to.
LEMMA FlattenParts ==
  ASSUME NEW of, NEW nr, NEW n, NEW ss, PartsApart(ss, n, of, nr)
  PROVE  MadeOf(FlattenSeq(ss), ss, n, of, nr)
<1>0. /\ n \in Nat /\ DOMAIN ss = 1 .. n /\ Len(ss) = n /\ of # "source"
      /\ \A i \in 1 .. n : Part(ss[i], of, nr)
      /\ \A i, j \in 1 .. n : i < j =>
           \A a \in 1 .. Len(ss[i]), b \in 1 .. Len(ss[j]) : Apart(ss[i][a], ss[j][b])
  BY DEF PartsApart
<1> DEFINE s == FlattenSeq(ss)
<1>1. \A i \in 1 .. n : ss[i] \in Seq(Steps)
  BY <1>0 DEF Part
<1>2. s \in Seq(Steps) /\ InBlocks(s, ss, n)
  BY <1>0, <1>1, FlattenBlocks
<1> HIDE DEF s
<1>3. PICK b, p : Laid(s, ss, n, b, p)
  BY <1>2 DEF InBlocks
<1>4. ASSUME NEW a \in 1 .. Len(s)
      PROVE  b[a] \in 1 .. n /\ p[a] \in 1 .. Len(ss[b[a]]) /\ s[a] = ss[b[a]][p[a]]
  BY <1>3 DEF Laid
<1>5. ASSUME NEW a \in 1 .. Len(s)
      PROVE  StepOK(s[a]) /\ s[a].kind # "complete" /\ s[a].of = of /\ s[a].nr = nr
             /\ ~ LastOfSource(s[a])
  <2>1. b[a] \in 1 .. n /\ p[a] \in 1 .. Len(ss[b[a]]) /\ s[a] = ss[b[a]][p[a]]
    BY <1>4
  <2>2. Part(ss[b[a]], of, nr)
    BY <1>0, <2>1
  <2> QED BY <1>0, <2>1, <2>2 DEF Part, LastOfSource
<1>6. ASSUME NEW a1 \in 1 .. Len(s), NEW a2 \in 1 .. Len(s), a1 < a2
      PROVE  Apart(s[a1], s[a2])
  <2>1. /\ b[a1] \in 1 .. n /\ p[a1] \in 1 .. Len(ss[b[a1]]) /\ s[a1] = ss[b[a1]][p[a1]]
        /\ b[a2] \in 1 .. n /\ p[a2] \in 1 .. Len(ss[b[a2]]) /\ s[a2] = ss[b[a2]][p[a2]]
    BY <1>4
  <2>2. b[a1] < b[a2] \/ (b[a1] = b[a2] /\ p[a1] < p[a2])
    BY <1>3, <1>6 DEF Laid
  <2>3. CASE b[a1] < b[a2]
    BY <1>0, <2>1, <2>3
  <2>4. CASE b[a1] = b[a2] /\ p[a1] < p[a2]
    <3>1. Part(ss[b[a1]], of, nr)
      BY <1>0, <2>1
    <3>2. p[a1] \in 1 .. Len(ss[b[a1]]) /\ p[a2] \in 1 .. Len(ss[b[a1]])
      BY <2>1, <2>4
    <3>3. Apart(ss[b[a1]][p[a1]], ss[b[a1]][p[a2]])
      BY <3>1, <3>2, <2>4 DEF Part
    <3> QED BY <3>3, <2>1, <2>4
  <2> QED BY <2>2, <2>3, <2>4
<1>7. Part(s, of, nr)
  BY <1>2, <1>5, <1>6 DEF Part
<1>8. \A a \in 1 .. Len(s) : \E i \in 1 .. n : \E j \in 1 .. Len(ss[i]) : s[a] = ss[i][j]
  BY <1>4
<1> QED BY <1>7, <1>8 DEF s, MadeOf

WRank(what) ==
  CASE what = "stream" -> 0 [] what = "session" -> 1 [] what = "binding" -> 2
    [] what = "event" -> 3 [] what = "device" -> 4 [] what = "tensors" -> 5 [] OTHER -> 6

\* The rank of a resource of a session is a number.
LEMMA WRankType == ASSUME NEW what PROVE WRank(what) \in 0 .. 6 /\ WRank(what) \in Int
<1>1. WRank(what) \in 0 .. 6
  BY DEF WRank
<1> QED BY <1>1

\* The order in which OrtSessionConfig asks for its resources
\* (OrtSession.cpp:145-157), but for the events.
LEMMA WRanks ==
  /\ WRank("stream") = 0 /\ WRank("session") = 1 /\ WRank("binding") = 2 /\ WRank("event") = 3
  /\ WRank("device") = 4 /\ WRank("tensors") = 5 /\ WRank("bound") = 6
BY DEF WRank

\* Some comparisons, for steps without arithmetic.
LEMMA Down ==
  ~ (5 =< 4) /\ ~ (6 =< 5) /\ ~ (6 =< 2) /\ ~ (2 =< 1) /\ \A a \in {1, 2} : ~ (a =< 0)
OBVIOUS

\* In that order nothing of a session refers to what comes later.
LEMMA ApartSession ==
  ASSUME NEW x, NEW y, StepOK(x), StepOK(y), x.of = "session", y.of = "session",
         x.nr = y.nr => WRank(x.what) =< WRank(y.what)
  PROVE  Apart(x, y)
<1> SUFFICES ASSUME x.what # "", y.what # "", Refers(Granted(x), Granted(y)) PROVE FALSE
  BY DEF Apart
<1> DEFINE r == Granted(x)
           s == Granted(y)
<1>1. /\ Proper(r) /\ Proper(s) /\ r.of = x.of /\ s.of = y.of
      /\ r.nr = x.nr /\ s.nr = y.nr /\ r.what = x.what /\ s.what = y.what
  BY ProperGranted
<1> HIDE DEF r, s
<1>2. OfRank(y.of) < OfRank(x.of) \/ Own(r, s) \/ GivenStream(r, s)
  BY <1>1, RefersDown DEF r, s
<1>3. Own(r, s) \/ GivenStream(r, s)
  <2>1. ~ (OfRank(x.of) < OfRank(x.of))
    BY RankType, LessIsStrict, Zenon
  <2> QED BY <1>2, <2>1
<1>4. x.nr = y.nr /\ ~ (WRank(x.what) =< WRank(y.what))
  <2>1. /\ x.nr = y.nr
        /\ \/ x.what = "tensors" /\ y.what = "device"
           \/ x.what = "bound" /\ y.what \in {"tensors", "binding"}
           \/ x.what = "binding" /\ y.what = "session"
           \/ x.what \in {"session", "binding"} /\ y.what = "stream"
    BY <1>1, <1>3 DEF Own, GivenStream
  <2>2. CASE x.what = "tensors" /\ y.what = "device"
    <3>1. WRank(x.what) = 5 /\ WRank(y.what) = 4
      BY <2>2, WRanks
    <3> QED BY <2>1, <3>1, Down, Zenon
  <2>3. CASE x.what = "bound" /\ y.what = "tensors"
    <3>1. WRank(x.what) = 6 /\ WRank(y.what) = 5
      BY <2>3, WRanks
    <3> QED BY <2>1, <3>1, Down, Zenon
  <2>4. CASE x.what = "bound" /\ y.what = "binding"
    <3>1. WRank(x.what) = 6 /\ WRank(y.what) = 2
      BY <2>4, WRanks
    <3> QED BY <2>1, <3>1, Down, Zenon
  <2>5. CASE x.what = "binding" /\ y.what = "session"
    <3>1. WRank(x.what) = 2 /\ WRank(y.what) = 1
      BY <2>5, WRanks
    <3> QED BY <2>1, <3>1, Down, Zenon
  <2>6. CASE x.what \in {"session", "binding"} /\ y.what = "stream"
    <3>1. WRank(x.what) \in {1, 2} /\ WRank(y.what) = 0
      BY <2>6, WRanks
    <3> QED BY <2>1, <3>1, Down, Zenon
  <2> QED BY <2>1, <2>2, <2>3, <2>4, <2>5, <2>6
<1> QED BY <1>4

\* What one session has asked for, up to a rank.
Upto(s, i, h) == /\ Part(s, "session", i)
                 /\ \A a \in 1 .. Len(s) : s[a].what # "" => WRank(s[a].what) =< h
AtRank(t, i, h) == /\ Part(t, "session", i)
                   /\ \A a \in 1 .. Len(t) : t[a].what # "" => WRank(t[a].what) = h

\* One more step of a session, in the order of the ranks.
LEMMA SessionThen ==
  ASSUME NEW s, NEW t, NEW i, NEW h \in Int, NEW h2 \in Int, h =< h2,
         Upto(s, i, h), AtRank(t, i, h2)
  PROVE  Upto(s \o t, i, h2)
<1>1. s \in Seq(Steps) /\ t \in Seq(Steps)
  BY DEF Upto, AtRank, Part
<1>2. ASSUME NEW a \in 1 .. Len(s), NEW b \in 1 .. Len(t)
      PROVE  Apart(s[a], t[b])
  <2>1. CASE s[a].what = "" \/ t[b].what = ""
    BY <2>1 DEF Apart
  <2>2. CASE s[a].what # "" /\ t[b].what # ""
    <3>1. WRank(s[a].what) =< h /\ WRank(t[b].what) = h2
      BY <2>2 DEF Upto, AtRank
    <3>2. WRank(s[a].what) =< WRank(t[b].what)
      BY <3>1, WRankType
    <3>3. StepOK(s[a]) /\ StepOK(t[b]) /\ s[a].of = "session" /\ t[b].of = "session"
      BY DEF Upto, AtRank, Part
    <3> QED BY <3>2, <3>3, ApartSession
  <2> QED BY <2>1, <2>2
<1>3. \A a \in 1 .. Len(s) : ~ LastOfSource(s[a])
  BY DEF Upto, Part, LastOfSource
<1>4. Part(s, "session", i) /\ Part(t, "session", i)
  BY DEF Upto, AtRank
<1>5. Part(s \o t, "session", i)
  BY <1>2, <1>3, <1>4, PartThenPart
<1>6. ASSUME NEW a \in 1 .. Len(s \o t), (s \o t)[a].what # ""
      PROVE  WRank((s \o t)[a].what) =< h2
  <2>1. CASE a \in 1 .. Len(s)
    <3>1. (s \o t)[a] = s[a]
      BY <2>1, <1>1, Places
    <3>2. WRank(s[a].what) =< h
      BY <2>1, <3>1, <1>6 DEF Upto
    <3> QED BY <3>1, <3>2, WRankType
  <2>2. CASE a > Len(s) /\ a - Len(s) \in 1 .. Len(t) /\ (a - Len(s)) + Len(s) = a
    <3>1. (s \o t)[a] = t[a - Len(s)]
      <4>1. \A j \in 1 .. Len(t) : (s \o t)[j + Len(s)] = t[j]
        BY <1>1, Places
      <4> QED BY <2>2, <4>1
    <3>2. WRank(t[a - Len(s)].what) = h2
      BY <2>2, <3>1, <1>6 DEF AtRank
    <3> QED BY <3>1, <3>2
  <2> QED BY <2>1, <2>2, <1>1, Places
<1> QED BY <1>5, <1>6 DEF Upto

\* A request is a step of its rank.
LEMMA SessionAsks ==
  ASSUME NEW i \in Int, NEW what \in Whats("session"), NEW k \in Int
  PROVE  AtRank(Ask("session", i, what, k), i, WRank(what))
<1>1. Known("session", i)
  BY DEF Known, Objects
<1> DEFINE s == Ask("session", i, what, k)
<1>2. Part(s, "session", i) /\ \A a \in 1 .. Len(s) : s[a].what = what
  BY <1>1, AskPart
<1> HIDE DEF s
<1>3. AtRank(s, i, WRank(what))
  BY <1>2 DEF AtRank
<1> QED BY <1>3 DEF s

\* A check is a step of any rank.
LEMMA SessionChecks ==
  ASSUME NEW i \in Int, NEW ok, NEW h
  PROVE  AtRank(Check("session", i, ok), i, h)
<1>1. Known("session", i)
  BY DEF Known, Objects
<1> QED BY <1>1, CheckPart DEF AtRank

\* The four events.
LEMMA EventsAsked ==
  ASSUME NEW i \in Int
  PROVE  AtRank(Each(4, LAMBDA k : Ask("session", i, "event", k)), i, 3)
<1> DEFINE ss == [k \in 1 .. 4 |-> Ask("session", i, "event", k)]
           s == FlattenSeq(ss)
<1>0. Known("session", i) /\ "event" \in Whats("session") /\ WRank("event") = 3
  BY DEF Known, Objects, Whats, WRank
<1>1. \A k \in 1 .. 4 : /\ Part(ss[k], "session", i)
                        /\ \A a \in 1 .. Len(ss[k]) : ss[k][a].what = "event"
  BY <1>0, AskPart
<1>2. DOMAIN ss = 1 .. 4 /\ Len(ss) = 4
  OBVIOUS
<1> HIDE DEF ss
<1>3. ASSUME NEW k \in 1 .. 4, NEW l \in 1 .. 4, NEW a \in 1 .. Len(ss[k]), NEW b \in 1 .. Len(ss[l])
      PROVE  Apart(ss[k][a], ss[l][b])
  <2>1. /\ StepOK(ss[k][a]) /\ StepOK(ss[l][b])
        /\ ss[k][a].of = "session" /\ ss[l][b].of = "session"
        /\ ss[k][a].what = "event" /\ ss[l][b].what = "event"
    BY <1>1 DEF Part
  <2>2. WRank(ss[k][a].what) =< WRank(ss[l][b].what)
    BY <2>1, <1>0
  <2> QED BY <2>1, <2>2, ApartSession
<1>4. /\ Part(s, "session", i)
      /\ \A a \in 1 .. Len(s) : \E k \in 1 .. 4 : \E j \in 1 .. Len(ss[k]) : s[a] = ss[k][j]
  <2>1. PartsApart(ss, 4, "session", i)
    BY <1>1, <1>2, <1>3 DEF PartsApart
  <2>2. MadeOf(s, ss, 4, "session", i)
    BY <2>1, FlattenParts
  <2> HIDE DEF s
  <2> QED BY <2>2 DEF MadeOf
<1> HIDE DEF s
<1>5. ASSUME NEW a \in 1 .. Len(s) PROVE s[a].what = "event"
  <2>1. PICK k \in 1 .. 4 : \E j \in 1 .. Len(ss[k]) : s[a] = ss[k][j]
    BY <1>4
  <2> QED BY <2>1, <1>1
<1>6. AtRank(s, i, 3)
  BY <1>0, <1>4, <1>5 DEF AtRank
<1>7. Each(4, LAMBDA k : Ask("session", i, "event", k)) = s
  BY DEF s, ss, Each
<1> QED BY <1>6, <1>7

\* OrtSessionConfig asks for what it builds on first.
LEMMA SessionGood ==
  ASSUME NEW c, NEW m, NEW i \in Int
  PROVE  \E s : Part(s, "session", i) /\ OrtSessionConfig(c, m, i) = s \o Complete("session", i)
<1> DEFINE a1 == Check("session", i, c.provider # 0)
           a2 == a1 \o Ask("session", i, "stream", 0)
           a3 == a2 \o Ask("session", i, "session", 0)
           a4 == a3 \o Ask("session", i, "binding", 0)
           a5 == a4 \o Check("session", i, ContractLoads(m))
           a6 == a5 \o Check("session", i, GeometryLoads(c, m))
           a7 == a6 \o Each(4, LAMBDA k : Ask("session", i, "event", k))
           a8 == a7 \o Ask("session", i, "device", 1)
           a9 == a8 \o Ask("session", i, "device", 2)
           a10 == a9 \o Ask("session", i, "device", 3)
           a11 == a10 \o Ask("session", i, "tensors", 0)
           a12 == a11 \o When(c.loopBatch1 = 0, Ask("session", i, "bound", 0))
<1>0. OrtSessionConfig(c, m, i) = a12 \o Complete("session", i)
  BY DEF OrtSessionConfig
<1>r. /\ WRank("stream") = 0 /\ WRank("session") = 1 /\ WRank("binding") = 2
      /\ WRank("device") = 4 /\ WRank("tensors") = 5 /\ WRank("bound") = 6
      /\ Whats("session") = {"bound", "tensors", "device", "event", "stream", "binding", "session"}
  BY DEF WRank, Whats
<1>1. Upto(a1, i, 0)
  <2>1. AtRank(a1, i, 0)
    BY SessionChecks
  <2> HIDE DEF a1
  <2>2. ASSUME NEW a \in 1 .. Len(a1), a1[a].what # "" PROVE WRank(a1[a].what) =< 0
    <3>1. WRank(a1[a].what) = 0
      BY <2>1, <2>2 DEF AtRank
    <3> QED BY <3>1
  <2> QED BY <2>1, <2>2 DEF AtRank, Upto
<1> HIDE DEF a1
<1>2. Upto(a2, i, 0)
  <2>1. AtRank(Ask("session", i, "stream", 0), i, 0)
    BY <1>r, SessionAsks
  <2> QED BY <1>1, <2>1, SessionThen
<1> HIDE DEF a2
<1>3. Upto(a3, i, 1)
  <2>1. AtRank(Ask("session", i, "session", 0), i, 1)
    BY <1>r, SessionAsks
  <2> QED BY <1>2, <2>1, SessionThen
<1> HIDE DEF a3
<1>4. Upto(a4, i, 2)
  <2>1. AtRank(Ask("session", i, "binding", 0), i, 2)
    BY <1>r, SessionAsks
  <2> QED BY <1>3, <2>1, SessionThen
<1> HIDE DEF a4
<1>5. Upto(a5, i, 2)
  <2>1. AtRank(Check("session", i, ContractLoads(m)), i, 2)
    BY SessionChecks
  <2> QED BY <1>4, <2>1, SessionThen
<1> HIDE DEF a5
<1>6. Upto(a6, i, 2)
  <2>1. AtRank(Check("session", i, GeometryLoads(c, m)), i, 2)
    BY SessionChecks
  <2> QED BY <1>5, <2>1, SessionThen
<1> HIDE DEF a6
<1>7. Upto(a7, i, 3)
  <2>1. AtRank(Each(4, LAMBDA k : Ask("session", i, "event", k)), i, 3)
    BY EventsAsked
  <2> QED BY <1>6, <2>1, SessionThen
<1> HIDE DEF a7
<1>8. Upto(a8, i, 4)
  <2>1. AtRank(Ask("session", i, "device", 1), i, 4)
    BY <1>r, SessionAsks
  <2> QED BY <1>7, <2>1, SessionThen
<1> HIDE DEF a8
<1>9. Upto(a9, i, 4)
  <2>1. AtRank(Ask("session", i, "device", 2), i, 4)
    BY <1>r, SessionAsks
  <2> QED BY <1>8, <2>1, SessionThen
<1> HIDE DEF a9
<1>10. Upto(a10, i, 4)
  <2>1. AtRank(Ask("session", i, "device", 3), i, 4)
    BY <1>r, SessionAsks
  <2> QED BY <1>9, <2>1, SessionThen
<1> HIDE DEF a10
<1>11. Upto(a11, i, 5)
  <2>1. AtRank(Ask("session", i, "tensors", 0), i, 5)
    BY <1>r, SessionAsks
  <2> QED BY <1>10, <2>1, SessionThen
<1> HIDE DEF a11
<1>12. Upto(a12, i, 6)
  <2>1. AtRank(When(c.loopBatch1 = 0, Ask("session", i, "bound", 0)), i, 6)
    <3>1. AtRank(Ask("session", i, "bound", 0), i, 6)
      BY <1>r, SessionAsks
    <3>2. AtRank(<<>>, i, 6)
      BY EmptySeq DEF AtRank, Part
    <3> QED BY <3>1, <3>2 DEF When
  <2> QED BY <1>11, <2>1, SessionThen
<1> HIDE DEF a12
<1> QED BY <1>0, <1>12 DEF Upto

-----------------------------------------------------------------------------
(* The other objects. *)

\* An object whose resources do not refer to each other.
Plain(of) == of \in Objects \ {"session", "rawStore"}

\* The parts of such an object may come in any order.
LEMMA PlainThen ==
  ASSUME NEW of, Plain(of), NEW s, NEW t, Part(s, of, 0), Part(t, of, 0),
         \A i \in 1 .. Len(s) : ~ LastOfSource(s[i])
  PROVE  Part(s \o t, of, 0)
<1>1. ASSUME NEW i \in 1 .. Len(s), NEW j \in 1 .. Len(t)
      PROVE  Apart(s[i], t[j])
  <2>1. StepOK(s[i]) /\ StepOK(t[j]) /\ s[i].of = of /\ t[j].of = of
    BY DEF Part
  <2> QED BY <2>1, ApartWithin DEF Plain
<1> QED BY <1>1, PartThenPart

\* A loop over such parts.
LEMMA PlainEach ==
  ASSUME NEW of, Plain(of), of # "source", NEW n \in Nat, NEW ss, DOMAIN ss = 1 .. n,
         Len(ss) = n, \A i \in 1 .. n : Part(ss[i], of, 0)
  PROVE  Part(FlattenSeq(ss), of, 0)
<1>1. ASSUME NEW i \in 1 .. n, NEW j \in 1 .. n,
             NEW a \in 1 .. Len(ss[i]), NEW b \in 1 .. Len(ss[j])
      PROVE  Apart(ss[i][a], ss[j][b])
  <2>1. StepOK(ss[i][a]) /\ StepOK(ss[j][b]) /\ ss[i][a].of = of /\ ss[j][b].of = of
    BY DEF Part
  <2> QED BY <2>1, ApartWithin DEF Plain
<1>2. PartsApart(ss, n, of, 0)
  BY <1>1 DEF PartsApart
<1>3. MadeOf(FlattenSeq(ss), ss, n, of, 0)
  BY <1>2, FlattenParts
<1> QED BY <1>3 DEF MadeOf

\* Only MmfFrameSource has a last resource that its handlers do not give back.
LEMMA NotLast ==
  ASSUME NEW of, NEW nr, NEW s, Part(s, of, nr), of # "source"
  PROVE  \A i \in 1 .. Len(s) : ~ LastOfSource(s[i])
BY DEF Part, LastOfSource

\* A request of such an object.
LEMMA PlainAsks ==
  ASSUME NEW of, Plain(of), NEW what \in Whats(of), NEW k \in Int
  PROVE  Part(Ask(of, 0, what, k), of, 0)
<1>1. Known(of, 0)
  BY DEF Known, Plain
<1> QED BY <1>1, AskPart

\* One request more.
LEMMA PlainThenAsk ==
  ASSUME NEW of, Plain(of), of # "source", NEW what \in Whats(of), NEW k \in Int,
         NEW s, Part(s, of, 0)
  PROVE  Part(s \o Ask(of, 0, what, k), of, 0)
<1>1. Part(Ask(of, 0, what, k), of, 0)
  BY PlainAsks
<1>2. \A i \in 1 .. Len(s) : ~ LastOfSource(s[i])
  BY NotLast
<1> QED BY <1>1, <1>2, PlainThen

\* All of an object.
Work(s, of) == /\ Good(s) /\ Ranks(s, OfRank(of), OfRank(of))
               /\ Completes(s, of, 0)

\* The work on an object and then its completion.
LEMMA WorkIs ==
  ASSUME NEW of \in Objects, NEW s, Part(s, of, 0)
  PROVE  Work(s \o Complete(of, 0), of)
<1>1. Known(of, 0)
  BY DEF Known
<1> QED BY <1>1, PartThenComplete DEF Work

\* An object with a single resource: the rings, the environment.
LEMMA WholeIs ==
  ASSUME NEW of, Plain(of), NEW what \in Whats(of)
  PROVE  Work(Whole(of, what), of)
<1>1. Part(Ask(of, 0, what, 0), of, 0)
  BY PlainAsks
<1> QED BY <1>1, WorkIs DEF Whole, Plain

\* A request that may be refused.
LEMMA RequestPart ==
  ASSUME NEW w \in Whats("rtScope")
  PROVE  Part(Step1("request", "rtScope", 0, w, 0), "rtScope", 0)
<1> DEFINE s == Step1("request", "rtScope", 0, w, 0)
           x == [kind |-> "request", of |-> "rtScope", nr |-> 0, what |-> w, k |-> 0]
<1>1. "rtScope" \in Objects
  BY DEF Objects
<1>2. w \in AllWhats /\ w # ""
  BY <1>1 DEF AllWhats, Whats
<1>3. x \in Steps
  <2>1. "rtScope" \in Objects \cup {"run"} /\ w \in {""} \cup AllWhats /\ "request" \in Kinds
    BY <1>1, <1>2 DEF Kinds
  <2>2. 0 \in Int
    OBVIOUS
  <2> QED BY <2>1, <2>2, Zenon DEF Steps
<1>4. StepOK(x) /\ x.kind # "complete" /\ x.of = "rtScope" /\ x.nr = 0
  BY <1>1, <1>3 DEF StepOK, Proper
<1>5. s = <<x>>
  BY DEF Step1
<1> HIDE DEF x, s
<1>6. OneStep(s, x, "rtScope", 0)
  BY <1>4, <1>5, OneStepIs
<1>7. Part(s, "rtScope", 0)
  BY <1>4, <1>6, OnePart
<1> QED BY <1>7 DEF s

\* RealTimeScope (its steps may be refused, not thrown at).
LEMMA ScopeIs == Work(RealTimeScope, "rtScope")
<1> DEFINE s == Step1("request", "rtScope", 0, "class", 0)
           t == Step1("request", "rtScope", 0, "timer", 0)
<1>1. "class" \in Whats("rtScope") /\ "timer" \in Whats("rtScope")
  BY DEF Whats
<1>2. Plain("rtScope") /\ "rtScope" # "source"
  BY DEF Plain, Objects
<1>3. RealTimeScope = (s \o t) \o Complete("rtScope", 0)
  BY DEF RealTimeScope
<1>4. Part(s, "rtScope", 0) /\ Part(t, "rtScope", 0)
  BY <1>1, RequestPart
<1> HIDE DEF s, t
<1>5. \A i \in 1 .. Len(s) : ~ LastOfSource(s[i])
  BY <1>2, <1>4, NotLast
<1>6. Part(s \o t, "rtScope", 0)
  BY <1>2, <1>4, <1>5, PlainThen
<1> QED BY <1>2, <1>3, <1>6, WorkIs DEF Plain

\* RawFrameStore: the patches of a frame after the strip they point into.
LEMMA RawFramesIs ==
  ASSUME NEW c, c.rawFrames \in Nat
  PROVE  Work(RawFrameStore(c), "rawStore")
<1> DEFINE n == c.rawFrames
           ss == [k \in 1 .. n |-> Ask("rawStore", 0, "strip", k) \o Ask("rawStore", 0, "patches", k)]
<1>0. Known("rawStore", 0) /\ "strip" \in Whats("rawStore") /\ "patches" \in Whats("rawStore")
  BY DEF Known, Objects, Whats
<1>1. ASSUME NEW k \in 1 .. n
      PROVE  Part(ss[k], "rawStore", 0) /\ \A a \in 1 .. Len(ss[k]) : ss[k][a].k = k
  <2> DEFINE s == Ask("rawStore", 0, "strip", k)
             t == Ask("rawStore", 0, "patches", k)
  <2>1. /\ Part(s, "rawStore", 0) /\ Part(t, "rawStore", 0)
        /\ \A a \in 1 .. Len(s) : s[a].what = "strip" /\ s[a].k = k
        /\ \A a \in 1 .. Len(t) : t[a].what = "patches" /\ t[a].k = k
    BY <1>0, AskPart
  <2>2. ss[k] = s \o t
    OBVIOUS
  <2> HIDE DEF s, t, ss
  <2>3. ASSUME NEW a \in 1 .. Len(s), NEW b \in 1 .. Len(t)
        PROVE  Apart(s[a], t[b])
    <3>1. /\ s[a].what = "strip" /\ t[b].what = "patches" /\ StepOK(s[a]) /\ StepOK(t[b])
          /\ s[a].of = "rawStore" /\ t[b].of = "rawStore"
      BY <2>1 DEF Part
    <3> QED BY <3>1, ProperGranted DEF Apart, Refers, GivenStream
  <2>4. \A a \in 1 .. Len(s) : ~ LastOfSource(s[a])
    BY <2>1 DEF LastOfSource
  <2>5. Part(s \o t, "rawStore", 0)
    BY <2>1, <2>3, <2>4, PartThenPart
  <2>6. ASSUME NEW a \in 1 .. Len(s \o t) PROVE (s \o t)[a].k = k
    <3>1. s \in Seq(Steps) /\ t \in Seq(Steps)
      BY <2>1 DEF Part
    <3>2. CASE a \in 1 .. Len(s)
      BY <3>1, <3>2, <2>1, Places
    <3>3. CASE a - Len(s) \in 1 .. Len(t) /\ (a - Len(s)) + Len(s) = a
      <4>1. \A j \in 1 .. Len(t) : (s \o t)[j + Len(s)] = t[j]
        BY <3>1, Places
      <4>2. (s \o t)[a] = t[a - Len(s)]
        BY <3>3, <4>1
      <4> QED BY <3>3, <4>2, <2>1
    <3> QED BY <3>1, <3>2, <3>3, Places
  <2> QED BY <2>2, <2>5, <2>6
<1>2. DOMAIN ss = 1 .. n /\ Len(ss) = n
  OBVIOUS
<1>3. RawFrameStore(c) = FlattenSeq(ss) \o Complete("rawStore", 0)
  BY DEF RawFrameStore, Each
<1> HIDE DEF ss
<1>4. ASSUME NEW i \in 1 .. n, NEW j \in 1 .. n, i < j,
             NEW a \in 1 .. Len(ss[i]), NEW b \in 1 .. Len(ss[j])
      PROVE  Apart(ss[i][a], ss[j][b])
  <2>1. /\ StepOK(ss[i][a]) /\ StepOK(ss[j][b])
        /\ ss[i][a].of = "rawStore" /\ ss[j][b].of = "rawStore"
        /\ ss[i][a].k = i /\ ss[j][b].k = j
    BY <1>1 DEF Part
  <2>2. i # j
    BY <1>4
  <2> HIDE DEF n
  <2> SUFFICES ASSUME ss[i][a].what # "", ss[j][b].what # "",
                      Refers(Granted(ss[i][a]), Granted(ss[j][b]))
               PROVE  FALSE
    BY DEF Apart
  <2>3. /\ Granted(ss[i][a]).of = "rawStore" /\ Granted(ss[j][b]).of = "rawStore"
        /\ Granted(ss[i][a]).k = i /\ Granted(ss[j][b]).k = j
        /\ Proper(Granted(ss[i][a])) /\ Proper(Granted(ss[j][b]))
    BY <2>1, ProperGranted
  <2>4. \/ OfRank("rawStore") < OfRank("rawStore")
        \/ Own(Granted(ss[i][a]), Granted(ss[j][b]))
        \/ GivenStream(Granted(ss[i][a]), Granted(ss[j][b]))
    BY <2>3, RefersDown
  <2>5. ~ (OfRank("rawStore") < OfRank("rawStore"))
    BY RankType, LessIsStrict, Zenon
  <2> QED BY <2>2, <2>3, <2>4, <2>5 DEF Own, GivenStream
<1>5. PartsApart(ss, n, "rawStore", 0)
  BY <1>1, <1>2, <1>4 DEF PartsApart
<1>6. MadeOf(FlattenSeq(ss), ss, n, "rawStore", 0)
  BY <1>5, FlattenParts
<1>7. Part(FlattenSeq(ss), "rawStore", 0) /\ "rawStore" \in Objects
  BY <1>0, <1>6 DEF MadeOf, Known
<1> QED BY <1>3, <1>7, WorkIs

\* SlotStore, with or without masks.
LEMMA SlotsIs ==
  ASSUME NEW c, c.slots \in Nat
  PROVE  Work(SlotStore(c), "slotStore")
<1> DEFINE n == c.slots
           a1(k) == Ask("slotStore", 0, "pinned", 3 * k - 2)
           a2(k) == a1(k) \o Ask("slotStore", 0, "pinned", 3 * k - 1)
           a3(k) == a2(k) \o Ask("slotStore", 0, "pinned", 3 * k)
           a4(k) == a3(k) \o Ask("slotStore", 0, "host", 2 * k - 1)
           a5(k) == a4(k) \o When(c.drawMask # 0, Ask("slotStore", 0, "host", 2 * k))
           ss == [k \in 1 .. n |-> a5(k)]
<1>0. /\ Plain("slotStore") /\ "slotStore" # "source" /\ "slotStore" \in Objects
      /\ "pinned" \in Whats("slotStore") /\ "host" \in Whats("slotStore")
  BY DEF Plain, Objects, Whats
<1>1. ASSUME NEW k \in 1 .. n
      PROVE  Part(a5(k), "slotStore", 0)
  <2>0. /\ 3 * k - 2 \in Int /\ 3 * k - 1 \in Int /\ 3 * k \in Int
        /\ 2 * k - 1 \in Int /\ 2 * k \in Int
    OBVIOUS
  <2>1. Part(a1(k), "slotStore", 0)
    BY <1>0, <2>0, PlainAsks
  <2> HIDE DEF a1
  <2>2. Part(a2(k), "slotStore", 0)
    BY <1>0, <2>0, <2>1, PlainThenAsk
  <2> HIDE DEF a2
  <2>3. Part(a3(k), "slotStore", 0)
    BY <1>0, <2>0, <2>2, PlainThenAsk
  <2> HIDE DEF a3
  <2>4. Part(a4(k), "slotStore", 0)
    BY <1>0, <2>0, <2>3, PlainThenAsk
  <2> HIDE DEF a4
  <2>5. CASE c.drawMask # 0
    <3>1. a5(k) = a4(k) \o Ask("slotStore", 0, "host", 2 * k)
      BY <2>5 DEF When
    <3> HIDE DEF a5
    <3> QED BY <3>1, <1>0, <2>0, <2>4, PlainThenAsk
  <2>6. CASE c.drawMask = 0
    <3>1. a5(k) = a4(k) \o <<>>
      BY <2>6 DEF When
    <3>2. a4(k) \in Seq(Steps)
      BY <2>4 DEF Part
    <3>3. a4(k) \o <<>> = a4(k)
      BY <3>2, ConcatEmptySeq
    <3> HIDE DEF a5
    <3> QED BY <3>1, <3>3, <2>4
  <2> QED BY <2>5, <2>6
<1>2. DOMAIN ss = 1 .. n /\ Len(ss) = n /\ \A k \in 1 .. n : Part(ss[k], "slotStore", 0)
  BY <1>1
<1>3. SlotStore(c) = FlattenSeq(ss) \o Complete("slotStore", 0)
  BY DEF SlotStore, Each
<1> HIDE DEF ss
<1>4. Part(FlattenSeq(ss), "slotStore", 0)
  BY <1>0, <1>2, PlainEach
<1> QED BY <1>0, <1>3, <1>4, WorkIs

\* MmfFrameSource: its event comes last.
LEMMA SourceIs == Work(MmfFrameSource, "source")
<1> DEFINE a1 == Ask("source", 0, "mapping", 0)
           b2 == Ask("source", 0, "view", 0)
           b3 == Check("source", 0, TRUE)
           b4 == Ask("source", 0, "event", 0)
<1>0. /\ Plain("source") /\ Known("source", 0) /\ "source" \in Objects
      /\ "mapping" \in Whats("source") /\ "view" \in Whats("source") /\ "event" \in Whats("source")
  BY DEF Plain, Known, Objects, Whats
<1>1. MmfFrameSource = (((a1 \o b2) \o b3) \o b4) \o Complete("source", 0)
  BY DEF MmfFrameSource
<1>a. Part(a1, "source", 0) /\ \A i \in 1 .. Len(a1) : a1[i].what = "mapping"
  BY <1>0, AskPart
<1>b. Part(b2, "source", 0) /\ \A i \in 1 .. Len(b2) : b2[i].what = "view"
  BY <1>0, AskPart
<1>c. Part(b3, "source", 0) /\ \A i \in 1 .. Len(b3) : b3[i].what = ""
  BY <1>0, CheckPart
<1>d. Part(b4, "source", 0)
  BY <1>0, AskPart
<1> HIDE DEF a1, b2, b3, b4
<1>2. /\ Part(a1, "source", 0) /\ \A i \in 1 .. Len(a1) : a1[i].what = "mapping"
      /\ Part(b2, "source", 0) /\ \A i \in 1 .. Len(b2) : b2[i].what = "view"
      /\ Part(b3, "source", 0) /\ \A i \in 1 .. Len(b3) : b3[i].what = ""
      /\ Part(b4, "source", 0)
  BY <1>a, <1>b, <1>c, <1>d
<1>3. /\ a1 \in Seq(Steps) /\ b2 \in Seq(Steps) /\ b3 \in Seq(Steps)
      /\ \A i \in 1 .. Len(a1) : ~ LastOfSource(a1[i])
      /\ \A i \in 1 .. Len(b2) : ~ LastOfSource(b2[i])
      /\ \A i \in 1 .. Len(b3) : ~ LastOfSource(b3[i])
  BY <1>2 DEF LastOfSource, Part
<1>4. ASSUME NEW s \in Seq(Steps), NEW t \in Seq(Steps),
             \A i \in 1 .. Len(s) : ~ LastOfSource(s[i]),
             \A i \in 1 .. Len(t) : ~ LastOfSource(t[i])
      PROVE  s \o t \in Seq(Steps) /\ \A i \in 1 .. Len(s \o t) : ~ LastOfSource((s \o t)[i])
  <2>1. ASSUME NEW i \in 1 .. Len(s \o t) PROVE ~ LastOfSource((s \o t)[i])
    <3>1. CASE i \in 1 .. Len(s)
      BY <3>1, <1>4, Places
    <3>2. CASE i - Len(s) \in 1 .. Len(t) /\ (i - Len(s)) + Len(s) = i
      <4>1. \A j \in 1 .. Len(t) : (s \o t)[j + Len(s)] = t[j]
        BY Places
      <4>2. (s \o t)[i] = t[i - Len(s)]
        BY <3>2, <4>1
      <4> QED BY <3>2, <4>2, <1>4
    <3> QED BY <3>1, <3>2, Places
  <2> QED BY <2>1, Places
<1>5. Part(a1 \o b2, "source", 0)
  BY <1>0, <1>2, <1>3, PlainThen
<1>6. a1 \o b2 \in Seq(Steps) /\ \A i \in 1 .. Len(a1 \o b2) : ~ LastOfSource((a1 \o b2)[i])
  BY <1>3, <1>4
<1> DEFINE a2 == a1 \o b2
<1> HIDE DEF a2
<1>7. Part(a2 \o b3, "source", 0)
  BY <1>0, <1>2, <1>5, <1>6, PlainThen DEF a2
<1>8. \A i \in 1 .. Len(a2 \o b3) : ~ LastOfSource((a2 \o b3)[i])
  BY <1>3, <1>4, <1>6 DEF a2
<1> DEFINE a3 == a2 \o b3
<1> HIDE DEF a3
<1>9. Part(a3 \o b4, "source", 0)
  BY <1>0, <1>2, <1>7, <1>8, PlainThen DEF a3
<1> QED BY <1>0, <1>1, <1>9, WorkIs DEF a2, a3

\* ConsoleKeys.
LEMMA KeysIs == Work(Check("keys", 0, TRUE) \o Ask("keys", 0, "mode", 0) \o Complete("keys", 0), "keys")
<1>0. Plain("keys") /\ Known("keys", 0) /\ "keys" \in Objects /\ "keys" # "source"
      /\ "mode" \in Whats("keys")
  BY DEF Plain, Known, Objects, Whats
<1> DEFINE s == Check("keys", 0, TRUE)
<1>1. Part(s, "keys", 0)
  BY <1>0, CheckPart
<1> HIDE DEF s
<1>2. Part(s \o Ask("keys", 0, "mode", 0), "keys", 0)
  BY <1>0, <1>1, PlainThenAsk
<1>3. Work(s \o Ask("keys", 0, "mode", 0) \o Complete("keys", 0), "keys")
  BY <1>0, <1>2, WorkIs
<1> QED BY <1>3 DEF s

-----------------------------------------------------------------------------
(* The sessions, one for each inference thread. *)

SessionBlock(s, i) == /\ Good(s) /\ Completes(s, "session", i)
                      /\ \A a \in 1 .. Len(s) : s[a].of = "session" /\ s[a].nr = i

\* One session: its constructor asks for what it builds on first and then is complete.
LEMMA SessionIs ==
  ASSUME NEW c, NEW m, NEW i \in Int
  PROVE  SessionBlock(OrtSessionConfig(c, m, i), i)
<1>1. PICK s : Part(s, "session", i) /\ OrtSessionConfig(c, m, i) = s \o Complete("session", i)
  BY SessionGood
<1>2. Known("session", i)
  BY DEF Known, Objects
<1> QED BY <1>1, <1>2, PartThenComplete DEF SessionBlock

Sessions(s, m) ==
  /\ Good(s)
  /\ \A a \in 1 .. Len(s) : s[a].of = "session" /\ s[a].nr \in 1 .. m
  /\ \A i \in 1 .. m : Completes(s, "session", i)

\* One session more.
LEMMA SessionsThen ==
  ASSUME NEW s, NEW t, NEW m \in Nat, Sessions(s, m), SessionBlock(t, m + 1)
  PROVE  Sessions(s \o t, m + 1)
<1>1. s \in Seq(Steps) /\ t \in Seq(Steps)
  BY DEF Sessions, SessionBlock, Good
<1>2. ASSUME NEW i \in 1 .. Len(s), NEW j \in 1 .. Len(t)
      PROVE  /\ Apart(s[i], t[j])
             /\ s[i].of # "run" /\ t[j].of # "run" => OfRank(s[i].of) =< OfRank(t[j].of)
  <2>1. /\ s[i].of = "session" /\ s[i].nr \in 1 .. m /\ StepOK(s[i])
        /\ t[j].of = "session" /\ t[j].nr = m + 1 /\ StepOK(t[j])
    BY DEF Sessions, SessionBlock, Good
  <2>2. s[i].nr # t[j].nr
    BY <2>1
  <2>3. Apart(s[i], t[j])
    BY <2>1, <2>2, ApartSession
  <2>4. OfRank("session") =< OfRank("session")
    BY DEF OfRank
  <2> QED BY <2>1, <2>3, <2>4
<1>3. Good(s \o t)
  <2>1. Across(s, t)
    BY <1>2 DEF Across
  <2>2. Good(s) /\ Good(t)
    BY DEF Sessions, SessionBlock
  <2> QED BY <2>1, <2>2, GoodThenGood
<1>4. ASSUME NEW a \in 1 .. Len(s \o t)
      PROVE  (s \o t)[a].of = "session" /\ (s \o t)[a].nr \in 1 .. m + 1
  <2>1. CASE a \in 1 .. Len(s)
    <3>1. (s \o t)[a] = s[a]
      BY <2>1, <1>1, Places
    <3> QED BY <2>1, <3>1 DEF Sessions
  <2>2. CASE a - Len(s) \in 1 .. Len(t) /\ (a - Len(s)) + Len(s) = a
    <3>1. \A j \in 1 .. Len(t) : (s \o t)[j + Len(s)] = t[j]
      BY <1>1, Places
    <3>2. (s \o t)[a] = t[a - Len(s)]
      BY <2>2, <3>1
    <3> QED BY <2>2, <3>2 DEF SessionBlock
  <2> QED BY <2>1, <2>2, <1>1, Places
<1>5. \A i \in 1 .. m + 1 : Completes(s \o t, "session", i)
  <2>1. \A of, nr : Completes(s, of, nr) \/ Completes(t, of, nr) => Completes(s \o t, of, nr)
    BY <1>1, Joins DEF HasJoins
  <2>2. \A i \in 1 .. m + 1 : i \in 1 .. m \/ i = m + 1
    OBVIOUS
  <2>3. \A i \in 1 .. m : Completes(s, "session", i)
    BY DEF Sessions
  <2>4. Completes(t, "session", m + 1)
    BY DEF SessionBlock
  <2> QED BY <2>1, <2>2, <2>3, <2>4
<1> QED BY <1>3, <1>4, <1>5 DEF Sessions

\* What Run asks for the sessions.
AllSessions(c, m, n) == FlattenSeq([i \in 1 .. n |-> OrtSessionConfig(c, m, i)])

\* All sessions.
LEMMA SessionsAre ==
  ASSUME NEW c, NEW m, NEW n \in Nat \ {0}
  PROVE  Sessions(AllSessions(c, m, n), n)
<1> DEFINE ss == [i \in 1 .. n |-> OrtSessionConfig(c, m, i)]
<1>1. \A i \in 1 .. n : SessionBlock(ss[i], i)
  <2>1. \A i \in 1 .. n : i \in Int /\ ss[i] = OrtSessionConfig(c, m, i)
    OBVIOUS
  <2> HIDE DEF ss
  <2> QED BY <2>1, SessionIs
<1>2. Len(ss) = n
  OBVIOUS
<1>3. AllSessions(c, m, n) = FlattenSeq(ss)
  BY DEF AllSessions
<1> HIDE DEF ss
<1>4. PICK f : Joined(ss, n, f) /\ FlattenSeq(ss) = f[n]
  BY <1>2, FlattenIsJoined
<1>5. \A i \in 1 .. n : f[i] = IF i = 1 THEN ss[i] ELSE f[i - 1] \o ss[i]
  BY <1>4 DEF Joined
<1> DEFINE S == {k \in Nat : k + 1 =< n => Sessions(f[k + 1], k + 1)}
<1>6. 0 \in S
  <2>1. f[1] = ss[1] /\ 0 + 1 = 1 /\ 1 \in 1 .. n
    BY <1>5
  <2>2. SessionBlock(f[1], 1)
    BY <2>1, <1>1
  <2>3. \A i \in 1 .. 1 : i = 1
    OBVIOUS
  <2>4. 1 \in 1 .. 1
    OBVIOUS
  <2>5. Sessions(f[1], 1)
    BY <2>2, <2>3, <2>4 DEF Sessions, SessionBlock
  <2> QED BY <2>5
<1>7. ASSUME NEW k \in Nat, k \in S
      PROVE  k + 1 \in S
  <2> SUFFICES ASSUME (k + 1) + 1 =< n
               PROVE  Sessions(f[(k + 1) + 1], (k + 1) + 1)
    OBVIOUS
  <2>1. (k + 1) + 1 \in 1 .. n /\ (k + 1) + 1 # 1 /\ ((k + 1) + 1) - 1 = k + 1 /\ k + 1 =< n
    OBVIOUS
  <2>2. Sessions(f[k + 1], k + 1)
    BY <1>7, <2>1
  <2>3. f[(k + 1) + 1] = f[k + 1] \o ss[(k + 1) + 1]
    BY <2>1, <1>5
  <2>4. SessionBlock(ss[(k + 1) + 1], (k + 1) + 1)
    BY <2>1, <1>1
  <2> QED BY <2>2, <2>3, <2>4, SessionsThen
<1> HIDE DEF S
<1>8. Nat \subseteq S
  BY <1>6, <1>7, SetInduction
<1>9. n - 1 \in S /\ (n - 1) + 1 = n
  BY <1>8
<1>10. Sessions(f[n], n)
  BY <1>9 DEF S
<1> QED BY <1>3, <1>4, <1>10

-----------------------------------------------------------------------------
(* Warmup, the threads, and the stages of the construction. *)

\* A step of Warmup.
Warming(x, n) == /\ StepOK(x) /\ x.of = "session" /\ x.nr \in 1 .. n
                 /\ x.kind # "complete" /\ x.what \in {"", "bound"}

\* Warmup asks a session for its other binding at most.
LEMMA WarmupSteps ==
  ASSUME NEW c, NEW n \in Nat, NEW i \in 1 .. n
  PROVE  /\ Warmup(c, i) \in Seq(Steps)
         /\ \A a \in 1 .. Len(Warmup(c, i)) : Warming(Warmup(c, i)[a], n)
<1>0. Known("session", i) /\ "bound" \in Whats("session") /\ i \in Int
  BY DEF Known, Objects, Whats
<1>1. CASE c.warmupRuns =< 0
  <2>1. Warmup(c, i) = <<>>
    BY <1>1 DEF Warmup
  <2> QED BY <2>1, EmptySeq
<1>2. CASE ~ (c.warmupRuns =< 0)
  <2> DEFINE b == Ask("session", i, "bound", 0)
             s == When(c.loopBatch1 # 0, b)
             t == Check("session", i, TRUE)
  <2>1. Warmup(c, i) = s \o t
    BY <1>2 DEF Warmup
  <2>2. Part(b, "session", i) /\ \A a \in 1 .. Len(b) : b[a].what = "bound"
    BY <1>0, AskPart
  <2>3. Part(t, "session", i) /\ \A a \in 1 .. Len(t) : t[a].what = ""
    BY <1>0, CheckPart
  <2>4. s = b \/ s = <<>>
    BY DEF When
  <2> HIDE DEF s, t, b
  <2>5. s \in Seq(Steps) /\ \A a \in 1 .. Len(s) : Warming(s[a], n)
    <3>1. CASE s = b
      BY <3>1, <2>2 DEF Part, Warming
    <3>2. CASE s = <<>>
      BY <3>2, EmptySeq
    <3> QED BY <2>4, <3>1, <3>2
  <2>6. t \in Seq(Steps) /\ \A a \in 1 .. Len(t) : Warming(t[a], n)
    BY <2>3 DEF Part, Warming
  <2>7. ASSUME NEW a \in 1 .. Len(s \o t) PROVE Warming((s \o t)[a], n)
    <3>1. CASE a \in 1 .. Len(s)
      BY <3>1, <2>5, <2>6, Places
    <3>2. CASE a - Len(s) \in 1 .. Len(t) /\ (a - Len(s)) + Len(s) = a
      <4>1. \A j \in 1 .. Len(t) : (s \o t)[j + Len(s)] = t[j]
        BY <2>5, <2>6, Places
      <4>2. (s \o t)[a] = t[a - Len(s)]
        BY <3>2, <4>1
      <4> QED BY <3>2, <4>2, <2>6
    <3> QED BY <3>1, <3>2, <2>5, <2>6, Places
  <2>8. s \o t \in Seq(Steps)
    BY <2>5, <2>6, Places
  <2> QED BY <2>1, <2>7, <2>8
<1> QED BY <1>1, <1>2

\* The warm-up of every session.
AllWarmups(c, n) == FlattenSeq([i \in 1 .. n |-> Warmup(c, i)])

\* So does the warm-up of all.
LEMMA WarmupsAre ==
  ASSUME NEW c, NEW n \in Nat
  PROVE  /\ AllWarmups(c, n) \in Seq(Steps)
         /\ \A a \in 1 .. Len(AllWarmups(c, n)) : Warming(AllWarmups(c, n)[a], n)
<1> DEFINE ss == [i \in 1 .. n |-> Warmup(c, i)]
           s == FlattenSeq(ss)
<1>1. \A i \in 1 .. n : ss[i] \in Seq(Steps) /\ \A a \in 1 .. Len(ss[i]) : Warming(ss[i][a], n)
  BY WarmupSteps
<1>2. DOMAIN ss = 1 .. n /\ Len(ss) = n
  OBVIOUS
<1>3. AllWarmups(c, n) = s
  BY DEF AllWarmups
<1> HIDE DEF ss
<1>4. s \in Seq(Steps) /\ InBlocks(s, ss, n)
  BY <1>1, <1>2, FlattenBlocks
<1> HIDE DEF s
<1>5. PICK b, p : Laid(s, ss, n, b, p)
  BY <1>4 DEF InBlocks
<1>6. ASSUME NEW a \in 1 .. Len(s) PROVE Warming(s[a], n)
  <2>1. b[a] \in 1 .. n /\ p[a] \in 1 .. Len(ss[b[a]]) /\ s[a] = ss[b[a]][p[a]]
    BY <1>5 DEF Laid
  <2> QED BY <2>1, <1>1
<1> QED BY <1>3, <1>4, <1>6

\* Nothing but a worker refers to a binding of the kind Warmup makes.
LEMMA ApartBound ==
  ASSUME NEW x, NEW y, NEW n, StepOK(x), Warming(y, n), x.of # "workers"
  PROVE  Apart(x, y)
<1> SUFFICES ASSUME x.what # "", y.what # "", Refers(Granted(x), Granted(y)) PROVE FALSE
  BY DEF Apart
<1> DEFINE r == Granted(x)
           s == Granted(y)
<1>1. /\ Proper(r) /\ r.of = x.of /\ r.what = x.what
  BY ProperGranted
<1>2. s.of = "session" /\ s.what = "bound"
  BY ProperGranted DEF Warming
<1> HIDE DEF r, s
<1>3. r.what \in {"prep", "infer", "post"}
  BY <1>2 DEF Refers, GivenStream, r, s
<1>4. r.of = "workers"
  BY <1>1, <1>3 DEF Proper, Objects, Whats
<1> QED BY <1>1, <1>4

\* Nothing is above the workers.
LEMMA NothingAbove == \A a \in 0 .. 13 : ~ (13 < a)
OBVIOUS

\* Nothing refers to a worker, except the logger, to which everything refers.
LEMMA ApartTop ==
  ASSUME NEW x, NEW y, StepOK(x), StepOK(y), y.of = "workers"
  PROVE  Apart(x, y)
<1> SUFFICES ASSUME x.what # "", y.what # "", Refers(Granted(x), Granted(y)) PROVE FALSE
  BY DEF Apart
<1> DEFINE r == Granted(x)
           s == Granted(y)
<1>1. Proper(r) /\ Proper(s) /\ Refers(r, s) /\ s.of = "workers"
  BY ProperGranted
<1> HIDE DEF r, s
<1>2. OfRank(s.of) < OfRank(r.of) \/ Own(r, s) \/ GivenStream(r, s)
  BY <1>1, RefersDown
<1>3. OfRank(s.of) = 13 /\ OfRank(r.of) \in 0 .. 13
  BY <1>1, RankType DEF OfRank
<1>4. \A a \in 0 .. 13 : ~ (13 < a)
  BY NothingAbove
<1>5. ~ Own(r, s) /\ ~ GivenStream(r, s)
  BY <1>1 DEF Own, GivenStream
<1> QED BY <1>2, <1>3, <1>4, <1>5, Zenon

\* s has come as far as the objects of rank h.
Stage(s, h) == Good(s) /\ Ranks(s, 0, h)

\* The ranks of two parts.
LEMMA RanksJoin ==
  ASSUME NEW s \in Seq(Steps), NEW t \in Seq(Steps), NEW h \in Nat,
         Ranks(s, 0, h), Ranks(t, 0, h)
  PROVE  Ranks(s \o t, 0, h)
<1>1. ASSUME NEW a \in 1 .. Len(s \o t), (s \o t)[a].of # "run"
      PROVE  OfRank((s \o t)[a].of) \in 0 .. h
  <2>1. CASE a \in 1 .. Len(s)
    BY <2>1, <1>1, Places DEF Ranks
  <2>2. CASE a - Len(s) \in 1 .. Len(t) /\ (a - Len(s)) + Len(s) = a
    <3>1. \A j \in 1 .. Len(t) : (s \o t)[j + Len(s)] = t[j]
      BY Places
    <3>2. (s \o t)[a] = t[a - Len(s)]
      BY <2>2, <3>1
    <3> QED BY <2>2, <3>2, <1>1 DEF Ranks
  <2> QED BY <2>1, <2>2, Places
<1> QED BY <1>1 DEF Ranks

\* Ranks up to h are ranks up to more.
LEMMA RanksGrow ==
  ASSUME NEW s, NEW lo, NEW h \in Nat, NEW h2 \in Nat, lo \in Nat, h =< h2, Ranks(s, lo, h)
  PROVE  Ranks(s, 0, h2)
<1>1. \A r \in lo .. h : r \in 0 .. h2
  OBVIOUS
<1> QED BY <1>1, Zenon DEF Ranks

\* The construction goes on with objects declared later,
LEMMA StageThen ==
  ASSUME NEW s, NEW t, NEW h \in Nat, NEW lo \in Nat, NEW h2 \in Nat,
         Stage(s, h), Good(t), Ranks(t, lo, h2), h < lo, h =< h2
  PROVE  Stage(s \o t, h2)
<1>1. s \in Seq(Steps) /\ t \in Seq(Steps)
  BY DEF Stage, Good
<1>2. ASSUME NEW i \in 1 .. Len(s), NEW j \in 1 .. Len(t)
      PROVE  /\ Apart(s[i], t[j])
             /\ s[i].of # "run" /\ t[j].of # "run" => OfRank(s[i].of) =< OfRank(t[j].of)
  <2>1. StepOK(s[i]) /\ StepOK(t[j])
    BY DEF Stage, Good
  <2>2. CASE s[i].of = "run" \/ t[j].of = "run"
    <3>1. s[i].what = "" \/ t[j].what = ""
      BY <2>1, <2>2, ProperGranted
    <3> QED BY <2>2, <3>1 DEF Apart
  <2>3. CASE s[i].of # "run" /\ t[j].of # "run"
    <3>1. OfRank(s[i].of) \in 0 .. h /\ OfRank(t[j].of) \in lo .. h2
      BY <2>3 DEF Stage, Ranks
    <3>2. \A a \in 0 .. h, b \in lo .. h2 : a < b /\ a =< b
      OBVIOUS
    <3>3. OfRank(s[i].of) < OfRank(t[j].of) /\ OfRank(s[i].of) =< OfRank(t[j].of)
      BY <3>1, <3>2, Zenon
    <3> QED BY <2>1, <3>3, ApartByRank
  <2> QED BY <2>2, <2>3
<1>3. Good(s \o t)
  <2>1. Across(s, t)
    BY <1>2 DEF Across
  <2> QED BY <2>1, GoodThenGood DEF Stage
<1>4. Ranks(s, 0, h2) /\ Ranks(t, 0, h2)
  <2>1. 0 \in Nat /\ h2 =< h2
    OBVIOUS
  <2> QED BY <2>1, RanksGrow DEF Stage
<1>5. Ranks(s \o t, 0, h2)
  BY <1>1, <1>4, RanksJoin
<1> QED BY <1>3, <1>5 DEF Stage

\* with one such object,
LEMMA StageThenWork ==
  ASSUME NEW s, NEW t, NEW of, NEW h \in Nat, NEW h2 \in Nat, h < h2, OfRank(of) = h2,
         Stage(s, h), Work(t, of)
  PROVE  Stage(s \o t, h2)
<1>1. Good(t) /\ Ranks(t, h2, h2)
  BY DEF Work
<1>2. h =< h2
  OBVIOUS
<1> QED BY <1>1, <1>2, StageThen

\* with a check of Run,
LEMMA StageThenCheck ==
  ASSUME NEW s, NEW h \in Nat, Stage(s, h), NEW ok
  PROVE  Stage(s \o Check("run", 0, ok), h) /\ Has(s \o Check("run", 0, ok), Check("run", 0, ok)[1])
<1> DEFINE t == Check("run", 0, ok)
<1>1. Good(t) /\ Ranks(t, h + 1, h) /\ Has(t, t[1])
  BY RunCheckGood
<1> HIDE DEF t
<1>2. h + 1 \in Nat /\ h < h + 1 /\ h =< h
  OBVIOUS
<1>3. Stage(s \o t, h)
  BY <1>1, <1>2, StageThen
<1>4. s \in Seq(Steps) /\ t \in Seq(Steps)
  BY <1>1 DEF Stage, Good
<1>5. Has(s \o t, t[1])
  BY <1>1, <1>4, Joins DEF HasJoins
<1> QED BY <1>3, <1>5 DEF t

\* with late work on what is complete,
LEMMA StageThenLate ==
  ASSUME NEW s, NEW t, NEW h \in Nat, Stage(s, h), Late(s, t), Ranks(t, 0, h)
  PROVE  Stage(s \o t, h)
<1>1. Good(s \o t)
  BY GoodThenLate DEF Stage
<1>2. s \in Seq(Steps) /\ t \in Seq(Steps)
  BY DEF Stage, Good, Late
<1> QED BY <1>1, <1>2, RanksJoin DEF Stage

\* The workers get their threads.
Threads(what, n) == FlattenSeq([k \in 1 .. n |-> Ask("workers", 0, what, k)])

\* and with threads of the workers, any number of them.
LEMMA StageThenThreads ==
  ASSUME NEW s, Stage(s, 13), Completes(s, "workers", 0),
         NEW what \in Whats("workers"), NEW n \in Nat
  PROVE  /\ Stage(s \o Threads(what, n), 13)
         /\ Completes(s \o Threads(what, n), "workers", 0)
         /\ Threads(what, n) \in Seq(Steps)
<1> DEFINE ss == [k \in 1 .. n |-> Ask("workers", 0, what, k)]
           t == FlattenSeq(ss)
<1>0. Plain("workers") /\ "workers" # "source" /\ "workers" # "run"
  BY DEF Plain, Objects
<1>1. \A k \in 1 .. n : k \in Int /\ Part(ss[k], "workers", 0)
  BY <1>0, PlainAsks
<1>2. DOMAIN ss = 1 .. n /\ Len(ss) = n
  OBVIOUS
<1>3. Threads(what, n) = t
  BY DEF Threads
<1> HIDE DEF ss
<1>4. Part(t, "workers", 0)
  BY <1>0, <1>1, <1>2, PlainEach
<1> HIDE DEF t
<1>5. s \in Seq(Steps) /\ t \in Seq(Steps)
  BY <1>4 DEF Stage, Good, Part
<1>6. \A j \in 1 .. Len(t) : /\ StepOK(t[j]) /\ t[j].of = "workers" /\ t[j].nr = 0
                             /\ t[j].kind # "complete"
  BY <1>4 DEF Part
<1>7. \A i \in 1 .. Len(s) : StepOK(s[i])
  BY DEF Stage, Good
<1>8. Late(s, t)
  <2>1. \A i \in 1 .. Len(s), j \in 1 .. Len(t) : Apart(s[i], t[j])
    BY <1>6, <1>7, ApartTop
  <2>2. \A i, j \in 1 .. Len(t) : Apart(t[i], t[j])
    BY <1>6, ApartTop
  <2> QED BY <1>0, <1>5, <1>6, <2>1, <2>2 DEF Late
<1>9. Ranks(t, 0, 13)
  BY <1>6, RankType DEF Ranks
<1>10. Stage(s \o t, 13)
  BY <1>8, <1>9, StageThenLate
<1>11. Completes(s \o t, "workers", 0)
  BY <1>5, Joins DEF HasJoins
<1> QED BY <1>3, <1>5, <1>10, <1>11

-----------------------------------------------------------------------------
(* The stages, one by one. *)

\* The sizes Run is given.
Sized(c) == /\ c.rawFrames \in Nat /\ c.slots \in Nat /\ c.inferThreads \in Nat \ {0}
            /\ c.prepThreads \in Nat /\ c.postThreads \in Nat

\* The check between the sessions and SlotStore is a step of s.
Checked(s, c, m) == Has(s, Check("run", 0, CrossChecks(c, m))[1])

Open(s, n) == \A i \in 1 .. n : Completes(s, "session", i)

\* What has been checked and completed stays so.
LEMMA Keeps ==
  ASSUME NEW s \in Seq(Steps), NEW t \in Seq(Steps), NEW c, NEW m, NEW n
  PROVE  /\ Checked(s, c, m) => Checked(s \o t, c, m)
         /\ Open(s, n) => Open(s \o t, n)
         /\ Completes(t, "workers", 0) => Completes(s \o t, "workers", 0)
BY Joins DEF HasJoins, Checked, Open

\* The steps so far are steps,
LEMMA StageSeq == ASSUME NEW s, NEW h, Stage(s, h) PROVE s \in Seq(Steps)
BY DEF Stage, Good

\* and so are those of an object.
LEMMA WorkSeq == ASSUME NEW s, NEW of, Work(s, of) PROVE s \in Seq(Steps)
BY DEF Work, Good

\* Run starts with the logger.
LEMMA LoggerStage ==
  Stage(Complete("logger", 0) \o Ask("logger", 0, "thread", 0), 0)
<1> DEFINE s == Complete("logger", 0)
           t == Ask("logger", 0, "thread", 0)
<1>1. Known("logger", 0) /\ "thread" \in Whats("logger") /\ 0 \in Int
      /\ OfRank("logger") = 0
  BY DEF Known, Objects, Whats, OfRank
<1>2. PICK x : OneStep(s, x, "logger", 0) /\ x.kind = "complete" /\ x.what = ""
  BY <1>1, CompleteIs
<1>3. PICK y : OneStep(t, y, "logger", 0) /\ y.kind = "ask" /\ y.what = "thread"
  BY <1>1, AskIs
<1>4. Good(s) /\ Ranks(s, 0, 0) /\ Completes(s, "logger", 0)
  BY <1>1, CompleteGood
<1> HIDE DEF s, t
<1>5. \A j \in 1 .. Len(t) : t[j] = y /\ StepOK(y) /\ y.of = "logger" /\ y.nr = 0
  BY <1>3 DEF OneStep
<1>6. \A i \in 1 .. Len(s) : s[i] = x /\ StepOK(x) /\ x.of = "logger"
  BY <1>2 DEF OneStep
<1>7. Late(s, t)
  <2>1. StepOK(x) /\ StepOK(y) /\ x.of = "logger" /\ y.of = "logger" /\ y.nr = 0
    BY <1>2, <1>3 DEF OneStep
  <2>2. Apart(x, y) /\ Apart(y, y)
    BY <2>1, ApartWithin
  <2>3. t \in Seq(Steps)
    BY <1>3 DEF OneStep
  <2> QED BY <1>3, <1>4, <1>5, <1>6, <2>2, <2>3 DEF Late
<1>8. Ranks(t, 0, 0)
  BY <1>1, <1>5 DEF Ranks
<1>9. Stage(s, 0)
  BY <1>4 DEF Stage
<1> QED BY <1>7, <1>8, <1>9, StageThenLate DEF s, t

\* A stage is within every later one.
LEMMA StageGrows ==
  ASSUME NEW s, NEW h \in Nat, NEW h2 \in Nat, h =< h2, Stage(s, h)
  PROVE  Stage(s, h2)
<1>1. 0 \in Nat
  OBVIOUS
<1> QED BY <1>1, RanksGrow DEF Stage

\* RealTimeScope, if the configuration asks for it.
LEMMA ScopeStage ==
  ASSUME NEW s, Stage(s, 0), NEW b
  PROVE  Stage(s \o When(b, RealTimeScope), 1)
<1>1. CASE b
  <2>1. When(b, RealTimeScope) = RealTimeScope
    BY <1>1 DEF When
  <2>2. OfRank("rtScope") = 1 /\ 0 < 1
    BY DEF OfRank
  <2> QED BY <2>1, <2>2, ScopeIs, StageThenWork
<1>2. CASE ~ b
  <2>1. When(b, RealTimeScope) = <<>>
    BY <1>2 DEF When
  <2>2. s \in Seq(Steps)
    BY StageSeq
  <2>3. s \o <<>> = s
    BY <2>2, ConcatEmptySeq
  <2>4. Stage(s, 1)
    BY StageGrows
  <2> QED BY <2>1, <2>3, <2>4
<1> QED BY <1>1, <1>2

\* The sessions come after RawFrameStore, qRaw and the environment.
LEMMA SessionStage ==
  ASSUME NEW s, Stage(s, 4), NEW c, NEW m, NEW n \in Nat \ {0}
  PROVE  /\ Stage(s \o AllSessions(c, m, n), 5)
         /\ Open(s \o AllSessions(c, m, n), n)
<1> DEFINE t == AllSessions(c, m, n)
<1>0. AllSessions(c, m, n) = t
  OBVIOUS
<1> HIDE DEF t
<1>1. Sessions(t, n)
  BY <1>0, SessionsAre
<1> HIDE DEF t
<1>2. Good(t) /\ Open(t, n) /\ \A a \in 1 .. Len(t) : t[a].of = "session"
  BY <1>1 DEF Sessions, Open
<1>3. OfRank("session") = 5 /\ 5 \in 5 .. 5 /\ 4 < 5 /\ 4 =< 5
  BY DEF OfRank
<1>4. Ranks(t, 5, 5)
  BY <1>2, <1>3 DEF Ranks
<1>5. Stage(s \o t, 5)
  BY <1>2, <1>3, <1>4, StageThen
<1>6. s \in Seq(Steps) /\ t \in Seq(Steps)
  BY <1>2, StageSeq DEF Good
<1>7. \A of, nr : Completes(t, of, nr) => Completes(s \o t, of, nr)
  BY <1>6, Joins DEF HasJoins
<1>8. Open(s \o t, n)
  BY <1>2, <1>7 DEF Open
<1> QED BY <1>0, <1>5, <1>8

\* The warm-up works on the sessions long after their completion.
LEMMA WarmupStage ==
  ASSUME NEW s, Stage(s, 11), NEW c, NEW n \in Nat, Open(s, n)
  PROVE  /\ Stage(s \o AllWarmups(c, n), 11)
         /\ AllWarmups(c, n) \in Seq(Steps)
<1> DEFINE t == AllWarmups(c, n)
<1>0. AllWarmups(c, n) = t
  OBVIOUS
<1> HIDE DEF t
<1>1. t \in Seq(Steps) /\ \A a \in 1 .. Len(t) : Warming(t[a], n)
  BY <1>0, WarmupsAre
<1> HIDE DEF t
<1>2. \A a \in 1 .. Len(t) : /\ StepOK(t[a]) /\ t[a].of = "session" /\ t[a].nr \in 1 .. n
                             /\ t[a].kind # "complete"
  BY <1>1 DEF Warming
<1>3. \A i \in 1 .. Len(s) : StepOK(s[i]) /\ s[i].of # "workers"
  <2>1. OfRank("workers") = 13 /\ ~ (13 \in 0 .. 11) /\ "workers" # "run"
    BY DEF OfRank
  <2> QED BY <2>1 DEF Stage, Good, Ranks
<1>4. \A i \in 1 .. Len(s), j \in 1 .. Len(t) : Apart(s[i], t[j])
  BY <1>1, <1>3, ApartBound
<1>5. \A i, j \in 1 .. Len(t) : Apart(t[i], t[j])
  BY <1>1, <1>2, ApartBound
<1>6. Late(s, t)
  BY <1>1, <1>2, <1>4, <1>5 DEF Late, Open
<1>7. Ranks(t, 0, 11)
  BY <1>2 DEF Ranks, OfRank
<1>8. Stage(s \o t, 11)
  BY <1>6, <1>7, StageThenLate
<1> QED BY <1>0, <1>1, <1>8

\* ConsoleKeys as the program writes it.
LEMMA KeysWork == Work(ConsoleKeys, "keys")
<1> DEFINE a == Check("keys", 0, TRUE)
           b == Ask("keys", 0, "mode", 0)
           d == Complete("keys", 0)
<1>1. Known("keys", 0) /\ "mode" \in Whats("keys") /\ 0 \in Int
      /\ OfRank("keys") = 12
  BY DEF Known, Objects, Whats, OfRank
<1>2. a \in Seq(Steps)
  BY <1>1, CheckPart DEF Part
<1>3. b \in Seq(Steps)
  BY <1>1, AskPart DEF Part
<1>4. d \in Seq(Steps)
  BY <1>1, CompleteGood DEF Good
<1>5. ConsoleKeys = a \o (b \o d)
  BY DEF ConsoleKeys, Whole
<1>6. Work((a \o b) \o d, "keys")
  BY KeysIs
<1> HIDE DEF a, b, d
<1>7. a \o (b \o d) = (a \o b) \o d
  BY <1>2, <1>3, <1>4, ConcatAssociative
<1> QED BY <1>5, <1>6, <1>7

\* ConsoleKeys comes after the warm-up,
LEMMA KeysStage ==
  ASSUME NEW s, Stage(s, 11)
  PROVE  Stage(s \o ConsoleKeys, 12)
<1>1. OfRank("keys") = 12 /\ 11 < 12
  BY DEF OfRank
<1> QED BY <1>1, KeysWork, StageThenWork

\* and the workers come last.
LEMMA WorkersStage ==
  ASSUME NEW s, Stage(s, 12)
  PROVE  /\ Stage(s \o Complete("workers", 0), 13)
         /\ Completes(s \o Complete("workers", 0), "workers", 0)
<1> DEFINE t == Complete("workers", 0)
<1>1. Known("workers", 0) /\ OfRank("workers") = 13 /\ 12 < 13 /\ 12 =< 13
  BY DEF Known, Objects, OfRank
<1>2. Good(t) /\ Ranks(t, 13, 13) /\ Completes(t, "workers", 0)
  BY <1>1, CompleteGood
<1> HIDE DEF t
<1>3. Stage(s \o t, 13)
  BY <1>1, <1>2, StageThen
<1>4. s \in Seq(Steps) /\ t \in Seq(Steps)
  BY <1>2, StageSeq DEF Good
<1>5. Completes(s \o t, "workers", 0)
  BY <1>2, <1>4, Keeps
<1> QED BY <1>3, <1>5 DEF t

-----------------------------------------------------------------------------
(* All of Run. *)

\* Run as far as the sessions, as far as the workers, and all of it.
RunSessions(c, m) ==
  Complete("logger", 0) \o Ask("logger", 0, "thread", 0)
    \o When(c.elevateProcess # 0, RealTimeScope)
    \o Check("run", 0, TRUE)
    \o RawFrameStore(c) \o Whole("qRaw", "object") \o Whole("env", "env")
    \o AllSessions(c, m, c.inferThreads)

RunStores(c, m) ==
  RunSessions(c, m)
    \o Check("run", 0, CrossChecks(c, m))
    \o SlotStore(c) \o Whole("qPrep", "object") \o Whole("qInf", "object")
    \o Whole("metrics", "object") \o Whole("sink", "object")
    \o MmfFrameSource

RunWorkers(c, m) ==
  RunStores(c, m)
    \o AllWarmups(c, c.inferThreads)
    \o ConsoleKeys
    \o Complete("workers", 0)
    \o Threads("prep", c.prepThreads)
    \o Threads("infer", c.inferThreads)
    \o Threads("post", c.postThreads)

\* Run in these three parts.
LEMMA RunIs == ASSUME NEW c, NEW m PROVE Run(c, m) = RunWorkers(c, m)
BY DEF Run, RunWorkers, RunStores, RunSessions, AllSessions, AllWarmups, Threads, Each

\* The order of Run's declarations.
LEMMA OfRanks ==
  /\ OfRank("rawStore") = 2 /\ OfRank("qRaw") = 3 /\ OfRank("env") = 4
  /\ OfRank("slotStore") = 6 /\ OfRank("qPrep") = 7 /\ OfRank("qInf") = 8
  /\ OfRank("metrics") = 9 /\ OfRank("sink") = 10 /\ OfRank("source") = 11
BY DEF OfRank

\* An object with a single resource comes next.
LEMMA StageThenWhole ==
  ASSUME NEW s, NEW of, NEW what, NEW h \in Nat, NEW h2 \in Nat, h < h2, OfRank(of) = h2,
         Stage(s, h), Plain(of), what \in Whats(of)
  PROVE  Stage(s \o Whole(of, what), h2)
BY WholeIs, StageThenWork

\* Run as far as the sessions.
LEMMA SessionsStage ==
  ASSUME NEW c, NEW m, Sized(c)
  PROVE  Stage(RunSessions(c, m), 5) /\ Open(RunSessions(c, m), c.inferThreads)
<1> DEFINE s1 == Complete("logger", 0) \o Ask("logger", 0, "thread", 0)
           s2 == s1 \o When(c.elevateProcess # 0, RealTimeScope)
           s3 == s2 \o Check("run", 0, TRUE)
           s4 == s3 \o RawFrameStore(c)
           s5 == s4 \o Whole("qRaw", "object")
           s6 == s5 \o Whole("env", "env")
           s7 == s6 \o AllSessions(c, m, c.inferThreads)
<1>1. RunSessions(c, m) = s7
  BY DEF RunSessions
<1>2. Stage(s1, 0)
  BY LoggerStage
<1> HIDE DEF s1
<1>3. Stage(s2, 1)
  BY <1>2, ScopeStage
<1> HIDE DEF s2
<1>4. Stage(s3, 1)
  BY <1>3, StageThenCheck
<1> HIDE DEF s3
<1>5. Stage(s4, 2)
  <2>1. Work(RawFrameStore(c), "rawStore")
    BY RawFramesIs DEF Sized
  <2> QED BY <1>4, <2>1, OfRanks, StageThenWork
<1> HIDE DEF s4
<1>6. Stage(s5, 3)
  <2>1. Plain("qRaw") /\ "object" \in Whats("qRaw")
    BY DEF Plain, Objects, Whats
  <2> QED BY <1>5, <2>1, OfRanks, StageThenWhole
<1> HIDE DEF s5
<1>7. Stage(s6, 4)
  <2>1. Plain("env") /\ "env" \in Whats("env")
    BY DEF Plain, Objects, Whats
  <2> QED BY <1>6, <2>1, OfRanks, StageThenWhole
<1> HIDE DEF s6
<1>8. Stage(s7, 5) /\ Open(s7, c.inferThreads)
  BY <1>7, SessionStage DEF Sized
<1> QED BY <1>1, <1>8

\* Run as far as the warm-up.
LEMMA StoresStage ==
  ASSUME NEW c, NEW m, Sized(c)
  PROVE  /\ Stage(RunStores(c, m), 11) /\ Open(RunStores(c, m), c.inferThreads)
         /\ Checked(RunStores(c, m), c, m)
<1> DEFINE n == c.inferThreads
           s0 == RunSessions(c, m)
           s1 == s0 \o Check("run", 0, CrossChecks(c, m))
           s2 == s1 \o SlotStore(c)
           s3 == s2 \o Whole("qPrep", "object")
           s4 == s3 \o Whole("qInf", "object")
           s5 == s4 \o Whole("metrics", "object")
           s6 == s5 \o Whole("sink", "object")
           s7 == s6 \o MmfFrameSource
<1>1. RunStores(c, m) = s7
  BY DEF RunStores
<1>2. Stage(s0, 5) /\ Open(s0, n)
  BY SessionsStage
<1> HIDE DEF s0, n
<1>3. Stage(s1, 5) /\ Checked(s1, c, m) /\ Open(s1, n)
  <2>1. Stage(s1, 5) /\ Checked(s1, c, m)
    BY <1>2, StageThenCheck DEF Checked
  <2>2. s0 \in Seq(Steps) /\ Check("run", 0, CrossChecks(c, m)) \in Seq(Steps)
    BY <1>2, StageSeq, RunCheckGood DEF Good
  <2> QED BY <1>2, <2>1, <2>2, Keeps
<1> HIDE DEF s1
<1>4. Stage(s2, 6) /\ Checked(s2, c, m) /\ Open(s2, n)
  <2>1. Work(SlotStore(c), "slotStore")
    BY SlotsIs DEF Sized
  <2>2. s1 \in Seq(Steps) /\ SlotStore(c) \in Seq(Steps)
    BY <1>3, <2>1, StageSeq, WorkSeq
  <2> QED BY <1>3, <2>1, <2>2, OfRanks, StageThenWork, Keeps
<1> HIDE DEF s2
<1>5. Stage(s3, 7) /\ Checked(s3, c, m) /\ Open(s3, n)
  <2>1. Plain("qPrep") /\ "object" \in Whats("qPrep")
    BY DEF Plain, Objects, Whats
  <2>2. s2 \in Seq(Steps) /\ Whole("qPrep", "object") \in Seq(Steps)
    BY <1>4, <2>1, StageSeq, WholeIs, WorkSeq
  <2> QED BY <1>4, <2>1, <2>2, OfRanks, StageThenWhole, Keeps
<1> HIDE DEF s3
<1>6. Stage(s4, 8) /\ Checked(s4, c, m) /\ Open(s4, n)
  <2>1. Plain("qInf") /\ "object" \in Whats("qInf")
    BY DEF Plain, Objects, Whats
  <2>2. s3 \in Seq(Steps) /\ Whole("qInf", "object") \in Seq(Steps)
    BY <1>5, <2>1, StageSeq, WholeIs, WorkSeq
  <2> QED BY <1>5, <2>1, <2>2, OfRanks, StageThenWhole, Keeps
<1> HIDE DEF s4
<1>7. Stage(s5, 9) /\ Checked(s5, c, m) /\ Open(s5, n)
  <2>1. Plain("metrics") /\ "object" \in Whats("metrics")
    BY DEF Plain, Objects, Whats
  <2>2. s4 \in Seq(Steps) /\ Whole("metrics", "object") \in Seq(Steps)
    BY <1>6, <2>1, StageSeq, WholeIs, WorkSeq
  <2> QED BY <1>6, <2>1, <2>2, OfRanks, StageThenWhole, Keeps
<1> HIDE DEF s5
<1>8. Stage(s6, 10) /\ Checked(s6, c, m) /\ Open(s6, n)
  <2>1. Plain("sink") /\ "object" \in Whats("sink")
    BY DEF Plain, Objects, Whats
  <2>2. s5 \in Seq(Steps) /\ Whole("sink", "object") \in Seq(Steps)
    BY <1>7, <2>1, StageSeq, WholeIs, WorkSeq
  <2> QED BY <1>7, <2>1, <2>2, OfRanks, StageThenWhole, Keeps
<1> HIDE DEF s6
<1>9. Stage(s7, 11) /\ Checked(s7, c, m) /\ Open(s7, n)
  <2>1. s6 \in Seq(Steps) /\ MmfFrameSource \in Seq(Steps)
    BY <1>8, SourceIs, StageSeq, WorkSeq
  <2> QED BY <1>8, <2>1, SourceIs, OfRanks, StageThenWork, Keeps
<1> QED BY <1>1, <1>9 DEF n

\* Run asks for resources in an order in which nothing Refers to what is not there
\* yet, and makes its check of the model among the rest.
THEOREM RunGood ==
  ASSUME NEW c, NEW m, Sized(c)
  PROVE  Good(Run(c, m)) /\ Checked(Run(c, m), c, m)
<1> DEFINE n == c.inferThreads
           s0 == RunStores(c, m)
           s1 == s0 \o AllWarmups(c, n)
           s2 == s1 \o ConsoleKeys
           s3 == s2 \o Complete("workers", 0)
           s4 == s3 \o Threads("prep", c.prepThreads)
           s5 == s4 \o Threads("infer", n)
           s6 == s5 \o Threads("post", c.postThreads)
<1>1. Run(c, m) = s6
  BY RunIs DEF RunWorkers
<1>0. n \in Nat /\ c.prepThreads \in Nat /\ c.postThreads \in Nat
  BY DEF Sized
<1>w. {"prep", "infer", "post"} = Whats("workers")
  BY DEF Whats
<1>2. Stage(s0, 11) /\ Open(s0, n) /\ Checked(s0, c, m)
  BY StoresStage
<1> HIDE DEF s0, n
<1>3. Stage(s1, 11) /\ Checked(s1, c, m)
  <2>1. s0 \in Seq(Steps)
    BY <1>2, StageSeq
  <2>2. Stage(s1, 11) /\ AllWarmups(c, n) \in Seq(Steps)
    BY <1>0, <1>2, WarmupStage
  <2> QED BY <1>2, <2>1, <2>2, Keeps
<1> HIDE DEF s1
<1>4. Stage(s2, 12) /\ Checked(s2, c, m)
  <2>1. s1 \in Seq(Steps)
    BY <1>3, StageSeq
  <2>2. ConsoleKeys \in Seq(Steps)
    BY KeysWork, WorkSeq
  <2> QED BY <1>3, <2>1, <2>2, KeysStage, Keeps
<1> HIDE DEF s2
<1>5. Stage(s3, 13) /\ Completes(s3, "workers", 0) /\ Checked(s3, c, m)
  <2>1. s2 \in Seq(Steps)
    BY <1>4, StageSeq
  <2>2. Known("workers", 0)
    BY DEF Known, Objects
  <2>3. Complete("workers", 0) \in Seq(Steps)
    BY <2>2, CompleteGood DEF Good
  <2> QED BY <1>4, <2>1, <2>3, WorkersStage, Keeps
<1> HIDE DEF s3
<1>6. Stage(s4, 13) /\ Completes(s4, "workers", 0) /\ Checked(s4, c, m)
  <2>1. s3 \in Seq(Steps)
    BY <1>5, StageSeq
  <2>2. "prep" \in Whats("workers")
    BY <1>w
  <2>3. Stage(s4, 13) /\ Completes(s4, "workers", 0) /\ Threads("prep", c.prepThreads) \in Seq(Steps)
    BY <1>0, <1>5, <2>2, StageThenThreads
  <2> QED BY <1>5, <2>1, <2>3, Keeps
<1> HIDE DEF s4
<1>7. Stage(s5, 13) /\ Completes(s5, "workers", 0) /\ Checked(s5, c, m)
  <2>1. s4 \in Seq(Steps)
    BY <1>6, StageSeq
  <2>2. "infer" \in Whats("workers")
    BY <1>w
  <2>3. Stage(s5, 13) /\ Completes(s5, "workers", 0) /\ Threads("infer", n) \in Seq(Steps)
    BY <1>0, <1>6, <2>2, StageThenThreads
  <2> QED BY <1>6, <2>1, <2>3, Keeps
<1> HIDE DEF s5
<1>8. Stage(s6, 13) /\ Checked(s6, c, m)
  <2>1. s5 \in Seq(Steps)
    BY <1>7, StageSeq
  <2>2. "post" \in Whats("workers")
    BY <1>w
  <2>3. Stage(s6, 13) /\ Threads("post", c.postThreads) \in Seq(Steps)
    BY <1>0, <1>7, <2>2, StageThenThreads
  <2> QED BY <1>7, <2>1, <2>3, Keeps
<1> QED BY <1>1, <1>8 DEF Stage

-----------------------------------------------------------------------------
(* The destructors. *)

\* The way back.
Things == [of : Objects \cup {"run"}, nr : Int]
Labels == [of : Objects \cup {"run"}, nr : Int, what : AllWhats]

\* c is the turn of r.
Named(c, r) == r.of = c.of /\ r.nr = c.nr /\ r.what = c.what

\* ds names everything an object of a kind may have.
Lists(ds, of) == /\ ds \in Seq(AllWhats)
                 /\ \A w \in Whats(of) : \E x \in 1 .. Len(ds) : ds[x] = w

\* What refers to another resource of the object comes before it.
Sorted(ds, of) == \A r, s : Own(r, s) /\ r.of = of =>
                    \A y \in 1 .. Len(ds) : ds[y] = s.what =>
                      \E x \in 1 .. Len(ds) : x < y /\ ds[x] = r.what

\* The resources of an object are resources.
LEMMA WhatsKnown == ASSUME NEW of \in Objects PROVE Whats(of) \subseteq AllWhats
BY DEF AllWhats

\* All of them, one by one.
LEMMA TheWhats ==
  /\ "bound" \in AllWhats /\ "tensors" \in AllWhats /\ "device" \in AllWhats
  /\ "event" \in AllWhats /\ "stream" \in AllWhats /\ "binding" \in AllWhats
  /\ "session" \in AllWhats /\ "patches" \in AllWhats /\ "strip" \in AllWhats
  /\ "pinned" \in AllWhats /\ "host" \in AllWhats /\ "view" \in AllWhats
  /\ "mapping" \in AllWhats /\ "prep" \in AllWhats /\ "infer" \in AllWhats
  /\ "post" \in AllWhats /\ "class" \in AllWhats /\ "timer" \in AllWhats
  /\ "thread" \in AllWhats /\ "mode" \in AllWhats /\ "env" \in AllWhats
  /\ "object" \in AllWhats
<1>1. /\ "session" \in Objects /\ "rawStore" \in Objects /\ "slotStore" \in Objects
      /\ "source" \in Objects /\ "workers" \in Objects /\ "rtScope" \in Objects
      /\ "logger" \in Objects /\ "keys" \in Objects /\ "env" \in Objects /\ "qRaw" \in Objects
  BY DEF Objects
<1>2. /\ Whats("session") = {"bound", "tensors", "device", "event", "stream", "binding", "session"}
      /\ Whats("rawStore") = {"patches", "strip"} /\ Whats("slotStore") = {"pinned", "host"}
      /\ Whats("source") = {"event", "view", "mapping"}
      /\ Whats("workers") = {"prep", "infer", "post"} /\ Whats("rtScope") = {"class", "timer"}
      /\ Whats("logger") = {"thread"} /\ Whats("keys") = {"mode"} /\ Whats("env") = {"env"}
      /\ Whats("qRaw") = {"object"}
  BY DEF Whats
<1>3. "bound" \in AllWhats /\ "tensors" \in AllWhats /\ "device" \in AllWhats /\ "event" \in AllWhats /\ "stream" \in AllWhats /\ "binding" \in AllWhats /\ "session" \in AllWhats
  BY <1>1, <1>2, WhatsKnown
<1>4. "patches" \in AllWhats /\ "strip" \in AllWhats
  BY <1>1, <1>2, WhatsKnown
<1>5. "pinned" \in AllWhats /\ "host" \in AllWhats
  BY <1>1, <1>2, WhatsKnown
<1>6. "view" \in AllWhats /\ "mapping" \in AllWhats
  BY <1>1, <1>2, WhatsKnown
<1>7. "prep" \in AllWhats /\ "infer" \in AllWhats /\ "post" \in AllWhats
  BY <1>1, <1>2, WhatsKnown
<1>8. "class" \in AllWhats /\ "timer" \in AllWhats
  BY <1>1, <1>2, WhatsKnown
<1>9. "thread" \in AllWhats
  BY <1>1, <1>2, WhatsKnown
<1>10. "mode" \in AllWhats
  BY <1>1, <1>2, WhatsKnown
<1>11. "env" \in AllWhats
  BY <1>1, <1>2, WhatsKnown
<1>12. "object" \in AllWhats
  BY <1>1, <1>2, WhatsKnown
<1> QED BY <1>3, <1>4, <1>5, <1>6, <1>7, <1>8, <1>9, <1>10, <1>11, <1>12

\* The destructor of a session: the bindings before the tensors and the tensors before
\* the device memory (OrtSession.cpp:180-188).
LEMMA SessionList ==
  Lists(Destructor("session"), "session") /\ Sorted(Destructor("session"), "session")
<1> DEFINE a == <<"bound", "tensors", "device", "event", "stream">>
           b == <<"binding", "session">>
           d == Destructor("session")
<1>1. d = a \o b
  BY DEF Destructor, Cleanup
<1>a. /\ a \in Seq(AllWhats) /\ Len(a) = 5
      /\ a[1] = "bound" /\ a[2] = "tensors" /\ a[3] = "device" /\ a[4] = "event"
      /\ a[5] = "stream"
  BY TheWhats
<1>b. b \in Seq(AllWhats) /\ Len(b) = 2 /\ b[1] = "binding" /\ b[2] = "session"
  BY TheWhats
<1> HIDE DEF a, b, d
<1>c. /\ a \o b \in Seq(AllWhats) /\ Len(a \o b) = 7
      /\ \A x \in 1 .. 7 : (a \o b)[x] = IF x =< 5 THEN a[x] ELSE b[x - 5]
  <2>1. /\ a \o b \in Seq(AllWhats) /\ Len(a \o b) = Len(a) + Len(b)
        /\ \A x \in 1 .. Len(a) + Len(b) :
             (a \o b)[x] = IF x =< Len(a) THEN a[x] ELSE b[x - Len(a)]
    BY <1>a, <1>b, ConcatProperties
  <2> QED BY <1>a, <1>b, <2>1
<1>2. /\ d \in Seq(AllWhats) /\ Len(d) = 7
      /\ d[1] = "bound" /\ d[2] = "tensors" /\ d[3] = "device" /\ d[4] = "event"
      /\ d[5] = "stream" /\ d[6] = "binding" /\ d[7] = "session"
  BY <1>1, <1>a, <1>b, <1>c
<1>3. \A x \in 1 .. 7 : x = 1 \/ x = 2 \/ x = 3 \/ x = 4 \/ x = 5 \/ x = 6 \/ x = 7
  OBVIOUS
<1>4. Lists(d, "session")
  BY <1>2, <1>3 DEF Lists, Whats
<1>5. Sorted(d, "session")
  <2> SUFFICES ASSUME NEW r, NEW s, Own(r, s), r.of = "session",
                      NEW y \in 1 .. 7, d[y] = s.what
               PROVE  \E x \in 1 .. 7 : x < y /\ d[x] = r.what
    BY <1>2 DEF Sorted
  <2>1. CASE r.what = "tensors" /\ s.what = "device"
    <3>1. y = 3
      BY <1>2, <1>3, <2>1
    <3> QED BY <1>2, <2>1, <3>1
  <2>2. CASE r.what = "bound" /\ s.what \in {"tensors", "binding"}
    <3>1. y = 2 \/ y = 6
      BY <1>2, <1>3, <2>2
    <3> QED BY <1>2, <2>2, <3>1
  <2>3. CASE r.what = "binding" /\ s.what = "session"
    <3>1. y = 7
      BY <1>2, <1>3, <2>3
    <3> QED BY <1>2, <2>3, <3>1
  <2> QED BY <2>1, <2>2, <2>3 DEF Own
<1> QED BY <1>4, <1>5 DEF d

\* The destructor of RawFrameStore: the patches before the strip (RawFrame.cpp:70).
LEMMA RawStoreList ==
  Lists(Destructor("rawStore"), "rawStore") /\ Sorted(Destructor("rawStore"), "rawStore")
<1> DEFINE d == <<"patches", "strip">>
<1>1. Destructor("rawStore") = d
  BY DEF Destructor
<1>2. d \in Seq(AllWhats) /\ Len(d) = 2 /\ d[1] = "patches" /\ d[2] = "strip"
  BY TheWhats
<1> HIDE DEF d
<1>3. \A x \in 1 .. 2 : x = 1 \/ x = 2
  OBVIOUS
<1>4. Lists(d, "rawStore")
  BY <1>2, <1>3 DEF Lists, Whats
<1>5. Sorted(d, "rawStore")
  <2> SUFFICES ASSUME NEW r, NEW s, Own(r, s), r.of = "rawStore",
                      NEW y \in 1 .. 2, d[y] = s.what
               PROVE  \E x \in 1 .. 2 : x < y /\ d[x] = r.what
    BY <1>2 DEF Sorted
  <2>1. r.what = "patches" /\ s.what = "strip"
    BY DEF Own
  <2>2. y = 2
    BY <1>2, <1>3, <2>1
  <2> QED BY <1>2, <2>1, <2>2
<1> QED BY <1>1, <1>4, <1>5

\* Nothing of the other objects refers to something of the same object.
LEMMA NothingOwn ==
  ASSUME NEW of, NEW ds, of \notin {"session", "rawStore"}
  PROVE  Sorted(ds, of)
BY DEF Sorted, Own

\* A destructor with up to three kinds of resources.
LEMMA ShortList ==
  ASSUME NEW ds, NEW of, NEW w1, NEW w2, NEW w3, w1 \in AllWhats, w2 \in AllWhats, w3 \in AllWhats,
         \/ ds = <<w1>> /\ Whats(of) = {w1}
         \/ ds = <<w1, w2>> /\ Whats(of) = {w1, w2}
         \/ ds = <<w1, w2, w3>> /\ Whats(of) = {w1, w2, w3}
  PROVE  Lists(ds, of)
<1>1. CASE ds = <<w1>> /\ Whats(of) = {w1}
  BY <1>1 DEF Lists
<1>2. CASE ds = <<w1, w2>> /\ Whats(of) = {w1, w2}
  BY <1>2 DEF Lists
<1>3. CASE ds = <<w1, w2, w3>> /\ Whats(of) = {w1, w2, w3}
  BY <1>3 DEF Lists
<1> QED BY <1>1, <1>2, <1>3

\* Every destructor names all its object may have, what refers before what is
\* referred to.
LEMMA DestructorIs ==
  ASSUME NEW of \in Objects
  PROVE  Lists(Destructor(of), of) /\ Sorted(Destructor(of), of)
<1>1. CASE of = "session"
  BY <1>1, SessionList
<1>2. CASE of = "rawStore"
  BY <1>2, RawStoreList
<1>3. CASE of \notin {"session", "rawStore"}
  <2>1. CASE of = "slotStore"
    <3>1. Destructor(of) = <<"pinned", "host">> /\ Whats(of) = {"pinned", "host"}
      BY <2>1 DEF Destructor, Whats
    <3> QED BY <1>3, <3>1, TheWhats, NothingOwn, ShortList
  <2>2. CASE of = "source"
    <3>1. Destructor(of) = <<"event", "view", "mapping">> /\ Whats(of) = {"event", "view", "mapping"}
      BY <2>2 DEF Destructor, Whats
    <3> QED BY <1>3, <3>1, TheWhats, NothingOwn, ShortList
  <2>3. CASE of = "workers"
    <3>1. Destructor(of) = <<"prep", "infer", "post">> /\ Whats(of) = {"prep", "infer", "post"}
      BY <2>3 DEF Destructor, Whats
    <3> QED BY <1>3, <3>1, TheWhats, NothingOwn, ShortList
  <2>4. CASE of = "rtScope"
    <3>1. Destructor(of) = <<"class", "timer">> /\ Whats(of) = {"class", "timer"}
      BY <2>4 DEF Destructor, Whats
    <3> QED BY <1>3, <3>1, TheWhats, NothingOwn, ShortList
  <2>5. CASE of = "logger"
    <3>1. Destructor(of) = <<"thread">> /\ Whats(of) = {"thread"}
      BY <2>5 DEF Destructor, Whats
    <3> QED BY <1>3, <3>1, TheWhats, NothingOwn, ShortList
  <2>6. CASE of = "keys"
    <3>1. Destructor(of) = <<"mode">> /\ Whats(of) = {"mode"}
      BY <2>6 DEF Destructor, Whats
    <3> QED BY <1>3, <3>1, TheWhats, NothingOwn, ShortList
  <2>7. CASE of = "env"
    <3>1. Destructor(of) = <<"env">> /\ Whats(of) = {"env"}
      BY <2>7 DEF Destructor, Whats
    <3> QED BY <1>3, <3>1, TheWhats, NothingOwn, ShortList
  <2>8. CASE of \in {"qRaw", "qPrep", "qInf", "metrics", "sink"}
    <3>1. Destructor(of) = <<"object">> /\ Whats(of) = {"object"}
      BY <2>8 DEF Destructor, Whats
    <3> QED BY <1>3, <3>1, TheWhats, NothingOwn, ShortList
  <2> QED BY <1>3, <2>1, <2>2, <2>3, <2>4, <2>5, <2>6, <2>7, <2>8 DEF Objects
<1> QED BY <1>1, <1>2, <1>3

-----------------------------------------------------------------------------
(* The destructors of all finished objects. *)

\* The names of the resources of one object, in the order given.
LEMMA NamesAre ==
  ASSUME NEW o, o.of \in Objects \cup {"run"}, o.nr \in Int, NEW ds \in Seq(AllWhats)
  PROVE  /\ Names(o, ds) \in Seq(Labels) /\ Len(Names(o, ds)) = Len(ds) /\ Len(ds) \in Nat
         /\ \A x \in 1 .. Len(ds) : /\ Names(o, ds)[x].of = o.of /\ Names(o, ds)[x].nr = o.nr
                                    /\ Names(o, ds)[x].what = ds[x]
<1>1. Len(ds) \in Nat /\ DOMAIN ds = 1 .. Len(ds) /\ \A x \in 1 .. Len(ds) : ds[x] \in AllWhats
  BY LenProperties, ElementOfSeq
<1> DEFINE l == Len(ds)
           n == [i \in 1 .. l |-> [of |-> o.of, nr |-> o.nr, what |-> ds[i]]]
<1>2. Names(o, ds) = n
  BY <1>1 DEF Names
<1> HIDE DEF l
<1>3. \A x \in 1 .. l : /\ n[x].of = o.of /\ n[x].nr = o.nr /\ n[x].what = ds[x]
  OBVIOUS
<1>4. n \in [1 .. l -> Labels]
  BY <1>1 DEF Labels, l
<1>5. l \in Nat
  BY <1>1 DEF l
<1>6. n \in Seq(Labels) /\ Len(n) = l
  BY <1>4, <1>5
<1> HIDE DEF n
<1> QED BY <1>1, <1>2, <1>3, <1>5, <1>6 DEF l

\* The objects that are built, the newest first.
NewestFirst(bs) ==
  /\ bs \in Seq([of : Objects, nr : Int])
  /\ \A i, j \in 1 .. Len(bs) : i < j => OfRank(bs[j].of) =< OfRank(bs[i].of)

AllDestructors(bs) == FlattenSeq([i \in DOMAIN bs |-> Names(bs[i], Destructor(bs[i].of))])

\* d gives back, an object after the other, all that the objects of bs may hold.
GivesBack(d, bs) ==
  /\ d \in Seq(Labels)
  /\ \A a \in 1 .. Len(d) : \E i \in 1 .. Len(bs) : d[a].of = bs[i].of /\ d[a].nr = bs[i].nr
  /\ \A i \in 1 .. Len(bs) : \A w \in Whats(bs[i].of) :
       \E a \in 1 .. Len(d) : d[a].of = bs[i].of /\ d[a].nr = bs[i].nr /\ d[a].what = w
  /\ \A r, s : Own(r, s) =>
       \A a \in 1 .. Len(d) : Named(d[a], s) /\ r.nr = s.nr =>
         \E b \in 1 .. Len(d) : b < a /\ Named(d[b], r)
  /\ \A a, b \in 1 .. Len(d) : a < b => OfRank(d[b].of) =< OfRank(d[a].of)

\* The order of numbers is total.
LEMMA OrderIsTotal == \A x, y \in Int : x < y \/ y < x \/ x = y
OBVIOUS

\* The destructors, run in the reverse order of the declarations, give back what any of
\* the finished objects may hold, the newest object first.
LEMMA DestructorsAre ==
  ASSUME NEW bs, NewestFirst(bs)
  PROVE  GivesBack(AllDestructors(bs), bs)
<1> DEFINE n == Len(bs)
           ss == [i \in DOMAIN bs |-> Names(bs[i], Destructor(bs[i].of))]
           d == AllDestructors(bs)
<1>1. n \in Nat /\ DOMAIN bs = 1 .. n /\ \A i \in 1 .. n : bs[i].of \in Objects /\ bs[i].nr \in Int
  <2>1. bs \in Seq([of : Objects, nr : Int])
    BY DEF NewestFirst
  <2>2. n \in Nat /\ DOMAIN bs = 1 .. n /\ \A i \in 1 .. n : bs[i] \in [of : Objects, nr : Int]
    BY <2>1, LenProperties, ElementOfSeq
  <2> QED BY <2>2
<1>2. DOMAIN ss = 1 .. n /\ Len(ss) = n
  BY <1>1
<1>3. d = FlattenSeq(ss)
  BY DEF AllDestructors
<1>4. \A i \in 1 .. n : ss[i] = Names(bs[i], Destructor(bs[i].of))
  BY <1>1
<1> HIDE DEF ss, d
<1>5. \A i \in 1 .. n : Lists(Destructor(bs[i].of), bs[i].of) /\ Sorted(Destructor(bs[i].of), bs[i].of)
  BY <1>1, DestructorIs
<1>6. ASSUME NEW i \in 1 .. n
      PROVE  /\ ss[i] \in Seq(Labels) /\ Len(ss[i]) = Len(Destructor(bs[i].of)) /\ Len(ss[i]) \in Nat
             /\ \A x \in 1 .. Len(ss[i]) : /\ ss[i][x].of = bs[i].of /\ ss[i][x].nr = bs[i].nr
                                           /\ ss[i][x].what = Destructor(bs[i].of)[x]
  <2>1. Destructor(bs[i].of) \in Seq(AllWhats)
    BY <1>5 DEF Lists
  <2>2. bs[i].of \in Objects \cup {"run"} /\ bs[i].nr \in Int
    BY <1>1
  <2> DEFINE ds == Destructor(bs[i].of)
             o == bs[i]
  <2>3. ss[i] = Names(o, ds) /\ ds \in Seq(AllWhats) /\ o.of \in Objects \cup {"run"} /\ o.nr \in Int
    BY <1>4, <2>1, <2>2
  <2> HIDE DEF ds, o
  <2>4. /\ ss[i] \in Seq(Labels) /\ Len(ss[i]) = Len(ds) /\ Len(ds) \in Nat
        /\ \A x \in 1 .. Len(ds) : /\ ss[i][x].of = o.of /\ ss[i][x].nr = o.nr
                                   /\ ss[i][x].what = ds[x]
    BY <2>3, NamesAre
  <2> QED BY <2>4 DEF ds, o
<1>7. d \in Seq(Labels) /\ InBlocks(d, ss, n)
  BY <1>1, <1>2, <1>3, <1>6, FlattenBlocks
<1>8. PICK b, p : Laid(d, ss, n, b, p)
  BY <1>7 DEF InBlocks
<1>a. \A a \in 1 .. Len(d) : /\ b[a] \in 1 .. n /\ p[a] \in 1 .. Len(ss[b[a]])
                             /\ d[a] = ss[b[a]][p[a]]
  BY <1>8 DEF Laid
<1>b. \A a1, a2 \in 1 .. Len(d) :
        a1 < a2 => b[a1] < b[a2] \/ (b[a1] = b[a2] /\ p[a1] < p[a2])
  BY <1>8 DEF Laid
<1>c. \A i \in 1 .. n : \A j \in 1 .. Len(ss[i]) :
        \E a \in 1 .. Len(d) : b[a] = i /\ p[a] = j
  BY <1>8 DEF Laid
<1>d. \A a \in 1 .. Len(d) : /\ d[a].of = bs[b[a]].of /\ d[a].nr = bs[b[a]].nr
                             /\ d[a].what = Destructor(bs[b[a]].of)[p[a]]
  <2> SUFFICES ASSUME NEW a \in 1 .. Len(d)
               PROVE  /\ d[a].of = bs[b[a]].of /\ d[a].nr = bs[b[a]].nr
                      /\ d[a].what = Destructor(bs[b[a]].of)[p[a]]
    OBVIOUS
  <2> DEFINE i == b[a]
             x == p[a]
  <2>1. i \in 1 .. n /\ x \in 1 .. Len(ss[i]) /\ d[a] = ss[i][x]
    BY <1>a
  <2> HIDE DEF i, x
  <2>2. /\ ss[i][x].of = bs[i].of /\ ss[i][x].nr = bs[i].nr
        /\ ss[i][x].what = Destructor(bs[i].of)[x]
    BY <2>1, <1>6
  <2> QED BY <2>1, <2>2 DEF i, x
<1>9. ASSUME NEW i \in 1 .. n, NEW w \in Whats(bs[i].of)
      PROVE  \E a \in 1 .. Len(d) : d[a].of = bs[i].of /\ d[a].nr = bs[i].nr /\ d[a].what = w
  <2>1. PICK x \in 1 .. Len(Destructor(bs[i].of)) : Destructor(bs[i].of)[x] = w
    BY <1>5 DEF Lists
  <2>2. x \in 1 .. Len(ss[i])
    BY <1>6
  <2>3. PICK a \in 1 .. Len(d) : b[a] = i /\ p[a] = x
    BY <2>2, <1>c
  <2> QED BY <2>1, <2>3, <1>d
<1>10. ASSUME NEW r, NEW s, Own(r, s), NEW a \in 1 .. Len(d), Named(d[a], s), r.nr = s.nr
       PROVE  \E a2 \in 1 .. Len(d) : a2 < a /\ Named(d[a2], r)
  <2> DEFINE i == b[a]
             of == bs[i].of
  <2>1. i \in 1 .. n /\ p[a] \in 1 .. Len(ss[i]) /\ of = s.of /\ bs[i].nr = s.nr
        /\ Destructor(of)[p[a]] = s.what
    BY <1>10, <1>a, <1>d DEF Named
  <2>2. r.of = s.of
    BY <1>10 DEF Own
  <2>3. Sorted(Destructor(of), of) /\ Len(ss[i]) = Len(Destructor(of)) /\ Len(ss[i]) \in Nat
    BY <2>1, <1>5, <1>6
  <2>i. i = b[a] /\ of = bs[i].of
    OBVIOUS
  <2> HIDE DEF of, i
  <2>4. PICK x \in 1 .. Len(Destructor(of)) : x < p[a] /\ Destructor(of)[x] = r.what
    BY <1>10, <2>1, <2>2, <2>3 DEF Sorted
  <2>5. PICK a2 \in 1 .. Len(d) : b[a2] = i /\ p[a2] = x
    BY <2>1, <2>3, <2>4, <1>c
  <2>6. Named(d[a2], r)
    BY <2>1, <2>2, <2>4, <2>5, <2>i, <1>10, <1>d DEF Named
  <2>7. a2 < a
    <3>1. a2 \in Int /\ a \in Int /\ i \in Int /\ x \in Int /\ p[a] \in Int
      BY <2>1
    <3>2. ~ (a < a2)
      <4>1. a < a2 => i < i \/ p[a] < x
        BY <1>b, <2>5, <2>i
      <4> QED BY <3>1, <4>1, <2>4, LessIsStrict, Zenon
    <3>3. a # a2
      BY <2>4, <2>5, <3>1, LessIsStrict, Zenon
    <3> QED BY <3>1, <3>2, <3>3, OrderIsTotal, Zenon
  <2> QED BY <2>6, <2>7
<1>11. ASSUME NEW a1 \in 1 .. Len(d), NEW a2 \in 1 .. Len(d), a1 < a2
       PROVE  OfRank(d[a2].of) =< OfRank(d[a1].of)
  <2>1. b[a1] < b[a2] \/ b[a1] = b[a2]
    BY <1>b, <1>11
  <2>2. CASE b[a1] < b[a2]
    BY <2>2, <1>a, <1>d DEF NewestFirst
  <2>3. CASE b[a1] = b[a2]
    <3>1. d[a1].of = d[a2].of
      BY <2>3, <1>d
    <3>2. \A x \in Int : x =< x
      OBVIOUS
    <3> QED BY <3>1, <3>2, RankType, Zenon
  <2> QED BY <2>1, <2>2, <2>3
<1>12. \A a \in 1 .. Len(d) : \E i \in 1 .. n : d[a].of = bs[i].of /\ d[a].nr = bs[i].nr
  BY <1>a, <1>d
<1> QED BY <1>7, <1>9, <1>10, <1>11, <1>12 DEF GivesBack, d

-----------------------------------------------------------------------------
(* The handlers, and what it means that a list of releases is right. *)

\* Less and not more are opposites.
LEMMA NotBoth == \A x, y \in Int : ~ (x < y /\ y =< x)
OBVIOUS

\* c gives back all of h, and nothing before what needs it.
Unwinds(c, h) ==
  /\ c \in Seq(Labels)
  /\ \A r \in h : \E a \in 1 .. Len(c) : Named(c[a], r)
  /\ \A r, s \in h : Needs(r, s) =>
       \A a \in 1 .. Len(c) : Named(c[a], s) =>
         \E b \in 1 .. Len(c) : b < a /\ Named(c[b], r)

Built(bs, of, nr) == \E i \in 1 .. Len(bs) : bs[i].of = of /\ bs[i].nr = nr

\* bs are the objects that the first p steps of s complete.
Finishes(bs, s, p) ==
  /\ \A i \in 1 .. Len(bs) : \E j \in 1 .. p : s[j].kind = "complete" /\ SameObject(s[j], bs[i])
  /\ \A j \in 1 .. p : s[j].kind = "complete" => Built(bs, s[j].of, s[j].nr)

\* h was asked for by the first p steps of s.
Holds(h, s, p) == \A r \in h : \E i \in 1 .. p : s[i].what # "" /\ r = Granted(s[i])

\* What is left of the object that s was building when it stopped after p steps.
Halfway(pre, bs, s, p) ==
  \/ pre = <<>> /\ (p < Len(s) => Built(bs, s[p + 1].of, s[p + 1].nr))
  \/ /\ p < Len(s) /\ ~ Built(bs, s[p + 1].of, s[p + 1].nr) /\ s[p + 1].kind # "complete"
     /\ pre = Names(Object(s[p + 1]), Rollback(s[p + 1].of))

\* Step i of s asked for something, and the object it is for has not been built.
Unbuilt(s, p, bs, i) ==
  /\ Good(s) /\ p \in 0 .. Len(s) /\ Finishes(bs, s, p)
  /\ i \in 1 .. p /\ s[i].what # "" /\ ~ Built(bs, s[i].of, s[i].nr)

\* Step p + 1 works on the object of step i.
Next1(s, p, i) ==
  /\ p < Len(s) /\ p + 1 \in 1 .. Len(s)
  /\ s[p + 1].of = s[i].of /\ s[p + 1].nr = s[i].nr
  /\ LastOfSource(s[i]) => s[p + 1].kind = "complete"

\* Everything held belongs to an object that is built, or to the one being built.
LEMMA Covered ==
  ASSUME NEW s, NEW p, NEW bs, NEW i, Unbuilt(s, p, bs, i)
  PROVE  Next1(s, p, i)
<1> DEFINE n == Len(s)
<1>0. s \in Seq(Steps) /\ n \in Nat
  <2>1. s \in Seq(Steps)
    BY DEF Unbuilt, Good
  <2> QED BY <2>1, LenProperties
<1>1. p \in 0 .. n /\ i \in 1 .. p
  BY DEF Unbuilt
<1>n. n = Len(s)
  OBVIOUS
<1> HIDE DEF n
<1>b. i \in 1 .. n /\ p \in Nat /\ i \in Nat
  BY <1>0, <1>1
<1>2. s[i].of # "run" /\ (Made(s, i) \/ Soon(s, i))
      /\ (LastOfSource(s[i]) => i + 1 \in 1 .. n /\ s[i + 1].kind = "complete")
  <2>1. Good(s) /\ s[i].what # ""
    BY DEF Unbuilt
  <2>2. StepOK(s[i])
    BY <1>b, <1>n, <2>1 DEF Good
  <2>3. s[i].of # "run"
    BY <2>1, <2>2, ProperGranted
  <2> QED BY <1>b, <1>n, <2>1, <2>3 DEF Good
<1>3. \A j \in 1 .. p : s[j].kind = "complete" => ~ SameObject(s[j], s[i])
  BY DEF Unbuilt, Finishes, SameObject
<1>4. ~ Made(s, i)
  <2>1. \A j \in 1 .. n : j < i => j \in 1 .. p
    BY <1>0, <1>1
  <2> QED BY <1>n, <1>3, <2>1 DEF Made
<1>5. PICK j \in 1 .. n :
        /\ i =< j /\ s[j].kind = "complete"
        /\ \A l \in 1 .. n : i =< l /\ l =< j => SameObject(s[l], s[i])
  BY <1>2, <1>4, <1>n DEF Soon
<1>a. j \in Nat /\ i =< j /\ j =< n
  BY <1>0, <1>5
<1>6. j \notin 1 .. p
  <2>1. j =< j
    BY <1>a
  <2>2. SameObject(s[j], s[i])
    BY <1>5, <2>1
  <2> QED BY <2>2, <1>3, <1>5
<1>c. \A x \in 1 .. n : x \notin 1 .. p => p < n /\ p + 1 \in 1 .. n /\ i =< p + 1 /\ p + 1 =< x
  BY <1>0, <1>1
<1>7. p < n /\ p + 1 \in 1 .. n /\ i =< p + 1 /\ p + 1 =< j
  BY <1>6, <1>c
<1>8. SameObject(s[p + 1], s[i])
  BY <1>5, <1>7
<1>9. LastOfSource(s[i]) => s[p + 1].kind = "complete"
  <2>1. i + 1 \in 1 .. n => i =< i + 1 /\ (i + 1 \in 1 .. p \/ i + 1 = p + 1)
    BY <1>0, <1>1
  <2>2. i + 1 =< p + 1
    BY <1>0, <1>1
  <2>3. i + 1 =< j
    BY <2>2, <1>b, <1>7, <1>a
  <2>4. i + 1 \in 1 .. n => SameObject(s[i + 1], s[i])
    BY <2>1, <2>3, <1>5
  <2> QED BY <1>2, <1>3, <2>1, <2>4
<1> QED BY <1>7, <1>8, <1>9, <1>n DEF SameObject, Next1

\* pre gives back what an unfinished object may hold.
GivesUp(pre, o) ==
  /\ pre \in Seq(Labels)
  /\ \A a \in 1 .. Len(pre) : pre[a].of = o.of /\ pre[a].nr = o.nr
  /\ \A w \in Whats(o.of) : \/ o.of = "source" /\ w = "event"
                            \/ \E a \in 1 .. Len(pre) : pre[a].what = w
  /\ \A r, s : Own(r, s) =>
       \A a \in 1 .. Len(pre) : Named(pre[a], s) /\ r.nr = s.nr =>
         \E b \in 1 .. Len(pre) : b < a /\ Named(pre[b], r)

\* Every handler names all its object may have by then: MmfFrameSource throws for the last
\* time when it asks for its event (MmfFrameSource.cpp:62-68).
LEMMA RollbackIs ==
  ASSUME NEW of \in Objects \cup {"run"}
  PROVE  /\ Rollback(of) \in Seq(AllWhats) /\ Sorted(Rollback(of), of)
         /\ \A w \in Whats(of) : \/ of = "source" /\ w = "event"
                                 \/ \E x \in 1 .. Len(Rollback(of)) : Rollback(of)[x] = w
<1>1. CASE of = "source"
  <2> DEFINE d == <<"view", "mapping">>
  <2>1. Rollback(of) = d
    BY <1>1 DEF Rollback
  <2>2. d \in Seq(AllWhats) /\ Len(d) = 2 /\ d[1] = "view" /\ d[2] = "mapping"
    BY TheWhats
  <2> HIDE DEF d
  <2>3. Sorted(d, of)
    BY <1>1, NothingOwn
  <2>4. Whats(of) = {"event", "view", "mapping"}
    BY <1>1 DEF Whats
  <2>5. 1 \in 1 .. 2 /\ 2 \in 1 .. 2
    OBVIOUS
  <2> QED BY <1>1, <2>1, <2>2, <2>3, <2>4, <2>5
<1>2. CASE of \in Objects \ {"source"}
  <2>1. Rollback(of) = Destructor(of)
    BY <1>2 DEF Rollback
  <2> QED BY <1>2, <2>1, DestructorIs DEF Lists
<1>3. CASE of = "run"
  <2>1. Rollback(of) = <<"object">> /\ Whats(of) = {"object"}
    BY <1>3 DEF Rollback, Destructor, Whats
  <2>2. Lists(Rollback(of), of)
    BY <2>1, TheWhats, ShortList
  <2>3. Sorted(Rollback(of), of)
    BY <1>3, NothingOwn
  <2> QED BY <2>2, <2>3 DEF Lists
<1> QED BY <1>1, <1>2, <1>3

\* So the handler of the unfinished object gives back all that it may hold.
LEMMA GivesUpIs ==
  ASSUME NEW o, o.of \in Objects \cup {"run"}, o.nr \in Int
  PROVE  GivesUp(Names(o, Rollback(o.of)), o)
<1> DEFINE ds == Rollback(o.of)
           pre == Names(o, ds)
<1>1. /\ ds \in Seq(AllWhats) /\ Sorted(ds, o.of)
      /\ \A w \in Whats(o.of) : \/ o.of = "source" /\ w = "event"
                                \/ \E x \in 1 .. Len(ds) : ds[x] = w
  BY RollbackIs
<1> HIDE DEF ds
<1>2. /\ pre \in Seq(Labels) /\ Len(pre) = Len(ds) /\ Len(ds) \in Nat
      /\ \A x \in 1 .. Len(ds) : /\ pre[x].of = o.of /\ pre[x].nr = o.nr
                                 /\ pre[x].what = ds[x]
  BY <1>1, NamesAre
<1> HIDE DEF pre
<1>3. ASSUME NEW r, NEW s, Own(r, s), NEW a \in 1 .. Len(pre), Named(pre[a], s), r.nr = s.nr
      PROVE  \E b \in 1 .. Len(pre) : b < a /\ Named(pre[b], r)
  <2>1. r.of = s.of /\ s.of = o.of /\ s.nr = o.nr /\ ds[a] = s.what /\ a \in 1 .. Len(ds)
    BY <1>2, <1>3 DEF Own, Named
  <2>2. PICK b \in 1 .. Len(ds) : b < a /\ ds[b] = r.what
    BY <1>1, <1>3, <2>1 DEF Sorted
  <2> QED BY <1>2, <1>3, <2>1, <2>2 DEF Named
<1>4. \A w \in Whats(o.of) : \/ o.of = "source" /\ w = "event"
                             \/ \E a \in 1 .. Len(pre) : pre[a].what = w
  BY <1>1, <1>2
<1> QED BY <1>2, <1>3, <1>4 DEF GivesUp, pre, ds

-----------------------------------------------------------------------------
(* The way back from any step. *)

\* c is s, followed by t.
Joint(c, s, t, T) ==
  /\ Len(s) \in Nat /\ Len(t) \in Nat
  /\ c \in Seq(T) /\ Len(c) = Len(s) + Len(t)
  /\ \A i \in 1 .. Len(s) : i \in 1 .. Len(c) /\ c[i] = s[i]
  /\ \A i \in 1 .. Len(t) : i + Len(s) \in 1 .. Len(c) /\ c[i + Len(s)] = t[i]
  /\ \A i \in 1 .. Len(c) :
       i \in 1 .. Len(s) \/ (i > Len(s) /\ i - Len(s) \in 1 .. Len(t)
                             /\ (i - Len(s)) + Len(s) = i)

\* The places of two sequences of anything in their concatenation.
LEMMA PlacesIn ==
  ASSUME NEW T, NEW s \in Seq(T), NEW t \in Seq(T)
  PROVE  Joint(s \o t, s, t, T)
<1>1. Len(s) \in Nat /\ Len(t) \in Nat
  BY LenProperties
<1>2. /\ s \o t \in Seq(T) /\ Len(s \o t) = Len(s) + Len(t)
      /\ \A i \in 1 .. Len(s) + Len(t) : (s \o t)[i] = IF i =< Len(s) THEN s[i] ELSE t[i - Len(s)]
  BY ConcatProperties
<1>3. ASSUME NEW i \in 1 .. Len(t)
      PROVE  /\ i + Len(s) \in 1 .. Len(s \o t) /\ (s \o t)[i + Len(s)] = t[i]
  <2>1. i + Len(s) \in 1 .. Len(s) + Len(t) /\ ~ (i + Len(s) =< Len(s)) /\ (i + Len(s)) - Len(s) = i
    BY <1>1
  <2> QED BY <2>1, <1>2
<1> QED BY <1>1, <1>2, <1>3 DEF Joint

\* s has stopped after p steps.
Stopped(s, p, bs, h, pre) ==
  /\ Good(s) /\ p \in 0 .. Len(s) /\ Finishes(bs, s, p) /\ NewestFirst(bs)
  /\ Holds(h, s, p) /\ Halfway(pre, bs, s, p)

\* r belongs to a finished object, and d has it.
Inside(r, d, bs) == /\ Built(bs, r.of, r.nr)
                    /\ \E b \in 1 .. Len(d) : Named(d[b], r)

\* r belongs to the unfinished object, and pre has it.
Pending(r, pre, s, p) == /\ s[p + 1].of = r.of /\ s[p + 1].nr = r.nr
                         /\ \E b \in 1 .. Len(pre) : Named(pre[b], r)

\* r is what a step before p + 1 asked for.
From(r, s, i) == /\ StepOK(s[i]) /\ s[i].what # "" /\ r = Granted(s[i]) /\ Proper(r)
                 /\ r.of = s[i].of /\ r.nr = s[i].nr /\ r.what = s[i].what

\* pre is the handler of the unfinished object.
Handles(pre, bs, s, p) ==
  /\ p < Len(s) /\ ~ Built(bs, s[p + 1].of, s[p + 1].nr) /\ s[p + 1].kind # "complete"
  /\ GivesUp(pre, Object(s[p + 1]))

\* Everything held is what a step already made has asked for.
LEMMA HeldFrom ==
  ASSUME NEW s, NEW p, NEW bs, NEW h, NEW pre, Stopped(s, p, bs, h, pre), NEW r \in h
  PROVE  \E i \in 1 .. p : i \in 1 .. Len(s) /\ From(r, s, i)
<1>1. PICK i \in 1 .. p : s[i].what # "" /\ r = Granted(s[i])
  BY DEF Stopped, Holds
<1>2. s \in Seq(Steps)
  BY DEF Stopped, Good
<1>3. p \in 0 .. Len(s) /\ Len(s) \in Nat
  BY <1>2, LenProperties DEF Stopped
<1>4. i \in 1 .. Len(s)
  BY <1>3
<1>5. StepOK(s[i])
  BY <1>4 DEF Stopped, Good
<1> QED BY <1>1, <1>4, <1>5, ProperGranted DEF From

\* An exception leaves either a constructor, whose handler runs, or a place where no
\* object is unfinished.
LEMMA Handler ==
  ASSUME NEW s, NEW p, NEW bs, NEW h, NEW pre, Stopped(s, p, bs, h, pre)
  PROVE  /\ \/ pre = <<>> /\ (p < Len(s) => Built(bs, s[p + 1].of, s[p + 1].nr))
            \/ Handles(pre, bs, s, p)
         /\ pre \in Seq(Labels)
<1>1. CASE pre = <<>> /\ (p < Len(s) => Built(bs, s[p + 1].of, s[p + 1].nr))
  BY <1>1, EmptySeq
<1>2. CASE /\ p < Len(s) /\ ~ Built(bs, s[p + 1].of, s[p + 1].nr) /\ s[p + 1].kind # "complete"
           /\ pre = Names(Object(s[p + 1]), Rollback(s[p + 1].of))
  <2>1. s \in Seq(Steps) /\ p \in 0 .. Len(s)
    BY DEF Stopped, Good
  <2>2. p + 1 \in 1 .. Len(s)
    <3>1. Len(s) \in Nat
      BY <2>1, LenProperties
    <3> QED BY <1>2, <2>1, <3>1
  <2>3. s[p + 1] \in Steps
    BY <2>1, <2>2, ElementOfSeq
  <2> DEFINE o == Object(s[p + 1])
  <2>4. o.of \in Objects \cup {"run"} /\ o.nr \in Int /\ o.of = s[p + 1].of
    BY <2>3 DEF Object, Steps
  <2>5. pre = Names(o, Rollback(o.of))
    BY <1>2, <2>4
  <2> HIDE DEF o
  <2>6. GivesUp(pre, o)
    BY <2>4, <2>5, GivesUpIs
  <2>7. Handles(pre, bs, s, p)
    BY <1>2, <2>6 DEF Handles, o
  <2> QED BY <2>6, <2>7 DEF GivesUp
<1> QED BY <1>1, <1>2 DEF Stopped, Halfway

\* Wherever the construction stops, everything held is named by the handler or by one of
\* the destructors.
LEMMA EverythingNamed ==
  ASSUME NEW s, NEW p, NEW bs, NEW h, NEW pre, Stopped(s, p, bs, h, pre), NEW r \in h,
         NEW d, GivesBack(d, bs)
  PROVE  Inside(r, d, bs) \/ (Handles(pre, bs, s, p) /\ Pending(r, pre, s, p))
<1>1. PICK i \in 1 .. p : i \in 1 .. Len(s) /\ From(r, s, i)
  BY HeldFrom
<1>2. r.what \in Whats(r.of)
  BY <1>1 DEF From, Proper
<1>3. CASE Built(bs, r.of, r.nr)
  <2>1. PICK k \in 1 .. Len(bs) : bs[k].of = r.of /\ bs[k].nr = r.nr
    BY <1>3 DEF Built
  <2>2. PICK a \in 1 .. Len(d) : d[a].of = bs[k].of /\ d[a].nr = bs[k].nr /\ d[a].what = r.what
    BY <1>2, <2>1 DEF GivesBack
  <2> QED BY <1>3, <2>1, <2>2 DEF Inside, Named
<1>4. CASE ~ Built(bs, r.of, r.nr)
  <2>1. Unbuilt(s, p, bs, i)
    BY <1>1, <1>4 DEF Unbuilt, Stopped, From
  <2>2. Next1(s, p, i)
    BY <2>1, Covered
  <2>3. s[p + 1].of = r.of /\ s[p + 1].nr = r.nr /\ p < Len(s)
    BY <1>1, <2>2 DEF Next1, From
  <2>4. Handles(pre, bs, s, p)
    BY <1>4, <2>3, Handler
  <2>5. ~ (r.of = "source" /\ r.what = "event")
    <3>1. ~ LastOfSource(s[i])
      BY <2>2, <2>4 DEF Next1, Handles
    <3> QED BY <1>1, <3>1 DEF LastOfSource, From
  <2>6. Object(s[p + 1]).of = r.of /\ Object(s[p + 1]).nr = r.nr
    BY <2>3 DEF Object
  <2>7. PICK b \in 1 .. Len(pre) : pre[b].what = r.what
    BY <1>2, <2>4, <2>5, <2>6 DEF Handles, GivesUp
  <2>8. pre[b].of = r.of /\ pre[b].nr = r.nr
    BY <2>4, <2>6 DEF Handles, GivesUp
  <2> QED BY <2>3, <2>4, <2>7, <2>8 DEF Pending, Named
<1> QED BY <1>3, <1>4

\* Within an object means within the same session.
LEMMA OwnObject ==
  ASSUME NEW r, NEW s, Proper(r), Proper(s), Own(r, s)
  PROVE  r.nr = s.nr
BY DEF Own, Proper

\* The unfinished object is the last of all.
LEMMA PendingIsLast ==
  ASSUME NEW s, NEW p, NEW bs, NEW h, NEW pre, Stopped(s, p, bs, h, pre),
         Handles(pre, bs, s, p), NEW r \in h, s[p + 1].of # "run"
  PROVE  OfRank(r.of) =< OfRank(s[p + 1].of)
<1>1. PICK i \in 1 .. p : i \in 1 .. Len(s) /\ From(r, s, i)
  BY HeldFrom
<1>2. s \in Seq(Steps) /\ p \in 0 .. Len(s) /\ p < Len(s)
  BY DEF Stopped, Good, Handles
<1>3. p + 1 \in 1 .. Len(s) /\ i < p + 1 /\ \A j \in 1 .. Len(s) : j < p + 1 => j \in 1 .. p
  <2>1. Len(s) \in Nat
    BY <1>2, LenProperties
  <2> QED BY <1>2, <2>1
<1>4. s[i].of # "run" /\ r.of = s[i].of
  BY <1>1, ProperGranted DEF From
<1>5. \/ OfRank(s[i].of) =< OfRank(s[p + 1].of)
      \/ Made(s, p + 1) /\ s[p + 1].kind # "complete"
  BY <1>1, <1>3, <1>4 DEF Stopped, Good
<1>6. ~ Made(s, p + 1)
  <2> SUFFICES ASSUME NEW j \in 1 .. p, s[j].kind = "complete", SameObject(s[j], s[p + 1])
               PROVE  FALSE
    BY <1>3 DEF Made
  <2>1. Built(bs, s[p + 1].of, s[p + 1].nr)
    BY DEF Stopped, Finishes, SameObject
  <2> QED BY <2>1 DEF Handles
<1> QED BY <1>4, <1>5, <1>6

\* Wherever the construction stops, the releases name all that is held, and a resource
\* before those it refers to, save the CUDA stream it was given (Needs).
THEOREM UnwindsFrom ==
  ASSUME NEW s, NEW p, NEW bs, NEW h, NEW pre, Stopped(s, p, bs, h, pre)
  PROVE  Unwinds(pre \o AllDestructors(bs), h)
<1> DEFINE d == AllDestructors(bs)
           c == pre \o d
           n == Len(pre)
<1>1. GivesBack(d, bs)
  BY DestructorsAre DEF Stopped
<1>2. pre \in Seq(Labels) /\ d \in Seq(Labels)
  BY <1>1, Handler DEF GivesBack
<1> HIDE DEF d
<1>3. /\ n \in Nat /\ Len(d) \in Nat /\ c \in Seq(Labels)
      /\ \A i \in 1 .. n : i \in 1 .. Len(c) /\ c[i] = pre[i]
      /\ \A i \in 1 .. Len(d) : i + n \in 1 .. Len(c) /\ c[i + n] = d[i]
      /\ \A i \in 1 .. Len(c) :
           i \in 1 .. n \/ (i > n /\ i - n \in 1 .. Len(d) /\ (i - n) + n = i)
  BY <1>2, PlacesIn DEF Joint
<1> HIDE DEF c, n
<1>4. ASSUME NEW r \in h PROVE \E a \in 1 .. Len(c) : Named(c[a], r)
  <2>1. CASE Inside(r, d, bs)
    <3>1. PICK b \in 1 .. Len(d) : Named(d[b], r)
      BY <2>1 DEF Inside
    <3> QED BY <3>1, <1>3
  <2>2. CASE Pending(r, pre, s, p)
    <3>1. PICK b \in 1 .. n : Named(pre[b], r)
      BY <2>2 DEF Pending, n
    <3> QED BY <3>1, <1>3
  <2> QED BY <2>1, <2>2, <1>1, EverythingNamed
<1>5. ASSUME NEW r \in h, NEW t \in h, Needs(r, t), NEW a \in 1 .. Len(c), Named(c[a], t)
      PROVE  \E b \in 1 .. Len(c) : b < a /\ Named(c[b], r)
  <2>1. Proper(r) /\ Proper(t)
    BY HeldFrom DEF From
  <2>2. OfRank(t.of) < OfRank(r.of) \/ Own(r, t)
    BY <1>5, <2>1, RefersDown DEF Needs
  <2>3. CASE a \in 1 .. n
    <3>1. c[a] = pre[a]
      BY <2>3, <1>3
    <3>2. Handles(pre, bs, s, p)
      <4>1. pre # <<>>
        <5> SUFFICES ASSUME pre = <<>> PROVE FALSE
          OBVIOUS
        <5>1. n = 0
          BY EmptySeq DEF n
        <5> QED BY <5>1, <2>3
      <4> QED BY <4>1, Handler
    <3>3. t.of = s[p + 1].of /\ t.nr = s[p + 1].nr
      <4>1. pre[a].of = Object(s[p + 1]).of /\ pre[a].nr = Object(s[p + 1]).nr
        BY <2>3, <3>2 DEF Handles, GivesUp, n
      <4> QED BY <4>1, <3>1, <1>5 DEF Named, Object
    <3>4. CASE Own(r, t)
      <4>1. r.nr = t.nr
        BY <2>1, <3>4, OwnObject
      <4>2. PICK b \in 1 .. n : b < a /\ Named(pre[b], r)
        BY <1>5, <2>3, <3>1, <3>2, <3>4, <4>1 DEF Handles, GivesUp, n
      <4> QED BY <4>2, <1>3
    <3>5. CASE OfRank(t.of) < OfRank(r.of)
      <4>1. s[p + 1].of # "run"
        BY <2>1, <3>3 DEF Proper, Objects
      <4>2. OfRank(r.of) =< OfRank(t.of)
        BY <3>2, <3>3, <4>1, PendingIsLast
      <4> QED BY <3>5, <4>2, RankType, NotBoth, Zenon
    <3> QED BY <2>2, <3>4, <3>5
  <2>4. CASE a > n /\ a - n \in 1 .. Len(d) /\ (a - n) + n = a
    <3> DEFINE a1 == a - n
    <3>1. a1 \in 1 .. Len(d) /\ a1 + n = a
      BY <2>4
    <3> HIDE DEF a1
    <3>2. Named(d[a1], t)
      <4>1. c[a1 + n] = d[a1]
        BY <3>1, <1>3
      <4> QED BY <3>1, <4>1, <1>5
    <3>3. ASSUME NEW b \in 1 .. Len(d), b < a1, Named(d[b], r)
          PROVE  \E e \in 1 .. Len(c) : e < a /\ Named(c[e], r)
      <4>1. b + n \in 1 .. Len(c) /\ c[b + n] = d[b]
        BY <1>3
      <4>2. b + n < a
        BY <3>1, <3>3, <1>3
      <4> QED BY <3>3, <4>1, <4>2
    <3>4. CASE Own(r, t)
      <4>1. r.nr = t.nr
        BY <2>1, <3>4, OwnObject
      <4>2. PICK b \in 1 .. Len(d) : b < a1 /\ Named(d[b], r)
        BY <1>1, <3>1, <3>2, <3>4, <4>1 DEF GivesBack
      <4> QED BY <4>2, <3>3
    <3>5. CASE OfRank(t.of) < OfRank(r.of)
      <4>1. CASE Inside(r, d, bs)
        <5>1. PICK b \in 1 .. Len(d) : Named(d[b], r)
          BY <4>1 DEF Inside
        <5>2. d[b].of = r.of /\ d[a1].of = t.of
          BY <5>1, <3>2 DEF Named
        <5>3. a1 < b => OfRank(r.of) =< OfRank(t.of)
          BY <1>1, <3>1, <5>2 DEF GivesBack
        <5>4. ~ (a1 < b)
          BY <3>5, <5>3, RankType, NotBoth, Zenon
        <5>5. a1 # b
          <6> SUFFICES ASSUME a1 = b PROVE FALSE
            OBVIOUS
          <6>1. OfRank(r.of) = OfRank(t.of)
            BY <5>2
          <6> QED BY <6>1, <3>5, RankType, LessIsStrict, Zenon
        <5>6. b < a1
          <6>1. b \in Int /\ a1 \in Int
            BY <3>1
          <6> QED BY <6>1, <5>4, <5>5, OrderIsTotal, Zenon
        <5> QED BY <5>1, <5>6, <3>3
      <4>2. CASE Pending(r, pre, s, p)
        <5>1. PICK b \in 1 .. n : Named(pre[b], r)
          BY <4>2 DEF Pending, n
        <5>2. b < a
          BY <2>4, <1>3
        <5> QED BY <5>1, <5>2, <1>3
      <4> QED BY <4>1, <4>2, <1>1, EverythingNamed
    <3> QED BY <2>2, <3>4, <3>5
  <2> QED BY <2>3, <2>4, <1>3
<1> QED BY <1>3, <1>4, <1>5 DEF Unwinds, c, d

-----------------------------------------------------------------------------
(* One step of the construction. *)

\* p steps of s are made, td are the others.
At(s, p, td, bs, h) ==
  /\ p \in 0 .. Len(s) /\ td \in Seq(Steps) /\ Len(td) = Len(s) - p
  /\ \A i \in 1 .. Len(td) : td[i] = s[i + p]
  /\ \A i \in 1 .. p : s[i].kind # "fail"
  /\ Finishes(bs, s, p) /\ NewestFirst(bs) /\ Holds(h, s, p)

\* The step to be made.
Due(s, p, x) == p + 1 \in 1 .. Len(s) /\ x = s[p + 1] /\ StepOK(x)

\* The first of the steps left is the step after those made.
LEMMA HeadIsDue ==
  ASSUME NEW s, NEW p, NEW td, NEW bs, NEW h, Good(s), At(s, p, td, bs, h), td # <<>>
  PROVE  Due(s, p, Head(td)) /\ Head(td) \in Steps /\ Tail(td) \in Seq(Steps)
<1>1. p \in 0 .. Len(s) /\ td \in Seq(Steps) /\ Len(td) = Len(s) - p
      /\ \A i \in 1 .. Len(td) : td[i] = s[i + p]
  BY DEF At
<1>2. Len(s) \in Nat /\ Len(td) \in Nat \ {0}
  <2>1. s \in Seq(Steps)
    BY DEF Good
  <2> QED BY <2>1, <1>1, EmptySeq, LenProperties
<1>3. Head(td) = td[1] /\ Head(td) \in Steps /\ Tail(td) \in Seq(Steps)
  BY <1>1, <1>2, HeadTailProperties, ElementOfSeq
<1>4. 1 \in 1 .. Len(td) /\ 1 + p = p + 1 /\ p + 1 \in 1 .. Len(s)
  BY <1>1, <1>2
<1>5. Head(td) = s[p + 1]
  BY <1>1, <1>3, <1>4
<1> QED BY <1>3, <1>4, <1>5 DEF Due, Good

\* x comes next, the objects finished so far are bs.
Coming(s, p, bs, x) == /\ Good(s) /\ Due(s, p, x) /\ p \in Nat
                       /\ Finishes(bs, s, p) /\ NewestFirst(bs)

\* c is bs with the new object o in front.
InFront(c, o, bs) ==
  /\ \A i \in 1 .. Len(c) : c[i] = o \/ \E j \in 1 .. Len(bs) : c[i] = bs[j]
  /\ \A j \in 1 .. Len(bs) : \E i \in 1 .. Len(c) : c[i] = bs[j]
  /\ \E i \in 1 .. Len(c) : c[i] = o

\* An object that is complete now comes from a rank no finished object is above.
LEMMA NewestAdd ==
  ASSUME NEW s, NEW p, NEW bs, NEW x, Coming(s, p, bs, x), x.kind = "complete"
  PROVE  NewestFirst(<<Object(x)>> \o bs) /\ InFront(<<Object(x)>> \o bs, Object(x), bs)
<1> DEFINE o == Object(x)
           a == <<o>>
           c == a \o bs
           T == [of : Objects, nr : Int]
<1>0. Good(s) /\ Due(s, p, x) /\ p \in Nat /\ Finishes(bs, s, p) /\ NewestFirst(bs)
  BY DEF Coming
<1>1. o \in T /\ x.of # "run" /\ o.of = x.of
  <2>1. x \in Steps /\ StepOK(x)
    BY <1>0 DEF Due, StepOK
  <2>2. x.of \in Objects /\ x.of # "run"
    BY <2>1 DEF StepOK, Objects
  <2>3. x.nr \in Int
    BY <2>1 DEF Steps
  <2> QED BY <2>2, <2>3 DEF Object
<1> HIDE DEF o
<1>2. a \in Seq(T) /\ Len(a) = 1 /\ a[1] = o
  BY <1>1
<1>3. bs \in Seq(T)
  BY <1>0 DEF NewestFirst
<1> HIDE DEF a, T
<1>4. /\ Len(bs) \in Nat /\ c \in Seq(T) /\ Len(c) = 1 + Len(bs) /\ 1 \in 1 .. Len(c) /\ c[1] = o
      /\ \A i \in 1 .. Len(bs) : i + 1 \in 1 .. Len(c) /\ c[i + 1] = bs[i]
      /\ \A i \in 1 .. Len(c) : i = 1 \/ (i > 1 /\ i - 1 \in 1 .. Len(bs) /\ (i - 1) + 1 = i)
  <2>1. 1 \in 1 .. 1
    OBVIOUS
  <2>2. \A i \in 1 .. 1 : i = 1
    OBVIOUS
  <2>c. c = a \o bs
    OBVIOUS
  <2> HIDE DEF c
  <2>3. Joint(c, a, bs, T)
    BY <1>2, <1>3, <2>c, PlacesIn
  <2> QED BY <1>2, <2>1, <2>2, <2>3 DEF Joint
<1> HIDE DEF c
<1>5. \A j \in 1 .. Len(bs) : OfRank(bs[j].of) =< OfRank(o.of)
  <2> SUFFICES ASSUME NEW j \in 1 .. Len(bs) PROVE OfRank(bs[j].of) =< OfRank(o.of)
    OBVIOUS
  <2>1. PICK i \in 1 .. p : s[i].kind = "complete" /\ SameObject(s[i], bs[j])
    BY <1>0 DEF Finishes
  <2>2. i \in 1 .. Len(s) /\ p + 1 \in 1 .. Len(s) /\ i < p + 1
    <3>1. s \in Seq(Steps) /\ p + 1 \in 1 .. Len(s)
      BY <1>0 DEF Good, Due
    <3>2. Len(s) \in Nat
      BY <3>1, LenProperties
    <3> QED BY <1>0, <3>1, <3>2
  <2>3. StepOK(s[i])
    BY <1>0, <2>2 DEF Good
  <2>4. s[i].of # "run" /\ s[p + 1] = x
    BY <1>0, <2>1, <2>3 DEF StepOK, Due
  <2>5. \/ OfRank(s[i].of) =< OfRank(s[p + 1].of)
        \/ Made(s, p + 1) /\ s[p + 1].kind # "complete"
    BY <1>0, <2>2, <2>4, <1>1 DEF Good
  <2> QED BY <2>1, <2>4, <2>5, <1>1 DEF SameObject
<1>6. ASSUME NEW i \in 1 .. Len(c), NEW j \in 1 .. Len(c), i < j
      PROVE  OfRank(c[j].of) =< OfRank(c[i].of)
  <2>1. j > 1 /\ j - 1 \in 1 .. Len(bs) /\ (j - 1) + 1 = j
    BY <1>4, <1>6
  <2>2. c[j] = bs[j - 1]
    BY <1>4, <2>1
  <2>3. CASE i = 1
    <3>1. OfRank(bs[j - 1].of) =< OfRank(o.of)
      BY <1>5, <2>1
    <3> QED BY <1>4, <2>2, <2>3, <3>1
  <2>4. CASE i > 1 /\ i - 1 \in 1 .. Len(bs) /\ (i - 1) + 1 = i
    <3>1. c[i] = bs[i - 1]
      BY <1>4, <2>4
    <3>2. i - 1 < j - 1
      BY <1>4, <1>6
    <3>3. OfRank(bs[j - 1].of) =< OfRank(bs[i - 1].of)
      BY <1>0, <2>1, <2>4, <3>2 DEF NewestFirst
    <3> QED BY <2>2, <3>1, <3>3
  <2> QED BY <2>3, <2>4, <1>4
<1>7. NewestFirst(c)
  BY <1>4, <1>6 DEF NewestFirst, T
<1>8. InFront(c, o, bs)
  <2>1. ASSUME NEW i \in 1 .. Len(c)
        PROVE  c[i] = o \/ \E j \in 1 .. Len(bs) : c[i] = bs[j]
    <3>1. CASE i = 1
      BY <1>4, <3>1
    <3>2. CASE i > 1 /\ i - 1 \in 1 .. Len(bs) /\ (i - 1) + 1 = i
      <4>1. c[i] = bs[i - 1]
        BY <1>4, <3>2
      <4> QED BY <3>2, <4>1
    <3> QED BY <1>4, <2>1, <3>1, <3>2
  <2>2. ASSUME NEW j \in 1 .. Len(bs)
        PROVE  \E i \in 1 .. Len(c) : c[i] = bs[j]
    BY <1>4, <2>2
  <2>3. \E i \in 1 .. Len(c) : c[i] = o
    BY <1>4
  <2> QED BY <2>1, <2>2, <2>3 DEF InFront
<1> QED BY <1>7, <1>8 DEF c, a, o

\* What Advance does to the finished objects.
BuiltThen(bs, x) == IF x.kind = "complete" THEN <<Object(x)>> \o bs ELSE bs

\* The finished objects are those completed by the steps made, one step later as well.
LEMMA FinishesNext ==
  ASSUME NEW s, NEW p, NEW bs, NEW x, Coming(s, p, bs, x)
  PROVE  Finishes(BuiltThen(bs, x), s, p + 1) /\ NewestFirst(BuiltThen(bs, x))
<1>a. Good(s) /\ Due(s, p, x) /\ p \in Nat /\ Finishes(bs, s, p) /\ NewestFirst(bs)
  BY DEF Coming
<1>0. x = s[p + 1] /\ p + 1 \in 1 .. p + 1
  BY <1>a DEF Due
<1>1. \A j \in 1 .. p : j \in 1 .. p + 1
  BY <1>a
<1>2. \A j \in 1 .. p + 1 : j \in 1 .. p \/ j = p + 1
  BY <1>a
<1>3. CASE x.kind # "complete"
  <2>1. BuiltThen(bs, x) = bs
    BY <1>3 DEF BuiltThen
  <2>2. \A i \in 1 .. Len(bs) : \E j \in 1 .. p + 1 : s[j].kind = "complete" /\ SameObject(s[j], bs[i])
    BY <1>a, <1>1 DEF Finishes
  <2>3. \A j \in 1 .. p + 1 : s[j].kind = "complete" => Built(bs, s[j].of, s[j].nr)
    BY <1>a, <1>0, <1>2, <1>3 DEF Finishes
  <2> QED BY <1>a, <2>1, <2>2, <2>3 DEF Finishes
<1>4. CASE x.kind = "complete"
  <2> DEFINE c == <<Object(x)>> \o bs
  <2>1. BuiltThen(bs, x) = c
    BY <1>4 DEF BuiltThen
  <2>2. /\ NewestFirst(c)
        /\ \A i \in 1 .. Len(c) : c[i] = Object(x) \/ \E j \in 1 .. Len(bs) : c[i] = bs[j]
        /\ \A j \in 1 .. Len(bs) : \E i \in 1 .. Len(c) : c[i] = bs[j]
        /\ \E i \in 1 .. Len(c) : c[i] = Object(x)
    BY <1>4, NewestAdd DEF InFront
  <2> HIDE DEF c
  <2>3. ASSUME NEW i \in 1 .. Len(c)
        PROVE  \E j \in 1 .. p + 1 : s[j].kind = "complete" /\ SameObject(s[j], c[i])
    <3>1. CASE c[i] = Object(x)
      <4>1. s[p + 1].kind = "complete" /\ SameObject(s[p + 1], c[i])
        BY <1>0, <1>4, <3>1 DEF SameObject, Object
      <4> QED BY <1>0, <4>1
    <3>2. CASE \E k \in 1 .. Len(bs) : c[i] = bs[k]
      <4>1. PICK k \in 1 .. Len(bs) : c[i] = bs[k]
        BY <3>2
      <4>2. PICK j \in 1 .. p : s[j].kind = "complete" /\ SameObject(s[j], bs[k])
        BY <1>a DEF Finishes
      <4> QED BY <1>1, <4>1, <4>2
    <3> QED BY <2>2, <3>1, <3>2
  <2>4. ASSUME NEW j \in 1 .. p + 1, s[j].kind = "complete"
        PROVE  Built(c, s[j].of, s[j].nr)
    <3>1. CASE j = p + 1
      <4>1. PICK i \in 1 .. Len(c) : c[i] = Object(x)
        BY <2>2
      <4> QED BY <1>0, <3>1, <4>1 DEF Built, Object
    <3>2. CASE j \in 1 .. p
      <4>1. PICK k \in 1 .. Len(bs) : bs[k].of = s[j].of /\ bs[k].nr = s[j].nr
        BY <1>a, <2>4, <3>2 DEF Finishes, Built
      <4>2. PICK i \in 1 .. Len(c) : c[i] = bs[k]
        BY <2>2
      <4> QED BY <4>1, <4>2 DEF Built
    <3> QED BY <1>2, <3>1, <3>2
  <2> QED BY <2>1, <2>2, <2>3, <2>4 DEF Finishes
<1> QED BY <1>3, <1>4

\* A step that can be made is due.
Ready(s, p, td, bs, h) == /\ Good(s) /\ At(s, p, td, bs, h)
                          /\ td # <<>> /\ Head(td).kind # "fail"

\* What x adds to the resources.
Grants(x, g) == g = {} \/ (g = {Granted(x)} /\ x.what # "")

\* One step made, the rest left.
LEMMA AtNext ==
  ASSUME NEW s, NEW p, NEW td, NEW bs, NEW h, NEW g,
         Ready(s, p, td, bs, h), Grants(Head(td), g)
  PROVE  At(s, p + 1, Tail(td), BuiltThen(bs, Head(td)), h \cup g)
<1> DEFINE x == Head(td)
           y == Tail(td)
           n == Len(s)
<1>0. Good(s) /\ At(s, p, td, bs, h) /\ td # <<>> /\ x.kind # "fail"
  BY DEF Ready
<1>1. Due(s, p, x) /\ y \in Seq(Steps)
  BY <1>0, HeadIsDue
<1>2. /\ p \in 0 .. n /\ td \in Seq(Steps) /\ Len(td) = n - p
      /\ \A i \in 1 .. Len(td) : td[i] = s[i + p]
      /\ \A i \in 1 .. p : s[i].kind # "fail"
      /\ Finishes(bs, s, p) /\ NewestFirst(bs) /\ Holds(h, s, p)
  BY <1>0 DEF At
<1>3. n \in Nat
  <2>1. s \in Seq(Steps)
    BY <1>0 DEF Good
  <2> QED BY <2>1, LenProperties
<1>t. Len(y) = Len(td) - 1 /\ \A i \in 1 .. Len(y) : y[i] = td[i + 1]
  BY <1>0, <1>2, HeadTailProperties
<1>x. Grants(x, g)
  OBVIOUS
<1>n. n = Len(s)
  OBVIOUS
<1> HIDE DEF x, y, n
<1>p. p + 1 \in 1 .. n /\ x = s[p + 1]
  BY <1>1, <1>n DEF Due
<1>4. p \in Nat /\ p + 1 \in 0 .. n /\ p + 1 \in 1 .. p + 1
      /\ \A j \in 1 .. p + 1 : j \in 1 .. p \/ j = p + 1
  BY <1>2, <1>3, <1>p
<1>5. /\ Len(y) = n - (p + 1)
      /\ \A i \in 1 .. Len(y) : y[i] = s[i + (p + 1)]
  <2>2. Len(y) = n - (p + 1)
    BY <1>t, <1>2, <1>3, <1>4
  <2>3. ASSUME NEW i \in 1 .. Len(y)
        PROVE  y[i] = s[i + (p + 1)]
    <3>1. i + 1 \in 1 .. Len(td) /\ (i + 1) + p = i + (p + 1)
      BY <1>t, <1>2, <1>3, <1>4
    <3>2. td[i + 1] = s[(i + 1) + p]
      BY <3>1, <1>2
    <3> QED BY <1>t, <3>1, <3>2
  <2> QED BY <2>2, <2>3
<1>6. \A i \in 1 .. p + 1 : s[i].kind # "fail"
  BY <1>0, <1>2, <1>4, <1>p
<1>7. Finishes(BuiltThen(bs, x), s, p + 1) /\ NewestFirst(BuiltThen(bs, x))
  <2>1. Coming(s, p, bs, x)
    BY <1>0, <1>1, <1>2, <1>4 DEF Coming
  <2> QED BY <2>1, FinishesNext
<1>8. Holds(h \cup g, s, p + 1)
  <2>1. \A j \in 1 .. p : j \in 1 .. p + 1
    BY <1>4
  <2>2. \A r \in h : \E i \in 1 .. p + 1 : s[i].what # "" /\ r = Granted(s[i])
    BY <1>2, <2>1 DEF Holds
  <2>3. \A r \in g : r = Granted(s[p + 1]) /\ s[p + 1].what # ""
    BY <1>x, <1>p DEF Grants
  <2>4. \A r \in g : \E i \in 1 .. p + 1 : s[i].what # "" /\ r = Granted(s[i])
    BY <2>3, <1>4
  <2> QED BY <2>2, <2>4 DEF Holds
<1> QED BY <1>1, <1>4, <1>5, <1>6, <1>7, <1>8, <1>n DEF At, x, y

-----------------------------------------------------------------------------
(* The configuration. *)

\* The sizes of the strip and the patches.
Measured(c) == /\ c.stripWidth \in Nat /\ c.stripHeight \in Nat /\ c.channels \in Nat
               /\ c.patchHeight \in Nat /\ c.overlap \in Nat /\ c.count \in Nat

\* What ReadIs is about.
PlainField(f) == f \in DOMAIN U32Key /\ f # "slots" /\ f \notin DOMAIN PlainKey

\* What LoadFromIni reads with U32 is in its range.
LEMMA ReadIs ==
  ASSUME NEW e, NEW f, PlainField(f), KeysInRange(e)
  PROVE  Read(e)[f] \in U32Key[f].min .. U32Key[f].max
<1>1. f \in DOMAIN U32Key /\ f # "slots" /\ f \notin DOMAIN PlainKey
  BY DEF PlainField
<1> DEFINE u == [g \in DOMAIN U32Key |-> GetInt(e, U32Key[g])]
<1>2. u[f] = GetInt(e, U32Key[f])
  BY <1>1
<1>3. Read(e) = [g \in DOMAIN U32Key \cup DOMAIN PlainKey |->
                   IF g \in DOMAIN PlainKey THEN GetInt(e, PlainKey[g])
                   ELSE IF g = "slots" /\ u.slots = 0 THEN MinimumSlots(u)
                   ELSE u[g]]
  BY DEF Read
<1> HIDE DEF u
<1>4. Read(e)[f] = u[f]
  BY <1>1, <1>3
<1>5. GetInt(e, U32Key[f]) \in U32Key[f].min .. U32Key[f].max
  BY <1>1 DEF KeysInRange
<1> QED BY <1>2, <1>4, <1>5

\* From what number on a field is accepted.
FromOn(f, low) == PlainField(f) /\ U32Key[f].min = low

\* The least value of the fields that the proofs need (AppConfig.cpp).
LEMMA Lows ==
  /\ FromOn("stripWidth", 1)
  /\ FromOn("stripHeight", 1)
  /\ FromOn("channels", 1)
  /\ FromOn("patchHeight", 1)
  /\ FromOn("overlap", 0)
  /\ FromOn("count", 1)
  /\ FromOn("rawFrames", 1)
  /\ FromOn("prepThreads", 1)
  /\ FromOn("inferThreads", 1)
  /\ FromOn("postThreads", 1)
  /\ FromOn("qPrepCap", 1)
  /\ FromOn("qInfCap", 1)
<1>1. FromOn("stripWidth", 1)
  BY DEF FromOn, PlainField, U32Key, PlainKey, Key
<1>2. FromOn("stripHeight", 1)
  BY DEF FromOn, PlainField, U32Key, PlainKey, Key
<1>3. FromOn("channels", 1)
  BY DEF FromOn, PlainField, U32Key, PlainKey, Key
<1>4. FromOn("patchHeight", 1)
  BY DEF FromOn, PlainField, U32Key, PlainKey, Key
<1>5. FromOn("overlap", 0)
  BY DEF FromOn, PlainField, U32Key, PlainKey, Key
<1>6. FromOn("count", 1)
  BY DEF FromOn, PlainField, U32Key, PlainKey, Key
<1>7. FromOn("rawFrames", 1)
  BY DEF FromOn, PlainField, U32Key, PlainKey, Key
<1>8. FromOn("prepThreads", 1)
  BY DEF FromOn, PlainField, U32Key, PlainKey, Key
<1>9. FromOn("inferThreads", 1)
  BY DEF FromOn, PlainField, U32Key, PlainKey, Key
<1>10. FromOn("postThreads", 1)
  BY DEF FromOn, PlainField, U32Key, PlainKey, Key
<1>11. FromOn("qPrepCap", 1)
  BY DEF FromOn, PlainField, U32Key, PlainKey, Key
<1>12. FromOn("qInfCap", 1)
  BY DEF FromOn, PlainField, U32Key, PlainKey, Key
<1> QED BY <1>1, <1>2, <1>3, <1>4, <1>5, <1>6, <1>7, <1>8, <1>9, <1>10, <1>11, <1>12

\* Such a field is at least that.
LEMMA FieldIs ==
  ASSUME NEW e, KeysInRange(e), NEW f, NEW low \in Nat, FromOn(f, low)
  PROVE  /\ Read(e)[f] \in Nat /\ Read(e)[f] >= low
         /\ GetInt(e, U32Key[f]) \in Nat
<1>1. PlainField(f) /\ U32Key[f].min = low
  BY DEF FromOn
<1>2. Read(e)[f] \in U32Key[f].min .. U32Key[f].max
  BY <1>1, ReadIs
<1>3. GetInt(e, U32Key[f]) \in U32Key[f].min .. U32Key[f].max
  BY <1>1 DEF KeysInRange, PlainField
<1> DEFINE x == Read(e)[f]
           y == GetInt(e, U32Key[f])
           h == U32Key[f].max
<1>4. x \in low .. h /\ y \in low .. h
  BY <1>1, <1>2, <1>3
<1> HIDE DEF x, y, h
<1>5. x \in Nat /\ x >= low /\ y \in Nat
  BY <1>4
<1> QED BY <1>5 DEF x, y

\* 0 slots stand for the least number that will do.
LEMMA SlotsRead ==
  ASSUME NEW e, KeysInRange(e)
  PROVE  Read(e).slots \in Nat
<1> DEFINE u == [g \in DOMAIN U32Key |-> GetInt(e, U32Key[g])]
<1>1. Read(e) = [g \in DOMAIN U32Key \cup DOMAIN PlainKey |->
                   IF g \in DOMAIN PlainKey THEN GetInt(e, PlainKey[g])
                   ELSE IF g = "slots" /\ u.slots = 0 THEN MinimumSlots(u)
                   ELSE u[g]]
  BY DEF Read
<1>2. "slots" \in DOMAIN U32Key /\ "slots" \notin DOMAIN PlainKey
      /\ U32Key["slots"].min = 0
  BY DEF U32Key, PlainKey, Key
<1>3. \A g \in DOMAIN U32Key : u[g] = GetInt(e, U32Key[g])
  OBVIOUS
<1> HIDE DEF u
<1>4. u["slots"] \in Nat
  <2>1. u["slots"] \in U32Key["slots"].min .. U32Key["slots"].max
    BY <1>2, <1>3 DEF KeysInRange
  <2> DEFINE h == U32Key["slots"].max
  <2>2. u["slots"] \in 0 .. h
    BY <1>2, <2>1
  <2> HIDE DEF h
  <2> QED BY <2>2
<1>5. ASSUME NEW f, NEW low \in Nat, FromOn(f, low)
      PROVE  u[f] \in Nat
  <2>1. f \in DOMAIN U32Key
    BY <1>5 DEF FromOn, PlainField
  <2> QED BY <1>3, <1>5, <2>1, FieldIs
<1>6. /\ u.prepThreads \in Nat /\ u.qPrepCap \in Nat /\ u.inferThreads \in Nat
      /\ u.qInfCap \in Nat /\ u.postThreads \in Nat
  BY <1>5, Lows
<1>7. MinimumSlots(u) \in Nat
  BY <1>6 DEF MinimumSlots
<1>8. Read(e).slots = IF u.slots = 0 THEN MinimumSlots(u) ELSE u["slots"]
  BY <1>1, <1>2
<1> QED BY <1>4, <1>7, <1>8

\* A configuration that Run may get.
Accepted(c) == /\ Sized(c) /\ Measured(c)
               /\ \E logical \in Logical : ValidateCrossConstraints(c, logical)

\* A configuration that passes the checks has sizes Run can be given.
LEMMA AcceptedIs ==
  ASSUME NEW e, NEW logical \in Logical, LoadAccepts(e, logical)
  PROVE  Accepted(Read(e))
<1>1. KeysInRange(e) /\ ValidateCrossConstraints(Read(e), logical)
  BY DEF LoadAccepts
<1>2. \A f, low : low \in Nat /\ FromOn(f, low) => Read(e)[f] \in Nat /\ Read(e)[f] >= low
  BY <1>1, FieldIs
<1>3. 0 \in Nat /\ 1 \in Nat
  OBVIOUS
<1> DEFINE c == Read(e)
<1>4. /\ c["stripWidth"] \in Nat /\ c["stripHeight"] \in Nat /\ c["channels"] \in Nat
      /\ c["patchHeight"] \in Nat /\ c["overlap"] \in Nat /\ c["count"] \in Nat
  BY <1>2, <1>3, Lows
<1>5. /\ c["rawFrames"] \in Nat /\ c["prepThreads"] \in Nat /\ c["postThreads"] \in Nat
      /\ c["inferThreads"] \in Nat /\ c["inferThreads"] >= 1
  BY <1>2, <1>3, Lows
<1>6. c.slots \in Nat
  BY <1>1, SlotsRead
<1> HIDE DEF c
<1>7. Sized(c) /\ Measured(c)
  BY <1>4, <1>5, <1>6 DEF Sized, Measured
<1> QED BY <1>1, <1>7 DEF Accepted, c

-----------------------------------------------------------------------------
(* The inductive invariant. *)

\* The construction under way, or finished.
Going ==
  /\ Accepted(cfg)
  /\ LET s == Run(cfg, model)
     IN At(s, Len(s) - Len(todo), todo, built, held)
  /\ pc = "build" <=> todo # <<>>

\* The inductive invariant.
StartupInv ==
  /\ pc \in {"load", "configure", "build", "running", "unwind", "gone"}
  /\ pc \in {"load", "configure"} => held = {} /\ built = <<>>
  /\ pc = "gone" => held = {}
  /\ pc \in {"build", "running"} => Going
  /\ pc = "unwind" => Unwinds(cleanup, held)

\* The construction of an accepted configuration is good.
LEMMA GoingGood ==
  ASSUME Accepted(cfg)
  PROVE  /\ Good(Run(cfg, model)) /\ Checked(Run(cfg, model), cfg, model)
         /\ Run(cfg, model) \in Seq(Steps) /\ Len(Run(cfg, model)) \in Nat \ {0}
<1> DEFINE s == Run(cfg, model)
<1>1. Good(s) /\ Checked(s, cfg, model)
  BY RunGood DEF Accepted
<1> HIDE DEF s
<1>2. s \in Seq(Steps)
  BY <1>1 DEF Good
<1>3. Len(s) \in Nat
  BY <1>2, LenProperties
<1>4. Len(s) # 0
  BY <1>1, <1>3 DEF Checked, Has
<1> QED BY <1>1, <1>2, <1>3, <1>4 DEF s

\* At the start no step is made.
LEMMA Begins ==
  ASSUME NEW c, NEW m, Accepted(c)
  PROVE  /\ At(Run(c, m), Len(Run(c, m)) - Len(Run(c, m)), Run(c, m), <<>>, {})
         /\ Run(c, m) # <<>>
<1> DEFINE s == Run(c, m)
<1>1. Good(s) /\ Checked(s, c, m)
  BY RunGood DEF Accepted
<1> HIDE DEF s
<1>2. s \in Seq(Steps)
  BY <1>1 DEF Good
<1>3. Len(s) \in Nat /\ Len(s) - Len(s) = 0
  BY <1>2, LenProperties
<1>4. Len(s) # 0
  BY <1>1, <1>3 DEF Checked, Has
<1>5. s # <<>>
  BY <1>4, EmptySeq
<1>6. NewestFirst(<<>>)
  BY EmptySeq DEF NewestFirst
<1>7. Finishes(<<>>, s, 0) /\ Holds({}, s, 0)
  BY EmptySeq DEF Finishes, Holds
<1>8. \A i \in 1 .. Len(s) : s[i] = s[i + 0]
  BY <1>3
<1>9. At(s, 0, s, <<>>, {})
  BY <1>2, <1>3, <1>6, <1>7, <1>8 DEF At
<1> QED BY <1>3, <1>5, <1>9 DEF s

\* A release keeps the rest in order.
LEMMA ReleaseKeeps ==
  ASSUME NEW c, NEW h, Unwinds(c, h), c # <<>>
  PROVE  /\ Unwinds(Tail(c), {r \in h : ~ Named(Head(c), r)})
         /\ \A s \in h, r \in h : Named(Head(c), s) /\ ~ Named(Head(c), r) => ~ Needs(r, s)
<1> DEFINE g == {r \in h : ~ Named(Head(c), r)}
           d == Tail(c)
           e == Head(c)
<1>1. /\ c \in Seq(Labels)
      /\ \A r \in h : \E a \in 1 .. Len(c) : Named(c[a], r)
      /\ \A r, s \in h : Needs(r, s) =>
           \A a \in 1 .. Len(c) : Named(c[a], s) =>
             \E b \in 1 .. Len(c) : b < a /\ Named(c[b], r)
  BY DEF Unwinds
<1>2. Len(c) \in Nat \ {0} /\ e = c[1]
  BY <1>1, EmptySeq
<1>3. /\ d \in Seq(Labels) /\ Len(d) = Len(c) - 1
      /\ \A a \in 1 .. Len(d) : d[a] = c[a + 1]
  BY <1>1, HeadTailProperties
<1>h. \A r : r \in g <=> r \in h /\ ~ Named(e, r)
  OBVIOUS
<1> HIDE DEF d, e, g
<1>4. \A a \in 1 .. Len(d) : a + 1 \in 1 .. Len(c)
  BY <1>2, <1>3
<1>5. \A b \in 1 .. Len(c) : b = 1 \/ (b - 1 \in 1 .. Len(d) /\ (b - 1) + 1 = b)
  BY <1>2, <1>3
<1>6. ASSUME NEW r \in g PROVE \E a \in 1 .. Len(d) : Named(d[a], r)
  <2>1. PICK b \in 1 .. Len(c) : Named(c[b], r)
    BY <1>1, <1>h
  <2>2. b # 1
    BY <2>1, <1>2, <1>h
  <2>3. b - 1 \in 1 .. Len(d) /\ d[b - 1] = c[b]
    <3>1. b - 1 \in 1 .. Len(d) /\ (b - 1) + 1 = b
      BY <2>2, <1>5
    <3>2. d[b - 1] = c[(b - 1) + 1]
      BY <3>1, <1>3
    <3> QED BY <3>1, <3>2
  <2> QED BY <2>1, <2>3
<1>7. ASSUME NEW r \in g, NEW s \in g, Needs(r, s), NEW a \in 1 .. Len(d), Named(d[a], s)
      PROVE  \E b \in 1 .. Len(d) : b < a /\ Named(d[b], r)
  <2>1. a + 1 \in 1 .. Len(c) /\ Named(c[a + 1], s)
    BY <1>3, <1>4, <1>7
  <2>2. PICK b \in 1 .. Len(c) : b < a + 1 /\ Named(c[b], r)
    BY <2>1, <1>1, <1>7, <1>h
  <2>3. b # 1
    BY <2>2, <1>2, <1>h
  <2>4. b - 1 \in 1 .. Len(d) /\ (b - 1) + 1 = b
    BY <2>3, <1>5
  <2>5. d[b - 1] = c[b]
    <3>1. d[b - 1] = c[(b - 1) + 1]
      BY <2>4, <1>3
    <3> QED BY <2>4, <3>1
  <2>6. b - 1 < a
    BY <2>2, <2>4
  <2> QED BY <2>2, <2>4, <2>5, <2>6
<1>8. Unwinds(d, g)
  BY <1>3, <1>6, <1>7 DEF Unwinds
<1>9. ASSUME NEW s \in h, NEW r \in h, Named(e, s), Needs(r, s)
      PROVE  Named(e, r)
  <2>1. 1 \in 1 .. Len(c) /\ \A b \in 1 .. Len(c) : ~ (b < 1)
    BY <1>2
  <2> QED BY <1>1, <1>2, <1>9, <2>1
<1> QED BY <1>8, <1>9 DEF d, e, g

\* What a step grants is not something that is referred to already.
LEMMA GrantApart ==
  ASSUME NEW s, NEW p, NEW td, NEW bs, NEW h, NEW g,
         Ready(s, p, td, bs, h), Grants(Head(td), g)
  PROVE  \A t \in g, r \in h : ~ Refers(r, t)
<1> SUFFICES ASSUME NEW t \in g, NEW r \in h PROVE ~ Refers(r, t)
  OBVIOUS
<1>0. Good(s) /\ At(s, p, td, bs, h) /\ td # <<>>
  BY DEF Ready
<1>1. Due(s, p, Head(td))
  BY <1>0, HeadIsDue
<1>2. t = Granted(s[p + 1]) /\ s[p + 1].what # "" /\ p + 1 \in 1 .. Len(s)
  BY <1>1 DEF Grants, Due
<1>3. PICK i \in 1 .. p : s[i].what # "" /\ r = Granted(s[i])
  BY <1>0 DEF At, Holds
<1>4. i \in 1 .. Len(s) /\ i < p + 1
  <2>1. s \in Seq(Steps) /\ p \in 0 .. Len(s)
    BY <1>0 DEF Good, At
  <2>2. Len(s) \in Nat
    BY <2>1, LenProperties
  <2> QED BY <2>1, <2>2
<1>5. Apart(s[i], s[p + 1])
  BY <1>0, <1>2, <1>4 DEF Good
<1> QED BY <1>2, <1>3, <1>5 DEF Apart

-----------------------------------------------------------------------------
(* The steps keep it. *)

\* What stays refers to nothing that a step acquires, and needs nothing it releases.
NoneDangles == /\ \A s \in Acquired, r \in Kept : ~Refers(r, s)
               /\ \A s \in Released, r \in Kept : Refers(r, s) => GivenStream(r, s)

\* Nothing dangles if nothing is acquired or released.
LEMMA SameHeld == ASSUME held' = held PROVE NoneDangles
BY DEF NoneDangles, Acquired, Released, Kept, Needs

\* What is known during the construction.
LEMMA GoingFacts ==
  ASSUME Going
  PROVE  LET s == Run(cfg, model)
         IN /\ Accepted(cfg) /\ Good(s) /\ Checked(s, cfg, model) /\ s \in Seq(Steps)
            /\ At(s, Len(s) - Len(todo), todo, built, held)
            /\ pc = "build" <=> todo # <<>>
BY GoingGood DEF Going

\* Build and NotGranted are one step of the construction.
LEMMA Grant ==
  ASSUME Build \/ NotGranted
  PROVE  \E g : Advance(g) /\ Grants(Head(todo), g) /\ Head(todo).kind # "fail"
<1>1. CASE NotGranted
  BY <1>1 DEF NotGranted, Grants
<1>2. CASE Build
  <2>1. CASE Head(todo).what = ""
    BY <1>2, <2>1 DEF Build, Grants
  <2>2. CASE Head(todo).what # ""
    BY <1>2, <2>2 DEF Build, Grants
  <2> QED BY <2>1, <2>2
<1> QED BY <1>1, <1>2

\* That step keeps the invariant, and what it acquires is referred to by nothing.
LEMMA AdvanceStep ==
  ASSUME StartupInv, pc = "build", Build \/ NotGranted
  PROVE  StartupInv' /\ NoneDangles
<1> DEFINE s == Run(cfg, model)
           p == Len(s) - Len(todo)
<1>1. Going
  BY DEF StartupInv
<1>2. PICK g : Advance(g) /\ Grants(Head(todo), g) /\ Head(todo).kind # "fail"
  BY Grant
<1>3. /\ Accepted(cfg) /\ Good(s) /\ s \in Seq(Steps) /\ At(s, p, todo, built, held)
      /\ todo # <<>>
  BY <1>1, GoingFacts
<1>4. Ready(s, p, todo, built, held)
  BY <1>2, <1>3 DEF Ready
<1>5. /\ held' = held \cup g /\ built' = BuiltThen(built, Head(todo)) /\ todo' = Tail(todo)
      /\ pc' = IF todo' = <<>> THEN "running" ELSE "build"
      /\ UNCHANGED <<cfg, model, cleanup>>
  BY <1>2 DEF Advance, BuiltThen
<1>6. Run(cfg, model)' = s
  BY <1>5
<1> HIDE DEF s
<1>7. At(s, p + 1, todo', built', held')
  BY <1>2, <1>4, <1>5, AtNext
<1>8. Len(s) - Len(todo') = p + 1
  <2>1. Len(todo') = Len(s) - (p + 1) /\ p + 1 \in 0 .. Len(s)
    BY <1>7 DEF At
  <2>2. Len(s) \in Nat
    BY <1>3, LenProperties
  <2>3. p + 1 \in Int
    BY <2>1, <2>2
  <2> HIDE DEF p
  <2> QED BY <2>1, <2>2, <2>3
<1>9. At(s, Len(s) - Len(todo'), todo', built', held')
  BY <1>7, <1>8
<1>10. Going'
  BY <1>3, <1>5, <1>6, <1>9 DEF Going
<1>11. StartupInv'
  BY <1>5, <1>10 DEF StartupInv
<1>12. NoneDangles
  <2>1. \A t \in g, r \in held : ~ Refers(r, t)
    BY <1>2, <1>4, GrantApart
  <2> QED BY <1>5, <2>1 DEF NoneDangles, Acquired, Released, Kept, Needs
<1> QED BY <1>11, <1>12

\* Wherever an exception is thrown, what the handler and the destructors release is
\* all that is held, in an order that leaves nothing dangling.
LEMMA ThrowUnwinds ==
  ASSUME StartupInv, Throw
  PROVE  Unwinds(cleanup', held)
<1> DEFINE s == Run(cfg, model)
           p == Len(s) - Len(todo)
           x == Head(todo)
           o == Object(x)
           pre == When(o \notin ToSet(built), Names(o, Rollback(o.of)))
<1>1. Going /\ pc = "build"
  BY DEF StartupInv, Throw
<1>2. Good(s) /\ s \in Seq(Steps) /\ At(s, p, todo, built, held) /\ todo # <<>>
  BY <1>1, GoingFacts
<1>3. x.kind # "complete" /\ cleanup' = pre \o AllDestructors(built)
  BY DEF Throw, Destructors, AllDestructors
<1>4. Due(s, p, x)
  BY <1>2, HeadIsDue
<1>5. o.of = x.of /\ o.nr = x.nr
  BY DEF Object
<1> HIDE DEF s, p
<1>6. /\ p \in 0 .. Len(s) /\ Finishes(built, s, p) /\ NewestFirst(built) /\ Holds(held, s, p)
      /\ p + 1 \in 1 .. Len(s) /\ x = s[p + 1]
  BY <1>2, <1>4 DEF At, Due
<1>7. p < Len(s)
  <2>1. Len(s) \in Nat
    BY <1>2, LenProperties
  <2> QED BY <1>6, <2>1
<1>8. o \in ToSet(built) <=> Built(built, x.of, x.nr)
  <2>1. built \in Seq([of : Objects, nr : Int])
    BY <1>6 DEF NewestFirst
  <2>2. DOMAIN built = 1 .. Len(built)
    BY <2>1, LenProperties
  <2>3. \A i \in 1 .. Len(built) : built[i] \in [of : Objects, nr : Int]
    BY <2>1, ElementOfSeq
  <2>4. \A i \in 1 .. Len(built) :
          built[i] = o <=> built[i].of = x.of /\ built[i].nr = x.nr
    BY <2>3 DEF Object
  <2>5. o \in ToSet(built) <=> \E i \in 1 .. Len(built) : built[i] = o
    BY <2>2 DEF ToSet
  <2> QED BY <2>4, <2>5 DEF Built
<1>9. Halfway(pre, built, s, p)
  <2>1. CASE o \in ToSet(built)
    <3>1. pre = <<>>
      BY <2>1 DEF When
    <3> QED BY <1>6, <1>8, <2>1, <3>1 DEF Halfway
  <2>2. CASE o \notin ToSet(built)
    <3>1. pre = Names(o, Rollback(o.of))
      BY <2>2 DEF When
    <3> QED BY <1>3, <1>5, <1>6, <1>7, <1>8, <2>2, <3>1 DEF Halfway
  <2> QED BY <2>1, <2>2
<1> HIDE DEF pre, o, x
<1>10. Stopped(s, p, built, held, pre)
  BY <1>2, <1>6, <1>9 DEF Stopped
<1> QED BY <1>3, <1>10, UnwindsFrom

\* So it is after 'q', when all objects are complete.
LEMMA QuitUnwinds ==
  ASSUME StartupInv, Quit
  PROVE  Unwinds(cleanup', held)
<1> DEFINE s == Run(cfg, model)
           p == Len(s) - Len(todo)
<1>1. Going /\ pc = "running"
  BY DEF StartupInv, Quit
<1>2. Good(s) /\ s \in Seq(Steps) /\ At(s, p, todo, built, held) /\ todo = <<>>
  BY <1>1, GoingFacts
<1>3. cleanup' = AllDestructors(built)
  BY DEF Quit, Destructors, AllDestructors
<1>4. p = Len(s) /\ Len(s) \in Nat
  <2>1. Len(todo) = 0 /\ Len(s) \in Nat
    BY <1>2, LenProperties, EmptySeq
  <2> QED BY <2>1
<1> HIDE DEF s, p
<1>5. /\ p \in 0 .. Len(s) /\ Finishes(built, s, p) /\ NewestFirst(built) /\ Holds(held, s, p)
  BY <1>2 DEF At
<1>6. Halfway(<<>>, built, s, p)
  BY <1>4 DEF Halfway
<1>7. Stopped(s, p, built, held, <<>>)
  BY <1>2, <1>5, <1>6 DEF Stopped
<1>8. Unwinds(<<>> \o AllDestructors(built), held)
  BY <1>7, UnwindsFrom
<1>9. <<>> \o AllDestructors(built) = AllDestructors(built)
  <2>1. AllDestructors(built) \in Seq(Labels)
    BY <1>5, DestructorsAre DEF GivesBack
  <2> QED BY <2>1, ConcatEmptySeq
<1> QED BY <1>3, <1>8, <1>9

\* A release leaves the rest in such an order.
LEMMA ReleaseStep ==
  ASSUME StartupInv, Release
  PROVE  StartupInv' /\ NoneDangles
<1>1. pc = "unwind" /\ Unwinds(cleanup, held)
  BY DEF StartupInv, Release
<1>2. CASE cleanup = <<>>
  <2>1. pc' = "gone" /\ held' = held
    BY <1>2 DEF Release, Leave
  <2>2. held = {}
    <3>1. \A r \in held : \E a \in 1 .. Len(cleanup) : Named(cleanup[a], r)
      BY <1>1 DEF Unwinds
    <3>2. \A a \in 1 .. Len(cleanup) : FALSE
      BY <1>2, EmptySeq
    <3> QED BY <3>1, <3>2
  <2> QED BY <2>1, <2>2, SameHeld DEF StartupInv
<1>3. CASE cleanup # <<>>
  <2> DEFINE g == {r \in held : ~ Named(Head(cleanup), r)}
  <2>1. pc' = "unwind" /\ held' = g /\ cleanup' = Tail(cleanup)
    BY <1>1, <1>3 DEF Release, Named
  <2>2. /\ Unwinds(Tail(cleanup), g)
        /\ \A s \in held, r \in held :
             Named(Head(cleanup), s) /\ ~ Named(Head(cleanup), r) => ~ Needs(r, s)
    BY <1>1, <1>3, ReleaseKeeps
  <2>3. \A r : r \in g <=> r \in held /\ ~ Named(Head(cleanup), r)
    OBVIOUS
  <2> HIDE DEF g
  <2>4. NoneDangles
    BY <2>1, <2>2, <2>3 DEF NoneDangles, Acquired, Released, Kept, Needs
  <2> QED BY <2>1, <2>2, <2>4 DEF StartupInv
<1> QED BY <1>2, <1>3

\* An accepted configuration starts the construction, any other ends Run.
LEMMA ConfigureStep ==
  ASSUME StartupInv, Configure
  PROVE  StartupInv' /\ NoneDangles
<1>1. held = {} /\ built = <<>> /\ held' = {} /\ built' = <<>>
  BY DEF StartupInv, Configure
<1>2. PICK logical \in Logical :
        IF LoadAccepts(ini, logical)
        THEN /\ cfg' = Read(ini) /\ model' \in Models
             /\ todo' = Run(cfg', model')
             /\ pc' = "build" /\ ini' = [k \in {} |-> 0]
        ELSE Leave /\ UNCHANGED <<cfg, model, todo>>
  BY DEF Configure
<1>3. CASE LoadAccepts(ini, logical)
  <2>1. /\ cfg' = Read(ini) /\ todo' = Run(cfg', model') /\ pc' = "build"
    BY <1>2, <1>3
  <2>2. Accepted(cfg')
    BY <1>3, <2>1, AcceptedIs
  <2>3. /\ At(Run(cfg', model'), Len(Run(cfg', model')) - Len(todo'), todo', built', held')
        /\ todo' # <<>>
    BY <1>1, <2>1, <2>2, Begins
  <2>4. Going'
    BY <2>1, <2>2, <2>3 DEF Going
  <2> QED BY <1>1, <2>1, <2>4, SameHeld DEF StartupInv
<1>4. CASE ~ LoadAccepts(ini, logical)
  <2>1. pc' = "gone"
    BY <1>2, <1>4 DEF Leave
  <2> QED BY <1>1, <2>1, SameHeld DEF StartupInv
<1> QED BY <1>3, <1>4

\* Every step of the program keeps the invariant, and none leaves a reference dangling
\* but to the stream of a session.
THEOREM StartupInvStep ==
  ASSUME StartupInv, [Next]_vars
  PROVE  StartupInv' /\ [NoneDangles]_vars
<1>1. CASE Load
  BY <1>1, SameHeld DEF Load, StartupInv
<1>2. CASE LoadFails
  BY <1>2, SameHeld DEF LoadFails, Leave, StartupInv
<1>3. CASE Configure
  BY <1>3, ConfigureStep
<1>4. CASE Build
  <2>1. pc = "build"
    BY <1>4 DEF Build
  <2> QED BY <1>4, <2>1, AdvanceStep
<1>5. CASE NotGranted
  <2>1. pc = "build"
    BY <1>5 DEF NotGranted
  <2> QED BY <1>5, <2>1, AdvanceStep
<1>6. CASE Throw
  <2>1. pc' = "unwind" /\ held' = held
    BY <1>6 DEF Throw
  <2>2. Unwinds(cleanup', held)
    BY <1>6, ThrowUnwinds
  <2> QED BY <2>1, <2>2, SameHeld DEF StartupInv
<1>7. CASE Quit
  <2>1. pc' = "unwind" /\ held' = held
    BY <1>7 DEF Quit
  <2>2. Unwinds(cleanup', held)
    BY <1>7, QuitUnwinds
  <2> QED BY <2>1, <2>2, SameHeld DEF StartupInv
<1>8. CASE Release
  BY <1>8, ReleaseStep
<1>9. CASE UNCHANGED vars
  <2>1. StartupInv'
    BY <1>9 DEF vars, StartupInv, Going
  <2> QED BY <1>9, <2>1
<1> QED BY <1>1, <1>2, <1>3, <1>4, <1>5, <1>6, <1>7, <1>8, <1>9 DEF Next

\* At every moment the resources held are what the steps made have asked for, and
\* during the way back what is still to be released is all that is held.
THEOREM StartupInvHolds == Spec => []StartupInv
<1>1. Init => StartupInv
  BY DEF Init, StartupInv
<1>2. StartupInv /\ [Next]_vars => StartupInv'
  BY StartupInvStep
<1> QED BY <1>1, <1>2, PTL DEF Spec

\* Whichever step of Run throws, for every file, every model and every number of
\* threads, slots and sessions, nothing is held when Run has returned.
THEOREM EverythingReleased == Spec => []AllReleased
<1>1. StartupInv => AllReleased
  BY DEF StartupInv, AllReleased
<1> QED BY <1>1, StartupInvHolds, PTL

\* At no step is a resource acquired after something that refers to it, nor released
\* while something still there does, save that the stream of a session goes before the
\* session and its binding.
THEOREM NothingDangles == Spec => NoDangling
<1>1. StartupInv /\ [Next]_vars => [NoneDangles]_vars
  BY StartupInvStep
<1> QED BY <1>1, StartupInvHolds, PTL DEF Spec, NoDangling, NoneDangles

-----------------------------------------------------------------------------
(* What fits when the threads run. *)

\* A row more than another is RowBytes more bytes.
LEMMA Monotone ==
  ASSUME NEW m \in Nat, NEW n \in Nat, NEW r \in Nat, m =< n
  PROVE  m * r =< n * r
BY SMTT(30)

\* Offset and PatchBytes in rows.
LEMMA InRows ==
  ASSUME NEW geo, Measured(geo), LayoutAccepts(geo), NEW k \in Nat
  PROVE  /\ RowBytes(geo) \in Nat /\ Step(geo) \in Nat
         /\ Offset(geo, k) = (k * Step(geo)) * RowBytes(geo)
         /\ Offset(geo, k) + PatchBytes(geo) = (k * Step(geo) + geo.patchHeight) * RowBytes(geo)
<1>1. RowBytes(geo) \in Nat /\ Step(geo) \in Nat /\ geo.patchHeight \in Nat
  BY DEF RowBytes, Step, Measured, LayoutAccepts
<1>2. k * Step(geo) \in Nat
  BY <1>1
<1>3. \A x, y, z \in Nat : x * z + y * z = (x + y) * z
  BY SMTT(30)
<1> QED BY <1>1, <1>2, <1>3 DEF Offset, PatchBytes

\* Every geometry the constructor of PatchLayout accepts tiles the strip
\* (PatchLayout.cpp:11-32): no patch reaches beyond the payload, the last one ends
\* with it, and no row between two of them is lost.
THEOREM LayoutTiles ==
  ASSUME NEW geo, Measured(geo), LayoutAccepts(geo)
  PROVE  PatchesTileStrip(geo)
<1>1. /\ geo.count \in Nat \ {0} /\ geo.patchHeight \in Nat /\ Step(geo) \in Nat
      /\ geo.stripHeight = (geo.count - 1) * Step(geo) + geo.patchHeight
      /\ RowBytes(geo) \in Nat /\ Step(geo) =< geo.patchHeight
  BY InRows DEF Measured, LayoutAccepts, Step
<1>2. Offset(geo, geo.count - 1) + PatchBytes(geo) = PayloadBytes(geo)
  <2>1. geo.count - 1 \in Nat
    BY <1>1
  <2> QED BY <1>1, <2>1, InRows DEF PayloadBytes
<1>3. ASSUME NEW k \in 0 .. geo.count - 1
      PROVE  Offset(geo, k) + PatchBytes(geo) =< PayloadBytes(geo)
  <2>1. k \in Nat /\ geo.count - 1 \in Nat /\ k =< geo.count - 1
    BY <1>1
  <2>2. k * Step(geo) =< (geo.count - 1) * Step(geo)
    BY <1>1, <2>1, Monotone
  <2>3. /\ k * Step(geo) \in Nat /\ (geo.count - 1) * Step(geo) \in Nat
    BY <1>1, <2>1
  <2>4. (k * Step(geo) + geo.patchHeight) * RowBytes(geo)
          =< ((geo.count - 1) * Step(geo) + geo.patchHeight) * RowBytes(geo)
    <3>1. k * Step(geo) + geo.patchHeight =< (geo.count - 1) * Step(geo) + geo.patchHeight
      BY <1>1, <2>2, <2>3
    <3> QED BY <1>1, <2>3, <3>1, Monotone
  <2> QED BY <1>1, <2>1, <2>4, InRows DEF PayloadBytes
<1>4. Offset(geo, 0) = 0
  BY <1>1 DEF Offset
<1>5. ASSUME NEW k \in 1 .. geo.count - 1
      PROVE  Offset(geo, k) =< Offset(geo, k - 1) + PatchBytes(geo)
  <2>1. k \in Nat /\ k - 1 \in Nat
    BY <1>1
  <2>2. k * Step(geo) = (k - 1) * Step(geo) + Step(geo) /\ (k - 1) * Step(geo) \in Nat /\ k * Step(geo) \in Nat
    BY <1>1, <2>1
  <2>3. k * Step(geo) =< (k - 1) * Step(geo) + geo.patchHeight
    BY <1>1, <2>2
  <2>4. (k * Step(geo)) * RowBytes(geo) =< ((k - 1) * Step(geo) + geo.patchHeight) * RowBytes(geo)
    BY <1>1, <2>2, <2>3, Monotone
  <2> QED BY <2>1, <2>4, InRows
<1> QED BY <1>2, <1>3, <1>4, <1>5 DEF PatchesTileStrip

\* All checks have succeeded when the threads run.
LEMMA ChecksPassed ==
  ASSUME Going, todo = <<>>
  PROVE  CrossChecks(cfg, model)
<1> DEFINE s == Run(cfg, model)
           p == Len(s) - Len(todo)
           x == Check("run", 0, CrossChecks(cfg, model))[1]
<1>1. Checked(s, cfg, model) /\ s \in Seq(Steps) /\ At(s, p, todo, built, held)
  BY GoingFacts
<1> HIDE DEF s
<1>2. p = Len(s) /\ \A i \in 1 .. p : s[i].kind # "fail"
  <2>1. Len(s) \in Nat /\ Len(todo) = 0
    BY <1>1, LenProperties, EmptySeq
  <2> QED BY <1>1, <2>1 DEF At
<1>3. x.kind # "fail"
  <2>1. \E i \in 1 .. Len(s) : s[i] = x
    BY <1>1 DEF Checked, Has
  <2> HIDE DEF x
  <2> QED BY <1>2, <2>1
<1>4. x.kind = IF CrossChecks(cfg, model) THEN "check" ELSE "fail"
  BY DEF Check, Step1
<1> QED BY <1>3, <1>4

\* When the stage threads run, the sizes of the strip, the patches, the batch, the model,
\* the queues and the pools fit each other, for every file and model.
THEOREM RunningFits == Spec => []RunsOnlyIfEverythingFits
<1>1. StartupInv => RunsOnlyIfEverythingFits
  <2> SUFFICES ASSUME StartupInv, pc = "running" PROVE RunsOnlyIfEverythingFits
    BY DEF RunsOnlyIfEverythingFits
  <2>1. Accepted(cfg) /\ CrossChecks(cfg, model)
    <3>1. Going /\ todo = <<>>
      BY DEF StartupInv, Going
    <3> QED BY <3>1, ChecksPassed DEF Going
  <2>2. PICK logical \in Logical : ValidateCrossConstraints(cfg, logical)
    BY <2>1 DEF Accepted
  <2>3. /\ LayoutAccepts(cfg) /\ PayloadBytes(cfg) = FullPayload
        /\ cfg.qRawCap >= cfg.rawFrames /\ cfg.rawFrames >= cfg.prepThreads + 1
        /\ cfg.slots >= MinimumSlots(cfg)
    BY <2>2 DEF ValidateCrossConstraints
  <2>4. PatchesTileStrip(cfg)
    BY <2>1, <2>3, LayoutTiles DEF Accepted
  <2>5. /\ cfg.rawFrames \in Nat /\ cfg.prepThreads \in Nat /\ cfg.patchHeight \in Nat
        /\ cfg.stripWidth \in Nat
    BY <2>1 DEF Accepted, Sized, Measured
  <2>6. cfg.rawFrames > cfg.prepThreads
    BY <2>3, <2>5
  <2>7. \E scale \in {1, 2} : /\ scale * model.height = cfg.patchHeight
                              /\ scale * model.width = cfg.stripWidth
    <3>1. CASE Native(cfg, model)
      BY <3>1, <2>5 DEF Native
    <3>2. CASE Half(cfg, model)
      BY <3>2 DEF Half
    <3> QED BY <2>1, <3>1, <3>2 DEF CrossChecks
  <2> QED BY <2>1, <2>3, <2>4, <2>6, <2>7
          DEF RunsOnlyIfEverythingFits, CrossChecks, MinimumSlots
<1> QED BY <1>1, StartupInvHolds, PTL

-----------------------------------------------------------------------------
(* The file and the entries found in it. *)

\* x is the greatest element of S.
Greatest(S, x) == x \in S /\ \A y \in S : x >= y

\* Max of a set is its greatest element,
LEMMA MaxIs ==
  ASSUME NEW S, S \subseteq Int, NEW x, Greatest(S, x)
  PROVE  Max(S) = x
<1>1. Greatest(S, Max(S))
  BY DEF Greatest, Max
<1>2. Max(S) \in Int /\ x \in Int /\ x >= Max(S) /\ Max(S) >= x
  BY <1>1 DEF Greatest
<1> QED BY <1>2

\* which every set of numbers of lines has.
LEMMA HasGreatest ==
  ASSUME NEW n \in Nat, NEW S, S \subseteq 1 .. n, S # {}
  PROVE  Greatest(S, Max(S))
<1> DEFINE P(m) == \A T : T \subseteq 1 .. m /\ T # {} => \E x : Greatest(T, x)
           N == {m \in Nat : P(m)}
<1>1. 0 \in N
  OBVIOUS
<1>2. ASSUME NEW m \in Nat, m \in N
      PROVE  m + 1 \in N
  <2> SUFFICES ASSUME NEW T, T \subseteq 1 .. m + 1, T # {}
               PROVE  \E x : Greatest(T, x)
    OBVIOUS
  <2>1. CASE m + 1 \in T
    <3>1. Greatest(T, m + 1)
      BY <2>1 DEF Greatest
    <3> QED BY <3>1
  <2>2. CASE m + 1 \notin T
    <3>1. T \subseteq 1 .. m
      BY <2>2
    <3> QED BY <1>2, <3>1
  <2> QED BY <2>1, <2>2
<1>3. n \in N
  <2> HIDE DEF N
  <2> QED BY <1>1, <1>2, SetInduction
<1>4. \E x : Greatest(S, x)
  BY <1>3
<1> QED BY <1>4 DEF Greatest, Max

\* What is known before the first line.
Nothing == [section |-> "", data |-> [k \in {} |-> 0]]

\* The function FoldLeft(FindEntry, Nothing, f) is the last value of.
Folded(f, n, it) ==
  it = [s \in SUBSET (1 .. n) |->
          IF s = {} THEN Nothing ELSE FindEntry(it[s \ {Max(s)}], f[Max(s)])]

\* There is such a function.
LEMMA FoldedExists ==
  ASSUME NEW f, NEW n \in Nat
  PROVE  \E it : Folded(f, n, it)
<1> DEFINE N == {m \in Nat : \E it : Folded(f, m, it)}
<1>1. 0 \in N
  <2> DEFINE it == [s \in SUBSET (1 .. 0) |-> Nothing]
  <2>1. \A s \in SUBSET (1 .. 0) : s = {}
    OBVIOUS
  <2>2. it = [s \in SUBSET (1 .. 0) |->
                IF s = {} THEN Nothing ELSE FindEntry(it[s \ {Max(s)}], f[Max(s)])]
    BY <2>1
  <2> HIDE DEF it
  <2> QED BY <2>2 DEF Folded
<1>2. ASSUME NEW m \in Nat, m \in N
      PROVE  m + 1 \in N
  <2>1. PICK it : Folded(f, m, it)
    BY <1>2
  <2> DEFINE up == [s \in SUBSET (1 .. m + 1) |->
                      IF m + 1 \in s THEN FindEntry(it[s \ {m + 1}], f[m + 1]) ELSE it[s]]
             Val(s) == IF s = {} THEN Nothing ELSE FindEntry(up[s \ {Max(s)}], f[Max(s)])
  <2>2. ASSUME NEW s \in SUBSET (1 .. m + 1), m + 1 \in s
        PROVE  up[s] = Val(s)
    <3>1. Max(s) = m + 1
      <4>1. Greatest(s, m + 1) /\ s \subseteq Int
        BY <2>2 DEF Greatest
      <4> QED BY <4>1, MaxIs
    <3>2. s \ {m + 1} \in SUBSET (1 .. m + 1) /\ m + 1 \notin s \ {m + 1}
      BY <2>2
    <3>3. up[s \ {m + 1}] = it[s \ {m + 1}]
      BY <3>2
    <3>4. up[s] = FindEntry(it[s \ {m + 1}], f[m + 1])
      BY <2>2
    <3>5. s # {}
      BY <2>2
    <3> HIDE DEF up
    <3> QED BY <3>1, <3>3, <3>4, <3>5
  <2>3. ASSUME NEW s \in SUBSET (1 .. m + 1), m + 1 \notin s
        PROVE  up[s] = Val(s)
    <3>1. s \in SUBSET (1 .. m)
      BY <2>3
    <3>2. up[s] = it[s]
      BY <2>3
    <3>3. it[s] = IF s = {} THEN Nothing ELSE FindEntry(it[s \ {Max(s)}], f[Max(s)])
      <4>1. it = [t \in SUBSET (1 .. m) |->
                    IF t = {} THEN Nothing ELSE FindEntry(it[t \ {Max(t)}], f[Max(t)])]
        BY <2>1 DEF Folded
      <4> QED BY <3>1, <4>1, Zenon
    <3>4. s \ {Max(s)} \in SUBSET (1 .. m + 1) /\ m + 1 \notin s \ {Max(s)}
      BY <2>3
    <3>5. up[s \ {Max(s)}] = it[s \ {Max(s)}]
      BY <3>4
    <3> HIDE DEF up
    <3> QED BY <3>2, <3>3, <3>5
  <2>4. up = [s \in SUBSET (1 .. m + 1) |-> up[s]]
    OBVIOUS
  <2>5. \A s \in SUBSET (1 .. m + 1) : up[s] = Val(s)
    BY <2>2, <2>3
  <2> HIDE DEF up
  <2>6. up = [s \in SUBSET (1 .. m + 1) |-> Val(s)]
    BY <2>4, <2>5
  <2>7. Folded(f, m + 1, up)
    BY <2>6 DEF Folded
  <2> QED BY <2>7
<1>3. n \in N
  <2> HIDE DEF N
  <2> QED BY <1>1, <1>2, SetInduction
<1> QED BY <1>3

\* LoadData is FindEntry on one line after the other, the last line included.
LEMMA LoadDataIs ==
  ASSUME NEW f, NEW n \in Nat, DOMAIN f = 1 .. n
  PROVE  \E it : Folded(f, n, it) /\ LoadData(f) = it[1 .. n].data
<1> DEFINE it == CHOOSE it : Folded(f, n, it)
<1>1. Folded(f, n, it)
  BY FoldedExists
<1>2. LoadData(f) = it[1 .. n].data
  BY DEF LoadData, FoldLeft, MapThenFoldSet, Folded, Nothing
<1> HIDE DEF it
<1> QED BY <1>1, <1>2

\* g[k] is what is known after k lines.
Reads(f, n, g) ==
  /\ g[0] = Nothing /\ LoadData(f) = g[n].data
  /\ \A k \in 0 .. n - 1 : g[k + 1] = FindEntry(g[k], f[k + 1])

\* The same as a sequence of what is known after each line.
LEMMA LinesRead ==
  ASSUME NEW f, NEW n \in Nat, DOMAIN f = 1 .. n
  PROVE  \E g : Reads(f, n, g)
<1>1. PICK it : Folded(f, n, it) /\ LoadData(f) = it[1 .. n].data
  BY LoadDataIs
<1> DEFINE g == [k \in 0 .. n |-> it[1 .. k]]
           Val(s) == IF s = {} THEN Nothing ELSE FindEntry(it[s \ {Max(s)}], f[Max(s)])
<1>2. \A s \in SUBSET (1 .. n) : it[s] = Val(s)
  <2>1. it = [s \in SUBSET (1 .. n) |-> Val(s)]
    BY <1>1 DEF Folded
  <2> HIDE DEF Val
  <2> QED BY <2>1, Zenon
<1>3. g[0] = Nothing
  <2>1. 1 .. 0 = {} /\ 0 \in 0 .. n /\ 1 .. 0 \in SUBSET (1 .. n)
    OBVIOUS
  <2> QED BY <1>2, <2>1
<1>4. ASSUME NEW k \in 0 .. n - 1
      PROVE  g[k + 1] = FindEntry(g[k], f[k + 1])
  <2>1. /\ k \in 0 .. n /\ k + 1 \in 0 .. n
        /\ 1 .. k + 1 \in SUBSET (1 .. n) /\ 1 .. k + 1 # {}
        /\ (1 .. k + 1) \ {k + 1} = 1 .. k
    BY <1>4
  <2>2. Max(1 .. k + 1) = k + 1
    <3>1. Greatest(1 .. k + 1, k + 1) /\ 1 .. k + 1 \subseteq Int
      BY <1>4 DEF Greatest
    <3> QED BY <3>1, MaxIs
  <2>3. it[1 .. k + 1] = FindEntry(it[1 .. k], f[k + 1])
    <3> DEFINE s == 1 .. k + 1
    <3>1. it[s] = Val(s) /\ s # {} /\ Max(s) = k + 1 /\ s \ {k + 1} = 1 .. k
      BY <1>2, <2>1, <2>2
    <3> HIDE DEF s
    <3>2. it[s] = FindEntry(it[1 .. k], f[k + 1])
      BY <3>1
    <3> QED BY <3>2 DEF s
  <2> QED BY <2>1, <2>3
<1>5. g[n] = it[1 .. n]
  OBVIOUS
<1> HIDE DEF g
<1>6. Reads(f, n, g)
  BY <1>1, <1>3, <1>4, <1>5 DEF Reads
<1> QED BY <1>6

\* The lines of the file there is.
Lined(n) == /\ n \in Nat /\ DOMAIN file = 1 .. n
            /\ \A i \in 1 .. n : file[i].kind = "section" => file[i].name # Garbage

\* The header above line k + 1 is the last header above line k, or line k.
LEMMA HeaderNext ==
  ASSUME NEW k \in Nat \ {0}
  PROVE  Header(k + 1) = IF file[k].kind \in {"section", "unclosed"} THEN file[k] ELSE Header(k)
<1> DEFINE above(i) == {j \in 1 .. i - 1 : file[j].kind \in {"section", "unclosed"}}
<1>1. CASE file[k].kind \in {"section", "unclosed"}
  <2>1. Greatest(above(k + 1), k) /\ above(k + 1) \subseteq Int
    BY <1>1 DEF Greatest
  <2>2. Max(above(k + 1)) = k /\ above(k + 1) # {}
    BY <2>1, MaxIs DEF Greatest
  <2> QED BY <1>1, <2>2 DEF Header, Above
<1>2. CASE file[k].kind \notin {"section", "unclosed"}
  <2>1. above(k + 1) = above(k)
    BY <1>2
  <2> QED BY <1>2, <2>1 DEF Header, Above
<1> QED BY <1>1, <1>2

\* A place is a place when there is one more.
LEMMA OneMore == \A n \in Nat : \A i \in 1 .. n : i \in 1 .. n + 1
  OBVIOUS

\* No header with a bracket has the name of a broken one.
LEMMA HeaderNamed ==
  ASSUME NEW n, Lined(n), NEW i \in 1 .. n + 1, Header(i).kind = "section"
  PROVE  Header(i).name # Garbage
<1> DEFINE above == {j \in 1 .. i - 1 : file[j].kind \in {"section", "unclosed"}}
<1>1. CASE above = {}
  BY <1>1 DEF Header, Above, Garbage
<1>2. CASE above # {}
  <2>1. above \subseteq 1 .. n /\ n \in Nat
    BY DEF Lined
  <2>2. Greatest(above, Max(above))
    BY <1>2, <2>1, HasGreatest
  <2>3. Max(above) \in 1 .. n
    BY <2>1, <2>2 DEF Greatest
  <2>4. Header(i) = file[Max(above)]
    BY <1>2 DEF Header, Above
  <2> QED BY <2>3, <2>4 DEF Lined
<1> QED BY <1>1, <1>2

\* j is the last of the first k lines that gives the key a value.
LastSays(k, section, key, j) ==
  /\ j \in 1 .. k /\ Says(j, section, key)
  /\ \A i \in 1 .. k : Says(i, section, key) => j >= i

\* What the parser knows of the first k lines.
Learnt(k, st) ==
  /\ st = [section |-> st.section, data |-> st.data]
  /\ st.section = IF Header(k + 1).kind = "section" THEN Header(k + 1).name ELSE Garbage
  /\ \A section, key, j :
       section # Garbage /\ key # "" /\ LastSays(k, section, key, j) =>
         <<section, key>> \in DOMAIN st.data /\ st.data[<<section, key>>] = file[j].text

\* Before the first line nothing is known, and no section has been opened.
LEMMA KnownFirst == Learnt(0, Nothing)
<1> DEFINE head == Header(0 + 1)
<1>1. head = [kind |-> "section", name |-> ""]
  <2>1. {j \in 1 .. (0 + 1) - 1 : file[j].kind \in {"section", "unclosed"}} = {}
    OBVIOUS
  <2> QED BY <2>1 DEF Header, Above
<1> HIDE DEF head
<1>2. head.kind = "section" /\ head.name = ""
  BY <1>1
<1>3. \A section, key, j : ~ LastSays(0, section, key, j)
  BY DEF LastSays
<1>4. Nothing.section = "" /\ Nothing = [section |-> Nothing.section, data |-> Nothing.data]
  BY DEF Nothing
<1>5. Nothing.section = IF head.kind = "section" THEN head.name ELSE Garbage
  BY <1>2, <1>4
<1> HIDE DEF Nothing
<1> QED BY <1>3, <1>4, <1>5, Zenon DEF Learnt, head

\* An entry that adds is the last that says so; other lines say nothing.
LEMMA KnownNext ==
  ASSUME NEW n, Lined(n), NEW k \in 0 .. n - 1, NEW st, Learnt(k, st)
  PROVE  Learnt(k + 1, FindEntry(st, file[k + 1]))
<1> DEFINE line == file[k + 1]
           head == Header(k + 1)
           new == FindEntry(st, line)
<1>0. /\ n \in Nat /\ k \in Nat /\ k + 1 \in Nat \ {0} /\ k + 1 \in 1 .. n /\ k + 1 \in 1 .. n + 1
      /\ k + 1 \in 1 .. k + 1 /\ \A i \in 1 .. k + 1 : i \in 1 .. k \/ i = k + 1
      /\ \A i \in 1 .. k : i \in 1 .. k + 1 /\ ~ (i >= k + 1)
  BY DEF Lined
<1>1. Header((k + 1) + 1) = IF line.kind \in {"section", "unclosed"} THEN line ELSE head
  BY <1>0, HeaderNext
<1>2. /\ st = [section |-> st.section, data |-> st.data]
      /\ st.section = IF head.kind = "section" THEN head.name ELSE Garbage
  BY DEF Learnt
<1>3. /\ new = [section |-> new.section, data |-> new.data]
      /\ new.section = IF line.kind = "section" THEN line.name
                       ELSE IF line.kind = "unclosed" THEN Garbage ELSE st.section
      /\ new.data = IF line.kind = "entry" /\ line.key # ""
                    THEN AddEntry(st.data, st.section, line.key, line.text) ELSE st.data
  <2> HIDE DEF line
  <2> QED BY <1>2 DEF FindEntry
<1>4. new.section = IF Header((k + 1) + 1).kind = "section" THEN Header((k + 1) + 1).name ELSE Garbage
  <2> HIDE DEF new, line, head
  <2> QED BY <1>1, <1>2, <1>3
<1>5. ASSUME NEW section, NEW key, NEW j, section # Garbage, key # "",
             LastSays(k + 1, section, key, j)
      PROVE  <<section, key>> \in DOMAIN new.data /\ new.data[<<section, key>>] = file[j].text
  <2>1. /\ j \in 1 .. k \/ j = k + 1
        /\ Says(j, section, key)
        /\ \A i \in 1 .. k + 1 : Says(i, section, key) => j >= i
    BY <1>0, <1>5 DEF LastSays
  <2>2. Says(k + 1, section, key) <=>
          /\ line.kind = "entry" /\ line.key = key
          /\ head.kind = "section" /\ head.name = section
    BY DEF Says
  <2> HIDE DEF new, line, head
  <2>3. CASE j = k + 1
    <3>1. line.kind = "entry" /\ line.key = key /\ st.section = section
      BY <1>2, <2>1, <2>2, <2>3
    <3>2. new.data = AddEntry(st.data, section, key, line.text)
      BY <1>3, <1>5, <3>1
    <3>3. <<section, key>> \in DOMAIN new.data /\ new.data[<<section, key>>] = line.text
      BY <3>2 DEF AddEntry
    <3> QED BY <2>3, <3>3 DEF line
  <2>4. CASE j \in 1 .. k
    <3>1. ~ Says(k + 1, section, key)
      BY <1>0, <2>1, <2>4
    <3>2. LastSays(k, section, key, j)
      BY <1>0, <2>1, <2>4 DEF LastSays
    <3>3. <<section, key>> \in DOMAIN st.data /\ st.data[<<section, key>>] = file[j].text
      BY <1>5, <3>2 DEF Learnt
    <3>4. CASE line.kind = "entry" /\ line.key # ""
      <4>1. <<st.section, line.key>> # <<section, key>>
        BY <1>2, <1>5, <2>2, <3>1, <3>4
      <4>2. new.data = AddEntry(st.data, st.section, line.key, line.text)
        BY <1>3, <3>4
      <4> QED BY <3>3, <4>1, <4>2 DEF AddEntry
    <3>5. CASE ~ (line.kind = "entry" /\ line.key # "")
      BY <1>3, <3>3, <3>5
    <3> QED BY <3>4, <3>5
  <2> QED BY <2>1, <2>3, <2>4
<1> HIDE DEF new
<1>6. Learnt(k + 1, new)
  BY <1>3, <1>4, <1>5 DEF Learnt
<1> QED BY <1>6 DEF new

\* What is known after the last line.
LEMMA KnownLast ==
  ASSUME NEW n, Lined(n)
  PROVE  \E st : Learnt(n, st) /\ LoadData(file) = st.data
<1>1. n \in Nat /\ DOMAIN file = 1 .. n
  BY DEF Lined
<1>2. PICK g : Reads(file, n, g)
  BY <1>1, LinesRead
<1> DEFINE N == {k \in Nat : k =< n => Learnt(k, g[k])}
<1>3. 0 \in N
  BY <1>2, KnownFirst DEF Reads
<1>4. ASSUME NEW k \in Nat, k \in N
      PROVE  k + 1 \in N
  <2> SUFFICES ASSUME k + 1 =< n PROVE Learnt(k + 1, g[k + 1])
    OBVIOUS
  <2>1. k \in 0 .. n - 1 /\ k =< n
    BY <1>1
  <2>2. g[k + 1] = FindEntry(g[k], file[k + 1])
    BY <1>2, <2>1 DEF Reads
  <2>3. Learnt(k, g[k])
    BY <1>4, <2>1
  <2> QED BY <2>1, <2>2, <2>3, KnownNext
<1>5. n \in N
  <2> HIDE DEF N
  <2> QED BY <1>1, <1>3, <1>4, SetInduction
<1>6. Learnt(n, g[n]) /\ LoadData(file) = g[n].data
  BY <1>1, <1>2, <1>5 DEF Reads
<1> QED BY <1>6

\* The file is one of Files until it has been read, and then its entries are there.
FileInv == /\ pc \in {"load", "configure"} => file \in Files
           /\ pc = "configure" => ini = LoadData(file)

\* That is so at every moment.
LEMMA FileInvHolds == Spec => []FileInv
<1>1. Init => FileInv
  BY DEF Init, FileInv
<1>2. FileInv /\ [Next]_vars => FileInv'
  <2> SUFFICES ASSUME FileInv, [Next]_vars PROVE FileInv'
    OBVIOUS
  <2>1. CASE Load
    BY <2>1 DEF Load, FileInv
  <2>2. CASE LoadFails
    BY <2>2 DEF LoadFails, Leave, FileInv
  <2>3. CASE Configure
    <3>1. pc' \in {"build", "gone"}
      BY <2>3 DEF Configure, Leave
    <3> QED BY <3>1 DEF FileInv
  <2>4. CASE Build \/ NotGranted
    <3>1. PICK g : Advance(g)
      BY <2>4 DEF Build, NotGranted
    <3>2. pc' \in {"running", "build"}
      BY <3>1 DEF Advance
    <3> QED BY <3>2 DEF FileInv
  <2>5. CASE Throw \/ Quit
    BY <2>5 DEF Throw, Quit, FileInv
  <2>6. CASE Release
    <3>1. pc' \in {"unwind", "gone"}
      BY <2>6 DEF Release, Leave
    <3> QED BY <3>1 DEF FileInv
  <2>7. CASE UNCHANGED vars
    BY <2>7 DEF vars, FileInv
  <2> QED BY <2>1, <2>2, <2>3, <2>4, <2>5, <2>6, <2>7 DEF Next
<1> QED BY <1>1, <1>2, PTL DEF Spec

\* For every file: each lookup finds the last value given to the key below the nearest
\* header above it, for the keys given none below a broken header
\* (SimpleIni.h:1475-1797).
THEOREM EntriesAreTheFiles == Spec => []LastAssignmentWins
<1>1. FileInv => LastAssignmentWins
  <2> SUFFICES ASSUME FileInv, pc = "configure", NEW i \in DOMAIN file,
                      file[i].kind = "entry", file[i].key # "", Header(i).kind = "section"
               PROVE  GetValue(ini, Header(i).name, file[i].key, <<>>)
                        = file[Max({j \in DOMAIN file : Says(j, Header(i).name, file[i].key)})].text
    BY DEF LastAssignmentWins
  <2> DEFINE section == Header(i).name
             key == file[i].key
             J == {j \in DOMAIN file : Says(j, section, key)}
             n == Len(file)
  <2>1. Lined(n)
    <3>1. file \in Files /\ file \in Seq(ToSet(file))
      BY FilesAssumption DEF FileInv
    <3>2. n \in Nat /\ DOMAIN file = 1 .. n
      BY <3>1, LenProperties
    <3> QED BY <3>1, <3>2, FilesAssumption DEF Lined
  <2> HIDE DEF n
  <2>2. n \in Nat /\ DOMAIN file = 1 .. n
    BY <2>1 DEF Lined
  <2>3. PICK st : Learnt(n, st) /\ LoadData(file) = st.data
    BY <2>1, KnownLast
  <2>4. section # Garbage
    <3>1. i \in 1 .. n
      BY <2>2
    <3>2. i \in 1 .. n + 1
      BY <2>2, <3>1, OneMore, Zenon
    <3> QED BY <2>1, <3>2, HeaderNamed
  <2>5. J \subseteq 1 .. n /\ i \in J
    BY <2>2 DEF Says
  <2> HIDE DEF section, key
  <2>6. LastSays(n, section, key, Max(J))
    <3>1. Greatest(J, Max(J))
      BY <2>2, <2>5, HasGreatest
    <3> QED BY <2>2, <3>1 DEF Greatest, LastSays
  <2>7. key # ""
    BY DEF key
  <2> HIDE DEF J
  <2>8. /\ <<section, key>> \in DOMAIN st.data
        /\ st.data[<<section, key>>] = file[Max(J)].text
    BY <2>3, <2>4, <2>6, <2>7 DEF Learnt
  <2>9. ini = st.data
    BY <2>3 DEF FileInv
  <2>10. GetValue(ini, section, key, <<>>) = file[Max(J)].text
    BY <2>8, <2>9 DEF GetValue
  <2> QED BY <2>10 DEF section, key, J
<1> QED BY <1>1, FileInvHolds, PTL
=============================================================================
