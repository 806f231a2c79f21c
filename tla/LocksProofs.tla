---------------------------- MODULE LocksProofs -----------------------------
(***************************************************************************)
(* Theorems about Locks, for any number of threads, mutexes and calls, and *)
(* any paths that take the mutexes in the order of Rank.                   *)
(***************************************************************************)
EXTENDS Locks, SequenceTheorems, TLAPS

\* A path takes its mutexes in the order of Rank and runs callbacks with none held.
InOrder(step) ==
  /\ step.op = "lock" => \A h \in step.held : Rank[h] < Rank[step.m]
  /\ step.op = "callback" => step.held = {}

Ordered(path) == \A i \in 1..Len(path) : InOrder(path[i])

\* What is left of such a path: Scoped, except that it may begin inside scopes.
Rest(s) ==
  /\ s \in Seq(Step)
  /\ \A i \in 1..Len(s) :
       /\ s[i].op # "callback" => s[i].m \in Mutexes
       /\ s[i].op = "unlock" => s[i].m \in s[i].held
       /\ i = Len(s) => After(s[i]) = {}
       /\ i < Len(s) => After(s[i]) = s[i + 1].held
  /\ Ordered(s)

LInv == /\ owner \in [Mutexes -> Threads \cup {Nobody}]
        /\ rest \in [Threads -> Seq(Step)]
        /\ \A t \in Threads : Rest(rest[t])
        /\ ScopesHeld

\* A scoped and ordered path is one of which everything is left.
LEMMA WholePath ==
  ASSUME NEW path, Scoped(path), Ordered(path)
  PROVE  Rest(path) /\ Held(path) = {}
  BY DEF Scoped, Rest

\* Any end of what is left will do as well.
LEMMA EndIsRest ==
  ASSUME NEW s, Rest(s), NEW i \in 1..Len(s)
  PROVE  /\ Rest(SubSeq(s, i, Len(s)))
         /\ Held(SubSeq(s, i, Len(s))) = s[i].held
<1> DEFINE e == SubSeq(s, i, Len(s))
<1>1. s \in Seq(Step) /\ Len(s) \in Nat
  BY DEF Rest
<1>2. e \in Seq(Step) /\ Len(e) = Len(s) - i + 1
  BY <1>1, SubSeqProperties
<1>3. \A j \in 1..Len(e) : e[j] = s[i + j - 1]
  BY <1>1, <1>2, SubSeqProperties
<1>4. \A j \in 1..Len(e) : i + j - 1 \in 1..Len(s)
  BY <1>1, <1>2
<1> HIDE DEF e
<1>5. ASSUME NEW j \in 1..Len(e)
      PROVE  /\ e[j].op # "callback" => e[j].m \in Mutexes
             /\ e[j].op = "unlock" => e[j].m \in e[j].held
             /\ j = Len(e) => After(e[j]) = {}
             /\ j < Len(e) => After(e[j]) = e[j + 1].held
  <2> DEFINE k == i + j - 1
  <2>1. k \in 1..Len(s) /\ e[j] = s[k]
    BY <1>3, <1>4
  <2>2. j = Len(e) => k = Len(s)
    BY <1>1, <1>2
  <2>3. j < Len(e) => k < Len(s) /\ e[j + 1] = s[k + 1]
    BY <1>1, <1>2, <1>3
  <2> HIDE DEF k
  <2> QED BY <2>1, <2>2, <2>3 DEF Rest
<1>6. Ordered(e)
  <2>1. \A k \in 1..Len(s) : InOrder(s[k])
    BY DEF Rest, Ordered
  <2> QED BY <1>3, <1>4, <2>1 DEF Ordered
<1>7. Rest(e)
  BY <1>2, <1>5, <1>6 DEF Rest
<1>8. e # <<>> /\ Head(e) = e[1] /\ e[1] = s[i]
  BY <1>1, <1>2, <1>3
<1> QED BY <1>7, <1>8 DEF Held, e

\* Conditions lead to somewhere in the same scope, with the same mutexes held.
LEMMA OnwardsRest ==
  ASSUME NEW s, Rest(s), NEW r \in Onwards(s)
  PROVE  Rest(r) /\ Held(r) = Held(s)
<1>1. CASE \E j \in 1..Len(s) : s[j].held = Held(s) /\ r = SubSeq(s, j, Len(s))
  BY <1>1, EndIsRest
<1>2. CASE Held(s) = {} /\ r = <<>>
  BY <1>2 DEF Rest, Ordered, Held
<1> QED BY <1>1, <1>2 DEF Onwards

\* Taking the first step leaves the rest of the path, and holds what it says.
LEMMA TailRest ==
  ASSUME NEW s, Rest(s), s # <<>>
  PROVE  Rest(Tail(s)) /\ Held(Tail(s)) = After(Head(s))
<1>1. s \in Seq(Step) /\ Len(s) \in Nat /\ Len(s) >= 1 /\ Head(s) = s[1]
  BY EmptySeq DEF Rest
<1>2. /\ Tail(s) \in Seq(Step) /\ Len(Tail(s)) = Len(s) - 1
      /\ \A i \in 1..Len(Tail(s)) : Tail(s)[i] = s[i + 1]
  BY <1>1, HeadTailProperties
<1>3. \A i \in 1..Len(Tail(s)) : i + 1 \in 1..Len(s)
  BY <1>1, <1>2
<1>4. ASSUME NEW i \in 1..Len(Tail(s))
      PROVE  /\ Tail(s)[i].op # "callback" => Tail(s)[i].m \in Mutexes
             /\ Tail(s)[i].op = "unlock" => Tail(s)[i].m \in Tail(s)[i].held
             /\ i = Len(Tail(s)) => After(Tail(s)[i]) = {}
             /\ i < Len(Tail(s)) => After(Tail(s)[i]) = Tail(s)[i + 1].held
  <2> DEFINE k == i + 1
  <2>1. k \in 1..Len(s) /\ Tail(s)[i] = s[k]
    BY <1>2, <1>3
  <2>2. i = Len(Tail(s)) => k = Len(s)
    BY <1>1, <1>2
  <2>3. i < Len(Tail(s)) => k < Len(s) /\ Tail(s)[i + 1] = s[k + 1]
    BY <1>1, <1>2
  <2> HIDE DEF k
  <2> QED BY <2>1, <2>2, <2>3 DEF Rest
<1>5. Ordered(Tail(s))
  <2>1. \A k \in 1..Len(s) : InOrder(s[k])
    BY DEF Rest, Ordered
  <2> QED BY <1>2, <1>3, <2>1 DEF Ordered
<1>6. Rest(Tail(s))
  BY <1>2, <1>4, <1>5 DEF Rest
<1> DEFINE n == Len(s)
           r == Tail(s)
<1>7. n \in Nat /\ n >= 1 /\ r \in Seq(Step) /\ Len(r) = n - 1
  BY <1>1, <1>2
<1>8. Head(s) = s[1] /\ Rest(r) /\ (n > 1 => r[1] = s[2])
  BY <1>1, <1>2, <1>6
<1>9. /\ n = 1 => After(s[1]) = {}
      /\ n > 1 => After(s[1]) = s[2].held
  <2>1. 1 \in 1..Len(s)
    BY <1>1
  <2> QED BY <2>1 DEF Rest
<1> HIDE DEF n, r
<1>10. CASE n = 1
  <2>1. r = <<>>
    BY <1>7, <1>10, EmptySeq
  <2> QED BY <1>8, <1>9, <1>10, <2>1 DEF Held, r
<1>11. CASE n > 1
  <2>1. r # <<>> /\ Head(r) = r[1]
    BY <1>7, <1>11
  <2> QED BY <1>8, <1>9, <1>11, <2>1 DEF Held, r
<1> QED BY <1>7, <1>10, <1>11

\* A call from a callback comes before what is left of the caller's path.
LEMMA CallThenRest ==
  ASSUME NEW s, NEW r, Rest(s), Rest(r), Held(r) = {}, Held(s) = {}
  PROVE  Rest(s \o r) /\ Held(s \o r) = {}
<1> DEFINE c == s \o r
<1>1. s \in Seq(Step) /\ r \in Seq(Step) /\ Len(s) \in Nat /\ Len(r) \in Nat
  BY DEF Rest
<1>2. c \in Seq(Step) /\ Len(c) = Len(s) + Len(r)
  BY <1>1, ConcatProperties
<1>3. /\ \A i \in 1..Len(s) : c[i] = s[i]
      /\ \A i \in 1..Len(r) : c[Len(s) + i] = r[i]
  BY <1>1
<1>4. \A i \in 1..Len(c) : i \in 1..Len(s) \/ (i - Len(s) \in 1..Len(r) /\ i = Len(s) + (i - Len(s)))
  BY <1>1, <1>2
<1>5. Len(r) > 0 => r[1].held = {}
  BY <1>1, EmptySeq DEF Held
<1>6. Len(s) > 0 => s[1].held = {}
  BY <1>1, EmptySeq DEF Held
<1> HIDE DEF c
<1>7. ASSUME NEW i \in 1..Len(c)
      PROVE  /\ c[i].op # "callback" => c[i].m \in Mutexes
             /\ c[i].op = "unlock" => c[i].m \in c[i].held
             /\ i = Len(c) => After(c[i]) = {}
             /\ i < Len(c) => After(c[i]) = c[i + 1].held
  <2>1. CASE i \in 1..Len(s)
    <3>1. c[i] = s[i]
      BY <1>3, <2>1
    <3>2. CASE i < Len(s)
      <4>1. i + 1 \in 1..Len(s) /\ i < Len(c) /\ i # Len(c)
        BY <1>1, <1>2, <3>2, <2>1
      <4>2. c[i + 1] = s[i + 1]
        BY <1>3, <4>1
      <4> QED BY <2>1, <3>1, <3>2, <4>1, <4>2 DEF Rest
    <3>3. CASE i = Len(s)
      <4>1. After(c[i]) = {}
        BY <2>1, <3>1, <3>3 DEF Rest
      <4>2. i < Len(c) => c[i + 1] = r[1] /\ r[1].held = {}
        BY <1>1, <1>2, <1>3, <1>5, <3>3
      <4> QED BY <2>1, <3>1, <4>1, <4>2 DEF Rest
    <3> QED BY <1>1, <2>1, <3>2, <3>3
  <2>2. CASE i \notin 1..Len(s)
    <3> DEFINE j == i - Len(s)
    <3>1. j \in 1..Len(r) /\ c[i] = r[j]
      BY <1>1, <1>3, <1>4, <2>2
    <3>2. i = Len(c) => j = Len(r)
      BY <1>1, <1>2
    <3>3. i < Len(c) => j < Len(r) /\ c[i + 1] = r[j + 1]
      <4>1. SUFFICES ASSUME i < Len(c) PROVE j < Len(r) /\ c[i + 1] = r[j + 1]
        OBVIOUS
      <4>2. j + 1 \in 1..Len(r) /\ i + 1 = Len(s) + (j + 1)
        BY <1>1, <1>2, <3>1, <4>1
      <4> QED BY <1>1, <1>3, <3>1, <4>2
    <3> HIDE DEF j
    <3> QED BY <3>1, <3>2, <3>3 DEF Rest
  <2> QED BY <2>1, <2>2
<1>8. Ordered(c)
  <2>1. /\ \A k \in 1..Len(s) : InOrder(s[k])
        /\ \A k \in 1..Len(r) : InOrder(r[k])
    BY DEF Rest, Ordered
  <2> SUFFICES ASSUME NEW i \in 1..Len(c) PROVE InOrder(c[i])
    BY DEF Ordered
  <2>2. CASE i \in 1..Len(s)
    BY <1>3, <2>1, <2>2
  <2>3. CASE i \notin 1..Len(s)
    <3>1. i - Len(s) \in 1..Len(r) /\ c[i] = r[i - Len(s)]
      BY <1>1, <1>3, <1>4, <2>3
    <3> QED BY <2>1, <3>1
  <2> QED BY <2>2, <2>3
<1>9. Rest(c)
  BY <1>2, <1>7, <1>8 DEF Rest
<1>10. Held(c) = {}
  <2>1. CASE Len(c) = 0
    BY <1>2, <2>1, EmptySeq DEF Held
  <2>2. CASE Len(c) > 0
    <3>1. c[1].held = {}
      BY <1>1, <1>2, <1>3, <1>5, <1>6, <2>2
    <3> QED BY <1>2, <2>2, <3>1 DEF Held
  <2> QED BY <1>2, <2>1, <2>2
<1> QED BY <1>9, <1>10 DEF c

-----------------------------------------------------------------------------

OrderedPaths == \A path \in Paths \cup Callbacks : Ordered(path)

\* A step of t keeps LInv if t goes on somewhere where what it then holds is
\* what the scope says, and nobody else's mutexes change hands.
LEMMA ThreadMoves ==
  ASSUME LInv, NEW t \in Threads, NEW s,
         Rest(s), rest' = [rest EXCEPT ![t] = s],
         owner' \in [Mutexes -> Threads \cup {Nobody}],
         {m \in Mutexes : owner'[m] = t} = Held(s),
         \A u \in Threads \ {t}, m \in Mutexes : owner'[m] = u <=> owner[m] = u
  PROVE  LInv'
<1>1. s \in Seq(Step) /\ rest \in [Threads -> Seq(Step)]
  BY DEF Rest, LInv
<1>2. rest' \in [Threads -> Seq(Step)]
  BY <1>1
<1>3. rest'[t] = s /\ \A u \in Threads \ {t} : rest'[u] = rest[u]
  BY <1>1
<1>4. \A u \in Threads : Rest(rest'[u])
  BY <1>3 DEF LInv
<1>5. ASSUME NEW u \in Threads
      PROVE  {m \in Mutexes : owner'[m] = u} = Held(rest'[u])
  <2>1. CASE u = t
    BY <1>3, <2>1
  <2>2. CASE u # t
    <3>1. {m \in Mutexes : owner'[m] = u} = {m \in Mutexes : owner[m] = u}
      BY <2>2
    <3>2. {m \in Mutexes : owner[m] = u} = Held(rest[u])
      BY DEF LInv, ScopesHeld
    <3> QED BY <1>3, <2>2, <3>1, <3>2
  <2> QED BY <2>1, <2>2
<1>6. ScopesHeld'
  BY <1>5 DEF ScopesHeld, Held
<1>7. (\A u \in Threads : Rest(rest[u]))'
  BY <1>4 DEF Rest, Ordered, InOrder, After
<1> QED BY <1>2, <1>6, <1>7 DEF LInv

\* A thread between two steps goes on in the scope it is in.
LEMMA ThreadTakes ==
  ASSUME LInv, NEW t \in Threads, NEW op, Take(t, op)
  PROVE  \E s : /\ Rest(s) /\ rest' = [rest EXCEPT ![t] = s]
                /\ Held(s) = After(Head(rest[t]))
<1>1. Rest(rest[t]) /\ rest[t] # <<>>
  BY DEF LInv, Take
<1>2. Rest(Tail(rest[t])) /\ Held(Tail(rest[t])) = After(Head(rest[t]))
  BY <1>1, TailRest
<1>3. PICK s \in Onwards(Tail(rest[t])) : rest' = [rest EXCEPT ![t] = s]
  BY DEF Take
<1>4. Rest(s) /\ Held(s) = Held(Tail(rest[t]))
  BY <1>2, OnwardsRest
<1> QED BY <1>2, <1>3, <1>4

\* The first step of what is left of a thread's path.
LEMMA FirstStep ==
  ASSUME LInv, NEW t \in Threads, rest[t] # <<>>
  PROVE  /\ Head(rest[t]).held = {m \in Mutexes : owner[m] = t}
         /\ Head(rest[t]).op # "callback" => Head(rest[t]).m \in Mutexes
         /\ Head(rest[t]).op = "unlock" => Head(rest[t]).m \in Head(rest[t]).held
         /\ InOrder(Head(rest[t]))
<1> DEFINE s == rest[t]
<1>1. Rest(s) /\ s \in Seq(Step)
  BY DEF LInv, Rest
<1>2. 1 \in 1..Len(s) /\ Head(s) = s[1]
  BY <1>1, EmptySeq
<1>3. Held(s) = Head(s).held /\ Held(s) = {m \in Mutexes : owner[m] = t}
  BY DEF Held, LInv, ScopesHeld
<1> HIDE DEF s
<1>4. /\ s[1].op # "callback" => s[1].m \in Mutexes
      /\ s[1].op = "unlock" => s[1].m \in s[1].held
      /\ InOrder(s[1])
  BY <1>1, <1>2 DEF Rest, Ordered
<1> QED BY <1>2, <1>3, <1>4 DEF s

LEMMA LockStep ==
  ASSUME LInv, NEW t \in Threads, Lock(t)
  PROVE  LInv'
<1> DEFINE x == Head(rest[t]).m
<1>1. /\ rest[t] # <<>> /\ Head(rest[t]).op = "lock"
      /\ owner[x] = Nobody /\ owner' = [owner EXCEPT ![x] = t]
  BY DEF Lock, Take
<1>2. PICK s : /\ Rest(s) /\ rest' = [rest EXCEPT ![t] = s]
               /\ Held(s) = After(Head(rest[t]))
  BY ThreadTakes DEF Lock
<1>3. x \in Mutexes /\ Head(rest[t]).held = {m \in Mutexes : owner[m] = t}
  BY <1>1, FirstStep
<1>4. After(Head(rest[t])) = {m \in Mutexes : owner[m] = t} \cup {x}
  BY <1>1, <1>3 DEF After
<1>5. owner \in [Mutexes -> Threads \cup {Nobody}]
  BY DEF LInv
<1> HIDE DEF x
<1>6. owner' \in [Mutexes -> Threads \cup {Nobody}]
  BY <1>1, <1>3, <1>5
<1>7. {m \in Mutexes : owner'[m] = t} = Held(s)
  BY <1>1, <1>2, <1>3, <1>4, <1>5
<1>8. \A u \in Threads \ {t}, m \in Mutexes : owner'[m] = u <=> owner[m] = u
  BY <1>1, <1>3, <1>5, FreeAssumption
<1> QED BY <1>2, <1>6, <1>7, <1>8, ThreadMoves

LEMMA UnlockStep ==
  ASSUME LInv, NEW t \in Threads, Unlock(t)
  PROVE  LInv'
<1> DEFINE x == Head(rest[t]).m
<1>1. /\ rest[t] # <<>> /\ Head(rest[t]).op = "unlock"
      /\ owner' = [owner EXCEPT ![x] = Nobody]
  BY DEF Unlock, Take
<1>2. PICK s : /\ Rest(s) /\ rest' = [rest EXCEPT ![t] = s]
               /\ Held(s) = After(Head(rest[t]))
  BY ThreadTakes DEF Unlock
<1>3. /\ Head(rest[t]).held = {m \in Mutexes : owner[m] = t}
      /\ x \in Head(rest[t]).held
  BY <1>1, FirstStep
<1>4. After(Head(rest[t])) = {m \in Mutexes : owner[m] = t} \ {x}
  BY <1>1, <1>3 DEF After
<1>5. owner \in [Mutexes -> Threads \cup {Nobody}]
  BY DEF LInv
<1>6. x \in Mutexes /\ owner[x] = t
  BY <1>3
<1> HIDE DEF x
<1>7. owner' \in [Mutexes -> Threads \cup {Nobody}]
  BY <1>1, <1>5, <1>6
<1>8. {m \in Mutexes : owner'[m] = t} = Held(s)
  BY <1>1, <1>2, <1>4, <1>5, <1>6, FreeAssumption
<1>9. \A u \in Threads \ {t}, m \in Mutexes : owner'[m] = u <=> owner[m] = u
  BY <1>1, <1>5, <1>6, FreeAssumption
<1> QED BY <1>2, <1>7, <1>8, <1>9, ThreadMoves

\* A callback runs with nothing held, so whatever it calls starts a path anew.
LEMMA CallbackStep ==
  ASSUME LInv, OrderedPaths, NEW t \in Threads, RunCallback(t)
  PROVE  LInv'
<1>1. rest[t] # <<>> /\ Head(rest[t]).op = "callback" /\ owner' = owner
  BY DEF RunCallback, Take
<1>2. Rest(rest[t]) /\ owner \in [Mutexes -> Threads \cup {Nobody}]
  BY DEF LInv
<1>3. /\ Head(rest[t]).held = {} /\ {m \in Mutexes : owner[m] = t} = {}
      /\ After(Head(rest[t])) = {}
  BY <1>1, FirstStep DEF InOrder, After
<1>4. \E s : Rest(s) /\ rest' = [rest EXCEPT ![t] = s] /\ Held(s) = {}
  <2>1. CASE Take(t, "callback")
    BY <1>3, <2>1, ThreadTakes
  <2>2. CASE \E path \in Callbacks : \E s \in Onwards(path) :
               rest' = [rest EXCEPT ![t] = s \o Tail(@)]
    <3>0. PICK path \in Callbacks : \E s \in Onwards(path) :
            rest' = [rest EXCEPT ![t] = s \o Tail(@)]
      BY <2>2
    <3>1. PICK s \in Onwards(path) : rest' = [rest EXCEPT ![t] = s \o Tail(@)]
      BY <3>0
    <3>2. Rest(path) /\ Held(path) = {}
      BY WholePath, PathsAssumption DEF OrderedPaths
    <3>3. Rest(s) /\ Held(s) = {}
      BY <3>2, OnwardsRest
    <3>4. Rest(Tail(rest[t])) /\ Held(Tail(rest[t])) = {}
      BY <1>1, <1>2, <1>3, TailRest
    <3>5. Rest(s \o Tail(rest[t])) /\ Held(s \o Tail(rest[t])) = {}
      BY <3>3, <3>4, CallThenRest
    <3>6. rest' = [rest EXCEPT ![t] = s \o Tail(rest[t])]
      BY <3>1 DEF LInv
    <3> QED BY <3>5, <3>6
  <2> QED BY <2>1, <2>2 DEF RunCallback
<1>5. PICK s : Rest(s) /\ rest' = [rest EXCEPT ![t] = s] /\ Held(s) = {}
  BY <1>4
<1> QED BY <1>1, <1>2, <1>3, <1>5, ThreadMoves

LEMMA CallStep ==
  ASSUME LInv, OrderedPaths, NEW t \in Threads, Call(t)
  PROVE  LInv'
<1>0. PICK path \in Paths : \E s \in Onwards(path) : rest' = [rest EXCEPT ![t] = s]
  BY DEF Call
<1>1. PICK s \in Onwards(path) : rest' = [rest EXCEPT ![t] = s]
  BY <1>0
<1>2. Rest(path) /\ Held(path) = {}
  BY WholePath, PathsAssumption DEF OrderedPaths
<1>3. Rest(s) /\ Held(s) = {}
  BY <1>2, OnwardsRest
<1>4. rest[t] = <<>> /\ owner' = owner
  BY DEF Call
<1>5. {m \in Mutexes : owner[m] = t} = {}
  BY <1>4 DEF LInv, ScopesHeld, Held
<1>6. owner \in [Mutexes -> Threads \cup {Nobody}]
  BY DEF LInv
<1> QED BY <1>1, <1>3, <1>4, <1>5, <1>6, ThreadMoves

\* A thread holds exactly the mutexes of the scopes it is in, throughout.
THEOREM ScopeSafety ==
  ASSUME OrderedPaths
  PROVE  Spec => []LInv
<1>1. Init => LInv
  <2> SUFFICES ASSUME Init PROVE LInv
    OBVIOUS
  <2>1. <<>> \in Seq(Step) /\ Len(<<>>) = 0
    BY EmptySeq
  <2>2. Rest(<<>>) /\ Held(<<>>) = {}
    BY <2>1 DEF Rest, Ordered, Held
  <2>3. \A t \in Threads : {m \in Mutexes : owner[m] = t} = {}
    BY FreeAssumption DEF Init
  <2> QED BY <2>1, <2>2, <2>3 DEF Init, LInv, ScopesHeld
<1>2. LInv /\ [Next]_vars => LInv'
  <2> SUFFICES ASSUME LInv, [Next]_vars PROVE LInv'
    OBVIOUS
  <2>1. CASE \E t \in Threads : Call(t)
    BY <2>1, CallStep
  <2>2. CASE \E t \in Threads : Run(t)
    BY <2>2, LockStep, UnlockStep, CallbackStep DEF Run
  <2>3. CASE UNCHANGED vars
    <3>1. owner' = owner /\ rest' = rest
      BY <2>3 DEF vars
    <3>2. ScopesHeld'
      BY <3>1 DEF LInv, ScopesHeld, Held
    <3>3. (\A t \in Threads : Rest(rest[t]))'
      <4>1. \A t \in Threads : Rest(rest[t]) /\ rest'[t] = rest[t]
        BY <3>1 DEF LInv
      <4>2. \A t \in Threads : Rest(rest'[t])
        BY <4>1
      <4> QED BY <4>2 DEF Rest, Ordered, InOrder, After
    <3> QED BY <3>1, <3>2, <3>3 DEF LInv
  <2> QED BY <2>1, <2>2, <2>3 DEF Next
<1> QED BY <1>1, <1>2, PTL DEF Spec

\* Every mutex is taken in the order of Rank, by any number of threads that make
\* any number of calls, callbacks that call the library included.
THEOREM LockSafety ==
  ASSUME OrderedPaths
  PROVE  Spec => []LockOrder
<1>1. LInv => LockOrder
  <2> SUFFICES ASSUME LInv, NEW t \in Threads, rest[t] # <<>>, NEW m \in Mutexes, owner[m] = t
               PROVE  /\ Head(rest[t]).op = "lock" => Rank[m] < Rank[Head(rest[t]).m]
                      /\ Head(rest[t]).op # "callback"
    BY DEF LockOrder
  <2> QED BY FirstStep DEF InOrder
<1> QED BY <1>1, ScopeSafety, PTL

-----------------------------------------------------------------------------

\* t waits for a mutex that u holds.
WaitsFor(t, u) ==
  rest[t] # <<>> /\ Head(rest[t]).op = "lock"
  /\ Head(rest[t]).m \in Mutexes /\ owner[Head(rest[t]).m] = u

\* From a thread that waits to the one it waits for, if that one waits as well,
\* the rank of the mutex that is wanted goes up.
WaitsUpwards ==
  \A t, u, v \in Threads : WaitsFor(t, u) /\ WaitsFor(u, v)
    => Rank[Head(rest[t]).m] < Rank[Head(rest[u]).m]

\* Waiting leads upwards, so that no circle of threads waits for one another:
\* what the order of the mutexes is for.
THEOREM NoCircle ==
  ASSUME OrderedPaths
  PROVE  Spec => []WaitsUpwards
<1>1. LockOrder => WaitsUpwards
  BY DEF LockOrder, WaitsUpwards, WaitsFor
<1> QED BY <1>1, LockSafety, PTL
=============================================================================
