-------------------------- MODULE MasterHubProofs ---------------------------
(***************************************************************************)
(* Theorems about MasterHub, for any number of components and ids.         *)
(***************************************************************************)
EXTENDS MasterHub, SequenceTheorems, WellFoundedInduction, TLAPS

-----------------------------------------------------------------------------
(* Induction.  The induction theorems of the library quantify over         *)
(* predicates; this one, over sets, follows from the least element that a  *)
(* set of naturals has.                                                    *)

LEMMA LeastNatural ==
  ASSUME NEW T, T \subseteq Nat, T # {}
  PROVE  \E x \in T : \A y \in T : x <= y
<1> DEFINE R == {p \in Nat \X Nat : p[1] < p[2]}
<1>1. IsWellFoundedOn(R, Nat)
  BY NatLessThanWellFounded DEF OpToRel
<1>2. PICK x \in T : \A y \in T : ~ (<<y, x>> \in R)
  BY <1>1, WFMin
<1>3. \A y \in T : y \in Nat /\ ~(y < x)
  BY <1>2
<1>4. \A y \in T : x <= y
  BY <1>3
<1> QED
  BY <1>4

LEMMA SetInduction ==
  ASSUME NEW S, 0 \in S, \A n \in Nat : n \in S => n + 1 \in S
  PROVE  Nat \subseteq S
<1> SUFFICES ASSUME Nat \ S # {} PROVE FALSE
  OBVIOUS
<1>1. PICK x \in Nat \ S : \A y \in Nat \ S : x <= y
  BY LeastNatural
<1>2. x \in Nat /\ x # 0 /\ x - 1 \in Nat /\ x - 1 \in S
  BY <1>1
<1> QED
  BY <1>1, <1>2

-----------------------------------------------------------------------------
(* What a component will know                                              *)

\* f is what q makes of map, step by step.
Unfolds(f, map, q, n) ==
  f = [i \in 0..n |-> IF i = 0 THEN map ELSE Told(f[i - 1], q[i])]

LEMMA ViewsUnfold ==
  ASSUME NEW map, NEW q, Len(q) \in Nat
  PROVE  Unfolds(Views(map, q), map, q, Len(q))
<1> DEFINE S == {n \in Nat : \E f : Unfolds(f, map, q, n)}
<1>1. 0 \in S
  <2> DEFINE f == [i \in 0..0 |-> map]
  <2>1. Unfolds(f, map, q, 0)
    BY DEF Unfolds
  <2> QED
    BY <2>1
<1>2. ASSUME NEW n \in Nat, n \in S PROVE n + 1 \in S
  <2>1. PICK f : Unfolds(f, map, q, n)
    BY <1>2
  <2> DEFINE g == [i \in 0..n + 1 |-> IF i = n + 1 THEN Told(f[n], q[n + 1]) ELSE f[i]]
  <2>2. \A i \in 0..n : f[i] = IF i = 0 THEN map ELSE Told(f[i - 1], q[i])
    BY <2>1 DEF Unfolds
  <2>3. \A i \in 0..n : g[i] = f[i]
    OBVIOUS
  <2>4. g[n + 1] = Told(f[n], q[n + 1])
    OBVIOUS
  <2>5. ASSUME NEW i \in 0..n + 1
        PROVE  g[i] = IF i = 0 THEN map ELSE Told(g[i - 1], q[i])
    <3>1. CASE i = n + 1
      BY <2>3, <2>4, <3>1
    <3>2. CASE i = 0
      BY <2>2, <2>3, <3>2
    <3>3. CASE i \in 1..n
      <4>1. i \in 0..n /\ i - 1 \in 0..n /\ i # 0
        BY <3>3
      <4> QED
        BY <2>2, <2>3, <4>1
    <3> QED
      BY <3>1, <3>2, <3>3
  <2>6. g = [i \in 0..n + 1 |-> IF i = 0 THEN map ELSE Told(g[i - 1], q[i])]
    BY <2>5
  <2>7. Unfolds(g, map, q, n + 1)
    BY <2>6 DEF Unfolds
  <2> HIDE DEF g
  <2> QED
    BY <2>7
<1>3. \E f : Unfolds(f, map, q, Len(q))
  <2> HIDE DEF S
  <2>1. Nat \subseteq S
    BY <1>1, <1>2, SetInduction
  <2> QED
    BY <2>1 DEF S
<1>4. Views(map, q) = CHOOSE f : Unfolds(f, map, q, Len(q))
  BY DEF Views, Unfolds
<1> QED
  BY <1>3, <1>4

\* The same, pointwise.
LEMMA ViewsAt ==
  ASSUME NEW map, NEW q, Len(q) \in Nat
  PROVE  /\ Views(map, q)[0] = map
         /\ \A n \in 1..Len(q) : Views(map, q)[n] = Told(Views(map, q)[n - 1], q[n])
<1>1. Views(map, q) = [i \in 0..Len(q) |-> IF i = 0 THEN map ELSE Told(Views(map, q)[i - 1], q[i])]
  BY ViewsUnfold DEF Unfolds
<1> HIDE DEF Views
<1>2. \A i \in 0..Len(q) : Views(map, q)[i] = IF i = 0 THEN map ELSE Told(Views(map, q)[i - 1], q[i])
  BY <1>1, Zenon
<1>3. 0 \in 0..Len(q) /\ \A n \in 1..Len(q) : n \in 0..Len(q) /\ n # 0
  OBVIOUS
<1> QED
  BY <1>2, <1>3

\* A frame at the end changes nothing of what was before it.
LEMMA ViewsAppend ==
  ASSUME NEW M, NEW map, NEW q \in Seq(M), NEW m \in M
  PROVE  /\ \A n \in 0..Len(q) : Views(map, Append(q, m))[n] = Views(map, q)[n]
         /\ Views(map, Append(q, m))[Len(q) + 1] = Told(Views(map, q)[Len(q)], m)
<1> DEFINE p == Append(q, m)
           f == Views(map, q)
           g == Views(map, p)
           S == {n \in Nat : n <= Len(q) => g[n] = f[n]}
<1>1. /\ Len(q) \in Nat /\ Len(p) = Len(q) + 1 /\ p[Len(q) + 1] = m
      /\ \A i \in 1..Len(q) : p[i] = q[i]
  OBVIOUS
<1> HIDE DEF p
<1>2. /\ f[0] = map /\ \A n \in 1..Len(q) : f[n] = Told(f[n - 1], q[n])
      /\ g[0] = map /\ \A n \in 1..Len(p) : g[n] = Told(g[n - 1], p[n])
  BY <1>1, ViewsAt
<1> HIDE DEF f, g
<1>3. 0 \in S
  BY <1>2
<1>4. ASSUME NEW n \in Nat, n \in S PROVE n + 1 \in S
  <2> SUFFICES ASSUME n + 1 <= Len(q) PROVE g[n + 1] = f[n + 1]
    OBVIOUS
  <2>1. /\ n + 1 \in 1..Len(q) /\ n + 1 \in 1..Len(p) /\ (n + 1) - 1 = n
        /\ n <= Len(q)
    BY <1>1
  <2>2. g[n] = f[n]
    BY <1>4, <2>1
  <2> QED
    BY <1>1, <1>2, <2>1, <2>2
<1>5. Nat \subseteq S
  <2> HIDE DEF S
  <2> QED
    BY <1>3, <1>4, SetInduction
<1>6. \A n \in 0..Len(q) : g[n] = f[n]
  BY <1>1, <1>5
<1>7. g[Len(q) + 1] = Told(f[Len(q)], m)
  <2>1. /\ Len(q) + 1 \in 1..Len(p) /\ (Len(q) + 1) - 1 = Len(q) /\ Len(q) \in 0..Len(q)
    BY <1>1
  <2> QED
    BY <1>1, <1>2, <1>6, <2>1
<1> QED
  BY <1>6, <1>7 DEF f, g, p

\* Reading a frame moves everything one place.
LEMMA ViewsTail ==
  ASSUME NEW M, NEW map, NEW q \in Seq(M), q # <<>>
  PROVE  \A n \in 0..Len(Tail(q)) :
           Views(Told(map, Head(q)), Tail(q))[n] = Views(map, q)[n + 1]
<1> DEFINE p == Tail(q)
           f == Views(map, q)
           g == Views(Told(map, Head(q)), p)
           S == {n \in Nat : n <= Len(p) => g[n] = f[n + 1]}
<1>1. /\ Len(q) \in Nat \ {0} /\ Len(p) = Len(q) - 1 /\ Head(q) = q[1]
      /\ \A i \in 1..Len(p) : p[i] = q[i + 1]
  OBVIOUS
<1> HIDE DEF p
<1>2. /\ f[0] = map /\ \A n \in 1..Len(q) : f[n] = Told(f[n - 1], q[n])
      /\ g[0] = Told(map, q[1]) /\ \A n \in 1..Len(p) : g[n] = Told(g[n - 1], p[n])
  <2>1. Len(p) \in Nat /\ Len(q) \in Nat
    BY <1>1
  <2>2. f[0] = map /\ \A n \in 1..Len(q) : f[n] = Told(f[n - 1], q[n])
    BY <2>1, ViewsAt
  <2>3. g[0] = Told(map, Head(q)) /\ \A n \in 1..Len(p) : g[n] = Told(g[n - 1], p[n])
    BY <2>1, ViewsAt
  <2> QED
    BY <1>1, <2>2, <2>3
<1> HIDE DEF f, g
<1>3. 0 \in S
  <2>1. 1 \in 1..Len(q) /\ 1 - 1 = 0 /\ 0 + 1 = 1
    BY <1>1
  <2> QED
    BY <1>2, <2>1
<1>4. ASSUME NEW n \in Nat, n \in S PROVE n + 1 \in S
  <2> SUFFICES ASSUME n + 1 <= Len(p) PROVE g[n + 1] = f[(n + 1) + 1]
    OBVIOUS
  <2>1. /\ n + 1 \in 1..Len(p) /\ (n + 1) + 1 \in 1..Len(q) /\ (n + 1) - 1 = n
        /\ ((n + 1) + 1) - 1 = n + 1 /\ n <= Len(p)
    BY <1>1
  <2>2. g[n] = f[n + 1]
    BY <1>4, <2>1
  <2> QED
    BY <1>1, <1>2, <2>1, <2>2
<1>5. Nat \subseteq S
  <2> HIDE DEF S
  <2> QED
    BY <1>3, <1>4, SetInduction
<1>6. \A n \in 0..Len(p) : g[n] = f[n + 1]
  BY <1>1, <1>5
<1> QED
  BY <1>6 DEF f, g, p


-----------------------------------------------------------------------------
(* The inductive invariant.  What it says of one component is a predicate  *)
(* of that component's state and of the master's map, so that each step is *)
(* a fact about values.                                                    *)

\* The frames on their way: the reply comes first, and once; what follows is
\* about others.
Shape(q, p, o) ==
  \A n \in 1..Len(q) :
    /\ q[n].type = "Welcome" <=> p = "joining" /\ n = 1
    /\ q[n].type = "Welcome" => q[n].id = o /\ ~Contains(q[n].all, o)
    /\ q[n].type # "Welcome" => q[n].id # o

\* None adds what is known by then.
Fits(q, k) ==
  \A n \in 1..Len(q) : q[n].type = "Add" => ~Contains(Views(k, q)[n - 1], q[n].id)

\* A process in phase p that has the id oid, knows k and is sent q, and its
\* session at the master, in phase s and with the id o.
ComponentOK(p, s, o, oid, k, q, map) ==
  /\ s = "registered" => o \in Ids
  /\ p = "new" => s = "none"
  /\ p = "joining" => s \in {"hello", "registered"}
  /\ p = "up" => s = "registered" /\ oid = o
  /\ p = "orphan" => s \in {"registered", "ended"} /\ oid = o
  /\ s \in {"none", "hello"} \/ p \in {"orphan", "gone"} => q = <<>>
  /\ s = "registered" /\ p = "joining" => q # <<>>
  /\ p \in {"up", "orphan"} => ~Contains(k, oid)
  /\ Shape(q, p, o)
  /\ p \in {"joining", "up"} => Fits(q, k)
  /\ s = "registered" /\ p \in {"joining", "up"} => Views(k, q)[Len(q)] = Without(map, o)

OK(c) == ComponentOK(process[c], session[c], owner[c], owner_id[c], known[c], inbox[c], sessions)

HubInv == TypeOK /\ MapExact /\ \A c \in Components : OK(c)

-----------------------------------------------------------------------------
(* Maps and frames                                                         *)

LEMMA MapFacts ==
  ASSUME NEW map \in Map, NEW i, NEW o, NEW c \in Components, ~Contains(map, i)
  PROVE  /\ Without(map, i) = map
         /\ Without(map \cup {<<i, c>>}, i) = map
         /\ ~Contains(Without(map, o), i)
<1>1. \A e \in map : e[1] # i
  BY DEF Map, Contains
<1>2. Without(map, i) = map
  BY <1>1 DEF Without
<1>3. Without(map \cup {<<i, c>>}, i) = map
  BY <1>1 DEF Without
<1>4. ~Contains(Without(map, o), i)
  BY DEF Without, Contains
<1> QED
  BY <1>2, <1>3, <1>4

LEMMA AssignWithout ==
  ASSUME NEW map \in Map, NEW i, NEW o, NEW c, ~Contains(map, i), i # o
  PROVE  Assign(Without(map, o), i, c) = Without(map \cup {<<i, c>>}, o)
<1>1. \A e \in map : e[1] # i
  BY DEF Map, Contains
<1> QED
  BY <1>1 DEF Without, Assign

LEMMA WithoutTwo ==
  ASSUME NEW map, NEW i, NEW o
  PROVE  Without(Without(map, o), i) = Without(Without(map, i), o)
BY DEF Without

LEMMA ShapeAppend ==
  ASSUME NEW q \in Seq(Message), NEW m \in Message, NEW p, NEW o, Shape(q, p, o),
         m.type # "Welcome", m.id # o, p = "joining" => q # <<>>
  PROVE  Shape(Append(q, m), p, o)
<1> DEFINE r == Append(q, m)
<1>1. /\ Len(q) \in Nat /\ Len(r) = Len(q) + 1 /\ r[Len(q) + 1] = m
      /\ \A i \in 1..Len(q) : r[i] = q[i]
      /\ q # <<>> => Len(q) # 0
  OBVIOUS
<1> HIDE DEF r
<1>2. \A i \in 1..Len(r) : i \in 1..Len(q) \/ i = Len(q) + 1
  BY <1>1
<1>3. p = "joining" => Len(q) + 1 # 1
  BY <1>1
<1>4. Shape(r, p, o)
  BY <1>1, <1>2, <1>3 DEF Shape
<1> QED
  BY <1>4 DEF r

LEMMA ShapeTail ==
  ASSUME NEW q \in Seq(Message), q # <<>>, NEW p \in {"joining", "up"}, NEW o, Shape(q, p, o)
  PROVE  /\ Shape(Tail(q), "up", o)
         /\ Head(q).type = "Welcome" <=> p = "joining"
         /\ p = "joining" => Head(q).id = o /\ ~Contains(Head(q).all, o)
         /\ p = "up" => Head(q).id # o
<1> DEFINE r == Tail(q)
<1>1. /\ Len(q) \in Nat \ {0} /\ Len(r) = Len(q) - 1 /\ Head(q) = q[1]
      /\ \A i \in 1..Len(r) : r[i] = q[i + 1]
  OBVIOUS
<1> HIDE DEF r
<1>2. \A i \in 1..Len(r) : i + 1 \in 1..Len(q) /\ i + 1 # 1
  BY <1>1
<1>3. Shape(r, "up", o)
  BY <1>1, <1>2 DEF Shape
<1>4. 1 \in 1..Len(q)
  BY <1>1
<1> QED
  BY <1>1, <1>3, <1>4 DEF Shape, r

LEMMA FitsAppend ==
  ASSUME NEW q \in Seq(Message), NEW m \in Message, NEW k, Fits(q, k),
         m.type = "Add" => ~Contains(Views(k, q)[Len(q)], m.id)
  PROVE  Fits(Append(q, m), k)
<1> DEFINE r == Append(q, m)
<1>1. /\ Len(q) \in Nat /\ Len(r) = Len(q) + 1 /\ r[Len(q) + 1] = m
      /\ \A i \in 1..Len(q) : r[i] = q[i]
  OBVIOUS
<1>2. \A n \in 0..Len(q) : Views(k, r)[n] = Views(k, q)[n]
  BY ViewsAppend
<1> HIDE DEF r
<1>3. \A i \in 1..Len(r) : i - 1 \in 0..Len(q) /\ (i \in 1..Len(q) \/ (i = Len(q) + 1 /\ i - 1 = Len(q)))
  BY <1>1
<1>4. Fits(r, k)
  BY <1>1, <1>2, <1>3 DEF Fits
<1> QED
  BY <1>4 DEF r

LEMMA FitsTail ==
  ASSUME NEW q \in Seq(Message), q # <<>>, NEW k, Fits(q, k)
  PROVE  /\ Fits(Tail(q), Told(k, Head(q)))
         /\ Views(Told(k, Head(q)), Tail(q))[Len(Tail(q))] = Views(k, q)[Len(q)]
<1> DEFINE r == Tail(q)
           j == Told(k, Head(q))
<1>1. /\ Len(q) \in Nat \ {0} /\ Len(r) = Len(q) - 1
      /\ \A i \in 1..Len(r) : r[i] = q[i + 1]
  OBVIOUS
<1>2. \A n \in 0..Len(r) : Views(j, r)[n] = Views(k, q)[n + 1]
  BY ViewsTail
<1> HIDE DEF r, j
<1>3. \A i \in 1..Len(r) : i - 1 \in 0..Len(r) /\ (i - 1) + 1 = (i + 1) - 1 /\ i + 1 \in 1..Len(q)
  BY <1>1
<1>4. Fits(r, j)
  BY <1>1, <1>2, <1>3 DEF Fits
<1>5. Len(r) \in 0..Len(r) /\ Len(r) + 1 = Len(q)
  BY <1>1
<1> QED
  BY <1>2, <1>4, <1>5 DEF r, j

LEMMA Messages ==
  ASSUME NEW i \in Ids, NEW c \in Components, NEW map \in Map
  PROVE  /\ Added(i, c) \in Message /\ Removed(i) \in Message /\ Welcome(i, map) \in Message
         /\ Added(i, c).type = "Add" /\ Added(i, c).id = i /\ Added(i, c).who = c
         /\ Removed(i).type = "Remove" /\ Removed(i).id = i
         /\ Welcome(i, map).type = "Welcome" /\ Welcome(i, map).id = i
         /\ Welcome(i, map).all = map
BY DEF Added, Removed, Welcome, Message

-----------------------------------------------------------------------------
(* What happens to one component                                           *)

\* It is told of another, or of nobody because it cannot be.
LEMMA OKAdded ==
  ASSUME NEW p \in {"joining", "up"}, NEW o, NEW oid, NEW k, NEW q \in Seq(Message), NEW map \in Map,
         NEW i \in Ids, NEW c \in Components, ~Contains(map, i), i # o,
         ComponentOK(p, "registered", o, oid, k, q, map)
  PROVE  ComponentOK(p, "registered", o, oid, k, Append(q, Added(i, c)), map \cup {<<i, c>>})
<1> DEFINE m == Added(i, c)
           r == Append(q, m)
<1>1. m \in Message /\ m.type = "Add" /\ m.id = i /\ m.who = c
  BY Messages
<1> HIDE DEF m
<1>2. r # <<>> /\ Len(r) = Len(q) + 1
  BY <1>1
<1>3. Shape(q, p, o) /\ Fits(q, k) /\ Views(k, q)[Len(q)] = Without(map, o)
  BY DEF ComponentOK
<1>4. Shape(r, p, o)
  BY <1>1, <1>3, ShapeAppend DEF ComponentOK
<1>5. Fits(r, k)
  <2>1. ~Contains(Without(map, o), i)
    BY MapFacts
  <2> QED
    BY <1>1, <1>3, <2>1, FitsAppend
<1>6. Views(k, r)[Len(r)] = Without(map \cup {<<i, c>>}, o)
  <2>1. Views(k, r)[Len(r)] = Told(Without(map, o), m)
    BY <1>1, <1>2, <1>3, ViewsAppend
  <2>2. Told(Without(map, o), m) = Assign(Without(map, o), i, c)
    BY <1>1 DEF Told, Applied
  <2>3. Assign(Without(map, o), i, c) = Without(map \cup {<<i, c>>}, o)
    BY AssignWithout
  <2> QED
    BY <2>1, <2>2, <2>3
<1> QED
  BY <1>2, <1>4, <1>5, <1>6 DEF ComponentOK, m

LEMMA OKRemoved ==
  ASSUME NEW p \in {"joining", "up"}, NEW o, NEW oid, NEW k, NEW q \in Seq(Message), NEW map \in Map,
         NEW i \in Ids, i # o,
         ComponentOK(p, "registered", o, oid, k, q, map)
  PROVE  ComponentOK(p, "registered", o, oid, k, Append(q, Removed(i)), Without(map, i))
<1> DEFINE m == Removed(i)
           r == Append(q, m)
<1>1. m \in Message /\ m.type = "Remove" /\ m.id = i
  BY DEF Removed, Message
<1> HIDE DEF m
<1>2. r # <<>> /\ Len(r) = Len(q) + 1
  BY <1>1
<1>3. Shape(q, p, o) /\ Fits(q, k) /\ Views(k, q)[Len(q)] = Without(map, o)
  BY DEF ComponentOK
<1>4. Shape(r, p, o)
  BY <1>1, <1>3, ShapeAppend DEF ComponentOK
<1>5. Fits(r, k)
  BY <1>1, <1>3, FitsAppend
<1>6. Views(k, r)[Len(r)] = Without(Without(map, i), o)
  <2>1. Views(k, r)[Len(r)] = Told(Without(map, o), m)
    BY <1>1, <1>2, <1>3, ViewsAppend
  <2>2. Told(Without(map, o), m) = Without(Without(map, o), i)
    BY <1>1 DEF Told, Applied
  <2> QED
    BY <2>1, <2>2, WithoutTwo
<1> QED
  BY <1>2, <1>4, <1>5, <1>6 DEF ComponentOK, m

LEMMA OKElsewhere ==
  ASSUME NEW p, NEW s, NEW o, NEW oid, NEW k, NEW q, NEW map, NEW map2,
         ComponentOK(p, s, o, oid, k, q, map), ~(s = "registered" /\ p \in {"joining", "up"})
  PROVE  ComponentOK(p, s, o, oid, k, q, map2)
BY DEF ComponentOK

\* It is registered.
LEMMA OKWelcomed ==
  ASSUME NEW o, NEW oid, NEW k, NEW map \in Map, NEW i \in Ids, NEW c \in Components,
         ~Contains(map, i)
  PROVE  ComponentOK("joining", "registered", i, oid, k, Append(<<>>, Welcome(i, map)),
                     map \cup {<<i, c>>})
<1> DEFINE m == Welcome(i, map)
           q == Append(<<>>, m)
<1>1. m \in Message /\ m.type = "Welcome" /\ m.id = i /\ m.all = map
  BY Messages
<1> HIDE DEF m
<1>2. q # <<>> /\ Len(q) = 1 /\ q[1] = m /\ \A n \in 1..Len(q) : n = 1
  OBVIOUS
<1> HIDE DEF q
<1>3. Shape(q, "joining", i) /\ Fits(q, k)
  BY <1>1, <1>2 DEF Shape, Fits
<1>4. Views(k, q)[1] = Told(Views(k, q)[0], m)
  <2>1. 1 \in 1..Len(q) /\ 1 - 1 = 0 /\ Len(q) \in Nat
    BY <1>2
  <2> QED
    BY <1>2, <2>1, ViewsAt
<1>5. Views(k, q)[Len(q)] = Without(map \cup {<<i, c>>}, i)
  BY <1>1, <1>2, <1>4, MapFacts DEF Told
<1> QED
  BY <1>2, <1>3, <1>5 DEF ComponentOK, q, m

\* It reads a frame.
LEMMA OKRead ==
  ASSUME NEW p \in {"joining", "up"}, NEW s, NEW o, NEW oid, NEW k, NEW q \in Seq(Message), NEW map,
         ComponentOK(p, s, o, oid, k, q, map), q # <<>>, NEW oid2,
         oid2 = IF p = "joining" THEN Head(q).id ELSE oid
  PROVE  /\ ComponentOK("up", s, o, oid2, Told(k, Head(q)), Tail(q), map)
         /\ Head(q).type = "Welcome" <=> p = "joining"
<1>1. /\ Shape(q, p, o) /\ Fits(q, k) /\ s = "registered"
      /\ Views(k, q)[Len(q)] = Without(map, o)
  BY DEF ComponentOK
<1>2. /\ Shape(Tail(q), "up", o)
      /\ Head(q).type = "Welcome" <=> p = "joining"
      /\ p = "joining" => Head(q).id = o /\ ~Contains(Head(q).all, o)
      /\ p = "up" => Head(q).id # o
  BY <1>1, ShapeTail
<1>3. /\ Fits(Tail(q), Told(k, Head(q)))
      /\ Views(Told(k, Head(q)), Tail(q))[Len(Tail(q))] = Without(map, o)
  BY <1>1, FitsTail
<1>4. oid2 = o
  BY <1>2 DEF ComponentOK
<1>5. ~Contains(Told(k, Head(q)), o)
  <2>1. CASE p = "joining"
    BY <1>2, <2>1 DEF Told
  <2>2. CASE p = "up"
    <3>1. ~Contains(k, o) /\ Head(q).id # o /\ Head(q).type # "Welcome"
      BY <1>2, <2>2 DEF ComponentOK
    <3> QED
      BY <3>1 DEF Told, Applied, Assign, Without, Contains
  <2> QED
    BY <2>1, <2>2
<1> QED
  BY <1>1, <1>2, <1>3, <1>4, <1>5 DEF ComponentOK

-----------------------------------------------------------------------------
(* Steps of a component                                                    *)

\* The steps that leave the map and the ids at the master alone, and touch one
\* component.
LEMMA ElsewhereSame ==
  ASSUME HubInv, NEW c \in Components, UNCHANGED <<sessions, owner>>,
         \A d \in Components : d # c =>
           /\ process'[d] = process[d] /\ session'[d] = session[d]
           /\ owner_id'[d] = owner_id[d] /\ known'[d] = known[d] /\ inbox'[d] = inbox[d],
         session'[c] = "registered" <=> session[c] = "registered",
         TypeOK', OK(c)'
  PROVE  HubInv'
<1>1. \A d \in Components : session'[d] = "registered" <=> session[d] = "registered"
  OBVIOUS
<1>2. MapExact'
  BY <1>1 DEF HubInv, MapExact
<1>3. ASSUME NEW d \in Components PROVE OK(d)'
  BY DEF HubInv, OK
<1> QED
  BY <1>2, <1>3 DEF HubInv

LEMMA JoinKeeps ==
  ASSUME HubInv, NEW c \in Components, NEW i \in Desired, Join(c, i)
  PROVE  HubInv'
<1>1. /\ process[c] = "new" /\ process' = [process EXCEPT ![c] = "joining"]
      /\ wish' = [wish EXCEPT ![c] = i] /\ session' = [session EXCEPT ![c] = "hello"]
      /\ UNCHANGED <<sessions, owner, owner_id, known, inbox>>
  BY DEF Join
<1>2. TypeOK'
  <2>1. i \in Ids \cup {kAnyOwner}
    BY IdsAssumption
  <2> QED
    BY <1>1, <2>1 DEF HubInv, TypeOK
<1>3. process'[c] = "joining" /\ session'[c] = "hello" /\ session[c] = "none" /\ inbox[c] = <<>>
  BY <1>1 DEF HubInv, TypeOK, OK, ComponentOK
<1>4. OK(c)'
  BY <1>1, <1>3 DEF OK, ComponentOK, Shape, Fits
<1>5. \A d \in Components : d # c => process'[d] = process[d] /\ session'[d] = session[d]
  BY <1>1 DEF HubInv, TypeOK
<1> QED
  BY <1>1, <1>2, <1>3, <1>4, <1>5, ElsewhereSame

LEMMA ReadsKeeps ==
  ASSUME HubInv, NEW c \in Components, ReadWelcome(c) \/ ReadUpdate(c)
  PROVE  HubInv'
<1> DEFINE q == inbox[c]
           p == process[c]
           oid == IF p = "joining" THEN Head(q).id ELSE owner_id[c]
<1>1. /\ p \in {"joining", "up"} /\ q # <<>>
      /\ inbox' = [inbox EXCEPT ![c] = Tail(q)]
      /\ UNCHANGED <<sessions, session, owner, wish>>
  BY DEF ReadWelcome, ReadUpdate
<1>2. /\ process \in [Components -> {"new", "joining", "up", "orphan", "gone"}]
      /\ known \in [Components -> Map] /\ inbox \in [Components -> Seq(Message)]
      /\ owner_id \in [Components -> Ids \cup {kAnyOwner}]
      /\ q \in Seq(Message)
  BY DEF HubInv, TypeOK
<1>3. ComponentOK(p, session[c], owner[c], owner_id[c], known[c], q, sessions)
  BY DEF HubInv, OK
<1>4. /\ ComponentOK("up", session[c], owner[c], oid, Told(known[c], Head(q)), Tail(q), sessions)
      /\ Head(q).type = "Welcome" <=> p = "joining"
  BY <1>1, <1>2, <1>3, OKRead
<1>5. /\ \A d \in Components :
           d # c => /\ process'[d] = process[d] /\ owner_id'[d] = owner_id[d]
                    /\ known'[d] = known[d] /\ inbox'[d] = inbox[d]
      /\ process'[c] = "up" /\ owner_id'[c] = oid /\ known'[c] = Told(known[c], Head(q))
      /\ inbox'[c] = Tail(q)
  <2>1. CASE ReadWelcome(c)
    BY <1>1, <1>2, <1>4, <2>1 DEF ReadWelcome, Told
  <2>2. CASE ReadUpdate(c)
    BY <1>1, <1>2, <1>4, <2>2 DEF ReadUpdate, Told
  <2> QED
    BY <2>1, <2>2
<1>6. TypeOK'
  <2>1. Head(q) \in Message /\ Tail(q) \in Seq(Message)
    BY <1>1, <1>2
  <2>2. inbox' \in [Components -> Seq(Message)]
    BY <1>1, <1>2, <2>1
  <2>3. process' \in [Components -> {"new", "joining", "up", "orphan", "gone"}]
    BY <1>2 DEF ReadWelcome, ReadUpdate
  <2>4. owner_id' \in [Components -> Ids \cup {kAnyOwner}]
    <3>1. Head(q).id \in Ids
      BY <2>1 DEF Message
    <3> QED
      BY <1>2, <3>1 DEF ReadWelcome, ReadUpdate
  <2>5. known' \in [Components -> Map]
    <3>1. CASE ReadWelcome(c)
      <4>1. Head(q).all \in Map
        BY <1>4, <2>1, <3>1 DEF Message, ReadWelcome
      <4> QED
        BY <1>2, <3>1, <4>1 DEF ReadWelcome
    <3>2. CASE ReadUpdate(c)
      <4>1. Head(q).type # "Welcome"
        BY <1>4, <3>2 DEF ReadUpdate
      <4>2. /\ Head(q).id \in Ids
            /\ Head(q).type = "Add" => Head(q).who \in Components
        BY <2>1, <4>1 DEF Message
      <4>3. Applied(known[c], Head(q)) \in Map
        <5>1. known[c] \subseteq Ids \X Components
          BY <1>2 DEF Map
        <5> QED
          BY <4>2, <5>1 DEF Applied, Assign, Without, Map
      <4> QED
        BY <1>2, <3>2, <4>3 DEF ReadUpdate
    <3> QED
      BY <3>1, <3>2
  <2> QED
    BY <1>1, <2>2, <2>3, <2>4, <2>5 DEF HubInv, TypeOK
<1>7. OK(c)'
  BY <1>1, <1>4, <1>5 DEF OK
<1> QED
  BY <1>1, <1>5, <1>6, <1>7, ElsewhereSame

LEMMA LeaveKeeps ==
  ASSUME HubInv, NEW c \in Components, End(c) \/ LoseMaster(c)
  PROVE  HubInv'
<1> DEFINE p == IF End(c) THEN "gone" ELSE "orphan"
<1>1. /\ process' = [process EXCEPT ![c] = p] /\ inbox' = [inbox EXCEPT ![c] = <<>>]
      /\ p = "orphan" => process[c] = "up"
      /\ UNCHANGED <<sessions, session, owner, wish, owner_id, known>>
      /\ p \in {"gone", "orphan"}
  BY DEF End, LoseMaster
<1> HIDE DEF p
<1>2. TypeOK'
  <2>1. <<>> \in Seq(Message)
    OBVIOUS
  <2> QED
    BY <1>1, <2>1 DEF HubInv, TypeOK
<1>3. process'[c] = p /\ inbox'[c] = <<>>
  BY <1>1 DEF HubInv, TypeOK
<1>4. ComponentOK(process[c], session[c], owner[c], owner_id[c], known[c], inbox[c], sessions)
  BY DEF HubInv, OK
<1>5. ComponentOK(p, session[c], owner[c], owner_id[c], known[c], <<>>, sessions)
  <2>1. Shape(<<>>, p, owner[c])
    BY DEF Shape
  <2> QED
    BY <1>1, <1>4, <2>1 DEF ComponentOK
<1>6. OK(c)'
  BY <1>1, <1>3, <1>5 DEF OK
<1>7. \A d \in Components : d # c => process'[d] = process[d] /\ inbox'[d] = inbox[d]
  BY <1>1 DEF HubInv, TypeOK
<1> QED
  BY <1>1, <1>2, <1>6, <1>7, ElsewhereSame

-----------------------------------------------------------------------------
(* Steps of the master                                                     *)

LEMMA ForgetKeeps ==
  ASSUME HubInv, NEW c \in Components, Forget(c)
  PROVE  HubInv'
<1>1. /\ session[c] = "hello" /\ process[c] \in {"orphan", "gone"}
      /\ session' = [session EXCEPT ![c] = "ended"]
      /\ UNCHANGED <<sessions, owner, process, wish, owner_id, known, inbox>>
  BY DEF Forget, Disconnected
<1>2. TypeOK'
  BY <1>1 DEF HubInv, TypeOK
<1>3. session'[c] = "ended" /\ \A d \in Components : d # c => session'[d] = session[d]
  BY <1>1 DEF HubInv, TypeOK
<1>4. ComponentOK(process[c], session[c], owner[c], owner_id[c], known[c], inbox[c], sessions)
  BY DEF HubInv, OK
<1>5. ComponentOK(process[c], "ended", owner[c], owner_id[c], known[c], inbox[c], sessions)
  BY <1>1, <1>4 DEF ComponentOK
<1>6. OK(c)'
  BY <1>1, <1>3, <1>5 DEF OK
<1> QED
  BY <1>1, <1>2, <1>3, <1>6, ElsewhereSame

\* Who is told: the registered sessions, except the one the update is about and
\* the ones that are broken.
LEMMA ToldToAll ==
  ASSUME NEW map, NEW i, NEW m, NEW q, NEW d \in Components
  PROVE  SendToAll(map, i, m, q)[d] =
           IF (\E j \in Ids : j # i /\ <<j, d>> \in map) /\ ~Disconnected(d)
           THEN Append(q[d], m) ELSE q[d]
BY DEF SendToAll, Sent

LEMMA RegisterKeeps ==
  ASSUME HubInv, NEW c \in Components, Register(c)
  PROVE  HubInv'
<1>1. PICK i \in Ids :
        /\ session[c] = "hello" /\ Assigned(c, i)
        /\ sessions' = Emplace(sessions, i, c)
        /\ owner' = [owner EXCEPT ![c] = i]
        /\ session' = [session EXCEPT ![c] = "registered"]
        /\ inbox' = SendToAll(Emplace(sessions, i, c), i, Added(i, c),
                              [inbox EXCEPT ![c] = Sent(@, c, Welcome(i, sessions))])
        /\ UNCHANGED <<process, wish, owner_id, known>>
  BY Zenon DEF Register
<1> DEFINE map == sessions \cup {<<i, c>>}
           replied == [inbox EXCEPT ![c] = Sent(inbox[c], c, Welcome(i, sessions))]
<1>2. ~Contains(sessions, i)
  BY <1>1 DEF Assigned, FreeFrom
<1>3. Emplace(sessions, i, c) = map
  BY <1>2 DEF Emplace
<1>4. /\ sessions \in Map /\ sessions \subseteq Ids \X Components
      /\ inbox \in [Components -> Seq(Message)]
      /\ \A d \in Components : inbox[d] \in Seq(Message)
  BY DEF HubInv, TypeOK, Map
<1>5. /\ sessions' = map /\ owner'[c] = i /\ session'[c] = "registered"
      /\ \A d \in Components : d # c => owner'[d] = owner[d] /\ session'[d] = session[d]
      /\ process' = process /\ owner_id' = owner_id /\ known' = known /\ wish' = wish
  BY <1>1, <1>3 DEF HubInv, TypeOK
<1>6. \A d \in Components : session[d] = "registered" => owner[d] \in Ids /\ owner[d] # i
  <2>1. \A d \in Components : session[d] = "registered" /\ owner[d] = i => FALSE
    BY <1>2 DEF HubInv, MapExact, Contains
  <2>2. \A d \in Components : session[d] = "registered" => owner[d] \in Ids
    BY DEF HubInv, OK, ComponentOK
  <2> QED
    BY <2>1, <2>2
<1>7. inbox[c] = <<>> /\ process[c] \in {"joining", "orphan", "gone"} /\ process[c] # "orphan"
  BY <1>1 DEF HubInv, TypeOK, OK, ComponentOK
<1>8. \A d \in Components :
        inbox'[d] = IF (\E j \in Ids : j # i /\ <<j, d>> \in map) /\ ~Disconnected(d)
                    THEN Append(replied[d], Added(i, c)) ELSE replied[d]
  <2>1. inbox' = SendToAll(map, i, Added(i, c), replied)
    BY <1>1, <1>3
  <2> HIDE DEF map, replied
  <2> QED
    BY <2>1, ToldToAll
<1>9. /\ \A d \in Components : d # c => replied[d] = inbox[d]
      /\ replied[c] = IF Disconnected(c) THEN <<>> ELSE Append(<<>>, Welcome(i, sessions))
  BY <1>4, <1>7 DEF Sent
<1> HIDE DEF replied
<1>10. \A d \in Components, j \in Ids :
         j # i /\ <<j, d>> \in map <=> session[d] = "registered" /\ owner[d] = j
  BY <1>1, <1>6 DEF HubInv, MapExact
<1>11. \A d \in Components :
         (\E j \in Ids : j # i /\ <<j, d>> \in map) <=> session[d] = "registered"
  BY <1>6, <1>10
<1>12. inbox'[c] = replied[c]
  BY <1>1, <1>8, <1>11
<1>13. \A d \in Components : d # c =>
         inbox'[d] = IF session[d] = "registered" /\ ~Disconnected(d)
                     THEN Append(inbox[d], Added(i, c)) ELSE inbox[d]
  BY <1>8, <1>9, <1>11
<1>14. OK(c)'
  <2>1. CASE process[c] = "joining"
    <3>1. inbox'[c] = Append(<<>>, Welcome(i, sessions))
      BY <1>9, <1>12, <2>1 DEF Disconnected
    <3>2. ComponentOK("joining", "registered", i, owner_id[c], known[c],
                      Append(<<>>, Welcome(i, sessions)), map)
      BY <1>2, <1>4, OKWelcomed
    <3> QED
      BY <1>5, <2>1, <3>1, <3>2 DEF OK
  <2>2. CASE process[c] = "gone"
    <3>1. inbox'[c] = <<>>
      BY <1>9, <1>12, <2>2 DEF Disconnected
    <3>2. ComponentOK("gone", "registered", i, owner_id[c], known[c], <<>>, map)
      BY DEF ComponentOK, Shape
    <3> QED
      BY <1>5, <2>2, <3>1, <3>2 DEF OK
  <2> QED
    BY <1>7, <2>1, <2>2
<1>15. ASSUME NEW d \in Components, d # c PROVE OK(d)'
  <2>1. ComponentOK(process[d], session[d], owner[d], owner_id[d], known[d], inbox[d], sessions)
    BY DEF HubInv, OK
  <2>2. process[d] \in {"new", "joining", "up", "orphan", "gone"}
    BY DEF HubInv, TypeOK
  <2>3. CASE session[d] = "registered" /\ process[d] \in {"joining", "up"}
    <3>1. inbox'[d] = Append(inbox[d], Added(i, c))
      BY <1>13, <1>15, <2>3 DEF Disconnected
    <3>2. ComponentOK(process[d], "registered", owner[d], owner_id[d], known[d],
                      Append(inbox[d], Added(i, c)), map)
      BY <1>2, <1>4, <1>6, <2>1, <2>3, OKAdded
    <3> QED
      BY <1>5, <1>15, <2>3, <3>1, <3>2 DEF OK
  <2>4. CASE ~(session[d] = "registered" /\ process[d] \in {"joining", "up"})
    <3>1. inbox'[d] = inbox[d]
      BY <1>13, <1>15, <2>1, <2>2, <2>4 DEF Disconnected, ComponentOK
    <3>2. ComponentOK(process[d], session[d], owner[d], owner_id[d], known[d], inbox[d], map)
      BY <2>1, <2>4, OKElsewhere
    <3> QED
      BY <1>5, <1>15, <3>1, <3>2 DEF OK
  <2> QED
    BY <2>3, <2>4
<1>16. MapExact'
  <2>1. ASSUME NEW d \in Components, NEW j \in Ids
        PROVE  <<j, d>> \in sessions' <=> session'[d] = "registered" /\ owner'[d] = j
    <3>1. <<j, d>> \in sessions <=> session[d] = "registered" /\ owner[d] = j
      BY DEF HubInv, MapExact
    <3>2. CASE d = c
      BY <1>1, <1>5, <3>1, <3>2
    <3>3. CASE d # c
      BY <1>5, <3>1, <3>3
    <3> QED
      BY <3>2, <3>3
  <2>2. ASSUME NEW d \in Components, NEW e \in Components,
               session'[d] = "registered", session'[e] = "registered", owner'[d] = owner'[e]
        PROVE  d = e
    BY <1>5, <1>6, <2>2 DEF HubInv, MapExact
  <2> QED
    BY <2>1, <2>2 DEF MapExact
<1>17. TypeOK'
  <2>1. inbox' \in [Components -> Seq(Message)]
    <3>1. Added(i, c) \in Message /\ Welcome(i, sessions) \in Message
      BY <1>4, Messages
    <3>2. replied[c] \in Seq(Message)
      BY <1>9, <3>1
    <3>3. ASSUME NEW d \in Components PROVE inbox'[d] \in Seq(Message)
      <4>1. CASE d = c
        BY <1>12, <3>2, <4>1
      <4>2. CASE d # c
        <5>1. inbox[d] \in Seq(Message)
          BY <1>4
        <5>2. inbox'[d] = Append(inbox[d], Added(i, c)) \/ inbox'[d] = inbox[d]
          BY <1>13, <4>2
        <5>3. Append(inbox[d], Added(i, c)) \in Seq(Message)
          BY <3>1, <5>1
        <5> QED
          BY <5>1, <5>2, <5>3
      <4> QED
        BY <4>1, <4>2
    <3>4. inbox' = SendToAll(map, i, Added(i, c), replied)
      BY <1>1, <1>3 DEF replied
    <3>5. inbox' = [d \in Components |-> inbox'[d]]
      <4> HIDE DEF map
      <4> QED
        BY <3>4 DEF SendToAll
    <3> QED
      BY <3>3, <3>5
  <2>2. map \in Map
    BY <1>4 DEF Map
  <2>3. owner' \in [Components -> Ids \cup {kAnyOwner}]
    BY <1>1 DEF HubInv, TypeOK
  <2>4. session' \in [Components -> {"none", "hello", "registered", "ended"}]
    BY <1>1 DEF HubInv, TypeOK
  <2> QED
    BY <1>5, <2>1, <2>2, <2>3, <2>4 DEF HubInv, TypeOK
<1> QED
  BY <1>14, <1>15, <1>16, <1>17 DEF HubInv

LEMMA UnregisterKeeps ==
  ASSUME HubInv, NEW c \in Components, Unregister(c)
  PROVE  HubInv'
<1> DEFINE i == owner[c]
           map == Without(sessions, i)
<1>1. /\ session[c] = "registered" /\ process[c] \in {"orphan", "gone"}
      /\ sessions' = map
      /\ inbox' = SendToAll(map, i, Removed(i), inbox)
      /\ session' = [session EXCEPT ![c] = "ended"]
      /\ UNCHANGED <<owner, process, wish, owner_id, known>>
  BY DEF Unregister, Disconnected
<1>2. /\ sessions \in Map /\ map \in Map /\ sessions \subseteq Ids \X Components
      /\ inbox \in [Components -> Seq(Message)]
      /\ \A d \in Components : inbox[d] \in Seq(Message)
  BY DEF HubInv, TypeOK, Map, Without
<1>3. \A d \in Components : session[d] = "registered" => owner[d] \in Ids
  BY DEF HubInv, OK, ComponentOK
<1>4. i \in Ids
  BY <1>1, <1>3
<1>5. \A d \in Components : d # c /\ session[d] = "registered" => owner[d] # i
  BY <1>1 DEF HubInv, MapExact
<1>6. \A d \in Components, j \in Ids :
        <<j, d>> \in map <=> d # c /\ session[d] = "registered" /\ owner[d] = j
  <2>1. \A d \in Components, j \in Ids : <<j, d>> \in map <=> <<j, d>> \in sessions /\ j # i
    BY DEF Without
  <2>2. \A d \in Components, j \in Ids :
          <<j, d>> \in sessions <=> session[d] = "registered" /\ owner[d] = j
    BY DEF HubInv, MapExact
  <2> QED
    BY <1>5, <2>1, <2>2
<1>7. \A d \in Components :
        (\E j \in Ids : j # i /\ <<j, d>> \in map) <=> d # c /\ session[d] = "registered"
  BY <1>3, <1>5, <1>6
<1>8. \A d \in Components :
        inbox'[d] = IF d # c /\ session[d] = "registered" /\ ~Disconnected(d)
                    THEN Append(inbox[d], Removed(i)) ELSE inbox[d]
  <2>1. \A d \in Components :
          inbox'[d] = IF (\E j \in Ids : j # i /\ <<j, d>> \in map) /\ ~Disconnected(d)
                      THEN Append(inbox[d], Removed(i)) ELSE inbox[d]
    <3> HIDE DEF map, i
    <3> QED
      BY <1>1, ToldToAll
  <2> QED
    BY <1>7, <2>1
<1>9. /\ session'[c] = "ended" /\ inbox'[c] = inbox[c]
      /\ \A d \in Components : d # c => session'[d] = session[d]
  BY <1>1, <1>8 DEF HubInv, TypeOK
<1>10. OK(c)'
  <2>1. ComponentOK(process[c], session[c], i, owner_id[c], known[c], inbox[c], sessions)
    BY DEF HubInv, OK
  <2>2. ComponentOK(process[c], "ended", i, owner_id[c], known[c], inbox[c], map)
    BY <1>1, <2>1 DEF ComponentOK
  <2> QED
    BY <1>1, <1>9, <2>2 DEF OK
<1>11. ASSUME NEW d \in Components, d # c PROVE OK(d)'
  <2>1. ComponentOK(process[d], session[d], owner[d], owner_id[d], known[d], inbox[d], sessions)
    BY DEF HubInv, OK
  <2>2. process[d] \in {"new", "joining", "up", "orphan", "gone"}
    BY DEF HubInv, TypeOK
  <2>3. CASE session[d] = "registered" /\ process[d] \in {"joining", "up"}
    <3>1. inbox'[d] = Append(inbox[d], Removed(i))
      BY <1>8, <1>11, <2>3 DEF Disconnected
    <3>2. ComponentOK(process[d], "registered", owner[d], owner_id[d], known[d],
                      Append(inbox[d], Removed(i)), map)
      BY <1>2, <1>4, <1>5, <1>11, <2>1, <2>3, OKRemoved
    <3> QED
      BY <1>1, <1>9, <1>11, <2>3, <3>1, <3>2 DEF OK
  <2>4. CASE ~(session[d] = "registered" /\ process[d] \in {"joining", "up"})
    <3>1. inbox'[d] = inbox[d]
      BY <1>8, <1>11, <2>1, <2>2, <2>4 DEF Disconnected, ComponentOK
    <3>2. ComponentOK(process[d], session[d], owner[d], owner_id[d], known[d], inbox[d], map)
      BY <2>1, <2>4, OKElsewhere
    <3> QED
      BY <1>1, <1>9, <1>11, <3>1, <3>2 DEF OK
  <2> QED
    BY <2>3, <2>4
<1>12. MapExact'
  <2>1. ASSUME NEW d \in Components, NEW j \in Ids
        PROVE  <<j, d>> \in sessions' <=> session'[d] = "registered" /\ owner'[d] = j
    BY <1>1, <1>6, <1>9
  <2>2. ASSUME NEW d \in Components, NEW e \in Components,
               session'[d] = "registered", session'[e] = "registered", owner'[d] = owner'[e]
        PROVE  d = e
    BY <1>1, <1>9, <2>2 DEF HubInv, MapExact
  <2> QED
    BY <2>1, <2>2 DEF MapExact
<1>13. TypeOK'
  <2>1. ASSUME NEW d \in Components PROVE inbox'[d] \in Seq(Message)
    <3>1. inbox[d] \in Seq(Message) /\ Removed(i) \in Message
      BY <1>2, <1>4, Messages
    <3>2. Append(inbox[d], Removed(i)) \in Seq(Message)
      BY <3>1
    <3> QED
      BY <1>8, <3>1, <3>2
  <2>2. inbox' = [d \in Components |-> inbox'[d]]
    <3> HIDE DEF map, i
    <3> QED
      BY <1>1 DEF SendToAll
  <2>3. inbox' \in [Components -> Seq(Message)]
    BY <2>1, <2>2
  <2>4. session' \in [Components -> {"none", "hello", "registered", "ended"}]
    BY <1>1 DEF HubInv, TypeOK
  <2> QED
    BY <1>1, <1>2, <2>3, <2>4 DEF HubInv, TypeOK
<1> QED
  BY <1>10, <1>11, <1>12, <1>13 DEF HubInv

-----------------------------------------------------------------------------
(* The theorems                                                            *)

LEMMA HubInvInit == Init => HubInv
<1> SUFFICES ASSUME Init PROVE HubInv
  OBVIOUS
<1>1. TypeOK
  BY DEF Init, TypeOK, Map
<1>2. MapExact
  BY DEF Init, MapExact
<1>3. ASSUME NEW c \in Components PROVE OK(c)
  <2>1. process[c] = "new" /\ session[c] = "none" /\ inbox[c] = <<>>
    BY DEF Init
  <2>2. Shape(<<>>, "new", owner[c])
    BY DEF Shape
  <2> QED
    BY <2>1, <2>2 DEF OK, ComponentOK
<1> QED
  BY <1>1, <1>2, <1>3 DEF HubInv

LEMMA HubInvStep == HubInv /\ [Next]_vars => HubInv'
<1> SUFFICES ASSUME HubInv, [Next]_vars PROVE HubInv'
  OBVIOUS
<1>1. CASE UNCHANGED vars
  BY <1>1 DEF HubInv, TypeOK, MapExact, OK, vars
<1>2. CASE Next
  <2>1. PICK c \in Components :
          \/ Master(c) \/ Reads(c) \/ End(c) \/ LoseMaster(c)
          \/ \E i \in Desired : Join(c, i)
    BY <1>2 DEF Next
  <2>2. CASE Master(c)
    BY <2>2, RegisterKeeps, UnregisterKeeps, ForgetKeeps DEF Master
  <2>3. CASE Reads(c)
    BY <2>3, ReadsKeeps DEF Reads
  <2>4. CASE End(c) \/ LoseMaster(c)
    BY <2>4, LeaveKeeps
  <2>5. CASE \E i \in Desired : Join(c, i)
    BY <2>5, JoinKeeps
  <2> QED
    BY <2>1, <2>2, <2>3, <2>4, <2>5
<1> QED
  BY <1>1, <1>2

LEMMA HubInvariant == Spec => []HubInv
BY HubInvInit, HubInvStep, PTL DEF Spec

\* Every variable of the master and of the components keeps its type: only ids
\* that can be given out are given out, recorded and announced.
THEOREM HubTypeCorrect == Spec => []TypeOK
<1>1. HubInv => TypeOK
  BY DEF HubInv
<1> QED
  BY <1>1, HubInvariant, PTL

\* sessions_ of the master names each registered session under its own id, and
\* two components go by one id only when one of them was given up by the master
\* (registerComponent, makeOwnerId, removeSession).
THEOREM AgreementSafety == Spec => []SessionsAgree
<1>1. ASSUME HubInv PROVE IdsUnique
  <2> SUFFICES ASSUME NEW c \in Components, NEW d \in Components, process[c] = "up",
                      process[d] \in {"up", "orphan"}, owner_id[c] = owner_id[d],
                      ~(process[d] = "orphan" /\ session[d] = "ended")
               PROVE  c = d
    BY DEF IdsUnique
  <2>1. session[c] = "registered" /\ owner_id[c] = owner[c]
    BY <1>1 DEF HubInv, OK, ComponentOK
  <2>2. session[d] = "registered" /\ owner_id[d] = owner[d]
    BY <1>1 DEF HubInv, OK, ComponentOK
  <2> QED
    BY <1>1, <2>1, <2>2 DEF HubInv, MapExact
<1>2. HubInv => SessionsAgree
  BY <1>1 DEF HubInv, SessionsAgree
<1> QED
  BY <1>2, HubInvariant, PTL

\* Whatever was joined, ended, reused and read in whatever order: a component
\* that has read the frames on their way to it knows exactly the others that the
\* master has registered (onWelcome, onComponentUpdate).
THEOREM SettlingSafety == Spec => []ViewsSettle
<1>1. ASSUME HubInv PROVE ViewsSettle
  <2> SUFFICES ASSUME NEW c \in Components, session[c] = "registered",
                      process[c] \in {"joining", "up"}
               PROVE  Ahead(c)[Len(inbox[c])] = Without(sessions, owner[c])
    BY DEF ViewsSettle
  <2> QED
    BY <1>1 DEF HubInv, OK, ComponentOK, Ahead
<1> QED
  BY <1>1, HubInvariant, PTL

\* No component is told of itself, and addSession never replaces a session that
\* it has, also when an id is given to another before all have heard that its
\* last owner ended.
THEOREM AnnouncementSafety == Spec => []AnnouncementsFit
<1>1. ASSUME HubInv PROVE NeverListsSelf
  <2> SUFFICES ASSUME NEW c \in Components, process[c] \in {"up", "orphan"}
               PROVE  /\ ~Contains(known[c], owner_id[c])
                      /\ \A n \in 1..Len(inbox[c]) : inbox[c][n].id # owner_id[c]
    BY DEF NeverListsSelf
  <2>1. ~Contains(known[c], owner_id[c]) /\ Shape(inbox[c], process[c], owner[c])
        /\ owner_id[c] = owner[c]
    BY <1>1 DEF HubInv, OK, ComponentOK
  <2> QED
    BY <2>1 DEF Shape
<1>2. ASSUME HubInv PROVE NothingReplaced
  <2> SUFFICES ASSUME NEW c \in Components, NEW n \in 1..Len(inbox[c]),
                      process[c] = "up", inbox[c][n].type = "Add"
               PROVE  ~Contains(Ahead(c)[n - 1], inbox[c][n].id)
    BY DEF NothingReplaced
  <2>1. Fits(inbox[c], known[c])
    BY <1>2 DEF HubInv, OK, ComponentOK
  <2> QED
    BY <2>1 DEF Fits, Ahead
<1>3. HubInv => AnnouncementsFit
  BY <1>1, <1>2 DEF AnnouncementsFit
<1> QED
  BY <1>3, HubInvariant, PTL
=============================================================================
