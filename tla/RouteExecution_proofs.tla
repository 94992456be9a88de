------------------------ MODULE RouteExecution_proofs ------------------------
(***************************************************************************)
(* A route being driven, for any number of orders, stops and requests in   *)
(* flight: it is over exactly when its stops are, a finished stop stays as *)
(* it finished, nothing is delivered that was not collected, its orders    *)
(* follow the lifecycle, its parcels can be scanned to their count, and    *)
(* what follows the commits catches up with them.                          *)
(***************************************************************************)
EXTENDS RouteExecution, TLAPS, FiniteSetTheorems, WellFoundedInduction

\* A sequence, whatever its elements.
IsSeq(s) == s \in Seq({s[i] : i \in DOMAIN s})

\* The part of a stop's type that does not count parcels.
IsStop(s) ==
  /\ s = [type |-> s.type, orders |-> s.orders, status |-> s.status,
          parcels |-> s.parcels, scanned |-> s.scanned]
  /\ s.type \in {"pickup", "dropoff"}
  /\ s.orders \subseteq Orders
  /\ s.status \in {"pending", "en_route", "arrived"} \cup FINISHED

IsRoute(ss) == IsSeq(ss) /\ \A i \in 1..Len(ss) : IsStop(ss[i])

-----------------------------------------------------------------------------
(* Sequences, and the least element.                                       *)

\* A function on 1..n is a sequence of length n.
LEMMA FunctionIsSeq ==
  ASSUME NEW n \in Nat, NEW s, s = [i \in 1..n |-> s[i]]
  PROVE  IsSeq(s) /\ Len(s) = n /\ DOMAIN s = 1..n
  <1> DEFINE T == {s[i] : i \in 1..n}
  <1>1. DOMAIN s = 1..n
    OBVIOUS
  <1>2. s \in [1..n -> T]
    OBVIOUS
  <1>3. s \in Seq(T) /\ Len(s) = n
    BY <1>2
  <1> QED
    BY <1>1, <1>3 DEF IsSeq

\* What a sequence is, for the provers.
LEMMA SeqFacts ==
  ASSUME NEW s, IsSeq(s)
  PROVE  Len(s) \in Nat /\ DOMAIN s = 1..Len(s) /\ s = [i \in 1..Len(s) |-> s[i]]
  BY DEF IsSeq

\* One element replaced.
Put(s, i, x) == [s EXCEPT ![i] = x]

LEMMA ReplaceOne ==
  ASSUME NEW s, IsSeq(s), NEW i \in 1..Len(s), NEW x
  PROVE  /\ IsSeq(Put(s, i, x)) /\ Len(Put(s, i, x)) = Len(s) /\ Put(s, i, x)[i] = x
         /\ \A j \in 1..Len(s) : j # i => Put(s, i, x)[j] = s[j]
  BY SeqFacts, FunctionIsSeq DEF Put

\* Two elements put at the end.
WithTwo(s, a, b) == s \o <<a, b>>

LEMMA TwoMore ==
  ASSUME NEW s, IsSeq(s), NEW a, NEW b
  PROVE  /\ IsSeq(WithTwo(s, a, b)) /\ Len(WithTwo(s, a, b)) = Len(s) + 2
         /\ WithTwo(s, a, b)[Len(s) + 1] = a /\ WithTwo(s, a, b)[Len(s) + 2] = b
         /\ \A i \in 1..Len(s) : WithTwo(s, a, b)[i] = s[i]
  <1>1. PICK T : s \in Seq(T) /\ a \in T /\ b \in T
    <2> DEFINE U == {s[i] : i \in DOMAIN s}
    <2>1. s \in Seq(U \cup {a, b})
      <3> DEFINE W == U \cup {a, b}
      <3>1. s \in Seq(U) /\ U \subseteq W
        BY DEF IsSeq
      <3> HIDE DEF U, W
      <3>2. s \in Seq(W)
        BY <3>1
      <3> QED
        BY <3>2 DEF W
    <2> QED
      BY <2>1
  <1>2. <<a, b>> \in Seq(T) /\ Len(<<a, b>>) = 2 /\ <<a, b>>[1] = a /\ <<a, b>>[2] = b
    BY <1>1
  <1>3. PICK p \in Seq(T) : p = <<a, b>>
    BY <1>2
  <1>4. /\ s \o p \in Seq(T) /\ Len(s \o p) = Len(s) + Len(p) /\ Len(s) \in Nat
        /\ \A i \in 1..(Len(s) + Len(p)) :
             (s \o p)[i] = IF i <= Len(s) THEN s[i] ELSE p[i - Len(s)]
    BY <1>1
  <1>5. Len(p) = 2 /\ p[1] = a /\ p[2] = b
    BY <1>2, <1>3
  <1>6. IsSeq(s \o p)
    <2>1. PICK w \in Seq(T) : w = s \o p
      BY <1>4
    <2>2. w = [i \in 1..Len(w) |-> w[i]] /\ Len(w) \in Nat
      OBVIOUS
    <2>3. IsSeq(w)
      BY <2>2, FunctionIsSeq
    <2> QED
      BY <2>1, <2>3
  <1>7. /\ (s \o p)[Len(s) + 1] = a /\ (s \o p)[Len(s) + 2] = b
        /\ \A i \in 1..Len(s) : (s \o p)[i] = s[i]
    BY <1>4, <1>5
  <1>8. WithTwo(s, a, b) = s \o p
    BY <1>3 DEF WithTwo
  <1> QED
    BY <1>4, <1>5, <1>6, <1>7, <1>8

-----------------------------------------------------------------------------
(* Totals over finite sets.  The fold behind Total is a recursive function   *)
(* that the provers know nothing of, so that there is one, that it is the    *)
(* only one and what it computes are proved here, each from a smallest set   *)
(* for which it would fail.                                                  *)

\* A set of numbers has a least one.
LEMMA LeastOf ==
  ASSUME NEW N \in SUBSET Nat, N # {}
  PROVE  \E n \in N : \A m \in N : n <= m
  <1>1. PICK n \in N : \A m \in N : ~ (<<m, n>> \in OpToRel(<, Nat))
    BY WFMin, NatLessThanWellFounded
  <1>2. ASSUME NEW m \in N, m < n PROVE FALSE
    <2>1. <<m, n>> \in Nat \X Nat /\ <<m, n>>[1] < <<m, n>>[2]
      BY <1>2
    <2>2. <<m, n>> \in {r \in Nat \X Nat : r[1] < r[2]}
      BY <2>1
    <2> QED
      BY <1>1, <2>2 DEF OpToRel
  <1> QED
    BY <1>2

(* Induction over the subsets of a finite set, as its least counterexample: *)
(* a family of them has a member that is no longer one without an element.  *)
LEMMA SmallestSubset ==
  ASSUME NEW S, IsFiniteSet(S), NEW B \in SUBSET SUBSET S, B # {}
  PROVE  \E s \in B : \A x \in s : s \ {x} \notin B
  <1> DEFINE N == {Cardinality(s) : s \in B}
  <1>1. \A s \in B : IsFiniteSet(s) /\ Cardinality(s) \in Nat
    BY FS_Subset, FS_CardinalityType
  <1>2. N \in SUBSET Nat /\ N # {}
    BY <1>1
  <1>3. PICK n \in N : \A m \in N : n <= m
    BY <1>2, LeastOf
  <1>4. PICK s \in B : n = Cardinality(s)
    BY <1>3
  <1>5. ASSUME NEW x \in s, s \ {x} \in B PROVE FALSE
    <2>1. Cardinality(s \ {x}) = Cardinality(s) - 1
      BY <1>1, FS_RemoveElement
    <2>2. n <= Cardinality(s \ {x})
      BY <1>3, <1>5
    <2> QED
      BY <1>1, <1>4, <2>1, <2>2
  <1> QED
    BY <1>5

Any(s) == CHOOSE x \in s : TRUE

\* A function that adds up every subset of S, one element of it at a time.
Sums(g, f, S) ==
  g = [s \in SUBSET S |-> IF s = {} THEN 0 ELSE f[Any(s)] + g[s \ {Any(s)}]]

LEMMA TotalDef ==
  ASSUME NEW f, NEW S
  PROVE  Total(f, S) = (CHOOSE g : Sums(g, f, S))[S]
  BY DEF Total, FoldSet, MapThenFoldSet, Sums, Any

LEMMA AnyIn == \A s : s # {} => Any(s) \in s
  BY DEF Any

LEMMA SumsAre ==
  ASSUME NEW g, NEW f, NEW S
  PROVE  Sums(g, f, S) <=>
           /\ g = [s \in SUBSET S |-> g[s]]
           /\ \A s \in SUBSET S : g[s] = IF s = {} THEN 0 ELSE f[Any(s)] + g[s \ {Any(s)}]
  BY DEF Sums

\* Two of them agree.
LEMMA SumsAgree ==
  ASSUME NEW S, IsFiniteSet(S), NEW f, NEW g, NEW h, NEW U \in SUBSET S,
         Sums(g, f, S), Sums(h, f, U)
  PROVE  \A s \in SUBSET U : g[s] = h[s]
  <1> DEFINE B == {s \in SUBSET U : g[s] # h[s]}
  <1>1. SUFFICES ASSUME B # {} PROVE FALSE
    OBVIOUS
  <1>2. IsFiniteSet(U) /\ B \in SUBSET SUBSET U
    BY FS_Subset
  <1>3. PICK s \in B : \A x \in s : s \ {x} \notin B
    <2> HIDE DEF B
    <2> QED
      BY <1>1, <1>2, SmallestSubset
  <1>4. s \in SUBSET U /\ s \in SUBSET S /\ g[s] # h[s]
    BY <1>3
  <1>5. /\ g[s] = IF s = {} THEN 0 ELSE f[Any(s)] + g[s \ {Any(s)}]
        /\ h[s] = IF s = {} THEN 0 ELSE f[Any(s)] + h[s \ {Any(s)}]
    BY <1>4, SumsAre
  <1>6. s # {} => Any(s) \in s /\ s \ {Any(s)} \in SUBSET U
    BY <1>4, AnyIn
  <1>7. s # {} => g[s \ {Any(s)}] = h[s \ {Any(s)}]
    BY <1>3, <1>6
  <1> QED
    BY <1>4, <1>5, <1>7

\* What they agree on is the total.
LEMMA SumsAreTotals ==
  ASSUME NEW S, IsFiniteSet(S), NEW f, NEW g, Sums(g, f, S), NEW U \in SUBSET S
  PROVE  g[U] = Total(f, U)
  <1> DEFINE h == [s \in SUBSET U |-> g[s]]
             c == CHOOSE k : Sums(k, f, U)
  <1>1. h = [s \in SUBSET U |-> h[s]] /\ \A s \in SUBSET U : h[s] = g[s] /\ s \in SUBSET S
    OBVIOUS
  <1> HIDE DEF h
  <1>2. \A s \in SUBSET U : s # {} => s \ {Any(s)} \in SUBSET U
    OBVIOUS
  <1>3. \A s \in SUBSET U : h[s] = IF s = {} THEN 0 ELSE f[Any(s)] + h[s \ {Any(s)}]
    BY <1>1, <1>2, SumsAre
  <1>4. Sums(h, f, U)
    BY <1>1, <1>3, SumsAre
  <1>5. Sums(c, f, U)
    BY <1>4
  <1> HIDE DEF c
  <1>6. g[U] = c[U]
    BY <1>5, SumsAgree
  <1> QED
    BY <1>6, TotalDef DEF c

\* There is one for every finite set.
LEMMA SumsExist ==
  ASSUME NEW S, IsFiniteSet(S), NEW f
  PROVE  \E g : Sums(g, f, S)
  <1> DEFINE B == {s \in SUBSET S : ~\E g : Sums(g, f, s)}
  <1>1. SUFFICES ASSUME B # {} PROVE FALSE
    OBVIOUS
  <1>2. B \in SUBSET SUBSET S
    OBVIOUS
  <1>3. PICK s \in B : \A x \in s : s \ {x} \notin B
    <2> HIDE DEF B
    <2> QED
      BY <1>1, <1>2, SmallestSubset
  <1>4. IsFiniteSet(s)
    BY FS_Subset
  <1> DEFINE G == [t \in SUBSET s |-> IF t = {} THEN 0 ELSE f[Any(t)] + Total(f, t \ {Any(t)})]
  <1>5. G = [t \in SUBSET s |-> G[t]] /\ \A t \in SUBSET s :
           G[t] = IF t = {} THEN 0 ELSE f[Any(t)] + Total(f, t \ {Any(t)})
    OBVIOUS
  <1> HIDE DEF G
  <1>6. ASSUME NEW t \in SUBSET s, t # {} PROVE G[t \ {Any(t)}] = Total(f, t \ {Any(t)})
    <2> DEFINE u == t \ {Any(t)}
               v == s \ {Any(t)}
    <2>1. Any(t) \in s /\ u \in SUBSET v /\ v \in SUBSET S /\ u \in SUBSET s
      BY <1>6, AnyIn
    <2>2. PICK h : Sums(h, f, v)
      BY <1>3, <2>1
    <2>3. IsFiniteSet(v)
      BY <1>4, <2>1, FS_Subset
    <2> HIDE DEF u, v
    <2>4. h[u] = Total(f, u)
      BY <2>1, <2>2, <2>3, SumsAreTotals
    <2>5. h[u] = IF u = {} THEN 0 ELSE f[Any(u)] + h[u \ {Any(u)}]
      BY <2>1, <2>2, SumsAre
    <2>6. u # {} => h[u \ {Any(u)}] = Total(f, u \ {Any(u)})
      <3>1. u \ {Any(u)} \in SUBSET v
        BY <2>1
      <3> QED
        BY <2>2, <2>3, <3>1, SumsAreTotals
    <2>7. G[u] = h[u]
      BY <1>5, <2>1, <2>5, <2>6
    <2> QED
      BY <2>4, <2>7 DEF u
  <1>7. \A t \in SUBSET s : G[t] = IF t = {} THEN 0 ELSE f[Any(t)] + G[t \ {Any(t)}]
    BY <1>5, <1>6
  <1>8. Sums(G, f, s)
    BY <1>5, <1>7, SumsAre
  <1> QED
    BY <1>3, <1>8

\* The equation behind a total.
LEMMA TotalStep ==
  ASSUME NEW S, IsFiniteSet(S), NEW f
  PROVE  /\ Total(f, {}) = 0
         /\ S # {} => Any(S) \in S /\ Total(f, S) = f[Any(S)] + Total(f, S \ {Any(S)})
  <1>1. PICK g : Sums(g, f, S)
    BY SumsExist
  <1>2. /\ g[{}] = 0
        /\ S # {} => g[S] = f[Any(S)] + g[S \ {Any(S)}]
    BY <1>1, SumsAre
  <1>3. g[{}] = Total(f, {}) /\ g[S] = Total(f, S) /\ g[S \ {Any(S)}] = Total(f, S \ {Any(S)})
    BY <1>1, SumsAreTotals
  <1> QED
    BY <1>2, <1>3, AnyIn

\* Totals of numbers are numbers.
LEMMA TotalIsNat ==
  ASSUME NEW D, NEW f \in [D -> Nat], NEW S \in SUBSET D, IsFiniteSet(S)
  PROVE  Total(f, S) \in Nat
  <1> DEFINE B == {s \in SUBSET S : Total(f, s) \notin Nat}
  <1>1. SUFFICES ASSUME B # {} PROVE FALSE
    OBVIOUS
  <1>2. B \in SUBSET SUBSET S
    OBVIOUS
  <1>3. PICK s \in B : \A x \in s : s \ {x} \notin B
    <2> HIDE DEF B
    <2> QED
      BY <1>1, <1>2, SmallestSubset
  <1>4. s \in SUBSET S /\ Total(f, s) \notin Nat /\ \A x \in s : Total(f, s \ {x}) \in Nat
    BY <1>3
  <1>5. IsFiniteSet(s) /\ Total(f, {}) = 0
    BY <1>4, FS_Subset, TotalStep
  <1>6. s # {}
    BY <1>4, <1>5
  <1>7. Any(s) \in s /\ Total(f, s) = f[Any(s)] + Total(f, s \ {Any(s)})
    BY <1>5, <1>6, TotalStep
  <1>8. f[Any(s)] \in Nat /\ Total(f, s \ {Any(s)}) \in Nat
    BY <1>4, <1>7
  <1> QED
    BY <1>4, <1>7, <1>8

\* Any element can be taken out of a total first.
LEMMA TotalRemove ==
  ASSUME NEW D, NEW f \in [D -> Nat], NEW S \in SUBSET D, IsFiniteSet(S)
  PROVE  \A x \in S : Total(f, S) = f[x] + Total(f, S \ {x})
  <1> DEFINE Out(s, x) == Total(f, s) = f[x] + Total(f, s \ {x})
             B == {s \in SUBSET S : ~\A x \in s : Out(s, x)}
  <1>1. SUFFICES ASSUME B # {} PROVE FALSE
    OBVIOUS
  <1>2. B \in SUBSET SUBSET S
    OBVIOUS
  <1>3. PICK s \in B : \A x \in s : s \ {x} \notin B
    <2> HIDE DEF B
    <2> QED
      BY <1>1, <1>2, SmallestSubset
  <1>4. s \in SUBSET S /\ \A x \in s : \A y \in s \ {x} : Out(s \ {x}, y)
    BY <1>3
  <1>5. PICK x \in s : ~Out(s, x)
    BY <1>3
  <1>6. IsFiniteSet(s) /\ \A t \in SUBSET s : Total(f, t) \in Nat
    BY <1>4, FS_Subset, TotalIsNat
  <1> DEFINE a == Any(s)
             t == (s \ {a}) \ {x}
  <1>7. a \in s /\ Total(f, s) = f[a] + Total(f, s \ {a})
    BY <1>5, <1>6, TotalStep
  <1> HIDE DEF a
  <1>8. x # a
    BY <1>5, <1>7
  <1>9. x \in s \ {a} /\ a \in s \ {x} /\ t = (s \ {x}) \ {a} /\ t \in SUBSET s
    BY <1>7, <1>8
  <1>10. Total(f, s \ {a}) = f[x] + Total(f, t) /\ Total(f, s \ {x}) = f[a] + Total(f, t)
    BY <1>4, <1>7, <1>9
  <1>11. f[x] \in Nat /\ f[a] \in Nat /\ Total(f, t) \in Nat
    BY <1>4, <1>6, <1>7, <1>9
  <1> HIDE DEF t
  <1> QED
    BY <1>5, <1>7, <1>10, <1>11

\* The total of two sets without a common element.
LEMMA TotalUnion ==
  ASSUME NEW D, NEW f \in [D -> Nat], NEW S \in SUBSET D, IsFiniteSet(S),
         NEW T \in SUBSET D, IsFiniteSet(T), S \cap T = {}
  PROVE  Total(f, S \cup T) = Total(f, S) + Total(f, T)
  <1> DEFINE B == {s \in SUBSET T : Total(f, S \cup s) # Total(f, S) + Total(f, s)}
  <1>1. SUFFICES ASSUME B # {} PROVE FALSE
    OBVIOUS
  <1>2. B \in SUBSET SUBSET T
    OBVIOUS
  <1>3. PICK s \in B : \A x \in s : s \ {x} \notin B
    <2> HIDE DEF B
    <2> QED
      BY <1>1, <1>2, SmallestSubset
  <1>4. /\ s \in SUBSET T /\ Total(f, S \cup s) # Total(f, S) + Total(f, s)
        /\ \A x \in s : Total(f, S \cup (s \ {x})) = Total(f, S) + Total(f, s \ {x})
    BY <1>3
  <1>5. IsFiniteSet(s) /\ IsFiniteSet(S \cup s) /\ Total(f, S) \in Nat /\ Total(f, {}) = 0
    BY <1>4, FS_Subset, FS_Union, TotalIsNat, TotalStep
  <1>6. s # {}
    <2>1. s = {} => S \cup s = S
      OBVIOUS
    <2> QED
      BY <1>4, <1>5, <2>1
  <1>7. PICK x \in s : TRUE
    BY <1>6
  <1>8. (S \cup s) \ {x} = S \cup (s \ {x}) /\ x \in S \cup s /\ S \cup s \in SUBSET D /\ s \in SUBSET D
    BY <1>4
  <1>9. Total(f, S \cup s) = f[x] + Total(f, S \cup (s \ {x})) /\ Total(f, s) = f[x] + Total(f, s \ {x})
    BY <1>5, <1>8, TotalRemove
  <1>10. Total(f, s \ {x}) \in Nat /\ f[x] \in Nat
    BY <1>5, <1>8, FS_Subset, TotalIsNat
  <1> QED
    BY <1>4, <1>5, <1>9, <1>10

-----------------------------------------------------------------------------
(* The first stop still to be done, and promotion.                          *)

\* The stops still to be done have a first one.
LEMMA FirstLive ==
  ASSUME NEW ss, IsSeq(ss), Live(ss) # {}
  PROVE  Min(Live(ss)) \in Live(ss) /\ \A j \in Live(ss) : Min(Live(ss)) <= j
  <1>1. Live(ss) \subseteq Nat
    BY SeqFacts DEF Live
  <1>2. PICK x \in Live(ss) : \A y \in Live(ss) : ~ (<<y, x>> \in OpToRel(<, Nat))
    BY <1>1, WFMin, NatLessThanWellFounded
  <1>3. \A y \in Live(ss) : x <= y
    <2> SUFFICES ASSUME NEW y \in Live(ss), y < x PROVE FALSE
      BY <1>1
    <2>1. <<y, x>> \in Nat \X Nat /\ <<y, x>>[1] < <<y, x>>[2]
      BY <1>1
    <2>2. <<y, x>> \in {r \in Nat \X Nat : r[1] < r[2]}
      BY <2>1
    <2> QED
      BY <1>2, <2>2 DEF OpToRel
  <1> QED
    BY <1>3 DEF Min

\* Promotion sends the driver to a stop still to be done and changes no other.
LEMMA PromoteKeeps ==
  ASSUME NEW ss, IsRoute(ss)
  PROVE  /\ IsRoute(Promote(ss)) /\ Len(Promote(ss)) = Len(ss)
         /\ Live(Promote(ss)) = Live(ss)
         /\ \A i \in 1..Len(ss) :
              /\ Promote(ss)[i].type = ss[i].type /\ Promote(ss)[i].orders = ss[i].orders
              /\ Promote(ss)[i].parcels = ss[i].parcels
              /\ Promote(ss)[i].status = ss[i].status \/ (i \in Live(ss) /\ Promote(ss)[i].status = "en_route")
  <1>1. CASE Live(ss) = {} \/ ss[Min(Live(ss))].status # "pending"
    BY <1>1 DEF Promote
  <1>2. CASE Live(ss) # {} /\ ss[Min(Live(ss))].status = "pending"
    <2> DEFINE m == Min(Live(ss))
               x == [ss[m] EXCEPT !.status = "en_route"]
    <2>1. m \in Live(ss) /\ m \in 1..Len(ss)
      BY <1>2, FirstLive DEF IsRoute, Live
    <2>2. Promote(ss) = Put(ss, m, x)
      BY <1>2 DEF Promote, Put
    <2>3. /\ IsStop(x) /\ x.type = ss[m].type /\ x.orders = ss[m].orders /\ x.status = "en_route"
          /\ x.parcels = ss[m].parcels
      <3>1. IsStop(ss[m])
        BY <2>1 DEF IsRoute
      <3> QED
        BY <3>1 DEF IsStop
    <2> HIDE DEF m, x
    <2>4. /\ IsSeq(Promote(ss)) /\ Len(Promote(ss)) = Len(ss) /\ Promote(ss)[m] = x
          /\ \A j \in 1..Len(ss) : j # m => Promote(ss)[j] = ss[j]
      <3>1. IsSeq(ss) /\ m \in 1..Len(ss)
        BY <2>1 DEF IsRoute
      <3> QED
        BY <2>2, <3>1, ReplaceOne
    <2>5. Live(Promote(ss)) = Live(ss)
      BY <2>1, <2>3, <2>4 DEF Live, FINISHED
    <2> QED
      BY <2>1, <2>3, <2>4, <2>5 DEF IsRoute
  <1> QED
    BY <1>1, <1>2

-----------------------------------------------------------------------------
(* What the writers do to a route's stops.                                 *)

WithStatus(ss, i, s) == [ss EXCEPT ![i].status = s]
WithScanned(ss, i, n) == [ss EXCEPT ![i].scanned = n]

\* Every stop's type and orders, the same or fewer orders.
SameShape(ss, tt) ==
  /\ Len(tt) = Len(ss)
  /\ \A i \in 1..Len(ss) : tt[i].type = ss[i].type /\ tt[i].orders \subseteq ss[i].orders

\* One stop's status is set.
LEMMA StatusSet ==
  ASSUME NEW ss, IsRoute(ss), NEW i \in 1..Len(ss),
         NEW s \in {"pending", "en_route", "arrived"} \cup FINISHED
  PROVE  /\ IsRoute(WithStatus(ss, i, s)) /\ SameShape(ss, WithStatus(ss, i, s))
         /\ WithStatus(ss, i, s)[i].status = s
         /\ WithStatus(ss, i, s)[i].orders = ss[i].orders
         /\ WithStatus(ss, i, s)[i].parcels = ss[i].parcels
         /\ \A j \in 1..Len(ss) : j # i => WithStatus(ss, i, s)[j] = ss[j]
  <1> DEFINE x == [ss[i] EXCEPT !.status = s]
  <1>1. WithStatus(ss, i, s) = Put(ss, i, x)
    BY DEF WithStatus, Put
  <1>2. /\ IsStop(x) /\ x.type = ss[i].type /\ x.orders = ss[i].orders /\ x.status = s
        /\ x.parcels = ss[i].parcels
    <2>1. IsStop(ss[i])
      BY DEF IsRoute
    <2> QED
      BY <2>1 DEF IsStop
  <1> HIDE DEF x
  <1>3. IsSeq(ss)
    BY DEF IsRoute
  <1>4. /\ IsSeq(Put(ss, i, x)) /\ Len(Put(ss, i, x)) = Len(ss) /\ Put(ss, i, x)[i] = x
        /\ \A j \in 1..Len(ss) : j # i => Put(ss, i, x)[j] = ss[j]
    BY <1>3, ReplaceOne
  <1> QED
    BY <1>1, <1>2, <1>4 DEF IsRoute, SameShape

\* One stop ends.
LEMMA StopEnds ==
  ASSUME NEW ss, IsRoute(ss), NEW i \in 1..Len(ss), NEW s \in FINISHED
  PROVE  /\ IsRoute(WithStatus(ss, i, s)) /\ Len(WithStatus(ss, i, s)) = Len(ss)
         /\ WithStatus(ss, i, s)[i].status = s
         /\ \A j \in 1..Len(ss) : j # i => WithStatus(ss, i, s)[j] = ss[j]
         /\ \A j \in 1..Len(ss) : /\ WithStatus(ss, i, s)[j].type = ss[j].type
                                  /\ WithStatus(ss, i, s)[j].orders = ss[j].orders
                                  /\ WithStatus(ss, i, s)[j].parcels = ss[j].parcels
         /\ Live(WithStatus(ss, i, s)) = Live(ss) \ {i}
  <1> DEFINE tt == WithStatus(ss, i, s)
  <1>1. s \in {"pending", "en_route", "arrived"} \cup FINISHED
    OBVIOUS
  <1>2. /\ IsRoute(tt) /\ SameShape(ss, tt) /\ tt[i].status = s /\ tt[i].orders = ss[i].orders
        /\ tt[i].parcels = ss[i].parcels /\ \A j \in 1..Len(ss) : j # i => tt[j] = ss[j]
    BY <1>1, StatusSet
  <1> HIDE DEF tt
  <1>3. Len(tt) = Len(ss) /\ \A j \in 1..Len(ss) : tt[j].type = ss[j].type
    BY <1>2 DEF SameShape
  <1>4. Live(tt) = Live(ss) \ {i}
    BY <1>2, <1>3 DEF Live
  <1> QED
    BY <1>2, <1>3, <1>4 DEF tt

\* One stop's count is set: nothing else is said of it here.
LEMMA ScannedSet ==
  ASSUME NEW ss, IsRoute(ss), NEW i \in 1..Len(ss), NEW n
  PROVE  /\ IsRoute(WithScanned(ss, i, n)) /\ Len(WithScanned(ss, i, n)) = Len(ss)
         /\ \A j \in 1..Len(ss) :
              /\ WithScanned(ss, i, n)[j].type = ss[j].type
              /\ WithScanned(ss, i, n)[j].orders = ss[j].orders
              /\ WithScanned(ss, i, n)[j].status = ss[j].status
              /\ WithScanned(ss, i, n)[j].parcels = ss[j].parcels
  <1> DEFINE x == [ss[i] EXCEPT !.scanned = n]
  <1>1. WithScanned(ss, i, n) = Put(ss, i, x)
    BY DEF WithScanned, Put
  <1>2. /\ IsStop(x) /\ x.type = ss[i].type /\ x.orders = ss[i].orders /\ x.status = ss[i].status
        /\ x.parcels = ss[i].parcels
    <2>1. IsStop(ss[i])
      BY DEF IsRoute
    <2> QED
      BY <2>1 DEF IsStop
  <1> HIDE DEF x
  <1>3. IsSeq(ss)
    BY DEF IsRoute
  <1>4. /\ IsSeq(Put(ss, i, x)) /\ Len(Put(ss, i, x)) = Len(ss) /\ Put(ss, i, x)[i] = x
        /\ \A j \in 1..Len(ss) : j # i => Put(ss, i, x)[j] = ss[j]
    BY <1>3, ReplaceOne
  <1> QED
    BY <1>1, <1>2, <1>4 DEF IsRoute

(* Orders taken off one stop: cancelled when they were all it had, kept    *)
(* without them otherwise, whatever that makes of its counts.              *)
LEMMA ShedStop ==
  ASSUME NEW s, IsStop(s), NEW S
  PROVE  /\ IsStop(Shed(s, S)) /\ Shed(s, S).type = s.type
         /\ s.orders \ S = {} => Shed(s, S).status = "cancelled" /\ Shed(s, S).orders = s.orders
         /\ s.orders \ S # {} => Shed(s, S).status = s.status /\ Shed(s, S).orders = s.orders \ S
  <1>1. CASE s.orders \ S = {}
    <2>1. Shed(s, S) = [s EXCEPT !.status = "cancelled"]
      BY <1>1 DEF Shed
    <2> QED
      BY <1>1, <2>1 DEF IsStop, FINISHED
  <1>2. CASE s.orders \ S # {} /\ s.type = "pickup"
    <2>1. PICK n, m : Shed(s, S) = [s EXCEPT !.orders = s.orders \ S, !.parcels = n, !.scanned = m]
      BY <1>2 DEF Shed
    <2> QED
      BY <1>2, <2>1 DEF IsStop
  <1>3. CASE s.orders \ S # {} /\ s.type # "pickup"
    <2>1. Shed(s, S) = [s EXCEPT !.orders = s.orders \ S]
      BY <1>3 DEF Shed
    <2> QED
      BY <1>3, <2>1 DEF IsStop
  <1> QED
    BY <1>1, <1>2, <1>3

\* Orders taken off several stops of a route.
LEMMA TakeOffStops ==
  ASSUME NEW ss, IsRoute(ss), NEW S, NEW others
  PROVE  /\ IsRoute(TakeOff(ss, S, others)) /\ SameShape(ss, TakeOff(ss, S, others))
         /\ \A i \in 1..Len(ss) :
              TakeOff(ss, S, others)[i] = IF i \in others THEN Shed(ss[i], S) ELSE ss[i]
  <1> DEFINE tt == TakeOff(ss, S, others)
  <1>1. Len(ss) \in Nat /\ DOMAIN ss = 1..Len(ss)
    BY SeqFacts DEF IsRoute
  <1>2. tt = [i \in 1..Len(ss) |-> IF i \in others THEN Shed(ss[i], S) ELSE ss[i]]
    BY <1>1 DEF TakeOff
  <1>3. tt = [i \in 1..Len(ss) |-> tt[i]] /\ \A i \in 1..Len(ss) :
          tt[i] = IF i \in others THEN Shed(ss[i], S) ELSE ss[i]
    BY <1>2
  <1> HIDE DEF tt
  <1>4. IsSeq(tt) /\ Len(tt) = Len(ss)
    BY <1>1, <1>3, FunctionIsSeq
  <1>5. \A i \in 1..Len(ss) :
          IsStop(tt[i]) /\ tt[i].type = ss[i].type /\ tt[i].orders \subseteq ss[i].orders
    <2> SUFFICES ASSUME NEW i \in 1..Len(ss)
                 PROVE  /\ IsStop(tt[i]) /\ tt[i].type = ss[i].type
                        /\ tt[i].orders \subseteq ss[i].orders
      OBVIOUS
    <2>1. IsStop(ss[i])
      BY DEF IsRoute
    <2> QED
      BY <1>3, <2>1, ShedStop
  <1> QED
    BY <1>3, <1>4, <1>5 DEF tt, IsRoute, SameShape

-----------------------------------------------------------------------------
(* The invariant.                                                          *)

Lost == {"failed", "cancelled"}

(* A drop-off that may still be, or was, delivered has its own pickup       *)
(* before it, not given up; done, when the drop-off is.  DeliveredWas-      *)
(* Collected alone is not inductive: complete_stop only sees that no        *)
(* collection is pending, which says nothing unless a pickup that came off  *)
(* the route took its drop-off along.                                       *)
Collected(ss) ==
  \A i \in 1..Len(ss) : ss[i].type = "dropoff" /\ ss[i].status \notin Lost =>
    \A o \in ss[i].orders : \E j \in 1..Len(ss) :
      /\ j < i /\ ss[j].type = "pickup" /\ o \in ss[j].orders
      /\ ss[j].status \notin Lost
      /\ ss[i].status = "completed" => ss[j].status = "completed"

RouteInv ==
  /\ status \in [Orders -> OrderStatus]
  /\ route \in {"none", "active", "completed"}
  /\ IsRoute(stops)
  /\ route = "none" => stops = <<>>
  /\ counting # NotCounting => counting.stop \in Rows
  /\ RouteEndsWithItsStops
  /\ Collected(stops)

\* Finished stops stay as they finished.
Finishes(ss, tt) ==
  /\ Len(ss) <= Len(tt)
  /\ \A i \in 1..Len(ss) : ss[i].status \in FINISHED => tt[i].status = ss[i].status

(* The orders of S come off the stops still to be done, or just go on      *)
(* being served when S is empty: no stop is completed.                      *)
Goes(ss, tt, S) ==
  /\ Len(tt) = Len(ss)
  /\ \A k \in 1..Len(ss) :
       /\ tt[k].type = ss[k].type
       /\ tt[k].orders \subseteq ss[k].orders
       /\ ss[k].orders \ S \subseteq tt[k].orders
       /\ k \notin Live(ss) => tt[k].status = ss[k].status /\ tt[k].orders = ss[k].orders
       /\ k \in Live(ss) =>
            \/ tt[k].status \in Lost /\ ss[k].orders \subseteq S /\ tt[k].orders = ss[k].orders
            \/ /\ tt[k].status \notin FINISHED /\ tt[k].orders = ss[k].orders \ S
               /\ ss[k].orders \cap S # {} => tt[k].orders # {}

\* Collections stay before deliveries when orders leave all they still had.
LEMMA GoesKeeps ==
  ASSUME NEW ss, IsRoute(ss), Collected(ss), NEW tt, NEW S, Goes(ss, tt, S)
  PROVE  Collected(tt) /\ Finishes(ss, tt) /\ Live(tt) \subseteq Live(ss) /\ Len(tt) = Len(ss)
  <1>1. Len(ss) \in Nat /\ Len(tt) = Len(ss)
    BY SeqFacts DEF IsRoute, Goes
  <1>2. Finishes(ss, tt) /\ Live(tt) \subseteq Live(ss)
    BY <1>1 DEF Finishes, Live, Goes, FINISHED
  <1>3. Collected(tt)
    <2> SUFFICES ASSUME NEW i \in 1..Len(ss), tt[i].type = "dropoff", tt[i].status \notin Lost,
                        NEW o \in tt[i].orders
                 PROVE  \E j \in 1..Len(ss) :
                          /\ j < i /\ tt[j].type = "pickup" /\ o \in tt[j].orders
                          /\ tt[j].status \notin Lost
                          /\ tt[i].status = "completed" => tt[j].status = "completed"
      BY <1>1 DEF Collected
    <2>1. /\ ss[i].type = "dropoff" /\ o \in ss[i].orders /\ ss[i].status \notin Lost
          /\ tt[i].status = "completed" => ss[i].status = "completed"
      BY DEF Goes, Live, FINISHED, Lost
    <2>2. PICK j \in 1..Len(ss) :
             /\ j < i /\ ss[j].type = "pickup" /\ o \in ss[j].orders /\ ss[j].status \notin Lost
             /\ ss[i].status = "completed" => ss[j].status = "completed"
      BY <2>1 DEF Collected
    <2>3. CASE j \notin Live(ss)
      <3>1. tt[j].type = ss[j].type /\ tt[j].status = ss[j].status /\ tt[j].orders = ss[j].orders
        BY <2>3 DEF Goes
      <3> QED
        BY <2>1, <2>2, <3>1
    <2>4. CASE j \in Live(ss)
      <3>1. ss[i].status # "completed" /\ i \in Live(ss)
        BY <2>1, <2>2, <2>4 DEF Live, FINISHED, Lost
      <3>2. o \notin S
        BY <3>1 DEF Goes
      <3>3. o \in tt[j].orders /\ tt[j].status \notin Lost /\ tt[j].type = "pickup"
        BY <2>2, <2>4, <3>2 DEF Goes, FINISHED, Lost
      <3> QED
        BY <2>1, <2>2, <3>1, <3>3
    <2> QED
      BY <2>3, <2>4
  <1> QED
    BY <1>1, <1>2, <1>3

\* Promotion serves on.
LEMMA PromoteGoes ==
  ASSUME NEW ss, IsRoute(ss)
  PROVE  Goes(ss, Promote(ss), {})
  BY PromoteKeeps DEF Goes, Live, FINISHED

\* One stop goes on to a status that is no end.
LEMMA StatusGoes ==
  ASSUME NEW ss, IsRoute(ss), NEW i \in Live(ss), NEW s \in {"pending", "en_route", "arrived"}
  PROVE  Goes(ss, WithStatus(ss, i, s), {}) /\ Live(WithStatus(ss, i, s)) = Live(ss)
  <1>1. i \in 1..Len(ss)
    BY DEF Live
  <1>2. /\ SameShape(ss, WithStatus(ss, i, s))
        /\ WithStatus(ss, i, s)[i].status = s /\ WithStatus(ss, i, s)[i].orders = ss[i].orders
        /\ \A j \in 1..Len(ss) : j # i => WithStatus(ss, i, s)[j] = ss[j]
    BY <1>1, StatusSet
  <1>3. Live(WithStatus(ss, i, s)) = Live(ss)
    BY <1>1, <1>2 DEF Live, FINISHED, SameShape
  <1> QED
    BY <1>1, <1>2, <1>3 DEF Goes, Live, FINISHED, SameShape

\* One stop's count is written, finished or not.
LEMMA ScannedGoes ==
  ASSUME NEW ss, IsRoute(ss), NEW i \in 1..Len(ss), NEW n
  PROVE  Goes(ss, WithScanned(ss, i, n), {}) /\ Live(WithScanned(ss, i, n)) = Live(ss)
  <1> DEFINE tt == WithScanned(ss, i, n)
  <1>1. /\ Len(tt) = Len(ss)
        /\ \A j \in 1..Len(ss) : /\ tt[j].type = ss[j].type /\ tt[j].orders = ss[j].orders
                                 /\ tt[j].status = ss[j].status
    BY ScannedSet
  <1> HIDE DEF tt
  <1>2. Live(tt) = Live(ss)
    BY <1>1 DEF Live
  <1>3. Goes(ss, tt, {})
    BY <1>1 DEF Goes, Live, FINISHED
  <1> QED
    BY <1>2, <1>3 DEF tt

\* Orders come off the stops still to be done that have one of them.
LEMMA TakeOffGoes ==
  ASSUME NEW ss, IsRoute(ss), NEW S, NEW others,
         others = {k \in Live(ss) : ss[k].orders \cap S # {}}
  PROVE  Goes(ss, TakeOff(ss, S, others), S)
  <1> DEFINE tt == TakeOff(ss, S, others)
  <1>1. /\ Len(tt) = Len(ss)
        /\ \A k \in 1..Len(ss) : tt[k] = IF k \in others THEN Shed(ss[k], S) ELSE ss[k]
    BY TakeOffStops DEF SameShape
  <1> HIDE DEF tt
  <1>2. SUFFICES ASSUME NEW k \in 1..Len(ss)
                 PROVE
       /\ tt[k].type = ss[k].type
       /\ tt[k].orders \subseteq ss[k].orders
       /\ ss[k].orders \ S \subseteq tt[k].orders
       /\ k \notin Live(ss) => tt[k].status = ss[k].status /\ tt[k].orders = ss[k].orders
       /\ k \in Live(ss) =>
            \/ tt[k].status \in Lost /\ ss[k].orders \subseteq S /\ tt[k].orders = ss[k].orders
            \/ /\ tt[k].status \notin FINISHED /\ tt[k].orders = ss[k].orders \ S
               /\ ss[k].orders \cap S # {} => tt[k].orders # {}
    BY <1>1 DEF Goes, tt
  <1>3. CASE k \notin others
    <2>1. tt[k] = ss[k] /\ (k \in Live(ss) => ss[k].orders \cap S = {})
      BY <1>1, <1>3
    <2> QED
      BY <2>1 DEF Live
  <1>4. CASE k \in others
    <2>1. tt[k] = Shed(ss[k], S) /\ k \in Live(ss) /\ ss[k].status \notin FINISHED
      BY <1>1, <1>4 DEF Live
    <2>2. IsStop(ss[k])
      BY DEF IsRoute
    <2>3. CASE ss[k].orders \ S = {}
      <3>1. tt[k].type = ss[k].type /\ tt[k].status = "cancelled" /\ tt[k].orders = ss[k].orders
        BY <2>1, <2>2, <2>3, ShedStop
      <3> QED
        BY <2>1, <2>3, <3>1 DEF Lost
    <2>4. CASE ss[k].orders \ S # {}
      <3>1. tt[k].type = ss[k].type /\ tt[k].status = ss[k].status /\ tt[k].orders = ss[k].orders \ S
        BY <2>1, <2>2, <2>4, ShedStop
      <3> QED
        BY <2>1, <2>4, <3>1
    <2> QED
      BY <2>3, <2>4
  <1> QED
    BY <1>3, <1>4

\* A flag: the stop fails, and its orders come off every other stop.
LEMMA FlagGoes ==
  ASSUME NEW ss, IsRoute(ss), NEW i \in Live(ss), NEW others,
         others = {k \in Live(ss) \ {i} : ss[k].orders \cap ss[i].orders # {}}
  PROVE  /\ IsRoute(TakeOff(WithStatus(ss, i, "failed"), ss[i].orders, others))
         /\ Goes(ss, TakeOff(WithStatus(ss, i, "failed"), ss[i].orders, others), ss[i].orders)
  <1> DEFINE S == ss[i].orders
             ff == WithStatus(ss, i, "failed")
             tt == TakeOff(ff, S, others)
  <1>1. i \in 1..Len(ss)
    BY DEF Live
  <1>2. /\ IsRoute(ff) /\ Len(ff) = Len(ss) /\ ff[i].type = ss[i].type
        /\ ff[i].status = "failed" /\ ff[i].orders = ss[i].orders
        /\ \A j \in 1..Len(ss) : j # i => ff[j] = ss[j]
    <2>1. "failed" \in {"pending", "en_route", "arrived"} \cup FINISHED
      BY DEF FINISHED
    <2>2. /\ IsRoute(ff) /\ SameShape(ss, ff) /\ ff[i].status = "failed" /\ ff[i].orders = ss[i].orders
          /\ \A j \in 1..Len(ss) : j # i => ff[j] = ss[j]
      BY <1>1, <2>1, StatusSet
    <2> HIDE DEF ff
    <2> QED
      BY <1>1, <2>2 DEF SameShape
  <1> HIDE DEF ff
  <1>3. Live(ff) = Live(ss) \ {i}
    BY <1>1, <1>2 DEF Live, FINISHED
  <1>4. others = {k \in Live(ff) : ff[k].orders \cap S # {}}
    BY <1>2, <1>3 DEF Live
  <1>5. IsRoute(tt) /\ Goes(ff, tt, S)
    BY <1>2, <1>4, TakeOffStops, TakeOffGoes
  <1> HIDE DEF tt
  <1>6. Len(tt) = Len(ss)
    BY <1>2, <1>5 DEF Goes
  <1>7. ASSUME NEW k \in 1..Len(ss)
        PROVE  /\ tt[k].type = ss[k].type
               /\ tt[k].orders \subseteq ss[k].orders
               /\ ss[k].orders \ S \subseteq tt[k].orders
               /\ k \notin Live(ss) => tt[k].status = ss[k].status /\ tt[k].orders = ss[k].orders
               /\ k \in Live(ss) =>
                    \/ tt[k].status \in Lost /\ ss[k].orders \subseteq S /\ tt[k].orders = ss[k].orders
                    \/ /\ tt[k].status \notin FINISHED /\ tt[k].orders = ss[k].orders \ S
                       /\ ss[k].orders \cap S # {} => tt[k].orders # {}
    <2>1. CASE k = i
      <3>1. tt[i].type = ff[i].type /\ tt[i].status = ff[i].status /\ tt[i].orders = ff[i].orders
        BY <1>1, <1>2, <1>3, <1>5 DEF Goes
      <3> QED
        BY <1>2, <2>1, <3>1 DEF Lost
    <2>2. CASE k # i
      <3>1. ff[k] = ss[k] /\ (k \in Live(ff) <=> k \in Live(ss))
        BY <1>2, <1>3, <2>2
      <3> QED
        BY <1>2, <1>5, <3>1 DEF Goes
    <2> QED
      BY <2>1, <2>2
  <1> QED
    BY <1>5, <1>6, <1>7 DEF Goes, tt, ff

\* A completion: a drop-off is completed once no pickup of its orders waits.
LEMMA CompleteKeeps ==
  ASSUME NEW ss, IsRoute(ss), Collected(ss), NEW i \in Live(ss),
         ss[i].type = "dropoff" =>
           ~\E j \in Live(ss) : ss[j].type = "pickup" /\ ss[j].orders \cap ss[i].orders # {}
  PROVE  /\ Collected(WithStatus(ss, i, "completed"))
         /\ Finishes(ss, WithStatus(ss, i, "completed"))
         /\ Live(WithStatus(ss, i, "completed")) = Live(ss) \ {i}
  <1> DEFINE tt == WithStatus(ss, i, "completed")
  <1>1. i \in 1..Len(ss) /\ Len(ss) \in Nat
    BY SeqFacts DEF Live, IsRoute
  <1>2. /\ Len(tt) = Len(ss) /\ tt[i].type = ss[i].type
        /\ tt[i].status = "completed" /\ tt[i].orders = ss[i].orders
        /\ \A j \in 1..Len(ss) : j # i => tt[j] = ss[j]
    BY <1>1, StopEnds DEF FINISHED
  <1> HIDE DEF tt
  <1>3. Finishes(ss, tt) /\ Live(tt) = Live(ss) \ {i}
    BY <1>1, <1>2 DEF Finishes, Live, FINISHED
  <1>4. Collected(tt)
    <2> SUFFICES ASSUME NEW k \in 1..Len(ss), tt[k].type = "dropoff", tt[k].status \notin Lost,
                        NEW o \in tt[k].orders
                 PROVE  \E j \in 1..Len(ss) :
                          /\ j < k /\ tt[j].type = "pickup" /\ o \in tt[j].orders
                          /\ tt[j].status \notin Lost
                          /\ tt[k].status = "completed" => tt[j].status = "completed"
      BY <1>2 DEF Collected
    <2>1. ss[k].type = "dropoff" /\ ss[k].status \notin Lost /\ o \in ss[k].orders
      BY <1>2 DEF Live, FINISHED, Lost
    <2>2. PICK j \in 1..Len(ss) :
             /\ j < k /\ ss[j].type = "pickup" /\ o \in ss[j].orders /\ ss[j].status \notin Lost
             /\ ss[k].status = "completed" => ss[j].status = "completed"
      BY <2>1 DEF Collected
    <2>3. tt[j].type = "pickup" /\ o \in tt[j].orders /\ tt[j].status \notin Lost
      BY <1>2, <2>2 DEF Lost
    <2>4. tt[k].status = "completed" => tt[j].status = "completed"
      <3>1. CASE k = i
        <4>1. ss[j].status = "completed"
          BY <2>1, <2>2, <3>1 DEF Live, FINISHED, Lost
        <4> QED
          BY <1>2, <4>1
      <3>2. CASE k # i
        BY <1>2, <2>2, <3>2
      <3> QED
        BY <3>1, <3>2
    <2> QED
      BY <2>2, <2>3, <2>4
  <1> QED
    BY <1>3, <1>4 DEF tt

\* An insertion: a pickup and its drop-off at the end.
LEMMA InsertKeeps ==
  ASSUME NEW ss, IsRoute(ss), Collected(ss), NEW o \in Orders, NEW tt,
         IsSeq(tt), Len(tt) = Len(ss) + 2, \A i \in 1..Len(ss) : tt[i] = ss[i],
         tt[Len(ss) + 1] = NewStop("pickup", {o}, 1), tt[Len(ss) + 2] = NewStop("dropoff", {o}, 1)
  PROVE  IsRoute(tt) /\ Collected(tt) /\ Finishes(ss, tt) /\ Live(tt) # {}
  <1> DEFINE a == NewStop("pickup", {o}, 1)
             b == NewStop("dropoff", {o}, 1)
             n == Len(ss)
  <1>1. IsSeq(ss) /\ n \in Nat /\ \A i \in 1..n : IsStop(ss[i])
    BY SeqFacts DEF IsRoute
  <1>2. /\ IsStop(a) /\ a.type = "pickup" /\ a.orders = {o} /\ a.status = "pending"
        /\ IsStop(b) /\ b.type = "dropoff" /\ b.orders = {o} /\ b.status = "pending"
    BY DEF NewStop, IsStop
  <1> HIDE DEF a, b
  <1>3. /\ IsSeq(tt) /\ Len(tt) = n + 2 /\ tt[n + 1] = a /\ tt[n + 2] = b
        /\ \A i \in 1..n : tt[i] = ss[i]
    BY DEF a, b
  <1> HIDE DEF n
  <1>4. \A i \in 1..(n + 2) : i \in 1..n \/ i = n + 1 \/ i = n + 2
    BY <1>1
  <1>5. IsRoute(tt)
    BY <1>2, <1>3, <1>4 DEF IsRoute, n
  <1>6. n + 1 \in Live(tt)
    BY <1>1, <1>2, <1>3 DEF Live, FINISHED
  <1>7. Collected(tt)
    <2> SUFFICES ASSUME NEW k \in 1..(n + 2), tt[k].type = "dropoff", tt[k].status \notin Lost,
                        NEW p \in tt[k].orders
                 PROVE  \E j \in 1..(n + 2) :
                          /\ j < k /\ tt[j].type = "pickup" /\ p \in tt[j].orders
                          /\ tt[j].status \notin Lost
                          /\ tt[k].status = "completed" => tt[j].status = "completed"
      BY <1>3 DEF Collected
    <2>1. CASE k \in 1..n
      <3>1. PICK j \in 1..n :
               /\ j < k /\ ss[j].type = "pickup" /\ p \in ss[j].orders /\ ss[j].status \notin Lost
               /\ ss[k].status = "completed" => ss[j].status = "completed"
        BY <1>3, <2>1 DEF Collected, n
      <3> QED
        BY <1>1, <1>3, <2>1, <3>1
    <2>2. CASE k = n + 2
      <3>1. n + 1 \in 1..(n + 2) /\ n + 1 < k
        BY <1>1, <2>2
      <3> QED
        BY <1>2, <1>3, <2>2, <3>1 DEF Lost
    <2> QED
      BY <1>2, <1>3, <1>4, <2>1, <2>2
  <1>8. Finishes(ss, tt)
    BY <1>1, <1>3 DEF Finishes, n
  <1> QED
    BY <1>3, <1>5, <1>6, <1>7, <1>8 DEF n

\* A plan visits an order's shop before its door.
LEMMA PlanCollected ==
  ASSUME NEW n \in Nat, NEW S, NEW vs \in [1..n -> Visit(S)], IsPlan(vs, S),
         NEW tt, Len(tt) = n,
         \A i \in 1..n : /\ tt[i].type = vs[i].type /\ tt[i].orders = vs[i].orders
                         /\ tt[i].status = "pending"
  PROVE  Collected(tt)
  <1>1. DOMAIN vs = 1..n /\ \A i \in 1..n : vs[i] \in Visit(S)
    OBVIOUS
  <1> SUFFICES ASSUME NEW k \in 1..n, tt[k].type = "dropoff", NEW o \in tt[k].orders
               PROVE  \E j \in 1..n :
                        j < k /\ tt[j].type = "pickup" /\ o \in tt[j].orders
    BY DEF Collected, Lost
  <1>2. o \in S /\ o \in vs[k].orders /\ vs[k].type = "dropoff"
    BY <1>1 DEF Visit
  <1>3. PICK i, j \in 1..n :
           /\ i < j /\ vs[i].type = "pickup" /\ vs[j].type = "dropoff"
           /\ \A m \in 1..n : o \in vs[m].orders <=> m \in {i, j}
    BY <1>1, <1>2 DEF IsPlan
  <1>4. k = j /\ o \in vs[i].orders
    BY <1>2, <1>3
  <1> QED
    BY <1>3, <1>4

\* A new route: every leg is to be done, collections before deliveries.
LEMMA BuiltRoute ==
  ASSUME NEW n \in Nat, n > 0, NEW S \in SUBSET Orders, NEW vs \in [1..n -> Visit(S)],
         IsPlan(vs, S), NEW c, NEW tt, tt = [i \in DOMAIN vs |-> StopOf(vs[i], c[i])]
  PROVE  IsRoute(tt) /\ Collected(tt) /\ Live(tt) # {}
  <1>1. DOMAIN vs = 1..n /\ \A i \in 1..n : vs[i] \in Visit(S)
    OBVIOUS
  <1>2. \A i \in 1..n : /\ IsStop(tt[i]) /\ tt[i].type = vs[i].type
                        /\ tt[i].orders = vs[i].orders /\ tt[i].status = "pending"
    <2> SUFFICES ASSUME NEW i \in 1..n
                 PROVE  /\ IsStop(tt[i]) /\ tt[i].type = vs[i].type
                        /\ tt[i].orders = vs[i].orders /\ tt[i].status = "pending"
      OBVIOUS
    <2>1. PICK m : tt[i] = NewStop(vs[i].type, vs[i].orders, m)
      BY <1>1 DEF StopOf
    <2>2. vs[i].type \in {"pickup", "dropoff"} /\ vs[i].orders \subseteq Orders
      BY <1>1 DEF Visit
    <2> QED
      BY <2>1, <2>2 DEF NewStop, IsStop
  <1>3. IsSeq(tt) /\ Len(tt) = n
    <2>1. tt = [i \in 1..n |-> tt[i]]
      BY <1>1
    <2> QED
      BY <2>1, FunctionIsSeq
  <1>4. 1 \in Live(tt)
    BY <1>2, <1>3 DEF Live, FINISHED
  <1>5. Collected(tt)
    BY <1>2, <1>3, PlanCollected
  <1> QED
    BY <1>2, <1>3, <1>4, <1>5 DEF IsRoute

-----------------------------------------------------------------------------
(* The orders' statuses.                                                   *)

\* Every order stays, or moves as the lifecycle allows.
LegalMoves(a, b) ==
  /\ b \in [Orders -> OrderStatus]
  /\ \A o \in Orders : b[o] = a[o] \/ Lifecycle!LegalMove(a[o], b[o])

LEMMA TableMovesAreLegal ==
  ASSUME NEW s, NEW n \in allowed_next(s)
  PROVE  Lifecycle!LegalMove(s, n)
  BY DEF Lifecycle!LegalMove, Lifecycle!allowed_next, allowed_next, Lifecycle!TERMINAL, TERMINAL,
     Lifecycle!Forward, Forward, Lifecycle!AlwaysAvailable, AlwaysAvailable

\* advance_orders moves an order by the table or leaves it alone.
LEMMA AdvanceMoves ==
  ASSUME NEW st \in [Orders -> OrderStatus], NEW S, NEW new \in OrderStatus
  PROVE  /\ Advance(st, S, new) \in [Orders -> OrderStatus]
         /\ \A o \in Orders : \/ Advance(st, S, new)[o] = st[o]
                              \/ Advance(st, S, new)[o] = new /\ new \in allowed_next(st[o])
  BY DEF Advance

\* A promotion moves nothing but collected orders.
LEMMA PromoteOrdersMoves ==
  ASSUME NEW ss, NEW st \in [Orders -> OrderStatus]
  PROVE  /\ PromoteOrders(ss, st) \in [Orders -> OrderStatus]
         /\ \A o \in Orders :
              \/ PromoteOrders(ss, st)[o] = st[o]
              \/ PromoteOrders(ss, st)[o] = "en_route_drop" /\ "en_route_drop" \in allowed_next(st[o])
  <1>1. "en_route_drop" \in OrderStatus
    BY DEF OrderStatus
  <1>2. CASE Live(ss) = {} \/ ss[Min(Live(ss))].type = "pickup"
    BY <1>2 DEF PromoteOrders
  <1>3. CASE ~(Live(ss) = {} \/ ss[Min(Live(ss))].type = "pickup")
    <2>1. PromoteOrders(ss, st) = Advance(st, ss[Min(Live(ss))].orders, "en_route_drop")
      BY <1>3 DEF PromoteOrders
    <2> QED
      BY <1>1, <2>1, AdvanceMoves
  <1> QED
    BY <1>2, <1>3

(* An order that a step has just ended is not promoted by the same step:   *)
(* the table has no way on from there.                                      *)
LEMMA EndedIsNotPromoted ==
  \A s \in {"delivery_failed", "cancelled"} : "en_route_drop" \notin allowed_next(s)
  BY DEF allowed_next, TERMINAL, Forward, AlwaysAvailable

LEMMA EndAndPromote ==
  ASSUME NEW a \in [Orders -> OrderStatus], NEW b \in [Orders -> OrderStatus], NEW ss,
         \A o \in Orders : \/ b[o] = a[o]
                           \/ b[o] \in {"delivery_failed", "cancelled"} /\ b[o] \in allowed_next(a[o])
  PROVE  LegalMoves(a, PromoteOrders(ss, b))
  <1> DEFINE c == PromoteOrders(ss, b)
  <1>1. /\ c \in [Orders -> OrderStatus]
        /\ \A o \in Orders : \/ c[o] = b[o]
                             \/ c[o] = "en_route_drop" /\ "en_route_drop" \in allowed_next(b[o])
    BY PromoteOrdersMoves
  <1> HIDE DEF c
  <1>2. ASSUME NEW o \in Orders PROVE c[o] = a[o] \/ c[o] \in allowed_next(a[o])
    BY <1>1, EndedIsNotPromoted
  <1> QED
    BY <1>1, <1>2, TableMovesAreLegal DEF LegalMoves, c

-----------------------------------------------------------------------------
(* Every step.                                                             *)

(* What a step does to the stops and to the orders: the invariant again,   *)
(* finished stops as they were, legal moves.                                *)
Good ==
  /\ RouteInv'
  /\ Finishes(stops, stops')
  /\ LegalMoves(status, status')

\* A step that leaves stops and statuses alone.
LEMMA NothingMoved ==
  ASSUME RouteInv, UNCHANGED <<status, route, stops>>,
         counting' # NotCounting => counting'.stop \in Rows
  PROVE  Good
  <1>1. Len(stops) \in Nat
    BY SeqFacts DEF RouteInv, IsRoute
  <1>2. RouteInv'
    BY DEF RouteInv, RouteEndsWithItsStops, Rows
  <1> QED
    BY <1>1, <1>2 DEF Good, RouteInv, Finishes, LegalMoves

\* A step that serves on: no stop ends.
LEMMA ServesOn ==
  ASSUME RouteInv, IsRoute(stops'), Goes(stops, stops', {}), Live(stops') = Live(stops),
         route' = route, LegalMoves(status, status'),
         counting' = counting \/ counting' = NotCounting
  PROVE  Good
  <1>1. Collected(stops') /\ Finishes(stops, stops') /\ Len(stops') = Len(stops)
    BY GoesKeeps DEF RouteInv, Goes
  <1>2. route = "none" => stops' = <<>>
    <2> SUFFICES ASSUME route = "none" PROVE stops' = <<>>
      OBVIOUS
    <2>1. Len(stops') = 0
      BY <1>1 DEF RouteInv
    <2> QED
      BY <2>1 DEF IsRoute, IsSeq
  <1>3. RouteEndsWithItsStops'
    BY DEF RouteInv, RouteEndsWithItsStops
  <1>4. counting' # NotCounting => counting'.stop \in Rows'
    BY <1>1 DEF RouteInv, Rows
  <1> QED
    BY <1>1, <1>2, <1>3, <1>4 DEF Good, RouteInv, LegalMoves

(* A step that ends stops and closes the route when none is left.          *)
LEMMA EndsStops ==
  ASSUME RouteInv, Live(stops) # {}, NEW ss, Live(ss) \subseteq Live(stops),
         route' = RouteAfter(ss), IsRoute(stops'), Live(stops') = Live(ss),
         Collected(stops'), Finishes(stops, stops'), Len(stops') = Len(stops),
         LegalMoves(status, status'), counting' = counting
  PROVE  Good
  <1>1. route = "active"
    <2>1. route # "none"
      <3> SUFFICES ASSUME route = "none" PROVE FALSE
        OBVIOUS
      <3>1. Len(stops) = 0
        BY DEF RouteInv
      <3> QED
        BY <3>1 DEF Live
    <2> QED
      BY <2>1 DEF RouteInv, RouteEndsWithItsStops
  <1>2. route' \in {"active", "completed"} /\ RouteEndsWithItsStops'
    BY <1>1 DEF RouteAfter, RouteEndsWithItsStops
  <1>3. counting' # NotCounting => counting'.stop \in Rows'
    BY DEF RouteInv, Rows
  <1> QED
    BY <1>2, <1>3 DEF Good, RouteInv, LegalMoves

LEMMA AcceptIsGood == ASSUME RouteInv, Accept PROVE Good
  <1> DEFINE offered == {o \in Orders : status[o] = "assigned"}
  <1>0. PICK n \in 1..2 * Cardinality(offered) : \E vs \in [1..n -> Visit(offered)] :
           /\ IsPlan(vs, offered)
           /\ stops' = Promote(StopsFromPlan(vs)) \/ stops' = Promote(StopsUnplanned(vs))
    BY DEF Accept
  <1>1. PICK vs \in [1..n -> Visit(offered)] :
           /\ IsPlan(vs, offered)
           /\ stops' = Promote(StopsFromPlan(vs)) \/ stops' = Promote(StopsUnplanned(vs))
    BY <1>0
  <1>2. n \in Nat /\ n > 0
    OBVIOUS
  <1>3. PICK c, ss : ss = [i \in DOMAIN vs |-> StopOf(vs[i], c[i])] /\ stops' = Promote(ss)
    <2>1. CASE stops' = Promote(StopsFromPlan(vs))
      <3> DEFINE c == [i \in DOMAIN vs |-> PlannedCount(vs[i].orders)]
      <3>1. StopsFromPlan(vs) = [i \in DOMAIN vs |-> StopOf(vs[i], c[i])]
        BY DEF StopsFromPlan
      <3> QED
        BY <2>1, <3>1
    <2>2. CASE stops' = Promote(StopsUnplanned(vs))
      <3> DEFINE c == [i \in DOMAIN vs |-> UnplannedCount(vs[i].orders)]
      <3>1. StopsUnplanned(vs) = [i \in DOMAIN vs |-> StopOf(vs[i], c[i])]
        BY DEF StopsUnplanned
      <3> QED
        BY <2>2, <3>1
    <2> QED
      BY <1>1, <2>1, <2>2
  <1>4. offered \in SUBSET Orders
    OBVIOUS
  <1> HIDE DEF offered
  <1>5. IsRoute(ss) /\ Collected(ss) /\ Live(ss) # {}
    BY <1>1, <1>2, <1>3, <1>4, BuiltRoute
  <1>6. IsRoute(stops') /\ Collected(stops') /\ Live(stops') # {}
    BY <1>3, <1>5, PromoteKeeps, PromoteGoes, GoesKeeps
  <1>7. stops = <<>> /\ counting = NotCounting
    <2>1. stops = <<>>
      BY DEF Accept, RouteInv
    <2> QED
      BY <2>1 DEF RouteInv, Rows
  <1>8. Finishes(stops, stops')
    <2>1. Len(stops) = 0 /\ Len(stops') \in Nat
      BY <1>6, <1>7, SeqFacts DEF IsRoute
    <2> QED
      BY <2>1 DEF Finishes
  <1>9. route' = "active" /\ counting' = counting /\ status' = Advance(status, offered, "en_route_pickup")
    BY DEF Accept, offered
  <1>10. LegalMoves(status, status')
    <2>1. status \in [Orders -> OrderStatus] /\ "en_route_pickup" \in OrderStatus
      BY DEF RouteInv, OrderStatus
    <2>2. /\ status' \in [Orders -> OrderStatus]
          /\ \A o \in Orders : status'[o] = status[o] \/ status'[o] \in allowed_next(status[o])
      BY <1>9, <2>1, AdvanceMoves
    <2> QED
      BY <2>2, TableMovesAreLegal DEF LegalMoves
  <1> QED
    BY <1>6, <1>7, <1>8, <1>9, <1>10 DEF Good, RouteInv, RouteEndsWithItsStops, LegalMoves

LEMMA ArriveIsGood == ASSUME RouteInv, NEW i \in Rows, Arrive(i) PROVE Good
  <1>1. IsRoute(stops) /\ i \in Live(stops) /\ i \in 1..Len(stops)
    BY DEF RouteInv, Arrive, Live, Rows
  <1>2. stops' = WithStatus(stops, i, "arrived")
    BY DEF Arrive, WithStatus
  <1>3. IsRoute(stops') /\ Goes(stops, stops', {}) /\ Live(stops') = Live(stops)
    BY <1>1, <1>2, StatusSet, StatusGoes
  <1>4. route' = route /\ counting' = counting /\ LegalMoves(status, status')
    BY DEF Arrive, RouteInv, LegalMoves
  <1> QED
    BY <1>3, <1>4, ServesOn

LEMMA ScanIsGood == ASSUME RouteInv, NEW i \in Rows, NEW o \in Orders, ScanParcel(i, o) PROVE Good
  <1>1. IsRoute(stops) /\ i \in 1..Len(stops)
    BY DEF RouteInv, Rows
  <1>2. PICK n : stops' = WithScanned(stops, i, n)
    BY DEF ScanParcel, WithScanned
  <1>3. IsRoute(stops') /\ Goes(stops, stops', {}) /\ Live(stops') = Live(stops)
    BY <1>1, <1>2, ScannedSet, ScannedGoes
  <1>4. route' = route /\ counting' = counting /\ LegalMoves(status, status')
    BY DEF ScanParcel, RouteInv, LegalMoves
  <1> QED
    BY <1>3, <1>4, ServesOn

LEMMA CountIsGood == ASSUME RouteInv, CountWrite PROVE Good
  <1>1. IsRoute(stops) /\ counting.stop \in 1..Len(stops)
    BY DEF RouteInv, Rows, CountWrite
  <1>2. stops' = WithScanned(stops, counting.stop, counting.count)
    BY DEF CountWrite, WithScanned
  <1>3. IsRoute(stops') /\ Goes(stops, stops', {}) /\ Live(stops') = Live(stops)
    BY <1>1, <1>2, ScannedSet, ScannedGoes
  <1>4. route' = route /\ counting' = NotCounting /\ LegalMoves(status, status')
    BY DEF CountWrite, RouteInv, LegalMoves
  <1> QED
    BY <1>3, <1>4, ServesOn

LEMMA CompleteIsGood == ASSUME RouteInv, NEW i \in Rows, Complete(i) PROVE Good
  <1>1. /\ IsRoute(stops) /\ i \in Live(stops) /\ i \in 1..Len(stops)
        /\ stops[i].type = "dropoff" => ~PickupPending(i)
    BY DEF RouteInv, Complete, CanComplete, Live, Rows, FINISHED
  <1>2. stops' = WithStatus(stops, i, "completed")
    BY DEF Complete, WithStatus
  <1>3. IsRoute(stops') /\ Len(stops') = Len(stops)
    BY <1>1, <1>2, StatusSet DEF FINISHED, SameShape
  <1>4. Collected(stops') /\ Finishes(stops, stops') /\ Live(stops') = Live(stops) \ {i}
    BY <1>1, <1>2, CompleteKeeps DEF RouteInv, PickupPending
  <1>5. LegalMoves(status, status')
    <2>1. PICK new \in {"delivered", "picked_up"} : status' = Advance(status, stops[i].orders, new)
      BY DEF Complete
    <2>2. new \in OrderStatus /\ status \in [Orders -> OrderStatus]
      BY DEF OrderStatus, RouteInv
    <2> QED
      BY <2>1, <2>2, AdvanceMoves, TableMovesAreLegal DEF LegalMoves
  <1>6. route' = RouteAfter(stops') /\ counting' = counting
    BY DEF Complete
  <1> QED
    BY <1>1, <1>3, <1>4, <1>5, <1>6, EndsStops

LEMMA FlagIsGood == ASSUME RouteInv, NEW i \in Rows, Flag(i) PROVE Good
  <1> DEFINE left == TakeOff(WithStatus(stops, i, "failed"), stops[i].orders, OtherStops(i))
             st == Advance(status, stops[i].orders, "delivery_failed")
  <1>1. IsRoute(stops) /\ i \in Live(stops)
    BY DEF RouteInv, Flag, Live, Rows
  <1>2. /\ stops' = Promote(left) /\ status' = PromoteOrders(left, st)
        /\ route' = RouteAfter(left) /\ counting' = counting
    BY DEF Flag, WithStatus
  <1>3. IsRoute(left) /\ Goes(stops, left, stops[i].orders)
    BY <1>1, FlagGoes DEF OtherStops
  <1> HIDE DEF left
  <1>4. Collected(left) /\ Finishes(stops, left) /\ Live(left) \subseteq Live(stops)
        /\ Len(left) = Len(stops)
    BY <1>1, <1>3, GoesKeeps DEF RouteInv
  <1>5. /\ IsRoute(stops') /\ Live(stops') = Live(left) /\ Len(stops') = Len(left)
        /\ Collected(stops') /\ Finishes(left, stops')
    BY <1>2, <1>3, <1>4, PromoteKeeps, PromoteGoes, GoesKeeps
  <1>6. Finishes(stops, stops')
    BY <1>4, <1>5 DEF Finishes
  <1>7. LegalMoves(status, status')
    <2>1. status \in [Orders -> OrderStatus] /\ "delivery_failed" \in OrderStatus
      BY DEF RouteInv, OrderStatus
    <2>2. /\ st \in [Orders -> OrderStatus]
          /\ \A o \in Orders : \/ st[o] = status[o]
                               \/ st[o] = "delivery_failed" /\ "delivery_failed" \in allowed_next(status[o])
      BY <2>1, AdvanceMoves
    <2> HIDE DEF st
    <2> QED
      BY <1>2, <2>1, <2>2, EndAndPromote
  <1> QED
    BY <1>1, <1>2, <1>4, <1>5, <1>6, <1>7, EndsStops

LEMMA CancelIsGood == ASSUME RouteInv, NEW o \in Orders, Cancel(o) PROVE Good
  <1> DEFINE others == OrderStops(o) \cap Live(stops)
             left == TakeOff(stops, {o}, others)
             st == [status EXCEPT ![o] = "cancelled"]
  <1>1. IsRoute(stops) /\ Live(stops) # {}
    BY DEF RouteInv, Cancel
  <1>2. /\ stops' = Promote(left) /\ status' = PromoteOrders(left, st)
        /\ route' = RouteAfter(left) /\ counting' = counting
    BY DEF Cancel
  <1>3. others = {k \in Live(stops) : stops[k].orders \cap {o} # {}}
    BY DEF OrderStops, Live, Rows
  <1> HIDE DEF others
  <1>4. IsRoute(left) /\ Goes(stops, left, {o})
    BY <1>1, <1>3, TakeOffStops, TakeOffGoes
  <1> HIDE DEF left
  <1>5. Collected(left) /\ Finishes(stops, left) /\ Live(left) \subseteq Live(stops)
        /\ Len(left) = Len(stops)
    BY <1>1, <1>4, GoesKeeps DEF RouteInv
  <1>6. /\ IsRoute(stops') /\ Live(stops') = Live(left) /\ Len(stops') = Len(left)
        /\ Collected(stops') /\ Finishes(left, stops')
    BY <1>2, <1>4, <1>5, PromoteKeeps, PromoteGoes, GoesKeeps
  <1>7. Finishes(stops, stops')
    BY <1>5, <1>6 DEF Finishes
  <1>8. LegalMoves(status, status')
    <2>1. status \in [Orders -> OrderStatus] /\ "cancelled" \in OrderStatus
      BY DEF RouteInv, OrderStatus
    <2>2. "cancelled" \in allowed_next(status[o])
      BY DEF Cancel, allowed_next, TERMINAL, AlwaysAvailable
    <2>3. /\ st \in [Orders -> OrderStatus]
          /\ \A p \in Orders : \/ st[p] = status[p]
                               \/ st[p] = "cancelled" /\ "cancelled" \in allowed_next(status[p])
      BY <2>1, <2>2
    <2> HIDE DEF st
    <2> QED
      BY <1>2, <2>1, <2>3, EndAndPromote
  <1> QED
    BY <1>1, <1>2, <1>5, <1>6, <1>7, <1>8, EndsStops

LEMMA InsertIsGood == ASSUME RouteInv, NEW o \in Orders, Insert(o) PROVE Good
  <1> DEFINE a == NewStop("pickup", {o}, 1)
             b == NewStop("dropoff", {o}, 1)
  <1>1. IsRoute(stops) /\ IsSeq(stops) /\ Collected(stops) /\ Len(stops) \in Nat
    BY SeqFacts DEF RouteInv, IsRoute
  <1>2. stops' = WithTwo(stops, a, b)
    BY DEF Insert, WithTwo
  <1>3. /\ IsSeq(stops') /\ Len(stops') = Len(stops) + 2
        /\ \A i \in 1..Len(stops) : stops'[i] = stops[i]
        /\ stops'[Len(stops) + 1] = a /\ stops'[Len(stops) + 2] = b
    BY <1>1, <1>2, TwoMore
  <1>4. IsRoute(stops') /\ Collected(stops') /\ Finishes(stops, stops') /\ Live(stops') # {}
    BY <1>1, <1>3, InsertKeeps
  <1>5. LegalMoves(status, status')
    <2>1. "assigned" \in allowed_next(status[o]) /\ "assigned" \in OrderStatus
      BY DEF Insert, allowed_next, TERMINAL, Forward, OrderStatus
    <2>2. Lifecycle!LegalMove(status[o], "assigned")
      BY <2>1, TableMovesAreLegal
    <2> QED
      BY <2>1, <2>2 DEF Insert, RouteInv, LegalMoves
  <1>6. counting' # NotCounting => counting'.stop \in Rows'
    BY <1>1, <1>3 DEF Insert, RouteInv, Rows
  <1>7. route' = "active"
    BY DEF Insert
  <1> QED
    BY <1>4, <1>5, <1>6, <1>7 DEF Good, RouteInv, RouteEndsWithItsStops, LegalMoves

LEMMA PromoteNextIsGood == ASSUME RouteInv, NEW r \in served, PromoteNext(r) PROVE Good
  <1>1. IsRoute(stops) /\ status \in [Orders -> OrderStatus]
    BY DEF RouteInv
  <1>2. stops' = Promote(stops) /\ status' = PromoteOrders(stops, status)
    BY DEF PromoteNext
  <1>3. IsRoute(stops') /\ Goes(stops, stops', {}) /\ Live(stops') = Live(stops)
    BY <1>1, <1>2, PromoteKeeps, PromoteGoes
  <1>4. route' = route /\ counting' = counting
    BY DEF PromoteNext
  <1>5. LegalMoves(status, status')
    BY <1>1, <1>2, PromoteOrdersMoves, TableMovesAreLegal DEF LegalMoves
  <1> QED
    BY <1>3, <1>4, <1>5, ServesOn

LEMMA RedeliverIsGood == ASSUME RouteInv, NEW o \in Orders, Redeliver(o) PROVE Good
  <1>1. /\ UNCHANGED <<route, stops, counting>>
        /\ status' = [status EXCEPT ![o] = "held"] /\ status[o] = "delivery_failed"
    BY DEF Redeliver
  <1>2. LegalMoves(status, status')
    <2>1. "held" \in allowed_next("delivery_failed") /\ "held" \in OrderStatus
      BY DEF allowed_next, TERMINAL, Forward, OrderStatus
    <2>2. Lifecycle!LegalMove("delivery_failed", "held")
      BY <2>1, TableMovesAreLegal
    <2> QED
      BY <1>1, <2>1, <2>2 DEF RouteInv, LegalMoves
  <1>3. Len(stops) \in Nat
    BY SeqFacts DEF RouteInv, IsRoute
  <1>4. RouteInv'
    BY <1>1, <1>2 DEF RouteInv, RouteEndsWithItsStops, Rows, LegalMoves
  <1> QED
    BY <1>1, <1>2, <1>3, <1>4 DEF Good, Finishes

LEMMA StepIsGood == RouteInv /\ [Next]_vars => Good
  <1> SUFFICES ASSUME RouteInv, [Next]_vars PROVE Good
    OBVIOUS
  <1>1. CASE Accept
    BY <1>1, AcceptIsGood
  <1>2. CASE \E i \in Rows : Arrive(i) \/ Complete(i) \/ Flag(i)
    BY <1>2, ArriveIsGood, CompleteIsGood, FlagIsGood
  <1>3. CASE \E i \in Rows, o \in Orders : ScanParcel(i, o)
    BY <1>3, ScanIsGood
  <1>4. CASE \E i \in Rows : CountRead(i)
    <2>1. UNCHANGED <<status, route, stops>> /\ counting'.stop \in Rows
      BY <1>4 DEF CountRead
    <2> QED
      BY <2>1, NothingMoved
  <1>5. CASE CountWrite
    BY <1>5, CountIsGood
  <1>6. CASE \E r \in served : PayOut(r) \/ LoadRead(r) \/ LoadWrite(r) \/ Dies(r)
    <2>1. UNCHANGED <<status, route, stops, counting>>
      BY <1>6 DEF PayOut, LoadRead, LoadWrite, Dies
    <2> QED
      BY <2>1, NothingMoved DEF RouteInv
  <1>7. CASE \E r \in served : PromoteNext(r)
    BY <1>7, PromoteNextIsGood
  <1>8. CASE \E o \in Orders : Cancel(o) \/ Insert(o) \/ Redeliver(o)
    BY <1>8, CancelIsGood, InsertIsGood, RedeliverIsGood
  <1>9. CASE UNCHANGED vars
    <2>1. UNCHANGED <<status, route, stops, counting>>
      BY <1>9 DEF vars
    <2> QED
      BY <2>1, NothingMoved DEF RouteInv
  <1> QED
    BY <1>1, <1>2, <1>3, <1>4, <1>5, <1>6, <1>7, <1>8, <1>9 DEF Next

LEMMA InitIsGood == Init => RouteInv
  <1> SUFFICES ASSUME Init PROVE RouteInv
    OBVIOUS
  <1>1. status \in [Orders -> OrderStatus]
    BY DEF Init, OrderStatus
  <1>2. stops = <<>> /\ Len(stops) = 0 /\ IsSeq(stops)
    BY DEF Init, IsSeq
  <1>3. IsRoute(stops) /\ Collected(stops)
    BY <1>2 DEF IsRoute, Collected
  <1> QED
    BY <1>1, <1>2, <1>3 DEF Init, RouteInv, RouteEndsWithItsStops

LEMMA RouteInvHolds == Spec => []RouteInv
  <1>1. RouteInv /\ [Next]_vars => RouteInv'
    BY StepIsGood DEF Good
  <1> QED
    BY <1>1, InitIsGood, PTL DEF Spec

-----------------------------------------------------------------------------
(* An order's attempts.  An order is collected and dropped again and again   *)
(* when its delivery fails, and each attempt is a pickup and a drop-off of   *)
(* its own: the stops still to be done are the last attempt's.               *)

\* Only pickups are shared.
SingleDrops(ss) ==
  \A i \in 1..Len(ss) : ss[i].type = "dropoff" => \A o, p \in ss[i].orders : o = p

\* The order's last attempt: its pickup was not given up and its drop-off waits.
LastAttempt(ss, o, j, d) ==
  /\ j < d /\ ss[j].type = "pickup" /\ ss[d].type = "dropoff" /\ d \in Live(ss)
  /\ o \in ss[j].orders /\ o \in ss[d].orders /\ ss[j].status \notin Lost
  /\ \A k \in 1..Len(ss) : j < k /\ o \in ss[k].orders => k = d

OpenAttempts(ss) ==
  \A m \in Live(ss) : \A o \in ss[m].orders : \E j \in 1..Len(ss) : \E d \in 1..Len(ss) :
    LastAttempt(ss, o, j, d) /\ m \in {j, d}

\* The order's next stop after a pickup is the drop-off of that attempt.
DroppedNext(ss, o, k, j) ==
  /\ k < j /\ ss[j].type = "dropoff" /\ o \in ss[j].orders
  /\ \A l \in 1..Len(ss) : k < l /\ l < j => o \notin ss[l].orders

Collects(ss, o, k) == ss[k].type = "pickup" /\ ss[k].status = "completed" /\ o \in ss[k].orders

MadeAttempts(ss) ==
  \A k \in 1..Len(ss) : \A o \in Orders : Collects(ss, o, k) =>
    \E j \in 1..Len(ss) : DroppedNext(ss, o, k, j)

Attempts(ss) == SingleDrops(ss) /\ OpenAttempts(ss) /\ MadeAttempts(ss)

\* A pickup still to be done is its orders' last attempt.
LEMMA LivePickup ==
  ASSUME NEW ss, IsRoute(ss), OpenAttempts(ss), NEW i \in Live(ss), ss[i].type = "pickup",
         NEW o \in ss[i].orders
  PROVE  \E d \in 1..Len(ss) : LastAttempt(ss, o, i, d)
  <1>1. PICK j \in 1..Len(ss) : \E d \in 1..Len(ss) : LastAttempt(ss, o, j, d) /\ i \in {j, d}
    BY DEF OpenAttempts
  <1>2. PICK d \in 1..Len(ss) : LastAttempt(ss, o, j, d) /\ i \in {j, d}
    BY <1>1
  <1>3. i = j
    BY <1>2 DEF LastAttempt
  <1> QED
    BY <1>2, <1>3

LEMMA LiveDrop ==
  ASSUME NEW ss, IsRoute(ss), OpenAttempts(ss), NEW i \in Live(ss), ss[i].type = "dropoff",
         NEW o \in ss[i].orders
  PROVE  \E j \in 1..Len(ss) : LastAttempt(ss, o, j, i)
  <1>1. PICK j \in 1..Len(ss) : \E d \in 1..Len(ss) : LastAttempt(ss, o, j, d) /\ i \in {j, d}
    BY DEF OpenAttempts
  <1>2. PICK d \in 1..Len(ss) : LastAttempt(ss, o, j, d) /\ i \in {j, d}
    BY <1>1
  <1>3. i = d
    BY <1>2 DEF LastAttempt
  <1> QED
    BY <1>2, <1>3

\* Orders that leave all they still had take the rest of their attempt along.
LEMMA GoesKeepsAttempts ==
  ASSUME NEW ss, IsRoute(ss), Attempts(ss), NEW tt, NEW S, Goes(ss, tt, S)
  PROVE  Attempts(tt)
  <1>1. Len(tt) = Len(ss)
    BY DEF Goes
  <1>2. SingleDrops(tt)
    BY <1>1 DEF Attempts, SingleDrops, Goes
  <1>3. ASSUME NEW m \in Live(tt), NEW o \in tt[m].orders
        PROVE  \E j \in 1..Len(tt) : \E d \in 1..Len(tt) : LastAttempt(tt, o, j, d) /\ m \in {j, d}
    <2>1. m \in Live(ss) /\ o \in ss[m].orders /\ o \notin S
      <3>1. m \in 1..Len(ss) /\ tt[m].status \notin FINISHED
        BY <1>1 DEF Live
      <3>2. m \in Live(ss)
        BY <3>1 DEF Goes, Live
      <3> QED
        BY <3>1, <3>2 DEF Goes, Lost, FINISHED
    <2>2. PICK j \in 1..Len(ss) : \E d \in 1..Len(ss) : LastAttempt(ss, o, j, d) /\ m \in {j, d}
      BY <2>1 DEF Attempts, OpenAttempts
    <2>3. PICK d \in 1..Len(ss) : LastAttempt(ss, o, j, d) /\ m \in {j, d}
      BY <2>2
    <2>4. tt[j].type = "pickup" /\ o \in tt[j].orders /\ tt[j].status \notin Lost
      BY <2>1, <2>3 DEF LastAttempt, Goes, Lost, FINISHED
    <2>5. tt[d].type = "dropoff" /\ o \in tt[d].orders /\ d \in Live(tt)
      BY <1>1, <2>1, <2>3 DEF LastAttempt, Goes, Lost, FINISHED, Live
    <2>6. \A k \in 1..Len(ss) : j < k /\ o \in tt[k].orders => k = d
      BY <2>3 DEF LastAttempt, Goes
    <2>7. j < d
      BY <2>3 DEF LastAttempt
    <2>8. LastAttempt(tt, o, j, d)
      BY <1>1, <2>4, <2>5, <2>6, <2>7 DEF LastAttempt
    <2> QED
      BY <1>1, <2>3, <2>8
  <1>4. ASSUME NEW k \in 1..Len(tt), NEW o \in Orders, Collects(tt, o, k)
        PROVE  \E j \in 1..Len(tt) : DroppedNext(tt, o, k, j)
    <2>1. Collects(ss, o, k)
      BY <1>1, <1>4 DEF Collects, Goes, Lost, FINISHED
    <2>2. PICK j \in 1..Len(ss) : DroppedNext(ss, o, k, j)
      BY <1>1, <2>1 DEF Attempts, MadeAttempts
    <2>3. k < j /\ tt[j].type = "dropoff"
      BY <2>2 DEF DroppedNext, Goes
    <2>4. o \in tt[j].orders
      <3>1. o \in ss[j].orders /\ \A p \in ss[j].orders : p = o
        BY <2>2 DEF DroppedNext, Attempts, SingleDrops
      <3>2. CASE j \notin Live(ss)
        BY <3>1, <3>2 DEF Goes
      <3>3. CASE j \in Live(ss) /\ o \notin S
        BY <3>1, <3>3 DEF Goes
      <3>4. CASE j \in Live(ss) /\ o \in S
        <4>1. ss[j].orders \cap S # {} /\ ss[j].orders \ S = {}
          BY <3>1, <3>4
        <4> QED
          BY <3>1, <3>4, <4>1 DEF Goes
      <3> QED
        BY <3>2, <3>3, <3>4
    <2>5. \A l \in 1..Len(ss) : k < l /\ l < j => o \notin tt[l].orders
      BY <2>2 DEF DroppedNext, Goes
    <2> QED
      BY <1>1, <2>3, <2>4, <2>5 DEF DroppedNext
  <1> QED
    BY <1>2, <1>3, <1>4 DEF Attempts, OpenAttempts, MadeAttempts

\* A completion: of a pickup, or of a drop-off no pickup of whose orders waits.
LEMMA CompleteKeepsAttempts ==
  ASSUME NEW ss, IsRoute(ss), Attempts(ss), NEW i \in Live(ss),
         ss[i].type = "dropoff" =>
           ~\E j \in Live(ss) : ss[j].type = "pickup" /\ ss[j].orders \cap ss[i].orders # {}
  PROVE  Attempts(WithStatus(ss, i, "completed"))
  <1> DEFINE tt == WithStatus(ss, i, "completed")
  <1>1. i \in 1..Len(ss) /\ Len(ss) \in Nat
    BY SeqFacts DEF Live, IsRoute
  <1>2. /\ Len(tt) = Len(ss) /\ tt[i].type = ss[i].type
        /\ tt[i].status = "completed" /\ tt[i].orders = ss[i].orders
        /\ \A j \in 1..Len(ss) : j # i => tt[j] = ss[j]
    BY <1>1, StopEnds DEF FINISHED
  <1> HIDE DEF tt
  <1>3. /\ Live(tt) = Live(ss) \ {i}
        /\ \A k \in 1..Len(ss) : tt[k].type = ss[k].type /\ tt[k].orders = ss[k].orders
    BY <1>1, <1>2 DEF Live, FINISHED
  <1>4. SingleDrops(tt)
    BY <1>2, <1>3 DEF Attempts, SingleDrops
  <1>5. ASSUME NEW m \in Live(tt), NEW o \in tt[m].orders
        PROVE  \E j \in 1..Len(tt) : \E d \in 1..Len(tt) : LastAttempt(tt, o, j, d) /\ m \in {j, d}
    <2>1. m \in Live(ss) /\ m # i /\ o \in ss[m].orders
      BY <1>3, <1>5 DEF Live
    <2>2. PICK j \in 1..Len(ss) : \E d \in 1..Len(ss) : LastAttempt(ss, o, j, d) /\ m \in {j, d}
      BY <2>1 DEF Attempts, OpenAttempts
    <2>3. PICK d \in 1..Len(ss) : LastAttempt(ss, o, j, d) /\ m \in {j, d}
      BY <2>2
    <2>4. d # i
      <3> SUFFICES ASSUME d = i PROVE FALSE
        OBVIOUS
      <3>1. m = j /\ ss[m].type = "pickup" /\ ss[i].type = "dropoff" /\ o \in ss[i].orders
        BY <2>1, <2>3 DEF LastAttempt
      <3> QED
        BY <2>1, <3>1
    <2>5. tt[j].status \notin Lost
      BY <1>2, <2>3 DEF LastAttempt, Lost
    <2>6. LastAttempt(tt, o, j, d)
      BY <1>2, <1>3, <2>3, <2>4, <2>5 DEF LastAttempt
    <2> QED
      BY <1>2, <2>3, <2>6
  <1>6. ASSUME NEW k \in 1..Len(tt), NEW o \in Orders, Collects(tt, o, k)
        PROVE  \E j \in 1..Len(tt) : DroppedNext(tt, o, k, j)
    <2>1. PICK j \in 1..Len(ss) : DroppedNext(ss, o, k, j)
      <3>1. CASE k # i
        <4>1. Collects(ss, o, k)
          BY <1>2, <1>6, <3>1 DEF Collects
        <4> QED
          BY <1>2, <4>1 DEF Attempts, MadeAttempts
      <3>2. CASE k = i
        <4>1. ss[i].type = "pickup" /\ o \in ss[i].orders
          BY <1>2, <1>6, <3>2 DEF Collects
        <4>2. PICK d \in 1..Len(ss) : LastAttempt(ss, o, i, d)
          BY <4>1, LivePickup DEF Attempts
        <4>3. DroppedNext(ss, o, i, d)
          BY <4>2 DEF LastAttempt, DroppedNext
        <4> QED
          BY <3>2, <4>3
      <3> QED
        BY <3>1, <3>2
    <2>2. DroppedNext(tt, o, k, j)
      BY <1>2, <1>3, <2>1 DEF DroppedNext
    <2> QED
      BY <1>2, <2>2
  <1> QED
    BY <1>4, <1>5, <1>6 DEF Attempts, OpenAttempts, MadeAttempts, tt

\* An insertion, of an order that has nothing to be done: a new attempt.
LEMMA InsertKeepsAttempts ==
  ASSUME NEW ss, IsRoute(ss), Attempts(ss), NEW o \in Orders, NEW tt,
         \A m \in Live(ss) : o \notin ss[m].orders,
         Len(tt) = Len(ss) + 2, \A i \in 1..Len(ss) : tt[i] = ss[i],
         tt[Len(ss) + 1] = NewStop("pickup", {o}, 1), tt[Len(ss) + 2] = NewStop("dropoff", {o}, 1)
  PROVE  Attempts(tt)
  <1> DEFINE n == Len(ss)
  <1>1. n \in Nat
    BY SeqFacts DEF IsRoute
  <1>2. /\ tt[n + 1].type = "pickup" /\ tt[n + 1].orders = {o} /\ tt[n + 1].status = "pending"
        /\ tt[n + 2].type = "dropoff" /\ tt[n + 2].orders = {o} /\ tt[n + 2].status = "pending"
    BY DEF NewStop
  <1>3. Len(tt) = n + 2 /\ \A i \in 1..n : tt[i] = ss[i]
    OBVIOUS
  <1>4. \A i \in 1..(n + 2) : i \in 1..n \/ i = n + 1 \/ i = n + 2
    BY <1>1
  <1>5. /\ Live(tt) = Live(ss) \cup {n + 1, n + 2}
        /\ n + 1 \in 1..(n + 2) /\ n + 2 \in 1..(n + 2) /\ \A i \in 1..n : i \in 1..(n + 2) /\ i < n + 1
    <2> HIDE DEF n
    <2>1. n + 1 \in 1..(n + 2) /\ n + 2 \in 1..(n + 2) /\ \A i \in 1..n : i \in 1..(n + 2) /\ i < n + 1
      BY <1>1
    <2> QED
      BY <1>2, <1>3, <1>4, <2>1 DEF Live, FINISHED, n
  <1>6. Live(ss) \subseteq 1..n
    BY DEF Live
  <1> HIDE DEF n
  <1>7. SingleDrops(tt)
    <2> SUFFICES ASSUME NEW i \in 1..(n + 2), tt[i].type = "dropoff", NEW p \in tt[i].orders,
                        NEW q \in tt[i].orders
                 PROVE  p = q
      BY <1>3 DEF SingleDrops
    <2>1. CASE i \in 1..n
      BY <1>3, <2>1 DEF Attempts, SingleDrops, n
    <2> QED
      BY <1>2, <1>4, <2>1
  <1>8. ASSUME NEW m \in Live(tt), NEW p \in tt[m].orders
        PROVE  \E j \in 1..Len(tt) : \E d \in 1..Len(tt) : LastAttempt(tt, p, j, d) /\ m \in {j, d}
    <2>1. CASE m \in Live(ss)
      <3>1. p \in ss[m].orders /\ p # o
        BY <1>3, <1>6, <2>1
      <3>2. PICK j \in 1..n : \E d \in 1..n : LastAttempt(ss, p, j, d) /\ m \in {j, d}
        BY <2>1, <3>1 DEF Attempts, OpenAttempts, n
      <3>3. PICK d \in 1..n : LastAttempt(ss, p, j, d) /\ m \in {j, d}
        BY <3>2
      <3>4. \A k \in 1..(n + 2) : j < k /\ p \in tt[k].orders => k = d
        BY <1>2, <1>3, <1>4, <3>1, <3>3 DEF LastAttempt, n
      <3>5. LastAttempt(tt, p, j, d)
        BY <1>3, <1>5, <3>3, <3>4 DEF LastAttempt
      <3> QED
        BY <1>3, <1>5, <3>3, <3>5
    <2>2. CASE m \in {n + 1, n + 2}
      <3>1. p = o
        BY <1>2, <2>2
      <3>2. \A k \in 1..(n + 2) : n + 1 < k => k = n + 2
        BY <1>1
      <3>3. n + 1 < n + 2
        BY <1>1
      <3>4. LastAttempt(tt, o, n + 1, n + 2)
        BY <1>2, <1>3, <1>5, <3>2, <3>3 DEF LastAttempt, Lost
      <3> QED
        BY <1>3, <1>5, <2>2, <3>1, <3>4
    <2> QED
      BY <1>5, <2>1, <2>2
  <1>9. ASSUME NEW k \in 1..Len(tt), NEW p \in Orders, Collects(tt, p, k)
        PROVE  \E j \in 1..Len(tt) : DroppedNext(tt, p, k, j)
    <2>1. k \in 1..n /\ Collects(ss, p, k)
      BY <1>2, <1>3, <1>4, <1>9 DEF Collects
    <2>2. PICK j \in 1..n : DroppedNext(ss, p, k, j)
      BY <2>1 DEF Attempts, MadeAttempts, n
    <2>3. \A l \in 1..(n + 2) : k < l /\ l < j => l \in 1..n
      BY <1>1, <2>1
    <2>4. DroppedNext(tt, p, k, j)
      BY <1>3, <2>2, <2>3 DEF DroppedNext, n
    <2> QED
      BY <1>3, <1>5, <2>4
  <1> QED
    BY <1>7, <1>8, <1>9 DEF Attempts, OpenAttempts, MadeAttempts

\* A new route: one attempt for every order.
LEMMA PlanAttempts ==
  ASSUME NEW n \in Nat, NEW S, NEW vs \in [1..n -> Visit(S)], IsPlan(vs, S),
         NEW tt, Len(tt) = n,
         \A i \in 1..n : /\ tt[i].type = vs[i].type /\ tt[i].orders = vs[i].orders
                         /\ tt[i].status = "pending"
  PROVE  Attempts(tt)
  <1>1. DOMAIN vs = 1..n /\ \A i \in 1..n : vs[i] \in Visit(S)
    OBVIOUS
  <1>2. SingleDrops(tt)
    <2> SUFFICES ASSUME NEW i \in 1..n, tt[i].type = "dropoff", NEW o \in tt[i].orders,
                        NEW p \in tt[i].orders
                 PROVE  o = p
      BY DEF SingleDrops
    <2> QED
      BY <1>1 DEF IsPlan
  <1>3. MadeAttempts(tt)
    BY DEF MadeAttempts, Collects
  <1>4. ASSUME NEW m \in Live(tt), NEW o \in tt[m].orders
        PROVE  \E j \in 1..n : \E d \in 1..n : LastAttempt(tt, o, j, d) /\ m \in {j, d}
    <2>1. m \in 1..n /\ o \in vs[m].orders /\ o \in S
      BY <1>1 DEF Live, Visit
    <2>2. PICK j \in 1..n : \E d \in 1..n :
             /\ j < d /\ vs[j].type = "pickup" /\ vs[d].type = "dropoff"
             /\ \A k \in 1..n : o \in vs[k].orders <=> k \in {j, d}
      BY <1>1, <2>1 DEF IsPlan
    <2>3. PICK d \in 1..n :
             /\ j < d /\ vs[j].type = "pickup" /\ vs[d].type = "dropoff"
             /\ \A k \in 1..n : o \in vs[k].orders <=> k \in {j, d}
      BY <2>2
    <2>4. LastAttempt(tt, o, j, d)
      BY <2>3 DEF LastAttempt, Live, FINISHED, Lost
    <2> QED
      BY <2>1, <2>3, <2>4
  <1> QED
    BY <1>2, <1>3, <1>4 DEF Attempts, OpenAttempts

-----------------------------------------------------------------------------
(* What is in the van.                                                      *)

\* The order was collected at stop i and no drop-off of it has ended since.
Carries(ss, o, i) ==
  /\ Collects(ss, o, i)
  /\ \A j \in 1..Len(ss) : i < j /\ ss[j].type = "dropoff" /\ o \in ss[j].orders =>
       ss[j].status \notin FINISHED

InVan(ss) == {o \in Orders : \E i \in 1..Len(ss) : Carries(ss, o, i)}

LEMMA AboardIsInVan ==
  ASSUME IsRoute(stops)
  PROVE  Aboard = InVan(stops)
  <1>1. Len(stops) \in Nat
    BY SeqFacts DEF IsRoute
  <1>2. ASSUME NEW o, NEW i \in Rows
        PROVE  Carries(stops, o, i) <=>
                 /\ stops[i].type = "pickup" /\ stops[i].status = "completed" /\ o \in stops[i].orders
                 /\ \A j \in (i + 1)..Len(stops) :
                      stops[j].type = "dropoff" /\ o \in stops[j].orders => stops[j].status \notin FINISHED
    <2>1. i \in Nat /\ i > 0 /\ \A j : j \in (i + 1)..Len(stops) <=> j \in 1..Len(stops) /\ i < j
      BY <1>1 DEF Rows
    <2> QED
      BY <2>1 DEF Carries, Collects
  <1> QED
    BY <1>2 DEF Aboard, InVan, Rows

\* Orders that come off their stops leave the van at most; no other order does.
LEMMA GoesVan ==
  ASSUME NEW ss, IsRoute(ss), NEW tt, NEW S, Goes(ss, tt, S)
  PROVE  InVan(tt) \subseteq InVan(ss) /\ InVan(ss) \ S \subseteq InVan(tt)
  <1>1. Len(tt) = Len(ss)
    BY DEF Goes
  <1>2. ASSUME NEW o \in Orders, NEW i \in 1..Len(ss), Carries(tt, o, i)
        PROVE  Carries(ss, o, i)
    <2>1. Collects(ss, o, i)
      BY <1>1, <1>2 DEF Carries, Collects, Goes, Lost, FINISHED
    <2>2. ASSUME NEW j \in 1..Len(ss), i < j, ss[j].type = "dropoff", o \in ss[j].orders,
                 ss[j].status \in FINISHED
          PROVE  FALSE
      <3>1. tt[j].type = "dropoff" /\ o \in tt[j].orders /\ tt[j].status \in FINISHED
        BY <2>2 DEF Goes, Live
      <3> QED
        BY <1>1, <1>2, <2>2, <3>1 DEF Carries
    <2> QED
      BY <2>1, <2>2 DEF Carries
  <1>3. ASSUME NEW o \in Orders, o \notin S, NEW i \in 1..Len(ss), Carries(ss, o, i)
        PROVE  Carries(tt, o, i)
    <2>1. Collects(tt, o, i)
      BY <1>3 DEF Carries, Collects, Goes, Live, FINISHED
    <2>2. ASSUME NEW j \in 1..Len(ss), i < j, tt[j].type = "dropoff", o \in tt[j].orders,
                 tt[j].status \in FINISHED
          PROVE  FALSE
      <3>1. ss[j].type = "dropoff" /\ o \in ss[j].orders /\ ss[j].status \in FINISHED
        BY <1>3, <2>2 DEF Goes, Live, Lost, FINISHED
      <3> QED
        BY <1>3, <2>2, <3>1 DEF Carries
    <2> QED
      BY <1>1, <2>1, <2>2 DEF Carries
  <1> QED
    BY <1>1, <1>2, <1>3 DEF InVan

\* An order still to be collected is not in the van.
LEMMA ToCollectNotInVan ==
  ASSUME NEW ss, IsRoute(ss), Attempts(ss), NEW i \in Live(ss), ss[i].type = "pickup",
         NEW o \in ss[i].orders
  PROVE  o \notin InVan(ss)
  <1>1. Len(ss) \in Nat /\ i \in 1..Len(ss)
    BY SeqFacts DEF IsRoute, Live
  <1>2. PICK d \in 1..Len(ss) : LastAttempt(ss, o, i, d)
    BY LivePickup DEF Attempts
  <1> SUFFICES ASSUME NEW k \in 1..Len(ss), Carries(ss, o, k), o \in Orders PROVE FALSE
    BY DEF InVan
  <1>3. Collects(ss, o, k) /\ k # i
    BY DEF Carries, Collects, Live, FINISHED
  <1>4. k < i
    <2>1. k # d /\ (i < k => k = d)
      BY <1>2, <1>3 DEF LastAttempt, Collects
    <2> QED
      BY <1>1, <1>3, <2>1
  <1>5. PICK j \in 1..Len(ss) : DroppedNext(ss, o, k, j)
    BY <1>3 DEF Attempts, MadeAttempts
  <1>6. j < i /\ ss[j].type = "dropoff" /\ o \in ss[j].orders /\ k < j
    <2>1. ss[j].type = "dropoff" /\ j # i /\ ~(i < j) /\ k < j /\ o \in ss[j].orders
      BY <1>1, <1>4, <1>5 DEF DroppedNext
    <2> QED
      BY <1>1, <2>1
  <1>7. j \in Live(ss)
    BY <1>6 DEF Carries, Live
  <1>8. PICK e \in 1..Len(ss) : LastAttempt(ss, o, e, j)
    BY <1>6, <1>7, LiveDrop DEF Attempts
  <1>9. e < j /\ (e < i => i = j)
    BY <1>1, <1>8 DEF LastAttempt
  <1> QED
    BY <1>1, <1>6, <1>9

\* An order whose drop-off waits and whose pickup does not is in the van.
LEMMA CollectedInVan ==
  ASSUME NEW ss, IsRoute(ss), Attempts(ss), NEW i \in Live(ss), ss[i].type = "dropoff",
         NEW o \in ss[i].orders, o \in Orders,
         ~\E j \in Live(ss) : ss[j].type = "pickup" /\ ss[j].orders \cap ss[i].orders # {}
  PROVE  o \in InVan(ss)
  <1>1. PICK j \in 1..Len(ss) : LastAttempt(ss, o, j, i)
    BY LiveDrop DEF Attempts
  <1>2. Collects(ss, o, j)
    <2>1. j \notin Live(ss) /\ ss[j].status \notin Lost /\ ss[j].type = "pickup" /\ o \in ss[j].orders
      BY <1>1 DEF LastAttempt
    <2> QED
      BY <2>1 DEF Live, FINISHED, Lost, Collects
  <1>3. Carries(ss, o, j)
    BY <1>1, <1>2 DEF Carries, LastAttempt, Live
  <1> QED
    BY <1>3 DEF InVan

\* An order whose last drop-off has ended is not.
LEMMA EndedNotInVan ==
  ASSUME NEW ss, IsRoute(ss), Attempts(ss), NEW i \in Live(ss), ss[i].type = "dropoff",
         NEW o \in ss[i].orders, NEW tt, Len(tt) = Len(ss),
         tt[i].type = "dropoff", o \in tt[i].orders, tt[i].status \in FINISHED,
         \A k \in 1..Len(ss) : Collects(tt, o, k) => Collects(ss, o, k)
  PROVE  o \notin InVan(tt)
  <1>1. Len(ss) \in Nat /\ i \in 1..Len(ss)
    BY SeqFacts DEF IsRoute, Live
  <1>2. PICK j \in 1..Len(ss) : LastAttempt(ss, o, j, i)
    BY LiveDrop DEF Attempts
  <1> SUFFICES ASSUME NEW k \in 1..Len(ss), Carries(tt, o, k) PROVE FALSE
    BY DEF InVan
  <1>3. Collects(ss, o, k)
    BY DEF Carries
  <1>4. j < i /\ k # i /\ (j < k => k = i)
    BY <1>2, <1>3 DEF LastAttempt, Collects
  <1>5. k < i
    BY <1>1, <1>4
  <1> QED
    BY <1>1, <1>5 DEF Carries

\* What a completion does to the van.
LEMMA CompleteVan ==
  ASSUME NEW ss, IsRoute(ss), Attempts(ss), NEW i \in Live(ss),
         ss[i].type = "dropoff" =>
           ~\E j \in Live(ss) : ss[j].type = "pickup" /\ ss[j].orders \cap ss[i].orders # {}
  PROVE  /\ ss[i].type = "pickup" =>
              /\ ss[i].orders \cap InVan(ss) = {}
              /\ InVan(WithStatus(ss, i, "completed")) = InVan(ss) \cup ss[i].orders
         /\ ss[i].type = "dropoff" =>
              /\ ss[i].orders \subseteq InVan(ss)
              /\ InVan(WithStatus(ss, i, "completed")) = InVan(ss) \ ss[i].orders
  <1> DEFINE tt == WithStatus(ss, i, "completed")
             X == ss[i].orders
  <1>1. i \in 1..Len(ss) /\ Len(ss) \in Nat /\ X \subseteq Orders /\ ss[i].type \in {"pickup", "dropoff"}
    <2>1. i \in 1..Len(ss) /\ Len(ss) \in Nat
      BY SeqFacts DEF Live, IsRoute
    <2>2. IsStop(ss[i])
      BY <2>1 DEF IsRoute
    <2> QED
      BY <2>1, <2>2 DEF IsStop
  <1>2. /\ Len(tt) = Len(ss) /\ tt[i].type = ss[i].type
        /\ tt[i].status = "completed" /\ tt[i].orders = ss[i].orders
        /\ \A j \in 1..Len(ss) : j # i => tt[j] = ss[j]
    BY <1>1, StopEnds DEF FINISHED
  <1> HIDE DEF tt
  <1>3. ASSUME NEW o \in Orders, o \notin X, NEW k \in 1..Len(ss)
        PROVE  Carries(tt, o, k) <=> Carries(ss, o, k)
    BY <1>1, <1>2, <1>3 DEF Carries, Collects
  <1>4. \A o \in Orders : o \notin X => (o \in InVan(tt) <=> o \in InVan(ss))
    BY <1>2, <1>3 DEF InVan
  <1>5. CASE ss[i].type = "pickup"
    <2>1. \A o \in X : o \notin InVan(ss)
      BY <1>5, ToCollectNotInVan
    <2>2. ASSUME NEW o \in X PROVE o \in InVan(tt)
      <3>1. PICK d \in 1..Len(ss) : LastAttempt(ss, o, i, d)
        BY <1>5, LivePickup DEF Attempts
      <3>2. Collects(tt, o, i)
        BY <1>2, <1>5 DEF Collects
      <3>3. Carries(tt, o, i)
        BY <1>1, <1>2, <1>5, <3>1, <3>2 DEF Carries, LastAttempt, Live
      <3> QED
        BY <1>1, <1>2, <3>3 DEF InVan
    <2>3. InVan(tt) \subseteq Orders /\ InVan(ss) \subseteq Orders
      BY DEF InVan
    <2> QED
      BY <1>1, <1>4, <1>5, <2>1, <2>2, <2>3 DEF tt
  <1>6. CASE ss[i].type = "dropoff"
    <2>1. \A o \in X : o \in InVan(ss)
      BY <1>1, <1>6, CollectedInVan
    <2>2. ASSUME NEW o \in X PROVE o \notin InVan(tt)
      <3>1. \A k \in 1..Len(ss) : Collects(tt, o, k) => Collects(ss, o, k)
        BY <1>2, <1>6 DEF Collects
      <3>2. tt[i].type = "dropoff" /\ o \in tt[i].orders /\ tt[i].status \in FINISHED
        BY <1>2, <1>6 DEF FINISHED
      <3> QED
        BY <1>2, <1>6, <3>1, <3>2, EndedNotInVan
    <2>3. InVan(tt) \subseteq Orders /\ InVan(ss) \subseteq Orders
      BY DEF InVan
    <2> QED
      BY <1>1, <1>4, <1>6, <2>1, <2>2, <2>3 DEF tt
  <1> QED
    BY <1>1, <1>5, <1>6

\* An insertion puts nothing in the van and takes nothing out.
LEMMA InsertVan ==
  ASSUME NEW ss, IsRoute(ss), NEW o \in Orders, NEW tt,
         Len(tt) = Len(ss) + 2, \A i \in 1..Len(ss) : tt[i] = ss[i],
         tt[Len(ss) + 1] = NewStop("pickup", {o}, 1), tt[Len(ss) + 2] = NewStop("dropoff", {o}, 1)
  PROVE  InVan(tt) = InVan(ss)
  <1> DEFINE n == Len(ss)
  <1>1. n \in Nat
    BY SeqFacts DEF IsRoute
  <1>2. tt[n + 1].status = "pending" /\ tt[n + 2].status = "pending"
    BY DEF NewStop
  <1>3. Len(tt) = n + 2 /\ \A i \in 1..n : tt[i] = ss[i]
    OBVIOUS
  <1>4. /\ \A i \in 1..(n + 2) : i \in 1..n \/ i = n + 1 \/ i = n + 2
        /\ \A i \in 1..n : i \in 1..(n + 2)
    BY <1>1
  <1> HIDE DEF n
  <1>5. ASSUME NEW p \in Orders, NEW k \in 1..n
        PROVE  Carries(tt, p, k) <=> Carries(ss, p, k)
    <2>1. Collects(tt, p, k) <=> Collects(ss, p, k)
      BY <1>3 DEF Collects
    <2>2. \A j \in 1..(n + 2) : tt[j].status \in FINISHED => j \in 1..n
      BY <1>2, <1>4 DEF FINISHED
    <2> QED
      BY <1>3, <1>4, <2>1, <2>2 DEF Carries, n
  <1>6. ASSUME NEW p \in Orders, NEW k \in 1..(n + 2), Carries(tt, p, k)
        PROVE  k \in 1..n
    BY <1>2, <1>4, <1>6 DEF Carries, Collects
  <1> QED
    BY <1>3, <1>4, <1>5, <1>6 DEF InVan, n

-----------------------------------------------------------------------------
(* Parcel counts.                                                           *)

LEMMA OrdersAreFinite ==
  \A S \in SUBSET Orders : IsFiniteSet(S) /\ Cardinality(S) \in Nat
  BY RouteAssumption, FS_Subset, FS_CardinalityType

LEMMA ParcelTotals ==
  ASSUME NEW S \in SUBSET Orders
  PROVE  /\ Total(Parcels, S) \in Nat /\ Total(Parcels, {}) = 0
         /\ \A o \in S : Total(Parcels, S) = Parcels[o] + Total(Parcels, S \ {o}) /\ Parcels[o] \in Nat
  <1>1. IsFiniteSet(S) /\ Parcels \in [Orders -> Nat]
    BY RouteAssumption, OrdersAreFinite
  <1>2. Total(Parcels, S) \in Nat /\ Total(Parcels, {}) = 0
    BY <1>1, TotalStep, TotalIsNat
  <1>3. \A o \in S : Total(Parcels, S) = Parcels[o] + Total(Parcels, S \ {o})
    BY <1>1, TotalRemove
  <1> QED
    BY <1>1, <1>2, <1>3

\* What an order adds to a planned count: its rows, or one.
Share(o) == IF Parcels[o] = 0 THEN 1 ELSE Parcels[o]

LEMMA PlannedCountOf ==
  ASSUME NEW S \in SUBSET Orders
  PROVE  /\ PlannedCount(S) \in Nat
         /\ \A o \in S : /\ Share(o) \in Nat /\ Share(o) >= 1
                         /\ PlannedCount(S) = Share(o) + PlannedCount(S \ {o})
  <1> DEFINE Z(T) == {p \in T : Parcels[p] = 0}
  <1>1. PlannedCount(S) \in Nat
    <2>1. Cardinality(Z(S)) \in Nat
      BY OrdersAreFinite
    <2> QED
      BY <2>1, ParcelTotals DEF PlannedCount
  <1>2. ASSUME NEW o \in S
        PROVE  /\ Share(o) \in Nat /\ Share(o) >= 1
               /\ PlannedCount(S) = Share(o) + PlannedCount(S \ {o})
    <2>1. /\ Total(Parcels, S) = Parcels[o] + Total(Parcels, S \ {o}) /\ Parcels[o] \in Nat
          /\ Total(Parcels, S \ {o}) \in Nat
      BY ParcelTotals
    <2>2. Cardinality(Z(S)) \in Nat /\ IsFiniteSet(Z(S)) /\ Cardinality(Z(S \ {o})) \in Nat
      <3>1. Z(S) \in SUBSET Orders /\ Z(S \ {o}) \in SUBSET Orders
        OBVIOUS
      <3> HIDE DEF Z
      <3> QED
        BY <3>1, OrdersAreFinite
    <2>3. CASE Parcels[o] = 0
      <3>1. o \in Z(S) /\ Z(S \ {o}) = Z(S) \ {o}
        BY <2>3
      <3> HIDE DEF Z
      <3>2. Cardinality(Z(S \ {o})) = Cardinality(Z(S)) - 1
        BY <2>2, <3>1, FS_RemoveElement
      <3> QED
        BY <2>1, <2>2, <2>3, <3>2 DEF PlannedCount, Share, Z
    <2>4. CASE Parcels[o] # 0
      <3>1. Z(S \ {o}) = Z(S)
        BY <2>4
      <3> QED
        BY <2>1, <2>2, <2>4, <3>1 DEF PlannedCount, Share
    <2> QED
      BY <2>3, <2>4
  <1> QED
    BY <1>1, <1>2

LEMMA PlannedCountCovers ==
  ASSUME NEW S \in SUBSET Orders
  PROVE  Cardinality(S) <= PlannedCount(S)
  <1> DEFINE B == {s \in SUBSET S : ~(Cardinality(s) <= PlannedCount(s))}
  <1>1. SUFFICES ASSUME B # {} PROVE FALSE
    OBVIOUS
  <1>2. B \in SUBSET SUBSET S /\ IsFiniteSet(S)
    BY OrdersAreFinite
  <1>3. PICK s \in B : \A x \in s : s \ {x} \notin B
    <2> HIDE DEF B
    <2> QED
      BY <1>1, <1>2, SmallestSubset
  <1>4. /\ s \in SUBSET S /\ ~(Cardinality(s) <= PlannedCount(s))
        /\ \A x \in s : Cardinality(s \ {x}) <= PlannedCount(s \ {x})
    BY <1>3
  <1>5. s \in SUBSET Orders /\ IsFiniteSet(s) /\ Cardinality(s) \in Nat /\ PlannedCount(s) \in Nat
    BY <1>4, OrdersAreFinite, PlannedCountOf
  <1>6. s # {}
    BY <1>4, <1>5, FS_EmptySet
  <1>7. PICK x \in s : TRUE
    BY <1>6
  <1>8. Cardinality(s \ {x}) = Cardinality(s) - 1
    BY <1>5, FS_RemoveElement
  <1>9. /\ PlannedCount(s) = Share(x) + PlannedCount(s \ {x}) /\ Share(x) >= 1
        /\ Share(x) \in Nat /\ PlannedCount(s \ {x}) \in Nat
    BY <1>5, PlannedCountOf
  <1> QED
    BY <1>4, <1>5, <1>8, <1>9

(* A pickup's count is at most what a planned pickup of its orders counts:   *)
(* the inductive form of ScanReachesCount, which says nothing of a pickup    *)
(* that an order without barcodes has yet to leave.                          *)
Counted(ss) ==
  \A i \in Live(ss) : ss[i].type = "pickup" =>
    ss[i].parcels \in Nat /\ ss[i].parcels <= PlannedCount(ss[i].orders)

\* One order leaves a shared pickup.
LEMMA ShedCounts ==
  ASSUME NEW s, IsStop(s), s.type = "pickup", NEW S, NEW o, s.orders \cap S = {o},
         s.orders \ S # {}, s.parcels \in Nat, s.parcels <= PlannedCount(s.orders)
  PROVE  Shed(s, S).parcels \in Nat /\ Shed(s, S).parcels <= PlannedCount(s.orders \ S)
  <1> DEFINE rows == Total(Parcels, {o})
             least == Cardinality(s.orders \ S)
             cut == IF rows = 0 THEN Cardinality({o}) ELSE rows
             rest == IF s.parcels > cut THEN s.parcels - cut ELSE 0
             n == Max({least, rest})
  <1>1. Shed(s, S).parcels = n
    <2>1. PICK m : Shed(s, S) = [s EXCEPT !.orders = s.orders \ S, !.parcels = n, !.scanned = m]
      BY DEF Shed
    <2> HIDE DEF n
    <2> QED
      BY <2>1 DEF IsStop
  <1>2. /\ s.orders \in SUBSET Orders /\ o \in s.orders /\ s.orders \ S = s.orders \ {o}
        /\ s.orders \ S \in SUBSET Orders
    BY DEF IsStop
  <1>3. rows = Parcels[o] /\ Parcels[o] \in Nat /\ Cardinality({o}) = 1
    <2>1. {o} \in SUBSET Orders /\ {o} \ {o} = {}
      BY <1>2
    <2>2. Total(Parcels, {o}) = Parcels[o] + Total(Parcels, {}) /\ Parcels[o] \in Nat /\ Total(Parcels, {}) = 0
      BY <2>1, ParcelTotals
    <2>3. Cardinality({o}) = 1
      BY FS_Singleton
    <2>4. Total(Parcels, {o}) = Parcels[o]
      BY <2>2
    <2> QED
      BY <2>2, <2>3, <2>4
  <1>4. cut = Share(o)
    BY <1>3 DEF Share
  <1>5. /\ PlannedCount(s.orders) = Share(o) + PlannedCount(s.orders \ S)
        /\ Share(o) \in Nat /\ PlannedCount(s.orders \ S) \in Nat
    BY <1>2, PlannedCountOf
  <1>6. least \in Nat /\ least <= PlannedCount(s.orders \ S)
    BY <1>2, OrdersAreFinite, PlannedCountCovers
  <1>7. rest \in Nat /\ rest <= PlannedCount(s.orders \ S)
    <2> HIDE DEF cut
    <2> QED
      BY <1>4, <1>5
  <1> HIDE DEF least, rest
  <1>8. n \in {least, rest}
    <2>1. \E x \in {least, rest} : \A y \in {least, rest} : x >= y
      BY <1>6, <1>7
    <2> QED
      BY <2>1 DEF Max
  <1> QED
    BY <1>1, <1>6, <1>7, <1>8

\* Stops that end or go on as they are keep their counts.
LEMMA SameCounts ==
  ASSUME NEW ss, Counted(ss), NEW tt, Len(tt) = Len(ss), Live(tt) \subseteq Live(ss),
         \A k \in 1..Len(ss) : /\ tt[k].type = ss[k].type /\ tt[k].orders = ss[k].orders
                               /\ tt[k].parcels = ss[k].parcels
  PROVE  Counted(tt)
  BY DEF Counted, Live

\* Orders come off stops, one at most off any pickup.
LEMMA TakeOffCounts ==
  ASSUME NEW ss, IsRoute(ss), Counted(ss), NEW S, NEW others \in SUBSET Live(ss),
         \A k \in others : ss[k].orders \cap S # {} /\
           (ss[k].type = "pickup" => \E o : ss[k].orders \cap S = {o})
  PROVE  Counted(TakeOff(ss, S, others))
  <1> DEFINE tt == TakeOff(ss, S, others)
  <1>1. /\ Len(tt) = Len(ss)
        /\ \A k \in 1..Len(ss) : tt[k] = IF k \in others THEN Shed(ss[k], S) ELSE ss[k]
    BY TakeOffStops DEF SameShape
  <1> HIDE DEF tt
  <1> SUFFICES ASSUME NEW k \in Live(tt), tt[k].type = "pickup"
               PROVE  tt[k].parcels \in Nat /\ tt[k].parcels <= PlannedCount(tt[k].orders)
    BY DEF Counted, tt
  <1>2. k \in 1..Len(ss) /\ tt[k].status \notin FINISHED
    BY <1>1 DEF Live
  <1>3. CASE k \notin others
    BY <1>1, <1>2, <1>3 DEF Counted, Live
  <1>4. CASE k \in others
    <2>1. IsStop(ss[k]) /\ tt[k] = Shed(ss[k], S)
      BY <1>1, <1>2, <1>4 DEF IsRoute
    <2>2. ss[k].orders \ S # {} /\ tt[k].orders = ss[k].orders \ S /\ ss[k].type = "pickup"
      BY <1>2, <2>1, ShedStop DEF FINISHED
    <2>3. PICK o : ss[k].orders \cap S = {o}
      BY <1>4, <2>2
    <2>4. ss[k].parcels \in Nat /\ ss[k].parcels <= PlannedCount(ss[k].orders)
      BY <1>4, <2>2 DEF Counted
    <2> QED
      BY <2>1, <2>2, <2>3, <2>4, ShedCounts
  <1> QED
    BY <1>3, <1>4

-----------------------------------------------------------------------------
(* Every step keeps the attempts and the counts.                            *)

\* Before an attempt and after a failed one.
IDLE == {"held", "queued", "delivery_failed"}

\* An order with an idle status has nothing to be done on the route.
Idle(ss, st) ==
  \A o \in Orders : st[o] \in IDLE => \A m \in Live(ss) : o \notin ss[m].orders

AttemptInv == Attempts(stops) /\ Counted(stops) /\ Idle(stops, status)

\* No order becomes idle.
NoneIdled(st, tu) == \A o \in Orders : tu[o] \in IDLE => st[o] \in IDLE

LEMMA GoesIdle ==
  ASSUME NEW ss, NEW tt, NEW S, Goes(ss, tt, S), Live(tt) \subseteq Live(ss)
  PROVE  \A m \in Live(tt) : m \in Live(ss) /\ tt[m].orders \subseteq ss[m].orders \ S
  <1> SUFFICES ASSUME NEW m \in Live(tt)
               PROVE  m \in Live(ss) /\ tt[m].orders \subseteq ss[m].orders \ S
    OBVIOUS
  <1>1. m \in Live(ss) /\ m \in 1..Len(ss) /\ tt[m].status \notin FINISHED
    BY DEF Live
  <1> QED
    BY <1>1 DEF Goes, Lost, FINISHED

\* Serving on.
LEMMA ServesOnAttempts ==
  ASSUME NEW ss, IsRoute(ss), Collected(ss), Attempts(ss), Counted(ss), NEW tt, Goes(ss, tt, {}),
         \A k \in 1..Len(ss) : tt[k].parcels = ss[k].parcels,
         NEW st, Idle(ss, st), NEW tu, NoneIdled(st, tu)
  PROVE  Attempts(tt) /\ Counted(tt) /\ Idle(tt, tu)
  <1>1. Attempts(tt) /\ Len(tt) = Len(ss) /\ Live(tt) \subseteq Live(ss)
    BY GoesKeepsAttempts, GoesKeeps
  <1>2. \A k \in 1..Len(ss) : tt[k].type = ss[k].type /\ tt[k].orders = ss[k].orders
    BY DEF Goes
  <1>3. Counted(tt)
    BY <1>1, <1>2, SameCounts
  <1>4. Idle(tt, tu)
    BY <1>1, <1>2 DEF Idle, NoneIdled, Live
  <1> QED
    BY <1>1, <1>3, <1>4

LEMMA PromotedAttempts ==
  ASSUME NEW ss, IsRoute(ss), Collected(ss), Attempts(ss), Counted(ss),
         NEW st, Idle(ss, st), NEW tu, NoneIdled(st, tu)
  PROVE  Attempts(Promote(ss)) /\ Counted(Promote(ss)) /\ Idle(Promote(ss), tu)
  <1>1. Goes(ss, Promote(ss), {}) /\ \A k \in 1..Len(ss) : Promote(ss)[k].parcels = ss[k].parcels
    BY PromoteGoes, PromoteKeeps
  <1> QED
    BY <1>1, ServesOnAttempts

\* A promotion idles nobody.
LEMMA PromoteIdlesNone ==
  ASSUME NEW ss, NEW st \in [Orders -> OrderStatus]
  PROVE  NoneIdled(st, PromoteOrders(ss, st))
  BY PromoteOrdersMoves DEF NoneIdled, IDLE

LEMMA AdvanceIdlesNone ==
  ASSUME NEW st \in [Orders -> OrderStatus], NEW S, NEW new \in {"en_route_pickup", "delivered", "picked_up"}
  PROVE  NoneIdled(st, Advance(st, S, new))
  BY DEF NoneIdled, IDLE, Advance

\* An order is on one pickup still to be done at most.
LEMMA OnePickup ==
  ASSUME NEW ss, IsRoute(ss), Attempts(ss), NEW i \in Live(ss), NEW k \in Live(ss),
         ss[i].type = "pickup", ss[k].type = "pickup", ss[i].orders \cap ss[k].orders # {}
  PROVE  i = k
  <1>1. PICK o : o \in ss[i].orders /\ o \in ss[k].orders
    OBVIOUS
  <1>2. PICK d \in 1..Len(ss) : LastAttempt(ss, o, i, d)
    BY <1>1, LivePickup DEF Attempts
  <1>3. PICK e \in 1..Len(ss) : LastAttempt(ss, o, k, e)
    BY <1>1, LivePickup DEF Attempts
  <1>4. ~(i < k) /\ ~(k < i)
    BY <1>1, <1>2, <1>3 DEF LastAttempt, Live
  <1>5. i \in Nat /\ k \in Nat
    BY SeqFacts DEF Live, IsRoute
  <1> QED
    BY <1>4, <1>5

\* What accept_offer starts from.
LEMMA AcceptBuilds ==
  ASSUME RouteInv, Accept
  PROVE  \E ss : /\ stops' = Promote(ss)
                 /\ IsRoute(ss) /\ Collected(ss) /\ Attempts(ss) /\ Counted(ss) /\ Idle(ss, status)
                 /\ Live(ss) # {}
                 /\ \A k \in 1..Len(ss) : ss[k].status = "pending"
  <1> DEFINE offered == {o \in Orders : status[o] = "assigned"}
  <1>1. PICK n \in 1..2 * Cardinality(offered) : \E vs \in [1..n -> Visit(offered)] :
           /\ IsPlan(vs, offered)
           /\ stops' = Promote(StopsFromPlan(vs)) \/ stops' = Promote(StopsUnplanned(vs))
    BY DEF Accept
  <1>2. PICK vs \in [1..n -> Visit(offered)] :
           /\ IsPlan(vs, offered)
           /\ stops' = Promote(StopsFromPlan(vs)) \/ stops' = Promote(StopsUnplanned(vs))
    BY <1>1
  <1>3. n \in Nat /\ n > 0 /\ DOMAIN vs = 1..n /\ offered \in SUBSET Orders
    OBVIOUS
  <1>4. \A i \in 1..n : /\ vs[i] \in Visit(offered) /\ vs[i].orders \subseteq Orders
                        /\ vs[i].orders \subseteq offered
    BY DEF Visit
  <1> HIDE DEF offered
  <1>5. PICK ss, c : /\ stops' = Promote(ss) /\ ss = [i \in DOMAIN vs |-> StopOf(vs[i], c[i])]
                     /\ \A i \in 1..n : c[i] \in Nat /\ c[i] <= PlannedCount(vs[i].orders)
    <2>1. CASE stops' = Promote(StopsFromPlan(vs))
      <3> DEFINE c == [i \in DOMAIN vs |-> PlannedCount(vs[i].orders)]
      <3>1. StopsFromPlan(vs) = [i \in DOMAIN vs |-> StopOf(vs[i], c[i])]
        BY DEF StopsFromPlan
      <3>2. \A i \in 1..n : c[i] \in Nat /\ c[i] <= PlannedCount(vs[i].orders)
        BY <1>3, <1>4, PlannedCountOf
      <3> HIDE DEF c
      <3> QED
        BY <2>1, <3>1, <3>2
    <2>2. CASE stops' = Promote(StopsUnplanned(vs))
      <3> DEFINE c == [i \in DOMAIN vs |-> UnplannedCount(vs[i].orders)]
      <3>1. StopsUnplanned(vs) = [i \in DOMAIN vs |-> StopOf(vs[i], c[i])]
        BY DEF StopsUnplanned
      <3>2. ASSUME NEW i \in 1..n
            PROVE  UnplannedCount(vs[i].orders) \in Nat /\ UnplannedCount(vs[i].orders) <= PlannedCount(vs[i].orders)
        <4> DEFINE X == vs[i].orders
                   Z == {o \in X : Parcels[o] = 0}
        <4>1. X \in SUBSET Orders /\ Z \in SUBSET Orders
          BY <1>4
        <4> HIDE DEF X
        <4>2. Cardinality(X) \in Nat /\ Cardinality(X) <= PlannedCount(X) /\ PlannedCount(X) \in Nat
          BY <4>1, OrdersAreFinite, PlannedCountCovers, PlannedCountOf
        <4>3. Total(Parcels, X) \in Nat
          BY <4>1, ParcelTotals
        <4>4. Cardinality(Z) \in Nat
          BY <4>1, OrdersAreFinite
        <4>5. PlannedCount(X) = Total(Parcels, X) + Cardinality(Z)
          BY DEF PlannedCount
        <4> HIDE DEF Z
        <4> QED
          BY <4>2, <4>3, <4>4, <4>5 DEF UnplannedCount, X
      <3>3. \A i \in 1..n : c[i] \in Nat /\ c[i] <= PlannedCount(vs[i].orders)
        BY <1>3, <3>2
      <3> HIDE DEF c
      <3> QED
        BY <2>2, <3>1, <3>3
    <2> QED
      BY <1>2, <2>1, <2>2
  <1>6. IsRoute(ss) /\ Collected(ss) /\ Live(ss) # {}
    BY <1>2, <1>3, <1>5, BuiltRoute
  <1>7. /\ Len(ss) = n
        /\ \A i \in 1..n : /\ ss[i].type = vs[i].type /\ ss[i].orders = vs[i].orders
                           /\ ss[i].status = "pending"
                           /\ ss[i].type = "pickup" => ss[i].parcels = c[i]
    <2>1. ss = [i \in 1..n |-> ss[i]] /\ \A i \in 1..n : ss[i] = StopOf(vs[i], c[i])
      BY <1>3, <1>5
    <2>2. Len(ss) = n
      BY <1>3, <2>1, FunctionIsSeq
    <2> QED
      BY <2>1, <2>2 DEF StopOf, NewStop
  <1>8. Attempts(ss)
    BY <1>2, <1>3, <1>7, PlanAttempts
  <1>9. Counted(ss)
    BY <1>5, <1>7 DEF Counted, Live
  <1>10. Idle(ss, status)
    <2>1. \A m \in Live(ss) : ss[m].orders \subseteq offered
      BY <1>4, <1>7 DEF Live
    <2> QED
      BY <2>1 DEF Idle, IDLE, offered
  <1> QED
    BY <1>5, <1>6, <1>7, <1>8, <1>9, <1>10

LEMMA AcceptKeepsAttempts == ASSUME RouteInv, Accept PROVE AttemptInv'
  <1>1. PICK ss : /\ stops' = Promote(ss)
                  /\ IsRoute(ss) /\ Collected(ss) /\ Attempts(ss) /\ Counted(ss) /\ Idle(ss, status)
    BY AcceptBuilds
  <1>2. PICK S : status' = Advance(status, S, "en_route_pickup")
    BY DEF Accept
  <1>3. NoneIdled(status, status')
    BY <1>2, AdvanceIdlesNone DEF RouteInv
  <1> QED
    BY <1>1, <1>3, PromotedAttempts DEF AttemptInv

\* A stop of one's own, or the count of one, is written: nothing ends.
LEMMA ServingKeepsAttempts ==
  ASSUME RouteInv, AttemptInv,
         \/ \E i \in Rows : Arrive(i)
         \/ \E i \in Rows, o \in Orders : ScanParcel(i, o)
         \/ CountWrite
         \/ \E r \in served : PromoteNext(r)
  PROVE  AttemptInv'
  <1>1. IsRoute(stops) /\ Collected(stops) /\ status \in [Orders -> OrderStatus]
    BY DEF RouteInv
  <1>2. Goes(stops, stops', {}) /\ \A k \in 1..Len(stops) : stops'[k].parcels = stops[k].parcels
    <2>1. CASE \E i \in Rows : Arrive(i)
      <3>1. PICK i \in Rows : Arrive(i)
        BY <2>1
      <3>2. stops' = WithStatus(stops, i, "arrived") /\ i \in Live(stops) /\ i \in 1..Len(stops)
        BY <3>1 DEF Arrive, WithStatus, Live, Rows
      <3>3. "arrived" \in {"pending", "en_route", "arrived"} \cup FINISHED
        OBVIOUS
      <3>4. Goes(stops, stops', {})
        BY <1>1, <3>2, StatusGoes
      <3>5. \A k \in 1..Len(stops) : stops'[k].parcels = stops[k].parcels
        BY <1>1, <3>2, <3>3, StatusSet
      <3> QED
        BY <3>4, <3>5
    <2>2. CASE \E i \in Rows, o \in Orders : ScanParcel(i, o)
      <3>1. PICK i \in Rows : \E n : stops' = WithScanned(stops, i, n)
        BY <2>2 DEF ScanParcel, WithScanned
      <3> QED
        BY <1>1, <3>1, ScannedSet, ScannedGoes DEF Rows
    <2>3. CASE CountWrite
      <3>1. counting.stop \in 1..Len(stops) /\ stops' = WithScanned(stops, counting.stop, counting.count)
        BY <2>3 DEF CountWrite, WithScanned, RouteInv, Rows
      <3> QED
        BY <1>1, <3>1, ScannedSet, ScannedGoes
    <2>4. CASE \E r \in served : PromoteNext(r)
      <3>1. stops' = Promote(stops)
        BY <2>4 DEF PromoteNext
      <3> QED
        BY <1>1, <3>1, PromoteGoes, PromoteKeeps
    <2> QED
      BY <2>1, <2>2, <2>3, <2>4
  <1>3. NoneIdled(status, status')
    <2>1. status' = status \/ status' = PromoteOrders(stops, status)
      BY DEF Arrive, ScanParcel, CountWrite, PromoteNext
    <2>2. NoneIdled(status, status)
      BY DEF NoneIdled
    <2> QED
      BY <1>1, <2>1, <2>2, PromoteIdlesNone
  <1> QED
    BY <1>1, <1>2, <1>3, ServesOnAttempts DEF AttemptInv

LEMMA CompleteKeepsAttemptInv ==
  ASSUME RouteInv, AttemptInv, NEW i \in Rows, Complete(i) PROVE AttemptInv'
  <1>1. /\ IsRoute(stops) /\ i \in Live(stops) /\ i \in 1..Len(stops)
        /\ status \in [Orders -> OrderStatus]
        /\ stops[i].type = "dropoff" =>
             ~\E j \in Live(stops) : stops[j].type = "pickup" /\ stops[j].orders \cap stops[i].orders # {}
    BY DEF RouteInv, Complete, CanComplete, PickupPending, Live, Rows, FINISHED
  <1>2. stops' = WithStatus(stops, i, "completed")
    BY DEF Complete, WithStatus
  <1>3. Attempts(stops')
    BY <1>1, <1>2, CompleteKeepsAttempts DEF AttemptInv
  <1>4. /\ Len(stops') = Len(stops) /\ Live(stops') = Live(stops) \ {i}
        /\ \A j \in 1..Len(stops) : /\ stops'[j].type = stops[j].type /\ stops'[j].orders = stops[j].orders
                                    /\ stops'[j].parcels = stops[j].parcels
    BY <1>1, <1>2, StopEnds DEF FINISHED
  <1>5. Counted(stops')
    BY <1>4, SameCounts DEF AttemptInv
  <1>6. PICK new \in {"delivered", "picked_up"} : status' = Advance(status, stops[i].orders, new)
    BY DEF Complete
  <1>7. NoneIdled(status, status')
    BY <1>1, <1>6, AdvanceIdlesNone
  <1>8. Idle(stops', status')
    BY <1>4, <1>7 DEF AttemptInv, Idle, NoneIdled, Live
  <1> QED
    BY <1>3, <1>5, <1>8 DEF AttemptInv

\* The route a flag leaves, before the next stop is promoted.
FlagLeaves(i) == TakeOff(WithStatus(stops, i, "failed"), stops[i].orders, OtherStops(i))

LEMMA FlagLeft ==
  ASSUME RouteInv, NEW i \in Rows, Flag(i)
  PROVE  /\ i \in Live(stops) /\ IsRoute(stops) /\ Collected(stops)
         /\ stops' = Promote(FlagLeaves(i)) /\ IsRoute(FlagLeaves(i)) /\ Collected(FlagLeaves(i))
         /\ Goes(stops, FlagLeaves(i), stops[i].orders)
         /\ Len(FlagLeaves(i)) = Len(stops) /\ Live(FlagLeaves(i)) \subseteq Live(stops) \ {i}
         /\ FlagLeaves(i)[i].status = "failed" /\ FlagLeaves(i)[i].type = stops[i].type
         /\ FlagLeaves(i)[i].orders = stops[i].orders
  <1> DEFINE ff == WithStatus(stops, i, "failed")
  <1>1. IsRoute(stops) /\ i \in Live(stops) /\ i \in 1..Len(stops) /\ Collected(stops)
    BY DEF RouteInv, Flag, Live, Rows
  <1>2. stops' = Promote(FlagLeaves(i))
    BY DEF Flag, FlagLeaves, WithStatus
  <1>3. IsRoute(FlagLeaves(i)) /\ Goes(stops, FlagLeaves(i), stops[i].orders)
    BY <1>1, FlagGoes DEF OtherStops, FlagLeaves
  <1>4. /\ Collected(FlagLeaves(i)) /\ Len(FlagLeaves(i)) = Len(stops)
        /\ Live(FlagLeaves(i)) \subseteq Live(stops)
    BY <1>1, <1>3, GoesKeeps
  <1>5. IsRoute(ff) /\ Len(ff) = Len(stops) /\ ff[i].status = "failed"
        /\ ff[i].type = stops[i].type /\ ff[i].orders = stops[i].orders
    BY <1>1, StopEnds DEF FINISHED
  <1> HIDE DEF ff
  <1>6. FlagLeaves(i) = TakeOff(ff, stops[i].orders, OtherStops(i)) /\ i \notin OtherStops(i)
    BY DEF FlagLeaves, ff, OtherStops
  <1>7. FlagLeaves(i)[i] = ff[i]
    BY <1>1, <1>5, <1>6, TakeOffStops
  <1>8. i \notin Live(FlagLeaves(i))
    BY <1>5, <1>7 DEF Live, FINISHED
  <1> QED
    BY <1>1, <1>2, <1>3, <1>4, <1>5, <1>7, <1>8

LEMMA FlagKeepsAttempts ==
  ASSUME RouteInv, AttemptInv, NEW i \in Rows, Flag(i) PROVE AttemptInv'
  <1> DEFINE left == FlagLeaves(i)
             X == stops[i].orders
             ff == WithStatus(stops, i, "failed")
             st == Advance(status, X, "delivery_failed")
  <1>1. /\ i \in Live(stops) /\ IsRoute(stops) /\ Collected(stops)
        /\ stops' = Promote(left) /\ IsRoute(left) /\ Collected(left)
        /\ Goes(stops, left, X) /\ Live(left) \subseteq Live(stops)
    BY FlagLeft
  <1>2. status' = PromoteOrders(left, st)
    BY DEF Flag, FlagLeaves, WithStatus
  <1>3. Attempts(left)
    BY <1>1, GoesKeepsAttempts DEF AttemptInv
  <1>4. Counted(left)
    <2>1. i \in 1..Len(stops) /\ IsRoute(stops)
      BY <1>1 DEF Live
    <2>2. /\ IsRoute(ff) /\ Len(ff) = Len(stops) /\ Live(ff) = Live(stops) \ {i}
          /\ \A j \in 1..Len(stops) : /\ ff[j].type = stops[j].type /\ ff[j].orders = stops[j].orders
                                      /\ ff[j].parcels = stops[j].parcels
      BY <2>1, StopEnds DEF FINISHED
    <2> HIDE DEF ff
    <2>3. Counted(ff)
      BY <2>2, SameCounts DEF AttemptInv
    <2>4. OtherStops(i) \in SUBSET Live(ff) /\ OtherStops(i) \subseteq 1..Len(stops)
      BY <2>2 DEF OtherStops, Live
    <2>5. ASSUME NEW k \in OtherStops(i)
          PROVE  ff[k].orders \cap X # {} /\ (ff[k].type = "pickup" => \E o : ff[k].orders \cap X = {o})
      <3>1. ff[k].orders = stops[k].orders /\ ff[k].type = stops[k].type
        BY <2>2, <2>4
      <3>2. k \in Live(stops) /\ k # i /\ stops[k].orders \cap X # {}
        BY DEF OtherStops
      <3>3. stops[k].type = "pickup" => stops[i].type = "dropoff"
        <4>1. IsStop(stops[i])
          BY <2>1 DEF IsRoute
        <4>2. stops[i].type \in {"pickup", "dropoff"}
          BY <4>1 DEF IsStop
        <4>3. stops[k].type = "pickup" /\ stops[i].type = "pickup" => k = i
          BY <1>1, <3>2, OnePickup DEF AttemptInv
        <4> QED
          BY <3>2, <4>2, <4>3
      <3>4. stops[i].type = "dropoff" => \A o, p \in X : o = p
        BY <2>1 DEF AttemptInv, Attempts, SingleDrops
      <3>5. PICK o : o \in stops[k].orders \cap X
        BY <3>2
      <3>6. stops[k].type = "pickup" => stops[k].orders \cap X = {o}
        BY <3>3, <3>4, <3>5
      <3> QED
        BY <3>1, <3>2, <3>6
    <2> HIDE DEF X
    <2>6. Counted(TakeOff(ff, X, OtherStops(i)))
      BY <2>2, <2>3, <2>4, <2>5, TakeOffCounts
    <2> QED
      BY <2>6 DEF FlagLeaves, ff, X
  <1> HIDE DEF left
  <1>5. Idle(left, st) /\ st \in [Orders -> OrderStatus]
    <2>1. status \in [Orders -> OrderStatus] /\ "delivery_failed" \in OrderStatus
      BY DEF RouteInv, OrderStatus
    <2>2. st \in [Orders -> OrderStatus] /\ \A o \in Orders : o \notin X => st[o] = status[o]
      BY <2>1 DEF Advance
    <2>3. \A m \in Live(left) : m \in Live(stops) /\ left[m].orders \subseteq stops[m].orders \ X
      BY <1>1, GoesIdle
    <2> HIDE DEF st, X
    <2> QED
      BY <2>2, <2>3 DEF AttemptInv, Idle
  <1> HIDE DEF st
  <1>6. NoneIdled(st, status')
    BY <1>2, <1>5, PromoteIdlesNone
  <1> QED
    BY <1>1, <1>3, <1>4, <1>5, <1>6, PromotedAttempts DEF AttemptInv

\* The route a cancel leaves.
CancelLeaves(o) == TakeOff(stops, {o}, OrderStops(o) \cap Live(stops))

LEMMA CancelLeft ==
  ASSUME RouteInv, NEW o \in Orders, Cancel(o)
  PROVE  /\ IsRoute(stops) /\ Collected(stops)
         /\ stops' = Promote(CancelLeaves(o)) /\ IsRoute(CancelLeaves(o)) /\ Collected(CancelLeaves(o))
         /\ Goes(stops, CancelLeaves(o), {o})
         /\ Len(CancelLeaves(o)) = Len(stops) /\ Live(CancelLeaves(o)) \subseteq Live(stops)
  <1>1. IsRoute(stops) /\ Collected(stops) /\ stops' = Promote(CancelLeaves(o))
    BY DEF RouteInv, Cancel, CancelLeaves
  <1>2. OrderStops(o) \cap Live(stops) = {k \in Live(stops) : stops[k].orders \cap {o} # {}}
    BY DEF OrderStops, Live, Rows
  <1>3. IsRoute(CancelLeaves(o)) /\ Goes(stops, CancelLeaves(o), {o})
    BY <1>1, <1>2, TakeOffStops, TakeOffGoes DEF CancelLeaves
  <1> QED
    BY <1>1, <1>3, GoesKeeps

LEMMA CancelKeepsAttempts ==
  ASSUME RouteInv, AttemptInv, NEW o \in Orders, Cancel(o) PROVE AttemptInv'
  <1> DEFINE left == CancelLeaves(o)
             st == [status EXCEPT ![o] = "cancelled"]
  <1>1. /\ IsRoute(stops) /\ Collected(stops)
        /\ stops' = Promote(left) /\ IsRoute(left) /\ Collected(left)
        /\ Goes(stops, left, {o}) /\ Live(left) \subseteq Live(stops)
    BY CancelLeft
  <1>2. status' = PromoteOrders(left, st)
    BY DEF Cancel, CancelLeaves
  <1>3. Attempts(left)
    BY <1>1, GoesKeepsAttempts DEF AttemptInv
  <1>4. Counted(left)
    <2> DEFINE others == OrderStops(o) \cap Live(stops)
    <2>1. others \in SUBSET Live(stops) /\ \A k \in others : stops[k].orders \cap {o} = {o}
      BY DEF OrderStops
    <2>2. Counted(stops)
      BY DEF AttemptInv
    <2> HIDE DEF others
    <2>3. Counted(TakeOff(stops, {o}, others))
      BY <1>1, <2>1, <2>2, TakeOffCounts
    <2> QED
      BY <2>3 DEF CancelLeaves, others
  <1> HIDE DEF left
  <1>5. Idle(left, st) /\ st \in [Orders -> OrderStatus]
    <2>1. status \in [Orders -> OrderStatus] /\ "cancelled" \in OrderStatus
      BY DEF RouteInv, OrderStatus
    <2>2. st \in [Orders -> OrderStatus] /\ \A p \in Orders : p # o => st[p] = status[p]
      BY <2>1
    <2>3. \A m \in Live(left) : m \in Live(stops) /\ left[m].orders \subseteq stops[m].orders \ {o}
      BY <1>1, GoesIdle
    <2> HIDE DEF st
    <2> QED
      BY <2>2, <2>3 DEF AttemptInv, Idle
  <1> HIDE DEF st
  <1>6. NoneIdled(st, status')
    BY <1>2, <1>5, PromoteIdlesNone
  <1> QED
    BY <1>1, <1>3, <1>4, <1>5, <1>6, PromotedAttempts DEF AttemptInv

\* What an insertion makes of the stops.
LEMMA InsertAppends ==
  ASSUME RouteInv, NEW o \in Orders, Insert(o)
  PROVE  /\ IsRoute(stops) /\ Len(stops) \in Nat /\ Len(stops') = Len(stops) + 2
         /\ \A i \in 1..Len(stops) : stops'[i] = stops[i]
         /\ stops'[Len(stops) + 1] = NewStop("pickup", {o}, 1)
         /\ stops'[Len(stops) + 2] = NewStop("dropoff", {o}, 1)
  <1> DEFINE a == NewStop("pickup", {o}, 1)
             b == NewStop("dropoff", {o}, 1)
  <1>1. IsRoute(stops) /\ IsSeq(stops) /\ Len(stops) \in Nat
    BY SeqFacts DEF RouteInv, IsRoute
  <1>2. stops' = WithTwo(stops, a, b)
    BY DEF Insert, WithTwo
  <1> QED
    BY <1>1, <1>2, TwoMore

LEMMA InsertKeepsAttemptInv ==
  ASSUME RouteInv, AttemptInv, NEW o \in Orders, Insert(o) PROVE AttemptInv'
  <1> DEFINE n == Len(stops)
  <1>1. /\ IsRoute(stops) /\ n \in Nat /\ Len(stops') = n + 2
        /\ \A i \in 1..n : stops'[i] = stops[i]
        /\ stops'[n + 1] = NewStop("pickup", {o}, 1) /\ stops'[n + 2] = NewStop("dropoff", {o}, 1)
    BY InsertAppends
  <1>2. status' = [status EXCEPT ![o] = "assigned"] /\ status \in [Orders -> OrderStatus] /\ status[o] \in IDLE
    BY DEF Insert, RouteInv, IDLE
  <1>3. \A m \in Live(stops) : o \notin stops[m].orders
    BY <1>2 DEF AttemptInv, Idle
  <1>4. Attempts(stops')
    BY <1>1, <1>3, InsertKeepsAttempts DEF AttemptInv
  <1>5. \A m \in Live(stops') : (m \in Live(stops) /\ m \in 1..n) \/ stops'[m].orders = {o}
    <2>1. \A i \in 1..(n + 2) : i \in 1..n \/ i = n + 1 \/ i = n + 2
      BY <1>1
    <2> QED
      BY <1>1, <2>1 DEF Live, NewStop
  <1>6. Counted(stops')
    <2> SUFFICES ASSUME NEW m \in Live(stops'), stops'[m].type = "pickup"
                 PROVE  stops'[m].parcels \in Nat /\ stops'[m].parcels <= PlannedCount(stops'[m].orders)
      BY DEF Counted
    <2>1. CASE m \in Live(stops) /\ m \in 1..n
      BY <1>1, <2>1 DEF AttemptInv, Counted
    <2>2. CASE m \notin 1..n
      <3>1. m = n + 1 \/ m = n + 2
        BY <1>1, <2>2 DEF Live
      <3>2. stops'[m].orders = {o} /\ stops'[m].parcels = 1
        BY <1>1, <3>1 DEF NewStop
      <3>3. {o} \in SUBSET Orders
        OBVIOUS
      <3>4. Cardinality({o}) = 1 /\ Cardinality({o}) <= PlannedCount({o})
        BY <3>3, FS_Singleton, PlannedCountCovers
      <3> QED
        BY <3>2, <3>4
    <2>3. m \in 1..n => m \in Live(stops)
      BY <1>1 DEF Live
    <2> QED
      BY <2>1, <2>2, <2>3
  <1>7. Idle(stops', status')
    <2> SUFFICES ASSUME NEW p \in Orders, status'[p] \in IDLE, NEW m \in Live(stops')
                 PROVE  p \notin stops'[m].orders
      BY DEF Idle
    <2>1. p # o /\ status[p] \in IDLE
      BY <1>2 DEF IDLE
    <2> QED
      BY <1>1, <1>5, <2>1 DEF AttemptInv, Idle
  <1> QED
    BY <1>4, <1>6, <1>7 DEF AttemptInv

LEMMA AttemptStep == RouteInv /\ AttemptInv /\ [Next]_vars => AttemptInv'
  <1> SUFFICES ASSUME RouteInv, AttemptInv, [Next]_vars PROVE AttemptInv'
    OBVIOUS
  <1>0. ASSUME UNCHANGED stops, NoneIdled(status, status') PROVE AttemptInv'
    BY <1>0 DEF AttemptInv, Idle, NoneIdled
  <1>1. CASE Accept
    BY <1>1, AcceptKeepsAttempts
  <1>2. CASE \E i \in Rows : Complete(i) \/ Flag(i)
    BY <1>2, CompleteKeepsAttemptInv, FlagKeepsAttempts
  <1>3. CASE \/ \E i \in Rows : Arrive(i)
             \/ \E i \in Rows, o \in Orders : ScanParcel(i, o)
             \/ CountWrite
             \/ \E r \in served : PromoteNext(r)
    BY <1>3, ServingKeepsAttempts
  <1>4. CASE \/ \E i \in Rows : CountRead(i)
             \/ \E r \in served : PayOut(r) \/ LoadRead(r) \/ LoadWrite(r) \/ Dies(r)
             \/ UNCHANGED vars
    <2>1. UNCHANGED <<stops, status>>
      BY <1>4 DEF CountRead, PayOut, LoadRead, LoadWrite, Dies, vars
    <2> QED
      BY <1>0, <2>1 DEF NoneIdled
  <1>5. CASE \E o \in Orders : Redeliver(o)
    <2>1. PICK o \in Orders : Redeliver(o)
      BY <1>5
    <2>2. status' = [status EXCEPT ![o] = "held"] /\ status[o] = "delivery_failed" /\ stops' = stops
          /\ status \in [Orders -> OrderStatus]
      BY <2>1 DEF Redeliver, RouteInv
    <2>3. NoneIdled(status, status')
      BY <2>2 DEF NoneIdled, IDLE
    <2> QED
      BY <1>0, <2>2, <2>3
  <1>6. CASE \E o \in Orders : Cancel(o) \/ Insert(o)
    BY <1>6, CancelKeepsAttempts, InsertKeepsAttemptInv
  <1> QED
    BY <1>1, <1>2, <1>3, <1>4, <1>5, <1>6 DEF Next

LEMMA AttemptInvHolds == Spec => []AttemptInv
  <1>1. Init => AttemptInv
    <2> SUFFICES ASSUME Init PROVE AttemptInv
      OBVIOUS
    <2>1. stops = <<>> /\ Len(stops) = 0
      BY DEF Init
    <2>2. Live(stops) = {} /\ 1..Len(stops) = {}
      BY <2>1 DEF Live
    <2> QED
      BY <2>2 DEF AttemptInv, Attempts, SingleDrops, OpenAttempts, MadeAttempts, Counted, Idle
  <1> QED
    BY <1>1, AttemptStep, RouteInvHolds, PTL DEF Spec

-----------------------------------------------------------------------------
(* What is done after the commits.                                          *)

LEMMA WeightTotals ==
  ASSUME NEW S \in SUBSET Orders, NEW T \in SUBSET Orders
  PROVE  /\ Total(Weight, S) \in Nat
         /\ S \cap T = {} => Total(Weight, S \cup T) = Total(Weight, S) + Total(Weight, T)
  <1>1. IsFiniteSet(S) /\ IsFiniteSet(T) /\ Weight \in [Orders -> Nat]
    BY RouteAssumption, OrdersAreFinite
  <1>2. Total(Weight, S) \in Nat
    BY <1>1, TotalIsNat
  <1> QED
    BY <1>1, <1>2, TotalUnion

\* What was in the van before the stop this request ended.
Before(r, ss) ==
  IF ss[r.stop].type = "pickup" THEN InVan(ss) \ ss[r.stop].orders
  ELSE InVan(ss) \cup ss[r.stop].orders

(* The hash's load while a request is being served: it, or once it was read  *)
(* what was read of it, is the weight before the stop; after the write, the  *)
(* weight now.                                                               *)
Loaded(r, ss, units) ==
  IF r.phase = "promote" THEN units = Total(Weight, InVan(ss))
  ELSE /\ (IF r.phase = "write" THEN r.seen ELSE units) = Total(Weight, Before(r, ss))
       /\ IF ss[r.stop].type = "pickup" THEN ss[r.stop].orders \subseteq InVan(ss)
          ELSE ss[r.stop].orders \cap InVan(ss) = {}

Delivered(ss, i) == ss[i].type = "dropoff" /\ ss[i].status = "completed"

ServedTypes ==
  /\ load \in Nat
  /\ \A r \in served : /\ r = [stop |-> r.stop, phase |-> r.phase, seen |-> r.seen]
                       /\ r.seen \in Nat
                       /\ r.stop \in 1..Len(stops) /\ r.stop \notin Live(stops)
  /\ \A i \in paid : i \in 1..Len(stops)

\* One request at a time.
Alone == clean => \A r, q \in served : r = q

Loads ==
  clean => /\ served = {} => load = Total(Weight, InVan(stops))
           /\ \A r \in served : Loaded(r, stops, load)

\* Paid, or about to be.
Payouts ==
  clean => \A i \in 1..Len(stops) :
             (i \in paid \/ \E r \in served : r.phase = "pay" /\ r.stop = i) <=> Delivered(stops, i)

\* The driver has somewhere to go, or a completion will say where.
OnTheWay(ss) == Live(ss) # {} => ss[Min(Live(ss))].status # "pending"

Promises == clean => OnTheWay(stops) \/ \E r \in served : stops[r.stop].status = "completed"

ServedInv == ServedTypes /\ Alone /\ Loads /\ Payouts /\ Promises

(* A step that changes nothing a request being served, or the van, goes by. *)
Calm(ss, tt) ==
  /\ InVan(tt) = InVan(ss) /\ Len(ss) \in Nat /\ Len(tt) \in Nat /\ Len(ss) <= Len(tt)
  /\ \A k \in 1..Len(ss) : k \notin Live(ss) =>
       /\ k \notin Live(tt) /\ tt[k].type = ss[k].type /\ tt[k].orders = ss[k].orders
       /\ tt[k].status = ss[k].status
  /\ \A k \in 1..Len(tt) : Delivered(tt, k) => k \in 1..Len(ss) /\ k \notin Live(ss)

LEMMA GoesCalm ==
  ASSUME NEW ss, IsRoute(ss), NEW tt, NEW S, Goes(ss, tt, S), S \cap InVan(ss) = {}
  PROVE  Calm(ss, tt)
  <1>1. InVan(tt) = InVan(ss)
    BY GoesVan
  <1>2. Len(tt) = Len(ss) /\ Len(ss) \in Nat
    BY SeqFacts DEF Goes, IsRoute
  <1>3. \A k \in 1..Len(ss) : k \notin Live(ss) =>
          /\ k \notin Live(tt) /\ tt[k].type = ss[k].type /\ tt[k].orders = ss[k].orders
          /\ tt[k].status = ss[k].status
    BY <1>2 DEF Goes, Live
  <1>4. \A k \in 1..Len(ss) : Delivered(tt, k) => k \notin Live(ss)
    BY DEF Goes, Delivered, Lost, FINISHED
  <1> QED
    BY <1>1, <1>2, <1>3, <1>4 DEF Calm

LEMMA InsertCalm ==
  ASSUME NEW ss, IsRoute(ss), NEW o \in Orders, NEW tt,
         Len(tt) = Len(ss) + 2, \A i \in 1..Len(ss) : tt[i] = ss[i],
         tt[Len(ss) + 1] = NewStop("pickup", {o}, 1), tt[Len(ss) + 2] = NewStop("dropoff", {o}, 1)
  PROVE  Calm(ss, tt)
  <1>1. InVan(tt) = InVan(ss)
    BY InsertVan
  <1>2. Len(ss) \in Nat
    BY SeqFacts DEF IsRoute
  <1>3. \A k \in 1..(Len(ss) + 2) : k \in 1..Len(ss) \/ k = Len(ss) + 1 \/ k = Len(ss) + 2
    BY <1>2
  <1>4. \A k \in 1..(Len(ss) + 2) : Delivered(tt, k) => k \in 1..Len(ss) /\ k \notin Live(ss)
    BY <1>3 DEF Delivered, NewStop, Live, FINISHED
  <1>5. \A k \in 1..Len(ss) : k \notin Live(ss) => k \notin Live(tt)
    BY DEF Live
  <1> QED
    BY <1>1, <1>2, <1>4, <1>5 DEF Calm

\* What a calm step leaves as it was.
LEMMA CalmKeepsLoaded ==
  ASSUME NEW ss, NEW tt, Calm(ss, tt), NEW r, r.stop \in 1..Len(ss), r.stop \notin Live(ss), NEW units
  PROVE  /\ Loaded(r, tt, units) <=> Loaded(r, ss, units)
         /\ r.stop \in 1..Len(tt) /\ r.stop \notin Live(tt) /\ tt[r.stop].status = ss[r.stop].status
  <1>1. /\ InVan(tt) = InVan(ss) /\ tt[r.stop].type = ss[r.stop].type
        /\ tt[r.stop].orders = ss[r.stop].orders /\ tt[r.stop].status = ss[r.stop].status
        /\ r.stop \notin Live(tt) /\ r.stop \in 1..Len(tt)
    BY DEF Calm
  <1>2. Before(r, tt) = Before(r, ss)
    BY <1>1 DEF Before
  <1> QED
    BY <1>1, <1>2 DEF Loaded

LEMMA CalmDelivered ==
  ASSUME NEW ss, NEW tt, Calm(ss, tt)
  PROVE  /\ \A k \in 1..Len(ss) : k \in 1..Len(tt) /\ (Delivered(tt, k) <=> Delivered(ss, k))
         /\ \A k \in 1..Len(tt) : Delivered(tt, k) => k \in 1..Len(ss)
  <1>1. \A k \in 1..Len(ss) : Delivered(ss, k) => k \notin Live(ss)
    BY DEF Delivered, Live, FINISHED
  <1> QED
    BY <1>1 DEF Calm, Delivered

\* A calm step that serves nobody.
LEMMA CalmKeepsServed ==
  ASSUME ServedInv, Calm(stops, stops'), UNCHANGED <<load, paid, served, clean>>
  PROVE  ServedTypes' /\ Alone' /\ Loads' /\ Payouts'
  <1>1. ASSUME NEW r \in served
        PROVE  /\ Loaded(r, stops', load) <=> Loaded(r, stops, load)
               /\ r.stop \in 1..Len(stops') /\ r.stop \notin Live(stops')
    BY CalmKeepsLoaded DEF ServedInv, ServedTypes
  <1>2. ServedTypes'
    <2>1. \A i \in paid : i \in 1..Len(stops')
      BY DEF ServedInv, ServedTypes, Calm
    <2> QED
      BY <1>1, <2>1 DEF ServedInv, ServedTypes
  <1>3. Alone'
    BY DEF ServedInv, Alone
  <1>4. Loads'
    BY <1>1 DEF ServedInv, Loads, Calm
  <1>5. Payouts'
    <2> SUFFICES ASSUME clean, NEW i \in 1..Len(stops')
                 PROVE  (i \in paid \/ \E r \in served : r.phase = "pay" /\ r.stop = i)
                          <=> Delivered(stops', i)
      BY DEF Payouts
    <2>1. CASE i \in 1..Len(stops)
      BY <2>1, CalmDelivered DEF ServedInv, Payouts
    <2>2. CASE i \notin 1..Len(stops)
      BY <2>2, CalmDelivered DEF ServedInv, ServedTypes
    <2> QED
      BY <2>1, <2>2
  <1> QED
    BY <1>2, <1>3, <1>4, <1>5

\* After a promotion the driver is on the way.
LEMMA PromotedOnTheWay ==
  ASSUME NEW ss, IsRoute(ss)
  PROVE  OnTheWay(Promote(ss))
  <1> SUFFICES ASSUME Live(ss) # {}
               PROVE  Promote(ss)[Min(Live(ss))].status # "pending"
    BY PromoteKeeps DEF OnTheWay
  <1> DEFINE m == Min(Live(ss))
  <1>1. m \in Live(ss) /\ m \in 1..Len(ss) /\ IsSeq(ss)
    BY FirstLive DEF IsRoute, Live
  <1>2. CASE ss[m].status # "pending"
    BY <1>2 DEF Promote
  <1>3. CASE ss[m].status = "pending"
    <2> DEFINE x == [ss[m] EXCEPT !.status = "en_route"]
    <2>1. Promote(ss) = Put(ss, m, x)
      BY <1>3 DEF Promote, Put
    <2>2. x.status = "en_route"
      <3>1. IsStop(ss[m])
        BY <1>1 DEF IsRoute
      <3> QED
        BY <3>1 DEF IsStop
    <2> HIDE DEF x, m
    <2>3. Put(ss, m, x)[m] = x
      BY <1>1, ReplaceOne
    <2> QED
      BY <2>1, <2>2, <2>3 DEF m
  <1> QED
    BY <1>2, <1>3

\* A stop served on, or a stop further on: the first one is as it was.
LEMMA StillOnTheWay ==
  ASSUME NEW ss, IsSeq(ss), OnTheWay(ss), Live(ss) # {}, NEW tt, IsSeq(tt), Live(ss) \subseteq Live(tt),
         \A k \in Live(tt) : k \in Live(ss) \/ \A m \in Live(ss) : m < k,
         \A k \in Live(ss) : ss[k].status # "pending" => tt[k].status # "pending"
  PROVE  OnTheWay(tt)
  <1>1. Min(Live(ss)) \in Live(ss) /\ \A j \in Live(ss) : Min(Live(ss)) <= j
    BY FirstLive
  <1>2. Min(Live(tt)) \in Live(tt) /\ \A j \in Live(tt) : Min(Live(tt)) <= j
    BY FirstLive
  <1>3. Live(ss) \subseteq Nat /\ Live(tt) \subseteq Nat
    BY SeqFacts DEF Live
  <1>4. Min(Live(tt)) = Min(Live(ss))
    BY <1>1, <1>2, <1>3
  <1> QED
    BY <1>1, <1>4 DEF OnTheWay

LEMMA CalmTwice ==
  ASSUME NEW ss, NEW tt, NEW uu, Calm(ss, tt), Calm(tt, uu)
  PROVE  Calm(ss, uu)
  <1>1. InVan(uu) = InVan(ss) /\ Len(ss) \in Nat /\ Len(tt) \in Nat /\ Len(uu) \in Nat
        /\ Len(ss) <= Len(tt) /\ Len(tt) <= Len(uu)
    BY DEF Calm
  <1>2. ASSUME NEW k \in 1..Len(ss), k \notin Live(ss)
        PROVE  /\ k \notin Live(uu) /\ uu[k].type = ss[k].type /\ uu[k].orders = ss[k].orders
               /\ uu[k].status = ss[k].status
    <2>1. /\ k \in 1..Len(tt) /\ k \notin Live(tt) /\ tt[k].type = ss[k].type
          /\ tt[k].orders = ss[k].orders /\ tt[k].status = ss[k].status
      BY <1>1, <1>2 DEF Calm
    <2> QED
      BY <2>1 DEF Calm
  <1>3. ASSUME NEW k \in 1..Len(uu), Delivered(uu, k) PROVE k \in 1..Len(ss) /\ k \notin Live(ss)
    <2>1. k \in 1..Len(tt) /\ Delivered(tt, k)
      BY <1>3, CalmDelivered
    <2> QED
      BY <2>1 DEF Calm
  <1> QED
    BY <1>1, <1>2, <1>3 DEF Calm

\* A calm step that serves nobody and leaves the driver on the way.
LEMMA CalmIsServed ==
  ASSUME ServedInv, Calm(stops, stops'), UNCHANGED <<load, paid, served, clean>>,
         OnTheWay(stops) => OnTheWay(stops')
  PROVE  ServedInv'
  <1>1. ServedTypes' /\ Alone' /\ Loads' /\ Payouts'
    BY CalmKeepsServed
  <1>2. Promises'
    <2>1. \A r \in served : stops'[r.stop].status = stops[r.stop].status
      BY CalmKeepsLoaded DEF ServedInv, ServedTypes
    <2> QED
      BY <2>1 DEF ServedInv, Promises
  <1> QED
    BY <1>1, <1>2 DEF ServedInv

LEMMA AcceptIsServed == ASSUME RouteInv, ServedInv, Accept PROVE ServedInv'
  <1>1. PICK ss : /\ stops' = Promote(ss) /\ IsRoute(ss)
                  /\ \A k \in 1..Len(ss) : ss[k].status = "pending"
    BY AcceptBuilds
  <1>2. stops = <<>> /\ Len(stops) = 0 /\ UNCHANGED <<load, paid, served, clean>>
    BY DEF Accept, RouteInv
  <1>3. Len(stops') = Len(ss) /\ Len(ss) \in Nat /\ \A k \in 1..Len(ss) : stops'[k].status \in {"pending", "en_route"}
    BY <1>1, PromoteKeeps, SeqFacts DEF IsRoute
  <1>4. InVan(stops) = {} /\ InVan(stops') = {}
    BY <1>2, <1>3 DEF InVan, Carries, Collects
  <1>5. Calm(stops, stops')
    BY <1>2, <1>3, <1>4 DEF Calm, Delivered
  <1>6. OnTheWay(stops')
    BY <1>1, PromotedOnTheWay
  <1> QED
    BY <1>2, <1>5, <1>6, CalmIsServed

\* No stop ends.
LEMMA ServingIsServed ==
  ASSUME RouteInv, ServedInv,
         \/ \E i \in Rows : Arrive(i)
         \/ \E i \in Rows, o \in Orders : ScanParcel(i, o)
         \/ CountWrite
  PROVE  ServedInv'
  <1>1. IsRoute(stops) /\ IsSeq(stops)
    BY DEF RouteInv, IsRoute
  <1>2. UNCHANGED <<load, paid, served, clean>>
    BY DEF Arrive, ScanParcel, CountWrite
  <1>3. /\ Goes(stops, stops', {}) /\ Live(stops') = Live(stops) /\ IsSeq(stops')
        /\ \A k \in Live(stops) : stops[k].status # "pending" => stops'[k].status # "pending"
    <2>1. CASE \E i \in Rows : Arrive(i)
      <3>1. PICK i \in Rows : Arrive(i)
        BY <2>1
      <3>2. stops' = WithStatus(stops, i, "arrived") /\ i \in Live(stops) /\ i \in 1..Len(stops)
        BY <3>1 DEF Arrive, WithStatus, Live, Rows
      <3>3. "arrived" \in {"pending", "en_route", "arrived"} \cup FINISHED
        OBVIOUS
      <3>4. Goes(stops, stops', {}) /\ Live(stops') = Live(stops)
        BY <1>1, <3>2, StatusGoes
      <3>5. /\ IsRoute(stops') /\ stops'[i].status = "arrived"
            /\ \A k \in 1..Len(stops) : k # i => stops'[k] = stops[k]
        BY <1>1, <3>2, <3>3, StatusSet
      <3> QED
        BY <3>4, <3>5 DEF IsRoute, Live
    <2>2. CASE ~\E i \in Rows : Arrive(i)
      <3>1. PICK i \in 1..Len(stops) : \E n : stops' = WithScanned(stops, i, n)
        BY <2>2 DEF ScanParcel, CountWrite, WithScanned, RouteInv, Rows
      <3>2. PICK n : stops' = WithScanned(stops, i, n)
        BY <3>1
      <3>3. Goes(stops, stops', {}) /\ Live(stops') = Live(stops)
        BY <1>1, <3>2, ScannedGoes
      <3>4. IsRoute(stops') /\ \A k \in 1..Len(stops) : stops'[k].status = stops[k].status
        BY <1>1, <3>2, ScannedSet
      <3> QED
        BY <3>3, <3>4 DEF IsRoute, Live
    <2> QED
      BY <2>1, <2>2
  <1>4. Calm(stops, stops')
    BY <1>1, <1>3, GoesCalm
  <1>5. OnTheWay(stops) => OnTheWay(stops')
    <2>1. CASE Live(stops) = {}
      BY <1>3, <2>1 DEF OnTheWay
    <2>2. CASE Live(stops) # {}
      BY <1>1, <1>3, <2>2, StillOnTheWay
    <2> QED
      BY <2>1, <2>2
  <1> QED
    BY <1>2, <1>4, <1>5, CalmIsServed

\* An order that may be cancelled is still to be collected.
LEMMA CancelledNotInVan ==
  ASSUME RouteInv, AttemptInv, NEW o \in Orders, Cancel(o)
  PROVE  o \notin InVan(stops)
  <1> DEFINE live == OrderStops(o) \cap Live(stops)
             pickups == {i \in live : stops[i].type = "pickup"}
             before == {i \in OrderStops(o) : stops[i].type = "pickup" /\ i < Min(live)}
  <1>1. IsRoute(stops) /\ Attempts(stops) /\ live # {} /\ ~HasParts(o)
    BY DEF RouteInv, AttemptInv, Cancel
  <1>2. \A i \in live : i \in Live(stops) /\ i \in 1..Len(stops) /\ o \in stops[i].orders /\ i \in Nat
    BY <1>1, SeqFacts DEF OrderStops, Live, Rows, IsRoute
  <1>3. CASE pickups # {}
    <2>1. PICK i \in pickups : TRUE
      BY <1>3
    <2> QED
      BY <1>1, <1>2, <2>1, ToCollectNotInVan
  <1>4. CASE pickups = {}
    <2>1. PICK n \in live : \A m \in live : n <= m
      <3>1. live \in SUBSET Nat
        BY <1>2
      <3> HIDE DEF live
      <3> QED
        BY <1>1, <3>1, LeastOf
    <2>2. Min(live) \in live
      BY <2>1 DEF Min
    <2> DEFINE d == Min(live)
    <2>3. d \in Live(stops) /\ d \in 1..Len(stops) /\ o \in stops[d].orders /\ d \in Nat
          /\ stops[d].type = "dropoff"
      <3>1. d \in live /\ d \notin pickups
        BY <1>4, <2>2
      <3>2. d \in 1..Len(stops) /\ stops[d].type # "pickup"
        BY <1>2, <3>1
      <3>3. IsStop(stops[d])
        BY <1>1, <3>2 DEF IsRoute
      <3>4. stops[d].type \in {"pickup", "dropoff"}
        BY <3>3 DEF IsStop
      <3> QED
        BY <1>2, <3>1, <3>2, <3>4
    <2> HIDE DEF d
    <2>4. PICK j \in 1..Len(stops) : LastAttempt(stops, o, j, d)
      BY <1>1, <2>3, LiveDrop DEF Attempts
    <2>5. /\ j < d /\ stops[j].type = "pickup" /\ o \in stops[j].orders /\ stops[j].status \notin Lost
          /\ \A k \in 1..Len(stops) : j < k /\ o \in stops[k].orders => k = d
      BY <2>4 DEF LastAttempt
    <2>6. j \in before /\ before \subseteq 1..Len(stops) /\ d = Min(live)
      BY <2>5 DEF OrderStops, Rows, d
    <2>7. ASSUME NEW k \in before PROVE k <= j
      <3>1. k \in 1..Len(stops) /\ k < d /\ o \in stops[k].orders
        BY <2>6 DEF OrderStops
      <3>2. Len(stops) \in Nat
        BY <1>1, SeqFacts DEF IsRoute
      <3> QED
        BY <2>3, <2>5, <3>1, <3>2
    <2>8. Max(before) = j
      <3> HIDE DEF before
      <3>0. Len(stops) \in Nat
        BY <1>1, SeqFacts DEF IsRoute
      <3>1. before \subseteq Nat
        BY <2>6, <3>0
      <3>2. \A x \in before : (\A y \in before : x >= y) => x = j
        BY <2>6, <2>7, <3>1
      <3>3. \A y \in before : j >= y
        BY <2>6, <2>7, <3>1
      <3> QED
        BY <2>6, <3>2, <3>3 DEF Max
    <2>9. stops[j].status = "completed"
      <3>1. j \notin Live(stops)
        <4>1. j \notin live
          BY <1>4, <2>5
        <4> QED
          BY <2>5, <4>1 DEF OrderStops, Rows
      <3> QED
        BY <2>5, <3>1 DEF Live, FINISHED, Lost
    <2>10. HasParts(o)
      BY <1>4, <2>6, <2>8, <2>9 DEF HasParts
    <2> QED
      BY <1>1, <2>10
  <1> QED
    BY <1>3, <1>4

LEMMA CancelIsServed ==
  ASSUME RouteInv, AttemptInv, ServedInv, NEW o \in Orders, Cancel(o) PROVE ServedInv'
  <1> DEFINE left == CancelLeaves(o)
  <1>1. /\ IsRoute(stops) /\ stops' = Promote(left) /\ IsRoute(left) /\ Goes(stops, left, {o})
    BY CancelLeft
  <1> HIDE DEF left
  <1>2. {o} \cap InVan(stops) = {}
    BY CancelledNotInVan
  <1>3. Calm(stops, left)
    BY <1>1, <1>2, GoesCalm
  <1>4. Calm(left, stops')
    BY <1>1, PromoteGoes, GoesCalm
  <1>5. Calm(stops, stops') /\ OnTheWay(stops')
    BY <1>1, <1>3, <1>4, CalmTwice, PromotedOnTheWay
  <1>6. UNCHANGED <<load, paid, served, clean>>
    BY DEF Cancel
  <1> QED
    BY <1>5, <1>6, CalmIsServed

LEMMA InsertIsServed ==
  ASSUME RouteInv, ServedInv, NEW o \in Orders, Insert(o) PROVE ServedInv'
  <1> DEFINE n == Len(stops)
  <1>1. /\ IsRoute(stops) /\ n \in Nat /\ Len(stops') = n + 2
        /\ \A i \in 1..n : stops'[i] = stops[i]
        /\ stops'[n + 1] = NewStop("pickup", {o}, 1) /\ stops'[n + 2] = NewStop("dropoff", {o}, 1)
    BY InsertAppends
  <1>2. Calm(stops, stops')
    BY <1>1, InsertCalm
  <1>3. Live(stops) # {} /\ UNCHANGED <<load, paid, served, clean>>
    BY DEF Insert, RouteInv, RouteEndsWithItsStops
  <1>4. /\ Live(stops) \subseteq Live(stops')
        /\ \A k \in Live(stops') : k \in Live(stops) \/ \A m \in Live(stops) : m < k
        /\ \A k \in Live(stops) : stops'[k] = stops[k]
    <2>1. \A k \in 1..(n + 2) : k \in 1..n \/ k = n + 1 \/ k = n + 2
      BY <1>1
    <2>2. \A k \in 1..n : k \in 1..(n + 2) /\ k < n + 1 /\ k < n + 2
      BY <1>1
    <2> QED
      BY <1>1, <2>1, <2>2 DEF Live
  <1>5. IsSeq(stops) /\ IsSeq(stops')
    <2> DEFINE a == NewStop("pickup", {o}, 1)
               b == NewStop("dropoff", {o}, 1)
    <2>1. IsSeq(stops) /\ stops' = WithTwo(stops, a, b)
      BY <1>1 DEF IsRoute, Insert, WithTwo
    <2> QED
      BY <2>1, TwoMore
  <1>6. OnTheWay(stops) => OnTheWay(stops')
    BY <1>3, <1>4, <1>5, StillOnTheWay
  <1> QED
    BY <1>2, <1>3, <1>6, CalmIsServed

\* A stop ended and what follows its commit is still to be done.
LEMMA EndIsServed ==
  ASSUME IsRoute(stops), ServedInv, NEW i \in Live(stops), NEW phase \in {"pay", "read"}, NEW collected,
         Serve(i, phase, collected), UNCHANGED <<load, paid>>,
         Len(stops') = Len(stops), Live(stops') \subseteq Live(stops) \ {i},
         stops'[i].type = stops[i].type, stops'[i].orders = stops[i].orders,
         \A k \in 1..Len(stops) : k # i => (Delivered(stops', k) <=> Delivered(stops, k)),
         Delivered(stops', i) <=> phase = "pay",
         OnTheWay(stops') \/ stops'[i].status = "completed",
         clean' => IF stops[i].type = "pickup"
                   THEN stops[i].orders \cap InVan(stops) = {} /\ InVan(stops') = InVan(stops) \cup stops[i].orders
                   ELSE stops[i].orders \subseteq InVan(stops) /\ InVan(stops') = InVan(stops) \ stops[i].orders
  PROVE  ServedInv'
  <1> DEFINE r == [stop |-> i, phase |-> phase, seen |-> 0]
  <1>1. i \in 1..Len(stops) /\ i \notin Live(stops') /\ ~Delivered(stops, i)
    BY DEF Live, Delivered, FINISHED
  <1>2. served' = served \cup {r} /\ (clean' => clean /\ served = {})
    BY DEF Serve
  <1>3. r.stop = i /\ r.phase = phase /\ r.seen = 0 /\ r = [stop |-> r.stop, phase |-> r.phase, seen |-> r.seen]
    OBVIOUS
  <1> HIDE DEF r
  <1>4. ServedTypes'
    <2>1. \A q \in served' :
             /\ q = [stop |-> q.stop, phase |-> q.phase, seen |-> q.seen] /\ q.seen \in Nat
             /\ q.stop \in 1..Len(stops') /\ q.stop \notin Live(stops')
      BY <1>1, <1>2, <1>3 DEF ServedInv, ServedTypes
    <2>2. load' \in Nat /\ \A k \in paid' : k \in 1..Len(stops')
      BY DEF ServedInv, ServedTypes
    <2> QED
      BY <2>1, <2>2 DEF ServedTypes
  <1>5. ASSUME clean' PROVE clean /\ served' = {r}
    BY <1>2, <1>5
  <1>6. Alone'
    BY <1>5 DEF Alone
  <1>7. Loads'
    <2> SUFFICES ASSUME clean' PROVE Loaded(r, stops', load)
      BY <1>5 DEF Loads
    <2>1. load = Total(Weight, InVan(stops))
      BY <1>2 DEF ServedInv, Loads
    <2>2. CASE stops[i].type = "pickup"
      <3>1. stops[i].orders \subseteq InVan(stops') /\ InVan(stops') \ stops[i].orders = InVan(stops)
        BY <2>2
      <3> QED
        BY <1>3, <2>1, <2>2, <3>1 DEF Loaded, Before
    <2>3. CASE stops[i].type # "pickup"
      <3>1. stops[i].orders \cap InVan(stops') = {} /\ InVan(stops') \cup stops[i].orders = InVan(stops)
        BY <2>3
      <3> QED
        BY <1>3, <2>1, <2>3, <3>1 DEF Loaded, Before
    <2> QED
      BY <2>2, <2>3
  <1>8. Payouts'
    <2> SUFFICES ASSUME clean', NEW k \in 1..Len(stops)
                 PROVE  (k \in paid \/ \E q \in served' : q.phase = "pay" /\ q.stop = k) <=> Delivered(stops', k)
      BY DEF Payouts
    <2>1. served' = {r} /\ (k \in paid <=> Delivered(stops, k))
      BY <1>2, <1>5 DEF ServedInv, Payouts
    <2> QED
      BY <1>1, <1>3, <2>1
  <1>9. Promises'
    BY <1>2, <1>3 DEF Promises
  <1> QED
    BY <1>4, <1>6, <1>7, <1>8, <1>9 DEF ServedInv

LEMMA CompleteIsServed ==
  ASSUME RouteInv, AttemptInv, ServedInv, NEW i \in Rows, Complete(i) PROVE ServedInv'
  <1>1. /\ IsRoute(stops) /\ Attempts(stops) /\ i \in Live(stops) /\ i \in 1..Len(stops)
        /\ stops[i].type = "dropoff" =>
             ~\E j \in Live(stops) : stops[j].type = "pickup" /\ stops[j].orders \cap stops[i].orders # {}
    BY DEF RouteInv, AttemptInv, Complete, CanComplete, PickupPending, Live, Rows, FINISHED
  <1>2. stops[i].type \in {"pickup", "dropoff"}
    BY <1>1 DEF IsRoute, IsStop
  <1>3. stops' = WithStatus(stops, i, "completed") /\ UNCHANGED <<load, paid>>
    BY DEF Complete, WithStatus
  <1>4. /\ Len(stops') = Len(stops) /\ Live(stops') = Live(stops) \ {i}
        /\ stops'[i].status = "completed" /\ stops'[i].type = stops[i].type
        /\ stops'[i].orders = stops[i].orders
        /\ \A j \in 1..Len(stops) : j # i => stops'[j] = stops[j]
    BY <1>1, <1>3, StopEnds DEF FINISHED
  <1>5. PICK phase \in {"pay", "read"} : Serve(i, phase, TRUE) /\ (phase = "pay" <=> stops[i].type = "dropoff")
    <2>1. Serve(i, IF stops[i].type = "dropoff" THEN "pay" ELSE "read", TRUE)
      BY DEF Complete
    <2> QED
      BY <2>1
  <1>6. Delivered(stops', i) <=> phase = "pay"
    BY <1>4, <1>5 DEF Delivered
  <1>7. \A k \in 1..Len(stops) : k # i => (Delivered(stops', k) <=> Delivered(stops, k))
    BY <1>4 DEF Delivered
  <1>8. IF stops[i].type = "pickup"
        THEN stops[i].orders \cap InVan(stops) = {} /\ InVan(stops') = InVan(stops) \cup stops[i].orders
        ELSE stops[i].orders \subseteq InVan(stops) /\ InVan(stops') = InVan(stops) \ stops[i].orders
    BY <1>1, <1>2, <1>3, CompleteVan
  <1> QED
    BY <1>1, <1>3, <1>4, <1>5, <1>6, <1>7, <1>8, EndIsServed

\* What was delivered stays so, and nothing else is delivered.
LEMMA GoesDelivered ==
  ASSUME NEW ss, NEW tt, NEW S, Goes(ss, tt, S), NEW k \in 1..Len(ss)
  PROVE  Delivered(tt, k) <=> Delivered(ss, k)
  BY DEF Goes, Delivered, Live, Lost, FINISHED

LEMMA FlagIsServed ==
  ASSUME RouteInv, AttemptInv, ServedInv, NEW i \in Rows, Flag(i) PROVE ServedInv'
  <1> DEFINE left == FlagLeaves(i)
             X == stops[i].orders
  <1>1. /\ i \in Live(stops) /\ IsRoute(stops) /\ stops' = Promote(left) /\ IsRoute(left)
        /\ Goes(stops, left, X) /\ Len(left) = Len(stops) /\ Live(left) \subseteq Live(stops) \ {i}
        /\ left[i].status = "failed" /\ left[i].type = stops[i].type /\ left[i].orders = X
    BY FlagLeft
  <1> HIDE DEF left
  <1>2. i \in 1..Len(stops) /\ stops[i].type \in {"pickup", "dropoff"} /\ X \subseteq Orders
    <2>1. i \in 1..Len(stops) /\ IsStop(stops[i])
      BY <1>1 DEF Live, IsRoute
    <2> QED
      BY <2>1 DEF IsStop
  <1>3. Attempts(stops)
    BY DEF AttemptInv
  <1>4. OnTheWay(stops') /\ Goes(left, stops', {})
    BY <1>1, PromotedOnTheWay, PromoteGoes
  <1>5. CASE stops[i].type = "pickup"
    <2>1. X \cap InVan(stops) = {}
      BY <1>1, <1>3, <1>5, ToCollectNotInVan
    <2>2. Calm(stops, left)
      BY <1>1, <2>1, GoesCalm
    <2>3. Calm(left, stops')
      BY <1>1, <1>4, GoesCalm
    <2>4. UNCHANGED <<load, paid, served, clean>>
      BY <1>5 DEF Flag
    <2> QED
      BY <1>4, <2>2, <2>3, <2>4, CalmTwice, CalmIsServed
  <1>6. CASE stops[i].type = "dropoff"
    <2>1. Serve(i, "read", ~PickupPending(i)) /\ UNCHANGED <<load, paid>>
      BY <1>6 DEF Flag
    <2>2. /\ Len(stops') = Len(stops) /\ Live(stops') = Live(left)
          /\ stops'[i].type = stops[i].type /\ stops'[i].orders = X /\ stops'[i].status = "failed"
      BY <1>1, <1>2, PromoteKeeps DEF FINISHED
    <2>3. ~Delivered(stops', i)
      BY <2>2 DEF Delivered
    <2>4. ASSUME NEW k \in 1..Len(stops) PROVE Delivered(stops', k) <=> Delivered(stops, k)
      <3>1. Delivered(left, k) <=> Delivered(stops, k)
        BY <1>1, GoesDelivered
      <3>2. Delivered(stops', k) <=> Delivered(left, k)
        BY <1>1, <1>4, GoesDelivered
      <3> QED
        BY <3>1, <3>2
    <2>5. ASSUME clean' PROVE X \subseteq InVan(stops) /\ InVan(stops') = InVan(stops) \ X
      <3>1. ~PickupPending(i)
        BY <2>1, <2>5, Zenon DEF Serve
      <3>2. \A o \in X : o \in InVan(stops)
        BY <1>1, <1>2, <1>3, <1>6, <3>1, CollectedInVan DEF PickupPending
      <3>3. InVan(stops') \subseteq InVan(left) /\ InVan(left) \ {} \subseteq InVan(stops')
        BY <1>1, <1>4, GoesVan
      <3>4. InVan(left) \subseteq InVan(stops) /\ InVan(stops) \ X \subseteq InVan(left)
        BY <1>1, GoesVan
      <3>5. ASSUME NEW o \in X PROVE o \notin InVan(left)
        <4>1. \A k \in 1..Len(stops) : Collects(left, o, k) => Collects(stops, o, k)
          BY <1>1 DEF Collects, Goes, Lost, FINISHED
        <4>2. left[i].type = "dropoff" /\ o \in left[i].orders /\ left[i].status \in FINISHED
          BY <1>1, <1>6 DEF FINISHED
        <4> QED
          BY <1>1, <1>3, <1>6, <4>1, <4>2, EndedNotInVan
      <3> QED
        BY <3>2, <3>3, <3>4, <3>5
    <2>6. "read" \in {"pay", "read"} /\ "read" # "pay"
      OBVIOUS
    <2> QED
      BY <1>1, <1>4, <1>6, <2>1, <2>2, <2>3, <2>4, <2>5, <2>6, EndIsServed
  <1> QED
    BY <1>2, <1>5, <1>6

(* A request goes on.  While every request so far ran alone to its end it is *)
(* the only one being served.                                               *)

\* The request in its next phase, or none.
NextOf(r, phase, seen) ==
  IF phase = "done" THEN {} ELSE {[stop |-> r.stop, phase |-> phase, seen |-> seen]}

Renewed(r, phase, seen) == [r EXCEPT !.phase = phase, !.seen = seen]

LEMMA InNextPhase ==
  ASSUME NEW r, NEW i, NEW p, NEW n, r = [stop |-> i, phase |-> p, seen |-> n], NEW phase, NEW seen
  PROVE  Renewed(r, phase, seen) = [stop |-> i, phase |-> phase, seen |-> seen]
  <1> DEFINE q == [r EXCEPT !.phase = phase]
  <1>1. q = [stop |-> i, phase |-> phase, seen |-> n]
    OBVIOUS
  <1>2. Renewed(r, phase, seen) = [q EXCEPT !.seen = seen]
    BY DEF Renewed
  <1> HIDE DEF q
  <1>3. [q EXCEPT !.seen = seen] = [stop |-> i, phase |-> phase, seen |-> seen]
    BY <1>1
  <1> QED
    BY <1>2, <1>3

LEMMA MovesOn ==
  ASSUME ServedInv, NEW r \in served, NEW phase, NEW seen \in Nat, Move(r, phase, seen),
         Len(stops') = Len(stops), Live(stops') = Live(stops), load' \in Nat,
         \A i \in paid' : i \in 1..Len(stops), clean' => clean
  PROVE  /\ ServedTypes' /\ Alone'
         /\ clean' => clean /\ served = {r} /\ served' = NextOf(r, phase, seen)
  <1>1. r = [stop |-> r.stop, phase |-> r.phase, seen |-> r.seen] /\ r.stop \in 1..Len(stops)
        /\ r.stop \notin Live(stops)
    BY DEF ServedInv, ServedTypes
  <1>2. Renewed(r, phase, seen) = [stop |-> r.stop, phase |-> phase, seen |-> seen]
    BY <1>1, InNextPhase
  <1>3. served' = (served \ {r}) \cup NextOf(r, phase, seen)
    <2>1. served' = (served \ {r}) \cup (IF phase = "done" THEN {} ELSE {Renewed(r, phase, seen)})
      BY DEF Move, Renewed
    <2> QED
      BY <1>2, <2>1 DEF NextOf
  <1>4. \A q \in NextOf(r, phase, seen) :
          /\ q = [stop |-> q.stop, phase |-> q.phase, seen |-> q.seen] /\ q.seen \in Nat /\ q.stop = r.stop
    BY DEF NextOf
  <1>5. \A q \in served' :
          /\ q = [stop |-> q.stop, phase |-> q.phase, seen |-> q.seen] /\ q.seen \in Nat
          /\ q.stop \in 1..Len(stops') /\ q.stop \notin Live(stops')
    BY <1>1, <1>3, <1>4 DEF ServedInv, ServedTypes
  <1>6. ServedTypes'
    BY <1>5 DEF ServedTypes
  <1>7. clean' => clean /\ served = {r} /\ served' = NextOf(r, phase, seen)
    <2> SUFFICES ASSUME clean' PROVE clean /\ served = {r} /\ served' = NextOf(r, phase, seen)
      OBVIOUS
    <2>1. \A q \in served : q = r
      BY DEF ServedInv, Alone
    <2> QED
      BY <1>3, <2>1
  <1>8. Alone'
    BY <1>7 DEF Alone, NextOf
  <1> QED
    BY <1>6, <1>7, <1>8

LEMMA PayOutIsServed ==
  ASSUME ServedInv, NEW r \in served, PayOut(r) PROVE ServedInv'
  <1> DEFINE q == [stop |-> r.stop, phase |-> "read", seen |-> 0]
  <1>1. r.phase = "pay" /\ paid' = paid \cup {r.stop} /\ Move(r, "read", 0) /\ UNCHANGED <<stops, load, clean>>
    BY DEF PayOut
  <1>2. r.stop \in 1..Len(stops) /\ load \in Nat /\ \A i \in paid : i \in 1..Len(stops)
    BY DEF ServedInv, ServedTypes
  <1>3. ServedTypes' /\ Alone' /\ (clean => served = {r} /\ served' = NextOf(r, "read", 0))
    BY <1>1, <1>2, MovesOn
  <1>4. clean => served = {r} /\ served' = {q}
    BY <1>3 DEF NextOf
  <1>5. q.stop = r.stop /\ q.phase = "read"
    OBVIOUS
  <1> HIDE DEF q
  <1>6. Loads'
    <2> SUFFICES ASSUME clean PROVE Loaded(q, stops, load)
      BY <1>1, <1>4 DEF Loads
    <2>1. Loaded(r, stops, load)
      BY DEF ServedInv, Loads
    <2>2. Before(q, stops) = Before(r, stops)
      BY <1>5 DEF Before
    <2> QED
      BY <1>1, <1>5, <2>1, <2>2 DEF Loaded
  <1>7. Payouts'
    <2> SUFFICES ASSUME clean, NEW i \in 1..Len(stops)
                 PROVE  (i \in paid' \/ \E p \in served' : p.phase = "pay" /\ p.stop = i) <=> Delivered(stops, i)
      BY <1>1 DEF Payouts
    <2>1. (i \in paid \/ i = r.stop) <=> Delivered(stops, i)
      BY <1>1, <1>4 DEF ServedInv, Payouts
    <2> QED
      BY <1>1, <1>4, <1>5, <2>1
  <1>8. Promises'
    <2> SUFFICES ASSUME clean PROVE OnTheWay(stops) \/ stops[q.stop].status = "completed"
      BY <1>1, <1>4 DEF Promises
    <2> QED
      BY <1>4, <1>5 DEF ServedInv, Promises
  <1> QED
    BY <1>3, <1>6, <1>7, <1>8 DEF ServedInv

LEMMA LoadReadIsServed ==
  ASSUME ServedInv, NEW r \in served, LoadRead(r) PROVE ServedInv'
  <1> DEFINE q == [stop |-> r.stop, phase |-> "write", seen |-> load]
  <1>1. r.phase = "read" /\ Move(r, "write", load) /\ UNCHANGED <<stops, load, paid, clean>>
    BY DEF LoadRead
  <1>2. load \in Nat /\ \A i \in paid : i \in 1..Len(stops)
    BY DEF ServedInv, ServedTypes
  <1>3. ServedTypes' /\ Alone' /\ (clean => served = {r} /\ served' = NextOf(r, "write", load))
    BY <1>1, <1>2, MovesOn
  <1>4. clean => served = {r} /\ served' = {q}
    BY <1>3 DEF NextOf
  <1>5. q.stop = r.stop /\ q.phase = "write" /\ q.seen = load
    OBVIOUS
  <1> HIDE DEF q
  <1>6. Loads'
    <2> SUFFICES ASSUME clean PROVE Loaded(q, stops, load)
      BY <1>1, <1>4 DEF Loads
    <2>1. Loaded(r, stops, load)
      BY DEF ServedInv, Loads
    <2>2. Before(q, stops) = Before(r, stops)
      BY <1>5 DEF Before
    <2> QED
      BY <1>1, <1>5, <2>1, <2>2 DEF Loaded
  <1>7. Payouts'
    BY <1>1, <1>4, <1>5 DEF ServedInv, Payouts
  <1>8. Promises'
    <2> SUFFICES ASSUME clean PROVE OnTheWay(stops) \/ stops[q.stop].status = "completed"
      BY <1>1, <1>4 DEF Promises
    <2> QED
      BY <1>4, <1>5 DEF ServedInv, Promises
  <1> QED
    BY <1>3, <1>6, <1>7, <1>8 DEF ServedInv

LEMMA LoadWriteIsServed ==
  ASSUME RouteInv, ServedInv, NEW r \in served, LoadWrite(r) PROVE ServedInv'
  <1> DEFINE X == stops[r.stop].orders
             w == Total(Weight, X)
             V == InVan(stops)
             phase == IF stops[r.stop].status = "completed" /\ route = "active" THEN "promote" ELSE "done"
  <1>1. /\ r.phase = "write" /\ Move(r, phase, 0) /\ UNCHANGED <<stops, paid, clean>>
        /\ load' = CASE stops[r.stop].type = "pickup" -> r.seen + w
                     [] OTHER -> IF r.seen > w THEN r.seen - w ELSE 0
    BY DEF LoadWrite
  <1>2. r.stop \in 1..Len(stops) /\ r.seen \in Nat /\ \A i \in paid : i \in 1..Len(stops)
    BY DEF ServedInv, ServedTypes
  <1>3. X \in SUBSET Orders /\ V \in SUBSET Orders /\ stops[r.stop].type \in {"pickup", "dropoff"}
    <2>1. IsStop(stops[r.stop])
      BY <1>2 DEF RouteInv, IsRoute
    <2> QED
      BY <2>1 DEF IsStop, InVan
  <1>4. w \in Nat
    BY <1>3, WeightTotals
  <1>5. load' = IF stops[r.stop].type = "pickup" THEN r.seen + w
                ELSE IF r.seen > w THEN r.seen - w ELSE 0
    BY <1>1
  <1>6. load' \in Nat
    <2> HIDE DEF w
    <2> QED
      BY <1>2, <1>4, <1>5
  <1>7. ServedTypes' /\ Alone' /\ (clean => served = {r} /\ served' = NextOf(r, phase, 0))
    <2> HIDE DEF phase
    <2> QED
      BY <1>1, <1>2, <1>6, MovesOn
  <1>8. ASSUME clean PROVE load' = Total(Weight, V)
    <2>1. Loaded(r, stops, load)
      BY <1>8 DEF ServedInv, Loads
    <2>2. /\ r.seen = Total(Weight, Before(r, stops))
          /\ IF stops[r.stop].type = "pickup" THEN X \subseteq V ELSE X \cap V = {}
      BY <1>1, <2>1 DEF Loaded
    <2>3. CASE stops[r.stop].type = "pickup"
      <3> DEFINE B == V \ X
      <3>1. r.seen = Total(Weight, B) /\ B \in SUBSET Orders /\ B \cap X = {} /\ B \cup X = V
        BY <1>3, <2>2, <2>3 DEF Before
      <3> HIDE DEF B, X, V
      <3>2. Total(Weight, V) = Total(Weight, B) + Total(Weight, X)
        BY <1>3, <3>1, WeightTotals
      <3> QED
        BY <1>5, <2>3, <3>1, <3>2
    <2>4. CASE stops[r.stop].type # "pickup"
      <3> HIDE DEF X, V
      <3>1. r.seen = Total(Weight, V \cup X) /\ V \cap X = {}
        BY <2>2, <2>4 DEF Before, X, V
      <3>2. Total(Weight, V \cup X) = Total(Weight, V) + Total(Weight, X) /\ Total(Weight, V) \in Nat
        BY <1>3, <3>1, WeightTotals
      <3>3. r.seen = Total(Weight, V) + w /\ load' = IF r.seen > w THEN r.seen - w ELSE 0
        BY <1>5, <2>4, <3>1, <3>2
      <3> HIDE DEF w
      <3> QED
        BY <1>2, <1>4, <3>2, <3>3
    <2> QED
      BY <2>3, <2>4
  <1>9. Loads'
    <2>1. \A p \in NextOf(r, phase, 0) : p.phase = "promote"
      BY DEF NextOf
    <2> SUFFICES ASSUME clean PROVE \A p \in served' : Loaded(p, stops, load')
      BY <1>1, <1>8 DEF Loads
    <2> HIDE DEF phase
    <2> QED
      BY <1>7, <1>8, <2>1 DEF Loaded
  <1>10. Payouts'
    <2>1. \A p \in NextOf(r, phase, 0) : p.phase # "pay"
      BY DEF NextOf
    <2> HIDE DEF phase
    <2> QED
      BY <1>1, <1>7, <2>1 DEF ServedInv, Payouts
  <1>11. Promises'
    <2> SUFFICES ASSUME clean
                 PROVE  OnTheWay(stops) \/ \E p \in served' : stops[p.stop].status = "completed"
      BY <1>1 DEF Promises
    <2>1. CASE phase = "promote"
      <3> DEFINE p == [stop |-> r.stop, phase |-> "promote", seen |-> 0]
      <3>1. stops[r.stop].status = "completed" /\ NextOf(r, phase, 0) = {p}
        BY <2>1 DEF NextOf
      <3>2. p.stop = r.stop
        OBVIOUS
      <3> HIDE DEF p, phase
      <3> QED
        BY <1>7, <3>1, <3>2
    <2>2. CASE phase = "done"
      <3>1. stops[r.stop].status # "completed" \/ route # "active"
        BY <2>2
      <3>2. stops # <<>>
        <4>1. stops = <<>> => Len(stops) = 0
          OBVIOUS
        <4> QED
          BY <1>2, <4>1
      <3>3. route # "active" => Live(stops) = {}
        BY <3>2 DEF RouteInv, RouteEndsWithItsStops
      <3>4. OnTheWay(stops) \/ stops[r.stop].status = "completed"
        BY <1>7 DEF ServedInv, Promises
      <3> QED
        BY <3>1, <3>3, <3>4 DEF OnTheWay
    <2> QED
      BY <2>1, <2>2
  <1> QED
    BY <1>7, <1>9, <1>10, <1>11 DEF ServedInv

LEMMA PromoteNextIsServed ==
  ASSUME RouteInv, ServedInv, NEW r \in served, PromoteNext(r) PROVE ServedInv'
  <1>1. /\ r.phase = "promote" /\ stops' = Promote(stops) /\ Move(r, "done", 0)
        /\ UNCHANGED <<load, paid, clean>> /\ IsRoute(stops)
    BY DEF PromoteNext, RouteInv
  <1>2. Len(stops') = Len(stops) /\ Live(stops') = Live(stops) /\ OnTheWay(stops') /\ Goes(stops, stops', {})
    BY <1>1, PromoteKeeps, PromotedOnTheWay, PromoteGoes
  <1>3. load \in Nat /\ \A i \in paid : i \in 1..Len(stops)
    BY DEF ServedInv, ServedTypes
  <1>4. ServedTypes' /\ Alone' /\ (clean => served = {r} /\ served' = NextOf(r, "done", 0))
    BY <1>1, <1>2, <1>3, MovesOn
  <1>5. clean => served = {r} /\ served' = {}
    BY <1>4 DEF NextOf
  <1>6. Calm(stops, stops')
    BY <1>1, <1>2, GoesCalm
  <1>7. Loads'
    <2> SUFFICES ASSUME clean PROVE load = Total(Weight, InVan(stops'))
      BY <1>1, <1>5 DEF Loads
    <2>1. Loaded(r, stops, load) /\ InVan(stops') = InVan(stops)
      BY <1>6 DEF ServedInv, Loads, Calm
    <2> QED
      BY <1>1, <2>1 DEF Loaded
  <1>8. Payouts'
    <2> SUFFICES ASSUME clean, NEW i \in 1..Len(stops)
                 PROVE  i \in paid <=> Delivered(stops', i)
      BY <1>1, <1>2, <1>5 DEF Payouts
    <2>1. Delivered(stops', i) <=> Delivered(stops, i)
      BY <1>2, GoesDelivered
    <2> QED
      BY <1>1, <1>5, <2>1 DEF ServedInv, Payouts
  <1>9. Promises'
    BY <1>2 DEF Promises
  <1> QED
    BY <1>4, <1>7, <1>8, <1>9 DEF ServedInv

LEMMA DiesIsServed ==
  ASSUME ServedInv, NEW r \in served, Dies(r) PROVE ServedInv'
  <1>1. served' = served \ {r} /\ clean' = FALSE /\ UNCHANGED <<stops, load, paid>>
    BY DEF Dies
  <1>2. ServedTypes'
    BY <1>1 DEF ServedInv, ServedTypes
  <1>3. Alone' /\ Loads' /\ Payouts' /\ Promises'
    BY <1>1 DEF Alone, Loads, Payouts, Promises
  <1> QED
    BY <1>2, <1>3 DEF ServedInv

LEMMA ServedStep == RouteInv /\ AttemptInv /\ ServedInv /\ [Next]_vars => ServedInv'
  <1> SUFFICES ASSUME RouteInv, AttemptInv, ServedInv, [Next]_vars PROVE ServedInv'
    OBVIOUS
  <1>1. CASE Accept
    BY <1>1, AcceptIsServed
  <1>2. CASE \/ \E i \in Rows : Arrive(i)
             \/ \E i \in Rows, o \in Orders : ScanParcel(i, o)
             \/ CountWrite
    BY <1>2, ServingIsServed
  <1>3. CASE \E i \in Rows : Complete(i) \/ Flag(i)
    BY <1>3, CompleteIsServed, FlagIsServed
  <1>4. CASE \E r \in served : PayOut(r) \/ LoadRead(r) \/ LoadWrite(r) \/ PromoteNext(r) \/ Dies(r)
    BY <1>4, PayOutIsServed, LoadReadIsServed, LoadWriteIsServed, PromoteNextIsServed, DiesIsServed
  <1>5. CASE \E o \in Orders : Cancel(o) \/ Insert(o)
    BY <1>5, CancelIsServed, InsertIsServed
  <1>6. CASE \/ \E i \in Rows : CountRead(i)
             \/ \E o \in Orders : Redeliver(o)
             \/ UNCHANGED vars
    <2>1. UNCHANGED <<stops, load, paid, served, clean>>
      BY <1>6 DEF CountRead, Redeliver, vars
    <2> QED
      BY <2>1 DEF ServedInv, ServedTypes, Alone, Loads, Payouts, Promises
  <1> QED
    BY <1>1, <1>2, <1>3, <1>4, <1>5, <1>6 DEF Next

LEMMA ServedInvHolds == Spec => []ServedInv
  <1>1. Init => ServedInv
    <2> SUFFICES ASSUME Init PROVE ServedInv
      OBVIOUS
    <2>1. /\ stops = <<>> /\ Len(stops) = 0 /\ load = 0 /\ paid = {} /\ served = {}
      BY DEF Init
    <2>2. Live(stops) = {} /\ 1..Len(stops) = {} /\ InVan(stops) = {}
      BY <2>1 DEF Live, InVan
    <2>3. Total(Weight, {}) = 0
      BY RouteAssumption, TotalStep
    <2>4. ServedTypes
      BY <2>1 DEF ServedTypes
    <2>5. Alone /\ Loads /\ Payouts /\ Promises
      BY <2>1, <2>2, <2>3 DEF Alone, Loads, Payouts, Promises, OnTheWay
    <2> QED
      BY <2>4, <2>5 DEF ServedInv
  <1> QED
    BY <1>1, ServedStep, RouteInvHolds, AttemptInvHolds, PTL DEF Spec

-----------------------------------------------------------------------------
(* The theorems.                                                           *)

(* However completions, flags, cancels and insertions interleave on one     *)
(* route (app/api/driver_routes.py, app/delivery/routes.py), it is over      *)
(* exactly when nothing on it is left to do.                                *)
THEOREM RouteEnds == Spec => []RouteEndsWithItsStops
  <1>1. RouteInv => RouteEndsWithItsStops
    BY DEF RouteInv
  <1> QED
    BY <1>1, RouteInvHolds, PTL

(* No drop-off is completed on a route that did not complete a pickup of    *)
(* its order before it, through shared pickups that lose orders, flags,     *)
(* redeliveries and insertions (complete_stop, take_orders_off_stops).      *)
THEOREM NothingUncollectedIsDelivered == Spec => []DeliveredWasCollected
  <1>1. RouteInv => DeliveredWasCollected
    <2> SUFFICES ASSUME RouteInv, NEW i \in Rows, stops[i].type = "dropoff",
                        stops[i].status = "completed", NEW o \in stops[i].orders
                 PROVE  \E j \in 1..(i - 1) :
                          /\ stops[j].type = "pickup" /\ stops[j].status = "completed"
                          /\ o \in stops[j].orders
      BY DEF DeliveredWasCollected
    <2>1. Len(stops) \in Nat
      BY SeqFacts DEF RouteInv, IsRoute
    <2>2. PICK j \in 1..Len(stops) :
             /\ j < i /\ stops[j].type = "pickup" /\ o \in stops[j].orders
             /\ stops[j].status = "completed"
      BY DEF RouteInv, Collected, Rows, Lost
    <2> QED
      BY <2>1, <2>2 DEF Rows
  <1> QED
    BY <1>1, RouteInvHolds, PTL

(* No request, however late or repeated, reopens a stop that ended or       *)
(* rewrites how it ended.                                                   *)
THEOREM FinishedStaysFinished == Spec => StopsFinishOnce
  <1>1. RouteInv /\ [Next]_vars =>
          [\A i \in Rows : stops[i].status \in FINISHED => stops'[i].status = stops[i].status]_vars
    BY StepIsGood DEF Good, Finishes, Rows
  <1> QED
    BY <1>1, RouteInvHolds, PTL DEF Spec, StopsFinishOnce

(* A route being driven implements the order lifecycle: every status the    *)
(* driver's requests and dispatch write is a legal move.                    *)
THEOREM RouteFollowsLifecycle == Spec => FollowsLifecycle
  <1>1. Init => Lifecycle!Init
    BY DEF Init, Lifecycle!Init, Lifecycle!OrderStatus
  <1>2. RouteInv /\ [Next]_vars => [Lifecycle!Next]_status
    BY StepIsGood DEF Good, LegalMoves, Lifecycle!Next, OrderStatus, Lifecycle!OrderStatus
  <1> QED
    BY <1>1, <1>2, RouteInvHolds, PTL DEF Spec, FollowsLifecycle, Lifecycle!Spec

(* A pickup whose orders all have barcodes never asks for more parcels than  *)
(* there are barcodes, whichever orders have left it and however it was      *)
(* built (accept_offer, take_orders_off_stops): the driver can always scan   *)
(* to the count that complete_stop asks for.                                 *)
THEOREM CountsCanBeScanned == Spec => []ScanReachesCount
  <1>1. RouteInv /\ AttemptInv => ScanReachesCount
    <2> SUFFICES ASSUME RouteInv, AttemptInv, NEW i \in Live(stops), stops[i].type = "pickup",
                        \A o \in stops[i].orders : Parcels[o] > 0
                 PROVE  stops[i].parcels <= Total(Parcels, stops[i].orders)
      BY DEF ScanReachesCount
    <2> DEFINE X == stops[i].orders
    <2>1. X \in SUBSET Orders
      BY DEF RouteInv, IsRoute, IsStop, Live
    <2>2. stops[i].parcels <= PlannedCount(X)
      BY DEF AttemptInv, Counted
    <2>3. {o \in X : Parcels[o] = 0} = {}
      OBVIOUS
    <2>4. Cardinality({o \in X : Parcels[o] = 0}) = 0
      BY <2>3, FS_EmptySet
    <2>5. Total(Parcels, X) \in Nat
      BY <2>1, ParcelTotals
    <2>6. PlannedCount(X) = Total(Parcels, X)
      BY <2>4, <2>5 DEF PlannedCount
    <2> QED
      BY <2>2, <2>6
  <1> QED
    BY <1>1, RouteInvHolds, AttemptInvHolds, PTL

(* A driver whose stops were all served alone and to the end has what the    *)
(* commits promised (complete_stop, flag_stop_issue and what follows them):   *)
(* the hash's load is the weight in the van, exactly the completed drop-offs  *)
(* are paid, and the first stop still to be done is where the driver goes,    *)
(* whatever was cancelled, inserted or flagged on the way.                    *)
THEOREM ServedRoutesAreSettled == Spec => []QuietRouteIsSettled
  <1>1. RouteInv /\ ServedInv => QuietRouteIsSettled
    <2> SUFFICES ASSUME RouteInv, ServedInv, clean, served = {}
                 PROVE  /\ load = Total(Weight, Aboard)
                        /\ paid = {i \in Rows : stops[i].type = "dropoff" /\ stops[i].status = "completed"}
                        /\ Live(stops) # {} => stops[Min(Live(stops))].status # "pending"
      BY DEF QuietRouteIsSettled
    <2>1. load = Total(Weight, Aboard)
      BY AboardIsInVan DEF RouteInv, ServedInv, Loads
    <2>2. paid = {i \in Rows : stops[i].type = "dropoff" /\ stops[i].status = "completed"}
      BY DEF ServedInv, ServedTypes, Payouts, Delivered, Rows
    <2>3. Live(stops) # {} => stops[Min(Live(stops))].status # "pending"
      BY DEF ServedInv, Promises, OnTheWay
    <2> QED
      BY <2>1, <2>2, <2>3
  <1> QED
    BY <1>1, RouteInvHolds, ServedInvHolds, PTL

=============================================================================
