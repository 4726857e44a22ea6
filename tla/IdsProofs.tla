------------------------------ MODULE IdsProofs ------------------------------
(***************************************************************************)
(* The id that NextId makes is new.  Max is a CHOOSE: it has a value only  *)
(* where a largest id exists, which needs a bound on the ids in use.       *)
(***************************************************************************)
EXTENDS Ids, WellFoundedInduction, TLAPS

Bounded(ids) == \E b \in Nat : \A i \in ids : i <= b

\* Every nonempty set of naturals has a least element.
LEMMA LeastNat ==
  ASSUME NEW T \in SUBSET Nat, T # {}
  PROVE  \E m \in T : \A k \in T : m <= k
<1> DEFINE R == OpToRel(<, Nat)
<1>1. IsWellFoundedOn(R, Nat)
  BY NatLessThanWellFounded
<1>2. \A x, y \in Nat : y < x => <<y, x>> \in R
  BY DEF OpToRel
<1> HIDE DEF R
<1>3. PICK m \in T : \A k \in T : ~(<<k, m>> \in R)
  BY <1>1, WFMin
<1>4. ASSUME NEW k \in T PROVE m <= k
  <2>1. ~(k < m)
    BY <1>2, <1>3
  <2> QED
    BY <2>1
<1> QED
  BY <1>3, <1>4

\* A nonempty bounded set of naturals contains its Max, which bounds it.
LEMMA MaxIsLargest ==
  ASSUME NEW S \in SUBSET Nat, S # {}, Bounded(S)
  PROVE  Max(S) \in S /\ \A x \in S : x <= Max(S)
<1> DEFINE Above == {u \in Nat : \A x \in S : x <= u}
<1>1. Above # {}
  BY DEF Bounded
<1>2. PICK m \in Above : \A u \in Above : m <= u
  BY <1>1, LeastNat
<1>3. m \in S
  <2> SUFFICES ASSUME m \notin S PROVE FALSE
    OBVIOUS
  <2>1. \A x \in S : x < m
    BY <1>2
  <2>2. m - 1 \in Nat
    <3>1. PICK x \in S : x < m
      BY <2>1
    <3>2. x \in Nat /\ m \in Nat
      OBVIOUS
    <3> QED
      BY <3>1, <3>2
  <2>3. m - 1 \in Above
    BY <1>2, <2>1, <2>2
  <2> QED
    BY <1>2, <2>3
<1>4. \E x \in S : \A y \in S : x >= y
  BY <1>2, <1>3
<1>5. Max(S) \in S /\ \A y \in S : Max(S) >= y
  BY <1>4 DEF Max
<1> QED
  BY <1>5

\* add_user and subscribe: the new id is a positive number above all those in
\* use, and so is not one of them.
THEOREM NextIdIsNew ==
  ASSUME NEW ids \in SUBSET Nat, Bounded(ids)
  PROVE  /\ NextId(ids) \in Nat \ {0}
         /\ \A i \in ids : i < NextId(ids)
         /\ NextId(ids) \notin ids
<1> DEFINE S == ids \cup {0}
<1>1. S \in SUBSET Nat /\ S # {}
  OBVIOUS
<1>2. Bounded(S)
  BY DEF Bounded
<1>3. Max(S) \in S /\ \A x \in S : x <= Max(S)
  BY <1>1, <1>2, MaxIsLargest
<1>4. NextId(ids) = Max(S) + 1
  BY DEF NextId
<1>5. Max(S) \in Nat /\ \A i \in ids : i <= Max(S)
  BY <1>1, <1>3
<1>6. NextId(ids) \in Nat \ {0}
  BY <1>4, <1>5
<1>7. \A i \in ids : i < NextId(ids)
  <2> TAKE i \in ids
  <2>1. i \in Nat /\ i <= Max(S)
    BY <1>5
  <2> QED
    BY <1>4, <1>5, <2>1
<1>8. NextId(ids) \notin ids
  BY <1>6, <1>7
<1> QED
  BY <1>6, <1>7, <1>8

\* An id added to bounded ones leaves them bounded, and so does removing any.
LEMMA BoundedAdd ==
  ASSUME NEW ids \in SUBSET Nat, NEW id \in Nat, Bounded(ids)
  PROVE  Bounded(ids \cup {id})
<1>1. PICK b \in Nat : \A i \in ids : i <= b
  BY DEF Bounded
<1>2. CASE id <= b
  BY <1>1, <1>2 DEF Bounded
<1>3. CASE b < id
  BY <1>1, <1>3 DEF Bounded
<1> QED
  BY <1>2, <1>3, <1>1

LEMMA BoundedSubset ==
  ASSUME NEW ids, NEW fewer \in SUBSET ids, Bounded(ids)
  PROVE  Bounded(fewer)
BY DEF Bounded

\* Games of different moments have different ids whoever plays them, as long as
\* the timestamps have as many digits, which they do until 2286 (Game::new).
THEOREM GameIdsDiffer ==
  ASSUME NEW Digits, NEW t \in Seq(Digits), NEW u \in Seq(Digits),
         Len(t) = Len(u), t # u,
         NEW guest \in Seq(Digits), NEW host \in Seq(Digits),
         NEW guest2 \in Seq(Digits), NEW host2 \in Seq(Digits)
  PROVE  GameId(t, guest, host) # GameId(u, guest2, host2)
<1>1. PICK i \in 1 .. Len(t) : t[i] # u[i]
  <2>1. t \in [1 .. Len(t) -> Digits] /\ u \in [1 .. Len(t) -> Digits]
    OBVIOUS
  <2> QED
    BY <2>1
<1>2. GameId(t, guest, host)[i] = t[i] /\ GameId(u, guest2, host2)[i] = u[i]
  BY DEF GameId
<1> QED
  BY <1>1, <1>2

\* The ids of the players, which Game::new adds "to ensure a unique ID", do not:
\* guest 1 of host 11 and guest 11 of host 1 are told apart by the clock alone.
THEOREM PlayersDoNotSeparate ==
  ASSUME NEW Digits, NEW t \in Seq(Digits), NEW d \in Digits
  PROVE  GameId(t, <<d>>, <<d, d>>) = GameId(t, <<d, d>>, <<d>>)
<1> DEFINE one == <<d>>
           two == <<d, d>>
           Glued(s) == /\ s \in Seq(Digits) /\ Len(s) = Len(t) + 3
                       /\ \A i \in 1 .. Len(t) + 3 :
                            s[i] = IF i <= Len(t) THEN t[i] ELSE d
<1>1. one \in Seq(Digits) /\ Len(one) = 1 /\ one[1] = d
  OBVIOUS
<1>2. two \in Seq(Digits) /\ Len(two) = 2 /\ two[1] = d /\ two[2] = d
  OBVIOUS
<1> HIDE DEF one, two
<1> DEFINE tail(v) == /\ v \in Seq(Digits) /\ Len(v) \in 1 .. 2
                      /\ \A i \in 1 .. Len(v) : v[i] = d
<1>3. ASSUME NEW v, NEW w, tail(v), tail(w), Len(v) + Len(w) = 3
      PROVE  Glued(t \o v \o w)
  <2> DEFINE front == t \o v
             all == front \o w
  <2>1. /\ front \in Seq(Digits) /\ Len(front) = Len(t) + Len(v)
        /\ \A i \in 1 .. Len(front) : front[i] = IF i <= Len(t) THEN t[i] ELSE d
    BY <1>3
  <2> HIDE DEF front
  <2>2. all \in Seq(Digits) /\ Len(all) = Len(front) + Len(w)
    BY <1>3, <2>1
  <2>3. \A i \in 1 .. Len(all) :
          all[i] = IF i <= Len(front) THEN front[i] ELSE w[i - Len(front)]
    BY <1>3, <2>1
  <2> HIDE DEF all
  <2>4. Len(t) \in Nat /\ Len(all) = Len(t) + 3
    BY <1>3, <2>1, <2>2
  <2>5. \A i \in 1 .. Len(t) + 3 : all[i] = IF i <= Len(t) THEN t[i] ELSE d
    BY <1>3, <2>1, <2>2, <2>3, <2>4
  <2> QED
    BY <2>2, <2>4, <2>5 DEF all, front
<1>4. tail(one) /\ tail(two)
  BY <1>1, <1>2
<1>5. \A v, w : Glued(v) /\ Glued(w) => v = w
  OBVIOUS
<1> QED
  BY <1>1, <1>2, <1>3, <1>4, <1>5 DEF GameId, one, two

=============================================================================
