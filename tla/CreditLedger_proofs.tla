-------------------------- MODULE CreditLedger_proofs --------------------------
(***************************************************************************)
(* What the credit ledger and the metering on top of it keep, for any      *)
(* number of organizations, calls, grants and runs of the lifecycle job.   *)
(***************************************************************************)
EXTENDS MeteredStreams, FiniteSetTheorems, WellFoundedInduction, TLAPS

(***************************************************************************)
(* Sums over finite sets of entries.  MapThenSumSet is a recursive         *)
(* function over the subsets; two such functions agree, since a smallest   *)
(* set on which they differ would have a smaller one.                      *)
(***************************************************************************)

LEMMA SmallestSet ==
    ASSUME NEW A, IsFiniteSet(A), NEW F \in SUBSET SUBSET A, F # {}
    PROVE  \E T \in F : \A U \in F : U \subseteq T => U = T
<1>1. F \subseteq FiniteSubsetsOf(A)
  BY FS_Subset DEF FiniteSubsetsOf
<1>2. PICK T \in F : \A U \in F : ~ (<<U, T>> \in StrictSubsetOrdering(A))
  BY <1>1, FS_StrictSubsetOrderingWellFounded, WFMin, Zenon
<1> QED
  BY <1>2 DEF StrictSubsetOrdering, OpToRel

First(T) == CHOOSE k \in T : TRUE
Rest(T) == T \ {First(T)}

LEMMA RestSmaller == ASSUME NEW T, T # {} PROVE First(T) \in T /\ Rest(T) \subseteq T /\ Rest(T) # T
  BY DEF First, Rest

Total(l, T) == MapThenSumSet(LAMBDA k : l[k].delta, T)

SumsUp(l, A, sum) ==
    sum = [T \in SUBSET A |-> IF T = {} THEN 0 ELSE l[First(T)].delta + sum[Rest(T)]]

LEMMA SumsAgree ==
    ASSUME NEW l, NEW m, NEW A, IsFiniteSet(A), NEW B \in SUBSET A,
           \A k \in B : l[k].delta = m[k].delta,
           NEW f, NEW g, SumsUp(l, A, f), SumsUp(m, B, g)
    PROVE  \A T \in SUBSET B : f[T] = g[T]
<1> DEFINE F == {T \in SUBSET B : f[T] # g[T]}
<1> SUFFICES ASSUME F # {} PROVE FALSE
  OBVIOUS
<1>1. PICK T \in F : \A U \in F : U \subseteq T => U = T
  <2>1. F \in SUBSET SUBSET A
    OBVIOUS
  <2> HIDE DEF F
  <2> QED
    BY <2>1, SmallestSet
<1>2. T # {}
  BY DEF SumsUp
<1>3. f[Rest(T)] = g[Rest(T)]
  BY <1>1, <1>2, RestSmaller
<1> QED
  BY <1>2, <1>3, RestSmaller DEF SumsUp

LEMMA PartOfSum ==
    ASSUME NEW l, NEW A, IsFiniteSet(A), NEW B \in SUBSET A,
           NEW f, NEW g, SumsUp(l, A, f), SumsUp(l, B, g)
    PROVE  f[B] = g[B]
<1>1. PICK m : m = l
  OBVIOUS
<1>2. SumsUp(m, B, g) /\ \A k \in B : l[k].delta = m[k].delta
  BY <1>1
<1>3. \A T \in SUBSET B : f[T] = g[T]
  BY <1>2, SumsAgree
<1> QED
  BY <1>3

LEMMA SumExists ==
    ASSUME NEW l, NEW A, IsFiniteSet(A)
    PROVE  \E sum : SumsUp(l, A, sum)
<1> DEFINE F == {T \in SUBSET A : ~ \E sum : SumsUp(l, T, sum)}
<1> SUFFICES ASSUME F # {} PROVE FALSE
  OBVIOUS
<1>1. PICK T \in F : \A U \in F : U \subseteq T => U = T
  <2>1. F \in SUBSET SUBSET A
    OBVIOUS
  <2> HIDE DEF F
  <2> QED
    BY <2>1, SmallestSet
<1> DEFINE Sum(U) == CHOOSE sum : SumsUp(l, U, sum)
           all == [U \in SUBSET T |-> IF U = {} THEN 0
                                      ELSE l[First(U)].delta + Sum(Rest(U))[Rest(U)]]
<1>2. ASSUME NEW U \in SUBSET T, U # T PROVE SumsUp(l, U, Sum(U)) /\ IsFiniteSet(U)
  <2>1. \E s : SumsUp(l, U, s)
    BY <1>1, <1>2
  <2>2. IsFiniteSet(U)
    BY FS_Subset
  <2> QED
    BY <2>1, <2>2
<1>3. ASSUME NEW U \in SUBSET T, U # T PROVE all[U] = Sum(U)[U]
  <2>0. SumsUp(l, U, Sum(U)) /\ IsFiniteSet(U)
    BY <1>2, <1>3
  <2> HIDE DEF Sum
  <2>1. CASE U = {}
    BY <2>0, <2>1 DEF SumsUp
  <2>2. CASE U # {}
    <3>1. Rest(U) \in SUBSET U /\ Rest(U) \in SUBSET T /\ Rest(U) # T
      BY <2>2, RestSmaller, <1>3
    <3>2. SumsUp(l, Rest(U), Sum(Rest(U)))
      BY <3>1, <1>2
    <3>3. Sum(U)[Rest(U)] = Sum(Rest(U))[Rest(U)]
      BY <2>0, <3>1, <3>2, PartOfSum
    <3>4. Sum(U)[U] = l[First(U)].delta + Sum(U)[Rest(U)]
      BY <2>0, <2>2 DEF SumsUp
    <3> QED
      BY <3>3, <3>4, <2>2
  <2> QED
    BY <2>1, <2>2
<1>4. SumsUp(l, T, all)
  <2>1. ASSUME NEW U \in SUBSET T, U # {}
        PROVE  all[Rest(U)] = Sum(Rest(U))[Rest(U)]
    <3>1. Rest(U) \in SUBSET T /\ Rest(U) # T
      BY <2>1, RestSmaller
    <3> QED
      BY <1>3, <3>1
  <2>2. all = [U \in SUBSET T |-> IF U = {} THEN 0 ELSE l[First(U)].delta + all[Rest(U)]]
    <3>1. \A U \in SUBSET T : all[U] = IF U = {} THEN 0 ELSE l[First(U)].delta + all[Rest(U)]
      <4> SUFFICES ASSUME NEW U \in SUBSET T
                   PROVE  all[U] = IF U = {} THEN 0 ELSE l[First(U)].delta + all[Rest(U)]
        OBVIOUS
      <4>1. all[U] = IF U = {} THEN 0 ELSE l[First(U)].delta + Sum(Rest(U))[Rest(U)]
        OBVIOUS
      <4> HIDE DEF all, Sum
      <4> QED
        BY <2>1, <4>1
    <3>2. all = [U \in SUBSET T |-> all[U]]
      OBVIOUS
    <3> HIDE DEF all
    <3> QED
      BY <3>1, <3>2
  <2> QED
    BY <2>2 DEF SumsUp
<1> QED
  BY <1>1, <1>4

LEMMA TotalSumsUp ==
    ASSUME NEW l, NEW T, IsFiniteSet(T)
    PROVE  \E sum : SumsUp(l, T, sum) /\ Total(l, T) = sum[T]
<1>1. PICK s : SumsUp(l, T, s)
  BY SumExists
<1>2. SumsUp(l, T, CHOOSE sum : SumsUp(l, T, sum))
  BY <1>1
<1>3. Total(l, T) = (CHOOSE sum : SumsUp(l, T, sum))[T]
  BY DEF Total, SumsUp, First, Rest, MapThenSumSet, MapThenFoldSet
<1> QED
  BY <1>2, <1>3

LEMMA TotalOfNone == ASSUME NEW l PROVE Total(l, {}) = 0
<1>1. IsFiniteSet({})
  BY FS_EmptySet
<1>2. PICK sum : SumsUp(l, {}, sum) /\ Total(l, {}) = sum[{}]
  BY <1>1, TotalSumsUp
<1> QED
  BY <1>2 DEF SumsUp

LEMMA TotalSame ==
    ASSUME NEW l, NEW m, NEW T, IsFiniteSet(T), \A k \in T : l[k].delta = m[k].delta
    PROVE  Total(l, T) = Total(m, T)
<1>1. PICK f : SumsUp(l, T, f) /\ Total(l, T) = f[T]
  BY TotalSumsUp
<1>2. PICK g : SumsUp(m, T, g) /\ Total(m, T) = g[T]
  BY TotalSumsUp
<1>3. \A U \in SUBSET T : f[U] = g[U]
  BY <1>1, <1>2, SumsAgree
<1> QED
  BY <1>1, <1>2, <1>3

LEMMA TotalFirst ==
    ASSUME NEW l, NEW T, IsFiniteSet(T), T # {}
    PROVE  Total(l, T) = l[First(T)].delta + Total(l, Rest(T))
<1>1. PICK s : SumsUp(l, T, s) /\ Total(l, T) = s[T]
  BY TotalSumsUp
<1>2. IsFiniteSet(Rest(T)) /\ Rest(T) \in SUBSET T
  BY FS_RemoveElement DEF Rest
<1>3. PICK r : SumsUp(l, Rest(T), r) /\ Total(l, Rest(T)) = r[Rest(T)]
  BY <1>2, TotalSumsUp
<1>4. s[Rest(T)] = r[Rest(T)]
  BY <1>1, <1>2, <1>3, PartOfSum
<1> QED
  BY <1>1, <1>3, <1>4 DEF SumsUp

LEMMA TotalType ==
    ASSUME NEW l, NEW A, IsFiniteSet(A), \A k \in A : l[k].delta \in Int
    PROVE  Total(l, A) \in Int
<1> DEFINE F == {T \in SUBSET A : Total(l, T) \notin Int}
<1> SUFFICES ASSUME F # {} PROVE FALSE
  OBVIOUS
<1>1. PICK T \in F : \A U \in F : U \subseteq T => U = T
  <2>1. F \in SUBSET SUBSET A
    OBVIOUS
  <2> HIDE DEF F
  <2> QED
    BY <2>1, SmallestSet
<1>2. T # {}
  BY TotalOfNone
<1>3. Total(l, Rest(T)) \in Int /\ l[First(T)].delta \in Int
  BY <1>1, <1>2, RestSmaller
<1>4. Total(l, T) = l[First(T)].delta + Total(l, Rest(T))
  BY <1>2, FS_Subset, TotalFirst
<1> QED
  BY <1>3, <1>4

LEMMA TotalOfAny ==
    ASSUME NEW l, NEW A, IsFiniteSet(A), \A k \in A : l[k].delta \in Int, NEW k \in A
    PROVE  Total(l, A) = l[k].delta + Total(l, A \ {k})
<1> DEFINE F == {T \in SUBSET A : \E x \in T : Total(l, T) # l[x].delta + Total(l, T \ {x})}
<1> SUFFICES ASSUME F # {} PROVE FALSE
  OBVIOUS
<1>1. PICK T \in F : \A U \in F : U \subseteq T => U = T
  <2>1. F \in SUBSET SUBSET A
    OBVIOUS
  <2> HIDE DEF F
  <2> QED
    BY <2>1, SmallestSet
<1>2. PICK x \in T : Total(l, T) # l[x].delta + Total(l, T \ {x})
  OBVIOUS
<1>3. \A U \in SUBSET A : IsFiniteSet(U) /\ Total(l, U) \in Int
  BY FS_Subset, TotalType
<1> DEFINE y == First(T)
<1>4. y \in T /\ Total(l, T) = l[y].delta + Total(l, T \ {y})
  BY <1>2, <1>3, TotalFirst, RestSmaller DEF Rest
<1> HIDE DEF y
<1>5. x # y
  BY <1>2, <1>4
<1>6. Total(l, T \ {y}) = l[x].delta + Total(l, (T \ {y}) \ {x})
  BY <1>1, <1>4, <1>5
<1>7. Total(l, T \ {x}) = l[y].delta + Total(l, (T \ {x}) \ {y})
  BY <1>1, <1>4, <1>5
<1>8. (T \ {y}) \ {x} = (T \ {x}) \ {y}
  OBVIOUS
<1>9. /\ l[x].delta \in Int /\ l[y].delta \in Int
      /\ Total(l, (T \ {x}) \ {y}) \in Int
  BY <1>3, <1>4
<1> QED
  <2> DEFINE a == l[x].delta
             b == l[y].delta
             c == Total(l, (T \ {x}) \ {y})
  <2>1. /\ Total(l, T) = b + Total(l, T \ {y})
        /\ Total(l, T \ {y}) = a + c
        /\ Total(l, T \ {x}) = b + c
        /\ Total(l, T) # a + Total(l, T \ {x})
    BY <1>2, <1>4, <1>6, <1>7, <1>8
  <2>2. a \in Int /\ b \in Int /\ c \in Int
    BY <1>9
  <2> HIDE DEF a, b, c, F
  <2> QED
    BY <2>1, <2>2
-----------------------------------------------------------------------------
(* The inductive invariant *)

\* A row lock is held by the settlement of its call or by one run of the
\* lifecycle job, which are then at it, and only a reservation is ever locked.
Locks ==
    \A o \in Ops :
        /\ rowLock[o] \in Ops => rowLock[o] = o
        /\ rowLock[o] = o <=> call[o] = "locked"
        /\ \A s \in Sweepers : rowLock[o] = s <=> sweep[s].locked = o
        /\ rowLock[o] # Null => Reserved(o)

\* The entry of a call: none before it reserved, then one of its organization, and
\* as long as it is a reservation it holds back an amount that may be reserved.
Calls ==
    \A o \in Ops :
        /\ call[o] \in {"new", "exhausted"} => ~Posted(Op(o))
        /\ Posted(Op(o)) => ledger[Op(o)].org = OrgOf[o]
        /\ Reserved(o) => -ledger[Op(o)].delta \in Reservations
        /\ call[o] \in {"settling", "locked"} => charge[o] \in Charges

\* A grant request holds the lock of its wallet to its end, so that what it
\* counted stays true.
Granted ==
    \A q \in Granters : grant[q] # Null =>
        /\ walletLock[grant[q].org] = q
        /\ grant[q].phase = "counted" => grant[q].count = Cardinality(Grants(grant[q].org))

\* Sequences are handed out in order.
Numbered == \A org \in Orgs : \A k \in EntriesOf(org) : ledger[k].seq <= sequence[org]

Books == /\ Statement /\ BalanceIsLedgerSum /\ Numbered
         /\ IsFiniteSet({k \in Keys : Posted(k)})

IInv == TypeOK /\ Locks /\ Calls /\ SettledOrReleased /\ Granted /\ LimitsKept /\ Books

-----------------------------------------------------------------------------
(* Keys, entries and movements *)

LEMMA KeyFacts ==
    /\ \A o \in Ops : Op(o) \in Keys /\ Release(o) \in Keys
    /\ \A o, p \in Ops : /\ Op(o) = Op(p) => o = p
                         /\ Release(o) = Release(p) => o = p
                         /\ Op(o) # Release(p)
    /\ \A c \in Credits : /\ <<"credit", c>> \in Keys
                          /\ \A o \in Ops : <<"credit", c>> \notin {Op(o), Release(o)}
                          /\ \A u \in Subjects : <<"credit", c>> # <<"grant", u>>
    /\ \A u \in Subjects : /\ <<"grant", u>> \in Keys
                           /\ \A o \in Ops : <<"grant", u>> \notin {Op(o), Release(o)}
                           /\ \A v \in Subjects : <<"grant", u>> = <<"grant", v>> => u = v
  BY DEF Keys, Op, Release

\* An entry that a movement leaves behind.
LEMMA EntryAfterType ==
    ASSUME TypeOK, NEW org \in Orgs, NEW moved \in Int, NEW delta \in Int,
           NEW type \in {"reservation", "usage", "adjustment", "credit", "grant"}
    PROVE  /\ EntryAfter(org, type, moved, delta) \in Entry
           /\ EntryAfter(org, type, moved, delta) # Null
           /\ EntryAfter(org, type, moved, delta).org = org
           /\ EntryAfter(org, type, moved, delta).type = type
           /\ EntryAfter(org, type, moved, delta).delta = delta
           /\ EntryAfter(org, type, moved, delta).seq = sequence[org] + 1
           /\ EntryAfter(org, type, moved, delta).after = balance[org] + moved
  BY CreditAssumption DEF EntryAfter, Entry, TypeOK

\* What a movement does to the wallets.
LEMMA Moved ==
    ASSUME TypeOK, NEW org \in Orgs, NEW moved \in Int, MoveBalance(org, moved)
    PROVE  /\ balance' \in [Orgs -> Int]
           /\ sequence' \in [Orgs -> Nat]
           /\ balance'[org] = balance[org] + moved
           /\ sequence'[org] = sequence[org] + 1
           /\ \A g \in Orgs \ {org} : balance'[g] = balance[g] /\ sequence'[g] = sequence[g]
  BY DEF MoveBalance, TypeOK

LEMMA SumIsTotal ==
    BalanceIsLedgerSum <=> \A org \in Orgs : balance[org] = Total(ledger, EntriesOf(org))
  BY DEF BalanceIsLedgerSum, Total

LEMMA SumIsTotalNext ==
    BalanceIsLedgerSum' <=> \A org \in Orgs : balance'[org] = Total(ledger', EntriesOf(org)')
<1>1. BalanceIsLedgerSum' <=> (\A org \in Orgs : balance[org] = Total(ledger, EntriesOf(org)))'
  BY SumIsTotal, PTL
<1> QED
  BY <1>1

\* The books stay balanced when a wallet moves and one key gets an entry that
\* shows the movement: a new one, or one that replaces an entry of that wallet
\* and differs from it by what moved. Other entries keep what they show.
LEMMA MoveKeepsBooks ==
    ASSUME TypeOK, Books,
           NEW k \in Keys, NEW org \in Orgs, NEW moved \in Int,
           MoveBalance(org, moved), ledger' \in [Keys -> Entry \union {Null}],
           Posted(k)', ledger'[k].org = org,
           ledger'[k].seq = sequence[org] + 1, ledger'[k].after = balance[org] + moved,
           Posted(k) => ledger[k].org = org,
           ledger'[k].delta = moved + (IF Posted(k) THEN ledger[k].delta ELSE 0),
           \A m \in Keys \ {k} :
               /\ Posted(m)' <=> Posted(m)
               /\ Posted(m) => /\ ledger'[m].org = ledger[m].org
                               /\ ledger'[m].delta = ledger[m].delta
                               /\ ledger'[m].seq = ledger[m].seq
                               /\ ledger'[m].after = ledger[m].after
    PROVE  Books'
<1> DEFINE E(g) == EntriesOf(g)
<1> USE CreditAssumption
<1>0. /\ balance'[org] = balance[org] + moved
      /\ sequence'[org] = sequence[org] + 1
      /\ sequence[org] \in Nat /\ balance[org] \in Int
      /\ \A g \in Orgs \ {org} : balance'[g] = balance[g] /\ sequence'[g] = sequence[g]
  BY Moved DEF TypeOK
<1>1. EntriesOf(org)' = EntriesOf(org) \union {k}
  BY DEF EntriesOf
<1>2. \A g \in Orgs \ {org} : EntriesOf(g)' = EntriesOf(g) /\ k \notin EntriesOf(g)
  BY DEF EntriesOf
<1>3. \A g \in Orgs : \A m \in EntriesOf(g) \ {k} :
          /\ m \in Keys
          /\ ledger'[m].delta = ledger[m].delta /\ ledger'[m].delta \in Int
          /\ ledger'[m].seq = ledger[m].seq /\ ledger'[m].seq \in Nat
          /\ ledger'[m].after = ledger[m].after
  BY DEF EntriesOf, TypeOK, Posted, Entry
<1>4. Numbered'
  BY <1>0, <1>1, <1>2, <1>3 DEF Numbered, Books
<1>5. Statement'
  <2> SUFFICES ASSUME NEW g \in Orgs
               PROVE  /\ sequence'[g] > 0 =>
                           \E m \in EntriesOf(g)' : /\ ledger'[m].seq = sequence'[g]
                                                    /\ ledger'[m].after = balance'[g]
                      /\ \A m, n \in EntriesOf(g)' : m # n => ledger'[m].seq # ledger'[n].seq
    BY DEF Statement
  <2>1. CASE g = org
    <3>1. k \in EntriesOf(g)' /\ ledger'[k].seq = sequence'[g] /\ ledger'[k].after = balance'[g]
      BY <1>0, <1>1, <2>1
    <3>2. \A m \in EntriesOf(g) \ {k} : ledger'[m].seq < ledger'[k].seq
      BY <1>0, <1>3, <2>1 DEF Books, Numbered
    <3> QED
      BY <1>1, <1>3, <2>1, <3>1, <3>2 DEF Books, Statement
  <2>2. CASE g # org
    BY <1>0, <1>2, <1>3, <2>2 DEF Books, Statement
  <2> QED
    BY <2>1, <2>2
<1>6. \A g \in Orgs : IsFiniteSet(EntriesOf(g)) /\ \A m \in EntriesOf(g) : ledger[m].delta \in Int
  <2>1. \A g \in Orgs : EntriesOf(g) \in SUBSET {m \in Keys : Posted(m)}
    BY DEF EntriesOf
  <2>2. \A g \in Orgs : \A m \in EntriesOf(g) : ledger[m].delta \in Int
    BY DEF EntriesOf, Posted, TypeOK, Entry
  <2> QED
    BY <2>1, <2>2, FS_Subset DEF Books
<1>7. BalanceIsLedgerSum'
  <2> SUFFICES ASSUME NEW g \in Orgs PROVE balance'[g] = Total(ledger', EntriesOf(g)')
    BY SumIsTotalNext
  <2>0. balance[g] = Total(ledger, EntriesOf(g))
    BY SumIsTotal DEF Books
  <2>1. CASE g # org
    <3>1. \A m \in EntriesOf(g) : ledger[m].delta = ledger'[m].delta
      BY <1>2, <1>3, <2>1
    <3>2. Total(ledger, EntriesOf(g)) = Total(ledger', EntriesOf(g))
      BY <1>6, <3>1, TotalSame
    <3> QED
      BY <1>0, <1>2, <2>0, <2>1, <3>2
  <2>2. CASE g = org
    <3> DEFINE R == EntriesOf(org) \ {k}
    <3>1. IsFiniteSet(R) /\ \A m \in R : ledger[m].delta = ledger'[m].delta
      BY <1>3, <1>6, FS_RemoveElement
    <3>2. Total(ledger, R) = Total(ledger', R)
      BY <3>1, TotalSame
    <3>3. Total(ledger, R) \in Int
      BY <1>6, <3>1, TotalType
    <3>4. balance[org] = (IF Posted(k) THEN ledger[k].delta ELSE 0) + Total(ledger, R)
      <4>1. CASE Posted(k)
        <5>1. k \in EntriesOf(org)
          BY <4>1 DEF EntriesOf
        <5> QED
          BY <1>6, <2>0, <2>2, <4>1, <5>1, TotalOfAny
      <4>2. CASE ~Posted(k)
        <5>1. R = EntriesOf(org)
          BY <4>2 DEF EntriesOf
        <5> HIDE DEF R
        <5> QED
          BY <2>0, <2>2, <3>3, <4>2, <5>1
      <4> QED
        BY <4>1, <4>2
    <3>5. Total(ledger', EntriesOf(org)') = ledger'[k].delta + Total(ledger', R)
      <4>1. IsFiniteSet(EntriesOf(org)')
        BY <1>1, <1>6, FS_AddElement
      <4>2. \A m \in EntriesOf(org)' : ledger'[m].delta \in Int
        BY <1>1, <1>3 DEF EntriesOf, Posted, Entry
      <4>3. EntriesOf(org)' \ {k} = R /\ k \in EntriesOf(org)'
        BY <1>1
      <4> HIDE DEF R
      <4>4. Total(ledger', EntriesOf(org)') = ledger'[k].delta + Total(ledger', EntriesOf(org)' \ {k})
        BY <4>1, <4>2, <4>3, TotalOfAny
      <4> QED
        BY <4>3, <4>4
    <3>6. Posted(k) => ledger[k].delta \in Int
      BY DEF Posted, TypeOK, Entry
    <3> DEFINE rest == Total(ledger, R)
               old  == IF Posted(k) THEN ledger[k].delta ELSE 0
    <3>7. /\ balance[org] = old + rest
          /\ Total(ledger', EntriesOf(org)') = (moved + old) + rest
          /\ old \in Int /\ rest \in Int
      BY <3>2, <3>3, <3>4, <3>5, <3>6
    <3> HIDE DEF rest, old
    <3> QED
      BY <1>0, <2>2, <3>7
  <2> QED
    BY <2>1, <2>2
<1>8. IsFiniteSet({m \in Keys : Posted(m)})'
  <2>1. {m \in Keys : Posted(m)}' = {m \in Keys : Posted(m)} \union {k}
    OBVIOUS
  <2>2. IsFiniteSet({m \in Keys : Posted(m)} \union {k})
    BY FS_AddElement DEF Books
  <2> QED
    BY <2>1, <2>2
<1> QED
  BY <1>4, <1>5, <1>7, <1>8 DEF Books

\* Nothing moves: the books stay as they are.
LEMMA StillBooks ==
    ASSUME Books, UNCHANGED <<balance, sequence, ledger>>
    PROVE  Books'
<1>1. \A org \in Orgs : EntriesOf(org)' = EntriesOf(org)
  BY DEF EntriesOf, Posted
<1>2. BalanceIsLedgerSum'
  BY <1>1, SumIsTotal, SumIsTotalNext DEF Books
<1>3. Statement' /\ Numbered' /\ IsFiniteSet({m \in Keys : Posted(m)})'
  BY <1>1 DEF Books, Statement, Numbered, Posted
<1> QED
  BY <1>2, <1>3 DEF Books

-----------------------------------------------------------------------------
(* The steps of the wallet *)

\* A step that leaves the ledger's grants alone counts as many as before.
LEMMA SameGrants ==
    ASSUME \A u \in Subjects : ledger'[<<"grant", u>>] = ledger[<<"grant", u>>]
    PROVE  \A org \in Orgs : Grants(org)' = Grants(org)
  BY DEF Grants, Posted

\* A step that moves no money and touches no grant.
LEMMA QuietKeeps ==
    ASSUME IInv, UNCHANGED money, UNCHANGED <<walletLock, grant>>
    PROVE  Granted' /\ LimitsKept' /\ Books'
<1>1. \A org \in Orgs : Grants(org)' = Grants(org)
  BY SameGrants DEF money
<1>2. Granted' /\ LimitsKept'
  BY <1>1 DEF IInv, TypeOK, Granted, LimitsKept, GrantLimit, NoOverdraft, money
<1>3. Books'
  BY StillBooks DEF IInv, money
<1> QED
  BY <1>2, <1>3

LEMMA IssueCreditKeeps ==
    ASSUME IInv, NEW c \in Credits, NEW org \in Orgs, IssueCredit(c, org)
    PROVE  IInv'
<1> DEFINE key == <<"credit", c>>
           e   == EntryAfter(org, "credit", CreditAmount, CreditAmount)
<1> USE CreditAssumption
<1>1. CASE Posted(key)
  <2>1. UNCHANGED vars
    BY <1>1 DEF IssueCredit, Append, vars, callers
  <2>2. Locks' /\ Calls' /\ SettledOrReleased' /\ TypeOK'
    BY <2>1 DEF IInv, vars, Locks, Calls, SettledOrReleased, TypeOK, Reserved, Posted
  <2> QED
    BY <2>1, <2>2, QuietKeeps DEF IInv, vars, money
<1>2. CASE ~Posted(key)
  <2>1. /\ MoveBalance(org, CreditAmount)
        /\ ledger' = [ledger EXCEPT ![key] = e]
        /\ UNCHANGED <<usage, call, charge, stale, rowLock, walletLock, sweep, grant, faults>>
    BY <1>2 DEF IssueCredit, Append, callers
  <2>2. /\ e \in Entry /\ e # Null /\ e.org = org /\ e.delta = CreditAmount
        /\ e.seq = sequence[org] + 1 /\ e.after = balance[org] + CreditAmount
    BY EntryAfterType DEF IInv
  <2> HIDE DEF e
  <2>3. /\ key \in Keys
        /\ \A o \in Ops : key \notin {Op(o), Release(o)} /\ Op(o) \in Keys /\ Release(o) \in Keys
        /\ \A u \in Subjects : key # <<"grant", u>> /\ <<"grant", u>> \in Keys
    BY KeyFacts
  <2> HIDE DEF key
  <2>4. /\ ledger' \in [Keys -> Entry \union {Null}]
        /\ ledger'[key] = e
        /\ \A m \in Keys \ {key} : ledger'[m] = ledger[m]
    BY <2>1, <2>2, <2>3 DEF IInv, TypeOK
  <2>5. /\ balance' \in [Orgs -> Int] /\ sequence' \in [Orgs -> Nat]
        /\ \A g \in Orgs : balance'[g] >= balance[g]
    BY <2>1, Moved DEF IInv, TypeOK
  <2>6. TypeOK'
    BY <2>1, <2>4, <2>5 DEF IInv, TypeOK
  <2>7. Locks' /\ Calls' /\ SettledOrReleased'
    BY <2>1, <2>3, <2>4 DEF IInv, Locks, Calls, SettledOrReleased, Reserved, Posted
  <2>8. \A g \in Orgs : Grants(g)' = Grants(g)
    BY <2>3, <2>4, SameGrants
  <2>9. Granted' /\ LimitsKept'
    BY <2>1, <2>5, <2>8 DEF IInv, TypeOK, Granted, LimitsKept, GrantLimit, NoOverdraft
  <2>10. Books'
    BY <1>2, <2>1, <2>2, <2>3, <2>4, MoveKeepsBooks DEF IInv, Posted
  <2> QED
    BY <2>6, <2>7, <2>9, <2>10 DEF IInv
<1> QED
  BY <1>1, <1>2

\* A step of a grant request that appends nothing concerns no call.
LEMMA SameCalls ==
    ASSUME IInv, UNCHANGED <<money, callers, rowLock, sweep>>
    PROVE  Locks' /\ Calls' /\ SettledOrReleased' /\ LimitsKept' /\ Books'
<1>1. Locks' /\ Calls' /\ SettledOrReleased'
  BY DEF IInv, money, callers, Locks, Calls, SettledOrReleased, Reserved, Posted
<1>2. \A org \in Orgs : Grants(org)' = Grants(org)
  BY SameGrants DEF money
<1>3. LimitsKept' /\ Books'
  BY <1>2, StillBooks DEF IInv, money, LimitsKept, GrantLimit, NoOverdraft
<1> QED
  BY <1>1, <1>3

LEMMA GrantLockKeeps ==
    ASSUME IInv, NEW q \in Granters, NEW org \in Orgs, NEW u \in Subjects, GrantLock(q, org, u)
    PROVE  IInv'
<1>1. Locks' /\ Calls' /\ SettledOrReleased' /\ LimitsKept' /\ Books'
  BY SameCalls DEF GrantLock
<1>2. TypeOK'
  BY DEF IInv, TypeOK, GrantLock, money, callers
<1>3. \A g \in Orgs : Grants(g)' = Grants(g)
  BY SameGrants DEF GrantLock, money
<1>4. /\ grant'[q] = [phase |-> "locked", org |-> org, subject |-> u, count |-> 0]
      /\ \A r \in Granters \ {q} : grant'[r] = grant[r]
      /\ walletLock[org] = Null /\ walletLock'[org] = q
      /\ \A g \in Orgs \ {org} : walletLock'[g] = walletLock[g]
  BY DEF GrantLock, IInv, TypeOK
<1>5. Granted'
  BY <1>3, <1>4, CreditAssumption DEF IInv, TypeOK, Granted
<1> QED
  BY <1>1, <1>2, <1>5 DEF IInv

LEMMA GrantCountKeeps == ASSUME IInv, NEW q \in Granters, GrantCount(q) PROVE IInv'
<1>1. Locks' /\ Calls' /\ SettledOrReleased' /\ LimitsKept' /\ Books'
  BY SameCalls DEF GrantCount
<1>2. Cardinality(Grants(grant[q].org)) \in Nat
  BY CreditAssumption, FS_CardinalityType, FS_Subset DEF Grants
<1>3. \A g \in Orgs : Grants(g)' = Grants(g)
  BY SameGrants DEF GrantCount, money
<1> DEFINE n   == Cardinality(Grants(grant[q].org))
           new == [phase |-> "counted", org |-> grant[q].org, subject |-> grant[q].subject, count |-> n]
<1> HIDE DEF n
<1>4. /\ grant' = [grant EXCEPT ![q] = new]
      /\ grant[q] # Null /\ grant[q].org \in Orgs /\ grant[q].subject \in Subjects
      /\ UNCHANGED <<money, callers, rowLock, walletLock, sweep, faults>>
  <2>1. /\ grant[q] # Null
        /\ grant' = [grant EXCEPT ![q].phase = "counted", ![q].count = n]
        /\ UNCHANGED <<money, callers, rowLock, walletLock, sweep, faults>>
    BY DEF GrantCount, n
  <2>2. grant[q] \in [phase : {"idle", "locked", "counted"}, org : Orgs,
                      subject : Subjects, count : Nat]
    BY <2>1 DEF IInv, TypeOK
  <2>3. [[grant[q] EXCEPT !.phase = "counted"] EXCEPT !.count = n] = new
    <3> DEFINE old == [phase |-> "counted", org |-> grant[q].org,
                       subject |-> grant[q].subject, count |-> grant[q].count]
    <3>1. [grant[q] EXCEPT !.phase = "counted"] = old
      BY <2>2
    <3>2. [old EXCEPT !.count = n] = new
      OBVIOUS
    <3> HIDE DEF old
    <3> QED
      BY <3>1, <3>2
  <2> QED
    BY <2>1, <2>2, <2>3 DEF IInv, TypeOK
<1>5. TypeOK'
  <2>1. new \in [phase : {"idle", "locked", "counted"}, org : Orgs,
                 subject : Subjects, count : Nat]
    BY <1>2, <1>4 DEF n
  <2> HIDE DEF new
  <2> QED
    BY <1>4, <2>1 DEF IInv, TypeOK, money, callers
<1>6. Granted'
  <2>1. /\ grant'[q] = new /\ new.org = grant[q].org /\ new.count = n
        /\ \A r \in Granters \ {q} : grant'[r] = grant[r]
    BY <1>4 DEF IInv, TypeOK
  <2> HIDE DEF new
  <2> QED
    BY <1>3, <1>4, <2>1 DEF IInv, TypeOK, Granted, n
<1> QED
  BY <1>1, <1>5, <1>6 DEF IInv

\* The end of a grant request frees the wallet it locked, and no other.
LEMMA EndGrantFrees ==
    ASSUME IInv, NEW q \in Granters, EndGrant(q)
    PROVE  /\ grant'[q] = Null
           /\ \A r \in Granters \ {q} : grant'[r] = grant[r]
           /\ \A g \in Orgs : walletLock[g] # q => walletLock'[g] = walletLock[g]
           /\ grant' \in [Granters -> [phase : {"idle", "locked", "counted"}, org : Orgs,
                                       subject : Subjects, count : Nat] \union {Null}]
           /\ walletLock' \in [Orgs -> Granters \union {Null}]
  BY DEF EndGrant, IInv, TypeOK

LEMMA GrantAbortKeeps == ASSUME IInv, NEW q \in Granters, GrantAbort(q) PROVE IInv'
<1>1. Locks' /\ Calls' /\ SettledOrReleased' /\ LimitsKept' /\ Books'
  BY SameCalls DEF GrantAbort
<1>2. faults' \in 0..MaxFaults
  BY CreditAssumption DEF GrantAbort, Fault, IInv, TypeOK
<1>3. EndGrant(q) /\ UNCHANGED <<money, callers, rowLock, sweep>>
  BY DEF GrantAbort
<1>4. TypeOK'
  BY <1>2, <1>3, EndGrantFrees DEF IInv, TypeOK, money, callers
<1>5. \A g \in Orgs : Grants(g)' = Grants(g)
  BY <1>3, SameGrants DEF money
<1>6. Granted'
  BY <1>3, <1>5, EndGrantFrees DEF IInv, TypeOK, Granted
<1> QED
  BY <1>1, <1>4, <1>6 DEF IInv

LEMMA GrantCommitKeeps == ASSUME IInv, NEW q \in Granters, GrantCommit(q) PROVE IInv'
<1> DEFINE org == grant[q].org
           u   == grant[q].subject
           key == <<"grant", u>>
           e   == EntryAfter(org, "grant", GrantAmount, GrantAmount)
<1> USE CreditAssumption
<1>1. /\ grant[q] # Null /\ grant[q].phase = "counted" /\ EndGrant(q)
      /\ UNCHANGED <<usage, call, charge, stale, rowLock, sweep, faults>>
      /\ org \in Orgs /\ u \in Subjects
  BY DEF GrantCommit, callers, IInv, TypeOK
<1>2. CASE grant[q].count >= MaxGrants \/ Posted(key)
  <2>1. UNCHANGED <<money, callers, rowLock, sweep>>
    BY <1>1, <1>2 DEF GrantCommit, Append, money, callers
  <2>2. \A g \in Orgs : Grants(g)' = Grants(g)
    BY <2>1, SameGrants DEF money
  <2>3. Granted'
    BY <1>1, <2>2, EndGrantFrees DEF IInv, TypeOK, Granted
  <2>4. TypeOK'
    BY <1>1, <2>1, EndGrantFrees DEF IInv, TypeOK, money
  <2> QED
    BY <2>1, <2>3, <2>4, SameCalls DEF IInv
<1>3. CASE grant[q].count < MaxGrants /\ ~Posted(key)
  <2>0. grant[q].count \in Nat
    BY <1>1 DEF IInv, TypeOK
  <2>1. MoveBalance(org, GrantAmount) /\ ledger' = [ledger EXCEPT ![key] = e]
    BY <1>3, <2>0 DEF GrantCommit, Append
  <2>2. /\ e \in Entry /\ e # Null /\ e.org = org /\ e.delta = GrantAmount
        /\ e.seq = sequence[org] + 1 /\ e.after = balance[org] + GrantAmount
    <3> GrantAmount \in Int /\ org \in Orgs
      BY <1>1
    <3> HIDE DEF org
    <3> QED
      BY EntryAfterType DEF IInv
  <2> HIDE DEF e
  <2>3. /\ key \in Keys
        /\ \A o \in Ops : key \notin {Op(o), Release(o)} /\ Op(o) \in Keys /\ Release(o) \in Keys
        /\ \A v \in Subjects : <<"grant", v>> \in Keys /\ (<<"grant", v>> = key => v = u)
    BY <1>1, KeyFacts
  <2>4. /\ ledger' \in [Keys -> Entry \union {Null}]
        /\ ledger'[key] = e
        /\ \A m \in Keys \ {key} : ledger'[m] = ledger[m]
    BY <2>1, <2>2, <2>3 DEF IInv, TypeOK
  <2>5. /\ balance' \in [Orgs -> Int] /\ sequence' \in [Orgs -> Nat]
        /\ \A g \in Orgs : balance'[g] >= balance[g]
    BY <1>1, <2>1, Moved DEF IInv, TypeOK
  <2>6. TypeOK'
    BY <1>1, <2>4, <2>5, EndGrantFrees DEF IInv, TypeOK
  <2>8. \A g \in Orgs : Grants(g)' = IF g = org THEN Grants(g) \union {u} ELSE Grants(g)
    BY <1>1, <1>3, <2>2, <2>3, <2>4 DEF Grants, Posted
  <2>9. GrantLimit'
    <3>1. IsFiniteSet(Grants(org)) /\ u \notin Grants(org)
      BY <1>3, FS_Subset DEF Grants
    <3>2. Cardinality(Grants(org) \union {u}) = Cardinality(Grants(org)) + 1
      BY <3>1, FS_AddElement
    <3>3. Cardinality(Grants(org)) < MaxGrants /\ Cardinality(Grants(org)) \in Nat
      BY <1>1, <1>3, <3>1, FS_CardinalityType DEF IInv, Granted
    <3> QED
      BY <2>8, <3>2, <3>3 DEF IInv, LimitsKept, GrantLimit
  <2>10. \A r \in Granters \ {q} : grant[r] # Null => grant[r].org \in Orgs /\ grant[r].org # org
    BY <1>1 DEF IInv, TypeOK, Granted
  <2>11. Granted'
    BY <1>1, <2>8, <2>10, EndGrantFrees DEF IInv, TypeOK, Granted
  <2> HIDE DEF key, org, u
  <2>7. Locks' /\ Calls' /\ SettledOrReleased'
    BY <1>1, <2>3, <2>4 DEF IInv, Locks, Calls, SettledOrReleased, Reserved, Posted
  <2>12. NoOverdraft'
    BY <2>5 DEF IInv, TypeOK, LimitsKept, NoOverdraft
  <2>13. Books'
    BY <1>1, <1>3, <2>1, <2>2, <2>3, <2>4, MoveKeepsBooks DEF IInv, Posted
  <2> QED
    BY <2>6, <2>7, <2>9, <2>11, <2>12, <2>13 DEF IInv, LimitsKept
<1>4. grant[q].count >= MaxGrants \/ grant[q].count < MaxGrants
  BY <1>1 DEF IInv, TypeOK
<1> QED
  BY <1>2, <1>3, <1>4

-----------------------------------------------------------------------------
(* The steps of a call *)

LEMMA ReserveKeeps ==
    ASSUME IInv, NEW o \in Ops, NEW amount \in Reservations, Reserve(o, amount)
    PROVE  IInv'
<1> DEFINE org == OrgOf[o]
           e   == EntryAfter(org, "reservation", -amount, -amount)
<1> USE CreditAssumption
<1>1. /\ call[o] = "new" /\ ~Posted(Op(o)) /\ org \in Orgs /\ -amount \in Int
      /\ amount \in Int /\ balance[org] \in Int
      /\ UNCHANGED <<usage, charge, stale, rowLock, walletLock, sweep, grant, faults>>
  BY DEF Reserve, IInv, TypeOK, Calls
<1>2. CASE ~Covers(org, amount)
  <2>1. /\ call' = [call EXCEPT ![o] = "exhausted"]
        /\ UNCHANGED <<balance, sequence, ledger>>
    BY <1>2 DEF Reserve
  <2>2. TypeOK' /\ Locks' /\ Calls' /\ SettledOrReleased'
    BY <1>1, <2>1 DEF IInv, TypeOK, CallPhases, Locks, Calls, SettledOrReleased, Reserved, Posted
  <2> QED
    BY <1>1, <2>1, <2>2, QuietKeeps DEF IInv, money
<1>3. CASE Covers(org, amount)
  <2>1. /\ MoveBalance(org, -amount)
        /\ ledger' = [ledger EXCEPT ![Op(o)] = e]
        /\ call' = [call EXCEPT ![o] = "calling"]
        /\ balance[org] >= amount
    BY <1>3 DEF Reserve, Covers
  <2>2. /\ e \in Entry /\ e # Null /\ e.org = org /\ e.delta = -amount /\ e.type = "reservation"
        /\ e.seq = sequence[org] + 1 /\ e.after = balance[org] + (-amount)
    <3> HIDE DEF org
    <3> QED
      BY <1>1, EntryAfterType DEF IInv
  <2> HIDE DEF e
  <2>3. /\ \A p \in Ops : /\ Op(p) \in Keys /\ Release(p) \in Keys
                          /\ Op(p) = Op(o) => p = o
                          /\ Release(p) # Op(o)
        /\ \A u \in Subjects : <<"grant", u>> # Op(o) /\ <<"grant", u>> \in Keys
    BY KeyFacts
  <2>4. /\ ledger' \in [Keys -> Entry \union {Null}]
        /\ ledger'[Op(o)] = e
        /\ \A m \in Keys \ {Op(o)} : ledger'[m] = ledger[m]
    BY <2>1, <2>2, <2>3 DEF IInv, TypeOK
  <2>5. /\ balance' \in [Orgs -> Int] /\ sequence' \in [Orgs -> Nat]
        /\ balance'[org] = balance[org] + (-amount)
        /\ \A g \in Orgs \ {org} : balance'[g] = balance[g]
    BY <1>1, <2>1, Moved DEF IInv
  <2>6. TypeOK'
    BY <1>1, <2>1, <2>4, <2>5 DEF IInv, TypeOK, CallPhases
  <2>7. /\ call'[o] = "calling"
        /\ \A p \in Ops \ {o} : /\ call'[p] = call[p]
                                /\ ledger'[Op(p)] = ledger[Op(p)]
        /\ \A p \in Ops : ledger'[Release(p)] = ledger[Release(p)]
    BY <2>1, <2>3, <2>4 DEF IInv, TypeOK
  <2>8. rowLock[o] = Null
    BY <1>1 DEF IInv, TypeOK, Locks, Reserved
  <2>9. Locks'
    BY <1>1, <2>7, <2>8 DEF IInv, Locks, Reserved, Posted
  <2>10. Calls'
    <3>1. -e.delta \in Reservations
      BY <2>2
    <3> QED
      BY <1>1, <2>2, <2>4, <2>7, <3>1 DEF IInv, Calls, Reserved, Posted
  <2>11. SettledOrReleased'
    <3>1. usage[o] = Null /\ ~Posted(Release(o))
      BY <1>1 DEF IInv, SettledOrReleased
    <3> QED
      BY <1>1, <2>2, <2>4, <2>7, <3>1 DEF IInv, SettledOrReleased, Posted
  <2>12. \A g \in Orgs : Grants(g)' = Grants(g)
    BY <2>3, <2>4, SameGrants
  <2>13. Granted' /\ GrantLimit'
    BY <1>1, <2>12 DEF IInv, TypeOK, Granted, LimitsKept, GrantLimit
  <2>14. NoOverdraft'
    BY <1>1, <2>1, <2>5 DEF IInv, LimitsKept, NoOverdraft
  <2>15. Books'
    BY <1>1, <2>1, <2>2, <2>3, <2>4, MoveKeepsBooks DEF IInv, Posted
  <2> QED
    BY <2>6, <2>9, <2>10, <2>11, <2>13, <2>14, <2>15 DEF IInv, LimitsKept
<1> QED
  BY <1>2, <1>3

LEMMA StartSettlingKeeps ==
    ASSUME IInv, NEW o \in Ops, NEW cost \in Charges, StartSettling(o, cost)
    PROVE  IInv'
<1> USE CreditAssumption
<1>1. /\ call[o] = "calling" /\ UNCHANGED <<money, walletLock, grant>>
      /\ UNCHANGED <<balance, sequence, ledger, usage, stale, rowLock, walletLock, sweep, grant, faults>>
      /\ call' \in [Ops -> CallPhases] /\ call'[o] \in {"settling", "done"}
      /\ charge' \in [Ops -> Nat] /\ charge'[o] = cost
      /\ \A p \in Ops \ {o} : call'[p] = call[p] /\ charge'[p] = charge[p]
  BY DEF StartSettling, money, IInv, TypeOK, CallPhases
<1>2. TypeOK' /\ Locks' /\ Calls' /\ SettledOrReleased'
  BY <1>1 DEF IInv, TypeOK, Locks, Calls, SettledOrReleased, Reserved, Posted
<1> QED
  BY <1>1, <1>2, QuietKeeps DEF IInv

LEMMA SettleLockKeeps == ASSUME IInv, NEW o \in Ops, SettleLock(o) PROVE IInv'
<1> USE CreditAssumption
<1>1. /\ call[o] = "settling" /\ rowLock[o] = Null /\ UNCHANGED <<money, walletLock, grant>>
      /\ UNCHANGED <<balance, sequence, ledger, usage, charge, stale, walletLock, sweep, grant, faults>>
      /\ call' \in [Ops -> CallPhases] /\ rowLock' \in [Ops -> Ops \union Sweepers \union {Null}]
      /\ \/ Reserved(o) /\ call'[o] = "locked" /\ rowLock'[o] = o
         \/ call'[o] = "lost" /\ rowLock'[o] = Null
      /\ \A p \in Ops \ {o} : call'[p] = call[p] /\ rowLock'[p] = rowLock[p]
  BY DEF SettleLock, money, IInv, TypeOK, CallPhases
<1>2. TypeOK' /\ Locks' /\ Calls' /\ SettledOrReleased'
  BY <1>1 DEF IInv, TypeOK, Locks, Calls, SettledOrReleased, Reserved, Posted
<1> QED
  BY <1>1, <1>2, QuietKeeps DEF IInv

LEMMA CallLostKeeps == ASSUME IInv, NEW o \in Ops, CallLost(o) PROVE IInv'
<1> USE CreditAssumption
<1>1. /\ call[o] \in {"calling", "settling", "locked"} /\ UNCHANGED <<money, walletLock, grant>>
      /\ UNCHANGED <<balance, sequence, ledger, usage, charge, stale, walletLock, sweep, grant>>
      /\ faults' \in 0..MaxFaults
      /\ call' \in [Ops -> CallPhases] /\ rowLock' \in [Ops -> Ops \union Sweepers \union {Null}]
      /\ call'[o] = "crashed" /\ rowLock'[o] = IF rowLock[o] = o THEN Null ELSE rowLock[o]
      /\ \A p \in Ops \ {o} : call'[p] = call[p] /\ rowLock'[p] = rowLock[p]
  BY DEF CallLost, Fault, money, IInv, TypeOK, CallPhases
<1>2. TypeOK' /\ Locks' /\ Calls' /\ SettledOrReleased'
  BY <1>1 DEF IInv, TypeOK, Locks, Calls, SettledOrReleased, Reserved, Posted
<1> QED
  BY <1>1, <1>2, QuietKeeps DEF IInv

LEMMA BecomeStaleKeeps == ASSUME IInv, NEW o \in Ops, BecomeStale(o) PROVE IInv'
<1>1. TypeOK' /\ Locks' /\ Calls' /\ SettledOrReleased'
  BY DEF BecomeStale, money, IInv, TypeOK, Locks, Calls, SettledOrReleased, Reserved, Posted
<1> QED
  BY <1>1, QuietKeeps DEF BecomeStale, IInv

\* Settling turns a locked reservation into a usage: what was held back returns,
\* the charge goes, and no wallet loses more than the reservation had taken.
LEMMA SettleCommitKeeps == ASSUME IInv, NEW o \in Ops, SettleCommit(o) PROVE IInv'
<1> DEFINE org   == OrgOf[o]
           moved == SettledMove(o)
           e     == SettledEntry(o)
<1> USE CreditAssumption
<1>1. /\ call[o] = "locked" /\ rowLock[o] = o /\ Reserved(o) /\ org \in Orgs
      /\ UNCHANGED <<charge, stale, walletLock, sweep, grant, faults>>
      /\ usage' = [usage EXCEPT ![o] = charge[o]]
      /\ MoveBalance(org, moved)
      /\ ledger' = [ledger EXCEPT ![Op(o)] = e]
      /\ call' = [call EXCEPT ![o] = "done"]
      /\ rowLock' = [rowLock EXCEPT ![o] = Null]
  <2>1. call[o] = "locked"
    BY DEF SettleCommit
  <2>2. rowLock[o] = o /\ Reserved(o) /\ org \in Orgs
    BY <2>1 DEF IInv, Locks
  <2> HIDE DEF org, moved, e
  <2> QED
    BY <2>1, <2>2 DEF SettleCommit, org, moved, e
<1>2. \A p \in Ops : /\ Op(p) \in Keys /\ Release(p) \in Keys
                     /\ Op(p) = Op(o) => p = o
                     /\ Release(p) # Op(o)
  BY KeyFacts
<1>3. /\ ledger[Op(o)] \in Entry /\ ledger[Op(o)].org = org /\ charge[o] \in Charges
      /\ -ledger[Op(o)].delta \in Reservations /\ charge[o] \in Nat /\ ledger[Op(o)].delta \in Int
  BY <1>1, <1>2 DEF IInv, TypeOK, Calls, Reserved, Posted, Entry
<1>4. moved = -ledger[Op(o)].delta - charge[o] /\ moved \in Int /\ -charge[o] \in Int
  BY <1>3 DEF SettledMove
<1>5. /\ e \in Entry /\ e # Null /\ e.org = org /\ e.delta = -charge[o] /\ e.type = "usage"
      /\ e.seq = sequence[org] + 1 /\ e.after = balance[org] + moved
  <2> HIDE DEF org, moved
  <2>1. e = EntryAfter(org, "usage", moved, -charge[o])
    BY DEF SettledEntry, org, moved
  <2> HIDE DEF e
  <2> QED
    BY <1>1, <1>4, <2>1, EntryAfterType DEF IInv
<1> HIDE DEF e, moved
<1>6. /\ ledger' \in [Keys -> Entry \union {Null}]
      /\ ledger'[Op(o)] = e
      /\ \A m \in Keys \ {Op(o)} : ledger'[m] = ledger[m]
  BY <1>1, <1>2, <1>5 DEF IInv, TypeOK
<1>7. /\ balance' \in [Orgs -> Int] /\ sequence' \in [Orgs -> Nat]
      /\ balance'[org] = balance[org] + moved
      /\ \A g \in Orgs \ {org} : balance'[g] = balance[g]
  BY <1>1, <1>4, Moved DEF IInv
<1>8. TypeOK'
  BY <1>1, <1>3, <1>6, <1>7 DEF IInv, TypeOK, CallPhases
<1>9. /\ call'[o] = "done" /\ rowLock'[o] = Null /\ usage'[o] # Null
      /\ \A p \in Ops \ {o} : /\ call'[p] = call[p] /\ rowLock'[p] = rowLock[p]
                              /\ usage'[p] = usage[p]
                              /\ ledger'[Op(p)] = ledger[Op(p)]
      /\ \A p \in Ops : ledger'[Release(p)] = ledger[Release(p)]
  BY <1>1, <1>2, <1>3, <1>6 DEF IInv, TypeOK
<1>10. Locks'
  <2>1. \A s \in Sweepers : sweep[s].locked # o
    BY <1>1 DEF IInv, Locks
  <2> QED
    BY <1>1, <1>9, <2>1 DEF IInv, Locks, Reserved, Posted
<1>11. Calls'
  BY <1>1, <1>5, <1>6, <1>9 DEF IInv, Calls, Reserved, Posted
<1>12. SettledOrReleased'
  <2>1. ~Posted(Release(o))
    BY <1>1 DEF IInv, SettledOrReleased, Reserved
  <2> QED
    BY <1>5, <1>6, <1>9, <2>1 DEF IInv, SettledOrReleased, Posted
<1>13. \A u \in Subjects : <<"grant", u>> # Op(o) /\ <<"grant", u>> \in Keys
  BY KeyFacts
<1>14. \A g \in Orgs : Grants(g)' = Grants(g)
  BY <1>6, <1>13, SameGrants
<1>15. Granted' /\ GrantLimit'
  BY <1>1, <1>14 DEF IInv, TypeOK, Granted, LimitsKept, GrantLimit
<1>16. NoOverdraft'
  <2> SUFFICES ASSUME \A cost \in Charges, amount \in Reservations : cost <= amount
               PROVE  \A g \in Orgs : balance'[g] >= 0
    BY DEF NoOverdraft
  <2>1. charge[o] <= -ledger[Op(o)].delta
    BY <1>3
  <2>2. moved >= 0
    BY <1>3, <1>4, <2>1
  <2>3. balance[org] >= 0 /\ balance[org] \in Int
    BY <1>1 DEF IInv, TypeOK, LimitsKept, NoOverdraft
  <2> QED
    BY <1>4, <1>7, <2>2, <2>3 DEF IInv, LimitsKept, NoOverdraft
<1>17. Books'
  <2>1. Posted(Op(o)) /\ Posted(Op(o))' /\ e.delta = moved + ledger[Op(o)].delta
    BY <1>1, <1>3, <1>4, <1>5, <1>6 DEF Reserved, Posted
  <2>2. \A m \in Keys \ {Op(o)} : Posted(m)' <=> Posted(m)
    BY <1>6 DEF Posted
  <2>3. Op(o) \in Keys
    BY <1>2
  <2> HIDE DEF org
  <2> QED
    BY <1>1, <1>3, <1>4, <1>5, <1>6, <2>1, <2>2, <2>3, MoveKeepsBooks DEF IInv
<1> QED
  BY <1>8, <1>10, <1>11, <1>12, <1>15, <1>16, <1>17 DEF IInv, LimitsKept

-----------------------------------------------------------------------------
(* The steps of the lifecycle job *)

LEMMA SweepStartKeeps == ASSUME IInv, NEW s \in Sweepers, SweepStart(s) PROVE IInv'
<1> DEFINE todo == {o \in Ops : Reserved(o) /\ stale[o]}
<1>1. /\ UNCHANGED <<money, callers, rowLock, walletLock, grant, faults>>
      /\ sweep' = [sweep EXCEPT ![s].todo = todo]
      /\ todo \in SUBSET Ops
  BY DEF SweepStart
<1> HIDE DEF todo
<1>2. /\ sweep' \in [Sweepers -> [todo : SUBSET Ops, locked : Ops \union {Null}]]
      /\ \A r \in Sweepers : sweep'[r].locked = sweep[r].locked
  BY <1>1 DEF IInv, TypeOK
<1>3. TypeOK' /\ Locks' /\ Calls' /\ SettledOrReleased'
  BY <1>1, <1>2 DEF money, callers, IInv, TypeOK, Locks, Calls, SettledOrReleased, Reserved, Posted
<1> QED
  BY <1>1, <1>3, QuietKeeps DEF IInv

LEMMA ReleaseLockKeeps ==
    ASSUME IInv, NEW s \in Sweepers, NEW o \in Ops, ReleaseLock(s, o)
    PROVE  IInv'
<1> USE CreditAssumption
<1>1. /\ rowLock[o] = Null /\ sweep[s].locked = Null
      /\ UNCHANGED <<money, callers, walletLock, grant, faults>>
  BY DEF ReleaseLock
<1>2. /\ sweep' \in [Sweepers -> [todo : SUBSET Ops, locked : Ops \union {Null}]]
      /\ rowLock' \in [Ops -> Ops \union Sweepers \union {Null}]
      /\ \A r \in Sweepers \ {s} : sweep'[r] = sweep[r]
      /\ \A p \in Ops \ {o} : rowLock'[p] = rowLock[p]
      /\ \/ Reserved(o) /\ rowLock'[o] = s /\ sweep'[s].locked = o
         \/ rowLock'[o] = Null /\ sweep'[s].locked = Null
  <2>1. CASE Reserved(o)
    <3>1. /\ sweep' = [sweep EXCEPT ![s] = [todo |-> sweep[s].todo \ {o}, locked |-> o]]
          /\ rowLock' = [rowLock EXCEPT ![o] = s]
      BY <2>1 DEF ReleaseLock
    <3>2. [todo |-> sweep[s].todo \ {o}, locked |-> o] \in [todo : SUBSET Ops, locked : Ops \union {Null}]
      BY DEF IInv, TypeOK
    <3> QED
      BY <2>1, <3>1, <3>2 DEF IInv, TypeOK
  <2>2. CASE ~Reserved(o)
    <3>1. sweep' = [sweep EXCEPT ![s].todo = @ \ {o}] /\ UNCHANGED rowLock
      BY <2>2 DEF ReleaseLock
    <3> QED
      BY <1>1, <3>1 DEF IInv, TypeOK
  <2> QED
    BY <2>1, <2>2
<1>3. TypeOK'
  BY <1>1, <1>2 DEF money, callers, IInv, TypeOK
<1>4. Locks'
  BY <1>1, <1>2 DEF money, callers, IInv, TypeOK, Locks, Reserved, Posted
<1>5. Calls' /\ SettledOrReleased'
  BY <1>1 DEF money, callers, IInv, Calls, SettledOrReleased, Reserved, Posted
<1> QED
  BY <1>1, <1>3, <1>4, <1>5, QuietKeeps DEF IInv

LEMMA SweepCrashKeeps == ASSUME IInv, NEW s \in Sweepers, SweepCrash(s) PROVE IInv'
<1> USE CreditAssumption
<1>1. /\ UNCHANGED <<money, callers, walletLock, grant>> /\ faults' \in 0..MaxFaults
      /\ sweep' \in [Sweepers -> [todo : SUBSET Ops, locked : Ops \union {Null}]]
      /\ rowLock' \in [Ops -> Ops \union Sweepers \union {Null}]
      /\ sweep'[s].locked = Null
      /\ \A r \in Sweepers \ {s} : sweep'[r] = sweep[r]
      /\ \A o \in Ops : rowLock'[o] = IF rowLock[o] = s THEN Null ELSE rowLock[o]
  BY DEF SweepCrash, Fault, IInv, TypeOK
<1>2. TypeOK'
  BY <1>1 DEF money, callers, IInv, TypeOK
<1>3. Locks'
  BY <1>1 DEF money, callers, IInv, TypeOK, Locks, Reserved, Posted
<1>4. Calls' /\ SettledOrReleased'
  BY <1>1 DEF money, callers, IInv, Calls, SettledOrReleased, Reserved, Posted
<1> QED
  BY <1>1, <1>2, <1>3, <1>4, QuietKeeps DEF IInv

\* Releasing gives back what a locked reservation held back, in an entry of its own.
LEMMA ReleaseCommitKeeps == ASSUME IInv, NEW s \in Sweepers, ReleaseCommit(s) PROVE IInv'
<1> USE CreditAssumption
<1>0. PICK o \in Ops : sweep[s].locked = o
  BY DEF ReleaseCommit, IInv, TypeOK
<1> DEFINE org   == ledger[Op(o)].org
           delta == -ledger[Op(o)].delta
           e     == EntryAfter(org, "adjustment", delta, delta)
<1>1. rowLock[o] = s /\ Reserved(o) /\ ~Posted(Release(o)) /\ call[o] # "locked"
  <2>2. rowLock[o] = s
    BY <1>0 DEF IInv, Locks
  <2>3. Reserved(o) /\ call[o] # "locked"
    BY <2>2 DEF IInv, Locks
  <2> QED
    BY <2>2, <2>3 DEF IInv, SettledOrReleased, Reserved
<1>2. /\ UNCHANGED <<usage, call, charge, stale, walletLock, grant, faults>>
      /\ MoveBalance(org, delta)
      /\ ledger' = [ledger EXCEPT ![Release(o)] = e, ![Op(o)].type = "adjustment"]
      /\ rowLock' = [rowLock EXCEPT ![o] = Null]
      /\ sweep' = [sweep EXCEPT ![s].locked = Null]
  BY <1>0, <1>1 DEF ReleaseCommit, callers
<1>3. /\ \A p \in Ops : /\ Op(p) \in Keys /\ Release(p) \in Keys
                        /\ Op(p) = Op(o) => p = o
                        /\ Release(p) = Release(o) => p = o
                        /\ Release(p) # Op(o) /\ Release(o) # Op(p)
      /\ \A u \in Subjects : /\ <<"grant", u>> \in Keys
                             /\ <<"grant", u>> # Op(o) /\ <<"grant", u>> # Release(o)
  BY <1>1, KeyFacts
<1>4. /\ ledger[Op(o)] \in Entry /\ org \in Orgs /\ delta \in Reservations /\ delta \in Int
      /\ delta > 0 /\ ledger[Op(o)].delta = -delta
  BY <1>1, <1>3 DEF IInv, TypeOK, Calls, Reserved, Posted, Entry
<1> HIDE DEF org, delta
<1>5. /\ e \in Entry /\ e # Null /\ e.org = org /\ e.delta = delta /\ e.type = "adjustment"
      /\ e.seq = sequence[org] + 1 /\ e.after = balance[org] + delta
  BY <1>4, EntryAfterType DEF IInv
<1> HIDE DEF e
<1>6. /\ ledger' \in [Keys -> Entry \union {Null}]
      /\ ledger'[Release(o)] = e
      /\ ledger'[Op(o)] = [ledger[Op(o)] EXCEPT !.type = "adjustment"]
      /\ \A m \in Keys \ {Op(o), Release(o)} : ledger'[m] = ledger[m]
  <2>1. [ledger[Op(o)] EXCEPT !.type = "adjustment"] \in Entry
    BY <1>4 DEF Entry
  <2> QED
    BY <1>1, <1>2, <1>3, <1>5, <2>1 DEF IInv, TypeOK
<1>7. /\ ledger'[Op(o)] # Null /\ ledger'[Op(o)].type = "adjustment"
      /\ ledger'[Op(o)].org = ledger[Op(o)].org /\ ledger'[Op(o)].delta = ledger[Op(o)].delta
      /\ ledger'[Op(o)].seq = ledger[Op(o)].seq /\ ledger'[Op(o)].after = ledger[Op(o)].after
  <2>1. ledger'[Op(o)] \in Entry
    BY <1>4, <1>6 DEF Entry
  <2> QED
    BY <1>4, <1>6, <2>1 DEF Entry
<1>8. /\ balance' \in [Orgs -> Int] /\ sequence' \in [Orgs -> Nat]
      /\ balance'[org] = balance[org] + delta
      /\ \A g \in Orgs \ {org} : balance'[g] = balance[g]
  BY <1>2, <1>4, Moved DEF IInv
<1>9. /\ sweep' \in [Sweepers -> [todo : SUBSET Ops, locked : Ops \union {Null}]]
      /\ rowLock' \in [Ops -> Ops \union Sweepers \union {Null}]
      /\ sweep'[s].locked = Null /\ sweep[s].locked = o /\ rowLock'[o] = Null
      /\ \A r \in Sweepers \ {s} : sweep'[r] = sweep[r]
      /\ \A p \in Ops \ {o} : rowLock'[p] = rowLock[p]
  BY <1>0, <1>1, <1>2 DEF IInv, TypeOK
<1>10. TypeOK'
  BY <1>2, <1>6, <1>8, <1>9 DEF IInv, TypeOK
<1>11. \A p \in Ops \ {o} : /\ ledger'[Op(p)] = ledger[Op(p)]
                            /\ ledger'[Release(p)] = ledger[Release(p)]
  BY <1>1, <1>3, <1>6
<1>12. Locks'
  <2>1. \A p \in Ops \ {o} : Reserved(p)' <=> Reserved(p)
    BY <1>11 DEF Reserved, Posted
  <2>2. \A r \in Sweepers \ {s} : sweep[r].locked # o
    BY <1>1 DEF IInv, Locks
  <2>3. rowLock'[o] \notin Ops /\ rowLock'[o] \notin Sweepers /\ call'[o] # "locked"
    BY <1>1, <1>2, <1>9
  <2> QED
    BY <1>2, <1>9, <2>1, <2>2, <2>3 DEF IInv, Locks
<1>13. Calls'
  BY <1>1, <1>2, <1>7, <1>11 DEF IInv, Calls, Reserved, Posted
<1>14. SettledOrReleased'
  <2>1. usage[o] = Null
    BY <1>1 DEF IInv, SettledOrReleased, Reserved
  <2> QED
    <3>1. /\ usage'[o] = Null /\ Posted(Op(o))' /\ Posted(Release(o))'
          /\ ledger'[Op(o)].type = "adjustment"
      BY <1>2, <1>5, <1>6, <1>7, <2>1 DEF Posted
    <3>2. \A p \in Ops \ {o} : /\ usage'[p] = usage[p]
                               /\ Posted(Op(p))' <=> Posted(Op(p))
                               /\ Posted(Release(p))' <=> Posted(Release(p))
      BY <1>2, <1>11 DEF Posted
    <3> QED
      BY <1>11, <3>1, <3>2 DEF IInv, SettledOrReleased
<1>15. \A g \in Orgs : Grants(g)' = Grants(g)
  BY <1>3, <1>6, SameGrants
<1>16. Granted' /\ LimitsKept'
  <2>1. \A g \in Orgs : balance[g] >= 0 => balance'[g] >= 0
    BY <1>4, <1>8 DEF IInv, TypeOK
  <2> QED
    BY <1>2, <1>15, <2>1 DEF IInv, TypeOK, Granted, LimitsKept, GrantLimit, NoOverdraft
<1>17. Books'
  <2>1. Release(o) \in Keys /\ ~Posted(Release(o)) /\ Posted(Release(o))' /\ Posted(Op(o)) /\ Posted(Op(o))'
    BY <1>1, <1>3, <1>5, <1>6, <1>7 DEF Reserved, Posted
  <2>2. \A m \in Keys \ {Release(o)} :
            /\ Posted(m)' <=> Posted(m)
            /\ Posted(m) => /\ ledger'[m].org = ledger[m].org
                            /\ ledger'[m].delta = ledger[m].delta
                            /\ ledger'[m].seq = ledger[m].seq
                            /\ ledger'[m].after = ledger[m].after
    BY <1>6, <1>7, <2>1 DEF Posted
  <2>3. e.delta = delta + (IF Posted(Release(o)) THEN ledger[Release(o)].delta ELSE 0)
    BY <1>4, <1>5, <2>1
  <2> QED
    BY <1>2, <1>4, <1>5, <1>6, <2>1, <2>2, <2>3, MoveKeepsBooks DEF IInv
<1> QED
  BY <1>10, <1>12, <1>13, <1>14, <1>16, <1>17 DEF IInv

-----------------------------------------------------------------------------
(* The invariant, and what it says of the ledger *)

LEMMA InitHolds == Init => IInv
<1> SUFFICES ASSUME Init PROVE IInv
  OBVIOUS
<1> USE CreditAssumption
<1>1. TypeOK
  BY DEF Init, TypeOK, CallPhases
<1>2. Locks /\ Calls /\ SettledOrReleased
  BY KeyFacts DEF Init, Locks, Calls, SettledOrReleased, Reserved, Posted
<1>3. \A k \in Keys : ~Posted(k)
  BY DEF Init, Posted
<1>4. /\ \A org \in Orgs : EntriesOf(org) = {} /\ Grants(org) = {}
      /\ {k \in Keys : Posted(k)} = {}
  BY <1>3, KeyFacts DEF EntriesOf, Grants
<1>5. Granted /\ LimitsKept
  <2>1. Cardinality({}) = 0
    BY FS_EmptySet
  <2>2. GrantLimit
    BY <1>4, <2>1 DEF GrantLimit
  <2>3. Granted /\ NoOverdraft
    BY DEF Init, Granted, NoOverdraft
  <2> QED
    BY <2>2, <2>3 DEF LimitsKept
<1>6. BalanceIsLedgerSum
  BY <1>4, TotalOfNone, SumIsTotal DEF Init
<1>7. Books
  <2>1. IsFiniteSet({})
    BY FS_EmptySet
  <2>2. IsFiniteSet({k \in Keys : Posted(k)})
    BY <1>4, <2>1
  <2>3. Statement /\ Numbered
    BY <1>4 DEF Init, Statement, Numbered
  <2> QED
    BY <1>6, <2>2, <2>3 DEF Books
<1> QED
  BY <1>1, <1>2, <1>5, <1>7 DEF IInv

LEMMA StepKeeps == IInv /\ [Next]_vars => IInv'
<1> SUFFICES ASSUME IInv, [Next]_vars PROVE IInv'
  OBVIOUS
<1>1. CASE \E c \in Credits, org \in Orgs : IssueCredit(c, org)
  BY <1>1, IssueCreditKeeps
<1>2. CASE \E q \in Granters : Granting(q)
  BY <1>2, GrantLockKeeps, GrantCountKeeps, GrantCommitKeeps, GrantAbortKeeps DEF Granting
<1>3. CASE \E o \in Ops : Calling(o)
  BY <1>3, ReserveKeeps, StartSettlingKeeps, SettleLockKeeps, SettleCommitKeeps, CallLostKeeps,
     BecomeStaleKeeps DEF Calling
<1>4. CASE \E s \in Sweepers : Sweeping(s)
  BY <1>4, SweepStartKeeps, ReleaseLockKeeps, ReleaseCommitKeeps, SweepCrashKeeps DEF Sweeping
<1>5. CASE UNCHANGED vars
  <2>1. TypeOK' /\ Locks' /\ Calls' /\ SettledOrReleased'
    BY <1>5 DEF vars, IInv, TypeOK, Locks, Calls, SettledOrReleased, Reserved, Posted
  <2> QED
    BY <1>5, <2>1, QuietKeeps DEF vars, money, IInv
<1> QED
  BY <1>1, <1>2, <1>3, <1>4, <1>5 DEF Next

LEMMA Invariant == Spec => []IInv
  BY InitHolds, StepKeeps, PTL DEF Spec

\* No reservation is both settled and released, or either of them twice, whatever
\* settlements, aborted calls and runs of the lifecycle job meet on it.
THEOREM ReservationsEndOnce == Spec => []SettledOrReleased
<1>1. IInv => SettledOrReleased
  BY DEF IInv
<1> QED
  BY <1>1, Invariant, PTL

\* The grant policy is kept though its grants are counted and appended in two
\* statements, and no wallet is overdrawn as long as calls cost at most what they
\* reserved.
THEOREM Limited == Spec => []LimitsKept
<1>1. IInv => LimitsKept
  BY DEF IInv
<1> QED
  BY <1>1, Invariant, PTL

\* The books balance: every balance is the sum of the entries of its wallet, the
\* last of them shows it, and no sequence number of a wallet is given twice.
THEOREM BooksAlwaysBalance == Spec => []BooksBalance
<1>1. IInv => BooksBalance
  BY DEF IInv, Books, BooksBalance
<1> QED
  BY <1>1, Invariant, PTL

-----------------------------------------------------------------------------
(* The metering of streams *)

\* A call records at most one end, from then on it is being settled or is over, and
\* what is settled is that end.
Recording ==
    \A o \in Ops :
        /\ stream[o].recorded # Null => call[o] \notin {"new", "exhausted", "calling"}
        /\ call[o] \in {"settling", "locked"} => charge[o] = stream[o].recorded
        /\ usage[o] # Null => usage[o] = stream[o].recorded
        /\ stream[o].phase \in {"closed", "errored", "cancelled"} => call[o] # "calling"

MInv == IInv /\ stream \in [Ops -> Stream] /\ Recording

\* A step changes the stream of the call it is about, and no other.
OthersStream(o) == stream' \in [Ops -> Stream] /\ \A p \in Ops \ {o} : stream'[p] = stream[p]

LEMMA RecordOnceSteps ==
    ASSUME MInv, NEW o \in Ops, NEW cost \in Charges, RecordOnce(o, cost)
    PROVE  /\ [Next]_vars
           /\ Recorded(o, cost) \in Stream
           /\ Recorded(o, cost).phase = stream[o].phase
           /\ \/ /\ stream[o].recorded = Null /\ StartSettling(o, cost)
                 /\ Recorded(o, cost).recorded = cost
              \/ /\ stream[o].recorded # Null /\ UNCHANGED vars
                 /\ Recorded(o, cost).recorded = stream[o].recorded
<1>1. cost \in Nat /\ stream[o] \in Stream
  BY CreditAssumption DEF MInv
<1>2. /\ Recorded(o, cost) \in Stream
      /\ Recorded(o, cost).phase = stream[o].phase
      /\ Recorded(o, cost).recorded = IF stream[o].recorded = Null THEN cost ELSE stream[o].recorded
  BY <1>1 DEF Recorded, Stream
<1>3. CASE stream[o].recorded = Null
  <2>1. StartSettling(o, cost)
    BY <1>3 DEF RecordOnce
  <2> QED
    BY <1>2, <1>3, <2>1 DEF Next, Calling
<1>4. CASE stream[o].recorded # Null
  <2>1. UNCHANGED vars
    BY <1>4 DEF RecordOnce
  <2> QED
    BY <1>2, <1>4, <2>1
<1> QED
  BY <1>3, <1>4

\* Recording an end keeps the invariant whatever else happens to the stream, as long
\* as the stream keeps what was recorded.
LEMMA RecordOnceKeeps ==
    ASSUME MInv, NEW o \in Ops, NEW cost \in Charges, RecordOnce(o, cost),
           NEW new \in Stream, Becomes(o, new), new.recorded = Recorded(o, cost).recorded
    PROVE  [Next]_vars /\ MInv'
<1>1. [Next]_vars /\ IInv'
  BY RecordOnceSteps, StepKeeps DEF MInv
<1>2. /\ stream' \in [Ops -> Stream] /\ stream'[o] = new
      /\ \A p \in Ops \ {o} : stream'[p] = stream[p]
  BY DEF Becomes, MInv
<1>3. CASE stream[o].recorded = Null
  <2>1. StartSettling(o, cost) /\ new.recorded = cost /\ cost \in Nat
    BY <1>3, RecordOnceSteps, CreditAssumption
  <2>2. usage[o] = Null
    BY <1>3 DEF MInv, Recording
  <2>3. /\ call'[o] = "settling" /\ charge'[o] = cost /\ UNCHANGED usage
        /\ \A p \in Ops \ {o} : call'[p] = call[p] /\ charge'[p] = charge[p]
    BY <2>1, <2>2 DEF StartSettling, money, MInv, IInv, TypeOK
  <2>4. Recording'
    BY <1>2, <2>1, <2>2, <2>3 DEF MInv, Recording
  <2> QED
    BY <1>1, <1>2, <2>4 DEF MInv
<1>4. CASE stream[o].recorded # Null
  <2>1. UNCHANGED vars /\ new.recorded = stream[o].recorded
    BY <1>4, RecordOnceSteps
  <2>2. Recording'
    BY <1>2, <1>4, <2>1 DEF MInv, Recording, vars
  <2> QED
    BY <1>1, <1>2, <2>2 DEF MInv
<1> QED
  BY <1>3, <1>4

\* A step of the stream alone.
LEMMA StreamKeeps ==
    ASSUME MInv, NEW o \in Ops, UNCHANGED vars, NEW new \in Stream, Becomes(o, new),
           new.recorded = stream[o].recorded,
           new.phase \in {"closed", "errored", "cancelled"} => call[o] # "calling"
    PROVE  [Next]_vars /\ MInv'
<1>1. [Next]_vars /\ IInv'
  BY StepKeeps DEF MInv
<1>2. /\ stream' \in [Ops -> Stream] /\ stream'[o] = new
      /\ \A p \in Ops \ {o} : stream'[p] = stream[p]
  BY DEF Becomes, MInv
<1>3. Recording'
  BY <1>2 DEF MInv, Recording, vars
<1> QED
  BY <1>1, <1>2, <1>3 DEF MInv

LEMMA EstimateIsCharge == ASSUME MInv, NEW o \in Ops PROVE Estimate(o) \in Charges
  BY MeteringAssumption DEF MInv, Stream, Estimate

LEMMA OpenKeeps ==
    ASSUME MInv, NEW o \in Ops, NEW amount \in Reservations, Open(o, amount)
    PROVE  [Next]_vars /\ MInv'
<1> DEFINE new == [stream[o] EXCEPT !.phase = IF Covers(OrgOf[o], amount) THEN "opening" ELSE "refused"]
<1>1. [Next]_vars /\ IInv'
  BY StepKeeps DEF MInv, Open, Next, Calling
<1>2. new \in Stream /\ new.phase \in {"opening", "refused"} /\ new.recorded = stream[o].recorded
  BY DEF MInv, Stream
<1>3. Becomes(o, new)
  BY DEF Open
<1> HIDE DEF new
<1>4. /\ stream' \in [Ops -> Stream] /\ stream'[o] = new
      /\ \A p \in Ops \ {o} : stream'[p] = stream[p]
  BY <1>2, <1>3 DEF Becomes, MInv
<1>5. /\ call[o] = "new" /\ call'[o] \in {"exhausted", "calling"} /\ UNCHANGED <<usage, charge>>
      /\ \A p \in Ops \ {o} : call'[p] = call[p]
  BY DEF Open, Reserve, MInv, IInv, TypeOK
<1>6. Recording'
  BY <1>2, <1>4, <1>5 DEF MInv, Recording
<1> QED
  BY <1>1, <1>4, <1>6 DEF MInv

LEMMA ReadingKeeps ==
    ASSUME MInv, NEW o \in Ops, Reading(o)
    PROVE  [Next]_vars /\ MInv'
<1>0. stream[o] \in Stream /\ 0 \in Charges
  BY MeteringAssumption DEF MInv
<1>1. CASE OpenFails(o)
  <2>1. RecordOnce(o, 0) /\ Becomes(o, [Recorded(o, 0) EXCEPT !.pulling = "throw"])
    BY <1>1 DEF OpenFails
  <2>2. Recorded(o, 0) \in Stream
    BY <1>0, <2>1, RecordOnceSteps
  <2>3. /\ [Recorded(o, 0) EXCEPT !.pulling = "throw"] \in Stream
        /\ [Recorded(o, 0) EXCEPT !.pulling = "throw"].recorded = Recorded(o, 0).recorded
    BY <2>2 DEF Stream
  <2> QED
    BY <1>0, <2>1, <2>3, RecordOnceKeeps
<1>2. ASSUME NEW cost \in Costs, Generated(o, cost) \/ Finish(o, cost)
      PROVE  [Next]_vars /\ MInv'
  <2>1. PICK how \in {"last", "chunk"} :
            RecordOnce(o, cost) /\ Becomes(o, [Recorded(o, cost) EXCEPT !.pulling = how])
    BY <1>2 DEF Generated, Finish
  <2>2. cost \in Charges /\ Recorded(o, cost) \in Stream
    BY <2>1, RecordOnceSteps DEF Costs
  <2>3. /\ [Recorded(o, cost) EXCEPT !.pulling = how] \in Stream
        /\ [Recorded(o, cost) EXCEPT !.pulling = how].recorded = Recorded(o, cost).recorded
    BY <2>2 DEF Stream
  <2> QED
    BY <2>1, <2>2, <2>3, RecordOnceKeeps
<1>3. CASE Opened(o) \/ Delta(o)
  <2>1. PICK new \in Stream : /\ Becomes(o, new) /\ UNCHANGED vars
                              /\ new.recorded = stream[o].recorded /\ new.phase = "open"
    <3>1. CASE Opened(o)
      BY <1>0, <3>1 DEF Opened, Stream
    <3>2. CASE Delta(o)
      BY <1>0, <3>2, MeteringAssumption DEF Delta, MayPull, Stream
    <3> QED
      BY <1>3, <3>1, <3>2
  <2> QED
    BY <2>1, StreamKeeps
<1>4. CASE ErrorChunk(o)
  <2>1. RecordOnce(o, 0) /\ Becomes(o, [Recorded(o, 0) EXCEPT !.pulling = "chunk"])
    BY <1>4 DEF ErrorChunk
  <2>2. Recorded(o, 0) \in Stream
    BY <1>0, <2>1, RecordOnceSteps
  <2>3. /\ [Recorded(o, 0) EXCEPT !.pulling = "chunk"] \in Stream
        /\ [Recorded(o, 0) EXCEPT !.pulling = "chunk"].recorded = Recorded(o, 0).recorded
    BY <2>2 DEF Stream
  <2> QED
    BY <1>0, <2>1, <2>3, RecordOnceKeeps
<1>5. CASE End(o)
  <2>1. PICK cost \in Charges, how \in {"last", "throw"} :
            RecordOnce(o, cost) /\ Becomes(o, [Recorded(o, cost) EXCEPT !.pulling = how])
    BY <1>0, <1>5, EstimateIsCharge DEF End
  <2>2. Recorded(o, cost) \in Stream
    BY <2>1, RecordOnceSteps
  <2>3. /\ [Recorded(o, cost) EXCEPT !.pulling = how] \in Stream
        /\ [Recorded(o, cost) EXCEPT !.pulling = how].recorded = Recorded(o, cost).recorded
    BY <2>2 DEF Stream
  <2> QED
    BY <2>1, <2>3, RecordOnceKeeps
<1>6. CASE PullEnds(o)
  <2>1. PICK to \in {"errored", "closed", stream[o].phase} :
            Becomes(o, [stream[o] EXCEPT !.pulling = "no", !.phase = to])
    BY <1>6 DEF PullEnds
  <2>2. /\ [stream[o] EXCEPT !.pulling = "no", !.phase = to] \in Stream
        /\ [stream[o] EXCEPT !.pulling = "no", !.phase = to].recorded = stream[o].recorded
    BY <1>0 DEF Stream
  <2>3. UNCHANGED vars /\ call[o] # "calling"
    BY <1>6 DEF PullEnds, Settled
  <2> QED
    BY <2>1, <2>2, <2>3, StreamKeeps
<1> QED
  BY <1>1, <1>2, <1>3, <1>4, <1>5, <1>6 DEF Reading

LEMMA AbortKeeps == ASSUME MInv, NEW o \in Ops, Abort(o) PROVE [Next]_vars /\ MInv'
<1> DEFINE cost == Estimate(o)
<1>0. stream[o] \in Stream /\ cost \in Charges
  BY EstimateIsCharge DEF MInv
<1> HIDE DEF cost
<1>1. CASE stream[o].phase = "open" /\ stream[o].recorded = Null
  <2>1. RecordOnce(o, cost) /\ Becomes(o, [Recorded(o, cost) EXCEPT !.aborted = TRUE, !.caught = TRUE])
    BY <1>1 DEF Abort, cost
  <2>2. Recorded(o, cost) \in Stream
    BY <1>0, <2>1, RecordOnceSteps
  <2>3. /\ [Recorded(o, cost) EXCEPT !.aborted = TRUE, !.caught = TRUE] \in Stream
        /\ [Recorded(o, cost) EXCEPT !.aborted = TRUE, !.caught = TRUE].recorded = Recorded(o, cost).recorded
    BY <2>2 DEF Stream
  <2> QED
    BY <1>0, <2>1, <2>3, RecordOnceKeeps
<1>2. CASE ~(stream[o].phase = "open" /\ stream[o].recorded = Null)
  <2>1. /\ Becomes(o, [stream[o] EXCEPT !.aborted = TRUE]) /\ UNCHANGED vars
        /\ stream[o].phase \in {"opening", "open"}
    BY <1>2 DEF Abort
  <2>2. /\ [stream[o] EXCEPT !.aborted = TRUE] \in Stream
        /\ [stream[o] EXCEPT !.aborted = TRUE].recorded = stream[o].recorded
        /\ [stream[o] EXCEPT !.aborted = TRUE].phase = stream[o].phase
    BY <1>0 DEF Stream
  <2> QED
    BY <2>1, <2>2, StreamKeeps
<1> QED
  BY <1>1, <1>2

LEMMA CancelKeeps == ASSUME MInv, NEW o \in Ops, Cancel(o) PROVE [Next]_vars /\ MInv'
<1> DEFINE cost == Estimate(o)
<1>0. stream[o] \in Stream /\ cost \in Charges
  BY EstimateIsCharge DEF MInv
<1>1. RecordOnce(o, cost)
      /\ Becomes(o, [Recorded(o, cost) EXCEPT !.phase = "cancelled", !.pulling = "no"])
  BY DEF Cancel
<1> HIDE DEF cost
<1>2. Recorded(o, cost) \in Stream
  BY <1>0, <1>1, RecordOnceSteps
<1>3. /\ [Recorded(o, cost) EXCEPT !.phase = "cancelled", !.pulling = "no"] \in Stream
      /\ [Recorded(o, cost) EXCEPT !.phase = "cancelled", !.pulling = "no"].recorded = Recorded(o, cost).recorded
  BY <1>2 DEF Stream
<1> QED
  BY <1>0, <1>1, <1>3, RecordOnceKeeps

LEMMA LoseKeeps == ASSUME MInv, NEW o \in Ops, Lose(o) PROVE [Next]_vars /\ MInv'
<1>1. [Next]_vars /\ IInv'
  BY StepKeeps DEF MInv, Lose, Next, Calling
<1>2. /\ stream' \in [Ops -> Stream]
      /\ \A p \in Ops : /\ stream'[p].recorded = stream[p].recorded
                        /\ stream'[p].phase \in {"gone", stream[p].phase}
  <2>1. CASE UNCHANGED stream
    BY <2>1 DEF MInv
  <2>2. CASE Becomes(o, [stream[o] EXCEPT !.phase = "gone", !.pulling = "no"])
    <3>1. /\ [stream[o] EXCEPT !.phase = "gone", !.pulling = "no"] \in Stream
          /\ [stream[o] EXCEPT !.phase = "gone", !.pulling = "no"].recorded = stream[o].recorded
          /\ [stream[o] EXCEPT !.phase = "gone", !.pulling = "no"].phase = "gone"
      BY DEF MInv, Stream
    <3> QED
      BY <2>2, <3>1 DEF Becomes, MInv
  <2> QED
    BY <2>1, <2>2 DEF Lose
<1>3. /\ call'[o] = "crashed" /\ call[o] \in {"calling", "settling", "locked"} /\ UNCHANGED <<usage, charge>>
      /\ \A p \in Ops \ {o} : call'[p] = call[p]
  BY DEF Lose, CallLost, money, MInv, IInv, TypeOK
<1>4. Recording'
  BY <1>2, <1>3 DEF MInv, Recording
<1> QED
  BY <1>1, <1>2, <1>4 DEF MInv

LEMMA BookingKeeps ==
    ASSUME MInv, Booking, UNCHANGED stream
    PROVE  [Next]_vars /\ MInv'
<1>1. [Next]_vars
  BY DEF Booking, Next, Calling
<1>2. IInv'
  BY <1>1, StepKeeps DEF MInv
<1>3. ASSUME UNCHANGED <<call, charge, usage>>
      PROVE  Recording'
  BY <1>3 DEF MInv, Recording
<1>4. ASSUME NEW o \in Ops, SettleLock(o)
      PROVE  Recording'
  <2>1. /\ call[o] = "settling" /\ call'[o] \in {"locked", "lost"} /\ UNCHANGED <<usage, charge>>
        /\ \A p \in Ops \ {o} : call'[p] = call[p]
    BY <1>4 DEF SettleLock, money, MInv, IInv, TypeOK
  <2> QED
    BY <2>1 DEF MInv, Recording
<1>5. ASSUME NEW o \in Ops, SettleCommit(o)
      PROVE  Recording'
  <2>1. /\ call[o] = "locked" /\ call'[o] = "done" /\ usage'[o] = charge[o] /\ UNCHANGED charge
        /\ \A p \in Ops \ {o} : call'[p] = call[p] /\ usage'[p] = usage[p]
    BY <1>5 DEF SettleCommit, MInv, IInv, TypeOK
  <2> QED
    BY <2>1 DEF MInv, Recording
<1>6. Recording'
  <2>1. CASE \E c \in Credits, org \in Orgs : IssueCredit(c, org)
    BY <1>3, <2>1 DEF IssueCredit, callers, MInv
  <2>2. CASE \E q \in Granters : Granting(q)
    BY <1>3, <2>2 DEF Granting, GrantLock, GrantCount, GrantCommit, GrantAbort, callers, money
  <2>3. CASE \E o \in Ops : BecomeStale(o)
    BY <1>3, <2>3 DEF BecomeStale, money
  <2>4. CASE \E s \in Sweepers : Sweeping(s)
    BY <1>3, <2>4 DEF Sweeping, SweepStart, ReleaseLock, ReleaseCommit, SweepCrash, callers, money
  <2> QED
    BY <1>4, <1>5, <2>1, <2>2, <2>3, <2>4 DEF Booking
<1> QED
  BY <1>1, <1>2, <1>6 DEF MInv

LEMMA MStepKeeps == MInv /\ [MNext]_mvars => [Next]_vars /\ MInv'
<1> SUFFICES ASSUME MInv, [MNext]_mvars PROVE [Next]_vars /\ MInv'
  OBVIOUS
<1>1. CASE \E o \in Ops : Metering(o)
  BY <1>1, OpenKeeps, ReadingKeeps, AbortKeeps, CancelKeeps, LoseKeeps DEF Metering
<1>2. CASE Booking /\ UNCHANGED stream
  BY <1>2, BookingKeeps
<1>3. CASE UNCHANGED mvars
  <2>1. UNCHANGED vars /\ UNCHANGED stream
    BY <1>3 DEF mvars
  <2>2. IInv'
    BY <2>1, StepKeeps DEF MInv
  <2>3. Recording'
    BY <2>1 DEF vars, MInv, Recording
  <2> QED
    BY <2>1, <2>2, <2>3 DEF MInv
<1> QED
  BY <1>1, <1>2, <1>3 DEF MNext

LEMMA MInitHolds == MInit => Init /\ MInv
<1> SUFFICES ASSUME MInit PROVE Init /\ MInv
  OBVIOUS
<1>1. Init /\ IInv
  BY InitHolds DEF MInit
<1>2. stream \in [Ops -> Stream]
  BY MeteringAssumption DEF MInit, Stream
<1>3. Recording
  BY CreditAssumption DEF MInit, Init, Recording
<1> QED
  BY <1>1, <1>2, <1>3 DEF MInv

\* The metered calls of managed-ai.ts use the wallet as its own specification says:
\* every step of a stream is a step of the wallet or none, so what is proved of the
\* ledger holds of it with all its callers.
THEOREM MeteringUsesLedger == MSpec => Spec
  BY MInitHolds, MStepKeeps, PTL DEF MSpec, Spec

\* No metered call ends unrecorded, and the customer is charged what the first of
\* its ends recorded, whatever ends follow and whenever the usage is written.
THEOREM ChargedOnce == MSpec => []ChargedAsEnded
<1>1. MInv => ChargedAsEnded
  BY DEF MInv, IInv, MTypeOK, Recording, ChargedAsEnded
<1> QED
  BY <1>1, MInitHolds, MStepKeeps, PTL DEF MSpec

=============================================================================
